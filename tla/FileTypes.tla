----------------------------- MODULE FileTypes ------------------------------
(***************************************************************************)
(* What a file of a mail is and what it is called on disk: the type its    *)
(* header declares, the one its bytes show and the one its name suggests   *)
(* (mailcore mime.rs, sync/imap/parse.rs), the row the reader shows        *)
(* (feed.rs), the name a written file gets (paths.rs) and the copies that  *)
(* are opened and saved (store/messages/attachment_files.rs).              *)
(*                                                                         *)
(* Bytes are named after what they are; a name is a stem and an extension. *)
(***************************************************************************)
EXTENDS Naturals, Sequences

CONSTANTS Mails,     \* sequences of files [declared, bytes, stem, ext]
          NotYet,    \* not stored, not shown, not opened
          Taken      \* file names the folder of a save holds already

VARIABLES
  mail,    \* the files the server has
  stored,  \* [their indices -> the stored type, or NotYet]
  has,     \* the indices whose bytes are here
  opened,  \* [indices -> [name, mime] handed to the system, or NotYet]
  folder   \* what the folder holds: a set of [name, file], 0 for a file of before

vars == <<mail, stored, has, opened, folder>>

Files == DOMAIN mail

-----------------------------------------------------------------------------
(* Types.                                                                  *)

\* Faulty: any archive is plain.
zip_subtype_Plain(bytes) == "zip"

\* An office file is told by the names inside it; an unknown one is a plain archive.
zip_subtype(bytes) == IF bytes = "docx" THEN "docx" ELSE "zip"

\* "" for bytes without a mark; any sound in the MP4 container is taken for video.
sniff_mime(bytes) ==
  CASE bytes \in {"zip", "docx", "odg"} -> zip_subtype(bytes)
    [] bytes = "ics" -> "calendar"
    [] bytes = "m4a" -> "mp4"
    [] bytes = "text" -> ""
    [] OTHER -> bytes

canonical_mime(m) == CASE m = "ics" -> "calendar" [] m = "jpg" -> "jpeg" [] OTHER -> m

is_generic(m) == m \in {"", "octet"}

mime_for_extension(e) ==
  CASE e \in {"png", "docx", "zip", "mp4", "m4a"} -> e
    [] e = "ics" -> "calendar"
    [] e \in {"jpg", "jpeg"} -> "jpeg"
    [] e = "txt" -> "plain"
    [] OTHER -> ""

extension_for_mime(m) ==
  LET c == canonical_mime(m)
  IN CASE c \in {"png", "docx", "zip", "mp4", "m4a"} -> c
       [] c = "calendar" -> "ics"
       [] c = "jpeg" -> "jpg"
       [] c = "plain" -> "txt"
       [] OTHER -> ""

\* Faulty: what the bytes show always wins.
corrected_mime_Sniffed(declared, bytes) == sniff_mime(bytes)

\* "" where the declared type stands: an archive's mark says less than an
\* office type, and an office mark less than another specific type.
corrected_mime(declared, bytes) ==
  LET seen == sniff_mime(bytes)
  IN IF seen = "zip" THEN IF is_generic(declared) THEN seen ELSE ""
     ELSE IF seen = "docx" THEN IF is_generic(declared) \/ canonical_mime(declared) = "zip" THEN seen ELSE ""
     ELSE IF canonical_mime(declared) # seen THEN seen ELSE ""

\* Without bytes: an alias in its usual spelling, an empty type by the name.
repaired_mime(declared, ext) ==
  IF ~is_generic(declared)
  THEN IF canonical_mime(declared) # declared THEN canonical_mime(declared) ELSE ""
  ELSE mime_for_extension(ext)

Or(a, b) == IF a # "" THEN a ELSE b

\* Faulty: the bytes are not looked at again.
StoredType_Declared(f, with_bytes) == Or(repaired_mime(f.declared, f.ext), f.declared)

\* collect: the bytes in hand beat the header, else its name repairs it.
StoredType(f, with_bytes) ==
  Or(IF with_bytes THEN corrected_mime(f.declared, f.bytes) ELSE "", Or(repaired_mime(f.declared, f.ext), f.declared))

open_mime(m, ext) ==
  Or(repaired_mime(m, ext), IF is_generic(m) THEN "*/*" ELSE canonical_mime(m))

-----------------------------------------------------------------------------
(* Names.                                                                  *)

\* Folders in a name are dropped, a device's name is changed, an empty one replaced.
clean_attachment_name(stem) == CASE stem = "up/a" -> "a" [] stem = "con" -> "_con" [] OTHER -> stem

\* Faulty: the extension stays as the mail wrote it.
safe_name_AsWritten(f, m) ==
  [stem |-> clean_attachment_name(f.stem), ext |-> f.ext, n |-> 0]

\* The extension follows the type where the table knows both.
safe_name(f, m) ==
  LET want == extension_for_mime(m)
      keep == want = "" \/ (f.ext # "" /\ mime_for_extension(f.ext) \in {"", canonical_mime(m)})
  IN IF f.stem = "" THEN [stem |-> "attachment", ext |-> Or(want, "bin"), n |-> 0]
     ELSE [stem |-> clean_attachment_name(f.stem), ext |-> IF keep THEN f.ext ELSE want, n |-> 0]

Names(dir) == {x.name : x \in dir}
numbered(name, n) == [name EXCEPT !.n = n]

\* Faulty: an existing file is replaced.
free_path_Same(dir, name) == name

free_path(dir, name) ==
  numbered(name, CHOOSE n \in 0..Len(mail) + 1 :
    numbered(name, n) \notin Names(dir) /\ \A k \in 0..n - 1 : numbered(name, k) \in Names(dir))

-----------------------------------------------------------------------------
Init ==
  /\ mail \in Mails
  /\ stored = [i \in Files |-> NotYet] /\ opened = [i \in Files |-> NotYet] /\ has = {}
  /\ folder = {[name |-> x, file |-> 0] : x \in Taken}

\* is_preview_part: calendars come with the mail.
Kept(f) == f.ext = "ics" \/ f.declared = "ics"

Sync ==
  /\ \A i \in Files : stored[i] = NotYet
  /\ has' = {i \in Files : Kept(mail[i])}
  /\ stored' = [i \in Files |-> StoredType(mail[i], i \in has')]
  /\ UNCHANGED <<mail, opened, folder>>

Download ==
  /\ has # Files /\ \A i \in Files : stored[i] # NotYet
  /\ has' = Files /\ stored' = [i \in Files |-> StoredType(mail[i], TRUE)]
  /\ UNCHANGED <<mail, opened, folder>>

\* write_attachment_copy and attachmentOpenMime, both from the row as it is now.
Handed(i) ==
  LET name == safe_name(mail[i], stored[i]) IN [name |-> name, mime |-> open_mime(stored[i], name.ext)]
OpenCopy(i) ==
  /\ i \in has /\ opened' = [opened EXCEPT ![i] = Handed(i)]
  /\ UNCHANGED <<mail, stored, has, folder>>

\* One file after the other; one without its bytes is skipped.
After[i \in 0..2] ==
  IF i = 0 \/ i > Len(mail) THEN folder
  ELSE IF i \notin has THEN After[i - 1]
  ELSE LET path == free_path(After[i - 1], safe_name(mail[i], stored[i]))
       IN {x \in After[i - 1] : x.name # path} \cup {[name |-> path, file |-> i]}

SaveAll ==
  /\ has # {} /\ \A x \in folder : x.file = 0
  /\ folder' = After[Len(mail)]
  /\ UNCHANGED <<mail, stored, has, opened>>

Next == Sync \/ Download \/ SaveAll \/ \E i \in Files : OpenCopy(i)

Spec == Init /\ [][Next]_vars

-----------------------------------------------------------------------------
\* "so the file written later opens with the right application" (parse.rs): the
\* type handed over with a file is the one its bytes show, an office type is
\* not lost to its archive's mark, and the name says the same as the type.
OpensRight ==
  \A i \in Files : opened[i] # NotYet =>
    LET f == mail[i]  h == opened[i] IN
    /\ sniff_mime(f.bytes) \notin {"", "zip", "docx"} => h.mime = sniff_mime(f.bytes)
    /\ f.bytes = "docx" => h.mime = IF is_generic(f.declared) \/ f.declared = "zip" THEN "docx"
                                    ELSE canonical_mime(f.declared)
    /\ f.bytes \in {"zip", "odg"} /\ ~is_generic(f.declared) => h.mime = canonical_mime(f.declared)
    /\ extension_for_mime(h.mime) # "" => mime_for_extension(h.name.ext) \in {"", h.mime}

\* "numbering a name that is already taken instead of overwriting it"
\* (attachment_files.rs): a save of all files keeps what was there and each file.
SavedApart ==
  (\E x \in folder : x.file # 0) =>
    /\ Taken = {x.name : x \in {y \in folder : y.file = 0}}
    /\ \A x, y \in folder : x.name = y.name => x = y
    /\ {x.file : x \in folder} \ {0} \in {has, {i \in Files : Kept(mail[i])}}
=============================================================================
