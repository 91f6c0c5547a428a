------------------------------- MODULE MCNet -------------------------------
(* What runs on the app's own threads, side by side: the session pool, the   *)
(* Android job thread, the push monitor and the desktop bridge.  `part` says *)
(* which one a behaviour is of; their states do not mix.                     *)
EXTENDS SessionPool, NetJobs, PushMonitor, DesktopUi, TLC

VARIABLE part

\* The two kinds of jobs a spinner tells apart.
SpinnerOf == "sync1" :> "Sync" @@ "att" :> "Save"

MCInbox == 1 :> "in1" @@ 2 :> "in2"
MCAccountOf == "in1" :> 1 @@ "arch1" :> 1 @@ "in2" :> 2

NetInit ==
  /\ Init /\ JobsInit /\ DeskInit /\ PushInit
  /\ part \in {"pool", "jobs", "desk", "push"}
  /\ part # "desk" => feed.folder = "in1"
  /\ part # "push" => online

NetNext ==
  \/ part = "pool" /\ Next /\ UNCHANGED <<jobsVars, deskVars, pushVars, part>>
  \/ part = "jobs" /\ JobsNext /\ UNCHANGED <<vars, deskVars, pushVars, part>>
  \/ part = "desk" /\ DeskNext /\ UNCHANGED <<vars, jobsVars, pushVars, part>>
  \/ part = "push" /\ PushNext /\ UNCHANGED <<vars, jobsVars, deskVars, part>>

NetSpec == NetInit /\ [][NetNext]_<<vars, jobsVars, deskVars, pushVars, part>>
=============================================================================
