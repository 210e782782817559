---------------------------- MODULE JobExclusion ----------------------------
(***************************************************************************)
(* What a job lease promises: at most one run of the job at a time has     *)
(* it, and it passes through nobody's hands on its way to another run.     *)
(***************************************************************************)
CONSTANTS Runs, NoRun

VARIABLE holder     \* the run that may count on being alone

Init == holder = NoRun

Take(r) == holder = NoRun /\ holder' = r

Drop == holder' = NoRun

Next == Drop \/ \E r \in Runs : Take(r)

Spec == Init /\ [][Next]_holder
=============================================================================
