------------------------------ MODULE JobNews -------------------------------
(***************************************************************************)
(* What the daemon promises those who learn of the queue from its events:  *)
(* JobLifecycle, and one event owed for each write of the worker, sent     *)
(* before the next write.  Inserts send none.  Until a write is lost or    *)
(* the daemon dies an outcome is that of a running job, and one runs at a  *)
(* time.                                                                   *)
(***************************************************************************)
EXTENDS JobLifecycle, Sequences

VARIABLES
    owed,    \* the event about the last write, until it is sent
    faulty   \* a write was lost or the daemon died

newsVars == <<st, owed, faulty>>

About(j, s) == <<[job |-> j, state |-> s]>>

NewsInit == Init /\ owed = <<>> /\ faulty = FALSE

Enqueue == (\E j \in JobId : Submit(j)) /\ UNCHANGED <<owed, faulty>>

Runs(j)       == Start(j) /\ (faulty \/ \A i \in JobId : st[i] # "running")
Ends(j, s)    == Settle(j, s) /\ (faulty \/ st[j] = "running")

Write(j, s) ==
    /\ owed = <<>>
    /\ (s = "running" /\ Runs(j)) \/ (s \in Outcome /\ Ends(j, s))
    /\ owed' = About(j, s) /\ UNCHANGED faulty

(* The result of the write is ignored and the event about it is sent.      *)
LoseWrite(j, s) ==
    /\ owed = <<>> /\ s \in {"running"} \cup Outcome
    /\ owed' = About(j, s) /\ faulty' = TRUE
    /\ UNCHANGED st

Send  == owed # <<>> /\ owed' = <<>> /\ UNCHANGED <<st, faulty>>
Crash == owed' = <<>> /\ faulty' = TRUE /\ UNCHANGED st

NewsNext == \/ Enqueue \/ Send \/ Crash
            \/ \E j \in JobId, s \in JobState : Write(j, s) \/ LoseWrite(j, s)

NewsSpec == NewsInit /\ [][NewsNext]_newsVars
=============================================================================
