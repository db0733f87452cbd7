---------------------------- MODULE JobLifecycle ----------------------------
(***************************************************************************)
(* What the daemon promises about the rows of queue.db, without saying how:*)
(* rows are only ever appended, the oldest pending job is started, a       *)
(* started job settles in one outcome, and a settled row never changes.    *)
(*                                                                         *)
(* A job may settle without having been seen "running": the daemon ignores *)
(* the result of the write that records the start.  Even then it is the    *)
(* oldest pending one.  "paused" is an outcome like the others: no         *)
(* operation of the daemon takes a row out of it.                          *)
(***************************************************************************)
EXTENDS Naturals, JobStates

CONSTANT MaxJobs

JobId == 1 .. MaxJobs

VARIABLE st   \* the state column of the jobs table, "absent" before the insert

TypeOK == st \in [JobId -> JobState \cup {"absent"}]

Waiting(i) == st[i] \in {"absent", "pending"}

Oldest(j) == st[j] = "pending" /\ \A i \in JobId : i < j => ~Waiting(i)

Init == st = [j \in JobId |-> "absent"]

Submit(j) ==
    /\ st[j] = "absent"
    /\ \A i \in JobId : i < j => st[i] # "absent"
    /\ st' = [st EXCEPT ![j] = "pending"]

Start(j) ==
    /\ Oldest(j)
    /\ st' = [st EXCEPT ![j] = "running"]

Settle(j, outcome) ==
    /\ st[j] = "running" \/ Oldest(j)
    /\ st' = [st EXCEPT ![j] = outcome]

Next == \E j \in JobId : \/ Submit(j)
                         \/ Start(j)
                         \/ \E outcome \in Outcome : Settle(j, outcome)

Spec == Init /\ [][Next]_st
=============================================================================
