--------------------------- MODULE JobQueueProofs ---------------------------
(***************************************************************************)
(* Proofs about JobQueue, for any number of jobs, clients, blocks, crashes *)
(* and failed writes.                                                      *)
(*                                                                         *)
(* TypeOK is not inductive: that EmitOutcome sends an event rests on the   *)
(* engine having left an outcome in the worker's JobItem.  PcOK relates    *)
(* the two program counters; the other invariants rest on TypeOK and PcOK. *)
(***************************************************************************)
EXTENDS JobQueue, TLAPS

PcOK ==
    /\ cur = NoJob <=> wpc = "scan"
    /\ wpc \in {"scan", "mark", "started", "arm"} => epc = "idle"
    /\ wpc = "await" => epc \in {"entry", "copy", "done"}
    /\ wpc \in {"announce", "cleanup"} => epc = "done"
    /\ epc = "done" => job.state \in Outcome

(* Only a control request has signals left to store.                       *)
ReqOK == \A c \in Clients : req[c].todo # {} => req[c].verb \in Verb

Inv1 == TypeOK /\ PcOK /\ ReqOK

USE DEF JobState, Outcome, Terminal, Verb, Signal

(* What the worker holds is a job when it is not between two iterations.   *)
LEMMA CurIsJob == ASSUME Inv1, wpc # "scan" PROVE cur \in JobId
  BY DEF Inv1, TypeOK, PcOK

LEMMA ReqUpdate ==
    ASSUME req \in [Clients -> Handler], ReqOK, NEW c, NEW r \in Handler,
           r.todo # {} => r.verb \in Verb, req' = [req EXCEPT ![c] = r]
    PROVE  req' \in [Clients -> Handler] /\ ReqOK'
  BY DEF ReqOK

LEMMA Inv1Init == Init => Inv1
  BY ConstantsAssumption
     DEF Init, Inv1, TypeOK, PcOK, ReqOK, NoItem, Idle, Item, Event, NoJob, Handler

LEMMA Inv1Next == Inv1 /\ [Next]_vars => Inv1'
  <2> SUFFICES ASSUME Inv1, [Next]_vars PROVE Inv1'
    OBVIOUS
  <2> USE ConstantsAssumption
          DEF Inv1, TypeOK, PcOK, ReqOK, Item, Event, workerVars, faultVars, history
  <2>0. NoJob \notin JobId
    BY DEF NoJob, JobId
  <2>1. CASE Scan
    BY <2>0, <2>1 DEF Scan, Chosen, Runnable
  <2>2. CASE Mark
    BY <2>2 DEF Mark, LoseWrite
  <2>3. CASE EmitStarted
    BY <2>3 DEF EmitStarted
  <2>4. CASE Arm
    <3>1. cur \in JobId
      BY <2>4, CurIsJob DEF Arm
    <3>2. starts' \in [JobId -> Nat]
      BY <2>4, <3>1 DEF Arm
    <3>3. sig' \in [JobId -> Signal \cup {"none"}]
      BY <2>4, <3>1 DEF Arm, Armed
    <3> QED
      BY <2>4, <3>2, <3>3 DEF Arm
  <2>5. CASE Persist
    BY <2>5 DEF Persist, LoseWrite
  <2>6. CASE EmitOutcome
    <3>1. last' \in [JobId -> Event]
      BY <2>6 DEF EmitOutcome
    <3> QED
      BY <2>6, <3>1 DEF EmitOutcome
  <2>7. CASE Cleanup
    BY <2>7 DEF Cleanup, NoItem
  <2>8. CASE Engine \/ EngineFail
    BY <2>8 DEF Engine, EngineCancelledAtEntry, EngineRename, EngineOpen,
                EngineStop, EngineBlock, EngineEof, EngineFail,
                EngineUnchanged, Ends
  <2>9. ASSUME NEW c \in Clients, Request(c) PROVE Inv1'
    BY <2>9 DEF Request, Control, Enqueue, Idle, Handler
  <2>10. ASSUME NEW c \in Clients, Dispatch(c) PROVE Inv1'
    <3>1. CASE StoreSignal(c)
      <4>1. PICK j \in req[c].todo : StoreSignal(c)!(j)
        BY <3>1 DEF StoreSignal
      <4>2. j \in JobId
        BY DEF Handler
      <4>3. SignalOf(req[c].verb) \in Signal
        BY <4>1 DEF SignalOf
      <4>4. sig' \in [JobId -> Signal \cup {"none"}]
        BY <4>1, <4>2, <4>3
      <4>5. asked' \in [JobId -> SUBSET {"pause", "cancel"}]
        BY <4>1, <4>2
      <4>7. req' \in [Clients -> Handler] /\ ReqOK'
        <5>1. LET r == Signalled(req[c], j)
              IN  r \in Handler /\ (r.todo # {} => r.verb \in Verb)
          BY <4>2 DEF Signalled, Idle, Handler
        <5>2. req' = [req EXCEPT ![c] = Signalled(req[c], j)]
          BY <4>1
        <5> QED
          BY ONLY Inv1, <5>1, <5>2, ReqUpdate DEF Inv1, TypeOK
      <4> QED
        BY <4>1, <4>4, <4>5, <4>7
    <3>2. CASE InsertJob(c)
      <4>1. LET r == Inserted(req[c])
            IN  r \in Handler /\ (r.todo # {} => r.verb \in Verb)
        BY <3>2 DEF InsertJob, Inserted, Idle, Handler
      <4>2. req' \in [Clients -> Handler] /\ ReqOK'
        <5>1. req' = [req EXCEPT ![c] = Inserted(req[c])]
          BY <3>2 DEF InsertJob
        <5> QED
          BY ONLY Inv1, <4>1, <5>1, ReqUpdate DEF Inv1, TypeOK
      <4>3. state' \in [JobId -> JobState \cup {"absent"}]
        BY <3>2 DEF InsertJob
      <4> QED
        BY <3>2, <4>1, <4>2, <4>3 DEF InsertJob
    <3>3. CASE RejectItem(c)
      BY <3>3 DEF RejectItem, Idle, Handler
    <3> QED
      BY <2>10, <3>1, <3>2, <3>3 DEF Dispatch
  <2>11. CASE Restart
    BY <2>11 DEF Restart, NoItem, Idle, Handler
  <2>12. CASE UNCHANGED vars
    BY <2>12 DEF vars
  <2> QED
    BY <2>1, <2>2, <2>3, <2>4, <2>5, <2>6, <2>7, <2>8, <2>9, <2>10, <2>11, <2>12
       DEF Next, Worker

LEMMA Inv1Invariant == Spec => []Inv1
  BY Inv1Init, Inv1Next, PTL DEF Spec

(* Every variable keeps its type, whatever the worker, the engine, the     *)
(* handlers and restarts do.                                               *)
THEOREM TypeCorrect == Spec => []TypeOK
  <1>1. Inv1 => TypeOK
    BY DEF Inv1
  <1> QED
    BY <1>1, Inv1Invariant, PTL

-----------------------------------------------------------------------------
(* The state column.  Only three calls of QueueDb write it: update_state,  *)
(* update_job and insert_job.                                              *)

StateWritten ==
    \/ UNCHANGED state
    \/ wpc = "mark" /\ state' = [state EXCEPT ![cur] = "running"]
    \/ /\ wpc = "await" /\ epc = "done"
       /\ state' = [state EXCEPT ![cur] = job.state]
    \/ \E j \in JobId :
        /\ state[j] = "absent"
        /\ \A i \in JobId : i < j => state[i] # "absent"
        /\ state' = [state EXCEPT ![j] = "pending"]

LEMMA OnlyThreeWrites == [Next]_vars => StateWritten
  <1> SUFFICES ASSUME [Next]_vars PROVE StateWritten
    OBVIOUS
  <1> USE DEF StateWritten
  <1>1. CASE Worker
    BY <1>1 DEF Worker, Scan, Mark, EmitStarted, Arm, Persist, EmitOutcome,
                Cleanup, LoseWrite
  <1>2. CASE Engine \/ EngineFail
    BY <1>2 DEF Engine, EngineCancelledAtEntry, EngineRename, EngineOpen,
                EngineStop, EngineBlock, EngineEof, EngineFail, EngineUnchanged
  <1>3. ASSUME NEW c \in Clients, Request(c) PROVE UNCHANGED state
    BY <1>3 DEF Request, Control, Enqueue
  <1>4. ASSUME NEW c \in Clients, Dispatch(c) PROVE StateWritten
    BY <1>4 DEF Dispatch, StoreSignal, InsertJob, RejectItem
  <1>5. CASE Restart
    BY <1>5 DEF Restart
  <1>6. CASE UNCHANGED vars
    BY <1>6 DEF vars
  <1> QED
    BY <1>1, <1>2, <1>3, <1>4, <1>5, <1>6 DEF Next

(* The row of the worker's job follows its program counter; a lost write   *)
(* leaves it behind, in "pending" or "running".                            *)
CurState ==
    /\ wpc = "mark" => state[cur] = "pending"
    /\ wpc \in {"started", "arm", "await"} => state[cur] \in {"pending", "running"}
    /\ wpc \in {"announce", "cleanup"} =>
         state[cur] \in {"pending", "running", job.state}

Contiguous ==
    \A i, j \in JobId : i < j /\ state[j] # "absent" => state[i] # "absent"

CurIsOldest ==
    cur # NoJob =>
        \A i \in JobId : i < cur => state[i] \notin {"absent", "pending"}

Inv2 == Inv1 /\ CurState /\ Contiguous /\ CurIsOldest /\ QueueOrder

LEMMA Inv2Init == Init => Inv2
  BY Inv1Init DEF Init, Inv2, CurState, Contiguous, CurIsOldest, QueueOrder

LEMMA Inv2Next == Inv2 /\ Inv1' /\ [Next]_vars => Inv2'
  <1> SUFFICES ASSUME Inv2, Inv1', [Next]_vars PROVE Inv2'
    OBVIOUS
  <1>0. /\ state \in [JobId -> JobState \cup {"absent"}] /\ job.state \in JobState
        /\ NoJob \notin JobId /\ JobId \subseteq Nat /\ PcOK
        /\ wpc # "scan" => cur \in JobId
    BY ConstantsAssumption, CurIsJob
       DEF Inv2, Inv1, TypeOK, Item, JobId, NoJob
  <1>1. Contiguous' /\ QueueOrder'
    <2>1. StateWritten
      BY OnlyThreeWrites
    <2>2. CASE UNCHANGED state
      BY <2>2 DEF Inv2, Contiguous, QueueOrder
    <2>3. CASE wpc \in {"mark", "await"} /\ \E s \in JobState \ {"pending"} :
                 state' = [state EXCEPT ![cur] = s]
      BY <1>0, <2>3
         DEF Inv2, PcOK, CurState, Contiguous, CurIsOldest, QueueOrder
    <2>4. ASSUME NEW j \in JobId, state[j] = "absent",
                 \A i \in JobId : i < j => state[i] # "absent",
                 state' = [state EXCEPT ![j] = "pending"]
          PROVE  Contiguous' /\ QueueOrder'
      BY <1>0, <2>4 DEF Inv2, Contiguous, QueueOrder
    <2> QED
      BY <1>0, <2>1, <2>2, <2>3, <2>4 DEF StateWritten, PcOK
  <1>2. CurState' /\ CurIsOldest'
    <2> USE <1>0 DEF Inv2, PcOK, CurState, CurIsOldest
    <2>1. CASE Scan
      BY <2>1 DEF Scan, Chosen, Runnable, Contiguous
    <2>2. CASE Mark
      BY <2>2 DEF Mark, LoseWrite
    <2>3. CASE EmitStarted \/ Arm \/ EmitOutcome
      BY <2>3 DEF EmitStarted, Arm, EmitOutcome
    <2>4. CASE Persist
      BY <2>4 DEF Persist, LoseWrite
    <2>5. CASE Cleanup \/ Restart
      BY <2>5 DEF Cleanup, Restart
    <2>6. CASE Engine \/ EngineFail
      BY <2>6 DEF Engine, EngineCancelledAtEntry, EngineRename, EngineOpen,
                  EngineStop, EngineBlock, EngineEof, EngineFail,
                  EngineUnchanged, Ends
    <2>7. ASSUME NEW c \in Clients, Request(c) \/ StoreSignal(c) \/ RejectItem(c)
          PROVE  CurState' /\ CurIsOldest'
      BY <2>7 DEF Request, Control, Enqueue, StoreSignal, RejectItem, workerVars
    <2>8. ASSUME NEW c \in Clients, InsertJob(c) PROVE CurState' /\ CurIsOldest'
      BY <2>8 DEF InsertJob, workerVars
    <2>9. CASE UNCHANGED vars
      BY <2>9 DEF vars, workerVars
    <2> QED
      BY <2>1, <2>2, <2>3, <2>4, <2>5, <2>6, <2>7, <2>8, <2>9
         DEF Next, Worker, Dispatch
  <1> QED
    BY <1>1, <1>2 DEF Inv2

LEMMA Inv2Invariant == Spec => []Inv2
  <1>1. Inv2 => Inv1
    BY DEF Inv2
  <1> QED
    BY <1>1, Inv1Invariant, Inv2Init, Inv2Next, PTL DEF Spec

(* Jobs leave "pending" in the order of their rows: an insert only appends *)
(* and the worker never holds a job with a pending one before it.          *)
THEOREM QueueOrderCorrect == Spec => []QueueOrder
  <1>1. Inv2 => QueueOrder
    BY DEF Inv2
  <1> QED
    BY <1>1, Inv2Invariant, PTL

(* A terminal row is never written again: the two updates go to the row of *)
(* the worker's job, which is pending or running when they happen.         *)
THEOREM TerminalCorrect == Spec => TerminalIsFinal
  <1> DEFINE Kept == \A j \in JobId : state[j] \in Terminal => state'[j] = state[j]
  <1>1. Inv2 /\ [Next]_vars => [Kept]_vars
    <2> SUFFICES ASSUME Inv2, [Next]_vars PROVE Kept
      OBVIOUS
    <2>1. StateWritten
      BY OnlyThreeWrites
    <2>2. state \in [JobId -> JobState \cup {"absent"}]
      BY DEF Inv2, Inv1, TypeOK
    <2> QED
      BY <2>1, <2>2 DEF StateWritten, Inv2, CurState
  <1> QED
    BY <1>1, Inv2Invariant, PTL DEF Spec, TerminalIsFinal

(* The detailed daemon implements the abstract queue: the write that marks *)
(* a job running is Start, the one that records its outcome is Settle, an  *)
(* insert is Submit, and every other step leaves the state column alone.   *)
THEOREM Refinement == Spec => LifecycleSpec
  <1>1. Init => Lifecycle!Init
    BY DEF Init, Lifecycle!Init, Lifecycle!JobId, JobId
  <1>2. Inv2 /\ [Next]_vars => [Lifecycle!Next]_state
    <2> SUFFICES ASSUME Inv2, [Next]_vars PROVE [Lifecycle!Next]_state
      OBVIOUS
    <2> USE DEF Lifecycle!JobId, JobId
    <2>1. StateWritten
      BY OnlyThreeWrites
    <2>2. wpc # "scan" => cur \in JobId /\ CurIsOldest
      BY CurIsJob DEF Inv2
    <2>3. CASE UNCHANGED state
      BY <2>3
    <2>4. CASE wpc = "mark" /\ state' = [state EXCEPT ![cur] = "running"]
      <3>1. Lifecycle!Start(cur)
        BY <2>2, <2>4 DEF Inv2, Inv1, PcOK, CurState, CurIsOldest,
                          Lifecycle!Start, Lifecycle!Oldest, Lifecycle!Waiting
      <3> QED
        BY <2>2, <2>4, <3>1 DEF Lifecycle!Next
    <2>5. CASE /\ wpc = "await" /\ epc = "done"
               /\ state' = [state EXCEPT ![cur] = job.state]
      <3>1. Lifecycle!Settle(cur, job.state)
        BY <2>2, <2>5 DEF Inv2, Inv1, PcOK, CurState, CurIsOldest,
                          Lifecycle!Settle, Lifecycle!Oldest, Lifecycle!Waiting
      <3>2. job.state \in Outcome
        BY <2>5 DEF Inv2, Inv1, PcOK
      <3> QED
        BY <2>2, <2>5, <3>1, <3>2
           DEF Lifecycle!Next, Lifecycle!Outcome, Lifecycle!Terminal
    <2>6. ASSUME NEW j \in JobId, state[j] = "absent",
                 \A i \in JobId : i < j => state[i] # "absent",
                 state' = [state EXCEPT ![j] = "pending"]
          PROVE  Lifecycle!Next
      BY <2>6 DEF Lifecycle!Next, Lifecycle!Submit
    <2> QED
      BY <2>1, <2>3, <2>4, <2>5, <2>6 DEF StateWritten
  <1> QED
    BY <1>1, <1>2, Inv2Invariant, PTL DEF Spec, LifecycleSpec, Lifecycle!Spec

-----------------------------------------------------------------------------
(* Faults.  Every run after the first needs a lost "running" write before  *)
(* it and a second fault after it.  FaultsPaid counts how far a row that   *)
(* still, or again, says "pending" has come on that way.                   *)

Untried(j) == starts[j] <= lostWrites /\ 2 * starts[j] <= crashes + lostWrites

FaultsPaid ==
    /\ \A j \in JobId :
         state[j] = "pending" /\ (cur = j => wpc \notin {"started", "arm", "await"})
            => Untried(j)
    /\ wpc \in {"started", "arm"} => Untried(cur)
    /\ wpc \in {"started", "arm"} /\ state[cur] = "pending" =>
         /\ starts[cur] + 1 <= lostWrites
         /\ 2 * starts[cur] + 1 <= crashes + lostWrites
    /\ wpc = "await" /\ state[cur] = "pending" =>
         /\ starts[cur] <= lostWrites
         /\ 2 * starts[cur] <= crashes + lostWrites + 1

FaultInv ==
    FaultsPaid /\ RerunNeedsTwoFaults /\ \A j \in JobId : state[j] = "absent" => starts[j] = 0

LEMMA FaultInit == Init => FaultInv
  BY DEF Init, FaultInv, FaultsPaid, Untried, RerunNeedsTwoFaults

LEMMA FaultNext == Inv2 /\ Inv1' /\ FaultInv /\ [Next]_vars => FaultInv'
  <1> SUFFICES ASSUME Inv2, Inv1', FaultInv, [Next]_vars PROVE FaultInv'
    OBVIOUS
  <1>0. /\ state \in [JobId -> JobState \cup {"absent"}] /\ job.state \in JobState
        /\ starts \in [JobId -> Nat] /\ crashes \in Nat /\ lostWrites \in Nat
        /\ PcOK /\ CurState
        /\ wpc # "scan" => cur \in JobId
    BY CurIsJob DEF Inv2, Inv1, TypeOK, Item
  <1> USE <1>0 DEF FaultInv, FaultsPaid, Untried, RerunNeedsTwoFaults, PcOK
  <1>1. CASE Scan
    BY <1>1 DEF Scan, Chosen, Runnable, faultVars, history
  <1>2. CASE Mark
    BY <1>2 DEF Mark, LoseWrite, history, CurState
  <1>3. CASE EmitStarted \/ EmitOutcome
    BY <1>3 DEF EmitStarted, EmitOutcome, faultVars, history
  <1>4. CASE Arm
    BY <1>4 DEF Arm, faultVars, CurState
  <1>5. CASE Persist
    BY <1>5 DEF Persist, LoseWrite, history, CurState
  <1>6. CASE Cleanup
    BY <1>6 DEF Cleanup, faultVars, history
  <1>7. CASE Engine \/ EngineFail
    BY <1>7 DEF Engine, EngineCancelledAtEntry, EngineRename, EngineOpen,
                EngineStop, EngineBlock, EngineEof, EngineFail,
                EngineUnchanged, Ends, faultVars, history
  <1>8. ASSUME NEW c \in Clients, Request(c) \/ StoreSignal(c) \/ RejectItem(c)
        PROVE  FaultInv'
    BY <1>8 DEF Request, Control, Enqueue, StoreSignal, RejectItem,
                workerVars, faultVars, history
  <1>9. ASSUME NEW c \in Clients, InsertJob(c) PROVE FaultInv'
    <2>1. PICK j \in JobId : /\ state[j] = "absent"
                             /\ state' = [state EXCEPT ![j] = "pending"]
      BY <1>9 DEF InsertJob
    <2>2. UNCHANGED <<wpc, cur, crashes, lostWrites, starts>>
      BY <1>9 DEF InsertJob, workerVars, faultVars, history
    <2>3. wpc # "scan" => cur # j
      BY <2>1 DEF CurState, Inv2, Inv1, TypeOK
    <2>4. starts[j] = 0
      BY <2>1
    <2>5. \A i \in JobId :
            state'[i] = "pending" /\ (cur = i => wpc \notin {"started", "arm", "await"})
              => Untried(i)
      BY <2>1, <2>4
    <2>6. wpc \in {"started", "arm", "await"} => state'[cur] = state[cur]
      BY <2>1, <2>3
    <2> QED
      BY <2>1, <2>2, <2>5, <2>6
  <1>10. CASE Restart
    <2>1. /\ UNCHANGED <<state, starts, lostWrites>>
          /\ crashes' = crashes + 1 /\ wpc' = "scan"
      BY <1>10 DEF Restart, history
    <2>2. \A j \in JobId : state[j] = "pending" => Untried(j)'
      BY <2>1
    <2>3. RerunNeedsTwoFaults'
      BY <2>1
    <2> QED
      BY <2>1, <2>2, <2>3
  <1>11. CASE UNCHANGED vars
    BY <1>11 DEF vars, workerVars, faultVars, history
  <1> QED
    BY <1>1, <1>2, <1>3, <1>4, <1>5, <1>6, <1>7, <1>8, <1>9, <1>10, <1>11
       DEF Next, Worker, Dispatch

(* However many jobs, crashes and failed writes there are, each repetition *)
(* of a copy costs a failed write and one more fault.                      *)
THEOREM RerunCorrect == Spec => []RerunNeedsTwoFaults
  <1>1. Inv2 => Inv1
    BY DEF Inv2
  <1>2. FaultInv => RerunNeedsTwoFaults
    BY DEF FaultInv
  <1> QED
    BY <1>1, <1>2, Inv1Invariant, Inv2Invariant, FaultInit, FaultNext, PTL DEF Spec

-----------------------------------------------------------------------------
(* Stops.  A stop is attributed all along its way: from the byte in the    *)
(* signals map to the state the engine leaves in the JobItem to the row.   *)

Attributed ==
    /\ \A j \in JobId : sig[j] \in {"pause", "cancel"} => sig[j] \in asked[j]
    /\ epc = "done" /\ job.state = "cancelled" => "cancel" \in asked[cur]
    /\ epc = "done" /\ job.state = "paused" => "pause" \in asked[cur]

StopInv == Attributed /\ StopAttributed

LEMMA StopInit == Init => StopInv
  BY DEF Init, StopInv, Attributed, StopAttributed

LEMMA StopNext == Inv2 /\ Inv1' /\ StopInv /\ [Next]_vars => StopInv'
  <1> SUFFICES ASSUME Inv2, Inv1', StopInv, [Next]_vars PROVE StopInv'
    OBVIOUS
  <1>0. /\ state \in [JobId -> JobState \cup {"absent"}] /\ job.state \in JobState
        /\ sig \in [JobId -> Signal \cup {"none"}] /\ job \in Item
        /\ asked \in [JobId -> SUBSET {"pause", "cancel"}]
        /\ PcOK
        /\ wpc # "scan" => cur \in JobId
    BY CurIsJob DEF Inv2, Inv1, TypeOK, Item
  <1> USE <1>0 DEF StopInv, Attributed, StopAttributed, PcOK
  <1>1. CASE Scan \/ EmitStarted \/ EmitOutcome
    BY <1>1 DEF Scan, EmitStarted, EmitOutcome, history
  <1>2. CASE Mark
    BY <1>2 DEF Mark, LoseWrite, history
  <1>3. CASE Arm
    BY <1>3 DEF Arm, Armed
  <1>4. CASE Persist
    BY <1>4 DEF Persist, LoseWrite, history
  <1>5. CASE Cleanup \/ Restart
    BY <1>5 DEF Cleanup, Restart, history
  <1>6. CASE Engine \/ EngineFail
    <2>1. UNCHANGED <<state, cur, sig, asked>> /\ cur \in JobId
      BY <1>6 DEF Engine, EngineCancelledAtEntry, EngineRename, EngineOpen,
                  EngineStop, EngineBlock, EngineEof, EngineFail,
                  EngineUnchanged, history
    <2>2. /\ epc' = "done" /\ job'.state = "cancelled" => sig[cur] = "cancel"
          /\ epc' = "done" /\ job'.state = "paused" => sig[cur] = "pause"
      BY <1>6 DEF Engine, EngineCancelledAtEntry, EngineRename, EngineOpen,
                  EngineStop, EngineBlock, EngineEof, EngineFail, Ends, Item
    <2> QED
      BY <2>1, <2>2
  <1>7. ASSUME NEW c \in Clients, Request(c) \/ InsertJob(c) \/ RejectItem(c)
        PROVE  StopInv'
    <2>1. UNCHANGED <<workerVars, sig, history>>
      BY <1>7 DEF Request, Control, Enqueue, InsertJob, RejectItem
    <2>2. \A j \in JobId : state'[j] = state[j] \/ state'[j] = "pending"
      BY <1>7 DEF Request, Control, Enqueue, InsertJob, RejectItem
    <2> QED
      BY <2>1, <2>2 DEF workerVars, history
  <1>8. ASSUME NEW c \in Clients, StoreSignal(c) PROVE StopInv'
    <2>1. PICK j \in req[c].todo : StoreSignal(c)!(j)
      BY <1>8 DEF StoreSignal
    <2>2. j \in JobId /\ req[c].verb \in Verb
      BY DEF Inv2, Inv1, TypeOK, ReqOK, Handler
    <2>3. SignalOf(req[c].verb) \in {"pause", "cancel"} =>
            SignalOf(req[c].verb) \in {req[c].verb} \ {"resume"}
      BY <2>2 DEF SignalOf
    <2>4. \A i \in JobId : asked[i] \subseteq asked'[i]
      BY <2>1, <2>2
    <2>5. \A i \in JobId : sig'[i] \in {"pause", "cancel"} => sig'[i] \in asked'[i]
      BY <2>1, <2>2, <2>3
    <2> QED
      BY <2>1, <2>4, <2>5 DEF workerVars
  <1>9. CASE UNCHANGED vars
    BY <1>9 DEF vars, workerVars, history
  <1> QED
    BY <1>1, <1>2, <1>3, <1>4, <1>5, <1>6, <1>7, <1>8, <1>9
       DEF Next, Worker, Dispatch

(* No job is stopped by a signal stored for another, with any number of    *)
(* handlers storing signals while the worker moves from job to job.        *)
THEOREM StopCorrect == Spec => []StopAttributed
  <1>1. Inv2 => Inv1
    BY DEF Inv2
  <1>2. StopInv => StopAttributed
    BY DEF StopInv
  <1> QED
    BY <1>1, <1>2, Inv1Invariant, Inv2Invariant, StopInit, StopNext, PTL DEF Spec

-----------------------------------------------------------------------------
(* Events and the signals map.                                             *)

(* Until a write is lost the row is ahead of the event, never behind it.   *)
PersistedFirst ==
    wpc \in {"announce", "cleanup"} => state[cur] = job.state \/ lostWrites > 0

(* The entry the engine reads lives from Arm to Cleanup.                   *)
EntryKept == wpc \in {"await", "announce", "cleanup"} => sig[cur] # "none"

EventInv == PersistedFirst /\ EntryKept /\ AnnouncedIsPersisted

LEMMA EventInit == Init => EventInv
  BY DEF Init, EventInv, PersistedFirst, EntryKept, AnnouncedIsPersisted

LEMMA EventNext == Inv2 /\ Inv1' /\ EventInv /\ [Next]_vars => EventInv'
  <1> SUFFICES ASSUME Inv2, Inv1', EventInv, [Next]_vars PROVE EventInv'
    OBVIOUS
  <1>0. /\ state \in [JobId -> JobState \cup {"absent"}] /\ job \in Item
        /\ job.state \in JobState
        /\ sig \in [JobId -> Signal \cup {"none"}] /\ last \in [JobId -> Event]
        /\ lostWrites \in Nat /\ PcOK /\ CurState
        /\ wpc # "scan" => cur \in JobId
        /\ wpc \in {"scan", "mark", "started", "arm", "await", "announce", "cleanup"}
    BY CurIsJob DEF Inv2, Inv1, TypeOK, Item
  <1> USE <1>0 DEF EventInv, PersistedFirst, EntryKept, AnnouncedIsPersisted, PcOK
  <1>1. CASE Scan
    BY <1>1 DEF Scan, faultVars
  <1>2. CASE Mark
    BY <1>2 DEF Mark, LoseWrite, CurState
  <1>3. CASE EmitStarted
    BY <1>3 DEF EmitStarted, faultVars
  <1>4. CASE Arm
    BY <1>4 DEF Arm, Armed, faultVars
  <1>5. CASE Persist
    BY <1>5 DEF Persist, LoseWrite, CurState
  <1>6. CASE EmitOutcome
    BY <1>6 DEF EmitOutcome, faultVars
  <1>7. CASE Cleanup
    BY <1>7 DEF Cleanup, faultVars
  <1>8. CASE Engine \/ EngineFail
    BY <1>8 DEF Engine, EngineCancelledAtEntry, EngineRename, EngineOpen,
                EngineStop, EngineBlock, EngineEof, EngineFail,
                EngineUnchanged, Ends, faultVars
  <1>9. ASSUME NEW c \in Clients, Request(c) \/ RejectItem(c) PROVE EventInv'
    BY <1>9 DEF Request, Control, Enqueue, RejectItem, workerVars, faultVars
  <1>10. ASSUME NEW c \in Clients, StoreSignal(c) PROVE EventInv'
    <2>1. PICK j \in req[c].todo : StoreSignal(c)!(j)
      BY <1>10 DEF StoreSignal
    <2>2. j \in JobId /\ SignalOf(req[c].verb) # "none"
      BY DEF Inv2, Inv1, TypeOK, ReqOK, Handler, SignalOf
    <2> QED
      BY <2>1, <2>2 DEF workerVars, faultVars
  <1>11. ASSUME NEW c \in Clients, InsertJob(c) PROVE EventInv'
    <2>1. PICK j \in JobId : /\ state[j] = "absent"
                             /\ state' = [state EXCEPT ![j] = "pending"]
      BY <1>11 DEF InsertJob
    <2>2. UNCHANGED <<wpc, cur, job, epc, sig, last, lostWrites>>
      BY <1>11 DEF InsertJob, workerVars, faultVars
    <2>3. wpc # "scan" => cur # j
      BY <2>1 DEF CurState
    <2> QED
      BY <2>1, <2>2, <2>3 DEF Event
  <1>12. CASE Restart
    BY <1>12 DEF Restart
  <1>13. CASE UNCHANGED vars
    BY <1>13 DEF vars, workerVars, faultVars
  <1> QED
    BY <1>1, <1>2, <1>3, <1>4, <1>5, <1>6, <1>7, <1>8, <1>9, <1>10, <1>11,
       <1>12, <1>13 DEF Next, Worker, Dispatch

LEMMA EventInvariant == Spec => []EventInv
  <1>1. Inv2 => Inv1
    BY DEF Inv2
  <1> QED
    BY <1>1, Inv1Invariant, Inv2Invariant, EventInit, EventNext, PTL DEF Spec

(* No client is told of an outcome the database does not hold, unless a    *)
(* write failed.                                                           *)
THEOREM AnnouncedCorrect == Spec => []AnnouncedIsPersisted
  <1>1. EventInv => AnnouncedIsPersisted
    BY DEF EventInv
  <1> QED
    BY <1>1, EventInvariant, PTL

(* A handler that looks up the signal of the running job finds the byte    *)
(* the engine reads.                                                       *)
THEOREM ReachableCorrect == Spec => []EngineReachable
  <1>1. Inv1 /\ EventInv => EngineReachable
    BY DEF Inv1, TypeOK, PcOK, EventInv, EntryKept, EngineReachable
  <1> QED
    BY <1>1, Inv1Invariant, EventInvariant, PTL
-----------------------------------------------------------------------------
(* What the daemon tells of the table.  Until a fault a row is running     *)
(* exactly while the worker is between the two writes of its job.          *)

Faulty == crashes + lostWrites > 0

OneRuns ==
    ~Faulty =>
        /\ \A j \in JobId : state[j] = "running" => j = cur /\ wpc \in {"started", "arm", "await"}
        /\ wpc \in {"started", "arm", "await"} => state[cur] = "running"

LEMMA FaultsCount ==
    ASSUME Inv1, Inv1', [Next]_vars
    PROVE  /\ Restart \/ LoseWrite => Faulty'
           /\ Faulty => Faulty'
  <1>1. /\ crashes \in Nat /\ lostWrites \in Nat
        /\ crashes' \in Nat /\ lostWrites' \in Nat
    BY DEF Inv1, TypeOK
  <1>2. /\ Restart => crashes' = crashes + 1 /\ lostWrites' = lostWrites
        /\ LoseWrite => lostWrites' = lostWrites + 1
    BY DEF Restart, LoseWrite
  <1>3. crashes' >= crashes /\ lostWrites' >= lostWrites
    <2>1. CASE UNCHANGED faultVars
      BY <1>1, <2>1 DEF faultVars
    <2>2. CASE Mark \/ Persist
      BY <1>1, <2>2 DEF Mark, Persist, LoseWrite
    <2>3. CASE Restart
      BY <1>1, <1>2, <2>3
    <2> QED
      BY <2>1, <2>2, <2>3
         DEF Next, Worker, Engine, Scan, EmitStarted, Arm, EmitOutcome, Cleanup,
             EngineCancelledAtEntry, EngineRename, EngineOpen, EngineStop, EngineBlock,
             EngineEof, EngineFail, EngineUnchanged, Request, Control, Enqueue, Dispatch,
             StoreSignal, InsertJob, RejectItem, vars
  <1> DEFINE a == crashes
             b == lostWrites
             c == crashes'
             d == lostWrites'
  <1>4. \A i, j, k, m \in Nat :
          /\ i <= k /\ j <= m /\ i + j > 0 => k + m > 0
          /\ k = i + 1 \/ m = j + 1 => k + m > 0
    OBVIOUS
  <1> HIDE DEF a, b, c, d
  <1>5. a \in Nat /\ b \in Nat /\ c \in Nat /\ d \in Nat /\ a <= c /\ b <= d
    BY <1>1, <1>3 DEF a, b, c, d
  <1>6. crashes + lostWrites > 0 => crashes' + lostWrites' > 0
    BY <1>4, <1>5 DEF a, b, c, d
  <1>7. ASSUME Restart \/ LoseWrite PROVE crashes' + lostWrites' > 0
    <2>1. c = a + 1 \/ d = b + 1
      BY <1>2, <1>7 DEF a, b, c, d
    <2>2. c + d > 0
      BY <1>4, <1>5, <2>1
    <2> QED
      BY <2>2 DEF c, d
  <1> QED
    BY <1>6, <1>7 DEF Faulty

(* The actions as the events show them: the three kinds that change the    *)
(* table or send, and the rest, which do neither.                          *)
LEMMA NewsActions ==
    ASSUME Inv1, [Next]_vars
    PROVE  \/ Mark \/ EmitStarted \/ Persist \/ EmitOutcome \/ Restart
           \/ \E c \in Clients : InsertJob(c)
           \/ /\ UNCHANGED <<state, faultVars>>
              /\ \/ wpc = "scan" /\ wpc' = "mark"
                 \/ wpc = "arm" /\ wpc' = "await" /\ cur' = cur
                 \/ wpc = "cleanup" /\ wpc' = "scan"
                 \/ wpc = "await" /\ wpc' = "await" /\ cur' = cur
                 \/ UNCHANGED <<wpc, cur, job>>
  <1> USE DEF workerVars, faultVars
  <1>1. CASE Scan \/ Arm \/ Cleanup
    BY <1>1 DEF Scan, Arm, Cleanup
  <1>2. CASE Engine \/ EngineFail
    <2>1. wpc = "await"
      BY <1>2 DEF Inv1, TypeOK, PcOK, Engine, EngineCancelledAtEntry, EngineRename, EngineOpen,
                  EngineStop, EngineBlock, EngineEof, EngineFail
    <2>2. UNCHANGED <<state, wpc, cur, faultVars>>
      BY <1>2 DEF Engine, EngineCancelledAtEntry, EngineRename, EngineOpen,
                  EngineStop, EngineBlock, EngineEof, EngineFail, EngineUnchanged
    <2> QED
      BY <2>1, <2>2
  <1>3. ASSUME NEW c \in Clients, Request(c) \/ StoreSignal(c) \/ RejectItem(c)
        PROVE  UNCHANGED <<state, faultVars, wpc, cur, job>>
    BY <1>3 DEF Request, Control, Enqueue, StoreSignal, RejectItem
  <1>4. CASE UNCHANGED vars
    BY <1>4 DEF vars
  <1> QED
    BY <1>1, <1>2, <1>3, <1>4 DEF Next, Worker, Dispatch

LEMMA NextOneRuns == Inv2 /\ Inv1' /\ OneRuns /\ [Next]_vars => OneRuns'
  <1> SUFFICES ASSUME Inv2, Inv1', OneRuns, [Next]_vars, ~Faulty'
               PROVE  (/\ \A j \in JobId : state[j] = "running" =>
                              j = cur /\ wpc \in {"started", "arm", "await"}
                       /\ wpc \in {"started", "arm", "await"} => state[cur] = "running")'
    BY DEF OneRuns
  <1>1. Inv1 /\ CurState /\ PcOK /\ state \in [JobId -> JobState \cup {"absent"}]
    BY DEF Inv2, Inv1, TypeOK
  <1>2. ~Restart /\ ~LoseWrite /\ ~Faulty
    BY <1>1, FaultsCount
  <1>3. /\ \A j \in JobId : state[j] = "running" => j = cur /\ wpc \in {"started", "arm", "await"}
        /\ wpc \in {"started", "arm", "await"} => state[cur] = "running"
    BY <1>2 DEF OneRuns
  <1>4. CASE Mark
    <2>1. cur \in JobId
      BY <1>1, <1>4, CurIsJob DEF Mark
    <2>2. state' = [state EXCEPT ![cur] = "running"] /\ wpc' = "started" /\ cur' = cur
      BY <1>2, <1>4 DEF Mark
    <2> QED
      BY <1>1, <1>3, <1>4, <2>1, <2>2 DEF Mark
  <1>5. CASE Persist
    <2>1. cur \in JobId /\ job.state \in Outcome
      BY <1>1, <1>5, CurIsJob DEF Persist, PcOK
    <2>2. state' = [state EXCEPT ![cur] = job.state] /\ wpc' = "announce" /\ cur' = cur
      BY <1>2, <1>5 DEF Persist
    <2> QED
      BY <1>1, <1>3, <2>1, <2>2
  <1>6. CASE EmitStarted \/ EmitOutcome
    BY <1>3, <1>6 DEF EmitStarted, EmitOutcome
  <1>7. ASSUME NEW c \in Clients, InsertJob(c)
        PROVE  (/\ \A j \in JobId : state[j] = "running" =>
                       j = cur /\ wpc \in {"started", "arm", "await"}
                /\ wpc \in {"started", "arm", "await"} => state[cur] = "running")'
    <2>1. PICK j \in JobId : state[j] = "absent" /\ state' = [state EXCEPT ![j] = "pending"]
      BY <1>7 DEF InsertJob
    <2>2. UNCHANGED <<wpc, cur>>
      BY <1>7 DEF InsertJob, workerVars
    <2> QED
      BY <1>1, <1>3, <2>1, <2>2
  <1>8. CASE /\ UNCHANGED <<state, faultVars>>
             /\ \/ wpc = "scan" /\ wpc' = "mark"
                \/ wpc = "arm" /\ wpc' = "await" /\ cur' = cur
                \/ wpc = "cleanup" /\ wpc' = "scan"
                \/ wpc = "await" /\ wpc' = "await" /\ cur' = cur
                \/ UNCHANGED <<wpc, cur, job>>
    BY <1>3, <1>8
  <1> QED
    BY <1>1, <1>2, <1>4, <1>5, <1>6, <1>7, <1>8, NewsActions

(* The event the daemon owes, by where the worker is.                      *)
LEMMA OwedNow ==
    /\ wpc = "started" => Owed = <<[job |-> cur, state |-> "running"]>>
    /\ wpc = "announce" => Owed = <<[job |-> cur, state |-> job.state]>>
    /\ wpc \notin {"started", "announce"} => Owed = <<>>
  BY DEF Owed

LEMMA OwedNext ==
    /\ wpc' = "started" => Owed' = <<[job |-> cur', state |-> "running"]>>
    /\ wpc' = "announce" => Owed' = <<[job |-> cur', state |-> job'.state]>>
    /\ wpc' \notin {"started", "announce"} => Owed' = <<>>
  BY DEF Owed

LEMMA StepIsNews ==
    ASSUME Inv2, Inv1', OneRuns, [Next]_vars
    PROVE  [News!NewsNext]_(News!newsVars)
  <1> USE DEF News!JobId, JobId, News!About
  <1>1. Inv1 /\ CurState /\ PcOK /\ CurIsOldest /\ Contiguous
    BY DEF Inv2, Inv1
  <1>2. wpc # "scan" => cur \in JobId
    BY <1>1, CurIsJob
  <1>3. wpc # "scan" /\ state[cur] = "pending" => News!Oldest(cur)
    BY <1>1, <1>2 DEF CurIsOldest, PcOK, News!Oldest, News!Waiting
  <1>4. UNCHANGED faultVars => (crashes + lostWrites > 0)' = (crashes + lostWrites > 0)
    BY DEF faultVars
  <1>5. CASE Mark
    <2>1. Owed = <<>> /\ Owed' = <<[job |-> cur, state |-> "running"]>>
      BY <1>5, OwedNow, OwedNext DEF Mark
    <2>2. CASE state' = [state EXCEPT ![cur] = "running"] /\ UNCHANGED faultVars
      <3>1. News!Start(cur)
        BY <1>1, <1>3, <1>5, <2>2 DEF Mark, CurState, News!Start
      <3>2. (crashes + lostWrites > 0) \/ \A i \in JobId : state[i] # "running"
        BY <1>5 DEF Mark, OneRuns, Faulty
      <3>3. News!Write(cur, "running")
        BY <1>4, <2>1, <2>2, <3>1, <3>2 DEF News!Write, News!Runs
      <3> QED
        BY <1>2, <1>5, <3>3 DEF Mark, News!NewsNext, News!JobState
    <2>3. CASE LoseWrite
      <3>1. (crashes + lostWrites > 0)' = TRUE
        BY <1>1, <2>3, FaultsCount DEF Faulty
      <3>2. News!LoseWrite(cur, "running")
        BY <2>1, <2>3, <3>1 DEF News!LoseWrite, LoseWrite
      <3> QED
        BY <1>2, <1>5, <3>2 DEF Mark, News!NewsNext, News!JobState
    <2> QED
      BY <1>5, <2>2, <2>3 DEF Mark, faultVars
  <1>6. CASE Persist
    <2>1. Owed = <<>> /\ Owed' = <<[job |-> cur, state |-> job.state]>>
      BY <1>6, OwedNow, OwedNext DEF Persist
    <2>2. job.state \in Outcome
      BY <1>1, <1>6 DEF Persist, PcOK
    <2>3. CASE state' = [state EXCEPT ![cur] = job.state] /\ UNCHANGED faultVars
      <3>1. News!Settle(cur, job.state)
        BY <1>1, <1>3, <1>6, <2>3 DEF Persist, CurState, News!Settle
      <3>2. (crashes + lostWrites > 0) \/ state[cur] = "running"
        BY <1>6 DEF Persist, OneRuns, Faulty
      <3>3. News!Write(cur, job.state)
        BY <1>4, <2>1, <2>2, <2>3, <3>1, <3>2
           DEF News!Write, News!Ends, News!Outcome, News!Terminal
      <3> QED
        BY <1>2, <1>6, <2>2, <3>3 DEF Persist, News!NewsNext, News!JobState
    <2>4. CASE LoseWrite
      <3>1. (crashes + lostWrites > 0)' = TRUE
        BY <1>1, <2>4, FaultsCount DEF Faulty
      <3>2. News!LoseWrite(cur, job.state)
        BY <2>1, <2>2, <2>4, <3>1 DEF News!LoseWrite, LoseWrite, News!Outcome, News!Terminal
      <3> QED
        BY <1>2, <1>6, <2>2, <3>2 DEF Persist, News!NewsNext, News!JobState
    <2> QED
      BY <1>6, <2>3, <2>4 DEF Persist, faultVars
  <1>7. CASE EmitStarted \/ EmitOutcome
    <2>1. Owed # <<>> /\ Owed' = <<>>
      BY <1>7, OwedNow, OwedNext DEF EmitStarted, EmitOutcome
    <2>2. UNCHANGED <<state, faultVars>>
      BY <1>7 DEF EmitStarted, EmitOutcome, faultVars
    <2> QED
      BY <1>4, <2>1, <2>2 DEF News!NewsNext, News!Send
  <1>8. CASE Restart
    <2>1. Owed' = <<>> /\ UNCHANGED state
      BY <1>8, OwedNext DEF Restart
    <2>2. (crashes + lostWrites > 0)' = TRUE
      BY <1>1, <1>8, FaultsCount DEF Faulty
    <2> QED
      BY <2>1, <2>2 DEF News!NewsNext, News!Crash
  <1>9. ASSUME NEW c \in Clients, InsertJob(c) PROVE News!NewsNext
    <2>1. PICK j \in JobId : /\ state[j] = "absent"
                             /\ \A i \in JobId : i < j => state[i] # "absent"
                             /\ state' = [state EXCEPT ![j] = "pending"]
      BY <1>9 DEF InsertJob
    <2>2. UNCHANGED <<wpc, cur, job, faultVars>>
      BY <1>9 DEF InsertJob, workerVars
    <2>3. Owed' = Owed
      BY <2>2 DEF Owed
    <2>4. News!Submit(j)
      BY <2>1 DEF News!Submit
    <2> QED
      BY <1>4, <2>2, <2>3, <2>4 DEF News!NewsNext, News!Enqueue
  <1>10. CASE /\ UNCHANGED <<state, faultVars>>
              /\ \/ wpc = "scan" /\ wpc' = "mark"
                 \/ wpc = "arm" /\ wpc' = "await" /\ cur' = cur
                 \/ wpc = "cleanup" /\ wpc' = "scan"
                 \/ wpc = "await" /\ wpc' = "await" /\ cur' = cur
                 \/ UNCHANGED <<wpc, cur, job>>
    <2>1. Owed' = Owed
      <3>1. CASE UNCHANGED <<wpc, cur, job>>
        BY <3>1 DEF Owed
      <3>2. CASE wpc \notin {"started", "announce"} /\ wpc' \notin {"started", "announce"}
        BY <3>2, OwedNow, OwedNext
      <3> QED
        BY <1>10, <3>1, <3>2
    <2> QED
      BY <1>4, <1>10, <2>1 DEF News!newsVars
  <1> QED
    BY <1>1, <1>5, <1>6, <1>7, <1>8, <1>9, <1>10, NewsActions

(* Whoever watches the table and the events sees the daemon JobNews        *)
(* promises: each write is told once and before the next, and only a lost  *)
(* write or the daemon's death lets the two disagree.                      *)
THEOREM NewsRefinement == Spec => NewsSpec
  <1>1. Init => News!NewsInit /\ OneRuns
    <2> SUFFICES ASSUME Init PROVE News!NewsInit /\ OneRuns
      OBVIOUS
    <2>1. wpc = "scan" /\ state = [j \in JobId |-> "absent"] /\ crashes = 0 /\ lostWrites = 0
      BY DEF Init
    <2>2. Owed = <<>>
      BY <2>1, OwedNow
    <2>3. ~(crashes + lostWrites > 0)
      BY <2>1
    <2>4. (crashes + lostWrites > 0) = FALSE
      BY <2>3
    <2>5. OneRuns
      BY <2>1 DEF OneRuns
    <2> QED
      BY <2>1, <2>2, <2>4, <2>5 DEF News!NewsInit, News!Init, News!JobId, JobId
  <1>2. Inv2 => Inv1
    BY DEF Inv2
  <1>3. Inv2 /\ Inv1' /\ OneRuns /\ [Next]_vars => OneRuns' /\ [News!NewsNext]_(News!newsVars)
    BY NextOneRuns, StepIsNews
  <1> QED
    BY <1>1, <1>2, <1>3, Inv2Invariant, PTL DEF Spec, NewsSpec, News!NewsSpec
=============================================================================
