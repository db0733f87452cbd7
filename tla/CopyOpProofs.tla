---------------------------- MODULE CopyOpProofs ----------------------------
(***************************************************************************)
(* Proofs about CopyOp, for any set of paths, any file sizes and any       *)
(* number of failing calls.                                                *)
(***************************************************************************)
EXTENDS CopyOp, TLAPS

(* While a run lasts, what it has counted is what it has read.             *)
Counted ==
    /\ pc # "idle" => job.state = "running" /\ job.copied = offset
    /\ pc \in {"entry", "open", "create"} => offset = 0
    /\ pc \in {"create", "copy", "undo", "unlink"} => fs[src] # NoFile
    /\ pc \in {"entry", "open", "create", "copy"} => job.hash = NoFile
    /\ pc = "copy" => offset <= fs[src].blocks
    /\ pc = "copy" /\ ~Distinct => fs[src].blocks = 0

(* Where the contents of the source are at each call of a run on two       *)
(* different files.                                                        *)
Placed ==
    Distinct =>
        /\ pc \in {"entry", "open", "create", "copy", "undo", "unlink"} =>
             fs[src] = before[src]
        /\ pc \in {"entry", "open", "create"} => fs[dst] = before[dst]
        /\ pc \in {"copy", "undo"} =>
             fs[dst] = [of |-> before[src].of, blocks |-> offset]
        /\ pc = "unlink" => job.op = "move"
        /\ pc \in {"unlink", "finish"} =>
             fs[dst] = before[src] /\ job.hash \in {NoFile, before[src]}
        /\ pc = "finish" =>
             fs[src] = IF job.op = "copy" THEN before[src] ELSE NoFile

Outcomes ==
    /\ MoveNeverLoses /\ CompletedIsWhole /\ UnfinishedKeepsSource
    /\ PausedIsPrefix /\ CancelLeavesNoPartial

IInv == TypeOK /\ Counted /\ Placed /\ Outcomes

USE CopyConstants
    DEF Content, NoFile, Job, JobState, Operation, Signal, src, dst, Distinct

LEMMA InitIInv == Init => IInv
  BY DEF Init, IInv, TypeOK, Counted, Placed, Outcomes, MoveNeverLoses,
         CompletedIsWhole, UnfinishedKeepsSource, PausedIsPrefix,
         CancelLeavesNoPartial

LEMMA NextTypeOK == IInv /\ [Next]_vars => TypeOK'
  <1> SUFFICES ASSUME IInv, [Next]_vars PROVE TypeOK'
    OBVIOUS
  <1> USE DEF IInv, TypeOK
  <1>1. ASSUME NEW s \in Path, NEW d \in Path, NEW op \in Operation,
               NEW verify \in BOOLEAN, Begin(s, d, op, verify)
        PROVE  TypeOK'
    BY <1>1 DEF Begin
  <1>2. ASSUME NEW verb \in {"pause", "cancel"}, StoreSignal(SignalOf(verb))
        PROVE  TypeOK'
    BY <1>2 DEF StoreSignal, SignalOf
  <1>3. CASE CancelledAtEntry \/ EnterCopyFile \/ Stop \/ Finish
    BY <1>3 DEF CancelledAtEntry, EnterCopyFile, Stop, Finish, Ends
  <1>4. CASE Rename
    BY <1>4 DEF Rename
  <1>5. CASE OpenSource
    BY <1>5 DEF OpenSource, Ends
  <1>6. CASE CreateDest
    BY <1>6 DEF CreateDest, Truncated, Counted
  <1>7. CASE CopyBlock
    BY <1>7 DEF CopyBlock, MoreToRead, Counted, Placed
  <1>8. CASE Eof
    BY <1>8 DEF Eof, AtEof, AfterEof, Counted
  <1>9. CASE IoError
    BY <1>9 DEF IoError, Fails, Ends
  <1>10. CASE UnlinkSource
    BY <1>10 DEF UnlinkSource
  <1>11. CASE RemovePartial
    BY <1>11 DEF RemovePartial, PartialRemoved, Fails, Ends
  <1>12. CASE Killed \/ UNCHANGED vars
    BY <1>12 DEF Killed, vars
  <1> QED
    BY <1>1, <1>2, <1>3, <1>4, <1>5, <1>6, <1>7, <1>8, <1>9, <1>10, <1>11, <1>12
       DEF Next, Engine

LEMMA NextIInv == IInv /\ [Next]_vars => IInv'
  <1> SUFFICES ASSUME IInv, [Next]_vars PROVE IInv'
    OBVIOUS
  <1>0. TypeOK'
    BY NextTypeOK
  <1> USE <1>0 DEF IInv, TypeOK, Counted, Placed, Outcomes, MoveNeverLoses,
                   CompletedIsWhole, UnfinishedKeepsSource, PausedIsPrefix,
                   CancelLeavesNoPartial
  <1>1. ASSUME NEW s \in Path, NEW d \in Path, NEW op \in Operation,
               NEW verify \in BOOLEAN, Begin(s, d, op, verify)
        PROVE  IInv'
    BY <1>1 DEF Begin
  <1>2. ASSUME NEW verb \in {"pause", "cancel"}, StoreSignal(SignalOf(verb))
        PROVE  IInv'
    BY <1>2 DEF StoreSignal
  <1>3. CASE CancelledAtEntry
    BY <1>3 DEF CancelledAtEntry, Ends
  <1>4. CASE Rename
    BY <1>4 DEF Rename
  <1>5. CASE EnterCopyFile
    BY <1>5 DEF EnterCopyFile
  <1>6. CASE OpenSource
    BY <1>6 DEF OpenSource, Ends
  <1>7. CASE CreateDest
    BY <1>7 DEF CreateDest, Truncated
  <1>8. CASE Stop
    BY <1>8 DEF Stop, Ends
  <1>9. CASE CopyBlock
    BY <1>9 DEF CopyBlock, MoreToRead
  <1>10. CASE Eof
    BY <1>10 DEF Eof, AtEof, AfterEof
  <1>11. CASE IoError
    BY <1>11 DEF IoError, Fails, Ends
  <1>12. CASE UnlinkSource
    BY <1>12 DEF UnlinkSource
  <1>13. CASE RemovePartial
    BY <1>13 DEF RemovePartial, PartialRemoved, Fails, Ends
  <1>14. CASE Finish
    BY <1>14 DEF Finish, Ends
  <1>15. CASE Killed
    BY <1>15 DEF Killed
  <1>16. CASE UNCHANGED vars
    BY <1>16 DEF vars
  <1> QED
    BY ONLY [Next]_vars, <1>1, <1>2, <1>3, <1>4, <1>5, <1>6, <1>7, <1>8, <1>9,
       <1>10, <1>11, <1>12, <1>13, <1>14, <1>15, <1>16 DEF Next, Engine

LEMMA IInvInvariant == Spec => []IInv
  BY InitIInv, NextIInv, PTL DEF Spec

(* Contents, counters and the job keep their types through any sequence of *)
(* runs, failures and kills.                                               *)
THEOREM CopyTypeCorrect == Spec => []TypeOK
  <1>1. IInv => TypeOK
    BY DEF IInv
  <1> QED
    BY <1>1, IInvInvariant, PTL

(* The whole file is at the source or at the destination of a move at      *)
(* every moment, also when the process is killed between two calls.        *)
THEOREM MoveCorrect == Spec => []MoveNeverLoses
  <1>1. IInv => MoveNeverLoses
    BY DEF IInv, Outcomes
  <1> QED
    BY <1>1, IInvInvariant, PTL

(* A completed run has put the whole source at the destination.            *)
THEOREM CompletedCorrect == Spec => []CompletedIsWhole
  <1>1. IInv => CompletedIsWhole
    BY DEF IInv, Outcomes
  <1> QED
    BY <1>1, IInvInvariant, PTL

(* A run that pauses, is cancelled or fails leaves its source alone.       *)
THEOREM UnfinishedCorrect == Spec => []UnfinishedKeepsSource
  <1>1. IInv => UnfinishedKeepsSource
    BY DEF IInv, Outcomes
  <1> QED
    BY <1>1, IInvInvariant, PTL

(* A cancelled run leaves no part of a file, unless a call has failed.     *)
THEOREM CancelCorrect == Spec => []CancelLeavesNoPartial
  <1>1. IInv => CancelLeavesNoPartial
    BY DEF IInv, Outcomes
  <1> QED
    BY <1>1, IInvInvariant, PTL

(* The bytes a paused job reports are the ones at its destination.         *)
THEOREM PausedCorrect == Spec => []PausedIsPrefix
  <1>1. IInv => PausedIsPrefix
    BY DEF IInv, Outcomes
  <1> QED
    BY <1>1, IInvInvariant, PTL
=============================================================================
