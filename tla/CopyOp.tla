------------------------------- MODULE CopyOp -------------------------------
(***************************************************************************)
(* ops/copy.rs at the level of the file system: what each call of one run  *)
(* of CopyOp::run does to the source and to the destination, with a signal *)
(* that changes, calls that fail and the process killed between any two of *)
(* them.  Runs follow one another on the same files, as worker_loop makes  *)
(* them; module JobQueue has the loop, this one has the files.             *)
(***************************************************************************)
EXTENDS Naturals, JobStates

CONSTANTS
    Path,       \* paths of regular files
    MaxBlocks,  \* largest file, in buffers of COPY_BUFFER_SIZE
    MaxErrors   \* system calls that may fail in one run

ASSUME CopyConstants ==
    MaxBlocks \in Nat /\ MaxErrors \in Nat /\ "none" \notin Path

(* A file is the first so many blocks of what some path held at the start. *)
Content == [of : Path, blocks : 0 .. MaxBlocks]
NoFile  == [of |-> "none", blocks |-> 0]

VARIABLES
    fs,      \* [Path -> content, NoFile where there is no file]
    pc,      \* the call of CopyOp::run that comes next, "idle" between runs
    job,     \* the JobItem of the run
    offset,  \* blocks read by this run
    sig,     \* the job's signal byte
    before,  \* history: fs when the run began
    errors   \* calls of this run that have failed

vars == <<fs, pc, job, offset, sig, before, errors>>

Job == [source : Path, dest : Path, op : Operation, verify : BOOLEAN,
        state : JobState, copied : 0 .. MaxBlocks, hash : Content \cup {NoFile}]

TypeOK ==
    /\ fs \in [Path -> Content \cup {NoFile}]
    /\ pc \in {"idle", "entry", "open", "create", "copy", "undo", "unlink", "finish"}
    /\ job \in Job
    /\ offset \in 0 .. MaxBlocks
    /\ sig \in Signal
    /\ before \in [Path -> Content \cup {NoFile}]
    /\ errors \in 0 .. MaxErrors

Init ==
    /\ fs \in {f \in [Path -> Content \cup {NoFile}] :
                 \A p \in Path : f[p] = NoFile \/ f[p].of = p}
    /\ pc = "idle" /\ offset = 0 /\ sig = "run"
    /\ \E p \in Path :
         job = [source |-> p, dest |-> p, op |-> "copy", verify |-> FALSE,
                state |-> "pending", copied |-> 0, hash |-> NoFile]
    /\ before = fs
    /\ errors = 0

src == job.source
dst == job.dest

-----------------------------------------------------------------------------
(* worker_loop starts a run; handlers change the signal while it lasts.    *)

Begin(s, d, op, verify) ==
    /\ pc = "idle"
    /\ job' = [source |-> s, dest |-> d, op |-> op, verify |-> verify,
               state |-> "running", copied |-> 0, hash |-> NoFile]
    /\ pc' = "entry" /\ sig' = "run" /\ offset' = 0
    /\ before' = fs /\ errors' = 0
    /\ UNCHANGED fs

StoreSignal(s) ==
    /\ pc # "idle" /\ sig' = s
    /\ UNCHANGED <<fs, pc, job, offset, before, errors>>

Killed ==
    /\ pc # "idle" /\ pc' = "idle"
    /\ UNCHANGED <<fs, job, offset, sig, before, errors>>

-----------------------------------------------------------------------------
(* CopyOp::run.                                                            *)

Ends(outcome) ==
    /\ job' = [job EXCEPT !.state = outcome]
    /\ pc' = "idle"

Fails ==
    /\ errors < MaxErrors /\ errors' = errors + 1
    /\ UNCHANGED fs

CancelledAtEntry ==
    /\ pc = "entry" /\ sig = "cancel"
    /\ Ends("cancelled")
    /\ UNCHANGED <<fs, offset, sig, before, errors>>

(* fs::rename replaces the destination; onto itself it does nothing.       *)
Rename ==
    /\ pc = "entry" /\ sig # "cancel" /\ job.op = "move" /\ fs[src] # NoFile
    /\ fs' = [[fs EXCEPT ![src] = NoFile] EXCEPT ![dst] = fs[src]]
    /\ pc' = "finish"
    /\ UNCHANGED <<job, offset, sig, before, errors>>

(* A copy, or a move across devices, whose rename always fails.            *)
EnterCopyFile ==
    /\ pc = "entry" /\ sig # "cancel"
    /\ pc' = "open"
    /\ UNCHANGED <<fs, job, offset, sig, before, errors>>

-----------------------------------------------------------------------------
(* copy_file.                                                              *)

OpenSource ==
    /\ pc = "open"
    /\ IF fs[src] = NoFile THEN Ends("failed") ELSE pc' = "create" /\ UNCHANGED job
    /\ UNCHANGED <<fs, offset, sig, before, errors>>

Appended  == IF fs[dst] = NoFile THEN [fs[src] EXCEPT !.blocks = 0] ELSE fs[dst]
Truncated == [fs[src] EXCEPT !.blocks = 0]

(* File::create truncates a destination that exists.                       *)
CreateDest ==
    /\ pc = "create"
    /\ fs' = [fs EXCEPT ![dst] = Truncated]
    /\ pc' = "copy"
    /\ UNCHANGED <<job, offset, sig, before, errors>>

(* The head of the block loop, when CHECK_SIGNAL_EVERY_MS have passed.     *)
Stop ==
    /\ pc = "copy"
    /\ \/ sig = "cancel" /\ pc' = "undo" /\ UNCHANGED job
       \/ sig = "pause" /\ Ends("paused")
    /\ UNCHANGED <<fs, offset, sig, before, errors>>

MoreToReadAtEnd == offset <= fs[src].blocks
MoreToRead      == offset < fs[src].blocks

CopyBlock ==
    /\ pc = "copy" /\ MoreToRead
    /\ fs' = [fs EXCEPT ![dst].blocks = @ + 1]
    /\ offset' = offset + 1
    /\ job' = [job EXCEPT !.copied = @ + 1]
    /\ UNCHANGED <<pc, sig, before, errors>>

AtEofEarly == offset + 1 >= fs[src].blocks
AtEofLate  == offset > fs[src].blocks

(* A read that returns no byte.                                            *)
AtEof == offset = fs[src].blocks

AfterEofAlways == "unlink"

AfterEof == IF job.op = "move" THEN "unlink" ELSE "finish"

(* The hash is of the blocks as they were read, not of the destination.    *)
Eof ==
    /\ pc = "copy" /\ AtEof
    /\ job' = [job EXCEPT !.hash = IF job.verify
                 THEN [of |-> fs[src].of, blocks |-> offset] ELSE NoFile]
    /\ pc' = AfterEof
    /\ UNCHANGED <<fs, offset, sig, before, errors>>

IoError ==
    /\ pc \in {"open", "create", "copy", "unlink"}
    /\ Fails
    /\ Ends("failed")
    /\ UNCHANGED <<offset, sig, before>>

-----------------------------------------------------------------------------
(* Back in CopyOp::run.                                                    *)

UnlinkSource ==
    /\ pc = "unlink"
    /\ fs' = [fs EXCEPT ![src] = NoFile]
    /\ pc' = "finish"
    /\ UNCHANGED <<job, offset, sig, before, errors>>

PartialKept    == [fs EXCEPT ![dst] = @]
PartialSwapped == [fs EXCEPT ![src] = NoFile]
PartialRemoved == [fs EXCEPT ![dst] = NoFile]

(* `let _ = fs::remove_file(&dest)`: a failure is ignored.                 *)
RemovePartial ==
    /\ pc = "undo"
    /\ \/ fs' = PartialRemoved /\ UNCHANGED errors
       \/ Fails
    /\ Ends("cancelled")
    /\ UNCHANGED <<offset, sig, before>>

Finish ==
    /\ pc = "finish"
    /\ Ends("completed")
    /\ UNCHANGED <<fs, offset, sig, before, errors>>

Engine == \/ CancelledAtEntry \/ Rename \/ EnterCopyFile
          \/ OpenSource \/ CreateDest \/ Stop \/ CopyBlock \/ Eof
          \/ UnlinkSource \/ RemovePartial \/ Finish

Next == \/ \E s, d \in Path, op \in Operation, verify \in BOOLEAN :
              Begin(s, d, op, verify)
        \/ \E verb \in {"pause", "cancel"} : StoreSignal(SignalOf(verb))
        \/ Engine
        \/ IoError
        \/ Killed

Spec == Init /\ [][Next]_vars

(* The blocking thread keeps running; no call of it has to fail.           *)
FairSpec == Spec /\ WF_vars(Engine)

-----------------------------------------------------------------------------
(* What holds when source and destination are different files.             *)

Distinct == src # dst

(* A move holds the whole file in one of its two places at every moment,   *)
(* a kill between any two calls included: copy_file ends before            *)
(* remove_file(&source) is called.                                         *)
MoveNeverLoses ==
    Distinct /\ job.op = "move" => before[src] \in {fs[src], fs[dst]}

(* A completed copy or move has left what the source held at the           *)
(* destination, and the source only if it was a copy.                      *)
CompletedIsWhole ==
    Distinct /\ job.state = "completed" =>
        /\ fs[dst] = before[src]
        /\ fs[src] = IF job.op = "copy" THEN before[src] ELSE NoFile
        /\ job.hash \in {NoFile, fs[dst]}

(* A run that ends any other way leaves the source as it was: "don't       *)
(* delete the source (may have failed partially)".                         *)
UnfinishedKeepsSource ==
    Distinct /\ job.state \in {"paused", "cancelled", "failed"} =>
        fs[src] = before[src]

(* A cancelled run leaves no part of a file: the destination is gone, or   *)
(* it is what was there if the run had not touched it, unless a system     *)
(* call failed.                                                            *)
CancelLeavesNoPartial ==
    Distinct /\ job.state = "cancelled" /\ errors = 0 =>
        fs[dst] \in {NoFile, before[dst]}

(* What a paused job says it has copied is what the destination holds:     *)
(* "on resume the worker should pick it up from where it left off".        *)
PausedIsPrefix ==
    Distinct /\ job.state = "paused" =>
        fs[dst] = [of |-> before[src].of, blocks |-> job.copied]

(* Every run ends, however its signal changes.                             *)
RunEnds == pc # "idle" ~> pc = "idle"

-----------------------------------------------------------------------------
(* The test copy_preserves_content, for any source and destination.        *)
CopyPreservesContent ==
    job.state = "completed" /\ job.op = "copy" => fs[dst] = before[src]
=============================================================================
