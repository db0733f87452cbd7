------------------------------ MODULE JobQueue ------------------------------
(***************************************************************************)
(* The csfd daemon: the jobs table of queue.db, the worker loop that runs  *)
(* one pending job at a time, the copy engine it runs in a blocking        *)
(* thread, and the connection handlers that enqueue jobs and signal the    *)
(* engine through one shared atomic byte per job.                          *)
(*                                                                         *)
(* Worker, engine and handlers run on different threads of the tokio       *)
(* runtime.  A step of the model is one access to what they share: a call  *)
(* of QueueDb (atomic under its mutex), a store or load of a signal, one   *)
(* event sent on the broadcast channel, one block read and written.        *)
(***************************************************************************)
EXTENDS Naturals, FiniteSets, JobStates

CONSTANTS
    MaxJobs,       \* rows the jobs table may hold (bounds the model)
    MaxSize,       \* blocks of COPY_BUFFER_SIZE one run copies at most
    MaxBatch,      \* largest number of items of one enqueue request
    Clients,       \* connections with a request in progress
    MaxCrashes,    \* times the daemon may be killed and started again
    MaxLostWrites  \* updates of the jobs table that may fail (results ignored)

ASSUME ConstantsAssumption ==
    /\ MaxJobs \in Nat /\ MaxSize \in Nat /\ MaxBatch \in Nat
    /\ MaxCrashes \in Nat /\ MaxLostWrites \in Nat

JobId == 1 .. MaxJobs   \* rowid order: the order of insertion and of SELECT
NoJob == 0

VARIABLES
    (* queue.db, which outlives the process *)
    state,   \* [JobId -> state column], "absent" while there is no row
    (* the worker task *)
    wpc,     \* the call of worker_loop that comes next
    cur,     \* id of the job of this iteration, NoJob between two
    job,     \* the worker's JobItem, moved into the engine and back
    (* the blocking thread that runs CopyOp::run *)
    epc,
    (* RpcServer *)
    sig,     \* [JobId -> value in the signals map], "none" without an entry
    req,     \* [Clients -> what dispatch still has to do for its request]
    (* the outside world *)
    last,    \* [JobId -> the last event sent about the job, progress aside]
    crashes, lostWrites,
    (* history *)
    asked,   \* [JobId -> which of pause and cancel was stored for the job]
    starts   \* [JobId -> how many runs of the engine were begun]

workerVars == <<wpc, cur, job, epc>>
faultVars  == <<crashes, lostWrites>>
history    == <<asked, starts>>
vars == <<state, workerVars, sig, req, last, faultVars, history>>

Event == {"none", "started"} \cup Outcome

Item == [state : JobState, offset : Nat]
Handler == [verb : Verb \cup {"idle", "enqueue"}, todo : SUBSET JobId, left : Nat]
Idle == [verb |-> "idle", todo |-> {}, left |-> 0]

TypeOK ==
    /\ state \in [JobId -> JobState \cup {"absent"}]
    /\ wpc \in {"scan", "mark", "started", "arm", "await", "announce", "cleanup"}
    /\ cur \in JobId \cup {NoJob}
    /\ job \in Item
    /\ epc \in {"idle", "entry", "copy", "done"}
    /\ sig \in [JobId -> Signal \cup {"none"}]
    /\ req \in [Clients -> Handler]
    /\ last \in [JobId -> Event]
    /\ crashes \in Nat /\ lostWrites \in Nat
    /\ asked \in [JobId -> SUBSET {"pause", "cancel"}]
    /\ starts \in [JobId -> Nat]

NoItem == [state |-> "pending", offset |-> 0]

Init ==
    /\ state = [j \in JobId |-> "absent"]
    /\ wpc = "scan" /\ cur = NoJob /\ job = NoItem /\ epc = "idle"
    /\ sig = [j \in JobId |-> "none"]
    /\ req = [c \in Clients |-> Idle]
    /\ last = [j \in JobId |-> "none"]
    /\ crashes = 0 /\ lostWrites = 0
    /\ asked = [j \in JobId |-> {}]
    /\ starts = [j \in JobId |-> 0]

-----------------------------------------------------------------------------
(* The worker loop.  `let _ = db.update_...` drops the Result: the write   *)
(* either happens or is lost, and the loop goes on the same way.           *)

RunnableStale     == {j \in JobId : state[j] \in {"pending", "running"}}
RunnableRetried   == {j \in JobId : state[j] \in {"pending", "failed"}}
RunnableSignalled == {j \in JobId : state[j] = "pending" /\ sig[j] = "none"}

Runnable == {j \in JobId : state[j] = "pending"}

ChosenNewest(j) == j \in Runnable /\ \A k \in Runnable : k <= j

(* get_all_jobs scans the table in rowid order; the loop takes the first.  *)
Chosen(j) == j \in Runnable /\ \A k \in Runnable : j <= k

LoseWrite ==
    /\ lostWrites < MaxLostWrites
    /\ lostWrites' = lostWrites + 1
    /\ UNCHANGED state

Scan ==
    /\ wpc = "scan"
    /\ \E j \in JobId :
        /\ Chosen(j)
        /\ cur' = j
        /\ job' = [state |-> state[j], offset |-> 0]
    /\ wpc' = "mark"
    /\ UNCHANGED <<state, epc, sig, req, last, faultVars, history>>

Mark ==
    /\ wpc = "mark"
    /\ \/ /\ state' = [state EXCEPT ![cur] = "running"]
          /\ UNCHANGED lostWrites
       \/ LoseWrite
    /\ job' = [job EXCEPT !.state = "running"]
    /\ wpc' = "started"
    /\ UNCHANGED <<cur, epc, sig, req, last, crashes, history>>

EmitStarted ==
    /\ wpc = "started"
    /\ last' = [last EXCEPT ![cur] = "started"]
    /\ wpc' = "arm"
    /\ UNCHANGED <<state, cur, job, epc, sig, req, faultVars, history>>

ArmedIfKnown == IF sig[cur] = "none" THEN sig ELSE [sig EXCEPT ![cur] = "run"]

(* signal_for creates the entry if need be; the store resets an old value. *)
Armed == [sig EXCEPT ![cur] = "run"]

(* The reset and spawn_blocking, which gets a clone of the same Arc.       *)
Arm ==
    /\ wpc = "arm"
    /\ sig' = Armed
    /\ epc' = "entry"
    /\ starts' = [starts EXCEPT ![cur] = @ + 1]
    /\ wpc' = "await"
    /\ UNCHANGED <<state, cur, job, req, last, faultVars, asked>>

PersistUnlessPaused ==
    /\ wpc = "await" /\ epc = "done"
    /\ state' = [state EXCEPT ![cur] =
                   IF job.state = "paused" THEN @ ELSE job.state]
    /\ wpc' = "announce"
    /\ UNCHANGED <<cur, job, epc, sig, req, last, faultVars, history>>

Persist ==
    /\ wpc = "await" /\ epc = "done"
    /\ \/ /\ state' = [state EXCEPT ![cur] = job.state]
          /\ UNCHANGED lostWrites
       \/ LoseWrite
    /\ wpc' = "announce"
    /\ UNCHANGED <<cur, job, epc, sig, req, last, crashes, history>>

EmitOutcome ==
    /\ wpc = "announce"
    /\ last' = [last EXCEPT ![cur] = job.state]
    /\ wpc' = "cleanup"
    /\ UNCHANGED <<state, cur, job, epc, sig, req, faultVars, history>>

Cleanup ==
    /\ wpc = "cleanup"
    /\ sig' = [sig EXCEPT ![cur] = "none"]
    /\ cur' = NoJob /\ job' = NoItem /\ epc' = "idle"
    /\ wpc' = "scan"
    /\ UNCHANGED <<state, req, last, faultVars, history>>

Worker == \/ Scan \/ Mark \/ EmitStarted \/ Arm
          \/ Persist \/ EmitOutcome \/ Cleanup

-----------------------------------------------------------------------------
(* CopyOp::run, on the worker's JobItem.  What it does to the two files is *)
(* module CopyOp's subject; here only its control and its outcome count.   *)

Ends(outcome) ==
    /\ job' = [job EXCEPT !.state = outcome]
    /\ epc' = "done"

EngineUnchanged ==
    UNCHANGED <<state, wpc, cur, sig, req, last, faultVars, history>>

(* "If already cancelled before we start, exit early."                     *)
EngineCancelledAtEntry ==
    /\ epc = "entry" /\ sig[cur] = "cancel"
    /\ Ends("cancelled")
    /\ EngineUnchanged

(* A move that fs::rename can do is finished here.  The columns op and     *)
(* total_bytes are fixed at the insert and read by the engine alone: what  *)
(* they say is the choice between this action and EngineOpen, and between  *)
(* EngineBlock and EngineEof.                                              *)
EngineRename ==
    /\ epc = "entry" /\ sig[cur] # "cancel"
    /\ Ends("completed")
    /\ EngineUnchanged

(* A copy, or a move whose rename failed, enters copy_file.                *)
EngineOpen ==
    /\ epc = "entry" /\ sig[cur] # "cancel"
    /\ job' = [job EXCEPT !.offset = 0]
    /\ epc' = "copy"
    /\ EngineUnchanged

(* The check at the head of the block loop, when 80 ms have passed.        *)
EngineStop ==
    /\ epc = "copy"
    /\ \/ sig[cur] = "cancel" /\ Ends("cancelled")
       \/ sig[cur] = "pause"  /\ Ends("paused")
    /\ EngineUnchanged

EngineBlock ==
    /\ epc = "copy" /\ job.offset < MaxSize
    /\ job' = [job EXCEPT !.offset = @ + 1]
    /\ UNCHANGED epc
    /\ EngineUnchanged

EngineEof ==
    /\ epc = "copy"
    /\ Ends("completed")
    /\ EngineUnchanged

(* An I/O error of copy_file, or of the unlink that ends a copied move.    *)
EngineFail ==
    /\ epc = "copy"
    /\ Ends("failed")
    /\ EngineUnchanged

Engine == \/ EngineCancelledAtEntry \/ EngineRename \/ EngineOpen
          \/ EngineStop \/ EngineBlock \/ EngineEof

-----------------------------------------------------------------------------
(* dispatch: pause, resume and cancel.  control_job reads the whole table  *)
(* once and then signals the jobs that were eligible in that snapshot, one *)
(* by one; a request that finds none changes nothing.                      *)

Control(c, verb, target) ==
    /\ req[c] = Idle
    /\ LET todo == {j \in target : state[j] \in Eligible(verb)} IN
        /\ todo # {}
        /\ req' = [req EXCEPT ![c] = [verb |-> verb, todo |-> todo, left |-> 0]]
    /\ UNCHANGED <<state, workerVars, sig, last, faultVars, history>>

Signalled(r, j) == IF r.todo = {j} THEN Idle ELSE [r EXCEPT !.todo = @ \ {j}]

(* signal_for and the store are one step: if Cleanup removes the entry     *)
(* between them, the store reaches a byte nobody reads any more, as it     *)
(* does here when it comes after Cleanup and creates a new entry.          *)
StoreSignal(c) ==
    \E j \in req[c].todo :
        /\ \A k \in req[c].todo : j <= k
        /\ sig' = [sig EXCEPT ![j] = SignalOf(req[c].verb)]
        /\ asked' = [asked EXCEPT ![j] = @ \cup ({req[c].verb} \ {"resume"})]
        /\ req' = [req EXCEPT ![c] = Signalled(req[c], j)]
        /\ UNCHANGED <<state, workerVars, last, faultVars, starts>>

(* dispatch: enqueue.  enqueue_items inserts the items one by one and      *)
(* returns at the first one whose source does not exist.                   *)

Enqueue(c, n) ==
    /\ req[c] = Idle
    /\ req' = [req EXCEPT ![c] = [verb |-> "enqueue", todo |-> {}, left |-> n]]
    /\ UNCHANGED <<state, workerVars, sig, last, faultVars, history>>

Inserted(r) == IF r.left = 1 THEN Idle ELSE [r EXCEPT !.left = @ - 1]

InsertJob(c) ==
    /\ req[c].left > 0
    /\ \E j \in JobId :
        /\ state[j] = "absent"
        /\ \A i \in JobId : i < j => state[i] # "absent"
        /\ state' = [state EXCEPT ![j] = "pending"]
    /\ req' = [req EXCEPT ![c] = Inserted(req[c])]
    /\ UNCHANGED <<workerVars, sig, last, faultVars, history>>

RejectItem(c) ==
    /\ req[c].left > 0
    /\ req' = [req EXCEPT ![c] = Idle]
    /\ UNCHANGED <<state, workerVars, sig, last, faultVars, history>>

Request(c) ==
    \/ \E verb \in Verb :
        \/ Control(c, verb, JobId)
        \/ \E j \in JobId : Control(c, verb, {j})
    \/ \E n \in 1 .. MaxBatch : Enqueue(c, n)

Dispatch(c) ==
    \/ StoreSignal(c)
    \/ InsertJob(c)
    \/ RejectItem(c)

-----------------------------------------------------------------------------
(* The process dies and main starts it again: QueueDb::new keeps the rows  *)
(* it finds, RpcServer::new starts with an empty signals map.              *)
Restart ==
    /\ crashes < MaxCrashes
    /\ crashes' = crashes + 1
    /\ wpc' = "scan" /\ cur' = NoJob /\ job' = NoItem /\ epc' = "idle"
    /\ sig' = [j \in JobId |-> "none"]
    /\ req' = [c \in Clients |-> Idle]
    /\ UNCHANGED <<state, last, lostWrites, history>>

Next == \/ Worker
        \/ Engine
        \/ EngineFail
        \/ \E c \in Clients : Request(c) \/ Dispatch(c)
        \/ Restart

Spec == Init /\ [][Next]_vars

(* tokio keeps polling the worker and every handler it has begun, and the  *)
(* blocking pool keeps running the engine; users, crashes and I/O errors   *)
(* owe nothing.                                                            *)
FairSpec == Spec /\ WF_vars(Worker) /\ WF_vars(Engine)
                 /\ \A c \in Clients : WF_vars(Dispatch(c))

-----------------------------------------------------------------------------
(* Safety.                                                                 *)

(* Jobs leave "pending" in the order their rows were inserted, however     *)
(* enqueue requests, failed writes and restarts interleave with the        *)
(* worker's scans (worker_loop takes the first pending row).               *)
QueueOrder ==
    \A i, j \in JobId :
        i < j /\ state[j] \notin {"absent", "pending"}
            => state[i] \notin {"absent", "pending"}

(* A job that ends paused or cancelled was asked to: the signal that       *)
(* stopped the engine was stored for this very job, by a handler that may  *)
(* have read the table before the job had started or even been scanned     *)
(* (control_job, copy_file).                                               *)
StopAttributed ==
    \A j \in JobId : /\ state[j] = "cancelled" => "cancel" \in asked[j]
                     /\ state[j] = "paused"    => "pause" \in asked[j]

(* While the engine runs, the signals map has an entry for its job, so a   *)
(* handler's signal_for returns the byte the engine reads and not a new    *)
(* one: the entry is made before spawn_blocking and removed after the      *)
(* join, whatever handlers do in between.                                  *)
EngineReachable ==
    epc \in {"entry", "copy"} => cur # NoJob /\ sig[cur] # "none"

(* Clients are told of an outcome only after it is in queue.db: a client   *)
(* that gets the event and then asks for the queue, or the next daemon,    *)
(* sees the same state, unless a write was lost.                           *)
AnnouncedIsPersisted ==
    \A j \in JobId :
        last[j] \in Outcome => state[j] = last[j] \/ lostWrites > 0

(* A file is copied twice only if the write that marks the job running was *)
(* lost, and then the run's outcome was lost too, to a second failed write *)
(* or to a crash.  One fault alone, a crash at any point included, never   *)
(* repeats a copy.                                                         *)
RerunNeedsTwoFaults ==
    \A j \in JobId : /\ starts[j] <= lostWrites + 1
                     /\ 2 * starts[j] <= crashes + lostWrites + 2

(* No step of worker, engine, handler or restart takes a job out of a      *)
(* state the client calls terminal (JobState.is_terminal).                 *)
TerminalIsFinal ==
    [][\A j \in JobId : state[j] \in Terminal => state'[j] = state[j]]_vars

(* Seen through the state column alone, the daemon is the queue of module  *)
(* JobLifecycle.                                                           *)
Lifecycle == INSTANCE JobLifecycle WITH st <- state
LifecycleSpec == Lifecycle!Spec

(* The worker's next call sends an event about its last write.             *)
Owed == CASE wpc = "started"  -> <<[job |-> cur, state |-> "running"]>>
          [] wpc = "announce" -> <<[job |-> cur, state |-> job.state]>>
          [] OTHER            -> <<>>

(* Seen through the table and its events, the daemon is the one module     *)
(* JobNews promises to those who watch it: each write is told once, before *)
(* the next one, and no fault but its own lost writes and its death lets   *)
(* table and events disagree.                                              *)
News == INSTANCE JobNews WITH st <- state, owed <- Owed, faulty <- crashes + lostWrites > 0
NewsSpec == News!NewsSpec

-----------------------------------------------------------------------------
(* Liveness, under FairSpec.                                               *)

(* Every job that waits or runs ends in an outcome, whatever is enqueued,  *)
(* and whatever handlers store for it before, during and after its run; a  *)
(* crash or a lost write may leave it running, but never keeps it waiting. *)
JobsSettle ==
    \A j \in JobId :
        state[j] \in {"pending", "running"}
            ~> \/ state[j] \in Outcome
               \/ state[j] = "running" /\ crashes + lostWrites > 0

-----------------------------------------------------------------------------
(* What the project's documents and comments say and the code does not do. *)

(* types.rs lists Pending among the "States in which a job can be          *)
(* cancelled": a job for which a cancel was stored while it waited never    *)
(* completes.                                                              *)
EarlyCancelHonoured ==
    \A j \in JobId : []((state[j] = "pending" /\ sig[j] = "cancel")
                           => [](state[j] # "completed"))

(* worker_loop's comment on a paused job: "The user can resume it manually *)
(* or cancel it; the DB state is updated accordingly."                     *)
PausedIsAnswered ==
    \A j \in JobId :
        state[j] = "paused" /\ sig[j] \in {"run", "cancel"} /\ cur # j
            ~> state[j] # "paused"

(* README: "Persistent queue survives daemon restarts": a job the daemon   *)
(* had begun when it was killed is not left behind.                        *)
RestartResumesQueue ==
    \A j \in JobId : state[j] = "running" ~> state[j] \in Outcome
=============================================================================
