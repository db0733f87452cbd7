---------------------------- MODULE QueueWindow -----------------------------
(***************************************************************************)
(* csf_ui/queue_window.py over the client library: the window loads one    *)
(* snapshot of the queue when it is built and from then on knows only what *)
(* events tell it.  Module DaemonClient carries calls and events; here     *)
(* they have contents: the daemon's table, what each event says, and the   *)
(* rows the window shows.                                                  *)
(*                                                                         *)
(* The first call is get_queue, the later ones are the buttons'.  Progress *)
(* events change no state of a row and are left out.                       *)
(***************************************************************************)
EXTENDS DaemonClient, JobStates

CONSTANT MaxJobs   \* rows of the jobs table (bounds the model)

ASSUME WindowConstants == MaxJobs \in Nat

JobId == 1 .. MaxJobs

States == JobState \cup {"absent"}
News   == [job : JobId, state : {"running"} \cup Outcome]

VARIABLES
    table,   \* [JobId -> state column], "absent" without a row
    owed,    \* events for which worker_loop has written the table, none or one
    said,    \* what the events sent so far say
    polls,   \* the calls made that are get_queue
    shots,   \* [CallId -> tables a handler has answered the call with]
    unread,  \* the calls a handler has answered with an error of queue.db
    rows     \* [JobId -> state the window shows], "absent" without a row

windowVars == <<table, owed, said, polls, shots, unread, rows>>
allVars    == <<vars, windowVars>>

WindowTypeOK ==
    /\ table \in [JobId -> States] /\ rows \in [JobId -> States]
    /\ owed \in Seq(News) /\ Len(owed) <= 1
    /\ said \in Seq(News) /\ Len(said) = emitted
    /\ polls \in SUBSET CallId
    /\ shots \in [CallId -> SUBSET [JobId -> States]] /\ unread \in SUBSET CallId

NoRows == [j \in JobId |-> "absent"]

WindowInit ==
    /\ Init
    /\ table = NoRows /\ rows = NoRows
    /\ owed = <<>> /\ said = <<>>
    /\ polls = {} /\ shots = [c \in CallId |-> {}] /\ unread = {}

-----------------------------------------------------------------------------
(* The daemon: module JobQueue's writes and events, without its faults.    *)
(* It stays up and answers in time; only the reader may fall silent.       *)

(* insert_job.  No event tells of it.                                      *)
Insert(j) ==
    /\ up /\ table[j] = "absent"
    /\ \A i \in JobId : i < j => table[i] # "absent"
    /\ table' = [table EXCEPT ![j] = "pending"]
    /\ UNCHANGED <<vars, owed, said, polls, shots, unread, rows>>

WriteForgotten(j, s) == table
WriteOf(j, s)        == [table EXCEPT ![j] = s]

(* The worker goes on when it has sent the event about its last write.     *)
GoesOnAtOnce == TRUE
GoesOn       == owed = <<>>

(* The worker writes the state before it sends the event about it.         *)
Advance(j, s) ==
    /\ up /\ GoesOn /\ emitted < MaxEvents
    /\ \/ /\ s = "running" /\ table[j] = "pending"
          /\ \A i \in JobId : table[i] # "running" /\ (i < j => table[i] # "pending")
       \/ s \in Outcome /\ table[j] = "running"
    /\ table' = WriteOf(j, s)
    /\ owed' = Append(owed, [job |-> j, state |-> s])
    /\ UNCHANGED <<vars, said, polls, shots, unread, rows>>

Announce ==
    /\ owed # <<>> /\ Emit
    /\ said' = said \o owed /\ owed' = <<>>
    /\ UNCHANGED <<table, polls, shots, unread, rows>>

(* A handler reads the table when it executes get_queue; if get_all_jobs   *)
(* fails it answers with an error.                                         *)
GetQueue(c) ==
    \/ shots' = [shots EXCEPT ![c] = @ \cup {table}] /\ UNCHANGED unread
    \/ unread' = unread \cup {c} /\ UNCHANGED shots

Answer ==
    /\ Dispatch
    /\ IF Head(inbox) \in polls THEN GetQueue(Head(inbox)) ELSE UNCHANGED <<shots, unread>>
    /\ UNCHANGED <<table, owed, said, polls, rows>>

-----------------------------------------------------------------------------
(* The window.                                                             *)

(* The first call is get_queue; the next ones are made by buttons.         *)
WindowCall ==
    /\ Call
    /\ polls' = IF calls = 0 THEN {1} ELSE polls
    /\ UNCHANGED <<table, owed, said, shots, unread, rows>>

(* get_queue of the client: the jobs in a response.  An error has none, nor *)
(* has the answer to a control call.                                       *)
JobsIn(c) ==
    IF c \in polls THEN shots[c] \cup (IF c \in unread THEN {NoRows} ELSE {}) ELSE {NoRows}

(* _load_initial_queue: _reconcile replaces all rows by the snapshot.      *)
LoadQueue ==
    /\ calls = 1 /\ TakeResponse
    /\ rows' \in JobsIn(1)
    /\ UNCHANGED <<table, owed, said, polls, shots, unread>>

OtherResponse == calls > 1 /\ TakeResponse /\ UNCHANGED windowVars

AppliedIfKnown(shown, news) ==
    IF shown[news.job] = "absent" THEN shown ELSE [shown EXCEPT ![news.job] = news.state]

(* _apply_event: job_started inserts a row that is missing.                *)
Applied(shown, news) ==
    IF news.state # "running" /\ shown[news.job] = "absent" THEN shown
    ELSE [shown EXCEPT ![news.job] = news.state]

(* The rows after the first i of the events the timer has drained.         *)
Shown[i \in 0 .. Len(Drained)] ==
    IF i = 0 THEN rows ELSE Applied(Shown[i - 1], said[Drained[i].id])

(* The timer runs once the window is built, with rows or, if get_queue     *)
(* failed, without.                                                        *)
DrainEvents ==
    /\ calls > 0 /\ Drain
    /\ rows' = Shown[Len(Drained)]
    /\ UNCHANGED <<table, owed, said, polls, shots, unread>>

Rest == /\ \/ Accept \/ Forward \/ DispatchOrphan \/ ReadLine \/ ReaderTimesOut
           \/ Send \/ TakeEvent \/ PutBack \/ Close \/ Deadline
        /\ UNCHANGED windowVars

WindowNext == \/ \E j \in JobId : Insert(j) \/ \E s \in JobState : Advance(j, s)
              \/ Announce \/ Answer
              \/ WindowCall \/ LoadQueue \/ OtherResponse \/ DrainEvents \/ Rest

-----------------------------------------------------------------------------
(* Properties                                                              *)

Stage(s) == CASE s = "absent" -> 0 [] s = "pending" -> 1
              [] s = "running" -> 2 [] s \in Outcome -> 3

Loaded == \E c \in polls : answer[c] # 0

(* The connection has carried every event since the snapshot, and no       *)
(* waiting call has rotated them into another order.                       *)
Undisturbed ==
    /\ failures = 0 /\ reader /\ ~lagged
    /\ \A i \in 1 .. Len(seen) : \A k \in 1 .. i - 1 : seen[k] < seen[i]

(* The window never runs ahead of queue.db: no row shows a state its job   *)
(* has not reached, or another outcome, whatever the order events come in  *)
(* and however old the snapshot is.                                        *)
NeverAhead ==
    \A j \in JobId : \/ Stage(rows[j]) < Stage(table[j])
                     \/ rows[j] = table[j]

(* The snapshot was an error, and no start of the job has been told since. *)
Unloaded(j) == rows[j] = "absent" /\ unread # {}

(* When everything sent has been applied in order the window shows the     *)
(* queue: the handler subscribes before it reads the table, so snapshot    *)
(* and events leave no gap, and what they tell twice does no harm.  Only   *)
(* a job that waits may have no row; if the handler could not read the     *)
(* table others may have none, but the rows there are show their jobs.     *)
RowsAgree ==
    Loaded /\ cpc = "idle" /\ Undisturbed
        /\ queue = <<>> /\ wire = <<>> /\ rx = <<>> /\ owed = <<>>
    => \A j \in JobId : \/ rows[j] = table[j]
                        \/ rows[j] = "absent" /\ table[j] = "pending"
                        \/ Unloaded(j)

(* The daemon this module assumes is the one module JobNews describes,     *)
(* without faults; JobQueue shows that csfd is that daemon.                *)
Daemon == INSTANCE JobNews WITH st <- table, faulty <- FALSE
DaemonAsPromised == Daemon!NewsSpec

(* The row of a job that has ended shows the outcome, or events were lost  *)
(* or came in another order, or there is no row because the snapshot was   *)
(* an error.                                                               *)
ShowsOutcome(j) == rows[j] = table[j] \/ ~Undisturbed \/ Unloaded(j)
=============================================================================
