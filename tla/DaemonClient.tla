---------------------------- MODULE DaemonClient ----------------------------
(***************************************************************************)
(* csf_client/daemon.py as csf-ui uses it: one DaemonClient, whose calls   *)
(* are made and whose events are drained by the GTK main thread, and whose *)
(* reader thread puts every line of the socket, responses and events, into *)
(* one queue.Queue.  At the other end of the socket is handle_connection   *)
(* of the daemon, which answers requests and forwards events as they come. *)
(*                                                                         *)
(* Calls are numbered in the order they are made and events in the order   *)
(* they are sent on the daemon's broadcast channel.                        *)
(***************************************************************************)
EXTENDS Counting, SequencesExt

CONSTANTS
    MaxCalls,   \* calls the window makes (bounds the model)
    MaxEvents,  \* events the daemon sends (bounds the model)
    Capacity,   \* events the broadcast channel keeps for a handler
    MaxSlow,    \* answers that may take longer than the timeout of a call
    MaxCrashes  \* times the daemon may die (bounds the model)

ASSUME ClientConstants ==
    /\ MaxCalls \in Nat /\ MaxEvents \in Nat /\ Capacity \in Nat \ {0}
    /\ MaxSlow \in Nat /\ MaxCrashes \in Nat

CallId  == 1 .. MaxCalls
EventId == 1 .. MaxEvents

Response(c) == [kind |-> "response", id |-> c]
Event(n)    == [kind |-> "event", id |-> n]

Line == [kind : {"response"}, id : CallId] \cup [kind : {"event"}, id : EventId]

IsResponse(l) == l.kind = "response"
IsEvent(l)    == l.kind = "event"

VARIABLES
    (* the daemon *)
    up,        \* the daemon listens on its socket
    crashes,   \* times it died
    emitted,   \* events it has sent
    orphans,   \* one request each of connections the client has closed
    executed,  \* [CallId -> times a handler dispatched the request]
    (* the connection *)
    conn,      \* "none" is self._sock = None; "pending" a connection whose
               \* handler has not subscribed yet; "dead" one the daemon left
    inbox,     \* requests the handler has not read
    rx,        \* events its subscription holds, not yet written
    lagged,    \* it has lost an event for being too far behind
    wire,      \* lines the client has not read
    (* the client *)
    reader,    \* the reader thread is alive
    queue,     \* self._events
    cpc,       \* where _send_and_await is, "idle" outside it
    attempt,   \* 0, and 1 after the reconnection
    held,      \* the event taken off the queue and not yet put back
    calls,     \* calls made so far; the last is the current one
    slow,      \* calls that gave up although the reader was alive
    (* what the window has seen *)
    answer,    \* [CallId -> call whose response it returned, 0 for none]
    seen,      \* events in the order the window applied them
    failures   \* attempts that ended in an exception

daemon == <<up, crashes, emitted, orphans, executed>>
channel == <<rx, lagged>>
socket == <<conn, inbox, channel, wire>>
caller == <<cpc, attempt, held, calls, slow>>
window == <<answer, seen, failures>>
vars   == <<daemon, socket, reader, queue, caller, window>>

TypeOK ==
    /\ up \in BOOLEAN /\ crashes \in 0 .. MaxCrashes
    /\ emitted \in 0 .. MaxEvents
    /\ orphans \in Seq(CallId)
    /\ executed \in [CallId -> 0 .. 2]
    /\ conn \in {"none", "pending", "served", "dead"}
    /\ inbox \in Seq(CallId) /\ (inbox # <<>> => conn \in {"pending", "served"})
    /\ rx \in Seq(EventId) /\ Len(rx) <= Capacity /\ lagged \in BOOLEAN
    /\ (rx # <<>> => conn = "served")
    /\ wire \in Seq(Line) /\ queue \in Seq(Line)
    /\ reader \in BOOLEAN /\ (reader => conn # "none")
    /\ cpc \in {"idle", "send", "wait", "putback", "close"}
    /\ attempt \in {0, 1}
    /\ held \in 0 .. MaxEvents /\ (cpc = "putback" <=> held # 0)
    /\ calls \in 0 .. MaxCalls /\ slow \in 0 .. MaxSlow
    /\ answer \in [CallId -> 0 .. MaxCalls]
    /\ seen \in Seq(EventId)
    /\ failures \in 0 .. 2 * MaxCalls

(* QueueWindow makes its client, which connects with the first call.       *)
Init ==
    /\ up = TRUE /\ crashes = 0 /\ emitted = 0 /\ orphans = <<>>
    /\ executed = [c \in CallId |-> 0]
    /\ conn = "none" /\ inbox = <<>> /\ wire = <<>>
    /\ rx = <<>> /\ lagged = FALSE
    /\ reader = FALSE /\ queue = <<>>
    /\ cpc = "idle" /\ attempt = 0 /\ held = 0 /\ calls = 0 /\ slow = 0
    /\ answer = [c \in CallId |-> 0]
    /\ seen = <<>> /\ failures = 0

-----------------------------------------------------------------------------
(* The daemon.                                                             *)

(* An event sent while no handler is subscribed reaches nobody.  One that  *)
(* finds the channel full pushes out the oldest.                           *)
Kept(events) == IF Len(events) > Capacity THEN Tail(events) ELSE events

Emit ==
    /\ up /\ emitted < MaxEvents
    /\ emitted' = emitted + 1
    /\ IF conn = "served"
       THEN /\ rx' = Kept(Append(rx, emitted + 1))
            /\ lagged' = (lagged \/ Len(rx) = Capacity)
       ELSE UNCHANGED channel
    /\ UNCHANGED <<up, crashes, orphans, executed, conn, inbox, wire,
                   reader, queue, caller, window>>

(* The events branch of the handler's select.  The Lagged error tells the  *)
(* client nothing; the next recv returns the oldest event still there.     *)
Forward ==
    /\ rx # <<>>
    /\ rx' = Tail(rx)
    /\ wire' = Append(wire, Event(Head(rx)))
    /\ UNCHANGED <<daemon, conn, inbox, lagged, reader, queue, caller, window>>

(* run() accepts the connection and its handler subscribes to the events.  *)
Accept ==
    /\ up /\ conn = "pending"
    /\ conn' = "served"
    /\ UNCHANGED <<daemon, inbox, channel, wire, reader, queue, caller, window>>

Dispatch ==
    /\ conn = "served" /\ inbox # <<>>
    /\ inbox' = Tail(inbox)
    /\ executed' = [executed EXCEPT ![Head(inbox)] = @ + 1]
    /\ wire' = Append(wire, Response(Head(inbox)))
    /\ UNCHANGED <<up, crashes, emitted, orphans, conn, channel, reader, queue,
                   caller, window>>

(* The handler of a connection the client has closed still reads the first *)
(* request left in it, executes it, and ends because the answer cannot be  *)
(* written; or it ends before that, because an event cannot be.            *)
DispatchOrphan ==
    /\ orphans # <<>>
    /\ orphans' = Tail(orphans)
    /\ \/ executed' = [executed EXCEPT ![Head(orphans)] = @ + 1]
       \/ emitted > 0 /\ UNCHANGED executed
    /\ UNCHANGED <<up, crashes, emitted, socket, reader, queue, caller, window>>

(* The process dies with the requests it has not read; what it has written *)
(* stays readable.                                                         *)
Crash ==
    /\ up /\ crashes < MaxCrashes
    /\ up' = FALSE /\ crashes' = crashes + 1
    /\ orphans' = <<>> /\ inbox' = <<>> /\ rx' = <<>>
    /\ conn' = IF conn = "none" THEN "none" ELSE "dead"
    /\ UNCHANGED <<emitted, executed, lagged, wire, reader, queue, caller, window>>

Boot ==
    /\ ~up
    /\ up' = TRUE
    /\ UNCHANGED <<crashes, emitted, orphans, executed, socket, reader, queue,
                   caller, window>>

-----------------------------------------------------------------------------
(* The reader thread.                                                      *)

ReadLine ==
    /\ reader /\ wire # <<>>
    /\ queue' = Append(queue, Head(wire))
    /\ wire' = Tail(wire)
    /\ UNCHANGED <<daemon, conn, inbox, channel, reader, caller, window>>

ReaderEnds ==
    /\ reader /\ wire = <<>>
    /\ reader' = FALSE
    /\ UNCHANGED <<daemon, socket, queue, caller, window>>

ReaderAtEof == conn = "dead" /\ ReaderEnds

(* The socket has the timeout recv_timeout: when no line comes for that    *)
(* long the read raises, and the reader logs it and ends.  The socket      *)
(* stays open.                                                             *)
ReaderTimesOut == conn \in {"pending", "served"} /\ ReaderEnds

-----------------------------------------------------------------------------
(* _send_and_await, on the main thread.                                    *)

Call ==
    /\ cpc = "idle" /\ calls < MaxCalls
    /\ calls' = calls + 1
    /\ cpc' = "send" /\ attempt' = 0
    /\ UNCHANGED <<daemon, socket, reader, queue, held, slow, window>>

Connectable == conn \in {"pending", "served"} \/ (conn = "none" /\ up)

SentTwice == inbox \o <<calls, calls>>
Sent      == Append(inbox, calls)

(* connect() opens a socket and starts a reader only if there is none.     *)
Send ==
    /\ cpc = "send" /\ Connectable
    /\ conn' = IF conn = "none" THEN "pending" ELSE conn
    /\ reader' = (reader \/ conn = "none")
    /\ inbox' = Sent
    /\ cpc' = "wait"
    /\ UNCHANGED <<daemon, channel, wire, queue, attempt, held, calls, slow, window>>

(* Nobody listens, or the socket is one the daemon has left.               *)
SendFails ==
    /\ cpc = "send" /\ ~Connectable
    /\ cpc' = "close"
    /\ UNCHANGED <<daemon, socket, reader, queue, attempt, held, calls, slow, window>>

LeftAsItWas   == queue
LeftWithoutIt == Tail(queue)

TakeResponse ==
    /\ cpc = "wait" /\ queue # <<>> /\ IsResponse(Head(queue))
    /\ answer' = [answer EXCEPT ![calls] = Head(queue).id]
    /\ queue' = LeftWithoutIt
    /\ cpc' = "idle"
    /\ UNCHANGED <<daemon, socket, reader, attempt, held, calls, slow, seen, failures>>

(* "It was an event, re-enqueue and keep waiting."  The reader may put a   *)
(* line in between.                                                        *)
TakeEvent ==
    /\ cpc = "wait" /\ queue # <<>> /\ IsEvent(Head(queue))
    /\ held' = Head(queue).id
    /\ queue' = Tail(queue)
    /\ cpc' = "putback"
    /\ UNCHANGED <<daemon, socket, reader, attempt, calls, slow, window>>

PutBackTwice == queue \o <<Event(held), Event(held)>>
PutBackLine  == Append(queue, Event(held))

PutBack ==
    /\ cpc = "putback"
    /\ queue' = PutBackLine
    /\ held' = 0
    /\ cpc' = "wait"
    /\ UNCHANGED <<daemon, socket, reader, attempt, calls, slow, window>>

DeadlineIfEmpty ==
    /\ cpc = "wait" /\ ~reader /\ queue = <<>>
    /\ cpc' = "close"
    /\ UNCHANGED <<daemon, socket, reader, queue, attempt, held, calls, slow, window>>

(* No reader is left to bring an answer: the deadline passes.              *)
Deadline ==
    /\ cpc = "wait"
    /\ ~reader /\ ~ \E i \in 1 .. Len(queue) : IsResponse(queue[i])
    /\ cpc' = "close"
    /\ UNCHANGED <<daemon, socket, reader, queue, attempt, held, calls, slow, window>>

(* The answer takes longer than the timeout.                               *)
Slow ==
    /\ cpc = "wait" /\ slow < MaxSlow
    /\ slow' = slow + 1
    /\ cpc' = "close"
    /\ UNCHANGED <<daemon, socket, reader, queue, attempt, held, calls, window>>

RetryForever == 0
NextAttempt  == attempt + 1

(* close() joins the reader, which goes on reading, for a second, shuts    *)
(* the socket down, and the reader ends with what had been written to it.  *)
(* The first time the call reconnects and sends the same request again.    *)
Close ==
    /\ cpc = "close"
    /\ failures' = failures + 1
    /\ conn' = "none" /\ reader' = FALSE
    /\ queue' = IF reader THEN queue \o wire ELSE queue
    /\ wire' = <<>> /\ inbox' = <<>> /\ rx' = <<>>
    /\ orphans' = IF inbox = <<>> THEN orphans ELSE Append(orphans, Head(inbox))
    /\ IF attempt = 0 THEN cpc' = "send" /\ attempt' = NextAttempt
                      ELSE cpc' = "idle" /\ UNCHANGED attempt
    /\ UNCHANGED <<up, crashes, emitted, executed, lagged, held, calls, slow,
                   answer, seen>>

-----------------------------------------------------------------------------
(* drain_events, called by the window's timer: events up to the first      *)
(* response, which goes back to the end of the queue.                      *)

FirstResponse == SelectInSeq(queue, IsResponse)

Drained == IF FirstResponse = 0 THEN queue ELSE SubSeq(queue, 1, FirstResponse - 1)

LeftByDrainKept ==
    IF FirstResponse = 0 THEN <<>>
    ELSE Append(SubSeq(queue, FirstResponse, Len(queue)), queue[FirstResponse])

LeftByDrain ==
    IF FirstResponse = 0 THEN <<>>
    ELSE Append(SubSeq(queue, FirstResponse + 1, Len(queue)), queue[FirstResponse])

Drain ==
    /\ cpc = "idle" /\ queue # <<>>
    /\ seen' = seen \o [i \in 1 .. Len(Drained) |-> Drained[i].id]
    /\ queue' = LeftByDrain
    /\ UNCHANGED <<daemon, socket, reader, caller, answer, failures>>

Handlers == Accept \/ Dispatch \/ Forward \/ DispatchOrphan
Reader   == ReadLine \/ ReaderAtEof
Waiter   == Send \/ SendFails \/ TakeResponse \/ TakeEvent \/ PutBack \/ Close

Next == \/ Emit \/ Handlers \/ Crash \/ Boot
        \/ Reader \/ ReaderTimesOut
        \/ Call \/ Waiter \/ Deadline \/ Slow \/ Drain

Spec == Init /\ [][Next]_vars

(* The daemon's tasks and both threads run, and the clock passes the       *)
(* deadline of a call although the call goes round its loop.  The user     *)
(* need not call, nothing need be sent, and no line need be late.          *)
FairSpec == /\ Spec
            /\ WF_vars(Handlers) /\ WF_vars(Reader) /\ WF_vars(Waiter)
            /\ WF_vars(Drain) /\ SF_vars(Deadline)

-----------------------------------------------------------------------------
(* Properties                                                              *)

Outstanding == queue \o wire
Responses   == {l \in Line : IsResponse(l)}

(* Every event is in one place: whatever the reader, the waiting call, the *)
(* reconnection and the timer do, the window applies no event twice.       *)
NoEventTwice ==
    \A n \in EventId :
        Count(seen, {n}) + (IF held = n THEN 1 ELSE 0)
        + Count(Outstanding, {Event(n)}) + Count(rx, {n}) <= 1

(* No response is consumed twice and none is made up: the responses to a   *)
(* request that calls have returned or that are still on their way are no  *)
(* more than the times the daemon executed it.                             *)
ResponsesPaid ==
    \A c \in CallId :
        Count(answer, {c}) + Count(Outstanding, {Response(c)}) <= executed[c]

(* A call returns the response to its own request, as long as no attempt   *)
(* of a call has failed before.                                            *)
OwnAnswer ==
    failures = 0 => \A c \in CallId : answer[c] \in {0, c}

(* Between calls, the requests and responses left over to confuse the next *)
(* call are no more than the attempts that failed.                         *)
LeftoversBounded ==
    cpc = "idle" => Len(inbox) + Count(Outstanding, Responses) <= failures

(* No request is executed twice, not even an enqueue left in a connection  *)
(* the client closed, unless an attempt failed and the call sent it again. *)
ExecutedOnce ==
    \A c \in CallId : executed[c] >= 2 => failures > 0

(* Every call returns or raises: a rotation of events, a dead reader, a    *)
(* daemon that is gone or a timeout never keeps the main thread in it.     *)
CallsEnd == cpc # "idle" ~> cpc = "idle"

(* Events reach the window while it is connected (violated: the reader     *)
(* ends after recv_timeout without a line, and nothing starts another).    *)
EventsArrive ==
    \A n \in EventId :
        (Event(n) \in Range(wire)) ~> (n \in Range(seen))
=============================================================================
