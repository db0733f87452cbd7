------------------------- MODULE DaemonClientProofs --------------------------
(***************************************************************************)
(* Proofs about DaemonClient, for any number of calls, events, late        *)
(* answers and crashes, and any capacity of the broadcast channel.  All    *)
(* invariants count: what is in a list, wherever it is and in whatever     *)
(* order, is bounded by what was done before.                              *)
(***************************************************************************)
EXTENDS DaemonClient, ListLemmas

(* The attempts of the call that is made, and of those made before it.     *)
Attempts ==
    /\ cpc # "idle" => calls >= 1
    /\ failures <= 2 * calls - (IF cpc = "idle" THEN 0 ELSE 2 - attempt)
    /\ attempt = 1 => failures >= 1

(* A request is sent once by each attempt; a second one follows a failure. *)
Requests(c) == executed[c] + Count(inbox, {c}) + Count(orphans, {c})

Asked(c) ==
    CASE c > calls -> 0
      [] c < calls -> IF failures = 0 THEN 1 ELSE 2
      [] c = calls -> IF cpc = "send" THEN attempt ELSE attempt + 1

RequestsAsked == \A c \in CallId : Requests(c) <= Asked(c)

(* An event is in one place, and in none before it is sent.                *)
Copies(n) ==
    Count(seen, {n}) + (IF held = n THEN 1 ELSE 0)
    + Count(Outstanding, {Event(n)}) + Count(rx, {n})

EventsOnce == \A n \in EventId : Copies(n) <= IF n <= emitted THEN 1 ELSE 0

(* Besides what failed attempts left over, only the current attempt has a  *)
(* request or a response under way.                                        *)
UnderWay ==
    Len(inbox) + Count(Outstanding, Responses)
        <= failures + IF cpc \in {"wait", "putback", "close"} THEN 1 ELSE 0

(* Until an attempt fails, what is under way belongs to the current call.  *)
OwnUnderWay ==
    failures = 0 =>
        \A c \in CallId \ {calls} : Count(inbox, {c}) + Count(Outstanding, {Response(c)}) = 0

IInv == /\ TypeOK /\ Attempts /\ RequestsAsked /\ EventsOnce /\ ResponsesPaid
        /\ UnderWay /\ OwnUnderWay /\ OwnAnswer
-----------------------------------------------------------------------------
(* Lines and lists                                                         *)

LEMMA LineProperties ==
    /\ \A c \in CallId : Response(c) \in Line /\ IsResponse(Response(c))
    /\ \A n \in EventId : Event(n) \in Line /\ IsEvent(Event(n))
    /\ \A l \in Line : /\ ~IsResponse(l) => IsEvent(l)
                       /\ IsEvent(l) => l.id \in EventId /\ l = Event(l.id)
                       /\ IsResponse(l) => l.id \in CallId /\ l = Response(l.id)
                       /\ l \in Responses <=> IsResponse(l)
  BY DEF Line, Response, Event, IsResponse, IsEvent, Responses

(* What the timer takes off the queue is events, and it leaves the rest.   *)
LEMMA DrainProperties ==
    ASSUME TypeOK, NEW X
    PROVE  /\ Drained \in Seq(Line) /\ LeftByDrain \in Seq(Line)
           /\ \A i \in 1 .. Len(Drained) : Drained[i] \in Line /\ IsEvent(Drained[i])
           /\ Count(queue, X) = Count(Drained, X) + Count(LeftByDrain, X)
  <1> DEFINE I == {i \in 1 .. Len(queue) : IsResponse(queue[i])}
             k == FirstResponse
  <1>1. queue \in Seq(Line) /\ Len(queue) \in Nat
    BY LenProperties DEF TypeOK
  <1>2. k = IF I # {} THEN Min(I) ELSE 0
    BY DEF FirstResponse, SelectInSeq
  <1>3. CASE I = {}
    <2>1. k = 0
      BY <1>2, <1>3
    <2>2. Drained = queue /\ LeftByDrain = <<>>
      BY <2>1 DEF Drained, LeftByDrain
    <2>3. \A i \in 1 .. Len(queue) : queue[i] \in Line /\ IsEvent(queue[i])
      BY <1>1, <1>3, ElementOfSeq, LineProperties
    <2>4. Count(<<>>, X) = 0 /\ Count(queue, X) \in Nat
      BY <1>1, CountEmpty, PlacesProperties
    <2> QED
      BY ONLY <1>1, <2>2, <2>3, <2>4, EmptySeq
  <1>4. CASE I # {}
    <2>1. k \in 1 .. Len(queue) /\ \A i \in I : k <= i
      <3>1. I \subseteq Nat
        BY <1>1
      <3>2. Min(I) \in I /\ \A i \in I : Min(I) <= i
        BY ONLY <1>4, <3>1, MinIsMember
      <3> QED
        BY <1>2, <1>4, <3>2
    <2> DEFINE before == SubSeq(queue, 1, k - 1)
               after  == SubSeq(queue, k + 1, Len(queue))
    <2>2. Drained = before /\ LeftByDrain = Append(after, queue[k])
      <3>1. FirstResponse # 0
        BY <1>1, <2>1
      <3> QED
        BY ONLY <3>1, Zenon DEF Drained, LeftByDrain
    <2> HIDE DEF k
    <2>3. /\ before \in Seq(Line) /\ Len(before) = k - 1
          /\ \A i \in 1 .. k - 1 : before[i] = queue[i]
          /\ after \in Seq(Line)
          /\ Count(queue, X) = Count(before, X) + Count(Append(after, queue[k]), X)
      BY ONLY <1>1, <2>1, CountSplit
    <2>4. queue[k] \in Line /\ Append(after, queue[k]) \in Seq(Line)
      <3>1. queue[k] \in Line
        BY ONLY <1>1, <2>1, ElementOfSeq
      <3> QED
        BY ONLY <2>3, <3>1, AppendProperties
    <2>5. ASSUME NEW i \in 1 .. k - 1 PROVE before[i] \in Line /\ IsEvent(before[i])
      <3>1. i \in 1 .. Len(queue) /\ ~(k <= i)
        BY <1>1, <2>1
      <3>2. queue[i] \in Line /\ ~IsResponse(queue[i])
        BY <1>1, <2>1, <3>1, ElementOfSeq
      <3> QED
        BY <2>3, <3>2, LineProperties
    <2> HIDE DEF before, after
    <2> QED
      BY ONLY <2>2, <2>3, <2>4, <2>5
  <1> QED
    BY <1>3, <1>4

-----------------------------------------------------------------------------
(* Types                                                                   *)

USE DEF daemon, channel, socket, caller, window

LEMMA InitIInv == Init => IInv
  <1> SUFFICES ASSUME Init PROVE IInv
    OBVIOUS
  <1> USE DEF Init
  <1>1. TypeOK
    <2>1. /\ crashes \in 0 .. MaxCrashes /\ emitted \in 0 .. MaxEvents
          /\ executed \in [CallId -> 0 .. 2] /\ attempt \in {0, 1}
          /\ held \in 0 .. MaxEvents /\ calls \in 0 .. MaxCalls /\ slow \in 0 .. MaxSlow
          /\ answer \in [CallId -> 0 .. MaxCalls] /\ failures \in 0 .. 2 * MaxCalls
      BY ClientConstants
    <2>2. /\ orphans \in Seq(CallId) /\ inbox \in Seq(CallId) /\ rx \in Seq(EventId)
          /\ wire \in Seq(Line) /\ queue \in Seq(Line) /\ seen \in Seq(EventId)
          /\ Len(rx) <= Capacity
      BY EmptySeq, ClientConstants
    <2> QED
      BY <2>1, <2>2 DEF TypeOK
  <1>2. Attempts
    BY DEF Attempts
  <1>3. \A X : Count(<<>>, X) = 0
    BY CountEmpty
  <1>4. <<>> \o <<>> = <<>> /\ Len(<<>>) = 0
    OBVIOUS
  <1>5. RequestsAsked
    BY <1>3 DEF RequestsAsked, Requests, Asked, CallId
  <1>6. EventsOnce
    BY <1>3, <1>4 DEF EventsOnce, Copies, Outstanding, EventId
  <1>7. ResponsesPaid
    <2>1. ASSUME NEW c \in CallId PROVE Count(answer, {c}) = 0
      <3>1. Places(answer, {c}) = {}
        BY DEF Places, CallId
      <3> QED
        BY <3>1, FS_EmptySet DEF Count
    <2> QED
      BY <1>3, <1>4, <2>1 DEF ResponsesPaid, Outstanding
  <1>8. UnderWay
    BY <1>3, <1>4 DEF UnderWay, Outstanding
  <1>9. OwnUnderWay /\ OwnAnswer
    BY <1>3, <1>4 DEF OwnUnderWay, OwnAnswer, Outstanding
  <1> QED
    BY <1>1, <1>2, <1>5, <1>6, <1>7, <1>8, <1>9 DEF IInv

(* A handler that reads a request executes it for the second time at most. *)
LEMMA ExecutedAgain ==
    ASSUME TypeOK, Attempts, RequestsAsked, NEW list \in {inbox, orphans}, list # <<>>
    PROVE  /\ Head(list) \in CallId
           /\ executed[Head(list)] + 1 \in 0 .. 2
           /\ [executed EXCEPT ![Head(list)] = @ + 1] \in [CallId -> 0 .. 2]
  <1> DEFINE c == Head(list)
  <1>1. list \in Seq(CallId) /\ inbox \in Seq(CallId) /\ orphans \in Seq(CallId)
    BY DEF TypeOK
  <1>2. c \in CallId /\ Tail(list) \in Seq(CallId)
    BY <1>1, HeadTailProperties
  <1> HIDE DEF c
  <1>3. Count(list, {c}) = Count(Tail(list), {c}) + IF c \in {c} THEN 1 ELSE 0
    BY <1>1, CountTail DEF c
  <1>4. /\ Count(inbox, {c}) \in Nat /\ Count(orphans, {c}) \in Nat
        /\ Count(Tail(list), {c}) \in Nat
    BY ONLY <1>1, <1>2, PlacesProperties
  <1>5. Requests(c) <= Asked(c) /\ Asked(c) <= 2 /\ Asked(c) \in Int
    <2>1. attempt \in {0, 1} /\ c \in Nat /\ calls \in Nat
      BY <1>2, ClientConstants DEF TypeOK, CallId
    <2>2. Asked(c) <= 2 /\ Asked(c) \in Int
      BY <2>1 DEF Asked
    <2> QED
      BY <1>2, <2>2 DEF RequestsAsked
  <1>6. executed[c] \in 0 .. 2
    BY <1>2 DEF TypeOK
  <1>7. executed[c] + 1 \in 0 .. 2
    BY <1>3, <1>4, <1>5, <1>6 DEF Requests
  <1> QED
    BY <1>2, <1>7 DEF c, TypeOK
LEMMA NextTypeOK == TypeOK /\ Attempts /\ RequestsAsked /\ [Next]_vars => TypeOK'
  <1> SUFFICES ASSUME TypeOK, Attempts, RequestsAsked, [Next]_vars PROVE TypeOK'
    OBVIOUS
  <1>0. /\ Capacity \in Nat /\ Capacity >= 1 /\ MaxCalls \in Nat /\ MaxEvents \in Nat
        /\ MaxSlow \in Nat /\ MaxCrashes \in Nat
    BY ClientConstants
  <1>1. CASE Emit
    <2>1. emitted' \in 0 .. MaxEvents /\ emitted + 1 \in EventId
      BY <1>0, <1>1 DEF Emit, TypeOK, EventId
    <2>2. /\ Append(rx, emitted + 1) \in Seq(EventId) /\ Append(rx, emitted + 1) # <<>>
          /\ Len(Append(rx, emitted + 1)) = Len(rx) + 1 /\ Len(rx) \in Nat
      <3>1. rx \in Seq(EventId)
        BY DEF TypeOK
      <3> QED
        BY ONLY <2>1, <3>1, AppendProperties, LenProperties
    <2>3. Kept(Append(rx, emitted + 1)) \in Seq(EventId)
          /\ Len(Kept(Append(rx, emitted + 1))) <= Capacity
      BY <1>0, <2>2, HeadTailProperties DEF Kept, TypeOK
    <2>4. rx' \in Seq(EventId) /\ Len(rx') <= Capacity /\ (rx' # <<>> => conn' = "served")
      BY <1>1, <2>3 DEF Emit, TypeOK
    <2>5. lagged' \in BOOLEAN
      BY <1>1, Zenon DEF Emit, TypeOK
    <2> QED
      BY <1>1, <2>1, <2>4, <2>5 DEF Emit, TypeOK
  <1>2. CASE Forward
    <2>1. /\ Head(rx) \in EventId /\ Tail(rx) \in Seq(EventId) /\ Len(Tail(rx)) = Len(rx) - 1
          /\ Len(rx) \in Nat /\ Event(Head(rx)) \in Line
      BY <1>2, HeadTailProperties, LenProperties, LineProperties DEF Forward, TypeOK
    <2>2. Append(wire, Event(Head(rx))) \in Seq(Line)
      BY <2>1, AppendProperties DEF TypeOK
    <2>3. Len(rx') <= Capacity
      BY <1>0, <1>2, <2>1 DEF Forward, TypeOK
    <2> QED
      BY <1>2, <2>1, <2>2, <2>3 DEF Forward, TypeOK
  <1>3. CASE Accept
    BY <1>3 DEF Accept, TypeOK
  <1>4. CASE Dispatch
    <2>1. Head(inbox) \in CallId /\ Tail(inbox) \in Seq(CallId)
          /\ Response(Head(inbox)) \in Line
      BY <1>4, HeadTailProperties, LineProperties DEF Dispatch, TypeOK
    <2>2. Append(wire, Response(Head(inbox))) \in Seq(Line)
      BY <2>1, AppendProperties DEF TypeOK
    <2>3. executed' \in [CallId -> 0 .. 2]
      BY <1>4, ExecutedAgain DEF Dispatch
    <2> QED
      BY <1>4, <2>1, <2>2, <2>3 DEF Dispatch, TypeOK
  <1>5. CASE DispatchOrphan
    <2>1. Tail(orphans) \in Seq(CallId)
      BY <1>5, HeadTailProperties DEF DispatchOrphan, TypeOK
    <2>2. executed' \in [CallId -> 0 .. 2]
      BY <1>5, ExecutedAgain DEF DispatchOrphan, TypeOK
    <2> QED
      BY <1>5, <2>1, <2>2 DEF DispatchOrphan, TypeOK
  <1>6. CASE Crash
    <2>1. crashes' \in 0 .. MaxCrashes /\ Len(<<>>) <= Capacity
      BY <1>0, <1>6, EmptySeq DEF Crash, TypeOK
    <2> QED
      BY <1>6, <2>1, EmptySeq DEF Crash, TypeOK
  <1>7. CASE Boot
    BY <1>7 DEF Boot, TypeOK
  <1>8. CASE ReadLine
    <2>1. Head(wire) \in Line /\ Tail(wire) \in Seq(Line)
      BY <1>8, HeadTailProperties DEF ReadLine, TypeOK
    <2>2. Append(queue, Head(wire)) \in Seq(Line)
      BY <2>1, AppendProperties DEF TypeOK
    <2> QED
      BY <1>8, <2>1, <2>2 DEF ReadLine, TypeOK
  <1>9. CASE ReaderEnds
    BY <1>9 DEF ReaderEnds, TypeOK
  <1>10. CASE Call
    <2>1. calls' \in 0 .. MaxCalls /\ attempt' \in {0, 1}
      BY <1>0, <1>10 DEF Call, TypeOK
    <2> QED
      BY <1>10, <2>1 DEF Call, TypeOK
  <1>11. CASE Send
    <2>1. calls \in CallId
      BY <1>0, <1>11 DEF Send, TypeOK, Attempts, CallId
    <2>2. Append(inbox, calls) \in Seq(CallId)
      BY <2>1, AppendProperties DEF TypeOK
    <2>3. reader' \in BOOLEAN
      BY <1>11, Zenon DEF Send, TypeOK
    <2>4. conn' \in {"pending", "served"}
      BY <1>11 DEF Send, Connectable, TypeOK
    <2>5. rx' # <<>> => conn' = "served"
      BY <1>11 DEF Send, TypeOK
    <2> QED
      BY <1>11, <2>2, <2>3, <2>4, <2>5 DEF Send, Sent, TypeOK
  <1>12. CASE SendFails \/ Deadline
    <2>1. /\ cpc' = "close" /\ cpc \in {"send", "wait"}
          /\ UNCHANGED <<daemon, socket, reader, queue, attempt, held, calls, slow, window>>
      BY <1>12 DEF SendFails, Deadline
    <2> QED
      BY <2>1 DEF TypeOK
  <1>13. CASE Slow
    <2>1. slow' \in 0 .. MaxSlow
      BY <1>0, <1>13 DEF Slow, TypeOK
    <2> QED
      BY <1>13, <2>1 DEF Slow, TypeOK
  <1>14. CASE TakeResponse
    <2>1. Head(queue) \in Line /\ Tail(queue) \in Seq(Line)
      BY <1>14, HeadTailProperties DEF TakeResponse, TypeOK
    <2>2. Head(queue).id \in CallId
      BY <1>14, <2>1, LineProperties DEF TakeResponse
    <2>3. Head(queue).id \in 0 .. MaxCalls
      BY <1>0, <2>2 DEF CallId
    <2> QED
      BY <1>14, <2>1, <2>3 DEF TakeResponse, LeftWithoutIt, TypeOK
  <1>15. CASE TakeEvent
    <2>1. Head(queue) \in Line /\ Tail(queue) \in Seq(Line)
      BY <1>15, HeadTailProperties DEF TakeEvent, TypeOK
    <2>2. Head(queue).id \in EventId
      BY <1>15, <2>1, LineProperties DEF TakeEvent
    <2>3. held' \in 0 .. MaxEvents /\ held' # 0
      BY <1>0, <1>15, <2>2 DEF TakeEvent, EventId
    <2> QED
      BY <1>15, <2>1, <2>3 DEF TakeEvent, TypeOK
  <1>16. CASE PutBack
    <2>1. held \in EventId
      BY <1>0, <1>16 DEF PutBack, TypeOK, EventId
    <2>2. Append(queue, Event(held)) \in Seq(Line)
      BY <2>1, LineProperties, AppendProperties DEF TypeOK
    <2>3. held' = 0 /\ held' \in 0 .. MaxEvents
      BY <1>0, <1>16 DEF PutBack
    <2> QED
      BY <1>16, <2>2, <2>3 DEF PutBack, PutBackLine, TypeOK
  <1>17. CASE Close
    <2>1. failures' \in 0 .. 2 * MaxCalls
      <3>1. failures \in Nat /\ attempt \in {0, 1} /\ calls \in 0 .. MaxCalls
        BY DEF TypeOK
      <3>2. failures <= 2 * calls - (2 - attempt)
        BY <1>17 DEF Close, Attempts
      <3>3. failures' = failures + 1
        BY <1>17 DEF Close
      <3> QED
        BY ONLY <1>0, <3>1, <3>2, <3>3
    <2>2. attempt' \in {0, 1} /\ cpc' \in {"send", "idle"} /\ held' = held
      BY <1>17 DEF Close, NextAttempt, TypeOK
    <2>3. queue' \in Seq(Line)
      BY <1>17, ConcatProperties DEF Close, TypeOK
    <2>4. orphans' \in Seq(CallId)
      <3>1. inbox # <<>> => Head(inbox) \in CallId
        BY HeadTailProperties DEF TypeOK
      <3> QED
        BY <1>17, <3>1, AppendProperties DEF Close, TypeOK
    <2>5. Len(<<>>) <= Capacity
      BY <1>0, EmptySeq
    <2> QED
      BY <1>17, <2>1, <2>2, <2>3, <2>4, <2>5, EmptySeq DEF Close, TypeOK
  <1>18. CASE Drain
    <2>1. LeftByDrain \in Seq(Line)
      BY DrainProperties
    <2>2. [i \in 1 .. Len(Drained) |-> Drained[i].id] \in Seq(EventId)
      BY DrainProperties, LineProperties, LenProperties, IsASeq
    <2>3. seen' \in Seq(EventId)
      BY <1>18, <2>2, ConcatProperties DEF Drain, TypeOK
    <2> QED
      BY <1>18, <2>1, <2>3 DEF Drain, TypeOK
  <1>19. CASE UNCHANGED vars
    BY <1>19 DEF vars, socket, TypeOK
  <1> QED
    BY <1>1, <1>2, <1>3, <1>4, <1>5, <1>6, <1>7, <1>8, <1>9, <1>10, <1>11, <1>12, <1>13,
       <1>14, <1>15, <1>16, <1>17, <1>18, <1>19
       DEF Next, Handlers, Reader, Waiter, ReaderAtEof, ReaderTimesOut
-----------------------------------------------------------------------------
(* How the lines under way change                                          *)

LEMMA OutstandingCount ==
    ASSUME TypeOK, NEW X
    PROVE  /\ Count(Outstanding, X) = Count(queue, X) + Count(wire, X)
           /\ Count(queue, X) \in Nat /\ Count(wire, X) \in Nat
           /\ Outstanding \in Seq(Line)
  BY CountConcat, PlacesProperties, ConcatProperties DEF TypeOK, Outstanding

LEMMA OutstandingMoves ==
    ASSUME TypeOK, TypeOK', NEW X
    PROVE  /\ Count(Outstanding, X) \in Nat /\ Count(Outstanding, X)' \in Nat
           /\ UNCHANGED <<queue, wire>> => Count(Outstanding, X)' = Count(Outstanding, X)
           /\ ReadLine => Count(Outstanding, X)' = Count(Outstanding, X)
           /\ TakeResponse \/ TakeEvent
                => Count(Outstanding, X)
                     = Count(Outstanding, X)' + IF Head(queue) \in X THEN 1 ELSE 0
           /\ PutBack
                => Count(Outstanding, X)'
                     = Count(Outstanding, X) + IF Event(held) \in X THEN 1 ELSE 0
           /\ Forward
                => Count(Outstanding, X)'
                     = Count(Outstanding, X) + IF Event(Head(rx)) \in X THEN 1 ELSE 0
           /\ Dispatch
                => Count(Outstanding, X)'
                     = Count(Outstanding, X) + IF Response(Head(inbox)) \in X THEN 1 ELSE 0
           /\ Close => Count(Outstanding, X)' <= Count(Outstanding, X)
           /\ Drain
                => Count(Outstanding, X) = Count(Outstanding, X)' + Count(Drained, X)
  <1>1. /\ queue \in Seq(Line) /\ wire \in Seq(Line)
        /\ queue' \in Seq(Line) /\ wire' \in Seq(Line)
    BY DEF TypeOK
  <1>2. /\ Count(Outstanding, X) = Count(queue, X) + Count(wire, X)
        /\ Count(queue, X) \in Nat /\ Count(wire, X) \in Nat
    BY OutstandingCount
  <1>3. Count(Outstanding, X)' = Count(queue', X) + Count(wire', X)
    BY <1>1, CountConcat DEF Outstanding
  <1>4. Count(queue', X) \in Nat /\ Count(wire', X) \in Nat
    BY ONLY <1>1, PlacesProperties
  <1>5. ASSUME NEW l \in Line
        PROVE  /\ Count(Append(queue, l), X) = Count(queue, X) + IF l \in X THEN 1 ELSE 0
               /\ Count(Append(wire, l), X) = Count(wire, X) + IF l \in X THEN 1 ELSE 0
    BY ONLY <1>1, l \in Line, CountAppend
  <1>6. /\ queue # <<>> => Count(queue, X)
                             = Count(Tail(queue), X) + IF Head(queue) \in X THEN 1 ELSE 0
        /\ wire # <<>> => Count(wire, X)
                            = Count(Tail(wire), X) + IF Head(wire) \in X THEN 1 ELSE 0
    BY ONLY <1>1, CountTail
  <1>7. ASSUME ReadLine PROVE Count(Outstanding, X)' = Count(Outstanding, X)
    <2>1. wire # <<>> /\ queue' = Append(queue, Head(wire)) /\ wire' = Tail(wire)
      BY <1>7 DEF ReadLine
    <2>2. Head(wire) \in Line
      BY ONLY <1>1, <2>1, HeadTailProperties
    <2> QED
      BY ONLY <1>2, <1>3, <1>4, <1>5, <1>6, <2>1, <2>2
  <1>8. ASSUME TakeResponse \/ TakeEvent
        PROVE  Count(Outstanding, X) = Count(Outstanding, X)' + IF Head(queue) \in X THEN 1 ELSE 0
    <2>1. queue # <<>> /\ queue' = Tail(queue) /\ wire' = wire
      BY <1>8 DEF TakeResponse, TakeEvent, LeftWithoutIt
    <2> QED
      BY ONLY <1>2, <1>3, <1>4, <1>6, <2>1
  <1>9. ASSUME PutBack
        PROVE  Count(Outstanding, X)' = Count(Outstanding, X) + IF Event(held) \in X THEN 1 ELSE 0
    <2>1. queue' = Append(queue, Event(held)) /\ wire' = wire
      BY <1>9 DEF PutBack, PutBackLine
    <2>2. Event(held) \in Line
      BY <1>9, LineProperties DEF PutBack, TypeOK, EventId
    <2> QED
      BY ONLY <1>2, <1>3, <1>5, <2>1, <2>2
  <1>10. ASSUME Forward
         PROVE  Count(Outstanding, X)' = Count(Outstanding, X) + IF Event(Head(rx)) \in X THEN 1 ELSE 0
    <2>1. wire' = Append(wire, Event(Head(rx))) /\ queue' = queue
      BY <1>10 DEF Forward
    <2>2. Event(Head(rx)) \in Line
      BY <1>10, HeadTailProperties, LineProperties DEF Forward, TypeOK
    <2> QED
      BY ONLY <1>2, <1>3, <1>5, <2>1, <2>2
  <1>11. ASSUME Dispatch
         PROVE  Count(Outstanding, X)'
                  = Count(Outstanding, X) + IF Response(Head(inbox)) \in X THEN 1 ELSE 0
    <2>1. wire' = Append(wire, Response(Head(inbox))) /\ queue' = queue
      BY <1>11 DEF Dispatch
    <2>2. Response(Head(inbox)) \in Line
      BY <1>11, HeadTailProperties, LineProperties DEF Dispatch, TypeOK
    <2> QED
      BY ONLY <1>2, <1>3, <1>5, <2>1, <2>2
  <1>12. ASSUME Close PROVE Count(Outstanding, X)' <= Count(Outstanding, X)
    <2>1. wire' = <<>> /\ queue' \in {queue, queue \o wire}
      BY <1>12 DEF Close
    <2>2. Count(queue \o wire, X) = Count(queue, X) + Count(wire, X) /\ Count(<<>>, X) = 0
      BY ONLY <1>1, CountConcat, CountEmpty
    <2>3. Count(wire', X) = 0
      BY ONLY <2>1, <2>2
    <2>4. Count(queue', X) <= Count(queue, X) + Count(wire, X)
      <3>1. CASE queue' = queue
        BY ONLY <1>2, <3>1
      <3>2. CASE queue' = queue \o wire
        BY ONLY <1>2, <2>2, <3>2
      <3> QED
        BY ONLY <2>1, <3>1, <3>2
    <2> QED
      BY ONLY <1>2, <1>3, <1>4, <2>3, <2>4
  <1>13. ASSUME Drain
         PROVE  Count(Outstanding, X) = Count(Outstanding, X)' + Count(Drained, X)
    <2>1. queue' = LeftByDrain /\ wire' = wire
      BY <1>13 DEF Drain
    <2>2. Drained \in Seq(Line) /\ Count(queue, X) = Count(Drained, X) + Count(LeftByDrain, X)
      BY DrainProperties
    <2>3. Count(Drained, X) \in Nat
      BY ONLY <2>2, PlacesProperties
    <2> QED
      BY ONLY <1>2, <1>3, <1>4, <2>1, <2>2, <2>3
  <1>14. Count(Outstanding, X) \in Nat /\ Count(Outstanding, X)' \in Nat
    BY ONLY <1>2, <1>3, <1>4
  <1> QED
    BY <1>3, <1>7, <1>8, <1>9, <1>10, <1>11, <1>12, <1>13, <1>14, <1>2

(* Every action that moves lines, requests or events; the others only      *)
(* change what the caller and the reader are doing.                        *)
LEMMA OtherActions ==
    ASSUME [Next]_vars
    PROVE  \/ Emit \/ Forward \/ Dispatch \/ DispatchOrphan \/ Crash \/ ReadLine
           \/ Call \/ Send \/ TakeResponse \/ TakeEvent \/ PutBack \/ Close \/ Drain
           \/ /\ cpc' = "close" /\ cpc \in {"send", "wait"}
              /\ UNCHANGED <<emitted, orphans, executed, inbox, rx, wire, queue,
                             attempt, held, calls, window>>
           \/ UNCHANGED <<emitted, orphans, executed, inbox, rx, wire, queue, cpc,
                          attempt, held, calls, window>>
  BY DEF Next, Handlers, Reader, Waiter, ReaderAtEof, ReaderTimesOut, ReaderEnds, Boot,
         Accept, SendFails, Deadline, Slow, vars, socket

-----------------------------------------------------------------------------
(* Requests                                                                *)

LEMMA NextAttempts ==
    TypeOK /\ TypeOK' /\ Attempts /\ [Next]_vars => Attempts'
  <1> SUFFICES ASSUME TypeOK, Attempts, [Next]_vars PROVE Attempts'
    OBVIOUS
  <1>1. /\ failures \in Nat /\ attempt \in {0, 1} /\ calls \in Nat
    BY ClientConstants DEF TypeOK
  <1>2. CASE Call
    <2>1. cpc = "idle" /\ calls' = calls + 1 /\ cpc' = "send" /\ attempt' = 0
          /\ failures' = failures
      BY <1>2 DEF Call
    <2> QED
      BY <1>1, <2>1 DEF Attempts
  <1>3. CASE Close
    <2>1. cpc = "close" /\ calls' = calls /\ failures' = failures + 1
          /\ \/ attempt = 0 /\ cpc' = "send" /\ attempt' = 1
             \/ attempt = 1 /\ cpc' = "idle" /\ attempt' = 1
      BY <1>1, <1>3 DEF Close, NextAttempt
    <2> QED
      BY <1>1, <2>1 DEF Attempts
  <1>4. CASE TakeResponse
    <2>1. cpc = "wait" /\ cpc' = "idle" /\ UNCHANGED <<calls, failures, attempt>>
      BY <1>4 DEF TakeResponse
    <2> QED
      BY <1>1, <2>1 DEF Attempts
  <1>5. CASE ~(Call \/ Close \/ TakeResponse)
    <2>1. UNCHANGED <<calls, failures, attempt>> /\ (cpc = "idle" <=> cpc' = "idle")
      BY <1>5, OtherActions DEF Emit, Forward, Dispatch, DispatchOrphan, Crash, ReadLine,
                                Send, TakeEvent, PutBack, Drain
    <2> QED
      BY <2>1 DEF Attempts
  <1> QED
    BY <1>2, <1>3, <1>4, <1>5

LEMMA NextRequests ==
    TypeOK /\ TypeOK' /\ Attempts /\ RequestsAsked /\ [Next]_vars => RequestsAsked'
  <1> SUFFICES ASSUME TypeOK, TypeOK', Attempts, RequestsAsked, [Next]_vars,
                      NEW c \in CallId
               PROVE  (Requests(c) <= Asked(c))'
    BY DEF RequestsAsked
  <1>1. /\ failures \in Nat /\ attempt \in {0, 1} /\ calls \in Nat /\ c \in Nat
        /\ executed[c] \in Nat /\ executed'[c] \in Nat
    <2>1. failures \in Nat /\ attempt \in {0, 1} /\ calls \in Nat /\ c \in Nat
      BY ClientConstants DEF TypeOK, CallId
    <2>2. executed[c] \in 0 .. 2 /\ executed'[c] \in 0 .. 2
      BY DEF TypeOK
    <2> QED
      BY <2>1, <2>2
  <1>2. /\ inbox \in Seq(CallId) /\ orphans \in Seq(CallId)
        /\ inbox' \in Seq(CallId) /\ orphans' \in Seq(CallId)
    BY DEF TypeOK
  <1>3. /\ Count(inbox, {c}) \in Nat /\ Count(inbox', {c}) \in Nat
        /\ Count(orphans, {c}) \in Nat /\ Count(orphans', {c}) \in Nat
    BY ONLY <1>2, PlacesProperties
  <1>4. executed[c] + Count(inbox, {c}) + Count(orphans, {c}) <= Asked(c)
    BY DEF RequestsAsked, Requests
  <1>5. Requests(c)' = executed'[c] + Count(inbox', {c}) + Count(orphans', {c})
    BY DEF Requests
  <1>6. Count(<<>>, {c}) = 0
    BY CountEmpty
  <1>7. ASSUME executed'[c] + Count(inbox', {c}) + Count(orphans', {c})
                 <= executed[c] + Count(inbox, {c}) + Count(orphans, {c}),
               UNCHANGED <<calls, failures, attempt>>,
               cpc = "send" \/ cpc' # "send"
        PROVE  (Requests(c) <= Asked(c))'
    BY <1>1, <1>3, <1>4, <1>5, <1>7 DEF Asked
  <1>8. CASE Dispatch
    <2>1. /\ inbox # <<>> /\ inbox' = Tail(inbox) /\ orphans' = orphans
          /\ executed'[c] = executed[c] + IF Head(inbox) = c THEN 1 ELSE 0
          /\ UNCHANGED <<calls, failures, attempt, cpc>>
      <3>1. executed \in [CallId -> 0 .. 2] /\ executed[c] \in 0 .. 2
        BY DEF TypeOK
      <3>2. executed'[c] = executed[c] + IF Head(inbox) = c THEN 1 ELSE 0
        BY <1>8, <3>1 DEF Dispatch
      <3> QED
        BY <1>8, <3>2 DEF Dispatch
    <2>2. Count(inbox, {c}) = Count(Tail(inbox), {c}) + IF Head(inbox) \in {c} THEN 1 ELSE 0
      BY ONLY <1>2, <2>1, CountTail
    <2> QED
      BY <1>1, <1>3, <1>5, <1>7, <2>1, <2>2
  <1>9. CASE DispatchOrphan
    <2>1. /\ orphans # <<>> /\ orphans' = Tail(orphans) /\ inbox' = inbox
          /\ executed'[c] <= executed[c] + IF Head(orphans) = c THEN 1 ELSE 0
          /\ UNCHANGED <<calls, failures, attempt, cpc>>
      <3>1. executed \in [CallId -> 0 .. 2] /\ executed[c] \in 0 .. 2
        BY DEF TypeOK
      <3>2. executed'[c] <= executed[c] + IF Head(orphans) = c THEN 1 ELSE 0
        BY <1>9, <3>1 DEF DispatchOrphan
      <3> QED
        BY <1>9, <3>2 DEF DispatchOrphan
    <2>2. Count(orphans, {c}) = Count(Tail(orphans), {c}) + IF Head(orphans) \in {c} THEN 1 ELSE 0
      BY ONLY <1>2, <2>1, CountTail
    <2> QED
      BY <1>1, <1>3, <1>5, <1>7, <2>1, <2>2
  <1>10. CASE Crash
    <2>1. inbox' = <<>> /\ orphans' = <<>> /\ UNCHANGED <<executed, calls, failures, attempt, cpc>>
      BY <1>10 DEF Crash
    <2> QED
      BY <1>1, <1>3, <1>5, <1>6, <1>7, <2>1
  <1>11. CASE Call
    <2>1. /\ cpc = "idle" /\ cpc' = "send" /\ calls' = calls + 1 /\ attempt' = 0
          /\ UNCHANGED <<executed, inbox, orphans, failures>>
      BY <1>11 DEF Call
    <2> QED
      BY <1>1, <1>3, <1>4, <1>5, <2>1 DEF Asked, Attempts
  <1>12. CASE Send
    <2>1. /\ cpc = "send" /\ cpc' = "wait" /\ inbox' = Append(inbox, calls)
          /\ UNCHANGED <<executed, orphans, failures, calls, attempt>>
      BY <1>12 DEF Send, Sent
    <2>2. calls \in CallId
      BY <1>1, <2>1, ClientConstants DEF TypeOK, Attempts, CallId
    <2>3. Count(Append(inbox, calls), {c}) = Count(inbox, {c}) + IF calls \in {c} THEN 1 ELSE 0
      BY ONLY <1>2, <2>2, CountAppend
    <2> QED
      BY <1>1, <1>3, <1>4, <1>5, <2>1, <2>3 DEF Asked
  <1>13. CASE Close
    <2>1. /\ cpc = "close" /\ inbox' = <<>> /\ failures' = failures + 1
          /\ orphans' = IF inbox = <<>> THEN orphans ELSE Append(orphans, Head(inbox))
          /\ UNCHANGED <<executed, calls>>
          /\ \/ attempt = 0 /\ cpc' = "send" /\ attempt' = 1
             \/ attempt = 1 /\ cpc' = "idle" /\ attempt' = 1
      BY <1>1, <1>13 DEF Close, NextAttempt
    <2>2. Count(orphans', {c}) <= Count(orphans, {c}) + Count(inbox, {c})
      <3>1. CASE inbox = <<>>
        BY <1>3, <2>1, <3>1
      <3>2. CASE inbox # <<>>
        <4>1. Head(inbox) \in CallId /\ Tail(inbox) \in Seq(CallId)
          BY ONLY <1>2, <3>2, HeadTailProperties
        <4>2. Count(inbox, {c}) = Count(Tail(inbox), {c}) + IF Head(inbox) \in {c} THEN 1 ELSE 0
          BY ONLY <1>2, <3>2, CountTail
        <4>3. Count(Append(orphans, Head(inbox)), {c})
                = Count(orphans, {c}) + IF Head(inbox) \in {c} THEN 1 ELSE 0
          BY ONLY <1>2, <4>1, CountAppend
        <4>4. Count(Tail(inbox), {c}) \in Nat
          BY ONLY <4>1, PlacesProperties
        <4> QED
          BY ONLY <1>3, <2>1, <3>2, <4>2, <4>3, <4>4
      <3> QED
        BY <3>1, <3>2
    <2> QED
      BY <1>1, <1>3, <1>4, <1>5, <1>6, <2>1, <2>2 DEF Asked
  <1>14. CASE ~(Dispatch \/ DispatchOrphan \/ Crash \/ Call \/ Send \/ Close)
    <2>1. /\ UNCHANGED <<executed, inbox, orphans, calls, failures, attempt>>
          /\ (cpc = "send" \/ cpc' # "send")
      BY <1>14, OtherActions DEF Emit, Forward, ReadLine, TakeResponse, TakeEvent, PutBack, Drain
    <2> QED
      BY <1>1, <1>3, <1>5, <1>7, <2>1
  <1> QED
    BY <1>8, <1>9, <1>10, <1>11, <1>12, <1>13, <1>14
-----------------------------------------------------------------------------
(* Events                                                                  *)

(* The numbers the window is given count what was drained.                 *)
LEMMA SeenCount ==
    ASSUME TypeOK, Drain, NEW n \in EventId
    PROVE  Count(seen', {n}) = Count(seen, {n}) + Count(Drained, {Event(n)})
  <1> DEFINE ids == [i \in 1 .. Len(Drained) |-> Drained[i].id]
  <1>1. /\ Drained \in Seq(Line)
        /\ \A i \in 1 .. Len(Drained) : Drained[i] \in Line /\ IsEvent(Drained[i])
    BY DrainProperties
  <1>2. Len(Drained) \in Nat /\ DOMAIN Drained = 1 .. Len(Drained)
    BY <1>1, LenProperties
  <1>3. \A i \in 1 .. Len(Drained) :
          ids[i] \in EventId /\ (ids[i] = n <=> Drained[i] = Event(n))
    <2>1. ASSUME NEW i \in 1 .. Len(Drained)
          PROVE  Drained[i].id \in EventId /\ (Drained[i].id = n <=> Drained[i] = Event(n))
      <3>1. Drained[i].id \in EventId /\ Drained[i] = Event(Drained[i].id)
        BY <1>1, LineProperties
      <3> QED
        BY <3>1 DEF Event
    <2> QED
      BY <2>1
  <1>4. ids \in Seq(EventId) /\ seen \in Seq(EventId)
    BY <1>2, <1>3, IsASeq DEF TypeOK
  <1>5. Places(ids, {n}) = Places(Drained, {Event(n)})
    BY <1>2, <1>3 DEF Places
  <1>6. seen' = seen \o ids
    BY DEF Drain
  <1> HIDE DEF ids
  <1>7. Count(seen', {n}) = Count(seen, {n}) + Count(ids, {n})
    BY ONLY <1>4, <1>6, CountConcat
  <1> QED
    BY <1>5, <1>7 DEF Count

(* An event keeps its copies, from when it is sent, in all steps but those *)
(* of a channel that is full, a socket that is closed and a crash.         *)
LEMMA EventMoves ==
    ASSUME TypeOK, TypeOK', [Next]_vars, NEW n \in EventId
    PROVE  /\ Copies(n) \in Nat /\ Copies(n)' \in Nat
           /\ Emit => /\ emitted' = emitted + 1
                      /\ Copies(n)' <= Copies(n) + IF n = emitted + 1 THEN 1 ELSE 0
                      /\ conn # "served" => Copies(n)' = Copies(n)
                      /\ conn = "served" /\ ~lagged'
                           => Copies(n)' = Copies(n) + IF n = emitted + 1 THEN 1 ELSE 0
           /\ ~Emit => emitted' = emitted /\ Copies(n)' <= Copies(n)
           /\ ~(Emit \/ Close \/ Crash) => Copies(n)' = Copies(n)
  <1> DEFINE out == Count(Outstanding, {Event(n)})
             taken == IF held = n THEN 1 ELSE 0
  <1>1. n \in Nat /\ n >= 1 /\ emitted \in Nat /\ emitted' \in Nat
    BY ClientConstants DEF TypeOK, EventId
  <1>2. /\ rx \in Seq(EventId) /\ rx' \in Seq(EventId)
        /\ seen \in Seq(EventId) /\ seen' \in Seq(EventId)
    BY DEF TypeOK
  <1>3. /\ Count(rx, {n}) \in Nat /\ Count(rx', {n}) \in Nat
        /\ Count(seen, {n}) \in Nat /\ Count(seen', {n}) \in Nat
    BY ONLY <1>2, PlacesProperties
  <1>4. out \in Nat /\ out' \in Nat
    BY OutstandingMoves
  <1>5. /\ Copies(n) = Count(seen, {n}) + taken + out + Count(rx, {n})
        /\ Copies(n)' = Count(seen', {n}) + taken' + out' + Count(rx', {n})
    BY DEF Copies
  <1>6. Copies(n) \in Nat /\ Copies(n)' \in Nat
    <2>1. taken \in Nat /\ taken' \in Nat
      OBVIOUS
    <2> HIDE DEF taken, out
    <2> QED
      BY ONLY <1>3, <1>4, <1>5, <2>1
  <1>7. ASSUME Copies(n)' = Copies(n), emitted' = emitted, ~Emit
        PROVE  /\ Emit => /\ emitted' = emitted + 1
                          /\ Copies(n)' <= Copies(n) + IF n = emitted + 1 THEN 1 ELSE 0
                          /\ conn # "served" => Copies(n)' = Copies(n)
                          /\ conn = "served" /\ ~lagged'
                               => Copies(n)' = Copies(n) + IF n = emitted + 1 THEN 1 ELSE 0
               /\ ~Emit => emitted' = emitted /\ Copies(n)' <= Copies(n)
               /\ ~(Emit \/ Close \/ Crash) => Copies(n)' = Copies(n)
    <2>1. Copies(n)' <= Copies(n)
      BY <1>6, <1>7
    <2> QED
      BY <1>7, <2>1, Zenon
  <1>8. CASE Emit
    <2>1. /\ emitted' = emitted + 1 /\ UNCHANGED <<seen, held, queue, wire>>
          /\ rx' = IF conn = "served" THEN Kept(Append(rx, emitted + 1)) ELSE rx
          /\ conn = "served" => lagged' = (lagged \/ Len(rx) = Capacity)
      BY <1>8 DEF Emit
    <2>2. out' = out /\ Count(seen', {n}) = Count(seen, {n}) /\ taken' = taken
      BY <2>1, OutstandingMoves
    <2>3. Copies(n)' - Count(rx', {n}) = Copies(n) - Count(rx, {n})
      BY <1>3, <1>4, <1>5, <2>2
    <2> DEFINE more == Append(rx, emitted + 1)
    <2>4. emitted + 1 \in EventId
      BY <1>1, <1>8 DEF Emit, EventId, TypeOK
    <2>5. more \in Seq(EventId) /\ more # <<>> /\ Len(more) = Len(rx) + 1 /\ Len(rx) \in Nat
      BY ONLY <1>2, <2>4, AppendProperties, LenProperties
    <2>6. Count(more, {n}) = Count(rx, {n}) + IF n = emitted + 1 THEN 1 ELSE 0
      <3>1. Count(more, {n}) = Count(rx, {n}) + IF emitted + 1 \in {n} THEN 1 ELSE 0
        BY ONLY <1>2, <2>4, CountAppend
      <3> QED
        BY <3>1
    <2>7. Count(Tail(more), {n}) <= Count(more, {n}) /\ Count(Tail(more), {n}) \in Nat
      <3> HIDE DEF more
      <3>1. Count(more, {n}) = Count(Tail(more), {n}) + IF Head(more) \in {n} THEN 1 ELSE 0
        BY ONLY <2>5, CountTail
      <3>2. Tail(more) \in Seq(EventId)
        BY ONLY <2>5, HeadTailProperties
      <3>3. Count(Tail(more), {n}) \in Nat
        BY ONLY <3>2, PlacesProperties
      <3> QED
        BY ONLY <3>1, <3>3
    <2>8. conn # "served" => Copies(n)' = Copies(n)
      <3>1. CASE conn # "served"
        <4>1. rx' = rx
          BY <2>1, <3>1
        <4> QED
          BY <1>3, <1>6, <2>3, <4>1
      <3> QED
        BY <3>1
    <2>9. conn = "served" /\ ~lagged'
            => Copies(n)' = Copies(n) + IF n = emitted + 1 THEN 1 ELSE 0
      <3>1. CASE conn = "served" /\ ~lagged'
        <4>1. Len(rx) # Capacity /\ Len(rx) <= Capacity /\ Capacity \in Nat
          BY <2>1, <3>1, ClientConstants DEF TypeOK
        <4>2. ~(Len(more) > Capacity)
          BY ONLY <2>5, <4>1
        <4>3. rx' = more
          BY <2>1, <3>1, <4>2 DEF Kept
        <4>4. Count(rx', {n}) = Count(rx, {n}) + IF n = emitted + 1 THEN 1 ELSE 0
          BY ONLY <2>6, <4>3
        <4> QED
          BY ONLY <1>1, <1>3, <1>6, <2>3, <4>4
      <3> QED
        BY <3>1
    <2>10. Copies(n)' <= Copies(n) + IF n = emitted + 1 THEN 1 ELSE 0
      <3>1. rx' \in {rx, more, Tail(more)}
        BY <2>1 DEF Kept
      <3> HIDE DEF more
      <3>2. Count(rx', {n}) <= Count(rx, {n}) + IF n = emitted + 1 THEN 1 ELSE 0
        <4>1. CASE rx' = rx
          BY ONLY <1>1, <1>3, <4>1
        <4>2. CASE rx' = more
          BY ONLY <1>1, <1>3, <2>6, <4>2
        <4>3. CASE rx' = Tail(more)
          BY ONLY <1>1, <1>3, <2>6, <2>7, <4>3
        <4> QED
          BY <3>1, <4>1, <4>2, <4>3
      <3> QED
        BY ONLY <1>1, <1>3, <1>6, <2>3, <3>2
    <2> QED
      BY <1>6, <1>8, <2>1, <2>8, <2>9, <2>10, Zenon
  <1>9. CASE Forward
    <2>1. /\ rx # <<>> /\ rx' = Tail(rx)
          /\ UNCHANGED <<seen, held, emitted>>
      BY <1>9 DEF Forward
    <2>2. out' = out + IF Event(Head(rx)) \in {Event(n)} THEN 1 ELSE 0
      BY <1>9, OutstandingMoves
    <2>3. Count(rx, {n}) = Count(Tail(rx), {n}) + IF Head(rx) \in {n} THEN 1 ELSE 0
      BY ONLY <1>2, <2>1, CountTail
    <2>4. Event(Head(rx)) = Event(n) <=> Head(rx) = n
      BY DEF Event
    <2>5. out' + Count(rx', {n}) = out + Count(rx, {n})
      <3>1. Event(Head(rx)) \in {Event(n)} <=> Head(rx) \in {n}
        BY <2>4
      <3>2. Count(rx', {n}) = Count(Tail(rx), {n})
        BY <2>1
      <3> HIDE DEF out
      <3> QED
        BY ONLY <1>3, <1>4, <2>2, <2>3, <3>1, <3>2
    <2>6. Count(seen', {n}) = Count(seen, {n}) /\ taken' = taken
      BY <2>1
    <2>7. taken \in Nat
      OBVIOUS
    <2>8. Copies(n)' = Copies(n)
      <3> HIDE DEF out, taken
      <3> QED
        BY ONLY <1>3, <1>4, <1>5, <2>5, <2>6, <2>7
    <2>9. ~Emit
      BY <1>1, <2>1 DEF Emit
    <2> QED
      BY <1>6, <1>7, <2>1, <2>8, <2>9
  <1>10. CASE Dispatch \/ ReadLine \/ TakeResponse
    <2>1. UNCHANGED <<seen, held, emitted, rx>>
      BY <1>10 DEF Dispatch, ReadLine, TakeResponse
    <2>2. out' = out
      <3>1. CASE Dispatch
        <4>1. Response(Head(inbox)) # Event(n)
          BY DEF Response, Event
        <4> QED
          BY <1>4, <3>1, <4>1, OutstandingMoves
      <3>2. CASE ReadLine
        BY <3>2, OutstandingMoves
      <3>3. CASE TakeResponse
        <4>1. Head(queue) # Event(n)
          BY <3>3 DEF TakeResponse, IsResponse, Event
        <4> QED
          BY <1>4, <3>3, <4>1, OutstandingMoves
      <3> QED
        BY <1>10, <3>1, <3>2, <3>3
    <2>3. Copies(n)' = Copies(n)
      BY <1>5, <2>1, <2>2
    <2>4. ~Emit
      BY <1>1, <2>1 DEF Emit
    <2> QED
      BY <1>6, <1>7, <2>1, <2>3, <2>4
  <1>11. CASE TakeEvent
    <2>1. UNCHANGED <<seen, emitted, rx>> /\ cpc = "wait" /\ queue # <<>>
          /\ IsEvent(Head(queue)) /\ held' = Head(queue).id
      BY <1>11 DEF TakeEvent
    <2>2. out = out' + IF Head(queue) \in {Event(n)} THEN 1 ELSE 0
      BY <1>11, OutstandingMoves
    <2>3. held = 0
      BY <2>1 DEF TypeOK
    <2>4. Head(queue) \in Line
      BY <2>1, HeadTailProperties DEF TypeOK
    <2>5. Head(queue) = Event(held')
      BY <2>1, <2>4, LineProperties
    <2>6. held' = n <=> Head(queue) = Event(n)
      BY <2>5 DEF Event
    <2>7. Copies(n)' = Copies(n)
      BY <1>1, <1>3, <1>4, <1>5, <2>1, <2>2, <2>3, <2>6
    <2>8. ~Emit
      BY <1>1, <2>1 DEF Emit
    <2> QED
      BY <1>6, <1>7, <2>1, <2>7, <2>8
  <1>12. CASE PutBack
    <2>1. UNCHANGED <<seen, emitted, rx>> /\ held' = 0
      BY <1>12 DEF PutBack
    <2>2. out' = out + IF Event(held) \in {Event(n)} THEN 1 ELSE 0
      BY <1>12, OutstandingMoves
    <2>3. Event(held) = Event(n) <=> held = n
      BY DEF Event
    <2>4. Copies(n)' = Copies(n)
      BY <1>1, <1>3, <1>4, <1>5, <2>1, <2>2, <2>3
    <2>5. ~Emit
      BY <1>1, <2>1 DEF Emit
    <2> QED
      BY <1>6, <1>7, <2>1, <2>4, <2>5
  <1>13. CASE Drain
    <2>1. UNCHANGED <<emitted, held, rx>>
      BY <1>13 DEF Drain
    <2>2. out = out' + Count(Drained, {Event(n)})
      BY <1>13, OutstandingMoves
    <2>3. Count(seen', {n}) = Count(seen, {n}) + Count(Drained, {Event(n)})
      BY <1>13, SeenCount
    <2>4. Count(Drained, {Event(n)}) \in Nat
      <3>1. Drained \in Seq(Line)
        BY DrainProperties
      <3> QED
        BY ONLY <3>1, PlacesProperties
    <2>5. Copies(n)' = Copies(n)
      BY <1>3, <1>4, <1>5, <2>1, <2>2, <2>3, <2>4
    <2>6. ~Emit
      BY <1>1, <2>1 DEF Emit
    <2> QED
      BY <1>6, <1>7, <2>1, <2>5, <2>6
  <1>14. CASE Close \/ Crash
    <2>1. UNCHANGED <<seen, emitted, held>> /\ rx' = <<>>
      BY <1>14 DEF Close, Crash
    <2>2. out' <= out
      <3>1. CASE Close
        BY <3>1, OutstandingMoves
      <3>2. CASE Crash
        <4>1. out' = out
          BY <3>2, OutstandingMoves DEF Crash
        <4> QED
          BY <1>4, <4>1
      <3> QED
        BY <1>14, <3>1, <3>2
    <2>3. Count(rx', {n}) = 0
      BY <2>1, CountEmpty
    <2>4. Copies(n)' <= Copies(n)
      BY <1>3, <1>4, <1>5, <2>1, <2>2, <2>3
    <2>5. ~Emit
      BY <1>1, <2>1 DEF Emit
    <2> QED
      BY <1>6, <1>14, <2>1, <2>4, <2>5, Zenon
  <1>15. CASE UNCHANGED <<seen, held, emitted, rx, queue, wire>>
    <2>1. out' = out
      BY <1>15, OutstandingMoves
    <2>2. Copies(n)' = Copies(n)
      BY <1>5, <1>15, <2>1
    <2>3. ~Emit
      BY <1>1, <1>15 DEF Emit
    <2> QED
      BY <1>6, <1>7, <1>15, <2>2, <2>3
  <1> QED
    BY <1>8, <1>9, <1>10, <1>11, <1>12, <1>13, <1>14, <1>15, OtherActions
       DEF DispatchOrphan, Call, Send

LEMMA NextEventsOnce ==
    TypeOK /\ TypeOK' /\ EventsOnce /\ [Next]_vars => EventsOnce'
  <1> SUFFICES ASSUME TypeOK, TypeOK', EventsOnce, [Next]_vars, NEW n \in EventId
               PROVE  (Copies(n) <= IF n <= emitted THEN 1 ELSE 0)'
    BY DEF EventsOnce
  <1>1. n \in Nat /\ emitted \in Nat /\ emitted' \in Nat
    BY ClientConstants DEF TypeOK, EventId
  <1>2. Copies(n) \in Nat /\ Copies(n)' \in Nat
    BY EventMoves
  <1>3. Copies(n) <= IF n <= emitted THEN 1 ELSE 0
    BY DEF EventsOnce
  <1>4. CASE Emit
    <2>1. emitted' = emitted + 1
          /\ Copies(n)' <= Copies(n) + IF n = emitted + 1 THEN 1 ELSE 0
      BY <1>4, EventMoves
    <2> QED
      BY ONLY <1>1, <1>2, <1>3, <2>1
  <1>5. CASE ~Emit
    <2>1. emitted' = emitted /\ Copies(n)' <= Copies(n)
      BY <1>5, EventMoves
    <2> QED
      BY ONLY <1>1, <1>2, <1>3, <2>1
  <1> QED
    BY <1>4, <1>5

-----------------------------------------------------------------------------
(* Responses                                                               *)

LEMMA NextResponsesPaid ==
    TypeOK /\ TypeOK' /\ ResponsesPaid /\ [Next]_vars => ResponsesPaid'
  <1> SUFFICES ASSUME TypeOK, TypeOK', ResponsesPaid, [Next]_vars, NEW c \in CallId
               PROVE  (Count(answer, {c}) + Count(Outstanding, {Response(c)}) <= executed[c])'
    BY DEF ResponsesPaid
  <1> DEFINE out == Count(Outstanding, {Response(c)})
  <1>1. /\ executed \in [CallId -> 0 .. 2] /\ executed[c] \in Nat /\ executed'[c] \in Nat
        /\ answer \in [CallId -> 0 .. MaxCalls] /\ answer' \in [CallId -> 0 .. MaxCalls]
    <2>1. executed[c] \in 0 .. 2 /\ executed'[c] \in 0 .. 2
      BY DEF TypeOK
    <2>2. executed[c] \in Nat /\ executed'[c] \in Nat
      BY ONLY <2>1
    <2>3. /\ executed \in [CallId -> 0 .. 2]
          /\ answer \in [CallId -> 0 .. MaxCalls] /\ answer' \in [CallId -> 0 .. MaxCalls]
      BY DEF TypeOK
    <2> QED
      BY ONLY <2>2, <2>3
  <1>2. out \in Nat /\ out' \in Nat
    BY OutstandingMoves
  <1>3. Count(answer, {c}) \in Nat /\ Count(answer', {c}) \in Nat
    <2>1. answer \in Seq(0 .. MaxCalls) /\ answer' \in Seq(0 .. MaxCalls)
      BY <1>1, ClientConstants, IsASeq DEF CallId
    <2> QED
      BY ONLY <2>1, PlacesProperties
  <1>4. Count(answer, {c}) + out <= executed[c]
    BY DEF ResponsesPaid
  <1>5. ASSUME Count(answer', {c}) + out' <= Count(answer, {c}) + out, executed'[c] >= executed[c]
        PROVE  Count(answer', {c}) + out' <= executed'[c]
    BY ONLY <1>1, <1>2, <1>3, <1>4, <1>5
  <1>6. CASE Dispatch
    <2>1. answer' = answer /\ executed' = [executed EXCEPT ![Head(inbox)] = @ + 1]
      BY <1>6 DEF Dispatch
    <2>2. out' = out + IF Response(Head(inbox)) \in {Response(c)} THEN 1 ELSE 0
      BY <1>6, OutstandingMoves
    <2>3. Response(Head(inbox)) = Response(c) => Head(inbox) = c
      BY DEF Response
    <2>4. executed'[c] = executed[c] + IF Head(inbox) = c THEN 1 ELSE 0
      BY <1>1, <2>1
    <2> QED
      BY <1>1, <1>2, <1>3, <1>4, <2>1, <2>2, <2>3, <2>4
  <1>7. CASE DispatchOrphan
    <2>1. UNCHANGED <<answer, queue, wire>>
      BY <1>7 DEF DispatchOrphan
    <2>2. executed'[c] >= executed[c]
      BY <1>1, <1>7 DEF DispatchOrphan
    <2>3. out' = out
      BY <2>1, OutstandingMoves
    <2> QED
      BY <1>2, <1>3, <1>5, <2>1, <2>2, <2>3
  <1>8. CASE TakeResponse
    <2>1. /\ answer' = [answer EXCEPT ![calls] = Head(queue).id] /\ executed' = executed
          /\ queue # <<>> /\ IsResponse(Head(queue))
      BY <1>8 DEF TakeResponse
    <2>2. out = out' + IF Head(queue) \in {Response(c)} THEN 1 ELSE 0
      BY <1>8, OutstandingMoves
    <2>3. Head(queue) = Response(Head(queue).id)
      <3>1. Head(queue) \in Line
        BY <2>1, HeadTailProperties DEF TypeOK
      <3> QED
        BY <2>1, <3>1, LineProperties
    <2>4. Count(answer', {c}) <= Count(answer, {c}) + IF Head(queue).id = c THEN 1 ELSE 0
      <3>1. DOMAIN answer = CallId /\ DOMAIN answer' = CallId
            /\ IsFiniteSet(Places(answer, {c}))
        <4>1. answer \in Seq(0 .. MaxCalls)
          BY <1>1, ClientConstants, IsASeq DEF CallId
        <4>2. IsFiniteSet(Places(answer, {c}))
          BY ONLY <4>1, PlacesProperties
        <4> QED
          BY <1>1, <4>2
      <3>2. Places(answer', {c}) \subseteq
              Places(answer, {c}) \cup (IF Head(queue).id = c THEN {calls} ELSE {})
        BY <1>1, <2>1, <3>1 DEF Places
      <3>3. CASE Head(queue).id = c
        <4>1. IsFiniteSet(Places(answer, {c}) \cup {calls})
              /\ Cardinality(Places(answer, {c}) \cup {calls})
                   <= Cardinality(Places(answer, {c})) + 1
          <5> DEFINE P == Places(answer, {c})
          <5>1. IsFiniteSet(P) /\ Cardinality(P) \in Nat
            BY <3>1, FS_CardinalityType
          <5> HIDE DEF P
          <5>2. /\ IsFiniteSet(P \cup {calls})
                /\ \/ Cardinality(P \cup {calls}) = Cardinality(P)
                   \/ Cardinality(P \cup {calls}) = Cardinality(P) + 1
            BY ONLY <5>1, FS_AddElement
          <5>3. Cardinality(P \cup {calls}) <= Cardinality(P) + 1
            BY ONLY <5>1, <5>2
          <5> QED
            BY <5>2, <5>3 DEF P
        <4>2. Cardinality(Places(answer', {c})) <= Cardinality(Places(answer, {c}) \cup {calls})
          BY <3>2, <3>3, <4>1, FS_Subset
        <4>3. Cardinality(Places(answer, {c}) \cup {calls}) \in Nat
          BY <4>1, FS_CardinalityType
        <4> QED
          BY <1>3, <3>3, <4>1, <4>2, <4>3 DEF Count
      <3>4. CASE Head(queue).id # c
        <4>1. Cardinality(Places(answer', {c})) <= Cardinality(Places(answer, {c}))
          BY <3>1, <3>2, <3>4, FS_Subset
        <4> QED
          BY <1>3, <3>4, <4>1 DEF Count
      <3> QED
        BY <3>3, <3>4
    <2>5. Head(queue).id = c => Head(queue) = Response(c)
      BY <2>3
    <2> QED
      BY <1>1, <1>2, <1>3, <1>5, <2>1, <2>2, <2>4, <2>5
  <1>9. CASE UNCHANGED <<answer, executed>> /\ out' <= out
    <2>1. Count(answer', {c}) + out' <= Count(answer, {c}) + out /\ executed'[c] = executed[c]
      BY <1>2, <1>3, <1>9
    <2> QED
      BY <1>1, <1>5, <2>1
  <1>10. CASE UNCHANGED <<queue, wire>> /\ UNCHANGED <<answer, executed>>
    <2>1. out' = out
      BY <1>10, OutstandingMoves
    <2> QED
      BY <1>2, <1>9, <1>10, <2>1
  <1>11. CASE ReadLine \/ TakeEvent \/ PutBack \/ Forward \/ Close \/ Drain
    <2>1. UNCHANGED <<answer, executed>>
      BY <1>11 DEF ReadLine, TakeEvent, PutBack, Forward, Close, Drain
    <2>2. ASSUME NEW n PROVE Event(n) \notin {Response(c)}
      BY DEF Event, Response
    <2>3. Drain => Count(Drained, {Response(c)}) \in Nat
      <3>1. Drained \in Seq(Line)
        BY DrainProperties
      <3> QED
        BY ONLY <3>1, PlacesProperties
    <2>4. out' <= out
      BY <1>2, <1>11, <2>2, <2>3, OutstandingMoves
    <2> QED
      BY <1>9, <2>1, <2>4
  <1>12. CASE Emit \/ Crash \/ Call \/ Send
    BY <1>10, <1>12 DEF Emit, Crash, Call, Send
  <1> QED
    BY <1>6, <1>7, <1>8, <1>10, <1>11, <1>12, OtherActions
-----------------------------------------------------------------------------
(* What is under way when a call begins or ends                            *)

LEMMA NextUnderWay ==
    TypeOK /\ TypeOK' /\ UnderWay /\ [Next]_vars => UnderWay'
  <1> SUFFICES ASSUME TypeOK, TypeOK', UnderWay, [Next]_vars PROVE UnderWay'
    OBVIOUS
  <1> DEFINE out == Count(Outstanding, Responses)
             making == cpc \in {"wait", "putback", "close"}
  <1>1. /\ inbox \in Seq(CallId) /\ inbox' \in Seq(CallId)
        /\ Len(inbox) \in Nat /\ Len(inbox') \in Nat
    BY LenProperties DEF TypeOK
  <1>2. out \in Nat /\ out' \in Nat
    BY OutstandingMoves
  <1>3. failures \in Nat /\ failures' \in Nat
    BY ClientConstants DEF TypeOK
  <1>4. Len(inbox) + out <= failures + IF making THEN 1 ELSE 0
    BY DEF UnderWay
  <1>5. UnderWay' <=> Len(inbox') + out' <= failures' + IF making' THEN 1 ELSE 0
    BY DEF UnderWay
  <1>6. ASSUME Len(inbox') + out' <= Len(inbox) + out, failures' = failures, making => making'
        PROVE  UnderWay'
    BY ONLY <1>1, <1>2, <1>3, <1>4, <1>5, <1>6
  <1>7. ASSUME NEW n PROVE Event(n) \notin Responses
    BY DEF Event, Responses, IsResponse
  <1>8. CASE Dispatch
    <2>1. inbox # <<>> /\ inbox' = Tail(inbox) /\ UNCHANGED <<failures, cpc>>
      BY <1>8 DEF Dispatch
    <2>2. Len(inbox') = Len(inbox) - 1
      BY ONLY <1>1, <2>1, HeadTailProperties
    <2>3. out' = out + IF Response(Head(inbox)) \in Responses THEN 1 ELSE 0
      BY <1>8, OutstandingMoves
    <2>4. Len(inbox') + out' <= Len(inbox) + out
      BY ONLY <1>1, <1>2, <2>2, <2>3
    <2> QED
      BY <1>6, <2>1, <2>4
  <1>9. CASE Send
    <2>1. /\ cpc = "send" /\ cpc' = "wait" /\ inbox' = Append(inbox, calls)
          /\ UNCHANGED <<queue, wire, failures>>
      BY <1>9 DEF Send, Sent
    <2>2. Len(inbox') = Len(inbox) + 1
      BY <1>1, <2>1
    <2>3. out' = out
      BY <2>1, OutstandingMoves
    <2>4. making' /\ ~making
      BY <2>1
    <2> QED
      BY ONLY <1>1, <1>2, <1>3, <1>4, <1>5, <2>1, <2>2, <2>3, <2>4
  <1>10. CASE TakeResponse
    <2>1. /\ cpc = "wait" /\ cpc' = "idle" /\ queue # <<>> /\ IsResponse(Head(queue))
          /\ UNCHANGED <<inbox, failures>>
      BY <1>10 DEF TakeResponse
    <2>2. Head(queue) \in Responses
      <3>1. Head(queue) \in Line
        BY <2>1, HeadTailProperties DEF TypeOK
      <3> QED
        BY <2>1, <3>1, LineProperties
    <2>3. out = out' + 1
      BY <1>10, <2>2, OutstandingMoves
    <2>4. making /\ ~making'
      BY <2>1
    <2> QED
      BY ONLY <1>1, <1>2, <1>3, <1>4, <1>5, <2>1, <2>3, <2>4
  <1>11. CASE Close
    <2>1. /\ cpc = "close" /\ cpc' \in {"send", "idle"} /\ inbox' = <<>>
          /\ failures' = failures + 1
      BY <1>11 DEF Close
    <2>2. Len(inbox') = 0 /\ out' <= out
      BY <1>11, <2>1, EmptySeq, OutstandingMoves
    <2>3. making /\ ~making'
      BY <2>1
    <2> QED
      BY ONLY <1>1, <1>2, <1>3, <1>4, <1>5, <2>1, <2>2, <2>3
  <1>12. CASE ReadLine \/ TakeEvent \/ PutBack \/ Forward \/ Drain
    <2>1. UNCHANGED <<inbox, failures>> /\ (making => making')
      BY <1>12 DEF ReadLine, TakeEvent, PutBack, Forward, Drain
    <2>2. Drain => Count(Drained, Responses) \in Nat
      <3>1. Drained \in Seq(Line)
        BY DrainProperties
      <3> QED
        BY ONLY <3>1, PlacesProperties
    <2>3. out' <= out
      BY <1>2, <1>7, <1>12, <2>2, OutstandingMoves
    <2> QED
      BY <1>1, <1>2, <1>6, <2>1, <2>3
  <1>13. CASE Crash
    <2>1. inbox' = <<>> /\ UNCHANGED <<queue, wire, failures, cpc>>
      BY <1>13 DEF Crash
    <2>2. Len(inbox') = 0 /\ out' = out
      BY <2>1, EmptySeq, OutstandingMoves
    <2> QED
      BY <1>1, <1>2, <1>6, <2>1, <2>2
  <1>14. CASE UNCHANGED <<inbox, queue, wire, failures>> /\ (making => making')
    <2>1. out' = out
      BY <1>14, OutstandingMoves
    <2> QED
      BY <1>1, <1>2, <1>6, <1>14, <2>1
  <1>15. CASE Emit \/ DispatchOrphan \/ Call
    BY <1>14, <1>15 DEF Emit, DispatchOrphan, Call
  <1> QED
    BY <1>8, <1>9, <1>10, <1>11, <1>12, <1>13, <1>14, <1>15, OtherActions

LEMMA NextOwn ==
    TypeOK /\ TypeOK' /\ Attempts /\ UnderWay /\ OwnUnderWay /\ OwnAnswer /\ [Next]_vars
        => OwnUnderWay' /\ OwnAnswer'
  <1> SUFFICES ASSUME TypeOK, TypeOK', Attempts, UnderWay, OwnUnderWay, OwnAnswer, [Next]_vars,
                      failures' = 0
               PROVE  /\ \A c \in CallId \ {calls'} :
                           Count(inbox', {c}) + Count(Outstanding, {Response(c)})' = 0
                      /\ \A c \in CallId : answer'[c] \in {0, c}
    BY DEF OwnUnderWay, OwnAnswer
  <1>1. failures = 0 /\ ~Close
    <2>1. failures \in Nat
      BY ClientConstants DEF TypeOK
    <2>2. Close => failures' = failures + 1
      BY DEF Close
    <2>3. ~Close => failures' = failures
      BY OtherActions
         DEF Emit, Forward, Dispatch, DispatchOrphan, Crash, ReadLine, Call, Send,
             TakeResponse, TakeEvent, PutBack, Drain
    <2> QED
      BY <2>1, <2>2, <2>3
  <1>2. /\ \A c \in CallId \ {calls} : Count(inbox, {c}) + Count(Outstanding, {Response(c)}) = 0
        /\ \A c \in CallId : answer[c] \in {0, c}
    BY <1>1 DEF OwnUnderWay, OwnAnswer
  <1>3. inbox \in Seq(CallId) /\ inbox' \in Seq(CallId)
    BY DEF TypeOK
  <1>4. ASSUME NEW c \in CallId
        PROVE  /\ Count(inbox, {c}) \in Nat /\ Count(inbox', {c}) \in Nat
               /\ Count(Outstanding, {Response(c)}) \in Nat
               /\ Count(Outstanding, {Response(c)})' \in Nat
    <2>1. Count(inbox, {c}) \in Nat /\ Count(inbox', {c}) \in Nat
      BY ONLY <1>3, PlacesProperties
    <2> QED
      BY <2>1, OutstandingMoves
  <1>5. CASE Call
    <2>1. cpc = "idle" /\ UNCHANGED <<inbox, queue, wire, answer>>
      BY <1>5 DEF Call
    <2>2. Len(inbox) + Count(Outstanding, Responses) <= 0
      BY <1>1, <2>1 DEF UnderWay
    <2>3. ASSUME NEW c \in CallId PROVE Count(inbox', {c}) + Count(Outstanding, {Response(c)})' = 0
      <3>1. Count(inbox, {c}) <= Len(inbox) /\ Len(inbox) \in Nat
        BY ONLY <1>3, PlacesProperties, LenProperties
      <3>2. Count(Outstanding, {Response(c)}) <= Count(Outstanding, Responses)
        <4>1. {Response(c)} \subseteq Responses
          BY LineProperties
        <4>2. Outstanding \in Seq(Line)
          BY OutstandingCount
        <4> QED
          BY ONLY <4>1, <4>2, CountMonotone
      <3>3. Count(Outstanding, Responses) \in Nat
        BY OutstandingMoves
      <3>4. Count(Outstanding, {Response(c)})' = Count(Outstanding, {Response(c)})
        BY <2>1, OutstandingMoves
      <3> QED
        BY <1>4, <2>1, <2>2, <3>1, <3>2, <3>3, <3>4
    <2> QED
      BY <1>2, <2>1, <2>3
  <1>6. CASE ~Call
    <2>1. calls' = calls
      BY <1>1, <1>6, OtherActions
         DEF Emit, Forward, Dispatch, DispatchOrphan, Crash, ReadLine, Send,
             TakeResponse, TakeEvent, PutBack, Drain
    <2>2. ASSUME NEW c \in CallId \ {calls}
          PROVE  Count(inbox', {c}) + Count(Outstanding, {Response(c)})' = 0
      <3> DEFINE out == Count(Outstanding, {Response(c)})
      <3>1. Count(inbox, {c}) = 0 /\ out = 0 /\ Count(inbox', {c}) \in Nat /\ out' \in Nat
        <4>1. Count(inbox, {c}) + out = 0 /\ Count(inbox, {c}) \in Nat /\ out \in Nat
          BY <1>2, <1>4
        <4> QED
          BY ONLY <4>1, <1>4, c \in CallId \ {calls}
      <3>2. ASSUME NEW n PROVE Event(n) \notin {Response(c)}
        BY DEF Event, Response
      <3>3. CASE Dispatch
        <4>1. inbox # <<>> /\ inbox' = Tail(inbox)
          BY <3>3 DEF Dispatch
        <4>2. Count(inbox, {c}) = Count(Tail(inbox), {c}) + IF Head(inbox) \in {c} THEN 1 ELSE 0
          BY ONLY <1>3, <4>1, CountTail
        <4>3. Head(inbox) # c /\ Count(inbox', {c}) = 0
          BY <3>1, <4>1, <4>2
        <4>4. out' = out + IF Response(Head(inbox)) \in {Response(c)} THEN 1 ELSE 0
          BY <3>3, OutstandingMoves
        <4>5. Response(Head(inbox)) # Response(c)
          BY <4>3 DEF Response
        <4> QED
          BY <3>1, <4>3, <4>4, <4>5
      <3>4. CASE Send
        <4>1. inbox' = Append(inbox, calls) /\ UNCHANGED <<queue, wire>> /\ cpc = "send"
          BY <3>4 DEF Send, Sent
        <4>2. calls \in CallId
          BY <4>1, ClientConstants DEF TypeOK, Attempts, CallId
        <4>3. Count(Append(inbox, calls), {c}) = Count(inbox, {c}) + IF calls \in {c} THEN 1 ELSE 0
          BY ONLY <1>3, <4>2, CountAppend
        <4>4. out' = out
          BY <4>1, OutstandingMoves
        <4> QED
          BY <3>1, <4>1, <4>3, <4>4
      <3>5. CASE Crash
        <4>1. inbox' = <<>> /\ UNCHANGED <<queue, wire>>
          BY <3>5 DEF Crash
        <4>2. Count(inbox', {c}) = 0 /\ out' = out
          BY <4>1, CountEmpty, OutstandingMoves
        <4> QED
          BY <3>1, <4>2
      <3>6. CASE ReadLine \/ TakeResponse \/ TakeEvent \/ PutBack \/ Forward \/ Drain
        <4>1. inbox' = inbox
          BY <3>6 DEF ReadLine, TakeResponse, TakeEvent, PutBack, Forward, Drain
        <4>2. Drain => Count(Drained, {Response(c)}) \in Nat
          <5>1. Drained \in Seq(Line)
            BY DrainProperties
          <5> QED
            BY ONLY <5>1, PlacesProperties
        <4>3. out' <= out
          BY <3>1, <3>2, <3>6, <4>2, OutstandingMoves
        <4> QED
          BY <3>1, <4>1, <4>3
      <3>7. CASE UNCHANGED <<inbox, queue, wire>>
        <4>1. out' = out
          BY <3>7, OutstandingMoves
        <4> QED
          BY <3>1, <3>7, <4>1
      <3>8. CASE Emit \/ DispatchOrphan
        BY <3>7, <3>8 DEF Emit, DispatchOrphan
      <3> QED
        BY <1>1, <1>6, <3>3, <3>4, <3>5, <3>6, <3>7, <3>8, OtherActions
    <2>3. ASSUME NEW c \in CallId PROVE answer'[c] \in {0, c}
      <3>1. CASE TakeResponse
        <4>1. /\ answer' = [answer EXCEPT ![calls] = Head(queue).id]
              /\ queue # <<>> /\ IsResponse(Head(queue))
          BY <3>1 DEF TakeResponse
        <4> DEFINE k == Head(queue).id
        <4>2. k \in CallId /\ Head(queue) = Response(k)
          <5>1. Head(queue) \in Line
            BY <4>1, HeadTailProperties DEF TypeOK
          <5> QED
            BY <4>1, <5>1, LineProperties
        <4> HIDE DEF k
        <4>3. ASSUME NEW d \in CallId, Head(queue) = Response(d) PROVE d = calls
          <5>1. /\ Count(Outstanding, {Response(d)}) = Count(Outstanding, {Response(d)})' + 1
                /\ Count(Outstanding, {Response(d)})' \in Nat
            BY <3>1, <4>3, OutstandingMoves
          <5>2. Count(inbox, {d}) \in Nat
            BY <1>4
          <5>3. Count(inbox, {d}) + Count(Outstanding, {Response(d)}) # 0
            BY ONLY <5>1, <5>2
          <5> QED
            BY <1>2, <5>3
        <4>4. k = calls
          BY <4>2, <4>3
        <4> QED
          BY <1>2, <4>1, <4>4 DEF k, TypeOK
      <3>2. CASE ~TakeResponse
        <4>1. answer' = answer
          BY <1>1, <1>6, <3>2, OtherActions
             DEF Emit, Forward, Dispatch, DispatchOrphan, Crash, ReadLine, Send,
                 TakeEvent, PutBack, Drain
        <4> QED
          BY <1>2, <4>1
      <3> QED
        BY <3>1, <3>2
    <2> QED
      BY <2>1, <2>2, <2>3
  <1> QED
    BY <1>5, <1>6

-----------------------------------------------------------------------------
(* Theorems                                                                *)

LEMMA Invariant == Spec => []IInv
  <1>1. IInv /\ [Next]_vars => IInv'
    <2> SUFFICES ASSUME IInv, [Next]_vars PROVE IInv'
      OBVIOUS
    <2>1. /\ TypeOK /\ Attempts /\ RequestsAsked /\ EventsOnce /\ ResponsesPaid
          /\ UnderWay /\ OwnUnderWay /\ OwnAnswer
      BY DEF IInv
    <2>2. TypeOK'
      BY <2>1, NextTypeOK
    <2> QED
      BY <2>1, <2>2, NextAttempts, NextRequests, NextEventsOnce, NextResponsesPaid,
         NextUnderWay, NextOwn DEF IInv
  <1> QED
    BY <1>1, InitIInv, PTL DEF Spec

(* Every variable keeps its type: no request is executed more than twice,  *)
(* and a call makes two attempts at most.                                  *)
THEOREM ClientTypeCorrect == Spec => []TypeOK
  <1>1. IInv => TypeOK
    BY DEF IInv
  <1> QED
    BY <1>1, Invariant, PTL

(* Whatever the reader, the waiting call, the reconnection and the timer   *)
(* do, no event is lost track of and applied twice.                        *)
THEOREM EventsOnceCorrect == Spec => []NoEventTwice
  <1>1. IInv => NoEventTwice
    <2> SUFFICES ASSUME IInv, NEW n \in EventId PROVE Copies(n) <= 1
      BY DEF NoEventTwice, Copies
    <2>1. Copies(n) <= IF n <= emitted THEN 1 ELSE 0
      BY DEF IInv, EventsOnce
    <2>2. Copies(n) \in Nat
      <3>1. seen \in Seq(EventId) /\ rx \in Seq(EventId) /\ TypeOK
        BY DEF IInv, TypeOK
      <3>2. Count(seen, {n}) \in Nat /\ Count(rx, {n}) \in Nat
        BY ONLY <3>1, PlacesProperties
      <3>3. Count(Outstanding, {Event(n)}) \in Nat
        BY <3>1, OutstandingCount
      <3> QED
        BY <3>2, <3>3 DEF Copies
    <2> QED
      BY <2>1, <2>2
  <1> QED
    BY <1>1, Invariant, PTL

(* No response is consumed twice and none is made up.                      *)
THEOREM ResponsesCorrect == Spec => []ResponsesPaid
  <1>1. IInv => ResponsesPaid
    BY DEF IInv
  <1> QED
    BY <1>1, Invariant, PTL

(* Until an attempt fails every call returns the response to its own       *)
(* request.                                                                *)
THEOREM OwnAnswerCorrect == Spec => []OwnAnswer
  <1>1. IInv => OwnAnswer
    BY DEF IInv
  <1> QED
    BY <1>1, Invariant, PTL

(* Between calls no more requests and responses are left over than         *)
(* attempts have failed.                                                   *)
THEOREM LeftoversCorrect == Spec => []LeftoversBounded
  <1>1. IInv => LeftoversBounded
    <2> SUFFICES ASSUME IInv, cpc = "idle"
                 PROVE  Len(inbox) + Count(Outstanding, Responses) <= failures
      BY DEF LeftoversBounded
    <2>1. /\ Len(inbox) + Count(Outstanding, Responses)
               <= failures + IF cpc \in {"wait", "putback", "close"} THEN 1 ELSE 0
          /\ failures \in Nat
      BY ClientConstants DEF IInv, UnderWay, TypeOK
    <2> QED
      BY <2>1
  <1> QED
    BY <1>1, Invariant, PTL

(* No request is executed twice unless an attempt of a call failed.        *)
THEOREM ExecutedOnceCorrect == Spec => []ExecutedOnce
  <1>1. IInv => ExecutedOnce
    <2> SUFFICES ASSUME IInv, NEW c \in CallId, failures = 0 PROVE ~(executed[c] >= 2)
      BY ClientConstants DEF IInv, TypeOK, ExecutedOnce
    <2>1. /\ executed[c] \in 0 .. 2 /\ attempt \in {0, 1} /\ calls \in Nat /\ c \in Nat
          /\ inbox \in Seq(CallId) /\ orphans \in Seq(CallId)
      <3>1. c \in Nat /\ calls \in Nat
        BY ClientConstants DEF IInv, TypeOK, CallId
      <3> QED
        BY <3>1 DEF IInv, TypeOK
    <2>2. Count(inbox, {c}) \in Nat /\ Count(orphans, {c}) \in Nat
      BY ONLY <2>1, PlacesProperties
    <2>3. attempt = 0
      BY <2>1 DEF IInv, Attempts
    <2>4. Asked(c) <= 1 /\ Asked(c) \in Int
      BY <2>1, <2>3 DEF Asked
    <2>5. executed[c] + Count(inbox, {c}) + Count(orphans, {c}) <= Asked(c)
      BY DEF IInv, RequestsAsked, Requests
    <2> QED
      BY ONLY <2>1, <2>2, <2>4, <2>5
  <1> QED
    BY <1>1, Invariant, PTL
=============================================================================
