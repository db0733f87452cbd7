----------------------------- MODULE TrayProofs ------------------------------
(***************************************************************************)
(* Proofs about Tray, and with it about QueueWindow, for any number of     *)
(* jobs, calls and events and any capacity of the broadcast channel.       *)
(***************************************************************************)
EXTENDS Tray, DaemonClientProofs

(* The calls that poll have been made; in the window it is the first one.  *)
PollsMade ==
    /\ polls \subseteq 1 .. calls
    /\ view = "window" => tick = 0 /\ (calls > 0 => polls = {1})

TrayInv == TrayTypeOK /\ PollsMade

(* What has been read of the table or told about it is not ahead of it.    *)
Behind(s, j) == Stage(s) < Stage(table[j]) \/ s = table[j]

NothingAhead ==
    /\ NeverAhead
    /\ \A c \in CallId : \A t \in shots[c] : \A j \in JobId : Behind(t[j], j)
    /\ \A i \in 1 .. Len(said) : Behind(said[i].state, said[i].job)
    /\ \A i \in 1 .. Len(owed) : Behind(owed[i].state, owed[i].job)

(* Responses come in the order of the requests, as long as no timer turns  *)
(* the queue round.                                                        *)
Ordered(s) ==
    \A i, k \in 1 .. Len(s) :
        i < k /\ IsResponse(s[i]) /\ IsResponse(s[k]) => s[i].id <= s[k].id

Before(s, t) ==
    \A i \in 1 .. Len(s), k \in 1 .. Len(t) :
        IsResponse(s[i]) /\ IsResponse(t[k]) => s[i].id <= t[k].id

AnswersTo(b) == [i \in 1 .. Len(b) |-> Response(b[i])]

AnswersInOrder ==
    view = "tray" =>
        /\ Ordered(queue) /\ Ordered(wire) /\ Ordered(AnswersTo(inbox))
        /\ Before(queue, wire) /\ Before(queue, AnswersTo(inbox)) /\ Before(wire, AnswersTo(inbox))

(* Requests and responses of the calls up to d: each later call takes one  *)
(* of them away or is a failure.                                           *)
Upto(d) == {Response(c) : c \in 1 .. d}
Old(d)  == Count(Outstanding, Upto(d)) + Count(inbox, 1 .. d)

OldUsedUp ==
    view = "tray" =>
        \A d \in CallId : d <= calls /\ Old(d) > 0 =>
            Old(d) + (calls - d) <= failures + IF cpc = "idle" THEN 0 ELSE 1

TickPast == cpc # "idle" => tick # calls

(* All that was or is to be announced.                                     *)
AllNews == said \o owed

(* The last news of a job is its state in the table, and none comes without*)
(* that the job was started.                                               *)
NewsOfTable ==
    /\ \A j \in JobId : table[j] \notin {"absent", "pending"} =>
         \E n \in 1 .. Len(AllNews) :
            /\ AllNews[n].job = j /\ AllNews[n].state = table[j]
            /\ \A m \in 1 .. Len(AllNews) : m > n => AllNews[m].job # j
    /\ \A n \in 1 .. Len(AllNews) : AllNews[n].state # "running" =>
         \E r \in 1 .. n - 1 : AllNews[r] = [job |-> AllNews[n].job, state |-> "running"]

(* While nothing has failed: what the window was not told of was sent      *)
(* before its connection was accepted, and so before its snapshot was read.*)
FirstConnection == view = "window" /\ failures = 0 /\ 1 \in CallId

Missed(n) ==
    /\ \A m \in 1 .. n : Copies(m) = 0
    /\ \A t \in shots[1] : Stage(t[said[n].job]) >= Stage(said[n].state)

Subscribed ==
    /\ conn # "dead"
    /\ FirstConnection =>
        /\ conn # "served" => shots[1] = {} /\ \A n \in 1 .. emitted : Copies(n) = 0
        /\ ~lagged => \A n \in 1 .. emitted : Copies(n) = 1 \/ Missed(n)
        /\ (calls > 1 \/ (calls = 1 /\ cpc = "idle")) <=> answer[1] # 0
        /\ answer[1] = 0 => seen = <<>>

(* The window was told of every event after those sent before it: when it  *)
(* had the connection, none is told of after a later one.                  *)
InOrder(list) ==
    \A i \in 1 .. Len(list) : \A m \in 1 .. list[i] - 1 :
        Copies(m) = 0 \/ \E k \in 1 .. i - 1 : list[k] = m

(* A row shows the last of the first k events told that is about its job,  *)
(* and what the snapshot said if there is none.                            *)
RowTold(list, k, shown, j) ==
    \/ /\ \A i \in 1 .. k : said[list[i]].job # j
       /\ \E t \in shots[1] : shown[j] = t[j]
    \/ \E i \in 1 .. k :
         /\ said[list[i]].job = j /\ said[list[i]].state = shown[j]
         /\ \A h \in 1 .. k : h > i => said[list[h]].job # j

(* Or there is no row: the snapshot was an error, and no start was told.   *)
RowRight(list, k, shown, j) ==
    RowTold(list, k, shown, j) \/ (unread # {} /\ shown[j] = "absent")

RowsTold ==
    FirstConnection /\ ~lagged /\ answer[1] # 0 /\ InOrder(seen)
        => \A j \in JobId : RowRight(seen, Len(seen), rows, j)

-----------------------------------------------------------------------------
(* The rows the timer leaves                                               *)

LEMMA ShownSteps ==
    ASSUME Len(Drained) \in Nat
    PROVE  /\ Shown[0] = rows
           /\ \A i \in 1 .. Len(Drained) :
                Shown[i] = Applied(Shown[i - 1], said[Drained[i].id])
  <1> DEFINE n == Len(Drained)
             S(m, g) == g = [i \in 0 .. m |-> IF i = 0 THEN rows
                                    ELSE Applied(g[i - 1], said[Drained[i].id])]
             P == {m \in 0 .. n : \E g : S(m, g)}
  <1>1. 0 \in P
    <2> DEFINE g == [i \in 0 .. 0 |-> rows]
    <2>1. S(0, g)
      OBVIOUS
    <2>2. 0 \in 0 .. n
      OBVIOUS
    <2> HIDE DEF S, g
    <2> QED
      BY <2>1, <2>2
  <1>2. ASSUME NEW m \in P, m < n PROVE m + 1 \in P
    <2>1. PICK g : S(m, g)
      OBVIOUS
    <2> DEFINE f == [i \in 0 .. m + 1 |-> IF i = m + 1
                                     THEN Applied(g[m], said[Drained[m + 1].id]) ELSE g[i]]
    <2>2. ASSUME NEW i \in 0 .. m + 1
          PROVE  f[i] = IF i = 0 THEN rows ELSE Applied(f[i - 1], said[Drained[i].id])
      <3>1. CASE i = m + 1
        <4>1. i # 0 /\ i - 1 = m /\ m \in 0 .. m + 1 /\ m # m + 1
          BY <3>1
        <4>2. f[i] = Applied(g[m], said[Drained[m + 1].id]) /\ f[m] = g[m]
          BY <3>1, <4>1
        <4> QED
          BY <3>1, <4>1, <4>2
      <3>2. CASE i # m + 1
        <4>1. i \in 0 .. m /\ (i # 0 => i - 1 \in 0 .. m + 1 /\ i - 1 # m + 1)
          BY <3>2
        <4>2. f[i] = g[i] /\ (i # 0 => f[i - 1] = g[i - 1])
          BY <3>2, <4>1
        <4>3. g[i] = IF i = 0 THEN rows ELSE Applied(g[i - 1], said[Drained[i].id])
          BY <2>1, <4>1
        <4> QED
          BY <4>2, <4>3
      <3> QED
        BY <3>1, <3>2
    <2>3. S(m + 1, f)
      BY <2>2
    <2>4. m + 1 \in 0 .. n
      BY <1>2
    <2> HIDE DEF S, f
    <2> QED
      BY <2>3, <2>4
  <1>3. n \in P
    <2> HIDE DEF S
    <2>1. n \in Nat /\ P \subseteq 0 .. n
      OBVIOUS
    <2>2. P = 0 .. n
      BY ONLY <1>1, <1>2, <2>1, UpTo
    <2> QED
      BY <2>1, <2>2
  <1>4. S(n, Shown)
    BY <1>3 DEF Shown
  <1> QED
    BY <1>4
-----------------------------------------------------------------------------
(* The views use the client as its module says                             *)

USE DEF daemon, channel, socket, caller, window

Quiet == UNCHANGED <<view, tick>>

Asking ==
    /\ Call /\ UNCHANGED <<table, owed, said, shots, unread, rows>> /\ Quiet
    /\ \/ view = "window" /\ polls' = IF calls = 0 THEN {1} ELSE polls
       \/ view = "tray" /\ polls' \in {polls, polls \cup {calls + 1}}

OtherAnswer ==
    /\ (view = "window" /\ calls > 1) \/ (view = "tray" /\ calls \notin polls)
    /\ TakeResponse /\ UNCHANGED windowVars /\ Quiet

Elsewhere ==
    /\ \/ Accept \/ Forward \/ DispatchOrphan \/ ReadLine \/ ReaderTimesOut \/ Send
       \/ TakeEvent \/ PutBack \/ Close \/ Deadline \/ Slow \/ UNCHANGED vars
    /\ UNCHANGED windowVars /\ Quiet

LEMMA ViewsActions ==
    ASSUME [ViewsNext]_viewVars
    PROVE  \/ \E j \in JobId : Insert(j) /\ Quiet
           \/ \E j \in JobId, s \in JobState : Advance(j, s) /\ Quiet
           \/ Announce /\ Quiet
           \/ Answer /\ Quiet
           \/ Asking
           \/ view = "window" /\ LoadQueue /\ Quiet
           \/ view = "tray" /\ TickAnswered /\ UNCHANGED view
           \/ view = "window" /\ DrainEvents /\ Quiet
           \/ OtherAnswer
           \/ Elsewhere
  BY DEF ViewsNext, viewVars, allVars, InWindow, InTray, WindowNext, TrayNext, WindowCall,
         TickCall, MenuCall, MenuAnswered, OtherResponse, Rest, Quiet, windowVars,
         Asking, OtherAnswer, Elsewhere

LEMMA ViewsStep == [ViewsNext]_viewVars => [Next]_vars
  <1> SUFFICES ASSUME [ViewsNext]_viewVars PROVE [Next]_vars
    OBVIOUS
  <1>1. ASSUME NEW j \in JobId, Insert(j) PROVE UNCHANGED vars
    BY <1>1 DEF Insert
  <1>2. ASSUME NEW j \in JobId, NEW s \in JobState, Advance(j, s) PROVE UNCHANGED vars
    BY <1>2 DEF Advance
  <1> QED
    BY <1>1, <1>2, ViewsActions
       DEF Announce, Answer, LoadQueue, TickAnswered, DrainEvents, Asking, OtherAnswer,
           Elsewhere, Next, Handlers, Reader, Waiter, ReaderTimesOut

(* A behaviour of the window or of a tray is one of the client module: all *)
(* that is proved of the client holds of both views.                       *)
THEOREM ViewsUseClient == ViewsSpec => Spec
  <1>1. ViewsInit => Init
    BY DEF ViewsInit, WindowInit
  <1> QED
    BY <1>1, ViewsStep, PTL DEF ViewsSpec, Spec

LEMMA ClientInvariant == ViewsSpec => []IInv
  BY ViewsUseClient, Invariant, PTL

-----------------------------------------------------------------------------
(* Types                                                                   *)

Tables == [JobId -> States]

LEMMA AppliedType ==
    ASSUME NEW shown \in Tables, NEW news \in News
    PROVE  Applied(shown, news) \in Tables
  BY DEF Applied, Tables, News, States, JobState, Outcome, Terminal

(* An event the timer takes off the queue is one that was sent.            *)
LEMMA DrainedWasSent ==
    ASSUME IInv, WindowTypeOK, NEW i \in 1 .. Len(Drained)
    PROVE  Drained[i].id \in 1 .. Len(said) /\ said[Drained[i].id] \in News
  <1> DEFINE l == Drained[i]
  <1>1. TypeOK /\ EventsOnce
    BY DEF IInv
  <1>2. Drained \in Seq(Line) /\ l \in Line /\ IsEvent(l)
    BY <1>1, DrainProperties
  <1>3. l.id \in EventId /\ l = Event(l.id)
    BY <1>2, LineProperties
  <1>4. ASSUME NEW n \in EventId, l = Event(n) PROVE n <= emitted
    <2>1. Copies(n) <= IF n <= emitted THEN 1 ELSE 0
      BY <1>1 DEF EventsOnce
    <2>2. Count(Drained, {Event(n)}) \in Nat /\ Count(Drained, {Event(n)}) # 0
      BY <1>2, <1>4, PlacesProperties, CountZero
    <2>3. Count(queue, {Event(n)}) = Count(Drained, {Event(n)}) + Count(LeftByDrain, {Event(n)})
          /\ LeftByDrain \in Seq(Line)
      BY <1>1, DrainProperties
    <2>4. Count(LeftByDrain, {Event(n)}) \in Nat
      BY <2>3, PlacesProperties
    <2>5. Count(Outstanding, {Event(n)}) = Count(queue, {Event(n)}) + Count(wire, {Event(n)})
          /\ Count(wire, {Event(n)}) \in Nat
      BY <1>1, OutstandingCount
    <2>6. Count(seen, {n}) \in Nat /\ Count(rx, {n}) \in Nat
      <3>1. seen \in Seq(EventId) /\ rx \in Seq(EventId)
        BY <1>1 DEF TypeOK
      <3> QED
        BY ONLY <3>1, PlacesProperties
    <2> QED
      BY <2>1, <2>2, <2>3, <2>4, <2>5, <2>6 DEF Copies
  <1>5. l.id <= emitted
    BY <1>3, <1>4
  <1>6. Len(said) = emitted /\ said \in Seq(News) /\ emitted \in Nat
    BY ClientConstants, <1>1 DEF WindowTypeOK, TypeOK
  <1>7. l.id \in 1 .. Len(said)
    BY <1>3, <1>5, <1>6, ClientConstants DEF EventId
  <1> QED
    BY <1>6, <1>7, ElementOfSeq

(* Facts that hold of the rows before the timer and that no event disturbs *)
(* hold of them afterwards.                                                *)
LEMMA ShownInduction ==
    ASSUME IInv, NEW R, rows \in R,
           \A shown \in R : \A i \in 1 .. Len(Drained) :
               Applied(shown, said[Drained[i].id]) \in R
    PROVE  Shown[Len(Drained)] \in R
  <1> DEFINE n == Len(Drained)
             P == {m \in 0 .. n : Shown[m] \in R}
  <1>1. n \in Nat
    <2>1. Drained \in Seq(Line)
      BY DrainProperties DEF IInv
    <2> QED
      BY <2>1, LenProperties
  <1>2. /\ Shown[0] = rows
        /\ \A i \in 1 .. n : Shown[i] = Applied(Shown[i - 1], said[Drained[i].id])
    BY <1>1, ShownSteps
  <1>3. 0 \in P
    BY <1>1, <1>2
  <1>4. ASSUME NEW m \in P, m < n PROVE m + 1 \in P
    <2>1. m + 1 \in 1 .. n /\ m + 1 - 1 = m /\ m + 1 \in 0 .. n
      BY <1>1, <1>4
    <2>2. Shown[m + 1] = Applied(Shown[m], said[Drained[m + 1].id])
      BY <1>2, <2>1
    <2> QED
      BY <2>1, <2>2
  <1>5. P \subseteq 0 .. n
    OBVIOUS
  <1>6. P = 0 .. n
    BY ONLY <1>1, <1>3, <1>4, <1>5, UpTo
  <1> QED
    BY <1>1, <1>6

LEMMA InitTrayInv == ViewsInit => TrayInv
  <1> SUFFICES ASSUME ViewsInit PROVE TrayInv
    OBVIOUS
  <1>1. /\ table = NoRows /\ rows = NoRows /\ owed = <<>> /\ said = <<>> /\ emitted = 0
        /\ polls = {} /\ calls = 0 /\ shots = [c \in CallId |-> {}] /\ tick = 0
        /\ view \in {"window", "tray"} /\ unread = {}
    BY DEF ViewsInit, WindowInit, Init
  <1>2. owed \in Seq(News) /\ said \in Seq(News) /\ Len(owed) = 0 /\ Len(said) = 0
    BY <1>1, EmptySeq
  <1>3. NoRows \in [JobId -> States]
    BY DEF NoRows, States
  <1> QED
    BY <1>1, <1>2, <1>3 DEF TrayInv, PollsMade, TrayTypeOK, WindowTypeOK

(* A handler that answers get_queue adds the table it read or an error.    *)
LEMMA AnswerReads ==
    ASSUME TrayTypeOK, Answer
    PROVE  /\ shots' \in [CallId -> SUBSET Tables]
           /\ unread' \in SUBSET CallId /\ unread \subseteq unread'
           /\ \A c \in CallId : /\ shots[c] \subseteq shots'[c]
                                /\ \A t \in shots'[c] : t \in shots[c] \/ t = table
  <1> DEFINE h == Head(inbox)
  <1>1. /\ shots \in [CallId -> SUBSET Tables] /\ unread \in SUBSET CallId
        /\ polls \subseteq CallId /\ table \in Tables
    BY DEF TrayTypeOK, WindowTypeOK, Tables
  <1>2. \/ h \in polls /\ shots' = [shots EXCEPT ![h] = @ \cup {table}] /\ unread' = unread
        \/ h \in polls /\ unread' = unread \cup {h} /\ shots' = shots
        \/ shots' = shots /\ unread' = unread
    BY DEF Answer, GetQueue
  <1> HIDE DEF h
  <1> QED
    BY <1>1, <1>2

(* What a response holds is a table read for it, or nothing: an error of   *)
(* the read or the answer to a control call.                               *)
LEMMA ResponseHolds ==
    ASSUME NEW c \in CallId, NEW t \in JobsIn(c)
    PROVE  \/ c \in polls /\ t \in shots[c]
           \/ c \in polls /\ c \in unread /\ t = NoRows
           \/ c \notin polls /\ t = NoRows
  BY DEF JobsIn

LEMMA NextTrayType ==
    IInv /\ IInv' /\ TrayInv /\ [ViewsNext]_viewVars => TrayTypeOK'
  <1> SUFFICES ASSUME IInv, IInv', TrayTypeOK, PollsMade, [ViewsNext]_viewVars
               PROVE  TrayTypeOK'
    BY DEF TrayInv
  <1> USE DEF TrayTypeOK, WindowTypeOK, Quiet
  <1>0. TypeOK /\ calls \in Nat /\ emitted \in Nat /\ MaxCalls \in Nat
    <2>1. TypeOK
      BY DEF IInv
    <2> QED
      BY <2>1, ClientConstants DEF TypeOK
  <1>1. ASSUME NEW j \in JobId, Insert(j) /\ Quiet PROVE TrayTypeOK'
    <2>1. table' \in [JobId -> States] /\ emitted' = emitted
      BY <1>1 DEF Insert, States, JobState, vars
    <2> QED
      BY <1>1, <2>1 DEF Insert
  <1>2. ASSUME NEW j \in JobId, NEW s \in JobState, Advance(j, s) /\ Quiet PROVE TrayTypeOK'
    <2>1. table' \in [JobId -> States] /\ emitted' = emitted
      BY <1>2 DEF Advance, WriteOf, States, vars
    <2>2. [job |-> j, state |-> s] \in News
      BY <1>2 DEF Advance, News
    <2>3. owed = <<>> /\ owed' = Append(owed, [job |-> j, state |-> s])
      BY <1>2 DEF Advance, GoesOn
    <2>4. owed' \in Seq(News) /\ Len(owed') = 1
      BY <2>2, <2>3, AppendProperties, EmptySeq
    <2> QED
      BY <1>2, <2>1, <2>4 DEF Advance
  <1>3. CASE Announce /\ Quiet
    <2>1. owed # <<>> /\ said' = said \o owed /\ owed' = <<>> /\ emitted' = emitted + 1
      BY <1>3 DEF Announce, Emit
    <2>2. Len(owed) = 1
      <3>1. owed \in Seq(News)
        OBVIOUS
      <3>2. Len(owed) <= 1
        OBVIOUS
      <3>3. Len(owed) \in Nat /\ Len(owed) # 0
        BY ONLY <2>1, <3>1, LenProperties, EmptySeq
      <3>4. \A k \in Nat : k <= 1 /\ k # 0 => k = 1
        OBVIOUS
      <3> QED
        BY ONLY <3>2, <3>3, <3>4, Zenon
    <2>3. said' \in Seq(News) /\ Len(said') = emitted'
      <3>1. owed \in Seq(News) /\ said \in Seq(News)
        OBVIOUS
      <3>2. said' \in Seq(News) /\ Len(said') = Len(said) + Len(owed)
        BY ONLY <2>1, <3>1, ConcatProperties
      <3>3. Len(said) = emitted
        OBVIOUS
      <3> QED
        BY ONLY <2>1, <2>2, <3>2, <3>3
    <2>4. owed' \in Seq(News) /\ Len(owed') <= 1
      BY <2>1, EmptySeq
    <2> QED
      BY <1>3, <2>3, <2>4 DEF Announce
  <1>4. CASE Answer /\ Quiet
    <2>1. emitted' = emitted
      BY <1>4 DEF Answer, Dispatch
    <2>2. shots' \in [CallId -> SUBSET [JobId -> States]] /\ unread' \in SUBSET CallId
      BY <1>4, AnswerReads DEF Tables
    <2> QED
      BY <1>4, <2>1, <2>2 DEF Answer
  <1>5. CASE Asking
    <2>1. emitted' = emitted /\ calls + 1 \in CallId
      BY <1>0, <1>5 DEF Asking, Call, CallId, TypeOK
    <2>2. polls' \in SUBSET CallId /\ (tick # 0 => tick \in polls')
      <3>1. CASE polls' = polls \/ polls' = polls \cup {calls + 1}
        BY <2>1, <3>1
      <3>2. CASE calls = 0 /\ polls' = {1}
        <4>1. 1 \in CallId /\ polls = {}
          BY <2>1, <3>2 DEF PollsMade
        <4> QED
          BY <3>2, <4>1
      <3> QED
        BY <1>5, <3>1, <3>2 DEF Asking
    <2> QED
      BY <1>5, <2>1, <2>2 DEF Asking
  <1>6. CASE LoadQueue /\ Quiet
    <2>1. emitted' = emitted /\ 1 \in CallId /\ rows' \in JobsIn(1)
      BY <1>0, <1>6 DEF LoadQueue, TakeResponse, CallId, TypeOK
    <2>2. rows' \in [JobId -> States]
      BY <2>1, ResponseHolds DEF NoRows, States
    <2> QED
      BY <1>6, <2>1, <2>2 DEF LoadQueue
  <1>7. CASE TickAnswered /\ UNCHANGED view
    <2>1. emitted' = emitted /\ queue # <<>> /\ IsResponse(Head(queue)) /\ calls \in polls
      BY <1>7 DEF TickAnswered, TakeResponse
    <2>2. Head(queue).id \in CallId
      <3>1. Head(queue) \in Line
        BY <1>0, <2>1, HeadTailProperties DEF TypeOK
      <3> QED
        BY <2>1, <3>1, LineProperties
    <2>3. rows' \in [JobId -> States]
      BY <1>7, <2>2, ResponseHolds DEF TickAnswered, NoRows, States
    <2> QED
      BY <1>7, <2>1, <2>3 DEF TickAnswered
  <1>8. CASE DrainEvents /\ Quiet
    <2>1. emitted' = emitted
      BY <1>8 DEF DrainEvents, Drain
    <2>2. rows' \in Tables
      <3>1. rows \in Tables
        BY DEF Tables
      <3>2. \A shown \in Tables : \A i \in 1 .. Len(Drained) :
              Applied(shown, said[Drained[i].id]) \in Tables
        BY DrainedWasSent, AppliedType
      <3>3. rows' = Shown[Len(Drained)]
        BY <1>8 DEF DrainEvents
      <3> QED
        BY ONLY IInv, <3>1, <3>2, <3>3, ShownInduction
    <2> QED
      BY <1>8, <2>1, <2>2 DEF DrainEvents, Tables
  <1>9. CASE OtherAnswer \/ Elsewhere
    <2>1. emitted' = emitted /\ UNCHANGED windowVars /\ Quiet
      BY <1>9 DEF OtherAnswer, Elsewhere, TakeResponse, Accept, Forward, DispatchOrphan,
                  ReadLine, ReaderTimesOut, ReaderEnds, Send, TakeEvent, PutBack, Close,
                  Deadline, Slow, vars
    <2> QED
      BY <2>1 DEF windowVars
  <1> QED
    BY <1>1, <1>2, <1>3, <1>4, <1>5, <1>6, <1>7, <1>8, <1>9, ViewsActions

LEMMA NextPollsMade ==
    TypeOK /\ PollsMade /\ [ViewsNext]_viewVars => PollsMade'
  <1> SUFFICES ASSUME TypeOK, PollsMade, [ViewsNext]_viewVars PROVE PollsMade'
    OBVIOUS
  <1>0. calls \in Nat
    BY ClientConstants DEF TypeOK
  <1> USE DEF PollsMade, Quiet
  <1>1. CASE Asking
    <2>1. calls' = calls + 1 /\ UNCHANGED <<view, tick>>
      BY <1>1 DEF Asking, Call
    <2>2. polls' \subseteq polls \cup {calls + 1} \/ (calls = 0 /\ polls' = {1})
      BY <1>1 DEF Asking
    <2>3. polls' \subseteq 1 .. calls + 1
      <3>1. polls \subseteq 1 .. calls
        OBVIOUS
      <3>2. 1 .. calls \subseteq 1 .. calls + 1 /\ calls + 1 \in 1 .. calls + 1
            /\ 1 \in 1 .. calls + 1
        BY ONLY <1>0
      <3> QED
        BY ONLY <2>2, <3>1, <3>2
    <2>4. view = "window" => calls + 1 > 0 /\ polls' = {1}
      BY <1>0, <1>1 DEF Asking
    <2> QED
      BY <2>1, <2>3, <2>4
  <1>2. CASE view = "tray" /\ TickAnswered /\ UNCHANGED view
    BY <1>2 DEF TickAnswered, TakeResponse
  <1>3. CASE UNCHANGED <<polls, calls, view, tick>>
    BY <1>3
  <1>4. CASE \/ \E j \in JobId : Insert(j) /\ Quiet
             \/ \E j \in JobId, s \in JobState : Advance(j, s) /\ Quiet
    BY <1>3, <1>4 DEF Insert, Advance, vars
  <1>5. CASE (Announce \/ Answer \/ LoadQueue \/ DrainEvents) /\ Quiet
    BY <1>3, <1>5 DEF Announce, Emit, Answer, Dispatch, LoadQueue, TakeResponse, DrainEvents, Drain
  <1>6. CASE OtherAnswer \/ Elsewhere
    BY <1>3, <1>6
       DEF OtherAnswer, Elsewhere, TakeResponse, Accept, Forward, DispatchOrphan, ReadLine,
           ReaderTimesOut, ReaderEnds, Send, TakeEvent, PutBack, Close, Deadline, Slow, vars,
           windowVars
  <1> QED
    BY <1>1, <1>2, <1>4, <1>5, <1>6, ViewsActions

LEMMA TrayInvariant == ViewsSpec => []TrayInv
  <1>1. IInv /\ IInv' /\ TrayInv /\ [ViewsNext]_viewVars => TrayInv'
    BY NextTrayType, NextPollsMade DEF IInv, TrayInv
  <1> QED
    BY <1>1, InitTrayInv, ClientInvariant, PTL DEF ViewsSpec

(* Table, events, snapshots and rows of the two views keep their types,    *)
(* and a tray's last answered poll is one it has made.                     *)
THEOREM TrayTypeCorrect == ViewsSpec => []TrayTypeOK
  <1>1. TrayInv => TrayTypeOK
    BY DEF TrayInv
  <1> QED
    BY <1>1, TrayInvariant, PTL
-----------------------------------------------------------------------------
(* Nothing is ahead of the table                                           *)

LEMMA Stages ==
    /\ Stage("absent") = 0 /\ Stage("pending") = 1 /\ Stage("running") = 2
    /\ \A s \in Outcome : Stage(s) = 3
    /\ \A s \in States : Stage(s) \in 0 .. 3 /\ (Stage(s) = 0 => s = "absent")
  <1>1. Stage("absent") = 0 /\ Stage("pending") = 1 /\ Stage("running") = 2
    BY DEF Stage, Outcome, Terminal
  <1>2. \A s \in Outcome : Stage(s) = 3
    BY DEF Stage, Outcome, Terminal
  <1>3. \A s \in States : s \in {"absent", "pending", "running"} \cup Outcome
    BY DEF States, JobState, Outcome, Terminal
  <1> QED
    BY <1>1, <1>2, <1>3

(* The table only goes forward.                                            *)
LEMMA TableMoves ==
    ASSUME TrayTypeOK, TrayTypeOK', [ViewsNext]_viewVars, NEW j \in JobId
    PROVE  table'[j] = table[j] \/ Stage(table[j]) < Stage(table'[j])
  <1> USE DEF TrayTypeOK, WindowTypeOK
  <1>1. ASSUME NEW i \in JobId, Insert(i)
        PROVE  table'[j] = table[j] \/ Stage(table[j]) < Stage(table'[j])
    BY <1>1, Stages DEF Insert
  <1>2. ASSUME NEW i \in JobId, NEW s \in JobState, Advance(i, s)
        PROVE  table'[j] = table[j] \/ Stage(table[j]) < Stage(table'[j])
    <2>1. /\ table' = [table EXCEPT ![i] = s]
          /\ (s = "running" /\ table[i] = "pending") \/ (s \in Outcome /\ table[i] = "running")
      BY <1>2 DEF Advance, WriteOf
    <2> QED
      BY <2>1, Stages
  <1>3. CASE UNCHANGED table
    BY <1>3
  <1> QED
    BY <1>1, <1>2, <1>3, ViewsActions
       DEF Announce, Answer, LoadQueue, TickAnswered, DrainEvents, Asking, OtherAnswer,
           Elsewhere, windowVars

LEMMA BehindMoves ==
    ASSUME TrayTypeOK, TrayTypeOK', [ViewsNext]_viewVars,
           NEW j \in JobId, NEW s \in States, Behind(s, j)
    PROVE  Stage(s) < Stage(table'[j]) \/ s = table'[j]
  <1>1. table[j] \in States /\ table'[j] \in States
    BY DEF TrayTypeOK, WindowTypeOK
  <1>2. Stage(s) \in Nat /\ Stage(table[j]) \in Nat /\ Stage(table'[j]) \in Nat
    BY <1>1, Stages
  <1> QED
    BY <1>2, TableMoves DEF Behind

LEMMA AbsentIsBehind ==
    ASSUME TrayTypeOK, NEW j \in JobId PROVE Behind("absent", j)
  <1>1. table[j] \in States
    BY DEF TrayTypeOK, WindowTypeOK
  <1> QED
    BY <1>1, Stages DEF Behind

(* What is shown, read or told after a step is not ahead of the table      *)
(* before it, but for the event of a state the step itself writes.         *)
LEMMA NothingNewAhead ==
    ASSUME IInv, TrayTypeOK, NothingAhead, [ViewsNext]_viewVars
    PROVE  /\ \A j \in JobId : Behind(rows'[j], j)
           /\ \A c \in CallId : \A t \in shots'[c] : \A j \in JobId : Behind(t[j], j)
           /\ \A i \in 1 .. Len(said') : Behind(said'[i].state, said'[i].job)
           /\ \A i \in 1 .. Len(owed') :
                \/ Behind(owed'[i].state, owed'[i].job)
                \/ owed'[i].state = table'[owed'[i].job]
  <1> USE DEF TrayTypeOK, WindowTypeOK
  <1>0. /\ \A j \in JobId : Behind(rows[j], j)
        /\ \A c \in CallId : \A t \in shots[c] : \A j \in JobId : Behind(t[j], j)
        /\ \A i \in 1 .. Len(said) : Behind(said[i].state, said[i].job)
        /\ \A i \in 1 .. Len(owed) : Behind(owed[i].state, owed[i].job)
    BY DEF NothingAhead, NeverAhead, Behind
  <1>1. \A j \in JobId : Behind(rows'[j], j)
    <2>1. CASE LoadQueue
      <3>1. rows' \in JobsIn(1) /\ 1 \in CallId
        <4>1. calls = 1 /\ calls \in 0 .. MaxCalls
          BY <2>1 DEF LoadQueue, IInv, TypeOK
        <4> QED
          BY <2>1, <4>1, ClientConstants DEF LoadQueue, CallId
      <3>2. rows' \in shots[1] \/ rows' = NoRows
        BY <3>1, ResponseHolds
      <3> QED
        BY <1>0, <3>1, <3>2, AbsentIsBehind DEF NoRows
    <2>2. CASE TickAnswered
      <3>1. Head(queue).id \in CallId
        <4>1. queue # <<>> /\ IsResponse(Head(queue)) /\ Head(queue) \in Line
          BY <2>2, HeadTailProperties DEF TickAnswered, TakeResponse, IInv, TypeOK
        <4> QED
          BY <4>1, LineProperties
      <3>2. rows' \in shots[Head(queue).id] \/ rows' = NoRows
        BY <2>2, <3>1, ResponseHolds DEF TickAnswered
      <3>3. CASE rows' = NoRows
        BY <3>3, AbsentIsBehind DEF NoRows
      <3> QED
        BY <1>0, <3>1, <3>2, <3>3
    <2>3. CASE DrainEvents
      <3> DEFINE R == {shown \in Tables : \A j \in JobId : Behind(shown[j], j)}
      <3>1. rows \in R
        BY <1>0 DEF Tables
      <3>2. ASSUME NEW shown \in R, NEW i \in 1 .. Len(Drained)
            PROVE  Applied(shown, said[Drained[i].id]) \in R
        <4> DEFINE n == Drained[i].id
        <4>1. n \in 1 .. Len(said) /\ said[n] \in News
          BY DrainedWasSent
        <4>2. Applied(shown, said[n]) \in Tables
          BY <4>1, AppliedType
        <4>3. Behind(said[n].state, said[n].job)
          BY <1>0, <4>1
        <4> HIDE DEF n
        <4>4. ASSUME NEW j \in JobId PROVE Behind(Applied(shown, said[n])[j], j)
          <5>1. \/ Applied(shown, said[n])[j] = shown[j]
                \/ j = said[n].job /\ Applied(shown, said[n])[j] = said[n].state
            BY <4>1 DEF Applied, Tables, News
          <5> QED
            BY <4>3, <5>1
        <4>5. Applied(shown, said[n]) \in R
          BY <4>2, <4>4
        <4> QED
          BY <4>5 DEF n
      <3>3. rows' = Shown[Len(Drained)]
        BY <2>3 DEF DrainEvents
      <3> HIDE DEF R
      <3>4. rows' \in R
        BY ONLY IInv, <3>1, <3>2, <3>3, ShownInduction
      <3> QED
        BY <3>4 DEF R
    <2>4. CASE UNCHANGED rows
      BY <1>0, <2>4
    <2> QED
      BY <2>1, <2>2, <2>3, <2>4, ViewsActions
         DEF Insert, Advance, Announce, Answer, Asking, OtherAnswer, Elsewhere, windowVars
  <1>2. \A c \in CallId : \A t \in shots'[c] : \A j \in JobId : Behind(t[j], j)
    <2>1. ASSUME NEW c \in CallId, NEW t \in shots'[c] PROVE t \in shots[c] \/ t = table
      <3>1. CASE Answer
        BY <3>1, AnswerReads
      <3>2. CASE UNCHANGED shots
        BY <3>2
      <3> QED
        BY <3>1, <3>2, ViewsActions
           DEF Insert, Advance, Announce, LoadQueue, TickAnswered, DrainEvents, Asking,
               OtherAnswer, Elsewhere, windowVars
    <2> QED
      BY <1>0, <2>1 DEF Behind
  <1>3. \A i \in 1 .. Len(said') : Behind(said'[i].state, said'[i].job)
    <2>1. CASE Announce
      <3>1. said' = said \o owed /\ said \in Seq(News) /\ owed \in Seq(News)
        BY <2>1 DEF Announce
      <3>2. /\ Len(said') = Len(said) + Len(owed) /\ Len(said) \in Nat /\ Len(owed) \in Nat
            /\ \A i \in 1 .. Len(said) + Len(owed) :
                 said'[i] = IF i <= Len(said) THEN said[i] ELSE owed[i - Len(said)]
        BY ONLY <3>1, ConcatProperties, LenProperties
      <3>3. ASSUME NEW i \in 1 .. Len(said')
            PROVE  (i \in 1 .. Len(said) /\ said'[i] = said[i])
                   \/ \E k \in 1 .. Len(owed) : said'[i] = owed[k]
        <4>1. CASE i <= Len(said)
          BY <3>2, <4>1
        <4>2. CASE ~(i <= Len(said))
          <5>1. i - Len(said) \in 1 .. Len(owed) /\ said'[i] = owed[i - Len(said)]
            BY <3>2, <4>2
          <5> QED
            BY <5>1
        <4> QED
          BY <4>1, <4>2
      <3> QED
        BY <1>0, <3>3
    <2>2. CASE UNCHANGED said
      BY <1>0, <2>2
    <2> QED
      BY <2>1, <2>2, ViewsActions
         DEF Insert, Advance, Answer, LoadQueue, TickAnswered, DrainEvents, Asking,
             OtherAnswer, Elsewhere, windowVars
  <1>4. \A i \in 1 .. Len(owed') : \/ Behind(owed'[i].state, owed'[i].job)
                                  \/ owed'[i].state = table'[owed'[i].job]
    <2>1. ASSUME NEW j \in JobId, NEW s \in JobState, Advance(j, s)
          PROVE  \A i \in 1 .. Len(owed') : owed'[i].state = table'[owed'[i].job]
      <3>1. owed = <<>> /\ owed' = Append(owed, [job |-> j, state |-> s])
            /\ table' = [table EXCEPT ![j] = s]
        BY <2>1 DEF Advance, GoesOn, WriteOf
      <3>2. Len(owed') = 1 /\ owed'[1] = [job |-> j, state |-> s]
        BY <3>1
      <3>3. table'[j] = s
        BY <3>1
      <3>4. \A i \in 1 .. Len(owed') : i = 1
        BY <3>2
      <3> QED
        BY <3>2, <3>3, <3>4
    <2>2. CASE Announce
      <3>1. Len(owed') = 0
        BY <2>2, EmptySeq DEF Announce
      <3> QED
        BY <3>1
    <2>3. CASE UNCHANGED owed
      BY <1>0, <2>3
    <2> QED
      BY <2>1, <2>2, <2>3, ViewsActions
         DEF Insert, Answer, LoadQueue, TickAnswered, DrainEvents, Asking,
             OtherAnswer, Elsewhere, windowVars
  <1> QED
    BY <1>1, <1>2, <1>3, <1>4

LEMMA NextNothingAhead ==
    IInv /\ TrayTypeOK /\ TrayTypeOK' /\ NothingAhead /\ [ViewsNext]_viewVars => NothingAhead'
  <1> SUFFICES ASSUME IInv, TrayTypeOK, TrayTypeOK', NothingAhead, [ViewsNext]_viewVars
               PROVE  NothingAhead'
    OBVIOUS
  <1> DEFINE BehindNext(s, j) == Stage(s) < Stage(table'[j]) \/ s = table'[j]
  <1>1. \A j \in JobId, s \in States : Behind(s, j) => BehindNext(s, j)
    BY BehindMoves
  <1>2. \A n \in News : n.job \in JobId /\ n.state \in States
    BY DEF News, States, JobState, Outcome, Terminal
  <1>3. /\ rows' \in [JobId -> States] /\ shots' \in [CallId -> SUBSET [JobId -> States]]
        /\ said' \in Seq(News) /\ owed' \in Seq(News)
    BY DEF TrayTypeOK, WindowTypeOK
  <1>4. \A j \in JobId : BehindNext(rows'[j], j)
    BY <1>1, <1>3, NothingNewAhead
  <1>5. \A c \in CallId : \A t \in shots'[c] : \A j \in JobId : BehindNext(t[j], j)
    BY <1>1, <1>3, NothingNewAhead
  <1>6. \A i \in 1 .. Len(said') : BehindNext(said'[i].state, said'[i].job)
    BY <1>1, <1>2, <1>3, NothingNewAhead, ElementOfSeq
  <1>7. \A i \in 1 .. Len(owed') : BehindNext(owed'[i].state, owed'[i].job)
    BY <1>1, <1>2, <1>3, NothingNewAhead, ElementOfSeq
  <1> QED
    BY <1>4, <1>5, <1>6, <1>7 DEF NothingAhead, NeverAhead, Behind

LEMMA NothingAheadInvariant == ViewsSpec => []NothingAhead
  <1>1. ViewsInit => NothingAhead
    BY EmptySeq DEF ViewsInit, WindowInit, NothingAhead, NeverAhead, NoRows
  <1>2. TrayInv => TrayTypeOK
    BY DEF TrayInv
  <1> QED
    BY <1>1, <1>2, NextNothingAhead, ClientInvariant, TrayInvariant, PTL DEF ViewsSpec

(* No row of the window shows a state its job has not reached, or another  *)
(* outcome than the job's, however old the snapshot is and in whatever     *)
(* order events come in.                                                   *)
THEOREM NeverAheadCorrect == ViewsSpec => []NeverAhead
  <1>1. NothingAhead => NeverAhead
    BY DEF NothingAhead
  <1> QED
    BY <1>1, NothingAheadInvariant, PTL
-----------------------------------------------------------------------------
(* The order of answers                                                    *)

LEMMA OrderOfConcat ==
    ASSUME NEW s \in Seq(Line), NEW t \in Seq(Line), NEW u \in Seq(Line)
    PROVE  /\ s \o t \in Seq(Line)
           /\ Ordered(s \o t) <=> Ordered(s) /\ Ordered(t) /\ Before(s, t)
           /\ Before(s \o t, u) <=> Before(s, u) /\ Before(t, u)
           /\ Before(u, s \o t) <=> Before(u, s) /\ Before(u, t)
  <1> DEFINE st == s \o t
             m == Len(s)
             n == Len(t)
  <1>1. st \in Seq(Line) /\ Len(st) = m + n /\ m \in Nat /\ n \in Nat
    BY ConcatProperties, LenProperties
  <1>2. \A i \in 1 .. m : i \in 1 .. m + n /\ st[i] = s[i]
    <2>1. \A i \in 1 .. m + n : st[i] = IF i <= m THEN s[i] ELSE t[i - m]
      BY ConcatProperties
    <2>2. \A i \in 1 .. m : i \in 1 .. m + n /\ i <= m
      BY <1>1
    <2> QED
      BY <2>1, <2>2
  <1>3. \A k \in 1 .. n : k + m \in 1 .. m + n /\ st[k + m] = t[k]
    <2>1. \A i \in 1 .. m + n : st[i] = IF i <= m THEN s[i] ELSE t[i - m]
      BY ConcatProperties
    <2>2. \A k \in 1 .. n : k + m \in 1 .. m + n /\ ~(k + m <= m) /\ (k + m) - m = k
      BY <1>1
    <2> QED
      BY <2>1, <2>2
  <1>4. \A i \in 1 .. m + n : i \in 1 .. m \/ \E k \in 1 .. n : i = k + m
    <2>1. ASSUME NEW i \in 1 .. m + n, i \notin 1 .. m PROVE i - m \in 1 .. n /\ i = (i - m) + m
      BY <1>1, <2>1
    <2> QED
      BY <2>1
  <1>5. \A i \in 1 .. m, k \in 1 .. n : i < k + m
    BY <1>1
  <1>6. \A i, k \in 1 .. n : i < k <=> i + m < k + m
    BY <1>1
  <1>7. \A i \in 1 .. m, k \in 1 .. n : ~(k + m < i)
    BY <1>1
  <1> HIDE DEF st, m, n
  <1>8. Ordered(st) <=> Ordered(s) /\ Ordered(t) /\ Before(s, t)
    <2>1. ASSUME Ordered(st) PROVE Ordered(s) /\ Ordered(t) /\ Before(s, t)
      <3>1. \A i, k \in 1 .. m + n :
              i < k /\ IsResponse(st[i]) /\ IsResponse(st[k]) => st[i].id <= st[k].id
        BY <1>1, <2>1 DEF Ordered
      <3>2. Ordered(s)
        BY <1>2, <3>1 DEF Ordered, m
      <3>3. Ordered(t)
        <4>1. ASSUME NEW i \in 1 .. n, NEW k \in 1 .. n, i < k,
                     IsResponse(t[i]), IsResponse(t[k])
              PROVE  t[i].id <= t[k].id
          <5>1. /\ i + m \in 1 .. m + n /\ st[i + m] = t[i]
                /\ k + m \in 1 .. m + n /\ st[k + m] = t[k] /\ i + m < k + m
            BY <1>3, <1>6, <4>1
          <5> QED
            BY ONLY <3>1, <4>1, <5>1
        <4> QED
          BY <4>1 DEF Ordered, n
      <3>4. Before(s, t)
        <4>1. ASSUME NEW i \in 1 .. m, NEW k \in 1 .. n, IsResponse(s[i]), IsResponse(t[k])
              PROVE  s[i].id <= t[k].id
          <5>1. /\ i \in 1 .. m + n /\ st[i] = s[i]
                /\ k + m \in 1 .. m + n /\ st[k + m] = t[k] /\ i < k + m
            BY <1>2, <1>3, <1>5
          <5> QED
            BY ONLY <3>1, <4>1, <5>1
        <4> QED
          BY <4>1 DEF Before, m, n
      <3> QED
        BY <3>2, <3>3, <3>4
    <2>2. ASSUME Ordered(s), Ordered(t), Before(s, t) PROVE Ordered(st)
      <3>1. ASSUME NEW i \in 1 .. m + n, NEW k \in 1 .. m + n, i < k,
                   IsResponse(st[i]), IsResponse(st[k])
            PROVE  st[i].id <= st[k].id
        <4>1. CASE i \in 1 .. m /\ k \in 1 .. m
          BY <1>2, <2>2, <3>1, <4>1 DEF Ordered, m
        <4>2. CASE i \in 1 .. m /\ \E h \in 1 .. n : k = h + m
          <5>1. PICK h \in 1 .. n : k = h + m
            BY <4>2
          <5>2. st[i] = s[i] /\ st[k] = t[h]
            BY <1>2, <1>3, <4>2, <5>1
          <5> QED
            BY <2>2, <3>1, <4>2, <5>2 DEF Before, m, n
        <4>3. CASE \E h \in 1 .. n : i = h + m
          <5>1. PICK h \in 1 .. n : i = h + m
            BY <4>3
          <5>2. PICK g \in 1 .. n : k = g + m
            BY <1>4, <1>7, <3>1, <5>1
          <5>3. st[i] = t[h] /\ st[k] = t[g] /\ h < g
            BY <1>3, <1>6, <3>1, <5>1, <5>2
          <5> QED
            BY <2>2, <3>1, <5>3 DEF Ordered, n
        <4> QED
          BY <1>4, <4>1, <4>2, <4>3
      <3> QED
        BY <1>1, <3>1 DEF Ordered
    <2> QED
      BY <2>1, <2>2
  <1>9. \A P : (\A i \in 1 .. Len(st) : st[i] \in P)
               <=> (\A i \in 1 .. m : s[i] \in P) /\ (\A k \in 1 .. n : t[k] \in P)
    <2>1. ASSUME NEW P, \A i \in 1 .. m + n : st[i] \in P
          PROVE  (\A i \in 1 .. m : s[i] \in P) /\ (\A k \in 1 .. n : t[k] \in P)
      BY <1>2, <1>3, <2>1
    <2>2. ASSUME NEW P, \A i \in 1 .. m : s[i] \in P, \A k \in 1 .. n : t[k] \in P,
                 NEW i \in 1 .. m + n
          PROVE  st[i] \in P
      <3>1. CASE i \in 1 .. m
        BY ONLY <1>2, <2>2, <3>1
      <3>2. CASE \E k \in 1 .. n : i = k + m
        BY ONLY <1>3, <2>2, <3>2
      <3> QED
        BY <1>4, <3>1, <3>2
    <2> QED
      BY <1>1, <2>1, <2>2
  <1>10. Before(st, u) <=> Before(s, u) /\ Before(t, u)
    <2> DEFINE P == {l \in Line : \A k \in 1 .. Len(u) :
                        IsResponse(l) /\ IsResponse(u[k]) => l.id <= u[k].id}
    <2>1. ASSUME NEW v \in Seq(Line)
          PROVE  Before(v, u) <=> \A i \in 1 .. Len(v) : v[i] \in P
      <3>1. \A i \in 1 .. Len(v) : v[i] \in Line
        BY ElementOfSeq
      <3> QED
        BY <3>1 DEF Before
    <2> HIDE DEF P
    <2> QED
      BY <1>1, <1>9, <2>1 DEF m, n
  <1>11. Before(u, st) <=> Before(u, s) /\ Before(u, t)
    <2> DEFINE P == {l \in Line : \A i \in 1 .. Len(u) :
                        IsResponse(u[i]) /\ IsResponse(l) => u[i].id <= l.id}
    <2>1. ASSUME NEW v \in Seq(Line)
          PROVE  Before(u, v) <=> \A i \in 1 .. Len(v) : v[i] \in P
      <3>1. \A i \in 1 .. Len(v) : v[i] \in Line
        BY ElementOfSeq
      <3> QED
        BY <3>1 DEF Before
    <2> HIDE DEF P
    <2> QED
      BY <1>1, <1>9, <2>1 DEF m, n
  <1> QED
    BY <1>1, <1>8, <1>10, <1>11 DEF st

LEMMA OrderOfOne ==
    ASSUME NEW s \in Seq(Line), NEW e \in Line
    PROVE  /\ <<e>> \in Seq(Line) /\ Ordered(<<e>>)
           /\ IsEvent(e) => Before(<<e>>, s) /\ Before(s, <<e>>)
           /\ (\A i \in 1 .. Len(s) : IsResponse(s[i]) => s[i].id <= e.id) => Before(s, <<e>>)
           /\ Ordered(<<>>) /\ Before(s, <<>>) /\ Before(<<>>, s)
  <1>1. <<e>> \in Seq(Line) /\ Len(<<e>>) = 1 /\ <<e>>[1] = e /\ Len(<<>>) = 0
    BY EmptySeq
  <1>2. \A i \in 1 .. 1 : i = 1
    OBVIOUS
  <1>3. \A i, k \in 1 .. 1 : ~(i < k)
    OBVIOUS
  <1>4. IsEvent(e) => ~IsResponse(e)
    BY DEF IsEvent, IsResponse
  <1>5. 1 .. 0 = {}
    OBVIOUS
  <1> QED
    BY <1>1, <1>2, <1>3, <1>4, <1>5 DEF Ordered, Before

LEMMA OrderOfAppend ==
    ASSUME NEW s \in Seq(Line), NEW e \in Line, NEW u \in Seq(Line)
    PROVE  /\ Ordered(Append(s, e)) <=> Ordered(s) /\ Before(s, <<e>>)
           /\ Before(Append(s, e), u) <=> Before(s, u) /\ Before(<<e>>, u)
           /\ Before(u, Append(s, e)) <=> Before(u, s) /\ Before(u, <<e>>)
  <1>1. Append(s, e) = s \o <<e>> /\ <<e>> \in Seq(Line) /\ Ordered(<<e>>)
    BY AppendIsConcat, OrderOfOne
  <1> DEFINE t == <<e>>
  <1>2. t \in Seq(Line) /\ Append(s, e) = s \o t /\ Ordered(t)
    BY <1>1
  <1> HIDE DEF t
  <1>3. /\ Ordered(s \o t) <=> Ordered(s) /\ Ordered(t) /\ Before(s, t)
        /\ Before(s \o t, u) <=> Before(s, u) /\ Before(t, u)
        /\ Before(u, s \o t) <=> Before(u, s) /\ Before(u, t)
    BY <1>2, OrderOfConcat
  <1> QED
    BY <1>2, <1>3 DEF t

LEMMA OrderOfTail ==
    ASSUME NEW s \in Seq(Line), s # <<>>, NEW u \in Seq(Line)
    PROVE  /\ Head(s) \in Line /\ Tail(s) \in Seq(Line) /\ <<Head(s)>> \in Seq(Line)
           /\ Ordered(s) <=> Ordered(Tail(s)) /\ Before(<<Head(s)>>, Tail(s))
           /\ Before(s, u) <=> Before(<<Head(s)>>, u) /\ Before(Tail(s), u)
           /\ Before(u, s) <=> Before(u, <<Head(s)>>) /\ Before(u, Tail(s))
  <1>1. s = <<Head(s)>> \o Tail(s) /\ Tail(s) \in Seq(Line) /\ Head(s) \in Line
    BY HeadTailProperties
  <1> DEFINE e == Head(s)
             t == Tail(s)
  <1> HIDE DEF e, t
  <1>2. <<e>> \in Seq(Line) /\ Ordered(<<e>>)
    BY <1>1, OrderOfOne DEF e
  <1>3. /\ Ordered(<<e>> \o t) <=> Ordered(t) /\ Before(<<e>>, t)
        /\ Before(<<e>> \o t, u) <=> Before(<<e>>, u) /\ Before(t, u)
        /\ Before(u, <<e>> \o t) <=> Before(u, <<e>>) /\ Before(u, t)
    <2>1. t \in Seq(Line)
      BY <1>1 DEF t
    <2> QED
      BY <1>2, <2>1, OrderOfConcat
  <1>4. s = <<e>> \o t
    BY <1>1 DEF e, t
  <1> QED
    BY <1>1, <1>2, <1>3, <1>4 DEF e, t

LEMMA AnswersToProperties ==
    ASSUME NEW b \in Seq(CallId)
    PROVE  /\ AnswersTo(b) \in Seq(Line) /\ Len(AnswersTo(b)) = Len(b)
           /\ \A i \in 1 .. Len(b) : AnswersTo(b)[i] = Response(b[i])
           /\ b = <<>> => AnswersTo(b) = <<>>
           /\ b # <<>> => AnswersTo(b) = <<Response(Head(b))>> \o AnswersTo(Tail(b))
           /\ \A c \in CallId : AnswersTo(Append(b, c)) = Append(AnswersTo(b), Response(c))
  <1>1. ASSUME NEW a \in Seq(CallId)
        PROVE  /\ AnswersTo(a) \in Seq(Line) /\ Len(AnswersTo(a)) = Len(a) /\ Len(a) \in Nat
               /\ \A i \in 1 .. Len(a) : AnswersTo(a)[i] = Response(a[i])
    <2>1. Len(a) \in Nat /\ \A i \in 1 .. Len(a) : Response(a[i]) \in Line
      BY ElementOfSeq, LenProperties, LineProperties
    <2> QED
      BY <2>1, IsASeq DEF AnswersTo
  <1>2. ASSUME b # <<>> PROVE AnswersTo(b) = <<Response(Head(b))>> \o AnswersTo(Tail(b))
    <2> DEFINE t == AnswersTo(Tail(b))
               h == <<Response(Head(b))>>
    <2>1. /\ Tail(b) \in Seq(CallId) /\ Head(b) \in CallId /\ Len(Tail(b)) = Len(b) - 1
          /\ \A i \in 1 .. Len(Tail(b)) : Tail(b)[i] = b[i + 1]
          /\ Head(b) = b[1]
      BY <1>2, HeadTailProperties
    <2>2. h \in Seq(Line) /\ Len(h) = 1 /\ h[1] = Response(b[1])
      BY <2>1, LineProperties
    <2>3. /\ t \in Seq(Line) /\ Len(t) = Len(b) - 1
          /\ \A i \in 1 .. Len(b) - 1 : t[i] = Response(b[i + 1])
      <3> DEFINE r == Tail(b)
      <3>1. /\ r \in Seq(CallId) /\ Len(r) = Len(b) - 1
            /\ \A i \in 1 .. Len(r) : r[i] = b[i + 1]
        BY <2>1
      <3> HIDE DEF r
      <3>2. /\ AnswersTo(r) \in Seq(Line) /\ Len(AnswersTo(r)) = Len(r)
            /\ \A i \in 1 .. Len(r) : AnswersTo(r)[i] = Response(r[i])
        BY <1>1, <3>1
      <3>3. \A i \in 1 .. Len(b) - 1 : AnswersTo(r)[i] = Response(b[i + 1])
        BY <3>1, <3>2
      <3> QED
        BY <3>1, <3>2, <3>3 DEF r
    <2> HIDE DEF h, t
    <2>4. /\ h \o t \in Seq(Line) /\ Len(h \o t) = Len(h) + Len(t)
          /\ \A i \in 1 .. Len(h) + Len(t) :
               (h \o t)[i] = IF i <= Len(h) THEN h[i] ELSE t[i - Len(h)]
      BY ONLY <2>2, <2>3, ConcatProperties
    <2>5. Len(h \o t) = Len(b)
      BY <1>1, <2>2, <2>3, <2>4
    <2>6. ASSUME NEW i \in 1 .. Len(b) PROVE (h \o t)[i] = Response(b[i])
      <3>1. CASE i = 1
        BY <1>1, <2>2, <2>3, <2>4, <3>1
      <3>2. CASE i # 1
        <4>1. i - 1 \in 1 .. Len(b) - 1 /\ (i - 1) + 1 = i /\ ~(i <= 1)
              /\ i \in 1 .. Len(h) + Len(t)
          BY <1>1, <2>2, <2>3, <3>2
        <4> QED
          BY <2>2, <2>3, <2>4, <4>1
      <3> QED
        BY <3>1, <3>2
    <2>7. /\ AnswersTo(b) \in Seq(Line) /\ Len(AnswersTo(b)) = Len(b)
          /\ \A i \in 1 .. Len(b) : AnswersTo(b)[i] = Response(b[i])
      BY <1>1
    <2>8. AnswersTo(b) = h \o t
      BY ONLY <2>4, <2>5, <2>6, <2>7, SeqEqual
    <2> QED
      BY <2>8 DEF h, t
  <1>3. ASSUME NEW c \in CallId PROVE AnswersTo(Append(b, c)) = Append(AnswersTo(b), Response(c))
    <2> DEFINE x == AnswersTo(Append(b, c))
               y == Append(AnswersTo(b), Response(c))
    <2>1. /\ Append(b, c) \in Seq(CallId) /\ Len(Append(b, c)) = Len(b) + 1
          /\ \A i \in 1 .. Len(b) : Append(b, c)[i] = b[i]
          /\ Append(b, c)[Len(b) + 1] = c
      BY AppendProperties
    <2>2. /\ x \in Seq(Line) /\ Len(x) = Len(b) + 1
          /\ \A i \in 1 .. Len(b) + 1 : x[i] = Response(Append(b, c)[i])
      BY <1>1, <2>1
    <2>3. /\ y \in Seq(Line) /\ Len(y) = Len(b) + 1
          /\ \A i \in 1 .. Len(b) : y[i] = Response(b[i])
          /\ y[Len(b) + 1] = Response(c)
      <3>1. /\ AnswersTo(b) \in Seq(Line) /\ Len(AnswersTo(b)) = Len(b)
            /\ \A i \in 1 .. Len(b) : AnswersTo(b)[i] = Response(b[i])
        BY <1>1
      <3>2. Response(c) \in Line
        BY LineProperties
      <3> QED
        BY <3>1, <3>2, AppendProperties
    <2> HIDE DEF x, y
    <2>4. ASSUME NEW i \in 1 .. Len(b) + 1 PROVE x[i] = y[i]
      <3>1. i \in 1 .. Len(b) \/ i = Len(b) + 1
        BY <1>1
      <3> QED
        BY <2>1, <2>2, <2>3, <3>1
    <2>5. x = y
      BY ONLY <2>2, <2>3, <2>4, SeqEqual
    <2> QED
      BY <2>5 DEF x, y
  <1>4. ASSUME b = <<>> PROVE AnswersTo(b) = <<>>
    BY <1>1, <1>4, EmptySeq
  <1> QED
    BY <1>1, <1>2, <1>3, <1>4
(* No request or response is of a call that has not been made.             *)
LEMMA OnlyMadeCalls ==
    ASSUME IInv
    PROVE  /\ \A i \in 1 .. Len(queue) : IsResponse(queue[i]) => queue[i].id <= calls
           /\ \A i \in 1 .. Len(wire) : IsResponse(wire[i]) => wire[i].id <= calls
           /\ \A i \in 1 .. Len(inbox) : inbox[i] <= calls
  <1>0. TypeOK /\ RequestsAsked /\ ResponsesPaid /\ calls \in Nat /\ CallId \subseteq Nat
    BY ClientConstants DEF IInv, TypeOK, CallId
  <1>1. ASSUME NEW c \in CallId, c > calls
        PROVE  /\ Count(queue, {Response(c)}) = 0 /\ Count(wire, {Response(c)}) = 0
               /\ Count(inbox, {c}) = 0
    <2>1. Asked(c) = 0
      <3>1. c \in Nat /\ ~(c < calls) /\ c # calls
        BY <1>0, <1>1
      <3> QED
        BY <1>1, <3>1 DEF Asked
    <2>2. executed[c] + Count(inbox, {c}) + Count(orphans, {c}) <= 0
      BY <1>0, <2>1 DEF RequestsAsked, Requests
    <2>3. Count(inbox, {c}) \in Nat /\ Count(orphans, {c}) \in Nat
      <3>1. inbox \in Seq(CallId) /\ orphans \in Seq(CallId)
        BY <1>0 DEF TypeOK
      <3> QED
        BY ONLY <3>1, PlacesProperties
    <2>4. executed[c] \in 0 .. 2
      BY <1>0 DEF TypeOK
    <2>5. executed[c] = 0 /\ Count(inbox, {c}) = 0
      BY ONLY <2>2, <2>3, <2>4
    <2>6. Count(answer, {c}) + Count(Outstanding, {Response(c)}) <= 0
      BY <1>0, <2>5 DEF ResponsesPaid
    <2>7. Count(answer, {c}) \in Nat
      <3>1. answer \in [CallId -> 0 .. MaxCalls]
        BY <1>0 DEF TypeOK
      <3>2. answer \in Seq(0 .. MaxCalls)
        BY <3>1, ClientConstants, IsASeq DEF CallId
      <3> QED
        BY ONLY <3>2, PlacesProperties
    <2>8. /\ Count(Outstanding, {Response(c)})
               = Count(queue, {Response(c)}) + Count(wire, {Response(c)})
          /\ Count(queue, {Response(c)}) \in Nat /\ Count(wire, {Response(c)}) \in Nat
      BY <1>0, OutstandingCount
    <2> QED
      BY ONLY <2>5, <2>6, <2>7, <2>8
  <1>2. ASSUME NEW s \in Seq(Line), \A c \in CallId : c > calls => Count(s, {Response(c)}) = 0,
               NEW i \in 1 .. Len(s), IsResponse(s[i])
        PROVE  s[i].id <= calls
    <2> DEFINE c == s[i].id
    <2>1. c \in CallId /\ s[i] = Response(c)
      BY <1>2, ElementOfSeq, LineProperties
    <2>2. Count(s, {Response(c)}) # 0
      BY <2>1, CountZero
    <2>3. c \in Nat
      BY <1>0, <2>1
    <2> HIDE DEF c
    <2>4. ~(c > calls)
      BY <1>2, <2>1, <2>2
    <2>5. c <= calls
      BY ONLY <1>0, <2>3, <2>4
    <2> QED
      BY <2>5 DEF c
  <1>3. ASSUME NEW i \in 1 .. Len(inbox) PROVE inbox[i] <= calls
    <2> DEFINE c == inbox[i]
    <2>1. inbox \in Seq(CallId) /\ c \in CallId
      BY <1>0, ElementOfSeq DEF TypeOK
    <2>2. Count(inbox, {c}) # 0
      BY <2>1, CountZero
    <2> HIDE DEF c
    <2>3. ~(c > calls) /\ c \in Nat
      BY <1>0, <1>1, <2>1, <2>2
    <2>4. c <= calls
      BY ONLY <1>0, <2>3
    <2> QED
      BY <2>4 DEF c
  <1>4. queue \in Seq(Line) /\ wire \in Seq(Line)
    BY <1>0 DEF TypeOK
  <1> QED
    BY <1>1, <1>2, <1>3, <1>4

LEMMA NextAnswersInOrder ==
    IInv /\ IInv' /\ AnswersInOrder /\ [ViewsNext]_viewVars => AnswersInOrder'
  <1> SUFFICES ASSUME IInv, IInv', AnswersInOrder, [ViewsNext]_viewVars, view' = "tray"
               PROVE  AnswersInOrder'
    BY DEF AnswersInOrder
  <1> DEFINE asks == AnswersTo(inbox)
             Sorted(q, w, a) == /\ Ordered(q) /\ Ordered(w) /\ Ordered(a)
                                /\ Before(q, w) /\ Before(q, a) /\ Before(w, a)
  <1>0. TypeOK /\ TypeOK' /\ view = "tray"
    <2>1. view' = view
      BY ViewsActions DEF Quiet, Asking, OtherAnswer, Elsewhere
    <2> QED
      BY <2>1 DEF IInv
  <1>1. /\ queue \in Seq(Line) /\ wire \in Seq(Line) /\ asks \in Seq(Line)
        /\ inbox \in Seq(CallId) /\ inbox' \in Seq(CallId) /\ AnswersTo(inbox') \in Seq(Line)
    BY <1>0, AnswersToProperties DEF TypeOK
  <1>2. Sorted(queue, wire, asks)
    BY <1>0 DEF AnswersInOrder
  <1>3. SUFFICES Sorted(queue', wire', AnswersTo(inbox'))
    BY DEF AnswersInOrder
  <1>4. ASSUME NEW e \in Line, IsEvent(e)
        PROVE  /\ Sorted(Append(queue, e), wire, asks) /\ Sorted(queue, Append(wire, e), asks)
    <2>1. \A s \in Seq(Line) : Before(<<e>>, s) /\ Before(s, <<e>>)
      BY <1>4, OrderOfOne
    <2> QED
      BY <1>1, <1>2, <2>1, OrderOfAppend
  <1>5. CASE Answer
    <2>1. /\ inbox # <<>> /\ inbox' = Tail(inbox) /\ queue' = queue
          /\ wire' = Append(wire, Response(Head(inbox)))
      BY <1>5 DEF Answer, Dispatch
    <2> DEFINE e == Response(Head(inbox))
               t == AnswersTo(inbox')
    <2>2. e \in Line /\ t \in Seq(Line) /\ asks = <<e>> \o t
      BY <1>1, <2>1, AnswersToProperties, HeadTailProperties, LineProperties
    <2> HIDE DEF e, t
    <2>3. <<e>> \in Seq(Line) /\ Ordered(<<e>>)
      BY <2>2, OrderOfOne
    <2> DEFINE h == <<e>>
    <2>4. h \in Seq(Line) /\ Ordered(h) /\ asks = h \o t
      BY <2>2, <2>3
    <2> HIDE DEF h
    <2>5. /\ Ordered(t) /\ Before(h, t) /\ Before(queue, h) /\ Before(queue, t)
          /\ Before(wire, h) /\ Before(wire, t)
      <3>1. Ordered(h \o t) /\ Before(queue, h \o t) /\ Before(wire, h \o t)
        BY <1>2, <2>4
      <3> QED
        BY <1>1, <2>2, <2>4, <3>1, OrderOfConcat
    <2>6. /\ Before(<<e>>, t) /\ Before(queue, <<e>>) /\ Before(wire, <<e>>)
      BY <2>5 DEF h
    <2>7. Sorted(queue, Append(wire, e), t)
      BY <1>1, <1>2, <2>2, <2>5, <2>6, OrderOfAppend
    <2> QED
      BY <2>1, <2>7 DEF e, t
  <1>6. CASE ReadLine
    <2>1. wire # <<>> /\ queue' = Append(queue, Head(wire)) /\ wire' = Tail(wire) /\ inbox' = inbox
      BY <1>6 DEF ReadLine
    <2>2. /\ Head(wire) \in Line /\ Tail(wire) \in Seq(Line)
          /\ Ordered(Tail(wire)) /\ Before(<<Head(wire)>>, Tail(wire))
          /\ Before(queue, <<Head(wire)>>) /\ Before(queue, Tail(wire))
          /\ Before(<<Head(wire)>>, asks) /\ Before(Tail(wire), asks)
      BY <1>1, <1>2, <2>1, OrderOfTail
    <2> QED
      BY <1>1, <1>2, <2>1, <2>2, OrderOfAppend
  <1>7. CASE TakeResponse \/ TakeEvent
    <2>1. queue # <<>> /\ queue' = Tail(queue) /\ UNCHANGED <<wire, inbox>>
      BY <1>7 DEF TakeResponse, TakeEvent, LeftWithoutIt
    <2>2. Ordered(Tail(queue)) /\ Before(Tail(queue), wire) /\ Before(Tail(queue), asks)
      BY <1>1, <1>2, <2>1, OrderOfTail
    <2> QED
      BY <1>2, <2>1, <2>2
  <1>8. CASE PutBack
    <2>1. queue' = Append(queue, Event(held)) /\ UNCHANGED <<wire, inbox>>
      BY <1>8 DEF PutBack, PutBackLine
    <2>2. Event(held) \in Line /\ IsEvent(Event(held))
      BY <1>0, <1>8, LineProperties DEF PutBack, TypeOK, EventId
    <2> QED
      BY <1>4, <2>1, <2>2
  <1>9. CASE Forward
    <2>1. wire' = Append(wire, Event(Head(rx))) /\ UNCHANGED <<queue, inbox>>
      BY <1>9 DEF Forward
    <2>2. Event(Head(rx)) \in Line /\ IsEvent(Event(Head(rx)))
      BY <1>0, <1>9, HeadTailProperties, LineProperties DEF Forward, TypeOK
    <2> QED
      BY <1>4, <2>1, <2>2
  <1>10. CASE Send
    <2>1. inbox' = Append(inbox, calls) /\ UNCHANGED <<queue, wire>> /\ cpc = "send"
      BY <1>10 DEF Send, Sent
    <2>2. calls \in CallId
      BY <2>1, ClientConstants DEF IInv, TypeOK, Attempts, CallId
    <2> DEFINE e == Response(calls)
    <2>3. e \in Line /\ e.id = calls /\ AnswersTo(inbox') = Append(asks, e)
      BY <1>1, <2>1, <2>2, LineProperties, AnswersToProperties DEF Response
    <2>4. \A i \in 1 .. Len(asks) : asks[i].id <= calls
      <3>1. \A i \in 1 .. Len(asks) : i \in 1 .. Len(inbox) /\ asks[i] = Response(inbox[i])
        BY <1>1, AnswersToProperties
      <3>2. \A i \in 1 .. Len(inbox) : Response(inbox[i]).id <= calls
        BY OnlyMadeCalls DEF Response
      <3> HIDE DEF asks
      <3> QED
        BY <3>1, <3>2
    <2>5. Before(queue, <<e>>) /\ Before(wire, <<e>>) /\ Before(asks, <<e>>)
      BY <1>1, <2>3, <2>4, OnlyMadeCalls, OrderOfOne
    <2> HIDE DEF e, asks
    <2>6. Sorted(queue, wire, Append(asks, e))
      BY <1>1, <1>2, <2>3, <2>5, OrderOfAppend
    <2> QED
      BY <2>1, <2>3, <2>6
  <1>11. CASE Close
    <2>1. wire' = <<>> /\ inbox' = <<>> /\ queue' \in {queue, queue \o wire}
      BY <1>11 DEF Close
    <2>2. Ordered(queue \o wire) /\ queue' \in Seq(Line)
      BY <1>0, <1>1, <1>2, OrderOfConcat DEF TypeOK
    <2>3. AnswersTo(inbox') = <<>>
      BY <1>1, <2>1, AnswersToProperties
    <2>4. Ordered(<<>>) /\ Before(queue', <<>>) /\ Before(<<>>, <<>>)
      BY <2>2, EmptySeq DEF Ordered, Before
    <2> QED
      BY <1>2, <2>1, <2>2, <2>3, <2>4
  <1>12. CASE UNCHANGED <<queue, wire, inbox>>
    BY <1>2, <1>12
  <1>13. CASE \/ \E j \in JobId : Insert(j)
              \/ \E j \in JobId, s \in JobState : Advance(j, s)
              \/ Announce \/ Asking
    BY <1>12, <1>13 DEF Insert, Advance, Announce, Emit, Asking, Call, vars
  <1>14. CASE Accept \/ DispatchOrphan \/ ReaderTimesOut \/ Deadline \/ Slow \/ UNCHANGED vars
    BY <1>12, <1>14 DEF Accept, DispatchOrphan, ReaderTimesOut, ReaderEnds, Deadline, Slow, vars
  <1> QED
    BY <1>0, <1>5, <1>6, <1>7, <1>8, <1>9, <1>10, <1>11, <1>13, <1>14, ViewsActions
       DEF OtherAnswer, Elsewhere, TickAnswered
-----------------------------------------------------------------------------
(* What is left of earlier calls                                           *)

LEMMA OldBounds ==
    ASSUME TypeOK, TypeOK', NEW d \in CallId
    PROVE  /\ Count(Outstanding, Upto(d)) \in Nat /\ Count(inbox, 1 .. d) \in Nat
           /\ Count(Outstanding, Upto(d))' \in Nat /\ Count(inbox', 1 .. d) \in Nat
           /\ Old(d) = Count(Outstanding, Upto(d)) + Count(inbox, 1 .. d)
           /\ Old(d)' = Count(Outstanding, Upto(d))' + Count(inbox', 1 .. d)
           /\ Old(d)' <= Len(inbox') + Count(Outstanding, Responses)'
  <1>1. Count(Outstanding, Upto(d)) \in Nat /\ Count(Outstanding, Upto(d))' \in Nat
        /\ Count(Outstanding, Responses)' \in Nat
    BY OutstandingMoves
  <1>2. /\ Count(inbox, 1 .. d) \in Nat /\ Count(inbox', 1 .. d) \in Nat
        /\ Count(inbox', 1 .. d) <= Len(inbox') /\ Len(inbox') \in Nat
    <2>1. inbox \in Seq(CallId) /\ inbox' \in Seq(CallId)
      BY DEF TypeOK
    <2> QED
      BY ONLY <2>1, PlacesProperties, LenProperties
  <1>3. Old(d)' = Count(Outstanding, Upto(d))' + Count(inbox', 1 .. d)
    BY DEF Old
  <1>4. Old(d) = Count(Outstanding, Upto(d)) + Count(inbox, 1 .. d)
    BY DEF Old
  <1>5. Count(Outstanding, Upto(d))' <= Count(Outstanding, Responses)'
    <2>1. Upto(d) \subseteq Responses
      <3>1. 1 .. d \subseteq CallId
        BY ClientConstants DEF CallId
      <3> QED
        BY <3>1, LineProperties DEF Upto
    <2>2. queue' \o wire' \in Seq(Line)
      BY ConcatProperties DEF TypeOK
    <2>3. Count(queue' \o wire', Upto(d)) <= Count(queue' \o wire', Responses)
      BY ONLY <2>1, <2>2, CountMonotone
    <2>4. Count(Outstanding, Upto(d))' = Count(queue' \o wire', Upto(d))
          /\ Count(Outstanding, Responses)' = Count(queue' \o wire', Responses)
      BY DEF Outstanding, Upto, Responses
    <2> QED
      BY <2>3, <2>4
  <1>6. Old(d)' <= Len(inbox') + Count(Outstanding, Responses)'
    BY ONLY <1>1, <1>2, <1>3, <1>5
  <1> QED
    BY <1>1, <1>2, <1>3, <1>4, <1>6

(* A call takes the oldest response.                                       *)
LEMMA OldestFirst ==
    ASSUME TypeOK, TypeOK', AnswersInOrder, view = "tray", TakeResponse,
           NEW d \in CallId, Old(d)' > 0
    PROVE  Head(queue) \in Upto(d)
  <1>0. /\ queue # <<>> /\ IsResponse(Head(queue)) /\ queue' = Tail(queue)
        /\ wire' = wire /\ inbox' = inbox
    BY DEF TakeResponse, LeftWithoutIt
  <1> DEFINE e == Head(queue)
             asks == AnswersTo(inbox)
  <1>1. /\ queue \in Seq(Line) /\ wire \in Seq(Line) /\ inbox \in Seq(CallId)
        /\ asks \in Seq(Line) /\ Tail(queue) \in Seq(Line) /\ e \in Line
    BY <1>0, AnswersToProperties, HeadTailProperties DEF TypeOK
  <1>2. /\ Before(<<e>>, Tail(queue)) /\ Before(<<e>>, wire) /\ Before(<<e>>, asks)
    BY <1>0, <1>1, OrderOfTail DEF AnswersInOrder
  <1>3. e.id \in CallId /\ e = Response(e.id) /\ d \in Nat /\ CallId \subseteq Nat \ {0}
    BY <1>0, <1>1, LineProperties, ClientConstants DEF CallId
  <1>4. ASSUME NEW s \in Seq(Line), Before(<<e>>, s), NEW i \in 1 .. Len(s), s[i] \in Upto(d)
        PROVE  e.id <= d
    <2>1. PICK c \in 1 .. d : s[i] = Response(c)
      BY <1>4 DEF Upto
    <2>2. IsResponse(s[i]) /\ s[i].id = c
      BY <2>1 DEF Response, IsResponse
    <2>3. Len(<<e>>) = 1 /\ <<e>>[1] = e /\ 1 \in 1 .. 1
      OBVIOUS
    <2>4. e.id <= s[i].id
      BY <1>0, <1>4, <2>2, <2>3 DEF Before
    <2> DEFINE n == e.id
    <2>5. n \in Nat /\ d \in Nat /\ n <= c
      BY <1>3, <2>2, <2>4
    <2> HIDE DEF n
    <2>6. n <= d
      BY ONLY <2>5, c \in 1 .. d
    <2> QED
      BY <2>6 DEF n
  <1>5. Count(Tail(queue), Upto(d)) # 0 \/ Count(wire, Upto(d)) # 0 \/ Count(inbox, 1 .. d) # 0
    <2>1. Count(Outstanding, Upto(d))' = Count(Tail(queue) \o wire, Upto(d))
      BY <1>0 DEF Outstanding, Upto
    <2>2. Count(Tail(queue) \o wire, Upto(d)) = Count(Tail(queue), Upto(d)) + Count(wire, Upto(d))
      BY ONLY <1>1, CountConcat
    <2>3. Old(d)' = Count(Outstanding, Upto(d))' + Count(inbox', 1 .. d)
      BY OldBounds
    <2> QED
      BY <1>0, <2>1, <2>2, <2>3
  <1>6. e.id <= d
    <2>1. CASE Count(Tail(queue), Upto(d)) # 0
      <3>1. \E i \in 1 .. Len(Tail(queue)) : Tail(queue)[i] \in Upto(d)
        BY <1>1, <2>1, CountZero
      <3> HIDE DEF e
      <3> QED
        BY <1>1, <1>2, <1>4, <3>1
    <2>2. CASE Count(wire, Upto(d)) # 0
      <3>1. \E i \in 1 .. Len(wire) : wire[i] \in Upto(d)
        BY <1>1, <2>2, CountZero
      <3> HIDE DEF e
      <3> QED
        BY <1>1, <1>2, <1>4, <3>1
    <2>3. CASE Count(inbox, 1 .. d) # 0
      <3>1. PICK i \in 1 .. Len(inbox) : inbox[i] \in 1 .. d
        BY <1>1, <2>3, CountZero
      <3>2. i \in 1 .. Len(asks) /\ asks[i] = Response(inbox[i])
        BY <1>1, AnswersToProperties
      <3>3. asks[i] \in Upto(d)
        BY <3>1, <3>2 DEF Upto
      <3> HIDE DEF e, asks
      <3> QED
        BY <1>1, <1>2, <1>4, <3>2, <3>3
    <2> QED
      BY <1>5, <2>1, <2>2, <2>3
  <1>7. e.id \in 1 .. d
    <2> DEFINE n == e.id
    <2>1. n \in Nat \ {0} /\ d \in Nat /\ n <= d
      BY <1>3, <1>6
    <2> HIDE DEF n
    <2>2. n \in 1 .. d
      BY ONLY <2>1
    <2> QED
      BY <2>2 DEF n
  <1> QED
    BY <1>3, <1>7 DEF Upto

LEMMA NextOldUsedUp ==
    IInv /\ IInv' /\ AnswersInOrder /\ OldUsedUp /\ [ViewsNext]_viewVars => OldUsedUp'
  <1> SUFFICES ASSUME IInv, IInv', AnswersInOrder, OldUsedUp, [ViewsNext]_viewVars,
                      view' = "tray", NEW d \in CallId, d <= calls', Old(d)' > 0
               PROVE  Old(d)' + (calls' - d) <= failures' + IF cpc' = "idle" THEN 0 ELSE 1
    BY DEF OldUsedUp
  <1> DEFINE out == Count(Outstanding, Upto(d))
             asked == Count(inbox, 1 .. d)
             mark == IF cpc = "idle" THEN 0 ELSE 1
  <1>0. TypeOK /\ TypeOK' /\ view = "tray"
    <2>1. view' = view
      BY ViewsActions DEF Quiet, Asking, OtherAnswer, Elsewhere
    <2> QED
      BY <2>1 DEF IInv
  <1>1. /\ calls \in Nat /\ calls' \in Nat /\ failures \in Nat /\ failures' \in Nat /\ d \in Nat
    BY <1>0, ClientConstants DEF TypeOK, CallId
  <1>2. /\ out \in Nat /\ asked \in Nat /\ out' \in Nat /\ asked' \in Nat
        /\ Old(d) = out + asked /\ Old(d)' = out' + asked'
    BY <1>0, OldBounds
  <1>3. d <= calls /\ Old(d) > 0 => Old(d) + (calls - d) <= failures + mark
    BY <1>0 DEF OldUsedUp
  <1>4. CASE d = calls'
    <2>1. Old(d)' <= Len(inbox') + Count(Outstanding, Responses)'
      BY <1>0, OldBounds
    <2>2. Len(inbox') + Count(Outstanding, Responses)'
            <= failures' + IF cpc' \in {"wait", "putback", "close"} THEN 1 ELSE 0
      BY DEF IInv, UnderWay
    <2>3. Len(inbox') \in Nat /\ Count(Outstanding, Responses)' \in Nat
      BY <1>0, OutstandingMoves, LenProperties DEF TypeOK
    <2>4. Old(d)' <= failures' + IF cpc' = "idle" THEN 0 ELSE 1
      BY ONLY <1>1, <1>2, <2>1, <2>2, <2>3
    <2> QED
      BY <1>1, <1>2, <1>4, <2>4
  <1>5. ASSUME calls' = calls, Old(d)' <= Old(d), failures' + mark' >= failures + mark
        PROVE  Old(d)' + (calls' - d) <= failures' + mark'
    <2>1. d <= calls /\ Old(d) > 0
      BY <1>1, <1>2, <1>5
    <2>2. mark \in Nat /\ mark' \in Nat
      OBVIOUS
    <2>3. Old(d) + (calls - d) <= failures + mark
      BY <1>3, <2>1
    <2>4. \A a, b, m, n \in Nat : b <= a /\ n >= m /\ a + (calls - d) <= m => b + (calls - d) <= n
      BY <1>1
    <2>5. Old(d) \in Nat /\ Old(d)' \in Nat /\ failures + mark \in Nat /\ failures' + mark' \in Nat
      <3>1. Old(d) \in Nat
        BY <1>2
      <3>2. Old(d)' \in Nat
        BY <1>2
      <3>3. failures + mark \in Nat
        BY ONLY <1>1, <2>2
      <3>4. failures' + mark' \in Nat
        <4>1. \A f, k \in Nat : f + k \in Nat
          OBVIOUS
        <4>2. failures' \in Nat /\ mark' \in Nat
          BY <1>1, <2>2
        <4> HIDE DEF mark
        <4> QED
          BY ONLY <4>1, <4>2
      <3> QED
        BY ONLY <3>1, <3>2, <3>3, <3>4
    <2>6. Old(d)' + (calls - d) <= failures' + mark'
      BY ONLY <1>5, <2>3, <2>4, <2>5
    <2> QED
      BY <1>5, <2>6
  <1>6. ASSUME UNCHANGED <<inbox, queue, wire>> PROVE Old(d)' = Old(d)
    BY <1>6 DEF Old, Outstanding, Upto
  <1>7. ASSUME NEW n PROVE Event(n) \notin Upto(d)
    BY DEF Event, Upto, Response
  <1>8. CASE Asking /\ d # calls'
    <2>1. calls' = calls + 1 /\ cpc = "idle" /\ cpc' = "send" /\ UNCHANGED <<inbox, queue, wire, failures>>
      BY <1>8 DEF Asking, Call
    <2>2. Old(d)' = Old(d)
      BY <1>6, <2>1
    <2>3. d <= calls
      BY <1>1, <1>8, <2>1
    <2> QED
      BY <1>1, <1>2, <1>3, <2>1, <2>2, <2>3
  <1>9. CASE Answer
    <2>1. /\ inbox # <<>> /\ inbox' = Tail(inbox) /\ UNCHANGED <<calls, cpc, failures>> /\ Dispatch
      BY <1>9 DEF Answer, Dispatch
    <2>2. out' = out + IF Response(Head(inbox)) \in Upto(d) THEN 1 ELSE 0
      BY <1>0, <2>1, OutstandingMoves
    <2>3. asked = asked' + IF Head(inbox) \in 1 .. d THEN 1 ELSE 0
      <3>1. inbox \in Seq(CallId)
        BY <1>0 DEF TypeOK
      <3>2. Count(inbox, 1 .. d) = Count(Tail(inbox), 1 .. d) + IF Head(inbox) \in 1 .. d THEN 1 ELSE 0
        BY ONLY <2>1, <3>1, CountTail
      <3> QED
        BY <2>1, <3>2
    <2>4. Response(Head(inbox)) \in Upto(d) => Head(inbox) \in 1 .. d
      BY DEF Upto, Response
    <2>5. Old(d)' <= Old(d)
      BY ONLY <1>2, <2>2, <2>3, <2>4
    <2> HIDE DEF out, asked
    <2> QED
      BY <1>1, <1>5, <2>1, <2>5
  <1>10. CASE TakeResponse
    <2>1. cpc = "wait" /\ cpc' = "idle" /\ UNCHANGED <<inbox, calls, failures>>
      BY <1>10 DEF TakeResponse
    <2>2. out = out' + IF Head(queue) \in Upto(d) THEN 1 ELSE 0
      BY <1>0, <1>10, OutstandingMoves
    <2>3. Head(queue) \in Upto(d)
      BY <1>0, <1>10, OldestFirst
    <2>4. Old(d) = Old(d)' + 1
      BY <1>2, <2>1, <2>2, <2>3
    <2>5. Old(d) > 0 /\ d <= calls
      BY <1>1, <1>2, <2>1, <2>4
    <2> QED
      BY <1>1, <1>2, <1>3, <2>1, <2>4, <2>5
  <1>11. CASE Close
    <2>1. cpc = "close" /\ inbox' = <<>> /\ failures' = failures + 1 /\ calls' = calls
      BY <1>11 DEF Close
    <2>2. out' <= out
      BY <1>0, <1>11, OutstandingMoves
    <2>3. asked' = 0
      BY <2>1, CountEmpty
    <2>4. Old(d)' <= Old(d)
      BY ONLY <1>2, <2>2, <2>3
    <2>5. failures' + mark' >= failures + mark
      BY <1>1, <2>1
    <2> HIDE DEF out, asked, mark
    <2> QED
      BY <1>5, <2>1, <2>4, <2>5 DEF mark
  <1>12. CASE ReadLine \/ TakeEvent \/ PutBack \/ Forward
    <2>1. UNCHANGED <<inbox, calls, failures>> /\ mark' = mark
      BY <1>12 DEF ReadLine, TakeEvent, PutBack, Forward
    <2>2. out' <= out
      BY <1>0, <1>2, <1>7, <1>12, OutstandingMoves
         DEF TakeEvent
    <2>3. asked' = asked
      BY <2>1
    <2>4. Old(d)' <= Old(d)
      BY ONLY <1>2, <2>2, <2>3
    <2>5. failures' + mark' >= failures + mark
      BY <1>1, <2>1
    <2> HIDE DEF out, asked, mark
    <2> QED
      BY <1>5, <2>1, <2>4, <2>5 DEF mark
  <1>13. CASE Send
    <2>1. /\ inbox' = Append(inbox, calls) /\ UNCHANGED <<queue, wire, calls, failures>>
          /\ cpc = "send" /\ cpc' = "wait"
      BY <1>13 DEF Send, Sent
    <2>2. CASE d # calls
      <3>1. calls \in CallId /\ inbox \in Seq(CallId) /\ calls \notin 1 .. d
        BY <1>0, <1>1, <2>1, <2>2, ClientConstants DEF IInv, TypeOK, Attempts, CallId
      <3>2. Count(Append(inbox, calls), 1 .. d) = Count(inbox, 1 .. d) + IF calls \in 1 .. d THEN 1 ELSE 0
        BY ONLY <3>1, CountAppend
      <3>3. asked' = asked
        BY <1>2, <2>1, <3>1, <3>2
      <3>4. out' = out
        BY <1>0, <2>1, OutstandingMoves
      <3>5. Old(d)' <= Old(d)
        BY ONLY <1>2, <3>3, <3>4
      <3> HIDE DEF out, asked
      <3> QED
        BY <1>1, <1>5, <2>1, <3>5
    <2> QED
      BY <1>4, <2>1, <2>2
  <1>14. CASE UNCHANGED <<inbox, queue, wire, calls, failures>> /\ (cpc' = cpc \/ (cpc # "idle" /\ cpc' # "idle"))
    <2>1. Old(d)' <= Old(d)
      BY <1>2, <1>6, <1>14
    <2>2. failures' + mark' >= failures + mark
      BY <1>1, <1>14
    <2> QED
      BY <1>5, <1>14, <2>1, <2>2
  <1>15. CASE \/ \E j \in JobId : Insert(j)
              \/ \E j \in JobId, s \in JobState : Advance(j, s)
              \/ Announce
    BY <1>14, <1>15 DEF Insert, Advance, Announce, Emit, vars
  <1>16. CASE Accept \/ DispatchOrphan \/ ReaderTimesOut \/ Deadline \/ Slow \/ UNCHANGED vars
    BY <1>14, <1>16 DEF Accept, DispatchOrphan, ReaderTimesOut, ReaderEnds, Deadline, Slow, vars
  <1> QED
    BY <1>0, <1>4, <1>8, <1>9, <1>10, <1>11, <1>12, <1>13, <1>15, <1>16, ViewsActions
       DEF OtherAnswer, Elsewhere, TickAnswered
-----------------------------------------------------------------------------
(* What a poll brings                                                      *)

LEMMA NextTickPast ==
    TypeOK /\ TrayInv /\ TickPast /\ [ViewsNext]_viewVars => TickPast'
  <1> SUFFICES ASSUME TypeOK, TrayInv, TickPast, [ViewsNext]_viewVars PROVE TickPast'
    OBVIOUS
  <1>1. calls \in Nat /\ tick \in 0 .. calls
    <2>1. calls \in Nat
      BY ClientConstants DEF TypeOK
    <2>2. tick \in polls \cup {0} /\ polls \subseteq 1 .. calls
      BY DEF TrayInv, TrayTypeOK, PollsMade
    <2>3. 1 .. calls \subseteq 0 .. calls /\ 0 \in 0 .. calls
      BY ONLY <2>1
    <2> QED
      BY ONLY <2>1, <2>2, <2>3
  <1>2. CASE Asking
    <2>1. calls' = calls + 1 /\ tick' = tick
      BY <1>2 DEF Asking, Call, Quiet
    <2>2. tick # calls + 1
      BY <1>1
    <2> QED
      BY <2>1, <2>2 DEF TickPast
  <1>3. CASE cpc' = "idle"
    BY <1>3 DEF TickPast
  <1>4. CASE UNCHANGED <<calls, tick>> /\ (cpc' = cpc \/ cpc # "idle")
    BY <1>4 DEF TickPast
  <1>5. CASE \/ \E j \in JobId : Insert(j) /\ Quiet
             \/ \E j \in JobId, s \in JobState : Advance(j, s) /\ Quiet
             \/ (Announce \/ Answer \/ DrainEvents) /\ Quiet
    BY <1>4, <1>5 DEF Insert, Advance, Announce, Emit, Answer, Dispatch, DrainEvents, Drain, vars, Quiet
  <1>6. CASE LoadQueue \/ TickAnswered \/ OtherAnswer
    BY <1>3, <1>6 DEF LoadQueue, TickAnswered, OtherAnswer, TakeResponse
  <1>7. CASE Elsewhere
    BY <1>4, <1>7 DEF Elsewhere, Accept, Forward, DispatchOrphan, ReadLine, ReaderTimesOut,
                      ReaderEnds, Send, TakeEvent, PutBack, Close, Deadline, Slow, vars, Quiet
  <1> QED
    BY <1>2, <1>5, <1>6, <1>7, ViewsActions

(* A poll is answered by the response to as many calls back as attempts    *)
(* have failed.                                                            *)
LEMMA AnswerIsRecent ==
    ASSUME IInv, IInv', OldUsedUp, view = "tray", TakeResponse
    PROVE  Head(queue).id \in CallId /\ Head(queue).id <= calls
           /\ Head(queue).id + failures >= calls
  <1>0. TypeOK /\ TypeOK' /\ queue # <<>> /\ IsResponse(Head(queue)) /\ cpc = "wait"
    BY DEF IInv, TakeResponse
  <1>1. queue \in Seq(Line) /\ Head(queue) \in Line /\ Head(queue) = queue[1]
        /\ 1 \in 1 .. Len(queue)
    <2>1. queue \in Seq(Line)
      BY <1>0 DEF TypeOK
    <2>2. Len(queue) \in Nat /\ Len(queue) # 0
      BY ONLY <1>0, <2>1, LenProperties, EmptySeq
    <2>3. Head(queue) \in Line /\ Head(queue) = queue[1]
      BY ONLY <1>0, <2>1, HeadTailProperties DEF Head
    <2> QED
      BY <2>1, <2>2, <2>3
  <1>2. /\ Head(queue).id \in CallId /\ Head(queue) = Response(Head(queue).id)
        /\ Head(queue).id <= calls
    BY <1>0, <1>1, LineProperties, OnlyMadeCalls
  <1>3. ASSUME NEW d \in CallId, Head(queue) = Response(d), d <= calls
        PROVE  d + failures >= calls
    <2>1. calls \in Nat /\ failures \in Nat /\ d \in Nat
      BY <1>0, ClientConstants DEF TypeOK, CallId
    <2>2. Head(queue) \in Upto(d)
      <3>1. d \in 1 .. d
        BY DEF CallId
      <3> QED
        BY <1>3, <3>1 DEF Upto
    <2>3. /\ Count(Outstanding, Upto(d)) = Count(Outstanding, Upto(d))' + 1
          /\ Count(Outstanding, Upto(d))' \in Nat
      BY <1>0, <2>2, OutstandingMoves
    <2>4. /\ Old(d) = Count(Outstanding, Upto(d)) + Count(inbox, 1 .. d)
          /\ Count(inbox, 1 .. d) \in Nat /\ Count(Outstanding, Upto(d)) \in Nat
      BY <1>0, OldBounds
    <2>5. Old(d) \in Nat /\ Old(d) > 0
      BY <2>3, <2>4
    <2>6. Old(d) + (calls - d) <= failures + 1
      BY <1>0, <1>3, <2>5 DEF OldUsedUp
    <2> QED
      BY ONLY <2>1, <2>5, <2>6
  <1> QED
    BY <1>2, <1>3

LEMMA NextPollFresh ==
    IInv /\ IInv' /\ TrayInv /\ OldUsedUp /\ TickPast /\ PollFresh /\ [ViewsNext]_viewVars
        => PollFresh'
  <1> DEFINE Fresh == \/ \E p \in polls : /\ p + failures >= tick
                                          /\ rows \in shots[p] \/ (p \in unread /\ rows = NoRows)
                      \/ failures > 0 /\ rows = NoRows
  <1> SUFFICES ASSUME IInv, IInv', TrayInv, OldUsedUp, TickPast, PollFresh, [ViewsNext]_viewVars
               PROVE  PollFresh'
    OBVIOUS
  <1> SUFFICES ASSUME view' = "tray", cpc' = "idle", tick' # 0, tick' = calls'
               PROVE  Fresh'
    BY Zenon DEF PollFresh
  <1>0. view = "tray"
    BY ViewsActions DEF Quiet, Asking, OtherAnswer, Elsewhere
  <1>1. CASE TickAnswered
    <2> DEFINE h == Head(queue).id
    <2>1. /\ calls \in polls /\ TakeResponse /\ tick' = calls /\ rows' \in JobsIn(h)
          /\ UNCHANGED <<polls, shots, unread, failures>>
      BY <1>1 DEF TickAnswered, TakeResponse
    <2>2. h \in CallId /\ h <= calls /\ h + failures >= calls
      BY <1>0, <2>1, AnswerIsRecent
    <2>3. failures \in Nat /\ calls \in Nat /\ CallId \subseteq Nat
      BY ClientConstants DEF IInv, TypeOK, CallId
    <2> HIDE DEF h
    <2>4. CASE h \in polls
      <3>1. rows' \in shots[h] \/ (h \in unread /\ rows' = NoRows)
        BY <2>1, <2>2, <2>4, ResponseHolds
      <3> QED
        BY <2>1, <2>2, <2>4, <3>1
    <2>5. CASE h \notin polls
      <3>1. rows' = NoRows
        BY <2>1, <2>2, <2>5, ResponseHolds
      <3>2. h # calls
        BY <2>1, <2>5
      <3>3. failures > 0
        BY ONLY <2>2, <2>3, <3>2
      <3> QED
        BY <2>1, <3>1, <3>3
    <2> QED
      BY <2>4, <2>5
  <1>2. ASSUME UNCHANGED <<tick, calls>> PROVE cpc = "idle" /\ tick # 0 /\ tick = calls
    BY <1>2 DEF TickPast
  <1>3. ASSUME UNCHANGED <<tick, calls, failures, polls, rows>>,
               \A p \in polls : shots[p] \subseteq shots'[p], unread \subseteq unread'
        PROVE  Fresh'
    BY <1>0, <1>2, <1>3 DEF PollFresh
  <1>4. CASE Answer /\ Quiet
    <2>1. UNCHANGED <<tick, calls, failures, polls, rows>>
      BY <1>4 DEF Answer, Dispatch, Quiet
    <2>2. TrayTypeOK /\ polls \subseteq CallId
      BY DEF TrayInv, TrayTypeOK, WindowTypeOK
    <2>3. (\A p \in polls : shots[p] \subseteq shots'[p]) /\ unread \subseteq unread'
      BY <1>4, <2>2, AnswerReads
    <2> QED
      BY <1>3, <2>1, <2>3
  <1>5. CASE Asking \/ OtherAnswer \/ Elsewhere
    <2>1. ASSUME OtherAnswer \/ Elsewhere PROVE UNCHANGED <<tick, calls>>
      BY <2>1 DEF OtherAnswer, Elsewhere, Quiet, TakeResponse, Accept, Forward, DispatchOrphan,
         ReadLine, ReaderTimesOut, ReaderEnds, Send, TakeEvent, PutBack, Close, Deadline, Slow, vars
    <2>2. ~Asking
      BY DEF Asking, Call
    <2>3. cpc = "idle"
      BY <1>2, <1>5, <2>1, <2>2
    <2>4. UNCHANGED <<tick, calls, failures, polls, rows, shots, unread>>
      BY <1>5, <2>2, <2>3 DEF OtherAnswer, Elsewhere, Quiet, TakeResponse, Accept, Forward,
         DispatchOrphan, ReadLine, ReaderTimesOut, ReaderEnds, Send, TakeEvent, PutBack, Close,
         Deadline, Slow, vars, windowVars
    <2> QED
      BY <1>3, <2>4
  <1>6. CASE \/ \E j \in JobId : Insert(j) /\ Quiet
             \/ \E j \in JobId, s \in JobState : Advance(j, s) /\ Quiet
             \/ Announce /\ Quiet
    <2>1. UNCHANGED <<tick, calls, failures, polls, rows, shots, unread>>
      BY <1>6 DEF Insert, Advance, Announce, Emit, vars, Quiet
    <2> QED
      BY <1>3, <2>1
  <1> QED
    BY <1>0, <1>1, <1>4, <1>5, <1>6, ViewsActions

PollInv == AnswersInOrder /\ OldUsedUp /\ TickPast /\ PollFresh

LEMMA InitPollInv == ViewsInit => PollInv
  <1> SUFFICES ASSUME ViewsInit PROVE PollInv
    OBVIOUS
  <1>1. /\ queue = <<>> /\ wire = <<>> /\ inbox = <<>> /\ cpc = "idle" /\ calls = 0 /\ tick = 0
    BY DEF ViewsInit, WindowInit, Init
  <1>2. Len(<<>>) = 0 /\ \A i \in 1 .. 0 : FALSE
    BY EmptySeq
  <1>3. AnswersInOrder
    BY <1>1, <1>2 DEF AnswersInOrder, Ordered, Before, AnswersTo
  <1>4. OldUsedUp
    <2>1. \A d \in CallId : ~(d <= 0)
      BY DEF CallId
    <2> QED
      BY <1>1, <2>1 DEF OldUsedUp
  <1> QED
    BY <1>1, <1>3, <1>4 DEF PollInv, TickPast, PollFresh

(* A tray shows after a poll a table the daemon read for one of its polls, *)
(* or nothing if that read failed, no more calls back than attempts have   *)
(* failed, however many events its client's queue has piled up; until an   *)
(* attempt fails, what that very poll was answered.                        *)
THEOREM PollFreshCorrect == ViewsSpec => []PollFresh
  <1>1. IInv /\ IInv' /\ TrayInv /\ PollInv /\ [ViewsNext]_viewVars => PollInv'
    BY NextAnswersInOrder, NextOldUsedUp, NextTickPast, NextPollFresh DEF PollInv, IInv
  <1>2. PollInv => PollFresh
    BY DEF PollInv
  <1> QED
    BY <1>1, <1>2, InitPollInv, ClientInvariant, TrayInvariant, PTL DEF ViewsSpec
-----------------------------------------------------------------------------
(* News and the table                                                      *)

LEMMA NextNewsOfTable ==
    TrayTypeOK /\ TrayTypeOK' /\ NewsOfTable /\ [ViewsNext]_viewVars => NewsOfTable'
  <1> SUFFICES ASSUME TrayTypeOK, TrayTypeOK', NewsOfTable, [ViewsNext]_viewVars
               PROVE  NewsOfTable'
    OBVIOUS
  <1>1. /\ said \in Seq(News) /\ owed \in Seq(News) /\ table \in [JobId -> States]
        /\ said' \in Seq(News)
    BY DEF TrayTypeOK, WindowTypeOK
  <1>2. AllNews \in Seq(News)
    BY <1>1, ConcatProperties DEF AllNews
  <1>3. ASSUME AllNews' = AllNews,
               \A j \in JobId : table'[j] \notin {"absent", "pending"} => table'[j] = table[j]
        PROVE  NewsOfTable'
    BY <1>3 DEF NewsOfTable
  <1>4. ASSUME NEW j \in JobId, Insert(j) PROVE NewsOfTable'
    <2>1. table' = [table EXCEPT ![j] = "pending"] /\ UNCHANGED <<said, owed>>
      BY <1>4 DEF Insert
    <2> QED
      BY <1>1, <1>3, <2>1 DEF AllNews
  <1>5. ASSUME NEW j \in JobId, NEW s \in JobState, Advance(j, s) PROVE NewsOfTable'
    <2> DEFINE e == [job |-> j, state |-> s]
               all == Append(said, e)
               n0 == Len(said)
    <2>1. /\ owed = <<>> /\ owed' = Append(owed, e) /\ said' = said
          /\ table' = [table EXCEPT ![j] = s]
          /\ (s = "running" /\ table[j] = "pending") \/ (s \in Outcome /\ table[j] = "running")
      BY <1>5 DEF Advance, GoesOn, WriteOf
    <2>2. e \in News /\ e.job = j /\ e.state = s
      BY <2>1 DEF News
    <2>3. AllNews = said /\ AllNews' = all
      <3>1. said \o <<>> = said
        BY <1>1, ConcatEmptySeq
      <3>2. owed' = <<e>>
        BY <2>1
      <3>3. all = said \o <<e>>
        BY <1>1, <2>2, AppendIsConcat
      <3> QED
        BY <2>1, <3>1, <3>2, <3>3 DEF AllNews
    <2>4. /\ Len(all) = n0 + 1 /\ \A i \in 1 .. n0 : all[i] = said[i]
          /\ all[n0 + 1] = e /\ n0 \in Nat
      BY <1>1, <2>2, AppendProperties, LenProperties
    <2>5. \A i \in 1 .. n0 : said[i] \in News
      BY <1>1, ElementOfSeq
    <2>6. /\ \A i \in JobId : table[i] \notin {"absent", "pending"} =>
               \E n \in 1 .. n0 :
                  /\ said[n].job = i /\ said[n].state = table[i]
                  /\ \A m \in 1 .. n0 : m > n => said[m].job # i
          /\ \A n \in 1 .. n0 : said[n].state # "running" =>
               \E r \in 1 .. n - 1 : said[r] = [job |-> said[n].job, state |-> "running"]
      BY <2>3 DEF NewsOfTable
    <2> HIDE DEF all, n0, e
    <2>7. ASSUME NEW i \in JobId, table'[i] \notin {"absent", "pending"}
          PROVE  \E n \in 1 .. n0 + 1 :
                    /\ all[n].job = i /\ all[n].state = table'[i]
                    /\ \A m \in 1 .. n0 + 1 : m > n => all[m].job # i
      <3>1. CASE i = j
        <4>1. n0 + 1 \in 1 .. n0 + 1 /\ \A m \in 1 .. n0 + 1 : ~(m > n0 + 1)
          BY <2>4
        <4>2. table'[i] = s
          BY <1>1, <2>1, <3>1
        <4> QED
          BY <2>2, <2>4, <3>1, <4>1, <4>2
      <3>2. CASE i # j
        <4>1. table'[i] = table[i]
          BY <1>1, <2>1, <3>2
        <4>2. PICK n \in 1 .. n0 : /\ said[n].job = i /\ said[n].state = table[i]
                                  /\ \A m \in 1 .. n0 : m > n => said[m].job # i
          BY <2>6, <2>7, <4>1
        <4>3. ASSUME NEW m \in 1 .. n0 + 1, m > n PROVE all[m].job # i
          <5>1. m \in 1 .. n0 \/ m = n0 + 1
            BY <2>4
          <5> QED
            BY <2>2, <2>4, <3>2, <4>2, <4>3, <5>1
        <4>4. n \in 1 .. n0 + 1 /\ all[n] = said[n]
          BY <2>4
        <4> QED
          BY <4>1, <4>2, <4>3, <4>4
      <3> QED
        BY <3>1, <3>2
    <2>8. ASSUME NEW n \in 1 .. n0 + 1, all[n].state # "running"
          PROVE  \E r \in 1 .. n - 1 : all[r] = [job |-> all[n].job, state |-> "running"]
      <3>1. CASE n \in 1 .. n0
        <4>1. PICK r \in 1 .. n - 1 : said[r] = [job |-> said[n].job, state |-> "running"]
          BY <2>4, <2>6, <2>8, <3>1
        <4>2. r \in 1 .. n0
          BY <2>4, <3>1
        <4> QED
          BY <2>4, <3>1, <4>1, <4>2
      <3>2. CASE n = n0 + 1
        <4>1. s # "running" /\ table[j] = "running"
          BY <2>1, <2>2, <2>4, <2>8, <3>2
        <4>2. PICK r \in 1 .. n0 : said[r].job = j /\ said[r].state = "running"
          BY <2>6, <4>1
        <4>3. said[r] = [job |-> j, state |-> "running"]
          BY <2>5, <4>2 DEF News
        <4>4. r \in 1 .. n - 1 /\ all[r] = said[r] /\ all[n].job = j
          BY <2>2, <2>4, <3>2
        <4> QED
          BY <4>3, <4>4
      <3>3. n \in 1 .. n0 \/ n = n0 + 1
        BY <2>4
      <3> QED
        BY <3>1, <3>2, <3>3
    <2> QED
      BY <2>3, <2>4, <2>7, <2>8 DEF NewsOfTable
  <1>6. CASE Announce
    <2>1. said' = said \o owed /\ owed' = <<>> /\ table' = table
      BY <1>6 DEF Announce
    <2>2. AllNews' = AllNews
      <3>1. said' \o <<>> = said'
        BY <1>1, ConcatEmptySeq
      <3> QED
        BY <2>1, <3>1 DEF AllNews
    <2> QED
      BY <1>3, <2>1, <2>2
  <1>7. CASE UNCHANGED <<table, said, owed>>
    <2>1. AllNews' = AllNews
      BY <1>7 DEF AllNews
    <2> QED
      BY <1>3, <1>7, <2>1
  <1> QED
    BY <1>4, <1>5, <1>6, <1>7, ViewsActions
       DEF Answer, LoadQueue, TickAnswered, DrainEvents, Asking, OtherAnswer, Elsewhere, windowVars

LEMMA NewsInvariant == ViewsSpec => []NewsOfTable
  <1>1. ViewsInit => NewsOfTable
    <2> SUFFICES ASSUME ViewsInit PROVE NewsOfTable
      OBVIOUS
    <2>1. table = NoRows /\ said = <<>> /\ owed = <<>>
      BY DEF ViewsInit, WindowInit
    <2>2. <<>> \o <<>> = <<>> /\ Len(<<>>) = 0 /\ 1 .. 0 = {}
      BY EmptySeq, ConcatEmptySeq
    <2> QED
      BY <2>1, <2>2 DEF NewsOfTable, AllNews, NoRows
  <1>2. TrayInv => TrayTypeOK
    BY DEF TrayInv
  <1> QED
    BY <1>1, <1>2, NextNewsOfTable, TrayInvariant, PTL DEF ViewsSpec
-----------------------------------------------------------------------------
(* What the window is told                                                 *)

LEMMA FirstConnectionSteps ==
    ASSUME IInv, IInv', [ViewsNext]_viewVars, FirstConnection'
    PROVE  /\ FirstConnection /\ ~Close /\ ~Crash
           /\ lagged => lagged'
  <1>1. failures \in Nat /\ failures' = 0 /\ view' = "window" /\ 1 \in CallId
    BY ClientConstants DEF IInv, TypeOK, FirstConnection
  <1>2. ~Close
    <2>1. Close => failures' = failures + 1
      BY DEF Close
    <2> QED
      BY <1>1, <2>1
  <1> DEFINE Frame == /\ view = view' /\ failures' = failures /\ up' = up
                      /\ lagged = TRUE => lagged' = TRUE
  <1>3. Frame
    <2>1. CASE \/ \E j \in JobId : Insert(j) /\ Quiet
               \/ \E j \in JobId, s \in JobState : Advance(j, s) /\ Quiet
               \/ Asking
      BY <2>1 DEF Insert, Advance, Asking, Call, Quiet, vars
    <2>2. CASE Announce /\ Quiet
      BY <2>2 DEF Announce, Emit, Quiet
    <2>3. CASE (Answer \/ LoadQueue \/ DrainEvents) /\ Quiet
      BY <2>3 DEF Answer, Dispatch, LoadQueue, TakeResponse, DrainEvents, Drain, Quiet
    <2>4. CASE OtherAnswer \/ (TickAnswered /\ UNCHANGED view)
      BY <2>4 DEF OtherAnswer, TickAnswered, TakeResponse, Quiet
    <2>5. CASE Elsewhere
      BY <1>2, <2>5 DEF Elsewhere, Accept, Forward, DispatchOrphan, ReadLine, ReaderTimesOut,
         ReaderEnds, Send, TakeEvent, PutBack, Deadline, Slow, vars, Quiet
    <2> HIDE DEF Frame
    <2> QED
      BY <2>1, <2>2, <2>3, <2>4, <2>5, ViewsActions
  <1>4. ~Crash
    <2>1. Crash => up = TRUE /\ up' = FALSE
      BY DEF Crash, IInv, TypeOK
    <2> QED
      BY <1>3, <2>1
  <1>5. lagged => lagged'
    <2>1. lagged \in BOOLEAN
      BY DEF IInv, TypeOK
    <2> QED
      BY <1>3, <2>1
  <1>6. FirstConnection
    BY <1>1, <1>3 DEF FirstConnection
  <1> QED
    BY <1>2, <1>4, <1>5, <1>6

(* Until an attempt fails an event keeps its place, in the connection or   *)
(* outside it, unless the channel was full.                                *)
LEMMA CopiesKept ==
    ASSUME IInv, IInv', [ViewsNext]_viewVars, FirstConnection', NEW n \in EventId
    PROVE  /\ n <= emitted => /\ Copies(n)' <= Copies(n)
                              /\ ~lagged' => Copies(n)' = Copies(n)
           /\ n = emitted + 1 /\ Emit =>
                /\ conn # "served" => Copies(n)' = 0
                /\ conn = "served" /\ ~lagged' => Copies(n)' = 1
           /\ Copies(n) \in Nat /\ Copies(n)' \in Nat
  <1>1. TypeOK /\ TypeOK' /\ [Next]_vars /\ EventsOnce
    BY ViewsStep DEF IInv
  <1>2. Copies(n) \in Nat /\ Copies(n)' \in Nat
    BY <1>1, EventMoves
  <1>3. n \in Nat /\ emitted \in Nat
    BY <1>1, ClientConstants DEF TypeOK, EventId
  <1>4. ~Close /\ ~Crash
    BY FirstConnectionSteps
  <1>5. ASSUME n <= emitted
        PROVE  Copies(n)' <= Copies(n) /\ (~lagged' => Copies(n)' = Copies(n))
    <2>1. CASE Emit
      <3>1. n # emitted + 1
        BY <1>3, <1>5
      <3>2. /\ Copies(n)' <= Copies(n) + IF n = emitted + 1 THEN 1 ELSE 0
            /\ conn # "served" => Copies(n)' = Copies(n)
            /\ conn = "served" /\ ~lagged' => Copies(n)' = Copies(n) + IF n = emitted + 1 THEN 1 ELSE 0
        BY <1>1, <2>1, EventMoves
      <3>3. Copies(n) + (IF n = emitted + 1 THEN 1 ELSE 0) = Copies(n)
        BY <1>2, <3>1
      <3> QED
        BY <3>2, <3>3
    <2>2. CASE ~Emit
      <3>1. Copies(n)' = Copies(n)
        BY <1>1, <1>4, <2>2, EventMoves
      <3> QED
        BY <1>2, <3>1
    <2> QED
      BY <2>1, <2>2
  <1>6. ASSUME n = emitted + 1, Emit
        PROVE  /\ conn # "served" => Copies(n)' = 0
               /\ conn = "served" /\ ~lagged' => Copies(n)' = 1
    <2>1. Copies(n) = 0
      <3>1. Copies(n) <= IF n <= emitted THEN 1 ELSE 0
        BY <1>1 DEF EventsOnce
      <3> QED
        BY <1>2, <1>3, <1>6, <3>1
    <2>2. /\ conn # "served" => Copies(n)' = Copies(n)
          /\ conn = "served" /\ ~lagged' => Copies(n)' = Copies(n) + IF n = emitted + 1 THEN 1 ELSE 0
      BY <1>1, <1>6, EventMoves
    <2>3. Copies(n) + (IF n = emitted + 1 THEN 1 ELSE 0) = 1
      BY <1>6, <2>1
    <2> QED
      BY <2>1, <2>2, <2>3
  <1> QED
    BY <1>2, <1>5, <1>6

LEMMA SeenWasSent ==
    ASSUME IInv, NEW i \in 1 .. Len(seen)
    PROVE  seen[i] \in EventId /\ seen[i] \in 1 .. emitted
  <1>1. seen \in Seq(EventId) /\ emitted \in Nat /\ EventId \subseteq Nat \ {0}
    BY ClientConstants DEF IInv, TypeOK, EventId
  <1>2. seen[i] \in EventId
    BY <1>1, ElementOfSeq
  <1>3. ASSUME NEW n \in EventId, seen[i] = n PROVE n <= emitted
    <2>1. Count(seen, {n}) \in Nat /\ Count(seen, {n}) # 0
      BY <1>1, <1>3, PlacesProperties, CountZero
    <2>2. Copies(n) <= IF n <= emitted THEN 1 ELSE 0
      BY DEF IInv, EventsOnce
    <2>3. Count(Outstanding, {Event(n)}) \in Nat
      BY OutstandingCount DEF IInv
    <2>4. Count(rx, {n}) \in Nat
      <3>1. rx \in Seq(EventId)
        BY DEF IInv, TypeOK
      <3> QED
        BY ONLY <3>1, PlacesProperties
    <2> QED
      BY <2>1, <2>2, <2>3, <2>4 DEF Copies
  <1> DEFINE n == seen[i]
  <1>4. n \in EventId /\ n <= emitted
    BY <1>2, <1>3
  <1> HIDE DEF n
  <1>5. n \in 1 .. emitted
    BY <1>1, <1>4
  <1> QED
    BY <1>4, <1>5 DEF n

(* The window applies only events that were sent.                          *)
AllSeenSent == \A i \in 1 .. Len(seen) : seen[i] \in 1 .. emitted

LEMMA SeenSent == IInv => AllSeenSent
  BY SeenWasSent DEF AllSeenSent

LEMMA SaidIsKept ==
    ASSUME TrayTypeOK, [ViewsNext]_viewVars, NEW n \in 1 .. Len(said)
    PROVE  said'[n] = said[n] /\ said[n] \in News
  <1>1. said \in Seq(News) /\ owed \in Seq(News) /\ said[n] \in News
    BY ElementOfSeq DEF TrayTypeOK, WindowTypeOK
  <1>2. CASE said' = said \o owed
    <2>1. /\ \A i \in 1 .. Len(said) + Len(owed) :
               (said \o owed)[i] = IF i <= Len(said) THEN said[i] ELSE owed[i - Len(said)]
          /\ Len(said) \in Nat /\ Len(owed) \in Nat
      BY ONLY <1>1, ConcatProperties, LenProperties
    <2>2. n \in 1 .. Len(said) + Len(owed) /\ n <= Len(said)
      BY <2>1
    <2> QED
      BY <1>1, <1>2, <2>1, <2>2
  <1>3. CASE said' = said
    BY <1>1, <1>3
  <1> QED
    BY <1>2, <1>3, ViewsActions
       DEF Insert, Advance, Announce, Answer, LoadQueue, TickAnswered, DrainEvents, Asking,
           OtherAnswer, Elsewhere, windowVars
LEMMA ConnectionSteps ==
    ASSUME [ViewsNext]_viewVars, ~Close, conn # "dead"
    PROVE  conn' # "dead" /\ (conn' # "served" => conn # "served")
  <1>1. CASE \/ \E j \in JobId : Insert(j) /\ Quiet
             \/ \E j \in JobId, s \in JobState : Advance(j, s) /\ Quiet
             \/ Asking
    BY <1>1 DEF Insert, Advance, Asking, Call, vars
  <1>2. CASE (Announce \/ Answer \/ LoadQueue \/ DrainEvents) /\ Quiet
    BY <1>2 DEF Announce, Emit, Answer, Dispatch, LoadQueue, TakeResponse, DrainEvents, Drain
  <1>6. CASE OtherAnswer \/ (TickAnswered /\ UNCHANGED view)
    BY <1>6 DEF TakeResponse, OtherAnswer, TickAnswered
  <1>3. CASE Send
    BY <1>3 DEF Send
  <1>4. CASE Elsewhere /\ ~Send
    BY <1>4 DEF Elsewhere, Accept, Forward, DispatchOrphan, ReadLine, ReaderTimesOut,
       ReaderEnds, TakeEvent, PutBack, Deadline, Slow, vars
  <1>5. CASE Elsewhere
    BY <1>3, <1>4, <1>5
  <1> QED
    BY <1>1, <1>2, <1>5, <1>6, ViewsActions

LEMMA NewsIsSent ==
    ASSUME TrayTypeOK, TrayTypeOK', [ViewsNext]_viewVars, emitted \in Nat
    PROVE  emitted' = emitted \/ (Emit /\ emitted' = emitted + 1)
  <1>1. CASE Announce
    BY <1>1 DEF Announce, Emit
  <1>2. CASE emitted' = emitted
    BY <1>2
  <1> QED
    BY <1>1, <1>2, ViewsActions
       DEF Insert, Advance, Answer, Dispatch, LoadQueue, TickAnswered, TakeResponse, DrainEvents,
           Drain, Asking, Call, OtherAnswer, Elsewhere, Accept, Forward, DispatchOrphan, ReadLine,
           ReaderTimesOut, ReaderEnds, Send, TakeEvent, PutBack, Close, Deadline, Slow, vars

(* A call that has returned has an answer, and none is lost.               *)
LEMMA FirstAnswer ==
    ASSUME IInv, IInv', TrayTypeOK, [ViewsNext]_viewVars, FirstConnection',
           (calls > 1 \/ (calls = 1 /\ cpc = "idle")) <=> answer[1] # 0,
           answer[1] = 0 => seen = <<>>
    PROVE  /\ (calls' > 1 \/ (calls' = 1 /\ cpc' = "idle")) <=> answer'[1] # 0
           /\ answer'[1] = 0 => seen' = <<>>
           /\ answer'[1] = answer[1] \/ LoadQueue
  <1>1. /\ view = "window" /\ 1 \in CallId /\ calls \in Nat
        /\ answer \in [CallId -> 0 .. MaxCalls] /\ ~Close
    <2>1. FirstConnection /\ ~Close
      BY FirstConnectionSteps
    <2>2. calls \in 0 .. MaxCalls /\ answer \in [CallId -> 0 .. MaxCalls]
      BY DEF IInv, TypeOK
    <2>3. calls \in Nat
      BY <2>2, ClientConstants
    <2> QED
      BY <2>1, <2>2, <2>3 DEF FirstConnection
  <1>2. CASE Asking
    <2>1. calls' = calls + 1 /\ cpc = "idle" /\ cpc' = "send" /\ UNCHANGED <<answer, seen>>
      BY <1>2 DEF Asking, Call
    <2>2. calls' > 1 <=> calls > 1 \/ calls = 1
      BY <1>1, <2>1
    <2> QED
      BY <2>1, <2>2
  <1>3. CASE LoadQueue
    <2>1. /\ answer' = [answer EXCEPT ![1] = Head(queue).id]
          /\ queue # <<>> /\ IsResponse(Head(queue))
      BY <1>3 DEF LoadQueue, TakeResponse
    <2>2. Head(queue).id # 0
      <3>1. Head(queue) \in Line
        BY <2>1, HeadTailProperties DEF IInv, TypeOK
      <3>2. Head(queue).id \in CallId
        BY <2>1, <3>1, LineProperties
      <3> QED
        BY <3>2 DEF CallId
    <2>3. answer'[1] # 0
      BY <1>1, <2>1, <2>2
    <2>4. calls = 1 /\ calls' = 1 /\ cpc' = "idle"
      BY <1>3 DEF LoadQueue, TakeResponse
    <2> QED
      BY <1>3, <2>3, <2>4
  <1>4. CASE OtherAnswer
    <2>1. calls > 1 /\ UNCHANGED <<calls, seen>> /\ answer' = [answer EXCEPT ![calls] = Head(queue).id]
      BY <1>1, <1>4 DEF OtherAnswer, TakeResponse
    <2>2. calls # 1
      BY <1>1, <2>1
    <2>3. answer'[1] = answer[1]
      BY <1>1, <2>1, <2>2
    <2> QED
      BY <2>1, <2>3
  <1>5. CASE DrainEvents
    <2>1. cpc = "idle" /\ UNCHANGED <<answer, calls, cpc>> /\ calls > 0
      BY <1>5 DEF DrainEvents, Drain
    <2>2. answer[1] # 0
      <3>1. calls > 1 \/ calls = 1
        BY <1>1, <2>1
      <3> QED
        BY <2>1, <3>1
    <2> QED
      BY <2>1, <2>2
  <1>6. CASE UNCHANGED <<answer, calls, seen>> /\ (cpc' = "idle" <=> cpc = "idle")
    BY <1>6
  <1>7. CASE \/ \E j \in JobId : Insert(j) /\ Quiet
             \/ \E j \in JobId, s \in JobState : Advance(j, s) /\ Quiet
             \/ Announce \/ Answer
    BY <1>6, <1>7 DEF Insert, Advance, Announce, Emit, Answer, Dispatch, vars
  <1>8. CASE Elsewhere
    <2>1. UNCHANGED <<answer, calls, seen>> /\ (cpc' = "idle" <=> cpc = "idle")
      BY <1>1, <1>8 DEF Elsewhere, Accept, Forward, DispatchOrphan, ReadLine, ReaderTimesOut,
         ReaderEnds, Send, TakeEvent, PutBack, Deadline, Slow, vars
    <2> QED
      BY <1>6, <2>1
  <1> QED
    BY <1>1, <1>2, <1>3, <1>4, <1>5, <1>7, <1>8, ViewsActions

LEMMA NextSubscribed ==
    IInv /\ IInv' /\ TrayTypeOK /\ TrayTypeOK' /\ NothingAhead /\ Subscribed /\ [ViewsNext]_viewVars
        => Subscribed'
  <1> SUFFICES ASSUME IInv, IInv', TrayTypeOK, TrayTypeOK', NothingAhead, Subscribed,
                      [ViewsNext]_viewVars
               PROVE  Subscribed'
    OBVIOUS
  <1>1. conn' # "dead"
    <2>1. CASE Close
      BY <2>1 DEF Close
    <2> QED
      BY <2>1, ConnectionSteps DEF Subscribed
  <1>2. ASSUME FirstConnection'
        PROVE  /\ conn' # "served" => shots'[1] = {} /\ \A n \in 1 .. emitted' : Copies(n)' = 0
               /\ ~lagged' => \A n \in 1 .. emitted' : Copies(n)' = 1 \/ Missed(n)'
               /\ (calls' > 1 \/ (calls' = 1 /\ cpc' = "idle")) <=> answer'[1] # 0
               /\ answer'[1] = 0 => seen' = <<>>
    <2>1. FirstConnection /\ ~Close /\ ~Crash /\ (~lagged' => ~lagged) /\ 1 \in CallId
      BY <1>2, FirstConnectionSteps DEF FirstConnection
    <2>2. /\ conn # "served" => shots[1] = {} /\ \A n \in 1 .. emitted : Copies(n) = 0
          /\ ~lagged => \A n \in 1 .. emitted : Copies(n) = 1 \/ Missed(n)
          /\ (calls > 1 \/ (calls = 1 /\ cpc = "idle")) <=> answer[1] # 0
          /\ answer[1] = 0 => seen = <<>>
      BY <2>1 DEF Subscribed
    <2>3. conn' # "served" => conn # "served"
      BY <2>1, ConnectionSteps DEF Subscribed
    <2>4. emitted \in Nat /\ emitted' \in Nat /\ 1 .. emitted' \subseteq EventId
          /\ Len(said) = emitted
      <3>1. emitted \in 0 .. MaxEvents /\ emitted' \in 0 .. MaxEvents
        BY DEF IInv, TypeOK
      <3>2. 1 .. emitted' \subseteq EventId
        BY <3>1, ClientConstants DEF EventId
      <3> QED
        BY <3>1, <3>2, ClientConstants DEF TrayTypeOK, WindowTypeOK
    <2>5. ASSUME NEW n \in 1 .. emitted'
          PROVE  (n \in 1 .. emitted) \/ (n = emitted + 1 /\ Emit /\ n \notin 1 .. emitted)
      <3>1. emitted' = emitted \/ (Emit /\ emitted' = emitted + 1)
        BY <2>4, NewsIsSent
      <3>2. CASE emitted' = emitted
        BY <3>2
      <3>3. CASE Emit /\ emitted' = emitted + 1
        <4>1. n \in 1 .. emitted \/ (n = emitted + 1 /\ n \notin 1 .. emitted)
          BY <2>4, <3>3
        <4> QED
          BY <3>3, <4>1
      <3> QED
        BY <3>1, <3>2, <3>3
    <2>6. ASSUME NEW n \in 1 .. emitted'
          PROVE  /\ n \in 1 .. emitted =>
                      Copies(n)' <= Copies(n) /\ (~lagged' => Copies(n)' = Copies(n))
                 /\ n = emitted + 1 /\ Emit =>
                      /\ conn # "served" => Copies(n)' = 0
                      /\ conn = "served" /\ ~lagged' => Copies(n)' = 1
                 /\ Copies(n) \in Nat /\ Copies(n)' \in Nat
      <3>1. n \in EventId /\ (n \in 1 .. emitted => n <= emitted)
        BY <2>4
      <3> QED
        BY <1>2, <3>1, CopiesKept
    <2>7. ASSUME conn # "served", NEW n \in 1 .. emitted' PROVE Copies(n)' = 0
      <3>1. CASE n \in 1 .. emitted
        <4>1. Copies(n) = 0
          BY <2>2, <2>7, <3>1
        <4>2. Copies(n)' <= Copies(n) /\ Copies(n)' \in Nat
          BY <2>6, <3>1
        <4> QED
          BY <4>1, <4>2
      <3>2. CASE n = emitted + 1 /\ Emit
        BY <2>6, <2>7, <3>2
      <3> QED
        BY <2>5, <3>1, <3>2
    <2>8. ASSUME NEW t \in shots'[1] PROVE t \in shots[1] \/ t = table
      <3>1. CASE Answer
        BY <2>1, <3>1, AnswerReads
      <3>2. CASE shots' = shots
        BY <3>2
      <3> QED
        BY <3>1, <3>2, ViewsActions
           DEF Insert, Advance, Announce, LoadQueue, TickAnswered, DrainEvents, Asking,
               OtherAnswer, Elsewhere, windowVars
    <2>9. conn # "served" => shots'[1] = {}
      <3>1. CASE Answer
        BY <3>1 DEF Answer, Dispatch
      <3>2. CASE shots' = shots
        BY <2>2, <3>2
      <3> QED
        BY <3>1, <3>2, ViewsActions
           DEF Insert, Advance, Announce, LoadQueue, TickAnswered, DrainEvents, Asking,
               OtherAnswer, Elsewhere, windowVars
    <2>10. ASSUME ~lagged', NEW n \in 1 .. emitted' PROVE Copies(n)' = 1 \/ Missed(n)'
      <3>1. CASE n \in 1 .. emitted
        <4>1. Copies(n)' = Copies(n)
          BY <2>6, <2>10, <3>1
        <4>2. CASE Missed(n)
          <5>1. ASSUME NEW m \in 1 .. n PROVE Copies(m)' = 0
            <6>1. m \in 1 .. emitted /\ m \in 1 .. emitted'
              BY <2>4, <3>1
            <6>2. Copies(m) = 0
              BY <4>2 DEF Missed
            <6>3. Copies(m)' <= Copies(m) /\ Copies(m)' \in Nat
              BY <2>6, <6>1
            <6> QED
              BY <6>2, <6>3
          <5>2. n \in 1 .. Len(said)
            BY <2>4, <3>1
          <5>3. said'[n] = said[n] /\ said[n] \in News
            BY <5>2, SaidIsKept
          <5>4. ASSUME NEW t \in shots'[1] PROVE Stage(t[said[n].job]) >= Stage(said[n].state)
            <6>1. CASE t \in shots[1]
              BY <4>2, <6>1 DEF Missed
            <6>2. CASE t = table
              <7>1. Behind(said[n].state, said[n].job)
                BY <5>2 DEF NothingAhead
              <7>2. /\ said[n].job \in JobId /\ said[n].state \in States
                    /\ table[said[n].job] \in States
                BY <5>3 DEF News, States, JobState, Outcome, Terminal, TrayTypeOK, WindowTypeOK
              <7>3. Stage(said[n].state) \in Nat /\ Stage(table[said[n].job]) \in Nat
                BY <7>2, Stages
              <7> QED
                BY <6>2, <7>1, <7>3 DEF Behind
            <6> QED
              BY <2>8, <6>1, <6>2
          <5> QED
            BY <5>1, <5>3, <5>4 DEF Missed
        <4>3. Copies(n) = 1 \/ Missed(n)
          BY <2>1, <2>2, <2>10, <3>1
        <4> QED
          BY <4>1, <4>2, <4>3
      <3>2. CASE n = emitted + 1 /\ Emit
        <4>1. CASE conn = "served"
          BY <2>6, <2>10, <3>2, <4>1
        <4>2. CASE conn # "served"
          <5>1. \A m \in 1 .. n : m \in 1 .. emitted'
            BY <2>4
          <5>2. \A m \in 1 .. n : Copies(m)' = 0
            BY <2>7, <4>2, <5>1
          <5>3. shots'[1] = {}
            BY <2>9, <4>2
          <5> QED
            BY <5>2, <5>3 DEF Missed
        <4> QED
          BY <4>1, <4>2
      <3> QED
        BY <2>5, <3>1, <3>2
    <2> QED
      BY <1>2, <2>2, <2>3, <2>7, <2>9, <2>10, FirstAnswer
  <1> QED
    BY <1>1, <1>2 DEF Subscribed

LEMMA SubscribedInvariant == ViewsSpec => []Subscribed
  <1>1. ViewsInit => Subscribed
    <2> SUFFICES ASSUME ViewsInit PROVE Subscribed
      OBVIOUS
    <2>1. /\ conn = "none" /\ shots = [c \in CallId |-> {}] /\ emitted = 0 /\ calls = 0 /\ seen = <<>>
      BY DEF ViewsInit, WindowInit, Init
    <2>2. 1 .. 0 = {}
      OBVIOUS
    <2>3. answer = [c \in CallId |-> 0]
      BY DEF ViewsInit, WindowInit, Init
    <2>4. 1 \in CallId => answer[1] = 0 /\ ~(calls > 1 \/ calls = 1)
      BY <2>1, <2>3
    <2> QED
      BY <2>1, <2>2, <2>4 DEF Subscribed, FirstConnection
  <1>2. TrayInv => TrayTypeOK
    BY DEF TrayInv
  <1> QED
    BY <1>1, <1>2, NextSubscribed, ClientInvariant, TrayInvariant, NothingAheadInvariant, PTL DEF ViewsSpec
-----------------------------------------------------------------------------
(* What the rows show                                                      *)

(* One more event applied: the rows are right for one event more, if the   *)
(* row it changes is not missing for another reason than the snapshot.     *)
LEMMA OneEventApplied ==
    ASSUME NEW list, NEW k \in Nat, NEW shown \in Tables,
           said[list[k + 1]] \in News,
           \A j \in JobId : RowRight(list, k, shown, j),
           LET e == said[list[k + 1]]
           IN  e.state # "running" => shown[e.job] # "absent" \/ unread # {}
    PROVE  \A j \in JobId : RowRight(list, k + 1, Applied(shown, said[list[k + 1]]), j)
  <1> DEFINE e == said[list[k + 1]]
             after == Applied(shown, e)
  <1>1. /\ e.job \in JobId
        /\ \/ after = [shown EXCEPT ![e.job] = e.state]
           \/ after = shown /\ shown[e.job] = "absent" /\ unread # {}
    BY DEF Applied, News
  <1>2. \A i \in 1 .. k + 1 : i = k + 1 \/ i \in 1 .. k
    OBVIOUS
  <1>3. k + 1 \in 1 .. k + 1 /\ \A h \in 1 .. k + 1 : ~(h > k + 1)
    OBVIOUS
  <1>4. \A i \in 1 .. k : i \in 1 .. k + 1
    OBVIOUS
  <1> SUFFICES ASSUME NEW j \in JobId PROVE RowRight(list, k + 1, after, j)
    OBVIOUS
  <1> HIDE DEF after
  <1>5. CASE j = e.job
    <2>1. after[j] = e.state \/ (after[j] = "absent" /\ unread # {})
      BY <1>1, <1>5 DEF Tables
    <2> QED
      BY <1>3, <1>5, <2>1 DEF RowRight, RowTold
  <1>6. CASE j # e.job
    <2>1. after[j] = shown[j]
      BY <1>1, <1>6 DEF Tables
    <2>2. RowRight(list, k, shown, j)
      OBVIOUS
    <2>3. CASE /\ \A i \in 1 .. k : said[list[i]].job # j
               /\ \E t \in shots[1] : shown[j] = t[j]
      <3>1. \A i \in 1 .. k + 1 : said[list[i]].job # j
        BY <1>2, <1>6, <2>3
      <3> QED
        BY <2>1, <2>3, <3>1 DEF RowRight, RowTold
    <2>4. ASSUME NEW i \in 1 .. k,
                 said[list[i]].job = j, said[list[i]].state = shown[j],
                 \A h \in 1 .. k : h > i => said[list[h]].job # j
          PROVE  RowRight(list, k + 1, after, j)
      <3>1. \A h \in 1 .. k + 1 : h > i => said[list[h]].job # j
        BY <1>2, <1>6, <2>4
      <3> QED
        BY <1>4, <2>1, <2>4, <3>1 DEF RowRight, RowTold
    <2> QED
      BY <2>1, <2>2, <2>3, <2>4 DEF RowRight, RowTold
  <1> QED
    BY <1>5, <1>6 DEF after

(* The event about an outcome finds the row: the event that the job was    *)
(* started came before it and inserted it, or was sent before the snapshot *)
(* was read, which then has the row, unless the read failed.               *)
LEMMA OutcomeFindsRow ==
    ASSUME TrayTypeOK, NewsOfTable, Subscribed, FirstConnection, ~lagged, emitted \in Nat,
           NEW list, NEW k \in Nat, NEW shown \in Tables,
           \A i \in 1 .. k + 1 : list[i] \in 1 .. Len(said),
           \A m \in 1 .. list[k + 1] - 1 : Copies(m) = 0 \/ \E i \in 1 .. k : list[i] = m,
           \A j \in JobId : RowRight(list, k, shown, j),
           said[list[k + 1]].state # "running"
    PROVE  shown[said[list[k + 1]].job] # "absent" \/ unread # {}
  <1> DEFINE n == list[k + 1]
             j == said[n].job
  <1>1. said \in Seq(News) /\ owed \in Seq(News) /\ Len(said) = emitted
    BY DEF TrayTypeOK, WindowTypeOK
  <1>2. /\ n \in 1 .. Len(said) /\ Len(AllNews) = Len(said) + Len(owed)
        /\ \A i \in 1 .. Len(said) : i \in 1 .. Len(AllNews) /\ AllNews[i] = said[i]
    <2>1. /\ \A i \in 1 .. Len(said) + Len(owed) :
               (said \o owed)[i] = IF i <= Len(said) THEN said[i] ELSE owed[i - Len(said)]
          /\ Len(said) \in Nat /\ Len(owed) \in Nat
          /\ Len(said \o owed) = Len(said) + Len(owed)
      BY ONLY <1>1, ConcatProperties, LenProperties
    <2>2. \A i \in 1 .. Len(said) : i \in 1 .. Len(said) + Len(owed) /\ i <= Len(said)
      BY <2>1
    <2>3. k + 1 \in 1 .. k + 1
      OBVIOUS
    <2> QED
      BY <2>1, <2>2, <2>3 DEF AllNews
  <1>3. PICK r \in 1 .. n - 1 : AllNews[r] = [job |-> j, state |-> "running"]
    <2>1. AllNews[n].state # "running" /\ n \in 1 .. Len(AllNews) /\ AllNews[n].job = j
      BY <1>2
    <2> QED
      BY <2>1 DEF NewsOfTable
  <1>4. r \in 1 .. Len(said)
    BY <1>1, <1>2
  <1>5. said[r].job = j /\ said[r].state = "running"
    BY <1>2, <1>3, <1>4
  <1>6. j \in JobId
    <2>1. said[n] \in News
      BY <1>1, <1>2, ElementOfSeq
    <2> QED
      BY <2>1 DEF News
  <1>7. RowRight(list, k, shown, j)
    BY <1>6
  <1>8. CASE /\ \A i \in 1 .. k : said[list[i]].job # j
             /\ \E t \in shots[1] : shown[j] = t[j]
    <2>1. Copies(r) = 0
      BY <1>5, <1>8
    <2>2. Missed(r)
      BY <1>1, <1>4, <2>1 DEF Subscribed
    <2>3. PICK t \in shots[1] : shown[j] = t[j]
      BY <1>8
    <2>4. Stage(t[j]) >= Stage("running")
      BY <1>5, <2>2 DEF Missed
    <2>5. Stage("running") = 2 /\ Stage("absent") = 0
      BY Stages
    <2> QED
      BY <2>3, <2>4, <2>5
  <1>9. ASSUME NEW i \in 1 .. k, said[list[i]].state = shown[j] PROVE shown[j] # "absent"
    <2>1. list[i] \in 1 .. Len(said)
      <3>1. i \in 1 .. k + 1
        OBVIOUS
      <3> QED
        BY <3>1
    <2>2. said[list[i]] \in News
      BY <1>1, <2>1, ElementOfSeq
    <2> QED
      BY <1>9, <2>2 DEF News, Outcome, Terminal
  <1> QED
    BY <1>7, <1>8, <1>9 DEF RowRight, RowTold

LEMMA SeenAfterDrain ==
    ASSUME TypeOK, Drain
    PROVE  /\ Len(seen) \in Nat /\ Len(Drained) \in Nat
           /\ Len(seen') = Len(seen) + Len(Drained)
           /\ \A i \in 1 .. Len(seen) : seen'[i] = seen[i]
           /\ \A i \in 1 .. Len(Drained) : seen'[Len(seen) + i] = Drained[i].id
  <1> DEFINE ids == [i \in 1 .. Len(Drained) |-> Drained[i].id]
  <1>1. /\ Drained \in Seq(Line)
        /\ \A i \in 1 .. Len(Drained) : Drained[i] \in Line /\ IsEvent(Drained[i])
    BY DrainProperties
  <1>2. Len(Drained) \in Nat
    BY <1>1, LenProperties
  <1>3. \A i \in 1 .. Len(Drained) : ids[i] \in EventId /\ ids[i] = Drained[i].id
    BY <1>1, LineProperties
  <1>4. ids \in Seq(EventId) /\ seen \in Seq(EventId) /\ Len(ids) = Len(Drained)
    BY <1>2, <1>3, IsASeq, LenProperties DEF TypeOK
  <1>5. seen' = seen \o ids
    BY DEF Drain
  <1> HIDE DEF ids
  <1>6. /\ Len(seen \o ids) = Len(seen) + Len(ids)
        /\ \A i \in 1 .. Len(seen) + Len(ids) :
             (seen \o ids)[i] = IF i <= Len(seen) THEN seen[i] ELSE ids[i - Len(seen)]
        /\ Len(seen) \in Nat
    BY ONLY <1>4, ConcatProperties, LenProperties
  <1>7. \A i \in 1 .. Len(seen) : seen'[i] = seen[i]
    <2>1. \A i \in 1 .. Len(seen) : i \in 1 .. Len(seen) + Len(ids) /\ i <= Len(seen)
      BY <1>2, <1>4, <1>6
    <2> QED
      BY <1>5, <1>6, <2>1
  <1>8. ASSUME NEW i \in 1 .. Len(Drained) PROVE seen'[Len(seen) + i] = Drained[i].id
    <2>1. /\ Len(seen) + i \in 1 .. Len(seen) + Len(ids) /\ ~(Len(seen) + i <= Len(seen))
          /\ Len(seen) + i - Len(seen) = i
      BY <1>2, <1>4, <1>6
    <2>2. seen'[Len(seen) + i] = ids[i]
      BY <1>5, <1>6, <2>1
    <2> QED
      BY <1>3, <2>2
  <1> QED
    BY <1>2, <1>4, <1>5, <1>6, <1>7, <1>8

(* The timer applies what it drains in the order it was told.              *)
LEMMA DrainKeepsRows ==
    ASSUME IInv, IInv', TrayTypeOK, NewsOfTable, Subscribed, RowsTold,
           FirstConnection, ~lagged, answer[1] # 0, DrainEvents,
           \A i \in 1 .. Len(seen') : \A m \in 1 .. seen'[i] - 1 :
               Copies(m) = 0 \/ \E k \in 1 .. i - 1 : seen'[k] = m
    PROVE  \A j \in JobId : RowRight(seen', Len(seen'), rows', j)
  <1> DEFINE list == seen'
             n == Len(seen)
             d == Len(Drained)
             Right(m) == \A j \in JobId : RowRight(list, n + m, Shown[m], j)
             P == {m \in 0 .. d : Shown[m] \in Tables /\ Right(m)}
  <1>1. /\ n \in Nat /\ d \in Nat /\ Len(list) = n + d
        /\ \A i \in 1 .. n : list[i] = seen[i]
        /\ \A i \in 1 .. d : list[n + i] = Drained[i].id
    BY SeenAfterDrain DEF IInv, DrainEvents
  <1>2. said \in Seq(News) /\ rows \in Tables /\ WindowTypeOK /\ emitted = Len(said)
    BY DEF TrayTypeOK, WindowTypeOK, Tables
  <1>3. emitted \in Nat
    BY <1>2, LenProperties
  <1>4. \A i \in 1 .. n : seen[i] \in 1 .. Len(said)
    BY <1>2, SeenWasSent
  <1>5. \A i \in 1 .. d : Drained[i].id \in 1 .. Len(said) /\ said[Drained[i].id] \in News
    BY <1>2, DrainedWasSent
  <1>6. ASSUME NEW i \in 1 .. n + d PROVE list[i] \in 1 .. Len(said)
    <2>1. CASE i \in 1 .. n
      BY <1>1, <1>4, <2>1
    <2>2. CASE i \notin 1 .. n
      <3>1. i - n \in 1 .. d /\ n + (i - n) = i
        BY <1>1, <2>2
      <3> QED
        BY <1>1, <1>5, <3>1
    <2> QED
      BY <2>1, <2>2
  <1>7. InOrder(seen)
    <2> SUFFICES ASSUME NEW i \in 1 .. n, NEW m \in 1 .. seen[i] - 1, Copies(m) # 0
                 PROVE  \E k \in 1 .. i - 1 : seen[k] = m
      BY DEF InOrder
    <2>1. i \in 1 .. Len(list) /\ list[i] = seen[i]
      BY <1>1
    <2>2. PICK k \in 1 .. i - 1 : list[k] = m
      BY <2>1
    <2>3. k \in 1 .. n
      BY <1>1
    <2> QED
      BY <1>1, <2>2, <2>3
  <1>8. Shown[0] = rows
        /\ \A i \in 1 .. d : Shown[i] = Applied(Shown[i - 1], said[Drained[i].id])
    BY <1>1, ShownSteps
  <1>9. 0 \in P
    <2>1. \A j \in JobId : RowRight(seen, n, rows, j)
      BY <1>7 DEF RowsTold
    <2>2. ASSUME NEW j \in JobId PROVE RowRight(list, n, rows, j)
      <3>1. RowRight(seen, n, rows, j)
        BY <2>1
      <3>2. \A i \in 1 .. n : list[i] = seen[i]
        BY <1>1
      <3> HIDE DEF list, n
      <3> QED
        BY <3>1, <3>2 DEF RowRight, RowTold
    <2>3. n + 0 = n /\ 0 \in 0 .. d
      BY <1>1
    <2> QED
      BY <1>2, <1>8, <2>2, <2>3
  <1>10. ASSUME NEW m \in P, m < d PROVE m + 1 \in P
    <2> DEFINE k == n + m
               shown == Shown[m]
    <2>1. m \in Nat /\ k \in Nat /\ m + 1 \in 1 .. d /\ m + 1 - 1 = m /\ m + 1 \in 0 .. d
          /\ k + 1 = n + (m + 1) /\ k + 1 \in 1 .. n + d
      BY <1>1, <1>10
    <2>2. list[k + 1] = Drained[m + 1].id
      BY <1>1, <2>1
    <2>3. list[k + 1] \in 1 .. Len(said) /\ said[list[k + 1]] \in News
      BY <1>5, <2>1, <2>2
    <2>4. shown \in Tables /\ \A j \in JobId : RowRight(list, k, shown, j)
      OBVIOUS
    <2>5. \A i \in 1 .. k + 1 : list[i] \in 1 .. Len(said)
      <3>1. \A i \in 1 .. k + 1 : i \in 1 .. n + d
        BY <1>1, <2>1
      <3> QED
        BY <1>6, <3>1
    <2>6. \A q \in 1 .. list[k + 1] - 1 : Copies(q) = 0 \/ \E i \in 1 .. k : list[i] = q
      <3>1. k + 1 - 1 = k
        BY <2>1
      <3> QED
        BY <1>1, <2>1, <3>1
    <2>7. Shown[m + 1] = Applied(shown, said[list[k + 1]])
      BY <1>8, <2>1, <2>2
    <2> HIDE DEF k, shown, list
    <2>8. said[list[k + 1]].state # "running" =>
              shown[said[list[k + 1]].job] # "absent" \/ unread # {}
      BY <1>3, <2>1, <2>4, <2>5, <2>6, OutcomeFindsRow
    <2>9. \A j \in JobId : RowRight(list, k + 1, Applied(shown, said[list[k + 1]]), j)
      BY <2>1, <2>3, <2>4, <2>8, OneEventApplied
    <2>10. Applied(shown, said[list[k + 1]]) \in Tables
      BY <2>3, <2>4, AppliedType
    <2> QED
      BY <2>1, <2>7, <2>9, <2>10
  <1>11. P \subseteq 0 .. d
    OBVIOUS
  <1>12. d \in P
    <2> HIDE DEF P, d
    <2>1. P = 0 .. d
      BY ONLY <1>1, <1>9, <1>10, <1>11, UpTo
    <2> QED
      BY <1>1, <2>1
  <1>13. rows' = Shown[d]
    BY DEF DrainEvents
  <1> QED
    BY <1>1, <1>12, <1>13

LEMMA NextRowsTold ==
    /\ IInv /\ IInv' /\ TrayInv /\ TrayTypeOK' /\ NewsOfTable /\ Subscribed /\ RowsTold
    /\ [ViewsNext]_viewVars
    => RowsTold'
  <1> SUFFICES ASSUME IInv, IInv', TrayInv, TrayTypeOK, TrayTypeOK', NewsOfTable, Subscribed,
                      RowsTold, [ViewsNext]_viewVars,
                      FirstConnection', ~lagged', answer'[1] # 0, InOrder(seen)'
               PROVE  \A j \in JobId : RowRight(seen, Len(seen), rows, j)'
    BY DEF RowsTold, TrayInv
  <1>1. FirstConnection /\ ~lagged /\ view = "window"
    BY FirstConnectionSteps DEF FirstConnection
  <1>2. answer'[1] = answer[1] \/ LoadQueue
    BY <1>1, FirstAnswer DEF Subscribed
  <1>3. answer[1] = 0 => seen = <<>>
    BY <1>1 DEF Subscribed
  <1>4. Len(said) = emitted /\ emitted \in Nat /\ 1 .. emitted \subseteq EventId
        /\ Len(seen) \in Nat /\ TypeOK
    <2>1. emitted \in 0 .. MaxEvents /\ seen \in Seq(EventId) /\ TypeOK
      BY DEF IInv, TypeOK
    <2>2. Len(said) = emitted /\ emitted \in Nat
      BY <2>1, ClientConstants DEF TrayTypeOK, WindowTypeOK
    <2> QED
      BY <2>1, <2>2, ClientConstants, LenProperties DEF EventId
  <1>5. ASSUME NEW m \in 1 .. emitted PROVE Copies(m)' = Copies(m)
    <2>1. m \in EventId /\ m <= emitted
      BY <1>4
    <2> QED
      BY <2>1, CopiesKept
  <1>6. \A i \in 1 .. Len(seen) : seen[i] \in 1 .. emitted
    BY SeenWasSent
  <1>7. ASSUME seen' = seen, rows' = rows, answer'[1] = answer[1], shots[1] \subseteq shots'[1],
               unread \subseteq unread'
        PROVE  \A j \in JobId : RowRight(seen, Len(seen), rows, j)'
    <2>1. InOrder(seen)
      <3>1. ASSUME NEW i \in 1 .. Len(seen), NEW m \in 1 .. seen[i] - 1
            PROVE  Copies(m)' = Copies(m)
        <4>1. m \in 1 .. emitted
          BY <1>4, <1>6
        <4> QED
          BY <1>5, <4>1
      <3> QED
        BY <1>7, <3>1 DEF InOrder
    <2>2. \A j \in JobId : RowRight(seen, Len(seen), rows, j)
      BY <1>1, <1>7, <2>1 DEF RowsTold
    <2>3. \A i \in 1 .. Len(seen) : said'[seen[i]] = said[seen[i]]
      BY <1>4, <1>6, SaidIsKept
    <2> QED
      BY <1>7, <2>2, <2>3 DEF RowRight, RowTold
  <1>8. CASE LoadQueue
    <2>1. /\ calls = 1 /\ cpc = "wait" /\ rows' \in JobsIn(1)
          /\ UNCHANGED <<said, shots, unread, polls, seen>>
      BY <1>8 DEF LoadQueue, TakeResponse
    <2>2. answer[1] = 0
      BY <1>1, <2>1 DEF Subscribed
    <2>3. Len(seen') = 0 /\ 1 .. 0 = {}
      BY <1>3, <2>1, <2>2, EmptySeq
    <2>4. 1 \in CallId /\ 1 \in polls
      BY <1>1, <2>1 DEF FirstConnection, TrayInv, PollsMade
    <2>5. rows' \in shots'[1] \/ (unread' # {} /\ rows' = NoRows)
      BY <2>1, <2>4, ResponseHolds
    <2> QED
      BY <2>3, <2>5 DEF RowRight, RowTold, NoRows
  <1>9. CASE DrainEvents
    <2>1. UNCHANGED <<said, shots, unread, answer>> /\ Drain
      BY <1>9 DEF DrainEvents, Drain
    <2>2. \A i \in 1 .. Len(seen') : seen'[i] \in 1 .. emitted
      <3>1. emitted' = emitted
        BY <2>1 DEF Drain
      <3>2. \A i \in 1 .. Len(seen') : seen'[i] \in 1 .. emitted'
        <4>1. AllSeenSent'
          BY SeenSent, PTL
        <4> QED
          BY <4>1 DEF AllSeenSent
      <3> QED
        BY <3>1, <3>2
    <2>3. ASSUME NEW i \in 1 .. Len(seen'), NEW m \in 1 .. seen'[i] - 1
          PROVE  Copies(m) = 0 \/ \E k \in 1 .. i - 1 : seen'[k] = m
      <3>1. m \in 1 .. emitted
        BY <1>4, <2>2
      <3>2. Copies(m)' = Copies(m)
        BY <1>5, <3>1
      <3>3. (Copies(m) = 0)' \/ \E k \in 1 .. i - 1 : seen'[k] = m
        BY DEF InOrder
      <3> QED
        BY <3>2, <3>3
    <2>4. answer[1] # 0
      BY <2>1
    <2>5. \A j \in JobId : RowRight(seen', Len(seen'), rows', j)
      BY <1>1, <1>9, <2>3, <2>4, DrainKeepsRows
    <2> QED
      BY <2>1, <2>5 DEF RowRight, RowTold
  <1>10. CASE Answer
    <2>1. UNCHANGED <<seen, rows, answer>>
      BY <1>10 DEF Answer, Dispatch
    <2>2. shots[1] \subseteq shots'[1] /\ unread \subseteq unread'
      BY <1>1, <1>10, AnswerReads DEF FirstConnection
    <2> QED
      BY <1>7, <2>1, <2>2
  <1>11. CASE UNCHANGED <<seen, rows, shots, unread>> /\ ~LoadQueue
    BY <1>2, <1>7, <1>11
  <1>12. CASE \/ \E j \in JobId : Insert(j) /\ Quiet
              \/ \E j \in JobId, s \in JobState : Advance(j, s) /\ Quiet
              \/ Announce \/ Asking
    <2>1. UNCHANGED <<seen, rows, shots, unread, answer>>
      BY <1>12 DEF Insert, Advance, Announce, Emit, Asking, Call, vars
    <2> QED
      BY <1>7, <2>1
  <1>13. CASE OtherAnswer
    <2>1. UNCHANGED <<seen, rows, shots, unread>>
      BY <1>13 DEF OtherAnswer, TakeResponse, windowVars
    <2> QED
      BY <1>8, <1>11, <2>1
  <1>14. CASE Elsewhere
    <2>1. ~Close
      BY FirstConnectionSteps
    <2>2. UNCHANGED <<seen, rows, shots, unread, answer>>
      BY <1>14, <2>1 DEF Elsewhere, Accept, Forward, DispatchOrphan, ReadLine, ReaderTimesOut,
         ReaderEnds, Send, TakeEvent, PutBack, Deadline, Slow, vars, windowVars
    <2> QED
      BY <1>7, <2>2
  <1> QED
    BY <1>1, <1>8, <1>9, <1>10, <1>12, <1>13, <1>14, ViewsActions

LEMMA RowsInvariant == ViewsSpec => []RowsTold
  <1>1. ViewsInit => RowsTold
    <2> SUFFICES ASSUME ViewsInit, 1 \in CallId PROVE answer[1] = 0
      BY DEF RowsTold, FirstConnection
    <2>1. answer = [c \in CallId |-> 0]
      BY DEF ViewsInit, WindowInit, Init
    <2> QED
      BY <2>1
  <1>2. TrayInv => TrayTypeOK
    BY DEF TrayInv
  <1> QED
    BY <1>1, <1>2, NextRowsTold, ClientInvariant, TrayInvariant, NewsInvariant,
       SubscribedInvariant, PTL DEF ViewsSpec

(* Nothing is under way: what was told has been seen.                      *)
LEMMA SeenIsAll ==
    ASSUME IInv, cpc = "idle", queue = <<>>, wire = <<>>, rx = <<>>, NEW n \in EventId
    PROVE  /\ Copies(n) \in Nat /\ Copies(n) = Count(seen, {n})
           /\ Copies(n) = 0 <=> \A i \in 1 .. Len(seen) : seen[i] # n
  <1>1. TypeOK /\ seen \in Seq(EventId)
    BY DEF IInv, TypeOK
  <1>2. Count(queue, {Event(n)}) = 0 /\ Count(wire, {Event(n)}) = 0 /\ Count(rx, {n}) = 0
    BY CountEmpty
  <1>3. Count(Outstanding, {Event(n)}) = 0
    <2>1. Count(Outstanding, {Event(n)}) = Count(queue, {Event(n)}) + Count(wire, {Event(n)})
      BY <1>1, OutstandingCount
    <2> QED
      BY <1>2, <2>1
  <1>4. (IF held = n THEN 1 ELSE 0) = 0
    <2>1. held = 0 /\ n # 0
      BY <1>1, ClientConstants DEF TypeOK, EventId
    <2> QED
      BY <2>1
  <1>5. Count(seen, {n}) \in Nat
    BY <1>1, PlacesProperties
  <1>6. Copies(n) = Count(seen, {n})
    BY <1>2, <1>3, <1>4, <1>5 DEF Copies
  <1>7. Count(seen, {n}) = 0 <=> \A i \in 1 .. Len(seen) : seen[i] \notin {n}
    BY <1>1, CountZero
  <1> QED
    BY <1>5, <1>6, <1>7

LEMMA UpToDate ==
    ASSUME IInv, TrayInv, NothingAhead, NewsOfTable, Subscribed, RowsTold, view = "window"
    PROVE  RowsAgree
  <1> SUFFICES ASSUME Loaded, cpc = "idle", Undisturbed,
                      queue = <<>>, wire = <<>>, rx = <<>>, owed = <<>>,
                      NEW j \in JobId,
                      ~Unloaded(j)
               PROVE  rows[j] = table[j] \/ (rows[j] = "absent" /\ table[j] = "pending")
    BY DEF RowsAgree
  <1>1. /\ said \in Seq(News) /\ Len(said) = emitted
        /\ table[j] \in States /\ rows[j] \in States
        /\ shots \in [CallId -> SUBSET Tables] /\ polls \subseteq CallId
    BY DEF TrayInv, TrayTypeOK, WindowTypeOK, Tables
  <1>2. emitted \in Nat /\ 1 .. emitted \subseteq EventId /\ seen \in Seq(EventId)
        /\ Len(seen) \in Nat /\ EventId \subseteq Nat
    <2>1. emitted \in 0 .. MaxEvents /\ seen \in Seq(EventId)
      BY DEF IInv, TypeOK
    <2> QED
      BY <2>1, ClientConstants, LenProperties DEF EventId
  <1>3. FirstConnection /\ ~lagged /\ answer[1] # 0
    <2>1. PICK c \in polls : answer[c] # 0
      BY DEF Loaded
    <2>2. calls \in Nat
      BY ClientConstants DEF IInv, TypeOK
    <2>3. calls > 0
      BY <2>1, <2>2 DEF TrayInv, PollsMade
    <2>4. c = 1 /\ 1 \in CallId
      BY <1>1, <2>1, <2>3 DEF TrayInv, PollsMade
    <2> QED
      BY <2>1, <2>4 DEF FirstConnection, Undisturbed
  <1>4. \A i, k \in 1 .. Len(seen) : k < i => seen[k] < seen[i]
    <2> SUFFICES ASSUME NEW i \in 1 .. Len(seen), NEW k \in 1 .. Len(seen), k < i
                 PROVE  seen[k] < seen[i]
      OBVIOUS
    <2>1. k \in 1 .. i - 1
      BY <1>2
    <2> QED
      BY <2>1 DEF Undisturbed
  <1>5. \A i \in 1 .. Len(seen) : seen[i] \in EventId /\ seen[i] \in 1 .. emitted
    BY SeenWasSent
  <1>6. \A n \in EventId : /\ Copies(n) \in Nat
                           /\ Copies(n) = 0 <=> \A i \in 1 .. Len(seen) : seen[i] # n
    BY SeenIsAll
  <1>7. InOrder(seen)
    <2> SUFFICES ASSUME NEW i \in 1 .. Len(seen), NEW m \in 1 .. seen[i] - 1, Copies(m) # 0
                 PROVE  \E k \in 1 .. i - 1 : seen[k] = m
      BY DEF InOrder
    <2>1. m \in EventId /\ m < seen[i] /\ seen[i] \in Nat
      BY <1>2, <1>5
    <2>2. PICK k \in 1 .. Len(seen) : seen[k] = m
      BY <1>6, <2>1
    <2>3. k < i
      <3>1. k # i /\ ~(i < k)
        BY <1>4, <2>1, <2>2
      <3> QED
        BY <1>2, <3>1
    <2>4. k \in 1 .. i - 1
      BY <1>2, <2>3
    <2> QED
      BY <2>2, <2>4
  <1>8. RowTold(seen, Len(seen), rows, j)
    BY <1>3, <1>7 DEF RowsTold, RowRight, Unloaded
  <1>9. Behind(rows[j], j)
    BY DEF NothingAhead, NeverAhead, Behind
  <1>10. CASE table[j] \in {"absent", "pending"}
    <2>1. Stage(rows[j]) \in 0 .. 3 /\ (Stage(rows[j]) = 0 => rows[j] = "absent")
      BY <1>1, Stages
    <2>2. Stage("absent") = 0 /\ Stage("pending") = 1
      BY Stages
    <2>3. CASE rows[j] = table[j]
      BY <2>3
    <2>4. CASE Stage(rows[j]) < Stage(table[j])
      <3>1. table[j] = "pending" /\ Stage(rows[j]) = 0
        BY <1>10, <2>1, <2>2, <2>4
      <3> QED
        BY <2>1, <3>1
    <2> QED
      BY <1>9, <2>3, <2>4 DEF Behind
  <1>11. CASE table[j] \notin {"absent", "pending"}
    <2>1. AllNews = said
      BY <1>1, ConcatEmptySeq DEF AllNews
    <2>2. PICK n \in 1 .. Len(said) :
            /\ said[n].job = j /\ said[n].state = table[j]
            /\ \A m \in 1 .. Len(said) : m > n => said[m].job # j
      BY <1>11, <2>1 DEF NewsOfTable
    <2>3. n \in 1 .. emitted /\ n \in EventId /\ n \in Nat
      BY <1>1, <1>2
    <2>4. Copies(n) = 1 \/ Missed(n)
      BY <1>3, <2>3 DEF Subscribed
    <2>5. ASSUME NEW i \in 1 .. Len(seen), said[seen[i]].job = j PROVE seen[i] <= n
      <3>1. seen[i] \in 1 .. Len(said) /\ seen[i] \in Nat
        BY <1>1, <1>2, <1>5
      <3>2. ~(seen[i] > n)
        BY <2>2, <2>5, <3>1
      <3> QED
        BY <2>3, <3>1, <3>2
    <2>6. CASE Copies(n) = 1
      <3>1. PICK p \in 1 .. Len(seen) : seen[p] = n
        BY <1>6, <2>3, <2>6
      <3>2. PICK i \in 1 .. Len(seen) :
              /\ said[seen[i]].job = j /\ said[seen[i]].state = rows[j]
              /\ \A h \in 1 .. Len(seen) : h > i => said[seen[h]].job # j
        BY <1>8, <2>2, <3>1 DEF RowTold
      <3>3. ~(p > i)
        BY <2>2, <3>1, <3>2
      <3>4. ~(p < i)
        <4>1. seen[i] <= n /\ seen[i] \in Nat
          BY <1>2, <1>5, <2>5, <3>2
        <4>2. p < i => n < seen[i]
          BY <1>4, <3>1
        <4> QED
          BY <2>3, <4>1, <4>2
      <3>5. p = i
        BY <1>2, <3>3, <3>4
      <3> QED
        BY <2>2, <3>1, <3>2, <3>5
    <2>7. CASE Missed(n)
      <3>1. ASSUME NEW i \in 1 .. Len(seen) PROVE said[seen[i]].job # j
        <4> SUFFICES ASSUME said[seen[i]].job = j PROVE FALSE
          OBVIOUS
        <4>1. seen[i] <= n /\ seen[i] \in EventId /\ seen[i] \in 1 .. emitted
          BY <1>5, <2>5
        <4>2. seen[i] \in 1 .. n
          BY <1>2, <2>3, <4>1
        <4>3. Copies(seen[i]) = 0
          BY <2>7, <4>2 DEF Missed
        <4> QED
          BY <1>6, <4>1, <4>3
      <3>2. PICK t \in shots[1] : rows[j] = t[j]
        BY <1>8, <3>1 DEF RowTold
      <3>3. Stage(rows[j]) >= Stage(table[j])
        BY <2>2, <2>7, <3>2 DEF Missed
      <3>4. Stage(rows[j]) \in Nat /\ Stage(table[j]) \in Nat
        BY <1>1, Stages
      <3> QED
        BY <1>9, <3>3, <3>4 DEF Behind
    <2> QED
      BY <2>4, <2>6, <2>7
  <1> QED
    BY <1>10, <1>11

(* When all that was sent has been applied in order the window shows the   *)
(* queue, whatever was sent before the handler of its connection subscribed*)
(* or between that and the snapshot: what the events do not tell it the    *)
(* snapshot does.  If a read of the table failed, jobs it was not told the *)
(* start of may have no row, but the rows there are show their jobs.       *)
THEOREM WindowAgreesCorrect == ViewsSpec => []WindowAgrees
  <1>1. IInv /\ TrayInv /\ NothingAhead /\ NewsOfTable /\ Subscribed /\ RowsTold => WindowAgrees
    BY UpToDate DEF WindowAgrees
  <1> QED
    BY <1>1, ClientInvariant, TrayInvariant, NothingAheadInvariant, NewsInvariant,
       SubscribedInvariant, RowsInvariant, PTL
-----------------------------------------------------------------------------
(* The daemon the views assume                                             *)

RowsInOrder == \A i, j \in JobId : i < j /\ table[j] # "absent" => table[i] # "absent"

(* The daemon of the views does nothing to table and events that JobNews   *)
(* does not promise.                                                       *)
LEMMA DaemonSteps ==
    ASSUME TrayTypeOK, RowsInOrder, [ViewsNext]_viewVars
    PROVE  RowsInOrder' /\ [Daemon!NewsNext]_(Daemon!newsVars)
  <1> USE DEF JobId, Daemon!JobId
  <1>1. table \in [JobId -> States] /\ owed \in Seq(News)
    BY DEF TrayTypeOK, WindowTypeOK
  <1>2. ASSUME NEW j \in JobId, Insert(j) PROVE RowsInOrder' /\ Daemon!NewsNext
    <2>1. /\ table[j] = "absent" /\ \A i \in JobId : i < j => table[i] # "absent"
          /\ table' = [table EXCEPT ![j] = "pending"] /\ owed' = owed
      BY <1>2 DEF Insert
    <2>2. Daemon!Submit(j)
      BY <2>1 DEF Daemon!Submit
    <2>3. RowsInOrder'
      BY <1>1, <2>1, WindowConstants DEF RowsInOrder
    <2> QED
      BY <2>1, <2>2, <2>3 DEF Daemon!NewsNext, Daemon!Enqueue
  <1>3. ASSUME NEW j \in JobId, NEW s \in JobState, Advance(j, s)
        PROVE  RowsInOrder' /\ Daemon!NewsNext
    <2>1. /\ owed = <<>> /\ table' = [table EXCEPT ![j] = s]
          /\ \/ /\ s = "running" /\ table[j] = "pending"
                /\ \A i \in JobId : table[i] # "running" /\ (i < j => table[i] # "pending")
             \/ s \in Outcome /\ table[j] = "running"
          /\ owed' = Append(owed, [job |-> j, state |-> s])
      BY <1>3 DEF Advance, GoesOn, WriteOf
    <2>2. owed' = <<[job |-> j, state |-> s]>>
      BY <2>1
    <2>3. s # "absent" /\ table[j] # "absent"
      BY <2>1 DEF JobState, Outcome, Terminal
    <2>4. RowsInOrder'
      BY <1>1, <2>1, <2>3, WindowConstants DEF RowsInOrder
    <2>5. CASE s = "running" /\ table[j] = "pending"
      <3>1. \A i \in JobId : table[i] # "running" /\ (i < j => table[i] # "pending")
        BY <2>1, <2>5 DEF Outcome, Terminal
      <3>2. \A i \in JobId : i < j => table[i] # "absent"
        BY <2>3, WindowConstants DEF RowsInOrder
      <3>3. Daemon!Runs(j)
        BY <2>1, <2>5, <3>1, <3>2
           DEF Daemon!Runs, Daemon!Start, Daemon!Oldest, Daemon!Waiting
      <3> QED
        BY <2>1, <2>2, <2>4, <2>5, <3>3
           DEF Daemon!NewsNext, Daemon!Write, Daemon!About, Daemon!JobState
    <2>6. CASE s \in Outcome /\ table[j] = "running"
      <3>1. Daemon!Ends(j, s)
        BY <2>1, <2>6 DEF Daemon!Ends, Daemon!Settle
      <3> QED
        BY <2>1, <2>2, <2>4, <2>6, <3>1
           DEF Daemon!NewsNext, Daemon!Write, Daemon!About, Daemon!JobState,
               Daemon!Outcome, Daemon!Terminal, Outcome, Terminal
    <2> QED
      BY <2>1, <2>5, <2>6
  <1>4. CASE Announce
    <2>1. owed # <<>> /\ owed' = <<>> /\ table' = table
      BY <1>4 DEF Announce
    <2> QED
      BY <2>1 DEF RowsInOrder, Daemon!NewsNext, Daemon!Send
  <1>5. CASE UNCHANGED <<table, owed>>
    BY <1>5 DEF RowsInOrder, Daemon!newsVars
  <1> QED
    BY <1>2, <1>3, <1>4, <1>5, ViewsActions
       DEF Answer, LoadQueue, TickAnswered, DrainEvents, Asking, OtherAnswer, Elsewhere, windowVars

(* The daemon the views live with is one that JobNews describes.           *)
THEOREM DaemonRefinement == ViewsSpec => DaemonAsPromised
  <1>1. ViewsInit => Daemon!NewsInit /\ RowsInOrder
    BY DEF ViewsInit, WindowInit, NoRows, RowsInOrder, Daemon!NewsInit, Daemon!Init,
           Daemon!JobId, JobId
  <1>2. TrayInv => TrayTypeOK
    BY DEF TrayInv
  <1> QED
    BY <1>1, <1>2, DaemonSteps, TrayInvariant, PTL
       DEF ViewsSpec, DaemonAsPromised, Daemon!NewsSpec

(* And the views live with every such daemon: until the bound on events is *)
(* reached, whatever a daemon without faults may do next to table and      *)
(* events by JobNews - and csfd, by JobQueue's NewsRefinement, does no     *)
(* more - is a step of Insert or Advance, or the sending of what is owed.  *)
THEOREM EveryPromisedStep ==
    ASSUME up, emitted < MaxEvents, Daemon!NewsNext,
           UNCHANGED <<vars, said, polls, shots, unread, rows>>
    PROVE  \/ \E j \in JobId : Insert(j)
           \/ \E j \in JobId, s \in JobState : Advance(j, s)
           \/ owed # <<>> /\ owed' = <<>> /\ UNCHANGED table
  <1> USE DEF JobId, Daemon!JobId
  <1>1. CASE Daemon!Enqueue
    BY <1>1 DEF Daemon!Enqueue, Daemon!Submit, Insert
  <1>2. CASE Daemon!Send
    BY <1>2 DEF Daemon!Send
  <1>3. ~Daemon!Crash /\ \A j, s : ~Daemon!LoseWrite(j, s)
    BY DEF Daemon!Crash, Daemon!LoseWrite
  <1>4. ASSUME NEW j \in JobId, NEW s \in Daemon!JobState, Daemon!Write(j, s)
        PROVE  Advance(j, s) /\ s \in JobState
    <2>1. /\ owed = <<>> /\ owed' = <<[job |-> j, state |-> s]>>
          /\ (s = "running" /\ Daemon!Runs(j)) \/ (s \in Outcome /\ Daemon!Ends(j, s))
      BY <1>4 DEF Daemon!Write, Daemon!About, Daemon!Outcome, Daemon!Terminal, Outcome, Terminal
    <2>2. owed' = Append(owed, [job |-> j, state |-> s])
      BY <2>1
    <2>3. s \in JobState
      BY <1>4 DEF Daemon!JobState, JobState
    <2>4. CASE s = "running" /\ Daemon!Runs(j)
      <3>1. /\ table[j] = "pending" /\ table' = [table EXCEPT ![j] = "running"]
            /\ \A i \in JobId : table[i] # "running" /\ (i < j => table[i] # "pending")
        BY <2>4 DEF Daemon!Runs, Daemon!Start, Daemon!Oldest, Daemon!Waiting
      <3> QED
        BY <2>1, <2>2, <2>3, <2>4, <3>1 DEF Advance, GoesOn, WriteOf
    <2>5. CASE s \in Outcome /\ Daemon!Ends(j, s)
      <3>1. table[j] = "running" /\ table' = [table EXCEPT ![j] = s]
        BY <2>5 DEF Daemon!Ends, Daemon!Settle
      <3> QED
        BY <2>1, <2>2, <2>3, <2>5, <3>1 DEF Advance, GoesOn, WriteOf
    <2> QED
      BY <2>1, <2>4, <2>5
  <1> QED
    BY <1>1, <1>2, <1>3, <1>4 DEF Daemon!NewsNext
=============================================================================
