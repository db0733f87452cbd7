-------------------------------- MODULE Tray --------------------------------
(***************************************************************************)
(* csf_ui/tray.py: the second view of the queue.  It asks for the whole    *)
(* queue every 500 ms and shows the answer, and its menu sends pause,      *)
(* resume and cancel for all jobs over the same client.  It listens to no  *)
(* event: nothing takes those its client queues off again.                 *)
(*                                                                         *)
(* A behaviour is one of the window (module QueueWindow) or one of a tray, *)
(* over the same daemon and client.                                        *)
(***************************************************************************)
EXTENDS QueueWindow

CONSTANT MaxPiled   \* events that pile up in a tray's client (bounds the model)

ASSUME TrayConstants == MaxPiled \in Nat

VARIABLES
    view,  \* which of the two this behaviour is about
    tick   \* the last poll that brought an answer, 0 before

viewVars == <<allVars, view, tick>>

TrayTypeOK == WindowTypeOK /\ view \in {"window", "tray"} /\ tick \in polls \cup {0}

(* run: the client is made and connects with the first call.               *)
ViewsInit == WindowInit /\ view \in {"window", "tray"} /\ tick = 0

-----------------------------------------------------------------------------
(* The tray's main loop: the timer and the menu.                           *)

TickCall ==
    /\ Call
    /\ polls' = polls \cup {calls + 1}
    /\ UNCHANGED <<table, owed, said, shots, unread, rows, tick>>

(* _pause_all, _resume_all and _cancel_all.                                *)
MenuCall == Call /\ UNCHANGED <<windowVars, tick>>

(* _on_tick and _refresh_window: what the answer says replaces all that    *)
(* was shown.  The answer need not be the one to this poll.                *)
TickAnswered ==
    /\ calls \in polls /\ TakeResponse
    /\ rows' \in JobsIn(Head(queue).id)
    /\ tick' = calls
    /\ UNCHANGED <<table, owed, said, polls, shots, unread>>

MenuAnswered == calls \notin polls /\ TakeResponse /\ UNCHANGED <<windowVars, tick>>

(* A poll that fails leaves the title as it was; the next one comes.  With *)
(* a poll every 500 ms no reader goes 5 s without a line, unless a call    *)
(* goes unanswered.                                                        *)
TrayNext ==
    \/ \E j \in JobId : Insert(j) \/ \E s \in JobState : emitted < MaxPiled /\ Advance(j, s)
    \/ Announce
    \/ Answer
    \/ Rest /\ (ReaderTimesOut => cpc = "wait")
    \/ Slow /\ UNCHANGED windowVars

InWindow(A) == view = "window" /\ A /\ UNCHANGED <<view, tick>>
InTray(A)   == view = "tray" /\ A /\ UNCHANGED view

ViewsNext ==
    \/ InWindow(WindowNext)
    \/ InTray(TrayNext /\ UNCHANGED tick)
    \/ InTray(TickCall \/ MenuCall \/ TickAnswered \/ MenuAnswered)

ViewsSpec == ViewsInit /\ [][ViewsNext]_viewVars

(* The worker sends what it owes; daemon, reader, main thread and timer    *)
(* run.  No user need activate anything.                                   *)
FairViewsSpec ==
    /\ ViewsSpec
    /\ WF_viewVars(InWindow(Announce)) /\ WF_viewVars(InWindow(Answer))
    /\ WF_viewVars(InWindow(Rest /\ Handlers)) /\ WF_viewVars(InWindow(Rest /\ Reader))
    /\ WF_viewVars(InWindow(Rest /\ Waiter))
    /\ WF_viewVars(InWindow(LoadQueue \/ OtherResponse))
    /\ WF_viewVars(InWindow(DrainEvents)) /\ SF_viewVars(InWindow(Rest /\ Deadline))

-----------------------------------------------------------------------------
(* Properties                                                              *)

(* The window agrees with the queue once it is up to date.                 *)
WindowAgrees == view = "window" => RowsAgree

(* An outcome reaches its row in the window, unless the connection was     *)
(* lost, fell silent or lagged, a call disturbed the order of events, or   *)
(* the snapshot was an error and left the job without a row.               *)
WindowCatchesUp ==
    \A j \in JobId :
        view = "window" /\ Loaded /\ table[j] \in Outcome ~> ShowsOutcome(j)

(* What the tray shows after a poll is the table as a handler of one of    *)
(* its polls read it, or nothing if that handler could not read it: of     *)
(* this poll or of one as many calls back as attempts have failed,         *)
(* whatever events pile up in the client's queue.  Only after a failed     *)
(* attempt may the answer to a control call make the queue look empty.     *)
PollFresh ==
    view = "tray" /\ cpc = "idle" /\ tick # 0 /\ tick = calls
        => \/ \E p \in polls : /\ p + failures >= tick
                               /\ rows \in shots[p] \/ (p \in unread /\ rows = NoRows)
           \/ failures > 0 /\ rows = NoRows
=============================================================================
