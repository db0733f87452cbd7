----------------------------- MODULE RowButtons -----------------------------
(***************************************************************************)
(* The rows of csf_ui/queue_window.py and their buttons.  A Gtk.ListView   *)
(* has widgets for as many rows as fit (its slots) and gives a slot that   *)
(* is scrolled out of sight to another row: it calls _on_row_unbind and    *)
(* then _on_row_bind.  The pause, resume and cancel buttons of a slot get  *)
(* their handlers alike, so one verb stands for the three.                 *)
(***************************************************************************)
EXTENDS Naturals, Sequences

CONSTANTS
    Jobs,      \* jobs the window has rows for, at one time or another
    Slots,     \* rows that fit
    NoRow,     \* not a job
    MaxBinds,  \* times a slot is bound (bounds the model)
    MaxClicks  \* clicks of the user (bounds the model)

VARIABLES
    listed,    \* jobs of the list store, in order
    shows,     \* [Slots -> job whose row is bound to the slot, or NoRow]
    handlers,  \* [Slots -> jobs of the handlers connected to the button]
    asked,     \* control calls: the job clicked on and the job named
    clicks

vars == <<listed, shows, handlers, asked, clicks>>

(* _on_row_setup makes a slot with buttons that do nothing.                *)
Init ==
    /\ listed = <<>>
    /\ shows = [s \in Slots |-> NoRow]
    /\ handlers = [s \in Slots |-> <<>>]
    /\ asked = {} /\ clicks = 0

InList(j) == \E i \in 1 .. Len(listed) : listed[i] = j

(* _reconcile and the job_started event append rows; none is removed.      *)
AddRow(j) ==
    /\ ~InList(j)
    /\ listed' = Append(listed, j)
    /\ UNCHANGED <<shows, handlers, asked, clicks>>

(* Each bind connects one handler more.                                    *)
Bind(s, j) ==
    /\ InList(j) /\ shows[s] = NoRow /\ Len(handlers[s]) < MaxBinds
    /\ \A u \in Slots : shows[u] # j
    /\ shows' = [shows EXCEPT ![s] = j]
    /\ handlers' = [handlers EXCEPT ![s] = Append(@, j)]
    /\ UNCHANGED <<listed, asked, clicks>>

(* Clears the list of property bindings and disconnects nothing.           *)
Unbind(s) ==
    /\ shows[s] # NoRow
    /\ shows' = [shows EXCEPT ![s] = NoRow]
    /\ UNCHANGED <<listed, handlers, asked, clicks>>

(* GTK calls all handlers of the button; each makes its call, whether the  *)
(* one before it failed or not.                                            *)
Click(s) ==
    /\ shows[s] # NoRow /\ clicks < MaxClicks
    /\ clicks' = clicks + 1
    /\ asked' = asked \cup {[on |-> shows[s], named |-> handlers[s][i]] :
                              i \in 1 .. Len(handlers[s])}
    /\ UNCHANGED <<listed, shows, handlers>>

Next == \/ \E j \in Jobs : AddRow(j) \/ \E s \in Slots : Bind(s, j)
        \/ \E s \in Slots : Unbind(s) \/ Click(s)

Spec == Init /\ [][Next]_vars

-----------------------------------------------------------------------------
(* "Per-row pause/resume/cancel buttons": a click asks for the job of its  *)
(* row and for no other.                                                   *)
ClickIsForItsRow == \A call \in asked : call.named = call.on
=============================================================================
