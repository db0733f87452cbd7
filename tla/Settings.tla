------------------------------ MODULE Settings ------------------------------
(***************************************************************************)
(* csf_config.py, csf_ui/settings_menu.py and csf_ui/throttle_popover.py:  *)
(* the Settings submenu of the trays over one settings file, the autostart *)
(* entry, and the speed limit of the daemon.  Every start of csfd spawns a *)
(* tray and none ends with its daemon, so several trays may share the      *)
(* file.  A handler of the menu runs to its end in its tray; the steps of  *)
(* other trays, of an editor and of the daemon fall between its own.       *)
(*                                                                         *)
(* verify_hash stands for the settings that no other state follows.        *)
(***************************************************************************)
EXTENDS Naturals

CONSTANTS
    Trays,       \* processes running TrayApp
    Rate,        \* speeds in use, 0 for no limit
    Presets,     \* those the menu offers
    Absent,      \* a file that does not exist
    Blank,       \* one that is open for writing and still empty
    Garbled,     \* contents json.loads rejects
    Foreign,     \* JSON that is not an object
    MaxChoices,  \* items activated in the menus (bounds the model)
    MaxOutside   \* files saved by the editor and limits set past the menu
                 \* (bounds the model)

Setting == [throttle_bps : Rate, verify_hash : BOOLEAN, autostart_daemon : BOOLEAN]
Broken  == {Blank, Garbled, Foreign}
Content == Setting \cup {Absent} \cup Broken

ASSUME SettingsConstants ==
    /\ Absent \notin Setting
    /\ 0 \in Presets /\ Presets \subseteq Rate
    /\ MaxChoices \in Nat /\ MaxOutside \in Nat

Default == [throttle_bps |-> 0, verify_hash |-> FALSE, autostart_daemon |-> FALSE]

VARIABLES
    file,     \* settings.json
    tmp,      \* settings.json.tmp
    entry,    \* the autostart entry exists
    limit,    \* bytes per second in force in the daemon
    late,     \* limits of requests given up that csfd may still execute
    slider,   \* the value the popover shows
    editing,  \* an editor has been opened
    (* each tray *)
    pc,       \* "off", "idle", or the next call of the handler it runs
    item,     \* the item that was activated
    built,    \* settings read when the menu was built
    shown,    \* check marks and active radio item
    saving,   \* settings the handler saves
    fd,       \* where the file it has open for writing is by now
    (* history *)
    wish,     \* the last choice made for each setting
    calm,     \* no handler was cut off, met another or used stale settings
    overlap,  \* a save began while another was under way
    synced,   \* the last limit was set from the menu and got through
    choices, edits, pops

disk    == <<file, tmp, entry>>
trays   == <<pc, item, built, shown, saving, fd>>
history == <<wish, calm, overlap, synced, choices, edits, pops>>
vars    == <<disk, limit, late, slider, editing, trays, history>>

Toggles == {"verify_hash", "autostart_daemon"}

TypeOK ==
    /\ file \in Content /\ tmp \in Content /\ entry \in BOOLEAN
    /\ limit \in Rate /\ late \in SUBSET Rate /\ slider \in Rate /\ editing \in BOOLEAN
    /\ pc \in [Trays -> {"off", "idle", "open", "write", "rename", "throttle", "entry"}]
    /\ item \in [Trays -> {"throttle_bps", "edit"} \cup Toggles]
    /\ built \in [Trays -> Setting] /\ shown \in [Trays -> Setting]
    /\ saving \in [Trays -> Setting]
    /\ fd \in [Trays -> {"tmp", "file", "gone"}]
    /\ \A t \in Trays :
         /\ fd[t] # "gone" => pc[t] = "write"
         /\ pc[t] = "throttle" => item[t] = "throttle_bps"
         /\ pc[t] = "entry" => item[t] \in {"throttle_bps", "autostart_daemon"}
    /\ wish \in Setting /\ calm \in BOOLEAN /\ overlap \in BOOLEAN /\ synced \in BOOLEAN
    /\ choices \in 0 .. MaxChoices /\ edits \in 0 .. MaxOutside /\ pops \in 0 .. MaxOutside

Init ==
    /\ file = Absent /\ tmp = Absent /\ entry = FALSE
    /\ limit = 0 /\ late = {} /\ slider = 0 /\ editing = FALSE
    /\ pc = [t \in Trays |-> "off"] /\ item = [t \in Trays |-> "edit"]
    /\ built = [t \in Trays |-> Default] /\ shown = built /\ saving = built
    /\ fd = [t \in Trays |-> "gone"]
    /\ wish = Default /\ calm = TRUE /\ overlap = FALSE /\ synced = FALSE
    /\ choices = 0 /\ edits = 0 /\ pops = 0

Busy(t)      == pc[t] \notin {"off", "idle"}
OthersIdle(t) == \A u \in Trays \ {t} : ~Busy(u)

-----------------------------------------------------------------------------
(* load: a file that is missing or broken gives the defaults, and one that *)
(* is JSON without being an object raises.                                 *)

Loads  == file # Foreign
Loaded == IF file \in Setting THEN file ELSE Default

Quiet == <<file, tmp, entry, limit, late, slider, editing>>

(* build, in _build_tray.  A speed that is no preset leaves the first radio *)
(* item active.                                                            *)
Start(t) ==
    /\ pc[t] = "off" /\ Loads
    /\ pc' = [pc EXCEPT ![t] = "idle"]
    /\ built' = [built EXCEPT ![t] = Loaded]
    /\ shown' = [shown EXCEPT ![t] =
                   [Loaded EXCEPT !.throttle_bps = IF @ \in Presets THEN @ ELSE 0]]
    /\ UNCHANGED <<Quiet, item, saving, fd, history>>

(* Salir, or the end of the process in the middle of a handler.  What the  *)
(* tray had in memory is gone.                                             *)
End(t) ==
    /\ pc[t] # "off"
    /\ pc' = [pc EXCEPT ![t] = "off"] /\ item' = [item EXCEPT ![t] = "edit"]
    /\ built' = [built EXCEPT ![t] = Default] /\ shown' = [shown EXCEPT ![t] = Default]
    /\ saving' = [saving EXCEPT ![t] = Default] /\ fd' = [fd EXCEPT ![t] = "gone"]
    /\ calm' = (calm /\ ~Busy(t))
    /\ UNCHANGED <<Quiet, wish, overlap, synced, choices, edits, pops>>

(* A handler begins: what it will save, and whether that is up to date.    *)
Activate(t, what, new, fresh) ==
    /\ pc[t] = "idle" /\ choices < MaxChoices
    /\ choices' = choices + 1
    /\ pc' = [pc EXCEPT ![t] = "open"]
    /\ item' = [item EXCEPT ![t] = what]
    /\ saving' = [saving EXCEPT ![t] = new]
    /\ calm' = (calm /\ fresh /\ OthersIdle(t))
    /\ synced' = (synced /\ what # "throttle_bps")
    /\ UNCHANGED <<Quiet, built, fd, overlap, edits, pops>>

BaseAsBuilt(t) == built[t]
Base(t)        == Loaded

(* make_toggle: the check mark has already changed when cb runs.           *)
Toggle(t, attr) ==
    LET active == ~shown[t][attr]
    IN  /\ Loads
        /\ Activate(t, attr, [Base(t) EXCEPT ![attr] = active], TRUE)
        /\ shown' = [shown EXCEPT ![t][attr] = active]
        /\ wish' = [wish EXCEPT ![attr] = active]

(* The load in cb raises: the check mark has changed and nothing else.     *)
ToggleRaises(t, attr) ==
    /\ pc[t] = "idle" /\ ~Loads /\ choices < MaxChoices
    /\ choices' = choices + 1
    /\ shown' = [shown EXCEPT ![t][attr] = ~@]
    /\ calm' = FALSE
    /\ UNCHANGED <<Quiet, pc, item, built, saving, fd, wish, overlap, synced, edits, pops>>

(* A speed item saves the settings the menu was built with.  The active    *)
(* item does nothing.                                                      *)
Select(t, r) ==
    /\ r # shown[t].throttle_bps
    /\ Activate(t, "throttle_bps", [built[t] EXCEPT !.throttle_bps = r],
                \A attr \in Toggles : built[t][attr] = wish[attr])
    /\ shown' = [shown EXCEPT ![t].throttle_bps = r]
    /\ wish' = [wish EXCEPT !.throttle_bps = r]

(* _open_config_in_editor.                                                 *)
OpenEditor(t) ==
    \/ /\ file = Absent
       /\ Activate(t, "edit", Default, TRUE)
       /\ UNCHANGED <<shown, wish>>
    \/ /\ file # Absent /\ pc[t] = "idle"
       /\ editing' = TRUE
       /\ UNCHANGED <<disk, limit, late, slider, trays, history>>

EditorSaves(c) ==
    /\ editing /\ edits + pops < MaxOutside
    /\ edits' = edits + 1
    /\ file' = c
    /\ wish' = IF c \in Setting THEN c ELSE wish
    /\ calm' = (calm /\ c \in Setting /\ \A t \in Trays : ~Busy(t))
    /\ synced' = FALSE
    /\ UNCHANGED <<tmp, entry, limit, late, slider, editing, trays, overlap, choices, pops>>

-----------------------------------------------------------------------------
(* save: write_text truncates the temporary file, writes it and closes it; *)
(* replace makes it the settings file.  All trays use one temporary name.  *)

Goes(t, next) == pc' = [pc EXCEPT ![t] = next]

Opening(t) ==
    /\ pc[t] = "open" /\ Goes(t, "write")
    /\ overlap' = (overlap \/ \E u \in Trays : pc[u] \in {"write", "rename"})
    /\ UNCHANGED <<entry, limit, late, slider, editing, item, built, shown, saving,
                   wish, calm, synced, choices, edits, pops>>

OpenInPlace(t) == Opening(t) /\ file' = Blank /\ fd' = [fd EXCEPT ![t] = "file"]
                  /\ UNCHANGED tmp

Open(t) == Opening(t) /\ tmp' = Blank /\ fd' = [fd EXCEPT ![t] = "tmp"]
           /\ UNCHANGED file

(* What a file holds after s is written from its start: the tail of a      *)
(* longer text stays.                                                      *)
Over(old, s) == IF old \in {Blank, s} THEN {s} ELSE {s, Garbled}

Write(t) ==
    /\ pc[t] = "write" /\ Goes(t, "rename")
    /\ IF fd[t] = "tmp"  THEN tmp' \in Over(tmp, saving[t]) ELSE UNCHANGED tmp
    /\ IF fd[t] = "file" THEN file' \in Over(file, saving[t]) ELSE UNCHANGED file
    /\ fd' = [fd EXCEPT ![t] = "gone"]
    /\ UNCHANGED <<entry, limit, late, slider, editing, item, built, shown, saving, history>>

(* What follows the save in the handler of each item.                      *)
AfterSaveApplied(t)   == "throttle"
AfterSaveOnlySpeed(t) == IF item[t] = "throttle_bps" THEN "throttle" ELSE "idle"

AfterSave(t) == CASE item[t] = "throttle_bps"     -> "throttle"
                  [] item[t] = "autostart_daemon" -> "entry"
                  [] item[t] \in {"verify_hash", "edit"} -> "idle"

Rename(t) ==
    /\ pc[t] = "rename" /\ tmp # Absent
    /\ file' = tmp /\ tmp' = Absent
    /\ fd' = [u \in Trays |-> IF fd[u] = "tmp" THEN "file" ELSE "gone"]
    /\ editing' = (editing \/ item[t] = "edit")
    /\ Goes(t, AfterSave(t))
    /\ UNCHANGED <<entry, limit, late, slider, item, built, shown, saving, history>>

(* An OSError of mkdir, write_text or replace, to which another tray's     *)
(* rename may have taken the file away: the handler ends here, its tray    *)
(* does not.  A file it was writing to is left as it is or with a part of  *)
(* the text.                                                               *)
SaveRaises(t) ==
    /\ pc[t] \in {"open", "write", "rename"} /\ Goes(t, "idle")
    /\ IF fd[t] = "tmp"  THEN tmp' \in {tmp, Garbled}
                         ELSE UNCHANGED tmp
    /\ IF fd[t] = "file" THEN file' \in {file, Garbled}
                         ELSE UNCHANGED file
    /\ fd' = [fd EXCEPT ![t] = "gone"]
    /\ calm' = FALSE
    /\ UNCHANGED <<entry, limit, late, slider, editing, item, built, shown, saving,
                   wish, overlap, synced, choices, edits, pops>>

-----------------------------------------------------------------------------
(* _save_and_apply and the callback of the autostart item.                 *)

(* A call of set_throttle: the second attempt may succeed while csfd has   *)
(* the request of the first still to execute, or both are given up.  One   *)
(* that never reached csfd is one that is never executed.                  *)
Succeeds(r) == limit' = r /\ late' \in {late, late \cup {r}}
Fails(r)    == limit' = limit /\ late' = late \cup {r}

(* _set_throttle reports an error on stderr and goes on.                   *)
SetThrottle(t) ==
    /\ pc[t] = "throttle" /\ Goes(t, "entry")
    /\ \/ Succeeds(saving[t].throttle_bps) /\ synced' = TRUE
       \/ Fails(saving[t].throttle_bps) /\ UNCHANGED synced
    /\ UNCHANGED <<disk, slider, editing, item, built, shown, saving, fd,
                   wish, calm, overlap, choices, edits, pops>>

(* _toggle_autostart tests what it is handed: of a speed item the setting, *)
(* of the toggle the whole record, which is true.                          *)
EntryWanted(t) == item[t] = "autostart_daemon" \/ saving[t].autostart_daemon

ToggleAutostart(t) ==
    /\ pc[t] = "entry" /\ Goes(t, "idle")
    /\ entry' = EntryWanted(t)
    /\ UNCHANGED <<file, tmp, limit, late, slider, editing, item, built, shown, saving, fd,
                   history>>

(* An OSError of mkdir, write_text or unlink: there is an entry, perhaps   *)
(* not a whole one, or what there was.                                     *)
EntryRaises(t) ==
    /\ pc[t] = "entry" /\ Goes(t, "idle")
    /\ entry' \in {entry, EntryWanted(t)}
    /\ calm' = FALSE
    /\ UNCHANGED <<file, tmp, limit, late, slider, editing, item, built, shown, saving, fd,
                   wish, overlap, synced, choices, edits, pops>>

(* _on_value_changed, called only if the value has changed; an error is    *)
(* swallowed.                                                              *)
Slide(r) ==
    /\ r # slider /\ edits + pops < MaxOutside
    /\ pops' = pops + 1
    /\ slider' = r
    /\ Succeeds(r) \/ Fails(r)
    /\ synced' = FALSE
    /\ UNCHANGED <<disk, editing, trays, wish, calm, overlap, choices, edits>>

(* csf-thunar-helper throttle, over the same client.                       *)
CommandLine(r) ==
    /\ edits + pops < MaxOutside /\ pops' = pops + 1
    /\ Succeeds(r) \/ Fails(r)
    /\ synced' = FALSE
    /\ UNCHANGED <<disk, slider, editing, trays, wish, calm, overlap, choices, edits>>

(* csfd executes a request whose client has given it up.                   *)
LateThrottle(r) ==
    /\ r \in late /\ limit' = r
    /\ late' \in {late, late \ {r}} /\ synced' = FALSE
    /\ UNCHANGED <<disk, slider, editing, trays, wish, calm, overlap, choices, edits, pops>>

(* A new daemon has no limit, and nobody tells it of the one saved.        *)
RestartDaemon ==
    /\ limit' = 0 /\ late' = {} /\ synced' = FALSE
    /\ UNCHANGED <<disk, slider, editing, trays, wish, calm, overlap, choices, edits, pops>>

Next ==
    \/ \E t \in Trays :
         \/ Start(t) \/ End(t) \/ OpenEditor(t)
         \/ \E attr \in Toggles : Toggle(t, attr) \/ ToggleRaises(t, attr)
         \/ \E r \in Presets : Select(t, r)
         \/ Open(t) \/ Write(t) \/ Rename(t) \/ SaveRaises(t)
         \/ SetThrottle(t) \/ ToggleAutostart(t) \/ EntryRaises(t)
    \/ \E c \in Setting \cup {Garbled, Foreign} : EditorSaves(c)
    \/ \E r \in Rate : Slide(r) \/ CommandLine(r) \/ LateThrottle(r)
    \/ RestartDaemon

Spec == Init /\ [][Next]_vars

-----------------------------------------------------------------------------
(* Properties                                                              *)

AllIdle == \A t \in Trays : ~Busy(t)

(* Wherever a tray is cut off, the settings file is whole, as long as no   *)
(* two saves overlapped and nobody edited it: README.md's "written         *)
(* atomically".                                                            *)
FileWhole == file \in Setting \cup {Absent} \/ overlap \/ edits > 0

(* Between handlers the file holds the last choice made for every setting, *)
(* in whichever tray or the editor it was made, unless a handler was cut   *)
(* off or met another, or a speed item saved settings that were stale.     *)
ChoicesKept ==
    calm /\ AllIdle => file = wish \/ (file = Absent /\ wish = Default)

(* Autostart that was switched on stays on disk through every later choice *)
(* of a toggle or a speed.                                                 *)
EntryKept == calm /\ AllIdle /\ edits = 0 /\ wish.autostart_daemon => entry

(* A limit set from the menu is the one saved, and stays so through the    *)
(* toggles of every tray, until it is set elsewhere, an editor saves or    *)
(* the daemon restarts.                                                    *)
LimitIsSaved == calm /\ synced => file \in Setting /\ limit = file.throttle_bps
=============================================================================
