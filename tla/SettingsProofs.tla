--------------------------- MODULE SettingsProofs ---------------------------
(***************************************************************************)
(* Proofs about Settings, for any set of trays and of speeds, and any      *)
(* number of menu choices and of changes from elsewhere.                   *)
(***************************************************************************)
EXTENDS Settings, TLAPS

InSave(t) == pc[t] \in {"write", "rename"}

(* As long as no two saves have overlapped, the temporary file belongs to  *)
(* the one tray that saves, and what is renamed is whole.                  *)
SavesApart ==
    ~overlap =>
        /\ \A t, u \in Trays : InSave(t) /\ InSave(u) => t = u
        /\ \A t \in Trays : pc[t] = "write" => fd[t] = "tmp" /\ tmp = Blank
        /\ \A t \in Trays : pc[t] = "rename" => tmp = saving[t]
        /\ edits = 0 => file \in Setting \cup {Absent}

(* While all is calm, one handler runs at a time and carries every choice  *)
(* made so far to the file, the entry and the limit.                       *)
Carried ==
    calm =>
        /\ ~overlap
        /\ \A t, u \in Trays : Busy(t) /\ Busy(u) => t = u
        /\ \A t \in Trays : Busy(t) => saving[t] = wish
        /\ \A t \in Trays : pc[t] \in {"throttle", "entry"} => file = wish
        /\ AllIdle => file = wish \/ (file = Absent /\ wish = Default)
        /\ synced => file \in Setting /\ limit = file.throttle_bps
        /\ synced => wish.throttle_bps = limit
        /\ edits = 0 /\ wish.autostart_daemon =>
             entry \/ \E t \in Trays : Busy(t) /\ item[t] = "autostart_daemon"

IInv == TypeOK /\ SavesApart /\ Carried

(* Records of settings and their updates.                                  *)
LEMMA DefaultIsSetting == Default \in Setting
  BY SettingsConstants DEF Default, Setting

LEMMA SpeedChanged ==
    ASSUME NEW s \in Setting, NEW r \in Rate
    PROVE  /\ [s EXCEPT !.throttle_bps = r] \in Setting
           /\ [s EXCEPT !.throttle_bps = r].throttle_bps = r
           /\ [s EXCEPT !.throttle_bps = r].verify_hash = s.verify_hash
           /\ [s EXCEPT !.throttle_bps = r].autostart_daemon = s.autostart_daemon
  BY DEF Setting

LEMMA ToggleChanged ==
    ASSUME NEW s \in Setting, NEW attr \in Toggles, NEW b \in BOOLEAN
    PROVE  /\ [s EXCEPT ![attr] = b] \in Setting
           /\ [s EXCEPT ![attr] = b].throttle_bps = s.throttle_bps
           /\ [s EXCEPT ![attr] = b].autostart_daemon =
                IF attr = "autostart_daemon" THEN b ELSE s.autostart_daemon
  <1>1. CASE attr = "verify_hash"
    BY <1>1 DEF Setting
  <1>2. CASE attr = "autostart_daemon"
    BY <1>2 DEF Setting
  <1> QED
    BY <1>1, <1>2 DEF Toggles

LEMMA Toggled == \A x : (~x) \in BOOLEAN
  OBVIOUS

LEMMA SameSetting ==
    ASSUME NEW s \in Setting, NEW t \in Setting,
           s.throttle_bps = t.throttle_bps, \A attr \in Toggles : s[attr] = t[attr]
    PROVE  s = t
  BY DEF Setting, Toggles

LEMMA LoadedIsSetting == Loaded \in Setting
  BY DefaultIsSetting DEF Loaded

-----------------------------------------------------------------------------
(* Types                                                                   *)

USE DEF Quiet, disk, trays, history

LEMMA InitTypeOK == Init => TypeOK
  <1> SUFFICES ASSUME Init PROVE TypeOK
    OBVIOUS
  <1> USE SettingsConstants, DefaultIsSetting DEF Init, TypeOK
  <1>1. /\ file \in Content /\ tmp \in Content /\ entry \in BOOLEAN
        /\ limit \in Rate /\ late \in SUBSET Rate /\ slider \in Rate /\ editing \in BOOLEAN
    BY DEF Content
  <1>2. /\ pc \in [Trays -> {"off", "idle", "open", "write", "rename", "throttle", "entry"}]
        /\ item \in [Trays -> {"throttle_bps", "edit"} \cup Toggles]
        /\ built \in [Trays -> Setting] /\ shown = built /\ saving = built
        /\ fd \in [Trays -> {"tmp", "file", "gone"}]
    OBVIOUS
  <1>3. /\ wish \in Setting /\ calm = TRUE /\ overlap = FALSE /\ synced = FALSE
        /\ choices \in 0 .. MaxChoices
        /\ edits \in 0 .. MaxOutside /\ pops \in 0 .. MaxOutside
    OBVIOUS
  <1>4. \A t \in Trays : pc[t] = "off" /\ fd[t] = "gone"
    OBVIOUS
  <1> QED
    BY ONLY <1>1, <1>2, <1>3, <1>4 DEF TypeOK

(* A handler that begins keeps the types if what it will save is settings. *)
LEMMA ActivateTypeOK ==
    ASSUME TypeOK, NEW t \in Trays, NEW what \in {"throttle_bps", "edit"} \cup Toggles,
           NEW new \in Setting, NEW fresh \in BOOLEAN, Activate(t, what, new, fresh),
           shown' \in [Trays -> Setting], wish' \in Setting
    PROVE  TypeOK'
  <1> USE SettingsConstants DEF TypeOK, Activate
  <1>1. /\ pc' \in [Trays -> {"off", "idle", "open", "write", "rename", "throttle", "entry"}]
        /\ item' \in [Trays -> {"throttle_bps", "edit"} \cup Toggles]
        /\ saving' \in [Trays -> Setting]
    OBVIOUS
  <1>2. \A u \in Trays :
          /\ fd'[u] # "gone" => pc'[u] = "write"
          /\ pc'[u] = "throttle" => item'[u] = "throttle_bps"
          /\ pc'[u] = "entry" => item'[u] \in {"throttle_bps", "autostart_daemon"}
    OBVIOUS
  <1>3. choices' \in 0 .. MaxChoices
    OBVIOUS
  <1>4. calm' \in BOOLEAN /\ synced' \in BOOLEAN
    BY Zenon
  <1>5. UNCHANGED <<Quiet, built, fd, overlap, edits, pops>>
    OBVIOUS
  <1> QED
    BY <1>1, <1>2, <1>3, <1>4, <1>5

LEMMA NextTypeOK == TypeOK /\ [Next]_vars => TypeOK'
  <1> SUFFICES ASSUME TypeOK, [Next]_vars PROVE TypeOK'
    OBVIOUS
  <1> USE SettingsConstants DEF TypeOK
  <1>1. ASSUME NEW t \in Trays, Start(t) PROVE TypeOK'
    <2>1. LET s == [Loaded EXCEPT !.throttle_bps = IF @ \in Presets THEN @ ELSE 0]
          IN  s \in Setting
      BY LoadedIsSetting, SpeedChanged
    <2> QED
      BY <1>1, <2>1, LoadedIsSetting DEF Start
  <1>2. ASSUME NEW t \in Trays, End(t) PROVE TypeOK'
    BY <1>2, DefaultIsSetting DEF End, Busy
  <1>3. ASSUME NEW t \in Trays, OpenEditor(t) PROVE TypeOK'
    <2>1. CASE Activate(t, "edit", Default, TRUE) /\ UNCHANGED <<shown, wish>>
      BY <2>1, DefaultIsSetting, ActivateTypeOK
    <2> QED
      BY <1>3, <2>1 DEF OpenEditor
  <1>4. ASSUME NEW t \in Trays, NEW attr \in Toggles, Toggle(t, attr) PROVE TypeOK'
    <2>1. (~shown[t][attr]) \in BOOLEAN
      BY Toggled
    <2>2. /\ [Loaded EXCEPT ![attr] = ~shown[t][attr]] \in Setting
          /\ [shown[t] EXCEPT ![attr] = ~shown[t][attr]] \in Setting
          /\ [wish EXCEPT ![attr] = ~shown[t][attr]] \in Setting
      BY <2>1, LoadedIsSetting, ToggleChanged
    <2>3. /\ Activate(t, attr, [Loaded EXCEPT ![attr] = ~shown[t][attr]], TRUE)
          /\ shown' = [shown EXCEPT ![t] = [shown[t] EXCEPT ![attr] = ~shown[t][attr]]]
          /\ wish' = [wish EXCEPT ![attr] = ~shown[t][attr]]
      BY <1>4 DEF Toggle, Base
    <2> QED
      BY <2>2, <2>3, ActivateTypeOK
  <1>5. ASSUME NEW t \in Trays, NEW attr \in Toggles, ToggleRaises(t, attr) PROVE TypeOK'
    <2>1. [shown[t] EXCEPT ![attr] = ~shown[t][attr]] \in Setting
      BY Toggled, ToggleChanged
    <2>2. shown' = [shown EXCEPT ![t] = [shown[t] EXCEPT ![attr] = ~shown[t][attr]]]
      BY <1>5 DEF ToggleRaises
    <2>3. choices' \in 0 .. MaxChoices /\ calm' = FALSE
      BY <1>5 DEF ToggleRaises
    <2>4. UNCHANGED <<Quiet, pc, item, built, saving, fd, wish, overlap, synced, edits, pops>>
      BY <1>5 DEF ToggleRaises
    <2> QED
      BY <2>1, <2>2, <2>3, <2>4
  <1>6. ASSUME NEW t \in Trays, NEW r \in Presets, Select(t, r) PROVE TypeOK'
    <2> DEFINE fresh == \A attr \in Toggles : built[t][attr] = wish[attr]
    <2>1. r \in Rate /\ fresh \in BOOLEAN
      OBVIOUS
    <2>2. /\ [built[t] EXCEPT !.throttle_bps = r] \in Setting
          /\ [shown[t] EXCEPT !.throttle_bps = r] \in Setting
          /\ [wish EXCEPT !.throttle_bps = r] \in Setting
      BY <2>1, SpeedChanged
    <2>3. /\ Activate(t, "throttle_bps", [built[t] EXCEPT !.throttle_bps = r], fresh)
          /\ shown' = [shown EXCEPT ![t] = [shown[t] EXCEPT !.throttle_bps = r]]
          /\ wish' = [wish EXCEPT !.throttle_bps = r]
      BY <1>6 DEF Select
    <2> QED
      BY <2>1, <2>2, <2>3, ActivateTypeOK
  <1>7. ASSUME NEW t \in Trays, Open(t) PROVE TypeOK'
    BY <1>7 DEF Open, Opening, Goes, Content, Broken
  <1>8. ASSUME NEW t \in Trays, Write(t) PROVE TypeOK'
    BY <1>8 DEF Write, Goes, Over, Content, Broken
  <1>9. ASSUME NEW t \in Trays, Rename(t) PROVE TypeOK'
    <2>1. AfterSave(t) \in {"throttle", "entry", "idle"}
      BY DEF AfterSave, Toggles
    <2>2. /\ AfterSave(t) = "throttle" => item[t] = "throttle_bps"
          /\ AfterSave(t) = "entry" => item[t] = "autostart_daemon"
      BY DEF AfterSave, Toggles
    <2> QED
      BY <1>9, <2>1, <2>2 DEF Rename, Goes, Content
  <1>10. ASSUME NEW t \in Trays,
                SaveRaises(t) \/ SetThrottle(t) \/ ToggleAutostart(t) \/ EntryRaises(t)
         PROVE  TypeOK'
    <2>1. CASE SaveRaises(t)
      BY <2>1 DEF SaveRaises, Goes, Content, Broken
    <2>2. CASE SetThrottle(t)
      <3>1. saving[t].throttle_bps \in Rate
        BY DEF Setting
      <3>2. limit' \in Rate /\ late' \in SUBSET Rate /\ synced' \in BOOLEAN
        BY <2>2, <3>1 DEF SetThrottle, Succeeds, Fails
      <3>3. pc[t] = "throttle" /\ pc' = [pc EXCEPT ![t] = "entry"]
        BY <2>2 DEF SetThrottle, Goes
      <3>4. UNCHANGED <<disk, slider, editing, item, built, shown, saving, fd,
                        wish, calm, overlap, choices, edits, pops>>
        BY <2>2 DEF SetThrottle
      <3> QED
        BY <3>2, <3>3, <3>4
    <2>3. CASE ToggleAutostart(t)
      <3>1. entry' \in BOOLEAN
        BY <2>3, Zenon DEF ToggleAutostart, EntryWanted
      <3> QED
        BY <2>3, <3>1 DEF ToggleAutostart, Goes
    <2>4. CASE EntryRaises(t)
      <3>1. EntryWanted(t) \in BOOLEAN
        BY Zenon DEF EntryWanted
      <3>2. entry' \in BOOLEAN
        BY <2>4, <3>1 DEF EntryRaises
      <3> QED
        BY <2>4, <3>2 DEF EntryRaises, Goes
    <2> QED
      BY <1>10, <2>1, <2>2, <2>3, <2>4
  <1>11. ASSUME NEW c \in Setting \cup {Garbled, Foreign}, EditorSaves(c) PROVE TypeOK'
    <2>1. edits' \in 0 .. MaxOutside /\ pops' = pops
      BY <1>11 DEF EditorSaves
    <2>2. file' \in Content /\ wish' \in Setting /\ synced' \in BOOLEAN
      BY <1>11 DEF EditorSaves, Content, Broken
    <2>3. calm' \in BOOLEAN
      BY <1>11, Zenon DEF EditorSaves
    <2>4. UNCHANGED <<tmp, entry, limit, late, slider, editing, trays, overlap, choices>>
      BY <1>11 DEF EditorSaves
    <2> QED
      BY <2>1, <2>2, <2>3, <2>4
  <1>12. ASSUME NEW r \in Rate, Slide(r) \/ CommandLine(r) \/ LateThrottle(r) PROVE TypeOK'
    <2>1. pops' \in 0 .. MaxOutside /\ edits' = edits
      BY <1>12 DEF Slide, CommandLine, LateThrottle
    <2>2. /\ limit' \in Rate /\ late' \in SUBSET Rate
          /\ slider' \in Rate /\ synced' \in BOOLEAN
      BY <1>12 DEF Slide, CommandLine, LateThrottle, Succeeds, Fails
    <2>3. UNCHANGED <<disk, editing, trays, wish, calm, overlap, choices>>
      BY <1>12 DEF Slide, CommandLine, LateThrottle
    <2> QED
      BY <2>1, <2>2, <2>3
  <1>13. CASE RestartDaemon \/ UNCHANGED vars
    BY <1>13 DEF RestartDaemon, vars
  <1> QED
    BY <1>1, <1>2, <1>3, <1>4, <1>5, <1>6, <1>7, <1>8, <1>9, <1>10, <1>11, <1>12,
       <1>13 DEF Next

-----------------------------------------------------------------------------
(* The save                                                                *)

LEMMA InitSavesApart == Init => SavesApart
  BY DEF Init, SavesApart, InSave

LEMMA NextSavesApart == TypeOK /\ SavesApart /\ [Next]_vars => SavesApart'
  <1> SUFFICES ASSUME TypeOK, SavesApart, [Next]_vars PROVE SavesApart'
    OBVIOUS
  <1> USE DEF TypeOK, SavesApart, InSave
  <1>1. ASSUME NEW t \in Trays, Start(t) \/ End(t) PROVE SavesApart'
    BY <1>1 DEF Start, End
  <1>2. ASSUME NEW t \in Trays, NEW what, NEW new, NEW fresh,
               Activate(t, what, new, fresh)
        PROVE  SavesApart'
    BY <1>2 DEF Activate
  <1>3. ASSUME NEW t \in Trays, OpenEditor(t) PROVE SavesApart'
    BY <1>2, <1>3 DEF OpenEditor
  <1>4. ASSUME NEW t \in Trays, NEW attr \in Toggles, Toggle(t, attr) PROVE SavesApart'
    BY <1>2, <1>4 DEF Toggle
  <1>5. ASSUME NEW t \in Trays, NEW attr \in Toggles, ToggleRaises(t, attr)
        PROVE  SavesApart'
    BY <1>5 DEF ToggleRaises
  <1>6. ASSUME NEW t \in Trays, NEW r \in Presets, Select(t, r) PROVE SavesApart'
    BY <1>2, <1>6 DEF Select
  <1>7. ASSUME NEW t \in Trays, Open(t) PROVE SavesApart'
    BY <1>7 DEF Open, Opening, Goes
  <1>8. ASSUME NEW t \in Trays, Write(t) PROVE SavesApart'
    BY <1>8 DEF Write, Goes, Over
  <1>9. ASSUME NEW t \in Trays, Rename(t) PROVE SavesApart'
    <2>1. AfterSave(t) \in {"throttle", "entry", "idle"}
      BY DEF AfterSave, Toggles
    <2> QED
      BY <1>9, <2>1 DEF Rename, Goes
  <1>10. ASSUME NEW t \in Trays,
                SaveRaises(t) \/ SetThrottle(t) \/ ToggleAutostart(t) \/ EntryRaises(t)
         PROVE  SavesApart'
    BY <1>10 DEF SaveRaises, SetThrottle, ToggleAutostart, EntryRaises, Goes
  <1>11. ASSUME NEW c \in Setting \cup {Garbled, Foreign}, EditorSaves(c)
         PROVE  SavesApart'
    BY <1>11 DEF EditorSaves
  <1>12. ASSUME NEW r \in Rate, Slide(r) \/ CommandLine(r) \/ LateThrottle(r)
         PROVE  SavesApart'
    BY <1>12 DEF Slide, CommandLine, LateThrottle
  <1>13. CASE RestartDaemon \/ UNCHANGED vars
    BY <1>13 DEF RestartDaemon, vars
  <1> QED
    BY <1>1, <1>3, <1>4, <1>5, <1>6, <1>7, <1>8, <1>9, <1>10, <1>11, <1>12, <1>13
       DEF Next

LEMMA SavesApartInvariant == Spec => [](TypeOK /\ SavesApart)
  <1>1. Init => TypeOK /\ SavesApart
    BY InitTypeOK, InitSavesApart
  <1>2. TypeOK /\ SavesApart /\ [Next]_vars => (TypeOK /\ SavesApart)'
    BY NextTypeOK, NextSavesApart
  <1> QED
    BY <1>1, <1>2, PTL DEF Spec

(* Every variable keeps its type, whatever the trays, the editor and the   *)
(* daemon do.                                                              *)
THEOREM SettingsTypeCorrect == Spec => []TypeOK
  BY SavesApartInvariant, PTL

(* The settings file is whole at every moment, unless two saves overlapped *)
(* or somebody edited it.                                                  *)
THEOREM FileWholeCorrect == Spec => []FileWhole
  <1>1. TypeOK /\ SavesApart => FileWhole
    BY SettingsConstants DEF TypeOK, SavesApart, FileWhole
  <1> QED
    BY <1>1, SavesApartInvariant, PTL

-----------------------------------------------------------------------------
(* What the handlers carry                                                 *)

LEMMA InitCarried == Init => Carried
  <1> SUFFICES ASSUME Init PROVE Carried
    OBVIOUS
  <1>1. \A t \in Trays : pc[t] = "off"
    BY DEF Init
  <1>2. file = Absent /\ wish = Default /\ ~overlap /\ ~synced /\ ~wish.autostart_daemon
    BY DEF Init, Default
  <1> QED
    BY <1>1, <1>2 DEF Carried, Busy, AllIdle

(* A limit set elsewhere, and a daemon that starts again.                  *)
LEMMA LimitChangedCarried ==
    ASSUME Carried, ~synced',
           UNCHANGED <<disk, trays, wish, calm, overlap, edits>>
    PROVE  Carried'
  BY DEF Carried, Busy, AllIdle

(* A handler that begins while all is calm: the other trays rest, and what *)
(* it will save is what was wished for.                                    *)
LEMMA ActivateCarried ==
    ASSUME TypeOK, Carried, NEW t \in Trays, NEW what, NEW new, NEW fresh,
           Activate(t, what, new, fresh),
           calm' => /\ new = wish'
                    /\ synced' => wish'.throttle_bps = wish.throttle_bps
                    /\ wish'.autostart_daemon => wish.autostart_daemon
                                                \/ what = "autostart_daemon"
    PROVE  Carried'
  BY DEF TypeOK, Carried, Activate, Busy, AllIdle, OthersIdle

LEMMA NextCarried == TypeOK /\ SavesApart /\ Carried /\ [Next]_vars => Carried'
  <1> SUFFICES ASSUME TypeOK, SavesApart, Carried, [Next]_vars PROVE Carried'
    OBVIOUS
  <1> USE SettingsConstants DEF TypeOK, SavesApart, InSave, Carried, Busy, AllIdle
  <1>1. ASSUME NEW t \in Trays, Start(t) PROVE Carried'
    BY <1>1 DEF Start
  <1>2. ASSUME NEW t \in Trays, End(t) PROVE Carried'
    BY <1>2 DEF End
  <1>3. ASSUME NEW t \in Trays, OpenEditor(t) PROVE Carried'
    <2>1. CASE file = Absent /\ Activate(t, "edit", Default, TRUE) /\ UNCHANGED <<shown, wish>>
      <3>1. calm' => wish = Default
        BY <2>1 DEF Activate, OthersIdle
      <3> QED
        BY ONLY TypeOK, Carried, <2>1, <3>1, ActivateCarried
    <2>2. CASE UNCHANGED <<disk, limit, slider, trays, history>>
      BY <2>2
    <2> QED
      BY <1>3, <2>1, <2>2 DEF OpenEditor
  <1>4. ASSUME NEW t \in Trays, NEW attr \in Toggles, Toggle(t, attr) PROVE Carried'
    <2> DEFINE active == ~shown[t][attr]
    <2>1. /\ Activate(t, attr, [Loaded EXCEPT ![attr] = active], TRUE)
          /\ wish' = [wish EXCEPT ![attr] = active]
      BY <1>4 DEF Toggle, Base
    <2>2. calm' => Loaded = wish
      BY <2>1 DEF Activate, OthersIdle, Loaded
    <2>3. /\ wish'.throttle_bps = wish.throttle_bps
          /\ wish'.autostart_daemon => wish.autostart_daemon \/ attr = "autostart_daemon"
      <3>1. wish \in Setting /\ active \in BOOLEAN
        BY Toggled
      <3> QED
        BY ONLY <2>1, <3>1, attr \in Toggles, ToggleChanged
    <2> QED
      BY ONLY TypeOK, Carried, <2>1, <2>2, <2>3, ActivateCarried
  <1>5. ASSUME NEW t \in Trays, NEW attr \in Toggles, ToggleRaises(t, attr)
        PROVE  Carried'
    BY <1>5 DEF ToggleRaises
  <1>6. ASSUME NEW t \in Trays, NEW r \in Presets, Select(t, r) PROVE Carried'
    <2> DEFINE new == [built[t] EXCEPT !.throttle_bps = r]
               fresh == \A attr \in Toggles : built[t][attr] = wish[attr]
    <2>1. /\ Activate(t, "throttle_bps", new, fresh)
          /\ wish' = [wish EXCEPT !.throttle_bps = r]
      BY <1>6 DEF Select
    <2>2. calm' => new = wish'
      <3>1. calm' => fresh
        BY <2>1 DEF Activate
      <3>2. new \in Setting /\ wish' \in Setting /\ new.throttle_bps = wish'.throttle_bps
        BY ONLY TypeOK, SettingsConstants, <2>1, SpeedChanged DEF TypeOK
      <3>3. fresh => new.verify_hash = wish'.verify_hash
                     /\ new.autostart_daemon = wish'.autostart_daemon
        BY <2>1, SpeedChanged DEF Toggles
      <3> QED
        BY ONLY <3>1, <3>2, <3>3 DEF Setting
    <2>3. wish'.autostart_daemon = wish.autostart_daemon
      BY <2>1 DEF Setting
    <2>4. ~synced'
      BY <2>1 DEF Activate
    <2> QED
      BY ONLY TypeOK, Carried, <2>1, <2>2, <2>3, <2>4, ActivateCarried
  <1>7. ASSUME NEW t \in Trays, Open(t) PROVE Carried'
    BY <1>7 DEF Open, Opening, Goes
  <1>8. ASSUME NEW t \in Trays, Write(t) PROVE Carried'
    BY <1>8 DEF Write, Goes, Over
  <1>9. ASSUME NEW t \in Trays, Rename(t) PROVE Carried'
    BY <1>9 DEF Rename, Goes, AfterSave, Toggles
  <1>10. ASSUME NEW t \in Trays, SaveRaises(t) \/ EntryRaises(t) PROVE Carried'
    BY <1>10 DEF SaveRaises, EntryRaises
  <1>11. ASSUME NEW t \in Trays, SetThrottle(t) PROVE Carried'
    BY <1>11 DEF SetThrottle, Succeeds, Fails, Goes
  <1>12. ASSUME NEW t \in Trays, ToggleAutostart(t) PROVE Carried'
    <2>1. pc[t] = "entry" /\ pc' = [pc EXCEPT ![t] = "idle"]
      BY <1>12 DEF ToggleAutostart, Goes
    <2>2. calm /\ wish.autostart_daemon => entry'
      <3>1. calm => saving[t] = wish
        BY <2>1
      <3>2. entry' = (item[t] = "autostart_daemon" \/ saving[t].autostart_daemon)
        BY <1>12 DEF ToggleAutostart, EntryWanted
      <3> QED
        BY ONLY <3>1, <3>2, Zenon
    <2>3. UNCHANGED <<file, limit, item, saving, wish, calm, overlap, synced, edits>>
      BY <1>12 DEF ToggleAutostart
    <2> QED
      BY <2>1, <2>2, <2>3
  <1>13. ASSUME NEW c \in Setting \cup {Garbled, Foreign}, EditorSaves(c)
         PROVE  Carried'
    BY <1>13 DEF EditorSaves
  <1>14. ASSUME NEW r \in Rate, Slide(r) \/ CommandLine(r) \/ LateThrottle(r)
         PROVE  Carried'
    BY ONLY Carried, <1>14, LimitChangedCarried DEF Slide, CommandLine, LateThrottle
  <1>15. CASE RestartDaemon
    BY ONLY Carried, <1>15, LimitChangedCarried DEF RestartDaemon
  <1>16. CASE UNCHANGED vars
    BY <1>16 DEF vars
  <1> QED
    BY <1>1, <1>2, <1>3, <1>4, <1>5, <1>6, <1>7, <1>8, <1>9, <1>10, <1>11, <1>12,
       <1>13, <1>14, <1>15, <1>16 DEF Next

LEMMA IInvInvariant == Spec => []IInv
  <1>1. Init => IInv
    BY InitTypeOK, InitSavesApart, InitCarried DEF IInv
  <1>2. IInv /\ [Next]_vars => IInv'
    BY NextTypeOK, NextSavesApart, NextCarried DEF IInv
  <1> QED
    BY <1>1, <1>2, PTL DEF Spec

(* Between handlers the file holds the last choice of every setting.       *)
THEOREM ChoicesCorrect == Spec => []ChoicesKept
  <1>1. IInv => ChoicesKept
    BY DEF IInv, Carried, ChoicesKept
  <1> QED
    BY <1>1, IInvInvariant, PTL

(* The autostart entry that was asked for is there.                        *)
THEOREM EntryCorrect == Spec => []EntryKept
  <1>1. IInv => EntryKept
    BY DEF IInv, Carried, EntryKept, AllIdle
  <1> QED
    BY <1>1, IInvInvariant, PTL

(* A limit set from the menu is the one in the file.                       *)
THEOREM LimitCorrect == Spec => []LimitIsSaved
  <1>1. IInv => LimitIsSaved
    BY DEF IInv, Carried, LimitIsSaved
  <1> QED
    BY <1>1, IInvInvariant, PTL
=============================================================================
