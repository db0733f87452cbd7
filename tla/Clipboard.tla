----------------------------- MODULE Clipboard ------------------------------
(***************************************************************************)
(* csf-thunar-helper.py: each menu action of Thunar is a process of its    *)
(* own.  copy and cut save the selection in one clipboard file, paste      *)
(* loads it, picks a name for every target, enqueues the jobs and empties  *)
(* the clipboard of a cut.  The processes know nothing of each other, nor  *)
(* of the jobs the daemon has still to run.  The Thunar extension enqueues *)
(* what is dropped on a folder, or copied and moved to a chosen one,       *)
(* without the clipboard.                                                  *)
(*                                                                         *)
(* A job that is run here completes or finds no source; how a run may end  *)
(* otherwise is module CopyOp's subject.                                   *)
(***************************************************************************)
EXTENDS Naturals, FiniteSets, SequencesExt, JobStates

CONSTANTS
    Dir,          \* directories
    Helpers,      \* helper processes alive at one time
    MaxSuffix,    \* numbers tried for a free name (999 in the code)
    MaxCommands   \* menu actions of the user (bounds the model)

ASSUME ClipboardConstants == MaxSuffix \in Nat /\ MaxCommands \in Nat

(* One name is enough for targets to collide.  "name (1) (2)" has the      *)
(* suffix <<1, 2>>; a file in a folder is pasted with its folder.          *)
Number == 1 .. MaxSuffix
Path   == [dir : Dir, in : {"top"}, suffix : BoundedSeq(Number, 2)]
          \cup [dir : Dir, in : {"folder"}, suffix : {<<>>}]

NoFile  == [dir |-> "none", in |-> "none", suffix |-> <<>>]
Emptied == [NoFile EXCEPT !.in = "emptied"]   \* what a copy onto itself leaves

Job == [source : Path, dest : Path, op : Operation]

(* What json.loads makes of the clipboard file.                            *)
Selection == [op : {"copy", "cut"}, items : SUBSET Path]
Nothing   == [op |-> "copy", items |-> {}]

(* A file between open and write, and one that is no JSON.                 *)
Blank   == [op |-> "blank", items |-> {}]
Garbled == [op |-> "garbled", items |-> {}]

VARIABLES
    disk,      \* [Path -> the path whose content it holds, or NoFile]
    written,   \* the clipboard file
    pc,        \* [Helpers -> step of the process that comes next]
    clip,      \* [Helpers -> the selection to save, or the one loaded]
    dest,      \* [Helpers -> directory to paste to]
    batch,     \* [Helpers -> jobs to enqueue]
    jobs,      \* the daemon's queue
    commands,
    (* history *)
    origin,    \* files there were at the start
    sent,      \* every job ever queued
    cut,       \* paths that were cut
    forced     \* a name was picked although it was taken

process == <<pc, clip, dest, batch>>
history == <<origin, sent, cut, forced>>
vars == <<disk, written, process, jobs, commands, history>>

TypeOK ==
    /\ disk \in [Path -> Path \cup {NoFile, Emptied}]
    /\ written \in Selection \cup {Blank, Garbled}
    /\ pc \in [Helpers -> {"idle", "truncate", "write", "build", "enqueue"}]
    /\ clip \in [Helpers -> Selection]
    /\ dest \in [Helpers -> Dir]
    /\ batch \in [Helpers -> Seq(Job)]
    /\ jobs \in Seq(Job) /\ sent \in Seq(Job)
    /\ commands \in 0 .. MaxCommands
    /\ origin \in SUBSET Path /\ cut \in SUBSET Path /\ forced \in BOOLEAN

Init ==
    /\ origin \in SUBSET {p \in Path : p.suffix = <<>>}
    /\ disk = [p \in Path |-> IF p \in origin THEN p ELSE NoFile]
    /\ written = Nothing
    /\ pc = [h \in Helpers |-> "idle"]
    /\ clip = [h \in Helpers |-> Nothing]
    /\ \E d \in Dir : dest = [h \in Helpers |-> d]
    /\ batch = [h \in Helpers |-> <<>>]
    /\ jobs = <<>> /\ commands = 0
    /\ sent = <<>> /\ cut = {} /\ forced = FALSE

Exists(p) == disk[p] # NoFile

Goes(h, step) == pc' = [pc EXCEPT ![h] = step]

-----------------------------------------------------------------------------
(* cmd_copy and cmd_cut.                                                   *)

(* What the user can select: files of one directory, with names that leave *)
(* room for a suffix.                                                      *)
Selections ==
    UNION {SUBSET {p \in Path : p.dir = d /\ Exists(p) /\ Len(p.suffix) < 2} : d \in Dir}
        \ {{}}

Mark(h, op, items) ==
    /\ pc[h] = "idle" /\ commands < MaxCommands
    /\ clip' = [clip EXCEPT ![h] = [op |-> op, items |-> items]]
    /\ Goes(h, "truncate")
    /\ commands' = commands + 1
    /\ cut' = IF op = "cut" THEN cut \cup items ELSE cut
    /\ UNCHANGED <<disk, written, dest, batch, jobs, origin, sent, forced>>

(* write_text opens the file, which truncates it, and then writes.         *)
Truncate(h) ==
    /\ pc[h] = "truncate"
    /\ written' = Blank
    /\ Goes(h, "write")
    /\ UNCHANGED <<disk, clip, dest, batch, jobs, commands, history>>

SavedOver(h) ==
    {IF written \in {Blank, Garbled} THEN clip[h] ELSE [written EXCEPT !.op = clip[h].op]}

(* Both of two processes that truncated before either wrote write from the *)
(* beginning: a longer text of the first remains behind the second's.      *)
Saved(h) == {clip[h]} \cup (IF written = Blank THEN {} ELSE {Garbled})

Write(h) ==
    /\ pc[h] = "write"
    /\ written' \in Saved(h)
    /\ Goes(h, "idle")
    /\ clip' = [clip EXCEPT ![h] = Nothing]
    /\ UNCHANGED <<disk, dest, batch, jobs, commands, history>>

-----------------------------------------------------------------------------
(* cmd_paste.                                                              *)

Loaded == IF written \in {Blank, Garbled} THEN Nothing ELSE written

Paste(h, d) ==
    /\ pc[h] = "idle" /\ commands < MaxCommands
    /\ Loaded.items # {}
    /\ clip' = [clip EXCEPT ![h] = Loaded]
    /\ dest' = [dest EXCEPT ![h] = d]
    /\ Goes(h, "build")
    /\ commands' = commands + 1
    /\ UNCHANGED <<disk, written, batch, jobs, history>>

Plain(p, d)        == [p EXCEPT !.dir = d]
Candidate(p, d, i) == [Plain(p, d) EXCEPT !.suffix = Append(@, i)]

Free(p, d) == {i \in Number : ~Exists(Candidate(p, d, i))}

TargetPlain(p, d) == Plain(p, d)

(* The files of a folder keep their names, taken or not.                   *)
Target(p, d) ==
    IF p.in = "folder" \/ ~Exists(Plain(p, d)) \/ Free(p, d) = {}
    THEN Plain(p, d)
    ELSE Candidate(p, d, Min(Free(p, d)))

(* No candidate, or nothing was asked about it: the name may be taken.     *)
Forced(p, d) ==
    /\ Exists(Plain(p, d))
    /\ p.in = "folder" \/ \A i \in Number : Exists(Candidate(p, d, i))

OpOfRaw(selection) == selection.op

OpOf(selection) == IF selection.op = "cut" THEN "move" ELSE "copy"

Found(h) == {p \in clip[h].items : Exists(p)}

(* The first half of _enqueue_paths, for a selection in any order: sources *)
(* that are gone are skipped.                                              *)
Build(h) ==
    /\ pc[h] = "build"
    /\ \E order \in [1 .. Cardinality(Found(h)) -> Found(h)] :
        /\ IsInjective(order)
        /\ batch' = [batch EXCEPT ![h] =
             [i \in DOMAIN order |-> [source |-> order[i],
                                      dest |-> Target(order[i], dest[h]),
                                      op |-> OpOf(clip[h])]]]
    /\ forced' = (forced \/ \E p \in Found(h) : Forced(p, dest[h]))
    /\ Goes(h, "enqueue")
    /\ UNCHANGED <<disk, written, clip, dest, jobs, commands, origin, sent, cut>>

(* _enqueue of the Thunar extension: of files dropped on a folder, or for  *)
(* which one was chosen, each gets its own name there, taken or not, its   *)
(* own path included.                                                      *)
DropTarget(p, d) == Plain(p, d)

Drop(h, op, items, d) ==
    /\ pc[h] = "idle" /\ commands < MaxCommands
    /\ \A p \in items : p.in = "top"
    /\ \E order \in [1 .. Cardinality(items) -> items] :
        /\ IsInjective(order)
        /\ batch' = [batch EXCEPT ![h] =
             [i \in DOMAIN order |-> [source |-> order[i],
                                      dest |-> DropTarget(order[i], d), op |-> op]]]
    /\ Goes(h, "enqueue")
    /\ commands' = commands + 1
    /\ cut' = IF op = "move" THEN cut \cup items ELSE cut
    /\ forced' = (forced \/ \E p \in items : Exists(DropTarget(p, d)))
    /\ UNCHANGED <<disk, written, clip, dest, jobs, origin, sent>>

(* enqueue_items of the daemon stops at the first source that is gone.     *)
Accepted(items) ==
    LET gone == {i \in 1 .. Len(items) : ~Exists(items[i].source)}
    IN  IF gone = {} THEN items ELSE SubSeq(items, 1, Min(gone) - 1)

AfterPaste(h) == IF clip[h].op = "cut" THEN "truncate" ELSE "idle"

(* The call returns, whatever the daemon answered: a cut is then emptied.  *)
(* The client library may have sent the request twice.                     *)
Enqueued(h) ==
    /\ pc[h] = "enqueue"
    /\ LET once == Accepted(batch[h]) IN
        \E queued \in {once, once \o once} :
            jobs' = jobs \o queued /\ sent' = sent \o queued
    /\ Goes(h, AfterPaste(h))
    /\ clip' = [clip EXCEPT ![h] = Nothing]
    /\ batch' = [batch EXCEPT ![h] = <<>>]
    /\ UNCHANGED <<disk, written, dest, commands, origin, cut, forced>>

(* The call raises DaemonConnectionError, before or after the daemon has   *)
(* executed it, and the clipboard is left as it is.                        *)
EnqueueFails(h) ==
    /\ pc[h] = "enqueue"
    /\ \E queued \in {<<>>, Accepted(batch[h])} :
        jobs' = jobs \o queued /\ sent' = sent \o queued
    /\ Goes(h, "idle")
    /\ clip' = [clip EXCEPT ![h] = Nothing]
    /\ batch' = [batch EXCEPT ![h] = <<>>]
    /\ UNCHANGED <<disk, written, dest, commands, origin, cut, forced>>

-----------------------------------------------------------------------------
(* The daemon runs the queue in order.                                     *)

Done(j) ==
    IF ~Exists(j.source) THEN disk
    ELSE IF j.op = "move"
    THEN [[disk EXCEPT ![j.source] = NoFile] EXCEPT ![j.dest] = disk[j.source]]
    ELSE [disk EXCEPT ![j.dest] = IF j.source = j.dest THEN Emptied ELSE disk[j.source]]

RunJob ==
    /\ jobs # <<>>
    /\ disk' = Done(Head(jobs))
    /\ jobs' = Tail(jobs)
    /\ UNCHANGED <<written, process, commands, history>>

Command(h) ==
    \/ \E op \in {"copy", "cut"}, items \in Selections : Mark(h, op, items)
    \/ \E d \in Dir : Paste(h, d)
    \/ \E op \in Operation, items \in Selections, d \in Dir : Drop(h, op, items, d)

Step(h) == Truncate(h) \/ Write(h) \/ Build(h) \/ Enqueued(h) \/ EnqueueFails(h)

Next == RunJob \/ \E h \in Helpers : Command(h) \/ Step(h)

Spec == Init /\ [][Next]_vars

-----------------------------------------------------------------------------
(* Two jobs were given one target, by one request, by two pastes before    *)
(* the first of them was run, or by a request sent twice.                  *)
Clash == \E i, k \in DOMAIN sent : i # k /\ sent[i].dest = sent[k].dest

(* What was in a file is in some file, whatever processes and jobs do at   *)
(* the same time, unless two jobs share a target or a taken name had to be *)
(* used: the check in _enqueue_paths misses only what is still queued.     *)
ContentKept ==
    forced \/ Clash \/ \A o \in origin : \E p \in Path : disk[p] = o

(* Nothing is moved that was not cut: torn and overlapping saves of the    *)
(* clipboard never pair the files of a copy with the operation of a cut.   *)
OnlyCutIsMoved ==
    \A i \in DOMAIN sent : sent[i].op = "move" => sent[i].source \in cut
=============================================================================
