-------------------------- MODULE ClipboardProofs ---------------------------
(***************************************************************************)
(* Proofs about Clipboard, for any set of directories and of helpers, any  *)
(* number of numbers tried for a name and of menu actions.                 *)
(***************************************************************************)
EXTENDS Clipboard, ListLemmas

(* Whatever is saved or pasted was once selected: finitely many files whose*)
(* names leave room for a suffix.                                          *)
Short == {p \in Path : Len(p.suffix) < 2}

Pasteable(selection) ==
    selection.items \subseteq Short /\ IsFiniteSet(selection.items)

Selected == Pasteable(written) /\ \A h \in Helpers : Pasteable(clip[h])

TypeInv == TypeOK /\ Selected

(* Wherever the operation of a cut is kept, it is kept with files that     *)
(* were cut.                                                               *)
CutOnly(selection) == selection.op = "cut" => selection.items \subseteq cut

Marked ==
    /\ CutOnly(written)
    /\ \A h \in Helpers :
         /\ CutOnly(clip[h])
         /\ \A i \in DOMAIN batch[h] : batch[h][i].op = "move" => batch[h][i].source \in cut
    /\ OnlyCutIsMoved

(* The queue is what is left of all that was sent.                         *)
QueueIsRest ==
    /\ Len(jobs) <= Len(sent)
    /\ \A i \in 1 .. Len(jobs) : jobs[i] = sent[Len(sent) - Len(jobs) + i]

Sent(target) == \E k \in 1 .. Len(sent) : sent[k].dest = target

(* A target was free when it was chosen, and stays so until a job with     *)
(* that target has run.                                                    *)
TargetsFree ==
    \/ forced
    \/ Clash
    \/ /\ \A i \in 1 .. Len(jobs) : ~Exists(jobs[i].dest)
       /\ \A h \in Helpers : \A i \in 1 .. Len(batch[h]) :
            Exists(batch[h][i].dest) => Sent(batch[h][i].dest)

KeptInv == QueueIsRest /\ TargetsFree /\ ContentKept

-----------------------------------------------------------------------------
(* Paths, targets and batches                                              *)

LEMMA NoFileIsNoPath == NoFile \notin Path /\ Emptied \notin Path /\ Emptied # NoFile
  BY DEF NoFile, Emptied, Path

LEMMA SelectionIsPasteable ==
    ASSUME TypeOK, NEW items \in Selections
    PROVE  items \subseteq Short /\ IsFiniteSet(items)
  <1>1. PICK d \in Dir : items \subseteq {p \in Path : p.dir = d /\ Exists(p) /\ Len(p.suffix) < 2}
    BY DEF Selections
  <1> DEFINE Named == {p \in Short : p.dir = d}
             name == [i \in 0 .. MaxSuffix + 1 |->
                        IF i = 0 THEN [dir |-> d, in |-> "top", suffix |-> <<>>]
                        ELSE IF i = MaxSuffix + 1 THEN [dir |-> d, in |-> "folder", suffix |-> <<>>]
                        ELSE [dir |-> d, in |-> "top", suffix |-> <<i>>]]
  <1>2. items \subseteq Named
    BY <1>1 DEF Short
  <1>3. ASSUME NEW p \in Named PROVE \E i \in 0 .. MaxSuffix + 1 : name[i] = p
    <2>1. CASE p.in = "folder"
      <3>1. p = [dir |-> d, in |-> "folder", suffix |-> <<>>]
        BY <2>1 DEF Short, Path
      <3> QED
        BY <3>1, ClipboardConstants
    <2>2. CASE p.in = "top"
      <3>1. p = [dir |-> d, in |-> "top", suffix |-> p.suffix]
        BY <2>2 DEF Short, Path
      <3>2. PICK m \in 0 .. 2 : p.suffix \in [1 .. m -> Number]
        BY <2>2 DEF Short, Path, BoundedSeq, SeqOf
      <3>3. p.suffix \in Seq(Number) /\ Len(p.suffix) = m
        BY <3>2
      <3>4. m \in {0, 1}
        BY <3>3 DEF Short
      <3>5. CASE m = 0
        <4>1. p.suffix = <<>>
          BY <3>3, <3>5, EmptySeq
        <4> QED
          BY <3>1, <4>1, ClipboardConstants
      <3>6. CASE m = 1
        <4>1. p.suffix = <<p.suffix[1]>> /\ p.suffix[1] \in 1 .. MaxSuffix
          BY <3>2, <3>3, <3>6 DEF Number
        <4>2. name[p.suffix[1]] = [dir |-> d, in |-> "top", suffix |-> <<p.suffix[1]>>]
          BY ONLY <4>1, ClipboardConstants
        <4> QED
          BY ONLY <3>1, <4>1, <4>2, ClipboardConstants
      <3> QED
        BY <3>4, <3>5, <3>6
    <2> QED
      BY <2>1, <2>2 DEF Short, Path
  <1>4. IsFiniteSet(items)
    <2> DEFINE T == {name[i] : i \in 0 .. MaxSuffix + 1}
    <2>1. name \in Surjection(0 .. MaxSuffix + 1, T)
      BY DEF Surjection
    <2>2. IsFiniteSet(T)
      BY <2>1, ClipboardConstants, FS_Interval, FS_Surjection
    <2>3. items \subseteq T
      BY <1>2, <1>3
    <2> QED
      BY <2>2, <2>3, FS_Subset
  <1> QED
    BY <1>2, <1>4 DEF Short

LEMMA PlainIsPath == ASSUME NEW p \in Path, NEW d \in Dir PROVE Plain(p, d) \in Path
  BY DEF Plain, Path

(* A target is a path, and free unless the choice was forced.              *)
LEMMA TargetProperties ==
    ASSUME NEW p \in Short, NEW d \in Dir
    PROVE  /\ Target(p, d) \in Path
           /\ ~Forced(p, d) => ~Exists(Target(p, d))
  <1>1. Plain(p, d) \in Path
    BY PlainIsPath DEF Short
  <1>2. CASE p.in = "folder" \/ ~Exists(Plain(p, d)) \/ Free(p, d) = {}
    <2>1. Target(p, d) = Plain(p, d)
      BY <1>2 DEF Target
    <2>2. ~Forced(p, d) => ~Exists(Plain(p, d))
      BY <1>2 DEF Forced, Free
    <2> QED
      BY <1>1, <2>1, <2>2
  <1>3. CASE ~(p.in = "folder" \/ ~Exists(Plain(p, d)) \/ Free(p, d) = {})
    <2> DEFINE i == Min(Free(p, d))
    <2>1. i \in Free(p, d)
      <3>1. Free(p, d) \subseteq Nat /\ Free(p, d) # {}
        BY <1>3 DEF Free, Number
      <3> QED
        BY ONLY <3>1, MinIsMember
    <2>2. Target(p, d) = Candidate(p, d, i)
      BY <1>3 DEF Target
    <2>3. i \in Number /\ ~Exists(Candidate(p, d, i))
      BY ONLY <2>1 DEF Free
    <2>4. Candidate(p, d, i) \in Path
      <3>1. p.in = "top" /\ p.suffix \in Seq(Number) /\ Len(p.suffix) < 2
        BY <1>3 DEF Short, Path, BoundedSeq, SeqOf
      <3>2. Append(p.suffix, i) \in [1 .. Len(p.suffix) + 1 -> Number]
        <4>1. /\ Append(p.suffix, i) \in Seq(Number)
              /\ Len(Append(p.suffix, i)) = Len(p.suffix) + 1
          BY ONLY <2>3, <3>1, AppendProperties
        <4> QED
          BY ONLY <4>1, LenProperties
      <3>3. Append(p.suffix, i) \in BoundedSeq(Number, 2)
        BY <3>1, <3>2 DEF BoundedSeq, SeqOf
      <3>4. /\ Plain(p, d) \in [dir : Dir, in : {"top"}, suffix : BoundedSeq(Number, 2)]
            /\ Plain(p, d).suffix = p.suffix
        <4>1. p \in [dir : Dir, in : {"top"}, suffix : BoundedSeq(Number, 2)]
          BY <3>1 DEF Short, Path
        <4> QED
          BY <4>1 DEF Plain
      <3>5. Candidate(p, d, i) = [Plain(p, d) EXCEPT !.suffix = Append(p.suffix, i)]
        BY <3>4 DEF Candidate
      <3> QED
        BY <3>3, <3>4, <3>5 DEF Path
    <2> QED
      BY <2>2, <2>3, <2>4
  <1> QED
    BY <1>2, <1>3

(* The jobs of a request are a sequence, in whatever order the selection   *)
(* is passed.                                                              *)
LEMMA OrderIsSeq ==
    ASSUME NEW S, IsFiniteSet(S), NEW order \in [1 .. Cardinality(S) -> S]
    PROVE  order \in Seq(S) /\ DOMAIN order = 1 .. Len(order)
  BY FS_CardinalityType, LenProperties

(* What the daemon accepts of a batch is jobs of the batch, and so is what *)
(* it queues when it gets the request twice.                               *)
LEMMA AcceptedIsOfBatch ==
    ASSUME NEW b \in Seq(Job),
           NEW queued \in {<<>>, Accepted(b), Accepted(b) \o Accepted(b)}
    PROVE  /\ queued \in Seq(Job)
           /\ \A m \in 1 .. Len(queued) : \E i \in 1 .. Len(b) : queued[m] = b[i]
  <1> DEFINE gone == {i \in 1 .. Len(b) : ~Exists(b[i].source)}
             once == Accepted(b)
  <1>1. PICK n \in 0 .. Len(b) : once = SubSeq(b, 1, n)
    <2>1. CASE gone = {}
      <3>1. once = b
        BY <2>1 DEF Accepted
      <3> QED
        BY <3>1, SubSeqFull, LenProperties
    <2>2. CASE gone # {}
      <3>1. Min(gone) \in 1 .. Len(b) /\ Len(b) \in Nat
        <4>1. gone \subseteq Nat /\ Len(b) \in Nat
          BY LenProperties
        <4>2. Min(gone) \in gone
          BY ONLY <2>2, <4>1, MinIsMember
        <4> QED
          BY ONLY <4>1, <4>2
      <3>2. once = SubSeq(b, 1, Min(gone) - 1)
        BY <2>2 DEF Accepted
      <3>3. Min(gone) - 1 \in 0 .. Len(b)
        BY ONLY <3>1
      <3> QED
        BY <3>2, <3>3
    <2> QED
      BY <2>1, <2>2
  <1>2. /\ once \in Seq(Job) /\ Len(once) = n
        /\ \A m \in 1 .. n : once[m] = b[m]
    BY ONLY <1>1, PrefixProperties, b \in Seq(Job)
  <1>3. /\ once \o once \in Seq(Job) /\ Len(once \o once) = n + n
        /\ \A m \in 1 .. n + n :
             (once \o once)[m] = IF m <= n THEN once[m] ELSE once[m - n]
    BY ONLY <1>2, ConcatProperties
  <1>4. CASE queued = <<>>
    BY <1>4, EmptySeq
  <1>5. CASE queued = once
    BY ONLY <1>2, <1>5, <1>1
  <1>6. CASE queued = once \o once
    <2>1. ASSUME NEW m \in 1 .. n + n PROVE \E i \in 1 .. Len(b) : queued[m] = b[i]
      <3>1. CASE m <= n
        BY <1>1, <1>2, <1>3, <1>6, <3>1, LenProperties
      <3>2. CASE ~(m <= n)
        <4>1. m - n \in 1 .. n /\ m - n \in 1 .. Len(b)
          BY <1>1, <3>2, LenProperties
        <4> QED
          BY <1>2, <1>3, <1>6, <3>2, <4>1
      <3> QED
        BY <3>1, <3>2
    <2> QED
      BY <1>3, <1>6, <2>1
  <1> QED
    BY <1>4, <1>5, <1>6

-----------------------------------------------------------------------------
(* Types                                                                   *)

USE DEF process, history

LEMMA NothingIsPasteable ==
    /\ Nothing \in Selection /\ Pasteable(Nothing)
    /\ Pasteable(Blank) /\ Pasteable(Garbled)
  BY FS_EmptySet DEF Nothing, Selection, Pasteable, Blank, Garbled

LEMMA InitTypeInv == Init => TypeInv
  <1> SUFFICES ASSUME Init PROVE TypeInv
    OBVIOUS
  <1>1. disk \in [Path -> Path \cup {NoFile, Emptied}] /\ origin \in SUBSET Path
    BY DEF Init
  <1>2. dest \in [Helpers -> Dir]
    BY DEF Init
  <1>3. /\ written = Nothing
        /\ pc = [h \in Helpers |-> "idle"] /\ clip = [h \in Helpers |-> Nothing]
        /\ batch = [h \in Helpers |-> <<>>] /\ jobs = <<>> /\ sent = <<>>
        /\ commands = 0 /\ cut = {} /\ forced = FALSE
    BY DEF Init
  <1>4. written \in Selection /\ clip \in [Helpers -> Selection] /\ Selected
    BY <1>3, NothingIsPasteable DEF Selected
  <1>5. batch \in [Helpers -> Seq(Job)] /\ jobs \in Seq(Job) /\ sent \in Seq(Job)
    BY <1>3, EmptySeq
  <1>6. commands \in 0 .. MaxCommands /\ cut \in SUBSET Path
    BY <1>3, ClipboardConstants
  <1> QED
    BY <1>1, <1>2, <1>3, <1>4, <1>5, <1>6 DEF TypeInv, TypeOK

(* The two answers to an enqueue request.                                  *)
LEMMA EnqueueTypeInv ==
    ASSUME TypeInv, NEW h \in Helpers, NEW step \in {"idle", "truncate"},
           NEW queued \in {<<>>, Accepted(batch[h]), Accepted(batch[h]) \o Accepted(batch[h])},
           jobs' = jobs \o queued, sent' = sent \o queued,
           pc' = [pc EXCEPT ![h] = step],
           clip' = [clip EXCEPT ![h] = Nothing], batch' = [batch EXCEPT ![h] = <<>>],
           UNCHANGED <<disk, written, dest, commands, origin, cut, forced>>
    PROVE  TypeInv'
  <1> USE DEF TypeInv, TypeOK, Selected
  <1>1. queued \in Seq(Job)
    <2>1. batch[h] \in Seq(Job)
      OBVIOUS
    <2> QED
      BY <2>1, AcceptedIsOfBatch
  <1>2. jobs' \in Seq(Job) /\ sent' \in Seq(Job)
    BY <1>1, ConcatProperties
  <1>3. clip' \in [Helpers -> Selection] /\ \A g \in Helpers : Pasteable(clip'[g])
    BY NothingIsPasteable
  <1>4. batch' \in [Helpers -> Seq(Job)]
    BY EmptySeq
  <1> QED
    BY <1>2, <1>3, <1>4 DEF Pasteable

LEMMA NextTypeInv == TypeInv /\ [Next]_vars => TypeInv'
  <1> SUFFICES ASSUME TypeInv, [Next]_vars PROVE TypeInv'
    OBVIOUS
  <1> USE DEF TypeInv, TypeOK, Selected
  <1>1. ASSUME NEW h \in Helpers, NEW op \in {"copy", "cut"}, NEW items \in Selections,
               Mark(h, op, items)
        PROVE  TypeInv'
    <2>1. items \subseteq Short /\ IsFiniteSet(items) /\ items \subseteq Path
      BY SelectionIsPasteable DEF Short
    <2>2. [op |-> op, items |-> items] \in Selection /\ Pasteable([op |-> op, items |-> items])
      BY <2>1 DEF Selection, Pasteable
    <2>3. commands' \in 0 .. MaxCommands /\ cut' \in SUBSET Path
      BY <1>1, <2>1, ClipboardConstants DEF Mark
    <2> QED
      BY <1>1, <2>2, <2>3 DEF Mark, Goes, Pasteable
  <1>2. ASSUME NEW h \in Helpers, Truncate(h) PROVE TypeInv'
    BY <1>2, NothingIsPasteable DEF Truncate, Goes, Pasteable
  <1>3. ASSUME NEW h \in Helpers, Write(h) PROVE TypeInv'
    BY <1>3, NothingIsPasteable DEF Write, Goes, Saved, Pasteable
  <1>4. ASSUME NEW h \in Helpers, NEW d \in Dir, Paste(h, d) PROVE TypeInv'
    <2>1. Loaded \in Selection /\ Pasteable(Loaded)
      BY NothingIsPasteable DEF Loaded
    <2>2. commands' \in 0 .. MaxCommands
      BY <1>4, ClipboardConstants DEF Paste
    <2> QED
      BY <1>4, <2>1, <2>2 DEF Paste, Goes, Pasteable
  <1>5. ASSUME NEW h \in Helpers, Build(h) PROVE TypeInv'
    <2>1. Found(h) \subseteq Short /\ IsFiniteSet(Found(h))
      BY FS_Subset DEF Found, Pasteable
    <2>2. PICK order \in [1 .. Cardinality(Found(h)) -> Found(h)] :
            batch' = [batch EXCEPT ![h] =
              [i \in DOMAIN order |-> [source |-> order[i],
                                       dest |-> Target(order[i], dest[h]),
                                       op |-> OpOf(clip[h])]]]
      BY <1>5 DEF Build
    <2>3. /\ DOMAIN order = 1 .. Len(order) /\ Len(order) \in Nat
          /\ \A i \in 1 .. Len(order) : order[i] \in Short
      BY <2>1, OrderIsSeq, LenProperties
    <2>4. ASSUME NEW i \in 1 .. Len(order)
          PROVE  [source |-> order[i], dest |-> Target(order[i], dest[h]),
                  op |-> OpOf(clip[h])] \in Job
      BY <2>3, TargetProperties DEF Job, OpOf, Operation, Short
    <2>5. batch' \in [Helpers -> Seq(Job)]
      BY <2>2, <2>3, <2>4
    <2>6. forced' \in BOOLEAN
      BY <1>5, Zenon DEF Build
    <2> QED
      BY <1>5, <2>5, <2>6 DEF Build, Goes, Pasteable
  <1>6. ASSUME NEW h \in Helpers, NEW op \in Operation, NEW items \in Selections,
               NEW d \in Dir, Drop(h, op, items, d)
        PROVE  TypeInv'
    <2>1. items \subseteq Short /\ IsFiniteSet(items) /\ items \subseteq Path
      BY SelectionIsPasteable DEF Short
    <2>2. PICK order \in [1 .. Cardinality(items) -> items] :
            batch' = [batch EXCEPT ![h] =
              [i \in DOMAIN order |-> [source |-> order[i],
                                       dest |-> DropTarget(order[i], d), op |-> op]]]
      BY <1>6 DEF Drop
    <2>3. /\ DOMAIN order = 1 .. Len(order) /\ Len(order) \in Nat
          /\ \A i \in 1 .. Len(order) : order[i] \in items
      BY <2>1, OrderIsSeq, LenProperties
    <2>4. ASSUME NEW i \in 1 .. Len(order)
          PROVE  [source |-> order[i], dest |-> DropTarget(order[i], d), op |-> op] \in Job
      BY <2>1, <2>3, PlainIsPath DEF Job, DropTarget
    <2>5. batch' \in [Helpers -> Seq(Job)]
      BY <2>2, <2>3, <2>4
    <2>6. forced' \in BOOLEAN
      BY <1>6, Zenon DEF Drop
    <2>7. cut' \in SUBSET Path /\ commands' \in 0 .. MaxCommands
      BY <1>6, <2>1, ClipboardConstants DEF Drop
    <2> QED
      BY <1>6, <2>5, <2>6, <2>7 DEF Drop, Goes, Pasteable
  <1>7. ASSUME NEW h \in Helpers, Enqueued(h) \/ EnqueueFails(h) PROVE TypeInv'
    <2>1. AfterPaste(h) \in {"idle", "truncate"}
      BY DEF AfterPaste
    <2> QED
      BY ONLY <1>7, <2>1, TypeInv, h \in Helpers, EnqueueTypeInv
         DEF Enqueued, EnqueueFails, Goes
  <1>8. CASE RunJob
    <2>1. Head(jobs) \in Job /\ Tail(jobs) \in Seq(Job)
      BY <1>8, HeadTailProperties DEF RunJob
    <2>2. Done(Head(jobs)) \in [Path -> Path \cup {NoFile, Emptied}]
      BY <2>1 DEF Done, Job
    <2> QED
      BY <1>8, <2>1, <2>2 DEF RunJob, Pasteable
  <1>9. CASE UNCHANGED vars
    BY <1>9 DEF vars, Pasteable
  <1> QED
    BY <1>1, <1>2, <1>3, <1>4, <1>5, <1>6, <1>7, <1>8, <1>9 DEF Next, Command, Step

-----------------------------------------------------------------------------
(* What is moved was cut                                                   *)

LEMMA InitMarked == Init => Marked
  BY EmptySeq DEF Init, Marked, CutOnly, Nothing, OnlyCutIsMoved

(* The two answers to an enqueue request.                                  *)
LEMMA EnqueueMarked ==
    ASSUME TypeInv, Marked, NEW h \in Helpers,
           NEW queued \in {<<>>, Accepted(batch[h]), Accepted(batch[h]) \o Accepted(batch[h])},
           sent' = sent \o queued,
           clip' = [clip EXCEPT ![h] = Nothing], batch' = [batch EXCEPT ![h] = <<>>],
           UNCHANGED <<written, cut>>
    PROVE  Marked'
  <1> USE DEF TypeInv, TypeOK
  <1>1. /\ queued \in Seq(Job) /\ batch[h] \in Seq(Job) /\ Len(queued) \in Nat
        /\ \A m \in 1 .. Len(queued) : \E i \in 1 .. Len(batch[h]) : queued[m] = batch[h][i]
    <2>1. batch[h] \in Seq(Job)
      OBVIOUS
    <2>2. /\ queued \in Seq(Job)
          /\ \A m \in 1 .. Len(queued) : \E i \in 1 .. Len(batch[h]) : queued[m] = batch[h][i]
      BY ONLY <2>1, AcceptedIsOfBatch,
              queued \in {<<>>, Accepted(batch[h]), Accepted(batch[h]) \o Accepted(batch[h])}
    <2> QED
      BY ONLY <2>1, <2>2, LenProperties
  <1>2. ASSUME NEW m \in 1 .. Len(queued), queued[m].op = "move"
        PROVE  queued[m].source \in cut
    <2>1. PICK i \in 1 .. Len(batch[h]) : queued[m] = batch[h][i]
      BY <1>1
    <2>2. i \in DOMAIN batch[h]
      BY <1>1, LenProperties
    <2> QED
      BY <1>2, <2>1, <2>2 DEF Marked
  <1>3. OnlyCutIsMoved'
    <2>1. /\ DOMAIN sent' = 1 .. Len(sent) + Len(queued)
          /\ \A i \in 1 .. Len(sent) + Len(queued) :
               sent'[i] = IF i <= Len(sent) THEN sent[i] ELSE queued[i - Len(sent)]
      BY <1>1, ConcatProperties
    <2>2. Len(sent) \in Nat /\ DOMAIN sent = 1 .. Len(sent)
      BY LenProperties
    <2>3. ASSUME NEW i \in 1 .. Len(sent) + Len(queued), sent'[i].op = "move"
          PROVE  sent'[i].source \in cut
      <3>1. CASE i <= Len(sent)
        BY <2>1, <2>2, <2>3, <3>1 DEF Marked, OnlyCutIsMoved
      <3>2. CASE ~(i <= Len(sent))
        <4>1. i - Len(sent) \in 1 .. Len(queued)
          BY <1>1, <2>2, <3>2
        <4> QED
          BY <1>2, <2>1, <2>3, <3>2, <4>1
      <3> QED
        BY <3>1, <3>2
    <2> QED
      BY <2>1, <2>3 DEF OnlyCutIsMoved
  <1>4. \A g \in Helpers :
          /\ clip'[g] = clip[g] \/ clip'[g] = Nothing
          /\ batch'[g] = batch[g] \/ batch'[g] = <<>>
    OBVIOUS
  <1> QED
    BY <1>3, <1>4, EmptySeq DEF Marked, CutOnly, Nothing

LEMMA NextMarked == TypeInv /\ Marked /\ [Next]_vars => Marked'
  <1> SUFFICES ASSUME TypeInv, Marked, [Next]_vars PROVE Marked'
    OBVIOUS
  <1> USE DEF TypeInv, TypeOK, Marked, CutOnly, OnlyCutIsMoved
  <1>1. ASSUME NEW h \in Helpers, NEW op \in {"copy", "cut"}, NEW items \in Selections,
               Mark(h, op, items)
        PROVE  Marked'
    BY <1>1 DEF Mark, Goes
  <1>2. ASSUME NEW h \in Helpers, Truncate(h) PROVE Marked'
    BY <1>2 DEF Truncate, Blank
  <1>3. ASSUME NEW h \in Helpers, Write(h) PROVE Marked'
    BY <1>3 DEF Write, Saved, Garbled, Goes, Nothing
  <1>4. ASSUME NEW h \in Helpers, NEW d \in Dir, Paste(h, d) PROVE Marked'
    BY <1>4 DEF Paste, Loaded, Nothing
  <1>5. ASSUME NEW h \in Helpers, Build(h) PROVE Marked'
    <2>1. PICK order \in [1 .. Cardinality(Found(h)) -> Found(h)] :
            batch' = [batch EXCEPT ![h] =
              [i \in DOMAIN order |-> [source |-> order[i],
                                       dest |-> Target(order[i], dest[h]),
                                       op |-> OpOf(clip[h])]]]
      BY <1>5 DEF Build
    <2>2. \A i \in DOMAIN order : order[i] \in clip[h].items
      BY DEF Found
    <2>3. ASSUME NEW i \in DOMAIN batch'[h], batch'[h][i].op = "move"
          PROVE  batch'[h][i].source \in cut
      BY <2>1, <2>2, <2>3 DEF OpOf
    <2> QED
      BY <1>5, <2>1, <2>3 DEF Build
  <1>6. ASSUME NEW h \in Helpers, NEW op \in Operation, NEW items \in Selections,
               NEW d \in Dir, Drop(h, op, items, d)
        PROVE  Marked'
    <2>1. PICK order \in [1 .. Cardinality(items) -> items] :
            batch' = [batch EXCEPT ![h] =
              [i \in DOMAIN order |-> [source |-> order[i],
                                       dest |-> DropTarget(order[i], d), op |-> op]]]
      BY <1>6 DEF Drop
    <2>2. cut \subseteq cut' /\ (op = "move" => items \subseteq cut')
      BY <1>6 DEF Drop
    <2>3. ASSUME NEW i \in DOMAIN batch'[h], batch'[h][i].op = "move"
          PROVE  batch'[h][i].source \in cut'
      BY <2>1, <2>2, <2>3
    <2> QED
      BY <1>6, <2>1, <2>2, <2>3 DEF Drop
  <1>7. ASSUME NEW h \in Helpers, Enqueued(h) \/ EnqueueFails(h) PROVE Marked'
    BY ONLY <1>7, TypeInv, Marked, h \in Helpers, EnqueueMarked DEF Enqueued, EnqueueFails
  <1>8. CASE RunJob
    BY <1>8 DEF RunJob
  <1>9. CASE UNCHANGED vars
    BY <1>9 DEF vars
  <1> QED
    BY <1>1, <1>2, <1>3, <1>4, <1>5, <1>6, <1>7, <1>8, <1>9 DEF Next, Command, Step

LEMMA MarkedInvariant == Spec => [](TypeInv /\ Marked)
  <1>1. Init => TypeInv /\ Marked
    BY InitTypeInv, InitMarked
  <1>2. TypeInv /\ Marked /\ [Next]_vars => (TypeInv /\ Marked)'
    BY NextTypeInv, NextMarked
  <1> QED
    BY <1>1, <1>2, PTL DEF Spec

(* Every variable keeps its type; every target given to the daemon is a    *)
(* path of the directory it was pasted to.                                 *)
THEOREM ClipboardTypeCorrect == Spec => []TypeOK
  <1>1. TypeInv => TypeOK
    BY DEF TypeInv
  <1> QED
    BY <1>1, MarkedInvariant, PTL

(* Nothing is moved that was not cut, however saves of the clipboard and   *)
(* pastes interleave.                                                      *)
THEOREM OnlyCutCorrect == Spec => []OnlyCutIsMoved
  <1>1. Marked => OnlyCutIsMoved
    BY DEF Marked
  <1> QED
    BY <1>1, MarkedInvariant, PTL
-----------------------------------------------------------------------------
(* No content is lost                                                      *)

LEMMA InitKept == Init => KeptInv
  <1> SUFFICES ASSUME Init PROVE KeptInv
    OBVIOUS
  <1>1. jobs = <<>> /\ sent = <<>> /\ batch = [h \in Helpers |-> <<>>]
    BY DEF Init
  <1>2. ASSUME NEW o \in origin PROVE \E p \in Path : disk[p] = o
    <2>1. o \in Path /\ disk[o] = o
      BY DEF Init
    <2> QED
      BY <2>1
  <1> QED
    BY <1>1, <1>2, EmptySeq DEF KeptInv, QueueIsRest, TargetsFree, ContentKept

(* The daemon queues jobs of the batch: a target that is no longer free is *)
(* that of a job that was sent, and so the target of two.                  *)
LEMMA EnqueueKept ==
    ASSUME TypeInv, KeptInv, NEW h \in Helpers,
           NEW queued \in {<<>>, Accepted(batch[h]), Accepted(batch[h]) \o Accepted(batch[h])},
           jobs' = jobs \o queued, sent' = sent \o queued,
           batch' = [batch EXCEPT ![h] = <<>>],
           UNCHANGED <<disk, origin, forced>>
    PROVE  KeptInv'
  <1>1. /\ batch[h] \in Seq(Job) /\ jobs \in Seq(Job) /\ sent \in Seq(Job)
        /\ batch \in [Helpers -> Seq(Job)]
    BY DEF TypeInv, TypeOK
  <1>2. /\ queued \in Seq(Job)
        /\ \A m \in 1 .. Len(queued) : \E i \in 1 .. Len(batch[h]) : queued[m] = batch[h][i]
    BY ONLY <1>1, AcceptedIsOfBatch,
            queued \in {<<>>, Accepted(batch[h]), Accepted(batch[h]) \o Accepted(batch[h])}
  <1>3. Len(queued) \in Nat /\ Len(jobs) \in Nat /\ Len(sent) \in Nat
    BY ONLY <1>1, <1>2, LenProperties
  <1>4. /\ Len(jobs') = Len(jobs) + Len(queued)
        /\ \A i \in 1 .. Len(jobs) + Len(queued) :
             jobs'[i] = IF i <= Len(jobs) THEN jobs[i] ELSE queued[i - Len(jobs)]
    BY <1>1, <1>2, ConcatProperties
  <1>5. /\ sent' \in Seq(Job) /\ Len(sent') = Len(sent) + Len(queued)
        /\ \A i \in 1 .. Len(sent) + Len(queued) :
             sent'[i] = IF i <= Len(sent) THEN sent[i] ELSE queued[i - Len(sent)]
    BY <1>1, <1>2, ConcatProperties
  <1>6. DOMAIN sent = 1 .. Len(sent) /\ DOMAIN sent' = 1 .. Len(sent')
    BY <1>1, <1>5, LenProperties
  <1>7. Len(jobs) <= Len(sent)
        /\ \A i \in 1 .. Len(jobs) : jobs[i] = sent[Len(sent) - Len(jobs) + i]
    BY DEF KeptInv, QueueIsRest
  <1>8. QueueIsRest'
    <2>1. ASSUME NEW i \in 1 .. Len(jobs')
          PROVE  jobs'[i] = sent'[Len(sent') - Len(jobs') + i]
      BY <1>3, <1>4, <1>5, <1>7
    <2> QED
      BY <1>3, <1>4, <1>5, <1>7, <2>1 DEF QueueIsRest
  <1>9. Clash => Clash'
    <2> SUFFICES ASSUME Clash PROVE Clash'
      OBVIOUS
    <2>1. PICK i \in 1 .. Len(sent), k \in 1 .. Len(sent) : i # k /\ sent[i].dest = sent[k].dest
      BY <1>6 DEF Clash
    <2>2. i \in DOMAIN sent' /\ k \in DOMAIN sent' /\ sent'[i] = sent[i] /\ sent'[k] = sent[k]
      BY <1>3, <1>5, <1>6
    <2> QED
      BY <2>1, <2>2 DEF Clash
  <1>10. TargetsFree'
    <2> SUFFICES ASSUME ~forced, ~Clash'
                 PROVE  TargetsFree'
      BY DEF TargetsFree
    <2>1. /\ \A i \in 1 .. Len(jobs) : ~Exists(jobs[i].dest)
          /\ \A g \in Helpers : \A i \in 1 .. Len(batch[g]) :
               Exists(batch[g][i].dest) => Sent(batch[g][i].dest)
      BY <1>9 DEF KeptInv, TargetsFree
    <2>2. ASSUME NEW i \in 1 .. Len(jobs') PROVE ~Exists(jobs'[i].dest)
      <3>1. CASE i <= Len(jobs)
        BY <1>3, <1>4, <2>1, <3>1
      <3>2. CASE ~(i <= Len(jobs))
        <4> DEFINE m == i - Len(jobs)
        <4>1. m \in 1 .. Len(queued) /\ jobs'[i] = queued[m]
          BY <1>3, <1>4, <3>2
        <4>2. PICK k \in 1 .. Len(batch[h]) : queued[m] = batch[h][k]
          BY <1>2, <4>1
        <4>3. ASSUME Exists(queued[m].dest) PROVE FALSE
          <5>1. PICK n \in 1 .. Len(sent) : sent[n].dest = queued[m].dest
            BY <2>1, <4>2, <4>3 DEF Sent
          <5>2. /\ Len(sent) + m \in DOMAIN sent' /\ sent'[Len(sent) + m] = queued[m]
                /\ n \in DOMAIN sent' /\ sent'[n] = sent[n] /\ n # Len(sent) + m
            BY <1>3, <1>5, <1>6, <4>1
          <5>3. Clash'
            BY <5>1, <5>2 DEF Clash
          <5> QED
            BY <5>3
        <4> QED
          BY <4>1, <4>3
      <3> QED
        BY <3>1, <3>2
    <2>3. \A k \in 1 .. Len(sent) : k \in 1 .. Len(sent') /\ sent'[k] = sent[k]
      BY <1>3, <1>5
    <2>4. ASSUME NEW g \in Helpers, NEW i \in 1 .. Len(batch'[g]),
                 disk'[batch'[g][i].dest] # NoFile
          PROVE  \E k \in 1 .. Len(sent') : sent'[k].dest = batch'[g][i].dest
      <3>1. g # h
        <4>1. g = h => batch'[g] = <<>>
          BY <1>1
        <4> QED
          BY <4>1, EmptySeq
      <3>2. batch'[g] = batch[g]
        BY <1>1, <3>1
      <3> QED
        BY <2>1, <2>3, <2>4, <3>2 DEF Sent, Exists
    <2>5. ASSUME NEW i \in 1 .. Len(jobs') PROVE disk'[jobs'[i].dest] = NoFile
      BY <2>2 DEF Exists
    <2> QED
      BY <2>4, <2>5 DEF TargetsFree, Exists, Sent
  <1>11. ContentKept'
    BY <1>9 DEF KeptInv, ContentKept
  <1> QED
    BY <1>8, <1>10, <1>11 DEF KeptInv

(* The job at the head writes to a name that is free, which no other job   *)
(* in the queue is to use.                                                 *)
LEMMA RunKept ==
    ASSUME TypeInv, KeptInv, RunJob PROVE KeptInv'
  <1> DEFINE j == Head(jobs)
  <1>1. jobs \in Seq(Job) /\ sent \in Seq(Job) /\ jobs # <<>> /\ jobs' = Tail(jobs)
    BY DEF TypeInv, TypeOK, RunJob
  <1>2. /\ UNCHANGED <<sent, batch, origin, forced>> /\ disk' = Done(j)
        /\ disk \in [Path -> Path \cup {NoFile, Emptied}] /\ origin \subseteq Path
    BY DEF RunJob, TypeInv, TypeOK
  <1>3. /\ j \in Job /\ j = jobs[1] /\ Len(jobs') = Len(jobs) - 1
        /\ \A i \in 1 .. Len(jobs) - 1 : jobs'[i] = jobs[i + 1]
    BY <1>1, HeadTailProperties
  <1>4. Len(jobs) \in Nat /\ Len(jobs) >= 1 /\ Len(sent) \in Nat
        /\ DOMAIN sent = 1 .. Len(sent)
    BY <1>1, <1>3, LenProperties, EmptySeq
  <1>5. Len(jobs) <= Len(sent)
        /\ \A i \in 1 .. Len(jobs) : jobs[i] = sent[Len(sent) - Len(jobs) + i]
    BY DEF KeptInv, QueueIsRest
  <1>6. QueueIsRest'
    <2>1. ASSUME NEW i \in 1 .. Len(jobs')
          PROVE  jobs'[i] = sent'[Len(sent') - Len(jobs') + i]
      <3>1. i \in 1 .. Len(jobs) - 1 /\ i + 1 \in 1 .. Len(jobs)
        BY <1>3, <1>4
      <3>2. jobs'[i] = sent[Len(sent) - Len(jobs) + (i + 1)]
        BY <1>3, <1>5, <3>1
      <3>3. Len(sent) - Len(jobs) + (i + 1) = Len(sent) - Len(jobs') + i
        BY <1>3, <1>4
      <3>4. sent' = sent
        BY <1>2
      <3> QED
        BY ONLY <3>2, <3>3, <3>4
    <2>2. Len(jobs') <= Len(sent')
      <3>1. sent' = sent /\ Len(jobs') = Len(jobs) - 1
        BY <1>2, <1>3
      <3> QED
        BY ONLY <1>4, <1>5, <3>1
    <2> QED
      BY <2>1, <2>2 DEF QueueIsRest
  <1>7. CASE forced \/ Clash
    BY <1>2, <1>6, <1>7 DEF KeptInv, TargetsFree, ContentKept, Clash
  <1>8. CASE ~forced /\ ~Clash
    <2>1. /\ \A i \in 1 .. Len(jobs) : ~Exists(jobs[i].dest)
          /\ \A h \in Helpers : \A i \in 1 .. Len(batch[h]) :
               Exists(batch[h][i].dest) => Sent(batch[h][i].dest)
          /\ \A o \in origin : \E p \in Path : disk[p] = o
      BY <1>8 DEF KeptInv, TargetsFree, ContentKept
    <2>2. ~Exists(j.dest) /\ Sent(j.dest)
      <3>1. 1 \in 1 .. Len(jobs) /\ Len(sent) - Len(jobs) + 1 \in 1 .. Len(sent)
        BY <1>4, <1>5
      <3>2. sent[Len(sent) - Len(jobs) + 1] = j
        BY <1>3, <1>5, <3>1
      <3> QED
        BY <1>3, <2>1, <3>1, <3>2 DEF Sent
    <2>3. ASSUME NEW i \in 1 .. Len(jobs') PROVE jobs'[i].dest # j.dest /\ ~Exists(jobs'[i].dest)
      <3> DEFINE a == Len(sent) - Len(jobs) + 1
                 b == Len(sent) - Len(jobs) + (i + 1)
      <3>1. /\ a \in DOMAIN sent /\ b \in DOMAIN sent /\ a # b
            /\ 1 \in 1 .. Len(jobs) /\ i + 1 \in 1 .. Len(jobs)
        BY <1>3, <1>4, <1>5
      <3>2. sent[a] = j /\ sent[b] = jobs[i + 1] /\ jobs'[i] = jobs[i + 1]
        BY <1>3, <1>4, <1>5, <3>1
      <3>3. sent[a].dest # sent[b].dest
        BY <1>8, <3>1 DEF Clash
      <3> QED
        BY <2>1, <3>1, <3>2, <3>3
    <2>4. j.source \in Path /\ j.dest \in Path
      BY <1>3 DEF Job
    <2>5. ASSUME NEW p \in Path, p # j.dest, ~Exists(p) PROVE disk'[p] = NoFile
      BY <1>2, <2>4, <2>5 DEF Done, Exists
    <2>6. ASSUME NEW o \in origin PROVE \E p \in Path : disk'[p] = o
      <3>1. PICK p \in Path : disk[p] = o
        BY <2>1
      <3>2. p # j.dest
        BY <1>2, <2>2, <3>1, NoFileIsNoPath DEF Exists
      <3>3. CASE p = j.source
        <4>1. Exists(j.source) /\ j.source # j.dest
          BY <1>2, <3>1, <3>2, <3>3, NoFileIsNoPath DEF Exists
        <4>2. disk'[j.dest] = o
          BY <1>2, <2>4, <3>1, <3>3, <4>1 DEF Done
        <4> QED
          BY <2>4, <4>2
      <3>4. CASE p # j.source
        <4>1. disk'[p] = disk[p]
          BY <1>2, <2>4, <3>2, <3>4 DEF Done
        <4> QED
          BY <3>1, <4>1
      <3> QED
        BY <3>3, <3>4
    <2>7. ASSUME NEW i \in 1 .. Len(jobs') PROVE disk'[jobs'[i].dest] = NoFile
      <3>1. jobs'[i].dest \in Path
        <4>1. i + 1 \in 1 .. Len(jobs) /\ jobs'[i] = jobs[i + 1]
          BY <1>3, <1>4
        <4>2. jobs[i + 1] \in Job
          BY <1>1, <4>1, ElementOfSeq
        <4> QED
          BY <4>1, <4>2 DEF Job
      <3> QED
        BY <2>3, <2>5, <3>1
    <2>8. ASSUME NEW h \in Helpers, NEW i \in 1 .. Len(batch[h]),
                 disk'[batch[h][i].dest] # NoFile
          PROVE  Sent(batch[h][i].dest)
      <3>1. batch[h][i].dest \in Path
        <4>1. batch[h] \in Seq(Job)
          BY DEF TypeInv, TypeOK
        <4>2. batch[h][i] \in Job
          BY <4>1, ElementOfSeq
        <4> QED
          BY <4>2 DEF Job
      <3>2. CASE batch[h][i].dest = j.dest
        BY <2>2, <3>2
      <3>3. CASE batch[h][i].dest # j.dest
        BY <2>1, <2>5, <2>8, <3>1, <3>3
      <3> QED
        BY <3>2, <3>3
    <2> QED
      BY <1>2, <1>6, <2>6, <2>7, <2>8 DEF KeptInv, TargetsFree, ContentKept, Exists, Sent
  <1> QED
    BY <1>7, <1>8

LEMMA NextKept == TypeInv /\ KeptInv /\ [Next]_vars => KeptInv'
  <1> SUFFICES ASSUME TypeInv, KeptInv, [Next]_vars PROVE KeptInv'
    OBVIOUS
  <1>1. ASSUME UNCHANGED <<disk, batch, jobs, origin, sent>>, forced' = forced
        PROVE  KeptInv'
    BY <1>1 DEF KeptInv, QueueIsRest, TargetsFree, ContentKept, Clash, Sent, Exists
  <1>2. ASSUME NEW h \in Helpers, NEW new, batch' = [batch EXCEPT ![h] = new],
               forced' \/ \A i \in 1 .. Len(new) : ~Exists(new[i].dest),
               forced => forced', UNCHANGED <<disk, jobs, origin, sent>>
        PROVE  KeptInv'
    <2>1. QueueIsRest' /\ ContentKept'
      BY <1>2 DEF KeptInv, QueueIsRest, ContentKept, Clash
    <2>2. ASSUME ~forced', ~Clash, NEW g \in Helpers, NEW i \in 1 .. Len(batch'[g]),
                 Exists(batch'[g][i].dest)
          PROVE  Sent(batch'[g][i].dest)
      <3>1. CASE g = h
        <4>1. batch'[g] = new
          BY <1>2, <3>1 DEF TypeInv, TypeOK
        <4> QED
          BY <1>2, <2>2, <4>1
      <3>2. CASE g # h
        <4>1. batch'[g] = batch[g]
          BY <1>2, <3>2 DEF TypeInv, TypeOK
        <4> QED
          BY <1>2, <2>2, <4>1 DEF KeptInv, TargetsFree
      <3> QED
        BY <3>1, <3>2
    <2>3. TargetsFree'
      BY <1>2, <2>2 DEF KeptInv, TargetsFree, Clash, Sent, Exists
    <2> QED
      BY <2>1, <2>3 DEF KeptInv
  <1>3. ASSUME NEW h \in Helpers, Build(h) PROVE KeptInv'
    <2>1. PICK order \in [1 .. Cardinality(Found(h)) -> Found(h)] :
            batch' = [batch EXCEPT ![h] =
              [i \in DOMAIN order |-> [source |-> order[i],
                                       dest |-> Target(order[i], dest[h]),
                                       op |-> OpOf(clip[h])]]]
      BY <1>3 DEF Build
    <2> DEFINE new == [i \in DOMAIN order |-> [source |-> order[i],
                                               dest |-> Target(order[i], dest[h]),
                                               op |-> OpOf(clip[h])]]
    <2>2. Found(h) \subseteq Short /\ IsFiniteSet(Found(h)) /\ dest[h] \in Dir
      BY FS_Subset DEF Found, TypeInv, TypeOK, Selected, Pasteable
    <2>3. DOMAIN order = 1 .. Cardinality(Found(h)) /\ Cardinality(Found(h)) \in Nat
      BY <2>2, FS_CardinalityType
    <2>4. Len(new) = Cardinality(Found(h))
      BY <2>3
    <2>5. ASSUME ~forced', NEW i \in 1 .. Len(new) PROVE ~Exists(new[i].dest)
      <3>1. order[i] \in Found(h) /\ order[i] \in Short /\ i \in DOMAIN order
        BY <2>2, <2>3, <2>4
      <3>2. ~Forced(order[i], dest[h])
        BY <1>3, <2>5, <3>1, Zenon DEF Build
      <3>3. ~Exists(Target(order[i], dest[h]))
        BY <2>2, <3>1, <3>2, TargetProperties
      <3> QED
        BY <3>1, <3>3
    <2>6. (forced => forced') /\ UNCHANGED <<disk, jobs, origin, sent>>
      BY <1>3, Zenon DEF Build
    <2> HIDE DEF new
    <2> QED
      BY <1>2, <2>1, <2>5, <2>6 DEF new
  <1>4. ASSUME NEW h \in Helpers, NEW op \in Operation, NEW items \in Selections,
               NEW d \in Dir, Drop(h, op, items, d)
        PROVE  KeptInv'
    <2>1. PICK order \in [1 .. Cardinality(items) -> items] :
            batch' = [batch EXCEPT ![h] =
              [i \in DOMAIN order |-> [source |-> order[i],
                                       dest |-> DropTarget(order[i], d), op |-> op]]]
      BY <1>4 DEF Drop
    <2> DEFINE new == [i \in DOMAIN order |-> [source |-> order[i],
                                               dest |-> DropTarget(order[i], d), op |-> op]]
    <2>2. DOMAIN order = 1 .. Cardinality(items) /\ Cardinality(items) \in Nat
      BY SelectionIsPasteable, FS_CardinalityType DEF TypeInv
    <2>3. Len(new) = Cardinality(items)
      BY <2>2
    <2>4. ASSUME ~forced', NEW i \in 1 .. Len(new) PROVE ~Exists(new[i].dest)
      <3>1. order[i] \in items /\ i \in DOMAIN order
        BY <2>2, <2>3
      <3>2. ~Exists(DropTarget(order[i], d))
        BY <1>4, <2>4, <3>1, Zenon DEF Drop
      <3> QED
        BY <3>1, <3>2
    <2>5. (forced => forced') /\ UNCHANGED <<disk, jobs, origin, sent>>
      BY <1>4, Zenon DEF Drop
    <2> HIDE DEF new
    <2> QED
      BY <1>2, <2>1, <2>4, <2>5 DEF new
  <1>5. ASSUME NEW h \in Helpers, Enqueued(h) \/ EnqueueFails(h) PROVE KeptInv'
    BY ONLY <1>5, TypeInv, KeptInv, h \in Helpers, EnqueueKept DEF Enqueued, EnqueueFails
  <1>6. CASE RunJob
    BY <1>6, RunKept
  <1>7. ASSUME NEW h \in Helpers, Truncate(h) \/ Write(h) \/ \E d \in Dir : Paste(h, d)
        PROVE  KeptInv'
    BY <1>1, <1>7 DEF Truncate, Write, Paste
  <1>8. ASSUME NEW h \in Helpers, NEW op, NEW items, Mark(h, op, items) PROVE KeptInv'
    BY <1>1, <1>8 DEF Mark
  <1>9. CASE UNCHANGED vars
    BY <1>1, <1>9 DEF vars
  <1> QED
    BY <1>3, <1>4, <1>5, <1>6, <1>7, <1>8, <1>9 DEF Next, Command, Step

(* What was in a file is in some file, whatever processes and jobs do at   *)
(* the same time, as long as no two jobs share a target and every target   *)
(* was free when it was chosen.                                            *)
THEOREM ContentCorrect == Spec => []ContentKept
  <1>1. Init => TypeInv /\ KeptInv
    BY InitTypeInv, InitKept
  <1>2. TypeInv /\ KeptInv /\ [Next]_vars => (TypeInv /\ KeptInv)'
    BY NextTypeInv, NextKept
  <1>3. KeptInv => ContentKept
    BY DEF KeptInv
  <1> QED
    BY <1>1, <1>2, <1>3, PTL DEF Spec
=============================================================================
