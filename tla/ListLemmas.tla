----------------------------- MODULE ListLemmas -----------------------------
(***************************************************************************)
(* Facts about sequences and about the least element of a set of numbers   *)
(* that the proofs of several modules cite.                                *)
(***************************************************************************)
EXTENDS Counting, SequencesExt, SequenceTheorems, FiniteSetTheorems, FunctionTheorems, TLAPS

LEMMA MinIsMember ==
    ASSUME NEW S, S \subseteq Nat, S # {}
    PROVE  Min(S) \in S /\ \A i \in S : Min(S) <= i
  <1> DEFINE Below == {0 .. n : n \in S}
  <1>1. Below \subseteq FiniteSubsetsOf(Nat) /\ Below # {}
    <2>1. ASSUME NEW n \in S PROVE IsFiniteSet(0 .. n) /\ 0 .. n \subseteq Nat
      BY FS_Interval
    <2> QED
      BY <2>1 DEF FiniteSubsetsOf
  <1>2. PICK X \in Below : \A Y \in Below : <<Y, X>> \notin StrictSubsetOrdering(Nat)
    BY ONLY <1>1, FS_StrictSubsetOrderingWellFounded, WFMin
  <1>3. PICK x \in S : X = 0 .. x
    OBVIOUS
  <1>4. ASSUME NEW y \in S, ~(x <= y) PROVE FALSE
    <2>1. /\ 0 .. y \subseteq 0 .. x /\ 0 .. y # 0 .. x
          /\ 0 .. y \subseteq Nat /\ 0 .. x \subseteq Nat
      BY <1>4
    <2>2. <<0 .. y, X>> \in StrictSubsetOrdering(Nat)
      BY <1>3, <2>1 DEF StrictSubsetOrdering
    <2> QED
      BY <1>2, <2>2
  <1> QED
    BY <1>4 DEF Min

(* Induction up to a number, over the set of numbers for which a fact      *)
(* holds.                                                                  *)
LEMMA UpTo ==
    ASSUME NEW n \in Nat, NEW P, P \subseteq 0 .. n, 0 \in P,
           \A i \in P : i < n => i + 1 \in P
    PROVE  P = 0 .. n
  <1> DEFINE R == (0 .. n) \ P
  <1>1. CASE R = {}
    BY <1>1
  <1>2. CASE R # {}
    <2>1. R \subseteq Nat
      OBVIOUS
    <2>2. Min(R) \in R /\ \A i \in R : Min(R) <= i
      BY ONLY <1>2, <2>1, MinIsMember
    <2> DEFINE m == Min(R)
    <2>3. m \in 0 .. n /\ m \notin P /\ \A i \in R : m <= i
      BY <2>2
    <2> HIDE DEF m
    <2>4. m - 1 \in 0 .. n /\ m - 1 \notin R /\ m - 1 < n /\ m - 1 + 1 = m
      BY <2>3
    <2> QED
      BY <2>3, <2>4
  <1> QED
    BY <1>1, <1>2

LEMMA PrefixProperties ==
    ASSUME NEW S, NEW s \in Seq(S), NEW n \in 0 .. Len(s)
    PROVE  /\ SubSeq(s, 1, n) \in Seq(S)
           /\ Len(SubSeq(s, 1, n)) = n
           /\ \A i \in 1 .. n : SubSeq(s, 1, n)[i] = s[i]
  BY SubSeqProperties, ElementOfSeq
(* Counting in the lists a program builds.                                 *)
LEMMA PlacesProperties ==
    ASSUME NEW S, NEW s \in Seq(S), NEW X
    PROVE  /\ Places(s, X) \subseteq 1 .. Len(s)
           /\ IsFiniteSet(Places(s, X))
           /\ Count(s, X) \in Nat /\ Count(s, X) <= Len(s)
  <1>1. Places(s, X) \subseteq 1 .. Len(s) /\ Len(s) \in Nat
    BY LenProperties DEF Places
  <1>2. IsFiniteSet(1 .. Len(s)) /\ Cardinality(1 .. Len(s)) = Len(s)
    <2>1. /\ IsFiniteSet(1 .. Len(s))
          /\ Cardinality(1 .. Len(s)) = IF 1 > Len(s) THEN 0 ELSE Len(s) - 1 + 1
      BY ONLY <1>1, FS_Interval
    <2> QED
      BY ONLY <1>1, <2>1
  <1>3. IsFiniteSet(Places(s, X)) /\ Cardinality(Places(s, X)) <= Len(s)
    BY <1>1, <1>2, FS_Subset
  <1> QED
    BY <1>1, <1>3, FS_CardinalityType DEF Count

LEMMA CountEmpty == ASSUME NEW X PROVE Count(<<>>, X) = 0
  BY FS_EmptySet DEF Count, Places

(* A set of numbers keeps its size when it is shifted.                     *)
LEMMA ShiftedSize ==
    ASSUME NEW A, A \subseteq Nat, IsFiniteSet(A), NEW d \in Nat,
           NEW B, B = {i + d : i \in A}
    PROVE  IsFiniteSet(B) /\ Cardinality(B) = Cardinality(A)
  <1> DEFINE f == [i \in A |-> i + d]
  <1>1. f \in Bijection(A, B)
    <2>1. f \in [A -> B]
      OBVIOUS
    <2>2. \A a, b \in A : f[a] = f[b] => a = b
      OBVIOUS
    <2>3. \A t \in B : \E a \in A : f[a] = t
      OBVIOUS
    <2> QED
      BY <2>1, <2>2, <2>3, Fun_IsBij
  <1>2. ExistsBijection(A, B)
    BY ONLY <1>1 DEF ExistsBijection
  <1> QED
    BY ONLY <1>2, IsFiniteSet(A), FS_Bijection

LEMMA CountConcat ==
    ASSUME NEW S, NEW s \in Seq(S), NEW t \in Seq(S), NEW X
    PROVE  Count(s \o t, X) = Count(s, X) + Count(t, X)
  <1>1. /\ s \o t \in Seq(S) /\ Len(s \o t) = Len(s) + Len(t)
        /\ \A i \in 1 .. Len(s) + Len(t) :
             (s \o t)[i] = IF i <= Len(s) THEN s[i] ELSE t[i - Len(s)]
        /\ Len(s) \in Nat /\ Len(t) \in Nat
        /\ DOMAIN s = 1 .. Len(s) /\ DOMAIN t = 1 .. Len(t)
        /\ DOMAIN (s \o t) = 1 .. Len(s) + Len(t)
    BY ConcatProperties, LenProperties
  <1> DEFINE B == {i + Len(s) : i \in Places(t, X)}
  <1>2. Places(s \o t, X) = Places(s, X) \cup B
    <2>1. ASSUME NEW i \in Places(s \o t, X) PROVE i \in Places(s, X) \cup B
      <3>1. i \in 1 .. Len(s) + Len(t) /\ (s \o t)[i] \in X
        BY <1>1 DEF Places
      <3>2. CASE i <= Len(s)
        BY <1>1, <3>1, <3>2 DEF Places
      <3>3. CASE ~(i <= Len(s))
        <4>1. i - Len(s) \in 1 .. Len(t) /\ (i - Len(s)) + Len(s) = i
          BY <1>1, <3>1, <3>3
        <4>2. t[i - Len(s)] \in X
          BY <1>1, <3>1, <3>3
        <4>3. i - Len(s) \in Places(t, X)
          BY <1>1, <4>1, <4>2 DEF Places
        <4> QED
          BY <4>1, <4>3
      <3> QED
        BY <3>2, <3>3
    <2>2. ASSUME NEW i \in Places(s, X) PROVE i \in Places(s \o t, X)
      <3>1. i \in 1 .. Len(s) /\ s[i] \in X
        BY <1>1 DEF Places
      <3>2. i \in 1 .. Len(s) + Len(t) /\ (s \o t)[i] = s[i]
        BY <1>1, <3>1
      <3> QED
        BY <1>1, <3>1, <3>2 DEF Places
    <2>3. ASSUME NEW k \in Places(t, X) PROVE k + Len(s) \in Places(s \o t, X)
      <3>1. k \in 1 .. Len(t) /\ t[k] \in X
        BY <1>1 DEF Places
      <3>2. k + Len(s) \in 1 .. Len(s) + Len(t) /\ ~(k + Len(s) <= Len(s))
            /\ (k + Len(s)) - Len(s) = k
        BY <1>1, <3>1
      <3>3. (s \o t)[k + Len(s)] = t[k]
        BY <1>1, <3>2
      <3> QED
        BY <1>1, <3>1, <3>2, <3>3 DEF Places
    <2> QED
      BY <2>1, <2>2, <2>3
  <1>3. /\ IsFiniteSet(Places(s, X)) /\ IsFiniteSet(Places(t, X))
        /\ Places(s, X) \subseteq 1 .. Len(s) /\ Places(t, X) \subseteq 1 .. Len(t)
    BY PlacesProperties
  <1>4. IsFiniteSet(B) /\ Cardinality(B) = Cardinality(Places(t, X))
    BY <1>1, <1>3, ShiftedSize
  <1>5. Places(s, X) \cap B = {}
    BY <1>1, <1>3
  <1>6. /\ Cardinality(Places(s, X)) \in Nat /\ Cardinality(B) \in Nat
        /\ Cardinality(Places(s, X) \cap B) = 0
    BY <1>3, <1>4, <1>5, FS_CardinalityType, FS_EmptySet
  <1>7. Cardinality(Places(s, X) \cup B)
          = Cardinality(Places(s, X)) + Cardinality(B) - Cardinality(Places(s, X) \cap B)
    BY <1>3, <1>4, FS_Union
  <1> QED
    BY <1>2, <1>4, <1>6, <1>7 DEF Count

LEMMA CountOne ==
    ASSUME NEW e, NEW X PROVE Count(<<e>>, X) = IF e \in X THEN 1 ELSE 0
  <1>1. DOMAIN <<e>> = {1} /\ <<e>>[1] = e
    OBVIOUS
  <1>2. Places(<<e>>, X) = IF e \in X THEN {1} ELSE {}
    BY <1>1 DEF Places
  <1> QED
    BY <1>2, FS_Singleton, FS_EmptySet DEF Count

LEMMA CountAppend ==
    ASSUME NEW S, NEW s \in Seq(S), NEW e \in S, NEW X
    PROVE  Count(Append(s, e), X) = Count(s, X) + IF e \in X THEN 1 ELSE 0
  <1>1. Append(s, e) = s \o <<e>> /\ <<e>> \in Seq(S)
    BY AppendIsConcat
  <1>2. Count(s \o <<e>>, X) = Count(s, X) + Count(<<e>>, X)
    BY ONLY <1>1, s \in Seq(S), CountConcat
  <1> QED
    BY <1>1, <1>2, CountOne

LEMMA CountTail ==
    ASSUME NEW S, NEW s \in Seq(S), s # <<>>, NEW X
    PROVE  Count(s, X) = Count(Tail(s), X) + IF Head(s) \in X THEN 1 ELSE 0
  <1>1. s = <<Head(s)>> \o Tail(s) /\ Tail(s) \in Seq(S) /\ Head(s) \in S
    BY HeadTailProperties
  <1>2. Count(Tail(s), X) \in Nat
    BY <1>1, PlacesProperties
  <1>3. Count(s, X) = Count(<<Head(s)>>, X) + Count(Tail(s), X)
    <2>1. <<Head(s)>> \in Seq(S)
      BY <1>1
    <2>2. Count(<<Head(s)>> \o Tail(s), X) = Count(<<Head(s)>>, X) + Count(Tail(s), X)
      BY ONLY <1>1, <2>1, CountConcat
    <2> QED
      BY <1>1, <2>2
  <1> QED
    BY <1>2, <1>3, CountOne

(* Nothing is counted in a list without such members.                      *)
LEMMA CountZero ==
    ASSUME NEW S, NEW s \in Seq(S), NEW X
    PROVE  Count(s, X) = 0 <=> \A i \in 1 .. Len(s) : s[i] \notin X
  <1>1. IsFiniteSet(Places(s, X)) /\ DOMAIN s = 1 .. Len(s)
    BY PlacesProperties, LenProperties
  <1>2. Count(s, X) = 0 <=> Places(s, X) = {}
    BY <1>1, FS_EmptySet DEF Count
  <1> QED
    BY <1>1, <1>2 DEF Places
LEMMA CountMonotone ==
    ASSUME NEW S, NEW s \in Seq(S), NEW X, NEW Y, X \subseteq Y
    PROVE  Count(s, X) <= Count(s, Y)
  <1>1. IsFiniteSet(Places(s, Y)) /\ Places(s, X) \in SUBSET Places(s, Y)
    BY PlacesProperties DEF Places
  <1> QED
    BY ONLY <1>1, FS_Subset DEF Count

(* A list taken apart at one of its places.                                *)
LEMMA CountSplit ==
    ASSUME NEW S, NEW s \in Seq(S), NEW k \in 1 .. Len(s), NEW X
    PROVE  /\ SubSeq(s, 1, k - 1) \in Seq(S) /\ Len(SubSeq(s, 1, k - 1)) = k - 1
           /\ \A i \in 1 .. k - 1 : SubSeq(s, 1, k - 1)[i] = s[i]
           /\ SubSeq(s, k + 1, Len(s)) \in Seq(S)
           /\ Count(s, X) = Count(SubSeq(s, 1, k - 1), X)
                            + Count(Append(SubSeq(s, k + 1, Len(s)), s[k]), X)
  <1> DEFINE before == SubSeq(s, 1, k - 1)
             after  == SubSeq(s, k + 1, Len(s))
  <1>1. Len(s) \in Nat /\ s[k] \in S /\ k \in Nat
    BY LenProperties, ElementOfSeq
  <1>2. k - 1 \in 0 .. Len(s)
    BY <1>1
  <1>3. /\ before \in Seq(S) /\ Len(before) = k - 1
        /\ \A i \in 1 .. k - 1 : before[i] = s[i]
    BY ONLY <1>2, s \in Seq(S), PrefixProperties
  <1>4. after \in Seq(S)
    <2>1. \A i \in k + 1 .. Len(s) : s[i] \in S
      BY <1>1, ElementOfSeq
    <2> QED
      BY <1>1, <2>1, SubSeqProperties
  <1>5. s = before \o SubSeq(s, k, Len(s))
    <2>1. before \o SubSeq(s, k - 1 + 1, Len(s)) = SubSeq(s, 1, Len(s))
      <3>1. 1 \in 1 .. Len(s) + 1 /\ k - 1 \in 1 - 1 .. Len(s) /\ Len(s) \in k - 1 .. Len(s)
        BY <1>1
      <3> QED
        BY ONLY <3>1, s \in Seq(S), ConcatAdjacentSubSeq
    <2>2. k - 1 + 1 = k
      BY <1>1
    <2> QED
      BY <2>1, <2>2, SubSeqFull
  <1>6. SubSeq(s, k, Len(s)) = <<s[k]>> \o after
    <2>1. k \in 1 .. Len(s) /\ Len(s) \in k .. Len(s)
      BY <1>1
    <2> QED
      BY ONLY <2>1, s \in Seq(S), SubSeqRecursiveFirst
  <1> HIDE DEF before, after
  <1>7. <<s[k]>> \in Seq(S) /\ <<s[k]>> \o after \in Seq(S)
    <2>1. <<s[k]>> \in Seq(S)
      BY <1>1
    <2> QED
      BY ONLY <1>4, <2>1, ConcatProperties
  <1>8. Count(s, X) = Count(before, X) + Count(<<s[k]>> \o after, X)
    <2>1. s = before \o (<<s[k]>> \o after)
      BY ONLY <1>5, <1>6
    <2>2. Count(before \o (<<s[k]>> \o after), X) = Count(before, X) + Count(<<s[k]>> \o after, X)
      BY ONLY <1>3, <1>7, CountConcat
    <2> QED
      BY ONLY <2>1, <2>2
  <1>9. Count(<<s[k]>> \o after, X) = Count(<<s[k]>>, X) + Count(after, X)
    BY ONLY <1>4, <1>7, CountConcat
  <1>10. Count(Append(after, s[k]), X) = Count(after, X) + IF s[k] \in X THEN 1 ELSE 0
    BY ONLY <1>1, <1>4, CountAppend
  <1>11. Count(<<s[k]>>, X) = IF s[k] \in X THEN 1 ELSE 0
    BY CountOne
  <1>12. Count(after, X) \in Nat
    BY ONLY <1>4, PlacesProperties
  <1>13. Count(<<s[k]>> \o after, X) = Count(Append(after, s[k]), X)
    BY ONLY <1>9, <1>10, <1>11, <1>12
  <1>14. Count(s, X) = Count(before, X) + Count(Append(after, s[k]), X)
    BY ONLY <1>8, <1>13
  <1> QED
    BY ONLY <1>3, <1>4, <1>14 DEF before, after
=============================================================================
