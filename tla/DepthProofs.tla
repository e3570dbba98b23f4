------------------------------ MODULE DepthProofs ------------------------------
(***************************************************************************)
(* Proofs about the depth ingestor, its session and the segments it writes *)
(* to, for any events, any snapshots and any sizes of the buffer, the      *)
(* queue, the budgets and a segment.                                       *)
(*                                                                         *)
(* First, folds.  The model folds a step over the events of a buffer or    *)
(* the envelopes of a chain; FoldLeft is the value of the one function     *)
(* that adds up the elements of every set of indices, the last one last.   *)
(* That there is one (FoldsExist), and what it gives for one element more  *)
(* (FoldRecursion), is shown by looking at a smallest set of indices, or a *)
(* shortest sequence, for which it is not so.  A step is passed as a       *)
(* function, since a lemma cannot be used for an operator.                 *)
(*                                                                         *)
(* Then what the folds keep: recording extends a chain, a book that takes  *)
(* one accepted event after the other stays whole, and the validator of a  *)
(* replay stands at the last event it applied.                             *)
(*                                                                         *)
(* Then the ingestor: DepthInvariant is kept by every call (Keeps), and a  *)
(* call never takes from the sink.                                         *)
(*                                                                         *)
(* Then the session: Aligned says what its ingestor keeps besides; Pipes   *)
(* and InOrder where the tasks can be and that the sentinel comes last;    *)
(* Flow where the last event of the connection is, with the producer, in   *)
(* the queue or in the ingestor.                                           *)
(*                                                                         *)
(* Last the segments of the envelopes: SegmentsInv says how far the disk   *)
(* may be ahead of the manifest, by one line or by one file with no more   *)
(* than one line.                                                          *)
(***************************************************************************)
EXTENDS DepthSession, MarketSegments, WellFoundedInduction, SequenceTheorems, TLAPS

-----------------------------------------------------------------------------
(* Induction over sets of data *)

\* A set of naturals that is not empty has a smallest element.
LEMMA LeastNat ==
    ASSUME NEW S, S \subseteq Nat, S # {}
    PROVE  \E n \in S : \A m \in S : n <= m
<1>1. PICK n \in S : \A m \in S : ~ (<<m, n>> \in OpToRel(<, Nat))
  BY NatLessThanWellFounded, WFMin
<1>2. ASSUME NEW m \in S PROVE n <= m
  <2>1. m \in Nat /\ n \in Nat
    OBVIOUS
  <2>2. ~ m < n
    BY <1>1, <2>1 DEF OpToRel
  <2> QED BY <2>1, <2>2
<1> QED BY <1>2

\* Some numbers of a finite range have a last one among them.
LEMMA MaxOf ==
    ASSUME NEW n \in Nat, NEW t, t \subseteq 0 .. n, t # {}
    PROVE  /\ Max(t) \in t
           /\ \A i \in t : i <= Max(t)
<1> DEFINE S == {n - i : i \in t}
<1>1. S \subseteq Nat /\ S # {}
  <2>1. \A i \in 0 .. n : n - i \in Nat
    OBVIOUS
  <2> QED BY <2>1
<1>2. PICK k \in S : \A m \in S : k <= m
  BY <1>1, LeastNat
<1>3. PICK j \in t : k = n - j
  OBVIOUS
<1>4. \A i \in t : j >= i
  <2>1. ASSUME NEW i \in t PROVE j >= i
    <3>1. n - i \in S
      OBVIOUS
    <3>2. n - j <= n - i
      BY <1>2, <1>3, <3>1
    <3>3. i \in Nat /\ j \in Nat
      OBVIOUS
    <3> QED BY <3>2, <3>3
  <2> QED BY <2>1
<1>5. Max(t) \in t /\ \A i \in t : Max(t) >= i
  BY <1>3, <1>4 DEF Max
<1> QED BY <1>5

LEMMA MaxIn ==
    ASSUME NEW n \in Nat, NEW t, t \subseteq 1 .. n, t # {}
    PROVE  /\ Max(t) \in t
           /\ \A i \in t : i <= Max(t)
<1>1. t \subseteq 0 .. n
  OBVIOUS
<1> QED BY <1>1, MaxOf

\* What holds of no index and is carried from a set without its last index to the
\* set holds of every set of indices.
LEMMA IndexInduction ==
    ASSUME NEW n \in Nat, NEW S, {} \in S,
           \A t \in SUBSET (1 .. n) : t # {} /\ t \ {Max(t)} \in S => t \in S
    PROVE  SUBSET (1 .. n) \subseteq S
<1> DEFINE B == {m \in 0 .. n : \E t \in SUBSET (1 .. m) : t \notin S}
<1>1. SUFFICES ASSUME NEW u \in SUBSET (1 .. n), u \notin S PROVE FALSE
  OBVIOUS
<1>2. n \in B /\ B \subseteq Nat
  BY <1>1
<1> HIDE DEF B
<1>3. PICK m \in B : \A k \in B : m <= k
  BY <1>2, LeastNat
<1>4. m \in 0 .. n
  BY DEF B
<1>5. PICK t \in SUBSET (1 .. m) : t \notin S
  BY DEF B
<1>6. t # {} /\ t \in SUBSET (1 .. n)
  <2>1. \A i \in 1 .. m : i \in 1 .. n
    BY <1>4
  <2> QED BY <1>5, <2>1
<1>7. Max(t) \in t /\ \A i \in t : i <= Max(t)
  <2>1. t \subseteq 1 .. n /\ t # {}
    BY <1>6
  <2> QED BY <2>1, MaxIn
<1>8. PICK x \in 1 .. m : x = Max(t)
  BY <1>5, <1>7
<1>9. t \ {x} \in SUBSET (1 .. x - 1)
  <2>1. ASSUME NEW i \in t, i # x PROVE i \in 1 .. x - 1
    <3>1. i <= x /\ i \in 1 .. m
      BY <1>5, <1>7, <1>8
    <3> QED BY <1>4, <2>1, <3>1
  <2> QED BY <2>1
<1>10. x - 1 \notin B
  BY <1>3, <1>4, <1>8
<1>11. x - 1 \in 0 .. n
  BY <1>4, <1>8
<1>12. t \ {x} \in S
  BY <1>9, <1>10, <1>11 DEF B
<1> QED BY <1>5, <1>6, <1>8, <1>12

\* What holds of the empty sequence and is carried on by an element holds of every
\* sequence.
LEMMA SeqInduction ==
    ASSUME NEW E, NEW S, <<>> \in S,
           \A s \in Seq(E), e \in E : s \in S => Append(s, e) \in S
    PROVE  Seq(E) \subseteq S
<1> DEFINE B == {n \in Nat : \E s \in Seq(E) : Len(s) = n /\ s \notin S}
<1>1. SUFFICES ASSUME NEW u \in Seq(E), u \notin S PROVE FALSE
  OBVIOUS
<1>2. Len(u) \in B /\ B \subseteq Nat
  BY <1>1
<1> HIDE DEF B
<1>3. PICK m \in B : \A k \in B : m <= k
  BY <1>2, LeastNat
<1>4. PICK s \in Seq(E) : Len(s) = m /\ s \notin S
  BY DEF B
<1>5. m \in Nat /\ m # 0
  BY <1>4, EmptySeq DEF B
<1>6. PICK r \in Seq(E), e \in E : s = Append(r, e) /\ Len(r) = m - 1
  <2>1. SubSeq(s, 1, m - 1) \in Seq(E) /\ s[m] \in E /\ Len(SubSeq(s, 1, m - 1)) = m - 1
    BY <1>4, <1>5
  <2>2. s = Append(SubSeq(s, 1, m - 1), s[m])
    BY <1>4, <1>5
  <2> QED BY <2>1, <2>2
<1>7. m - 1 \notin B
  BY <1>3, <1>5
<1>8. r \in S
  BY <1>5, <1>6, <1>7 DEF B
<1> QED BY <1>4, <1>6, <1>8

-----------------------------------------------------------------------------
(* Folds *)

StepOn(g, A, E) == g \in [A -> [E -> A]]
ValuesIn(h, A, s) == h \in [SUBSET DOMAIN s -> A]

\* h folds the function g over every subset of the indices of s, the last index
\* last.
Folds(g, b, s, h) ==
    h = [t \in SUBSET DOMAIN s |->
            IF t = {} THEN b ELSE g[h[t \ {Max(t)}]][s[Max(t)]]]

Folded(g, b, s) == (CHOOSE h : Folds(g, b, s, h))[DOMAIN s]

SameUpTo(n, r, s) ==
    n \in Nat /\ 1 .. n \subseteq DOMAIN r \cap DOMAIN s /\ \A i \in 1 .. n : r[i] = s[i]

AgreeUpTo(n, h, k) == \A t \in SUBSET (1 .. n) : h[t] = k[t]

LEMMA FoldsAgree ==
    ASSUME NEW g, NEW b, NEW r, NEW s, NEW n, SameUpTo(n, r, s),
           NEW h, NEW k, Folds(g, b, r, h), Folds(g, b, s, k)
    PROVE  AgreeUpTo(n, h, k)
<1>0. n \in Nat /\ \A i \in 1 .. n : r[i] = s[i]
  BY DEF SameUpTo
<1> DEFINE S == {t \in SUBSET (1 .. n) : h[t] = k[t]}
<1>1. \A t \in SUBSET (1 .. n) : t \in SUBSET DOMAIN r /\ t \in SUBSET DOMAIN s
  BY DEF SameUpTo
<1>2. {} \in S
  BY <1>1 DEF Folds
<1>3. ASSUME NEW t \in SUBSET (1 .. n), t # {}, t \ {Max(t)} \in S
      PROVE  t \in S
  <2>1. PICK x \in 1 .. n : x = Max(t)
    BY <1>0, <1>3, MaxIn
  <2>2. h[t] = g[h[t \ {x}]][r[x]] /\ k[t] = g[k[t \ {x}]][s[x]]
    BY <1>1, <1>3, <2>1 DEF Folds
  <2>3. h[t \ {x}] = k[t \ {x}] /\ r[x] = s[x]
    BY <1>0, <1>3, <2>1
  <2> QED BY <2>2, <2>3
<1> HIDE DEF S
<1>4. SUBSET (1 .. n) \subseteq S
  BY <1>0, <1>2, <1>3, IndexInduction
<1> QED BY <1>4 DEF S, AgreeUpTo

LEMMA AppendFacts ==
    ASSUME NEW E, NEW r \in Seq(E), NEW e \in E, NEW q, q = Append(r, e), NEW n, n = Len(r)
    PROVE  /\ n \in Nat /\ q \in Seq(E) /\ n <= Len(r) /\ n <= Len(q)
           /\ DOMAIN r = 1 .. n /\ DOMAIN q = 1 .. n + 1
           /\ q[n + 1] = e /\ \A i \in 1 .. n : q[i] = r[i]
OBVIOUS

LEMMA FoldsExist ==
    ASSUME NEW A, NEW E, NEW g, StepOn(g, A, E), NEW b \in A, NEW s \in Seq(E)
    PROVE  \E h : ValuesIn(h, A, s) /\ Folds(g, b, s, h)
<1> DEFINE S == {r \in Seq(E) : \E h : ValuesIn(h, A, r) /\ Folds(g, b, r, h)}
<1>1. <<>> \in S
  <2> DEFINE h == [t \in SUBSET DOMAIN <<>> |-> b]
  <2>1. DOMAIN <<>> = {} /\ <<>> \in Seq(E)
    OBVIOUS
  <2>2. ValuesIn(h, A, <<>>)
    BY DEF ValuesIn
  <2>3. \A t \in SUBSET DOMAIN <<>> : t = {}
    BY <2>1
  <2>4. h = [t \in SUBSET DOMAIN <<>> |->
                IF t = {} THEN b ELSE g[h[t \ {Max(t)}]][<<>>[Max(t)]]]
    BY <2>3
  <2> QED BY <2>1, <2>2, <2>4 DEF Folds
<1>2. ASSUME NEW r \in Seq(E), NEW e \in E, r \in S
      PROVE  Append(r, e) \in S
  <2>1. PICK h : ValuesIn(h, A, r) /\ Folds(g, b, r, h)
    BY <1>2
  <2>9. PICK n, q : n = Len(r) /\ q = Append(r, e)
    OBVIOUS
  <2> DEFINE k == [t \in SUBSET DOMAIN q |->
                     IF n + 1 \in t THEN g[h[t \ {n + 1}]][e] ELSE h[t]]
  <2>2. /\ n \in Nat /\ DOMAIN r = 1 .. n /\ DOMAIN q = 1 .. n + 1 /\ q \in Seq(E)
        /\ q[n + 1] = e /\ \A i \in 1 .. n : q[i] = r[i]
    BY <1>2, <2>9, AppendFacts
  <2>3. \A t \in SUBSET DOMAIN q : t \ {n + 1} \in SUBSET DOMAIN r
    BY <2>2
  <2>4. ASSUME NEW t \in SUBSET DOMAIN q
        PROVE  /\ k[t] \in A
               /\ k[t] = IF t = {} THEN b ELSE g[k[t \ {Max(t)}]][q[Max(t)]]
    <3>1. CASE n + 1 \in t
      <4>1. Max(t) = n + 1
        <5>1. Max(t) \in t /\ \A i \in t : i <= Max(t)
          <6>1. n + 1 \in Nat /\ t \subseteq 1 .. n + 1 /\ t # {}
            BY <2>2, <3>1
          <6> QED BY <6>1, MaxIn
        <5>2. PICK x \in 1 .. n + 1 : x = Max(t) /\ n + 1 <= x
          BY <2>2, <3>1, <5>1
        <5>3. x = n + 1
          BY <2>2, <5>2
        <5> QED BY <5>2, <5>3
      <4>2. k[t \ {n + 1}] = h[t \ {n + 1}]
        BY <2>2, <2>3
      <4>3. k[t] = g[h[t \ {n + 1}]][e] /\ t # {}
        BY <3>1
      <4>4. PICK y \in A : y = h[t \ {n + 1}]
        BY <2>1, <2>3 DEF ValuesIn
      <4>7. g[y][e] \in A
        BY <1>2, <4>4 DEF StepOn
      <4>5. k[t] \in A
        BY <4>3, <4>4, <4>7
      <4>6. k[t] = g[k[t \ {n + 1}]][q[n + 1]]
        BY <2>2, <4>2, <4>3
      <4> QED BY <4>1, <4>3, <4>5, <4>6
    <3>2. CASE n + 1 \notin t
      <4>1. t \in SUBSET DOMAIN r /\ t \ {n + 1} = t
        BY <2>3, <3>2
      <4>2. k[t] = h[t]
        BY <3>2
      <4>3. h[t] = IF t = {} THEN b ELSE g[h[t \ {Max(t)}]][r[Max(t)]]
        BY <2>1, <4>1 DEF Folds
      <4>4. CASE t # {}
        <5>1. PICK x \in 1 .. n : x = Max(t)
          <6>1. n \in Nat /\ t \subseteq 1 .. n
            BY <2>2, <4>1
          <6> QED BY <4>4, <6>1, MaxIn
        <5>2. k[t \ {x}] = h[t \ {x}]
          BY <2>2, <3>2
        <5>3. h[t] \in A
          BY <2>1, <4>1 DEF ValuesIn
        <5> QED BY <2>2, <4>1, <4>2, <4>3, <4>4, <5>1, <5>2, <5>3
      <4>5. CASE t = {}
        BY <1>2, <4>1, <4>2, <4>3, <4>5
      <4> QED BY <4>4, <4>5
    <3> QED BY <3>1, <3>2
  <2>5. k = [t \in SUBSET DOMAIN q |-> k[t]]
    OBVIOUS
  <2> HIDE DEF k
  <2>6. /\ k = [t \in SUBSET DOMAIN q |-> IF t = {} THEN b ELSE g[k[t \ {Max(t)}]][q[Max(t)]]]
        /\ ValuesIn(k, A, q)
    BY <2>4, <2>5 DEF ValuesIn
  <2>7. Folds(g, b, q, k) /\ ValuesIn(k, A, q)
    BY <2>6 DEF Folds
  <2>8. \E f : ValuesIn(f, A, q) /\ Folds(g, b, q, f)
    BY <2>7
  <2> QED BY <2>2, <2>8, <2>9
<1> HIDE DEF S
<1>3. Seq(E) \subseteq S
  BY <1>1, <1>2, SeqInduction
<1> QED BY <1>3 DEF S

\* What a fold is: the base for no element, and one step more for one more.
LEMMA FoldRecursion ==
    ASSUME NEW A, NEW E, NEW g, StepOn(g, A, E), NEW b \in A
    PROVE  /\ Folded(g, b, <<>>) = b
           /\ \A s \in Seq(E) : Folded(g, b, s) \in A
           /\ \A s \in Seq(E), e \in E :
                 Folded(g, b, Append(s, e)) = g[Folded(g, b, s)][e]
<1> DEFINE H(s) == CHOOSE h : Folds(g, b, s, h)
<1>1. ASSUME NEW s \in Seq(E)
      PROVE  Folds(g, b, s, H(s)) /\ Folded(g, b, s) = H(s)[DOMAIN s]
  <2>1. \E h : Folds(g, b, s, h)
    BY FoldsExist
  <2> QED BY <2>1 DEF Folded
<1> HIDE DEF H
<1>2. Folded(g, b, <<>>) = b
  <2>1. <<>> \in Seq(E) /\ DOMAIN <<>> = {}
    OBVIOUS
  <2>2. H(<<>>)[{}] = b
    BY <1>1, <2>1 DEF Folds
  <2> QED BY <1>1, <2>1, <2>2
<1>3. ASSUME NEW s \in Seq(E) PROVE Folded(g, b, s) \in A
  <2>1. PICK h : ValuesIn(h, A, s) /\ Folds(g, b, s, h)
    BY <1>3, FoldsExist
  <2>2. PICK n : n \in Nat /\ n = Len(s) /\ DOMAIN s = 1 .. n
    BY <1>3
  <2>5. PICK k : k = H(s) /\ Folds(g, b, s, k)
    BY <1>1, <1>3
  <2>6. SameUpTo(n, s, s)
    BY <2>2 DEF SameUpTo
  <2>3. \A t \in SUBSET (1 .. n) : h[t] = k[t]
    <3>1. Folds(g, b, s, h) /\ Folds(g, b, s, k)
      BY <2>1, <2>5
    <3>2. AgreeUpTo(n, h, k)
      BY <2>6, <3>1, FoldsAgree
    <3> QED BY <3>2 DEF AgreeUpTo
  <2>4. h[1 .. n] = H(s)[1 .. n] /\ h[1 .. n] \in A
    BY <2>1, <2>2, <2>3, <2>5 DEF ValuesIn
  <2> QED BY <1>1, <1>3, <2>2, <2>4
<1>4. ASSUME NEW s \in Seq(E), NEW e \in E
      PROVE  Folded(g, b, Append(s, e)) = g[Folded(g, b, s)][e]
  <2>11. PICK n, q : n = Len(s) /\ q = Append(s, e)
    OBVIOUS
  <2>1. /\ n \in Nat /\ q \in Seq(E) /\ n <= Len(s) /\ n <= Len(q)
        /\ DOMAIN s = 1 .. n /\ DOMAIN q = 1 .. n + 1
        /\ q[n + 1] = e /\ \A i \in 1 .. n : s[i] = q[i]
    BY <1>4, <2>11, AppendFacts
  <2>12. SameUpTo(n, s, q)
    BY <2>1 DEF SameUpTo
  <2>2. PICK h, k : h = H(s) /\ k = H(q) /\ Folds(g, b, s, h) /\ Folds(g, b, q, k)
    BY <1>1, <1>4, <2>1
  <2>3. \A t \in SUBSET (1 .. n) : h[t] = k[t]
    <3>1. Folds(g, b, s, h) /\ Folds(g, b, q, k)
      BY <2>2
    <3>2. AgreeUpTo(n, h, k)
      BY <2>12, <3>1, FoldsAgree
    <3> QED BY <3>2 DEF AgreeUpTo
  <2>9. PICK m \in Nat : m = n + 1
    BY <2>1
  <2>4. PICK t \in SUBSET (1 .. m) : t = 1 .. m /\ m \in t /\ t \ {m} = 1 .. n
    <3>1. (1 .. m) \ {m} = 1 .. n /\ m \in 1 .. m
      BY <2>1, <2>9
    <3> QED BY <3>1
  <2>5. Max(t) \in t /\ \A i \in t : i <= Max(t)
    BY <2>4, MaxIn
  <2>6. Max(t) = m
    <3>1. m <= Max(t) /\ Max(t) \in 1 .. m
      BY <2>4, <2>5
    <3> QED BY <3>1
  <2>7. k[t] = g[k[1 .. n]][e]
    <3>1. t \in SUBSET DOMAIN q /\ t # {} /\ q[m] = e /\ t \ {Max(t)} = 1 .. n
      BY <2>1, <2>4, <2>6, <2>9
    <3>2. k[t] = g[k[t \ {Max(t)}]][q[Max(t)]]
      BY <2>2, <3>1 DEF Folds
    <3> QED BY <2>6, <3>1, <3>2
  <2>8. h[1 .. n] = k[1 .. n]
    BY <2>3
  <2>10. Folded(g, b, q) = k[t] /\ Folded(g, b, s) = h[1 .. n]
    BY <1>1, <1>4, <2>1, <2>2, <2>4, <2>9
  <2> QED BY <2>7, <2>8, <2>10, <2>11
<1> QED BY <1>2, <1>3, <1>4

\* Whatever folds the same steps from the same base is that fold.
LEMMA FoldIs ==
    ASSUME NEW A, NEW E, NEW g, StepOn(g, A, E), NEW b \in A, NEW s \in Seq(E), NEW k,
           k[{}] = b,
           \A t \in SUBSET DOMAIN s :
              t # {} /\ k[t \ {Max(t)}] \in A => k[t] = g[k[t \ {Max(t)}]][s[Max(t)]]
    PROVE  k[DOMAIN s] = Folded(g, b, s)
<1>1. PICK f : ValuesIn(f, A, s) /\ Folds(g, b, s, f)
  BY FoldsExist
<1>2. PICK h : Folds(g, b, s, h) /\ Folded(g, b, s) = h[DOMAIN s]
  BY <1>1 DEF Folded
<1>3. PICK n : n \in Nat /\ n = Len(s) /\ DOMAIN s = 1 .. n
  OBVIOUS
<1>4. \A t \in SUBSET (1 .. n) : f[t] = h[t]
  <2>1. SameUpTo(n, s, s)
    BY <1>3 DEF SameUpTo
  <2>2. Folds(g, b, s, f) /\ Folds(g, b, s, h)
    BY <1>1, <1>2
  <2>3. AgreeUpTo(n, f, h)
    BY <2>1, <2>2, FoldsAgree
  <2> QED BY <2>3 DEF AgreeUpTo
<1> DEFINE S == {t \in SUBSET (1 .. n) : k[t] = f[t]}
<1>5. {} \in S
  BY <1>1, <1>3 DEF Folds
<1>6. ASSUME NEW t \in SUBSET (1 .. n), t # {}, t \ {Max(t)} \in S PROVE t \in S
  <2>1. t \in SUBSET DOMAIN s
    BY <1>3, <1>6
  <2>2. f[t] = g[f[t \ {Max(t)}]][s[Max(t)]]
    BY <1>1, <1>6, <2>1 DEF Folds
  <2>3. k[t \ {Max(t)}] = f[t \ {Max(t)}]
    BY <1>6
  <2>4. f[t \ {Max(t)}] \in A
    BY <1>1, <2>1 DEF ValuesIn
  <2>5. k[t] = g[k[t \ {Max(t)}]][s[Max(t)]]
    BY <1>6, <2>1, <2>3, <2>4
  <2> QED BY <2>2, <2>3, <2>5
<1> HIDE DEF S
<1>7. SUBSET (1 .. n) \subseteq S
  BY <1>3, <1>5, <1>6, IndexInduction
<1>8. k[1 .. n] = f[1 .. n]
  BY <1>7 DEF S
<1> QED BY <1>2, <1>3, <1>4, <1>8

-----------------------------------------------------------------------------
(* The folds of the ingestor *)

Marks == Nat \cup {NoId}
Books == [last : Marks, ids : SUBSET Nat]
Envelopes == [first : Marks, final : Nat, previous : Marks]
Validators ==
    [state : {"COLD", "READY", "LIVE", "GAP"}, last : Marks, mode : {"unknown", "present", "absent"}]
Replays == [validator : Validators, applied : Seq(Events), gap : BOOLEAN]

LEMMA EventFacts ==
    ASSUME NEW e \in Events
    PROVE  /\ e \in Envelopes /\ e.first \in Nat /\ e.final \in Nat /\ e.first <= e.final
           /\ e.previous \in Marks
BY DepthAssumption DEF Envelopes, Marks

LEMMA EnvelopeFacts ==
    ASSUME NEW s \in SnapshotIds
    PROVE  s \in Nat /\ SnapshotEnvelope(s) \in Envelopes
BY DepthAssumption DEF Envelopes, Marks, SnapshotEnvelope

BookStep == [b \in Books |-> [e \in Events |-> BookAfter(b, e)]]

LEMMA BookAfterIn ==
    ASSUME NEW b \in Books, NEW e \in Events
    PROVE  BookAfter(b, e) \in Books
BY EventFacts DEF Books, BookAfter, Marks

LEMMA BookFold ==
    ASSUME NEW b \in Books, NEW s \in Seq(Events)
    PROVE  BookThrough(b, s) = Folded(BookStep, b, s)
<1> DEFINE P(h) == h = [t \in SUBSET DOMAIN s |->
                          IF t = {} THEN b ELSE BookAfter(h[t \ {Max(t)}], s[Max(t)])]
           k == CHOOSE h : P(h)
<1>1. BookThrough(b, s) = k[DOMAIN s]
  BY DEF BookThrough, FoldLeft, MapThenFoldSet
<1>2. StepOn(BookStep, Books, Events)
  BY BookAfterIn DEF StepOn, BookStep
<1>3. PICK f : ValuesIn(f, Books, s) /\ Folds(BookStep, b, s, f)
  BY <1>2, FoldsExist
<1>4. ASSUME NEW t \in SUBSET DOMAIN s, t # {}
      PROVE  Max(t) \in DOMAIN s /\ s[Max(t)] \in Events
  <2>1. Len(s) \in Nat /\ t \subseteq 1 .. Len(s)
    OBVIOUS
  <2> QED BY <1>4, <2>1, MaxIn
<1>5. \A y \in Books, e \in Events : BookStep[y][e] = BookAfter(y, e)
  BY DEF BookStep
<1>6. P(f)
  <2>1. ASSUME NEW t \in SUBSET DOMAIN s, t # {}
        PROVE  BookStep[f[t \ {Max(t)}]][s[Max(t)]] = BookAfter(f[t \ {Max(t)}], s[Max(t)])
    <3>1. f[t \ {Max(t)}] \in Books
      BY <1>3, <2>1 DEF ValuesIn
    <3> QED BY <1>4, <1>5, <2>1, <3>1
  <2>2. f = [t \in SUBSET DOMAIN s |->
               IF t = {} THEN b ELSE BookStep[f[t \ {Max(t)}]][s[Max(t)]]]
    BY <1>3 DEF Folds
  <2> QED BY <2>1, <2>2
<1>7. P(k)
  BY <1>6
<1> HIDE DEF k
<1>8. k[{}] = b
  BY <1>7
<1>9. ASSUME NEW t \in SUBSET DOMAIN s, t # {}, k[t \ {Max(t)}] \in Books
      PROVE  k[t] = BookStep[k[t \ {Max(t)}]][s[Max(t)]]
  <2>1. k[t] = BookAfter(k[t \ {Max(t)}], s[Max(t)])
    BY <1>7, <1>9
  <2> QED BY <1>4, <1>5, <1>9, <2>1
<1> HIDE DEF P
<1>10. k[DOMAIN s] = Folded(BookStep, b, s)
  BY <1>2, <1>8, <1>9, FoldIs
<1> QED BY <1>1, <1>10

\* The book after one event more.
LEMMA BookRecursion ==
    ASSUME NEW b \in Books
    PROVE  /\ BookThrough(b, <<>>) = b
           /\ \A s \in Seq(Events) : BookThrough(b, s) \in Books
           /\ \A s \in Seq(Events), e \in Events :
                 BookThrough(b, Append(s, e)) = BookAfter(BookThrough(b, s), e)
<1>1. StepOn(BookStep, Books, Events)
  BY BookAfterIn DEF StepOn, BookStep
<1>2. /\ Folded(BookStep, b, <<>>) = b
      /\ \A s \in Seq(Events) : Folded(BookStep, b, s) \in Books
      /\ \A s \in Seq(Events), e \in Events :
            Folded(BookStep, b, Append(s, e)) = BookStep[Folded(BookStep, b, s)][e]
  BY <1>1, FoldRecursion
<1>3. <<>> \in Seq(Events) /\ \A s \in Seq(Events), e \in Events : Append(s, e) \in Seq(Events)
  OBVIOUS
<1>4. \A y \in Books, e \in Events : BookStep[y][e] = BookAfter(y, e)
  BY DEF BookStep
<1>5. \A s \in Seq(Events), e \in Events :
          Folded(BookStep, b, Append(s, e)) = BookAfter(Folded(BookStep, b, s), e)
  BY <1>2, <1>4
<1>6. \A s \in Seq(Events) : BookThrough(b, s) = Folded(BookStep, b, s)
  BY BookFold
<1> QED BY <1>2, <1>3, <1>5, <1>6

-----------------------------------------------------------------------------
(* The chain *)

Extends(r, s) == r \in Seq(Envelopes) /\ s \in Seq(Envelopes) /\ IsPrefix(r, s)

LEMMA ExtendsFacts ==
    /\ \A r \in Seq(Envelopes) : Extends(r, r)
    /\ \A r, s, t : Extends(r, s) /\ Extends(s, t) => Extends(r, t)
    /\ \A r \in Seq(Envelopes), e \in Envelopes : Extends(r, Append(r, e))
<1>1. ASSUME NEW r \in Seq(Envelopes) PROVE Extends(r, r)
  BY DEF Extends, IsPrefix
<1>2. ASSUME NEW r, NEW s, NEW t, Extends(r, s), Extends(s, t) PROVE Extends(r, t)
  <2>1. /\ r \in Seq(Envelopes) /\ s \in Seq(Envelopes) /\ t \in Seq(Envelopes)
        /\ Len(r) <= Len(s) /\ Len(s) <= Len(t)
        /\ SubSeq(r, 1, Len(r)) = SubSeq(s, 1, Len(r))
        /\ SubSeq(s, 1, Len(s)) = SubSeq(t, 1, Len(s))
    BY <1>2 DEF Extends, IsPrefix
  <2>2. \A i \in 1 .. Len(r) : r[i] = SubSeq(r, 1, Len(r))[i] /\ s[i] = SubSeq(s, 1, Len(r))[i]
    BY <2>1
  <2>3. \A i \in 1 .. Len(s) : s[i] = SubSeq(s, 1, Len(s))[i] /\ t[i] = SubSeq(t, 1, Len(s))[i]
    BY <2>1
  <2>4. Len(r) \in Nat /\ Len(s) \in Nat /\ Len(t) \in Nat
    BY <2>1
  <2>5. \A i \in 1 .. Len(r) : r[i] = t[i]
    BY <2>1, <2>2, <2>3, <2>4
  <2>6. SubSeq(r, 1, Len(r)) = SubSeq(t, 1, Len(r)) /\ Len(r) <= Len(t)
    BY <2>1, <2>4, <2>5
  <2> QED BY <2>1, <2>6 DEF Extends, IsPrefix
<1>3. ASSUME NEW r \in Seq(Envelopes), NEW e \in Envelopes PROVE Extends(r, Append(r, e))
  <2>1. Append(r, e) \in Seq(Envelopes) /\ Len(r) <= Len(Append(r, e))
    BY <1>3
  <2>2. SubSeq(r, 1, Len(r)) = SubSeq(Append(r, e), 1, Len(r))
    BY <1>3
  <2> QED BY <1>3, <2>1, <2>2 DEF Extends, IsPrefix
<1> QED BY <1>1, <1>2, <1>3

LEMMA RecordedExtends ==
    ASSUME NEW c \in Seq(Envelopes), NEW x \in Envelopes
    PROVE  Recorded(c, x) \in Seq(Envelopes) /\ Extends(c, Recorded(c, x))
BY ExtendsFacts DEF Recorded

Chains == Seq(Envelopes)

RecordStep == [c \in Chains |-> [x \in Envelopes |-> Recorded(c, x)]]

LEMMA RecordFold ==
    ASSUME NEW b \in Chains, NEW s \in Seq(Envelopes)
    PROVE  RecordedAll(b, s) = Folded(RecordStep, b, s)
<1> DEFINE P(h) == h = [t \in SUBSET DOMAIN s |->
                          IF t = {} THEN b ELSE Recorded(h[t \ {Max(t)}], s[Max(t)])]
           k == CHOOSE h : P(h)
<1>1. RecordedAll(b, s) = k[DOMAIN s]
  BY DEF RecordedAll, FoldLeft, MapThenFoldSet
<1>2. StepOn(RecordStep, Chains, Envelopes)
  BY RecordedExtends DEF StepOn, RecordStep, Chains
<1>3. PICK f : ValuesIn(f, Chains, s) /\ Folds(RecordStep, b, s, f)
  BY <1>2, FoldsExist
<1>4. ASSUME NEW t \in SUBSET DOMAIN s, t # {}
      PROVE  Max(t) \in DOMAIN s /\ s[Max(t)] \in Envelopes
  <2>1. Len(s) \in Nat /\ t \subseteq 1 .. Len(s)
    OBVIOUS
  <2> QED BY <1>4, <2>1, MaxIn
<1>5. \A y \in Chains, e \in Envelopes : RecordStep[y][e] = Recorded(y, e)
  BY DEF RecordStep
<1>6. P(f)
  <2>1. ASSUME NEW t \in SUBSET DOMAIN s, t # {}
        PROVE  RecordStep[f[t \ {Max(t)}]][s[Max(t)]] = Recorded(f[t \ {Max(t)}], s[Max(t)])
    <3>1. f[t \ {Max(t)}] \in Chains
      BY <1>3, <2>1 DEF ValuesIn
    <3> QED BY <1>4, <1>5, <2>1, <3>1
  <2>2. f = [t \in SUBSET DOMAIN s |->
               IF t = {} THEN b ELSE RecordStep[f[t \ {Max(t)}]][s[Max(t)]]]
    BY <1>3 DEF Folds
  <2> QED BY <2>1, <2>2
<1>7. P(k)
  BY <1>6
<1> HIDE DEF k
<1>8. k[{}] = b
  BY <1>7
<1>9. ASSUME NEW t \in SUBSET DOMAIN s, t # {}, k[t \ {Max(t)}] \in Chains
      PROVE  k[t] = RecordStep[k[t \ {Max(t)}]][s[Max(t)]]
  <2>1. k[t] = Recorded(k[t \ {Max(t)}], s[Max(t)])
    BY <1>7, <1>9
  <2> QED BY <1>4, <1>5, <1>9, <2>1
<1> HIDE DEF P
<1>10. k[DOMAIN s] = Folded(RecordStep, b, s)
  BY <1>2, <1>8, <1>9, FoldIs
<1> QED BY <1>1, <1>10

\* Recording envelopes only ever extends the chain.
LEMMA RecordedAllExtends ==
    ASSUME NEW c \in Seq(Envelopes)
    PROVE  \A s \in Seq(Envelopes) : Extends(c, RecordedAll(c, s))
<1>0. c \in Chains
  BY DEF Chains
<1>1. StepOn(RecordStep, Chains, Envelopes)
  BY RecordedExtends DEF StepOn, RecordStep, Chains
<1>2. /\ Folded(RecordStep, c, <<>>) = c
      /\ \A s \in Seq(Envelopes) : Folded(RecordStep, c, s) \in Chains
      /\ \A s \in Seq(Envelopes), e \in Envelopes :
            Folded(RecordStep, c, Append(s, e)) = RecordStep[Folded(RecordStep, c, s)][e]
  BY <1>0, <1>1, FoldRecursion
<1> DEFINE S == {s \in Seq(Envelopes) : Extends(c, Folded(RecordStep, c, s))}
<1>3. <<>> \in S
  BY <1>2, ExtendsFacts
<1>4. ASSUME NEW s \in Seq(Envelopes), NEW e \in Envelopes, s \in S
      PROVE  Append(s, e) \in S
  <2>1. PICK d \in Seq(Envelopes) : d = Folded(RecordStep, c, s)
    BY <1>2, <1>4 DEF Chains
  <2>2. Folded(RecordStep, c, Append(s, e)) = Recorded(d, e)
    BY <1>2, <1>4, <2>1 DEF RecordStep, Chains
  <2>3. Extends(c, d) /\ Extends(d, Recorded(d, e))
    BY <1>4, <2>1, RecordedExtends
  <2>4. Extends(c, Recorded(d, e))
    BY <2>3, ExtendsFacts
  <2>5. Append(s, e) \in Seq(Envelopes)
    BY <1>4
  <2> QED BY <2>2, <2>4, <2>5
<1> HIDE DEF S
<1>5. Seq(Envelopes) \subseteq S
  BY <1>3, <1>4, SeqInduction
<1> QED BY <1>0, <1>5, RecordFold DEF S

-----------------------------------------------------------------------------
(* The replay *)

Outset(s) == [validator |-> Ready(s), applied |-> <<>>, gap |-> FALSE]

LEMMA AcceptedFacts ==
    ASSUME NEW v \in Validators, NEW e \in Events
    PROVE  /\ Accepted(v, e) \in Validators
           /\ Verdict(v, e) = "APPLIED" => Accepted(v, e).last = e.final
           /\ Verdict(v, e) # "APPLIED" => Accepted(v, e).last = v.last
<1>1. e.final \in Marks /\ ModeOf(e) \in {"absent", "present"}
  BY EventFacts DEF Marks, ModeOf
<1>2. CASE Verdict(v, e) = "APPLIED"
  BY <1>1, <1>2 DEF Accepted, Validators
<1>3. CASE Verdict(v, e) = "GAP_DETECTED"
  BY <1>3 DEF Accepted, Validators, Gap
<1>4. CASE Verdict(v, e) \notin {"APPLIED", "GAP_DETECTED"}
  BY <1>4 DEF Accepted
<1> QED BY <1>2, <1>3, <1>4

\* One event of the replay: either it is applied, or the last id stays.
LEMMA ReplayOneFacts ==
    ASSUME NEW a \in Replays, NEW e \in Events
    PROVE  /\ ReplayOne(a, e) \in Replays
           /\ \/ /\ ReplayOne(a, e).applied = Append(a.applied, e)
                 /\ ReplayOne(a, e).validator.last = e.final
              \/ /\ ReplayOne(a, e).applied = a.applied
                 /\ ReplayOne(a, e).validator.last = a.validator.last
<1>1. /\ a.validator \in Validators /\ a.applied \in Seq(Events) /\ a.gap \in BOOLEAN
      /\ Append(a.applied, e) \in Seq(Events)
      /\ a = [validator |-> a.validator, applied |-> a.applied, gap |-> a.gap]
  BY DEF Replays
<1>2. /\ Accepted(a.validator, e) \in Validators
      /\ Verdict(a.validator, e) = "APPLIED" => Accepted(a.validator, e).last = e.final
      /\ Verdict(a.validator, e) # "APPLIED" => Accepted(a.validator, e).last = a.validator.last
  BY <1>1, AcceptedFacts
<1>3. CASE a.gap \/ Verdict(a.validator, e) = "STALE_IGNORED"
  <2>1. ReplayOne(a, e) = a
    BY <1>1, <1>3 DEF ReplayOne
  <2> QED BY <2>1
<1>4. CASE ~ a.gap /\ Verdict(a.validator, e) = "APPLIED"
  <2>1. ReplayOne(a, e) =
           [validator |-> Accepted(a.validator, e), applied |-> Append(a.applied, e), gap |-> a.gap]
    BY <1>1, <1>4 DEF ReplayOne, Replays
  <2> QED BY <1>1, <1>2, <1>4, <2>1 DEF Replays
<1>5. CASE ~ a.gap /\ Verdict(a.validator, e) \notin {"APPLIED", "STALE_IGNORED"}
  <2>1. ReplayOne(a, e) =
           [validator |-> Accepted(a.validator, e), applied |-> a.applied, gap |-> TRUE]
    BY <1>1, <1>5 DEF ReplayOne, Replays
  <2> QED BY <1>1, <1>2, <1>5, <2>1 DEF Replays
<1> QED BY <1>1, <1>3, <1>4, <1>5

ReplayStep == [a \in Replays |-> [e \in Events |-> ReplayOne(a, e)]]

LEMMA OutsetFacts ==
    ASSUME NEW s \in SnapshotIds
    PROVE  /\ Outset(s) \in Replays /\ Outset(s).applied = <<>> /\ Outset(s).validator.last = s
           /\ SnapshotBook(s) \in Books /\ SnapshotBook(s).last = s
           /\ SnapshotBook(s).ids = 0 .. s
<1>1. s \in Nat
  BY EnvelopeFacts
<1>2. Ready(s) \in Validators /\ Ready(s).last = s
  BY <1>1 DEF Ready, Validators, Marks
<1>3. <<>> \in Seq(Events)
  OBVIOUS
<1> QED BY <1>1, <1>2, <1>3 DEF Outset, Replays, SnapshotBook, Books, Marks

LEMMA ReplayFold ==
    ASSUME NEW z \in SnapshotIds, buffer \in Seq(Events)
    PROVE  Replay(z) = Folded(ReplayStep, Outset(z), buffer)
<1>0. PICK b, s : b = Outset(z) /\ s = buffer /\ b \in Replays /\ s \in Seq(Events)
  BY OutsetFacts
<1> DEFINE P(h) == h = [t \in SUBSET DOMAIN s |->
                          IF t = {} THEN b ELSE ReplayOne(h[t \ {Max(t)}], s[Max(t)])]
           k == CHOOSE h : P(h)
<1>1. Replay(z) = k[DOMAIN s]
  BY <1>0 DEF Replay, Outset, FoldLeft, MapThenFoldSet
<1>2. StepOn(ReplayStep, Replays, Events)
  BY ReplayOneFacts DEF StepOn, ReplayStep
<1>3. PICK f : ValuesIn(f, Replays, s) /\ Folds(ReplayStep, b, s, f)
  BY <1>0, <1>2, FoldsExist
<1>4. ASSUME NEW t \in SUBSET DOMAIN s, t # {}
      PROVE  Max(t) \in DOMAIN s /\ s[Max(t)] \in Events
  <2>1. Len(s) \in Nat /\ t \subseteq 1 .. Len(s)
    BY <1>0, <1>4
  <2> QED BY <1>0, <1>4, <2>1, MaxIn
<1>5. \A y \in Replays, e \in Events : ReplayStep[y][e] = ReplayOne(y, e)
  BY DEF ReplayStep
<1>6. P(f)
  <2>1. ASSUME NEW t \in SUBSET DOMAIN s, t # {}
        PROVE  ReplayStep[f[t \ {Max(t)}]][s[Max(t)]] = ReplayOne(f[t \ {Max(t)}], s[Max(t)])
    <3>1. f[t \ {Max(t)}] \in Replays
      BY <1>3, <2>1 DEF ValuesIn
    <3> QED BY <1>4, <1>5, <2>1, <3>1
  <2>2. f = [t \in SUBSET DOMAIN s |->
               IF t = {} THEN b ELSE ReplayStep[f[t \ {Max(t)}]][s[Max(t)]]]
    BY <1>3 DEF Folds
  <2> QED BY <2>1, <2>2
<1>7. P(k)
  BY <1>6
<1> HIDE DEF k
<1>8. k[{}] = b
  BY <1>7
<1>9. ASSUME NEW t \in SUBSET DOMAIN s, t # {}, k[t \ {Max(t)}] \in Replays
      PROVE  k[t] = ReplayStep[k[t \ {Max(t)}]][s[Max(t)]]
  <2>1. k[t] = ReplayOne(k[t \ {Max(t)}], s[Max(t)])
    BY <1>7, <1>9
  <2> QED BY <1>4, <1>5, <1>9, <2>1
<1> HIDE DEF P
<1>10. k[DOMAIN s] = Folded(ReplayStep, b, s)
  BY <1>0, <1>2, <1>8, <1>9, FoldIs
<1> QED BY <1>0, <1>1, <1>10

\* After a replay the validator stands where the book stands that took all that was
\* applied.
LEMMA ReplayFacts ==
    ASSUME NEW z \in SnapshotIds, buffer \in Seq(Events)
    PROVE  /\ Replay(z) \in Replays
           /\ Replay(z).validator.last = BookThrough(SnapshotBook(z), Replay(z).applied).last
<1>0. PICK b : b = Outset(z) /\ b \in Replays
  BY OutsetFacts
<1>5. PICK c : c = SnapshotBook(z) /\ c \in Books /\ c.last = z
  BY OutsetFacts
<1>1. StepOn(ReplayStep, Replays, Events)
  BY ReplayOneFacts DEF StepOn, ReplayStep
<1>2. /\ Folded(ReplayStep, b, <<>>) = b
      /\ \A s \in Seq(Events) : Folded(ReplayStep, b, s) \in Replays
      /\ \A s \in Seq(Events), e \in Events :
            Folded(ReplayStep, b, Append(s, e)) = ReplayStep[Folded(ReplayStep, b, s)][e]
  BY <1>0, <1>1, FoldRecursion
<1>3. /\ BookThrough(c, <<>>) = c
      /\ \A s \in Seq(Events), e \in Events :
            BookThrough(c, Append(s, e)) = BookAfter(BookThrough(c, s), e)
  BY <1>5, BookRecursion
<1> DEFINE InStep(a) == a.validator.last = BookThrough(c, a.applied).last
           S == {s \in Seq(Events) : InStep(Folded(ReplayStep, b, s))}
<1>6. <<>> \in S
  BY <1>0, <1>2, <1>3, <1>5, OutsetFacts
<1>7. ASSUME NEW s \in Seq(Events), NEW e \in Events, s \in S
      PROVE  Append(s, e) \in S
  <2>1. PICK a \in Replays : a = Folded(ReplayStep, b, s) /\ InStep(a)
    BY <1>2, <1>7
  <2>2. Folded(ReplayStep, b, Append(s, e)) = ReplayOne(a, e)
    BY <1>2, <1>7, <2>1 DEF ReplayStep
  <2>3. a.applied \in Seq(Events)
    BY DEF Replays
  <2>4. BookThrough(c, Append(a.applied, e)).last = e.final
    BY <1>3, <1>7, <2>3 DEF BookAfter
  <2>5. InStep(ReplayOne(a, e))
    BY <1>7, <2>1, <2>4, ReplayOneFacts
  <2>6. Append(s, e) \in Seq(Events)
    BY <1>7
  <2> QED BY <2>2, <2>5, <2>6
<1> HIDE DEF S
<1>8. Seq(Events) \subseteq S
  BY <1>6, <1>7, SeqInduction
<1>9. Folded(ReplayStep, b, buffer) \in Replays /\ InStep(Folded(ReplayStep, b, buffer))
  BY <1>2, <1>8 DEF S
<1> QED BY <1>0, <1>5, <1>9, ReplayFold

-----------------------------------------------------------------------------
(* The book *)

Whole(b) == b.last # NoId => b.ids = 0 .. b.last

LEMMA WholeAfter ==
    ASSUME NEW b \in Books, Whole(b), NEW e \in Events, BookAccepts(b, e)
    PROVE  Whole(BookAfter(b, e))
<1>1. b.last \in Nat /\ b.ids = 0 .. b.last
  BY DEF Books, Marks, Whole, BookAccepts
<1>2. e.first \in Nat /\ e.final \in Nat /\ e.first <= b.last + 1 /\ b.last + 1 <= e.final
  BY EventFacts DEF BookAccepts, Bridges
<1>3. b.ids \cup e.first .. e.final = 0 .. e.final
  BY <1>1, <1>2
<1> QED BY <1>3 DEF BookAfter, Whole

LEMMA TakenIn ==
    ASSUME NEW s, NEW events \in Seq(Events)
    PROVE  /\ Taken(s, events) \in 0 .. Len(events)
           /\ \A i \in 1 .. Taken(s, events) :
                 BookAccepts(BookThrough(SnapshotBook(s), SubSeq(events, 1, i - 1)), events[i])
<1> DEFINE T == {n \in 0 .. Len(events) :
                    \A i \in 1 .. n : BookAccepts(BookThrough(SnapshotBook(s), SubSeq(events, 1, i - 1)),
                                                  events[i])}
<1>1. Len(events) \in Nat /\ T \subseteq 0 .. Len(events) /\ 0 \in T
  OBVIOUS
<1>2. Taken(s, events) = Max(T)
  BY DEF Taken
<1>3. Max(T) \in T
  <2>1. T # {}
    BY <1>1
  <2> HIDE DEF T
  <2> QED BY <1>1, <2>1, MaxOf
<1> QED BY <1>2, <1>3

LEMMA SubSeqFacts ==
    ASSUME NEW E, NEW r \in Seq(E), NEW n \in 0 .. Len(r)
    PROVE  /\ SubSeq(r, 1, n) \in Seq(E)
           /\ n # 0 => SubSeq(r, 1, n) = Append(SubSeq(r, 1, n - 1), r[n]) /\ r[n] \in E
           /\ SubSeq(r, 1, 0) = <<>>
           /\ Len(SubSeq(r, 1, n)) = n
           /\ \A m \in 0 .. n : SubSeq(SubSeq(r, 1, n), 1, m) = SubSeq(r, 1, m)
OBVIOUS

\* The book stays whole through every event it takes after a snapshot.
LEMMA TakenWhole ==
    ASSUME NEW s \in SnapshotIds, NEW events \in Seq(Events), NEW n \in 0 .. Taken(s, events)
    PROVE  LET b == BookThrough(SnapshotBook(s), SubSeq(events, 1, n))
           IN  b \in Books /\ Whole(b)
<1>0. PICK c : c = SnapshotBook(s) /\ c \in Books /\ Whole(c)
  BY OutsetFacts DEF Whole
<1>1. PICK m \in Nat : m = Taken(s, events) /\ m <= Len(events)
  BY TakenIn
<1>2. \A i \in 1 .. m : BookAccepts(BookThrough(c, SubSeq(events, 1, i - 1)), events[i])
  BY <1>0, <1>1, TakenIn
<1>3. /\ BookThrough(c, <<>>) = c
      /\ \A r \in Seq(Events) : BookThrough(c, r) \in Books
      /\ \A r \in Seq(Events), e \in Events :
            BookThrough(c, Append(r, e)) = BookAfter(BookThrough(c, r), e)
  BY <1>0, BookRecursion
<1> DEFINE B == {i \in 0 .. m : ~ Whole(BookThrough(c, SubSeq(events, 1, i)))}
<1>4. B = {}
  <2>1. SUFFICES ASSUME B # {} PROVE FALSE
    OBVIOUS
  <2>2. B \subseteq Nat
    OBVIOUS
  <2> HIDE DEF B
  <2>3. PICK i \in B : \A j \in B : i <= j
    BY <2>1, <2>2, LeastNat
  <2>4. i \in 0 .. m /\ i \in 0 .. Len(events) /\ ~ Whole(BookThrough(c, SubSeq(events, 1, i)))
    BY <1>1, <2>3 DEF B
  <2>5. i # 0
    <3>1. SubSeq(events, 1, 0) = <<>>
      OBVIOUS
    <3> QED BY <1>0, <1>3, <2>4, <3>1
  <2>6. PICK r, e : /\ r = SubSeq(events, 1, i - 1) /\ e = events[i]
                    /\ r \in Seq(Events) /\ e \in Events
                    /\ SubSeq(events, 1, i) = Append(r, e)
    <3>1. i \in 1 .. Len(events) /\ events[i] \in Events
      BY <2>4, <2>5
    <3>2. SubSeq(events, 1, i - 1) \in Seq(Events)
      BY <3>1
    <3>3. SubSeq(events, 1, i) = Append(SubSeq(events, 1, i - 1), events[i])
      BY <3>1
    <3> QED BY <3>1, <3>2, <3>3
  <2>7. i - 1 \in 0 .. m /\ i - 1 \notin B /\ i \in 1 .. m
    BY <2>3, <2>4, <2>5
  <2>8. Whole(BookThrough(c, r)) /\ BookAccepts(BookThrough(c, r), e)
    BY <1>2, <2>6, <2>7 DEF B
  <2>9. BookThrough(c, r) \in Books
    BY <1>3, <2>6
  <2>10. PICK y : y = BookThrough(c, r)
    OBVIOUS
  <2>11. Whole(BookAfter(y, e))
    BY <2>6, <2>8, <2>9, <2>10, WholeAfter
  <2>12. BookThrough(c, SubSeq(events, 1, i)) = BookAfter(y, e)
    BY <1>3, <2>6, <2>10
  <2> QED BY <2>4, <2>11, <2>12
<1>5. n \in 0 .. m /\ n \in 0 .. Len(events)
  BY <1>1
<1>6. SubSeq(events, 1, n) \in Seq(Events)
  BY <1>5, SubSeqFacts
<1> QED BY <1>0, <1>3, <1>4, <1>5, <1>6

-----------------------------------------------------------------------------
(* The ingestor *)

Drained == coordinator = "LIVE" => buffer = <<>>

DepthTypes ==
    /\ validator \in Validators
    /\ coordinator \in RecoveryStates
    /\ buffer \in Seq(Events)
    /\ ingestor \in IngestorStates
    /\ book \in Books
    /\ chain \in Seq(Envelopes) /\ sink \in Seq(Envelopes)

\* The inductive invariant: besides what IngestorSound says, the buffer of a live
\* coordinator is empty, whatever the ingestor reports.
DepthInvariant ==
    /\ DepthTypes
    /\ Drained
    /\ ingestor = "LIVE" => coordinator = "LIVE" /\ book.last = validator.last
    /\ Whole(book)
    /\ SinkComplete

StaysClosed ==
    /\ IsPrefix(sink, sink')
    /\ ingestor = "PERSISTENCE_ERROR" => \/ UNCHANGED vars
                                         \/ ingestor' = "AWAITING_SNAPSHOT" /\ chain' = sink

Keeps == DepthInvariant' /\ StaysClosed

LEMMA PrefixFacts ==
    /\ \A r \in Seq(Envelopes) : IsPrefix(r, r)
    /\ \A r, s : Extends(r, s) => IsPrefix(r, s)
BY ExtendsFacts DEF Extends

\* A step that touches neither the book nor the stores.
LEMMA StoresKept ==
    ASSUME DepthInvariant, Working, UnchangedStores,
           validator' \in Validators, coordinator' \in RecoveryStates, buffer' \in Seq(Events),
           ingestor' \in RecoveryStates, Drained',
           ingestor' = "LIVE" => coordinator' = "LIVE" /\ book.last = validator'.last
    PROVE  Keeps
<1>1. /\ book' = book /\ chain' = chain /\ sink' = sink
      /\ ingestor # "PERSISTENCE_ERROR" /\ ingestor' # "PERSISTENCE_ERROR"
  BY DEF UnchangedStores, Working, RecoveryStates
<1>2. DepthTypes'
  BY <1>1 DEF DepthInvariant, DepthTypes, IngestorStates
<1>3. Whole(book)' /\ SinkComplete'
  BY <1>1 DEF DepthInvariant, Whole, SinkComplete, Working
<1>4. IsPrefix(sink, sink')
  BY <1>1, PrefixFacts DEF DepthInvariant, DepthTypes
<1> QED BY <1>1, <1>2, <1>3, <1>4 DEF Keeps, StaysClosed, DepthInvariant

\* Nothing happens.
LEMMA NothingKept ==
    ASSUME DepthInvariant, UNCHANGED vars
    PROVE  Keeps
<1>1. DepthInvariant'
  BY DEF vars, DepthInvariant, DepthTypes, Drained, Whole, SinkComplete, Working
<1>2. IsPrefix(sink, sink')
  BY PrefixFacts DEF vars, DepthInvariant, DepthTypes
<1> QED BY <1>1, <1>2 DEF Keeps, StaysClosed

LEMMA StartKept ==
    ASSUME DepthInvariant, StartBuffering \/ IngestMalformed
    PROVE  Keeps
<1>1. CASE Working
  <2>1. /\ buffer' = <<>> /\ coordinator' = "AWAITING_SNAPSHOT" /\ validator' = validator
        /\ UnchangedStores /\ ingestor' \in RecoveryStates /\ ingestor' # "LIVE"
    BY <1>1 DEF StartBuffering, IngestMalformed, RestartBuffer, RecoveryStates
  <2>2. /\ validator' \in Validators /\ buffer' \in Seq(Events)
        /\ coordinator' \in RecoveryStates /\ Drained'
    BY <2>1 DEF DepthInvariant, DepthTypes, RecoveryStates, Drained
  <2> QED BY <1>1, <2>1, <2>2, StoresKept
<1>2. CASE ~ Working
  <2>1. UNCHANGED vars
    BY <1>2 DEF StartBuffering, IngestMalformed, UnchangedStores, vars
  <2> QED BY <2>1, NothingKept
<1> QED BY <1>1, <1>2

\* An event that is applied: the book and the validator move to its final id, and
\* its envelope is on disk or the ingestor has failed.
LEMMA ApplyKept ==
    ASSUME DepthInvariant, Working, NEW e \in Events, ApplyLive(e)
    PROVE  Keeps
<1>0. /\ validator \in Validators /\ coordinator = "LIVE" /\ buffer = <<>> /\ book \in Books
      /\ chain \in Seq(Envelopes) /\ sink = chain /\ Whole(book)
      /\ ingestor # "PERSISTENCE_ERROR"
  BY DEF DepthInvariant, DepthTypes, Drained, SinkComplete, Working, ApplyLive, Sequenced
<1>1. /\ validator' = Accepted(validator, e) /\ coordinator' = "LIVE" /\ buffer' = <<>>
      /\ book' = BookAfter(book, e) /\ chain' = Recorded(chain, e)
      /\ BookAccepts(book, e) /\ Verdict(validator, e) = "APPLIED"
      /\ \/ sink' = chain' /\ ingestor' = "LIVE"
         \/ MayFail(chain, e) /\ sink' = sink /\ ingestor' = "PERSISTENCE_ERROR"
  BY <1>0 DEF ApplyLive, Sequenced
<1>2. PICK v : v = validator /\ v \in Validators
  BY <1>0
<1>3. Accepted(v, e) \in Validators /\ Accepted(v, e).last = e.final
  BY <1>1, <1>2, AcceptedFacts
<1>4. validator' \in Validators /\ validator'.last = e.final
  BY <1>1, <1>2, <1>3
<1>5. PICK b : b = book /\ b \in Books /\ Whole(b)
  BY <1>0
<1>6. BookAfter(b, e) \in Books /\ Whole(BookAfter(b, e)) /\ BookAfter(b, e).last = e.final
  BY <1>1, <1>5, BookAfterIn, WholeAfter DEF BookAfter
<1>7. book' \in Books /\ Whole(book)' /\ book'.last = e.final
  BY <1>1, <1>5, <1>6 DEF Whole
<1>8. PICK c : c = chain /\ c \in Seq(Envelopes)
  BY <1>0
<1>9. Recorded(c, e) \in Seq(Envelopes) /\ IsPrefix(c, Recorded(c, e)) /\ IsPrefix(c, c)
  BY <1>8, EventFacts, RecordedExtends, PrefixFacts
<1>10. chain' \in Seq(Envelopes) /\ sink' \in Seq(Envelopes) /\ IsPrefix(sink, sink')
  BY <1>0, <1>1, <1>8, <1>9
<1>11. SinkComplete'
  <2>1. CASE sink' = chain' /\ ingestor' = "LIVE"
    BY <2>1 DEF SinkComplete, Working
  <2>2. CASE MayFail(chain, e) /\ sink' = sink /\ ingestor' = "PERSISTENCE_ERROR"
    <3>1. Recorded(c, e) = Append(c, e) /\ Len(Append(c, e)) = Len(c) + 1
      BY <1>8, <2>2 DEF MayFail, Recorded
    <3> QED BY <1>0, <1>1, <1>8, <2>2, <3>1 DEF SinkComplete, Working
  <2> QED BY <1>1, <2>1, <2>2
<1>12. DepthTypes' /\ Drained'
  <2>1. buffer' \in Seq(Events) /\ coordinator' \in RecoveryStates /\ ingestor' \in IngestorStates
    BY <1>1 DEF RecoveryStates, IngestorStates
  <2> QED BY <1>1, <1>4, <1>7, <1>10, <2>1 DEF DepthTypes, Drained
<1>13. DepthInvariant'
  BY <1>1, <1>4, <1>7, <1>11, <1>12 DEF DepthInvariant
<1> QED BY <1>0, <1>10, <1>13 DEF Keeps, StaysClosed

LEMMA EventKept ==
    ASSUME DepthInvariant, NEW e \in Events, IngestEvent(e)
    PROVE  Keeps
<1>1. CASE ~ Working
  <2>1. UNCHANGED vars
    BY <1>1 DEF IngestEvent
  <2> QED BY <2>1, NothingKept
<1>2. ASSUME Working PROVE Keeps
  <2>0. /\ validator \in Validators /\ coordinator \in RecoveryStates /\ buffer \in Seq(Events)
        /\ Drained
    BY DEF DepthInvariant, DepthTypes
  <2>1. CASE BufferEvent(e) \/ OverflowBuffer(e) \/ RefuseEvent(e)
    <3>1. /\ UnchangedStores /\ validator' = validator
          /\ ingestor' \in {"AWAITING_SNAPSHOT", "RECOVERY_REQUIRED"}
          /\ coordinator' \in {"AWAITING_SNAPSHOT", "RECOVERY_REQUIRED"}
          /\ \/ buffer' = Append(buffer, e)
             \/ buffer' = <<>>
             \/ buffer' = buffer
      BY <2>1 DEF BufferEvent, OverflowBuffer, RefuseEvent
    <3>4. <<>> \in Seq(Events) /\ \A r \in Seq(Events) : Append(r, e) \in Seq(Events)
      BY <1>2
    <3>2. buffer' \in Seq(Events)
      BY <2>0, <3>1, <3>4
    <3>3. /\ validator' \in Validators /\ coordinator' \in RecoveryStates
          /\ ingestor' \in RecoveryStates /\ ingestor' # "LIVE" /\ Drained'
      BY <2>0, <3>1 DEF RecoveryStates, Drained
    <3> QED BY <1>2, <3>1, <3>2, <3>3, StoresKept
  <2>2. CASE IgnoreStale(e)
    BY <2>2, NothingKept DEF IgnoreStale
  <2>3. CASE DetectGap(e) \/ BookRefuses(e)
    <3>1. /\ UnchangedStores /\ validator' = Accepted(validator, e) /\ buffer' = buffer
          /\ ingestor' = "RECOVERY_REQUIRED" /\ coordinator = "LIVE"
          /\ coordinator' \in {"LIVE", "RECOVERY_REQUIRED"}
      BY <2>3 DEF DetectGap, BookRefuses, Sequenced
    <3>2. validator' \in Validators
      BY <2>0, <3>1, AcceptedFacts
    <3>3. /\ buffer' \in Seq(Events) /\ coordinator' \in RecoveryStates
          /\ ingestor' \in RecoveryStates /\ ingestor' # "LIVE" /\ Drained'
      BY <2>0, <3>1 DEF RecoveryStates, Drained
    <3> QED BY <1>2, <3>1, <3>2, <3>3, StoresKept
  <2>4. CASE ApplyLive(e)
    BY <1>2, <2>4, ApplyKept
  <2> QED BY <1>2, <2>1, <2>2, <2>3, <2>4 DEF IngestEvent
<1> QED BY <1>1, <1>2

\* All that was replayed: with a snapshot and the events after it the book is whole,
\* and stands with the validator when it took them all; the sink has every envelope
\* of the chain, or all but the one it failed to write.
LEMMA ReplayKept ==
    ASSUME DepthInvariant, Working, NEW s \in SnapshotIds, ReplayAll(s)
    PROVE  Keeps
<1>0. /\ buffer \in Seq(Events) /\ chain \in Seq(Envelopes) /\ sink = chain
      /\ ingestor # "PERSISTENCE_ERROR"
  BY DEF DepthInvariant, DepthTypes, SinkComplete, Working
<1>1. PICK a \in Replays : /\ a = Replay(s)
                           /\ a.validator.last = BookThrough(SnapshotBook(s), a.applied).last
  BY <1>0, ReplayFacts
<1>2. PICK applied \in Seq(Events) : applied = a.applied
  BY DEF Replays
<1>3. PICK m \in Nat : m = Taken(s, applied) /\ m \in 0 .. Len(applied)
  BY TakenIn
<1>4. PICK taken \in Seq(Events) : /\ taken = SubSeq(applied, 1, m) /\ Len(taken) = m
                                   /\ \A n \in 0 .. m : SubSeq(taken, 1, n) = SubSeq(applied, 1, n)
  <2>1. SubSeq(applied, 1, m) \in Seq(Events) /\ Len(SubSeq(applied, 1, m)) = m
    BY <1>3
  <2>2. \A n \in 0 .. m : SubSeq(SubSeq(applied, 1, m), 1, n) = SubSeq(applied, 1, n)
    BY <1>3
  <2> QED BY <2>1, <2>2
<1>5. PICK envelopes \in Seq(Envelopes) :
         envelopes = <<SnapshotEnvelope(s)>> \o taken /\ DOMAIN envelopes = 1 .. m + 1
  <2>1. SnapshotEnvelope(s) \in Envelopes
    BY EnvelopeFacts
  <2>2. taken \in Seq(Envelopes)
    BY EventFacts
  <2>3. <<SnapshotEnvelope(s)>> \o taken \in Seq(Envelopes)
    BY <2>1, <2>2
  <2>4. Len(<<SnapshotEnvelope(s)>> \o taken) = m + 1
    BY <1>4, <2>1, <2>2
  <2>5. DOMAIN (<<SnapshotEnvelope(s)>> \o taken) = 1 .. m + 1
    BY <2>3, <2>4
  <2> QED BY <2>3, <2>5
<1>6. PICK c : c = chain /\ c \in Seq(Envelopes)
  BY <1>0
<1>7. /\ validator' = a.validator /\ buffer' = <<>> /\ coordinator' = "LIVE"
      /\ \/ /\ book' = BookThrough(SnapshotBook(s), taken)
            /\ chain' = RecordedAll(c, envelopes)
            /\ sink' = chain'
            /\ ingestor' = IF taken = applied THEN "LIVE" ELSE "RECOVERY_REQUIRED"
         \/ \E n \in DOMAIN envelopes :
               LET stored == RecordedAll(c, SubSeq(envelopes, 1, n - 1))
               IN  /\ MayFail(stored, envelopes[n])
                   /\ book' = BookThrough(SnapshotBook(s), SubSeq(taken, 1, n - 1))
                   /\ chain' = Recorded(stored, envelopes[n])
                   /\ sink' = stored
                   /\ ingestor' = "PERSISTENCE_ERROR"
  BY <1>1, <1>2, <1>3, <1>4, <1>5, <1>6 DEF ReplayAll
<1>8. a.validator \in Validators
  BY DEF Replays
<1>9. DepthTypes' /\ Drained' /\ Whole(book)' /\ SinkComplete' /\ IsPrefix(sink, sink')
      <=> /\ ingestor' \in IngestorStates /\ book' \in Books /\ Whole(book')
          /\ chain' \in Seq(Envelopes) /\ sink' \in Seq(Envelopes) /\ SinkComplete' /\ IsPrefix(c, sink')
  <2>1. buffer' \in Seq(Events) /\ coordinator' \in RecoveryStates /\ validator' \in Validators
    BY <1>7, <1>8 DEF RecoveryStates
  <2> QED BY <1>0, <1>6, <1>7, <2>1 DEF DepthTypes, Drained, Whole
<1>10. CASE /\ book' = BookThrough(SnapshotBook(s), taken)
            /\ chain' = RecordedAll(c, envelopes)
            /\ sink' = chain'
            /\ ingestor' = IF taken = applied THEN "LIVE" ELSE "RECOVERY_REQUIRED"
  <2>1. book' \in Books /\ Whole(book')
    <3>1. taken = SubSeq(applied, 1, m) /\ m \in 0 .. Taken(s, applied)
      BY <1>3, <1>4
    <3> QED BY <1>10, <3>1, TakenWhole
  <2>2. chain' \in Seq(Envelopes) /\ sink' \in Seq(Envelopes) /\ IsPrefix(c, sink')
    BY <1>5, <1>6, <1>10, RecordedAllExtends DEF Extends
  <2>3. ingestor' \in IngestorStates /\ ingestor' # "PERSISTENCE_ERROR" /\ SinkComplete'
    BY <1>10 DEF IngestorStates, RecoveryStates, SinkComplete, Working
  <2>4. ingestor' = "LIVE" => coordinator' = "LIVE" /\ book'.last = validator'.last
    BY <1>1, <1>2, <1>7, <1>10
  <2> QED BY <1>0, <1>9, <2>1, <2>2, <2>3, <2>4 DEF Keeps, StaysClosed, DepthInvariant, Whole
<1>11. ASSUME NEW n \in DOMAIN envelopes, NEW stored, NEW x,
              stored = RecordedAll(c, SubSeq(envelopes, 1, n - 1)), x = envelopes[n],
              MayFail(stored, x),
              book' = BookThrough(SnapshotBook(s), SubSeq(taken, 1, n - 1)),
              chain' = Recorded(stored, x), sink' = stored, ingestor' = "PERSISTENCE_ERROR"
       PROVE  Keeps
  <2>1. PICK k \in Nat : k = n - 1 /\ k \in 0 .. m /\ k \in 0 .. Taken(s, applied)
    BY <1>3, <1>5, <1>11
  <2>2. book' \in Books /\ Whole(book')
    <3>1. SubSeq(taken, 1, n - 1) = SubSeq(applied, 1, k)
      BY <1>4, <2>1
    <3> QED BY <1>11, <2>1, <3>1, TakenWhole
  <2>3. x \in Envelopes /\ SubSeq(envelopes, 1, n - 1) \in Seq(Envelopes)
    BY <1>5, <1>11
  <2>4. stored \in Seq(Envelopes) /\ IsPrefix(c, stored)
    BY <1>6, <1>11, <2>3, RecordedAllExtends DEF Extends
  <2>5. Recorded(stored, x) = Append(stored, x)
    BY <1>11 DEF MayFail, Recorded
  <2>6. Append(stored, x) \in Seq(Envelopes) /\ Len(Append(stored, x)) = Len(stored) + 1
    BY <2>3, <2>4
  <2>7. chain' \in Seq(Envelopes) /\ sink' \in Seq(Envelopes) /\ IsPrefix(c, sink')
    BY <1>11, <2>4, <2>5, <2>6
  <2>8. ingestor' \in IngestorStates /\ ingestor' # "LIVE" /\ SinkComplete'
    BY <1>11, <2>5, <2>6 DEF IngestorStates, SinkComplete, Working
  <2> QED BY <1>0, <1>9, <2>2, <2>7, <2>8 DEF Keeps, StaysClosed, DepthInvariant, Whole
<1> QED BY <1>7, <1>10, <1>11

LEMMA SnapshotKept ==
    ASSUME DepthInvariant, NEW s \in SnapshotIds, IngestSnapshot(s)
    PROVE  Keeps
<1>1. CASE ~ Working
  <2>1. UNCHANGED vars
    BY <1>1 DEF IngestSnapshot
  <2> QED BY <2>1, NothingKept
<1>2. ASSUME Working PROVE Keeps
  <2>0. /\ validator \in Validators /\ coordinator \in RecoveryStates /\ buffer \in Seq(Events)
        /\ Drained
    BY DEF DepthInvariant, DepthTypes
  <2>1. CASE SnapshotRefused(s) \/ SnapshotBehind(s)
    <3>1. /\ UnchangedStores /\ validator' = validator /\ coordinator' = coordinator
          /\ buffer' = buffer /\ ingestor' \in {"AWAITING_SNAPSHOT", "RECOVERY_REQUIRED"}
      BY <2>1 DEF SnapshotRefused, SnapshotBehind
    <3>2. /\ validator' \in Validators /\ coordinator' \in RecoveryStates
          /\ buffer' \in Seq(Events)
          /\ ingestor' \in RecoveryStates /\ ingestor' # "LIVE" /\ Drained'
      BY <2>0, <3>1 DEF RecoveryStates, Drained
    <3> QED BY <1>2, <3>1, <3>2, StoresKept
  <2>2. CASE ReplayGap(s)
    <3>1. /\ UnchangedStores /\ validator' = Replay(s).validator /\ buffer' = <<>>
          /\ ingestor' = "RECOVERY_REQUIRED" /\ coordinator' = "RECOVERY_REQUIRED"
      BY <2>2 DEF ReplayGap
    <3>2. validator' \in Validators
      BY <2>0, <3>1, ReplayFacts DEF Replays
    <3>3. /\ buffer' \in Seq(Events) /\ coordinator' \in RecoveryStates
          /\ ingestor' \in RecoveryStates /\ ingestor' # "LIVE" /\ Drained'
      BY <3>1 DEF RecoveryStates, Drained
    <3> QED BY <1>2, <3>1, <3>2, <3>3, StoresKept
  <2>3. CASE ReplayAll(s)
    BY <1>2, <2>3, ReplayKept
  <2> QED BY <1>2, <2>1, <2>2, <2>3 DEF IngestSnapshot
<1> QED BY <1>1, <1>2

LEMMA RestartKept ==
    ASSUME DepthInvariant, Restart
    PROVE  Keeps
<1>1. /\ validator' = Cold /\ coordinator' = "AWAITING_SNAPSHOT" /\ buffer' = <<>>
      /\ ingestor' = "AWAITING_SNAPSHOT" /\ book' = EmptyBook /\ chain' = sink /\ sink' = sink
      /\ sink \in Seq(Envelopes)
  BY DEF Restart, DepthInvariant, DepthTypes
<1>2. Cold \in Validators /\ EmptyBook \in Books /\ Whole(EmptyBook)
  BY DEF Cold, Validators, Marks, EmptyBook, Books, Whole
<1>3. <<>> \in Seq(Events)
  OBVIOUS
<1>4. DepthTypes' /\ Drained'
  BY <1>1, <1>2, <1>3 DEF DepthTypes, Drained, RecoveryStates, IngestorStates
<1>5. Whole(book)' /\ SinkComplete' /\ IsPrefix(sink, sink')
  BY <1>1, <1>2, PrefixFacts DEF Whole, SinkComplete, Working
<1> QED BY <1>1, <1>4, <1>5 DEF Keeps, DepthInvariant, StaysClosed

LEMMA DepthStep ==
    ASSUME DepthInvariant, [Next]_vars
    PROVE  Keeps
<1>1. CASE StartBuffering \/ IngestMalformed
  BY <1>1, StartKept
<1>2. CASE \E e \in Events : IngestEvent(e)
  BY <1>2, EventKept
<1>3. CASE \E s \in SnapshotIds : IngestSnapshot(s)
  BY <1>3, SnapshotKept
<1>4. CASE Restart
  BY <1>4, RestartKept
<1>5. CASE UNCHANGED vars
  BY <1>5, NothingKept
<1> QED BY <1>1, <1>2, <1>3, <1>4, <1>5 DEF Next

LEMMA DepthStart ==
    ASSUME Init
    PROVE  DepthInvariant
<1>1. Cold \in Validators /\ EmptyBook \in Books /\ Whole(EmptyBook)
  BY DEF Cold, Validators, Marks, EmptyBook, Books, Whole
<1>2. <<>> \in Seq(Events) /\ <<>> \in Seq(Envelopes)
  OBVIOUS
<1>3. DepthTypes
  BY <1>1, <1>2 DEF Init, DepthTypes, RecoveryStates, IngestorStates
<1> QED BY <1>1, <1>3 DEF Init, DepthInvariant, Drained, SinkComplete, Working

\* The invariant holds from the first state on.
THEOREM DepthInvariantHolds == Spec => []DepthInvariant
<1>1. Init => DepthInvariant
  BY DepthStart
<1>2. DepthInvariant /\ [Next]_vars => DepthInvariant'
  BY DepthStep DEF Keeps
<1> QED BY <1>1, <1>2, PTL DEF Spec

\* Whatever snapshots and events a source sends and in whatever order, a live book
\* has no hole and nothing left of an older book, stands where the validator
\* expects the next event, and everything in the chain is on disk.
THEOREM IngestorIsSound == Spec => []IngestorSound
<1>1. DepthInvariant => IngestorSound
  BY DEF DepthInvariant, Drained, Whole, IngestorSound, BookWhole, LiveInStep
<1> QED BY <1>1, DepthInvariantHolds, PTL

\* After a failed write the ingestor takes nothing more until it is restarted, and the
\* sink never loses or reorders an envelope.
THEOREM IngestorFailsClosed == Spec => FailsClosed
<1>1. DepthInvariant /\ [Next]_vars =>
         [/\ IsPrefix(sink, sink')
          /\ ingestor = "PERSISTENCE_ERROR" => \/ UNCHANGED vars
                                               \/ ingestor' = "AWAITING_SNAPSHOT" /\ chain' = sink]_vars
  BY DepthStep DEF Keeps, StaysClosed
<1> QED BY <1>1, DepthInvariantHolds, PTL DEF Spec, FailsClosed

-----------------------------------------------------------------------------
(* What a replay reaches *)

\* Events without a link to the event before them, unless the venue links them.
Plain == {e \in Events : ~ Derivatives => e.previous = NoId}

Follows(v) == v.state \in {"READY", "LIVE"} /\ v.last \in Nat

\* The verdicts of a validator that follows a stream.
LEMMA FollowFacts ==
    ASSUME NEW v \in Validators, Follows(v), NEW e \in Events
    PROVE  \/ Verdict(v, e) = "STALE_IGNORED" /\ e.final <= v.last
           \/ /\ Verdict(v, e) = "APPLIED" /\ e.final > v.last /\ Bridges(v.last, e)
              /\ Follows(Accepted(v, e)) /\ Accepted(v, e).last = e.final
           \/ Verdict(v, e) = "GAP_DETECTED"
<1>1. e.final \in Nat /\ v.last \in Nat /\ v.state \in {"READY", "LIVE"}
  BY EventFacts DEF Follows
<1>2. CASE e.final <= v.last
  <2>1. Verdict(v, e) = "STALE_IGNORED"
    BY <1>1, <1>2 DEF Verdict
  <2> QED BY <1>2, <2>1
<1>3. CASE e.final > v.last /\ Bridges(v.last, e) /\ Linked(v, e)
  <2>1. Verdict(v, e) = "APPLIED"
    BY <1>1, <1>3 DEF Verdict
  <2>2. Accepted(v, e).state = "LIVE" /\ Accepted(v, e).last = e.final
    BY <2>1 DEF Accepted
  <2> QED BY <1>1, <1>3, <2>1, <2>2 DEF Follows
<1>4. CASE e.final > v.last /\ ~ (Bridges(v.last, e) /\ Linked(v, e))
  <2>1. Verdict(v, e) = "GAP_DETECTED"
    BY <1>1, <1>4 DEF Verdict
  <2> QED BY <2>1
<1> QED BY <1>1, <1>2, <1>3, <1>4

Reached(a) == a.gap \/ Follows(a.validator)

LEMMA ReplayReaches ==
    ASSUME NEW a \in Replays, Reached(a), NEW e \in Events
    PROVE  /\ Reached(ReplayOne(a, e))
           /\ ~ ReplayOne(a, e).gap =>
                 /\ ~ a.gap
                 /\ e.final <= ReplayOne(a, e).validator.last
                 /\ a.validator.last <= ReplayOne(a, e).validator.last
                 /\ \/ ReplayOne(a, e).applied = a.applied
                    \/ /\ ReplayOne(a, e).applied = Append(a.applied, e)
                       /\ Bridges(a.validator.last, e)
<1>0. /\ a.validator \in Validators /\ a.gap \in BOOLEAN /\ e.final \in Nat
      /\ a = [validator |-> a.validator, applied |-> a.applied, gap |-> a.gap]
  BY EventFacts DEF Replays
<1>1. CASE a.gap
  BY <1>1 DEF ReplayOne
<1>2. ASSUME ~ a.gap
      PROVE  /\ Reached(ReplayOne(a, e))
             /\ ~ ReplayOne(a, e).gap =>
                   /\ e.final <= ReplayOne(a, e).validator.last
                   /\ a.validator.last <= ReplayOne(a, e).validator.last
                   /\ \/ ReplayOne(a, e).applied = a.applied
                      \/ /\ ReplayOne(a, e).applied = Append(a.applied, e)
                         /\ Bridges(a.validator.last, e)
  <2>1. Follows(a.validator) /\ a.validator.last \in Nat
    BY <1>2 DEF Reached, Follows
  <2>2. CASE Verdict(a.validator, e) = "STALE_IGNORED" /\ e.final <= a.validator.last
    <3>1. ReplayOne(a, e) = a
      BY <2>2 DEF ReplayOne
    <3> QED BY <1>2, <2>1, <2>2, <3>1 DEF Reached
  <2>3. CASE /\ Verdict(a.validator, e) = "APPLIED" /\ e.final > a.validator.last
             /\ Bridges(a.validator.last, e)
             /\ Follows(Accepted(a.validator, e)) /\ Accepted(a.validator, e).last = e.final
    <3>1. ReplayOne(a, e) =
             [validator |-> Accepted(a.validator, e), applied |-> Append(a.applied, e), gap |-> a.gap]
      BY <1>0, <1>2, <2>3 DEF ReplayOne, Replays
    <3> QED BY <1>0, <1>2, <2>1, <2>3, <3>1 DEF Reached
  <2>4. CASE Verdict(a.validator, e) = "GAP_DETECTED"
    <3>1. ReplayOne(a, e) =
             [validator |-> Accepted(a.validator, e), applied |-> a.applied, gap |-> TRUE]
      BY <1>0, <1>2, <2>4 DEF ReplayOne, Replays
    <3> QED BY <3>1 DEF Reached
  <2> QED BY <1>0, <2>1, <2>2, <2>3, <2>4, FollowFacts
<1> QED BY <1>0, <1>1, <1>2

\* What the book would say to each of some events, one after the other.
TakesAll(z, s) ==
    \A i \in 1 .. Len(s) : BookAccepts(BookThrough(SnapshotBook(z), SubSeq(s, 1, i - 1)), s[i])

LEMMA TakesOneMore ==
    ASSUME NEW z \in SnapshotIds, NEW s \in Seq(Events), NEW e \in Events, TakesAll(z, s),
           BookAccepts(BookThrough(SnapshotBook(z), s), e)
    PROVE  TakesAll(z, Append(s, e))
<1>0. PICK r, n : r = Append(s, e) /\ n = Len(s)
  OBVIOUS
<1>1. /\ r = Append(s, e) /\ n = Len(s) /\ r \in Seq(Events) /\ n \in Nat
      /\ Len(r) = n + 1 /\ r[n + 1] = e /\ \A i \in 1 .. n : r[i] = s[i]
  <2>1. Len(Append(s, e)) = Len(s) + 1
    OBVIOUS
  <2>2. /\ n \in Nat /\ r \in Seq(Events)
        /\ r[n + 1] = e /\ \A i \in 1 .. n : r[i] = s[i]
    BY <1>0, AppendFacts
  <2> QED BY <1>0, <2>1, <2>2
<1>2. \A i \in 1 .. n : SubSeq(r, 1, i - 1) = SubSeq(s, 1, i - 1)
  BY <1>1
<1>3. SubSeq(r, 1, n) = s
  BY <1>1
<1>4. ASSUME NEW i \in 1 .. Len(r)
      PROVE  BookAccepts(BookThrough(SnapshotBook(z), SubSeq(r, 1, i - 1)), r[i])
  <2>1. CASE i \in 1 .. n
    <3>1. BookAccepts(BookThrough(SnapshotBook(z), SubSeq(s, 1, i - 1)), s[i])
      BY <1>1, <2>1 DEF TakesAll
    <3> QED BY <1>1, <1>2, <2>1, <3>1
  <2>2. CASE i = n + 1
    <3>1. i - 1 = n
      BY <1>1, <2>2
    <3> QED BY <1>1, <1>3, <2>2, <3>1
  <2> QED BY <1>1, <2>1, <2>2
<1> QED BY <1>1, <1>4 DEF TakesAll

\* A replay without a gap reaches past every event of the buffer, and when no event
\* is linked the book takes all that was applied.
LEMMA ReplayEnds ==
    ASSUME NEW z \in SnapshotIds, buffer \in Seq(Plain), ~ Replay(z).gap
    PROVE  /\ Follows(Replay(z).validator)
           /\ \A i \in DOMAIN buffer : buffer[i].final <= Replay(z).validator.last
           /\ ~ Derivatives => TakesAll(z, Replay(z).applied)
<1>0. PICK b : b = Outset(z) /\ b \in Replays /\ b.applied = <<>> /\ Reached(b) /\ b.validator.last = z
  BY OutsetFacts, EnvelopeFacts DEF Reached, Follows, Outset, Ready
<1>1. StepOn(ReplayStep, Replays, Events)
  BY ReplayOneFacts DEF StepOn, ReplayStep
<1>2. /\ Folded(ReplayStep, b, <<>>) = b
      /\ \A s \in Seq(Events) : Folded(ReplayStep, b, s) \in Replays
      /\ \A s \in Seq(Events), e \in Events :
            Folded(ReplayStep, b, Append(s, e)) = ReplayStep[Folded(ReplayStep, b, s)][e]
  BY <1>0, <1>1, FoldRecursion
<1>3. PICK c : c = SnapshotBook(z) /\ c \in Books /\ c.last = z
  BY OutsetFacts
<1>4. /\ BookThrough(c, <<>>) = c
      /\ \A s \in Seq(Events) : BookThrough(c, s) \in Books
      /\ \A s \in Seq(Events), e \in Events :
            BookThrough(c, Append(s, e)) = BookAfter(BookThrough(c, s), e)
  BY <1>3, BookRecursion
<1>5. Plain \subseteq Events /\ Seq(Plain) \subseteq Seq(Events)
  <2>1. Plain \subseteq Events
    BY DEF Plain
  <2> QED BY <2>1
<1> DEFINE InStep(a) == a.validator.last = BookThrough(c, a.applied).last
           FitsIn(a, s) ==
              /\ Reached(a) /\ InStep(a)
              /\ ~ a.gap => /\ \A i \in DOMAIN s : s[i].final <= a.validator.last
                            /\ ~ Derivatives => TakesAll(z, a.applied)
           S == {s \in Seq(Plain) : FitsIn(Folded(ReplayStep, b, s), s)}
<1>6. <<>> \in S
  <2>1. <<>> \in Seq(Plain) /\ DOMAIN <<>> = {} /\ Len(<<>>) = 0
    OBVIOUS
  <2>2. TakesAll(z, <<>>)
    BY <2>1 DEF TakesAll
  <2> QED BY <1>0, <1>2, <1>3, <1>4, <2>1, <2>2
<1>7. ASSUME NEW s \in Seq(Plain), NEW e \in Plain, s \in S
      PROVE  Append(s, e) \in S
  <2>0. e \in Events /\ s \in Seq(Events)
    BY <1>5, <1>7
  <2>1. PICK a \in Replays : a = Folded(ReplayStep, b, s) /\ FitsIn(a, s)
    BY <1>2, <1>7, <2>0
  <2>2. PICK r : r = ReplayOne(a, e) /\ r = Folded(ReplayStep, b, Append(s, e))
    BY <1>2, <2>0, <2>1 DEF ReplayStep
  <2>3. Reached(a) /\ InStep(a) /\ a.applied \in Seq(Events)
    BY <2>1 DEF Replays
  <2>4. Reached(r) /\ r \in Replays
    BY <2>0, <2>1, <2>2, <2>3, ReplayReaches, ReplayOneFacts
  <2>5. InStep(r)
    <3>1. BookThrough(c, Append(a.applied, e)).last = e.final
      BY <1>4, <2>0, <2>3 DEF BookAfter
    <3>2. \/ r.applied = Append(a.applied, e) /\ r.validator.last = e.final
          \/ r.applied = a.applied /\ r.validator.last = a.validator.last
      <4>1. \/ /\ ReplayOne(a, e).applied = Append(a.applied, e)
               /\ ReplayOne(a, e).validator.last = e.final
            \/ /\ ReplayOne(a, e).applied = a.applied
               /\ ReplayOne(a, e).validator.last = a.validator.last
        BY <2>0, ReplayOneFacts
      <4> QED BY <2>2, <4>1
    <3>3. CASE r.applied = Append(a.applied, e) /\ r.validator.last = e.final
      BY <3>1, <3>3
    <3>4. CASE r.applied = a.applied /\ r.validator.last = a.validator.last
      BY <2>3, <3>4
    <3> QED BY <3>2, <3>3, <3>4
  <2>6. ASSUME ~ r.gap
        PROVE  /\ \A i \in DOMAIN Append(s, e) : Append(s, e)[i].final <= r.validator.last
               /\ ~ Derivatives => TakesAll(z, r.applied)
    <3>1. /\ ~ a.gap /\ e.final <= r.validator.last /\ a.validator.last <= r.validator.last
          /\ \/ r.applied = a.applied
             \/ r.applied = Append(a.applied, e) /\ Bridges(a.validator.last, e)
      BY <2>0, <2>1, <2>2, <2>3, <2>6, ReplayReaches
    <3>2. /\ \A i \in DOMAIN s : s[i].final <= a.validator.last
          /\ ~ Derivatives => TakesAll(z, a.applied)
      BY <2>1, <3>1
    <3>3. a.validator.last \in Nat /\ r.validator.last \in Nat
      BY <2>3, <2>4, <2>6, <3>1 DEF Reached, Follows
    <3>4. ASSUME NEW i \in DOMAIN Append(s, e) PROVE Append(s, e)[i].final <= r.validator.last
      <4>1. \/ i \in DOMAIN s /\ Append(s, e)[i] = s[i]
            \/ Append(s, e)[i] = e
        BY <2>0, <3>4
      <4>2. ASSUME i \in DOMAIN s PROVE s[i].final <= r.validator.last
        <5>1. s[i] \in Events
          BY <2>0, <4>2
        <5>2. s[i].final \in Nat
          BY <5>1, EventFacts
        <5> QED BY <3>1, <3>2, <3>3, <4>2, <5>2
      <4> QED BY <3>1, <4>1, <4>2
    <3>5. ASSUME ~ Derivatives PROVE TakesAll(z, r.applied)
      <4>1. CASE r.applied = a.applied
        BY <3>2, <3>5, <4>1
      <4>2. CASE r.applied = Append(a.applied, e) /\ Bridges(a.validator.last, e)
        <5>1. e.previous = NoId
          BY <1>7, <3>5 DEF Plain
        <5>2. PICK y : y = BookThrough(c, a.applied) /\ y.last = a.validator.last
          BY <2>3
        <5>3. y.last # NoId
          BY <3>3, <5>2, DepthAssumption
        <5>4. BookAccepts(y, e)
          BY <4>2, <5>1, <5>2, <5>3 DEF BookAccepts
        <5> QED BY <1>3, <2>0, <2>3, <3>2, <3>5, <4>2, <5>2, <5>4, TakesOneMore
      <4> QED BY <3>1, <4>1, <4>2
    <3> QED BY <3>4, <3>5
  <2>7. Append(s, e) \in Seq(Plain)
    BY <1>7
  <2> QED BY <2>2, <2>4, <2>5, <2>6, <2>7
<1> HIDE DEF S
<1>8. Seq(Plain) \subseteq S
  BY <1>6, <1>7, SeqInduction
<1>9. Replay(z) = Folded(ReplayStep, b, buffer)
  BY <1>0, <1>5, ReplayFold
<1>10. FitsIn(Replay(z), buffer)
  BY <1>8, <1>9 DEF S
<1> QED BY <1>10 DEF Reached

-----------------------------------------------------------------------------
(* What the chain covers *)

Covers(x, id) == (x.first # NoId => x.first <= id) /\ id <= x.final
CoveredBy(ids, c) == \A id \in ids : \E n \in DOMAIN c : Covers(c[n], id)
Has(c, x) == \E n \in DOMAIN c : c[n] = x

LEMMA HasFacts ==
    /\ \A c, d : Extends(c, d) => \A x : Has(c, x) => Has(d, x)
    /\ \A c, d, ids : Extends(c, d) /\ CoveredBy(ids, c) => CoveredBy(ids, d)
    /\ \A c \in Seq(Envelopes), x \in Envelopes : Has(Recorded(c, x), x)
<1>1. ASSUME NEW c, NEW d, Extends(c, d), NEW n \in DOMAIN c
      PROVE  n \in DOMAIN d /\ d[n] = c[n]
  <2>1. /\ c \in Seq(Envelopes) /\ d \in Seq(Envelopes) /\ Len(c) <= Len(d)
        /\ SubSeq(c, 1, Len(c)) = SubSeq(d, 1, Len(c))
    BY <1>1 DEF Extends, IsPrefix
  <2>2. Len(c) \in Nat /\ Len(d) \in Nat /\ n \in 1 .. Len(c) /\ n \in 1 .. Len(d)
    BY <1>1, <2>1
  <2>3. c[n] = SubSeq(c, 1, Len(c))[n] /\ d[n] = SubSeq(d, 1, Len(c))[n]
    BY <2>1, <2>2
  <2> QED BY <2>1, <2>2, <2>3
<1>2. ASSUME NEW c, NEW d, Extends(c, d), NEW x, Has(c, x) PROVE Has(d, x)
  BY <1>1, <1>2 DEF Has
<1>3. ASSUME NEW c, NEW d, NEW ids, Extends(c, d), CoveredBy(ids, c) PROVE CoveredBy(ids, d)
  <2>1. ASSUME NEW id \in ids PROVE \E n \in DOMAIN d : Covers(d[n], id)
    <3>1. PICK n \in DOMAIN c : Covers(c[n], id)
      BY <1>3, <2>1 DEF CoveredBy
    <3> QED BY <1>1, <1>3, <3>1
  <2> QED BY <2>1 DEF CoveredBy
<1>4. ASSUME NEW c \in Seq(Envelopes), NEW x \in Envelopes PROVE Has(Recorded(c, x), x)
  <2>1. CASE x \in Range(c)
    BY <2>1 DEF Recorded, Range, Has
  <2>2. CASE x \notin Range(c)
    <3>1. Len(c) + 1 \in DOMAIN Append(c, x) /\ Append(c, x)[Len(c) + 1] = x
      BY <1>4
    <3> QED BY <2>2, <3>1 DEF Recorded, Has
  <2> QED BY <2>1, <2>2
<1> QED BY <1>2, <1>3, <1>4

LEMMA RecordRecursion ==
    ASSUME NEW c \in Seq(Envelopes)
    PROVE  /\ RecordedAll(c, <<>>) = c
           /\ \A s \in Seq(Envelopes) : RecordedAll(c, s) \in Seq(Envelopes)
           /\ \A s \in Seq(Envelopes), e \in Envelopes :
                 RecordedAll(c, Append(s, e)) = Recorded(RecordedAll(c, s), e)
<1>0. c \in Chains
  BY DEF Chains
<1>1. StepOn(RecordStep, Chains, Envelopes)
  BY RecordedExtends DEF StepOn, RecordStep, Chains
<1>2. /\ Folded(RecordStep, c, <<>>) = c
      /\ \A s \in Seq(Envelopes) : Folded(RecordStep, c, s) \in Chains
      /\ \A s \in Seq(Envelopes), e \in Envelopes :
            Folded(RecordStep, c, Append(s, e)) = RecordStep[Folded(RecordStep, c, s)][e]
  BY <1>0, <1>1, FoldRecursion
<1>3. <<>> \in Seq(Envelopes) /\ \A s \in Seq(Envelopes), e \in Envelopes : Append(s, e) \in Seq(Envelopes)
  OBVIOUS
<1>4. \A y \in Chains, e \in Envelopes : RecordStep[y][e] = Recorded(y, e)
  BY DEF RecordStep
<1>5. \A s \in Seq(Envelopes) : RecordedAll(c, s) = Folded(RecordStep, c, s)
  BY <1>0, RecordFold
<1>6. \A s \in Seq(Envelopes) : RecordedAll(c, s) \in Chains
  BY <1>2, <1>5
<1>7. RecordedAll(c, <<>>) = c
  BY <1>2, <1>3, <1>5
<1>8. ASSUME NEW s \in Seq(Envelopes), NEW e \in Envelopes
      PROVE  RecordedAll(c, Append(s, e)) = Recorded(RecordedAll(c, s), e)
  <2>1. PICK y \in Chains : y = Folded(RecordStep, c, s) /\ y = RecordedAll(c, s)
    BY <1>2, <1>5, <1>8
  <2>2. PICK q \in Seq(Envelopes) : q = Append(s, e)
    BY <1>3, <1>8
  <2>3. RecordedAll(c, q) = Folded(RecordStep, c, q)
    BY <1>5
  <2>4. Folded(RecordStep, c, q) = RecordStep[y][e]
    BY <1>2, <1>8, <2>1, <2>2
  <2> QED BY <1>4, <1>8, <2>1, <2>2, <2>3, <2>4
<1>9. \A s \in Seq(Envelopes) : RecordedAll(c, s) \in Seq(Envelopes)
  BY <1>6 DEF Chains
<1> QED BY <1>7, <1>8, <1>9

\* Every envelope that is recorded is in the chain.
LEMMA AllRecorded ==
    ASSUME NEW c \in Seq(Envelopes)
    PROVE  \A s \in Seq(Envelopes) : \A i \in DOMAIN s : Has(RecordedAll(c, s), s[i])
<1> DEFINE S == {s \in Seq(Envelopes) : \A i \in DOMAIN s : Has(RecordedAll(c, s), s[i])}
<1>1. <<>> \in S
  <2>1. <<>> \in Seq(Envelopes) /\ DOMAIN <<>> = {}
    OBVIOUS
  <2> QED BY <2>1
<1>2. ASSUME NEW s \in Seq(Envelopes), NEW e \in Envelopes, s \in S
      PROVE  Append(s, e) \in S
  <2>1. PICK d : d = RecordedAll(c, s) /\ d \in Seq(Envelopes)
    BY <1>2, RecordRecursion
  <2>2. RecordedAll(c, Append(s, e)) = Recorded(d, e)
    BY <1>2, <2>1, RecordRecursion
  <2>3. Extends(d, Recorded(d, e)) /\ Has(Recorded(d, e), e)
    BY <1>2, <2>1, RecordedExtends, HasFacts
  <2>4. ASSUME NEW i \in DOMAIN Append(s, e) PROVE Has(Recorded(d, e), Append(s, e)[i])
    <3>1. \/ i \in DOMAIN s /\ Append(s, e)[i] = s[i]
          \/ Append(s, e)[i] = e
      BY <1>2, <2>4
    <3>2. CASE i \in DOMAIN s /\ Append(s, e)[i] = s[i]
      <4>1. Has(d, s[i])
        BY <1>2, <2>1, <3>2
      <4>2. Has(Recorded(d, e), s[i])
        BY <2>3, <4>1, HasFacts
      <4> QED BY <3>2, <4>2
    <3>3. CASE Append(s, e)[i] = e
      BY <2>3, <3>3
    <3> QED BY <3>1, <3>2, <3>3
  <2>5. Append(s, e) \in Seq(Envelopes)
    BY <1>2
  <2> QED BY <2>2, <2>4, <2>5
<1> HIDE DEF S
<1>3. Seq(Envelopes) \subseteq S
  BY <1>1, <1>2, SeqInduction
<1> QED BY <1>3 DEF S

\* An update in the book was in it, or came with an event.
LEMMA BookIds ==
    ASSUME NEW b \in Books
    PROVE  \A r \in Seq(Events) : \A id \in BookThrough(b, r).ids :
              id \in b.ids \/ \E i \in DOMAIN r : id \in r[i].first .. r[i].final
<1> DEFINE From(id, r) == id \in b.ids \/ \E i \in DOMAIN r : id \in r[i].first .. r[i].final
           S == {r \in Seq(Events) : \A id \in BookThrough(b, r).ids : From(id, r)}
<1>1. <<>> \in S
  <2>1. <<>> \in Seq(Events)
    OBVIOUS
  <2> QED BY <2>1, BookRecursion
<1>2. ASSUME NEW r \in Seq(Events), NEW e \in Events, r \in S
      PROVE  Append(r, e) \in S
  <2>1. PICK y : y = BookThrough(b, r)
    OBVIOUS
  <2>2. BookThrough(b, Append(r, e)) = BookAfter(y, e)
    BY <1>2, <2>1, BookRecursion
  <2>3. ASSUME NEW id \in BookAfter(y, e).ids PROVE From(id, Append(r, e))
    <3>1. id \in y.ids \/ id \in e.first .. e.final
      BY <2>3 DEF BookAfter
    <3>2. CASE id \in e.first .. e.final
      <4>1. Len(r) + 1 \in DOMAIN Append(r, e) /\ Append(r, e)[Len(r) + 1] = e
        BY <1>2
      <4> QED BY <3>2, <4>1
    <3>3. CASE id \in y.ids
      <4>1. From(id, r)
        BY <1>2, <2>1, <3>3
      <4>2. \A i \in DOMAIN r : i \in DOMAIN Append(r, e) /\ Append(r, e)[i] = r[i]
        BY <1>2
      <4> QED BY <4>1, <4>2
    <3> QED BY <3>1, <3>2, <3>3
  <2>4. Append(r, e) \in Seq(Events)
    BY <1>2
  <2> QED BY <2>2, <2>3, <2>4
<1> HIDE DEF S
<1>3. Seq(Events) \subseteq S
  BY <1>1, <1>2, SeqInduction
<1> QED BY <1>3 DEF S

\* The chain covers what a snapshot and the events after it put into the book.
LEMMA ReplayCovered ==
    ASSUME NEW s \in SnapshotIds, NEW taken \in Seq(Events), NEW c \in Seq(Envelopes)
    PROVE  CoveredBy(BookThrough(SnapshotBook(s), taken).ids,
                     RecordedAll(c, <<SnapshotEnvelope(s)>> \o taken))
<1>1. PICK x, b : /\ x = SnapshotEnvelope(s) /\ b = SnapshotBook(s)
                  /\ x \in Envelopes /\ b \in Books /\ b.ids = 0 .. s
  BY EnvelopeFacts, OutsetFacts
<1>2. taken \in Seq(Envelopes)
  BY EventFacts
<1>3. PICK r : r = <<x>> \o taken
  OBVIOUS
<1>4. /\ r \in Seq(Envelopes) /\ 1 \in DOMAIN r /\ r[1] = x
      /\ \A i \in DOMAIN taken : i + 1 \in DOMAIN r /\ r[i + 1] = taken[i]
  BY <1>1, <1>2, <1>3
<1>5. PICK d : d = RecordedAll(c, r)
  OBVIOUS
<1>6. \A i \in DOMAIN r : Has(d, r[i])
  BY <1>4, <1>5, AllRecorded
<1>7. ASSUME NEW id \in BookThrough(b, taken).ids PROVE \E n \in DOMAIN d : Covers(d[n], id)
  <2>1. id \in 0 .. s \/ \E i \in DOMAIN taken : id \in taken[i].first .. taken[i].final
    BY <1>1, <1>7, BookIds
  <2>2. CASE id \in 0 .. s
    <3>1. Covers(x, id)
      BY <1>1, <2>2, EnvelopeFacts DEF Covers, SnapshotEnvelope
    <3> QED BY <1>4, <1>6, <3>1 DEF Has
  <2>3. ASSUME NEW i \in DOMAIN taken, id \in taken[i].first .. taken[i].final
        PROVE  \E n \in DOMAIN d : Covers(d[n], id)
    <3>1. PICK e \in Events : e = taken[i]
      BY <2>3
    <3>2. Covers(e, id)
      BY <2>3, <3>1, EventFacts DEF Covers
    <3>3. Has(d, e)
      BY <1>4, <1>6, <2>3, <3>1
    <3> QED BY <3>2, <3>3 DEF Has
  <2> QED BY <2>1, <2>2, <2>3
<1> QED BY <1>1, <1>3, <1>5, <1>7 DEF CoveredBy

-----------------------------------------------------------------------------
(* The ingestor of a session *)

\* What holds of the ingestor of a session besides DepthInvariant.
Aligned ==
    /\ buffer \in Seq(Plain)
    /\ coordinator # "AWAITING_SNAPSHOT" => buffer = <<>>
    /\ coordinator = "LIVE" => Follows(validator)
    /\ ingestor = "AWAITING_SNAPSHOT" => coordinator = "AWAITING_SNAPSHOT"
    /\ Working => CoveredBy(book.ids, chain)
    /\ ~ Derivatives /\ coordinator = "LIVE" /\ Working => book.last = validator.last

\* The last event the ingestor was given ends with the update n.
At(n) ==
    Working => /\ coordinator = "AWAITING_SNAPSHOT" =>
                     n = 0 \/ (buffer # <<>> /\ buffer[Len(buffer)].final = n)
               /\ ingestor = "LIVE" => book.last >= n

LEMMA StartAligned ==
    ASSUME DepthInvariant, Aligned, StartBuffering \/ IngestMalformed
    PROVE  Aligned' /\ (StartBuffering => At(0)') /\ (Working => coordinator' # "LIVE") /\ (Working' => Working)
<1>1. CASE Working
  <2>1. /\ buffer' = <<>> /\ coordinator' = "AWAITING_SNAPSHOT" /\ validator' = validator
        /\ book' = book /\ chain' = chain
        /\ ingestor' \in {"AWAITING_SNAPSHOT", "RECOVERY_REQUIRED"}
    BY <1>1 DEF StartBuffering, IngestMalformed, RestartBuffer, UnchangedStores
  <2>2. <<>> \in Seq(Plain)
    OBVIOUS
  <2>3. Aligned'
    BY <1>1, <2>1, <2>2 DEF Aligned, Working, CoveredBy
  <2>4. At(0)'
    BY <2>1 DEF At
  <2> QED BY <1>1, <2>1, <2>3, <2>4
<1>2. CASE ~ Working
  <2>1. UNCHANGED vars
    BY <1>2 DEF StartBuffering, IngestMalformed, UnchangedStores, vars
  <2> QED BY <1>2, <2>1 DEF Aligned, At, Working, vars, Follows, CoveredBy
<1> QED BY <1>1, <1>2

LEMMA EventAligned ==
    ASSUME DepthInvariant, Aligned, NEW e \in Plain, IngestEvent(e)
    PROVE  /\ Aligned' /\ At(e.final)' /\ (Working' => Working)
           /\ Working /\ coordinator # "LIVE" => coordinator' # "LIVE"
           /\ coordinator # "AWAITING_SNAPSHOT" => coordinator' # "AWAITING_SNAPSHOT"
<1>0. e \in Events /\ e.final \in Nat /\ (~ Derivatives => e.previous = NoId)
  <2>1. e \in Events
    BY DEF Plain
  <2> QED BY <2>1, EventFacts DEF Plain
<1>1. CASE ~ Working
  <2>1. UNCHANGED vars
    BY <1>1 DEF IngestEvent
  <2> QED BY <1>1, <2>1 DEF Aligned, At, Working, vars, Follows, CoveredBy
<1>2. CASE Working /\ BufferEvent(e)
  <2>1. /\ coordinator = "AWAITING_SNAPSHOT" /\ buffer' = Append(buffer, e) /\ validator' = validator
        /\ coordinator' = coordinator /\ ingestor' = "AWAITING_SNAPSHOT"
        /\ book' = book /\ chain' = chain
    BY <1>2 DEF BufferEvent, UnchangedStores
  <2>2. PICK r \in Seq(Plain) : r = buffer
    BY DEF Aligned
  <2>3. PICK q : q = Append(r, e) /\ q \in Seq(Plain) /\ q # <<>> /\ q[Len(q)] = e
    <3>1. Append(r, e) \in Seq(Plain) /\ Append(r, e) # <<>> /\ Append(r, e)[Len(Append(r, e))] = e
      BY <2>2
    <3> QED BY <3>1
  <2>4. buffer' = q
    BY <2>1, <2>2, <2>3
  <2>5. At(e.final)'
    BY <2>1, <2>3, <2>4 DEF At
  <2>6. Aligned'
    BY <1>2, <2>1, <2>3, <2>4 DEF Aligned, Working, CoveredBy
  <2> QED BY <1>2, <2>1, <2>5, <2>6 DEF Working
<1>3. CASE Working /\ (OverflowBuffer(e) \/ RefuseEvent(e))
  <2>1. /\ coordinator' = "RECOVERY_REQUIRED" /\ validator' = validator
        /\ buffer' = <<>> /\ ingestor' = "RECOVERY_REQUIRED"
        /\ book' = book /\ chain' = chain
    BY <1>3 DEF OverflowBuffer, RefuseEvent, UnchangedStores, Aligned
  <2>2. <<>> \in Seq(Plain)
    OBVIOUS
  <2> QED BY <1>3, <2>1, <2>2 DEF Aligned, At, Working, CoveredBy
<1> USE DEF UnchangedStores
<1>4. ASSUME Working, coordinator = "LIVE"
      PROVE  /\ validator \in Validators /\ Follows(validator) /\ buffer = <<>>
             /\ ingestor = "LIVE" => book.last = validator.last
  BY <1>4 DEF DepthInvariant, DepthTypes, Aligned
<1>5. CASE Working /\ IgnoreStale(e)
  <2>1. coordinator = "LIVE" /\ Verdict(validator, e) = "STALE_IGNORED" /\ UNCHANGED vars
    BY <1>5 DEF IgnoreStale
  <2>2. PICK v : v = validator /\ v \in Validators /\ Follows(v)
    BY <1>4, <1>5, <2>1
  <2>3. e.final <= v.last /\ v.last \in Nat
    BY <1>0, <2>1, <2>2, FollowFacts DEF Follows
  <2>4. At(e.final)'
    BY <1>0, <1>4, <1>5, <2>1, <2>2, <2>3 DEF At, vars
  <2>5. Aligned' /\ Working'
    BY <1>5, <2>1 DEF Aligned, Working, vars, Follows, CoveredBy
  <2> QED BY <1>5, <2>1, <2>4, <2>5 DEF vars
<1>6. CASE Working /\ DetectGap(e)
  <2>1. /\ coordinator' = "RECOVERY_REQUIRED" /\ ingestor' = "RECOVERY_REQUIRED"
        /\ coordinator = "LIVE" /\ buffer' = buffer /\ book' = book /\ chain' = chain
    BY <1>6 DEF DetectGap
  <2> QED BY <1>4, <1>6, <2>1 DEF Aligned, At, Working, CoveredBy
<1>7. ASSUME Working, Sequenced(e)
      PROVE  /\ coordinator = "LIVE" /\ coordinator' = "LIVE" /\ buffer' = <<>>
             /\ Follows(validator)' /\ validator'.last = e.final
             /\ Bridges(validator.last, e) /\ validator.last \in Nat
  <2>1. /\ coordinator = "LIVE" /\ Verdict(validator, e) = "APPLIED"
        /\ validator' = Accepted(validator, e) /\ coordinator' = coordinator /\ buffer' = buffer
    BY <1>7 DEF Sequenced
  <2>2. PICK v : v = validator /\ v \in Validators /\ Follows(v)
    BY <1>4, <1>7, <2>1
  <2>3. Bridges(v.last, e) /\ Follows(Accepted(v, e)) /\ Accepted(v, e).last = e.final
    BY <1>0, <2>1, <2>2, FollowFacts
  <2> QED BY <1>4, <1>7, <2>1, <2>2, <2>3 DEF Follows
<1>8. CASE Working /\ BookRefuses(e)
  <2>1. /\ Sequenced(e) /\ ~ BookAccepts(book, e) /\ ingestor' = "RECOVERY_REQUIRED"
        /\ book' = book /\ chain' = chain
    BY <1>8 DEF BookRefuses
  <2>2. Derivatives
    <3>1. SUFFICES ASSUME ~ Derivatives PROVE BookAccepts(book, e)
      BY <2>1
    <3>2. book.last = validator.last
      BY <1>7, <1>8, <2>1, <3>1 DEF Aligned
    <3>3. validator.last # NoId
      BY <1>7, <1>8, <2>1, DepthAssumption
    <3> QED BY <1>0, <1>7, <1>8, <2>1, <3>1, <3>2, <3>3 DEF BookAccepts
  <2>3. <<>> \in Seq(Plain)
    OBVIOUS
  <2> QED BY <1>7, <1>8, <2>1, <2>2, <2>3 DEF Aligned, At, Working, CoveredBy
<1>9. CASE Working /\ ApplyLive(e)
  <2>1. /\ Sequenced(e) /\ book' = BookAfter(book, e) /\ chain' = Recorded(chain, e)
        /\ ingestor' \in {"LIVE", "PERSISTENCE_ERROR"}
    BY <1>9 DEF ApplyLive
  <2>2. PICK c : c = chain /\ c \in Seq(Envelopes) /\ CoveredBy(book.ids, c)
    BY <1>9 DEF DepthInvariant, DepthTypes, Aligned
  <2>3. Extends(c, Recorded(c, e)) /\ Has(Recorded(c, e), e)
    BY <1>0, <2>2, EventFacts, RecordedExtends, HasFacts
  <2>4. CoveredBy(book.ids, Recorded(c, e))
    BY <2>2, <2>3, HasFacts
  <2>5. CoveredBy(book.ids \cup e.first .. e.final, Recorded(c, e))
    <3>1. \A id \in e.first .. e.final : Covers(e, id)
      BY <1>0, EventFacts DEF Covers
    <3> QED BY <2>3, <2>4, <3>1 DEF CoveredBy, Has
  <2>6. book'.ids = book.ids \cup e.first .. e.final /\ book'.last = e.final
    BY <2>1 DEF BookAfter
  <2>7. CoveredBy(book.ids, chain)'
    BY <2>1, <2>2, <2>5, <2>6 DEF CoveredBy
  <2>8. <<>> \in Seq(Plain)
    OBVIOUS
  <2>9. Aligned'
    BY <1>7, <1>9, <2>1, <2>6, <2>7, <2>8 DEF Aligned
  <2>10. At(e.final)'
    BY <1>0, <1>7, <1>9, <2>1, <2>6 DEF At
  <2> QED BY <1>7, <1>9, <2>1, <2>9, <2>10
<1> QED BY <1>1, <1>2, <1>3, <1>5, <1>6, <1>8, <1>9 DEF IngestEvent


\* The book takes all that a replay applied when it would take each of it.
LEMMA TakenAll ==
    ASSUME NEW s \in SnapshotIds, NEW applied \in Seq(Events), TakesAll(s, applied)
    PROVE  SubSeq(applied, 1, Taken(s, applied)) = applied
<1> DEFINE T == {n \in 0 .. Len(applied) :
                    \A i \in 1 .. n :
                       BookAccepts(BookThrough(SnapshotBook(s), SubSeq(applied, 1, i - 1)), applied[i])}
<1>1. Taken(s, applied) = Max(T)
  BY DEF Taken
<1>2. Len(applied) \in Nat /\ Len(applied) \in T /\ T \subseteq 0 .. Len(applied)
  BY DEF TakesAll
<1> HIDE DEF T
<1>3. PICK m \in Nat : m = Max(T) /\ m = Len(applied)
  <2>1. Max(T) \in T /\ \A i \in T : i <= Max(T)
    BY <1>2, MaxOf
  <2>2. PICK l, k : l = Len(applied) /\ k = Max(T)
    OBVIOUS
  <2>3. l \in Nat /\ k \in 0 .. l /\ l <= k
    BY <1>2, <2>1, <2>2
  <2>4. k = l
    BY <2>3
  <2> QED BY <2>2, <2>3, <2>4
<1>4. SubSeq(applied, 1, m) = applied
  BY <1>3
<1> QED BY <1>1, <1>3, <1>4

LEMMA SnapshotAligned ==
    ASSUME DepthInvariant, Aligned, NEW s \in SnapshotIds, IngestSnapshot(s),
           Working => coordinator # "LIVE", NEW n \in Nat
    PROVE  Aligned' /\ (At(n) => At(n)') /\ (Working' => Working)
<1>1. CASE ~ Working
  <2>1. UNCHANGED vars
    BY <1>1 DEF IngestSnapshot
  <2> QED BY <1>1, <2>1 DEF Aligned, At, Working, vars, Follows, CoveredBy
<1>2. CASE Working /\ SnapshotRefused(s)
  <2>1. /\ coordinator = "RECOVERY_REQUIRED" /\ ingestor' = "RECOVERY_REQUIRED"
        /\ UNCHANGED <<validator, coordinator, buffer, book, chain>>
    BY <1>2 DEF SnapshotRefused, UnchangedStores
  <2> QED BY <1>2, <2>1 DEF Aligned, At, Working, CoveredBy
<1>3. CASE Working /\ SnapshotBehind(s)
  <2>1. /\ coordinator = "AWAITING_SNAPSHOT" /\ ingestor' = "AWAITING_SNAPSHOT"
        /\ UNCHANGED <<validator, coordinator, buffer, book, chain>>
    BY <1>3 DEF SnapshotBehind, UnchangedStores, Behind, Aligned
  <2>2. Aligned'
    BY <1>3, <2>1 DEF Aligned, Working, CoveredBy
  <2>3. At(n) => At(n)'
    BY <1>3, <2>1 DEF At
  <2> QED BY <1>3, <2>2, <2>3
<1>4. CASE Working /\ ReplayGap(s)
  <2>1. /\ coordinator' = "RECOVERY_REQUIRED" /\ ingestor' = "RECOVERY_REQUIRED"
        /\ buffer' = <<>> /\ UNCHANGED <<book, chain>>
    BY <1>4 DEF ReplayGap, UnchangedStores
  <2>2. <<>> \in Seq(Plain)
    OBVIOUS
  <2> QED BY <1>4, <2>1, <2>2 DEF Aligned, At, Working, CoveredBy
<1>5. CASE Working /\ ReplayAll(s)
  <2>1. /\ buffer \in Seq(Plain) /\ buffer \in Seq(Events) /\ chain \in Seq(Envelopes)
        /\ coordinator = "AWAITING_SNAPSHOT" /\ ~ Replay(s).gap
    BY <1>5 DEF DepthInvariant, DepthTypes, Aligned, ReplayAll, RecoveryStates
  <2>2. PICK a \in Replays : /\ a = Replay(s)
                             /\ a.validator.last = BookThrough(SnapshotBook(s), a.applied).last
    BY <2>1, ReplayFacts
  <2>3. /\ Follows(a.validator)
        /\ \A i \in DOMAIN buffer : buffer[i].final <= a.validator.last
        /\ ~ Derivatives => TakesAll(s, a.applied)
    BY <2>1, <2>2, ReplayEnds
  <2>4. PICK applied \in Seq(Events) : applied = a.applied
    BY DEF Replays
  <2>5. PICK taken : taken = SubSeq(applied, 1, Taken(s, applied)) /\ taken \in Seq(Events)
    <3>1. PICK m : m = Taken(s, applied) /\ m \in 0 .. Len(applied)
      BY TakenIn
    <3>2. SubSeq(applied, 1, m) \in Seq(Events)
      BY <3>1
    <3> QED BY <3>1, <3>2
  <2>6. ~ Derivatives => taken = applied
    BY <2>3, <2>4, <2>5, TakenAll
  <2>7. PICK c : c = chain /\ c \in Seq(Envelopes)
    BY <2>1
  <2>8. /\ validator' = a.validator /\ buffer' = <<>> /\ coordinator' = "LIVE"
        /\ \/ /\ book' = BookThrough(SnapshotBook(s), taken)
              /\ chain' = RecordedAll(c, <<SnapshotEnvelope(s)>> \o taken)
              /\ ingestor' = IF taken = applied THEN "LIVE" ELSE "RECOVERY_REQUIRED"
           \/ ingestor' = "PERSISTENCE_ERROR"
    BY <1>5, <2>2, <2>4, <2>5, <2>7 DEF ReplayAll
  <2>9. <<>> \in Seq(Plain)
    OBVIOUS
  <2>10. CASE ingestor' = "PERSISTENCE_ERROR"
    BY <1>5, <2>3, <2>8, <2>9, <2>10 DEF Aligned, At, Working, Follows
  <2>11. CASE /\ book' = BookThrough(SnapshotBook(s), taken)
              /\ chain' = RecordedAll(c, <<SnapshotEnvelope(s)>> \o taken)
              /\ ingestor' = IF taken = applied THEN "LIVE" ELSE "RECOVERY_REQUIRED"
    <3>1. CoveredBy(book.ids, chain)'
      <4>1. CoveredBy(BookThrough(SnapshotBook(s), taken).ids,
                      RecordedAll(c, <<SnapshotEnvelope(s)>> \o taken))
        BY <2>5, <2>7, ReplayCovered
      <4> QED BY <2>11, <4>1 DEF CoveredBy
    <3>2. taken = applied => book'.last = a.validator.last
      BY <2>2, <2>4, <2>11
    <3>3. Aligned'
      BY <2>3, <2>6, <2>8, <2>9, <2>11, <3>1, <3>2 DEF Aligned, Follows
    <3>4. ASSUME At(n) PROVE n <= a.validator.last
      <4>1. n = 0 \/ (buffer # <<>> /\ buffer[Len(buffer)].final = n)
        BY <1>5, <2>1, <3>4 DEF At
      <4>2. CASE n = 0
        BY <2>3, <4>2 DEF Follows
      <4>3. CASE buffer # <<>> /\ buffer[Len(buffer)].final = n
        <5>1. Len(buffer) \in DOMAIN buffer
          BY <2>1, <4>3
        <5> QED BY <2>3, <4>3, <5>1
      <4> QED BY <4>1, <4>2, <4>3
    <3>5. ASSUME At(n) PROVE At(n)'
      <4>1. a.validator.last \in Nat
        BY <2>3 DEF Follows
      <4>2. ingestor' = "LIVE" => book'.last >= n
        BY <2>11, <3>2, <3>4, <3>5, <4>1
      <4> QED BY <2>8, <4>2 DEF At
    <3> QED BY <1>5, <3>3, <3>5
  <2> QED BY <2>8, <2>10, <2>11
<1> QED BY <1>1, <1>2, <1>3, <1>4, <1>5 DEF IngestSnapshot

-----------------------------------------------------------------------------
(* The tasks of a session *)

Items == Plain \cup {Malform, Sentinel}

Busy == main \in {"fetching", "draining"}

\* What the queue and the producer hold, and where the tasks can be.
Pipes ==
    /\ feed \in Nat /\ delivered \in Nat /\ failed \in BOOLEAN
    /\ queue \in Seq(Items)
    /\ producer = "putting" => \E x \in Plain \cup {Malform} : held = <<x>>
    /\ producer # "putting" => held = <<>>
    /\ main \in {"top", "fetching", "draining", "cancelling", "gathering", "returned",
                 "backoff", "ended"}
    /\ producer \in {"reading", "putting", "ending", "done"}
    /\ consumer \in {"running", "done"}
    /\ main \in {"top", "returned", "backoff", "ended"} => producer = "done" /\ consumer = "done"
    /\ main \in {"cancelling", "gathering"} => cycle # "COMPLETED"

\* In a cycle that is not told to end, the sentinel comes last and the consumer ends
\* with it.
InOrder ==
    Busy =>
        /\ producer # "done" => \A i \in DOMAIN queue : queue[i] # Sentinel
        /\ \A i \in DOMAIN queue : queue[i] = Sentinel => i = Len(queue)
        /\ consumer = "done" => producer = "done" /\ queue = <<>>
        /\ ~ poisoned => held # <<Malform>> /\ \A i \in DOMAIN queue : queue[i] # Malform
        /\ main = "fetching" /\ Working => coordinator # "LIVE"
        /\ main = "draining" /\ ~ poisoned => coordinator # "AWAITING_SNAPSHOT"

\* The last event of the connection waits to be put, is the last of the queue, or is
\* the last the ingestor was given.
Flow ==
    Busy /\ ~ poisoned =>
        \/ held # <<>> /\ held[1].final = delivered
        \/ /\ held = <<>> /\ queue # <<>>
           /\ queue[Len(queue)] # Sentinel /\ queue[Len(queue)].final = delivered
        \/ /\ held = <<>> /\ Len(queue) > 1
           /\ queue[Len(queue)] = Sentinel /\ queue[Len(queue) - 1].final = delivered
        \/ held = <<>> /\ (queue = <<>> \/ queue = <<Sentinel>>) /\ At(delivered)

SessionInvariant ==
    DepthInvariant /\ Aligned /\ Pipes /\ InOrder /\ Flow /\ CompletedIsCurrent

LEMMA ItemFacts ==
    /\ Sentinel \notin Plain /\ Sentinel # Malform /\ Malform \notin Plain
    /\ Plain \subseteq Events /\ Malform \notin Events /\ Sentinel \notin Events
<1>1. Malform \notin Events
  <2>1. SUFFICES ASSUME Malform \in Events PROVE FALSE
    OBVIOUS
  <2>2. Malform \in [first : Nat, final : Nat, previous : Nat \cup {NoId}]
    BY <2>1, DepthAssumption
  <2>3. DOMAIN Malform = {"malformed"}
    BY DEF Malform
  <2>4. "first" \in DOMAIN Malform
    BY <2>2
  <2> QED BY <2>3, <2>4
<1> QED BY <1>1, SessionAssumption DEF Plain

\* Nothing that the invariant is about changes.
LEMMA IngestorIdle ==
    ASSUME DepthInvariant, Aligned, UNCHANGED vars
    PROVE  DepthInvariant' /\ Aligned' /\ (\A n \in Nat : At(n) => At(n)')
<1>1. DepthInvariant'
  BY NothingKept DEF Keeps
<1>2. Aligned'
  BY DEF Aligned, vars, Working, Follows, CoveredBy
<1>3. \A n \in Nat : At(n) => At(n)'
  BY DEF At, vars, Working
<1> QED BY <1>1, <1>2, <1>3

LEMMA SessionIdle ==
    ASSUME SessionInvariant, UNCHANGED <<vars, taskVars, sourceVars, cycle>>
    PROVE  SessionInvariant'
<1>1. DepthInvariant' /\ Aligned'
  BY IngestorIdle DEF SessionInvariant
<1>2. UNCHANGED <<main, producer, held, consumer, queue, feed, delivered, produced, failed, poisoned, cycle>>
  BY DEF taskVars, sourceVars
<1>3. UNCHANGED <<validator, coordinator, buffer, ingestor, book, chain, sink>>
  BY DEF vars
<1>4. Pipes'
  BY <1>2 DEF SessionInvariant, Pipes
<1>5. InOrder'
  BY <1>2, <1>3 DEF SessionInvariant, InOrder, Busy, Working
<1>6. Flow'
  BY <1>2, <1>3 DEF SessionInvariant, Flow, Busy, At, Working
<1>7. CompletedIsCurrent'
  BY <1>2, <1>3 DEF SessionInvariant, CompletedIsCurrent
<1> QED BY <1>1, <1>4, <1>5, <1>6, <1>7 DEF SessionInvariant

\* The steps of the session between two cycles.
LEMMA SessionRests ==
    ASSUME SessionInvariant, StoppedAtTop \/ CycleEnds \/ Exhausted \/ Reconnect \/ WaitBackoff
    PROVE  SessionInvariant'
<1>1. /\ main \in {"top", "returned", "backoff"} /\ main' \in {"ended", "backoff", "top"}
      /\ UNCHANGED <<vars, producer, held, consumer, queue, sourceVars, cycle>>
  BY DEF StoppedAtTop, CycleEnds, Exhausted, Reconnect, WaitBackoff, End
<1>2. DepthInvariant' /\ Aligned'
  BY <1>1, IngestorIdle DEF SessionInvariant
<1>3. UNCHANGED <<producer, held, consumer, queue, feed, delivered, failed, cycle>>
  BY <1>1 DEF sourceVars
<1>4. Pipes'
  BY <1>1, <1>3 DEF SessionInvariant, Pipes
<1>5. InOrder' /\ Flow' /\ CompletedIsCurrent'
  BY <1>1 DEF InOrder, Flow, Busy, CompletedIsCurrent
<1> QED BY <1>2, <1>4, <1>5 DEF SessionInvariant

LEMMA CycleStarts ==
    ASSUME SessionInvariant, StartCycle
    PROVE  SessionInvariant'
<1>1. /\ StartBuffering /\ main = "top" /\ main' = "fetching"
      /\ producer' = "reading" /\ consumer' = "running" /\ held' = <<>> /\ queue' = <<>>
      /\ feed' \in feed .. feed + 1 /\ delivered' = 0 /\ failed' = FALSE /\ cycle' = cycle
  BY DEF StartCycle, sessionVars
<1>2. DepthInvariant'
  BY <1>1, StartKept DEF SessionInvariant, Keeps
<1>3. Aligned' /\ At(0)' /\ (Working => coordinator' # "LIVE") /\ (Working' => Working)
  BY <1>1, StartAligned DEF SessionInvariant
<1>4. Pipes'
  <2>1. <<>> \in Seq(Items)
    OBVIOUS
  <2>2. feed' \in Nat
    BY <1>1 DEF SessionInvariant, Pipes
  <2> QED BY <1>1, <2>1, <2>2 DEF Pipes
<1>5. InOrder'
  <2>1. held' # <<Malform>>
    BY <1>1
  <2> QED BY <1>1, <1>3, <2>1 DEF InOrder
<1>6. Flow'
  BY <1>1, <1>3 DEF Flow, At
<1>7. CompletedIsCurrent'
  BY <1>1 DEF CompletedIsCurrent
<1> QED BY <1>2, <1>3, <1>4, <1>5, <1>6, <1>7 DEF SessionInvariant


\* The producer puts an item into the queue, or waits with it.
LEMMA ItemPut ==
    ASSUME SessionInvariant, NEW item \in Plain \cup {Malform},
           producer \in {"reading", "putting"}, Put(item),
           UNCHANGED <<vars, main, consumer, failed, cycle>>,
           feed' \in Nat, delivered' \in Nat,
           poisoned => poisoned',
           Busy /\ ~ poisoned' => item \in Plain /\ item.final = delivered'
    PROVE  SessionInvariant'
<1>0. /\ Pipes /\ InOrder
      /\ UNCHANGED <<validator, coordinator, buffer, ingestor, book, chain, sink>>
      /\ main' = main /\ consumer' = consumer /\ failed' = failed /\ cycle' = cycle
  BY DEF SessionInvariant, vars
<1>1. item \in Items /\ item # Sentinel /\ (item \in Plain => item # Malform)
  BY ItemFacts DEF Items
<1>2. DepthInvariant' /\ Aligned'
  BY IngestorIdle DEF SessionInvariant
<1>3. \/ /\ queue' = Append(queue, item) /\ held' = <<>> /\ producer' \in {"ending", "reading"}
      \/ /\ queue' = queue /\ held' = <<item>> /\ producer' = "putting"
  BY DEF Put, HasPut
<1>4. main \notin {"top", "returned", "backoff", "ended"}
  BY <1>0 DEF Pipes
<1>5. PICK q \in Seq(Items) : q = queue
  BY <1>0 DEF Pipes
<1>6. /\ Append(q, item) \in Seq(Items) /\ Append(q, item) # <<>>
      /\ Append(q, item)[Len(Append(q, item))] = item
      /\ \A i \in DOMAIN Append(q, item) :
            \/ i \in DOMAIN q /\ Append(q, item)[i] = q[i]
            \/ Append(q, item)[i] = item
  BY <1>1
<1>7. <<item>> # <<>> /\ <<item>>[1] = item
  OBVIOUS
<1>8. Pipes'
  <2>1. queue' \in Seq(Items)
    BY <1>3, <1>5, <1>6
  <2>2. producer' = "putting" => \E x \in Plain \cup {Malform} : held' = <<x>>
    BY <1>3
  <2>3. producer' # "putting" => held' = <<>>
    BY <1>3
  <2>4. producer' \in {"reading", "putting", "ending", "done"}
    BY <1>3
  <2> QED BY <1>0, <1>4, <2>1, <2>2, <2>3, <2>4 DEF Pipes
<1>9. InOrder'
  <2>1. SUFFICES ASSUME Busy' PROVE InOrder'
    BY DEF InOrder
  <2>2. /\ \A i \in DOMAIN queue : queue[i] # Sentinel
        /\ consumer # "done"
        /\ ~ poisoned => \A i \in DOMAIN queue : queue[i] # Malform
        /\ main = "fetching" /\ Working => coordinator # "LIVE"
        /\ main = "draining" /\ ~ poisoned => coordinator # "AWAITING_SNAPSHOT"
    BY <1>0, <2>1 DEF InOrder, Busy
  <2>3. \A i \in DOMAIN queue' : queue'[i] # Sentinel
    BY <1>1, <1>3, <1>5, <1>6, <2>2
  <2>4. ~ poisoned' => held' # <<Malform>> /\ \A i \in DOMAIN queue' : queue'[i] # Malform
    <3>1. SUFFICES ASSUME ~ poisoned' PROVE held' # <<Malform>> /\ \A i \in DOMAIN queue' : queue'[i] # Malform
      OBVIOUS
    <3>2. item # Malform /\ ~ poisoned
      BY <1>0, <1>1, <2>1, <3>1 DEF Busy
    <3>3. <<item>> # <<Malform>> /\ <<>> # <<Malform>>
      BY <3>2
    <3> QED BY <1>3, <1>5, <1>6, <2>2, <3>2, <3>3
  <2> QED BY <1>0, <2>2, <2>3, <2>4 DEF InOrder, Busy, Working
<1>10. Flow'
  <2>1. SUFFICES ASSUME Busy', ~ poisoned' PROVE Flow'
    BY DEF Flow
  <2>2. item \in Plain /\ item.final = delivered'
    BY <1>0, <2>1 DEF Busy
  <2>3. CASE queue' = Append(queue, item) /\ held' = <<>>
    <3>1. queue' # <<>> /\ queue'[Len(queue')] = item
      BY <1>5, <1>6, <2>3
    <3> QED BY <1>1, <2>2, <2>3, <3>1 DEF Flow
  <2>4. CASE held' = <<item>>
    BY <1>7, <2>2, <2>4 DEF Flow
  <2> QED BY <1>3, <2>3, <2>4
<1>11. CompletedIsCurrent'
  BY <1>0, <1>4 DEF CompletedIsCurrent
<1> QED BY <1>2, <1>8, <1>9, <1>10, <1>11 DEF SessionInvariant

LEMMA SourceKept ==
    ASSUME SessionInvariant, Source \/ FinishPut
    PROVE  SessionInvariant'
<1>0. feed \in Nat /\ delivered \in Nat /\ Pipes
  BY DEF SessionInvariant, Pipes
<1>1. ASSUME Produce PROVE SessionInvariant'
  <2>1. PICK e \in Deliverable : /\ Put(e) /\ producer = "reading"
                                 /\ feed' = IF e.final > feed THEN e.final ELSE feed
                                 /\ delivered' = feed'
                                 /\ UNCHANGED <<vars, main, consumer, failed, poisoned, sessionVars>>
    BY <1>1 DEF Produce
  <2>2. e \in Plain /\ e \in Events
    BY DEF Deliverable, Plain
  <2>3. e.first \in Nat /\ e.final \in Nat /\ e.first <= e.final /\ e.first >= feed
    BY <1>0, <2>2, EventFacts DEF Deliverable
  <2>4. e.final >= feed
    BY <1>0, <2>3
  <2>5. feed' = e.final
    BY <1>0, <2>1, <2>3, <2>4
  <2> QED BY <2>1, <2>2, <2>3, <2>5, ItemPut DEF sessionVars
<1>2. ASSUME ProduceMalformed PROVE SessionInvariant'
  <2>1. /\ producer = "reading" /\ Put(Malform) /\ poisoned' = TRUE
        /\ UNCHANGED <<vars, main, consumer, feed, delivered, failed, sessionVars>>
    BY <1>2 DEF ProduceMalformed
  <2> QED BY <1>0, <2>1, ItemPut DEF sessionVars
<1>3. ASSUME FinishPut PROVE SessionInvariant'
  <2>1. /\ producer = "putting" /\ Put(held[1])
        /\ UNCHANGED <<vars, main, consumer, feed, delivered, failed, poisoned, sessionVars>>
    BY <1>3 DEF FinishPut
  <2>2. PICK x \in Plain \cup {Malform} : held = <<x>>
    BY <1>0, <2>1 DEF Pipes
  <2>3. held[1] = x /\ held # <<>>
    BY <2>2
  <2>4. Busy /\ ~ poisoned' => x \in Plain /\ x.final = delivered'
    <3>1. SUFFICES ASSUME Busy, ~ poisoned PROVE x \in Plain /\ x.final = delivered
      BY <2>1
    <3>2. x # Malform
      BY <2>2, <3>1 DEF SessionInvariant, InOrder
    <3>3. held[1].final = delivered
      BY <2>3, <3>1 DEF SessionInvariant, Flow
    <3> QED BY <2>3, <3>2, <3>3
  <2> QED BY <1>0, <2>1, <2>3, <2>4, ItemPut DEF sessionVars
<1>4. ASSUME SourceEnds \/ SourceFails PROVE SessionInvariant'
  <2>1. /\ producer = "reading" /\ producer' = "ending" /\ failed' \in BOOLEAN
        /\ UNCHANGED <<main, held, consumer, queue, feed, delivered, poisoned, cycle>>
        /\ UNCHANGED vars
    BY <1>0, <1>4 DEF SourceEnds, SourceFails, sourceVars, sessionVars, Pipes
  <2>2. UNCHANGED <<validator, coordinator, buffer, ingestor, book, chain, sink>>
    BY <2>1 DEF vars
  <2>3. DepthInvariant' /\ Aligned'
    BY <2>1, IngestorIdle DEF SessionInvariant
  <2>4. Pipes' /\ main # "returned"
    BY <1>0, <2>1 DEF Pipes
  <2>5. InOrder'
    BY <2>1, <2>2 DEF SessionInvariant, InOrder, Busy, Working
  <2>6. Flow'
    BY <2>1, <2>2 DEF SessionInvariant, Flow, Busy, At, Working
  <2>7. CompletedIsCurrent'
    BY <2>1, <2>4 DEF CompletedIsCurrent
  <2> QED BY <2>3, <2>4, <2>5, <2>6, <2>7 DEF SessionInvariant
<1> QED BY <1>1, <1>2, <1>3, <1>4 DEF Source

LEMMA SentinelPut ==
    ASSUME SessionInvariant, PutSentinel
    PROVE  SessionInvariant'
<1>0. /\ Pipes /\ producer = "ending" /\ producer' = "done" /\ queue' = Append(queue, Sentinel)
      /\ UNCHANGED <<main, held, consumer, feed, delivered, failed, poisoned, cycle>>
      /\ UNCHANGED vars
  BY DEF SessionInvariant, PutSentinel, sourceVars, sessionVars
<1>1. UNCHANGED <<validator, coordinator, buffer, ingestor, book, chain, sink>>
  BY <1>0 DEF vars
<1>2. DepthInvariant' /\ Aligned'
  BY <1>0, IngestorIdle DEF SessionInvariant
<1>3. PICK q \in Seq(Items) : q = queue
  BY <1>0 DEF Pipes
<1>4. PICK r \in Seq(Items) : r = Append(q, Sentinel)
  <2>1. Sentinel \in Items
    BY DEF Items
  <2>2. Append(q, Sentinel) \in Seq(Items)
    BY <1>3, <2>1
  <2> QED BY <2>2
<1>5. /\ Len(r) = Len(q) + 1 /\ r[Len(r)] = Sentinel
      /\ \A i \in DOMAIN r : (i \in DOMAIN q /\ r[i] = q[i]) \/ i = Len(r)
      /\ \A i \in DOMAIN q : r[i] = q[i]
      /\ Len(q) \in Nat
  BY <1>4
<1>6. queue' = r /\ held = <<>> /\ main \notin {"top", "returned", "backoff", "ended"}
  BY <1>0, <1>3, <1>4 DEF Pipes
<1>7. Pipes'
  BY <1>0, <1>6 DEF Pipes
<1>8. InOrder'
  <2>1. SUFFICES ASSUME Busy' PROVE InOrder'
    BY DEF InOrder
  <2>2. /\ \A i \in DOMAIN q : q[i] # Sentinel
        /\ consumer # "done"
        /\ ~ poisoned => \A i \in DOMAIN q : q[i] # Malform
        /\ main = "fetching" /\ Working => coordinator # "LIVE"
        /\ main = "draining" /\ ~ poisoned => coordinator # "AWAITING_SNAPSHOT"
    BY <1>0, <1>3, <2>1 DEF SessionInvariant, InOrder, Busy
  <2>3. \A i \in DOMAIN r : r[i] = Sentinel => i = Len(r)
    BY <1>5, <2>2
  <2>4. ~ poisoned => held # <<Malform>> /\ \A i \in DOMAIN r : r[i] # Malform
    <3>1. <<>> # <<Malform>>
      OBVIOUS
    <3> QED BY <1>5, <1>6, <2>2, <3>1, ItemFacts
  <2> QED BY <1>0, <1>1, <1>6, <2>2, <2>3, <2>4 DEF InOrder, Busy, Working
<1>9. Flow'
  <2>1. SUFFICES ASSUME Busy', ~ poisoned' PROVE Flow'
    BY DEF Flow
  <2>2. \A i \in DOMAIN q : q[i] # Sentinel
    BY <1>0, <1>3, <2>1 DEF SessionInvariant, InOrder, Busy
  <2>3. \/ q # <<>> /\ q[Len(q)].final = delivered
        \/ q = <<>> /\ At(delivered)
    <3>1. Busy /\ ~ poisoned
      BY <1>0, <2>1 DEF Busy
    <3>2. q # <<Sentinel>> /\ (Len(q) > 1 => q[Len(q)] # Sentinel)
      <4>1. 1 \in DOMAIN <<Sentinel>> /\ <<Sentinel>>[1] = Sentinel
        OBVIOUS
      <4>2. Len(q) > 1 => Len(q) \in DOMAIN q
        OBVIOUS
      <4> QED BY <2>2, <4>1, <4>2
    <3> QED BY <1>3, <1>6, <3>1, <3>2 DEF SessionInvariant, Flow
  <2>4. CASE q # <<>> /\ q[Len(q)].final = delivered
    <3>1. Len(q) \in DOMAIN q /\ Len(q) # 0
      BY <2>4
    <3>2. Len(r) > 1 /\ r[Len(r) - 1] = q[Len(q)]
      BY <1>5, <3>1
    <3> QED BY <1>0, <1>5, <1>6, <2>4, <3>2 DEF Flow
  <2>5. CASE q = <<>> /\ At(delivered)
    <3>1. r = <<Sentinel>>
      BY <1>4, <2>5
    <3>2. At(delivered)'
      BY <1>0, <1>1, <2>5 DEF At, Working
    <3> QED BY <1>0, <1>6, <3>1, <3>2 DEF Flow
  <2> QED BY <2>3, <2>4, <2>5
<1>10. CompletedIsCurrent'
  BY <1>0, <1>6 DEF CompletedIsCurrent
<1> QED BY <1>2, <1>7, <1>8, <1>9, <1>10 DEF SessionInvariant


\* What is left of a queue when its first item is taken.
LEMMA TailFacts ==
    ASSUME NEW E, NEW q \in Seq(E), q # <<>>
    PROVE  /\ Tail(q) \in Seq(E) /\ Head(q) \in E /\ Head(q) = q[1] /\ 1 \in DOMAIN q
           /\ Len(q) \in Nat \ {0} /\ Len(Tail(q)) = Len(q) - 1
           /\ \A i \in DOMAIN Tail(q) : i + 1 \in DOMAIN q /\ Tail(q)[i] = q[i + 1] /\ i \in Nat
           /\ Len(q) = 1 => Tail(q) = <<>>
           /\ Len(q) > 1 => Tail(q) # <<>> /\ Tail(q)[Len(q) - 1] = q[Len(q)]
           /\ Len(q) > 2 => Tail(q)[Len(q) - 2] = q[Len(q) - 1]
           /\ Len(q) = 2 => Tail(q) = <<q[2]>>
<1>1. Len(q) \in Nat \ {0} /\ 1 \in DOMAIN q
  OBVIOUS
<1>2. Tail(q) \in Seq(E) /\ Head(q) \in E /\ Head(q) = q[1] /\ Len(Tail(q)) = Len(q) - 1
  BY <1>1
<1>3. \A i \in DOMAIN Tail(q) : i + 1 \in DOMAIN q /\ Tail(q)[i] = q[i + 1] /\ i \in Nat
  BY <1>1
<1>4. PICK t \in Seq(E) : t = Tail(q)
  BY <1>2
<1>5. /\ Len(t) = Len(q) - 1 /\ Len(t) \in Nat
      /\ Len(t) = 0 => t = <<>>
      /\ Len(t) = 1 => t = <<t[1]>>
      /\ DOMAIN t = 1 .. Len(t)
      /\ \A i \in DOMAIN t : t[i] = q[i + 1]
  <2>1. Len(t) = 0 => t = <<>>
    BY EmptySeq
  <2>2. Len(t) = 1 => t = <<t[1]>>
    <3>1. SUFFICES ASSUME Len(t) = 1 PROVE t = <<t[1]>>
      OBVIOUS
    <3>2. t[1] \in E /\ <<t[1]>> \in Seq(E) /\ Len(<<t[1]>>) = 1 /\ <<t[1]>>[1] = t[1]
      BY <3>1
    <3> QED BY <3>1, <3>2, SeqEqual
  <2> QED BY <1>1, <1>2, <1>3, <1>4, <2>1, <2>2
<1>6. Len(q) > 1 => t # <<>> /\ t[Len(q) - 1] = q[Len(q)]
  <2>1. ASSUME Len(q) > 1 PROVE Len(q) - 1 \in DOMAIN t
    BY <1>1, <1>5, <2>1
  <2> QED BY <1>1, <1>5, <2>1
<1>7. Len(q) > 2 => t[Len(q) - 2] = q[Len(q) - 1]
  <2>1. ASSUME Len(q) > 2 PROVE Len(q) - 2 \in DOMAIN t
    BY <1>1, <1>5, <2>1
  <2> QED BY <1>1, <1>5, <2>1
<1>8. Len(q) = 2 => t = <<q[2]>>
  <2>1. ASSUME Len(q) = 2 PROVE 1 \in DOMAIN t
    BY <1>5, <2>1
  <2> QED BY <1>5, <2>1
<1>9. Len(q) = 1 => t = <<>>
  BY <1>5
<1> QED BY <1>1, <1>2, <1>3, <1>4, <1>6, <1>7, <1>8, <1>9

\* The consumer takes the first item: the order of the others, and what the last
\* event was, stay as they are.
LEMMA ItemTaken ==
    ASSUME SessionInvariant, consumer = "running", queue # <<>>, queue' = Tail(queue),
           UNCHANGED <<main, producer, held, sourceVars, cycle>>,
           DepthInvariant', Aligned',
           consumer' \in {"running", "done"},
           consumer' = "done" /\ Busy => queue[1] = Sentinel,
           \A n \in Nat : queue[1] \in Plain /\ queue[1].final = n => At(n)',
           queue[1] = Sentinel => \A n \in Nat : At(n) => At(n)',
           Working' => Working,
           main = "fetching" /\ Working /\ coordinator # "LIVE" => coordinator' # "LIVE",
           ~ poisoned /\ Busy /\ coordinator # "AWAITING_SNAPSHOT" => coordinator' # "AWAITING_SNAPSHOT"
    PROVE  SessionInvariant'
<1>0. /\ Pipes
      /\ UNCHANGED <<main, producer, held, feed, delivered, failed, poisoned, cycle>>
      /\ main \notin {"top", "returned", "backoff", "ended"}
  BY DEF SessionInvariant, sourceVars, Pipes
<1>1. PICK q, r : /\ q = queue /\ r = Tail(q) /\ q \in Seq(Items) /\ q # <<>> /\ queue' = r
  BY <1>0 DEF Pipes
<1>2. /\ r \in Seq(Items) /\ q[1] \in Items /\ 1 \in DOMAIN q
      /\ Len(q) \in Nat \ {0} /\ Len(r) = Len(q) - 1
      /\ \A i \in DOMAIN r : i + 1 \in DOMAIN q /\ r[i] = q[i + 1] /\ i \in Nat
      /\ Len(q) = 1 => r = <<>>
      /\ Len(q) > 1 => r # <<>> /\ r[Len(q) - 1] = q[Len(q)]
      /\ Len(q) > 2 => r[Len(q) - 2] = q[Len(q) - 1]
      /\ Len(q) = 2 => r = <<q[2]>>
  BY <1>1, TailFacts
<1>3. Pipes'
  BY <1>0, <1>1, <1>2 DEF Pipes
<1>4. ASSUME Busy
      PROVE  /\ producer # "done" => \A i \in DOMAIN q : q[i] # Sentinel
             /\ \A i \in DOMAIN q : q[i] = Sentinel => i = Len(q)
             /\ ~ poisoned => held # <<Malform>> /\ \A i \in DOMAIN q : q[i] # Malform
             /\ main = "fetching" /\ Working => coordinator # "LIVE"
             /\ main = "draining" /\ ~ poisoned => coordinator # "AWAITING_SNAPSHOT"
  BY <1>1, <1>4 DEF SessionInvariant, InOrder
<1>5. InOrder'
  <2>1. SUFFICES ASSUME Busy' PROVE InOrder'
    BY DEF InOrder
  <2>2. Busy
    BY <1>0, <2>1 DEF Busy
  <2>3. producer # "done" => \A i \in DOMAIN r : r[i] # Sentinel
    BY <1>2, <1>4, <2>2
  <2>4. ASSUME NEW i \in DOMAIN r, r[i] = Sentinel PROVE i = Len(r)
    <3>1. i + 1 \in DOMAIN q /\ q[i + 1] = Sentinel /\ i \in Nat
      BY <1>2, <2>4
    <3>2. i + 1 = Len(q)
      BY <1>4, <2>2, <3>1
    <3> QED BY <1>2, <3>1, <3>2
  <2>5. consumer' = "done" => producer = "done" /\ r = <<>>
    <3>1. SUFFICES ASSUME consumer' = "done" PROVE producer = "done" /\ r = <<>>
      OBVIOUS
    <3>2. q[1] = Sentinel
      BY <1>1, <2>2, <3>1
    <3>3. Len(q) = 1
      BY <1>2, <1>4, <2>2, <3>2
    <3> QED BY <1>2, <1>4, <2>2, <3>2, <3>3
  <2>6. ~ poisoned => held # <<Malform>> /\ \A i \in DOMAIN r : r[i] # Malform
    BY <1>2, <1>4, <2>2
  <2>7. main = "fetching" /\ Working' => coordinator' # "LIVE"
    BY <1>4, <2>2
  <2>8. main = "draining" /\ ~ poisoned => coordinator' # "AWAITING_SNAPSHOT"
    BY <1>4, <2>2
  <2> QED BY <1>0, <1>1, <2>3, <2>4, <2>5, <2>6, <2>7, <2>8 DEF InOrder
<1>6. Flow'
  <2>1. SUFFICES ASSUME Busy', ~ poisoned' PROVE Flow'
    BY DEF Flow
  <2>2. Busy /\ ~ poisoned /\ delivered \in Nat
    BY <1>0, <2>1 DEF Busy, Pipes
  <2>3. q[1] \in Plain \/ q[1] = Sentinel
    BY <1>2, <1>4, <2>2 DEF Items
  <2>4. PICK n \in Nat : n = delivered /\ delivered' = n
    BY <1>0, <2>2
  <2>5. At(n)' => At(delivered)'
    BY <2>4 DEF At
  <2>6. CASE held # <<>> /\ held[1].final = delivered
    BY <1>0, <2>6 DEF Flow
  <2>7. CASE held = <<>> /\ q[Len(q)] # Sentinel /\ q[Len(q)].final = delivered
    <3>1. CASE Len(q) = 1
      <4>1. q[1] \in Plain /\ q[1].final = n
        BY <2>3, <2>4, <2>7, <3>1
      <4>2. At(n)'
        BY <1>1, <4>1
      <4> QED BY <1>0, <1>1, <1>2, <2>5, <2>7, <3>1, <4>2 DEF Flow
    <3>2. CASE Len(q) > 1
      <4>1. r # <<>> /\ r[Len(r)] = q[Len(q)]
        BY <1>2, <3>2
      <4> QED BY <1>0, <1>1, <2>7, <4>1 DEF Flow
    <3> QED BY <1>2, <3>1, <3>2
  <2>8. CASE held = <<>> /\ Len(q) > 1 /\ q[Len(q)] = Sentinel /\ q[Len(q) - 1].final = delivered
    <3>1. CASE Len(q) = 2
      <4>1. q[1] # Sentinel
        BY <1>2, <1>4, <2>2, <3>1
      <4>2. q[1] \in Plain /\ q[1].final = n
        BY <2>3, <2>4, <2>8, <3>1, <4>1
      <4>3. At(n)'
        BY <1>1, <4>2
      <4>4. r = <<Sentinel>>
        BY <1>2, <2>8, <3>1
      <4> QED BY <1>0, <1>1, <2>5, <2>8, <4>3, <4>4 DEF Flow
    <3>2. CASE Len(q) > 2
      <4>1. Len(r) > 1 /\ r[Len(r)] = q[Len(q)] /\ r[Len(r) - 1] = q[Len(q) - 1]
        BY <1>2, <3>2
      <4> QED BY <1>0, <1>1, <2>8, <4>1 DEF Flow
    <3> QED BY <1>2, <2>8, <3>1, <3>2
  <2>9. CASE held = <<>> /\ q = <<Sentinel>> /\ At(delivered)
    <3>1. q[1] = Sentinel /\ Len(q) = 1 /\ At(n)
      BY <2>4, <2>9
    <3>2. At(n)'
      BY <1>1, <3>1
    <3> QED BY <1>0, <1>1, <1>2, <2>5, <2>9, <3>1, <3>2 DEF Flow
  <2> QED BY <1>1, <2>2, <2>6, <2>7, <2>8, <2>9 DEF SessionInvariant, Flow
<1>7. CompletedIsCurrent'
  BY <1>0 DEF CompletedIsCurrent
<1> QED BY <1>3, <1>5, <1>6, <1>7 DEF SessionInvariant

LEMMA ConsumeKept ==
    ASSUME SessionInvariant, Consume
    PROVE  SessionInvariant'
<1>0. /\ DepthInvariant /\ Aligned /\ Pipes
      /\ consumer = "running" /\ queue # <<>> /\ queue' = Tail(queue)
      /\ UNCHANGED <<main, producer, held, sourceVars, cycle>>
      /\ CASE Head(queue) = Sentinel -> consumer' = "done" /\ UNCHANGED vars
           [] Head(queue) = Malform  -> IngestMalformed /\ UNCHANGED consumer
           [] Head(queue) \in Events -> IngestEvent(Head(queue)) /\ UNCHANGED consumer
  BY DEF SessionInvariant, Consume, sessionVars
<1>1. PICK q, x : q = queue /\ q \in Seq(Items) /\ q # <<>> /\ x = Head(q) /\ x = Head(queue)
  BY <1>0 DEF Pipes
<1>2. q[1] = x /\ x \in Items /\ 1 \in DOMAIN q
  BY <1>1, TailFacts
<1>3. queue[1] = x /\ x \in Plain \cup {Malform, Sentinel}
  BY <1>1, <1>2 DEF Items
<1>4. CASE x = Sentinel
  <2>1. consumer' = "done" /\ UNCHANGED vars
    BY <1>0, <1>1, <1>4, ItemFacts
  <2>2. DepthInvariant' /\ Aligned' /\ (\A n \in Nat : At(n) => At(n)')
    BY <1>0, <2>1, IngestorIdle
  <2>3. Working' = Working /\ coordinator' = coordinator
    BY <2>1 DEF vars, Working
  <2>4. \A n \in Nat : queue[1] \in Plain /\ queue[1].final = n => At(n)'
    BY <1>3, <1>4, ItemFacts
  <2> QED BY <1>0, <1>3, <1>4, <2>1, <2>2, <2>3, <2>4, ItemTaken
<1>5. CASE x = Malform
  <2>1. IngestMalformed /\ consumer' = consumer
    BY <1>0, <1>1, <1>5, ItemFacts
  <2>2. DepthInvariant'
    BY <1>0, <2>1, StartKept DEF Keeps
  <2>3. Aligned' /\ (Working => coordinator' # "LIVE") /\ (Working' => Working)
    BY <1>0, <2>1, StartAligned
  <2>4. Busy => poisoned
    BY <1>1, <1>2, <1>5 DEF SessionInvariant, InOrder
  <2>5. queue[1] # Sentinel /\ \A n \in Nat : queue[1] \in Plain /\ queue[1].final = n => At(n)'
    BY <1>3, <1>5, ItemFacts
  <2> QED BY <1>0, <2>1, <2>2, <2>3, <2>4, <2>5, ItemTaken
<1>6. CASE x \in Plain
  <2>1. IngestEvent(x) /\ consumer' = consumer /\ x \in Events
    BY <1>0, <1>1, <1>6, ItemFacts
  <2>2. DepthInvariant'
    BY <1>0, <2>1, EventKept DEF Keeps
  <2>3. /\ Aligned' /\ At(x.final)' /\ (Working' => Working)
        /\ Working /\ coordinator # "LIVE" => coordinator' # "LIVE"
        /\ coordinator # "AWAITING_SNAPSHOT" => coordinator' # "AWAITING_SNAPSHOT"
    BY <1>0, <1>6, <2>1, EventAligned
  <2>4. \A n \in Nat : n = x.final => At(n)'
    BY <2>3 DEF At
  <2>5. queue[1] # Sentinel /\ \A n \in Nat : queue[1] \in Plain /\ queue[1].final = n => At(n)'
    BY <1>3, <1>6, <2>4, ItemFacts
  <2> QED BY <1>0, <2>1, <2>2, <2>3, <2>5, ItemTaken
<1> QED BY <1>3, <1>4, <1>5, <1>6


\* The main task receives a snapshot, or none.
LEMMA FetchKept ==
    ASSUME SessionInvariant, Fetch
    PROVE  SessionInvariant'
<1>0. /\ DepthInvariant /\ Aligned /\ Pipes /\ main = "fetching"
      /\ UNCHANGED <<producer, held, consumer, queue, feed, delivered, poisoned>>
      /\ delivered \in Nat /\ failed' \in BOOLEAN
  BY DEF SessionInvariant, Fetch, FetchFails, FetchSnapshot, UnchangedTasks, Pipes
<1>1. ASSUME main' = "cancelling", cycle' # "COMPLETED", DepthInvariant', Aligned'
      PROVE  SessionInvariant'
  <2>1. Pipes'
    BY <1>0, <1>1 DEF Pipes
  <2> QED BY <1>1, <2>1 DEF SessionInvariant, InOrder, Flow, Busy, CompletedIsCurrent
<1>2. ASSUME FetchFails PROVE SessionInvariant'
  <2>1. main' = "cancelling" /\ cycle' = "SOURCE_FAILED" /\ UNCHANGED vars
    BY <1>2 DEF FetchFails, Decide
  <2> QED BY <1>0, <1>1, <2>1, IngestorIdle
<1>3. ASSUME FetchSnapshot PROVE SessionInvariant'
  <2>1. PICK s \in SnapshotIds : IngestSnapshot(s)
    BY <1>3 DEF FetchSnapshot
  <2>2. PICK n \in Nat : n = delivered /\ delivered' = n
    BY <1>0
  <2>3. Working => coordinator # "LIVE"
    BY <1>0 DEF SessionInvariant, InOrder, Busy
  <2>4. DepthInvariant' /\ Aligned' /\ (At(n) => At(n)')
    BY <1>0, <2>1, <2>3, SnapshotKept, SnapshotAligned DEF Keeps
  <2>5. \/ main' = "draining" /\ cycle' = cycle /\ ingestor' = "LIVE"
        \/ main' = "cancelling" /\ cycle' \in {"SNAPSHOT_RETRY_REQUIRED", "SNAPSHOT_REJECTED"}
    BY <1>3 DEF FetchSnapshot, Decide
  <2>6. CASE main' = "draining" /\ cycle' = cycle /\ ingestor' = "LIVE"
    <3>1. coordinator' = "LIVE"
      BY <2>4, <2>6 DEF DepthInvariant
    <3>2. Pipes'
      BY <1>0, <2>6 DEF Pipes
    <3>3. InOrder'
      BY <1>0, <2>6, <3>1 DEF SessionInvariant, InOrder, Busy
    <3>4. Flow'
      <4>1. At(delivered) => At(delivered)'
        <5>1. At(delivered) => At(n)
          BY <2>2 DEF At
        <5>2. At(n)' => At(delivered)'
          BY <2>2 DEF At
        <5> QED BY <2>4, <5>1, <5>2
      <4> HIDE DEF At
      <4> QED BY <1>0, <4>1 DEF SessionInvariant, Flow, Busy
    <3>5. CompletedIsCurrent'
      BY <2>6 DEF CompletedIsCurrent
    <3> QED BY <2>4, <3>2, <3>3, <3>4, <3>5 DEF SessionInvariant
  <2>7. CASE main' = "cancelling" /\ cycle' \in {"SNAPSHOT_RETRY_REQUIRED", "SNAPSHOT_REJECTED"}
    BY <1>1, <2>4, <2>7
  <2> QED BY <2>5, <2>6, <2>7
<1> QED BY <1>2, <1>3 DEF Fetch

\* Both tasks have ended: nothing is left in the queue, so the ingestor was given the
\* last event of the connection.
LEMMA DrainKept ==
    ASSUME SessionInvariant, Drain
    PROVE  SessionInvariant'
<1>0. /\ Pipes /\ main = "draining" /\ main' = "returned"
      /\ producer = "done" /\ consumer = "done" /\ cycle' = Decision
      /\ UNCHANGED <<vars, producer, held, consumer, queue, feed, delivered, poisoned, failed>>
  BY DEF SessionInvariant, Drain, Decide, UnchangedTasks
<1>1. UNCHANGED <<validator, coordinator, buffer, ingestor, book, chain, sink>>
  BY <1>0 DEF vars
<1>2. DepthInvariant' /\ Aligned'
  BY <1>0, IngestorIdle DEF SessionInvariant
<1>3. Pipes'
  BY <1>0 DEF Pipes
<1>4. ASSUME Decision = "COMPLETED", ~ poisoned
      PROVE  ingestor = "LIVE" /\ book.last >= delivered /\ ~ failed
  <2>1. ~ failed /\ ingestor # "PERSISTENCE_ERROR" /\ ingestor # "RECOVERY_REQUIRED"
    BY <1>4 DEF Decision
  <2>2. queue = <<>> /\ coordinator # "AWAITING_SNAPSHOT"
    BY <1>0, <1>4 DEF SessionInvariant, InOrder, Busy
  <2>3. held = <<>>
    BY <1>0 DEF Pipes
  <2>4. ingestor = "LIVE"
    BY <2>1, <2>2 DEF SessionInvariant, DepthInvariant, DepthTypes, Aligned, IngestorStates, RecoveryStates
  <2>5. At(delivered)
    <3>1. ~ (Len(queue) > 1)
      BY <2>2
    <3> HIDE DEF At
    <3> QED BY <1>0, <1>4, <2>2, <2>3, <3>1 DEF SessionInvariant, Flow, Busy
  <2>6. book.last >= delivered
    BY <2>4, <2>5 DEF At, Working
  <2> QED BY <2>1, <2>4, <2>6
<1>5. CompletedIsCurrent'
  BY <1>0, <1>1, <1>4 DEF CompletedIsCurrent
<1>6. InOrder' /\ Flow'
  BY <1>0 DEF InOrder, Flow, Busy
<1> QED BY <1>2, <1>3, <1>5, <1>6 DEF SessionInvariant

LEMMA CancelKept ==
    ASSUME SessionInvariant, Cancel \/ Gather
    PROVE  SessionInvariant'
<1>0. /\ Pipes /\ main \in {"cancelling", "gathering"} /\ cycle # "COMPLETED"
      /\ UNCHANGED <<vars, queue, feed, delivered, failed, cycle>>
  BY DEF SessionInvariant, Pipes, Cancel, Gather, UnchangedTasks, sourceVars, sessionVars
<1>1. DepthInvariant' /\ Aligned'
  BY <1>0, IngestorIdle DEF SessionInvariant
<1>2. CASE Cancel
  <2>1. /\ main' = "gathering" /\ producer' \in {"ending", "done"} /\ consumer' = "done" /\ held' = <<>>
    BY <1>2 DEF Cancel
  <2>2. Pipes'
    BY <1>0, <2>1 DEF Pipes
  <2> QED BY <1>1, <2>1, <2>2 DEF SessionInvariant, InOrder, Flow, Busy, CompletedIsCurrent
<1>3. CASE Gather
  <2>1. /\ main' = "returned" /\ producer = "done" /\ consumer = "done"
        /\ UNCHANGED <<producer, held, consumer>>
    BY <1>3 DEF Gather, UnchangedTasks
  <2>2. Pipes'
    BY <1>0, <2>1 DEF Pipes
  <2> QED BY <1>0, <1>1, <2>1, <2>2 DEF SessionInvariant, InOrder, Flow, Busy, CompletedIsCurrent
<1> QED BY <1>2, <1>3

LEMMA SessionStep ==
    ASSUME SessionInvariant, [SessionNext]_allVars
    PROVE  SessionInvariant'
<1>1. CASE Session
  BY <1>1, SessionRests, CycleStarts DEF Session
<1>2. CASE Source \/ FinishPut
  BY <1>2, SourceKept
<1>3. CASE PutSentinel
  BY <1>3, SentinelPut
<1>4. CASE Consume
  BY <1>4, ConsumeKept
<1>5. CASE Fetch
  BY <1>5, FetchKept
<1>6. CASE Main
  BY <1>6, DrainKept, CancelKept DEF Main
<1>7. CASE Stop
  BY <1>7, SessionIdle DEF Stop
<1>8. CASE UNCHANGED allVars
  BY <1>8, SessionIdle DEF allVars, sessionVars
<1> QED BY <1>1, <1>2, <1>3, <1>4, <1>5, <1>6, <1>7, <1>8 DEF SessionNext

LEMMA SessionStart ==
    ASSUME SessionInit
    PROVE  SessionInvariant
<1>1. DepthInvariant
  BY DepthStart DEF SessionInit
<1>2. <<>> \in Seq(Plain) /\ <<>> \in Seq(Items)
  OBVIOUS
<1>3. Aligned
  BY <1>2 DEF SessionInit, Init, Aligned, EmptyBook, CoveredBy
<1>4. Pipes
  BY <1>2 DEF SessionInit, Pipes
<1> QED BY <1>1, <1>3, <1>4 DEF SessionInit, SessionInvariant, InOrder, Flow, Busy, CompletedIsCurrent

THEOREM SessionInvariantHolds == SessionSpec => []SessionInvariant
<1>1. SessionInit => SessionInvariant
  BY SessionStart
<1>2. SessionInvariant /\ [SessionNext]_allVars => SessionInvariant'
  BY SessionStep
<1> QED BY <1>1, <1>2, PTL DEF SessionSpec

\* A session loses nothing on the way from the connection over the queue and the
\* book to the sink: a cycle that reports COMPLETED ends live with every update its
\* connection delivered, and everything in a live book is on disk.
THEOREM SessionLosesNothing == SessionSpec => [](CompletedIsCurrent /\ SinkCoversBook)
<1>1. SessionInvariant => CompletedIsCurrent /\ SinkCoversBook
  BY DEF SessionInvariant, DepthInvariant, Aligned, SinkComplete, Working, CoveredBy, Covers,
         SinkCoversBook
<1> QED BY <1>1, SessionInvariantHolds, PTL

\* Where events do not name the one before them, what the sequence check lets through
\* is also always in the book.
THEOREM SessionIsSound ==
    ASSUME ~ Derivatives
    PROVE  SessionSpec => []SessionSound
<1>1. SessionInvariant => SessionSound
  BY DEF SessionInvariant, DepthInvariant, Aligned, SinkComplete, Working, CoveredBy, Covers,
         SinkCoversBook, AcceptedIsApplied, SessionSound
<1> QED BY <1>1, SessionInvariantHolds, PTL

-----------------------------------------------------------------------------
(* The segments *)

ChainEnvelopes == Seq(Contents) \ {<<>>}
Lines     == Seq(ChainEnvelopes)

Tip(s) == IF s = <<>> THEN <<>> ELSE Last(s)
IdsIn(set) == {IdOf(e) : e \in set}

\* The segments of the manifest, and those on disk.
Kept   == IF manifest = NoManifest THEN <<>> ELSE manifest
Stored == LinesOf(segmentFiles)

Sized(segments) == \A n \in DOMAIN segments : segments[n] # <<>> /\ Len(segments[n]) <= SegmentSize

\* A file the manifest does not name, which has at most one line: the segment before
\* it was full.
FileMore(kept, disk) ==
    /\ disk # <<>> /\ Front(disk) = kept /\ Len(Last(disk)) <= 1
    /\ kept # <<>> => Len(Last(kept)) >= SegmentSize

\* A line the manifest does not name.
LineMore(kept, disk) ==
    /\ kept # <<>> /\ disk # <<>> /\ Front(disk) = Front(kept)
    /\ Last(disk) # <<>> /\ Front(Last(disk)) = Last(kept)

DiskInv ==
    /\ Kept \in Seq(Lines) /\ manifest # <<>> /\ Sized(Kept)
    /\ segmentFiles \in Seq([lines : Lines, torn : BOOLEAN])
    /\ Stored = Kept \/ FileMore(Kept, Stored) \/ LineMore(Kept, Stored)
    /\ ackedEvents = Flat(Kept) /\ Projects(ackedEvents)

MemoryInv ==
    status \in {"ready", "written"} =>
        /\ made \in Lines /\ IdsIn(known) = IdsIn(Range(made))
        /\ known = Range(Flat(writers)) /\ Len(Tip(made)) = Len(Tip(Flat(writers)))

ReadyInv ==
    status = "ready" => writers = Kept /\ (Stored = Kept \/ FileMore(Kept, Stored))

\* The line is on disk and in memory, the manifest is the old one.
WrittenInv ==
    status = "written" =>
        /\ writers \in Seq(Lines) /\ writers # <<>> /\ Sized(writers) /\ Stored = writers
        /\ Flat(writers) # <<>> /\ Front(Flat(writers)) = ackedEvents
        /\ Front(Last(Flat(writers))) = Tip(ackedEvents)

SegmentsInv == DiskInv /\ MemoryInv /\ ReadyInv /\ WrittenInv

-----------------------------------------------------------------------------
(* Sequences *)

LEMMA LastFacts ==
    ASSUME NEW E, NEW s \in Seq(E), s # <<>>
    PROVE  /\ Front(s) \in Seq(E) /\ Last(s) \in E /\ Len(s) \in Nat \ {0}
           /\ Len(Front(s)) = Len(s) - 1 /\ s = Append(Front(s), Last(s))
           /\ \A i \in 1 .. Len(s) - 1 : Front(s)[i] = s[i]
<1>1. Len(s) \in Nat /\ Len(s) # 0 /\ DOMAIN s = 1 .. Len(s)
  OBVIOUS
<1>2. /\ SubSeq(s, 1, Len(s) - 1) \in Seq(E) /\ Len(SubSeq(s, 1, Len(s) - 1)) = Len(s) - 1
      /\ \A i \in 1 .. Len(s) - 1 : SubSeq(s, 1, Len(s) - 1)[i] = s[i]
  BY <1>1
<1>3. s[Len(s)] \in E
  BY <1>1
<1>4. s = Append(SubSeq(s, 1, Len(s) - 1), s[Len(s)])
  BY <1>1, <1>2, <1>3
<1> QED BY <1>1, <1>2, <1>3, <1>4 DEF Front, Last

LEMMA AppendedFacts ==
    ASSUME NEW E, NEW s \in Seq(E), NEW e \in E
    PROVE  /\ Append(s, e) \in Seq(E) /\ Append(s, e) # <<>>
           /\ Front(Append(s, e)) = s /\ Last(Append(s, e)) = e
           /\ Len(Append(s, e)) = Len(s) + 1 /\ Len(s) \in Nat
           /\ Range(Append(s, e)) = Range(s) \cup {e}
<1>1. PICK n, q : n = Len(s) /\ q = Append(s, e)
  OBVIOUS
<1>2. /\ n \in Nat /\ q \in Seq(E) /\ Len(q) = n + 1 /\ DOMAIN s = 1 .. n /\ DOMAIN q = 1 .. n + 1
      /\ q[n + 1] = e /\ \A i \in 1 .. n : q[i] = s[i]
  BY <1>1
<1>3. SubSeq(q, 1, n) = s
  <2>1. SubSeq(q, 1, n) \in Seq(E) /\ Len(SubSeq(q, 1, n)) = n /\ \A i \in 1 .. n : SubSeq(q, 1, n)[i] = q[i]
    BY <1>2
  <2>2. s \in Seq(E) /\ Len(s) = n /\ \A i \in 1 .. n : SubSeq(q, 1, n)[i] = s[i]
    BY <1>1, <1>2, <2>1
  <2> QED BY <2>1, <2>2, SeqEqual
<1>4. q # <<>>
  BY <1>2
<1>5. Front(q) = s /\ Last(q) = e
  BY <1>2, <1>3 DEF Front, Last
<1>6. Range(q) = Range(s) \cup {e}
  <2>1. ASSUME NEW x \in Range(q) PROVE x \in Range(s) \cup {e}
    <3>1. PICK i \in 1 .. n + 1 : x = q[i]
      BY <1>2 DEF Range
    <3>2. CASE i = n + 1
      BY <1>2, <3>1, <3>2
    <3>3. CASE i # n + 1
      <4>1. i \in 1 .. n
        BY <1>2, <3>3
      <4> QED BY <1>2, <3>1, <4>1 DEF Range
    <3> QED BY <3>2, <3>3
  <2>2. e \in Range(q)
    <3>1. n + 1 \in DOMAIN q
      BY <1>2
    <3> QED BY <1>2, <3>1 DEF Range
  <2>3. ASSUME NEW x \in Range(s) PROVE x \in Range(q)
    <3>1. PICK i \in 1 .. n : x = s[i]
      BY <1>2 DEF Range
    <3>2. i \in DOMAIN q /\ q[i] = x
      BY <1>2, <3>1
    <3> QED BY <3>2 DEF Range
  <2> QED BY <2>1, <2>2, <2>3
<1> QED BY <1>1, <1>2, <1>4, <1>5, <1>6

LEMMA EmptyFacts ==
    ASSUME NEW E
    PROVE  <<>> \in Seq(E) /\ Range(<<>>) = {} /\ Len(<<>>) = 0
BY DEF Range

-----------------------------------------------------------------------------
(* Flattening *)

\* h is the flattening of the first segments, of as many as its argument says.
Flattens(s, h) ==
    h = [i \in 1 .. Len(s) |-> IF i = 1 THEN s[i] ELSE h[i - 1] \o s[i]]

SameParts(n, s, r) ==
    /\ n \in Nat /\ Len(s) \in Nat /\ Len(r) \in Nat /\ n <= Len(s) /\ n <= Len(r)
    /\ \A i \in 1 .. n : s[i] = r[i]

SameValues(n, h, k) == \A i \in 1 .. n : h[i] = k[i]

LEMMA FlattenAgree ==
    ASSUME NEW s, NEW r, NEW h, NEW k, Flattens(s, h), Flattens(r, k),
           NEW n, SameParts(n, s, r)
    PROVE  SameValues(n, h, k)
<1> USE DEF SameParts, SameValues
<1> DEFINE B == {i \in 1 .. n : h[i] # k[i]}
<1>1. SUFFICES ASSUME B # {} PROVE FALSE
  OBVIOUS
<1>2. B \subseteq Nat
  OBVIOUS
<1>3. PICK m \in B : \A j \in B : m <= j
  BY <1>1, <1>2, LeastNat
<1>4. m \in 1 .. n /\ h[m] # k[m] /\ m \in 1 .. Len(s) /\ m \in 1 .. Len(r) /\ s[m] = r[m]
  BY <1>3
<1>5. /\ h[m] = IF m = 1 THEN s[m] ELSE h[m - 1] \o s[m]
      /\ k[m] = IF m = 1 THEN r[m] ELSE k[m - 1] \o r[m]
  BY <1>4 DEF Flattens
<1>6. CASE m = 1
  BY <1>4, <1>5, <1>6
<1>7. CASE m # 1
  <2>1. m - 1 \in 1 .. n /\ ~ m <= m - 1
    BY <1>4, <1>7
  <2>2. h[m - 1] = k[m - 1]
    BY <1>3, <2>1
  <2> QED BY <1>4, <1>5, <1>7, <2>2
<1> QED BY <1>6, <1>7

LEMMA FlattenExists ==
    ASSUME NEW E, NEW s \in Seq(Seq(E))
    PROVE  \E h : h \in [1 .. Len(s) -> Seq(E)] /\ Flattens(s, h)
<1> DEFINE S == {r \in Seq(Seq(E)) : \E h : h \in [1 .. Len(r) -> Seq(E)] /\ Flattens(r, h)}
<1>1. <<>> \in S
  <2>1. PICK h : h = [i \in 1 .. Len(<<>>) |-> <<>>]
    OBVIOUS
  <2>2. \A i \in 1 .. Len(<<>>) : FALSE
    OBVIOUS
  <2>3. h \in [1 .. Len(<<>>) -> Seq(E)] /\ <<>> \in Seq(Seq(E))
    BY <2>1
  <2>4. h = [i \in 1 .. Len(<<>>) |-> IF i = 1 THEN <<>>[i] ELSE h[i - 1] \o <<>>[i]]
    BY <2>1, <2>2
  <2>5. Flattens(<<>>, h)
    BY <2>4 DEF Flattens
  <2> QED BY <2>3, <2>5
<1>2. ASSUME NEW r \in Seq(Seq(E)), NEW x \in Seq(E), r \in S PROVE Append(r, x) \in S
  <2>1. PICK h : h \in [1 .. Len(r) -> Seq(E)] /\ Flattens(r, h)
    BY <1>2
  <2>2. PICK n, q : n = Len(r) /\ q = Append(r, x)
    OBVIOUS
  <2>3. /\ n \in Nat /\ q \in Seq(Seq(E)) /\ Len(q) = n + 1
        /\ q[n + 1] = x /\ \A i \in 1 .. n : q[i] = r[i]
    BY <1>2, <2>2
  <2>4. PICK y \in Seq(E) : y = IF n = 0 THEN x ELSE h[n] \o x
    <3>1. CASE n = 0
      BY <3>1
    <3>2. CASE n # 0
      <4>1. h[n] \in Seq(E)
        <5>1. n \in 1 .. Len(r)
          BY <2>2, <2>3, <3>2
        <5> QED BY <2>1, <5>1
      <4>2. h[n] \o x \in Seq(E)
        BY <1>2, <4>1, ConcatProperties
      <4> QED BY <3>2, <4>2
    <3> QED BY <3>1, <3>2
  <2> DEFINE k == [i \in 1 .. n + 1 |-> IF i = n + 1 THEN y ELSE h[i]]
  <2>5. k \in [1 .. n + 1 -> Seq(E)]
    <3>1. ASSUME NEW i \in 1 .. n + 1, i # n + 1 PROVE h[i] \in Seq(E)
      <4>1. i \in 1 .. n
        BY <2>3, <3>1
      <4> QED BY <2>1, <2>2, <4>1
    <3> QED BY <3>1
  <2>6. ASSUME NEW i \in 1 .. n + 1 PROVE k[i] = IF i = 1 THEN q[i] ELSE k[i - 1] \o q[i]
    <3>1. CASE i = n + 1
      <4>1. CASE n = 0
        BY <2>3, <2>4, <3>1, <4>1
      <4>2. CASE n # 0
        <5>1. i # 1 /\ i - 1 \in 1 .. n + 1 /\ i - 1 # n + 1 /\ i - 1 = n
          BY <2>3, <3>1, <4>2
        <5>2. k[i - 1] = h[n] /\ k[i] = y /\ q[i] = x
          BY <2>3, <3>1, <5>1
        <5> QED BY <2>4, <4>2, <5>1, <5>2
      <4> QED BY <4>1, <4>2
    <3>2. CASE i # n + 1
      <4>1. i \in 1 .. n /\ i \in 1 .. Len(r)
        BY <2>2, <2>3, <3>2
      <4>2. h[i] = IF i = 1 THEN r[i] ELSE h[i - 1] \o r[i]
        BY <2>1, <4>1 DEF Flattens
      <4>3. k[i] = h[i] /\ q[i] = r[i]
        BY <2>3, <3>2, <4>1
      <4>4. CASE i = 1
        BY <4>2, <4>3, <4>4
      <4>5. CASE i # 1
        <5>1. i - 1 \in 1 .. n + 1 /\ i - 1 # n + 1
          BY <2>3, <4>1, <4>5
        <5>2. k[i - 1] = h[i - 1]
          BY <5>1
        <5> QED BY <4>2, <4>3, <4>5, <5>2
      <4> QED BY <4>4, <4>5
    <3> QED BY <3>1, <3>2
  <2>7. k = [i \in 1 .. n + 1 |-> k[i]]
    OBVIOUS
  <2> HIDE DEF k
  <2>8. k = [i \in 1 .. n + 1 |-> IF i = 1 THEN q[i] ELSE k[i - 1] \o q[i]]
    BY <2>6, <2>7
  <2>9. Flattens(q, k) /\ k \in [1 .. Len(q) -> Seq(E)]
    BY <2>3, <2>5, <2>8 DEF Flattens
  <2> QED BY <2>2, <2>3, <2>9
<1> HIDE DEF S
<1>3. Seq(Seq(E)) \subseteq S
  BY <1>1, <1>2, SeqInduction
<1> QED BY <1>3 DEF S

LEMMA FlattenIs ==
    ASSUME NEW E, NEW s \in Seq(Seq(E)), NEW h, Flattens(s, h), s # <<>>
    PROVE  Flat(s) = h[Len(s)]
<1>1. Len(s) \in Nat /\ Len(s) # 0
  OBVIOUS
<1>2. PICK g : g = CHOOSE k : k = [i \in 1 .. Len(s) |-> IF i = 1 THEN s[i] ELSE k[i - 1] \o s[i]]
  OBVIOUS
<1>3. Flattens(s, g)
  BY <1>2 DEF Flattens
<1>4. Flat(s) = g[Len(s)]
  BY <1>1, <1>2 DEF Flat, FlattenSeq
<1>5. Len(s) \in 1 .. Len(s) /\ Len(s) <= Len(s)
  BY <1>1
<1>6. SameParts(Len(s), s, s)
  BY <1>1, <1>5 DEF SameParts
<1>7. SameValues(Len(s), g, h)
  BY <1>3, <1>6, FlattenAgree
<1> QED BY <1>4, <1>5, <1>7 DEF SameValues

LEMMA FlatNone == Flat(<<>>) = <<>>
BY DEF Flat, FlattenSeq

\* One segment more is one more at the end.
LEMMA FlatMore ==
    ASSUME NEW E, NEW s \in Seq(Seq(E)), NEW x \in Seq(E)
    PROVE  Flat(s) \in Seq(E) /\ Flat(Append(s, x)) = Flat(s) \o x
<1>1. PICK n, q : n = Len(s) /\ q = Append(s, x)
  OBVIOUS
<1>2. /\ n \in Nat /\ q \in Seq(Seq(E)) /\ Len(q) = n + 1 /\ q # <<>>
      /\ q[n + 1] = x /\ \A i \in 1 .. n : q[i] = s[i]
  BY <1>1
<1>3. PICK h : h \in [1 .. n -> Seq(E)] /\ Flattens(s, h)
  BY <1>1, FlattenExists
<1>4. PICK k : k \in [1 .. n + 1 -> Seq(E)] /\ Flattens(q, k)
  BY <1>2, FlattenExists
<1>5. Flat(q) = k[n + 1]
  BY <1>2, <1>4, FlattenIs
<1>6. k[n + 1] = IF n = 0 THEN x ELSE k[n] \o x
  <2>1. PICK m : m = n + 1
    OBVIOUS
  <2>2. m \in 1 .. Len(q) /\ (m = 1 <=> n = 0) /\ m - 1 = n
    BY <1>2, <2>1
  <2>3. k[m] = IF m = 1 THEN q[m] ELSE k[m - 1] \o q[m]
    BY <1>4, <2>2 DEF Flattens
  <2> QED BY <1>2, <2>1, <2>2, <2>3
<1>7. CASE n = 0
  <2>1. s = <<>>
    BY <1>1, <1>7, EmptySeq
  <2>2. Flat(s) = <<>> /\ Flat(q) = x
    BY <1>2, <1>5, <1>6, <1>7, <2>1, FlatNone
  <2> QED BY <1>1, <2>2
<1>8. CASE n # 0
  <2>1. s # <<>> /\ n \in 1 .. n /\ n + 1 # 1 /\ n + 1 - 1 = n
    BY <1>1, <1>2, <1>8
  <2>2. Flat(s) = h[n]
    BY <1>1, <1>3, <2>1, FlattenIs
  <2>3. n <= Len(s) /\ n <= Len(q) /\ \A i \in 1 .. n : s[i] = q[i]
    BY <1>1, <1>2
  <2>6. \A i \in 1 .. n : h[i] = k[i]
    <3>1. Flattens(s, h) /\ Flattens(q, k)
      BY <1>3, <1>4
    <3>2. Len(s) \in Nat /\ Len(q) \in Nat /\ n \in Nat
      BY <1>1, <1>2
    <3>3. SameParts(n, s, q)
      BY <2>3, <3>2 DEF SameParts
    <3>4. SameValues(n, h, k)
      BY <3>1, <3>3, FlattenAgree
    <3> QED BY <3>4 DEF SameValues
  <2>4. h[n] = k[n]
    BY <2>1, <2>6
  <2>5. h[n] \in Seq(E)
    BY <1>3, <2>1
  <2> QED BY <1>1, <1>2, <1>5, <1>6, <2>1, <2>2, <2>4, <2>5
<1> QED BY <1>7, <1>8

-----------------------------------------------------------------------------
(* The lines of segments *)

LEMMA ConcatFacts ==
    ASSUME NEW E, NEW a \in Seq(E), NEW b \in Seq(E)
    PROVE  /\ a \o b \in Seq(E) /\ Range(a \o b) = Range(a) \cup Range(b)
           /\ b # <<>> => a \o b # <<>> /\ Last(a \o b) = Last(b)
           /\ IsPrefix(a, a \o b)
<1>1. PICK q, m, n : q = a \o b /\ m = Len(a) /\ n = Len(b)
  OBVIOUS
<1>2. m \in Nat /\ n \in Nat /\ DOMAIN a = 1 .. m /\ DOMAIN b = 1 .. n
  BY <1>1
<1>3. /\ q \in Seq(E) /\ Len(q) = m + n
      /\ \A i \in 1 .. m + n : q[i] = IF i <= m THEN a[i] ELSE b[i - m]
  BY <1>1, ConcatProperties
<1>4. DOMAIN q = 1 .. m + n
  BY <1>3
<1>5. Range(q) = Range(a) \cup Range(b)
  <2>1. ASSUME NEW x \in Range(q) PROVE x \in Range(a) \cup Range(b)
    <3>1. PICK i \in 1 .. m + n : x = q[i]
      BY <1>4 DEF Range
    <3>2. CASE i <= m
      <4>1. i \in DOMAIN a /\ x = a[i]
        BY <1>2, <1>3, <3>1, <3>2
      <4> QED BY <4>1 DEF Range
    <3>3. CASE ~ i <= m
      <4>1. i - m \in DOMAIN b /\ x = b[i - m]
        BY <1>2, <1>3, <3>1, <3>3
      <4> QED BY <4>1 DEF Range
    <3> QED BY <3>2, <3>3
  <2>2. ASSUME NEW x \in Range(a) PROVE x \in Range(q)
    <3>1. PICK i \in 1 .. m : x = a[i]
      BY <1>2 DEF Range
    <3>2. i \in DOMAIN q /\ q[i] = x
      BY <1>2, <1>3, <1>4, <3>1
    <3> QED BY <3>2 DEF Range
  <2>3. ASSUME NEW x \in Range(b) PROVE x \in Range(q)
    <3>1. PICK i \in 1 .. n : x = b[i]
      BY <1>2 DEF Range
    <3>2. PICK j : j = i + m
      OBVIOUS
    <3>3. j \in 1 .. m + n /\ ~ j <= m /\ j - m = i
      BY <1>2, <3>1, <3>2
    <3>4. j \in DOMAIN q /\ q[j] = x
      BY <1>3, <1>4, <3>1, <3>3
    <3> QED BY <3>4 DEF Range
  <2> QED BY <2>1, <2>2, <2>3
<1>6. ASSUME b # <<>> PROVE q # <<>> /\ Last(q) = Last(b)
  <2>1. n # 0
    BY <1>1, <1>2, <1>6, EmptySeq
  <2>4. PICK k \in 1 .. m + n : k = m + n /\ ~ k <= m /\ k - m = n
    BY <1>2, <2>1
  <2>2. q[m + n] = b[n]
    <3>1. q[k] = b[k - m]
      BY <1>3, <2>4
    <3> QED BY <2>4, <3>1
  <2>3. q # <<>>
    BY <1>2, <1>3, <2>1
  <2> QED BY <1>1, <1>3, <2>2, <2>3 DEF Last
<1>7. IsPrefix(a, q)
  <2>1. /\ SubSeq(q, 1, m) \in Seq(E) /\ Len(SubSeq(q, 1, m)) = m
        /\ \A i \in 1 .. m : SubSeq(q, 1, m)[i] = q[i]
    BY <1>2, <1>3
  <2>2. /\ SubSeq(a, 1, m) \in Seq(E) /\ Len(SubSeq(a, 1, m)) = m
        /\ \A i \in 1 .. m : SubSeq(a, 1, m)[i] = a[i]
    BY <1>1, <1>2
  <2>3. \A i \in 1 .. m : a[i] = q[i]
    BY <1>2, <1>3
  <2>4. \A i \in 1 .. m : SubSeq(a, 1, m)[i] = SubSeq(q, 1, m)[i]
    BY <2>1, <2>2, <2>3
  <2>5. SubSeq(a, 1, m) = SubSeq(q, 1, m)
    BY <2>1, <2>2, <2>4, SeqEqual
  <2> QED BY <1>1, <1>2, <1>3, <2>5 DEF IsPrefix
<1> QED BY <1>1, <1>3, <1>5, <1>6, <1>7

LEMMA ConcatMore ==
    ASSUME NEW E, NEW a \in Seq(E), NEW b \in Seq(E), NEW e \in E
    PROVE  a \o Append(b, e) = Append(a \o b, e) /\ a \o <<e>> = Append(a, e) /\ a \o <<>> = a
OBVIOUS

\* The last line of segments is the last one of the last segment.
LEMMA FlatTip ==
    ASSUME NEW s \in Seq(Lines), \A n \in DOMAIN s : s[n] # <<>>
    PROVE  Flat(s) \in Lines /\ Head_(s) = Tip(Flat(s))
<1>1. CASE s = <<>>
  BY <1>1, FlatNone, EmptySeq DEF Head_, Tip, Lines
<1>2. CASE s # <<>>
  <2>1. PICK f \in Seq(Lines), l \in Lines : s = Append(f, l) /\ l = Last(s)
    BY <1>2, LastFacts
  <2>2. l # <<>>
    <3>1. Len(s) \in DOMAIN s
      BY <1>2
    <3> QED BY <2>1, <3>1 DEF Last
  <2>3. Flat(f) \in Lines /\ Flat(s) = Flat(f) \o l
    BY <2>1, FlatMore DEF Lines
  <2>4. Flat(s) \in Lines /\ Flat(s) # <<>> /\ Last(Flat(s)) = Last(l)
    BY <2>2, <2>3, ConcatFacts DEF Lines
  <2> QED BY <1>2, <2>1, <2>4 DEF Head_, Tip
<1> QED BY <1>1, <1>2

LEMMA FlatFile ==
    ASSUME NEW kept \in Seq(Lines), NEW disk \in Seq(Lines), disk # <<>>, Front(disk) = kept
    PROVE  Flat(disk) = Flat(kept) \o Last(disk) /\ Flat(kept) \in Lines /\ Last(disk) \in Lines
<1>1. disk = Append(kept, Last(disk)) /\ Last(disk) \in Lines
  BY LastFacts
<1> QED BY <1>1, FlatMore DEF Lines

LEMMA FlatLine ==
    ASSUME NEW kept \in Seq(Lines), NEW disk \in Seq(Lines), LineMore(kept, disk)
    PROVE  /\ Flat(kept) \in Lines /\ Last(Last(disk)) \in ChainEnvelopes
           /\ Flat(disk) = Append(Flat(kept), Last(Last(disk)))
<1>1. PICK f \in Seq(Lines), k \in Lines, d \in Lines :
        kept = Append(f, k) /\ disk = Append(f, d) /\ k = Last(kept) /\ d = Last(disk)
  BY LastFacts DEF LineMore
<1>2. d # <<>> /\ Front(d) = k
  BY <1>1 DEF LineMore
<1>3. PICK e \in ChainEnvelopes : d = Append(k, e) /\ e = Last(d)
  BY <1>2, LastFacts DEF Lines
<1>4. Flat(f) \in Lines /\ Flat(kept) = Flat(f) \o k /\ Flat(disk) = Flat(f) \o d
  BY <1>1, FlatMore DEF Lines
<1>5. Flat(f) \o k \in Lines
  BY <1>4, ConcatProperties DEF Lines
<1>6. Flat(f) \o Append(k, e) = Append(Flat(f) \o k, e)
  BY <1>4, ConcatMore DEF Lines
<1> QED BY <1>1, <1>3, <1>4, <1>5, <1>6

LEMMA OneSegment ==
    ASSUME NEW s \in Seq(Lines), s # <<>>
    PROVE  Range(Last(s)) \subseteq Range(Flat(s))
<1>1. PICK f \in Seq(Lines), l \in Lines : s = Append(f, l) /\ l = Last(s)
  BY LastFacts
<1>2. Flat(f) \in Lines /\ Flat(s) = Flat(f) \o l
  BY <1>1, FlatMore DEF Lines
<1>3. Range(Flat(f) \o l) = Range(Flat(f)) \cup Range(l)
  BY <1>1, <1>2, ConcatFacts DEF Lines
<1> QED BY <1>1, <1>2, <1>3

LEMMA LastSet ==
    ASSUME NEW E, NEW s \in Seq(E), s # <<>>, NEW q \in Seq(E), Len(q) = Len(s),
           \A i \in 1 .. Len(s) : i # Len(s) => q[i] = s[i]
    PROVE  q # <<>> /\ Front(q) = Front(s) /\ Last(q) = q[Len(s)]
<1>1. PICK n : n = Len(s)
  OBVIOUS
<1>2. n \in Nat /\ n # 0 /\ DOMAIN s = 1 .. n
  BY <1>1
<1>3. q \in Seq(E) /\ Len(q) = n /\ \A i \in 1 .. n : i # n => q[i] = s[i]
  BY <1>1, <1>2
<1>4. q # <<>>
  BY <1>2, <1>3
<1>5. Front(s) \in Seq(E) /\ Len(Front(s)) = n - 1 /\ \A i \in 1 .. n - 1 : Front(s)[i] = s[i]
  BY <1>1, LastFacts
<1>8. Front(q) \in Seq(E) /\ Len(Front(q)) = n - 1 /\ \A i \in 1 .. n - 1 : Front(q)[i] = q[i]
  <2>1. ASSUME NEW r \in Seq(E), r # <<>>, Len(r) = n
        PROVE  Front(r) \in Seq(E) /\ Len(Front(r)) = n - 1 /\ \A i \in 1 .. n - 1 : Front(r)[i] = r[i]
    BY <2>1, LastFacts
  <2>2. q \in Seq(E) /\ q # <<>> /\ Len(q) = n
    BY <1>3, <1>4
  <2> QED BY <2>1, <2>2
<1>6. \A i \in 1 .. n - 1 : Front(q)[i] = Front(s)[i]
  <2>1. ASSUME NEW i \in 1 .. n - 1 PROVE i \in 1 .. n /\ i # n
    BY <1>2
  <2> QED BY <1>3, <1>5, <1>8, <2>1
<1>7. Front(q) = Front(s)
  BY <1>5, <1>6, <1>8, SeqEqual
<1> QED BY <1>1, <1>3, <1>4, <1>7 DEF Last

-----------------------------------------------------------------------------
(* The files *)

Files == [lines : Lines, torn : BOOLEAN]

LEMMA LinesFacts ==
    ASSUME NEW fs \in Seq(Files)
    PROVE  /\ LinesOf(fs) \in Seq(Lines) /\ Len(LinesOf(fs)) = Len(fs) /\ Len(fs) \in Nat
           /\ \A n \in 1 .. Len(fs) : LinesOf(fs)[n] = fs[n].lines
<1>1. PICK m, q : m = Len(fs) /\ q = [n \in 1 .. m |-> fs[n].lines]
  OBVIOUS
<1>2. m \in Nat /\ DOMAIN fs = 1 .. m /\ \A n \in 1 .. m : fs[n] \in Files
  BY <1>1
<1>3. \A n \in 1 .. m : fs[n].lines \in Lines
  BY <1>2 DEF Files
<1>4. q \in Seq(Lines) /\ Len(q) = m /\ \A n \in 1 .. m : q[n] = fs[n].lines
  BY <1>1, <1>2, <1>3
<1>5. LinesOf(fs) = q
  BY <1>1, <1>2 DEF LinesOf
<1> QED BY <1>1, <1>2, <1>4, <1>5

LEMMA LinesMore ==
    ASSUME NEW fs \in Seq(Files), NEW f \in Files
    PROVE  Append(fs, f) \in Seq(Files) /\ LinesOf(Append(fs, f)) = Append(LinesOf(fs), f.lines)
<1>1. PICK q, m, s : q = Append(fs, f) /\ m = Len(fs) /\ s = LinesOf(fs)
  OBVIOUS
<1>2. q \in Seq(Files) /\ Len(q) = m + 1 /\ m \in Nat /\ q[m + 1] = f /\ \A i \in 1 .. m : q[i] = fs[i]
  BY <1>1
<1>3. s \in Seq(Lines) /\ Len(s) = m /\ \A i \in 1 .. m : s[i] = fs[i].lines
  BY <1>1, LinesFacts
<1>4. LinesOf(q) \in Seq(Lines) /\ Len(LinesOf(q)) = m + 1 /\ \A i \in 1 .. m + 1 : LinesOf(q)[i] = q[i].lines
  BY <1>2, LinesFacts
<1>5. f.lines \in Lines
  BY DEF Files
<1>6. /\ Append(s, f.lines) \in Seq(Lines) /\ Len(Append(s, f.lines)) = m + 1
      /\ Append(s, f.lines)[m + 1] = f.lines /\ \A i \in 1 .. m : Append(s, f.lines)[i] = s[i]
  BY <1>3, <1>5
<1>7. ASSUME NEW i \in 1 .. m + 1 PROVE LinesOf(q)[i] = Append(s, f.lines)[i]
  <2>1. CASE i = m + 1
    BY <1>2, <1>4, <1>6, <2>1
  <2>2. CASE i # m + 1
    <3>1. i \in 1 .. m
      BY <1>2, <2>2
    <3> QED BY <1>2, <1>3, <1>4, <1>6, <3>1
  <2> QED BY <2>1, <2>2
<1>8. LinesOf(q) = Append(s, f.lines)
  BY <1>4, <1>6, <1>7, SeqEqual
<1> QED BY <1>1, <1>2, <1>8

LEMMA LinesSet ==
    ASSUME NEW fs \in Seq(Files), fs # <<>>, NEW f \in Files, NEW q, q = [fs EXCEPT ![Len(fs)] = f]
    PROVE  /\ q \in Seq(Files) /\ LinesOf(q) # <<>> /\ Last(LinesOf(q)) = f.lines
           /\ Front(LinesOf(q)) = Front(LinesOf(fs)) /\ Len(LinesOf(q)) = Len(fs)
<1>1. q \in Seq(Files) /\ q # <<>> /\ Front(q) = Front(fs) /\ Last(q) = f /\ Len(q) = Len(fs)
  <2>1. /\ q \in Seq(Files) /\ Len(q) = Len(fs) /\ q[Len(fs)] = f
        /\ \A i \in 1 .. Len(fs) : i # Len(fs) => q[i] = fs[i]
    <3>1. Len(fs) \in 1 .. Len(fs)
      OBVIOUS
    <3> QED BY <3>1, ExceptSeq
  <2>2. q # <<>> /\ Front(q) = Front(fs) /\ Last(q) = q[Len(fs)]
    BY <2>1, LastSet
  <2> QED BY <2>1, <2>2
<1>2. PICK r \in Seq(Files) : r = Front(fs)
  BY LastFacts
<1>3. q = Append(r, f) /\ fs = Append(r, Last(fs)) /\ Last(fs) \in Files
  <2>1. fs = Append(Front(fs), Last(fs)) /\ Last(fs) \in Files
    BY LastFacts
  <2>2. q = Append(Front(q), Last(q))
    <3>1. \A p \in Seq(Files) : p # <<>> => p = Append(Front(p), Last(p))
      BY LastFacts
    <3> QED BY <1>1, <3>1
  <2> QED BY <1>1, <1>2, <2>1, <2>2
<1>4. LinesOf(q) = Append(LinesOf(r), f.lines) /\ LinesOf(fs) = Append(LinesOf(r), Last(fs).lines)
  BY <1>3, LinesMore
<1>5. LinesOf(r) \in Seq(Lines) /\ f.lines \in Lines /\ Last(fs).lines \in Lines
  BY <1>3, LinesFacts DEF Files
<1>6. Len(LinesOf(q)) = Len(fs)
  BY <1>1, LinesFacts
<1>7. \A s \in Seq(Lines), l \in Lines : Append(s, l) # <<>> /\ Front(Append(s, l)) = s /\ Last(Append(s, l)) = l
  BY AppendedFacts
<1> QED BY <1>1, <1>4, <1>5, <1>6, <1>7

LEMMA SizedParts ==
    ASSUME NEW s \in Seq(Lines), s # <<>>
    PROVE  Sized(s) <=> Sized(Front(s)) /\ Last(s) # <<>> /\ Len(Last(s)) <= SegmentSize
<1>1. PICK n, f : n = Len(s) /\ f = Front(s)
  OBVIOUS
<1>2. /\ n \in Nat \ {0} /\ f \in Seq(Lines) /\ Len(f) = n - 1 /\ \A i \in 1 .. n - 1 : f[i] = s[i]
  BY <1>1, LastFacts
<1>3. DOMAIN s = 1 .. n /\ DOMAIN f = 1 .. n - 1 /\ Last(s) = s[n]
  BY <1>1, <1>2 DEF Last
<1>4. \A i \in 1 .. n : i = n \/ i \in 1 .. n - 1
  BY <1>2
<1>5. n \in 1 .. n /\ \A i \in 1 .. n - 1 : i \in 1 .. n
  BY <1>2
<1> QED BY <1>1, <1>2, <1>3, <1>4, <1>5 DEF Sized

-----------------------------------------------------------------------------
(* Where the next line goes *)

\* A full segment is followed by a file that is new or has been left behind.
LEMMA RotateFacts ==
    ASSUME DiskInv, ReadyInv, status = "ready", Rotates
    PROVE  /\ Current \in Lines /\ Len(Current) <= 1 /\ Kept = writers
           /\ Current # <<>> => Stored = Append(Kept, Current) /\ Current = OnDisk.lines
           /\ Kept # <<>> => Len(Last(Kept)) >= SegmentSize
           /\ \A l : WritersWith(l) = Append(Kept, l)
           /\ \A f \in Files : WriteSegment(f) =>
                 segmentFiles' \in Seq(Files) /\ LinesOf(segmentFiles') = Append(Kept, f.lines)
<1>1. PICK fs \in Seq(Files) : fs = segmentFiles
  BY DEF DiskInv, Files
<1>2. PICK d \in Seq(Lines) : d = Stored /\ Len(d) = Len(fs) /\ \A n \in 1 .. Len(fs) : d[n] = fs[n].lines
  BY <1>1, LinesFacts DEF Stored
<1>3. PICK k \in Seq(Lines) : k = Kept /\ k = writers /\ (d = k \/ FileMore(k, d))
  BY <1>2 DEF DiskInv, ReadyInv
<1>4. Len(k) \in Nat /\ Len(d) \in Nat /\ Index = Len(k) + 1
  BY <1>2, <1>3 DEF Index
<1>5. k # <<>> => Len(Last(k)) >= SegmentSize
  BY <1>3 DEF Rotates
<1>6. \A l : WritersWith(l) = Append(k, l)
  BY <1>3 DEF WritersWith
<1>7. CASE d = k
  <2>1. ~ Index <= Len(segmentFiles)
    BY <1>1, <1>2, <1>4, <1>7
  <2>2. Current = <<>>
    BY <2>1 DEF Current, OnDisk, File
  <2>3. ASSUME NEW f \in Files, WriteSegment(f)
        PROVE  segmentFiles' \in Seq(Files) /\ LinesOf(segmentFiles') = Append(k, f.lines)
    <3>1. segmentFiles' = Append(fs, f)
      BY <1>1, <2>1, <2>3 DEF WriteSegment
    <3>2. LinesOf(fs) = k
      BY <1>1, <1>2, <1>7 DEF Stored
    <3> QED BY <3>1, <3>2, LinesMore
  <2>4. Current \in Lines /\ Len(Current) <= 1
    BY <2>2, EmptySeq DEF Lines
  <2> QED BY <1>3, <1>5, <1>6, <2>2, <2>3, <2>4
<1>8. CASE FileMore(k, d)
  <2>1. /\ d # <<>> /\ Front(d) = k /\ Len(Last(d)) <= 1 /\ Last(d) \in Lines
        /\ d = Append(k, Last(d)) /\ Len(k) = Len(d) - 1 /\ Last(d) = d[Len(d)]
    BY <1>8, LastFacts DEF FileMore, Last
  <2>2. Index = Len(fs) /\ Index <= Len(segmentFiles) /\ Len(fs) \in 1 .. Len(fs) /\ fs # <<>>
    BY <1>1, <1>2, <1>4, <2>1
  <2>3. OnDisk.lines = Last(d) /\ Current = Last(d)
    BY <1>1, <1>2, <2>1, <2>2 DEF OnDisk, Current
  <2>4. ASSUME NEW f \in Files, WriteSegment(f)
        PROVE  segmentFiles' \in Seq(Files) /\ LinesOf(segmentFiles') = Append(k, f.lines)
    <3>1. PICK q : q = segmentFiles' /\ q = [fs EXCEPT ![Len(fs)] = f]
      BY <1>1, <2>2, <2>4 DEF WriteSegment
    <3>2. /\ q \in Seq(Files) /\ LinesOf(q) # <<>> /\ Last(LinesOf(q)) = f.lines
          /\ Front(LinesOf(q)) = Front(LinesOf(fs))
      BY <2>2, <3>1, LinesSet
    <3>3. LinesOf(q) \in Seq(Lines) /\ Front(LinesOf(q)) = k
      BY <1>1, <1>2, <2>1, <3>2, LinesFacts DEF Stored
    <3>4. \A p \in Seq(Lines) : p # <<>> => p = Append(Front(p), Last(p))
      BY LastFacts
    <3> QED BY <3>1, <3>2, <3>3, <3>4
  <2> QED BY <1>2, <1>3, <1>5, <1>6, <2>1, <2>3, <2>4
<1> QED BY <1>3, <1>7, <1>8

\* A segment that is not full is the last one on disk.
LEMMA StayFacts ==
    ASSUME DiskInv, ReadyInv, status = "ready", ~ Rotates
    PROVE  /\ Kept # <<>> /\ Kept = writers /\ Stored = Kept /\ Current = Last(Kept)
           /\ Len(Current) < SegmentSize /\ Len(Current) \in Nat
           /\ \A l : WritersWith(l) = [Kept EXCEPT ![Len(Kept)] = l]
           /\ \A f \in Files : WriteSegment(f) =>
                 /\ segmentFiles' \in Seq(Files) /\ LinesOf(segmentFiles') # <<>>
                 /\ Last(LinesOf(segmentFiles')) = f.lines
                 /\ Front(LinesOf(segmentFiles')) = Front(Kept)
<1>1. PICK fs \in Seq(Files) : fs = segmentFiles
  BY DEF DiskInv, Files
<1>2. PICK d \in Seq(Lines) : d = Stored /\ Len(d) = Len(fs) /\ d = LinesOf(fs)
  BY <1>1, LinesFacts DEF Stored
<1>3. PICK k \in Seq(Lines) : k = Kept /\ k = writers /\ (d = k \/ FileMore(k, d))
  BY <1>2 DEF DiskInv, ReadyInv
<1>4. k # <<>> /\ Last(k) \in Lines /\ Len(Last(k)) \in Nat /\ Len(Last(k)) < SegmentSize
  <2>1. k # <<>> /\ ~ Len(Last(k)) >= SegmentSize
    BY <1>3 DEF Rotates
  <2>2. Last(k) \in Lines
    BY <2>1, LastFacts
  <2>3. Len(Last(k)) \in Nat /\ SegmentSize \in Nat
    BY <2>2, SegmentsAssumption DEF Lines
  <2> QED BY <2>1, <2>2, <2>3
<1>5. d = k
  <2>1. ~ Len(Last(k)) >= SegmentSize
    BY <1>3 DEF Rotates
  <2> QED BY <1>3, <1>4, <2>1 DEF FileMore
<1>6. Index = Len(fs) /\ Index <= Len(segmentFiles) /\ fs # <<>> /\ Index = Len(k)
  <2>1. Len(k) \in Nat /\ Len(k) # 0
    BY <1>4
  <2> QED BY <1>1, <1>2, <1>3, <1>5, <2>1 DEF Index
<1>7. \A l : WritersWith(l) = [k EXCEPT ![Len(k)] = l]
  BY <1>3, <1>6 DEF WritersWith
<1>8. ASSUME NEW f \in Files, WriteSegment(f)
      PROVE  /\ segmentFiles' \in Seq(Files) /\ LinesOf(segmentFiles') # <<>>
             /\ Last(LinesOf(segmentFiles')) = f.lines
             /\ Front(LinesOf(segmentFiles')) = Front(k)
  <2>1. PICK q : q = segmentFiles' /\ q = [fs EXCEPT ![Len(fs)] = f]
    BY <1>1, <1>6, <1>8 DEF WriteSegment
  <2>2. /\ q \in Seq(Files) /\ LinesOf(q) # <<>> /\ Last(LinesOf(q)) = f.lines
        /\ Front(LinesOf(q)) = Front(LinesOf(fs))
    BY <1>6, <2>1, LinesSet
  <2> QED BY <1>2, <1>5, <2>1, <2>2
<1>9. Current = Last(k)
  BY <1>3 DEF Current
<1> QED BY <1>2, <1>3, <1>4, <1>5, <1>7, <1>8, <1>9

-----------------------------------------------------------------------------
(* ChainEnvelopes *)

LEMMA TipFacts ==
    ASSUME NEW s \in Lines
    PROVE  /\ Tip(s) \in Seq(Contents) /\ Len(Tip(s)) \in Nat
           /\ \A e \in ChainEnvelopes : Append(s, e) \in Lines /\ Tip(Append(s, e)) = e
<1>1. Tip(s) \in Seq(Contents)
  <2>1. s = <<>> \/ Last(s) \in ChainEnvelopes
    BY LastFacts DEF Lines
  <2> QED BY <2>1, EmptySeq DEF Tip, ChainEnvelopes
<1>2. \A e \in ChainEnvelopes : Append(s, e) \in Lines /\ Tip(Append(s, e)) = e
  <2>1. \A e \in ChainEnvelopes : Append(s, e) \in Seq(ChainEnvelopes) /\ Append(s, e) # <<>> /\ Last(Append(s, e)) = e
    BY AppendedFacts DEF Lines
  <2> QED BY <2>1 DEF Tip, Lines
<1> QED BY <1>1, <1>2

LEMMA EnvelopeId ==
    ASSUME NEW event \in Contents, made \in Lines
    PROVE  IdOf(EnvelopeFor(event)) = event.id
<1>1. CASE SameIdentity(Range(made), event.id) = {}
  <2>1. PICK t \in Seq(Contents) : t = Tip(made)
    BY TipFacts
  <2>2. EnvelopeFor(event) = Append(t, event)
    BY <1>1, <2>1 DEF EnvelopeFor, Tip
  <2>3. Last(Append(t, event)) = event
    BY AppendedFacts
  <2> QED BY <2>2, <2>3 DEF IdOf
<1>2. CASE SameIdentity(Range(made), event.id) # {}
  <2>1. \E e \in Range(made) : IdOf(e) = event.id
    BY <1>2 DEF SameIdentity
  <2>2. PICK e : e = CHOOSE d \in Range(made) : IdOf(d) = event.id
    OBVIOUS
  <2>3. IdOf(e) = event.id
    BY <2>1, <2>2
  <2> QED BY <1>2, <2>2, <2>3 DEF EnvelopeFor
<1> QED BY <1>1, <1>2

\* An identity the set does not know is new to the chain as well.
LEMMA EnvelopeNew ==
    ASSUME NEW event \in Contents, made \in Lines, IdsIn(known) = IdsIn(Range(made)),
           ~ IsKnown(EnvelopeFor(event)), NEW e, e = EnvelopeFor(event)
    PROVE  /\ e \in ChainEnvelopes /\ Front(e) = Tip(made) /\ Len(e) = Len(Tip(made)) + 1
           /\ IdOf(e) = event.id /\ event.id \notin IdsIn(known) /\ MadeWith(e) = Append(made, e)
<1>1. IdOf(e) = event.id
  BY EnvelopeId
<1>2. event.id \notin IdsIn(known)
  BY <1>1 DEF IsKnown, SameIdentity, IdsIn
<1>3. SameIdentity(Range(made), event.id) = {} /\ e \notin Range(made)
  BY <1>1, <1>2 DEF SameIdentity, IdsIn
<1>4. PICK t \in Seq(Contents) : t = Tip(made)
  BY TipFacts
<1>5. e = Append(t, event)
  BY <1>3, <1>4 DEF EnvelopeFor, Tip
<1>6. e \in ChainEnvelopes /\ Front(e) = t /\ Len(e) = Len(t) + 1
  BY <1>5, AppendedFacts DEF ChainEnvelopes
<1> QED BY <1>1, <1>2, <1>3, <1>4, <1>6 DEF MadeWith

LEMMA EnvelopeKnown ==
    ASSUME NEW event \in Contents, made \in Lines, IdsIn(known) = IdsIn(Range(made)),
           IsKnown(EnvelopeFor(event))
    PROVE  MadeWith(EnvelopeFor(event)) = made
<1>1. IdOf(EnvelopeFor(event)) = event.id
  BY EnvelopeId
<1>2. event.id \in IdsIn(Range(made))
  BY <1>1 DEF IsKnown, SameIdentity, IdsIn
<1>3. (\E d \in Range(made) : IdOf(d) = event.id) /\ SameIdentity(Range(made), event.id) # {}
  BY <1>2 DEF IdsIn, SameIdentity
<1>4. PICK e : e = CHOOSE d \in Range(made) : IdOf(d) = event.id
  OBVIOUS
<1>5. e \in Range(made)
  BY <1>3, <1>4
<1>6. EnvelopeFor(event) = e
  BY <1>3, <1>4 DEF EnvelopeFor
<1> QED BY <1>5, <1>6 DEF MadeWith

\* The chain that the lines continue.
LEMMA KeptFacts ==
    ASSUME DiskInv
    PROVE  /\ Kept \in Seq(Lines) /\ Flat(Kept) \in Lines /\ ackedEvents = Flat(Kept)
           /\ Head_(Kept) = Tip(ackedEvents) /\ Len(Tip(ackedEvents)) \in Nat
<1>1. Kept \in Seq(Lines) /\ ackedEvents = Flat(Kept) /\ \A n \in DOMAIN Kept : Kept[n] # <<>>
  BY DEF DiskInv, Sized
<1>2. PICK k \in Seq(Lines) : k = Kept
  BY <1>1
<1>3. Flat(k) \in Lines /\ Head_(k) = Tip(Flat(k))
  BY <1>1, <1>2, FlatTip
<1> QED BY <1>1, <1>2, <1>3, TipFacts

LEMMA IdsMore == ASSUME NEW set, NEW e PROVE IdsIn(set \cup {e}) = IdsIn(set) \cup {IdOf(e)}
BY DEF IdsIn

\* The chain of what has been acknowledged goes on with the new line.
LEMMA ProjectsMore ==
    ASSUME NEW s \in Lines, NEW e \in ChainEnvelopes, Projects(s), Front(e) = Tip(s)
    PROVE  Projects(Append(s, e))
<1>1. PICK n, q : n = Len(s) /\ q = Append(s, e)
  OBVIOUS
<1>2. /\ n \in Nat /\ DOMAIN s = 1 .. n /\ DOMAIN q = 1 .. n + 1
      /\ q[n + 1] = e /\ \A i \in 1 .. n : q[i] = s[i]
  BY <1>1 DEF Lines
<1>3. ASSUME NEW i \in DOMAIN q \ {1} PROVE Front(q[i]) = q[i - 1]
  <2>1. CASE i = n + 1
    <3>1. n # 0 /\ n \in 1 .. n /\ i - 1 = n
      BY <1>2, <1>3, <2>1
    <3>2. s # <<>> /\ Tip(s) = s[n]
      BY <1>1, <1>2, <3>1 DEF Tip, Last
    <3> QED BY <1>2, <2>1, <3>1, <3>2
  <2>2. CASE i # n + 1
    <3>1. i \in DOMAIN s \ {1} /\ i \in 1 .. n /\ i - 1 \in 1 .. n
      BY <1>2, <1>3, <2>2
    <3>2. Front(s[i]) = s[i - 1]
      BY <3>1 DEF Projects
    <3> QED BY <1>2, <3>1, <3>2
  <2> QED BY <2>1, <2>2
<1> QED BY <1>1, <1>3 DEF Projects

-----------------------------------------------------------------------------
(* The steps of the sink *)

\* What a synced line is, wherever it went: it continues what is acknowledged.
Continues(x, kept, w) ==
    /\ x \in ChainEnvelopes /\ Front(x) = Tip(Flat(kept)) /\ Flat(w) = Append(Flat(kept), x)
    /\ w \in Seq(Lines) /\ w # <<>> /\ Sized(w)

LEMMA NewSegment ==
    ASSUME NEW k \in Seq(Lines), Sized(k), Flat(k) \in Lines, NEW x \in ChainEnvelopes, Front(x) = Tip(Flat(k)),
           k # <<>> => Len(Last(k)) >= SegmentSize, NEW w, w = Append(k, <<x>>)
    PROVE  Continues(x, k, w) /\ FileMore(k, w)
<1>1. <<x>> \in Lines /\ Len(<<x>>) = 1 /\ <<x>> # <<>> /\ SegmentSize \in Nat \ {0}
  BY SegmentsAssumption DEF Lines
<1>2. w \in Seq(Lines) /\ w # <<>> /\ Front(w) = k /\ Last(w) = <<x>>
  BY <1>1, AppendedFacts
<1>3. Sized(w)
  <2>0. Len(<<x>>) <= SegmentSize
    BY <1>1
  <2>1. Len(Last(w)) <= SegmentSize /\ Last(w) # <<>>
    BY <1>1, <1>2, <2>0, Zenon
  <2>2. Sized(Front(w))
    BY <1>2
  <2>3. Sized(w) <=> Sized(Front(w)) /\ Last(w) # <<>> /\ Len(Last(w)) <= SegmentSize
    BY <1>2, SizedParts
  <2> QED BY <2>1, <2>2, <2>3
<1>4. Flat(w) = Flat(k) \o <<x>>
  BY <1>1, FlatMore DEF Lines
<1>5. Flat(w) = Append(Flat(k), x)
  BY <1>4, ConcatMore DEF Lines
<1>6. FileMore(k, w)
  <2>1. Len(<<x>>) <= 1
    BY <1>1
  <2>2. Len(Last(w)) <= 1
    BY <1>2, <2>1, Zenon
  <2> QED BY <1>2, <2>2 DEF FileMore
<1>7. Continues(x, k, w)
  BY <1>2, <1>3, <1>5 DEF Continues
<1> QED BY <1>6, <1>7

LEMMA LongerSegment ==
    ASSUME NEW k \in Seq(Lines), k # <<>>, Sized(k), Flat(k) \in Lines, NEW x \in ChainEnvelopes,
           Front(x) = Tip(Flat(k)), Len(Last(k)) < SegmentSize,
           NEW w \in Seq(Lines), w # <<>>, Front(w) = Front(k), Last(w) = Append(Last(k), x)
    PROVE  Continues(x, k, w) /\ LineMore(k, w)
<1>1. Last(k) \in Lines /\ SegmentSize \in Nat
  BY LastFacts, SegmentsAssumption
<1>2. /\ Last(w) # <<>> /\ Front(Last(w)) = Last(k) /\ Last(Last(w)) = x
      /\ Len(Last(w)) = Len(Last(k)) + 1 /\ Len(Last(k)) \in Nat
  BY <1>1, AppendedFacts DEF Lines
<1>3. LineMore(k, w)
  BY <1>2 DEF LineMore
<1>4. Flat(w) = Append(Flat(k), x)
  BY <1>2, <1>3, FlatLine
<1>5. Sized(w)
  <2>1. Sized(Front(w))
    BY SizedParts
  <2>2. Last(w) # <<>> /\ Len(Last(w)) <= SegmentSize
    BY <1>1, <1>2
  <2> QED BY <2>1, <2>2, SizedParts
<1> QED BY <1>3, <1>4, <1>5 DEF Continues

\* The line is written and in memory: one more than what is acknowledged.
LEMMA WrittenNow ==
    ASSUME SegmentsInv, NEW k, k = Kept, NEW w, w = writers', NEW x, Continues(x, k, w),
           FileMore(k, w) \/ LineMore(k, w),
           segmentFiles' \in Seq(Files), LinesOf(segmentFiles') = w,
           NEW e \in ChainEnvelopes, IdOf(e) = IdOf(x), Len(e) = Len(x), made \in Lines, made' = Append(made, e),
           IdsIn(known) = IdsIn(Range(made)), known = Range(Flat(k)), known' = known \cup {x},
           status' = "written", UNCHANGED <<manifest, ackedEvents>>
    PROVE  SegmentsInv'
<1>1. Kept' = k /\ manifest' = manifest /\ ackedEvents' = ackedEvents
  BY DEF Kept
<1>2. Stored' = w
  BY DEF Stored
<1>3. k \in Seq(Lines) /\ Flat(k) \in Lines /\ ackedEvents = Flat(k)
  BY KeptFacts DEF SegmentsInv
<1>4. DiskInv'
  BY <1>1, <1>2 DEF SegmentsInv, DiskInv, Files
<1>5. /\ x \in ChainEnvelopes /\ Front(x) = Tip(Flat(k)) /\ Flat(w) = Append(Flat(k), x)
      /\ w \in Seq(Lines) /\ w # <<>> /\ Sized(w)
  BY DEF Continues
<1>6. Flat(w) # <<>> /\ Front(Flat(w)) = Flat(k) /\ Last(Flat(w)) = x /\ Range(Flat(w)) = Range(Flat(k)) \cup {x}
  <2>1. \A s \in Seq(ChainEnvelopes), y \in ChainEnvelopes :
            /\ Append(s, y) # <<>> /\ Front(Append(s, y)) = s /\ Last(Append(s, y)) = y
            /\ Range(Append(s, y)) = Range(s) \cup {y}
    BY AppendedFacts
  <2>2. PICK s \in Seq(ChainEnvelopes) : s = Flat(k)
    BY <1>3 DEF Lines
  <2> QED BY <1>5, <2>1, <2>2
<1>7. WrittenInv'
  BY <1>1, <1>2, <1>3, <1>5, <1>6 DEF WrittenInv
<1>8. MemoryInv'
  <2>1. made' \in Lines /\ Tip(made') = e
    BY TipFacts
  <2>2. Range(made') = Range(made) \cup {e}
    BY AppendedFacts DEF Lines
  <2>3. IdsIn(known') = IdsIn(Range(made'))
    <3>1. IdsIn(known \cup {x}) = IdsIn(known) \cup {IdOf(x)}
      BY IdsMore
    <3>2. IdsIn(Range(made) \cup {e}) = IdsIn(Range(made)) \cup {IdOf(e)}
      BY IdsMore
    <3> QED BY <2>2, <3>1, <3>2
  <2>4. Tip(Flat(w)) = x
    BY <1>6 DEF Tip
  <2> QED BY <1>6, <2>1, <2>3, <2>4 DEF MemoryInv
<1>9. ReadyInv'
  BY DEF ReadyInv
<1> QED BY <1>4, <1>7, <1>8, <1>9 DEF SegmentsInv

LEMMA WriteKept ==
    ASSUME SegmentsInv, NEW event \in Contents, AppendEventLine(event)
    PROVE  SegmentsInv'
<1>1. PICK e, lines : /\ e = EnvelopeFor(event)
                      /\ lines = IF InSegment(e) = {} THEN Append(Current, e) ELSE Current
  OBVIOUS
<1>2. /\ status = "ready" /\ ~ IsKnown(e) /\ ~ Refuses(e) /\ status' = "written" /\ made' = MadeWith(e)
      /\ writers' = WritersWith(lines)
      /\ known' = known \cup {IF InSegment(e) = {} THEN e ELSE CHOOSE o \in InSegment(e) : TRUE}
      /\ IF InSegment(e) = {} THEN WriteSegment(File(lines)) ELSE UNCHANGED segmentFiles
      /\ UNCHANGED <<manifest, ackedEvents>>
  BY <1>1 DEF AppendEventLine, MayAppend
<1>3. PICK k : k = Kept
  OBVIOUS
<1>4. /\ k \in Seq(Lines) /\ Flat(k) \in Lines /\ ackedEvents = Flat(k) /\ Head_(k) = Tip(Flat(k))
      /\ Len(Tip(Flat(k))) \in Nat /\ Sized(k) /\ writers = k
  BY <1>2, <1>3, KeptFacts DEF SegmentsInv, DiskInv, ReadyInv
<1>5. /\ made \in Lines /\ IdsIn(known) = IdsIn(Range(made)) /\ known = Range(Flat(k))
      /\ Len(Tip(made)) = Len(Tip(Flat(k)))
  BY <1>2, <1>4 DEF SegmentsInv, MemoryInv
<1>6. /\ e \in ChainEnvelopes /\ Front(e) = Tip(made) /\ Len(e) = Len(Tip(made)) + 1
      /\ IdOf(e) = event.id /\ event.id \notin IdsIn(known) /\ made' = Append(made, e)
  BY <1>1, <1>2, <1>5, EnvelopeNew
<1>7. InSegment(e) = {} => Front(e) = IF Current = <<>> THEN Head_(k) ELSE Last(Current)
  BY <1>2, <1>4 DEF Refuses, Fits
<1>8. CASE ~ Rotates
  <2>1. /\ k # <<>> /\ Stored = k /\ Current = Last(k) /\ Len(Current) < SegmentSize
        /\ \A l : WritersWith(l) = [k EXCEPT ![Len(k)] = l]
        /\ \A f \in Files : WriteSegment(f) =>
              /\ segmentFiles' \in Seq(Files) /\ LinesOf(segmentFiles') # <<>>
              /\ Last(LinesOf(segmentFiles')) = f.lines
              /\ Front(LinesOf(segmentFiles')) = Front(k)
    BY <1>2, <1>3, <1>8, StayFacts DEF SegmentsInv
  <2>2. Last(k) \in Lines /\ Last(k) # <<>>
    BY <1>4, <2>1, LastFacts, SizedParts
  <2>3. InSegment(e) = {}
    <3>1. Range(Last(k)) \subseteq known
      BY <1>4, <1>5, <2>1, OneSegment
    <3> QED BY <1>6, <2>1, <3>1 DEF InSegment, SameIdentity, IdsIn
  <2>4. lines = Append(Last(k), e) /\ lines \in Lines
    BY <1>1, <1>6, <2>1, <2>2, <2>3 DEF Lines
  <2>5. File(lines) \in Files /\ File(lines).lines = lines
    BY <2>4 DEF File, Files
  <2>6. /\ segmentFiles' \in Seq(Files) /\ LinesOf(segmentFiles') # <<>>
        /\ Last(LinesOf(segmentFiles')) = lines /\ Front(LinesOf(segmentFiles')) = Front(k)
    BY <1>2, <2>1, <2>3, <2>5
  <2>7. PICK w : w = writers' /\ w = [k EXCEPT ![Len(k)] = lines]
    BY <1>2, <2>1
  <2>8. w \in Seq(Lines) /\ w # <<>> /\ Front(w) = Front(k) /\ Last(w) = lines
    <3>1. Len(k) \in 1 .. Len(k)
      BY <1>4, <2>1
    <3>2. /\ w \in Seq(Lines) /\ Len(w) = Len(k) /\ w[Len(k)] = lines
          /\ \A i \in 1 .. Len(k) : i # Len(k) => w[i] = k[i]
      BY <1>4, <2>4, <2>7, <3>1, ExceptSeq
    <3> QED BY <1>4, <2>1, <3>2, LastSet
  <2>9. LinesOf(segmentFiles') = w
    <3>1. PICK d \in Seq(Lines) : d = LinesOf(segmentFiles')
      BY <2>6, LinesFacts
    <3>2. \A p \in Seq(Lines) : p # <<>> => p = Append(Front(p), Last(p))
      BY LastFacts
    <3> QED BY <2>6, <2>8, <3>1, <3>2
  <2>10. Front(e) = Tip(Flat(k))
    BY <1>4, <1>7, <2>1, <2>2, <2>3 DEF Head_
  <2>11. Continues(e, k, w) /\ LineMore(k, w)
    BY <1>4, <1>6, <2>1, <2>4, <2>8, <2>10, LongerSegment
  <2>12. known' = known \cup {e}
    BY <1>2, <2>3
  <2> QED BY <1>2, <1>3, <1>5, <1>6, <2>6, <2>7, <2>9, <2>11, <2>12, WrittenNow
<1>9. CASE Rotates
  <2>1. /\ Current \in Lines /\ Len(Current) <= 1 /\ (k # <<>> => Len(Last(k)) >= SegmentSize)
        /\ Current # <<>> => Stored = Append(k, Current) /\ Current = OnDisk.lines
        /\ \A l : WritersWith(l) = Append(k, l)
        /\ \A f \in Files : WriteSegment(f) =>
              segmentFiles' \in Seq(Files) /\ LinesOf(segmentFiles') = Append(k, f.lines)
    BY <1>2, <1>3, <1>9, RotateFacts DEF SegmentsInv
  <2>2. PICK w : w = writers' /\ w = Append(k, lines)
    BY <1>2, <2>1
  <2>3. ASSUME Current # <<>>
        PROVE  \E o \in ChainEnvelopes : Current = <<o>> /\ Front(o) = Head_(k) /\ Len(o) = Len(Tip(Flat(k))) + 1
    <3>1. PICK c \in Seq(ChainEnvelopes) : c = Current /\ c # <<>> /\ Len(c) <= 1
      BY <2>1, <2>3 DEF Lines
    <3>2. Len(c) = 1 /\ c[1] \in ChainEnvelopes /\ c = <<c[1]>> /\ DOMAIN c = {1}
      <4>1. Len(c) = 1
        <5>1. Len(c) \in Nat \ {0}
          BY <3>1, LastFacts
        <5> QED BY <3>1, <5>1
      <4>2. DOMAIN c = {1} /\ c[1] \in ChainEnvelopes
        BY <3>1, <4>1
      <4>3. PICK d \in Seq(ChainEnvelopes) : d = <<c[1]>> /\ Len(d) = 1 /\ d[1] = c[1]
        BY <4>2
      <4>4. c = d
        BY <3>1, <4>1, <4>3
      <4> QED BY <3>1, <4>1, <4>2, <4>3, <4>4
    <3>3. PICK o \in ChainEnvelopes : o = c[1]
      BY <3>2
    <3>4. Chained(OnDisk.lines, Head_(k))
      BY <1>2, <1>4, <1>9 DEF Refuses, WriterOpens, Loads
    <3>5. Front(o) = Head_(k)
      BY <2>1, <2>3, <3>1, <3>2, <3>3, <3>4 DEF Chained
    <3>6. Len(Front(o)) = Len(o) - 1 /\ Len(o) \in Nat
      BY LastFacts DEF ChainEnvelopes
    <3>7. Len(o) = Len(Tip(Flat(k))) + 1
      BY <1>4, <3>5, <3>6
    <3> QED BY <3>1, <3>2, <3>3, <3>5, <3>7
  <2>4. CASE InSegment(e) = {}
    <3>1. Current = <<>>
      <4>1. SUFFICES ASSUME Current # <<>> PROVE FALSE
        OBVIOUS
      <4>2. PICK o \in ChainEnvelopes : Current = <<o>> /\ Len(o) = Len(Tip(Flat(k))) + 1
        BY <2>3, <4>1
      <4>3. Last(<<o>>) = o
        BY DEF Last
      <4>4. Front(e) = o
        BY <1>7, <2>4, <4>1, <4>2, <4>3
      <4> QED BY <1>4, <1>5, <1>6, <4>2, <4>4
    <3>2. lines = <<e>> /\ lines \in Lines /\ Front(e) = Tip(Flat(k))
      BY <1>1, <1>4, <1>6, <1>7, <2>4, <3>1 DEF Lines
    <3>3. File(lines) \in Files /\ File(lines).lines = lines
      BY <3>2 DEF File, Files
    <3>4. segmentFiles' \in Seq(Files) /\ LinesOf(segmentFiles') = w
      BY <1>2, <2>1, <2>2, <2>4, <3>3
    <3>5. Continues(e, k, w) /\ FileMore(k, w)
      BY <1>4, <1>6, <2>1, <2>2, <3>2, NewSegment
    <3>6. known' = known \cup {e}
      BY <1>2, <2>4
    <3> QED BY <1>2, <1>3, <1>5, <1>6, <2>2, <3>4, <3>5, <3>6, WrittenNow
  <2>5. CASE InSegment(e) # {}
    <3>1. Current # <<>>
      BY <2>5, EmptyFacts DEF InSegment, SameIdentity
    <3>2. PICK o \in ChainEnvelopes : Current = <<o>> /\ Front(o) = Head_(k) /\ Len(o) = Len(Tip(Flat(k))) + 1
      BY <2>3, <3>1
    <3>3. Range(<<o>>) = {o}
      BY DEF Range
    <3>4. InSegment(e) = {o} /\ IdOf(o) = IdOf(e)
      BY <2>5, <3>2, <3>3 DEF InSegment, SameIdentity
    <3>5. known' = known \cup {o}
      BY <1>2, <3>4
    <3>6. lines = <<o>>
      BY <1>1, <2>5, <3>2
    <3>7. Continues(o, k, w) /\ FileMore(k, w)
      BY <1>4, <2>1, <2>2, <3>2, <3>6, NewSegment
    <3>8. segmentFiles' \in Seq(Files) /\ LinesOf(segmentFiles') = w
      BY <1>2, <2>1, <2>2, <2>5, <3>1, <3>2, <3>6 DEF SegmentsInv, DiskInv, Files, Stored
    <3>9. Len(e) = Len(o)
      BY <1>5, <1>6, <3>2
    <3> QED BY <1>2, <1>3, <1>5, <1>6, <2>2, <3>4, <3>5, <3>7, <3>8, <3>9, WrittenNow
  <2> QED BY <2>4, <2>5
<1> QED BY <1>8, <1>9

LEMMA DiskStays ==
    ASSUME DiskInv, UNCHANGED <<segmentFiles, manifest, ackedEvents>>
    PROVE  DiskInv' /\ Kept' = Kept /\ Stored' = Stored
<1>1. Kept' = Kept /\ Stored' = Stored
  BY DEF Kept, Stored
<1> QED BY <1>1 DEF DiskInv

\* A process that has failed, has refused or is gone: only the disk counts.
LEMMA IdleStays ==
    ASSUME DiskInv', status' \notin {"ready", "written"}
    PROVE  SegmentsInv'
BY DEF SegmentsInv, MemoryInv, ReadyInv, WrittenInv

LEMMA OpenKept ==
    ASSUME SegmentsInv, OpenSet
    PROVE  SegmentsInv'
<1>1. /\ DiskInv /\ DiskInv' /\ Kept' = Kept /\ Stored' = Stored
      /\ UNCHANGED <<segmentFiles, manifest, ackedEvents>>
  BY DiskStays DEF SegmentsInv, OpenSet
<1>2. CASE ~ Recovers
  BY <1>1, <1>2, IdleStays DEF OpenSet
<1>3. CASE Recovers
  <2>1. PICK k \in Seq(Lines) : k = Kept /\ Flat(k) \in Lines
    BY <1>1, KeptFacts
  <2>2. ASSUME writers' = k, known' = Range(Flat(k)), made' = Flat(k), status' = "ready",
               Stored = k \/ FileMore(k, Stored)
        PROVE  SegmentsInv'
    <3>1. MemoryInv'
      BY <2>1, <2>2 DEF MemoryInv
    <3>2. ReadyInv'
      BY <1>1, <2>1, <2>2 DEF ReadyInv
    <3>3. WrittenInv'
      BY <2>2 DEF WrittenInv
    <3> QED BY <1>1, <3>1, <3>2, <3>3 DEF SegmentsInv
  <2>3. CASE manifest = NoManifest
    <3>1. k = <<>> /\ segmentFiles = <<>>
      BY <1>3, <2>1, <2>3 DEF Kept, Recovers
    <3>2. Stored = <<>>
      BY <3>1 DEF Stored, LinesOf
    <3>3. /\ status' = "ready" /\ writers' = <<>>
          /\ known' = Range(Flat(<<>>)) /\ made' = Flat(<<>>)
      BY <1>3, <2>3 DEF OpenSet
    <3> QED BY <2>2, <3>1, <3>2, <3>3
  <2>4. CASE manifest # NoManifest
    <3>1. k = manifest /\ k # <<>>
      BY <1>1, <2>1, <2>4 DEF Kept, DiskInv
    <3>2. \A n \in DOMAIN k : n <= Len(segmentFiles) /\ segmentFiles[n].lines = k[n]
      BY <1>3, <2>4, <3>1 DEF Recovers, Described
    <3>3. PICK d \in Seq(Lines) : /\ d = Stored /\ Len(d) = Len(segmentFiles) /\ Len(d) \in Nat
                                  /\ \A n \in 1 .. Len(d) : d[n] = segmentFiles[n].lines
      BY <1>1, LinesFacts DEF DiskInv, Files, Stored
    <3>4. \A n \in 1 .. Len(k) : n <= Len(d) /\ d[n] = k[n]
      BY <3>2, <3>3
    <3>5. Len(k) \in Nat \ {0}
      BY <3>1, LastFacts
    <3>6. SubSeq(d, 1, Len(k)) = k
      <4>1. Len(k) <= Len(d)
        BY <3>4, <3>5
      <4>2. PICK q \in Seq(Lines) : /\ q = SubSeq(d, 1, Len(k)) /\ Len(q) = Len(k)
                                    /\ \A i \in 1 .. Len(k) : q[i] = d[i]
        <5>1. \A n \in Nat : n <= Len(d) => /\ SubSeq(d, 1, n) \in Seq(Lines) /\ Len(SubSeq(d, 1, n)) = n
                                            /\ \A i \in 1 .. n : SubSeq(d, 1, n)[i] = d[i]
          BY <3>3
        <5> QED BY <3>5, <4>1, <5>1
      <4>3. \A i \in 1 .. Len(k) : q[i] = k[i]
        BY <3>4, <4>2
      <4> QED BY <4>2, <4>3, SeqEqual
    <3>7. /\ status' = "ready" /\ writers' = k /\ known' = Range(Flat(k)) /\ made' = Flat(k)
      BY <1>3, <2>4, <3>1, <3>3, <3>6 DEF OpenSet, Stored
    <3>8. ~ LineMore(k, d)
      <4>1. SUFFICES ASSUME LineMore(k, d) PROVE FALSE
        OBVIOUS
      <4>2. /\ d # <<>> /\ Front(d) = Front(k) /\ Last(d) # <<>> /\ Front(Last(d)) = Last(k)
        BY <4>1 DEF LineMore
      <4>3. Len(d) = Len(k)
        <5>1. Len(Front(d)) = Len(d) - 1 /\ Len(Front(k)) = Len(k) - 1
          BY <3>1, <4>2, LastFacts
        <5> QED BY <3>3, <3>5, <4>2, <5>1
      <4>4. Last(d) = Last(k)
        BY <3>4, <3>5, <4>3 DEF Last
      <4>5. PICK l \in Lines : l = Last(d)
        BY <4>2, LastFacts
      <4>6. Len(Front(l)) = Len(l) - 1 /\ Len(l) \in Nat
        BY <4>2, <4>5, LastFacts DEF Lines
      <4> QED BY <4>2, <4>4, <4>5, <4>6
    <3>9. Stored = k \/ FileMore(k, Stored)
      BY <1>1, <2>1, <3>3, <3>8 DEF DiskInv
    <3> QED BY <2>2, <3>7, <3>9
  <2> QED BY <2>3, <2>4
<1> QED BY <1>2, <1>3

LEMMA KnownKept ==
    ASSUME SegmentsInv, NEW event \in Contents, AppendKnown(event)
    PROVE  SegmentsInv'
<1>1. /\ status = "ready" /\ IsKnown(EnvelopeFor(event)) /\ made' = MadeWith(EnvelopeFor(event))
      /\ UNCHANGED <<segmentFiles, manifest, status, writers, known, ackedEvents>>
  BY DEF AppendKnown, MayAppend
<1>2. made' = made
  BY <1>1, EnvelopeKnown DEF SegmentsInv, MemoryInv
<1>3. DiskInv' /\ Kept' = Kept /\ Stored' = Stored
  BY <1>1, DiskStays DEF SegmentsInv
<1>4. MemoryInv'
  BY <1>1, <1>2 DEF SegmentsInv, MemoryInv
<1>5. ReadyInv'
  BY <1>1, <1>3 DEF SegmentsInv, ReadyInv
<1>6. WrittenInv'
  BY <1>1 DEF WrittenInv
<1> QED BY <1>3, <1>4, <1>5, <1>6 DEF SegmentsInv

LEMMA RefusedKept ==
    ASSUME SegmentsInv, NEW event \in Contents, AppendRefused(event)
    PROVE  SegmentsInv'
<1>1. status' = "failed" /\ UNCHANGED <<segmentFiles, manifest, ackedEvents>>
  BY DEF AppendRefused
<1> QED BY <1>1, DiskStays, IdleStays DEF SegmentsInv

\* A write that stops half way leaves the lines there were, with an empty file at most.
LEMMA TornKept ==
    ASSUME SegmentsInv, NEW event \in Contents, TearLine(event)
    PROVE  SegmentsInv'
<1>1. PICK torn \in BOOLEAN : WriteSegment([lines |-> Current, torn |-> torn])
  BY DEF TearLine
<1>2. /\ status = "ready" /\ status' = "failed" /\ UNCHANGED <<manifest, ackedEvents>>
      /\ DiskInv /\ ReadyInv
  BY DEF TearLine, MayAppend, SegmentsInv
<1>3. PICK k : k = Kept /\ k \in Seq(Lines)
  BY <1>2, KeptFacts
<1>4. Kept' = k
  BY <1>2, <1>3 DEF Kept
<1>5. ASSUME Current \in Lines
      PROVE  [lines |-> Current, torn |-> torn] \in Files
  BY <1>5 DEF Files
<1>6. segmentFiles' \in Seq(Files) /\ (LinesOf(segmentFiles') = k \/ FileMore(k, LinesOf(segmentFiles')))
  <2>1. CASE Rotates
    <3>1. /\ Current \in Lines /\ Len(Current) <= 1 /\ (k # <<>> => Len(Last(k)) >= SegmentSize)
          /\ \A f \in Files : WriteSegment(f) =>
                segmentFiles' \in Seq(Files) /\ LinesOf(segmentFiles') = Append(k, f.lines)
      BY <1>2, <1>3, <2>1, RotateFacts
    <3>2. segmentFiles' \in Seq(Files) /\ LinesOf(segmentFiles') = Append(k, Current)
      BY <1>1, <1>5, <3>1
    <3>0. \A s \in Seq(Lines), l \in Lines : Append(s, l) # <<>> /\ Front(Append(s, l)) = s /\ Last(Append(s, l)) = l
      BY AppendedFacts
    <3>3. PICK d : d = Append(k, Current) /\ d # <<>> /\ Front(d) = k /\ Last(d) = Current
      BY <1>3, <3>0, <3>1
    <3>4. FileMore(k, d)
      BY <3>1, <3>3 DEF FileMore
    <3> QED BY <3>2, <3>3, <3>4
  <2>2. CASE ~ Rotates
    <3>1. /\ k # <<>> /\ Current = Last(k)
          /\ \A f \in Files : WriteSegment(f) =>
                /\ segmentFiles' \in Seq(Files) /\ LinesOf(segmentFiles') # <<>>
                /\ Last(LinesOf(segmentFiles')) = f.lines
                /\ Front(LinesOf(segmentFiles')) = Front(k)
      BY <1>2, <1>3, <2>2, StayFacts
    <3>2. Current \in Lines
      BY <1>3, <3>1, LastFacts
    <3>3. /\ segmentFiles' \in Seq(Files) /\ LinesOf(segmentFiles') # <<>>
          /\ Last(LinesOf(segmentFiles')) = Current /\ Front(LinesOf(segmentFiles')) = Front(k)
      BY <1>1, <1>5, <3>1, <3>2
    <3>4. PICK d \in Seq(Lines) : d = LinesOf(segmentFiles')
      BY <3>3, LinesFacts
    <3>5. \A p \in Seq(Lines) : p # <<>> => p = Append(Front(p), Last(p))
      BY LastFacts
    <3> QED BY <1>3, <3>1, <3>3, <3>4, <3>5
  <2> QED BY <2>1, <2>2
<1>7. DiskInv'
  BY <1>2, <1>3, <1>4, <1>6 DEF DiskInv, Stored, Files
<1> QED BY <1>2, <1>7, IdleStays

LEMMA NotNoManifest ==
    ASSUME NEW w \in Seq(Lines)
    PROVE  w # NoManifest
<1>1. \A a, b : a \subseteq b => Seq(a) \subseteq Seq(b)
  OBVIOUS
<1>2. ChainEnvelopes \subseteq Seq(Contents)
  BY DEF ChainEnvelopes
<1>3. Lines \subseteq Seq(Seq(Contents))
  BY <1>1, <1>2 DEF Lines
<1>4. w \in Seq(Seq(Seq(Contents)))
  BY <1>1, <1>3
<1> QED BY <1>4, NoManifestAssumption

LEMMA ManifestKept ==
    ASSUME SegmentsInv, WriteManifest
    PROVE  SegmentsInv'
<1>1. status = "written" /\ DiskInv /\ UNCHANGED <<segmentFiles, writers, known, made>>
  BY DEF WriteManifest, SegmentsInv
<1>2. CASE status' = "failed" /\ UNCHANGED <<manifest, ackedEvents>>
  BY <1>1, <1>2, DiskStays, IdleStays
<1>3. CASE manifest' = writers /\ ackedEvents' = Flat(writers) /\ status' = "ready"
  <2>1. PICK w : w = writers
    OBVIOUS
  <2>2. /\ w \in Seq(Lines) /\ w # <<>> /\ Sized(w) /\ Stored = w
        /\ Flat(w) # <<>> /\ Front(Flat(w)) = ackedEvents
        /\ Front(Last(Flat(w))) = Tip(ackedEvents)
    BY <1>1, <2>1 DEF SegmentsInv, WrittenInv
  <2>3. Kept' = w /\ Stored' = w
    BY <1>1, <1>3, <2>1, <2>2, NotNoManifest DEF Kept, Stored
  <2>4. Flat(w) \in Lines
    BY <2>2, FlatTip DEF Sized
  <2>5. ackedEvents \in Lines /\ Projects(ackedEvents)
    BY <1>1, KeptFacts DEF DiskInv
  <2>6. PICK x \in ChainEnvelopes : x = Last(Flat(w)) /\ Flat(w) = Append(ackedEvents, x)
    BY <2>2, <2>4, LastFacts DEF Lines
  <2>7. Projects(Flat(w))
    BY <2>2, <2>5, <2>6, ProjectsMore
  <2>8. DiskInv'
    BY <1>1, <1>3, <2>1, <2>2, <2>3, <2>7 DEF DiskInv
  <2>9. MemoryInv'
    BY <1>1, <1>3 DEF SegmentsInv, MemoryInv
  <2>10. ReadyInv'
    BY <1>1, <2>1, <2>3 DEF ReadyInv
  <2>11. WrittenInv'
    BY <1>3 DEF WrittenInv
  <2> QED BY <2>8, <2>9, <2>10, <2>11 DEF SegmentsInv
<1> QED BY <1>2, <1>3 DEF WriteManifest

\* The disk and the memory of the set agree, on every line the manifest names and on
\* the one it may not name yet.
THEOREM SegmentsKept == SegmentsSpec => []SegmentsInv
<1>1. SegmentsInit => SegmentsInv
  <2>1. SUFFICES ASSUME SegmentsInit PROVE SegmentsInv
    OBVIOUS
  <2>2. Kept = <<>> /\ Stored = <<>>
    BY <2>1 DEF SegmentsInit, Kept, Stored, LinesOf
  <2>3. manifest # <<>>
    <3>1. <<>> \in Seq(Lines)
      BY EmptyFacts
    <3> QED BY <2>1, <3>1, NotNoManifest DEF SegmentsInit
  <2>4. Sized(<<>>) /\ Projects(<<>>)
    BY DEF Sized, Projects
  <2>5. DiskInv
    BY <2>1, <2>2, <2>3, <2>4, FlatNone DEF SegmentsInit, DiskInv
  <2> QED BY <2>1, <2>5 DEF SegmentsInit, SegmentsInv, MemoryInv, ReadyInv, WrittenInv
<1>2. SegmentsInv /\ [SegmentsNext]_segmentVars => SegmentsInv'
  <2>1. SUFFICES ASSUME SegmentsInv, [SegmentsNext]_segmentVars PROVE SegmentsInv'
    OBVIOUS
  <2>2. CASE OpenSet
    BY <2>1, <2>2, OpenKept
  <2>3. CASE WriteManifest
    BY <2>1, <2>3, ManifestKept
  <2>4. CASE Exit
    BY <2>1, <2>4, DiskStays, IdleStays DEF Exit, SegmentsInv
  <2>5. CASE \E event \in Contents : AppendKnown(event)
    BY <2>1, <2>5, KnownKept
  <2>6. CASE \E event \in Contents : AppendRefused(event)
    BY <2>1, <2>6, RefusedKept
  <2>7. CASE \E event \in Contents : AppendEventLine(event)
    BY <2>1, <2>7, WriteKept
  <2>8. CASE \E event \in Contents : TearLine(event)
    BY <2>1, <2>8, TornKept
  <2>9. CASE UNCHANGED segmentVars
    <3>1. DiskInv' /\ Kept' = Kept /\ Stored' = Stored
      BY <2>1, <2>9, DiskStays DEF segmentVars, SegmentsInv
    <3>2. MemoryInv' /\ ReadyInv' /\ WrittenInv'
      BY <2>1, <2>9, <3>1 DEF segmentVars, SegmentsInv, MemoryInv, ReadyInv, WrittenInv
    <3> QED BY <3>1, <3>2 DEF SegmentsInv
  <2> QED BY <2>1, <2>2, <2>3, <2>4, <2>5, <2>6, <2>7, <2>8, <2>9 DEF SegmentsNext
<1> QED BY <1>1, <1>2, PTL DEF SegmentsSpec

\* Whatever stops the process between a segment and the manifest, an append that
\* returned is on disk, in its place, and memory, manifest and file agree whenever the
\* set is ready: market_event_segments.py, for every size of a segment and every event.
THEOREM AckedStaysStored == SegmentsSpec => []AckedIsStored
<1>1. SegmentsInv => AckedIsStored
  <2>1. SUFFICES ASSUME SegmentsInv PROVE AckedIsStored
    OBVIOUS
  <2>2. /\ Kept \in Seq(Lines) /\ Flat(Kept) \in Lines /\ ackedEvents = Flat(Kept)
        /\ Sized(Kept) /\ manifest # <<>> /\ Projects(ackedEvents)
        /\ Stored \in Seq(Lines)
        /\ Stored = Kept \/ FileMore(Kept, Stored) \/ LineMore(Kept, Stored)
    BY <2>1, KeptFacts, LinesFacts DEF SegmentsInv, DiskInv, Files, Stored
  <2>3. IsPrefix(ackedEvents, Flat(Stored))
    <3>1. \A b \in Seq(ChainEnvelopes) : IsPrefix(ackedEvents, ackedEvents \o b)
      BY <2>2, ConcatFacts DEF Lines
    <3>2. CASE Stored = Kept
      <4>1. ackedEvents \o <<>> = ackedEvents
        BY <2>2 DEF Lines
      <4> QED BY <2>2, <3>1, <3>2, <4>1, EmptyFacts
    <3>3. CASE FileMore(Kept, Stored)
      <4>1. Flat(Stored) = Flat(Kept) \o Last(Stored) /\ Last(Stored) \in Lines
        BY <2>2, <3>3, FlatFile DEF FileMore
      <4> QED BY <2>2, <3>1, <4>1 DEF Lines
    <3>4. CASE LineMore(Kept, Stored)
      <4>1. PICK x \in ChainEnvelopes : Flat(Stored) = Append(Flat(Kept), x)
        BY <2>2, <3>4, FlatLine
      <4>2. ackedEvents \o <<x>> = Append(Flat(Kept), x)
        BY <2>2, ConcatMore DEF Lines
      <4>3. <<x>> \in Seq(ChainEnvelopes)
        OBVIOUS
      <4> QED BY <3>1, <4>1, <4>2, <4>3
    <3> QED BY <2>2, <3>2, <3>3, <3>4
  <2>4. ASSUME status = "ready"
        PROVE  /\ Flat(writers) = ackedEvents
               /\ manifest = IF writers = <<>> THEN NoManifest ELSE writers
               /\ Projects(Flat(writers))
               /\ \A n \in DOMAIN writers : Len(writers[n]) <= SegmentSize
    <3>1. writers = Kept
      BY <2>1, <2>4 DEF SegmentsInv, ReadyInv
    <3>2. manifest = IF writers = <<>> THEN NoManifest ELSE writers
      BY <2>2, <3>1 DEF Kept
    <3>3. \A n \in DOMAIN writers : Len(writers[n]) <= SegmentSize
      BY <2>2, <3>1 DEF Sized
    <3>4. Flat(writers) = ackedEvents /\ Projects(Flat(writers))
      BY <2>2, <3>1
    <3> QED BY <3>2, <3>3, <3>4
  <2> QED BY <2>3, <2>4 DEF AckedIsStored, Stored
<1> QED BY <1>1, SegmentsKept, PTL
=============================================================================
