------------------------ MODULE CanonicalStoreProofs ------------------------
(***************************************************************************)
(* What the methods of the canonical store make of its tables, and the     *)
(* facts about sequences the proofs about several components rest on.      *)
(***************************************************************************)
EXTENDS CanonicalStore, SequencesExt, SequenceTheorems, FiniteSetTheorems,
        WellFoundedInduction, TLAPS

-----------------------------------------------------------------------------
(* Sequences                                                               *)

LEMMA SetAsSequence ==
    ASSUME NEW S, IsFiniteSet(S)
    PROVE  SetToSeq(S) \in Seq(S) /\ (S # {} => SetToSeq(S) # <<>>)
<1> DEFINE n == Cardinality(S)
           f == SetToSeq(S)
<1>1. n \in Nat /\ ExistsBijection(1..n, S)
    BY FS_CardinalityType
<1>2. \E g \in [1..n -> S] : IsInjective(g)
    BY <1>1 DEF ExistsBijection, Bijection, Injection, IsInjective
<1>3. f \in [1..n -> S]
    BY <1>2 DEF SetToSeq
<1>4. S # {} => n # 0
    BY FS_EmptySet
<1> HIDE DEF n, f
<1>5. f \in Seq(S) /\ Len(f) = n
    BY <1>1, <1>3, SeqDef, LenProperties
<1> QED
    BY <1>1, <1>4, <1>5 DEF f, n

(* It lists every member of the set.                                       *)
LEMMA SequenceOfAll ==
    ASSUME NEW S, IsFiniteSet(S)
    PROVE  \A x \in S : \E i \in DOMAIN SetToSeq(S) : SetToSeq(S)[i] = x
<1> DEFINE n == Cardinality(S)
           f == SetToSeq(S)
<1>1. n \in Nat /\ ExistsBijection(1..n, S)
    BY FS_CardinalityType
<1>2. \E g \in [1..n -> S] : IsInjective(g)
    BY <1>1 DEF ExistsBijection, Bijection, Injection, IsInjective
<1>3. f \in [1..n -> S] /\ IsInjective(f)
    BY <1>2 DEF SetToSeq
<1>4. Cardinality(1..n) = n
    BY <1>1, FS_Interval
<1> HIDE DEF f
<1>5. f \in Injection(1..n, S)
    BY <1>3 DEF Injection
<1>6. f \in Surjection(1..n, S)
    BY <1>4, <1>5, FS_Injection
<1>7. DOMAIN f = 1..n /\ \A x \in S : \E i \in 1..n : f[i] = x
    BY <1>3, <1>6 DEF Surjection
<1> QED
    BY <1>7 DEF f

LEMMA SeqOfSubset ==
    ASSUME NEW S, NEW T, S \subseteq T, NEW s \in Seq(S)
    PROVE  s \in Seq(T)
<1>1. Len(s) \in Nat /\ s \in [1..Len(s) -> T]
    BY LenProperties
<1> QED
    BY <1>1, SeqDef

LEMMA RemoveAtProperties ==
    ASSUME NEW S, NEW s \in Seq(S), NEW i \in 1..Len(s)
    PROVE  /\ RemoveAt(s, i) \in Seq(S)
           /\ Len(RemoveAt(s, i)) = Len(s) - 1
           /\ \A k \in 1..(Len(s) - 1) :
                RemoveAt(s, i)[k] = IF k < i THEN s[k] ELSE s[k + 1]
<1> DEFINE a == SubSeq(s, 1, i - 1)
           b == SubSeq(s, i + 1, Len(s))
<1>1. Len(s) \in Nat /\ i \in Nat /\ i >= 1 /\ i <= Len(s)
    BY LenProperties
<1>2. a \in Seq(S) /\ Len(a) = i - 1 /\ \A k \in 1..(i - 1) : a[k] = s[k]
    <2>1. \A k \in 1..(i - 1) : s[k] \in S
        BY <1>1, ElementOfSeq
    <2> QED
        BY <1>1, <2>1, SubSeqProperties
<1>3. b \in Seq(S) /\ Len(b) = Len(s) - i /\ \A k \in 1..(Len(s) - i) : b[k] = s[i + k]
    <2>1. \A k \in (i + 1)..Len(s) : s[k] \in S
        BY <1>1, ElementOfSeq
    <2> QED
        BY <1>1, <2>1, SubSeqProperties
<1>4. RemoveAt(s, i) = a \o b
    BY DEF RemoveAt
<1> HIDE DEF a, b
<1>5. /\ a \o b \in Seq(S)
      /\ Len(a \o b) = Len(a) + Len(b)
      /\ \A k \in 1..(Len(a) + Len(b)) :
            (a \o b)[k] = IF k <= Len(a) THEN a[k] ELSE b[k - Len(a)]
    BY <1>2, <1>3, ConcatProperties
<1>6. ASSUME NEW k \in 1..(Len(s) - 1)
      PROVE  (a \o b)[k] = IF k < i THEN s[k] ELSE s[k + 1]
    <2>1. CASE k < i
        BY <1>1, <1>2, <1>3, <1>5, <2>1
    <2>2. CASE ~(k < i)
        <3>1. k - (i - 1) \in 1..(Len(s) - i) /\ i + (k - (i - 1)) = k + 1
            BY <1>1, <2>2
        <3>2. (a \o b)[k] = b[k - (i - 1)]
            BY <1>1, <1>2, <1>3, <1>5, <2>2
        <3>3. b[k - (i - 1)] = s[k + 1]
            BY <1>3, <3>1
        <3> QED
            BY <2>2, <3>2, <3>3
    <2> QED BY <2>1, <2>2
<1> QED
    BY <1>1, <1>2, <1>3, <1>4, <1>5, <1>6

-----------------------------------------------------------------------------
(* Induction and recursion over sequences                                  *)

(* The order of the natural numbers, as a relation.                        *)
Below == {p \in Nat \X Nat : p[1] < p[2]}

LEMMA BelowWellFounded == IsWellFoundedOn(Below, Nat)
BY NatLessThanWellFounded DEF OpToRel, Below

(* Induction for a set of numbers: a set with 0 and with the successor of  *)
(* each of its members has them all.  NatInduction says it of a predicate, *)
(* which the provers cannot instantiate.                                   *)
LEMMA SetInduction ==
    ASSUME NEW T, 0 \in T, \A n \in Nat : n \in T => n + 1 \in T
    PROVE  Nat \subseteq T
<1> DEFINE rest == Nat \ T
<1>1. SUFFICES ASSUME rest # {} PROVE FALSE
    OBVIOUS
<1>2. PICK x \in rest : \A y \in rest : <<y, x>> \notin Below
    <2>1. rest \subseteq Nat
        OBVIOUS
    <2> QED BY <1>1, <2>1, BelowWellFounded, WFMin
<1>3. x - 1 \in Nat /\ x - 1 < x /\ x = (x - 1) + 1
    OBVIOUS
<1>4. x - 1 \notin rest
    BY <1>2, <1>3 DEF Below
<1> QED BY <1>3, <1>4

LEMMA MaxOfInterval ==
    ASSUME NEW n \in Nat
    PROVE  \A D \in SUBSET (1..n) : D # {} => Max(D) \in D /\ \A x \in D : x <= Max(D)
<1> DEFINE Good(k) == \A D \in SUBSET (1..k) : D # {} => \E m \in D : \A x \in D : m >= x
           T == {k \in Nat : Good(k)}
<1>1. 0 \in T
    <2>1. \A D \in SUBSET (1..0) : D = {}
        OBVIOUS
    <2> QED BY <2>1
<1>2. ASSUME NEW k \in Nat, k \in T PROVE k + 1 \in T
    <2>1. ASSUME NEW D \in SUBSET (1..(k + 1)), D # {}
          PROVE  \E m \in D : \A x \in D : m >= x
        <3>1. CASE k + 1 \in D
            BY <3>1
        <3>2. CASE k + 1 \notin D
            <4>1. D \in SUBSET (1..k)
                BY <3>2
            <4> QED BY <1>2, <2>1, <4>1
        <3> QED BY <3>1, <3>2
    <2> QED BY <2>1
<1>3. Nat \subseteq T
    <2> HIDE DEF T
    <2> QED BY <1>1, <1>2, SetInduction
<1>4. Good(n)
    BY <1>3
<1>5. ASSUME NEW D \in SUBSET (1..n), D # {}
      PROVE  Max(D) \in D /\ \A x \in D : x <= Max(D)
    <2>1. \E m \in D : \A x \in D : m >= x
        BY <1>4, <1>5
    <2>2. Max(D) \in D /\ \A x \in D : Max(D) >= x
        BY <2>1 DEF Max
    <2>3. \A x \in D : x \in 1..n
        OBVIOUS
    <2>4. Max(D) \in 1..n
        BY <2>2
    <2> QED BY <2>2, <2>3, <2>4
<1> QED BY <1>5

(* F is what MapThenFoldSet computes when FoldLeft folds the function g    *)
(* over s, an element of A at every set of positions.                      *)
Fold(F, A, base, S, s, g) ==
    /\ F = [D \in SUBSET (DOMAIN s) |->
                IF D = {} THEN base ELSE g[<<F[D \ {Max(D)}], s[Max(D)]>>]]
    /\ \A D \in SUBSET (DOMAIN s) : D # {} => F[D \ {Max(D)}] \in A /\ s[Max(D)] \in S

LEMMA FoldExists ==
    ASSUME NEW A, NEW base \in A, NEW S, NEW s \in Seq(S), NEW g \in [A \X S -> A]
    PROVE  \E F : Fold(F, A, base, S, s, g)
<1> DEFINE Eq(F, D) == F[D] = IF D = {} THEN base ELSE g[<<F[D \ {Max(D)}], s[Max(D)]>>]
           Good(n) == \E F \in [SUBSET (1..n) -> A] : \A D \in SUBSET (1..n) : Eq(F, D)
           T == {n \in Nat : n <= Len(s) => Good(n)}
<1>0. Len(s) \in Nat /\ DOMAIN s = 1..Len(s)
    BY LenProperties
<1>1. 0 \in T
    <2>1. [D \in SUBSET (1..0) |-> base] \in [SUBSET (1..0) -> A]
        OBVIOUS
    <2>2. \A D \in SUBSET (1..0) : D = {}
        OBVIOUS
    <2> QED BY <2>1, <2>2
<1>2. ASSUME NEW n \in Nat, n \in T PROVE n + 1 \in T
    <2>1. SUFFICES ASSUME n + 1 <= Len(s) PROVE Good(n + 1)
        <3> HIDE DEF Good
        <3> QED OBVIOUS
    <2>2. PICK F \in [SUBSET (1..n) -> A] : \A D \in SUBSET (1..n) : Eq(F, D)
        <3>1. Good(n)
            <4> HIDE DEF Good
            <4> QED BY <1>0, <1>2, <2>1
        <3> HIDE DEF Eq
        <3> QED BY <3>1
    <2> DEFINE G == [D \in SUBSET (1..(n + 1)) |->
                        IF n + 1 \in D THEN g[<<F[D \ {n + 1}], s[n + 1]>>] ELSE F[D]]
    <2>3. s[n + 1] \in S
        BY <1>0, <2>1, ElementOfSeq
    <2>4. G \in [SUBSET (1..(n + 1)) -> A]
        <3>1. ASSUME NEW D \in SUBSET (1..(n + 1)), n + 1 \in D
              PROVE  g[<<F[D \ {n + 1}], s[n + 1]>>] \in A
            <4>1. D \ {n + 1} \in SUBSET (1..n)
                OBVIOUS
            <4> QED BY <2>3, <4>1
        <3>2. ASSUME NEW D \in SUBSET (1..(n + 1)), n + 1 \notin D
              PROVE  F[D] \in A
            <4>1. D \in SUBSET (1..n)
                BY <3>2
            <4> QED BY <4>1
        <3> QED BY <3>1, <3>2
    <2>5. ASSUME NEW D \in SUBSET (1..(n + 1)), n + 1 \in D
          PROVE  Eq(G, D)
        <3>1. Max(D) = n + 1
            <4>1. Max(D) \in D /\ \A x \in D : x <= Max(D)
                BY <2>5, MaxOfInterval, n + 1 \in Nat
            <4>2. Max(D) \in 1..(n + 1) /\ n + 1 <= Max(D)
                BY <2>5, <4>1
            <4> QED BY <4>2
        <3>2. D \ {n + 1} \in SUBSET (1..n) /\ D \ {n + 1} \in SUBSET (1..(n + 1))
            OBVIOUS
        <3>3. G[D \ {n + 1}] = F[D \ {n + 1}]
            BY <3>2
        <3>4. G[D] = g[<<F[D \ {n + 1}], s[n + 1]>>]
            BY <2>5
        <3> HIDE DEF G
        <3> QED BY <2>5, <3>1, <3>3, <3>4
    <2>6. ASSUME NEW D \in SUBSET (1..(n + 1)), n + 1 \notin D
          PROVE  Eq(G, D)
        <3>1. D \in SUBSET (1..n)
            BY <2>6
        <3>4. /\ D \ {Max(D)} \in SUBSET (1..n) /\ D \ {Max(D)} \in SUBSET (1..(n + 1))
              /\ n + 1 \notin D \ {Max(D)}
            BY <2>6, <3>1
        <3>2. G[D] = F[D] /\ G[D \ {Max(D)}] = F[D \ {Max(D)}]
            BY <2>6, <3>1, <3>4
        <3>3. Eq(F, D)
            BY <2>2, <3>1
        <3> HIDE DEF G
        <3> QED BY <3>2, <3>3
    <2> HIDE DEF G, Eq
    <2> QED BY <2>4, <2>5, <2>6
<1>3. Nat \subseteq T
    <2> HIDE DEF T
    <2> QED BY <1>1, <1>2, SetInduction
<1>4. Good(Len(s))
    <2> HIDE DEF Good
    <2> QED BY <1>0, <1>3
<1>5. PICK F \in [SUBSET (DOMAIN s) -> A] : \A D \in SUBSET (DOMAIN s) : Eq(F, D)
    <2> HIDE DEF Eq
    <2> QED BY <1>0, <1>4
<1>6. F = [D \in SUBSET (DOMAIN s) |->
                IF D = {} THEN base ELSE g[<<F[D \ {Max(D)}], s[Max(D)]>>]]
    BY <1>5
<1>7. ASSUME NEW D \in SUBSET (DOMAIN s), D # {}
      PROVE  F[D \ {Max(D)}] \in A /\ s[Max(D)] \in S
    <2>1. Max(D) \in D
        BY <1>0, <1>7, MaxOfInterval
    <2>2. D \ {Max(D)} \in SUBSET (DOMAIN s)
        OBVIOUS
    <2> QED BY <1>0, <2>1, <2>2, ElementOfSeq
<1> QED BY <1>6, <1>7 DEF Fold

LEMMA InitialInterval ==
    ASSUME NEW n \in Nat, NEW k \in 1..n
    PROVE  /\ 1..k \in SUBSET (1..n) /\ 1..k # {}
           /\ Max(1..k) = k /\ (1..k) \ {k} = 1..(k - 1)
<1>1. 1..k \in SUBSET (1..n) /\ k \in 1..k /\ k \in Nat
    OBVIOUS
<1>2. Max(1..k) \in 1..k /\ \A x \in 1..k : x <= Max(1..k)
    BY <1>1, MaxOfInterval
<1>3. Max(1..k) = k
    BY <1>1, <1>2
<1> QED BY <1>1, <1>3

(* What the steps of a recursion stay in is where it ends.                 *)
LEMMA StaysIn ==
    ASSUME NEW A, NEW n \in Nat, NEW h, h[0] \in A,
           \A k \in 1..n : h[k - 1] \in A => h[k] \in A
    PROVE  h[n] \in A
<1> DEFINE T == {k \in Nat : k <= n => h[k] \in A}
<1>1. 0 \in T
    OBVIOUS
<1>2. ASSUME NEW k \in Nat, k \in T PROVE k + 1 \in T
    <2>1. k + 1 <= n => k + 1 \in 1..n /\ (k + 1) - 1 = k
        OBVIOUS
    <2> QED BY <1>2, <2>1
<1>3. Nat \subseteq T
    <2> HIDE DEF T
    <2> QED BY <1>1, <1>2, SetInduction
<1> QED BY <1>3

-----------------------------------------------------------------------------
(* The tables                                                              *)

LEMMA WriteTyped ==
    ASSUME StoreTypeOK, NEW r \in Ids, NEW s \in Statuses, NEW c \in 0..MaxContent,
           Write(r, s, c)
    PROVE  /\ StoreTypeOK' /\ tombstones' = tombstones /\ dependencies' = dependencies
           /\ Exists(r)' /\ \A x \in Ids : Exists(x) => Exists(x)'
           /\ records'[r] = [status |-> s, content |-> c]
           /\ \A x \in Ids \ {r} : records'[x] = records[x]
BY DEF Write, StoreTypeOK, Record, Absent, Exists, Statuses

LEMMA SetStatusTyped ==
    ASSUME StoreTypeOK, NEW r \in Ids, NEW s \in Statuses, SetStatus(r, s)
    PROVE  /\ StoreTypeOK' /\ tombstones' = tombstones /\ dependencies' = dependencies
           /\ \A x \in Ids : Exists(x)' <=> Exists(x)
           /\ \A x \in Ids : records'[x].content = records[x].content
           /\ \A x \in Ids \ {r} : records'[x] = records[x]
BY DEF SetStatus, StoreTypeOK, Record, Absent, Exists, Statuses

LEMMA AddDependencyTyped ==
    ASSUME StoreTypeOK, NEW p \in Ids, NEW c \in Ids, NEW rel \in Relations,
           AddDependency(p, c, rel)
    PROVE  /\ StoreTypeOK' /\ records' = records /\ tombstones' = tombstones
           /\ dependencies' = dependencies \cup {<<p, c, rel>>}
BY DEF AddDependency, StoreTypeOK

LEMMA TombstoneTyped ==
    ASSUME StoreTypeOK, NEW r \in Ids, NEW m \in Modes, NEW j \in Jobs, Tombstone(r, m, j)
    PROVE  /\ StoreTypeOK'
           /\ IsTombstoned(r)' /\ tombstones'[r].mode = m
           /\ tombstones'[r].state = "canonical_tombstoned"
           /\ \A s \in Ids \ {r} : tombstones'[s] = tombstones[s]
           /\ \A s \in Ids : Exists(s)' <=> Exists(s)
<1>1. /\ tombstones' \in [Ids -> TombstoneRow \cup {NoTombstone}]
      /\ IsTombstoned(r)' /\ tombstones'[r].mode = m
      /\ tombstones'[r].state = "canonical_tombstoned"
      /\ \A s \in Ids \ {r} : tombstones'[s] = tombstones[s]
    BY DEF Tombstone, StoreTypeOK, TombstoneRow, NoTombstone, IsTombstoned, DeletionStates, Modes
<1>2. /\ records' \in [Ids -> Record \cup {Absent}]
      /\ \A s \in Ids : Exists(s)' <=> Exists(s)
    BY DEF Tombstone, StoreTypeOK, Record, Absent, Exists, Statuses
<1> QED
    BY <1>1, <1>2 DEF Tombstone, StoreTypeOK

LEMMA SetStateTyped ==
    ASSUME StoreTypeOK, NEW r \in Ids, NEW st \in DeletionStates, SetTombstoneState(r, st)
    PROVE  /\ StoreTypeOK'
           /\ IsTombstoned(r) => tombstones'[r] = [tombstones[r] EXCEPT !.state = st]
           /\ \A s \in Ids \ {r} : tombstones'[s] = tombstones[s]
           /\ \A s \in Ids : IsTombstoned(s)' <=> IsTombstoned(s)
           /\ ~IsTombstoned(r) => tombstones' = tombstones
BY DEF SetTombstoneState, StoreTypeOK, TombstoneRow, NoTombstone, IsTombstoned, DeletionStates,
       Modes

LEMMA SetStateModes ==
    ASSUME StoreTypeOK, NEW r \in Ids, NEW st \in DeletionStates, SetTombstoneState(r, st)
    PROVE  \A x \in Ids :
            /\ tombstones'[x].mode = tombstones[x].mode
            /\ tombstones'[x].state = tombstones[x].state
                \/ (x = r /\ tombstones'[x].state = st)
<1>1. CASE IsTombstoned(r)
    <2>1. tombstones[r] \in TombstoneRow
        BY <1>1 DEF StoreTypeOK, IsTombstoned
    <2>2. tombstones'[r] = [tombstones[r] EXCEPT !.state = st]
        BY <1>1, SetStateTyped
    <2>3. tombstones'[r].mode = tombstones[r].mode /\ tombstones'[r].state = st
        BY <2>1, <2>2 DEF TombstoneRow
    <2>4. \A x \in Ids \ {r} : tombstones'[x] = tombstones[x]
        BY SetStateTyped
    <2> QED BY <2>3, <2>4
<1>2. CASE ~IsTombstoned(r)
    BY <1>2, SetStateTyped
<1> QED BY <1>1, <1>2

LEMMA HardDeleteTyped ==
    ASSUME StoreTypeOK, NEW r \in Ids, HardDelete(r)
    PROVE  /\ StoreTypeOK' /\ tombstones' = tombstones /\ ~Exists(r)'
           /\ \A s \in Ids \ {r} : records'[s] = records[s]
BY DEF HardDelete, StoreTypeOK, Exists

=============================================================================
