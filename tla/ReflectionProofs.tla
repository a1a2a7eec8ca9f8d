-------------------------- MODULE ReflectionProofs --------------------------
(***************************************************************************)
(* Proofs about Reflection and the resolver it extends: the bundles built  *)
(* beside it are sound and complete, what an applied merge says was done,  *)
(* and merges and deletions of linked records do not undo one another.     *)
(***************************************************************************)
EXTENDS Reflection, CanonicalStoreProofs

-----------------------------------------------------------------------------
(* Only: the elements of a sequence that are in a set                      *)

(* h[k] is what Only keeps of the first k elements.                        *)
Keeps(h, s, T) ==
    /\ h[0] = <<>> /\ Only(s, T) = h[Len(s)]
    /\ \A k \in 1..Len(s) : h[k] = IF s[k] \in T THEN Append(h[k - 1], s[k]) ELSE h[k - 1]

LEMMA OnlySteps ==
    ASSUME NEW S, NEW s \in Seq(S), NEW T
    PROVE  \E h : Keeps(h, s, T)
<1> DEFINE Step(kept, x) == IF x \in T THEN Append(kept, x) ELSE kept
           Body(F) == [D \in SUBSET (DOMAIN s) |->
                        IF D = {} THEN <<>> ELSE Step(F[D \ {Max(D)}], s[Max(D)])]
           g == [p \in Seq(S) \X S |-> Step(p[1], p[2])]
<1>0. Len(s) \in Nat /\ DOMAIN s = 1..Len(s)
    BY LenProperties
<1>1. \E F : F = Body(F)
    <2>1. g \in [Seq(S) \X S -> Seq(S)]
        BY AppendProperties
    <2>2. <<>> \in Seq(S)
        BY EmptySeq
    <2>3. PICK F : Fold(F, Seq(S), <<>>, S, s, g)
        <3> HIDE DEF g
        <3> QED BY <2>1, <2>2, FoldExists
    <2>4. \A kept \in Seq(S), x \in S : g[<<kept, x>>] = Step(kept, x)
        OBVIOUS
    <2>5. F = Body(F)
        <3> HIDE DEF g, Step
        <3> QED BY <2>3, <2>4 DEF Fold
    <2> QED BY <2>5
<1>2. \E F : F = Body(F) /\ Only(s, T) = F[DOMAIN s]
    BY <1>1 DEF Only, FoldLeft, MapThenFoldSet
<1>3. PICK F : F = Body(F) /\ Only(s, T) = F[DOMAIN s]
    BY <1>2
<1> DEFINE h == [k \in 0..Len(s) |-> F[1..k]]
<1>4. F[{}] = <<>> /\ 1..0 = {}
    BY <1>3
<1>5. ASSUME NEW k \in 1..Len(s)
      PROVE  h[k] = Step(h[k - 1], s[k])
    <2>1. /\ 1..k \in SUBSET (1..Len(s)) /\ 1..k # {}
          /\ Max(1..k) = k /\ (1..k) \ {k} = 1..(k - 1)
        BY <1>0, InitialInterval
    <2>2. F[1..k] = Step(F[1..(k - 1)], s[k])
        <3> HIDE DEF Step
        <3> QED BY <1>0, <1>3, <2>1
    <2>3. h[k] = F[1..k] /\ h[k - 1] = F[1..(k - 1)]
        BY <1>0
    <2> QED BY <2>2, <2>3
<1>6. h[0] = <<>> /\ h[Len(s)] = F[DOMAIN s]
    BY <1>0, <1>4
<1> HIDE DEF h
<1> QED BY <1>3, <1>5, <1>6 DEF Keeps

(* Only keeps the elements that are in the set, all of them, in their      *)
(* order.                                                                  *)
LEMMA OnlyProperties ==
    ASSUME NEW S, NEW s \in Seq(S), NEW T
    PROVE  /\ Only(s, T) \in Seq(S)
           /\ Range(Only(s, T)) = Range(s) \cap T
           /\ \A i, j \in DOMAIN Only(s, T) : i < j =>
                \E k, l \in DOMAIN s :
                    k < l /\ Only(s, T)[i] = s[k] /\ Only(s, T)[j] = s[l]
<1>0. Len(s) \in Nat /\ DOMAIN s = 1..Len(s) /\ \A k \in 1..Len(s) : s[k] \in S
    BY LenProperties, ElementOfSeq
<1> PICK h : Keeps(h, s, T)
    BY OnlySteps
<1>1. /\ h[0] = <<>> /\ Only(s, T) = h[Len(s)]
      /\ \A k \in 1..Len(s) :
            h[k] = IF s[k] \in T THEN Append(h[k - 1], s[k]) ELSE h[k - 1]
    BY DEF Keeps
<1> DEFINE Kept(q, n) == \A i \in 1..Len(q) : \E k \in 1..n : q[i] = s[k] /\ s[k] \in T
           Every(q, n) == \A k \in 1..n : s[k] \in T => \E i \in 1..Len(q) : q[i] = s[k]
           Ordered(q, n) == \A i, j \in 1..Len(q) : i < j =>
                                \E k, l \in 1..n : k < l /\ q[i] = s[k] /\ q[j] = s[l]
           Good(q, n) == q \in Seq(S) /\ Kept(q, n) /\ Every(q, n) /\ Ordered(q, n)
           G == {n \in Nat : n <= Len(s) => Good(h[n], n)}
<1>2. 0 \in G
    <2>1. <<>> \in Seq(S) /\ Len(<<>>) = 0
        BY EmptySeq
    <2>2. Good(<<>>, 0)
        BY <2>1
    <2> HIDE DEF Good
    <2> QED BY <1>1, <2>2
<1>3. ASSUME NEW n \in Nat, Good(h[n], n), n + 1 <= Len(s)
      PROVE  Good(h[n + 1], n + 1)
    <2>1. /\ n + 1 \in 1..Len(s) /\ s[n + 1] \in S
          /\ h[n + 1] = IF s[n + 1] \in T THEN Append(h[n], s[n + 1]) ELSE h[n]
        <3>1. n + 1 \in 1..Len(s) /\ (n + 1) - 1 = n
            BY <1>0, <1>3
        <3> QED BY <1>0, <1>1, <3>1
    <2>2. CASE s[n + 1] \notin T
        <3>1. h[n + 1] = h[n]
            BY <2>1, <2>2
        <3>2. 1..n \subseteq 1..(n + 1)
            OBVIOUS
        <3>4. Kept(h[n], n + 1)
            <4>1. Kept(h[n], n)
                BY <1>3
            <4> QED BY <3>2, <4>1
        <3>5. Ordered(h[n], n + 1)
            <4>1. ASSUME NEW i \in 1..Len(h[n]), NEW j \in 1..Len(h[n]), i < j
                  PROVE  \E k, l \in 1..(n + 1) : k < l /\ h[n][i] = s[k] /\ h[n][j] = s[l]
                <5>1. PICK k \in 1..n, l \in 1..n : k < l /\ h[n][i] = s[k] /\ h[n][j] = s[l]
                    BY <1>3, <4>1
                <5>2. k \in 1..(n + 1) /\ l \in 1..(n + 1)
                    BY <3>2
                <5> QED BY <5>1, <5>2
            <4> QED BY <4>1
        <3>3. Every(h[n], n + 1)
            BY <1>3, <2>2
        <3> QED BY <1>3, <3>1, <3>3, <3>4, <3>5
    <2>3. CASE s[n + 1] \in T
        <3> DEFINE q == h[n]
                   e == s[n + 1]
        <3>1. q \in Seq(S) /\ e \in S /\ h[n + 1] = Append(q, e)
            BY <1>3, <2>1, <2>3
        <3>2. /\ Append(q, e) \in Seq(S) /\ Len(Append(q, e)) = Len(q) + 1 /\ Len(q) \in Nat
              /\ \A i \in 1..Len(q) : Append(q, e)[i] = q[i]
              /\ Append(q, e)[Len(q) + 1] = e
            BY <3>1, AppendProperties, LenProperties
        <3>3. ASSUME NEW i \in 1..Len(Append(q, e))
              PROVE  i \in 1..Len(q) \/ i = Len(q) + 1
            BY <3>2
        <3>4. Kept(Append(q, e), n + 1)
            <4>1. ASSUME NEW i \in 1..Len(q)
                  PROVE  \E k \in 1..(n + 1) : Append(q, e)[i] = s[k] /\ s[k] \in T
                BY <1>3, <3>2
            <4>2. \E k \in 1..(n + 1) : Append(q, e)[Len(q) + 1] = s[k] /\ s[k] \in T
                BY <2>3, <3>2
            <4> QED BY <3>3, <4>1, <4>2
        <3>5. Every(Append(q, e), n + 1)
            <4>1. ASSUME NEW k \in 1..n, s[k] \in T
                  PROVE  \E i \in 1..Len(Append(q, e)) : Append(q, e)[i] = s[k]
                <5>1. PICK i \in 1..Len(q) : q[i] = s[k]
                    BY <1>3, <4>1
                <5>2. i \in 1..Len(Append(q, e)) /\ Append(q, e)[i] = s[k]
                    BY <3>2, <5>1
                <5> QED BY <5>2
            <4>2. \E i \in 1..Len(Append(q, e)) : Append(q, e)[i] = s[n + 1]
                <5>1. Len(q) + 1 \in 1..Len(Append(q, e))
                    BY <3>2
                <5> QED BY <3>2, <5>1
            <4> HIDE DEF q, e
            <4> QED BY <4>1, <4>2
        <3>6. Ordered(Append(q, e), n + 1)
            <4>1. ASSUME NEW i \in 1..Len(q), NEW j \in 1..Len(q), i < j
                  PROVE  \E k, l \in 1..(n + 1) :
                            k < l /\ Append(q, e)[i] = s[k] /\ Append(q, e)[j] = s[l]
                <5>1. PICK k \in 1..n, l \in 1..n : k < l /\ q[i] = s[k] /\ q[j] = s[l]
                    BY <1>3, <4>1
                <5>2. k \in 1..(n + 1) /\ l \in 1..(n + 1)
                    OBVIOUS
                <5> QED BY <3>2, <5>1, <5>2
            <4>2. ASSUME NEW i \in 1..Len(q)
                  PROVE  \E k, l \in 1..(n + 1) :
                            k < l /\ Append(q, e)[i] = s[k] /\ Append(q, e)[Len(q) + 1] = s[l]
                <5>1. PICK k \in 1..n : q[i] = s[k]
                    BY <1>3
                <5>2. k \in 1..(n + 1) /\ n + 1 \in 1..(n + 1) /\ k < n + 1
                    OBVIOUS
                <5> QED BY <3>2, <5>1, <5>2
            <4>3. ASSUME NEW i \in 1..Len(Append(q, e)), NEW j \in 1..Len(Append(q, e)), i < j
                  PROVE  i \in 1..Len(q)
                BY <3>2, <4>3
            <4> HIDE DEF q, e
            <4> QED BY <3>3, <4>1, <4>2, <4>3
        <3> HIDE DEF Kept, Every, Ordered, q, e
        <3> QED BY <3>1, <3>2, <3>4, <3>5, <3>6
    <2> HIDE DEF Good
    <2> QED BY <2>2, <2>3
<1>4. Nat \subseteq G
    <2>1. ASSUME NEW n \in Nat, n \in G PROVE n + 1 \in G
        <3> HIDE DEF Good
        <3> QED BY <1>0, <1>3, <2>1
    <2> HIDE DEF G
    <2> QED BY <1>2, <2>1, SetInduction
<1>5. Good(h[Len(s)], Len(s))
    <2> HIDE DEF Good
    <2> QED BY <1>0, <1>4
<1> DEFINE q == Only(s, T)
<1>6. Good(q, Len(s)) /\ DOMAIN q = 1..Len(q)
    <2>1. Good(q, Len(s))
        <3> HIDE DEF Good
        <3> QED BY <1>1, <1>5
    <2> QED BY <2>1, LenProperties
<1> HIDE DEF q
<1>7. Range(q) = Range(s) \cap T
    <2>1. Range(s) = {s[k] : k \in 1..Len(s)} /\ Range(q) = {q[i] : i \in 1..Len(q)}
        BY <1>0, <1>6 DEF Range
    <2>2. ASSUME NEW x \in Range(q) PROVE x \in Range(s) \cap T
        BY <1>6, <2>1
    <2>3. ASSUME NEW x \in Range(s), x \in T PROVE x \in Range(q)
        BY <1>6, <2>1, <2>3
    <2> QED BY <2>2, <2>3
<1>8. DOMAIN q = 1..Len(q) /\ DOMAIN s = 1..Len(s)
    BY <1>0, <1>6
<1>9. q \in Seq(S) /\ Ordered(q, Len(s))
    BY <1>6
<1>10. ASSUME NEW i \in DOMAIN q, NEW j \in DOMAIN q, i < j
       PROVE  \E k, l \in DOMAIN s : k < l /\ q[i] = s[k] /\ q[j] = s[l]
    <2>1. i \in 1..Len(q) /\ j \in 1..Len(q)
        BY <1>8
    <2>2. \E k, l \in 1..Len(s) : k < l /\ q[i] = s[k] /\ q[j] = s[l]
        BY <1>9, <1>10, <2>1
    <2> QED BY <1>8, <2>2
<1> HIDE DEF Ordered
<1> QED BY <1>7, <1>9, <1>10 DEF q


-----------------------------------------------------------------------------
(* The resolver                                                            *)

(* h[k] is what diversify keeps of the first k records.                    *)
Diversifies(h, q) ==
    /\ h[0] = <<>> /\ Diversified(q) = h[Len(q)]
    /\ \A k \in 1..Len(q) :
        h[k] = IF \E i \in DOMAIN h[k - 1] : AlikeRecords(h[k - 1][i], q[k]) THEN h[k - 1]
               ELSE Append(h[k - 1], q[k])

LEMMA DiversifiedSteps ==
    ASSUME NEW S, NEW q \in Seq(S)
    PROVE  \E h : Diversifies(h, q)
<1> DEFINE Step(kept, r) == IF \E i \in DOMAIN kept : AlikeRecords(kept[i], r) THEN kept
                            ELSE Append(kept, r)
           Body(F) == [D \in SUBSET (DOMAIN q) |->
                        IF D = {} THEN <<>> ELSE Step(F[D \ {Max(D)}], q[Max(D)])]
           g == [p \in Seq(S) \X S |-> Step(p[1], p[2])]
<1>0. Len(q) \in Nat /\ DOMAIN q = 1..Len(q)
    BY LenProperties
<1>1. \E F : F = Body(F)
    <2>1. g \in [Seq(S) \X S -> Seq(S)]
        <3>1. ASSUME NEW kept \in Seq(S), NEW r \in S
              PROVE  Step(kept, r) \in Seq(S)
            BY AppendProperties
        <3> HIDE DEF Step
        <3> QED BY <3>1
    <2>2. <<>> \in Seq(S)
        BY EmptySeq
    <2>3. PICK F : Fold(F, Seq(S), <<>>, S, q, g)
        <3> HIDE DEF g
        <3> QED BY <2>1, <2>2, FoldExists
    <2>4. \A kept \in Seq(S), r \in S : g[<<kept, r>>] = Step(kept, r)
        <3> HIDE DEF Step
        <3> QED OBVIOUS
    <2>5. F = Body(F)
        <3> HIDE DEF g, Step
        <3> QED BY <2>3, <2>4 DEF Fold
    <2> QED BY <2>5
<1>2. \E F : F = Body(F) /\ Diversified(q) = F[DOMAIN q]
    BY <1>1 DEF Diversified, FoldLeft, MapThenFoldSet
<1>3. PICK F : F = Body(F) /\ Diversified(q) = F[DOMAIN q]
    BY <1>2
<1> DEFINE h == [k \in 0..Len(q) |-> F[1..k]]
<1>4. F[{}] = <<>> /\ 1..0 = {}
    BY <1>3
<1>5. ASSUME NEW k \in 1..Len(q)
      PROVE  h[k] = Step(h[k - 1], q[k])
    <2>1. /\ 1..k \in SUBSET (1..Len(q)) /\ 1..k # {}
          /\ Max(1..k) = k /\ (1..k) \ {k} = 1..(k - 1)
        BY <1>0, InitialInterval
    <2>2. F[1..k] = Step(F[1..(k - 1)], q[k])
        <3> HIDE DEF Step
        <3> QED BY <1>0, <1>3, <2>1
    <2>3. h[k] = F[1..k] /\ h[k - 1] = F[1..(k - 1)]
        BY <1>0
    <2> QED BY <2>2, <2>3
<1>6. h[0] = <<>> /\ h[Len(q)] = F[DOMAIN q]
    BY <1>0, <1>4
<1> HIDE DEF h
<1> QED BY <1>3, <1>5, <1>6 DEF Diversifies

LEMMA DiversifiedWithin ==
    ASSUME NEW S, NEW q \in Seq(S)
    PROVE  Diversified(q) \in Seq(S)
<1> PICK h : Diversifies(h, q)
    BY DiversifiedSteps
<1>1. Len(q) \in Nat /\ \A k \in 1..Len(q) : q[k] \in S
    BY LenProperties, ElementOfSeq
<1>2. h[0] \in Seq(S)
    BY EmptySeq DEF Diversifies
<1>3. ASSUME NEW k \in 1..Len(q), h[k - 1] \in Seq(S)
      PROVE  h[k] \in Seq(S)
    <2>1. Append(h[k - 1], q[k]) \in Seq(S)
        BY <1>1, <1>3, AppendProperties
    <2> QED BY <1>3, <2>1 DEF Diversifies
<1>4. h[Len(q)] \in Seq(S)
    BY <1>1, <1>2, <1>3, StaysIn
<1> QED BY <1>4 DEF Diversifies

LEMMA RankingProperties ==
    ASSUME NEW S, IsFiniteSet(S), NEW q \in Rankings(S)
    PROVE  /\ q \in Seq(S) /\ Range(q) = S
           /\ \A i, j \in DOMAIN q : i < j => StatusWeight(q[i]) >= StatusWeight(q[j])
<1> DEFINE n == Cardinality(S)
<1>1. n \in Nat
    BY FS_CardinalityType
<1>2. q \in [1..n -> S] /\ \A i, j \in 1..n : i # j => q[i] # q[j]
    BY DEF Rankings, SetToSeqs
<1>3. q \in Injection(1..n, S)
    BY <1>2 DEF Injection, IsInjective
<1>4. Cardinality(1..n) = n
    BY <1>1, FS_Interval
<1> HIDE DEF n
<1>5. q \in Surjection(1..n, S)
    BY <1>3, <1>4, FS_Injection DEF n
<1>6. Range(q) = S
    BY <1>2, <1>5 DEF Surjection, Range
<1>7. q \in Seq(S)
    BY <1>1, <1>2, SeqDef
<1> QED BY <1>6, <1>7 DEF Rankings

(* Trimming keeps a sequence, or its beginning up to the budget.           *)
LEMMA TrimmedProperties ==
    ASSUME NEW S, NEW q \in Seq(S), NEW c
    PROVE  /\ Trimmed(c, q) \in Seq(S) /\ Range(Trimmed(c, q)) \subseteq Range(q)
           /\ \/ Trimmed(c, q) = q
              \/ /\ c \in DOMAIN Budget /\ Budget[c] \in Nat /\ Budget[c] < Len(q)
                 /\ Len(Trimmed(c, q)) = Budget[c]
                 /\ \A i \in 1..Budget[c] : Trimmed(c, q)[i] = q[i]
<1>0. Len(q) \in Nat /\ DOMAIN q = 1..Len(q) /\ \A i \in 1..Len(q) : q[i] \in S
    BY LenProperties, ElementOfSeq
<1>1. CASE ~(c \in DOMAIN Budget /\ Len(q) > Budget[c])
    BY <1>1 DEF Trimmed
<1>2. CASE c \in DOMAIN Budget /\ Len(q) > Budget[c]
    <2> DEFINE n == Budget[c]
               p == SubSeq(q, 1, n)
    <2>1. n \in Nat /\ n < Len(q)
        BY <1>0, <1>2, ResolverAssumption
    <2>2. p \in Seq(S) /\ Len(p) = n /\ \A i \in 1..n : p[i] = q[i]
        <3>1. \A i \in 1..n : q[i] \in S
            BY <1>0, <2>1
        <3> HIDE DEF n
        <3>2. p \in Seq(S) /\ Len(p) = n - 1 + 1 /\ \A i \in 1..(n - 1 + 1) : p[i] = q[1 + i - 1]
            BY <2>1, <3>1, SubSeqProperties
        <3> QED BY <2>1, <3>2
    <2>3. DOMAIN p = 1..n
        BY <2>2, LenProperties
    <2>4. Range(p) \subseteq Range(q)
        BY <1>0, <2>1, <2>2, <2>3 DEF Range
    <2>5. Trimmed(c, q) = p
        BY <1>2 DEF Trimmed
    <2> HIDE DEF p
    <2> QED BY <1>2, <2>1, <2>2, <2>4, <2>5
<1> QED BY <1>1, <1>2

(* A bundle files survivors, each where it is placed.                      *)
LEMMA EntriesPlaced ==
    ASSUME IsFiniteSet(Ids), NEW hits, NEW now, NEW diversity,
           NEW b \in Bundles(hits, now, diversity), NEW c \in Categories, NEW r \in Entries(b, c)
    PROVE  r \in Survivors(hits, now) /\ Placement(r) = c
<1> DEFINE S == Survivors(hits, now)
<1>1. IsFiniteSet(S)
    <2>1. S \in SUBSET Ids
        BY DEF Survivors
    <2> HIDE DEF S
    <2> QED BY <2>1, FS_Subset
<1> HIDE DEF S
<1>2. PICK q \in Rankings(S) : b = BundleOf(q, diversity)
    BY DEF Bundles, S
<1> DEFINE kept == IF diversity THEN Diversified(q) ELSE q
           placed == {x \in Range(kept) : Placement(x) = c}
<1>3. q \in Seq(S) /\ kept \in Seq(S)
    BY <1>1, RankingProperties, DiversifiedWithin
<1>4. b[c] = Trimmed(c, Only(kept, placed))
    BY <1>2 DEF BundleOf
<1> HIDE DEF kept
<1>5. Only(kept, placed) \in Seq(S) /\ Range(Only(kept, placed)) = Range(kept) \cap placed
    <2> HIDE DEF placed
    <2> QED BY <1>3, OnlyProperties
<1>6. r \in Range(kept) \cap placed
    <2>1. r \in Range(b[c])
        BY DEF Entries
    <2> HIDE DEF placed
    <2> QED BY <1>4, <1>5, <2>1, TrimmedProperties
<1>7. Range(kept) \subseteq S
    BY <1>3, LenProperties, ElementOfSeq DEF Range
<1> QED BY <1>6, <1>7 DEF S

(* Every bundle the resolver builds is sound, whatever the store holds and *)
(* whatever the surfaces answered.                                         *)
THEOREM BundleIsSound ==
    ASSUME IsFiniteSet(Ids), NEW hits, NEW now, NEW diversity,
           NEW b \in Bundles(hits, now, diversity)
    PROVE  SoundBundle(b, hits)
<1>1. ASSUME NEW r \in AllEntries(b)
      PROVE  /\ Exists(r) /\ tombstones[r] = NoTombstone
             /\ \E h \in hits : h[1] = r /\ h[2] \in {NoHash, records[r].content}
    <2>1. Hydrated(hits, r, now)
        BY EntriesPlaced DEF AllEntries, Survivors
    <2>2. CASE Hashes(hits, r) = {}
        BY <2>1, <2>2 DEF Hydrated, IsTombstoned, Hashes
    <2>3. CASE Hashes(hits, r) # {}
        <3>1. records[r].content \in Hashes(hits, r)
            BY <2>1, <2>3 DEF Hydrated
        <3>2. PICK h \in hits : h[1] = r /\ records[r].content = h[2]
            BY <3>1 DEF Hashes
        <3> QED BY <2>1, <3>2 DEF Hydrated, IsTombstoned
    <2> QED BY <2>2, <2>3
<1>2. ASSUME NEW c \in Categories \ {"hypotheses", "policy_flags"}, NEW r \in Entries(b, c)
      PROVE  /\ Kind[r].type # "reflection"
             /\ \A s \in Ids : <<s, r, "supersedes">> \in dependencies => ~InForce(s)
    <2>1. Placement(r) = c
        BY EntriesPlaced
    <2>2. Kind[r].type # "reflection" /\ CurrentTruth(r)
        BY <2>1 DEF Placement, Categories
    <2> QED BY <2>2 DEF CurrentTruth, SupersededByActive, SupersederIds
<1>3. ASSUME NEW r \in Entries(b, "current_beliefs"), NEW s \in Ids, InForce(s)
      PROVE  {<<r, s, "contradicts">>, <<s, r, "contradicts">>} \cap dependencies = {}
    <2>1. "current_beliefs" \in Categories
        BY DEF Categories
    <2>2. Placement(r) = "current_beliefs"
        BY <2>1, EntriesPlaced
    <2>3. ~Disputed(r)
        BY <2>2 DEF Placement
    <2>4. s \notin ContradictorIds(r)
        BY <1>3, <2>3 DEF Disputed
    <2> QED BY <2>4 DEF ContradictorIds
<1> QED BY <1>1, <1>2, <1>3 DEF SoundBundle

(* Every bundle built without diversity is complete, provided the store's  *)
(* rows have the columns they have and the surfaces answer with ids.       *)
THEOREM BundleIsComplete ==
    ASSUME IsFiniteSet(Ids), StoreTypeOK, NEW hits, \A h \in hits : h[1] \in Ids, NEW now,
           NEW b \in Bundles(hits, now, FALSE)
    PROVE  CompleteBundle(b, hits, now)
<1> DEFINE S == Survivors(hits, now)
<1>1. IsFiniteSet(S)
    <2>1. S \in SUBSET Ids
        BY DEF Survivors
    <2> HIDE DEF S
    <2> QED BY <2>1, FS_Subset
<1> HIDE DEF S
<1>2. PICK q \in Rankings(S) : b = BundleOf(q, FALSE)
    BY DEF Bundles, S
<1>3. /\ q \in Seq(S) /\ Range(q) = S
      /\ \A i, j \in DOMAIN q : i < j => StatusWeight(q[i]) >= StatusWeight(q[j])
    BY <1>1, RankingProperties
<1>4. SUFFICES ASSUME NEW r \in {h[1] : h \in hits},
                      InForce(r), CanRecall(r), TimeValid(r, now),
                      \/ <<r, records[r].content>> \in hits
                      \/ \A h \in hits : h[1] = r => h[2] = NoHash,
                      \A s \in Ids : <<s, r, "supersedes">> \in dependencies => ~InForce(s)
               PROVE  \/ r \in AllEntries(b)
                      \/ \E c \in DOMAIN Budget \cap {Placement(r)} :
                            /\ Len(b[c]) = Budget[c]
                            /\ \A s \in Entries(b, c) : StatusWeight(s) >= StatusWeight(r)
    BY DEF CompleteBundle
<1>5. r \in S
    <2>1. r \in Ids /\ \E h \in hits : h[1] = r
        OBVIOUS
    <2>2. Hashes(hits, r) # {} => records[r].content \in Hashes(hits, r)
        <3>1. CASE <<r, records[r].content>> \in hits
            <4>1. records[r].content \in Nat
                BY <1>4, <2>1 DEF StoreTypeOK, InForce, Exists, Record
            <4>2. <<r, records[r].content>>[1] = r /\ <<r, records[r].content>>[2] # NoHash
                BY <4>1 DEF NoHash
            <4> QED BY <3>1, <4>2 DEF Hashes
        <3>2. CASE \A h \in hits : h[1] = r => h[2] = NoHash
            BY <3>2 DEF Hashes
        <3> QED BY <1>4, <3>1, <3>2
    <2> QED BY <1>4, <2>1, <2>2 DEF S, Survivors, Hydrated, InForce
<1> DEFINE c == Placement(r)
           placed == {x \in Range(q) : Placement(x) = c}
           full == Only(q, placed)
<1>6. c \in Categories
    <2>1. CurrentTruth(r)
        BY <1>4 DEF CurrentTruth, InForce, SupersededByActive, SupersederIds
    <2> QED BY <2>1 DEF Placement, CategoryFor, Categories
<1>7. b[c] = Trimmed(c, full)
    BY <1>2, <1>6 DEF BundleOf
<1>8. r \in Range(q) \cap placed
    BY <1>3, <1>5
<1> HIDE DEF placed
<1>9. /\ full \in Seq(S) /\ Range(full) = Range(q) \cap placed
      /\ \A i, j \in DOMAIN full : i < j =>
            \E k, l \in DOMAIN q : k < l /\ full[i] = q[k] /\ full[j] = q[l]
    BY <1>3, OnlyProperties
<1> HIDE DEF full, c
<1>10. CASE b[c] = full
    <2>1. r \in Entries(b, c)
        BY <1>8, <1>9, <1>10 DEF Entries
    <2> QED BY <1>6, <2>1 DEF AllEntries
<1>11. CASE /\ c \in DOMAIN Budget /\ Budget[c] \in Nat /\ Budget[c] < Len(full)
            /\ Len(b[c]) = Budget[c] /\ \A i \in 1..Budget[c] : b[c][i] = full[i]
    <2>1. Len(full) \in Nat /\ DOMAIN full = 1..Len(full)
        BY <1>9, LenProperties
    <2>2. b[c] \in Seq(S) /\ DOMAIN b[c] = 1..Budget[c]
        <3>1. b[c] \in Seq(S)
            BY <1>7, <1>9, TrimmedProperties
        <3> QED BY <1>11, <3>1, LenProperties
    <2>3. PICK j \in 1..Len(full) : full[j] = r
        BY <1>8, <1>9, <2>1 DEF Range
    <2>4. CASE j \in 1..Budget[c]
        <3>1. r \in Entries(b, c)
            BY <1>11, <2>2, <2>3, <2>4 DEF Entries, Range
        <3> QED BY <1>6, <3>1 DEF AllEntries
    <2>5. CASE j \notin 1..Budget[c]
        <3>1. ASSUME NEW s \in Entries(b, c)
              PROVE  StatusWeight(s) >= StatusWeight(r)
            <4>1. PICK i \in 1..Budget[c] : s = full[i]
                BY <1>11, <2>2 DEF Entries, Range
            <4>2. i \in DOMAIN full /\ j \in DOMAIN full /\ i < j
                BY <1>11, <2>1, <2>5
            <4>3. PICK k \in DOMAIN q, l \in DOMAIN q : k < l /\ full[i] = q[k] /\ full[j] = q[l]
                BY <1>9, <4>2
            <4> QED BY <1>3, <2>3, <4>1, <4>3
        <3> QED BY <1>11, <3>1 DEF c
    <2> QED BY <2>4, <2>5
<1> QED BY <1>7, <1>9, <1>10, <1>11, TrimmedProperties

-----------------------------------------------------------------------------
(* The invariant                                                           *)

CallRecord ==
    [pc : CallPcs, order : Seq(Ids), rows : [Ids -> Record \cup {Absent}],
     clusters : Seq(Seq(Ids) \ {<<>>}), proposal : Nat, todo : Seq(Ids), done : SUBSET Ids,
     mode : Modes, deleted : SUBSET Ids]

Tombstoned == {r \in Ids : IsTombstoned(r)}

(* What a duplicate of an applied merge must be.                           *)
Handled(p, d) ==
    \/ <<PrimaryOf(p), d, "supersedes">> \in dependencies
    \/ IsTombstoned(d) \/ IsTombstoned(PrimaryOf(p))

(* Where a thread is in the loop of merge_records, or just behind it.      *)
MergePcs == {"guard", "status", "link", "purge", "close"}

(* What each step of a call finds of what the steps before it left.        *)
CallTyped(t) ==
    /\ call[t].proposal \in 0..Len(proposals)
    /\ call[t].pc \in MergePcs \cup {"load"} => call[t].proposal # 0
    /\ At(t, "propose") => call[t].clusters # <<>>
    /\ call[t].pc \in {"status", "link", "tombstone", "erase"} => call[t].todo # <<>>
    /\ At(t, "remove") => call[t].done # {}

(* A merge has handled every duplicate it has passed, and is at none that  *)
(* was deleted before it was applied.                                      *)
MergeInv(t) ==
    /\ call[t].deleted \subseteq Tombstoned
    /\ At(t, "status") => Duplicate(t) \notin call[t].deleted
    /\ call[t].pc \in MergePcs =>
        /\ proposals[call[t].proposal].kind = "merge"
        /\ Range(call[t].todo) \subseteq DuplicatesOf(call[t].proposal)
        /\ \A d \in DuplicatesOf(call[t].proposal) :
            d \in Range(call[t].todo) \/ Handled(call[t].proposal, d)
    /\ call[t].pc \in {"purge", "close"} => call[t].todo = <<>>

(* The records a deletion is about: closed under all edges that are not    *)
(* late, so that it leaves no record out that one of them is linked to.    *)
Scope(t) == Range(call[t].todo) \cup call[t].done

DeleteInv(t) ==
    /\ At(t, "tombstone") =>
        \A e \in dependencies \ late : e[1] \in Scope(t) <=> e[2] \in Scope(t)
    /\ call[t].pc \in {"tombstone", "remove"} => call[t].done \subseteq Tombstoned
    /\ At(t, "erase") => Range(call[t].todo) \subseteq Tombstoned

Distinct(q) == \A i, j \in DOMAIN q : i # j => q[i] # q[j]

TablesInv ==
    /\ StoreTypeOK
    /\ index \in [Ids -> 0..MaxContent \cup {NoEntry}]
    /\ recent \in Seq(Ids) /\ Distinct(recent) /\ Range(recent) = {r \in Ids : Exists(r)}
    /\ late \subseteq Ids \X Ids \X Relations

(* No record is its own duplicate.                                         *)
ProposalsInv ==
    /\ proposals \in Seq(Proposal)
    /\ \A p \in DOMAIN proposals :
        /\ proposals[p].records # <<>>
        /\ proposals[p].kind = "merge" => PrimaryOf(p) \notin DuplicatesOf(p)

(* A deletion still has to tombstone the record.                           *)
Pending(r) == \E t \in Threads : At(t, "tombstone") /\ r \in Range(call[t].todo)

CascadeInv ==
    \A e \in dependencies \ late :
        /\ IsTombstoned(e[1]) => IsTombstoned(e[2]) \/ Pending(e[2])
        /\ IsTombstoned(e[2]) => IsTombstoned(e[1]) \/ Pending(e[1])

CallsInv ==
    /\ call \in [Threads -> CallRecord] /\ calls \in 0..MaxCalls
    /\ \A t \in Threads : CallTyped(t) /\ MergeInv(t) /\ DeleteInv(t)

ReflectionInv == TablesInv /\ ProposalsInv /\ CallsInv /\ CascadeInv /\ AppliedMeansMerged

-----------------------------------------------------------------------------
(* Sequences without repetitions                                           *)

LEMMA OnlyDistinct ==
    ASSUME NEW S, NEW s \in Seq(S), Distinct(s), NEW T
    PROVE  Distinct(Only(s, T))
<1> DEFINE q == Only(s, T)
<1>1. /\ q \in Seq(S)
      /\ \A i, j \in DOMAIN q : i < j =>
            \E k, l \in DOMAIN s : k < l /\ q[i] = s[k] /\ q[j] = s[l]
    BY OnlyProperties
<1> HIDE DEF q
<1>2. DOMAIN q \subseteq Int /\ DOMAIN s \subseteq Int
    BY <1>1, LenProperties
<1>3. ASSUME NEW i \in DOMAIN q, NEW j \in DOMAIN q, i < j
      PROVE  q[i] # q[j]
    <2>1. PICK k \in DOMAIN s, l \in DOMAIN s : k < l /\ q[i] = s[k] /\ q[j] = s[l]
        BY <1>1, <1>3
    <2>2. k # l
        BY <1>2, <2>1
    <2> QED BY <2>1, <2>2 DEF Distinct
<1>4. ASSUME NEW i \in DOMAIN q, NEW j \in DOMAIN q, i # j
      PROVE  q[i] # q[j]
    <2>1. i < j \/ j < i
        BY <1>2, <1>4
    <2> QED BY <1>3, <2>1
<1> QED BY <1>4 DEF Distinct, q

LEMMA PutFirst ==
    ASSUME NEW S, NEW x \in S, NEW s \in Seq(S)
    PROVE  /\ <<x>> \o s \in Seq(S) /\ <<x>> \o s # <<>>
           /\ Head(<<x>> \o s) = x /\ Tail(<<x>> \o s) = s
           /\ Range(<<x>> \o s) = {x} \cup Range(s)
           /\ Distinct(s) /\ x \notin Range(s) => Distinct(<<x>> \o s)
<1> DEFINE q == <<x>> \o s
<1>1. <<x>> \in Seq(S) /\ Len(<<x>>) = 1 /\ <<x>>[1] = x
    OBVIOUS
<1>2. Len(s) \in Nat /\ DOMAIN s = 1..Len(s)
    BY LenProperties
<1>3. /\ q \in Seq(S) /\ Len(q) = 1 + Len(s)
      /\ \A i \in 1..(1 + Len(s)) : q[i] = IF i <= 1 THEN <<x>>[i] ELSE s[i - 1]
    BY <1>1, ConcatProperties
<1> HIDE DEF q
<1>4. DOMAIN q = 1..(1 + Len(s)) /\ q # <<>>
    <2>1. DOMAIN q = 1..Len(q)
        BY <1>3, LenProperties
    <2>2. Len(q) # 0
        BY <1>2, <1>3
    <2> QED BY <1>3, <2>1, <2>2, EmptySeq
<1>5. q[1] = x /\ \A i \in 1..Len(s) : q[i + 1] = s[i]
    <2>1. 1 \in 1..(1 + Len(s))
        BY <1>2
    <2>2. ASSUME NEW i \in 1..Len(s)
          PROVE  q[i + 1] = s[i]
        <3>1. i + 1 \in 1..(1 + Len(s)) /\ ~(i + 1 <= 1) /\ (i + 1) - 1 = i
            BY <1>2
        <3> QED BY <1>3, <3>1
    <2> QED BY <1>1, <1>3, <2>1, <2>2
<1>6. Head(q) = x
    BY <1>3, <1>4, <1>5, HeadTailProperties
<1>7. Tail(q) = s
    <2>1. /\ Tail(q) \in Seq(S) /\ Len(Tail(q)) = Len(q) - 1
          /\ \A i \in 1..Len(Tail(q)) : Tail(q)[i] = q[i + 1]
        BY <1>3, <1>4, HeadTailProperties
    <2>2. Len(Tail(q)) = Len(s)
        BY <1>2, <1>3, <2>1
    <2>3. \A i \in 1..Len(s) : Tail(q)[i] = s[i]
        BY <1>5, <2>1, <2>2
    <2> QED BY <2>1, <2>2, <2>3, SeqEqual
<1>8. Range(q) = {x} \cup Range(s)
    <2>1. ASSUME NEW i \in 1..(1 + Len(s))
          PROVE  i = 1 \/ (i - 1 \in 1..Len(s) /\ i = (i - 1) + 1)
        BY <1>2
    <2>2. \A i \in 1..Len(s) : i + 1 \in 1..(1 + Len(s))
        BY <1>2
    <2>3. 1 \in 1..(1 + Len(s))
        BY <1>2
    <2>4. ASSUME NEW i \in 1..(1 + Len(s)) PROVE q[i] \in {x} \cup Range(s)
        <3>1. CASE i = 1
            BY <1>5, <3>1
        <3>2. CASE i # 1
            <4>1. i - 1 \in 1..Len(s) /\ q[i] = s[i - 1]
                BY <1>5, <2>1, <3>2
            <4> QED BY <1>2, <4>1 DEF Range
        <3> QED BY <3>1, <3>2
    <2>5. ASSUME NEW y \in Range(s) PROVE y \in Range(q)
        BY <1>2, <1>4, <1>5, <2>2 DEF Range
    <2>6. x \in Range(q)
        BY <1>4, <1>5, <2>3 DEF Range
    <2>7. \A y \in Range(q) : y \in {x} \cup Range(s)
        BY <1>4, <2>4 DEF Range
    <2> QED BY <2>5, <2>6, <2>7
<1>9. ASSUME Distinct(s), x \notin Range(s)
      PROVE  Distinct(q)
    <2>1. ASSUME NEW i \in 1..(1 + Len(s)), NEW j \in 1..(1 + Len(s)), i # j
          PROVE  q[i] # q[j]
        <3>1. (i = 1 \/ (i - 1 \in 1..Len(s) /\ i = (i - 1) + 1))
              /\ (j = 1 \/ (j - 1 \in 1..Len(s) /\ j = (j - 1) + 1))
            BY <1>2
        <3>2. \A k \in 1..Len(s) : s[k] # x
            BY <1>2, <1>9 DEF Range
        <3>3. CASE i = 1
            BY <1>5, <2>1, <3>1, <3>2, <3>3
        <3>4. CASE j = 1
            BY <1>5, <2>1, <3>1, <3>2, <3>4
        <3>5. CASE i # 1 /\ j # 1
            <4>1. q[i] = s[i - 1] /\ q[j] = s[j - 1]
                BY <1>5, <3>1, <3>5
            <4>2. i - 1 # j - 1
                BY <2>1
            <4> QED BY <1>2, <1>9, <3>1, <3>5, <4>1, <4>2 DEF Distinct
        <3> QED BY <3>3, <3>4, <3>5
    <2> QED BY <1>4, <2>1 DEF Distinct
<1> QED BY <1>3, <1>4, <1>6, <1>7, <1>8, <1>9 DEF q

LEMMA DistinctCardinality ==
    ASSUME NEW S, NEW q \in Seq(S), Distinct(q)
    PROVE  Len(q) = Cardinality(Range(q))
<1>1. Len(q) \in Nat /\ DOMAIN q = 1..Len(q) /\ q \in [1..Len(q) -> S]
    BY LenProperties
<1>2. q \in [1..Len(q) -> Range(q)]
    BY <1>1 DEF Range
<1>3. q \in Surjection(1..Len(q), Range(q)) /\ q \in Injection(1..Len(q), Range(q))
    BY <1>1, <1>2 DEF Surjection, Injection, IsInjective, Range, Distinct
<1>4. IsFiniteSet(1..Len(q)) /\ Cardinality(1..Len(q)) = Len(q)
    BY <1>1, FS_Interval
<1> QED BY <1>3, <1>4, FS_Surjection

(* A touched row becomes the first; an erased one is taken out.            *)
LEMMA RecentMoves ==
    ASSUME NEW q \in Seq(Ids), Distinct(q), NEW r \in Ids
    PROVE  /\ <<r>> \o Only(q, Ids \ {r}) \in Seq(Ids)
           /\ Distinct(<<r>> \o Only(q, Ids \ {r}))
           /\ Range(<<r>> \o Only(q, Ids \ {r})) = Range(q) \cup {r}
           /\ Only(q, Ids \ {r}) \in Seq(Ids) /\ Distinct(Only(q, Ids \ {r}))
           /\ Range(Only(q, Ids \ {r})) = Range(q) \ {r}
<1> DEFINE p == Only(q, Ids \ {r})
<1>1. Range(q) \subseteq Ids
    BY LenProperties, ElementOfSeq DEF Range
<1>2. p \in Seq(Ids) /\ Distinct(p) /\ Range(p) = Range(q) \ {r}
    BY <1>1, OnlyProperties, OnlyDistinct
<1> HIDE DEF p
<1>3. /\ <<r>> \o p \in Seq(Ids) /\ Range(<<r>> \o p) = {r} \cup Range(p)
      /\ Distinct(<<r>> \o p)
    BY <1>2, PutFirst
<1>4. Range(<<r>> \o p) = Range(q) \cup {r}
    BY <1>2, <1>3
<1> QED BY <1>2, <1>3, <1>4 DEF p

-----------------------------------------------------------------------------
(* Clusters and the proposals made of them                                 *)

LEMMA MinOfInterval ==
    ASSUME NEW n \in Nat, NEW D \in SUBSET (1..n), D # {}
    PROVE  Min(D) \in D
<1>1. D \subseteq Nat
    OBVIOUS
<1>2. PICK m \in D : \A y \in D : <<y, m>> \notin Below
    BY <1>1, BelowWellFounded, WFMin
<1>3. ASSUME NEW y \in D PROVE m <= y
    <2>1. y \in Nat /\ m \in Nat
        BY <1>1
    <2>2. ~(y < m)
        BY <1>2, <2>1 DEF Below
    <2> QED BY <2>1, <2>2
<1> QED BY <1>3 DEF Min

(* Some position of a sequence of lengths has the greatest.                *)
LEMMA LongestExists ==
    ASSUME NEW n \in Nat \ {0}, NEW f, \A i \in 1..n : f[i] \in Nat
    PROVE  \E i \in 1..n : \A j \in 1..n : f[j] <= f[i]
<1> DEFINE Good(k) == \E i \in 1..(k + 1) : \A j \in 1..(k + 1) : f[j] <= f[i]
           T == {k \in Nat : k + 1 <= n => Good(k)}
<1>1. 0 \in T
    <2>1. 1..(0 + 1) = {1}
        OBVIOUS
    <2>2. f[1] \in Nat
        OBVIOUS
    <2>3. Good(0)
        BY <2>1, <2>2
    <2> HIDE DEF Good
    <2> QED BY <2>3
<1>2. ASSUME NEW k \in Nat, k \in T PROVE k + 1 \in T
    <2>1. SUFFICES ASSUME k + 2 <= n PROVE Good(k + 1)
        <3>1. (k + 1) + 1 = k + 2
            OBVIOUS
        <3> HIDE DEF Good
        <3> QED BY <3>1
    <2>2. Good(k)
        <3> HIDE DEF Good
        <3> QED BY <1>2, <2>1
    <2>3. PICK i \in 1..(k + 1) : \A j \in 1..(k + 1) : f[j] <= f[i]
        BY <2>2
    <2>4. 1..((k + 1) + 1) = (1..(k + 1)) \cup {k + 2} /\ k + 2 \in 1..n /\ i \in 1..n
          /\ \A j \in 1..(k + 1) : j \in 1..n
        BY <2>1
    <2>5. f[k + 2] \in Nat /\ f[i] \in Nat /\ \A j \in 1..(k + 1) : f[j] \in Nat
        BY <2>4
    <2>6. CASE f[k + 2] <= f[i]
        BY <2>3, <2>4, <2>6
    <2>7. CASE ~(f[k + 2] <= f[i])
        <3>1. \A j \in 1..((k + 1) + 1) : f[j] <= f[k + 2]
            BY <2>3, <2>4, <2>5, <2>7
        <3> QED BY <2>4, <3>1
    <2> QED BY <2>6, <2>7
<1>3. Nat \subseteq T
    <2> HIDE DEF T
    <2> QED BY <1>1, <1>2, SetInduction
<1>4. n - 1 \in Nat /\ (n - 1) + 1 = n
    OBVIOUS
<1>5. Good(n - 1)
    <2> HIDE DEF Good
    <2> QED BY <1>3, <1>4
<1> QED BY <1>4, <1>5

Rows == [Ids -> Record \cup {Absent}]

Cluster == Seq(Ids) \ {<<>>}

(* h[k] is what cluster_l1 makes of the first k records.                   *)
Gathers(h, rows, order) ==
    /\ h[0] = <<>>
    /\ FoldLeft(LAMBDA cs, r : Place(rows, cs, r), <<>>, order) = h[Len(order)]
    /\ \A k \in 1..Len(order) : h[k] = Place(rows, h[k - 1], order[k])

LEMMA PlaceTyped ==
    ASSUME NEW rows, NEW cs \in Seq(Cluster), NEW r \in Ids
    PROVE  Place(rows, cs, r) \in Seq(Cluster)
<1> DEFINE fits == {i \in DOMAIN cs :
                        <<rows[r].content, rows[Head(cs[i])].content>> \in Similar}
<1>1. <<r>> \in Cluster /\ \A c \in Cluster : Append(c, r) \in Cluster
    <2>1. <<r>> \in Seq(Ids) /\ <<r>> # <<>>
        OBVIOUS
    <2>2. ASSUME NEW c \in Seq(Ids)
          PROVE  Append(c, r) \in Seq(Ids) /\ Append(c, r) # <<>>
        BY AppendProperties
    <2> QED BY <2>1, <2>2 DEF Cluster
<1>2. CASE fits = {}
    BY <1>1, <1>2, AppendProperties DEF Place
<1>3. CASE fits # {}
    <2>1. Len(cs) \in Nat /\ DOMAIN cs = 1..Len(cs)
        BY LenProperties
    <2> DEFINE m == Min(fits)
    <2>2. m \in 1..Len(cs)
        <3>1. fits \in SUBSET (1..Len(cs))
            BY <2>1
        <3> HIDE DEF fits
        <3> QED BY <1>3, <2>1, <3>1, MinOfInterval
    <2>3. Place(rows, cs, r) = [cs EXCEPT ![m] = Append(cs[m], r)]
        BY <1>3 DEF Place
    <2> HIDE DEF m
    <2>4. cs[m] \in Cluster
        BY <2>2, ElementOfSeq
    <2> QED BY <1>1, <2>2, <2>3, <2>4, ExceptSeq
<1> QED BY <1>2, <1>3

LEMMA ClustersGather ==
    ASSUME NEW rows, NEW order \in Seq(Ids)
    PROVE  \E h : Gathers(h, rows, order)
<1> DEFINE Body(F) == [D \in SUBSET (DOMAIN order) |->
                        IF D = {} THEN <<>>
                        ELSE Place(rows, F[D \ {Max(D)}], order[Max(D)])]
           g == [p \in Seq(Cluster) \X Ids |-> Place(rows, p[1], p[2])]
           whole == FoldLeft(LAMBDA cs, r : Place(rows, cs, r), <<>>, order)
<1>0. Len(order) \in Nat /\ DOMAIN order = 1..Len(order)
    BY LenProperties
<1>1. \E F : F = Body(F)
    <2>1. g \in [Seq(Cluster) \X Ids -> Seq(Cluster)]
        BY PlaceTyped
    <2>2. <<>> \in Seq(Cluster)
        BY EmptySeq
    <2>3. PICK F : Fold(F, Seq(Cluster), <<>>, Ids, order, g)
        <3> HIDE DEF g
        <3> QED BY <2>1, <2>2, FoldExists
    <2>4. \A cs \in Seq(Cluster), r \in Ids : g[<<cs, r>>] = Place(rows, cs, r)
        OBVIOUS
    <2>5. F = Body(F)
        <3> HIDE DEF g
        <3> QED BY <2>3, <2>4 DEF Fold
    <2> QED BY <2>5
<1>2. \E F : F = Body(F) /\ whole = F[DOMAIN order]
    BY <1>1 DEF FoldLeft, MapThenFoldSet
<1>3. PICK F : F = Body(F) /\ whole = F[DOMAIN order]
    BY <1>2
<1> HIDE DEF whole
<1> DEFINE h == [k \in 0..Len(order) |-> F[1..k]]
<1>4. F[{}] = <<>> /\ 1..0 = {}
    BY <1>3
<1>5. ASSUME NEW k \in 1..Len(order)
      PROVE  h[k] = Place(rows, h[k - 1], order[k])
    <2>1. /\ 1..k \in SUBSET (1..Len(order)) /\ 1..k # {}
          /\ Max(1..k) = k /\ (1..k) \ {k} = 1..(k - 1)
        BY <1>0, InitialInterval
    <2>2. F[1..k] = Place(rows, F[1..(k - 1)], order[k])
        BY <1>0, <1>3, <2>1
    <2>3. h[k] = F[1..k] /\ h[k - 1] = F[1..(k - 1)]
        BY <1>0
    <2> HIDE DEF h
    <2> QED BY <2>2, <2>3
<1>6. h[0] = <<>> /\ h[Len(order)] = F[DOMAIN order]
    BY <1>0, <1>4
<1> HIDE DEF h
<1> QED BY <1>3, <1>5, <1>6 DEF Gathers, whole

LEMMA ReviewWorthyTyped ==
    ASSUME NEW rows, NEW order \in Seq(Ids)
    PROVE  ReviewWorthy(rows, order) \in Seq(Cluster)
<1> DEFINE clusters == FoldLeft(LAMBDA cs, r : Place(rows, cs, r), <<>>, order)
<1>1. clusters \in Seq(Cluster)
    <2> PICK h : Gathers(h, rows, order)
        BY ClustersGather
    <2>1. Len(order) \in Nat /\ \A k \in 1..Len(order) : order[k] \in Ids
        BY LenProperties, ElementOfSeq
    <2>2. h[0] \in Seq(Cluster)
        BY EmptySeq DEF Gathers
    <2>3. ASSUME NEW k \in 1..Len(order), h[k - 1] \in Seq(Cluster)
          PROVE  h[k] \in Seq(Cluster)
        BY <2>1, <2>3, PlaceTyped DEF Gathers
    <2>4. h[Len(order)] \in Seq(Cluster)
        BY <2>1, <2>2, <2>3, StaysIn
    <2> QED BY <2>4 DEF Gathers
<1> HIDE DEF clusters
<1>2. Only(clusters, {c \in Range(clusters) : Len(c) >= 2}) \in Seq(Cluster)
    BY <1>1, OnlyProperties
<1> QED BY <1>2 DEF ReviewWorthy, clusters

LEMMA PrimaryInCluster ==
    ASSUME NEW rows \in Rows, NEW cluster \in Cluster
    PROVE  Primary(rows, cluster) \in Ids
<1> DEFINE f == [i \in DOMAIN cluster |-> Length[rows[cluster[i]].content]]
           longest == {i \in DOMAIN cluster : \A j \in DOMAIN cluster : f[j] <= f[i]}
<1>1. /\ cluster \in Seq(Ids) /\ Len(cluster) \in Nat \ {0} /\ DOMAIN cluster = 1..Len(cluster)
      /\ \A i \in 1..Len(cluster) : cluster[i] \in Ids
    <2>1. cluster \in Seq(Ids) /\ cluster # <<>>
        BY DEF Cluster
    <2>2. Len(cluster) # 0
        BY <2>1, EmptySeq
    <2> QED BY <2>1, <2>2, LenProperties, ElementOfSeq
<1>2. \A i \in 1..Len(cluster) : f[i] \in Nat
    <2>1. ASSUME NEW r \in Ids PROVE rows[r].content \in 0..MaxContent
        <3>1. CASE rows[r] = Absent
            BY <3>1, ReflectionAssumption DEF Absent
        <3>2. CASE rows[r] # Absent
            BY <3>2 DEF Rows, Record
        <3> QED BY <3>1, <3>2
    <2>2. \A c \in 0..MaxContent : Length[c] \in Nat
        BY ReflectionAssumption
    <2> QED BY <1>1, <2>1, <2>2
<1> HIDE DEF f
<1>3. longest \in SUBSET (1..Len(cluster)) /\ longest # {}
    BY <1>1, <1>2, LongestExists
<1>4. Primary(rows, cluster) = cluster[Min(longest)]
    <2>1. longest = {i \in DOMAIN cluster :
                        \A j \in DOMAIN cluster :
                            Length[rows[cluster[j]].content] <= Length[rows[cluster[i]].content]}
        BY DEF f
    <2> HIDE DEF longest
    <2> QED BY <2>1 DEF Primary
<1>5. Min(longest) \in 1..Len(cluster)
    <2> HIDE DEF longest
    <2> QED BY <1>1, <1>3, MinOfInterval
<1> QED BY <1>1, <1>4, <1>5

LEMMA MergeProposalTyped ==
    ASSUME NEW rows \in Rows, NEW cluster \in Cluster
    PROVE  /\ MergeProposal(rows, cluster) \in Proposal
           /\ MergeProposal(rows, cluster).kind = "merge"
           /\ MergeProposal(rows, cluster).state # "applied"
           /\ MergeProposal(rows, cluster).records # <<>>
           /\ Head(MergeProposal(rows, cluster).records)
                \notin Range(Tail(MergeProposal(rows, cluster).records))
<1> DEFINE p == Primary(rows, cluster)
           q == Only(cluster, Ids \ {p})
           exact == HasExactDuplicate(rows, cluster)
<1>1. p \in Ids
    BY PrimaryInCluster
<1>2. q \in Seq(Ids) /\ p \notin Range(q)
    <2>1. cluster \in Seq(Ids)
        BY DEF Cluster
    <2>2. q \in Seq(Ids) /\ Range(q) = Range(cluster) \cap (Ids \ {p})
        <3> HIDE DEF p
        <3> QED BY <2>1, OnlyProperties
    <2> QED BY <2>2
<1>3. exact \in BOOLEAN
    BY DEF HasExactDuplicate
<1>4. MergeProposal(rows, cluster) =
        [kind |-> "merge", records |-> <<p>> \o q, auto |-> exact,
         state |-> IF exact THEN "proposed" ELSE "user_review_required"]
    BY DEF MergeProposal
<1> HIDE DEF p, q, exact
<1>5. /\ <<p>> \o q \in Seq(Ids) /\ <<p>> \o q # <<>>
      /\ Head(<<p>> \o q) = p /\ Tail(<<p>> \o q) = q
    BY <1>1, <1>2, PutFirst
<1> DEFINE s == IF exact THEN "proposed" ELSE "user_review_required"
<1>6. s \in ProposalStates /\ s # "applied"
    BY DEF ProposalStates
<1> HIDE DEF s
<1>7. [kind |-> "merge", records |-> <<p>> \o q, auto |-> exact, state |-> s] \in Proposal
    BY <1>3, <1>5, <1>6 DEF Proposal
<1>8. MergeProposal(rows, cluster) =
        [kind |-> "merge", records |-> <<p>> \o q, auto |-> exact, state |-> s]
    BY <1>4 DEF s
<1> DEFINE m == MergeProposal(rows, cluster)
<1> HIDE DEF m
<1>9. m.kind = "merge" /\ m.state = s /\ m.records = <<p>> \o q /\ m \in Proposal
    <2>1. m = [kind |-> "merge", records |-> <<p>> \o q, auto |-> exact, state |-> s]
        BY <1>8 DEF m
    <2> QED BY <1>7, <2>1
<1>10. p \notin Range(Tail(m.records)) /\ Head(m.records) = p /\ m.records # <<>>
    BY <1>2, <1>5, <1>9
<1> QED BY <1>6, <1>9, <1>10 DEF m

(* What a deletion takes along is closed under the edges there are.        *)
LEMMA GraphClosed ==
    ASSUME StoreTypeOK, NEW r \in Ids
    PROVE  LET S == {r} \cup DependencyGraph(r)
           IN  /\ S \subseteq Ids
               /\ \A e \in dependencies : e[1] \in S <=> e[2] \in S
<1> DEFINE S == {r} \cup DependencyGraph(r)
           Closed(U) == \A s \in U, n \in Ids : Linked(s, n) => n \in U
<1>1. S \subseteq Ids
    BY DEF DependencyGraph
<1>2. \A x \in Ids : x \in S <=> \A U \in SUBSET Ids : r \in U /\ Closed(U) => x \in U
    BY DEF DependencyGraph
<1> HIDE DEF S
<1>3. ASSUME NEW x \in Ids, NEW y \in Ids, Linked(x, y), x \in S
      PROVE  y \in S
    <2>1. ASSUME NEW U \in SUBSET Ids, r \in U, Closed(U)
          PROVE  y \in U
        BY <1>2, <1>3, <2>1
    <2> QED BY <1>2, <2>1
<1>4. ASSUME NEW e \in dependencies
      PROVE  e[1] \in Ids /\ e[2] \in Ids /\ Linked(e[1], e[2]) /\ Linked(e[2], e[1])
    <2>1. e \in Ids \X Ids \X Relations
        BY DEF StoreTypeOK
    <2>2. e[1] \in Ids /\ e[2] \in Ids /\ e[3] \in Relations /\ e = <<e[1], e[2], e[3]>>
        BY <2>1
    <2> QED BY <1>4, <2>2 DEF Linked
<1> QED BY <1>1, <1>3, <1>4 DEF S

-----------------------------------------------------------------------------
(* What a step may do to the state of the others                           *)

(* Tombstones stay; an edge goes with a deleted record only; an edge that  *)
(* is added beside no deletion and between no deleted records is not late. *)
StoreMoves ==
    /\ \A r \in Ids : IsTombstoned(r) => IsTombstoned(r)'
    /\ \A e \in dependencies : e \in dependencies' \/ IsTombstoned(e[1]) \/ IsTombstoned(e[2])
    /\ \A e \in dependencies' \ late' :
        \/ e \in dependencies \ late
        \/ ~Deleting /\ ~IsTombstoned(e[1])' /\ ~IsTombstoned(e[2])'

(* Proposals are added and decided, never changed in what they propose.    *)
ProposalsMove ==
    /\ Len(proposals) <= Len(proposals')
    /\ \A p \in DOMAIN proposals :
        /\ proposals'[p].records = proposals[p].records
        /\ proposals'[p].kind = proposals[p].kind

LEMMA TablesKeep ==
    ASSUME TablesInv, UNCHANGED <<storeVars, late, recent>>,
           index' \in [Ids -> 0..MaxContent \cup {NoEntry}]
    PROVE  TablesInv' /\ StoreMoves
<1>1. /\ records' = records /\ tombstones' = tombstones /\ dependencies' = dependencies
      /\ late' = late /\ recent' = recent
    BY DEF storeVars
<1>2. TablesInv'
    BY <1>1 DEF TablesInv, StoreTypeOK, Exists, Distinct
<1>3. StoreMoves
    BY <1>1 DEF StoreMoves, IsTombstoned
<1> QED BY <1>2, <1>3

LEMMA ProposalsKeep ==
    ASSUME ProposalsInv, UNCHANGED proposals
    PROVE  ProposalsInv' /\ ProposalsMove
<1>1. ProposalsInv'
    BY DEF ProposalsInv, PrimaryOf, DuplicatesOf
<1>2. ProposalsMove
    <2>1. Len(proposals) \in Nat
        BY LenProperties DEF ProposalsInv
    <2> QED BY <2>1 DEF ProposalsMove
<1> QED BY <1>1, <1>2

LEMMA ProposalTyped ==
    ASSUME ProposalsInv, NEW p \in DOMAIN proposals
    PROVE  /\ proposals[p] \in Proposal /\ proposals[p].records \in Seq(Ids)
           /\ PrimaryOf(p) \in Ids /\ Tail(proposals[p].records) \in Seq(Ids)
           /\ DuplicatesOf(p) \subseteq Ids
<1>1. proposals[p] \in Proposal
    BY LenProperties, ElementOfSeq DEF ProposalsInv
<1>2. proposals[p].records \in Seq(Ids) /\ proposals[p].records # <<>>
    BY <1>1 DEF Proposal, ProposalsInv
<1>3. Head(proposals[p].records) \in Ids /\ Tail(proposals[p].records) \in Seq(Ids)
    BY <1>2, HeadTailProperties
<1>4. Range(Tail(proposals[p].records)) \subseteq Ids
    BY <1>3, LenProperties, ElementOfSeq DEF Range
<1> QED BY <1>1, <1>2, <1>3, <1>4 DEF PrimaryOf, DuplicatesOf

LEMMA HandledStays ==
    ASSUME ProposalsInv, StoreMoves, ProposalsMove, NEW p \in DOMAIN proposals,
           NEW d \in DuplicatesOf(p), Handled(p, d)
    PROVE  Handled(p, d)'
<1>1. PrimaryOf(p) \in Ids /\ d \in Ids
    BY ProposalTyped
<1>2. PrimaryOf(p)' = PrimaryOf(p)
    BY DEF ProposalsMove, PrimaryOf
<1> DEFINE e == <<PrimaryOf(p), d, "supersedes">>
<1>3. CASE IsTombstoned(d)
    BY <1>1, <1>3 DEF StoreMoves, Handled
<1>4. CASE IsTombstoned(PrimaryOf(p))
    BY <1>1, <1>2, <1>4 DEF StoreMoves, Handled
<1>5. CASE e \in dependencies
    <2>1. e[1] = PrimaryOf(p) /\ e[2] = d
        OBVIOUS
    <2>2. e \in dependencies' \/ IsTombstoned(PrimaryOf(p)) \/ IsTombstoned(d)
        BY <1>5, <2>1 DEF StoreMoves
    <2> QED BY <1>2, <1>3, <1>4, <2>2 DEF Handled
<1> QED BY <1>3, <1>4, <1>5 DEF Handled

LEMMA DuplicatesStay ==
    ASSUME ProposalsMove, NEW p \in DOMAIN proposals
    PROVE  DuplicatesOf(p)' = DuplicatesOf(p) /\ PrimaryOf(p)' = PrimaryOf(p)
BY DEF ProposalsMove, DuplicatesOf, PrimaryOf

(* A thread that does not move keeps its part of the invariant.            *)
LEMMA OthersKeep ==
    ASSUME ProposalsInv, CallsInv, StoreMoves, ProposalsMove, proposals' \in Seq(Proposal),
           NEW u \in Threads, call'[u] = call[u]
    PROVE  CallTyped(u)' /\ MergeInv(u)' /\ DeleteInv(u)'
<1>0. /\ Len(proposals) \in Nat /\ DOMAIN proposals = 1..Len(proposals)
      /\ Len(proposals') \in Nat /\ DOMAIN proposals' = 1..Len(proposals')
    BY LenProperties DEF ProposalsInv
<1> PICK c : c = call[u] /\ c = call'[u]
    OBVIOUS
<1>1. c \in CallRecord /\ CallTyped(u) /\ MergeInv(u) /\ DeleteInv(u)
    BY DEF CallsInv
<1>2. CallTyped(u)'
    <2>1. c.proposal \in 0..Len(proposals')
        BY <1>0, <1>1 DEF CallTyped, ProposalsMove
    <2> QED BY <1>1, <2>1 DEF CallTyped, At
<1>3. c.deleted \subseteq Tombstoned'
    BY <1>1 DEF MergeInv, Tombstoned, StoreMoves
<1>4. MergeInv(u)'
    <2>1. ASSUME c.pc \in MergePcs
          PROVE  /\ proposals'[c.proposal].kind = "merge"
                 /\ Range(c.todo) \subseteq DuplicatesOf(c.proposal)'
                 /\ \A d \in DuplicatesOf(c.proposal)' :
                        d \in Range(c.todo) \/ Handled(c.proposal, d)'
        <3> PICK p \in DOMAIN proposals : p = c.proposal
            <4>1. c.proposal \in 0..Len(proposals) /\ c.proposal # 0
                BY <1>1, <2>1 DEF CallTyped
            <4> QED BY <1>0, <4>1
        <3>1. /\ proposals[p].kind = "merge" /\ Range(c.todo) \subseteq DuplicatesOf(p)
              /\ \A d \in DuplicatesOf(p) : d \in Range(c.todo) \/ Handled(p, d)
            BY <1>1, <2>1 DEF MergeInv
        <3>2. DuplicatesOf(p)' = DuplicatesOf(p)
            BY DuplicatesStay
        <3>3. proposals'[p].kind = "merge"
            BY <3>1 DEF ProposalsMove
        <3>4. \A d \in DuplicatesOf(p) : d \in Range(c.todo) \/ Handled(p, d)'
            BY <3>1, HandledStays
        <3>5. p = c.proposal
            OBVIOUS
        <3>6. /\ Range(c.todo) \subseteq DuplicatesOf(p)'
              /\ \A d \in DuplicatesOf(p)' : d \in Range(c.todo) \/ Handled(p, d)'
            BY <3>1, <3>2, <3>4
        <3> QED BY <3>3, <3>5, <3>6
    <2>2. c.pc = "status" => Head(c.todo) \notin c.deleted
        BY <1>1 DEF MergeInv, At, Duplicate
    <2>3. c.pc \in {"purge", "close"} => c.todo = <<>>
        BY <1>1 DEF MergeInv
    <2> QED BY <1>3, <2>1, <2>2, <2>3 DEF MergeInv, At, Duplicate
<1>5. DeleteInv(u)'
    <2>1. ASSUME c.pc = "tombstone"
          PROVE  \A e \in dependencies' \ late' :
                    e[1] \in Range(c.todo) \cup c.done <=> e[2] \in Range(c.todo) \cup c.done
        <3>1. Deleting
            BY <2>1 DEF Deleting, At
        <3>2. \A e \in dependencies' \ late' : e \in dependencies \ late
            BY <3>1 DEF StoreMoves
        <3>3. \A e \in dependencies \ late : e[1] \in Scope(u) <=> e[2] \in Scope(u)
            BY <1>1, <2>1 DEF DeleteInv, At
        <3> QED BY <3>2, <3>3 DEF Scope
    <2>2. Tombstoned \subseteq Tombstoned'
        BY DEF Tombstoned, StoreMoves
    <2>3. c.pc \in {"tombstone", "remove"} => c.done \subseteq Tombstoned'
        BY <1>1, <2>2 DEF DeleteInv
    <2>4. c.pc = "erase" => Range(c.todo) \subseteq Tombstoned'
        BY <1>1, <2>2 DEF DeleteInv, At
    <2> QED BY <2>1, <2>3, <2>4 DEF DeleteInv, At, Scope
<1> QED BY <1>2, <1>4, <1>5

LEMMA CascadeKeeps ==
    ASSUME TablesInv, TablesInv', CascadeInv, StoreMoves,
           \A r \in Ids : IsTombstoned(r)' => IsTombstoned(r),
           \A u \in Threads : At(u, "tombstone") => call'[u] = call[u]
    PROVE  CascadeInv'
<1>1. \A r : Pending(r) => Pending(r)'
    BY DEF Pending, At
<1>2. ASSUME NEW e \in dependencies' \ late'
      PROVE  /\ IsTombstoned(e[1])' => IsTombstoned(e[2])' \/ Pending(e[2])'
             /\ IsTombstoned(e[2])' => IsTombstoned(e[1])' \/ Pending(e[1])'
    <2>1. e[1] \in Ids /\ e[2] \in Ids
        BY DEF TablesInv, StoreTypeOK
    <2>2. CASE e \in dependencies \ late
        <3>1. /\ IsTombstoned(e[1]) => IsTombstoned(e[2]) \/ Pending(e[2])
              /\ IsTombstoned(e[2]) => IsTombstoned(e[1]) \/ Pending(e[1])
            BY <2>2 DEF CascadeInv
        <3> QED BY <1>1, <2>1, <3>1 DEF StoreMoves
    <2>3. CASE ~IsTombstoned(e[1])' /\ ~IsTombstoned(e[2])'
        BY <2>3
    <2> QED BY <2>2, <2>3 DEF StoreMoves
<1> QED BY <1>2 DEF CascadeInv

(* A merge stays done; the proposals a step closes are looked at with it.  *)
LEMMA AppliedKeeps ==
    ASSUME ProposalsInv, ProposalsInv', AppliedMeansMerged, StoreMoves, ProposalsMove,
           \A p \in DOMAIN proposals' :
                \/ p \in DOMAIN proposals /\ proposals[p].state = "applied"
                \/ proposals'[p].state # "applied"
                \/ /\ p \in DOMAIN proposals
                   /\ \A d \in DuplicatesOf(p) : Handled(p, d)
    PROVE  AppliedMeansMerged'
<1>1. ASSUME NEW p \in DOMAIN proposals', proposals'[p].kind = "merge",
             proposals'[p].state = "applied"
      PROVE  \A d \in DuplicatesOf(p)' : Handled(p, d)'
    <2>1. p \in DOMAIN proposals
        BY <1>1
    <2>2. proposals[p].kind = "merge"
        BY <1>1, <2>1 DEF ProposalsMove
    <2>3. \A d \in DuplicatesOf(p) : Handled(p, d)
        BY <1>1, <2>2 DEF AppliedMeansMerged, Handled
    <2>4. \A d \in DuplicatesOf(p) : Handled(p, d)'
        BY <2>1, <2>3, HandledStays
    <2> QED BY <2>1, <2>4, DuplicatesStay
<1> QED BY <1>1 DEF AppliedMeansMerged, Handled

(* Thread t is now in the state c of a call, the others where they were.   *)
CallMoves(t, c) ==
    /\ call' \in [Threads -> CallRecord] /\ call'[t] = c
    /\ \A u \in Threads \ {t} : call'[u] = call[u]
    /\ calls' \in 0..MaxCalls

LEMMA BeginMoves ==
    ASSUME CallsInv, NEW t \in Threads, NEW f, NEW c \in CallRecord, Begin(t, f, c)
    PROVE  Idle(t) /\ CallMoves(t, c)
BY ReflectionAssumption DEF CallsInv, Begin, CallMoves

LEMMA BecomeMoves ==
    ASSUME CallsInv, NEW t \in Threads, NEW c \in CallRecord, Become(t, c)
    PROVE  CallMoves(t, c)
BY DEF CallsInv, Become, CallMoves

(* Where a thread neither merges nor deletes there is nothing to keep.     *)
LEMMA ElsewhereKeeps ==
    ASSUME NEW t, call'[t].pc \in {"idle", "cluster", "propose", "load", "flag"},
           call'[t].deleted \subseteq Tombstoned'
    PROVE  MergeInv(t)' /\ DeleteInv(t)'
BY DEF MergeInv, DeleteInv, At, MergePcs

LEMMA InvariantFrom ==
    ASSUME ReflectionInv, NEW t \in Threads, NEW c, CallMoves(t, c),
           TablesInv', StoreMoves, ProposalsInv', ProposalsMove,
           CallTyped(t)', MergeInv(t)', DeleteInv(t)', CascadeInv', AppliedMeansMerged'
    PROVE  ReflectionInv'
<1>1. ASSUME NEW u \in Threads \ {t}
      PROVE  CallTyped(u)' /\ MergeInv(u)' /\ DeleteInv(u)'
    <2>1. call'[u] = call[u]
        BY DEF CallMoves
    <2>2. proposals' \in Seq(Proposal)
        BY DEF ProposalsInv
    <2> QED BY <2>1, <2>2, OthersKeep DEF ReflectionInv
<1>2. CallsInv'
    BY <1>1 DEF CallsInv, CallMoves
<1> QED BY <1>2 DEF ReflectionInv

LEMMA IdleCallTyped == IdleCall \in CallRecord
<1>1. <<>> \in Seq(Ids) /\ <<>> \in Seq(Seq(Ids) \ {<<>>})
    BY EmptySeq
<1>2. "idle" \in CallPcs /\ "logical" \in Modes
    BY DEF CallPcs, Modes
<1>3. [r \in Ids |-> Absent] \in [Ids -> Record \cup {Absent}]
    OBVIOUS
<1> QED BY <1>1, <1>2, <1>3 DEF IdleCall, CallRecord

-----------------------------------------------------------------------------
(* Steps that move one thread and nothing else                             *)

LEMMA QuietStep ==
    ASSUME ReflectionInv, NEW t \in Threads, NEW c, CallMoves(t, c), ~At(t, "tombstone"),
           UNCHANGED <<storeVars, late, index, recent, proposals>>,
           CallTyped(t)', MergeInv(t)', DeleteInv(t)'
    PROVE  ReflectionInv'
<1>1. /\ UNCHANGED <<storeVars, late, recent>> /\ UNCHANGED proposals
      /\ index' \in [Ids -> 0..MaxContent \cup {NoEntry}] /\ tombstones' = tombstones
    BY DEF ReflectionInv, TablesInv, storeVars
<1>2. TablesInv' /\ StoreMoves /\ ProposalsInv' /\ ProposalsMove
    BY <1>1, TablesKeep, ProposalsKeep DEF ReflectionInv
<1>3. CascadeInv'
    <2>1. \A u \in Threads : At(u, "tombstone") => call'[u] = call[u]
        BY DEF CallMoves, At
    <2>2. \A r \in Ids : IsTombstoned(r)' => IsTombstoned(r)
        BY <1>1 DEF IsTombstoned
    <2> QED BY <1>2, <2>1, <2>2, CascadeKeeps DEF ReflectionInv
<1>4. AppliedMeansMerged'
    <2>1. \A p \in DOMAIN proposals' :
            \/ p \in DOMAIN proposals /\ proposals[p].state = "applied"
            \/ proposals'[p].state # "applied"
        BY <1>1
    <2> QED BY <1>2, <2>1, AppliedKeeps DEF ReflectionInv
<1> QED BY <1>2, <1>3, <1>4, InvariantFrom

(* The state of a call that is over, or at the next of its clusters.       *)
Rests(c) ==
    /\ c.pc \in {"idle", "propose"} /\ c.deleted = {} /\ c.proposal = 0
    /\ c.pc = "propose" => c.clusters # <<>>

LEMMA RestKeeps ==
    ASSUME NEW t, NEW c, CallMoves(t, c), Rests(c), proposals' \in Seq(Proposal)
    PROVE  CallTyped(t)' /\ MergeInv(t)' /\ DeleteInv(t)'
<1>1. call'[t] = c /\ c.pc \in {"idle", "propose"} /\ c.deleted = {}
    BY DEF CallMoves, Rests
<1>2. MergeInv(t)' /\ DeleteInv(t)'
    BY <1>1, ElsewhereKeeps
<1>3. CallTyped(t)'
    <2>1. 0 \in 0..Len(proposals')
        BY LenProperties
    <2>2. c.proposal = 0 /\ (c.pc = "propose" => c.clusters # <<>>)
        BY DEF Rests
    <2> QED BY <1>1, <2>1, <2>2 DEF CallTyped, At, MergePcs
<1> QED BY <1>2, <1>3

LEMMA IdleRests == IdleCall \in CallRecord /\ Rests(IdleCall)
BY IdleCallTyped DEF Rests, IdleCall

LEMMA ContinueMoves ==
    ASSUME CallsInv, NEW t \in Threads, NEW clusters \in Seq(Cluster), Continue(t, clusters)
    PROVE  \E c \in CallRecord : CallMoves(t, c) /\ Rests(c)
<1>1. CASE clusters = <<>>
    <2>1. Become(t, IdleCall)
        BY <1>1 DEF Continue
    <2> QED BY <2>1, IdleRests, BecomeMoves
<1>2. CASE clusters # <<>>
    <2> PICK c : c = [IdleCall EXCEPT !.pc = "propose", !.rows = call[t].rows,
                                      !.clusters = clusters]
        OBVIOUS
    <2>1. Become(t, c)
        BY <1>2 DEF Continue
    <2>2. call[t].rows \in [Ids -> Record \cup {Absent}] /\ "propose" \in CallPcs
        BY DEF CallsInv, CallRecord, CallPcs
    <2>3. c \in CallRecord
        BY <2>2, IdleCallTyped DEF CallRecord, Cluster
    <2>4. Rests(c)
        BY <1>2, IdleCallTyped DEF Rests, IdleCall
    <2> QED BY <2>1, <2>3, <2>4, BecomeMoves
<1> QED BY <1>1, <1>2

(* An idle thread begins a call that neither merges nor deletes yet.       *)
LEMMA BeginQuietly ==
    ASSUME ReflectionInv, NEW t \in Threads, NEW f, NEW c \in CallRecord, Begin(t, f, c),
           c.pc \in {"cluster", "load", "flag"}, c.deleted = {}, c.proposal \in 0..Len(proposals),
           c.pc = "load" => c.proposal # 0,
           UNCHANGED <<storeVars, late, index, recent, proposals>>
    PROVE  ReflectionInv'
<1>1. CallMoves(t, c) /\ Idle(t)
    BY BeginMoves DEF ReflectionInv
<1>2. MergeInv(t)' /\ DeleteInv(t)'
    BY <1>1, ElsewhereKeeps DEF CallMoves
<1>3. CallTyped(t)'
    BY <1>1 DEF CallMoves, CallTyped, At, MergePcs
<1> QED BY <1>1, <1>2, <1>3, QuietStep DEF Idle, At

LEMMA BeginConsolidateKeeps ==
    ASSUME ReflectionInv, NEW t \in Threads, BeginConsolidate(t)
    PROVE  ReflectionInv'
<1> PICK facts : facts = Only(recent, {r \in Ids : CanReflectOn(r) /\ InForce(r)})
    OBVIOUS
<1>1. facts \in Seq(Ids)
    BY OnlyProperties DEF ReflectionInv, TablesInv
<1> PICK c : c = [IdleCall EXCEPT !.pc = "cluster", !.order = facts,
                                  !.rows = [r \in Ids |-> IF r \in Range(facts) THEN records[r]
                                                          ELSE Absent]]
    OBVIOUS
<1>2. Begin(t, "consolidate", c) /\ UNCHANGED <<storeVars, late, index, recent, proposals>>
    BY DEF BeginConsolidate
<1>3. [r \in Ids |-> IF r \in Range(facts) THEN records[r] ELSE Absent]
        \in [Ids -> Record \cup {Absent}]
    BY DEF ReflectionInv, TablesInv, StoreTypeOK
<1>4. c \in CallRecord
    BY <1>1, <1>3, IdleCallTyped DEF CallRecord, CallPcs
<1>5. c.pc = "cluster" /\ c.deleted = {} /\ c.proposal = 0
    BY IdleCallTyped DEF IdleCall
<1>6. 0 \in 0..Len(proposals)
    BY LenProperties DEF ReflectionInv, ProposalsInv
<1> QED BY <1>2, <1>4, <1>5, <1>6, BeginQuietly

LEMMA BeginApplyKeeps ==
    ASSUME ReflectionInv, NEW t \in Threads, BeginApply(t)
    PROVE  ReflectionInv'
<1> PICK p \in DOMAIN proposals :
            Begin(t, "apply", [IdleCall EXCEPT !.pc = "load", !.proposal = p])
    BY DEF BeginApply
<1> PICK c : c = [IdleCall EXCEPT !.pc = "load", !.proposal = p]
    OBVIOUS
<1>1. p \in 1..Len(proposals) /\ p \in Nat /\ Len(proposals) \in Nat
    BY LenProperties DEF ReflectionInv, ProposalsInv
<1>2. c \in CallRecord
    BY <1>1, IdleCallTyped DEF CallRecord, CallPcs
<1>3. c.pc = "load" /\ c.deleted = {} /\ c.proposal = p
    BY IdleCallTyped DEF IdleCall
<1>4. p \in 0..Len(proposals) /\ p # 0
    BY <1>1
<1> QED BY <1>2, <1>3, <1>4, BeginQuietly DEF BeginApply

LEMMA BeginAuditKeeps ==
    ASSUME ReflectionInv, NEW t \in Threads, BeginAudit(t)
    PROVE  ReflectionInv'
<1> PICK order : order = Only(recent, {r \in Ids : InForce(r)})
    OBVIOUS
<1>1. order \in Seq(Ids)
    BY OnlyProperties DEF ReflectionInv, TablesInv
<1> PICK c : c = [IdleCall EXCEPT !.pc = "flag", !.order = order]
    OBVIOUS
<1>2. c \in CallRecord
    BY <1>1, IdleCallTyped DEF CallRecord, CallPcs
<1>3. c.pc = "flag" /\ c.deleted = {} /\ c.proposal = 0
    BY IdleCallTyped DEF IdleCall
<1>4. 0 \in 0..Len(proposals)
    BY LenProperties DEF ReflectionInv, ProposalsInv
<1> QED BY <1>2, <1>3, <1>4, BeginQuietly DEF BeginAudit

LEMMA ClusterFactsKeeps ==
    ASSUME ReflectionInv, NEW t \in Threads, ClusterFacts(t)
    PROVE  ReflectionInv'
<1> PICK order : order = Only(call[t].order, {r \in Ids : ~IsTombstoned(r)})
    OBVIOUS
<1>1. order \in Seq(Ids)
    BY OnlyProperties DEF ReflectionInv, CallsInv, CallRecord
<1>2. ReviewWorthy(call[t].rows, order) \in Seq(Cluster)
    BY <1>1, ReviewWorthyTyped
<1>3. Continue(t, ReviewWorthy(call[t].rows, order)) /\ ~At(t, "tombstone")
    BY DEF ClusterFacts, At
<1> PICK c \in CallRecord : CallMoves(t, c) /\ Rests(c)
    BY <1>2, <1>3, ContinueMoves DEF ReflectionInv
<1>4. proposals' \in Seq(Proposal)
    BY DEF ClusterFacts, ReflectionInv, ProposalsInv
<1> QED BY <1>3, <1>4, RestKeeps, QuietStep DEF ClusterFacts

LEMMA LinkRefusedKeeps ==
    ASSUME ReflectionInv, NEW t \in Threads, LinkRefused(t)
    PROVE  ReflectionInv'
<1>1. CallMoves(t, IdleCall)
    BY IdleRests, BecomeMoves DEF LinkRefused, ReflectionInv
<1>2. proposals' \in Seq(Proposal) /\ ~At(t, "tombstone")
    BY DEF LinkRefused, ReflectionInv, ProposalsInv, At
<1> QED BY <1>1, <1>2, IdleRests, RestKeeps, QuietStep DEF LinkRefused

-----------------------------------------------------------------------------
(* The steps of a merge                                                    *)

LEMMA HeadAndTail ==
    ASSUME NEW S, NEW q \in Seq(S), q # <<>>
    PROVE  /\ Head(q) \in S /\ Tail(q) \in Seq(S)
           /\ Range(q) = {Head(q)} \cup Range(Tail(q)) /\ Range(q) \subseteq S
<1>1. /\ Head(q) \in S /\ Tail(q) \in Seq(S) /\ Len(Tail(q)) = Len(q) - 1
      /\ \A i \in 1..Len(Tail(q)) : Tail(q)[i] = q[i + 1]
      /\ Head(q) = q[1]
    BY HeadTailProperties
<1>2. /\ Len(q) \in Nat /\ Len(q) # 0 /\ DOMAIN q = 1..Len(q) /\ \A i \in 1..Len(q) : q[i] \in S
      /\ DOMAIN Tail(q) = 1..Len(Tail(q))
    BY <1>1, LenProperties, ElementOfSeq, EmptySeq
<1>3. ASSUME NEW i \in 1..Len(q)
      PROVE  q[i] = Head(q) \/ q[i] \in Range(Tail(q))
    <2>1. CASE i = 1
        BY <1>1, <2>1
    <2>2. CASE i # 1
        <3>1. i - 1 \in 1..Len(Tail(q)) /\ (i - 1) + 1 = i
            BY <1>1, <1>2, <2>2
        <3> QED BY <1>1, <1>2, <3>1 DEF Range
    <2> QED BY <2>1, <2>2
<1>4. ASSUME NEW i \in 1..Len(Tail(q))
      PROVE  Tail(q)[i] \in Range(q)
    <2>1. i + 1 \in 1..Len(q)
        BY <1>1, <1>2
    <2> QED BY <1>1, <1>2, <2>1 DEF Range
<1>5. Head(q) \in Range(q)
    <2>1. 1 \in 1..Len(q)
        BY <1>2
    <2> QED BY <1>1, <1>2, <2>1 DEF Range
<1>6. Range(q) \subseteq {Head(q)} \cup Range(Tail(q))
    BY <1>2, <1>3 DEF Range
<1>7. Range(Tail(q)) \subseteq Range(q)
    BY <1>2, <1>4 DEF Range
<1> QED BY <1>1, <1>2, <1>5, <1>6, <1>7 DEF Range

(* What a thread in a merge knows of its proposal.                         *)
LEMMA InMerge ==
    ASSUME ReflectionInv, NEW t \in Threads, call[t].pc \in MergePcs \cup {"load"}
    PROVE  /\ call[t] \in CallRecord /\ call[t].proposal \in DOMAIN proposals
           /\ call[t].proposal \in 1..Len(proposals)
           /\ call[t].deleted \subseteq Tombstoned
<1>1. Len(proposals) \in Nat /\ DOMAIN proposals = 1..Len(proposals)
    BY LenProperties DEF ReflectionInv, ProposalsInv
<1>2. call[t].proposal \in 0..Len(proposals) /\ call[t].proposal # 0
    BY DEF ReflectionInv, CallsInv, CallTyped
<1>3. call[t].proposal \in 1..Len(proposals)
    BY <1>1, <1>2
<1> QED BY <1>1, <1>3 DEF ReflectionInv, CallsInv, MergeInv

(* What a thread that stays in its merge must show.                        *)
LEMMA MergeKeeps ==
    ASSUME NEW t, NEW c, CallMoves(t, c), proposals' \in Seq(Proposal),
           c.pc \in MergePcs, c.proposal \in 1..Len(proposals'),
           proposals'[c.proposal].kind = "merge", c.deleted \subseteq Tombstoned',
           Range(c.todo) \subseteq Range(Tail(proposals'[c.proposal].records)),
           \A d \in Range(Tail(proposals'[c.proposal].records)) :
                d \in Range(c.todo) \/ Handled(c.proposal, d)',
           c.pc = "status" => Head(c.todo) \notin c.deleted,
           c.pc \in {"status", "link"} => c.todo # <<>>,
           c.pc \in {"purge", "close"} => c.todo = <<>>
    PROVE  CallTyped(t)' /\ MergeInv(t)' /\ DeleteInv(t)'
<1>1. call'[t] = c
    BY DEF CallMoves
<1>2. c.proposal \in 0..Len(proposals') /\ c.proposal # 0
    BY LenProperties
<1>3. CallTyped(t)'
    BY <1>1, <1>2 DEF CallTyped, At, MergePcs
<1>4. MergeInv(t)'
    BY <1>1 DEF MergeInv, At, Duplicate, DuplicatesOf, Handled, PrimaryOf
<1>5. DeleteInv(t)'
    BY <1>1 DEF DeleteInv, At, MergePcs
<1> QED BY <1>3, <1>4, <1>5

LEMMA GuardKeeps ==
    ASSUME ReflectionInv, NEW t \in Threads, Guard(t)
    PROVE  ReflectionInv'
<1> PICK k : k = call[t]
    OBVIOUS
<1> PICK p : p = k.proposal
    OBVIOUS
<1>1. At(t, "guard") /\ k.pc = "guard" /\ k.pc \in MergePcs /\ ~At(t, "tombstone")
      /\ UNCHANGED <<storeVars, late, index, recent, proposals>>
    BY DEF Guard, At, MergePcs
<1>2. /\ k \in CallRecord /\ p \in DOMAIN proposals /\ p \in 1..Len(proposals)
      /\ k.deleted \subseteq Tombstoned
    BY <1>1, InMerge
<1>3. /\ proposals[p].kind = "merge" /\ Range(k.todo) \subseteq DuplicatesOf(p)
      /\ \A d \in DuplicatesOf(p) : d \in Range(k.todo) \/ Handled(p, d)
    BY <1>1 DEF ReflectionInv, CallsInv, MergeInv
<1>4. /\ Tombstoned' = Tombstoned /\ \A d : Handled(p, d)' = Handled(p, d)
      /\ proposals' = proposals /\ proposals' \in Seq(Proposal)
    BY <1>1 DEF storeVars, Tombstoned, Handled, PrimaryOf, IsTombstoned, ReflectionInv,
               ProposalsInv
<1>5. k.todo \in Seq(Ids)
    BY <1>2 DEF CallRecord
<1>6. CASE k.todo = <<>>
    <2> PICK c : c = [k EXCEPT !.pc = "purge"]
        OBVIOUS
    <2>1. c \in CallRecord /\ c.pc = "purge" /\ c.proposal = p /\ c.todo = k.todo
          /\ c.deleted = k.deleted
        BY <1>2 DEF CallRecord, CallPcs
    <2>2. CallMoves(t, c)
        <3>1. Become(t, c)
            BY <1>6 DEF Guard
        <3> QED BY <2>1, <3>1, BecomeMoves DEF ReflectionInv
    <2>3. CallTyped(t)' /\ MergeInv(t)' /\ DeleteInv(t)'
        <3>1. c.pc \in MergePcs
            BY <2>1 DEF MergePcs
        <3> QED BY <1>2, <1>3, <1>4, <1>6, <2>1, <2>2, <3>1, MergeKeeps DEF DuplicatesOf
    <2> QED BY <1>1, <2>2, <2>3, QuietStep
<1>7. CASE k.todo # <<>> /\ Skipped(t)
    <2> PICK c : c = [k EXCEPT !.todo = Tail(@)]
        OBVIOUS
    <2>1. Tail(k.todo) \in Seq(Ids) /\ Range(k.todo) = {Head(k.todo)} \cup Range(Tail(k.todo))
        BY <1>5, <1>7, HeadAndTail
    <2>2. c \in CallRecord /\ c.pc = "guard" /\ c.proposal = p /\ c.todo = Tail(k.todo)
          /\ c.deleted = k.deleted
        BY <1>1, <1>2, <2>1 DEF CallRecord
    <2>3. CallMoves(t, c)
        <3>1. Become(t, c)
            BY <1>7 DEF Guard
        <3> QED BY <2>2, <3>1, BecomeMoves DEF ReflectionInv
    <2>4. Handled(p, Head(k.todo))
        <3>1. Head(k.todo) \in DuplicatesOf(p)
            BY <1>3, <2>1
        <3>2. Head(k.todo) # PrimaryOf(p)
            BY <1>2, <1>3, <3>1 DEF ReflectionInv, ProposalsInv
        <3> QED BY <1>7, <3>2 DEF Skipped, Duplicate, Handled
    <2>5. Range(c.todo) \subseteq DuplicatesOf(p)
          /\ \A d \in DuplicatesOf(p) : d \in Range(c.todo) \/ Handled(p, d)
        BY <1>3, <2>1, <2>2, <2>4
    <2>6. CallTyped(t)' /\ MergeInv(t)' /\ DeleteInv(t)'
        <3>1. c.pc \in MergePcs
            BY <2>2 DEF MergePcs
        <3> QED BY <1>2, <1>3, <1>4, <2>2, <2>3, <2>5, <3>1, MergeKeeps DEF DuplicatesOf
    <2> QED BY <1>1, <2>3, <2>6, QuietStep
<1>8. CASE k.todo # <<>> /\ ~Skipped(t)
    <2> PICK c : c = [k EXCEPT !.pc = "status"]
        OBVIOUS
    <2>1. c \in CallRecord /\ c.pc = "status" /\ c.proposal = p /\ c.todo = k.todo
          /\ c.deleted = k.deleted
        BY <1>2 DEF CallRecord, CallPcs
    <2>2. CallMoves(t, c)
        <3>1. Become(t, c)
            BY <1>8 DEF Guard
        <3> QED BY <2>1, <3>1, BecomeMoves DEF ReflectionInv
    <2>3. Head(k.todo) \notin k.deleted
        BY <1>2, <1>8 DEF Skipped, Duplicate, Tombstoned
    <2>4. CallTyped(t)' /\ MergeInv(t)' /\ DeleteInv(t)'
        <3>1. c.pc \in MergePcs
            BY <2>1 DEF MergePcs
        <3> QED BY <1>2, <1>3, <1>4, <1>8, <2>1, <2>2, <2>3, <3>1, MergeKeeps DEF DuplicatesOf
    <2> QED BY <1>1, <2>2, <2>4, QuietStep
<1> QED BY <1>6, <1>7, <1>8

(* A step that leaves the store alone.                                     *)
LEMMA OffStoreStep ==
    ASSUME ReflectionInv, NEW t \in Threads, NEW c, CallMoves(t, c), ~At(t, "tombstone"),
           UNCHANGED <<storeVars, late, recent>>,
           index' \in [Ids -> 0..MaxContent \cup {NoEntry}],
           ProposalsInv', ProposalsMove,
           \A p \in DOMAIN proposals' :
                \/ p \in DOMAIN proposals /\ proposals[p].state = "applied"
                \/ proposals'[p].state # "applied"
                \/ /\ p \in DOMAIN proposals
                   /\ \A d \in DuplicatesOf(p) : Handled(p, d),
           CallTyped(t)', MergeInv(t)', DeleteInv(t)'
    PROVE  ReflectionInv'
<1>1. TablesInv' /\ StoreMoves
    BY TablesKeep DEF ReflectionInv
<1>2. CascadeInv'
    <2>1. \A u \in Threads : At(u, "tombstone") => call'[u] = call[u]
        BY DEF CallMoves, At
    <2>2. \A r \in Ids : IsTombstoned(r)' => IsTombstoned(r)
        BY DEF IsTombstoned, storeVars
    <2> QED BY <1>1, <2>1, <2>2, CascadeKeeps DEF ReflectionInv
<1>3. AppliedMeansMerged'
    BY <1>1, AppliedKeeps DEF ReflectionInv
<1> QED BY <1>1, <1>2, <1>3, InvariantFrom

LEMMA ProposalsDecide ==
    ASSUME ProposalsInv, NEW p \in DOMAIN proposals, NEW s \in ProposalStates, SetState(p, s)
    PROVE  /\ ProposalsInv' /\ ProposalsMove /\ proposals' \in Seq(Proposal)
           /\ DOMAIN proposals' = DOMAIN proposals /\ proposals'[p].state = s
           /\ \A q \in DOMAIN proposals \ {p} : proposals'[q] = proposals[q]
<1>1. /\ DOMAIN proposals = 1..Len(proposals) /\ Len(proposals) \in Nat
      /\ proposals[p] \in Proposal /\ proposals \in Seq(Proposal)
    BY LenProperties, ProposalTyped DEF ProposalsInv
<1> PICK x : x = [proposals[p] EXCEPT !.state = s]
    OBVIOUS
<1>2. /\ x \in Proposal /\ x.state = s /\ x.records = proposals[p].records
      /\ x.kind = proposals[p].kind
    BY <1>1 DEF Proposal
<1>3. proposals' = [proposals EXCEPT ![p] = x]
    BY DEF SetState
<1>4. /\ proposals' \in Seq(Proposal) /\ Len(proposals') = Len(proposals)
      /\ \A q \in 1..Len(proposals) : proposals'[q] = IF q = p THEN x ELSE proposals[q]
    BY <1>1, <1>2, <1>3, ExceptSeq
<1>5. DOMAIN proposals' = DOMAIN proposals
    BY <1>3
<1>6. \A q \in DOMAIN proposals : /\ proposals'[q].records = proposals[q].records
                                  /\ proposals'[q].kind = proposals[q].kind
    BY <1>1, <1>2, <1>4
<1>7. ProposalsMove
    BY <1>1, <1>4, <1>6 DEF ProposalsMove
<1>8. ProposalsInv'
    BY <1>4, <1>5, <1>6 DEF ProposalsInv, PrimaryOf, DuplicatesOf
<1> QED BY <1>1, <1>2, <1>4, <1>5, <1>7, <1>8

LEMMA LoadProposalKeeps ==
    ASSUME ReflectionInv, NEW t \in Threads, LoadProposal(t)
    PROVE  ReflectionInv'
<1> PICK k : k = call[t]
    OBVIOUS
<1> PICK p : p = k.proposal
    OBVIOUS
<1>1. At(t, "load") /\ k.pc = "load" /\ ~At(t, "tombstone")
      /\ UNCHANGED <<storeVars, late, index, recent>>
    BY DEF LoadProposal, At
<1>2. k \in CallRecord /\ p \in DOMAIN proposals /\ p \in 1..Len(proposals)
    BY <1>1, InMerge
<1>3. index' \in [Ids -> 0..MaxContent \cup {NoEntry}] /\ UNCHANGED <<storeVars, late, recent>>
    BY <1>1 DEF ReflectionInv, TablesInv
<1>4. CASE Decided(p) \/ proposals[p].kind = "clarify_conflict"
    <2>1. PICK c \in CallRecord : CallMoves(t, c) /\ Rests(c)
        <3>1. Continue(t, k.clusters)
            BY <1>4 DEF LoadProposal
        <3>2. k.clusters \in Seq(Cluster)
            BY <1>2 DEF CallRecord, Cluster
        <3> QED BY <3>1, <3>2, ContinueMoves DEF ReflectionInv
    <2>2. CASE Decided(p) \/ proposals[p].kind = "merge"
        <3>1. UNCHANGED proposals
            BY <2>2 DEF LoadProposal
        <3>2. proposals' \in Seq(Proposal)
            BY <3>1 DEF ReflectionInv, ProposalsInv
        <3> QED BY <1>1, <2>1, <3>1, <3>2, RestKeeps, QuietStep
    <2>3. CASE ~(Decided(p) \/ proposals[p].kind = "merge")
        <3>1. SetState(p, "user_review_required")
            BY <2>3 DEF LoadProposal, SetState
        <3>2. "user_review_required" \in ProposalStates
            BY DEF ProposalStates
        <3>3. /\ ProposalsInv' /\ ProposalsMove /\ proposals' \in Seq(Proposal)
              /\ DOMAIN proposals' = DOMAIN proposals
              /\ proposals'[p].state = "user_review_required"
              /\ \A q \in DOMAIN proposals \ {p} : proposals'[q] = proposals[q]
            BY <1>2, <3>1, <3>2, ProposalsDecide DEF ReflectionInv
        <3>4. \A q \in DOMAIN proposals' :
                \/ q \in DOMAIN proposals /\ proposals[q].state = "applied"
                \/ proposals'[q].state # "applied"
            BY <3>3
        <3> QED BY <1>1, <1>3, <2>1, <3>3, <3>4, RestKeeps, OffStoreStep
    <2> QED BY <2>2, <2>3
<1>5. CASE ~(Decided(p) \/ proposals[p].kind = "clarify_conflict")
    <2>1. proposals[p].kind = "merge"
        BY <1>2, <1>5, ProposalTyped DEF ReflectionInv, Proposal
    <2>2. UNCHANGED proposals /\ proposals' \in Seq(Proposal)
        BY <2>1 DEF LoadProposal, ReflectionInv, ProposalsInv
    <2> PICK c : c = [k EXCEPT !.pc = "guard", !.todo = Tail(proposals[p].records),
                               !.deleted = {r \in Ids : IsTombstoned(r)}]
        OBVIOUS
    <2>3. Tail(proposals[p].records) \in Seq(Ids)
        BY <1>2, ProposalTyped DEF ReflectionInv
    <2>4. c \in CallRecord /\ c.pc = "guard" /\ c.proposal = p /\ c.deleted = Tombstoned
          /\ c.todo = Tail(proposals[p].records)
        BY <1>2, <2>3 DEF CallRecord, CallPcs, Tombstoned
    <2>5. CallMoves(t, c)
        <3>1. Become(t, c)
            BY <1>5 DEF LoadProposal
        <3> QED BY <2>4, <3>1, BecomeMoves DEF ReflectionInv
    <2>6. Tombstoned' = Tombstoned
        BY <1>1 DEF Tombstoned, IsTombstoned, storeVars
    <2>7. CallTyped(t)' /\ MergeInv(t)' /\ DeleteInv(t)'
        <3>1. c.pc \in MergePcs
            BY <2>4 DEF MergePcs
        <3> QED BY <1>2, <2>1, <2>2, <2>4, <2>5, <2>6, <3>1, MergeKeeps
    <2> QED BY <1>1, <2>2, <2>5, <2>7, QuietStep
<1> QED BY <1>4, <1>5

LEMMA PurgeDuplicatesKeeps ==
    ASSUME ReflectionInv, NEW t \in Threads, PurgeDuplicates(t)
    PROVE  ReflectionInv'
<1> PICK k : k = call[t]
    OBVIOUS
<1> PICK p : p = k.proposal
    OBVIOUS
<1>1. k.pc = "purge" /\ k.pc \in MergePcs /\ ~At(t, "tombstone")
      /\ UNCHANGED <<storeVars, late, recent, proposals>>
    BY DEF PurgeDuplicates, At, MergePcs
<1>2. /\ k \in CallRecord /\ p \in DOMAIN proposals /\ p \in 1..Len(proposals)
      /\ k.deleted \subseteq Tombstoned
    BY <1>1, InMerge
<1>3. /\ proposals[p].kind = "merge" /\ Range(k.todo) \subseteq DuplicatesOf(p)
      /\ \A d \in DuplicatesOf(p) : d \in Range(k.todo) \/ Handled(p, d)
      /\ k.todo = <<>>
    BY <1>1 DEF ReflectionInv, CallsInv, MergeInv
<1>4. /\ Tombstoned' = Tombstoned /\ \A d : Handled(p, d)' = Handled(p, d)
      /\ proposals' = proposals /\ proposals' \in Seq(Proposal)
    BY <1>1 DEF storeVars, Tombstoned, Handled, PrimaryOf, IsTombstoned, ReflectionInv,
               ProposalsInv
<1>5. index' \in [Ids -> 0..MaxContent \cup {NoEntry}]
    BY DEF PurgeDuplicates, Removed, ReflectionInv, TablesInv
<1> PICK c : c = [k EXCEPT !.pc = "close"]
    OBVIOUS
<1>6. c \in CallRecord /\ c.pc = "close" /\ c.proposal = p /\ c.todo = <<>>
      /\ c.deleted = k.deleted
    BY <1>2, <1>3 DEF CallRecord, CallPcs
<1>7. CallMoves(t, c)
    <2>1. Become(t, c)
        BY DEF PurgeDuplicates
    <2> QED BY <1>6, <2>1, BecomeMoves DEF ReflectionInv
<1>8. CallTyped(t)' /\ MergeInv(t)' /\ DeleteInv(t)'
    <2>1. c.pc \in MergePcs
        BY <1>6 DEF MergePcs
    <2> QED BY <1>2, <1>3, <1>4, <1>6, <1>7, <2>1, MergeKeeps DEF DuplicatesOf
<1>9. ProposalsInv' /\ ProposalsMove
    BY <1>1, ProposalsKeep DEF ReflectionInv
<1>10. \A q \in DOMAIN proposals' :
            \/ q \in DOMAIN proposals /\ proposals[q].state = "applied"
            \/ proposals'[q].state # "applied"
    BY <1>1
<1> QED BY <1>1, <1>5, <1>7, <1>8, <1>9, <1>10, OffStoreStep

LEMMA CloseProposalKeeps ==
    ASSUME ReflectionInv, NEW t \in Threads, CloseProposal(t)
    PROVE  ReflectionInv'
<1> PICK k : k = call[t]
    OBVIOUS
<1> PICK p : p = k.proposal
    OBVIOUS
<1>1. k.pc = "close" /\ k.pc \in MergePcs /\ ~At(t, "tombstone")
      /\ UNCHANGED <<storeVars, late, index, recent>> /\ SetState(p, "applied")
    BY DEF CloseProposal, At, MergePcs
<1>2. k \in CallRecord /\ p \in DOMAIN proposals
    BY <1>1, InMerge
<1>3. /\ k.todo = <<>>
      /\ \A d \in DuplicatesOf(p) : d \in Range(k.todo) \/ Handled(p, d)
    BY <1>1 DEF ReflectionInv, CallsInv, MergeInv
<1>4. \A d \in DuplicatesOf(p) : Handled(p, d)
    BY <1>3 DEF Range
<1>5. PICK c \in CallRecord : CallMoves(t, c) /\ Rests(c)
    <2>1. Continue(t, k.clusters)
        BY DEF CloseProposal
    <2>2. k.clusters \in Seq(Cluster)
        BY <1>2 DEF CallRecord, Cluster
    <2> QED BY <2>1, <2>2, ContinueMoves DEF ReflectionInv
<1>6. /\ ProposalsInv' /\ ProposalsMove /\ proposals' \in Seq(Proposal)
      /\ DOMAIN proposals' = DOMAIN proposals
      /\ \A q \in DOMAIN proposals \ {p} : proposals'[q] = proposals[q]
    <2>1. "applied" \in ProposalStates
        BY DEF ProposalStates
    <2> QED BY <1>1, <1>2, <2>1, ProposalsDecide DEF ReflectionInv
<1>7. \A q \in DOMAIN proposals' :
            \/ q \in DOMAIN proposals /\ proposals[q].state = "applied"
            \/ proposals'[q].state # "applied"
            \/ q \in DOMAIN proposals /\ \A d \in DuplicatesOf(q) : Handled(q, d)
    BY <1>4, <1>6
<1>8. index' \in [Ids -> 0..MaxContent \cup {NoEntry}] /\ UNCHANGED <<storeVars, late, recent>>
    BY <1>1 DEF ReflectionInv, TablesInv
<1> QED BY <1>1, <1>5, <1>6, <1>7, <1>8, RestKeeps, OffStoreStep

LEMMA RejectKeeps ==
    ASSUME ReflectionInv, NEW t \in Threads, Reject(t)
    PROVE  ReflectionInv'
<1>1. CallMoves(t, IdleCall) /\ Rests(IdleCall) /\ ~At(t, "tombstone")
    BY IdleRests, BeginMoves DEF Reject, ReflectionInv, Idle, At
<1> PICK p \in DOMAIN proposals : SetState(p, "rejected")
    BY DEF Reject
<1>2. "rejected" \in ProposalStates
    BY DEF ProposalStates
<1>3. /\ ProposalsInv' /\ ProposalsMove /\ proposals' \in Seq(Proposal)
      /\ DOMAIN proposals' = DOMAIN proposals /\ proposals'[p].state = "rejected"
      /\ \A q \in DOMAIN proposals \ {p} : proposals'[q] = proposals[q]
    BY <1>2, ProposalsDecide DEF ReflectionInv
<1>4. \A q \in DOMAIN proposals' :
            \/ q \in DOMAIN proposals /\ proposals[q].state = "applied"
            \/ proposals'[q].state # "applied"
    BY <1>3
<1>5. index' \in [Ids -> 0..MaxContent \cup {NoEntry}] /\ UNCHANGED <<storeVars, late, recent>>
    BY DEF ReflectionInv, TablesInv, Reject
<1> QED BY <1>1, <1>3, <1>4, <1>5, RestKeeps, OffStoreStep

-----------------------------------------------------------------------------
(* The steps that add proposals                                            *)

LEMMA ListedOnce ==
    ASSUME NEW S, IsFiniteSet(S)
    PROVE  /\ SetToSeq(S) \in Seq(S) /\ Len(SetToSeq(S)) = Cardinality(S)
           /\ Range(SetToSeq(S)) = S /\ Distinct(SetToSeq(S))
           /\ S # {} => SetToSeq(S) # <<>>
<1> DEFINE n == Cardinality(S)
           f == SetToSeq(S)
<1>1. n \in Nat /\ ExistsBijection(1..n, S)
    BY FS_CardinalityType
<1>2. \E g \in [1..n -> S] : IsInjective(g)
    BY <1>1 DEF ExistsBijection, Bijection, Injection, IsInjective
<1>3. f \in [1..n -> S] /\ IsInjective(f)
    BY <1>2 DEF SetToSeq
<1>4. f \in Injection(1..n, S)
    BY <1>3 DEF Injection
<1>5. Cardinality(1..n) = n
    BY <1>1, FS_Interval
<1> HIDE DEF n, f
<1>6. f \in Surjection(1..n, S)
    BY <1>4, <1>5, FS_Injection DEF n
<1>7. Range(f) = S
    BY <1>3, <1>6 DEF Surjection, Range
<1>8. f \in Seq(S) /\ Len(f) = n
    BY <1>1, <1>3, SeqDef, LenProperties
<1>9. Distinct(f)
    BY <1>3 DEF Distinct, IsInjective
<1> QED BY <1>7, <1>8, <1>9, SetAsSequence DEF f, n

(* What a proposal must be when it is added.                               *)
Fresh(p) ==
    /\ p.records # <<>> /\ p.state # "applied"
    /\ p.kind = "merge" => Head(p.records) \notin Range(Tail(p.records))

LEMMA ProposalsAdded ==
    ASSUME ProposalsInv, proposals' \in Seq(Proposal), Len(proposals) <= Len(proposals'),
           \A p \in 1..Len(proposals) : proposals'[p] = proposals[p],
           \A p \in (Len(proposals) + 1)..Len(proposals') : Fresh(proposals'[p])
    PROVE  /\ ProposalsInv' /\ ProposalsMove
           /\ \A p \in DOMAIN proposals' :
                \/ p \in DOMAIN proposals /\ proposals[p].state = "applied"
                \/ proposals'[p].state # "applied"
<1>1. /\ DOMAIN proposals = 1..Len(proposals) /\ Len(proposals) \in Nat
      /\ DOMAIN proposals' = 1..Len(proposals') /\ Len(proposals') \in Nat
    BY LenProperties DEF ProposalsInv
<1>2. ASSUME NEW p \in DOMAIN proposals'
      PROVE  p \in DOMAIN proposals \/ p \in (Len(proposals) + 1)..Len(proposals')
    BY <1>1
<1>3. ASSUME NEW p \in DOMAIN proposals'
      PROVE  /\ proposals'[p].records # <<>>
             /\ proposals'[p].kind = "merge" =>
                    Head(proposals'[p].records) \notin Range(Tail(proposals'[p].records))
             /\ \/ p \in DOMAIN proposals /\ proposals[p].state = "applied"
                \/ proposals'[p].state # "applied"
    <2>1. CASE p \in DOMAIN proposals
        BY <1>1, <2>1 DEF ProposalsInv, PrimaryOf, DuplicatesOf
    <2>2. CASE p \in (Len(proposals) + 1)..Len(proposals')
        BY <2>2 DEF Fresh
    <2> QED BY <1>2, <2>1, <2>2
<1>4. ProposalsInv'
    BY <1>3 DEF ProposalsInv, PrimaryOf, DuplicatesOf
<1>5. ProposalsMove
    BY <1>1 DEF ProposalsMove
<1> QED BY <1>3, <1>4, <1>5

LEMMA ProposeKeeps ==
    ASSUME ReflectionInv, NEW t \in Threads, Propose(t)
    PROVE  ReflectionInv'
<1> PICK k : k = call[t]
    OBVIOUS
<1> PICK m : m = MergeProposal(k.rows, Head(k.clusters))
    OBVIOUS
<1>1. k.pc = "propose" /\ ~At(t, "tombstone") /\ UNCHANGED <<storeVars, late, recent>>
      /\ proposals' = Append(proposals, m)
      /\ index' \in [Ids -> 0..MaxContent \cup {NoEntry}]
    BY DEF Propose, At, ReflectionInv, TablesInv
<1>2. k \in CallRecord /\ k.clusters # <<>> /\ k.deleted \subseteq Tombstoned
    BY <1>1 DEF ReflectionInv, CallsInv, CallTyped, MergeInv, At
<1>3. k.rows \in Rows /\ Head(k.clusters) \in Cluster /\ Tail(k.clusters) \in Seq(Cluster)
    <2>1. k.rows \in Rows /\ k.clusters \in Seq(Cluster)
        BY <1>2 DEF CallRecord, Rows, Cluster
    <2> QED BY <1>2, <2>1, HeadAndTail
<1>4. m \in Proposal /\ Fresh(m)
    BY <1>3, MergeProposalTyped DEF Fresh
<1>5. /\ proposals \in Seq(Proposal) /\ Len(proposals) \in Nat
      /\ proposals' \in Seq(Proposal) /\ Len(proposals') = Len(proposals) + 1
      /\ \A p \in 1..Len(proposals) : proposals'[p] = proposals[p]
      /\ proposals'[Len(proposals) + 1] = m
    <2>1. proposals \in Seq(Proposal)
        BY DEF ReflectionInv, ProposalsInv
    <2> QED BY <1>1, <1>4, <2>1, AppendProperties, LenProperties
<1>6. /\ ProposalsInv' /\ ProposalsMove
      /\ \A p \in DOMAIN proposals' :
            \/ p \in DOMAIN proposals /\ proposals[p].state = "applied"
            \/ proposals'[p].state # "applied"
    <2>1. Len(proposals) <= Len(proposals')
        BY <1>5
    <2>2. ASSUME NEW p \in (Len(proposals) + 1)..Len(proposals') PROVE Fresh(proposals'[p])
        <3>1. p = Len(proposals) + 1
            BY <1>5
        <3> QED BY <1>4, <1>5, <3>1
    <2> QED BY <1>5, <2>1, <2>2, ProposalsAdded DEF ReflectionInv
<1>7. CASE m.auto
    <2> PICK n : n = Len(proposals) + 1 /\ n \in Nat /\ n \in 0..Len(proposals') /\ n # 0
        BY <1>5
    <2> PICK c : c = [k EXCEPT !.pc = "load", !.clusters = Tail(@), !.proposal = n]
        OBVIOUS
    <2>1. c \in CallRecord /\ c.pc = "load" /\ c.proposal = n /\ c.deleted = k.deleted
        <3>1. Tail(k.clusters) \in Seq(Seq(Ids) \ {<<>>})
            BY <1>3 DEF Cluster
        <3> QED BY <1>2, <3>1 DEF CallRecord, CallPcs
    <2>2. CallMoves(t, c)
        <3>1. Become(t, c)
            BY <1>7 DEF Propose
        <3> QED BY <2>1, <3>1, BecomeMoves DEF ReflectionInv
    <2>3. MergeInv(t)' /\ DeleteInv(t)'
        <3>1. Tombstoned' = Tombstoned
            BY <1>1 DEF Tombstoned, IsTombstoned, storeVars
        <3>2. call'[t].pc = "load" /\ call'[t].deleted \subseteq Tombstoned'
            BY <1>2, <2>1, <2>2, <3>1 DEF CallMoves
        <3> QED BY <3>2, ElsewhereKeeps
    <2>4. CallTyped(t)'
        BY <2>1, <2>2 DEF CallMoves, CallTyped, At, MergePcs
    <2> QED BY <1>1, <1>6, <2>2, <2>3, <2>4, OffStoreStep
<1>8. CASE ~m.auto
    <2>1. Continue(t, Tail(k.clusters))
        BY <1>8 DEF Propose
    <2>2. PICK c \in CallRecord : CallMoves(t, c) /\ Rests(c)
        BY <1>3, <2>1, ContinueMoves DEF ReflectionInv
    <2> QED BY <1>1, <1>5, <1>6, <2>2, RestKeeps, OffStoreStep
<1> QED BY <1>7, <1>8

LEMMA FlagConflictsKeeps ==
    ASSUME ReflectionInv, NEW t \in Threads, FlagConflicts(t)
    PROVE  ReflectionInv'
<1> PICK pairs : pairs = Flagged(t)
    OBVIOUS
<1> PICK k : k = call[t]
    OBVIOUS
<1>1. /\ k.pc = "flag" /\ ~At(t, "tombstone") /\ UNCHANGED <<storeVars, late, recent>>
      /\ index' \in [Ids -> 0..MaxContent \cup {NoEntry}] /\ Become(t, IdleCall)
    BY DEF FlagConflicts, At, ReflectionInv, TablesInv
<1>2. \A p \in pairs : p \in SUBSET Ids /\ p # {}
    <2>1. k.order \in Seq(Ids)
        BY DEF ReflectionInv, CallsInv, CallRecord
    <2>2. Range(k.order) \subseteq Ids
        BY <2>1, LenProperties, ElementOfSeq DEF Range
    <2>3. ASSUME NEW p \in pairs PROVE p \in SUBSET Ids /\ p # {}
        <3>1. PICK e \in Range(k.order) \X Ids : p = {e[1], e[2]}
            BY DEF Flagged
        <3>2. e[1] \in Ids /\ e[2] \in Ids
            BY <2>2
        <3> QED BY <3>1, <3>2
    <2> QED BY <2>3
<1>3. IsFiniteSet(pairs)
    <2>1. IsFiniteSet(SUBSET Ids)
        BY ReflectionAssumption, FS_SUBSET
    <2>2. pairs \in SUBSET (SUBSET Ids)
        BY <1>2
    <2> QED BY <2>1, <2>2, FS_Subset
<1> DEFINE n == Cardinality(pairs)
           flag(i) == [kind |-> "clarify_conflict", records |-> SetToSeq(SetToSeq(pairs)[i]),
                       auto |-> FALSE, state |-> "user_review_required"]
           q == [i \in 1..n |-> flag(i)]
<1>4. n \in Nat /\ proposals' = proposals \o q
    BY <1>3, FS_CardinalityType DEF FlagConflicts
<1>5. ASSUME NEW i \in 1..n
      PROVE  flag(i) \in Proposal /\ Fresh(flag(i))
    <2>1. SetToSeq(pairs) \in Seq(pairs) /\ Len(SetToSeq(pairs)) = n
        BY <1>3, ListedOnce
    <2>2. SetToSeq(pairs)[i] \in pairs
        BY <2>1, ElementOfSeq
    <2> PICK p : p = SetToSeq(pairs)[i]
        OBVIOUS
    <2>3. p \in SUBSET Ids /\ p # {}
        BY <1>2, <2>2
    <2>4. IsFiniteSet(p)
        BY <2>3, ReflectionAssumption, FS_Subset
    <2> PICK s : s = SetToSeq(p)
        OBVIOUS
    <2>5. s \in Seq(Ids) /\ s # <<>>
        BY <2>3, <2>4, ListedOnce, SeqOfSubset
    <2>6. flag(i) = [kind |-> "clarify_conflict", records |-> s, auto |-> FALSE,
                     state |-> "user_review_required"]
        OBVIOUS
    <2>7. [kind |-> "clarify_conflict", records |-> s, auto |-> FALSE,
           state |-> "user_review_required"] \in Proposal
        BY <2>5 DEF Proposal, ProposalStates
    <2>8. Fresh([kind |-> "clarify_conflict", records |-> s, auto |-> FALSE,
                 state |-> "user_review_required"])
        BY <2>5 DEF Fresh
    <2> HIDE DEF flag
    <2> QED BY <2>6, <2>7, <2>8
<1> HIDE DEF flag, n
<1>6. q \in Seq(Proposal) /\ Len(q) = n /\ \A i \in 1..n : q[i] = flag(i)
    <2>1. q \in [1..n -> Proposal]
        BY <1>5
    <2>2. q \in Seq(Proposal)
        BY <1>4, <2>1, SeqDef
    <2> QED BY <1>4, <2>1, <2>2, LenProperties
<1> HIDE DEF q
<1>7. /\ proposals \in Seq(Proposal) /\ Len(proposals) \in Nat
      /\ proposals' \in Seq(Proposal) /\ Len(proposals') = Len(proposals) + n
      /\ \A i \in 1..(Len(proposals) + n) :
            proposals'[i] = IF i <= Len(proposals) THEN proposals[i] ELSE q[i - Len(proposals)]
    <2>1. proposals \in Seq(Proposal)
        BY DEF ReflectionInv, ProposalsInv
    <2> QED BY <1>4, <1>6, <2>1, ConcatProperties, LenProperties
<1>8. /\ ProposalsInv' /\ ProposalsMove
      /\ \A p \in DOMAIN proposals' :
            \/ p \in DOMAIN proposals /\ proposals[p].state = "applied"
            \/ proposals'[p].state # "applied"
    <2>1. Len(proposals) <= Len(proposals')
        BY <1>4, <1>7
    <2>2. ASSUME NEW p \in (Len(proposals) + 1)..Len(proposals') PROVE Fresh(proposals'[p])
        <3>1. p - Len(proposals) \in 1..n /\ p \in 1..(Len(proposals) + n)
              /\ ~(p <= Len(proposals))
            BY <1>4, <1>7
        <3>2. proposals'[p] = flag(p - Len(proposals))
            BY <1>6, <1>7, <3>1
        <3> QED BY <1>5, <3>1, <3>2
    <2>3. ASSUME NEW p \in 1..Len(proposals) PROVE proposals'[p] = proposals[p]
        <3>1. p \in 1..(Len(proposals) + n) /\ p <= Len(proposals)
            BY <1>4, <1>7
        <3> QED BY <1>7, <3>1
    <2> QED BY <1>7, <2>1, <2>2, <2>3, ProposalsAdded DEF ReflectionInv
<1>9. CallMoves(t, IdleCall)
    BY <1>1, IdleRests, BecomeMoves DEF ReflectionInv
<1> QED BY <1>1, <1>7, <1>8, <1>9, IdleRests, RestKeeps, OffStoreStep

-----------------------------------------------------------------------------
(* The steps that write the store                                          *)

(* A step that neither decides a proposal nor tombstones a record.         *)
LEMMA OnStoreStep ==
    ASSUME ReflectionInv, NEW t \in Threads, NEW c, CallMoves(t, c), ~At(t, "tombstone"),
           UNCHANGED <<tombstones, proposals>>, TablesInv', StoreMoves,
           CallTyped(t)', MergeInv(t)', DeleteInv(t)'
    PROVE  ReflectionInv'
<1>1. ProposalsInv' /\ ProposalsMove
    BY ProposalsKeep DEF ReflectionInv
<1>2. CascadeInv'
    <2>1. \A u \in Threads : At(u, "tombstone") => call'[u] = call[u]
        BY DEF CallMoves, At
    <2>2. \A r \in Ids : IsTombstoned(r)' => IsTombstoned(r)
        BY DEF IsTombstoned
    <2> QED BY <2>1, <2>2, CascadeKeeps DEF ReflectionInv
<1>3. AppliedMeansMerged'
    <2>1. \A p \in DOMAIN proposals' :
            \/ p \in DOMAIN proposals /\ proposals[p].state = "applied"
            \/ proposals'[p].state # "applied"
        OBVIOUS
    <2> QED BY <1>1, <2>1, AppliedKeeps DEF ReflectionInv
<1> QED BY <1>1, <1>2, <1>3, InvariantFrom

LEMMA EdgesKeep ==
    ASSUME UNCHANGED <<tombstones, dependencies, late>>
    PROVE  StoreMoves
BY DEF StoreMoves, IsTombstoned

LEMMA TouchedRecent ==
    ASSUME TablesInv, NEW r \in Ids, \A s \in Ids : Exists(s)' <=> Exists(s),
           recent' = Touched(r)
    PROVE  /\ recent' \in Seq(Ids) /\ Distinct(recent')
           /\ Range(recent') = {s \in Ids : Exists(s)'}
<1>1. /\ recent \in Seq(Ids) /\ Distinct(recent) /\ Range(recent) = {s \in Ids : Exists(s)}
    BY DEF TablesInv
<1>2. {s \in Ids : Exists(s)'} = Range(recent)
    BY <1>1
<1> PICK q : q = Touched(r)
    OBVIOUS
<1>3. q \in Seq(Ids) /\ Distinct(q) /\ Range(q) = Range(recent)
    <2>1. CASE Exists(r)
        <3>1. q = <<r>> \o Only(recent, Ids \ {r})
            BY <2>1 DEF Touched
        <3>2. Range(recent) \cup {r} = Range(recent)
            BY <1>1, <2>1
        <3> QED BY <1>1, <3>1, <3>2, RecentMoves
    <2>2. CASE ~Exists(r)
        BY <1>1, <2>2 DEF Touched
    <2> QED BY <2>1, <2>2
<1> QED BY <1>2, <1>3

(* set_status: the row keeps its place in the table and is touched.        *)
LEMMA StatusSet ==
    ASSUME TablesInv, NEW r \in Ids, NEW s \in Statuses, SetStatus(r, s),
           recent' = Touched(r), UNCHANGED <<index, late>>
    PROVE  TablesInv' /\ StoreMoves /\ UNCHANGED tombstones
<1>1. /\ StoreTypeOK' /\ \A x \in Ids : Exists(x)' <=> Exists(x)
      /\ tombstones' = tombstones /\ dependencies' = dependencies
    BY SetStatusTyped DEF TablesInv, SetStatus
<1>2. /\ recent' \in Seq(Ids) /\ Distinct(recent')
      /\ Range(recent') = {x \in Ids : Exists(x)'}
    BY <1>1, TouchedRecent
<1>3. TablesInv'
    BY <1>1, <1>2 DEF TablesInv, Distinct
<1> QED BY <1>1, <1>3, EdgesKeep

LEMMA PatchStatusKeeps ==
    ASSUME ReflectionInv, NEW t \in Threads, PatchStatus(t)
    PROVE  ReflectionInv'
<1>1. CallMoves(t, IdleCall) /\ Rests(IdleCall) /\ ~At(t, "tombstone")
    BY IdleRests, BeginMoves DEF PatchStatus, ReflectionInv, Idle, At
<1>2. PICK r \in Range(recent), s \in PatchStatuses : SetStatus(r, s) /\ recent' = Touched(r)
    BY DEF PatchStatus
<1>3. r \in Ids /\ s \in Statuses /\ UNCHANGED <<index, late>> /\ UNCHANGED proposals
    BY ReflectionAssumption DEF ReflectionInv, TablesInv, PatchStatus
<1>4. TablesInv' /\ StoreMoves /\ UNCHANGED tombstones
    BY <1>2, <1>3, StatusSet DEF ReflectionInv
<1>5. proposals' \in Seq(Proposal)
    BY <1>3 DEF ReflectionInv, ProposalsInv
<1> QED BY <1>1, <1>3, <1>4, <1>5, RestKeeps, OnStoreStep

LEMMA MarkDuplicateKeeps ==
    ASSUME ReflectionInv, NEW t \in Threads, MarkDuplicate(t)
    PROVE  ReflectionInv'
<1> PICK k : k = call[t]
    OBVIOUS
<1> PICK p : p = k.proposal
    OBVIOUS
<1> PICK d : d = Head(k.todo)
    OBVIOUS
<1>1. /\ k.pc = "status" /\ k.pc \in MergePcs /\ ~At(t, "tombstone")
      /\ SetStatus(d, "superseded") /\ recent' = Touched(d)
      /\ UNCHANGED <<index, late>> /\ UNCHANGED proposals
    BY DEF MarkDuplicate, At, MergePcs, Duplicate
<1>2. /\ k \in CallRecord /\ p \in DOMAIN proposals /\ p \in 1..Len(proposals)
      /\ k.deleted \subseteq Tombstoned /\ k.todo # <<>>
    BY <1>1, InMerge DEF ReflectionInv, CallsInv, CallTyped
<1>3. /\ proposals[p].kind = "merge" /\ Range(k.todo) \subseteq DuplicatesOf(p)
      /\ \A x \in DuplicatesOf(p) : x \in Range(k.todo) \/ Handled(p, x)
    BY <1>1 DEF ReflectionInv, CallsInv, MergeInv
<1>4. d \in Ids /\ "superseded" \in Statuses
    BY <1>2, HeadAndTail DEF CallRecord, Statuses
<1>5. TablesInv' /\ StoreMoves /\ tombstones' = tombstones /\ dependencies' = dependencies
    BY <1>1, <1>4, StatusSet DEF ReflectionInv, SetStatus
<1>6. /\ Tombstoned' = Tombstoned /\ \A x : Handled(p, x)' = Handled(p, x)
      /\ proposals' = proposals /\ proposals' \in Seq(Proposal)
    BY <1>1, <1>5 DEF Tombstoned, Handled, PrimaryOf, IsTombstoned, ReflectionInv, ProposalsInv
<1> PICK c : c = [k EXCEPT !.pc = "link"]
    OBVIOUS
<1>7. /\ c \in CallRecord /\ c.pc = "link" /\ c.proposal = p /\ c.todo = k.todo
      /\ c.deleted = k.deleted
    BY <1>2 DEF CallRecord, CallPcs
<1>8. CallMoves(t, c)
    <2>1. Become(t, c)
        BY DEF MarkDuplicate
    <2> QED BY <1>7, <2>1, BecomeMoves DEF ReflectionInv
<1>9. CallTyped(t)' /\ MergeInv(t)' /\ DeleteInv(t)'
    <2>1. c.pc \in MergePcs
        BY <1>7 DEF MergePcs
    <2> QED BY <1>2, <1>3, <1>6, <1>7, <1>8, <2>1, MergeKeeps DEF DuplicatesOf
<1> QED BY <1>1, <1>5, <1>8, <1>9, OnStoreStep

(* add_dependency: the edge is late, or joins two live records beside no   *)
(* deletion.                                                               *)
LEMMA EdgeAdded ==
    ASSUME TablesInv, NEW p \in Ids, NEW c \in Ids, NEW rel \in Relations, AddEdge(p, c, rel),
           UNCHANGED <<index, recent>>
    PROVE  /\ TablesInv' /\ StoreMoves /\ UNCHANGED tombstones
           /\ <<p, c, rel>> \in dependencies' /\ dependencies \subseteq dependencies'
<1> PICK e : e = <<p, c, rel>>
    OBVIOUS
<1>1. e \in Ids \X Ids \X Relations /\ e[1] = p /\ e[2] = c
    OBVIOUS
<1>2. /\ StoreTypeOK' /\ records' = records /\ tombstones' = tombstones
      /\ dependencies' = dependencies \cup {e}
    BY AddDependencyTyped DEF AddEdge, TablesInv
<1>3. late \subseteq late' /\ late' \subseteq late \cup {e}
    BY DEF AddEdge
<1>4. TablesInv'
    BY <1>1, <1>2, <1>3 DEF TablesInv, Exists, Distinct
<1>5. e \notin late' => ~Deleting /\ ~IsTombstoned(e[1])' /\ ~IsTombstoned(e[2])'
    BY <1>1, <1>2 DEF AddEdge, IsTombstoned
<1>6. \A x \in dependencies' \ late' :
        x \in dependencies \ late \/ (~Deleting /\ ~IsTombstoned(x[1])' /\ ~IsTombstoned(x[2])')
    BY <1>2, <1>3, <1>5
<1>7. StoreMoves
    BY <1>2, <1>6 DEF StoreMoves, IsTombstoned
<1> QED BY <1>2, <1>4, <1>7

LEMMA LinkSourceKeeps ==
    ASSUME ReflectionInv, NEW t \in Threads, LinkSource(t)
    PROVE  ReflectionInv'
<1>1. CallMoves(t, IdleCall) /\ Rests(IdleCall) /\ ~At(t, "tombstone")
    BY IdleRests, BeginMoves DEF LinkSource, ReflectionInv, Idle, At
<1>2. PICK e \in Links : AddEdge(e[1], e[2], "derived_from")
    BY DEF LinkSource
<1>3. e[1] \in Ids /\ e[2] \in Ids /\ "derived_from" \in Relations
    BY ReflectionAssumption DEF Relations
<1>4. UNCHANGED <<index, recent>> /\ UNCHANGED proposals /\ proposals' \in Seq(Proposal)
    BY DEF ReflectionInv, ProposalsInv, LinkSource
<1>5. TablesInv' /\ StoreMoves /\ UNCHANGED tombstones
    BY <1>2, <1>3, <1>4, EdgeAdded DEF ReflectionInv
<1> QED BY <1>1, <1>4, <1>5, RestKeeps, OnStoreStep

LEMMA LinkDuplicateKeeps ==
    ASSUME ReflectionInv, NEW t \in Threads, LinkDuplicate(t)
    PROVE  ReflectionInv'
<1> PICK k : k = call[t]
    OBVIOUS
<1> PICK p : p = k.proposal
    OBVIOUS
<1> PICK d : d = Head(k.todo)
    OBVIOUS
<1>1. /\ k.pc = "link" /\ k.pc \in MergePcs /\ ~At(t, "tombstone")
      /\ AddEdge(PrimaryOf(p), d, "supersedes")
      /\ UNCHANGED <<index, recent>> /\ UNCHANGED proposals
    BY DEF LinkDuplicate, At, MergePcs, Duplicate
<1>2. /\ k \in CallRecord /\ p \in DOMAIN proposals /\ p \in 1..Len(proposals)
      /\ k.deleted \subseteq Tombstoned /\ k.todo # <<>> /\ k.todo \in Seq(Ids)
    BY <1>1, InMerge DEF ReflectionInv, CallsInv, CallTyped, CallRecord
<1>3. /\ proposals[p].kind = "merge" /\ Range(k.todo) \subseteq DuplicatesOf(p)
      /\ \A x \in DuplicatesOf(p) : x \in Range(k.todo) \/ Handled(p, x)
    BY <1>1 DEF ReflectionInv, CallsInv, MergeInv
<1>4. /\ d \in Ids /\ Tail(k.todo) \in Seq(Ids)
      /\ Range(k.todo) = {d} \cup Range(Tail(k.todo))
    BY <1>2, HeadAndTail
<1>5. /\ TablesInv' /\ StoreMoves /\ tombstones' = tombstones
      /\ <<PrimaryOf(p), d, "supersedes">> \in dependencies'
      /\ dependencies \subseteq dependencies'
    <2>1. PrimaryOf(p) \in Ids /\ "supersedes" \in Relations
        BY <1>2, ProposalTyped DEF ReflectionInv, Relations
    <2> QED BY <1>1, <1>4, <2>1, EdgeAdded DEF ReflectionInv
<1>6. /\ Tombstoned' = Tombstoned /\ \A x : Handled(p, x) => Handled(p, x)'
      /\ Handled(p, d)' /\ proposals' = proposals /\ proposals' \in Seq(Proposal)
    BY <1>1, <1>5 DEF Tombstoned, Handled, PrimaryOf, IsTombstoned, ReflectionInv, ProposalsInv
<1> PICK c : c = [k EXCEPT !.pc = "guard", !.todo = Tail(@), !.done = @ \cup {d}]
    OBVIOUS
<1>7. /\ c \in CallRecord /\ c.pc = "guard" /\ c.proposal = p /\ c.todo = Tail(k.todo)
      /\ c.deleted = k.deleted
    BY <1>2, <1>4 DEF CallRecord, CallPcs
<1>8. CallMoves(t, c)
    <2>1. Become(t, c)
        BY DEF LinkDuplicate, Duplicate
    <2> QED BY <1>7, <2>1, BecomeMoves DEF ReflectionInv
<1>9. CallTyped(t)' /\ MergeInv(t)' /\ DeleteInv(t)'
    <2>1. c.pc \in MergePcs
        BY <1>7 DEF MergePcs
    <2>2. Range(c.todo) \subseteq DuplicatesOf(p)
        BY <1>3, <1>4, <1>7
    <2>3. \A x \in DuplicatesOf(p) : x \in Range(c.todo) \/ Handled(p, x)'
        BY <1>3, <1>4, <1>6, <1>7
    <2> QED BY <1>2, <1>3, <1>6, <1>7, <1>8, <2>1, <2>2, <2>3, MergeKeeps DEF DuplicatesOf
<1> QED BY <1>1, <1>5, <1>8, <1>9, OnStoreStep

(* A write: the row is there, first by updated_at, under a tombstone or not. *)
LEMMA ContentStored ==
    ASSUME TablesInv, NEW r \in Ids, NEW s \in Statuses, NEW x \in 0..MaxContent,
           StoreContent(r, s, x)
    PROVE  /\ TablesInv' /\ StoreMoves /\ UNCHANGED tombstones /\ UNCHANGED proposals
<1>1. /\ StoreTypeOK' /\ tombstones' = tombstones /\ dependencies' = dependencies
      /\ late' = late /\ proposals' = proposals
      /\ Exists(r)' /\ \A y \in Ids \ {r} : Exists(y)' <=> Exists(y)
    BY WriteTyped DEF StoreContent, Write, TablesInv, Exists
<1>2. /\ recent \in Seq(Ids) /\ Distinct(recent) /\ Range(recent) = {y \in Ids : Exists(y)}
      /\ late \subseteq Ids \X Ids \X Relations
    BY DEF TablesInv
<1> PICK q : q = <<r>> \o Only(recent, Ids \ {r})
    OBVIOUS
<1>3. q \in Seq(Ids) /\ Distinct(q) /\ Range(q) = Range(recent) \cup {r}
    BY <1>2, RecentMoves
<1>4. Range(q) = {y \in Ids : Exists(y)'}
    BY <1>1, <1>2, <1>3
<1>5. index' \in [Ids -> 0..MaxContent \cup {NoEntry}]
    BY DEF StoreContent, TablesInv
<1>6. recent' = q
    BY DEF StoreContent
<1>7. TablesInv'
    BY <1>1, <1>2, <1>3, <1>4, <1>5, <1>6 DEF TablesInv, Distinct
<1> QED BY <1>1, <1>7, EdgesKeep

LEMMA UpdateContentKeeps ==
    ASSUME ReflectionInv, NEW t \in Threads, UpdateContent(t)
    PROVE  ReflectionInv'
<1>1. CallMoves(t, IdleCall) /\ Rests(IdleCall) /\ ~At(t, "tombstone")
    BY IdleRests, BeginMoves DEF UpdateContent, ReflectionInv, Idle, At
<1>2. PICK r \in Range(recent), x \in 0..MaxContent : StoreContent(r, records[r].status, x)
    BY DEF UpdateContent
<1>3. r \in Ids /\ records[r].status \in Statuses
    <2>1. r \in Ids /\ Exists(r) /\ records[r] \in Record \cup {Absent}
        BY DEF ReflectionInv, TablesInv, StoreTypeOK
    <2> QED BY <2>1 DEF Exists, Record
<1>4. TablesInv' /\ StoreMoves /\ UNCHANGED tombstones /\ UNCHANGED proposals
    BY <1>2, <1>3, ContentStored DEF ReflectionInv
<1>5. proposals' \in Seq(Proposal)
    BY <1>4 DEF ReflectionInv, ProposalsInv
<1> QED BY <1>1, <1>4, <1>5, RestKeeps, OnStoreStep

LEMMA WriteNewKeeps ==
    ASSUME ReflectionInv, NEW t \in Threads, WriteNew(t)
    PROVE  ReflectionInv'
<1>1. CallMoves(t, IdleCall) /\ Rests(IdleCall) /\ ~At(t, "tombstone")
    BY IdleRests, BeginMoves DEF WriteNew, ReflectionInv, Idle, At
<1>2. PICK r \in Ids, x \in 0..MaxContent : StoreContent(r, "active", x)
    BY DEF WriteNew
<1>3. "active" \in Statuses
    BY DEF Statuses
<1>4. TablesInv' /\ StoreMoves /\ UNCHANGED tombstones /\ UNCHANGED proposals
    BY <1>2, <1>3, ContentStored DEF ReflectionInv
<1>5. proposals' \in Seq(Proposal)
    BY <1>4 DEF ReflectionInv, ProposalsInv
<1> QED BY <1>1, <1>4, <1>5, RestKeeps, OnStoreStep

-----------------------------------------------------------------------------
(* The steps of a deletion                                                 *)

(* What a thread that stays in its deletion must show.                     *)
LEMMA DeletionKeeps ==
    ASSUME NEW t, NEW c, CallMoves(t, c), proposals' \in Seq(Proposal),
           c.pc \in {"tombstone", "remove", "erase"}, c.proposal \in 0..Len(proposals'),
           c.deleted \subseteq Tombstoned',
           c.pc \in {"tombstone", "erase"} => c.todo # <<>>,
           c.pc = "remove" => c.done # {},
           c.pc = "tombstone" =>
                \A e \in dependencies' \ late' :
                    e[1] \in Range(c.todo) \cup c.done <=> e[2] \in Range(c.todo) \cup c.done,
           c.pc \in {"tombstone", "remove"} => c.done \subseteq Tombstoned',
           c.pc = "erase" => Range(c.todo) \subseteq Tombstoned'
    PROVE  CallTyped(t)' /\ MergeInv(t)' /\ DeleteInv(t)'
<1>1. call'[t] = c
    BY DEF CallMoves
<1>2. CallTyped(t)'
    BY <1>1 DEF CallTyped, At, MergePcs
<1>3. MergeInv(t)'
    BY <1>1 DEF MergeInv, At, MergePcs
<1>4. DeleteInv(t)'
    BY <1>1 DEF DeleteInv, At, Scope
<1> QED BY <1>2, <1>3, <1>4

LEMMA BeginDeleteKeeps ==
    ASSUME ReflectionInv, NEW t \in Threads, BeginDelete(t)
    PROVE  ReflectionInv'
<1>1. PICK r \in Range(recent), m \in DeletionModes :
        Begin(t, "delete", [IdleCall EXCEPT !.pc = "tombstone", !.mode = m,
                                            !.todo = SetToSeq({r} \cup DependencyGraph(r))])
    BY DEF BeginDelete
<1> PICK S : S = {r} \cup DependencyGraph(r)
    OBVIOUS
<1> PICK q : q = SetToSeq(S)
    OBVIOUS
<1> PICK c : c = [IdleCall EXCEPT !.pc = "tombstone", !.mode = m, !.todo = q]
    OBVIOUS
<1>2. r \in Ids /\ m \in Modes
    BY ReflectionAssumption DEF ReflectionInv, TablesInv
<1>3. S \subseteq Ids /\ \A e \in dependencies : e[1] \in S <=> e[2] \in S
    BY <1>2, GraphClosed DEF ReflectionInv, TablesInv
<1>4. q \in Seq(Ids) /\ Range(q) = S /\ q # <<>>
    <2>1. IsFiniteSet(S)
        BY <1>3, ReflectionAssumption, FS_Subset
    <2> QED BY <1>3, <2>1, ListedOnce, SeqOfSubset
<1>5. /\ c \in CallRecord /\ c.pc = "tombstone" /\ c.proposal = 0 /\ c.deleted = {}
      /\ c.todo = q /\ c.done = {}
    <2>1. c \in CallRecord
        BY <1>2, <1>4, IdleCallTyped DEF CallRecord, CallPcs
    <2> QED BY <2>1 DEF IdleCall
<1>6. CallMoves(t, c) /\ ~At(t, "tombstone")
    BY <1>1, <1>5, BeginMoves DEF ReflectionInv, Idle, At
<1>7. UNCHANGED <<storeVars, late, index, recent, proposals>>
    BY DEF BeginDelete
<1>8. CallTyped(t)' /\ MergeInv(t)' /\ DeleteInv(t)'
    <2>1. proposals' \in Seq(Proposal) /\ dependencies' = dependencies
        BY <1>7 DEF storeVars, ReflectionInv, ProposalsInv
    <2>2. Range(c.todo) \cup c.done = S
        BY <1>4, <1>5
    <2>3. \A e \in dependencies' \ late' :
            e[1] \in Range(c.todo) \cup c.done <=> e[2] \in Range(c.todo) \cup c.done
        BY <1>3, <2>1, <2>2
    <2>4. 0 \in 0..Len(proposals')
        BY <2>1, LenProperties
    <2> QED BY <1>4, <1>5, <1>6, <2>1, <2>3, <2>4, DeletionKeeps
<1> QED BY <1>6, <1>7, <1>8, QuietStep

(* What a thread in a deletion knows.                                      *)
LEMMA InDeletion ==
    ASSUME ReflectionInv, NEW t \in Threads, call[t].pc \in {"tombstone", "remove", "erase"}
    PROVE  /\ call[t] \in CallRecord /\ call[t].proposal \in 0..Len(proposals)
           /\ call[t].deleted \subseteq Tombstoned
           /\ call[t].pc \in {"tombstone", "erase"} =>
                /\ call[t].todo # <<>> /\ Head(call[t].todo) \in Ids
                /\ Tail(call[t].todo) \in Seq(Ids)
                /\ Range(call[t].todo) = {Head(call[t].todo)} \cup Range(Tail(call[t].todo))
           /\ call[t].pc = "remove" => call[t].done # {}
           /\ call[t].pc \in {"tombstone", "remove"} => call[t].done \subseteq Tombstoned
           /\ call[t].pc = "erase" => Range(call[t].todo) \subseteq Tombstoned
<1>1. call[t] \in CallRecord /\ CallTyped(t) /\ MergeInv(t) /\ DeleteInv(t)
    BY DEF ReflectionInv, CallsInv
<1>2. call[t].todo \in Seq(Ids)
    BY <1>1 DEF CallRecord
<1>3. call[t].pc \in {"tombstone", "erase"} => call[t].todo # <<>>
    BY <1>1 DEF CallTyped
<1>4. call[t].pc \in {"tombstone", "erase"} =>
        /\ Head(call[t].todo) \in Ids /\ Tail(call[t].todo) \in Seq(Ids)
        /\ Range(call[t].todo) = {Head(call[t].todo)} \cup Range(Tail(call[t].todo))
    BY <1>2, <1>3, HeadAndTail
<1> QED BY <1>1, <1>3, <1>4 DEF CallTyped, MergeInv, DeleteInv, At

LEMMA TombstoneOneKeeps ==
    ASSUME ReflectionInv, NEW t \in Threads, TombstoneOne(t)
    PROVE  ReflectionInv'
<1> PICK k : k = call[t]
    OBVIOUS
<1> PICK x : x = Head(k.todo)
    OBVIOUS
<1> PICK rest : rest = Tail(k.todo)
    OBVIOUS
<1>1. /\ k.pc = "tombstone" /\ At(t, "tombstone") /\ Tombstone(x, k.mode, t)
      /\ recent' = Touched(x) /\ Become(t, Turned(k)) /\ UNCHANGED <<index, proposals, late>>
    BY DEF TombstoneOne, At
<1>2. /\ k \in CallRecord /\ k.proposal \in 0..Len(proposals) /\ k.deleted \subseteq Tombstoned
      /\ k.todo # <<>> /\ x \in Ids /\ rest \in Seq(Ids)
      /\ Range(k.todo) = {x} \cup Range(rest) /\ k.done \subseteq Tombstoned
    BY <1>1, InDeletion
<1>3. \A e \in dependencies \ late : e[1] \in Scope(t) <=> e[2] \in Scope(t)
    BY <1>1 DEF ReflectionInv, CallsInv, DeleteInv
<1>4. /\ StoreTypeOK' /\ IsTombstoned(x)' /\ \A r \in Ids \ {x} : tombstones'[r] = tombstones[r]
      /\ \A r \in Ids : Exists(r)' <=> Exists(r)
      /\ dependencies' = dependencies
    <2>1. t \in Jobs /\ k.mode \in Modes /\ StoreTypeOK
        BY <1>2, ReflectionAssumption DEF CallRecord, ReflectionInv, TablesInv
    <2> QED BY <1>1, <1>2, <2>1, TombstoneTyped DEF Tombstone
<1>5. /\ recent' \in Seq(Ids) /\ Distinct(recent')
      /\ Range(recent') = {r \in Ids : Exists(r)'}
    BY <1>1, <1>2, <1>4, TouchedRecent DEF ReflectionInv
<1>6. TablesInv'
    BY <1>1, <1>4, <1>5 DEF ReflectionInv, TablesInv, Distinct
<1>7. \A r \in Ids : IsTombstoned(r)' <=> IsTombstoned(r) \/ r = x
    BY <1>4 DEF IsTombstoned
<1>8. StoreMoves
    BY <1>1, <1>4, <1>7 DEF StoreMoves
<1>9. Tombstoned' = Tombstoned \cup {x}
    BY <1>2, <1>7 DEF Tombstoned
<1> PICK c : c = Turned(k)
    OBVIOUS
<1>10. /\ c \in CallRecord /\ c.proposal = k.proposal /\ c.deleted = k.deleted
       /\ c.todo = rest /\ c.done = k.done \cup {x}
       /\ c.pc = IF rest = <<>> THEN "remove" ELSE "tombstone"
    <2> PICK pc : pc = IF rest = <<>> THEN "remove" ELSE "tombstone"
        OBVIOUS
    <2> PICK done : done = k.done \cup {x}
        OBVIOUS
    <2>1. pc \in CallPcs /\ done \in SUBSET Ids
        BY <1>2 DEF CallPcs, CallRecord
    <2>2. c = [k EXCEPT !.pc = pc, !.todo = rest, !.done = done]
        BY <1>1, <1>2 DEF Turned, CallRecord
    <2>3. /\ c \in CallRecord /\ c.proposal = k.proposal /\ c.deleted = k.deleted
          /\ c.todo = rest /\ c.done = done /\ c.pc = pc
        BY <1>2, <2>1, <2>2 DEF CallRecord
    <2> QED BY <2>3
<1>11. CallMoves(t, c)
    BY <1>1, <1>10, BecomeMoves DEF ReflectionInv
<1>12. ProposalsInv' /\ ProposalsMove /\ proposals' \in Seq(Proposal) /\ proposals' = proposals
    BY <1>1, ProposalsKeep DEF ReflectionInv, ProposalsInv
<1>13. CallTyped(t)' /\ MergeInv(t)' /\ DeleteInv(t)'
    <2>1. Range(c.todo) \cup c.done = Scope(t)
        BY <1>2, <1>10 DEF Scope
    <2>2. \A e \in dependencies' \ late' :
            e[1] \in Range(c.todo) \cup c.done <=> e[2] \in Range(c.todo) \cup c.done
        BY <1>1, <1>3, <1>4, <2>1
    <2>3. c.done \subseteq Tombstoned' /\ c.deleted \subseteq Tombstoned'
        BY <1>2, <1>9, <1>10
    <2> QED BY <1>2, <1>10, <1>11, <1>12, <2>2, <2>3, DeletionKeeps
<1>14. ASSUME NEW r \in Ids, IsTombstoned(r) \/ Pending(r) \/ r \in Scope(t)
       PROVE  IsTombstoned(r)' \/ Pending(r)'
    <2>1. CASE IsTombstoned(r) \/ r \in k.done \/ r = x
        BY <1>2, <1>7, <2>1 DEF Tombstoned
    <2>2. CASE r \in Range(rest)
        <3>1. rest # <<>>
            BY <2>2 DEF Range
        <3>2. call'[t].pc = "tombstone" /\ r \in Range(call'[t].todo)
            BY <1>10, <1>11, <2>2, <3>1 DEF CallMoves
        <3> QED BY <3>2 DEF Pending, At
    <2>3. CASE \E u \in Threads \ {t} : At(u, "tombstone") /\ r \in Range(call[u].todo)
        <3>1. PICK u \in Threads \ {t} : At(u, "tombstone") /\ r \in Range(call[u].todo)
            BY <2>3
        <3>2. call'[u] = call[u]
            BY <1>11 DEF CallMoves
        <3> QED BY <3>1, <3>2 DEF Pending, At
    <2>4. r \in Scope(t) => r \in k.done \/ r = x \/ r \in Range(rest)
        BY <1>2 DEF Scope
    <2>5. Pending(r) => \/ r \in Scope(t)
                        \/ \E u \in Threads \ {t} : At(u, "tombstone") /\ r \in Range(call[u].todo)
        BY DEF Pending, Scope
    <2> QED BY <1>14, <2>1, <2>2, <2>3, <2>4, <2>5
<1>15. CascadeInv'
    <2>1. ASSUME NEW e \in dependencies' \ late'
          PROVE  /\ IsTombstoned(e[1])' => IsTombstoned(e[2])' \/ Pending(e[2])'
                 /\ IsTombstoned(e[2])' => IsTombstoned(e[1])' \/ Pending(e[1])'
        <3>1. e \in dependencies \ late
            BY <1>1, <1>4
        <3>2. e[1] \in Ids /\ e[2] \in Ids
            BY <3>1 DEF ReflectionInv, TablesInv, StoreTypeOK
        <3>3. x \in Scope(t)
            BY <1>2 DEF Scope
        <3>4. /\ IsTombstoned(e[1]) => IsTombstoned(e[2]) \/ Pending(e[2])
              /\ IsTombstoned(e[2]) => IsTombstoned(e[1]) \/ Pending(e[1])
            BY <3>1 DEF ReflectionInv, CascadeInv
        <3>5. e[1] = x \/ e[2] = x => e[1] \in Scope(t) /\ e[2] \in Scope(t)
            BY <1>3, <3>1, <3>3
        <3> QED BY <1>7, <1>14, <3>2, <3>4, <3>5
    <2> QED BY <2>1 DEF CascadeInv
<1>16. AppliedMeansMerged'
    <2>1. \A p \in DOMAIN proposals' :
            \/ p \in DOMAIN proposals /\ proposals[p].state = "applied"
            \/ proposals'[p].state # "applied"
        BY <1>12
    <2> QED BY <1>8, <1>12, <2>1, AppliedKeeps DEF ReflectionInv
<1> QED BY <1>6, <1>8, <1>11, <1>12, <1>13, <1>15, <1>16, InvariantFrom

LEMMA RemoveDeletedKeeps ==
    ASSUME ReflectionInv, NEW t \in Threads, RemoveDeleted(t)
    PROVE  ReflectionInv'
<1> PICK k : k = call[t]
    OBVIOUS
<1>1. /\ k.pc = "remove" /\ ~At(t, "tombstone") /\ UNCHANGED <<storeVars, late, recent>>
      /\ UNCHANGED proposals
    BY DEF RemoveDeleted, At
<1>2. /\ k \in CallRecord /\ k.proposal \in 0..Len(proposals) /\ k.deleted \subseteq Tombstoned
      /\ k.done # {} /\ k.done \subseteq Tombstoned
    BY <1>1, InDeletion
<1>3. index' \in [Ids -> 0..MaxContent \cup {NoEntry}]
    BY DEF RemoveDeleted, Removed, ReflectionInv, TablesInv
<1>4. /\ ProposalsInv' /\ ProposalsMove /\ proposals' \in Seq(Proposal)
      /\ \A p \in DOMAIN proposals' :
            \/ p \in DOMAIN proposals /\ proposals[p].state = "applied"
            \/ proposals'[p].state # "applied"
    BY <1>1, ProposalsKeep DEF ReflectionInv, ProposalsInv
<1>5. CASE k.mode # "hard"
    <2>1. CallMoves(t, IdleCall)
        BY <1>5, IdleRests, BecomeMoves DEF RemoveDeleted, ReflectionInv
    <2>2. CallTyped(t)' /\ MergeInv(t)' /\ DeleteInv(t)'
        BY <1>4, <2>1, IdleRests, RestKeeps
    <2> QED BY <1>1, <1>3, <1>4, <2>1, <2>2, OffStoreStep
<1>6. CASE k.mode = "hard"
    <2> PICK q : q = SetToSeq(k.done)
        OBVIOUS
    <2>1. q \in Seq(Ids) /\ Range(q) = k.done /\ q # <<>>
        <3>1. k.done \subseteq Ids /\ IsFiniteSet(k.done)
            BY <1>2, ReflectionAssumption, FS_Subset DEF CallRecord
        <3> QED BY <1>2, <3>1, ListedOnce, SeqOfSubset
    <2> PICK c : c = [k EXCEPT !.pc = "erase", !.todo = q]
        OBVIOUS
    <2>2. /\ c \in CallRecord /\ c.pc = "erase" /\ c.todo = q /\ c.proposal = k.proposal
          /\ c.deleted = k.deleted
        BY <1>2, <2>1 DEF CallRecord, CallPcs
    <2>3. CallMoves(t, c)
        <3>1. Become(t, c)
            BY <1>6 DEF RemoveDeleted
        <3> QED BY <2>2, <3>1, BecomeMoves DEF ReflectionInv
    <2>4. CallTyped(t)' /\ MergeInv(t)' /\ DeleteInv(t)'
        <3>1. Tombstoned' = Tombstoned /\ proposals' = proposals
            BY <1>1 DEF Tombstoned, IsTombstoned, storeVars
        <3> QED BY <1>2, <1>4, <2>1, <2>2, <2>3, <3>1, DeletionKeeps
    <2> QED BY <1>1, <1>3, <1>4, <2>3, <2>4, OffStoreStep
<1> QED BY <1>5, <1>6

LEMMA EraseOneKeeps ==
    ASSUME ReflectionInv, NEW t \in Threads, EraseOne(t)
    PROVE  ReflectionInv'
<1> PICK k : k = call[t]
    OBVIOUS
<1> PICK x : x = Head(k.todo)
    OBVIOUS
<1> PICK rest : rest = Tail(k.todo)
    OBVIOUS
<1> PICK q : q = Only(recent, Ids \ {x})
    OBVIOUS
<1>1. /\ k.pc = "erase" /\ ~At(t, "tombstone") /\ HardDelete(x) /\ recent' = q
      /\ UNCHANGED <<index, late>> /\ UNCHANGED proposals
      /\ Become(t, IF rest = <<>> THEN IdleCall ELSE [k EXCEPT !.todo = Tail(@)])
    BY DEF EraseOne, At
<1>2. /\ k \in CallRecord /\ k.proposal \in 0..Len(proposals) /\ k.deleted \subseteq Tombstoned
      /\ x \in Ids /\ rest \in Seq(Ids) /\ Range(k.todo) = {x} \cup Range(rest)
      /\ Range(k.todo) \subseteq Tombstoned
    BY <1>1, InDeletion
<1>3. /\ StoreTypeOK' /\ tombstones' = tombstones /\ ~Exists(x)'
      /\ \A r \in Ids \ {x} : Exists(r)' <=> Exists(r)
      /\ dependencies' = {e \in dependencies : e[1] # x /\ e[2] # x}
    BY <1>1, <1>2, HardDeleteTyped DEF ReflectionInv, TablesInv, HardDelete, Exists
<1>4. /\ recent \in Seq(Ids) /\ Distinct(recent) /\ Range(recent) = {r \in Ids : Exists(r)}
    BY DEF ReflectionInv, TablesInv
<1>5. q \in Seq(Ids) /\ Distinct(q) /\ Range(q) = Range(recent) \ {x}
    BY <1>2, <1>4, RecentMoves
<1>6. /\ recent' \in Seq(Ids) /\ Distinct(recent')
      /\ Range(recent') = {r \in Ids : Exists(r)'}
    BY <1>1, <1>3, <1>4, <1>5
<1>7. TablesInv'
    BY <1>1, <1>3, <1>6 DEF ReflectionInv, TablesInv, Distinct
<1>8. IsTombstoned(x)
    BY <1>2 DEF Tombstoned
<1>9. StoreMoves
    BY <1>1, <1>3, <1>8 DEF StoreMoves, IsTombstoned
<1>10. proposals' \in Seq(Proposal) /\ proposals' = proposals /\ Tombstoned' = Tombstoned
    BY <1>1, <1>3 DEF ReflectionInv, ProposalsInv, Tombstoned, IsTombstoned
<1>11. CASE rest = <<>>
    <2>1. CallMoves(t, IdleCall)
        BY <1>1, <1>11, IdleRests, BecomeMoves DEF ReflectionInv
    <2>2. CallTyped(t)' /\ MergeInv(t)' /\ DeleteInv(t)'
        BY <1>10, <2>1, IdleRests, RestKeeps
    <2> QED BY <1>1, <1>3, <1>7, <1>9, <2>1, <2>2, OnStoreStep
<1>12. CASE rest # <<>>
    <2> PICK c : c = [k EXCEPT !.todo = Tail(@)]
        OBVIOUS
    <2>1. /\ c \in CallRecord /\ c.pc = "erase" /\ c.todo = rest /\ c.proposal = k.proposal
          /\ c.deleted = k.deleted
        BY <1>1, <1>2 DEF CallRecord
    <2>2. CallMoves(t, c)
        BY <1>1, <1>12, <2>1, BecomeMoves DEF ReflectionInv
    <2>3. CallTyped(t)' /\ MergeInv(t)' /\ DeleteInv(t)'
        BY <1>2, <1>10, <1>12, <2>1, <2>2, DeletionKeeps
    <2> QED BY <1>1, <1>3, <1>7, <1>9, <2>2, <2>3, OnStoreStep
<1> QED BY <1>11, <1>12

-----------------------------------------------------------------------------
(* The invariant is inductive                                              *)

LEMMA ReflectionInvInit == ReflectionInit => ReflectionInv
<1> SUFFICES ASSUME ReflectionInit PROVE ReflectionInv
    OBVIOUS
<1>1. IsFiniteSet(Existing) /\ Existing \subseteq Ids
    BY ReflectionAssumption, FS_Subset
<1>2. /\ recent \in Seq(Ids) /\ Range(recent) = Existing /\ Distinct(recent)
    BY <1>1, ListedOnce, SeqOfSubset DEF ReflectionInit
<1>3. \A r \in Ids : records[r] = IF r \in Existing THEN [status |-> "active", content |-> 0]
                                  ELSE Absent
    BY DEF ReflectionInit
<1>4. \A r \in Ids : Exists(r) <=> r \in Existing
    <2>1. [status |-> "active", content |-> 0] # Absent
        BY DEF Absent
    <2> QED BY <1>3, <2>1 DEF Exists
<1>5. StoreTypeOK
    <2>1. 0 \in 0..MaxContent
        BY ReflectionAssumption
    <2>2. [status |-> "active", content |-> 0] \in Record
        BY <2>1 DEF Record, Statuses
    <2>3. records \in [Ids -> Record \cup {Absent}]
        BY <2>2 DEF ReflectionInit
    <2>4. InitialEdges \subseteq Ids \X Ids \X Relations
        BY ReflectionAssumption
    <2> QED BY <2>3, <2>4 DEF ReflectionInit, StoreTypeOK
<1>6. TablesInv
    <2>1. Range(recent) = {r \in Ids : Exists(r)}
        BY <1>1, <1>2, <1>4
    <2>2. index \in [Ids -> 0..MaxContent \cup {NoEntry}]
        BY ReflectionAssumption DEF ReflectionInit
    <2>3. late = {}
        BY DEF ReflectionInit
    <2> QED BY <1>2, <1>5, <2>1, <2>2, <2>3 DEF TablesInv
<1>7. proposals \in Seq(Proposal) /\ DOMAIN proposals = {} /\ 0 \in 0..Len(proposals)
    <2>1. proposals = <<>>
        BY DEF ReflectionInit
    <2>2. proposals \in Seq(Proposal) /\ Len(proposals) = 0
        BY <2>1, EmptySeq
    <2> QED BY <2>2, LenProperties
<1>8. ProposalsInv /\ AppliedMeansMerged
    BY <1>7 DEF ProposalsInv, AppliedMeansMerged
<1>9. ~\E r \in Ids : IsTombstoned(r)
    BY DEF ReflectionInit, IsTombstoned
<1>10. CascadeInv
    BY <1>5, <1>9 DEF CascadeInv, StoreTypeOK
<1>11. ASSUME NEW t \in Threads
       PROVE  CallTyped(t) /\ MergeInv(t) /\ DeleteInv(t)
    <2>1. call[t].pc = "idle" /\ call[t].proposal = 0 /\ call[t].deleted = {}
        BY DEF ReflectionInit, IdleCall
    <2> QED BY <1>7, <2>1 DEF CallTyped, MergeInv, DeleteInv, At, MergePcs
<1>12. call \in [Threads -> CallRecord] /\ calls \in 0..MaxCalls
    BY IdleCallTyped, ReflectionAssumption DEF ReflectionInit
<1> QED BY <1>6, <1>8, <1>10, <1>11, <1>12 DEF ReflectionInv, CallsInv

LEMMA ReflectionInvStep ==
    ASSUME ReflectionInv, [ReflectionNext]_reflectionVars
    PROVE  ReflectionInv'
<1>1. ASSUME NEW t \in Threads, ReflectionStep(t)
      PROVE  ReflectionInv'
    BY <1>1, BeginConsolidateKeeps, ClusterFactsKeeps, ProposeKeeps, BeginApplyKeeps,
       LoadProposalKeeps, GuardKeeps, MarkDuplicateKeeps, LinkDuplicateKeeps, LinkRefusedKeeps,
       PurgeDuplicatesKeeps, CloseProposalKeeps, RejectKeeps, BeginAuditKeeps, FlagConflictsKeeps
       DEF ReflectionStep
<1>2. ASSUME NEW t \in Threads, HostStep(t)
      PROVE  ReflectionInv'
    BY <1>2, PatchStatusKeeps, UpdateContentKeeps, WriteNewKeeps, LinkSourceKeeps,
       BeginDeleteKeeps, TombstoneOneKeeps, RemoveDeletedKeeps, EraseOneKeeps DEF HostStep
<1>3. ASSUME UNCHANGED reflectionVars
      PROVE  ReflectionInv'
    <2>1. /\ records' = records /\ tombstones' = tombstones /\ dependencies' = dependencies
          /\ index' = index /\ recent' = recent /\ proposals' = proposals /\ call' = call
          /\ calls' = calls /\ late' = late
        BY <1>3 DEF reflectionVars, storeVars
    <2>2. TablesInv'
        BY <2>1 DEF ReflectionInv, TablesInv, StoreTypeOK, Exists, Distinct
    <2>3. ProposalsInv' /\ AppliedMeansMerged'
        BY <2>1 DEF ReflectionInv, ProposalsInv, AppliedMeansMerged, PrimaryOf, DuplicatesOf,
                    IsTombstoned
    <2>4. CascadeInv'
        BY <2>1 DEF ReflectionInv, CascadeInv, IsTombstoned, Pending, At
    <2>5. CallsInv'
        BY <2>1 DEF ReflectionInv, CallsInv, CallTyped, MergeInv, DeleteInv, At, Duplicate,
                    Tombstoned, IsTombstoned, DuplicatesOf, Handled, PrimaryOf, Scope
    <2> QED BY <2>2, <2>3, <2>4, <2>5 DEF ReflectionInv
<1> QED BY <1>1, <1>2, <1>3 DEF ReflectionNext

(* What every reachable state satisfies; the safety properties follow.     *)
THEOREM ReflectionInvariant == ReflectionSpec => []ReflectionInv
<1>1. ReflectionInv /\ [ReflectionNext]_reflectionVars => ReflectionInv'
    BY ReflectionInvStep
<1> QED BY <1>1, ReflectionInvInit, PTL DEF ReflectionSpec

-----------------------------------------------------------------------------
(* What follows from it                                                    *)

(* Type correctness, and that the query of a consolidation lists each row  *)
(* there is once, whoever touches, writes and erases rows meanwhile.       *)
THEOREM ReflectionTypeCorrect == ReflectionSpec => []ReflectionTypeOK
<1>1. ReflectionInv => ReflectionTypeOK
    <2> SUFFICES ASSUME ReflectionInv PROVE ReflectionTypeOK
        OBVIOUS
    <2>1. Len(recent) = Cardinality(Range(recent))
        BY DistinctCardinality DEF ReflectionInv, TablesInv
    <2>2. \A t \in Threads : call[t].pc \in CallPcs /\ call[t].proposal \in 0..Len(proposals)
        BY DEF ReflectionInv, CallsInv, CallRecord, CallTyped
    <2> QED BY <2>1, <2>2 DEF ReflectionInv, TablesInv, ProposalsInv, CallsInv, ReflectionTypeOK
<1> QED BY <1>1, ReflectionInvariant, PTL

(* A proposal is applied only once each duplicate is linked to the primary *)
(* or deleted with it: apply_merge loses no duplicate, whatever is deleted *)
(* meanwhile, and however many threads apply the proposal at once.         *)
THEOREM AppliedIsMerged == ReflectionSpec => []AppliedMeansMerged
<1>1. ReflectionInv => AppliedMeansMerged
    BY DEF ReflectionInv
<1> QED BY <1>1, ReflectionInvariant, PTL

(* delete_memory leaves no linked record behind: of two linked records     *)
(* both are deleted or neither, but for the edges that were added late.    *)
THEOREM DeletionsCascade == ReflectionSpec => []DeletionCascades
<1>1. ReflectionInv => DeletionCascades
    BY DEF ReflectionInv, CascadeInv, DeletionCascades, Pending, Deleting
<1> QED BY <1>1, ReflectionInvariant, PTL

(* Whatever reflection and hosts leave in the store and in the index, a    *)
(* recall builds sound bundles of it.                                      *)
THEOREM BundlesAreSound == ReflectionSpec => []BundlesSound
<1>1. ReflectionInv => BundlesSound
    BY ReflectionAssumption, BundleIsSound DEF BundlesSound
<1> QED BY <1>1, ReflectionInvariant, PTL

(* And the bundles are complete.                                           *)
THEOREM BundlesAreComplete == ReflectionSpec => []BundlesComplete
<1>1. ReflectionInv => BundlesComplete
    <2> SUFFICES ASSUME ReflectionInv, NEW S \in Retrievable, NEW now \in Instants,
                        NEW b \in Bundles(HitsOf(S), now, FALSE)
                 PROVE  CompleteBundle(b, HitsOf(S), now)
        BY DEF BundlesComplete
    <2>1. \A h \in HitsOf(S) : h[1] \in Ids
        BY DEF HitsOf, Retrievable
    <2>2. StoreTypeOK
        BY DEF ReflectionInv, TablesInv
    <2> QED BY <2>1, <2>2, ReflectionAssumption, BundleIsComplete
<1> QED BY <1>1, ReflectionInvariant, PTL

(* A merge marks no record superseded that was deleted before the proposal *)
(* was applied: apply_merge never brings a deletion's status back.         *)
THEOREM DeletionsRemain == ReflectionSpec => DeletionsStand
<1> DEFINE Stands == \A t \in Threads :
                        At(t, "status") /\ At(t, "link")' => Duplicate(t) \notin call[t].deleted
<1>1. ReflectionInv /\ [ReflectionNext]_reflectionVars => [Stands]_reflectionVars
    BY DEF ReflectionInv, CallsInv, MergeInv
<1> QED BY <1>1, ReflectionInvariant, PTL DEF ReflectionSpec, DeletionsStand
=============================================================================
