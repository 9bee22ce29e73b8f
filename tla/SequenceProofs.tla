---------------------------- MODULE SequenceProofs ----------------------------
(***************************************************************************)
(* Lemmas about natural numbers, flattened sequences (where each element   *)
(* of a sequence of sequences is in the flattened one) and sorted sets.    *)
(* FlattenSeq is defined by recursion over positions, so the lemmas about  *)
(* it rest on induction, which is stated over sets of numbers.             *)
(***************************************************************************)
EXTENDS Naturals, Sequences, SequencesExt, FiniteSetTheorems,
        WellFoundedInduction, TLAPS

-----------------------------------------------------------------------------
(* Induction.                                                               *)

\* A non-empty set of natural numbers has a least element.
LEMMA LeastNatural ==
    ASSUME NEW S \in SUBSET Nat, S # {}
    PROVE  \E least \in S : \A n \in S : least <= n
<1> DEFINE below(n) == 0 .. (n - 1)
           T == {below(n) : n \in S}
<1>1. T \subseteq FiniteSubsetsOf(Nat) /\ T # {}
  <2>1. ASSUME NEW n \in S PROVE below(n) \in FiniteSubsetsOf(Nat)
    <3>1. 0 \in Int /\ n - 1 \in Int
      OBVIOUS
    <3>2. IsFiniteSet(below(n))
      BY <3>1, FS_Interval
    <3>3. below(n) \subseteq Nat
      OBVIOUS
    <3> QED  BY <3>2, <3>3 DEF FiniteSubsetsOf
  <2> QED  BY <2>1
<1>2. PICK X \in T : \A Y \in T : ~(<<Y, X>> \in StrictSubsetOrdering(Nat))
  <2> HIDE DEF T
  <2> QED  BY <1>1, WFMin, FS_StrictSubsetOrderingWellFounded
<1>3. PICK least \in S : X = below(least)
  OBVIOUS
<1>4. ASSUME NEW n \in S, n < least PROVE FALSE
  <2>1. below(n) \subseteq below(least) /\ n \in below(least) /\ n \notin below(n)
    BY <1>4
  <2>2. below(n) \in T /\ below(least) \in T
    OBVIOUS
  <2>3. <<below(n), X>> \in StrictSubsetOrdering(Nat)
    <3> HIDE DEF T, below
    <3> QED  BY <2>1, <2>2, <1>1, <1>3 DEF StrictSubsetOrdering, FiniteSubsetsOf
  <2> QED  BY <2>2, <2>3, <1>2
<1> QED  BY <1>4

\* A non-empty set of natural numbers with a bound has a greatest element.
LEMMA GreatestNatural ==
    ASSUME NEW S \in SUBSET Nat, S # {}, NEW bound \in Nat, \A n \in S : n <= bound
    PROVE  \E greatest \in S : \A n \in S : n <= greatest
<1> DEFINE T == {n \in Nat : \A x \in S : x <= n}
<1>1. PICK least \in T : \A n \in T : least <= n
  <2>1. T \in SUBSET Nat /\ bound \in T
    OBVIOUS
  <2> HIDE DEF T
  <2> QED  BY <2>1, LeastNatural
<1>2. CASE least \in S
  BY <1>2
<1>3. ASSUME least \notin S
      PROVE  FALSE
  <2>0. PICK some \in S : TRUE
    OBVIOUS
  <2>1. least \in Nat /\ \A x \in S : x \in Nat /\ x < least
    BY <1>3
  <2>2. least - 1 \in Nat /\ \A x \in S : x <= least - 1
    BY <2>0, <2>1
  <2> QED  BY <2>2, <1>1
<1> QED  BY <1>2, <1>3

\* A set of natural numbers with 0, and with n + 1 for each n in it, is all of them.
LEMMA ByInduction ==
    ASSUME NEW S \in SUBSET Nat, 0 \in S, \A n \in S : n + 1 \in S
    PROVE  S = Nat
<1> SUFFICES ASSUME Nat \ S # {} PROVE FALSE
  OBVIOUS
<1>1. PICK least \in Nat \ S : \A n \in Nat \ S : least <= n
  BY LeastNatural
<1>2. least # 0 /\ least - 1 \in Nat /\ least - 1 \in S
  BY <1>1
<1> QED  BY <1>1, <1>2

-----------------------------------------------------------------------------
(* Flattening.                                                              *)

\* The first i sequences joined, as FlattenSeq joins them.
Joins(seqs, g) ==
    g = [i \in 1 .. Len(seqs) |-> IF i = 1 THEN seqs[i] ELSE g[i - 1] \o seqs[i]]
JoinedUpTo(seqs) ==
    CHOOSE g : g = [i \in 1 .. Len(seqs) |->
                       IF i = 1 THEN seqs[i] ELSE g[i - 1] \o seqs[i]]

LEMMA JoinedExists ==
    ASSUME NEW T, NEW seqs \in Seq(Seq(T))
    PROVE  Joins(seqs, JoinedUpTo(seqs))
<1> DEFINE prefix(n, g) ==
               g = [i \in 1 .. n |-> IF i = 1 THEN seqs[i] ELSE g[i - 1] \o seqs[i]]
           S == {n \in Nat : \E g : prefix(n, g)}
<1>1. 0 \in S
  <2>1. prefix(0, <<>>)
    OBVIOUS
  <2> QED  BY <2>1
<1>2. ASSUME NEW n \in S
      PROVE  n + 1 \in S
  <2>1. PICK g : prefix(n, g)
    OBVIOUS
  <2>0. \A j \in 1 .. n : g[j] = IF j = 1 THEN seqs[j] ELSE g[j - 1] \o seqs[j]
    BY <2>1, Zenon
  <2> DEFINE h == [i \in 1 .. (n + 1) |->
                      IF i <= n THEN g[i]
                      ELSE IF i = 1 THEN seqs[i] ELSE g[i - 1] \o seqs[i]]
  <2>2. ASSUME NEW i \in 1 .. (n + 1)
        PROVE  h[i] = IF i = 1 THEN seqs[i] ELSE h[i - 1] \o seqs[i]
    <3>1. CASE i <= n
      <4>1. g[i] = IF i = 1 THEN seqs[i] ELSE g[i - 1] \o seqs[i]
        BY <2>0, <3>1
      <4>2. i # 1 => h[i - 1] = g[i - 1]
        BY <3>1
      <4> QED  BY <3>1, <4>1, <4>2
    <3>2. CASE i = n + 1
      <4>1. i # 1 => h[i - 1] = g[i - 1]
        BY <3>2
      <4> QED  BY <3>2, <4>1
    <3> QED  BY <3>1, <3>2
  <2>3. prefix(n + 1, h)
    <3>1. h = [i \in 1 .. (n + 1) |-> h[i]]
      OBVIOUS
    <3> HIDE DEF h
    <3> QED  BY <2>2, <3>1
  <2> HIDE DEF prefix
  <2> QED  BY <2>3
<1>3. S = Nat
  <2> HIDE DEF S
  <2>1. S \in SUBSET Nat
    BY DEF S
  <2> QED  BY <1>1, <1>2, <2>1, ByInduction
<1>4. \E g : prefix(Len(seqs), g)
  <2>1. Len(seqs) \in Nat
    OBVIOUS
  <2> QED  BY <1>3, <2>1
<1> QED  BY <1>4 DEF JoinedUpTo, Joins

\* Where elements are: which sequence, and where in it.
Pairs(seqs) == UNION {{s} \X DOMAIN seqs[s] : s \in DOMAIN seqs}
Earlier(p, q) == p[1] < q[1] \/ (p[1] = q[1] /\ p[2] < q[2])

\* Each element of the first n sequences has one place in "flat", in their order.
FlatPlaces(seqs, n, flat, at) ==
    /\ \A p \in Pairs(seqs) : p[1] <= n =>
          at[p] \in DOMAIN flat /\ flat[at[p]] = seqs[p[1]][p[2]]
    /\ \A p, q \in Pairs(seqs) :
          p[1] <= n /\ q[1] <= n /\ Earlier(p, q) => at[p] < at[q]
    /\ \A m \in DOMAIN flat : \E p \in Pairs(seqs) : p[1] <= n /\ at[p] = m

LEMMA PairsAre ==
    ASSUME NEW T, NEW seqs \in Seq(Seq(T)), NEW p \in Pairs(seqs)
    PROVE  /\ p = <<p[1], p[2]>>
           /\ p[1] \in 1 .. Len(seqs) /\ p[1] \in Nat
           /\ seqs[p[1]] \in Seq(T)
           /\ p[2] \in 1 .. Len(seqs[p[1]]) /\ p[2] \in Nat
           /\ seqs[p[1]][p[2]] \in T
<1>1. PICK s \in DOMAIN seqs : p \in {s} \X DOMAIN seqs[s]
  BY DEF Pairs
<1>2. p = <<p[1], p[2]>> /\ p[1] = s /\ p[2] \in DOMAIN seqs[s]
  BY <1>1
<1> QED  BY <1>2

LEMMA PairsMake ==
    ASSUME NEW seqs, NEW s \in DOMAIN seqs, NEW i \in DOMAIN seqs[s]
    PROVE  <<s, i>> \in Pairs(seqs)
BY DEF Pairs

\* One sequence more: its elements come after all before.
LEMMA PlacesGrow ==
    ASSUME NEW T, NEW seqs \in Seq(Seq(T)), NEW n \in Nat, n + 1 \in DOMAIN seqs,
           NEW flat \in Seq(T), NEW at, FlatPlaces(seqs, n, flat, at)
    PROVE  \E new : FlatPlaces(seqs, n + 1, flat \o seqs[n + 1], new)
<1> DEFINE s == seqs[n + 1]
           new == [p \in Pairs(seqs) |-> IF p[1] <= n THEN at[p] ELSE Len(flat) + p[2]]
<1>1. /\ s \in Seq(T) /\ Len(s) \in Nat /\ Len(flat) \in Nat
      /\ DOMAIN flat = 1 .. Len(flat)
      /\ DOMAIN (flat \o s) = 1 .. (Len(flat) + Len(s))
      /\ \A m \in 1 .. Len(flat) : (flat \o s)[m] = flat[m]
      /\ \A i \in 1 .. Len(s) : (flat \o s)[Len(flat) + i] = s[i]
  OBVIOUS
<1>2. \A p \in Pairs(seqs) :
          /\ p[1] \in Nat /\ p[2] \in Nat
          /\ p[1] <= n + 1 => p[1] <= n \/ (p[1] = n + 1 /\ p[2] \in 1 .. Len(s))
  BY PairsAre
<1> HIDE DEF s
<1>3. ASSUME NEW p \in Pairs(seqs), p[1] <= n + 1
      PROVE  new[p] \in DOMAIN (flat \o s) /\ (flat \o s)[new[p]] = seqs[p[1]][p[2]]
  <2>1. CASE p[1] <= n
    <3>1. at[p] \in 1 .. Len(flat) /\ flat[at[p]] = seqs[p[1]][p[2]]
      BY <2>1, <1>1 DEF FlatPlaces
    <3> QED  BY <3>1, <2>1, <1>1
  <2>2. CASE p[1] = n + 1 /\ p[2] \in 1 .. Len(s)
    <3>1. new[p] = Len(flat) + p[2]
      BY <2>2
    <3>2. (flat \o s)[Len(flat) + p[2]] = s[p[2]] /\ s = seqs[p[1]]
      BY <2>2, <1>1 DEF s
    <3> HIDE DEF new
    <3> QED  BY <3>1, <3>2, <2>2, <1>1
  <2> QED  BY <2>1, <2>2, <1>2, <1>3
<1>4. ASSUME NEW p \in Pairs(seqs), NEW q \in Pairs(seqs),
             p[1] <= n + 1, q[1] <= n + 1, Earlier(p, q)
      PROVE  new[p] < new[q]
  <2>1. CASE q[1] <= n
    <3>1. p[1] <= n /\ at[p] < at[q]
      BY <2>1, <1>2, <1>4 DEF FlatPlaces, Earlier
    <3> QED  BY <3>1, <2>1
  <2>2. CASE q[1] = n + 1 /\ q[2] \in 1 .. Len(s)
    <3>1. CASE p[1] <= n
      <4>1. at[p] \in 1 .. Len(flat)
        BY <3>1, <1>1 DEF FlatPlaces
      <4> QED  BY <4>1, <3>1, <2>2, <1>1
    <3>2. CASE p[1] = n + 1 /\ p[2] \in 1 .. Len(s)
      <4>1. p[2] < q[2]
        BY <3>2, <2>2, <1>4 DEF Earlier
      <4> QED  BY <4>1, <3>2, <2>2, <1>1
    <3> QED  BY <3>1, <3>2, <1>2, <1>4
  <2> QED  BY <2>1, <2>2, <1>2, <1>4
<1>5. ASSUME NEW m \in DOMAIN (flat \o s)
      PROVE  \E p \in Pairs(seqs) : p[1] <= n + 1 /\ new[p] = m
  <2>1. CASE m <= Len(flat)
    <3>1. PICK p \in Pairs(seqs) : p[1] <= n /\ at[p] = m
      BY <2>1, <1>1 DEF FlatPlaces
    <3>2. p[1] <= n + 1 /\ new[p] = m
      BY <3>1, <1>2
    <3> QED  BY <3>2
  <2>2. CASE m > Len(flat)
    <3>1. m - Len(flat) \in 1 .. Len(s)
      BY <2>2, <1>1
    <3>2. <<n + 1, m - Len(flat)>> \in Pairs(seqs)
      BY <3>1, <1>1, PairsMake DEF s
    <3>3. new[<<n + 1, m - Len(flat)>>] = m
      BY <3>1, <3>2, <1>1
    <3> HIDE DEF new
    <3> QED  BY <3>2, <3>3
  <2> QED  BY <2>1, <2>2, <1>1
<1>6. FlatPlaces(seqs, n + 1, flat \o s, new)
  <2> HIDE DEF new
  <2> QED  BY <1>3, <1>4, <1>5 DEF FlatPlaces
<1> HIDE DEF new
<1> QED  BY <1>6 DEF s

\* Every element of a sequence of sequences has one place in the flattened
\* sequence, in order, and every place there is one of theirs.
LEMMA FlattenPlaces ==
    ASSUME NEW T, NEW seqs \in Seq(Seq(T))
    PROVE  /\ FlattenSeq(seqs) \in Seq(T)
           /\ \E at : FlatPlaces(seqs, Len(seqs), FlattenSeq(seqs), at)
<1>1. CASE Len(seqs) = 0
  <2>1. FlattenSeq(seqs) = seqs /\ seqs = <<>>
    BY <1>1 DEF FlattenSeq
  <2>2. Pairs(seqs) = {} /\ FlattenSeq(seqs) = <<>>
    BY <2>1 DEF Pairs
  <2>3. FlatPlaces(seqs, Len(seqs), FlattenSeq(seqs), <<>>)
    BY <2>2 DEF FlatPlaces
  <2> QED  BY <2>2, <2>3
<1>2. CASE Len(seqs) # 0
  <2> DEFINE flat(n) == JoinedUpTo(seqs)[n]
             S == {n \in Nat : n < Len(seqs) =>
                      /\ flat(n + 1) \in Seq(T)
                      /\ \E at : FlatPlaces(seqs, n + 1, flat(n + 1), at)}
  <2>1. /\ Len(seqs) \in Nat /\ DOMAIN seqs = 1 .. Len(seqs)
        /\ \A i \in 1 .. Len(seqs) : seqs[i] \in Seq(T)
    OBVIOUS
  <2>2. \A i \in 1 .. Len(seqs) :
            flat(i) = IF i = 1 THEN seqs[i] ELSE flat(i - 1) \o seqs[i]
    <3>1. Joins(seqs, JoinedUpTo(seqs))
      BY JoinedExists
    <3> HIDE DEF JoinedUpTo
    <3> QED  BY <3>1, Zenon DEF Joins
  <2>3. FlattenSeq(seqs) = flat(Len(seqs))
    BY <1>2 DEF FlattenSeq, JoinedUpTo
  <2> HIDE DEF flat
  <2>4. 0 \in S
    <3>1. flat(1) = seqs[1] /\ seqs[1] \in Seq(T) /\ <<>> \o seqs[1] = seqs[1]
      BY <1>2, <2>1, <2>2
    <3>2. FlatPlaces(seqs, 0, <<>>, <<>>)
      BY PairsAre DEF FlatPlaces
    <3>3. \E at : FlatPlaces(seqs, 1, flat(1), at)
      <4>1. 0 \in Nat /\ 0 + 1 = 1 /\ 1 \in DOMAIN seqs /\ <<>> \in Seq(T)
        BY <1>2, <2>1
      <4>2. \E at : FlatPlaces(seqs, 0 + 1, <<>> \o seqs[0 + 1], at)
        BY <3>2, <4>1, PlacesGrow
      <4> QED  BY <4>1, <4>2, <3>1
    <3> QED  BY <3>1, <3>3
  <2>5. ASSUME NEW n \in S
        PROVE  n + 1 \in S
    <3> SUFFICES ASSUME n + 1 < Len(seqs)
                 PROVE  /\ flat(n + 2) \in Seq(T)
                        /\ \E at : FlatPlaces(seqs, n + 2, flat(n + 2), at)
      <4>1. (n + 1) + 1 = n + 2
        OBVIOUS
      <4> QED  BY <4>1
    <3>1. PICK at : flat(n + 1) \in Seq(T) /\ FlatPlaces(seqs, n + 1, flat(n + 1), at)
      BY <2>1
    <3>2. /\ n + 1 \in Nat /\ (n + 1) + 1 = n + 2 /\ n + 2 \in 1 .. Len(seqs)
          /\ (n + 2) - 1 = n + 1 /\ n + 2 # 1
      BY <2>1
    <3>3. flat(n + 2) = flat(n + 1) \o seqs[n + 2]
      BY <2>2, <3>2
    <3>4. \E new : FlatPlaces(seqs, (n + 1) + 1, flat(n + 1) \o seqs[(n + 1) + 1], new)
      <4>1. (n + 1) + 1 \in DOMAIN seqs
        BY <3>2, <2>1
      <4> QED  BY <3>1, <3>2, <4>1, PlacesGrow
    <3>5. seqs[n + 2] \in Seq(T)
      BY <3>2, <2>1
    <3>6. flat(n + 2) \in Seq(T)
      <4>1. \A a, b \in Seq(T) : a \o b \in Seq(T)
        OBVIOUS
      <4> HIDE DEF S
      <4> QED  BY <4>1, <3>1, <3>3, <3>5, Zenon
    <3>7. \E new : FlatPlaces(seqs, n + 2, flat(n + 2), new)
      <4> HIDE DEF S
      <4> QED  BY <3>2, <3>3, <3>4
    <3> QED  BY <3>6, <3>7, Zenon
  <2>6. S = Nat
    <3>1. S \in SUBSET Nat
      OBVIOUS
    <3> HIDE DEF S
    <3> QED  BY <2>4, <2>5, <3>1, ByInduction
  <2>7. Len(seqs) - 1 \in S /\ (Len(seqs) - 1) + 1 = Len(seqs)
    <3>1. Len(seqs) - 1 \in Nat /\ (Len(seqs) - 1) + 1 = Len(seqs)
      BY <1>2, <2>1
    <3> HIDE DEF S
    <3> QED  BY <3>1, <2>6
  <2> QED  BY <2>7, <2>3, <2>1
<1> QED  BY <1>1, <1>2

\* Which element of the sequences is at each position of the flattened one.
LEMMA FlattenPairs ==
    ASSUME NEW T, NEW seqs \in Seq(Seq(T))
    PROVE  \E pair :
               /\ \A m \in DOMAIN FlattenSeq(seqs) :
                     /\ pair[m] \in Pairs(seqs)
                     /\ FlattenSeq(seqs)[m] = seqs[pair[m][1]][pair[m][2]]
               /\ \A p \in Pairs(seqs) : \E m \in DOMAIN FlattenSeq(seqs) : pair[m] = p
               /\ \A m, n \in DOMAIN FlattenSeq(seqs) : m < n => Earlier(pair[m], pair[n])
<1> DEFINE flat == FlattenSeq(seqs)
<1>1. flat \in Seq(T) /\ DOMAIN flat \subseteq Nat /\ Len(seqs) \in Nat
  BY FlattenPlaces
<1>2. PICK at : FlatPlaces(seqs, Len(seqs), flat, at)
  BY FlattenPlaces
<1> HIDE DEF flat
<1>3. ASSUME NEW p \in Pairs(seqs)
      PROVE  /\ p[1] \in Nat /\ p[2] \in Nat /\ p = <<p[1], p[2]>> /\ p[1] <= Len(seqs)
  BY PairsAre
<1>4. \A p \in Pairs(seqs) : at[p] \in DOMAIN flat /\ flat[at[p]] = seqs[p[1]][p[2]]
  BY <1>2, <1>3 DEF FlatPlaces
<1>5. \A p, q \in Pairs(seqs) : Earlier(p, q) => at[p] < at[q]
  BY <1>2, <1>3 DEF FlatPlaces
<1>6. \A p, q \in Pairs(seqs) : p = q \/ Earlier(p, q) \/ Earlier(q, p)
  <2> SUFFICES ASSUME NEW p \in Pairs(seqs), NEW q \in Pairs(seqs)
               PROVE  p = q \/ Earlier(p, q) \/ Earlier(q, p)
    OBVIOUS
  <2>1. /\ p[1] \in Nat /\ p[2] \in Nat /\ p = <<p[1], p[2]>>
        /\ q[1] \in Nat /\ q[2] \in Nat /\ q = <<q[1], q[2]>>
    BY <1>3
  <2> QED  BY <2>1 DEF Earlier
<1> DEFINE pair == [m \in DOMAIN flat |-> CHOOSE p \in Pairs(seqs) : at[p] = m]
<1>7. ASSUME NEW m \in DOMAIN flat
      PROVE  pair[m] \in Pairs(seqs) /\ at[pair[m]] = m
  <2>1. \E p \in Pairs(seqs) : at[p] = m
    BY <1>2 DEF FlatPlaces
  <2> QED  BY <2>1
<1>8. ASSUME NEW p \in Pairs(seqs)
      PROVE  at[p] \in DOMAIN flat /\ pair[at[p]] = p
  <2>1. at[p] \in DOMAIN flat /\ at[p] \in Nat
    BY <1>1, <1>4
  <2>2. pair[at[p]] \in Pairs(seqs) /\ at[pair[at[p]]] = at[p]
    BY <2>1, <1>7
  <2> HIDE DEF pair
  <2>3. \A q \in Pairs(seqs) : at[q] = at[p] => q = p
    BY <2>1, <1>5, <1>6
  <2> QED  BY <2>1, <2>2, <2>3
<1> HIDE DEF pair
<1>9. \A m, n \in DOMAIN flat : m < n => Earlier(pair[m], pair[n])
  <2> SUFFICES ASSUME NEW m \in DOMAIN flat, NEW n \in DOMAIN flat, m < n
               PROVE  Earlier(pair[m], pair[n])
    OBVIOUS
  <2>1. at[pair[m]] < at[pair[n]] /\ m \in Nat /\ n \in Nat
    BY <1>1, <1>7
  <2>2. pair[m] # pair[n]
    BY <2>1, <1>7
  <2>3. ~Earlier(pair[n], pair[m])
    BY <2>1, <1>5, <1>7
  <2> QED  BY <2>2, <2>3, <1>6, <1>7
<1> QED  BY <1>4, <1>7, <1>8, <1>9 DEF flat

-----------------------------------------------------------------------------
(* Sorting.                                                                 *)

\* R orders the elements of S.
Orders(R, S) ==
    /\ \A a \in S : <<a, a>> \notin R
    /\ \A a, b \in S : a # b => <<a, b>> \in R \/ <<b, a>> \in R
    /\ \A a, b, c \in S : <<a, b>> \in R /\ <<b, c>> \in R => <<a, c>> \in R

\* The elements of S, each once and in the order of R.
Enumerates(seq, S, R) ==
    /\ seq \in Seq(S)
    /\ \A r \in S : \E i \in DOMAIN seq : seq[i] = r
    /\ \A i, j \in DOMAIN seq : i < j => <<seq[i], seq[j]>> \in R

\* An element after as many others as it is the place of.
RankIn(r, S, R) == 1 + Cardinality({q \in S : <<q, r>> \in R})

LEMMA RankType ==
    ASSUME NEW S, IsFiniteSet(S), NEW R, Orders(R, S), NEW r \in S
    PROVE  RankIn(r, S, R) \in 1 .. Cardinality(S)
<1> DEFINE before == {q \in S : <<q, r>> \in R}
<1>1. before \in SUBSET S /\ r \notin before
  BY DEF Orders
<1> HIDE DEF before
<1>2. /\ IsFiniteSet(before) /\ Cardinality(before) <= Cardinality(S)
      /\ Cardinality(S) = Cardinality(before) => S = before
  BY <1>1, FS_Subset
<1>3. Cardinality(before) \in Nat /\ Cardinality(S) \in Nat
  BY <1>2, FS_CardinalityType
<1>4. Cardinality(before) # Cardinality(S)
  BY <1>1, <1>2
<1>5. RankIn(r, S, R) = 1 + Cardinality(before)
  BY DEF RankIn, before
<1> QED  BY <1>2, <1>3, <1>4, <1>5

LEMMA PlaceGrows ==
    ASSUME NEW S, IsFiniteSet(S), NEW R, Orders(R, S),
           NEW a \in S, NEW b \in S, <<a, b>> \in R
    PROVE  RankIn(a, S, R) < RankIn(b, S, R)
<1> DEFINE before(r) == {q \in S : <<q, r>> \in R}
<1>1. before(a) \in SUBSET before(b) /\ a \in before(b) /\ a \notin before(a)
  BY DEF Orders
<1>2. before(b) \in SUBSET S
  OBVIOUS
<1>3. RankIn(a, S, R) = 1 + Cardinality(before(a)) /\ RankIn(b, S, R) = 1 + Cardinality(before(b))
  BY DEF RankIn
<1> HIDE DEF before
<1>4. IsFiniteSet(before(b))
  BY <1>2, FS_Subset
<1>5. /\ IsFiniteSet(before(a)) /\ Cardinality(before(a)) <= Cardinality(before(b))
      /\ Cardinality(before(b)) = Cardinality(before(a)) => before(b) = before(a)
  BY <1>1, <1>4, FS_Subset
<1>6. Cardinality(before(a)) \in Nat /\ Cardinality(before(b)) \in Nat
  BY <1>4, <1>5, FS_CardinalityType
<1>7. Cardinality(before(b)) # Cardinality(before(a))
  BY <1>1, <1>5
<1> QED  BY <1>3, <1>5, <1>6, <1>7

\* Listed by their places, the elements are in order.
LEMMA PlacesEnumerate ==
    ASSUME NEW S, IsFiniteSet(S), NEW R, Orders(R, S)
    PROVE  Enumerates([i \in 1 .. Cardinality(S) |-> CHOOSE r \in S : RankIn(r, S, R) = i],
                      S, R)
<1> DEFINE n == Cardinality(S)
           place == [r \in S |-> RankIn(r, S, R)]
           seq == [i \in 1 .. n |-> CHOOSE r \in S : RankIn(r, S, R) = i]
<1>0. n \in Nat
  BY FS_CardinalityType
<1>1. \A a, b \in S : <<a, b>> \in R => RankIn(a, S, R) < RankIn(b, S, R)
  BY PlaceGrows
<1>2. \A r \in S : RankIn(r, S, R) \in 1 .. n
  BY RankType
<1>a. \A r \in S : RankIn(r, S, R) \in Nat
  <2> HIDE DEF n
  <2> QED  BY <1>0, <1>2
<1>b. \A a, b \in S : RankIn(a, S, R) = RankIn(b, S, R) => a = b
  <2> SUFFICES ASSUME NEW a \in S, NEW b \in S, a # b
               PROVE  RankIn(a, S, R) # RankIn(b, S, R)
    OBVIOUS
  <2>1. <<a, b>> \in R \/ <<b, a>> \in R
    BY DEF Orders
  <2>2. RankIn(a, S, R) < RankIn(b, S, R) \/ RankIn(b, S, R) < RankIn(a, S, R)
    BY <2>1, <1>1
  <2>3. RankIn(a, S, R) \in Nat /\ RankIn(b, S, R) \in Nat
    BY <1>a
  <2> QED  BY <2>2, <2>3
<1>3. place \in Injection(S, 1 .. n)
  <2>1. place \in [S -> 1 .. n]
    BY <1>2
  <2>2. \A a, b \in S : a # b => place[a] # place[b]
    BY <1>b
  <2> HIDE DEF place
  <2> QED  BY <2>1, <2>2 DEF Injection, IsInjective
<1>4. \A i \in 1 .. n : \E r \in S : RankIn(r, S, R) = i
  <2>1. IsFiniteSet(1 .. n) /\ Cardinality(1 .. n) = n
    <3>1. 1 \in Int /\ n \in Int /\ (1 > n => n = 0) /\ n - 1 + 1 = n
      BY <1>0
    <3> QED  BY <3>1, FS_Interval
  <2>2. place \in Surjection(S, 1 .. n)
    <3> HIDE DEF place
    <3> QED  BY <1>3, <2>1, FS_Injection DEF n
  <2>3. \A i \in 1 .. n : \E r \in S : place[r] = i
    <3> HIDE DEF place, n
    <3> QED  BY <2>2 DEF Surjection
  <2> QED  BY <2>3
<1>5. \A i \in 1 .. n : seq[i] \in S /\ RankIn(seq[i], S, R) = i
  <2> SUFFICES ASSUME NEW i \in 1 .. n
               PROVE  seq[i] \in S /\ RankIn(seq[i], S, R) = i
    OBVIOUS
  <2>1. seq[i] = CHOOSE r \in S : RankIn(r, S, R) = i
    OBVIOUS
  <2> HIDE DEF seq
  <2> QED  BY <1>4, <2>1
<1>6. seq \in Seq(S) /\ DOMAIN seq = 1 .. n
  <2>1. seq \in [1 .. n -> S]
    <3>1. seq = [i \in 1 .. n |-> seq[i]]
      OBVIOUS
    <3> HIDE DEF seq
    <3> QED  BY <1>5, <3>1
  <2> HIDE DEF seq, n
  <2> QED  BY <2>1, <1>0
<1>7. \A r \in S : \E i \in DOMAIN seq : seq[i] = r
  <2> SUFFICES ASSUME NEW r \in S PROVE \E i \in DOMAIN seq : seq[i] = r
    OBVIOUS
  <2> DEFINE i == RankIn(r, S, R)
  <2>1. i \in 1 .. n /\ seq[i] \in S /\ RankIn(seq[i], S, R) = i
    BY <1>2, <1>5
  <2> HIDE DEF seq, n
  <2>2. seq[i] = r
    BY <2>1, <1>b
  <2> QED  BY <2>1, <2>2, <1>6
<1>8. \A i, j \in DOMAIN seq : i < j => <<seq[i], seq[j]>> \in R
  <2> SUFFICES ASSUME NEW i \in 1 .. n, NEW j \in 1 .. n, i < j
               PROVE  <<seq[i], seq[j]>> \in R
    BY <1>6
  <2>1. /\ seq[i] \in S /\ seq[j] \in S
        /\ RankIn(seq[i], S, R) = i /\ RankIn(seq[j], S, R) = j
    BY <1>5
  <2>2. seq[i] # seq[j]
    BY <2>1
  <2> HIDE DEF seq
  <2>3. <<seq[i], seq[j]>> \in R \/ <<seq[j], seq[i]>> \in R
    BY <2>1, <2>2 DEF Orders
  <2>4. ~(<<seq[j], seq[i]>> \in R)
    <3>1. <<seq[j], seq[i]>> \in R => j < i
      BY <2>1, <1>1
    <3> QED  BY <3>1, <1>0
  <2> QED  BY <2>3, <2>4
<1> HIDE DEF seq
<1>9. Enumerates(seq, S, R)
  BY <1>6, <1>7, <1>8 DEF Enumerates
<1> QED  BY <1>9 DEF seq
=============================================================================
