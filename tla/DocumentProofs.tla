---------------------------- MODULE DocumentProofs ----------------------------
(***************************************************************************)
(* DocumentSession keeps IInv, and what is written is what was asked for,  *)
(* for every set of torrents, paths, command lines and users' steps.       *)
(*                                                                         *)
(* Bottom up: what the operators of TrackerEngine and MetadataEngine do to *)
(* any list and any torrent; what an edit and a save come to; what a page  *)
(* asks for; then Sound, the invariant that is inductive, part by part and *)
(* action by action.                                                       *)
(***************************************************************************)
EXTENDS DocumentSession, FiniteSetTheorems, SequenceTheorems, WellFoundedInduction, TLAPS

-----------------------------------------------------------------------------
(* Tracker lists: picking entries, and a list as text *)

\* A least number of a set: the form in which the proofs below argue by induction.
LEMMA LeastNat ==
  ASSUME NEW T, T \subseteq Nat, T # {}
  PROVE  \E x \in T : \A y \in T : x <= y
<1> DEFINE U == {0..(n - 1) : n \in T}
<1>1. U \subseteq FiniteSubsetsOf(Nat) /\ U # {}
  <2>1. ASSUME NEW n \in T PROVE 0..(n - 1) \in FiniteSubsetsOf(Nat)
    BY FS_Interval DEF FiniteSubsetsOf
  <2> QED BY <2>1
<1>2. PICK u \in U : \A v \in U : ~(<<v, u>> \in StrictSubsetOrdering(Nat))
  BY <1>1, FS_StrictSubsetOrderingWellFounded, WFMin, Zenon
<1>3. PICK x \in T : u = 0..(x - 1)
  BY <1>2
<1>4. ASSUME NEW y \in T, y < x PROVE FALSE
  <2>1. y \in 0..(x - 1) /\ y \notin 0..(y - 1)
    BY <1>4
  <2>2. 0..(y - 1) \subseteq 0..(x - 1) /\ 0..(x - 1) \subseteq Nat
    BY <1>4
  <2>3. <<0..(y - 1), u>> \in StrictSubsetOrdering(Nat)
    BY <2>1, <2>2, <1>3 DEF StrictSubsetOrdering
  <2> QED BY <2>3, <1>2
<1> QED BY <1>4

-----------------------------------------------------------------------------
(* The elements of a finite set in an order *)

RankIn(S, R, x) == Cardinality({y \in S : <<y, x>> \in R})

\* Counting the elements up to each numbers them from 1.
LEMMA Ranks ==
  ASSUME NEW S, IsFiniteSet(S), NEW R,
         \A x, y \in S : <<x, y>> \in R \/ <<y, x>> \in R,
         \A x, y \in S : <<x, y>> \in R /\ <<y, x>> \in R => x = y,
         \A x, y, z \in S : <<x, y>> \in R /\ <<y, z>> \in R => <<x, z>> \in R
  PROVE  /\ Cardinality(S) \in Nat
         /\ \A x \in S : RankIn(S, R, x) \in 1 .. Cardinality(S)
         /\ \A x, y \in S : x # y /\ <<x, y>> \in R => RankIn(S, R, x) < RankIn(S, R, y)
         /\ \A k \in 1 .. Cardinality(S) : \E x \in S : RankIn(S, R, x) = k
<1> DEFINE B(x) == {y \in S : <<y, x>> \in R}
           f == [x \in S |-> RankIn(S, R, x)]
           n == Cardinality(S)
<1>1. n \in Nat
  BY FS_CardinalityType
<1>2. ASSUME NEW x \in S
      PROVE  IsFiniteSet(B(x)) /\ RankIn(S, R, x) \in 1 .. n
  <2>1. B(x) \in SUBSET S /\ x \in B(x)
    OBVIOUS
  <2>2. IsFiniteSet(B(x)) /\ Cardinality(B(x)) <= n /\ Cardinality(B(x)) \in Nat
    BY <2>1, FS_Subset, FS_CardinalityType
  <2>3. Cardinality(B(x)) # 0
    BY <2>1, <2>2, FS_EmptySet
  <2> HIDE DEF n, B
  <2>4. Cardinality(B(x)) \in 1 .. n
    BY <2>2, <2>3, <1>1
  <2> QED BY <2>2, <2>4 DEF B, RankIn
<1>3. ASSUME NEW x \in S, NEW y \in S, x # y, <<x, y>> \in R
      PROVE  RankIn(S, R, x) < RankIn(S, R, y)
  <2>1. B(x) \in SUBSET B(y) /\ y \in B(y) /\ y \notin B(x)
    BY <1>3
  <2>2. IsFiniteSet(B(y)) /\ IsFiniteSet(B(x))
    BY <1>2
  <2> HIDE DEF B
  <2>3. Cardinality(B(x)) <= Cardinality(B(y)) /\ Cardinality(B(x)) # Cardinality(B(y))
    BY <2>1, <2>2, FS_Subset
  <2>4. Cardinality(B(x)) \in Nat /\ Cardinality(B(y)) \in Nat
    BY <2>2, FS_CardinalityType
  <2>5. Cardinality(B(x)) < Cardinality(B(y))
    BY <2>3, <2>4
  <2> QED BY <2>5 DEF B, RankIn
<1>4. ASSUME NEW k \in 1 .. n PROVE \E x \in S : RankIn(S, R, x) = k
  <2>1. f \in [S -> 1 .. n]
    BY <1>2
  <2>2. ASSUME NEW x \in S, NEW y \in S, f[x] = f[y] PROVE x = y
    <3>1. SUFFICES ASSUME x # y PROVE FALSE
      OBVIOUS
    <3>2. RankIn(S, R, x) \in 1 .. n /\ RankIn(S, R, y) \in 1 .. n /\ RankIn(S, R, x) = RankIn(S, R, y)
      BY <1>2, <2>2
    <3> HIDE DEF n, B, f
    <3>3. RankIn(S, R, x) < RankIn(S, R, y) \/ RankIn(S, R, y) < RankIn(S, R, x)
      BY <3>1, <1>3
    <3> QED BY <1>1, <3>2, <3>3
  <2>3. f \in Injection(S, 1 .. n)
    BY <2>1, <2>2 DEF Injection, IsInjective
  <2>4. IsFiniteSet(1 .. n) /\ Cardinality(1 .. n) = n
    BY <1>1, FS_Interval
  <2> HIDE DEF f, n
  <2>5. Cardinality(S) = Cardinality(1 .. n)
    BY <2>4 DEF n
  <2>6. f \in Surjection(S, 1 .. n)
    BY <2>3, <2>4, <2>5, FS_Injection
  <2>7. PICK x \in S : f[x] = k
    BY <2>6 DEF Surjection
  <2> QED BY <2>7 DEF f
<1> HIDE DEF n
<1> QED BY <1>1, <1>2, <1>3, <1>4 DEF n

\* The k-th number of a finite set.
LEMMA NthFacts ==
  ASSUME NEW I, I \subseteq Int, IsFiniteSet(I)
  PROVE  /\ Cardinality(I) \in Nat
         /\ \A k \in 1 .. Cardinality(I) : Nth(I, k) \in I /\ Cardinality({j \in I : j <= Nth(I, k)}) = k
         /\ \A k, l \in 1 .. Cardinality(I) : k < l => Nth(I, k) < Nth(I, l)
         /\ \A i \in I : \E k \in 1 .. Cardinality(I) : Nth(I, k) = i
         /\ \A i \in I : Nth(I, Cardinality({j \in I : j <= i})) = i
<1> DEFINE R == {p \in I \X I : p[1] <= p[2]}
           C(i) == Cardinality({j \in I : j <= i})
           n == Cardinality(I)
<1>1. ASSUME NEW i \in I PROVE RankIn(I, R, i) = C(i)
  <2>1. {y \in I : <<y, i>> \in R} = {j \in I : j <= i}
    OBVIOUS
  <2> QED BY <2>1 DEF RankIn
<1>2. /\ \A x, y \in I : <<x, y>> \in R \/ <<y, x>> \in R
      /\ \A x, y \in I : <<x, y>> \in R /\ <<y, x>> \in R => x = y
      /\ \A x, y, z \in I : <<x, y>> \in R /\ <<y, z>> \in R => <<x, z>> \in R
      /\ \A x, y \in I : x < y => <<x, y>> \in R
  OBVIOUS
<1> HIDE DEF R, C, n
<1>3. /\ n \in Nat
      /\ \A x \in I : RankIn(I, R, x) \in 1 .. n
      /\ \A x, y \in I : x # y /\ <<x, y>> \in R => RankIn(I, R, x) < RankIn(I, R, y)
      /\ \A k \in 1 .. n : \E x \in I : RankIn(I, R, x) = k
  BY <1>2, Ranks DEF n
<1>4. /\ \A x \in I : C(x) \in 1 .. n
      /\ \A x, y \in I : x < y => C(x) < C(y)
      /\ \A k \in 1 .. n : \E x \in I : C(x) = k
  <2>1. ASSUME NEW x \in I, NEW y \in I, x < y PROVE C(x) < C(y)
    <3>1. <<x, y>> \in R /\ x # y
      BY <1>2, <2>1
    <3> QED BY <1>1, <1>3, <3>1
  <2> QED BY <1>1, <1>3, <2>1
<1>5. ASSUME NEW k \in 1 .. n PROVE Nth(I, k) \in I /\ C(Nth(I, k)) = k
  <2>1. \E x \in I : C(x) = k
    BY <1>4
  <2> QED BY <2>1 DEF Nth, C
<1>6. ASSUME NEW x \in I, NEW y \in I, C(x) = C(y) PROVE x = y
  <2>1. C(x) \in Int /\ (x < y => C(x) < C(y)) /\ (y < x => C(y) < C(x)) /\ x \in Int /\ y \in Int
    BY <1>3, <1>4
  <2> QED BY <2>1, <1>6
<1>7. ASSUME NEW k \in 1 .. n, NEW l \in 1 .. n, k < l PROVE Nth(I, k) < Nth(I, l)
  <2> DEFINE x == Nth(I, k)
             y == Nth(I, l)
  <2>1. x \in I /\ y \in I /\ C(x) = k /\ C(y) = l
    BY <1>5
  <2> HIDE DEF x, y
  <2>2. x \in Int /\ y \in Int /\ (y < x => C(y) < C(x)) /\ k \in Int /\ l \in Int
    BY <2>1, <1>3, <1>4
  <2>3. x < y
    BY <2>1, <2>2, <1>7
  <2> QED BY <2>3 DEF x, y
<1>8. ASSUME NEW i \in I PROVE C(i) \in 1 .. n /\ Nth(I, C(i)) = i
  BY <1>4, <1>5, <1>6
<1>9. \A i \in I : \E k \in 1 .. n : Nth(I, k) = i
  BY <1>8
<1> QED BY <1>3, <1>5, <1>7, <1>8, <1>9 DEF n, C

Enumerates(e, n, I) ==
    /\ I \subseteq Int
    /\ \A k \in 1 .. n : e[k] \in I
    /\ \A k, l \in 1 .. n : k < l => e[k] < e[l]
    /\ \A i \in I : \E k \in 1 .. n : e[k] = i

\* A rising enumeration of a set of numbers is the one of Nth.
LEMMA NthUnique ==
  ASSUME NEW n \in Nat, NEW e, NEW I, Enumerates(e, n, I)
  PROVE  IsFiniteSet(I) /\ Cardinality(I) = n /\ \A k \in 1 .. n : Nth(I, k) = e[k]
<1> USE DEF Enumerates
<1>1. ASSUME NEW k \in 0 .. n, NEW J, J = {e[l] : l \in 1 .. k}
      PROVE  IsFiniteSet(J) /\ Cardinality(J) = k
  <2> DEFINE g == [l \in 1 .. k |-> e[l]]
  <2>1. 1 .. k \subseteq 1 .. n /\ k \in Nat
    BY <1>1
  <2>2. g \in [1 .. k -> J]
    BY <1>1
  <2>3. ASSUME NEW a \in 1 .. k, NEW b \in 1 .. k, g[a] = g[b] PROVE a = b
    <3>1. e[a] = e[b] /\ a \in 1 .. n /\ b \in 1 .. n /\ e[a] \in Int /\ e[b] \in Int
      BY <2>1, <2>3
    <3>2. (a < b => e[a] < e[b]) /\ (b < a => e[b] < e[a])
      BY <3>1
    <3> QED BY <3>1, <3>2
  <2>4. g \in Surjection(1 .. k, J) /\ g \in Injection(1 .. k, J)
    BY <1>1, <2>2, <2>3 DEF Surjection, Injection, IsInjective
  <2>5. ExistsBijection(1 .. k, J)
    BY <2>4 DEF ExistsBijection, Bijection
  <2> QED BY <2>1, <2>5, FS_NatBijection, FS_CountingElements
<1>2. I = {e[l] : l \in 1 .. n}
  OBVIOUS
<1>3. IsFiniteSet(I) /\ Cardinality(I) = n
  BY <1>1, <1>2
<1>4. ASSUME NEW k \in 1 .. n PROVE Nth(I, k) = e[k]
  <2>1. {j \in I : j <= e[k]} = {e[l] : l \in 1 .. k}
    <3>1. ASSUME NEW l \in 1 .. n PROVE e[l] <= e[k] <=> l <= k
      <4>1. e[l] \in Int /\ e[k] \in Int /\ (l < k => e[l] < e[k]) /\ (k < l => e[k] < e[l]) /\ k \in Int /\ l \in Int
        BY \A i \in I : i \in Int, \A i \in 1 .. n : i \in Int
      <4> QED BY <4>1
    <3>2. 1 .. k \subseteq 1 .. n /\ \A l \in 1 .. n : l <= k <=> l \in 1 .. k
      OBVIOUS
    <3> QED BY <3>1, <3>2, <1>2
  <2>2. Cardinality({j \in I : j <= e[k]}) = k
    BY <1>1, <2>1
  <2>3. Nth(I, Cardinality({j \in I : j <= e[k]})) = e[k]
    BY <1>3, NthFacts
  <2> QED BY <2>2, <2>3
<1> QED BY <1>3, <1>4

-----------------------------------------------------------------------------
(* Picking entries, tiers and lists *)

EntriesIn(s, I, S) == I \subseteq Int /\ IsFiniteSet(I) /\ \A i \in I : s[i] \in S

LEMMA PickFacts ==
  ASSUME NEW S, NEW s, NEW I, EntriesIn(s, I, S)
  PROVE  /\ Pick(s, I) \in Seq(S) /\ Len(Pick(s, I)) = Cardinality(I)
         /\ DOMAIN Pick(s, I) = 1 .. Cardinality(I)
         /\ \A k \in 1 .. Cardinality(I) : Pick(s, I)[k] = s[Nth(I, k)]
<1>1. Cardinality(I) \in Nat /\ \A k \in 1 .. Cardinality(I) : Nth(I, k) \in I
  BY NthFacts DEF EntriesIn
<1> DEFINE n == Cardinality(I)
           p == [k \in 1 .. n |-> s[Nth(I, k)]]
<1>2. p \in [1 .. n -> S]
  BY <1>1 DEF EntriesIn
<1>3. Pick(s, I) = p
  BY DEF Pick
<1>4. \A k \in 1 .. n : p[k] = s[Nth(I, k)]
  OBVIOUS
<1> HIDE DEF n, p
<1>5. p \in Seq(S) /\ Len(p) = n /\ DOMAIN p = 1 .. n
  BY <1>1, <1>2 DEF n
<1> QED BY <1>3, <1>4, <1>5 DEF n

LEMMA DomainFinite ==
  ASSUME NEW S, NEW s \in Seq(S), NEW I, I \subseteq DOMAIN s
  PROVE  IsFiniteSet(I) /\ I \subseteq Int /\ EntriesIn(s, I, S)
<1>1. DOMAIN s = 1 .. Len(s) /\ Len(s) \in Nat
  OBVIOUS
<1>2. IsFiniteSet(1 .. Len(s))
  BY <1>1, FS_Interval
<1> QED BY <1>1, <1>2, FS_Subset DEF EntriesIn

Along(s, e, n) == [k \in 1 .. n |-> s[e[k]]]

\* A rising enumeration of the indexes tells what is picked.
LEMMA PickBy ==
  ASSUME NEW s, NEW n \in Nat, NEW e, NEW I, Enumerates(e, n, I)
  PROVE  Pick(s, I) = Along(s, e, n)
<1>1. Cardinality(I) = n /\ \A k \in 1 .. n : Nth(I, k) = e[k]
  BY NthUnique
<1> QED BY <1>1 DEF Pick, Along

LEMMA PickAll ==
  ASSUME NEW S, NEW s \in Seq(S)
  PROVE  Pick(s, DOMAIN s) = s
<1> DEFINE e == [k \in 1 .. Len(s) |-> k]
<1>1. DOMAIN s = 1 .. Len(s) /\ Len(s) \in Nat /\ s = [k \in 1 .. Len(s) |-> s[k]]
  OBVIOUS
<1>2. Enumerates(e, Len(s), 1 .. Len(s)) /\ Along(s, e, Len(s)) = s
  BY <1>1 DEF Enumerates, Along
<1> HIDE DEF e
<1>3. Pick(s, 1 .. Len(s)) = Along(s, e, Len(s))
  BY <1>1, <1>2, PickBy
<1> QED BY <1>1, <1>2, <1>3

LEMMA CreateTierType ==
  ASSUME NEW urls \in Seq(Trackers), urls # <<>>
  PROVE  CreateTier(urls) \in Tiers
<1> DEFINE I == {i \in DOMAIN urls : \A j \in 1 .. i - 1 : KeyOf[urls[j]] # KeyOf[urls[i]]}
           t == Pick(urls, I)
<1>1. /\ DOMAIN urls = 1 .. Len(urls) /\ Len(urls) \in Nat /\ 1 \in I /\ I \subseteq DOMAIN urls
  OBVIOUS
<1>2. \A i, j \in I : j < i => KeyOf[urls[j]] # KeyOf[urls[i]]
  <2>1. ASSUME NEW i \in I, NEW j \in I, j < i PROVE KeyOf[urls[j]] # KeyOf[urls[i]]
    <3>1. j \in 1 .. i - 1
      BY <1>1, <2>1
    <3> QED BY <3>1
  <2> QED BY <2>1
<1> HIDE DEF I
<1>3. IsFiniteSet(I) /\ I \subseteq Int /\ EntriesIn(urls, I, Trackers)
  BY <1>1, DomainFinite
<1> DEFINE n == Cardinality(I)
<1>4. /\ t \in Seq(Trackers) /\ Len(t) = n /\ DOMAIN t = 1 .. n
      /\ \A k \in 1 .. n : t[k] = urls[Nth(I, k)]
  BY <1>3, PickFacts
<1>5. /\ n \in Nat /\ \A k \in 1 .. n : Nth(I, k) \in I
      /\ \A k, l \in 1 .. n : k < l => Nth(I, k) < Nth(I, l)
  BY <1>3, NthFacts
<1>6. n # 0
  BY <1>1, <1>3, FS_EmptySet
<1> HIDE DEF n, t
<1>7. t # <<>>
  BY <1>4, <1>5, <1>6
<1>8. ASSUME NEW k \in 1 .. n, NEW l \in 1 .. n, KeyOf[t[k]] = KeyOf[t[l]] PROVE k = l
  <2>1. t[k] = urls[Nth(I, k)] /\ t[l] = urls[Nth(I, l)] /\ Nth(I, k) \in I /\ Nth(I, l) \in I
    BY <1>4, <1>5
  <2>2. ~(k < l) /\ ~(l < k)
    BY <2>1, <1>2, <1>5, <1>8
  <2> QED BY <2>2, <1>5
<1> QED BY <1>4, <1>7, <1>8 DEF Tiers, CreateTier, t, I

LEMMA CreateTierSame ==
  ASSUME NEW tier \in Tiers
  PROVE  CreateTier(tier) = tier /\ tier \in Seq(Trackers) /\ tier # <<>>
<1> DEFINE I == {i \in DOMAIN tier : \A j \in 1 .. i - 1 : KeyOf[tier[j]] # KeyOf[tier[i]]}
<1>1. tier \in Seq(Trackers) /\ DOMAIN tier = 1 .. Len(tier) /\ Len(tier) \in Nat /\ tier # <<>>
  BY DEF Tiers
<1>2. ASSUME NEW i \in DOMAIN tier, NEW j \in 1 .. i - 1 PROVE KeyOf[tier[j]] # KeyOf[tier[i]]
  <2>1. j \in DOMAIN tier /\ j # i
    BY <1>1
  <2> QED BY <2>1 DEF Tiers
<1>3. I = DOMAIN tier
  BY <1>2
<1> QED BY <1>1, <1>3, PickAll DEF CreateTier

LEMMA MakeListType ==
  ASSUME NEW tiers \in Seq(Seq(Trackers))
  PROVE  MakeList(tiers) \in Lists
<1> DEFINE I == {t \in DOMAIN tiers : tiers[t] # <<>>}
           full == Pick(tiers, I)
           S == Seq(Trackers) \ {<<>>}
<1>1. I \subseteq DOMAIN tiers
  OBVIOUS
<1>2. EntriesIn(tiers, I, S)
  BY <1>1, DomainFinite DEF EntriesIn
<1> HIDE DEF I
<1>3. full \in Seq(S)
  BY <1>2, PickFacts
<1> HIDE DEF full
<1>4. \A t \in DOMAIN full : CreateTier(full[t]) \in Tiers
  BY <1>3, CreateTierType
<1>5. DOMAIN full = 1 .. Len(full) /\ Len(full) \in Nat
  BY <1>3
<1>6. [t \in DOMAIN full |-> CreateTier(full[t])] \in Seq(Tiers)
  BY <1>4, <1>5
<1> QED BY <1>6 DEF MakeList, Lists, full, I

LEMMA MakeListSame ==
  ASSUME NEW list \in Lists
  PROVE  MakeList(list) = list /\ list \in Seq(Seq(Trackers))
<1> DEFINE I == {t \in DOMAIN list : list[t] # <<>>}
<1>1. /\ list \in Seq(Tiers) /\ DOMAIN list = 1 .. Len(list) /\ Len(list) \in Nat
      /\ \A t \in DOMAIN list : list[t] \in Tiers
  BY DEF Lists
<1>2. \A t \in DOMAIN list : list[t] # <<>> /\ CreateTier(list[t]) = list[t] /\ list[t] \in Seq(Trackers)
  BY <1>1, CreateTierSame
<1>3. I = DOMAIN list
  BY <1>2
<1>4. Pick(list, I) = list
  BY <1>1, <1>3, PickAll
<1>5. [t \in DOMAIN list |-> CreateTier(list[t])] = [t \in DOMAIN list |-> list[t]]
  BY <1>2
<1>6. list = [t \in DOMAIN list |-> list[t]] /\ list \in Seq(Seq(Trackers))
  BY <1>1, <1>2
<1> QED BY <1>4, <1>5, <1>6 DEF MakeList

-----------------------------------------------------------------------------
(* Pairs in their order *)

Precedes(p, q) == p[1] < q[1] \/ (p[1] = q[1] /\ p[2] < q[2])

\* A sequence that runs through the pairs of P in their order.
Runs(lines, P) ==
    /\ Cardinality(P) \in Nat /\ DOMAIN lines = 1 .. Cardinality(P)
    /\ \A k \in 1 .. Cardinality(P) : lines[k] \in P
    /\ \A k, l \in 1 .. Cardinality(P) : k < l => Precedes(lines[k], lines[l])
    /\ \A p \in P : \E k \in 1 .. Cardinality(P) : lines[k] = p

LEMMA InOrderRuns ==
  ASSUME NEW P, P \subseteq Int \X Int, IsFiniteSet(P)
  PROVE  Runs(InOrder(P), P)
<1> DEFINE R == {r \in P \X P : r[1] = r[2] \/ Precedes(r[1], r[2])}
           C(p) == Cardinality(Upto(P, p))
           n == Cardinality(P)
           L(k) == CHOOSE p \in P : C(p) = k
<1>1. ASSUME NEW x \in P, NEW y \in P
      PROVE  <<x, y>> \in R <=> (x[1] < y[1] \/ (x[1] = y[1] /\ x[2] <= y[2]))
  <2>1. PICK a \in Int, b \in Int, c \in Int, d \in Int : x = <<a, b>> /\ y = <<c, d>>
    BY P \subseteq Int \X Int
  <2> QED BY <2>1 DEF Precedes
<1>2. ASSUME NEW x \in P PROVE x[1] \in Int /\ x[2] \in Int /\ x = <<x[1], x[2]>>
  OBVIOUS
<1>3. ASSUME NEW x \in P, NEW y \in P, <<x, y>> \in R, <<y, x>> \in R PROVE x = y
  BY <1>1, <1>2, <1>3
<1>4. /\ \A x, y \in P : <<x, y>> \in R \/ <<y, x>> \in R
      /\ \A x, y, z \in P : <<x, y>> \in R /\ <<y, z>> \in R => <<x, z>> \in R
  BY <1>1, <1>2
<1>5. ASSUME NEW p \in P PROVE RankIn(P, R, p) = C(p)
  BY <1>1 DEF RankIn, Upto
<1>6. ASSUME NEW x \in P, NEW y \in P, x # y, <<x, y>> \in R PROVE Precedes(x, y)
  BY <1>6
<1> HIDE DEF R, C, n
<1>7. /\ n \in Nat
      /\ \A x \in P : RankIn(P, R, x) \in 1 .. n
      /\ \A x, y \in P : x # y /\ <<x, y>> \in R => RankIn(P, R, x) < RankIn(P, R, y)
      /\ \A k \in 1 .. n : \E x \in P : RankIn(P, R, x) = k
  BY <1>3, <1>4, Ranks DEF n
<1>8. ASSUME NEW k \in 1 .. n PROVE L(k) \in P /\ C(L(k)) = k
  <2>1. \E x \in P : C(x) = k
    BY <1>5, <1>7
  <2> QED BY <2>1
<1>9. ASSUME NEW x \in P, NEW y \in P PROVE C(x) \in Int /\ C(y) \in Int /\ (C(x) < C(y) => Precedes(x, y)) /\ (C(x) = C(y) => x = y)
  <2>1. C(x) \in Int /\ C(y) \in Int
    BY <1>5, <1>7
  <2>2. x # y /\ <<x, y>> \in R => C(x) < C(y)
    BY <1>5, <1>7
  <2>3. x # y /\ <<y, x>> \in R => C(y) < C(x)
    BY <1>5, <1>7
  <2>4. x = y \/ <<x, y>> \in R \/ <<y, x>> \in R
    BY <1>4
  <2> QED BY <2>1, <2>2, <2>3, <2>4, <1>6
<1>10. ASSUME NEW k \in 1 .. n, NEW l \in 1 .. n, k < l PROVE Precedes(L(k), L(l))
  BY <1>8, <1>9, <1>10
<1>11. ASSUME NEW p \in P PROVE \E k \in 1 .. n : L(k) = p
  <2>1. C(p) \in 1 .. n
    BY <1>5, <1>7
  <2> QED BY <2>1, <1>8, <1>9
<1>12. InOrder(P) = [k \in 1 .. n |-> L(k)]
  BY DEF InOrder, C, n
<1> HIDE DEF L
<1>13. DOMAIN InOrder(P) = 1 .. n /\ \A k \in 1 .. n : InOrder(P)[k] = L(k)
  BY <1>12
<1> QED BY <1>7, <1>8, <1>10, <1>11, <1>13 DEF Runs, n

\* Where a pair stands among those that a sequence runs through.
LEMMA RunsPlaces ==
  ASSUME NEW P, P \subseteq Int \X Int, NEW lines, Runs(lines, P)
  PROVE  \A k, l \in 1 .. Cardinality(P) : Precedes(lines[k], lines[l]) <=> k < l
<1> SUFFICES ASSUME NEW k \in 1 .. Cardinality(P), NEW l \in 1 .. Cardinality(P)
             PROVE  Precedes(lines[k], lines[l]) <=> k < l
  OBVIOUS
<1>1. lines[k] \in Int \X Int /\ lines[l] \in Int \X Int /\ k \in Int /\ l \in Int
  BY DEF Runs
<1>2. (k < l => Precedes(lines[k], lines[l])) /\ (l < k => Precedes(lines[l], lines[k]))
  BY DEF Runs
<1>3. ~(Precedes(lines[k], lines[l]) /\ Precedes(lines[l], lines[k])) /\ ~Precedes(lines[k], lines[k])
  BY <1>1 DEF Precedes
<1> QED BY <1>1, <1>2, <1>3

LEMMA PlacesFinite ==
  ASSUME NEW list \in Seq(Seq(Trackers))
  PROVE  Places(list) \subseteq Int \X Int /\ IsFiniteSet(Places(list))
<1> DEFINE D == DOMAIN list
           f == [t \in D |-> {t} \X DOMAIN list[t]]
           T == {{t} \X DOMAIN list[t] : t \in D}
<1>1. D = 1 .. Len(list) /\ Len(list) \in Nat /\ \A t \in D : list[t] \in Seq(Trackers)
  OBVIOUS
<1>2. ASSUME NEW t \in D PROVE IsFiniteSet({t} \X DOMAIN list[t]) /\ DOMAIN list[t] \subseteq Int
  <2>1. DOMAIN list[t] = 1 .. Len(list[t]) /\ Len(list[t]) \in Nat
    BY <1>1
  <2>2. IsFiniteSet({t}) /\ IsFiniteSet(DOMAIN list[t])
    <3>1. IsFiniteSet(1 .. Len(list[t]))
      BY <2>1, FS_Interval
    <3> QED BY <2>1, <3>1, FS_Singleton, Zenon
  <2> DEFINE A == {t}
             B == DOMAIN list[t]
  <2> HIDE DEF A, B
  <2>3. IsFiniteSet(A \X B)
    BY <2>2, FS_Product DEF A, B
  <2> QED BY <2>1, <2>3 DEF A, B
<1>3. IsFiniteSet(D)
  BY <1>1, FS_Interval
<1>4. f \in Surjection(D, T)
  BY DEF Surjection
<1>5. IsFiniteSet(T) /\ \A x \in T : IsFiniteSet(x)
  BY <1>2, <1>3, <1>4, FS_Surjection
<1> HIDE DEF T
<1>6. IsFiniteSet(UNION T)
  BY <1>5, FS_UNION
<1>7. UNION T \subseteq Int \X Int
  BY <1>1, <1>2 DEF T
<1> QED BY <1>6, <1>7 DEF Places, T

\* The URLs of a tier stand in a run through places in their order: picking them yields the tier.
LEMMA TierPicked ==
  ASSUME NEW tier \in Seq(Trackers), NEW t \in Int, NEW P, P \subseteq Int \X Int, NEW lines, Runs(lines, P),
         NEW I, I = {k \in 1 .. Cardinality(P) : lines[k] \in {t} \X DOMAIN tier},
         {t} \X DOMAIN tier \subseteq P,
         NEW urls, \A k \in I : urls[k] = tier[lines[k][2]]
  PROVE  Pick(urls, I) = tier
<1> DEFINE n == Len(tier)
           e == [i \in 1 .. n |-> CHOOSE k \in 1 .. Cardinality(P) : lines[k] = <<t, i>>]
<1>1. DOMAIN tier = 1 .. n /\ n \in Nat
  OBVIOUS
<1>2. ASSUME NEW i \in 1 .. n PROVE e[i] \in 1 .. Cardinality(P) /\ lines[e[i]] = <<t, i>>
  <2>1. <<t, i>> \in P
    BY <1>1
  <2>2. \E k \in 1 .. Cardinality(P) : lines[k] = <<t, i>>
    BY <2>1 DEF Runs
  <2> QED BY <2>2
<1> HIDE DEF e
<1>3. ASSUME NEW i \in 1 .. n PROVE e[i] \in I
  <2>1. <<t, i>> \in {t} \X DOMAIN tier
    BY <1>1
  <2> QED BY <1>2, <2>1
<1>4. ASSUME NEW i \in 1 .. n, NEW j \in 1 .. n, i < j PROVE e[i] < e[j]
  <2>1. Precedes(<<t, i>>, <<t, j>>)
    BY <1>4 DEF Precedes
  <2>2. Precedes(lines[e[i]], lines[e[j]])
    BY <1>2, <2>1, Zenon
  <2> QED BY <1>2, <2>2, RunsPlaces
<1>5. ASSUME NEW k \in I PROVE \E i \in 1 .. n : e[i] = k
  <2>1. PICK i \in 1 .. n : lines[k] = <<t, i>>
    BY <1>1
  <2>2. e[i] \in 1 .. Cardinality(P) /\ k \in 1 .. Cardinality(P) /\ lines[e[i]] = lines[k]
    BY <1>2, <2>1
  <2>3. ~Precedes(lines[k], lines[k])
    BY <2>1 DEF Precedes
  <2>4. ~(e[i] < k) /\ ~(k < e[i])
    BY <2>2, <2>3, RunsPlaces
  <2> QED BY <2>2, <2>4 DEF Runs
<1>6. Enumerates(e, n, I)
  <2>1. I \subseteq Int
    BY DEF Runs
  <2> QED BY <1>3, <1>4, <1>5, <2>1 DEF Enumerates
<1>7. Pick(urls, I) = Along(urls, e, n)
  BY <1>1, <1>6, PickBy
<1>8. ASSUME NEW i \in 1 .. n PROVE urls[e[i]] = tier[i]
  BY <1>2, <1>3
<1>9. tier = [i \in 1 .. n |-> tier[i]]
  BY <1>1
<1>10. Along(urls, e, n) = [i \in 1 .. n |-> tier[i]]
  BY <1>8 DEF Along
<1> QED BY <1>7, <1>9, <1>10

\* Empty tiers at the end of a list are left out.
LEMMA MakeListDrops ==
  ASSUME NEW list \in Lists, NEW m \in Nat, Len(list) <= m, NEW tiers, DOMAIN tiers = 1 .. m,
         \A b \in 1 .. m : tiers[b] = IF b <= Len(list) THEN list[b] ELSE <<>>
  PROVE  MakeList(tiers) = list
<1> DEFINE n == Len(list)
           e == [k \in 1 .. n |-> k]
           I == {t \in DOMAIN tiers : tiers[t] # <<>>}
<1>1. /\ n \in Nat /\ DOMAIN list = 1 .. n /\ list = [k \in 1 .. n |-> list[k]]
      /\ \A t \in DOMAIN list : list[t] \in Tiers
  BY DEF Lists
<1>2. \A t \in 1 .. n : list[t] # <<>> /\ CreateTier(list[t]) = list[t]
  BY <1>1, CreateTierSame
<1>3. I = 1 .. n
  BY <1>1, <1>2
<1>4. Enumerates(e, n, 1 .. n)
  BY <1>1 DEF Enumerates
<1>5. Along(tiers, e, n) = [k \in 1 .. n |-> list[k]]
  BY <1>1 DEF Along
<1> HIDE DEF e, I, n
<1>6. Pick(tiers, I) = list
  BY <1>1, <1>3, <1>4, <1>5, PickBy
<1>7. [t \in DOMAIN list |-> CreateTier(list[t])] = list
  BY <1>1, <1>2
<1> QED BY <1>6, <1>7 DEF MakeList, I

LEMMA PickNone ==
  ASSUME NEW s
  PROVE  Pick(s, {}) = <<>>
BY FS_EmptySet DEF Pick

LEMMA SeqTyped ==
  ASSUME NEW S, NEW n \in Nat, NEW s \in [1 .. n -> S]
  PROVE  s \in Seq(S) /\ Len(s) = n /\ DOMAIN s = 1 .. n
OBVIOUS

LEMMA CardUpTo ==
  ASSUME NEW n \in Nat
  PROVE  Cardinality(1 .. n) = n /\ IsFiniteSet(1 .. n)
<1>1. 1 \in Int /\ n \in Int
  OBVIOUS
<1>2. Cardinality(1 .. n) = (IF 1 > n THEN 0 ELSE n - 1 + 1) /\ IsFiniteSet(1 .. n)
  BY <1>1, FS_Interval
<1> QED BY <1>2

\* The length of a function over an initial part of the numbers.
LEMMA LenOf ==
  ASSUME NEW n \in Nat, NEW s, DOMAIN s = 1 .. n, s = [k \in DOMAIN s |-> s[k]]
  PROVE  Len(s) = n /\ s \in Seq({s[k] : k \in 1 .. n})
<1>1. s \in [1 .. n -> {s[k] : k \in 1 .. n}]
  OBVIOUS
<1> QED BY <1>1

\* Importing the text that was exported gives the list back: blank lines stand between the tiers
\* and no URL is taken for one, or for a comment (TrackerEngine::export_text, import_text).
THEOREM TextSurvives ==
  ASSUME NEW list \in Lists
  PROVE  ImportText(ExportText(list)) = list
<1> DEFINE N == Len(list)
           blanks == (2 .. N) \cup {N + 1}
           P == Places(list) \cup (blanks \X {0})
           n == Cardinality(P)
           lines == InOrder(P)
           text == ExportText(list)
           Blanks(k) == {j \in 1 .. k : text[j] = ""}
           C(k) == Cardinality(Blanks(k))
           I(b) == {i \in DOMAIN text : /\ text[i] \notin {"", Comment}
                                        /\ C(i) = b}
           TierAt(b) == Pick(text, I(b))
<1>1. /\ N \in Nat /\ DOMAIN list = 1 .. N /\ list \in Seq(Seq(Trackers))
      /\ \A t \in 1 .. N : list[t] \in Seq(Trackers)
  BY MakeListSame DEF Lists
<1>2. P \subseteq Int \X Int /\ IsFiniteSet(P)
  <2>1. IsFiniteSet(2 .. N) /\ IsFiniteSet({N + 1}) /\ IsFiniteSet({0})
    <3>1. 2 \in Int /\ N \in Int
      BY <1>1
    <3> HIDE DEF N
    <3> QED BY <3>1, FS_Interval, FS_Singleton
  <2>2. IsFiniteSet(blanks)
    BY <2>1, FS_Union
  <2> HIDE DEF blanks
  <2>3. IsFiniteSet(blanks \X {0})
    BY <2>1, <2>2, FS_Product
  <2>4. IsFiniteSet(P)
    BY <1>1, <2>3, PlacesFinite, FS_Union
  <2>5. blanks \X {0} \subseteq Int \X Int
    BY <1>1 DEF blanks
  <2> QED BY <1>1, <2>4, <2>5, PlacesFinite
<1>3. Runs(lines, P)
  BY <1>2, InOrderRuns
<1>4. ASSUME NEW p \in P
      PROVE  \/ p[2] = 0 /\ p[1] \in blanks /\ p = <<p[1], 0>>
             \/ /\ p[1] \in 1 .. N /\ p[2] \in DOMAIN list[p[1]] /\ p[2] \in Nat \ {0}
                /\ p = <<p[1], p[2]>> /\ list[p[1]][p[2]] \in Trackers
  <2>1. CASE p \in blanks \X {0}
    BY <2>1
  <2>2. CASE p \in Places(list)
    <3>1. PICK t \in DOMAIN list : p \in {t} \X DOMAIN list[t]
      BY <2>2 DEF Places
    <3>2. DOMAIN list[t] = 1 .. Len(list[t]) /\ Len(list[t]) \in Nat /\ t \in 1 .. N
      BY <1>1
    <3>3. p[1] = t /\ p[2] \in DOMAIN list[t] /\ p = <<p[1], p[2]>>
      BY <3>1
    <3>4. list[t][p[2]] \in Trackers
      BY <1>1, <3>2, <3>3
    <3>5. p[2] \in Nat \ {0}
      BY <3>2, <3>3
    <3> QED BY <3>2, <3>3, <3>4, <3>5
  <2> QED BY <2>1, <2>2
<1>5. /\ DOMAIN text = 1 .. n /\ n \in Nat /\ Len(text) = n
      /\ \A k \in 1 .. n : text[k] = IF lines[k][2] = 0 THEN "" ELSE list[lines[k][1]][lines[k][2]]
  <2>1. n \in Nat /\ DOMAIN lines = 1 .. n
    BY <1>3 DEF Runs
  <2>2. text = [k \in DOMAIN lines |-> IF lines[k][2] = 0 THEN "" ELSE list[lines[k][1]][lines[k][2]]]
    BY DEF ExportText
  <2> HIDE DEF text, lines, n, P
  <2>3. DOMAIN text = 1 .. n /\ \A k \in 1 .. n : text[k] = IF lines[k][2] = 0 THEN "" ELSE list[lines[k][1]][lines[k][2]]
    BY <2>1, <2>2
  <2>4. Len(text) = n
    <3>1. text = [k \in DOMAIN text |-> text[k]]
      BY <2>2
    <3> QED BY <2>1, <2>3, <3>1, LenOf
  <2> QED BY <2>1, <2>3, <2>4
<1> HIDE DEF P, n, lines, text, N, blanks
<1>55. n \in Nat /\ N \in Nat
  BY <1>1, <1>5
<1> HIDE DEF Blanks, C, I, TierAt
<1>6. ASSUME NEW k \in 1 .. n PROVE lines[k] \in P
  BY <1>3 DEF Runs, n
<1>7. ASSUME NEW k \in 1 .. n
      PROVE  IF lines[k][2] = 0 THEN text[k] = "" ELSE text[k] \in Trackers \ {"", Comment}
  BY <1>4, <1>5, <1>6, TrackerAssumption DEF Comment
<1> DEFINE e == [b \in 1 .. N |-> CHOOSE j \in 1 .. n : lines[j] = <<b + 1, 0>>]
<1>8. ASSUME NEW b \in 1 .. N PROVE e[b] \in 1 .. n /\ lines[e[b]] = <<b + 1, 0>>
  <2>1. b + 1 \in blanks
    BY <1>1 DEF blanks
  <2>2. <<b + 1, 0>> \in P
    BY <2>1 DEF P
  <2>3. \E j \in 1 .. n : lines[j] = <<b + 1, 0>>
    BY <1>3, <2>2 DEF Runs, n
  <2> QED BY <2>3
<1> HIDE DEF e
<1>9. ASSUME NEW b \in 1 .. N, NEW c \in 1 .. N, b < c PROVE e[b] < e[c]
  <2>1. Precedes(<<b + 1, 0>>, <<c + 1, 0>>)
    BY <1>1, <1>9 DEF Precedes
  <2>2. Precedes(lines[e[b]], lines[e[c]])
    BY <1>8, <2>1, Zenon
  <2> QED BY <1>2, <1>3, <1>8, <2>2, RunsPlaces DEF n
<1>10. ASSUME NEW k \in 1 .. n, lines[k][2] # 0 PROVE C(k) = lines[k][1] - 1
  <2> DEFINE t == lines[k][1]
             i == lines[k][2]
  <2>0. k \in Int /\ k <= n
    BY <1>55
  <2>1. t \in 1 .. N /\ i \in Nat \ {0} /\ lines[k] = <<t, i>> /\ t \in Int
    <3>1. t \in 1 .. N /\ i \in Nat \ {0} /\ lines[k] = <<t, i>>
      BY <1>4, <1>6, <1>10
    <3> QED BY <1>55, <3>1
  <2> HIDE DEF t, i
  <2>2. ASSUME NEW b \in 1 .. t - 1 PROVE b \in 1 .. N /\ e[b] \in Blanks(k)
    <3>1. b \in 1 .. N /\ b + 1 <= t
      BY <1>1, <2>1
    <3>2. Precedes(<<b + 1, 0>>, <<t, i>>)
      BY <2>1, <3>1 DEF Precedes
    <3>3. Precedes(lines[e[b]], lines[k])
      BY <1>8, <2>1, <3>1, <3>2, Zenon
    <3>4. e[b] < k
      BY <1>2, <1>3, <1>8, <3>1, <3>3, RunsPlaces DEF n
    <3>5. e[b] \in 1 .. n /\ lines[e[b]][2] = 0
      BY <1>8, <3>1
    <3>6. e[b] \in 1 .. k
      BY <1>55, <2>0, <3>4, <3>5
    <3>7. text[e[b]] = ""
      BY <1>7, <3>5
    <3> QED BY <3>1, <3>6, <3>7 DEF Blanks
  <2>3. ASSUME NEW j \in Blanks(k) PROVE \E b \in 1 .. t - 1 : e[b] = j
    <3>00. j \in 1 .. k
      BY DEF Blanks
    <3>0. text[j] = ""
      BY DEF Blanks
    <3>1. j \in 1 .. n /\ j <= k /\ j \in Int
      BY <1>55, <2>0, <3>00
    <3>2. lines[j][2] = 0
      BY <1>7, <3>0, <3>1
    <3> DEFINE c == lines[j][1]
    <3>3. lines[j] = <<c, 0>> /\ c \in blanks
      <4>1. lines[j] \in P
        BY <1>6, <3>1
      <4> QED BY <1>4, <3>2, <4>1
    <3> HIDE DEF c
    <3>33. c \in Int /\ (c >= 2 \/ c = N + 1)
      <4>1. c \in (2 .. N) \cup {N + 1}
        BY <3>3 DEF blanks
      <4> QED BY <1>55, <4>1
    <3>4. j # k
      BY <1>10, <3>2
    <3>5. Precedes(lines[j], lines[k])
      <4>1. j < k
        BY <2>0, <3>1, <3>4
      <4> QED BY <1>2, <1>3, <3>1, <4>1, RunsPlaces DEF n
    <3>6. c <= t
      <4>1. Precedes(<<c, 0>>, <<t, i>>)
        BY <2>1, <3>3, <3>5, Zenon
      <4> QED BY <2>1, <3>33, <4>1 DEF Precedes
    <3>7. c - 1 \in 1 .. t - 1 /\ c - 1 \in 1 .. N /\ (c - 1) + 1 = c
      BY <1>55, <2>1, <3>33, <3>6
    <3>8. lines[e[c - 1]] = <<c, 0>> /\ e[c - 1] \in 1 .. n
      BY <1>8, <3>7, Zenon
    <3>9. e[c - 1] = j
      <4>0. ~Precedes(<<c, 0>>, <<c, 0>>)
        BY <3>33 DEF Precedes
      <4>1. ~Precedes(lines[j], lines[j])
        BY <3>3, <4>0, Zenon
      <4>2. ~Precedes(lines[j], lines[e[c - 1]]) /\ ~Precedes(lines[e[c - 1]], lines[j])
        BY <3>3, <3>8, <4>1, Zenon
      <4>3. ~(e[c - 1] < j) /\ ~(j < e[c - 1])
        BY <1>2, <1>3, <3>1, <3>8, <4>2, RunsPlaces DEF n
      <4> DEFINE d == e[c - 1]
      <4> HIDE DEF d
      <4>4. d \in Int
        BY <1>55, <3>8 DEF d
      <4>5. ~(d < j) /\ ~(j < d)
        BY <4>3 DEF d
      <4>6. d = j
        BY <3>1, <4>4, <4>5
      <4> QED BY <4>6 DEF d
    <3> QED BY <3>7, <3>9
  <2>4. Enumerates(e, t - 1, Blanks(k)) /\ t - 1 \in Nat
    <3>1. \A b, c \in 1 .. t - 1 : b < c => e[b] < e[c]
      BY <1>9, <2>2
    <3>2. Blanks(k) \subseteq Int /\ t - 1 \in Nat
      <4>1. t - 1 \in Nat
        BY <1>55, <2>1
      <4>2. Blanks(k) \subseteq 1 .. k
        BY DEF Blanks
      <4>3. 1 .. k \subseteq Int
        BY <2>0
      <4> QED BY <4>1, <4>2, <4>3
    <3> HIDE DEF Blanks
    <3> QED BY <2>2, <2>3, <3>1, <3>2 DEF Enumerates
  <2>5. Cardinality(Blanks(k)) = t - 1
    BY <2>4, NthUnique
  <2> QED BY <2>5 DEF t, C
<1> DEFINE m == C(n)
<1> HIDE DEF m
<1>11. m \in Nat /\ N <= m
  <2> DEFINE J == {e[b] : b \in 1 .. N}
  <2>1. IsFiniteSet(Blanks(n))
    <3>1. 1 \in Int /\ n \in Int
      BY <1>55
    <3>2. IsFiniteSet(1 .. n)
      BY <3>1, FS_Interval
    <3>3. Blanks(n) \subseteq 1 .. n
      BY DEF Blanks
    <3> QED BY <3>2, <3>3, FS_Subset
  <2>2. J \subseteq Blanks(n)
    <3>1. ASSUME NEW b \in 1 .. N PROVE e[b] \in Blanks(n)
      <4>1. e[b] \in 1 .. n /\ lines[e[b]][2] = 0
        BY <1>8
      <4> QED BY <1>7, <4>1 DEF Blanks
    <3> QED BY <3>1
  <2>3. Enumerates(e, N, J)
    <3>1. \A b \in 1 .. N : e[b] \in J /\ e[b] \in Int
      BY <1>8, <1>55
    <3> QED BY <1>9, <3>1 DEF Enumerates
  <2> HIDE DEF J
  <2>4. IsFiniteSet(J) /\ Cardinality(J) = N
    BY <1>1, <2>3, NthUnique
  <2>5. Cardinality(Blanks(n)) \in Nat /\ N <= Cardinality(Blanks(n))
    BY <1>1, <2>1, <2>2, <2>4, FS_Subset, FS_CardinalityType
  <2> QED BY <2>5 DEF m, C
<1>12. ASSUME NEW b \in 1 .. m + 1
       PROVE  TierAt(b - 1) = IF b <= N THEN list[b] ELSE <<>>
  <2>1. I(b - 1) = {k \in 1 .. n : lines[k][2] # 0 /\ lines[k][1] - 1 = b - 1}
    <3>1. ASSUME NEW k \in 1 .. n
          PROVE  (text[k] \notin {"", Comment} /\ C(k) = b - 1) <=> (lines[k][2] # 0 /\ lines[k][1] - 1 = b - 1)
      BY <1>7, <1>10
    <3>2. DOMAIN text = 1 .. n
      BY <1>5
    <3> QED BY <3>1, <3>2 DEF I
  <2>2. ASSUME NEW k \in 1 .. n, lines[k][2] # 0
        PROVE  lines[k][1] \in 1 .. N /\ lines[k] = <<lines[k][1], lines[k][2]>>
               /\ lines[k][2] \in DOMAIN list[lines[k][1]]
    BY <1>4, <1>6, <2>2
  <2>3. b \in Int
    BY <1>11
  <2>4. CASE b <= N
    <3>1. b \in 1 .. N
      BY <2>3, <2>4, <1>55, <1>11
    <3>2. {b} \X DOMAIN list[b] \subseteq P
      BY <1>1, <3>1 DEF P, Places
    <3>3. I(b - 1) = {k \in 1 .. n : lines[k] \in {b} \X DOMAIN list[b]}
      <4>1. ASSUME NEW k \in 1 .. n
            PROVE  (lines[k][2] # 0 /\ lines[k][1] - 1 = b - 1) <=> lines[k] \in {b} \X DOMAIN list[b]
        <5>1. ASSUME lines[k][2] # 0, lines[k][1] - 1 = b - 1 PROVE lines[k] \in {b} \X DOMAIN list[b]
          <6>1. lines[k][1] = b
            BY <1>55, <2>2, <2>3, <5>1
          <6>2. lines[k] = <<b, lines[k][2]>> /\ lines[k][2] \in DOMAIN list[b]
            BY <2>2, <5>1, <6>1, Zenon
          <6> DEFINE i == lines[k][2]
          <6> HIDE DEF i
          <6>3. <<b, i>> \in {b} \X DOMAIN list[b]
            BY <6>2 DEF i
          <6> QED BY <6>2, <6>3, Zenon DEF i
        <5>2. ASSUME lines[k] \in {b} \X DOMAIN list[b] PROVE lines[k][2] # 0 /\ lines[k][1] - 1 = b - 1
          <6>1. lines[k][1] = b /\ lines[k][2] \in DOMAIN list[b]
            BY <5>2
          <6>2. DOMAIN list[b] = 1 .. Len(list[b])
            BY <1>1, <3>1
          <6> QED BY <6>1, <6>2
        <5> QED BY <5>1, <5>2
      <4> QED BY <2>1, <4>1
    <3>4. \A k \in I(b - 1) : text[k] = list[b][lines[k][2]]
      BY <1>5, <2>1, <3>3
    <3>5. list[b] \in Seq(Trackers)
      BY <1>1, <3>1
    <3> DEFINE Ib == I(b - 1)
               tier == list[b]
    <3> HIDE DEF Ib, tier
    <3>6. Pick(text, Ib) = tier
      <4>1. Ib = {k \in 1 .. Cardinality(P) : lines[k] \in {b} \X DOMAIN tier}
        BY <3>3 DEF Ib, tier, n
      <4>2. \A k \in Ib : text[k] = tier[lines[k][2]]
        BY <3>4 DEF Ib, tier
      <4>3. tier \in Seq(Trackers) /\ {b} \X DOMAIN tier \subseteq P
        BY <3>2, <3>5 DEF tier
      <4> QED BY <1>2, <1>3, <2>3, <4>1, <4>2, <4>3, TierPicked, SMTT(60)
    <3> QED BY <2>4, <3>6 DEF Ib, tier, TierAt
  <2>5. CASE ~(b <= N)
    <3>1. I(b - 1) = {}
      <4>1. ASSUME NEW k \in 1 .. n, lines[k][2] # 0 PROVE lines[k][1] - 1 # b - 1
        BY <1>55, <2>2, <2>3, <2>5, <4>1
      <4> QED BY <2>1, <4>1
    <3> QED BY <2>5, <3>1, PickNone DEF TierAt
  <2> QED BY <2>4, <2>5
<1> DEFINE tiers == [b \in 1 .. m + 1 |-> TierAt(b - 1)]
<1>13. ImportText(text) = MakeList(tiers)
  <2>1. \A i \in DOMAIN text : text[i] \in {"", Comment} \/ Valid(text[i])
    BY <1>5, <1>7 DEF Valid
  <2>2. tiers = [b \in 1 .. Cardinality(Blanks(Len(text))) + 1 |-> TierAt(b - 1)]
    BY <1>5 DEF m, C
  <2> QED BY <2>1, <2>2 DEF ImportText, TierAt, I, C, Blanks
<1>14. MakeList(tiers) = list
  <2>1. DOMAIN tiers = 1 .. m + 1 /\ \A b \in 1 .. m + 1 : tiers[b] = IF b <= Len(list) THEN list[b] ELSE <<>>
    BY <1>12 DEF N
  <2> HIDE DEF tiers
  <2>2. m + 1 \in Nat /\ Len(list) <= m + 1
    <3>1. m + 1 \in Nat /\ N <= m + 1
      BY <1>1, <1>11
    <3> QED BY <3>1 DEF N
  <2> QED BY <2>1, <2>2, MakeListDrops
<1> QED BY <1>13, <1>14 DEF text

-----------------------------------------------------------------------------
(* A list as a JSON document and as a table *)

\* A list is the one its JSON document holds.
LEMMA JsonSurvives ==
  ASSUME NEW list \in Lists
  PROVE  ImportJson(ExportJson(list)) = list
<1>1. MakeList(list) = list /\ list \in Seq(Tiers)
  BY MakeListSame DEF Lists
<1>2. ASSUME NEW t \in DOMAIN list
      PROVE  list[t] # <<>> /\ \A i \in DOMAIN list[t] : Valid(list[t][i])
  <2>1. list[t] \in Tiers
    BY <1>1
  <2> QED BY <2>1 DEF Tiers, Valid
<1> DEFINE document == ExportJson(list)
<1>3. document.members = <<"format", "tiers">> /\ document.format = "v1" /\ document.tiers = list
  BY DEF ExportJson
<1> HIDE DEF document
<1> QED BY <1>1, <1>2, <1>3 DEF ImportJson, document

\* A list is the one its table shows.
LEMMA TableSurvives ==
  ASSUME NEW list \in Lists
  PROVE  /\ tracker_list_from_model(populate_tracker_model(list)) = list
         /\ populate_tracker_model(list) \in Seq([tier : Int, url : Trackers])
<1> DEFINE N == Len(list)
           P == Places(list)
           n == Cardinality(P)
           lines == InOrder(P)
           rows == populate_tracker_model(list)
           url(k) == list[lines[k][1]][lines[k][2]]
<1>1. /\ N \in Nat /\ DOMAIN list = 1 .. N /\ list \in Seq(Seq(Trackers))
      /\ list = [t \in 1 .. N |-> list[t]]
  BY MakeListSame DEF Lists
<1>2. ASSUME NEW t \in 1 .. N
      PROVE  list[t] \in Seq(Trackers) /\ CreateTier(list[t]) = list[t] /\ 1 \in DOMAIN list[t]
  <2>1. list[t] \in Tiers
    BY <1>1 DEF Lists
  <2>2. list[t] \in Seq(Trackers) /\ list[t] # <<>> /\ CreateTier(list[t]) = list[t]
    BY <2>1, CreateTierSame
  <2> QED BY <2>2
<1>3. P \subseteq Int \X Int /\ IsFiniteSet(P) /\ Runs(lines, P)
  BY <1>1, PlacesFinite, InOrderRuns
<1>4. n \in Nat /\ DOMAIN lines = 1 .. n /\ \A k \in 1 .. n : lines[k] \in P
  BY <1>3 DEF Runs
<1>5. ASSUME NEW p \in P
      PROVE  p[1] \in 1 .. N /\ p[2] \in DOMAIN list[p[1]] /\ p = <<p[1], p[2]>>
  BY <1>1 DEF Places
<1>6. ASSUME NEW t \in 1 .. N PROVE {t} \X DOMAIN list[t] \subseteq P
  BY <1>1 DEF Places
<1> HIDE DEF N, P, lines
<1>7. rows = [k \in 1 .. n |-> [tier |-> lines[k][1], url |-> url(k)]]
  BY <1>4 DEF populate_tracker_model, lines, P
<1> HIDE DEF rows, n
<1>8. ASSUME NEW k \in 1 .. n
      PROVE  rows[k].tier = lines[k][1] /\ rows[k].url = url(k) /\ rows[k].tier \in 1 .. N /\ url(k) \in Trackers
  <2>1. lines[k][1] \in 1 .. N /\ lines[k][2] \in DOMAIN list[lines[k][1]]
    BY <1>4, <1>5
  <2> DEFINE t == lines[k][1]
             i == lines[k][2]
  <2>2. rows[k] = [tier |-> t, url |-> url(k)]
    BY <1>7
  <2> HIDE DEF t, i
  <2>3. list[t] \in Seq(Trackers) /\ i \in DOMAIN list[t]
    BY <1>2, <2>1 DEF t, i
  <2>4. list[t][i] \in Trackers
    BY <2>3
  <2> QED BY <2>1, <2>2, <2>4 DEF t, i
<1> HIDE DEF url
<1>9. DOMAIN rows = 1 .. n
  BY <1>7
<1>10. {r.tier : r \in ToSet(rows)} = 1 .. N
  <2>1. ASSUME NEW t \in 1 .. N PROVE \E k \in 1 .. n : rows[k].tier = t
    <3>1. <<t, 1>> \in P
      BY <1>2, <1>6
    <3>2. PICK k \in 1 .. n : lines[k] = <<t, 1>>
      BY <1>3, <3>1 DEF Runs, n
    <3> QED BY <1>8, <3>2
  <2>2. ToSet(rows) = {rows[k] : k \in 1 .. n}
    BY <1>9 DEF ToSet
  <2> QED BY <1>8, <2>1, <2>2
<1>11. Cardinality(1 .. N) = N
  BY <1>1, CardUpTo
<1>12. \A r \in ToSet(rows) : Valid(r.url)
  BY <1>8, <1>9 DEF ToSet, Valid
<1> DEFINE urls == [r \in DOMAIN rows |-> rows[r].url]
           I(t) == {r \in DOMAIN rows : rows[r].tier = t}
<1>13. ASSUME NEW t \in 1 .. N PROVE Pick(urls, I(t)) = list[t]
  <2> DEFINE tier == list[t]
             J == {k \in 1 .. Cardinality(P) : lines[k] \in {t} \X DOMAIN tier}
  <2>0. t \in Int
    BY <1>1
  <2>1. I(t) = J
    <3>1. ASSUME NEW k \in 1 .. n
          PROVE  rows[k].tier = t <=> lines[k] \in {t} \X DOMAIN tier
      <4>1. rows[k].tier = lines[k][1] /\ lines[k] = <<lines[k][1], lines[k][2]>>
            /\ lines[k][2] \in DOMAIN list[lines[k][1]]
        BY <1>4, <1>5, <1>8
      <4>2. ASSUME rows[k].tier = t PROVE lines[k] \in {t} \X DOMAIN tier
        <5> DEFINE i == lines[k][2]
        <5>1. lines[k] = <<t, i>> /\ i \in DOMAIN tier
          BY <4>1, <4>2, Zenon
        <5> HIDE DEF i
        <5>2. <<t, i>> \in {t} \X DOMAIN tier
          BY <5>1
        <5> QED BY <5>1, <5>2, Zenon
      <4>3. ASSUME lines[k] \in {t} \X DOMAIN tier PROVE rows[k].tier = t
        BY <4>1, <4>3
      <4> QED BY <4>2, <4>3
    <3> QED BY <1>9, <3>1 DEF n
  <2>2. \A k \in J : urls[k] = tier[lines[k][2]]
    <3>1. ASSUME NEW k \in J PROVE urls[k] = tier[lines[k][2]]
      <4>1. k \in 1 .. n /\ lines[k][1] = t
        BY DEF n
      <4>2. urls[k] = rows[k].url
        BY <1>9, <4>1
      <4>3. rows[k].url = list[lines[k][1]][lines[k][2]]
        BY <1>8, <4>1 DEF url
      <4> QED BY <4>1, <4>2, <4>3
    <3> QED BY <3>1
  <2>3. tier \in Seq(Trackers) /\ {t} \X DOMAIN tier \subseteq P
    BY <1>2, <1>6
  <2>4. J = {k \in 1 .. Cardinality(P) : lines[k] \in {t} \X DOMAIN tier}
    OBVIOUS
  <2> HIDE DEF J, tier, urls
  <2>5. Pick(urls, J) = tier
    BY <1>3, <2>0, <2>2, <2>3, <2>4, TierPicked, SMTT(60)
  <2> QED BY <2>1, <2>5 DEF tier
<1> HIDE DEF I
<1>14. [t \in 1 .. N |-> CreateTier(Pick(urls, I(t)))] = list
  BY <1>1, <1>2, <1>13
<1>15. tracker_list_from_model(rows) = [t \in 1 .. N |-> CreateTier(Pick(urls, I(t)))]
  BY <1>10, <1>11, <1>12 DEF tracker_list_from_model, I
<1>16. rows \in Seq([tier : Int, url : Trackers])
  <2>1. ASSUME NEW k \in 1 .. n PROVE [tier |-> lines[k][1], url |-> url(k)] \in [tier : Int, url : Trackers]
    <3>1. lines[k][1] \in Int
      BY <1>3, <1>4
    <3> QED BY <1>8, <3>1
  <2>2. rows \in [1 .. n -> [tier : Int, url : Trackers]]
    BY <1>7, <2>1
  <2> QED BY <1>4, <2>2, SeqTyped
<1> QED BY <1>14, <1>15, <1>16 DEF rows

-----------------------------------------------------------------------------
(* Edits of a list *)

\* What is left of a sequence without one entry.
LEMMA RemoveAtFacts ==
  ASSUME NEW S, NEW s \in Seq(S), NEW i \in DOMAIN s
  PROVE  /\ RemoveAt(s, i) \in Seq(S) /\ Len(RemoveAt(s, i)) = Len(s) - 1
         /\ DOMAIN RemoveAt(s, i) = 1 .. Len(s) - 1
         /\ \A k \in 1 .. Len(s) - 1 : RemoveAt(s, i)[k] = IF k < i THEN s[k] ELSE s[k + 1]
<1> DEFINE n == Len(s)
           a == SubSeq(s, 1, i - 1)
           b == SubSeq(s, i + 1, n)
<1>1. n \in Nat /\ i \in 1 .. n /\ DOMAIN s = 1 .. n
  OBVIOUS
<1>2. a \in Seq(S) /\ Len(a) = i - 1 /\ \A k \in 1 .. i - 1 : a[k] = s[k]
  BY <1>1
<1>3. b \in Seq(S) /\ Len(b) = n - i /\ \A k \in 1 .. n - i : b[k] = s[k + i]
  <2>1. b \in Seq(S) /\ Len(b) = n - i
    BY <1>1
  <2>2. ASSUME NEW k \in 1 .. n - i PROVE b[k] = s[k + i]
    <3>1. b[k] = s[(i + 1) + k - 1]
      BY <1>1
    <3>2. (i + 1) + k - 1 = k + i
      BY <1>1
    <3> QED BY <3>1, <3>2
  <2> QED BY <2>1, <2>2
<1>4. RemoveAt(s, i) = a \o b
  BY DEF RemoveAt
<1> HIDE DEF n, a, b
<1>5. a \o b \in Seq(S) /\ Len(a \o b) = n - 1
  <2>1. a \o b \in Seq(S) /\ Len(a \o b) = Len(a) + Len(b)
    BY <1>2, <1>3, ConcatProperties
  <2>2. Len(a) + Len(b) = n - 1
    BY <1>1, <1>2, <1>3
  <2> QED BY <2>1, <2>2
<1>6. ASSUME NEW k \in 1 .. n - 1 PROVE (a \o b)[k] = IF k < i THEN s[k] ELSE s[k + 1]
  <2>1. k \in 1 .. Len(a) + Len(b) /\ Len(a) = i - 1 /\ Len(b) = n - i
    BY <1>1, <1>2, <1>3
  <2>2. (a \o b)[k] = IF k <= Len(a) THEN a[k] ELSE b[k - Len(a)]
    BY <1>2, <1>3, <2>1
  <2>3. CASE k < i
    <3>1. k <= Len(a) /\ k \in 1 .. i - 1
      BY <1>1, <2>1, <2>3
    <3> QED BY <1>2, <2>2, <2>3, <3>1
  <2>4. CASE ~(k < i)
    <3>1. ~(k <= Len(a)) /\ k - Len(a) \in 1 .. n - i /\ (k - Len(a)) + i = k + 1
      BY <1>1, <2>1, <2>4
    <3>2. b[k - Len(a)] = s[k + 1]
      BY <1>3, <3>1
    <3> QED BY <2>2, <2>4, <3>1, <3>2
  <2> QED BY <2>3, <2>4
<1> QED BY <1>4, <1>5, <1>6 DEF n

\* A sequence with an entry more.
Inserted(s, d, x, k) == IF k < d THEN s[k] ELSE IF k = d THEN x ELSE s[k - 1]

LEMMA InsertAtFacts ==
  ASSUME NEW S, NEW s \in Seq(S), NEW d \in 1 .. Len(s) + 1, NEW x \in S
  PROVE  /\ InsertAt(s, d, x) \in Seq(S) /\ Len(InsertAt(s, d, x)) = Len(s) + 1
         /\ DOMAIN InsertAt(s, d, x) = 1 .. Len(s) + 1
         /\ \A k \in 1 .. Len(s) + 1 : InsertAt(s, d, x)[k] = Inserted(s, d, x, k)
<1> DEFINE n == Len(s)
           a == SubSeq(s, 1, d - 1)
           ax == Append(a, x)
           b == SubSeq(s, d, n)
<1>1. n \in Nat /\ d \in 1 .. n + 1 /\ DOMAIN s = 1 .. n
  OBVIOUS
<1>2. a \in Seq(S) /\ Len(a) = d - 1 /\ \A k \in 1 .. d - 1 : a[k] = s[k]
  BY <1>1
<1>3. b \in Seq(S) /\ Len(b) = n - d + 1 /\ \A k \in 1 .. n - d + 1 : b[k] = s[k + d - 1]
  <2>1. b \in Seq(S) /\ Len(b) = n - d + 1
    BY <1>1
  <2>2. ASSUME NEW k \in 1 .. n - d + 1 PROVE b[k] = s[k + d - 1]
    <3>1. b[k] = s[d + k - 1]
      BY <1>1
    <3>2. d + k - 1 = k + d - 1
      BY <1>1
    <3> QED BY <3>1, <3>2
  <2> QED BY <2>1, <2>2
<1>4. InsertAt(s, d, x) = a \o <<x>> \o b
  BY DEF InsertAt
<1> HIDE DEF n, a, b
<1>5. a \o <<x>> = ax
  BY <1>2
<1>6. ax \in Seq(S) /\ Len(ax) = d /\ ax[d] = x /\ \A k \in 1 .. d - 1 : ax[k] = s[k]
  BY <1>1, <1>2
<1> HIDE DEF ax
<1>7. ax \o b \in Seq(S) /\ Len(ax \o b) = n + 1
  <2>1. ax \o b \in Seq(S) /\ Len(ax \o b) = Len(ax) + Len(b)
    BY <1>3, <1>6, ConcatProperties
  <2>2. Len(ax) + Len(b) = n + 1
    BY <1>1, <1>3, <1>6
  <2> QED BY <2>1, <2>2
<1>8. ASSUME NEW k \in 1 .. n + 1
      PROVE  (ax \o b)[k] = IF k < d THEN s[k] ELSE IF k = d THEN x ELSE s[k - 1]
  <2>1. k \in 1 .. Len(ax) + Len(b) /\ Len(ax) = d /\ Len(b) = n - d + 1
    BY <1>1, <1>6, <1>3
  <2>2. (ax \o b)[k] = IF k <= Len(ax) THEN ax[k] ELSE b[k - Len(ax)]
    BY <1>6, <1>3, <2>1
  <2>3. CASE k < d
    <3>1. k <= Len(ax) /\ k \in 1 .. d - 1
      BY <1>1, <2>1, <2>3
    <3> QED BY <1>6, <2>2, <2>3, <3>1
  <2>4. CASE k = d
    <3>1. k <= Len(ax) /\ ~(k < d)
      BY <1>1, <2>1, <2>4
    <3> QED BY <1>6, <2>2, <2>4, <3>1
  <2>5. CASE k > d
    <3>1. ~(k <= Len(ax)) /\ k - Len(ax) \in 1 .. n - d + 1 /\ (k - Len(ax)) + d - 1 = k - 1 /\ ~(k < d) /\ k # d
      BY <1>1, <2>1, <2>5
    <3>2. b[k - Len(ax)] = s[k - 1]
      BY <1>3, <3>1
    <3> QED BY <2>2, <3>1, <3>2
  <2>6. k < d \/ k = d \/ k > d
    BY <1>1
  <2> QED BY <2>3, <2>4, <2>5, <2>6
<1>9. InsertAt(s, d, x) = ax \o b
  BY <1>4, <1>5, Zenon
<1> DEFINE new == ax \o b
<1> HIDE DEF new
<1>10. new \in Seq(S) /\ Len(new) = n + 1 /\ DOMAIN new = 1 .. n + 1
  BY <1>7 DEF new
<1>11. \A k \in 1 .. n + 1 : new[k] = Inserted(s, d, x, k)
  BY <1>8 DEF new, Inserted
<1> QED BY <1>9, <1>10, <1>11 DEF n, new

\* To leave out one index is to remove its entry.
LEMMA PickRest ==
  ASSUME NEW S, NEW s \in Seq(S), NEW i \in DOMAIN s
  PROVE  Pick(s, DOMAIN s \ {i}) = RemoveAt(s, i)
<1> DEFINE n == Len(s) - 1
           e == [k \in 1 .. n |-> IF k < i THEN k ELSE k + 1]
           I == DOMAIN s \ {i}
<1>1. n \in Nat /\ DOMAIN s = 1 .. n + 1 /\ i \in 1 .. n + 1 /\ i \in Int
  OBVIOUS
<1> HIDE DEF n
<1>2. ASSUME NEW k \in 1 .. n PROVE e[k] \in I
  BY <1>1
<1>3. ASSUME NEW k \in 1 .. n, NEW l \in 1 .. n, k < l PROVE e[k] < e[l]
  BY <1>1, <1>3
<1>4. ASSUME NEW j \in I PROVE \E k \in 1 .. n : e[k] = j
  <2>1. j \in 1 .. n + 1 /\ j # i /\ j \in Int
    BY <1>1
  <2>2. CASE j < i
    <3>1. j \in 1 .. n /\ e[j] = j
      BY <1>1, <2>1, <2>2
    <3> QED BY <3>1
  <2>3. CASE j > i
    <3>1. j - 1 \in 1 .. n
      BY <1>1, <2>1, <2>3
    <3>2. e[j - 1] = j
      BY <1>1, <2>1, <2>3, <3>1
    <3> QED BY <3>1, <3>2
  <2> QED BY <1>1, <2>1, <2>2, <2>3
<1>5. Enumerates(e, n, I)
  <2>1. I \subseteq Int
    BY <1>1
  <2> HIDE DEF I, e
  <2> QED BY <1>2, <1>3, <1>4, <2>1 DEF Enumerates
<1>6. Pick(s, I) = Along(s, e, n)
  BY <1>1, <1>5, PickBy
<1>7. /\ RemoveAt(s, i) \in Seq(S) /\ DOMAIN RemoveAt(s, i) = 1 .. n
      /\ \A k \in 1 .. n : RemoveAt(s, i)[k] = IF k < i THEN s[k] ELSE s[k + 1]
  BY RemoveAtFacts DEF n
<1>8. RemoveAt(s, i) = [k \in 1 .. n |-> RemoveAt(s, i)[k]]
  BY <1>7
<1>9. ASSUME NEW k \in 1 .. n PROVE s[e[k]] = RemoveAt(s, i)[k]
  BY <1>7
<1>10. Along(s, e, n) = [k \in 1 .. n |-> RemoveAt(s, i)[k]]
  BY <1>9 DEF Along
<1> QED BY <1>6, <1>8, <1>10

\* Where the entry stood that stands at k after the one at i was moved to d.
From(i, d, k) ==
    IF k < d THEN (IF k < i THEN k ELSE k + 1)
    ELSE IF k = d THEN i ELSE (IF k - 1 < i THEN k - 1 ELSE k)

LEMMA FromFacts ==
  ASSUME NEW n \in Nat, NEW i \in 1 .. n, NEW d \in 1 .. n
  PROVE  /\ \A k \in 1 .. n : From(i, d, k) \in 1 .. n
         /\ \A k, l \in 1 .. n : From(i, d, k) = From(i, d, l) => k = l
BY DEF From

LEMMA MovedFacts ==
  ASSUME NEW S, NEW s \in Seq(S), NEW i \in DOMAIN s, NEW d \in DOMAIN s
  PROVE  /\ Moved(s, i, d) = InsertAt(RemoveAt(s, i), d, s[i])
         /\ Moved(s, i, d) = [k \in DOMAIN s |-> s[From(i, d, k)]]
         /\ Moved(s, i, d) \in Seq(S)
<1> DEFINE n == Len(s)
           rest == RemoveAt(s, i)
           new == InsertAt(rest, d, s[i])
           moved == Moved(s, i, d)
<1>1. n \in Nat /\ DOMAIN s = 1 .. n /\ i \in 1 .. n /\ d \in 1 .. n /\ s[i] \in S
  OBVIOUS
<1>2. /\ rest \in Seq(S) /\ Len(rest) = n - 1
      /\ \A k \in 1 .. n - 1 : rest[k] = IF k < i THEN s[k] ELSE s[k + 1]
  BY RemoveAtFacts
<1>3. moved = [k \in 1 .. n |-> IF k < d THEN rest[k] ELSE IF k = d THEN s[i] ELSE rest[k - 1]]
  BY <1>1, PickRest DEF Moved
<1> HIDE DEF n, rest, moved
<1>4. d \in 1 .. Len(rest) + 1 /\ Len(rest) + 1 = n
  BY <1>1, <1>2
<1>5. /\ new \in Seq(S) /\ DOMAIN new = 1 .. n
      /\ \A k \in 1 .. n : new[k] = IF k < d THEN rest[k] ELSE IF k = d THEN s[i] ELSE rest[k - 1]
  <2> HIDE DEF new
  <2> DEFINE x == s[i]
  <2>1. x \in S
    BY <1>1
  <2>3. rest \in Seq(S)
    BY <1>2
  <2>4. d \in 1 .. Len(rest) + 1
    BY <1>4
  <2> HIDE DEF x
  <2>2. InsertAt(rest, d, x) \in Seq(S) /\ DOMAIN InsertAt(rest, d, x) = 1 .. Len(rest) + 1
    BY <2>1, <2>3, <2>4, InsertAtFacts
  <2>5. ASSUME NEW k \in 1 .. Len(rest) + 1
        PROVE  InsertAt(rest, d, x)[k] = Inserted(rest, d, x, k)
    BY <2>1, <2>3, <2>4, InsertAtFacts
  <2> QED BY <1>4, <2>2, <2>5 DEF x, new, Inserted
<1> HIDE DEF new
<1>6. new = [k \in 1 .. n |-> new[k]]
  BY <1>5
<1>7. new = moved
  BY <1>3, <1>5, <1>6
<1>8. ASSUME NEW k \in 1 .. n
      PROVE  (IF k < d THEN rest[k] ELSE IF k = d THEN s[i] ELSE rest[k - 1]) = s[From(i, d, k)]
  <2>1. CASE k < d
    <3>1. k \in 1 .. n - 1
      BY <1>1, <2>1
    <3> QED BY <1>2, <2>1, <3>1 DEF From
  <2>2. CASE k = d
    BY <1>1, <2>2 DEF From
  <2>3. CASE k > d
    <3>1. k - 1 \in 1 .. n - 1 /\ (k - 1) + 1 = k /\ ~(k < d) /\ k # d
      BY <1>1, <2>3
    <3>2. rest[k - 1] = IF k - 1 < i THEN s[k - 1] ELSE s[k]
      BY <1>2, <3>1
    <3> QED BY <3>1, <3>2 DEF From
  <2>4. k < d \/ k = d \/ k > d
    BY <1>1
  <2> QED BY <2>1, <2>2, <2>3, <2>4
<1>9. moved = [k \in 1 .. n |-> s[From(i, d, k)]]
  BY <1>3, <1>8
<1> QED BY <1>1, <1>5, <1>7, <1>9 DEF moved, new, rest

-----------------------------------------------------------------------------
(* The edits of a list *)

\* A tier with its entries in another order is a tier.
LEMMA MovedTier ==
  ASSUME NEW tier \in Tiers, NEW i \in DOMAIN tier, NEW d \in DOMAIN tier
  PROVE  Moved(tier, i, d) \in Tiers
<1> DEFINE n == Len(tier)
           moved == Moved(tier, i, d)
<1>1. tier \in Seq(Trackers) /\ n \in Nat /\ DOMAIN tier = 1 .. n /\ i \in 1 .. n /\ d \in 1 .. n
  BY DEF Tiers
<1>11. tier \in Seq(Trackers)
  BY <1>1
<1>2. moved = [k \in DOMAIN tier |-> tier[From(i, d, k)]] /\ moved \in Seq(Trackers)
  BY <1>11, MovedFacts
<1> HIDE DEF n, moved
<1>3. /\ \A k \in 1 .. n : From(i, d, k) \in 1 .. n
      /\ \A k, l \in 1 .. n : From(i, d, k) = From(i, d, l) => k = l
  BY <1>1, FromFacts
<1>4. ASSUME NEW k \in 1 .. n, NEW l \in 1 .. n, KeyOf[moved[k]] = KeyOf[moved[l]] PROVE k = l
  <2>1. KeyOf[tier[From(i, d, k)]] = KeyOf[tier[From(i, d, l)]]
    BY <1>1, <1>2, <1>4
  <2>2. From(i, d, k) = From(i, d, l)
    BY <1>1, <1>3, <2>1 DEF Tiers
  <2> QED BY <1>3, <2>2
<1>5. DOMAIN moved = 1 .. n /\ moved # <<>>
  BY <1>1, <1>2
<1> QED BY <1>2, <1>4, <1>5 DEF Tiers, moved

\* A list with a tier replaced.
LEMMA ReplacedTier ==
  ASSUME NEW S, NEW list \in Seq(S), NEW t \in DOMAIN list, NEW tier \in S, NEW new, new = [list EXCEPT ![t] = tier]
  PROVE  new \in Seq(S) /\ Len(new) = Len(list) /\ DOMAIN new = DOMAIN list
<1>1. Len(list) \in Nat /\ DOMAIN list = 1 .. Len(list)
  OBVIOUS
<1>2. new \in [1 .. Len(list) -> S]
  BY <1>1
<1> QED BY <1>1, <1>2, SeqTyped

LEMMA TierEdits ==
  ASSUME NEW list \in Lists, NEW t \in DOMAIN list, NEW i, NEW url \in Trackers
  PROVE  /\ MakeList([list EXCEPT ![t] = Append(@, url)]) \in Lists
         /\ i \in DOMAIN list[t] => MakeList([list EXCEPT ![t] = RemoveAt(@, i)]) \in Lists
<1>1. list \in Seq(Seq(Trackers)) /\ list[t] \in Seq(Trackers)
  BY MakeListSame
<1>2. Append(list[t], url) \in Seq(Trackers)
  BY <1>1
<1>3. MakeList([list EXCEPT ![t] = Append(@, url)]) \in Lists
  <2> DEFINE tier == Append(list[t], url)
             new == [list EXCEPT ![t] = tier]
  <2>1. [list EXCEPT ![t] = Append(@, url)] = new
    OBVIOUS
  <2> HIDE DEF tier
  <2>2. new \in Seq(Seq(Trackers))
    BY <1>1, <1>2, ReplacedTier DEF tier
  <2> HIDE DEF new
  <2> QED BY <2>1, <2>2, MakeListType
<1>4. ASSUME i \in DOMAIN list[t] PROVE MakeList([list EXCEPT ![t] = RemoveAt(@, i)]) \in Lists
  <2> DEFINE tier == RemoveAt(list[t], i)
             new == [list EXCEPT ![t] = tier]
  <2>1. [list EXCEPT ![t] = RemoveAt(@, i)] = new
    OBVIOUS
  <2>2. tier \in Seq(Trackers)
    BY <1>1, <1>4, RemoveAtFacts
  <2> HIDE DEF tier
  <2>3. new \in Seq(Seq(Trackers))
    BY <1>1, <2>2, ReplacedTier
  <2> HIDE DEF new
  <2> QED BY <2>1, <2>3, MakeListType
<1> QED BY <1>3, <1>4

\* A tracker that moves within its tier.
LEMMA MovesWithin ==
  ASSUME NEW list \in Lists, NEW t \in DOMAIN list, NEW i \in DOMAIN list[t], NEW d \in DOMAIN list[t]
  PROVE  /\ MoveTrackerWithinTier(list, t, i, d) = [list EXCEPT ![t] = Moved(@, i, d)]
         /\ [list EXCEPT ![t] = Moved(@, i, d)] \in Lists
<1>1. list \in Seq(Tiers) /\ list[t] \in Tiers /\ list[t] \in Seq(Trackers)
  BY CreateTierSame DEF Lists
<1> DEFINE tier == list[t]
           new == [list EXCEPT ![t] = Moved(tier, i, d)]
<1>2. Moved(tier, i, d) \in Tiers /\ Moved(tier, i, d) = InsertAt(RemoveAt(tier, i), d, tier[i])
  BY <1>1, MovedTier, MovedFacts
<1>3. new \in Lists
  BY <1>1, <1>2, ReplacedTier DEF Lists
<1>4. [list EXCEPT ![t] = InsertAt(RemoveAt(@, i), d, @[i])] = new
  BY <1>2
<1>5. d \in 1 .. Len(list[t])
  BY <1>1
<1>6. MakeList(new) = new
  BY <1>3, MakeListSame
<1> HIDE DEF new
<1>7. MoveTrackerWithinTier(list, t, i, d) = MakeList(new)
  BY <1>4, <1>5 DEF MoveTrackerWithinTier
<1> QED BY <1>3, <1>6, <1>7 DEF new

\* A tier that moves.
TierMoved(list, s, d) ==
    [t \in DOMAIN list |->
       list[CHOOSE u \in DOMAIN list : Moved([v \in DOMAIN list |-> v], s, d)[t] = u]]

LEMMA MovesTier ==
  ASSUME NEW list \in Lists, NEW s \in DOMAIN list, NEW d \in DOMAIN list
  PROVE  /\ MoveTier(list, s, d) = Moved(list, s, d) /\ Moved(list, s, d) \in Lists
         /\ Moved(list, s, d) = TierMoved(list, s, d)
<1> DEFINE n == Len(list)
           id == [v \in DOMAIN list |-> v]
<1>1. list \in Seq(Tiers) /\ n \in Nat /\ DOMAIN list = 1 .. n /\ s \in 1 .. n /\ d \in 1 .. n
  BY DEF Lists
<1>2. /\ Moved(list, s, d) = InsertAt(RemoveAt(list, s), d, list[s])
      /\ Moved(list, s, d) = [k \in DOMAIN list |-> list[From(s, d, k)]]
      /\ Moved(list, s, d) \in Seq(Tiers)
  BY <1>1, MovedFacts
<1> HIDE DEF n
<1>3. MoveTier(list, s, d) = Moved(list, s, d)
  <2>1. MoveTier(list, s, d) = MakeList(Moved(list, s, d))
    BY <1>2 DEF MoveTier
  <2> QED BY <1>2, <2>1, MakeListSame DEF Lists
<1>4. id \in Seq(1 .. n) /\ DOMAIN id = 1 .. n
  BY <1>1, SeqTyped
<1>5. ASSUME NEW t \in 1 .. n
      PROVE  (CHOOSE u \in DOMAIN list : Moved(id, s, d)[t] = u) = From(s, d, t)
  <2>1. Moved(id, s, d) = [k \in 1 .. n |-> id[From(s, d, k)]]
    <3> HIDE DEF id
    <3>1. s \in DOMAIN id /\ d \in DOMAIN id
      BY <1>1, <1>4
    <3>2. Moved(id, s, d) = [k \in DOMAIN id |-> id[From(s, d, k)]]
      <4>1. id \in Seq(1 .. n)
        BY <1>4
      <4> QED BY <3>1, <4>1, MovedFacts
    <3> QED BY <1>4, <3>2, Zenon
  <2>2. From(s, d, t) \in 1 .. n
    BY <1>1, FromFacts
  <2>3. Moved(id, s, d)[t] = From(s, d, t)
    BY <1>1, <2>1, <2>2
  <2> HIDE DEF id
  <2> QED BY <1>1, <2>2, <2>3
<1>6. [k \in DOMAIN list |-> list[From(s, d, k)]] =
        [t \in DOMAIN list |-> list[CHOOSE u \in DOMAIN list : Moved(id, s, d)[t] = u]]
  BY <1>1, <1>5
<1> QED BY <1>2, <1>3, <1>6 DEF Lists, TierMoved

\* A tracker that moves to another tier: a tier it leaves empty vanishes.
LEMMA MovesAcross ==
  ASSUME NEW list \in Lists, NEW s \in DOMAIN list, NEW d \in DOMAIN list, s # d, NEW i \in DOMAIN list[s]
  PROVE  /\ MoveTracker(list, s, i, d) =
              MakeList([list EXCEPT ![s] = RemoveAt(@, i), ![d] = Append(@, list[s][i])])
         /\ MoveTracker(list, s, i, d) \in Lists
<1> DEFINE n == Len(list)
           url == list[s][i]
           short == RemoveAt(list[s], i)
           long == Append(list[d], url)
           shorter == [list EXCEPT ![s] = short]
           A == [shorter EXCEPT ![d] = long]
           S == Seq(Trackers)
<1>1. /\ list \in Seq(S) /\ n \in Nat /\ DOMAIN list = 1 .. n /\ s \in 1 .. n /\ d \in 1 .. n
      /\ list[s] \in S /\ list[d] \in S
  BY MakeListSame
<1>2. \A t \in 1 .. n : list[t] # <<>>
  BY <1>1, CreateTierSame DEF Lists
<1>3. url \in Trackers /\ short \in S
  BY <1>1, RemoveAtFacts
<1>4. long \in S /\ long # <<>>
  <2>1. ASSUME NEW tier \in S, NEW u \in Trackers PROVE Append(tier, u) \in S /\ Append(tier, u) # <<>>
    OBVIOUS
  <2> QED BY <1>1, <1>3, <2>1
<1> HIDE DEF n, short, url, long
<1>5. shorter \in Seq(S) /\ Len(shorter) = n /\ DOMAIN shorter = 1 .. n
      /\ \A t \in 1 .. n : shorter[t] = IF t = s THEN short ELSE list[t]
  <2>1. shorter \in Seq(S) /\ Len(shorter) = n /\ DOMAIN shorter = 1 .. n
    BY <1>1, <1>3, ReplacedTier DEF n
  <2> QED BY <1>1, <2>1
<1> HIDE DEF shorter
<1>6. A \in Seq(S) /\ Len(A) = n /\ DOMAIN A = 1 .. n
      /\ \A t \in 1 .. n : A[t] = IF t = d THEN long ELSE IF t = s THEN short ELSE list[t]
  <2>1. d \in DOMAIN shorter
    BY <1>1, <1>5
  <2>2. A \in Seq(S) /\ Len(A) = n /\ DOMAIN A = 1 .. n
    BY <1>4, <1>5, <2>1, ReplacedTier
  <2> QED BY <1>1, <1>5, <2>2
<1>7. [list EXCEPT ![s] = RemoveAt(@, i), ![d] = Append(@, list[s][i])] = A
  <2>1. A = [[list EXCEPT ![s] = short] EXCEPT ![d] = long]
    BY DEF shorter
  <2>2. [list EXCEPT ![s] = short][d] = list[d]
    BY <1>1
  <2> QED BY <2>1, <2>2 DEF short, long, url
<1> HIDE DEF A
<1>8. MakeList(A) \in Lists
  BY <1>6, MakeListType
<1>9. CASE short # <<>>
  <2>1. shorter[s] # <<>> /\ shorter[d] = list[d]
    BY <1>1, <1>5, <1>9
  <2>2. [shorter EXCEPT ![d] = Append(@, url)] = A
    BY <2>1 DEF A, long
  <2>3. MoveTracker(list, s, i, d) = MakeList([shorter EXCEPT ![d] = Append(@, url)])
    BY <2>1 DEF MoveTracker, shorter, short, url
  <2> QED BY <1>7, <1>8, <2>2, <2>3
<1>10. CASE short = <<>>
  <2> DEFINE rest == RemoveAt(shorter, s)
             to == IF s < d THEN d - 1 ELSE d
             B == [rest EXCEPT ![to] = long]
             C == RemoveAt(A, s)
  <2>1. /\ rest \in Seq(S) /\ DOMAIN rest = 1 .. n - 1
        /\ \A k \in 1 .. n - 1 : rest[k] = IF k < s THEN shorter[k] ELSE shorter[k + 1]
    <3>1. s \in DOMAIN shorter
      BY <1>1, <1>5
    <3> QED BY <1>5, <3>1, RemoveAtFacts
  <2>2. /\ C \in Seq(S) /\ DOMAIN C = 1 .. n - 1
        /\ \A k \in 1 .. n - 1 : C[k] = IF k < s THEN A[k] ELSE A[k + 1]
    <3>1. s \in DOMAIN A
      BY <1>1, <1>6
    <3> QED BY <1>6, <3>1, RemoveAtFacts
  <2>3. to \in 1 .. n - 1 /\ rest[to] = list[d]
    <3>1. to \in 1 .. n - 1 /\ (s < d => to + 1 = d /\ ~(to < s)) /\ (~(s < d) => to = d /\ to < s)
      BY <1>1
    <3> HIDE DEF to, rest
    <3>2. rest[to] = shorter[d]
      BY <2>1, <3>1
    <3> QED BY <1>1, <1>5, <3>1, <3>2
  <2> HIDE DEF rest, C
  <2>4. ASSUME NEW k \in 1 .. n - 1 PROVE B[k] = C[k]
    <3>1. B[k] = IF k = to THEN long ELSE rest[k]
      BY <2>1
    <3>2. CASE k = to
      <4>1. C[k] = A[d]
        <5>1. to \in 1 .. n - 1 /\ (IF to < s THEN to = d ELSE to + 1 = d)
          BY <1>1
        <5> HIDE DEF to
        <5> QED BY <2>2, <3>2, <5>1
      <4> QED BY <1>1, <1>6, <3>1, <3>2, <4>1
    <3>3. CASE k # to
      <4> DEFINE j == IF k < s THEN k ELSE k + 1
      <4>1. j \in 1 .. n /\ j # d /\ j # s
        BY <1>1, <3>3
      <4>2. C[k] = A[j] /\ rest[k] = shorter[j]
        BY <2>1, <2>2
      <4> HIDE DEF j, to, B
      <4>3. A[j] = list[j] /\ shorter[j] = list[j]
        BY <1>5, <1>6, <4>1
      <4> QED BY <3>1, <3>3, <4>2, <4>3
    <3> QED BY <3>2, <3>3
  <2>5. B = C
    <3>1. C = [k \in 1 .. n - 1 |-> C[k]] /\ B = [k \in 1 .. n - 1 |-> B[k]]
      <4>1. C = [k \in 1 .. n - 1 |-> C[k]]
        BY <2>2
      <4>2. DOMAIN B = 1 .. n - 1 /\ B = [k \in DOMAIN B |-> B[k]]
        BY <2>1
      <4> QED BY <4>1, <4>2
    <3> HIDE DEF B
    <3> QED BY <2>4, <3>1
  <2>6. MoveTracker(list, s, i, d) = MakeList(B)
    <3>1. shorter[s] = <<>>
      BY <1>1, <1>5, <1>10
    <3>2. [rest EXCEPT ![to] = Append(@, url)] = B
      BY <2>3 DEF long
    <3> HIDE DEF B
    <3> QED BY <3>1, <3>2 DEF MoveTracker, shorter, short, url, rest
  <2> HIDE DEF B
  <2>7. {t \in DOMAIN A : A[t] # <<>>} = DOMAIN A \ {s}
    <3>1. ASSUME NEW t \in 1 .. n PROVE A[t] # <<>> <=> t # s
      BY <1>1, <1>2, <1>4, <1>6, <1>10
    <3> QED BY <1>6, <3>1
  <2>8. Pick(A, DOMAIN A \ {s}) = C
    BY <1>1, <1>6, PickRest DEF C
  <2>9. {t \in DOMAIN C : C[t] # <<>>} = DOMAIN C
    <3>1. ASSUME NEW k \in 1 .. n - 1 PROVE C[k] # <<>>
      <4> DEFINE j == IF k < s THEN k ELSE k + 1
      <4>1. j \in 1 .. n /\ j # s
        BY <1>1
      <4>2. C[k] = A[j]
        BY <2>2
      <4> HIDE DEF j
      <4> QED BY <1>2, <1>4, <1>6, <4>1, <4>2
    <3> QED BY <2>2, <3>1
  <2>10. Pick(C, DOMAIN C) = C
    BY <2>2, PickAll
  <2>11. MakeList(A) = MakeList(C)
    BY <2>7, <2>8, <2>9, <2>10 DEF MakeList
  <2> QED BY <1>7, <1>8, <2>5, <2>6, <2>11
<1> QED BY <1>9, <1>10

\* The arguments that the edits of trackers take.
LEMMA TrackerArguments ==
  ASSUME NEW action \in Actions
  PROVE  /\ action.kind = "trackers" => action.value \in Lists
         /\ action.kind = "add_to_tier" => action.value \in Int \X Trackers
         /\ action.kind = "add_tier" => action.value \in Tiers
         /\ action.kind \in {"remove", "move_tier"} => action.value \in Int \X Int
         /\ action.kind \in {"move", "move_within"} => action.value \in Int \X Int \X Int
BY DEF Actions

\* An edit of the trackers that is not refused does what was asked for, with no tier left empty
\* and no tracker twice in one: the operations of tracker_engine.cpp, which move entries between
\* tiers while tiers vanish, against definitions that only say where each entry ends.
THEOREM EditedAsRequested ==
  ASSUME NEW list \in Lists, NEW action \in Actions, action.kind \in TrackerActions,
         EditTrackers(list, action) # Refused
  PROVE  /\ EditTrackers(list, action) \in Lists
         /\ EditTrackers(list, action) = RequestedTrackers(list, action)
<1> DEFINE arg == action.value
<1>1. CASE action.kind = "trackers"
  BY <1>1, TrackerArguments DEF EditTrackers, RequestedTrackers
<1>2. CASE action.kind = "add_to_tier"
  <2>1. EditTrackers(list, action) = AddToTier(list, arg[1], arg[2])
    BY <1>2 DEF EditTrackers
  <2>2. RequestedTrackers(list, action) = MakeList([list EXCEPT ![arg[1]] = Append(@, arg[2])])
    BY <1>2 DEF RequestedTrackers
  <2>3. arg[2] \in Trackers
    BY <1>2, TrackerArguments
  <2>4. arg[1] \in DOMAIN list
    BY <2>1 DEF AddToTier
  <2> HIDE DEF arg
  <2>5. MakeList([list EXCEPT ![arg[1]] = Append(@, arg[2])]) \in Lists
    BY <2>3, <2>4, TierEdits
  <2> QED BY <2>1, <2>2, <2>4, <2>5 DEF AddToTier
<1>3. CASE action.kind = "add_tier"
  <2>1. EditTrackers(list, action) = MakeList(Append(list, arg))
    BY <1>3 DEF EditTrackers, AddTier
  <2>2. RequestedTrackers(list, action) = Append(list, arg)
    BY <1>3 DEF RequestedTrackers
  <2>3. arg \in Tiers
    BY <1>3, TrackerArguments
  <2> HIDE DEF arg
  <2>4. Append(list, arg) \in Lists
    BY <2>3 DEF Lists
  <2> QED BY <2>1, <2>2, <2>4, MakeListSame
<1>4. CASE action.kind = "remove"
  <2>1. EditTrackers(list, action) = RemoveTracker(list, arg[1], arg[2])
    BY <1>4 DEF EditTrackers
  <2>2. RequestedTrackers(list, action) = MakeList([list EXCEPT ![arg[1]] = RemoveAt(@, arg[2])])
    BY <1>4 DEF RequestedTrackers
  <2>3. arg[1] \in DOMAIN list /\ arg[2] \in DOMAIN list[arg[1]]
    BY <2>1 DEF RemoveTracker
  <2> HIDE DEF arg
  <2>4. PICK url \in Trackers : TRUE
    <3>1. list[arg[1]] \in Seq(Trackers)
      BY <2>3, MakeListSame
    <3> QED BY <2>3, <3>1
  <2>5. MakeList([list EXCEPT ![arg[1]] = RemoveAt(@, arg[2])]) \in Lists
    BY <2>3, <2>4, TierEdits
  <2> QED BY <2>1, <2>2, <2>3, <2>5 DEF RemoveTracker
<1>5. CASE action.kind = "move"
  <2> DEFINE s == arg[1]
             i == arg[2]
             d == arg[3]
  <2>1. EditTrackers(list, action) = MoveTracker(list, s, i, d)
    BY <1>5 DEF EditTrackers
  <2>2. RequestedTrackers(list, action) =
          MakeList([list EXCEPT ![s] = RemoveAt(@, i), ![d] = Append(@, list[s][i])])
    BY <1>5 DEF RequestedTrackers
  <2> HIDE DEF s, i, d
  <2>3. s \in DOMAIN list /\ d \in DOMAIN list /\ s # d /\ i \in DOMAIN list[s]
    BY <2>1 DEF MoveTracker
  <2> QED BY <2>1, <2>2, <2>3, MovesAcross
<1>6. CASE action.kind = "move_within"
  <2> DEFINE s == arg[1]
             i == arg[2]
             d == arg[3]
  <2>1. EditTrackers(list, action) = MoveTrackerWithinTier(list, s, i, d)
    BY <1>6 DEF EditTrackers
  <2>2. RequestedTrackers(list, action) = [list EXCEPT ![s] = Moved(@, i, d)]
    BY <1>6 DEF RequestedTrackers
  <2> HIDE DEF s, i, d
  <2>3. s \in DOMAIN list /\ d \in 1 .. Len(list[s]) /\ i \in DOMAIN list[s]
    BY <2>1 DEF MoveTrackerWithinTier
  <2>4. d \in DOMAIN list[s]
    <3>1. list[s] \in Seq(Trackers)
      BY <2>3, MakeListSame
    <3> QED BY <2>3, <3>1
  <2> QED BY <2>1, <2>2, <2>3, <2>4, MovesWithin
<1>7. CASE action.kind = "move_tier"
  <2> DEFINE s == arg[1]
             d == arg[2]
  <2>1. EditTrackers(list, action) = MoveTier(list, s, d)
    BY <1>7 DEF EditTrackers
  <2>2. RequestedTrackers(list, action) = TierMoved(list, s, d)
    BY <1>7 DEF RequestedTrackers, TierMoved
  <2> HIDE DEF s, d
  <2>3. s \in DOMAIN list /\ d \in DOMAIN list
    BY <2>1 DEF MoveTier
  <2> QED BY <2>1, <2>2, <2>3, MovesTier
<1> QED BY <1>1, <1>2, <1>3, <1>4, <1>5, <1>6, <1>7 DEF TrackerActions

-----------------------------------------------------------------------------
(* Reading a torrent *)

LEMMA TorrentTypes ==
  ASSUME NEW t \in Torrents
  PROVE  /\ t.announce \in Strings \cup {None} /\ t.announce_list \in Seq(Seq(Strings)) \cup {None}
         /\ t.comment \in Keys /\ t.creator \in Keys /\ t.date \in Dates \cup {None}
         /\ t.url_list \in StringLists /\ t.httpseeds \in StringLists /\ t.source \in Keys
         /\ t.unknown \in BOOLEAN
         /\ t.info.name \in Keys /\ t.info.private \in Int \cup {None} /\ t.info.source \in Keys
         /\ t.info.sorted \in BOOLEAN
BY DEF Torrents

LEMMA DocumentTypes ==
  ASSUME NEW d \in Documents
  PROVE  /\ d.info.name \in OptionalTexts /\ d.info.private \in BOOLEAN /\ d.info \in Infos
         /\ d.metadata \in Metadata
         /\ d.metadata.comment \in OptionalTexts /\ d.metadata.creator \in OptionalTexts
         /\ d.metadata.source \in OptionalTexts /\ d.metadata.date \in Dates \cup {None}
         /\ d.metadata.web_seeds \in Seq(SeedUrls)
         /\ d.trackers \in Lists /\ d.retained \in Torrents /\ d.mode \in Modes
BY DEF Documents, Infos, Metadata

LEMMA ReadText ==
  /\ \A value \in Keys : read_optional_text(value) \in OptionalTexts
  /\ \A value \in OptionalTexts : read_optional_text(value) = value /\ value # BadText /\ value \in Keys
BY MetadataAssumption DEF Keys, OptionalTexts, read_optional_text

LEMMA ListedType ==
  ASSUME NEW S, NEW value \in Seq(S) \cup {None}
  PROVE  Listed(value) \in Seq(S)
BY DEF Listed

\* What is picked by a condition fulfills it.
LEMMA PickType ==
  ASSUME NEW S, NEW s \in Seq(S), NEW T, NEW I, I = {i \in DOMAIN s : s[i] \in T}
  PROVE  Pick(s, I) \in Seq(T)
<1>1. I \subseteq DOMAIN s
  OBVIOUS
<1>2. EntriesIn(s, I, T)
  BY <1>1, DomainFinite DEF EntriesIn
<1> QED BY <1>2, PickFacts

LEMMA ReadSeeds ==
  ASSUME NEW t \in Torrents
  PROVE  read_web_seed_field(t) \in Seq(SeedUrls)
<1> DEFINE a == Listed(t.url_list)
           b == Listed(t.httpseeds)
           urls == a \o b
<1>1. a \in Seq(Strings) /\ b \in Seq(Strings)
  BY TorrentTypes, ListedType DEF StringLists
<1> HIDE DEF a, b
<1>2. urls \in Seq(Strings)
  BY <1>1, ConcatProperties
<1>3. Pick(urls, {i \in DOMAIN urls : urls[i] \in SeedUrls}) \in Seq(SeedUrls)
  <2> HIDE DEF urls
  <2> QED BY <1>2, PickType
<1> QED BY <1>3 DEF read_web_seed_field, a, b

\* The valid URLs of the tiers of a torrent.
ValidTiers(tiers) ==
    [k \in DOMAIN tiers |-> Pick(tiers[k], {i \in DOMAIN tiers[k] : Valid(tiers[k][i])})]

LEMMA ValidTiersType ==
  ASSUME NEW tiers \in Seq(Seq(Strings))
  PROVE  ValidTiers(tiers) \in Seq(Seq(Trackers))
<1>1. ASSUME NEW k \in DOMAIN tiers
      PROVE  Pick(tiers[k], {i \in DOMAIN tiers[k] : Valid(tiers[k][i])}) \in Seq(Trackers)
  <2> DEFINE tier == tiers[k]
             I == {i \in DOMAIN tier : tier[i] \in Trackers}
  <2>1. tier \in Seq(Strings)
    OBVIOUS
  <2> HIDE DEF tier
  <2>2. Pick(tier, I) \in Seq(Trackers)
    BY <2>1, PickType
  <2> QED BY <2>2 DEF tier, Valid
<1>2. DOMAIN tiers = 1 .. Len(tiers) /\ Len(tiers) \in Nat
  OBVIOUS
<1>3. ValidTiers(tiers) \in [1 .. Len(tiers) -> Seq(Trackers)]
  BY <1>1, <1>2 DEF ValidTiers
<1> QED BY <1>2, <1>3, SeqTyped

LEMMA SingleTier ==
  ASSUME NEW url \in Trackers
  PROVE  << <<url>> >> \in Lists
<1>1. <<url>> \in Seq(Trackers) /\ <<url>> # <<>> /\ DOMAIN <<url>> = {1}
  OBVIOUS
<1>2. <<url>> \in Tiers
  BY <1>1 DEF Tiers
<1> QED BY <1>2 DEF Lists

LEMMA ReadTrackersBy ==
  ASSUME NEW t
  PROVE  read_trackers(t) =
           IF MakeList(ValidTiers(Listed(t.announce_list))) # <<>>
           THEN MakeList(ValidTiers(Listed(t.announce_list)))
           ELSE IF Valid(t.announce) THEN << <<t.announce>> >> ELSE <<>>
BY DEF read_trackers, ValidTiers

LEMMA ReadTrackers ==
  ASSUME NEW t \in Torrents
  PROVE  read_trackers(t) \in Lists
<1>1. Listed(t.announce_list) \in Seq(Seq(Strings))
  BY TorrentTypes, ListedType
<1>2. MakeList(ValidTiers(Listed(t.announce_list))) \in Lists
  BY <1>1, ValidTiersType, MakeListType
<1>3. Valid(t.announce) => << <<t.announce>> >> \in Lists
  BY SingleTier DEF Valid
<1>4. <<>> \in Lists
  BY DEF Lists
<1> QED BY <1>2, <1>3, <1>4, ReadTrackersBy

\* A torrent reads as a document.
LEMMA DecodeType ==
  ASSUME NEW t \in Torrents, NEW mode \in Modes
  PROVE  decode_torrent(t, mode) \in Documents
<1>1. read_info(t) \in Infos
  BY TorrentTypes, ReadText DEF read_info, Infos
<1>2. read_source(t) \in OptionalTexts
  BY TorrentTypes, ReadText DEF read_source
<1>3. read_metadata(t) \in Metadata
  <2>1. read_optional_text(t.comment) \in OptionalTexts /\ read_optional_text(t.creator) \in OptionalTexts
        /\ t.date \in Dates \cup {None} /\ read_web_seed_field(t) \in Seq(SeedUrls)
    BY TorrentTypes, ReadText, ReadSeeds
  <2> QED BY <1>2, <2>1 DEF read_metadata, Metadata
<1> QED BY <1>1, <1>3, ReadTrackers DEF decode_torrent, Documents

-----------------------------------------------------------------------------
(* Writing a torrent *)

LEMMA EveryEntry ==
  ASSUME NEW S, NEW s \in Seq(S)
  PROVE  {i \in DOMAIN s : s[i] \in S} = DOMAIN s
<1>1. ASSUME NEW i \in DOMAIN s PROVE s[i] \in S
  OBVIOUS
<1> QED BY <1>1

\* The texts of a torrent that was written are those of its document.
LEMMA TextWritten ==
  ASSUME NEW old \in Keys, NEW value \in OptionalTexts, NEW new,
         new = IF value = read_optional_text(old) THEN old ELSE value
  PROVE  new \in Keys /\ read_optional_text(new) = value /\ (old # BadText => new # BadText)
BY ReadText

\* The fields of a torrent that is written.
LEMMA EncodedFields ==
  ASSUME NEW document \in Documents, NEW t, t = encode_patch(document)
  PROVE  LET old == document.retained
             texts == set_texts(old, document.metadata)
             seeds == set_web_seeds(old, document.metadata.web_seeds)
             trackers == set_trackers(old, document.trackers)
         IN /\ t.comment = texts.comment /\ t.creator = texts.creator /\ t.date = texts.date
            /\ t.url_list = seeds.url_list /\ t.httpseeds = seeds.httpseeds
            /\ t.announce = trackers.announce /\ t.announce_list = trackers.announce_list
            /\ t.info = old.info /\ t.source = old.source /\ t.unknown = old.unknown
            /\ DOMAIN t = DOMAIN old
<1> DEFINE old == document.retained
           texts == set_texts(old, document.metadata)
           seeds == set_web_seeds(old, document.metadata.web_seeds)
           trackers == set_trackers(old, document.trackers)
<1>1. old \in Torrents
  BY DocumentTypes
<1>2. t = [old EXCEPT !.comment = texts.comment, !.creator = texts.creator, !.date = texts.date,
             !.url_list = seeds.url_list, !.httpseeds = seeds.httpseeds,
             !.announce = trackers.announce, !.announce_list = trackers.announce_list]
  BY DEF encode_patch
<1> HIDE DEF old, texts, seeds, trackers
<1>3. DOMAIN old = {"announce", "announce_list", "comment", "creator", "date", "url_list", "httpseeds",
                    "source", "unknown", "info"}
  BY <1>1 DEF Torrents
<1>4. /\ t.comment = texts.comment /\ t.creator = texts.creator /\ t.date = texts.date
      /\ t.url_list = seeds.url_list /\ t.httpseeds = seeds.httpseeds
      /\ t.announce = trackers.announce /\ t.announce_list = trackers.announce_list
      /\ t.info = old.info /\ t.source = old.source /\ t.unknown = old.unknown
      /\ DOMAIN t = DOMAIN old
  BY <1>2, <1>3
<1> QED BY <1>4 DEF old, texts, seeds, trackers

\* The web seeds of a torrent that was written are those of its document.
LEMMA SeedsWritten ==
  ASSUME NEW old \in Torrents, NEW seeds \in Seq(SeedUrls), NEW t,
         t.url_list = set_web_seeds(old, seeds).url_list, t.httpseeds = set_web_seeds(old, seeds).httpseeds
  PROVE  /\ t.url_list \in StringLists /\ t.httpseeds \in StringLists
         /\ read_web_seed_field(t) = seeds
<1>0. Seq(SeedUrls) \subseteq Seq(Strings) /\ None \notin Seq(Strings)
  BY MetadataAssumption
<1>1. CASE seeds = read_web_seed_field(old)
  <2>1. t.url_list = old.url_list /\ t.httpseeds = old.httpseeds
    BY <1>1 DEF set_web_seeds
  <2> QED BY <1>1, <2>1, TorrentTypes DEF read_web_seed_field
<1>2. CASE seeds # read_web_seed_field(old)
  <2>1. t.url_list = (IF seeds = <<>> THEN None ELSE seeds) /\ t.httpseeds = None
    BY <1>2 DEF set_web_seeds
  <2>2. Listed(t.url_list) = seeds /\ Listed(t.httpseeds) = <<>>
    BY <1>0, <2>1 DEF Listed
  <2>3. seeds \o <<>> = seeds
    BY ConcatEmptySeq
  <2>4. {i \in DOMAIN seeds : seeds[i] \in SeedUrls} = DOMAIN seeds
    BY EveryEntry
  <2>5. Pick(seeds, DOMAIN seeds) = seeds
    BY PickAll
  <2>6. read_web_seed_field(t) = seeds
    BY <2>2, <2>3, <2>4, <2>5 DEF read_web_seed_field
  <2> QED BY <1>0, <2>1, <2>6 DEF StringLists
<1> QED BY <1>1, <1>2

\* The trackers of a torrent that was written are those of its document.
LEMMA TrackersWritten ==
  ASSUME NEW old \in Torrents, NEW list \in Lists, NEW t,
         t.announce = set_trackers(old, list).announce,
         t.announce_list = set_trackers(old, list).announce_list
  PROVE  /\ t.announce \in Strings \cup {None} /\ t.announce_list \in Seq(Seq(Strings)) \cup {None}
         /\ read_trackers(t) = list
<1>1. CASE list = read_trackers(old)
  <2>1. t.announce = old.announce /\ t.announce_list = old.announce_list
    BY <1>1 DEF set_trackers
  <2> QED BY <1>1, <2>1, TorrentTypes, ReadTrackersBy
<1>2. CASE list # read_trackers(old) /\ list = <<>>
  <2>1. t.announce = None /\ t.announce_list = None
    BY <1>2 DEF set_trackers, EncodedTrackers
  <2>2. ValidTiers(Listed(t.announce_list)) = <<>>
    BY <2>1 DEF ValidTiers, Listed
  <2>3. <<>> \in Lists
    BY DEF Lists
  <2>4. ~Valid(None)
    BY MetadataAssumption DEF Valid
  <2> QED BY <1>2, <2>1, <2>2, <2>3, <2>4, MakeListSame, ReadTrackersBy
<1>3. CASE list # read_trackers(old) /\ list # <<>>
  <2>1. t.announce = list[1][1] /\ t.announce_list = list
    BY <1>3 DEF set_trackers, EncodedTrackers
  <2>2. list \in Seq(Seq(Trackers)) /\ MakeList(list) = list
    BY MakeListSame
  <2>3. Seq(Seq(Trackers)) \subseteq Seq(Seq(Strings)) /\ Trackers \subseteq Strings
    <3>1. Trackers \subseteq Strings
      BY MetadataAssumption
    <3>2. Seq(Trackers) \subseteq Seq(Strings)
      BY <3>1
    <3> HIDE DEF Trackers
    <3> QED BY <3>1, <3>2
  <2>4. list \in Seq(Seq(Strings)) /\ list # None
    BY <2>2, <2>3, MetadataAssumption
  <2>5. Listed(t.announce_list) = list
    BY <2>1, <2>4 DEF Listed
  <2>6. ASSUME NEW k \in DOMAIN list PROVE Pick(list[k], {i \in DOMAIN list[k] : Valid(list[k][i])}) = list[k]
    <3> DEFINE tier == list[k]
    <3>1. tier \in Seq(Trackers)
      BY <2>2
    <3> HIDE DEF tier
    <3>2. {i \in DOMAIN tier : Valid(tier[i])} = DOMAIN tier
      BY <3>1, EveryEntry DEF Valid
    <3>3. Pick(tier, DOMAIN tier) = tier
      BY <3>1, PickAll
    <3> QED BY <3>2, <3>3 DEF tier
  <2>7. ValidTiers(list) = list
    <3>1. list = [k \in DOMAIN list |-> list[k]]
      BY <2>2
    <3>2. ValidTiers(list) = [k \in DOMAIN list |-> list[k]]
      BY <2>6 DEF ValidTiers
    <3> QED BY <3>1, <3>2
  <2>8. list[1] \in Tiers /\ 1 \in DOMAIN list
    BY <1>3 DEF Lists
  <2>9. list[1][1] \in Trackers
    BY <2>8 DEF Tiers
  <2> QED BY <1>3, <2>1, <2>2, <2>3, <2>4, <2>5, <2>7, <2>9, ReadTrackersBy
<1> QED BY <1>1, <1>2, <1>3

\* What was written says what the document said, and is a torrent.
LEMMA Written ==
  ASSUME NEW document \in Documents, NEW t, t = encode_patch(document)
  PROVE  /\ t \in Torrents /\ read_web_seed_field(t) = document.metadata.web_seeds
         /\ read_trackers(t) = document.trackers
         /\ read_optional_text(t.comment) = document.metadata.comment
         /\ read_optional_text(t.creator) = document.metadata.creator
         /\ t.date = document.metadata.date
         /\ t.info = document.retained.info /\ t.source = document.retained.source
         /\ t.unknown = document.retained.unknown
<1> DEFINE old == document.retained
           m == document.metadata
<1>1. old \in Torrents /\ m.comment \in OptionalTexts /\ m.creator \in OptionalTexts
      /\ m.date \in Dates \cup {None} /\ m.web_seeds \in Seq(SeedUrls) /\ document.trackers \in Lists
  BY DocumentTypes
<1>2. /\ t.comment = set_texts(old, m).comment /\ t.creator = set_texts(old, m).creator
      /\ t.date = set_texts(old, m).date
      /\ t.url_list = set_web_seeds(old, m.web_seeds).url_list
      /\ t.httpseeds = set_web_seeds(old, m.web_seeds).httpseeds
      /\ t.announce = set_trackers(old, document.trackers).announce
      /\ t.announce_list = set_trackers(old, document.trackers).announce_list
      /\ t.info = old.info /\ t.source = old.source /\ t.unknown = old.unknown
      /\ DOMAIN t = DOMAIN old
  BY EncodedFields
<1> HIDE DEF old, m
<1>3. t.comment \in Keys /\ read_optional_text(t.comment) = m.comment
  BY <1>1, <1>2, TorrentTypes, TextWritten DEF set_texts
<1>4. t.creator \in Keys /\ read_optional_text(t.creator) = m.creator
  BY <1>1, <1>2, TorrentTypes, TextWritten DEF set_texts
<1>5. t.date = m.date
  BY <1>2 DEF set_texts
<1>6. t.url_list \in StringLists /\ t.httpseeds \in StringLists /\ read_web_seed_field(t) = m.web_seeds
  BY <1>1, <1>2, SeedsWritten
<1>7. /\ t.announce \in Strings \cup {None} /\ t.announce_list \in Seq(Seq(Strings)) \cup {None}
      /\ read_trackers(t) = document.trackers
  BY <1>1, <1>2, TrackersWritten
<1>8. t \in Torrents
  <2>1. t = [f \in DOMAIN t |-> t[f]]
    BY DEF encode_patch
  <2>2. DOMAIN old = {"announce", "announce_list", "comment", "creator", "date", "url_list", "httpseeds",
                      "source", "unknown", "info"}
    BY <1>1 DEF Torrents
  <2>3. t = [announce |-> t.announce, announce_list |-> t.announce_list, comment |-> t.comment,
             creator |-> t.creator, date |-> t.date, url_list |-> t.url_list,
             httpseeds |-> t.httpseeds, source |-> t.source, unknown |-> t.unknown, info |-> t.info]
    BY <1>2, <2>1, <2>2
  <2>4. t.source \in Keys /\ t.unknown \in BOOLEAN /\ t.info = old.info
    BY <1>1, <1>2, TorrentTypes
  <2>5. old.info \in [name : Keys, private : Int \cup {None}, source : Keys, sorted : BOOLEAN]
    BY <1>1 DEF Torrents
  <2> QED BY <1>1, <1>3, <1>4, <1>5, <1>6, <1>7, <2>3, <2>4, <2>5 DEF Torrents
<1> QED BY <1>2, <1>3, <1>4, <1>5, <1>6, <1>7, <1>8 DEF old, m

-----------------------------------------------------------------------------
(* What is read is kept *)

\* What a strict read asks of the trackers and of the web seeds.
StrictTrackers(t) ==
    LET lists == Listed(t.announce_list)
    IN /\ \A k \in DOMAIN lists : \A i \in DOMAIN lists[k] : Valid(lists[k][i])
       /\ (\A k \in DOMAIN lists : lists[k] = <<>>) => t.announce = None \/ Valid(t.announce)
StrictSeeds(t) ==
    LET seeds == Listed(t.url_list) \o Listed(t.httpseeds)
    IN \A i \in DOMAIN seeds : seeds[i] \in SeedUrls
SourceKey(t) == IF t.info.source # None THEN t.info.source ELSE t.source

LEMMA StrictBy ==
  ASSUME NEW t
  PROVE  ReadsStrictly(t) <=> /\ ~t.unknown /\ BadText \notin {t.comment, t.creator, SourceKey(t), t.info.name}
                              /\ StrictTrackers(t) /\ StrictSeeds(t)
BY DEF ReadsStrictly, StrictTrackers, StrictSeeds, SourceKey

LEMMA SeedsStrict ==
  ASSUME NEW old \in Torrents, NEW seeds \in Seq(SeedUrls), NEW t,
         t.url_list = set_web_seeds(old, seeds).url_list, t.httpseeds = set_web_seeds(old, seeds).httpseeds,
         StrictSeeds(old)
  PROVE  StrictSeeds(t)
<1>0. Seq(SeedUrls) \subseteq Seq(Strings) /\ None \notin Seq(Strings)
  BY MetadataAssumption
<1>1. CASE seeds = read_web_seed_field(old)
  BY <1>1 DEF set_web_seeds, StrictSeeds
<1>2. CASE seeds # read_web_seed_field(old)
  <2>1. t.url_list = (IF seeds = <<>> THEN None ELSE seeds) /\ t.httpseeds = None
    BY <1>2 DEF set_web_seeds
  <2>2. Listed(t.url_list) = seeds /\ Listed(t.httpseeds) = <<>>
    BY <1>0, <2>1 DEF Listed
  <2>3. seeds \o <<>> = seeds
    BY ConcatEmptySeq
  <2>4. ASSUME NEW i \in DOMAIN seeds PROVE seeds[i] \in SeedUrls
    OBVIOUS
  <2> QED BY <2>2, <2>3, <2>4 DEF StrictSeeds
<1> QED BY <1>1, <1>2

LEMMA TrackersStrict ==
  ASSUME NEW old \in Torrents, NEW list \in Lists, NEW t,
         t.announce = set_trackers(old, list).announce,
         t.announce_list = set_trackers(old, list).announce_list,
         StrictTrackers(old)
  PROVE  StrictTrackers(t)
<1>1. CASE list = read_trackers(old)
  BY <1>1 DEF set_trackers, StrictTrackers
<1>2. CASE list # read_trackers(old) /\ list = <<>>
  <2>1. t.announce = None /\ t.announce_list = None
    BY <1>2 DEF set_trackers, EncodedTrackers
  <2> QED BY <2>1 DEF StrictTrackers, Listed
<1>3. CASE list # read_trackers(old) /\ list # <<>>
  <2>1. t.announce = list[1][1] /\ t.announce_list = list
    BY <1>3 DEF set_trackers, EncodedTrackers
  <2>2. list \in Seq(Seq(Trackers))
    BY MakeListSame
  <2>3. Trackers \subseteq Strings
    BY MetadataAssumption
  <2>4. list # None
    <3>1. Seq(Trackers) \subseteq Seq(Strings)
      BY <2>3
    <3>2. Seq(Seq(Trackers)) \subseteq Seq(Seq(Strings))
      BY <3>1
    <3> QED BY <2>2, <3>2, MetadataAssumption
  <2>5. Listed(t.announce_list) = list
    BY <2>1, <2>4 DEF Listed
  <2>6. ASSUME NEW k \in DOMAIN list
        PROVE  list[k] # <<>> /\ \A i \in DOMAIN list[k] : Valid(list[k][i])
    <3>1. list[k] \in Tiers
      BY DEF Lists
    <3> QED BY <3>1 DEF Tiers, Valid
  <2>7. 1 \in DOMAIN list
    BY <1>3, <2>2
  <2>8. \E k \in DOMAIN list : list[k] # <<>>
    BY <2>6, <2>7
  <2> QED BY <2>5, <2>6, <2>8 DEF StrictTrackers
<1> QED BY <1>1, <1>2, <1>3

\* What was written loads as strictly as it was read.
LEMMA LoadsWritten ==
  ASSUME NEW document \in Documents, NEW t, t = encode_patch(document),
         Loads(document.retained, document.mode)
  PROVE  Loads(t, document.mode)
<1> DEFINE old == document.retained
           m == document.metadata
<1>1. old \in Torrents /\ m.comment \in OptionalTexts /\ m.creator \in OptionalTexts
      /\ m.web_seeds \in Seq(SeedUrls) /\ document.trackers \in Lists
  BY DocumentTypes
<1>2. /\ t.comment = set_texts(old, m).comment /\ t.creator = set_texts(old, m).creator
      /\ t.url_list = set_web_seeds(old, m.web_seeds).url_list
      /\ t.httpseeds = set_web_seeds(old, m.web_seeds).httpseeds
      /\ t.announce = set_trackers(old, document.trackers).announce
      /\ t.announce_list = set_trackers(old, document.trackers).announce_list
      /\ t.info = old.info /\ t.source = old.source /\ t.unknown = old.unknown
  BY EncodedFields
<1>3. t \notin {None, Garbage}
  BY Written, MetadataAssumption
<1>4. t.info.private \in {None, 0, 1} /\ t.info.name \notin {None, ""}
  BY <1>2 DEF Loads
<1> HIDE DEF old, m
<1>5. ASSUME document.mode = "strict" PROVE ReadsStrictly(t)
  <2>1. ReadsStrictly(old)
    BY <1>5 DEF Loads, old
  <2>2. old.comment # BadText /\ old.creator # BadText /\ SourceKey(old) # BadText /\ old.info.name # BadText
        /\ ~old.unknown /\ StrictTrackers(old) /\ StrictSeeds(old)
    BY <2>1, StrictBy
  <2>3. t.comment # BadText /\ t.creator # BadText
    BY <1>1, <1>2, <2>2, TorrentTypes, TextWritten DEF set_texts
  <2>4. SourceKey(t) = SourceKey(old)
    BY <1>2 DEF SourceKey
  <2>5. StrictTrackers(t) /\ StrictSeeds(t)
    BY <1>1, <1>2, <2>2, TrackersStrict, SeedsStrict
  <2> QED BY <1>2, <2>2, <2>3, <2>4, <2>5, StrictBy
<1> QED BY <1>3, <1>4, <1>5 DEF Loads

\* What encode_patch writes reads, in either mode, as what the document shows: no announce,
\* httpseeds or bad key of the old torrent shows through the keys that were written.
THEOREM ViewWritten ==
  ASSUME NEW document \in Documents, ~NeedsRebuild(document), NEW mode
  PROVE  View(decode_torrent(encode_patch(document), mode)) = View(document)
<1> DEFINE t == encode_patch(document)
           d == decode_torrent(t, mode)
<1>1. /\ read_web_seed_field(t) = document.metadata.web_seeds
      /\ read_trackers(t) = document.trackers
      /\ read_optional_text(t.comment) = document.metadata.comment
      /\ read_optional_text(t.creator) = document.metadata.creator
      /\ t.date = document.metadata.date
      /\ t.info = document.retained.info /\ t.source = document.retained.source
  BY Written
<1> HIDE DEF t
<1>2. read_info(t) = document.info
  BY <1>1 DEF NeedsRebuild, read_info
<1>3. read_source(t) = document.metadata.source
  BY <1>1 DEF NeedsRebuild, read_source
<1>4. /\ d.info = read_info(t) /\ d.trackers = read_trackers(t)
      /\ d.metadata = read_metadata(t)
  BY DEF decode_torrent
<1>5. /\ d.metadata.comment = read_optional_text(t.comment) /\ d.metadata.creator = read_optional_text(t.creator)
      /\ d.metadata.source = read_source(t) /\ d.metadata.date = t.date
      /\ d.metadata.web_seeds = read_web_seed_field(t)
  BY <1>4 DEF read_metadata
<1> HIDE DEF d
<1> QED BY <1>1, <1>2, <1>3, <1>4, <1>5 DEF View, d, t

\* A torrent that was only read is written as it was.
LEMMA ReadIsKept ==
  ASSUME NEW t \in Torrents, NEW mode
  PROVE  encode_patch(decode_torrent(t, mode)) = t /\ ~NeedsRebuild(decode_torrent(t, mode))
<1> DEFINE d == decode_torrent(t, mode)
<1>1. d.retained = t /\ d.info = read_info(t) /\ d.trackers = read_trackers(t) /\ d.metadata = read_metadata(t)
  BY DEF decode_torrent
<1>2. /\ d.metadata.comment = read_optional_text(t.comment) /\ d.metadata.creator = read_optional_text(t.creator)
      /\ d.metadata.source = read_source(t) /\ d.metadata.date = t.date
      /\ d.metadata.web_seeds = read_web_seed_field(t)
  BY <1>1 DEF read_metadata
<1> HIDE DEF d
<1>3. set_texts(t, d.metadata) = [comment |-> t.comment, creator |-> t.creator, date |-> t.date]
  BY <1>2 DEF set_texts
<1>4. set_web_seeds(t, d.metadata.web_seeds) = [url_list |-> t.url_list, httpseeds |-> t.httpseeds]
  BY <1>2 DEF set_web_seeds
<1>5. set_trackers(t, d.trackers) = [announce |-> t.announce, announce_list |-> t.announce_list]
  BY <1>1 DEF set_trackers
<1>6. encode_patch(d) =
        [t EXCEPT !.comment = t.comment, !.creator = t.creator, !.date = t.date,
           !.url_list = t.url_list, !.httpseeds = t.httpseeds,
           !.announce = t.announce, !.announce_list = t.announce_list]
  BY <1>1, <1>3, <1>4, <1>5 DEF encode_patch
<1>7. t = [f \in DOMAIN t |-> t[f]]
  BY DEF Torrents
<1>8. encode_patch(d) = t
  BY <1>6, <1>7
<1>9. ~NeedsRebuild(d)
  BY <1>1, <1>2 DEF NeedsRebuild
<1> QED BY <1>8, <1>9 DEF d

\* What HeldSnapshots says of each document.
Well(loaded) ==
    /\ encode_patch(loaded.document) = loaded.original
    /\ Loads(loaded.original, loaded.document.mode)
    /\ Loads(loaded.document.retained, loaded.document.mode)
    /\ View(decode_torrent(loaded.original, loaded.document.mode)) = View(loaded.document)
    /\ ~NeedsRebuild(loaded.document)

LEMMA LoadedWell ==
  ASSUME NEW t \in Files, NEW mode \in Modes, NEW path \in Paths, Loads(t, mode),
         NEW loaded, loaded = [document |-> decode_torrent(t, mode), source |-> path, original |-> t]
  PROVE  loaded \in Snapshots /\ Well(loaded)
<1>1. t \in Torrents
  BY DEF Files, Loads
<1>2. loaded \in Snapshots
  BY <1>1, DecodeType DEF Snapshots
<1> DEFINE d == decode_torrent(t, mode)
<1>3. d.retained = t /\ d.mode = mode
  BY DEF decode_torrent
<1>4. loaded.document = d /\ loaded.original = t
  OBVIOUS
<1>5. encode_patch(d) = t /\ ~NeedsRebuild(d)
  BY <1>1, ReadIsKept
<1> HIDE DEF d
<1>6. decode_torrent(loaded.original, loaded.document.mode) = d
  BY <1>3, <1>4 DEF d
<1> QED BY <1>2, <1>3, <1>4, <1>5, <1>6 DEF Well

-----------------------------------------------------------------------------
(* The recursive functions of an edit exist *)

NoDraft(document) == [metadata |-> document.metadata, trackers |-> document.trackers,
                      patches |-> <<>>, failed |-> FALSE]
Patched(last, patch) == IF last = Refused THEN Refused ELSE patch_info_identity(last, patch)
Views(view, torrent, actions) ==
    LET views[k \in 0 .. Len(actions)] ==
          IF k = 0 THEN view ELSE Request(views[k - 1], torrent, actions[k])
    IN views

\* The drafts of the first m actions.
IsDrafts(f, document, actions, m) ==
    f = [k \in 0 .. m |-> IF k = 0 THEN NoDraft(document)
                          ELSE TakeAction(f[k - 1], actions[k])]

LEMMA DraftsDefined ==
  ASSUME NEW document, NEW actions, NEW n \in Nat
  PROVE  \E f : IsDrafts(f, document, actions, n)
<1> DEFINE T == {m \in Nat : ~ \E f : IsDrafts(f, document, actions, m)}
<1>1. SUFFICES ASSUME T # {} PROVE FALSE
  OBVIOUS
<1>2. PICK x \in T : \A y \in T : x <= y
  <2> HIDE DEF T
  <2>1. T \subseteq Nat
    BY DEF T
  <2> QED BY <1>1, <2>1, LeastNat
<1>3. x \in Nat /\ ~ \E f : IsDrafts(f, document, actions, x)
  OBVIOUS
<1>4. CASE x = 0
  <2> DEFINE f == [k \in 0 .. 0 |-> NoDraft(document)]
  <2>1. IsDrafts(f, document, actions, 0)
    BY DEF IsDrafts
  <2> QED BY <1>3, <1>4, <2>1
<1>5. CASE x # 0
  <2>1. x - 1 \in Nat /\ x - 1 \notin T
    BY <1>2, <1>3, <1>5
  <2>2. PICK f : IsDrafts(f, document, actions, x - 1)
    BY <2>1
  <2>3. /\ DOMAIN f = 0 .. x - 1
        /\ \A k \in 0 .. x - 1 : f[k] = IF k = 0 THEN NoDraft(document) ELSE TakeAction(f[k - 1], actions[k])
    BY <2>2 DEF IsDrafts
  <2> DEFINE g == [k \in 0 .. x |-> IF k = x THEN TakeAction(f[x - 1], actions[x]) ELSE f[k]]
  <2> HIDE DEF T
  <2>4. ASSUME NEW k \in 0 .. x
        PROVE  g[k] = IF k = 0 THEN NoDraft(document) ELSE TakeAction(g[k - 1], actions[k])
    <3>1. CASE k = x
      <4>1. x - 1 \in 0 .. x /\ x - 1 # x
        BY <1>3, <1>5
      <4>2. g[k] = TakeAction(f[x - 1], actions[x]) /\ g[k - 1] = f[x - 1] /\ k # 0
        BY <1>5, <3>1, <4>1
      <4> HIDE DEF g
      <4> QED BY <3>1, <4>2
    <3>2. CASE k # x
      <4>1. k \in 0 .. x - 1 /\ (k # 0 => k - 1 \in 0 .. x /\ k - 1 # x)
        BY <1>3, <3>2
      <4>2. g[k] = f[k] /\ (k # 0 => g[k - 1] = f[k - 1])
        BY <3>2, <4>1
      <4> HIDE DEF g
      <4> QED BY <2>3, <4>1, <4>2
    <3> QED BY <3>1, <3>2
  <2>5. g = [k \in 0 .. x |-> g[k]]
    OBVIOUS
  <2> HIDE DEF g
  <2>6. IsDrafts(g, document, actions, x)
    BY <2>4, <2>5 DEF IsDrafts
  <2> QED BY <1>3, <2>6
<1> QED BY <1>4, <1>5

LEMMA DraftsFacts ==
  ASSUME NEW document, NEW actions, NEW f, f = Drafts(document, actions), Len(actions) \in Nat
  PROVE  /\ DOMAIN f = 0 .. Len(actions) /\ f[0] = NoDraft(document)
         /\ \A k \in 1 .. Len(actions) : f[k] = TakeAction(f[k - 1], actions[k])
<1>1. f = CHOOSE g : IsDrafts(g, document, actions, Len(actions))
  BY DEF Drafts, IsDrafts, NoDraft
<1>2. IsDrafts(f, document, actions, Len(actions))
  BY <1>1, DraftsDefined
<1> DEFINE n == Len(actions)
<1>3. n \in Nat
  OBVIOUS
<1> HIDE DEF n
<1>4. /\ DOMAIN f = 0 .. n
      /\ \A k \in 0 .. n : f[k] = IF k = 0 THEN NoDraft(document) ELSE TakeAction(f[k - 1], actions[k])
  BY <1>2 DEF IsDrafts, n
<1>5. 0 \in 0 .. n /\ \A k \in 1 .. n : k \in 0 .. n /\ k # 0
  BY <1>3
<1>6. \A k \in 1 .. n : f[k] = TakeAction(f[k - 1], actions[k])
  BY <1>4, <1>5
<1> QED BY <1>4, <1>5, <1>6 DEF n

\* The documents of the first m patches.
IsIdentities(f, document, patches, m) ==
    f = [k \in 0 .. m |-> IF k = 0 THEN document
                          ELSE Patched(f[k - 1], patches[k])]

LEMMA IdentitiesDefined ==
  ASSUME NEW document, NEW patches, NEW n \in Nat
  PROVE  \E f : IsIdentities(f, document, patches, n)
<1> DEFINE T == {m \in Nat : ~ \E f : IsIdentities(f, document, patches, m)}
<1>1. SUFFICES ASSUME T # {} PROVE FALSE
  OBVIOUS
<1>2. PICK x \in T : \A y \in T : x <= y
  <2> HIDE DEF T
  <2>1. T \subseteq Nat
    BY DEF T
  <2> QED BY <1>1, <2>1, LeastNat
<1>3. x \in Nat /\ ~ \E f : IsIdentities(f, document, patches, x)
  OBVIOUS
<1>4. CASE x = 0
  <2> DEFINE f == [k \in 0 .. 0 |-> document]
  <2>1. IsIdentities(f, document, patches, 0)
    BY DEF IsIdentities
  <2> QED BY <1>3, <1>4, <2>1
<1>5. CASE x # 0
  <2>1. x - 1 \in Nat /\ x - 1 \notin T
    BY <1>2, <1>3, <1>5
  <2>2. PICK f : IsIdentities(f, document, patches, x - 1)
    BY <2>1
  <2>3. /\ DOMAIN f = 0 .. x - 1
        /\ \A k \in 0 .. x - 1 : f[k] = IF k = 0 THEN document ELSE Patched(f[k - 1], patches[k])
    BY <2>2 DEF IsIdentities
  <2> DEFINE g == [k \in 0 .. x |-> IF k = x THEN Patched(f[x - 1], patches[x]) ELSE f[k]]
  <2> HIDE DEF T
  <2>4. ASSUME NEW k \in 0 .. x
        PROVE  g[k] = IF k = 0 THEN document ELSE Patched(g[k - 1], patches[k])
    <3>1. CASE k = x
      <4>1. x - 1 \in 0 .. x /\ x - 1 # x
        BY <1>3, <1>5
      <4>2. g[k] = Patched(f[x - 1], patches[x]) /\ g[k - 1] = f[x - 1] /\ k # 0
        BY <1>5, <3>1, <4>1
      <4> HIDE DEF g
      <4> QED BY <3>1, <4>2
    <3>2. CASE k # x
      <4>1. k \in 0 .. x - 1 /\ (k # 0 => k - 1 \in 0 .. x /\ k - 1 # x)
        BY <1>3, <3>2
      <4>2. g[k] = f[k] /\ (k # 0 => g[k - 1] = f[k - 1])
        BY <3>2, <4>1
      <4> HIDE DEF g
      <4> QED BY <2>3, <4>1, <4>2
    <3> QED BY <3>1, <3>2
  <2>5. g = [k \in 0 .. x |-> g[k]]
    OBVIOUS
  <2> HIDE DEF g
  <2>6. IsIdentities(g, document, patches, x)
    BY <2>4, <2>5 DEF IsIdentities
  <2> QED BY <1>3, <2>6
<1> QED BY <1>4, <1>5

LEMMA IdentitiesFacts ==
  ASSUME NEW document, NEW patches, NEW f, f = Identities(document, patches), Len(patches) \in Nat
  PROVE  /\ DOMAIN f = 0 .. Len(patches) /\ f[0] = document
         /\ \A k \in 1 .. Len(patches) : f[k] = Patched(f[k - 1], patches[k])
<1>1. f = CHOOSE g : IsIdentities(g, document, patches, Len(patches))
  BY DEF Identities, IsIdentities, Patched
<1>2. IsIdentities(f, document, patches, Len(patches))
  BY <1>1, IdentitiesDefined
<1> DEFINE n == Len(patches)
<1>3. n \in Nat
  OBVIOUS
<1> HIDE DEF n
<1>4. /\ DOMAIN f = 0 .. n
      /\ \A k \in 0 .. n : f[k] = IF k = 0 THEN document ELSE Patched(f[k - 1], patches[k])
  BY <1>2 DEF IsIdentities, n
<1>5. 0 \in 0 .. n /\ \A k \in 1 .. n : k \in 0 .. n /\ k # 0
  BY <1>3
<1>6. \A k \in 1 .. n : f[k] = Patched(f[k - 1], patches[k])
  BY <1>4, <1>5
<1> QED BY <1>4, <1>5, <1>6 DEF n

\* The views of the first m actions.
IsViews(f, view, torrent, actions, m) ==
    f = [k \in 0 .. m |-> IF k = 0 THEN view
                          ELSE Request(f[k - 1], torrent, actions[k])]

LEMMA ViewsDefined ==
  ASSUME NEW view, NEW torrent, NEW actions, NEW n \in Nat
  PROVE  \E f : IsViews(f, view, torrent, actions, n)
<1> DEFINE T == {m \in Nat : ~ \E f : IsViews(f, view, torrent, actions, m)}
<1>1. SUFFICES ASSUME T # {} PROVE FALSE
  OBVIOUS
<1>2. PICK x \in T : \A y \in T : x <= y
  <2> HIDE DEF T
  <2>1. T \subseteq Nat
    BY DEF T
  <2> QED BY <1>1, <2>1, LeastNat
<1>3. x \in Nat /\ ~ \E f : IsViews(f, view, torrent, actions, x)
  OBVIOUS
<1>4. CASE x = 0
  <2> DEFINE f == [k \in 0 .. 0 |-> view]
  <2>1. IsViews(f, view, torrent, actions, 0)
    BY DEF IsViews
  <2> QED BY <1>3, <1>4, <2>1
<1>5. CASE x # 0
  <2>1. x - 1 \in Nat /\ x - 1 \notin T
    BY <1>2, <1>3, <1>5
  <2>2. PICK f : IsViews(f, view, torrent, actions, x - 1)
    BY <2>1
  <2>3. /\ DOMAIN f = 0 .. x - 1
        /\ \A k \in 0 .. x - 1 : f[k] = IF k = 0 THEN view ELSE Request(f[k - 1], torrent, actions[k])
    BY <2>2 DEF IsViews
  <2> DEFINE g == [k \in 0 .. x |-> IF k = x THEN Request(f[x - 1], torrent, actions[x]) ELSE f[k]]
  <2> HIDE DEF T
  <2>4. ASSUME NEW k \in 0 .. x
        PROVE  g[k] = IF k = 0 THEN view ELSE Request(g[k - 1], torrent, actions[k])
    <3>1. CASE k = x
      <4>1. x - 1 \in 0 .. x /\ x - 1 # x
        BY <1>3, <1>5
      <4>2. g[k] = Request(f[x - 1], torrent, actions[x]) /\ g[k - 1] = f[x - 1] /\ k # 0
        BY <1>5, <3>1, <4>1
      <4> HIDE DEF g
      <4> QED BY <3>1, <4>2
    <3>2. CASE k # x
      <4>1. k \in 0 .. x - 1 /\ (k # 0 => k - 1 \in 0 .. x /\ k - 1 # x)
        BY <1>3, <3>2
      <4>2. g[k] = f[k] /\ (k # 0 => g[k - 1] = f[k - 1])
        BY <3>2, <4>1
      <4> HIDE DEF g
      <4> QED BY <2>3, <4>1, <4>2
    <3> QED BY <3>1, <3>2
  <2>5. g = [k \in 0 .. x |-> g[k]]
    OBVIOUS
  <2> HIDE DEF g
  <2>6. IsViews(g, view, torrent, actions, x)
    BY <2>4, <2>5 DEF IsViews
  <2> QED BY <1>3, <2>6
<1> QED BY <1>4, <1>5

LEMMA ViewsFacts ==
  ASSUME NEW view, NEW torrent, NEW actions, NEW f, f = Views(view, torrent, actions), Len(actions) \in Nat
  PROVE  /\ DOMAIN f = 0 .. Len(actions) /\ f[0] = view
         /\ \A k \in 1 .. Len(actions) : f[k] = Request(f[k - 1], torrent, actions[k])
<1>1. f = CHOOSE g : IsViews(g, view, torrent, actions, Len(actions))
  BY DEF Views, IsViews
<1>2. IsViews(f, view, torrent, actions, Len(actions))
  BY <1>1, ViewsDefined
<1> DEFINE n == Len(actions)
<1>3. n \in Nat
  OBVIOUS
<1> HIDE DEF n
<1>4. /\ DOMAIN f = 0 .. n
      /\ \A k \in 0 .. n : f[k] = IF k = 0 THEN view ELSE Request(f[k - 1], torrent, actions[k])
  BY <1>2 DEF IsViews, n
<1>5. 0 \in 0 .. n /\ \A k \in 1 .. n : k \in 0 .. n /\ k # 0
  BY <1>3
<1>6. \A k \in 1 .. n : f[k] = Request(f[k - 1], torrent, actions[k])
  BY <1>4, <1>5
<1> QED BY <1>4, <1>5, <1>6 DEF n

LEMMA RequestedView ==
  ASSUME NEW view, NEW torrent, NEW actions
  PROVE  Requested(view, torrent, actions) = Views(view, torrent, actions)[Len(actions)]
BY DEF Requested, Views

-----------------------------------------------------------------------------
(* One action of an edit *)

TextKinds == {"comment", "creator", "date", "web_seeds"}
InfoKinds == {"name", "private", "source"}
Patches == [field : {"name", "source"}, value : Keys] \cup [field : {"private"}, value : {0, 1}]
DraftSet == [metadata : Metadata, trackers : Lists, patches : Seq(Patches), failed : BOOLEAN]
PatchOf(action) == [field |-> action.kind, value |-> action.value]
HasSource(patches) == \E k \in DOMAIN patches : patches[k].field = "source"

LEMMA Kinds ==
  ASSUME NEW action \in Actions
  PROVE  /\ action.kind \in TextKinds \cup InfoKinds \cup TrackerActions
         /\ action.kind \in {"comment", "creator"} => action.value \in OptionalTexts
         /\ action.kind = "date" => action.value \in Dates \cup {None}
         /\ action.kind = "web_seeds" => action.value \in Seq(SeedUrls)
         /\ action.kind \in {"name", "source"} => action.value \in Keys
         /\ action.kind = "private" => action.value \in {0, 1}
BY DEF Actions, TextKinds, InfoKinds, TrackerActions

\* The metadata new are m with the value of one kind replaced.
Replaced(new, m, action) ==
    \A f \in TextKinds : new[f] = IF f = action.kind THEN action.value ELSE m[f]

LEMMA MetadataEdited ==
  ASSUME NEW m \in Metadata, NEW action \in Actions, action.kind \in TextKinds,
         NEW new, new = [m EXCEPT ![action.kind] = action.value]
  PROVE  /\ new \in Metadata /\ new.source = m.source
         /\ Replaced(new, m, action)
<1>1. DOMAIN m = TextKinds \cup {"source"}
  BY DEF Metadata, TextKinds
<1>2. new.source = m.source
  BY <1>1 DEF TextKinds
<1>3. \A f \in TextKinds : new[f] = IF f = action.kind THEN action.value ELSE m[f]
  BY <1>1 DEF TextKinds
<1>4. /\ m.comment \in OptionalTexts /\ m.creator \in OptionalTexts /\ m.source \in OptionalTexts
      /\ m.date \in Dates \cup {None} /\ m.web_seeds \in Seq(SeedUrls)
  BY DEF Metadata
<1>5. /\ new.comment \in OptionalTexts /\ new.creator \in OptionalTexts
      /\ new.date \in Dates \cup {None} /\ new.web_seeds \in Seq(SeedUrls)
  BY <1>3, <1>4, Kinds DEF TextKinds
<1>6. new = [comment |-> new.comment, creator |-> new.creator, source |-> new.source,
             date |-> new.date, web_seeds |-> new.web_seeds]
  BY <1>1 DEF TextKinds
<1> QED BY <1>2, <1>3, <1>4, <1>5, <1>6 DEF Metadata, Replaced

\* What an action does to a draft.
LEMMA Taken ==
  ASSUME NEW draft \in DraftSet, NEW action \in Actions, NEW next, next = TakeAction(draft, action)
  PROVE  /\ next \in DraftSet
         /\ next.metadata.source = draft.metadata.source
         /\ action.kind \in TextKinds =>
              /\ next.trackers = draft.trackers /\ next.patches = draft.patches
              /\ next.failed = draft.failed
              /\ Replaced(next.metadata, draft.metadata, action)
         /\ action.kind \in InfoKinds =>
              /\ next.metadata = draft.metadata /\ next.trackers = draft.trackers
              /\ next.patches = Append(draft.patches, PatchOf(action)) /\ next.failed = draft.failed
              /\ PatchOf(action) \in Patches
         /\ action.kind \in TrackerActions =>
              /\ next.metadata = draft.metadata /\ next.patches = draft.patches
              /\ ~next.failed => ~draft.failed /\ next.trackers = RequestedTrackers(draft.trackers, action)
<1>1. /\ draft.metadata \in Metadata /\ draft.trackers \in Lists /\ draft.patches \in Seq(Patches)
      /\ draft.failed \in BOOLEAN
  BY DEF DraftSet
<1>2. action.kind \in TextKinds \cup InfoKinds \cup TrackerActions
  BY Kinds
<1>3. CASE action.kind \in TextKinds
  <2> DEFINE m == [draft.metadata EXCEPT ![action.kind] = action.value]
  <2>1. next = [draft EXCEPT !.metadata = m]
    BY <1>3 DEF TakeAction, TextKinds
  <2>2. /\ m \in Metadata /\ m.source = draft.metadata.source
        /\ Replaced(m, draft.metadata, action)
    <3> DEFINE md == draft.metadata
    <3>1. md \in Metadata /\ m = [md EXCEPT ![action.kind] = action.value]
      BY <1>1
    <3> HIDE DEF md, m
    <3>2. /\ m \in Metadata /\ m.source = md.source
          /\ Replaced(m, md, action)
      BY <1>3, <3>1, MetadataEdited
    <3> QED BY <3>2 DEF md
  <2> HIDE DEF m
  <2>3. next.metadata = m /\ next.trackers = draft.trackers /\ next.patches = draft.patches
        /\ next.failed = draft.failed /\ next \in DraftSet
    BY <2>1, <2>2 DEF DraftSet
  <2> QED BY <1>3, <2>2, <2>3 DEF TextKinds, InfoKinds, TrackerActions
<1>4. CASE action.kind \in InfoKinds
  <2> DEFINE p == PatchOf(action)
             ps == Append(draft.patches, p)
  <2>1. next = [draft EXCEPT !.patches = ps]
    BY <1>4 DEF TakeAction, InfoKinds, PatchOf
  <2>2. p \in Patches
    BY <1>4, Kinds DEF PatchOf, Patches, InfoKinds
  <2> HIDE DEF p
  <2>3. ps \in Seq(Patches)
    BY <1>1, <2>2
  <2> HIDE DEF ps
  <2>4. next.metadata = draft.metadata /\ next.trackers = draft.trackers /\ next.patches = ps
        /\ next.failed = draft.failed /\ next \in DraftSet
    BY <2>1, <2>3 DEF DraftSet
  <2> QED BY <1>4, <2>2, <2>4 DEF TextKinds, InfoKinds, TrackerActions, ps, p
<1>5. CASE action.kind \in TrackerActions
  <2> DEFINE list == EditTrackers(draft.trackers, action)
  <2>1. next = IF list = Refused THEN [draft EXCEPT !.failed = TRUE] ELSE [draft EXCEPT !.trackers = list]
    BY <1>5 DEF TakeAction, TrackerActions
  <2>2. list # Refused => list \in Lists /\ list = RequestedTrackers(draft.trackers, action)
    BY <1>1, <1>5, EditedAsRequested
  <2> HIDE DEF list
  <2>3. next \in DraftSet /\ next.metadata = draft.metadata /\ next.patches = draft.patches
        /\ next.failed = (IF list = Refused THEN TRUE ELSE draft.failed)
        /\ next.trackers = (IF list = Refused THEN draft.trackers ELSE list)
    BY <2>1, <2>2 DEF DraftSet
  <2> QED BY <1>5, <2>2, <2>3 DEF TextKinds, InfoKinds, TrackerActions
<1> QED BY <1>2, <1>3, <1>4, <1>5

LEMMA SourceAppended ==
  ASSUME NEW patches \in Seq(Patches), NEW p \in Patches
  PROVE  HasSource(Append(patches, p)) <=> HasSource(patches) \/ p.field = "source"
<1> DEFINE n == Len(patches)
           new == Append(patches, p)
<1>1. n \in Nat /\ DOMAIN patches = 1 .. n
  OBVIOUS
<1>2. DOMAIN new = 1 .. n + 1 /\ new[n + 1] = p /\ \A k \in 1 .. n : new[k] = patches[k]
  OBVIOUS
<1> HIDE DEF n, new
<1>3. ASSUME NEW k \in 1 .. n + 1 PROVE k = n + 1 \/ k \in 1 .. n
  BY <1>1
<1>4. n + 1 \in 1 .. n + 1 /\ 1 .. n \subseteq 1 .. n + 1
  BY <1>1
<1>5. HasSource(new) <=> HasSource(patches) \/ p.field = "source"
  BY <1>1, <1>2, <1>3, <1>4 DEF HasSource
<1> QED BY <1>5 DEF new

\* The files of two torrents differ in what the info dictionary says of the torrent only.
SameFile(a, b) ==
    /\ a.announce = b.announce /\ a.announce_list = b.announce_list
    /\ a.comment = b.comment /\ a.creator = b.creator /\ a.date = b.date
    /\ a.url_list = b.url_list /\ a.httpseeds = b.httpseeds
    /\ a.source = b.source /\ a.unknown = b.unknown /\ a.info.sorted = b.info.sorted

\* What a patch of the info dictionary does.
LEMMA Spliced ==
  ASSUME NEW t \in Torrents, NEW patch \in Patches, NEW new, new = splice_info_identity(t, patch), new # Refused
  PROVE  /\ new \in Torrents /\ SameFile(new, t)
         /\ \A f \in InfoKinds : new.info[f] = IF f = patch.field THEN patch.value ELSE t.info[f]
         /\ patch.field # "private" => patch.value # BadText
<1>1. patch.field \in InfoKinds /\ (patch.field \in {"name", "source"} => patch.value \in Keys)
      /\ (patch.field = "private" => patch.value \in {0, 1})
  BY DEF Patches, InfoKinds
<1>2. DOMAIN t.info = InfoKinds \cup {"sorted"} /\ t.info = [f \in DOMAIN t.info |-> t.info[f]]
  BY DEF Torrents, InfoKinds
<1>3. CASE new = t /\ patch.field = "private" /\ patch.value = t.info[patch.field]
  BY <1>3 DEF SameFile, InfoKinds
<1>4. CASE new = [t EXCEPT !.info[patch.field] = patch.value] /\ patch.value # BadText
  <2> DEFINE info == [t.info EXCEPT ![patch.field] = patch.value]
  <2>1. new = [t EXCEPT !.info = info]
    BY <1>4
  <2>2. DOMAIN info = DOMAIN t.info
        /\ \A f \in DOMAIN t.info : info[f] = IF f = patch.field THEN patch.value ELSE t.info[f]
    BY <1>1, <1>2
  <2>3. info = [name |-> info.name, private |-> info.private, source |-> info.source, sorted |-> info.sorted]
    BY <1>2, <2>2 DEF InfoKinds
  <2> HIDE DEF info
  <2>4. info.name \in Keys /\ info.private \in Int \cup {None} /\ info.source \in Keys /\ info.sorted \in BOOLEAN
        /\ info.sorted = t.info.sorted
    BY <1>1, <1>2, <2>2, TorrentTypes DEF InfoKinds
  <2>5. info \in [name : Keys, private : Int \cup {None}, source : Keys, sorted : BOOLEAN]
    BY <2>3, <2>4
  <2>6. new \in Torrents /\ new.info = info
    BY <2>1, <2>5 DEF Torrents
  <2>7. SameFile(new, t)
    <3>1. DOMAIN t = {"announce", "announce_list", "comment", "creator", "date", "url_list", "httpseeds",
                      "source", "unknown", "info"}
      BY DEF Torrents
    <3> QED BY <2>1, <2>4, <3>1 DEF SameFile
  <2> QED BY <1>2, <1>4, <2>2, <2>6, <2>7
<1>5. \/ new = t /\ patch.field = "private" /\ patch.value = t.info[patch.field]
      \/ new = [t EXCEPT !.info[patch.field] = patch.value] /\ patch.value # BadText
  BY DEF splice_info_identity
<1> QED BY <1>3, <1>4, <1>5

-----------------------------------------------------------------------------
(* One action after another *)

\* A document whose info is that of its torrent, which differs from the one of d in its info only.
Alike(new, d) ==
    /\ new \in Documents /\ new.mode = d.mode
    /\ Loads(new.retained, new.mode) /\ ~NeedsRebuild(new) /\ SameFile(new.retained, d.retained)

\* What a patch does to a document.
LEMMA PatchedFacts ==
  ASSUME NEW document \in Documents, NEW d, Alike(d, document), NEW patch \in Patches,
         NEW new, new = Patched(d, patch), new # Refused
  PROVE  /\ Alike(new, document)
         /\ \A f \in InfoKinds : new.retained.info[f] = IF f = patch.field THEN patch.value
                                                                          ELSE d.retained.info[f]
         /\ patch.field # "private" => patch.value # BadText
<1> DEFINE t == splice_info_identity(d.retained, patch)
<1>1. d \in Documents /\ d.retained \in Torrents /\ d.mode \in Modes /\ d # Refused
  BY DocumentTypes, MetadataAssumption DEF Alike
<1>2. new = patch_info_identity(d, patch)
  BY <1>1 DEF Patched
<1>3. t # Refused
  BY <1>2 DEF patch_info_identity
<1>4. /\ t \in Torrents /\ SameFile(t, d.retained)
      /\ \A f \in InfoKinds : t.info[f] = IF f = patch.field THEN patch.value ELSE d.retained.info[f]
      /\ patch.field # "private" => patch.value # BadText
  BY <1>1, <1>3, Spliced
<1> HIDE DEF t
<1>5. SameFile(t, document.retained)
  BY <1>4 DEF Alike, SameFile
<1>6. CASE t = d.retained
  <2>1. new = d
    BY <1>2, <1>3, <1>6 DEF patch_info_identity, t
  <2> QED BY <1>4, <1>6, <2>1
<1>7. CASE t # d.retained
  <2>1. Loads(t, d.mode) /\ new = decode_torrent(t, d.mode)
    BY <1>2, <1>3, <1>7 DEF patch_info_identity, t
  <2>2. new.retained = t /\ new.mode = d.mode
    BY <2>1 DEF decode_torrent
  <2>3. new \in Documents /\ ~NeedsRebuild(new)
    BY <1>1, <1>4, <2>1, DecodeType, ReadIsKept
  <2> QED BY <1>4, <1>5, <2>1, <2>2, <2>3 DEF Alike
<1> QED BY <1>6, <1>7

\* The patches made so far, and one more.
LEMMA IdentitiesAppended ==
  ASSUME NEW document, NEW patches \in Seq(Patches), NEW p \in Patches
  PROVE  Identities(document, Append(patches, p))[Len(Append(patches, p))] =
           Patched(Identities(document, patches)[Len(patches)], p)
<1> DEFINE n == Len(patches)
           more == Append(patches, p)
           f == Identities(document, patches)
           g == Identities(document, more)
<1>1. n \in Nat /\ more \in Seq(Patches) /\ Len(more) = n + 1 /\ more[n + 1] = p
      /\ \A k \in 1 .. n : more[k] = patches[k]
  OBVIOUS
<1>2. f[0] = document /\ \A k \in 1 .. n : f[k] = Patched(f[k - 1], patches[k])
  BY <1>1, IdentitiesFacts
<1> HIDE DEF more
<1>3. g[0] = document /\ \A k \in 1 .. n + 1 : g[k] = Patched(g[k - 1], more[k])
  <2>1. Len(more) \in Nat
    BY <1>1
  <2>2. g[0] = document /\ \A k \in 1 .. Len(more) : g[k] = Patched(g[k - 1], more[k])
    BY <2>1, IdentitiesFacts
  <2> QED BY <1>1, <2>2
<1> HIDE DEF f, g, n
<1> DEFINE T == {k \in 0 .. n : g[k] # f[k]}
<1>4. T = {}
  <2>1. SUFFICES ASSUME T # {} PROVE FALSE
    OBVIOUS
  <2>2. PICK x \in T : \A y \in T : x <= y
    <3>1. T \subseteq Nat
      BY <1>1
    <3> HIDE DEF T
    <3> QED BY <2>1, <3>1, LeastNat
  <2>3. x \in 0 .. n /\ g[x] # f[x]
    OBVIOUS
  <2>4. CASE x = 0
    BY <1>2, <1>3, <2>3, <2>4
  <2>5. CASE x # 0
    <3>1. x \in 1 .. n /\ x \in 1 .. n + 1 /\ x - 1 \in 0 .. n /\ ~(x <= x - 1)
      BY <1>1, <2>3, <2>5
    <3>2. g[x - 1] = f[x - 1]
      BY <2>2, <3>1
    <3>3. more[x] = patches[x]
      BY <1>1, <3>1
    <3> QED BY <1>2, <1>3, <2>3, <3>1, <3>2, <3>3
  <2> QED BY <2>4, <2>5
<1>5. g[n] = f[n]
  BY <1>1, <1>4
<1>6. n + 1 \in 1 .. n + 1 /\ (n + 1) - 1 = n
  BY <1>1
<1>7. g[n + 1] = Patched(f[n], p)
  BY <1>1, <1>3, <1>5, <1>6
<1> QED BY <1>1, <1>7 DEF f, g, n, more

-----------------------------------------------------------------------------
(* The actions of an edit so far *)

\* The view that a draft and the document with its patches come to.
DraftView(draft, id) ==
    [name |-> id.info.name, private |-> id.info.private,
     comment |-> draft.metadata.comment, creator |-> draft.metadata.creator,
     source |-> SourceAfter(draft.metadata, id, draft.patches), date |-> draft.metadata.date,
     web_seeds |-> draft.metadata.web_seeds, trackers |-> draft.trackers]

\* After the actions of the kinds asked for, unless one failed: the view is the one requested,
\* and the info says what it said unless asked to change.
SoFar(document, draft, id, view, asked) ==
    /\ draft \in DraftSet /\ draft.metadata.source = document.metadata.source
    /\ ~draft.failed /\ id # Refused =>
         /\ Alike(id, document) /\ view = DraftView(draft, id)
         /\ \A f \in InfoKinds : f \notin asked => id.retained.info[f] = document.retained.info[f]
         /\ HasSource(draft.patches) <=> "source" \in asked

LEMMA SourceAfterBy ==
  ASSUME NEW metadata, NEW identity, NEW patches
  PROVE  SourceAfter(metadata, identity, patches) =
           IF HasSource(patches) THEN identity.metadata.source ELSE metadata.source
BY DEF SourceAfter, HasSource

LEMMA InfoRead ==
  ASSUME NEW d, ~NeedsRebuild(d)
  PROVE  /\ d.info.name = read_optional_text(d.retained.info.name)
         /\ d.info.private = (d.retained.info.private = 1)
         /\ d.metadata.source = read_optional_text(SourceKey(d.retained))
BY DEF NeedsRebuild, read_info, read_source, SourceKey

LEMMA EditStarts ==
  ASSUME NEW document \in Documents, ~NeedsRebuild(document), Loads(document.retained, document.mode)
  PROVE  SoFar(document, NoDraft(document), document, View(document), {})
<1> DEFINE draft == NoDraft(document)
<1>1. draft \in DraftSet
  BY DocumentTypes DEF NoDraft, DraftSet
<1>2. Alike(document, document)
  BY DEF Alike, SameFile
<1>3. draft.metadata = document.metadata /\ draft.trackers = document.trackers /\ draft.patches = <<>>
  BY DEF NoDraft
<1>4. ~HasSource(<<>>)
  BY DEF HasSource
<1> HIDE DEF draft
<1>5. View(document) = DraftView(draft, document)
  BY <1>3, <1>4, SourceAfterBy DEF View, DraftView
<1> QED BY <1>1, <1>2, <1>3, <1>4, <1>5 DEF SoFar, draft

LEMMA EditGoesOn ==
  ASSUME NEW document \in Documents, NEW draft, NEW id, NEW view, NEW asked,
         SoFar(document, draft, id, view, asked), NEW action \in Actions,
         NEW torrent, torrent.source = document.retained.source,
         NEW next, next = TakeAction(draft, action),
         NEW id2, id2 = IF action.kind \in InfoKinds THEN Patched(id, PatchOf(action)) ELSE id
  PROVE  SoFar(document, next, id2, Request(view, torrent, action), asked \cup {action.kind})
<1> DEFINE view2 == Request(view, torrent, action)
           asked2 == asked \cup {action.kind}
<1>1. draft \in DraftSet /\ next \in DraftSet /\ next.metadata.source = document.metadata.source
  BY Taken DEF SoFar
<1>2. action.kind \in TextKinds \cup InfoKinds \cup TrackerActions
  BY Kinds
<1>3. SUFFICES ASSUME ~next.failed, id2 # Refused
               PROVE  /\ Alike(id2, document) /\ view2 = DraftView(next, id2)
                      /\ \A f \in InfoKinds : f \notin asked2 => id2.retained.info[f] = document.retained.info[f]
                      /\ HasSource(next.patches) <=> "source" \in asked2
  BY <1>1 DEF SoFar
<1>4. CASE action.kind \in TextKinds
  <2>1. /\ next.trackers = draft.trackers /\ next.patches = draft.patches
        /\ next.failed = draft.failed
        /\ Replaced(next.metadata, draft.metadata, action)
    BY <1>1, <1>4, Taken
  <2>2. id2 = id
    BY <1>4 DEF TextKinds, InfoKinds
  <2>3. /\ Alike(id, document) /\ view = DraftView(draft, id)
        /\ \A f \in InfoKinds : f \notin asked => id.retained.info[f] = document.retained.info[f]
        /\ HasSource(draft.patches) <=> "source" \in asked
    BY <1>3, <2>1, <2>2 DEF SoFar
  <2>4. view2 = [view EXCEPT ![action.kind] = action.value]
    BY <1>4 DEF Request, TextKinds, TrackerActions
  <2>5. SourceAfter(next.metadata, id, next.patches) = SourceAfter(draft.metadata, id, draft.patches)
    BY <1>1, <2>1, SourceAfterBy DEF SoFar
  <2>6. view2 = DraftView(next, id)
    BY <1>4, <2>1, <2>3, <2>4, <2>5 DEF DraftView, Replaced, TextKinds
  <2> QED BY <1>4, <2>1, <2>2, <2>3, <2>6 DEF TextKinds
<1>5. CASE action.kind \in InfoKinds
  <2> DEFINE p == PatchOf(action)
  <2>1. /\ next.metadata = draft.metadata /\ next.trackers = draft.trackers
        /\ next.patches = Append(draft.patches, p) /\ next.failed = draft.failed /\ p \in Patches
    BY <1>1, <1>5, Taken
  <2>2. p.field = action.kind /\ p.value = action.value
    BY DEF PatchOf
  <2>3. id2 = Patched(id, p) /\ id # Refused
    BY <1>3, <1>5 DEF Patched
  <2> HIDE DEF p
  <2>4. /\ Alike(id, document) /\ view = DraftView(draft, id)
        /\ \A f \in InfoKinds : f \notin asked => id.retained.info[f] = document.retained.info[f]
        /\ HasSource(draft.patches) <=> "source" \in asked
    BY <1>3, <2>1, <2>3 DEF SoFar
  <2>5. /\ Alike(id2, document)
        /\ \A f \in InfoKinds : id2.retained.info[f] = IF f = p.field THEN p.value ELSE id.retained.info[f]
        /\ p.field # "private" => p.value # BadText
    BY <1>3, <2>1, <2>3, <2>4, PatchedFacts
  <2>6. HasSource(next.patches) <=> "source" \in asked2
    <3>1. draft.patches \in Seq(Patches)
      BY <1>1 DEF DraftSet
    <3>2. HasSource(next.patches) <=> HasSource(draft.patches) \/ p.field = "source"
      BY <2>1, <3>1, SourceAppended
    <3> QED BY <2>2, <2>4, <3>2
  <2>7. \A f \in InfoKinds : f \notin asked2 => id2.retained.info[f] = document.retained.info[f]
    BY <2>2, <2>4, <2>5
  <2>8. /\ id.info.name = read_optional_text(id.retained.info.name)
        /\ id.info.private = (id.retained.info.private = 1)
        /\ id.metadata.source = read_optional_text(SourceKey(id.retained))
    BY <2>4, InfoRead DEF Alike
  <2>9. /\ id2.info.name = read_optional_text(id2.retained.info.name)
        /\ id2.info.private = (id2.retained.info.private = 1)
        /\ id2.metadata.source = read_optional_text(SourceKey(id2.retained))
    BY <2>5, InfoRead DEF Alike
  <2>10. id2.retained.source = id.retained.source /\ id.retained.source = torrent.source
    BY <2>4, <2>5 DEF Alike, SameFile
  <2>11. SourceAfter(next.metadata, id2, next.patches) =
           IF p.field = "source" \/ HasSource(draft.patches) THEN id2.metadata.source
                                                            ELSE draft.metadata.source
    <3>1. draft.patches \in Seq(Patches)
      BY <1>1 DEF DraftSet
    <3>2. HasSource(next.patches) <=> HasSource(draft.patches) \/ p.field = "source"
      BY <2>1, <3>1, SourceAppended
    <3> QED BY <2>1, <3>2, SourceAfterBy
  <2>12. SourceAfter(draft.metadata, id, draft.patches) =
           IF HasSource(draft.patches) THEN id.metadata.source ELSE draft.metadata.source
    BY SourceAfterBy
  <2>13. view2 = DraftView(next, id2)
    <3>1. CASE action.kind = "name"
      <4>1. view2 = [view EXCEPT !.name = action.value]
        BY <3>1 DEF Request, TrackerActions
      <4>2. /\ id2.retained.info.name = action.value
            /\ id2.retained.info.private = id.retained.info.private
            /\ id2.retained.info.source = id.retained.info.source
        BY <2>2, <2>5, <3>1 DEF InfoKinds
      <4>3. id2.info.name = action.value
        BY <2>2, <2>5, <2>9, <3>1, <4>2 DEF read_optional_text
      <4>4. id2.info.private = id.info.private /\ id2.metadata.source = id.metadata.source
        BY <2>8, <2>9, <2>10, <4>2 DEF SourceKey
      <4>5. SourceAfter(next.metadata, id2, next.patches) = SourceAfter(draft.metadata, id, draft.patches)
        BY <2>2, <2>11, <2>12, <3>1, <4>4
      <4> QED BY <2>1, <2>4, <4>1, <4>3, <4>4, <4>5 DEF DraftView
    <3>2. CASE action.kind = "private"
      <4>1. view2 = [view EXCEPT !.private = (action.value = 1)]
        BY <3>2 DEF Request, TrackerActions
      <4>2. /\ id2.retained.info.private = action.value
            /\ id2.retained.info.name = id.retained.info.name
            /\ id2.retained.info.source = id.retained.info.source
        BY <2>2, <2>5, <3>2 DEF InfoKinds
      <4>3. id2.info.private = (action.value = 1)
        BY <2>9, <4>2
      <4>4. id2.info.name = id.info.name /\ id2.metadata.source = id.metadata.source
        BY <2>8, <2>9, <2>10, <4>2 DEF SourceKey
      <4>5. SourceAfter(next.metadata, id2, next.patches) = SourceAfter(draft.metadata, id, draft.patches)
        BY <2>2, <2>11, <2>12, <3>2, <4>4
      <4> QED BY <2>1, <2>4, <4>1, <4>3, <4>4, <4>5 DEF DraftView
    <3>3. CASE action.kind = "source"
      <4> DEFINE value == IF action.value = None THEN read_optional_text(torrent.source) ELSE action.value
      <4>1. view2 = [view EXCEPT !.source = value]
        BY <3>3 DEF Request, TrackerActions
      <4>2. /\ id2.retained.info.source = action.value
            /\ id2.retained.info.name = id.retained.info.name
            /\ id2.retained.info.private = id.retained.info.private
        BY <2>2, <2>5, <3>3 DEF InfoKinds
      <4>3. id2.metadata.source = value
        BY <2>2, <2>5, <2>9, <2>10, <3>3, <4>2 DEF read_optional_text, SourceKey
      <4>4. id2.info.name = id.info.name /\ id2.info.private = id.info.private
        BY <2>8, <2>9, <4>2
      <4>5. SourceAfter(next.metadata, id2, next.patches) = value
        BY <2>2, <2>11, <3>3, <4>3
      <4> HIDE DEF value
      <4> QED BY <2>1, <2>4, <4>1, <4>4, <4>5 DEF DraftView
    <3> QED BY <1>5, <3>1, <3>2, <3>3 DEF InfoKinds
  <2> QED BY <2>5, <2>6, <2>7, <2>13
<1>6. CASE action.kind \in TrackerActions
  <2>1. /\ next.metadata = draft.metadata /\ next.patches = draft.patches
        /\ ~draft.failed /\ next.trackers = RequestedTrackers(draft.trackers, action)
    BY <1>1, <1>3, <1>6, Taken
  <2>2. id2 = id
    BY <1>6 DEF TrackerActions, InfoKinds
  <2>3. /\ Alike(id, document) /\ view = DraftView(draft, id)
        /\ \A f \in InfoKinds : f \notin asked => id.retained.info[f] = document.retained.info[f]
        /\ HasSource(draft.patches) <=> "source" \in asked
    BY <1>3, <2>1, <2>2 DEF SoFar
  <2>4. view2 = [view EXCEPT !.trackers = RequestedTrackers(view.trackers, action)]
    BY <1>6 DEF Request
  <2>5. view.trackers = draft.trackers
    BY <2>3 DEF DraftView
  <2>6. view2 = DraftView(next, id)
    BY <2>1, <2>3, <2>4, <2>5 DEF DraftView
  <2> QED BY <1>6, <2>1, <2>2, <2>3, <2>6 DEF TrackerActions
<1> QED BY <1>2, <1>4, <1>5, <1>6

-----------------------------------------------------------------------------
(* A whole edit *)

Identified(document, draft) == Identities(document, draft.patches)[Len(draft.patches)]

LEMMA PatchesSame ==
  ASSUME NEW document, NEW draft, NEW next, next.patches = draft.patches
  PROVE  Identified(document, next) = Identified(document, draft)
BY DEF Identified

LEMMA EditStep ==
  ASSUME NEW document \in Documents, NEW draft, NEW view, NEW asked,
         SoFar(document, draft, Identified(document, draft), view, asked), NEW action \in Actions,
         NEW torrent, torrent.source = document.retained.source,
         NEW next, next = TakeAction(draft, action)
  PROVE  SoFar(document, next, Identified(document, next), Request(view, torrent, action),
               asked \cup {action.kind})
<1> DEFINE id == Identified(document, draft)
           id2 == IF action.kind \in InfoKinds THEN Patched(id, PatchOf(action)) ELSE id
<1>1. draft \in DraftSet
  BY DEF SoFar
<1>2. action.kind \in TextKinds \cup InfoKinds \cup TrackerActions
  BY Kinds
<1>3. action.kind \notin InfoKinds => next.patches = draft.patches
  BY <1>1, <1>2, Taken
<1>4. action.kind \in InfoKinds =>
        next.patches = Append(draft.patches, PatchOf(action)) /\ PatchOf(action) \in Patches
  BY <1>1, Taken
<1>5. draft.patches \in Seq(Patches)
  BY <1>1 DEF DraftSet
<1>6. Identified(document, next) = id2
  <2>1. CASE action.kind \in InfoKinds
    <3>1. Identified(document, next) = Patched(id, PatchOf(action))
      BY <1>4, <1>5, <2>1, IdentitiesAppended DEF Identified
    <3> QED BY <2>1, <3>1
  <2>2. CASE action.kind \notin InfoKinds
    BY <1>3, <2>2, PatchesSame
  <2> QED BY <2>1, <2>2
<1> HIDE DEF id
<1>7. SoFar(document, draft, id, view, asked)
  BY DEF id
<1>8. SoFar(document, next, id2, Request(view, torrent, action), asked \cup {action.kind})
  <2> DEFINE j == id2
  <2>1. j = IF action.kind \in InfoKinds THEN Patched(id, PatchOf(action)) ELSE id
    OBVIOUS
  <2> HIDE DEF j
  <2>2. SoFar(document, next, j, Request(view, torrent, action), asked \cup {action.kind})
    BY <1>7, <2>1, EditGoesOn
  <2> QED BY <2>2 DEF j
<1> QED BY <1>6, <1>8

KindsOf(actions) == {actions[k].kind : k \in DOMAIN actions}

LEMMA EditRun ==
  ASSUME NEW document \in Documents, ~NeedsRebuild(document),
         Loads(document.retained, document.mode), NEW actions \in Seq(Actions),
         NEW torrent, torrent.source = document.retained.source,
         NEW draft, draft = Drafts(document, actions)[Len(actions)]
  PROVE  SoFar(document, draft, Identified(document, draft),
               Requested(View(document), torrent, actions), KindsOf(actions))
<1> DEFINE n == Len(actions)
           F == Drafts(document, actions)
           V == Views(View(document), torrent, actions)
           A(k) == {actions[j].kind : j \in 1 .. k}
<1>1. n \in Nat /\ DOMAIN actions = 1 .. n /\ \A k \in 1 .. n : actions[k] \in Actions
  OBVIOUS
<1>2. F[0] = NoDraft(document) /\ \A k \in 1 .. n : F[k] = TakeAction(F[k - 1], actions[k])
  BY <1>1, DraftsFacts
<1>3. V[0] = View(document) /\ \A k \in 1 .. n : V[k] = Request(V[k - 1], torrent, actions[k])
  BY <1>1, ViewsFacts
<1> HIDE DEF F, V, n
<1> DEFINE OK(k) == SoFar(document, F[k], Identified(document, F[k]), V[k], A(k))
           T == {k \in 0 .. n : ~OK(k)}
<1>4. OK(0)
  <2>1. NoDraft(document).patches = <<>>
    BY DEF NoDraft
  <2>2. Identified(document, NoDraft(document)) = document
    <3>1. Len(<<>>) = 0
      OBVIOUS
    <3>2. Identities(document, <<>>)[0] = document
      <4>1. Len(<<>>) \in Nat
        BY <3>1
      <4> QED BY <4>1, IdentitiesFacts
    <3> QED BY <2>1, <3>1, <3>2 DEF Identified
  <2>3. A(0) = {}
    OBVIOUS
  <2>4. SoFar(document, NoDraft(document), document, View(document), {})
    BY EditStarts
  <2> HIDE DEF A
  <2> QED BY <1>2, <1>3, <2>2, <2>3, <2>4
<1>5. ASSUME NEW k \in 1 .. n, OK(k - 1) PROVE OK(k)
  <2>1. A(k) = A(k - 1) \cup {actions[k].kind}
    <3>1. \A j : j \in 1 .. k <=> j \in 1 .. k - 1 \/ j = k
      BY <1>1
    <3> QED BY <3>1
  <2> HIDE DEF A
  <2> DEFINE d == F[k - 1]
             v == V[k - 1]
             a == A(k - 1)
  <2>2. SoFar(document, d, Identified(document, d), v, a)
    BY <1>5
  <2>3. actions[k] \in Actions
    BY <1>1
  <2> DEFINE e == F[k]
  <2>4. e = TakeAction(d, actions[k]) /\ V[k] = Request(v, torrent, actions[k])
    BY <1>2, <1>3
  <2> HIDE DEF d, v, a, e
  <2>5. SoFar(document, e, Identified(document, e), Request(v, torrent, actions[k]), a \cup {actions[k].kind})
    BY <2>2, <2>3, <2>4, EditStep
  <2> QED BY <2>1, <2>4, <2>5 DEF a, e
<1> HIDE DEF OK
<1>6. T = {}
  <2>1. SUFFICES ASSUME T # {} PROVE FALSE
    OBVIOUS
  <2>2. PICK x \in T : \A y \in T : x <= y
    <3>1. T \subseteq Nat
      BY <1>1
    <3> HIDE DEF T
    <3> QED BY <2>1, <3>1, LeastNat
  <2>3. x \in 0 .. n /\ ~OK(x) /\ x # 0
    BY <1>4
  <2>4. x \in 1 .. n /\ x - 1 \in 0 .. n /\ ~(x <= x - 1)
    BY <1>1, <2>3
  <2>5. OK(x - 1)
    BY <2>2, <2>4
  <2> QED BY <1>5, <2>3, <2>4, <2>5
<1>7. OK(n)
  BY <1>1, <1>6
<1>8. SoFar(document, F[n], Identified(document, F[n]), V[n], A(n))
  BY <1>7 DEF OK
<1>9. A(n) = KindsOf(actions)
  BY <1>1 DEF KindsOf
<1>10. F[n] = draft
  BY DEF F, n
<1>11. V[n] = Requested(View(document), torrent, actions)
  BY RequestedView DEF V, n
<1> HIDE DEF A
<1> QED BY <1>8, <1>9, <1>10, <1>11

-----------------------------------------------------------------------------
(* What an edit comes to *)

\* What comes out of an edit that was applied.
EditedBy(new, loaded, actions) ==
    LET c == new.document
        d == loaded.document
    IN /\ new \in Snapshots /\ new.source = loaded.source /\ new.original = loaded.original
       /\ c.mode = d.mode /\ ~NeedsRebuild(c) /\ Loads(c.retained, c.mode)
       /\ SameFile(c.retained, d.retained)
       /\ View(c) = Requested(View(d), loaded.original, actions)
       /\ encode_patch(c) # loaded.original
       /\ \A f \in InfoKinds : f \notin KindsOf(actions) => c.retained.info[f] = d.retained.info[f]

SnapshotTypes == \A loaded \in Snapshots :
    /\ loaded.document \in Documents /\ loaded.source \in Paths /\ loaded.original \in Torrents
    /\ loaded = [document |-> loaded.document, source |-> loaded.source, original |-> loaded.original]

LEMMA SnapshotFields == SnapshotTypes
BY DEF SnapshotTypes, Snapshots

LEMMA NothingRequested ==
  ASSUME NEW view, NEW torrent
  PROVE  Requested(view, torrent, <<>>) = view
<1>1. Len(<<>>) = 0
  OBVIOUS
<1>2. Len(<<>>) \in Nat
  BY <1>1
<1>3. Views(view, torrent, <<>>)[0] = view
  BY <1>2, ViewsFacts
<1> QED BY <1>1, <1>3, RequestedView

\* The document that an edit proposes.
Candidate(document, draft) ==
    LET identity == Identified(document, draft)
    IN [identity EXCEPT
          !.metadata = [draft.metadata EXCEPT !.source = SourceAfter(draft.metadata, identity,
                                                                     draft.patches)],
          !.trackers = draft.trackers]

LEMMA EditBy ==
  ASSUME NEW loaded, NEW actions, NEW draft, draft = Drafts(loaded.document, actions)[Len(actions)]
  PROVE  edit(loaded, actions) =
           IF actions = <<>> THEN [disposition |-> "NoChange", loaded |-> loaded]
           ELSE IF draft.failed \/ Identified(loaded.document, draft) = Refused THEN Refused
           ELSE IF NeedsRebuild(Candidate(loaded.document, draft))
           THEN [disposition |-> "NeedRebuild", loaded |-> loaded]
           ELSE IF encode_patch(Candidate(loaded.document, draft)) = loaded.original
           THEN [disposition |-> "NoChange", loaded |-> loaded]
           ELSE [disposition |-> "Applied",
                 loaded |-> [loaded EXCEPT !.document = Candidate(loaded.document, draft)]]
BY DEF edit, Identified, Candidate

\* What the proposed document is.
LEMMA CandidateFacts ==
  ASSUME NEW document \in Documents, ~NeedsRebuild(document), NEW draft, NEW view, NEW asked,
         SoFar(document, draft, Identified(document, draft), view, asked),
         ~draft.failed, Identified(document, draft) # Refused,
         NEW c, c = Candidate(document, draft)
  PROVE  /\ c \in Documents /\ c.mode = document.mode /\ ~NeedsRebuild(c) /\ Loads(c.retained, c.mode)
         /\ SameFile(c.retained, document.retained) /\ View(c) = view
         /\ \A f \in InfoKinds : f \notin asked => c.retained.info[f] = document.retained.info[f]
<1> DEFINE id == Identified(document, draft)
           source == SourceAfter(draft.metadata, id, draft.patches)
           m == [draft.metadata EXCEPT !.source = source]
<1>1. /\ draft.metadata \in Metadata /\ draft.trackers \in Lists
      /\ draft.metadata.source = document.metadata.source
  BY DEF SoFar, DraftSet
<1>2. /\ Alike(id, document) /\ view = DraftView(draft, id)
      /\ \A f \in InfoKinds : f \notin asked => id.retained.info[f] = document.retained.info[f]
      /\ HasSource(draft.patches) <=> "source" \in asked
  BY DEF SoFar
<1>3. c = [id EXCEPT !.metadata = m, !.trackers = draft.trackers]
  BY DEF Candidate
<1> HIDE DEF id
<1>4. /\ id \in Documents /\ id.mode = document.mode /\ Loads(id.retained, id.mode) /\ ~NeedsRebuild(id)
      /\ SameFile(id.retained, document.retained)
  BY <1>2 DEF Alike
<1>5. source = IF HasSource(draft.patches) THEN id.metadata.source ELSE draft.metadata.source
  BY SourceAfterBy
<1>6. id.metadata.source \in OptionalTexts /\ document.metadata.source \in OptionalTexts
  BY <1>4, DocumentTypes
<1>7. source \in OptionalTexts
  BY <1>1, <1>5, <1>6
<1>8. source = read_optional_text(SourceKey(id.retained))
  <2>1. id.metadata.source = read_optional_text(SourceKey(id.retained))
    BY <1>4, InfoRead
  <2>2. document.metadata.source = read_optional_text(SourceKey(document.retained))
    BY InfoRead
  <2>3. CASE HasSource(draft.patches)
    BY <1>5, <2>1, <2>3
  <2>4. CASE ~HasSource(draft.patches)
    <3>1. id.retained.info.source = document.retained.info.source
      BY <1>2, <2>4 DEF InfoKinds
    <3>2. SourceKey(id.retained) = SourceKey(document.retained)
      BY <1>4, <3>1 DEF SourceKey, SameFile
    <3> QED BY <1>1, <1>5, <2>2, <2>4, <3>2
  <2> QED BY <2>3, <2>4
<1>9. view = [name |-> id.info.name, private |-> id.info.private, comment |-> draft.metadata.comment,
              creator |-> draft.metadata.creator, source |-> source, date |-> draft.metadata.date,
              web_seeds |-> draft.metadata.web_seeds, trackers |-> draft.trackers]
  BY <1>2 DEF DraftView
<1> HIDE DEF source
<1>10. /\ m \in Metadata /\ m.comment = draft.metadata.comment /\ m.creator = draft.metadata.creator
       /\ m.source = source /\ m.date = draft.metadata.date /\ m.web_seeds = draft.metadata.web_seeds
  BY <1>1, <1>7 DEF Metadata
<1> HIDE DEF m
<1>11. /\ c \in Documents /\ c.mode = id.mode /\ c.retained = id.retained /\ c.info = id.info
       /\ c.metadata = m /\ c.trackers = draft.trackers
  BY <1>1, <1>3, <1>4, <1>10 DEF Documents
<1>12. ~NeedsRebuild(c)
  <2>1. c.info = read_info(c.retained)
    BY <1>4, <1>11 DEF NeedsRebuild
  <2>2. c.metadata.source = read_source(c.retained)
    BY <1>8, <1>10, <1>11 DEF read_source, SourceKey
  <2> QED BY <2>1, <2>2 DEF NeedsRebuild
<1>13. View(c) = view
  BY <1>9, <1>10, <1>11 DEF View
<1> QED BY <1>2, <1>4, <1>11, <1>12, <1>13

\* An edit of any length that is not refused comes to the fields its actions ask for, one after
\* the other, although the edits of the info dictionary are applied after all the others and read
\* the torrent again (TorrentService::edit); one without a change says so and changes nothing.
THEOREM EditDoesWhatWasAsked ==
  ASSUME NEW loaded \in Snapshots, Well(loaded), NEW actions \in Seq(Actions),
         NEW edited, edited = edit(loaded, actions), edited # Refused
  PROVE  \/ /\ edited.disposition = "NoChange" /\ edited.loaded = loaded
            /\ Requested(View(loaded.document), loaded.original, actions) = View(loaded.document)
         \/ edited.disposition = "Applied" /\ EditedBy(edited.loaded, loaded, actions)
<1> DEFINE d == loaded.document
           t == loaded.original
           draft == Drafts(d, actions)[Len(actions)]
           c == Candidate(d, draft)
           view == Requested(View(d), t, actions)
<1>1. d \in Documents /\ t \in Torrents /\ loaded.source \in Paths
  BY SnapshotFields DEF SnapshotTypes
<1>2. /\ encode_patch(d) = t /\ Loads(d.retained, d.mode) /\ ~NeedsRebuild(d)
      /\ View(decode_torrent(t, d.mode)) = View(d)
  BY DEF Well
<1>3. t.source = d.retained.source
  BY <1>1, <1>2, Written
<1>4. SoFar(d, draft, Identified(d, draft), view, KindsOf(actions))
  BY <1>1, <1>2, <1>3, EditRun
<1>5. edited = IF actions = <<>> THEN [disposition |-> "NoChange", loaded |-> loaded]
           ELSE IF draft.failed \/ Identified(d, draft) = Refused THEN Refused
           ELSE IF NeedsRebuild(c) THEN [disposition |-> "NeedRebuild", loaded |-> loaded]
           ELSE IF encode_patch(c) = t THEN [disposition |-> "NoChange", loaded |-> loaded]
           ELSE [disposition |-> "Applied", loaded |-> [loaded EXCEPT !.document = c]]
  BY EditBy
<1> HIDE DEF draft
<1>6. CASE actions = <<>>
  <2>1. edited.disposition = "NoChange" /\ edited.loaded = loaded
    BY <1>5, <1>6
  <2>2. view = View(d)
    BY <1>6, NothingRequested
  <2> QED BY <2>1, <2>2
<1>7. CASE actions # <<>>
  <2>1. ~draft.failed /\ Identified(d, draft) # Refused
    BY <1>5, <1>7
  <2>2. /\ c \in Documents /\ c.mode = d.mode /\ ~NeedsRebuild(c) /\ Loads(c.retained, c.mode)
        /\ SameFile(c.retained, d.retained) /\ View(c) = view
        /\ \A f \in InfoKinds : f \notin KindsOf(actions) => c.retained.info[f] = d.retained.info[f]
    BY <1>1, <1>2, <1>4, <2>1, CandidateFacts
  <2> HIDE DEF c
  <2>3. CASE encode_patch(c) = t
    <3>1. edited.disposition = "NoChange" /\ edited.loaded = loaded
      BY <1>5, <1>7, <2>1, <2>2, <2>3
    <3>2. View(decode_torrent(encode_patch(c), d.mode)) = View(c)
      BY <2>2, ViewWritten
    <3>3. view = View(d)
      BY <1>2, <2>2, <2>3, <3>2
    <3> QED BY <3>1, <3>3
  <2>4. CASE encode_patch(c) # t
    <3> DEFINE new == [loaded EXCEPT !.document = c]
    <3>1. edited.disposition = "Applied" /\ edited.loaded = new
      BY <1>5, <1>7, <2>1, <2>2, <2>4
    <3>2. new.document = c /\ new.source = loaded.source /\ new.original = t /\ new \in Snapshots
      BY <2>2 DEF Snapshots
    <3> HIDE DEF new
    <3>3. EditedBy(new, loaded, actions)
      BY <2>2, <2>4, <3>2 DEF EditedBy
    <3> QED BY <3>1, <3>3
  <2> QED BY <2>3, <2>4
<1> QED BY <1>6, <1>7

-----------------------------------------------------------------------------
(* Saving what was edited *)

Requests == [target : Paths \cup {None}, overwrite : BOOLEAN]
TargetOf(loaded, request) == IF request.target = None THEN loaded.source ELSE request.target

\* What ReopensAsEdited and KeepsTheRest say of what was written.
Reopened(w) ==
    /\ Loads(w.torrent, w.mode)
    /\ View(decode_torrent(w.torrent, w.mode)) =
         Requested(View(decode_torrent(w.before, w.mode)), w.before, w.actions)
RestKept(w) ==
    LET old == w.before
        new == w.torrent
        before == View(decode_torrent(old, w.mode))
        after == View(decode_torrent(new, w.mode))
        Asked(field) == \E k \in DOMAIN w.actions : w.actions[k].kind = field
    IN /\ new.comment # old.comment => after.comment # before.comment
       /\ new.creator # old.creator => after.creator # before.creator
       /\ <<new.url_list, new.httpseeds>> # <<old.url_list, old.httpseeds>> =>
            after.web_seeds # before.web_seeds
       /\ <<new.announce, new.announce_list>> # <<old.announce, old.announce_list>> =>
            after.trackers # before.trackers
       /\ <<new.source, new.unknown, new.info.sorted>> =
            <<old.source, old.unknown, old.info.sorted>>
       /\ \A field \in {"name", "private", "source"} :
            new.info[field] # old.info[field] => Asked(field)

\* Two documents over the same file that say the same of a key are written with the same key.
LEMMA SameKeys ==
  ASSUME NEW c \in Documents, NEW d \in Documents, SameFile(c.retained, d.retained),
         NEW new, new = encode_patch(c), NEW old, old = encode_patch(d)
  PROVE  /\ c.metadata.comment = d.metadata.comment => new.comment = old.comment
         /\ c.metadata.creator = d.metadata.creator => new.creator = old.creator
         /\ c.metadata.web_seeds = d.metadata.web_seeds =>
              new.url_list = old.url_list /\ new.httpseeds = old.httpseeds
         /\ c.trackers = d.trackers =>
              new.announce = old.announce /\ new.announce_list = old.announce_list
         /\ new.source = old.source /\ new.unknown = old.unknown /\ new.info.sorted = old.info.sorted
         /\ new.info = c.retained.info /\ old.info = d.retained.info
<1> DEFINE a == c.retained
           b == d.retained
<1>1. /\ new.comment = set_texts(a, c.metadata).comment /\ new.creator = set_texts(a, c.metadata).creator
      /\ new.url_list = set_web_seeds(a, c.metadata.web_seeds).url_list
      /\ new.httpseeds = set_web_seeds(a, c.metadata.web_seeds).httpseeds
      /\ new.announce = set_trackers(a, c.trackers).announce
      /\ new.announce_list = set_trackers(a, c.trackers).announce_list
      /\ new.info = a.info /\ new.source = a.source /\ new.unknown = a.unknown
  BY EncodedFields
<1>2. /\ old.comment = set_texts(b, d.metadata).comment /\ old.creator = set_texts(b, d.metadata).creator
      /\ old.url_list = set_web_seeds(b, d.metadata.web_seeds).url_list
      /\ old.httpseeds = set_web_seeds(b, d.metadata.web_seeds).httpseeds
      /\ old.announce = set_trackers(b, d.trackers).announce
      /\ old.announce_list = set_trackers(b, d.trackers).announce_list
      /\ old.info = b.info /\ old.source = b.source /\ old.unknown = b.unknown
  BY EncodedFields
<1>3. SameFile(a, b)
  OBVIOUS
<1> HIDE DEF a, b
<1>4. /\ a.announce = b.announce /\ a.announce_list = b.announce_list
      /\ a.comment = b.comment /\ a.creator = b.creator
      /\ a.url_list = b.url_list /\ a.httpseeds = b.httpseeds
      /\ a.source = b.source /\ a.unknown = b.unknown /\ a.info.sorted = b.info.sorted
  BY <1>3 DEF SameFile
<1>5. c.metadata.comment = d.metadata.comment => new.comment = old.comment
  BY <1>1, <1>2, <1>4 DEF set_texts
<1>6. c.metadata.creator = d.metadata.creator => new.creator = old.creator
  BY <1>1, <1>2, <1>4 DEF set_texts
<1>7. \A seeds : set_web_seeds(a, seeds) = set_web_seeds(b, seeds)
  <2>1. read_web_seed_field(a) = read_web_seed_field(b)
    BY <1>4 DEF read_web_seed_field
  <2> QED BY <1>4, <2>1 DEF set_web_seeds
<1>8. \A list : set_trackers(a, list) = set_trackers(b, list)
  <2>1. read_trackers(a) = read_trackers(b)
    BY <1>4 DEF read_trackers
  <2> QED BY <1>4, <2>1 DEF set_trackers
<1> QED BY <1>1, <1>2, <1>4, <1>5, <1>6, <1>7, <1>8 DEF a, b

\* What is saved after an edit.
LEMMA Saved ==
  ASSUME NEW loaded \in Snapshots, Well(loaded), NEW actions \in Seq(Actions),
         NEW new, EditedBy(new, loaded, actions), NEW request \in Requests,
         NEW saved, saved = save(new, request), saved # Refused
  PROVE  /\ saved \in Snapshots /\ Well(saved) /\ saved # loaded
         /\ saved.source = TargetOf(loaded, request) /\ saved.original # loaded.original
         /\ saved.document.mode = loaded.document.mode
         /\ View(saved.document) = Requested(View(loaded.document), loaded.original, actions)
         /\ saved.source = loaded.source => files[saved.source] = loaded.original
<1> DEFINE c == new.document
           t == encode_patch(c)
           target == TargetOf(new, request)
<1>1. /\ new \in Snapshots /\ new.source = loaded.source /\ new.original = loaded.original
      /\ c.mode = loaded.document.mode /\ ~NeedsRebuild(c) /\ Loads(c.retained, c.mode)
      /\ View(c) = Requested(View(loaded.document), loaded.original, actions)
      /\ t # loaded.original
  BY DEF EditedBy
<1>2. /\ c \in Documents /\ new.source \in Paths
      /\ new = [document |-> c, source |-> new.source, original |-> new.original]
  BY <1>1, SnapshotFields DEF SnapshotTypes
<1>3. target \in Paths
  BY <1>2 DEF TargetOf, Requests
<1>4. saved = [new EXCEPT !.source = target, !.original = t] /\ Commits(new, request)
  BY <1>1 DEF save, TargetOf
<1>5. t \in Torrents
  BY <1>2, Written
<1>6. Loads(t, c.mode)
  BY <1>1, <1>2, LoadsWritten
<1>7. View(decode_torrent(t, c.mode)) = View(c)
  BY <1>1, <1>2, ViewWritten
<1>8. target = loaded.source => files[target] = loaded.original
  BY <1>1, <1>4 DEF Commits, TargetOf
<1>9. target = TargetOf(loaded, request)
  BY <1>1 DEF TargetOf
<1>10. encode_patch(c) = t
  OBVIOUS
<1> HIDE DEF c, t, target
<1>11. saved.document = c /\ saved.source = target /\ saved.original = t
       /\ saved = [document |-> c, source |-> target, original |-> t]
  <2>1. new \in [document : {c}, source : Paths, original : Torrents]
    BY <1>1, <1>2 DEF Snapshots, c
  <2>2. saved = [new EXCEPT !.source = target, !.original = t]
    BY <1>4
  <2> QED BY <2>1, <2>2
<1>12. saved \in Snapshots
  BY <1>2, <1>3, <1>5, <1>11 DEF Snapshots
<1>13. Well(saved)
  BY <1>1, <1>6, <1>7, <1>10, <1>11 DEF Well
<1> QED BY <1>1, <1>8, <1>9, <1>11, <1>12, <1>13

LEMMA SavedWell ==
  ASSUME NEW loaded \in Snapshots, Well(loaded), NEW actions \in Seq(Actions),
         NEW new, EditedBy(new, loaded, actions), NEW request \in Requests,
         NEW saved, saved = save(new, request), saved # Refused,
         NEW w, w.torrent = saved.original, w.before = loaded.original,
         w.mode = loaded.document.mode, w.actions = actions
  PROVE  Reopened(w) /\ RestKept(w)
<1> DEFINE c == new.document
           d == loaded.document
           t == loaded.original
           u == saved.original
<1>1. /\ new \in Snapshots /\ SameFile(c.retained, d.retained) /\ c.mode = d.mode
      /\ \A f \in InfoKinds : f \notin KindsOf(actions) => c.retained.info[f] = d.retained.info[f]
  BY DEF EditedBy
<1>2. c \in Documents /\ d \in Documents
  BY <1>1, SnapshotFields DEF SnapshotTypes
<1>3. /\ Well(saved) /\ saved.document.mode = d.mode
      /\ View(saved.document) = Requested(View(d), t, actions)
  BY Saved
<1>4. saved.document = c
  BY SnapshotFields, <1>1 DEF save, SnapshotTypes
<1>5. u = encode_patch(c) /\ t = encode_patch(d)
  BY <1>3, <1>4 DEF Well
<1>6. View(decode_torrent(u, d.mode)) = View(c) /\ Loads(u, d.mode)
  BY <1>3, <1>4 DEF Well
<1>7. View(decode_torrent(t, d.mode)) = View(d)
  BY DEF Well
<1>8. w.torrent = u /\ w.before = t /\ w.mode = d.mode
  OBVIOUS
<1>9. Reopened(w)
  BY <1>3, <1>4, <1>6, <1>7, <1>8 DEF Reopened
<1>10. /\ c.metadata.comment = d.metadata.comment => u.comment = t.comment
       /\ c.metadata.creator = d.metadata.creator => u.creator = t.creator
       /\ c.metadata.web_seeds = d.metadata.web_seeds =>
              u.url_list = t.url_list /\ u.httpseeds = t.httpseeds
       /\ c.trackers = d.trackers =>
              u.announce = t.announce /\ u.announce_list = t.announce_list
       /\ u.source = t.source /\ u.unknown = t.unknown /\ u.info.sorted = t.info.sorted
       /\ u.info = c.retained.info /\ t.info = d.retained.info
  BY <1>1, <1>2, <1>5, SameKeys
<1> HIDE DEF c, d, t, u
<1>11. /\ View(c).comment = c.metadata.comment /\ View(c).creator = c.metadata.creator
       /\ View(c).web_seeds = c.metadata.web_seeds /\ View(c).trackers = c.trackers
  BY DEF View
<1>12. /\ View(d).comment = d.metadata.comment /\ View(d).creator = d.metadata.creator
       /\ View(d).web_seeds = d.metadata.web_seeds /\ View(d).trackers = d.trackers
  BY DEF View
<1>13. ASSUME NEW f \in {"name", "private", "source"}, u.info[f] # t.info[f]
       PROVE  \E k \in DOMAIN w.actions : w.actions[k].kind = f
  <2>1. f \in KindsOf(actions)
    BY <1>1, <1>10, <1>13 DEF InfoKinds
  <2> QED BY <2>1 DEF KindsOf
<1>14. RestKept(w)
  BY <1>6, <1>7, <1>8, <1>10, <1>11, <1>12, <1>13 DEF RestKept
<1> QED BY <1>9, <1>14

-----------------------------------------------------------------------------
(* What a list of actions comes to, field by field *)

ViewFields == {"name", "private", "comment", "creator", "source", "date", "web_seeds", "trackers"}
FieldOf(action) == IF action.kind \in TrackerActions THEN "trackers" ELSE action.kind

LEMMA RequestKeeps ==
  ASSUME NEW view, DOMAIN view = ViewFields, NEW torrent, NEW action \in Actions
  PROVE  /\ DOMAIN Request(view, torrent, action) = ViewFields
         /\ \A f \in ViewFields : f # FieldOf(action) => Request(view, torrent, action)[f] = view[f]
<1>1. action.kind \in TextKinds \cup InfoKinds \cup TrackerActions
  BY Kinds
<1>2. CASE action.kind \in TrackerActions
  BY <1>2 DEF Request, FieldOf
<1>3. CASE action.kind = "private"
  BY <1>3 DEF Request, FieldOf, TrackerActions
<1>4. CASE action.kind \in TextKinds \cup {"name"}
  BY <1>4 DEF Request, FieldOf, TrackerActions, TextKinds
<1>5. CASE action.kind = "source"
  BY <1>5 DEF Request, FieldOf, TrackerActions
<1> QED BY <1>1, <1>2, <1>3, <1>4, <1>5 DEF InfoKinds

\* What the last action for a field made of it stays.
LEMMA RequestedLast ==
  ASSUME NEW view, DOMAIN view = ViewFields, NEW torrent, NEW actions \in Seq(Actions),
         NEW f \in ViewFields, NEW m \in 0 .. Len(actions),
         \A k \in m + 1 .. Len(actions) : FieldOf(actions[k]) # f
  PROVE  /\ \A k \in 0 .. Len(actions) : DOMAIN Views(view, torrent, actions)[k] = ViewFields
         /\ Requested(view, torrent, actions)[f] = Views(view, torrent, actions)[m][f]
         /\ DOMAIN Requested(view, torrent, actions) = ViewFields
<1> DEFINE n == Len(actions)
           V == Views(view, torrent, actions)
<1>1. n \in Nat /\ \A k \in 1 .. n : actions[k] \in Actions
  OBVIOUS
<1>2. V[0] = view /\ \A k \in 1 .. n : V[k] = Request(V[k - 1], torrent, actions[k])
  BY <1>1, ViewsFacts
<1>3. Requested(view, torrent, actions) = V[n]
  BY RequestedView
<1>4. m \in 0 .. n /\ \A k \in m + 1 .. n : FieldOf(actions[k]) # f
  OBVIOUS
<1> HIDE DEF V, n
<1> DEFINE OK(k) == DOMAIN V[k] = ViewFields /\ (k >= m => V[k][f] = V[m][f])
           T == {k \in 0 .. n : ~OK(k)}
<1>5. OK(0)
  BY <1>2, <1>4
<1>6. ASSUME NEW k \in 1 .. n, OK(k - 1) PROVE OK(k)
  <2> DEFINE v == V[k - 1]
  <2>1. V[k] = Request(v, torrent, actions[k]) /\ actions[k] \in Actions /\ DOMAIN v = ViewFields
    BY <1>1, <1>2, <1>6
  <2> HIDE DEF v
  <2>2. /\ DOMAIN V[k] = ViewFields
        /\ \A g \in ViewFields : g # FieldOf(actions[k]) => V[k][g] = v[g]
    BY <2>1, RequestKeeps
  <2>3. CASE k < m
    BY <1>1, <1>4, <2>2, <2>3
  <2>4. CASE k = m
    BY <2>2, <2>4
  <2>5. CASE k > m
    <3>1. k \in m + 1 .. n /\ k - 1 >= m
      BY <1>1, <1>4, <2>5
    <3>2. FieldOf(actions[k]) # f
      BY <1>4, <3>1
    <3>3. V[k][f] = v[f]
      BY <2>2, <3>2
    <3>4. v[f] = V[m][f]
      BY <1>6, <3>1 DEF v
    <3> QED BY <2>2, <3>3, <3>4
  <2> QED BY <1>1, <1>4, <2>3, <2>4, <2>5
<1>7. T = {}
  <2> HIDE DEF OK
  <2>1. SUFFICES ASSUME T # {} PROVE FALSE
    OBVIOUS
  <2>2. PICK x \in T : \A y \in T : x <= y
    <3>1. T \subseteq Nat
      BY <1>1
    <3> HIDE DEF T
    <3> QED BY <2>1, <3>1, LeastNat
  <2>3. x \in 1 .. n /\ x - 1 \in 0 .. n /\ ~(x <= x - 1) /\ ~OK(x)
    BY <1>1, <1>5
  <2>4. OK(x - 1)
    BY <2>2, <2>3
  <2> QED BY <1>6, <2>3, <2>4
<1>8. \A k \in 0 .. n : OK(k)
  BY <1>7
<1>9. n \in 0 .. n /\ n >= m
  BY <1>1, <1>4
<1>10. DOMAIN V[n] = ViewFields /\ V[n][f] = V[m][f] /\ \A k \in 0 .. n : DOMAIN V[k] = ViewFields
  BY <1>8, <1>9
<1> QED BY <1>3, <1>10 DEF V, n

LEMMA RequestedOther ==
  ASSUME NEW view, DOMAIN view = ViewFields, NEW torrent, NEW actions \in Seq(Actions),
         NEW f \in ViewFields, \A k \in DOMAIN actions : FieldOf(actions[k]) # f
  PROVE  Requested(view, torrent, actions)[f] = view[f]
<1>1. Len(actions) \in Nat /\ 0 \in 0 .. Len(actions) /\ \A k \in 0 + 1 .. Len(actions) : FieldOf(actions[k]) # f
  OBVIOUS
<1>2. Views(view, torrent, actions)[0] = view
  BY <1>1, ViewsFacts
<1>3. Requested(view, torrent, actions)[f] = Views(view, torrent, actions)[0][f]
  BY <1>1, RequestedLast
<1> QED BY <1>2, <1>3

\* What an action of the Modify page sets its field to.
Given(action) == IF action.kind = "private" THEN action.value = 1 ELSE action.value

LEMMA RequestedOnce ==
  ASSUME NEW view, DOMAIN view = ViewFields, NEW torrent, NEW actions \in Seq(Actions),
         NEW m \in DOMAIN actions,
         actions[m].kind \in {"comment", "creator", "name", "private", "date", "web_seeds", "trackers"},
         \A k \in DOMAIN actions : FieldOf(actions[k]) = actions[m].kind => k = m
  PROVE  Requested(view, torrent, actions)[actions[m].kind] = Given(actions[m])
<1> DEFINE f == actions[m].kind
           V == Views(view, torrent, actions)
           n == Len(actions)
<1>1. n \in Nat /\ m \in 1 .. n /\ m \in 0 .. n /\ m - 1 \in 0 .. n /\ f \in ViewFields
      /\ 0 \in 0 .. n
  BY DEF ViewFields
<1>2. \A k \in m + 1 .. n : FieldOf(actions[k]) # f
  <2>1. \A k \in m + 1 .. n : k \in DOMAIN actions /\ k # m
    BY <1>1
  <2> QED BY <2>1
<1>3. Requested(view, torrent, actions)[f] = V[m][f] /\ \A k \in 0 .. n : DOMAIN V[k] = ViewFields
  <2>1. m \in 0 .. Len(actions)
    BY <1>1
  <2>2. \A k \in m + 1 .. Len(actions) : FieldOf(actions[k]) # f
    BY <1>2
  <2>3. f \in ViewFields
    BY <1>1
  <2> QED BY <2>1, <2>2, <2>3, RequestedLast
<1>4. V[m] = Request(V[m - 1], torrent, actions[m])
  BY <1>1, ViewsFacts
<1>5. actions[m] \in Actions
  OBVIOUS
<1> DEFINE v == V[m - 1]
           a == actions[m]
<1>6. DOMAIN v = ViewFields /\ f = a.kind /\ V[m] = Request(v, torrent, a)
      /\ a.kind \in {"comment", "creator", "name", "private", "date", "web_seeds", "trackers"}
  BY <1>1, <1>3, <1>4
<1> HIDE DEF v, V, a, f
<1>7. Request(v, torrent, a)[a.kind] = Given(a)
  <2>1. CASE a.kind = "trackers"
    BY <1>6, <2>1 DEF Request, RequestedTrackers, TrackerActions, ViewFields, Given
  <2>2. CASE a.kind = "private"
    BY <1>6, <2>2 DEF Request, TrackerActions, ViewFields, Given
  <2>3. CASE a.kind \in {"comment", "creator", "name", "date", "web_seeds"}
    BY <1>6, <2>3 DEF Request, TrackerActions, ViewFields, Given
  <2> QED BY <1>6, <2>1, <2>2, <2>3
<1> QED BY <1>3, <1>6, <1>7 DEF a, f

\* Setting the trackers alone.
LEMMA OneAction ==
  ASSUME NEW list \in Lists, NEW actions, actions = <<Act("trackers", list)>>
  PROVE  /\ actions \in Seq(Actions) /\ DOMAIN actions = {1} /\ actions[1] = Act("trackers", list)
         /\ actions[1].value = list /\ actions[1].kind = "trackers"
<1>1. Act("trackers", list) \in Actions
  BY DEF Act, Actions
<1> QED BY <1>1 DEF Act

LEMMA RequestedList ==
  ASSUME NEW view, DOMAIN view = ViewFields, NEW torrent, NEW list \in Lists,
         NEW actions, actions = <<Act("trackers", list)>>
  PROVE  Requested(view, torrent, actions).trackers = list
<1>1. /\ actions \in Seq(Actions) /\ DOMAIN actions = {1} /\ actions[1] = Act("trackers", list)
      /\ actions[1].value = list /\ actions[1].kind = "trackers"
  BY OneAction
<1>2. 1 \in DOMAIN actions /\ \A k \in DOMAIN actions : k = 1
  BY <1>1
<1>3. Requested(view, torrent, actions)[actions[1].kind] = Given(actions[1])
  <2> DEFINE m == 1
  <2>1. actions[m].kind \in {"comment", "creator", "name", "private", "date", "web_seeds", "trackers"}
    BY <1>1
  <2>2. actions \in Seq(Actions) /\ m \in DOMAIN actions
    BY <1>1
  <2>3. \A k \in DOMAIN actions : FieldOf(actions[k]) = actions[m].kind => k = m
    BY <1>2
  <2> HIDE DEF m
  <2>4. Requested(view, torrent, actions)[actions[m].kind] = Given(actions[m])
    BY <2>1, <2>2, <2>3, RequestedOnce
  <2> QED BY <2>4 DEF m
<1> QED BY <1>1, <1>3 DEF Given

-----------------------------------------------------------------------------
(* The table of a page *)

RowType == [tier : Int, url : Strings]

LEMMA TiersFinite ==
  ASSUME NEW rows \in Rows, NEW tiers, tiers = {r.tier : r \in ToSet(rows)}
  PROVE  /\ IsFiniteSet(tiers) /\ tiers \subseteq Int /\ Cardinality(tiers) \in Nat
         /\ tiers = {rows[i].tier : i \in DOMAIN rows}
<1>1. rows \in Seq(RowType) /\ DOMAIN rows = 1 .. Len(rows) /\ Len(rows) \in Nat
  BY DEF Rows, RowType
<1>2. tiers = {rows[i].tier : i \in DOMAIN rows}
  BY DEF ToSet
<1>3. \A i \in DOMAIN rows : rows[i].tier \in Int
  <2>1. \A i \in DOMAIN rows : rows[i] \in RowType
    BY <1>1
  <2> QED BY <2>1 DEF RowType
<1> DEFINE f == [i \in DOMAIN rows |-> rows[i].tier]
<1>4. f \in Surjection(DOMAIN rows, tiers)
  BY <1>2 DEF Surjection
<1>5. IsFiniteSet(DOMAIN rows)
  BY <1>1, FS_Interval
<1>6. IsFiniteSet(tiers)
  BY <1>4, <1>5, FS_Surjection
<1> QED BY <1>2, <1>3, <1>6, FS_CardinalityType

\* The rows of a table that is accepted are a list.
LEMMA TableType ==
  ASSUME NEW rows \in Rows, NEW list, list = tracker_list_from_model(rows), list # Refused
  PROVE  list \in Lists
<1> DEFINE tiers == {r.tier : r \in ToSet(rows)}
           urls == [r \in DOMAIN rows |-> rows[r].url]
           n == Cardinality(tiers)
           I(t) == {r \in DOMAIN rows : rows[r].tier = t}
<1>1. IsFiniteSet(tiers) /\ n \in Nat /\ tiers = {rows[i].tier : i \in DOMAIN rows}
  BY TiersFinite
<1>2. tiers = 1 .. n /\ \A r \in ToSet(rows) : Valid(r.url)
  BY DEF tracker_list_from_model
<1>3. list = [t \in 1 .. n |-> CreateTier(Pick(urls, I(t)))]
  BY DEF tracker_list_from_model
<1>4. rows \in Seq(RowType) /\ DOMAIN rows = 1 .. Len(rows) /\ Len(rows) \in Nat
  BY DEF Rows, RowType
<1>5. \A i \in DOMAIN rows : urls[i] \in Trackers
  <2>1. \A i \in DOMAIN rows : rows[i] \in ToSet(rows)
    BY DEF ToSet
  <2> QED BY <1>2, <2>1 DEF Valid
<1>6. ASSUME NEW t \in 1 .. n PROVE CreateTier(Pick(urls, I(t))) \in Tiers
  <2>1. I(t) # {} /\ I(t) \subseteq DOMAIN rows
    BY <1>1, <1>2
  <2> HIDE DEF urls, I
  <2>2. I(t) \subseteq Int /\ IsFiniteSet(I(t)) /\ EntriesIn(urls, I(t), Trackers)
    <3>1. IsFiniteSet(I(t)) /\ I(t) \subseteq Int
      BY <1>4, <2>1, DomainFinite
    <3> QED BY <1>5, <2>1, <3>1 DEF EntriesIn
  <2>3. Pick(urls, I(t)) \in Seq(Trackers) /\ Len(Pick(urls, I(t))) = Cardinality(I(t))
    BY <2>2, PickFacts
  <2>4. Cardinality(I(t)) # 0
    BY <2>1, <2>2, FS_EmptySet
  <2>5. Pick(urls, I(t)) # <<>>
    BY <2>3, <2>4
  <2> QED BY <2>3, <2>5, CreateTierType
<1> HIDE DEF n
<1>7. list \in [1 .. n -> Tiers]
  BY <1>3, <1>6
<1> QED BY <1>1, <1>7, SeqTyped DEF Lists

\* A finite set of numbers has a largest one.
LEMMA MaxType ==
  ASSUME NEW S, S \subseteq Int, IsFiniteSet(S), S # {}
  PROVE  Max(S) \in S
<1> DEFINE n == Cardinality(S)
<1>1. /\ n \in Nat
      /\ \A k \in 1 .. n : Nth(S, k) \in S
      /\ \A k, l \in 1 .. n : k < l => Nth(S, k) < Nth(S, l)
      /\ \A i \in S : \E k \in 1 .. n : Nth(S, k) = i
  BY NthFacts
<1>2. n # 0
  BY FS_EmptySet
<1> HIDE DEF n
<1> DEFINE x == Nth(S, n)
<1>3. n \in 1 .. n /\ x \in S
  BY <1>1, <1>2
<1>4. ASSUME NEW y \in S PROVE x >= y
  <2>1. PICK k \in 1 .. n : Nth(S, k) = y
    BY <1>1
  <2>2. k < n \/ k = n
    BY <1>1
  <2>3. k < n => y < x
    BY <1>1, <1>3, <2>1
  <2>4. k = n => y = x
    BY <2>1
  <2>5. x \in Int /\ y \in Int
    BY <1>3
  <2> HIDE DEF x
  <2> QED BY <2>2, <2>3, <2>4, <2>5
<1> HIDE DEF x
<1> QED BY <1>3, <1>4 DEF Max

LEMMA RowsEdited ==
  ASSUME NEW rows \in Rows, NEW new \in RowEdits(rows)
  PROVE  new \in Rows
<1>1. rows \in Seq(RowType) /\ DOMAIN rows = 1 .. Len(rows) /\ Len(rows) \in Nat
      /\ \A i \in 1 .. Len(rows) : rows[i] \in RowType
  <2>1. rows \in Seq(RowType)
    BY DEF Rows, RowType
  <2> QED BY <2>1
<1>2. CASE \E url \in Urls : new = add_tracker_row(rows, url)
  <2>1. PICK url \in Urls : new = add_tracker_row(rows, url)
    BY <1>2
  <2> DEFINE tiers == {r.tier : r \in ToSet(rows)}
             S == {0} \cup tiers
  <2>2. IsFiniteSet(tiers) /\ tiers \subseteq Int
    BY TiersFinite
  <2> HIDE DEF tiers
  <2>3. S \subseteq Int /\ IsFiniteSet(S) /\ S # {}
    <3>1. IsFiniteSet({0})
      BY FS_Singleton
    <3>2. IsFiniteSet({0} \cup tiers)
      BY <2>2, <3>1, FS_Union
    <3>3. {0} \cup tiers \subseteq Int
      BY <2>2
    <3> QED BY <3>2, <3>3
  <2>4. Max(S) \in Int
    <3> HIDE DEF S
    <3> QED BY <2>3, MaxType
  <2>5. url \in Strings
    BY DocumentAssumption
  <2>6. new = Append(rows, [tier |-> Max(S) + 1, url |-> url])
    BY <2>1 DEF add_tracker_row, tiers
  <2> HIDE DEF S
  <2>7. [tier |-> Max(S) + 1, url |-> url] \in RowType
    BY <2>4, <2>5 DEF RowType
  <2> QED BY <1>1, <2>6, <2>7 DEF Rows, RowType
<1>3. CASE \E i \in DOMAIN rows, t \in 1 .. 2 : new = [rows EXCEPT ![i].tier = t]
  <2>1. PICK i \in DOMAIN rows, t \in 1 .. 2 : new = [rows EXCEPT ![i].tier = t]
    BY <1>3
  <2> DEFINE r == [rows[i] EXCEPT !.tier = t]
  <2>2. r \in RowType
    BY <1>1 DEF RowType
  <2>3. new = [rows EXCEPT ![i] = r]
    BY <2>1
  <2> HIDE DEF r
  <2>4. new \in Seq(RowType)
    BY <1>1, <2>2, <2>3
  <2> QED BY <2>4 DEF Rows, RowType
<1>4. CASE \E i \in DOMAIN rows : new = RemoveAt(rows, i)
  <2>1. PICK i \in DOMAIN rows : new = RemoveAt(rows, i)
    BY <1>4
  <2>2. new \in Seq(RowType)
    BY <1>1, <2>1, RemoveAtFacts
  <2> QED BY <2>2 DEF Rows, RowType
<1>5. CASE \E i \in 1 .. Len(rows) - 1 : new = [rows EXCEPT ![i] = rows[i + 1], ![i + 1] = rows[i]]
  <2>1. PICK i \in 1 .. Len(rows) - 1 : new = [rows EXCEPT ![i] = rows[i + 1], ![i + 1] = rows[i]]
    BY <1>5
  <2>2. i \in 1 .. Len(rows) /\ i + 1 \in 1 .. Len(rows)
    BY <1>1
  <2>3. rows[i] \in RowType /\ rows[i + 1] \in RowType
    BY <1>1, <2>2
  <2> DEFINE a == rows[i + 1]
             b == rows[i]
  <2>4. a \in RowType /\ b \in RowType /\ new = [[rows EXCEPT ![i] = a] EXCEPT ![i + 1] = b]
    BY <2>1, <2>3
  <2> HIDE DEF a, b
  <2>5. new \in Seq(RowType)
    BY <1>1, <2>2, <2>4
  <2> QED BY <2>5 DEF Rows, RowType
<1> QED BY <1>2, <1>3, <1>4, <1>5 DEF RowEdits

LEMMA PopulatedRows ==
  ASSUME NEW list \in Lists
  PROVE  populate_tracker_model(list) \in Rows
<1>1. populate_tracker_model(list) \in Seq([tier : Int, url : Trackers])
  BY TableSurvives
<1>2. Trackers \subseteq Strings
  BY MetadataAssumption
<1>3. [tier : Int, url : Trackers] \subseteq [tier : Int, url : Strings]
  BY <1>2
<1> DEFINE A == [tier : Int, url : Trackers]
           B == [tier : Int, url : Strings]
           rows == populate_tracker_model(list)
<1> HIDE DEF A, B, rows
<1>4. rows \in Seq(A) /\ A \subseteq B
  BY <1>1, <1>3 DEF A, B, rows
<1>5. rows \in Seq(B)
  BY <1>4
<1> QED BY <1>5 DEF Rows, B, rows

-----------------------------------------------------------------------------
(* What the Modify page asks for is what it shows *)

Settable == {"comment", "creator", "name", "private", "date", "web_seeds", "trackers"}

LEMMA PickedOnce ==
  ASSUME NEW s \in Seq(Actions), NEW I, I \subseteq DOMAIN s,
         \A i, j \in DOMAIN s : FieldOf(s[i]) = FieldOf(s[j]) => i = j,
         NEW actions, actions = Pick(s, I)
  PROVE  /\ actions \in Seq(Actions)
         /\ \A i \in I : \E m \in DOMAIN actions : actions[m] = s[i]
         /\ \A m \in DOMAIN actions : \E i \in I : actions[m] = s[i]
         /\ \A k, l \in DOMAIN actions : FieldOf(actions[k]) = FieldOf(actions[l]) => k = l
<1> DEFINE n == Cardinality(I)
<1>1. EntriesIn(s, I, Actions) /\ IsFiniteSet(I) /\ I \subseteq Int
  BY DomainFinite
<1>2. /\ actions \in Seq(Actions) /\ DOMAIN actions = 1 .. n
      /\ \A k \in 1 .. n : actions[k] = s[Nth(I, k)]
  BY <1>1, PickFacts
<1>3. /\ n \in Nat /\ \A k \in 1 .. n : Nth(I, k) \in I
      /\ \A k, l \in 1 .. n : k < l => Nth(I, k) < Nth(I, l)
      /\ \A i \in I : \E k \in 1 .. n : Nth(I, k) = i
  BY <1>1, NthFacts
<1> HIDE DEF n
<1>4. ASSUME NEW k \in 1 .. n, NEW l \in 1 .. n, FieldOf(actions[k]) = FieldOf(actions[l])
      PROVE  k = l
  <2>1. Nth(I, k) = Nth(I, l)
    BY <1>2, <1>3, <1>4
  <2>2. ~(Nth(I, k) < Nth(I, l)) /\ ~(Nth(I, l) < Nth(I, k))
    <3>1. Nth(I, k) \in Int
      BY <1>1, <1>3
    <3> DEFINE x == Nth(I, k)
               y == Nth(I, l)
    <3> HIDE DEF x, y
    <3>2. x = y /\ x \in Int
      BY <2>1, <3>1 DEF x, y
    <3>3. ~(x < y) /\ ~(y < x)
      BY <3>2
    <3> QED BY <3>3 DEF x, y
  <2>3. ~(k < l) /\ ~(l < k)
    BY <1>3, <2>2
  <2> QED BY <1>3, <2>3
<1>5. \A k, l \in DOMAIN actions : FieldOf(actions[k]) = FieldOf(actions[l]) => k = l
  BY <1>2, <1>4
<1>6. \A i \in I : \E m \in DOMAIN actions : actions[m] = s[i]
  BY <1>2, <1>3
<1>7. \A m \in DOMAIN actions : \E i \in I : actions[m] = s[i]
  BY <1>2, <1>3
<1> QED BY <1>2, <1>5, <1>6, <1>7

LEMMA FieldAsked ==
  ASSUME NEW s \in Seq(Actions), NEW I, I \subseteq DOMAIN s,
         \A i, j \in DOMAIN s : FieldOf(s[i]) = FieldOf(s[j]) => i = j,
         NEW actions, actions = Pick(s, I),
         NEW view, DOMAIN view = ViewFields, NEW torrent,
         NEW i \in DOMAIN s, s[i].kind \in Settable
  PROVE  Requested(view, torrent, actions)[s[i].kind] = IF i \in I THEN Given(s[i]) ELSE view[s[i].kind]
<1>1. /\ actions \in Seq(Actions)
      /\ \A j \in I : \E m \in DOMAIN actions : actions[m] = s[j]
      /\ \A m \in DOMAIN actions : \E j \in I : actions[m] = s[j]
      /\ \A k, l \in DOMAIN actions : FieldOf(actions[k]) = FieldOf(actions[l]) => k = l
  BY PickedOnce
<1>2. FieldOf(s[i]) = s[i].kind
  BY DEF FieldOf, TrackerActions, Settable
<1>3. CASE i \in I
  <2>1. PICK m \in DOMAIN actions : actions[m] = s[i]
    BY <1>1, <1>3
  <2>2. actions[m].kind \in {"comment", "creator", "name", "private", "date", "web_seeds", "trackers"}
    BY <2>1 DEF Settable
  <2>3. \A k \in DOMAIN actions : FieldOf(actions[k]) = actions[m].kind => k = m
    BY <1>1, <1>2, <2>1
  <2>4. Requested(view, torrent, actions)[actions[m].kind] = Given(actions[m])
    BY <1>1, <2>2, <2>3, RequestedOnce
  <2> QED BY <1>3, <2>1, <2>4
<1>4. CASE i \notin I
  <2> DEFINE f == s[i].kind
  <2>1. \A k \in DOMAIN actions : FieldOf(actions[k]) # f
    <3>1. SUFFICES ASSUME NEW k \in DOMAIN actions, FieldOf(actions[k]) = f PROVE FALSE
      OBVIOUS
    <3>2. PICK j \in I : actions[k] = s[j]
      BY <1>1
    <3>3. j \in DOMAIN s /\ FieldOf(s[j]) = FieldOf(s[i])
      BY <1>2, <3>1, <3>2
    <3>4. j = i
      BY <3>3
    <3> QED BY <1>4, <3>4
  <2>2. f \in ViewFields
    BY DEF Settable, ViewFields
  <2> HIDE DEF f
  <2>3. Requested(view, torrent, actions)[f] = view[f]
    BY <1>1, <2>1, <2>2, RequestedOther
  <2> QED BY <1>4, <2>3 DEF f
<1> QED BY <1>3, <1>4

\* The actions that the page may ask for, each with the condition under which it does.
Entries(page) ==
    LET old == page.loaded.document
        seeds == page.fields.web_seeds
        Asks(when, kind, value) == [when |-> when, action |-> Act(kind, value)]
        Text(kind, when) == IF kind \in page.clear THEN Asks(old.metadata[kind] # None, kind, None)
                                                   ELSE Asks(when, kind, page.fields[kind])
        Differs(kind) == page.fields[kind] \notin {"", Shown(old.metadata[kind])}
    IN <<Text("comment", Differs("comment")),
         Text("creator", page.custom /\ page.fields.creator # old.metadata.creator),
         Text("source", Differs("source")),
         Asks(page.fields.name \notin {"", Shown(old.info.name)}, "name", page.fields.name),
         Asks(TRUE, "private", IF page.fields.private THEN 1 ELSE 0),
         IF "date" \in page.clear THEN Asks(TRUE, "date", None)
                                  ELSE Asks(page.dated, "date", page.fields.date),
         Asks("web_seeds" \in page.clear \/ seeds # <<>>, "web_seeds", seeds),
         Asks(TRUE, "trackers", tracker_list_from_model(page.rows))>>

LEMMA EntriesPicked ==
  ASSUME NEW page
  PROVE  ModifyActions(page) =
           Pick([k \in DOMAIN Entries(page) |-> Entries(page)[k].action],
                {k \in DOMAIN Entries(page) : Entries(page)[k].when})
BY DEF ModifyActions, Entries

KindsInOrder == <<"comment", "creator", "source", "name", "private", "date", "web_seeds", "trackers">>


LEMMA EitherEntry ==
  ASSUME NEW c, NEW p, NEW q, NEW x, NEW y, NEW kind, NEW e,
         e = IF c THEN [when |-> p, action |-> Act(kind, x)] ELSE [when |-> q, action |-> Act(kind, y)]
  PROVE  /\ e.action = Act(kind, IF c THEN x ELSE y)
         /\ c => e.when = p
         /\ ~c => e.when = q
<1> DEFINE a == Act(kind, x)
           b == Act(kind, y)
<1>1. e = IF c THEN [when |-> p, action |-> a] ELSE [when |-> q, action |-> b]
  OBVIOUS
<1> HIDE DEF a, b
<1>2. CASE c
  <2>1. e = [when |-> p, action |-> a]
    BY <1>1, <1>2
  <2>2. e.action = a /\ e.when = p
    BY <2>1
  <2> QED BY <1>2, <2>2 DEF a
<1>3. CASE ~c
  <2>1. e = [when |-> q, action |-> b]
    BY <1>1, <1>3
  <2>2. e.action = b /\ e.when = q
    BY <2>1
  <2> QED BY <1>3, <2>2 DEF b
<1> QED BY <1>2, <1>3

LEMMA PlainEntry ==
  ASSUME NEW p, NEW x, NEW kind, NEW e, e = [when |-> p, action |-> Act(kind, x)]
  PROVE  e.action = Act(kind, x) /\ e.when = p
<1> DEFINE a == Act(kind, x)
<1>1. e = [when |-> p, action |-> a]
  OBVIOUS
<1> HIDE DEF a
<1>2. e.action = a /\ e.when = p
  BY <1>1
<1> QED BY <1>2 DEF a

\* The entries, one by one.
LEMMA EntryFacts ==
  ASSUME NEW page, NEW e, e = Entries(page), NEW d, d = page.loaded.document
  PROVE  /\ DOMAIN e = 1 .. 8
         /\ e[1].action = Act("comment", IF "comment" \in page.clear THEN None ELSE page.fields.comment)
         /\ "comment" \in page.clear => e[1].when = (d.metadata.comment # None)
         /\ "comment" \notin page.clear =>
              e[1].when = (page.fields.comment \notin {"", Shown(d.metadata.comment)})
         /\ e[2].action = Act("creator", IF "creator" \in page.clear THEN None ELSE page.fields.creator)
         /\ "creator" \in page.clear => e[2].when = (d.metadata.creator # None)
         /\ "creator" \notin page.clear =>
              e[2].when = (page.custom /\ page.fields.creator # d.metadata.creator)
         /\ e[3].action = Act("source", IF "source" \in page.clear THEN None ELSE page.fields.source)
         /\ e[4].action = Act("name", page.fields.name)
         /\ e[4].when = (page.fields.name \notin {"", Shown(d.info.name)})
         /\ e[5].action = Act("private", IF page.fields.private THEN 1 ELSE 0) /\ e[5].when = TRUE
         /\ e[6].action = Act("date", IF "date" \in page.clear THEN None ELSE page.fields.date)
         /\ "date" \in page.clear => e[6].when = TRUE
         /\ "date" \notin page.clear => e[6].when = page.dated
         /\ e[7].action = Act("web_seeds", page.fields.web_seeds)
         /\ e[7].when = ("web_seeds" \in page.clear \/ page.fields.web_seeds # <<>>)
         /\ e[8].action = Act("trackers", tracker_list_from_model(page.rows)) /\ e[8].when = TRUE
<1> DEFINE old == page.loaded.document
           c1 == "comment" \in page.clear
           p1 == old.metadata.comment # None
           q1 == page.fields.comment \notin {"", Shown(old.metadata.comment)}
           a1 == IF c1 THEN [when |-> p1, action |-> Act("comment", None)]
                       ELSE [when |-> q1, action |-> Act("comment", page.fields.comment)]
           c2 == "creator" \in page.clear
           p2 == old.metadata.creator # None
           q2 == page.custom /\ page.fields.creator # old.metadata.creator
           a2 == IF c2 THEN [when |-> p2, action |-> Act("creator", None)]
                       ELSE [when |-> q2, action |-> Act("creator", page.fields.creator)]
           c3 == "source" \in page.clear
           p3 == old.metadata.source # None
           q3 == page.fields.source \notin {"", Shown(old.metadata.source)}
           a3 == IF c3 THEN [when |-> p3, action |-> Act("source", None)]
                       ELSE [when |-> q3, action |-> Act("source", page.fields.source)]
           p4 == page.fields.name \notin {"", Shown(old.info.name)}
           a4 == [when |-> p4, action |-> Act("name", page.fields.name)]
           p5 == TRUE
           a5 == [when |-> p5, action |-> Act("private", IF page.fields.private THEN 1 ELSE 0)]
           c6 == "date" \in page.clear
           q6 == page.dated
           a6 == IF c6 THEN [when |-> p5, action |-> Act("date", None)]
                       ELSE [when |-> q6, action |-> Act("date", page.fields.date)]
           p7 == "web_seeds" \in page.clear \/ page.fields.web_seeds # <<>>
           a7 == [when |-> p7, action |-> Act("web_seeds", page.fields.web_seeds)]
           a8 == [when |-> p5, action |-> Act("trackers", tracker_list_from_model(page.rows))]
<1>1. e = <<a1, a2, a3, a4, a5, a6, a7, a8>>
  BY Zenon DEF Entries
<1> HIDE DEF a1, a2, a3, a4, a5, a6, a7, a8
<1>2. DOMAIN e = 1 .. 8
  BY <1>1
<1>3. e[1] = a1 /\ e[2] = a2 /\ e[3] = a3 /\ e[4] = a4 /\ e[5] = a5 /\ e[6] = a6 /\ e[7] = a7 /\ e[8] = a8
  BY <1>1
<1> HIDE DEF c1, p1, q1, c2, p2, q2, c3, p3, q3, p4, p5, c6, q6, p7
<1>4. /\ a1.action = Act("comment", IF c1 THEN None ELSE page.fields.comment)
      /\ c1 => a1.when = p1
      /\ ~c1 => a1.when = q1
  BY EitherEntry DEF a1
<1>5. /\ a2.action = Act("creator", IF c2 THEN None ELSE page.fields.creator)
      /\ c2 => a2.when = p2
      /\ ~c2 => a2.when = q2
  BY EitherEntry DEF a2
<1>6. a3.action = Act("source", IF c3 THEN None ELSE page.fields.source)
  BY EitherEntry DEF a3
<1>7. a4.action = Act("name", page.fields.name) /\ a4.when = p4
  BY PlainEntry DEF a4
<1>8. a5.action = Act("private", IF page.fields.private THEN 1 ELSE 0) /\ a5.when = p5
  BY PlainEntry DEF a5
<1>9. /\ a6.action = Act("date", IF c6 THEN None ELSE page.fields.date)
      /\ c6 => a6.when = p5
      /\ ~c6 => a6.when = q6
  BY EitherEntry DEF a6
<1>10. a7.action = Act("web_seeds", page.fields.web_seeds) /\ a7.when = p7
  BY PlainEntry DEF a7
<1>11. a8.action = Act("trackers", tracker_list_from_model(page.rows)) /\ a8.when = p5
  BY PlainEntry DEF a8
<1>12. d = old
  OBVIOUS
<1> HIDE DEF old
<1> QED BY <1>2, <1>3, <1>4, <1>5, <1>6, <1>7, <1>8, <1>9, <1>10, <1>11, <1>12, Zenon
        DEF c1, p1, q1, c2, p2, q2, c3, p3, q3, p4, p5, c6, q6, p7

-----------------------------------------------------------------------------
(* What the Modify page shows is what it asks for *)

Offered(page) == [k \in DOMAIN Entries(page) |-> Entries(page)[k].action]
Wanted(page) == {k \in DOMAIN Entries(page) : Entries(page)[k].when}

LEMMA PageTypes ==
  ASSUME NEW page \in ModifyPages
  PROVE  /\ page.loaded \in Snapshots \cup {None} /\ page.rows \in Rows
         /\ page.fields.name \in Texts /\ page.fields.source \in Texts /\ page.fields.comment \in Texts
         /\ page.fields.creator \in Texts /\ page.fields.private \in BOOLEAN
         /\ page.fields.date \in Dates /\ page.fields.web_seeds \in Seq(Strings)
         /\ page.custom \in BOOLEAN /\ page.dated \in BOOLEAN
BY DEF ModifyPages, Fields

LEMMA ActTypes ==
  /\ \A value \in OptionalTexts : Act("comment", value) \in Actions /\ Act("creator", value) \in Actions
  /\ \A value \in OptionalTexts : Act("source", value) \in Actions /\ Act("name", value) \in Actions
  /\ \A value \in {0, 1} : Act("private", value) \in Actions
  /\ \A value \in Dates \cup {None} : Act("date", value) \in Actions
  /\ \A value \in Seq(SeedUrls) : Act("web_seeds", value) \in Actions
  /\ \A value \in Lists : Act("trackers", value) \in Actions
<1>1. OptionalTexts \subseteq Keys
  BY DEF OptionalTexts, Keys
<1>2. \A value \in OptionalTexts : Act("comment", value) \in Actions /\ Act("creator", value) \in Actions
  BY DEF Actions, Act
<1>3. \A value \in OptionalTexts : Act("source", value) \in Actions /\ Act("name", value) \in Actions
  BY <1>1 DEF Actions, Act
<1>4. \A value \in {0, 1} : Act("private", value) \in Actions
  BY DEF Actions, Act
<1>5. \A value \in Dates \cup {None} : Act("date", value) \in Actions
  BY DEF Actions, Act
<1>6. \A value \in Seq(SeedUrls) : Act("web_seeds", value) \in Actions
  BY DEF Actions, Act
<1>7. \A value \in Lists : Act("trackers", value) \in Actions
  BY DEF Actions, Act
<1> QED BY <1>2, <1>3, <1>4, <1>5, <1>6, <1>7

LEMMA OfferedFacts ==
  ASSUME NEW page \in ModifyPages, page.loaded # None,
         page.fields.web_seeds \in Seq(SeedUrls), tracker_list_from_model(page.rows) \in Lists
  PROVE  /\ Offered(page) \in Seq(Actions) /\ DOMAIN Offered(page) = 1 .. 8
         /\ \A k \in 1 .. 8 : Offered(page)[k].kind = KindsInOrder[k]
         /\ \A i, j \in DOMAIN Offered(page) : FieldOf(Offered(page)[i]) = FieldOf(Offered(page)[j]) => i = j
         /\ Wanted(page) \subseteq 1 .. 8
         /\ ModifyActions(page) = Pick(Offered(page), Wanted(page))
<1> DEFINE e == Entries(page)
           s == Offered(page)
           d == page.loaded.document
           list == tracker_list_from_model(page.rows)
<1>1. /\ DOMAIN e = 1 .. 8
      /\ e[1].action = Act("comment", IF "comment" \in page.clear THEN None ELSE page.fields.comment)
      /\ e[2].action = Act("creator", IF "creator" \in page.clear THEN None ELSE page.fields.creator)
      /\ e[3].action = Act("source", IF "source" \in page.clear THEN None ELSE page.fields.source)
      /\ e[4].action = Act("name", page.fields.name)
      /\ e[5].action = Act("private", IF page.fields.private THEN 1 ELSE 0)
      /\ e[6].action = Act("date", IF "date" \in page.clear THEN None ELSE page.fields.date)
      /\ e[7].action = Act("web_seeds", page.fields.web_seeds)
      /\ e[8].action = Act("trackers", list)
  <2>1. DOMAIN e = 1 .. 8
    BY EntryFacts
  <2>2. e[1].action = Act("comment", IF "comment" \in page.clear THEN None ELSE page.fields.comment)
    BY EntryFacts
  <2>3. e[2].action = Act("creator", IF "creator" \in page.clear THEN None ELSE page.fields.creator)
    BY EntryFacts
  <2>4. e[3].action = Act("source", IF "source" \in page.clear THEN None ELSE page.fields.source)
    BY EntryFacts
  <2>5. e[4].action = Act("name", page.fields.name)
    BY EntryFacts
  <2>6. e[5].action = Act("private", IF page.fields.private THEN 1 ELSE 0)
    BY EntryFacts
  <2>7. e[6].action = Act("date", IF "date" \in page.clear THEN None ELSE page.fields.date)
    BY EntryFacts
  <2>8. e[7].action = Act("web_seeds", page.fields.web_seeds)
    BY EntryFacts
  <2>9. e[8].action = Act("trackers", list)
    BY EntryFacts
  <2> HIDE DEF e, list
  <2> QED BY <2>1, <2>2, <2>3, <2>4, <2>5, <2>6, <2>7, <2>8, <2>9, Zenon
<1>2. ModifyActions(page) = Pick(s, Wanted(page)) /\ Wanted(page) \subseteq DOMAIN e
  BY EntriesPicked DEF Offered, Wanted
<1>3. DOMAIN s = 1 .. 8 /\ \A k \in 1 .. 8 : s[k] = e[k].action
  BY <1>1 DEF Offered
<1> HIDE DEF e, s, list
<1> DEFINE comment == IF "comment" \in page.clear THEN None ELSE page.fields.comment
           creator == IF "creator" \in page.clear THEN None ELSE page.fields.creator
           source == IF "source" \in page.clear THEN None ELSE page.fields.source
           private == IF page.fields.private THEN 1 ELSE 0
           date == IF "date" \in page.clear THEN None ELSE page.fields.date
<1>4. comment \in OptionalTexts /\ creator \in OptionalTexts /\ source \in OptionalTexts
      /\ page.fields.name \in OptionalTexts /\ private \in {0, 1} /\ date \in Dates \cup {None}
      /\ page.fields.web_seeds \in Seq(SeedUrls) /\ list \in Lists
  BY PageTypes DEF OptionalTexts, list
<1>5. /\ s[1] = Act("comment", comment) /\ s[2] = Act("creator", creator) /\ s[3] = Act("source", source)
      /\ s[4] = Act("name", page.fields.name) /\ s[5] = Act("private", private) /\ s[6] = Act("date", date)
      /\ s[7] = Act("web_seeds", page.fields.web_seeds) /\ s[8] = Act("trackers", list)
  BY <1>1, <1>3
<1> HIDE DEF comment, creator, source, private, date
<1>6. \A k \in 1 .. 8 : k = 1 \/ k = 2 \/ k = 3 \/ k = 4 \/ k = 5 \/ k = 6 \/ k = 7 \/ k = 8
  OBVIOUS
<1>7. \A k \in 1 .. 8 : s[k] \in Actions
  <2>1. /\ s[1] \in Actions /\ s[2] \in Actions /\ s[3] \in Actions /\ s[4] \in Actions
        /\ s[5] \in Actions /\ s[6] \in Actions /\ s[7] \in Actions /\ s[8] \in Actions
    BY <1>4, <1>5, ActTypes
  <2> QED BY <1>6, <2>1
<1>8. \A k \in 1 .. 8 : s[k].kind = KindsInOrder[k]
  <2>1. \A kind, value : Act(kind, value).kind = kind
    BY DEF Act
  <2>2. /\ s[1].kind = "comment" /\ s[2].kind = "creator" /\ s[3].kind = "source" /\ s[4].kind = "name"
        /\ s[5].kind = "private" /\ s[6].kind = "date" /\ s[7].kind = "web_seeds" /\ s[8].kind = "trackers"
    BY <1>5, <2>1
  <2> QED BY <1>6, <2>2 DEF KindsInOrder
<1>9. s \in Seq(Actions)
  <2>1. s = [k \in 1 .. 8 |-> s[k]]
    BY <1>3 DEF s, Offered
  <2>2. s \in [1 .. 8 -> Actions]
    BY <1>7, <2>1
  <2> QED BY <2>2, SeqTyped
<1>10. ASSUME NEW i \in 1 .. 8, NEW j \in 1 .. 8, FieldOf(s[i]) = FieldOf(s[j]) PROVE i = j
  <2>1. \A k \in 1 .. 8 : FieldOf(s[k]) = KindsInOrder[k]
    <3>1. \A k \in 1 .. 8 : KindsInOrder[k] = "trackers" \/ KindsInOrder[k] \notin TrackerActions
      BY <1>6 DEF KindsInOrder, TrackerActions
    <3> QED BY <1>8, <3>1 DEF FieldOf
  <2>2. KindsInOrder[i] = KindsInOrder[j]
    BY <1>10, <2>1
  <2> QED BY <2>2, <1>6 DEF KindsInOrder
<1> QED BY <1>1, <1>2, <1>3, <1>8, <1>9, <1>10 DEF s

LEMMA GivenBy ==
  ASSUME NEW kind, kind # "private", NEW value, NEW action, action = Act(kind, value)
  PROVE  Given(action) = value
BY DEF Given, Act

LEMMA ViewDomain ==
  ASSUME NEW document
  PROVE  DOMAIN View(document) = ViewFields
BY DEF View, ViewFields

\* The edits the Modify page makes of its fields, boxes and rows come to what it shows, however
\* the fields were typed and the rows moved (save_modify).
THEOREM ModifyAsksForWhatIsShown ==
  ASSUME NEW page \in ModifyPages, page.loaded # None,
         ToSet(page.fields.web_seeds) \subseteq SeedUrls, tracker_list_from_model(page.rows) # Refused,
         NEW torrent
  PROVE  /\ ModifyActions(page) \in Seq(Actions)
         /\ \A f \in DOMAIN PageView(page) :
              /\ f \in ViewFields
              /\ Requested(View(page.loaded.document), torrent, ModifyActions(page))[f] = PageView(page)[f]
<1> DEFINE e == Entries(page)
           s == Offered(page)
           I == Wanted(page)
           d == page.loaded.document
           v == View(d)
           list == tracker_list_from_model(page.rows)
           asked == Requested(v, torrent, ModifyActions(page))
<1>1. list \in Lists
  BY PageTypes, TableType
<1>2. page.fields.web_seeds \in Seq(SeedUrls)
  <2>1. page.fields.web_seeds \in Seq(Strings)
    BY PageTypes
  <2>2. \A i \in DOMAIN page.fields.web_seeds : page.fields.web_seeds[i] \in SeedUrls
    BY DEF ToSet
  <2> QED BY <2>1, <2>2
<1>3. /\ s \in Seq(Actions) /\ DOMAIN s = 1 .. 8 /\ \A k \in 1 .. 8 : s[k].kind = KindsInOrder[k]
      /\ \A i, j \in DOMAIN s : FieldOf(s[i]) = FieldOf(s[j]) => i = j
      /\ I \subseteq 1 .. 8 /\ ModifyActions(page) = Pick(s, I)
  BY <1>1, <1>2, OfferedFacts
<1>4. ModifyActions(page) \in Seq(Actions)
  <2> HIDE DEF s, I
  <2> QED BY <1>3, PickedOnce
<1>5. ASSUME NEW k \in 1 .. 8, k # 3
      PROVE  asked[KindsInOrder[k]] = IF k \in I THEN Given(s[k]) ELSE v[KindsInOrder[k]]
  <2>1. s[k].kind = KindsInOrder[k] /\ KindsInOrder[k] \in Settable
    <3>1. k = 1 \/ k = 2 \/ k = 4 \/ k = 5 \/ k = 6 \/ k = 7 \/ k = 8
      BY <1>5
    <3>2. KindsInOrder[k] \in Settable
      BY <3>1 DEF KindsInOrder, Settable
    <3> QED BY <1>3, <3>2
  <2>2. DOMAIN v = ViewFields
    BY ViewDomain
  <2> HIDE DEF s, I, v
  <2>3. k \in DOMAIN s /\ s[k].kind \in Settable
    BY <1>3, <2>1
  <2>4. /\ s \in Seq(Actions) /\ I \subseteq DOMAIN s
        /\ \A i, j \in DOMAIN s : FieldOf(s[i]) = FieldOf(s[j]) => i = j
    BY <1>3
  <2> DEFINE actions == ModifyActions(page)
  <2>5. actions = Pick(s, I)
    BY <1>3
  <2> HIDE DEF actions
  <2>6. Requested(v, torrent, actions)[s[k].kind] = IF k \in I THEN Given(s[k]) ELSE v[s[k].kind]
    <3> HIDE DEF list, asked, e
    <3>1. \A i, j \in DOMAIN s : FieldOf(s[i]) = FieldOf(s[j]) => i = j
      BY <2>4
    <3> QED BY <2>2, <2>3, <2>4, <2>5, <3>1, FieldAsked
  <2> QED BY <2>1, <2>6 DEF actions
<1>6. \A k \in 1 .. 8 : (k \in I <=> e[k].when) /\ s[k] = e[k].action
  <2>1. DOMAIN e = 1 .. 8
    BY EntryFacts
  <2> QED BY <2>1 DEF Wanted, Offered
<1>7. /\ asked.comment = IF e[1].when THEN Given(e[1].action) ELSE v.comment
      /\ asked.creator = IF e[2].when THEN Given(e[2].action) ELSE v.creator
      /\ asked.name = IF e[4].when THEN Given(e[4].action) ELSE v.name
      /\ asked.private = IF e[5].when THEN Given(e[5].action) ELSE v.private
      /\ asked.date = IF e[6].when THEN Given(e[6].action) ELSE v.date
      /\ asked.web_seeds = IF e[7].when THEN Given(e[7].action) ELSE v.web_seeds
      /\ asked.trackers = IF e[8].when THEN Given(e[8].action) ELSE v.trackers
  <2>1. \A k \in {1, 2, 4, 5, 6, 7, 8} :
           asked[KindsInOrder[k]] = IF e[k].when THEN Given(e[k].action) ELSE v[KindsInOrder[k]]
    <3> HIDE DEF asked, e, v, I, s
    <3> QED BY <1>5, <1>6
  <2> HIDE DEF asked, e, v
  <2>2. /\ KindsInOrder[1] = "comment" /\ KindsInOrder[2] = "creator" /\ KindsInOrder[4] = "name"
        /\ KindsInOrder[5] = "private" /\ KindsInOrder[6] = "date" /\ KindsInOrder[7] = "web_seeds"
        /\ KindsInOrder[8] = "trackers"
    BY DEF KindsInOrder
  <2> QED BY <2>1, <2>2
<1> HIDE DEF asked
<1>8. \A kind, value : kind # "private" => Given(Act(kind, value)) = value
  BY DEF Given, Act
<1>9. \A value : Given(Act("private", value)) = (value = 1)
  BY DEF Given, Act
<1>10. DOMAIN ShownView(page) = {"comment", "creator", "name", "private", "date", "web_seeds", "trackers"}
  BY DEF ShownView
<1>11. v.comment = d.metadata.comment /\ v.creator = d.metadata.creator /\ v.name = d.info.name
       /\ v.date = d.metadata.date /\ v.web_seeds = d.metadata.web_seeds
  BY DEF View
<1> HIDE DEF v
<1>12. asked.comment = ShownView(page).comment
  <2>1. /\ e[1].action = Act("comment", IF "comment" \in page.clear THEN None ELSE page.fields.comment)
        /\ "comment" \in page.clear => e[1].when = (d.metadata.comment # None)
        /\ "comment" \notin page.clear => e[1].when = (page.fields.comment \notin {"", Shown(d.metadata.comment)})
    BY EntryFacts
  <2>2. ShownView(page).comment = IF "comment" \in page.clear THEN None
                                 ELSE IF page.fields.comment # "" THEN page.fields.comment ELSE d.metadata.comment
    BY DEF ShownView
  <2> HIDE DEF e, d
  <2>3. Given(e[1].action) = IF "comment" \in page.clear THEN None ELSE page.fields.comment
    <3>1. e[1].action = Act("comment", IF "comment" \in page.clear THEN None ELSE page.fields.comment)
      BY <2>1
    <3> QED BY <3>1, GivenBy
  <2>4. CASE "comment" \in page.clear
    BY <1>7, <1>11, <2>1, <2>2, <2>3, <2>4
  <2>5. CASE "comment" \notin page.clear
    BY <1>7, <1>11, <2>1, <2>2, <2>3, <2>5 DEF Shown
  <2> QED BY <2>4, <2>5
<1>13. asked.creator = ShownView(page).creator
  <2>1. /\ e[2].action = Act("creator", IF "creator" \in page.clear THEN None ELSE page.fields.creator)
        /\ "creator" \in page.clear => e[2].when = (d.metadata.creator # None)
        /\ "creator" \notin page.clear => e[2].when = (page.custom /\ page.fields.creator # d.metadata.creator)
    BY EntryFacts
  <2>2. ShownView(page).creator = IF "creator" \in page.clear THEN None
                                 ELSE IF page.custom THEN page.fields.creator ELSE d.metadata.creator
    BY DEF ShownView
  <2> HIDE DEF e, d
  <2>3. Given(e[2].action) = IF "creator" \in page.clear THEN None ELSE page.fields.creator
    BY <2>1, GivenBy
  <2>4. CASE "creator" \in page.clear
    BY <1>7, <1>11, <2>1, <2>2, <2>3, <2>4
  <2>5. CASE "creator" \notin page.clear
    BY <1>7, <1>11, <2>1, <2>2, <2>3, <2>5, PageTypes
  <2> QED BY <2>4, <2>5
<1>14. asked.name = ShownView(page).name
  <2>1. /\ e[4].action = Act("name", page.fields.name)
        /\ e[4].when = (page.fields.name \notin {"", Shown(d.info.name)})
    BY EntryFacts
  <2>2. ShownView(page).name = IF page.fields.name = "" THEN d.info.name ELSE page.fields.name
    BY DEF ShownView
  <2> HIDE DEF e, d
  <2>3. Given(e[4].action) = page.fields.name
    <3>1. e[4].action = Act("name", page.fields.name)
      BY <2>1
    <3> QED BY <3>1, GivenBy
  <2> QED BY <1>7, <1>11, <2>1, <2>2, <2>3 DEF Shown
<1>15. asked.private = ShownView(page).private
  <2>1. e[5].action = Act("private", IF page.fields.private THEN 1 ELSE 0) /\ e[5].when = TRUE
    BY EntryFacts
  <2>2. ShownView(page).private = page.fields.private /\ page.fields.private \in BOOLEAN
    BY PageTypes DEF ShownView
  <2> HIDE DEF e
  <2>3. Given(e[5].action) = ((IF page.fields.private THEN 1 ELSE 0) = 1)
    BY <1>9, <2>1
  <2>4. asked.private = Given(e[5].action)
    BY <1>7, <2>1
  <2> QED BY <2>2, <2>3, <2>4
<1>16. asked.date = ShownView(page).date
  <2>1. /\ e[6].action = Act("date", IF "date" \in page.clear THEN None ELSE page.fields.date)
        /\ "date" \in page.clear => e[6].when = TRUE
        /\ "date" \notin page.clear => e[6].when = page.dated
    BY EntryFacts
  <2>2. ShownView(page).date = IF "date" \in page.clear THEN None
                                 ELSE IF page.dated THEN page.fields.date ELSE d.metadata.date
    BY DEF ShownView
  <2> HIDE DEF e, d
  <2>3. Given(e[6].action) = IF "date" \in page.clear THEN None ELSE page.fields.date
    BY <2>1, GivenBy
  <2>4. CASE "date" \in page.clear
    BY <1>7, <1>11, <2>1, <2>2, <2>3, <2>4
  <2>5. CASE "date" \notin page.clear
    BY <1>7, <1>11, <2>1, <2>2, <2>3, <2>5, PageTypes
  <2> QED BY <2>4, <2>5
<1>17. "web_seeds" \notin page.clear \/ page.fields.web_seeds = <<>> =>
         asked.web_seeds = ShownView(page).web_seeds
  <2>1. /\ e[7].action = Act("web_seeds", page.fields.web_seeds)
        /\ e[7].when = ("web_seeds" \in page.clear \/ page.fields.web_seeds # <<>>)
    BY EntryFacts
  <2>2. ShownView(page).web_seeds =
          IF "web_seeds" \in page.clear THEN <<>>
          ELSE IF page.fields.web_seeds # <<>> THEN page.fields.web_seeds ELSE d.metadata.web_seeds
    BY DEF ShownView
  <2> HIDE DEF e, d
  <2>3. Given(e[7].action) = page.fields.web_seeds
    BY <2>1, GivenBy
  <2> QED BY <1>7, <1>11, <2>1, <2>2, <2>3
<1>18. asked.trackers = ShownView(page).trackers
  <2>1. e[8].action = Act("trackers", list) /\ e[8].when = TRUE
    BY EntryFacts
  <2>2. ShownView(page).trackers = list
    BY DEF ShownView
  <2> HIDE DEF e, list
  <2>3. Given(e[8].action) = list
    BY <2>1, GivenBy
  <2> QED BY <1>7, <2>1, <2>2, <2>3
<1>19. ASSUME NEW f \in DOMAIN PageView(page) PROVE f \in ViewFields /\ asked[f] = PageView(page)[f]
  <2>1. /\ f \in DOMAIN ShownView(page) /\ PageView(page)[f] = ShownView(page)[f]
        /\ f = "web_seeds" => "web_seeds" \notin page.clear \/ page.fields.web_seeds = <<>>
    BY DEF PageView
  <2>2. f \in ViewFields
    BY <1>10, <2>1 DEF ViewFields
  <2>3. asked[f] = ShownView(page)[f]
    BY <1>10, <1>12, <1>13, <1>14, <1>15, <1>16, <1>17, <1>18, <2>1
  <2> QED BY <2>1, <2>2, <2>3
<1> QED BY <1>4, <1>19 DEF asked, v

-----------------------------------------------------------------------------
(* The inductive invariant, part by part: each part says what one of the variables holds *)

WellOr(x) == x = None \/ (x \in Snapshots /\ Well(x))
InspectOK(i) == i \in InspectPages /\ WellOr(i.loaded)
ModifyOK(m) ==
    m \in ModifyPages /\ WellOr(m.loaded) /\ (m.loaded # None => m.path = m.origin \/ m.unread)
TrackerOK(k) ==
    /\ k \in TrackerPages /\ WellOr(k.loaded)
    /\ k.loaded # None \/ k.folder # None => k.path = k.origin \/ k.unread
CliOK(c) == c = None \/ (c \in [command : CliCommands, loaded : Snapshots] /\ Well(c.loaded))

AsksShown(j, loaded) ==
    /\ j.shown.path = j.shown.origin \/ j.shown.unread
    /\ \A f \in DOMAIN j.shown.view :
         f \in ViewFields /\ Requested(View(loaded.document), loaded.original, j.actions)[f] = j.shown.view[f]

LoadKinds == {"load_inspect", "load_modify", "load_tracker"}
TaskKinds == LoadKinds \cup {"load_folder", "validate", "save_modify", "save_tracker", "batch"}
TaskShape(t) ==
    t \in [kind : TaskKinds, job : {t.job}, done : BOOLEAN, cancelled : BOOLEAN, result : {t.result}]
LoadOK(t) ==
    /\ t.job \in [path : Paths, mode : Modes]
    /\ t.result = Refused \/ (t.result \in Snapshots /\ Well(t.result) /\ t.result.source = t.job.path)
FolderOK(t) == t.job \in [path : Dirs] /\ t.result \in Dirs \cup {Refused}
SaveOK(t, loaded) ==
    /\ t.job \in [actions : Seq(Actions), dry : BOOLEAN, shown : {t.job.shown}, request : Requests]
    /\ loaded # None
    /\ t.result = Refused \/ (t.result \in Snapshots /\ Well(t.result))
    /\ ~t.done => AsksShown(t.job, loaded)
BatchJob(j) ==
    /\ j \in [actions : Seq(Actions), dry : BOOLEAN, shown : {j.shown}, folder : Dirs,
              output : Dirs \cup {None}, overwrite : BOOLEAN, names : Seq(Names), next : Nat,
              failures : SUBSET Names, disturbed : BOOLEAN]
    /\ j.actions[1].value \in Lists /\ j.actions = <<Act("trackers", j.actions[1].value)>>
    /\ j.shown.path = j.shown.origin \/ j.shown.unread
    /\ j.shown.view = [trackers |-> j.actions[1].value]
BatchTask(t) ==
    /\ BatchJob(t.job)
    /\ t.result = Refused \/ (t.result \in Dirs /\ t.job.next > Len(t.job.names))
TaskOK(t, ml, kl) ==
    t # None =>
      /\ TaskShape(t)
      /\ t.kind \in LoadKinds => LoadOK(t)
      /\ t.kind = "load_folder" => FolderOK(t)
      /\ t.kind = "validate" => t.result = Refused
      /\ t.kind = "save_modify" => SaveOK(t, ml)
      /\ t.kind = "save_tracker" => SaveOK(t, kl)
      /\ t.kind = "batch" => BatchTask(t)

\* What a batch has done, of the files f.
Has(f, path, j) == Loads(f[path], "lenient") /\ read_trackers(f[path]) = j.actions[1].value
Converts(f, name, j) ==
    Has(f, <<j.folder, name>>, j) \/ (j.output # None /\ Has(f, <<j.output, name>>, j))
SoFarDone(f, j) ==
    /\ ToSet(j.names) = {n \in Names : f[<<j.folder, n>>] # None}
    /\ IsInjective(j.names)
    /\ \A k \in DOMAIN j.names : k < j.next => j.names[k] \in j.failures \/ Converts(f, j.names[k], j)
BatchOK(t, f) ==
    t # None /\ t.kind = "batch" /\ t.job.next > 0 /\ ~t.job.dry /\ ~t.job.disturbed => SoFarDone(f, t.job)

ShownOK(w) ==
    w.by # "cli" =>
        /\ w.shown.path = w.shown.origin \/ w.shown.unread
        /\ \A f \in DOMAIN w.shown.view : View(decode_torrent(w.torrent, w.mode))[f] = w.shown.view[f]
WrittenOK(w) == w = None \/ (Reopened(w) /\ RestKept(w) /\ ShownOK(w))

Sound ==
    /\ files \in [Paths -> Files] /\ steps \in 0 .. MaxSteps
    /\ InspectOK(inspect) /\ ModifyOK(modify) /\ TrackerOK(tracker) /\ CliOK(cli)
    /\ TaskOK(task, modify.loaded, tracker.loaded) /\ BatchOK(task, files) /\ WrittenOK(written)

-----------------------------------------------------------------------------
(* The parts make up the properties *)

LEMMA SoundTypes == Sound => TypeOK
<1> SUFFICES ASSUME Sound PROVE TypeOK
  OBVIOUS
<1>1. files \in [Paths -> Files] /\ steps \in 0 .. MaxSteps
      /\ inspect \in InspectPages /\ modify \in ModifyPages /\ tracker \in TrackerPages
      /\ (cli = None \/ cli \in [command : CliCommands, loaded : Snapshots])
  BY DEF Sound, InspectOK, ModifyOK, TrackerOK, CliOK
<1>2. ASSUME task # None PROVE TaskTyped
  <2>1. TaskOK(task, modify.loaded, tracker.loaded)
    BY DEF Sound
  <2>2. TaskShape(task)
    BY <1>2, <2>1 DEF TaskOK
  <2>3. task.kind \in LoadKinds => LoadTyped
    BY <1>2, <2>1 DEF TaskOK, LoadOK, LoadTyped, job
  <2>4. task.kind = "load_folder" => FolderTyped
    BY <1>2, <2>1 DEF TaskOK, FolderOK, FolderTyped, job
  <2>5. task.kind = "validate" => task.result = Refused
    BY <1>2, <2>1 DEF TaskOK
  <2>6. task.kind = "save_modify" => SaveTyped(modify)
    BY <1>2, <2>1 DEF TaskOK, SaveOK, SaveTyped, job, Requests
  <2>7. task.kind = "save_tracker" => SaveTyped(tracker)
    BY <1>2, <2>1 DEF TaskOK, SaveOK, SaveTyped, job, Requests
  <2>8. task.kind = "batch" => BatchTyped
    <3>1. SUFFICES ASSUME task.kind = "batch" PROVE BatchTyped
      OBVIOUS
    <3>2. BatchTask(task)
      BY <1>2, <2>1, <3>1 DEF TaskOK
    <3> DEFINE list == job.actions[1].value
    <3>3. list \in Lists /\ job.actions = <<Act("trackers", list)>>
      BY <3>2 DEF BatchTask, BatchJob, job
    <3> HIDE DEF list
    <3>4. \E l \in {list} : l \in Lists /\ job.actions = <<Act("trackers", l)>>
      BY <3>3
    <3> QED BY <3>2, <3>4 DEF BatchTask, BatchJob, BatchTyped, job, list
  <2> QED BY <2>2, <2>3, <2>4, <2>5, <2>6, <2>7, <2>8 DEF TaskTyped, TaskShape, TaskKinds, LoadKinds, job
<1> QED BY <1>1, <1>2 DEF TypeOK

LEMMA SoundHeld == Sound => \A loaded \in Held : Well(loaded)
<1> SUFFICES ASSUME Sound, NEW loaded \in Held PROVE Well(loaded)
  OBVIOUS
<1>1. loaded \in Snapshots
  BY DEF Held
<1>2. WellOr(inspect.loaded) /\ WellOr(modify.loaded) /\ WellOr(tracker.loaded) /\ CliOK(cli)
      /\ TaskOK(task, modify.loaded, tracker.loaded)
  BY DEF Sound, InspectOK, ModifyOK, TrackerOK
<1>3. loaded # None /\ loaded # Refused /\ loaded \notin Dirs
  BY <1>1, DocumentAssumption
<1>4. CASE loaded \in {inspect.loaded, modify.loaded, tracker.loaded}
  BY <1>2, <1>3, <1>4 DEF WellOr
<1>5. CASE cli # None /\ loaded = cli.loaded
  BY <1>2, <1>5 DEF CliOK
<1>6. CASE task # None /\ loaded = task.result
  <2>1. TaskShape(task) /\ task.kind \in TaskKinds
    BY <1>2, <1>6 DEF TaskOK, TaskShape
  <2>2. CASE task.kind \in LoadKinds
    BY <1>2, <1>3, <1>6, <2>2 DEF TaskOK, LoadOK
  <2>3. CASE task.kind = "load_folder"
    BY <1>2, <1>3, <1>6, <2>3 DEF TaskOK, FolderOK
  <2>4. CASE task.kind = "validate"
    BY <1>2, <1>3, <1>6, <2>4 DEF TaskOK
  <2>5. CASE task.kind \in {"save_modify", "save_tracker"}
    BY <1>2, <1>3, <1>6, <2>5 DEF TaskOK, SaveOK
  <2>6. CASE task.kind = "batch"
    BY <1>2, <1>3, <1>6, <2>6 DEF TaskOK, BatchTask
  <2> QED BY <2>1, <2>2, <2>3, <2>4, <2>5, <2>6 DEF TaskKinds
<1>7. \/ loaded \in {inspect.loaded, modify.loaded, tracker.loaded}
      \/ cli # None /\ loaded = cli.loaded
      \/ task # None /\ loaded = task.result
  <2>1. loaded \in {inspect.loaded, modify.loaded, tracker.loaded, IF cli = None THEN None ELSE cli.loaded,
                    IF task = None THEN None ELSE task.result}
    BY DEF Held
  <2> QED BY <1>3, <2>1
<1> QED BY <1>4, <1>5, <1>6, <1>7

LEMMA ListSurvives == ListsSurvive
<1> SUFFICES ASSUME NEW loaded \in Held
             PROVE  LET list == loaded.document.trackers
                    IN /\ ImportText(ExportText(list)) = list
                       /\ ImportJson(ExportJson(list)) = list
                       /\ tracker_list_from_model(populate_tracker_model(list)) = list
  BY DEF ListsSurvive
<1> DEFINE list == loaded.document.trackers
<1>1. list \in Lists
  BY DEF Held, Snapshots, Documents
<1> HIDE DEF list
<1>2. /\ ImportText(ExportText(list)) = list
      /\ ImportJson(ExportJson(list)) = list
      /\ tracker_list_from_model(populate_tracker_model(list)) = list
  BY <1>1, TextSurvives, JsonSurvives, TableSurvives
<1> QED BY <1>2 DEF list

LEMMA SoundPaths == Sound => PathsShown
BY DEF Sound, ModifyOK, TrackerOK, PathsShown

LEMMA SoundSaves == Sound => SavesAsShown
<1> SUFFICES ASSUME Sound, task # None
             PROVE  /\ task.kind = "save_modify" /\ ~task.done => AsksForWhatIsShown(modify.loaded)
                    /\ task.kind = "save_tracker" /\ ~task.done => AsksForWhatIsShown(tracker.loaded)
                    /\ task.kind = "batch" =>
                         /\ job.shown.path = job.shown.origin \/ job.shown.unread
                         /\ job.shown.view = [trackers |-> job.actions[1].value]
  BY DEF SavesAsShown
<1>1. TaskOK(task, modify.loaded, tracker.loaded)
  BY DEF Sound
<1>2. \A loaded : AsksShown(job, loaded) => AsksForWhatIsShown(loaded)
  BY ViewDomain DEF AsksShown, AsksForWhatIsShown
<1>3. task.kind = "save_modify" /\ ~task.done => AsksShown(job, modify.loaded)
  BY <1>1 DEF TaskOK, SaveOK, job
<1>4. task.kind = "save_tracker" /\ ~task.done => AsksShown(job, tracker.loaded)
  BY <1>1 DEF TaskOK, SaveOK, job
<1>5. task.kind = "batch" => BatchJob(job)
  BY <1>1 DEF TaskOK, BatchTask, job
<1> QED BY <1>2, <1>3, <1>4, <1>5 DEF BatchJob

LEMMA SoundBatch == Sound => BatchSoFar /\ BatchConvertsFolder
<1> SUFFICES ASSUME Sound PROVE BatchSoFar /\ BatchConvertsFolder
  OBVIOUS
<1>1. BatchOK(task, files) /\ TaskOK(task, modify.loaded, tracker.loaded)
  BY DEF Sound
<1>2. \A name : Converts(files, name, job) <=> IsConverted(name)
  BY DEF Converts, Has, IsConverted, HasThem
<1>3. BatchSoFar
  BY <1>1, <1>2 DEF BatchOK, SoFarDone, BatchSoFar, job
<1>4. ASSUME Returns("batch"), task.result # Refused, ~job.dry, ~job.disturbed,
             NEW name \in Names, files[<<job.folder, name>>] # None
      PROVE  name \in job.failures \/ IsConverted(name)
  <2>1. task # None /\ task.kind = "batch" /\ task.done
    BY <1>4 DEF Returns
  <2>2. BatchTask(task)
    BY <1>1, <2>1 DEF TaskOK
  <2>3. job.next > Len(job.names) /\ job.names \in Seq(Names) /\ job.next \in Nat
    BY <1>4, <2>2 DEF BatchTask, BatchJob, job
  <2>4. job.next > 0
    BY <2>3
  <2>5. SoFarDone(files, job)
    BY <1>1, <1>4, <2>1, <2>4 DEF BatchOK, job
  <2>6. name \in ToSet(job.names)
    BY <1>4, <2>5 DEF SoFarDone
  <2>7. PICK k \in DOMAIN job.names : name = job.names[k]
    BY <2>6 DEF ToSet
  <2>8. k < job.next
    BY <2>3
  <2> QED BY <1>2, <2>5, <2>7, <2>8 DEF SoFarDone
<1> QED BY <1>3, <1>4 DEF BatchConvertsFolder

LEMMA SoundWritten == Sound => ReopensAsEdited /\ KeepsTheRest /\ SavesWhatIsShown
<1> SUFFICES ASSUME Sound, written # None PROVE ReopensAsEdited /\ KeepsTheRest /\ SavesWhatIsShown
  BY DEF ReopensAsEdited, KeepsTheRest, SavesWhatIsShown
<1>1. Reopened(written) /\ RestKept(written) /\ ShownOK(written)
  BY DEF Sound, WrittenOK
<1>2. ReopensAsEdited
  BY <1>1 DEF Reopened, ReopensAsEdited
<1>3. KeepsTheRest
  BY <1>1 DEF RestKept, KeepsTheRest
<1>4. SavesWhatIsShown
  BY <1>1 DEF ShownOK, SavesWhatIsShown
<1> QED BY <1>2, <1>3, <1>4

LEMMA SoundIInv == Sound => IInv
<1>1. Sound => HeldSnapshots
  BY SoundHeld DEF Well, HeldSnapshots
<1> QED BY <1>1, SoundTypes, ListSurvives, SoundPaths, SoundSaves, SoundBatch DEF IInv

-----------------------------------------------------------------------------
(* Small facts of the assumptions *)

LEMMA Basics ==
  /\ DefaultDir \in Dirs /\ Opened \subseteq Paths \cup Dirs /\ MaxSteps \in Nat
  /\ IsFiniteSet(Names) /\ "" \in Texts /\ "TorrentCraft" \in Texts /\ 0 \in Dates
  /\ DefaultRows \in Rows
BY DocumentAssumption

LEMMA StartFiles == Starts \subseteq [Paths -> Files]
BY DocumentAssumption

-----------------------------------------------------------------------------
(* It holds in the beginning *)

LEMMA SoundStart == Init => Sound
<1> SUFFICES ASSUME Init PROVE Sound
  OBVIOUS
<1>1. files \in [Paths -> Files] /\ steps \in 0 .. MaxSteps
  <2>1. files \in Starts /\ steps = 0
    BY DEF Init
  <2>2. MaxSteps \in Nat
    BY Basics
  <2>3. files \in [Paths -> Files]
    BY <2>1, StartFiles
  <2> QED BY <2>1, <2>2, <2>3
<1>2. <<>> \in Lists /\ <<>> \in Rows /\ <<>> \in Seq(Strings)
  BY DEF Lists, Rows
<1>3. InspectOK(inspect)
  <2>1. inspect = [path |-> None, loaded |-> None, trackers |-> <<>>]
    BY DEF Init
  <2> QED BY <1>2, <2>1 DEF InspectOK, InspectPages, WellOr
<1>4. ModifyOK(modify)
  <2>1. modify = [path |-> None, loaded |-> None, fields |-> BlankFields, custom |-> FALSE,
                  dated |-> FALSE, clear |-> {}, rows |-> <<>>, output |-> None, auto |-> None,
                  origin |-> None, unread |-> FALSE]
    BY DEF Init
  <2>2. BlankFields \in Fields
    BY <1>2, Basics DEF BlankFields, Fields
  <2> QED BY <1>2, <2>1, <2>2 DEF ModifyOK, ModifyPages, WellOr
<1>5. TrackerOK(tracker)
  <2>1. tracker = [path |-> None, loaded |-> None, folder |-> None, rows |-> <<>>,
                   output |-> None, auto |-> None, origin |-> None, unread |-> FALSE]
    BY DEF Init
  <2> QED BY <1>2, <2>1 DEF TrackerOK, TrackerPages, WellOr
<1>6. CliOK(cli) /\ TaskOK(task, modify.loaded, tracker.loaded) /\ BatchOK(task, files) /\ WrittenOK(written)
  BY DEF Init, CliOK, TaskOK, BatchOK, WrittenOK
<1> QED BY <1>1, <1>3, <1>4, <1>5, <1>6 DEF Sound

-----------------------------------------------------------------------------
(* Steps that leave most parts as they are *)

LEMMA Parts ==
  ASSUME Sound
  PROVE  /\ files \in [Paths -> Files] /\ steps \in 0 .. MaxSteps
         /\ InspectOK(inspect) /\ ModifyOK(modify) /\ TrackerOK(tracker) /\ CliOK(cli)
         /\ TaskOK(task, modify.loaded, tracker.loaded) /\ BatchOK(task, files) /\ WrittenOK(written)
BY DEF Sound

LEMMA Together ==
  ASSUME files' \in [Paths -> Files], steps' \in 0 .. MaxSteps,
         InspectOK(inspect'), ModifyOK(modify'), TrackerOK(tracker'), CliOK(cli'),
         TaskOK(task', modify'.loaded, tracker'.loaded), BatchOK(task', files'), WrittenOK(written')
  PROVE  Sound'
BY DEF Sound

LEMMA QuietKeeps ==
  ASSUME Sound, Quiet
  PROVE  files' \in [Paths -> Files] /\ WrittenOK(written') /\ files' = files
BY DEF Sound, Quiet, WrittenOK

LEMMA StepCounts ==
  ASSUME Sound, Step
  PROVE  steps' \in 0 .. MaxSteps
<1>1. steps \in 0 .. MaxSteps /\ MaxSteps \in Nat
  BY Basics DEF Sound
<1> QED BY <1>1 DEF Step

LEMMA SoundStutters ==
  ASSUME Sound, UNCHANGED vars
  PROVE  Sound'
BY DEF Sound, vars

\* A task between its start and its end.
LEMMA TaskEnds ==
  ASSUME NEW ml, NEW kl, NEW f
  PROVE  TaskOK(None, ml, kl) /\ BatchOK(None, f)
BY DEF TaskOK, BatchOK

LEMMA ShapeKept ==
  ASSUME NEW t, TaskShape(t), NEW new, NEW result,
         new = [t EXCEPT !.done = TRUE, !.result = result]
  PROVE  TaskShape(new) /\ new.kind = t.kind /\ new.job = t.job /\ new.done /\ new.result = result
BY DEF TaskShape

LEMMA ShapeStarted ==
  ASSUME NEW kind \in TaskKinds, NEW j, NEW t,
         t = [kind |-> kind, job |-> j, done |-> FALSE, cancelled |-> FALSE, result |-> Refused]
  PROVE  TaskShape(t) /\ t.kind = kind /\ t.job = j /\ t.done = FALSE /\ t.result = Refused
BY DEF TaskShape

-----------------------------------------------------------------------------
(* The task *)

\* The outcome of a worker.
LEMMA OnlyDone ==
  ASSUME Sound, NEW result, Done(result), task # None,
         Quiet, UNCHANGED <<pages, cli, steps>>,
         task.kind \in LoadKinds =>
           result = Refused \/ (result \in Snapshots /\ Well(result) /\ result.source = task.job.path),
         task.kind = "load_folder" => result \in Dirs \cup {Refused},
         task.kind = "validate" => result = Refused,
         task.kind \notin {"save_modify", "save_tracker"},
         task.kind = "batch" => result = Refused \/ (result \in Dirs /\ task.job.next > Len(task.job.names))
  PROVE  Sound'
<1>1. /\ files \in [Paths -> Files] /\ steps \in 0 .. MaxSteps
      /\ InspectOK(inspect) /\ ModifyOK(modify) /\ TrackerOK(tracker) /\ CliOK(cli)
      /\ TaskOK(task, modify.loaded, tracker.loaded) /\ BatchOK(task, files)
  BY Parts
<1>2. inspect' = inspect /\ modify' = modify /\ tracker' = tracker /\ cli' = cli /\ steps' = steps
  BY DEF pages
<1>3. files' \in [Paths -> Files] /\ WrittenOK(written') /\ files' = files
  BY QuietKeeps
<1>4. TaskShape(task)
  BY <1>1 DEF TaskOK
<1> DEFINE t == task'
<1>5. t = [task EXCEPT !.done = TRUE, !.result = result]
  BY DEF Done
<1> HIDE DEF t
<1>6. TaskShape(t) /\ t.kind = task.kind /\ t.job = task.job /\ t.done /\ t.result = result
  BY <1>4, <1>5, ShapeKept
<1>7. TaskOK(t, modify.loaded, tracker.loaded)
  <2>1. t.kind \in LoadKinds => LoadOK(t)
    BY <1>1, <1>6 DEF TaskOK, LoadOK
  <2>2. t.kind = "load_folder" => FolderOK(t)
    BY <1>1, <1>6 DEF TaskOK, FolderOK
  <2>3. t.kind = "batch" => BatchTask(t)
    BY <1>1, <1>6 DEF TaskOK, BatchTask
  <2> QED BY <1>6, <2>1, <2>2, <2>3 DEF TaskOK
<1>8. BatchOK(t, files)
  BY <1>1, <1>6 DEF BatchOK
<1> QED BY <1>1, <1>2, <1>3, <1>7, <1>8, Together DEF t

\* A task that begins.
LEMMA Begun ==
  ASSUME NEW kind \in TaskKinds, NEW j, StartTask(kind, j), NEW ml, NEW kl, NEW f,
         kind \in LoadKinds => j \in [path : Paths, mode : Modes],
         kind = "load_folder" => j \in [path : Dirs],
         kind = "save_modify" =>
           /\ j \in [actions : Seq(Actions), dry : BOOLEAN, shown : {j.shown}, request : Requests]
           /\ ml # None /\ AsksShown(j, ml),
         kind = "save_tracker" =>
           /\ j \in [actions : Seq(Actions), dry : BOOLEAN, shown : {j.shown}, request : Requests]
           /\ kl # None /\ AsksShown(j, kl),
         kind = "batch" => BatchJob(j) /\ j.next = 0
  PROVE  TaskOK(task', ml, kl) /\ BatchOK(task', f)
<1> DEFINE t == task'
<1>1. t = [kind |-> kind, job |-> j, done |-> FALSE, cancelled |-> FALSE, result |-> Refused]
  BY DEF StartTask
<1> HIDE DEF t
<1>2. TaskShape(t) /\ t.kind = kind /\ t.job = j /\ t.done = FALSE /\ t.result = Refused
  BY <1>1, ShapeStarted
<1>3. kind \in LoadKinds => LoadOK(t)
  BY <1>2 DEF LoadOK
<1>4. kind = "load_folder" => FolderOK(t)
  BY <1>2 DEF FolderOK
<1>5. kind = "save_modify" => SaveOK(t, ml)
  BY <1>2 DEF SaveOK
<1>6. kind = "save_tracker" => SaveOK(t, kl)
  BY <1>2 DEF SaveOK
<1>7. kind = "batch" => BatchTask(t)
  BY <1>2 DEF BatchTask
<1>8. TaskOK(t, ml, kl)
  BY <1>2, <1>3, <1>4, <1>5, <1>6, <1>7 DEF TaskOK
<1>9. BatchOK(t, f)
  BY <1>2 DEF BatchOK
<1> QED BY <1>8, <1>9 DEF t

LEMMA SoundCancelTask ==
  ASSUME Sound, CancelTask
  PROVE  Sound'
<1>1. /\ files \in [Paths -> Files] /\ steps \in 0 .. MaxSteps
      /\ InspectOK(inspect) /\ ModifyOK(modify) /\ TrackerOK(tracker) /\ CliOK(cli)
      /\ TaskOK(task, modify.loaded, tracker.loaded) /\ BatchOK(task, files)
  BY Parts
<1>2. /\ inspect' = inspect /\ modify' = modify /\ tracker' = tracker /\ cli' = cli
      /\ Step /\ Quiet /\ task # None
  BY DEF CancelTask, pages
<1>3. files' \in [Paths -> Files] /\ WrittenOK(written') /\ files' = files /\ steps' \in 0 .. MaxSteps
  BY <1>2, QuietKeeps, StepCounts
<1> DEFINE t == task'
<1>4. t = [task EXCEPT !.cancelled = TRUE] /\ TaskShape(task)
  BY <1>1, <1>2 DEF CancelTask, TaskOK
<1> HIDE DEF t
<1>5. /\ TaskShape(t) /\ t.kind = task.kind /\ t.job = task.job /\ t.done = task.done
      /\ t.result = task.result
  BY <1>4 DEF TaskShape
<1>6. TaskOK(t, modify.loaded, tracker.loaded)
  <2>1. TaskOK(task, modify.loaded, tracker.loaded)
    BY <1>1
  <2> QED BY <1>2, <1>5, <2>1 DEF TaskOK, LoadOK, FolderOK, SaveOK, BatchTask
<1>7. BatchOK(t, files)
  BY <1>1, <1>2, <1>5 DEF BatchOK
<1> QED BY <1>1, <1>2, <1>3, <1>6, <1>7, Together DEF t

LEMMA SoundLoadWorker ==
  ASSUME Sound, LoadWorker
  PROVE  Sound'
<1>1. PICK kind \in {"load_inspect", "load_modify", "load_tracker"} : Works(kind)
  BY DEF LoadWorker
<1>2. task # None /\ task.kind \in LoadKinds
  BY <1>1 DEF Works, LoadKinds
<1> DEFINE result == IF ~task.cancelled /\ Loads(files[job.path], job.mode)
                     THEN LoadFrom(job.path, job.mode) ELSE Refused
<1>3. Done(result) /\ Quiet /\ UNCHANGED <<pages, cli, steps>>
  BY DEF LoadWorker
<1>4. LoadOK(task) /\ files \in [Paths -> Files]
  BY <1>2, Parts DEF TaskOK
<1>5. result = Refused \/ (result \in Snapshots /\ Well(result) /\ result.source = task.job.path)
  <2>1. job.path \in Paths /\ job.mode \in Modes /\ job = task.job
    BY <1>4 DEF LoadOK, job
  <2> DEFINE f == files[job.path]
  <2>2. f \in Files
    BY <1>4, <2>1
  <2>3. CASE Loads(files[job.path], job.mode) /\ result = LoadFrom(job.path, job.mode)
    <3>1. result = [document |-> decode_torrent(f, job.mode), source |-> job.path, original |-> f]
      BY <2>3 DEF LoadFrom
    <3> HIDE DEF result
    <3>2. Loads(f, job.mode)
      BY <2>3
    <3> HIDE DEF f
    <3>3. result \in Snapshots /\ Well(result)
      BY <2>1, <2>2, <3>1, <3>2, LoadedWell
    <3>4. result.source = task.job.path
      BY <2>1, <3>1
    <3> QED BY <3>3, <3>4
  <2>4. CASE result = Refused
    BY <2>4
  <2> QED BY <2>3, <2>4
<1> HIDE DEF result
<1> QED BY <1>2, <1>3, <1>5, OnlyDone DEF LoadKinds

LEMMA SoundValidateWorker ==
  ASSUME Sound, ValidateWorker
  PROVE  Sound'
<1>1. task # None /\ task.kind = "validate" /\ Done(Refused) /\ Quiet /\ UNCHANGED <<pages, cli, steps>>
  BY DEF ValidateWorker, Works
<1> QED BY <1>1, OnlyDone DEF LoadKinds

LEMMA SoundFolderWorker ==
  ASSUME Sound, FolderWorker
  PROVE  Sound'
<1> DEFINE result == IF task.cancelled THEN Refused ELSE job.path
<1>1. task # None /\ task.kind = "load_folder" /\ Done(result) /\ Quiet /\ UNCHANGED <<pages, cli, steps>>
  BY DEF FolderWorker, Works
<1>2. FolderOK(task)
  BY <1>1, Parts DEF TaskOK
<1>3. result \in Dirs \cup {Refused}
  BY <1>2 DEF FolderOK, job
<1> HIDE DEF result
<1> QED BY <1>1, <1>3, OnlyDone DEF LoadKinds

LEMMA SoundBatchEnds ==
  ASSUME Sound, BatchEnds
  PROVE  Sound'
<1> DEFINE result == IF job.next > Len(job.names) THEN job.folder ELSE Refused
<1>1. task # None /\ task.kind = "batch" /\ Done(result) /\ Quiet /\ UNCHANGED <<pages, cli, steps>>
  BY DEF BatchEnds, Works
<1>2. BatchTask(task)
  BY <1>1, Parts DEF TaskOK
<1>3. result = Refused \/ (result \in Dirs /\ task.job.next > Len(task.job.names))
  BY <1>2 DEF BatchTask, BatchJob, job
<1> HIDE DEF result
<1> QED BY <1>1, <1>3, OnlyDone DEF LoadKinds

\* The window takes note of an outcome, or only lets the task go.
LEMMA SoundForgotten ==
  ASSUME Sound, task' = None, Quiet, UNCHANGED <<pages, cli, steps>>
  PROVE  Sound'
<1>1. /\ files \in [Paths -> Files] /\ steps \in 0 .. MaxSteps
      /\ InspectOK(inspect) /\ ModifyOK(modify) /\ TrackerOK(tracker) /\ CliOK(cli)
  BY Parts
<1>2. inspect' = inspect /\ modify' = modify /\ tracker' = tracker /\ cli' = cli /\ steps' = steps
  BY DEF pages
<1>3. files' \in [Paths -> Files] /\ WrittenOK(written') /\ files' = files
  BY QuietKeeps
<1> QED BY <1>1, <1>2, <1>3, TaskEnds, Together

LEMMA SoundValidated ==
  ASSUME Sound, Validated \/ BatchReported
  PROVE  Sound'
BY SoundForgotten DEF Validated, BatchReported

\* A batch's arguments with the part that goes on.
GoesOn(j, names, next, failures, disturbed) ==
    [j EXCEPT !.names = names, !.next = next, !.failures = failures, !.disturbed = disturbed]

LEMMA JobGoesOn ==
  ASSUME NEW j, BatchJob(j), NEW names \in Seq(Names), NEW next \in Nat, NEW failures \in SUBSET Names,
         NEW disturbed \in BOOLEAN, NEW new, new = GoesOn(j, names, next, failures, disturbed)
  PROVE  /\ BatchJob(new) /\ new.names = names /\ new.next = next /\ new.failures = failures
         /\ new.disturbed = disturbed /\ new.actions = j.actions /\ new.dry = j.dry
         /\ new.shown = j.shown /\ new.folder = j.folder /\ new.output = j.output
         /\ new.overwrite = j.overwrite
<1>1. j \in [actions : Seq(Actions), dry : BOOLEAN, shown : {j.shown}, folder : Dirs,
              output : Dirs \cup {None}, overwrite : BOOLEAN, names : Seq(Names), next : Nat,
              failures : SUBSET Names, disturbed : BOOLEAN]
  BY DEF BatchJob
<1> DEFINE A == Seq(Actions) D == Dirs \cup {None} N == Seq(Names) F == SUBSET Names sh == j.shown
<1>2. j \in [actions : A, dry : BOOLEAN, shown : {sh}, folder : Dirs, output : D, overwrite : BOOLEAN,
              names : N, next : Nat, failures : F, disturbed : BOOLEAN]
  BY <1>1
<1>3. names \in N /\ failures \in F /\ sh = j.shown
  OBVIOUS
<1> HIDE DEF A, D, N, F, sh
<1>4. new \in [actions : A, dry : BOOLEAN, shown : {sh}, folder : Dirs, output : D, overwrite : BOOLEAN,
                names : N, next : Nat, failures : F, disturbed : BOOLEAN]
  BY <1>2, <1>3 DEF GoesOn
<1>5. /\ new.names = names /\ new.next = next /\ new.failures = failures
      /\ new.disturbed = disturbed /\ new.actions = j.actions /\ new.dry = j.dry
      /\ new.shown = j.shown /\ new.folder = j.folder /\ new.output = j.output
      /\ new.overwrite = j.overwrite
  BY <1>2 DEF GoesOn
<1>6. new \in [actions : Seq(Actions), dry : BOOLEAN, shown : {new.shown}, folder : Dirs,
                output : Dirs \cup {None}, overwrite : BOOLEAN, names : Seq(Names), next : Nat,
                failures : SUBSET Names, disturbed : BOOLEAN]
  BY <1>3, <1>4, <1>5 DEF A, D, N, F
<1>7. /\ j.actions[1].value \in Lists /\ j.actions = <<Act("trackers", j.actions[1].value)>>
      /\ j.shown.path = j.shown.origin \/ j.shown.unread
      /\ j.shown.view = [trackers |-> j.actions[1].value]
  BY DEF BatchJob
<1>8. /\ new.actions[1].value \in Lists /\ new.actions = <<Act("trackers", new.actions[1].value)>>
      /\ new.shown.path = new.shown.origin \/ new.shown.unread
      /\ new.shown.view = [trackers |-> new.actions[1].value]
  BY <1>5, <1>7
<1> QED BY <1>5, <1>6, <1>8 DEF BatchJob

LEMMA SoundBatchList ==
  ASSUME Sound, BatchList
  PROVE  Sound'
<1>1. task # None /\ task.kind = "batch" /\ ~task.done /\ job.next = 0 /\ Quiet /\ UNCHANGED <<pages, cli, steps>>
  BY DEF BatchList, Works
<1>2. CASE task.cancelled
  <2>1. Done(Refused)
    BY <1>2 DEF BatchList
  <2> QED BY <1>1, <2>1, OnlyDone DEF LoadKinds
<1>3. CASE ~task.cancelled
  <2>1. /\ files \in [Paths -> Files] /\ steps \in 0 .. MaxSteps
        /\ InspectOK(inspect) /\ ModifyOK(modify) /\ TrackerOK(tracker) /\ CliOK(cli)
        /\ TaskOK(task, modify.loaded, tracker.loaded)
    BY Parts
  <2>2. inspect' = inspect /\ modify' = modify /\ tracker' = tracker /\ cli' = cli /\ steps' = steps
    BY <1>1 DEF pages
  <2>3. files' \in [Paths -> Files] /\ WrittenOK(written') /\ files' = files
    BY <1>1, QuietKeeps
  <2>4. BatchTask(task) /\ TaskShape(task) /\ job = task.job
    BY <1>1, <2>1 DEF TaskOK, job
  <2> DEFINE j == task.job
             S == {n \in Names : files[<<j.folder, n>>] # None}
             names == SetToSeq(S)
             t == task'
             new == [j EXCEPT !.next = 1, !.names = names]
  <2>5. t = [task EXCEPT !.job = new]
    BY <1>3, <2>4 DEF BatchList, TaskShape
  <2>6. IsFiniteSet(S)
    <3>1. IsFiniteSet(Names) /\ S \subseteq Names
      BY Basics
    <3> QED BY <3>1, FS_Subset
  <2> HIDE DEF S
  <2>7. names \in Seq(S) /\ IsInjective(names) /\ ToSet(names) = S
    <3> DEFINE n == Cardinality(S)
    <3>1. n \in Nat /\ ExistsBijection(1 .. n, S)
      BY <2>6, FS_CardinalityType
    <3>2. PICK b \in Bijection(1 .. n, S) : TRUE
      BY <3>1 DEF ExistsBijection
    <3>3. b \in [1 .. n -> S] /\ IsInjective(b)
      BY <3>2 DEF Bijection, Injection, IsInjective
    <3>4. names \in [1 .. n -> S] /\ IsInjective(names)
      BY <3>3 DEF SetToSeq
    <3> HIDE DEF names
    <3>5. names \in Seq(S) /\ DOMAIN names = 1 .. n
      BY <3>1, <3>4, SeqTyped
    <3>6. IsFiniteSet(1 .. n) /\ Cardinality(1 .. n) = n
      BY <3>1, CardUpTo
    <3>7. names \in Injection(1 .. n, S)
      BY <3>4 DEF Injection, IsInjective
    <3> DEFINE T == ToSet(names)
    <3>8. T \subseteq S /\ names \in Surjection(1 .. n, T) /\ names \in Injection(1 .. n, T)
      <4>1. T = {names[i] : i \in 1 .. n}
        BY <3>5 DEF ToSet
      <4> HIDE DEF T
      <4>2. T \subseteq S
        BY <3>4, <4>1
      <4>3. names \in [1 .. n -> T]
        BY <3>4, <4>1
      <4> QED BY <3>4, <4>1, <4>2, <4>3 DEF Surjection, Injection, IsInjective
    <3> HIDE DEF T, n
    <3>9. Cardinality(T) = n
      BY <3>6, <3>8, FS_Surjection
    <3>10. T = S
      BY <2>6, <3>8, <3>9, FS_Subset DEF n
    <3> QED BY <3>4, <3>5, <3>10 DEF T
  <2>8. names \in Seq(Names) /\ S \subseteq Names
    <3>1. S \subseteq Names
      BY DEF S
    <3> HIDE DEF names
    <3> QED BY <2>7, <3>1
  <2> HIDE DEF names
  <2>9. /\ BatchJob(new) /\ new.next = 1 /\ new.names = names /\ new.folder = j.folder
        /\ new.dry = j.dry /\ new.disturbed = j.disturbed
    <3>1. BatchJob(j)
      BY <2>4 DEF BatchTask
    <3>2. new = [j EXCEPT !.names = names, !.next = 1, !.failures = j.failures, !.disturbed = j.disturbed]
      <4>1. j \in [actions : Seq(Actions), dry : BOOLEAN, shown : {j.shown}, folder : Dirs,
                   output : Dirs \cup {None}, overwrite : BOOLEAN, names : Seq(Names), next : Nat,
                   failures : SUBSET Names, disturbed : BOOLEAN]
        BY <3>1 DEF BatchJob
      <4> HIDE DEF j
      <4> QED BY <4>1
    <3> HIDE DEF new, j
    <3>3. j.failures \in SUBSET Names /\ j.disturbed \in BOOLEAN
      BY <3>1 DEF BatchJob
    <3> DEFINE one == 1
    <3>4. one \in Nat
      OBVIOUS
    <3>5. new = GoesOn(j, names, one, j.failures, j.disturbed)
      BY <3>2 DEF GoesOn
    <3>6. names \in Seq(Names)
      BY <2>8
    <3> HIDE DEF one
    <3>7. /\ BatchJob(new) /\ new.next = one /\ new.names = names /\ new.folder = j.folder
          /\ new.dry = j.dry /\ new.disturbed = j.disturbed
      BY <3>1, <3>3, <3>4, <3>5, <3>6, JobGoesOn
    <3> QED BY <3>7 DEF one
  <2> HIDE DEF new, t
  <2>10. t.job = new /\ t.kind = "batch" /\ t.done = FALSE /\ t.result = task.result /\ TaskShape(t)
    BY <1>1, <2>4, <2>5 DEF TaskShape
  <2>11. task.result = Refused
    BY <1>1, <2>4 DEF BatchTask, BatchJob, job
  <2>12. TaskOK(t, modify.loaded, tracker.loaded)
    BY <2>9, <2>10, <2>11 DEF TaskOK, BatchTask, LoadKinds
  <2>13. BatchOK(t, files)
    <3>1. SoFarDone(files, new)
      <4>1. \A k \in DOMAIN names : ~(k < 1)
        BY <2>8
      <4>2. S = {n \in Names : files[<<new.folder, n>>] # None}
        BY <2>9 DEF S
      <4> QED BY <2>7, <2>9, <4>1, <4>2 DEF SoFarDone
    <3> QED BY <2>10, <3>1 DEF BatchOK
  <2> QED BY <2>1, <2>2, <2>3, <2>12, <2>13, Together DEF t
<1> QED BY <1>2, <1>3

-----------------------------------------------------------------------------
(* The window and its user: files and what was written stay as they are *)

LEMMA QuietStep ==
  ASSUME Sound, Quiet, Step \/ UNCHANGED steps,
         InspectOK(inspect'), ModifyOK(modify'), TrackerOK(tracker'), CliOK(cli'),
         TaskOK(task', modify'.loaded, tracker'.loaded), BatchOK(task', files)
  PROVE  Sound'
<1>1. files' \in [Paths -> Files] /\ WrittenOK(written') /\ files' = files
  BY QuietKeeps
<1>2. steps' \in 0 .. MaxSteps
  BY StepCounts DEF Sound
<1> QED BY <1>1, <1>2, Together

\* The pages change, the task and the command line stay.
LEMMA PageStep ==
  ASSUME Sound, Quiet, Step \/ UNCHANGED steps, UNCHANGED <<task, cli>>,
         InspectOK(inspect'), ModifyOK(modify'), TrackerOK(tracker'),
         task # None => modify'.loaded = modify.loaded,
         task # None => tracker'.loaded = tracker.loaded
  PROVE  Sound'
<1>1. CliOK(cli') /\ TaskOK(task, modify.loaded, tracker.loaded) /\ BatchOK(task, files) /\ task' = task
  BY Parts
<1>2. TaskOK(task', modify'.loaded, tracker'.loaded)
  <2>1. CASE task = None
    BY <1>1, <2>1 DEF TaskOK
  <2>2. CASE task # None
    BY <1>1, <2>2
  <2> QED BY <2>1, <2>2
<1> QED BY <1>1, <1>2, QuietStep

\* The outcome of a task reaches the pages.
LEMMA PageDone ==
  ASSUME Sound, Quiet, task' = None, UNCHANGED <<cli, steps>>,
         InspectOK(inspect'), ModifyOK(modify'), TrackerOK(tracker')
  PROVE  Sound'
<1>1. CliOK(cli')
  BY Parts
<1> QED BY <1>1, TaskEnds, QuietStep

LEMMA SoundInspectOpen ==
  ASSUME Sound, NEW path \in Opened \cap Paths, InspectOpen(path)
  PROVE  Sound'
<1>1. Step /\ Quiet /\ modify' = modify /\ tracker' = tracker /\ cli' = cli
  BY DEF InspectOpen
<1>2. InspectOK(inspect) /\ ModifyOK(modify) /\ TrackerOK(tracker) /\ CliOK(cli)
  BY Parts
<1>3. CASE task = None
  <2>1. inspect' = [path |-> path, loaded |-> None, trackers |-> <<>>]
    BY <1>3 DEF InspectOpen
  <2>2. PICK mode \in Modes : StartTask("load_inspect", [path |-> path, mode |-> mode])
    BY <1>3 DEF InspectOpen
  <2>3. InspectOK(inspect')
    <3>1. <<>> \in Lists
      BY DEF Lists
    <3> QED BY <2>1, <3>1 DEF InspectOK, InspectPages, WellOr
  <2> DEFINE j == [path |-> path, mode |-> mode]
  <2>4. j \in [path : Paths, mode : Modes]
    OBVIOUS
  <2> DEFINE kind == "load_inspect"
  <2>5. kind \in TaskKinds /\ StartTask(kind, j) /\ kind # "load_folder" /\ kind # "save_modify"
        /\ kind # "save_tracker" /\ kind # "batch"
    BY <2>2 DEF TaskKinds, LoadKinds
  <2> HIDE DEF j, kind
  <2>6. TaskOK(task', modify.loaded, tracker.loaded) /\ BatchOK(task', files)
    BY <2>4, <2>5, Begun
  <2> QED BY <1>1, <1>2, <2>3, <2>6, QuietStep
<1>4. CASE task # None
  <2>1. inspect' = [inspect EXCEPT !.path = path] /\ task' = task
    BY <1>4 DEF InspectOpen
  <2>2. InspectOK(inspect')
    BY <1>2, <2>1 DEF InspectOK, InspectPages
  <2> QED BY <1>1, <1>2, <2>1, <2>2, PageStep
<1> QED BY <1>3, <1>4

LEMMA SoundInspectLoaded ==
  ASSUME Sound, InspectLoaded
  PROVE  Sound'
<1>1. task' = None /\ Quiet /\ UNCHANGED <<modify, tracker, cli, steps>>
  BY DEF InspectLoaded
<1>2. InspectOK(inspect) /\ ModifyOK(modify) /\ TrackerOK(tracker) /\ TaskOK(task, modify.loaded, tracker.loaded)
  BY Parts
<1>3. LoadOK(task)
  BY <1>2 DEF InspectLoaded, Returns, TaskOK, LoadKinds
<1>4. InspectOK(inspect')
  <2>1. CASE task.result = Refused
    BY <1>2, <2>1 DEF InspectLoaded
  <2>2. CASE task.result # Refused
    <3> DEFINE r == task.result
    <3>1. r \in Snapshots /\ Well(r)
      BY <1>3, <2>2 DEF LoadOK
    <3>2. inspect' = [inspect EXCEPT !.loaded = r, !.trackers = r.document.trackers]
      BY <2>2 DEF InspectLoaded
    <3> HIDE DEF r
    <3> DEFINE list == r.document.trackers
    <3>3. list \in Lists
      BY <3>1 DEF Snapshots, Documents
    <3>4. inspect' = [inspect EXCEPT !.loaded = r, !.trackers = list]
      BY <3>2
    <3> HIDE DEF list
    <3> QED BY <1>2, <3>1, <3>3, <3>4 DEF InspectOK, InspectPages, WellOr
  <2> QED BY <2>1, <2>2
<1> QED BY <1>1, <1>2, <1>4, PageDone

LEMMA SoundValidate ==
  ASSUME Sound, Validate
  PROVE  Sound'
<1>1. Quiet /\ inspect' = inspect /\ modify' = modify /\ tracker' = tracker /\ cli' = cli /\ steps' = steps
  BY DEF Validate, pages
<1>2. InspectOK(inspect) /\ ModifyOK(modify) /\ TrackerOK(tracker) /\ CliOK(cli)
  BY Parts
<1> DEFINE kind == "validate" j == [path |-> inspect.path]
<1>3. kind \in TaskKinds /\ StartTask(kind, j) /\ kind \notin LoadKinds /\ kind # "load_folder"
      /\ kind # "save_modify" /\ kind # "save_tracker" /\ kind # "batch"
  BY DEF Validate, TaskKinds, LoadKinds
<1> HIDE DEF kind, j
<1>4. TaskOK(task', modify.loaded, tracker.loaded) /\ BatchOK(task', files)
  BY <1>3, Begun
<1> QED BY <1>1, <1>2, <1>4, QuietStep

-----------------------------------------------------------------------------
(* The Modify page *)

LEMMA ModifyAutoPath ==
  ASSUME NEW m \in ModifyPages, NEW path \in Paths, NEW n, n = update_modify_output_path(m, path)
  PROVE  /\ n \in ModifyPages /\ n.loaded = m.loaded /\ n.path = m.path /\ n.origin = m.origin
         /\ n.unread = m.unread /\ n.fields = m.fields
<1> DEFINE c == <<DefaultDir, path[2]>>
<1>1. c \in Paths
  BY Basics DEF Paths
<1>2. n = m \/ n = [m EXCEPT !.output = c, !.auto = c]
  BY DEF update_modify_output_path, set_auto_path
<1> HIDE DEF c
<1> QED BY <1>1, <1>2 DEF ModifyPages

LEMMA ModifyPathTyped ==
  ASSUME NEW m \in ModifyPages, NEW path \in Paths \cup {None}, NEW n, n = ModifyPathText(m, path)
  PROVE  /\ n \in ModifyPages /\ n.path = path /\ n.loaded = m.loaded
<1>1. CASE path = None
  <2> DEFINE o == IF m.output = m.auto THEN None ELSE m.output
  <2>1. o \in Paths \cup {None}
    BY DEF ModifyPages
  <2>2. n = [m EXCEPT !.path = None, !.output = o, !.auto = None]
    BY <1>1 DEF ModifyPathText
  <2> HIDE DEF o
  <2> QED BY <1>1, <2>1, <2>2 DEF ModifyPages
<1>2. CASE path # None
  <2>1. path \in Paths
    BY <1>2
  <2> DEFINE p == update_modify_output_path(m, path)
  <2>2. n = [p EXCEPT !.path = path]
    BY <1>2 DEF ModifyPathText
  <2> HIDE DEF p
  <2>3. p \in ModifyPages /\ p.loaded = m.loaded
    BY <2>1, ModifyAutoPath DEF p
  <2> QED BY <2>1, <2>2, <2>3 DEF ModifyPages
<1> QED BY <1>1, <1>2

LEMMA SoundModifyOpen ==
  ASSUME Sound, NEW path \in (Opened \cap Paths) \cup {None}, ModifyOpen(path)
  PROVE  Sound'
<1>1. Step /\ Quiet /\ inspect' = inspect /\ tracker' = tracker /\ cli' = cli
  BY DEF ModifyOpen
<1>2. InspectOK(inspect) /\ ModifyOK(modify) /\ TrackerOK(tracker) /\ CliOK(cli)
  BY Parts
<1> DEFINE n == ModifyPathText(modify, path)
<1>3. n \in ModifyPages /\ n.path = path /\ n.loaded = modify.loaded
  BY <1>2, ModifyPathTyped DEF ModifyOK
<1>4. CASE task = None /\ path # None
  <2>1. modify' = [n EXCEPT !.loaded = None, !.unread = FALSE]
    BY <1>4 DEF ModifyOpen
  <2>2. PICK mode \in Modes : StartTask("load_modify", [path |-> path, mode |-> mode])
    BY <1>4 DEF ModifyOpen
  <2> HIDE DEF n
  <2>3. ModifyOK(modify')
    BY <1>3, <2>1 DEF ModifyOK, ModifyPages, WellOr
  <2> DEFINE j == [path |-> path, mode |-> mode] kind == "load_modify"
  <2>4. j \in [path : Paths, mode : Modes]
    BY <1>4
  <2>5. kind \in TaskKinds /\ StartTask(kind, j) /\ kind # "load_folder" /\ kind # "save_modify"
        /\ kind # "save_tracker" /\ kind # "batch"
    BY <2>2 DEF TaskKinds, LoadKinds
  <2> HIDE DEF j, kind
  <2>6. TaskOK(task', modify'.loaded, tracker.loaded) /\ BatchOK(task', files)
    BY <2>4, <2>5, Begun
  <2> QED BY <1>1, <1>2, <2>3, <2>6, QuietStep
<1>5. CASE ~(task = None /\ path # None)
  <2>1. modify' = [n EXCEPT !.unread = TRUE] /\ task' = task
    BY <1>5 DEF ModifyOpen
  <2> HIDE DEF n
  <2>2. modify' \in ModifyPages /\ modify'.loaded = modify.loaded /\ modify'.unread
    BY <1>3, <2>1 DEF ModifyPages
  <2>3. ModifyOK(modify')
    BY <1>2, <2>2 DEF ModifyOK
  <2> QED BY <1>1, <1>2, <2>1, <2>2, <2>3, PageStep
<1> QED BY <1>4, <1>5

LEMMA PopulatedFields ==
  ASSUME NEW m \in ModifyPages, NEW r \in Snapshots, NEW n, n = populate_modify_fields(m, r)
  PROVE  n \in ModifyPages /\ n.path = r.source /\ n.loaded = r
<1> DEFINE info == r.document.info
           metadata == r.document.metadata
           p == update_modify_output_path(m, r.source)
           fields == [name |-> Shown(info.name), source |-> Shown(metadata.source),
                      comment |-> Shown(metadata.comment), creator |-> Shown(metadata.creator),
                      private |-> info.private, web_seeds |-> metadata.web_seeds,
                      date |-> IF metadata.date = None THEN m.fields.date ELSE metadata.date]
           custom == is_custom_created_by(metadata.creator)
           dated == metadata.date # None
           rows == populate_tracker_model(r.document.trackers)
           source == r.source
<1>1. n = [p EXCEPT !.path = source, !.loaded = r, !.clear = {}, !.fields = fields, !.custom = custom,
                    !.dated = dated, !.rows = rows]
  BY DEF populate_modify_fields
<1>2. info \in Infos /\ metadata \in Metadata /\ source \in Paths /\ r.document.trackers \in Lists
  BY DEF Snapshots, Documents
<1>3. p \in ModifyPages
  BY <1>2, ModifyAutoPath
<1>4. fields \in Fields
  <2>1. \A x \in OptionalTexts : Shown(x) \in Texts
    BY Basics DEF OptionalTexts, Shown
  <2>2. Shown(info.name) \in Texts /\ Shown(metadata.source) \in Texts /\ Shown(metadata.comment) \in Texts
        /\ Shown(metadata.creator) \in Texts
    BY <1>2, <2>1 DEF Infos, Metadata
  <2>3. info.private \in BOOLEAN
    BY <1>2 DEF Infos
  <2>4. metadata.web_seeds \in Seq(Strings)
    <3>1. SeedUrls \subseteq Strings
      BY MetadataAssumption
    <3>2. metadata.web_seeds \in Seq(SeedUrls)
      BY <1>2 DEF Metadata
    <3> DEFINE s == metadata.web_seeds
    <3> HIDE DEF s
    <3>3. s \in Seq(SeedUrls)
      BY <3>2 DEF s
    <3>4. s \in Seq(Strings)
      BY <3>1, <3>3
    <3> QED BY <3>4 DEF s
  <2> DEFINE date == IF metadata.date = None THEN m.fields.date ELSE metadata.date
  <2>5. date \in Dates
    BY <1>2 DEF Metadata, ModifyPages, Fields
  <2> HIDE DEF info, metadata, date
  <2>6. fields = [name |-> Shown(info.name), source |-> Shown(metadata.source),
                  comment |-> Shown(metadata.comment), creator |-> Shown(metadata.creator),
                  private |-> info.private, web_seeds |-> metadata.web_seeds, date |-> date]
    BY DEF date
  <2> HIDE DEF fields
  <2> QED BY <2>2, <2>3, <2>4, <2>5, <2>6 DEF Fields
<1>5. rows \in Rows
  BY <1>2, PopulatedRows
<1>6. custom \in BOOLEAN /\ dated \in BOOLEAN
  BY DEF is_custom_created_by
<1> HIDE DEF p, fields, custom, dated, rows, source
<1>7. n \in ModifyPages /\ n.path = source /\ n.loaded = r
  BY <1>1, <1>2, <1>3, <1>4, <1>5, <1>6 DEF ModifyPages
<1> QED BY <1>7 DEF source

LEMMA SoundModifyLoaded ==
  ASSUME Sound, ModifyLoaded
  PROVE  Sound'
<1>1. task' = None /\ Quiet /\ UNCHANGED <<inspect, tracker, cli, steps>>
  BY DEF ModifyLoaded
<1>2. InspectOK(inspect) /\ ModifyOK(modify) /\ TrackerOK(tracker) /\ TaskOK(task, modify.loaded, tracker.loaded)
  BY Parts
<1>3. LoadOK(task)
  BY <1>2 DEF ModifyLoaded, Returns, TaskOK, LoadKinds
<1>4. ModifyOK(modify')
  <2>1. CASE task.result = Refused
    BY <1>2, <2>1 DEF ModifyLoaded
  <2>2. CASE task.result # Refused
    <3> DEFINE r == task.result
               p == populate_modify_fields(modify, r)
    <3>1. r \in Snapshots /\ Well(r) /\ r.source = job.path /\ job.path \in Paths
      BY <1>3, <2>2 DEF LoadOK, job
    <3>2. modify' = [p EXCEPT !.origin = job.path, !.unread = FALSE]
      BY <2>2 DEF ModifyLoaded
    <3> HIDE DEF r
    <3>3. p \in ModifyPages /\ p.path = r.source /\ p.loaded = r
      BY <1>2, <3>1, PopulatedFields DEF ModifyOK
    <3> HIDE DEF p
    <3> DEFINE q == job.path
    <3>4. modify' = [p EXCEPT !.origin = q, !.unread = FALSE] /\ q \in Paths /\ r.source = q
      BY <3>1, <3>2
    <3> HIDE DEF q
    <3> QED BY <3>1, <3>3, <3>4 DEF ModifyOK, ModifyPages, WellOr
  <2> QED BY <2>1, <2>2
<1> QED BY <1>1, <1>2, <1>4, PageDone

-----------------------------------------------------------------------------
(* The user types *)

LEMMA TypedKinds ==
  ASSUME NEW typed \in Typed
  PROVE  \/ typed.field \in {"name", "source", "comment", "creator"} /\ typed.value \in Texts
         \/ typed.field \in {"private", "custom", "dated"} /\ typed.value \in BOOLEAN
         \/ typed.field = "date" /\ typed.value \in Dates
         \/ typed.field = "web_seeds" /\ typed.value \in Seq(Strings)
         \/ typed.field = "clear" /\ typed.value \in Clears
         \/ typed.field = "output" /\ typed.value \in Paths \cup {None}
<1>1. typed \in [field : {"name", "source", "comment", "creator"}, value : Texts] \cup
         [field : {"private", "custom", "dated"}, value : BOOLEAN] \cup
         [field : {"date"}, value : Dates] \cup [field : {"web_seeds"}, value : Seq(Strings)] \cup
         [field : {"clear"}, value : Clears] \cup [field : {"output"}, value : Paths \cup {None}]
  BY DocumentAssumption
<1> QED BY <1>1

\* A field of the page is set to what was typed.
LEMMA FieldTyped ==
  ASSUME NEW fields \in Fields, NEW typed \in Typed,
         typed.field \notin {"clear", "custom", "dated", "output"}
  PROVE  [fields EXCEPT ![typed.field] = typed.value] \in Fields
<1> DEFINE n == [fields EXCEPT ![typed.field] = typed.value]
           f == typed.field
           v == typed.value
           S == Seq(Strings)
<1>1. fields \in [name : Texts, source : Texts, comment : Texts, creator : Texts, private : BOOLEAN,
                  date : Dates, web_seeds : S]
  BY DEF Fields
<1>2. n = [fields EXCEPT ![f] = v]
  OBVIOUS
<1>3. CASE f \in {"name", "source", "comment", "creator"}
  <2>1. v \in Texts
    BY <1>3, TypedKinds
  <2> HIDE DEF f, v, S, n
  <2>2. n \in [name : Texts, source : Texts, comment : Texts, creator : Texts, private : BOOLEAN,
               date : Dates, web_seeds : S]
    BY <1>1, <1>2, <1>3, <2>1
  <2> QED BY <2>2 DEF Fields, S, n, f, v
<1>4. CASE f = "private"
  <2>1. v \in BOOLEAN
    BY <1>4, TypedKinds
  <2> HIDE DEF f, v, S, n
  <2>2. n \in [name : Texts, source : Texts, comment : Texts, creator : Texts, private : BOOLEAN,
               date : Dates, web_seeds : S]
    BY <1>1, <1>2, <1>4, <2>1
  <2> QED BY <2>2 DEF Fields, S, n, f, v
<1>5. CASE f = "date"
  <2>1. v \in Dates
    BY <1>5, TypedKinds
  <2> HIDE DEF f, v, S, n
  <2>2. n \in [name : Texts, source : Texts, comment : Texts, creator : Texts, private : BOOLEAN,
               date : Dates, web_seeds : S]
    BY <1>1, <1>2, <1>5, <2>1
  <2> QED BY <2>2 DEF Fields, S, n, f, v
<1>6. CASE f = "web_seeds"
  <2>1. v \in S
    BY <1>6, TypedKinds
  <2> HIDE DEF f, v, S, n
  <2>2. n \in [name : Texts, source : Texts, comment : Texts, creator : Texts, private : BOOLEAN,
               date : Dates, web_seeds : S]
    BY <1>1, <1>2, <1>6, <2>1
  <2> QED BY <2>2 DEF Fields, S, n, f, v
<1>7. f \in {"name", "source", "comment", "creator", "private", "date", "web_seeds"}
  BY TypedKinds
<1> QED BY <1>3, <1>4, <1>5, <1>6, <1>7 DEF n, f, v

LEMMA SoundModifyType ==
  ASSUME Sound, NEW typed \in Typed, ModifyType(typed)
  PROVE  Sound'
<1>1. Step /\ Quiet /\ UNCHANGED <<inspect, tracker, task, cli>>
  BY DEF ModifyType
<1>2. InspectOK(inspect) /\ ModifyOK(modify) /\ TrackerOK(tracker)
  BY Parts
<1> DEFINE f == typed.field
           v == typed.value
<1>3. modify \in ModifyPages
  BY <1>2 DEF ModifyOK
<1>4. /\ modify' \in ModifyPages /\ modify'.loaded = modify.loaded /\ modify'.path = modify.path
      /\ modify'.origin = modify.origin /\ modify'.unread = modify.unread
  <2>1. CASE f = "clear"
    <3>1. modify' = [modify EXCEPT !.clear = @ \cup {v}]
      BY <2>1 DEF ModifyType
    <3>2. v \in Clears
      BY <2>1, TypedKinds
    <3> HIDE DEF v
    <3> QED BY <1>3, <3>1, <3>2 DEF ModifyPages
  <2>2. CASE f = "custom"
    <3>1. modify' = [modify EXCEPT !.custom = v]
      BY <2>2 DEF ModifyType
    <3>2. v \in BOOLEAN
      BY <2>2, TypedKinds
    <3> HIDE DEF v
    <3> QED BY <1>3, <3>1, <3>2 DEF ModifyPages
  <2>3. CASE f = "dated"
    <3>1. modify' = [modify EXCEPT !.dated = v]
      BY <2>3 DEF ModifyType
    <3>2. v \in BOOLEAN
      BY <2>3, TypedKinds
    <3> HIDE DEF v
    <3> QED BY <1>3, <3>1, <3>2 DEF ModifyPages
  <2>4. CASE f = "output"
    <3>1. modify' = [modify EXCEPT !.output = v]
      BY <2>4 DEF ModifyType
    <3>2. v \in Paths \cup {None}
      BY <2>4, TypedKinds
    <3> HIDE DEF v
    <3> QED BY <1>3, <3>1, <3>2 DEF ModifyPages
  <2>5. CASE f \notin {"clear", "custom", "dated", "output"}
    <3> DEFINE fields == [modify.fields EXCEPT ![typed.field] = typed.value]
               custom == modify.custom /\ typed # [field |-> "creator", value |-> "TorrentCraft"]
    <3>1. modify' = [modify EXCEPT !.fields = fields, !.custom = custom]
      BY <1>3, <2>5 DEF ModifyType, ModifyPages
    <3>2. modify.fields \in Fields
      BY <1>3 DEF ModifyPages
    <3>3. fields \in Fields
      BY <2>5, <3>2, FieldTyped
    <3>4. custom \in BOOLEAN
      BY <1>3 DEF ModifyPages
    <3> HIDE DEF fields, custom
    <3> QED BY <1>3, <3>1, <3>3, <3>4 DEF ModifyPages
  <2> QED BY <2>1, <2>2, <2>3, <2>4, <2>5
<1>5. ModifyOK(modify')
  BY <1>2, <1>4 DEF ModifyOK
<1> QED BY <1>1, <1>2, <1>4, <1>5, PageStep

LEMMA SoundModifyRows ==
  ASSUME Sound, ModifyRows
  PROVE  Sound'
<1>1. Step /\ Quiet /\ UNCHANGED <<inspect, tracker, task, cli>>
  BY DEF ModifyRows
<1>2. InspectOK(inspect) /\ ModifyOK(modify) /\ TrackerOK(tracker)
  BY Parts
<1>3. PICK rows \in RowEdits(modify.rows) : modify' = [modify EXCEPT !.rows = rows]
  BY DEF ModifyRows
<1>4. modify.rows \in Rows
  BY <1>2 DEF ModifyOK, ModifyPages
<1>5. rows \in Rows
  BY <1>4, RowsEdited
<1>6. ModifyOK(modify') /\ modify'.loaded = modify.loaded
  BY <1>2, <1>3, <1>5 DEF ModifyOK, ModifyPages
<1> QED BY <1>1, <1>2, <1>6, PageStep

LEMMA SoundSaveModify ==
  ASSUME Sound, NEW dry \in BOOLEAN, SaveModify(dry)
  PROVE  Sound'
<1>1. Quiet /\ inspect' = inspect /\ modify' = modify /\ tracker' = tracker /\ cli' = cli /\ steps' = steps
  BY DEF SaveModify, pages
<1>2. InspectOK(inspect) /\ ModifyOK(modify) /\ TrackerOK(tracker) /\ CliOK(cli)
  BY Parts
<1> DEFINE actions == ModifyActions(modify)
           shown == [path |-> modify.path, origin |-> modify.origin, unread |-> modify.unread,
                     clear |-> modify.clear, view |-> PageView(modify)]
           ml == modify.loaded
<1>3. ml # None /\ modify \in ModifyPages /\ WellOr(ml) /\ (modify.path = modify.origin \/ modify.unread)
  BY <1>2 DEF SaveModify, ModifyOK
<1>4. PICK overwrite \in BOOLEAN :
        StartTask("save_modify",
          [actions |-> actions, dry |-> dry,
           request |-> [target |-> modify.output, overwrite |-> overwrite], shown |-> shown])
  BY DEF SaveModify
<1> DEFINE request == [target |-> modify.output, overwrite |-> overwrite]
           j == [actions |-> actions, dry |-> dry, request |-> request, shown |-> shown]
           kind == "save_modify"
           asked == Requested(View(ml.document), ml.original, actions)
           view == PageView(modify)
<1>5. StartTask(kind, j) /\ kind \in TaskKinds /\ kind \notin LoadKinds
      /\ kind # "load_folder" /\ kind # "save_tracker" /\ kind # "batch"
  BY <1>4 DEF TaskKinds, LoadKinds
<1>6. actions \in Seq(Actions) /\ \A f \in DOMAIN view : f \in ViewFields /\ asked[f] = view[f]
  <2>1. /\ ToSet(modify.fields.web_seeds) \subseteq SeedUrls /\ tracker_list_from_model(modify.rows) # Refused
    BY DEF SaveModify
  <2> QED BY <1>3, <2>1, ModifyAsksForWhatIsShown
<1>7. request \in Requests
  BY <1>3 DEF Requests, ModifyPages
<1>8. shown.path = modify.path /\ shown.origin = modify.origin /\ shown.unread = modify.unread
      /\ shown.view = view
  OBVIOUS
<1> HIDE DEF actions, shown, request, kind, view
<1>9. /\ j \in [actions : Seq(Actions), dry : BOOLEAN, shown : {j.shown}, request : Requests]
      /\ j.shown = shown /\ j.actions = actions
  BY <1>6, <1>7
<1> HIDE DEF j
<1>10. AsksShown(j, ml)
  BY <1>3, <1>6, <1>8, <1>9 DEF AsksShown
<1> HIDE DEF ml
<1>11. TaskOK(task', ml, tracker.loaded) /\ BatchOK(task', files)
  BY <1>3, <1>5, <1>9, <1>10, Begun
<1>12. TaskOK(task', modify'.loaded, tracker'.loaded)
  BY <1>1, <1>11 DEF ml
<1> QED BY <1>1, <1>2, <1>11, <1>12, QuietStep

\* A save has returned: its outcome is a document as good as the one before.
LEMMA SoundModifySaved ==
  ASSUME Sound, ModifySaved
  PROVE  Sound'
<1>1. task' = None /\ Quiet /\ UNCHANGED <<inspect, tracker, cli, steps>>
  BY DEF ModifySaved
<1>2. InspectOK(inspect) /\ ModifyOK(modify) /\ TrackerOK(tracker) /\ TaskOK(task, modify.loaded, tracker.loaded)
  BY Parts
<1>3. SaveOK(task, modify.loaded)
  BY <1>2 DEF ModifySaved, Returns, TaskOK
<1>4. ModifyOK(modify')
  <2>1. CASE task.result = Refused
    BY <1>2, <2>1 DEF ModifySaved
  <2>2. CASE task.result # Refused
    <3> DEFINE r == task.result
    <3>1. r \in Snapshots /\ Well(r) /\ modify.loaded # None
      BY <1>3, <2>2 DEF SaveOK
    <3>2. modify' = [modify EXCEPT !.loaded = r]
      BY <2>2 DEF ModifySaved
    <3> HIDE DEF r
    <3> QED BY <1>2, <3>1, <3>2 DEF ModifyOK, ModifyPages, WellOr
  <2> QED BY <2>1, <2>2
<1> QED BY <1>1, <1>2, <1>4, PageDone

-----------------------------------------------------------------------------
(* The Tracker page *)

LEMMA TrackerProposes ==
  ASSUME NEW k \in TrackerPages, NEW n, n = ProposeOutput(k)
  PROVE  /\ n \in TrackerPages /\ n.loaded = k.loaded /\ n.path = k.path /\ n.origin = k.origin
         /\ n.unread = k.unread /\ n.folder = k.folder
<1>1. n = k \/ n = [k EXCEPT !.output = DefaultDir, !.auto = DefaultDir]
  BY DEF ProposeOutput, set_auto_path
<1>2. DefaultDir \in Dirs
  BY Basics
<1> QED BY <1>1, <1>2 DEF TrackerPages

LEMMA SoundTrackerOpen ==
  ASSUME Sound, NEW path \in Opened, TrackerOpen(path)
  PROVE  Sound'
<1>1. Step /\ Quiet /\ inspect' = inspect /\ modify' = modify /\ cli' = cli
  BY DEF TrackerOpen
<1>2. InspectOK(inspect) /\ ModifyOK(modify) /\ TrackerOK(tracker) /\ CliOK(cli)
  BY Parts
<1>3. tracker \in TrackerPages /\ WellOr(tracker.loaded) /\ path \in Paths \cup Dirs
  BY <1>2, Basics DEF TrackerOK
<1> DEFINE p == ProposeOutput(tracker)
<1>4. p \in TrackerPages /\ p.loaded = tracker.loaded /\ p.folder = tracker.folder
  BY <1>3, TrackerProposes
<1>5. CASE task # None
  <2>1. PICK page \in {tracker, p} : tracker' = [page EXCEPT !.path = path, !.unread = TRUE]
    BY <1>5 DEF TrackerOpen
  <2>2. task' = task
    BY <1>5 DEF TrackerOpen
  <2> HIDE DEF p
  <2>3. page \in TrackerPages /\ page.loaded = tracker.loaded
    BY <1>3, <1>4, <2>1
  <2>4. tracker' \in TrackerPages /\ tracker'.loaded = tracker.loaded /\ tracker'.unread
    BY <1>3, <2>1, <2>3 DEF TrackerPages
  <2>5. TrackerOK(tracker')
    BY <1>3, <2>4 DEF TrackerOK
  <2> QED BY <1>1, <1>2, <2>2, <2>4, <2>5, PageStep
<1>6. CASE task = None /\ path \in Dirs
  <2>1. tracker' = [p EXCEPT !.path = path, !.loaded = None, !.folder = None, !.unread = TRUE]
        /\ StartTask("load_folder", [path |-> path])
    BY <1>6 DEF TrackerOpen
  <2> HIDE DEF p
  <2>2. TrackerOK(tracker')
    BY <1>3, <1>4, <2>1 DEF TrackerOK, TrackerPages, WellOr
  <2> DEFINE j == [path |-> path] kind == "load_folder"
  <2>3. j \in [path : Dirs]
    BY <1>6
  <2>4. kind \in TaskKinds /\ StartTask(kind, j) /\ kind \notin LoadKinds /\ kind # "save_modify"
        /\ kind # "save_tracker" /\ kind # "batch"
    BY <2>1 DEF TaskKinds, LoadKinds
  <2> HIDE DEF j, kind
  <2>5. TaskOK(task', modify.loaded, tracker'.loaded) /\ BatchOK(task', files)
    BY <2>3, <2>4, Begun
  <2> QED BY <1>1, <1>2, <2>2, <2>5, QuietStep
<1>7. CASE task = None /\ path \notin Dirs
  <2> DEFINE folder == IF p.folder = path[1] THEN p.folder ELSE None
  <2>1. tracker' = [p EXCEPT !.path = path, !.folder = folder, !.unread = TRUE]
        /\ StartTask("load_tracker", [path |-> path, mode |-> "lenient"])
    BY <1>7 DEF TrackerOpen
  <2>2. folder \in Dirs \cup {None}
    BY <1>4 DEF TrackerPages
  <2> HIDE DEF p, folder
  <2>3. TrackerOK(tracker')
    BY <1>3, <1>4, <2>1, <2>2 DEF TrackerOK, TrackerPages
  <2> DEFINE j == [path |-> path, mode |-> "lenient"] kind == "load_tracker"
  <2>4. j \in [path : Paths, mode : Modes]
    BY <1>3, <1>7 DEF Modes
  <2>5. kind \in TaskKinds /\ StartTask(kind, j) /\ kind # "load_folder" /\ kind # "save_modify"
        /\ kind # "save_tracker" /\ kind # "batch"
    BY <2>1 DEF TaskKinds, LoadKinds
  <2> HIDE DEF j, kind
  <2>6. TaskOK(task', modify.loaded, tracker'.loaded) /\ BatchOK(task', files)
    BY <2>4, <2>5, Begun
  <2> QED BY <1>1, <1>2, <2>3, <2>6, QuietStep
<1> QED BY <1>5, <1>6, <1>7

LEMMA SoundTrackerRows ==
  ASSUME Sound, TrackerRows
  PROVE  Sound'
<1>1. Step /\ Quiet /\ UNCHANGED <<inspect, modify, task, cli>>
  BY DEF TrackerRows
<1>2. InspectOK(inspect) /\ ModifyOK(modify) /\ TrackerOK(tracker)
  BY Parts
<1>3. PICK rows \in RowEdits(tracker.rows) : tracker' = [tracker EXCEPT !.rows = rows]
  BY DEF TrackerRows
<1>4. tracker.rows \in Rows
  BY <1>2 DEF TrackerOK, TrackerPages
<1>5. rows \in Rows
  BY <1>4, RowsEdited
<1>6. TrackerOK(tracker') /\ tracker'.loaded = tracker.loaded
  BY <1>2, <1>3, <1>5 DEF TrackerOK, TrackerPages
<1> QED BY <1>1, <1>2, <1>6, PageStep

LEMMA SoundTrackerOutput ==
  ASSUME Sound, TrackerOutput
  PROVE  Sound'
<1>1. Step /\ Quiet /\ UNCHANGED <<inspect, modify, task, cli>>
  BY DEF TrackerOutput
<1>2. InspectOK(inspect) /\ ModifyOK(modify) /\ TrackerOK(tracker)
  BY Parts
<1>3. TrackerOK(tracker') /\ tracker'.loaded = tracker.loaded
  BY <1>2 DEF TrackerOutput, TrackerOK, TrackerPages
<1> QED BY <1>1, <1>2, <1>3, PageStep

LEMMA SoundFolderLoaded ==
  ASSUME Sound, FolderLoaded
  PROVE  Sound'
<1>1. task' = None /\ Quiet /\ UNCHANGED <<inspect, modify, cli, steps>>
  BY DEF FolderLoaded
<1>2. InspectOK(inspect) /\ ModifyOK(modify) /\ TrackerOK(tracker) /\ TaskOK(task, modify.loaded, tracker.loaded)
  BY Parts
<1>3. FolderOK(task)
  BY <1>2 DEF FolderLoaded, Returns, TaskOK
<1>4. TrackerOK(tracker')
  <2>1. CASE task.result = Refused
    BY <1>2, <2>1 DEF FolderLoaded
  <2>2. CASE task.result # Refused
    <3> DEFINE q == job.path
               unread == tracker.path # q
    <3>1. tracker' = [tracker EXCEPT !.folder = q, !.rows = DefaultRows, !.origin = q, !.unread = unread]
      BY <2>2 DEF FolderLoaded
    <3>2. q \in Dirs
      BY <1>3 DEF FolderOK, job
    <3>3. DefaultRows \in Rows
      BY Basics
    <3>4. unread \in BOOLEAN /\ (unread <=> tracker.path # q)
      OBVIOUS
    <3> HIDE DEF q, unread
    <3>5. tracker' \in TrackerPages
      BY <1>2, <3>1, <3>2, <3>3, <3>4 DEF TrackerOK, TrackerPages
    <3>6. tracker'.path = tracker.path /\ tracker'.origin = q /\ tracker'.unread = unread
          /\ tracker'.loaded = tracker.loaded
      BY <1>2, <3>1 DEF TrackerOK, TrackerPages
    <3> QED BY <1>2, <3>4, <3>5, <3>6 DEF TrackerOK
  <2> QED BY <2>1, <2>2
<1> QED BY <1>1, <1>2, <1>4, PageDone

LEMMA SoundTrackerLoaded ==
  ASSUME Sound, TrackerLoaded
  PROVE  Sound'
<1>1. task' = None /\ Quiet /\ UNCHANGED <<inspect, modify, cli, steps>>
  BY DEF TrackerLoaded
<1>2. InspectOK(inspect) /\ ModifyOK(modify) /\ TrackerOK(tracker) /\ TaskOK(task, modify.loaded, tracker.loaded)
  BY Parts
<1>3. LoadOK(task)
  BY <1>2 DEF TrackerLoaded, Returns, TaskOK, LoadKinds
<1>4. TrackerOK(tracker')
  <2>1. CASE task.result = Refused
    BY <1>2, <2>1 DEF TrackerLoaded
  <2>2. CASE task.result # Refused
    <3> DEFINE r == task.result
               q == job.path
               rows == populate_tracker_model(r.document.trackers)
               unread == tracker.path # q
    <3>1. r \in Snapshots /\ Well(r) /\ q \in Paths
      BY <1>3, <2>2 DEF LoadOK, job
    <3>2. tracker' = [tracker EXCEPT !.loaded = r, !.rows = rows, !.origin = q, !.unread = unread]
      BY <2>2 DEF TrackerLoaded
    <3>3. rows \in Rows
      <4>1. r.document.trackers \in Lists
        BY <3>1 DEF Snapshots, Documents
      <4> QED BY <4>1, PopulatedRows
    <3>4. unread \in BOOLEAN /\ (unread <=> tracker.path # q)
      OBVIOUS
    <3> HIDE DEF r, q, rows, unread
    <3>5. tracker' \in TrackerPages
      BY <1>2, <3>1, <3>2, <3>3, <3>4 DEF TrackerOK, TrackerPages
    <3>6. tracker'.path = tracker.path /\ tracker'.origin = q /\ tracker'.unread = unread
          /\ tracker'.loaded = r
      BY <1>2, <3>2 DEF TrackerOK, TrackerPages
    <3> QED BY <3>1, <3>4, <3>5, <3>6 DEF TrackerOK, WellOr
  <2> QED BY <2>1, <2>2
<1> QED BY <1>1, <1>2, <1>4, PageDone

LEMMA SoundTrackerSaved ==
  ASSUME Sound, TrackerSaved
  PROVE  Sound'
<1>1. task' = None /\ Quiet /\ UNCHANGED <<inspect, modify, cli, steps>>
  BY DEF TrackerSaved
<1>2. InspectOK(inspect) /\ ModifyOK(modify) /\ TrackerOK(tracker) /\ TaskOK(task, modify.loaded, tracker.loaded)
  BY Parts
<1>3. SaveOK(task, tracker.loaded)
  BY <1>2 DEF TrackerSaved, Returns, TaskOK
<1>4. TrackerOK(tracker')
  <2>1. CASE task.result = Refused
    BY <1>2, <2>1 DEF TrackerSaved
  <2>2. CASE task.result # Refused
    <3> DEFINE r == task.result
    <3>1. r \in Snapshots /\ Well(r) /\ tracker.loaded # None
      BY <1>3, <2>2 DEF SaveOK
    <3>2. tracker' = [tracker EXCEPT !.loaded = r]
      BY <2>2 DEF TrackerSaved
    <3> HIDE DEF r
    <3> QED BY <1>2, <3>1, <3>2 DEF TrackerOK, TrackerPages, WellOr
  <2> QED BY <2>1, <2>2
<1> QED BY <1>1, <1>2, <1>4, PageDone

LEMMA SoundSaveTracker ==
  ASSUME Sound, NEW dry \in BOOLEAN, SaveTracker(dry)
  PROVE  Sound'
<1>1. Quiet /\ inspect' = inspect /\ modify' = modify /\ tracker' = tracker /\ cli' = cli /\ steps' = steps
  BY DEF SaveTracker, pages
<1>2. InspectOK(inspect) /\ ModifyOK(modify) /\ TrackerOK(tracker) /\ CliOK(cli)
  BY Parts
<1> DEFINE list == tracker_list_from_model(tracker.rows)
           shown == [path |-> tracker.path, origin |-> tracker.origin, unread |-> tracker.unread,
                     clear |-> {}, view |-> [trackers |-> list]]
           actions == <<Act("trackers", list)>>
           output == tracker.output
<1>3. tracker \in TrackerPages /\ WellOr(tracker.loaded)
      /\ (tracker.loaded # None \/ tracker.folder # None => tracker.path = tracker.origin \/ tracker.unread)
  BY <1>2 DEF TrackerOK
<1>4. list \in Lists
  <2>1. tracker.rows \in Rows /\ list # Refused
    BY <1>3 DEF SaveTracker, TrackerPages
  <2> QED BY <2>1, TableType
<1>5. actions \in Seq(Actions) /\ actions[1].value = list
  BY <1>4, OneAction
<1>6. PICK overwrite \in BOOLEAN :
        IF tracker.folder # None
        THEN StartTask("batch",
               [actions |-> actions, dry |-> dry, shown |-> shown, output |-> output,
                overwrite |-> overwrite, folder |-> tracker.folder, names |-> <<>>,
                next |-> 0, failures |-> {}, disturbed |-> FALSE])
        ELSE /\ tracker.loaded # None
             /\ StartTask("save_tracker",
                  [actions |-> actions, dry |-> dry, shown |-> shown,
                   request |-> [target |-> IF output = None THEN None
                                           ELSE <<output, tracker.loaded.source[2]>>,
                                overwrite |-> overwrite]])
  BY DEF SaveTracker
<1>7. shown.path = tracker.path /\ shown.origin = tracker.origin /\ shown.unread = tracker.unread
      /\ shown.view = [trackers |-> list] /\ output \in Dirs \cup {None}
  BY <1>3 DEF TrackerPages
<1>8. TaskOK(task', modify.loaded, tracker.loaded) /\ BatchOK(task', files)
  <2>1. CASE tracker.folder # None
    <3> DEFINE folder == tracker.folder
               names == <<>>
               none == {}
               zero == 0
               j == [actions |-> actions, dry |-> dry, shown |-> shown, output |-> output,
                     overwrite |-> overwrite, folder |-> folder, names |-> names,
                     next |-> zero, failures |-> none, disturbed |-> FALSE]
               kind == "batch"
    <3>1. StartTask(kind, j) /\ kind \in TaskKinds /\ kind \notin LoadKinds
          /\ kind # "load_folder" /\ kind # "save_tracker" /\ kind # "save_modify"
      BY <1>6, <2>1 DEF TaskKinds, LoadKinds
    <3>2. folder \in Dirs /\ names \in Seq(Names) /\ none \in SUBSET Names /\ zero \in Nat /\ zero = 0
      BY <1>3, <2>1 DEF TrackerPages
    <3>3. actions = <<Act("trackers", actions[1].value)>> /\ actions[1].value \in Lists
      BY <1>4, <1>5
    <3>4. (shown.path = shown.origin \/ shown.unread) /\ shown.view = [trackers |-> actions[1].value]
      BY <1>3, <1>5, <1>7, <2>1
    <3> HIDE DEF actions, shown, output, folder, names, none, zero, kind, list
    <3>5. /\ j \in [actions : Seq(Actions), dry : BOOLEAN, shown : {j.shown}, folder : Dirs,
                    output : Dirs \cup {None}, overwrite : BOOLEAN, names : Seq(Names), next : Nat,
                    failures : SUBSET Names, disturbed : BOOLEAN]
          /\ j.shown = shown /\ j.actions = actions /\ j.next = zero
      BY <1>5, <1>7, <3>2
    <3> HIDE DEF j
    <3>6. BatchJob(j) /\ j.next = 0
      BY <3>2, <3>3, <3>4, <3>5 DEF BatchJob
    <3> QED BY <3>1, <3>6, Begun
  <2>2. CASE tracker.folder = None
    <3> DEFINE kl == tracker.loaded
               target == IF output = None THEN None ELSE <<output, kl.source[2]>>
               request == [target |-> target, overwrite |-> overwrite]
               j == [actions |-> actions, dry |-> dry, shown |-> shown, request |-> request]
               kind == "save_tracker"
    <3>1. kl # None /\ StartTask(kind, j) /\ kind \in TaskKinds /\ kind \notin LoadKinds
          /\ kind # "load_folder" /\ kind # "batch" /\ kind # "save_modify"
      BY <1>6, <2>2 DEF TaskKinds, LoadKinds
    <3>2. kl \in Snapshots
      BY <1>3, <3>1 DEF WellOr
    <3>3. kl.source \in Paths
      BY <3>2 DEF Snapshots
    <3>4. target \in Paths \cup {None}
      BY <1>7, <3>3 DEF Paths
    <3>5. request \in Requests
      <4> HIDE DEF target
      <4> QED BY <3>4 DEF Requests
    <3> DEFINE v == View(kl.document)
               asked == Requested(v, kl.original, actions)
    <3>6. asked.trackers = list
      <4>1. DOMAIN v = ViewFields
        BY ViewDomain
      <4>2. actions = <<Act("trackers", list)>>
        OBVIOUS
      <4> HIDE DEF v, list, actions
      <4> QED BY <1>4, <4>1, <4>2, RequestedList
    <3>7. "trackers" \in ViewFields
      BY DEF ViewFields
    <3>8. \A f \in DOMAIN shown.view : f \in ViewFields /\ asked[f] = shown.view[f]
      <4>1. shown.view = [trackers |-> list]
        BY <1>7
      <4> HIDE DEF asked, list, shown
      <4> QED BY <3>6, <3>7, <4>1
    <3>9. shown.path = shown.origin \/ shown.unread
      BY <1>3, <1>7, <3>1
    <3> HIDE DEF actions, shown, output, target, request, kind, list
    <3>10. /\ j \in [actions : Seq(Actions), dry : BOOLEAN, shown : {j.shown}, request : Requests]
           /\ j.shown = shown /\ j.actions = actions
      BY <1>5, <3>5
    <3> HIDE DEF j
    <3>11. AsksShown(j, kl)
      BY <3>8, <3>9, <3>10 DEF AsksShown
    <3> HIDE DEF kl
    <3>12. TaskOK(task', modify.loaded, kl) /\ BatchOK(task', files)
      BY <3>1, <3>10, <3>11, Begun
    <3> QED BY <3>12 DEF kl
  <2> QED BY <2>1, <2>2
<1> QED BY <1>1, <1>2, <1>8, QuietStep

-----------------------------------------------------------------------------
(* What is written *)

AsShown(asked, shown) ==
    /\ shown.path = shown.origin \/ shown.unread
    /\ \A f \in DOMAIN shown.view : asked[f] = shown.view[f]

LEMMA ViewTrackers ==
  ASSUME NEW torrent, NEW mode, NEW d, d = decode_torrent(torrent, mode)
  PROVE  View(d).trackers = read_trackers(torrent)
<1>1. d.trackers = read_trackers(torrent)
  BY DEF decode_torrent
<1>2. View(d).trackers = d.trackers
  BY DEF View
<1> QED BY <1>1, <1>2

\* An edit that was applied is saved: the file that is written is as good as what is held.
LEMMA EditIsWritten ==
  ASSUME Sound, NEW loaded \in Snapshots, Well(loaded), NEW actions \in Seq(Actions),
         NEW new, EditedBy(new, loaded, actions), NEW request \in Requests,
         NEW saved, saved = save(new, request), saved # Refused,
         NEW by, NEW shown, Write(loaded, saved, by, actions, shown),
         by # "cli" => AsShown(Requested(View(loaded.document), loaded.original, actions), shown)
  PROVE  /\ files' = [files EXCEPT ![saved.source] = saved.original]
         /\ files' \in [Paths -> Files] /\ WrittenOK(written')
         /\ saved \in Snapshots /\ Well(saved) /\ saved # loaded
<1> DEFINE asked == Requested(View(loaded.document), loaded.original, actions)
           w == written'
<1>1. /\ saved \in Snapshots /\ Well(saved) /\ saved # loaded
      /\ saved.document.mode = loaded.document.mode /\ View(saved.document) = asked
  BY Saved
<1>2. /\ files' = [files EXCEPT ![saved.source] = saved.original]
      /\ w = [torrent |-> saved.original, before |-> loaded.original,
              mode |-> loaded.document.mode, actions |-> actions, by |-> by, shown |-> shown]
  BY <1>1 DEF Write
<1>3. files' \in [Paths -> Files]
  <2>1. saved.original \in Files /\ files \in [Paths -> Files]
    BY <1>1, Parts, SnapshotFields DEF SnapshotTypes, Files
  <2> QED BY <1>2, <2>1
<1>4. /\ w.torrent = saved.original /\ w.before = loaded.original /\ w.mode = loaded.document.mode
      /\ w.actions = actions /\ w.by = by /\ w.shown = shown
  BY <1>2
<1> HIDE DEF w
<1>5. Reopened(w) /\ RestKept(w)
  BY <1>4, SavedWell
<1>6. View(decode_torrent(w.torrent, w.mode)) = asked
  <2>1. View(decode_torrent(saved.original, saved.document.mode)) = View(saved.document)
    BY <1>1 DEF Well
  <2> QED BY <1>1, <1>4, <2>1
<1> HIDE DEF asked
<1>7. ShownOK(w)
  <2>1. by # "cli" => AsShown(asked, shown)
    BY DEF asked
  <2> QED BY <1>4, <1>6, <2>1 DEF ShownOK, AsShown
<1>8. WrittenOK(w)
  BY <1>5, <1>7 DEF WrittenOK
<1> QED BY <1>1, <1>2, <1>3, <1>8 DEF w

-----------------------------------------------------------------------------
(* The workers that save what a page shows *)

LEMMA SoundEditWorker ==
  ASSUME Sound, NEW kind \in {"save_modify", "save_tracker"},
         NEW loaded, loaded = IF kind = "save_modify" THEN modify.loaded ELSE tracker.loaded,
         EditWorker(kind, loaded)
  PROVE  Sound'
<1>1. /\ files \in [Paths -> Files] /\ steps \in 0 .. MaxSteps
      /\ InspectOK(inspect) /\ ModifyOK(modify) /\ TrackerOK(tracker) /\ CliOK(cli)
      /\ TaskOK(task, modify.loaded, tracker.loaded)
  BY Parts
<1>2. inspect' = inspect /\ modify' = modify /\ tracker' = tracker /\ cli' = cli /\ steps' = steps
  BY DEF EditWorker, pages
<1>3. task # None /\ task.kind = kind /\ ~task.done
  BY DEF EditWorker, Works
<1>4. TaskShape(task) /\ SaveOK(task, loaded)
  BY <1>1, <1>3 DEF TaskOK
<1>5. loaded \in Snapshots /\ Well(loaded)
  BY <1>1, <1>4 DEF SaveOK, ModifyOK, TrackerOK, WellOr
<1>6. job.actions \in Seq(Actions) /\ job.request \in Requests /\ AsksShown(job, loaded)
  BY <1>3, <1>4 DEF SaveOK, job
<1> DEFINE actions == job.actions
           shown == job.shown
           edited == edit(loaded, actions)
           stops == edited = Refused \/ task.cancelled \/ job.dry \/ edited.disposition # "Applied"
<1>7. PICK fails \in BOOLEAN :
        \E saved \in {IF stops \/ fails THEN Refused ELSE save(edited.loaded, job.request)} :
          Done(saved) /\ Write(loaded, saved, kind, actions, shown)
  BY DEF EditWorker
<1> DEFINE saved == IF stops \/ fails THEN Refused ELSE save(edited.loaded, job.request)
<1>8. Done(saved) /\ Write(loaded, saved, kind, actions, shown)
  BY <1>7
<1>9. /\ files' \in [Paths -> Files] /\ WrittenOK(written')
      /\ saved = Refused \/ (saved \in Snapshots /\ Well(saved))
  <2>1. CASE saved = Refused
    <3>1. Quiet
      BY <1>8, <2>1 DEF Write
    <3> QED BY <2>1, <3>1, QuietKeeps
  <2>2. CASE saved # Refused
    <3>1. edited # Refused /\ edited.disposition = "Applied" /\ saved = save(edited.loaded, job.request)
      BY <1>8, <2>2
    <3> HIDE DEF edited
    <3>2. EditedBy(edited.loaded, loaded, actions)
      BY <1>5, <1>6, <3>1, EditDoesWhatWasAsked DEF edited
    <3>3. AsShown(Requested(View(loaded.document), loaded.original, actions), shown)
      BY <1>6 DEF AsksShown, AsShown
    <3> DEFINE new == edited.loaded
               request == job.request
    <3>4. EditedBy(new, loaded, actions) /\ saved = save(new, request) /\ request \in Requests
      BY <1>6, <3>1, <3>2
    <3>5. actions \in Seq(Actions)
      BY <1>6
    <3>6. Write(loaded, saved, kind, actions, shown)
      BY <1>8
    <3> HIDE DEF new, request, actions, shown
    <3> QED BY <1>5, <2>2, <3>3, <3>4, <3>5, <3>6, EditIsWritten
  <2> QED BY <2>1, <2>2
<1> HIDE DEF actions, shown, edited, stops
<1> DEFINE t == task'
<1>10. t = [task EXCEPT !.done = TRUE, !.result = saved]
  BY <1>8 DEF Done
<1> HIDE DEF t
<1>11. TaskShape(t) /\ t.kind = kind /\ SaveOK(t, loaded)
  <2>1. t.kind = task.kind /\ t.job = task.job /\ t.done /\ t.result = saved /\ TaskShape(t)
    BY <1>4, <1>10 DEF TaskShape
  <2> QED BY <1>3, <1>4, <1>9, <2>1 DEF SaveOK
<1>12. TaskOK(t, modify.loaded, tracker.loaded) /\ BatchOK(t, files')
  BY <1>11 DEF TaskOK, BatchOK, LoadKinds
<1> QED BY <1>1, <1>2, <1>9, <1>12, Together DEF t

LEMMA SoundSaveWorkers ==
  ASSUME Sound, SaveModifyWorker \/ SaveTrackerWorker
  PROVE  Sound'
<1>1. CASE SaveModifyWorker
  <2> DEFINE kind == "save_modify" loaded == modify.loaded
  <2>1. kind \in {"save_modify", "save_tracker"} /\ EditWorker(kind, loaded)
        /\ loaded = IF kind = "save_modify" THEN modify.loaded ELSE tracker.loaded
    BY <1>1 DEF SaveModifyWorker
  <2> HIDE DEF kind, loaded
  <2> QED BY <2>1, SoundEditWorker
<1>2. CASE SaveTrackerWorker
  <2> DEFINE kind == "save_tracker" loaded == tracker.loaded
  <2>1. kind \in {"save_modify", "save_tracker"} /\ EditWorker(kind, loaded)
        /\ loaded = IF kind = "save_modify" THEN modify.loaded ELSE tracker.loaded
    BY <1>2 DEF SaveTrackerWorker
  <2> HIDE DEF kind, loaded
  <2> QED BY <2>1, SoundEditWorker
<1> QED BY <1>1, <1>2

-----------------------------------------------------------------------------
(* The batch goes on *)

\* Another torrent of the folder is dealt with: what was converted before stays so.
LEMMA FolderGoesOn ==
  ASSUME NEW f \in [Paths -> Files], NEW g, NEW j, BatchJob(j), SoFarDone(f, j),
         NEW next \in DOMAIN j.names, j.next = next,
         NEW j2, j2.names = j.names, j2.next = next + 1, j2.folder = j.folder, j2.output = j.output,
         j2.actions = j.actions, j.failures \subseteq j2.failures,
         NEW target \in Paths, NEW torrent \in Torrents,
         g = f \/ g = [f EXCEPT ![target] = torrent],
         target = <<j.folder, j.names[next]>> \/ (j.output # None /\ target = <<j.output, j.names[next]>>),
         f[<<j.folder, j.names[next]>>] # None,
         j.names[next] \in j2.failures \/ Converts(g, j.names[next], j2)
  PROVE  SoFarDone(g, j2)
<1> DEFINE name == j.names[next]
<1>1. /\ j.names \in Seq(Names) /\ j.folder \in Dirs /\ j.output \in Dirs \cup {None} /\ j.next \in Nat
  BY DEF BatchJob
<1>2. name \in Names /\ DOMAIN j.names \subseteq Int
  BY <1>1
<1>3. ASSUME NEW path \in Paths, path # target PROVE g[path] = f[path]
  BY <1>3
<1>4. None \notin Torrents
  BY MetadataAssumption
<1>5. f[target] # None \/ target # <<j.folder, name>>
  OBVIOUS
<1>6. ASSUME NEW n \in Names PROVE g[<<j.folder, n>>] # None <=> f[<<j.folder, n>>] # None
  <2> DEFINE path == <<j.folder, n>>
  <2>1. path \in Paths
    BY <1>1 DEF Paths
  <2>2. CASE path # target
    BY <1>3, <2>1, <2>2
  <2>3. CASE path = target
    <3>1. f[path] # None
      <4>1. CASE target = <<j.folder, name>>
        BY <2>3, <4>1
      <4>2. CASE j.output # None /\ target = <<j.output, name>>
        <5>1. j.output = j.folder /\ n = name
          BY <2>3, <4>2
        <5> QED BY <5>1
      <4> QED BY <4>1, <4>2
    <3>2. g = f \/ g[path] = torrent
      BY <2>1, <2>3
    <3> HIDE DEF path
    <3>3. g[path] # None
      BY <1>4, <3>1, <3>2
    <3> QED BY <3>1, <3>3 DEF path
  <2> QED BY <2>2, <2>3
<1>7. ToSet(j2.names) = {n \in Names : g[<<j2.folder, n>>] # None}
  <2>1. ToSet(j.names) = {n \in Names : f[<<j.folder, n>>] # None}
    BY DEF SoFarDone
  <2> QED BY <1>6, <2>1
<1>8. IsInjective(j2.names)
  BY DEF SoFarDone
<1>9. ASSUME NEW k \in DOMAIN j2.names, k < j2.next
      PROVE  j2.names[k] \in j2.failures \/ Converts(g, j2.names[k], j2)
  <2>1. k \in DOMAIN j.names /\ k \in Int /\ next \in Int /\ (k < next \/ k = next)
    <3>1. k \in DOMAIN j.names
      OBVIOUS
    <3>2. k \in Int /\ next \in Int
      BY <1>2, <3>1
    <3> QED BY <1>9, <3>1, <3>2
  <2>2. CASE k = next
    BY <2>2
  <2>3. CASE k < next
    <3> DEFINE old == j.names[k]
    <3>1. old \in Names /\ old # name
      <4>1. k # next
        BY <2>1, <2>3
      <4>2. IsInjective(j.names)
        BY DEF SoFarDone
      <4> QED BY <1>1, <2>1, <4>1, <4>2 DEF IsInjective
    <3>2. old \in j.failures \/ Converts(f, old, j)
      BY <2>1, <2>3 DEF SoFarDone
    <3>3. <<j.folder, old>> \in Paths /\ <<j.folder, old>> # target
      BY <1>1, <3>1 DEF Paths
    <3>4. j.output # None => <<j.output, old>> \in Paths /\ <<j.output, old>> # target
      BY <1>1, <3>1 DEF Paths
    <3>5. g[<<j.folder, old>>] = f[<<j.folder, old>>]
      BY <1>3, <3>3
    <3>6. j.output # None => g[<<j.output, old>>] = f[<<j.output, old>>]
      BY <1>3, <3>4
    <3> HIDE DEF old
    <3>7. Converts(f, old, j) => Converts(g, old, j2)
      BY <3>5, <3>6 DEF Converts, Has
    <3>8. old \in j2.failures \/ Converts(g, old, j2)
      BY <3>2, <3>7
    <3> QED BY <3>8 DEF old
  <2> QED BY <2>1, <2>2, <2>3
<1> QED BY <1>7, <1>8, <1>9 DEF SoFarDone

\* What comes of one torrent of the folder.
LEMMA ConvertedFacts ==
  ASSUME Sound, NEW j, j = job, BatchJob(j), NEW loaded \in Snapshots, Well(loaded),
         loaded.document.mode = "lenient", loaded.original = files[loaded.source],
         NEW request \in Requests, NEW fails \in BOOLEAN,
         NEW saved, saved = Converted(loaded, request, fails), saved # Refused,
         Write(loaded, saved, "batch", j.actions, j.shown)
  PROVE  \/ saved = loaded /\ Quiet /\ (~j.dry => Has(files, loaded.source, j))
         \/ /\ saved \in Snapshots /\ saved.source = TargetOf(loaded, request)
            /\ files' = [files EXCEPT ![saved.source] = saved.original]
            /\ files' \in [Paths -> Files] /\ WrittenOK(written')
            /\ Has(files', saved.source, j)
<1> DEFINE actions == j.actions
           list == actions[1].value
           shown == j.shown
           edited == edit(loaded, actions)
           asked == Requested(View(loaded.document), loaded.original, actions)
<1>1. list \in Lists /\ actions = <<Act("trackers", list)>> /\ actions \in Seq(Actions)
  BY DEF BatchJob
<1>2. asked.trackers = list
  <2> DEFINE v == View(loaded.document)
  <2>1. DOMAIN v = ViewFields
    BY ViewDomain
  <2>2. list \in Lists /\ actions = <<Act("trackers", list)>>
    BY <1>1
  <2> HIDE DEF v, list, actions
  <2> QED BY <2>1, <2>2, RequestedList DEF v
<1>3. edited # Refused
  BY DEF Converted
<1> HIDE DEF edited
<1>4. \/ edited.disposition = "NoChange" /\ edited.loaded = loaded /\ asked = View(loaded.document)
      \/ edited.disposition = "Applied" /\ EditedBy(edited.loaded, loaded, actions)
  BY <1>1, <1>3, EditDoesWhatWasAsked DEF edited
<1>5. CASE j.dry \/ edited.disposition # "Applied"
  <2>1. saved = loaded
    BY <1>3, <1>5 DEF Converted, edited
  <2>2. Quiet
    BY <2>1 DEF Write
  <2>3. ASSUME ~j.dry PROVE Has(files, loaded.source, j)
    <3>1. View(loaded.document).trackers = list
      BY <1>2, <1>4, <1>5, <2>3
    <3> DEFINE t == loaded.original
               d == decode_torrent(t, "lenient")
    <3>2. View(d).trackers = View(loaded.document).trackers /\ Loads(t, "lenient")
      BY DEF Well
    <3> HIDE DEF d
    <3>3. read_trackers(t) = list
      BY <3>1, <3>2, ViewTrackers DEF d
    <3> QED BY <3>2, <3>3 DEF Has
  <2> QED BY <2>1, <2>2, <2>3
<1>6. CASE ~(j.dry \/ edited.disposition # "Applied")
  <2> DEFINE new == edited.loaded
  <2>1. EditedBy(new, loaded, actions) /\ saved = save(new, request)
    BY <1>3, <1>4, <1>6 DEF Converted, edited
  <2>2. AsShown(asked, shown)
    <3>1. (shown.path = shown.origin \/ shown.unread) /\ shown.view = [trackers |-> list]
      BY DEF BatchJob
    <3> HIDE DEF asked, shown, list
    <3> QED BY <1>2, <3>1 DEF AsShown
  <2>3. Write(loaded, saved, "batch", actions, shown) /\ actions \in Seq(Actions)
    BY <1>1
  <2> DEFINE by == "batch"
  <2>4. Write(loaded, saved, by, actions, shown)
    BY <2>3
  <2>5. AsShown(Requested(View(loaded.document), loaded.original, actions), shown)
    BY <2>2
  <2> HIDE DEF new, actions, shown, by, list
  <2>6. /\ files' = [files EXCEPT ![saved.source] = saved.original]
        /\ files' \in [Paths -> Files] /\ WrittenOK(written')
        /\ saved \in Snapshots /\ Well(saved)
    BY <2>1, <2>3, <2>4, <2>5, EditIsWritten
  <2>7. /\ saved.source = TargetOf(loaded, request) /\ saved.document.mode = "lenient"
        /\ View(saved.document) = Requested(View(loaded.document), loaded.original, actions)
    BY <2>1, <2>3, Saved
  <2>8. saved.source \in Paths
    BY <2>6, SnapshotFields DEF SnapshotTypes
  <2>9. files'[saved.source] = saved.original
    BY <2>6, <2>8, Parts
  <2> DEFINE t == saved.original
             d == decode_torrent(t, "lenient")
  <2>10. Loads(t, "lenient") /\ View(d) = View(saved.document)
    BY <2>6, <2>7 DEF Well
  <2> HIDE DEF d, asked
  <2>11. read_trackers(t) = list
    <3>1. View(d).trackers = read_trackers(t)
      BY ViewTrackers DEF d
    <3>2. View(d) = asked
      BY <2>7, <2>10 DEF asked
    <3> QED BY <1>2, <3>1, <3>2
  <2>12. Has(files', saved.source, j)
    BY <2>9, <2>10, <2>11 DEF Has, list, actions
  <2> QED BY <2>6, <2>7, <2>12
<1> QED BY <1>5, <1>6

-----------------------------------------------------------------------------
(* The batch deals with one torrent *)

LEMMA TorrentExists == Torrents # {}
<1> DEFINE info == [name |-> None, private |-> None, source |-> None, sorted |-> TRUE]
           t == [announce |-> None, announce_list |-> None, comment |-> None, creator |-> None,
                 date |-> None, url_list |-> None, httpseeds |-> None, source |-> None,
                 unknown |-> FALSE, info |-> info]
<1>1. info \in [name : Keys, private : Int \cup {None}, source : Keys, sorted : BOOLEAN]
  BY DEF Keys
<1> HIDE DEF info
<1>2. t \in Torrents
  BY <1>1 DEF Torrents, Keys, StringLists
<1> QED BY <1>2

LEMMA SoundBatchFile ==
  ASSUME Sound, BatchFile
  PROVE  Sound'
<1>1. /\ files \in [Paths -> Files] /\ steps \in 0 .. MaxSteps
      /\ InspectOK(inspect) /\ ModifyOK(modify) /\ TrackerOK(tracker) /\ CliOK(cli)
      /\ TaskOK(task, modify.loaded, tracker.loaded) /\ BatchOK(task, files)
  BY Parts
<1>2. inspect' = inspect /\ modify' = modify /\ tracker' = tracker /\ cli' = cli /\ steps' = steps
  BY DEF BatchFile, pages
<1>3. task # None /\ task.kind = "batch" /\ ~task.done /\ job.next \in DOMAIN job.names
  BY DEF BatchFile, Works
<1>4. TaskShape(task) /\ BatchTask(task) /\ BatchJob(job)
  BY <1>1, <1>3 DEF TaskOK, BatchTask, job
<1> DEFINE j == task.job
           next == j.next
           name == j.names[next]
           path == <<j.folder, name>>
           request == [target |-> IF j.output = None THEN None ELSE <<j.output, name>>,
                       overwrite |-> j.overwrite]
           loads == Loads(files[path], "lenient")
           loaded == IF loads THEN LoadFrom(path, "lenient") ELSE Refused
<1>5. /\ j = job /\ BatchJob(j) /\ next \in DOMAIN j.names /\ next \in Nat /\ j.folder \in Dirs
      /\ j.output \in Dirs \cup {None} /\ j.names \in Seq(Names) /\ j.failures \in SUBSET Names
      /\ j.overwrite \in BOOLEAN /\ j.disturbed \in BOOLEAN
  BY <1>3, <1>4 DEF BatchJob, job
<1>6. name \in Names /\ path \in Paths
  BY <1>5 DEF Paths
<1>7. request \in Requests
  <2> DEFINE target == IF j.output = None THEN None ELSE <<j.output, name>>
  <2>1. target \in Paths \cup {None}
    BY <1>5, <1>6 DEF Paths
  <2> HIDE DEF target, name
  <2> QED BY <1>5, <2>1 DEF Requests, target
<1>8. PICK fails \in BOOLEAN :
        \E saved \in {IF loads THEN Converted(loaded, request, fails) ELSE Refused} :
          /\ task' = [task EXCEPT !.job.next = @ + 1,
                        !.job.failures = IF saved = Refused THEN @ \cup {name} ELSE @]
          /\ Write(loaded, saved, "batch", j.actions, j.shown)
  BY DEF BatchFile, BatchPath, BatchRequest, job
<1> DEFINE saved == IF loads THEN Converted(loaded, request, fails) ELSE Refused
           failures == IF saved = Refused THEN j.failures \cup {name} ELSE j.failures
           t == task'
           new == GoesOn(j, j.names, next + 1, failures, j.disturbed)
<1>9. t = [task EXCEPT !.job = new] /\ Write(loaded, saved, "batch", j.actions, j.shown)
  <2>1. /\ t = [task EXCEPT !.job.next = @ + 1,
                  !.job.failures = IF saved = Refused THEN @ \cup {name} ELSE @]
        /\ Write(loaded, saved, "batch", j.actions, j.shown)
    BY <1>8
  <2>2. j \in [actions : Seq(Actions), dry : BOOLEAN, shown : {j.shown}, folder : Dirs,
               output : Dirs \cup {None}, overwrite : BOOLEAN, names : Seq(Names), next : Nat,
               failures : SUBSET Names, disturbed : BOOLEAN]
    BY <1>5 DEF BatchJob
  <2> HIDE DEF saved, name, t
  <2>3. t = [task EXCEPT !.job = [task.job EXCEPT !.next = @ + 1, !.failures = failures]]
    BY <1>4, <2>1 DEF TaskShape
  <2> HIDE DEF failures, j
  <2>4. [j EXCEPT !.next = @ + 1, !.failures = failures] = new
    BY <2>2 DEF GoesOn
  <2> QED BY <2>1, <2>3, <2>4 DEF j
<1>10. failures \in SUBSET Names /\ j.failures \subseteq failures
  BY <1>5, <1>6
<1>11. /\ BatchJob(new) /\ new.names = j.names /\ new.next = next + 1 /\ new.failures = failures
       /\ new.disturbed = j.disturbed /\ new.actions = j.actions /\ new.dry = j.dry
       /\ new.folder = j.folder /\ new.output = j.output
  <2> DEFINE names == j.names
             after == next + 1
             d == j.disturbed
             n == new
  <2>1. n = GoesOn(j, names, after, failures, d) /\ after \in Nat /\ names \in Seq(Names)
        /\ d \in BOOLEAN /\ BatchJob(j)
    BY <1>5
  <2> HIDE DEF n, names, after, d, failures, j
  <2>2. /\ BatchJob(n) /\ n.names = names /\ n.next = after /\ n.failures = failures
        /\ n.disturbed = d /\ n.actions = j.actions /\ n.dry = j.dry
        /\ n.folder = j.folder /\ n.output = j.output
    BY <1>10, <2>1, JobGoesOn
  <2> QED BY <2>2 DEF n, names, after, d
<1> HIDE DEF new, t
<1>12. TaskShape(t) /\ t.job = new /\ t.kind = "batch" /\ t.done = FALSE /\ t.result = task.result
  BY <1>3, <1>4, <1>9 DEF TaskShape
<1>13. task.result = Refused
  BY <1>3, <1>4, <1>5 DEF BatchTask
<1>14. TaskOK(t, modify.loaded, tracker.loaded)
  BY <1>11, <1>12, <1>13 DEF TaskOK, BatchTask, LoadKinds
<1>15. ASSUME loads
       PROVE  /\ loaded \in Snapshots /\ Well(loaded) /\ loaded.document.mode = "lenient"
              /\ loaded.source = path /\ loaded.original = files[path]
  <2> DEFINE f == files[path]
             mode == "lenient"
  <2>1. f \in Files /\ Loads(f, mode) /\ mode \in Modes
    BY <1>1, <1>6, <1>15 DEF Modes
  <2>2. loaded = [document |-> decode_torrent(f, mode), source |-> path, original |-> f]
    BY <1>15 DEF LoadFrom
  <2> HIDE DEF loaded, f, mode, path
  <2>3. loaded \in Snapshots /\ Well(loaded)
    BY <1>6, <2>1, <2>2, LoadedWell
  <2>4. loaded.document.mode = mode
    BY <2>2 DEF decode_torrent
  <2> QED BY <2>2, <2>3, <2>4 DEF f, mode
<1>16. /\ files' \in [Paths -> Files] /\ WrittenOK(written')
       /\ ~j.dry /\ ~j.disturbed /\ SoFarDone(files, j) => SoFarDone(files', new)
  <2>1. SoFarDone(files, j) => files[path] # None
    <3>1. SoFarDone(files, j) => ToSet(j.names) = {n \in Names : files[<<j.folder, n>>] # None}
      BY DEF SoFarDone
    <3>2. name \in ToSet(j.names)
      BY <1>5 DEF ToSet
    <3> HIDE DEF j, name
    <3> QED BY <3>1, <3>2
  <2> DEFINE goes(target, torrent) ==
               /\ target \in Paths /\ torrent \in Torrents
               /\ target = path \/ (j.output # None /\ target = <<j.output, name>>)
               /\ files' = files \/ files' = [files EXCEPT ![target] = torrent]
               /\ name \in failures \/ Converts(files', name, new)
  <2>2. ASSUME NEW target, NEW torrent, goes(target, torrent), SoFarDone(files, j)
        PROVE  SoFarDone(files', new)
    <3> DEFINE f == files
               g == files'
    <3>1. /\ f \in [Paths -> Files] /\ BatchJob(j) /\ SoFarDone(f, j) /\ next \in DOMAIN j.names
          /\ j.next = next
      BY <1>1, <1>5, <2>2
    <3>2. /\ new.names = j.names /\ new.next = next + 1 /\ new.folder = j.folder
          /\ new.output = j.output /\ new.actions = j.actions /\ j.failures \subseteq new.failures
      BY <1>10, <1>11
    <3>3. /\ target \in Paths /\ torrent \in Torrents /\ (g = f \/ g = [f EXCEPT ![target] = torrent])
      BY <2>2
    <3>4. target = <<j.folder, j.names[next]>> \/ (j.output # None /\ target = <<j.output, j.names[next]>>)
      BY <2>2
    <3>5. f[<<j.folder, j.names[next]>>] # None
      BY <2>1, <2>2
    <3>6. j.names[next] \in new.failures \/ Converts(g, j.names[next], new)
      BY <1>11, <2>2
    <3> HIDE DEF f, g, j, next
    <3>7. SoFarDone(g, new)
      BY <3>1, <3>2, <3>3, <3>4, <3>5, <3>6, FolderGoesOn
    <3> QED BY <3>7 DEF g
  <2>3. CASE saved = Refused
    <3>1. Quiet
      BY <1>9, <2>3 DEF Write
    <3>2. files' \in [Paths -> Files] /\ WrittenOK(written') /\ files' = files
      BY <3>1, QuietKeeps
    <3>3. name \in failures
      BY <2>3
    <3>4. ASSUME SoFarDone(files, j) PROVE SoFarDone(files', new)
      <4>2. PICK torrent \in Torrents : TRUE
        BY TorrentExists
      <4>3. goes(path, torrent)
        BY <1>6, <3>2, <3>3, <4>2
      <4> HIDE DEF goes
      <4> QED BY <2>2, <3>4, <4>3
    <3> QED BY <3>2, <3>4
  <2>4. CASE saved # Refused
    <3>1. loads /\ saved = Converted(loaded, request, fails)
      BY <2>4
    <3>2. /\ loaded \in Snapshots /\ Well(loaded) /\ loaded.document.mode = "lenient"
          /\ loaded.source = path /\ loaded.original = files[path]
      BY <1>15, <3>1
    <3>3. loaded.original = files[loaded.source]
      BY <3>2
    <3>4. saved # Refused /\ Write(loaded, saved, "batch", j.actions, j.shown) /\ j = job /\ BatchJob(j)
      BY <1>5, <1>9, <2>4
    <3> DEFINE s == saved
               l == loaded
               r == request
    <3>5. /\ s = Converted(l, r, fails) /\ s # Refused /\ Write(l, s, "batch", j.actions, j.shown)
          /\ l \in Snapshots /\ Well(l) /\ l.document.mode = "lenient" /\ l.original = files[l.source]
          /\ r \in Requests /\ j = job /\ BatchJob(j) /\ l.source = path
      BY <1>7, <3>1, <3>2, <3>3, <3>4
    <3> HIDE DEF s, l, r, j, path
    <3>6. \/ s = l /\ Quiet /\ (~j.dry => Has(files, l.source, j))
          \/ /\ s \in Snapshots /\ s.source = TargetOf(l, r)
             /\ files' = [files EXCEPT ![s.source] = s.original]
             /\ files' \in [Paths -> Files] /\ WrittenOK(written')
             /\ Has(files', s.source, j)
      BY <3>5, ConvertedFacts
    <3>7. \A g, p : Has(g, p, new) <=> Has(g, p, j)
      BY <1>11 DEF Has, j
    <3>8. CASE s = l /\ Quiet /\ (~j.dry => Has(files, l.source, j))
      <4>1. files' \in [Paths -> Files] /\ WrittenOK(written') /\ files' = files
        BY <3>8, QuietKeeps
      <4>2. l.original \in Torrents
        BY <3>5, SnapshotFields DEF SnapshotTypes
      <4>3. ASSUME ~j.dry PROVE Converts(files', name, new)
        <5>1. Has(files', path, new)
          BY <3>5, <3>7, <3>8, <4>1, <4>3
        <5>2. path = <<new.folder, name>>
          BY <1>11 DEF path, j
        <5> HIDE DEF name
        <5> QED BY <5>1, <5>2 DEF Converts
      <4>4. ASSUME ~j.dry PROVE goes(path, l.original)
        BY <1>6, <4>1, <4>2, <4>3, <4>4 DEF path, j
      <4> HIDE DEF goes
      <4>5. ~j.dry /\ SoFarDone(files, j) => SoFarDone(files', new)
        BY <2>2, <4>4 DEF j
      <4> QED BY <4>1, <4>5 DEF j
    <3>9. CASE /\ s \in Snapshots /\ s.source = TargetOf(l, r)
               /\ files' = [files EXCEPT ![s.source] = s.original]
               /\ files' \in [Paths -> Files] /\ WrittenOK(written')
               /\ Has(files', s.source, j)
      <4>1. s.original \in Torrents /\ s.source \in Paths
        BY <3>9, SnapshotFields DEF SnapshotTypes
      <4>2. s.source = path \/ (j.output # None /\ s.source = <<j.output, name>>)
        <5>1. r.target = IF j.output = None THEN None ELSE <<j.output, name>>
          BY DEF r, j
        <5> HIDE DEF name
        <5> QED BY <3>5, <3>9, <5>1 DEF TargetOf
      <4>3. Converts(files', name, new)
        <5>1. Has(files', s.source, new)
          BY <3>7, <3>9
        <5>2. path = <<new.folder, name>> /\ new.output = j.output
          BY <1>11 DEF path, j
        <5> HIDE DEF name
        <5> QED BY <4>2, <5>1, <5>2 DEF Converts
      <4>4. goes(s.source, s.original)
        BY <3>9, <4>1, <4>2, <4>3 DEF path, j
      <4> HIDE DEF goes
      <4>5. SoFarDone(files, j) => SoFarDone(files', new)
        BY <2>2, <4>4 DEF j
      <4> QED BY <3>9, <4>5 DEF j
    <3> QED BY <3>6, <3>8, <3>9 DEF j
  <2> QED BY <2>3, <2>4
<1>17. BatchOK(t, files')
  <2>1. SUFFICES ASSUME ~new.dry, ~new.disturbed PROVE SoFarDone(files', new)
    BY <1>12 DEF BatchOK
  <2>2. next > 0
    BY <1>5
  <2>3. SoFarDone(files, j)
    BY <1>1, <1>3, <1>11, <2>1, <2>2 DEF BatchOK
  <2> QED BY <1>11, <1>16, <2>1, <2>3
<1> QED BY <1>1, <1>2, <1>14, <1>16, <1>17, Together DEF t

-----------------------------------------------------------------------------
(* Command lines *)

LEMMA CommandKinds ==
  ASSUME NEW command \in CliCommands
  PROVE  /\ command.path \in Paths /\ command.dry \in BOOLEAN
         /\ \/ command.kind \in {"metadata", "client"} /\ command.actions \in Seq(Actions)
            \/ command.kind = "add" /\ command.tier \in Int /\ command.url \in Trackers
            \/ command.kind = "remove" /\ command.tier \in Int /\ command.index \in Int
            \/ command.kind = "replace" /\ command.entries \in Seq(Int \X Trackers)
<1> DEFINE A == Seq(Actions) E == Seq(Int \X Trackers)
<1>1. command \in [kind : {"metadata", "client"}, path : Paths, dry : BOOLEAN, actions : A] \cup
         [kind : {"add"}, path : Paths, dry : BOOLEAN, tier : Int, url : Trackers] \cup
         [kind : {"remove"}, path : Paths, dry : BOOLEAN, tier : Int, index : Int] \cup
         [kind : {"replace"}, path : Paths, dry : BOOLEAN, entries : E]
  BY DocumentAssumption
<1> HIDE DEF A, E
<1>2. /\ command.path \in Paths /\ command.dry \in BOOLEAN
      /\ \/ command.kind \in {"metadata", "client"} /\ command.actions \in A
         \/ command.kind = "add" /\ command.tier \in Int /\ command.url \in Trackers
         \/ command.kind = "remove" /\ command.tier \in Int /\ command.index \in Int
         \/ command.kind = "replace" /\ command.entries \in E
  BY <1>1
<1> QED BY <1>2 DEF A, E

\* What tracker replace is told makes a list.
LEMMA ReplaceType ==
  ASSUME NEW entries \in Seq(Int \X Trackers)
  PROVE  ReplaceList(entries) \in Lists
<1> DEFINE numbers == {entries[k][1] : k \in DOMAIN entries}
           urls == [k \in DOMAIN entries |-> entries[k][2]]
           n == Cardinality(numbers)
           I(t) == {k \in DOMAIN entries : entries[k][1] = Nth(numbers, t)}
<1>1. DOMAIN entries = 1 .. Len(entries) /\ Len(entries) \in Nat
      /\ \A k \in DOMAIN entries : entries[k] \in Int \X Trackers
  OBVIOUS
<1>2. numbers \subseteq Int /\ IsFiniteSet(numbers)
  <2>1. IsFiniteSet(1 .. Len(entries))
    BY <1>1, CardUpTo
  <2>2. IsFiniteSet(DOMAIN entries)
    BY <1>1, <2>1
  <2> DEFINE D == DOMAIN entries
             e == [k \in D |-> entries[k][1]]
  <2>3. e \in Surjection(D, numbers)
    BY DEF Surjection
  <2>4. IsFiniteSet(D)
    BY <2>2
  <2>5. numbers \subseteq Int
    BY <1>1
  <2> HIDE DEF D, e, numbers
  <2>6. IsFiniteSet(numbers)
    BY <2>3, <2>4, FS_Surjection
  <2> QED BY <2>5, <2>6
<1> HIDE DEF numbers
<1>3. n \in Nat /\ \A t \in 1 .. n : Nth(numbers, t) \in numbers
  BY <1>2, NthFacts
<1>4. ReplaceList(entries) = [t \in 1 .. n |-> CreateTier(Pick(urls, I(t)))]
  BY DEF ReplaceList, numbers
<1>5. \A k \in DOMAIN entries : urls[k] \in Trackers
  BY <1>1
<1>6. ASSUME NEW t \in 1 .. n PROVE CreateTier(Pick(urls, I(t))) \in Tiers
  <2>1. I(t) # {} /\ I(t) \subseteq DOMAIN entries
    <3>1. Nth(numbers, t) \in numbers
      BY <1>3
    <3>2. PICK k \in DOMAIN entries : Nth(numbers, t) = entries[k][1]
      BY <3>1 DEF numbers
    <3> QED BY <3>2
  <2> HIDE DEF urls, I
  <2>2. I(t) \subseteq Int /\ IsFiniteSet(I(t)) /\ EntriesIn(urls, I(t), Trackers)
    <3>1. IsFiniteSet(I(t)) /\ I(t) \subseteq Int
      BY <1>1, <2>1, DomainFinite
    <3> QED BY <1>5, <2>1, <3>1 DEF EntriesIn
  <2>3. Pick(urls, I(t)) \in Seq(Trackers) /\ Len(Pick(urls, I(t))) = Cardinality(I(t))
    BY <2>2, PickFacts
  <2>4. Cardinality(I(t)) # 0
    BY <2>1, <2>2, FS_EmptySet
  <2>5. Pick(urls, I(t)) # <<>>
    BY <2>3, <2>4
  <2> QED BY <2>3, <2>5, CreateTierType
<1> HIDE DEF n, urls, I
<1> DEFINE list == ReplaceList(entries)
<1>7. list \in [1 .. n -> Tiers]
  BY <1>4, <1>6
<1> HIDE DEF list
<1>8. list \in Lists
  BY <1>3, <1>7, SeqTyped DEF Lists
<1> QED BY <1>8 DEF list

LEMMA OneActionType ==
  ASSUME NEW action \in Actions
  PROVE  <<action>> \in Seq(Actions)
OBVIOUS

LEMMA CommandTyped ==
  ASSUME NEW command \in CliCommands, NEW loaded \in Snapshots,
         CliActions(command, loaded) # Refused
  PROVE  CliActions(command, loaded) \in Seq(Actions)
<1>1. CASE command.kind \in {"metadata", "client"}
  <2>1. CliActions(command, loaded) = command.actions
    BY <1>1 DEF CliActions
  <2> QED BY <1>1, <2>1, CommandKinds
<1>2. CASE command.kind = "add"
  <2> DEFINE list == loaded.document.trackers
             t == command.tier
             url == command.url
  <2>1. CliActions(command, loaded) = AddActions(list, t, url)
    BY <1>2 DEF CliActions
  <2>2. t \in Int /\ url \in Trackers
    BY <1>2, CommandKinds
  <2> HIDE DEF list, t, url
  <2>3. CASE t \in DOMAIN list
    <3>1. AddActions(list, t, url) = <<Act("add_to_tier", <<t, url>>)>>
      BY <2>3 DEF AddActions
    <3>2. Act("add_to_tier", <<t, url>>) \in Actions
      BY <2>2 DEF Act, Actions
    <3> QED BY <2>1, <3>1, <3>2, OneActionType
  <2>4. CASE t \notin DOMAIN list
    <3>1. AddActions(list, t, url) = <<Act("add_tier", <<url>>)>>
      BY <2>1, <2>4 DEF AddActions
    <3> DEFINE tier == <<url>>
    <3>2. tier \in Tiers
      <4>1. tier \in Seq(Trackers) /\ tier # <<>> /\ DOMAIN tier = {1}
        BY <2>2
      <4> QED BY <4>1 DEF Tiers
    <3> HIDE DEF tier
    <3>3. Act("add_tier", tier) \in Actions
      BY <3>2 DEF Act, Actions
    <3> QED BY <2>1, <3>1, <3>3, OneActionType DEF tier
  <2> QED BY <2>3, <2>4
<1>3. CASE command.kind = "remove"
  <2>1. CliActions(command, loaded) = <<Act("remove", <<command.tier, command.index>>)>>
    BY <1>3 DEF CliActions
  <2> DEFINE pair == <<command.tier, command.index>>
  <2>2. pair \in Int \X Int
    BY <1>3, CommandKinds
  <2> HIDE DEF pair
  <2>3. Act("remove", pair) \in Actions
    BY <2>2 DEF Act, Actions
  <2> QED BY <2>1, <2>3, OneActionType DEF pair
<1>4. CASE command.kind = "replace"
  <2> DEFINE list == ReplaceList(command.entries)
  <2>1. CliActions(command, loaded) = <<Act("trackers", list)>>
    BY <1>4 DEF CliActions
  <2>2. list \in Lists
    BY <1>4, CommandKinds, ReplaceType
  <2> HIDE DEF list
  <2>3. Act("trackers", list) \in Actions
    BY <2>2 DEF Act, Actions
  <2> QED BY <2>1, <2>3, OneActionType
<1> QED BY <1>1, <1>2, <1>3, <1>4, CommandKinds

LEMMA SoundCliLoad ==
  ASSUME Sound, NEW command \in CliCommands, CliLoad(command)
  PROVE  Sound'
<1>1. Step /\ Quiet /\ inspect' = inspect /\ modify' = modify /\ tracker' = tracker /\ task' = task
  BY DEF CliLoad, pages
<1>2. /\ InspectOK(inspect) /\ ModifyOK(modify) /\ TrackerOK(tracker) /\ files \in [Paths -> Files]
      /\ TaskOK(task, modify.loaded, tracker.loaded) /\ BatchOK(task, files)
  BY Parts
<1> DEFINE path == command.path
           f == files[path]
           mode == "lenient"
           loaded == LoadFrom(path, mode)
<1>3. path \in Paths
  BY CommandKinds
<1>4. f \in Files /\ Loads(f, mode) /\ mode \in Modes
  BY <1>2, <1>3 DEF CliLoad, Modes
<1>5. loaded = [document |-> decode_torrent(f, mode), source |-> path, original |-> f]
  BY DEF LoadFrom
<1>6. cli' = [command |-> command, loaded |-> loaded]
  BY DEF CliLoad
<1> HIDE DEF loaded, f, mode, path
<1>7. loaded \in Snapshots /\ Well(loaded)
  BY <1>3, <1>4, <1>5, LoadedWell
<1>8. CliOK(cli')
  BY <1>6, <1>7 DEF CliOK
<1> QED BY <1>1, <1>2, <1>8, QuietStep

LEMMA SoundCliSave ==
  ASSUME Sound, CliSave
  PROVE  Sound'
<1>1. /\ files \in [Paths -> Files] /\ steps \in 0 .. MaxSteps
      /\ InspectOK(inspect) /\ ModifyOK(modify) /\ TrackerOK(tracker) /\ CliOK(cli)
      /\ TaskOK(task, modify.loaded, tracker.loaded) /\ BatchOK(task, files)
  BY Parts
<1>2. /\ inspect' = inspect /\ modify' = modify /\ tracker' = tracker /\ steps' = steps
      /\ cli # None /\ cli' = None
  BY DEF CliSave, pages
<1> DEFINE command == cli.command
           loaded == cli.loaded
           actions == CliActions(command, loaded)
           edited == IF actions \in {Refused, <<>>} THEN Refused ELSE edit(loaded, actions)
           request == [target |-> None, overwrite |-> FALSE]
           saved == IF \/ edited = Refused \/ command.dry
                       \/ edited.disposition = "NeedRebuild"
                    THEN Refused
                    ELSE save(edited.loaded, request)
           t == task'
<1>3. command \in CliCommands /\ loaded \in Snapshots /\ Well(loaded)
  BY <1>1, <1>2 DEF CliOK
<1>4. /\ Write(loaded, saved, "cli", actions, None)
      /\ t = IF task # None /\ task.kind = "batch" /\ files' # files
             THEN [task EXCEPT !.job.disturbed = TRUE] ELSE task
  BY DEF CliSave
<1>5. request \in Requests
  BY DEF Requests
<1>6. files' \in [Paths -> Files] /\ WrittenOK(written')
  <2>1. CASE saved = Refused \/ saved = loaded
    <3>1. Quiet
      BY <1>4, <2>1 DEF Write
    <3> QED BY <3>1, QuietKeeps
  <2>2. CASE saved # Refused /\ saved # loaded
    <3>1. /\ edited # Refused /\ edited = edit(loaded, actions) /\ actions # Refused
          /\ saved = save(edited.loaded, request)
      BY <2>2
    <3> HIDE DEF edited, saved
    <3>2. actions \in Seq(Actions)
      BY <1>3, <3>1, CommandTyped
    <3> HIDE DEF actions
    <3>3. \/ edited.disposition = "NoChange" /\ edited.loaded = loaded
          \/ edited.disposition = "Applied" /\ EditedBy(edited.loaded, loaded, actions)
      BY <1>3, <3>1, <3>2, EditDoesWhatWasAsked
    <3>4. CASE edited.loaded = loaded
      <4>1. encode_patch(loaded.document) = loaded.original
        BY <1>3 DEF Well
      <4>2. save(loaded, request) = loaded
        BY <4>1 DEF save
      <4> QED BY <2>2, <3>1, <3>4, <4>2
    <3>5. CASE EditedBy(edited.loaded, loaded, actions)
      <4> DEFINE new == edited.loaded
                 by == "cli"
                 shown == None
      <4>1. EditedBy(new, loaded, actions) /\ saved = save(new, request) /\ saved # Refused
        BY <2>2, <3>1, <3>5
      <4>2. Write(loaded, saved, by, actions, shown)
        BY <1>4
      <4>3. by # "cli" => AsShown(Requested(View(loaded.document), loaded.original, actions), shown)
        OBVIOUS
      <4> HIDE DEF new, by, shown, request, loaded
      <4> QED BY <1>3, <1>5, <3>2, <4>1, <4>2, <4>3, EditIsWritten
    <3> QED BY <3>3, <3>4, <3>5
  <2> QED BY <2>1, <2>2
<1> HIDE DEF saved
<1>7. CliOK(cli')
  BY <1>2 DEF CliOK
<1>8. TaskOK(t, modify.loaded, tracker.loaded) /\ BatchOK(t, files')
  <2>1. CASE task # None /\ task.kind = "batch" /\ files' # files
    <3> DEFINE j == task.job
               names == j.names
               next == j.next
               failures == j.failures
               d == TRUE
               new == GoesOn(j, names, next, failures, d)
    <3>1. TaskShape(task) /\ BatchTask(task) /\ BatchJob(j)
      BY <1>1, <2>1 DEF TaskOK, BatchTask
    <3>2. names \in Seq(Names) /\ next \in Nat /\ failures \in SUBSET Names /\ d \in BOOLEAN
      BY <3>1 DEF BatchJob
    <3>3. t = [task EXCEPT !.job = new]
      <4>1. t = [task EXCEPT !.job.disturbed = TRUE]
        BY <1>4, <2>1
      <4>2. j \in [actions : Seq(Actions), dry : BOOLEAN, shown : {j.shown}, folder : Dirs,
                   output : Dirs \cup {None}, overwrite : BOOLEAN, names : Seq(Names), next : Nat,
                   failures : SUBSET Names, disturbed : BOOLEAN]
        BY <3>1 DEF BatchJob
      <4> HIDE DEF t
      <4>3. t = [task EXCEPT !.job = [task.job EXCEPT !.disturbed = TRUE]]
        BY <3>1, <4>1 DEF TaskShape
      <4> HIDE DEF j
      <4>4. [j EXCEPT !.disturbed = TRUE] = new
        BY <4>2 DEF GoesOn
      <4> QED BY <4>3, <4>4 DEF j
    <3> HIDE DEF t
    <3>4. /\ BatchJob(new) /\ new.names = names /\ new.next = next /\ new.disturbed = d
      <4> DEFINE n == new
      <4>1. n = GoesOn(j, names, next, failures, d)
        OBVIOUS
      <4>2. failures \in SUBSET Names
        BY <3>2
      <4>3. names \in Seq(Names) /\ next \in Nat
        BY <3>2
      <4>4. d \in BOOLEAN /\ BatchJob(j)
        BY <3>1
      <4> HIDE DEF n, names, next, failures, d, j, new, command, loaded, actions, edited, request
      <4>5. BatchJob(n) /\ n.names = names /\ n.next = next /\ n.disturbed = d
        BY <4>1, <4>2, <4>3, <4>4, JobGoesOn
      <4> QED BY <4>5 DEF n
    <3> HIDE DEF new
    <3>5. TaskShape(t) /\ t.job = new /\ t.kind = "batch" /\ t.result = task.result
      BY <2>1, <3>1, <3>3 DEF TaskShape
    <3>6. BatchTask(t)
      BY <3>1, <3>4, <3>5 DEF BatchTask
    <3> QED BY <3>4, <3>5, <3>6 DEF TaskOK, BatchOK, LoadKinds
  <2>2. CASE ~(task # None /\ task.kind = "batch" /\ files' # files)
    <3>1. t = task
      BY <1>4, <2>2
    <3> QED BY <1>1, <2>2, <3>1 DEF BatchOK
  <2> QED BY <2>1, <2>2
<1> QED BY <1>1, <1>2, <1>6, <1>7, <1>8, Together DEF t

-----------------------------------------------------------------------------
(* Every step keeps it *)

LEMMA SoundUser ==
  ASSUME Sound, User
  PROVE  Sound'
<1>1. CASE \E path \in Opened \cap Paths : InspectOpen(path)
  BY <1>1, SoundInspectOpen
<1>2. CASE Validate
  BY <1>2, SoundValidate
<1>3. CASE \E path \in (Opened \cap Paths) \cup {None} : ModifyOpen(path)
  BY <1>3, SoundModifyOpen
<1>4. CASE \E typed \in Typed : ModifyType(typed)
  BY <1>4, SoundModifyType
<1>5. CASE ModifyRows
  BY <1>5, SoundModifyRows
<1>6. CASE \E dry \in BOOLEAN : SaveModify(dry)
  BY <1>6, SoundSaveModify
<1>7. CASE \E path \in Opened : TrackerOpen(path)
  BY <1>7, SoundTrackerOpen
<1>8. CASE TrackerRows
  BY <1>8, SoundTrackerRows
<1>9. CASE TrackerOutput
  BY <1>9, SoundTrackerOutput
<1>10. CASE \E dry \in BOOLEAN : SaveTracker(dry)
  BY <1>10, SoundSaveTracker
<1>11. CASE CancelTask
  BY <1>11, SoundCancelTask
<1> QED BY <1>1, <1>2, <1>3, <1>4, <1>5, <1>6, <1>7, <1>8, <1>9, <1>10, <1>11 DEF User

LEMMA SoundWorker ==
  ASSUME Sound, Worker
  PROVE  Sound'
BY SoundLoadWorker, SoundValidateWorker, SoundFolderWorker, SoundSaveWorkers, SoundBatchList,
   SoundBatchFile, SoundBatchEnds DEF Worker

LEMMA SoundWindow ==
  ASSUME Sound, Window
  PROVE  Sound'
BY SoundInspectLoaded, SoundValidated, SoundModifyLoaded, SoundModifySaved, SoundFolderLoaded,
   SoundTrackerLoaded, SoundTrackerSaved DEF Window

LEMMA SoundNext ==
  ASSUME Sound, Next \/ UNCHANGED vars
  PROVE  Sound'
<1>1. CASE User
  BY <1>1, SoundUser
<1>2. CASE Worker
  BY <1>2, SoundWorker
<1>3. CASE Window
  BY <1>3, SoundWindow
<1>4. CASE CommandLine
  BY <1>4, SoundCliSave, SoundCliLoad DEF CommandLine
<1>5. CASE UNCHANGED vars
  BY <1>5, SoundStutters
<1> QED BY <1>1, <1>2, <1>3, <1>4, <1>5 DEF Next

\* The inductive invariant holds in every behaviour.
LEMMA SpecSound == Spec => []Sound
<1>1. Init => Sound
  BY SoundStart
<1>2. Sound /\ [Next]_vars => Sound'
  BY SoundNext
<1> QED BY <1>1, <1>2, PTL DEF Spec

-----------------------------------------------------------------------------
(* The theorems *)

\* Types, what every held document is, and what a save, a batch and a page go by: the invariant
\* of MCDocuments holds for every set of files, torrents, command lines and users' steps.
THEOREM SpecIInv == Spec => []IInv
BY SpecSound, SoundIInv, PTL

\* Whatever list of trackers is in memory survives being exported as text or as JSON and being
\* shown in the table of a page (TrackerList, populate_tracker_model, tracker_list_from_model).
THEOREM SpecListsSurvive == Spec => []ListsSurvive
<1>1. IInv => ListsSurvive
  BY DEF IInv
<1> QED BY <1>1, SpecIInv, PTL

\* Whoever writes a torrent, window, batch or command line: it loads again, and reads as what was
\* read before with the edits asked for (TorrentService::edit, encode_patch, commit).
THEOREM SpecReopensAsEdited == Spec => []ReopensAsEdited
BY SpecSound, SoundWritten, SoundIInv, PTL

\* No write touches a key whose value was not changed, nor any the program does not know.
THEOREM SpecKeepsTheRest == Spec => []KeepsTheRest
BY SpecSound, SoundWritten, PTL

\* A batch that was not cancelled, nor disturbed by a command line, has dealt with every torrent
\* that is in the folder: reported it as failed, or given it the trackers (convert_trackers).
THEOREM SpecBatchConvertsFolder == Spec => []BatchConvertsFolder
BY SpecSound, SoundBatch, PTL

\* What a page writes is what it shows, of the torrent whose path it shows, unless that path was
\* set meanwhile or could not be loaded (save_modify, save_tracker, convert_trackers).
THEOREM SpecSavesWhatIsShown == Spec => []SavesWhatIsShown
BY SpecSound, SoundWritten, PTL

=============================================================================
