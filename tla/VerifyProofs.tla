----------------------------- MODULE VerifyProofs -----------------------------
(***************************************************************************)
(* VerifySession keeps IInv, and what a report and a caller are told is    *)
(* right, for any torrents and any limits of the snapshots.                *)
(***************************************************************************)
EXTENDS VerifySession, FiniteSetTheorems, WellFoundedInduction, TLAPS

-----------------------------------------------------------------------------
(* The pure part of a verification, for every torrent *)

\* A least number, and a least set, among those that are counterexamples to something:
\* the form in which the proofs below argue by induction.
LEMMA LeastNat ==
  ASSUME NEW T, T \subseteq Nat, T # {}
  PROVE  \E x \in T : \A y \in T : x <= y
<1> DEFINE U == {0..(n - 1) : n \in T}
<1>1. U \subseteq FiniteSubsetsOf(Nat) /\ U # {}
  <2>1. ASSUME NEW n \in T PROVE 0..(n - 1) \in FiniteSubsetsOf(Nat)
    BY FS_Interval DEF FiniteSubsetsOf
  <2> QED BY <2>1
<1>2. PICK u \in U : \A v \in U : ~(<<v, u>> \in StrictSubsetOrdering(Nat))
  BY <1>1, FS_StrictSubsetOrderingWellFounded, WFMin, Zenon
<1>3. PICK x \in T : u = 0..(x - 1)
  BY <1>2
<1>4. ASSUME NEW y \in T, y < x PROVE FALSE
  <2>1. y \in 0..(x - 1) /\ y \notin 0..(y - 1)
    BY <1>4
  <2>2. 0..(y - 1) \subseteq 0..(x - 1) /\ 0..(x - 1) \subseteq Nat
    BY <1>4
  <2>3. <<0..(y - 1), u>> \in StrictSubsetOrdering(Nat)
    BY <2>1, <2>2, <1>3 DEF StrictSubsetOrdering
  <2> QED BY <2>3, <1>2
<1> QED BY <1>4

LEMMA LeastSubset ==
  ASSUME NEW S, IsFiniteSet(S), NEW B, B \subseteq SUBSET S, B # {}
  PROVE  \E T \in B : \A U \in B : U \subseteq T => U = T
<1>1. B \subseteq FiniteSubsetsOf(S)
  BY FS_FiniteSubsetsOfFinite
<1>2. PICK T \in B : \A U \in B : ~(<<U, T>> \in StrictSubsetOrdering(S))
  BY <1>1, FS_StrictSubsetOrderingWellFounded, WFMin, Zenon
<1> QED BY <1>2 DEF StrictSubsetOrdering

-----------------------------------------------------------------------------
(* Sums *)

\* The recursion equation that the fold behind SumFunctionOnSet chooses a solution of.
SumEquation(g, S, h) ==
    h = [s \in SUBSET S |->
           IF s = {} THEN 0
           ELSE LET x == CHOOSE x \in s : TRUE IN g[x] + h[s \ {x}]]
SumChosen(g, S) == CHOOSE h : SumEquation(g, S, h)

LEMMA SumUnfolds ==
  ASSUME NEW g, NEW S
  PROVE  SumFunctionOnSet(g, S) = SumChosen(g, S)[S]
BY DEF SumFunctionOnSet, FoldFunctionOnSet, MapThenFoldSet, SumChosen, SumEquation

\* One round of the recursion.
LEMMA SumRound ==
  ASSUME NEW g, NEW S, NEW h, SumEquation(g, S, h), NEW s \in SUBSET S
  PROVE  h[s] = IF s = {} THEN 0
                ELSE g[CHOOSE x \in s : TRUE] + h[s \ {CHOOSE x \in s : TRUE}]
BY DEF SumEquation

\* Two solutions agree wherever both are defined.
LEMMA SumUnique ==
  ASSUME NEW g, NEW S, IsFiniteSet(S), NEW A, NEW B, S \subseteq A, S \subseteq B,
         NEW h, NEW k, SumEquation(g, A, h), SumEquation(g, B, k)
  PROVE  h[S] = k[S]
<1> DEFINE Bad == {T \in SUBSET S : h[T] # k[T]}
<1>1. SUFFICES ASSUME Bad # {} PROVE FALSE
  OBVIOUS
<1>2. PICK T \in Bad : \A U \in Bad : U \subseteq T => U = T
  <2>1. Bad \subseteq SUBSET S
    OBVIOUS
  <2> HIDE DEF Bad
  <2> QED BY <1>1, <2>1, LeastSubset
<1>3. T \subseteq A /\ T \subseteq B /\ h[T] # k[T]
  OBVIOUS
<1>4. T # {}
  BY <1>3, SumRound
<1> DEFINE x == CHOOSE x \in T : TRUE
<1>5. x \in T
  BY <1>4
<1>6. h[T] = g[x] + h[T \ {x}] /\ k[T] = g[x] + k[T \ {x}]
  <2>1. T \in SUBSET A /\ T \in SUBSET B
    BY <1>3
  <2>2. h[T] = g[x] + h[T \ {x}]
    BY <2>1, <1>4, SumRound
  <2>3. k[T] = g[x] + k[T \ {x}]
    BY <2>1, <1>4, SumRound
  <2> QED BY <2>2, <2>3
<1>7. h[T \ {x}] = k[T \ {x}]
  BY <1>2, <1>5
<1> QED BY <1>3, <1>6, <1>7

\* The equation has a solution on every finite set.
LEMMA SumExists ==
  ASSUME NEW g, NEW S, IsFiniteSet(S)
  PROVE  SumEquation(g, S, SumChosen(g, S))
<1> DEFINE Bad == {T \in SUBSET S : ~\E h : SumEquation(g, T, h)}
           V(s) == SumChosen(g, s)[s]
<1>1. SUFFICES ASSUME Bad # {} PROVE FALSE
  <2>1. S \in SUBSET S /\ (Bad = {} => \E h : SumEquation(g, S, h))
    OBVIOUS
  <2> QED BY <1>1, <2>1 DEF SumChosen
<1>2. PICK T \in Bad : \A U \in Bad : U \subseteq T => U = T
  <2>1. Bad \subseteq SUBSET S
    OBVIOUS
  <2> HIDE DEF Bad
  <2> QED BY <1>1, <2>1, LeastSubset
<1>3. ASSUME NEW u, u \subseteq T, u # T PROVE SumEquation(g, u, SumChosen(g, u)) /\ IsFiniteSet(u)
  <2>1. u \in SUBSET S /\ u \notin Bad
    BY <1>2, <1>3
  <2> QED BY <2>1, FS_Subset DEF SumChosen
<1> DEFINE h == [s \in SUBSET T |->
                   IF s = {} THEN 0
                   ELSE LET x == CHOOSE x \in s : TRUE IN g[x] + V(s \ {x})]
<1>4. ASSUME NEW u, u \subseteq T, u # T PROVE h[u] = V(u)
  <2>1. CASE u = {}
    BY <2>1, <1>3, <1>4, SumRound
  <2>2. CASE u # {}
    <3> DEFINE y == CHOOSE y \in u : TRUE
    <3>1. y \in u
      BY <2>2
    <3>2. u \ {y} \subseteq T /\ u \ {y} # T /\ u \ {y} \subseteq u
      BY <3>1, <1>4
    <3>3. h[u] = g[y] + V(u \ {y})
      BY <2>2, <1>4
    <3>4. V(u) = g[y] + SumChosen(g, u)[u \ {y}]
      BY <2>2, <1>3, <1>4, SumRound
    <3>5. SumChosen(g, u)[u \ {y}] = V(u \ {y})
      <4> DEFINE w == u \ {y}
                 hu == SumChosen(g, u)
                 hw == SumChosen(g, w)
      <4>1. SumEquation(g, w, hw) /\ IsFiniteSet(w)
        BY <3>2, <1>3
      <4>2. SumEquation(g, u, hu)
        BY <1>3, <1>4
      <4>3. w \subseteq u /\ w \subseteq w
        BY <3>2
      <4> HIDE DEF w, hu, hw, h, V, y, Bad
      <4>4. hu[w] = hw[w]
        BY <4>1, <4>2, <4>3, SumUnique
      <4> QED BY <4>4 DEF w, hu, hw, V
    <3> QED BY <3>3, <3>4, <3>5
  <2> QED BY <2>1, <2>2
<1>5. SumEquation(g, T, h)
  <2>1. ASSUME NEW s \in SUBSET T, s # {}
        PROVE  h[s \ {CHOOSE x \in s : TRUE}] = V(s \ {CHOOSE x \in s : TRUE})
    <3> DEFINE y == CHOOSE x \in s : TRUE
               u == s \ {y}
    <3>1. y \in s
      BY <2>1
    <3> HIDE DEF y
    <3>2. u \subseteq T /\ u # T
      BY <3>1, <2>1
    <3> HIDE DEF h, V, u
    <3>3. h[u] = V(u)
      BY <3>2, <1>4
    <3> QED BY <3>3 DEF u, y
  <2>2. \A s \in SUBSET T :
          h[s] = IF s = {} THEN 0
                 ELSE LET x == CHOOSE x \in s : TRUE IN g[x] + h[s \ {x}]
    <3>1. ASSUME NEW s \in SUBSET T, s # {}
          PROVE  h[s] = g[CHOOSE x \in s : TRUE] + V(s \ {CHOOSE x \in s : TRUE})
      BY <3>1
    <3>2. \A s \in SUBSET T : s = {} => h[s] = 0
      OBVIOUS
    <3> HIDE DEF h, V
    <3> QED BY <2>1, <3>1, <3>2
  <2>3. h = [s \in SUBSET T |-> h[s]]
    OBVIOUS
  <2> HIDE DEF h
  <2> QED BY <2>2, <2>3 DEF SumEquation
<1> QED BY <1>5, <1>2

LEMMA SumEmpty ==
  ASSUME NEW g
  PROVE  SumFunctionOnSet(g, {}) = 0
BY FS_EmptySet, SumUnfolds, SumExists, SumRound

LEMMA SumChoose ==
  ASSUME NEW g, NEW S, IsFiniteSet(S), S # {}
  PROVE  LET x == CHOOSE x \in S : TRUE
         IN  SumFunctionOnSet(g, S) = g[x] + SumFunctionOnSet(g, S \ {x})
<1> DEFINE x == CHOOSE x \in S : TRUE
<1>1. IsFiniteSet(S \ {x}) /\ S \ {x} \subseteq S
  BY FS_RemoveElement
<1>2. SumEquation(g, S, SumChosen(g, S)) /\ SumEquation(g, S \ {x}, SumChosen(g, S \ {x}))
  BY <1>1, SumExists
<1>3. SumFunctionOnSet(g, S) = g[x] + SumChosen(g, S)[S \ {x}]
  BY <1>2, SumUnfolds, SumRound
<1> HIDE DEF x
<1>4. SumChosen(g, S)[S \ {x}] = SumChosen(g, S \ {x})[S \ {x}]
  BY <1>1, <1>2, SumUnique
<1>5. SumFunctionOnSet(g, S) = g[x] + SumFunctionOnSet(g, S \ {x})
  BY <1>3, <1>4, SumUnfolds
<1> QED BY <1>5 DEF x

\* Any element may be taken out of a sum of numbers.
LEMMA SumType ==
  ASSUME NEW g, NEW S, IsFiniteSet(S), \A x \in S : g[x] \in Nat
  PROVE  SumFunctionOnSet(g, S) \in Nat
<1> DEFINE Bad == {T \in SUBSET S : SumFunctionOnSet(g, T) \notin Nat}
<1>1. SUFFICES ASSUME Bad # {} PROVE FALSE
  OBVIOUS
<1>2. PICK T \in Bad : \A U \in Bad : U \subseteq T => U = T
  <2>1. Bad \subseteq SUBSET S
    OBVIOUS
  <2> HIDE DEF Bad
  <2> QED BY <1>1, <2>1, LeastSubset
<1>3. T # {}
  BY SumEmpty
<1> DEFINE x == CHOOSE x \in T : TRUE
<1>4. x \in T /\ IsFiniteSet(T)
  BY <1>3, FS_Subset
<1>5. SumFunctionOnSet(g, T) = g[x] + SumFunctionOnSet(g, T \ {x})
  BY <1>3, <1>4, SumChoose
<1>6. SumFunctionOnSet(g, T \ {x}) \in Nat /\ g[x] \in Nat
  BY <1>2, <1>4
<1> QED BY <1>5, <1>6

LEMMA SumRemove ==
  ASSUME NEW g, NEW S, IsFiniteSet(S), \A x \in S : g[x] \in Nat, NEW z \in S
  PROVE  SumFunctionOnSet(g, S) = g[z] + SumFunctionOnSet(g, S \ {z})
<1> DEFINE Bad == {T \in SUBSET S : \E y \in T :
                     SumFunctionOnSet(g, T) # g[y] + SumFunctionOnSet(g, T \ {y})}
<1>1. SUFFICES ASSUME Bad # {} PROVE FALSE
  OBVIOUS
<1>2. PICK T \in Bad : \A U \in Bad : U \subseteq T => U = T
  <2>1. Bad \subseteq SUBSET S
    OBVIOUS
  <2> HIDE DEF Bad
  <2> QED BY <1>1, <2>1, LeastSubset
<1>3. PICK y \in T : SumFunctionOnSet(g, T) # g[y] + SumFunctionOnSet(g, T \ {y})
  OBVIOUS
<1> DEFINE x == CHOOSE x \in T : TRUE
<1>4. x \in T /\ T \subseteq S
  OBVIOUS
<1>5. /\ IsFiniteSet(T) /\ IsFiniteSet(T \ {x}) /\ IsFiniteSet(T \ {y})
      /\ IsFiniteSet((T \ {x}) \ {y})
  BY <1>4, FS_Subset
<1>6. SumFunctionOnSet(g, T) = g[x] + SumFunctionOnSet(g, T \ {x})
  BY <1>4, <1>5, SumChoose
<1> HIDE DEF x
<1>7. y # x
  BY <1>3, <1>6
<1>8. \A U \in SUBSET S : U \subseteq T /\ U # T =>
        \A u \in U : SumFunctionOnSet(g, U) = g[u] + SumFunctionOnSet(g, U \ {u})
  BY <1>2
<1>9. /\ SumFunctionOnSet(g, T \ {x}) = g[y] + SumFunctionOnSet(g, (T \ {x}) \ {y})
      /\ SumFunctionOnSet(g, T \ {y}) = g[x] + SumFunctionOnSet(g, (T \ {y}) \ {x})
  BY <1>4, <1>7, <1>8
<1>10. (T \ {x}) \ {y} = (T \ {y}) \ {x}
  OBVIOUS
<1>11. /\ g[x] \in Nat /\ g[y] \in Nat
       /\ SumFunctionOnSet(g, (T \ {x}) \ {y}) \in Nat
  BY <1>4, <1>5, SumType
<1> HIDE DEF Bad
<1> QED BY <1>3, <1>6, <1>9, <1>10, <1>11

LEMMA SumAdd ==
  ASSUME NEW g, NEW S, IsFiniteSet(S), NEW z, z \notin S, \A x \in S \cup {z} : g[x] \in Nat
  PROVE  SumFunctionOnSet(g, S \cup {z}) = SumFunctionOnSet(g, S) + g[z]
<1>1. IsFiniteSet(S \cup {z}) /\ (S \cup {z}) \ {z} = S /\ z \in S \cup {z}
  BY FS_AddElement
<1>2. SumFunctionOnSet(g, S \cup {z}) = g[z] + SumFunctionOnSet(g, S)
  BY <1>1, SumRemove
<1>3. g[z] \in Nat /\ SumFunctionOnSet(g, S) \in Nat
  BY SumType
<1> QED BY <1>2, <1>3

\* A sum over a set is the sum over two parts of it.
LEMMA SumSplit ==
  ASSUME NEW g, NEW S, IsFiniteSet(S), \A x \in S : g[x] \in Nat, NEW P \in SUBSET S
  PROVE  SumFunctionOnSet(g, S) = SumFunctionOnSet(g, P) + SumFunctionOnSet(g, S \ P)
<1> DEFINE Splits(T, Q) ==
             SumFunctionOnSet(g, T) = SumFunctionOnSet(g, Q) + SumFunctionOnSet(g, T \ Q)
           Bad == {T \in SUBSET S : \E Q \in SUBSET T : ~Splits(T, Q)}
<1>1. SUFFICES ASSUME Bad # {} PROVE FALSE
  OBVIOUS
<1>2. PICK T \in Bad : \A U \in Bad : U \subseteq T => U = T
  <2>1. Bad \subseteq SUBSET S
    OBVIOUS
  <2> HIDE DEF Bad
  <2> QED BY <1>1, <2>1, LeastSubset
<1>3. PICK Q \in SUBSET T : ~Splits(T, Q)
  OBVIOUS
<1>4. T \in SUBSET S /\ \A U \in SUBSET S : U \subseteq T /\ U # T => \A R \in SUBSET U : Splits(U, R)
  BY <1>2
<1> HIDE DEF Bad
<1>5. IsFiniteSet(T) /\ IsFiniteSet(Q) /\ \A x \in T : g[x] \in Nat
  BY <1>4, FS_Subset
<1>6. Q # {}
  <2>1. SumFunctionOnSet(g, T) \in Nat /\ T \ {} = T
    BY <1>5, SumType
  <2>2. Splits(T, {})
    BY <2>1, SumEmpty
  <2> QED BY <1>3, <2>2
<1>7. PICK y : y \in Q
  BY <1>6
<1> DEFINE U == T \ {y}
           R == Q \ {y}
<1>8. U \in SUBSET S /\ U \subseteq T /\ U # T /\ R \in SUBSET U /\ U \ R = T \ Q
  BY <1>4, <1>7
<1>9. Splits(U, R)
  BY <1>4, <1>8
<1>10. y \in T /\ g[y] \in Nat /\ SumFunctionOnSet(g, T) = g[y] + SumFunctionOnSet(g, U)
  BY <1>5, <1>7, SumRemove
<1>11. SumFunctionOnSet(g, Q) = g[y] + SumFunctionOnSet(g, R)
  BY <1>5, <1>7, SumRemove
<1>12. SumFunctionOnSet(g, R) \in Nat /\ SumFunctionOnSet(g, T \ Q) \in Nat
  <2>1. IsFiniteSet(R) /\ IsFiniteSet(T \ Q) /\ (\A x \in R : g[x] \in Nat) /\ (\A x \in T \ Q : g[x] \in Nat)
    BY <1>5, FS_Subset
  <2> QED BY <2>1, SumType
<1> HIDE DEF U, R
<1>13. SumFunctionOnSet(g, U) = SumFunctionOnSet(g, R) + SumFunctionOnSet(g, T \ Q)
  BY <1>8, <1>9
<1>14. Splits(T, Q)
  BY <1>10, <1>11, <1>12, <1>13
<1> QED BY <1>3, <1>14

\* A sum is at least the sum over a part of it and one more element.
LEMMA SumPart ==
  ASSUME NEW g, NEW S, IsFiniteSet(S), \A x \in S : g[x] \in Nat, NEW P \in SUBSET S
  PROVE  /\ SumFunctionOnSet(g, P) \in Nat
         /\ SumFunctionOnSet(g, P) <= SumFunctionOnSet(g, S)
         /\ \A z \in S \ P : SumFunctionOnSet(g, P) + g[z] <= SumFunctionOnSet(g, S)
<1>1. IsFiniteSet(P) /\ IsFiniteSet(S \ P) /\ P \subseteq S
  BY FS_Subset
<1>2. SumFunctionOnSet(g, P) \in Nat /\ SumFunctionOnSet(g, S \ P) \in Nat
  BY <1>1, SumType
<1>3. SumFunctionOnSet(g, S) = SumFunctionOnSet(g, P) + SumFunctionOnSet(g, S \ P)
  BY SumSplit
<1>4. ASSUME NEW z \in S \ P
      PROVE  SumFunctionOnSet(g, P) + g[z] <= SumFunctionOnSet(g, S)
  <2> DEFINE R == (S \ P) \ {z}
  <2>1. IsFiniteSet(R) /\ (\A x \in R : g[x] \in Nat) /\ (\A x \in S \ P : g[x] \in Nat)
    BY <1>1, FS_RemoveElement
  <2>2. SumFunctionOnSet(g, S \ P) = g[z] + SumFunctionOnSet(g, R)
    BY <1>1, <2>1, SumRemove
  <2>3. SumFunctionOnSet(g, R) \in Nat /\ g[z] \in Nat
    BY <2>1, SumType
  <2> QED BY <1>2, <1>3, <2>2, <2>3
<1>5. SumFunctionOnSet(g, P) <= SumFunctionOnSet(g, S)
  BY <1>2, <1>3
<1> HIDE DEF SumFunctionOnSet
<1> QED BY <1>2, <1>4, <1>5, Zenon

\* A sum of nothing but zeros.
LEMMA SumZero ==
  ASSUME NEW g, NEW S, IsFiniteSet(S), \A x \in S : g[x] = 0
  PROVE  SumFunctionOnSet(g, S) = 0
<1> DEFINE Bad == {T \in SUBSET S : SumFunctionOnSet(g, T) # 0}
<1>1. SUFFICES ASSUME Bad # {} PROVE FALSE
  OBVIOUS
<1>2. PICK T \in Bad : \A U \in Bad : U \subseteq T => U = T
  <2>1. Bad \subseteq SUBSET S
    OBVIOUS
  <2> HIDE DEF Bad
  <2> QED BY <1>1, <2>1, LeastSubset
<1>3. T # {}
  BY SumEmpty
<1> DEFINE x == CHOOSE x \in T : TRUE
<1>4. x \in T /\ IsFiniteSet(T)
  BY <1>3, FS_Subset
<1>5. SumFunctionOnSet(g, T) = g[x] + SumFunctionOnSet(g, T \ {x})
  BY <1>3, <1>4, SumChoose
<1>6. SumFunctionOnSet(g, T \ {x}) = 0 /\ g[x] = 0
  BY <1>2, <1>4
<1> QED BY <1>5, <1>6

\* A sum of differences telescopes.
LEMMA SumTelescope ==
  ASSUME NEW g, NEW n \in Nat, NEW E, \A k \in 0..n : E[k] \in Nat,
         \A k \in 0..(n - 1) : g[k] \in Nat /\ E[k + 1] = E[k] + g[k]
  PROVE  E[n] = E[0] + SumFunctionOnSet(g, 0..(n - 1))
<1> DEFINE Bad == {k \in 0..n : E[k] # E[0] + SumFunctionOnSet(g, 0..(k - 1))}
<1>1. SUFFICES ASSUME Bad # {} PROVE FALSE
  OBVIOUS
<1>2. PICK k \in Bad : \A j \in Bad : k <= j
  <2>1. Bad \subseteq Nat
    OBVIOUS
  <2> HIDE DEF Bad
  <2> QED BY <1>1, <2>1, LeastNat, Zenon
<1>3. k # 0
  <2>1. 0..(0 - 1) = {} /\ E[0] \in Nat
    OBVIOUS
  <2> QED BY <2>1, SumEmpty
<1>4. k - 1 \in 0..(n - 1) /\ k - 1 \notin Bad /\ k - 1 \in 0..n
  BY <1>2, <1>3
<1>5. E[k - 1] = E[0] + SumFunctionOnSet(g, 0..((k - 1) - 1))
  BY <1>4
<1> DEFINE S == 0..((k - 1) - 1)
<1>6. /\ IsFiniteSet(S) /\ k - 1 \notin S /\ S \cup {k - 1} = 0..(k - 1)
      /\ \A x \in S \cup {k - 1} : g[x] \in Nat
  <2>1. k - 1 \in Nat /\ k - 1 <= n - 1
    BY <1>4
  <2>2. IsFiniteSet(S)
    BY <2>1, FS_Interval
  <2>3. k - 1 \notin S /\ S \cup {k - 1} = 0..(k - 1)
    BY <2>1
  <2>4. 0..(k - 1) \subseteq 0..(n - 1)
    BY <2>1
  <2> HIDE DEF S, Bad
  <2> QED BY <2>2, <2>3, <2>4
<1>7. E[k] = E[k - 1] + g[k - 1] /\ g[k - 1] \in Nat /\ E[0] \in Nat
  BY <1>4
<1>8. E[k] # E[0] + SumFunctionOnSet(g, 0..(k - 1))
  OBVIOUS
<1> HIDE DEF S, Bad
<1>9. SumFunctionOnSet(g, 0..(k - 1)) = SumFunctionOnSet(g, S) + g[k - 1]
  BY <1>6, SumAdd
<1>10. SumFunctionOnSet(g, S) \in Nat
  BY <1>6, SumType
<1> QED BY <1>5, <1>7, <1>8, <1>9, <1>10 DEF S

-----------------------------------------------------------------------------
(* The layout of the pieces *)

LEMMA ProductNat ==
  ASSUME NEW m \in Nat, NEW n \in Nat
  PROVE  m * n \in Nat
OBVIOUS

LEMMA PiecesForCovers ==
  ASSUME NEW n \in Nat, NEW l \in Nat \ {0}
  PROVE  PiecesFor(n, l) \in Nat /\ n <= l * PiecesFor(n, l)
<1> DEFINE q == (n + l - 1) \div l
<1>1. q \in Int /\ l * q <= n + l - 1 /\ n + l - 1 < l * q + l
  OBVIOUS
<1>2. q >= 0
  BY <1>1
<1> QED BY <1>1, <1>2 DEF PiecesFor

LEMMA FilesTyped ==
  ASSUME NEW t, IsTorrent(t)
  PROVE  /\ Len(t.files) \in Nat /\ DOMAIN t.files = 1..Len(t.files)
         /\ \A g \in DOMAIN t.files : t.files[g].length \in Nat
<1> DEFINE files == t.files
           File == [length : Nat, padding : BOOLEAN, symlink : BOOLEAN]
<1>1. files \in Seq(File)
  BY DEF IsTorrent
<1> HIDE DEF files, File
<1>2. Len(files) \in Nat /\ DOMAIN files = 1..Len(files)
      /\ \A g \in DOMAIN files : files[g] \in File
  BY <1>1
<1>3. \A g \in DOMAIN files : files[g].length \in Nat
  BY <1>2 DEF File
<1> QED BY <1>2, <1>3 DEF files

LEMMA FootprintCovers ==
  ASSUME NEW t, IsTorrent(t), NEW g \in DOMAIN t.files
  PROVE  Footprint(t)[g] \in Nat /\ t.files[g].length \in Nat
         /\ t.files[g].length <= Footprint(t)[g]
<1>1. t.files[g].length \in Nat /\ t.pieceLength \in Nat \ {0}
  BY FilesTyped DEF IsTorrent
<1> DEFINE q == PiecesFor(t.files[g].length, t.pieceLength)
<1>2. q \in Nat /\ t.files[g].length <= t.pieceLength * q
  BY <1>1, PiecesForCovers
<1> HIDE DEF q
<1>3. t.pieceLength * q \in Nat
  BY <1>1, <1>2, ProductNat
<1> QED BY <1>1, <1>2, <1>3 DEF Footprint, q

LEMMA FileBeginNat ==
  ASSUME NEW t, IsTorrent(t), NEW f \in 1..(Len(t.files) + 1)
  PROVE  FileBegin(t, f) \in Nat
<1> DEFINE n == Len(t.files)
<1>1. n \in Nat /\ DOMAIN t.files = 1..n /\ f \in 1..(n + 1)
  BY FilesTyped
<1> HIDE DEF n
<1>2. 1..(f - 1) \subseteq DOMAIN t.files /\ IsFiniteSet(1..(f - 1))
  <2>1. f \in Int /\ f - 1 <= n
    BY <1>1
  <2>2. IsFiniteSet(1..(f - 1))
    BY <2>1, FS_Interval
  <2>3. 1..(f - 1) \subseteq 1..n
    BY <1>1, <2>1
  <2> QED BY <1>1, <2>2, <2>3
<1>3. \A x \in 1..(f - 1) : Footprint(t)[x] \in Nat
  BY <1>2, FootprintCovers
<1> QED BY <1>2, <1>3, SumType DEF FileBegin

\* Every file lies within the stream.
LEMMA FitsStream ==
  ASSUME NEW t, IsTorrent(t), NEW f \in DOMAIN t.files
  PROVE  FileBegin(t, f) + t.files[f].length <= FileBegin(t, Len(t.files) + 1)
<1> DEFINE n == Len(t.files)
           g == Footprint(t)
<1>1. n \in Nat /\ DOMAIN t.files = 1..n /\ f \in 1..n
  BY FilesTyped
<1>2. /\ IsFiniteSet(1..n) /\ 1..(f - 1) \in SUBSET (1..n)
      /\ f \in (1..n) \ (1..(f - 1))
  <2> HIDE DEF n, g
  <2>1. IsFiniteSet(1..n)
    BY <1>1, FS_Interval
  <2>2. 1..(f - 1) \in SUBSET (1..n)
    BY <1>1
  <2>3. f \in (1..n) \ (1..(f - 1))
    BY <1>1
  <2> QED BY <2>1, <2>2, <2>3
<1>3. \A x \in 1..n : g[x] \in Nat
  BY <1>1, FootprintCovers
<1> DEFINE S == 1..n
           P == 1..(f - 1)
<1>4. /\ IsFiniteSet(S) /\ P \in SUBSET S /\ f \in S \ P /\ (\A x \in S : g[x] \in Nat)
      /\ SumFunctionOnSet(g, S) = FileBegin(t, n + 1) /\ SumFunctionOnSet(g, P) = FileBegin(t, f)
  <2>1. (n + 1) - 1 = n
    BY <1>1
  <2> QED BY <1>2, <1>3, <2>1 DEF FileBegin
<1>5. t.files[f].length \in Nat /\ t.files[f].length <= g[f] /\ g[f] \in Nat
  BY FootprintCovers
<1> HIDE DEF S, P, g, n
<1>6. SumFunctionOnSet(g, P) + g[f] <= SumFunctionOnSet(g, S) /\ SumFunctionOnSet(g, P) \in Nat
  BY <1>4, SumPart
<1> QED BY <1>4, <1>5, <1>6, FileBeginNat DEF n

LEMMA PieceCountCovers ==
  ASSUME NEW t, IsTorrent(t)
  PROVE  /\ PieceCount(t) \in Nat
         /\ FileBegin(t, Len(t.files) + 1) <= PieceCount(t) * t.pieceLength
<1>1. Len(t.files) + 1 \in 1..(Len(t.files) + 1) /\ t.pieceLength \in Nat \ {0}
  BY DEF IsTorrent
<1> DEFINE n == FileBegin(t, Len(t.files) + 1)
           q == PiecesFor(n, t.pieceLength)
<1>2. n \in Nat
  BY <1>1, FileBeginNat
<1> HIDE DEF n
<1>3. q \in Nat /\ n <= t.pieceLength * q
  BY <1>1, <1>2, PiecesForCovers
<1> HIDE DEF q
<1>4. t.pieceLength * q = q * t.pieceLength
  BY <1>1, <1>3
<1> QED BY <1>3, <1>4 DEF PieceCount, n, q

\* The bytes of file f in the pieces before the k-th.
Before(t, f, k) == Least(Most(0, k * t.pieceLength - FileBegin(t, f)), t.files[f].length)

LEMMA OverlapStep ==
  ASSUME NEW t, IsTorrent(t), NEW f \in Reported(t), NEW k \in Nat
  PROVE  /\ Before(t, f, k) \in Nat /\ Overlap(t, k, f) \in Nat
         /\ Before(t, f, k + 1) = Before(t, f, k) + Overlap(t, k, f)
<1> DEFINE l == t.pieceLength
           b == FileBegin(t, f)
           n == t.files[f].length
           a == k * l
<1>1. l \in Nat /\ n \in Nat /\ b \in Nat
  <2>1. f \in DOMAIN t.files /\ DOMAIN t.files = 1..Len(t.files) /\ Len(t.files) \in Nat
    BY DEF IsTorrent, Reported
  <2>2. f \in 1..(Len(t.files) + 1)
    BY <2>1
  <2> QED BY <2>1, <2>2, FileBeginNat, FootprintCovers DEF IsTorrent
<1>2. a \in Nat /\ (k + 1) * l = a + l
  BY <1>1, ProductNat
<1>3. Overlap(t, k, f) = Most(0, Least((a + l) - b, n) - Most(0, a - b))
  BY <1>2 DEF Overlap, OverlapEnd, Reported
<1>4. Before(t, f, k) = Least(Most(0, a - b), n) /\ Before(t, f, k + 1) = Least(Most(0, (a + l) - b), n)
  BY <1>2 DEF Before
<1> HIDE DEF l, b, n, a
<1> QED BY <1>1, <1>2, <1>3, <1>4 DEF Least, Most

LEMMA BeforeEnds ==
  ASSUME NEW t, IsTorrent(t), NEW f \in Reported(t)
  PROVE  Before(t, f, 0) = 0 /\ Before(t, f, PieceCount(t)) = t.files[f].length
<1> DEFINE l == t.pieceLength
           b == FileBegin(t, f)
           n == t.files[f].length
           a == PieceCount(t) * l
<1>1. l \in Nat /\ n \in Nat /\ b \in Nat
  <2>1. f \in DOMAIN t.files /\ DOMAIN t.files = 1..Len(t.files) /\ Len(t.files) \in Nat
    BY DEF IsTorrent, Reported
  <2>2. f \in 1..(Len(t.files) + 1)
    BY <2>1
  <2> QED BY <2>1, <2>2, FileBeginNat, FootprintCovers DEF IsTorrent
<1>2. a \in Nat /\ b + n <= a
  <2>1. FileBegin(t, Len(t.files) + 1) \in Nat /\ FileBegin(t, Len(t.files) + 1) <= a /\ a \in Nat
    <3>1. Len(t.files) + 1 \in 1..(Len(t.files) + 1)
      BY DEF IsTorrent
    <3> QED BY <1>1, <3>1, FileBeginNat, PieceCountCovers, ProductNat
  <2>2. b + n <= FileBegin(t, Len(t.files) + 1)
    BY FitsStream DEF Reported
  <2> HIDE DEF a, b, n
  <2> QED BY <1>1, <2>1, <2>2
<1>3. 0 * l = 0
  BY <1>1
<1>4. Before(t, f, 0) = Least(Most(0, 0 - b), n) /\ Before(t, f, PieceCount(t)) = Least(Most(0, a - b), n)
  BY <1>3 DEF Before
<1> HIDE DEF l, b, n, a
<1>5. Before(t, f, 0) = 0 /\ Before(t, f, PieceCount(t)) = n
  BY <1>1, <1>2, <1>4 DEF Least, Most
<1> QED BY <1>5 DEF n

\* What a layout says of a file is its overlap with the piece.
LEMMA LayoutBytes ==
  ASSUME NEW t, IsTorrent(t), NEW inspected
  PROVE  LET L == Layouts(t, inspected) IN
         /\ DOMAIN L = 0..(PieceCount(t) - 1) /\ DOMAIN L \subseteq Nat /\ IsFiniteSet(DOMAIN L)
         /\ \A p \in DOMAIN L : DOMAIN L[p].overlaps \subseteq Reported(t)
         /\ \A p \in DOMAIN L : \A f \in DOMAIN L[p].overlaps :
              L[p].overlaps[f] \in Nat \ {0}
         /\ \A p \in DOMAIN L : \A f \in Reported(t) :
              BytesIn(L, f)[p] = Overlap(t, p, f) /\ Overlap(t, p, f) \in Nat
<1> DEFINE L == Layouts(t, inspected)
<1>1. DOMAIN L = 0..(PieceCount(t) - 1) /\ DOMAIN L \subseteq Nat /\ IsFiniteSet(DOMAIN L)
  <2>1. DOMAIN L = 0..(PieceCount(t) - 1)
    BY DEF Layouts
  <2> HIDE DEF L
  <2> QED BY <2>1, PieceCountCovers, FS_Interval
<1>2. ASSUME NEW p \in DOMAIN L
      PROVE  /\ DOMAIN L[p].overlaps = {f \in DOMAIN t.files : Overlap(t, p, f) > 0}
             /\ \A f \in DOMAIN L[p].overlaps : L[p].overlaps[f] = Overlap(t, p, f)
  BY DEF Layouts
<1>3. ASSUME NEW p \in DOMAIN L, NEW f \in DOMAIN L[p].overlaps PROVE f \in Reported(t)
  <2>1. f \in DOMAIN t.files /\ Overlap(t, p, f) > 0
    BY <1>2, <1>3
  <2>2. ~t.files[f].padding
    BY <2>1 DEF Overlap
  <2> QED BY <2>1, <2>2 DEF Reported
<1> HIDE DEF L
<1>4. ASSUME NEW p \in DOMAIN L, NEW f \in Reported(t)
      PROVE  /\ BytesIn(L, f)[p] = Overlap(t, p, f) /\ Overlap(t, p, f) \in Nat
             /\ f \in DOMAIN L[p].overlaps => L[p].overlaps[f] \in Nat \ {0}
  <2>1. p \in Nat
    BY <1>1
  <2>2. Overlap(t, p, f) \in Nat /\ f \in DOMAIN t.files
    BY <2>1, OverlapStep DEF Reported
  <2>3. BytesIn(L, f)[p] = IF f \in DOMAIN L[p].overlaps THEN L[p].overlaps[f] ELSE 0
    BY DEF BytesIn
  <2> QED BY <1>2, <2>2, <2>3
<1> QED BY <1>1, <1>3, <1>4 DEF L

\* The overlaps of a file with all the pieces add up to its length.
THEOREM OverlapsAddUp ==
  ASSUME NEW t, IsTorrent(t), NEW inspected, NEW f \in Reported(t)
  PROVE  LET L == Layouts(t, inspected)
         IN  SumFunctionOnSet(BytesIn(L, f), DOMAIN L) = t.files[f].length
<1> DEFINE L == Layouts(t, inspected)
           n == PieceCount(t)
           E == [k \in 0..n |-> Before(t, f, k)]
           g == BytesIn(L, f)
<1>1. /\ DOMAIN L = 0..(n - 1) /\ n \in Nat
      /\ \A p \in 0..(n - 1) : g[p] = Overlap(t, p, f) /\ Overlap(t, p, f) \in Nat
  BY LayoutBytes, PieceCountCovers
<1>2. \A k \in 0..n : E[k] \in Nat
  BY <1>1, OverlapStep
<1>3. \A k \in 0..(n - 1) : g[k] \in Nat /\ E[k + 1] = E[k] + g[k]
  <2>1. ASSUME NEW k \in 0..(n - 1) PROVE E[k + 1] = E[k] + Overlap(t, k, f)
    <3>1. k \in Nat /\ k \in 0..n /\ k + 1 \in 0..n
      BY <1>1
    <3>2. Before(t, f, k + 1) = Before(t, f, k) + Overlap(t, k, f)
      BY <3>1, OverlapStep
    <3> QED BY <3>1, <3>2
  <2> HIDE DEF E, g, n
  <2> QED BY <1>1, <2>1
<1>4. E[0] = 0 /\ E[n] = t.files[f].length /\ t.files[f].length \in Nat
  <2>1. 0 \in 0..n /\ n \in 0..n
    BY <1>1
  <2>2. t.files[f].length \in Nat
    BY FootprintCovers DEF Reported
  <2> QED BY <2>1, <2>2, BeforeEnds
<1> HIDE DEF E, g, n
<1>5. E[n] = E[0] + SumFunctionOnSet(g, 0..(n - 1))
  BY <1>1, <1>2, <1>3, SumTelescope
<1>6. SumFunctionOnSet(g, 0..(n - 1)) \in Nat
  <2>1. IsFiniteSet(0..(n - 1))
    BY <1>1, FS_Interval
  <2> QED BY <1>3, <2>1, SumType
<1> QED BY <1>1, <1>4, <1>5, <1>6 DEF g

-----------------------------------------------------------------------------
(* The report *)

\* What the report needs of the layouts: whole files of a torrent, cut into pieces.
LaidOut(t, L) ==
    /\ IsFiniteSet(DOMAIN L)
    /\ \A p \in DOMAIN L : DOMAIN L[p].overlaps \subseteq Reported(t)
    /\ \A f \in Reported(t) : t.files[f].length \in Nat
    /\ \A f \in Reported(t) : \A p \in DOMAIN L :
         /\ BytesIn(L, f)[p] \in Nat
         /\ BytesIn(L, f)[p] > 0 <=> f \in DOMAIN L[p].overlaps
    /\ \A f \in Reported(t) : SumFunctionOnSet(BytesIn(L, f), DOMAIN L) = t.files[f].length

LEMMA LayoutsLaidOut ==
  ASSUME NEW t, IsTorrent(t), NEW inspected
  PROVE  LaidOut(t, Layouts(t, inspected))
<1> DEFINE L == Layouts(t, inspected)
<1>1. \A f \in Reported(t) : t.files[f].length \in Nat
  BY FilesTyped DEF Reported
<1>2. /\ IsFiniteSet(DOMAIN L)
      /\ \A p \in DOMAIN L : DOMAIN L[p].overlaps \subseteq Reported(t)
      /\ \A p \in DOMAIN L : \A h \in DOMAIN L[p].overlaps : L[p].overlaps[h] \in Nat \ {0}
  BY LayoutBytes
<1>3. \A f \in Reported(t) : SumFunctionOnSet(BytesIn(L, f), DOMAIN L) = t.files[f].length
  BY OverlapsAddUp
<1> HIDE DEF L
<1>4. \A f : \A p \in DOMAIN L :
        BytesIn(L, f)[p] = IF f \in DOMAIN L[p].overlaps THEN L[p].overlaps[f] ELSE 0
  BY DEF BytesIn
<1>5. \A f \in Reported(t) : \A p \in DOMAIN L :
        BytesIn(L, f)[p] \in Nat /\ (BytesIn(L, f)[p] > 0 <=> f \in DOMAIN L[p].overlaps)
  BY <1>2, <1>4
<1>6. LaidOut(t, L)
  BY <1>1, <1>2, <1>3, <1>5 DEF LaidOut
<1> QED BY <1>6 DEF L

\* What the report says of one file: sums over the pieces that hold bytes of it.
HashablePieces(L) == {p \in DOMAIN L : L[p].hashable}
HashedPieces(L, f) == {p \in HashablePieces(L) : f \in DOMAIN L[p].overlaps}
FindingOf(L, p) ==
    IF Cardinality(DOMAIN L[p].overlaps) > 1 THEN "SharedPieceMismatch" ELSE "HashMismatch"
MismatchFindings(L, f, pieces) == {FindingOf(L, p) : p \in HashedPieces(L, f) \ pieces}

FileReported(inspected, L, pieces, report, f) ==
    /\ report.bytes[f].hashed = SumFunctionOnSet(BytesIn(L, f), HashedPieces(L, f))
    /\ report.bytes[f].verified
         = SumFunctionOnSet(BytesIn(L, f), HashedPieces(L, f) \cap pieces)
    /\ report.bytes[f].mismatched
         = SumFunctionOnSet(BytesIn(L, f), HashedPieces(L, f) \ pieces)
    /\ report.findings[f]
         = ({inspected[f].finding} \ {"None"}) \cup MismatchFindings(L, f, pieces)

LEMMA ReportParts ==
  ASSUME NEW t, NEW inspected, NEW L, NEW pieces, NEW f \in Reported(t)
  PROVE  FileReported(inspected, L, pieces, Report(t, inspected, L, pieces), f)
<1> DEFINE report == Report(t, inspected, L, pieces)
           H == {p \in DOMAIN L : L[p].hashable /\ f \in DOMAIN L[p].overlaps}
           failed == {p \in DOMAIN L : L[p].hashable /\ p \notin pieces}
<1>1. /\ report.bytes[f].hashed = SumFunctionOnSet(BytesIn(L, f), H)
      /\ report.bytes[f].verified = SumFunctionOnSet(BytesIn(L, f), H \cap pieces)
      /\ report.bytes[f].mismatched = SumFunctionOnSet(BytesIn(L, f), H \ pieces)
  BY DEF Report
<1>2. report.findings[f]
        = ({inspected[f].finding} \ {"None"}) \cup {FindingOf(L, p) : p \in failed \cap H}
  BY DEF Report, FindingOf
<1>3. H = HashedPieces(L, f) /\ failed \cap H = HashedPieces(L, f) \ pieces
  BY DEF HashedPieces, HashablePieces
<1> HIDE DEF H, failed, report
<1>4. FileReported(inspected, L, pieces, report, f)
  BY <1>1, <1>2, <1>3 DEF MismatchFindings, FileReported
<1> QED BY <1>4 DEF report

LEMMA ReportOutcome ==
  ASSUME NEW t, NEW inspected, NEW L, NEW pieces, NEW report,
         report = Report(t, inspected, L, pieces)
  PROVE  /\ report.outcome # "Incomplete" => HashablePieces(L) = DOMAIN L
         /\ report.outcome = "Verified" <=>
              /\ \A f \in Reported(t) :
                   inspected[f].finding \notin {"Unusable", "SymlinkTargetMismatch"}
              /\ HashablePieces(L) = DOMAIN L /\ DOMAIN L \subseteq pieces
BY DEF Report, HashablePieces

\* Only the pieces that hold bytes of a file count for it.
LEMMA HashedSums ==
  ASSUME NEW t, NEW L, LaidOut(t, L), NEW f \in Reported(t), NEW P \in SUBSET HashablePieces(L)
  PROVE  SumFunctionOnSet(BytesIn(L, f), P)
           = SumFunctionOnSet(BytesIn(L, f), P \cap HashedPieces(L, f))
<1> DEFINE g == BytesIn(L, f)
           R == P \cap HashedPieces(L, f)
<1>1. /\ IsFiniteSet(DOMAIN L) /\ P \subseteq DOMAIN L
      /\ \A p \in DOMAIN L : g[p] \in Nat /\ (g[p] > 0 <=> f \in DOMAIN L[p].overlaps)
  BY DEF LaidOut, HashablePieces
<1>2. R \in SUBSET P /\ \A p \in P \ R : f \notin DOMAIN L[p].overlaps
  BY DEF HashedPieces
<1> HIDE DEF g, R
<1>3. IsFiniteSet(P) /\ IsFiniteSet(R) /\ IsFiniteSet(P \ R)
  BY <1>1, <1>2, FS_Subset
<1>4. (\A x \in P : g[x] \in Nat) /\ (\A x \in P \ R : g[x] = 0)
  BY <1>1, <1>2
<1>5. SumFunctionOnSet(g, P) = SumFunctionOnSet(g, R) + SumFunctionOnSet(g, P \ R)
  BY <1>2, <1>3, <1>4, SumSplit
<1>6. SumFunctionOnSet(g, P \ R) = 0
  BY <1>3, <1>4, SumZero
<1>7. SumFunctionOnSet(g, R) \in Nat
  BY <1>2, <1>3, <1>4, SumType
<1>8. SumFunctionOnSet(g, P) = SumFunctionOnSet(g, R)
  BY <1>5, <1>6, <1>7
<1> QED BY <1>8 DEF g, R

\* What the counters of a report say of a file: never more than the file is hashed, less
\* only when the outcome is Incomplete, and mismatched bytes come with a finding of them.
FileReportSound(t, report, f) ==
    /\ (report.bytes[f].hashed < t.files[f].length) => report.outcome = "Incomplete"
    /\ (report.bytes[f].mismatched > 0)
         <=> (report.findings[f] \cap {"HashMismatch", "SharedPieceMismatch"} # {})
    /\ report.bytes[f].hashed <= t.files[f].length

LEMMA LaidOutCountsRight ==
  ASSUME NEW t, NEW L, LaidOut(t, L), NEW inspected, IsPreflight(t, inspected), NEW pieces,
         NEW report, report = Report(t, inspected, L, pieces), NEW f \in Reported(t)
  PROVE  FileReportSound(t, report, f)
<1> DEFINE g == BytesIn(L, f)
           H == HashedPieces(L, f)
           F == H \ pieces
           n == t.files[f].length
<1>1. /\ n \in Nat /\ IsFiniteSet(DOMAIN L)
      /\ \A p \in DOMAIN L : g[p] \in Nat /\ (g[p] > 0 <=> f \in DOMAIN L[p].overlaps)
      /\ SumFunctionOnSet(g, DOMAIN L) = n
  BY DEF LaidOut
<1>0. FileReported(inspected, L, pieces, report, f)
  BY ReportParts
<1>2. /\ report.bytes[f].hashed = SumFunctionOnSet(g, H)
      /\ report.bytes[f].mismatched = SumFunctionOnSet(g, F)
  BY <1>0 DEF FileReported
<1>3. report.findings[f] = ({inspected[f].finding} \ {"None"}) \cup MismatchFindings(L, f, pieces)
  BY <1>0 DEF FileReported
<1>4. report.outcome # "Incomplete" => HashablePieces(L) = DOMAIN L
  BY ReportOutcome
<1>5. inspected[f].finding \notin {"HashMismatch", "SharedPieceMismatch"}
  BY DEF IsPreflight, Reported
<1>6. /\ H \in SUBSET DOMAIN L /\ F \in SUBSET DOMAIN L /\ H = HashablePieces(L) \cap H
      /\ \A p \in F : f \in DOMAIN L[p].overlaps
  BY DEF HashedPieces, HashablePieces
<1>7. MismatchFindings(L, f, pieces) # {} <=> F # {}
  BY DEF MismatchFindings
<1>8. MismatchFindings(L, f, pieces) \subseteq {"HashMismatch", "SharedPieceMismatch"}
  BY DEF MismatchFindings, FindingOf
<1>9. SumFunctionOnSet(g, HashablePieces(L)) = SumFunctionOnSet(g, H)
  <2>1. HashablePieces(L) \in SUBSET HashablePieces(L)
    OBVIOUS
  <2> QED BY <1>6, <2>1, HashedSums
<1> HIDE DEF g, H, F, n
<1>10. report.bytes[f].hashed <= n
  BY <1>1, <1>2, <1>6, SumPart
<1>11. report.outcome # "Incomplete" => report.bytes[f].hashed = n
  BY <1>1, <1>2, <1>4, <1>9
<1>12. report.bytes[f].mismatched > 0 <=> F # {}
  <2>1. IsFiniteSet(F) /\ \A x \in F : g[x] \in Nat /\ g[x] > 0
    BY <1>1, <1>6, FS_Subset
  <2>2. ASSUME NEW x \in F PROVE SumFunctionOnSet(g, F) > 0
    <3>1. SumFunctionOnSet(g, {}) + g[x] <= SumFunctionOnSet(g, F)
      <4>1. {} \in SUBSET F /\ x \in F \ {}
        OBVIOUS
      <4> QED BY <2>1, <4>1, SumPart
    <3>2. SumFunctionOnSet(g, F) \in Nat
      BY <2>1, SumType
    <3> QED BY <2>1, <3>1, <3>2, SumEmpty
  <2>3. F = {} => SumFunctionOnSet(g, F) = 0
    BY SumEmpty
  <2> QED BY <1>2, <2>2, <2>3
<1>13. report.findings[f] \cap {"HashMismatch", "SharedPieceMismatch"} # {} <=> F # {}
  BY <1>3, <1>5, <1>7, <1>8
<1> QED BY <1>1, <1>10, <1>11, <1>12, <1>13 DEF FileReportSound, n

\* For every torrent, whatever was found of its files and whichever pieces are good, the
\* report of make_verification_report keeps its counters and its findings consistent.
THEOREM ReportCountsRight ==
  ASSUME NEW t, IsTorrent(t), NEW inspected, IsPreflight(t, inspected), NEW pieces,
         NEW f \in Reported(t)
  PROVE  FileReportSound(t, Report(t, inspected, Layouts(t, inspected), pieces), f)
<1>1. LaidOut(t, Layouts(t, inspected))
  BY LayoutsLaidOut
<1> QED BY <1>1, LaidOutCountsRight

\* When every byte of every file was hashed and found correct, nothing was found wanting,
\* and no piece of nothing but padding failed.
AllFound(t, L, report, pieces) ==
    /\ \A f \in Reported(t) :
         /\ report.findings[f] = {}
         /\ report.bytes[f].verified = t.files[f].length
    /\ \A p \in DOMAIN L : DOMAIN L[p].overlaps = {} => p \in pieces

LEMMA LaidOutVerified ==
  ASSUME NEW t, NEW L, LaidOut(t, L), NEW inspected, IsPreflight(t, inspected), NEW pieces,
         NEW report, report = Report(t, inspected, L, pieces),
         \A p \in DOMAIN L : DOMAIN L[p].overlaps = {} => L[p].hashable
  PROVE  report.outcome = "Verified" <=> AllFound(t, L, report, pieces)
<1> DEFINE A == HashablePieces(L)
           P == A \cap pieces
<1>1. report.outcome = "Verified" <=>
        /\ \A f \in Reported(t) : inspected[f].finding \notin {"Unusable", "SymlinkTargetMismatch"}
        /\ A = DOMAIN L /\ DOMAIN L \subseteq pieces
  BY ReportOutcome
<1>2. ASSUME NEW f \in Reported(t)
      PROVE  /\ report.bytes[f].verified = SumFunctionOnSet(BytesIn(L, f), P)
             /\ report.findings[f]
                  = ({inspected[f].finding} \ {"None"}) \cup MismatchFindings(L, f, pieces)
             /\ inspected[f].finding \in {"None", "Unusable", "SymlinkTargetMismatch"}
  <2>1. inspected[f].finding \in {"None", "Unusable", "SymlinkTargetMismatch"}
    BY DEF IsPreflight, Reported
  <2>2. P \in SUBSET HashablePieces(L) /\ P \cap HashedPieces(L, f) = HashedPieces(L, f) \cap pieces
    BY DEF HashedPieces
  <2> HIDE DEF P
  <2>3. SumFunctionOnSet(BytesIn(L, f), P)
          = SumFunctionOnSet(BytesIn(L, f), HashedPieces(L, f) \cap pieces)
    BY <2>2, HashedSums
  <2>4. FileReported(inspected, L, pieces, report, f)
    BY ReportParts
  <2> QED BY <2>1, <2>3, <2>4 DEF FileReported
<1>3. ASSUME report.outcome = "Verified" PROVE AllFound(t, L, report, pieces)
  <2>1. P = DOMAIN L /\ DOMAIN L \subseteq pieces
    BY <1>1, <1>3
  <2>2. ASSUME NEW f \in Reported(t)
        PROVE  report.findings[f] = {} /\ report.bytes[f].verified = t.files[f].length
    <3>1. SumFunctionOnSet(BytesIn(L, f), P) = t.files[f].length
      BY <2>1 DEF LaidOut
    <3>2. inspected[f].finding = "None"
      BY <1>1, <1>2, <1>3
    <3>3. MismatchFindings(L, f, pieces) = {}
      BY <2>1 DEF MismatchFindings, HashedPieces, HashablePieces
    <3> QED BY <1>2, <3>1, <3>2, <3>3
  <2> QED BY <2>1, <2>2 DEF AllFound
<1>4. ASSUME AllFound(t, L, report, pieces) PROVE report.outcome = "Verified"
  <2>1. ASSUME NEW p \in DOMAIN L PROVE p \in P
    <3>1. CASE DOMAIN L[p].overlaps = {}
      BY <1>4, <3>1 DEF AllFound, HashablePieces
    <3>2. CASE DOMAIN L[p].overlaps # {}
      <4>1. PICK f \in DOMAIN L[p].overlaps : TRUE
        BY <3>2
      <4>2. f \in Reported(t)
        BY <4>1 DEF LaidOut
      <4> DEFINE g == BytesIn(L, f)
      <4>3. /\ IsFiniteSet(DOMAIN L) /\ \A x \in DOMAIN L : g[x] \in Nat
            /\ g[p] > 0 /\ SumFunctionOnSet(g, DOMAIN L) = t.files[f].length
        BY <4>1, <4>2 DEF LaidOut
      <4>4. SumFunctionOnSet(g, P) = t.files[f].length
        BY <1>2, <1>4, <4>2 DEF AllFound
      <4>5. P \in SUBSET DOMAIN L
        BY DEF HashablePieces
      <4> HIDE DEF g, P
      <4>6. SumFunctionOnSet(g, P) \in Nat /\ g[p] \in Nat
            /\ (p \notin P => SumFunctionOnSet(g, P) + g[p] <= SumFunctionOnSet(g, DOMAIN L))
        BY <4>3, <4>5, SumPart
      <4> QED BY <4>3, <4>4, <4>6
    <3> QED BY <3>1, <3>2
  <2>2. A = DOMAIN L /\ DOMAIN L \subseteq pieces
    BY <2>1 DEF HashablePieces
  <2>3. \A f \in Reported(t) : inspected[f].finding = "None"
    BY <1>2, <1>4 DEF AllFound
  <2> HIDE DEF A, P
  <2> QED BY <1>1, <2>2, <2>3
<1> QED BY <1>3, <1>4

\* The outcome of make_verification_report is Verified exactly when AllFound holds.
THEOREM VerifiedExactly ==
  ASSUME NEW t, IsTorrent(t), NEW inspected, IsPreflight(t, inspected), NEW pieces,
         NEW L, L = Layouts(t, inspected), NEW report, report = Report(t, inspected, L, pieces)
  PROVE  report.outcome = "Verified" <=> AllFound(t, L, report, pieces)
<1>1. LaidOut(t, L)
  BY LayoutsLaidOut
<1>2. \A p \in DOMAIN L : DOMAIN L[p].overlaps = {} => L[p].hashable
  BY DEF Layouts
<1> QED BY <1>1, <1>2, LaidOutVerified

-----------------------------------------------------------------------------
(* The lemmas the steps need *)

\* At most k elements are the k smallest of a set, and of a non-empty set there are some.
LEMMA SmallestBounded ==
  ASSUME NEW k \in Nat, NEW S \in SUBSET Nat, IsFiniteSet(S)
  PROVE  /\ IsFiniteSet(Smallest(k, S)) /\ Cardinality(Smallest(k, S)) <= k
         /\ k # 0 /\ S # {} => Smallest(k, S) # {}
<1> DEFINE Below(x) == {y \in S : y < x}
           R == Smallest(k, S)
           f == [x \in R |-> Cardinality(Below(x))]
<1>0. \A x \in S : x \in Nat
  OBVIOUS
<1>1. R = {x \in S : Cardinality(Below(x)) < k}
  BY DEF Smallest
<1>2. \A x \in S : IsFiniteSet(Below(x)) /\ Cardinality(Below(x)) \in Nat
  <2>1. \A x : Below(x) \in SUBSET S
    OBVIOUS
  <2> HIDE DEF Below
  <2>2. \A x : IsFiniteSet(Below(x))
    BY <2>1, FS_Subset
  <2> QED BY <2>2, FS_CardinalityType
<1>3. ASSUME NEW x \in S, NEW y \in S, x < y PROVE Cardinality(Below(x)) # Cardinality(Below(y))
  <2>1. Below(x) \in SUBSET Below(y) /\ x \in Below(y) /\ x \notin Below(x)
    <3>1. x \in Int /\ y \in Int /\ x < y
      BY <1>0, <1>3
    <3>2. ASSUME NEW z \in S, z < x PROVE z < y
      BY <1>0, <3>1, <3>2
    <3>3. ~(x < x)
      BY <3>1
    <3> QED BY <3>1, <3>2, <3>3, Zenon
  <2> HIDE DEF Below
  <2>2. IsFiniteSet(Below(y)) /\ Below(x) # Below(y)
    BY <1>2, <2>1
  <2> QED BY <2>1, <2>2, FS_Subset
<1>4. f \in Injection(R, 0..(k - 1))
  <2>1. \A x \in R : f[x] \in 0..(k - 1)
    <3> HIDE DEF Below, R
    <3>1. \A x \in R : x \in S /\ Cardinality(Below(x)) < k
      BY <1>1
    <3>2. ASSUME NEW x \in R PROVE Cardinality(Below(x)) \in 0..(k - 1)
      <4> DEFINE c == Cardinality(Below(x))
      <4>1. c \in Nat /\ c < k
        BY <1>2, <3>1
      <4> HIDE DEF c
      <4>2. c \in 0..(k - 1)
        BY <4>1
      <4> QED BY <4>2 DEF c
    <3> QED BY <3>2
  <2>2. ASSUME NEW x \in R, NEW y \in R, f[x] = f[y] PROVE x = y
    <3>1. x \in S /\ y \in S /\ x \in Nat /\ y \in Nat
      BY <1>1
    <3>2. Cardinality(Below(x)) = Cardinality(Below(y))
      BY <2>2
    <3>3. ~(x < y) /\ ~(y < x)
      BY <1>3, <3>1, <3>2
    <3> QED BY <3>1, <3>3
  <2>3. f \in [R -> 0..(k - 1)]
    BY <2>1
  <2> HIDE DEF f, R
  <2> QED BY <2>2, <2>3 DEF Injection, IsInjective
<1>5. IsFiniteSet(0..(k - 1)) /\ Cardinality(0..(k - 1)) = k
  <2>1. IsFiniteSet(0..(k - 1)) /\ Cardinality(0..(k - 1)) = IF 0 > k - 1 THEN 0 ELSE (k - 1) - 0 + 1
    BY FS_Interval
  <2> QED BY <2>1
<1>6. IsFiniteSet(R) /\ Cardinality(R) <= Cardinality(0..(k - 1))
  <2> HIDE DEF f, R
  <2> QED BY <1>4, <1>5, FS_Injection
<1>7. ASSUME k # 0, S # {} PROVE R # {}
  <2>0. S \subseteq Nat /\ S # {}
    BY <1>7
  <2>1. PICK x \in S : \A y \in S : x <= y
    BY <2>0, LeastNat
  <2>2. Below(x) = {}
    <3>1. \A y \in S : ~(y < x)
      BY <1>0, <2>1
    <3> QED BY <3>1, Zenon
  <2>3. Cardinality(Below(x)) = 0
    BY <2>2, FS_EmptySet
  <2> HIDE DEF Below
  <2> QED BY <1>1, <1>7, <2>3
<1> QED BY <1>5, <1>6, <1>7

\* Sets with no element in common.
LEMMA DisjointUnion ==
  ASSUME NEW S, NEW T, IsFiniteSet(S), IsFiniteSet(T), S \cap T = {}
  PROVE  IsFiniteSet(S \cup T) /\ Cardinality(S \cup T) = Cardinality(S) + Cardinality(T)
<1> DEFINE a == Cardinality(S)
           b == Cardinality(T)
           n == Cardinality(S \cap T)
           u == Cardinality(S \cup T)
<1>1. IsFiniteSet(S \cup T) /\ u = a + b - n
  BY FS_Union
<1>2. a \in Nat /\ b \in Nat /\ n = 0
  BY FS_CardinalityType, FS_EmptySet
<1> HIDE DEF a, b, n, u
<1>3. u = a + b
  BY <1>1, <1>2
<1> QED BY <1>1, <1>3 DEF a, b, u

\* In a set of ranges apart from each other at most one holds a piece.
Apart(R) == /\ \A r \in R : r.begin < r.end
            /\ \A r, q \in R : r # q => PiecesIn(r) \cap PiecesIn(q) = {}
Holders(R, p) == {r \in R : p \in PiecesIn(r)}

LEMMA HoldersCount ==
  ASSUME NEW R, Apart(R), NEW p
  PROVE  Cardinality(Holders(R, p)) = IF Holders(R, p) = {} THEN 0 ELSE 1
<1>1. CASE Holders(R, p) = {}
  BY <1>1, FS_EmptySet
<1>2. CASE Holders(R, p) # {}
  <2>1. PICK r : r \in Holders(R, p)
    BY <1>2
  <2>2. Holders(R, p) = {r}
    BY <2>1 DEF Holders, Apart
  <2> QED BY <1>2, <2>2, FS_Singleton
<1> QED BY <1>1, <1>2

\* Ranges apart from each other have ends and beginnings of their own.
LEMMA ApartEnds ==
  ASSUME NEW R, R \subseteq Ranges, Apart(R), NEW r \in R, NEW q \in R,
         r.end = q.end \/ r.begin = q.begin
  PROVE  r = q
<1>1. r.begin \in Nat /\ r.end \in Nat /\ q.begin \in Nat /\ q.end \in Nat
  BY DEF Ranges
<1>2. r.begin < r.end /\ q.begin < q.end
  BY DEF Apart
<1>3. CASE r.end = q.end
  <2>1. r.end - 1 \in PiecesIn(r) \cap PiecesIn(q)
    BY <1>1, <1>2, <1>3 DEF PiecesIn
  <2> QED BY <2>1 DEF Apart
<1>4. CASE r.begin = q.begin
  <2>1. r.begin \in PiecesIn(r) \cap PiecesIn(q)
    BY <1>1, <1>2, <1>4 DEF PiecesIn
  <2> QED BY <2>1 DEF Apart
<1> QED BY <1>3, <1>4

LEMMA MergedApart ==
  ASSUME RangesMerged
  PROVE  Apart(ranges)
BY DEF RangesMerged, Apart

\* The least and the greatest of a number and at most one other.
LEMMA MinMaxOfTwo ==
  ASSUME NEW x \in Nat, NEW y \in Nat
  PROVE  /\ Min({x}) = x /\ Max({x}) = x
         /\ x <= y => Min({y, x}) = x /\ Max({x, y}) = y
<1>1. Min({x}) = x /\ Max({x}) = x
  BY DEF Min, Max
<1>2. ASSUME x <= y PROVE Min({y, x}) = x /\ Max({x, y}) = y
  BY <1>2 DEF Min, Max
<1> QED BY <1>1, <1>2

\* What insert_range puts in the place of the ranges it joins.
Joins(x, s, gone, new) ==
    /\ InsertRange(x, s) = (ranges \ gone) \cup {new}
    /\ new \in Ranges /\ new.state = s /\ new.begin <= x /\ x < new.end
    /\ \A r \in gone : r.state = s
    /\ \A y : y \in PiecesIn(new) <=> y = x \/ \E r \in gone : y \in PiecesIn(r)
    /\ \A r \in ranges \ gone : r.end = new.begin \/ new.end = r.begin => r.state # s

LEMMA InsertRangeJoins ==
  ASSUME NEW x \in Nat, NEW s \in States, ranges \subseteq Ranges, RangesMerged,
         Holders(ranges, x) = {}
  PROVE  \E gone \in SUBSET ranges : \E new : Joins(x, s, gone, new)
<1> DEFINE B == {r \in ranges : r.end = x /\ r.state = s}
           A == {r \in ranges : r.begin = x + 1 /\ r.state = s}
           b == Min({x} \cup {r.begin : r \in B})
           e == Max({x + 1} \cup {r.end : r \in A})
           new == [begin |-> b, end |-> e, state |-> s]
<1>1. InsertRange(x, s) = (ranges \ (B \cup A)) \cup {new}
  BY DEF InsertRange
<1>2. \A r \in ranges : r.begin \in Nat /\ r.end \in Nat /\ r.begin < r.end
  BY DEF Ranges, RangesMerged
<1>3. B = {} => b = x
  BY MinMaxOfTwo
<1>4. ASSUME NEW r \in B PROVE B = {r} /\ b = r.begin /\ r.begin \in Nat /\ r.begin < x /\ r.end = x
  <2>1. B = {r}
    BY ApartEnds, MergedApart
  <2>2. r.begin \in Nat /\ r.begin < x /\ r.end = x
    BY <1>2
  <2> DEFINE begins == {x} \cup {q.begin : q \in B}
  <2>3. begins = {x, r.begin}
    BY <2>1
  <2>4. Min({x, r.begin}) = r.begin
    <3>1. r.begin <= x
      BY <2>2
    <3> QED BY <2>2, <3>1, MinMaxOfTwo
  <2>5. b = Min(begins)
    OBVIOUS
  <2> HIDE DEF B, b, begins
  <2>6. b = r.begin
    BY <2>3, <2>4, <2>5
  <2> QED BY <2>1, <2>2, <2>6
<1>5. A = {} => e = x + 1
  <2> DEFINE y == x + 1
  <2>1. y \in Nat
    OBVIOUS
  <2>2. A = {} => e = Max({y})
    OBVIOUS
  <2> HIDE DEF y, A, e
  <2>3. A = {} => e = y
    BY <2>1, <2>2, MinMaxOfTwo
  <2> QED BY <2>3 DEF y
<1>6. ASSUME NEW r \in A PROVE A = {r} /\ e = r.end /\ r.end \in Nat /\ x + 1 < r.end /\ r.begin = x + 1
  <2>1. A = {r}
    BY ApartEnds, MergedApart
  <2>2. r.end \in Nat /\ x + 1 < r.end /\ r.begin = x + 1 /\ x + 1 \in Nat
    BY <1>2
  <2> DEFINE ends == {x + 1} \cup {q.end : q \in A}
  <2>3. ends = {x + 1, r.end}
    BY <2>1
  <2>4. Max({x + 1, r.end}) = r.end
    <3> DEFINE y == x + 1
    <3>1. y \in Nat /\ y <= r.end
      BY <2>2
    <3> HIDE DEF y
    <3> DEFINE z == r.end
    <3>2. z \in Nat /\ y <= z
      BY <2>2, <3>1
    <3> HIDE DEF z
    <3>3. Max({y, z}) = z
      BY <3>1, <3>2, MinMaxOfTwo
    <3> QED BY <3>3 DEF y, z
  <2>5. e = Max(ends)
    OBVIOUS
  <2> HIDE DEF A, e, ends
  <2>6. e = r.end
    BY <2>3, <2>4, <2>5
  <2> QED BY <2>1, <2>2, <2>6
<1>7. b \in Nat /\ e \in Nat /\ b <= x /\ x < e
  <2>1. b \in Nat /\ b <= x
    <3> HIDE DEF b
    <3> QED BY <1>3, <1>4
  <2>2. e \in Nat /\ x < e
    <3> HIDE DEF e
    <3> QED BY <1>5, <1>6
  <2> QED BY <2>1, <2>2
<1>8. \A r \in B \cup A : r.state = s
  OBVIOUS
<1>9. ASSUME NEW y PROVE y \in PiecesIn(new) <=> y = x \/ \E r \in B \cup A : y \in PiecesIn(r)
  <2>1. y \in PiecesIn(new) <=> y \in Int /\ b <= y /\ y < e
    <3> HIDE DEF b, e
    <3> QED BY <1>7 DEF PiecesIn
  <2>2. (\E r \in B : y \in PiecesIn(r)) <=> y \in Int /\ b <= y /\ y < x
    <3>1. CASE B = {}
      <4> HIDE DEF b, B
      <4> QED BY <1>3, <3>1
    <3>2. ASSUME NEW r \in B PROVE (\E q \in B : y \in PiecesIn(q)) <=> y \in Int /\ b <= y /\ y < x
      <4> HIDE DEF b, B
      <4>1. B = {r} /\ b = r.begin /\ r.begin \in Nat /\ r.end = x
        BY <1>4
      <4>2. y \in PiecesIn(r) <=> y \in Int /\ b <= y /\ y < x
        BY <4>1 DEF PiecesIn
      <4> QED BY <4>1, <4>2
    <3> HIDE DEF b, B
    <3> QED BY <3>1, <3>2
  <2>3. (\E r \in A : y \in PiecesIn(r)) <=> y \in Int /\ x + 1 <= y /\ y < e
    <3>1. CASE A = {}
      <4> HIDE DEF e, A
      <4> QED BY <1>5, <3>1
    <3>2. ASSUME NEW r \in A PROVE (\E q \in A : y \in PiecesIn(q)) <=> y \in Int /\ x + 1 <= y /\ y < e
      <4> HIDE DEF e, A
      <4>1. A = {r} /\ e = r.end /\ r.end \in Nat /\ r.begin = x + 1
        BY <1>6
      <4>2. y \in PiecesIn(r) <=> y \in Int /\ x + 1 <= y /\ y < e
        BY <4>1 DEF PiecesIn
      <4> QED BY <4>1, <4>2
    <3> HIDE DEF e, A
    <3> QED BY <3>1, <3>2
  <2> DEFINE inB == \E r \in B : y \in PiecesIn(r)
             inA == \E r \in A : y \in PiecesIn(r)
  <2>4. (\E r \in B \cup A : y \in PiecesIn(r)) <=> inB \/ inA
    BY Zenon
  <2>5. inB <=> y \in Int /\ b <= y /\ y < x
    BY <2>2
  <2>6. inA <=> y \in Int /\ x + 1 <= y /\ y < e
    BY <2>3
  <2>7. y \in PiecesIn(new) <=> y = x \/ inB \/ inA
    <3> HIDE DEF b, e, inA, inB, new
    <3> QED BY <1>7, <2>1, <2>5, <2>6
  <2> HIDE DEF inA, inB, A, B, new
  <2> QED BY <2>4, <2>7
<1>10. ASSUME NEW r \in ranges \ (B \cup A), r.end = b \/ e = r.begin PROVE r.state # s
  <2>1. ASSUME r.end = b PROVE r.state # s
    <3>1. CASE B = {}
      BY <1>3, <1>10, <2>1, <3>1
    <3>2. ASSUME NEW q \in B PROVE r.state # s
      <4>1. r.end = q.begin /\ r # q /\ q \in ranges /\ q.state = s
        BY <1>4, <1>10, <2>1
      <4> QED BY <4>1 DEF RangesMerged
    <3> QED BY <3>1, <3>2
  <2>2. ASSUME e = r.begin PROVE r.state # s
    <3>1. CASE A = {}
      BY <1>5, <1>10, <2>2, <3>1
    <3>2. ASSUME NEW q \in A PROVE r.state # s
      <4>1. q.end = r.begin /\ r # q /\ q \in ranges /\ q.state = s
        BY <1>6, <1>10, <2>2
      <4> QED BY <4>1 DEF RangesMerged
    <3> QED BY <3>1, <3>2
  <2> QED BY <1>10, <2>1, <2>2
<1>11. new \in Ranges /\ new.state = s /\ new.begin = b /\ new.end = e
  <2> HIDE DEF b, e
  <2> QED BY <1>7 DEF Ranges
<1> HIDE DEF b, e, new
<1>12. Joins(x, s, B \cup A, new)
  <2> HIDE DEF A, B
  <2> QED BY <1>1, <1>7, <1>8, <1>9, <1>10, <1>11 DEF Joins
<1>13. B \cup A \in SUBSET ranges
  OBVIOUS
<1> QED BY <1>12, <1>13

\* Joining keeps the ranges merged and finite, and adds no piece but the new one.
LEMMA JoinsKeeps ==
  ASSUME NEW x \in Nat, NEW s \in States, ranges \subseteq Ranges, RangesMerged,
         IsFiniteSet(ranges), Holders(ranges, x) = {},
         NEW gone \in SUBSET ranges, NEW new, Joins(x, s, gone, new),
         ranges' = InsertRange(x, s)
  PROVE  /\ RangesMerged' /\ IsFiniteSet(ranges') /\ ranges' \subseteq Ranges
         /\ \A p : Holders(ranges', p) # {} <=> p = x \/ Holders(ranges, p) # {}
<1>1. ranges' = (ranges \ gone) \cup {new}
  BY DEF Joins
<1>2. \A r \in ranges \ gone : PiecesIn(r) \cap PiecesIn(new) = {}
  <2>1. ASSUME NEW r \in ranges \ gone, NEW y \in PiecesIn(r), y \in PiecesIn(new) PROVE FALSE
    <3>1. y = x \/ \E q \in gone : y \in PiecesIn(q)
      BY <2>1 DEF Joins
    <3>2. y # x
      BY <2>1 DEF Holders
    <3>3. PICK q \in gone : y \in PiecesIn(q)
      BY <3>1, <3>2
    <3>4. q \in ranges /\ q # r /\ r \in ranges
      BY <2>1, <3>3
    <3> QED BY <2>1, <3>3, <3>4 DEF RangesMerged
  <2> QED BY <2>1
<1>3. \A r \in ranges' : r.begin < r.end
  <2>1. \A r \in ranges : r.begin < r.end
    BY DEF RangesMerged
  <2>2. new.begin < new.end
    <3>1. new.begin \in Nat /\ new.end \in Nat /\ new.begin <= x /\ x < new.end
      BY DEF Joins, Ranges
    <3> QED BY <3>1
  <2> QED BY <1>1, <2>1, <2>2
<1>4. ASSUME NEW r \in ranges', NEW q \in ranges', r # q
      PROVE  PiecesIn(r) \cap PiecesIn(q) = {} /\ (r.end = q.begin => r.state # q.state)
  <2>1. CASE r = new
    <3>1. q \in ranges \ gone
      BY <1>1, <1>4, <2>1
    <3>2. new.end = q.begin => q.state # new.state
      BY <3>1 DEF Joins
    <3> QED BY <1>2, <2>1, <3>1, <3>2
  <2>2. CASE q = new
    <3>1. r \in ranges \ gone
      BY <1>1, <1>4, <2>2
    <3>2. r.end = new.begin => r.state # new.state
      BY <3>1 DEF Joins
    <3> QED BY <1>2, <2>2, <3>1, <3>2
  <2>3. CASE r # new /\ q # new
    <3>1. r \in ranges /\ q \in ranges
      BY <1>1, <2>3
    <3> QED BY <1>4, <3>1 DEF RangesMerged
  <2> QED BY <2>1, <2>2, <2>3
<1>5. RangesMerged'
  BY <1>3, <1>4 DEF RangesMerged, PiecesIn
<1>6. IsFiniteSet(ranges')
  <2>1. ranges \ gone \in SUBSET ranges
    OBVIOUS
  <2>2. IsFiniteSet(ranges \ gone)
    BY <2>1, FS_Subset
  <2>3. IsFiniteSet((ranges \ gone) \cup {new})
    BY <2>2, FS_AddElement
  <2> QED BY <1>1, <2>3
<1>7. ranges' \subseteq Ranges
  BY <1>1 DEF Joins
<1>8. ASSUME NEW p PROVE Holders(ranges', p) # {} <=> p = x \/ Holders(ranges, p) # {}
  <2>1. p \in PiecesIn(new) <=> p = x \/ \E r \in gone : p \in PiecesIn(r)
    BY DEF Joins
  <2> QED BY <1>1, <2>1 DEF Holders
<1> QED BY <1>5, <1>6, <1>7, <1>8
-----------------------------------------------------------------------------
(* The publisher *)

\* What the type invariant says of the pieces and of the files.
Laid ==
    /\ IsFiniteSet(Pieces) /\ Pieces \subseteq Nat
    /\ \A n \in Nat : n \notin Pieces => \A p \in Pieces : p < n
    /\ IsFiniteSet(Reported(torrent)) /\ Reported(torrent) \subseteq Nat
    /\ \A p \in Pieces : DOMAIN layouts[p].overlaps \subseteq Reported(torrent)
    /\ \A p \in Pieces : \A f \in DOMAIN layouts[p].overlaps : layouts[p].overlaps[f] \in Nat
    /\ \A f \in Reported(torrent) : \A p \in Pieces :
         /\ BytesIn(layouts, f)[p] = IF f \in DOMAIN layouts[p].overlaps
                                     THEN layouts[p].overlaps[f] ELSE 0
         /\ BytesIn(layouts, f)[p] \in Nat

LEMMA TypeLaid ==
  ASSUME TypeOK
  PROVE  IsTorrent(torrent) /\ Laid
<1>1. IsTorrent(torrent)
  BY TorrentsAssumption DEF TypeOK
<1>2. /\ IsFiniteSet(Pieces) /\ Pieces \subseteq Nat
      /\ \A n \in Nat : n \notin Pieces => \A p \in Pieces : p < n
      /\ \A p \in Pieces : DOMAIN layouts[p].overlaps \subseteq Reported(torrent)
      /\ \A p \in Pieces : \A f \in DOMAIN layouts[p].overlaps : layouts[p].overlaps[f] \in Nat
  <2>1. CASE layouts = NoLayouts
    <3>1. Pieces = {}
      BY <2>1 DEF Pieces, NoLayouts
    <3> QED BY <3>1, FS_EmptySet
  <2>2. CASE Inspected
    <3>1. layouts = Layouts(torrent, preflight)
      BY <2>2 DEF Inspected
    <3>2. /\ DOMAIN layouts = 0..(PieceCount(torrent) - 1) /\ DOMAIN layouts \subseteq Nat
          /\ IsFiniteSet(DOMAIN layouts)
          /\ \A p \in DOMAIN layouts : DOMAIN layouts[p].overlaps \subseteq Reported(torrent)
          /\ \A p \in DOMAIN layouts : \A f \in DOMAIN layouts[p].overlaps :
               layouts[p].overlaps[f] \in Nat \ {0}
      BY <1>1, <3>1, LayoutBytes
    <3>3. PieceCount(torrent) \in Nat
      BY <1>1, PieceCountCovers
    <3>4. \A n \in Nat : n \notin DOMAIN layouts => \A p \in DOMAIN layouts : p < n
      BY <3>2, <3>3
    <3> QED BY <3>2, <3>4 DEF Pieces
  <2> QED BY <2>1, <2>2 DEF TypeOK
<1>3. IsFiniteSet(Reported(torrent)) /\ Reported(torrent) \subseteq Nat
  <2>1. Len(torrent.files) \in Nat /\ DOMAIN torrent.files = 1..Len(torrent.files)
    BY <1>1, FilesTyped
  <2>2. IsFiniteSet(DOMAIN torrent.files) /\ DOMAIN torrent.files \subseteq Nat
    BY <2>1, FS_Interval
  <2>3. Reported(torrent) \in SUBSET DOMAIN torrent.files
    BY DEF Reported
  <2> QED BY <2>2, <2>3, FS_Subset
<1>4. \A f \in Reported(torrent) : \A p \in Pieces :
         /\ BytesIn(layouts, f)[p] = IF f \in DOMAIN layouts[p].overlaps
                                     THEN layouts[p].overlaps[f] ELSE 0
         /\ BytesIn(layouts, f)[p] \in Nat
  <2>1. \A f : \A p \in Pieces :
          BytesIn(layouts, f)[p] = IF f \in DOMAIN layouts[p].overlaps
                                   THEN layouts[p].overlaps[f] ELSE 0
    BY DEF BytesIn, Pieces
  <2> QED BY <1>2, <2>1
<1> QED BY <1>1, <1>2, <1>3, <1>4 DEF Laid

\* The part of the invariant that only the publisher's steps disturb.
Published == PublisherTypeOK /\ PublisherInv /\ QuietAfterCancel /\ RecordsTrue

\* Where a piece is that was recorded, and that it is nowhere before.
LEMMA Whereabouts ==
  ASSUME PublisherTypeOK, OnceEach, NEW p \in Pieces
  PROVE  LET holders == Holders(ranges \cup page.ranges, p) IN
         /\ shownPieces[p]["Verified"] \in Nat /\ shownPieces[p]["Mismatched"] \in Nat
         /\ IsFiniteSet(holders)
         /\ p \notin emitted => /\ holders = {}
                                /\ \A s \in States : shownPieces[p][s] = 0
         /\ holders # {} => \A s \in States : shownPieces[p][s] = 0
         /\ p \in emitted /\ holders = {} => \E s \in States : shownPieces[p][s] = 1
         /\ \A s, z \in States : shownPieces[p][s] > 0 /\ shownPieces[p][z] > 0 => s = z
         /\ \A s \in States : shownPieces[p][s] <= 1
<1> DEFINE holders == Holders(ranges \cup page.ranges, p)
           v == shownPieces[p]["Verified"]
           m == shownPieces[p]["Mismatched"]
<1>1. v \in Nat /\ m \in Nat
  BY DEF PublisherTypeOK, States
<1>2. holders \in SUBSET (ranges \cup page.ranges) /\ IsFiniteSet(ranges \cup page.ranges)
  BY FS_Union DEF PublisherTypeOK, Holders
<1>3. IsFiniteSet(holders) /\ Cardinality(holders) \in Nat /\ (Cardinality(holders) = 0 <=> holders = {})
  <2> HIDE DEF holders
  <2> QED BY <1>2, FS_Subset, FS_CardinalityType, FS_EmptySet
<1>4. Cardinality(holders) + (v + m) = IF p \in emitted THEN 1 ELSE 0
  BY DEF OnceEach, Holders
<1>5. \A s \in States : shownPieces[p][s] = v \/ shownPieces[p][s] = m
  BY DEF States
<1> HIDE DEF holders, v, m
<1>6. /\ p \notin emitted => holders = {} /\ v = 0 /\ m = 0
      /\ holders # {} => v = 0 /\ m = 0
      /\ p \in emitted /\ holders = {} => v = 1 \/ m = 1
      /\ (v = 0 \/ m = 0) /\ v <= 1 /\ m <= 1
  <2> DEFINE c == Cardinality(holders)
  <2>1. c \in Nat /\ (c = 0 <=> holders = {}) /\ c + (v + m) = IF p \in emitted THEN 1 ELSE 0
    BY <1>3, <1>4
  <2> HIDE DEF c
  <2> QED BY <1>1, <2>1
<1> QED BY <1>1, <1>3, <1>5, <1>6 DEF holders, v, m, States

\* A step that leaves the publisher's data alone, but may start or end the paging.
LEMMA PagingOnly ==
  ASSUME Published,
         UNCHANGED <<input, emitted, tally, changed, pending, ranges, sequence, page, shown, good>>,
         cancelled => cancelled',
         paging' = paging \/ (paging # "callback" /\ paging' \in {"off", "page"})
  PROVE  Published'
<1> USE DEF input, shown
<1>1. Pieces' = Pieces
  BY DEF Pieces
<1>2. PublisherTypeOK'
  BY <1>1 DEF Published, PublisherTypeOK
<1>3. PublisherInv'
  BY <1>1 DEF Published, PublisherInv, PendingExact, RangesMerged, OnceEach, CountersTold,
              PagesBounded, NoPage
<1>4. QuietAfterCancel'
  BY DEF Published, QuietAfterCancel
<1>5. RecordsTrue'
  <2>1. Hashable' = Hashable
    BY <1>1 DEF Hashable
  <2>2. \A p : \A s : Final(p, s)' = Final(p, s)
    BY <2>1 DEF Final
  <2>3. \A f, P : Bytes(f, P)' = Bytes(f, P)
    BY DEF Bytes
  <2> QED BY <1>1, <2>1, <2>2, <2>3 DEF Published, RecordsTrue
<1> QED BY <1>2, <1>3, <1>4, <1>5 DEF Published

\* record, with the state the piece finally has.
LEMMA RecordKeeps ==
  ASSUME Laid, Published, NEW x \in Nat, NEW s \in States, Record(x, s), good' = good,
         x \in Hashable => Final(x, s)
  PROVE  Published'
<1> USE DEF input, shown
<1>0. paging = "off" /\ page = NoPage /\ page' = NoPage /\ UNCHANGED <<sequence, page>>
  BY DEF Record, Published, PublisherTypeOK, publisher
<1>1. CASE ~Recordable(x)
  BY <1>1, PagingOnly DEF Record, publisher
<1>2. CASE Recordable(x)
  <2> DEFINE touched == DOMAIN layouts[x].overlaps
             Added(f) == AddBytes(tally[f], layouts[x].overlaps[f], s = "Verified")
  <2>1. /\ x \in Pieces /\ x \notin emitted /\ ~cancelled /\ Final(x, s) /\ x \in Hashable
        /\ emitted' = emitted \cup {x} /\ ranges' = InsertRange(x, s)
        /\ changed' = changed \cup touched
        /\ pending' = pending + Cardinality(touched \ changed)
        /\ tally' = [f \in DOMAIN tally |-> IF f \in touched THEN Added(f) ELSE tally[f]]
        /\ paging' \in {"off", "page"} /\ cancelled' = cancelled
        /\ UNCHANGED <<torrent, layouts, shownPieces, shownTally, late>>
    BY <1>2 DEF Record, Recordable, Hashable, StartPaging
  <2>2. /\ touched \in SUBSET Reported(torrent)
        /\ \A f \in touched : layouts[x].overlaps[f] \in Nat
        /\ \A f \in Reported(torrent) :
             /\ BytesIn(layouts, f)[x] = IF f \in touched THEN layouts[x].overlaps[f] ELSE 0
             /\ \A p \in Pieces : BytesIn(layouts, f)[p] \in Nat
    BY <2>1 DEF Laid
  <2>3. /\ ranges \subseteq Ranges /\ RangesMerged /\ IsFiniteSet(ranges) /\ OnceEach
        /\ PublisherTypeOK /\ PendingExact /\ CountersTold /\ RecordsTrue /\ QuietAfterCancel
    BY DEF Published, PublisherInv, PublisherTypeOK
  <2>4. ranges \cup page.ranges = ranges /\ ranges' \cup page'.ranges = ranges'
    BY <1>0 DEF NoPage
  <2>5. Holders(ranges, x) = {} /\ \A z \in States : shownPieces[x][z] = 0
    BY <2>1, <2>3, <2>4, Whereabouts
  <2>6. PICK gone \in SUBSET ranges : \E new : Joins(x, s, gone, new)
    BY <2>3, <2>5, InsertRangeJoins
  <2>7. PICK new : Joins(x, s, gone, new)
    BY <2>6
  <2>8. /\ RangesMerged' /\ IsFiniteSet(ranges') /\ ranges' \subseteq Ranges
        /\ \A p : Holders(ranges', p) # {} <=> p = x \/ Holders(ranges, p) # {}
    BY <2>1, <2>3, <2>5, <2>7, JoinsKeeps
  <2>9. \A r \in ranges' : \A p \in PiecesIn(r) :
          \/ r \in ranges
          \/ r.state = s /\ p = x
          \/ \E q \in ranges : p \in PiecesIn(q) /\ q.state = r.state
    BY <2>1, <2>7 DEF Joins
  <2>10. Pieces' = Pieces
    BY <2>1 DEF Pieces
  <2> HIDE DEF Added
  <2>11. OnceEach'
    <3>1. ASSUME NEW p \in Pieces
          PROVE  Cardinality(Holders(ranges', p)) + (shownPieces[p]["Verified"] + shownPieces[p]["Mismatched"])
                   = IF p \in emitted' THEN 1 ELSE 0
      <4>1. Cardinality(Holders(ranges, p)) + (shownPieces[p]["Verified"] + shownPieces[p]["Mismatched"])
              = IF p \in emitted THEN 1 ELSE 0
        BY <2>3, <2>4 DEF OnceEach, Holders
      <4>2. /\ Cardinality(Holders(ranges, p)) = IF Holders(ranges, p) = {} THEN 0 ELSE 1
            /\ Cardinality(Holders(ranges', p)) = IF Holders(ranges', p) = {} THEN 0 ELSE 1
        <5>1. Apart(ranges) /\ Apart(ranges')
          BY <2>3, <2>8, MergedApart DEF RangesMerged, Apart, PiecesIn
        <5> QED BY <5>1, HoldersCount
      <4>3. CASE p = x
        BY <2>1, <2>5, <2>8, <4>2, <4>3 DEF States
      <4>4. CASE p # x
        BY <2>1, <2>8, <4>1, <4>2, <4>4
      <4> QED BY <4>3, <4>4
    <3>2. ranges' \cap page'.ranges = {}
      BY <1>0 DEF NoPage
    <3> QED BY <2>1, <2>4, <2>10, <3>1, <3>2 DEF OnceEach, Holders, PiecesIn
  <2>12. pending' = Cardinality(changed') /\ pending' \in Nat
    <3>1. changed \in SUBSET Reported(torrent) /\ IsFiniteSet(Reported(torrent))
      BY <2>3 DEF Laid, PublisherTypeOK
    <3> HIDE DEF touched
    <3>2. touched \ changed \in SUBSET Reported(torrent)
      BY <2>2
    <3>3. IsFiniteSet(changed) /\ IsFiniteSet(touched \ changed)
      BY <3>1, <3>2, FS_Subset
    <3>4. /\ changed' = changed \cup (touched \ changed) /\ changed \cap (touched \ changed) = {}
      BY <2>1
    <3>5. Cardinality(changed') = Cardinality(changed) + Cardinality(touched \ changed)
          /\ IsFiniteSet(changed')
      BY <3>3, <3>4, DisjointUnion
    <3> QED BY <2>1, <2>3, <3>3, <3>5, FS_CardinalityType DEF PendingExact
  <2>13. /\ DOMAIN tally = Reported(torrent)
         /\ \A f \in Reported(torrent) :
           /\ tally[f] \in Counters
           /\ tally'[f] = IF f \in touched THEN Added(f) ELSE tally[f]
    BY <2>1, <2>3 DEF PublisherTypeOK
  <2>14. \A f \in touched : Added(f) \in Counters
    <3>1. ASSUME NEW f \in touched PROVE Added(f) \in Counters
      <4>1. tally[f] \in Counters /\ layouts[x].overlaps[f] \in Nat
        BY <2>2, <2>13
      <4> QED BY <4>1 DEF Added, AddBytes, Counters
    <3> QED BY <3>1
  <2>15. PublisherTypeOK'
    <3>1. tally' \in [Reported(torrent) -> Counters]
      <4> HIDE DEF touched
      <4> QED BY <2>1, <2>13, <2>14
    <3>2. \A r \in ranges' : PiecesIn(r) \subseteq Pieces
      <4>1. \A q \in ranges : PiecesIn(q) \subseteq Pieces
        BY <2>3 DEF PublisherTypeOK
      <4> QED BY <2>1, <2>9, <4>1
    <3>3. emitted' \subseteq Pieces /\ changed' \subseteq Reported(torrent)
      BY <2>1, <2>2, <2>3 DEF PublisherTypeOK
    <3> HIDE DEF touched
    <3>4. \A r \in ranges' : PiecesIn(r)' = PiecesIn(r)
      BY DEF PiecesIn
    <3> QED BY <1>0, <2>1, <2>3, <2>4, <2>8, <2>10, <2>12, <3>1, <3>2, <3>3, <3>4
            DEF PublisherTypeOK
  <2>16. CountersTold'
    BY <1>0, <2>1, <2>3, <2>13 DEF CountersTold
  <2>17. PublisherInv'
    BY <2>1, <2>8, <2>11, <2>12, <2>16 DEF PublisherInv, PendingExact, PagesBounded
  <2>18. QuietAfterCancel'
    BY <2>1, <2>3 DEF QuietAfterCancel
  <2>19. Hashable' = Hashable /\ (\A p : \A z : Final(p, z)' = Final(p, z))
    BY <2>1, <2>10 DEF Hashable, Final
  <2>20. \A f \in Reported(torrent) :
           tally'[f] = [hashed |-> Bytes(f, emitted'), verified |-> Bytes(f, emitted' \cap good),
                        mismatched |-> Bytes(f, emitted' \ good)]
    <3> SUFFICES ASSUME NEW f \in Reported(torrent)
                 PROVE  tally'[f] = [hashed |-> Bytes(f, emitted'),
                                     verified |-> Bytes(f, emitted' \cap good),
                                     mismatched |-> Bytes(f, emitted' \ good)]
      OBVIOUS
    <3> DEFINE g == BytesIn(layouts, f)
    <3>1. /\ tally[f] = [hashed |-> Bytes(f, emitted), verified |-> Bytes(f, emitted \cap good),
                         mismatched |-> Bytes(f, emitted \ good)]
      BY <2>3 DEF RecordsTrue
    <3>2. g[x] = IF f \in touched THEN layouts[x].overlaps[f] ELSE 0
      BY <2>2
    <3>3. x \in Pieces /\ (\A p \in Pieces : g[p] \in Nat) /\ emitted \in SUBSET Pieces
          /\ IsFiniteSet(Pieces)
      BY <2>1, <2>2, <2>3 DEF Laid, PublisherTypeOK
    <3> HIDE DEF g, touched
    <3>4. ASSUME NEW P \in SUBSET Pieces, x \notin P
          PROVE  Bytes(f, P \cup {x}) = Bytes(f, P) + g[x] /\ Bytes(f, P) \in Nat
      <4>1. IsFiniteSet(P)
        BY <3>3, FS_Subset
      <4>2. SumFunctionOnSet(g, P \cup {x}) = SumFunctionOnSet(g, P) + g[x]
        BY <3>3, <3>4, <4>1, SumAdd
      <4>3. SumFunctionOnSet(g, P) \in Nat
        BY <3>3, <4>1, SumType
      <4> QED BY <4>2, <4>3 DEF Bytes, g
    <3>5. /\ Bytes(f, emitted') = Bytes(f, emitted) + g[x] /\ Bytes(f, emitted) \in Nat
          /\ Bytes(f, (emitted \cap good) \cup {x}) = Bytes(f, emitted \cap good) + g[x]
          /\ Bytes(f, (emitted \ good) \cup {x}) = Bytes(f, emitted \ good) + g[x]
          /\ Bytes(f, emitted \cap good) \in Nat /\ Bytes(f, emitted \ good) \in Nat
      BY <2>1, <3>3, <3>4
    <3>6. tally'[f] = AddBytes(tally[f], g[x], s = "Verified")
      <4>1. CASE f \in touched
        BY <2>13, <3>2, <4>1 DEF Added
      <4>2. CASE f \notin touched
        <5>1. tally'[f] = tally[f] /\ g[x] = 0
          BY <2>13, <3>2, <4>2
        <5> QED BY <3>1, <3>5, <5>1 DEF AddBytes
      <4> QED BY <4>1, <4>2
    <3>7. x \in good <=> s = "Verified"
      BY <2>1 DEF Final
    <3> DEFINE h == Bytes(f, emitted)
               v == Bytes(f, emitted \cap good)
               m == Bytes(f, emitted \ good)
    <3>10. /\ s = "Verified" =>
                tally'[f] = [hashed |-> h + g[x], verified |-> v + g[x], mismatched |-> m + 0]
           /\ s # "Verified" =>
                tally'[f] = [hashed |-> h + g[x], verified |-> v + 0, mismatched |-> m + g[x]]
      <4>1. tally[f].hashed = h /\ tally[f].verified = v /\ tally[f].mismatched = m
        BY <3>1
      <4> HIDE DEF h, v, m
      <4> QED BY <3>6, <4>1 DEF AddBytes
    <3>11. v + 0 = v /\ m + 0 = m
      BY <3>5
    <3>8. CASE x \in good
      <4>1. emitted' \cap good = (emitted \cap good) \cup {x} /\ emitted' \ good = emitted \ good
        BY <2>1, <3>8
      <4> QED BY <3>5, <3>7, <3>8, <3>10, <3>11, <4>1
    <3>9. CASE x \notin good
      <4>1. emitted' \ good = (emitted \ good) \cup {x} /\ emitted' \cap good = emitted \cap good
        BY <2>1, <3>9
      <4> QED BY <3>5, <3>7, <3>9, <3>10, <3>11, <4>1
    <3> QED BY <3>8, <3>9
  <2>21. RecordsTrue'
    <3>1. emitted' \subseteq Hashable
      BY <2>1, <2>3 DEF RecordsTrue
    <3>2. \A r \in ranges' : \A p \in PiecesIn(r) : Final(p, r.state)
      BY <2>1, <2>3, <2>9 DEF RecordsTrue
    <3>3. \A f, P : Bytes(f, P)' = Bytes(f, P)
      BY <2>1 DEF Bytes
    <3>4. \A f \in Reported(torrent)' :
            tally'[f] = [hashed |-> Bytes(f, emitted)', verified |-> Bytes(f, emitted \cap good)',
                         mismatched |-> Bytes(f, emitted \ good)']
      <4> HIDE DEF touched
      <4>1. Reported(torrent)' = Reported(torrent)
        BY <2>1
      <4>2. good' = good
        OBVIOUS
      <4> QED BY <2>20, <3>3, <4>1, <4>2
    <3> HIDE DEF touched
    <3>5. (\A p \in Pieces : \A z \in States : shownPieces[p][z] > 0 => Final(p, z))'
      BY <2>1, <2>3, <2>10, <2>19 DEF RecordsTrue
    <3>6. (\A r \in ranges \cup page.ranges : \A p \in PiecesIn(r) : Final(p, r.state))'
      BY <2>4, <2>19, <3>2 DEF PiecesIn
    <3> QED BY <2>19, <3>1, <3>4, <3>5, <3>6 DEF RecordsTrue
  <2> QED BY <2>15, <2>17, <2>18, <2>21 DEF Published
<1> QED BY <1>1, <1>2

\* One round of deliver's loop up to the call.
LEMMA GatherKeeps ==
  ASSUME Laid, Published, Gather, good' = good
  PROVE  Published'
<1> USE DEF input, shown
<1> DEFINE files == Smallest(MaxFiles, changed)
           begins == {q.begin : q \in ranges}
           least == Smallest(MaxRanges, begins)
           first == {r \in ranges : r.begin \in least}
<1>1. /\ paging = "page" /\ paging' = "callback" /\ MorePages
      /\ page' = [ranges |-> first, files |-> [f \in files |-> tally[f]]]
      /\ changed' = changed \ files /\ pending' = pending - Cardinality(files)
      /\ ranges' = ranges \ first /\ sequence' = sequence + 1
      /\ UNCHANGED <<torrent, layouts, cancelled, emitted, tally, shownPieces, shownTally, late>>
  BY DEF Gather
<1>2. /\ PublisherTypeOK /\ PendingExact /\ RangesMerged /\ OnceEach /\ CountersTold
      /\ QuietAfterCancel /\ RecordsTrue /\ page = NoPage /\ page.ranges = {}
      /\ page.files = [f \in {} |-> NoBytes]
  BY <1>1 DEF Published, PublisherInv, PublisherTypeOK, NoPage
<1>3. /\ MaxRanges \in Nat /\ MaxRanges # 0 /\ MaxFiles \in Nat /\ MaxFiles # 0
  BY PublisherAssumption
<1>4. /\ IsFiniteSet(files) /\ Cardinality(files) <= MaxFiles /\ files \subseteq changed
      /\ (changed # {} => files # {})
      /\ Cardinality(changed \ files) = Cardinality(changed) - Cardinality(files)
      /\ Cardinality(changed \ files) \in Nat
  <2>1. changed \in SUBSET Nat /\ IsFiniteSet(changed)
    <3>1. changed \in SUBSET Reported(torrent) /\ IsFiniteSet(Reported(torrent))
          /\ Reported(torrent) \subseteq Nat
      BY <1>2 DEF Laid, PublisherTypeOK
    <3> QED BY <3>1, FS_Subset
  <2>2. files \subseteq changed
    BY DEF Smallest
  <2>3. changed \cap files = files /\ changed \ files \in SUBSET changed
    BY <2>2
  <2>4. IsFiniteSet(files) /\ Cardinality(files) <= MaxFiles /\ (changed # {} => files # {})
    BY <1>3, <2>1, SmallestBounded
  <2> HIDE DEF files
  <2>5. IsFiniteSet(changed \ files) /\ Cardinality(changed \ files) \in Nat
    BY <2>1, <2>3, FS_Subset, FS_CardinalityType
  <2>6. Cardinality(changed \ files) = Cardinality(changed) - Cardinality(changed \cap files)
    BY <2>1, FS_Difference
  <2> QED BY <2>2, <2>3, <2>4, <2>5, <2>6
<1>5. /\ IsFiniteSet(first) /\ Cardinality(first) <= MaxRanges
      /\ (ranges # {} => first # {})
  <2>1. \A r \in ranges : r.begin \in Nat
    BY <1>2 DEF PublisherTypeOK, Ranges
  <2>2. begins \in SUBSET Nat /\ (ranges # {} => begins # {})
    BY <2>1
  <2>3. IsFiniteSet(begins)
    <3> DEFINE b == [r \in ranges |-> r.begin]
    <3>1. b \in Surjection(ranges, begins)
      BY DEF Surjection
    <3>2. IsFiniteSet(ranges)
      BY <1>2 DEF PublisherTypeOK
    <3> HIDE DEF b, begins
    <3> QED BY <3>1, <3>2, FS_Surjection
  <2>4. IsFiniteSet(least) /\ Cardinality(least) <= MaxRanges /\ (begins # {} => least # {})
    <3> HIDE DEF begins
    <3> QED BY <1>3, <2>2, <2>3, SmallestBounded
  <2>5. least \subseteq begins
    BY DEF Smallest
  <2> DEFINE b == [r \in first |-> r.begin]
  <2>6. b \in Injection(first, least)
    <3>1. b \in [first -> least]
      OBVIOUS
    <3>2. ASSUME NEW r \in first, NEW q \in first, b[r] = b[q] PROVE r = q
      <4>1. r \in ranges /\ q \in ranges /\ r.begin = q.begin
        BY <3>2
      <4>2. Apart(ranges) /\ ranges \subseteq Ranges
        BY <1>2, MergedApart DEF PublisherTypeOK
      <4> QED BY <4>1, <4>2, ApartEnds
    <3> HIDE DEF b, first, least
    <3> QED BY <3>1, <3>2 DEF Injection, IsInjective
  <2>7. ranges # {} => first # {}
    <3> HIDE DEF least
    <3> QED BY <2>2, <2>4, <2>5
  <2>8. IsFiniteSet(first) /\ Cardinality(first) <= Cardinality(least)
    <3> HIDE DEF b, first, least
    <3> QED BY <2>4, <2>6, FS_Injection
  <2>9. Cardinality(first) \in Nat /\ Cardinality(least) \in Nat
    <3> HIDE DEF first, least
    <3> QED BY <2>4, <2>8, FS_CardinalityType
  <2> HIDE DEF first, least
  <2> QED BY <1>3, <2>4, <2>7, <2>8, <2>9
<1>6. /\ page'.ranges = first /\ page'.files = [f \in files |-> tally[f]]
      /\ ranges' \cup page'.ranges = ranges /\ ranges' \cap page'.ranges = {}
      /\ ranges \cup page.ranges = ranges /\ first \subseteq ranges
  BY <1>1, <1>2
<1>7. Pieces' = Pieces
  BY <1>1 DEF Pieces
<1> HIDE DEF files, first, begins, least
<1>8. PublisherTypeOK'
  <2>0. \A f \in DOMAIN page'.files : page'.files[f] \in Counters
    BY <1>2, <1>4, <1>6 DEF PublisherTypeOK
  <2>1. ranges' \subseteq ranges /\ IsFiniteSet(ranges')
    BY <1>1, <1>2, FS_Subset DEF PublisherTypeOK
  <2>2. \A r \in ranges : PiecesIn(r) \subseteq Pieces
    BY <1>2 DEF PublisherTypeOK
  <2>3. \A r : PiecesIn(r)' = PiecesIn(r)
    BY DEF PiecesIn
  <2>4. pending' \in Nat /\ sequence' \in Nat \ {0} /\ changed' \subseteq changed
    BY <1>1, <1>2, <1>4 DEF PendingExact, PublisherTypeOK
  <2>5. (\A r \in ranges \cup page.ranges : PiecesIn(r) \subseteq Pieces)'
    BY <1>6, <1>7, <2>2, <2>3
  <2>6. changed \subseteq Reported(torrent) /\ ranges \subseteq Ranges /\ Reported(torrent)' = Reported(torrent)
    BY <1>1, <1>2 DEF PublisherTypeOK
  <2> QED BY <1>1, <1>2, <1>5, <1>6, <1>7, <2>0, <2>1, <2>4, <2>5, <2>6 DEF PublisherTypeOK
<1>9. PendingExact'
  BY <1>1, <1>2, <1>4 DEF PendingExact
<1>10. RangesMerged'
  BY <1>1, <1>2 DEF RangesMerged, PiecesIn
<1>11. OnceEach'
  BY <1>1, <1>2, <1>6, <1>7 DEF OnceEach, PiecesIn
<1>12. CountersTold'
  BY <1>1, <1>2, <1>6 DEF CountersTold
<1>13. PagesBounded'
  <2>1. DOMAIN page'.files = files
    BY <1>6
  <2>2. page' # NoPage
    <3>1. ASSUME page' = NoPage PROVE FALSE
      <4>1. first = {} /\ files = {}
        BY <1>6, <2>1, <3>1 DEF NoPage
      <4>2. ranges = {} /\ changed = {}
        BY <1>4, <1>5, <4>1
      <4>3. pending = 0
        BY <1>2, <4>2, FS_EmptySet DEF PendingExact
      <4> QED BY <1>1, <4>2, <4>3 DEF MorePages, Undelivered
    <3> QED BY <3>1
  <2> QED BY <1>4, <1>5, <1>6, <2>1, <2>2 DEF PagesBounded
<1>14. QuietAfterCancel'
  <2>1. ~cancelled
    BY <1>1 DEF MorePages
  <2> QED BY <1>1, <1>2, <2>1 DEF QuietAfterCancel
<1>15. RecordsTrue'
  <2>1. Hashable' = Hashable
    BY <1>1, <1>7 DEF Hashable
  <2>2. \A p : \A s : Final(p, s)' = Final(p, s)
    BY <2>1 DEF Final
  <2>3. \A f, P : Bytes(f, P)' = Bytes(f, P)
    BY <1>1 DEF Bytes
  <2>4. \A r : PiecesIn(r)' = PiecesIn(r)
    BY DEF PiecesIn
  <2> QED BY <1>1, <1>2, <1>6, <1>7, <2>1, <2>2, <2>3, <2>4 DEF RecordsTrue
<1> QED BY <1>8, <1>9, <1>10, <1>11, <1>12, <1>13, <1>14, <1>15 DEF Published, PublisherInv

\* The call of the callback: the page is told, once.
LEMMA CallbackKeeps ==
  ASSUME Laid, Published, Callback, good' = good
  PROVE  Published'
<1> USE DEF input, shown
<1> DEFINE told(p, s) == {r \in page.ranges : p \in PiecesIn(r) /\ r.state = s}
<1>1. /\ paging = "callback" /\ paging' = "page" /\ page' = NoPage
      /\ shownTally' = [f \in DOMAIN shownTally |->
                          IF f \in DOMAIN page.files THEN page.files[f] ELSE shownTally[f]]
      /\ shownPieces' = [p \in DOMAIN shownPieces |->
                           [s \in States |-> shownPieces[p][s] + Cardinality(told(p, s))]]
      /\ late' = late + IF cancelled THEN 1 ELSE 0
      /\ UNCHANGED <<torrent, layouts, cancelled, emitted, tally, changed, pending, ranges,
                     sequence>>
  BY DEF Callback
<1>2. /\ PublisherTypeOK /\ PendingExact /\ RangesMerged /\ OnceEach /\ CountersTold
      /\ QuietAfterCancel /\ RecordsTrue /\ page'.ranges = {} /\ DOMAIN page'.files = {}
  BY <1>1 DEF Published, PublisherInv, NoPage
<1>3. Pieces' = Pieces
  BY <1>1 DEF Pieces
<1>4. \A p : \A s : IsFiniteSet(told(p, s)) /\ Cardinality(told(p, s)) \in Nat
  <2>1. \A p : \A s : told(p, s) \in SUBSET page.ranges
    OBVIOUS
  <2>2. IsFiniteSet(page.ranges)
    BY <1>2 DEF PublisherTypeOK
  <2> HIDE DEF told
  <2> QED BY <2>1, <2>2, FS_Subset, FS_CardinalityType
<1>5. \A p \in Pieces : \A s \in States :
        /\ shownPieces[p][s] \in Nat
        /\ shownPieces'[p][s] = shownPieces[p][s] + Cardinality(told(p, s))
  BY <1>1, <1>2 DEF PublisherTypeOK
<1>6. \A f \in Reported(torrent) :
        /\ shownTally'[f] = IF f \in DOMAIN page.files THEN page.files[f] ELSE shownTally[f]
  BY <1>1, <1>2 DEF PublisherTypeOK
<1>7. shownPieces' \in [Pieces -> [States -> Nat]]
  <2>1. DOMAIN shownPieces = Pieces
    BY <1>2 DEF PublisherTypeOK
  <2>2. \A p \in Pieces : \A s \in States : shownPieces[p][s] + Cardinality(told(p, s)) \in Nat
    <3> HIDE DEF told
    <3>1. \A n, m \in Nat : n + m \in Nat
      OBVIOUS
    <3> QED BY <1>4, <1>5, <3>1
  <2> HIDE DEF told
  <2> QED BY <1>1, <2>1, <2>2
<1>8. shownTally' \in [Reported(torrent) -> Counters]
  BY <1>1, <1>2 DEF PublisherTypeOK
<1>9. late' \in Nat /\ late = 0
  BY <1>1, <1>2 DEF PublisherTypeOK, QuietAfterCancel
<1> HIDE DEF told
<1>10. PublisherTypeOK'
  <2>1. \A r : PiecesIn(r)' = PiecesIn(r)
    BY DEF PiecesIn
  <2> QED BY <1>1, <1>2, <1>3, <1>7, <1>8, <1>9, <2>1, FS_EmptySet DEF PublisherTypeOK
<1>11. PendingExact' /\ RangesMerged' /\ PagesBounded'
  BY <1>1, <1>2 DEF PendingExact, RangesMerged, PagesBounded, PiecesIn
<1>12. OnceEach'
  <2>1. ASSUME NEW p \in Pieces
        PROVE  Cardinality(Holders(ranges, p)) + (shownPieces'[p]["Verified"] + shownPieces'[p]["Mismatched"])
                 = IF p \in emitted THEN 1 ELSE 0
    <3> DEFINE V == told(p, "Verified")
               M == told(p, "Mismatched")
               H == Holders(ranges, p)
               v == shownPieces[p]["Verified"]
               m == shownPieces[p]["Mismatched"]
    <3>1. Holders(ranges \cup page.ranges, p) = H \cup (V \cup M) /\ V \cap M = {}
          /\ H \cap (V \cup M) = {}
      <4>1. \A r \in page.ranges : r.state = "Verified" \/ r.state = "Mismatched"
        BY <1>2 DEF PublisherTypeOK, Ranges, States
      <4>2. ranges \cap page.ranges = {}
        BY <1>2 DEF OnceEach
      <4> QED BY <4>1, <4>2 DEF told, Holders
    <3>2. IsFiniteSet(H) /\ IsFiniteSet(V) /\ IsFiniteSet(M)
      <4>1. H \in SUBSET ranges /\ IsFiniteSet(ranges)
        BY <1>2 DEF PublisherTypeOK, Holders
      <4> QED BY <1>4, <4>1, FS_Subset
    <3>3. Cardinality(Holders(ranges \cup page.ranges, p)) + (v + m) = IF p \in emitted THEN 1 ELSE 0
      BY <1>2 DEF OnceEach, Holders
    <3>4. v \in Nat /\ m \in Nat /\ shownPieces'[p]["Verified"] = v + Cardinality(V)
          /\ shownPieces'[p]["Mismatched"] = m + Cardinality(M)
      BY <1>5 DEF States
    <3> HIDE DEF V, M, H, v, m
    <3>5. IsFiniteSet(V \cup M) /\ Cardinality(V \cup M) = Cardinality(V) + Cardinality(M)
      BY <3>1, <3>2, DisjointUnion
    <3>6. Cardinality(H \cup (V \cup M)) = Cardinality(H) + Cardinality(V \cup M)
      BY <3>1, <3>2, <3>5, DisjointUnion
    <3>7. Cardinality(H) \in Nat /\ Cardinality(V) \in Nat /\ Cardinality(M) \in Nat
      BY <3>2, FS_CardinalityType
    <3>8. Cardinality(H) + ((v + Cardinality(V)) + (m + Cardinality(M)))
            = IF p \in emitted THEN 1 ELSE 0
      <4> DEFINE a == Cardinality(H)
                 b == Cardinality(V)
                 c == Cardinality(M)
                 total == IF p \in emitted THEN 1 ELSE 0
      <4>1. (a + (b + c)) + (v + m) = total
        BY <3>1, <3>3, <3>5, <3>6
      <4>2. a \in Nat /\ b \in Nat /\ c \in Nat /\ v \in Nat /\ m \in Nat
        BY <3>4, <3>7
      <4> HIDE DEF a, b, c, total
      <4>3. a + ((v + b) + (m + c)) = total
        BY <4>1, <4>2
      <4> QED BY <4>3 DEF a, b, c, total
    <3> QED BY <3>4, <3>8 DEF H
  <2>2. ranges' \cup page'.ranges = ranges /\ ranges' \cap page'.ranges = {}
    BY <1>1, <1>2
  <2> QED BY <1>1, <1>3, <2>1, <2>2 DEF OnceEach, Holders, PiecesIn
<1>13. CountersTold'
  BY <1>1, <1>2, <1>6 DEF CountersTold
<1>14. QuietAfterCancel'
  BY <1>1, <1>9 DEF QuietAfterCancel
<1>15. RecordsTrue'
  <2>1. Hashable' = Hashable
    BY <1>1, <1>3 DEF Hashable
  <2>2. \A p : \A s : Final(p, s)' = Final(p, s)
    BY <2>1 DEF Final
  <2>3. \A f, P : Bytes(f, P)' = Bytes(f, P)
    BY <1>1 DEF Bytes
  <2>4. \A r : PiecesIn(r)' = PiecesIn(r)
    BY DEF PiecesIn
  <2>5. ASSUME NEW p \in Pieces, NEW s \in States, shownPieces'[p][s] > 0 PROVE Final(p, s)
    <3>1. CASE shownPieces[p][s] > 0
      BY <1>2, <3>1 DEF RecordsTrue
    <3>2. CASE told(p, s) # {}
      <4>1. PICK r \in page.ranges : p \in PiecesIn(r) /\ r.state = s
        BY <3>2 DEF told
      <4> QED BY <1>2, <4>1 DEF RecordsTrue
    <3>3. shownPieces[p][s] > 0 \/ told(p, s) # {}
      <4>1. told(p, s) = {} => Cardinality(told(p, s)) = 0
        BY FS_EmptySet
      <4> QED BY <1>5, <2>5, <4>1
    <3> QED BY <3>1, <3>2, <3>3
  <2>6. (\A p \in Pieces : \A s \in States : shownPieces[p][s] > 0 => Final(p, s))'
    BY <1>3, <2>2, <2>5
  <2>7. (\A r \in ranges \cup page.ranges : \A p \in PiecesIn(r) : Final(p, r.state))'
    BY <1>1, <1>2, <2>2, <2>4 DEF RecordsTrue
  <2> QED BY <1>1, <1>2, <1>3, <2>1, <2>3, <2>6, <2>7 DEF RecordsTrue
<1> QED BY <1>10, <1>11, <1>12, <1>13, <1>14, <1>15 DEF Published, PublisherInv
-----------------------------------------------------------------------------
(* The session *)

\* What a step must do for the session's types while verify goes on.
LEMMA GoesOn ==
  ASSUME TypeOK, UNCHANGED <<torrent, layouts, preflight, observed, result>>,
         PublisherTypeOK', cancelled' \in BOOLEAN, checked' \in BOOLEAN,
         good' \subseteq Pieces, at' \in Nat,
         good' = good \/ pc = "adding",
         \/ pc' = pc
         \/ /\ pc \notin {"inspecting", "returned"}
            /\ pc' \in (CancelledAt \ {"inspecting"}) \cup {"alerts", "completing", "making"}
  PROVE  TypeOK'
<1>1. Pieces' = Pieces /\ Inspected' = Inspected
  BY DEF Pieces, Inspected
<1>2. (Returned <=> pc = "returned")'
  BY DEF TypeOK, Returned, CancelledAt
<1>3. (\/ result \in [kind : {"none", "Cancelled", "IoFailure"}]
       \/ /\ Inspected
          /\ result = [kind |-> "Success", report |-> Report(torrent, preflight, layouts, good)])'
  <2>1. CASE pc = "adding"
    BY <2>1 DEF TypeOK, Returned, NoResult
  <2>2. CASE good' = good
    BY <1>1, <2>2 DEF TypeOK
  <2> QED BY <2>1, <2>2
<1>4. (IF pc = "inspecting" THEN layouts = NoLayouts ELSE pc = "returned" \/ Inspected)'
  BY <1>1 DEF TypeOK, CancelledAt
<1>5. (torrent \in Torrents /\ (layouts = NoLayouts \/ Inspected) /\ observed \in BOOLEAN)'
  BY <1>1 DEF TypeOK
<1>6. (pc \in CancelledAt \cup {"alerts", "completing", "making", "returned"})'
  BY DEF TypeOK, CancelledAt
<1> QED BY <1>1, <1>2, <1>3, <1>4, <1>5, <1>6 DEF TypeOK

\* verify returns a failure, with nothing under way.
LEMMA FailKeeps ==
  ASSUME IInv, NEW kind \in {"Cancelled", "IoFailure"}, Fail(kind), paging = "off"
  PROVE  IInv'
<1> USE DEF input, shown, publisher
<1>1. UNCHANGED <<torrent, layouts, cancelled, publisher, shown, observed, preflight, good,
                  checked, at>> /\ pc' = "returned" /\ result' = [kind |-> kind]
  BY DEF Fail
<1>2. Published'
  BY <1>1, PagingOnly DEF IInv, TypeOK, Published
<1>3. TypeOK'
  <2>1. Pieces' = Pieces /\ Inspected' = Inspected
    BY <1>1 DEF Pieces, Inspected
  <2>2. result'.kind # "none" /\ result' # NoResult
    BY <1>1 DEF NoResult
  <2>3. (Returned <=> pc = "returned")'
    BY <1>1, <2>2 DEF Returned, NoResult
  <2>4. result' \in [kind : {"none", "Cancelled", "IoFailure"}]
    BY <1>1
  <2> QED BY <1>1, <1>2, <2>1, <2>3, <2>4 DEF IInv, TypeOK, Published
<1>4. CompletesInOrder'
  <2>1. result'.kind # "Success"
    BY <1>1
  <2> QED BY <1>1, <2>1 DEF CompletesInOrder
<1> QED BY <1>2, <1>3, <1>4 DEF IInv, Published

\* Before the first record nothing waits, and nothing was told.
LEMMA NothingYet ==
  ASSUME PublisherTypeOK, PublisherInv, emitted = {}
  PROVE  ranges = {} /\ page.ranges \cup ranges = page.ranges
         /\ (\A r \in page.ranges : PiecesIn(r) = {})
         /\ \A p \in Pieces : \A s \in States : shownPieces[p][s] = 0
<1>1. \A p \in Pieces : /\ Holders(ranges \cup page.ranges, p) = {}
                        /\ \A s \in States : shownPieces[p][s] = 0
  BY Whereabouts DEF PublisherInv
<1>2. \A r \in ranges \cup page.ranges : PiecesIn(r) = {}
  BY <1>1 DEF PublisherTypeOK, Holders
<1>3. \A r \in ranges : r.begin \in PiecesIn(r)
  <2>1. \A r \in ranges : r.begin \in Nat /\ r.end \in Nat /\ r.begin < r.end
    BY DEF PublisherTypeOK, PublisherInv, RangesMerged, Ranges
  <2> QED BY <2>1 DEF PiecesIn
<1> QED BY <1>1, <1>2, <1>3

LEMMA InspectKeeps ==
  ASSUME IInv, Inspect
  PROVE  IInv'
<1> USE DEF input, shown, publisher
<1>1. /\ pc = "inspecting" /\ pc' = "adding" /\ ~cancelled
      /\ layouts' = Layouts(torrent, preflight')
      /\ DOMAIN preflight' = DOMAIN torrent.files
      /\ \A i \in DOMAIN preflight' : preflight'[i] \in Inspections(torrent.files[i])
      /\ shownPieces' = [p \in DOMAIN layouts' |-> [s \in States |-> 0]]
      /\ UNCHANGED <<torrent, cancelled, emitted, tally, changed, pending, ranges, sequence, paging,
                     page, shownTally, late, observed, good, checked, at, result>>
  BY DEF Inspect
<1>2. /\ TypeOK /\ PublisherTypeOK /\ PublisherInv /\ RecordsTrue /\ CompletesInOrder
      /\ emitted = {} /\ paging = "off" /\ page = NoPage /\ page.ranges = {}
  BY <1>1 DEF IInv, TypeOK, CompletesInOrder, PublisherTypeOK, NoPage
<1>3. layouts = NoLayouts /\ Pieces = {} /\ good = {}
  BY <1>1, <1>2 DEF TypeOK, NoLayouts, Pieces
<1>4. ranges = {} /\ page'.ranges = {}
  BY <1>1, <1>2, NothingYet
<1>5. Pieces' = DOMAIN layouts' /\ Inspected'
  <2>1. Inspections(torrent.files[1])' = Inspections(torrent'.files[1])
    BY DEF Inspections
  <2>2. \A i : Inspections(torrent.files[i])' = Inspections(torrent.files[i])
    BY <1>1 DEF Inspections
  <2> QED BY <1>1, <2>2 DEF Pieces, Inspected
<1>6. PublisherTypeOK'
  <2>1. shownPieces' \in [Pieces' -> [States -> Nat]]
    BY <1>1, <1>5
  <2> QED BY <1>1, <1>2, <1>4, <2>1 DEF PublisherTypeOK
<1>7. PublisherInv'
  <2>1. OnceEach'
    <3>1. \A p \in Pieces' : shownPieces'[p]["Verified"] = 0 /\ shownPieces'[p]["Mismatched"] = 0
      BY <1>1, <1>5 DEF States
    <3>2. \A p : Cardinality({r \in ranges' \cup page'.ranges : p \in PiecesIn(r)}) = 0
      BY <1>1, <1>4, FS_EmptySet
    <3>3. emitted' = {} /\ ranges' \cap page'.ranges = {}
      BY <1>1, <1>2, <1>4
    <3> QED BY <3>1, <3>2, <3>3 DEF OnceEach, PiecesIn
  <2>2. PendingExact' /\ RangesMerged' /\ CountersTold' /\ PagesBounded'
    BY <1>1, <1>2, <1>4 DEF PublisherInv, PendingExact, RangesMerged, CountersTold, PagesBounded
  <2> QED BY <2>1, <2>2 DEF PublisherInv
<1>8. QuietAfterCancel'
  BY <1>1 DEF IInv, QuietAfterCancel
<1>9. RecordsTrue'
  <2>1. \A f : Bytes(f, {}) = 0 /\ Bytes(f, {})' = 0
    BY SumEmpty DEF Bytes
  <2>2. emitted = {} /\ emitted \cap good = {} /\ emitted \ good = {} /\ emitted' = {}
        /\ (emitted \cap good)' = {} /\ (emitted \ good)' = {}
    BY <1>1, <1>2
  <2>3. \A f \in Reported(torrent) : tally[f] = NoBytes
    BY <1>2, <2>1, <2>2 DEF RecordsTrue, NoBytes
  <2>4. \A f \in Reported(torrent)' :
          tally'[f] = [hashed |-> Bytes(f, emitted)', verified |-> Bytes(f, emitted \cap good)',
                       mismatched |-> Bytes(f, emitted \ good)']
    <3>1. \A f : Bytes(f, emitted)' = 0 /\ Bytes(f, emitted \cap good)' = 0
                 /\ Bytes(f, emitted \ good)' = 0
      BY <2>1, <2>2
    <3>2. Reported(torrent)' = Reported(torrent) /\ tally' = tally
      BY <1>1
    <3> QED BY <2>3, <3>1, <3>2 DEF NoBytes
  <2>5. \A p \in Pieces' : \A s \in States : ~(shownPieces'[p][s] > 0)
    BY <1>1, <1>5
  <2>6. ranges' \cup page'.ranges = {}
    BY <1>1, <1>4
  <2> QED BY <2>2, <2>4, <2>5, <2>6 DEF RecordsTrue
<1>10. TypeOK'
  <2>1. result' = NoResult
    BY <1>1, <1>2 DEF TypeOK, Returned
  <2> QED BY <1>1, <1>2, <1>3, <1>5, <1>6, <2>1 DEF TypeOK, CancelledAt, Returned, NoResult
<1>11. CompletesInOrder'
  <2>1. result'.kind # "Success"
    BY <1>1, <1>2 DEF TypeOK, Returned, NoResult
  <2> QED BY <1>1, <1>2, <2>1 DEF CompletesInOrder
<1> QED BY <1>7, <1>8, <1>9, <1>10, <1>11 DEF IInv

LEMMA AddTorrentKeeps ==
  ASSUME IInv, AddTorrent
  PROVE  IInv'
<1> USE DEF input, shown, publisher
<1>1. /\ pc = "adding" /\ pc' = "polling" /\ good' \subseteq Pieces
      /\ UNCHANGED <<torrent, layouts, cancelled, publisher, shown, observed, preflight,
                     checked, at, result>>
  BY DEF AddTorrent
<1>2. /\ TypeOK /\ PublisherTypeOK /\ PublisherInv /\ RecordsTrue /\ CompletesInOrder
      /\ emitted = {} /\ paging = "off" /\ page.ranges = {} /\ ranges = {}
      /\ \A p \in Pieces : \A s \in States : shownPieces[p][s] = 0
  BY <1>1, NothingYet DEF IInv, TypeOK, CompletesInOrder, PublisherTypeOK, NoPage
<1>3. Pieces' = Pieces /\ Hashable' = Hashable
  BY <1>1 DEF Pieces, Hashable
<1>4. PublisherTypeOK'
  BY <1>1, <1>2, <1>3 DEF PublisherTypeOK
<1>5. PublisherInv'
  BY <1>1, <1>2, <1>3 DEF PublisherInv, PendingExact, RangesMerged, OnceEach, CountersTold,
                          PagesBounded, PiecesIn
<1>6. QuietAfterCancel'
  BY <1>1 DEF IInv, QuietAfterCancel
<1>7. RecordsTrue'
  <2>1. emitted \cap good = {} /\ emitted \ good = {} /\ emitted' = {}
        /\ (emitted \cap good)' = {} /\ (emitted \ good)' = {}
    BY <1>1, <1>2
  <2>2. \A f : Bytes(f, {})' = Bytes(f, {})
    BY <1>1 DEF Bytes
  <2>3. \A f \in Reported(torrent) :
          tally[f] = [hashed |-> Bytes(f, {}), verified |-> Bytes(f, {}), mismatched |-> Bytes(f, {})]
    BY <1>2, <2>1 DEF RecordsTrue
  <2>4. \A f \in Reported(torrent)' :
          tally'[f] = [hashed |-> Bytes(f, emitted)', verified |-> Bytes(f, emitted \cap good)',
                       mismatched |-> Bytes(f, emitted \ good)']
    <3>1. \A f : Bytes(f, emitted)' = Bytes(f, {}) /\ Bytes(f, emitted \cap good)' = Bytes(f, {})
                 /\ Bytes(f, emitted \ good)' = Bytes(f, {})
      BY <2>1, <2>2
    <3>2. Reported(torrent)' = Reported(torrent) /\ tally' = tally
      BY <1>1
    <3> QED BY <2>3, <3>1, <3>2
  <2>5. \A p \in Pieces' : \A s \in States : ~(shownPieces'[p][s] > 0)
    BY <1>1, <1>2, <1>3
  <2>6. ranges' \cup page'.ranges = {}
    BY <1>1, <1>2
  <2> QED BY <2>1, <2>4, <2>5, <2>6 DEF RecordsTrue
<1>8. TypeOK'
  <2>1. at' \in Nat
    BY <1>1, <1>2 DEF TypeOK
  <2> QED BY <1>1, <1>2, <1>4, <2>1, GoesOn DEF TypeOK, CancelledAt
<1>9. CompletesInOrder'
  <2>1. result'.kind # "Success"
    BY <1>1, <1>2 DEF TypeOK, Returned, NoResult
  <2> QED BY <1>1, <1>2, <2>1 DEF CompletesInOrder
<1> QED BY <1>5, <1>6, <1>7, <1>8, <1>9 DEF IInv

\* A step of the session alone: it moves pc and at, and the publisher's paging at most.
LEMMA MovesOn ==
  ASSUME IInv, UNCHANGED <<input, emitted, tally, changed, pending, ranges, sequence, page, shown>>,
         UNCHANGED <<good, preflight, observed, result>>,
         cancelled' = cancelled, checked' \in BOOLEAN, at' \in Nat,
         paging' = paging \/ (paging # "callback" /\ paging' \in {"off", "page"}),
         \/ pc' = pc
         \/ /\ pc \notin {"inspecting", "returned"}
            /\ pc' \in (CancelledAt \ {"inspecting"}) \cup {"alerts", "completing", "making"}
  PROVE  TypeOK' /\ Published'
<1> USE DEF input, shown
<1>1. Published'
  BY PagingOnly DEF IInv, TypeOK, Published
<1>2. /\ PublisherTypeOK' /\ cancelled' \in BOOLEAN /\ TypeOK
      /\ good' \subseteq Pieces
  BY <1>1 DEF IInv, TypeOK, Published
<1>3. TypeOK'
  BY <1>2, GoesOn
<1> QED BY <1>1, <1>3

\* What a recorded piece finally is, for the two places that record one.
LEMMA RecordingKeeps ==
  ASSUME IInv, NEW x \in Pieces, NEW s \in States, Record(x, s), good' = good,
         x \in good <=> s = "Verified",
         UNCHANGED <<pc, preflight, observed, result, checked>>,
         at' \in Nat
  PROVE  TypeOK' /\ Published' /\ (~cancelled /\ x \in Hashable => x \in emitted')
         /\ emitted \subseteq emitted' /\ UNCHANGED <<layouts, cancelled>>
<1> USE DEF input, shown
<1>1. TypeOK /\ Laid /\ Published /\ x \in Nat
  BY TypeLaid DEF IInv, TypeOK, Published, Laid
<1>2. Published'
  BY <1>1, RecordKeeps DEF Final
<1>3. UNCHANGED <<torrent, layouts, cancelled>>
  BY DEF Record
<1>4. TypeOK'
  BY <1>1, <1>2, <1>3, GoesOn DEF TypeOK, Published
<1>5. (~cancelled /\ x \in Hashable => x \in emitted') /\ emitted \subseteq emitted'
  BY DEF Record, Recordable, Hashable, publisher
<1> QED BY <1>2, <1>3, <1>4, <1>5

LEMMA StepKeepsIInv ==
  ASSUME IInv, [Next]_vars
  PROVE  IInv'
<1> USE DEF input, shown
<1>1. /\ TypeOK /\ Published /\ CompletesInOrder /\ Laid /\ cancelled \in BOOLEAN
      /\ checked \in BOOLEAN /\ at \in Nat /\ (Returned <=> pc = "returned")
  BY TypeLaid DEF IInv, TypeOK, Published
<1>0. IInv' <=> TypeOK' /\ Published' /\ CompletesInOrder'
  BY DEF IInv, TypeOK, Published
<1>2. SUFFICES TypeOK' /\ Published' /\ CompletesInOrder'
  BY <1>0
<1>3. pc # "returned" => result.kind # "Success"
  BY <1>1 DEF Returned, NoResult
<1>4. CASE Cancel
  <2>1. /\ cancelled' = TRUE /\ ~Returned
        /\ UNCHANGED <<torrent, layouts, publisher, shownPieces, shownTally, late, session>>
    BY <1>4 DEF Cancel
  <2>2. Published'
    BY <1>1, <2>1, PagingOnly DEF publisher, session
  <2>3. TypeOK'
    BY <1>1, <2>1, <2>2, GoesOn DEF session, TypeOK, Published
  <2>4. Finished' = Finished /\ Hashable' = Hashable
    BY <2>1 DEF Finished, Hashable, Pieces, Undelivered, publisher, session
  <2>5. CompletesInOrder'
    BY <1>1, <1>3, <2>1, <2>4 DEF session, publisher, CompletesInOrder
  <2> QED BY <2>2, <2>3, <2>5
<1>5. CASE ReturnCancelled /\ paging = "off"
  BY <1>0, <1>5, FailKeeps DEF ReturnCancelled
<1>6. CASE Inspect
  BY <1>0, <1>6, InspectKeeps
<1>7. CASE CannotStart
  <2>1. paging = "off"
    BY <1>1, <1>7 DEF CannotStart, CompletesInOrder
  <2> QED BY <1>0, <1>7, <2>1, FailKeeps DEF CannotStart
<1>8. CASE AddTorrent
  BY <1>0, <1>8, AddTorrentKeeps
<1>9. CASE Poll \/ AlertsHandled
  <2>1. TypeOK' /\ Published'
    BY <1>1, <1>9, MovesOn DEF Poll, AlertsHandled, publisher, CancelledAt
  <2>2. CompletesInOrder'
    BY <1>1, <1>3, <1>9 DEF Poll, AlertsHandled, publisher, CompletesInOrder
  <2> QED BY <2>1, <2>2
<1>10. CASE FileErrorAlert
  BY <1>0, <1>10, FailKeeps DEF FileErrorAlert
<1>11. CASE TorrentCheckedAlert
  <2>1. TypeOK' /\ Published'
    BY <1>1, <1>11, MovesOn DEF TorrentCheckedAlert, publisher, CancelledAt
  <2>2. CompletesInOrder'
    BY <1>1, <1>3, <1>11 DEF TorrentCheckedAlert, publisher, CompletesInOrder
  <2> QED BY <2>1, <2>2
<1>12. CASE Flush
  <2>1. /\ pc = "batchDone" /\ pc' = "roundDone" /\ (~checked \/ ~observed)
        /\ paging' = paging \/ (paging = "off" /\ paging' \in {"off", "page"})
        /\ UNCHANGED <<input, cancelled, emitted, tally, changed, pending, ranges, sequence, page,
                       shown, observed, preflight, good, checked, at, result>>
    BY <1>12 DEF Flush, Deliver, StartPaging, publisher
  <2>2. TypeOK' /\ Published'
    BY <1>1, <2>1, MovesOn DEF CancelledAt
  <2>3. CompletesInOrder'
    BY <1>1, <1>3, <2>1 DEF CompletesInOrder
  <2> QED BY <2>2, <2>3
<1>13. CASE CompleteBegins
  <2>1. /\ pc = "batchDone" /\ pc' = "completing" /\ at' = 0 /\ paging = "off"
        /\ paging' \in {"off", "page"}
        /\ UNCHANGED <<input, cancelled, emitted, tally, changed, pending, ranges, sequence, page,
                       shown, observed, preflight, good, checked, result>>
    BY <1>13 DEF CompleteBegins, Deliver, StartPaging
  <2>2. TypeOK' /\ Published'
    BY <1>1, <2>1, MovesOn DEF CancelledAt
  <2>3. \A p \in Hashable' : ~(p < at')
    <3>1. Hashable' = Hashable /\ Hashable \subseteq Nat
      BY <1>1, <2>1 DEF Hashable, Pieces, Laid
    <3> QED BY <2>1, <3>1
  <2>4. CompletesInOrder'
    BY <1>1, <1>3, <2>1, <2>3 DEF CompletesInOrder
  <2> QED BY <2>2, <2>4
<1>14. CASE CompletePiece
  <2> DEFINE s == IF at \in good THEN "Verified" ELSE "Mismatched"
  <2>1. /\ pc = "completing" /\ at \in Pieces /\ ~cancelled /\ Record(at, s) /\ at' = at + 1
        /\ UNCHANGED <<pc, observed, preflight, good, checked, result>>
    BY <1>14 DEF CompletePiece
  <2>2. s \in States /\ (at \in good <=> s = "Verified")
    BY DEF States
  <2> HIDE DEF s
  <2>3. at' \in Nat
    BY <1>1, <2>1 DEF TypeOK
  <2>4. /\ TypeOK' /\ Published' /\ (~cancelled /\ at \in Hashable => at \in emitted')
        /\ emitted \subseteq emitted' /\ UNCHANGED <<layouts, cancelled>>
    BY <2>1, <2>2, <2>3, RecordingKeeps
  <2>5. \A p \in Hashable' : p < at' => p \in emitted'
    <3>1. Hashable' = Hashable /\ Hashable \subseteq Nat
      BY <1>1, <2>4 DEF Hashable, Pieces, Laid
    <3>2. \A p \in Hashable : p < at => p \in emitted
      BY <1>1, <2>1 DEF CompletesInOrder
    <3>3. \A p \in Hashable : p < at' => p < at \/ p = at
      BY <1>1, <2>1, <3>1
    <3> QED BY <2>1, <2>4, <3>1, <3>2, <3>3
  <2>6. CompletesInOrder'
    BY <1>1, <1>3, <2>1, <2>5 DEF CompletesInOrder
  <2> QED BY <2>4, <2>6
<1>15. CASE CompleteEnds
  <2>1. /\ pc = "completing" /\ pc' = "roundDone" /\ (at \notin Pieces \/ cancelled)
        /\ paging = "off" /\ paging' = IF Undelivered /\ ~cancelled THEN "page" ELSE "off"
        /\ UNCHANGED <<input, cancelled, emitted, tally, changed, pending, ranges, sequence, page,
                       shown, observed, preflight, good, checked, at, result>>
    BY <1>15 DEF CompleteEnds, Deliver, StartPaging
  <2>2. TypeOK' /\ Published'
    BY <1>1, <2>1, MovesOn DEF CancelledAt
  <2>3. ~cancelled => Finished'
    <3>1. Hashable' = Hashable /\ Undelivered' = Undelivered
      BY <2>1 DEF Hashable, Pieces, Undelivered
    <3>2. ~cancelled => \A p \in Hashable : p < at
      BY <1>1, <2>1 DEF Laid, Hashable
    <3>3. ~cancelled => Hashable \subseteq emitted
      BY <1>1, <2>1, <3>2 DEF CompletesInOrder
    <3> QED BY <2>1, <3>1, <3>3 DEF Finished
  <2>4. CompletesInOrder'
    BY <1>1, <1>3, <2>1, <2>3 DEF CompletesInOrder
  <2> QED BY <2>2, <2>4
<1>16. CASE NextRound
  <2>1. /\ pc = "roundDone" /\ paging = "off" /\ ~cancelled
        /\ pc' = IF checked THEN "reporting" ELSE "polling"
        /\ UNCHANGED <<input, cancelled, publisher, shown, observed, preflight, good,
                       checked, at, result>>
    BY <1>16 DEF NextRound
  <2>2. TypeOK' /\ Published'
    BY <1>1, <2>1, MovesOn DEF CancelledAt, publisher
  <2>3. Finished' = Finished
    BY <2>1 DEF Finished, Hashable, Pieces, Undelivered, publisher
  <2>4. CompletesInOrder'
    BY <1>1, <1>3, <2>1, <2>3 DEF CompletesInOrder, publisher
  <2> QED BY <2>2, <2>4
<1>17. CASE LastCheck
  <2>1. /\ pc = "reporting" /\ ~cancelled /\ pc' = "making"
        /\ UNCHANGED <<torrent, layouts, cancelled, publisher, shownPieces, shownTally, late,
                       observed, preflight, good, checked, at, result>>
    BY <1>17 DEF LastCheck
  <2>2. TypeOK' /\ Published'
    BY <1>1, <2>1, MovesOn DEF publisher
  <2>3. Finished' = Finished
    BY <2>1 DEF Finished, Hashable, Pieces, Undelivered, publisher
  <2>4. late = 0
    <3>1. late \in Nat /\ late <= 1
      BY <1>1 DEF Published, PublisherTypeOK, QuietAfterCancel
    <3>2. late # 1
      BY <1>1, <2>1 DEF Published, QuietAfterCancel
    <3> QED BY <3>1, <3>2
  <2>5. CompletesInOrder'
    BY <1>1, <1>3, <2>1, <2>3, <2>4 DEF CompletesInOrder, publisher
  <2> QED BY <2>2, <2>5
<1>21. CASE MakeReport
  <2>1. /\ pc = "making" /\ pc' = "returned"
        /\ result' = [kind |-> "Success", report |-> Report(torrent, preflight, layouts, good)]
        /\ UNCHANGED <<torrent, layouts, cancelled, publisher, shownPieces, shownTally, late,
                       observed, preflight, good, checked, at>>
    BY <1>21 DEF MakeReport
  <2>2. Published'
    BY <1>1, <2>1, PagingOnly DEF publisher
  <2>3. Pieces' = Pieces /\ Inspected' = Inspected /\ Inspected /\ Finished' = Finished
    BY <1>1, <2>1 DEF Pieces, Inspected, TypeOK, publisher, Finished, Hashable, Undelivered
  <2>4. Returned'
    BY <2>1 DEF Returned, NoResult
  <2>5. (result = [kind |-> "Success", report |-> Report(torrent, preflight, layouts, good)])'
    BY <2>1
  <2>6. TypeOK'
    BY <1>1, <2>1, <2>2, <2>3, <2>4, <2>5 DEF TypeOK, Published
  <2>7. CompletesInOrder'
    BY <1>1, <2>1, <2>3 DEF CompletesInOrder, publisher
  <2> QED BY <2>2, <2>6, <2>7
<1>18. CASE Deliveries
  <2>1. DeliverStep /\ UNCHANGED <<pc, observed, preflight, good, checked, at, result>>
    BY <1>18 DEF Deliveries, session
  <2>2. /\ UNCHANGED <<torrent, layouts, cancelled, emitted>>
        /\ paging # "off"
        /\ (paging' = "off" /\ ~cancelled => ~Undelivered')
    BY <2>1 DEF DeliverStep, Gather, Callback, PagingDone, MorePages, Undelivered
  <2>3. Published'
    <3>1. CASE Gather
      BY <1>1, <2>1, <3>1, GatherKeeps
    <3>2. CASE Callback
      BY <1>1, <2>1, <3>2, CallbackKeeps
    <3>3. CASE PagingDone
      <4>1. /\ paging = "page" /\ paging' = "off"
            /\ UNCHANGED <<input, cancelled, emitted, tally, changed, pending, ranges, sequence,
                           page, shown>>
        BY <3>3 DEF PagingDone
      <4> QED BY <1>1, <2>1, <4>1, PagingOnly
    <3> QED BY <2>1, <3>1, <3>2, <3>3 DEF DeliverStep
  <2>4. TypeOK'
    BY <1>1, <2>1, <2>2, <2>3, GoesOn DEF TypeOK, Published
  <2>5. Hashable' = Hashable
    BY <2>2 DEF Hashable, Pieces
  <2>6. ~cancelled /\ Hashable \subseteq emitted => Finished'
    BY <2>2, <2>5 DEF Finished
  <2>7. CompletesInOrder'
    BY <1>1, <1>3, <2>1, <2>2, <2>5, <2>6 DEF CompletesInOrder, Finished
  <2> QED BY <2>3, <2>4, <2>7
<1>19. CASE \E p \in good : PieceFinishedAlert(p)
  <2>1. PICK p \in good :
          /\ pc = "alerts" /\ Record(p, "Verified")
          /\ UNCHANGED <<pc, observed, preflight, good, checked, at, result>>
    BY <1>19 DEF PieceFinishedAlert
  <2>2. p \in Pieces /\ at' \in Nat /\ "Verified" \in States
    BY <1>1, <2>1 DEF TypeOK, States
  <2>3. TypeOK' /\ Published'
    BY <2>1, <2>2, RecordingKeeps
  <2>4. CompletesInOrder'
    BY <1>1, <1>3, <2>1 DEF CompletesInOrder
  <2> QED BY <2>3, <2>4
<1>20. CASE UNCHANGED vars
  <2>1. UNCHANGED <<torrent, layouts, cancelled, publisher, shownPieces, shownTally, late, session>>
    BY <1>20 DEF vars
  <2>2. Published'
    BY <1>1, <2>1, PagingOnly DEF publisher, session
  <2>3. TypeOK'
    BY <1>1, <2>1, <2>2, GoesOn DEF session, TypeOK, Published
  <2>4. Hashable' = Hashable /\ Undelivered' = Undelivered
    BY <2>1 DEF Hashable, Pieces, Undelivered, publisher
  <2>5. CompletesInOrder'
    BY <1>1, <2>1, <2>4 DEF session, publisher, CompletesInOrder, Finished
  <2> QED BY <2>2, <2>3, <2>5
<1> QED BY <1>4, <1>5, <1>6, <1>7, <1>8, <1>9, <1>10, <1>11, <1>12, <1>13, <1>14, <1>15, <1>16,
           <1>17, <1>18, <1>19, <1>20, <1>21 DEF Next, Verify

LEMMA InitKeepsIInv ==
  ASSUME Init
  PROVE  IInv
<1> USE DEF input
<1>1. /\ torrent \in Torrents /\ layouts = NoLayouts /\ cancelled = FALSE /\ emitted = {}
      /\ tally = [f \in Reported(torrent) |-> NoBytes] /\ changed = {} /\ pending = 0
      /\ ranges = {} /\ sequence = 1 /\ paging = "off" /\ page = NoPage
      /\ shownPieces = [p \in {} |-> {}] /\ shownTally = tally /\ late = 0
      /\ pc = "inspecting" /\ observed \in BOOLEAN /\ good = {}
      /\ checked = FALSE /\ at = 0 /\ result = NoResult
  BY DEF Init, NewPublisher
<1>2. Pieces = {} /\ page.ranges = {} /\ DOMAIN page.files = {}
  BY <1>1 DEF Pieces, NoLayouts, NoPage
<1>3. tally \in [Reported(torrent) -> Counters]
  BY <1>1 DEF NoBytes, Counters
<1>4. shownPieces \in [Pieces -> [States -> Nat]]
  BY <1>1, <1>2
<1>5. PublisherTypeOK
  BY <1>1, <1>2, <1>3, <1>4, FS_EmptySet DEF PublisherTypeOK
<1>6. TypeOK
  BY <1>1, <1>2, <1>5 DEF TypeOK, CancelledAt, Returned, NoResult
<1>7. PublisherInv
  BY <1>1, <1>2, FS_EmptySet
     DEF PublisherInv, PendingExact, RangesMerged, OnceEach, CountersTold, PagesBounded
<1>8. QuietAfterCancel
  BY <1>1 DEF QuietAfterCancel
<1>9. RecordsTrue
  <2>1. \A f : Bytes(f, emitted) = 0 /\ Bytes(f, emitted \cap good) = 0
               /\ Bytes(f, emitted \ good) = 0
    <3>1. \A f : Bytes(f, {}) = 0
      BY SumEmpty DEF Bytes
    <3>2. emitted \cap good = {} /\ emitted \ good = {} /\ emitted = {}
      BY <1>1
    <3> QED BY <3>1, <3>2
  <2> QED BY <1>1, <1>2, <2>1 DEF RecordsTrue, NoBytes
<1>10. CompletesInOrder
  BY <1>1 DEF CompletesInOrder, NoResult
<1> QED BY <1>6, <1>7, <1>8, <1>9, <1>10 DEF IInv

\* The inductive invariant of the session, for any torrents and any limits of a snapshot.
THEOREM SpecIInv == Spec => []IInv
<1>1. Init => IInv
  BY InitKeepsIInv
<1>2. IInv /\ [Next]_vars => IInv'
  BY StepKeepsIInv
<1> QED BY <1>1, <1>2, PTL DEF Spec

\* The types of the session and of its publisher.
THEOREM SpecTypeOK == Spec => []TypeOK
<1>1. IInv => TypeOK
  BY DEF IInv
<1> QED BY <1>1, SpecIInv, PTL

-----------------------------------------------------------------------------
(* What the caller is told *)

\* A report was made from what the inspection found, and from the layouts of that.
LEMMA ReportMade ==
  ASSUME IInv, result.kind = "Success"
  PROVE  /\ IsTorrent(torrent) /\ IsPreflight(torrent, preflight)
         /\ layouts = Layouts(torrent, preflight)
         /\ result.report = Report(torrent, preflight, layouts, good)
         /\ pc = "returned" /\ paging = "off"
<1>1. TypeOK /\ CompletesInOrder /\ IsTorrent(torrent)
  BY TypeLaid DEF IInv
<1>2. Inspected /\ result = [kind |-> "Success", report |-> Report(torrent, preflight, layouts, good)]
  BY <1>1 DEF TypeOK
<1>3. Returned
  BY <1>2 DEF Returned, NoResult
<1>4. IsPreflight(torrent, preflight)
  <2>1. ASSUME NEW f \in DOMAIN torrent.files
        PROVE  preflight[f] \in [hashable : Nat,
                                 finding : {"None", "Unusable", "SymlinkTargetMismatch"}]
    <3>1. preflight[f] \in Inspections(torrent.files[f])
      BY <1>2 DEF Inspected
    <3>2. torrent.files[f].length \in Nat
      BY <1>1, FilesTyped
    <3> QED BY <3>1, <3>2 DEF Inspections
  <2> QED BY <2>1 DEF IsPreflight
<1>5. pc = "returned" /\ paging = "off"
  BY <1>1, <1>3 DEF TypeOK, CompletesInOrder
<1> QED BY <1>1, <1>2, <1>4, <1>5 DEF Inspected

\* Of a torrent with bytes that could not be hashed verify says Incomplete, and only a
\* file with mismatched bytes is called mismatched.
THEOREM SpecFindingsMatchBytes == Spec => []FindingsMatchBytes
<1>1. ASSUME IInv PROVE FindingsMatchBytes
  <2> SUFFICES ASSUME result.kind = "Success", NEW f \in Reported(torrent)
               PROVE  FileReportSound(torrent, result.report, f)
    BY DEF FindingsMatchBytes, FileReportSound
  <2> QED BY <1>1, ReportMade, ReportCountsRight
<1> QED BY <1>1, SpecIInv, PTL

\* "Verified" is said exactly of a torrent of which every byte was found.
THEOREM SpecVerifiedMeansAll == Spec => []VerifiedMeansAll
<1>1. ASSUME IInv PROVE VerifiedMeansAll
  <2> SUFFICES ASSUME result.kind = "Success"
               PROVE  result.report.outcome = "Verified"
                        <=> AllFound(torrent, layouts, result.report, good)
    BY DEF VerifiedMeansAll, AllFound, Pieces
  <2> QED BY <1>1, ReportMade, VerifiedExactly
<1> QED BY <1>1, SpecIInv, PTL

\* An observed call that succeeds has nothing left to say.
LEMMA AllSaid ==
  ASSUME IInv, result.kind = "Success", observed
  PROVE  emitted = Hashable /\ ranges = {} /\ changed = {} /\ page = NoPage
<1>1. TypeOK /\ Laid /\ PublisherTypeOK /\ PendingExact /\ RecordsTrue /\ CompletesInOrder
      /\ paging = "off"
  BY TypeLaid, ReportMade DEF IInv, TypeOK, PublisherInv
<1>2. Hashable \subseteq emitted /\ emitted \subseteq Hashable /\ ~Undelivered
  BY <1>1 DEF CompletesInOrder, Finished, RecordsTrue
<1>3. IsFiniteSet(changed)
  BY <1>1, FS_Subset DEF Laid, PublisherTypeOK
<1>4. ranges = {} /\ changed = {}
  BY <1>1, <1>2, <1>3, FS_EmptySet DEF Undelivered, PendingExact
<1> QED BY <1>1, <1>2, <1>4 DEF PublisherTypeOK

LEMMA ToldOfPieces ==
  ASSUME IInv, result.kind = "Success", observed
  PROVE  PiecesTold
<1>1. /\ PublisherTypeOK /\ OnceEach /\ RecordsTrue /\ emitted = Hashable
      /\ ranges \cup page.ranges = {}
  BY AllSaid DEF IInv, TypeOK, PublisherInv, NoPage
<1> SUFFICES ASSUME NEW p \in Pieces, NEW s \in States
             PROVE  shownPieces[p][s] = IF Final(p, s) THEN 1 ELSE 0
  BY DEF PiecesTold
<1>2. \A z \in States : shownPieces[p][z] \in Nat
  BY <1>1 DEF PublisherTypeOK
<1>3. \A z \in States : shownPieces[p][z] > 0 => Final(p, z)
  BY <1>1 DEF RecordsTrue
<1>4. Holders(ranges \cup page.ranges, p) = {}
  BY <1>1 DEF Holders
<1>5. p \in emitted => \E z \in States : shownPieces[p][z] = 1
  BY <1>1, <1>4, Whereabouts
<1>6. \A z \in States : Final(p, s) /\ Final(p, z) => z = s
  BY DEF Final, States
<1>7. Final(p, s) => p \in emitted
  BY <1>1 DEF Final
<1> QED BY <1>2, <1>3, <1>5, <1>6, <1>7

LEMMA ToldOfFiles ==
  ASSUME IInv, result.kind = "Success", observed
  PROVE  shownTally = result.report.bytes
<1> DEFINE report == Report(torrent, preflight, layouts, good)
<1>1. /\ TypeOK /\ PublisherTypeOK /\ CountersTold /\ RecordsTrue /\ IsTorrent(torrent)
      /\ layouts = Layouts(torrent, preflight) /\ result.report = report
      /\ emitted = Hashable /\ changed = {} /\ page = NoPage
  BY AllSaid, ReportMade DEF IInv, TypeOK, PublisherInv
<1>2. LaidOut(torrent, layouts) /\ Hashable = HashablePieces(layouts)
  BY <1>1, LayoutsLaidOut DEF Hashable, HashablePieces, Pieces
<1>3. /\ DOMAIN report.bytes = Reported(torrent)
      /\ \A f \in Reported(torrent) :
           report.bytes[f] = [hashed |-> report.bytes[f].hashed,
                              verified |-> report.bytes[f].verified,
                              mismatched |-> report.bytes[f].mismatched]
      /\ report.bytes = [f \in Reported(torrent) |-> report.bytes[f]]
  BY DEF Report
<1> HIDE DEF report
<1>4. ASSUME NEW f \in Reported(torrent) PROVE shownTally[f] = report.bytes[f]
  <2> DEFINE g == BytesIn(layouts, f)
             H == HashedPieces(layouts, f)
  <2>1. shownTally[f] = [hashed |-> Bytes(f, Hashable), verified |-> Bytes(f, Hashable \cap good),
                         mismatched |-> Bytes(f, Hashable \ good)]
    <3>1. shownTally[f] = tally[f]
      BY <1>1 DEF CountersTold, NoPage
    <3> QED BY <1>1, <3>1 DEF RecordsTrue
  <2>2. /\ Hashable \cap H = H /\ (Hashable \cap good) \cap H = H \cap good
        /\ (Hashable \ good) \cap H = H \ good
        /\ Hashable \in SUBSET HashablePieces(layouts)
        /\ Hashable \cap good \in SUBSET HashablePieces(layouts)
        /\ Hashable \ good \in SUBSET HashablePieces(layouts)
    BY <1>2 DEF HashedPieces
  <2>3. FileReported(preflight, layouts, good, report, f)
    BY ReportParts DEF report
  <2>4. /\ report.bytes[f].hashed = SumFunctionOnSet(g, H)
        /\ report.bytes[f].verified = SumFunctionOnSet(g, H \cap good)
        /\ report.bytes[f].mismatched = SumFunctionOnSet(g, H \ good)
    BY <2>3 DEF FileReported
  <2>5. \A P \in SUBSET HashablePieces(layouts) :
          SumFunctionOnSet(g, P) = SumFunctionOnSet(g, P \cap H)
    BY <1>2, HashedSums
  <2> HIDE DEF g, H
  <2>6. /\ SumFunctionOnSet(g, Hashable) = SumFunctionOnSet(g, H)
        /\ SumFunctionOnSet(g, Hashable \cap good) = SumFunctionOnSet(g, H \cap good)
        /\ SumFunctionOnSet(g, Hashable \ good) = SumFunctionOnSet(g, H \ good)
    BY <2>2, <2>5
  <2>7. /\ Bytes(f, Hashable) = report.bytes[f].hashed
        /\ Bytes(f, Hashable \cap good) = report.bytes[f].verified
        /\ Bytes(f, Hashable \ good) = report.bytes[f].mismatched
    BY <2>4, <2>6 DEF Bytes, g
  <2> QED BY <1>3, <2>1, <2>7
<1>5. shownTally = [f \in Reported(torrent) |-> shownTally[f]]
  BY <1>1 DEF PublisherTypeOK
<1> QED BY <1>1, <1>3, <1>4, <1>5

\* By the time an observed verify returns a report its caller was told of every hashable
\* piece once, in its final state, and of the counters of the report.
THEOREM SpecProgressAddsUp == Spec => []ProgressAddsUp
<1>1. ASSUME IInv PROVE ProgressAddsUp
  BY <1>1, ToldOfPieces, ToldOfFiles DEF ProgressAddsUp
<1> QED BY <1>1, SpecIInv, PTL

\* After a cancellation at most the snapshot under way is still told, and a verify that went
\* on telling after one does not return a report, wherever the cancellation comes.
THEOREM SpecCancelledIsQuiet == Spec => []CancelledIsQuiet
<1>1. IInv => CancelledIsQuiet
  BY DEF IInv, QuietAfterCancel, CompletesInOrder, CancelledIsQuiet
<1> QED BY <1>1, SpecIInv, PTL

=============================================================================
