----------------------------- MODULE HopperProofs -----------------------------
(***************************************************************************)
(* Hoppers, droppers and crafters in every layout of containers, with any  *)
(* items: no item is lost or doubled, nothing lies where it may not,       *)
(* comparators are told, and delays do not depend on the order of ticks.   *)
(*                                                                         *)
(* What all slots hold together is a sum over a finite set of cells. An    *)
(* insertion takes slots in an order in which none comes twice, so that    *)
(* the sum grows by what it took (PutFacts); each operation of a session   *)
(* then keeps its weight, what it holds with what it took from the ground  *)
(* and what it has spent (Follows), up to the item on its way (Inserts,    *)
(* Removes, Transfers, Pulls, Moves). A callback is such a session         *)
(* committed, or a dropper or crafter (Steady).                            *)
(***************************************************************************)
EXTENDS HopperTransfer, FiniteSetTheorems, SequenceTheorems, WellFoundedInduction, TLAPS

-------------------------------------------------------------------------------
(* Sums over finite sets.                                                   *)

\* g sums the values of f over each subset of X, in the order of CHOOSE.
Sums(g, f, X) ==
  g = [s \in SUBSET X |-> IF s = {} THEN 0
                          ELSE f[CHOOSE x \in s : TRUE] + g[s \ {CHOOSE x \in s : TRUE}]]

LEMMA SmallestSet ==
  ASSUME NEW X, IsFiniteSet(X), NEW C, C \subseteq SUBSET X, C # {}
  PROVE  \E s \in C : \A t \in C : ~(t \subseteq s /\ t # s)
<1> DEFINE R == StrictSubsetOrdering(X)
<1>1. IsWellFoundedOn(R, SUBSET X)
  <2>1. IsWellFoundedOn(R, FiniteSubsetsOf(X)) BY FS_StrictSubsetOrderingWellFounded
  <2>2. SUBSET X = FiniteSubsetsOf(X) BY FS_Subset DEF FiniteSubsetsOf
  <2> QED BY <2>1, <2>2
<1>2. \E s \in C : \A t \in C : ~ (<<t, s>> \in R)
  <2> HIDE DEF R
  <2> QED BY <1>1, WFMin, Zenon
<1> QED BY <1>2 DEF StrictSubsetOrdering

Chosen(s) == CHOOSE x \in s : TRUE

LEMMA SumsAgree ==
  ASSUME NEW X, IsFiniteSet(X), NEW Y, NEW f, NEW g, NEW h, Sums(g, f, X), Sums(h, f, Y),
         NEW s, s \subseteq X, s \subseteq Y
  PROVE  g[s] = h[s]
<1> DEFINE C == {t \in SUBSET s : g[t] # h[t]}
<1>1. SUFFICES ASSUME C # {} PROVE FALSE OBVIOUS
<1>2. C \subseteq SUBSET X OBVIOUS
<1>3z. \E t \in C : \A u \in C : ~(u \subseteq t /\ u # t)
  <2>1. C \subseteq SUBSET X OBVIOUS
  <2> HIDE DEF C
  <2> QED BY <1>1, <2>1, SmallestSet
<1>3. PICK t \in C : \A u \in C : ~(u \subseteq t /\ u # t) BY <1>3z
<1>4. t \in SUBSET X /\ t \in SUBSET Y OBVIOUS
<1>5. CASE t = {} BY <1>3, <1>4, <1>5 DEF Sums
<1>6. CASE t # {}
  <2> DEFINE u == t \ {Chosen(t)}
  <2>1. Chosen(t) \in t BY <1>6 DEF Chosen
  <2>2. g[u] = h[u] BY <1>3, <2>1
  <2>3. g[t] = f[Chosen(t)] + g[u] BY <1>4, <1>6 DEF Sums, Chosen
  <2>4. h[t] = f[Chosen(t)] + h[u] BY <1>4, <1>6 DEF Sums, Chosen
  <2> QED BY <1>3, <2>2, <2>3, <2>4
<1> QED BY <1>5, <1>6

LEMMA SumIsChosen ==
  ASSUME NEW f, NEW S
  PROVE  SumFunctionOnSet(f, S) = (CHOOSE g : Sums(g, f, S))[S]
BY DEF SumFunctionOnSet, FoldFunctionOnSet, MapThenFoldSet, Sums

LEMMA SumsStep ==
  ASSUME NEW f, NEW S, IsFiniteSet(S), S # {}, \E g : Sums(g, f, S),
         \E g : Sums(g, f, S \ {Chosen(S)})
  PROVE  SumFunctionOnSet(f, S) = f[Chosen(S)] + SumFunctionOnSet(f, S \ {Chosen(S)})
<1> DEFINE u == S \ {Chosen(S)}
           G == CHOOSE g : Sums(g, f, S)
           H == CHOOSE g : Sums(g, f, u)
<1>1. Sums(G, f, S) /\ Sums(H, f, u) OBVIOUS
<1> HIDE DEF G, H
<1>2. G[u] = H[u] BY <1>1, SumsAgree
<1>3. G[S] = f[Chosen(S)] + G[u] BY <1>1 DEF Sums, Chosen
<1> QED BY <1>2, <1>3, SumIsChosen DEF G, H

LEMMA SumsExist ==
  ASSUME NEW f, NEW X, IsFiniteSet(X)
  PROVE  \E g : Sums(g, f, X)
<1> DEFINE C == {s \in SUBSET X : ~ \E g : Sums(g, f, s)}
<1>1. SUFFICES ASSUME C # {} PROVE FALSE OBVIOUS
<1>2z. \E s \in C : \A t \in C : ~(t \subseteq s /\ t # s)
  <2>1. C \subseteq SUBSET X OBVIOUS
  <2> HIDE DEF C
  <2> QED BY <1>1, <2>1, SmallestSet
<1>2. PICK s \in C : \A t \in C : ~(t \subseteq s /\ t # s) BY <1>2z
<1>3. \A t \in SUBSET s : t # s => \E g : Sums(g, f, t) BY <1>2
<1> DEFINE val(t) == SumFunctionOnSet(f, t)
           rec(t) == IF t = {} THEN 0 ELSE f[Chosen(t)] + val(t \ {Chosen(t)})
           g == [t \in SUBSET s |-> rec(t)]
<1>4. \A t \in SUBSET s : t # s => val(t) = rec(t)
  <2>1. TAKE t \in SUBSET s
  <2>2. HAVE t # s
  <2>3. IsFiniteSet(t) BY <2>1, FS_Subset
  <2>4. CASE t = {}
    <3>1. Sums(CHOOSE h : Sums(h, f, t), f, t) BY <1>3, <2>2
    <3>2. (CHOOSE h : Sums(h, f, t))[t] = 0 BY <2>4, <3>1 DEF Sums
    <3> QED BY <2>4, <3>2, SumIsChosen
  <2>5. CASE t # {}
    <3>1. \E h : Sums(h, f, t) BY <1>3, <2>2
    <3>2. \E h : Sums(h, f, t \ {Chosen(t)}) BY <1>3, <2>2
    <3> QED BY <2>3, <2>5, <3>1, <3>2, SumsStep
  <2> QED BY <2>4, <2>5
<1>5. Sums(g, f, s)
  <2>1. \A t \in SUBSET s : t # {} => t \ {Chosen(t)} \in SUBSET s /\ t \ {Chosen(t)} # s
    <3> SUFFICES ASSUME NEW t \in SUBSET s, t # {} PROVE t \ {Chosen(t)} # s OBVIOUS
    <3>1. Chosen(t) \in t BY DEF Chosen
    <3> QED BY <3>1
  <2> DEFINE h(t) == IF t = {} THEN 0 ELSE f[Chosen(t)] + g[t \ {Chosen(t)}]
  <2>2. \A t \in SUBSET s : rec(t) = h(t)
    <3>1. TAKE t \in SUBSET s
    <3>2. CASE t # {}
      <4>1. val(t \ {Chosen(t)}) = rec(t \ {Chosen(t)}) BY <1>4, <2>1, <3>2
      <4>2. g[t \ {Chosen(t)}] = rec(t \ {Chosen(t)}) BY <2>1, <3>2
      <4> HIDE DEF val
      <4> QED BY <4>1, <4>2, <3>2
    <3> QED BY <3>2
  <2>3. g = [t \in SUBSET s |-> h(t)] BY <2>2
  <2> QED BY <2>3 DEF Sums, Chosen
<1> QED BY <1>2, <1>5

LEMMA SumEmpty ==
  ASSUME NEW f
  PROVE  SumFunctionOnSet(f, {}) = 0
<1>1. Sums(CHOOSE h : Sums(h, f, {}), f, {}) BY SumsExist, FS_EmptySet
<1> QED BY <1>1, SumIsChosen DEF Sums

LEMMA SumChosen ==
  ASSUME NEW f, NEW S, IsFiniteSet(S), S # {}
  PROVE  SumFunctionOnSet(f, S) = f[Chosen(S)] + SumFunctionOnSet(f, S \ {Chosen(S)})
<1>1. IsFiniteSet(S \ {Chosen(S)}) BY FS_Subset
<1> QED BY <1>1, SumsExist, SumsStep

LEMMA SumInt ==
  ASSUME NEW S, IsFiniteSet(S), NEW f, \A x \in S : f[x] \in Int
  PROVE  SumFunctionOnSet(f, S) \in Int
<1> DEFINE C == {s \in SUBSET S : SumFunctionOnSet(f, s) \notin Int}
<1>1. SUFFICES ASSUME C # {} PROVE FALSE OBVIOUS
<1>2z. \E s \in C : \A t \in C : ~(t \subseteq s /\ t # s)
  <2>1. C \subseteq SUBSET S OBVIOUS
  <2> HIDE DEF C
  <2> QED BY <1>1, <2>1, SmallestSet
<1>2. PICK s \in C : \A t \in C : ~(t \subseteq s /\ t # s) BY <1>2z
<1>2a. SumFunctionOnSet(f, s) \notin Int BY <1>2
<1>3. s # {} BY <1>2a, SumEmpty
<1>4. IsFiniteSet(s) BY FS_Subset
<1>5. Chosen(s) \in s BY <1>3 DEF Chosen
<1>6. SumFunctionOnSet(f, s \ {Chosen(s)}) \in Int BY <1>2, <1>5
<1>7. SumFunctionOnSet(f, s) = f[Chosen(s)] + SumFunctionOnSet(f, s \ {Chosen(s)}) BY <1>3, <1>4, SumChosen
<1> QED BY <1>2, <1>5, <1>6, <1>7

LEMMA SumRemove ==
  ASSUME NEW S, IsFiniteSet(S), NEW f, \A x \in S : f[x] \in Int, NEW x \in S
  PROVE  SumFunctionOnSet(f, S) = f[x] + SumFunctionOnSet(f, S \ {x})
<1> DEFINE sum(s) == SumFunctionOnSet(f, s)
           C == {s \in SUBSET S : \E y \in s : sum(s) # f[y] + sum(s \ {y})}
<1>1. SUFFICES ASSUME C # {} PROVE FALSE OBVIOUS
<1>2z. \E s \in C : \A t \in C : ~(t \subseteq s /\ t # s)
  <2>1. C \subseteq SUBSET S OBVIOUS
  <2> HIDE DEF C
  <2> QED BY <1>1, <2>1, SmallestSet
<1>2. PICK s \in C : \A t \in C : ~(t \subseteq s /\ t # s) BY <1>2z
<1>3. PICK y \in s : sum(s) # f[y] + sum(s \ {y}) BY <1>2
<1>4. \A t \in SUBSET S : IsFiniteSet(t) BY FS_Subset
<1>4a. IsFiniteSet(s) BY <1>4
<1>5. Chosen(s) \in s BY <1>3 DEF Chosen
<1>6. sum(s) = f[Chosen(s)] + sum(s \ {Chosen(s)}) BY <1>3, <1>4a, SumChosen
<1>7. y # Chosen(s) BY <1>3, <1>6
<1>8. sum(s \ {Chosen(s)}) = f[y] + sum((s \ {Chosen(s)}) \ {y})
  <2>1. s \ {Chosen(s)} \notin C BY <1>2, <1>5
  <2> HIDE DEF sum
  <2> QED BY <2>1, <1>7
<1>9. sum(s \ {y}) = f[Chosen(s)] + sum((s \ {y}) \ {Chosen(s)})
  <2>1. s \ {y} \notin C BY <1>2
  <2> HIDE DEF sum
  <2> QED BY <2>1, <1>5, <1>7
<1>10. (s \ {Chosen(s)}) \ {y} = (s \ {y}) \ {Chosen(s)} OBVIOUS
<1>11. sum((s \ {y}) \ {Chosen(s)}) \in Int /\ f[y] \in Int /\ f[Chosen(s)] \in Int
  <2>1. IsFiniteSet((s \ {y}) \ {Chosen(s)}) BY <1>4
  <2> QED BY <2>1, SumInt, <1>5
<1>12. sum(s) # f[y] + sum(s \ {y}) BY <1>3
<1>13. \A a, b, c \in Int : b + (a + c) = a + (b + c) OBVIOUS
<1> HIDE DEF sum, C
<1> DEFINE a == f[y]
           b == f[Chosen(s)]
           c == sum((s \ {y}) \ {Chosen(s)})
<1>15. a \in Int /\ b \in Int /\ c \in Int BY <1>11
<1>16. sum(s) = b + (a + c) BY <1>6, <1>8, <1>10, Zenon
<1>17. a + sum(s \ {y}) = a + (b + c) BY <1>9, Zenon
<1> HIDE DEF a, b, c
<1>18. b + (a + c) = a + (b + c) BY <1>15
<1>14. sum(s) = a + sum(s \ {y}) BY <1>16, <1>17, <1>18, Zenon
<1> USE DEF a
<1> QED BY <1>12, <1>14

LEMMA SubsetInduction ==
  ASSUME NEW X, IsFiniteSet(X), NEW T, {} \in T,
         \A s \in SUBSET X : \A x \in X \ s : s \in T => s \cup {x} \in T
  PROVE  X \in T
<1> DEFINE C == {s \in SUBSET X : s \notin T}
<1>1. C \subseteq SUBSET X OBVIOUS
<1>2. SUFFICES ASSUME C # {} PROVE FALSE OBVIOUS
<1>3. \E s \in C : \A t \in C : ~(t \subseteq s /\ t # s)
  <2> HIDE DEF C
  <2> QED BY <1>1, <1>2, SmallestSet
<1>4. PICK s \in C : \A t \in C : ~(t \subseteq s /\ t # s) BY <1>3
<1>5. s # {} OBVIOUS
<1>6. PICK x \in s : TRUE BY <1>5
<1>7. s \ {x} \in T BY <1>4, <1>6
<1>8. (s \ {x}) \cup {x} = s BY <1>6
<1>9. (s \ {x}) \cup {x} \in T BY <1>7
<1> QED BY <1>8, <1>9

LEMMA SumInsert ==
  ASSUME NEW S, IsFiniteSet(S), NEW f, NEW x, x \notin S, \A y \in S \cup {x} : f[y] \in Int
  PROVE  SumFunctionOnSet(f, S \cup {x}) = f[x] + SumFunctionOnSet(f, S)
<1>1. IsFiniteSet(S \cup {x}) BY FS_AddElement
<1>2. (S \cup {x}) \ {x} = S OBVIOUS
<1>3. SumFunctionOnSet(f, S \cup {x}) = f[x] + SumFunctionOnSet(f, (S \cup {x}) \ {x})
  BY <1>1, SumRemove
<1> QED BY <1>2, <1>3

LEMMA SumSame ==
  ASSUME NEW S, IsFiniteSet(S), NEW f, NEW g, \A x \in S : f[x] \in Int /\ g[x] = f[x]
  PROVE  SumFunctionOnSet(g, S) = SumFunctionOnSet(f, S)
<1> DEFINE T == {s \in SUBSET S : SumFunctionOnSet(g, s) = SumFunctionOnSet(f, s)}
<1>1. {} \in T BY SumEmpty
<1>2. \A s \in SUBSET S : \A x \in S \ s : s \in T => s \cup {x} \in T
  <2> SUFFICES ASSUME NEW s \in SUBSET S, NEW x \in S \ s, s \in T
               PROVE SumFunctionOnSet(g, s \cup {x}) = SumFunctionOnSet(f, s \cup {x}) OBVIOUS
  <2>1. IsFiniteSet(s) BY FS_Subset
  <2>2. SumFunctionOnSet(f, s \cup {x}) = f[x] + SumFunctionOnSet(f, s) BY <2>1, SumInsert
  <2>3. SumFunctionOnSet(g, s \cup {x}) = g[x] + SumFunctionOnSet(g, s) BY <2>1, SumInsert
  <2> QED BY <2>2, <2>3
<1>3. S \in T
  <2> HIDE DEF T
  <2> QED BY <1>1, <1>2, SubsetInduction
<1> QED BY <1>3

LEMMA SumZero ==
  ASSUME NEW S, IsFiniteSet(S), NEW f, \A x \in S : f[x] = 0
  PROVE  SumFunctionOnSet(f, S) = 0
<1> DEFINE T == {s \in SUBSET S : SumFunctionOnSet(f, s) = 0}
<1>1. {} \in T BY SumEmpty
<1>2. \A s \in SUBSET S : \A x \in S \ s : s \in T => s \cup {x} \in T
  <2> SUFFICES ASSUME NEW s \in SUBSET S, NEW x \in S \ s, s \in T
               PROVE SumFunctionOnSet(f, s \cup {x}) = 0 OBVIOUS
  <2>1. IsFiniteSet(s) BY FS_Subset
  <2>3. \A y \in s \cup {x} : f[y] \in Int OBVIOUS
  <2>2. SumFunctionOnSet(f, s \cup {x}) = f[x] + SumFunctionOnSet(f, s) BY <2>1, <2>3, SumInsert
  <2> QED BY <2>2
<1>3. S \in T
  <2> HIDE DEF T
  <2> QED BY <1>1, <1>2, SubsetInduction
<1> QED BY <1>3

LEMMA SumNat ==
  ASSUME NEW S, IsFiniteSet(S), NEW f, \A x \in S : f[x] \in Nat
  PROVE  SumFunctionOnSet(f, S) \in Nat
<1> DEFINE T == {s \in SUBSET S : SumFunctionOnSet(f, s) \in Nat}
<1>1. {} \in T BY SumEmpty
<1>2. \A s \in SUBSET S : \A x \in S \ s : s \in T => s \cup {x} \in T
  <2> SUFFICES ASSUME NEW s \in SUBSET S, NEW x \in S \ s, s \in T
               PROVE SumFunctionOnSet(f, s \cup {x}) \in Nat OBVIOUS
  <2>1. IsFiniteSet(s) BY FS_Subset
  <2>3. \A y \in s \cup {x} : f[y] \in Int OBVIOUS
  <2>2. SumFunctionOnSet(f, s \cup {x}) = f[x] + SumFunctionOnSet(f, s) BY <2>1, <2>3, SumInsert
  <2> QED BY <2>2
<1>3. S \in T
  <2> HIDE DEF T
  <2> QED BY <1>1, <1>2, SubsetInduction
<1> QED BY <1>3

\* A sum of natural numbers is zero only when each of them is.
LEMMA SumAtLeast ==
  ASSUME NEW S, IsFiniteSet(S), NEW f, \A x \in S : f[x] \in Nat, NEW x \in S
  PROVE  f[x] <= SumFunctionOnSet(f, S)
<1>1. SumFunctionOnSet(f, S) = f[x] + SumFunctionOnSet(f, S \ {x}) BY SumRemove
<1>2. IsFiniteSet(S \ {x}) BY FS_Subset
<1>3. SumFunctionOnSet(f, S \ {x}) \in Nat BY <1>2, SumNat
<1> QED BY <1>1, <1>3

LEMMA SumChange ==
  ASSUME NEW S, IsFiniteSet(S), NEW f, NEW g, NEW x \in S,
         \A y \in S : f[y] \in Int /\ g[y] \in Int, \A y \in S \ {x} : g[y] = f[y]
  PROVE  SumFunctionOnSet(g, S) = SumFunctionOnSet(f, S) + (g[x] - f[x])
<1>1. IsFiniteSet(S \ {x}) BY FS_Subset
<1>2. SumFunctionOnSet(f, S) = f[x] + SumFunctionOnSet(f, S \ {x}) BY SumRemove
<1>3. SumFunctionOnSet(g, S) = g[x] + SumFunctionOnSet(g, S \ {x}) BY SumRemove
<1>4. SumFunctionOnSet(g, S \ {x}) = SumFunctionOnSet(f, S \ {x}) BY <1>1, SumSame
<1>5. SumFunctionOnSet(f, S \ {x}) \in Int BY <1>1, SumInt
<1> QED BY <1>2, <1>3, <1>4, <1>5

LEMMA SumPlus ==
  ASSUME NEW S, IsFiniteSet(S), NEW f, NEW g, NEW h,
         \A x \in S : f[x] \in Int /\ g[x] \in Int /\ h[x] = f[x] + g[x]
  PROVE  SumFunctionOnSet(h, S) = SumFunctionOnSet(f, S) + SumFunctionOnSet(g, S)
<1> DEFINE T == {s \in SUBSET S :
                  SumFunctionOnSet(h, s) = SumFunctionOnSet(f, s) + SumFunctionOnSet(g, s)}
<1>1. {} \in T BY SumEmpty
<1>2. \A s \in SUBSET S : \A x \in S \ s : s \in T => s \cup {x} \in T
  <2> SUFFICES ASSUME NEW s \in SUBSET S, NEW x \in S \ s, s \in T
               PROVE SumFunctionOnSet(h, s \cup {x})
                       = SumFunctionOnSet(f, s \cup {x}) + SumFunctionOnSet(g, s \cup {x}) OBVIOUS
  <2>1. IsFiniteSet(s) BY FS_Subset
  <2>2. SumFunctionOnSet(f, s \cup {x}) = f[x] + SumFunctionOnSet(f, s) BY <2>1, SumInsert
  <2>3. SumFunctionOnSet(g, s \cup {x}) = g[x] + SumFunctionOnSet(g, s) BY <2>1, SumInsert
  <2>6. \A y \in s \cup {x} : h[y] \in Int OBVIOUS
  <2>4. SumFunctionOnSet(h, s \cup {x}) = h[x] + SumFunctionOnSet(h, s) BY <2>1, <2>6, SumInsert
  <2>5. SumFunctionOnSet(f, s) \in Int /\ SumFunctionOnSet(g, s) \in Int BY <2>1, SumInt
  <2> QED BY <2>2, <2>3, <2>4, <2>5
<1>3. S \in T
  <2> HIDE DEF T
  <2> QED BY <1>1, <1>2, SubsetInduction
<1> QED BY <1>3

\* Only the elements of A count.
LEMMA SumWithin ==
  ASSUME NEW S, IsFiniteSet(S), NEW A, A \subseteq S, NEW f,
         \A x \in S : f[x] \in Int, \A x \in S \ A : f[x] = 0
  PROVE  SumFunctionOnSet(f, S) = SumFunctionOnSet(f, A)
<1> DEFINE T == {s \in SUBSET S : SumFunctionOnSet(f, s) = SumFunctionOnSet(f, s \cap A)}
<1>0. {} \cap A = {} OBVIOUS
<1>1. {} \in T BY <1>0, SumEmpty
<1>2. \A s \in SUBSET S : \A x \in S \ s : s \in T => s \cup {x} \in T
  <2> SUFFICES ASSUME NEW s \in SUBSET S, NEW x \in S \ s, s \in T
               PROVE SumFunctionOnSet(f, s \cup {x}) = SumFunctionOnSet(f, (s \cup {x}) \cap A) OBVIOUS
  <2>1. IsFiniteSet(s) /\ IsFiniteSet(s \cap A) BY FS_Subset
  <2>2. SumFunctionOnSet(f, s \cup {x}) = f[x] + SumFunctionOnSet(f, s) BY <2>1, SumInsert
  <2>3. SumFunctionOnSet(f, s) = SumFunctionOnSet(f, s \cap A) OBVIOUS
  <2>4. SumFunctionOnSet(f, s \cap A) \in Int BY <2>1, SumInt
  <2>5. CASE x \in A
    <3>1. SumFunctionOnSet(f, (s \cap A) \cup {x}) = f[x] + SumFunctionOnSet(f, s \cap A)
      BY <2>1, SumInsert
    <3>2. (s \cup {x}) \cap A = (s \cap A) \cup {x} BY <2>5
    <3> QED BY <2>2, <2>3, <3>1, <3>2
  <2>6. CASE x \notin A
    <3>1. (s \cup {x}) \cap A = s \cap A BY <2>6
    <3>2. f[x] = 0 BY <2>6
    <3>3. SumFunctionOnSet(f, s \cup {x}) = SumFunctionOnSet(f, s) BY <2>2, <2>3, <2>4, <3>2
    <3> QED BY <2>3, <3>1, <3>3, Zenon
  <2> QED BY <2>5, <2>6
<1>3. S \in T
  <2> HIDE DEF T
  <2> QED BY <1>1, <1>2, SubsetInduction
<1>4. S \cap A = A OBVIOUS
<1> QED BY <1>3, <1>4

\* Sums over what an injection maps to.
LEMMA SumSpread ==
  ASSUME NEW S, IsFiniteSet(S), NEW I, IsFiniteSet(I), NEW e,
         \A i \in I : e[i] \in S, \A i, j \in I : e[i] = e[j] => i = j,
         NEW f, NEW r, \A x \in S : f[x] \in Int, \A i \in I : f[e[i]] = r[i],
         \A x \in S : (\A i \in I : e[i] # x) => f[x] = 0
  PROVE  SumFunctionOnSet(f, S) = SumFunctionOnSet(r, I)
<1> DEFINE img(s) == {e[i] : i \in s}
           T == {s \in SUBSET I : SumFunctionOnSet(f, img(s)) = SumFunctionOnSet(r, s)}
<1>0. img({}) = {} OBVIOUS
<1>1. {} \in T
  <2>1. SumFunctionOnSet(f, img({})) = 0 BY <1>0, SumEmpty, Zenon
  <2> QED BY <2>1, SumEmpty
<1>2. \A s \in SUBSET I : \A i \in I \ s : s \in T => s \cup {i} \in T
  <2> SUFFICES ASSUME NEW s \in SUBSET I, NEW i \in I \ s, s \in T
               PROVE SumFunctionOnSet(f, img(s \cup {i})) = SumFunctionOnSet(r, s \cup {i}) OBVIOUS
  <2>1. IsFiniteSet(s) BY FS_Subset
  <2>2. img(s) \subseteq S OBVIOUS
  <2>3. IsFiniteSet(img(s)) BY <2>2, FS_Subset
  <2>4. img(s \cup {i}) = img(s) \cup {e[i]} OBVIOUS
  <2>5. e[i] \notin img(s) OBVIOUS
  <2>6. SumFunctionOnSet(f, img(s)) = SumFunctionOnSet(r, s) OBVIOUS
  <2>7. \A x \in img(s) \cup {e[i]} : f[x] \in Int BY <2>2
  <2>12. \A j \in s \cup {i} : r[j] \in Int OBVIOUS
  <2>8. SumFunctionOnSet(r, s \cup {i}) = r[i] + SumFunctionOnSet(r, s) BY <2>1, <2>12, SumInsert
  <2> HIDE DEF img
  <2>9. SumFunctionOnSet(f, img(s) \cup {e[i]}) = f[e[i]] + SumFunctionOnSet(f, img(s))
    BY <2>3, <2>5, <2>7, SumInsert
  <2>10. SumFunctionOnSet(f, img(s \cup {i})) = SumFunctionOnSet(f, img(s) \cup {e[i]}) BY <2>4
  <2>11. f[e[i]] = r[i] OBVIOUS
  <2> QED BY <2>6, <2>8, <2>9, <2>10, <2>11
<1>3. I \in T
  <2> HIDE DEF T
  <2> QED BY <1>1, <1>2, SubsetInduction
<1>4. img(I) \subseteq S OBVIOUS
<1>5. \A x \in S \ img(I) : f[x] = 0 OBVIOUS
<1>6. SumFunctionOnSet(f, img(I)) = SumFunctionOnSet(r, I) BY <1>3
<1> HIDE DEF img
<1>7. SumFunctionOnSet(f, S) = SumFunctionOnSet(f, img(I)) BY <1>4, <1>5, SumWithin
<1> QED BY <1>6, <1>7

-------------------------------------------------------------------------------
(* Recursions: the slots among others, and pouring items into slots.        *)

LEMMA NatInductionOnSet ==
  ASSUME NEW T, 0 \in T, \A n \in Nat : n \in T => n + 1 \in T
  PROVE  Nat \subseteq T
<1> DEFINE C == {n \in Nat : n \notin T}
           R == OpToRel(<, Nat)
<1>1. SUFFICES ASSUME C # {} PROVE FALSE OBVIOUS
<1>2. \E x \in C : \A y \in C : ~ (<<y, x>> \in R)
  <2>1. IsWellFoundedOn(R, Nat) BY NatLessThanWellFounded
  <2>2. C \subseteq Nat OBVIOUS
  <2> HIDE DEF R, C
  <2> QED BY <2>1, <2>2, <1>1, WFMin, Zenon
<1>3. PICK x \in C : \A y \in C : ~ (<<y, x>> \in R) BY <1>2
<1>4. \A y \in C : ~ (y < x) BY <1>3 DEF OpToRel
<1>5. x \in Nat /\ x # 0 /\ x \notin T BY <1>3
<1>6. x - 1 \in Nat /\ x - 1 < x BY <1>5
<1>7. x - 1 \in T BY <1>4, <1>6
<1>8. (x - 1) + 1 \in T BY <1>6, <1>7
<1>9. (x - 1) + 1 = x BY <1>5
<1> QED BY <1>5, <1>8, <1>9

\* What holds of 0 and goes on to the next number holds up to n.
LEMMA UpTo ==
  ASSUME NEW n \in Nat, NEW T, 0 \in T, \A i \in 0 .. n - 1 : i \in T => i + 1 \in T
  PROVE  0 .. n \subseteq T
<1> DEFINE U == {i \in Nat : i <= n => i \in T}
<1>1. 0 \in U OBVIOUS
<1>2. \A i \in Nat : i \in U => i + 1 \in U
  <2> SUFFICES ASSUME NEW i \in Nat, i \in U, i + 1 <= n PROVE i + 1 \in T OBVIOUS
  <2>1. i \in T OBVIOUS
  <2> QED BY <2>1
<1>3. Nat \subseteq U
  <2> HIDE DEF U
  <2> QED BY <1>1, <1>2, NatInductionOnSet
<1> QED BY <1>3

\* A recursion in which each value is the step of the one before it.
IsRecursion(f, n, A, base, step) ==
  f \in [0 .. n -> A] /\ f[0] = base /\ \A i \in 1 .. n : f[i] = step[i][f[i - 1]]

LEMMA RecursionExists ==
  ASSUME NEW n \in Nat, NEW A, NEW base \in A, NEW step \in [1 .. n -> [A -> A]]
  PROVE  \E f : IsRecursion(f, n, A, base, step)
<1> DEFINE ok(f, m) == f[0] = base /\ \A i \in 1 .. m : f[i] = step[i][f[i - 1]]
           has(m) == \E f \in [0 .. m -> A] : ok(f, m)
           T == {m \in 0 .. n : has(m)}
<1>1. 0 \in T
  <2>1. [i \in 0 .. 0 |-> base] \in [0 .. 0 -> A] /\ ok([i \in 0 .. 0 |-> base], 0) OBVIOUS
  <2>2. \E f \in [0 .. 0 -> A] : ok(f, 0) BY <2>1
  <2> QED BY <2>2
<1>2. \A m \in 0 .. n - 1 : m \in T => m + 1 \in T
  <2> SUFFICES ASSUME NEW m \in 0 .. n - 1, has(m) PROVE has(m + 1)
    <3> HIDE DEF has
    <3> QED OBVIOUS
  <2>1. PICK f \in [0 .. m -> A] : ok(f, m) OBVIOUS
  <2> DEFINE g == [i \in 0 .. m + 1 |-> IF i = m + 1 THEN step[m + 1][f[m]] ELSE f[i]]
  <2>2. step[m + 1][f[m]] \in A OBVIOUS
  <2>3. g \in [0 .. m + 1 -> A] BY <2>2
  <2>4. g[0] = base BY <2>1
  <2>5. \A i \in 1 .. m + 1 : g[i] = step[i][g[i - 1]]
    <3> SUFFICES ASSUME NEW i \in 1 .. m + 1 PROVE g[i] = step[i][g[i - 1]] OBVIOUS
    <3>1. i - 1 \in 0 .. m /\ g[i - 1] = f[i - 1] OBVIOUS
    <3>2. CASE i = m + 1 BY <3>1, <3>2
    <3>3. CASE i # m + 1
      <4>1. i \in 1 .. m BY <3>3
      <4>2. g[i] = f[i] BY <3>3
      <4>3. f[i] = step[i][f[i - 1]] BY <2>1, <4>1
      <4> QED BY <3>1, <4>2, <4>3
    <3> QED BY <3>2, <3>3
  <2> QED BY <2>3, <2>4, <2>5
<1>3. 0 .. n \subseteq T
  <2> HIDE DEF T
  <2> QED BY <1>1, <1>2, UpTo
<1>4. n \in T BY <1>3
<1>5. has(n) BY <1>4
<1> QED BY <1>5 DEF IsRecursion

\* The recursion of Among, of which the last value is the result.
KeptAmong(kept, X, slots, set) ==
  /\ kept \in [0 .. Len(slots) -> Seq(X)]
  /\ kept[0] = <<>>
  /\ \A i \in 1 .. Len(slots) :
       kept[i] = IF slots[i] \in set THEN Append(kept[i - 1], slots[i]) ELSE kept[i - 1]
  /\ Among(slots, set) = kept[Len(slots)]

LEMMA AmongRecursion ==
  ASSUME NEW X, NEW slots \in Seq(X), NEW set
  PROVE  \E kept : KeptAmong(kept, X, slots, set)
<1> DEFINE n == Len(slots)
           step == [i \in 1 .. n |-> [a \in Seq(X) |->
                      IF slots[i] \in set THEN Append(a, slots[i]) ELSE a]]
           P(kept) == kept = [i \in 0 .. n |->
             IF i = 0 THEN <<>>
             ELSE IF slots[i] \in set THEN Append(kept[i - 1], slots[i]) ELSE kept[i - 1]]
<1>1. step \in [1 .. n -> [Seq(X) -> Seq(X)]] OBVIOUS
<1>2. <<>> \in Seq(X) /\ n \in Nat OBVIOUS
<1>3. \E f : IsRecursion(f, n, Seq(X), <<>>, step)
  <2> HIDE DEF step, n
  <2> QED BY <1>1, <1>2, RecursionExists
<1>4. PICK f \in [0 .. n -> Seq(X)] : f[0] = <<>> /\ \A i \in 1 .. n : f[i] = step[i][f[i - 1]]
  BY <1>3 DEF IsRecursion
<1>5. \A i \in 1 .. n : f[i] = IF slots[i] \in set THEN Append(f[i - 1], slots[i]) ELSE f[i - 1]
  <2> SUFFICES ASSUME NEW i \in 1 .. n
               PROVE f[i] = IF slots[i] \in set THEN Append(f[i - 1], slots[i]) ELSE f[i - 1] OBVIOUS
  <2>1. i - 1 \in 0 .. n BY <1>2
  <2>2. f[i - 1] \in Seq(X) BY <2>1
  <2>3. step[i] = [a \in Seq(X) |-> IF slots[i] \in set THEN Append(a, slots[i]) ELSE a] OBVIOUS
  <2>4. step[i][f[i - 1]] = IF slots[i] \in set THEN Append(f[i - 1], slots[i]) ELSE f[i - 1]
    BY <2>2, <2>3
  <2>5. f[i] = step[i][f[i - 1]] BY <1>4
  <2> HIDE DEF step
  <2> QED BY <2>4, <2>5, Zenon
<1>6. P(f)
  <2> DEFINE rhs(i) == IF i = 0 THEN <<>>
                       ELSE IF slots[i] \in set THEN Append(f[i - 1], slots[i]) ELSE f[i - 1]
  <2>1. \A i \in 0 .. n : f[i] = rhs(i)
    <3> SUFFICES ASSUME NEW i \in 0 .. n PROVE f[i] = rhs(i) OBVIOUS
    <3>1. i = 0 \/ i \in 1 .. n BY <1>2
    <3> QED BY <1>4, <1>5, <3>1
  <2> HIDE DEF rhs
  <2>2. f = [i \in 0 .. n |-> rhs(i)] BY <2>1
  <2> QED BY <2>2 DEF rhs
<1> DEFINE kept == CHOOSE kept : P(kept)
<1>7. Among(slots, set) = kept[n] BY DEF Among
<1>8. P(kept) BY <1>6
<1> HIDE DEF kept
<1>9. \A i \in 1 .. n :
        kept[i] = IF slots[i] \in set THEN Append(kept[i - 1], slots[i]) ELSE kept[i - 1]
  <2> SUFFICES ASSUME NEW i \in 1 .. n
               PROVE kept[i] = IF slots[i] \in set THEN Append(kept[i - 1], slots[i])
                               ELSE kept[i - 1] OBVIOUS
  <2>1. i \in 0 .. n /\ i # 0 BY <1>2
  <2> QED BY <1>8, <2>1
<1>10. kept[0] = <<>> BY <1>8, <1>2
<1> DEFINE T == {i \in 0 .. n : kept[i] \in Seq(X)}
<1>11. 0 \in T BY <1>10, <1>2
<1>12. \A i \in 0 .. n - 1 : i \in T => i + 1 \in T
  <2> SUFFICES ASSUME NEW i \in 0 .. n - 1, kept[i] \in Seq(X) PROVE kept[i + 1] \in Seq(X)
    BY <1>2
  <2>1. i + 1 \in 1 .. n /\ (i + 1) - 1 = i BY <1>2
  <2>2. slots[i + 1] \in X BY <2>1
  <2>3. kept[i + 1] = IF slots[i + 1] \in set THEN Append(kept[i], slots[i + 1]) ELSE kept[i]
    BY <1>9, <2>1
  <2>4. Append(kept[i], slots[i + 1]) \in Seq(X) BY <2>2
  <2> QED BY <2>3, <2>4
<1>13. 0 .. n \subseteq T
  <2> HIDE DEF T, n
  <2> QED BY <1>11, <1>12, <1>2, UpTo
<1>14. kept \in [0 .. n -> Seq(X)] BY <1>8, <1>13
<1> QED BY <1>7, <1>9, <1>10, <1>14 DEF KeptAmong

\* A sequence in which nothing comes twice.
Apart(s) == \A i, j \in DOMAIN s : s[i] = s[j] => i = j

LEMMA OneMore ==
  ASSUME NEW m \in Nat, NEW a \in 1 .. m + 1
  PROVE  a \in 1 .. m \/ a = m + 1
OBVIOUS

LEMMA AmongApart ==
  ASSUME NEW X, NEW slots \in Seq(X), Apart(slots), NEW set
  PROVE  /\ Among(slots, set) \in Seq(X)
         /\ Apart(Among(slots, set))
         /\ \A i \in DOMAIN Among(slots, set) :
              /\ Among(slots, set)[i] \in set
              /\ \E j \in DOMAIN slots : Among(slots, set)[i] = slots[j]
<1> DEFINE n == Len(slots)
<1>0. PICK kept : KeptAmong(kept, X, slots, set) BY AmongRecursion
<1>1. /\ kept \in [0 .. n -> Seq(X)]
      /\ kept[0] = <<>>
      /\ \A i \in 1 .. n :
           kept[i] = IF slots[i] \in set THEN Append(kept[i - 1], slots[i]) ELSE kept[i - 1]
      /\ Among(slots, set) = kept[n]
  BY <1>0 DEF KeptAmong
<1> DEFINE good(i) == /\ \A k \in DOMAIN kept[i] : /\ kept[i][k] \in set
                                                    /\ \E j \in 1 .. i : kept[i][k] = slots[j]
                      /\ Apart(kept[i])
           T == {i \in 0 .. n : good(i)}
<1>2. n \in Nat /\ DOMAIN slots = 1 .. n OBVIOUS
<1>3. good(0) BY <1>1 DEF Apart
<1>4. \A i \in 0 .. n - 1 : good(i) => good(i + 1)
  <2> SUFFICES ASSUME NEW i \in 0 .. n - 1, good(i) PROVE good(i + 1) OBVIOUS
  <2>1. i + 1 \in 1 .. n /\ (i + 1) - 1 = i /\ i \in 0 .. n /\ 1 .. i \subseteq 1 .. i + 1 BY <1>2
  <2>2. kept[i] \in Seq(X) BY <1>1, <2>1
  <2>3. slots[i + 1] \in X BY <2>1
  <2>4. kept[i + 1] = IF slots[i + 1] \in set THEN Append(kept[i], slots[i + 1]) ELSE kept[i]
    BY <1>1, <2>1
  <2>5. CASE slots[i + 1] \notin set
    <3>1. kept[i + 1] = kept[i] BY <2>4, <2>5
    <3>2. \A k \in DOMAIN kept[i] : \E j \in 1 .. i + 1 : kept[i][k] = slots[j] BY <2>1
    <3> QED BY <3>1, <3>2
  <2>6. CASE slots[i + 1] \in set
    <3> DEFINE m == Len(kept[i])
    <3>1. kept[i + 1] = Append(kept[i], slots[i + 1]) BY <2>4, <2>6
    <3>2. m \in Nat /\ DOMAIN kept[i] = 1 .. m /\ DOMAIN kept[i + 1] = 1 .. m + 1
      BY <2>2, <2>3, <3>1
    <3>3. \A k \in 1 .. m : kept[i + 1][k] = kept[i][k] BY <2>2, <2>3, <3>1
    <3>4. kept[i + 1][m + 1] = slots[i + 1] BY <2>2, <2>3, <3>1
    <3>5. \A k \in 1 .. m : kept[i + 1][k] # slots[i + 1]
      <4> SUFFICES ASSUME NEW k \in 1 .. m PROVE kept[i][k] # slots[i + 1] BY <3>3
      <4>1. PICK j \in 1 .. i : kept[i][k] = slots[j] BY <3>2
      <4>2. j \in 1 .. n /\ j # i + 1 BY <1>2
      <4> QED BY <4>1, <4>2, <2>1, <1>2 DEF Apart
    <3>6. Apart(kept[i + 1])
      <4> SUFFICES ASSUME NEW a \in 1 .. m + 1, NEW b \in 1 .. m + 1, kept[i + 1][a] = kept[i + 1][b]
                   PROVE a = b BY <3>2 DEF Apart
      <4>1. (a \in 1 .. m \/ a = m + 1) /\ (b \in 1 .. m \/ b = m + 1) BY <3>2, OneMore
      <4>2. CASE a \in 1 .. m /\ b \in 1 .. m BY <3>2, <3>3, <4>2 DEF Apart
      <4> QED BY <3>4, <3>5, <4>1, <4>2
    <3>7. \A k \in 1 .. m + 1 : kept[i + 1][k] \in set /\ \E j \in 1 .. i + 1 : kept[i + 1][k] = slots[j]
      <4> SUFFICES ASSUME NEW k \in 1 .. m + 1
                   PROVE kept[i + 1][k] \in set /\ \E j \in 1 .. i + 1 : kept[i + 1][k] = slots[j]
        OBVIOUS
      <4>1. CASE k \in 1 .. m BY <2>1, <3>2, <3>3, <4>1
      <4>2. CASE k = m + 1 BY <2>6, <3>4, <4>2
      <4> QED BY <3>2, <4>1, <4>2, OneMore
    <3> QED BY <3>2, <3>6, <3>7
  <2> QED BY <2>5, <2>6
<1>5. 0 .. n \subseteq T
  <2>1. 0 \in T BY <1>2, <1>3
  <2>2. \A i \in 0 .. n - 1 : i \in T => i + 1 \in T
    <3> HIDE DEF good
    <3> QED BY <1>2, <1>4
  <2> HIDE DEF T, n
  <2> QED BY <2>1, <2>2, <1>2, UpTo
<1>6. good(n) BY <1>2, <1>5
<1>7. kept[n] \in Seq(X) BY <1>1, <1>2
<1> QED BY <1>1, <1>2, <1>6, <1>7

LEMMA JoinedApart ==
  ASSUME NEW X, NEW s \in Seq(X), NEW t \in Seq(X), Apart(s), Apart(t),
         \A i \in DOMAIN s, j \in DOMAIN t : s[i] # t[j]
  PROVE  s \o t \in Seq(X) /\ Apart(s \o t)
<1>1. s \o t \in Seq(X) OBVIOUS
<1>2. DOMAIN (s \o t) = 1 .. Len(s) + Len(t) OBVIOUS
<1>3. \A i \in 1 .. Len(s) : (s \o t)[i] = s[i] OBVIOUS
<1>4. \A i \in 1 .. Len(s) + Len(t) : i > Len(s) => (s \o t)[i] = t[i - Len(s)] /\ i - Len(s) \in 1 .. Len(t)
  OBVIOUS
<1>5. Apart(s \o t)
  <2> SUFFICES ASSUME NEW i \in 1 .. Len(s) + Len(t), NEW j \in 1 .. Len(s) + Len(t),
                      (s \o t)[i] = (s \o t)[j]
               PROVE i = j BY <1>2 DEF Apart
  <2>0. Len(s) \in Nat /\ Len(t) \in Nat /\ DOMAIN s = 1 .. Len(s) /\ DOMAIN t = 1 .. Len(t) OBVIOUS
  <2>1. CASE i <= Len(s) /\ j <= Len(s)
    <3>1. i \in DOMAIN s /\ j \in DOMAIN s BY <2>0, <2>1
    <3>2. s[i] = s[j] BY <1>3, <2>0, <3>1
    <3> QED BY <3>1, <3>2 DEF Apart
  <2>2. CASE i > Len(s) /\ j > Len(s)
    <3>1. i - Len(s) \in DOMAIN t /\ j - Len(s) \in DOMAIN t BY <1>4, <2>0, <2>2
    <3>2. t[i - Len(s)] = t[j - Len(s)] BY <1>4, <2>2
    <3>3. i - Len(s) = j - Len(s) BY <3>1, <3>2 DEF Apart
    <3> QED BY <2>0, <3>3
  <2>3. CASE i <= Len(s) /\ j > Len(s)
    <3>1. i \in DOMAIN s /\ j - Len(s) \in DOMAIN t BY <1>4, <2>0, <2>3
    <3>2. s[i] = t[j - Len(s)] BY <1>3, <1>4, <2>0, <2>3, <3>1
    <3> QED BY <3>1, <3>2
  <2>4. CASE i > Len(s) /\ j <= Len(s)
    <3>1. j \in DOMAIN s /\ i - Len(s) \in DOMAIN t BY <1>4, <2>0, <2>4
    <3>2. s[j] = t[i - Len(s)] BY <1>3, <1>4, <2>0, <2>4, <3>1
    <3> QED BY <3>1, <3>2
  <2> QED BY <2>0, <2>1, <2>2, <2>3, <2>4
<1> QED BY <1>1, <1>5

LEMMA MaxOfTwo ==
  ASSUME NEW a \in Int, NEW b \in Int
  PROVE  Max({a, b}) = IF a >= b THEN a ELSE b
<1> DEFINE m == IF a >= b THEN a ELSE b
<1>1. m \in {a, b} /\ \A y \in {a, b} : m >= y OBVIOUS
<1>2. \A x \in {a, b} : (\A y \in {a, b} : x >= y) => x = m OBVIOUS
<1> HIDE DEF m
<1>3. (CHOOSE x \in {a, b} : \A y \in {a, b} : x >= y) = m BY <1>1, <1>2
<1> QED BY <1>3 DEF Max, m

LEMMA MinOfTwo ==
  ASSUME NEW a \in Int, NEW b \in Int
  PROVE  Min({a, b}) = IF a <= b THEN a ELSE b
<1> DEFINE m == IF a <= b THEN a ELSE b
<1>1. m \in {a, b} /\ \A y \in {a, b} : m <= y OBVIOUS
<1>2. \A x \in {a, b} : (\A y \in {a, b} : x <= y) => x = m OBVIOUS
<1> HIDE DEF m
<1>3. (CHOOSE x \in {a, b} : \A y \in {a, b} : x <= y) = m BY <1>1, <1>2
<1> QED BY <1>3 DEF Min, m

LEMMA SumUpTo ==
  ASSUME NEW k \in Nat, NEW f, \A i \in 1 .. k + 1 : f[i] \in Int
  PROVE  SumFunctionOnSet(f, 1 .. k + 1) = f[k + 1] + SumFunctionOnSet(f, 1 .. k)
<1>1. 1 .. k + 1 = (1 .. k) \cup {k + 1} OBVIOUS
<1>2. IsFiniteSet(1 .. k) BY FS_Interval
<1>3. k + 1 \notin 1 .. k OBVIOUS
<1>4. \A y \in (1 .. k) \cup {k + 1} : f[y] \in Int BY <1>1
<1>5. SumFunctionOnSet(f, (1 .. k) \cup {k + 1}) = f[k + 1] + SumFunctionOnSet(f, 1 .. k)
  BY <1>2, <1>3, <1>4, SumInsert
<1> QED BY <1>1, <1>5

\* What is poured fills the slots in their order, all of it if there is room.
LEMMA PouredFacts ==
  ASSUME NEW m \in Nat, NEW room \in [1 .. m -> Nat], NEW count \in Nat
  PROVE  LET got == Poured(count, room)
         IN /\ got \in [1 .. m -> Nat]
            /\ \A i \in 1 .. m : got[i] <= room[i]
            /\ SumFunction(got) \in 0 .. count
<1> DEFINE got == Poured(count, room)
           below(i) == SumFunctionOnSet(room, 1 .. i)
           poured(i) == SumFunctionOnSet(got, 1 .. i)
           T == {k \in 0 .. m : poured(k) = Min({count, below(k)})}
<1>1. \A i \in 0 .. m : below(i) \in Nat
  <2> SUFFICES ASSUME NEW i \in 0 .. m PROVE below(i) \in Nat OBVIOUS
  <2>1. IsFiniteSet(1 .. i) BY FS_Interval
  <2>2. \A j \in 1 .. i : room[j] \in Nat OBVIOUS
  <2> QED BY <2>1, <2>2, SumNat
<1>2. \A i \in 1 .. m : got[i] = Max({0, Min({room[i], count - below(i - 1)})}) BY DEF Poured
<1>3. \A i \in 1 .. m : /\ got[i] \in Nat /\ got[i] <= room[i]
                        /\ got[i] = IF count <= below(i - 1) THEN 0
                                    ELSE IF room[i] <= count - below(i - 1) THEN room[i]
                                    ELSE count - below(i - 1)
  <2> SUFFICES ASSUME NEW i \in 1 .. m
               PROVE /\ got[i] \in Nat /\ got[i] <= room[i]
                     /\ got[i] = IF count <= below(i - 1) THEN 0
                                 ELSE IF room[i] <= count - below(i - 1) THEN room[i]
                                 ELSE count - below(i - 1) OBVIOUS
  <2>1. below(i - 1) \in Nat BY <1>1
  <2> DEFINE b == below(i - 1)
             w == Min({room[i], count - b})
  <2>2. got[i] = Max({0, w}) BY <1>2
  <2>3. b \in Nat /\ room[i] \in Nat BY <2>1
  <2> HIDE DEF b, got
  <2>4. w = IF room[i] <= count - b THEN room[i] ELSE count - b BY <2>3, MinOfTwo
  <2>5. w \in Int BY <2>3, <2>4
  <2> HIDE DEF w
  <2>6. Max({0, w}) = IF 0 >= w THEN 0 ELSE w BY <2>5, MaxOfTwo
  <2>7. got[i] \in Nat /\ got[i] <= room[i] /\
        got[i] = IF count <= b THEN 0 ELSE IF room[i] <= count - b THEN room[i] ELSE count - b
    BY <2>2, <2>3, <2>4, <2>6
  <2> QED BY <2>7 DEF b
<1>4. got \in [1 .. m -> Nat]
  <2>1. DOMAIN got = 1 .. m /\ got = [i \in 1 .. m |-> got[i]] BY DEF Poured
  <2> HIDE DEF got
  <2> QED BY <1>3, <2>1
<1> HIDE DEF got
<1>5. 0 \in T
  <2>1. 1 .. 0 = {} OBVIOUS
  <2>2. poured(0) = 0 /\ below(0) = 0 BY <2>1, SumEmpty, Zenon
  <2>3. Min({count, 0}) = 0 BY MinOfTwo
  <2>4. Min({count, below(0)}) = 0 BY <2>2, <2>3, Zenon
  <2> HIDE DEF poured, below
  <2> QED BY <2>2, <2>4
<1>6. \A k \in 0 .. m - 1 : k \in T => k + 1 \in T
  <2> SUFFICES ASSUME NEW k \in 0 .. m - 1, poured(k) = Min({count, below(k)})
               PROVE poured(k + 1) = Min({count, below(k + 1)}) OBVIOUS
  <2>0. k \in Nat /\ k + 1 \in 1 .. m /\ (k + 1) - 1 = k /\ k \in 0 .. m OBVIOUS
  <2>1. \A i \in 1 .. k + 1 : got[i] \in Int /\ room[i] \in Int BY <1>4
  <2>2. poured(k + 1) = got[k + 1] + poured(k) BY <2>0, <2>1, SumUpTo
  <2>3. below(k + 1) = room[k + 1] + below(k) BY <2>0, <2>1, SumUpTo
  <2>4. below(k) \in Nat BY <1>1, <2>0
  <2> DEFINE b == below(k)
             b2 == below(k + 1)
             p == poured(k)
             p2 == poured(k + 1)
  <2>5. got[k + 1] = IF count <= b THEN 0
                     ELSE IF room[k + 1] <= count - b THEN room[k + 1] ELSE count - b
    BY <1>3, <2>0
  <2>6. b \in Nat /\ room[k + 1] \in Nat /\ b2 = room[k + 1] + b /\ p2 = got[k + 1] + p /\ p = Min({count, b})
    BY <2>0, <2>2, <2>3, <2>4
  <2> HIDE DEF b, p, p2, b2
  <2>7. p = IF count <= b THEN count ELSE b BY <2>6, MinOfTwo
  <2>8. b2 \in Int BY <2>6
  <2>9. Min({count, b2}) = IF count <= b2 THEN count ELSE b2 BY <2>8, MinOfTwo
  <2>10. p2 = Min({count, b2}) BY <2>5, <2>6, <2>7, <2>9
  <2> QED BY <2>10 DEF p2, b2
<1>7. 0 .. m \subseteq T
  <2> HIDE DEF T
  <2> QED BY <1>5, <1>6, UpTo
<1>8. poured(m) = Min({count, below(m)}) /\ below(m) \in Nat BY <1>1, <1>7
<1>9. SumFunction(got) = poured(m) BY <1>4 DEF SumFunction
<1>10. Min({count, below(m)}) \in 0 .. count
  <2> DEFINE b == below(m)
  <2>1. b \in Nat BY <1>8
  <2> HIDE DEF b
  <2>2. Min({count, b}) = IF count <= b THEN count ELSE b BY <2>1, MinOfTwo
  <2>3. Min({count, b}) \in 0 .. count BY <2>1, <2>2
  <2> QED BY <2>3 DEF b
<1>11. SumFunction(got) \in 0 .. count BY <1>8, <1>9, <1>10
<1> QED BY <1>3, <1>4, <1>11 DEF got

-------------------------------------------------------------------------------
(* Containers, their slots, and what all slots hold together.               *)

\* What a session holds.
Worlds == {b \in [Places -> UNION {Contents(p) : p \in Places}] : \A p \in Places : b[p] \in Contents(p)}
Sessions == [be : Worlds, level : [DOMAIN plan.start.level -> 0 .. 8], drops : [Drops -> Stacks],
             gone : SUBSET Drops, notes : SUBSET Places,
             ticked : [Hoppers -> {"never", "before", "now"}], spent : [Items -> Int]]

Faces == {"none", "up", "down", "side"}

LEMMA SessionFields ==
  ASSUME NEW s \in Sessions
  PROVE  /\ s.be \in Worlds /\ s.level \in [DOMAIN plan.start.level -> 0 .. 8]
         /\ s.drops \in [Drops -> Stacks] /\ s.gone \in SUBSET Drops /\ s.notes \in SUBSET Places
         /\ s.ticked \in [Hoppers -> {"never", "before", "now"}] /\ s.spent \in [Items -> Int]
BY DEF Sessions

LEMMA WorldFields ==
  ASSUME NEW b \in Worlds, NEW p \in Places
  PROVE  /\ b[p] \in Contents(p)
         /\ b[p].slots \in [0 .. SlotCount[p] - 1 -> Stacks] /\ b[p].cooldown \in -1 .. Cooldown
         /\ DOMAIN b[p].slots = 0 .. SlotCount[p] - 1
BY DEF Worlds, Contents

OnPlaces(b) == b = [p \in Places |-> b[p]]

LEMMA IsWorld ==
  ASSUME NEW b, OnPlaces(b), \A p \in Places : b[p] \in Contents(p)
  PROVE  b \in Worlds
<1> DEFINE U == UNION {Contents(p) : p \in Places}
<1>1. \A p \in Places : b[p] \in U OBVIOUS
<1> HIDE DEF U
<1>2. b \in [Places -> U] BY <1>1 DEF OnPlaces
<1> QED BY <1>2 DEF U, Worlds

LEMMA StackFields ==
  ASSUME NEW k \in Stacks
  PROVE  /\ k.count \in Nat
         /\ k.count = 0 => k = NoStack /\ k.item = "none" /\ k.item \notin Items
         /\ k.count > 0 => k.item \in Items
BY ContainersAssumption DEF Stacks, NoStack, ContainersAssumption

LEMMA IsStack ==
  ASSUME NEW item \in Items, NEW count \in Nat \ {0}
  PROVE  [item |-> item, count |-> count] \in Stacks
BY DEF Stacks

LEMMA RefFacts ==
  ASSUME NEW ref \in Refs
  PROVE  /\ ToSet(ref) \subseteq Places
         /\ \/ ref = <<>> /\ ToSet(ref) = {} /\ Len(ref) = 0
            \/ ref \in Single /\ Len(ref) = 1 /\ ref[1] \in Places /\ ref # <<>> /\ ToSet(ref) = {ref[1]}
            \/ /\ ref \in Double /\ Len(ref) = 2 /\ ref # <<>> /\ ToSet(ref) = {ref[1], ref[2]}
               /\ ref[1] \in Places /\ ref[2] \in Places /\ ref[1] # ref[2]
               /\ Kind[ref[1]] \in {"chest", "trapped_chest"} /\ Kind[ref[2]] = Kind[ref[1]]
               /\ SlotCount[ref[1]] >= Half /\ SlotCount[ref[2]] >= Half
<1>1. CASE ref = <<>> BY <1>1 DEF ToSet
<1>2. CASE ref \in Single
  <2>1. PICK p \in Places : ref = <<p>> BY <1>2 DEF Single
  <2>2. DOMAIN ref = {1} /\ Len(ref) = 1 /\ ref[1] = p /\ ref # <<>> BY <2>1
  <2>3. ToSet(ref) = {p} BY <2>2 DEF ToSet
  <2> QED BY <1>2, <2>1, <2>2, <2>3
<1>3. CASE ref \in Double
  <2>1. PICK p \in Places, q \in Places : ref = <<p, q>> BY <1>3 DEF Double
  <2>2. DOMAIN ref = {1, 2} /\ Len(ref) = 2 /\ ref[1] = p /\ ref[2] = q /\ ref # <<>> BY <2>1
  <2>3. ToSet(ref) = {p, q} BY <2>2 DEF ToSet
  <2> QED BY <1>3, <2>1, <2>2, <2>3 DEF Double
<1> QED BY <1>1, <1>2, <1>3 DEF Refs

\* Where the slots of a container are.
LEMMA SlotPlaces ==
  ASSUME NEW ref \in Refs, ~ IsComposter(ref)
  PROVE  /\ \A n \in Slots(ref) : /\ n \in Nat /\ PlaceOf(ref, n) \in ToSet(ref)
                                  /\ PlaceOf(ref, n) \in Places
                                  /\ SlotIn(ref, n) \in 0 .. SlotCount[PlaceOf(ref, n)] - 1
         /\ \A n, m \in Slots(ref) :
              PlaceOf(ref, n) = PlaceOf(ref, m) /\ SlotIn(ref, n) = SlotIn(ref, m) => n = m
         /\ Size(ref) \in Nat
<1> USE ContainersAssumption DEF ContainersAssumption
<1>1. CASE ref = <<>>
  <2>1. Size(ref) = 0 BY <1>1, RefFacts DEF Size
  <2> QED BY <2>1 DEF Slots
<1>2. CASE ref \in Single /\ ref # <<>> /\ Len(ref) = 1
  <2>1. ref[1] \in Places /\ ToSet(ref) = {ref[1]} BY <1>2, RefFacts
  <2>2. Size(ref) = SlotCount[ref[1]] BY <1>2 DEF Size
  <2>3. \A n \in Slots(ref) : PlaceOf(ref, n) = ref[1] /\ SlotIn(ref, n) = n
    BY <1>2 DEF PlaceOf, SlotIn
  <2> QED BY <2>1, <2>2, <2>3 DEF Slots
<1>3. CASE ref \in Double /\ Len(ref) = 2
  <2>1. /\ ToSet(ref) = {ref[1], ref[2]} /\ ref[1] \in Places /\ ref[2] \in Places /\ ref[1] # ref[2]
        /\ SlotCount[ref[1]] >= Half /\ SlotCount[ref[2]] >= Half BY <1>3, RefFacts
  <2>2. Size(ref) = 2 * Half BY <1>3 DEF Size
  <2>3. \A n \in Slots(ref) : /\ n \in Nat /\ n < 2 * Half
                              /\ PlaceOf(ref, n) = IF n >= Half THEN ref[2] ELSE ref[1]
                              /\ SlotIn(ref, n) = IF n >= Half THEN n - Half ELSE n
    BY <1>3, <2>2 DEF PlaceOf, SlotIn, Slots
  <2>4. SlotCount[ref[1]] \in Nat /\ SlotCount[ref[2]] \in Nat /\ Half \in Nat BY <2>1
  <2>5. \A n \in Slots(ref) : /\ PlaceOf(ref, n) \in {ref[1], ref[2]}
                              /\ SlotIn(ref, n) \in 0 .. SlotCount[PlaceOf(ref, n)] - 1
    BY <2>1, <2>3, <2>4
  <2>6. \A n, m \in Slots(ref) :
              PlaceOf(ref, n) = PlaceOf(ref, m) /\ SlotIn(ref, n) = SlotIn(ref, m) => n = m
    BY <2>1, <2>3, <2>4
  <2> QED BY <2>1, <2>2, <2>3, <2>4, <2>5, <2>6
<1> QED BY <1>1, <1>2, <1>3, RefFacts

LEMMA StackThere ==
  ASSUME NEW s, s.be \in Worlds, NEW ref \in Refs, ~ IsComposter(ref), NEW n \in Slots(ref)
  PROVE  /\ StackAt(s, ref, n) = s.be[PlaceOf(ref, n)].slots[SlotIn(ref, n)]
         /\ StackAt(s, ref, n) \in Stacks
<1>1. PlaceOf(ref, n) \in Places /\ SlotIn(ref, n) \in 0 .. SlotCount[PlaceOf(ref, n)] - 1
  BY SlotPlaces
<1>2. StackAt(s, ref, n) = s.be[PlaceOf(ref, n)].slots[SlotIn(ref, n)] BY DEF StackAt
<1>3. s.be[PlaceOf(ref, n)].slots \in [0 .. SlotCount[PlaceOf(ref, n)] - 1 -> Stacks]
  BY <1>1, WorldFields
<1> QED BY <1>1, <1>2, <1>3

LEMMA AllSlotsApart ==
  ASSUME NEW ref, Size(ref) \in Nat
  PROVE  AllSlots(ref) \in Seq(Nat) /\ Apart(AllSlots(ref))
BY DEF AllSlots, Apart

LEMMA FaceSlotsApart ==
  ASSUME NEW v, NEW ref, Size(ref) \in Nat, NEW face \in Faces
  PROVE  SlotsForFace(v, ref, face) \in Seq(Nat) /\ Apart(SlotsForFace(v, ref, face))
<1> DEFINE lists == {<<>>, <<0>>, <<1>>, <<2, 1>>, <<3>>, <<0, 1, 2, 3>>, <<0, 1, 2, 4>>}
<1>1. \A l \in lists : l \in Seq(Nat) /\ Apart(l)
  <2>1. <<>> \in Seq(Nat) /\ Apart(<<>>) BY DEF Apart
  <2>2. \A n \in Nat : <<n>> \in Seq(Nat) /\ Apart(<<n>>) BY DEF Apart
  <2>3. <<2, 1>> \in Seq(Nat) /\ Apart(<<2, 1>>) BY DEF Apart
  <2>4. <<0, 1, 2, 3>> \in Seq(Nat) /\ Apart(<<0, 1, 2, 3>>) BY DEF Apart
  <2>5. <<0, 1, 2, 4>> \in Seq(Nat) /\ Apart(<<0, 1, 2, 4>>) BY DEF Apart
  <2> QED BY <2>1, <2>2, <2>3, <2>4, <2>5
<1>2. SlotsForFace(v, ref, face) \in lists \/ SlotsForFace(v, ref, face) = AllSlots(ref)
  BY DEF SlotsForFace, Faces
<1> QED BY <1>1, <1>2, AllSlotsApart

LEMMA SequenceOf ==
  ASSUME NEW Y, NEW q \in Seq(Y), NEW X, \A i \in DOMAIN q : q[i] \in X
  PROVE  q \in Seq(X)
<1>1. Len(q) \in Nat /\ DOMAIN q = 1 .. Len(q) /\ q = [i \in 1 .. Len(q) |-> q[i]] OBVIOUS
<1>2. q \in [1 .. Len(q) -> X] BY <1>1
<1> QED BY <1>1, <1>2

\* Slots of one set, and then of another.
LEMMA TwoParts ==
  ASSUME NEW all \in Seq(Nat), Apart(all), NEW slots \in Seq(Nat), Apart(slots),
         NEW A, NEW B, A \cap B = {}, NEW X, A \subseteq X, B \subseteq X
  PROVE  LET order == Among(all, A) \o Among(slots, B)
         IN order \in Seq(X) /\ Apart(order) /\ \A i \in DOMAIN order : order[i] \in A \cup B
<1> DEFINE a == Among(all, A)
           b == Among(slots, B)
<1>2. a \in Seq(Nat) /\ Apart(a) /\ \A i \in DOMAIN a : a[i] \in A BY AmongApart
<1>3. b \in Seq(Nat) /\ Apart(b) /\ \A i \in DOMAIN b : b[i] \in B BY AmongApart
<1>6. \A i \in DOMAIN a, j \in DOMAIN b : a[i] # b[j] BY <1>2, <1>3
<1>7. a \o b \in Seq(Nat) /\ Apart(a \o b) BY <1>2, <1>3, <1>6, JoinedApart
<1> HIDE DEF a, b
<1>8. \A i \in DOMAIN (a \o b) : (a \o b)[i] \in A \cup B
  <2> SUFFICES ASSUME NEW i \in DOMAIN (a \o b) PROVE (a \o b)[i] \in A \cup B OBVIOUS
  <2>1. i \in 1 .. Len(a) + Len(b) /\ Len(a) \in Nat /\ Len(b) \in Nat BY <1>2, <1>3
  <2>2. CASE i <= Len(a)
    <3>1. i \in DOMAIN a /\ (a \o b)[i] = a[i] BY <1>2, <1>3, <2>1, <2>2
    <3> QED BY <1>2, <3>1
  <2>3. CASE i > Len(a)
    <3>1. i - Len(a) \in DOMAIN b /\ (a \o b)[i] = b[i - Len(a)] BY <1>2, <1>3, <2>1, <2>3
    <3> QED BY <1>3, <3>1
  <2> QED BY <2>1, <2>2, <2>3
<1>9. a \o b \in Seq(X)
  <2> DEFINE q == a \o b
  <2>2. q \in Seq(Nat) /\ \A i \in DOMAIN q : q[i] \in X BY <1>7, <1>8
  <2> HIDE DEF q
  <2>3. q \in Seq(X) BY <2>2, SequenceOf
  <2> QED BY <2>3 DEF q
<1> QED BY <1>7, <1>8, <1>9 DEF a, b

\* Among the slots tried for an insertion none comes twice, and each may take
\* the item, on top of the same item or as the first.
LEMMA InsertOrderFacts ==
  ASSUME NEW s, s.be \in Worlds, NEW ref \in Refs, ~ IsComposter(ref), NEW item \in Items,
         NEW slots \in Seq(Nat), Apart(slots), NEW held,
         \A n \in Slots(ref) : held[n] = StackAt(s, ref, n)
  PROVE  LET order == InsertOrder(s, ref, item, slots, held)
         IN /\ order \in Seq(Slots(ref)) /\ Apart(order)
            /\ \A i \in DOMAIN order : /\ CanPlace(s, ref, order[i], item)
                                       /\ held[order[i]].item = item \/ held[order[i]].count = 0
<1> DEFINE accepts == {n \in ToSet(slots) \cap Slots(ref) : CanPlace(s, ref, n, item)}
           A == {n \in accepts : held[n].item = item}
           B == {n \in accepts : held[n].count = 0}
           order == InsertOrder(s, ref, item, slots, held)
<1>1. order = Among(AllSlots(ref), A) \o Among(slots, B) BY DEF InsertOrder
<1>2. \A n \in Slots(ref) : held[n] \in Stacks BY StackThere
<1>3. A \cap B = {}
  <2> SUFFICES ASSUME NEW n \in A, n \in B PROVE FALSE OBVIOUS
  <2>1. held[n] \in Stacks /\ held[n].item = item /\ held[n].count = 0 BY <1>2
  <2> QED BY <2>1, StackFields
<1>4. AllSlots(ref) \in Seq(Nat) /\ Apart(AllSlots(ref))
  <2>1. Size(ref) \in Nat BY SlotPlaces
  <2> QED BY <2>1, AllSlotsApart
<1>5. A \subseteq Slots(ref) /\ B \subseteq Slots(ref) OBVIOUS
<1>6. \A n \in A \cup B : CanPlace(s, ref, n, item) /\ (held[n].item = item \/ held[n].count = 0) OBVIOUS
<1> HIDE DEF A, B, order
<1>7. order \in Seq(Slots(ref)) /\ Apart(order) /\ \A i \in DOMAIN order : order[i] \in A \cup B
  BY <1>1, <1>3, <1>4, <1>5, TwoParts
<1>8. \A i \in DOMAIN order : /\ CanPlace(s, ref, order[i], item)
                              /\ held[order[i]].item = item \/ held[order[i]].count = 0
  BY <1>6, <1>7
<1> QED BY <1>7, <1>8 DEF order

LEMMA CellsFinite == IsFiniteSet(Cells)
<1> USE ContainersAssumption DEF ContainersAssumption
<1> DEFINE piece(p) == {p} \X (0 .. SlotCount[p] - 1)
           cells(s) == UNION {piece(p) : p \in s}
           T == {s \in SUBSET Places : IsFiniteSet(cells(s))}
<1>1. {} \in T
  <2>1. cells({}) = {} OBVIOUS
  <2>2. IsFiniteSet(cells({})) BY <2>1, FS_EmptySet, Zenon
  <2> HIDE DEF cells
  <2> QED BY <2>2
<1>2. \A s \in SUBSET Places : \A x \in Places \ s : s \in T => s \cup {x} \in T
  <2> SUFFICES ASSUME NEW s \in SUBSET Places, NEW x \in Places \ s, IsFiniteSet(cells(s))
               PROVE IsFiniteSet(cells(s \cup {x}))
    <3> HIDE DEF cells
    <3> QED OBVIOUS
  <2>1. cells(s \cup {x}) = cells(s) \cup piece(x)
    <3> HIDE DEF piece
    <3> QED OBVIOUS
  <2>0. SlotCount[x] - 1 \in Int OBVIOUS
  <2>5. IsFiniteSet(0 .. SlotCount[x] - 1) BY <2>0, FS_Interval
  <2>6. IsFiniteSet({x}) BY FS_Singleton
  <2>2. IsFiniteSet({x}) /\ IsFiniteSet(0 .. SlotCount[x] - 1) BY <2>5, <2>6
  <2>3. IsFiniteSet(piece(x)) BY <2>2, FS_Product
  <2> HIDE DEF cells, piece
  <2>4. IsFiniteSet(cells(s) \cup piece(x)) BY <2>3, FS_Union
  <2> QED BY <2>1, <2>4
<1>3. Places \in T
  <2> HIDE DEF T
  <2> QED BY <1>1, <1>2, SubsetInduction
<1>4. IsFiniteSet(cells(Places)) BY <1>3
<1> QED BY <1>4 DEF Cells

LEMMA IsCell ==
  ASSUME NEW p \in Places, NEW n \in 0 .. SlotCount[p] - 1
  PROVE  <<p, n>> \in Cells
BY DEF Cells

LEMMA CellFields ==
  ASSUME NEW c \in Cells
  PROVE  c = <<c[1], c[2]>> /\ c[1] \in Places /\ c[2] \in 0 .. SlotCount[c[1]] - 1
BY DEF Cells

\* How many of an item lie in all the slots, and how many on the ground.
InCells(b, item) == SumFunctionOnSet([c \in Cells |-> Count(b[c[1]].slots[c[2]], item)], Cells)
OnGround(d, item) == SumFunctionOnSet([e \in Drops |-> Count(d[e], item)], Drops)

LEMMA TotalParts ==
  ASSUME NEW b, NEW d, NEW item
  PROVE  Total(b, d, item) = InCells(b, item) + OnGround(d, item)
BY DEF Total, InCells, OnGround, SumFunction

LEMMA CountNat ==
  ASSUME NEW k \in Stacks, NEW item
  PROVE  Count(k, item) \in Nat
BY StackFields DEF Count

LEMMA CellStack ==
  ASSUME NEW b \in Worlds, NEW c \in Cells
  PROVE  b[c[1]].slots[c[2]] \in Stacks
BY CellFields, WorldFields

LEMMA InCellsInt ==
  ASSUME NEW b \in Worlds, NEW item
  PROVE  InCells(b, item) \in Nat
<1> DEFINE f == [c \in Cells |-> Count(b[c[1]].slots[c[2]], item)]
<1>1. \A c \in Cells : f[c] \in Nat BY CellStack, CountNat
<1> HIDE DEF f
<1>2. SumFunctionOnSet(f, Cells) \in Nat BY <1>1, CellsFinite, SumNat
<1> QED BY <1>2 DEF InCells, f

LEMMA OnGroundInt ==
  ASSUME NEW d \in [Drops -> Stacks], NEW item
  PROVE  OnGround(d, item) \in Nat
<1> USE PlansAssumption DEF PlansAssumption
<1> DEFINE f == [e \in Drops |-> Count(d[e], item)]
<1>1. \A e \in Drops : f[e] \in Nat BY CountNat
<1>2. IsFiniteSet(Drops) OBVIOUS
<1> HIDE DEF f
<1>3. SumFunctionOnSet(f, Drops) \in Nat BY <1>1, <1>2, SumNat
<1> QED BY <1>3 DEF OnGround, f

\* What came into slots is what more lies in them: got[i] of the item into the
\* cell e[i].
GrowsIn(b, b2, m, e, got, item) ==
  /\ m \in Nat /\ e \in [1 .. m -> Cells] /\ got \in [1 .. m -> Nat]
  /\ \A i, j \in 1 .. m : e[i] = e[j] => i = j
  /\ \A i \in 1 .. m : got[i] > 0 =>
       LET k == b[e[i][1]].slots[e[i][2]]
       IN /\ k.item = item \/ k.count = 0
          /\ b2[e[i][1]].slots[e[i][2]] = [item |-> item, count |-> k.count + got[i]]
  /\ \A c \in Cells : (\A i \in 1 .. m : got[i] > 0 => e[i] # c)
                       => b2[c[1]].slots[c[2]] = b[c[1]].slots[c[2]]

LEMMA GrownCells ==
  ASSUME NEW b \in Worlds, NEW b2 \in Worlds, NEW m, NEW e, NEW got, NEW item \in Items,
         GrowsIn(b, b2, m, e, got, item), NEW kind \in Items
  PROVE  InCells(b2, kind) = InCells(b, kind) + (IF kind = item THEN SumFunction(got) ELSE 0)
<1>0. /\ m \in Nat /\ e \in [1 .. m -> Cells] /\ got \in [1 .. m -> Nat]
      /\ \A i, j \in 1 .. m : e[i] = e[j] => i = j
      /\ \A i \in 1 .. m : got[i] > 0 =>
           LET k == b[e[i][1]].slots[e[i][2]]
           IN /\ k.item = item \/ k.count = 0
              /\ b2[e[i][1]].slots[e[i][2]] = [item |-> item, count |-> k.count + got[i]]
      /\ \A c \in Cells : (\A i \in 1 .. m : got[i] > 0 => e[i] # c)
                           => b2[c[1]].slots[c[2]] = b[c[1]].slots[c[2]]
  BY DEF GrowsIn
<1> DEFINE old(c) == Count(b[c[1]].slots[c[2]], kind)
           new(c) == Count(b2[c[1]].slots[c[2]], kind)
           f == [c \in Cells |-> old(c)]
           h == [c \in Cells |-> new(c)]
           g == [c \in Cells |-> new(c) - old(c)]
<1>1. \A c \in Cells : old(c) \in Nat /\ new(c) \in Nat BY CellStack, CountNat
<1>2. \A i \in 1 .. m : new(e[i]) - old(e[i]) = IF kind = item THEN got[i] ELSE 0
  <2> SUFFICES ASSUME NEW i \in 1 .. m
               PROVE new(e[i]) - old(e[i]) = IF kind = item THEN got[i] ELSE 0 OBVIOUS
  <2>0. e[i] \in Cells /\ old(e[i]) \in Nat /\ new(e[i]) \in Nat
    <3>1. e[i] \in Cells BY <1>0
    <3> HIDE DEF old, new
    <3> QED BY <1>1, <3>1
  <2> DEFINE k == b[e[i][1]].slots[e[i][2]]
             k2 == b2[e[i][1]].slots[e[i][2]]
  <2>1. CASE got[i] = 0
    <3>1. \A j \in 1 .. m : got[j] > 0 => e[j] # e[i] BY <1>0, <2>1
    <3>2. k2 = k BY <1>0, <3>1, <2>0
    <3>3. new(e[i]) = old(e[i]) BY <3>2
    <3> HIDE DEF old, new
    <3> QED BY <2>0, <2>1, <3>3
  <2>2. CASE got[i] > 0
    <3>1. k \in Stacks BY <2>0, CellStack
    <3>2. k.item = item \/ k.count = 0 BY <1>0, <2>2
    <3>3. k2 = [item |-> item, count |-> k.count + got[i]] BY <1>0, <2>2
    <3> HIDE DEF k, k2
    <3>4. k.count \in Nat /\ got[i] \in Nat /\ (k.count = 0 => k.item \notin Items)
      BY <1>0, <3>1, StackFields
    <3>5. Count(k2, kind) = IF kind = item THEN k.count + got[i] ELSE 0 BY <3>3 DEF Count
    <3>6. Count(k, kind) = IF kind = item THEN k.count ELSE IF k.item = kind THEN k.count ELSE 0
      BY <3>2, <3>4 DEF Count
    <3>7. kind # item /\ k.item = kind => k.count = 0 BY <3>2
    <3>8. Count(k2, kind) - Count(k, kind) = IF kind = item THEN got[i] ELSE 0
      BY <3>4, <3>5, <3>6, <3>7
    <3> QED BY <3>8 DEF k, k2
  <2>3. got[i] \in Nat BY <1>0
  <2> QED BY <2>1, <2>2, <2>3
<1>3. \A c \in Cells : (\A i \in 1 .. m : e[i] # c) => new(c) - old(c) = 0
  <2> SUFFICES ASSUME NEW c \in Cells, \A i \in 1 .. m : e[i] # c PROVE new(c) - old(c) = 0 OBVIOUS
  <2>1. new(c) = old(c) BY <1>0
  <2> QED BY <1>1, <2>1
<1>4. SumFunctionOnSet(g, Cells) = IF kind = item THEN SumFunction(got) ELSE 0
  <2>1. \A c \in Cells : g[c] \in Int BY <1>1
  <2>2. CASE kind = item
    <3>1. \A i \in 1 .. m : g[e[i]] = got[i] BY <1>0, <1>2, <2>2
    <3>2. \A c \in Cells : (\A i \in 1 .. m : e[i] # c) => g[c] = 0 BY <1>3
    <3> DEFINE I == 1 .. m
    <3>3. IsFiniteSet(I) BY <1>0, FS_Interval
    <3>4. \A i \in I : e[i] \in Cells BY <1>0
    <3>7. \A i, j \in I : e[i] = e[j] => i = j BY <1>0
    <3>8. \A i \in I : g[e[i]] = got[i] BY <3>1
    <3>9. \A c \in Cells : (\A i \in I : e[i] # c) => g[c] = 0 BY <3>2
    <3>5. DOMAIN got = I BY <1>0
    <3> HIDE DEF g, I
    <3>6. SumFunctionOnSet(g, Cells) = SumFunctionOnSet(got, I)
      BY ONLY <2>1, <3>3, <3>4, <3>7, <3>8, <3>9, CellsFinite, SumSpread, SMTT(60)
    <3> QED BY <2>2, <3>5, <3>6 DEF SumFunction
  <2>3. CASE kind # item
    <3>1. \A c \in Cells : g[c] = 0
      <4> SUFFICES ASSUME NEW c \in Cells PROVE new(c) - old(c) = 0 OBVIOUS
      <4>1. CASE \E i \in 1 .. m : e[i] = c BY <1>2, <2>3, <4>1
      <4>2. CASE \A i \in 1 .. m : e[i] # c BY <1>3, <4>2
      <4> QED BY <4>1, <4>2
    <3> HIDE DEF g
    <3> QED BY <2>3, <3>1, CellsFinite, SumZero
  <2> QED BY <2>2, <2>3
<1>5. \A c \in Cells : f[c] \in Int /\ g[c] \in Int /\ h[c] = f[c] + g[c] BY <1>1
<1>6. SumFunctionOnSet(h, Cells) = SumFunctionOnSet(f, Cells) + SumFunctionOnSet(g, Cells)
  <2> HIDE DEF f, g, h
  <2> QED BY <1>5, CellsFinite, SumPlus
<1> QED BY <1>4, <1>6 DEF InCells

\* What putting items into slots comes to: b2 is b with got[i] more in slot order[i].
IsGrown(b, b2, ref, item, order, got) ==
  /\ b2 \in Worlds
  /\ \A p \in Places : b2[p].cooldown = b[p].cooldown
  /\ \A p \in Places \ ToSet(ref) : b2[p] = b[p]
  /\ \A i \in DOMAIN order :
       LET p == PlaceOf(ref, order[i])
           n == SlotIn(ref, order[i])
       IN got[i] > 0 => b2[p].slots[n] = [item |-> item, count |-> b[p].slots[n].count + got[i]]
  /\ \A p \in Places : \A n \in 0 .. SlotCount[p] - 1 :
       (\A i \in DOMAIN order :
          got[i] > 0 => ~(PlaceOf(ref, order[i]) = p /\ SlotIn(ref, order[i]) = n))
       => b2[p].slots[n] = b[p].slots[n]

LEMMA PutFacts ==
  ASSUME NEW s \in Sessions, NEW ref \in Refs, ~ IsComposter(ref), NEW item \in Items,
         NEW order \in Seq(Slots(ref)), Apart(order), NEW got \in [DOMAIN order -> Nat]
  PROVE  LET put == Put(s, ref, item, order, got)
         IN /\ put.inserted = SumFunction(got)
            /\ put.s = [s EXCEPT !.be = put.s.be]
            /\ IsGrown(s.be, put.s.be, ref, item, order, got)
<1> DEFINE gets(p, n) == {i \in DOMAIN order : /\ PlaceOf(ref, order[i]) = p
                                                 /\ SlotIn(ref, order[i]) = n /\ got[i] > 0}
           grown(p, n, more) ==
             IF more = {} THEN s.be[p].slots[n]
             ELSE [item |-> item, count |-> s.be[p].slots[n].count + got[CHOOSE i \in more : TRUE]]
           place(p) == [s.be[p] EXCEPT !.slots = [n \in DOMAIN @ |-> grown(p, n, gets(p, n))]]
           b2 == [p \in Places |-> IF p \in ToSet(ref) THEN place(p) ELSE s.be[p]]
           put == Put(s, ref, item, order, got)
<1>1. put.inserted = SumFunction(got) BY DEF Put
<1>2. put.s = [s EXCEPT !.be = b2] BY DEF Put
<1>3. s.be \in Worlds BY SessionFields
<1>4. put.s.be = b2 BY <1>2 DEF Sessions
<1>5. \A i \in DOMAIN order : /\ order[i] \in Slots(ref)
                              /\ PlaceOf(ref, order[i]) \in ToSet(ref) /\ PlaceOf(ref, order[i]) \in Places
                              /\ SlotIn(ref, order[i]) \in 0 .. SlotCount[PlaceOf(ref, order[i])] - 1
  <2>1. \A i \in DOMAIN order : order[i] \in Slots(ref) OBVIOUS
  <2> QED BY <2>1, SlotPlaces
<1>6. \A i, j \in DOMAIN order :
        PlaceOf(ref, order[i]) = PlaceOf(ref, order[j]) /\ SlotIn(ref, order[i]) = SlotIn(ref, order[j])
          => i = j
  BY <1>5, SlotPlaces DEF Apart
<1>7. \A p \in Places : \A n \in 0 .. SlotCount[p] - 1 : s.be[p].slots[n] \in Stacks
  BY <1>3, WorldFields
<1>8. \A p \in Places : \A n \in 0 .. SlotCount[p] - 1 : grown(p, n, gets(p, n)) \in Stacks
  <2> SUFFICES ASSUME NEW p \in Places, NEW n \in 0 .. SlotCount[p] - 1, gets(p, n) # {}
               PROVE [item |-> item,
                      count |-> s.be[p].slots[n].count + got[CHOOSE i \in gets(p, n) : TRUE]] \in Stacks
    BY <1>7
  <2> DEFINE c == CHOOSE i \in gets(p, n) : TRUE
  <2>1. c \in gets(p, n) OBVIOUS
  <2> HIDE DEF c
  <2>2. got[c] \in Nat \ {0} BY <2>1
  <2>3. s.be[p].slots[n].count \in Nat BY <1>7, StackFields
  <2>4. s.be[p].slots[n].count + got[c] \in Nat \ {0} BY <2>2, <2>3
  <2> QED BY <2>4, IsStack DEF c
<1> HIDE DEF grown, gets
<1>9. \A p \in Places : place(p) \in Contents(p) /\ place(p).cooldown = s.be[p].cooldown
                        /\ place(p).slots = [n \in 0 .. SlotCount[p] - 1 |-> grown(p, n, gets(p, n))]
  <2> SUFFICES ASSUME NEW p \in Places
               PROVE /\ place(p) \in Contents(p) /\ place(p).cooldown = s.be[p].cooldown
                     /\ place(p).slots = [n \in 0 .. SlotCount[p] - 1 |-> grown(p, n, gets(p, n))]
    OBVIOUS
  <2>1. s.be[p] \in Contents(p) /\ DOMAIN s.be[p].slots = 0 .. SlotCount[p] - 1 BY <1>3, WorldFields
  <2>2. place(p) = [s.be[p] EXCEPT !.slots = [n \in 0 .. SlotCount[p] - 1 |-> grown(p, n, gets(p, n))]]
    BY <2>1
  <2>3. [n \in 0 .. SlotCount[p] - 1 |-> grown(p, n, gets(p, n))] \in [0 .. SlotCount[p] - 1 -> Stacks]
    BY <1>8
  <2> HIDE DEF place
  <2> QED BY <2>1, <2>2, <2>3 DEF Contents
<1>18. \A p \in Places : \A n \in 0 .. SlotCount[p] - 1 : place(p).slots[n] = grown(p, n, gets(p, n))
  <2> SUFFICES ASSUME NEW p \in Places, NEW n \in 0 .. SlotCount[p] - 1
               PROVE place(p).slots[n] = grown(p, n, gets(p, n)) OBVIOUS
  <2>1. place(p).slots = [k \in 0 .. SlotCount[p] - 1 |-> grown(p, k, gets(p, k))] BY <1>9
  <2> HIDE DEF place
  <2> QED BY <2>1
<1> HIDE DEF place
<1>10. b2 \in Worlds
  <2>1. \A p \in Places : s.be[p] \in Contents(p) BY <1>3, WorldFields
  <2>2. \A p \in Places : b2[p] \in Contents(p) BY <1>9, <2>1
  <2>3. OnPlaces(b2) BY DEF OnPlaces
  <2> HIDE DEF b2
  <2> QED BY <2>2, <2>3, IsWorld
<1>11. \A p \in Places : b2[p].cooldown = s.be[p].cooldown BY <1>9
<1>12. \A p \in Places \ ToSet(ref) : b2[p] = s.be[p] OBVIOUS
<1>13. \A p \in ToSet(ref) : p \in Places /\ b2[p] = place(p) BY RefFacts
<1>14. \A i \in DOMAIN order :
         LET p == PlaceOf(ref, order[i])
             n == SlotIn(ref, order[i])
         IN got[i] > 0 => b2[p].slots[n] = [item |-> item, count |-> s.be[p].slots[n].count + got[i]]
  <2> SUFFICES ASSUME NEW i \in DOMAIN order, got[i] > 0
               PROVE b2[PlaceOf(ref, order[i])].slots[SlotIn(ref, order[i])]
                       = [item |-> item,
                          count |-> s.be[PlaceOf(ref, order[i])].slots[SlotIn(ref, order[i])].count + got[i]]
    OBVIOUS
  <2> DEFINE p == PlaceOf(ref, order[i])
             n == SlotIn(ref, order[i])
  <2>1. p \in ToSet(ref) /\ p \in Places /\ n \in 0 .. SlotCount[p] - 1 BY <1>5
  <2>2. gets(p, n) = {i} BY <1>6 DEF gets
  <2> HIDE DEF p, n, b2
  <2>3. (CHOOSE j \in gets(p, n) : TRUE) = i BY <2>2
  <2>4. grown(p, n, gets(p, n)) = [item |-> item, count |-> s.be[p].slots[n].count + got[i]]
    BY <2>2, <2>3 DEF grown
  <2>5. b2[p].slots[n] = grown(p, n, gets(p, n)) BY <1>18, <1>13, <2>1
  <2> QED BY <2>4, <2>5 DEF p, n
<1>15. \A p \in Places : \A n \in 0 .. SlotCount[p] - 1 :
         (\A i \in DOMAIN order :
            got[i] > 0 => ~(PlaceOf(ref, order[i]) = p /\ SlotIn(ref, order[i]) = n))
         => b2[p].slots[n] = s.be[p].slots[n]
  <2> SUFFICES ASSUME NEW p \in Places, NEW n \in 0 .. SlotCount[p] - 1,
                      \A i \in DOMAIN order :
                        got[i] > 0 => ~(PlaceOf(ref, order[i]) = p /\ SlotIn(ref, order[i]) = n)
               PROVE b2[p].slots[n] = s.be[p].slots[n] OBVIOUS
  <2>1. CASE p \notin ToSet(ref) BY <2>1
  <2>2. CASE p \in ToSet(ref)
    <3>1. gets(p, n) = {} BY DEF gets
    <3> HIDE DEF b2
    <3>2. b2[p].slots[n] = grown(p, n, gets(p, n)) BY <1>18, <1>13, <2>2
    <3> QED BY <3>1, <3>2 DEF grown
  <2> QED BY <2>1, <2>2
<1> HIDE DEF b2, put
<1>16. put.s = [s EXCEPT !.be = put.s.be] BY <1>2, <1>4
<1>17. IsGrown(s.be, b2, ref, item, order, got)
  BY <1>10, <1>11, <1>12, <1>14, <1>15 DEF IsGrown
<1> QED BY <1>1, <1>4, <1>16, <1>17 DEF put

-------------------------------------------------------------------------------
(* What may lie where.                                                      *)

\* The items a slot is for, whatever lies in it and around it.
Suits(p, n, item) ==
  CASE Kind[p] = "jukebox" -> n = 0 /\ item \in Playable
    [] Kind[p] = "chiseled_bookshelf" -> n < 6 /\ item \in Books
    [] Kind[p] \in Furnaces -> n = 0 \/ (n = 1 /\ (item \in Fuel \/ item = "bucket"))
    [] Kind[p] = "brewing_stand" -> \/ n \in 0 .. 2 /\ item \in Bottles
                                    \/ n = 3 /\ item \in Ingredients
                                    \/ n = 4 /\ item = "blaze_powder"
    [] Kind[p] = "crafter" -> n \notin Disabled[p]
    [] Kind[p] \in ShulkerBoxes -> item \notin Shulkers
    [] OTHER -> TRUE

FitsAt(p, n, k) ==
  k.count > Count(plan.start.be[p].slots[n], k.item) =>
    k.count <= StackLimit(<<p>>, n, k.item) /\ Suits(p, n, k.item)
Fits(b) == \A p \in Places : \A n \in 0 .. SlotCount[p] - 1 : FitsAt(p, n, b[p].slots[n])

StartTyped == plan.start.be \in Worlds

LEMMA PlanStartTyped ==
  ASSUME plan \in Plans
  PROVE  StartTyped
<1>1. PlanStart(plan) BY PlansAssumption DEF PlansAssumption
<1>2. OnPlaces(plan.start.be) /\ \A q \in Places : plan.start.be[q] \in Contents(q)
  BY <1>1 DEF PlanStart, OnPlaces
<1> QED BY <1>2, IsWorld DEF StartTyped

LEMMA SlotsOfSome ==
  ASSUME NEW ref \in Refs, NEW n \in Slots(ref)
  PROVE  ref # <<>>
<1> SUFFICES ASSUME ref = <<>> PROVE FALSE OBVIOUS
<1>1. Len(ref) = 0 OBVIOUS
<1>2. Size(ref) = 0 BY <1>1 DEF Size
<1> QED BY <1>2 DEF Slots

LEMMA DoubleKinds ==
  ASSUME NEW ref \in Double
  PROVE  Kind[ref[1]] \in {"chest", "trapped_chest"} /\ Kind[ref[2]] \in {"chest", "trapped_chest"}
BY DEF Double

LEMMA PlaceSuits ==
  ASSUME NEW v, NEW ref \in Refs, ~ IsComposter(ref), NEW n \in Slots(ref), NEW item,
         CanPlace(v, ref, n, item)
  PROVE  Suits(PlaceOf(ref, n), SlotIn(ref, n), item)
<1>0. ref # <<>> BY SlotsOfSome
<1>1. CASE ref \in Single /\ Len(ref) = 1
  <2>1. KindOf(ref) = Kind[ref[1]] /\ PlaceOf(ref, n) = ref[1] /\ SlotIn(ref, n) = n
    BY <1>0, <1>1 DEF KindOf, PlaceOf, SlotIn
  <2>2. n \in Nat BY SlotPlaces
  <2> QED BY <2>1, <2>2 DEF CanPlace, CanPlaceInSlot, Suits, FurnaceTakes, StandTakes, CrafterTakes,
      Furnaces, ShulkerBoxes
<1>2. CASE ref \in Double
  <2>1. Kind[PlaceOf(ref, n)] \in {"chest", "trapped_chest"} BY <1>2, DoubleKinds DEF PlaceOf
  <2> QED BY <2>1 DEF Suits, Furnaces, ShulkerBoxes
<1> QED BY <1>0, <1>1, <1>2, RefFacts

LEMMA SuitsPlace ==
  ASSUME NEW b \in Worlds, NEW p \in Places, NEW n \in 0 .. SlotCount[p] - 1, NEW item, NEW lev,
         Suits(p, n, item)
  PROVE  CanPlace([be |-> [b EXCEPT ![p].slots[n] = NoStack], level |-> lev], <<p>>, n, item)
<1> DEFINE v == [be |-> [b EXCEPT ![p].slots[n] = NoStack], level |-> lev]
<1>1. n \in Nat BY ContainersAssumption DEF ContainersAssumption
<1>2. v.be[p].slots = [b[p].slots EXCEPT ![n] = NoStack]
  <2>1. b \in [Places -> UNION {Contents(q) : q \in Places}] BY DEF Worlds
  <2>2. b[p] \in Contents(p) BY WorldFields
  <2> QED BY <2>1, <2>2 DEF Contents
<1>3. v.be[p].slots[n] = NoStack
  <2>1. n \in DOMAIN b[p].slots BY WorldFields
  <2> QED BY <1>2, <2>1
<1>4. KindOf(<<p>>) = Kind[p] /\ PlaceOf(<<p>>, n) = p /\ SlotIn(<<p>>, n) = n
  BY DEF KindOf, PlaceOf, SlotIn
<1>5. Kind[p] # "composter" => StackAt(v, <<p>>, n) = NoStack
  BY <1>3, <1>4 DEF StackAt, IsComposter
<1> HIDE DEF v
<1>6. CanPlaceInSlot(v, p, n, item) \/ Kind[p] \in {"jukebox", "chiseled_bookshelf"}
  BY <1>1, <1>3 DEF CanPlaceInSlot, Suits, FurnaceTakes, StandTakes, CrafterTakes, NoStack,
      Furnaces, ShulkerBoxes
<1>7. CanPlace(v, <<p>>, n, item) BY <1>4, <1>5, <1>6 DEF CanPlace, Suits, NoStack, Furnaces, ShulkerBoxes
<1> QED BY <1>7 DEF v

LEMMA LimitThere ==
  ASSUME NEW ref \in Refs, ~ IsComposter(ref), NEW n \in Slots(ref), NEW item
  PROVE  StackLimit(ref, n, item) = StackLimit(<<PlaceOf(ref, n)>>, SlotIn(ref, n), item)
<1>0. ref # <<>> BY SlotsOfSome
<1>1. CASE ref \in Single /\ Len(ref) = 1
  <2>1. KindOf(ref) = Kind[ref[1]] /\ PlaceOf(ref, n) = ref[1] /\ SlotIn(ref, n) = n
    BY <1>0, <1>1 DEF KindOf, PlaceOf, SlotIn
  <2> QED BY <2>1 DEF StackLimit, KindOf
<1>2. CASE ref \in Double
  <2>1. Kind[PlaceOf(ref, n)] \in {"chest", "trapped_chest"} /\ Kind[ref[1]] \in {"chest", "trapped_chest"}
    BY <1>2, DoubleKinds DEF PlaceOf
  <2> QED BY <1>0, <2>1 DEF StackLimit, KindOf
<1> QED BY <1>0, <1>1, <1>2, RefFacts

LEMMA LimitNat ==
  ASSUME NEW ref, NEW n, NEW item \in Items
  PROVE  StackLimit(ref, n, item) \in Nat
BY ContainersAssumption DEF StackLimit, ContainersAssumption

LEMMA CellChange ==
  ASSUME NEW f, NEW g, NEW x, x \in Cells, \A c \in Cells : f[c] \in Int /\ g[c] \in Int,
         \A c \in Cells \ {x} : g[c] = f[c]
  PROVE  SumFunctionOnSet(g, Cells) = SumFunctionOnSet(f, Cells) + (g[x] - f[x])
BY CellsFinite, SumChange, SMT

\* One slot of b2 is not as in b.
OffIn(b, b2, p, n, k) ==
  /\ b2[p] = [slots |-> [b[p].slots EXCEPT ![n] = k], cooldown |-> b[p].cooldown]
  /\ \A q \in Places \ {p} : b2[q] = b[q]
  /\ OnPlaces(b2)

LEMMA OneCellOff ==
  ASSUME NEW b \in Worlds, NEW p \in Places, NEW n \in 0 .. SlotCount[p] - 1, NEW k \in Stacks, NEW b2,
         OffIn(b, b2, p, n, k)
  PROVE  /\ b2 \in Worlds
         /\ b2[p].slots[n] = k /\ b2[p].cooldown = b[p].cooldown
         /\ \A q \in Places : \A m \in 0 .. SlotCount[q] - 1 :
              ~(q = p /\ m = n) => b2[q].slots[m] = b[q].slots[m]
         /\ \A q \in Places \ {p} : b2[q] = b[q]
         /\ \A i : InCells(b2, i) = InCells(b, i) + Count(k, i) - Count(b[p].slots[n], i)
<1>1. b[p] \in Contents(p) /\ b[p].slots \in [0 .. SlotCount[p] - 1 -> Stacks] BY WorldFields
<1>4. b2[p] = [slots |-> [b[p].slots EXCEPT ![n] = k], cooldown |-> b[p].cooldown]
  BY DEF OffIn
<1>5. \A q \in Places \ {p} : b2[q] = b[q] BY DEF OffIn
<1>6. OnPlaces(b2) BY DEF OffIn
<1>7. [b[p].slots EXCEPT ![n] = k] \in [0 .. SlotCount[p] - 1 -> Stacks] BY <1>1
<1>14. b[p].cooldown \in -1 .. Cooldown BY WorldFields
<1>8. b2[p] \in Contents(p) BY <1>4, <1>7, <1>14 DEF Contents
<1>9. \A q \in Places : b[q] \in Contents(q) BY WorldFields
<1>10. b2 \in Worlds
  <2>1. \A q \in Places : b2[q] \in Contents(q) BY <1>5, <1>8, <1>9
  <2> QED BY <1>6, <2>1, IsWorld
<1>16. b2[p].slots = [b[p].slots EXCEPT ![n] = k] BY <1>4
<1>11. b2[p].slots[n] = k BY <1>1, <1>16
<1>12. \A q \in Places : \A m \in 0 .. SlotCount[q] - 1 :
         ~(q = p /\ m = n) => b2[q].slots[m] = b[q].slots[m]
  <2> SUFFICES ASSUME NEW q \in Places, NEW m \in 0 .. SlotCount[q] - 1, ~(q = p /\ m = n)
               PROVE b2[q].slots[m] = b[q].slots[m] OBVIOUS
  <2>1. CASE q # p BY <1>5, <2>1
  <2>2. CASE q = p
    <3>1. m # n BY <2>2
    <3>3. b2[p].slots[m] = b[p].slots[m] BY <1>1, <1>16, <2>2, <3>1
    <3> QED BY <2>2, <3>3
  <2> QED BY <2>1, <2>2
<1>13. \A i : InCells(b2, i) = InCells(b, i) + Count(k, i) - Count(b[p].slots[n], i)
  <2> SUFFICES ASSUME NEW i
               PROVE InCells(b2, i) = InCells(b, i) + Count(k, i) - Count(b[p].slots[n], i) OBVIOUS
  <2> DEFINE f == [c \in Cells |-> Count(b[c[1]].slots[c[2]], i)]
             g == [c \in Cells |-> Count(b2[c[1]].slots[c[2]], i)]
             x == <<p, n>>
  <2>1. \A c \in Cells : f[c] \in Int /\ g[c] \in Int BY <1>10, CellStack, CountNat
  <2>2. x \in Cells BY IsCell
  <2>3. \A c \in Cells \ {x} : g[c] = f[c]
    <3> SUFFICES ASSUME NEW c \in Cells, c # x
                 PROVE b2[c[1]].slots[c[2]] = b[c[1]].slots[c[2]] OBVIOUS
    <3>1. c = <<c[1], c[2]>> /\ c[1] \in Places /\ c[2] \in 0 .. SlotCount[c[1]] - 1 BY CellFields
    <3>2. ~(c[1] = p /\ c[2] = n) BY <3>1
    <3> QED BY <1>12, <3>1, <3>2
  <2>4. f[x] = Count(b[p].slots[n], i) /\ g[x] = Count(k, i) BY <1>11, <2>2
  <2>7. InCells(b2, i) = SumFunctionOnSet(g, Cells) /\ InCells(b, i) = SumFunctionOnSet(f, Cells)
    BY DEF InCells
  <2> HIDE DEF f, g, x
  <2>5. SumFunctionOnSet(g, Cells) = SumFunctionOnSet(f, Cells) + (g[x] - f[x])
    BY <2>1, <2>2, <2>3, CellChange
  <2>6. SumFunctionOnSet(f, Cells) \in Int BY <2>1, CellsFinite, SumInt
  <2>8. f[x] \in Int /\ g[x] \in Int BY <2>1, <2>2
  <2>9. SumFunctionOnSet(f, Cells) + (g[x] - f[x]) = SumFunctionOnSet(f, Cells) + g[x] - f[x]
    BY <2>6, <2>8
  <2> QED BY <2>4, <2>5, <2>7, <2>9
<1>15. b2[p].cooldown = b[p].cooldown BY <1>4
<1> QED BY <1>5, <1>10, <1>11, <1>12, <1>13, <1>15, Zenon

\* One slot is written.
IsSet(b, b2, p, n, k) == b2 = [b EXCEPT ![p].slots[n] = k]

LEMMA OneCell ==
  ASSUME NEW b \in Worlds, NEW p \in Places, NEW n \in 0 .. SlotCount[p] - 1, NEW k \in Stacks,
         NEW b2, IsSet(b, b2, p, n, k)
  PROVE  /\ b2 \in Worlds
         /\ b2[p].slots[n] = k /\ b2[p].cooldown = b[p].cooldown
         /\ \A q \in Places : \A m \in 0 .. SlotCount[q] - 1 :
              ~(q = p /\ m = n) => b2[q].slots[m] = b[q].slots[m]
         /\ \A q \in Places \ {p} : b2[q] = b[q]
         /\ \A i : InCells(b2, i) = InCells(b, i) + Count(k, i) - Count(b[p].slots[n], i)
<1>1. b[p] \in Contents(p) BY WorldFields
<1>2. p \in DOMAIN b /\ b = [q \in Places |-> b[q]] BY DEF Worlds
<1>8. b2 = [b EXCEPT ![p].slots[n] = k] BY DEF IsSet
<1>3. b2[p] = [b[p] EXCEPT !.slots = [b[p].slots EXCEPT ![n] = k]] BY <1>2, <1>8
<1>4. b2[p] = [slots |-> [b[p].slots EXCEPT ![n] = k], cooldown |-> b[p].cooldown]
  BY <1>1, <1>3 DEF Contents
<1>5. \A q \in Places \ {p} : b2[q] = b[q] BY <1>2, <1>8
<1>6. OnPlaces(b2) BY <1>2, <1>8 DEF OnPlaces
<1>7. OffIn(b, b2, p, n, k) BY <1>4, <1>5, <1>6 DEF OffIn
<1> QED BY ONLY <1>7, b \in Worlds, p \in Places, n \in 0 .. SlotCount[p] - 1, k \in Stacks, OneCellOff

Empty(b, p) == \A n \in 0 .. SlotCount[p] - 1 : b[p].slots[n].count = 0

\* The order in which a stack goes into slots, and what each of them takes.
Filling(s, ref, item, order, got) ==
  /\ order \in Seq(Slots(ref)) /\ Apart(order) /\ got \in [DOMAIN order -> Nat]
  /\ \A i \in DOMAIN order :
       LET held == StackAt(s, ref, order[i]) IN held.item = item \/ held.count = 0
\* Each of them may take it.
Fitting(s, ref, item, order, got) ==
  \A i \in DOMAIN order :
    /\ CanPlace(s, ref, order[i], item)
    /\ got[i] > 0 => StackAt(s, ref, order[i]).count + got[i] <= StackLimit(ref, order[i], item)

LEMMA FillingCells ==
  ASSUME NEW s \in Sessions, NEW ref \in Refs, ~ IsComposter(ref), NEW item \in Items,
         NEW order, NEW got, Filling(s, ref, item, order, got), NEW b2,
         IsGrown(s.be, b2, ref, item, order, got), NEW kind \in Items
  PROVE  InCells(b2, kind) = InCells(s.be, kind) + (IF kind = item THEN SumFunction(got) ELSE 0)
<1> DEFINE m == Len(order)
           e == [i \in 1 .. m |-> <<PlaceOf(ref, order[i]), SlotIn(ref, order[i])>>]
<1>1. order \in Seq(Slots(ref)) /\ Apart(order) /\ got \in [1 .. m -> Nat] /\ m \in Nat
      /\ DOMAIN order = 1 .. m
  BY DEF Filling
<1>2. \A i \in 1 .. m : order[i] \in Slots(ref) BY <1>1
<1>3. \A i \in 1 .. m : /\ PlaceOf(ref, order[i]) \in Places
                        /\ SlotIn(ref, order[i]) \in 0 .. SlotCount[PlaceOf(ref, order[i])] - 1
  BY <1>2, SlotPlaces
<1>4. e \in [1 .. m -> Cells] BY <1>3, IsCell
<1>5. \A i, j \in 1 .. m : e[i] = e[j] => i = j BY <1>1, <1>2, SlotPlaces DEF Apart
<1>6. s.be \in Worlds /\ b2 \in Worlds BY SessionFields DEF IsGrown
<1>7. \A i \in 1 .. m : e[i][1] = PlaceOf(ref, order[i]) /\ e[i][2] = SlotIn(ref, order[i]) OBVIOUS
<1>8. \A i \in 1 .. m : StackAt(s, ref, order[i]) = s.be[e[i][1]].slots[e[i][2]]
  BY <1>2, <1>6, <1>7, StackThere
<1>9. \A i \in 1 .. m : got[i] > 0 =>
           LET k == s.be[e[i][1]].slots[e[i][2]]
           IN /\ k.item = item \/ k.count = 0
              /\ b2[e[i][1]].slots[e[i][2]] = [item |-> item, count |-> k.count + got[i]]
  <2> SUFFICES ASSUME NEW i \in 1 .. m, got[i] > 0
               PROVE LET k == s.be[e[i][1]].slots[e[i][2]]
                     IN /\ k.item = item \/ k.count = 0
                        /\ b2[e[i][1]].slots[e[i][2]] = [item |-> item, count |-> k.count + got[i]]
    OBVIOUS
  <2>1. LET held == StackAt(s, ref, order[i]) IN held.item = item \/ held.count = 0
    BY <1>1 DEF Filling
  <2>2. b2[e[i][1]].slots[e[i][2]]
          = [item |-> item, count |-> s.be[e[i][1]].slots[e[i][2]].count + got[i]]
    BY <1>1, <1>7 DEF IsGrown
  <2> QED BY <1>8, <2>1, <2>2
<1>10. \A c \in Cells : (\A i \in 1 .. m : got[i] > 0 => e[i] # c)
                          => b2[c[1]].slots[c[2]] = s.be[c[1]].slots[c[2]]
  <2> SUFFICES ASSUME NEW c \in Cells, \A i \in 1 .. m : got[i] > 0 => e[i] # c
               PROVE b2[c[1]].slots[c[2]] = s.be[c[1]].slots[c[2]] OBVIOUS
  <2>1. c = <<c[1], c[2]>> /\ c[1] \in Places /\ c[2] \in 0 .. SlotCount[c[1]] - 1 BY CellFields
  <2>2. \A i \in DOMAIN order :
          got[i] > 0 => ~(PlaceOf(ref, order[i]) = c[1] /\ SlotIn(ref, order[i]) = c[2])
    BY <1>1, <2>1
  <2> QED BY <2>1, <2>2 DEF IsGrown
<1>11. GrowsIn(s.be, b2, m, e, got, item)
  <2> HIDE DEF e, m
  <2> QED BY ONLY <1>1, <1>4, <1>5, <1>9, <1>10 DEF GrowsIn
<1> QED BY <1>6, <1>11, GrownCells

LEMMA FillingFits ==
  ASSUME NEW s \in Sessions, NEW ref \in Refs, ~ IsComposter(ref), NEW item \in Items,
         NEW order, NEW got, Filling(s, ref, item, order, got), Fitting(s, ref, item, order, got),
         NEW b2, IsGrown(s.be, b2, ref, item, order, got), Fits(s.be)
  PROVE  Fits(b2)
<1> SUFFICES ASSUME NEW p \in Places, NEW n \in 0 .. SlotCount[p] - 1
             PROVE FitsAt(p, n, b2[p].slots[n]) BY DEF Fits
<1>1. order \in Seq(Slots(ref)) /\ got \in [DOMAIN order -> Nat] BY DEF Filling
<1>2. \A i \in DOMAIN order : order[i] \in Slots(ref) BY <1>1
<1>3. s.be \in Worlds BY SessionFields
<1>4. CASE \A i \in DOMAIN order :
             got[i] > 0 => ~(PlaceOf(ref, order[i]) = p /\ SlotIn(ref, order[i]) = n)
  <2>1. b2[p].slots[n] = s.be[p].slots[n] BY <1>4 DEF IsGrown
  <2> QED BY <2>1 DEF Fits
<1>5. ASSUME NEW i \in DOMAIN order, got[i] > 0, PlaceOf(ref, order[i]) = p, SlotIn(ref, order[i]) = n
      PROVE FitsAt(p, n, b2[p].slots[n])
  <2> DEFINE k == s.be[p].slots[n]
             k2 == b2[p].slots[n]
  <2>1. k2 = [item |-> item, count |-> k.count + got[i]] BY <1>5 DEF IsGrown
  <2>2. StackAt(s, ref, order[i]) = k BY <1>2, <1>3, <1>5, StackThere
  <2>3. CanPlace(s, ref, order[i], item) /\ k.count + got[i] <= StackLimit(ref, order[i], item)
    BY <1>5, <2>2 DEF Fitting
  <2>4. Suits(p, n, item) BY <1>2, <1>5, <2>3, PlaceSuits
  <2>5. StackLimit(ref, order[i], item) = StackLimit(<<p>>, n, item) BY <1>2, <1>5, LimitThere
  <2> HIDE DEF k, k2
  <2>6. FitsAt(p, n, k2) BY <2>1, <2>3, <2>4, <2>5 DEF FitsAt
  <2> QED BY <2>6 DEF k2
<1> QED BY <1>4, <1>5

LEMMA SomethingIn ==
  ASSUME NEW order, NEW got \in [DOMAIN order -> Nat], NEW m \in Nat, DOMAIN order = 1 .. m,
         SumFunction(got) # 0
  PROVE  \E i \in DOMAIN order : got[i] > 0
<1> SUFFICES ASSUME \A i \in DOMAIN order : got[i] = 0 PROVE SumFunction(got) = 0
  OBVIOUS
<1>1. IsFiniteSet(1 .. m) BY FS_Interval
<1>2. SumFunctionOnSet(got, 1 .. m) = 0 BY <1>1, SumZero
<1> QED BY <1>2 DEF SumFunction

LEMMA FillingEnds ==
  ASSUME NEW s \in Sessions, NEW ref \in Refs, ~ IsComposter(ref), NEW item \in Items,
         NEW order, NEW got, Filling(s, ref, item, order, got), NEW b2,
         IsGrown(s.be, b2, ref, item, order, got), SumFunction(got) # 0, NEW p, ref = <<p>>
  PROVE  ~ Empty(b2, p)
<1>1. order \in Seq(Slots(ref)) /\ got \in [DOMAIN order -> Nat] BY DEF Filling
<1>2. Len(order) \in Nat /\ DOMAIN order = 1 .. Len(order) BY <1>1
<1>3. PICK i \in DOMAIN order : got[i] > 0 BY <1>1, <1>2, SomethingIn
<1>4. order[i] \in Slots(ref) BY <1>1
<1> DEFINE n == SlotIn(ref, order[i])
<1>5. PlaceOf(ref, order[i]) = p BY DEF PlaceOf
<1>6. n \in 0 .. SlotCount[p] - 1 /\ p \in Places BY <1>4, <1>5, SlotPlaces
<1>7. b2[p].slots[n] = [item |-> item, count |-> s.be[p].slots[n].count + got[i]]
  <2>1. b2[PlaceOf(ref, order[i])].slots[n]
          = [item |-> item, count |-> s.be[PlaceOf(ref, order[i])].slots[n].count + got[i]]
    BY <1>3 DEF IsGrown
  <2> HIDE DEF n
  <2> QED BY ONLY <1>5, <2>1
<1>8. s.be[p].slots[n].count \in Nat
  <2>1. s.be \in Worlds BY SessionFields
  <2>2. s.be[p].slots[n] \in Stacks BY <1>6, <2>1, WorldFields
  <2> QED BY <2>2, StackFields
<1>9. got[i] \in Nat BY <1>1
<1> HIDE DEF n
<1>10. b2[p].slots[n].count # 0 BY <1>3, <1>7, <1>8, <1>9
<1> QED BY <1>6, <1>10 DEF Empty

-------------------------------------------------------------------------------
(* Sessions: inserting and removing.                                        *)

\* The items on the ground that a session has not taken, as Commit leaves them.
Ground(s) == [e \in Drops |-> IF e \in s.gone THEN NoStack ELSE s.drops[e]]
Weight(s, i) == InCells(s.be, i) + OnGround(Ground(s), i) + s.spent[i]

SameSlots(b, b2) == \A p \in Places : b2[p].slots = b[p].slots

LEMMA SlotsStay ==
  ASSUME NEW b, NEW b2, SameSlots(b, b2)
  PROVE  /\ \A i : InCells(b2, i) = InCells(b, i)
         /\ Fits(b2) <=> Fits(b)
         /\ \A p \in Places : Empty(b2, p) <=> Empty(b, p)
<1>1. \A c \in Cells : b2[c[1]].slots[c[2]] = b[c[1]].slots[c[2]] BY CellFields DEF SameSlots
<1>2. ASSUME NEW i PROVE InCells(b2, i) = InCells(b, i)
  <2>1. [c \in Cells |-> Count(b2[c[1]].slots[c[2]], i)] = [c \in Cells |-> Count(b[c[1]].slots[c[2]], i)]
    BY <1>1
  <2> QED BY <2>1 DEF InCells
<1>3. Fits(b2) <=> Fits(b) BY DEF Fits, SameSlots
<1>4. \A p \in Places : Empty(b2, p) <=> Empty(b, p) BY DEF Empty, SameSlots
<1> QED BY <1>2, <1>3, <1>4

\* Two sessions that differ in what lies where only, or in a cooldown.
Restocked(s, t) ==
  /\ t.be \in Worlds /\ t.level = s.level /\ t.drops = s.drops /\ t.gone = s.gone
  /\ t.notes = s.notes /\ t.ticked = s.ticked /\ t.spent = s.spent
  /\ t \in Sessions

LEMMA Restocks ==
  ASSUME NEW s \in Sessions, NEW b \in Worlds
  PROVE  Restocked(s, [s EXCEPT !.be = b]) /\ [s EXCEPT !.be = b].be = b
BY DEF Restocked, Sessions

LEMMA RestockedWeight ==
  ASSUME NEW s, NEW t, Restocked(s, t), NEW i
  PROVE  Weight(t, i) = InCells(t.be, i) + OnGround(Ground(s), i) + s.spent[i]
BY DEF Restocked, Weight, Ground

LEMMA CooldownSet ==
  ASSUME NEW s \in Sessions, NEW p \in Places, NEW n \in -1 .. Cooldown
  PROVE  LET t == WithCooldown(s, p, n)
         IN /\ Restocked(s, t) /\ SameSlots(s.be, t.be)
            /\ t.be[p].cooldown = n
            /\ \A q \in Places \ {p} : t.be[q] = s.be[q]
<1> DEFINE b2 == [s.be EXCEPT ![p].cooldown = n]
           t == WithCooldown(s, p, n)
<1>0. s.be \in Worlds BY SessionFields
<1>1. t = [s EXCEPT !.be = b2] BY DEF WithCooldown
<1>2. s.be[p] \in Contents(p) BY <1>0, WorldFields
<1>3. p \in DOMAIN s.be /\ s.be = [q \in Places |-> s.be[q]] BY <1>0 DEF Worlds
<1>4. b2[p] = [s.be[p] EXCEPT !.cooldown = n] BY <1>3
<1>5. \A q \in Places \ {p} : b2[q] = s.be[q] BY <1>3
<1>6. OnPlaces(b2) BY <1>3 DEF OnPlaces
<1> HIDE DEF b2
<1>7. b2[p].slots = s.be[p].slots /\ b2[p].cooldown = n /\ b2[p] \in Contents(p) BY <1>2, <1>4 DEF Contents
<1>8. \A q \in Places : b2[q] \in Contents(q) BY <1>0, <1>5, <1>7, WorldFields
<1>9. b2 \in Worlds BY <1>6, <1>8, IsWorld
<1>10. Restocked(s, t) /\ t.be = b2 BY <1>1, <1>9, Restocks
<1>11. SameSlots(s.be, b2) BY <1>5, <1>7 DEF SameSlots
<1> QED BY <1>5, <1>7, <1>10, <1>11

\* A stack went into a container, as much of it as its slots take.
FilledFrom(s, put, ref, item, count) ==
  /\ put.inserted \in 0 .. count
  /\ Restocked(s, put.s)
  /\ \E order, got : /\ Filling(s, ref, item, order, got) /\ Fitting(s, ref, item, order, got)
                     /\ IsGrown(s.be, put.s.be, ref, item, order, got)
                     /\ put.inserted = SumFunction(got)

LEMMA PutFromFacts ==
  ASSUME NEW s \in Sessions, NEW ref \in Refs, ~ IsComposter(ref), NEW item \in Items,
         NEW count \in Nat, NEW face \in Faces
  PROVE  FilledFrom(s, PutFrom(s, ref, item, count, face, [n \in Slots(ref) |-> StackAt(s, ref, n)]),
                    ref, item, count)
<1> DEFINE held == [n \in Slots(ref) |-> StackAt(s, ref, n)]
           slots == SlotsForFace(s, ref, face)
           order == InsertOrder(s, ref, item, slots, held)
           room == [i \in DOMAIN order |-> Room(ref, order[i], item, held[order[i]].count)]
           got == Poured(count, room)
           put == PutFrom(s, ref, item, count, face, held)
<1>1. put = Put(s, ref, item, order, got) BY DEF PutFrom, PutInOrder
<1>2. s.be \in Worlds BY SessionFields
<1>3. slots \in Seq(Nat) /\ Apart(slots)
  <2>1. Size(ref) \in Nat BY SlotPlaces
  <2> QED BY <2>1, FaceSlotsApart
<1>4. \A n \in Slots(ref) : held[n] = StackAt(s, ref, n) OBVIOUS
<1> HIDE DEF held, slots
<1>5. /\ order \in Seq(Slots(ref)) /\ Apart(order)
      /\ \A i \in DOMAIN order : /\ CanPlace(s, ref, order[i], item)
                                 /\ held[order[i]].item = item \/ held[order[i]].count = 0
  BY <1>2, <1>3, <1>4, InsertOrderFacts
<1> HIDE DEF order
<1> DEFINE m == Len(order)
<1>6. m \in Nat /\ DOMAIN order = 1 .. m /\ \A i \in 1 .. m : order[i] \in Slots(ref) BY <1>5
<1>7. \A i \in 1 .. m : held[order[i]] = StackAt(s, ref, order[i]) BY <1>4, <1>6
<1>8. \A i \in 1 .. m : held[order[i]].count \in Nat
  <2>1. \A i \in 1 .. m : held[order[i]] \in Stacks BY <1>2, <1>6, <1>7, StackThere
  <2> QED BY <2>1, StackFields
<1>9. \A i \in 1 .. m :
        /\ room[i] \in Nat
        /\ room[i] > 0 => held[order[i]].count + room[i] = StackLimit(ref, order[i], item)
  <2> SUFFICES ASSUME NEW i \in 1 .. m
               PROVE /\ room[i] \in Nat
                     /\ room[i] > 0 => held[order[i]].count + room[i] = StackLimit(ref, order[i], item)
    OBVIOUS
  <2> DEFINE l == StackLimit(ref, order[i], item)
             c == held[order[i]].count
  <2>1. l \in Nat /\ c \in Nat BY <1>8, LimitNat
  <2>2. room[i] = Max({l - c, 0}) BY <1>6 DEF Room
  <2> HIDE DEF l, c, room
  <2>3. room[i] = IF l - c >= 0 THEN l - c ELSE 0 BY <2>1, <2>2, MaxOfTwo
  <2>4. room[i] \in Nat /\ (room[i] > 0 => c + room[i] = l) BY <2>1, <2>3
  <2> QED BY <2>4 DEF l, c
<1>10. room \in [1 .. m -> Nat]
  <2>1. room = [i \in 1 .. m |-> room[i]] BY <1>6
  <2> HIDE DEF room
  <2> QED BY <1>9, <2>1
<1> HIDE DEF room
<1>11. /\ got \in [1 .. m -> Nat]
       /\ \A i \in 1 .. m : got[i] <= room[i]
       /\ SumFunction(got) \in 0 .. count
  BY <1>6, <1>10, PouredFacts
<1> HIDE DEF got
<1>12. Filling(s, ref, item, order, got) /\ Fitting(s, ref, item, order, got)
  <2>1. \A i \in DOMAIN order :
          /\ CanPlace(s, ref, order[i], item)
          /\ StackAt(s, ref, order[i]).item = item \/ StackAt(s, ref, order[i]).count = 0
    BY <1>5, <1>6, <1>7
  <2>2. ASSUME NEW i \in DOMAIN order, got[i] > 0
        PROVE StackAt(s, ref, order[i]).count + got[i] <= StackLimit(ref, order[i], item)
    <3>1. /\ got[i] \in Nat /\ got[i] <= room[i] /\ room[i] \in Nat /\ held[order[i]].count \in Nat
          /\ StackAt(s, ref, order[i]) = held[order[i]]
      BY <1>6, <1>7, <1>8, <1>9, <1>11
    <3>2. room[i] > 0 BY <2>2, <3>1
    <3>3. held[order[i]].count + room[i] = StackLimit(ref, order[i], item) BY <1>6, <1>9, <3>2
    <3>4. StackLimit(ref, order[i], item) \in Nat BY LimitNat
    <3> QED BY <3>1, <3>3, <3>4
  <2>3. got \in [DOMAIN order -> Nat] BY <1>6, <1>11
  <2> QED BY <1>5, <2>1, <2>2, <2>3 DEF Filling, Fitting
<1> HIDE DEF put
<1>13. /\ put.inserted = SumFunction(got)
       /\ put.s = [s EXCEPT !.be = put.s.be]
       /\ IsGrown(s.be, put.s.be, ref, item, order, got)
  <2>1. got \in [DOMAIN order -> Nat] BY <1>6, <1>11
  <2> QED BY <1>1, <1>5, <2>1, PutFacts
<1>14. put.s.be \in Worlds BY <1>13 DEF IsGrown
<1>15. Restocked(s, put.s) BY <1>13, <1>14, Restocks
<1>16. FilledFrom(s, put, ref, item, count) BY <1>11, <1>12, <1>13, <1>15 DEF FilledFrom
<1> QED BY <1>16 DEF put, held

\* What every step of a session keeps.
Follows(s, t) ==
  /\ t \in Sessions /\ t.ticked = s.ticked /\ s.notes \subseteq t.notes
  /\ Fits(s.be) => Fits(t.be)

\* Only a hopper that was empty and no longer is has a new cooldown.
Wakes(s, t, p, source) ==
  t.be[p].cooldown = IF Kind[p] = "hopper" /\ Empty(s.be, p) /\ ~ Empty(t.be, p)
                     THEN IF SkipsTick(s, p, source) THEN Cooldown - 1 ELSE Cooldown
                     ELSE s.be[p].cooldown

Known(ref) == ref \in Refs /\ (IsComposter(ref) => ref[1] \in DOMAIN plan.start.level)

\* out: some of a stack went into a container.
Inserts(s, out, ref, item, count, source) ==
  /\ out.inserted \in 0 .. count
  /\ Follows(s, out.s)
  /\ out.s.drops = s.drops /\ out.s.gone = s.gone /\ out.s.notes = s.notes
  /\ \A p \in Places \ ToSet(ref) : out.s.be[p] = s.be[p]
  /\ out.inserted = 0 => out.s = s
  /\ \A i \in Items : Weight(out.s, i) = Weight(s, i) + (IF i = item THEN out.inserted ELSE 0)
  /\ \A p \in ToSet(ref) : Wakes(s, out.s, p, source)
  /\ \A p \in Places : Empty(out.s.be, p) => Empty(s.be, p)

LEMMA SingleOf ==
  ASSUME NEW ref \in Refs, ref # <<>>, ref \notin Double
  PROVE  ref[1] \in Places /\ ref = <<ref[1]>> /\ ToSet(ref) = {ref[1]} /\ KindOf(ref) = Kind[ref[1]]
<1>1. ref \in Single BY DEF Refs
<1>2. PICK p \in Places : ref = <<p>> BY <1>1 DEF Single
<1>3. ref[1] = p BY <1>2
<1>4. ToSet(ref) = {p} BY <1>1, RefFacts, <1>2, <1>3 DEF ToSet
<1> QED BY <1>2, <1>3, <1>4 DEF KindOf

LEMMA KindOfDouble ==
  ASSUME NEW ref \in Double
  PROVE  ref # <<>> /\ KindOf(ref) \in {"chest", "trapped_chest"}
<1>1. PICK p \in Places, q \in Places : ref = <<p, q>> BY DEF Double
<1>2. ref # <<>> BY <1>1
<1> QED BY <1>2, DoubleKinds DEF KindOf

LEMMA KindOfSingle ==
  ASSUME NEW ref \in Refs, KindOf(ref) \notin {"unsupported", "chest", "trapped_chest"}
  PROVE  ref[1] \in Places /\ ref = <<ref[1]>> /\ ToSet(ref) = {ref[1]} /\ KindOf(ref) = Kind[ref[1]]
<1>1. ref # <<>> BY DEF KindOf
<1>2. ref \notin Double BY KindOfDouble
<1> QED BY <1>1, <1>2, SingleOf

LEMMA KindsOfOthers ==
  ASSUME NEW ref \in Refs, KindOf(ref) # "hopper", NEW p \in ToSet(ref)
  PROVE  p \in Places /\ Kind[p] # "hopper"
<1>1. CASE ref = <<>> BY <1>1, RefFacts
<1>2. CASE ref \in Double
  <2>1. p \in {ref[1], ref[2]} /\ p \in Places BY <1>2, RefFacts
  <2> QED BY <1>2, <2>1, DoubleKinds
<1>3. CASE ref # <<>> /\ ref \notin Double BY <1>3, SingleOf
<1> QED BY <1>1, <1>2, <1>3

LEMMA FollowsSelf ==
  ASSUME NEW s \in Sessions
  PROVE  Follows(s, s)
BY DEF Follows

LEMMA WeightParts ==
  ASSUME NEW s \in Sessions, NEW i \in Items
  PROVE  /\ InCells(s.be, i) \in Nat /\ OnGround(Ground(s), i) \in Nat /\ s.spent[i] \in Int
         /\ Weight(s, i) \in Int
<1>1. s.be \in Worlds /\ s.drops \in [Drops -> Stacks] /\ s.spent \in [Items -> Int] BY SessionFields
<1>2. Ground(s) \in [Drops -> Stacks] BY <1>1 DEF Ground, Stacks
<1>3. InCells(s.be, i) \in Nat /\ OnGround(Ground(s), i) \in Nat BY <1>1, <1>2, InCellsInt, OnGroundInt
<1> QED BY <1>1, <1>3 DEF Weight

\* A composter takes one item, which is then spent.
LEMMA ComposterInserts ==
  ASSUME NEW s \in Sessions, NEW ref, Known(ref), IsComposter(ref), NEW item \in Items,
         NEW count \in Nat \ {0}, NEW face \in Faces, NEW source, NEW lucky \in BOOLEAN
  PROVE  Inserts(s, InsertComposter(s, ref[1], item, count, face, lucky), ref, item, count, source)
<1> DEFINE p == ref[1]
           out == InsertComposter(s, p, item, count, face, lucky)
           t == [s EXCEPT !.spent[item] = @ + 1]
           risen == [t EXCEPT !.level[p] = @ + 1]
<1>1. p \in DOMAIN plan.start.level /\ ref \in Refs BY DEF Known
<1>2. p \in Places /\ ToSet(ref) = {p}
  <2>1. KindOf(ref) = "composter" BY DEF IsComposter
  <2> QED BY <1>1, <2>1, KindOfSingle
<1>3. s.spent \in [Items -> Int] /\ s.level \in [DOMAIN plan.start.level -> 0 .. 8] BY SessionFields
<1>4. CASE out = [s |-> s, inserted |-> 0]
  <2>1. out.s = s /\ out.inserted = 0 BY <1>4
  <2> HIDE DEF out
  <2>3. \A q \in ToSet(ref) : Wakes(s, s, q, source) BY DEF Wakes
  <2>4. \A i \in Items : Weight(s, i) = Weight(s, i) + (IF i = item THEN 0 ELSE 0) BY WeightParts
  <2>5. Follows(s, s) BY FollowsSelf
  <2>6. 0 \in 0 .. count OBVIOUS
  <2>7. Inserts(s, out, ref, item, count, source) BY <2>1, <2>3, <2>4, <2>5, <2>6 DEF Inserts
  <2> QED BY <2>7 DEF out
<1>5. CASE out # [s |-> s, inserted |-> 0]
  <2>1. item \in Compost /\ ~(s.level[p] >= 7) /\ face = "up"
        /\ out = [s |-> IF s.level[p] = 0 \/ lucky THEN risen ELSE t, inserted |-> 1]
    BY <1>5 DEF InsertComposter
  <2>2. /\ t \in Sessions /\ t.be = s.be /\ t.level = s.level /\ t.drops = s.drops /\ t.gone = s.gone
        /\ t.notes = s.notes /\ t.ticked = s.ticked
        /\ \A i \in Items : t.spent[i] = s.spent[i] + (IF i = item THEN 1 ELSE 0)
    BY <1>3 DEF Sessions
  <2>3. s.level[p] \in 0 .. 6 BY <1>1, <1>3, <2>1
  <2>4. [s.level EXCEPT ![p] = @ + 1] \in [DOMAIN plan.start.level -> 0 .. 8]
    BY <1>1, <1>3, <2>3
  <2>5. /\ risen \in Sessions /\ risen.be = t.be /\ risen.drops = t.drops /\ risen.gone = t.gone
        /\ risen.notes = t.notes /\ risen.ticked = t.ticked /\ risen.spent = t.spent
    BY <2>2, <2>4 DEF Sessions
  <2> HIDE DEF t, risen, out
  <2> DEFINE u == out.s
  <2>6. /\ u \in Sessions /\ u.be = s.be /\ u.drops = s.drops /\ u.gone = s.gone
        /\ u.notes = s.notes /\ u.ticked = s.ticked
        /\ \A i \in Items : u.spent[i] = s.spent[i] + (IF i = item THEN 1 ELSE 0)
        /\ out.inserted = 1
    BY <2>1, <2>2, <2>5
  <2> HIDE DEF u
  <2>7. Follows(s, u) BY <2>6 DEF Follows
  <2>8. \A q \in ToSet(ref) : Wakes(s, u, q, source) BY <2>6 DEF Wakes
  <2>9. ASSUME NEW i \in Items PROVE Weight(u, i) = Weight(s, i) + (IF i = item THEN 1 ELSE 0)
    <3>3. InCells(s.be, i) \in Nat /\ OnGround(Ground(s), i) \in Nat BY WeightParts
    <3>4. s.spent[i] \in Int /\ u.spent[i] = s.spent[i] + (IF i = item THEN 1 ELSE 0) BY <1>3, <2>6
    <3>5. Ground(u) = Ground(s) BY <2>6 DEF Ground
    <3>6. u.be = s.be BY <2>6
    <3> QED BY <3>3, <3>4, <3>5, <3>6 DEF Weight
  <2>10. 1 \in 0 .. count OBVIOUS
  <2>11. u = out.s BY DEF u
  <2>12. Inserts(s, out, ref, item, count, source) BY <2>6, <2>7, <2>8, <2>9, <2>10, <2>11 DEF Inserts
  <2> QED BY <2>12 DEF out
<1> QED BY <1>4, <1>5 DEF out

LEMMA EmptyThere ==
  ASSUME NEW s \in Sessions, NEW p \in Places, Kind[p] # "composter"
  PROVE  IsEmpty(s, <<p>>) <=> Empty(s.be, p)
<1>1. KindOf(<<p>>) = Kind[p] /\ ~ IsComposter(<<p>>) BY DEF KindOf, IsComposter
<1>2. SlotCount[p] \in Nat BY ContainersAssumption DEF ContainersAssumption
<1>3. Slots(<<p>>) = 0 .. SlotCount[p] - 1 BY <1>1, <1>2 DEF Slots, Size
<1>4. \A n \in Slots(<<p>>) : StackAt(s, <<p>>, n) = s.be[p].slots[n]
  BY <1>1 DEF StackAt, PlaceOf, SlotIn
<1> QED BY <1>3, <1>4 DEF IsEmpty, Empty

LEMMA SkipsSame ==
  ASSUME NEW s, NEW t, t.ticked = s.ticked, NEW p, NEW source
  PROVE  SkipsTick(t, p, source) = SkipsTick(s, p, source)
BY DEF SkipsTick

\* What is in the container after a stack went in, before the cooldown is set.
LEMMA FilledFacts ==
  ASSUME NEW s \in Sessions, NEW ref \in Refs, ~ IsComposter(ref), NEW item \in Items,
         NEW count \in Nat, NEW put, FilledFrom(s, put, ref, item, count)
  PROVE  /\ Fits(s.be) => Fits(put.s.be)
         /\ \A p \in Places : put.s.be[p].cooldown = s.be[p].cooldown
         /\ \A p \in Places \ ToSet(ref) : put.s.be[p] = s.be[p]
         /\ \A i \in Items :
              InCells(put.s.be, i) = InCells(s.be, i) + (IF i = item THEN put.inserted ELSE 0)
         /\ \A p : ref = <<p>> /\ put.inserted # 0 => ~ Empty(put.s.be, p)
         /\ \A p \in Places : Empty(put.s.be, p) => Empty(s.be, p)
<1> PICK order, got : /\ Filling(s, ref, item, order, got) /\ Fitting(s, ref, item, order, got)
                      /\ IsGrown(s.be, put.s.be, ref, item, order, got)
                      /\ put.inserted = SumFunction(got)
  BY DEF FilledFrom
<1>1. Fits(s.be) => Fits(put.s.be) BY FillingFits
<1>2. \A i \in Items :
        InCells(put.s.be, i) = InCells(s.be, i) + (IF i = item THEN put.inserted ELSE 0)
  BY FillingCells
<1>3. \A p : ref = <<p>> /\ put.inserted # 0 => ~ Empty(put.s.be, p) BY FillingEnds
<1>4. \A p \in Places : Empty(put.s.be, p) => Empty(s.be, p)
  <2> SUFFICES ASSUME NEW p \in Places, NEW n \in 0 .. SlotCount[p] - 1, s.be[p].slots[n].count # 0
               PROVE put.s.be[p].slots[n].count # 0 BY DEF Empty
  <2>1. CASE \A i \in DOMAIN order :
               got[i] > 0 => ~(PlaceOf(ref, order[i]) = p /\ SlotIn(ref, order[i]) = n)
    BY <2>1 DEF IsGrown
  <2>2. ASSUME NEW i \in DOMAIN order, got[i] > 0, PlaceOf(ref, order[i]) = p, SlotIn(ref, order[i]) = n
        PROVE put.s.be[p].slots[n].count # 0
    <3>1. put.s.be[p].slots[n] = [item |-> item, count |-> s.be[p].slots[n].count + got[i]]
      BY <2>2 DEF IsGrown
    <3>2. s.be \in Worlds BY SessionFields
    <3>3. s.be[p].slots[n] \in Stacks BY <3>2, WorldFields
    <3>4. s.be[p].slots[n].count \in Nat BY <3>3, StackFields
    <3>5. got[i] \in Nat BY DEF Filling
    <3> QED BY <2>2, <3>1, <3>4, <3>5
  <2> QED BY <2>1, <2>2
<1> QED BY <1>1, <1>2, <1>3, <1>4 DEF IsGrown

LEMMA StackInserts ==
  ASSUME NEW s \in Sessions, NEW ref \in Refs, ~ IsComposter(ref), NEW item \in Items,
         NEW count \in Nat \ {0}, NEW put, FilledFrom(s, put, ref, item, count), NEW source
  PROVE  Inserts(s, Arrived(s, ref, source, put), ref, item, count, source)
<1> DEFINE out == Arrived(s, ref, source, put)
           wakes == KindOf(ref) = "hopper" /\ IsEmpty(s, ref)
           skips == SkipsTick(s, ref[1], source)
           after == IF skips THEN Cooldown - 1 ELSE Cooldown
<1>1. Restocked(s, put.s) /\ put.inserted \in 0 .. count /\ put.s \in Sessions BY DEF FilledFrom, Restocked
<1>2. put.inserted \in Nat BY <1>1
<1>3. out.inserted = put.inserted
      /\ out.s = IF put.inserted = 0 THEN s ELSE ApplyIncomingCooldown(put.s, ref, source, IsEmpty(s, ref))
  BY DEF Arrived
<1>4. CASE put.inserted = 0
  <2>1. out.s = s /\ out.inserted = 0 BY <1>3, <1>4
  <2> HIDE DEF out
  <2>2. \A q \in ToSet(ref) : Wakes(s, s, q, source) BY DEF Wakes
  <2>3. \A i \in Items : Weight(s, i) = Weight(s, i) + (IF i = item THEN 0 ELSE 0) BY WeightParts
  <2>4. Follows(s, s) BY FollowsSelf
  <2>5. 0 \in 0 .. count OBVIOUS
  <2>6. Inserts(s, out, ref, item, count, source) BY <2>1, <2>2, <2>3, <2>4, <2>5 DEF Inserts
  <2> QED BY <2>6 DEF out
<1>5. CASE put.inserted # 0
  <2> DEFINE u == put.s
             t == out.s
  <2>1. /\ Fits(s.be) => Fits(u.be)
        /\ \A p \in Places : u.be[p].cooldown = s.be[p].cooldown
        /\ \A p \in Places \ ToSet(ref) : u.be[p] = s.be[p]
        /\ \A i \in Items : InCells(u.be, i) = InCells(s.be, i) + (IF i = item THEN put.inserted ELSE 0)
        /\ \A p : ref = <<p>> /\ put.inserted # 0 => ~ Empty(u.be, p)
        /\ \A p \in Places : Empty(u.be, p) => Empty(s.be, p)
    BY FilledFacts
  <2>2. t = IF wakes THEN WithCooldown(u, ref[1], after) ELSE u
    <3>1. t = ApplyIncomingCooldown(u, ref, source, IsEmpty(s, ref)) BY <1>3, <1>5
    <3>2. SkipsTick(u, ref[1], source) = skips BY <1>1, SkipsSame DEF Restocked
    <3>3. wakes => u.be[ref[1]].cooldown <= Cooldown
      <4>1. u.be \in Worlds BY <1>1 DEF Restocked
      <4>2. wakes => ref[1] \in Places BY KindOfSingle
      <4>3. wakes => u.be[ref[1]].cooldown \in -1 .. Cooldown BY <4>1, <4>2, WorldFields
      <4> HIDE DEF u, wakes
      <4> QED BY <4>3 DEF Cooldown
    <3> HIDE DEF t, u
    <3> QED BY <3>1, <3>2, <3>3 DEF ApplyIncomingCooldown
  <2> HIDE DEF t, u
  <2>3. /\ Restocked(s, t) /\ SameSlots(u.be, t.be)
        /\ \A p \in Places \ ToSet(ref) : t.be[p] = s.be[p]
        /\ \A p \in ToSet(ref) : Wakes(s, t, p, source)
    <3>0. u \in Sessions BY <1>1 DEF u
    <3>1. CASE wakes
      <4> DEFINE p == ref[1]
      <4>1. p \in Places /\ ref = <<p>> /\ ToSet(ref) = {p} /\ Kind[p] = "hopper"
        BY <3>1, KindOfSingle
      <4>2. after \in -1 .. Cooldown BY DEF Cooldown
      <4>3. t = WithCooldown(u, p, after) BY <2>2, <3>1
      <4> HIDE DEF after, p, wakes
      <4>4. /\ Restocked(u, t) /\ SameSlots(u.be, t.be) /\ t.be[p].cooldown = after
            /\ \A q \in Places \ {p} : t.be[q] = u.be[q]
        BY <3>0, <4>1, <4>2, <4>3, CooldownSet
      <4>5. Restocked(s, t) BY <1>1, <4>4 DEF Restocked, u
      <4>6. Empty(s.be, p) BY <3>1, <4>1, EmptyThere DEF wakes
      <4>7. ~ Empty(t.be, p)
        <5>1. ~ Empty(u.be, p) BY <1>5, <2>1, <4>1
        <5> QED BY <4>1, <4>4, <5>1, SlotsStay
      <4>8. Wakes(s, t, p, source) BY <4>1, <4>4, <4>6, <4>7 DEF Wakes, after, p
      <4> QED BY <2>1, <4>1, <4>4, <4>5, <4>8
    <3>2. CASE ~ wakes
      <4>1. t = u BY <2>2, <3>2
      <4>2. Restocked(s, t) BY <1>1, <4>1 DEF u
      <4>3. \A p \in ToSet(ref) : Wakes(s, t, p, source)
        <5> SUFFICES ASSUME NEW p \in ToSet(ref) PROVE Wakes(s, t, p, source) OBVIOUS
        <5>1. p \in Places BY RefFacts
        <5>2. t.be[p].cooldown = s.be[p].cooldown BY <2>1, <4>1, <5>1
        <5>3. ~(Kind[p] = "hopper" /\ Empty(s.be, p))
          <6> SUFFICES ASSUME Kind[p] = "hopper" PROVE ~ Empty(s.be, p) OBVIOUS
          <6>1. KindOf(ref) = "hopper" BY KindsOfOthers
          <6>2. ref = <<p>> BY <6>1, KindOfSingle
          <6> QED BY <3>2, <5>1, <6>1, <6>2, EmptyThere
        <5> QED BY <5>2, <5>3 DEF Wakes
      <4>4. SameSlots(u.be, t.be) BY <4>1 DEF SameSlots
      <4> QED BY <2>1, <4>1, <4>2, <4>3, <4>4
    <3> QED BY <3>1, <3>2
  <2>4. ASSUME NEW i \in Items
        PROVE Weight(t, i) = Weight(s, i) + (IF i = item THEN put.inserted ELSE 0)
    <3>1. Weight(t, i) = InCells(t.be, i) + OnGround(Ground(s), i) + s.spent[i]
      BY <2>3, RestockedWeight
    <3>2. InCells(t.be, i) = InCells(s.be, i) + (IF i = item THEN put.inserted ELSE 0)
      BY <2>1, <2>3, SlotsStay
    <3>3. InCells(s.be, i) \in Nat /\ OnGround(Ground(s), i) \in Nat /\ s.spent[i] \in Int BY WeightParts
    <3> QED BY <1>2, <3>1, <3>2, <3>3 DEF Weight
  <2>5. Follows(s, t)
    <3>1. Fits(s.be) => Fits(t.be) BY <2>1, <2>3, SlotsStay
    <3> QED BY <2>3, <3>1 DEF Follows, Restocked
  <2> HIDE DEF out
  <2>6. out.s = t BY DEF t
  <2>8. \A p \in Places : Empty(t.be, p) => Empty(s.be, p) BY <2>1, <2>3, SlotsStay
  <2>7. Inserts(s, out, ref, item, count, source)
    BY <1>1, <1>3, <1>5, <2>3, <2>4, <2>5, <2>6, <2>8 DEF Inserts, Restocked
  <2> QED BY <2>7 DEF out
<1> QED BY <1>4, <1>5

LEMMA InsertFacts ==
  ASSUME NEW s \in Sessions, NEW ref, Known(ref), NEW item \in Items,
         NEW count \in Nat \ {0}, NEW face \in Faces, NEW source, NEW lucky \in BOOLEAN
  PROVE  Inserts(s, InsertStack(s, ref, item, count, face, source, lucky), ref, item, count, source)
<1>1. CASE IsComposter(ref) BY <1>1, ComposterInserts DEF InsertStack
<1>2. CASE ~ IsComposter(ref)
  <2> DEFINE put == PutFrom(s, ref, item, count, face, [n \in Slots(ref) |-> StackAt(s, ref, n)])
  <2>1. ref \in Refs BY DEF Known
  <2>2. FilledFrom(s, put, ref, item, count) BY <1>2, <2>1, PutFromFacts
  <2>3. InsertStack(s, ref, item, count, face, source, lucky) = Arrived(s, ref, source, put)
    BY <1>2 DEF InsertStack
  <2> HIDE DEF put
  <2> QED BY <1>2, <2>1, <2>2, <2>3, StackInserts
<1> QED BY <1>1, <1>2

\* t: one of an item was taken out of a container.
Removes(s, t, source, item) ==
  /\ t \in Sessions /\ t.ticked = s.ticked /\ t.notes = s.notes
  /\ t.drops = s.drops /\ t.gone = s.gone
  /\ Fits(s.be) => Fits(t.be)
  /\ \A p \in Places \ ToSet(source) : t.be[p] = s.be[p]
  /\ \A i \in Items : Weight(t, i) = Weight(s, i) - (IF i = item THEN 1 ELSE 0)
  /\ \A p \in Places : /\ t.be[p].cooldown = s.be[p].cooldown
                       /\ Empty(s.be, p) => Empty(t.be, p)

LEMMA CountOfOneLess ==
  ASSUME NEW k \in Stacks, k.count > 0, NEW i \in Items
  PROVE  LET less == IF k.count = 1 THEN NoStack ELSE [k EXCEPT !.count = @ - 1]
         IN /\ less \in Stacks /\ less.count = k.count - 1
            /\ less.count > 0 => less.item = k.item
            /\ Count(less, i) = Count(k, i) - (IF i = k.item THEN 1 ELSE 0)
<1> DEFINE less == IF k.count = 1 THEN NoStack ELSE [k EXCEPT !.count = @ - 1]
<1>1. k.item \in Items /\ k.count \in Nat /\ k # NoStack BY StackFields DEF NoStack
<1>2. k = [item |-> k.item, count |-> k.count] BY <1>1 DEF Stacks
<1>3. CASE k.count = 1
  <2>1. less = NoStack BY <1>3
  <2>2. i # "none" BY ContainersAssumption DEF ContainersAssumption
  <2> HIDE DEF less
  <2> QED BY <1>1, <1>3, <2>1, <2>2 DEF NoStack, Count, Stacks
<1>4. CASE k.count # 1
  <2>1. less = [item |-> k.item, count |-> k.count - 1] BY <1>2, <1>4
  <2>2. k.count - 1 \in Nat \ {0} BY <1>1, <1>4
  <2> HIDE DEF less
  <2>3. less \in Stacks BY <1>1, <2>1, <2>2, IsStack
  <2>4. /\ less \in Stacks /\ less.count = k.count - 1 /\ less.item = k.item BY <2>1, <2>3
  <2>5. Count(less, i) = Count(k, i) - (IF i = k.item THEN 1 ELSE 0) BY <1>1, <2>4 DEF Count
  <2>6. /\ less \in Stacks /\ less.count = k.count - 1
        /\ less.count > 0 => less.item = k.item
        /\ Count(less, i) = Count(k, i) - (IF i = k.item THEN 1 ELSE 0) BY <2>4, <2>5
  <2> QED BY <2>6 DEF less
<1> QED BY <1>3, <1>4

LEMMA FitsLess ==
  ASSUME StartTyped, NEW p \in Places, NEW n \in 0 .. SlotCount[p] - 1, NEW k \in Stacks, NEW less \in Stacks,
         k.count > 0, less.count = k.count - 1, less.count > 0 => less.item = k.item, FitsAt(p, n, k)
  PROVE  FitsAt(p, n, less)
<1>1. k.count \in Nat /\ less.count \in Nat /\ k.item \in Items BY StackFields
<1> DEFINE first == plan.start.be[p].slots[n]
<1>2. first \in Stacks BY WorldFields DEF StartTyped
<1> HIDE DEF first
<1>3. Count(first, k.item) \in Nat /\ Count(first, less.item) \in Nat BY <1>2, CountNat
<1>4. CASE less.count = 0 BY <1>3, <1>4 DEF FitsAt, first
<1>5. CASE less.count > 0
  <2>1. less.item = k.item BY <1>5
  <2>2. k.count > Count(first, k.item)
          => k.count <= StackLimit(<<p>>, n, k.item) /\ Suits(p, n, k.item)
    BY DEF FitsAt, first
  <2>3. StackLimit(<<p>>, n, k.item) \in Nat BY <1>1, LimitNat
  <2> QED BY <1>1, <1>3, <2>1, <2>2, <2>3 DEF FitsAt, first
<1> QED BY <1>1, <1>4, <1>5

LEMMA ComposterRemoves ==
  ASSUME plan \in Plans, NEW s \in Sessions, NEW source, Known(source), IsComposter(source),
         NEW n, StackAt(s, source, n).count > 0
  PROVE  /\ Removes(s, RemoveFromSlot(s, source, n), source, StackAt(s, source, n).item)
         /\ StackAt(s, source, n).item \in Items
<1> DEFINE t == RemoveFromSlot(s, source, n)
           c == source[1]
<1>1. s.level[c] = 8 /\ StackAt(s, source, n).item = "bone_meal" BY DEF StackAt, NoStack
<1>2. c \in DOMAIN plan.start.level BY DEF Known
<1>3. "bone_meal" \in Items BY <1>2, PlansAssumption DEF PlansAssumption, PlanStart
<1>4. t = [s EXCEPT !.spent["bone_meal"] = @ - 1, !.level[c] = 0] BY DEF RemoveFromSlot
<1>5. s.level \in [DOMAIN plan.start.level -> 0 .. 8] /\ s.spent \in [Items -> Int] BY SessionFields
<1>6. [s.level EXCEPT ![c] = 0] \in [DOMAIN plan.start.level -> 0 .. 8]
      /\ [s.spent EXCEPT !["bone_meal"] = @ - 1] \in [Items -> Int]
  BY <1>2, <1>3, <1>5
<1>7. /\ t \in Sessions /\ t.be = s.be /\ t.drops = s.drops /\ t.gone = s.gone
      /\ t.notes = s.notes /\ t.ticked = s.ticked
      /\ t.spent = [s.spent EXCEPT !["bone_meal"] = @ - 1]
  BY <1>4, <1>6 DEF Sessions
<1> HIDE DEF t
<1>8. \A i \in Items : Weight(t, i) = Weight(s, i) - (IF i = "bone_meal" THEN 1 ELSE 0)
  <2> SUFFICES ASSUME NEW i \in Items
               PROVE Weight(t, i) = Weight(s, i) - (IF i = "bone_meal" THEN 1 ELSE 0) OBVIOUS
  <2>1. InCells(s.be, i) \in Nat /\ OnGround(Ground(s), i) \in Nat /\ s.spent[i] \in Int BY WeightParts
  <2>2. Ground(t) = Ground(s) /\ t.be = s.be BY <1>7 DEF Ground
  <2>3. t.spent[i] = s.spent[i] - (IF i = "bone_meal" THEN 1 ELSE 0) BY <1>3, <1>5, <1>7, <2>1
  <2> QED BY <2>1, <2>2, <2>3 DEF Weight
<1>9. Removes(s, t, source, StackAt(s, source, n).item) BY <1>1, <1>7, <1>8 DEF Removes
<1> QED BY <1>1, <1>3, <1>9 DEF t

LEMMA StackRemoves ==
  ASSUME StartTyped, NEW s \in Sessions, NEW source \in Refs, ~ IsComposter(source),
         NEW n \in Slots(source), StackAt(s, source, n).count > 0
  PROVE  /\ Removes(s, RemoveFromSlot(s, source, n), source, StackAt(s, source, n).item)
         /\ StackAt(s, source, n).item \in Items
<1> DEFINE t == RemoveFromSlot(s, source, n)
           p == PlaceOf(source, n)
           m == SlotIn(source, n)
           k == StackAt(s, source, n)
           less == IF k.count = 1 THEN NoStack ELSE [k EXCEPT !.count = @ - 1]
           b2 == [s.be EXCEPT ![p].slots[m] = less]
<1>0. s.be \in Worlds BY SessionFields
<1>1. p \in Places /\ p \in ToSet(source) /\ m \in 0 .. SlotCount[p] - 1 BY SlotPlaces
<1>2. k = s.be[p].slots[m] /\ k \in Stacks BY <1>0, StackThere
<1>3. t = [s EXCEPT !.be = b2] BY DEF RemoveFromSlot, SetStack
<1>4. k.item \in Items /\ k.count \in Nat BY <1>2, StackFields
<1>5. /\ less \in Stacks /\ less.count = k.count - 1 /\ (less.count > 0 => less.item = k.item)
      /\ \A i \in Items : Count(less, i) = Count(k, i) - (IF i = k.item THEN 1 ELSE 0)
  <2> HIDE DEF k
  <2> QED BY <1>2, <1>4, CountOfOneLess DEF k
<1> HIDE DEF less, p, m
<1>6. /\ b2 \in Worlds
      /\ b2[p].slots[m] = less /\ b2[p].cooldown = s.be[p].cooldown
      /\ \A q \in Places : \A j \in 0 .. SlotCount[q] - 1 :
           ~(q = p /\ j = m) => b2[q].slots[j] = s.be[q].slots[j]
      /\ \A q \in Places \ {p} : b2[q] = s.be[q]
      /\ \A i : InCells(b2, i) = InCells(s.be, i) + Count(less, i) - Count(s.be[p].slots[m], i)
  <2>1. IsSet(s.be, b2, p, m, less) BY DEF IsSet
  <2> HIDE DEF b2
  <2> QED BY <1>0, <1>1, <1>5, <2>1, OneCell
<1> HIDE DEF b2, k, t
<1>7. Restocked(s, t) /\ t.be = b2 BY <1>3, <1>6, Restocks
<1>8. Fits(s.be) => Fits(b2)
  <2> SUFFICES ASSUME Fits(s.be), NEW q \in Places, NEW j \in 0 .. SlotCount[q] - 1
               PROVE FitsAt(q, j, b2[q].slots[j]) BY DEF Fits
  <2>1. FitsAt(q, j, s.be[q].slots[j]) BY DEF Fits
  <2>2. CASE ~(q = p /\ j = m) BY <1>6, <2>1, <2>2
  <2>3. CASE q = p /\ j = m
    <3>1. FitsAt(p, m, k) /\ k.count > 0 BY <1>2, <2>1, <2>3 DEF k
    <3>2. FitsAt(p, m, less) BY <1>1, <1>2, <1>5, <3>1, FitsLess
    <3> QED BY <1>6, <2>3, <3>2
  <2> QED BY <2>2, <2>3
<1>9. \A q \in Places \ ToSet(source) : b2[q] = s.be[q] BY <1>1, <1>6
<1>10. \A i \in Items : Weight(t, i) = Weight(s, i) - (IF i = k.item THEN 1 ELSE 0)
  <2> SUFFICES ASSUME NEW i \in Items
               PROVE Weight(t, i) = Weight(s, i) - (IF i = k.item THEN 1 ELSE 0) OBVIOUS
  <2>1. InCells(s.be, i) \in Nat /\ OnGround(Ground(s), i) \in Nat /\ s.spent[i] \in Int BY WeightParts
  <2>2. Weight(t, i) = InCells(b2, i) + OnGround(Ground(s), i) + s.spent[i] BY <1>7, RestockedWeight
  <2>3. InCells(b2, i) = InCells(s.be, i) + Count(less, i) - Count(k, i) BY <1>2, <1>6
  <2>4. Count(less, i) = Count(k, i) - (IF i = k.item THEN 1 ELSE 0) BY <1>5
  <2>5. Count(k, i) \in Nat BY <1>2, CountNat
  <2> QED BY <2>1, <2>2, <2>3, <2>4, <2>5 DEF Weight
<1>11. \A q \in Places : b2[q].cooldown = s.be[q].cooldown BY <1>6
<1>12. \A q \in Places : Empty(s.be, q) => Empty(b2, q)
  <2> SUFFICES ASSUME NEW q \in Places, Empty(s.be, q) PROVE Empty(b2, q) OBVIOUS
  <2>1. q # p BY <1>1, <1>2 DEF Empty, k
  <2> QED BY <1>6, <2>1 DEF Empty
<1>13. Removes(s, t, source, k.item)
  BY <1>7, <1>8, <1>9, <1>10, <1>11, <1>12 DEF Removes, Restocked
<1> QED BY <1>4, <1>13 DEF t, k

LEMMA RemoveFacts ==
  ASSUME plan \in Plans, NEW s \in Sessions, NEW source, Known(source),
         NEW n \in Slots(source), StackAt(s, source, n).count > 0
  PROVE  /\ Removes(s, RemoveFromSlot(s, source, n), source, StackAt(s, source, n).item)
         /\ StackAt(s, source, n).item \in Items
<1>1. source \in Refs /\ StartTyped BY PlanStartTyped DEF Known
<1>2. CASE IsComposter(source) BY <1>2, ComposterRemoves
<1>3. CASE ~ IsComposter(source) BY <1>1, <1>3, StackRemoves
<1> QED BY <1>2, <1>3

-------------------------------------------------------------------------------
(* Transfers, and items that are taken from the ground.                     *)

Tries == [s : Sessions, ok : BOOLEAN]
Failed(s) == [s |-> s, ok |-> FALSE]

\* out: one item went from a container to another, or nothing changed.
Transfers(s, out, source, target) ==
  /\ out \in Tries /\ (~ out.ok => out.s = s)
  /\ Follows(s, out.s) /\ out.s.drops = s.drops /\ out.s.gone = s.gone
  /\ out.ok => ToSet(target) \subseteq out.s.notes
  /\ \A i \in Items : Weight(out.s, i) = Weight(s, i)
  /\ \A p \in Places \ (ToSet(source) \cup ToSet(target)) : out.s.be[p] = s.be[p]
  /\ \A p \in ToSet(source) : /\ out.s.be[p].cooldown = s.be[p].cooldown
                              /\ Empty(s.be, p) => Empty(out.s.be, p)
  /\ \A p \in ToSet(target) : Wakes(s, out.s, p, source)

\* Two containers that have no place in common.
Between(source, target) ==
  /\ Known(source) /\ Known(target) /\ ToSet(source) \cap ToSet(target) = {}

LEMMA NotifyFacts ==
  ASSUME NEW s \in Sessions, NEW ref \in Refs
  PROVE  LET t == Notify(s, ref)
         IN /\ t \in Sessions /\ t.be = s.be /\ t.level = s.level /\ t.drops = s.drops /\ t.gone = s.gone
            /\ t.ticked = s.ticked /\ t.spent = s.spent
            /\ t.notes = s.notes \cup ToSet(ref)
            /\ \A i : Weight(t, i) = Weight(s, i)
<1> DEFINE t == Notify(s, ref)
<1>1. ToSet(ref) \subseteq Places BY RefFacts
<1>2. /\ t \in Sessions /\ t.be = s.be /\ t.level = s.level /\ t.drops = s.drops /\ t.gone = s.gone
      /\ t.ticked = s.ticked /\ t.spent = s.spent /\ t.notes = s.notes \cup ToSet(ref)
  BY <1>1 DEF Sessions, Notify
<1> HIDE DEF t
<1>3. \A i : Weight(t, i) = Weight(s, i) BY <1>2 DEF Weight, Ground
<1>4. /\ t \in Sessions /\ t.be = s.be /\ t.level = s.level /\ t.drops = s.drops /\ t.gone = s.gone
      /\ t.ticked = s.ticked /\ t.spent = s.spent
      /\ t.notes = s.notes \cup ToSet(ref)
      /\ \A i : Weight(t, i) = Weight(s, i)
  BY <1>2, <1>3
<1> QED BY <1>4 DEF t

LEMMA FailedTransfers ==
  ASSUME NEW s \in Sessions, NEW source, NEW target, Between(source, target)
  PROVE  Transfers(s, Failed(s), source, target)
<1> DEFINE out == Failed(s)
<1>1. out.s = s /\ ~ out.ok /\ out \in Tries BY DEF Failed, Tries
<1> HIDE DEF out
<1>2. Follows(s, s) BY FollowsSelf
<1>3. \A p \in ToSet(target) : Wakes(s, s, p, source) BY DEF Wakes
<1>4. Transfers(s, out, source, target) BY <1>1, <1>2, <1>3 DEF Transfers
<1> QED BY <1>4 DEF out

\* One item was taken out of the source, and the target was offered it.
LEMMA OfferedTransfers ==
  ASSUME NEW s \in Sessions, NEW source, NEW target, Between(source, target), NEW item \in Items,
         NEW u, Removes(s, u, source, item), NEW out, Inserts(u, out, target, item, 1, source)
  PROVE  Transfers(s, Offered(Failed(s), target, out), source, target)
<1> DEFINE end == Offered(Failed(s), target, out)
<1>0. out.inserted \in 0 .. 1 BY DEF Inserts
<1>1. CASE out.inserted # 1
  <2>1. end = Failed(s) BY <1>1 DEF Offered, AfterRefusal, Failed
  <2> QED BY <2>1, FailedTransfers
<1>2. CASE out.inserted = 1
  <2> DEFINE v == out.s
             t == Notify(v, target)
  <2>1. end = [s |-> t, ok |-> TRUE] BY <1>2 DEF Offered
  <2>2. target \in Refs /\ u \in Sessions /\ v \in Sessions /\ ToSet(source) \cap ToSet(target) = {}
        /\ ToSet(target) \subseteq Places /\ ToSet(source) \subseteq Places
    <3>1. target \in Refs /\ source \in Refs BY DEF Between, Known
    <3> QED BY <3>1, RefFacts DEF Removes, Inserts, Follows, Between
  <2>3. /\ t \in Sessions /\ t.be = v.be /\ t.drops = v.drops /\ t.gone = v.gone
        /\ t.ticked = v.ticked /\ t.notes = v.notes \cup ToSet(target)
        /\ \A i : Weight(t, i) = Weight(v, i)
    BY <2>2, NotifyFacts
  <2>4. /\ u.ticked = s.ticked /\ u.notes = s.notes /\ u.drops = s.drops /\ u.gone = s.gone
        /\ Fits(s.be) => Fits(u.be)
        /\ \A p \in Places \ ToSet(source) : u.be[p] = s.be[p]
        /\ \A i \in Items : Weight(u, i) = Weight(s, i) - (IF i = item THEN 1 ELSE 0)
        /\ \A p \in Places : u.be[p].cooldown = s.be[p].cooldown /\ (Empty(s.be, p) => Empty(u.be, p))
    BY DEF Removes
  <2>5. /\ v.ticked = u.ticked /\ u.notes \subseteq v.notes /\ v.drops = u.drops /\ v.gone = u.gone
        /\ Fits(u.be) => Fits(v.be)
        /\ \A p \in Places \ ToSet(target) : v.be[p] = u.be[p]
        /\ \A i \in Items : Weight(v, i) = Weight(u, i) + (IF i = item THEN 1 ELSE 0)
        /\ \A p \in ToSet(target) : Wakes(u, v, p, source)
    BY <1>2 DEF Inserts, Follows
  <2> HIDE DEF v, t
  <2>6. Follows(s, t) BY <2>3, <2>4, <2>5 DEF Follows
  <2>7. \A i \in Items : Weight(t, i) = Weight(s, i)
    <3> SUFFICES ASSUME NEW i \in Items PROVE Weight(t, i) = Weight(s, i) OBVIOUS
    <3>1. Weight(s, i) \in Int BY WeightParts
    <3>2. Weight(u, i) = Weight(s, i) - (IF i = item THEN 1 ELSE 0) BY <2>4
    <3>3. Weight(v, i) = Weight(u, i) + (IF i = item THEN 1 ELSE 0) BY <2>5
    <3>4. Weight(t, i) = Weight(v, i) BY <2>3
    <3> QED BY <3>1, <3>2, <3>3, <3>4
  <2>8. \A p \in Places \ (ToSet(source) \cup ToSet(target)) : t.be[p] = s.be[p] BY <2>3, <2>4, <2>5
  <2>9. \A p \in ToSet(source) : t.be[p].cooldown = s.be[p].cooldown /\ (Empty(s.be, p) => Empty(t.be, p))
    <3> SUFFICES ASSUME NEW p \in ToSet(source)
                 PROVE t.be[p].cooldown = s.be[p].cooldown /\ (Empty(s.be, p) => Empty(t.be, p)) OBVIOUS
    <3>1. p \in Places /\ p \notin ToSet(target) BY <2>2
    <3>2. t.be[p] = u.be[p] BY <2>3, <2>5, <3>1
    <3>3. Empty(u.be, p) <=> Empty(t.be, p) BY <3>2 DEF Empty
    <3> QED BY <2>4, <3>1, <3>2, <3>3
  <2>10. \A p \in ToSet(target) : Wakes(s, t, p, source)
    <3> SUFFICES ASSUME NEW p \in ToSet(target) PROVE Wakes(s, t, p, source) OBVIOUS
    <3>1. p \in Places /\ p \notin ToSet(source) BY <2>2
    <3>2. u.be[p] = s.be[p] BY <2>4, <3>1
    <3>3. Empty(u.be, p) <=> Empty(s.be, p) BY <3>2 DEF Empty
    <3>4. SkipsTick(u, p, source) = SkipsTick(s, p, source) BY <2>4, SkipsSame
    <3>5. Wakes(u, v, p, source) BY <2>5
    <3> QED BY <2>3, <3>2, <3>3, <3>4, <3>5 DEF Wakes
  <2>11. end \in Tries /\ end.ok /\ end.s = t BY <2>1, <2>3 DEF Tries
  <2> HIDE DEF end
  <2>12. Transfers(s, end, source, target)
    BY <2>3, <2>4, <2>5, <2>6, <2>7, <2>8, <2>9, <2>10, <2>11 DEF Transfers
  <2> QED BY <2>12 DEF end
<1> QED BY <1>1, <1>2

LEMMA AttemptTransfers ==
  ASSUME plan \in Plans, NEW s \in Sessions, NEW source, NEW target, Between(source, target), NEW n,
         NEW sourceFace \in Faces, NEW targetFace \in Faces, NEW lucky \in BOOLEAN
  PROVE  Transfers(s, Attempt(Failed(s), source, target, n, sourceFace, targetFace, lucky), source, target)
<1> DEFINE end == Attempt(Failed(s), source, target, n, sourceFace, targetFace, lucky)
           k == StackAt(s, source, n)
           u == RemoveFromSlot(s, source, n)
           out == InsertStack(u, target, k.item, 1, targetFace, source, lucky)
<1>1. Failed(s).s = s /\ Failed(s).ok = FALSE BY DEF Failed
<1>2. CASE n \notin Slots(source) \/ k.count = 0 \/ ~ CanTake(s, source, target, n, sourceFace)
  <2>1. end = Failed(s) BY <1>1, <1>2 DEF Attempt
  <2> QED BY <2>1, FailedTransfers
<1>3. CASE n \in Slots(source) /\ k.count # 0 /\ CanTake(s, source, target, n, sourceFace)
  <2>1. end = Offered(Failed(s), target, out) BY <1>1, <1>3 DEF Attempt
  <2>2. k.count > 0
    <3>1. Known(source) /\ source \in Refs BY DEF Between, Known
    <3>2. k.count \in Nat
      <4>1. CASE IsComposter(source) BY <4>1 DEF StackAt, NoStack
      <4>2. CASE ~ IsComposter(source)
        <5>1. s.be \in Worlds BY SessionFields
        <5>2. k \in Stacks BY <1>3, <3>1, <4>2, <5>1, StackThere
        <5> HIDE DEF k
        <5> QED BY <5>2, StackFields
      <4> QED BY <4>1, <4>2
    <3> HIDE DEF k
    <3> QED BY <1>3, <3>2
  <2>3. Removes(s, u, source, k.item) /\ k.item \in Items
    BY <1>3, <2>2, RemoveFacts DEF Between
  <2>4. u \in Sessions /\ Known(target) BY <2>3 DEF Removes, Between
  <2> HIDE DEF u, k
  <2>5. Inserts(u, out, target, k.item, 1, source) BY <2>3, <2>4, InsertFacts
  <2> HIDE DEF out, end
  <2>6. Transfers(s, end, source, target) BY <2>1, <2>3, <2>5, OfferedTransfers
  <2> QED BY <2>6 DEF end
<1> QED BY <1>2, <1>3

LEMMA TransferFacts ==
  ASSUME plan \in Plans, NEW s \in Sessions, NEW source, NEW target, Between(source, target),
         NEW sourceFace \in Faces, NEW targetFace \in Faces, NEW lucky \in BOOLEAN
  PROVE  Transfers(s, TransferOne(s, source, target, sourceFace, targetFace, lucky), source, target)
<1> DEFINE slots == SlotsForFace(s, source, sourceFace)
           n == Len(slots)
           att(a, i) == Attempt(a, source, target, slots[i], sourceFace, targetFace, lucky)
           step == [i \in 1 .. n |-> [a \in Tries |-> att(a, i)]]
           P(tried) == tried = [i \in 0 .. n |->
             IF i = 0 THEN [s |-> s, ok |-> FALSE] ELSE att(tried[i - 1], i)]
<1>1. n \in Nat
  <2>1. CASE IsComposter(source)
    <3>1. slots \in {<<>>, <<0>>} BY <2>1 DEF SlotsForFace
    <3> QED BY <3>1
  <2>2. CASE ~ IsComposter(source)
    <3>1. source \in Refs BY DEF Between, Known
    <3>2. Size(source) \in Nat BY <2>2, <3>1, SlotPlaces
    <3>3. slots \in Seq(Nat) BY <3>2, FaceSlotsApart
    <3> QED BY <3>3
  <2> QED BY <2>1, <2>2
<1>2. \A a \in Tries, i \in 1 .. n : /\ a.ok => att(a, i) = a
                                     /\ ~ a.ok => a = Failed(a.s) /\ Transfers(a.s, att(a, i), source, target)
                                     /\ att(a, i) \in Tries
  <2> SUFFICES ASSUME NEW a \in Tries, NEW i \in 1 .. n
               PROVE  /\ a.ok => att(a, i) = a
                      /\ ~ a.ok => a = Failed(a.s) /\ Transfers(a.s, att(a, i), source, target)
                      /\ att(a, i) \in Tries
    OBVIOUS
  <2>1. a.s \in Sessions /\ a.ok \in BOOLEAN /\ a = [s |-> a.s, ok |-> a.ok] BY DEF Tries
  <2>2. CASE a.ok
    <3>1. att(a, i) = a BY <2>2 DEF Attempt
    <3> QED BY <2>2, <3>1
  <2>3. CASE ~ a.ok
    <3>1. a = Failed(a.s) BY <2>1, <2>3 DEF Failed
    <3> DEFINE r == a.s
    <3>2. Transfers(r, att(Failed(r), i), source, target) BY <2>1, AttemptTransfers
    <3>3. Transfers(a.s, att(a, i), source, target) BY <3>1, <3>2
    <3> QED BY <2>3, <3>1, <3>3 DEF Transfers
  <2> QED BY <2>1, <2>2, <2>3
<1> HIDE DEF att
<1>3. step \in [1 .. n -> [Tries -> Tries]] BY <1>2
<1>4. Failed(s) \in Tries BY DEF Failed, Tries
<1>5. \E f : IsRecursion(f, n, Tries, Failed(s), step)
  <2> HIDE DEF step, n
  <2> QED BY <1>1, <1>3, <1>4, RecursionExists
<1>6. PICK f : IsRecursion(f, n, Tries, Failed(s), step) BY <1>5
<1>7. /\ f \in [0 .. n -> Tries] /\ f[0] = Failed(s)
      /\ \A i \in 1 .. n : f[i] = step[i][f[i - 1]]
  BY <1>6 DEF IsRecursion
<1>8. \A i \in 1 .. n : f[i] = att(f[i - 1], i)
  <2> SUFFICES ASSUME NEW i \in 1 .. n PROVE f[i] = att(f[i - 1], i) OBVIOUS
  <2>1. i - 1 \in 0 .. n BY <1>1
  <2>2. f[i - 1] \in Tries BY <1>7, <2>1
  <2>3. step[i] = [a \in Tries |-> att(a, i)] OBVIOUS
  <2>4. f[i] = step[i][f[i - 1]] BY <1>7
  <2> HIDE DEF step, n
  <2> QED BY <2>2, <2>3, <2>4
<1>9. P(f)
  <2>1. f = [i \in 0 .. n |-> f[i]] BY <1>7
  <2>2. \A i \in 0 .. n : f[i] = IF i = 0 THEN [s |-> s, ok |-> FALSE] ELSE att(f[i - 1], i)
    BY <1>7, <1>8 DEF Failed
  <2> HIDE DEF n, step
  <2> QED BY <2>1, <2>2
<1> DEFINE tried == CHOOSE tried : P(tried)
<1>10. TransferOne(s, source, target, sourceFace, targetFace, lucky) = tried[n] BY DEF TransferOne, att
<1>11. P(tried) BY <1>9
<1> HIDE DEF tried
<1>12. tried[0] = Failed(s) BY <1>1, <1>11 DEF Failed
<1>13. \A i \in 1 .. n : tried[i] = att(tried[i - 1], i)
  <2> SUFFICES ASSUME NEW i \in 1 .. n PROVE tried[i] = att(tried[i - 1], i) OBVIOUS
  <2>1. i \in 0 .. n /\ i # 0 BY <1>1
  <2> HIDE DEF n
  <2> QED BY <1>11, <2>1
<1> DEFINE T == {i \in 0 .. n : Transfers(s, tried[i], source, target)}
<1>14. 0 \in T BY <1>1, <1>12, FailedTransfers
<1>15. \A i \in 0 .. n - 1 : i \in T => i + 1 \in T
  <2> SUFFICES ASSUME NEW i \in 0 .. n - 1, Transfers(s, tried[i], source, target)
               PROVE i + 1 \in 0 .. n /\ Transfers(s, tried[i + 1], source, target)
    OBVIOUS
  <2>1. i + 1 \in 1 .. n /\ i + 1 \in 0 .. n /\ (i + 1) - 1 = i BY <1>1
  <2>2. tried[i + 1] = att(tried[i], i + 1) BY <1>13, <2>1
  <2> DEFINE a == tried[i]
  <2>3. a \in Tries /\ (~ a.ok => a.s = s) BY DEF Transfers
  <2> HIDE DEF n, a
  <2>4. CASE a.ok
    <3>1. att(a, i + 1) = a BY <1>2, <2>1, <2>3, <2>4
    <3> QED BY <2>1, <2>2, <3>1 DEF a
  <2>5. CASE ~ a.ok
    <3>1. Transfers(s, att(a, i + 1), source, target) BY <1>2, <2>1, <2>3, <2>5
    <3> QED BY <2>1, <2>2, <3>1 DEF a
  <2> QED BY <2>3, <2>4, <2>5 DEF Tries
<1>16. 0 .. n \subseteq T
  <2> HIDE DEF T, n
  <2> QED BY <1>1, <1>14, <1>15, UpTo
<1>17. Transfers(s, tried[n], source, target)
  <2>1. n \in T BY <1>1, <1>16
  <2> QED BY <2>1
<1> QED BY <1>10, <1>17

\* out: items on the ground went into a container.
Absorbs(s, out, ref) ==
  /\ out \in Tries /\ (~ out.ok => out.s.gone = {})
  /\ Follows(s, out.s)
  /\ \A i \in Items : Weight(out.s, i) = Weight(s, i)
  /\ \A p \in Places : out.s.be[p].slots # s.be[p].slots => p \in out.s.notes
  /\ \A p \in Places \ ToSet(ref) : out.s.be[p] = s.be[p]
  /\ \A p \in ToSet(ref) : /\ Empty(out.s.be, p) => Empty(s.be, p)
                           /\ \/ out.s.be[p].cooldown = s.be[p].cooldown
                              \/ Empty(s.be, p) /\ ~ Empty(out.s.be, p)

LEMMA AbsorbsNothing ==
  ASSUME NEW a \in Tries, a.s.gone = {}, NEW ref
  PROVE  Absorbs(a.s, a, ref)
BY FollowsSelf DEF Absorbs, Tries

LEMMA AbsorbsOn ==
  ASSUME NEW s, NEW a, NEW b, NEW ref \in Refs, Absorbs(s, a, ref), Absorbs(a.s, b, ref)
  PROVE  Absorbs(s, b, ref)
<1>1. Follows(s, b.s) BY DEF Absorbs, Follows
<1>2. \A p \in Places : b.s.be[p].slots # s.be[p].slots => p \in b.s.notes BY DEF Absorbs, Follows
<1>3. \A p \in ToSet(ref) : /\ Empty(b.s.be, p) => Empty(s.be, p)
                            /\ \/ b.s.be[p].cooldown = s.be[p].cooldown
                               \/ Empty(s.be, p) /\ ~ Empty(b.s.be, p)
  BY DEF Absorbs
<1> QED BY <1>1, <1>2, <1>3 DEF Absorbs

\* One stack on the ground is not as before.
LEMMA OneDropOff ==
  ASSUME NEW d \in [Drops -> Stacks], NEW d2 \in [Drops -> Stacks], NEW e \in Drops,
         \A x \in Drops \ {e} : d2[x] = d[x], NEW i
  PROVE  OnGround(d2, i) = OnGround(d, i) + Count(d2[e], i) - Count(d[e], i)
<1> DEFINE f == [x \in Drops |-> Count(d[x], i)]
           g == [x \in Drops |-> Count(d2[x], i)]
<1>0. IsFiniteSet(Drops) BY PlansAssumption DEF PlansAssumption
<1>1. \A x \in Drops : f[x] \in Int /\ g[x] \in Int BY CountNat
<1>2. \A x \in Drops \ {e} : g[x] = f[x] OBVIOUS
<1>3. f[e] = Count(d[e], i) /\ g[e] = Count(d2[e], i) OBVIOUS
<1>4. OnGround(d2, i) = SumFunctionOnSet(g, Drops) /\ OnGround(d, i) = SumFunctionOnSet(f, Drops)
  BY DEF OnGround
<1> HIDE DEF f, g
<1>5. SumFunctionOnSet(g, Drops) = SumFunctionOnSet(f, Drops) + (g[e] - f[e])
  BY <1>0, <1>1, <1>2, SumChange
<1>6. SumFunctionOnSet(f, Drops) \in Int BY <1>0, <1>1, SumInt
<1>7. g[e] \in Int /\ f[e] \in Int BY <1>1
<1>8. SumFunctionOnSet(f, Drops) + (g[e] - f[e]) = SumFunctionOnSet(f, Drops) + g[e] - f[e]
  BY <1>6, <1>7
<1> QED BY <1>3, <1>4, <1>5, <1>8

\* Of the stack of entity e, so much went into the container.
LEMMA AbsorbedFacts ==
  ASSUME NEW a \in Tries, ~ a.ok, a.s.gone = {}, NEW ref, Known(ref), NEW e \in Drops,
         a.s.drops[e].count > 0, NEW out,
         Inserts(a.s, out, ref, a.s.drops[e].item, a.s.drops[e].count, <<>>)
  PROVE  Absorbs(a.s, Absorbed(a, ref, e, out), ref)
<1> DEFINE s == a.s
           k == s.drops[e]
           left == k.count - out.inserted
           t == Notify(out.s, ref)
           fully == [t EXCEPT !.gone = @ \cup {e}]
           partly == [t EXCEPT !.drops[e].count = left]
           end == Absorbed(a, ref, e, out)
           u == IF left = 0 THEN fully ELSE partly
<1>0. s \in Sessions /\ ref \in Refs BY DEF Tries, Known
<1>1. s.drops \in [Drops -> Stacks] /\ k \in Stacks BY <1>0, SessionFields
<1>2. k.item \in Items /\ k.count \in Nat /\ k = [item |-> k.item, count |-> k.count]
  <2> HIDE DEF k
  <2>1. k.count > 0 /\ k # NoStack BY DEF k, NoStack
  <2> QED BY <1>1, <2>1, StackFields DEF Stacks
<1>3. out.inserted \in 0 .. k.count BY DEF Inserts
<1>4. CASE out.inserted = 0
  <2>1. end = a BY <1>4 DEF Absorbed
  <2> QED BY <2>1, AbsorbsNothing
<1>5. CASE out.inserted # 0
  <2>1. /\ out.s \in Sessions /\ out.s.ticked = s.ticked /\ s.notes \subseteq out.s.notes
        /\ Fits(s.be) => Fits(out.s.be)
        /\ out.s.drops = s.drops /\ out.s.gone = s.gone /\ out.s.notes = s.notes
        /\ \A p \in Places \ ToSet(ref) : out.s.be[p] = s.be[p]
        /\ \A i \in Items : Weight(out.s, i) = Weight(s, i) + (IF i = k.item THEN out.inserted ELSE 0)
        /\ \A p \in ToSet(ref) : Wakes(s, out.s, p, <<>>)
        /\ \A p \in Places : Empty(out.s.be, p) => Empty(s.be, p)
    BY DEF Inserts, Follows
  <2>2. /\ t \in Sessions /\ t.be = out.s.be /\ t.level = out.s.level /\ t.drops = out.s.drops
        /\ t.gone = out.s.gone /\ t.ticked = out.s.ticked /\ t.spent = out.s.spent
        /\ t.notes = out.s.notes \cup ToSet(ref)
        /\ \A i : Weight(t, i) = Weight(out.s, i)
    BY <1>0, <2>1, NotifyFacts
  <2>3. left \in Nat /\ left < k.count /\ (left # 0 => left \in Nat \ {0})
    <3> HIDE DEF k
    <3> QED BY <1>2, <1>3, <1>5
  <2>4. end = [s |-> u, ok |-> left = 0]
    BY <1>5 DEF Absorbed
  <2> HIDE DEF t, left, end
  <2>5. /\ fully \in Sessions /\ fully.be = t.be /\ fully.drops = t.drops /\ fully.gone = {e}
        /\ fully.ticked = t.ticked /\ fully.spent = t.spent /\ fully.notes = t.notes
    BY <2>1, <2>2 DEF Sessions
  <2>6. left # 0 => /\ partly \in Sessions /\ partly.be = t.be /\ partly.gone = {}
                    /\ partly.drops = [s.drops EXCEPT ![e] = [item |-> k.item, count |-> left]]
                    /\ partly.ticked = t.ticked /\ partly.spent = t.spent /\ partly.notes = t.notes
    <3> SUFFICES ASSUME left # 0 PROVE
                    /\ partly \in Sessions /\ partly.be = t.be /\ partly.gone = {}
                    /\ partly.drops = [s.drops EXCEPT ![e] = [item |-> k.item, count |-> left]]
                    /\ partly.ticked = t.ticked /\ partly.spent = t.spent /\ partly.notes = t.notes
      OBVIOUS
    <3>1. [item |-> k.item, count |-> left] \in Stacks BY <1>2, <2>3, IsStack
    <3>2. t.drops = s.drops /\ t.gone = {} BY <2>1, <2>2
    <3> DEFINE d2 == [t.drops EXCEPT ![e].count = left]
    <3>3. d2 = [s.drops EXCEPT ![e] = [item |-> k.item, count |-> left]]
      BY <1>1, <1>2, <3>2
    <3>4. d2 \in [Drops -> Stacks] BY <1>1, <3>1, <3>3
    <3>5. partly = [t EXCEPT !.drops = d2] OBVIOUS
    <3> HIDE DEF d2, partly
    <3> QED BY <2>2, <3>2, <3>3, <3>4, <3>5 DEF Sessions
  <2> HIDE DEF fully, partly
  <2>7. /\ u \in Sessions /\ u.be = out.s.be /\ u.ticked = s.ticked /\ u.spent = out.s.spent
        /\ u.notes = s.notes \cup ToSet(ref)
        /\ left # 0 => u.gone = {}
    BY <2>1, <2>2, <2>5, <2>6
  <2>8. ASSUME NEW i \in Items PROVE Weight(u, i) = Weight(s, i)
    <3> DEFINE d == s.drops
               d2 == Ground(u)
               now == Count(d2[e], i)
               before == Count(k, i)
    <3>1. Ground(s) = d /\ Ground(out.s) = d BY <1>1, <2>1 DEF Ground
    <3>2. d2 \in [Drops -> Stacks]
      <4>1. u.drops \in [Drops -> Stacks] BY <2>7, SessionFields
      <4> QED BY <4>1 DEF Ground, Stacks
    <3>3. /\ \A x \in Drops \ {e} : d2[x] = d[x]
          /\ d2[e] = IF left = 0 THEN NoStack ELSE [item |-> k.item, count |-> left]
      <4>1. CASE left = 0
        <5>1. u.gone = {e} /\ u.drops = d BY <2>1, <2>2, <2>5, <4>1
        <5> QED BY <4>1, <5>1 DEF Ground
      <4>2. CASE left # 0
        <5>1. u.gone = {} /\ u.drops = [d EXCEPT ![e] = [item |-> k.item, count |-> left]]
          BY <2>6, <4>2
        <5> QED BY <1>1, <4>2, <5>1 DEF Ground
      <4> QED BY <4>1, <4>2
    <3>4. OnGround(d2, i) = OnGround(d, i) + now - before
      BY <1>1, <3>2, <3>3, OneDropOff
    <3>5. i # "none" BY ContainersAssumption DEF ContainersAssumption
    <3>6. now - before = IF i = k.item THEN left - k.count ELSE 0
      <4>1. before = IF i = k.item THEN k.count ELSE 0 BY DEF Count
      <4>2. now = IF i = k.item THEN left ELSE 0 BY <3>3, <3>5 DEF Count, NoStack
      <4> HIDE DEF now, before, k
      <4> QED BY <1>2, <2>3, <4>1, <4>2
    <3>7. now \in Int /\ before \in Int BY <1>1, <3>2, CountNat
    <3>8. /\ InCells(out.s.be, i) \in Nat /\ OnGround(d, i) \in Nat /\ out.s.spent[i] \in Int
          /\ Weight(s, i) \in Int
      BY <1>0, <2>1, <3>1, WeightParts
    <3>9. Weight(out.s, i) = Weight(s, i) + (IF i = k.item THEN out.inserted ELSE 0) BY <2>1
    <3>10. Weight(out.s, i) = InCells(out.s.be, i) + OnGround(d, i) + out.s.spent[i]
      BY <3>1 DEF Weight
    <3>11. Weight(u, i) = InCells(out.s.be, i) + OnGround(d2, i) + out.s.spent[i]
      BY <2>7 DEF Weight
    <3>12. left - k.count = - out.inserted
      <4> HIDE DEF k
      <4> QED BY <1>2, <1>3 DEF left
    <3>13. out.inserted \in Int BY <1>3
    <3> HIDE DEF now, before, d, d2, k, s, u
    <3>14. CASE i = k.item
      <4>1. now - before = - out.inserted /\ Weight(out.s, i) = Weight(s, i) + out.inserted
        BY <3>6, <3>9, <3>12, <3>14
      <4>2. OnGround(d2, i) = OnGround(d, i) - out.inserted BY ONLY <3>4, <3>7, <3>8, <3>13, <4>1
      <4>3. Weight(s, i) = InCells(out.s.be, i) + OnGround(d, i) + out.s.spent[i] - out.inserted
        BY ONLY <3>8, <3>10, <3>13, <4>1
      <4> QED BY ONLY <3>8, <3>11, <3>13, <4>2, <4>3
    <3>15. CASE i # k.item
      <4>1. now - before = 0 /\ Weight(out.s, i) = Weight(s, i) + 0
        BY <3>6, <3>9, <3>15
      <4> QED BY <3>4, <3>7, <3>8, <3>10, <3>11, <4>1
    <3> QED BY <3>14, <3>15
  <2>9. Follows(s, u) BY <2>1, <2>7 DEF Follows
  <2>10. \A p \in Places : u.be[p].slots # s.be[p].slots => p \in u.notes BY <2>1, <2>7
  <2>11. \A p \in ToSet(ref) : \/ u.be[p].cooldown = s.be[p].cooldown
                               \/ Empty(s.be, p) /\ ~ Empty(u.be, p)
    BY <2>1, <2>7 DEF Wakes
  <2>12. end.s = u /\ (end.ok <=> left = 0) /\ end \in Tries BY <2>4, <2>7 DEF Tries
  <2>13. ToSet(ref) \subseteq Places BY <1>0, RefFacts
  <2> HIDE DEF u, s
  <2>14. Absorbs(s, end, ref)
    BY <2>1, <2>7, <2>8, <2>9, <2>10, <2>11, <2>12, <2>13 DEF Absorbs
  <2> QED BY <2>14 DEF end, s
<1> QED BY <1>4, <1>5

LEMMA AbsorbOneFacts ==
  ASSUME NEW a \in Tries, ~ a.ok => a.s.gone = {}, NEW ref, Known(ref), NEW e \in Drops, NEW lucky \in BOOLEAN
  PROVE  /\ a.ok => AbsorbOne(a, ref, e, lucky) = a
         /\ ~ a.ok => Absorbs(a.s, AbsorbOne(a, ref, e, lucky), ref)
<1> DEFINE k == a.s.drops[e]
           out == InsertStack(a.s, ref, k.item, k.count, "none", <<>>, lucky)
           end == AbsorbOne(a, ref, e, lucky)
<1>0. a.s \in Sessions /\ a.ok \in BOOLEAN BY DEF Tries
<1>1. a.ok => end = a BY DEF AbsorbOne
<1>2. CASE ~ a.ok /\ k.count = 0
  <2>1. end = a BY <1>2 DEF AbsorbOne
  <2> QED BY <1>2, <2>1, AbsorbsNothing
<1>3. CASE ~ a.ok /\ k.count # 0
  <2>1. end = Absorbed(a, ref, e, out) BY <1>3 DEF AbsorbOne
  <2>2. a.s.drops \in [Drops -> Stacks] BY <1>0, SessionFields
  <2>3. k \in Stacks BY <2>2
  <2>4. k.count \in Nat \ {0} /\ k.item \in Items /\ k.count > 0
    <3> HIDE DEF k
    <3> QED BY <1>3, <2>3, StackFields
  <2>5. "none" \in Faces BY DEF Faces
  <2> DEFINE count == k.count
             item == k.item
  <2>7. count \in Nat \ {0} /\ item \in Items BY <2>4
  <2>8. out = InsertStack(a.s, ref, item, count, "none", <<>>, lucky) OBVIOUS
  <2> HIDE DEF out, item, count
  <2>9. Inserts(a.s, out, ref, item, count, <<>>) BY <1>0, <2>5, <2>7, <2>8, InsertFacts
  <2>10. Inserts(a.s, out, ref, a.s.drops[e].item, a.s.drops[e].count, <<>>) BY <2>9 DEF item, count
  <2>11. Absorbs(a.s, Absorbed(a, ref, e, out), ref) BY <1>3, <2>4, <2>10, AbsorbedFacts
  <2> QED BY <1>3, <2>1, <2>11
<1> QED BY <1>0, <1>1, <1>2, <1>3

LEMMA AbsorbFacts ==
  ASSUME NEW s \in Sessions, s.gone = {}, NEW ref, Known(ref), NEW items \in Seq(Drops), NEW lucky \in BOOLEAN
  PROVE  Absorbs(s, AbsorbEntities(s, ref, items, lucky), ref)
<1> DEFINE n == Len(items)
           A == {a \in Tries : ~ a.ok => a.s.gone = {}}
           att(a, i) == AbsorbOne(a, ref, items[i], lucky)
           step == [i \in 1 .. n |-> [a \in A |-> att(a, i)]]
           P(taken) == taken = [i \in 0 .. n |->
             IF i = 0 THEN [s |-> s, ok |-> FALSE] ELSE att(taken[i - 1], i)]
<1>1. n \in Nat /\ \A i \in 1 .. n : items[i] \in Drops OBVIOUS
<1>2. \A a \in A, i \in 1 .. n : /\ a.ok => att(a, i) = a
                                 /\ ~ a.ok => Absorbs(a.s, att(a, i), ref)
                                 /\ att(a, i) \in A
  <2> SUFFICES ASSUME NEW a \in A, NEW i \in 1 .. n
               PROVE  /\ a.ok => att(a, i) = a
                      /\ ~ a.ok => Absorbs(a.s, att(a, i), ref)
                      /\ att(a, i) \in A
    OBVIOUS
  <2>1. a \in Tries /\ (~ a.ok => a.s.gone = {}) /\ items[i] \in Drops BY <1>1
  <2>2. /\ a.ok => att(a, i) = a
        /\ ~ a.ok => Absorbs(a.s, att(a, i), ref)
    BY <2>1, AbsorbOneFacts
  <2> HIDE DEF att
  <2>3. ~ a.ok => att(a, i) \in A BY <2>2 DEF Absorbs
  <2>4. a.ok \in BOOLEAN BY DEF Tries
  <2> QED BY <2>2, <2>3, <2>4
<1> HIDE DEF att
<1>3. step \in [1 .. n -> [A -> A]] BY <1>2
<1>4. Failed(s) \in A BY DEF Failed, Tries
<1>5. \E f : IsRecursion(f, n, A, Failed(s), step)
  <2> HIDE DEF step, n, A
  <2> QED BY <1>1, <1>3, <1>4, RecursionExists
<1>6. PICK f : IsRecursion(f, n, A, Failed(s), step) BY <1>5
<1>7. /\ f \in [0 .. n -> A] /\ f[0] = Failed(s)
      /\ \A i \in 1 .. n : f[i] = step[i][f[i - 1]]
  BY <1>6 DEF IsRecursion
<1>8. \A i \in 1 .. n : f[i] = att(f[i - 1], i)
  <2> SUFFICES ASSUME NEW i \in 1 .. n PROVE f[i] = att(f[i - 1], i) OBVIOUS
  <2>1. i - 1 \in 0 .. n BY <1>1
  <2>2. f[i - 1] \in A BY <1>7, <2>1
  <2>3. step[i] = [a \in A |-> att(a, i)] OBVIOUS
  <2>4. f[i] = step[i][f[i - 1]] BY <1>7
  <2> HIDE DEF step, n, A
  <2> QED BY <2>2, <2>3, <2>4
<1>9. P(f)
  <2>1. f = [i \in 0 .. n |-> f[i]] BY <1>7
  <2>2. \A i \in 0 .. n : f[i] = IF i = 0 THEN [s |-> s, ok |-> FALSE] ELSE att(f[i - 1], i)
    BY <1>7, <1>8 DEF Failed
  <2> HIDE DEF n, step, A
  <2> QED BY <2>1, <2>2
<1> DEFINE taken == CHOOSE taken : P(taken)
<1>10. AbsorbEntities(s, ref, items, lucky) = taken[n] BY DEF AbsorbEntities, att
<1>11. P(taken) BY <1>9
<1> HIDE DEF taken
<1>12. taken[0] = Failed(s) BY <1>1, <1>11 DEF Failed
<1>13. \A i \in 1 .. n : taken[i] = att(taken[i - 1], i)
  <2> SUFFICES ASSUME NEW i \in 1 .. n PROVE taken[i] = att(taken[i - 1], i) OBVIOUS
  <2>1. i \in 0 .. n /\ i # 0 BY <1>1
  <2> HIDE DEF n
  <2> QED BY <1>11, <2>1
<1> DEFINE T == {i \in 0 .. n : Absorbs(s, taken[i], ref)}
<1>14. 0 \in T
  <2>1. Failed(s) \in Tries /\ Failed(s).s = s BY <1>4 DEF Failed
  <2>2. Absorbs(s, Failed(s), ref) BY <2>1, AbsorbsNothing
  <2> QED BY <1>1, <1>12, <2>2
<1>15. \A i \in 0 .. n - 1 : i \in T => i + 1 \in T
  <2> SUFFICES ASSUME NEW i \in 0 .. n - 1, Absorbs(s, taken[i], ref)
               PROVE i + 1 \in 0 .. n /\ Absorbs(s, taken[i + 1], ref)
    OBVIOUS
  <2>1. i + 1 \in 1 .. n /\ i + 1 \in 0 .. n /\ (i + 1) - 1 = i BY <1>1
  <2>2. taken[i + 1] = att(taken[i], i + 1) BY <1>13, <2>1
  <2> DEFINE a == taken[i]
  <2>3. a \in A BY DEF Absorbs
  <2>4. ref \in Refs BY DEF Known
  <2>5. Absorbs(s, a, ref) OBVIOUS
  <2> HIDE DEF n, a, A
  <2>6. CASE a.ok
    <3>1. att(a, i + 1) = a BY <1>2, <2>1, <2>3, <2>6
    <3> QED BY <2>1, <2>2, <2>5, <3>1 DEF a
  <2>7. CASE ~ a.ok
    <3>1. Absorbs(a.s, att(a, i + 1), ref) BY <1>2, <2>1, <2>3, <2>7
    <3>2. Absorbs(s, att(a, i + 1), ref) BY <2>4, <2>5, <3>1, AbsorbsOn
    <3> QED BY <2>1, <2>2, <3>2 DEF a
  <2> QED BY <2>6, <2>7
<1>16. 0 .. n \subseteq T
  <2> HIDE DEF T, n
  <2> QED BY <1>1, <1>14, <1>15, UpTo
<1>17. Absorbs(s, taken[n], ref)
  <2>1. n \in T BY <1>1, <1>16
  <2> QED BY <2>1
<1> QED BY <1>10, <1>17

From(source) == IF source = NoRef THEN {} ELSE ToSet(source)

\* out: items came into h from a container or from the ground.
Pulls(s, out, source, h) ==
  /\ out \in Tries /\ (~ out.ok => out.s.gone = {})
  /\ Follows(s, out.s)
  /\ \A i \in Items : Weight(out.s, i) = Weight(s, i)
  /\ \A p \in Places : out.s.be[p].slots # s.be[p].slots => p \in out.s.notes
  /\ \A p \in Places \ ({h} \cup From(source)) : out.s.be[p] = s.be[p]
  /\ \A p \in Places \ {h} : /\ out.s.be[p].cooldown = s.be[p].cooldown
                             /\ Empty(s.be, p) => Empty(out.s.be, p)
  /\ ~ out.ok => \/ out.s.be[h].cooldown = s.be[h].cooldown
                 \/ Empty(s.be, h) /\ ~ Empty(out.s.be, h)

LEMMA OneOf ==
  ASSUME NEW h \in Places
  PROVE  <<h>> \in Refs /\ ToSet(<<h>>) = {h} /\ KindOf(<<h>>) = Kind[h]
<1>1. <<h>> \in Refs BY DEF Refs, Single
<1>2. DOMAIN <<h>> = {1} /\ <<h>>[1] = h OBVIOUS
<1>3. ToSet(<<h>>) = {h} BY <1>2 DEF ToSet
<1> QED BY <1>1, <1>3 DEF KindOf

LEMMA AbsorbPulls ==
  ASSUME NEW s \in Sessions, NEW out, NEW h \in Places, Absorbs(s, out, <<h>>), NEW source
  PROVE  Pulls(s, out, source, h)
<1>1. ToSet(<<h>>) = {h} BY OneOf
<1>2. \A p \in Places \ {h} : out.s.be[p] = s.be[p] BY <1>1 DEF Absorbs
<1>3. \A p \in Places \ {h} : /\ out.s.be[p].cooldown = s.be[p].cooldown
                              /\ Empty(s.be, p) => Empty(out.s.be, p)
  BY <1>2 DEF Empty
<1>4. \/ out.s.be[h].cooldown = s.be[h].cooldown
      \/ Empty(s.be, h) /\ ~ Empty(out.s.be, h)
  BY <1>1 DEF Absorbs
<1> QED BY <1>2, <1>3, <1>4 DEF Absorbs, Pulls

LEMMA NothingPulls ==
  ASSUME NEW s \in Sessions, s.gone = {}, NEW source, NEW h \in Places
  PROVE  Pulls(s, [s |-> s, ok |-> FALSE], source, h)
BY FollowsSelf DEF Pulls, Tries

LEMMA TransferPulls ==
  ASSUME plan \in Plans, NEW s \in Sessions, s.gone = {}, NEW h \in Places, NEW source, source # NoRef,
         Between(source, <<h>>), NEW out, Transfers(s, out, source, <<h>>)
  PROVE  Pulls(s, Pulled(out, source), source, h)
<1> DEFINE u == out.s
           t == Notify(u, source)
           end == Pulled(out, source)
<1>0. ToSet(<<h>>) = {h} /\ source \in Refs /\ From(source) = ToSet(source) /\ h \notin ToSet(source)
      /\ ToSet(source) \subseteq Places
  <2>1. source \in Refs BY DEF Between, Known
  <2> QED BY <2>1, OneOf, RefFacts DEF Between, From
<1>1. out \in Tries /\ out = [s |-> u, ok |-> out.ok] /\ u \in Sessions BY DEF Transfers, Tries
<1>2. CASE ~ out.ok
  <2>1. out = [s |-> s, ok |-> FALSE] /\ end = out
    <3>1. out.ok \in BOOLEAN BY <1>1 DEF Tries
    <3>2. out.ok = FALSE /\ u = s BY <1>2, <3>1 DEF Transfers
    <3> QED BY <1>1, <1>2, <3>2 DEF Pulled
  <2> QED BY <2>1, NothingPulls
<1>3. CASE out.ok
  <2>1. end = [s |-> t, ok |-> out.ok]
    <3>1. end = [out EXCEPT !.s = t] BY <1>3 DEF Pulled
    <3> HIDE DEF u, t, end
    <3> QED BY <1>1, <3>1
  <2>2. /\ t \in Sessions /\ t.be = u.be /\ t.drops = u.drops /\ t.gone = u.gone
        /\ t.ticked = u.ticked /\ t.notes = u.notes \cup ToSet(source)
        /\ \A i : Weight(t, i) = Weight(u, i)
    BY <1>0, <1>1, NotifyFacts
  <2>3. /\ u.ticked = s.ticked /\ s.notes \subseteq u.notes /\ (Fits(s.be) => Fits(u.be))
        /\ h \in u.notes
        /\ \A i \in Items : Weight(u, i) = Weight(s, i)
        /\ \A p \in Places \ ({h} \cup ToSet(source)) : u.be[p] = s.be[p]
        /\ \A p \in ToSet(source) : u.be[p].cooldown = s.be[p].cooldown /\ (Empty(s.be, p) => Empty(u.be, p))
    BY <1>0, <1>3 DEF Transfers, Follows
  <2>4. end \in Tries /\ end.s = t /\ end.ok BY <1>1, <1>3, <2>1, <2>2 DEF Tries
  <2> HIDE DEF u, t, end
  <2>5. Follows(s, t) BY <2>2, <2>3 DEF Follows
  <2>6. \A p \in Places : t.be[p].slots # s.be[p].slots => p \in t.notes BY <1>0, <2>2, <2>3
  <2>7. \A p \in Places \ {h} : t.be[p].cooldown = s.be[p].cooldown /\ (Empty(s.be, p) => Empty(t.be, p))
    <3> SUFFICES ASSUME NEW p \in Places \ {h}
                 PROVE t.be[p].cooldown = s.be[p].cooldown /\ (Empty(s.be, p) => Empty(t.be, p)) OBVIOUS
    <3>1. CASE p \in ToSet(source) BY <2>2, <2>3, <3>1
    <3>2. CASE p \notin ToSet(source)
      <4>1. t.be[p] = s.be[p] BY <1>0, <2>2, <2>3, <3>2
      <4> QED BY <4>1 DEF Empty
    <3> QED BY <3>1, <3>2
  <2>8. \A p \in Places \ ({h} \cup From(source)) : t.be[p] = s.be[p] BY <1>0, <2>2, <2>3
  <2>9. \A i \in Items : Weight(t, i) = Weight(s, i) BY <2>2, <2>3
  <2>10. Pulls(s, end, source, h) BY <2>4, <2>5, <2>6, <2>7, <2>8, <2>9 DEF Pulls
  <2> QED BY <2>10 DEF end
<1> QED BY <1>2, <1>3

-------------------------------------------------------------------------------
(* Pulling and pushing.                                                     *)

\* A place that pulls from what is above it, if anything.
Puller(h, source) ==
  /\ h \in Places /\ Known(<<h>>)
  /\ plan.over[h] \in Seq(Drops)
  /\ source # NoRef => Between(source, <<h>>)

LEMMA PeriodicPullFacts ==
  ASSUME plan \in Plans, NEW s \in Sessions, s.gone = {}, NEW h, NEW source, Puller(h, source),
         NEW lucky \in BOOLEAN
  PROVE  Pulls(s, PeriodicPull(s, h, source, lucky), source, h)
<1>1. h \in Places /\ Known(<<h>>) /\ plan.over[h] \in Seq(Drops) BY DEF Puller
<1>2. CASE source # NoRef
  <2> DEFINE out == TransferOne(s, source, <<h>>, "down", "none", lucky)
  <2>1. Between(source, <<h>>) BY <1>2 DEF Puller
  <2>2. Transfers(s, out, source, <<h>>)
    <3>1. "down" \in Faces /\ "none" \in Faces BY DEF Faces
    <3> QED BY <2>1, <3>1, TransferFacts
  <2>3. PeriodicPull(s, h, source, lucky) = Pulled(out, source) BY <1>2 DEF PeriodicPull
  <2> HIDE DEF out
  <2> QED BY <1>1, <1>2, <2>1, <2>2, <2>3, TransferPulls
<1>3. CASE source = NoRef /\ h \in plan.lid
  <2>1. PeriodicPull(s, h, source, lucky) = [s |-> s, ok |-> FALSE] BY <1>3 DEF PeriodicPull
  <2> QED BY <1>1, <2>1, NothingPulls
<1>4. CASE source = NoRef /\ h \notin plan.lid
  <2>1. PeriodicPull(s, h, source, lucky) = AbsorbEntities(s, <<h>>, plan.over[h], lucky)
    BY <1>4 DEF PeriodicPull
  <2>2. Absorbs(s, AbsorbEntities(s, <<h>>, plan.over[h], lucky), <<h>>) BY <1>1, AbsorbFacts
  <2> QED BY <1>1, <2>1, <2>2, AbsorbPulls
<1> QED BY <1>2, <1>3, <1>4

LEMMA PulledAfterFacts ==
  ASSUME plan \in Plans, NEW s \in Sessions, s.gone = {}, NEW h, NEW source, Puller(h, source),
         NEW item \in Drops \cup {"none"}, NEW lucky \in BOOLEAN
  PROVE  Pulls(s, PulledAfter(s, h, source, item, lucky), source, h)
<1>1. h \in Places /\ Known(<<h>>) BY DEF Puller
<1>2. CASE IsFull(s, <<h>>)
  <2>1. PulledAfter(s, h, source, item, lucky) = [s |-> s, ok |-> FALSE] BY <1>2 DEF PulledAfter
  <2> QED BY <1>1, <2>1, NothingPulls
<1>3. CASE ~ IsFull(s, <<h>>) /\ item = "none"
  <2>1. PulledAfter(s, h, source, item, lucky) = PeriodicPull(s, h, source, lucky)
    BY <1>3 DEF PulledAfter
  <2> QED BY <2>1, PeriodicPullFacts
<1>4. CASE ~ IsFull(s, <<h>>) /\ item # "none"
  <2>1. PulledAfter(s, h, source, item, lucky) = AbsorbEntities(s, <<h>>, <<item>>, lucky)
    BY <1>4 DEF PulledAfter
  <2>2. <<item>> \in Seq(Drops) BY <1>4
  <2>3. Absorbs(s, AbsorbEntities(s, <<h>>, <<item>>, lucky), <<h>>) BY <1>1, <2>2, AbsorbFacts
  <2> QED BY <1>1, <2>1, <2>3, AbsorbPulls
<1> QED BY <1>2, <1>3, <1>4

\* out: a hopper pushed and pulled, or the session changed by what it took in part.
Moves(s, out, h) ==
  /\ Follows(s, out.s)
  /\ \A i \in Items : Weight(out.s, i) = Weight(s, i)
  /\ \A p \in Places : out.s.be[p].slots # s.be[p].slots => p \in out.s.notes
  /\ \A p \in Places \ {h} : Kind[p] = "hopper" => Wakes(s, out.s, p, <<h>>)
  /\ ~ out.ok => \/ out.s.be[h].cooldown = s.be[h].cooldown
                 \/ Empty(s.be, h) /\ ~ Empty(out.s.be, h)

\* What a hopper faces and what is above it have no hopper in common.
Mover(h, target, source) ==
  /\ Puller(h, source) /\ plan.into[h] \in Faces
  /\ target # NoRef => Between(<<h>>, target)
  /\ target # NoRef => \A q \in ToSet(target) \cap From(source) : Kind[q] # "hopper"

\* The push of a hopper, and then its pull.
LEMMA PushPull ==
  ASSUME plan \in Plans, NEW s \in Sessions, s.gone = {}, NEW h, NEW source, NEW target,
         Mover(h, target, source), NEW pushed,
         \/ pushed = [s |-> s, ok |-> FALSE]
         \/ target # NoRef /\ Transfers(s, pushed, <<h>>, target),
         NEW pulled, Pulls(pushed.s, pulled, source, h)
  PROVE  Moves(s, AfterPush(pushed, pulled, h), h)
<1> DEFINE u == pushed.s
           t == pulled.s
           moved == pushed.ok \/ pulled.ok
           cooled == WithCooldown(t, h, Cooldown)
           noted == Notify(cooled, <<h>>)
           end == AfterPush(pushed, pulled, h)
           v == end.s
           push == IF target # NoRef THEN ToSet(target) ELSE {}
<1>1. h \in Places /\ ToSet(<<h>>) = {h} /\ <<h>> \in Refs BY OneOf DEF Mover, Puller
<1>2. /\ Follows(s, u) /\ s.ticked = u.ticked /\ u.gone = {} /\ pushed.ok \in BOOLEAN /\ u \in Sessions
      /\ (~ pushed.ok => u = s)
      /\ \A i \in Items : Weight(u, i) = Weight(s, i)
      /\ pushed.ok => push \subseteq u.notes
      /\ \A p \in Places \ ({h} \cup push) : u.be[p] = s.be[p]
      /\ \A p \in push : p \in Places /\ Wakes(s, u, p, <<h>>)
      /\ h \notin push
      /\ \A q \in push \cap From(source) : Kind[q] # "hopper"
  <2>1. CASE pushed = [s |-> s, ok |-> FALSE]
    <3>1. u = s /\ pushed.ok = FALSE BY <2>1
    <3>2. Follows(s, s) BY FollowsSelf
    <3>3. \A p \in push : p \in Places /\ Wakes(s, s, p, <<h>>)
      <4>1. target # NoRef => target \in Refs BY DEF Mover, Between, Known
      <4> QED BY <4>1, RefFacts DEF Wakes
    <3>4. h \notin push BY <1>1 DEF Mover, Between
    <3>5. \A q \in push \cap From(source) : Kind[q] # "hopper" BY DEF Mover
    <3> HIDE DEF push, u
    <3> QED BY <3>1, <3>2, <3>3, <3>4, <3>5
  <2>2. CASE target # NoRef /\ Transfers(s, pushed, <<h>>, target)
    <3>1. push = ToSet(target) BY <2>2
    <3>2. target \in Refs /\ {h} \cap ToSet(target) = {} BY <1>1, <2>2 DEF Mover, Between, Known
    <3>3. \A q \in push \cap From(source) : Kind[q] # "hopper" BY <2>2 DEF Mover
    <3> HIDE DEF push
    <3>4. \A p \in push : p \in Places BY <3>1, <3>2, RefFacts
    <3> QED BY <1>1, <2>2, <3>1, <3>2, <3>3, <3>4 DEF Transfers, Tries, Follows
  <2> QED BY <2>1, <2>2
<1>3. /\ Follows(u, t) /\ t \in Sessions /\ pulled.ok \in BOOLEAN
      /\ \A i \in Items : Weight(t, i) = Weight(u, i)
      /\ \A p \in Places : t.be[p].slots # u.be[p].slots => p \in t.notes
      /\ \A p \in Places \ ({h} \cup From(source)) : t.be[p] = u.be[p]
      /\ \A p \in Places \ {h} : t.be[p].cooldown = u.be[p].cooldown /\ (Empty(u.be, p) => Empty(t.be, p))
      /\ ~ pulled.ok => \/ t.be[h].cooldown = u.be[h].cooldown
                        \/ Empty(u.be, h) /\ ~ Empty(t.be, h)
  BY DEF Pulls, Follows, Tries
<1>4. end.ok = moved /\ v = IF moved THEN noted ELSE t BY DEF AfterPush, MoveEnded
<1>5. /\ Restocked(t, cooled) /\ SameSlots(t.be, cooled.be) /\ cooled.be[h].cooldown = Cooldown
      /\ \A q \in Places \ {h} : cooled.be[q] = t.be[q]
  <2>1. Cooldown \in -1 .. Cooldown BY DEF Cooldown
  <2> QED BY <1>1, <1>3, <2>1, CooldownSet
<1>6. /\ noted \in Sessions /\ noted.be = cooled.be /\ noted.drops = cooled.drops /\ noted.gone = cooled.gone
      /\ noted.ticked = cooled.ticked /\ noted.notes = cooled.notes \cup {h}
      /\ \A i : Weight(noted, i) = Weight(cooled, i)
  <2>1. cooled \in Sessions BY <1>5 DEF Restocked
  <2> HIDE DEF cooled
  <2> QED BY <1>1, <2>1, NotifyFacts
<1> HIDE DEF u, t, cooled, noted, push, end
<1>7. /\ v \in Sessions /\ v.ticked = t.ticked /\ SameSlots(t.be, v.be)
      /\ t.notes \subseteq v.notes /\ (moved => h \in v.notes) /\ (~ moved => v = t)
      /\ \A q \in Places \ {h} : v.be[q] = t.be[q]
      /\ \A i \in Items : Weight(v, i) = Weight(t, i)
  <2>1. CASE moved
    <3>1. v = noted BY <1>4, <2>1
    <3>2. SameSlots(t.be, noted.be) BY <1>5, <1>6
    <3>3. \A i \in Items : Weight(noted, i) = Weight(t, i)
      <4> SUFFICES ASSUME NEW i \in Items PROVE Weight(noted, i) = Weight(t, i) OBVIOUS
      <4>1. Weight(cooled, i) = InCells(cooled.be, i) + OnGround(Ground(t), i) + t.spent[i]
        BY <1>5, RestockedWeight
      <4>2. InCells(cooled.be, i) = InCells(t.be, i) BY <1>5, SlotsStay
      <4> QED BY <1>6, <4>1, <4>2 DEF Weight
    <3> QED BY <1>5, <1>6, <2>1, <3>1, <3>2, <3>3 DEF Restocked
  <2>2. CASE ~ moved
    <3>1. v = t BY <1>4, <2>2
    <3> QED BY <1>3, <2>2, <3>1 DEF SameSlots
  <2> QED BY <2>1, <2>2
<1> HIDE DEF v
<1>8. Follows(s, v)
  <2>1. Fits(v.be) <=> Fits(t.be) BY <1>7, SlotsStay
  <2> QED BY <1>2, <1>3, <1>7, <2>1 DEF Follows
<1>9. \A i \in Items : Weight(v, i) = Weight(s, i) BY <1>2, <1>3, <1>7
<1>10. \A p \in Places : v.be[p].slots # s.be[p].slots => p \in v.notes
  <2> SUFFICES ASSUME NEW p \in Places, v.be[p].slots # s.be[p].slots PROVE p \in v.notes OBVIOUS
  <2>1. v.be[p].slots = t.be[p].slots BY <1>7 DEF SameSlots
  <2>2. CASE t.be[p].slots # u.be[p].slots BY <1>3, <1>7, <2>2
  <2>3. CASE t.be[p].slots = u.be[p].slots
    <3>1. u.be[p].slots # s.be[p].slots BY <2>1, <2>3
    <3>2. pushed.ok /\ p \in {h} \cup push BY <1>2, <3>1
    <3>3. u.notes \subseteq t.notes BY <1>3 DEF Follows
    <3> QED BY <1>2, <1>7, <3>2, <3>3
  <2> QED BY <2>2, <2>3
<1>11. \A p \in Places \ {h} : Kind[p] = "hopper" => Wakes(s, v, p, <<h>>)
  <2> SUFFICES ASSUME NEW p \in Places \ {h}, Kind[p] = "hopper" PROVE Wakes(s, v, p, <<h>>) OBVIOUS
  <2>1. v.be[p] = t.be[p] BY <1>7
  <2>2. Empty(v.be, p) <=> Empty(t.be, p) BY <2>1 DEF Empty
  <2>3. CASE p \in push
    <3>1. t.be[p] = u.be[p] BY <1>2, <1>3, <2>3
    <3>2. Empty(t.be, p) <=> Empty(u.be, p) BY <3>1 DEF Empty
    <3>3. Wakes(s, u, p, <<h>>) BY <1>2, <2>3
    <3> QED BY <2>1, <2>2, <3>1, <3>2, <3>3 DEF Wakes
  <2>4. CASE p \notin push
    <3>1. u.be[p] = s.be[p] BY <1>2, <2>4
    <3>2. Empty(u.be, p) <=> Empty(s.be, p) BY <3>1 DEF Empty
    <3>3. t.be[p].cooldown = u.be[p].cooldown /\ (Empty(u.be, p) => Empty(t.be, p)) BY <1>3
    <3> QED BY <2>1, <2>2, <3>1, <3>2, <3>3 DEF Wakes
  <2> QED BY <2>3, <2>4
<1>12. ~ moved => \/ v.be[h].cooldown = s.be[h].cooldown
                  \/ Empty(s.be, h) /\ ~ Empty(v.be, h)
  BY <1>2, <1>3, <1>7
<1>13. end.ok = moved /\ end.s = v BY <1>4 DEF v
<1> HIDE DEF moved
<1>14. Moves(s, end, h) BY <1>8, <1>9, <1>10, <1>11, <1>12, <1>13 DEF Moves
<1> QED BY <1>14 DEF end

LEMMA TryMoveFacts ==
  ASSUME plan \in Plans, NEW s \in Sessions, s.gone = {}, NEW h, NEW source, NEW target,
         Mover(h, target, source), NEW item \in Drops \cup {"none"}, NEW lucky \in BOOLEAN
  PROVE  Moves(s, TryMove(s, h, target, source, item, lucky), h)
<1> DEFINE pushed == IF target = NoRef \/ IsEmpty(s, <<h>>) THEN [s |-> s, ok |-> FALSE]
                     ELSE TransferOne(s, <<h>>, target, "none", plan.into[h], lucky)
           pulled == PulledAfter(pushed.s, h, source, item, lucky)
<1>1. \/ pushed = [s |-> s, ok |-> FALSE]
      \/ target # NoRef /\ Transfers(s, pushed, <<h>>, target)
  <2>1. CASE target = NoRef \/ IsEmpty(s, <<h>>) BY <2>1
  <2>2. CASE ~(target = NoRef \/ IsEmpty(s, <<h>>))
    <3>1. Between(<<h>>, target) /\ plan.into[h] \in Faces /\ "none" \in Faces
      BY <2>2 DEF Mover, Faces
    <3>2. Transfers(s, TransferOne(s, <<h>>, target, "none", plan.into[h], lucky), <<h>>, target)
      BY <3>1, TransferFacts
    <3> QED BY <2>2, <3>2
  <2> QED BY <2>1, <2>2
<1>2. TryMove(s, h, target, source, item, lucky) = AfterPush(pushed, pulled, h)
  BY DEF TryMove, PushedThenPulled
<1> HIDE DEF pushed
<1>3. pushed.s \in Sessions /\ pushed.s.gone = {} BY <1>1 DEF Transfers, Tries
<1>4. Puller(h, source) BY DEF Mover
<1>5. Pulls(pushed.s, pulled, source, h) BY <1>3, <1>4, PulledAfterFacts
<1> HIDE DEF pulled
<1>6. Moves(s, AfterPush(pushed, pulled, h), h) BY <1>1, <1>5, PushPull
<1> QED BY <1>2, <1>6

\* A minecart pulls, and else takes the items near it.
LEMMA CartFacts ==
  ASSUME plan \in Plans, NEW s \in Sessions, s.gone = {}, NEW m, NEW source, Puller(m, source),
         plan.near[m] \in Seq(Drops), NEW lucky \in BOOLEAN
  PROVE  LET t == ThenNear(FirstOfCart(s, m, source, lucky), m, lucky)
         IN /\ Follows(s, t)
            /\ \A i \in Items : Weight(t, i) = Weight(s, i)
            /\ \A p \in Places : t.be[p].slots # s.be[p].slots => p \in t.notes
            /\ \A p \in Places \ {m} : /\ t.be[p].cooldown = s.be[p].cooldown
                                       /\ Empty(s.be, p) => Empty(t.be, p)
<1> DEFINE first == FirstOfCart(s, m, source, lucky)
           second == AbsorbEntities(first.s, <<m>>, plan.near[m], lucky)
           t == ThenNear(first, m, lucky)
<1>1. m \in Places /\ Known(<<m>>) /\ plan.over[m] \in Seq(Drops) BY DEF Puller
<1>2. Pulls(s, first, source, m)
  <2>1. CASE source # NoRef
    <3> DEFINE out == TransferOne(s, source, <<m>>, "down", "none", lucky)
    <3>1. Between(source, <<m>>) BY <2>1 DEF Puller
    <3>2. Transfers(s, out, source, <<m>>)
      <4>1. "down" \in Faces /\ "none" \in Faces BY DEF Faces
      <4> QED BY <3>1, <4>1, TransferFacts
    <3>3. first = Pulled(out, source) BY <2>1 DEF FirstOfCart
    <3> HIDE DEF out, first
    <3> QED BY <1>1, <2>1, <3>1, <3>2, <3>3, TransferPulls
  <2>2. CASE source = NoRef
    <3>1. first = AbsorbEntities(s, <<m>>, plan.over[m], lucky) BY <2>2 DEF FirstOfCart
    <3>2. Absorbs(s, AbsorbEntities(s, <<m>>, plan.over[m], lucky), <<m>>) BY <1>1, AbsorbFacts
    <3> HIDE DEF first
    <3> QED BY <1>1, <3>1, <3>2, AbsorbPulls
  <2> QED BY <2>1, <2>2
<1>3. t = IF first.ok THEN first.s ELSE second.s BY DEF ThenNear
<1>4. first \in Tries /\ first.s \in Sessions /\ (~ first.ok => first.s.gone = {}) BY <1>2 DEF Pulls, Tries
<1>5. ~ first.ok => Pulls(first.s, second, source, m)
  <2> SUFFICES ASSUME ~ first.ok PROVE Pulls(first.s, second, source, m) OBVIOUS
  <2>1. first.s.gone = {} BY <1>4
  <2> HIDE DEF first
  <2>2. Absorbs(first.s, second, <<m>>) BY <1>1, <1>4, <2>1, AbsorbFacts
  <2> HIDE DEF second
  <2> QED BY <1>1, <1>4, <2>2, AbsorbPulls
<1> HIDE DEF first, second, t
<1>6. CASE first.ok
  <2>1. t = first.s BY <1>3, <1>6
  <2>2. /\ Follows(s, t)
        /\ \A i \in Items : Weight(t, i) = Weight(s, i)
        /\ \A p \in Places : t.be[p].slots # s.be[p].slots => p \in t.notes
        /\ \A p \in Places \ {m} : t.be[p].cooldown = s.be[p].cooldown /\ (Empty(s.be, p) => Empty(t.be, p))
    BY <1>2, <2>1 DEF Pulls
  <2> QED BY <2>2 DEF t, first
<1>7. CASE ~ first.ok
  <2>1. Pulls(first.s, second, source, m) /\ t = second.s BY <1>3, <1>5, <1>7
  <2>2. Follows(s, t) BY <1>2, <2>1 DEF Pulls, Follows
  <2>3. \A i \in Items : Weight(t, i) = Weight(s, i) BY <1>2, <2>1 DEF Pulls
  <2>4. \A p \in Places : t.be[p].slots # s.be[p].slots => p \in t.notes
    BY <1>2, <2>1 DEF Pulls, Follows
  <2>5. \A p \in Places \ {m} : t.be[p].cooldown = s.be[p].cooldown /\ (Empty(s.be, p) => Empty(t.be, p))
    BY <1>2, <2>1 DEF Pulls
  <2> QED BY <2>2, <2>3, <2>4, <2>5 DEF t, first
<1> QED BY <1>6, <1>7

-------------------------------------------------------------------------------
(* Droppers, dispensers and crafters.                                       *)

LEMMA WithinFacts ==
  ASSUME NEW m \in Nat, NEW room \in [1 .. m -> Nat], NEW excess \in Int, NEW equal \in BOOLEAN
  PROVE  LET got == WithinCapacity(room, excess, equal)
         IN /\ got \in [1 .. m -> Int] /\ SumFunction(got) \in Int
            /\ excess <= 0 => /\ got \in [1 .. m -> Nat] /\ SumFunction(got) \in 0 .. - excess
                              /\ \A i \in 1 .. m : got[i] <= room[i]
<1> DEFINE got == WithinCapacity(room, excess, equal)
<1>0. IsFiniteSet(1 .. m) BY FS_Interval
<1>1. CASE excess <= 0
  <2> DEFINE count == - excess
  <2>1. got = Poured(count, room) BY <1>1 DEF WithinCapacity
  <2>2. count \in Nat BY <1>1
  <2>a. count = - excess OBVIOUS
  <2> HIDE DEF count, got
  <2>b. LET poured == Poured(count, room)
        IN /\ poured \in [1 .. m -> Nat] /\ SumFunction(poured) \in 0 .. count
           /\ \A i \in 1 .. m : poured[i] <= room[i]
    BY ONLY <2>2, PouredFacts, m \in Nat, room \in [1 .. m -> Nat]
  <2>3. /\ got \in [1 .. m -> Nat] /\ SumFunction(got) \in 0 .. - excess
        /\ \A i \in 1 .. m : got[i] <= room[i]
    BY <2>1, <2>a, <2>b
  <2> HIDE DEF got
  <2>4. got \in [1 .. m -> Int] /\ SumFunction(got) \in Int BY <2>2, <2>3
  <2> QED BY <2>3, <2>4 DEF got
<1>2. CASE excess > 0
  <2>1. got = [i \in 1 .. m |-> IF i = 1 /\ equal THEN - excess ELSE 0] BY <1>2 DEF WithinCapacity
  <2>2. got \in [1 .. m -> Int] BY <2>1
  <2> HIDE DEF got
  <2>3. SumFunction(got) = SumFunctionOnSet(got, 1 .. m) BY <2>2 DEF SumFunction
  <2>4. \A i \in 1 .. m : got[i] \in Int BY <2>2
  <2>5. SumFunctionOnSet(got, 1 .. m) \in Int BY <1>0, <2>4, SumInt
  <2>6. got \in [1 .. m -> Int] /\ SumFunction(got) \in Int BY <2>2, <2>3, <2>5
  <2> QED BY <1>2, <2>6 DEF got
<1> QED BY <1>1, <1>2

\* The state as a session sees it at its start.
StateTyped ==
  /\ plan \in Plans /\ be \in Worlds /\ level \in [DOMAIN plan.start.level -> 0 .. 8]
  /\ drops \in [Drops -> Stacks] /\ spent \in [Items -> Int]
  /\ ticked \in [Hoppers -> {"never", "before", "now"}]

LEMMA NewSessionFacts ==
  ASSUME StateTyped, NEW t \in [Hoppers -> {"never", "before", "now"}]
  PROVE  LET s == NewSession(t)
         IN /\ s \in Sessions /\ s.be = be /\ s.drops = drops /\ s.gone = {} /\ s.notes = {}
            /\ s.ticked = t /\ s.level = level /\ s.spent = spent
            /\ \A i : Weight(s, i) = InCells(be, i) + OnGround(drops, i) + spent[i]
<1> DEFINE s == NewSession(t)
<1>1. /\ s.be = be /\ s.drops = drops /\ s.gone = {} /\ s.notes = {}
      /\ s.ticked = t /\ s.level = level /\ s.spent = spent
  BY DEF NewSession
<1>2. s \in Sessions BY DEF Sessions, NewSession, StateTyped
<1>3. Ground(s) = drops BY <1>1 DEF Ground, StateTyped
<1>4. \A i : Weight(s, i) = InCells(be, i) + OnGround(drops, i) + spent[i]
  <2> HIDE DEF s
  <2> QED BY <1>1, <1>3 DEF Weight
<1> QED BY <1>1, <1>2, <1>4

LEMMA TotalInFacts ==
  ASSUME be \in Worlds, NEW p \in Places
  PROVE  TotalIn(p) \in Nat /\ (TotalIn(p) = 0 => Empty(be, p))
<1> DEFINE f == [n \in DOMAIN be[p].slots |-> be[p].slots[n].count]
           D == 0 .. SlotCount[p] - 1
<1>1. DOMAIN be[p].slots = D /\ \A n \in D : be[p].slots[n] \in Stacks BY WorldFields
<1>2. \A n \in D : f[n] = be[p].slots[n].count /\ f[n] \in Nat BY <1>1, StackFields
<1>3. IsFiniteSet(D)
  <2>1. SlotCount[p] - 1 \in Int BY ContainersAssumption DEF ContainersAssumption
  <2> QED BY <2>1, FS_Interval
<1>4. DOMAIN f = D BY <1>1
<1> HIDE DEF f
<1>5. TotalIn(p) = SumFunctionOnSet(f, D) BY <1>4 DEF TotalIn, SumFunction, f
<1>6. SumFunctionOnSet(f, D) \in Nat
  <2> HIDE DEF D
  <2> QED BY <1>2, <1>3, SumNat
<1>7. \A n \in D : f[n] <= SumFunctionOnSet(f, D)
  <2> HIDE DEF D
  <2> QED BY <1>2, <1>3, SumAtLeast
<1>8. TotalIn(p) = 0 => \A n \in D : be[p].slots[n].count = 0
  <2> HIDE DEF D
  <2> QED BY <1>2, <1>5, <1>7
<1> QED BY <1>5, <1>6, <1>8 DEF Empty

\* What Inserted makes of a container.
Given(p, item, count, out, b2) ==
  /\ b2 \in Worlds /\ b2[p] = out.data /\ out.count \in Int
  /\ \A q \in Places \ {p} : b2[q] = be[q]
  /\ b2[p].cooldown = be[p].cooldown \/ (Empty(be, p) /\ ~ Empty(b2, p))
  /\ TotalIn(p) <= Capacity[p] =>
       /\ out.count \in 0 .. count
       /\ \A i \in Items : InCells(b2, i) = InCells(be, i) + (IF i = item THEN out.count ELSE 0)
       /\ out.count = 0 => SameSlots(be, b2)
       /\ Kind[p] \notin {"jukebox", "chiseled_bookshelf"} /\ Fits(be) => Fits(b2)

Replaced(b, b2, p, data) == b2 = [b EXCEPT ![p] = data]

LEMMA InsertedFacts ==
  ASSUME StateTyped, NEW p \in Places, Kind[p] # "composter", NEW item \in Items,
         NEW count \in Nat \ {0}, NEW face \in Faces, NEW b2,
         Replaced(be, b2, p, Inserted(p, item, count, face).data)
  PROVE  Given(p, item, count, Inserted(p, item, count, face), b2)
<1> DEFINE ref == <<p>>
           s == NewSession(ticked)
           v == [be |-> be, level |-> level]
           slots == SlotsForFace(v, ref, face)
           held == be[p].slots
           D == 0 .. SlotCount[p] - 1
           accepts == {n \in ToSet(slots) \cap DOMAIN held : CanPlaceInSlot(v, p, n, item)}
           A == {n \in accepts : held[n].item = item}
           B == {n \in accepts : held[n].count = 0}
           equal == Among(AllSlots(ref), A)
           order == equal \o Among(slots, B)
           room == [i \in DOMAIN order |-> Max({ItemStackLimit(p, order[i], item) - held[order[i]].count, 0})]
           excess == - Min({count, Capacity[p] - TotalIn(p)})
           got == WithinCapacity(room, excess, equal # <<>>)
           wakes == Kind[p] = "hopper" /\ TotalIn(p) = 0 /\ SumFunction(got) > 0 /\ be[p].cooldown <= Cooldown
           more(n) == {i \in DOMAIN order : order[i] = n /\ got[i] # 0}
           after(n) == IF more(n) = {} THEN held[n]
                       ELSE NewStack(item, held[n].count + got[CHOOSE i \in more(n) : TRUE])
           stored == [n \in DOMAIN held |-> after(n)]
           cool == IF wakes THEN Cooldown ELSE be[p].cooldown
           out == Inserted(p, item, count, face)
<1>1. out = [data |-> [slots |-> stored, cooldown |-> cool], count |-> SumFunction(got)]
  BY DEF Inserted
<1>2. be \in Worlds /\ DOMAIN held = D /\ be[p].cooldown \in -1 .. Cooldown
      /\ \A n \in D : held[n] \in Stacks /\ held[n].count \in Nat
  <2>1. be \in Worlds BY DEF StateTyped
  <2>2. DOMAIN held = D /\ be[p].cooldown \in -1 .. Cooldown /\ \A n \in D : held[n] \in Stacks
    BY <2>1, WorldFields
  <2> QED BY <2>1, <2>2, StackFields
<1>3. /\ s \in Sessions /\ s.be = be
  BY NewSessionFacts DEF StateTyped
<1>4. ref \in Refs /\ ToSet(ref) = {p} /\ KindOf(ref) = Kind[p] /\ ~ IsComposter(ref)
  BY OneOf DEF IsComposter
<1>5. Size(ref) = SlotCount[p] /\ Slots(ref) = D /\ SlotCount[p] \in Nat
  <2>1. SlotCount[p] \in Nat BY ContainersAssumption DEF ContainersAssumption
  <2>2. Size(ref) = SlotCount[p] BY <1>4 DEF Size
  <2> QED BY <2>1, <2>2 DEF Slots
<1> HIDE DEF out, s, D
<1>6. /\ order \in Seq(D) /\ Apart(order)
      /\ \A i \in DOMAIN order : /\ CanPlaceInSlot(v, p, order[i], item)
                                 /\ held[order[i]].item = item \/ held[order[i]].count = 0
  <2>1. slots \in Seq(Nat) /\ Apart(slots) BY <1>5, FaceSlotsApart
  <2>2. AllSlots(ref) \in Seq(Nat) /\ Apart(AllSlots(ref)) BY <1>5, AllSlotsApart
  <2>3. A \cap B = {}
    <3> SUFFICES ASSUME NEW n \in A, n \in B PROVE FALSE OBVIOUS
    <3>1. held[n] \in Stacks /\ held[n].item = item /\ held[n].count = 0 BY <1>2
    <3> HIDE DEF held
    <3> QED BY <3>1, StackFields
  <2>4. A \subseteq D /\ B \subseteq D BY <1>2
  <2>5. \A n \in A \cup B : CanPlaceInSlot(v, p, n, item) /\ (held[n].item = item \/ held[n].count = 0)
    OBVIOUS
  <2> HIDE DEF A, B, slots, held, v
  <2>6. order \in Seq(D) /\ Apart(order) /\ \A i \in DOMAIN order : order[i] \in A \cup B
    BY <2>1, <2>2, <2>3, <2>4, TwoParts
  <2> HIDE DEF order
  <2> QED BY <2>5, <2>6
<1> DEFINE eq == equal # <<>>
<1>7. eq \in BOOLEAN OBVIOUS
<1> HIDE DEF order, eq
<1> DEFINE m == Len(order)
<1>8. m \in Nat /\ DOMAIN order = 1 .. m /\ \A i \in 1 .. m : order[i] \in D BY <1>6
<1>9. \A i \in 1 .. m :
        /\ room[i] \in Nat
        /\ room[i] > 0 => held[order[i]].count + room[i] = ItemStackLimit(p, order[i], item)
  <2> SUFFICES ASSUME NEW i \in 1 .. m
               PROVE /\ room[i] \in Nat
                     /\ room[i] > 0 => held[order[i]].count + room[i] = ItemStackLimit(p, order[i], item)
    OBVIOUS
  <2> DEFINE l == ItemStackLimit(p, order[i], item)
             c == held[order[i]].count
  <2>1. l \in Nat /\ c \in Nat
    <3>1. l \in Nat BY ContainersAssumption DEF ItemStackLimit, ContainersAssumption
    <3> QED BY <1>2, <1>8, <3>1
  <2>2. room[i] = Max({l - c, 0}) BY <1>8
  <2> HIDE DEF l, c, room
  <2>3. room[i] = IF l - c >= 0 THEN l - c ELSE 0 BY <2>1, <2>2, MaxOfTwo
  <2>4. room[i] \in Nat /\ (room[i] > 0 => c + room[i] = l) BY <2>1, <2>3
  <2> QED BY <2>4 DEF l, c
<1>10. room \in [1 .. m -> Nat]
  <2>1. room = [i \in 1 .. m |-> room[i]] BY <1>8
  <2> HIDE DEF room
  <2> QED BY <1>9, <2>1
<1>11. excess \in Int /\ (TotalIn(p) <= Capacity[p] => excess <= 0 /\ - excess <= count)
       /\ (TotalIn(p) = 0 => TotalIn(p) <= Capacity[p])
  <2>1. TotalIn(p) \in Nat BY <1>2, TotalInFacts
  <2>2. Capacity[p] \in Nat BY PlansAssumption DEF PlansAssumption
  <2> DEFINE free == Capacity[p] - TotalIn(p)
             min == Min({count, free})
  <2>3. free \in Int BY <2>1, <2>2
  <2>5. TotalIn(p) <= Capacity[p] <=> free >= 0 BY <2>1, <2>2
  <2> HIDE DEF free
  <2>6. min = IF count <= free THEN count ELSE free BY <2>3, MinOfTwo
  <2>7. excess = - min BY DEF min, free
  <2> HIDE DEF min, excess
  <2>8. excess \in Int /\ (free >= 0 => excess <= 0 /\ - excess <= count) BY <2>3, <2>6, <2>7
  <2> QED BY <2>1, <2>2, <2>5, <2>8
<1> HIDE DEF room, excess
<1>12. /\ got \in [1 .. m -> Int] /\ SumFunction(got) \in Int
       /\ excess <= 0 => /\ got \in [1 .. m -> Nat] /\ SumFunction(got) \in 0 .. - excess
                         /\ \A i \in 1 .. m : got[i] <= room[i]
  BY <1>7, <1>8, <1>10, <1>11, WithinFacts DEF eq
<1> HIDE DEF got
<1>13. \A i \in 1 .. m : got[i] # 0 => more(order[i]) = {i} BY <1>6, <1>8 DEF Apart
<1>14. \A n \in D : (\A i \in 1 .. m : got[i] # 0 => order[i] # n) => more(n) = {} BY <1>8
<1> HIDE DEF more
<1>15. /\ \A i \in 1 .. m : got[i] # 0 => after(order[i]) = NewStack(item, held[order[i]].count + got[i])
       /\ \A n \in D : (\A i \in 1 .. m : got[i] # 0 => order[i] # n) => after(n) = held[n]
  <2>1. ASSUME NEW i \in 1 .. m, got[i] # 0
        PROVE after(order[i]) = NewStack(item, held[order[i]].count + got[i])
    <3>1. more(order[i]) = {i} BY <1>13, <2>1
    <3>2. (CHOOSE j \in more(order[i]) : TRUE) = i BY <3>1
    <3> HIDE DEF held
    <3> QED BY <3>1, <3>2
  <2>2. \A n \in D : (\A i \in 1 .. m : got[i] # 0 => order[i] # n) => after(n) = held[n] BY <1>14
  <2> QED BY <2>1, <2>2
<1>16. \A n \in D : after(n) \in Stacks
  <2> SUFFICES ASSUME NEW n \in D PROVE after(n) \in Stacks OBVIOUS
  <2>1. CASE \A i \in 1 .. m : got[i] # 0 => order[i] # n BY <1>2, <1>15, <2>1
  <2>2. ASSUME NEW i \in 1 .. m, got[i] # 0, order[i] = n PROVE after(n) \in Stacks
    <3> DEFINE c == held[n].count + got[i]
    <3>1. after(n) = NewStack(item, c) BY <1>15, <2>2
    <3>2. c \in Int BY <1>2, <1>12
    <3> HIDE DEF c, after
    <3>3. NewStack(item, c) \in Stacks BY <3>2, IsStack DEF NewStack, Stacks
    <3> QED BY <3>1, <3>3
  <2> QED BY <2>1, <2>2
<1> HIDE DEF after
<1>17. stored \in [D -> Stacks] /\ \A n \in D : stored[n] = after(n) BY <1>2, <1>16
<1>18. cool \in -1 .. Cooldown /\ out.data.slots = stored /\ out.data.cooldown = cool
       /\ out.count = SumFunction(got) /\ out.data = [slots |-> stored, cooldown |-> cool]
  BY <1>1, <1>2 DEF Cooldown
<1> HIDE DEF stored
<1>19. out.data \in Contents(p)
  <2> HIDE DEF cool
  <2> QED BY <1>17, <1>18 DEF Contents, D
<1>20. b2 = [be EXCEPT ![p] = out.data] BY DEF Replaced, out
<1>21. be = [q \in Places |-> be[q]] BY <1>2 DEF Worlds
<1>22. b2[p] = out.data /\ (\A q \in Places \ {p} : b2[q] = be[q]) /\ OnPlaces(b2)
  BY <1>20, <1>21 DEF OnPlaces
<1>23. b2 \in Worlds
  <2>1. \A q \in Places : b2[q] \in Contents(q) BY <1>2, <1>19, <1>22, WorldFields
  <2> QED BY <1>22, <2>1, IsWorld
<1>24. b2[p].slots = stored /\ b2[p].cooldown = cool BY <1>18, <1>22
<1> HIDE DEF v, held, room
<1>25. ASSUME excess <= 0
       PROVE  /\ Filling(s, ref, item, order, got)
              /\ Kind[p] \notin {"jukebox", "chiseled_bookshelf"} => Fitting(s, ref, item, order, got)
  <2>1. got \in [DOMAIN order -> Nat] /\ order \in Seq(Slots(ref)) /\ Apart(order)
    BY <1>5, <1>6, <1>8, <1>12, <1>25
  <2>2. \A i \in DOMAIN order : StackAt(s, ref, order[i]) = held[order[i]]
    <3> SUFFICES ASSUME NEW i \in DOMAIN order PROVE StackAt(s, ref, order[i]) = held[order[i]] OBVIOUS
    <3>1. PlaceOf(ref, order[i]) = p /\ SlotIn(ref, order[i]) = order[i] BY DEF PlaceOf, SlotIn
    <3> QED BY <1>3, <1>4, <3>1 DEF StackAt, held
  <2>3. Filling(s, ref, item, order, got) BY <1>6, <2>1, <2>2 DEF Filling
  <2>4. ASSUME Kind[p] \notin {"jukebox", "chiseled_bookshelf"}, NEW i \in DOMAIN order
        PROVE /\ CanPlace(s, ref, order[i], item)
              /\ got[i] > 0 => StackAt(s, ref, order[i]).count + got[i] <= StackLimit(ref, order[i], item)
    <3>1. PlaceOf(ref, order[i]) = p /\ SlotIn(ref, order[i]) = order[i] BY DEF PlaceOf, SlotIn
    <3>2. CanPlaceInSlot(v, p, order[i], item) = CanPlaceInSlot(s, p, order[i], item)
      BY <1>3 DEF CanPlaceInSlot, v
    <3>3. CanPlace(s, ref, order[i], item) BY <1>4, <1>6, <2>4, <3>1, <3>2 DEF CanPlace
    <3>4. StackLimit(ref, order[i], item) = ItemStackLimit(p, order[i], item)
      BY <1>4, <2>4 DEF StackLimit, ItemStackLimit
    <3>5. i \in 1 .. m /\ got[i] \in Nat /\ got[i] <= room[i] /\ room[i] \in Nat
          /\ held[order[i]].count \in Nat
      BY <1>2, <1>8, <1>9, <1>12, <1>25, <2>4
    <3>6. got[i] > 0 => held[order[i]].count + room[i] = ItemStackLimit(p, order[i], item)
      BY <1>9, <3>5
    <3>7. got[i] > 0 => held[order[i]].count + got[i] <= held[order[i]].count + room[i] BY <3>5
    <3> QED BY <2>2, <2>4, <3>3, <3>4, <3>6, <3>7
  <2> QED BY <2>3, <2>4 DEF Fitting
<1> DEFINE b1 == [q \in Places |-> IF q = p THEN [slots |-> stored, cooldown |-> be[p].cooldown] ELSE be[q]]
<1>26. b1 \in Worlds /\ SameSlots(b1, b2) /\ b1[p].slots = stored /\ b1[p].cooldown = be[p].cooldown
       /\ \A q \in Places \ {p} : b1[q] = be[q]
  <2>1. b1[p] = [slots |-> stored, cooldown |-> be[p].cooldown] /\ \A q \in Places \ {p} : b1[q] = be[q]
    OBVIOUS
  <2>2. OnPlaces(b1) BY DEF OnPlaces
  <2> HIDE DEF b1
  <2>3. b1[p] \in Contents(p) BY <1>2, <1>17, <2>1 DEF Contents, D
  <2>4. b1 \in Worlds
    <3>1. \A q \in Places : b1[q] \in Contents(q) BY <1>2, <2>1, <2>3, WorldFields
    <3> QED BY <2>2, <3>1, IsWorld
  <2>5. SameSlots(b1, b2) BY <1>22, <1>24, <2>1 DEF SameSlots
  <2> QED BY <2>1, <2>4, <2>5
<1> HIDE DEF b1
<1>27. ASSUME excess <= 0 PROVE IsGrown(be, b1, ref, item, order, got)
  <2>1. \A q \in Places : b1[q].cooldown = be[q].cooldown BY <1>26
  <2>2. \A q \in Places \ ToSet(ref) : b1[q] = be[q] BY <1>4, <1>26
  <2>3. \A i \in DOMAIN order : PlaceOf(ref, order[i]) = p /\ SlotIn(ref, order[i]) = order[i]
    BY DEF PlaceOf, SlotIn
  <2>4. ASSUME NEW i \in DOMAIN order, got[i] > 0
        PROVE b1[p].slots[order[i]] = [item |-> item, count |-> be[p].slots[order[i]].count + got[i]]
    <3>1. i \in 1 .. m /\ got[i] # 0 /\ got[i] \in Nat /\ order[i] \in D BY <1>8, <1>12, <1>27, <2>4
    <3>2. b1[p].slots[order[i]] = NewStack(item, held[order[i]].count + got[i])
      BY <1>15, <1>17, <1>26, <3>1
    <3>3. held[order[i]].count \in Nat BY <1>2, <3>1
    <3>4. held[order[i]].count + got[i] > 0 BY <2>4, <3>1, <3>3
    <3> QED BY <3>1, <3>2, <3>3, <3>4 DEF NewStack, held
  <2>5. ASSUME NEW q \in Places, NEW n \in 0 .. SlotCount[q] - 1,
               \A i \in DOMAIN order :
                 got[i] > 0 => ~(PlaceOf(ref, order[i]) = q /\ SlotIn(ref, order[i]) = n)
        PROVE b1[q].slots[n] = be[q].slots[n]
    <3>1. CASE q # p BY <1>26, <3>1
    <3>2. CASE q = p
      <4>1. \A i \in 1 .. m : got[i] # 0 => order[i] # n
        BY <1>8, <1>12, <1>27, <2>3, <2>5, <3>2
      <4>2. n \in D BY <2>5, <3>2 DEF D
      <4>3. stored[n] = held[n] BY <1>15, <1>17, <4>1, <4>2
      <4> QED BY <1>26, <3>2, <4>3 DEF held
    <3> QED BY <3>1, <3>2
  <2>6. \A i \in DOMAIN order :
       LET q == PlaceOf(ref, order[i])
           n == SlotIn(ref, order[i])
       IN got[i] > 0 => b1[q].slots[n] = [item |-> item, count |-> be[q].slots[n].count + got[i]]
    BY <2>3, <2>4
  <2> HIDE DEF ref
  <2> QED BY ONLY <1>26, <2>1, <2>2, <2>5, <2>6 DEF IsGrown
<1>28. b2[p].cooldown = be[p].cooldown \/ (Empty(be, p) /\ ~ Empty(b2, p))
  <2> SUFFICES ASSUME wakes PROVE Empty(be, p) /\ ~ Empty(b2, p) BY <1>24
  <2>1. TotalIn(p) = 0 /\ SumFunction(got) > 0 OBVIOUS
  <2>2. Empty(be, p) BY <1>2, <2>1, TotalInFacts
  <2>3. excess <= 0 BY <1>11, <2>1
  <2>4. Filling(s, ref, item, order, got) /\ IsGrown(be, b1, ref, item, order, got)
    BY <1>25, <1>27, <2>3
  <2>5. SumFunction(got) # 0 BY <2>1
  <2>6. IsGrown(s.be, b1, ref, item, order, got) BY <1>3, <2>4
  <2>7. ref = <<p>> OBVIOUS
  <2> HIDE DEF ref, wakes
  <2>8. ~ Empty(b1, p) BY <1>3, <1>4, <2>4, <2>5, <2>6, <2>7, FillingEnds
  <2>9. ~ Empty(b2, p) BY <1>26, <2>8, SlotsStay
  <2> QED BY <2>2, <2>9
<1>29. ASSUME TotalIn(p) <= Capacity[p]
       PROVE  /\ out.count \in 0 .. count
              /\ \A i \in Items : InCells(b2, i) = InCells(be, i) + (IF i = item THEN out.count ELSE 0)
              /\ out.count = 0 => SameSlots(be, b2)
              /\ Kind[p] \notin {"jukebox", "chiseled_bookshelf"} /\ Fits(be) => Fits(b2)
  <2>1. excess <= 0 /\ - excess <= count /\ excess \in Int BY <1>11, <1>29
  <2>2. SumFunction(got) \in 0 .. - excess /\ got \in [1 .. m -> Nat] BY <1>12, <2>1
  <2>3. out.count \in 0 .. count BY <1>18, <2>1, <2>2
  <2>4. Filling(s, ref, item, order, got) /\ IsGrown(s.be, b1, ref, item, order, got)
        /\ (Kind[p] \notin {"jukebox", "chiseled_bookshelf"} => Fitting(s, ref, item, order, got))
    BY <1>3, <1>25, <1>27, <2>1
  <2> HIDE DEF ref
  <2>5. \A i \in Items : InCells(b1, i) = InCells(be, i) + (IF i = item THEN SumFunction(got) ELSE 0)
    BY <1>3, <1>4, <2>4, FillingCells
  <2>6. \A i \in Items : InCells(b2, i) = InCells(be, i) + (IF i = item THEN out.count ELSE 0)
    BY <1>18, <1>26, <2>5, SlotsStay
  <2>7. Kind[p] \notin {"jukebox", "chiseled_bookshelf"} /\ Fits(be) => Fits(b2)
    <3> SUFFICES ASSUME Kind[p] \notin {"jukebox", "chiseled_bookshelf"}, Fits(be) PROVE Fits(b2) OBVIOUS
    <3>1. Fits(b1) BY <1>3, <1>4, <2>4, FillingFits
    <3> QED BY <1>26, <3>1, SlotsStay
  <2>8. out.count = 0 => SameSlots(be, b2)
    <3> SUFFICES ASSUME SumFunction(got) = 0 PROVE SameSlots(be, b2) BY <1>18
    <3>1. \A i \in 1 .. m : got[i] = 0
      <4>1. IsFiniteSet(1 .. m) BY <1>8, FS_Interval
      <4>2. \A i \in 1 .. m : got[i] \in Nat BY <2>2
      <4>3. \A i \in 1 .. m : got[i] <= SumFunctionOnSet(got, 1 .. m) BY <4>1, <4>2, SumAtLeast
      <4>4. SumFunctionOnSet(got, 1 .. m) = 0 BY <2>2 DEF SumFunction
      <4> QED BY <4>2, <4>3, <4>4
    <3>2. \A n \in D : stored[n] = held[n] BY <1>15, <1>17, <3>1
    <3>3. held = [n \in D |-> held[n]]
      <4>1. held \in [D -> Stacks] BY <1>2, WorldFields DEF held, D
      <4> QED BY <4>1
    <3>4. stored = held
      <4>1. stored = [n \in D |-> stored[n]] BY <1>17
      <4> QED BY <3>2, <3>3, <4>1
    <3> QED BY <1>22, <1>24, <3>4 DEF SameSlots, held
  <2> QED BY <2>3, <2>6, <2>7, <2>8
<1>30. out.count \in Int BY <1>12, <1>18
<1>31. Given(p, item, count, out, b2) BY <1>22, <1>23, <1>28, <1>29, <1>30 DEF Given
<1> QED BY <1>31 DEF out

\* All there is of an item: in slots, on the ground, and already spent.
Held(b, d, paid, i) == InCells(b, i) + OnGround(d, i) + paid[i]

\* Nothing lies over the capacity of what a dropper or a crafter faces.
Roomy ==
  \A d \in DOMAIN plan.ejects : Kind[d] \in {"dropper", "crafter"} =>
    \A ref \in plan.front[d] : TotalIn(ref[1]) <= Capacity[ref[1]]

\* None of them faces a container for which only hoppers have a rule.
NoShelves ==
  \A d \in DOMAIN plan.ejects : Kind[d] \in {"dropper", "crafter"} =>
    \A ref \in plan.front[d] : Kind[ref[1]] \notin {"jukebox", "chiseled_bookshelf"}

Notified(b, b2, told) == \A p \in Places : b2[p].slots # b[p].slots => p \in told

\* What every step keeps.
Steady ==
  /\ StateTyped' /\ notes' \subseteq Places
  /\ Roomy => /\ \A i \in Items : Held(be', drops', spent', i) = Held(be, drops, spent, i)
              /\ Notified(be, be', notes')
              /\ NoShelves /\ Fits(be) => Fits(be')

\* b2: one of the stack in slot n of d was taken.
Takes(b, b2, d, n) ==
  /\ b2 \in Worlds /\ be[d].slots[n].item \in Items
  /\ \A q \in Places \ {d} : b2[q] = b[q]
  /\ b2[d].cooldown = b[d].cooldown
  /\ \A i \in Items : InCells(b2, i) = InCells(b, i) - (IF i = be[d].slots[n].item THEN 1 ELSE 0)
  /\ Fits(b) => Fits(b2)
  /\ \A q \in Places : Empty(b, q) => Empty(b2, q)

LEMMA TakenFacts ==
  ASSUME StateTyped, NEW d \in Places, NEW n \in Stocked(d), NEW b \in Worlds, b[d] = be[d], NEW b2,
         Replaced(b, b2, d, Taken(d, n))
  PROVE  Takes(b, b2, d, n)
<1> DEFINE k == be[d].slots[n]
           less == IF k.count = 1 THEN NoStack ELSE [k EXCEPT !.count = @ - 1]
<1>1. be \in Worlds /\ plan \in Plans /\ StartTyped BY PlanStartTyped DEF StateTyped
<1>2. /\ n \in 0 .. SlotCount[d] - 1 /\ k \in Stacks /\ k.count > 0
      /\ be[d].slots \in [0 .. SlotCount[d] - 1 -> Stacks] /\ be[d].cooldown \in -1 .. Cooldown
      /\ be[d] = [slots |-> be[d].slots, cooldown |-> be[d].cooldown]
  <2>1. /\ be[d] \in Contents(d) /\ be[d].slots \in [0 .. SlotCount[d] - 1 -> Stacks]
        /\ DOMAIN be[d].slots = 0 .. SlotCount[d] - 1 /\ be[d].cooldown \in -1 .. Cooldown
    BY <1>1, WorldFields
  <2>2. n \in 0 .. SlotCount[d] - 1 /\ k.count > 0 BY <2>1 DEF Stocked
  <2>3. k \in Stacks BY <2>1, <2>2
  <2>4. be[d] = [slots |-> be[d].slots, cooldown |-> be[d].cooldown] BY <2>1 DEF Contents
  <2> QED BY <2>1, <2>2, <2>3, <2>4
<1>3. Taken(d, n) = [slots |-> [be[d].slots EXCEPT ![n] = less], cooldown |-> be[d].cooldown]
  <2>1. Taken(d, n) = [be[d] EXCEPT !.slots[n] = less] BY DEF Taken
  <2> HIDE DEF less
  <2> QED BY <1>2, <2>1
<1>4. k.item \in Items /\ k.count \in Nat BY <1>2, StackFields
<1>5. /\ less \in Stacks /\ less.count = k.count - 1 /\ (less.count > 0 => less.item = k.item)
      /\ \A i \in Items : Count(less, i) = Count(k, i) - (IF i = k.item THEN 1 ELSE 0)
  <2> HIDE DEF k
  <2> QED BY <1>2, <1>4, CountOfOneLess DEF k
<1> HIDE DEF less
<1>6. OffIn(b, b2, d, n, less)
  <2>1. b = [q \in Places |-> b[q]] BY DEF Worlds
  <2>2. b2 = [b EXCEPT ![d] = Taken(d, n)] BY DEF Replaced
  <2>3. b2[d] = Taken(d, n) /\ (\A q \in Places \ {d} : b2[q] = b[q]) /\ b2 = [q \in Places |-> b2[q]]
    BY <2>1, <2>2
  <2> QED BY <1>3, <2>3 DEF OffIn, OnPlaces
<1>7. /\ b2 \in Worlds
      /\ b2[d].slots[n] = less /\ b2[d].cooldown = b[d].cooldown
      /\ \A q \in Places : \A m \in 0 .. SlotCount[q] - 1 :
           ~(q = d /\ m = n) => b2[q].slots[m] = b[q].slots[m]
      /\ \A q \in Places \ {d} : b2[q] = b[q]
      /\ \A i : InCells(b2, i) = InCells(b, i) + Count(less, i) - Count(b[d].slots[n], i)
  BY <1>2, <1>5, <1>6, OneCellOff
<1>8. b[d].slots[n] = k OBVIOUS
<1> HIDE DEF k
<1>9. Fits(b) => Fits(b2)
  <2> SUFFICES ASSUME Fits(b), NEW q \in Places, NEW j \in 0 .. SlotCount[q] - 1
               PROVE FitsAt(q, j, b2[q].slots[j]) BY DEF Fits
  <2>1. FitsAt(q, j, b[q].slots[j]) BY DEF Fits
  <2>2. CASE ~(q = d /\ j = n) BY <1>7, <2>1, <2>2
  <2>3. CASE q = d /\ j = n
    <3>1. FitsAt(d, n, k) BY <1>8, <2>1, <2>3
    <3>2. FitsAt(d, n, less) BY <1>1, <1>2, <1>5, <3>1, FitsLess DEF k
    <3> QED BY <1>7, <2>3, <3>2
  <2> QED BY <2>2, <2>3
<1>10. \A i \in Items : InCells(b2, i) = InCells(b, i) - (IF i = k.item THEN 1 ELSE 0)
  <2> SUFFICES ASSUME NEW i \in Items
               PROVE InCells(b2, i) = InCells(b, i) - (IF i = k.item THEN 1 ELSE 0) OBVIOUS
  <2>1. InCells(b, i) \in Nat BY InCellsInt
  <2>2. InCells(b2, i) = InCells(b, i) + Count(less, i) - Count(k, i) BY <1>7, <1>8
  <2>3. Count(less, i) = Count(k, i) - (IF i = k.item THEN 1 ELSE 0) BY <1>5
  <2>4. Count(k, i) \in Nat BY <1>2, CountNat DEF k
  <2> QED BY <2>1, <2>2, <2>3, <2>4
<1>11. \A q \in Places : Empty(b, q) => Empty(b2, q)
  <2> SUFFICES ASSUME NEW q \in Places, Empty(b, q) PROVE Empty(b2, q) OBVIOUS
  <2>1. q # d BY <1>2, <1>8 DEF Empty, k
  <2> QED BY <1>7, <2>1 DEF Empty
<1> QED BY <1>4, <1>7, <1>9, <1>10, <1>11 DEF Takes, k

\* What an ejected item adds to the ground.
LEMMA SpawnFacts ==
  ASSUME StateTyped, NEW d \in DOMAIN plan.ejects, NEW item \in Items, NEW count \in Int,
         Spawn(d, item, count)
  PROVE  /\ drops' \in [Drops -> Stacks]
         /\ count >= 0 => \A i \in Items :
              OnGround(drops', i) = OnGround(drops, i) + (IF i = item THEN count ELSE 0)
<1> DEFINE e == plan.ejects[d]
<1>1. e \in Drops BY PlansAssumption DEF StateTyped, PlansAssumption, PlanParts
<1>2. drops \in [Drops -> Stacks] BY DEF StateTyped
<1> HIDE DEF e
<1>3. CASE count <= 0
  <2>1. drops' = drops BY <1>3 DEF Spawn
  <2>2. \A i \in Items : OnGround(drops, i) \in Nat BY <1>2, OnGroundInt
  <2> QED BY <1>2, <1>3, <2>1, <2>2
<1>4. CASE count > 0
  <2>1. drops[e].count = 0 /\ drops' = [drops EXCEPT ![e] = [item |-> item, count |-> count]]
    BY <1>4 DEF Spawn, e
  <2>2. [item |-> item, count |-> count] \in Stacks BY <1>4, IsStack
  <2>3. drops' \in [Drops -> Stacks] BY <1>1, <1>2, <2>1, <2>2
  <2>4. \A x \in Drops \ {e} : drops'[x] = drops[x] BY <1>2, <2>1
  <2>5. drops'[e] = [item |-> item, count |-> count] BY <1>1, <1>2, <2>1
  <2>6. drops[e] = NoStack BY <1>1, <1>2, <2>1, StackFields
  <2>7. ASSUME NEW i \in Items
        PROVE  OnGround(drops', i) = OnGround(drops, i) + (IF i = item THEN count ELSE 0)
    <3>1. OnGround(drops', i) = OnGround(drops, i) + Count(drops'[e], i) - Count(drops[e], i)
      BY <1>1, <1>2, <2>3, <2>4, OneDropOff
    <3>2. Count(drops[e], i) = 0 BY <2>6 DEF Count, NoStack
    <3>3. Count(drops'[e], i) = IF i = item THEN count ELSE 0 BY <2>5 DEF Count
    <3>4. OnGround(drops, i) \in Nat BY <1>2, OnGroundInt
    <3> QED BY <3>1, <3>2, <3>3, <3>4
  <2> QED BY <2>3, <2>7
<1> QED BY <1>3, <1>4

\* A session that ends leaves the state as it staged it.
LEMMA CommitFacts ==
  ASSUME StateTyped, NEW s \in Sessions, Commit(s), plan' = plan,
         ticked' \in [Hoppers -> {"never", "before", "now"}],
         Fits(be) => Fits(s.be), Notified(be, s.be, s.notes),
         \A i \in Items : Weight(s, i) = Held(be, drops, spent, i)
  PROVE  Steady
<1>1. be' = s.be /\ level' = s.level /\ drops' = Ground(s) /\ notes' = s.notes /\ spent' = s.spent
  BY DEF Commit, Ground
<1>2. /\ s.be \in Worlds /\ s.level \in [DOMAIN plan.start.level -> 0 .. 8]
      /\ s.drops \in [Drops -> Stacks] /\ s.notes \subseteq Places /\ s.spent \in [Items -> Int]
  BY SessionFields
<1>3. Ground(s) \in [Drops -> Stacks] BY <1>2 DEF Ground, Stacks
<1>4. StateTyped'
  <2>1. plan \in Plans BY DEF StateTyped
  <2>2. be' \in Worlds' BY <1>1, <1>2 DEF Worlds, Contents
  <2>3. ticked' \in [Hoppers' -> {"never", "before", "now"}] BY DEF Hoppers
  <2> QED BY <1>1, <1>2, <1>3, <2>1, <2>2, <2>3 DEF StateTyped
<1>5. \A i \in Items : Held(be', drops', spent', i) = Held(be, drops, spent, i)
  BY <1>1 DEF Held, Weight
<1>6. Notified(be, be', notes') BY <1>1
<1>7. Fits(be) => Fits(be') BY <1>1
<1> QED BY <1>1, <1>2, <1>4, <1>5, <1>6, <1>7 DEF Steady

\* A cooldown changes only where something came into what was empty.
Undisturbed(b, b2) ==
  \A p \in Places : b2[p].cooldown = b[p].cooldown \/ (Empty(b, p) /\ ~ Empty(b2, p))

LEMMA TickTyped ==
  ASSUME StateTyped, NEW d, InTick(d), be' \in Worlds, drops' \in [Drops -> Stacks],
         spent' \in [Items -> Int]
  PROVE  StateTyped'
BY DEF StateTyped, InTick, Worlds, Contents, Hoppers

\* What a dropper, dispenser or crafter is.
LEMMA EjectorFacts ==
  ASSUME plan \in Plans, NEW d \in DOMAIN plan.ejects
  PROVE  /\ d \in Places /\ plan.into[d] \in Faces
         /\ \A ref \in plan.front[d] :
              /\ ref[1] \in Places \ {d} /\ Kind[ref[1]] # "composter" /\ ref = <<ref[1]>>
              /\ ToSet(ref) = {ref[1]}
         /\ Kind[d] = "crafter" => plan.output[d].item \in Items /\ plan.output[d].count \in Nat \ {0}
                                   /\ d \in DOMAIN plan.output
<1>1. PlanParts(plan) /\ PlanLayout(plan) BY PlansAssumption DEF PlansAssumption
<1>2. d \in Places /\ plan.into[d] \in Faces BY <1>1 DEF PlanParts, Faces
<1>3. ASSUME NEW ref \in plan.front[d]
      PROVE  /\ ref[1] \in Places \ {d} /\ Kind[ref[1]] # "composter" /\ ref = <<ref[1]>>
             /\ ToSet(ref) = {ref[1]}
  <2>1. ref \in Single /\ ref # <<d>> /\ Kind[ref[1]] # "composter" BY <1>1 DEF PlanLayout, FacesBlocks
  <2>2. PICK p \in Places : ref = <<p>> BY <2>1 DEF Single
  <2>3. ref[1] = p /\ ToSet(ref) = {p} BY <2>2, OneOf
  <2> QED BY <2>1, <2>2, <2>3
<1>4. ASSUME Kind[d] = "crafter"
      PROVE  plan.output[d].item \in Items /\ plan.output[d].count \in Nat \ {0} /\ d \in DOMAIN plan.output
  <2>1. d \in DOMAIN plan.output BY <1>1, <1>4 DEF PlanLayout
  <2>2. plan.output[d] \in Stacks \ {NoStack} BY <1>1, <2>1 DEF PlanParts
  <2> QED BY <2>1, <2>2 DEF Stacks
<1> QED BY <1>2, <1>3, <1>4

LEMMA DispenserFacts ==
  ASSUME StateTyped, NEW d, ExecuteDispenser(d)
  PROVE  Steady /\ Undisturbed(be, be')
<1>1. InTick(d) /\ notes' = {d} /\ d \in DOMAIN plan.ejects BY DEF ExecuteDispenser, InTick
<1>2. plan \in Plans /\ be \in Worlds /\ spent \in [Items -> Int] /\ drops \in [Drops -> Stacks]
  BY DEF StateTyped
<1>3. d \in Places BY <1>1, <1>2, EjectorFacts
<1>4. PICK n \in Stocked(d) :
        LET item == be[d].slots[n].item
        IN /\ item \in Launched \cup Ejected
           /\ be' = [be EXCEPT ![d] = Taken(d, n)]
           /\ Spawn(d, item, IF item \in Ejected THEN 1 ELSE 0)
           /\ spent' = [spent EXCEPT ![item] = @ + (IF item \in Launched THEN 1 ELSE 0)]
  BY DEF ExecuteDispenser
<1> DEFINE item == be[d].slots[n].item
           c == IF item \in Ejected THEN 1 ELSE 0
           l == IF item \in Launched THEN 1 ELSE 0
<1>5. Takes(be, be', d, n)
  <2>1. Replaced(be, be', d, Taken(d, n)) BY <1>4 DEF Replaced
  <2> QED BY <1>2, <1>3, <2>1, TakenFacts
<1>6. be' \in Worlds /\ item \in Items /\ (\A q \in Places \ {d} : be'[q] = be[q])
      /\ be'[d].cooldown = be[d].cooldown /\ (Fits(be) => Fits(be'))
      /\ \A i \in Items : InCells(be', i) = InCells(be, i) - (IF i = item THEN 1 ELSE 0)
  BY <1>5 DEF Takes
<1>7. c + l = 1 /\ c \in Nat /\ l \in Nat BY <1>4, PlansAssumption DEF PlansAssumption
<1>8. Spawn(d, item, c) /\ spent' = [spent EXCEPT ![item] = @ + l] BY <1>4
<1> HIDE DEF item, c, l
<1>9. drops' \in [Drops -> Stacks]
      /\ \A i \in Items : OnGround(drops', i) = OnGround(drops, i) + (IF i = item THEN c ELSE 0)
  BY <1>1, <1>6, <1>7, <1>8, SpawnFacts
<1>10. /\ spent' \in [Items -> Int]
       /\ \A i \in Items : spent'[i] = spent[i] + (IF i = item THEN l ELSE 0)
  BY <1>2, <1>6, <1>7, <1>8
<1>11. StateTyped' BY <1>1, <1>6, <1>9, <1>10, TickTyped
<1>12. \A i \in Items : Held(be', drops', spent', i) = Held(be, drops, spent, i)
  <2> SUFFICES ASSUME NEW i \in Items PROVE Held(be', drops', spent', i) = Held(be, drops, spent, i)
    OBVIOUS
  <2>1. InCells(be, i) \in Nat /\ OnGround(drops, i) \in Nat /\ spent[i] \in Int
    BY <1>2, InCellsInt, OnGroundInt
  <2> QED BY <1>6, <1>7, <1>9, <1>10, <2>1 DEF Held
<1>13. Notified(be, be', notes') BY <1>1, <1>6 DEF Notified
<1>14. Undisturbed(be, be') BY <1>6 DEF Undisturbed
<1> QED BY <1>1, <1>3, <1>6, <1>11, <1>12, <1>13, <1>14 DEF Steady

LEMMA DropperFacts ==
  ASSUME StateTyped, NEW d, ExecuteDropper(d)
  PROVE  Steady /\ Undisturbed(be, be')
<1>1. InTick(d) /\ d \in DOMAIN plan.ejects /\ spent' = spent /\ Kind[d] = "dropper"
  BY DEF ExecuteDropper, InTick
<1>2. plan \in Plans /\ be \in Worlds /\ spent \in [Items -> Int] /\ drops \in [Drops -> Stacks]
  BY DEF StateTyped
<1>3. /\ d \in Places /\ plan.into[d] \in Faces
      /\ \A ref \in plan.front[d] : ref[1] \in Places \ {d} /\ Kind[ref[1]] # "composter"
  BY <1>1, <1>2, EjectorFacts
<1>4. PICK n \in Stocked(d) :
       LET item == be[d].slots[n].item
       IN IF plan.front[d] = {}
          THEN /\ be' = [be EXCEPT ![d] = Taken(d, n)]
               /\ Spawn(d, item, 1) /\ notes' = {d}
          ELSE \E ref \in plan.front[d] :
                 LET out == Inserted(ref[1], item, 1, plan.into[d])
                     given == [be EXCEPT ![ref[1]] = out.data]
                 IN IF out.count = 1
                    THEN /\ be' = [given EXCEPT ![d] = Taken(d, n)]
                         /\ notes' = {ref[1], d} /\ UNCHANGED drops
                    ELSE be' = given /\ notes' = {} /\ UNCHANGED drops
  BY DEF ExecuteDropper
<1> DEFINE item == be[d].slots[n].item
<1>5. item \in Items
  <2> DEFINE b2 == [be EXCEPT ![d] = Taken(d, n)]
  <2>1. Replaced(be, b2, d, Taken(d, n)) BY DEF Replaced
  <2> HIDE DEF b2
  <2>2. Takes(be, b2, d, n) BY <1>2, <1>3, <2>1, TakenFacts
  <2> QED BY <2>2 DEF Takes
<1>6. CASE plan.front[d] = {}
  <2>1. Replaced(be, be', d, Taken(d, n)) /\ Spawn(d, item, 1) /\ notes' = {d}
    BY <1>4, <1>6 DEF Replaced
  <2>2. Takes(be, be', d, n) BY <1>2, <1>3, <2>1, TakenFacts
  <2>3. be' \in Worlds /\ (\A q \in Places \ {d} : be'[q] = be[q])
        /\ be'[d].cooldown = be[d].cooldown /\ (Fits(be) => Fits(be'))
        /\ \A i \in Items : InCells(be', i) = InCells(be, i) - (IF i = item THEN 1 ELSE 0)
    BY <2>2 DEF Takes
  <2> HIDE DEF item
  <2>4. drops' \in [Drops -> Stacks]
        /\ \A i \in Items : OnGround(drops', i) = OnGround(drops, i) + (IF i = item THEN 1 ELSE 0)
    BY <1>1, <1>5, <2>1, SpawnFacts
  <2>5. StateTyped' BY <1>1, <1>2, <2>3, <2>4, TickTyped
  <2>6. \A i \in Items : Held(be', drops', spent', i) = Held(be, drops, spent, i)
    <3> SUFFICES ASSUME NEW i \in Items PROVE Held(be', drops', spent', i) = Held(be, drops, spent, i)
      OBVIOUS
    <3>1. InCells(be, i) \in Nat /\ OnGround(drops, i) \in Nat /\ spent[i] \in Int
      BY <1>2, InCellsInt, OnGroundInt
    <3> QED BY <1>1, <2>3, <2>4, <3>1 DEF Held
  <2>7. Notified(be, be', notes') BY <2>1, <2>3 DEF Notified
  <2>8. Undisturbed(be, be') BY <2>3 DEF Undisturbed
  <2> QED BY <1>3, <2>1, <2>3, <2>5, <2>6, <2>7, <2>8 DEF Steady
<1>7. CASE plan.front[d] # {}
  <2>1. PICK ref \in plan.front[d] :
                 LET out == Inserted(ref[1], item, 1, plan.into[d])
                     given == [be EXCEPT ![ref[1]] = out.data]
                 IN IF out.count = 1
                    THEN /\ be' = [given EXCEPT ![d] = Taken(d, n)]
                         /\ notes' = {ref[1], d} /\ UNCHANGED drops
                    ELSE be' = given /\ notes' = {} /\ UNCHANGED drops
    BY <1>4, <1>7
  <2> DEFINE p == ref[1]
             out == Inserted(p, item, 1, plan.into[d])
             given == [be EXCEPT ![p] = out.data]
  <2>2. p \in Places /\ p # d /\ Kind[p] # "composter" BY <1>3
  <2>3. /\ drops' = drops
        /\ out.count = 1 => be' = [given EXCEPT ![d] = Taken(d, n)] /\ notes' = {p, d}
        /\ out.count # 1 => be' = given /\ notes' = {}
    BY <2>1
  <2> HIDE DEF item, p
  <2>4. Replaced(be, given, p, out.data) BY DEF Replaced
  <2> HIDE DEF given
  <2>5. Given(p, item, 1, out, given) BY <1>3, <1>5, <2>2, <2>4, InsertedFacts
  <2> HIDE DEF out
  <2>6. /\ given \in Worlds
        /\ \A q \in Places \ {p} : given[q] = be[q]
        /\ given[p].cooldown = be[p].cooldown \/ (Empty(be, p) /\ ~ Empty(given, p))
        /\ TotalIn(p) <= Capacity[p] =>
             /\ out.count \in 0 .. 1
             /\ \A i \in Items : InCells(given, i) = InCells(be, i) + (IF i = item THEN out.count ELSE 0)
             /\ out.count = 0 => SameSlots(be, given)
             /\ Kind[p] \notin {"jukebox", "chiseled_bookshelf"} /\ Fits(be) => Fits(given)
    BY <2>5 DEF Given
  <2>7. Roomy => TotalIn(p) <= Capacity[p] BY <1>1 DEF Roomy, p
  <2>8. NoShelves => Kind[p] \notin {"jukebox", "chiseled_bookshelf"} BY <1>1 DEF NoShelves, p
  <2>9. \A i \in Items : InCells(be, i) \in Nat /\ OnGround(drops, i) \in Nat /\ spent[i] \in Int
    BY <1>2, InCellsInt, OnGroundInt
  <2>10. CASE out.count = 1
    <3>1. Replaced(given, be', d, Taken(d, n)) BY <2>3, <2>10 DEF Replaced
    <3>2. given[d] = be[d] BY <1>3, <2>2, <2>6
    <3>3. Takes(given, be', d, n) BY <1>3, <2>6, <3>1, <3>2, TakenFacts
    <3>4. be' \in Worlds /\ (\A q \in Places \ {d} : be'[q] = given[q])
          /\ be'[d].cooldown = given[d].cooldown /\ (Fits(given) => Fits(be'))
          /\ \A i \in Items : InCells(be', i) = InCells(given, i) - (IF i = item THEN 1 ELSE 0)
      BY <3>3 DEF Takes, item
    <3>5. StateTyped' BY <1>1, <1>2, <2>3, <3>4, TickTyped
    <3>6. Roomy => \A i \in Items : Held(be', drops', spent', i) = Held(be, drops, spent, i)
      BY <1>1, <2>3, <2>6, <2>7, <2>9, <2>10, <3>4 DEF Held
    <3>7. Notified(be, be', notes') BY <2>3, <2>6, <2>10, <3>4 DEF Notified
    <3>8. Undisturbed(be, be')
      <4> SUFFICES ASSUME NEW q \in Places
                   PROVE  be'[q].cooldown = be[q].cooldown \/ (Empty(be, q) /\ ~ Empty(be', q))
        BY DEF Undisturbed
      <4>1. CASE q = d BY <3>2, <3>4, <4>1
      <4>2. CASE q = p
        <5>1. be'[p] = given[p] BY <2>2, <3>4
        <5>2. Empty(be', p) = Empty(given, p) BY <5>1 DEF Empty
        <5> QED BY <2>6, <4>2, <5>1, <5>2
      <4>3. CASE q # d /\ q # p BY <2>6, <3>4, <4>3
      <4> QED BY <4>1, <4>2, <4>3
    <3> QED BY <1>3, <2>2, <2>3, <2>6, <2>7, <2>8, <2>10, <3>4, <3>5, <3>6, <3>7, <3>8 DEF Steady
  <2>11. CASE out.count # 1
    <3>1. be' = given /\ notes' = {} /\ drops' = drops BY <2>3, <2>11
    <3>2. StateTyped' BY <1>1, <1>2, <2>6, <3>1, TickTyped
    <3>3. Roomy => out.count = 0 BY <2>6, <2>7, <2>11
    <3>4. Roomy => \A i \in Items : Held(be', drops', spent', i) = Held(be, drops, spent, i)
      BY <1>1, <2>6, <2>7, <2>9, <3>1, <3>3 DEF Held
    <3>5. Roomy => Notified(be, be', notes') BY <2>6, <2>7, <3>1, <3>3 DEF Notified, SameSlots
    <3>6. Undisturbed(be, be') BY <2>6, <3>1 DEF Undisturbed
    <3> QED BY <2>6, <2>7, <2>8, <3>1, <3>2, <3>4, <3>5, <3>6 DEF Steady
  <2> QED BY <2>10, <2>11
<1> QED BY <1>6, <1>7

\* The crafter's output is put where it faces; what is not is thrown out.
CraftsInto(d, n, b2, put) ==
  \/ b2 = be /\ put = 0 /\ d \in notes' /\ notes' \subseteq Places
  \/ \E p \in Places \ {d} : \E out :
       /\ Given(p, plan.output[d].item, plan.output[d].count, out, b2)
       /\ put = out.count /\ notes' = {d, p}
       /\ \E ref \in plan.front[d] : p = ref[1]

LEMMA CraftsIntoFacts ==
  ASSUME StateTyped, NEW d, ExecuteCrafter(d), ~ crafting[d]
  PROVE  \E n \in Stocked(d) : \E b2, put :
           /\ CraftsInto(d, n, b2, put) /\ Replaced(b2, be', d, Taken(d, n))
           /\ Spawn(d, plan.output[d].item, plan.output[d].count - put)
           /\ spent' = [i \in Items |-> spent[i] + Count([be[d].slots[n] EXCEPT !.count = 1], i)
                                                 - Count(plan.output[d], i)]
<1> DEFINE out == plan.output[d]
           put(target) == IF target = NoRef THEN [data |-> NoStack, count |-> 0]
                          ELSE Inserted(target[1], out.item, out.count, plan.into[d])
           kept(n) == [be EXCEPT ![d] = Taken(d, n)]
<1>1. PICK target \in Resolve(plan.front[d]), n \in Stocked(d) :
            /\ be' = IF target = NoRef THEN kept(n) ELSE [kept(n) EXCEPT ![target[1]] = put(target).data]
            /\ Spawn(d, out.item, out.count - put(target).count)
            /\ notes' = {d} \cup (ToSet(target) \cap Places)
            /\ spent' = [i \in Items |-> spent[i] + Count([be[d].slots[n] EXCEPT !.count = 1], i)
                                                  - Count(out, i)]
  BY DEF ExecuteCrafter
<1>2. d \in DOMAIN plan.ejects /\ Kind[d] = "crafter" BY DEF ExecuteCrafter, InTick
<1>3. plan \in Plans /\ be \in Worlds BY DEF StateTyped
<1>4. /\ d \in Places /\ plan.into[d] \in Faces
      /\ \A ref \in plan.front[d] : ref[1] \in Places \ {d} /\ Kind[ref[1]] # "composter"
                                    /\ ToSet(ref) = {ref[1]}
      /\ out.item \in Items /\ out.count \in Nat \ {0}
  BY <1>2, <1>3, EjectorFacts
<1> HIDE DEF out
<1>5. CASE target = NoRef
  <2>1. put(target).count = 0 /\ be' = kept(n) BY <1>1, <1>5
  <2>3. d \in notes' /\ notes' \subseteq Places BY <1>1, <1>4
  <2>4. CraftsInto(d, n, be, 0) BY <2>3 DEF CraftsInto
  <2>5. Replaced(be, be', d, Taken(d, n)) BY <2>1 DEF Replaced
  <2>6. Spawn(d, out.item, out.count - 0) BY <1>1, <2>1
  <2> QED BY <1>1, <2>4, <2>5, <2>6 DEF out
<1>6. CASE target # NoRef
  <2> DEFINE p == target[1]
             b2 == [be EXCEPT ![p] = put(target).data]
  <2>1. target \in plan.front[d] BY <1>1, <1>6 DEF Resolve
  <2>2. p \in Places \ {d} /\ Kind[p] # "composter" /\ ToSet(target) = {p} BY <1>4, <2>1
  <2>3. put(target) = Inserted(p, out.item, out.count, plan.into[d]) BY <1>6
  <2>5. Replaced(be, b2, p, Inserted(p, out.item, out.count, plan.into[d]).data) BY <2>3 DEF Replaced
  <2>6. be' = [kept(n) EXCEPT ![p] = put(target).data] BY <1>1, <1>6
  <2>7. be = [q \in Places |-> be[q]] BY <1>3 DEF Worlds
  <2>8. Replaced(b2, be', d, Taken(d, n)) BY <1>4, <2>2, <2>6, <2>7 DEF Replaced
  <2>9. notes' = {d, p} BY <1>1, <2>2
  <2> HIDE DEF b2, put, p
  <2>10. Given(p, out.item, out.count, Inserted(p, out.item, out.count, plan.into[d]), b2)
    BY <1>4, <2>2, <2>5, InsertedFacts
  <2>11. CraftsInto(d, n, b2, put(target).count)
    BY <2>1, <2>2, <2>3, <2>9, <2>10 DEF CraftsInto, out, p
  <2> QED BY <1>1, <2>8, <2>11 DEF out
<1> QED BY <1>5, <1>6

LEMMA CraftsFacts ==
  ASSUME StateTyped, NEW d \in DOMAIN plan.ejects, Kind[d] = "crafter", NEW n \in Stocked(d), NEW b2,
         NEW put, CraftsInto(d, n, b2, put)
  PROVE  /\ b2 \in Worlds /\ b2[d] = be[d] /\ Undisturbed(be, b2) /\ put \in Int
         /\ Roomy => /\ put \in 0 .. plan.output[d].count
                     /\ \A i \in Items :
                          InCells(b2, i) = InCells(be, i) + (IF i = plan.output[d].item THEN put ELSE 0)
                     /\ NoShelves /\ Fits(be) => Fits(b2)
         /\ notes' \subseteq Places /\ d \in notes' /\ Notified(be, b2, notes')
<1> DEFINE item == plan.output[d].item
           count == plan.output[d].count
<1>1. plan \in Plans /\ be \in Worlds BY DEF StateTyped
<1>2. d \in Places /\ item \in Items /\ count \in Nat BY <1>1, EjectorFacts
<1>3. CASE b2 = be /\ put = 0 /\ d \in notes' /\ notes' \subseteq Places
  <2>1. \A i \in Items : InCells(be, i) \in Nat BY <1>1, InCellsInt
  <2> QED BY <1>1, <1>2, <1>3, <2>1 DEF Undisturbed, Notified
<1>4. ASSUME NEW p \in Places \ {d}, NEW out, Given(p, item, count, out, b2),
             put = out.count, notes' = {d, p}, \E ref \in plan.front[d] : p = ref[1]
      PROVE  /\ b2 \in Worlds /\ b2[d] = be[d] /\ Undisturbed(be, b2) /\ put \in Int
             /\ Roomy => /\ put \in 0 .. count
                         /\ \A i \in Items : InCells(b2, i) = InCells(be, i) + (IF i = item THEN put ELSE 0)
                         /\ NoShelves /\ Fits(be) => Fits(b2)
             /\ notes' \subseteq Places /\ d \in notes' /\ Notified(be, b2, notes')
  <2> HIDE DEF item, count
  <2>1. /\ b2 \in Worlds /\ out.count \in Int
        /\ \A q \in Places \ {p} : b2[q] = be[q]
        /\ b2[p].cooldown = be[p].cooldown \/ (Empty(be, p) /\ ~ Empty(b2, p))
        /\ TotalIn(p) <= Capacity[p] =>
             /\ out.count \in 0 .. count
             /\ \A i \in Items : InCells(b2, i) = InCells(be, i) + (IF i = item THEN out.count ELSE 0)
             /\ Kind[p] \notin {"jukebox", "chiseled_bookshelf"} /\ Fits(be) => Fits(b2)
    BY <1>4 DEF Given
  <2>2. Roomy => TotalIn(p) <= Capacity[p] BY <1>4 DEF Roomy
  <2>3. NoShelves => Kind[p] \notin {"jukebox", "chiseled_bookshelf"} BY <1>4 DEF NoShelves
  <2>4. Undisturbed(be, b2) BY <2>1 DEF Undisturbed
  <2>5. Notified(be, b2, notes') BY <1>4, <2>1 DEF Notified
  <2> QED BY <1>2, <1>4, <2>1, <2>2, <2>3, <2>4, <2>5
<1>5. \/ b2 = be /\ put = 0 /\ d \in notes' /\ notes' \subseteq Places
      \/ \E p \in Places \ {d} : \E out :
           /\ Given(p, item, count, out, b2)
           /\ put = out.count /\ notes' = {d, p}
           /\ \E ref \in plan.front[d] : p = ref[1]
  BY DEF CraftsInto
<1> QED BY <1>3, <1>4, <1>5

LEMMA CrafterFacts ==
  ASSUME StateTyped, NEW d, ExecuteCrafter(d)
  PROVE  Steady /\ Undisturbed(be, be')
<1>1. InTick(d) /\ d \in DOMAIN plan.ejects /\ Kind[d] = "crafter" BY DEF ExecuteCrafter, InTick
<1>2. plan \in Plans /\ be \in Worlds /\ spent \in [Items -> Int] /\ drops \in [Drops -> Stacks]
  BY DEF StateTyped
<1>3. CASE crafting[d]
  <2>1. be' = be /\ drops' = drops /\ spent' = spent /\ notes' = {} BY <1>3 DEF ExecuteCrafter
  <2>2. StateTyped' BY <1>1, <1>2, <2>1, TickTyped
  <2> QED BY <2>1, <2>2 DEF Steady, Undisturbed, Notified
<1>4. CASE ~ crafting[d]
  <2> DEFINE out == plan.output[d]
  <2>0. PICK n \in Stocked(d) : \E b2, put :
           /\ CraftsInto(d, n, b2, put) /\ Replaced(b2, be', d, Taken(d, n))
           /\ Spawn(d, out.item, out.count - put)
           /\ spent' = [i \in Items |-> spent[i] + Count([be[d].slots[n] EXCEPT !.count = 1], i)
                                                 - Count(out, i)]
    BY <1>4, CraftsIntoFacts
  <2>1. PICK b2, put :
           /\ CraftsInto(d, n, b2, put) /\ Replaced(b2, be', d, Taken(d, n))
           /\ Spawn(d, out.item, out.count - put)
           /\ spent' = [i \in Items |-> spent[i] + Count([be[d].slots[n] EXCEPT !.count = 1], i)
                                                 - Count(out, i)]
    BY <2>0
  <2>2. /\ d \in Places /\ out.item \in Items /\ out.count \in Nat \ {0} BY <1>1, <1>2, EjectorFacts
  <2>3. /\ b2 \in Worlds /\ b2[d] = be[d] /\ Undisturbed(be, b2) /\ put \in Int
        /\ Roomy => /\ put \in 0 .. out.count
                    /\ \A i \in Items : InCells(b2, i) = InCells(be, i) + (IF i = out.item THEN put ELSE 0)
                    /\ NoShelves /\ Fits(be) => Fits(b2)
        /\ notes' \subseteq Places /\ d \in notes' /\ Notified(be, b2, notes')
    BY <1>1, <2>1, CraftsFacts
  <2> DEFINE item == be[d].slots[n].item
             one == [be[d].slots[n] EXCEPT !.count = 1]
  <2>4. Takes(b2, be', d, n) BY <2>1, <2>2, <2>3, TakenFacts
  <2>5. be' \in Worlds /\ item \in Items /\ (\A q \in Places \ {d} : be'[q] = b2[q])
        /\ be'[d].cooldown = b2[d].cooldown /\ (Fits(b2) => Fits(be'))
        /\ \A i \in Items : InCells(be', i) = InCells(b2, i) - (IF i = item THEN 1 ELSE 0)
    BY <2>4 DEF Takes
  <2>6. \A i \in Items : Count(one, i) = IF i = item THEN 1 ELSE 0
    <3>1. be[d].slots[n] \in Stacks
      <4>1. n \in DOMAIN be[d].slots BY DEF Stocked
      <4> QED BY <1>2, <2>2, <4>1, WorldFields
    <3>2. one.item = item /\ one.count = 1 BY <3>1 DEF Stacks, NoStack
    <3> QED BY <3>2 DEF Count
  <2>7. \A i \in Items : Count(out, i) = IF i = out.item THEN out.count ELSE 0 BY DEF Count
  <2>8. \A i \in Items : spent'[i] = spent[i] + Count(one, i) - Count(out, i) BY <2>1
  <2> HIDE DEF one, item, out
  <2>9. spent' \in [Items -> Int]
    <3>1. spent' = [i \in Items |-> spent[i] + Count(one, i) - Count(out, i)] BY <2>1 DEF one
    <3>2. \A i \in Items : spent[i] + Count(one, i) - Count(out, i) \in Int
      <4> SUFFICES ASSUME NEW i \in Items PROVE spent[i] + Count(one, i) - Count(out, i) \in Int OBVIOUS
      <4>1. spent[i] \in Int /\ Count(one, i) \in Int /\ Count(out, i) \in Int
        BY <1>2, <2>2, <2>6, <2>7
      <4> QED BY <4>1
    <3> QED BY <3>1, <3>2
  <2>10. out.count - put \in Int BY <2>2, <2>3
  <2> DEFINE rest == out.count - put
  <2>11. Spawn(d, out.item, rest) /\ rest \in Int BY <2>1, <2>10
  <2> HIDE DEF rest
  <2>12. /\ drops' \in [Drops -> Stacks]
         /\ rest >= 0 => \A i \in Items :
              OnGround(drops', i) = OnGround(drops, i) + (IF i = out.item THEN rest ELSE 0)
    BY <1>1, <2>2, <2>11, SpawnFacts
  <2>a. drops' \in [Drops -> Stacks] BY <2>12
  <2>b. be' \in Worlds BY <2>5
  <2>13. StateTyped' BY ONLY StateTyped, <1>1, <2>a, <2>b, <2>9, TickTyped
  <2>14. Roomy => rest >= 0 BY <2>2, <2>3 DEF rest
  <2>15. ASSUME Roomy PROVE \A i \in Items : Held(be', drops', spent', i) = Held(be, drops, spent, i)
    <3> SUFFICES ASSUME NEW i \in Items PROVE Held(be', drops', spent', i) = Held(be, drops, spent, i)
      OBVIOUS
    <3>1. InCells(be, i) \in Nat /\ OnGround(drops, i) \in Nat /\ spent[i] \in Int
      BY <1>2, InCellsInt, OnGroundInt
    <3>2. InCells(b2, i) = InCells(be, i) + (IF i = out.item THEN put ELSE 0) BY <2>3, <2>15
    <3>3. InCells(be', i) = InCells(b2, i) - (IF i = item THEN 1 ELSE 0) BY <2>5
    <3>a. rest >= 0 BY <2>14, <2>15
    <3>4. OnGround(drops', i) = OnGround(drops, i) + (IF i = out.item THEN rest ELSE 0)
      BY <2>12, <3>a
    <3>5. spent'[i] = spent[i] + (IF i = item THEN 1 ELSE 0) - (IF i = out.item THEN out.count ELSE 0)
      BY <2>6, <2>7, <2>8
    <3>6. out.count \in Int /\ put \in Int /\ rest = out.count - put BY <2>2, <2>3 DEF rest
    <3> QED BY <3>1, <3>2, <3>3, <3>4, <3>5, <3>6 DEF Held
  <2>16. Notified(be, be', notes') BY <2>3, <2>5 DEF Notified
  <2>17. Undisturbed(be, be')
    <3> SUFFICES ASSUME NEW q \in Places
                 PROVE  be'[q].cooldown = be[q].cooldown \/ (Empty(be, q) /\ ~ Empty(be', q))
      BY DEF Undisturbed
    <3>1. CASE q = d BY <2>3, <2>5, <3>1
    <3>2. CASE q # d
      <4>1. be'[q] = b2[q] BY <2>5, <3>2
      <4>2. Empty(be', q) = Empty(b2, q) BY <4>1 DEF Empty
      <4> QED BY <2>3, <4>1, <4>2 DEF Undisturbed
    <3> QED BY <3>1, <3>2
  <2> QED BY <2>3, <2>5, <2>13, <2>15, <2>16, <2>17 DEF Steady
<1> QED BY <1>3, <1>4

-------------------------------------------------------------------------------
(* The callbacks of a game tick.                                            *)

\* Where in three sequences after one another an element is.
InParts(all, a, b, c) ==
  /\ Len(all) = Len(a) + Len(b) + Len(c)
  /\ \A k \in 1 .. Len(all) :
       \/ k \in DOMAIN a /\ all[k] = a[k]
       \/ \E i \in DOMAIN b : k = Len(a) + i /\ all[k] = b[i]
       \/ \E i \in DOMAIN c : k = Len(a) + Len(b) + i /\ all[k] = c[i]

LEMMA ThreeParts ==
  ASSUME NEW X, NEW a \in Seq(X), NEW b \in Seq(X), NEW c \in Seq(X)
  PROVE  InParts(a \o b \o c, a, b, c)
<1> DEFINE ab == a \o b
           all == ab \o c
<1>1. ab \in Seq(X) /\ Len(ab) = Len(a) + Len(b)
      /\ \A k \in 1 .. Len(ab) : ab[k] = IF k <= Len(a) THEN a[k] ELSE b[k - Len(a)]
  OBVIOUS
<1> HIDE DEF ab
<1>2. all \in Seq(X) /\ Len(all) = Len(ab) + Len(c)
      /\ \A k \in 1 .. Len(all) : all[k] = IF k <= Len(ab) THEN ab[k] ELSE c[k - Len(ab)]
  <2>0. ab \in Seq(X) BY <1>1
  <2>1. /\ ab \o c \in Seq(X) /\ Len(ab \o c) = Len(ab) + Len(c)
        /\ \A k \in 1 .. Len(ab) + Len(c) : (ab \o c)[k] = IF k <= Len(ab) THEN ab[k] ELSE c[k - Len(ab)]
    BY ONLY <2>0, c \in Seq(X), ConcatProperties, Zenon
  <2> QED BY ONLY <2>1
<1> HIDE DEF all
<1>3. Len(a) \in Nat /\ Len(b) \in Nat /\ Len(c) \in Nat OBVIOUS
<1>4. DOMAIN a = 1 .. Len(a) /\ DOMAIN b = 1 .. Len(b) /\ DOMAIN c = 1 .. Len(c) OBVIOUS
<1>5. ASSUME NEW k \in 1 .. Len(all)
      PROVE  \/ k \in DOMAIN a /\ all[k] = a[k]
             \/ \E i \in DOMAIN b : k = Len(a) + i /\ all[k] = b[i]
             \/ \E i \in DOMAIN c : k = Len(a) + Len(b) + i /\ all[k] = c[i]
  <2>1. CASE k <= Len(a)
    <3>1. k \in DOMAIN a BY <1>3, <1>4, <2>1
    <3>2. k <= Len(ab) BY <1>1, <1>3, <2>1
    <3> QED BY <1>1, <1>2, <1>3, <2>1, <3>1, <3>2
  <2>2. CASE k > Len(a) /\ k <= Len(ab)
    <3> DEFINE i == k - Len(a)
    <3>1. i \in DOMAIN b /\ k = Len(a) + i BY <1>1, <1>3, <1>4, <2>2
    <3>2. all[k] = ab[k] BY <1>2, <2>2
    <3>3. ab[k] = b[i] BY <1>1, <1>3, <2>2
    <3> QED BY <3>1, <3>2, <3>3
  <2>3. CASE k > Len(ab)
    <3> DEFINE i == k - Len(ab)
    <3>1. i \in DOMAIN c /\ k = Len(a) + Len(b) + i BY <1>1, <1>2, <1>3, <1>4, <2>3
    <3>2. all[k] = c[i] BY <1>1, <1>2, <1>3, <2>3
    <3> QED BY <3>1, <3>2
  <2>4. Len(ab) \in Nat /\ k \in Int BY <1>1, <1>3
  <2> QED BY <1>3, <2>1, <2>2, <2>3, <2>4
<1>6. Len(all) = Len(a) + Len(b) + Len(c) BY <1>1, <1>2
<1>7. InParts(all, a, b, c) BY <1>5, <1>6 DEF InParts
<1> QED BY <1>7 DEF all, ab

\* Before which callback, counted from 0, the hoppers tick.
Earlier == Len(plan.carts) + Len(plan.touches)

LEMMA SequenceFrom ==
  ASSUME NEW X, NEW n \in Nat, NEW f \in [1 .. n -> X]
  PROVE  f \in Seq(X) /\ Len(f) = n /\ DOMAIN f = 1 .. n
OBVIOUS

LEMMA CallbackFacts ==
  ASSUME plan \in Plans
  PROVE  /\ Len(Callbacks) = Earlier + Len(plan.order) /\ Earlier \in Nat /\ Len(plan.order) \in Nat
         /\ DOMAIN plan.order = 1 .. Len(plan.order)
         /\ at \in 1 .. Len(Callbacks) =>
              \/ /\ Current.kind = "cart" /\ Current.who \in Carts /\ at <= Earlier
              \/ /\ Current.kind = "touch" /\ Current.who \in Hoppers /\ Current.item \in Drops
                 /\ at <= Earlier
              \/ /\ Current.kind = "hopper" /\ Current.who \in Hoppers
                 /\ \E i \in DOMAIN plan.order : at = Earlier + i /\ Current.who = plan.order[i]
<1> DEFINE a == [i \in DOMAIN plan.carts |-> [kind |-> "cart", who |-> plan.carts[i]]]
           b == [i \in DOMAIN plan.touches |->
                  [kind |-> "touch", who |-> plan.touches[i][2], item |-> plan.touches[i][1]]]
           c == [i \in DOMAIN plan.order |-> [kind |-> "hopper", who |-> plan.order[i]]]
           X == {a[i] : i \in DOMAIN plan.carts} \cup {b[i] : i \in DOMAIN plan.touches}
                  \cup {c[i] : i \in DOMAIN plan.order}
<1>1. PlanParts(plan) BY PlansAssumption DEF PlansAssumption
<1>2. /\ plan.order \in Seq({q \in Places : Kind[q] = "hopper"})
      /\ plan.carts \in Seq({q \in Places : Kind[q] = "hopper_minecart"})
      /\ plan.touches \in Seq(Drops \X Hoppers)
  BY <1>1 DEF PlanParts, Hoppers
<1>3. /\ DOMAIN plan.order = 1 .. Len(plan.order) /\ DOMAIN plan.carts = 1 .. Len(plan.carts)
      /\ DOMAIN plan.touches = 1 .. Len(plan.touches)
      /\ Len(plan.order) \in Nat /\ Len(plan.carts) \in Nat /\ Len(plan.touches) \in Nat
  BY <1>2
<1>4. a \in Seq(X) /\ b \in Seq(X) /\ c \in Seq(X)
      /\ Len(a) = Len(plan.carts) /\ Len(b) = Len(plan.touches) /\ Len(c) = Len(plan.order)
      /\ DOMAIN a = DOMAIN plan.carts /\ DOMAIN b = DOMAIN plan.touches /\ DOMAIN c = DOMAIN plan.order
  <2>1. a \in [1 .. Len(plan.carts) -> X] BY <1>3
  <2>2. b \in [1 .. Len(plan.touches) -> X] BY <1>3
  <2>3. c \in [1 .. Len(plan.order) -> X] BY <1>3
  <2> HIDE DEF a, b, c, X
  <2>4. a \in Seq(X) /\ Len(a) = Len(plan.carts) /\ DOMAIN a = DOMAIN plan.carts
    BY ONLY <1>3, <2>1, SequenceFrom
  <2>5. b \in Seq(X) /\ Len(b) = Len(plan.touches) /\ DOMAIN b = DOMAIN plan.touches
    BY ONLY <1>3, <2>2, SequenceFrom
  <2>6. c \in Seq(X) /\ Len(c) = Len(plan.order) /\ DOMAIN c = DOMAIN plan.order
    BY ONLY <1>3, <2>3, SequenceFrom
  <2> QED BY ONLY <2>4, <2>5, <2>6
<1>5. \A i \in DOMAIN plan.carts : a[i].kind = "cart" /\ a[i].who = plan.carts[i] OBVIOUS
<1>6. \A i \in DOMAIN plan.touches :
        b[i].kind = "touch" /\ b[i].who = plan.touches[i][2] /\ b[i].item = plan.touches[i][1] OBVIOUS
<1>7. \A i \in DOMAIN plan.order : c[i].kind = "hopper" /\ c[i].who = plan.order[i] OBVIOUS
<1> DEFINE all == a \o b \o c
<1>8. Callbacks = all BY DEF Callbacks
<1> HIDE DEF a, b, c, X
<1>9. /\ Len(Callbacks) = Len(a) + Len(b) + Len(c)
      /\ \A k \in 1 .. Len(Callbacks) :
           \/ k \in DOMAIN a /\ Callbacks[k] = a[k]
           \/ \E i \in DOMAIN b : k = Len(a) + i /\ Callbacks[k] = b[i]
           \/ \E i \in DOMAIN c : k = Len(a) + Len(b) + i /\ Callbacks[k] = c[i]
  <2>1. InParts(all, a, b, c) BY ONLY <1>4, ThreeParts
  <2> HIDE DEF all
  <2> QED BY ONLY <1>8, <2>1 DEF InParts
<1> DEFINE m == Len(plan.carts)
           r == Len(plan.touches)
<1>e. Earlier = m + r /\ m \in Nat /\ r \in Nat /\ DOMAIN plan.carts = 1 .. m
      /\ DOMAIN plan.touches = 1 .. r /\ Len(a) = m /\ Len(b) = r
  BY <1>3, <1>4 DEF Earlier
<1> HIDE DEF m, r
<1>10. Len(Callbacks) = Earlier + Len(plan.order) /\ Earlier \in Nat BY ONLY <1>3, <1>4, <1>9, <1>e
<1>11. ASSUME at \in 1 .. Len(Callbacks)
       PROVE  \/ /\ Current.kind = "cart" /\ Current.who \in Carts /\ at <= Earlier
              \/ /\ Current.kind = "touch" /\ Current.who \in Hoppers /\ Current.item \in Drops
                 /\ at <= Earlier
              \/ /\ Current.kind = "hopper" /\ Current.who \in Hoppers
                 /\ \E i \in DOMAIN plan.order : at = Earlier + i /\ Current.who = plan.order[i]
  <2>1. CASE at \in DOMAIN a /\ Callbacks[at] = a[at]
    <3>1. at \in DOMAIN plan.carts /\ Current = a[at] BY <1>4, <2>1 DEF Current
    <3>2. Current.kind = "cart" /\ Current.who = plan.carts[at] BY <1>5, <3>1
    <3>3. plan.carts[at] \in Carts BY <3>1 DEF Carts, ToSet
    <3>4. at <= Earlier BY ONLY <1>e, <3>1
    <3> QED BY <3>2, <3>3, <3>4
  <2>2. ASSUME NEW i \in DOMAIN b, at = Len(a) + i, Callbacks[at] = b[i]
        PROVE /\ Current.kind = "touch" /\ Current.who \in Hoppers /\ Current.item \in Drops
              /\ at <= Earlier
    <3>1. i \in DOMAIN plan.touches /\ Current = b[i] BY <1>4, <2>2 DEF Current
    <3>2. Current.kind = "touch" /\ Current.who = plan.touches[i][2] /\ Current.item = plan.touches[i][1]
      BY <1>6, <3>1
    <3>3. plan.touches[i] \in Drops \X Hoppers BY <1>2, <3>1
    <3>4. at <= Earlier BY ONLY <1>e, <2>2, <3>1
    <3> QED BY <3>2, <3>3, <3>4
  <2>3. ASSUME NEW i \in DOMAIN c, at = Len(a) + Len(b) + i, Callbacks[at] = c[i]
        PROVE /\ Current.kind = "hopper" /\ Current.who \in Hoppers
              /\ \E j \in DOMAIN plan.order : at = Earlier + j /\ Current.who = plan.order[j]
    <3>1. i \in DOMAIN plan.order /\ Current = c[i] BY <1>4, <2>3 DEF Current
    <3>2. Current.kind = "hopper" /\ Current.who = plan.order[i] BY <1>7, <3>1
    <3>3. plan.order[i] \in Hoppers BY <3>1 DEF Hoppers, Hopping, ToSet
    <3>4. at = Earlier + i BY ONLY <1>e, <2>3
    <3> QED BY <3>1, <3>2, <3>3, <3>4
  <2> QED BY <1>9, <1>11, <2>1, <2>2, <2>3
<1> QED BY <1>3, <1>10, <1>11

\* What a plan names is known.
LEMMA NamedKnown ==
  ASSUME plan \in Plans, NEW q \in Places, NEW ref \in plan.front[q] \cup plan.above[q]
  PROVE  Known(ref)
<1>1. Named(plan, ref) BY PlansAssumption DEF PlansAssumption, PlanLayout
<1>2. ref \in Refs /\ \A p \in ToSet(ref) : Kind[p] = "composter" => p \in DOMAIN plan.start.level
  BY <1>1 DEF Named
<1>3. ASSUME IsComposter(ref) PROVE ref[1] \in DOMAIN plan.start.level
  <2>1. KindOf(ref) = "composter" BY <1>3 DEF IsComposter
  <2>2. ToSet(ref) = {ref[1]} /\ KindOf(ref) = Kind[ref[1]] BY <1>2, <2>1, KindOfSingle
  <2> QED BY <1>2, <2>1, <2>2
<1> QED BY <1>2, <1>3 DEF Known

LEMMA HopperPlaces ==
  ASSUME plan \in Plans, NEW h \in Hoppers
  PROVE  h \in Places /\ Kind[h] = "hopper" /\ Known(<<h>>) /\ HoppersApart(plan, h)
<1>1. PlanParts(plan) /\ PlanLayout(plan) BY PlansAssumption DEF PlansAssumption
<1>2. PICK i \in DOMAIN plan.order : h = plan.order[i] BY DEF Hoppers, Hopping, ToSet
<1>3. plan.order \in Seq({q \in Places : Kind[q] = "hopper"}) BY <1>1 DEF PlanParts
<1>4. h \in Places /\ Kind[h] = "hopper" BY <1>2, <1>3
<1>5. HoppersApart(plan, h) BY <1>1 DEF PlanLayout, Hoppers
<1>6. Known(<<h>>) BY <1>4, OneOf DEF Known, IsComposter
<1> QED BY <1>4, <1>5, <1>6

LEMMA CartPlaces ==
  ASSUME plan \in Plans, NEW m \in Carts
  PROVE  /\ m \in Places /\ m \notin Hoppers /\ Known(<<m>>) /\ plan.near[m] \in Seq(Drops)
         /\ \A ref \in plan.above[m] : m \notin ToSet(ref)
<1>1. PlanParts(plan) /\ PlanLayout(plan) BY PlansAssumption DEF PlansAssumption
<1>2. PICK i \in DOMAIN plan.carts : m = plan.carts[i] BY DEF Carts, ToSet
<1>3. plan.carts \in Seq({q \in Places : Kind[q] = "hopper_minecart"}) BY <1>1 DEF PlanParts
<1>4. m \in Places /\ Kind[m] = "hopper_minecart" BY <1>2, <1>3
<1>5. m \notin Hoppers BY <1>4, HopperPlaces
<1>6. Known(<<m>>) BY <1>4, OneOf DEF Known, IsComposter
<1>7. plan.near[m] \in Seq(Drops) BY <1>1, <1>4 DEF PlanParts
<1>8. \A ref \in plan.above[m] : m \notin ToSet(ref) BY <1>1 DEF PlanLayout, Carts
<1> QED BY <1>4, <1>5, <1>6, <1>7, <1>8

LEMMA PullerFacts ==
  ASSUME plan \in Plans, NEW h \in Places, Known(<<h>>), \A ref \in plan.above[h] : h \notin ToSet(ref),
         NEW source, source = NoRef \/ source \in plan.above[h]
  PROVE  Puller(h, source)
<1>1. plan.over[h] \in Seq(Drops) BY PlansAssumption DEF PlansAssumption, PlanParts
<1>2. ASSUME source # NoRef PROVE Between(source, <<h>>)
  <2>1. Known(source) BY <1>2, NamedKnown
  <2>2. ToSet(source) \cap ToSet(<<h>>) = {} BY <1>2, OneOf
  <2> QED BY <2>1, <2>2 DEF Between
<1> QED BY <1>1, <1>2 DEF Puller

LEMMA MoverFacts ==
  ASSUME plan \in Plans, NEW h \in Hoppers, NEW target, target = NoRef \/ target \in plan.front[h],
         NEW source, source = NoRef \/ source \in plan.above[h]
  PROVE  Mover(h, target, source)
<1>1. h \in Places /\ Known(<<h>>) /\ HoppersApart(plan, h) BY HopperPlaces
<1>2. Puller(h, source)
  <2>1. \A ref \in plan.above[h] : h \notin ToSet(ref) BY <1>1 DEF HoppersApart
  <2> QED BY <1>1, <2>1, PullerFacts
<1>3. plan.into[h] \in Faces BY <1>1, PlansAssumption DEF PlansAssumption, PlanParts, Faces
<1>4. ASSUME target # NoRef PROVE Between(<<h>>, target)
  <2>1. Known(target) BY <1>1, <1>4, NamedKnown
  <2>2. ToSet(<<h>>) \cap ToSet(target) = {} BY <1>1, <1>4, OneOf DEF HoppersApart
  <2> QED BY <1>1, <2>1, <2>2 DEF Between
<1>5. ASSUME target # NoRef, NEW q \in ToSet(target) \cap From(source) PROVE Kind[q] # "hopper"
  BY <1>1, <1>5 DEF HoppersApart, From
<1> QED BY <1>2, <1>3, <1>4, <1>5 DEF Mover

\* A session in which nothing has moved yet.
Starts(s, t) ==
  /\ s \in Sessions /\ s.gone = {} /\ s.ticked = t /\ SameSlots(be, s.be)
  /\ \A i \in Items : Weight(s, i) = Held(be, drops, spent, i)

LEMMA StartFacts ==
  ASSUME StateTyped, NEW t \in [Hoppers -> {"never", "before", "now"}]
  PROVE  Starts(NewSession(t), t) /\ NewSession(t).be = be
<1> DEFINE s == NewSession(t)
<1>1. /\ s \in Sessions /\ s.be = be /\ s.gone = {} /\ s.ticked = t
      /\ \A i : Weight(s, i) = InCells(be, i) + OnGround(drops, i) + spent[i]
  BY NewSessionFacts
<1> HIDE DEF s
<1>2. Starts(s, t) BY <1>1 DEF Starts, SameSlots, Held
<1> QED BY <1>1, <1>2 DEF s

LEMMA StartWithCooldown ==
  ASSUME StateTyped, NEW t \in [Hoppers -> {"never", "before", "now"}], NEW h \in Places,
         NEW n \in -1 .. Cooldown
  PROVE  LET s == WithCooldown(NewSession(t), h, n)
         IN Starts(s, t) /\ s.be[h].cooldown = n /\ \A q \in Places \ {h} : s.be[q] = be[q]
<1> DEFINE r == NewSession(t)
           s == WithCooldown(r, h, n)
<1>1. Starts(r, t) /\ r.be = be BY StartFacts
<1> HIDE DEF r
<1>2. r \in Sessions BY <1>1 DEF Starts
<1>3. /\ Restocked(r, s) /\ SameSlots(r.be, s.be)
      /\ s.be[h].cooldown = n
      /\ \A q \in Places \ {h} : s.be[q] = r.be[q]
  BY <1>2, CooldownSet
<1> HIDE DEF s
<1>4. \A i \in Items : Weight(s, i) = Weight(r, i)
  <2> SUFFICES ASSUME NEW i \in Items PROVE Weight(s, i) = Weight(r, i) OBVIOUS
  <2>1. Weight(s, i) = InCells(s.be, i) + OnGround(Ground(r), i) + r.spent[i] BY <1>3, RestockedWeight
  <2>2. InCells(s.be, i) = InCells(r.be, i) BY <1>3, SlotsStay
  <2> QED BY <2>1, <2>2 DEF Weight
<1>5. Starts(s, t) BY <1>1, <1>3, <1>4 DEF Starts, Restocked
<1> QED BY <1>1, <1>3, <1>5 DEF s, r

\* What follows from a session that ends.
LEMMA FollowedFacts ==
  ASSUME StateTyped, NEW t \in [Hoppers -> {"never", "before", "now"}], NEW s, Starts(s, t),
         NEW u, Follows(s, u), \A i \in Items : Weight(u, i) = Weight(s, i),
         Notified(s.be, u.be, u.notes), Commit(u), plan' = plan, ticked' = t
  PROVE  Steady
<1>1. u \in Sessions /\ (Fits(s.be) => Fits(u.be)) BY DEF Follows
<1>2. SameSlots(be, s.be) BY DEF Starts
<1>3. Fits(be) => Fits(u.be) BY <1>1, <1>2, SlotsStay
<1>4. Notified(be, u.be, u.notes) BY <1>2 DEF Notified, SameSlots
<1>5. \A i \in Items : Weight(u, i) = Held(be, drops, spent, i) BY DEF Starts
<1> QED BY <1>1, <1>3, <1>4, <1>5, CommitFacts

LEMMA SelfFollowed ==
  ASSUME NEW s \in Sessions
  PROVE  Follows(s, s) /\ Notified(s.be, s.be, s.notes)
BY FollowsSelf DEF Notified

LEMMA ReceivedFacts ==
  ASSUME be \in Worlds, be' \in Worlds, NEW p \in Places
  PROVE  Received(p) <=> Empty(be, p) /\ ~ Empty(be', p)
<1> DEFINE D == 0 .. SlotCount[p] - 1
<1>1. DOMAIN be[p].slots = D /\ DOMAIN be'[p].slots = D
  <2>1. be[p].slots \in [D -> Stacks] BY WorldFields
  <2>2. be'[p].slots \in [D -> Stacks]
    <3> DEFINE b == be'
    <3> HIDE DEF b
    <3>1. b \in Worlds BY DEF b
    <3>2. b[p].slots \in [D -> Stacks] BY <3>1, WorldFields
    <3> QED BY <3>2 DEF b
  <2> QED BY <2>1, <2>2
<1>2. \A n \in D : be'[p].slots[n].count \in Nat
  <2> DEFINE b == be'
  <2> HIDE DEF b
  <2>1. b \in Worlds BY DEF b
  <2>2. \A n \in D : b[p].slots[n].count \in Nat BY <2>1, WorldFields, StackFields
  <2> QED BY <2>2 DEF b
<1>3. \A n \in D : be'[p].slots[n].count > 0 <=> be'[p].slots[n].count # 0
  <2> HIDE DEF D
  <2> QED BY <1>2
<1> QED BY <1>1, <1>3 DEF Received, Empty

\* A step after which no hopper waits for another's item that did not before.
Quiet ==
  /\ ticked' = ticked /\ arrived' \in [Hoppers -> -1 .. Cooldown]
  /\ \A p \in Hoppers :
       arrived'[p] = -1 \/ (arrived'[p] = arrived[p] /\ be'[p].cooldown = be[p].cooldown)

\* A cooldown after a hopper pushed in its tick.
Woken(p) ==
  be'[p].cooldown = IF Empty(be, p) /\ ~ Empty(be', p)
                    THEN IF ticked[p] = "now" THEN Cooldown - 1 ELSE Cooldown
                    ELSE be[p].cooldown

\* The tick of the i-th hopper.
Ticks(i) ==
  /\ i \in DOMAIN plan.order /\ at = Earlier + i /\ at' = at + 1
  /\ Current.kind = "hopper" /\ plan.order[i] \in Hoppers
  /\ ticked' = [ticked EXCEPT ![plan.order[i]] = "now"]
  /\ \A p \in Hoppers \ {plan.order[i]} : Woken(p)
  /\ \E moved : /\ Arrivals(plan.order[i], moved)
                /\ \/ moved
                   \/ be'[plan.order[i]].cooldown = Max({be[plan.order[i]].cooldown - 1, 0})
                   \/ Empty(be, plan.order[i]) /\ ~ Empty(be', plan.order[i])

LEMMA SkipsFacts ==
  ASSUME StateTyped, NEW h \in Hoppers, NEW p \in Hoppers \ {h}, NEW s,
         s.ticked = [ticked EXCEPT ![h] = "now"]
  PROVE  SkipsTick(s, p, <<h>>) <=> ticked[p] = "now"
<1>1. ticked \in [Hoppers -> {"never", "before", "now"}] BY DEF StateTyped
<1>2. s.ticked[h] = "now" /\ s.ticked[p] = ticked[p] BY <1>1
<1>3. KindOf(<<h>>) = "hopper"
  <2>1. h \in Places /\ Kind[h] = "hopper" BY HopperPlaces DEF StateTyped
  <2> QED BY <2>1, OneOf
<1>4. <<h>>[1] = h OBVIOUS
<1>5. SkipsTick(s, p, <<h>>) <=> ticked[p] # "never" /\ Rank(ticked[p]) >= Rank("now")
  BY <1>2, <1>3, <1>4 DEF SkipsTick
<1>6. Rank("now") = 2 /\ Rank("before") = 1 BY DEF Rank
<1>7. ticked[p] \in {"never", "before", "now"} BY <1>1
<1> QED BY <1>5, <1>6, <1>7

LEMMA TickContainerFacts ==
  ASSUME StateTyped, TickContainer
  PROVE  Steady /\ \E i : Ticks(i)
<1> DEFINE h == Current.who
           now == [ticked EXCEPT ![h] = "now"]
           left == be[h].cooldown - 1
           rest == Max({left, 0})
           s == WithCooldown(NewSession(now), h, rest)
<1>1. /\ at \in 1 .. Len(Callbacks) /\ at' = at + 1 /\ plan' = plan /\ Current.kind = "hopper"
      /\ ticked' = now
      /\ \/ Commit(s) /\ Arrivals(h, FALSE)
         \/ \E target \in Resolve(plan.front[h]), source \in Resolve(plan.above[h]), lucky \in BOOLEAN :
              LET out == TryMove(s, h, target, source, "none", lucky)
              IN Commit(out.s) /\ Arrivals(h, out.ok)
  BY DEF TickContainer, NextCallback
<1>2. plan \in Plans /\ be \in Worlds /\ ticked \in [Hoppers -> {"never", "before", "now"}]
  BY DEF StateTyped
<1>3. PICK i \in DOMAIN plan.order : at = Earlier + i /\ h = plan.order[i] /\ h \in Hoppers
  BY <1>1, <1>2, CallbackFacts
<1>4. h \in Places BY <1>2, <1>3, HopperPlaces
<1> HIDE DEF h
<1>5. now \in [Hoppers -> {"never", "before", "now"}] BY <1>2
<1>6. rest \in -1 .. Cooldown
  <2>1. left \in Int /\ left <= 7 BY <1>2, <1>4, WorldFields DEF Cooldown
  <2> HIDE DEF left
  <2>2. rest = IF left >= 0 THEN left ELSE 0 BY <2>1, MaxOfTwo
  <2> QED BY <2>1, <2>2 DEF Cooldown
<1> HIDE DEF now, rest
<1>7. Starts(s, now) /\ s.be[h].cooldown = rest /\ \A q \in Places \ {h} : s.be[q] = be[q]
  BY <1>4, <1>5, <1>6, StartWithCooldown
<1> HIDE DEF s
<1>8. s \in Sessions /\ s.gone = {} /\ s.ticked = now /\ SameSlots(be, s.be) BY <1>7 DEF Starts
<1>9. SUFFICES ASSUME NEW u, NEW moved, Commit(u), Arrivals(h, moved), Follows(s, u),
                      \A j \in Items : Weight(u, j) = Weight(s, j), Notified(s.be, u.be, u.notes),
                      \A p \in Hoppers \ {h} : Wakes(s, u, p, <<h>>),
                      ~ moved => \/ u.be[h].cooldown = s.be[h].cooldown
                                 \/ Empty(s.be, h) /\ ~ Empty(u.be, h)
               PROVE  Steady /\ \E j : Ticks(j)
  <2>1. CASE Commit(s) /\ Arrivals(h, FALSE)
    <3>1. Follows(s, s) /\ Notified(s.be, s.be, s.notes) BY <1>8, SelfFollowed
    <3>2. \A p \in Hoppers \ {h} : Wakes(s, s, p, <<h>>) BY DEF Wakes
    <3> QED BY <1>9, <2>1, <3>1, <3>2
  <2>2. ASSUME NEW target \in Resolve(plan.front[h]), NEW source \in Resolve(plan.above[h]),
               NEW lucky \in BOOLEAN,
               LET out == TryMove(s, h, target, source, "none", lucky)
               IN Commit(out.s) /\ Arrivals(h, out.ok)
        PROVE  Steady /\ \E j : Ticks(j)
    <3> DEFINE out == TryMove(s, h, target, source, "none", lucky)
    <3>1. Commit(out.s) /\ Arrivals(h, out.ok) BY <2>2
    <3>2. target = NoRef \/ target \in plan.front[h] BY DEF Resolve
    <3>3. source = NoRef \/ source \in plan.above[h] BY DEF Resolve
    <3>4. Mover(h, target, source) BY <1>2, <1>3, <3>2, <3>3, MoverFacts
    <3>5. Moves(s, out, h) BY <1>2, <1>8, <3>4, TryMoveFacts
    <3> HIDE DEF out
    <3>6. /\ Follows(s, out.s)
          /\ \A j \in Items : Weight(out.s, j) = Weight(s, j)
          /\ \A p \in Places : out.s.be[p].slots # s.be[p].slots => p \in out.s.notes
          /\ \A p \in Places \ {h} : Kind[p] = "hopper" => Wakes(s, out.s, p, <<h>>)
          /\ ~ out.ok => \/ out.s.be[h].cooldown = s.be[h].cooldown
                         \/ Empty(s.be, h) /\ ~ Empty(out.s.be, h)
      BY <3>5 DEF Moves
    <3>7. Notified(s.be, out.s.be, out.s.notes) BY <3>6 DEF Notified
    <3>8. \A p \in Hoppers \ {h} : Wakes(s, out.s, p, <<h>>) BY <1>2, <3>6, HopperPlaces
    <3> QED BY <1>9, <3>1, <3>6, <3>7, <3>8
  <2> QED BY <1>1, <2>1, <2>2
<1>10. Steady BY <1>1, <1>5, <1>7, <1>9, FollowedFacts
<1>11. be' = u.be BY <1>9 DEF Commit
<1>12. \A p \in Hoppers \ {h} : Woken(p)
  <2> SUFFICES ASSUME NEW p \in Hoppers \ {h} PROVE Woken(p) OBVIOUS
  <2>1. p \in Places /\ Kind[p] = "hopper" BY <1>2, HopperPlaces
  <2>2. Wakes(s, u, p, <<h>>) BY <1>9
  <2>3. SkipsTick(s, p, <<h>>) <=> ticked[p] = "now" BY <1>3, <1>8, SkipsFacts DEF now
  <2>4. s.be[p] = be[p] BY <1>7, <2>1
  <2>5. Empty(s.be, p) <=> Empty(be, p) BY <2>4 DEF Empty
  <2> QED BY <1>11, <2>1, <2>2, <2>3, <2>4, <2>5 DEF Wakes, Woken
<1>13. \/ moved
       \/ be'[h].cooldown = rest
       \/ Empty(be, h) /\ ~ Empty(be', h)
  <2>1. Empty(s.be, h) <=> Empty(be, h) BY <1>4, <1>8, SlotsStay
  <2> QED BY <1>7, <1>9, <1>11, <2>1
<1>14. Ticks(i)
  <2> HIDE DEF Arrivals
  <2> QED BY <1>1, <1>3, <1>9, <1>12, <1>13 DEF Ticks, now, rest
<1> QED BY <1>10, <1>14

Arrivable == arrived \in [Hoppers -> -1 .. Cooldown]

\* What Arrivals leaves, whatever it forgets.
LEMMA ArrivalsFacts ==
  ASSUME Arrivable, NEW h, NEW moved, Arrivals(h, moved)
  PROVE  /\ arrived' \in [Hoppers -> -1 .. Cooldown]
         /\ \A p \in Hoppers :
              arrived'[p] = IF p = h /\ (moved \/ Received(p)) THEN -1
                            ELSE IF p # h /\ Received(p)
                            THEN IF Current.kind = "hopper" THEN 0 ELSE -1
                            ELSE arrived[p]
<1>1. arrived' = [p \in Hoppers |->
                IF p = h /\ (moved \/ Received(p)) THEN -1
                ELSE IF p # h /\ Received(p) THEN IF Current.kind = "hopper" THEN 0 ELSE -1
                ELSE arrived[p]]
  BY DEF Arrivals
<1>2. \A p \in Hoppers : arrived[p] \in -1 .. Cooldown BY DEF Arrivable
<1>3. -1 \in -1 .. Cooldown /\ 0 \in -1 .. Cooldown BY DEF Cooldown
<1> HIDE DEF Received, Hoppers, Current
<1> QED BY <1>1, <1>2, <1>3

LEMMA QuietArrivals ==
  ASSUME Arrivable, StateTyped, StateTyped', NEW h, NEW moved, Arrivals(h, moved), Current.kind # "hopper",
         ticked' = ticked,
         \A p \in Hoppers : \/ p = h /\ moved
                            \/ be'[p].cooldown = be[p].cooldown
                            \/ Empty(be, p) /\ ~ Empty(be', p)
  PROVE  Quiet
<1>1. arrived' \in [Hoppers -> -1 .. Cooldown]
      /\ \A p \in Hoppers :
              arrived'[p] = IF p = h /\ (moved \/ Received(p)) THEN -1
                            ELSE IF p # h /\ Received(p)
                            THEN IF Current.kind = "hopper" THEN 0 ELSE -1
                            ELSE arrived[p]
  BY ArrivalsFacts
<1>2. be \in Worlds /\ be' \in Worlds /\ plan \in Plans BY DEF StateTyped, Worlds, Contents
<1>3. ASSUME NEW p \in Hoppers
      PROVE  arrived'[p] = -1 \/ (arrived'[p] = arrived[p] /\ be'[p].cooldown = be[p].cooldown)
  <2>1. p \in Places BY <1>2, HopperPlaces
  <2>2. Received(p) <=> Empty(be, p) /\ ~ Empty(be', p) BY <1>2, <2>1, ReceivedFacts
  <2> HIDE DEF Received, Current
  <2> QED BY <1>1, <2>2
<1> QED BY <1>1, <1>3 DEF Quiet

LEMMA OtherQuiet ==
  ASSUME Arrivable, StateTyped, StateTyped', OtherArrivals, ticked' = ticked, Undisturbed(be, be')
  PROVE  Quiet
<1>1. arrived' = [h \in Hoppers |-> IF Received(h) THEN -1 ELSE arrived[h]] BY DEF OtherArrivals
<1>2. be \in Worlds /\ be' \in Worlds /\ plan \in Plans BY DEF StateTyped, Worlds, Contents
<1>3. ASSUME NEW p \in Hoppers
      PROVE  arrived'[p] = -1 \/ (arrived'[p] = arrived[p] /\ be'[p].cooldown = be[p].cooldown)
  <2>1. p \in Places BY <1>2, HopperPlaces
  <2>2. Received(p) <=> Empty(be, p) /\ ~ Empty(be', p) BY <1>2, <2>1, ReceivedFacts
  <2> HIDE DEF Received
  <2> QED BY <1>1, <2>1, <2>2 DEF Undisturbed
<1>4. arrived' \in [Hoppers -> -1 .. Cooldown]
  <2> HIDE DEF Received
  <2>1. \A p \in Hoppers : arrived[p] \in -1 .. Cooldown BY DEF Arrivable
  <2>2. -1 \in -1 .. Cooldown BY DEF Cooldown
  <2> QED BY <1>1, <2>1, <2>2
<1> QED BY <1>3, <1>4 DEF Quiet

LEMMA TickCollisionFacts ==
  ASSUME StateTyped, Arrivable, TickCollision
  PROVE  Steady /\ Quiet
<1> DEFINE h == Current.who
           s == NewSession(ticked)
<1>1. /\ at \in 1 .. Len(Callbacks) /\ plan' = plan /\ Current.kind = "touch" /\ ticked' = ticked
      /\ \/ Commit(s) /\ arrived' = arrived
         \/ \E target \in Resolve(plan.front[h]), lucky \in BOOLEAN :
              LET out == TryMove(s, h, target, NoRef, Current.item, lucky)
              IN Commit(out.s) /\ Arrivals(h, out.ok)
  BY DEF TickCollision, NextCallback
<1>2. plan \in Plans /\ be \in Worlds /\ ticked \in [Hoppers -> {"never", "before", "now"}]
  BY DEF StateTyped
<1>3. h \in Hoppers /\ Current.item \in Drops BY <1>1, <1>2, CallbackFacts
<1>4. h \in Places BY <1>2, <1>3, HopperPlaces
<1> HIDE DEF h, s
<1>5. Starts(s, ticked) /\ s.be = be BY <1>2, StartFacts DEF s
<1>6. s \in Sessions /\ s.gone = {} /\ s.ticked = ticked BY <1>5 DEF Starts
<1>7. CASE Commit(s) /\ arrived' = arrived
  <2>1. Follows(s, s) /\ Notified(s.be, s.be, s.notes) BY <1>6, SelfFollowed
  <2>2. Steady BY <1>1, <1>2, <1>5, <1>7, <2>1, FollowedFacts
  <2>3. be' = be BY <1>5, <1>7 DEF Commit
  <2>4. Quiet BY <1>1, <1>7, <2>3 DEF Quiet, Arrivable
  <2> QED BY <2>2, <2>4
<1>8. ASSUME NEW target \in Resolve(plan.front[h]), NEW lucky \in BOOLEAN,
             LET out == TryMove(s, h, target, NoRef, Current.item, lucky)
             IN Commit(out.s) /\ Arrivals(h, out.ok)
      PROVE  Steady /\ Quiet
  <2> DEFINE out == TryMove(s, h, target, NoRef, Current.item, lucky)
  <2>1. Commit(out.s) /\ Arrivals(h, out.ok) BY <1>8
  <2>2. target = NoRef \/ target \in plan.front[h] BY DEF Resolve
  <2>3. Mover(h, target, NoRef) BY <1>2, <1>3, <2>2, MoverFacts
  <2>4. Moves(s, out, h)
    <3>1. Current.item \in Drops \cup {"none"} BY <1>3
    <3> QED BY <1>2, <1>6, <2>3, <3>1, TryMoveFacts
  <2> HIDE DEF out
  <2>5. /\ Follows(s, out.s)
        /\ \A j \in Items : Weight(out.s, j) = Weight(s, j)
        /\ \A p \in Places : out.s.be[p].slots # s.be[p].slots => p \in out.s.notes
        /\ \A p \in Places \ {h} : Kind[p] = "hopper" => Wakes(s, out.s, p, <<h>>)
        /\ ~ out.ok => \/ out.s.be[h].cooldown = s.be[h].cooldown
                       \/ Empty(s.be, h) /\ ~ Empty(out.s.be, h)
    BY <2>4 DEF Moves
  <2>6. Notified(s.be, out.s.be, out.s.notes) BY <2>5 DEF Notified
  <2>7. Steady BY <1>1, <1>2, <1>5, <2>1, <2>5, <2>6, FollowedFacts
  <2>8. be' = out.s.be BY <2>1 DEF Commit
  <2>9. ASSUME NEW p \in Hoppers
        PROVE  \/ p = h /\ out.ok
               \/ be'[p].cooldown = be[p].cooldown
               \/ Empty(be, p) /\ ~ Empty(be', p)
    <3>1. CASE p = h BY <1>5, <2>5, <2>8, <3>1
    <3>2. CASE p # h
      <4>1. p \in Places /\ Kind[p] = "hopper" BY <1>2, HopperPlaces
      <4>2. Wakes(s, out.s, p, <<h>>) BY <2>5, <3>2, <4>1
      <4> QED BY <1>5, <2>8, <4>2 DEF Wakes
    <3> QED BY <3>1, <3>2
  <2>10. StateTyped' BY <2>7 DEF Steady
  <2>11. Quiet BY <1>1, <2>1, <2>9, <2>10, QuietArrivals
  <2> QED BY <2>7, <2>11
<1> QED BY <1>1, <1>7, <1>8

LEMMA TickMinecartFacts ==
  ASSUME StateTyped, Arrivable, TickMinecart
  PROVE  Steady /\ Quiet
<1> DEFINE m == Current.who
           s == NewSession(ticked)
<1>1. /\ at \in 1 .. Len(Callbacks) /\ plan' = plan /\ Current.kind = "cart" /\ ticked' = ticked
      /\ Arrivals(m, FALSE)
      /\ \E source \in Resolve(plan.above[m]), lucky \in BOOLEAN :
           \E t \in {ThenNear(FirstOfCart(s, m, source, lucky), m, lucky), s} : Commit(t)
  BY DEF TickMinecart, NextCallback
<1>2. plan \in Plans /\ be \in Worlds /\ ticked \in [Hoppers -> {"never", "before", "now"}]
  BY DEF StateTyped
<1>3. m \in Carts BY <1>1, <1>2, CallbackFacts
<1>4. /\ m \in Places /\ m \notin Hoppers /\ Known(<<m>>) /\ plan.near[m] \in Seq(Drops)
      /\ \A ref \in plan.above[m] : m \notin ToSet(ref)
  BY <1>2, <1>3, CartPlaces
<1> HIDE DEF m, s
<1>5. Starts(s, ticked) /\ s.be = be BY <1>2, StartFacts DEF s
<1>6. s \in Sessions /\ s.gone = {} /\ s.ticked = ticked BY <1>5 DEF Starts
<1>7. SUFFICES ASSUME NEW t, Commit(t), Follows(s, t), \A i \in Items : Weight(t, i) = Weight(s, i),
                      Notified(s.be, t.be, t.notes),
                      \A p \in Places \ {m} : t.be[p].cooldown = s.be[p].cooldown
               PROVE  Steady /\ Quiet
  <2>1. PICK source \in Resolve(plan.above[m]), lucky \in BOOLEAN :
           \E t \in {ThenNear(FirstOfCart(s, m, source, lucky), m, lucky), s} : Commit(t)
    BY <1>1
  <2>2. CASE Commit(s)
    <3>1. Follows(s, s) /\ Notified(s.be, s.be, s.notes) BY <1>6, SelfFollowed
    <3> QED BY <1>7, <2>2, <3>1
  <2> DEFINE t == ThenNear(FirstOfCart(s, m, source, lucky), m, lucky)
  <2>3. CASE Commit(t)
    <3>1. source = NoRef \/ source \in plan.above[m] BY DEF Resolve
    <3>2. Puller(m, source) BY <1>2, <1>4, <3>1, PullerFacts
    <3>3. /\ Follows(s, t)
          /\ \A i \in Items : Weight(t, i) = Weight(s, i)
          /\ \A p \in Places : t.be[p].slots # s.be[p].slots => p \in t.notes
          /\ \A p \in Places \ {m} : t.be[p].cooldown = s.be[p].cooldown
      BY <1>2, <1>4, <1>6, <3>2, CartFacts
    <3> HIDE DEF t
    <3>4. Notified(s.be, t.be, t.notes) BY <3>3 DEF Notified
    <3> QED BY <1>7, <2>3, <3>3, <3>4
  <2> QED BY <2>1, <2>2, <2>3
<1>8. Steady BY <1>1, <1>2, <1>5, <1>7, FollowedFacts
<1>9. be' = t.be BY <1>7 DEF Commit
<1>10. \A p \in Hoppers : be'[p].cooldown = be[p].cooldown
  BY <1>2, <1>4, <1>5, <1>7, <1>9, HopperPlaces
<1>11. StateTyped' BY <1>8 DEF Steady
<1>12. Quiet BY <1>1, <1>10, <1>11, QuietArrivals
<1> QED BY <1>8, <1>12

-------------------------------------------------------------------------------
(* Types.                                                                   *)

TypeOK ==
  /\ StateTyped /\ Arrivable /\ notes \subseteq Places
  /\ at \in 0 .. Len(Callbacks) + 1
  /\ enabled \in [Hoppers \cup Carts -> BOOLEAN]
  /\ crafting \in [DOMAIN plan.output -> BOOLEAN]

\* A step that is no hopper's tick and does not end the game tick.
Passes == at' = at \/ (at \in 0 .. Earlier /\ at' = at + 1)

LEMMA InitTyped ==
  ASSUME Init
  PROVE  TypeOK
<1>1. plan \in Plans /\ PlanStart(plan) BY PlansAssumption DEF Init, PlansAssumption
<1>2. be \in Worlds BY <1>1, PlanStartTyped DEF Init, StartTyped
<1>3. level \in [DOMAIN plan.start.level -> 0 .. 8] /\ drops \in [Drops -> Stacks]
  BY <1>1 DEF Init, PlanStart
<1>4. spent \in [Items -> Int] /\ ticked \in [Hoppers -> {"never", "before", "now"}] BY DEF Init
<1>5. arrived \in [Hoppers -> -1 .. Cooldown] BY DEF Init, Cooldown
<1>6. at = 0 /\ notes = {} BY DEF Init
<1>7. Len(Callbacks) \in Nat BY <1>1, CallbackFacts
<1>8. enabled \in [Hoppers \cup Carts -> BOOLEAN] /\ crafting \in [DOMAIN plan.output -> BOOLEAN]
  BY DEF Init
<1> QED BY <1>1, <1>2, <1>3, <1>4, <1>5, <1>6, <1>7, <1>8 DEF TypeOK, StateTyped, Arrivable

\* Nothing the comparators could see has changed.
LEMMA IdleFacts ==
  ASSUME StateTyped, plan' = plan, UNCHANGED <<be, level, drops, spent>>, notes' \subseteq Places,
         ticked' \in [Hoppers -> {"never", "before", "now"}]
  PROVE  Steady
<1>1. StateTyped'
  BY DEF StateTyped, Worlds, Contents, Hoppers
<1>2. Notified(be, be', notes') BY DEF Notified
<1> QED BY <1>1, <1>2 DEF Steady

\* What a step does, of each kind.
LEMMA NextFacts ==
  ASSUME TypeOK, [Next]_vars
  PROVE  /\ Steady /\ plan' = plan /\ arrived' \in [Hoppers -> -1 .. Cooldown]
         /\ at' \in 0 .. Len(Callbacks) + 1
         /\ \/ Quiet /\ Passes
            \/ \E i : Ticks(i)
            \/ NextTick
<1>1. StateTyped /\ Arrivable /\ notes \subseteq Places /\ at \in 0 .. Len(Callbacks) + 1
  BY DEF TypeOK
<1>2. plan \in Plans /\ ticked \in [Hoppers -> {"never", "before", "now"}] BY <1>1 DEF StateTyped
<1>3. Len(Callbacks) = Earlier + Len(plan.order) /\ Earlier \in Nat /\ Len(plan.order) \in Nat
  BY <1>2, CallbackFacts
<1> DEFINE Goal == /\ Steady /\ plan' = plan /\ arrived' \in [Hoppers -> -1 .. Cooldown]
                   /\ at' \in 0 .. Len(Callbacks) + 1
                   /\ \/ Quiet /\ Passes
                      \/ \E i : Ticks(i)
                      \/ NextTick
<1>4. CASE TickContainer
  <2>1. Steady /\ \E i : Ticks(i) BY <1>1, <1>4, TickContainerFacts
  <2>2. plan' = plan /\ at \in 1 .. Len(Callbacks) /\ at' = at + 1
    BY <1>4 DEF TickContainer, NextCallback
  <2>3. PICK i : Ticks(i) BY <2>1
  <2>4. PICK moved : Arrivals(plan.order[i], moved) BY <2>3 DEF Ticks
  <2>5. arrived' \in [Hoppers -> -1 .. Cooldown] BY <1>1, <2>4, ArrivalsFacts
  <2>6. at' \in 0 .. Len(Callbacks) + 1 BY <1>3, <2>2
  <2> QED BY <2>1, <2>2, <2>5, <2>6
<1>5. CASE TickCollision
  <2>1. Steady /\ Quiet BY <1>1, <1>5, TickCollisionFacts
  <2>2. plan' = plan /\ at \in 1 .. Len(Callbacks) /\ at' = at + 1 /\ Current.kind = "touch"
    BY <1>5 DEF TickCollision, NextCallback
  <2>3. at <= Earlier BY <1>2, <2>2, CallbackFacts
  <2>4. Passes /\ at' \in 0 .. Len(Callbacks) + 1 BY <1>3, <2>2, <2>3 DEF Passes
  <2> QED BY <2>1, <2>2, <2>4 DEF Quiet
<1>6. CASE TickMinecart
  <2>1. Steady /\ Quiet BY <1>1, <1>6, TickMinecartFacts
  <2>2. plan' = plan /\ at \in 1 .. Len(Callbacks) /\ at' = at + 1 /\ Current.kind = "cart"
    BY <1>6 DEF TickMinecart, NextCallback
  <2>3. at <= Earlier BY <1>2, <2>2, CallbackFacts
  <2>4. Passes /\ at' \in 0 .. Len(Callbacks) + 1 BY <1>3, <2>2, <2>3 DEF Passes
  <2> QED BY <2>1, <2>2, <2>4 DEF Quiet
<1>7. CASE NextTick
  <2>1. plan' = plan /\ UNCHANGED <<be, level, drops, spent>> /\ notes' = notes /\ at' = 0
        /\ ticked' \in [Hoppers -> {"never", "before", "now"}]
    BY <1>7 DEF NextTick
  <2>2. Steady BY <1>1, <2>1, IdleFacts
  <2>3. arrived' \in [Hoppers -> -1 .. Cooldown]
    <3>1. arrived' = [h \in Hoppers |-> IF arrived[h] = -1 THEN -1 ELSE Min({arrived[h] + 1, Cooldown})]
      BY <1>7 DEF NextTick
    <3>2. ASSUME NEW h \in Hoppers
          PROVE  (IF arrived[h] = -1 THEN -1 ELSE Min({arrived[h] + 1, Cooldown})) \in -1 .. Cooldown
      <4> DEFINE a == arrived[h]
      <4>1. a \in -1 .. 8 BY <1>1 DEF Arrivable, Cooldown
      <4> HIDE DEF a
      <4>2. a + 1 \in Int /\ Cooldown \in Int BY <4>1 DEF Cooldown
      <4>3. Min({a + 1, Cooldown}) = IF a + 1 <= Cooldown THEN a + 1 ELSE Cooldown BY <4>2, MinOfTwo
      <4>4. (IF a = -1 THEN -1 ELSE Min({a + 1, Cooldown})) \in -1 .. Cooldown
        BY <4>1, <4>3 DEF Cooldown
      <4> QED BY <4>4 DEF a
    <3> QED BY <3>1, <3>2
  <2>4. 0 \in 0 .. Len(Callbacks) + 1 BY <1>3
  <2> QED BY <1>7, <2>1, <2>2, <2>3, <2>4
<1>8. ASSUME UNCHANGED <<plan, be, level, drops, spent, ticked, arrived, notes>>,
             at' = at \/ (at = 0 /\ at' = 1)
      PROVE  Goal
  <2>1. Steady BY <1>1, <1>2, <1>8, IdleFacts
  <2>2. Quiet BY <1>1, <1>8 DEF Quiet, Arrivable
  <2>3. Passes /\ at' \in 0 .. Len(Callbacks) + 1 BY <1>1, <1>3, <1>8 DEF Passes
  <2> QED BY <1>8, <2>1, <2>2, <2>3 DEF Quiet
<1>9. ASSUME NEW d, Steady, Undisturbed(be, be'), InTick(d), OtherArrivals
      PROVE  Goal
  <2>1. plan' = plan /\ ticked' = ticked /\ at' = at BY <1>9 DEF InTick
  <2>2. StateTyped' BY <1>9 DEF Steady
  <2>3. Quiet BY <1>1, <1>9, <2>1, <2>2, OtherQuiet
  <2>4. Passes /\ at' \in 0 .. Len(Callbacks) + 1 BY <1>1, <2>1 DEF Passes
  <2> QED BY <1>9, <2>1, <2>3, <2>4 DEF Quiet
<1>10. ASSUME NEW d \in Places, ExecuteDropper(d) PROVE Goal
  <2>1. InTick(d) /\ OtherArrivals BY <1>10 DEF ExecuteDropper
  <2>2. Steady /\ Undisturbed(be, be') BY <1>1, <1>10, DropperFacts
  <2> QED BY <1>9, <2>1, <2>2
<1>11. ASSUME NEW d \in Places, ExecuteDispenser(d) PROVE Goal
  <2>1. InTick(d) /\ OtherArrivals BY <1>11 DEF ExecuteDispenser
  <2>2. Steady /\ Undisturbed(be, be') BY <1>1, <1>11, DispenserFacts
  <2> QED BY <1>9, <2>1, <2>2
<1>12. ASSUME NEW d \in Places, ExecuteCrafter(d) PROVE Goal
  <2>1. InTick(d) /\ OtherArrivals BY <1>12 DEF ExecuteCrafter
  <2>2. Steady /\ Undisturbed(be, be') BY <1>1, <1>12, CrafterFacts
  <2> QED BY <1>9, <2>1, <2>2
<1>13. CASE EntitiesBegin BY <1>8, <1>13 DEF EntitiesBegin
<1>14. ASSUME NEW h \in plan.switched, RefreshEnabled(h) PROVE Goal
  BY <1>8, <1>14 DEF RefreshEnabled
<1>15. CASE UNCHANGED vars BY <1>8, <1>15 DEF vars
<1> HIDE DEF Goal
<1>16. Goal
  <2>1. Goal \/ TickContainer \/ TickCollision \/ TickMinecart \/ NextTick
    BY <1>10, <1>11, <1>12, <1>13, <1>14, <1>15 DEF Next, Goal
  <2> QED BY <1>4, <1>5, <1>6, <1>7, <2>1 DEF Goal
<1> QED BY <1>16 DEF Goal

\* Power, crafting and typing of what the delays do not depend on.
LEMMA SwitchTyped ==
  ASSUME TypeOK, [Next]_vars
  PROVE  /\ enabled' \in [Hoppers \cup Carts -> BOOLEAN]
         /\ crafting' \in [DOMAIN plan.output -> BOOLEAN]
<1>1. enabled \in [Hoppers \cup Carts -> BOOLEAN] /\ crafting \in [DOMAIN plan.output -> BOOLEAN]
      /\ plan \in Plans
  BY DEF TypeOK, StateTyped
<1>2. ASSUME NEW h \in plan.switched, RefreshEnabled(h)
      PROVE  enabled' \in [Hoppers \cup Carts -> BOOLEAN] /\ crafting' = crafting
  <2>1. h \in Hoppers \cup Carts
    BY <1>1, PlansAssumption DEF PlansAssumption, PlanParts, Hoppers, Carts
  <2> QED BY <1>1, <1>2, <2>1 DEF RefreshEnabled
<1>3. ASSUME NEW d \in Places, ExecuteCrafter(d)
      PROVE  crafting' \in [DOMAIN plan.output -> BOOLEAN] /\ enabled' = enabled
  <2>1. d \in DOMAIN plan.ejects /\ Kind[d] = "crafter" /\ enabled' = enabled
    BY <1>3 DEF ExecuteCrafter, InTick
  <2>2. d \in DOMAIN plan.output BY <1>1, <2>1, EjectorFacts
  <2>3. crafting' = [crafting EXCEPT ![d] = FALSE] \/ crafting' = [crafting EXCEPT ![d] = TRUE]
    BY <1>3 DEF ExecuteCrafter
  <2> QED BY <1>1, <2>1, <2>2, <2>3
<1>4. ASSUME NEW d \in Places, ExecuteDropper(d) \/ ExecuteDispenser(d)
      PROVE  enabled' = enabled /\ crafting' = crafting
  BY <1>4 DEF ExecuteDropper, ExecuteDispenser, InTick
<1>5. CASE TickContainer \/ TickCollision \/ TickMinecart
  BY <1>1, <1>5 DEF TickContainer, TickCollision, TickMinecart, NextCallback
<1>6. CASE NextTick \/ EntitiesBegin \/ UNCHANGED vars
  BY <1>1, <1>6 DEF NextTick, EntitiesBegin, vars
<1>7. CASE \E h \in plan.switched : RefreshEnabled(h) BY <1>1, <1>2, <1>7
<1>8. CASE \E d \in Places : ExecuteDropper(d) \/ ExecuteDispenser(d) \/ ExecuteCrafter(d)
  BY <1>1, <1>3, <1>4, <1>8
<1> QED BY <1>5, <1>6, <1>7, <1>8 DEF Next

LEMMA NextTyped ==
  ASSUME TypeOK, [Next]_vars
  PROVE  TypeOK'
<1>1. /\ Steady /\ plan' = plan /\ arrived' \in [Hoppers -> -1 .. Cooldown]
      /\ at' \in 0 .. Len(Callbacks) + 1
  BY NextFacts
<1>2. enabled' \in [Hoppers \cup Carts -> BOOLEAN] /\ crafting' \in [DOMAIN plan.output -> BOOLEAN]
  BY SwitchTyped
<1>3. Hoppers' = Hoppers /\ Carts' = Carts /\ Callbacks' = Callbacks
  BY <1>1 DEF Hoppers, Carts, Callbacks
<1>4. StateTyped' /\ notes' \subseteq Places BY <1>1 DEF Steady
<1>5. Arrivable' BY <1>1, <1>3 DEF Arrivable
<1> QED BY <1>1, <1>2, <1>3, <1>4, <1>5 DEF TypeOK

\* In every layout, whatever the order of the block entities, every slot holds
\* nothing or a positive number of an item, a composter has a level from 0 to 8,
\* a cooldown stays from -1 to 8, and a game tick makes its callbacks in turn
\* (rules/inventory.rs, rules/inventory/hopper.rs).
THEOREM HopperTyped == Spec => []TypeOK
<1>1. Init => TypeOK BY InitTyped
<1>2. TypeOK /\ [Next]_vars => TypeOK' BY NextTyped
<1> QED BY <1>1, <1>2, PTL DEF Spec

-------------------------------------------------------------------------------
(* Delays.                                                                  *)

\* What is left of the delay of a hopper into which another pushed.
Remaining(h) ==
  LET due == (IF ticked[h] = "now" THEN Cooldown - 1 ELSE Cooldown) - arrived[h]
  IN IF due >= 0 THEN due ELSE 0

\* The hoppers that have ticked are those the callbacks have passed, and a
\* hopper waits as long as it should at every moment of the game tick.
DelayInv ==
  /\ \A i \in DOMAIN plan.order : ticked[plan.order[i]] = "now" <=> at > Earlier + i
  /\ \A h \in Hoppers : arrived[h] # -1 => be[h].cooldown = Remaining(h)

LEMMA InOrder ==
  ASSUME plan \in Plans
  PROVE  /\ \A h \in Hoppers : \E i \in DOMAIN plan.order : h = plan.order[i]
         /\ \A i \in DOMAIN plan.order : plan.order[i] \in Hoppers
         /\ \A i, j \in DOMAIN plan.order : plan.order[i] = plan.order[j] => i = j
<1>1. IsInjective(plan.order) BY PlansAssumption DEF PlansAssumption, PlanParts
<1>2. \A i, j \in DOMAIN plan.order : plan.order[i] = plan.order[j] => i = j BY <1>1 DEF IsInjective
<1> QED BY <1>2 DEF Hoppers, Hopping, ToSet

LEMMA InitDelay ==
  ASSUME Init
  PROVE  DelayInv
<1>1. plan \in Plans /\ ticked = [h \in Hoppers |-> "never"] /\ arrived = [h \in Hoppers |-> -1] /\ at = 0
  BY DEF Init
<1>2. Earlier \in Nat /\ DOMAIN plan.order = 1 .. Len(plan.order) /\ Len(plan.order) \in Nat
  BY <1>1, CallbackFacts
<1>3. \A i \in DOMAIN plan.order : plan.order[i] \in Hoppers BY <1>1, InOrder
<1>4. \A i \in DOMAIN plan.order : ticked[plan.order[i]] # "now" BY <1>1, <1>3
<1>5. \A i \in DOMAIN plan.order : ~(at > Earlier + i) BY <1>1, <1>2
<1>6. \A h \in Hoppers : arrived[h] = -1 BY <1>1
<1> QED BY <1>4, <1>5, <1>6 DEF DelayInv

LEMMA QuietDelay ==
  ASSUME TypeOK, DelayInv, Quiet, Passes, plan' = plan
  PROVE  DelayInv'
<1>1. plan \in Plans /\ at \in Int BY DEF TypeOK, StateTyped
<1>2. Earlier \in Nat /\ DOMAIN plan.order = 1 .. Len(plan.order) /\ Len(plan.order) \in Nat
  BY <1>1, CallbackFacts
<1>3. Hoppers' = Hoppers /\ Earlier' = Earlier /\ ticked' = ticked BY DEF Hoppers, Earlier, Quiet
<1>4. \A i \in DOMAIN plan.order : ticked[plan.order[i]] = "now" <=> at > Earlier + i BY DEF DelayInv
<1>5. \A i \in DOMAIN plan.order : at' > Earlier + i <=> at > Earlier + i
  BY <1>1, <1>2 DEF Passes
<1>6. ASSUME NEW h \in Hoppers, arrived'[h] # -1
      PROVE  be'[h].cooldown = Remaining(h)'
  <2>1. arrived'[h] = arrived[h] /\ be'[h].cooldown = be[h].cooldown BY <1>6 DEF Quiet
  <2>2. be[h].cooldown = Remaining(h) BY <1>6, <2>1 DEF DelayInv
  <2>3. Remaining(h)' = Remaining(h) BY <1>3, <2>1 DEF Remaining
  <2> QED BY <2>1, <2>2, <2>3
<1>7. \A i \in DOMAIN plan.order : ticked'[plan.order[i]] = "now" <=> at' > Earlier + i
  BY <1>3, <1>4, <1>5
<1> QED BY <1>3, <1>6, <1>7 DEF DelayInv

LEMMA TickDelay ==
  ASSUME TypeOK, DelayInv, NEW i, Ticks(i), Steady, plan' = plan
  PROVE  DelayInv'
<1> DEFINE h == plan.order[i]
<1>1. plan \in Plans /\ be \in Worlds /\ Arrivable /\ ticked \in [Hoppers -> {"never", "before", "now"}]
  BY DEF TypeOK, StateTyped
<1>2. Earlier \in Nat /\ DOMAIN plan.order = 1 .. Len(plan.order) /\ Len(plan.order) \in Nat
  BY <1>1, CallbackFacts
<1>3. Hoppers' = Hoppers /\ Earlier' = Earlier BY DEF Hoppers, Earlier
<1>4. /\ i \in DOMAIN plan.order /\ at = Earlier + i /\ at' = at + 1
      /\ Current.kind = "hopper" /\ h \in Hoppers
      /\ ticked' = [ticked EXCEPT ![h] = "now"]
      /\ \A p \in Hoppers \ {h} : Woken(p)
  BY DEF Ticks
<1>5. PICK moved : /\ Arrivals(h, moved)
                   /\ \/ moved
                      \/ be'[h].cooldown = Max({be[h].cooldown - 1, 0})
                      \/ Empty(be, h) /\ ~ Empty(be', h)
  BY DEF Ticks
<1>6. be' \in Worlds BY DEF Steady, StateTyped, Worlds, Contents
<1>7. /\ \A p \in Hoppers : \E j \in DOMAIN plan.order : p = plan.order[j]
      /\ \A j, k \in DOMAIN plan.order : plan.order[j] = plan.order[k] => j = k
      /\ \A j \in DOMAIN plan.order : plan.order[j] \in Hoppers
  BY <1>1, InOrder
<1>8. \A j \in DOMAIN plan.order : ticked[plan.order[j]] = "now" <=> at > Earlier + j BY DEF DelayInv
<1>9. ASSUME NEW j \in DOMAIN plan.order
      PROVE  ticked'[plan.order[j]] = "now" <=> at' > Earlier + j
  <2>1. CASE j = i
    <3>1. ticked'[plan.order[j]] = "now" BY <1>1, <1>4, <2>1
    <3>2. at' > Earlier + j BY <1>2, <1>4, <2>1
    <3> QED BY <3>1, <3>2
  <2>2. CASE j # i
    <3>1. plan.order[j] # h /\ plan.order[j] \in Hoppers BY <1>4, <1>7, <2>2
    <3>2. ticked'[plan.order[j]] = ticked[plan.order[j]] BY <1>1, <1>4, <3>1
    <3>3. at' > Earlier + j <=> at > Earlier + j BY <1>2, <1>4, <2>2
    <3> QED BY <1>8, <3>2, <3>3
  <2> QED BY <2>1, <2>2
<1>10. ticked[h] # "now" /\ ticked'[h] = "now"
  <2>1. ~(at > Earlier + i) BY <1>2, <1>4
  <2> QED BY <1>1, <1>4, <1>8, <2>1
<1>11. \A p \in Hoppers : p \in Places BY <1>1, HopperPlaces
<1>12. \A p \in Hoppers :
              arrived'[p] = IF p = h /\ (moved \/ Received(p)) THEN -1
                            ELSE IF p # h /\ Received(p)
                            THEN IF Current.kind = "hopper" THEN 0 ELSE -1
                            ELSE arrived[p]
  BY <1>1, <1>5, ArrivalsFacts
<1> HIDE DEF h
<1>13. \A p \in Hoppers : Received(p) <=> Empty(be, p) /\ ~ Empty(be', p)
  BY <1>1, <1>6, <1>11, ReceivedFacts
<1> HIDE DEF Received, Current
<1>14. ASSUME NEW p \in Hoppers, arrived'[p] # -1
       PROVE  be'[p].cooldown = Remaining(p)'
  <2>1. CASE p # h
    <3>1. ticked'[p] = ticked[p] BY <1>1, <1>4, <2>1
    <3>2. Woken(p) BY <1>4, <2>1
    <3>3. CASE Received(p)
      <4>1. arrived'[p] = 0 BY <1>4, <1>12, <2>1, <3>3
      <4>2. be'[p].cooldown = IF ticked[p] = "now" THEN Cooldown - 1 ELSE Cooldown
        BY <1>13, <3>2, <3>3 DEF Woken
      <4> QED BY <3>1, <4>1, <4>2 DEF Remaining, Cooldown
    <3>4. CASE ~ Received(p)
      <4>1. arrived'[p] = arrived[p] BY <1>12, <2>1, <3>4
      <4>2. be'[p].cooldown = be[p].cooldown BY <1>13, <3>2, <3>4 DEF Woken
      <4>3. be[p].cooldown = Remaining(p) BY <1>14, <4>1 DEF DelayInv
      <4>4. Remaining(p)' = Remaining(p) BY <3>1, <4>1 DEF Remaining
      <4> QED BY <4>2, <4>3, <4>4
    <3> QED BY <3>3, <3>4
  <2>2. CASE p = h
    <3>1. ~ moved /\ ~ Received(p) /\ arrived'[p] = arrived[p] BY <1>12, <1>14, <2>2
    <3>2. be'[p].cooldown = Max({be[p].cooldown - 1, 0}) BY <1>5, <1>13, <2>2, <3>1
    <3> DEFINE c == be[p].cooldown
               a == arrived[p]
    <3>3. c = Remaining(p) BY <1>14, <2>2, <3>1 DEF DelayInv
    <3>4. c = IF Cooldown - a >= 0 THEN Cooldown - a ELSE 0 BY <1>10, <2>2, <3>3 DEF Remaining
    <3>5. a \in -1 .. Cooldown BY <2>2, <1>1 DEF Arrivable
    <3>6. Remaining(p)' = IF Cooldown - 1 - a >= 0 THEN Cooldown - 1 - a ELSE 0
      BY <1>10, <2>2, <3>1, <3>5 DEF Remaining, Cooldown
    <3>7. be'[p].cooldown = Max({c - 1, 0}) BY <3>2
    <3> HIDE DEF c, a
    <3>8. c \in Int BY <3>4, <3>5 DEF Cooldown
    <3>9. Max({c - 1, 0}) = IF c - 1 >= 0 THEN c - 1 ELSE 0 BY <3>8, MaxOfTwo
    <3>10. be'[p].cooldown = Remaining(p)' BY <3>4, <3>5, <3>6, <3>7, <3>8, <3>9 DEF Cooldown
    <3> QED BY <3>10
  <2> QED BY <2>1, <2>2
<1> QED BY <1>3, <1>9, <1>14 DEF DelayInv

LEMMA EndDelay ==
  ASSUME TypeOK, DelayInv, NextTick
  PROVE  DelayInv'
<1>1. plan \in Plans /\ Arrivable BY DEF TypeOK, StateTyped
<1>2. /\ Earlier \in Nat /\ DOMAIN plan.order = 1 .. Len(plan.order) /\ Len(plan.order) \in Nat
      /\ Len(Callbacks) = Earlier + Len(plan.order)
  BY <1>1, CallbackFacts
<1>3. /\ plan' = plan /\ be' = be /\ at = Len(Callbacks) + 1 /\ at' = 0
      /\ ticked' = [h \in Hoppers |-> IF ticked[h] = "never" THEN "never" ELSE "before"]
      /\ arrived' = [h \in Hoppers |-> IF arrived[h] = -1 THEN -1 ELSE Min({arrived[h] + 1, Cooldown})]
  BY DEF NextTick
<1>4. Hoppers' = Hoppers /\ Earlier' = Earlier BY <1>3 DEF Hoppers, Earlier
<1>5. /\ \A p \in Hoppers : \E j \in DOMAIN plan.order : p = plan.order[j]
      /\ \A j \in DOMAIN plan.order : plan.order[j] \in Hoppers
  BY <1>1, InOrder
<1>6. \A j \in DOMAIN plan.order : ticked[plan.order[j]] = "now"
  <2>1. \A j \in DOMAIN plan.order : at > Earlier + j BY <1>2, <1>3
  <2> QED BY <2>1 DEF DelayInv
<1>7. \A h \in Hoppers : ticked[h] = "now" /\ ticked'[h] = "before" BY <1>3, <1>5, <1>6
<1>8. \A j \in DOMAIN plan.order : ticked'[plan.order[j]] # "now" /\ ~(at' > Earlier + j)
  BY <1>2, <1>3, <1>5, <1>7
<1>9. ASSUME NEW h \in Hoppers, arrived'[h] # -1 PROVE be'[h].cooldown = Remaining(h)'
  <2> DEFINE a == arrived[h]
             c == be[h].cooldown
  <2>1. a \in -1 .. 8 BY <1>1 DEF Arrivable, Cooldown
  <2>2. a # -1 /\ arrived'[h] = Min({a + 1, Cooldown}) BY <1>3, <1>9
  <2>3. c = IF Cooldown - 1 - a >= 0 THEN Cooldown - 1 - a ELSE 0
    BY <1>7, <2>2 DEF DelayInv, Remaining
  <2>4. Remaining(h)' = IF Cooldown - arrived'[h] >= 0 THEN Cooldown - arrived'[h] ELSE 0
    BY <1>7 DEF Remaining
  <2>5. be'[h].cooldown = c BY <1>3
  <2> HIDE DEF a, c
  <2>6. a + 1 \in Int /\ Cooldown \in Int BY <2>1 DEF Cooldown
  <2>7. Min({a + 1, Cooldown}) = IF a + 1 <= Cooldown THEN a + 1 ELSE Cooldown BY <2>6, MinOfTwo
  <2> QED BY <2>1, <2>2, <2>3, <2>4, <2>5, <2>7 DEF Cooldown
<1> QED BY <1>4, <1>3, <1>8, <1>9 DEF DelayInv

LEMMA DelayKept ==
  ASSUME TypeOK, DelayInv, [Next]_vars
  PROVE  DelayInv'
<1>1. /\ Steady /\ plan' = plan
      /\ \/ Quiet /\ Passes
         \/ \E i : Ticks(i)
         \/ NextTick
  BY NextFacts
<1> QED BY <1>1, QuietDelay, TickDelay, EndDelay

LEMMA DelayImplies ==
  ASSUME TypeOK, DelayInv
  PROVE  SameDelayInEitherOrder
<1>1. SUFFICES ASSUME at = Len(Callbacks) + 1, NEW h \in Hoppers, arrived[h] # -1
               PROVE  be[h].cooldown = Max({0, Cooldown - 1 - arrived[h]})
  BY DEF SameDelayInEitherOrder
<1>2. plan \in Plans /\ Arrivable BY DEF TypeOK, StateTyped
<1>3. /\ Earlier \in Nat /\ DOMAIN plan.order = 1 .. Len(plan.order) /\ Len(plan.order) \in Nat
      /\ Len(Callbacks) = Earlier + Len(plan.order)
  BY <1>2, CallbackFacts
<1>4. PICK i \in DOMAIN plan.order : h = plan.order[i] BY <1>2, InOrder
<1>5. at > Earlier + i BY <1>1, <1>3
<1>6. ticked[h] = "now" BY <1>4, <1>5 DEF DelayInv
<1> DEFINE due == Cooldown - 1 - arrived[h]
<1>7. be[h].cooldown = IF due >= 0 THEN due ELSE 0 BY <1>1, <1>6 DEF DelayInv, Remaining
<1>8. due \in Int BY <1>1, <1>2 DEF Arrivable, Cooldown
<1> HIDE DEF due
<1>9. Max({due, 0}) = IF due >= 0 THEN due ELSE 0 BY <1>8, MaxOfTwo
<1>10. {due, 0} = {0, due} OBVIOUS
<1> QED BY <1>7, <1>9, <1>10 DEF due

\* An empty hopper into which another pushes waits equally long whichever of the
\* two ticks first, in every layout and whatever droppers, minecarts, items on
\* the ground and the levers do meanwhile: apply_incoming_cooldown makes it wait
\* one tick less exactly when it has already ticked (hopper.rs).
THEOREM HopperDelays == Spec => []SameDelayInEitherOrder
<1>1. Init => TypeOK /\ DelayInv BY InitTyped, InitDelay
<1>2. TypeOK /\ DelayInv /\ [Next]_vars => (TypeOK /\ DelayInv)' BY NextTyped, DelayKept
<1>3. TypeOK /\ DelayInv => SameDelayInEitherOrder BY DelayImplies
<1> QED BY <1>1, <1>2, <1>3, PTL DEF Spec

-------------------------------------------------------------------------------
(* Items.                                                                   *)

\* What there was at the start is still there, and nothing lies where it may not.
Balanced == \A i \in Items : Held(be, drops, spent, i)
                              = InCells(plan.start.be, i) + OnGround(plan.start.drops, i)

LEMMA InitBalanced ==
  ASSUME Init
  PROVE  Balanced /\ Fits(be)
<1>1. TypeOK BY InitTyped
<1>2. be = plan.start.be /\ drops = plan.start.drops /\ spent = [i \in Items |-> 0] BY DEF Init
<1>3. be \in Worlds /\ drops \in [Drops -> Stacks] BY <1>1 DEF TypeOK, StateTyped
<1>4. Balanced
  <2> SUFFICES ASSUME NEW i \in Items
               PROVE  Held(be, drops, spent, i) = InCells(plan.start.be, i) + OnGround(plan.start.drops, i)
    BY DEF Balanced
  <2>1. InCells(be, i) \in Nat /\ OnGround(drops, i) \in Nat BY <1>3, InCellsInt, OnGroundInt
  <2>2. Held(be, drops, spent, i) = InCells(be, i) + OnGround(drops, i) + 0 BY <1>2 DEF Held
  <2> QED BY <1>2, <2>1, <2>2
<1>5. Fits(be)
  <2> SUFFICES ASSUME NEW p \in Places, NEW n \in 0 .. SlotCount[p] - 1
               PROVE  FitsAt(p, n, be[p].slots[n])
    BY DEF Fits
  <2> DEFINE k == be[p].slots[n]
  <2>1. k \in Stacks BY <1>3, WorldFields
  <2>2. k.count \in Nat BY <2>1, StackFields
  <2>3. Count(plan.start.be[p].slots[n], k.item) = k.count BY <1>2 DEF Count
  <2> HIDE DEF k
  <2>4. ~(k.count > k.count) BY <2>2
  <2>5. FitsAt(p, n, k) BY <2>3, <2>4 DEF FitsAt
  <2> QED BY <2>5 DEF k
<1> QED BY <1>4, <1>5

LEMMA BalanceKept ==
  ASSUME TypeOK, Roomy, Balanced, [Next]_vars
  PROVE  Balanced' /\ Notified(be, be', notes') /\ (NoShelves /\ Fits(be) => Fits(be)')
<1>1. Steady /\ plan' = plan BY NextFacts
<1>2. /\ \A i \in Items : Held(be', drops', spent', i) = Held(be, drops, spent, i)
      /\ Notified(be, be', notes')
      /\ NoShelves /\ Fits(be) => Fits(be')
  BY <1>1 DEF Steady
<1>3. Balanced' BY <1>1, <1>2 DEF Balanced, Held
<1>4. Fits(be)' <=> Fits(be') BY <1>1 DEF Fits, FitsAt
<1> QED BY <1>2, <1>3, <1>4

LEMMA BalancedConserves ==
  ASSUME Balanced
  PROVE  Conserved
BY TotalParts DEF Conserved, Balanced, Held

LEMMA FitsRespects ==
  ASSUME TypeOK, Fits(be)
  PROVE  Respected
<1>1. be \in Worlds BY DEF TypeOK, StateTyped
<1> SUFFICES ASSUME NEW p \in Places, NEW n \in DOMAIN be[p].slots,
                    be[p].slots[n].count > Count(plan.start.be[p].slots[n], be[p].slots[n].item)
             PROVE  LET stack == be[p].slots[n]
                        without == [be |-> [be EXCEPT ![p].slots[n] = NoStack], level |-> level]
                    IN /\ stack.count <= StackLimit(<<p>>, n, stack.item)
                       /\ CanPlace(without, <<p>>, n, stack.item)
  BY DEF Respected
<1> DEFINE stack == be[p].slots[n]
<1>2. n \in 0 .. SlotCount[p] - 1 BY <1>1, WorldFields
<1>3. FitsAt(p, n, stack) BY <1>2 DEF Fits
<1>4. stack.count <= StackLimit(<<p>>, n, stack.item) /\ Suits(p, n, stack.item) BY <1>3 DEF FitsAt
<1> HIDE DEF stack
<1>5. CanPlace([be |-> [be EXCEPT ![p].slots[n] = NoStack], level |-> level], <<p>>, n, stack.item)
  BY <1>1, <1>2, <1>4, SuitsPlace
<1> QED BY <1>4, <1>5 DEF stack

\* As long as nothing lies over the capacity of what a dropper or a crafter
\* faces, no step loses an item or doubles one: what was in slots and on the
\* ground at the start is there, or was composted, launched or crafted.
THEOREM HoppersConserve == Spec /\ []Roomy => []Conserved
<1>1. Init => TypeOK /\ Balanced BY InitTyped, InitBalanced
<1>2. TypeOK /\ Balanced /\ Roomy /\ [Next]_vars => (TypeOK /\ Balanced)' BY NextTyped, BalanceKept
<1>3. Balanced => Conserved BY BalancedConserves
<1> QED BY <1>1, <1>2, <1>3, PTL DEF Spec

\* If droppers and crafters also face no container for which only hoppers have a
\* rule, then besides every stack that grew is no larger than its slot allows
\* and of an item the slot is for (can_place_in_slot, slot_stack_limit).
THEOREM HoppersRespect == Spec /\ [](Roomy /\ NoShelves) => []ItemsConserved
<1> DEFINE Inv == TypeOK /\ Balanced /\ Fits(be)
<1>1. Init => Inv BY InitTyped, InitBalanced
<1>2. Inv /\ Roomy /\ NoShelves /\ [Next]_vars => Inv' BY NextTyped, BalanceKept
<1>3. Inv => ItemsConserved BY BalancedConserves, FitsRespects DEF ItemsConserved
<1> QED BY <1>1, <1>2, <1>3, PTL DEF Spec

\* As long as nothing lies over that capacity, a callback that changes what lies
\* in a container tells its comparators, also after a transfer that failed half
\* way (session.rs, commit).
THEOREM HoppersNotify == Spec /\ []Roomy => ChangesAreNotified
<1>1. Init => TypeOK /\ Balanced BY InitTyped, InitBalanced
<1>2. TypeOK /\ Balanced /\ Roomy /\ [Next]_vars => (TypeOK /\ Balanced)' BY NextTyped, BalanceKept
<1>3. TypeOK /\ Balanced /\ Roomy /\ [Next]_vars
        => [\A p \in Places : (be[p].slots # be'[p].slots) => p \in notes']_vars
  BY BalanceKept DEF Notified
<1> QED BY <1>1, <1>2, <1>3, PTL DEF Spec, ChangesAreNotified

-------------------------------------------------------------------------------
(* When there is always room.                                               *)

\* No stack is over full, and what a dropper or a crafter faces takes as many
\* full stacks as it has slots.
AmpleFor(full) ==
  /\ full \in Nat \ {0}
  /\ \A i \in Items : MaxStack[i] <= full
  /\ \A p \in Places : \A n \in 0 .. SlotCount[p] - 1 : plan.start.be[p].slots[n].count <= full
  /\ \A d \in DOMAIN plan.ejects : Kind[d] \in {"dropper", "crafter"} =>
       \A ref \in plan.front[d] : full * SlotCount[ref[1]] <= Capacity[ref[1]]
Ample == \E full : AmpleFor(full)

LEMMA SumAtMost ==
  ASSUME NEW m \in Nat, NEW c \in Nat, NEW f, \A i \in 0 .. m - 1 : f[i] \in Nat /\ f[i] <= c
  PROVE  SumFunctionOnSet(f, 0 .. m - 1) <= c * m
<1> DEFINE below(k) == SumFunctionOnSet(f, 0 .. k - 1)
           T == {k \in 0 .. m : below(k) \in Nat /\ below(k) <= c * k}
<1>1. 0 \in T
  <2>1. 0 .. 0 - 1 = {} OBVIOUS
  <2>2. below(0) = 0 BY <2>1, SumEmpty
  <2>3. c * 0 = 0 OBVIOUS
  <2> QED BY <2>2, <2>3
<1>2. ASSUME NEW k \in 0 .. m - 1, k \in T PROVE k + 1 \in T
  <2>1. 0 .. (k + 1) - 1 = (0 .. k - 1) \cup {k} /\ k \notin 0 .. k - 1 OBVIOUS
  <2>2. IsFiniteSet(0 .. k - 1) BY FS_Interval
  <2>3. \A i \in (0 .. k - 1) \cup {k} : f[i] \in Int OBVIOUS
  <2>4. SumFunctionOnSet(f, (0 .. k - 1) \cup {k}) = f[k] + below(k) BY <2>1, <2>2, <2>3, SumInsert
  <2>5. below(k + 1) = f[k] + below(k) BY <2>1, <2>4
  <2>6. below(k) \in Nat /\ below(k) <= c * k /\ f[k] \in Nat /\ f[k] <= c BY <1>2
  <2> HIDE DEF below
  <2>7. c * (k + 1) = c * k + c /\ c * k \in Nat OBVIOUS
  <2>8. below(k + 1) \in Nat /\ below(k + 1) <= c * (k + 1) BY <2>5, <2>6, <2>7
  <2>9. k + 1 \in 0 .. m OBVIOUS
  <2> QED BY <2>8, <2>9
<1>3. 0 .. m \subseteq T
  <2> HIDE DEF T
  <2> QED BY <1>1, <1>2, UpTo
<1>4. m \in T BY <1>3
<1> QED BY <1>4

LEMMA AmpleRoom ==
  ASSUME TypeOK, Fits(be), Ample
  PROVE  Roomy
<1>1. PICK full : AmpleFor(full) BY DEF Ample
<1>2. plan \in Plans /\ be \in Worlds /\ StartTyped BY PlanStartTyped DEF TypeOK, StateTyped
<1>3. full \in Nat \ {0} BY <1>1 DEF AmpleFor
<1>4. ASSUME NEW p \in Places, NEW n \in 0 .. SlotCount[p] - 1
      PROVE  be[p].slots[n].count \in Nat /\ be[p].slots[n].count <= full
  <2> DEFINE k == be[p].slots[n]
             old == plan.start.be[p].slots[n]
  <2>1. k \in Stacks BY <1>2, WorldFields
  <2>2. old \in Stacks BY <1>2, WorldFields DEF StartTyped
  <2>3. k.count \in Nat /\ (k.count > 0 => k.item \in Items) /\ old.count \in Nat
    BY <2>1, <2>2, StackFields
  <2>4. old.count <= full BY <1>1 DEF AmpleFor
  <2>5. FitsAt(p, n, k) BY DEF Fits
  <2> HIDE DEF k, old
  <2>6. Count(old, k.item) <= full BY <1>3, <2>3, <2>4 DEF Count
  <2>7. CASE k.count > Count(old, k.item)
    <3>1. Count(old, k.item) \in Nat BY <2>3 DEF Count
    <3>2. k.item \in Items BY <2>3, <2>7, <3>1
    <3>3. k.count <= StackLimit(<<p>>, n, k.item) BY <2>5, <2>7 DEF FitsAt, old
    <3>4. StackLimit(<<p>>, n, k.item) \in {1, MaxStack[k.item]} BY DEF StackLimit
    <3>5. MaxStack[k.item] <= full /\ MaxStack[k.item] \in Nat
      BY <1>1, <3>2, ContainersAssumption DEF AmpleFor, ContainersAssumption
    <3>6. k.count <= full BY <1>3, <2>3, <3>3, <3>4, <3>5
    <3> QED BY <2>3, <3>6 DEF k
  <2>8. CASE ~(k.count > Count(old, k.item))
    <3>1. Count(old, k.item) \in Nat BY <2>3 DEF Count
    <3>2. k.count <= full BY <1>3, <2>3, <2>6, <2>8, <3>1
    <3> QED BY <2>3, <3>2 DEF k
  <2> QED BY <2>7, <2>8
<1>5. ASSUME NEW d \in DOMAIN plan.ejects, Kind[d] \in {"dropper", "crafter"}, NEW ref \in plan.front[d]
      PROVE  TotalIn(ref[1]) <= Capacity[ref[1]]
  <2> DEFINE p == ref[1]
             m == SlotCount[p]
             f == [n \in DOMAIN be[p].slots |-> be[p].slots[n].count]
  <2>1. p \in Places BY <1>2, <1>5, EjectorFacts
  <2>2. full * m <= Capacity[p] BY <1>1, <1>5 DEF AmpleFor
  <2> HIDE DEF p
  <2>3. m \in Nat /\ Capacity[p] \in Nat
    BY <2>1, ContainersAssumption, PlansAssumption DEF ContainersAssumption, PlansAssumption
  <2>4. DOMAIN be[p].slots = 0 .. m - 1 BY <1>2, <2>1, WorldFields
  <2>5. \A n \in 0 .. m - 1 : f[n] \in Nat /\ f[n] <= full BY <1>4, <2>1, <2>4
  <2>6. DOMAIN f = 0 .. m - 1 BY <2>4
  <2> HIDE DEF f
  <2>7. TotalIn(p) = SumFunctionOnSet(f, 0 .. m - 1) BY <2>6 DEF TotalIn, SumFunction, f
  <2> HIDE DEF m
  <2>8. SumFunctionOnSet(f, 0 .. m - 1) <= full * m BY <1>3, <2>3, <2>5, SumAtMost
  <2>9. TotalIn(p) \in Nat BY <1>2, <2>1, TotalInFacts
  <2>10. full * m \in Nat BY <1>3, <2>3
  <2>11. TotalIn(p) <= Capacity[p] BY <2>2, <2>3, <2>7, <2>8, <2>9, <2>10
  <2> QED BY <2>11 DEF p
<1> QED BY <1>5 DEF Roomy

\* Where no stack starts over full and the capacity of what droppers and
\* crafters face is that of its slots, as the reader of structures sets it
\* (redstone-io, structure.rs), nothing ever lies over the capacity: items are
\* conserved and comparators told, whatever happens.
THEOREM AmpleHoppers == Spec /\ Ample /\ NoShelves => []ItemsConserved /\ ChangesAreNotified
<1> DEFINE Inv == TypeOK /\ Balanced /\ Fits(be) /\ Ample /\ NoShelves
<1>1. Init /\ Ample /\ NoShelves => Inv BY InitTyped, InitBalanced
<1>2. Inv => Roomy BY AmpleRoom
<1>3. Inv /\ [Next]_vars => Inv'
  <2> SUFFICES ASSUME Inv, [Next]_vars PROVE Inv' OBVIOUS
  <2>1. plan' = plan BY NextFacts
  <2>2. Ample' /\ NoShelves' BY <2>1 DEF Ample, AmpleFor, NoShelves
  <2>3. TypeOK' /\ Balanced' /\ Fits(be)' BY <1>2, NextTyped, BalanceKept
  <2> QED BY <2>2, <2>3
<1>4. Inv => ItemsConserved BY BalancedConserves, FitsRespects DEF ItemsConserved
<1>5. Inv /\ [Next]_vars => [\A p \in Places : (be[p].slots # be'[p].slots) => p \in notes']_vars
  BY <1>2, BalanceKept DEF Notified
<1> QED BY <1>1, <1>3, <1>4, <1>5, PTL DEF Spec, ChangesAreNotified
===============================================================================
