----------------------------- MODULE Sums_proofs ------------------------------
(***************************************************************************)
(* Facts about sums over finite sets and about counting, for all functions *)
(* and sets, and the forms of induction they rest on.                      *)
(***************************************************************************)
EXTENDS Sums, FiniteSetTheorems, WellFoundedInduction, TLAPS

(* A nonempty set of naturals has a smallest element. *)
LEMMA Smallest ==
  ASSUME NEW K \in SUBSET Nat, K # {}
  PROVE  \E t \in K : \A u \in K : t <= u
<1>1. PICK t \in K : \A u \in K : <<u, t>> \notin OpToRel(<, Nat)
  BY NatLessThanWellFounded, WFMin, Zenon
<1>2. \A u \in K : ~(u < t)
  BY <1>1 DEF OpToRel
<1> QED
  BY <1>2

(* Induction over the naturals, for a set of them. *)
LEMMA Induction ==
  ASSUME NEW P \in SUBSET Nat, 0 \in P, \A n \in P : n + 1 \in P
  PROVE  P = Nat
<1>1. SUFFICES ASSUME Nat \ P # {} PROVE FALSE
  OBVIOUS
<1>2. PICK t \in Nat \ P : \A u \in Nat \ P : t <= u
  <2>1. Nat \ P \in SUBSET Nat
    OBVIOUS
  <2> QED
    BY <1>1, <2>1, Smallest
<1>3. t # 0 /\ t - 1 \in Nat
  BY <1>2
<1>4. t - 1 \in P
  BY <1>2, <1>3
<1> QED
  BY <1>2, <1>3, <1>4

(* Induction over the subsets of a finite set, for a set of them: a subset *)
(* is in P when all smaller ones are.                                      *)
LEMMA SubsetInduction ==
  ASSUME NEW S, IsFiniteSet(S), NEW P,
         \A T \in SUBSET S : (\A u \in SUBSET T : u # T => u \in P) => T \in P
  PROVE  SUBSET S \subseteq P
<1> DEFINE Q == {n \in Nat : \A T \in SUBSET S : Cardinality(T) <= n => T \in P}
<1>1. \A T \in SUBSET S : IsFiniteSet(T) /\ Cardinality(T) \in Nat
  BY FS_Subset, FS_CardinalityType
<1>2. \A T \in SUBSET S : \A u \in SUBSET T : u # T => Cardinality(u) < Cardinality(T)
  BY <1>1, FS_Subset
<1>3. 0 \in Q
  <2>1. ASSUME NEW T \in SUBSET S, Cardinality(T) <= 0, NEW u \in SUBSET T, u # T PROVE FALSE
    <3>1. u \in SUBSET S /\ Cardinality(u) < Cardinality(T)
      BY <1>2, <2>1
    <3>2. Cardinality(u) \in Nat /\ Cardinality(T) \in Nat
      BY <1>1, <3>1
    <3> QED
      BY <2>1, <3>1, <3>2
  <2> QED
    BY <2>1
<1>4. ASSUME NEW n \in Q PROVE n + 1 \in Q
  <2>1. n \in Nat
    BY <1>4
  <2>2. SUFFICES ASSUME NEW T \in SUBSET S, Cardinality(T) <= n + 1 PROVE T \in P
    BY <2>1
  <2>3. ASSUME NEW u \in SUBSET T, u # T PROVE u \in P
    <3>1. Cardinality(u) < Cardinality(T) /\ Cardinality(u) \in Nat /\ Cardinality(T) \in Nat
      BY <1>1, <1>2, <2>3
    <3>2. Cardinality(u) <= n
      BY <2>1, <2>2, <3>1
    <3> QED
      BY <1>4, <3>2
  <2> QED
    BY <2>3
<1> HIDE DEF Q
<1>5. Q = Nat
  <2>1. Q \in SUBSET Nat
    BY DEF Q
  <2> QED
    BY <1>3, <1>4, <2>1, Induction
<1>6. ASSUME NEW T \in SUBSET S PROVE T \in P
  <2>1. Cardinality(T) \in Q
    BY <1>1, <1>5
  <2> QED
    BY <1>1, <2>1 DEF Q
<1> QED
  BY <1>6

-----------------------------------------------------------------------------
(* The recursion of MapThenSumSet. *)

Pick(s) == CHOOSE x \in s : TRUE

(* g is the partial sums of f below S. *)
IsIter(f, S, g) ==
    g = [s \in SUBSET S |-> IF s = {} THEN 0 ELSE f[Pick(s)] + g[s \ {Pick(s)}]]

Iter(f, S) == CHOOSE g : IsIter(f, S, g)

(* A sum is the last of its partial sums. *)
LEMMA SumIsIter == \A f, S : SumOver(f, S) = Iter(f, S)[S]
BY Zenon DEF SumOver, MapThenSumSet, MapThenFoldSet, Iter, IsIter, Pick

(* The element that is picked is one of the set. *)
LEMMA Picked == \A s : s # {} => Pick(s) \in s
BY Zenon DEF Pick

(* The recursion equation below S. *)
LEMMA IterBelow ==
  ASSUME NEW f, NEW S, NEW g, IsIter(f, S, g), NEW t \in SUBSET S
  PROVE  /\ t = {} => g[t] = 0
         /\ t # {} => g[t] = f[Pick(t)] + g[t \ {Pick(t)}]
<1>1. g = [s \in SUBSET S |-> IF s = {} THEN 0 ELSE f[Pick(s)] + g[s \ {Pick(s)}]]
  BY DEF IsIter
<1> DEFINE r == [s \in SUBSET S |-> IF s = {} THEN 0 ELSE f[Pick(s)] + g[s \ {Pick(s)}]]
<1>2. r[t] = IF t = {} THEN 0 ELSE f[Pick(t)] + g[t \ {Pick(t)}]
  OBVIOUS
<1> QED
  BY <1>1, <1>2

(* The empty sum starts the recursion. *)
LEMMA IterEmpty == \A f, S, g : IsIter(f, S, g) => g[{}] = 0
<1> SUFFICES ASSUME NEW f, NEW S, NEW g, IsIter(f, S, g) PROVE g[{}] = 0
  OBVIOUS
<1>1. {} \in SUBSET S
  OBVIOUS
<1> QED
  BY <1>1, IterBelow

(* The recursion has a solution below every finite set, and the solutions  *)
(* agree where they overlap.                                               *)
Solved(f, s) ==
    /\ IsIter(f, s, Iter(f, s))
    /\ \A t \in SUBSET s : Iter(f, s)[t] = Iter(f, t)[t]

(* A set is solved when the sets below it are. *)
LEMMA SolvedByOne ==
  ASSUME NEW f, NEW S, IsFiniteSet(S), \A T \in SUBSET S : T # S => Solved(f, T)
  PROVE  Solved(f, S)
<1> DEFINE V(t) == Iter(f, t)[t]
           h == [t \in SUBSET S |-> IF t = {} THEN 0 ELSE f[Pick(t)] + V(t \ {Pick(t)})]
<1>1. ASSUME NEW t \in SUBSET S, t # S
      PROVE  V(t) = IF t = {} THEN 0 ELSE f[Pick(t)] + V(t \ {Pick(t)})
  <2>1. IsIter(f, t, Iter(f, t)) /\ \A u \in SUBSET t : Iter(f, t)[u] = V(u)
    BY <1>1 DEF Solved
  <2>2. CASE t = {}
    BY <2>1, <2>2, IterEmpty
  <2>3. CASE t # {}
    <3>1. Iter(f, t)[t] = f[Pick(t)] + Iter(f, t)[t \ {Pick(t)}]
      BY <2>1, <2>3, IterBelow
    <3>2. t \ {Pick(t)} \in SUBSET t
      OBVIOUS
    <3> QED
      BY <2>1, <2>3, <3>1, <3>2, Zenon
  <2> QED
    BY <2>2, <2>3
<1> HIDE DEF V
<1>2. \A t \in SUBSET S : t # {} => t \ {Pick(t)} \in SUBSET S /\ t \ {Pick(t)} # S
  BY Picked
<1>3. \A t \in SUBSET S : t # {} => h[t \ {Pick(t)}] = V(t \ {Pick(t)})
  BY <1>1, <1>2
<1>4. h = [t \in SUBSET S |-> IF t = {} THEN 0 ELSE f[Pick(t)] + h[t \ {Pick(t)}]]
  BY <1>3
<1>5. IsIter(f, S, h)
  BY <1>4 DEF IsIter
<1> HIDE DEF h
<1>6. IsIter(f, S, Iter(f, S))
  BY <1>5, Zenon DEF Iter
<1>7. \A t \in SUBSET S : t # S => Iter(f, S)[t] = V(t)
  <2> DEFINE P == {t \in SUBSET S : t # S => Iter(f, S)[t] = V(t)}
  <2>1. ASSUME NEW t \in SUBSET S, \A u \in SUBSET t : u # t => u \in P PROVE t \in P
    <3>1. SUFFICES ASSUME t # S PROVE Iter(f, S)[t] = V(t)
      OBVIOUS
    <3>2. CASE t = {}
      BY <1>1, <1>6, <3>1, <3>2, IterEmpty
    <3>3. CASE t # {}
      <4>1. Iter(f, S)[t] = f[Pick(t)] + Iter(f, S)[t \ {Pick(t)}]
        BY <1>6, <3>3, IterBelow
      <4>2. t \ {Pick(t)} \in SUBSET t /\ t \ {Pick(t)} # t /\ t \ {Pick(t)} # S
        BY <3>3, Picked
      <4>3. Iter(f, S)[t \ {Pick(t)}] = V(t \ {Pick(t)})
        BY <2>1, <4>2
      <4>4. V(t) = f[Pick(t)] + V(t \ {Pick(t)})
        BY <1>1, <3>1, <3>3
      <4> QED
        BY <4>1, <4>3, <4>4
    <3> QED
      BY <3>2, <3>3
  <2> HIDE DEF P
  <2>2. SUBSET S \subseteq P
    BY <2>1, SubsetInduction
  <2> QED
    BY <2>2 DEF P
<1> QED
  BY <1>6, <1>7 DEF Solved, V

(* The recursion is solved below every finite set. *)
LEMMA AllSolved ==
  ASSUME NEW f, NEW S, IsFiniteSet(S)
  PROVE  Solved(f, S)
<1> DEFINE P == {t \in SUBSET S : Solved(f, t)}
<1>1. ASSUME NEW t \in SUBSET S, \A u \in SUBSET t : u # t => u \in P PROVE t \in P
  <2>1. IsFiniteSet(t)
    BY FS_Subset
  <2> QED
    BY <1>1, <2>1, SolvedByOne
<1> HIDE DEF P
<1>2. SUBSET S \subseteq P
  BY <1>1, SubsetInduction
<1> QED
  BY <1>2 DEF P

(* How MapThenSumSet takes a sum apart. *)
LEMMA SumUnfolds ==
  ASSUME NEW f, NEW S, IsFiniteSet(S)
  PROVE  /\ S = {} => SumOver(f, S) = 0
         /\ S # {} => SumOver(f, S) = f[Pick(S)] + SumOver(f, S \ {Pick(S)})
<1>1. Solved(f, S)
  BY AllSolved
<1>2. S \in SUBSET S /\ S \ {Pick(S)} \in SUBSET S
  OBVIOUS
<1>3. Iter(f, S)[S \ {Pick(S)}] = SumOver(f, S \ {Pick(S)}) /\ SumOver(f, S) = Iter(f, S)[S]
  BY <1>1, <1>2, SumIsIter, Zenon DEF Solved
<1>4. /\ S = {} => Iter(f, S)[S] = 0
      /\ S # {} => Iter(f, S)[S] = f[Pick(S)] + Iter(f, S)[S \ {Pick(S)}]
  BY <1>1, <1>2, IterBelow DEF Solved
<1> QED
  BY <1>3, <1>4

-----------------------------------------------------------------------------
(* Sums. *)

(* A sum over a finite set of integers is one. *)
LEMMA SumInt ==
  ASSUME NEW S, IsFiniteSet(S), NEW f, \A x \in S : f[x] \in Int
  PROVE  SumOver(f, S) \in Int
<1> DEFINE P == {T \in SUBSET S : SumOver(f, T) \in Int}
<1>1. ASSUME NEW T \in SUBSET S, \A u \in SUBSET T : u # T => u \in P PROVE T \in P
  <2>1. IsFiniteSet(T)
    BY FS_Subset
  <2>2. CASE T = {}
    BY <2>1, <2>2, SumUnfolds
  <2>3. CASE T # {}
    <3>1. Pick(T) \in T /\ T \ {Pick(T)} \in SUBSET T /\ T \ {Pick(T)} # T
      BY <2>3, Picked
    <3>2. SumOver(f, T) = f[Pick(T)] + SumOver(f, T \ {Pick(T)})
      BY <2>1, <2>3, SumUnfolds
    <3>3. SumOver(f, T \ {Pick(T)}) \in Int /\ f[Pick(T)] \in Int
      BY <1>1, <3>1
    <3> QED
      BY <3>2, <3>3
  <2> QED
    BY <2>2, <2>3
<1> HIDE DEF P
<1>2. SUBSET S \subseteq P
  BY <1>1, SubsetInduction
<1> QED
  BY <1>2 DEF P

(* A sum does not depend on the order: any element can be taken first. *)
LEMMA SumTake ==
  ASSUME NEW S, IsFiniteSet(S), NEW f, \A x \in S : f[x] \in Int, NEW x \in S
  PROVE  SumOver(f, S) = f[x] + SumOver(f, S \ {x})
<1> DEFINE P == {T \in SUBSET S : \A y \in T : SumOver(f, T) = f[y] + SumOver(f, T \ {y})}
<1>0. \A T \in SUBSET S : IsFiniteSet(T) /\ SumOver(f, T) \in Int
  BY FS_Subset, SumInt
<1>1. ASSUME NEW T \in SUBSET S, \A u \in SUBSET T : u # T => u \in P PROVE T \in P
  <2>1. SUFFICES ASSUME NEW y \in T PROVE SumOver(f, T) = f[y] + SumOver(f, T \ {y})
    OBVIOUS
  <2> DEFINE c == Pick(T)
  <2>2. c \in T
    BY Picked
  <2>3. SumOver(f, T) = f[c] + SumOver(f, T \ {c})
    BY <1>0, SumUnfolds
  <2> HIDE DEF c
  <2>4. CASE y = c
    BY <2>3, <2>4
  <2>5. CASE y # c
    <3>1. T \ {c} \in P /\ T \ {y} \in P
      BY <1>1, <2>2
    <3>2. y \in T \ {c} /\ c \in T \ {y}
      BY <2>2, <2>5
    <3>3. SumOver(f, T \ {c}) = f[y] + SumOver(f, (T \ {c}) \ {y})
      BY <3>1, <3>2
    <3>4. SumOver(f, T \ {y}) = f[c] + SumOver(f, (T \ {y}) \ {c})
      BY <3>1, <3>2
    <3>5. (T \ {y}) \ {c} = (T \ {c}) \ {y} /\ (T \ {c}) \ {y} \in SUBSET S
      OBVIOUS
    <3>7. SumOver(f, T \ {y}) = f[c] + SumOver(f, (T \ {c}) \ {y})
      BY <3>4, <3>5
    <3>6. SumOver(f, (T \ {c}) \ {y}) \in Int /\ f[c] \in Int /\ f[y] \in Int
      BY <1>0, <2>2, <3>5
    <3> QED
      BY <2>3, <3>3, <3>6, <3>7
  <2> QED
    BY <2>4, <2>5
<1> HIDE DEF P
<1>2. SUBSET S \subseteq P
  BY <1>1, SubsetInduction
<1> QED
  BY <1>2 DEF P

(* Induction one element at a time. *)
LEMMA ElementInduction ==
  ASSUME NEW S, IsFiniteSet(S), NEW P, {} \in P,
         \A T \in SUBSET S, x \in S : x \notin T /\ T \in P => T \cup {x} \in P
  PROVE  SUBSET S \subseteq P
<1>1. ASSUME NEW T \in SUBSET S, \A u \in SUBSET T : u # T => u \in P PROVE T \in P
  <2>1. CASE T = {}
    BY <2>1
  <2>2. CASE T # {}
    <3>1. PICK x \in T : TRUE
      BY <2>2
    <3>2. T \ {x} \in P /\ T \ {x} \in SUBSET S /\ x \in S /\ x \notin T \ {x}
      BY <1>1, <3>1
    <3>3. (T \ {x}) \cup {x} \in P
      BY <3>2
    <3>4. (T \ {x}) \cup {x} = T
      OBVIOUS
    <3> QED
      BY <3>3, <3>4
  <2> QED
    BY <2>1, <2>2
<1> QED
  BY <1>1, SubsetInduction

(* The sum over nothing. *)
LEMMA SumEmpty == \A f : SumOver(f, {}) = 0
BY SumUnfolds, FS_EmptySet

(* One more element. *)
LEMMA SumAdd ==
  ASSUME NEW S, IsFiniteSet(S), NEW x, x \notin S, NEW f, \A y \in S \cup {x} : f[y] \in Int
  PROVE  SumOver(f, S \cup {x}) = SumOver(f, S) + f[x]
<1>1. IsFiniteSet(S \cup {x})
  BY FS_AddElement
<1>2. (S \cup {x}) \ {x} = S /\ x \in S \cup {x}
  OBVIOUS
<1>3. SumOver(f, S \cup {x}) = f[x] + SumOver(f, (S \cup {x}) \ {x})
  BY <1>1, <1>2, SumTake
<1>4. SumOver(f, S) \in Int /\ f[x] \in Int
  BY <1>2, SumInt
<1>5. SumOver(f, (S \cup {x}) \ {x}) = SumOver(f, S)
  BY <1>2, Zenon
<1> QED
  BY <1>3, <1>4, <1>5

(* What is summed matters only on the set. *)
LEMMA SumSame ==
  ASSUME NEW S, IsFiniteSet(S), NEW f, NEW g, \A x \in S : f[x] \in Int /\ g[x] = f[x]
  PROVE  SumOver(g, S) = SumOver(f, S)
<1> DEFINE P == {T \in SUBSET S : SumOver(g, T) = SumOver(f, T)}
<1>1. {} \in P
  BY SumEmpty
<1>2. ASSUME NEW T \in SUBSET S, NEW x \in S, x \notin T, T \in P PROVE T \cup {x} \in P
  <2>1. IsFiniteSet(T) /\ T \cup {x} \in SUBSET S
    BY FS_Subset
  <2>0. \A y \in T \cup {x} : g[y] \in Int
    BY <2>1
  <2>2. SumOver(g, T \cup {x}) = SumOver(g, T) + g[x]
    BY <1>2, <2>0, <2>1, SumAdd
  <2>3. SumOver(f, T \cup {x}) = SumOver(f, T) + f[x]
    BY <1>2, <2>1, SumAdd
  <2> QED
    BY <1>2, <2>1, <2>2, <2>3
<1> HIDE DEF P
<1>3. SUBSET S \subseteq P
  BY <1>1, <1>2, ElementInduction
<1> QED
  BY <1>3 DEF P

(* Two parts. *)
LEMMA SumUnion ==
  ASSUME NEW S, IsFiniteSet(S), NEW T, IsFiniteSet(T), S \cap T = {},
         NEW f, \A x \in S \cup T : f[x] \in Int
  PROVE  SumOver(f, S \cup T) = SumOver(f, S) + SumOver(f, T)
<1> DEFINE P == {U \in SUBSET T : SumOver(f, S \cup U) = SumOver(f, S) + SumOver(f, U)}
<1>0. SumOver(f, S) \in Int
  BY SumInt
<1>1. {} \in P
  <2>1. S \cup {} = S
    OBVIOUS
  <2> QED
    BY <1>0, <2>1, SumEmpty
<1>2. ASSUME NEW U \in SUBSET T, NEW x \in T, x \notin U, U \in P PROVE U \cup {x} \in P
  <2>1. IsFiniteSet(U) /\ IsFiniteSet(S \cup U) /\ U \cup {x} \in SUBSET T
    BY FS_Subset, FS_Union
  <2>2. SumOver(f, U \cup {x}) = SumOver(f, U) + f[x]
    BY <1>2, <2>1, SumAdd
  <2>3. x \notin S \cup U /\ \A y \in (S \cup U) \cup {x} : f[y] \in Int
    BY <1>2
  <2>4. SumOver(f, (S \cup U) \cup {x}) = SumOver(f, S \cup U) + f[x]
    BY <2>1, <2>3, SumAdd
  <2>5. SumOver(f, (S \cup U) \cup {x}) = SumOver(f, S \cup (U \cup {x}))
    <3>1. (S \cup U) \cup {x} = S \cup (U \cup {x})
      OBVIOUS
    <3> QED
      BY <3>1, Zenon
  <2>6. SumOver(f, U) \in Int /\ f[x] \in Int
    BY <2>1, SumInt
  <2>7. SumOver(f, S \cup U) = SumOver(f, S) + SumOver(f, U)
    BY <1>2
  <2>8. SumOver(f, S \cup (U \cup {x})) = SumOver(f, S) + SumOver(f, U \cup {x})
    BY <1>0, <2>2, <2>4, <2>5, <2>6, <2>7
  <2> QED
    BY <2>1, <2>8
<1> HIDE DEF P
<1>3. SUBSET T \subseteq P
  BY <1>1, <1>2, ElementInduction
<1> QED
  BY <1>3 DEF P

(* What is nowhere negative has no negative sum. *)
LEMMA SumNat ==
  ASSUME NEW S, IsFiniteSet(S), NEW f, \A x \in S : f[x] \in Nat
  PROVE  SumOver(f, S) \in Nat
<1> DEFINE P == {T \in SUBSET S : SumOver(f, T) \in Nat}
<1>1. {} \in P
  BY SumEmpty
<1>2. ASSUME NEW T \in SUBSET S, NEW x \in S, x \notin T, T \in P PROVE T \cup {x} \in P
  <2>1. IsFiniteSet(T) /\ T \cup {x} \in SUBSET S
    BY FS_Subset
  <2>0. \A y \in T \cup {x} : f[y] \in Int
    BY <2>1
  <2>2. SumOver(f, T \cup {x}) = SumOver(f, T) + f[x]
    BY <1>2, <2>0, <2>1, SumAdd
  <2> QED
    BY <1>2, <2>1, <2>2
<1> HIDE DEF P
<1>3. SUBSET S \subseteq P
  BY <1>1, <1>2, ElementInduction
<1> QED
  BY <1>3 DEF P

(* A sum of naturals over part of a set is no larger. *)
LEMMA SumPart ==
  ASSUME NEW T, IsFiniteSet(T), NEW S \in SUBSET T, NEW f, \A x \in T : f[x] \in Nat
  PROVE  SumOver(f, S) \in Nat /\ SumOver(f, T) \in Nat /\ SumOver(f, S) <= SumOver(f, T)
<1>1. IsFiniteSet(S) /\ IsFiniteSet(T \ S)
  BY FS_Subset
<1>2. S \cup (T \ S) = T /\ S \cap (T \ S) = {}
  OBVIOUS
<1>3. \A x \in S \cup (T \ S) : f[x] \in Int
  OBVIOUS
<1>4. SumOver(f, S \cup (T \ S)) = SumOver(f, S) + SumOver(f, T \ S)
  BY <1>1, <1>2, <1>3, SumUnion
<1>5. SumOver(f, S) \in Nat /\ SumOver(f, T \ S) \in Nat
  BY <1>1, SumNat
<1>6. SumOver(f, T) = SumOver(f, S) + SumOver(f, T \ S)
  BY <1>2, <1>4, Zenon
<1> QED
  BY <1>5, <1>6

(* The pieces are finite and apart, and sums holds what each comes to. *)
Split(f, K, pieces, sums) ==
    \A k \in K : /\ IsFiniteSet(pieces[k])
                 /\ \A x \in pieces[k] : f[x] \in Int
                 /\ sums[k] = SumOver(f, pieces[k])
                 /\ \A j \in K : j # k => pieces[j] \cap pieces[k] = {}

(* The sums of the pieces add up to the sum of the whole. *)
LEMMA SumOfParts ==
  ASSUME NEW K, IsFiniteSet(K), NEW pieces, NEW f, NEW sums, Split(f, K, pieces, sums)
  PROVE  SumOver(sums, K) = SumOver(f, UNION {pieces[k] : k \in K})
<1> USE DEF Split
<1> DEFINE Whole(L) == UNION {pieces[k] : k \in L}
           P == {L \in SUBSET K : IsFiniteSet(Whole(L)) /\ SumOver(sums, L) = SumOver(f, Whole(L))}
<1>0. \A k \in K : sums[k] \in Int
  BY SumInt
<1>1. {} \in P
  <2>1. Whole({}) = {}
    OBVIOUS
  <2> QED
    BY <2>1, SumEmpty, FS_EmptySet
<1>2. ASSUME NEW L \in SUBSET K, NEW k \in K, k \notin L, L \in P PROVE L \cup {k} \in P
  <2>1. IsFiniteSet(L) /\ L \cup {k} \in SUBSET K
    BY FS_Subset
  <2>2. SumOver(sums, L \cup {k}) = SumOver(sums, L) + sums[k]
    BY <1>0, <1>2, <2>1, SumAdd
  <2>3. Whole(L \cup {k}) = Whole(L) \cup pieces[k]
    OBVIOUS
  <2>4. Whole(L) \cap pieces[k] = {}
    BY <1>2
  <2>5. \A x \in Whole(L) \cup pieces[k] : f[x] \in Int
    OBVIOUS
  <2>6. IsFiniteSet(Whole(L)) /\ IsFiniteSet(pieces[k])
    BY <1>2
  <2> HIDE DEF Whole
  <2>7. SumOver(f, Whole(L) \cup pieces[k]) = SumOver(f, Whole(L)) + SumOver(f, pieces[k])
    BY <2>4, <2>5, <2>6, SumUnion
  <2>8. IsFiniteSet(Whole(L) \cup pieces[k])
    BY <2>6, FS_Union
  <2> QED
    BY <1>2, <2>1, <2>2, <2>3, <2>7, <2>8
<1> HIDE DEF P
<1>3. SUBSET K \subseteq P
  BY <1>1, <1>2, ElementInduction
<1> QED
  BY <1>3 DEF P

(* The value of one element changes, and the sum with it. *)
LEMMA SumPut ==
  ASSUME NEW S, IsFiniteSet(S), NEW x \in S, NEW f, NEW g,
         \A y \in S : f[y] \in Int /\ g[y] \in Int /\ (y # x => g[y] = f[y])
  PROVE  SumOver(g, S) = SumOver(f, S) - f[x] + g[x]
<1>1. IsFiniteSet(S \ {x})
  BY FS_Subset
<1>2. SumOver(g, S \ {x}) = SumOver(f, S \ {x})
  BY <1>1, SumSame
<1>3. SumOver(f, S) = f[x] + SumOver(f, S \ {x})
  BY SumTake
<1>4. SumOver(g, S) = g[x] + SumOver(g, S \ {x})
  BY SumTake
<1>5. SumOver(f, S \ {x}) \in Int
  BY <1>1, SumInt
<1> QED
  BY <1>2, <1>3, <1>4, <1>5

(* A sum of zeros. *)
LEMMA SumZero ==
  ASSUME NEW S, IsFiniteSet(S), NEW f, \A x \in S : f[x] = 0
  PROVE  SumOver(f, S) = 0
<1> DEFINE P == {T \in SUBSET S : SumOver(f, T) = 0}
<1>1. {} \in P
  BY SumEmpty
<1>2. ASSUME NEW T \in SUBSET S, NEW x \in S, x \notin T, T \in P PROVE T \cup {x} \in P
  <2>1. IsFiniteSet(T) /\ T \cup {x} \in SUBSET S
    BY FS_Subset
  <2>2. SumOver(f, T \cup {x}) = SumOver(f, T) + f[x]
    <3>1. \A y \in T \cup {x} : f[y] \in Int
      OBVIOUS
    <3> QED
      BY <1>2, <2>1, <3>1, SumAdd
  <2> QED
    BY <1>2, <2>1, <2>2
<1> HIDE DEF P
<1>3. SUBSET S \subseteq P
  BY <1>1, <1>2, ElementInduction
<1> QED
  BY <1>3 DEF P

(* The sum of the opposites. *)
LEMMA SumNegate ==
  ASSUME NEW S, IsFiniteSet(S), NEW f, NEW g, \A x \in S : f[x] \in Int /\ g[x] = -f[x]
  PROVE  SumOver(g, S) = -SumOver(f, S)
<1> DEFINE P == {T \in SUBSET S : SumOver(g, T) = -SumOver(f, T)}
<1>1. {} \in P
  BY SumEmpty
<1>2. ASSUME NEW T \in SUBSET S, NEW x \in S, x \notin T, T \in P PROVE T \cup {x} \in P
  <2>1. IsFiniteSet(T) /\ T \cup {x} \in SUBSET S /\ SumOver(f, T) \in Int
    BY FS_Subset, SumInt
  <2>2. \A y \in T \cup {x} : f[y] \in Int /\ g[y] \in Int
    OBVIOUS
  <2>3. SumOver(f, T \cup {x}) = SumOver(f, T) + f[x]
    BY <1>2, <2>1, <2>2, SumAdd
  <2>4. SumOver(g, T \cup {x}) = SumOver(g, T) + g[x]
    BY <1>2, <2>1, <2>2, SumAdd
  <2> QED
    BY <1>2, <2>1, <2>3, <2>4
<1> HIDE DEF P
<1>3. SUBSET S \subseteq P
  BY <1>1, <1>2, ElementInduction
<1> QED
  BY <1>3 DEF P

(* A finite set of numbers has a largest one. *)
LEMMA Largest ==
  ASSUME NEW S, IsFiniteSet(S), S # {}, S \subseteq Int
  PROVE  Max(S) \in S /\ \A y \in S : y <= Max(S)
<1> DEFINE P == {T \in SUBSET S : T = {} \/ \E m \in T : \A y \in T : m >= y}
<1>1. {} \in P
  OBVIOUS
<1>2. ASSUME NEW T \in SUBSET S, NEW x \in S, x \notin T, T \in P PROVE T \cup {x} \in P
  <2>1. CASE T = {}
    BY <2>1
  <2>2. CASE T # {}
    <3>1. PICK m \in T : \A y \in T : m >= y
      BY <1>2, <2>2
    <3>2. CASE x <= m
      BY <3>1, <3>2
    <3>3. CASE m < x
      BY <3>1, <3>3
    <3> QED
      BY <3>2, <3>3
  <2> QED
    BY <2>1, <2>2
<1> HIDE DEF P
<1>3. SUBSET S \subseteq P
  BY <1>1, <1>2, ElementInduction
<1>4. PICK m \in S : \A y \in S : m >= y
  BY <1>3 DEF P
<1>5. Max(S) \in S /\ \A y \in S : Max(S) >= y
  BY <1>4, Zenon DEF Max
<1> QED
  BY <1>5

(* The values of a finite set are finitely many. *)
LEMMA FiniteImage ==
  ASSUME NEW S, IsFiniteSet(S), NEW f
  PROVE  IsFiniteSet({f[x] : x \in S})
<1> DEFINE P == {T \in SUBSET S : IsFiniteSet({f[x] : x \in T})}
<1>1. {} \in P
  <2>1. {f[x] : x \in {}} = {}
    OBVIOUS
  <2> QED
    BY <2>1, FS_EmptySet
<1>2. ASSUME NEW T \in SUBSET S, NEW x \in S, x \notin T, T \in P PROVE T \cup {x} \in P
  <2>1. {f[y] : y \in T \cup {x}} = {f[y] : y \in T} \cup {f[x]}
    OBVIOUS
  <2>2. IsFiniteSet({f[y] : y \in T} \cup {f[x]})
    BY <1>2, FS_AddElement
  <2> QED
    BY <2>1, <2>2
<1> HIDE DEF P
<1>3. SUBSET S \subseteq P
  BY <1>1, <1>2, ElementInduction
<1> QED
  BY <1>3 DEF P
=============================================================================
