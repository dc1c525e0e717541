---- MODULE Sums ----
EXTENDS Integers, FiniteSets, Functions, FiniteSetTheorems, WellFoundedInduction, TLAPS

(* A set of numbers that is not empty has a least one. *)
LEMMA LeastNat ==
  ASSUME NEW T \in SUBSET Nat, T # {}
  PROVE  \E m \in T : \A n \in T : m <= n
<1> DEFINE R == OpToRel(<, Nat)
<1>1. IsWellFoundedOn(R, Nat) BY NatLessThanWellFounded
<1>2. \A a, b \in Nat : <<a, b>> \in R <=> a < b BY DEF OpToRel
<1> HIDE DEF R
<1>3. PICK x \in T : \A y \in T : ~(<<y, x>> \in R) BY <1>1, WFMin
<1>4. \A n \in T : ~(n < x) /\ n \in Nat /\ x \in Nat BY <1>2, <1>3
<1>5. \A n \in T : x <= n BY <1>4
<1> QED BY <1>3, <1>5

(* Induction over the numbers, for a set: it needs no operator as a parameter. *)
LEMMA InductionSet ==
  ASSUME NEW T, 0 \in T, \A n \in Nat : n \in T => n + 1 \in T
  PROVE  \A n \in Nat : n \in T
<1> SUFFICES ASSUME Nat \ T # {} PROVE FALSE OBVIOUS
<1>1. PICK m \in Nat \ T : \A n \in Nat \ T : m <= n BY LeastNat
<1>2. m # 0 /\ m - 1 \in Nat BY <1>1
<1>3. m - 1 \in T BY <1>1, <1>2
<1> QED BY <1>1, <1>2, <1>3

Pick(s) == CHOOSE x \in s : TRUE
Rest(s) == s \ {Pick(s)}

(* A finite set without its first element is smaller by one. *)
LEMMA RestSmaller ==
  ASSUME NEW s, IsFiniteSet(s), s # {}
  PROVE  /\ Pick(s) \in s /\ Rest(s) \subseteq s /\ Pick(s) \notin Rest(s) /\ s = Rest(s) \cup {Pick(s)}
         /\ IsFiniteSet(Rest(s)) /\ Cardinality(Rest(s)) = Cardinality(s) - 1
         /\ Cardinality(s) \in Nat /\ Cardinality(Rest(s)) \in Nat
<1>1. Pick(s) \in s BY DEF Pick
<1>2. Rest(s) \subseteq s /\ Pick(s) \notin Rest(s) /\ s = Rest(s) \cup {Pick(s)} BY <1>1 DEF Rest
<1>3. IsFiniteSet(Rest(s)) BY <1>2, FS_Subset
<1>4. Cardinality(Rest(s)) = Cardinality(s) - 1 BY <1>1, FS_RemoveElement DEF Rest
<1> QED BY <1>1, <1>2, <1>3, <1>4, FS_CardinalityType

(* What holds of the empty set and of a set when it holds of the set without its
   first element holds of every finite set. *)
LEMMA SubsetInduction ==
  ASSUME NEW S, IsFiniteSet(S), NEW T, {} \in T,
         \A s \in SUBSET S : s # {} /\ Rest(s) \in T => s \in T
  PROVE  S \in T
<1> DEFINE U == {n \in Nat : \A s \in SUBSET S : Cardinality(s) = n => s \in T}
<1>0. \A s \in SUBSET S : IsFiniteSet(s) BY FS_Subset
<1>1. 0 \in U
  <2>1. \A s \in SUBSET S : Cardinality(s) = 0 => s = {} BY <1>0, FS_EmptySet
  <2> QED BY <2>1
<1>2. ASSUME NEW n \in Nat, n \in U PROVE n + 1 \in U
  <2>1. ASSUME NEW s \in SUBSET S, Cardinality(s) = n + 1 PROVE s \in T
    <3>0. IsFiniteSet(s) BY <1>0
    <3>1. s # {}
      <4>1. Cardinality({}) = 0 BY FS_EmptySet, Zenon
      <4> QED BY <2>1, <4>1
    <3>2. Rest(s) \in SUBSET S /\ Cardinality(Rest(s)) = n
      BY <2>1, <3>0, <3>1, RestSmaller
    <3>3. Rest(s) \in T BY <1>2, <3>2
    <3> QED BY <3>1, <3>3
  <2> QED BY <2>1
<1> HIDE DEF U
<1>3. \A n \in Nat : n \in U BY <1>1, <1>2, InductionSet
<1>4. Cardinality(S) \in U BY <1>3, FS_CardinalityType
<1> QED BY <1>4 DEF U

(* The functions that SumFunctionOnSet is defined by. *)
AddUp(f, S, g) == g = [s \in SUBSET S |-> IF s = {} THEN 0 ELSE f[Pick(s)] + g[Rest(s)]]
Parts(f, S) == CHOOSE g : AddUp(f, S, g)

(* The sum over S is what the function of the partial sums says of S. *)
LEMMA SumIsParts == ASSUME NEW f, NEW S PROVE SumFunctionOnSet(f, S) = Parts(f, S)[S]
BY DEF SumFunctionOnSet, FoldFunctionOnSet, MapThenFoldSet, Parts, AddUp, Pick, Rest

(* The partial sums over the subsets of a finite set exist. *)
LEMMA PartsExist ==
  ASSUME NEW f, NEW S, IsFiniteSet(S)
  PROVE  AddUp(f, S, Parts(f, S))
<1> DEFINE Val(g, s) == IF s = {} THEN 0 ELSE f[Pick(s)] + g[Rest(s)]
           Upto(g, n) == g = [s \in SUBSET S |-> g[s]] /\ \A s \in SUBSET S : Cardinality(s) <= n => g[s] = Val(g, s)
           U == {n \in Nat : \E g : Upto(g, n)}
<1>0. \A s \in SUBSET S : IsFiniteSet(s) /\ Cardinality(s) \in Nat BY FS_Subset, FS_CardinalityType
<1>1. 0 \in U
  <2> DEFINE g == [s \in SUBSET S |-> 0]
  <2>1. \A s \in SUBSET S : Cardinality(s) <= 0 => s = {} BY <1>0, FS_EmptySet
  <2>2. Upto(g, 0) BY <2>1
  <2> QED BY <2>2
<1>2. ASSUME NEW n \in Nat, n \in U PROVE n + 1 \in U
  <2>1. PICK g : Upto(g, n) BY <1>2
  <2> DEFINE h == [s \in SUBSET S |-> Val(g, s)]
  <2>2. ASSUME NEW s \in SUBSET S, Cardinality(s) <= n + 1 PROVE h[s] = Val(h, s)
    <3>1. CASE s = {} BY <3>1
    <3>2. CASE s # {}
      <4>1. Rest(s) \in SUBSET S /\ Cardinality(Rest(s)) <= n BY <1>0, <2>2, <3>2, RestSmaller
      <4>2. g[Rest(s)] = Val(g, Rest(s)) BY <2>1, <4>1
      <4>3. h[Rest(s)] = g[Rest(s)] BY <4>1, <4>2
      <4>4. h[s] = f[Pick(s)] + g[Rest(s)] BY <3>2
      <4> QED BY <3>2, <4>3, <4>4
    <3> QED BY <3>1, <3>2
  <2>3. h = [s \in SUBSET S |-> h[s]] OBVIOUS
  <2> HIDE DEF h, Val
  <2>4. Upto(h, n + 1) BY <2>2, <2>3
  <2> HIDE DEF Upto
  <2> QED BY <2>4
<1> HIDE DEF U
<1>3. \A n \in Nat : n \in U BY <1>1, <1>2, InductionSet
<1>4. Cardinality(S) \in U BY <1>0, <1>3
<1>5. PICK g : Upto(g, Cardinality(S)) BY <1>4 DEF U
<1>6. \A s \in SUBSET S : Cardinality(s) <= Cardinality(S) BY FS_Subset
<1>7. \A s \in SUBSET S : g[s] = Val(g, s) BY <1>5, <1>6
<1>8. AddUp(f, S, g) BY <1>5, <1>7 DEF AddUp
<1> QED BY <1>8 DEF Parts

(* The parts do not depend on the set they are parts of. *)
LEMMA PartsAgree ==
  ASSUME NEW f, NEW S, IsFiniteSet(S), NEW R \in SUBSET S
  PROVE  Parts(f, S)[R] = Parts(f, R)[R]
<1> DEFINE g == Parts(f, S)
           h == Parts(f, R)
           T == {s \in SUBSET R : g[s] = h[s]}
<1>0. IsFiniteSet(R) BY FS_Subset
<1>1. AddUp(f, S, g) /\ AddUp(f, R, h) BY <1>0, PartsExist
<1> HIDE DEF g, h
<1>2. /\ \A s \in SUBSET R : g[s] = IF s = {} THEN 0 ELSE f[Pick(s)] + g[Rest(s)]
      /\ \A s \in SUBSET R : h[s] = IF s = {} THEN 0 ELSE f[Pick(s)] + h[Rest(s)]
  BY <1>1 DEF AddUp
<1>3. {} \in T BY <1>2
<1>4. \A s \in SUBSET R : s # {} /\ Rest(s) \in T => s \in T BY <1>2
<1> HIDE DEF T
<1>5. R \in T BY <1>0, <1>3, <1>4, SubsetInduction
<1> QED BY <1>5 DEF T, g, h

(* A sum takes the elements one by one. *)
LEMMA SumStep ==
  ASSUME NEW f, NEW S, IsFiniteSet(S)
  PROVE  SumFunctionOnSet(f, S) = IF S = {} THEN 0 ELSE f[Pick(S)] + SumFunctionOnSet(f, Rest(S))
<1> DEFINE g == Parts(f, S)
<1>1. AddUp(f, S, g) BY PartsExist
<1>2. SumFunctionOnSet(f, S) = g[S] BY SumIsParts
<1>3. S # {} => g[Rest(S)] = SumFunctionOnSet(f, Rest(S))
  BY PartsAgree, SumIsParts, RestSmaller
<1> HIDE DEF g
<1>4. g[S] = IF S = {} THEN 0 ELSE f[Pick(S)] + g[Rest(S)] BY <1>1 DEF AddUp
<1> QED BY <1>2, <1>3, <1>4

(* A sum of integers is an integer. *)
LEMMA SumType ==
  ASSUME NEW f, NEW S, IsFiniteSet(S), \A x \in S : f[x] \in Int
  PROVE  SumFunctionOnSet(f, S) \in Int
<1> DEFINE T == {s \in SUBSET S : SumFunctionOnSet(f, s) \in Int}
<1>0. \A s \in SUBSET S : IsFiniteSet(s) BY FS_Subset
<1>1. {} \in T BY <1>0, SumStep
<1>2. ASSUME NEW s \in SUBSET S, s # {}, Rest(s) \in T PROVE s \in T
  <2>1. Pick(s) \in S /\ SumFunctionOnSet(f, Rest(s)) \in Int BY <1>0, <1>2, RestSmaller
  <2>2. SumFunctionOnSet(f, s) = f[Pick(s)] + SumFunctionOnSet(f, Rest(s)) BY <1>0, <1>2, SumStep
  <2> QED BY <2>1, <2>2
<1> HIDE DEF T
<1>3. S \in T BY <1>1, <1>2, SubsetInduction
<1> QED BY <1>3 DEF T

(* ... in any order. *)
LEMMA SumRemove ==
  ASSUME NEW f, NEW S, IsFiniteSet(S), \A x \in S : f[x] \in Int, NEW y \in S
  PROVE  SumFunctionOnSet(f, S) = f[y] + SumFunctionOnSet(f, S \ {y})
<1> DEFINE Sum(s) == SumFunctionOnSet(f, s)
           T == {s \in SUBSET S : \A x \in s : Sum(s) = f[x] + Sum(s \ {x})}
           U == {n \in Nat : \A s \in SUBSET S : Cardinality(s) = n => s \in T}
<1>0. \A s \in SUBSET S : IsFiniteSet(s) /\ Cardinality(s) \in Nat /\ Sum(s) \in Int
  BY FS_Subset, FS_CardinalityType, SumType
<1>1. 0 \in U
  <2>1. \A s \in SUBSET S : Cardinality(s) = 0 => s = {} BY <1>0, FS_EmptySet
  <2> QED BY <2>1
<1>2. ASSUME NEW n \in Nat, n \in U PROVE n + 1 \in U
  <2>1. ASSUME NEW s \in SUBSET S, Cardinality(s) = n + 1, NEW x \in s
        PROVE  Sum(s) = f[x] + Sum(s \ {x})
    <3> DEFINE p == Pick(s)
               r == s \ {p}
               t == s \ {x}
               u == s \ {p, x}
    <3>1. p \in s /\ r \in SUBSET S /\ t \in SUBSET S /\ Sum(s) = f[p] + Sum(r)
      <4>1. p \in s /\ r = Rest(s) BY <1>0, RestSmaller DEF Rest
      <4> QED BY <1>0, <4>1, SumStep
    <3>2. Cardinality(r) = n /\ Cardinality(t) = n
      <4>1. \A z \in s : Cardinality(s \ {z}) = n BY <1>0, <2>1, FS_RemoveElement
      <4> QED BY <3>1, <4>1
    <3>3. r \in T /\ t \in T BY <1>2, <3>1, <3>2
    <3>4. CASE p = x BY <3>1, <3>4
    <3>5. CASE p # x
      <4>1. x \in r /\ p \in t /\ r \ {x} = u /\ t \ {p} = u /\ u \in SUBSET S BY <3>1, <3>5
      <4>2. Sum(r) = f[x] + Sum(r \ {x}) /\ Sum(t) = f[p] + Sum(t \ {p}) BY <3>3, <4>1
      <4>3. Sum(r) = f[x] + Sum(u) /\ Sum(t) = f[p] + Sum(u)
        <5> HIDE DEF r, t, u
        <5> QED BY <4>1, <4>2
      <4>4. f[x] \in Int /\ f[p] \in Int /\ Sum(u) \in Int BY <1>0, <3>1, <4>1
      <4> HIDE DEF Sum, r, t, u, p
      <4>5. Sum(s) = f[x] + Sum(t) BY <3>1, <4>3, <4>4
      <4> QED BY <4>5 DEF t
    <3> QED BY <3>4, <3>5
  <2> HIDE DEF Sum
  <2> QED BY <2>1
<1> HIDE DEF U
<1>3. \A n \in Nat : n \in U BY <1>1, <1>2, InductionSet
<1>4. Cardinality(S) \in U BY <1>0, <1>3
<1>5. S \in T BY <1>4 DEF U
<1> QED BY <1>5

(* A sum depends on the values of the elements only. *)
LEMMA SumSame ==
  ASSUME NEW f, NEW g, NEW S, IsFiniteSet(S), \A x \in S : f[x] = g[x]
  PROVE  SumFunctionOnSet(f, S) = SumFunctionOnSet(g, S)
<1> DEFINE T == {s \in SUBSET S : SumFunctionOnSet(f, s) = SumFunctionOnSet(g, s)}
<1>0. \A s \in SUBSET S : IsFiniteSet(s) BY FS_Subset
<1>1. {} \in T BY <1>0, SumStep
<1>2. ASSUME NEW s \in SUBSET S, s # {}, Rest(s) \in T PROVE s \in T
  <2>1. f[Pick(s)] = g[Pick(s)] BY <1>0, <1>2, RestSmaller
  <2>2. /\ SumFunctionOnSet(f, s) = f[Pick(s)] + SumFunctionOnSet(f, Rest(s))
        /\ SumFunctionOnSet(g, s) = g[Pick(s)] + SumFunctionOnSet(g, Rest(s))
    BY <1>0, <1>2, SumStep
  <2> QED BY <1>2, <2>1, <2>2
<1> HIDE DEF T
<1>3. S \in T BY <1>1, <1>2, SubsetInduction
<1> QED BY <1>3 DEF T

(* Changing one value changes the sum by as much. *)
LEMMA SumShift ==
  ASSUME NEW f, NEW g, NEW S, IsFiniteSet(S), NEW y \in S,
         \A x \in S : f[x] \in Int /\ g[x] \in Int, \A x \in S : x # y => f[x] = g[x]
  PROVE  /\ SumFunctionOnSet(f, S) \in Int
         /\ SumFunctionOnSet(g, S) = SumFunctionOnSet(f, S) - f[y] + g[y]
<1> DEFINE R == S \ {y}
<1>1. IsFiniteSet(R) BY FS_Subset
<1>2. SumFunctionOnSet(f, R) = SumFunctionOnSet(g, R) /\ SumFunctionOnSet(f, R) \in Int
  BY <1>1, SumSame, SumType
<1>3. /\ SumFunctionOnSet(f, S) = f[y] + SumFunctionOnSet(f, R)
      /\ SumFunctionOnSet(g, S) = g[y] + SumFunctionOnSet(g, R)
  BY SumRemove
<1> HIDE DEF R
<1> QED BY <1>2, <1>3

(* A sum of natural numbers is at least each of them. *)
LEMMA SumNat ==
  ASSUME NEW f, NEW S, IsFiniteSet(S), \A x \in S : f[x] \in Nat
  PROVE  /\ SumFunctionOnSet(f, S) \in Nat
         /\ \A x \in S : f[x] <= SumFunctionOnSet(f, S)
         /\ (\A x \in S : f[x] = 0) => SumFunctionOnSet(f, S) = 0
<1> DEFINE T == {s \in SUBSET S : /\ SumFunctionOnSet(f, s) \in Nat
                                  /\ (\A x \in s : f[x] = 0) => SumFunctionOnSet(f, s) = 0}
<1>0. \A s \in SUBSET S : IsFiniteSet(s) BY FS_Subset
<1>1. {} \in T
  <2>1. SumFunctionOnSet(f, {}) = 0 BY <1>0, SumStep
  <2> QED BY <2>1
<1>2. ASSUME NEW s \in SUBSET S, s # {}, Rest(s) \in T PROVE s \in T
  <2>1. Pick(s) \in s /\ f[Pick(s)] \in Nat /\ Rest(s) \subseteq s BY <1>0, <1>2, RestSmaller
  <2>2. SumFunctionOnSet(f, s) = f[Pick(s)] + SumFunctionOnSet(f, Rest(s)) BY <1>0, <1>2, SumStep
  <2>3. SumFunctionOnSet(f, Rest(s)) \in Nat BY <1>2
  <2>4. SumFunctionOnSet(f, s) \in Nat BY <2>1, <2>2, <2>3
  <2>5. (\A x \in s : f[x] = 0) => SumFunctionOnSet(f, s) = 0 BY <1>2, <2>1, <2>2
  <2> QED BY <2>4, <2>5
<1>3. \A s \in SUBSET S : s \in T
  <2>1. ASSUME NEW s \in SUBSET S PROVE s \in T
    <3>1. \A t \in SUBSET s : t # {} /\ Rest(t) \in T => t \in T BY <1>2
    <3> HIDE DEF T
    <3> QED BY <1>0, <1>1, <3>1, SubsetInduction
  <2> QED BY <2>1
<1>4. ASSUME NEW x \in S PROVE f[x] <= SumFunctionOnSet(f, S)
  <2>1. SumFunctionOnSet(f, S) = f[x] + SumFunctionOnSet(f, S \ {x}) BY SumRemove
  <2>2. SumFunctionOnSet(f, S \ {x}) \in Nat BY <1>3
  <2> QED BY <2>1, <2>2
<1> QED BY <1>3, <1>4

(* A sum grows with its values. *)
LEMMA SumMono ==
  ASSUME NEW f, NEW g, NEW S, IsFiniteSet(S),
         \A x \in S : f[x] \in Int /\ g[x] \in Int /\ f[x] <= g[x]
  PROVE  SumFunctionOnSet(f, S) <= SumFunctionOnSet(g, S)
<1> DEFINE T == {s \in SUBSET S : SumFunctionOnSet(f, s) <= SumFunctionOnSet(g, s)}
<1>0. \A s \in SUBSET S : /\ IsFiniteSet(s) /\ SumFunctionOnSet(f, s) \in Int
                          /\ SumFunctionOnSet(g, s) \in Int
  BY FS_Subset, SumType
<1>1. {} \in T
  <2>1. SumFunctionOnSet(f, {}) = 0 /\ SumFunctionOnSet(g, {}) = 0 BY <1>0, SumStep
  <2> QED BY <2>1
<1>2. ASSUME NEW s \in SUBSET S, s # {}, Rest(s) \in T PROVE s \in T
  <2>1. Pick(s) \in S BY <1>0, <1>2, RestSmaller
  <2>2. /\ SumFunctionOnSet(f, s) = f[Pick(s)] + SumFunctionOnSet(f, Rest(s))
        /\ SumFunctionOnSet(g, s) = g[Pick(s)] + SumFunctionOnSet(g, Rest(s))
    BY <1>0, <1>2, SumStep
  <2>3. SumFunctionOnSet(f, Rest(s)) <= SumFunctionOnSet(g, Rest(s)) /\ Rest(s) \in SUBSET S BY <1>2
  <2> QED BY <1>0, <2>1, <2>2, <2>3
<1> HIDE DEF T
<1>3. S \in T BY <1>1, <1>2, SubsetInduction
<1> QED BY <1>3 DEF T

(* The sum over two sets that have nothing in common. *)
LEMMA SumUnion ==
  ASSUME NEW f, NEW A, NEW B, IsFiniteSet(A), IsFiniteSet(B), A \cap B = {},
         \A x \in A \cup B : f[x] \in Int
  PROVE  SumFunctionOnSet(f, A \cup B) = SumFunctionOnSet(f, A) + SumFunctionOnSet(f, B)
<1> DEFINE T == {s \in SUBSET B : SumFunctionOnSet(f, A \cup s) = SumFunctionOnSet(f, A) + SumFunctionOnSet(f, s)}
<1>0. \A s \in SUBSET B : /\ IsFiniteSet(s) /\ IsFiniteSet(A \cup s) /\ SumFunctionOnSet(f, s) \in Int
                          /\ SumFunctionOnSet(f, A) \in Int /\ SumFunctionOnSet(f, A \cup s) \in Int
  <2>1. \A s \in SUBSET B : IsFiniteSet(s) BY FS_Subset
  <2>2. \A s \in SUBSET B : IsFiniteSet(A \cup s) BY <2>1, FS_Union
  <2> QED BY <2>1, <2>2, SumType
<1>1. {} \in T
  <2>1. A \cup {} = A /\ SumFunctionOnSet(f, {}) = 0 BY <1>0, SumStep
  <2>2. SumFunctionOnSet(f, A) \in Int BY <1>0
  <2> QED BY <2>1, <2>2
<1>2. ASSUME NEW s \in SUBSET B, s # {}, Rest(s) \in T PROVE s \in T
  <2> DEFINE p == Pick(s)
             all == A \cup s
  <2>1. p \in s /\ p \in all /\ p \notin A /\ f[p] \in Int BY <1>0, <1>2, RestSmaller
  <2>2. all \ {p} = A \cup Rest(s) BY <2>1 DEF Rest
  <2>3. IsFiniteSet(all) /\ \A x \in all : f[x] \in Int BY <1>0
  <2>4. SumFunctionOnSet(f, all) = f[p] + SumFunctionOnSet(f, A \cup Rest(s))
    <3>1. SumFunctionOnSet(f, all) = f[p] + SumFunctionOnSet(f, all \ {p})
      <4> HIDE DEF all, p
      <4> QED BY <2>1, <2>3, SumRemove
    <3> QED BY <2>2, <3>1
  <2>5. SumFunctionOnSet(f, s) = f[p] + SumFunctionOnSet(f, Rest(s)) BY <1>0, <1>2, SumStep
  <2>6. Rest(s) \in SUBSET B BY <1>2
  <2>7. SumFunctionOnSet(f, A \cup Rest(s)) = SumFunctionOnSet(f, A) + SumFunctionOnSet(f, Rest(s)) BY <1>2
  <2>8. SumFunctionOnSet(f, all) = SumFunctionOnSet(f, A) + SumFunctionOnSet(f, s)
    <3>1. SumFunctionOnSet(f, A) \in Int /\ SumFunctionOnSet(f, Rest(s)) \in Int BY <1>0, <2>6
    <3> HIDE DEF all, p
    <3> QED BY <2>1, <2>4, <2>5, <2>7, <3>1
  <2> QED BY <2>8
<1> HIDE DEF T
<1>3. B \in T BY <1>1, <1>2, SubsetInduction
<1> QED BY <1>3 DEF T

(* A union has at most as many elements as its parts together. *)
LEMMA SumCovers ==
  ASSUME NEW S, IsFiniteSet(S), NEW A, NEW f,
         \A x \in S : IsFiniteSet(A[x]) /\ f[x] \in Nat /\ Cardinality(A[x]) <= f[x]
  PROVE  /\ IsFiniteSet(UNION {A[x] : x \in S})
         /\ Cardinality(UNION {A[x] : x \in S}) <= SumFunctionOnSet(f, S)
<1> DEFINE All(s) == UNION {A[x] : x \in s}
           T == {s \in SUBSET S : IsFiniteSet(All(s)) /\ Cardinality(All(s)) <= SumFunctionOnSet(f, s)}
<1>0. \A s \in SUBSET S : IsFiniteSet(s) BY FS_Subset
<1>1. {} \in T
  <2>1. All({}) = {} OBVIOUS
  <2>2. SumFunctionOnSet(f, {}) = 0 BY <1>0, SumStep
  <2>3. IsFiniteSet({}) /\ Cardinality({}) = 0 BY FS_EmptySet, Zenon
  <2> HIDE DEF All
  <2> QED BY <2>1, <2>2, <2>3
<1>2. ASSUME NEW s \in SUBSET S, s # {}, Rest(s) \in T PROVE s \in T
  <2> DEFINE p == Pick(s)
  <2>1. p \in s /\ s = Rest(s) \cup {p} BY <1>0, <1>2, RestSmaller
  <2>2. All(s) = All(Rest(s)) \cup A[p]
    <3> HIDE DEF p
    <3>1. \A x : x \in s <=> x \in Rest(s) \/ x = p BY <2>1
    <3> QED BY <3>1
  <2>3. SumFunctionOnSet(f, s) = f[p] + SumFunctionOnSet(f, Rest(s)) BY <1>0, <1>2, SumStep
  <2>4. IsFiniteSet(All(Rest(s))) /\ Cardinality(All(Rest(s))) <= SumFunctionOnSet(f, Rest(s)) BY <1>2
  <2>5. SumFunctionOnSet(f, Rest(s)) \in Nat
    <3>1. \A x \in Rest(s) : f[x] \in Nat BY <1>2
    <3> QED BY <1>0, <1>2, <3>1, SumNat
  <2> HIDE DEF All, p
  <2> DEFINE a == All(Rest(s))
  <2>6. IsFiniteSet(A[p]) /\ f[p] \in Nat /\ Cardinality(A[p]) <= f[p] BY <2>1
  <2>7. /\ IsFiniteSet(a \cup A[p])
        /\ Cardinality(a \cup A[p]) = Cardinality(a) + Cardinality(A[p]) - Cardinality(a \cap A[p])
    BY <2>4, <2>6, FS_Union
  <2>8. Cardinality(a) \in Nat /\ Cardinality(A[p]) \in Nat /\ Cardinality(a \cap A[p]) \in Nat
    BY <2>4, <2>6, FS_Intersection, FS_CardinalityType
  <2>9. Cardinality(a \cup A[p]) <= SumFunctionOnSet(f, s)
    <3> DEFINE b == a \cup A[p]
               c == a \cap A[p]
    <3> HIDE DEF b, c
    <3>1. Cardinality(b) = Cardinality(a) + Cardinality(A[p]) - Cardinality(c) BY <2>7 DEF b, c
    <3>2. Cardinality(c) \in Nat BY <2>8 DEF c
    <3>3. Cardinality(b) <= SumFunctionOnSet(f, s)
      BY <2>3, <2>4, <2>5, <2>6, <2>8, <3>1, <3>2
    <3> QED BY <3>3 DEF b
  <2> QED BY <2>2, <2>7, <2>9
<1> HIDE DEF T
<1>3. S \in T BY <1>1, <1>2, SubsetInduction
<1> QED BY <1>3 DEF T
====
