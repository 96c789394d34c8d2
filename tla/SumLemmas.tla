----------------------------- MODULE SumLemmas -----------------------------
(***************************************************************************)
(* SumFunction of the community modules, over functions from a finite set  *)
(* to the naturals.  Its recursion runs over the subsets of the domain: it *)
(* is shown to have a solution on the subsets of up to n elements, by the  *)
(* smallest n for which it would have none.                                *)
(***************************************************************************)
EXTENDS Integers, Sequences, FiniteSets, Functions, FiniteSetTheorems,
        WellFoundedInduction, TLAPS

(* Induction over the naturals: a set of them has a smallest.              *)
LEMMA SmallestNat ==
  ASSUME NEW N \in SUBSET Nat, N # {}
  PROVE  \E i \in N : \A j \in N : i <= j
<1>1. PICK i \in N : \A j \in N : ~(<<j, i>> \in OpToRel(<, Nat))
  BY NatLessThanWellFounded, WFMin
<1>2. i \in N /\ \A j \in N : ~(j < i)
  BY <1>1, Zenon DEF OpToRel
<1>3. \A j \in N : i <= j
  BY <1>2
<1> QED  BY <1>2, <1>3

(* What holds of 0 and carries over to the next number up to b holds up to *)
(* b.                                                                      *)
LEMMA Upwards ==
  ASSUME NEW b \in Nat, NEW N \in SUBSET Nat, 0 \in N,
         \A n \in Nat : n < b /\ n \in N => n + 1 \in N
  PROVE  \A n \in 0 .. b : n \in N
<1> DEFINE Bad == {n \in 0 .. b : n \notin N}
<1> SUFFICES ASSUME Bad # {} PROVE FALSE
  OBVIOUS
<1>1. PICK n \in Bad : \A j \in Bad : n <= j
  <2> Bad \in SUBSET Nat
    OBVIOUS
  <2> HIDE DEF Bad
  <2> QED BY SmallestNat
<1>2. n \in Nat /\ n <= b /\ n \notin N BY <1>1
<1>3. n # 0 BY <1>2
<1>4. n - 1 \in Nat /\ n - 1 < n /\ n - 1 < b BY <1>2, <1>3
<1>5. n - 1 \in N
  <2>1. n - 1 \in 0 .. b BY <1>2, <1>4
  <2>2. n - 1 \notin Bad
    <3> HIDE DEF Bad
    <3> QED BY <1>1, <1>2, <1>4
  <2> QED BY <2>1, <2>2
<1>6. (n - 1) + 1 \in N BY <1>4, <1>5
<1> QED BY <1>2, <1>6

Body(f, g, s) ==
  IF s = {} THEN 0 ELSE LET x == CHOOSE x \in s : TRUE IN f[x] + g[s \ {x}]

IsIter(f, T, g) == g = [s \in T |-> Body(f, g, s)]

Upto(S, n) == {s \in SUBSET S : Cardinality(s) <= n}

Solvable(f, S, n) == \E g \in [Upto(S, n) -> Nat] : IsIter(f, Upto(S, n), g)

(* SumFunction is a solution of its recursion, if there is one.            *)
LEMMA SumIsIter ==
  ASSUME NEW f, \E g : IsIter(f, SUBSET DOMAIN f, g)
  PROVE  \E g : IsIter(f, SUBSET DOMAIN f, g) /\ SumFunction(f) = g[DOMAIN f]
<1> DEFINE iter == CHOOSE g : g = [s \in SUBSET DOMAIN f |-> Body(f, g, s)]
<1>1. IsIter(f, SUBSET DOMAIN f, iter)
  BY DEF IsIter
<1>2. SumFunction(f) = iter[DOMAIN f]
  BY DEF SumFunction, SumFunctionOnSet, FoldFunctionOnSet, MapThenFoldSet, Body
<1> QED  BY <1>1, <1>2

(* A solution on sets of up to n elements extends to one more.             *)
LEMMA Extend ==
  ASSUME NEW S, IsFiniteSet(S), NEW f \in [S -> Nat], NEW n \in Nat,
         Solvable(f, S, n)
  PROVE  Solvable(f, S, n + 1)
<1> PICK g \in [Upto(S, n) -> Nat] : IsIter(f, Upto(S, n), g)
  BY DEF Solvable
<1> DEFINE h == [s \in Upto(S, n + 1) |-> Body(f, g, s)]
<1>1. ASSUME NEW s \in Upto(S, n + 1), s # {}
      PROVE  /\ (CHOOSE x \in s : TRUE) \in S
             /\ s \ {CHOOSE x \in s : TRUE} \in Upto(S, n)
             /\ s \ {CHOOSE x \in s : TRUE} \in Upto(S, n + 1)
  <2> DEFINE x == CHOOSE x \in s : TRUE
  <2>1. x \in s
    BY <1>1
  <2> HIDE DEF x
  <2>2. s \subseteq S /\ IsFiniteSet(s) /\ Cardinality(s) <= n + 1
    BY FS_Subset DEF Upto
  <2>3. Cardinality(s) \in Nat
    BY <2>2, FS_CardinalityType
  <2>4. Cardinality(s \ {x}) = Cardinality(s) - 1
    BY <2>1, <2>2, FS_RemoveElement
  <2>5. Cardinality(s \ {x}) <= n /\ Cardinality(s \ {x}) <= n + 1
    BY <2>2, <2>3, <2>4
  <2> QED  BY <2>1, <2>2, <2>5 DEF Upto, x
<1>2. \A s \in Upto(S, n + 1) : Body(f, g, s) \in Nat
  <2> SUFFICES ASSUME NEW s \in Upto(S, n + 1), s # {}
               PROVE  f[CHOOSE x \in s : TRUE]
                        + g[s \ {CHOOSE x \in s : TRUE}] \in Nat
    BY DEF Body
  <2> QED  BY <1>1
<1>3. h \in [Upto(S, n + 1) -> Nat]
  BY <1>2
<1>4. \A t \in Upto(S, n) : t \in Upto(S, n + 1) /\ h[t] = g[t]
  <2> SUFFICES ASSUME NEW t \in Upto(S, n)
               PROVE  t \in Upto(S, n + 1) /\ h[t] = g[t]
    OBVIOUS
  <2>1. t \in Upto(S, n + 1)
    BY FS_Subset, FS_CardinalityType DEF Upto
  <2>2. g[t] = Body(f, g, t)
    BY DEF IsIter
  <2> QED  BY <2>1, <2>2
<1>5. \A s \in Upto(S, n + 1) : Body(f, g, s) = Body(f, h, s)
  <2> TAKE s \in Upto(S, n + 1)
  <2>1. s # {} => g[s \ {CHOOSE x \in s : TRUE}]
                    = h[s \ {CHOOSE x \in s : TRUE}]
    BY <1>1, <1>4
  <2> HIDE DEF h
  <2> QED  BY <2>1 DEF Body
<1>6. IsIter(f, Upto(S, n + 1), h)
  <2>1. h = [s \in Upto(S, n + 1) |-> Body(f, h, s)]
    BY <1>5
  <2> QED  BY <2>1 DEF IsIter
<1> QED  BY <1>3, <1>6 DEF Solvable

(* The equations of a sum have a solution on every finite set.             *)
LEMMA AlwaysSolvable ==
  ASSUME NEW S, IsFiniteSet(S), NEW f \in [S -> Nat], NEW n \in Nat
  PROVE  Solvable(f, S, n)
<1> DEFINE Bad == {i \in Nat : ~Solvable(f, S, i)}
<1> SUFFICES ASSUME Bad # {}
             PROVE  FALSE
  OBVIOUS
<1>1. PICK i \in Bad : \A j \in Bad : ~(<<j, i>> \in OpToRel(<, Nat))
  BY NatLessThanWellFounded, WFMin
<1>2. \A j \in Nat : j < i => Solvable(f, S, j)
  BY <1>1 DEF OpToRel
<1>3. CASE i = 0
  <2> DEFINE g == [s \in Upto(S, 0) |-> 0]
  <2>1. \A s \in Upto(S, 0) : s = {}
    BY FS_Subset, FS_CardinalityType, FS_EmptySet DEF Upto
  <2>2. g = [s \in Upto(S, 0) |-> Body(f, g, s)]
    BY <2>1 DEF Body
  <2>3. g \in [Upto(S, 0) -> Nat]
    OBVIOUS
  <2> HIDE DEF g
  <2> QED  BY <1>1, <1>3, <2>2, <2>3 DEF Solvable, IsIter
<1>4. CASE i # 0
  <2>1. i - 1 \in Nat /\ i - 1 < i /\ (i - 1) + 1 = i
    BY <1>4
  <2>2. Solvable(f, S, i - 1)
    BY <1>2, <2>1
  <2>3. Solvable(f, S, i)
    BY <2>1, <2>2, Extend
  <2> QED  BY <1>1, <2>3
<1> QED  BY <1>3, <1>4

(* A step of the recursion on a set of n + 1 elements goes to one of n.    *)
LEMMA Chosen ==
  ASSUME NEW S, IsFiniteSet(S), NEW s \in SUBSET S, s # {}
  PROVE  /\ (CHOOSE x \in s : TRUE) \in S
         /\ s \ {CHOOSE x \in s : TRUE} \in SUBSET S
         /\ Cardinality(s \ {CHOOSE x \in s : TRUE}) \in Nat
         /\ Cardinality(s \ {CHOOSE x \in s : TRUE}) < Cardinality(s)
<1> DEFINE x == CHOOSE x \in s : TRUE
<1>1. x \in s
  OBVIOUS
<1> HIDE DEF x
<1>2. IsFiniteSet(s) /\ Cardinality(s) \in Nat
  BY FS_Subset, FS_CardinalityType
<1>3. Cardinality(s \ {x}) = Cardinality(s) - 1
  BY <1>1, <1>2, FS_RemoveElement
<1>4. IsFiniteSet(s \ {x}) /\ Cardinality(s \ {x}) \in Nat
  BY <1>2, FS_RemoveElement, FS_CardinalityType
<1> QED  BY <1>1, <1>2, <1>3, <1>4 DEF x

(* Whatever solves the recursion has natural values.                       *)
LEMMA SolutionsAreNat ==
  ASSUME NEW S, IsFiniteSet(S), NEW f \in [S -> Nat],
         NEW g, IsIter(f, SUBSET S, g)
  PROVE  g[S] \in Nat
<1> DEFINE Bad == {i \in Nat : \E s \in SUBSET S :
                                 Cardinality(s) = i /\ g[s] \notin Nat}
<1>1. Cardinality(S) \in Nat
  BY FS_CardinalityType
<1> SUFFICES ASSUME Bad # {}
             PROVE  FALSE
  BY <1>1
<1>2. PICK i \in Bad : \A j \in Bad : ~(<<j, i>> \in OpToRel(<, Nat))
  BY NatLessThanWellFounded, WFMin
<1>3. PICK s \in SUBSET S : Cardinality(s) = i /\ g[s] \notin Nat
  BY <1>2
<1>4. \A t \in SUBSET S :
        Cardinality(t) \in Nat /\ Cardinality(t) < i => g[t] \in Nat
  BY <1>2 DEF OpToRel
<1>5. g[s] = Body(f, g, s)
  BY DEF IsIter
<1>6. CASE s = {}
  BY <1>3, <1>5, <1>6 DEF Body
<1>7. CASE s # {}
  <2>1. g[s] = f[CHOOSE x \in s : TRUE] + g[s \ {CHOOSE x \in s : TRUE}]
    BY <1>5, <1>7 DEF Body
  <2>2. g[s \ {CHOOSE x \in s : TRUE}] \in Nat
    BY <1>3, <1>4, <1>7, Chosen
  <2>3. f[CHOOSE x \in s : TRUE] \in Nat
    BY <1>7, Chosen
  <2> QED  BY <1>3, <2>1, <2>2, <2>3
<1> QED  BY <1>6, <1>7

(* The sum of finitely many naturals is a natural.                         *)
LEMMA SumIsNat ==
  ASSUME NEW S, IsFiniteSet(S), NEW f \in [S -> Nat]
  PROVE  SumFunction(f) \in Nat
<1>1. Solvable(f, S, Cardinality(S))
  BY AlwaysSolvable, FS_CardinalityType
<1>2. Upto(S, Cardinality(S)) = SUBSET S
  BY FS_Subset DEF Upto
<1>3. PICK g \in [SUBSET S -> Nat] : IsIter(f, SUBSET S, g)
  BY <1>1, <1>2 DEF Solvable
<1>4. S = DOMAIN f
  OBVIOUS
<1>5. PICK it : IsIter(f, SUBSET S, it) /\ SumFunction(f) = it[S]
  BY <1>3, <1>4, SumIsIter
<1>6. it[S] \in Nat
  BY <1>5, SolutionsAreNat
<1> QED  BY <1>5, <1>6

-----------------------------------------------------------------------------
(* The order in which a solution takes the elements does not matter.       *)
LEMMA AnyElement ==
  ASSUME NEW S, IsFiniteSet(S), NEW f \in [S -> Nat],
         NEW g \in [SUBSET S -> Nat], IsIter(f, SUBSET S, g)
  PROVE  \A s \in SUBSET S : \A x \in s : g[s] = f[x] + g[s \ {x}]
<1> DEFINE Holds(s) == \A x \in s : g[s] = f[x] + g[s \ {x}]
           Bad == {i \in Nat : \E s \in SUBSET S :
                                 Cardinality(s) = i /\ ~Holds(s)}
<1>1. \A s \in SUBSET S : IsFiniteSet(s) /\ Cardinality(s) \in Nat
  BY FS_Subset, FS_CardinalityType
<1> SUFFICES ASSUME Bad # {}
             PROVE  FALSE
  BY <1>1
<1>2. PICK i \in Bad : \A j \in Bad : i <= j
  <2> Bad \in SUBSET Nat
    OBVIOUS
  <2> HIDE DEF Bad
  <2> QED  BY SmallestNat
<1>3. PICK s \in SUBSET S : Cardinality(s) = i /\ ~Holds(s)
  BY <1>2
<1>4. \A t \in SUBSET S : Cardinality(t) < i => Holds(t)
  BY <1>1, <1>2
<1>5. PICK x \in s : g[s] # f[x] + g[s \ {x}]
  BY <1>3
<1> DEFINE c == CHOOSE y \in s : TRUE
<1>6. c \in s
  BY <1>5
<1>7. g[s] = f[c] + g[s \ {c}]
  <2>1. g[s] = Body(f, g, s)
    BY DEF IsIter
  <2> QED  BY <1>5, <2>1 DEF Body
<1> HIDE DEF c
<1>8. c # x
  BY <1>5, <1>7
<1>9. ASSUME NEW y \in s
      PROVE  Cardinality(s \ {y}) < i /\ s \ {y} \in SUBSET S
  <2>1. Cardinality(s \ {y}) = Cardinality(s) - 1
    BY <1>1, FS_RemoveElement
  <2> QED  BY <1>1, <1>3, <2>1
<1>10. g[s \ {c}] = f[x] + g[(s \ {c}) \ {x}]
  <2>1. Holds(s \ {c})
    BY <1>4, <1>6, <1>9
  <2> QED  BY <1>8, <2>1
<1>11. g[s \ {x}] = f[c] + g[(s \ {x}) \ {c}]
  <2>1. Holds(s \ {x})
    BY <1>4, <1>9
  <2> QED  BY <1>6, <1>8, <2>1
<1>12. (s \ {c}) \ {x} = (s \ {x}) \ {c}
  OBVIOUS
<1>13. f[x] \in Nat /\ f[c] \in Nat
  BY <1>6
<1>14. PICK rest \in Nat : rest = g[(s \ {x}) \ {c}]
  OBVIOUS
<1>15. g[s \ {c}] = f[x] + rest /\ g[s \ {x}] = f[c] + rest
  BY <1>10, <1>11, <1>12, <1>14
<1>16. g[s] = f[c] + (f[x] + rest) /\ g[s] # f[x] + (f[c] + rest)
  BY <1>5, <1>7, <1>15
<1> QED  BY <1>13, <1>16

(* Solutions for a function and for its restriction to a subset agree.     *)
IsPart(e, T, f, S) == IsFiniteSet(S) /\ T \subseteq S /\ \A y \in T : e[y] = f[y]

(* The sum over a part of a function's domain is the whole recursion's     *)
(* value there.                                                            *)
LEMMA Restricted ==
  ASSUME NEW S, NEW f, NEW T, NEW e, NEW g, NEW h, IsPart(e, T, f, S),
         IsIter(f, SUBSET S, g), IsIter(e, SUBSET T, h)
  PROVE  h[T] = g[T]
<1> USE DEF IsPart
<1> DEFINE Bad == {i \in Nat : \E s \in SUBSET T :
                                 Cardinality(s) = i /\ h[s] # g[s]}
<1>1. IsFiniteSet(T) /\ Cardinality(T) \in Nat
  BY FS_Subset, FS_CardinalityType
<1> SUFFICES ASSUME Bad # {}
             PROVE  FALSE
  BY <1>1
<1>2. PICK i \in Bad : \A j \in Bad : i <= j
  <2> Bad \in SUBSET Nat
    OBVIOUS
  <2> HIDE DEF Bad
  <2> QED  BY SmallestNat
<1>3. PICK s \in SUBSET T : Cardinality(s) = i /\ h[s] # g[s]
  BY <1>2
<1>4. \A t \in SUBSET T :
        Cardinality(t) \in Nat /\ Cardinality(t) < i => h[t] = g[t]
  BY <1>2
<1>5. g[s] = Body(f, g, s) /\ h[s] = Body(e, h, s)
  BY DEF IsIter
<1>6. CASE s = {}
  BY <1>3, <1>5, <1>6 DEF Body
<1>7. CASE s # {}
  <2> DEFINE c == CHOOSE y \in s : TRUE
  <2>1. /\ g[s] = f[c] + g[s \ {c}]
        /\ h[s] = e[c] + h[s \ {c}]
    BY <1>5, <1>7 DEF Body
  <2>2. /\ c \in T
        /\ s \ {c} \in SUBSET T
        /\ Cardinality(s \ {c}) \in Nat
        /\ Cardinality(s \ {c}) < Cardinality(s)
    BY <1>1, <1>7, Chosen
  <2> HIDE DEF c
  <2>3. h[s \ {c}] = g[s \ {c}]
    BY <1>3, <1>4, <2>2
  <2>4. e[c] = f[c]
    BY <2>2
  <2> QED  BY <1>3, <2>1, <2>3, <2>4
<1> QED  BY <1>6, <1>7

(* SumFunction is a solution with natural values.                          *)
LEMMA SumSolves ==
  ASSUME NEW S, IsFiniteSet(S), NEW f \in [S -> Nat]
  PROVE  \E g \in [SUBSET S -> Nat] :
           IsIter(f, SUBSET S, g) /\ SumFunction(f) = g[S]
<1>1. Solvable(f, S, Cardinality(S))
  BY AlwaysSolvable, FS_CardinalityType
<1>2. Upto(S, Cardinality(S)) = SUBSET S
  BY FS_Subset DEF Upto
<1>3. PICK g \in [SUBSET S -> Nat] : IsIter(f, SUBSET S, g)
  BY <1>1, <1>2 DEF Solvable
<1>4. PICK it : IsIter(f, SUBSET S, it) /\ SumFunction(f) = it[S]
  <2>1. S = DOMAIN f
    OBVIOUS
  <2> QED  BY <1>3, <2>1, SumIsIter
<1>5. it[S] = g[S]
  <2>1. IsPart(f, S, f, S)
    BY DEF IsPart
  <2>2. IsIter(f, SUBSET S, g)
    BY <1>3
  <2>3. IsIter(f, SUBSET S, it)
    BY <1>4
  <2> QED  BY <2>1, <2>2, <2>3, Restricted
<1> QED  BY <1>3, <1>4, <1>5

(* The sum of nothing is 0.                                                *)
LEMMA SumOfNone == ASSUME NEW f, DOMAIN f = {} PROVE SumFunction(f) = 0
<1> DEFINE g == [s \in SUBSET DOMAIN f |-> 0]
<1>1. IsIter(f, SUBSET DOMAIN f, g)
  <2>1. \A s \in SUBSET DOMAIN f : Body(f, g, s) = 0
    BY DEF Body
  <2> QED  BY <2>1 DEF IsIter
<1>2. PICK it : IsIter(f, SUBSET DOMAIN f, it) /\ SumFunction(f) = it[DOMAIN f]
  <2> HIDE DEF g
  <2> QED  BY <1>1, SumIsIter
<1>3. it[{}] = Body(f, it, {})
  BY <1>2 DEF IsIter
<1> QED  BY <1>2, <1>3 DEF Body

(* A sum is any one of its terms and the sum of the others.                *)
LEMMA SumSplits ==
  ASSUME NEW S, IsFiniteSet(S), NEW f \in [S -> Nat], NEW x \in S
  PROVE  SumFunction(f) = f[x] + SumFunction([y \in S \ {x} |-> f[y]])
<1> DEFINE T == S \ {x}
           e == [y \in T |-> f[y]]
<1>1. PICK g \in [SUBSET S -> Nat] :
        IsIter(f, SUBSET S, g) /\ SumFunction(f) = g[S]
  BY SumSolves
<1>2. PICK h \in [SUBSET T -> Nat] :
        IsIter(e, SUBSET T, h) /\ SumFunction(e) = h[T]
  <2>1. IsFiniteSet(T) /\ e \in [T -> Nat]
    BY FS_Subset
  <2> HIDE DEF T, e
  <2> QED  BY <2>1, SumSolves
<1>3. g[S] = f[x] + g[T]
  BY <1>1, AnyElement
<1>4. h[T] = g[T]
  <2>1. IsPart(e, T, f, S)
    BY DEF IsPart
  <2>2. IsIter(f, SUBSET S, g)
    BY <1>1
  <2>3. IsIter(e, SUBSET T, h)
    BY <1>2
  <2> HIDE DEF T, e
  <2> QED  BY <2>1, <2>2, <2>3, Restricted
<1> QED  BY <1>1, <1>2, <1>3, <1>4

(* The sum over 1 .. n + 1 is the last term and the sum over 1 .. n.       *)
LEMMA SumOfNext ==
  ASSUME NEW n \in Nat, NEW f \in [1 .. n + 1 -> Nat]
  PROVE  SumFunction(f) = f[n + 1] + SumFunction([i \in 1 .. n |-> f[i]])
<1>1. IsFiniteSet(1 .. n + 1)
  BY FS_Interval
<1>2. (1 .. n + 1) \ {n + 1} = 1 .. n /\ n + 1 \in 1 .. n + 1
  OBVIOUS
<1> DEFINE S == 1 .. n + 1
           x == n + 1
<1>3. SumFunction(f) = f[x] + SumFunction([i \in S \ {x} |-> f[i]])
  <2>1. f \in [S -> Nat] /\ x \in S /\ IsFiniteSet(S)
    BY <1>1, <1>2
  <2> HIDE DEF S, x
  <2> QED  BY <2>1, SumSplits, ZenonT(60)
<1> QED  BY <1>2, <1>3

-----------------------------------------------------------------------------
(* The sum of the terms that the first n elements of a list name.          *)
SumTo(f, s, n) == SumFunction([i \in 1 .. n |-> f[s[i]]])

(* It starts at 0                                                          *)
LEMMA SumToNone == ASSUME NEW f, NEW s PROVE SumTo(f, s, 0) = 0
<1>1. DOMAIN [i \in 1 .. 0 |-> f[s[i]]] = {}
  OBVIOUS
<1> QED BY <1>1, SumOfNone DEF SumTo

(* and grows by one term with each element.                                *)
LEMMA SumToNext ==
  ASSUME NEW A, NEW f \in [A -> Nat], NEW s \in Seq(A), NEW n \in Nat,
         n + 1 <= Len(s)
  PROVE  SumTo(f, s, n + 1) = SumTo(f, s, n) + f[s[n + 1]]
<1> DEFINE g == [i \in 1 .. n + 1 |-> f[s[i]]]
<1>1. \A i \in 1 .. n + 1 : s[i] \in A
  OBVIOUS
<1>2. g \in [1 .. n + 1 -> Nat] BY <1>1
<1>3. [i \in 1 .. n |-> g[i]] = [i \in 1 .. n |-> f[s[i]]]
  OBVIOUS
<1>4. SumFunction(g) = g[n + 1] + SumFunction([i \in 1 .. n |-> g[i]])
  <2> HIDE DEF g
  <2> QED BY <1>2, SumOfNext
<1>5. SumTo(f, s, n + 1) = g[n + 1] + SumTo(f, s, n)
  BY <1>3, <1>4 DEF SumTo
<1>6. SumTo(f, s, n) \in Nat
  <2> DEFINE e == [i \in 1 .. n |-> f[s[i]]]
  <2>1. e \in [1 .. n -> Nat] BY <1>1
  <2> HIDE DEF e
  <2>3. IsFiniteSet(1 .. n) BY FS_Interval
  <2>2. SumFunction(e) \in Nat
    <3> DEFINE S == 1 .. n
    <3>1. IsFiniteSet(S) /\ e \in [S -> Nat] BY <2>1, <2>3
    <3> HIDE DEF S
    <3> QED BY <3>1, SumIsNat
  <2> QED BY <2>2 DEF SumTo, e
<1>7. g[n + 1] = f[s[n + 1]] /\ g[n + 1] \in Nat BY <1>1
<1> QED BY <1>5, <1>6, <1>7

(* It is a natural number.                                                 *)
LEMMA SumToIsNat ==
  ASSUME NEW A, NEW f \in [A -> Nat], NEW s \in Seq(A), NEW n \in Nat,
         n <= Len(s)
  PROVE  SumTo(f, s, n) \in Nat
<1> DEFINE e == [i \in 1 .. n |-> f[s[i]]]
<1>1. e \in [1 .. n -> Nat]
  <2>1. \A i \in 1 .. n : s[i] \in A
    OBVIOUS
  <2> QED BY <2>1
<1> HIDE DEF e
<1>2. SumFunction(e) \in Nat BY <1>1, FS_Interval, SumIsNat
<1> QED BY <1>2 DEF SumTo, e

(* The sum over a whole list                                               *)
SumOf(f, s) == SumTo(f, s, Len(s))

(* grows by the element appended,                                          *)
LEMMA SumOfAppend ==
  ASSUME NEW A, NEW f \in [A -> Nat], NEW s \in Seq(A), NEW a \in A
  PROVE  SumOf(f, Append(s, a)) = SumOf(f, s) + f[a]
<1> DEFINE t == Append(s, a)
           n == Len(s)
<1>1. /\ t \in Seq(A) /\ n \in Nat /\ Len(t) = n + 1 /\ t[n + 1] = a
      /\ n + 1 <= Len(t)
      /\ \A i \in 1 .. n : t[i] = s[i]
  OBVIOUS
<1>2. [i \in 1 .. n |-> f[t[i]]] = [i \in 1 .. n |-> f[s[i]]]
  BY <1>1
<1> HIDE DEF t, n
<1>3. SumTo(f, t, n + 1) = SumTo(f, t, n) + f[t[n + 1]]
  BY ONLY <1>1, f \in [A -> Nat], SumToNext
<1>4. SumTo(f, t, n) = SumTo(f, s, n)
  BY <1>2 DEF SumTo
<1> QED BY <1>1, <1>3, <1>4 DEF SumOf, t, n

(* and is the first element's term and the sum over the rest.              *)
LEMMA SumOfTail ==
  ASSUME NEW A, NEW f \in [A -> Nat], NEW s \in Seq(A), s # <<>>
  PROVE  SumOf(f, s) = f[Head(s)] + SumOf(f, Tail(s))
<1> DEFINE t == Tail(s)
           Good(n) == SumTo(f, s, n + 1) = f[s[1]] + SumTo(f, t, n)
           Bad == {n \in Nat : n <= Len(t) /\ ~Good(n)}
<1>1. /\ t \in Seq(A) /\ Len(t) \in Nat /\ Len(s) = Len(t) + 1
      /\ \A i \in 1 .. Len(t) : t[i] = s[i + 1]
      /\ Head(s) = s[1]
  OBVIOUS
<1> HIDE DEF t
<1>2. \A i \in 1 .. Len(s) : s[i] \in A /\ f[s[i]] \in Nat
  OBVIOUS
<1>3. Good(0)
  <2>0. 0 + 1 <= Len(s) /\ 0 \in Nat
    BY <1>1
  <2>1. SumTo(f, s, 0 + 1) = SumTo(f, s, 0) + f[s[0 + 1]]
    BY ONLY <2>0, s \in Seq(A), f \in [A -> Nat], SumToNext
  <2> QED BY <2>1, <1>1, <1>2, SumToNone
<1>4. ASSUME NEW n \in Nat, n + 1 <= Len(t), Good(n)
      PROVE  Good(n + 1)
  <2> DEFINE m == n + 1
  <2>1. m \in Nat /\ m + 1 <= Len(s) /\ n <= Len(t)
    BY <1>1, <1>4
  <2>2. SumTo(f, s, m + 1) = SumTo(f, s, m) + f[s[m + 1]]
    <3> HIDE DEF m
    <3> QED BY <2>1, SumToNext
  <2>3. SumTo(f, t, m) = SumTo(f, t, n) + f[t[m]]
    BY <1>1, <1>4, SumToNext
  <2>4. t[m] = s[m + 1] /\ f[s[m + 1]] \in Nat /\ f[s[1]] \in Nat
    <3>1. m \in 1 .. Len(t)
      BY ONLY <1>1, <1>4
    <3>2. m + 1 \in 1 .. Len(s) /\ 1 \in 1 .. Len(s)
      BY ONLY <1>1, <3>1
    <3> HIDE DEF m, Good, Bad
    <3>3. t[m] = s[m + 1]
      BY ONLY <1>1, <3>1
    <3> QED BY ONLY <1>2, <3>2, <3>3
  <2>5. SumTo(f, t, n) \in Nat
    BY <1>1, <2>1, SumToIsNat
  <2> QED BY <1>4, <2>2, <2>3, <2>4, <2>5
<1>5. Bad = {}
  <2> SUFFICES ASSUME Bad # {} PROVE FALSE
    OBVIOUS
  <2>1. PICK n \in Bad : \A j \in Bad : n <= j
    <3> DEFINE B == Bad
    <3>1. B \in SUBSET Nat /\ B # {}
      OBVIOUS
    <3> HIDE DEF B
    <3>2. \E n \in B : \A j \in B : n <= j
      BY <3>1, SmallestNat
    <3> QED BY <3>2 DEF B
  <2>2. n \in Nat /\ n <= Len(t) /\ ~Good(n) /\ n # 0
    BY <1>3
  <2> HIDE DEF Good
  <2>3. n - 1 \in Nat /\ n - 1 <= Len(t) /\ ~(n <= n - 1)
    BY ONLY <2>2, Len(t) \in Nat, <1>1
  <2>a. n - 1 \notin Bad
    BY <2>1, <2>3, Zenon
  <2>4. Good(n - 1)
    BY <2>3, <2>a
  <2>5. Good((n - 1) + 1)
    BY <1>4, <2>2, <2>3, <2>4
  <2> QED BY <2>2, <2>5
<1>6. Good(Len(t))
  <2> HIDE DEF Good
  <2> QED BY <1>1, <1>5
<1> QED BY <1>1, <1>6 DEF SumOf, t

(* The sum of a function's values over part of its domain                  *)
SumOver(f, S) == SumFunction([y \in S |-> f[y]])

(* is any one of them and the sum of the others.                           *)
LEMMA SumOfPart ==
  ASSUME NEW A, NEW f \in [A -> Nat], NEW S \in SUBSET A, IsFiniteSet(S),
         NEW x \in S
  PROVE  SumOver(f, S) = f[x] + SumOver(f, S \ {x})
<1> DEFINE e == [y \in S |-> f[y]]
<1>1. e \in [S -> Nat]
  OBVIOUS
<1>2. SumFunction(e) = e[x] + SumFunction([y \in S \ {x} |-> e[y]])
  <2> HIDE DEF e
  <2> QED BY <1>1, SumSplits, ZenonT(60)
<1>3. [y \in S \ {x} |-> e[y]] = [y \in S \ {x} |-> f[y]] /\ e[x] = f[x]
  OBVIOUS
<1> QED BY <1>2, <1>3 DEF SumOver

(* A sum along a list without repetitions is the sum over its elements.    *)
Elements(s, m) == {s[i] : i \in 1 .. m}

(* Along a list that repeats nothing, the sum of the first values is the   *)
(* sum over the elements listed so far.                                    *)
LEMMA SumOfList ==
  ASSUME NEW A, NEW f \in [A -> Nat], NEW s \in Seq(A),
         \A i, j \in 1 .. Len(s) : s[i] = s[j] => i = j,
         NEW m \in 0 .. Len(s)
  PROVE  SumTo(f, s, m) = SumOver(f, Elements(s, m))
<1> DEFINE Good(n) == SumTo(f, s, n) = SumOver(f, Elements(s, n))
           Bad == {n \in Nat : n <= Len(s) /\ ~Good(n)}
<1>1. \A n \in Nat : n <= Len(s) => IsFiniteSet(Elements(s, n))
  <2> TAKE n \in Nat
  <2> HAVE n <= Len(s)
  <2> DEFINE h == [i \in 1 .. n |-> s[i]]
  <2>1. IsFiniteSet(1 .. n) BY FS_Interval
  <2>2. h \in Surjection(1 .. n, Elements(s, n)) BY DEF Surjection, Elements
  <2> HIDE DEF h
  <2> QED BY <2>1, <2>2, FS_Surjection
<1> SUFFICES ASSUME Bad # {} PROVE FALSE
  <2>1. m \in Nat /\ m <= Len(s)
    OBVIOUS
  <2> HIDE DEF Good
  <2> QED BY <2>1 DEF Good
<1>2. PICK n \in Bad : \A j \in Bad : n <= j
  <2> Bad \in SUBSET Nat
    OBVIOUS
  <2> HIDE DEF Bad
  <2> QED BY SmallestNat
<1>3. CASE n = 0
  <2>1. DOMAIN [y \in Elements(s, 0) |-> f[y]] = {}
    BY DEF Elements
  <2>2. Good(0) BY <2>1, SumOfNone, SumToNone DEF SumOver
  <2> QED BY <1>2, <1>3, <2>2
<1>4. CASE n # 0
  <2> DEFINE k == n - 1
             parts == Elements(s, n)
             last == s[n]
  <2>1. k \in Nat /\ k + 1 = n /\ k + 1 <= Len(s) BY <1>2, <1>4
  <2>2. Good(k)
    <3>1. k < n /\ k <= Len(s) BY <1>2, <2>1
    <3> HIDE DEF Good, k
    <3> QED BY <1>2, <2>1, <3>1
  <2>3. SumTo(f, s, n) = SumTo(f, s, k) + f[last]
    <3>1. SumTo(f, s, k + 1) = SumTo(f, s, k) + f[s[k + 1]]
      <4> HIDE DEF k
      <4> QED BY <2>1, SumToNext
    <3> QED BY <2>1, <3>1
  <2>4. parts \subseteq A /\ last \in parts /\ IsFiniteSet(parts)
    <3>1. \A i \in 1 .. n : s[i] \in A BY <1>2
    <3>2. n \in 1 .. n BY <1>2, <1>4
    <3> QED BY <1>1, <1>2, <3>1, <3>2 DEF Elements
  <2>5. parts \ {last} = Elements(s, k)
    <3>1. \A i \in 1 .. n : i \in 1 .. k \/ i = n BY <2>1
    <3>2. \A i \in 1 .. k : i \in 1 .. n /\ s[i] # last
      BY <1>2, <2>1
    <3> QED BY <3>1, <3>2 DEF Elements
  <2>6. SumOver(f, parts) = f[last] + SumOver(f, parts \ {last})
    <3> HIDE DEF parts, last, Good, Bad, k
    <3> QED BY <2>4, SumOfPart
  <2>8. SumOver(f, parts) = f[last] + SumTo(f, s, k)
    <3> HIDE DEF parts, last
    <3> QED BY <2>2, <2>5, <2>6
  <2>9. SumTo(f, s, k) \in Nat /\ f[last] \in Nat
    <3>1. last \in A BY <2>4
    <3>2. SumTo(f, s, k) \in Nat
      <4> k \in Nat /\ k <= Len(s) BY <2>1
      <4> HIDE DEF k
      <4> QED BY SumToIsNat
    <3> QED BY <3>1, <3>2
  <2>10. Good(n) BY <2>3, <2>8, <2>9
  <2> QED BY <1>2, <2>10
<1> QED BY <1>3, <1>4
=============================================================================
