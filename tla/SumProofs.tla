----------------------------- MODULE SumProofs -----------------------------
(***************************************************************************)
(* Induction as smallest counterexamples, and sums over finite sets, as    *)
(* the library's fold computes them: the fold is defined for every finite  *)
(* set, whichever element is taken out first.                              *)
(***************************************************************************)
EXTENDS Integers, FiniteSets, Functions, FiniteSetTheorems, WellFoundedInduction, TLAPS

\* Among finitely many natural numbers there is a smallest.
LEMMA LeastElement ==
    ASSUME NEW T \in SUBSET Nat, T # {}
    PROVE  \E x \in T : \A y \in T : x <= y
<1> DEFINE R == OpToRel(<, Nat)
<1>1. \E x \in T : \A y \in T : ~(<<y, x>> \in R)
  BY NatLessThanWellFounded, WFMin, Zenon
<1>2. \A x, y \in Nat : x < y => <<x, y>> \in R
  BY Zenon DEF OpToRel
<1>3. PICK x \in T : \A y \in T : ~(y < x)
  BY <1>1, <1>2, Zenon
<1> QED BY <1>3

\* The element the fold takes first.
Chosen(s) == CHOOSE x \in s : TRUE

\* What the fold computes on every set of D, when D has what is left of each.
IsSum(fun, D, h) ==
    h = [s \in D |-> IF s = {} THEN 0 ELSE fun[Chosen(s)] + h[s \ {Chosen(s)}]]

\* The library's sum is the value of one such function.
LEMMA SumIsAFold ==
    ASSUME NEW fun, NEW S, \E h : IsSum(fun, SUBSET S, h)
    PROVE  \E h : IsSum(fun, SUBSET S, h) /\ SumFunctionOnSet(fun, S) = h[S]
<1> DEFINE h == CHOOSE h : IsSum(fun, SUBSET S, h)
<1>1. IsSum(fun, SUBSET S, h)
  OBVIOUS
<1>2. SumFunctionOnSet(fun, S) = h[S]
  BY DEF SumFunctionOnSet, FoldFunctionOnSet, MapThenFoldSet, IsSum, Chosen
<1> QED BY <1>1, <1>2

Small(S, n) == {s \in SUBSET S : Cardinality(s) <= n}

\* What is left of a finite set is one element smaller.
LEMMA RestIsSmaller ==
    ASSUME NEW S, IsFiniteSet(S), NEW s \in SUBSET S, s # {}
    PROVE  /\ Chosen(s) \in s /\ s \ {Chosen(s)} \in SUBSET S
           /\ IsFiniteSet(s) /\ Cardinality(s) \in Nat \ {0}
           /\ Cardinality(s \ {Chosen(s)}) = Cardinality(s) - 1
<1>1. Chosen(s) \in s
  BY DEF Chosen
<1>2. IsFiniteSet(s)
  BY FS_Subset
<1>3. Cardinality(s) \in Nat /\ Cardinality(s) # 0
  BY <1>2, FS_CardinalityType, FS_EmptySet
<1>4. Cardinality(s \ {Chosen(s)}) = Cardinality(s) - 1
  BY <1>1, <1>2, FS_RemoveElement
<1> QED BY <1>1, <1>2, <1>3, <1>4

\* One size more: from what is known of the sets up to a size.
LEMMA SumsGrow ==
    ASSUME NEW fun, NEW S, IsFiniteSet(S), NEW n \in Nat \ {0},
           NEW h, IsSum(fun, Small(S, n - 1), h)
    PROVE  \E g : IsSum(fun, Small(S, n), g)
<1> DEFINE g == [s \in Small(S, n) |->
                    IF s = {} THEN 0 ELSE fun[Chosen(s)] + h[s \ {Chosen(s)}]]
<1>1. \A s \in Small(S, n) : s # {} => s \ {Chosen(s)} \in Small(S, n - 1)
  BY RestIsSmaller DEF Small
<1>2. \A s \in Small(S, n - 1) : s \in Small(S, n)
  <2>1. \A s \in SUBSET S : Cardinality(s) \in Nat
    BY FS_Subset, FS_CardinalityType
  <2> QED BY <2>1 DEF Small
<1>3. \A s \in Small(S, n - 1) : g[s] = h[s]
  BY <1>2 DEF IsSum
<1>4. \A s \in Small(S, n) : g[s] = IF s = {} THEN 0 ELSE fun[Chosen(s)] + g[s \ {Chosen(s)}]
  BY <1>1, <1>3
<1>5. IsSum(fun, Small(S, n), g)
  BY <1>4 DEF IsSum
<1> QED BY <1>5

\* The fold's recursion has a solution on the subsets of a finite set.
LEMMA SumsExist ==
    ASSUME NEW fun, NEW S, IsFiniteSet(S)
    PROVE  \E h : IsSum(fun, SUBSET S, h)
<1> DEFINE Bad == {n \in Nat : ~\E h : IsSum(fun, Small(S, n), h)}
<1>1. Bad = {}
  <2> SUFFICES ASSUME Bad # {} PROVE FALSE
    OBVIOUS
  <2>1. PICK n \in Bad : \A m \in Bad : n <= m
    BY LeastElement
  <2>2. n \in Nat /\ ~\E h : IsSum(fun, Small(S, n), h)
    OBVIOUS
  <2>3. n # 0
    <3>1. \A s \in Small(S, 0) : s = {}
      <4> SUFFICES ASSUME NEW s \in Small(S, 0), s # {} PROVE FALSE
        OBVIOUS
      <4>1. s \in SUBSET S /\ Cardinality(s) <= 0
        BY DEF Small
      <4>2. Cardinality(s) \in Nat \ {0}
        BY <4>1, RestIsSmaller
      <4> QED BY <4>1, <4>2
    <3>2. IsSum(fun, Small(S, 0), [s \in Small(S, 0) |-> 0])
      BY <3>1 DEF IsSum
    <3> QED BY <2>2, <3>2
  <2>4. n - 1 \in Nat /\ n - 1 \notin Bad
    BY <2>1, <2>2, <2>3
  <2>5. PICK h : IsSum(fun, Small(S, n - 1), h)
    BY <2>4
  <2>6. \E g : IsSum(fun, Small(S, n), g)
    BY <2>2, <2>3, <2>5, SumsGrow
  <2> QED BY <2>2, <2>6
<1>2. Cardinality(S) \in Nat /\ Small(S, Cardinality(S)) = SUBSET S
  BY FS_CardinalityType, FS_Subset DEF Small
<1>3. PICK n \in Nat : n = Cardinality(S)
  BY <1>2
<1>4. n \notin Bad
  BY <1>1
<1> QED BY <1>2, <1>3, <1>4

Solves(fun, S, h) == IsSum(fun, SUBSET S, h)

\* Two solutions agree where both are defined.
LEMMA SumsAgree ==
    ASSUME NEW fun, NEW S, IsFiniteSet(S), NEW T \in SUBSET S,
           NEW g, Solves(fun, S, g), NEW h, Solves(fun, T, h)
    PROVE  g[T] = h[T]
<1> DEFINE Bad == {n \in Nat : \E s \in SUBSET T : Cardinality(s) = n /\ g[s] # h[s]}
<1>1. Bad = {}
  <2> SUFFICES ASSUME Bad # {} PROVE FALSE
    OBVIOUS
  <2>1. PICK n \in Bad : \A m \in Bad : n <= m
    BY LeastElement
  <2>2. PICK s \in SUBSET T : Cardinality(s) = n /\ g[s] # h[s]
    OBVIOUS
  <2>3. s # {}
    BY <2>2 DEF IsSum, Solves
  <2>4. PICK r : r = s \ {Chosen(s)}
    OBVIOUS
  <2>5. r \in SUBSET T /\ Cardinality(r) = n - 1 /\ n \in Nat \ {0}
    BY <2>2, <2>3, <2>4, RestIsSmaller
  <2>6. g[r] = h[r]
    <3>1. n - 1 \in Nat /\ n - 1 \notin Bad
      BY <2>1, <2>5
    <3> QED BY <2>5, <3>1
  <2>7. g[s] = fun[Chosen(s)] + g[r] /\ h[s] = fun[Chosen(s)] + h[r]
    BY <2>3, <2>4 DEF IsSum, Solves
  <2> QED BY <2>2, <2>6, <2>7
<1>2. Cardinality(T) \in Nat
  BY FS_Subset, FS_CardinalityType
<1>3. PICK n \in Nat : n = Cardinality(T)
  BY <1>2
<1>4. n \notin Bad
  BY <1>1
<1> QED BY <1>3, <1>4

\* The library's sum takes one element out and adds the sum of the rest.
LEMMA SumTakesFirst ==
    ASSUME NEW fun, NEW S, IsFiniteSet(S), S # {}
    PROVE  SumFunctionOnSet(fun, S) = fun[Chosen(S)] + SumFunctionOnSet(fun, S \ {Chosen(S)})
<1>1. PICK g : IsSum(fun, SUBSET S, g) /\ SumFunctionOnSet(fun, S) = g[S]
  BY SumsExist, SumIsAFold
<1>2. PICK T : T = S \ {Chosen(S)}
  OBVIOUS
<1>3. IsFiniteSet(T) /\ T \in SUBSET S
  BY <1>2, FS_Subset
<1>4. PICK h : IsSum(fun, SUBSET T, h) /\ SumFunctionOnSet(fun, T) = h[T]
  BY <1>3, SumsExist, SumIsAFold
<1>5. g[T] = h[T]
  <2>1. Solves(fun, S, g) /\ Solves(fun, T, h)
    BY <1>1, <1>4 DEF Solves
  <2> QED BY <1>3, <2>1, SumsAgree
<1>6. g[S] = fun[Chosen(S)] + g[T]
  BY <1>1, <1>2 DEF IsSum
<1> QED BY <1>1, <1>2, <1>4, <1>5, <1>6

\* Nothing adds up to zero.
LEMMA SumOfNothing ==
    ASSUME NEW fun
    PROVE  SumFunctionOnSet(fun, {}) = 0
<1>1. IsFiniteSet({})
  BY FS_EmptySet
<1>2. PICK g : IsSum(fun, SUBSET {}, g) /\ SumFunctionOnSet(fun, {}) = g[{}]
  BY <1>1, SumsExist, SumIsAFold
<1> QED BY <1>2 DEF IsSum

\* Integers add up to an integer.
LEMMA SumIsAnInteger ==
    ASSUME NEW fun, NEW S, IsFiniteSet(S), \A x \in S : fun[x] \in Int
    PROVE  SumFunctionOnSet(fun, S) \in Int
<1> DEFINE Bad == {n \in Nat : \E s \in SUBSET S :
                        Cardinality(s) = n /\ SumFunctionOnSet(fun, s) \notin Int}
<1>1. Bad = {}
  <2> SUFFICES ASSUME Bad # {} PROVE FALSE
    OBVIOUS
  <2>1. PICK n \in Bad : \A m \in Bad : n <= m
    BY LeastElement
  <2>2. PICK s \in SUBSET S : Cardinality(s) = n /\ SumFunctionOnSet(fun, s) \notin Int
    OBVIOUS
  <2>3. s # {}
    BY <2>2, SumOfNothing
  <2>4. PICK r : r = s \ {Chosen(s)}
    OBVIOUS
  <2>5. /\ r \in SUBSET S /\ Cardinality(r) = n - 1 /\ n \in Nat \ {0}
        /\ Chosen(s) \in S /\ IsFiniteSet(s)
    BY <2>2, <2>3, <2>4, RestIsSmaller
  <2>6. SumFunctionOnSet(fun, r) \in Int
    <3>1. n - 1 \in Nat /\ n - 1 \notin Bad
      BY <2>1, <2>5
    <3> QED BY <2>5, <3>1
  <2>7. SumFunctionOnSet(fun, s) = fun[Chosen(s)] + SumFunctionOnSet(fun, r)
    BY <2>3, <2>4, <2>5, SumTakesFirst
  <2> QED BY <2>2, <2>5, <2>6, <2>7
<1>2. Cardinality(S) \in Nat
  BY FS_CardinalityType
<1>3. PICK n \in Nat : n = Cardinality(S)
  BY <1>2
<1>4. n \notin Bad
  BY <1>1
<1> QED BY <1>3, <1>4

\* It does not matter which element is taken out.
LEMMA SumTakesAny ==
    ASSUME NEW fun, NEW S, IsFiniteSet(S), \A y \in S : fun[y] \in Int, NEW x \in S
    PROVE  SumFunctionOnSet(fun, S) = fun[x] + SumFunctionOnSet(fun, S \ {x})
<1> DEFINE Good(s, y) ==
        SumFunctionOnSet(fun, s) = fun[y] + SumFunctionOnSet(fun, s \ {y})
<1> DEFINE Bad == {n \in Nat : \E s \in SUBSET S : \E y \in s :
                        Cardinality(s) = n /\ ~Good(s, y)}
<1>1. Bad = {}
  <2> SUFFICES ASSUME Bad # {} PROVE FALSE
    OBVIOUS
  <2>1. PICK n \in Bad : \A m \in Bad : n <= m
    BY LeastElement
  <2>2. PICK s \in SUBSET S : \E y \in s : Cardinality(s) = n /\ ~Good(s, y)
    OBVIOUS
  <2>3. PICK y \in s : Cardinality(s) = n /\ ~Good(s, y)
    BY <2>2
  <2>4. PICK f : f = Chosen(s)
    OBVIOUS
  <2>5. /\ f \in s /\ IsFiniteSet(s) /\ n \in Nat \ {0}
        /\ Cardinality(s \ {f}) = n - 1
    BY <2>3, <2>4, RestIsSmaller
  <2>6. SumFunctionOnSet(fun, s) = fun[f] + SumFunctionOnSet(fun, s \ {f})
    BY <2>3, <2>4, <2>5, SumTakesFirst
  <2>7. f # y
    BY <2>3, <2>6
  <2>8. n - 1 \in Nat /\ n - 1 \notin Bad
    BY <2>1, <2>5
  <2>9. PICK sf : sf = s \ {f}
    OBVIOUS
  <2>10. PICK sy : sy = s \ {y}
    OBVIOUS
  <2>11. Cardinality(sf) = n - 1 /\ Cardinality(sy) = n - 1
    BY <2>3, <2>5, <2>9, <2>10, FS_RemoveElement
  <2>12. sf \in SUBSET S /\ sy \in SUBSET S /\ y \in sf /\ f \in sy
    BY <2>3, <2>5, <2>7, <2>9, <2>10
  <2>13. Good(sf, y) /\ Good(sy, f)
    BY <2>8, <2>11, <2>12
  <2>14. PICK r : r = sf \ {y} /\ r = sy \ {f}
    BY <2>9, <2>10
  <2>15. r \in SUBSET S
    BY <2>12, <2>14
  <2>16. IsFiniteSet(r)
    BY <2>15, FS_Subset
  <2>17. SumFunctionOnSet(fun, r) \in Int
    BY <2>15, <2>16, SumIsAnInteger
  <2>18. PICK k \in Int : k = SumFunctionOnSet(fun, r)
    BY <2>17
  <2>19. fun[f] \in Int /\ fun[y] \in Int
    BY <2>3, <2>5
  <2>20. SumFunctionOnSet(fun, sf) = fun[y] + k /\ SumFunctionOnSet(fun, sy) = fun[f] + k
    BY <2>13, <2>14, <2>18
  <2>21. SumFunctionOnSet(fun, s) = fun[f] + (fun[y] + k)
    BY <2>6, <2>9, <2>20
  <2>22. SumFunctionOnSet(fun, s) # fun[y] + (fun[f] + k)
    BY <2>3, <2>10, <2>20
  <2> QED BY <2>18, <2>19, <2>21, <2>22
<1>2. Cardinality(S) \in Nat
  BY FS_CardinalityType
<1>3. PICK n \in Nat : n = Cardinality(S)
  BY <1>2
<1>4. n \notin Bad
  BY <1>1
<1>5. Good(S, x)
  BY <1>3, <1>4
<1> QED BY <1>5

\* The sum depends on what the function says of the set and on nothing else.
LEMMA SumsOfEqualTerms ==
    ASSUME NEW fun, NEW gun, NEW S, IsFiniteSet(S), \A x \in S : fun[x] = gun[x]
    PROVE  SumFunctionOnSet(fun, S) = SumFunctionOnSet(gun, S)
<1> DEFINE Bad == {n \in Nat : \E s \in SUBSET S :
              Cardinality(s) = n /\ SumFunctionOnSet(fun, s) # SumFunctionOnSet(gun, s)}
<1>1. Bad = {}
  <2> SUFFICES ASSUME Bad # {} PROVE FALSE
    OBVIOUS
  <2>1. PICK n \in Bad : \A m \in Bad : n <= m
    BY LeastElement
  <2>2. PICK s \in SUBSET S :
           Cardinality(s) = n /\ SumFunctionOnSet(fun, s) # SumFunctionOnSet(gun, s)
    OBVIOUS
  <2>3. s # {}
    BY <2>2, SumOfNothing
  <2>4. PICK r : r = s \ {Chosen(s)}
    OBVIOUS
  <2>5. /\ r \in SUBSET S /\ Cardinality(r) = n - 1 /\ n \in Nat \ {0}
        /\ Chosen(s) \in S /\ IsFiniteSet(s)
    BY <2>2, <2>3, <2>4, RestIsSmaller
  <2>6. SumFunctionOnSet(fun, r) = SumFunctionOnSet(gun, r)
    <3>1. n - 1 \in Nat /\ n - 1 \notin Bad
      BY <2>1, <2>5
    <3> QED BY <2>5, <3>1
  <2>7. /\ SumFunctionOnSet(fun, s) = fun[Chosen(s)] + SumFunctionOnSet(fun, r)
        /\ SumFunctionOnSet(gun, s) = gun[Chosen(s)] + SumFunctionOnSet(gun, r)
    BY <2>3, <2>4, <2>5, SumTakesFirst
  <2> QED BY <2>2, <2>5, <2>6, <2>7
<1>2. Cardinality(S) \in Nat
  BY FS_CardinalityType
<1>3. PICK n \in Nat : n = Cardinality(S)
  BY <1>2
<1>4. n \notin Bad
  BY <1>1
<1> QED BY <1>3, <1>4

\* An element more adds its term.
LEMMA SumOfOneMore ==
    ASSUME NEW fun, NEW S, IsFiniteSet(S), NEW x, x \notin S,
           \A y \in S \cup {x} : fun[y] \in Int
    PROVE  SumFunctionOnSet(fun, S \cup {x}) = fun[x] + SumFunctionOnSet(fun, S)
<1>1. PICK T : T = S \cup {x}
  OBVIOUS
<1>2. IsFiniteSet(T)
  BY <1>1, FS_AddElement
<1>3. T \ {x} = S /\ x \in T
  BY <1>1
<1>4. SumFunctionOnSet(fun, T) = fun[x] + SumFunctionOnSet(fun, T \ {x})
  BY <1>1, <1>2, <1>3, SumTakesAny
<1> QED BY <1>1, <1>3, <1>4
=============================================================================
