----------------------------- MODULE FiniteSums ----------------------------
(***************************************************************************)
(* Sums over finite sets.  The models add up bytes and tokens with         *)
(* MapThenSumSet, which is defined by recursion, so facts about it are     *)
(* proved by smallest counterexample: of the finite sets for which a fact  *)
(* fails one has no smaller one, and taking an element off it leads to a   *)
(* contradiction.  So do least and greatest numbers exist.                 *)
(***************************************************************************)
EXTENDS Integers, FiniteSetsExt, FiniteSetTheorems, NaturalsInduction, TLAPS

(***************************************************************************)
(* Least and greatest numbers                                              *)
(***************************************************************************)

\* A set of numbers that is not empty has a least one.
LEMMA MinOfNats ==
  ASSUME NEW S \in SUBSET Nat, S # {}
  PROVE  Min(S) \in S /\ \A k \in S : Min(S) <= k
  <1> DEFINE Less == { xy \in Nat \X Nat : xy[1] < xy[2] }
  <1>1. IsWellFoundedOn(Less, Nat)
    BY NatLessThanWellFounded DEF OpToRel
  <1>2. \A i, j \in Nat : i < j => <<i, j>> \in Less
    OBVIOUS
  <1> HIDE DEF Less
  <1>3. PICK m \in S : \A k \in S : <<k, m>> \notin Less
    BY <1>1, WFMin
  <1>4. \A k \in S : ~(k < m)
    BY <1>2, <1>3
  <1>5. \E x \in S : \A y \in S : x =< y
    BY <1>4
  <1> QED
    BY <1>5 DEF Min

\* A set of numbers that is not empty and has a bound has a greatest one.
LEMMA MaxOfNats ==
  ASSUME NEW k \in Nat, NEW S \in SUBSET (0..k), S # {}
  PROVE  Max(S) \in S /\ \A i \in S : i <= Max(S)
  <1> DEFINE T == {k - i : i \in S}
  <1>1. T \in SUBSET Nat /\ T # {}
    <2>1. \A i \in S : i \in 0..k
      OBVIOUS
    <2>2. \A i \in S : k - i \in Nat
      BY <2>1
    <2>3. T # {}
      OBVIOUS
    <2> QED
      BY <2>2, <2>3
  <1>2. Min(T) \in T /\ \A j \in T : Min(T) <= j
    <2> HIDE DEF T
    <2> QED
      BY <1>1, MinOfNats
  <1>3. \A j \in T : \E x \in S : j = k - x
    OBVIOUS
  <1>4. \A i \in S : k - i \in T
    OBVIOUS
  <1> HIDE DEF T
  <1>5. PICK x \in S : Min(T) = k - x
    BY <1>2, <1>3
  <1>6. \A i \in S : k - x <= k - i
    BY <1>2, <1>4, <1>5
  <1>7. \A i \in S : x >= i
    <2>1. x \in 0..k /\ \A i \in S : i \in 0..k
      OBVIOUS
    <2> QED
      BY <1>6, <2>1
  <1>8. Max(S) \in S /\ \A i \in S : Max(S) >= i
    BY <1>7 DEF Max
  <1> QED
    BY <1>8

(***************************************************************************)
(* Sums                                                                    *)
(***************************************************************************)

\* The sum of c over S.
Total(c, S) == MapThenSumSet(LAMBDA x : c[x], S)

First(s) == CHOOSE x \in s : TRUE

\* g is the sum of c over every subset of S.
Sums(g, c, S) ==
  g = [s \in SUBSET S |-> IF s = {} THEN 0 ELSE c[First(s)] + g[s \ {First(s)}]]

(***************************************************************************)
(* The recursion has a solution, and only one                              *)
(***************************************************************************)

\* The total is one of the subsets' sums, if those can be added up at all.
LEMMA TotalIsSum ==
  ASSUME NEW c, NEW S, \E g : Sums(g, c, S)
  PROVE  \E g : Sums(g, c, S) /\ Total(c, S) = g[S]
  <1>1. Total(c, S) = (CHOOSE g : Sums(g, c, S))[S]
    BY DEF Total, Sums, First, MapThenSumSet, MapThenFoldSet
  <1> QED
    BY <1>1

\* Taking an element off a finite set leaves a smaller finite set.
LEMMA Smaller ==
  ASSUME NEW S, NEW s \in FiniteSubsetsOf(S), NEW x \in s
  PROVE  /\ s \ {x} \in FiniteSubsetsOf(S)
         /\ <<s \ {x}, s>> \in StrictSubsetOrdering(S)
  BY FS_RemoveElement DEF FiniteSubsetsOf, StrictSubsetOrdering

\* The first element of a set is one of it.
LEMMA FirstOf ==
  ASSUME NEW s, s # {}
  PROVE  First(s) \in s
  BY DEF First

\* A set of finite subsets that is not empty has a smallest member.
LEMMA Smallest ==
  ASSUME NEW S, NEW B, B \subseteq FiniteSubsetsOf(S), B # {}
  PROVE  \E s \in B : \A x \in s : s \ {x} \notin B
  <1>1. IsWellFoundedOn(StrictSubsetOrdering(S), FiniteSubsetsOf(S))
    BY FS_StrictSubsetOrderingWellFounded
  <1>2. PICK s \in B : \A r \in B : ~(<<r, s>> \in StrictSubsetOrdering(S))
    BY <1>1, WFMin
  <1> QED
    BY <1>2, Smaller

\* Sums over the subsets of two sets agree where both are defined.
LEMMA SumsAgree ==
  ASSUME NEW c, NEW S, NEW R, NEW g, NEW h, Sums(g, c, S), Sums(h, c, R),
         NEW s \in FiniteSubsetsOf(S \cap R)
  PROVE  g[s] = h[s]
  <1> DEFINE B == { r \in FiniteSubsetsOf(S \cap R) : g[r] # h[r] }
  <1> SUFFICES ASSUME B # {}
               PROVE  FALSE
    OBVIOUS
  <1>1. PICK r \in B : \A x \in r : r \ {x} \notin B
    BY Smallest
  <1>2. r \in SUBSET S /\ r \in SUBSET R /\ g[r] # h[r] /\ r \in FiniteSubsetsOf(S \cap R)
    BY DEF FiniteSubsetsOf
  <1>3. CASE r = {}
    BY <1>2, <1>3 DEF Sums
  <1>4. CASE r # {}
    <2> DEFINE q == r \ {First(r)}
    <2>1. q \in FiniteSubsetsOf(S \cap R) /\ q \notin B
      BY <1>1, <1>2, <1>4, Smaller, FirstOf
    <2>2. g[q] = h[q]
      BY <2>1
    <2>3. g[r] = c[First(r)] + g[q] /\ h[r] = c[First(r)] + h[q]
      BY <1>2, <1>4 DEF Sums
    <2> QED
      BY <1>2, <2>2, <2>3
  <1> QED
    BY <1>3, <1>4

\* A sum over every subset of R has one over every subset of a part of R.
LEMMA SumsRestrict ==
  ASSUME NEW c, NEW R, NEW g, Sums(g, c, R), NEW S \in SUBSET R
  PROVE  Sums([s \in SUBSET S |-> g[s]], c, S)
  <1>1. \A s \in SUBSET S : s \ {First(s)} \in SUBSET S /\ s \in SUBSET R
    OBVIOUS
  <1> QED
    BY <1>1 DEF Sums

\* What a sum says of its own set.
LEMMA TotalUnfold ==
  ASSUME NEW c, NEW S, IsFiniteSet(S), \E g : Sums(g, c, S)
  PROVE  Total(c, S) = IF S = {} THEN 0 ELSE c[First(S)] + Total(c, S \ {First(S)})
  <1> DEFINE q == S \ {First(S)}
  <1>1. PICK g : Sums(g, c, S) /\ Total(c, S) = g[S]
    BY TotalIsSum
  <1>2. Sums([s \in SUBSET q |-> g[s]], c, q)
    BY <1>1, SumsRestrict
  <1>3. PICK h : Sums(h, c, q) /\ Total(c, q) = h[q]
    BY <1>2, TotalIsSum
  <1>4. q \in FiniteSubsetsOf(q \cap S)
    <2>1. IsFiniteSet(q) /\ q \cap S = q
      BY FS_RemoveElement
    <2> QED
      BY <2>1 DEF FiniteSubsetsOf
  <1>5. h[q] = g[q]
    BY <1>1, <1>3, <1>4, SumsAgree, SMTT(30)
  <1>6. S \in SUBSET S /\ g[S] = IF S = {} THEN 0 ELSE c[First(S)] + g[q]
    BY <1>1 DEF Sums
  <1> QED
    BY <1>1, <1>3, <1>5, <1>6

\* The subsets of a finite set can be added up.
LEMMA SumsExist ==
  ASSUME NEW c, NEW S, IsFiniteSet(S)
  PROVE  \E g : Sums(g, c, S)
  <1> DEFINE B == { r \in FiniteSubsetsOf(S) : ~\E g : Sums(g, c, r) }
  <1> SUFFICES ASSUME B # {}
               PROVE  FALSE
    BY FS_Subset DEF FiniteSubsetsOf
  <1>1. PICK T \in B : \A x \in T : T \ {x} \notin B
    BY Smallest
  <1>2. T \in FiniteSubsetsOf(S) /\ IsFiniteSet(T)
    BY DEF FiniteSubsetsOf
  <1>3. ASSUME NEW s \in SUBSET T, NEW x \in T, x \notin s
        PROVE  IsFiniteSet(s) /\ \E g : Sums(g, c, s)
    <2>1. T \ {x} \in FiniteSubsetsOf(S)
      BY <1>2, Smaller
    <2>2. PICK g : Sums(g, c, T \ {x})
      BY <1>1, <2>1
    <2>3. s \in SUBSET (T \ {x})
      BY <1>3
    <2> HIDE DEF B
    <2> QED
      BY <1>2, <2>2, <2>3, SumsRestrict, FS_Subset
  <1> HIDE DEF B
  <1> DEFINE g == [s \in SUBSET T |->
                     IF s = {} THEN 0 ELSE c[First(s)] + Total(c, s \ {First(s)})]
  <1>4. ASSUME NEW s \in SUBSET T, s # {}
        PROVE  g[s \ {First(s)}] = Total(c, s \ {First(s)})
    <2> DEFINE q == s \ {First(s)}
    <2>1. First(s) \in T /\ q \in SUBSET T /\ First(s) \notin q
      BY <1>4, FirstOf
    <2>2. IsFiniteSet(q) /\ \E h : Sums(h, c, q)
      BY <1>3, <2>1
    <2>3. Total(c, q) = IF q = {} THEN 0 ELSE c[First(q)] + Total(c, q \ {First(q)})
      BY <2>2, TotalUnfold
    <2> QED
      BY <2>1, <2>3
  <1>5. Sums(g, c, T)
    <2>1. \A s \in SUBSET T : g[s] = IF s = {} THEN 0
                                     ELSE c[First(s)] + g[s \ {First(s)}]
      BY <1>4
    <2> QED
      BY <2>1 DEF Sums
  <1> QED
    BY <1>1, <1>5 DEF B

\* The recursion that defines the sum.
LEMMA TotalOf ==
  ASSUME NEW c, NEW S, IsFiniteSet(S)
  PROVE  Total(c, S) = IF S = {} THEN 0 ELSE c[First(S)] + Total(c, S \ {First(S)})
  BY SumsExist, TotalUnfold

LEMMA TotalOfNothing ==
  ASSUME NEW c
  PROVE  Total(c, {}) = 0
  <1>1. \A S : S = {} => Total(c, S) = 0
    BY TotalOf, FS_EmptySet
  <1> QED
    BY <1>1

(***************************************************************************)
(* What a total of numbers is                                              *)
(***************************************************************************)

\* The sum is a number.
LEMMA TotalType ==
  ASSUME NEW c, NEW S, IsFiniteSet(S), \A x \in S : c[x] \in Nat
  PROVE  Total(c, S) \in Nat
  <1> DEFINE B == { r \in FiniteSubsetsOf(S) : Total(c, r) \notin Nat }
  <1> SUFFICES ASSUME B # {}
               PROVE  FALSE
    BY FS_Subset DEF FiniteSubsetsOf
  <1>1. PICK r \in B : \A x \in r : r \ {x} \notin B
    BY Smallest
  <1>2. r \in FiniteSubsetsOf(S) /\ IsFiniteSet(r) /\ r \in SUBSET S
    BY DEF FiniteSubsetsOf
  <1>3. CASE r = {}
    <2>1. Total(c, r) = 0
      BY <1>3, TotalOfNothing
    <2> QED
      BY <1>1, <2>1
  <1>4. CASE r # {}
    <2>1. First(r) \in r /\ c[First(r)] \in Nat
      BY <1>2, <1>4, FirstOf
    <2>2. Total(c, r \ {First(r)}) \in Nat
      BY <1>1, <1>2, <2>1, Smaller
    <2>3. Total(c, r) = c[First(r)] + Total(c, r \ {First(r)})
      BY <1>2, <1>4, TotalOf
    <2> QED
      BY <1>1, <2>1, <2>2, <2>3
  <1> QED
    BY <1>3, <1>4

\* One more element adds its number, whichever it is.
LEMMA TotalOfOneMore ==
  ASSUME NEW c, NEW S, IsFiniteSet(S), \A x \in S : c[x] \in Nat, NEW d \in S
  PROVE  Total(c, S) = c[d] + Total(c, S \ {d})
  <1> DEFINE Adds(r) == \A x \in r : Total(c, r) = c[x] + Total(c, r \ {x})
             B == { r \in FiniteSubsetsOf(S) : ~Adds(r) }
  <1> SUFFICES ASSUME B # {}
               PROVE  FALSE
    BY FS_Subset DEF FiniteSubsetsOf
  <1>1. PICK r \in B : \A x \in r : r \ {x} \notin B
    BY Smallest
  <1>2. r \in FiniteSubsetsOf(S) /\ IsFiniteSet(r) /\ r \in SUBSET S
    BY DEF FiniteSubsetsOf
  <1>3. PICK x \in r : Total(c, r) # c[x] + Total(c, r \ {x})
    BY <1>1
  <1> DEFINE y == First(r)
             rest == (r \ {x}) \ {y}
  <1>4. y \in r
    BY FirstOf
  <1>5. Total(c, r) = c[y] + Total(c, r \ {y})
    BY <1>2, TotalOf
  <1>6. x # y
    BY <1>3, <1>5
  <1>7. r \ {y} \in FiniteSubsetsOf(S) /\ r \ {x} \in FiniteSubsetsOf(S)
    BY <1>2, <1>4, Smaller
  <1>8. Adds(r \ {y}) /\ Adds(r \ {x})
    BY <1>1, <1>4, <1>7
  <1> HIDE DEF y, B
  <1>9. /\ Total(c, r \ {y}) = c[x] + Total(c, rest)
        /\ Total(c, r \ {x}) = c[y] + Total(c, rest)
    <2>1. (r \ {y}) \ {x} = rest /\ x \in r \ {y} /\ y \in r \ {x}
      BY <1>4, <1>6
    <2> QED
      BY <1>8, <2>1
  <1>10. Total(c, rest) \in Nat /\ c[x] \in Nat /\ c[y] \in Nat
    <2>1. IsFiniteSet(rest) /\ rest \in SUBSET S
      BY <1>2, FS_Subset
    <2> QED
      BY <1>2, <1>4, <2>1, TotalType
  <1> QED
    BY <1>3, <1>5, <1>9, <1>10

\* The sum looks at the summands of its set only.
LEMMA TotalOfSame ==
  ASSUME NEW c, NEW d, NEW S, IsFiniteSet(S), \A x \in S : d[x] = c[x]
  PROVE  Total(d, S) = Total(c, S)
  <1> DEFINE B == { r \in FiniteSubsetsOf(S) : Total(d, r) # Total(c, r) }
  <1> SUFFICES ASSUME B # {}
               PROVE  FALSE
    BY FS_Subset DEF FiniteSubsetsOf
  <1>1. PICK r \in B : \A x \in r : r \ {x} \notin B
    BY Smallest
  <1>2. r \in FiniteSubsetsOf(S) /\ IsFiniteSet(r) /\ r \in SUBSET S
    BY DEF FiniteSubsetsOf
  <1>3. CASE r = {}
    BY <1>1, <1>2, <1>3, TotalOf
  <1>4. CASE r # {}
    <2>1. First(r) \in r /\ d[First(r)] = c[First(r)]
      BY <1>2, <1>4, FirstOf
    <2>2. Total(d, r \ {First(r)}) = Total(c, r \ {First(r)})
      BY <1>1, <1>2, <2>1, Smaller
    <2> QED
      BY <1>1, <1>2, <1>4, <2>1, <2>2, TotalOf
  <1> QED
    BY <1>3, <1>4

\* A set's sum is that of a part of it and that of the rest.
LEMMA TotalOfParts ==
  ASSUME NEW c, NEW S, IsFiniteSet(S), \A x \in S : c[x] \in Nat, NEW R \in SUBSET S
  PROVE  Total(c, S) = Total(c, R) + Total(c, S \ R)
  <1> DEFINE B == { r \in FiniteSubsetsOf(S) :
                      Total(c, r) # Total(c, r \cap R) + Total(c, r \ R) }
  <1> SUFFICES ASSUME B # {}
               PROVE  FALSE
    <2>1. S \in FiniteSubsetsOf(S) /\ S \cap R = R
      BY FS_Subset DEF FiniteSubsetsOf
    <2> QED
      BY <2>1
  <1>1. PICK r \in B : \A x \in r : r \ {x} \notin B
    BY Smallest
  <1>2. /\ r \in FiniteSubsetsOf(S) /\ IsFiniteSet(r) /\ r \in SUBSET S
        /\ IsFiniteSet(r \cap R) /\ IsFiniteSet(r \ R)
        /\ Total(c, r) # Total(c, r \cap R) + Total(c, r \ R)
    BY FS_Subset DEF FiniteSubsetsOf
  <1>3. CASE r = {}
    <2>1. Total(c, r) = 0 /\ Total(c, r \cap R) = 0 /\ Total(c, r \ R) = 0
      <3>1. r \cap R = {} /\ r \ R = {}
        BY <1>3
      <3> QED
        BY <1>3, <3>1, TotalOfNothing
    <2> QED
      BY <1>2, <2>1
  <1>4. CASE r # {}
    <2>1. PICK x \in r : TRUE
      BY <1>4
    <2> DEFINE q == r \ {x}
    <2>2. Total(c, q) = Total(c, q \cap R) + Total(c, q \ R)
      BY <1>1, <1>2, Smaller
    <2>3. Total(c, r) = c[x] + Total(c, q)
      BY <1>2, TotalOfOneMore
    <2>4. /\ c[x] \in Nat /\ Total(c, q) \in Nat
          /\ Total(c, q \cap R) \in Nat /\ Total(c, q \ R) \in Nat
      <3>1. IsFiniteSet(q) /\ IsFiniteSet(q \cap R) /\ IsFiniteSet(q \ R)
        BY <1>2, FS_Subset
      <3> QED
        BY <1>2, <3>1, TotalType
    <2>5. CASE x \in R
      <3>1. q \cap R = (r \cap R) \ {x} /\ q \ R = r \ R /\ x \in r \cap R
        BY <2>5
      <3>2. Total(c, r \cap R) = c[x] + Total(c, q \cap R)
        BY <1>2, <3>1, TotalOfOneMore
      <3>3. Total(c, r \ R) = Total(c, q \ R)
        BY <3>1
      <3> QED
        BY <1>2, <2>2, <2>3, <2>4, <3>2, <3>3
    <2>6. CASE x \notin R
      <3>1. q \ R = (r \ R) \ {x} /\ q \cap R = r \cap R /\ x \in r \ R
        BY <2>6
      <3>2. Total(c, r \ R) = c[x] + Total(c, q \ R)
        BY <1>2, <3>1, TotalOfOneMore
      <3>3. Total(c, r \cap R) = Total(c, q \cap R)
        BY <3>1
      <3> QED
        BY <1>2, <2>2, <2>3, <2>4, <3>2, <3>3
    <2> QED
      BY <2>5, <2>6
  <1> QED
    BY <1>3, <1>4

\* A part's sum is no larger than the whole's.
LEMMA TotalOfFewer ==
  ASSUME NEW c, NEW S, IsFiniteSet(S), \A x \in S : c[x] \in Nat, NEW R \in SUBSET S
  PROVE  Total(c, R) <= Total(c, S)
  <1>1. Total(c, S) = Total(c, R) + Total(c, S \ R)
    BY TotalOfParts
  <1>2. Total(c, R) \in Nat /\ Total(c, S \ R) \in Nat
    <2>1. IsFiniteSet(R) /\ IsFiniteSet(S \ R)
      BY FS_Subset
    <2> QED
      BY <2>1, TotalType
  <1> QED
    BY <1>1, <1>2

\* Where every element counts one, the sum is their number.
LEMMA TotalOfOnes ==
  ASSUME NEW c, NEW S, IsFiniteSet(S), \A x \in S : c[x] = 1
  PROVE  Total(c, S) = Cardinality(S)
  <1> DEFINE B == { r \in FiniteSubsetsOf(S) : Total(c, r) # Cardinality(r) }
  <1> SUFFICES ASSUME B # {}
               PROVE  FALSE
    BY FS_Subset DEF FiniteSubsetsOf
  <1>1. PICK r \in B : \A x \in r : r \ {x} \notin B
    BY Smallest
  <1>2. r \in FiniteSubsetsOf(S) /\ IsFiniteSet(r) /\ r \in SUBSET S
    BY DEF FiniteSubsetsOf
  <1>3. CASE r = {}
    BY <1>1, <1>2, <1>3, TotalOf, FS_EmptySet
  <1>4. CASE r # {}
    <2>1. PICK x \in r : TRUE
      BY <1>4
    <2>2. Total(c, r \ {x}) = Cardinality(r \ {x})
      BY <1>1, <1>2, Smaller
    <2>3. Total(c, r) = 1 + Total(c, r \ {x})
      <3>1. c[x] = 1 /\ \A y \in r : c[y] \in Nat
        BY <1>2
      <3>2. Total(c, r) = c[x] + Total(c, r \ {x})
        BY <1>2, <3>1, TotalOfOneMore
      <3> QED
        BY <3>1, <3>2
    <2>4. Cardinality(r \ {x}) = Cardinality(r) - 1 /\ Cardinality(r) \in Nat
      BY <1>2, FS_RemoveElement, FS_CardinalityType
    <2> QED
      BY <1>1, <2>2, <2>3, <2>4
  <1> QED
    BY <1>3, <1>4

(***************************************************************************)
(* Sums over the indices of sequences                                      *)
(***************************************************************************)

\* Renaming the elements one to one renames the summands.
LEMMA TotalOfRenamed ==
  ASSUME NEW c, NEW d, NEW R, IsFiniteSet(R), \A x \in R : c[x] \in Nat,
         NEW f, \A x \in R : d[f[x]] = c[x],
         \A x, y \in R : f[x] = f[y] => x = y,
         NEW T, T = {f[x] : x \in R}
  PROVE  Total(d, T) = Total(c, R)
  <1> DEFINE B == { r \in FiniteSubsetsOf(R) : ~( /\ IsFiniteSet({f[x] : x \in r})
                                              /\ Total(d, {f[x] : x \in r}) = Total(c, r)) }
  <1> SUFFICES ASSUME B # {}
               PROVE  FALSE
    BY FS_Subset DEF FiniteSubsetsOf
  <1>1. PICK r \in B : \A x \in r : r \ {x} \notin B
    BY Smallest
  <1>2. r \in FiniteSubsetsOf(R) /\ IsFiniteSet(r) /\ r \in SUBSET R
    BY DEF FiniteSubsetsOf
  <1>3. CASE r = {}
    <2>1. {f[x] : x \in r} = {}
      BY <1>3
    <2> QED
      BY <1>1, <1>3, <2>1, TotalOfNothing, FS_EmptySet
  <1>4. CASE r # {}
    <2>1. PICK z \in r : TRUE
      BY <1>4
    <2> DEFINE q == r \ {z}
    <2>2. IsFiniteSet({f[x] : x \in q}) /\ Total(d, {f[x] : x \in q}) = Total(c, q)
      BY <1>1, <1>2, Smaller
    <2>3. Total(c, r) = c[z] + Total(c, q)
      BY <1>2, TotalOfOneMore
    <2> DEFINE image == {f[x] : x \in r}
    <2>4. /\ {f[x] : x \in q} = image \ {f[z]}
          /\ f[z] \in image
          /\ d[f[z]] = c[z]
      BY <1>2
    <2>5. IsFiniteSet(image) /\ \A y \in image : d[y] \in Nat
      <3>1. IsFiniteSet((image \ {f[z]}) \cup {f[z]})
        BY <2>2, <2>4, FS_AddElement
      <3>2. (image \ {f[z]}) \cup {f[z]} = image
        BY <2>4
      <3>3. \A y \in image : d[y] \in Nat
        BY <1>2
      <3> QED
        BY <3>1, <3>2, <3>3
    <2>6. Total(d, image) = d[f[z]] + Total(d, image \ {f[z]})
      <3> HIDE DEF image
      <3> QED
        BY <2>4, <2>5, TotalOfOneMore
    <2>7. Total(d, image) = Total(c, r)
      BY <2>2, <2>3, <2>4, <2>6
    <2> QED
      BY <1>1, <2>5, <2>7
  <1> QED
    BY <1>3, <1>4

\* One index more.
LEMMA TotalOfInterval ==
  ASSUME NEW c, NEW n \in Nat, \A i \in 1..(n + 1) : c[i] \in Nat
  PROVE  Total(c, 1..(n + 1)) = Total(c, 1..n) + c[n + 1]
  <1> DEFINE S == 1..(n + 1)
  <1>1. IsFiniteSet(S) /\ n + 1 \in S /\ S \ {n + 1} = 1..n
    BY FS_Interval
  <1>2. Total(c, S) = c[n + 1] + Total(c, 1..n)
    <2> HIDE DEF S
    <2> QED
      BY <1>1, TotalOfOneMore
  <1>3. IsFiniteSet(1..n) /\ \A i \in 1..n : c[i] \in Nat
    BY FS_Interval
  <1>4. Total(c, 1..n) \in Nat
    BY <1>3, TotalType
  <1> QED
    BY <1>2, <1>4

\* Counting the indices from k on again from one.
LEMMA TotalOfShifted ==
  ASSUME NEW c, NEW d, NEW k \in Nat, NEW b \in Nat,
         \A i \in 1..b : c[i] \in Nat /\ d[k + i] = c[i],
         NEW lo, lo = k + 1, NEW hi, hi = k + b
  PROVE  Total(d, lo..hi) = Total(c, 1..b)
  <1> DEFINE f == [i \in 1..b |-> k + i]
             R == 1..b
             T == lo..hi
  <1>1. IsFiniteSet(R)
    BY FS_Interval
  <1>2. T = {f[i] : i \in R}
    <2>1. ASSUME NEW j \in lo..hi
          PROVE  j \in {f[i] : i \in R}
      <3>1. j - k \in 1..b /\ f[j - k] = j
        OBVIOUS
      <3> QED
        BY <3>1
    <2>2. \A i \in 1..b : f[i] \in lo..hi
      OBVIOUS
    <2> HIDE DEF f
    <2> QED
      BY <2>1, <2>2
  <1>3. \A i \in R : c[i] \in Nat /\ d[f[i]] = c[i]
    OBVIOUS
  <1>4. \A i, j \in R : f[i] = f[j] => i = j
    OBVIOUS
  <1> HIDE DEF f, R, T
  <1>5. Total(d, T) = Total(c, R)
    BY <1>1, <1>2, <1>3, <1>4, TotalOfRenamed
  <1> QED
    BY <1>5 DEF R, T
=============================================================================
