--------------------------- MODULE VatsAmmoProofs ---------------------------
(***************************************************************************)
(* VATS takes steps of the forms, so that all that is proved of BaseForm   *)
(* holds of VSpec; and the clip is enough for the attacks it accepts.      *)
(*                                                                         *)
(* The second is about sums over the shots of a queue, of any length.  Sums *)
(* are added up shot by shot, which takes induction over the natural       *)
(* numbers: it is had here from their being well-founded, for sets in place *)
(* of predicates.  Need is what a queue takes from the heat it starts at;  *)
(* the invariant says that what the game has reserved, and later what is in *)
(* the clip, is not below it.                                              *)
(***************************************************************************)
EXTENDS VatsAmmo, BaseFormProofs, FiniteSetTheorems

-----------------------------------------------------------------------------
(* Induction                                                                *)

(* The order of the naturals, as a relation.                                *)
Below == {p \in Nat \X Nat : p[1] < p[2]}

LEMMA BelowIsWellFounded == IsWellFoundedOn(Below, Nat)
  BY NatLessThanWellFounded DEF OpToRel, Below

(* A set of naturals that is not empty has a least element.                 *)
LEMMA LeastElement ==
  ASSUME NEW T \in SUBSET Nat, T # {}
  PROVE  \E n \in T : \A m \in T : n <= m
  <1>1. PICK n \in T : \A m \in T : <<m, n>> \notin Below
    BY BelowIsWellFounded, WFMin
  <1>2. ASSUME NEW m \in T PROVE n <= m
    <2>1. <<m, n>> \in Nat \X Nat /\ <<m, n>>[1] = m /\ <<m, n>>[2] = n
      OBVIOUS
    <2>2. ~(m < n)
      BY <1>1, <2>1 DEF Below
    <2>3. QED
      BY <2>2
  <1>3. QED
    BY <1>2

(* Induction over the natural numbers, for a set in place of a predicate.   *)
LEMMA InductionOverNat ==
  ASSUME NEW T, 0 \in T, \A n \in Nat : n \in T => n + 1 \in T
  PROVE  \A n \in Nat : n \in T
  <1> SUFFICES ASSUME Nat \ T # {} PROVE FALSE
    OBVIOUS
  <1>1. PICK n \in Nat \ T : \A m \in Nat \ T : n <= m
    <2>1. Nat \ T \in SUBSET Nat
      OBVIOUS
    <2>2. QED
      BY <2>1, LeastElement
  <1>2. n - 1 \in Nat
    BY <1>1
  <1>3. n - 1 \in T
    BY <1>1, <1>2
  <1>4. QED
    BY <1>1, <1>2, <1>3

-----------------------------------------------------------------------------
(* Sums                                                                     *)

(* The element of a set that a fold over it takes first.                    *)
Picked(S) == CHOOSE x \in S : TRUE

(* What the sum of a function over a set adds up.                           *)
Adds(f, S, sum) ==
  sum = [T \in SUBSET S |-> IF T = {} THEN 0 ELSE f[Picked(T)] + sum[T \ {Picked(T)}]]

(* SumFunctionOnSet is a function that adds up, applied to the whole set.   *)
LEMMA SumIs ==
  ASSUME NEW f, NEW S
  PROVE  SumFunctionOnSet(f, S) = (CHOOSE sum : Adds(f, S, sum))[S]
  BY DEF SumFunctionOnSet, FoldFunctionOnSet, MapThenFoldSet, Adds, Picked

(* A finite set without one of its elements is smaller by one.              *)
LEMMA SmallerSet ==
  ASSUME NEW S, IsFiniteSet(S), NEW T \in SUBSET S, NEW x \in T
  PROVE  /\ IsFiniteSet(T) /\ IsFiniteSet(T \ {x}) /\ T \ {x} \in SUBSET S
         /\ Cardinality(T) \in Nat /\ Cardinality(T \ {x}) \in Nat
         /\ Cardinality(T) = Cardinality(T \ {x}) + 1
  <1>1. IsFiniteSet(T)
    BY FS_Subset
  <1>2. Cardinality(T) \in Nat
    BY <1>1, FS_CardinalityType
  <1>3. IsFiniteSet(T \ {x}) /\ Cardinality(T \ {x}) = Cardinality(T) - 1
    BY <1>1, FS_RemoveElement
  <1>4. Cardinality(T \ {x}) \in Nat
    BY <1>3, FS_CardinalityType
  <1>5. QED
    BY <1>1, <1>2, <1>3, <1>4

LEMMA PickedIsIn == \A S : S # {} => Picked(S) \in S
  BY DEF Picked

(* A sum is defined for finite sets: one that adds up all the parts of at   *)
(* most n elements extends to those of n + 1.                               *)
LEMMA SumExists ==
  ASSUME NEW f, NEW S, IsFiniteSet(S)
  PROVE  \E sum : Adds(f, S, sum)
  <1> DEFINE Value(sum, T) == IF T = {} THEN 0 ELSE f[Picked(T)] + sum[T \ {Picked(T)}]
             Good(sum, n) == \A T \in SUBSET S : Cardinality(T) <= n => sum[T] = Value(sum, T)
             Upto == {n \in Nat : \E sum : Good(sum, n)}
  <1>1. 0 \in Upto
    <2> DEFINE sum == [T \in SUBSET S |-> 0]
    <2>1. ASSUME NEW T \in SUBSET S, Cardinality(T) <= 0 PROVE T = {}
      <3>1. ASSUME NEW x \in T PROVE FALSE
        <4>1. Cardinality(T) \in Nat /\ Cardinality(T \ {x}) \in Nat
              /\ Cardinality(T) = Cardinality(T \ {x}) + 1
          BY SmallerSet
        <4>2. QED
          BY <2>1, <4>1
      <3>2. QED
        BY <3>1
    <2>2. Good(sum, 0)
      BY <2>1
    <2>3. QED
      BY <2>2
  <1>2. ASSUME NEW n \in Nat, n \in Upto PROVE n + 1 \in Upto
    <2>1. PICK sum : Good(sum, n)
      BY <1>2
    <2> DEFINE more == [T \in SUBSET S |-> IF Cardinality(T) <= n THEN sum[T] ELSE Value(sum, T)]
    <2>2. ASSUME NEW T \in SUBSET S, Cardinality(T) <= n + 1 PROVE more[T] = Value(more, T)
      <3>1. CASE T = {}
        BY <2>1, <3>1
      <3>2. CASE T # {}
        <4> DEFINE x == Picked(T)
                   U == T \ {x}
        <4>1. x \in T
          BY <3>2, PickedIsIn
        <4> HIDE DEF x
        <4>2. U \in SUBSET S /\ Cardinality(T) \in Nat /\ Cardinality(U) \in Nat
              /\ Cardinality(T) = Cardinality(U) + 1
          BY <4>1, SmallerSet
        <4>3. Cardinality(U) <= n
          BY <2>2, <4>2
        <4>4. more[U] = sum[U]
          BY <4>2, <4>3
        <4>5. more[T] = Value(sum, T)
          BY <2>1
        <4>6. QED
          BY <3>2, <4>4, <4>5 DEF x
      <3>3. QED
        BY <3>1, <3>2
    <2>3. Good(more, n + 1)
      BY <2>2
    <2> HIDE DEF more, Good
    <2>4. QED
      BY <2>3
  <1> HIDE DEF Upto
  <1>3. Cardinality(S) \in Nat /\ Cardinality(S) \in Upto
    BY <1>1, <1>2, InductionOverNat, FS_CardinalityType
  <1>4. PICK sum : Good(sum, Cardinality(S))
    BY <1>3 DEF Upto
  <1>5. \A T \in SUBSET S : sum[T] = Value(sum, T)
    <2>1. \A T \in SUBSET S : Cardinality(T) <= Cardinality(S)
      BY FS_Subset
    <2>2. QED
      BY <1>4, <2>1
  <1> DEFINE all == [T \in SUBSET S |-> sum[T]]
  <1>6. Adds(f, S, all)
    <2>1. ASSUME NEW T \in SUBSET S PROVE sum[T] = Value(all, T)
      <3>1. Value(all, T) = Value(sum, T)
        OBVIOUS
      <3>2. QED
        BY <1>5, <3>1
    <2>2. all = [T \in SUBSET S |-> Value(all, T)]
      BY <2>1
    <2>3. QED
      BY <2>2 DEF Adds
  <1>7. QED
    BY <1>6

(* Two sums of one function agree on the parts they share.                  *)
LEMMA SumsAgree ==
  ASSUME NEW f, NEW S, NEW sum, Adds(f, S, sum), IsFiniteSet(S),
         NEW R, NEW other, Adds(f, R, other), R \subseteq S
  PROVE  \A T \in SUBSET R : sum[T] = other[T]
  <1> DEFINE Upto == {n \in Nat : \A T \in SUBSET R : Cardinality(T) = n => sum[T] = other[T]}
  <1>1. ASSUME NEW T \in SUBSET R, T # {}
        PROVE  LET x == Picked(T)
               IN  /\ x \in T /\ T \ {x} \in SUBSET R /\ Cardinality(T \ {x}) \in Nat
                   /\ Cardinality(T) = Cardinality(T \ {x}) + 1
                   /\ sum[T] = f[x] + sum[T \ {x}] /\ other[T] = f[x] + other[T \ {x}]
    <2>1. T \in SUBSET S /\ Picked(T) \in T
      BY <1>1, PickedIsIn
    <2>2. sum[T] = f[Picked(T)] + sum[T \ {Picked(T)}]
      BY <1>1, <2>1, Zenon DEF Adds
    <2>3. other[T] = f[Picked(T)] + other[T \ {Picked(T)}]
      BY <1>1, Zenon DEF Adds
    <2>4. \A x \in T : Cardinality(T \ {x}) \in Nat
                      /\ Cardinality(T) = Cardinality(T \ {x}) + 1
      BY <2>1, SmallerSet
    <2>5. QED
      BY <2>1, <2>2, <2>3, <2>4
  <1>2. sum[{}] = 0 /\ other[{}] = 0
    <2>1. {} \in SUBSET S /\ {} \in SUBSET R
      OBVIOUS
    <2>2. QED
      BY <2>1, Zenon DEF Adds
  <1>3. 0 \in Upto
    <2>1. ASSUME NEW T \in SUBSET R, Cardinality(T) = 0 PROVE sum[T] = other[T]
      <3>1. T # {} => Cardinality(T \ {Picked(T)}) \in Nat
                      /\ Cardinality(T) = Cardinality(T \ {Picked(T)}) + 1
        BY <1>1
      <3>2. T = {}
        BY <2>1, <3>1
      <3>3. QED
        BY <1>2, <3>2
    <2>2. QED
      BY <2>1
  <1>4. ASSUME NEW n \in Nat, n \in Upto PROVE n + 1 \in Upto
    <2>1. ASSUME NEW T \in SUBSET R, Cardinality(T) = n + 1 PROVE sum[T] = other[T]
      <3>1. CASE T = {}
        BY <1>2, <3>1
      <3>2. CASE T # {}
        <4>1. /\ T \ {Picked(T)} \in SUBSET R /\ Cardinality(T \ {Picked(T)}) \in Nat
              /\ Cardinality(T) = Cardinality(T \ {Picked(T)}) + 1
              /\ sum[T] = f[Picked(T)] + sum[T \ {Picked(T)}]
              /\ other[T] = f[Picked(T)] + other[T \ {Picked(T)}]
          BY <1>1, <3>2
        <4>2. Cardinality(T \ {Picked(T)}) = n
          BY <2>1, <4>1
        <4>3. sum[T \ {Picked(T)}] = other[T \ {Picked(T)}]
          BY <1>4, <4>1, <4>2
        <4>4. QED
          BY <4>1, <4>3
      <3>3. QED
        BY <3>1, <3>2
    <2>2. QED
      BY <2>1
  <1>5. \A n \in Nat : n \in Upto
    <2> HIDE DEF Upto
    <2>1. QED
      BY <1>3, <1>4, InductionOverNat
  <1>6. ASSUME NEW T \in SUBSET R PROVE Cardinality(T) \in Nat
    <2>1. IsFiniteSet(T)
      BY FS_Subset
    <2>2. QED
      BY <2>1, FS_CardinalityType
  <1>7. QED
    BY <1>5, <1>6

(* The sum over a set is that of its parts.                                 *)
LEMMA SumAdds ==
  ASSUME NEW f, NEW S, IsFiniteSet(S)
  PROVE  /\ S = {} => SumFunctionOnSet(f, S) = 0
         /\ S # {} => SumFunctionOnSet(f, S)
                        = f[Picked(S)] + SumFunctionOnSet(f, S \ {Picked(S)})
  <1> DEFINE sum == CHOOSE g : Adds(f, S, g)
             R == S \ {Picked(S)}
             other == CHOOSE g : Adds(f, R, g)
  <1>1. IsFiniteSet(R) /\ R \subseteq S
    BY FS_RemoveElement
  <1>2. Adds(f, S, sum)
    BY SumExists
  <1> HIDE DEF R
  <1>3. Adds(f, R, other)
    BY <1>1, SumExists
  <1>4. SumFunctionOnSet(f, S) = sum[S] /\ SumFunctionOnSet(f, R) = other[R]
    BY SumIs
  <1> HIDE DEF sum, other
  <1>5. \A T \in SUBSET R : sum[T] = other[T]
    BY <1>1, <1>2, <1>3, SumsAgree
  <1>6. S \in SUBSET S /\ R \in SUBSET R
    OBVIOUS
  <1>7. sum[S] = IF S = {} THEN 0 ELSE f[Picked(S)] + sum[S \ {Picked(S)}]
    BY <1>2, <1>6, Zenon DEF Adds
  <1>8. QED
    BY <1>4, <1>5, <1>6, <1>7 DEF R

(* A sum of natural numbers is one.                                         *)
LEMMA SumType ==
  ASSUME NEW f, NEW S, IsFiniteSet(S), \A x \in S : f[x] \in Nat
  PROVE  SumFunctionOnSet(f, S) \in Nat
  <1> DEFINE Upto == {n \in Nat : \A T \in SUBSET S : Cardinality(T) = n
                                                       => SumFunctionOnSet(f, T) \in Nat}
  <1>1. \A T \in SUBSET S : IsFiniteSet(T) /\ Cardinality(T) \in Nat
    BY FS_Subset, FS_CardinalityType
  <1>2. ASSUME NEW n \in Nat, NEW T \in SUBSET S, Cardinality(T) = n,
               T # {} => n # 0 /\ (n - 1 \in Upto)
        PROVE  SumFunctionOnSet(f, T) \in Nat
    <2>1. CASE T = {}
      <3>1. IsFiniteSet(T)
        BY <1>1
      <3>2. SumFunctionOnSet(f, T) = 0
        BY <2>1, <3>1, SumAdds
      <3>3. QED
        BY <3>2
    <2>2. CASE T # {}
      <3> DEFINE x == Picked(T)
                 U == T \ {x}
      <3>1. x \in T
        BY <2>2, PickedIsIn
      <3>2. SumFunctionOnSet(f, T) = f[x] + SumFunctionOnSet(f, U)
        BY <1>1, <2>2, SumAdds
      <3> HIDE DEF x
      <3>3. U \in SUBSET S /\ Cardinality(U) \in Nat /\ Cardinality(T) = Cardinality(U) + 1
        BY <3>1, SmallerSet
      <3>4. Cardinality(U) = n - 1
        BY <1>2, <3>3
      <3>5. SumFunctionOnSet(f, U) \in Nat
        BY <1>2, <2>2, <3>3, <3>4
      <3>6. QED
        BY <3>1, <3>2, <3>5
    <2>3. QED
      BY <2>1, <2>2
  <1>3. \A T \in SUBSET S : T # {} => Cardinality(T) # 0
    BY <1>1, FS_EmptySet
  <1>4. 0 \in Upto
    BY <1>2, <1>3
  <1>5. ASSUME NEW n \in Nat, n \in Upto PROVE n + 1 \in Upto
    <2>1. n + 1 # 0 /\ (n + 1) - 1 \in Upto /\ n + 1 \in Nat
      BY <1>5
    <2> SUFFICES ASSUME NEW T \in SUBSET S, Cardinality(T) = n + 1
                 PROVE  SumFunctionOnSet(f, T) \in Nat
      BY <2>1
    <2> HIDE DEF Upto
    <2>2. QED
      BY <1>2, <2>1
  <1>6. \A n \in Nat : n \in Upto
    <2> HIDE DEF Upto
    <2>1. QED
      BY <1>4, <1>5, InductionOverNat
  <1>7. Cardinality(S) \in Nat /\ S \in SUBSET S
    BY <1>1
  <1>8. QED
    BY <1>6, <1>7

(* Of natural numbers, it does not matter which is added first.             *)
LEMMA SumWithout ==
  ASSUME NEW f, NEW S, IsFiniteSet(S), \A x \in S : f[x] \in Nat, NEW y \in S
  PROVE  SumFunctionOnSet(f, S) = f[y] + SumFunctionOnSet(f, S \ {y})
  <1> DEFINE Sum(T) == SumFunctionOnSet(f, T)
             Upto == {n \in Nat : \A T \in SUBSET S : Cardinality(T) = n
                                    => \A x \in T : Sum(T) = f[x] + Sum(T \ {x})}
  <1>0. ASSUME NEW T \in SUBSET S, NEW z \in T
        PROVE  Cardinality(T \ {z}) \in Nat /\ Cardinality(T) = Cardinality(T \ {z}) + 1
    <2> HIDE DEF Upto, Sum
    <2>1. QED
      BY SmallerSet
  <1>1. \A T \in SUBSET S : IsFiniteSet(T) /\ Cardinality(T) \in Nat /\ Sum(T) \in Nat
    <2>1. \A T \in SUBSET S : IsFiniteSet(T) /\ Cardinality(T) \in Nat
      BY FS_Subset, FS_CardinalityType
    <2>2. QED
      BY <2>1, SumType
  <1>2. 0 \in Upto
    <2>1. \A T \in SUBSET S : Cardinality(T) = 0 => T = {}
      BY <1>1, FS_EmptySet
    <2>2. QED
      BY <2>1
  <1>3. ASSUME NEW n \in Nat, n \in Upto PROVE n + 1 \in Upto
    <2> SUFFICES ASSUME NEW T \in SUBSET S, Cardinality(T) = n + 1, NEW x \in T
                 PROVE  Sum(T) = f[x] + Sum(T \ {x})
      OBVIOUS
    <2> DEFINE p == Picked(T)
    <2>1. p \in T
      BY PickedIsIn
    <2>2. Sum(T) = f[p] + Sum(T \ {p})
      BY <1>1, <2>1, SumAdds
    <2> HIDE DEF p, Sum
    <2>3. CASE x = p
      BY <2>2, <2>3
    <2>4. CASE x # p
      <3>1. /\ T \ {p} \in SUBSET S /\ T \ {x} \in SUBSET S /\ x \in T \ {p} /\ p \in T \ {x}
            /\ (T \ {p}) \ {x} \in SUBSET S /\ (T \ {x}) \ {p} = (T \ {p}) \ {x}
        BY <2>1, <2>4
      <3>2. Cardinality(T \ {p}) = n /\ Cardinality(T \ {x}) = n
        <4>1. \A z \in T : Cardinality(T \ {z}) \in Nat
                           /\ Cardinality(T) = Cardinality(T \ {z}) + 1
          BY <1>0
        <4>2. QED
          BY <2>1, <4>1
      <3>3. Sum(T \ {p}) = f[x] + Sum((T \ {p}) \ {x})
        BY <1>3, <3>1, <3>2
      <3>4. Sum(T \ {x}) = f[p] + Sum((T \ {x}) \ {p})
        BY <1>3, <3>1, <3>2
      <3>5. f[x] \in Nat /\ f[p] \in Nat /\ Sum((T \ {p}) \ {x}) \in Nat
        BY <1>1, <2>1, <3>1
      <3>6. QED
        BY <2>2, <3>1, <3>3, <3>4, <3>5
    <2>5. QED
      BY <2>3, <2>4
  <1>4. \A n \in Nat : n \in Upto
    <2> HIDE DEF Upto
    <2>1. QED
      BY <1>2, <1>3, InductionOverNat
  <1>5. Cardinality(S) \in Nat /\ S \in SUBSET S
    BY <1>1
  <1>6. QED
    BY <1>4, <1>5

-----------------------------------------------------------------------------
(* Sums over the shots of a queue                                           *)

(* The sum of the first n values.                                           *)
Total(f, n) == SumFunctionOnSet(f, 1..n)

(* One more value is added last.                                            *)
LEMMA TotalAdds ==
  ASSUME NEW f, NEW n \in Nat, \A i \in 1..(n + 1) : f[i] \in Nat
  PROVE  Total(f, n) \in Nat /\ Total(f, n + 1) \in Nat /\ Total(f, n + 1) = Total(f, n) + f[n + 1]
  <1>1. /\ IsFiniteSet(1..n) /\ IsFiniteSet(1..(n + 1)) /\ (1..(n + 1)) \ {n + 1} = 1..n
        /\ n + 1 \in 1..(n + 1)
    BY FS_Interval
  <1>2. Total(f, n) \in Nat /\ Total(f, n + 1) \in Nat
    BY <1>1, SumType DEF Total
  <1>3. Total(f, n + 1) = f[n + 1] + Total(f, n)
    BY <1>1, SumWithout DEF Total
  <1>4. QED
    BY <1>1, <1>2, <1>3

LEMMA TotalOfNone == \A f : Total(f, 0) = 0
  <1>1. 1..0 = {}
    OBVIOUS
  <1>2. QED
    BY <1>1, FS_EmptySet, SumAdds DEF Total

LEMMA TotalType ==
  ASSUME NEW f, NEW n \in Nat, \A i \in 1..n : f[i] \in Nat
  PROVE  Total(f, n) \in Nat
  <1>1. IsFiniteSet(1..n)
    BY FS_Interval
  <1>2. QED
    BY <1>1, SumType DEF Total

(* The shots of a queue cost what the first m and the n after them do.      *)
LEMMA TotalSplits ==
  ASSUME NEW f, NEW g, NEW m \in Nat, NEW n \in Nat, \A i \in 1..(m + n) : f[i] \in Nat,
         \A i \in 1..n : g[i] = f[m + i]
  PROVE  Total(f, m + n) = Total(f, m) + Total(g, n)
  <1> DEFINE T == {k \in Nat : k <= n => Total(f, m + k) = Total(f, m) + Total(g, k)}
  <1>1. Total(f, m) \in Nat
    BY TotalType
  <1>2. 0 \in T
    BY <1>1, TotalOfNone
  <1>3. ASSUME NEW k \in Nat, k \in T PROVE k + 1 \in T
    <2> SUFFICES ASSUME k + 1 <= n PROVE Total(f, m + (k + 1)) = Total(f, m) + Total(g, k + 1)
      OBVIOUS
    <2>1. Total(f, m + k) = Total(f, m) + Total(g, k)
      BY <1>3
    <2> DEFINE j == m + k
    <2>2. j \in Nat /\ m + (k + 1) = j + 1 /\ \A i \in 1..(j + 1) : f[i] \in Nat
      OBVIOUS
    <2>3. \A i \in 1..(k + 1) : g[i] \in Nat
      OBVIOUS
    <2>4. g[k + 1] = f[j + 1] /\ g[k + 1] \in Nat
      BY <2>3
    <2> HIDE DEF j
    <2>5. Total(f, j + 1) = Total(f, j) + f[j + 1] /\ Total(f, j) \in Nat
      BY <2>2, TotalAdds
    <2>6. Total(g, k + 1) = Total(g, k) + g[k + 1] /\ Total(g, k) \in Nat
      BY <2>3, TotalAdds
    <2>7. Total(f, j) = Total(f, m) + Total(g, k)
      BY <2>1 DEF j
    <2>8. QED
      BY <1>1, <2>2, <2>4, <2>5, <2>6, <2>7
  <1> HIDE DEF T
  <1>4. n \in T
    BY <1>2, <1>3, InductionOverNat
  <1>5. QED
    BY <1>4 DEF T

(* It is ordered as its values are.                                         *)
LEMMA TotalOrdered ==
  ASSUME NEW f, NEW g, NEW n \in Nat,
         \A i \in 1..n : f[i] \in Nat /\ g[i] \in Nat /\ f[i] <= g[i]
  PROVE  Total(f, n) <= Total(g, n)
  <1> DEFINE T == {k \in Nat : k <= n => Total(f, k) <= Total(g, k)}
  <1>1. 0 \in T
    BY TotalOfNone
  <1>2. ASSUME NEW k \in Nat, k \in T PROVE k + 1 \in T
    <2> SUFFICES ASSUME k + 1 <= n PROVE Total(f, k + 1) <= Total(g, k + 1)
      OBVIOUS
    <2>1. Total(f, k) <= Total(g, k)
      BY <1>2
    <2>2. \A i \in 1..(k + 1) : f[i] \in Nat /\ g[i] \in Nat /\ f[i] <= g[i]
      OBVIOUS
    <2>3. Total(f, k + 1) = Total(f, k) + f[k + 1] /\ Total(f, k) \in Nat
      BY <2>2, TotalAdds
    <2>4. Total(g, k + 1) = Total(g, k) + g[k + 1] /\ Total(g, k) \in Nat
      BY <2>2, TotalAdds
    <2>5. QED
      BY <2>1, <2>2, <2>3, <2>4
  <1> HIDE DEF T
  <1>3. n \in T
    BY <1>1, <1>2, InductionOverNat
  <1>4. QED
    BY <1>3 DEF T

(* n values of at most most come to n * most at most.                       *)
LEMMA TotalBelow ==
  ASSUME NEW f, NEW n \in Nat, NEW most \in Nat, \A i \in 1..n : f[i] \in 0..most
  PROVE  Total(f, n) <= n * most
  <1> DEFINE T == {k \in Nat : k <= n => Total(f, k) <= k * most}
  <1>1. 0 \in T
    BY TotalOfNone
  <1>2. ASSUME NEW k \in Nat, k \in T PROVE k + 1 \in T
    <2> SUFFICES ASSUME k + 1 <= n PROVE Total(f, k + 1) <= (k + 1) * most
      OBVIOUS
    <2>1. Total(f, k) <= k * most
      BY <1>2
    <2>2. \A i \in 1..(k + 1) : f[i] \in 0..most
      OBVIOUS
    <2>3. Total(f, k + 1) = Total(f, k) + f[k + 1] /\ Total(f, k) \in Nat
      BY <2>2, TotalAdds
    <2>4. (k + 1) * most = k * most + most /\ k * most \in Int
      OBVIOUS
    <2>5. QED
      BY <2>1, <2>2, <2>3, <2>4
  <1> HIDE DEF T
  <1>3. n \in T
    BY <1>1, <1>2, InductionOverNat
  <1>4. QED
    BY <1>3 DEF T

-----------------------------------------------------------------------------
(* VATS                                                                     *)

USE FormsAssumption, BurstAssumption

(* Opening the menu is an update of the player's weapon that keeps its heat *)
(* and its blocking effects, or no step at all for a weapon without a       *)
(* configuration.                                                           *)
LEMMA MenuUpdates ==
  ASSUME TypeOK, Unconfigured, OpenMenu
  PROVE  [Next]_fvars
  <1>1. CASE Rifle \in Configured
    <2>1. heat[Player] \in Nat /\ heat' = [heat EXCEPT ![Player] = heat[Player]]
      BY <1>1 DEF OpenMenu, TypeOK
    <2>2. heat[Player] \in 0..(IF heat[Player] = NoHeat THEN 0 ELSE heat[Player])
      BY <2>1
    <2>3. heat'[Player] # NoHeat
      BY <2>1 DEF OpenMenu
    <2>4. blocked' \in {blocked \ {Player}, blocked \cup {Player}}
      BY DEF OpenMenu
    <2>5. Update(Player)
      BY <1>1, <2>1, <2>2, <2>3, <2>4 DEF OpenMenu, Update, Rifle
    <2> QED BY <2>5 DEF Next
  <1>2. CASE Rifle \notin Configured
    <2>1. charged \ {Player} = charged
      BY <1>2 DEF Unconfigured, Rifle
    <2> QED BY <2>1 DEF OpenMenu, fvars
  <1>3. QED
    BY <1>1, <1>2

(* A step of the model with VATS is a step of the forms, or leaves them.    *)
LEMMA VatsStep ==
  ASSUME TypeOK, Unconfigured, [VNext]_vvars
  PROVE  [Next]_fvars
  <1>1. CASE OpenMenu
    BY <1>1, MenuUpdates
  <1>2. CASE QueueAttack \/ Play \/ EndVats \/ UNCHANGED vvars
    BY <1>2 DEF QueueAttack, Play, EndVats, vvars
  <1>3. CASE FireQueued
    BY <1>3 DEF FireQueued, Next
  <1>4. CASE Meanwhile
    BY <1>4 DEF Meanwhile, Next
  <1>5. CASE vats = "off" /\ Next /\ UNCHANGED menu
    BY <1>5
  <1>6. QED
    BY <1>1, <1>2, <1>3, <1>4, <1>5 DEF VNext

(* What holds of the forms holds while VATS is open and while it plays its  *)
(* queue: the menu, the projection and the queued shots are made of the     *)
(* steps the forms allow.                                                   *)
THEOREM VatsTakesFormSteps == VSpec => Spec
  <1>1. VInit => Init
    BY DEF VInit
  <1>2. VInit => IInv
    BY <1>1, InitEstablishes
  <1>3. IInv /\ [VNext]_vvars => [Next]_fvars
    BY VatsStep DEF IInv
  <1>4. QED
    BY <1>1, <1>2, <1>3, NextKeeps, PTL DEF VSpec, Spec

-----------------------------------------------------------------------------
(* The ammo of a queue                                                      *)

(* What a shot of the rifle adds to the heat.                               *)
HeatPerShot == IF Rifle \in Configured THEN Config[Rifle].heatPerShot ELSE 0

(* The ammo a shot takes at heat h, with a proportional configuration.      *)
Percent(h) ==
  ScaleByPercentRange(1, Config[Rifle].iMinAmmoUsed, Config[Rifle].iMaxAmmoUsed, h)

(* The most a shot takes that heats the rifle to h, and n shots from heat h *)
(* on, with the statistics edited or not.                                   *)
Cost(edits, h) == IF edits THEN Percent(h) ELSE Original[Rifle].ammoUse

Need(edits, h, n) == Total([i \in Nat |-> Cost(edits, h + HeatPerShot * i)], n)

(* Shots of the rifle take the ammo of its configuration.                   *)
Edited == bStats /\ Rifle \in Configured

(* The heat of the player's weapon, which is cold without HeatData.         *)
Temperature == IF heat[Player] = NoHeat THEN 0 ELSE heat[Player]

(* The constants the rifle has.                                             *)
LEMMA RifleTyped ==
  /\ Rifle \in Weapons /\ Original[Rifle].ammoUse \in 0..BYTE-1 /\ HeatPerShot \in Nat
  /\ Rifle \in Configured =>
       /\ Config[Rifle].iMinAmmoUsed \in 0..BYTE-1 /\ Config[Rifle].iMaxAmmoUsed \in 0..BYTE-1
       /\ Config[Rifle].heatPerShot = HeatPerShot
  <1>1. Rifle \in Weapons
    BY DEF Rifle
  <1>2. Original[Rifle] \in Form
    BY <1>1
  <1>3. Original[Rifle].ammoUse \in Nat /\ Original[Rifle].ammoUse < BYTE
    BY <1>1, <1>2 DEF Form, Fields, ShotFields
  <1>4. QED
    BY <1>1, <1>3 DEF HeatPerShot, HeatConfiguration

(* A quotient grows with its dividend.                                      *)
LEMMA DivOrdered ==
  ASSUME NEW x \in Nat, NEW y \in Nat, NEW d \in Nat \ {0}, x <= y
  PROVE  x \div d <= y \div d
  <1> DEFINE p == x \div d
             q == y \div d
  <1>1. p \in Nat /\ q \in Nat
    BY DivType
  <1>2. p * d <= x /\ y < (q + 1) * d
    OBVIOUS
  <1> HIDE DEF p, q
  <1>3. ASSUME q < p PROVE FALSE
    <2>1. d * (q + 1) <= d * p
      BY <1>1, <1>3, TimesOrdered
    <2>2. d * (q + 1) = (q + 1) * d /\ d * p = p * d
      BY <1>1
    <2>3. p * d \in Int /\ (q + 1) * d \in Int
      BY <1>1
    <2>4. QED
      BY <1>2, <2>1, <2>2, <2>3
  <1>4. QED
    BY <1>1, <1>3 DEF p, q

(* The use of a proportional configuration keeps to its maximum and grows.  *)
LEMMA PercentGrows ==
  ASSUME Proportional, Rifle \in Configured, NEW h \in Nat, NEW k \in Nat, h <= k
  PROVE  Percent(h) \in 0..Config[Rifle].iMaxAmmoUsed /\ Percent(h) <= Percent(k)
  <1> DEFINE min == Config[Rifle].iMinAmmoUsed
             max == Config[Rifle].iMaxAmmoUsed
             r(x) == Clamp(x, 0, FULL)
             s(x) == min * FULL + (max - min) * r(x)
  <1>1. min \in Nat /\ max \in Nat /\ min <= max
    BY RifleTyped DEF Proportional
  <1> HIDE DEF min, max
  <1>2. r(h) \in 0..FULL /\ r(k) \in 0..FULL /\ r(h) <= r(k)
    BY DEF Clamp, Least, Most
  <1>3. Percent(h) = (2 * s(h) + FULL) \div (2 * FULL) /\ Percent(k) = (2 * s(k) + FULL) \div (2 * FULL)
    BY DEF Percent, ScaleByPercentRange, min, max
  <1> HIDE DEF r
  <1>4. s(h) \in Nat /\ s(k) \in Nat /\ s(h) <= s(k) /\ s(h) <= max * FULL
    <2> DEFINE d == max - min
    <2>1. d \in Nat /\ max = min + d
      BY <1>1
    <2> HIDE DEF d
    <2>2. d * r(h) <= d * r(k) /\ d * r(h) <= d * FULL
      BY <1>2, <2>1, TimesOrdered
    <2>3. min * FULL \in Nat /\ d * r(h) \in Nat /\ d * r(k) \in Nat /\ d * FULL \in Nat
      BY <1>1, <1>2, <2>1, NatTimes
    <2>4. max * FULL = min * FULL + d * FULL
      BY <1>1, <2>1
    <2>5. s(h) = min * FULL + d * r(h) /\ s(k) = min * FULL + d * r(k)
      BY DEF d
    <2> HIDE DEF s
    <2>6. QED
      BY <2>2, <2>3, <2>4, <2>5
  <1> HIDE DEF s
  <1>5. Percent(h) \in 0..max
    <2>1. (2 * s(h) + FULL) \div (2 * FULL) \in 0..max
      BY <1>1, <1>4, RoundedBelow
    <2>2. QED
      BY <1>3, <2>1
  <1>6. Percent(h) <= Percent(k)
    <2>1. 2 * s(h) + FULL \in Nat /\ 2 * s(k) + FULL \in Nat /\ 2 * s(h) + FULL <= 2 * s(k) + FULL
          /\ 2 * FULL \in Nat \ {0}
      BY <1>4
    <2>2. QED
      BY <1>3, <2>1, DivOrdered
  <1>7. QED
    BY <1>5, <1>6 DEF max

(* A hotter rifle does not take less for a shot.                            *)
LEMMA CostGrows ==
  ASSUME Proportional, NEW edits \in BOOLEAN, edits => Rifle \in Configured,
         NEW h \in Nat, NEW k \in Nat, h <= k
  PROVE  Cost(edits, h) \in Nat /\ Cost(edits, k) \in Nat /\ Cost(edits, h) <= Cost(edits, k)
  <1>1. CASE edits
    <2>1. Percent(h) \in Nat /\ Percent(k) \in Nat /\ Percent(h) <= Percent(k)
      <3>1. \A i \in Nat : 0..Config[Rifle].iMaxAmmoUsed \subseteq Nat /\ k <= k
        OBVIOUS
      <3>2. Percent(h) \in 0..Config[Rifle].iMaxAmmoUsed /\ Percent(h) <= Percent(k)
        BY <1>1, PercentGrows
      <3>3. Percent(k) \in 0..Config[Rifle].iMaxAmmoUsed
        BY <1>1, <3>1, PercentGrows
      <3>4. QED
        BY <3>1, <3>2, <3>3
    <2>2. QED
      BY <1>1, <2>1 DEF Cost
  <1>2. CASE ~edits
    BY <1>2, RifleTyped DEF Cost
  <1>3. QED
    BY <1>1, <1>2

LEMMA Heats == \A h, i \in Nat : h + HeatPerShot * i \in Nat
  <1>1. \A i \in Nat : HeatPerShot * i \in Nat
    BY RifleTyped, NatTimes
  <1>2. QED
    BY <1>1

(* What n shots take is a number, ...                                       *)
LEMMA NeedType ==
  ASSUME Proportional, NEW edits \in BOOLEAN, edits => Rifle \in Configured,
         NEW h \in Nat, NEW n \in Nat
  PROVE  Need(edits, h, n) \in Nat
  <1> DEFINE f == [i \in Nat |-> Cost(edits, h + HeatPerShot * i)]
  <1>1. \A i \in Nat : h + HeatPerShot * i \in Nat /\ h + HeatPerShot * i <= h + HeatPerShot * i
    BY Heats
  <1>2. \A i \in 1..n : f[i] \in Nat
    <2>1. ASSUME NEW i \in Nat PROVE Cost(edits, h + HeatPerShot * i) \in Nat
      BY <1>1, CostGrows
    <2>2. QED
      BY <2>1
  <1>3. QED
    BY <1>2, TotalType DEF Need

(* ... grows with the heat they start from, ...                             *)
LEMMA NeedGrows ==
  ASSUME Proportional, NEW edits \in BOOLEAN, edits => Rifle \in Configured,
         NEW h \in Nat, NEW k \in Nat, h <= k, NEW n \in Nat
  PROVE  Need(edits, h, n) <= Need(edits, k, n)
  <1> DEFINE f == [i \in Nat |-> Cost(edits, h + HeatPerShot * i)]
             g == [i \in Nat |-> Cost(edits, k + HeatPerShot * i)]
  <1>1. ASSUME NEW i \in 1..n PROVE f[i] \in Nat /\ g[i] \in Nat /\ f[i] <= g[i]
    <2>1. i \in Nat /\ h + HeatPerShot * i \in Nat /\ k + HeatPerShot * i \in Nat
      <3>1. i \in Nat
        OBVIOUS
      <3>2. QED
        BY <3>1, Heats, Zenon
    <2>2. h + HeatPerShot * i <= k + HeatPerShot * i
      <3>1. HeatPerShot * i \in Nat
        BY <2>1, RifleTyped, NatTimes
      <3>2. QED
        BY <3>1
    <2>3. QED
      BY <2>1, <2>2, CostGrows
  <1> HIDE DEF f, g
  <1>2. Total(f, n) <= Total(g, n)
    BY <1>1, TotalOrdered
  <1>3. QED
    BY <1>2 DEF Need, f, g

(* ... is that of the first m and of the n that start where those end, ...   *)
LEMMA NeedSplits ==
  ASSUME Proportional, NEW edits \in BOOLEAN, edits => Rifle \in Configured,
         NEW h \in Nat, NEW m \in Nat, NEW n \in Nat
  PROVE  Need(edits, h, m + n) = Need(edits, h, m) + Need(edits, h + HeatPerShot * m, n)
  <1> DEFINE k == h + HeatPerShot * m
             f == [i \in Nat |-> Cost(edits, h + HeatPerShot * i)]
             g == [i \in Nat |-> Cost(edits, k + HeatPerShot * i)]
  <1>1. ASSUME NEW i \in 1..(m + n) PROVE f[i] \in Nat
    <2>1. i \in Nat /\ h + HeatPerShot * i \in Nat /\ h + HeatPerShot * i <= h + HeatPerShot * i
      BY Heats
    <2>2. QED
      BY <2>1, CostGrows
  <1>2. ASSUME NEW i \in 1..n PROVE g[i] = f[m + i]
    <2>1. m + i \in Nat /\ i \in Nat /\ k + HeatPerShot * i = h + HeatPerShot * (m + i)
      BY RifleTyped
    <2>2. QED
      BY <2>1
  <1> HIDE DEF f, g
  <1>3. Total(f, m + n) = Total(f, m) + Total(g, n)
    BY <1>1, <1>2, TotalSplits
  <1>4. QED
    BY <1>3 DEF Need, f, g

(* ... and is that of the first shot and of the rest.                       *)
LEMMA NeedFirst ==
  ASSUME Proportional, NEW edits \in BOOLEAN, edits => Rifle \in Configured,
         NEW h \in Nat, NEW n \in Nat \ {0}
  PROVE  Need(edits, h, n) = Cost(edits, h + HeatPerShot) + Need(edits, h + HeatPerShot, n - 1)
  <1> DEFINE f == [i \in Nat |-> Cost(edits, h + HeatPerShot * i)]
  <1>1. /\ 1 \in Nat /\ n - 1 \in Nat /\ n = 1 + (n - 1) /\ HeatPerShot * 1 = HeatPerShot
        /\ h + HeatPerShot \in Nat /\ h + HeatPerShot <= h + HeatPerShot
    BY RifleTyped
  <1>2. Need(edits, h, n) = Need(edits, h, 1) + Need(edits, h + HeatPerShot, n - 1)
    BY <1>1, NeedSplits
  <1>3. f[1] = Cost(edits, h + HeatPerShot) /\ f[1] \in Nat
    BY <1>1, CostGrows
  <1>4. Total(f, 0 + 1) = Total(f, 0) + f[0 + 1]
    <2>1. 0 \in Nat /\ 0 + 1 = 1 /\ \A i \in 1..(0 + 1) : f[i] \in Nat
      BY <1>3
    <2> HIDE DEF f
    <2>2. QED
      BY <2>1, TotalAdds
  <1>5. Need(edits, h, 1) = Cost(edits, h + HeatPerShot)
    BY <1>3, <1>4, TotalOfNone DEF Need
  <1>6. QED
    BY <1>2, <1>5

-----------------------------------------------------------------------------
(* The projection of an attack                                              *)

(* The code finds out the shots of an attack.                               *)
LEMMA ShotsAre ==
  ASSUME Proportional, form = Original, Original[Rifle].ammoUse # 0
  PROVE  Shots = Burst /\ GetAmmoRequiredForVats = Burst * Original[Rifle].ammoUse
  <1> DEFINE use == Original[Rifle].ammoUse
  <1>1. use \in Nat \ {0} /\ use * Burst = Burst * use /\ use * Burst \in Nat /\ use * Burst < BYTE
    BY RifleTyped, NatTimes DEF Proportional
  <1>2. GetAmmoRequiredForVats = use * Burst
    <2>1. (use * Burst) % BYTE = use * Burst
      <3> DEFINE x == use * Burst
      <3>1. x \in Nat /\ x < BYTE
        BY <1>1
      <3> HIDE DEF x
      <3>2. x % BYTE = x
        BY <3>1
      <3>3. QED
        BY <3>2 DEF x
    <2>2. QED
      BY <2>1 DEF GetAmmoRequiredForVats
  <1>3. (use * Burst) \div use = Burst
    <2> HIDE DEF use
    <2>1. QED
      BY <1>1
  <1>4. QED
    BY <1>1, <1>2, <1>3 DEF Shots

(* The ammo projected for a shot is the one of its projected heat.          *)
LEMMA ProjectedUseIs ==
  ASSUME form = Original, NEW s \in Nat
  PROVE  ProjectedUse(s) = IF Original[Rifle].ammoUse = 0 THEN 0 ELSE Percent(ProjectedHeat(s))
  BY DEF ProjectedUse, Percent, ScaleByPercentRange

(* The heat projected for a shot of the next attack is not below the heat   *)
(* that the shots before it will have left.                                 *)
LEMMA ProjectedHeatIsHigh ==
  ASSUME heat[Player] \in Nat, Rifle \in Configured, Shots = Burst, queued \in Nat,
         NEW s \in Nat \ {0}
  PROVE  /\ ProjectedHeat(s) \in Nat
         /\ Temperature + HeatPerShot * (queued * Burst + s) <= ProjectedHeat(s)
  <1> DEFINE q == queued * Burst
             t == (s * (s + 1)) \div 2
             u == q * s
             w == u + t
  <1>1. heat[Player] = Temperature /\ HeatPerShot \in Nat /\ Config[Rifle].heatPerShot = HeatPerShot
    BY RifleTyped DEF Temperature
  <1>2. ProjectedHeat(s) = Temperature + HeatPerShot * w
    BY <1>1 DEF ProjectedHeat
  <1>3. q \in Nat
    BY NatTimes
  <1>4. t \in Nat /\ s <= t
    <2>1. s * 2 <= s * (s + 1)
      BY 2 <= s + 1, s + 1 \in Nat, TimesOrdered
    <2>2. s * (s + 1) \in Nat
      BY s + 1 \in Nat, NatTimes
    <2>3. (s * 2) \div 2 = s
      OBVIOUS
    <2>4. (s * 2) \div 2 <= (s * (s + 1)) \div 2
      BY <2>1, <2>2, s * 2 \in Nat, DivOrdered
    <2>5. QED
      BY <2>2, <2>3, <2>4, DivType
  <1> HIDE DEF t, q
  <1>5. q <= u /\ u \in Nat
    <2>1. q * 1 <= q * s
      BY <1>3, 1 <= s, TimesOrdered
    <2>2. QED
      BY <1>3, <2>1, NatTimes
  <1> HIDE DEF u
  <1>6. w \in Nat /\ q + s \in Nat /\ q + s <= w
    BY <1>3, <1>4, <1>5
  <1> HIDE DEF w
  <1>7. HeatPerShot * (q + s) <= HeatPerShot * w /\ HeatPerShot * w \in Nat
        /\ HeatPerShot * (q + s) \in Nat
    BY <1>1, <1>6, TimesOrdered, NatTimes
  <1>8. QED
    BY <1>1, <1>2, <1>7 DEF q

(* The game asks for the ammo the attack takes at most.                     *)
LEMMA ProjectionCovers ==
  ASSUME Proportional, TypeOK, Unconfigured, form = Original,
         Rifle \in Configured => heat[Player] # NoHeat,
         queued \in Nat, CalcOCAmmoRequired > 0
  PROVE  /\ CalcOCAmmoRequired \in Nat
         /\ Need(Edited, Temperature + HeatPerShot * (queued * Burst), Burst) <= CalcOCAmmoRequired
  <1> DEFINE use == Original[Rifle].ammoUse
             hot == Temperature + HeatPerShot * (queued * Burst)
             f == [i \in Nat |-> Cost(Edited, hot + HeatPerShot * i)]
             p == [s \in 1..Shots |-> ProjectedUse(s)]
  <1>1. /\ Edited \in BOOLEAN /\ (Edited => Rifle \in Configured) /\ queued * Burst \in Nat
        /\ Temperature \in Nat /\ hot \in Nat /\ use \in Nat
    <2>1. Temperature \in Nat /\ queued * Burst \in Nat
      BY NatTimes DEF Temperature, TypeOK
    <2>2. hot \in Nat
      BY <2>1, Heats
    <2>3. QED
      BY <2>1, <2>2, RifleTyped DEF Edited, TypeOK
  <1> HIDE DEF hot
  <1>2. SumFunction(p) = Total(p, Shots)
    BY DEF SumFunction, Total
  <1>3. CASE use = 0
    <2>1. GetAmmoRequiredForVats = 0 /\ Shots = 0
      BY <1>3 DEF GetAmmoRequiredForVats, Shots
    <2>2. SumFunction(p) = 0
      BY <1>2, <2>1, TotalOfNone
    <2>3. 0 % BYTE = 0
      OBVIOUS
    <2>4. CalcOCAmmoRequired = 0
      BY <2>1, <2>2, <2>3 DEF CalcOCAmmoRequired
    <2>5. QED
      BY <2>4
  <1>4. CASE use # 0 /\ ~Edited
    <2>1. Shots = Burst /\ GetAmmoRequiredForVats = Burst * use
      BY <1>4, ShotsAre
    <2>2. ~bStats \/ heat[Player] = NoHeat
      BY <1>4 DEF Edited, Unconfigured, Rifle
    <2>3. CalcOCAmmoRequired = Burst * use
      BY <2>1, <2>2 DEF CalcOCAmmoRequired
    <2>4. \A i \in 1..Burst : f[i] \in 0..use
      BY <1>1, <1>4 DEF Cost
    <2> HIDE DEF f, use
    <2>5. Total(f, Burst) <= Burst * use
      BY <1>1, <2>4, TotalBelow
    <2>6. Need(Edited, hot, Burst) <= Burst * use
      BY <2>5 DEF Need, f
    <2>7. QED
      BY <1>1, <2>3, <2>6, NatTimes DEF hot
  <1>5. CASE use # 0 /\ Edited
    <2> DEFINE max == Config[Rifle].iMaxAmmoUsed
    <2>1. Shots = Burst /\ GetAmmoRequiredForVats = Burst * use
      BY <1>5, ShotsAre
    <2>2. Rifle \in Configured /\ bStats /\ heat[Player] # NoHeat /\ heat[Player] \in Nat
          /\ max \in Nat /\ Burst * max < BYTE /\ Burst * max \in Nat
      <3>1. Rifle \in Configured /\ bStats
        BY <1>5 DEF Edited
      <3>2. max \in Nat /\ Burst * max < BYTE
        BY <3>1, RifleTyped DEF Proportional
      <3>3. QED
        BY <3>1, <3>2, NatTimes DEF TypeOK
    <2>3. ASSUME NEW s \in 1..Burst
          PROVE  p[s] \in 0..max /\ f[s] \in Nat /\ f[s] <= p[s]
      <3>1. ProjectedHeat(s) \in Nat
            /\ Temperature + HeatPerShot * (queued * Burst + s) <= ProjectedHeat(s)
        BY <2>1, <2>2, ProjectedHeatIsHigh
      <3>2. Temperature + HeatPerShot * (queued * Burst + s) = hot + HeatPerShot * s
        BY <1>1, RifleTyped DEF hot
      <3>3. hot + HeatPerShot * s \in Nat
        <4>1. s \in Nat
          OBVIOUS
        <4>2. QED
          BY <1>1, <4>1, Heats, Zenon
      <3>4. p[s] = Percent(ProjectedHeat(s)) /\ f[s] = Percent(hot + HeatPerShot * s)
        <4>1. s \in Nat /\ s \in 1..Shots
          BY <2>1
        <4>2. ProjectedUse(s) = Percent(ProjectedHeat(s))
          BY <1>5, <4>1, ProjectedUseIs
        <4>3. QED
          BY <1>5, <4>1, <4>2 DEF Cost
      <3> DEFINE a == hot + HeatPerShot * s
                 b == ProjectedHeat(s)
      <3>5. a \in Nat /\ b \in Nat /\ a <= b /\ b <= b
        BY <3>1, <3>2, <3>3
      <3> HIDE DEF a, b, max
      <3>6. Percent(a) \in 0..max /\ Percent(a) <= Percent(b)
        BY <2>2, <3>5, PercentGrows DEF max
      <3>7. Percent(b) \in 0..max
        BY <2>2, <3>5, PercentGrows DEF max
      <3>8. QED
        BY <2>2, <3>4, <3>6, <3>7 DEF a, b
    <2> HIDE DEF p, f, max
    <2>4. Total(f, Burst) <= Total(p, Burst)
      <3>1. \A s \in 1..Burst : f[s] \in Nat /\ p[s] \in Nat /\ f[s] <= p[s]
        BY <2>2, <2>3
      <3>2. QED
        BY <3>1, TotalOrdered
    <2>5. Total(p, Burst) <= Burst * max /\ Total(p, Burst) \in Nat /\ Total(f, Burst) \in Nat
      <3>1. Total(p, Burst) <= Burst * max
        BY <2>2, <2>3, TotalBelow
      <3>2. \A s \in 1..Burst : f[s] \in Nat /\ p[s] \in Nat
        BY <2>2, <2>3
      <3>3. QED
        BY <3>1, <3>2, TotalType
    <2>6. SumFunction(p) % BYTE = Total(p, Burst)
      <3>1. \A x \in Nat : x < BYTE => x % BYTE = x
        OBVIOUS
      <3>2. Total(p, Burst) < BYTE
        BY <2>2, <2>5
      <3>3. QED
        BY <1>2, <2>1, <2>5, <3>1, <3>2
    <2>7. CalcOCAmmoRequired = IF Total(p, Burst) # 0 THEN Total(p, Burst) ELSE Burst * use
      BY <2>1, <2>2, <2>6 DEF CalcOCAmmoRequired, p
    <2>8. Burst * use \in Nat
      BY <1>1, NatTimes
    <2>9. Need(Edited, hot, Burst) = Total(f, Burst)
      BY DEF Need, f
    <2>10. QED
      BY <2>4, <2>5, <2>7, <2>8, <2>9 DEF hot
  <1>6. QED
    BY <1>3, <1>4, <1>5

-----------------------------------------------------------------------------
(* A shot of the queue                                                      *)

(* A shot takes no more than its cost at the heat it makes, and heats the   *)
(* rifle by its heat per shot at most: perks only save ammo and heat. That  *)
(* it is not charged is what keeps its ammo from being tripled.             *)
LEMMA ShotCost ==
  ASSUME Proportional, TypeOK, Unconfigured, FireWeaponWrapper(Player), Player \notin charged,
         Rifle \in Configured => heat[Player] # NoHeat,
         Edited \/ form[Rifle].ammoUse = Original[Rifle].ammoUse
  PROVE  /\ form'[Rifle].ammoUse \in 0..Cost(Edited, Temperature + HeatPerShot)
         /\ Temperature' \in 0..(Temperature + HeatPerShot)
         /\ Rifle \in Configured => heat'[Player] # NoHeat
         /\ Edited \/ form' = form
  <1> DEFINE h == Temperature + HeatPerShot
             use == form[Rifle].ammoUse
  <1>1. /\ Temperature \in Nat /\ h \in Nat /\ use \in Nat /\ Rifle \in Weapons
        /\ form \in [Weapons -> Form] /\ form[Rifle] \in Form
    <2>1. form[Rifle] \in Form /\ Temperature \in Nat /\ Rifle \in Weapons
      BY RifleTyped DEF TypeOK, Temperature
    <2>2. QED
      BY <2>1, RifleTyped DEF Form, Fields, ShotFields, TypeOK
  <1>2. CASE FirePlain(Player)
    <2>1. Rifle \notin Configured /\ form' = form /\ heat' = heat
      BY <1>2 DEF FirePlain, Enter, Rifle
    <2>2. use = Original[Rifle].ammoUse /\ ~Edited
      BY <2>1 DEF Edited
    <2>3. Temperature' = Temperature
      BY <2>1 DEF Temperature
    <2>4. QED
      BY <1>1, <2>1, <2>2, <2>3, RifleTyped DEF Cost
  <1>3. ASSUME NEW luck \in BOOLEAN, FireConfigured(Player, luck)
        PROVE  /\ form'[Rifle].ammoUse \in 0..Cost(Edited, h) /\ Temperature' \in 0..h
               /\ heat'[Player] # NoHeat /\ (Edited \/ form' = form)
    <2> DEFINE c == Config[Rifle]
               ammo == Scaled(use, c.iMinAmmoUsed, c.iMaxAmmoUsed, c.iAddAmmoThreshold, h)
               perked == UpdatePerks(Player, ammo, h, luck)
    <2>1. Rifle \in Configured /\ HeatOnFire(Player) = h
      BY <1>3, RifleTyped DEF FireConfigured, Rifle, HeatOnFire, Temperature
    <2>2. /\ heat' = [heat EXCEPT ![Player] = perked.heat]
          /\ form' = IF bStats THEN ShotForm(Player, h, perked.ammo) ELSE form
      BY <1>3, <2>1 DEF FireConfigured, Enter, Rifle
    <2>3. ammo \in 0..Percent(h) /\ Percent(h) \in Nat
      <3>1. Percent(h) \in 0..c.iMaxAmmoUsed
        <4>1. h <= h
          BY <1>1
        <4>2. QED
          BY <1>1, <2>1, <4>1, PercentGrows
      <3>2. Percent(h) \in Nat
        BY <2>1, <3>1, RifleTyped
      <3>3. c.iAddAmmoThreshold = 0
        BY <2>1 DEF Proportional
      <3>4. ammo = IF use = 0 THEN 0 ELSE Percent(h)
        BY <3>3 DEF Scaled, ScaleByPercentRange, Percent
      <3>5. QED
        BY <3>2, <3>4
    <2>4. perked.heat = h /\ perked.ammo \in {0, ammo}
      BY DEF UpdatePerks, Proportional
    <2> HIDE DEF ammo, perked, h
    <2>5. heat'[Player] = h /\ Temperature' = h /\ h \in Nat /\ heat'[Player] # NoHeat
      BY <1>1, <2>2, <2>4 DEF Temperature, TypeOK
    <2>6. CASE bStats
      <3>1. Edited /\ Cost(Edited, h) = Percent(h)
        BY <2>1, <2>6 DEF Edited, Cost
      <3>2. form'[Rifle].ammoUse = perked.ammo
        <4>1. form' = ShotForm(Player, h, perked.ammo) /\ WeaponOf[Player] = Rifle
          BY <2>2, <2>6 DEF Rifle
        <4>2. QED
          BY <1>1, <4>1 DEF ShotForm, Form, Fields, ShotFields
      <3>3. perked.ammo \in 0..Percent(h)
        BY <2>3, <2>4
      <3>4. Temperature' \in 0..h
        BY <2>5
      <3>5. QED
        BY <2>5, <3>1, <3>2, <3>3, <3>4, Zenon
    <2>7. CASE ~bStats
      <3>1. ~Edited /\ Cost(Edited, h) = Original[Rifle].ammoUse /\ form' = form
        BY <2>2, <2>7 DEF Edited, Cost
      <3>2. form'[Rifle].ammoUse = Original[Rifle].ammoUse
        BY <3>1
      <3>3. QED
        BY <2>5, <3>1, <3>2, RifleTyped
    <2>8. QED
      BY <2>6, <2>7
  <1>4. QED
    BY <1>2, <1>3 DEF FireWeaponWrapper

-----------------------------------------------------------------------------
(* The clip                                                                 *)

(* No hook edits the ammo of the rifle.                                     *)
Steady ==
  /\ form[Rifle].ammoUse = Original[Rifle].ammoUse
  /\ \A i \in DOMAIN stack : stack[i].og[Rifle].ammoUse = Original[Rifle].ammoUse

(* The weapon is ready for VATS, and what a shot of it costs is settled.    *)
Drawn ==
  /\ Player \notin charged
  /\ Rifle \in Configured => heat[Player] # NoHeat
  /\ Edited \/ Steady

(* The invariant: while the menu is open the reserved ammo is enough for the *)
(* attacks queued, however hot they make the rifle; while they are played   *)
(* the clip is enough for the shots left, from the heat it has by now.      *)
VInv ==
  /\ vats \in {"off", "menu", "playing"}
  /\ queued \in Nat /\ reserved \in Nat /\ shots \in Nat /\ clip \in Int
  /\ vats = "off" => queued = 0 /\ reserved = 0 /\ clip = 0
  /\ vats # "off" => Drawn
  /\ vats = "menu" => /\ stack = <<>> /\ reserved <= clip
                      /\ Need(Edited, Temperature, queued * Burst) <= reserved
  /\ vats = "playing" => Need(Edited, Temperature, shots) <= clip

(* What a step of VATS keeps.                                               *)
Kept == bStats' = bStats /\ Drawn'

LEMMA WorldIs ==
  ASSUME TypeOK
  PROVE  /\ Temperature \in Nat /\ Edited \in BOOLEAN /\ (Edited => Rifle \in Configured)
         /\ Rifle \in Weapons
  BY RifleTyped DEF TypeOK, Temperature, Edited

(* A hook that leaves the ammo of the rifle alone saves a form with it.     *)
LEMMA SteadyEntered ==
  ASSUME TypeOK, Steady, NEW f, f.og = form, stack' = Append(stack, f),
         form'[Rifle].ammoUse = form[Rifle].ammoUse
  PROVE  Steady'
  <1> DEFINE n == Len(stack)
  <1>1. stack \in Seq(Frame) /\ n \in Nat /\ DOMAIN stack = 1..n
    BY DEF TypeOK
  <1>2. DOMAIN stack' = 1..(n + 1) /\ stack'[n + 1] = f /\ \A i \in 1..n : stack'[i] = stack[i]
    BY <1>1
  <1> HIDE DEF n
  <1>3. ASSUME NEW i \in DOMAIN stack'
        PROVE  stack'[i].og[Rifle].ammoUse = Original[Rifle].ammoUse
    <2>1. i = n + 1 \/ i \in 1..n
      BY <1>1, <1>2
    <2>2. QED
      BY <1>1, <1>2, <2>1 DEF Steady
  <1>4. QED
    BY <1>3 DEF Steady

(* The hooks around a shot.                                                 *)
LEMMA AnimKeeps ==
  ASSUME TypeOK, Unconfigured, Drawn, NEW a \in Actors,
         PlayFireAnimation(a) \/ GetWeapAnimMult(a)
  PROVE  Kept /\ Temperature' = Temperature
  <1>1. Bounded(form) /\ Rifle \in Weapons
    BY BoundedForm, WorldIs
  <1>2. UNCHANGED <<heat, charged, bStats>>
    BY DEF PlayFireAnimation, GetWeapAnimMult
  <1>3. \E f : /\ f.og = form /\ stack' = Append(stack, f)
               /\ form' = form \/ (heat[a] # NoHeat /\ form' = WithAnimMult(a))
    <2>1. CASE PlayFireAnimation(a)
      <3> DEFINE hot == heat[a] # NoHeat
                 edited == IF hot /\ bStats THEN WithAnimMult(a) ELSE form
                 f == NewFrame(a, IF hot /\ a \in blocked THEN "null" ELSE "attack",
                               {"animAttackMult"}, edited, 0, FALSE)
      <3>1. form' = edited /\ stack' = Append(stack, f) /\ f.og = form
        BY <2>1 DEF PlayFireAnimation, Enter, NewFrame
      <3>2. form' = form \/ (heat[a] # NoHeat /\ form' = WithAnimMult(a))
        BY <3>1
      <3> HIDE DEF f
      <3>3. QED
        BY <3>1, <3>2
    <2>2. CASE GetWeapAnimMult(a)
      <3> DEFINE edited == IF heat[a] # NoHeat THEN WithAnimMult(a) ELSE form
                 f == NewFrame(a, "mult", {"animAttackMult"}, edited, 0, FALSE)
      <3>1. form' = edited /\ stack' = Append(stack, f) /\ f.og = form
        BY <2>2 DEF GetWeapAnimMult, Enter, NewFrame
      <3>2. form' = form \/ (heat[a] # NoHeat /\ form' = WithAnimMult(a))
        BY <3>1
      <3> HIDE DEF f
      <3>3. QED
        BY <3>1, <3>2
    <2>3. QED
      BY <2>1, <2>2
  <1>4. form'[Rifle].ammoUse = form[Rifle].ammoUse
    <2>1. CASE form' = form
      BY <2>1
    <2>2. CASE heat[a] # NoHeat /\ form' = WithAnimMult(a)
      <3>1. heat[a] \in Nat /\ WeaponOf[a] \in Configured
        BY <2>2 DEF TypeOK, Unconfigured
      <3>2. /\ \A w \in Weapons \ {WeaponOf[a]} : WithAnimMult(a)[w] = form[w]
            /\ \A x \in Fields \ {"animAttackMult"} :
                 WithAnimMult(a)[WeaponOf[a]][x] = form[WeaponOf[a]][x]
        BY <1>1, <3>1, WithAnimMultType
      <3>3. "ammoUse" \in Fields \ {"animAttackMult"}
        BY DEF Fields, ShotFields
      <3>4. QED
        BY <1>1, <2>2, <3>2, <3>3
    <2>3. QED
      BY <1>3, <2>1, <2>2
  <1>5. Steady => Steady'
    BY <1>3, <1>4, SteadyEntered
  <1>6. QED
    BY <1>2, <1>5 DEF Kept, Drawn, Edited, Temperature

(* A launch uses up charges only.                                           *)
LEMMA ProjectileKeeps ==
  ASSUME TypeOK, Drawn, ProjectileWrapper
  PROVE  Kept /\ Temperature' = Temperature
  <1>1. UNCHANGED <<form, heat, bStats>> /\ charged' \subseteq charged
    BY DEF ProjectileWrapper
  <1>2. stack \in Seq(Frame) /\ Len(stack) \in DOMAIN stack /\ Len(stack) \in Nat
    BY DEF ProjectileWrapper, TypeOK
  <1>3. DOMAIN stack' = DOMAIN stack /\ \A i \in DOMAIN stack : stack'[i].og = stack[i].og
    BY <1>2 DEF ProjectileWrapper, Frame
  <1>4. Steady => Steady'
    BY <1>1, <1>3 DEF Steady
  <1>5. QED
    BY <1>1, <1>4 DEF Kept, Drawn, Edited, Temperature

(* A return writes back what was saved, which a steady stack has steady.    *)
LEMMA ReturnKeeps ==
  ASSUME IInv, Drawn, Return
  PROVE  Kept /\ Temperature' = Temperature
  <1> DEFINE n == Len(stack)
  <1>1. /\ stack \in Seq(Frame) /\ n \in Nat \ {0} /\ DOMAIN stack = 1..n /\ Top = stack[n]
        /\ form' = WrittenBack(Top) /\ stack' = SubSeq(stack, 1, n - 1)
        /\ UNCHANGED <<heat, charged, bStats>>
    BY DEF Return, Top, IInv, TypeOK
  <1>2. DOMAIN stack' = 1..(n - 1) /\ \A i \in 1..(n - 1) : stack'[i] = stack[i]
    BY <1>1
  <1>3. form \in [Weapons -> [Fields -> Nat]] /\ Rifle \in Weapons /\ "ammoUse" \in Fields
    BY WorldIs DEF IInv, TypeOK, Form, Fields, ShotFields
  <1>4. form'[Rifle].ammoUse \in {form[Rifle].ammoUse, Top.og[Rifle].ammoUse}
    BY <1>1, <1>3 DEF WrittenBack
  <1>5. Steady => Steady'
    BY <1>1, <1>2, <1>4 DEF Steady
  <1>6. QED
    BY <1>1, <1>5 DEF Kept, Drawn, Edited, Temperature

(* A shot of anybody: the player's, by ShotCost, or another's.              *)
LEMMA FireKeeps ==
  ASSUME TypeOK, Unconfigured, Drawn, NEW a \in Actors, FireWeaponWrapper(a),
         Rifle \in Configured => heat'[Player] # NoHeat
  PROVE  Kept
  <1>1. UNCHANGED <<charged, bStats>>
    BY DEF FireWeaponWrapper, FirePlain, FireConfigured
  <1>2. ASSUME ~Edited
        PROVE  \E f : f.og = form /\ stack' = Append(stack, f)
                      /\ form'[Rifle].ammoUse = form[Rifle].ammoUse
    <2>1. CASE FirePlain(a)
      <3> DEFINE f == NewFrame(a, "plain", {}, form, form[WeaponOf[a]].numProjectiles, FALSE)
      <3>1. f.og = form /\ stack' = Append(stack, f) /\ form' = form
        BY <2>1 DEF FirePlain, Enter, NewFrame
      <3> HIDE DEF f
      <3>2. QED
        BY <3>1
    <2>2. ASSUME NEW luck \in BOOLEAN, FireConfigured(a, luck)
          PROVE  \E f : f.og = form /\ stack' = Append(stack, f)
                        /\ form'[Rifle].ammoUse = form[Rifle].ammoUse
      <3> DEFINE c == Config[WeaponOf[a]]
                 h == HeatOnFire(a)
                 ammo == Scaled(form[WeaponOf[a]].ammoUse, c.iMinAmmoUsed, c.iMaxAmmoUsed,
                                c.iAddAmmoThreshold, h)
                 perked == UpdatePerks(a, ammo, h, luck)
                 edited == IF bStats THEN ShotForm(a, h, perked.ammo) ELSE form
                 f == NewFrame(a, "fire", ShotFields, edited, edited[WeaponOf[a]].numProjectiles,
                               a \in charged)
      <3>1. f.og = form /\ stack' = Append(stack, f) /\ form' = edited /\ WeaponOf[a] \in Configured
        BY <2>2 DEF FireConfigured, Enter, NewFrame
      <3> HIDE DEF f
      <3>2. edited[Rifle].ammoUse = form[Rifle].ammoUse
        <4>1. CASE ~bStats
          BY <4>1
        <4>2. CASE bStats
          <5>1. Rifle # WeaponOf[a] /\ Rifle \in Weapons /\ form \in [Weapons -> Form]
            BY <1>2, <3>1, <4>2, WorldIs DEF Edited, TypeOK
          <5> HIDE DEF ammo, perked, h
          <5>2. edited = ShotForm(a, h, perked.ammo)
            BY <4>2
          <5>3. ShotForm(a, h, perked.ammo)[Rifle] = form[Rifle]
            BY <5>1 DEF ShotForm
          <5>4. QED
            BY <5>2, <5>3
        <4>3. QED
          BY <4>1, <4>2 DEF TypeOK
      <3>3. QED
        BY <3>1, <3>2
    <2>3. QED
      BY <2>1, <2>2 DEF FireWeaponWrapper
  <1>3. Edited \/ Steady'
    <2>1. CASE Edited
      BY <2>1
    <2>2. CASE ~Edited
      BY <1>2, <2>2, SteadyEntered DEF Drawn
    <2>3. QED
      BY <2>1, <2>2
  <1>4. QED
    BY <1>1, <1>3 DEF Kept, Drawn, Edited

(* A frame cools the weapon, and it stays drawn.                            *)
LEMMA UpdateKeeps ==
  ASSUME TypeOK, Drawn, NEW a \in Actors, Update(a),
         a = Player => heat'[Player] # NoHeat /\ Player \notin charged'
  PROVE  Kept /\ Temperature' \in 0..Temperature
  <1>1. UNCHANGED <<form, stack, bStats>>
    BY DEF Update
  <1>2. CASE a = Player
    <2>1. heat'[Player] # NoHeat /\ Player \notin charged'
      BY <1>2
    <2>2. PICK h \in 0..Temperature : heat'[Player] = h
      BY <1>2, <2>1 DEF Update, Temperature, TypeOK
    <2>3. Temperature' = h
      BY <2>1, <2>2 DEF Temperature
    <2>4. QED
      BY <1>1, <2>1, <2>3 DEF Kept, Drawn, Edited, Steady
  <1>3. CASE a # Player
    <2>1. heat'[Player] = heat[Player]
      BY <1>3 DEF Update, TypeOK
    <2>2. Player \notin charged'
      BY <1>3 DEF Update, Drawn
    <2>3. Temperature' = Temperature /\ Temperature \in Nat
      BY <2>1, WorldIs DEF Temperature
    <2>4. QED
      BY <1>1, <2>1, <2>2, <2>3 DEF Kept, Drawn, Edited, Steady
  <1>4. QED
    BY <1>2, <1>3

(* A step that does not heat the rifle leaves the queue covered.            *)
LEMMA CoolerNeedsLess ==
  ASSUME Proportional, TypeOK, bStats' = bStats, Temperature' \in 0..Temperature,
         NEW n \in Nat
  PROVE  /\ Need(Edited, Temperature', n) <= Need(Edited, Temperature, n)
         /\ Need(Edited, Temperature', n) \in Int /\ Need(Edited, Temperature, n) \in Int
         /\ Edited' = Edited
  <1>1. Temperature \in Nat /\ Edited \in BOOLEAN /\ (Edited => Rifle \in Configured)
    BY WorldIs
  <1>2. Edited' = Edited
    BY DEF Edited
  <1> DEFINE t == Temperature'
  <1>3. t \in Nat /\ t <= Temperature
    BY <1>1
  <1> HIDE DEF t
  <1>4. Need(Edited, t, n) <= Need(Edited, Temperature, n)
    BY <1>1, <1>3, NeedGrows
  <1>5. Need(Edited, t, n) \in Nat /\ Need(Edited, Temperature, n) \in Nat
    BY <1>1, <1>3, NeedType
  <1>6. QED
    BY <1>2, <1>4, <1>5 DEF t

(* Nothing is queued yet, and nothing reserved.                             *)
LEMMA MenuOpens ==
  ASSUME Proportional, IInv, VInv, OpenMenu
  PROVE  VInv'
  <1>1. /\ UNCHANGED <<form, stack, heat, bStats, queued, reserved, shots>>
        /\ vats' = "menu" /\ stack = <<>> /\ clip' \in Nat
        /\ Player \notin charged'
        /\ queued = 0 /\ reserved = 0
    BY DEF OpenMenu, VInv
  <1>2. form = Original
    BY <1>1 DEF IInv, Chain
  <1>3. Steady'
    BY <1>1, <1>2 DEF Steady
  <1>4. Drawn'
    BY <1>1, <1>3 DEF Drawn, OpenMenu
  <1>5. Need(Edited', Temperature', queued' * Burst) = 0
    <2>1. queued' * Burst = 0
      BY <1>1
    <2>2. QED
      BY <2>1, TotalOfNone DEF Need
  <1>6. shots' \in Nat
    BY <1>1 DEF VInv
  <1>7. QED
    BY <1>1, <1>4, <1>5, <1>6 DEF VInv

(* An attack begins where the queued ones leave the heat; the game reserves *)
(* what it was told, which covers it.                                       *)
LEMMA AttackFits ==
  ASSUME Proportional, IInv, VInv, QueueAttack
  PROVE  VInv'
  <1> DEFINE m == queued * Burst
             ask == CalcOCAmmoRequired
  <1>1. TypeOK /\ Unconfigured /\ form = Original /\ Drawn /\ m \in Nat /\ stack = <<>>
        /\ queued \in Nat /\ reserved \in Nat /\ Need(Edited, Temperature, m) <= reserved
    <2>1. vats = "menu" /\ stack = <<>>
      BY DEF QueueAttack, VInv
    <2>2. queued * Burst \in Nat
      BY NatTimes DEF VInv
    <2>3. QED
      BY <2>1, <2>2 DEF VInv, IInv, Chain
  <1>2. /\ UNCHANGED <<form, stack, heat, charged, bStats, vats, shots, clip>>
        /\ queued' = queued + 1 /\ reserved' = reserved + ask /\ reserved + ask <= clip
        /\ ask > 0 /\ vats = "menu"
    BY DEF QueueAttack, fvars
  <1>3. ask \in Nat /\ Need(Edited, Temperature + HeatPerShot * m, Burst) <= ask
    BY <1>1, <1>2, ProjectionCovers DEF Drawn
  <1>4. /\ Temperature \in Nat /\ Edited \in BOOLEAN /\ (Edited => Rifle \in Configured)
        /\ Temperature + HeatPerShot * m \in Nat
    BY <1>1, WorldIs, Heats
  <1>5. /\ Need(Edited, Temperature, m) \in Nat
        /\ Need(Edited, Temperature + HeatPerShot * m, Burst) \in Nat
    BY <1>1, <1>4, NeedType
  <1>6. Need(Edited, Temperature, m + Burst)
          = Need(Edited, Temperature, m) + Need(Edited, Temperature + HeatPerShot * m, Burst)
    BY <1>1, <1>4, NeedSplits
  <1>7. queued' * Burst = m + Burst
    BY <1>1, <1>2
  <1> HIDE DEF ask, m
  <1>8. Need(Edited, Temperature, m + Burst) <= reserved'
    BY <1>1, <1>2, <1>3, <1>5, <1>6
  <1>9. Edited' = Edited /\ Temperature' = Temperature /\ Drawn'
    BY <1>1, <1>2 DEF Edited, Temperature, Drawn, Steady
  <1>10. Need(Edited', Temperature', queued' * Burst) <= reserved'
    BY <1>7, <1>8, <1>9
  <1>11. shots' \in Nat /\ clip' \in Int /\ reserved' \in Nat /\ queued' \in Nat
    BY <1>1, <1>2, <1>3 DEF VInv
  <1>12. QED
    BY <1>1, <1>2, <1>9, <1>10, <1>11 DEF VInv

(* The shots to play are those of the attacks queued.                       *)
LEMMA QueueIsPlayed ==
  ASSUME Proportional, IInv, VInv, Play
  PROVE  VInv'
  <1>1. /\ UNCHANGED <<form, stack, heat, charged, bStats, queued, reserved, clip>>
        /\ vats = "menu" /\ vats' = "playing" /\ shots' = queued * Burst
    BY DEF Play, fvars
  <1>2. Drawn' /\ Edited' = Edited /\ Temperature' = Temperature
    BY <1>1 DEF VInv, Edited, Temperature, Drawn, Steady
  <1>3. /\ shots' \in Nat /\ reserved \in Nat /\ clip \in Int /\ reserved <= clip
        /\ Need(Edited, Temperature, shots') <= reserved
    BY <1>1, NatTimes DEF VInv
  <1>4. Need(Edited, Temperature, shots') \in Nat
    BY <1>3, WorldIs, NeedType DEF IInv
  <1>5. Need(Edited', Temperature', shots') <= clip'
    BY <1>1, <1>2, <1>3, <1>4
  <1>6. queued' \in Nat /\ reserved' \in Nat /\ clip' \in Int
    BY <1>1 DEF VInv
  <1>7. QED
    BY <1>1, <1>2, <1>3, <1>5, <1>6 DEF VInv

(* A shot takes its share of the clip and leaves the rest for the others.   *)
LEMMA ShotIsCovered ==
  ASSUME Proportional, IInv, VInv, FireQueued
  PROVE  VInv'
  <1> DEFINE hot == Temperature + HeatPerShot
             use == form'[Rifle].ammoUse
             left == shots - 1
  <1>1. /\ TypeOK /\ Unconfigured /\ Drawn /\ shots \in Nat \ {0} /\ left \in Nat
        /\ vats = "playing" /\ FireWeaponWrapper(Player)
        /\ shots' = left /\ clip' = clip - use /\ clip \in Int
        /\ UNCHANGED <<vats, queued, reserved>>
        /\ Need(Edited, Temperature, shots) <= clip
    BY DEF FireQueued, VInv, IInv
  <1>2. /\ Temperature \in Nat /\ Edited \in BOOLEAN /\ (Edited => Rifle \in Configured)
        /\ hot \in Nat
    BY <1>1, WorldIs, RifleTyped
  <1>3. /\ use \in 0..Cost(Edited, hot) /\ Temperature' \in 0..hot
        /\ Rifle \in Configured => heat'[Player] # NoHeat
    BY <1>1, ShotCost DEF Drawn, Steady
  <1>4. bStats' = bStats /\ Drawn' /\ Edited' = Edited
    BY <1>1, <1>3, FireKeeps DEF Kept, Edited
  <1>5. Need(Edited, Temperature, shots) = Cost(Edited, hot) + Need(Edited, hot, left)
    BY <1>1, <1>2, NeedFirst
  <1> DEFINE t == Temperature'
  <1>6. t \in Nat /\ t <= hot
    BY <1>2, <1>3
  <1>7. Cost(Edited, hot) \in Nat
    <2>1. hot <= hot
      BY <1>2
    <2>2. QED
      BY <1>2, <2>1, CostGrows
  <1> HIDE DEF t, hot, left
  <1>8. Need(Edited, hot, left) \in Nat /\ Need(Edited, t, left) \in Nat
    BY <1>1, <1>2, <1>6, NeedType
  <1>9. Need(Edited, t, left) <= Need(Edited, hot, left)
    BY <1>1, <1>2, <1>6, NeedGrows
  <1> HIDE DEF use
  <1>10. Need(Edited, t, left) <= clip' /\ clip' \in Int
    BY <1>1, <1>3, <1>5, <1>7, <1>8, <1>9
  <1>11. Need(Edited', Temperature', shots') <= clip'
    BY <1>1, <1>4, <1>10 DEF t
  <1>12. queued' \in Nat /\ reserved' \in Nat
    BY <1>1 DEF VInv
  <1>13. QED
    BY <1>1, <1>4, <1>10, <1>11, <1>12 DEF VInv

(* Meanwhile the rifle cools, and other actors' hooks, whatever they nest   *)
(* in, leave its ammo to the shots.                                         *)
LEMMA WorldGoesOn ==
  ASSUME Proportional, IInv, VInv, Meanwhile
  PROVE  VInv'
  <1>1. TypeOK /\ Unconfigured /\ Drawn /\ vats = "playing" /\ UNCHANGED menu
    BY DEF Meanwhile, VInv, IInv
  <1>2. Temperature \in Nat
    BY <1>1, WorldIs
  <1>3. Kept /\ Temperature' \in 0..Temperature
    <2>1. CASE \E a \in Actors : PlayFireAnimation(a) \/ GetWeapAnimMult(a)
      BY <1>1, <1>2, <2>1, AnimKeeps
    <2>2. ASSUME NEW a \in Actors \ {Player}, FireWeaponWrapper(a)
          PROVE  Kept /\ Temperature' \in 0..Temperature
      <3>1. heat'[Player] = heat[Player]
        BY <1>1, <2>2, FireSteps
      <3>2. Kept
        BY <1>1, <2>2, <3>1, FireKeeps DEF Drawn
      <3>3. QED
        BY <1>2, <3>1, <3>2 DEF Temperature
    <2>3. ASSUME NEW a \in Actors \ {Player}, Update(a)
          PROVE  Kept /\ Temperature' \in 0..Temperature
      BY <1>1, <2>3, UpdateKeeps
    <2>4. CASE Update(Player) /\ heat'[Player] # NoHeat /\ Player \notin charged'
      BY <1>1, <2>4, UpdateKeeps
    <2>5. CASE ProjectileWrapper
      BY <1>1, <1>2, <2>5, ProjectileKeeps
    <2>6. CASE Return
      BY <1>1, <1>2, <2>6, ReturnKeeps
    <2>7. QED
      BY <2>1, <2>2, <2>3, <2>4, <2>5, <2>6 DEF Meanwhile
  <1>4. shots \in Nat /\ clip \in Int /\ Need(Edited, Temperature, shots) <= clip
    BY <1>1 DEF VInv
  <1>5. /\ Need(Edited, Temperature', shots) <= Need(Edited, Temperature, shots)
        /\ Need(Edited, Temperature', shots) \in Int /\ Need(Edited, Temperature, shots) \in Int
        /\ Edited' = Edited
    BY <1>1, <1>3, <1>4, CoolerNeedsLess DEF Kept
  <1>6. Need(Edited', Temperature', shots') <= clip'
    BY <1>1, <1>4, <1>5 DEF menu
  <1>7. Drawn' /\ UNCHANGED <<vats, queued, reserved, shots, clip>>
    BY <1>1, <1>3 DEF Kept, menu
  <1>8. QED
    BY <1>1, <1>6, <1>7 DEF VInv

(* Every step keeps the invariant.                                          *)
LEMMA VatsKeeps ==
  ASSUME Proportional, IInv, VInv, [VNext]_vvars
  PROVE  VInv'
  <1>1. CASE vats = "off" /\ Next /\ UNCHANGED menu
    BY <1>1 DEF VInv, menu
  <1>2. CASE EndVats
    BY <1>2 DEF VInv, EndVats
  <1>3. CASE UNCHANGED vvars
    <2>1. UNCHANGED <<form, stack, heat, charged, bStats>> /\ UNCHANGED menu
      BY <1>3 DEF vvars, fvars
    <2>2. Edited' = Edited /\ Temperature' = Temperature /\ Drawn' = Drawn
      BY <2>1 DEF Edited, Temperature, Drawn, Steady
    <2>3. QED
      BY <2>1, <2>2 DEF VInv, menu
  <1>4. QED
    BY <1>1, <1>2, <1>3, MenuOpens, AttackFits, QueueIsPlayed, ShotIsCovered, WorldGoesOn
       DEF VNext

(* And it says what the property says.                                      *)
LEMMA ClipIsEnoughNow ==
  ASSUME Proportional, TypeOK, VInv
  PROVE  ClipCovers
  <1>1. CASE vats = "off"
    BY <1>1 DEF VInv, ClipCovers
  <1>2. CASE vats = "menu"
    BY <1>2 DEF VInv, ClipCovers
  <1>3. CASE vats = "playing"
    <2>1. Need(Edited, Temperature, shots) \in Nat
      BY WorldIs, NeedType DEF VInv
    <2>2. QED
      BY <1>3, <2>1 DEF VInv, ClipCovers
  <1>4. QED
    BY <1>1, <1>2, <1>3 DEF VInv

(* With a configuration whose ammo grows in proportion to the heat, the clip *)
(* holds what the attacks accepted will take: for every number of shots,    *)
(* attacks and nested hooks, whatever cools, fires or is switched off in    *)
(* between (CalcOCAmmoRequired, OverchargeHooks.cpp:252).                   *)
THEOREM ClipIsEnough == ASSUME Proportional PROVE VSpec => []ClipCovers
  <1>1. VInit => Init /\ IInv /\ VInv
    BY InitEstablishes DEF VInit, VInv
  <1>2. IInv /\ [VNext]_vvars => [Next]_fvars
    BY VatsStep DEF IInv
  <1>3. IInv /\ VInv /\ [VNext]_vvars => VInv'
    BY VatsKeeps
  <1>4. IInv /\ VInv => ClipCovers
    BY ClipIsEnoughNow DEF IInv
  <1>5. QED
    BY <1>1, <1>2, <1>3, <1>4, NextKeeps, PTL DEF VSpec
=============================================================================
