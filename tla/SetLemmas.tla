----------------------------- MODULE SetLemmas ------------------------------
(***************************************************************************)
(* Finite sets of numbers, and finite sums, for the proofs about the       *)
(* components.                                                             *)
(***************************************************************************)
EXTENDS Integers, FiniteSetsExt, FiniteSetTheorems, TLAPS

\* A finite set of numbers has a largest one.  A smallest set without one
\* would have one after an element is taken away.
LEMMA LargestExists ==
    ASSUME NEW S \in SUBSET Nat, IsFiniteSet(S), S # {}
    PROVE  \E m \in S : \A n \in S : n <= m
  <1> DEFINE Largest(T) == \E m \in T : \A n \in T : n <= m
             Without == { T \in FiniteSubsetsOf(S) : T # {} /\ ~Largest(T) }
  <1>1. SUFFICES ASSUME Without # {} PROVE FALSE
    BY DEF FiniteSubsetsOf
  <1>2. PICK T \in Without :
            \A U \in Without : <<U, T>> \notin StrictSubsetOrdering(S)
    <2>1. Without \subseteq FiniteSubsetsOf(S)
      OBVIOUS
    <2> QED
      BY <1>1, <2>1, FS_StrictSubsetOrderingWellFounded, WFMin
  <1>3. PICK x \in T : TRUE
    BY <1>2
  <1>4. T \ {x} \notin Without
    BY <1>2, <1>3 DEF StrictSubsetOrdering, FiniteSubsetsOf
  <1>5. T \ {x} \in FiniteSubsetsOf(S)
    BY <1>2, FS_RemoveElement DEF FiniteSubsetsOf
  <1>6. CASE T \ {x} = {}
    <2>1. T = {x} /\ x \in Nat
      BY <1>2, <1>3, <1>6 DEF FiniteSubsetsOf
    <2> QED
      BY <2>1, <1>2
  <1>7. CASE Largest(T \ {x})
    <2>1. PICK m \in T \ {x} : \A n \in T \ {x} : n <= m
      BY <1>7
    <2>2. T \subseteq Nat
      BY <1>2 DEF FiniteSubsetsOf
    <2>3. Largest(T)
      BY <2>1, <2>2, <1>3
    <2> QED
      BY <2>3, <1>2
  <1> QED
    BY <1>4, <1>5, <1>6, <1>7

\* What Max returns.
LEMMA MaxIsLargest ==
    ASSUME NEW S \in SUBSET Nat, IsFiniteSet(S), S # {}
    PROVE  Max(S) \in S /\ \A n \in S : n <= Max(S)
  <1>1. \E m \in S : \A n \in S : m >= n
    BY LargestExists
  <1>2. Max(S) \in S /\ \A n \in S : Max(S) >= n
    BY <1>1 DEF Max
  <1> QED
    BY <1>2

\* ... and a smallest one, which Min returns: the set of what the largest exceeds
\* them by has a largest one too.
LEMMA MinIsSmallest ==
    ASSUME NEW S \in SUBSET Nat, IsFiniteSet(S), S # {}
    PROVE  Min(S) \in S /\ \A n \in S : Min(S) <= n
  <1> DEFINE top == Max(S)
             Gaps == { top - n : n \in S }
  <1>1. top \in S /\ \A n \in S : n <= top
    BY MaxIsLargest
  <1> HIDE DEF top
  <1>2. Gaps \in SUBSET Nat /\ Gaps # {}
    BY <1>1
  <1>3. IsFiniteSet(Gaps)
    <2> DEFINE gap == [n \in S |-> top - n]
    <2>1. gap \in Surjection(S, Gaps)
      BY DEF Surjection
    <2> QED
      BY <2>1, FS_Surjection
  <1>4. PICK m \in Gaps : \A n \in Gaps : n <= m
    <2> HIDE DEF Gaps
    <2> QED
      BY <1>2, <1>3, LargestExists
  <1>5. PICK s \in S : m = top - s
    BY <1>4
  <1>6. \A n \in S : s <= n
    <2>1. \A n \in S : top - n <= top - s
      BY <1>4, <1>5
    <2> QED
      BY <1>1, <2>1
  <1>7. \E x \in S : \A y \in S : x <= y
    BY <1>6
  <1> QED
    BY <1>7 DEF Min

-----------------------------------------------------------------------------
(***************************************************************************)
(* Sums.  SumFunctionOnSet(f, S) is defined by recursion on the subsets of *)
(* S, taking away one chosen element at a time.                            *)
(***************************************************************************)
Picked(T) == CHOOSE x \in T : TRUE

IsSum(g, f, S) ==
    g = [T \in SUBSET S |->
            IF T = {} THEN 0 ELSE f[Picked(T)] + g[T \ {Picked(T)}]]

LEMMA SumIs ==
    ASSUME NEW f, NEW S
    PROVE  SumFunctionOnSet(f, S) = (CHOOSE g : IsSum(g, f, S))[S]
  BY DEF SumFunctionOnSet, FoldFunctionOnSet, MapThenFoldSet, IsSum, Picked

\* A family of finite sets that is not empty has a member none of whose strict
\* subsets is one: induction on finite sets is by a smallest counterexample.
LEMMA SmallestMember ==
    ASSUME NEW S, NEW Bad \in SUBSET FiniteSubsetsOf(S), Bad # {}
    PROVE  \E T \in Bad : \A U \in Bad : U \subseteq T => U = T
  <1>1. PICK T \in Bad : \A U \in Bad : <<U, T>> \notin StrictSubsetOrdering(S)
    BY FS_StrictSubsetOrderingWellFounded, WFMin
  <1> QED
    BY <1>1 DEF StrictSubsetOrdering, FiniteSubsetsOf

\* The recursion determines the sum of a finite set.
LEMMA SumsAgree ==
    ASSUME NEW f, NEW S, NEW U, NEW g, NEW h, IsSum(g, f, S), IsSum(h, f, U),
           NEW T, T \subseteq S, T \subseteq U, IsFiniteSet(T)
    PROVE  g[T] = h[T]
  <1> DEFINE Bad == { V \in FiniteSubsetsOf(T) : g[V] # h[V] }
  <1>1. SUFFICES ASSUME Bad # {} PROVE FALSE
    BY DEF FiniteSubsetsOf
  <1>2. PICK V \in Bad : \A W \in Bad : W \subseteq V => W = V
    <2>1. Bad \in SUBSET FiniteSubsetsOf(T)
      OBVIOUS
    <2> HIDE DEF Bad
    <2> QED
      BY <1>1, <2>1, SmallestMember
  <1>3. V \subseteq T /\ IsFiniteSet(V) /\ g[V] # h[V]
    BY <1>2 DEF FiniteSubsetsOf
  <1>4. V # {}
    <2>1. g[{}] = 0 /\ h[{}] = 0
      BY DEF IsSum
    <2> QED
      BY <1>3, <2>1
  <1> DEFINE x == Picked(V)
  <1>5. x \in V
    BY <1>4 DEF Picked
  <1>6. g[V] = f[x] + g[V \ {x}] /\ h[V] = f[x] + h[V \ {x}]
    BY <1>3, <1>4 DEF IsSum
  <1>7. V \ {x} \in FiniteSubsetsOf(T) /\ V \ {x} \subseteq V /\ V \ {x} # V
    BY <1>3, <1>5, FS_RemoveElement DEF FiniteSubsetsOf
  <1>8. g[V \ {x}] = h[V \ {x}]
    BY <1>2, <1>7
  <1> QED
    BY <1>3, <1>6, <1>8

LEMMA SumExists ==
    ASSUME NEW f, NEW S, IsFiniteSet(S)
    PROVE  \E g : IsSum(g, f, S)
  <1> DEFINE Bad == { T \in FiniteSubsetsOf(S) : ~ \E g : IsSum(g, f, T) }
  <1>1. SUFFICES ASSUME Bad # {} PROVE FALSE
    BY DEF FiniteSubsetsOf
  <1>2. PICK T \in Bad : \A U \in Bad : U \subseteq T => U = T
    <2>1. Bad \in SUBSET FiniteSubsetsOf(S)
      OBVIOUS
    <2> HIDE DEF Bad
    <2> QED
      BY <1>1, <2>1, SmallestMember
  <1>3. T \subseteq S /\ IsFiniteSet(T) /\ ~ \E g : IsSum(g, f, T)
    BY <1>2 DEF FiniteSubsetsOf
  <1> DEFINE G(U) == CHOOSE g : IsSum(g, f, U)
  <1>4. ASSUME NEW U \in SUBSET T, U # T
        PROVE  IsSum(G(U), f, U) /\ IsFiniteSet(U)
    <2>1. U \in FiniteSubsetsOf(S)
      BY <1>3, FS_Subset DEF FiniteSubsetsOf
    <2>2. \E g : IsSum(g, f, U)
      BY <1>2, <1>4, <2>1
    <2> QED
      BY <2>1, <2>2 DEF FiniteSubsetsOf
  <1> DEFINE x == Picked(T)
             g == [U \in SUBSET T |->
                      IF U # T THEN G(U)[U]
                      ELSE IF T = {} THEN 0 ELSE f[x] + G(T \ {x})[T \ {x}]]
  <1> HIDE DEF G
  <1>5. ASSUME NEW U \in SUBSET T
        PROVE  g[U] = IF U = {} THEN 0 ELSE f[Picked(U)] + g[U \ {Picked(U)}]
    <2>1. CASE U = T
      <3>1. T # {} => x \in T /\ T \ {x} \in SUBSET T /\ T \ {x} # T
        BY DEF Picked
      <3>2. T # {} => g[T \ {x}] = G(T \ {x})[T \ {x}]
        BY <3>1
      <3> QED
        BY <2>1, <3>2
    <2>2. CASE U # T /\ U = {}
      <3>1. G(U)[U] = 0
        BY <1>4, <2>2 DEF IsSum
      <3> QED
        BY <2>2, <3>1
    <2>3. CASE U # T /\ U # {}
      <3> DEFINE y == Picked(U)
                 V == U \ {y}
      <3>1. y \in U /\ V \subseteq U /\ V \in SUBSET T /\ V # T
        BY <2>3 DEF Picked
      <3>2. G(U)[U] = f[y] + G(U)[V]
        BY <1>4, <2>3 DEF IsSum
      <3>3. G(U)[V] = G(V)[V]
        BY <1>4, <2>3, <3>1, SumsAgree
      <3> QED
        BY <2>3, <3>1, <3>2, <3>3
    <2> QED
      BY <2>1, <2>2, <2>3
  <1>6. IsSum(g, f, T)
    BY <1>5 DEF IsSum
  <1> QED
    BY <1>3, <1>6

\* The sum, one element at a time.
LEMMA SumEmpty ==
    ASSUME NEW f
    PROVE  SumFunctionOnSet(f, {}) = 0
  <1>1. \E g : IsSum(g, f, {})
    BY SumExists, FS_EmptySet
  <1>2. IsSum(CHOOSE g : IsSum(g, f, {}), f, {})
    BY <1>1
  <1>3. (CHOOSE g : IsSum(g, f, {}))[{}] = 0
    BY <1>2 DEF IsSum
  <1> QED
    BY <1>3, SumIs

LEMMA SumPicked ==
    ASSUME NEW f, NEW S, IsFiniteSet(S), S # {}
    PROVE  /\ Picked(S) \in S
           /\ SumFunctionOnSet(f, S) =
                 f[Picked(S)] + SumFunctionOnSet(f, S \ {Picked(S)})
  <1> DEFINE x == Picked(S)
             U == S \ {x}
             G(T) == CHOOSE g : IsSum(g, f, T)
  <1>1. x \in S
    BY DEF Picked
  <1>2. IsFiniteSet(U)
    BY FS_RemoveElement
  <1>3. IsSum(G(S), f, S) /\ IsSum(G(U), f, U)
    BY <1>2, SumExists
  <1>4. SumFunctionOnSet(f, S) = G(S)[S] /\ SumFunctionOnSet(f, U) = G(U)[U]
    BY SumIs
  <1> HIDE DEF G
  <1>5. G(S)[S] = f[x] + G(S)[U]
    BY <1>3 DEF IsSum
  <1>6. G(S)[U] = G(U)[U]
    BY <1>2, <1>3, SumsAgree
  <1> QED
    BY <1>1, <1>4, <1>5, <1>6

\* A sum of integers is an integer.
LEMMA SumIsInt ==
    ASSUME NEW f, NEW S, IsFiniteSet(S), \A x \in S : f[x] \in Int
    PROVE  SumFunctionOnSet(f, S) \in Int
  <1> DEFINE Bad == { T \in FiniteSubsetsOf(S) : SumFunctionOnSet(f, T) \notin Int }
  <1>1. SUFFICES ASSUME Bad # {} PROVE FALSE
    BY DEF FiniteSubsetsOf
  <1>2. PICK T \in Bad : \A U \in Bad : U \subseteq T => U = T
    <2>1. Bad \in SUBSET FiniteSubsetsOf(S)
      OBVIOUS
    <2> HIDE DEF Bad
    <2> QED
      BY <1>1, <2>1, SmallestMember
  <1>3. T \subseteq S /\ IsFiniteSet(T) /\ SumFunctionOnSet(f, T) \notin Int
    BY <1>2 DEF FiniteSubsetsOf
  <1>4. T # {}
    BY <1>3, SumEmpty
  <1> DEFINE x == Picked(T)
  <1>5. x \in T /\ SumFunctionOnSet(f, T) = f[x] + SumFunctionOnSet(f, T \ {x})
    BY <1>3, <1>4, SumPicked
  <1>6. T \ {x} \in FiniteSubsetsOf(S) /\ T \ {x} \subseteq T /\ T \ {x} # T
    BY <1>3, <1>5, FS_RemoveElement DEF FiniteSubsetsOf
  <1>7. SumFunctionOnSet(f, T \ {x}) \in Int
    BY <1>2, <1>6
  <1> QED
    BY <1>3, <1>5, <1>7

\* It does not matter which element is taken away first.
LEMMA SumStep ==
    ASSUME NEW f, NEW S, IsFiniteSet(S), \A x \in S : f[x] \in Int, NEW x \in S
    PROVE  SumFunctionOnSet(f, S) = f[x] + SumFunctionOnSet(f, S \ {x})
  <1> DEFINE Splits(T) ==
                 \A y \in T : SumFunctionOnSet(f, T) = f[y] + SumFunctionOnSet(f, T \ {y})
             Bad == { T \in FiniteSubsetsOf(S) : ~Splits(T) }
  <1>1. SUFFICES ASSUME Bad # {} PROVE FALSE
    BY DEF FiniteSubsetsOf
  <1>2. PICK T \in Bad : \A U \in Bad : U \subseteq T => U = T
    <2>1. Bad \in SUBSET FiniteSubsetsOf(S)
      OBVIOUS
    <2> HIDE DEF Bad
    <2> QED
      BY <1>1, <2>1, SmallestMember
  <1>3. T \subseteq S /\ IsFiniteSet(T) /\ ~Splits(T)
    BY <1>2 DEF FiniteSubsetsOf
  <1>4. PICK y \in T : SumFunctionOnSet(f, T) # f[y] + SumFunctionOnSet(f, T \ {y})
    BY <1>3
  <1> DEFINE z == Picked(T)
  <1>5. z \in T /\ SumFunctionOnSet(f, T) = f[z] + SumFunctionOnSet(f, T \ {z})
    BY <1>3, <1>4, SumPicked
  <1>6. y # z
    BY <1>4, <1>5
  <1> HIDE DEF z
  <1>7. ASSUME NEW u \in T
        PROVE  /\ T \ {u} \in FiniteSubsetsOf(S) /\ IsFiniteSet(T \ {u})
               /\ T \ {u} \subseteq T /\ T \ {u} # T
    BY <1>3, FS_RemoveElement DEF FiniteSubsetsOf
  <1>8. Splits(T \ {y}) /\ Splits(T \ {z})
    <2> HIDE DEF Splits
    <2> QED
      BY <1>2, <1>5, <1>7
  <1> DEFINE rest == (T \ {y}) \ {z}
  <1>9. rest = (T \ {z}) \ {y}
    OBVIOUS
  <1>10. /\ SumFunctionOnSet(f, T \ {y}) = f[z] + SumFunctionOnSet(f, rest)
         /\ SumFunctionOnSet(f, T \ {z}) = f[y] + SumFunctionOnSet(f, rest)
    BY <1>5, <1>6, <1>8, <1>9
  <1>11. SumFunctionOnSet(f, rest) \in Int
    <2>1. IsFiniteSet(rest)
      BY <1>3, FS_Subset
    <2> QED
      BY <1>3, <2>1, SumIsInt
  <1>12. f[y] \in Int /\ f[z] \in Int
    BY <1>3, <1>5
  <1> QED
    BY <1>4, <1>5, <1>10, <1>11, <1>12

\* A sum over fewer elements, of smaller values, is no larger; what remains is
\* not negative.
LEMMA SumMonotone ==
    ASSUME NEW f, NEW g, NEW S, IsFiniteSet(S), \A x \in S : g[x] \in Nat,
           NEW T \in SUBSET S, \A x \in T : f[x] \in Nat /\ f[x] <= g[x]
    PROVE  /\ SumFunctionOnSet(f, T) \in Nat
           /\ SumFunctionOnSet(f, T) <= SumFunctionOnSet(g, S)
  <1> DEFINE Below(U) == /\ SumFunctionOnSet(f, U \cap T) \in Nat
                         /\ SumFunctionOnSet(f, U \cap T) <= SumFunctionOnSet(g, U)
             Bad == { U \in FiniteSubsetsOf(S) : ~Below(U) }
  <1>1. SUFFICES ASSUME Bad # {} PROVE FALSE
    <2>1. S \cap T = T
      OBVIOUS
    <2> QED
      BY <2>1 DEF FiniteSubsetsOf
  <1>2. PICK U \in Bad : \A V \in Bad : V \subseteq U => V = U
    <2>1. Bad \in SUBSET FiniteSubsetsOf(S)
      OBVIOUS
    <2> HIDE DEF Bad
    <2> QED
      BY <1>1, <2>1, SmallestMember
  <1>3. U \subseteq S /\ IsFiniteSet(U) /\ ~Below(U)
    BY <1>2 DEF FiniteSubsetsOf
  <1>4. U # {}
    <2>1. {} \cap T = {}
      OBVIOUS
    <2>2. SumFunctionOnSet(f, {} \cap T) = 0 /\ SumFunctionOnSet(g, {}) = 0
      BY <2>1, SumEmpty
    <2>3. Below({})
      BY <2>2
    <2> HIDE DEF Below
    <2> QED
      BY <1>3, <2>3
  <1>5. PICK x \in U : TRUE
    BY <1>4
  <1> DEFINE V == U \ {x}
  <1>6. V \in FiniteSubsetsOf(S) /\ V \subseteq U /\ V # U /\ IsFiniteSet(V)
    BY <1>3, <1>5, FS_RemoveElement DEF FiniteSubsetsOf
  <1>7. Below(V)
    <2> HIDE DEF Below, V
    <2> QED
      BY <1>2, <1>6
  <1>8. SumFunctionOnSet(g, U) = g[x] + SumFunctionOnSet(g, V)
    BY <1>3, <1>5, SumStep
  <1>9. SumFunctionOnSet(g, V) \in Int /\ g[x] \in Nat
    BY <1>3, <1>5, <1>6, SumIsInt
  <1> DEFINE sumV == SumFunctionOnSet(f, V \cap T)
             sumU == SumFunctionOnSet(f, U \cap T)
  <1>10. sumV \in Nat /\ sumV <= SumFunctionOnSet(g, V)
    BY <1>7
  <1>11. sumU = sumV \/ (x \in T /\ sumU = f[x] + sumV)
    <2>1. CASE x \in T
      <3>1. IsFiniteSet(U \cap T) /\ x \in U \cap T /\ (U \cap T) \ {x} = V \cap T
        BY <1>3, <1>5, <2>1, FS_Subset
      <3>2. \A y \in U \cap T : f[y] \in Int
        OBVIOUS
      <3>3. SumFunctionOnSet(f, U \cap T) = f[x] + SumFunctionOnSet(f, (U \cap T) \ {x})
        BY <3>1, <3>2, SumStep
      <3> QED
        BY <2>1, <3>1, <3>3
    <2>2. CASE x \notin T
      <3>1. U \cap T = V \cap T
        BY <2>2
      <3> QED
        BY <3>1
    <2> QED
      BY <2>1, <2>2
  <1>12. ~(sumU \in Nat /\ sumU <= SumFunctionOnSet(g, U))
    BY <1>3
  <1>13. x \in T => f[x] \in Nat /\ f[x] <= g[x]
    OBVIOUS
  <1> HIDE DEF sumU, sumV
  <1> QED
    BY <1>8, <1>9, <1>10, <1>11, <1>12, <1>13

\* A sum of naturals is a natural.
LEMMA SumIsNat ==
    ASSUME NEW f, NEW S, IsFiniteSet(S), \A x \in S : f[x] \in Nat
    PROVE  SumFunctionOnSet(f, S) \in Nat
  BY SumMonotone

\* A sum is of the values on its set.
LEMMA SumIsOfValues ==
    ASSUME NEW f, NEW g, NEW S, IsFiniteSet(S), \A x \in S : f[x] \in Nat /\ f[x] = g[x]
    PROVE  SumFunctionOnSet(f, S) = SumFunctionOnSet(g, S)
  <1>1. /\ SumFunctionOnSet(f, S) \in Nat
        /\ SumFunctionOnSet(f, S) <= SumFunctionOnSet(g, S)
    BY SumMonotone
  <1>2. /\ SumFunctionOnSet(g, S) \in Nat
        /\ SumFunctionOnSet(g, S) <= SumFunctionOnSet(f, S)
    BY SumMonotone
  <1> QED
    BY <1>1, <1>2
=============================================================================
