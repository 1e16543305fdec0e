------------------------- MODULE BillingLedgerProofs -------------------------
(* The tables and the ledger agree while the transactions of BillingLedger   *)
(* run one after the other, and a cancelled invoice stays cancelled however  *)
(* they overlap, for any number of units, invoices, payments, workers and    *)
(* amounts.                                                                  *)
EXTENDS BillingLedger, FiniteSetTheorems, WellFoundedInduction, TLAPS

\* Two transactions are never open at once.  Crashes, and the clock and drafts
\* between the steps of a transaction, remain.
Serial == \A v, w \in Workers : txn[v] # Idle /\ txn[w] # Idle => v = w

-----------------------------------------------------------------------------
(* Sums.  SumFunctionOnSet chooses a function over the subsets of a set; by  *)
(* the well-foundedness of < on the cardinalities that function exists, and  *)
(* a sum obeys the laws one expects.  Each induction is over a set of        *)
(* subsets, never over an operator.                                          *)

\* A nonempty part of a well-founded set has a minimal element.
LEMMA Minimal ==
  ASSUME NEW R, NEW S, NEW X, IsWellFoundedOn(R, S), X \subseteq S, X # {}
  PROVE  \E n \in X : \A m \in X : ~(<<m, n>> \in R)
  BY WFMin

\* A nonempty set of natural numbers has a least element.
LEMMA LeastNatural ==
  ASSUME NEW X, X \subseteq Nat, X # {}
  PROVE  \E n \in X : \A m \in X : ~(m < n)
<1> DEFINE Less == {p \in Nat \X Nat : p[1] < p[2]}
<1>1. IsWellFoundedOn(Less, Nat)
  BY NatLessThanWellFounded DEF OpToRel
<1>2. PICK n \in X : \A m \in X : ~(<<m, n>> \in Less)
  <2> HIDE DEF Less
  <2> QED BY <1>1, Minimal
<1>3. \A m \in X : <<m, n>> \in Less <=> m < n
  BY SMT
<1> QED BY <1>2, <1>3

\* Induction over the subsets of a finite set, as a fact about sets.
LEMMA SubsetInduction ==
  ASSUME NEW S, IsFiniteSet(S), NEW Good,
         \A T \in SUBSET S : (\A U \in SUBSET T : U # T => U \in Good) => T \in Good
  PROVE  \A T \in SUBSET S : T \in Good
<1> SUFFICES ASSUME NEW T \in SUBSET S, T \notin Good PROVE FALSE
  OBVIOUS
<1> DEFINE Bad == {U \in SUBSET S : U \notin Good}
           Sizes == {n \in Nat : \E U \in Bad : Cardinality(U) = n}
<1>1. \A U \in SUBSET S : IsFiniteSet(U) /\ Cardinality(U) \in Nat
  BY FS_Subset, FS_CardinalityType
<1>2. Sizes # {} /\ Sizes \subseteq Nat
  BY <1>1
<1>4. PICK n \in Sizes : \A m \in Sizes : ~(m < n)
  <2> HIDE DEF Sizes
  <2> QED BY <1>2, LeastNatural
<1>5. PICK U \in Bad : Cardinality(U) = n
  OBVIOUS
<1>6. ASSUME NEW V \in SUBSET U, V # U PROVE V \in Good
  <2>1. Cardinality(V) < Cardinality(U)
    BY <1>1, <1>6, FS_Subset
  <2>2. Cardinality(V) \notin Sizes
    BY <1>4, <1>5, <2>1
  <2> QED BY <1>1, <2>2
<1> QED BY <1>5, <1>6

\* The element a sum takes next.
First(s) == CHOOSE x \in s : TRUE

IsSum(g, f, S) ==
  g = [s \in SUBSET S |-> IF s = {} THEN 0 ELSE f[First(s)] + g[s \ {First(s)}]]

\* The sum over S as the library defines it: the value at S of the one function
\* that adds a chosen element to the sum over the others.
LEMMA SumDef ==
  ASSUME NEW f, NEW S
  PROVE  SumFunctionOnSet(f, S) = (CHOOSE g : IsSum(g, f, S))[S]
  BY DEF SumFunctionOnSet, FoldFunctionOnSet, MapThenFoldSet, IsSum, First

\* Two such functions agree where both are defined.
LEMMA SumsAgree ==
  ASSUME NEW f, NEW S, NEW T, NEW g, NEW h, IsSum(g, f, S), IsSum(h, f, T),
         NEW U \in SUBSET (S \cap T), IsFiniteSet(U)
  PROVE  g[U] = h[U]
<1> DEFINE Good == {V \in SUBSET U : g[V] = h[V]}
<1>1. ASSUME NEW V \in SUBSET U, \A W \in SUBSET V : W # V => W \in Good
      PROVE  V \in Good
  <2>1. CASE V = {}
    BY <2>1 DEF IsSum
  <2>2. CASE V # {}
    <3>1. First(V) \in V
      BY <2>2 DEF First
    <3>2. g[V \ {First(V)}] = h[V \ {First(V)}]
      BY <1>1, <3>1
    <3>3. /\ g[V] = f[First(V)] + g[V \ {First(V)}]
          /\ h[V] = f[First(V)] + h[V \ {First(V)}]
      BY <2>2, <3>1 DEF IsSum
    <3> QED BY <3>2, <3>3
  <2> QED BY <2>1, <2>2
<1>2. U \in Good
  <2> HIDE DEF Good
  <2> QED BY <1>1, SubsetInduction
<1> QED BY <1>2

\* There is one for each finite set.
LEMMA SumExists ==
  ASSUME NEW f, NEW S, IsFiniteSet(S)
  PROVE  \E g : IsSum(g, f, S)
<1> DEFINE Good == {T \in SUBSET S : \E g : IsSum(g, f, T)}
           sum(T) == SumFunctionOnSet(f, T)
<1>1. ASSUME NEW T \in SUBSET S, \A U \in SUBSET T : U # T => U \in Good
      PROVE  T \in Good
  <2> DEFINE h == [s \in SUBSET T |-> IF s = {} THEN 0
                                      ELSE f[First(s)] + sum(s \ {First(s)})]
  <2>1. ASSUME NEW s \in SUBSET T, s # {}
        PROVE  h[s \ {First(s)}] = sum(s \ {First(s)})
    <3> DEFINE u == s \ {First(s)}
               g == CHOOSE g : IsSum(g, f, u)
    <3>1. First(s) \in s
      BY <2>1 DEF First
    <3>2. u \in SUBSET T /\ u # T /\ u \in Good
      BY <1>1, <3>1
    <3>3. IsSum(g, f, u) /\ sum(u) = g[u]
      BY <3>2, SumDef
    <3>4. CASE u = {}
      BY <3>2, <3>3, <3>4 DEF IsSum
    <3>5. CASE u # {}
      <4> DEFINE v == u \ {First(u)}
                 k == CHOOSE k : IsSum(k, f, v)
      <4>1. First(u) \in u
        BY <3>5 DEF First
      <4>2. v \in SUBSET T /\ v # T /\ v \in Good /\ v \in SUBSET (u \cap v)
        BY <1>1, <3>2, <4>1
      <4>3. IsSum(k, f, v) /\ sum(v) = k[v]
        BY <4>2, SumDef
      <4>4. IsFiniteSet(v)
        BY <4>2, FS_Subset
      <4>5. g[v] = k[v]
        <5> HIDE DEF g, k, u, v
        <5> QED BY <3>3, <4>2, <4>3, <4>4, SumsAgree
      <4>6. g[u] = f[First(u)] + g[v]
        BY <3>3, <3>5, <4>1 DEF IsSum
      <4>7. h[u] = f[First(u)] + sum(v)
        BY <3>2, <3>5
      <4> QED BY <3>3, <4>3, <4>5, <4>6, <4>7
    <3> QED BY <3>4, <3>5
  <2>2. IsSum(h, f, T)
    <3> HIDE DEF sum
    <3> QED BY <2>1 DEF IsSum
  <2> QED BY <2>2
<1>2. S \in Good
  <2> HIDE DEF Good
  <2> QED BY <1>1, SubsetInduction
<1> QED BY <1>2

\* A sum is the term of a chosen index plus the sum over the others.
LEMMA SumStep ==
  ASSUME NEW f, NEW S, IsFiniteSet(S)
  PROVE  SumFunctionOnSet(f, S) =
           IF S = {} THEN 0 ELSE f[First(S)] + SumFunctionOnSet(f, S \ {First(S)})
<1> DEFINE g == CHOOSE g : IsSum(g, f, S)
           u == S \ {First(S)}
           h == CHOOSE h : IsSum(h, f, u)
<1>1. IsFiniteSet(u)
  BY FS_Subset
<1>2. IsSum(g, f, S) /\ IsSum(h, f, u)
  BY <1>1, SumExists
<1>3. SumFunctionOnSet(f, S) = g[S] /\ SumFunctionOnSet(f, u) = h[u]
  BY SumDef
<1>4. CASE S = {}
  BY <1>2, <1>3, <1>4 DEF IsSum
<1>5. CASE S # {}
  <2>1. First(S) \in S /\ u \in SUBSET (S \cap u)
    BY <1>5 DEF First
  <2>2. g[u] = h[u]
    <3> HIDE DEF g, h, u
    <3> QED BY <1>1, <1>2, <2>1, SumsAgree
  <2>3. g[S] = f[First(S)] + g[u]
    BY <1>2, <1>5, <2>1 DEF IsSum
  <2> QED BY <1>3, <1>5, <2>2, <2>3
<1> QED BY <1>4, <1>5

\* A sum of integers is an integer.
LEMMA SumType ==
  ASSUME NEW f, NEW S, IsFiniteSet(S), \A x \in S : f[x] \in Int
  PROVE  SumFunctionOnSet(f, S) \in Int
<1> DEFINE Good == {T \in SUBSET S : SumFunctionOnSet(f, T) \in Int}
<1>1. ASSUME NEW T \in SUBSET S, \A U \in SUBSET T : U # T => U \in Good
      PROVE  T \in Good
  <2>1. IsFiniteSet(T)
    BY FS_Subset
  <2>2. CASE T = {}
    BY <2>1, <2>2, SumStep
  <2>3. CASE T # {}
    <3>1. First(T) \in T
      BY <2>3 DEF First
    <3>2. SumFunctionOnSet(f, T \ {First(T)}) \in Int
      BY <1>1, <3>1
    <3> QED BY <2>1, <2>3, <3>1, <3>2, SumStep
  <2> QED BY <2>2, <2>3
<1>2. S \in Good
  <2> HIDE DEF Good
  <2> QED BY <1>1, SubsetInduction
<1> QED BY <1>2

\* It does not matter which element is taken first.
LEMMA SumRemove ==
  ASSUME NEW f, NEW S, IsFiniteSet(S), \A x \in S : f[x] \in Int, NEW a \in S
  PROVE  SumFunctionOnSet(f, S) = f[a] + SumFunctionOnSet(f, S \ {a})
<1> DEFINE sum(T) == SumFunctionOnSet(f, T)
           Good == {T \in SUBSET S : \A b \in T : sum(T) = f[b] + sum(T \ {b})}
<1>1. ASSUME NEW T \in SUBSET S, \A U \in SUBSET T : U # T => U \in Good
      PROVE  T \in Good
  <2> SUFFICES ASSUME NEW b \in T PROVE sum(T) = f[b] + sum(T \ {b})
    OBVIOUS
  <2> DEFINE c == First(T)
  <2>1. c \in T
    BY DEF First
  <2>2. IsFiniteSet(T) /\ IsFiniteSet(T \ {b}) /\ IsFiniteSet(T \ {c})
        /\ IsFiniteSet((T \ {b}) \ {c})
    BY FS_Subset
  <2>3. sum(T) = f[c] + sum(T \ {c})
    BY <2>2, SumStep
  <2>4. CASE b = c
    BY <2>3, <2>4
  <2>5. CASE b # c
    <3>1. sum(T \ {c}) = f[b] + sum((T \ {c}) \ {b})
      BY <1>1, <2>1, <2>5
    <3>2. sum(T \ {b}) = f[c] + sum((T \ {b}) \ {c})
      BY <1>1, <2>1, <2>5
    <3>3. (T \ {b}) \ {c} = (T \ {c}) \ {b}
      OBVIOUS
    <3>4. sum((T \ {b}) \ {c}) \in Int /\ f[b] \in Int /\ f[c] \in Int
      BY <2>1, <2>2, SumType
    <3>5. sum(T \ {c}) = f[b] + sum((T \ {b}) \ {c})
      BY <3>1, <3>3
    <3> QED BY <2>3, <3>2, <3>4, <3>5
  <2> QED BY <2>4, <2>5
<1>2. S \in Good
  <2> HIDE DEF Good
  <2> QED BY <1>1, SubsetInduction
<1> QED BY <1>2

\* A sum over no index is 0.
LEMMA SumEmpty == \A f : SumFunctionOnSet(f, {}) = 0
  BY SumStep, FS_EmptySet

\* An index more adds its term.
LEMMA SumAdd ==
  ASSUME NEW f, NEW S, IsFiniteSet(S), NEW a, a \notin S, \A x \in S \cup {a} : f[x] \in Int
  PROVE  SumFunctionOnSet(f, S \cup {a}) = f[a] + SumFunctionOnSet(f, S)
<1>1. IsFiniteSet(S \cup {a}) /\ (S \cup {a}) \ {a} = S
  BY FS_AddElement
<1> DEFINE T == S \cup {a}
<1>2. SumFunctionOnSet(f, T) = f[a] + SumFunctionOnSet(f, T \ {a})
  <2>1. IsFiniteSet(T) /\ a \in T /\ \A x \in T : f[x] \in Int
    BY <1>1
  <2> HIDE DEF T
  <2> QED BY <2>1, SumRemove
<1> QED BY <1>1, <1>2

\* The sum of a sum, term by term.
LEMMA SumPlus ==
  ASSUME NEW S, IsFiniteSet(S), NEW f, NEW g, NEW h,
         \A x \in S : f[x] \in Int /\ g[x] \in Int /\ h[x] = f[x] + g[x]
  PROVE  SumFunctionOnSet(h, S) = SumFunctionOnSet(f, S) + SumFunctionOnSet(g, S)
<1> DEFINE sum(k, T) == SumFunctionOnSet(k, T)
           Good == {T \in SUBSET S : sum(h, T) = sum(f, T) + sum(g, T)}
<1>1. ASSUME NEW T \in SUBSET S, \A U \in SUBSET T : U # T => U \in Good
      PROVE  T \in Good
  <2>1. IsFiniteSet(T)
    BY FS_Subset
  <2>2. CASE T = {}
    BY <2>2, SumEmpty
  <2>3. CASE T # {}
    <3> DEFINE a == First(T)
               U == T \ {a}
    <3>1. a \in T
      BY <2>3 DEF First
    <3>2. sum(h, U) = sum(f, U) + sum(g, U) /\ IsFiniteSet(U)
      BY <1>1, <2>1, <3>1, FS_Subset
    <3>3. sum(f, U) \in Int /\ sum(g, U) \in Int
      BY <3>2, SumType
    <3>4. \A k : sum(k, T) = k[a] + sum(k, U)
      BY <2>1, <2>3, SumStep
    <3>5. sum(h, T) = h[a] + sum(h, U) /\ sum(f, T) = f[a] + sum(f, U)
          /\ sum(g, T) = g[a] + sum(g, U)
      BY <3>4
    <3>6. h[a] = f[a] + g[a] /\ f[a] \in Int /\ g[a] \in Int
      BY <3>1
    <3> HIDE DEF a, U, sum
    <3>7. sum(h, T) = sum(f, T) + sum(g, T)
      BY <3>2, <3>3, <3>5, <3>6
    <3> QED BY <3>7
  <2> QED BY <2>2, <2>3
<1>2. S \in Good
  <2> HIDE DEF Good
  <2> QED BY <1>1, SubsetInduction
<1> QED BY <1>2

\* A sum of zeros is 0.
LEMMA SumZero ==
  ASSUME NEW S, IsFiniteSet(S), NEW f, \A x \in S : f[x] = 0
  PROVE  SumFunctionOnSet(f, S) = 0
<1>1. SumFunctionOnSet(f, S) = SumFunctionOnSet(f, S) + SumFunctionOnSet(f, S)
  BY SumPlus
<1>2. SumFunctionOnSet(f, S) \in Int
  BY SumType
<1>3. \A n \in Int : n = n + n => n = 0
  OBVIOUS
<1> QED BY <1>1, <1>2, <1>3

\* A sum depends on the values at its indices alone.
LEMMA SumSame ==
  ASSUME NEW S, IsFiniteSet(S), NEW f, NEW g, \A x \in S : f[x] \in Int /\ g[x] = f[x]
  PROVE  SumFunctionOnSet(g, S) = SumFunctionOnSet(f, S)
<1> DEFINE z == [x \in S |-> 0]
<1>1. \A x \in S : f[x] \in Int /\ z[x] \in Int /\ g[x] = f[x] + z[x]
  OBVIOUS
<1>2. SumFunctionOnSet(z, S) = 0
  BY SumZero
<1>3. SumFunctionOnSet(g, S) = SumFunctionOnSet(f, S) + SumFunctionOnSet(z, S)
  <2> HIDE DEF z
  <2> QED BY <1>1, SumPlus
<1>4. SumFunctionOnSet(f, S) \in Int
  BY SumType
<1> QED BY <1>2, <1>3, <1>4

\* Indices whose value is zero may be left out.
LEMMA SumOutside ==
  ASSUME NEW S, IsFiniteSet(S), NEW T \in SUBSET S, NEW f,
         \A x \in S : f[x] \in Int, \A x \in S \ T : f[x] = 0
  PROVE  SumFunctionOnSet(f, S) = SumFunctionOnSet(f, T)
<1> DEFINE Good == {U \in SUBSET S :
                      T \subseteq U => SumFunctionOnSet(f, U) = SumFunctionOnSet(f, T)}
<1>1. ASSUME NEW U \in SUBSET S, \A V \in SUBSET U : V # U => V \in Good
      PROVE  U \in Good
  <2>1. CASE U = T \/ ~(T \subseteq U)
    BY <2>1
  <2>2. CASE U # T /\ T \subseteq U
    <3>1. PICK a \in U : a \notin T
      BY <2>2
    <3>2. SumFunctionOnSet(f, U \ {a}) = SumFunctionOnSet(f, T)
      BY <1>1, <2>2, <3>1
    <3>3. IsFiniteSet(U) /\ IsFiniteSet(T)
      BY FS_Subset
    <3>4. SumFunctionOnSet(f, U) = f[a] + SumFunctionOnSet(f, U \ {a})
      BY <3>3, SumRemove
    <3>5. SumFunctionOnSet(f, T) \in Int
      BY <3>3, SumType
    <3> QED BY <3>1, <3>2, <3>4, <3>5
  <2> QED BY <2>1, <2>2
<1>2. S \in Good
  <2> HIDE DEF Good
  <2> QED BY <1>1, SubsetInduction
<1> QED BY <1>2

\* The image of a finite set is finite.
LEMMA ImageFinite ==
  ASSUME NEW S, IsFiniteSet(S), NEW h
  PROVE  IsFiniteSet({h[k] : k \in S})
<1> DEFINE image == {h[k] : k \in S}
           f == [k \in S |-> h[k]]
<1>1. f \in Surjection(S, image)
  BY Zenon DEF Surjection
<1> QED BY <1>1, FS_Surjection

\* A sum may be taken along an injective numbering of its indices.
LEMMA SumAlong ==
  ASSUME NEW D, IsFiniteSet(D), NEW h, NEW f, NEW g,
         \A k, m \in D : h[k] = h[m] => k = m,
         \A k \in D : f[h[k]] \in Int /\ g[k] = f[h[k]]
  PROVE  SumFunctionOnSet(g, D) = SumFunctionOnSet(f, {h[k] : k \in D})
<1> DEFINE image(T) == {h[k] : k \in T}
           Good == {T \in SUBSET D :
                      SumFunctionOnSet(g, T) = SumFunctionOnSet(f, image(T))}
<1>1. ASSUME NEW T \in SUBSET D, \A U \in SUBSET T : U # T => U \in Good
      PROVE  T \in Good
  <2>1. IsFiniteSet(T) /\ IsFiniteSet(image(T))
    BY FS_Subset, ImageFinite
  <2>2. CASE T = {}
    <3>1. image(T) = {}
      BY <2>2
    <3> QED BY <2>2, <3>1, SumEmpty
  <2>3. CASE T # {}
    <3>1. PICK k \in T : TRUE
      BY <2>3
    <3>2. SumFunctionOnSet(g, T \ {k}) = SumFunctionOnSet(f, image(T \ {k}))
      BY <1>1, <3>1
    <3>3. SumFunctionOnSet(g, T) = g[k] + SumFunctionOnSet(g, T \ {k})
      BY <2>1, SumRemove
    <3>4. image(T \ {k}) = image(T) \ {h[k]} /\ h[k] \in image(T)
      OBVIOUS
    <3>5. \A x \in image(T) : f[x] \in Int
      OBVIOUS
    <3>6. SumFunctionOnSet(f, image(T)) = f[h[k]] + SumFunctionOnSet(f, image(T) \ {h[k]})
      <4> HIDE DEF image
      <4> QED BY <2>1, <3>4, <3>5, SumRemove
    <3> QED BY <3>2, <3>3, <3>4, <3>6
  <2> QED BY <2>2, <2>3
<1>2. D \in Good
  <2> HIDE DEF Good
  <2> QED BY <1>1, SubsetInduction
<1> QED BY <1>2

\* A sum of naturals is a natural that no term exceeds.
LEMMA SumNat ==
  ASSUME NEW S, IsFiniteSet(S), NEW f, \A x \in S : f[x] \in Nat
  PROVE  /\ SumFunctionOnSet(f, S) \in Nat
         /\ \A x \in S : f[x] <= SumFunctionOnSet(f, S)
<1> DEFINE Good == {T \in SUBSET S : SumFunctionOnSet(f, T) \in Nat}
<1>1. ASSUME NEW T \in SUBSET S, \A U \in SUBSET T : U # T => U \in Good
      PROVE  T \in Good
  <2>1. IsFiniteSet(T)
    BY FS_Subset
  <2>2. CASE T = {}
    BY <2>2, SumEmpty
  <2>3. CASE T # {}
    <3>1. First(T) \in T
      BY <2>3 DEF First
    <3>2. SumFunctionOnSet(f, T \ {First(T)}) \in Nat
      BY <1>1, <3>1
    <3>3. f[First(T)] \in Nat
      BY <3>1
    <3> QED BY <2>1, <2>3, <3>2, <3>3, SumStep
  <2> QED BY <2>2, <2>3
<1>2. \A T \in SUBSET S : T \in Good
  <2> HIDE DEF Good
  <2> QED BY <1>1, SubsetInduction
<1>3. ASSUME NEW x \in S PROVE f[x] <= SumFunctionOnSet(f, S)
  <2>1. SumFunctionOnSet(f, S) = f[x] + SumFunctionOnSet(f, S \ {x})
    BY SumRemove
  <2>2. SumFunctionOnSet(f, S \ {x}) \in Nat
    BY <1>2
  <2> QED BY <2>1, <2>2
<1> QED BY <1>2, <1>3

\* Changing one term changes the sum by as much.
LEMMA SumUpdate ==
  ASSUME NEW S, IsFiniteSet(S), NEW a \in S, NEW f, NEW g,
         \A x \in S : f[x] \in Int /\ g[x] \in Int, \A x \in S \ {a} : g[x] = f[x]
  PROVE  SumFunctionOnSet(g, S) = SumFunctionOnSet(f, S) + (g[a] - f[a])
<1>1. IsFiniteSet(S \ {a})
  BY FS_Subset
<1>2. SumFunctionOnSet(g, S \ {a}) = SumFunctionOnSet(f, S \ {a})
  BY <1>1, SumSame
<1>3. /\ SumFunctionOnSet(g, S) = g[a] + SumFunctionOnSet(g, S \ {a})
      /\ SumFunctionOnSet(f, S) = f[a] + SumFunctionOnSet(f, S \ {a})
  BY SumRemove
<1>4. SumFunctionOnSet(f, S \ {a}) \in Int
  BY <1>1, SumType
<1> DEFINE r == SumFunctionOnSet(f, S \ {a})
<1>5. g[a] + r = f[a] + r + (g[a] - f[a])
  <2>1. r \in Int /\ f[a] \in Int /\ g[a] \in Int
    BY <1>4
  <2> HIDE DEF r
  <2> QED BY <2>1
<1> QED BY <1>2, <1>3, <1>5

-----------------------------------------------------------------------------
(* The inductive invariant.  It is stated over the values of the tables, so  *)
(* that what an open transaction will make of them can be said to be good:   *)
(* Commit then has nothing left to show.                                     *)
Tables(inv, pay) ==
  /\ inv \in [Invoices -> InvoiceRow \cup {Absent}]
  /\ pay \in [Payments -> PaymentRow \cup {Absent}]

Fits(row) ==
  /\ row.due = IF row.status = "cancelled" THEN 0 ELSE Total(row) - row.paid
  /\ row.status \in {"draft", "posted", "cancelled"} => row.paid = 0
  /\ row.status = "partially_paid" => row.paid > 0
  /\ row.status \in {"partially_paid", "overdue"} => row.due > 0
  /\ row.status = "paid" => row.due = 0
  /\ row.status = "draft" => row.late = 0
  /\ row.kind = "monthly" => row.current

AllFit(inv) == \A i \in Invoices : Exists(inv[i]) => Fits(inv[i])

Once(inv) ==
  \A i, j \in Invoices :
    /\ Exists(inv[i]) /\ Exists(inv[j])
    /\ inv[i].kind = "monthly" /\ inv[j].kind = "monthly"
    /\ inv[i].status # "cancelled" /\ inv[j].status # "cancelled"
    /\ inv[i].unit = inv[j].unit
    => i = j

AllocOf(pay, i) == [p \in Payments |-> IF pay[p].status = "success" THEN pay[p].alloc[i] ELSE 0]
PaidOf(row) == IF Exists(row) THEN row.paid ELSE 0
PaidIs(inv, pay) ==
  \A i \in Invoices :
    SumFunctionOnSet(AllocOf(pay, i), Payments) = PaidOf(inv[i])

Claim(row, u) ==
  IF Exists(row) THEN IF row.unit = u /\ row.status # "draft" THEN row.due - row.late ELSE 0 ELSE 0
Claims(inv, u) == [i \in Invoices |-> Claim(inv[i], u)]
Advance(row, u) ==
  IF row.status = "success" THEN IF row.unit = u THEN row.advance ELSE 0 ELSE 0
Advances(pay, u) == [p \in Payments |-> Advance(pay[p], u)]
Dues(inv, pay, u) ==
  SumFunctionOnSet(Claims(inv, u), Invoices) - SumFunctionOnSet(Advances(pay, u), Payments)

Good(inv, pay) == Tables(inv, pay) /\ AllFit(inv) /\ Once(inv) /\ PaidIs(inv, pay)

Post == [unit : Units \cup {NoUnit}, delta : Int]
Value(post, u) == IF post.unit = u THEN post.delta ELSE 0
Pending(posts, u) == SumFunctionOnSet([k \in DOMAIN posts |-> Value(posts[k], u)], DOMAIN posts)

Mine(L, u) == {e \in L : e.unit = u}

\* What a transaction will write: whole new rows, or columns other than the one
\* the clock sets, of invoices that are not cancelled; the tables stay good.
Ready(inv, pay, cols, pcols) ==
  /\ DOMAIN cols \subseteq Invoices /\ DOMAIN pcols \subseteq Payments
  /\ \A i \in DOMAIN cols :
       IF Exists(inv[i]) THEN inv[i].status # "cancelled" /\ "past" \notin DOMAIN cols[i]
       ELSE cols[i] \in InvoiceRow
  /\ Good(Write(inv, cols), Write(pay, pcols))

\* With the entries it has yet to make, the ledger is what it will be owed.
Owes(L, inv, pay, t) ==
  \A u \in Units \cup {NoUnit} :
    Balance(u, L) + Pending(t.posts, u)
      = Dues(Write(inv, t.invoices), Write(pay, t.payments), u)

Selected(L, t) ==
  t.row # 0 =>
    /\ t.posts # <<>>
    /\ Mine(L, Head(t.posts).unit) # {}
    /\ t.row = LatestOf(Mine(L, Head(t.posts).unit)).seq

OpenOK(L, inv, pay, t) ==
  /\ t.op # "idle" /\ t.posts \in Seq(Post)
  /\ Ready(inv, pay, t.invoices, t.payments)
  /\ Owes(L, inv, pay, t)
  /\ Selected(L, t)

\* Entries numbered apart, each with the balance of the ones before it.
Chain(S) ==
  /\ IsFiniteSet(S) /\ S \subseteq LedgerRow
  /\ \A e, f \in S : e.seq = f.seq => e = f
  /\ \A e \in S : e.after = Balance(e.unit, {f \in S : f.seq < e.seq}) + e.delta

LedgerOK(L, t) ==
  /\ Chain(L)
  /\ \A e, f \in L : e.by # NoWorker /\ f.by = NoWorker => f.seq < e.seq
  /\ \A e \in L : e.by # NoWorker => t[e.by] # Idle

BooksAgree(L, inv, pay) ==
  \A u \in Units \cup {NoUnit} :
    Balance(u, {e \in L : e.by = NoWorker}) = Dues(inv, pay, u)

Shape(t) ==
  t = [w \in Workers |->
         [op |-> t[w].op, posts |-> t[w].posts, row |-> t[w].row, locks |-> t[w].locks,
          invoices |-> t[w].invoices, payments |-> t[w].payments]]

BillInv ==
  /\ Shape(txn)
  /\ Good(invoice, payment)
  /\ LedgerOK(ledger, txn)
  /\ BooksAgree(ledger, invoice, payment)
  /\ \A w \in Workers : txn[w] # Idle => OpenOK(ledger, invoice, payment, txn[w])
-----------------------------------------------------------------------------
(* Rows                                                                      *)

Columns == {"status", "unit", "number", "kind", "current", "past", "base", "late",
            "paid", "due"}

\* A row of maintenance_invoices is a function of the columns, and is there.
LEMMA RowColumns ==
  ASSUME NEW row \in InvoiceRow
  PROVE  /\ DOMAIN row = Columns
         /\ row = [c \in Columns |-> row[c]]
         /\ Exists(row)
  BY DEF InvoiceRow, Columns, Exists, Status, Payable

\* The mark of an unused id is no row.
LEMMA AbsentRow == ~Exists(Absent) /\ Absent \notin InvoiceRow /\ Absent \notin PaymentRow
  BY DEF Absent, Exists, InvoiceRow, PaymentRow, Status, Payable

\* Writing the columns in which a row differs from the loaded one gives that row.
LEMMA MergeDiff ==
  ASSUME NEW old \in InvoiceRow, NEW new \in InvoiceRow
  PROVE  Merge(Diff(old, new), old) = new
<1>1. DOMAIN old = Columns /\ DOMAIN new = Columns /\ new = [c \in Columns |-> new[c]]
  BY RowColumns
<1>2. DOMAIN Diff(old, new) = {c \in Columns : new[c] # old[c]}
  BY <1>1 DEF Diff
<1>3. \A c \in DOMAIN Diff(old, new) : Diff(old, new)[c] = new[c]
  BY DEF Diff
<1>4. Merge(Diff(old, new), old) = [c \in Columns |-> new[c]]
  BY <1>1, <1>2, <1>3 DEF Merge
<1> QED BY <1>1, <1>4

\* Inserting a row gives the row.
LEMMA MergeWhole ==
  ASSUME NEW row \in InvoiceRow
  PROVE  Merge(row, Absent) = row
<1>1. DOMAIN row = Columns /\ row = [c \in Columns |-> row[c]]
  BY RowColumns
<1>2. DOMAIN Absent = {"status"}
  BY DEF Absent
<1>3. DOMAIN row \cup DOMAIN Absent = Columns
  BY <1>1, <1>2 DEF Columns
<1>4. Merge(row, Absent) = [c \in Columns |-> row[c]]
  BY <1>1, <1>3 DEF Merge
<1> QED BY <1>1, <1>4

\* post_invoice sets the status alone.
LEMMA MergePosted ==
  ASSUME NEW row \in InvoiceRow
  PROVE  Merge([status |-> "posted"], row) = [row EXCEPT !.status = "posted"]
<1> DEFINE new == [row EXCEPT !.status = "posted"]
<1>1. DOMAIN row = Columns /\ row = [c \in Columns |-> row[c]]
  BY RowColumns
<1>2. new \in InvoiceRow
  BY DEF InvoiceRow, Status, Payable
<1>3. new = [c \in Columns |-> new[c]]
  BY <1>2, RowColumns
<1>4. Merge([status |-> "posted"], row) = [c \in Columns |-> new[c]]
  BY <1>1 DEF Merge, Columns
<1> QED BY <1>3, <1>4

\* A row of payments is a function of its columns, and is there.
LEMMA PaymentColumns ==
  ASSUME NEW row \in PaymentRow
  PROVE  /\ DOMAIN row = {"status", "alloc", "advance", "unit"}
         /\ row = [c \in {"status", "alloc", "advance", "unit"} |-> row[c]]
         /\ Exists(row)
  BY DEF PaymentRow, Exists

\* Inserting a payment gives the row.
LEMMA MergePayment ==
  ASSUME NEW row \in PaymentRow
  PROVE  Merge(row, Absent) = row
<1> DEFINE C == {"status", "alloc", "advance", "unit"}
<1>1. DOMAIN row = C /\ row = [c \in C |-> row[c]]
  BY PaymentColumns
<1>2. DOMAIN row \cup DOMAIN Absent = C
  BY <1>1 DEF Absent
<1>3. Merge(row, Absent) = [c \in C |-> row[c]]
  BY <1>1, <1>2 DEF Merge
<1> QED BY <1>1, <1>3

\* refund_payment sets the payment's status alone.
LEMMA MergeRefunded ==
  ASSUME NEW row \in PaymentRow
  PROVE  Merge([status |-> "refunded"], row) = [row EXCEPT !.status = "refunded"]
<1> DEFINE C == {"status", "alloc", "advance", "unit"}
           new == [row EXCEPT !.status = "refunded"]
<1>1. DOMAIN row = C /\ row = [c \in C |-> row[c]]
  BY PaymentColumns
<1>2. new \in PaymentRow
  BY DEF PaymentRow
<1>3. new = [c \in C |-> new[c]]
  BY <1>2, PaymentColumns
<1>4. Merge([status |-> "refunded"], row) = [c \in C |-> new[c]]
  BY <1>1 DEF Merge
<1> QED BY <1>3, <1>4

-----------------------------------------------------------------------------
(* Tables                                                                    *)

\* What an invoice claims of a unit is an integer.
LEMMA ClaimType ==
  ASSUME NEW inv \in [Invoices -> InvoiceRow \cup {Absent}], NEW u
  PROVE  \A i \in Invoices : Claims(inv, u)[i] \in Int /\ Claims(inv, u)[i] = Claim(inv[i], u)
<1> SUFFICES ASSUME NEW i \in Invoices PROVE Claim(inv[i], u) \in Int
  BY DEF Claims
<1>1. CASE inv[i] = Absent
  BY <1>1, AbsentRow DEF Claim
<1>2. CASE inv[i] \in InvoiceRow
  BY <1>2 DEF Claim, InvoiceRow
<1> QED BY <1>1, <1>2

\* What a payment advances to a unit is an integer.
LEMMA AdvanceType ==
  ASSUME NEW pay \in [Payments -> PaymentRow \cup {Absent}], NEW u
  PROVE  \A p \in Payments : Advances(pay, u)[p] \in Int /\ Advances(pay, u)[p] = Advance(pay[p], u)
<1> SUFFICES ASSUME NEW p \in Payments PROVE Advance(pay[p], u) \in Int
  BY DEF Advances
<1>1. CASE pay[p] = Absent
  BY <1>1 DEF Advance, Absent
<1>2. CASE pay[p] \in PaymentRow
  BY <1>2 DEF Advance, PaymentRow
<1> QED BY <1>1, <1>2

\* What a payment allocates to an invoice is a natural number.
LEMMA AllocType ==
  ASSUME NEW pay \in [Payments -> PaymentRow \cup {Absent}], NEW i \in Invoices
  PROVE  \A p \in Payments : AllocOf(pay, i)[p] \in Nat
<1> SUFFICES ASSUME NEW p \in Payments PROVE AllocOf(pay, i)[p] \in Nat
  OBVIOUS
<1>1. CASE pay[p] = Absent
  BY <1>1 DEF AllocOf, Absent
<1>2. CASE pay[p] \in PaymentRow
  BY <1>2 DEF AllocOf, PaymentRow
<1> QED BY <1>1, <1>2

\* The dues of a unit, and the two sums they are made of, are integers.
LEMMA DuesType ==
  ASSUME NEW inv \in [Invoices -> InvoiceRow \cup {Absent}],
         NEW pay \in [Payments -> PaymentRow \cup {Absent}], NEW u
  PROVE  /\ SumFunctionOnSet(Claims(inv, u), Invoices) \in Int
         /\ SumFunctionOnSet(Advances(pay, u), Payments) \in Int
         /\ Dues(inv, pay, u) \in Int
<1>1. SumFunctionOnSet(Claims(inv, u), Invoices) \in Int
  BY ClaimType, FiniteAssumption, SumType
<1>2. SumFunctionOnSet(Advances(pay, u), Payments) \in Int
  BY AdvanceType, FiniteAssumption, SumType
<1> QED BY <1>1, <1>2 DEF Dues

\* A row of an invoice that another state of it may take the place of...
Kept(row, new) ==
  /\ Exists(row) /\ new \in InvoiceRow /\ Fits(new)
  /\ new.unit = row.unit /\ new.kind = row.kind
  /\ new.status # "cancelled" => row.status # "cancelled"

\* ... and one that joins the table, the monthly job's apart.
Joins(row, new) ==
  /\ ~Exists(row) /\ new \in InvoiceRow /\ Fits(new)
  /\ new.kind # "monthly"

Follows(inv, inv2) ==
  /\ inv2 \in [Invoices -> InvoiceRow \cup {Absent}]
  /\ \A i \in Invoices : inv2[i] = inv[i] \/ Kept(inv[i], inv2[i]) \/ Joins(inv[i], inv2[i])

\* Rows that follow the ones of a good table fit, and bill no month twice.
LEMMA FollowsFits ==
  ASSUME NEW inv \in [Invoices -> InvoiceRow \cup {Absent}], NEW inv2,
         AllFit(inv), Once(inv), Follows(inv, inv2)
  PROVE  AllFit(inv2) /\ Once(inv2)
<1>1. AllFit(inv2)
  BY DEF AllFit, Follows, Kept, Joins
<1>2. Once(inv2)
  <2> SUFFICES ASSUME NEW i \in Invoices, NEW j \in Invoices,
                      Exists(inv2[i]), Exists(inv2[j]),
                      inv2[i].kind = "monthly", inv2[j].kind = "monthly",
                      inv2[i].status # "cancelled", inv2[j].status # "cancelled",
                      inv2[i].unit = inv2[j].unit
               PROVE  i = j
    BY DEF Once
  <2>1. \A k \in {i, j} : /\ Exists(inv[k]) /\ inv[k].kind = "monthly"
                          /\ inv[k].status # "cancelled" /\ inv[k].unit = inv2[k].unit
    BY DEF Follows, Kept, Joins
  <2> QED BY <2>1 DEF Once
<1> QED BY <1>1, <1>2

\* A change that leaves every claim and every paid amount alone.
SameAmounts(inv, inv2) ==
  \A i \in Invoices :
    /\ \A u \in Units \cup {NoUnit} : Claim(inv2[i], u) = Claim(inv[i], u)
    /\ PaidOf(inv2[i]) = PaidOf(inv[i])

\* A change of invoices that leaves the amounts alone keeps the tables good and
\* every unit's dues.
LEMMA QuietChange ==
  ASSUME NEW inv, NEW pay, NEW inv2, Good(inv, pay), Follows(inv, inv2),
         SameAmounts(inv, inv2)
  PROVE  /\ Good(inv2, pay)
         /\ \A u \in Units \cup {NoUnit} : Dues(inv2, pay, u) = Dues(inv, pay, u)
<1> USE DEF Good, Tables, SameAmounts
<1>1. AllFit(inv2) /\ Once(inv2)
  BY FollowsFits
<1>2. PaidIs(inv2, pay)
  BY DEF PaidIs
<1>3. inv2 \in [Invoices -> InvoiceRow \cup {Absent}]
  BY DEF Follows
<1>4. ASSUME NEW u \in Units \cup {NoUnit} PROVE Dues(inv2, pay, u) = Dues(inv, pay, u)
  <2>1. Claims(inv2, u) = Claims(inv, u)
    BY DEF Claims
  <2> QED BY <2>1 DEF Dues
<1> QED BY <1>1, <1>2, <1>3, <1>4

-----------------------------------------------------------------------------
(* Ledger entries still to make                                              *)

\* What an entry adds to a unit's balance is an integer.
LEMMA ValueType ==
  ASSUME NEW post \in Post, NEW u
  PROVE  Value(post, u) \in Int
  BY DEF Post, Value

\* Entries to make are finitely many, and come to an integer.
LEMMA PendingType ==
  ASSUME NEW posts \in Seq(Post), NEW u
  PROVE  /\ Pending(posts, u) \in Int
         /\ IsFiniteSet(DOMAIN posts)
         /\ DOMAIN posts = 1..Len(posts)
<1>1. DOMAIN posts = 1..Len(posts) /\ Len(posts) \in Nat
  OBVIOUS
<1>2. IsFiniteSet(DOMAIN posts)
  BY <1>1, FS_Interval
<1>3. \A k \in DOMAIN posts : [m \in DOMAIN posts |-> Value(posts[m], u)][k] \in Int
  BY ValueType
<1> QED BY <1>1, <1>2, <1>3, SumType DEF Pending

\* No entries come to 0.
LEMMA PendingEmpty == \A u : Pending(<<>>, u) = 0
<1>1. DOMAIN <<>> = {}
  OBVIOUS
<1> QED BY <1>1, SumEmpty DEF Pending

\* An entry at the end adds its value.
LEMMA PendingAppend ==
  ASSUME NEW posts \in Seq(Post), NEW x \in Post, NEW u
  PROVE  /\ posts \o <<x>> \in Seq(Post)
         /\ Pending(posts \o <<x>>, u) = Pending(posts, u) + Value(x, u)
<1> DEFINE n == Len(posts)
           more == posts \o <<x>>
           f == [k \in DOMAIN posts |-> Value(posts[k], u)]
           g == [k \in DOMAIN more |-> Value(more[k], u)]
<1>1. more \in Seq(Post) /\ n \in Nat
  OBVIOUS
<1>2. DOMAIN more = (1..n) \cup {n + 1} /\ DOMAIN posts = 1..n
  OBVIOUS
<1>3. more[n + 1] = x /\ \A k \in 1..n : more[k] = posts[k]
  OBVIOUS
<1>4. \A k \in DOMAIN more : g[k] \in Int
  BY <1>1, ValueType
<1>5. IsFiniteSet(1..n) /\ n + 1 \notin 1..n
  BY <1>1, FS_Interval
<1>6. SumFunctionOnSet(g, (1..n) \cup {n + 1}) = g[n + 1] + SumFunctionOnSet(g, 1..n)
  <2> HIDE DEF g, n, more
  <2> QED BY <1>2, <1>4, <1>5, SumAdd
<1>7. SumFunctionOnSet(g, 1..n) = SumFunctionOnSet(f, 1..n)
  <2>1. \A k \in 1..n : f[k] \in Int /\ g[k] = f[k]
    BY <1>2, <1>3, ValueType
  <2> HIDE DEF f, g, n, more
  <2> QED BY <2>1, <1>5, SumSame
<1>8. g[n + 1] = Value(x, u) /\ Value(x, u) \in Int
  BY <1>2, <1>3, ValueType
<1>9. Pending(more, u) = SumFunctionOnSet(g, (1..n) \cup {n + 1})
      /\ Pending(posts, u) = SumFunctionOnSet(f, 1..n)
  <2>1. Pending(more, u) = SumFunctionOnSet(g, DOMAIN more)
    BY DEF Pending
  <2>2. Pending(posts, u) = SumFunctionOnSet(f, DOMAIN posts)
    BY DEF Pending
  <2> HIDE DEF f, g, n, more
  <2> QED BY <2>1, <2>2, <1>2
<1>10. Pending(posts, u) \in Int
  BY PendingType
<1> HIDE DEF f, g, n, more
<1>11. Pending(more, u) = Pending(posts, u) + Value(x, u)
  BY <1>6, <1>7, <1>8, <1>9, <1>10
<1> QED BY <1>1, <1>11 DEF more

\* One entry comes to its value.
LEMMA PendingOne ==
  ASSUME NEW x \in Post, NEW u
  PROVE  <<x>> \in Seq(Post) /\ Pending(<<x>>, u) = Value(x, u)
<1>1. <<>> \in Seq(Post) /\ <<>> \o <<x>> = <<x>>
  OBVIOUS
<1>2. Value(x, u) \in Int
  BY ValueType
<1>3. Pending(<<>> \o <<x>>, u) = Pending(<<>>, u) + Value(x, u)
      /\ <<>> \o <<x>> \in Seq(Post)
  BY <1>1, PendingAppend
<1> QED BY <1>1, <1>2, <1>3, PendingEmpty

\* At most one entry follows.
Few(posts) == posts = <<>> \/ \E x \in Post : posts = <<x>>

\* The entry for an advance, where there is one, adds its value.
LEMMA PendingJoin ==
  ASSUME NEW posts \in Seq(Post), NEW last, Few(last), NEW u
  PROVE  /\ last \in Seq(Post) /\ posts \o last \in Seq(Post)
         /\ Pending(posts \o last, u) = Pending(posts, u) + Pending(last, u)
<1>1. Pending(posts, u) \in Int
  BY PendingType
<1>2. CASE last = <<>>
  <2>1. posts \o last = posts
    BY <1>2
  <2>2. last \in Seq(Post)
    BY <1>2
  <2> QED BY <1>1, <1>2, <2>1, <2>2, PendingEmpty
<1>3. CASE \E x \in Post : last = <<x>>
  <2>1. PICK x \in Post : last = <<x>>
    BY <1>3
  <2> QED BY <2>1, PendingAppend, PendingOne
<1> QED BY <1>2, <1>3 DEF Few

\* The first entry and the others come to what they all come to.
LEMMA PendingHead ==
  ASSUME NEW posts \in Seq(Post), posts # <<>>, NEW u
  PROVE  /\ Head(posts) \in Post /\ Tail(posts) \in Seq(Post)
         /\ Pending(posts, u) = Value(Head(posts), u) + Pending(Tail(posts), u)
<1> DEFINE n == Len(posts)
           rest == Tail(posts)
           D == 1..n
           E == 1..(n - 1)
           f == [k \in DOMAIN posts |-> Value(posts[k], u)]
           g == [k \in DOMAIN rest |-> Value(rest[k], u)]
           h == [k \in DOMAIN rest |-> k + 1]
<1>1. n \in Nat /\ n > 0 /\ DOMAIN posts = D /\ Head(posts) \in Post
      /\ Head(posts) = posts[1] /\ rest \in Seq(Post)
  OBVIOUS
<1>2. DOMAIN rest = E /\ \A k \in E : rest[k] = posts[k + 1]
  OBVIOUS
<1>3. IsFiniteSet(D) /\ IsFiniteSet(E) /\ 1 \in D
  BY <1>1, FS_Interval
<1>4. \A k \in D : f[k] \in Int
  BY <1>1, ValueType
<1>5. \A k \in E : h[k] \in D /\ h[k] = k + 1 /\ h[k] # 1
  BY <1>1, <1>2
<1>6. \A k \in E : f[h[k]] \in Int /\ g[k] = f[h[k]]
  BY <1>5, <1>1, <1>2, <1>4
<1>7. \A k, m \in E : h[k] = h[m] => k = m
  BY <1>5
<1>8. \A m \in D \ {1} : m - 1 \in E /\ h[m - 1] = m
  BY <1>1, <1>2
<1>9. Pending(posts, u) = SumFunctionOnSet(f, DOMAIN posts)
      /\ Pending(rest, u) = SumFunctionOnSet(g, DOMAIN rest)
  BY DEF Pending
<1>10. f[1] = Value(Head(posts), u)
  BY <1>1
<1> HIDE DEF f, g, h, n, rest, D, E
<1>11. SumFunctionOnSet(f, D) = f[1] + SumFunctionOnSet(f, D \ {1})
  BY <1>3, <1>4, SumRemove
<1>12. SumFunctionOnSet(g, E) = SumFunctionOnSet(f, {h[k] : k \in E})
  BY <1>3, <1>6, <1>7, SumAlong
<1>13. {h[k] : k \in E} = D \ {1}
  BY <1>5, <1>8
<1>14. Pending(posts, u) = Value(Head(posts), u) + Pending(rest, u)
  BY <1>1, <1>2, <1>9, <1>10, <1>11, <1>12, <1>13
<1> QED BY <1>1, <1>14 DEF rest

\* Entries made line by line, each for an index of its own, come to the sum of
\* what they say over those indices.
Along(posts, lines, d, u) ==
  /\ \A k \in DOMAIN posts : lines[k] \in Invoices
  /\ \A k, m \in DOMAIN posts : lines[k] = lines[m] => k = m
  /\ \A i \in Invoices : d[i] \in Int
  /\ \A k \in DOMAIN posts : d[lines[k]] = Value(posts[k], u)
  /\ \A i \in Invoices : (\A k \in DOMAIN posts : lines[k] # i) => d[i] = 0

\* Entries made line by line come to the sum over the lines.
LEMMA PendingAlong ==
  ASSUME NEW posts \in Seq(Post), NEW lines, NEW d, NEW u, Along(posts, lines, d, u)
  PROVE  Pending(posts, u) = SumFunctionOnSet(d, Invoices)
<1> USE DEF Along
<1> DEFINE D == DOMAIN posts
           g == [k \in D |-> Value(posts[k], u)]
           range == {lines[k] : k \in D}
<1>1. IsFiniteSet(D)
  BY PendingType
<1>2. SumFunctionOnSet(g, D) = SumFunctionOnSet(d, range)
  <2>1. \A k \in D : d[lines[k]] \in Int /\ g[k] = d[lines[k]]
    OBVIOUS
  <2> HIDE DEF g
  <2> QED BY <2>1, <1>1, SumAlong
<1>3. SumFunctionOnSet(d, Invoices) = SumFunctionOnSet(d, range)
  <2>1. range \in SUBSET Invoices /\ \A i \in Invoices \ range : d[i] = 0
    OBVIOUS
  <2> HIDE DEF range
  <2> QED BY <2>1, FiniteAssumption, SumOutside
<1> QED BY <1>2, <1>3 DEF Pending

-----------------------------------------------------------------------------
(* Ledger entries                                                            *)

\* A nonempty finite set of entries has a latest one.
LEMMA LatestExists ==
  ASSUME NEW S, IsFiniteSet(S), S \subseteq LedgerRow, S # {}
  PROVE  LatestOf(S) \in S /\ \A f \in S : f.seq <= LatestOf(S).seq
<1> DEFINE Top(T) == \E e \in T : \A f \in T : f.seq <= e.seq
           Have == {T \in SUBSET S : T # {} => Top(T)}
<1>1. ASSUME NEW T \in SUBSET S, \A U \in SUBSET T : U # T => U \in Have
      PROVE  T \in Have
  <2>1. SUFFICES ASSUME T # {} PROVE Top(T)
    OBVIOUS
  <2>2. PICK a \in T : TRUE
    BY <2>1
  <2>3. \A f \in T : f.seq \in Nat
    BY DEF LedgerRow
  <2>4. CASE T = {a}
    <3>1. \A f \in T : f.seq <= a.seq
      BY <2>2, <2>3, <2>4
    <3> QED BY <2>2, <3>1
  <2>5. CASE T # {a}
    <3>0. T \ {a} \in Have /\ T \ {a} # {}
      BY <1>1, <2>2, <2>5
    <3>1. PICK b \in T \ {a} : \A f \in T \ {a} : f.seq <= b.seq
      <4>1. Top(T \ {a})
        BY <3>0
      <4> QED BY <4>1
    <3>2. a.seq <= b.seq \/ b.seq <= a.seq
      BY <2>2, <2>3, <3>1
    <3>3. CASE a.seq <= b.seq
      <4>1. \A f \in T : f.seq <= b.seq
        BY <2>3, <3>1, <3>3
      <4> QED BY <3>1, <4>1
    <3>4. CASE b.seq <= a.seq
      <4>1. \A f \in T : f.seq <= a.seq
        BY <2>2, <2>3, <3>1, <3>4
      <4> QED BY <2>2, <4>1
    <3> QED BY <3>2, <3>3, <3>4
  <2> QED BY <2>4, <2>5
<1>2. S \in Have
  <2> HIDE DEF Have
  <2> QED BY <1>1, SubsetInduction
<1>3. \E e \in S : \A f \in S : f.seq <= e.seq
  BY <1>2
<1> QED BY <1>3 DEF LatestOf

\* An entry that no other follows is the latest.
LEMMA LatestIs ==
  ASSUME NEW S, S \subseteq LedgerRow, \A e, f \in S : e.seq = f.seq => e = f,
         NEW e \in S, \A f \in S : f.seq <= e.seq
  PROVE  LatestOf(S) = e
<1>1. LatestOf(S) \in S /\ \A f \in S : f.seq <= LatestOf(S).seq
  BY DEF LatestOf
<1>2. LatestOf(S).seq \in Nat /\ e.seq \in Nat
  BY <1>1 DEF LedgerRow
<1>3. LatestOf(S).seq = e.seq
  BY <1>1, <1>2
<1> QED BY <1>1, <1>3

\* A balance is an integer.
LEMMA BalanceType ==
  ASSUME NEW S, IsFiniteSet(S), S \subseteq LedgerRow, NEW u
  PROVE  Balance(u, S) \in Int
<1> DEFINE mine == {e \in S : e.unit = u}
<1>1. IsFiniteSet(mine) /\ mine \subseteq LedgerRow
  BY FS_Subset
<1>2. mine # {} => LatestOf(mine) \in LedgerRow
  BY <1>1, LatestExists
<1>3. mine # {} => LatestOf(mine).after \in Int
  BY <1>2 DEF LedgerRow
<1> QED BY <1>3 DEF Balance

\* A balance depends on the numbers, units and amounts of the entries alone.
LEMMA BalanceSame ==
  ASSUME NEW S, IsFiniteSet(S), S \subseteq LedgerRow, \A e, f \in S : e.seq = f.seq => e = f,
         NEW T, T \subseteq LedgerRow, \A e, f \in T : e.seq = f.seq => e = f,
         \A e \in S : \E f \in T : f.seq = e.seq /\ f.unit = e.unit /\ f.after = e.after,
         \A f \in T : \E e \in S : f.seq = e.seq /\ f.unit = e.unit /\ f.after = e.after,
         NEW u
  PROVE  Balance(u, S) = Balance(u, T)
<1> DEFINE mine == {e \in S : e.unit = u}
           its == {f \in T : f.unit = u}
<1>1. mine = {} <=> its = {}
  OBVIOUS
<1>2. CASE mine # {}
  <2>1. IsFiniteSet(mine) /\ mine \subseteq LedgerRow
    BY FS_Subset
  <2>2. LatestOf(mine) \in mine /\ \A f \in mine : f.seq <= LatestOf(mine).seq
    BY <1>2, <2>1, LatestExists
  <2> DEFINE e == LatestOf(mine)
  <2>3. PICK f \in its : f.seq = e.seq /\ f.after = e.after
    <3>1. e \in S /\ e.unit = u
      BY <2>2
    <3> HIDE DEF e, mine
    <3> QED BY <3>1
  <2>4. \A g \in its : g.seq <= f.seq
    BY <2>2, <2>3
  <2>5. LatestOf(its) = f
    <3>1. its \subseteq LedgerRow /\ \A g, h \in its : g.seq = h.seq => g = h
      OBVIOUS
    <3> HIDE DEF its
    <3> QED BY <2>4, <3>1, LatestIs
  <2> QED BY <1>1, <1>2, <2>3, <2>5 DEF Balance
<1> QED BY <1>1, <1>2 DEF Balance

\* A new latest entry sets the balance of its unit and of no other.
LEMMA BalanceAdd ==
  ASSUME NEW S, IsFiniteSet(S), S \subseteq LedgerRow, \A e, f \in S : e.seq = f.seq => e = f,
         NEW new \in LedgerRow, \A f \in S : f.seq < new.seq, NEW u
  PROVE  Balance(u, S \cup {new}) = IF u = new.unit THEN new.after ELSE Balance(u, S)
<1> DEFINE mine == {e \in S \cup {new} : e.unit = u}
<1>1. CASE u # new.unit
  <2>1. mine = {e \in S : e.unit = u}
    BY <1>1
  <2> QED BY <1>1, <2>1 DEF Balance
<1>2. CASE u = new.unit
  <2>1. new \in mine /\ mine \subseteq LedgerRow
    BY <1>2
  <2>2. \A f \in S : f.seq \in Nat /\ new.seq \in Nat
    BY DEF LedgerRow
  <2>3. \A f \in mine : f.seq <= new.seq
    <3>1. new.seq \in Nat
      BY DEF LedgerRow
    <3> QED BY <2>2, <3>1
  <2>4. \A e, f \in mine : e.seq = f.seq => e = f
    BY <2>2
  <2>5. LatestOf(mine) = new
    <3> HIDE DEF mine
    <3> QED BY <2>1, <2>3, <2>4, LatestIs
  <2> QED BY <1>2, <2>1, <2>5 DEF Balance
<1> QED BY <1>1, <1>2

\* An entry after all others, with the balance they leave, extends the chain.
LEMMA ChainAdd ==
  ASSUME NEW S, Chain(S), NEW new \in LedgerRow, \A f \in S : f.seq < new.seq,
         new.after = Balance(new.unit, S) + new.delta
  PROVE  Chain(S \cup {new})
<1> DEFINE T == S \cup {new}
           before(R, e) == {f \in R : f.seq < e.seq}
<1>1. \A e \in T : e.seq \in Nat
  BY DEF Chain, LedgerRow
<1>2. IsFiniteSet(T) /\ T \subseteq LedgerRow
  BY FS_AddElement DEF Chain
<1>3. \A e, f \in T : e.seq = f.seq => e = f
  BY <1>1 DEF Chain
<1>4. \A e \in S : before(T, e) = before(S, e)
  BY <1>1
<1>5. before(T, new) = S
  BY <1>1
<1>6. ASSUME NEW e \in T PROVE e.after = Balance(e.unit, before(T, e)) + e.delta
  <2>1. CASE e \in S
    BY <1>4, <2>1 DEF Chain
  <2>2. CASE e = new
    BY <1>5, <2>2
  <2> QED BY <2>1, <2>2
<1> QED BY <1>2, <1>3, <1>6 DEF Chain

\* The first entries of a chain are a chain.
LEMMA ChainPrefix ==
  ASSUME NEW S, Chain(S), NEW T \in SUBSET S,
         \A e \in T : \A f \in S : f.seq < e.seq => f \in T
  PROVE  Chain(T)
<1>1. IsFiniteSet(T)
  BY FS_Subset DEF Chain
<1>2. \A e \in T : {f \in T : f.seq < e.seq} = {f \in S : f.seq < e.seq}
  OBVIOUS
<1> QED BY <1>1, <1>2 DEF Chain

Committed(S, w) == {IF e.by = w THEN [e EXCEPT !.by = NoWorker] ELSE e : e \in S}

\* Committing entries changes neither the chain nor any balance.
LEMMA ChainCommit ==
  ASSUME NEW S, Chain(S), NEW w
  PROVE  /\ Chain(Committed(S, w))
         /\ \A u : Balance(u, Committed(S, w)) = Balance(u, S)
<1> DEFINE c(e) == IF e.by = w THEN [e EXCEPT !.by = NoWorker] ELSE e
           h == [e \in S |-> c(e)]
           T == {h[e] : e \in S}
<1>1. \A e \in S : /\ h[e] \in LedgerRow /\ h[e].seq = e.seq /\ h[e].unit = e.unit
                   /\ h[e].after = e.after /\ h[e].delta = e.delta
  <2> SUFFICES ASSUME NEW e \in S
               PROVE  /\ c(e) \in LedgerRow /\ c(e).seq = e.seq /\ c(e).unit = e.unit
                      /\ c(e).after = e.after /\ c(e).delta = e.delta
    OBVIOUS
  <2>1. e \in LedgerRow
    BY DEF Chain
  <2>2. [e EXCEPT !.by = NoWorker] \in LedgerRow
    BY <2>1 DEF LedgerRow
  <2> QED BY <2>1, <2>2 DEF LedgerRow
<1>2. Committed(S, w) = T
  BY DEF Committed
<1>3. IsFiniteSet(T)
  <2>1. IsFiniteSet(S)
    BY DEF Chain
  <2> HIDE DEF h
  <2> QED BY <2>1, ImageFinite
<1> HIDE DEF h
<1>4. T \subseteq LedgerRow
  BY <1>1
<1>5. \A e \in S : e.seq \in Nat
  BY DEF Chain, LedgerRow
<1>6. \A e, f \in T : e.seq = f.seq => e = f
  BY <1>1 DEF Chain
<1>7. ASSUME NEW u PROVE Balance(u, T) = Balance(u, S)
  <2>1. \A e \in S : \E f \in T : f.seq = e.seq /\ f.unit = e.unit /\ f.after = e.after
    BY <1>1
  <2>2. \A f \in T : \E e \in S : f.seq = e.seq /\ f.unit = e.unit /\ f.after = e.after
    BY <1>1
  <2> HIDE DEF T
  <2>3. Balance(u, S) = Balance(u, T)
    BY <1>4, <1>6, <2>1, <2>2, BalanceSame DEF Chain
  <2> QED BY <2>3
<1>8. ASSUME NEW e \in S
      PROVE  h[e].after = Balance(h[e].unit, {f \in T : f.seq < h[e].seq}) + h[e].delta
  <2> DEFINE A == {f \in S : f.seq < e.seq}
             B == {f \in T : f.seq < h[e].seq}
  <2>1. A \subseteq LedgerRow /\ IsFiniteSet(A) /\ \A x, y \in A : x.seq = y.seq => x = y
    BY FS_Subset DEF Chain
  <2>2. B \subseteq LedgerRow /\ \A x, y \in B : x.seq = y.seq => x = y
    BY <1>4, <1>6
  <2>3. \A x \in A : \E f \in B : f.seq = x.seq /\ f.unit = x.unit /\ f.after = x.after
    BY <1>1
  <2>4. \A f \in B : \E x \in A : f.seq = x.seq /\ f.unit = x.unit /\ f.after = x.after
    BY <1>1
  <2>5. Balance(e.unit, A) = Balance(e.unit, B)
    <3> HIDE DEF A, B, T
    <3> QED BY <2>1, <2>2, <2>3, <2>4, BalanceSame
  <2>6. e.after = Balance(e.unit, A) + e.delta
    BY DEF Chain
  <2> QED BY <1>1, <2>5, <2>6
<1>9. \A f \in T : f.after = Balance(f.unit, {g \in T : g.seq < f.seq}) + f.delta
  BY <1>8
<1> HIDE DEF T
<1> QED BY <1>2, <1>3, <1>4, <1>6, <1>7, <1>9 DEF Chain

-----------------------------------------------------------------------------
(* Steps of an open transaction                                              *)

TxnRow(t) ==
  t = [op |-> t.op, posts |-> t.posts, row |-> t.row, locks |-> t.locks,
       invoices |-> t.invoices, payments |-> t.payments]

\* The table of transactions, one row at a time.
LEMMA TxnShape ==
  ASSUME NEW t
  PROVE  Shape(t) <=> t = [w \in Workers |-> t[w]] /\ \A w \in Workers : TxnRow(t[w])
  BY DEF Shape, TxnRow

\* The invariant of the next state, in terms of that state.
LEMMA InvNext ==
  ASSUME Shape(txn'), Good(invoice', payment'), LedgerOK(ledger', txn'),
         BooksAgree(ledger', invoice', payment'),
         \A w \in Workers : txn'[w] # Idle => OpenOK(ledger', invoice', payment', txn'[w])
  PROVE  BillInv'
  BY DEF BillInv

\* With no transaction open, every entry is committed.
LEMMA AllPosted ==
  ASSUME LedgerOK(ledger, txn), \A w \in Workers : txn[w] = Idle
  PROVE  {e \in ledger : e.by = NoWorker} = ledger
<1>1. \A e \in ledger : e.by \in Workers \cup {NoWorker}
  BY DEF LedgerOK, Chain, LedgerRow
<1> QED BY <1>1 DEF LedgerOK

\* With one open, the uncommitted entries are its own.
LEMMA OwnEntries ==
  ASSUME LedgerOK(ledger, txn), Serial, NEW w \in Workers, txn[w] # Idle
  PROVE  /\ \A e \in ledger : e.by \in {w, NoWorker}
         /\ \A u : Seen(w, u) = Mine(ledger, u)
         /\ {e \in ledger : e.by = NoWorker} = {e \in ledger : e.by # w}
         /\ \A v \in Workers \ {w} : txn[v] = Idle
<1>1. \A v \in Workers \ {w} : txn[v] = Idle
  BY DEF Serial
<1>2. \A e \in ledger : e.by \in Workers \cup {NoWorker}
  BY DEF LedgerOK, Chain, LedgerRow
<1>3. \A e \in ledger : e.by \in {w, NoWorker}
  BY <1>1, <1>2 DEF LedgerOK
<1> QED BY <1>1, <1>3, NoWorkerAssumption DEF Seen, Mine

\* The committed entries are the first ones of the ledger, and a chain.
LEMMA PostedPart ==
  ASSUME NEW L, NEW t, LedgerOK(L, t)
  PROVE  LET P == {e \in L : e.by = NoWorker}
         IN  /\ Chain(P)
             /\ \A e \in P : {f \in P : f.seq < e.seq} = {f \in L : f.seq < e.seq}
<1> DEFINE P == {e \in L : e.by = NoWorker}
<1>1. \A e \in P : \A f \in L : f.seq < e.seq => f \in P
  <2> SUFFICES ASSUME NEW e \in P, NEW f \in L, f.seq < e.seq, f.by # NoWorker
               PROVE  FALSE
    OBVIOUS
  <2>1. e.seq < f.seq
    BY DEF LedgerOK
  <2>2. e.seq \in Nat /\ f.seq \in Nat
    BY DEF LedgerOK, Chain, LedgerRow
  <2> QED BY <2>1, <2>2
<1>2. P \in SUBSET L
  OBVIOUS
<1>3. Chain(P)
  <2> HIDE DEF P
  <2> QED BY <1>1, <1>2, ChainPrefix DEF LedgerOK
<1>4. \A e \in P : {f \in P : f.seq < e.seq} = {f \in L : f.seq < e.seq}
  BY <1>1, <1>2
<1> QED BY <1>3, <1>4

\* SelectLatest keeps the invariant: it notes the latest of the unit's entries.
LEMMA SelectStep ==
  ASSUME BillInv, Serial, NEW w \in Workers, SelectLatest(w)
  PROVE  BillInv'
<1> DEFINE t == txn[w]
           u == Head(t.posts).unit
           n == LatestOf(Mine(ledger, u)).seq
<1>1. /\ t.posts # <<>> /\ Seen(w, u) # {}
      /\ txn' = [txn EXCEPT ![w].row = LatestOf(Seen(w, u)).seq]
      /\ invoice' = invoice /\ payment' = payment /\ ledger' = ledger
  BY DEF SelectLatest
<1>2. t # Idle
  BY <1>1 DEF Idle
<1>3. Seen(w, u) = Mine(ledger, u)
  BY <1>2, OwnEntries DEF BillInv
<1>4. txn = [v \in Workers |-> txn[v]] /\ \A v \in Workers : TxnRow(txn[v])
  BY TxnShape DEF BillInv
<1>5. /\ txn' = [v \in Workers |-> txn'[v]]
      /\ txn'[w] = [op |-> t.op, posts |-> t.posts, row |-> n, locks |-> t.locks,
                    invoices |-> t.invoices, payments |-> t.payments]
      /\ \A v \in Workers \ {w} : txn'[v] = txn[v]
  <2>1. txn' = [txn EXCEPT ![w] = [t EXCEPT !.row = n]]
    BY <1>1, <1>3
  <2> HIDE DEF n
  <2> QED BY <1>4, <2>1 DEF TxnRow
<1> HIDE DEF n
<1>6. Shape(txn')
  <2>1. \A v \in Workers : TxnRow(txn'[v])
    BY <1>4, <1>5 DEF TxnRow
  <2> QED BY <1>5, <2>1, TxnShape
<1>7. txn'[w] # Idle
  BY <1>1, <1>5 DEF Idle
<1>8. LedgerOK(ledger', txn')
  <2>1. \A e \in ledger : e.by \in {w, NoWorker}
    BY <1>2, OwnEntries DEF BillInv
  <2> QED BY <1>1, <1>7, <2>1 DEF BillInv, LedgerOK
<1>9. ASSUME NEW v \in Workers, txn'[v] # Idle
      PROVE  OpenOK(ledger', invoice', payment', txn'[v])
  <2>1. v = w
    BY <1>2, <1>5, <1>9, OwnEntries DEF BillInv
  <2>2. OpenOK(ledger, invoice, payment, t)
    BY <1>2 DEF BillInv
  <2>3. Selected(ledger, txn'[w])
    BY <1>1, <1>3, <1>5 DEF Selected, n
  <2> QED BY <2>1, <2>2, <2>3, <1>1, <1>5 DEF OpenOK, Owes
<1> QED BY <1>1, <1>6, <1>8, <1>9, InvNext DEF BillInv

\* Insert keeps the invariant: the row selected is still the latest of the unit,
\* for nobody else is at work.
LEMMA InsertStep ==
  ASSUME BillInv, Serial, NEW w \in Workers, Insert(w)
  PROVE  BillInv'
<1> DEFINE t == txn[w]
           post == Head(t.posts)
           base == IF t.row = 0 THEN 0 ELSE (CHOOSE e \in ledger : e.seq = t.row).after
           n == IF ledger = {} THEN 1 ELSE LatestOf(ledger).seq + 1
           new == [seq |-> n, unit |-> post.unit, delta |-> post.delta,
                   after |-> base + post.delta, by |-> w]
           locks == IF t.op = "monthly" THEN {} ELSE t.locks \cup ({t.row} \ {0})
<1>1. /\ t.posts # <<>>
      /\ t.row = 0 => Seen(w, post.unit) = {}
      /\ ledger' = ledger \cup {new}
      /\ txn' = [txn EXCEPT ![w] =
                   [op |-> t.op, posts |-> Tail(t.posts), row |-> 0, locks |-> locks,
                    invoices |-> t.invoices, payments |-> t.payments]]
      /\ invoice' = invoice /\ payment' = payment
  BY DEF Insert
<1>2. t # Idle
  BY <1>1 DEF Idle
<1>3. OpenOK(ledger, invoice, payment, t)
  BY <1>2 DEF BillInv
<1>4. post \in Post /\ Tail(t.posts) \in Seq(Post)
      /\ \A u : Pending(t.posts, u) = Value(post, u) + Pending(Tail(t.posts), u)
  BY <1>1, <1>3, PendingHead DEF OpenOK
<1>5. txn = [v \in Workers |-> txn[v]] /\ \A v \in Workers : TxnRow(txn[v])
  BY TxnShape DEF BillInv
<1>6. /\ txn' = [v \in Workers |-> txn'[v]]
      /\ txn'[w] = [op |-> t.op, posts |-> Tail(t.posts), row |-> 0, locks |-> locks,
                    invoices |-> t.invoices, payments |-> t.payments]
      /\ \A v \in Workers \ {w} : txn'[v] = txn[v]
  <2> HIDE DEF locks
  <2> QED BY <1>1, <1>5
<1>7. Chain(ledger) /\ IsFiniteSet(ledger) /\ ledger \subseteq LedgerRow
  BY DEF BillInv, LedgerOK, Chain
<1>8. base = Balance(post.unit, ledger)
  <2>1. Seen(w, post.unit) = Mine(ledger, post.unit)
    BY <1>2, OwnEntries DEF BillInv
  <2>2. CASE t.row = 0
    BY <1>1, <2>1, <2>2 DEF Balance, Mine
  <2>3. CASE t.row # 0
    <3> DEFINE mine == Mine(ledger, post.unit)
               e == LatestOf(mine)
    <3>1. mine # {} /\ t.row = e.seq
      BY <1>3, <2>3 DEF OpenOK, Selected
    <3>2. IsFiniteSet(mine) /\ mine \subseteq LedgerRow /\ mine \subseteq ledger
      BY <1>7, FS_Subset DEF Mine
    <3>3. e \in mine
      <4> HIDE DEF mine
      <4> QED BY <3>1, <3>2, LatestExists
    <3>4. (CHOOSE f \in ledger : f.seq = t.row) = e
      <4> HIDE DEF mine, e
      <4> QED BY <1>7, <3>1, <3>2, <3>3 DEF Chain
    <3>5. base = e.after
      BY <2>3, <3>4
    <3>6. Balance(post.unit, ledger) = e.after
      BY <3>1 DEF Balance, Mine
    <3> QED BY <3>5, <3>6
  <2> QED BY <2>2, <2>3
<1>9. n \in Nat \ {0} /\ \A f \in ledger : f.seq < n
  <2>1. CASE ledger = {}
    BY <2>1
  <2>2. CASE ledger # {}
    <3>1. LatestOf(ledger) \in ledger /\ \A f \in ledger : f.seq <= LatestOf(ledger).seq
      BY <1>7, <2>2, LatestExists
    <3>2. \A f \in ledger : f.seq \in Nat
      BY <1>7 DEF LedgerRow
    <3> QED BY <2>2, <3>1, <3>2
  <2> QED BY <2>1, <2>2
<1>10. new \in LedgerRow
  <2>1. base \in Int
    BY <1>7, <1>8, BalanceType
  <2> HIDE DEF base, n
  <2> QED BY <1>4, <1>9, <2>1 DEF Post, LedgerRow
<1>11. new.seq = n /\ new.unit = post.unit /\ new.delta = post.delta /\ new.by = w
       /\ new.after = Balance(post.unit, ledger) + post.delta
  BY <1>8
<1> HIDE DEF new, base, n, locks, post
<1>12. Chain(ledger')
  BY <1>1, <1>7, <1>9, <1>10, <1>11, ChainAdd
<1>13. w # NoWorker /\ \A e \in ledger : e.by \in {w, NoWorker}
  BY <1>2, OwnEntries, NoWorkerAssumption DEF BillInv
<1>14. \A u : Balance(u, ledger') = IF u = post.unit THEN Balance(u, ledger) + post.delta
                                    ELSE Balance(u, ledger)
  BY <1>1, <1>7, <1>9, <1>10, <1>11, BalanceAdd DEF Chain
<1>15. Shape(txn')
  <2>1. \A v \in Workers : TxnRow(txn'[v])
    BY <1>5, <1>6 DEF TxnRow
  <2> QED BY <1>6, <2>1, TxnShape
<1>16. txn'[w] # Idle
  BY <1>3, <1>6 DEF Idle, OpenOK
<1>17. LedgerOK(ledger', txn')
  <2>1. \A e, f \in ledger' : e.by # NoWorker /\ f.by = NoWorker => f.seq < e.seq
    BY <1>1, <1>9, <1>11, <1>13 DEF BillInv, LedgerOK
  <2>2. \A e \in ledger' : e.by # NoWorker => txn'[e.by] # Idle
    BY <1>1, <1>11, <1>13, <1>16
  <2> QED BY <1>12, <2>1, <2>2 DEF LedgerOK
<1>18. BooksAgree(ledger', invoice', payment')
  <2>1. {e \in ledger' : e.by = NoWorker} = {e \in ledger : e.by = NoWorker}
    BY <1>1, <1>11, <1>13
  <2> QED BY <1>1, <2>1 DEF BillInv, BooksAgree
<1>19. ASSUME NEW v \in Workers, txn'[v] # Idle
       PROVE  OpenOK(ledger', invoice', payment', txn'[v])
  <2>1. v = w
    BY <1>2, <1>6, <1>19, OwnEntries DEF BillInv
  <2>2. ASSUME NEW u \in Units \cup {NoUnit}
        PROVE  Balance(u, ledger') + Pending(Tail(t.posts), u)
                 = Balance(u, ledger) + Pending(t.posts, u)
    <3>1. Balance(u, ledger) \in Int /\ Pending(Tail(t.posts), u) \in Int
      BY <1>4, <1>7, BalanceType, PendingType
    <3>2. post.delta \in Int
      BY <1>4 DEF Post
    <3>3. CASE u = post.unit
      <4>1. Balance(u, ledger') = Balance(u, ledger) + post.delta
            /\ Pending(t.posts, u) = post.delta + Pending(Tail(t.posts), u)
        BY <1>4, <1>14, <3>3 DEF Value
      <4> QED BY <3>1, <3>2, <4>1
    <3>4. CASE u # post.unit
      <4>1. Balance(u, ledger') = Balance(u, ledger)
            /\ Pending(t.posts, u) = 0 + Pending(Tail(t.posts), u)
        BY <1>4, <1>14, <3>4 DEF Value
      <4> QED BY <3>1, <4>1
    <3> QED BY <3>3, <3>4
  <2>3. Owes(ledger', invoice, payment, txn'[w])
    BY <1>3, <1>6, <2>2 DEF OpenOK, Owes
  <2>4. Selected(ledger', txn'[w])
    BY <1>6 DEF Selected
  <2>5. Ready(invoice, payment, t.invoices, t.payments) /\ t.op # "idle"
    BY <1>3 DEF OpenOK
  <2>6. OpenOK(ledger', invoice, payment, txn'[w])
    BY <2>3, <2>4, <2>5, <1>4, <1>6 DEF OpenOK
  <2> QED BY <2>1, <2>6, <1>1
<1> QED BY <1>1, <1>15, <1>17, <1>18, <1>19, InvNext DEF BillInv

\* Committing makes real what the transaction was known to leave.
LEMMA CommitStep ==
  ASSUME BillInv, Serial, NEW w \in Workers, Commit(w)
  PROVE  BillInv'
<1> DEFINE t == txn[w]
<1>1. /\ t # Idle /\ t.posts = <<>>
      /\ invoice' = Write(invoice, t.invoices) /\ payment' = Write(payment, t.payments)
      /\ ledger' = Committed(ledger, w)
      /\ txn' = [txn EXCEPT ![w] = Idle]
  BY DEF Commit, Committed
<1>2. OpenOK(ledger, invoice, payment, t)
  BY <1>1 DEF BillInv
<1>3. Good(invoice', payment')
  BY <1>1, <1>2 DEF OpenOK, Ready
<1>4. txn = [v \in Workers |-> txn[v]] /\ \A v \in Workers : TxnRow(txn[v])
  BY TxnShape DEF BillInv
<1>5. txn' = [v \in Workers |-> txn'[v]] /\ txn'[w] = Idle
      /\ \A v \in Workers \ {w} : txn'[v] = Idle
  BY <1>1, <1>4, OwnEntries DEF BillInv
<1>6. Shape(txn')
  <2>1. \A v \in Workers : TxnRow(txn'[v])
    BY <1>5 DEF TxnRow, Idle
  <2> QED BY <1>5, <2>1, TxnShape
<1>7. Chain(ledger') /\ \A u : Balance(u, ledger') = Balance(u, ledger)
  BY <1>1, ChainCommit DEF BillInv, LedgerOK
<1>8. \A e \in ledger' : e.by = NoWorker
  <2>1. \A e \in ledger : e.by \in {w, NoWorker} /\ e \in LedgerRow
    BY <1>1, OwnEntries DEF BillInv, LedgerOK, Chain
  <2>2. \A e \in ledger : [e EXCEPT !.by = NoWorker].by = NoWorker
    BY <2>1 DEF LedgerRow
  <2> QED BY <1>1, <2>1, <2>2 DEF Committed
<1>9. LedgerOK(ledger', txn')
  BY <1>7, <1>8 DEF LedgerOK
<1>10. BooksAgree(ledger', invoice', payment')
  <2>1. {e \in ledger' : e.by = NoWorker} = ledger'
    BY <1>8
  <2>2. ASSUME NEW u \in Units \cup {NoUnit}
        PROVE  Balance(u, ledger') = Dues(invoice', payment', u)
    <3>1. Balance(u, ledger) + Pending(t.posts, u) = Dues(invoice', payment', u)
      BY <1>1, <1>2 DEF OpenOK, Owes
    <3>2. Pending(t.posts, u) = 0 /\ Balance(u, ledger) \in Int
      BY <1>1, PendingEmpty, BalanceType DEF BillInv, LedgerOK, Chain
    <3> QED BY <1>7, <3>1, <3>2
  <2> QED BY <2>1, <2>2 DEF BooksAgree
<1>11. \A v \in Workers : txn'[v] = Idle
  BY <1>5
<1> QED BY <1>3, <1>6, <1>9, <1>10, <1>11, InvNext

\* Crash keeps the invariant: what is committed is what was there before.
LEMMA CrashStep ==
  ASSUME BillInv, Serial, NEW w \in Workers, Crash(w)
  PROVE  BillInv'
<1> DEFINE P == {e \in ledger : e.by = NoWorker}
<1>1. /\ txn[w] # Idle
      /\ ledger' = {e \in ledger : e.by # w}
      /\ txn' = [txn EXCEPT ![w] = Idle]
      /\ invoice' = invoice /\ payment' = payment
  BY DEF Crash
<1>2. ledger' = P
  BY <1>1, OwnEntries DEF BillInv
<1>3. txn = [v \in Workers |-> txn[v]]
  BY TxnShape DEF BillInv
<1>4. txn' = [v \in Workers |-> txn'[v]] /\ \A v \in Workers : txn'[v] = Idle
  BY <1>1, <1>3, OwnEntries DEF BillInv
<1>5. Shape(txn')
  <2>1. \A v \in Workers : TxnRow(txn'[v])
    BY <1>4 DEF TxnRow, Idle
  <2> QED BY <1>4, <2>1, TxnShape
<1>6. Chain(P)
  BY PostedPart DEF BillInv
<1>7. LedgerOK(ledger', txn')
  BY <1>2, <1>6 DEF LedgerOK
<1>8. BooksAgree(ledger', invoice', payment')
  <2>1. {e \in P : e.by = NoWorker} = P
    OBVIOUS
  <2> QED BY <1>1, <1>2, <2>1 DEF BillInv, BooksAgree
<1> QED BY <1>1, <1>4, <1>5, <1>7, <1>8, InvNext DEF BillInv

-----------------------------------------------------------------------------
(* A draft is created, an invoice falls due                                  *)

\* What writing columns makes of each row.
LEMMA WriteAt ==
  ASSUME NEW table, NEW cols
  PROVE  /\ Write(table, cols) = [x \in DOMAIN table |-> Write(table, cols)[x]]
         /\ \A x \in DOMAIN table : Write(table, cols)[x]
              = IF x \in DOMAIN cols THEN Merge(cols[x], table[x]) ELSE table[x]
  BY DEF Write

IsNew(row, u, kind, status, amount) ==
  /\ row \in InvoiceRow /\ Fits(row)
  /\ row.unit = u /\ row.kind = kind /\ row.status = status /\ row.paid = 0
  /\ row.due = amount /\ row.late = 0 /\ row.past = FALSE
  /\ Total(row) = amount

\* The columns of a new invoice.
LEMMA NewRow ==
  ASSUME NEW u \in Units, NEW kind \in {"manual", "penalty", "monthly"},
         NEW status \in {"draft", "posted"}, NEW amount \in Totals, NEW current \in BOOLEAN,
         NEW n \in Nat, kind = "monthly" => current
  PROVE  IsNew(NewInvoice(u, kind, status, amount, current, n), u, kind, status, amount)
<1>1. amount \in Int
  BY AmountsAssumption
<1> DEFINE row == NewInvoice(u, kind, status, amount, current, n)
<1>2. row = [status |-> status, unit |-> u, number |-> n, kind |-> kind, current |-> current,
             past |-> FALSE, base |-> amount, late |-> 0, paid |-> 0, due |-> amount]
  BY DEF NewInvoice
<1>3. row \in InvoiceRow
  BY <1>1, <1>2 DEF InvoiceRow, Status, Payable
<1>4. /\ row.unit = u /\ row.kind = kind /\ row.status = status /\ row.paid = 0
      /\ row.due = amount /\ row.late = 0 /\ row.past = FALSE /\ row.current = current
      /\ row.base = amount
  BY <1>2
<1> HIDE DEF row
<1>5. Total(row) = amount
  BY <1>1, <1>4 DEF Total
<1>6. Fits(row)
  BY <1>1, <1>4, <1>5 DEF Fits
<1> QED BY <1>3, <1>4, <1>5, <1>6 DEF row, IsNew

\* Invoices are numbered from 1.
LEMMA NumberType == Number \in Nat
<1>1. IsFiniteSet(Recorded)
  BY FiniteAssumption, FS_Subset DEF Recorded
<1> QED BY <1>1, FS_CardinalityType DEF Number

\* What a step between two steps of a transaction does to the tables, it does to
\* those the transaction will leave.
LEMMA QuietStep ==
  ASSUME BillInv, Serial, UNCHANGED <<payment, ledger, txn>>,
         Good(invoice', payment),
         \A u \in Units \cup {NoUnit} : Dues(invoice', payment, u) = Dues(invoice, payment, u),
         \A w \in Workers : txn[w] # Idle =>
           LET cols == txn[w].invoices
               pcols == txn[w].payments
           IN  /\ Ready(invoice', payment, cols, pcols)
               /\ \A u \in Units \cup {NoUnit} :
                    Dues(Write(invoice', cols), Write(payment, pcols), u)
                      = Dues(Write(invoice, cols), Write(payment, pcols), u)
  PROVE  BillInv'
<1>1. payment' = payment /\ ledger' = ledger /\ txn' = txn
  OBVIOUS
<1>2. BooksAgree(ledger', invoice', payment')
  BY <1>1 DEF BillInv, BooksAgree
<1>3. ASSUME NEW w \in Workers, txn'[w] # Idle
      PROVE  OpenOK(ledger', invoice', payment', txn'[w])
  <2>1. OpenOK(ledger, invoice, payment, txn[w])
    BY <1>1, <1>3 DEF BillInv
  <2>2. Owes(ledger, invoice', payment, txn[w])
    BY <1>1, <1>3, <2>1 DEF OpenOK, Owes
  <2> QED BY <1>1, <1>3, <2>1, <2>2 DEF OpenOK
<1> QED BY <1>1, <1>2, <1>3, InvNext DEF BillInv

\* CreateInvoice keeps the invariant: a new draft is in nobody's way.
LEMMA CreateStep ==
  ASSUME BillInv, Serial, CreateInvoice
  PROVE  BillInv'
<1>1. PICK i \in Fresh, u \in Units, amount \in Totals, current \in BOOLEAN :
        /\ invoice' = [invoice EXCEPT ![i] =
                         NewInvoice(u, "manual", "draft", amount, current, Number)]
        /\ UNCHANGED <<payment, ledger, txn>>
  BY DEF CreateInvoice
<1> DEFINE row == NewInvoice(u, "manual", "draft", amount, current, Number)
<1>2. row \in InvoiceRow /\ Fits(row) /\ row.kind = "manual" /\ row.status = "draft"
      /\ row.paid = 0
  <2>1. IsNew(row, u, "manual", "draft", amount)
    BY NewRow, NumberType
  <2> HIDE DEF row
  <2> QED BY <2>1 DEF IsNew
<1>3. Exists(row)
  BY <1>2, RowColumns
<1> HIDE DEF row
<1>4. i \in Invoices /\ ~Exists(invoice[i]) /\ i \notin Inserting
  BY DEF Fresh
<1>5. invoice \in [Invoices -> InvoiceRow \cup {Absent}]
  BY DEF BillInv, Good, Tables
<1>6. ASSUME NEW inv, NEW pay, Good(inv, pay), ~Exists(inv[i]),
             NEW inv2, inv2 = [inv EXCEPT ![i] = row]
      PROVE  /\ Good(inv2, pay)
             /\ \A v \in Units \cup {NoUnit} : Dues(inv2, pay, v) = Dues(inv, pay, v)
  <2>1. inv \in [Invoices -> InvoiceRow \cup {Absent}]
    BY <1>6 DEF Good, Tables
  <2>2. inv2 \in [Invoices -> InvoiceRow \cup {Absent}]
        /\ inv2[i] = row /\ \A j \in Invoices \ {i} : inv2[j] = inv[j]
    BY <1>2, <1>4, <1>6, <2>1
  <2>3. Follows(inv, inv2)
    BY <1>2, <1>6, <2>2 DEF Follows, Joins
  <2>4. SameAmounts(inv, inv2)
    BY <1>2, <1>3, <1>6, <2>2 DEF SameAmounts, Claim, PaidOf
  <2> QED BY <1>6, <2>3, <2>4, QuietChange
<1>7. ASSUME NEW w \in Workers, txn[w] # Idle
      PROVE  LET cols == txn[w].invoices
                 pcols == txn[w].payments
             IN  /\ Ready(invoice', payment, cols, pcols)
                 /\ \A v \in Units \cup {NoUnit} :
                      Dues(Write(invoice', cols), Write(payment, pcols), v)
                        = Dues(Write(invoice, cols), Write(payment, pcols), v)
  <2> DEFINE cols == txn[w].invoices
             pcols == txn[w].payments
             inv == Write(invoice, cols)
             inv2 == Write(invoice', cols)
  <2>1. Ready(invoice, payment, cols, pcols)
    BY <1>7 DEF BillInv, OpenOK
  <2>2. i \notin DOMAIN cols
    BY <1>4 DEF Inserting
  <2>3. DOMAIN invoice = Invoices /\ DOMAIN invoice' = Invoices
        /\ invoice'[i] = row /\ \A j \in Invoices \ {i} : invoice'[j] = invoice[j]
    BY <1>1, <1>4, <1>5 DEF row
  <2>4. inv2 = [inv EXCEPT ![i] = row] /\ inv[i] = invoice[i]
    BY <1>4, <2>2, <2>3 DEF Write
  <2>5. Good(inv, Write(payment, pcols)) /\ ~Exists(inv[i])
    BY <1>4, <2>1, <2>4 DEF Ready
  <2>6. /\ Good(inv2, Write(payment, pcols))
        /\ \A v \in Units \cup {NoUnit} :
             Dues(inv2, Write(payment, pcols), v) = Dues(inv, Write(payment, pcols), v)
    <3> HIDE DEF inv, inv2, pcols
    <3> QED BY <1>6, <2>4, <2>5
  <2>7. Ready(invoice', payment, cols, pcols)
    BY <2>1, <2>2, <2>3, <2>6 DEF Ready
  <2> QED BY <2>6, <2>7
<1>8. /\ Good(invoice', payment)
      /\ \A v \in Units \cup {NoUnit} : Dues(invoice', payment, v) = Dues(invoice, payment, v)
  <2>1. Good(invoice, payment) /\ invoice' = [invoice EXCEPT ![i] = row]
    BY <1>1 DEF BillInv, row
  <2> QED BY <1>4, <1>6, <2>1
<1> QED BY <1>1, <1>7, <1>8, QuietStep

\* The clock changes no amount and no status of a row.
LEMMA PastRow ==
  ASSUME NEW row \in InvoiceRow, Fits(row)
  PROVE  LET new == [row EXCEPT !.past = TRUE]
         IN  /\ Kept(row, new) /\ new.paid = row.paid /\ new.status = row.status
             /\ \A u : Claim(new, u) = Claim(row, u)
<1> DEFINE new == [row EXCEPT !.past = TRUE]
<1>1. new \in InvoiceRow
  BY DEF InvoiceRow
<1>2. /\ new.status = row.status /\ new.unit = row.unit /\ new.kind = row.kind
      /\ new.current = row.current /\ new.base = row.base /\ new.late = row.late
      /\ new.paid = row.paid /\ new.due = row.due
  BY DEF InvoiceRow
<1>3. Exists(row) /\ Exists(new)
  BY <1>1, RowColumns
<1> HIDE DEF new
<1>4. Fits(new)
  BY <1>2 DEF Fits, Total
<1>5. \A u : Claim(new, u) = Claim(row, u)
  BY <1>2, <1>3 DEF Claim
<1> QED BY <1>1, <1>2, <1>3, <1>4, <1>5 DEF Kept, new

\* FallsDue keeps the invariant, under an open transaction too: what it will
\* write leaves the clock's column alone.
LEMMA FallsDueStep ==
  ASSUME BillInv, Serial, NEW i \in Invoices, FallsDue(i)
  PROVE  BillInv'
<1>1. /\ Exists(invoice[i])
      /\ invoice' = [invoice EXCEPT ![i].past = TRUE]
      /\ UNCHANGED <<payment, ledger, txn>>
  BY DEF FallsDue
<1> DEFINE moved(row) == [row EXCEPT !.past = TRUE]
<1>2. invoice \in [Invoices -> InvoiceRow \cup {Absent}]
  BY DEF BillInv, Good, Tables
<1>3. invoice[i] \in InvoiceRow
  BY <1>1, <1>2, AbsentRow
<1>4. ASSUME NEW inv, NEW pay, Good(inv, pay), inv[i] \in InvoiceRow,
             NEW inv2, inv2 = [inv EXCEPT ![i] = moved(inv[i])]
      PROVE  /\ Good(inv2, pay)
             /\ \A v \in Units \cup {NoUnit} : Dues(inv2, pay, v) = Dues(inv, pay, v)
  <2>1. inv \in [Invoices -> InvoiceRow \cup {Absent}] /\ Fits(inv[i]) /\ Exists(inv[i])
    BY <1>4, RowColumns DEF Good, Tables, AllFit
  <2>2. Kept(inv[i], moved(inv[i])) /\ moved(inv[i]).paid = inv[i].paid
        /\ \A v : Claim(moved(inv[i]), v) = Claim(inv[i], v)
    BY <1>4, <2>1, PastRow
  <2> DEFINE row == moved(inv[i])
  <2>3. row \in InvoiceRow /\ Exists(row)
    BY <2>2, RowColumns DEF Kept
  <2> HIDE DEF row
  <2>4. inv2 = [inv EXCEPT ![i] = row]
    BY <1>4 DEF row
  <2>5. inv2 \in [Invoices -> InvoiceRow \cup {Absent}]
        /\ inv2[i] = row /\ \A j \in Invoices \ {i} : inv2[j] = inv[j]
    BY <2>1, <2>3, <2>4
  <2>6. Follows(inv, inv2)
    BY <2>2, <2>5 DEF Follows, row
  <2>7. SameAmounts(inv, inv2)
    BY <2>1, <2>2, <2>3, <2>5 DEF SameAmounts, PaidOf, row
  <2> HIDE DEF moved
  <2> QED BY <1>4, <2>6, <2>7, QuietChange
<1>5. invoice' = [invoice EXCEPT ![i] = moved(invoice[i])]
  BY <1>1
<1>6. /\ Good(invoice', payment)
      /\ \A v \in Units \cup {NoUnit} : Dues(invoice', payment, v) = Dues(invoice, payment, v)
  <2>1. Good(invoice, payment)
    BY DEF BillInv
  <2> HIDE DEF moved
  <2> QED BY <1>3, <1>4, <1>5, <2>1
<1>7. ASSUME NEW w \in Workers, txn[w] # Idle
      PROVE  LET cols == txn[w].invoices
                 pcols == txn[w].payments
             IN  /\ Ready(invoice', payment, cols, pcols)
                 /\ \A v \in Units \cup {NoUnit} :
                      Dues(Write(invoice', cols), Write(payment, pcols), v)
                        = Dues(Write(invoice, cols), Write(payment, pcols), v)
  <2> DEFINE cols == txn[w].invoices
             pcols == txn[w].payments
             inv == Write(invoice, cols)
             inv2 == Write(invoice', cols)
             row == moved(invoice[i])
  <2>1. Ready(invoice, payment, cols, pcols)
    BY <1>7 DEF BillInv, OpenOK
  <2>2. row \in InvoiceRow /\ row.status = invoice[i].status
        /\ \A c \in Columns \ {"past"} : row[c] = invoice[i][c]
    <3>1. row \in InvoiceRow
      BY <1>3 DEF InvoiceRow
    <3>2. DOMAIN invoice[i] = Columns
      BY <1>3, RowColumns
    <3> QED BY <3>1, <3>2 DEF Columns
  <2>3. DOMAIN row = Columns /\ DOMAIN invoice[i] = Columns /\ row["past"] = TRUE
    <3>1. DOMAIN row = Columns /\ DOMAIN invoice[i] = Columns
      BY <1>3, <2>2, RowColumns
    <3> QED BY <3>1 DEF Columns
  <2> HIDE DEF row
  <2>4. DOMAIN invoice = Invoices /\ DOMAIN invoice' = Invoices
        /\ invoice'[i] = row /\ \A j \in Invoices \ {i} : invoice'[j] = invoice[j]
    BY <1>2, <1>5 DEF row
  <2>5. Good(inv, Write(payment, pcols)) /\ DOMAIN inv = Invoices
    BY <2>1, <2>4 DEF Ready, Write
  <2>6. inv[i] \in InvoiceRow
    <3>1. inv[i] \in InvoiceRow \cup {Absent}
      BY <2>5 DEF Good, Tables
    <3>2. DOMAIN inv[i] # {"status"}
      BY <2>3, <2>4 DEF Write, Merge, Columns
    <3> QED BY <3>1, <3>2 DEF Absent
  <2>7. inv2[i] = moved(inv[i])
    <3>1. CASE i \notin DOMAIN cols
      <4>1. inv2[i] = row /\ inv[i] = invoice[i]
        BY <2>4, <3>1 DEF Write
      <4> QED BY <4>1 DEF row
    <3>2. CASE i \in DOMAIN cols
      <4>1. inv2[i] = Merge(cols[i], row) /\ inv[i] = Merge(cols[i], invoice[i])
        BY <2>4, <3>2 DEF Write
      <4>2. "past" \notin DOMAIN cols[i]
        BY <1>1, <2>1, <3>2 DEF Ready
      <4>3. DOMAIN inv[i] = Columns /\ DOMAIN inv[i] = DOMAIN cols[i] \cup Columns
        BY <2>3, <2>6, <4>1, RowColumns DEF Merge
      <4>4. Merge(cols[i], row) = [c \in Columns |-> IF c \in DOMAIN cols[i] THEN cols[i][c]
                                                     ELSE row[c]]
        BY <2>3, <4>3 DEF Merge
      <4>5. inv[i] = [c \in Columns |-> IF c \in DOMAIN cols[i] THEN cols[i][c]
                                        ELSE invoice[i][c]]
        BY <2>3, <4>1, <4>3 DEF Merge
      <4>6. moved(inv[i]) = [c \in Columns |-> IF c = "past" THEN TRUE ELSE inv[i][c]]
        BY <4>5 DEF Columns
      <4>7. \A c \in Columns : (IF c \in DOMAIN cols[i] THEN cols[i][c] ELSE row[c])
                                 = (IF c = "past" THEN TRUE ELSE inv[i][c])
        BY <2>2, <2>3, <4>2, <4>5
      <4> HIDE DEF moved
      <4> QED BY <4>1, <4>4, <4>6, <4>7
    <3> QED BY <3>1, <3>2
  <2>8. inv2 = [inv EXCEPT ![i] = moved(inv[i])]
    <3>1. \A j \in Invoices \ {i} : inv2[j] = inv[j]
      BY <2>4 DEF Write
    <3>2. inv2 = [j \in Invoices |-> inv2[j]] /\ inv = [j \in Invoices |-> inv[j]]
      BY <2>4 DEF Write
    <3> HIDE DEF inv, inv2, moved
    <3> QED BY <2>7, <3>1, <3>2
  <2>9. /\ Good(inv2, Write(payment, pcols))
        /\ \A v \in Units \cup {NoUnit} :
             Dues(inv2, Write(payment, pcols), v) = Dues(inv, Write(payment, pcols), v)
    <3> HIDE DEF inv, inv2, pcols, moved
    <3> QED BY <1>4, <2>5, <2>6, <2>8
  <2>10. \A j \in Invoices : Exists(invoice'[j]) = Exists(invoice[j])
                             /\ invoice'[j].status = invoice[j].status
    BY <2>2, <2>4 DEF Exists
  <2>11. \A j \in DOMAIN cols :
           IF Exists(invoice'[j])
           THEN invoice'[j].status # "cancelled" /\ "past" \notin DOMAIN cols[j]
           ELSE cols[j] \in InvoiceRow
    BY <2>1, <2>10 DEF Ready
  <2>12. Ready(invoice', payment, cols, pcols)
    BY <2>1, <2>9, <2>11 DEF Ready
  <2> QED BY <2>9, <2>12
<1> QED BY <1>1, <1>6, <1>7, QuietStep

-----------------------------------------------------------------------------
(* Transactions that begin                                                   *)

\* What a handler lays out: entries that come to what its rows change in dues.
Planned(posts, cols, pcols) ==
  /\ posts \in Seq(Post)
  /\ Ready(invoice, payment, cols, pcols)
  /\ \A u \in Units \cup {NoUnit} :
       Dues(Write(invoice, cols), Write(payment, pcols), u)
         = Dues(invoice, payment, u) + Pending(posts, u)

\* A handler whose entries come to what its rows change in the dues keeps the
\* invariant.
LEMMA BeginStep ==
  ASSUME BillInv, Serial', NEW w \in Workers, NEW op, op # "idle",
         NEW posts, NEW cols, NEW pcols,
         Begin(w, op, posts, cols, pcols), Planned(posts, cols, pcols)
  PROVE  BillInv'
<1> DEFINE t == [op |-> op, posts |-> posts, row |-> 0, locks |-> {},
                 invoices |-> cols, payments |-> pcols]
<1>1. /\ txn[w] = Idle /\ txn' = [txn EXCEPT ![w] = t]
      /\ invoice' = invoice /\ payment' = payment /\ ledger' = ledger
  BY DEF Begin
<1>2. txn = [v \in Workers |-> txn[v]] /\ \A v \in Workers : TxnRow(txn[v])
  BY TxnShape DEF BillInv
<1> HIDE DEF t
<1>3. txn' = [v \in Workers |-> txn'[v]] /\ txn'[w] = t
      /\ \A v \in Workers \ {w} : txn'[v] = txn[v]
  BY <1>1, <1>2
<1>4. TxnRow(t) /\ t # Idle /\ t.op = op /\ t.posts = posts /\ t.row = 0
      /\ t.invoices = cols /\ t.payments = pcols
  BY DEF t, Idle, TxnRow
<1>5. \A v \in Workers : txn[v] = Idle
  BY <1>1, <1>3, <1>4 DEF Serial
<1>6. Shape(txn')
  <2>1. \A v \in Workers : TxnRow(txn'[v])
    BY <1>2, <1>3, <1>4
  <2> QED BY <1>3, <2>1, TxnShape
<1>7. {e \in ledger : e.by = NoWorker} = ledger
  BY <1>5, AllPosted DEF BillInv
<1>8. LedgerOK(ledger', txn')
  BY <1>1, <1>7 DEF BillInv, LedgerOK
<1>9. Owes(ledger, invoice, payment, t)
  <2>1. \A u \in Units \cup {NoUnit} : Balance(u, ledger) = Dues(invoice, payment, u)
    BY <1>7 DEF BillInv, BooksAgree
  <2> QED BY <1>4, <2>1 DEF Planned, Owes
<1>10. OpenOK(ledger, invoice, payment, t)
  BY <1>4, <1>9 DEF Planned, OpenOK, Selected
<1>11. ASSUME NEW v \in Workers, txn'[v] # Idle
       PROVE  OpenOK(ledger', invoice', payment', txn'[v])
  BY <1>1, <1>3, <1>5, <1>10, <1>11
<1> QED BY <1>1, <1>6, <1>8, <1>11, InvNext DEF BillInv

\* A transaction that leaves the payments and every paid amount alone.
LEMMA InvoicesOnly ==
  ASSUME BillInv, NEW posts \in Seq(Post), NEW cols, DOMAIN cols \subseteq Invoices,
         \A i \in DOMAIN cols :
           IF Exists(invoice[i])
           THEN invoice[i].status # "cancelled" /\ "past" \notin DOMAIN cols[i]
           ELSE cols[i] \in InvoiceRow,
         Follows(invoice, Write(invoice, cols)),
         \A i \in DOMAIN cols : PaidOf(Write(invoice, cols)[i]) = PaidOf(invoice[i]),
         \A u \in Units \cup {NoUnit} :
           SumFunctionOnSet(Claims(Write(invoice, cols), u), Invoices)
             = SumFunctionOnSet(Claims(invoice, u), Invoices) + Pending(posts, u)
  PROVE  Planned(posts, cols, Nothing)
<1> DEFINE inv == Write(invoice, cols)
<1>1. invoice \in [Invoices -> InvoiceRow \cup {Absent}]
      /\ payment \in [Payments -> PaymentRow \cup {Absent}]
  BY DEF BillInv, Good, Tables
<1>2. DOMAIN Nothing = {} /\ Write(payment, Nothing) = payment
  BY <1>1 DEF Nothing, Write
<1>3. inv \in [Invoices -> InvoiceRow \cup {Absent}]
  BY DEF Follows
<1>4. \A i \in Invoices : PaidOf(inv[i]) = PaidOf(invoice[i])
  <2>1. \A i \in Invoices \ DOMAIN cols : inv[i] = invoice[i]
    BY <1>1, WriteAt
  <2> QED BY <2>1
<1>5. Good(inv, payment)
  <2>1. AllFit(inv) /\ Once(inv)
    <3> HIDE DEF inv
    <3> QED BY <1>1, FollowsFits DEF inv, BillInv, Good
  <2> HIDE DEF inv
  <2> QED BY <1>1, <1>3, <1>4, <2>1 DEF BillInv, Good, Tables, PaidIs
<1>6. ASSUME NEW u \in Units \cup {NoUnit}
      PROVE  Dues(inv, payment, u) = Dues(invoice, payment, u) + Pending(posts, u)
  <2>1. /\ SumFunctionOnSet(Claims(invoice, u), Invoices) \in Int
        /\ SumFunctionOnSet(Advances(payment, u), Payments) \in Int
        /\ Pending(posts, u) \in Int
    BY <1>1, DuesType, PendingType
  <2>2. SumFunctionOnSet(Claims(inv, u), Invoices)
          = SumFunctionOnSet(Claims(invoice, u), Invoices) + Pending(posts, u)
    OBVIOUS
  <2> HIDE DEF inv
  <2> QED BY <2>1, <2>2 DEF Dues
<1> HIDE DEF inv
<1> QED BY <1>1, <1>2, <1>5, <1>6 DEF Planned, Ready, inv

\* One invoice changes, and one entry or none says by how much.
LEMMA OneInvoice ==
  ASSUME BillInv, NEW i \in Invoices, NEW new \in InvoiceRow, NEW c,
         NEW posts \in Seq(Post), Merge(c, invoice[i]) = new,
         IF Exists(invoice[i])
         THEN invoice[i].status # "cancelled" /\ "past" \notin DOMAIN c
         ELSE c \in InvoiceRow,
         Kept(invoice[i], new) \/ Joins(invoice[i], new),
         PaidOf(new) = PaidOf(invoice[i]),
         \A u \in Units \cup {NoUnit} : Pending(posts, u) = Claim(new, u) - Claim(invoice[i], u)
  PROVE  Planned(posts, [j \in {i} |-> c], Nothing)
<1> DEFINE cols == [j \in {i} |-> c]
           inv == Write(invoice, cols)
<1>1. invoice \in [Invoices -> InvoiceRow \cup {Absent}]
  BY DEF BillInv, Good, Tables
<1>2. inv[i] = new /\ \A j \in Invoices \ {i} : inv[j] = invoice[j]
  <2>1. DOMAIN cols = {i} /\ cols[i] = c /\ DOMAIN invoice = Invoices
    BY <1>1
  <2> HIDE DEF cols
  <2> QED BY <2>1, WriteAt
<1>3. inv \in [Invoices -> InvoiceRow \cup {Absent}]
  <2>1. inv = [j \in Invoices |-> inv[j]]
    <3>1. DOMAIN invoice = Invoices
      BY <1>1
    <3> HIDE DEF cols
    <3> QED BY <3>1, WriteAt
  <2> HIDE DEF inv
  <2> QED BY <1>1, <1>2, <2>1
<1>4. DOMAIN cols = {i} /\ cols[i] = c
  OBVIOUS
<1> HIDE DEF inv, cols
<1>5. Follows(invoice, inv)
  BY <1>2, <1>3 DEF Follows
<1>6. ASSUME NEW u \in Units \cup {NoUnit}
      PROVE  SumFunctionOnSet(Claims(inv, u), Invoices)
               = SumFunctionOnSet(Claims(invoice, u), Invoices) + Pending(posts, u)
  <2>1. \A j \in Invoices : Claims(inv, u)[j] \in Int /\ Claims(invoice, u)[j] \in Int
    BY <1>1, <1>3, ClaimType
  <2>2. \A j \in Invoices \ {i} : Claims(inv, u)[j] = Claims(invoice, u)[j]
    BY <1>2 DEF Claims
  <2>3. SumFunctionOnSet(Claims(inv, u), Invoices)
          = SumFunctionOnSet(Claims(invoice, u), Invoices)
              + (Claims(inv, u)[i] - Claims(invoice, u)[i])
    BY <2>1, <2>2, FiniteAssumption, SumUpdate
  <2>4. Claims(inv, u)[i] = Claim(new, u) /\ Claims(invoice, u)[i] = Claim(invoice[i], u)
    BY <1>2 DEF Claims
  <2> QED BY <2>3, <2>4
<1>7. Planned(posts, cols, Nothing)
  BY <1>2, <1>4, <1>5, <1>6, InvoicesOnly DEF inv
<1> QED BY <1>7 DEF cols

\* A row that is there fits.
LEMMA RowOf ==
  ASSUME BillInv, NEW i \in Invoices
  PROVE  /\ invoice[i] \in InvoiceRow \cup {Absent}
         /\ ~Exists(invoice[i]) => invoice[i] = Absent
         /\ Exists(invoice[i]) => invoice[i] \in InvoiceRow /\ Fits(invoice[i])
<1>1. invoice[i] \in InvoiceRow \cup {Absent}
  BY DEF BillInv, Good, Tables
<1>2. invoice[i] \in InvoiceRow => Exists(invoice[i])
  BY RowColumns
<1>3. invoice[i] = Absent => ~Exists(invoice[i])
  BY AbsentRow
<1> QED BY <1>1, <1>2, <1>3 DEF BillInv, Good, AllFit

\* The amounts of a row are integers.
LEMMA Amounts ==
  ASSUME NEW row \in InvoiceRow
  PROVE  /\ row.base \in Int /\ row.late \in Nat /\ row.paid \in Nat /\ row.due \in Int
         /\ row.unit \in Units /\ row.status \in Status /\ Total(row) \in Int
  BY DEF InvoiceRow, Total

\* No entries are a list of entries.
LEMMA EmptyPosts == <<>> \in Seq(Post)
  OBVIOUS

\* post_invoice debits the unit what the invoice, a draft until then, claims.
LEMMA PostPlan ==
  ASSUME BillInv, NEW w, BeginPost(w)
  PROVE  \E posts, cols, pcols : Begin(w, "post", posts, cols, pcols)
                                 /\ Planned(posts, cols, pcols)
<1>1. PICK i \in Invoices :
        /\ invoice[i].status = "draft"
        /\ Begin(w, "post", <<Debit(invoice[i].unit, Total(invoice[i]))>>,
                 [j \in {i} |-> [status |-> "posted"]], Nothing)
  BY DEF BeginPost
<1> DEFINE old == invoice[i]
           new == [old EXCEPT !.status = "posted"]
           c == [status |-> "posted"]
           x == Debit(old.unit, Total(old))
<1>2. Exists(old)
  BY <1>1 DEF Exists
<1>3. old \in InvoiceRow /\ Fits(old)
  BY <1>2, RowOf
<1>4. new \in InvoiceRow /\ Merge(c, old) = new
  BY <1>3, MergePosted DEF InvoiceRow, Status, Payable
<1>5. /\ new.status = "posted" /\ new.unit = old.unit /\ new.kind = old.kind
      /\ new.current = old.current /\ new.base = old.base /\ new.late = old.late
      /\ new.paid = old.paid /\ new.due = old.due
  BY <1>3 DEF InvoiceRow
<1>6. "past" \notin DOMAIN c
  OBVIOUS
<1> HIDE DEF new, c
<1>7. old.late = 0 /\ old.paid = 0 /\ old.due = Total(old) /\ Total(old) \in Int
  BY <1>1, <1>3, Amounts DEF Fits
<1>8. Fits(new) /\ Exists(new)
  BY <1>1, <1>3, <1>4, <1>5, RowColumns DEF Fits, Total
<1>9. Kept(old, new) /\ PaidOf(new) = PaidOf(old)
  BY <1>1, <1>2, <1>4, <1>5, <1>8 DEF Kept, PaidOf
<1>10. x \in Post /\ x.unit = old.unit /\ x.delta = Total(old)
  BY <1>3, <1>7, Amounts DEF Debit, Post
<1> HIDE DEF x
<1>11. <<x>> \in Seq(Post) /\ \A u : Pending(<<x>>, u) = Value(x, u)
  BY <1>10, PendingOne
<1>12. ASSUME NEW u \in Units \cup {NoUnit}
       PROVE  Pending(<<x>>, u) = Claim(new, u) - Claim(old, u)
  <2>1. CASE old.unit = u
    BY <1>1, <1>2, <1>5, <1>7, <1>8, <1>10, <1>11, <2>1 DEF Value, Claim
  <2>2. CASE old.unit # u
    BY <1>2, <1>5, <1>8, <1>10, <1>11, <2>2 DEF Value, Claim
  <2> QED BY <2>1, <2>2
<1>13. Planned(<<x>>, [j \in {i} |-> c], Nothing)
  BY <1>1, <1>2, <1>4, <1>6, <1>9, <1>11, <1>12, OneInvoice
<1> QED BY <1>1, <1>13 DEF x, c

\* Cancelling sets two columns.
LEMMA MergeCancelled ==
  ASSUME NEW old \in InvoiceRow
  PROVE  LET c == Diff(old, [status |-> "cancelled", due |-> 0])
         IN  /\ Merge(c, old) = [old EXCEPT !.status = "cancelled", !.due = 0]
             /\ "past" \notin DOMAIN c
<1> DEFINE short == [status |-> "cancelled", due |-> 0]
           c == Diff(old, short)
           mid == [old EXCEPT !.status = "cancelled"]
           new == [mid EXCEPT !.due = 0]
<1>1. DOMAIN old = Columns /\ old = [k \in Columns |-> old[k]]
  BY RowColumns
<1>2. DOMAIN short = {"status", "due"} /\ short["status"] = "cancelled" /\ short["due"] = 0
  OBVIOUS
<1>3. DOMAIN c = {k \in {"status", "due"} : short[k] # old[k]}
      /\ \A k \in DOMAIN c : c[k] = short[k]
  BY <1>2 DEF Diff
<1>4. mid \in InvoiceRow
  BY DEF InvoiceRow, Status, Payable
<1>5. new \in InvoiceRow
  <2> HIDE DEF mid
  <2> QED BY <1>4 DEF InvoiceRow
<1>6. mid = [k \in Columns |-> IF k = "status" THEN "cancelled" ELSE old[k]]
  BY <1>1 DEF Columns
<1> HIDE DEF short, c, mid
<1>7. new = [k \in Columns |-> IF k = "due" THEN 0 ELSE mid[k]]
  BY <1>6 DEF Columns
<1>8. Merge(c, old) = [k \in Columns |-> IF k \in DOMAIN c THEN c[k] ELSE old[k]]
  BY <1>1, <1>3 DEF Merge, Columns
<1>9. \A k \in Columns : (IF k \in DOMAIN c THEN c[k] ELSE old[k])
                          = (IF k = "due" THEN 0 ELSE mid[k])
  BY <1>2, <1>3, <1>6
<1> HIDE DEF new
<1>10. Merge(c, old) = new
  BY <1>7, <1>8, <1>9
<1>11. "past" \notin DOMAIN c
  BY <1>3
<1> QED BY <1>10, <1>11 DEF c, short, new, mid

\* cancel_invoice credits what the invoice claimed and its late fee: with that
\* fee left on the row, the claim goes to less than nothing.
LEMMA CancelPlan ==
  ASSUME BillInv, NEW w, BeginCancel(w)
  PROVE  \E posts, cols, pcols : Begin(w, "cancel", posts, cols, pcols)
                                 /\ Planned(posts, cols, pcols)
<1>1. PICK i \in Invoices :
        /\ MayCancel(invoice[i])
        /\ Begin(w, "cancel", CancelPosts(invoice[i]),
                 [j \in {i} |-> Diff(invoice[i], [status |-> "cancelled", due |-> 0])], Nothing)
  BY DEF BeginCancel
<1> DEFINE old == invoice[i]
           mid == [old EXCEPT !.status = "cancelled"]
           new == [mid EXCEPT !.due = 0]
           c == Diff(old, [status |-> "cancelled", due |-> 0])
           posts == CancelPosts(old)
<1>2. Exists(old) /\ old.status \in {"draft", "posted", "overdue"} /\ old.paid = 0
  BY <1>1 DEF Exists, MayCancel
<1>3. old \in InvoiceRow /\ Fits(old)
  BY <1>2, RowOf
<1>4. Merge(c, old) = new /\ "past" \notin DOMAIN c
  BY <1>3, MergeCancelled
<1>5. mid \in InvoiceRow /\ mid.status = "cancelled" /\ mid.unit = old.unit
      /\ mid.kind = old.kind /\ mid.current = old.current /\ mid.base = old.base
      /\ mid.late = old.late /\ mid.paid = old.paid
  BY <1>3 DEF InvoiceRow, Status, Payable
<1> HIDE DEF mid
<1>6. /\ new \in InvoiceRow
      /\ new.status = "cancelled" /\ new.unit = old.unit /\ new.kind = old.kind
      /\ new.current = old.current /\ new.base = old.base /\ new.late = old.late
      /\ new.paid = old.paid /\ new.due = 0
  BY <1>5 DEF InvoiceRow
<1> HIDE DEF new, c
<1>7. Total(old) \in Int /\ old.late \in Nat /\ old.due = Total(old)
      /\ (old.status = "draft" => old.late = 0)
  BY <1>2, <1>3, Amounts DEF Fits
<1>8. Fits(new) /\ Exists(new)
  BY <1>2, <1>3, <1>6, RowColumns DEF Fits
<1>9. Kept(old, new) /\ PaidOf(new) = PaidOf(old)
  BY <1>2, <1>6, <1>8 DEF Kept, PaidOf
<1>10. posts \in Seq(Post) /\ \A u \in Units \cup {NoUnit} :
                                Pending(posts, u) = Claim(new, u) - Claim(old, u)
  <2>1. CASE old.status = "draft"
    <3>1. posts = <<>>
      BY <2>1 DEF CancelPosts
    <3>2. \A u : Claim(new, u) = 0 /\ Claim(old, u) = 0
      BY <1>2, <1>6, <1>7, <1>8, <2>1 DEF Claim
    <3> QED BY <3>1, <3>2, PendingEmpty, EmptyPosts
  <2>2. CASE old.status # "draft"
    <3> DEFINE x == Credit(old.unit, Total(old))
    <3>1. posts = <<x>>
      BY <2>2 DEF CancelPosts
    <3>2. x \in Post /\ x.unit = old.unit /\ x.delta = -Total(old)
      BY <1>3, <1>7, Amounts DEF Credit, Post
    <3> HIDE DEF x
    <3>3. <<x>> \in Seq(Post) /\ \A u : Pending(<<x>>, u) = Value(x, u)
      BY <3>2, PendingOne
    <3>4. ASSUME NEW u \in Units \cup {NoUnit}
          PROVE  Value(x, u) = Claim(new, u) - Claim(old, u)
      <4>1. CASE old.unit = u
        <5>1. Claim(new, u) = 0 - old.late /\ Claim(old, u) = Total(old) - old.late
          BY <1>2, <1>6, <1>7, <1>8, <2>2, <4>1 DEF Claim
        <5>2. Value(x, u) = -Total(old)
          BY <3>2, <4>1 DEF Value
        <5> QED BY <5>1, <5>2, <1>7
      <4>2. CASE old.unit # u
        BY <1>2, <1>6, <1>8, <3>2, <4>2 DEF Value, Claim
      <4> QED BY <4>1, <4>2
    <3> QED BY <3>1, <3>3, <3>4
  <2> QED BY <2>1, <2>2
<1> HIDE DEF posts
<1>11. Planned(posts, [j \in {i} |-> c], Nothing)
  BY <1>2, <1>4, <1>6, <1>9, <1>10, OneInvoice
<1> QED BY <1>1, <1>11 DEF posts, c

\* A penalty debits its amount.
LEMMA PenaltyPlan ==
  ASSUME BillInv, NEW w, BeginPenalty(w)
  PROVE  \E posts, cols, pcols : Begin(w, "penalty", posts, cols, pcols)
                                 /\ Planned(posts, cols, pcols)
<1>1. PICK i \in Fresh, u \in Units, amount \in Totals, current \in BOOLEAN :
        Begin(w, "penalty", <<Debit(u, amount)>>,
              [j \in {i} |-> NewInvoice(u, "penalty", "posted", amount, current, Number)],
              Nothing)
  BY DEF BeginPenalty
<1> DEFINE new == NewInvoice(u, "penalty", "posted", amount, current, Number)
           x == Debit(u, amount)
<1>2. IsNew(new, u, "penalty", "posted", amount)
  BY NewRow, NumberType
<1> HIDE DEF new
<1>3. i \in Invoices /\ ~Exists(invoice[i]) /\ invoice[i] = Absent
  BY RowOf DEF Fresh
<1>4. new \in InvoiceRow /\ Exists(new) /\ Merge(new, invoice[i]) = new
  BY <1>2, <1>3, MergeWhole, RowColumns DEF IsNew
<1>5. Joins(invoice[i], new) /\ PaidOf(new) = PaidOf(invoice[i])
  BY <1>2, <1>3, <1>4 DEF IsNew, Joins, PaidOf
<1>6. amount \in Int
  BY AmountsAssumption
<1>7. x \in Post /\ x.unit = u /\ x.delta = amount
  BY <1>6 DEF Debit, Post
<1> HIDE DEF x
<1>8. <<x>> \in Seq(Post) /\ \A v : Pending(<<x>>, v) = Value(x, v)
  BY <1>7, PendingOne
<1>9. \A v \in Units \cup {NoUnit} : Pending(<<x>>, v) = Claim(new, v) - Claim(invoice[i], v)
  BY <1>2, <1>3, <1>4, <1>6, <1>7, <1>8 DEF IsNew, Value, Claim
<1>10. Planned(<<x>>, [j \in {i} |-> new], Nothing)
  BY <1>3, <1>4, <1>5, <1>8, <1>9, OneInvoice
<1> QED BY <1>1, <1>10 DEF new, x

\* Rows written over loaded ones, none of them cancelled.
Rewritten(new, S) ==
  \A i \in S : /\ i \in Invoices /\ Exists(invoice[i]) /\ invoice[i].status # "cancelled"
               /\ Kept(invoice[i], new[i]) /\ new[i].past = invoice[i].past

\* What those rows make of the table.
LEMMA WrittenRows ==
  ASSUME BillInv, NEW S, NEW new, Rewritten(new, S),
         NEW cols, cols = [i \in S |-> Diff(invoice[i], new[i])]
  PROVE  LET inv == Write(invoice, cols)
         IN  /\ \A i \in S : inv[i] = new[i]
             /\ \A i \in Invoices \ S : inv[i] = invoice[i]
             /\ Follows(invoice, inv)
             /\ DOMAIN cols = S /\ S \subseteq Invoices
             /\ \A i \in S : invoice[i] \in InvoiceRow /\ "past" \notin DOMAIN cols[i]
<1> DEFINE inv == Write(invoice, cols)
<1>1. \A i \in S : i \in Invoices /\ invoice[i] \in InvoiceRow /\ new[i] \in InvoiceRow
                   /\ new[i].past = invoice[i].past
  BY RowOf DEF Rewritten, Kept
<1>2. DOMAIN cols = S /\ \A i \in S : cols[i] = Diff(invoice[i], new[i])
  OBVIOUS
<1>3. ASSUME NEW i \in S
      PROVE  Merge(cols[i], invoice[i]) = new[i] /\ "past" \notin DOMAIN cols[i]
  <2>1. Merge(cols[i], invoice[i]) = new[i]
    BY <1>1, <1>2, MergeDiff
  <2>2. new[i]["past"] = invoice[i]["past"]
    BY <1>1
  <2> QED BY <1>2, <2>1, <2>2 DEF Diff
<1>4. DOMAIN invoice = Invoices /\ invoice \in [Invoices -> InvoiceRow \cup {Absent}]
  BY DEF BillInv, Good, Tables
<1>5. /\ \A i \in S : inv[i] = new[i]
      /\ \A i \in Invoices \ S : inv[i] = invoice[i]
      /\ inv = [i \in Invoices |-> inv[i]]
  BY <1>1, <1>2, <1>3, <1>4, WriteAt
<1> HIDE DEF inv
<1>6. inv \in [Invoices -> InvoiceRow \cup {Absent}]
  BY <1>1, <1>4, <1>5
<1>7. Follows(invoice, inv)
  BY <1>1, <1>5, <1>6 DEF Follows, Rewritten
<1> QED BY <1>1, <1>2, <1>3, <1>5, <1>7 DEF inv

\* The sweep adds a fee to what is due and to the fees: the claim stays.
LEMMA SweptRow ==
  ASSUME NEW old \in InvoiceRow, Fits(old), Overdue(old), NEW fee \in Fees
  PROVE  LET new == IF fee > 0 THEN Charged(old, fee) ELSE [old EXCEPT !.status = "overdue"]
         IN  /\ new \in InvoiceRow /\ Kept(old, new) /\ PaidOf(new) = PaidOf(old)
             /\ \A u : Claim(new, u) = Claim(old, u)
             /\ new.past = old.past
<1> DEFINE new == IF fee > 0 THEN Charged(old, fee) ELSE [old EXCEPT !.status = "overdue"]
<1>1. fee \in Nat
  BY AmountsAssumption
<1>2. Exists(old) /\ old.status \in {"posted", "partially_paid"} /\ old.due > 0
  BY RowColumns DEF Overdue
<1>3. old.due = Total(old) - old.paid /\ Total(old) = old.base + old.late
      /\ old.late \in Nat /\ old.paid \in Nat /\ old.base \in Int /\ old.due \in Int
  BY <1>2, Amounts DEF Fits, Total
<1>4. /\ new \in InvoiceRow /\ new.status = "overdue" /\ new.unit = old.unit
      /\ new.kind = old.kind /\ new.current = old.current /\ new.base = old.base
      /\ new.paid = old.paid /\ new.past = old.past
      /\ new.late = old.late + fee /\ new.due = old.due + fee
  <2>1. CASE fee > 0
    <3> DEFINE a == [old EXCEPT !.status = "overdue"]
               b == [a EXCEPT !.late = @ + fee]
               d == Total(old) + fee - old.paid
               c == [b EXCEPT !.due = d]
    <3>1. /\ a \in InvoiceRow /\ a.status = "overdue" /\ a.unit = old.unit
          /\ a.kind = old.kind /\ a.current = old.current /\ a.base = old.base
          /\ a.paid = old.paid /\ a.past = old.past /\ a.late = old.late
      BY DEF InvoiceRow, Status, Payable
    <3>2. new = c
      BY <2>1, <3>1 DEF Charged
    <3> HIDE DEF a
    <3>3. /\ b \in InvoiceRow /\ b.status = "overdue" /\ b.unit = old.unit
          /\ b.kind = old.kind /\ b.current = old.current /\ b.base = old.base
          /\ b.paid = old.paid /\ b.past = old.past /\ b.late = old.late + fee
      BY <1>1, <1>3, <3>1 DEF InvoiceRow
    <3> HIDE DEF b
    <3>4. d \in Nat /\ d = old.due + fee
      BY <1>1, <1>2, <1>3
    <3> HIDE DEF d
    <3>5. /\ c \in InvoiceRow /\ c.status = "overdue" /\ c.unit = old.unit
          /\ c.kind = old.kind /\ c.current = old.current /\ c.base = old.base
          /\ c.paid = old.paid /\ c.past = old.past /\ c.late = old.late + fee /\ c.due = d
      BY <3>3, <3>4 DEF InvoiceRow
    <3> HIDE DEF c, new
    <3> QED BY <3>2, <3>4, <3>5
  <2>2. CASE ~(fee > 0)
    <3>1. new = [old EXCEPT !.status = "overdue"] /\ fee = 0
      BY <1>1, <2>2
    <3> HIDE DEF new
    <3> QED BY <3>1, <1>3 DEF InvoiceRow, Status, Payable
  <2> QED BY <2>1, <2>2
<1> HIDE DEF new
<1>5. Exists(new)
  BY <1>4, RowColumns
<1>6. Fits(new)
  <2>1. new.due = Total(new) - new.paid /\ new.due > 0
    BY <1>1, <1>2, <1>3, <1>4 DEF Total
  <2>2. new.kind = "monthly" => new.current
    BY <1>4 DEF Fits
  <2> QED BY <1>4, <2>1, <2>2 DEF Fits
<1>7. \A u : Claim(new, u) = Claim(old, u)
  <2>1. old.due + fee - (old.late + fee) = old.due - old.late
    BY <1>1, <1>3
  <2>2. new.due - new.late = old.due - old.late
    <3>1. new.due = old.due + fee /\ new.late = old.late + fee
      BY <1>4
    <3>2. new.due \in Int /\ new.late \in Int
      BY <1>1, <1>3, <3>1
    <3> QED BY <1>1, <1>3, <3>1, <3>2
  <2>3. old.status # "draft" /\ new.status # "draft" /\ new.unit = old.unit
    BY <1>2, <1>4
  <2> QED BY <1>2, <1>5, <2>2, <2>3, Zenon DEF Claim
<1>8. Kept(old, new) /\ PaidOf(new) = PaidOf(old)
  BY <1>2, <1>4, <1>5, <1>6 DEF Kept, PaidOf
<1> QED BY <1>4, <1>7, <1>8 DEF new

\* The sweep makes no entry, and changes no claim.
LEMMA SweepPlan ==
  ASSUME BillInv, NEW w, BeginSweep(w)
  PROVE  \E posts, cols, pcols : Begin(w, "sweep", posts, cols, pcols)
                                 /\ Planned(posts, cols, pcols)
<1> DEFINE late == {i \in Recorded : Overdue(invoice[i])}
<1>1. PICK fee \in [late -> Fees] :
        Begin(w, "sweep", <<>>,
              [i \in late |->
                 Diff(invoice[i],
                      IF fee[i] > 0 THEN Charged(invoice[i], fee[i])
                      ELSE [invoice[i] EXCEPT !.status = "overdue"])],
              Nothing)
  BY DEF BeginSweep
<1> DEFINE after(i) == IF fee[i] > 0 THEN Charged(invoice[i], fee[i])
                       ELSE [invoice[i] EXCEPT !.status = "overdue"]
           new == [i \in late |-> after(i)]
           cols == [i \in late |-> Diff(invoice[i], after(i))]
           inv == Write(invoice, cols)
<1>2. ASSUME NEW i \in late
      PROVE  /\ i \in Invoices /\ Exists(invoice[i]) /\ invoice[i].status # "cancelled"
             /\ Kept(invoice[i], new[i]) /\ PaidOf(new[i]) = PaidOf(invoice[i])
             /\ \A u : Claim(new[i], u) = Claim(invoice[i], u)
             /\ new[i].past = invoice[i].past
  <2>1. i \in Invoices /\ Exists(invoice[i]) /\ Overdue(invoice[i])
    BY DEF Recorded
  <2>2. invoice[i] \in InvoiceRow /\ Fits(invoice[i]) /\ fee[i] \in Fees
    BY <2>1, RowOf
  <2>3. new[i] = after(i)
    OBVIOUS
  <2>4. /\ after(i) \in InvoiceRow /\ Kept(invoice[i], after(i))
        /\ PaidOf(after(i)) = PaidOf(invoice[i])
        /\ \A u : Claim(after(i), u) = Claim(invoice[i], u)
        /\ after(i).past = invoice[i].past
    BY <2>1, <2>2, SweptRow
  <2> HIDE DEF after, new
  <2> QED BY <2>1, <2>3, <2>4 DEF Overdue
<1>3. cols = [i \in late |-> Diff(invoice[i], new[i])]
  OBVIOUS
<1> HIDE DEF new, late, cols
<1>4. Rewritten(new, late)
  BY <1>2 DEF Rewritten
<1>5. DOMAIN invoice = Invoices /\ invoice \in [Invoices -> InvoiceRow \cup {Absent}]
  BY DEF BillInv, Good, Tables
<1>6. /\ \A i \in late : inv[i] = new[i]
      /\ \A i \in Invoices \ late : inv[i] = invoice[i]
      /\ Follows(invoice, inv)
      /\ DOMAIN cols = late /\ late \subseteq Invoices
      /\ \A i \in late : invoice[i] \in InvoiceRow /\ "past" \notin DOMAIN cols[i]
  BY <1>3, <1>4, WrittenRows
<1> HIDE DEF inv
<1>8. ASSUME NEW u \in Units \cup {NoUnit} PROVE Claims(inv, u) = Claims(invoice, u)
  BY <1>2, <1>6 DEF Claims
<1>9. ASSUME NEW u \in Units \cup {NoUnit}
      PROVE  SumFunctionOnSet(Claims(inv, u), Invoices)
               = SumFunctionOnSet(Claims(invoice, u), Invoices) + Pending(<<>>, u)
  <2>1. SumFunctionOnSet(Claims(invoice, u), Invoices) \in Int
    BY <1>5, ClaimType, FiniteAssumption, SumType
  <2> QED BY <1>8, <2>1, PendingEmpty
<1>10. Planned(<<>>, cols, Nothing)
  BY <1>2, <1>6, <1>9, InvoicesOnly, EmptyPosts DEF inv
<1> QED BY <1>1, <1>10 DEF cols

-----------------------------------------------------------------------------
(* The monthly job                                                           *)

\* What SetToSeqs gives: every element of the set, once.
LEMMA Permutation ==
  ASSUME NEW S, IsFiniteSet(S), NEW s \in SetToSeqs(S)
  PROVE  /\ s \in Seq(S) /\ IsFiniteSet(DOMAIN s)
         /\ \A k, m \in DOMAIN s : s[k] = s[m] => k = m
         /\ \A x \in S : \E k \in DOMAIN s : s[k] = x
<1> DEFINE n == Cardinality(S)
           D == 1..n
<1>1. s \in [D -> S] /\ \A i, j \in D : i # j => s[i] # s[j]
  BY DEF SetToSeqs
<1>2. n \in Nat
  BY FS_CardinalityType
<1>3. IsFiniteSet(D) /\ Cardinality(D) = n
  BY <1>2, FS_Interval
<1>4. s \in Injection(D, S)
  <2> HIDE DEF D
  <2> QED BY <1>1 DEF Injection, IsInjective
<1>5. s \in Surjection(D, S)
  <2> HIDE DEF D
  <2> QED BY <1>3, <1>4, FS_Injection
<1>6. s \in Seq(S)
  BY <1>1, <1>2
<1>7. DOMAIN s = D
  BY <1>1
<1> HIDE DEF D
<1> QED BY <1>1, <1>3, <1>5, <1>6, <1>7 DEF Surjection

\* The monthly job debits every unit it bills, none of which was billed before.
LEMMA MonthlyPlan ==
  ASSUME BillInv, NEW w, BeginMonthly(w)
  PROVE  \E posts, cols, pcols : Begin(w, "monthly", posts, cols, pcols)
                                 /\ Planned(posts, cols, pcols)
<1> DEFINE open == {u \in Units : Unbilled(u)}
<1>1. PICK units \in SetToSeqs(open) :
        \E ids \in {s \in [DOMAIN units -> Fresh] : IsInjective(s)},
           amounts \in [DOMAIN units -> {total \in Totals : total >= 0}] :
          Begin(w, "monthly",
               [k \in DOMAIN units |-> Debit(units[k], amounts[k])],
               [i \in {ids[k] : k \in DOMAIN units} |->
                  LET k == CHOOSE k \in DOMAIN units : ids[k] = i
                  IN  NewInvoice(units[k], "monthly", "posted", amounts[k], TRUE,
                                 Number + k - 1)],
               Nothing)
  BY DEF BeginMonthly
<1>2. PICK ids \in {s \in [DOMAIN units -> Fresh] : IsInjective(s)},
           amounts \in [DOMAIN units -> {total \in Totals : total >= 0}] :
        Begin(w, "monthly",
             [k \in DOMAIN units |-> Debit(units[k], amounts[k])],
             [i \in {ids[k] : k \in DOMAIN units} |->
                LET k == CHOOSE k \in DOMAIN units : ids[k] = i
                IN  NewInvoice(units[k], "monthly", "posted", amounts[k], TRUE,
                               Number + k - 1)],
             Nothing)
  BY <1>1
<1> DEFINE D == DOMAIN units
           new(k) == NewInvoice(units[k], "monthly", "posted", amounts[k], TRUE, Number + k - 1)
           line(i) == CHOOSE k \in D : ids[k] = i
           billed == {ids[k] : k \in D}
           posts == [k \in D |-> Debit(units[k], amounts[k])]
           cols == [i \in billed |-> new(line(i))]
           inv == Write(invoice, cols)
<1>3. IsFiniteSet(open) /\ open \subseteq Units
  BY FiniteAssumption, FS_Subset
<1>4. /\ units \in Seq(open) /\ IsFiniteSet(D) /\ D = 1..Len(units)
      /\ \A k, m \in D : units[k] = units[m] => k = m
      /\ \A k \in D : units[k] \in Units /\ Unbilled(units[k])
  <2>1. /\ units \in Seq(open) /\ IsFiniteSet(D)
        /\ \A k, m \in D : units[k] = units[m] => k = m
    <3> HIDE DEF open
    <3> QED BY <1>3, Permutation
  <2>2. D = 1..Len(units) /\ \A k \in D : units[k] \in open
    <3> HIDE DEF open
    <3> QED BY <2>1
  <2> QED BY <1>3, <2>1, <2>2
<1>5. /\ \A k \in D : ids[k] \in Invoices /\ invoice[ids[k]] = Absent /\ ~Exists(invoice[ids[k]])
      /\ \A k, m \in D : ids[k] = ids[m] => k = m
      /\ \A k \in D : amounts[k] \in Totals /\ amounts[k] \in Int
  BY RowOf, AmountsAssumption DEF IsInjective, Fresh
<1>6. \A k \in D : IsNew(new(k), units[k], "monthly", "posted", amounts[k]) /\ new(k).current
  <2> SUFFICES ASSUME NEW k \in D
               PROVE  IsNew(new(k), units[k], "monthly", "posted", amounts[k]) /\ new(k).current
    OBVIOUS
  <2> DEFINE n == Number + k - 1
  <2>1. n \in Nat
    BY <1>4, NumberType
  <2> HIDE DEF n
  <2>2. IsNew(NewInvoice(units[k], "monthly", "posted", amounts[k], TRUE, n),
              units[k], "monthly", "posted", amounts[k])
    BY <1>4, <1>5, <2>1, NewRow
  <2>3. NewInvoice(units[k], "monthly", "posted", amounts[k], TRUE, n).current
    BY DEF NewInvoice
  <2> QED BY <2>2, <2>3 DEF n
<1> HIDE DEF new
<1>7. \A k \in D : ids[k] \in billed /\ line(ids[k]) = k /\ cols[ids[k]] = new(k)
  <2>1. \A k \in D : line(ids[k]) = k
    BY <1>5
  <2> QED BY <2>1
<1>8. \A i \in billed : \E k \in D : i = ids[k]
  OBVIOUS
<1>9. DOMAIN cols = billed /\ billed \subseteq Invoices
  BY <1>5
<1> HIDE DEF cols, line, billed
<1>10. invoice \in [Invoices -> InvoiceRow \cup {Absent}] /\ DOMAIN invoice = Invoices
       /\ payment \in [Payments -> PaymentRow \cup {Absent}]
  BY DEF BillInv, Good, Tables
<1>11. /\ \A k \in D : inv[ids[k]] = new(k)
       /\ \A i \in Invoices \ billed : inv[i] = invoice[i]
       /\ inv = [i \in Invoices |-> inv[i]]
  <2>1. /\ inv = [i \in Invoices |-> inv[i]]
        /\ \A i \in Invoices : inv[i] = IF i \in billed THEN Merge(cols[i], invoice[i]) ELSE invoice[i]
    BY <1>9, <1>10, WriteAt
  <2>2. \A k \in D : Merge(new(k), Absent) = new(k)
    BY <1>6, MergeWhole DEF IsNew
  <2> HIDE DEF inv
  <2> QED BY <1>5, <1>7, <2>1, <2>2
<1> HIDE DEF inv
<1> DEFINE Added(i) == \E k \in D : i = ids[k] /\ inv[i] = new(k) /\ invoice[i] = Absent
<1>a. \A i \in Invoices : Added(i) \/ inv[i] = invoice[i]
  BY <1>5, <1>8, <1>11
<1>b. \A i \in Invoices : Added(i) => inv[i] \in InvoiceRow /\ Exists(inv[i]) /\ Fits(inv[i])
  BY <1>6, RowColumns DEF IsNew
<1>12. inv \in [Invoices -> InvoiceRow \cup {Absent}]
  <2>1. \A i \in Invoices : inv[i] \in InvoiceRow \cup {Absent}
    <3> HIDE DEF Added
    <3> QED BY <1>10, <1>a, <1>b
  <2> QED BY <1>11, <2>1
<1>13. AllFit(inv)
  <2>1. AllFit(invoice)
    BY DEF BillInv, Good
  <2> HIDE DEF Added
  <2> QED BY <1>a, <1>b, <2>1 DEF AllFit
<1>14. Once(inv)
  <2> SUFFICES ASSUME NEW i \in Invoices, NEW j \in Invoices,
                      Exists(inv[i]), Exists(inv[j]),
                      inv[i].kind = "monthly", inv[j].kind = "monthly",
                      inv[i].status # "cancelled", inv[j].status # "cancelled",
                      inv[i].unit = inv[j].unit
               PROVE  i = j
    BY DEF Once
  <2>1. \A x \in Invoices \ billed, y \in billed :
          ~(Exists(inv[x]) /\ inv[x].kind = "monthly" /\ inv[x].status # "cancelled"
             /\ inv[x].unit = inv[y].unit)
    <3> SUFFICES ASSUME NEW x \in Invoices \ billed, NEW y \in billed,
                        Exists(inv[x]), inv[x].kind = "monthly", inv[x].status # "cancelled",
                        inv[x].unit = inv[y].unit
                 PROVE  FALSE
      OBVIOUS
    <3>1. PICK k \in D : y = ids[k]
      BY <1>8
    <3>2. inv[y].unit = units[k]
      BY <1>6, <1>11, <3>1 DEF IsNew
    <3>3. inv[x] = invoice[x]
      BY <1>11
    <3>4. invoice[x].current
      BY <3>3, RowOf DEF Fits
    <3> QED BY <1>4, <3>2, <3>3, <3>4 DEF Unbilled, Recorded
  <2>2. CASE i \in billed /\ j \in billed
    <3>1. PICK k \in D, m \in D : i = ids[k] /\ j = ids[m]
      BY <1>8, <2>2
    <3>2. inv[i] = new(k) /\ inv[j] = new(m)
      BY <1>11, <3>1
    <3>3. inv[i].unit = units[k] /\ inv[j].unit = units[m]
      BY <1>6, <3>2, Zenon DEF IsNew
    <3> QED BY <1>4, <3>1, <3>3
  <2>3. CASE i \notin billed /\ j \notin billed
    BY <1>11, <2>3 DEF Once, BillInv, Good
  <2> QED BY <2>1, <2>2, <2>3
<1>15. \A i \in Invoices : PaidOf(inv[i]) = PaidOf(invoice[i])
  <2>1. \A k \in D : PaidOf(new(k)) = 0
    BY <1>6 DEF IsNew, PaidOf
  <2>2. PaidOf(Absent) = 0
    BY AbsentRow DEF PaidOf
  <2>3. \A i \in Invoices : Added(i) => PaidOf(inv[i]) = 0 /\ PaidOf(invoice[i]) = 0
    BY <2>1, <2>2
  <2> HIDE DEF Added
  <2> QED BY <1>a, <2>3
<1>16. Good(inv, payment)
  BY <1>10, <1>12, <1>13, <1>14, <1>15 DEF BillInv, Good, Tables, PaidIs
<1>17. posts \in Seq(Post) /\ DOMAIN posts = D
       /\ \A k \in D : posts[k].unit = units[k] /\ posts[k].delta = amounts[k]
  <2>1. \A k \in D : posts[k] \in Post /\ posts[k].unit = units[k] /\ posts[k].delta = amounts[k]
    BY <1>4, <1>5 DEF Post, Debit
  <2>2. posts = [k \in D |-> posts[k]] /\ DOMAIN posts = D
    OBVIOUS
  <2>3. Len(units) \in Nat
    BY <1>4
  <2> HIDE DEF posts
  <2> QED BY <1>4, <2>1, <2>2, <2>3
<1> HIDE DEF posts
<1>18. ASSUME NEW u \in Units \cup {NoUnit}
       PROVE  SumFunctionOnSet(Claims(inv, u), Invoices)
                = SumFunctionOnSet(Claims(invoice, u), Invoices) + Pending(posts, u)
  <2> DEFINE d == [i \in Invoices |-> Claim(inv[i], u) - Claim(invoice[i], u)]
             f == Claims(invoice, u)
             g == Claims(inv, u)
  <2>1. \A i \in Invoices : /\ f[i] \in Int /\ g[i] \in Int
                            /\ f[i] = Claim(invoice[i], u) /\ g[i] = Claim(inv[i], u)
    BY <1>10, <1>12, ClaimType
  <2>2. \A i \in Invoices : d[i] \in Int /\ g[i] = f[i] + d[i]
    BY <2>1
  <2>3. \A k \in D : Claim(new(k), u) = Value(posts[k], u)
    <3> SUFFICES ASSUME NEW k \in D PROVE Claim(new(k), u) = Value(posts[k], u)
      OBVIOUS
    <3>1. Exists(new(k)) /\ new(k).unit = units[k] /\ new(k).status = "posted"
          /\ new(k).due = amounts[k] /\ new(k).late = 0 /\ amounts[k] \in Int
      BY <1>5, <1>6, RowColumns DEF IsNew
    <3> QED BY <1>17, <3>1 DEF Claim, Value
  <2>4. Claim(Absent, u) = 0
    BY AbsentRow DEF Claim
  <2>5. \A k \in D : d[ids[k]] = Value(posts[k], u)
    <3>1. \A k \in D : Value(posts[k], u) \in Int
      BY <1>5, <1>17 DEF Value
    <3>2. \A k \in D : d[ids[k]] = Claim(new(k), u) - Claim(Absent, u)
      BY <1>5, <1>11
    <3> HIDE DEF d
    <3> QED BY <2>3, <2>4, <3>1, <3>2
  <2>6. \A i \in Invoices : (\A k \in D : ids[k] # i) => d[i] = 0
    <3>1. \A i \in Invoices : (\A k \in D : ids[k] # i) => inv[i] = invoice[i]
      BY <1>a
    <3>2. \A i \in Invoices : inv[i] = invoice[i] => d[i] = f[i] - f[i]
      BY <2>1
    <3> HIDE DEF d, f
    <3> QED BY <2>1, <3>1, <3>2
  <2> HIDE DEF f, g, d
  <2>7. Pending(posts, u) = SumFunctionOnSet(d, Invoices)
    <3>1. Along(posts, ids, d, u)
      BY <1>5, <1>17, <2>2, <2>5, <2>6 DEF Along
    <3> QED BY <1>17, <3>1, PendingAlong
  <2>8. SumFunctionOnSet(g, Invoices) = SumFunctionOnSet(f, Invoices) + SumFunctionOnSet(d, Invoices)
    BY <2>1, <2>2, FiniteAssumption, SumPlus
  <2> QED BY <2>7, <2>8 DEF f, g
<1>19. DOMAIN Nothing = {} /\ Write(payment, Nothing) = payment
  BY <1>10 DEF Nothing, Write
<1>20. Ready(invoice, payment, cols, Nothing)
  <2>1. \A i \in billed : ~Exists(invoice[i]) /\ cols[i] \in InvoiceRow
    BY <1>5, <1>6, <1>7, <1>8 DEF IsNew
  <2> QED BY <1>9, <1>16, <1>19, <2>1 DEF Ready, inv
<1>21. \A u \in Units \cup {NoUnit} :
         Dues(inv, payment, u) = Dues(invoice, payment, u) + Pending(posts, u)
  <2> SUFFICES ASSUME NEW u \in Units \cup {NoUnit}
               PROVE  Dues(inv, payment, u) = Dues(invoice, payment, u) + Pending(posts, u)
    OBVIOUS
  <2>1. /\ SumFunctionOnSet(Claims(invoice, u), Invoices) \in Int
        /\ SumFunctionOnSet(Advances(payment, u), Payments) \in Int
        /\ Pending(posts, u) \in Int
    BY <1>10, <1>17, DuesType, PendingType
  <2> QED BY <1>18, <2>1 DEF Dues
<1>22. Planned(posts, cols, Nothing)
  BY <1>17, <1>19, <1>20, <1>21 DEF Planned, inv
<1>23. Begin(w, "monthly", posts, cols, Nothing)
  BY <1>2 DEF posts, cols, line, billed, new
<1> QED BY <1>22, <1>23

-----------------------------------------------------------------------------
(* Payments and refunds                                                      *)

AllocAt(row, i) == IF row.status = "success" THEN row.alloc[i] ELSE 0

\* One entry for each line, by what the line changes in what its invoice claims.
Lined(posts, lines, new) ==
  /\ posts \in Seq(Post)
  /\ \A k \in DOMAIN posts : lines[k] \in Invoices
  /\ \A k, m \in DOMAIN posts : lines[k] = lines[m] => k = m
  /\ \A k \in DOMAIN posts : \A u \in Units \cup {NoUnit} :
       Claim(new[lines[k]], u) = Claim(invoice[lines[k]], u) + Value(posts[k], u)

\* What is paid on an invoice moves by what the payment p allocates to it.
Allocated(new, S, p, row) ==
  \A i \in Invoices :
    IF i \in S
    THEN new[i].paid = invoice[i].paid + (AllocAt(row, i) - AllocAt(payment[p], i))
    ELSE AllocAt(row, i) = AllocAt(payment[p], i)

\* What is not for a line is an advance.
Advanced(last, p, row) ==
  /\ Few(last)
  /\ \A u \in Units \cup {NoUnit} :
       Advance(row, u) - Advance(payment[p], u) = -Pending(last, u)

\* A payment or refund: entries and new rows for the lines, one row of payments.
LinedPlan(posts, lines, new, S, p, row, last, cols, pcols) ==
  /\ S = {lines[k] : k \in DOMAIN posts}
  /\ Lined(posts, lines, new) /\ Rewritten(new, S) /\ Allocated(new, S, p, row)
  /\ Advanced(last, p, row)
  /\ p \in Payments /\ row \in PaymentRow
  /\ DOMAIN pcols = {p} /\ Merge(pcols[p], payment[p]) = row
  /\ cols = [i \in S |-> Diff(invoice[i], new[i])]

\* Such a transaction keeps the tables in step, and the ledger with them.
LEMMA LinesPlan ==
  ASSUME BillInv, NEW posts, NEW lines, NEW new, NEW S, NEW p, NEW row, NEW last,
         NEW cols, NEW pcols, LinedPlan(posts, lines, new, S, p, row, last, cols, pcols)
  PROVE  Planned(posts \o last, cols, pcols)
<1> DEFINE inv == Write(invoice, cols)
           pay == Write(payment, pcols)
<1> USE DEF LinedPlan, Advanced
<1>1. /\ \A i \in S : inv[i] = new[i]
      /\ \A i \in Invoices \ S : inv[i] = invoice[i]
      /\ Follows(invoice, inv)
      /\ DOMAIN cols = S /\ S \subseteq Invoices
      /\ \A i \in S : invoice[i] \in InvoiceRow /\ "past" \notin DOMAIN cols[i]
  BY WrittenRows
<1>2. /\ invoice \in [Invoices -> InvoiceRow \cup {Absent}]
      /\ payment \in [Payments -> PaymentRow \cup {Absent}]
  BY DEF BillInv, Good, Tables
<1>3. DOMAIN pcols = {p} /\ Merge(pcols[p], payment[p]) = row /\ p \in Payments
      /\ row \in PaymentRow /\ S = {lines[k] : k \in DOMAIN posts}
      /\ Lined(posts, lines, new) /\ Rewritten(new, S) /\ Allocated(new, S, p, row)
      /\ Few(last)
      /\ \A u \in Units \cup {NoUnit} :
           Advance(row, u) - Advance(payment[p], u) = -Pending(last, u)
  OBVIOUS
<1>4. /\ pay[p] = row /\ \A q \in Payments \ {p} : pay[q] = payment[q]
      /\ pay = [q \in Payments |-> pay[q]]
  <2>1. DOMAIN payment = Payments
    BY <1>2
  <2> QED BY <1>3, <2>1, WriteAt
<1> HIDE DEF pay, inv, LinedPlan, Advanced
<1>5. pay \in [Payments -> PaymentRow \cup {Absent}]
  BY <1>2, <1>3, <1>4
<1>6. inv \in [Invoices -> InvoiceRow \cup {Absent}]
  BY <1>1 DEF Follows
<1>7. AllFit(inv) /\ Once(inv)
  BY <1>1, <1>2, FollowsFits DEF BillInv, Good
<1>8. ASSUME NEW i \in Invoices
      PROVE  SumFunctionOnSet(AllocOf(pay, i), Payments) = PaidOf(inv[i])
  <2> DEFINE f == AllocOf(payment, i)
             g == AllocOf(pay, i)
  <2>1. /\ \A q \in Payments : f[q] \in Nat /\ g[q] \in Nat
        /\ \A q \in Payments \ {p} : g[q] = f[q]
        /\ g[p] = AllocAt(row, i) /\ f[p] = AllocAt(payment[p], i)
    <3>1. \A q \in Payments : f[q] \in Nat /\ g[q] \in Nat
      BY <1>2, <1>5, AllocType
    <3>2. \A q \in Payments : f[q] = AllocAt(payment[q], i) /\ g[q] = AllocAt(pay[q], i)
      BY DEF AllocOf, AllocAt
    <3> HIDE DEF f, g
    <3> QED BY <1>3, <1>4, <3>1, <3>2
  <2> HIDE DEF f, g
  <2>2. SumFunctionOnSet(g, Payments) = SumFunctionOnSet(f, Payments) + (g[p] - f[p])
    <3>1. \A q \in Payments : f[q] \in Int /\ g[q] \in Int
      BY <2>1
    <3> QED BY <1>3, <2>1, <3>1, FiniteAssumption, SumUpdate
  <2>3. SumFunctionOnSet(f, Payments) = PaidOf(invoice[i])
    BY DEF f, BillInv, Good, PaidIs
  <2>4. CASE i \in S
    <3>1. Exists(invoice[i]) /\ Exists(new[i]) /\ inv[i] = new[i]
      BY <1>1, <1>3, <2>4, RowColumns DEF Rewritten, Kept
    <3>2. new[i].paid = invoice[i].paid + (g[p] - f[p])
      BY <1>3, <2>1, <2>4 DEF Allocated
    <3>3. PaidOf(inv[i]) = new[i].paid /\ PaidOf(invoice[i]) = invoice[i].paid
      BY <3>1 DEF PaidOf
    <3> QED BY <2>2, <2>3, <3>2, <3>3 DEF g
  <2>5. CASE i \notin S
    <3>1. g[p] = f[p] /\ inv[i] = invoice[i]
      BY <1>1, <1>3, <2>1, <2>5 DEF Allocated
    <3>2. SumFunctionOnSet(f, Payments) \in Int
      BY <2>1, FiniteAssumption, SumType
    <3>3. g[p] - f[p] = 0
      BY <1>3, <2>1, <3>1
    <3> QED BY <2>2, <2>3, <3>1, <3>2, <3>3 DEF g
  <2> QED BY <2>4, <2>5
<1>9. Good(inv, pay)
  BY <1>5, <1>6, <1>7, <1>8 DEF Good, Tables, PaidIs
<1>10. /\ posts \in Seq(Post) /\ last \in Seq(Post) /\ posts \o last \in Seq(Post)
       /\ \A u : /\ Pending(posts, u) \in Int
                 /\ Pending(posts \o last, u) = Pending(posts, u) + Pending(last, u)
  BY <1>3, PendingJoin, PendingType DEF Lined
<1>11. ASSUME NEW u \in Units \cup {NoUnit}
       PROVE  SumFunctionOnSet(Claims(inv, u), Invoices)
                = SumFunctionOnSet(Claims(invoice, u), Invoices) + Pending(posts, u)
  <2> DEFINE d == [i \in Invoices |-> Claim(inv[i], u) - Claim(invoice[i], u)]
             f == Claims(invoice, u)
             g == Claims(inv, u)
  <2>1. \A i \in Invoices : /\ f[i] \in Int /\ g[i] \in Int
                            /\ f[i] = Claim(invoice[i], u) /\ g[i] = Claim(inv[i], u)
    BY <1>2, <1>6, ClaimType
  <2>2. \A i \in Invoices : d[i] = g[i] - f[i]
    BY <2>1
  <2> HIDE DEF d
  <2>3. \A i \in Invoices : d[i] \in Int /\ g[i] = f[i] + d[i]
    <3> HIDE DEF f, g
    <3> QED BY <2>1, <2>2
  <2>4. ASSUME NEW k \in DOMAIN posts
        PROVE  d[lines[k]] = Value(posts[k], u)
    <3>1. lines[k] \in S /\ lines[k] \in Invoices /\ posts[k] \in Post
      BY <1>3, <1>10 DEF Lined
    <3>2. Value(posts[k], u) \in Int
      BY <3>1, ValueType
    <3>3. g[lines[k]] = f[lines[k]] + Value(posts[k], u)
      <4>1. g[lines[k]] = Claim(new[lines[k]], u)
        BY <1>1, <2>1, <3>1
      <4>2. f[lines[k]] = Claim(invoice[lines[k]], u)
        BY <2>1, <3>1
      <4> HIDE DEF f, g
      <4> QED BY <1>3, <4>1, <4>2 DEF Lined
    <3> HIDE DEF f, g
    <3> QED BY <2>1, <2>2, <3>1, <3>2, <3>3
  <2>5. ASSUME NEW i \in Invoices, \A k \in DOMAIN posts : lines[k] # i
        PROVE  d[i] = 0
    <3>1. i \notin S
      BY <1>3, <2>5
    <3>2. g[i] = f[i]
      BY <1>1, <2>1, <3>1
    <3> HIDE DEF f, g
    <3> QED BY <2>1, <2>2, <3>2
  <2> HIDE DEF f, g
  <2>6. Pending(posts, u) = SumFunctionOnSet(d, Invoices)
    <3>1. Along(posts, lines, d, u)
      BY <1>3, <2>3, <2>4, <2>5 DEF Along, Lined
    <3> QED BY <1>10, <3>1, PendingAlong
  <2>7. SumFunctionOnSet(g, Invoices) = SumFunctionOnSet(f, Invoices) + SumFunctionOnSet(d, Invoices)
    BY <2>1, <2>3, FiniteAssumption, SumPlus
  <2> QED BY <2>6, <2>7 DEF f, g
<1>12. ASSUME NEW u \in Units \cup {NoUnit}
       PROVE  SumFunctionOnSet(Advances(pay, u), Payments)
                = SumFunctionOnSet(Advances(payment, u), Payments) - Pending(last, u)
  <2> DEFINE f == Advances(payment, u)
             g == Advances(pay, u)
  <2>1. \A q \in Payments : /\ f[q] \in Int /\ g[q] \in Int
                            /\ f[q] = Advance(payment[q], u) /\ g[q] = Advance(pay[q], u)
    BY <1>2, <1>5, AdvanceType
  <2> HIDE DEF f, g
  <2>2. \A q \in Payments \ {p} : g[q] = f[q]
    BY <1>4, <2>1
  <2>3. SumFunctionOnSet(g, Payments) = SumFunctionOnSet(f, Payments) + (g[p] - f[p])
    BY <1>3, <2>1, <2>2, FiniteAssumption, SumUpdate
  <2>4. g[p] - f[p] = -Pending(last, u)
    BY <1>3, <1>4, <2>1
  <2>5. SumFunctionOnSet(f, Payments) \in Int /\ Pending(last, u) \in Int
    <3>1. last \in Seq(Post)
      BY <1>10
    <3> QED BY <2>1, <3>1, FiniteAssumption, SumType, PendingType
  <2> QED BY <2>3, <2>4, <2>5 DEF f, g
<1>13. ASSUME NEW u \in Units \cup {NoUnit}
       PROVE  Dues(inv, pay, u) = Dues(invoice, payment, u) + Pending(posts \o last, u)
  <2>1. /\ SumFunctionOnSet(Claims(invoice, u), Invoices) \in Int
        /\ SumFunctionOnSet(Advances(payment, u), Payments) \in Int
        /\ Pending(last, u) \in Int
    <3>1. last \in Seq(Post)
      BY <1>10
    <3> QED BY <1>2, <3>1, DuesType, PendingType
  <2>2. SumFunctionOnSet(Claims(inv, u), Invoices)
          = SumFunctionOnSet(Claims(invoice, u), Invoices) + Pending(posts, u)
    BY <1>11
  <2>3. SumFunctionOnSet(Advances(pay, u), Payments)
          = SumFunctionOnSet(Advances(payment, u), Payments) - Pending(last, u)
    BY <1>12
  <2>4. Pending(posts, u) \in Int
        /\ Pending(posts \o last, u) = Pending(posts, u) + Pending(last, u)
    BY <1>10
  <2> QED BY <2>1, <2>2, <2>3, <2>4 DEF Dues
<1>14. Ready(invoice, payment, cols, pcols)
  <2>1. \A i \in DOMAIN cols : /\ Exists(invoice[i]) /\ invoice[i].status # "cancelled"
                               /\ "past" \notin DOMAIN cols[i]
    BY <1>1, <1>3 DEF Rewritten
  <2>2. DOMAIN cols \subseteq Invoices /\ DOMAIN pcols \subseteq Payments
    BY <1>1, <1>3
  <2> QED BY <1>9, <2>1, <2>2 DEF Ready, inv, pay
<1>15. Planned(posts \o last, cols, pcols)
  BY <1>10, <1>13, <1>14 DEF Planned, inv, pay
<1> QED BY <1>15

\* What record_payment does to the row of one line.
LEMMA PaidRow ==
  ASSUME NEW old \in InvoiceRow, Fits(old), NEW amount \in Nat \ {0}, AllocationFits(old, amount)
  PROVE  LET new == Paid(old, amount)
         IN  /\ Kept(old, new) /\ new.past = old.past /\ old.status # "cancelled"
             /\ new.paid = old.paid + amount
             /\ \A u : Claim(new, u) = Claim(old, u) + Value(Credit(old.unit, amount), u)
<1> DEFINE d == Total(old) - (old.paid + amount)
           st == IF d <= 0 THEN "paid" ELSE "partially_paid"
           a == [old EXCEPT !.paid = @ + amount]
           b == [a EXCEPT !.due = d]
           new == [b EXCEPT !.status = st]
<1>1. Exists(old) /\ old.status \in Payable /\ amount <= old.due
  BY RowColumns DEF AllocationFits
<1>2. old.due = Total(old) - old.paid /\ Total(old) = old.base + old.late
      /\ old.late \in Nat /\ old.paid \in Nat /\ old.base \in Int /\ old.due \in Int
  BY <1>1, Amounts DEF Fits, Total, Payable
<1>3. d \in Nat /\ d = old.due - amount
  BY <1>1, <1>2
<1>4. Paid(old, amount) = new
  BY DEF Paid
<1> HIDE DEF d
<1>5. st \in {"paid", "partially_paid"} /\ st \in Status
      /\ (st = "paid" => d = 0) /\ (st = "partially_paid" => d > 0)
  BY <1>3 DEF Status, Payable
<1> HIDE DEF st
<1>6. /\ a \in InvoiceRow /\ a.unit = old.unit /\ a.kind = old.kind /\ a.current = old.current
      /\ a.base = old.base /\ a.past = old.past /\ a.late = old.late /\ a.paid = old.paid + amount
  BY <1>2 DEF InvoiceRow
<1> HIDE DEF a
<1>7. /\ b \in InvoiceRow /\ b.unit = old.unit /\ b.kind = old.kind /\ b.current = old.current
      /\ b.base = old.base /\ b.past = old.past /\ b.late = old.late /\ b.paid = old.paid + amount
      /\ b.due = d
  BY <1>3, <1>6 DEF InvoiceRow
<1> HIDE DEF b
<1>8. /\ new \in InvoiceRow /\ new.unit = old.unit /\ new.kind = old.kind
      /\ new.current = old.current /\ new.base = old.base /\ new.past = old.past
      /\ new.late = old.late /\ new.paid = old.paid + amount /\ new.due = d
      /\ new.status = st
  BY <1>5, <1>7 DEF InvoiceRow
<1> HIDE DEF new
<1>9. Exists(new)
  BY <1>8, RowColumns
<1>10. Fits(new)
  <2>1. new.due = Total(new) - new.paid /\ new.paid > 0
    <3>1. Total(new) = Total(old) /\ new.paid = old.paid + amount /\ new.due = old.due - amount
      BY <1>2, <1>3, <1>8 DEF Total
    <3> QED BY <1>2, <3>1
  <2>2. new.kind = "monthly" => new.current
    BY <1>8 DEF Fits
  <2> QED BY <1>5, <1>8, <2>1, <2>2 DEF Fits
<1>11. Kept(old, new) /\ old.status # "cancelled" /\ old.status # "draft"
  BY <1>1, <1>8, <1>10 DEF Kept, Payable
<1>12. ASSUME NEW u
       PROVE  Claim(new, u) = Claim(old, u) + Value(Credit(old.unit, amount), u)
  <2>1. CASE old.unit = u
    <3>1. Claim(new, u) = new.due - new.late
      BY <1>5, <1>8, <1>9, <2>1 DEF Claim
    <3>2. Claim(old, u) = old.due - old.late
      BY <1>1, <1>11, <2>1 DEF Claim
    <3>3. Value(Credit(old.unit, amount), u) = -amount
      BY <2>1 DEF Value, Credit
    <3> QED BY <1>2, <1>3, <1>8, <3>1, <3>2, <3>3
  <2>2. CASE old.unit # u
    BY <1>1, <1>8, <1>9, <2>2 DEF Claim, Value, Credit
  <2> QED BY <2>1, <2>2
<1> QED BY <1>4, <1>8, <1>11, <1>12

\* What refund_payment does to the row of one line.
LEMMA RefundedRow ==
  ASSUME NEW old \in InvoiceRow, Fits(old), NEW amount \in Nat \ {0}, amount <= old.paid
  PROVE  LET new == Refunded(old, amount)
         IN  /\ Kept(old, new) /\ new.past = old.past /\ old.status # "cancelled"
             /\ new.paid = old.paid - amount
             /\ \A u : Claim(new, u) = Claim(old, u) + Value(Debit(old.unit, amount), u)
<1> DEFINE d == Total(old) - (old.paid - amount)
           st == Reopened(old, d)
           a == [old EXCEPT !.paid = @ - amount]
           b == [a EXCEPT !.due = d]
           new == [b EXCEPT !.status = st]
<1>1. Exists(old) /\ old.status \notin {"draft", "posted", "cancelled"}
  <2>1. old.paid \in Nat
    BY Amounts
  <2>2. old.paid # 0
    BY <2>1
  <2> QED BY <2>2, RowColumns DEF Fits
<1>2. old.due = Total(old) - old.paid /\ Total(old) = old.base + old.late
      /\ old.late \in Nat /\ old.paid \in Nat /\ old.base \in Int /\ old.due \in Nat
  <2>1. old.status \in {"partially_paid", "overdue", "paid"}
    BY <1>1, Amounts DEF Status, Payable
  <2>2. old.due \in Int /\ old.due >= 0
    BY <2>1, Amounts DEF Fits
  <2> QED BY <1>1, <2>2, Amounts DEF Fits, Total
<1>3. d \in Nat /\ d = old.due + amount /\ d > 0
      /\ (d < Total(old) => old.paid - amount > 0)
      /\ (~(d < Total(old)) => old.paid - amount = 0)
      /\ old.paid - amount \in Nat
  BY <1>2
<1>4. Refunded(old, amount) = new
  BY DEF Refunded
<1> HIDE DEF d
<1>5. st \in {"partially_paid", "overdue", "posted"} /\ st \in Status
      /\ (st = "partially_paid" => old.paid - amount > 0)
      /\ (st = "posted" => old.paid - amount = 0)
  BY <1>3 DEF Status, Payable, Reopened
<1> HIDE DEF st
<1>6. /\ a \in InvoiceRow /\ a.unit = old.unit /\ a.kind = old.kind /\ a.current = old.current
      /\ a.base = old.base /\ a.past = old.past /\ a.late = old.late /\ a.paid = old.paid - amount
  BY <1>3 DEF InvoiceRow
<1> HIDE DEF a
<1>7. /\ b \in InvoiceRow /\ b.unit = old.unit /\ b.kind = old.kind /\ b.current = old.current
      /\ b.base = old.base /\ b.past = old.past /\ b.late = old.late /\ b.paid = old.paid - amount
      /\ b.due = d
  BY <1>3, <1>6 DEF InvoiceRow
<1> HIDE DEF b
<1>8. /\ new \in InvoiceRow /\ new.unit = old.unit /\ new.kind = old.kind
      /\ new.current = old.current /\ new.base = old.base /\ new.past = old.past
      /\ new.late = old.late /\ new.paid = old.paid - amount /\ new.due = d
      /\ new.status = st
  BY <1>5, <1>7 DEF InvoiceRow
<1> HIDE DEF new
<1>9. Exists(new)
  BY <1>8, RowColumns
<1>10. Fits(new)
  <2>1. new.due = Total(new) - new.paid
    <3>1. Total(new) = Total(old) /\ new.paid = old.paid - amount /\ new.due = old.due + amount
      BY <1>2, <1>3, <1>8 DEF Total
    <3> QED BY <1>2, <3>1
  <2>2. new.kind = "monthly" => new.current
    BY <1>8 DEF Fits
  <2> QED BY <1>3, <1>5, <1>8, <2>1, <2>2 DEF Fits
<1>11. Kept(old, new) /\ old.status # "cancelled" /\ old.status # "draft"
  BY <1>1, <1>8, <1>10 DEF Kept
<1>12. ASSUME NEW u
       PROVE  Claim(new, u) = Claim(old, u) + Value(Debit(old.unit, amount), u)
  <2>1. CASE old.unit = u
    <3>1. Claim(new, u) = new.due - new.late
      BY <1>5, <1>8, <1>9, <2>1 DEF Claim
    <3>2. Claim(old, u) = old.due - old.late
      BY <1>1, <1>11, <2>1 DEF Claim
    <3>3. Value(Debit(old.unit, amount), u) = amount
      BY <2>1 DEF Value, Debit
    <3> QED BY <1>2, <1>3, <1>8, <3>1, <3>2, <3>3
  <2>2. CASE old.unit # u
    BY <1>1, <1>8, <1>9, <2>2 DEF Claim, Value, Debit
  <2> QED BY <2>1, <2>2
<1> QED BY <1>4, <1>8, <1>11, <1>12

PayWith(w, p, unit, advance, lines, amount) ==
  LET target == IF unit = NoUnit /\ lines # <<>> THEN invoice[lines[1]].unit ELSE unit
      line(i) == CHOOSE k \in DOMAIN lines : lines[k] = i
      paid == {lines[k] : k \in DOMAIN lines}
  IN
  /\ ~Exists(payment[p])
  /\ lines # <<>> \/ advance > 0
  /\ \A x \in Workers : txn[x].op # "pay"
  /\ \A k \in DOMAIN lines : AllocationFits(invoice[lines[k]], amount[k])
  /\ Begin(w, "pay",
           [k \in DOMAIN lines |-> Credit(invoice[lines[k]].unit, amount[k])]
             \o IF advance > 0 THEN <<Credit(target, advance)>> ELSE <<>>,
           [i \in paid |-> Diff(invoice[i], Paid(invoice[i], amount[line(i)]))],
           [x \in {p} |->
              [status |-> "success", advance |-> advance,
               unit |-> IF advance > 0 THEN target ELSE NoUnit,
               alloc |-> [i \in Invoices |->
                            IF i \in paid THEN amount[line(i)] ELSE 0]]])

\* record_payment credits each invoice's unit its line, and the advance.
LEMMA PayPlan ==
  ASSUME BillInv, NEW w, BeginPay(w)
  PROVE  \E posts, cols, pcols : Begin(w, "pay", posts, cols, pcols)
                                 /\ Planned(posts, cols, pcols)
<1>1. PICK p \in Payments, unit \in Units \cup {NoUnit}, advance \in Parts \cup {0},
           lines \in UNION {SetToSeqs(S) : S \in SUBSET Recorded} :
        \E amount \in [DOMAIN lines -> Parts] : PayWith(w, p, unit, advance, lines, amount)
  BY DEF BeginPay, PayWith
<1>2. PICK amount \in [DOMAIN lines -> Parts] : PayWith(w, p, unit, advance, lines, amount)
  BY <1>1
<1> DEFINE target == IF unit = NoUnit /\ lines # <<>> THEN invoice[lines[1]].unit ELSE unit
           line(i) == CHOOSE k \in DOMAIN lines : lines[k] = i
           paid == {lines[k] : k \in DOMAIN lines}
           posts == [k \in DOMAIN lines |-> Credit(invoice[lines[k]].unit, amount[k])]
           last == IF advance > 0 THEN <<Credit(target, advance)>> ELSE <<>>
           new == [i \in paid |-> Paid(invoice[i], amount[line(i)])]
           cols == [i \in paid |-> Diff(invoice[i], Paid(invoice[i], amount[line(i)]))]
           alloc == [i \in Invoices |-> IF i \in paid THEN amount[line(i)] ELSE 0]
           row == [status |-> "success", advance |-> advance,
                   unit |-> IF advance > 0 THEN target ELSE NoUnit, alloc |-> alloc]
<1>3. /\ lines \in Seq(Recorded) /\ DOMAIN lines = 1..Len(lines)
      /\ \A k, m \in DOMAIN lines : lines[k] = lines[m] => k = m
  <2>1. PICK S \in SUBSET Recorded : lines \in SetToSeqs(S)
    OBVIOUS
  <2>2. IsFiniteSet(S)
    BY FiniteAssumption, FS_Subset DEF Recorded
  <2>3. lines \in Seq(S) /\ \A k, m \in DOMAIN lines : lines[k] = lines[m] => k = m
    BY <2>1, <2>2, Permutation
  <2> QED BY <2>3
<1>4. \A k \in DOMAIN lines :
        /\ lines[k] \in Invoices /\ invoice[lines[k]] \in InvoiceRow /\ Fits(invoice[lines[k]])
        /\ invoice[lines[k]].unit \in Units
        /\ AllocationFits(invoice[lines[k]], amount[k])
  <2>1. \A k \in DOMAIN lines : lines[k] \in Invoices /\ Exists(invoice[lines[k]])
    BY <1>3 DEF Recorded
  <2>2. \A k \in DOMAIN lines : invoice[lines[k]] \in InvoiceRow /\ Fits(invoice[lines[k]])
    BY <2>1, RowOf
  <2>3. \A k \in DOMAIN lines : invoice[lines[k]].unit \in Units
    BY <2>2, Amounts
  <2>4. \A k \in DOMAIN lines : AllocationFits(invoice[lines[k]], amount[k])
    BY <1>2 DEF PayWith
  <2> QED BY <2>1, <2>2, <2>3, <2>4
<1>5. /\ \A k \in DOMAIN lines : amount[k] \in Nat \ {0}
      /\ advance \in Nat
  <2>1. \A k \in DOMAIN lines : amount[k] \in Parts
    OBVIOUS
  <2>2. advance \in Parts \cup {0}
    OBVIOUS
  <2>3. \A x \in Parts : x \in Nat \ {0}
    BY AmountsAssumption
  <2>4. \A k \in DOMAIN lines : amount[k] \in Nat \ {0}
    BY <2>1, <2>3
  <2>5. advance \in Nat
    BY <2>2, <2>3
  <2> QED BY <2>4, <2>5
<1>6. \A k \in DOMAIN lines : lines[k] \in paid /\ line(lines[k]) = k
                              /\ new[lines[k]] = Paid(invoice[lines[k]], amount[k])
  <2>1. \A k \in DOMAIN lines : line(lines[k]) = k
    BY <1>3
  <2> QED BY <2>1
<1>7. \A i \in paid : \E k \in DOMAIN lines : i = lines[k]
  OBVIOUS
<1>8. /\ \A k \in DOMAIN lines : alloc[lines[k]] = amount[k]
      /\ \A i \in Invoices \ paid : alloc[i] = 0
      /\ alloc \in [Invoices -> Nat]
  <2>1. \A i \in paid : amount[line(i)] \in Nat
    BY <1>5, <1>6, <1>7
  <2> HIDE DEF line, paid
  <2> QED BY <1>4, <1>6, <2>1
<1>9. target \in Units \cup {NoUnit}
  BY <1>3, <1>4
<1>10. cols = [i \in paid |-> Diff(invoice[i], new[i])]
  OBVIOUS
<1>11. /\ posts \in Seq(Post) /\ DOMAIN posts = DOMAIN lines
       /\ \A k \in DOMAIN lines : posts[k] = Credit(invoice[lines[k]].unit, amount[k])
  <2>1. \A k \in DOMAIN lines : posts[k] \in Post
    BY <1>4, <1>5 DEF Post, Credit
  <2>2. posts = [k \in DOMAIN lines |-> posts[k]] /\ DOMAIN posts = DOMAIN lines
        /\ \A k \in DOMAIN lines : posts[k] = Credit(invoice[lines[k]].unit, amount[k])
    OBVIOUS
  <2>3. Len(lines) \in Nat
    BY <1>3
  <2> HIDE DEF posts
  <2> QED BY <1>3, <2>1, <2>2, <2>3
<1>12. row \in PaymentRow /\ row.status = "success" /\ row.advance = advance
       /\ row.unit = (IF advance > 0 THEN target ELSE NoUnit) /\ row.alloc = alloc
  <2> HIDE DEF alloc, target
  <2> QED BY <1>5, <1>8, <1>9 DEF PaymentRow
<1>13. /\ last = (IF advance > 0 THEN <<Credit(target, advance)>> ELSE <<>>)
       /\ row = row
  OBVIOUS
<1> HIDE DEF line, paid, posts, last, new, cols, alloc, row, target
<1>14. paid = {lines[k] : k \in DOMAIN posts}
  BY <1>11 DEF paid
<1>15. \A k \in DOMAIN lines :
         /\ Kept(invoice[lines[k]], new[lines[k]]) /\ new[lines[k]].past = invoice[lines[k]].past
         /\ invoice[lines[k]].status # "cancelled" /\ Exists(invoice[lines[k]])
         /\ new[lines[k]].paid = invoice[lines[k]].paid + amount[k]
         /\ \A u : Claim(new[lines[k]], u) = Claim(invoice[lines[k]], u) + Value(posts[k], u)
  BY <1>4, <1>5, <1>6, <1>11, PaidRow, RowColumns
<1>16. Rewritten(new, paid)
  BY <1>4, <1>7, <1>15 DEF Rewritten
<1>17. Lined(posts, lines, new)
  BY <1>3, <1>4, <1>11, <1>15 DEF Lined
<1>18. payment[p] = Absent
  BY <1>2, PaymentColumns DEF PayWith, BillInv, Good, Tables
<1>19. Allocated(new, paid, p, row)
  <2>1. \A i : AllocAt(payment[p], i) = 0
    BY <1>18 DEF AllocAt, Absent
  <2>2. \A i : AllocAt(row, i) = alloc[i]
    BY <1>12 DEF AllocAt
  <2>3. \A i \in paid : new[i].paid = invoice[i].paid + (alloc[i] - 0)
    <3>1. \A k \in DOMAIN lines : new[lines[k]].paid = invoice[lines[k]].paid + (alloc[lines[k]] - 0)
      BY <1>5, <1>8, <1>15
    <3> QED BY <1>7, <3>1
  <2> QED BY <1>8, <2>1, <2>2, <2>3 DEF Allocated
<1>20. Merge(row, payment[p]) = row
  BY <1>12, <1>18, MergePayment
<1>21. /\ Few(last)
       /\ \A u \in Units \cup {NoUnit} : Advance(row, u) - Advance(payment[p], u) = -Pending(last, u)
  <2>1. \A u : Advance(payment[p], u) = 0
    BY <1>18 DEF Advance, Absent
  <2>2. CASE advance > 0
    <3> DEFINE x == Credit(target, advance)
    <3>1. x \in Post /\ x.unit = target /\ x.delta = -advance
      BY <1>5, <1>9 DEF Post, Credit
    <3>2. last = <<x>> /\ row.unit = target
      BY <1>12, <1>13, <2>2
    <3> HIDE DEF x
    <3>3. \A u : Pending(last, u) = Value(x, u)
      BY <3>1, <3>2, PendingOne
    <3>4. \A u : Advance(row, u) = IF target = u THEN advance ELSE 0
      BY <1>12, <3>2 DEF Advance
    <3>5. \A u : Value(x, u) = IF target = u THEN -advance ELSE 0
      BY <3>1 DEF Value
    <3>6. \A u : Advance(row, u) - 0 = -Value(x, u)
      BY <1>5, <3>4, <3>5
    <3> QED BY <2>1, <3>1, <3>2, <3>3, <3>6 DEF Few
  <2>3. CASE ~(advance > 0)
    <3>1. last = <<>> /\ advance = 0
      BY <1>5, <1>13, <2>3
    <3>2. \A u : Advance(row, u) = 0
      BY <1>12, <3>1 DEF Advance
    <3>3. \A u : Pending(last, u) = 0
      BY <3>1, PendingEmpty
    <3> QED BY <2>1, <3>1, <3>2, <3>3 DEF Few
  <2> QED BY <2>2, <2>3
<1>22. Planned(posts \o last, cols, [x \in {p} |-> row])
  <2> DEFINE pcols == [x \in {p} |-> row]
  <2>1. DOMAIN pcols = {p} /\ pcols[p] = row
    OBVIOUS
  <2> HIDE DEF pcols
  <2>2. LinedPlan(posts, lines, new, paid, p, row, last, cols, pcols)
    BY <1>10, <1>12, <1>14, <1>16, <1>17, <1>19, <1>20, <1>21, <2>1 DEF LinedPlan, Advanced
  <2>3. Planned(posts \o last, cols, pcols)
    BY <2>2, LinesPlan
  <2> QED BY <2>3 DEF pcols
<1>23. Begin(w, "pay", posts \o last, cols, [x \in {p} |-> row])
  BY <1>2 DEF PayWith, posts, last, cols, row, alloc, target, paid, line
<1> QED BY <1>22, <1>23

\* refund_payment debits what record_payment credited: no line is more than its
\* invoice shows as paid, for that is the sum over all payments.
LEMMA RefundPlan ==
  ASSUME BillInv, NEW w, BeginRefund(w)
  PROVE  \E posts, cols, pcols : Begin(w, "refund", posts, cols, pcols)
                                 /\ Planned(posts, cols, pcols)
<1>1. PICK p \in Payments :
        LET alloc == payment[p].alloc
            paid == {i \in Invoices : alloc[i] > 0}
        IN
        /\ Refundable(payment[p])
        /\ \E lines \in SetToSeqs(paid) :
             Begin(w, "refund",
                   [k \in DOMAIN lines |-> Debit(invoice[lines[k]].unit, alloc[lines[k]])]
                     \o IF payment[p].advance > 0
                          THEN <<Debit(payment[p].unit, payment[p].advance)>> ELSE <<>>,
                   [i \in paid |-> Diff(invoice[i], Refunded(invoice[i], alloc[i]))],
                   [x \in {p} |-> [status |-> "refunded"]])
  BY DEF BeginRefund
<1> DEFINE old == payment[p]
           alloc == old.alloc
           advance == old.advance
           paid == {i \in Invoices : alloc[i] > 0}
<1>2. PICK lines \in SetToSeqs(paid) :
        Begin(w, "refund",
              [k \in DOMAIN lines |-> Debit(invoice[lines[k]].unit, alloc[lines[k]])]
                \o IF advance > 0 THEN <<Debit(old.unit, advance)>> ELSE <<>>,
              [i \in paid |-> Diff(invoice[i], Refunded(invoice[i], alloc[i]))],
              [x \in {p} |-> [status |-> "refunded"]])
  BY <1>1
<1> DEFINE posts == [k \in DOMAIN lines |-> Debit(invoice[lines[k]].unit, alloc[lines[k]])]
           last == IF advance > 0 THEN <<Debit(old.unit, advance)>> ELSE <<>>
           new == [i \in paid |-> Refunded(invoice[i], alloc[i])]
           cols == [i \in paid |-> Diff(invoice[i], Refunded(invoice[i], alloc[i]))]
           c == [status |-> "refunded"]
           row == [old EXCEPT !.status = "refunded"]
<1>3. /\ old \in PaymentRow /\ old.status = "success" /\ advance \in Nat
      /\ old.unit \in Units \cup {NoUnit} /\ alloc \in [Invoices -> Nat]
  <2>1. old.status = "success"
    BY <1>1 DEF Refundable
  <2>2. old \in PaymentRow
    BY <2>1 DEF BillInv, Good, Tables, Absent
  <2> QED BY <2>1, <2>2 DEF PaymentRow
<1>4. Merge(c, old) = row /\ row \in PaymentRow /\ row.status = "refunded"
  BY <1>3, MergeRefunded DEF PaymentRow
<1> HIDE DEF row, c
<1>5. ASSUME NEW i \in paid
      PROVE  /\ i \in Invoices /\ alloc[i] \in Nat \ {0} /\ Exists(invoice[i])
             /\ alloc[i] <= invoice[i].paid
  <2> DEFINE f == AllocOf(payment, i)
  <2>1. i \in Invoices /\ alloc[i] \in Nat \ {0}
    BY <1>3
  <2>2. \A q \in Payments : f[q] \in Nat
    BY <2>1, AllocType DEF BillInv, Good, Tables
  <2>3. f[p] = alloc[i]
    BY <1>3 DEF AllocOf
  <2>4. SumFunctionOnSet(f, Payments) = PaidOf(invoice[i])
    BY <2>1 DEF BillInv, Good, PaidIs
  <2> HIDE DEF f
  <2>5. f[p] <= SumFunctionOnSet(f, Payments)
    BY <2>2, FiniteAssumption, SumNat
  <2>6. alloc[i] <= PaidOf(invoice[i])
    BY <2>3, <2>4, <2>5
  <2>7. Exists(invoice[i])
    BY <2>1, <2>6 DEF PaidOf
  <2> QED BY <2>1, <2>6, <2>7 DEF PaidOf
<1>6. /\ lines \in Seq(paid) /\ DOMAIN lines = 1..Len(lines)
      /\ \A k, m \in DOMAIN lines : lines[k] = lines[m] => k = m
      /\ \A i \in paid : \E k \in DOMAIN lines : lines[k] = i
  <2>1. IsFiniteSet(paid)
    BY FiniteAssumption, FS_Subset
  <2> HIDE DEF paid
  <2>2. /\ lines \in Seq(paid)
        /\ \A k, m \in DOMAIN lines : lines[k] = lines[m] => k = m
        /\ \A i \in paid : \E k \in DOMAIN lines : lines[k] = i
    BY <2>1, Permutation
  <2> QED BY <2>2
<1>7. \A i \in paid :
        /\ invoice[i] \in InvoiceRow /\ Fits(invoice[i]) /\ invoice[i].unit \in Units
        /\ new[i] = Refunded(invoice[i], alloc[i])
  <2>1. \A i \in paid : invoice[i] \in InvoiceRow /\ Fits(invoice[i])
    BY <1>5, RowOf
  <2>2. \A i \in paid : new[i] = Refunded(invoice[i], alloc[i])
    OBVIOUS
  <2> HIDE DEF new, paid
  <2> QED BY <2>1, <2>2, Amounts
<1>8. \A k \in DOMAIN lines : lines[k] \in paid
  <2> HIDE DEF paid
  <2> QED BY <1>6
<1>9. cols = [i \in paid |-> Diff(invoice[i], new[i])]
  OBVIOUS
<1>10. /\ posts \in Seq(Post) /\ DOMAIN posts = DOMAIN lines
       /\ \A k \in DOMAIN lines : posts[k] = Debit(invoice[lines[k]].unit, alloc[lines[k]])
  <2>1. \A k \in DOMAIN lines : posts[k] \in Post
    <3> HIDE DEF paid, alloc
    <3> QED BY <1>5, <1>7, <1>8 DEF Post, Debit
  <2>2. posts = [k \in DOMAIN lines |-> posts[k]] /\ DOMAIN posts = DOMAIN lines
        /\ \A k \in DOMAIN lines : posts[k] = Debit(invoice[lines[k]].unit, alloc[lines[k]])
    OBVIOUS
  <2>3. Len(lines) \in Nat
    BY <1>6
  <2> HIDE DEF posts
  <2> QED BY <1>6, <2>1, <2>2, <2>3
<1>11. \A i \in Invoices \ paid : alloc[i] = 0
  BY <1>3
<1>12. last = IF advance > 0 THEN <<Debit(old.unit, advance)>> ELSE <<>>
  OBVIOUS
<1> HIDE DEF paid, posts, last, new, cols, alloc, advance
<1>13. paid = {lines[k] : k \in DOMAIN posts}
  BY <1>6, <1>8, <1>10
<1>14. \A i \in paid :
         /\ Kept(invoice[i], new[i]) /\ new[i].past = invoice[i].past
         /\ invoice[i].status # "cancelled"
         /\ new[i].paid = invoice[i].paid - alloc[i]
         /\ \A u : Claim(new[i], u)
                     = Claim(invoice[i], u) + Value(Debit(invoice[i].unit, alloc[i]), u)
  BY <1>5, <1>7, RefundedRow
<1>15. Rewritten(new, paid)
  BY <1>5, <1>14 DEF Rewritten
<1>16. Lined(posts, lines, new)
  <2>1. \A k \in DOMAIN posts : \A u :
          Claim(new[lines[k]], u) = Claim(invoice[lines[k]], u) + Value(posts[k], u)
    <3> SUFFICES ASSUME NEW k \in DOMAIN posts, NEW u
                 PROVE  Claim(new[lines[k]], u) = Claim(invoice[lines[k]], u) + Value(posts[k], u)
      OBVIOUS
    <3>1. lines[k] \in paid /\ posts[k] = Debit(invoice[lines[k]].unit, alloc[lines[k]])
      BY <1>8, <1>10
    <3> QED BY <1>14, <3>1
  <2>2. \A k \in DOMAIN posts : lines[k] \in Invoices
    BY <1>5, <1>8, <1>10
  <2> QED BY <1>6, <1>10, <2>1, <2>2 DEF Lined
<1>17. Allocated(new, paid, p, row)
  <2>1. \A i : AllocAt(old, i) = alloc[i] /\ AllocAt(row, i) = 0
    BY <1>3, <1>4 DEF AllocAt, alloc
  <2>2. \A i \in paid : new[i].paid = invoice[i].paid + (0 - alloc[i])
    <3>1. \A i \in paid : invoice[i].paid \in Nat
      BY <1>7, Amounts
    <3> QED BY <1>5, <1>14, <3>1
  <2> QED BY <1>11, <2>1, <2>2 DEF Allocated
<1>18. /\ Few(last)
       /\ \A u \in Units \cup {NoUnit} : Advance(row, u) - Advance(old, u) = -Pending(last, u)
  <2>1. \A u : Advance(row, u) = 0 /\ Advance(old, u) = IF old.unit = u THEN advance ELSE 0
    BY <1>3, <1>4 DEF Advance, advance
  <2>2. CASE advance > 0
    <3> DEFINE x == Debit(old.unit, advance)
    <3>1. x \in Post /\ x.unit = old.unit /\ x.delta = advance
      BY <1>3 DEF Post, Debit
    <3>2. last = <<x>>
      BY <1>12, <2>2
    <3> HIDE DEF x
    <3>3. \A u : Pending(last, u) = Value(x, u)
      BY <3>1, <3>2, PendingOne
    <3>4. \A u : Value(x, u) = IF old.unit = u THEN advance ELSE 0
      BY <3>1 DEF Value
    <3>5. \A u : 0 - Advance(old, u) = -Value(x, u)
      BY <1>3, <2>1, <3>4
    <3> QED BY <2>1, <3>1, <3>2, <3>3, <3>5 DEF Few
  <2>3. CASE ~(advance > 0)
    <3>1. last = <<>> /\ advance = 0
      BY <1>3, <1>12, <2>3
    <3>2. \A u : Pending(last, u) = 0
      BY <3>1, PendingEmpty
    <3> QED BY <2>1, <3>1, <3>2 DEF Few
  <2> QED BY <2>2, <2>3
<1>19. Planned(posts \o last, cols, [x \in {p} |-> c])
  <2> DEFINE pcols == [x \in {p} |-> c]
  <2>1. DOMAIN pcols = {p} /\ pcols[p] = c
    OBVIOUS
  <2> HIDE DEF pcols
  <2>2. LinedPlan(posts, lines, new, paid, p, row, last, cols, pcols)
    BY <1>4, <1>9, <1>13, <1>15, <1>16, <1>17, <1>18, <2>1 DEF LinedPlan, Advanced
  <2>3. Planned(posts \o last, cols, pcols)
    BY <2>2, LinesPlan
  <2> QED BY <2>3 DEF pcols
<1>20. Begin(w, "refund", posts \o last, cols, [x \in {p} |-> c])
  BY <1>2 DEF posts, last, cols, c
<1> QED BY <1>19, <1>20

-----------------------------------------------------------------------------
(* The invariant                                                             *)

\* The invariant holds of the empty tables.
LEMMA InitInv == Init => BillInv
<1> SUFFICES ASSUME Init PROVE BillInv
  OBVIOUS
<1>1. /\ \A i \in Invoices : invoice[i] = Absent
      /\ \A p \in Payments : payment[p] = Absent
      /\ \A w \in Workers : txn[w] = Idle
      /\ Tables(invoice, payment) /\ ledger = {}
  BY DEF Init, Tables
<1>2. Shape(txn)
  <2>1. \A w \in Workers : TxnRow(txn[w])
    BY <1>1 DEF TxnRow, Idle
  <2>2. txn = [w \in Workers |-> txn[w]]
    BY DEF Init
  <2> QED BY <2>1, <2>2, TxnShape
<1>3. Good(invoice, payment)
  <2>1. AllFit(invoice) /\ Once(invoice)
    BY <1>1, AbsentRow DEF AllFit, Once
  <2>2. ASSUME NEW i \in Invoices
        PROVE  SumFunctionOnSet(AllocOf(payment, i), Payments) = PaidOf(invoice[i])
    <3>1. \A p \in Payments : AllocOf(payment, i)[p] = 0
      BY <1>1 DEF AllocOf, Absent
    <3>2. PaidOf(invoice[i]) = 0
      BY <1>1, AbsentRow DEF PaidOf
    <3> QED BY <3>1, <3>2, FiniteAssumption, SumZero
  <2> QED BY <1>1, <2>1, <2>2 DEF Good, PaidIs
<1>4. LedgerOK(ledger, txn)
  BY <1>1, FS_EmptySet DEF LedgerOK, Chain
<1>5. ASSUME NEW u \in Units \cup {NoUnit}
      PROVE  Balance(u, {e \in ledger : e.by = NoWorker}) = Dues(invoice, payment, u)
  <2>1. Balance(u, {e \in ledger : e.by = NoWorker}) = 0
    BY <1>1 DEF Balance
  <2>2. \A i \in Invoices : Claims(invoice, u)[i] = 0
    BY <1>1, AbsentRow DEF Claims, Claim
  <2>3. \A p \in Payments : Advances(payment, u)[p] = 0
    BY <1>1 DEF Advances, Advance, Absent
  <2>4. /\ SumFunctionOnSet(Claims(invoice, u), Invoices) = 0
        /\ SumFunctionOnSet(Advances(payment, u), Payments) = 0
    BY <2>2, <2>3, FiniteAssumption, SumZero
  <2> QED BY <2>1, <2>4 DEF Dues
<1> QED BY <1>1, <1>2, <1>3, <1>4, <1>5 DEF BillInv, BooksAgree

\* Every step of a transaction keeps the invariant while no other one is open.
LEMMA HandlerInv ==
  ASSUME BillInv, Serial, Serial', NEW w \in Workers, Handler(w)
  PROVE  BillInv'
<1>1. CASE BeginPost(w)
  BY <1>1, PostPlan, BeginStep
<1>2. CASE BeginCancel(w)
  BY <1>2, CancelPlan, BeginStep
<1>3. CASE BeginPenalty(w)
  BY <1>3, PenaltyPlan, BeginStep
<1>4. CASE BeginMonthly(w)
  BY <1>4, MonthlyPlan, BeginStep
<1>5. CASE BeginSweep(w)
  BY <1>5, SweepPlan, BeginStep
<1>6. CASE BeginPay(w)
  BY <1>6, PayPlan, BeginStep
<1>7. CASE BeginRefund(w)
  BY <1>7, RefundPlan, BeginStep
<1>8. CASE SelectLatest(w)
  BY <1>8, SelectStep
<1>9. CASE Insert(w)
  BY <1>9, InsertStep
<1>10. CASE Commit(w)
  BY <1>10, CommitStep
<1>11. CASE Crash(w)
  BY <1>11, CrashStep
<1> QED BY <1>1, <1>2, <1>3, <1>4, <1>5, <1>6, <1>7, <1>8, <1>9, <1>10, <1>11 DEF Handler

\* Every step keeps the invariant while transactions do not overlap.
LEMMA StepInv ==
  ASSUME BillInv, Serial, Serial', [Next]_vars
  PROVE  BillInv'
<1>1. ASSUME NEW w \in Workers, Handler(w) PROVE BillInv'
  BY <1>1, HandlerInv
<1>2. CASE CreateInvoice
  BY <1>2, CreateStep
<1>3. ASSUME NEW i \in Invoices, FallsDue(i) PROVE BillInv'
  BY <1>3, FallsDueStep
<1>4. CASE UNCHANGED vars
  <2>1. invoice' = invoice /\ payment' = payment /\ ledger' = ledger /\ txn' = txn
    BY <1>4 DEF vars
  <2> QED BY <2>1, InvNext DEF BillInv
<1> QED BY <1>1, <1>2, <1>3, <1>4 DEF Next

\* Transactions that do not overlap keep the invariant.
LEMMA SerialInv == Spec /\ []Serial => []BillInv
<1>1. BillInv /\ Serial /\ Serial' /\ [Next]_vars => BillInv'
  BY StepInv
<1> QED BY <1>1, InitInv, PTL DEF Spec

-----------------------------------------------------------------------------
(* What the invariant gives                                                  *)

\* While the transactions run one after the other, the tables and the ledger
\* keep the columns of the schema, no refund takes what an invoice shows as paid
\* below zero (refund_payment), and the row a transaction selected for its
\* balance is still an entry of the ledger (latest_balance).
THEOREM SerialType == Spec /\ []Serial => []TypeOK
<1>1. BillInv => TypeOK
  <2> SUFFICES ASSUME BillInv PROVE TypeOK
    OBVIOUS
  <2>1. ledger \subseteq LedgerRow /\ IsFiniteSet(ledger)
    BY DEF BillInv, LedgerOK, Chain
  <2>2. ASSUME NEW w \in Workers
        PROVE  txn[w].row \in {0} \cup {e.seq : e \in ledger}
    <3>1. CASE txn[w] = Idle
      BY <3>1 DEF Idle
    <3>2. CASE txn[w] # Idle /\ txn[w].row # 0
      <4> DEFINE mine == Mine(ledger, Head(txn[w].posts).unit)
      <4>1. mine # {} /\ txn[w].row = LatestOf(mine).seq
        BY <3>2 DEF BillInv, OpenOK, Selected
      <4>2. mine \subseteq ledger /\ IsFiniteSet(mine) /\ mine \subseteq LedgerRow
        BY <2>1, FS_Subset DEF Mine
      <4> HIDE DEF mine
      <4>3. LatestOf(mine) \in ledger
        BY <4>1, <4>2, LatestExists
      <4> QED BY <4>1, <4>3
    <3> QED BY <3>1, <3>2
  <2> QED BY <2>1, <2>2 DEF TypeOK, BillInv, Good, Tables
<1> QED BY <1>1, SerialInv, PTL

\* While the transactions run one after the other, the status of every invoice
\* says what has been paid on it, through payments, refunds, late fees and
\* cancellations in any order.
THEOREM SerialStatus == Spec /\ []Serial => []StatusFitsAmounts
<1>1. BillInv => StatusFitsAmounts
  <2> SUFFICES ASSUME BillInv, NEW i \in Recorded
               PROVE  LET row == invoice[i] IN
                      /\ row.due = IF row.status = "cancelled" THEN 0 ELSE Total(row) - row.paid
                      /\ row.status \in {"draft", "posted", "cancelled"} => row.paid = 0
                      /\ row.status = "partially_paid" => row.paid > 0
                      /\ row.status \in {"partially_paid", "overdue"} => row.due > 0
                      /\ row.status = "paid" => row.due = 0
    BY DEF StatusFitsAmounts
  <2>1. Fits(invoice[i])
    BY RowOf DEF Recorded
  <2> QED BY <2>1 DEF Fits
<1> QED BY <1>1, SerialInv, PTL

\* While the transactions run one after the other, however often the monthly job
\* runs, a unit has one monthly invoice that is not cancelled.
THEOREM SerialBilledOnce == Spec /\ []Serial => []BilledOnce
<1>1. BillInv => BilledOnce
  <2> SUFFICES ASSUME BillInv, NEW i \in Recorded, NEW j \in Recorded,
                      {invoice[i].kind, invoice[j].kind} = {"monthly"},
                      invoice[i].unit = invoice[j].unit,
                      "cancelled" \notin {invoice[i].status, invoice[j].status}
               PROVE  i = j
    BY DEF BilledOnce
  <2>1. invoice[i].kind = "monthly" /\ invoice[j].kind = "monthly"
    OBVIOUS
  <2> QED BY <2>1 DEF BillInv, Good, Once, Recorded
<1> QED BY <1>1, SerialInv, PTL

\* While the transactions run one after the other, an invoice shows as paid the
\* sum of what its successful payments allocate to it.
THEOREM SerialAllocated == Spec /\ []Serial => []PaidIsAllocated
<1>1. BillInv => PaidIsAllocated
  <2> SUFFICES ASSUME BillInv, NEW i \in Recorded
               PROVE  invoice[i].paid
                        = SumFunction([p \in Successful |-> payment[p].alloc[i]])
    BY DEF PaidIsAllocated
  <2> DEFINE f == AllocOf(payment, i)
             g == [p \in Successful |-> payment[p].alloc[i]]
  <2>1. \A p \in Payments : f[p] \in Int
    BY AllocType DEF BillInv, Good, Tables, Recorded
  <2>2. Successful \in SUBSET Payments /\ IsFiniteSet(Successful)
    BY FiniteAssumption, FS_Subset DEF Successful
  <2>3. /\ \A p \in Successful : g[p] = f[p]
        /\ \A p \in Payments \ Successful : f[p] = 0
    BY DEF Successful, AllocOf
  <2>4. SumFunction(g) = SumFunctionOnSet(g, Successful)
    BY DEF SumFunction
  <2> HIDE DEF f, g
  <2>5. SumFunctionOnSet(g, Successful) = SumFunctionOnSet(f, Successful)
    BY <2>1, <2>2, <2>3, SumSame
  <2>6. SumFunctionOnSet(f, Payments) = SumFunctionOnSet(f, Successful)
    BY <2>1, <2>2, <2>3, FiniteAssumption, SumOutside
  <2>7. SumFunctionOnSet(f, Payments) = invoice[i].paid
    BY DEF f, BillInv, Good, PaidIs, PaidOf, Recorded
  <2> QED BY <2>4, <2>5, <2>6, <2>7 DEF g
<1> QED BY <1>1, SerialInv, PTL

\* While the transactions run one after the other, the balance of every unit's
\* ledger is what its posted invoices still claim, late fees apart, less the
\* advances not refunded.
THEOREM SerialDues == Spec /\ []Serial => []LedgerIsDues
<1>1. BillInv => LedgerIsDues
  <2> SUFFICES ASSUME BillInv, NEW u \in Units \cup {NoUnit}
               PROVE  Balance(u, Posted) =
                        SumFunction([i \in {i \in Recorded : invoice[i].unit = u
                                                             /\ invoice[i].status # "draft"}
                                      |-> invoice[i].due - invoice[i].late])
                        - SumFunction([p \in {p \in Successful : payment[p].unit = u}
                                        |-> payment[p].advance])
    BY DEF LedgerIsDues
  <2> DEFINE S == {i \in Recorded : invoice[i].unit = u /\ invoice[i].status # "draft"}
             T == {p \in Successful : payment[p].unit = u}
             f == Claims(invoice, u)
             g == Advances(payment, u)
             h == [i \in S |-> invoice[i].due - invoice[i].late]
             k == [p \in T |-> payment[p].advance]
  <2>1. /\ \A i \in Invoices : f[i] \in Int /\ f[i] = Claim(invoice[i], u)
        /\ \A p \in Payments : g[p] \in Int /\ g[p] = Advance(payment[p], u)
    BY ClaimType, AdvanceType DEF BillInv, Good, Tables
  <2>2. S \in SUBSET Invoices /\ IsFiniteSet(S) /\ T \in SUBSET Payments /\ IsFiniteSet(T)
    BY FiniteAssumption, FS_Subset DEF Recorded, Successful
  <2>3. /\ \A i \in S : h[i] = Claim(invoice[i], u)
        /\ \A i \in Invoices \ S : Claim(invoice[i], u) = 0
    BY DEF Claim, Recorded
  <2>4. /\ \A p \in T : k[p] = Advance(payment[p], u)
        /\ \A p \in Payments \ T : Advance(payment[p], u) = 0
    BY DEF Advance, Successful
  <2>5. SumFunction(h) = SumFunctionOnSet(h, S) /\ SumFunction(k) = SumFunctionOnSet(k, T)
    BY DEF SumFunction
  <2>6. Balance(u, Posted) = SumFunctionOnSet(f, Invoices) - SumFunctionOnSet(g, Payments)
    BY DEF f, g, BillInv, BooksAgree, Posted, Dues
  <2> HIDE DEF f, g, h, k, S, T
  <2>7. SumFunctionOnSet(h, S) = SumFunctionOnSet(f, S)
    BY <2>1, <2>2, <2>3, SumSame
  <2>8. SumFunctionOnSet(f, Invoices) = SumFunctionOnSet(f, S)
    BY <2>1, <2>2, <2>3, FiniteAssumption, SumOutside
  <2>9. SumFunctionOnSet(k, T) = SumFunctionOnSet(g, T)
    BY <2>1, <2>2, <2>4, SumSame
  <2>10. SumFunctionOnSet(g, Payments) = SumFunctionOnSet(g, T)
    BY <2>1, <2>2, <2>4, FiniteAssumption, SumOutside
  <2>11. Balance(u, Posted) = SumFunction(h) - SumFunction(k)
    BY <2>5, <2>6, <2>7, <2>8, <2>9, <2>10
  <2> QED BY <2>11 DEF h, k, S, T
<1> QED BY <1>1, SerialInv, PTL

-----------------------------------------------------------------------------
(* Cancelled invoices, whatever transactions overlap                         *)

\* A transaction that records a payment holds the invoices it allocates to;
\* otherwise it marks a payment refunded.
PayCols(cols, held) ==
  /\ "status" \in DOMAIN cols
  /\ cols.status = "refunded" \/
       ("alloc" \in DOMAIN cols /\ \A i \in Invoices : cols.alloc[i] > 0 => i \in held)

OverlapInv ==
  /\ invoice = [i \in Invoices |-> invoice[i]]
  /\ payment = [p \in Payments |-> payment[p]]
  /\ txn = [w \in Workers |-> txn[w]]
  /\ \A w \in Workers : \A p \in DOMAIN txn[w].payments :
       PayCols(txn[w].payments[p], DOMAIN txn[w].invoices)

\* What Begin makes of the transactions.
LEMMA Begun ==
  ASSUME OverlapInv, NEW w \in Workers, NEW op, NEW posts, NEW cols, NEW pcols,
         Begin(w, op, posts, cols, pcols),
         \A p \in DOMAIN pcols : PayCols(pcols[p], DOMAIN cols)
  PROVE  /\ OverlapInv'
         /\ \A i \in Invoices : Settled(i) /\ i \notin DOMAIN cols => Settled(i)'
<1> DEFINE t == [op |-> op, posts |-> posts, row |-> 0, locks |-> {},
                 invoices |-> cols, payments |-> pcols]
<1>1. txn' = [txn EXCEPT ![w] = t] /\ UNCHANGED <<invoice, payment>>
  BY DEF Begin
<1>2. \A v \in Workers : txn'[v] = IF v = w THEN t ELSE txn[v]
  BY <1>1 DEF OverlapInv
<1>3. t.invoices = cols /\ t.payments = pcols
  OBVIOUS
<1> HIDE DEF t
<1>4. OverlapInv'
  <2>1. txn' = [v \in Workers |-> txn'[v]]
    BY <1>1 DEF OverlapInv
  <2>2. /\ invoice' = [i \in Invoices |-> invoice'[i]]
        /\ payment' = [p \in Payments |-> payment'[p]]
    BY <1>1 DEF OverlapInv
  <2>3. ASSUME NEW v \in Workers, NEW p \in DOMAIN txn'[v].payments
        PROVE  PayCols(txn'[v].payments[p], DOMAIN txn'[v].invoices)
    BY <1>2, <1>3 DEF OverlapInv
  <2> QED BY <2>1, <2>2, <2>3 DEF OverlapInv
<1>5. ASSUME NEW i \in Invoices, Settled(i), i \notin DOMAIN cols PROVE Settled(i)'
  BY <1>1, <1>2, <1>3, <1>5 DEF Settled
<1> QED BY <1>4, <1>5

\* A cancelled invoice is neither fresh nor open to be posted, cancelled, paid or
\* swept, and nothing is allocated to it that could be refunded.
LEMMA BeginLeavesSettled ==
  ASSUME OverlapInv, NEW w \in Workers,
         \/ BeginPost(w) \/ BeginCancel(w) \/ BeginPenalty(w) \/ BeginMonthly(w)
         \/ BeginSweep(w) \/ BeginPay(w) \/ BeginRefund(w)
  PROVE  OverlapInv' /\ \A i \in Invoices : Settled(i) => Settled(i)'
<1> DEFINE Stays == OverlapInv' /\ \A i \in Invoices : Settled(i) => Settled(i)'
<1>1. ASSUME NEW op, NEW posts, NEW cols, NEW pcols, Begin(w, op, posts, cols, pcols),
             \A p \in DOMAIN pcols : PayCols(pcols[p], DOMAIN cols),
             \A i \in Invoices : Settled(i) => i \notin DOMAIN cols
      PROVE  Stays
  BY <1>1, Begun
<1>2. \A p \in DOMAIN Nothing : FALSE
  BY DEF Nothing
<1> SUFFICES Stays
  OBVIOUS
<1> HIDE DEF Stays
<1>3. CASE BeginPost(w)
  <2>1. PICK i \in Invoices :
          /\ invoice[i].status = "draft"
          /\ Begin(w, "post", <<Debit(invoice[i].unit, Total(invoice[i]))>>,
                   [j \in {i} |-> [status |-> "posted"]], Nothing)
    BY <1>3, Zenon DEF BeginPost
  <2>2. \A j \in Invoices : Settled(j) => j \notin DOMAIN [k \in {i} |-> [status |-> "posted"]]
    BY <2>1 DEF Settled
  <2> QED BY <1>1, <1>2, <2>1, <2>2
<1>4. CASE BeginCancel(w)
  <2>1. PICK i \in Invoices :
          /\ MayCancel(invoice[i])
          /\ Begin(w, "cancel", CancelPosts(invoice[i]),
                   [j \in {i} |-> Diff(invoice[i], [status |-> "cancelled", due |-> 0])], Nothing)
    BY <1>4, Zenon DEF BeginCancel
  <2> DEFINE cols == [j \in {i} |-> Diff(invoice[i], [status |-> "cancelled", due |-> 0])]
  <2>2. \A j \in Invoices : Settled(j) => j \notin DOMAIN cols
    BY <2>1 DEF Settled, MayCancel
  <2> QED BY <1>1, <1>2, <2>1, <2>2
<1>5. CASE BeginPenalty(w)
  <2>1. PICK i \in Fresh, u \in Units, amount \in Totals, current \in BOOLEAN :
          Begin(w, "penalty", <<Debit(u, amount)>>,
                [j \in {i} |-> NewInvoice(u, "penalty", "posted", amount, current, Number)],
                Nothing)
    BY <1>5, Zenon DEF BeginPenalty
  <2> DEFINE cols == [j \in {i} |-> NewInvoice(u, "penalty", "posted", amount, current, Number)]
  <2>2. \A j \in Invoices : Settled(j) => j \notin DOMAIN cols
    BY DEF Settled, Fresh, Exists
  <2> QED BY <1>1, <1>2, <2>1, <2>2
<1>6. CASE BeginMonthly(w)
  <2> DEFINE posts(units, amounts) == [k \in DOMAIN units |-> Debit(units[k], amounts[k])]
             cols(units, ids, amounts) ==
               [i \in {ids[k] : k \in DOMAIN units} |->
                  LET k == CHOOSE k \in DOMAIN units : ids[k] = i
                  IN  NewInvoice(units[k], "monthly", "posted", amounts[k], TRUE,
                                 Number + k - 1)]
  <2>1. PICK units \in SetToSeqs({u \in Units : Unbilled(u)}) :
          \E ids \in {s \in [DOMAIN units -> Fresh] : IsInjective(s)},
             amounts \in [DOMAIN units -> {total \in Totals : total >= 0}] :
            Begin(w, "monthly", posts(units, amounts), cols(units, ids, amounts), Nothing)
    BY <1>6, Zenon DEF BeginMonthly
  <2>2. PICK ids \in {s \in [DOMAIN units -> Fresh] : IsInjective(s)},
             amounts \in [DOMAIN units -> {total \in Totals : total >= 0}] :
          Begin(w, "monthly", posts(units, amounts), cols(units, ids, amounts), Nothing)
    BY <2>1, Zenon
  <2>3. DOMAIN cols(units, ids, amounts) = {ids[k] : k \in DOMAIN units}
    BY Zenon
  <2> HIDE DEF cols, posts
  <2>4. \A j \in Invoices : Settled(j) => j \notin DOMAIN cols(units, ids, amounts)
    BY <2>3 DEF Settled, Fresh, Exists
  <2> QED BY <1>1, <1>2, <2>2, <2>4
<1>7. CASE BeginSweep(w)
  <2> DEFINE late == {i \in Recorded : Overdue(invoice[i])}
             cols(fee) == [i \in late |->
                             Diff(invoice[i],
                                  IF fee[i] > 0 THEN Charged(invoice[i], fee[i])
                                  ELSE [invoice[i] EXCEPT !.status = "overdue"])]
  <2>1. PICK fee \in [late -> Fees] : Begin(w, "sweep", <<>>, cols(fee), Nothing)
    BY <1>7, Zenon DEF BeginSweep
  <2>2. DOMAIN cols(fee) = late
    BY Zenon
  <2> HIDE DEF cols
  <2>3. \A j \in Invoices : Settled(j) => j \notin DOMAIN cols(fee)
    BY <2>2 DEF Settled, Overdue
  <2> QED BY <1>1, <1>2, <2>1, <2>3
<1>8. CASE BeginPay(w)
  <2> DEFINE target(unit, lines) ==
               IF unit = NoUnit /\ lines # <<>> THEN invoice[lines[1]].unit ELSE unit
             line(lines, i) == CHOOSE k \in DOMAIN lines : lines[k] = i
             paid(lines) == {lines[k] : k \in DOMAIN lines}
             posts(unit, lines, amount, advance) ==
               [k \in DOMAIN lines |-> Credit(invoice[lines[k]].unit, amount[k])]
                 \o IF advance > 0 THEN <<Credit(target(unit, lines), advance)>> ELSE <<>>
             cols(lines, amount) ==
               [i \in paid(lines) |-> Diff(invoice[i], Paid(invoice[i], amount[line(lines, i)]))]
             row(unit, lines, amount, advance) ==
               [status |-> "success", advance |-> advance,
                unit |-> IF advance > 0 THEN target(unit, lines) ELSE NoUnit,
                alloc |-> [i \in Invoices |->
                             IF i \in paid(lines) THEN amount[line(lines, i)] ELSE 0]]
             pcols(p, unit, lines, amount, advance) ==
               [x \in {p} |-> row(unit, lines, amount, advance)]
  <2>1. PICK p \in Payments, unit \in Units \cup {NoUnit}, advance \in Parts \cup {0},
             lines \in UNION {SetToSeqs(S) : S \in SUBSET Recorded} :
          \E amount \in [DOMAIN lines -> Parts] :
            PayWith(w, p, unit, advance, lines, amount)
    BY <1>8 DEF BeginPay, PayWith
  <2>0. PICK amount \in [DOMAIN lines -> Parts] : PayWith(w, p, unit, advance, lines, amount)
    BY <2>1
  <2>2. /\ \A k \in DOMAIN lines : AllocationFits(invoice[lines[k]], amount[k])
        /\ Begin(w, "pay", posts(unit, lines, amount, advance), cols(lines, amount),
                 pcols(p, unit, lines, amount, advance))
    BY <2>0, Zenon DEF PayWith
  <2>3. DOMAIN cols(lines, amount) = paid(lines)
    BY Zenon
  <2>4. \A j \in Invoices : Settled(j) => j \notin paid(lines)
    BY <2>2 DEF Settled, AllocationFits, Payable
  <2> DEFINE pc == pcols(p, unit, lines, amount, advance)
             r == row(unit, lines, amount, advance)
  <2>5. DOMAIN pc = {p} /\ pc[p] = r
    BY Zenon
  <2>6. PayCols(r, paid(lines))
    <3>1. {"status", "alloc"} \subseteq DOMAIN r
      BY Zenon
    <3>2. \A i \in Invoices : r.alloc[i] > 0 => i \in paid(lines)
      <4>1. \A i \in Invoices : r.alloc[i] = IF i \in paid(lines) THEN amount[line(lines, i)] ELSE 0
        BY Zenon
      <4> HIDE DEF r, paid, line
      <4> QED BY <4>1
    <3> HIDE DEF r, paid
    <3> QED BY <3>1, <3>2 DEF PayCols
  <2> HIDE DEF pc, r, paid, cols, posts, pcols
  <2>7. \A x \in DOMAIN pc : PayCols(pc[x], DOMAIN cols(lines, amount))
    BY <2>3, <2>5, <2>6
  <2>8. \A j \in Invoices : Settled(j) => j \notin DOMAIN cols(lines, amount)
    BY <2>3, <2>4
  <2>9. Begin(w, "pay", posts(unit, lines, amount, advance), cols(lines, amount), pc)
    BY <2>2 DEF pc
  <2> QED BY <1>1, <2>7, <2>8, <2>9
<1>9. CASE BeginRefund(w)
  <2> DEFINE alloc(p) == payment[p].alloc
             paid(p) == {i \in Invoices : alloc(p)[i] > 0}
             posts(p, lines) ==
               [k \in DOMAIN lines |-> Debit(invoice[lines[k]].unit, alloc(p)[lines[k]])]
                 \o IF payment[p].advance > 0
                      THEN <<Debit(payment[p].unit, payment[p].advance)>> ELSE <<>>
             cols(p) == [i \in paid(p) |-> Diff(invoice[i], Refunded(invoice[i], alloc(p)[i]))]
             pcols(p) == [x \in {p} |-> [status |-> "refunded"]]
  <2>1. PICK p \in Payments :
          /\ Refundable(payment[p])
          /\ \E lines \in SetToSeqs(paid(p)) :
               Begin(w, "refund", posts(p, lines), cols(p), pcols(p))
    BY <1>9, Zenon DEF BeginRefund
  <2>2. PICK lines \in SetToSeqs(paid(p)) :
          Begin(w, "refund", posts(p, lines), cols(p), pcols(p))
    BY <2>1, Zenon
  <2>3. DOMAIN cols(p) = paid(p)
    BY Zenon
  <2>4. \A j \in Invoices : Settled(j) => j \notin paid(p)
    BY <2>1 DEF Settled, Refundable
  <2>5. \A x \in DOMAIN pcols(p) : PayCols(pcols(p)[x], DOMAIN cols(p))
    <3>1. \A x \in DOMAIN pcols(p) : pcols(p)[x] = [status |-> "refunded"]
      BY Zenon
    <3> HIDE DEF pcols, cols
    <3> QED BY <3>1 DEF PayCols
  <2> HIDE DEF cols, posts, pcols, paid
  <2>6. \A j \in Invoices : Settled(j) => j \notin DOMAIN cols(p)
    BY <2>3, <2>4
  <2> QED BY <1>1, <2>2, <2>5, <2>6
<1> QED BY <1>3, <1>4, <1>5, <1>6, <1>7, <1>8, <1>9

\* A transaction that posts, or rolls back, holds no more than before.
LEMMA LedgerLeavesSettled ==
  ASSUME OverlapInv, NEW w \in Workers, SelectLatest(w) \/ Insert(w) \/ Crash(w)
  PROVE  OverlapInv' /\ \A i \in Invoices : Settled(i) => Settled(i)'
<1>1. UNCHANGED <<invoice, payment>>
  BY DEF SelectLatest, Insert, Crash
<1>2. txn' = [v \in Workers |-> txn'[v]] /\ \A v \in Workers \ {w} : txn'[v] = txn[v]
  BY DEF OverlapInv, SelectLatest, Insert, Crash
<1>3. \/ txn'[w].invoices = txn[w].invoices /\ txn'[w].payments = txn[w].payments
      \/ txn'[w].invoices = Nothing /\ txn'[w].payments = Nothing
  <2>1. CASE SelectLatest(w)
    <3>1. PICK r : txn' = [txn EXCEPT ![w] = [txn[w] EXCEPT !.row = r]]
      BY <2>1 DEF SelectLatest
    <3>2. txn'[w] = [txn[w] EXCEPT !.row = r]
      BY <3>1 DEF OverlapInv
    <3> QED BY <3>2
  <2>2. CASE Insert(w)
    <3>1. PICK op, posts, locks :
            txn' = [txn EXCEPT ![w] = [op |-> op, posts |-> posts, row |-> 0, locks |-> locks,
                      invoices |-> txn[w].invoices, payments |-> txn[w].payments]]
      BY <2>2, Zenon DEF Insert
    <3>2. txn'[w] = [op |-> op, posts |-> posts, row |-> 0, locks |-> locks,
                     invoices |-> txn[w].invoices, payments |-> txn[w].payments]
      BY <3>1 DEF OverlapInv
    <3> QED BY <3>2
  <2>3. CASE Crash(w)
    BY <2>3 DEF Crash, OverlapInv, Idle
  <2> QED BY <2>1, <2>2, <2>3
<1>4. DOMAIN Nothing = {}
  BY DEF Nothing
<1>5. OverlapInv'
  <2>1. ASSUME NEW v \in Workers, NEW p \in DOMAIN txn'[v].payments
        PROVE  PayCols(txn'[v].payments[p], DOMAIN txn'[v].invoices)
    BY <1>2, <1>3, <1>4 DEF OverlapInv
  <2> QED BY <1>1, <1>2, <2>1 DEF OverlapInv
<1>6. ASSUME NEW i \in Invoices, Settled(i) PROVE Settled(i)'
  BY <1>1, <1>2, <1>3, <1>4, <1>6 DEF Settled
<1> QED BY <1>5, <1>6

\* A commit writes the rows its transaction holds, and no settled one is held.
LEMMA CommitLeavesSettled ==
  ASSUME OverlapInv, NEW w \in Workers, Commit(w)
  PROVE  OverlapInv' /\ \A i \in Invoices : Settled(i) => Settled(i)'
<1> DEFINE cols == txn[w].invoices
           pcols == txn[w].payments
<1>1. invoice' = Write(invoice, cols) /\ payment' = Write(payment, pcols)
  BY DEF Commit
<1>2. \A i \in Invoices :
        invoice'[i] = IF i \in DOMAIN cols THEN Merge(cols[i], invoice[i]) ELSE invoice[i]
  BY <1>1 DEF OverlapInv, Write
<1>3. \A p \in Payments :
        payment'[p] = IF p \in DOMAIN pcols THEN Merge(pcols[p], payment[p]) ELSE payment[p]
  BY <1>1 DEF OverlapInv, Write
<1>4. /\ txn' = [v \in Workers |-> txn'[v]]
      /\ \A v \in Workers : txn'[v] = IF v = w THEN Idle ELSE txn[v]
  BY DEF Commit, OverlapInv
<1>5. DOMAIN Idle.invoices = {} /\ DOMAIN Idle.payments = {}
  BY DEF Idle, Nothing
<1>6. OverlapInv'
  <2>1. /\ invoice' = [i \in Invoices |-> invoice'[i]]
        /\ payment' = [p \in Payments |-> payment'[p]]
    BY <1>1 DEF OverlapInv, Write
  <2>2. ASSUME NEW v \in Workers, NEW p \in DOMAIN txn'[v].payments
        PROVE  PayCols(txn'[v].payments[p], DOMAIN txn'[v].invoices)
    BY <1>4, <1>5 DEF OverlapInv
  <2> QED BY <1>4, <2>1, <2>2 DEF OverlapInv
<1>7. ASSUME NEW i \in Invoices, Settled(i) PROVE Settled(i)'
  <2>1. i \notin DOMAIN cols
    BY <1>7 DEF Settled
  <2>2. invoice'[i].status = "cancelled"
    BY <1>2, <1>7, <2>1 DEF Settled
  <2>3. \A v \in Workers : i \notin DOMAIN txn'[v].invoices
    BY <1>4, <1>5, <1>7 DEF Settled
  <2>4. ASSUME NEW p \in Payments
        PROVE  ~(payment'[p].status = "success" /\ payment'[p].alloc[i] > 0)
    <3>1. CASE p \notin DOMAIN pcols
      BY <1>3, <1>7, <3>1 DEF Settled
    <3>2. CASE p \in DOMAIN pcols
      <4>1. PayCols(pcols[p], DOMAIN cols)
        BY <3>2 DEF OverlapInv
      <4>2. payment'[p].status = pcols[p].status
        BY <1>3, <3>2, <4>1 DEF PayCols, Merge
      <4>3. CASE pcols[p].status = "refunded"
        BY <4>2, <4>3
      <4>4. CASE "alloc" \in DOMAIN pcols[p] /\ \A j \in Invoices : pcols[p].alloc[j] > 0 => j \in DOMAIN cols
        <5>1. payment'[p].alloc = pcols[p].alloc
          BY <1>3, <3>2, <4>4 DEF Merge
        <5> QED BY <2>1, <4>4, <5>1
      <4> QED BY <4>1, <4>3, <4>4 DEF PayCols
    <3> QED BY <3>1, <3>2
  <2> QED BY <2>2, <2>3, <2>4 DEF Settled
<1> QED BY <1>6, <1>7

\* Drafts and the clock leave cancelled rows as they are.
LEMMA OthersLeaveSettled ==
  ASSUME OverlapInv,
         CreateInvoice \/ (\E i \in Invoices : FallsDue(i)) \/ UNCHANGED vars
  PROVE  OverlapInv' /\ \A i \in Invoices : Settled(i) => Settled(i)'
<1>1. UNCHANGED <<payment, txn>>
  BY DEF CreateInvoice, FallsDue, vars
<1>2. /\ invoice' = [i \in Invoices |-> invoice'[i]]
      /\ \A i \in Invoices : invoice[i].status = "cancelled" => invoice'[i].status = "cancelled"
  <2>1. CASE CreateInvoice
    <3>1. PICK j \in Fresh : \E row : invoice' = [invoice EXCEPT ![j] = row]
      BY <2>1, Zenon DEF CreateInvoice
    <3>2. invoice[j].status = "absent"
      BY DEF Fresh, Exists
    <3> QED BY <3>1, <3>2 DEF OverlapInv
  <2>2. ASSUME NEW j \in Invoices, FallsDue(j)
        PROVE  /\ invoice' = [i \in Invoices |-> invoice'[i]]
               /\ \A i \in Invoices : invoice[i].status = "cancelled" => invoice'[i].status = "cancelled"
    <3>1. invoice' = [invoice EXCEPT ![j] = [invoice[j] EXCEPT !.past = TRUE]]
      BY <2>2 DEF FallsDue
    <3>2. [invoice[j] EXCEPT !.past = TRUE].status = invoice[j].status
      OBVIOUS
    <3> QED BY <3>1, <3>2 DEF OverlapInv
  <2>3. CASE UNCHANGED vars
    BY <2>3 DEF vars, OverlapInv
  <2> QED BY <2>1, <2>2, <2>3
<1>3. OverlapInv'
  BY <1>1, <1>2 DEF OverlapInv
<1>4. ASSUME NEW i \in Invoices, Settled(i) PROVE Settled(i)'
  BY <1>1, <1>2, <1>4 DEF Settled
<1> QED BY <1>3, <1>4

\* However transactions overlap, a cancelled invoice stays cancelled once what
\* read it earlier has ended and the payments on it are refunded (the status
\* checks of post_invoice, cancel_invoice, record_payment, refund_payment and of
\* the two jobs).
THEOREM CancelledForGood == Spec => SettledIsFinal
<1>1. Init => OverlapInv
  BY DEF Init, OverlapInv, Idle, Nothing
<1>2. OverlapInv /\ [Next]_vars
        => OverlapInv' /\ \A i \in Invoices : Settled(i) => Settled(i)'
  BY BeginLeavesSettled, LedgerLeavesSettled, CommitLeavesSettled, OthersLeaveSettled
  DEF Next, Handler
<1>3. OverlapInv /\ [Next]_vars => [\A i \in Invoices : Settled(i) => Settled(i)']_vars
  BY <1>2
<1> QED BY <1>1, <1>2, <1>3, PTL DEF Spec, SettledIsFinal
=============================================================================
