---------------------------- MODULE BillingProofs ----------------------------
(***************************************************************************)
(* Proofs about Billing, for any payments, fees, receipts, thresholds,     *)
(* deadlines, bounds and faults: TypeOK, LedgerBacked, NothingForgotten,   *)
(* and that Billing implements LedgerPromise.                              *)
(*                                                                         *)
(* LedgerBacked and the promise follow from LedgerInv, which says nothing  *)
(* of cycles and bills: the ledger is well typed and backed, and so is the *)
(* total the scanner has read and not yet applied.  All but five actions   *)
(* leave the ledger as it is.                                              *)
(*                                                                         *)
(* NothingForgotten follows from Books, which adds the types and BookInv.  *)
(* Its inequality is between a sum over entries and a sum over cycles, and *)
(* every action moves units from one side to the other, or to what is      *)
(* lost: there is a lemma for each.  Between the INSERT of a cycle and the *)
(* UPDATE that zeroes the ones carried into it a balance is there twice;   *)
(* BookInv counts it once, which the tasks' reads, old as they are, allow  *)
(* because a cycle that is carried over only ever owes less.               *)
(***************************************************************************)
EXTENDS Billing, Integers, FiniteSets, Functions, FiniteSetTheorems, TLAPS

-----------------------------------------------------------------------------
(* Sums.  What SumFunctionOnSet does to finite sets, for the amounts that  *)
(* must add up.  A fold is a recursive function on the subsets of its set; *)
(* the lemmas come down to one principle of induction over finite sets,    *)
(* stated about a set of sets instead of a predicate.                      *)

\* A family of subsets of S that has {} and is closed under adding an element
\* of S has every finite subset of S.
LEMMA FiniteInduction ==
  ASSUME NEW S, NEW G, {} \in G,
         \A T \in G : \A x \in S : IsFiniteSet(T) /\ T \subseteq S => T \cup {x} \in G
  PROVE  \A T \in SUBSET S : IsFiniteSet(T) => T \in G
<1> DEFINE F == FiniteSubsetsOf(S)
           Bad == F \ G
<1>1. SUFFICES ASSUME Bad # {} PROVE FALSE
  BY DEF FiniteSubsetsOf
<1>2. PICK B \in Bad : \A A \in Bad : ~ (<<A, B>> \in StrictSubsetOrdering(S))
  BY <1>1, WFMin, FS_StrictSubsetOrderingWellFounded
<1>3. B # {} /\ B \subseteq S /\ IsFiniteSet(B)
  BY <1>2 DEF FiniteSubsetsOf
<1>4. PICK x \in B : TRUE
  BY <1>3
<1>5. B \ {x} \in F
  BY <1>3, FS_RemoveElement DEF FiniteSubsetsOf
<1>6. <<B \ {x}, B>> \in StrictSubsetOrdering(S)
  BY <1>3, <1>4 DEF StrictSubsetOrdering
<1>7. B \ {x} \in G
  BY <1>2, <1>5, <1>6
<1>8. (B \ {x}) \cup {x} = B
  BY <1>4
<1>9. B \in G
  BY <1>7, <1>8, <1>3, <1>5 DEF FiniteSubsetsOf
<1> QED  BY <1>2, <1>9

\* The same when a set is in the family because all its proper subsets are.
LEMMA SubsetInduction ==
  ASSUME NEW S, NEW G,
         \A T \in SUBSET S : IsFiniteSet(T) /\ (SUBSET T) \ {T} \subseteq G => T \in G
  PROVE  \A T \in SUBSET S : IsFiniteSet(T) => T \in G
<1> DEFINE F == FiniteSubsetsOf(S)
           Bad == F \ G
<1>1. SUFFICES ASSUME Bad # {} PROVE FALSE
  BY DEF FiniteSubsetsOf
<1>2. PICK B \in Bad : \A A \in Bad : ~ (<<A, B>> \in StrictSubsetOrdering(S))
  BY <1>1, WFMin, FS_StrictSubsetOrderingWellFounded
<1>3. B \subseteq S /\ IsFiniteSet(B)
  BY <1>2 DEF FiniteSubsetsOf
<1>4. ASSUME NEW A \in (SUBSET B) \ {B} PROVE A \in G
  <2>1. A \in F
    BY <1>3, FS_Subset DEF FiniteSubsetsOf
  <2>2. <<A, B>> \in StrictSubsetOrdering(S)
    BY <1>3 DEF StrictSubsetOrdering
  <2> QED  BY <1>2, <2>1, <2>2
<1> QED  BY <1>2, <1>3, <1>4

-----------------------------------------------------------------------------
(* The recursion of the fold.                                              *)

First(s) == CHOOSE x \in s : TRUE

Unfolded(g, f, s) == IF s = {} THEN 0 ELSE f[First(s)] + g[s \ {First(s)}]

IsSum(g, f, S) == g = [s \in SUBSET S |-> Unfolded(g, f, s)]

\* The community modules define the fold so.
LEMMA FoldIsSum ==
  ASSUME NEW f, NEW S
  PROVE  SumFunctionOnSet(f, S) = (CHOOSE g : IsSum(g, f, S))[S]
BY DEF SumFunctionOnSet, FoldFunctionOnSet, MapThenFoldSet, IsSum, Unfolded, First

Sums(f, T) == [s \in SUBSET T |-> SumFunctionOnSet(f, s)]

\* On the subsets of T the recursion has one solution, and it is the fold.
Solved(f, T) == \A g : IsSum(g, f, T) <=> g = Sums(f, T)

\* What a set's subsets have, the set has.
LEMMA SolvedNext ==
  ASSUME NEW f, NEW T, \A U \in (SUBSET T) \ {T} : Solved(f, U)
  PROVE  Solved(f, T)
<1> DEFINE h == [s \in SUBSET T |-> IF s = T THEN Unfolded(Sums(f, T), f, T)
                                    ELSE SumFunctionOnSet(f, s)]
<1>1. \A s \in (SUBSET T) \ {{}} : First(s) \in s
  BY DEF First
<1>2. ASSUME NEW U \in (SUBSET T) \ {T}
      PROVE  SumFunctionOnSet(f, U) = Unfolded(Sums(f, T), f, U)
  <2>1. IsSum(Sums(f, U), f, U)
    BY DEF Solved
  <2>2. Sums(f, U)[U] = Unfolded(Sums(f, U), f, U)
    BY <2>1 DEF IsSum
  <2>3. Sums(f, U)[U] = SumFunctionOnSet(f, U)
    BY DEF Sums
  <2>4. Unfolded(Sums(f, U), f, U) = Unfolded(Sums(f, T), f, U)
    <3>1. CASE U = {}
      BY <3>1 DEF Unfolded
    <3>2. CASE U # {}
      <4>1. U \ {First(U)} \in SUBSET U /\ U \ {First(U)} \in SUBSET T
        OBVIOUS
      <4>2. Sums(f, U)[U \ {First(U)}] = Sums(f, T)[U \ {First(U)}]
        BY <4>1 DEF Sums
      <4> QED  BY <3>2, <4>2 DEF Unfolded
    <3> QED  BY <3>1, <3>2
  <2> QED  BY <2>2, <2>3, <2>4
<1>3. \A U \in SUBSET T : h[U] = Unfolded(Sums(f, T), f, U)
  BY <1>2
<1>4. \A U \in SUBSET T : Unfolded(h, f, U) = Unfolded(Sums(f, T), f, U)
  <2> TAKE U \in SUBSET T
  <2>1. CASE U = {}
    BY <2>1 DEF Unfolded
  <2>2. CASE U # {}
    <3>1. U \ {First(U)} \in SUBSET T /\ U \ {First(U)} # T
      BY <2>2, <1>1
    <3>2. h[U \ {First(U)}] = Sums(f, T)[U \ {First(U)}]
      BY <3>1 DEF Sums
    <3> QED  BY <2>2, <3>2 DEF Unfolded
  <2> QED  BY <2>1, <2>2
<1>5. h = [s \in SUBSET T |-> h[s]]
  OBVIOUS
<1> HIDE DEF h
<1>6. IsSum(h, f, T)
  BY <1>3, <1>4, <1>5 DEF IsSum
<1>7. ASSUME NEW g, IsSum(g, f, T) PROVE g = h
  <2>1. ASSUME NEW U \in (SUBSET T) \ {T} PROVE g[U] = h[U]
    <3> DEFINE r == [s \in SUBSET U |-> g[s]]
    <3>1. \A s \in SUBSET U : r[s] = Unfolded(r, f, s)
      <4> TAKE s \in SUBSET U
      <4>1. g[s] = Unfolded(g, f, s)
        BY <1>7 DEF IsSum
      <4>2. Unfolded(g, f, s) = Unfolded(r, f, s)
        BY DEF Unfolded
      <4> QED  BY <4>1, <4>2
    <3>2. r = [s \in SUBSET U |-> r[s]]
      OBVIOUS
    <3> HIDE DEF r
    <3>3. IsSum(r, f, U)
      BY <3>1, <3>2 DEF IsSum
    <3>4. r = Sums(f, U)
      BY <3>3 DEF Solved
    <3>5. r[U] = SumFunctionOnSet(f, U)
      BY <3>4 DEF Sums
    <3>6. h[U] = SumFunctionOnSet(f, U)
      BY DEF h
    <3> QED  BY <3>5, <3>6 DEF r
  <2>2. g[T] = h[T]
    <3>1. g[T] = Unfolded(g, f, T) /\ h[T] = Unfolded(h, f, T)
      BY <1>6, <1>7 DEF IsSum
    <3>2. CASE T = {}
      BY <3>1, <3>2 DEF Unfolded
    <3>3. CASE T # {}
      <4>1. T \ {First(T)} \in (SUBSET T) \ {T}
        BY <3>3, <1>1
      <4> QED  BY <3>1, <3>3, <4>1, <2>1 DEF Unfolded
    <3> QED  BY <3>2, <3>3
  <2>3. g = [s \in SUBSET T |-> g[s]] /\ h = [s \in SUBSET T |-> h[s]]
    BY <1>6, <1>7 DEF IsSum
  <2>4. \A s \in SUBSET T : g[s] = h[s]
    BY <2>1, <2>2
  <2> QED  BY <2>3, <2>4
<1>8. (CHOOSE g : IsSum(g, f, T)) = h
  BY <1>6, <1>7
<1>9. SumFunctionOnSet(f, T) = h[T]
  BY <1>8, FoldIsSum
<1>10. h = Sums(f, T)
  <2>1. \A s \in SUBSET T : h[s] = SumFunctionOnSet(f, s)
    BY <1>9 DEF h
  <2> QED  BY <2>1, <1>5 DEF Sums
<1> QED  BY <1>6, <1>7, <1>10 DEF Solved

\* So every finite set has it.
LEMMA FoldSolved ==
  ASSUME NEW f, NEW S, IsFiniteSet(S)
  PROVE  Solved(f, S)
<1> DEFINE G == {T \in SUBSET S : Solved(f, T)}
<1>1. \A T \in SUBSET S : (SUBSET T) \ {T} \subseteq G => T \in G
  BY SolvedNext
<1> HIDE DEF G
<1>2. S \in G
  BY <1>1, SubsetInduction
<1> QED  BY <1>2 DEF G

\* One step of the fold, with the element it chooses.
LEMMA FoldStep ==
  ASSUME NEW f, NEW S, IsFiniteSet(S)
  PROVE  /\ SumFunctionOnSet(f, {}) = 0
         /\ S # {} => /\ First(S) \in S
                      /\ SumFunctionOnSet(f, S)
                           = f[First(S)] + SumFunctionOnSet(f, S \ {First(S)})
<1>1. IsSum(Sums(f, S), f, S)
  BY FoldSolved DEF Solved
<1>2. \A s \in SUBSET S : Sums(f, S)[s] = Unfolded(Sums(f, S), f, s)
  BY <1>1 DEF IsSum
<1>3. \A s \in SUBSET S : Sums(f, S)[s] = SumFunctionOnSet(f, s)
  BY DEF Sums
<1>4. S \ {First(S)} \in SUBSET S /\ {} \in SUBSET S /\ S \in SUBSET S
  OBVIOUS
<1>5. S # {} => First(S) \in S
  BY DEF First
<1> QED  BY <1>2, <1>3, <1>4, <1>5 DEF Unfolded

-----------------------------------------------------------------------------
(* What a sum is.                                                          *)

\* A sum of integers is an integer, and does not depend on the order.
LEMMA SumRemove ==
  ASSUME NEW f, NEW S, IsFiniteSet(S), \A x \in S : f[x] \in Int
  PROVE  /\ SumFunctionOnSet(f, S) \in Int
         /\ \A x \in S : SumFunctionOnSet(f, S) = f[x] + SumFunctionOnSet(f, S \ {x})
<1> DEFINE V(s) == SumFunctionOnSet(f, s)
           Good(T) == V(T) \in Int /\ \A x \in T : V(T) = f[x] + V(T \ {x})
           G == {T \in SUBSET S : Good(T)}
<1>1. ASSUME NEW T \in SUBSET S, IsFiniteSet(T), \A U \in (SUBSET T) \ {T} : Good(U)
      PROVE  Good(T)
  <2> HIDE DEF V
  <2>1. V({}) = 0
    BY FoldStep, FS_EmptySet DEF V
  <2>2. CASE T = {}
    BY <2>1, <2>2
  <2>3. CASE T # {}
    <3> DEFINE y == First(T)
    <3>1. y \in T /\ V(T) = f[y] + V(T \ {y})
      BY <1>1, <2>3, FoldStep DEF V
    <3> HIDE DEF y
    <3>2. Good(T \ {y})
      BY <1>1, <3>1
    <3>3. V(T) \in Int
      BY <3>1, <3>2
    <3>4. ASSUME NEW x \in T, x # y PROVE V(T) = f[x] + V(T \ {x})
      <4>1. Good(T \ {x})
        BY <1>1, <3>4
      <4>2. (T \ {x}) \ {y} = (T \ {y}) \ {x}
        OBVIOUS
      <4>3. V(T \ {y}) = f[x] + V((T \ {y}) \ {x})
        BY <3>2, <3>4
      <4>4. V(T \ {x}) = f[y] + V((T \ {y}) \ {x})
        BY <4>1, <4>2, <3>1, <3>4
      <4>5. V((T \ {y}) \ {x}) \in Int
        BY <1>1, <3>1
      <4>6. f[x] \in Int /\ f[y] \in Int
        BY <3>1
      <4>7. \A a, b, c \in Int : a + (b + c) = b + (a + c)
        OBVIOUS
      <4>8. V(T) = f[y] + (f[x] + V((T \ {y}) \ {x}))
        BY <3>1, <4>3
      <4> QED  BY <4>4, <4>5, <4>6, <4>7, <4>8
    <3> QED  BY <3>1, <3>3, <3>4
  <2> QED  BY <2>2, <2>3
<1>2. \A T \in SUBSET S : IsFiniteSet(T) /\ (SUBSET T) \ {T} \subseteq G => T \in G
  BY <1>1
<1> HIDE DEF G
<1>3. S \in G
  BY <1>2, SubsetInduction
<1> QED  BY <1>3 DEF G

\* The empty sum.
LEMMA SumEmpty == \A f : SumFunctionOnSet(f, {}) = 0
BY FoldStep, FS_EmptySet

\* One element more.
LEMMA SumAdd ==
  ASSUME NEW f, NEW S, IsFiniteSet(S), NEW y, y \notin S,
         \A x \in S \cup {y} : f[x] \in Int
  PROVE  SumFunctionOnSet(f, S \cup {y}) = SumFunctionOnSet(f, S) + f[y]
<1>1. IsFiniteSet(S \cup {y}) /\ (S \cup {y}) \ {y} = S
  BY FS_AddElement
<1>2. SumFunctionOnSet(f, S) \in Int /\ f[y] \in Int
  BY SumRemove
<1>3. SumFunctionOnSet(f, S \cup {y}) = f[y] + SumFunctionOnSet(f, (S \cup {y}) \ {y})
  BY <1>1, SumRemove
<1>4. SumFunctionOnSet(f, S \cup {y}) = f[y] + SumFunctionOnSet(f, S)
  BY <1>1, <1>3
<1>5. \A a, b \in Int : a + b = b + a
  OBVIOUS
<1> QED  BY <1>2, <1>4, <1>5

\* A sum depends on the values in its set only.
LEMMA SumSame ==
  ASSUME NEW f, NEW g, NEW S, IsFiniteSet(S), \A x \in S : f[x] = g[x]
  PROVE  SumFunctionOnSet(f, S) = SumFunctionOnSet(g, S)
<1> DEFINE G == {T \in SUBSET S : SumFunctionOnSet(f, T) = SumFunctionOnSet(g, T)}
<1>1. ASSUME NEW T \in SUBSET S, IsFiniteSet(T), (SUBSET T) \ {T} \subseteq G
      PROVE  T \in G
  <2>1. CASE T = {}
    BY <2>1, SumEmpty
  <2>2. CASE T # {}
    <3>1. First(T) \in T
      BY <1>1, <2>2, FoldStep
    <3>2. T \ {First(T)} \in G /\ f[First(T)] = g[First(T)]
      BY <1>1, <3>1
    <3> QED  BY <1>1, <2>2, <3>2, FoldStep
  <2> QED  BY <2>1, <2>2
<1> HIDE DEF G
<1>2. S \in G
  BY <1>1, SubsetInduction
<1> QED  BY <1>2 DEF G

\* One value changes.
LEMMA SumChange ==
  ASSUME NEW f, NEW g, NEW S, IsFiniteSet(S), NEW y \in S,
         \A x \in S : f[x] \in Int /\ g[x] \in Int,
         \A x \in S \ {y} : g[x] = f[x]
  PROVE  SumFunctionOnSet(g, S) = SumFunctionOnSet(f, S) + g[y] - f[y]
<1>1. IsFiniteSet(S \ {y})
  BY FS_RemoveElement
<1>2. SumFunctionOnSet(g, S \ {y}) = SumFunctionOnSet(f, S \ {y})
  BY <1>1, SumSame
<1>3. SumFunctionOnSet(f, S \ {y}) \in Int
  BY <1>1, SumRemove
<1>4. /\ SumFunctionOnSet(f, S) = f[y] + SumFunctionOnSet(f, S \ {y})
      /\ SumFunctionOnSet(g, S) = g[y] + SumFunctionOnSet(g, S \ {y})
  BY SumRemove
<1>5. f[y] \in Int /\ g[y] \in Int
  OBVIOUS
<1> QED  BY <1>2, <1>3, <1>4, <1>5

\* Sums of two terms, in order.
LEMMA SumsOrdered ==
  \A a, b, c, d \in Nat :
    a <= b => /\ a + c \in Nat /\ b + d \in Nat
              /\ c <= d => a + c <= b + d
              /\ a <= b + d
OBVIOUS

\* A set of naturals that is contained in another, value by value, has the
\* smaller sum.
LEMMA SumBound ==
  ASSUME NEW f, NEW g, NEW S, IsFiniteSet(S), NEW T, T \subseteq S,
         \A x \in S : f[x] \in Nat /\ g[x] \in Nat,
         \A x \in T : g[x] <= f[x]
  PROVE  /\ SumFunctionOnSet(g, T) \in Nat
         /\ SumFunctionOnSet(g, T) <= SumFunctionOnSet(f, S)
<1> DEFINE G == {U \in SUBSET S :
                   /\ SumFunctionOnSet(g, T \cap U) \in Nat
                   /\ SumFunctionOnSet(f, U) \in Nat
                   /\ SumFunctionOnSet(g, T \cap U) <= SumFunctionOnSet(f, U)}
<1>1. {} \in G
  <2>1. T \cap {} = {}
    OBVIOUS
  <2> QED  BY <2>1, SumEmpty
<1>2. ASSUME NEW U \in G, NEW y \in S, IsFiniteSet(U), U \subseteq S
      PROVE  U \cup {y} \in G
  <2>1. CASE y \in U
    <3>1. U \cup {y} = U
      BY <2>1
    <3> QED  BY <3>1
  <2>2. CASE y \notin U
    <3>1. SumFunctionOnSet(f, U \cup {y}) = SumFunctionOnSet(f, U) + f[y]
      BY <1>2, <2>2, SumAdd
    <3>2. IsFiniteSet(T \cap U)
      BY <1>2, FS_Intersection
    <3>3. CASE y \in T
      <4>1. T \cap (U \cup {y}) = (T \cap U) \cup {y} /\ y \notin T \cap U
        BY <2>2, <3>3
      <4>2. SumFunctionOnSet(g, (T \cap U) \cup {y}) = SumFunctionOnSet(g, T \cap U) + g[y]
        BY <3>2, <4>1, SumAdd
      <4>3. g[y] <= f[y] /\ g[y] \in Nat /\ f[y] \in Nat
        BY <3>3
      <4>4. /\ SumFunctionOnSet(g, T \cap U) \in Nat /\ SumFunctionOnSet(f, U) \in Nat
            /\ SumFunctionOnSet(g, T \cap U) <= SumFunctionOnSet(f, U)
        OBVIOUS
      <4>5. U \cup {y} \in SUBSET S
        BY <1>2
      <4> HIDE DEF G
      <4>6. /\ SumFunctionOnSet(g, (T \cap U) \cup {y}) \in Nat
            /\ SumFunctionOnSet(f, U \cup {y}) \in Nat
            /\ SumFunctionOnSet(g, (T \cap U) \cup {y}) <= SumFunctionOnSet(f, U \cup {y})
        BY <3>1, <4>2, <4>3, <4>4, SumsOrdered
      <4> QED  BY <4>1, <4>5, <4>6 DEF G
    <3>4. CASE y \notin T
      <4>1. T \cap (U \cup {y}) = T \cap U
        BY <3>4
      <4>2. f[y] \in Nat
        OBVIOUS
      <4>3. /\ SumFunctionOnSet(g, T \cap U) \in Nat /\ SumFunctionOnSet(f, U) \in Nat
            /\ SumFunctionOnSet(g, T \cap U) <= SumFunctionOnSet(f, U)
        OBVIOUS
      <4>4. U \cup {y} \in SUBSET S
        BY <1>2
      <4> HIDE DEF G
      <4>5. /\ SumFunctionOnSet(g, T \cap U) \in Nat
            /\ SumFunctionOnSet(f, U \cup {y}) \in Nat
            /\ SumFunctionOnSet(g, T \cap U) <= SumFunctionOnSet(f, U \cup {y})
        BY <3>1, <4>2, <4>3, SumsOrdered
      <4> QED  BY <4>1, <4>4, <4>5 DEF G
    <3> QED  BY <3>3, <3>4
  <2> QED  BY <2>1, <2>2
<1> HIDE DEF G
<1>3. S \in G
  BY <1>1, <1>2, FiniteInduction
<1>4. T \cap S = T
  OBVIOUS
<1> QED  BY <1>3, <1>4 DEF G

\* A sum of zeroes.
LEMMA SumZero ==
  ASSUME NEW f, NEW S, IsFiniteSet(S), \A x \in S : f[x] = 0
  PROVE  SumFunctionOnSet(f, S) = 0
<1> DEFINE G == {T \in SUBSET S : SumFunctionOnSet(f, T) = 0}
<1>1. {} \in G
  BY SumEmpty
<1>2. ASSUME NEW T \in G, NEW y \in S, IsFiniteSet(T), T \subseteq S
      PROVE  T \cup {y} \in G
  <2>1. CASE y \in T
    <3>1. T \cup {y} = T
      BY <2>1
    <3> QED  BY <3>1
  <2>2. CASE y \notin T
    <3>1. SumFunctionOnSet(f, T \cup {y}) = SumFunctionOnSet(f, T) + f[y]
      BY <1>2, <2>2, SumAdd
    <3> QED  BY <3>1, <1>2
  <2> QED  BY <2>1, <2>2
<1> HIDE DEF G
<1>3. S \in G
  BY <1>1, <1>2, FiniteInduction
<1> QED  BY <1>3 DEF G

\* The sum of a union is at most that of its parts.
LEMMA SumUnion ==
  ASSUME NEW f, NEW S, NEW T, IsFiniteSet(S), IsFiniteSet(T),
         \A x \in S \cup T : f[x] \in Nat
  PROVE  /\ SumFunctionOnSet(f, S \cup T) \in Nat
         /\ SumFunctionOnSet(f, S \cup T)
              <= SumFunctionOnSet(f, S) + SumFunctionOnSet(f, T)
<1> DEFINE V(s) == SumFunctionOnSet(f, s)
           G == {U \in SUBSET T : /\ V(S \cup U) \in Nat /\ V(U) \in Nat
                                  /\ V(S \cup U) <= V(S) + V(U)}
<1>1. V(S) \in Nat
  BY SumBound
<1>2. {} \in G
  <2>1. S \cup {} = S /\ V({}) = 0
    BY SumEmpty
  <2> HIDE DEF V
  <2> QED  BY <1>1, <2>1
<1>3. ASSUME NEW U \in G, NEW y \in T, IsFiniteSet(U), U \subseteq T
      PROVE  U \cup {y} \in G
  <2>1. CASE y \in U
    <3>1. U \cup {y} = U
      BY <2>1
    <3> QED  BY <3>1
  <2>2. CASE y \notin U
    <3>1. V(U \cup {y}) = V(U) + f[y] /\ f[y] \in Nat
      BY <1>3, <2>2, SumAdd
    <3>2. CASE y \in S
      <4>1. S \cup (U \cup {y}) = S \cup U
        BY <3>2
      <4>2. V(S \cup (U \cup {y})) = V(S \cup U)
        BY <4>1
      <4> HIDE DEF V
      <4> QED  BY <1>1, <1>3, <3>1, <4>2
    <3>3. CASE y \notin S
      <4>1. /\ S \cup (U \cup {y}) = (S \cup U) \cup {y} /\ IsFiniteSet(S \cup U)
            /\ y \notin S \cup U
        BY <1>3, <2>2, <3>3, FS_Union
      <4>2. \A x \in (S \cup U) \cup {y} : f[x] \in Int
        BY <1>3
      <4> DEFINE W == S \cup U
      <4>3. SumFunctionOnSet(f, W \cup {y}) = SumFunctionOnSet(f, W) + f[y]
        <5> HIDE DEF W
        <5> QED  BY <4>1, <4>2, SumAdd DEF W
      <4>4. V(S \cup (U \cup {y})) = V(S \cup U) + f[y]
        BY <4>1, <4>3
      <4> HIDE DEF V
      <4> QED  BY <1>1, <1>3, <3>1, <4>4
    <3> QED  BY <3>2, <3>3
  <2> QED  BY <2>1, <2>2
<1> HIDE DEF G
<1>4. T \in G
  BY <1>2, <1>3, FiniteInduction
<1>5. /\ V(S \cup T) \in Nat /\ V(S \cup T) <= V(S) + V(T)
  BY <1>4 DEF G
<1> QED  BY <1>5

\* What is taken off a part is taken off the sum.
LEMMA SumLess ==
  ASSUME NEW f, NEW g, NEW h, NEW S, IsFiniteSet(S), NEW T \in SUBSET S,
         \A x \in S : f[x] \in Nat /\ g[x] \in Nat /\ h[x] \in Nat,
         \A x \in T : h[x] = f[x] - g[x],
         \A x \in S \ T : h[x] = f[x]
  PROVE  SumFunctionOnSet(h, S) = SumFunctionOnSet(f, S) - SumFunctionOnSet(g, T)
<1> DEFINE H(U) == SumFunctionOnSet(h, U)
           F(U) == SumFunctionOnSet(f, U)
           K(U) == SumFunctionOnSet(g, T \cap U)
           G == {U \in SUBSET S : H(U) \in Int /\ F(U) \in Int /\ K(U) \in Int
                                  /\ H(U) = F(U) - K(U)}
<1>1. {} \in G
  <2>1. H({}) = 0 /\ F({}) = 0 /\ K({}) = 0
    BY SumEmpty
  <2> HIDE DEF H, F, K
  <2> QED  BY <2>1
<1>2. ASSUME NEW U \in G, NEW y \in S, IsFiniteSet(U), U \subseteq S
      PROVE  U \cup {y} \in G
  <2>1. CASE y \in U
    <3>1. U \cup {y} = U
      BY <2>1
    <3> QED  BY <3>1
  <2>2. CASE y \notin U
    <3>1. /\ H(U \cup {y}) = H(U) + h[y] /\ F(U \cup {y}) = F(U) + f[y]
          /\ h[y] \in Nat /\ f[y] \in Nat
      BY <1>2, <2>2, SumAdd
    <3>2. CASE y \in T
      <4>1. T \cap (U \cup {y}) = (T \cap U) \cup {y} /\ IsFiniteSet(T \cap U)
        BY <1>2, <3>2, FS_Intersection
      <4> DEFINE W == T \cap U
      <4>2. y \notin W /\ (\A x \in W \cup {y} : g[x] \in Int) /\ IsFiniteSet(W)
        BY <1>2, <2>2, <3>2, <4>1
      <4>3. SumFunctionOnSet(g, W \cup {y}) = SumFunctionOnSet(g, W) + g[y]
        <5> HIDE DEF W
        <5> QED  BY <4>2, SumAdd
      <4>4. K(U \cup {y}) = K(U) + g[y] /\ g[y] \in Nat /\ h[y] = f[y] - g[y]
        BY <3>2, <4>1, <4>3
      <4> HIDE DEF H, F, K
      <4> QED  BY <1>2, <3>1, <4>4
    <3>3. CASE y \notin T
      <4>1. T \cap (U \cup {y}) = T \cap U
        BY <3>3
      <4>2. K(U \cup {y}) = K(U) /\ h[y] = f[y]
        BY <3>3, <4>1
      <4> HIDE DEF H, F, K
      <4> QED  BY <1>2, <3>1, <4>2
    <3> QED  BY <3>2, <3>3
  <2> QED  BY <2>1, <2>2
<1> HIDE DEF G
<1>3. S \in G
  BY <1>1, <1>2, FiniteInduction
<1>4. T \cap S = T
  OBVIOUS
<1> QED  BY <1>3, <1>4 DEF G

\* The sum does not depend on the names of what is summed.
LEMMA SumRenamed ==
  ASSUME NEW f, NEW g, NEW S, IsFiniteSet(S), NEW b,
         \A x, y \in S : b[x] = b[y] => x = y,
         \A x \in S : f[x] \in Int /\ g[b[x]] = f[x]
  PROVE  /\ IsFiniteSet({b[x] : x \in S})
         /\ SumFunctionOnSet(g, {b[x] : x \in S}) = SumFunctionOnSet(f, S)
<1> DEFINE I(U) == {b[x] : x \in U}
           G == {U \in SUBSET S : /\ IsFiniteSet(I(U))
                                  /\ SumFunctionOnSet(g, I(U)) = SumFunctionOnSet(f, U)}
<1>1. {} \in G
  <2>1. I({}) = {}
    OBVIOUS
  <2> QED  BY <2>1, SumEmpty, FS_EmptySet
<1>2. ASSUME NEW U \in G, NEW y \in S, IsFiniteSet(U), U \subseteq S
      PROVE  U \cup {y} \in G
  <2>1. CASE y \in U
    <3>1. U \cup {y} = U
      BY <2>1
    <3> QED  BY <3>1
  <2>2. CASE y \notin U
    <3>1. I(U \cup {y}) = I(U) \cup {b[y]} /\ b[y] \notin I(U)
      BY <1>2, <2>2
    <3>2. \A z \in I(U) \cup {b[y]} : g[z] \in Int
      BY <1>2
    <3>3. SumFunctionOnSet(f, U \cup {y}) = SumFunctionOnSet(f, U) + f[y]
      BY <1>2, <2>2, SumAdd
    <3> HIDE DEF I
    <3>4. IsFiniteSet(I(U)) /\ SumFunctionOnSet(g, I(U)) = SumFunctionOnSet(f, U)
      BY <1>2
    <3>5. SumFunctionOnSet(g, I(U) \cup {b[y]}) = SumFunctionOnSet(g, I(U)) + g[b[y]]
      BY <3>1, <3>2, <3>4, SumAdd
    <3>6. IsFiniteSet(I(U) \cup {b[y]})
      BY <3>4, FS_AddElement
    <3>7. g[b[y]] = f[y]
      OBVIOUS
    <3>8. SumFunctionOnSet(g, I(U \cup {y})) = SumFunctionOnSet(f, U \cup {y})
      BY <3>1, <3>3, <3>4, <3>5, <3>7
    <3>9. IsFiniteSet(I(U \cup {y}))
      BY <3>1, <3>6
    <3> QED  BY <1>2, <3>8, <3>9
  <2> QED  BY <2>1, <2>2
<1> HIDE DEF G
<1>3. S \in G
  BY <1>1, <1>2, FiniteInduction
<1> QED  BY <1>3 DEF G

\* A finite set of integers has a greatest element.
LEMMA Greatest ==
  ASSUME NEW S \in SUBSET Int, IsFiniteSet(S), S # {}
  PROVE  \E x \in S : \A y \in S : x >= y
<1> DEFINE G == {T \in SUBSET S : T # {} => \E x \in T : \A y \in T : x >= y}
<1>1. {} \in G
  OBVIOUS
<1>2. ASSUME NEW T \in G, NEW z \in S, IsFiniteSet(T), T \subseteq S
      PROVE  T \cup {z} \in G
  <2>1. CASE T = {}
    BY <1>2, <2>1
  <2>2. CASE T # {}
    <3>1. PICK x \in T : \A y \in T : x >= y
      BY <1>2, <2>2
    <3>2. CASE x >= z
      BY <1>2, <3>1, <3>2
    <3>3. CASE z > x
      <4>1. z \in Int /\ x \in Int /\ \A y \in T : y \in Int
        BY <1>2
      <4>2. \A y \in T : z >= y
        BY <3>1, <3>3, <4>1
      <4> QED  BY <4>1, <4>2
    <3>4. x \in Int /\ z \in Int
      BY <1>2
    <3> QED  BY <3>2, <3>3, <3>4
  <2> QED  BY <2>1, <2>2
<1> HIDE DEF G
<1>3. S \in G
  BY <1>1, <1>2, FiniteInduction
<1> QED  BY <1>3 DEF G

\* The image of a finite set is finite.
LEMMA FiniteImage ==
  ASSUME NEW S, IsFiniteSet(S), NEW b
  PROVE  IsFiniteSet({b[x] : x \in S})
<1> DEFINE T == {b[x] : x \in S}
           f == [x \in S |-> b[x]]
<1>1. f \in Surjection(S, T)
  BY DEF Surjection
<1> QED  BY <1>1, FS_Surjection

-----------------------------------------------------------------------------
(* The ledger.                                                             *)

\* Where the tasks are.
PcType == pc \in [Tasks -> Labels]

LedgerTypes ==
  /\ entries \in Nat
  /\ rank \in [Payments -> Nat]
  /\ collected \in [Payments -> Nat]
  /\ received \in [Payments -> Nat]
  /\ got \in Nat

\* The total the scanner is about to apply may be old, but has been received.
TotalBacked ==
  pc["scanner"] = "apply" => pay \in Payments /\ got <= received[pay]

LedgerInv ==
  /\ PcType
  /\ LedgerTypes
  /\ LedgerBacked
  /\ TotalBacked

\* What the invariant and the promise are about, but for the scanner's total.
bookVars == <<entries, rank, collected, received>>

-----------------------------------------------------------------------------
(* Steps that leave the ledger alone.                                      *)

\* If the ledger does not change, and the scanner holds what it held or no
\* total at all, the invariant is kept.
LEMMA Undisturbed ==
  ASSUME LedgerInv, PcType', UNCHANGED bookVars, got' \in Nat,
         \/ pc'["scanner"] # "apply"
         \/ UNCHANGED <<pc["scanner"], pay, got>>
  PROVE  LedgerInv'
  <1>1. LedgerTypes'
    BY DEF LedgerInv, LedgerTypes, bookVars
  <1>2. LedgerBacked'
    BY DEF LedgerInv, LedgerBacked, bookVars
  <1>3. TotalBacked'
    BY DEF LedgerInv, TotalBacked, bookVars
  <1>4. QED
    BY <1>1, <1>2, <1>3 DEF LedgerInv

\* A task that goes somewhere leaves the others where they are.
LEMMA GotoOne ==
  ASSUME PcType, NEW t \in Tasks, NEW label \in Labels, Goto(t, label)
  PROVE  /\ PcType'
         /\ pc'[t] = label
         /\ \A u \in Tasks \ {t} : pc'[u] = pc[u]
  BY DEF PcType, Goto
-----------------------------------------------------------------------------
(* The statements on the ledger.                                           *)

\* What a total raises collected to is between what was collected and the fee,
\* and backed by receipts that the total and the collected are backed by.
LEMMA CollectedAfterBounds ==
  ASSUME NEW p \in Payments, LedgerTypes, NEW total \in Nat, NEW r \in Nat,
         collected[p] <= Fee[p], collected[p] <= r, total <= r
  PROVE  /\ CollectedAfter(p, total) \in Nat
         /\ collected[p] <= CollectedAfter(p, total)
         /\ CollectedAfter(p, total) <= Fee[p]
         /\ CollectedAfter(p, total) <= r
  BY FeeAssumption DEF LedgerTypes, CollectedAfter, AtLeast, AtMost

\* What a settlement takes off an entry is a number, nothing off an entry that
\* is not in the ledger, and never more than is left of it.
LEMMA SpreadBounds ==
  ASSUME LedgerTypes, LedgerBacked, NEW c, NEW budget,
         NEW units \in [Payments -> Units], Spread(units, Payable(c), budget),
         NEW p \in Payments
  PROVE  /\ units[p] \in Nat
         /\ rank[p] = 0 => units[p] = 0
         /\ collected[p] + units[p] <= Fee[p]
  <1>1. units[p] \in Nat
    BY FeeAssumption DEF Units
  <1>2. units[p] <= (IF p \in Payable(c) THEN Left[p] ELSE 0)
    BY DEF Spread
  <1>3. collected[p] \in Nat /\ Fee[p] \in Nat /\ collected[p] <= Fee[p]
    BY FeeAssumption DEF LedgerTypes, LedgerBacked
  <1>4. CASE p \in Payable(c)
    <2>1. rank[p] # 0
      BY <1>4 DEF Payable, LedgerTypes
    <2>2. QED
      BY <1>1, <1>2, <1>3, <1>4, <2>1 DEF Left
  <1>5. CASE p \notin Payable(c)
    BY <1>1, <1>2, <1>3, <1>5
  <1>6. QED
    BY <1>4, <1>5

\* One payment is entered: the ledger stays backed, and no other entry moves.
LEMMA Enter ==
  ASSUME LedgerInv, NEW p \in Payments, CreateEntry(p)
  PROVE  LedgerInv' /\ UNCHANGED <<collected, received>> /\ Charged \subseteq Charged'
  <1> USE DEF LedgerInv
  <1>1. /\ UNCHANGED <<collected, received, got>>
        /\ \/ UNCHANGED <<entries, rank>>
           \/ entries' = entries + 1 /\ rank' = [rank EXCEPT ![p] = entries + 1]
    BY DEF CreateEntry
  <1>2. PcType' /\ pc'["scanner"] = "idle"
    BY GotoOne DEF CreateEntry, Tasks, Labels
  <1>3. rank' \in [Payments -> Nat] /\ \A q \in Payments : rank'[q] = 0 => rank[q] = 0
    BY <1>1 DEF LedgerTypes
  <1>4. LedgerTypes'
    BY <1>1, <1>3 DEF LedgerTypes
  <1>5. LedgerBacked'
    BY <1>1, <1>3 DEF LedgerBacked
  <1>6. TotalBacked'
    BY <1>2 DEF TotalBacked
  <1>7. Charged \subseteq Charged'
    BY <1>3 DEF Charged, LedgerTypes
  <1>8. QED
    BY <1>1, <1>2, <1>4, <1>5, <1>6, <1>7

\* A receipt only adds.
LEMMA Received ==
  ASSUME LedgerInv, NEW p \in Payments, Receive(p)
  PROVE  /\ LedgerInv'
         /\ UNCHANGED <<rank, collected>>
         /\ \A q \in Payments : received'[q] >= received[q]
  <1> USE DEF LedgerInv
  <1>1. /\ UNCHANGED <<entries, rank, collected, got>>
        /\ received' = [received EXCEPT ![p] = received[p] + Direct[p]]
    BY DEF Receive
  <1>2. PcType' /\ pc'["scanner"] = "total"
    BY GotoOne DEF Receive, Tasks, Labels
  <1>3. /\ received' \in [Payments -> Nat]
        /\ \A q \in Payments : received'[q] >= received[q]
    <2>1. received[p] + Direct[p] \in Nat /\ received[p] + Direct[p] >= received[p]
      BY FeeAssumption DEF LedgerTypes
    <2>2. QED
      BY <1>1, <2>1 DEF LedgerTypes
  <1>4. LedgerTypes'
    BY <1>1, <1>3 DEF LedgerTypes
  <1>5. LedgerBacked'
    BY <1>1, <1>3 DEF LedgerBacked, LedgerTypes
  <1>6. TotalBacked'
    BY <1>2 DEF TotalBacked
  <1>7. QED
    BY <1>1, <1>2, <1>3, <1>4, <1>5, <1>6

\* The total that is read has been received.
LEMMA Totalled ==
  ASSUME LedgerInv, NEW p \in Payments, TotalReceipts(p)
  PROVE  LedgerInv' /\ UNCHANGED bookVars
  <1> USE DEF LedgerInv
  <1>1. UNCHANGED bookVars /\ got' = received[p] /\ pay' = p
    BY DEF TotalReceipts, dbVars, ledgerVars, bookVars
  <1>2. PcType'
    BY GotoOne DEF TotalReceipts, Tasks, Labels
  <1>3. LedgerTypes' /\ LedgerBacked' /\ TotalBacked'
    BY <1>1 DEF LedgerTypes, LedgerBacked, TotalBacked, bookVars
  <1>4. QED
    BY <1>1, <1>2, <1>3

\* An old total lowers nothing, and is still backed.
LEMMA Applied ==
  ASSUME LedgerInv, NEW p \in Payments, ApplyCollected(p)
  PROVE  /\ LedgerInv'
         /\ UNCHANGED <<rank, received>>
         /\ \A q \in Payments : collected'[q] >= collected[q]
  <1> USE DEF LedgerInv
  <1> DEFINE now == CollectedAfter(p, got)
  <1>1. /\ UNCHANGED <<entries, rank, received>>
        /\ got' = 0
        /\ \/ UNCHANGED collected
           \/ rank[p] # 0 /\ collected' = [collected EXCEPT ![p] = now]
    BY DEF ApplyCollected
  <1>2. PcType' /\ pc'["scanner"] = "idle"
    BY GotoOne DEF ApplyCollected, Tasks, Labels
  <1>3. now \in Nat /\ collected[p] <= now /\ now <= Fee[p] /\ now <= received[p]
    <2>1. got <= received[p]
      BY DEF ApplyCollected, TotalBacked
    <2>2. collected[p] <= Fee[p] /\ collected[p] <= received[p]
      BY DEF LedgerBacked
    <2>3. got \in Nat /\ received[p] \in Nat
      BY DEF LedgerTypes
    <2>4. QED
      BY <2>1, <2>2, <2>3, CollectedAfterBounds
  <1> HIDE DEF now
  <1>4. /\ collected' \in [Payments -> Nat]
        /\ \A q \in Payments : collected'[q] >= collected[q]
    BY <1>1, <1>3 DEF LedgerTypes
  <1>5. LedgerTypes'
    BY <1>1, <1>4 DEF LedgerTypes
  <1>6. LedgerBacked'
    BY <1>1, <1>3 DEF LedgerBacked, LedgerTypes
  <1>7. TotalBacked'
    BY <1>2 DEF TotalBacked
  <1>8. QED
    BY <1>1, <1>2, <1>4, <1>5, <1>6, <1>7

\* A settlement adds the same units to what is collected and to the receipts.
LEMMA Claimed ==
  ASSUME LedgerInv, NEW c \in Cycles, NEW b \in Bills, Claim(c, b)
  PROVE  /\ LedgerInv'
         /\ UNCHANGED rank
         /\ \A q \in Payments : /\ received'[q] >= received[q]
                                /\ collected'[q] >= collected[q]
  <1> USE DEF LedgerInv
  <1>1. UNCHANGED <<entries, rank, pc, pay, got>>
    BY DEF Claim, scannerVars
  <1>2. CASE UNCHANGED <<collected, received>>
    <2>1. LedgerInv'
      BY <1>1, <1>2
      DEF LedgerTypes, LedgerBacked, TotalBacked, PcType
    <2>2. QED
      BY <1>1, <1>2, <2>1 DEF LedgerTypes
  <1>3. CASE ~UNCHANGED <<collected, received>>
    <2>1. PICK units \in [Payments -> Units] :
            /\ Spread(units, Payable(c), bill[b].price)
            /\ collected' = [p \in Payments |-> collected[p] + units[p]]
            /\ received' = [p \in Payments |-> received[p] + units[p]]
      BY <1>3 DEF Claim
    <2>2. \A p \in Payments : /\ units[p] \in Nat
                              /\ rank[p] = 0 => units[p] = 0
                              /\ collected[p] + units[p] <= Fee[p]
      BY <2>1, SpreadBounds
    <2>3. /\ collected' \in [Payments -> Nat]
          /\ received' \in [Payments -> Nat]
          /\ \A q \in Payments : /\ received'[q] >= received[q]
                                 /\ collected'[q] >= collected[q]
      BY <2>1, <2>2 DEF LedgerTypes
    <2>4. LedgerTypes'
      BY <1>1, <2>3 DEF LedgerTypes
    <2>5. LedgerBacked'
      BY <1>1, <2>1, <2>2 DEF LedgerBacked, LedgerTypes
    <2>6. TotalBacked'
      BY <1>1, <2>3 DEF TotalBacked, LedgerTypes
    <2>7. PcType'
      BY <1>1 DEF PcType
    <2>8. QED
      BY <1>1, <2>3, <2>4, <2>5, <2>6, <2>7
  <1>4. QED
    BY <1>2, <1>3

-----------------------------------------------------------------------------
(* The other statements.                                                   *)

\* Making sure of a cycle touches no entry.
LEMMA Ensured ==
  ASSUME LedgerInv, NEW t \in Tasks, Ensure(t)
  PROVE  LedgerInv' /\ UNCHANGED bookVars
  <1>1. UNCHANGED bookVars /\ UNCHANGED <<pay, got>>
    BY DEF Ensure, FindOpen, SumCarried, InsertCycle, ZeroCarried, dbVars,
           ledgerVars, bookVars, scannerVars
  <1>2. PICK label \in {"enter", "close", "sum", "insert", "zero"} : Goto(t, label)
    BY DEF Ensure, FindOpen, SumCarried, InsertCycle, ZeroCarried, After
  <1>3. PcType' /\ (pc'["scanner"] # "apply" \/ pc'["scanner"] = pc["scanner"])
    BY <1>2, GotoOne DEF LedgerInv, Tasks, Labels
  <1>4. got' \in Nat
    BY <1>1 DEF LedgerInv, LedgerTypes
  <1>5. QED
    BY <1>1, <1>3, <1>4, Undisturbed

\* Nor does the hourly task.
LEMMA HourlyStep ==
  ASSUME LedgerInv, Hourly
  PROVE  LedgerInv' /\ UNCHANGED bookVars
  <1>1. CASE Ensure("hourly")
    BY <1>1, Ensured DEF Tasks
  <1>2. CASE ~Ensure("hourly")
    <2>1. UNCHANGED bookVars /\ UNCHANGED <<pay, got>>
      BY <1>2
      DEF Hourly, ReadExpired, ClosePaid, CarryOver, Invoice, Closed, Overdue,
          Suspend, ReadOverdue, ReadPastDue, Judge, UpgradeTier, dbVars,
          ledgerVars, bookVars, scannerVars
    <2>2. PICK label \in Labels : Goto("hourly", label)
      BY <1>2
      DEF Hourly, ReadExpired, ClosePaid, CarryOver, Invoice, Closed, Overdue,
          Suspend, ReadOverdue, ReadPastDue, Judge, UpgradeTier, Labels
    <2>3. PcType' /\ pc'["scanner"] = pc["scanner"]
      BY <2>2, GotoOne DEF LedgerInv, Tasks
    <2>4. got' \in Nat
      BY <2>1 DEF LedgerInv, LedgerTypes
    <2>5. QED
      BY <2>1, <2>3, <2>4, Undisturbed
  <1>3. QED
    BY <1>1, <1>2

\* Nor do the merchant, the clock, reads and faults.
LEMMA OtherStep ==
  ASSUME LedgerInv,
         \/ \E p \in Payments : Confirm(p)
         \/ ReadSettled \/ Merchant \/ Tick \/ FailScanner \/ FailHourly \/ Crash
  PROVE  LedgerInv' /\ UNCHANGED bookVars
  <1>1. UNCHANGED bookVars
    BY DEF Confirm, ReadSettled, Merchant, Settle, Link, PayBill, Tick,
           FailScanner, FailHourly, Crash, dbVars, ledgerVars, bookVars
  <1>2. got' \in Nat
    <2>1. ReadSettled \/ Merchant \/ Tick => got' = got
      BY DEF ReadSettled, Merchant, Settle, Link, PayBill, Tick, scannerVars
    <2>2. (\E p \in Payments : Confirm(p)) \/ FailHourly => got' = got
      BY DEF Confirm, FailHourly, scannerVars
    <2>3. FailScanner \/ Crash => got' = 0
      BY DEF FailScanner, Crash
    <2>4. got \in Nat
      BY DEF LedgerInv, LedgerTypes
    <2>5. QED
      BY <2>1, <2>2, <2>3, <2>4
  <1>3. CASE UNCHANGED <<pc, pay, got>>
    BY <1>1, <1>2, <1>3, Undisturbed DEF LedgerInv, PcType
  <1>4. CASE \E p \in Payments : Confirm(p)
    <2>1. PcType' /\ pc'["scanner"] = "find"
      BY <1>4, GotoOne DEF Confirm, LedgerInv, Tasks, Labels
    <2>2. QED
      BY <1>1, <1>2, <2>1, Undisturbed
  <1>5. CASE FailScanner
    <2>1. PcType' /\ pc'["scanner"] \in {"enter", "idle"}
      BY <1>5, GotoOne DEF FailScanner, LedgerInv, Tasks, Labels
    <2>2. QED
      BY <1>1, <1>2, <2>1, Undisturbed
  <1>6. CASE FailHourly
    <2>1. PcType' /\ pc'["scanner"] = pc["scanner"] /\ UNCHANGED <<pay, got>>
      BY <1>6, GotoOne DEF FailHourly, LedgerInv, Tasks, Labels, scannerVars
    <2>2. QED
      BY <1>1, <1>2, <2>1, Undisturbed
  <1>7. CASE Crash
    <2>1. PcType' /\ pc'["scanner"] = "idle"
      BY <1>7 DEF Crash, PcType, Tasks, Labels
    <2>2. QED
      BY <1>1, <1>2, <2>1, Undisturbed
  <1>8. CASE ReadSettled \/ Merchant \/ Tick
    <2>1. UNCHANGED <<pc, pay, got>>
      BY <1>8
      DEF ReadSettled, Merchant, Settle, Link, PayBill, Tick, scannerVars
    <2>2. QED
      BY <1>3, <2>1
  <1>9. QED
    BY <1>4, <1>5, <1>6, <1>7, <1>8

-----------------------------------------------------------------------------
(* The invariant and the promise.                                          *)

LEMMA InitInv == Init => LedgerInv
  BY FeeAssumption
  DEF Init, LedgerInv, LedgerTypes, LedgerBacked, TotalBacked, PcType, Tasks, Labels

\* A step keeps the invariant, and what it does to the ledger is promised.
LEMMA Step ==
  ASSUME LedgerInv, [Next]_vars
  PROVE  LedgerInv' /\ [Promise!Next]_(Promise!vars)
  <1> DEFINE Grows == /\ Charged \subseteq Charged'
                      /\ \A p \in Payments : /\ received'[p] >= received[p]
                                             /\ collected'[p] >= collected[p]
  <1> USE DEF bookVars
  <1>1. ASSUME LedgerInv', Grows PROVE Promise!Next
    <2> SUFFICES ASSUME NEW p \in Payments PROVE Promise!Advance(p)
      BY <1>1 DEF Promise!Next
    <2>1. collected'[p] <= Fee[p] /\ collected'[p] <= received'[p]
      BY <1>1 DEF LedgerInv, LedgerBacked
    <2>2. p \notin Charged' => collected'[p] = 0
      BY <1>1 DEF LedgerInv, LedgerBacked, LedgerTypes, Charged
    <2>3. QED
      BY <1>1, <2>1, <2>2 DEF Promise!Advance, Promise!Backed
  <1>2. ASSUME UNCHANGED bookVars PROVE UNCHANGED Promise!vars
    BY <1>2 DEF Promise!vars, Charged
  <1>3. ASSUME NEW p \in Payments, CreateEntry(p) PROVE LedgerInv' /\ Grows
    BY <1>3, Enter DEF LedgerInv, LedgerTypes
  <1>4. ASSUME NEW p \in Payments, Receive(p) PROVE LedgerInv' /\ Grows
    BY <1>4, Received DEF LedgerInv, LedgerTypes, Charged
  <1>5. ASSUME NEW p \in Payments, ApplyCollected(p) PROVE LedgerInv' /\ Grows
    BY <1>5, Applied DEF LedgerInv, LedgerTypes, Charged
  <1>6. ASSUME NEW c \in Cycles, NEW b \in Bills, Claim(c, b)
        PROVE  LedgerInv' /\ Grows
    BY <1>6, Claimed DEF Charged
  <1>7. CASE UNCHANGED vars
    <2>1. UNCHANGED bookVars /\ UNCHANGED <<pc, pay, got>>
      BY <1>7 DEF vars, dbVars, ledgerVars, scannerVars
    <2>2. LedgerInv'
      BY <2>1 DEF LedgerInv, PcType, LedgerTypes, LedgerBacked, TotalBacked
    <2>3. QED
      BY <1>2, <2>1, <2>2
  <1>8. CASE Next
    <2>1. CASE Ensure("scanner")
      BY <1>2, <2>1, Ensured DEF Tasks
    <2>2. ASSUME NEW p \in Payments, TotalReceipts(p)
          PROVE  LedgerInv' /\ UNCHANGED bookVars
      BY <2>2, Totalled
    <2>3. CASE Hourly
      BY <1>2, <2>3, HourlyStep
    <2>4. CASE \/ \E p \in Payments : Confirm(p)
               \/ ReadSettled \/ Merchant \/ Tick \/ FailScanner \/ FailHourly
               \/ Crash
      BY <1>2, <2>4, OtherStep
    <2>5. CASE Scanner
      BY <1>1, <1>2, <1>3, <1>4, <1>5, <2>1, <2>2, <2>4, <2>5 DEF Scanner
    <2>6. CASE Mempool
      BY <1>1, <1>6, <2>4, <2>6 DEF Mempool
    <2>7. QED
      BY <1>8, <2>3, <2>4, <2>5, <2>6 DEF Next
  <1>9. QED
    BY <1>7, <1>8

\* What is marked collected for a payment never exceeds its fee, nor the
\* receipts that back it, and nothing is collected for a payment that is not in
\* the ledger: record_direct_receipt, apply_collected and
\* check_settlement_payments interleave safely, whatever fails in between.
THEOREM Backed == Spec => []LedgerBacked
  <1>1. LedgerInv /\ [Next]_vars => LedgerInv'
    BY Step
  <1>2. LedgerInv => LedgerBacked
    BY DEF LedgerInv
  <1>3. QED
    BY InitInv, <1>1, <1>2, PTL DEF Spec

\* Billing implements LedgerPromise: entries are never removed, receipts and
\* what is collected only grow.
THEOREM PromiseKept == Spec => KeepsPromise
  <1>1. Init => Promise!Init
    BY FeeAssumption DEF Init, Promise!Init, Charged
  <1>2. LedgerInv /\ [Next]_vars => LedgerInv' /\ [Promise!Next]_(Promise!vars)
    BY Step
  <1>3. QED
    BY InitInv, <1>1, <1>2, PTL DEF Spec, KeepsPromise, Promise!Spec

-----------------------------------------------------------------------------
(* What the tasks read, and types.                                         *)

\* Cycles are finitely many.
LEMMA CyclesFinite ==
  /\ IsFiniteSet(Cycles) /\ Cycles \subseteq Int
  /\ \A S \in SUBSET Cycles : IsFiniteSet(S)
  <1>1. 1 \in Int /\ MaxCycles \in Int
    BY BoundAssumption
  <1>2. IsFiniteSet(Cycles)
    BY <1>1, FS_Interval DEF Cycles
  <1>3. Cycles \subseteq Int
    BY DEF Cycles
  <1>4. QED
    BY <1>2, <1>3, FS_Subset

\* The youngest of some cycles is one of them.
LEMMA YoungestIs ==
  ASSUME NEW S \in SUBSET Cycles
  PROVE  Youngest(S) \in {0} \cup Cycles /\ (Youngest(S) # 0 => Youngest(S) \in S)
  <1>1. ASSUME S # {} PROVE Max(S) \in S
    BY <1>1, CyclesFinite, Greatest DEF Max
  <1>2. QED
    BY <1>1 DEF Youngest

\* What a task reads of some cycles.
LEMMA ReadIs ==
  ASSUME cyc \in [Cycles -> CycleRow], NEW S \in SUBSET Cycles
  PROVE  /\ Read(S) \in SUBSET Snapshot /\ IsFiniteSet(Read(S)) /\ OneEach(Read(S))
         /\ \A r \in Read(S) : r.c \in S /\ r.owed = cyc[r.c].owed
         /\ S = {r.c : r \in Read(S)}
  <1> DEFINE row == [c \in S |-> [c |-> c, owed |-> cyc[c].owed]]
  <1>1. IsFiniteSet(S)
    BY CyclesFinite
  <1>2. IsFiniteSet({row[c] : c \in S})
    BY <1>1, FiniteImage
  <1>3. \A c \in S : cyc[c].owed \in Nat
    BY DEF CycleRow
  <1>4. Read(S) = {row[c] : c \in S}
    BY DEF Read
  <1>5. \A c \in S : row[c] \in Snapshot /\ row[c].c = c /\ row[c].owed = cyc[c].owed
    BY <1>3 DEF Snapshot
  <1> HIDE DEF row
  <1>6. \A r \in Read(S) : r.c \in S /\ r = row[r.c] /\ r.owed = cyc[r.c].owed
    BY <1>4, <1>5
  <1>7. Read(S) \in SUBSET Snapshot /\ OneEach(Read(S))
    BY <1>4, <1>5, <1>6 DEF OneEach
  <1>8. S = {r.c : r \in Read(S)}
    BY <1>4, <1>5, <1>6
  <1>9. QED
    BY <1>2, <1>4, <1>6, <1>7, <1>8

\* The sum of what is owed, by record and by cycle.
LEMMA OwedIs ==
  ASSUME NEW R \in SUBSET Snapshot, IsFiniteSet(R), OneEach(R),
         cyc \in [Cycles -> CycleRow], \A r \in R : cyc[r.c].owed <= r.owed
  PROVE  /\ Owed(R) \in Nat
         /\ SumFunctionOnSet(Asked, {r.c : r \in R}) \in Nat
         /\ SumFunctionOnSet(Asked, {r.c : r \in R}) <= Owed(R)
         /\ (\A r \in R : cyc[r.c].owed = r.owed)
              => SumFunctionOnSet(Asked, {r.c : r \in R}) = Owed(R)
  <1> DEFINE f == [r \in R |-> r.owed]
             b == [r \in R |-> r.c]
             h == [r \in R |-> Asked[r.c]]
  <1>1. \A r \in R : /\ f[r] \in Nat /\ h[r] \in Nat /\ h[r] <= f[r]
                     /\ h[r] \in Int /\ Asked[b[r]] = h[r] /\ b[r] = r.c
                     /\ f[r] = r.owed /\ h[r] = cyc[r.c].owed
    BY DEF Snapshot, Asked, CycleRow
  <1>2. \A r, s \in R : b[r] = b[s] => r = s
    BY DEF OneEach
  <1>3. {b[r] : r \in R} = {r.c : r \in R}
    BY <1>1
  <1>4. Owed(R) = SumFunctionOnSet(f, R)
    BY DEF Owed
  <1> HIDE DEF f, b, h
  <1>10. \A r \in R : h[r] \in Int /\ Asked[b[r]] = h[r]
    BY <1>1
  <1>5. SumFunctionOnSet(Asked, {b[r] : r \in R}) = SumFunctionOnSet(h, R)
    BY <1>2, <1>10, SumRenamed
  <1>6. SumFunctionOnSet(f, R) \in Nat
    BY <1>1, SumBound
  <1>7. SumFunctionOnSet(h, R) \in Nat /\ SumFunctionOnSet(h, R) <= SumFunctionOnSet(f, R)
    BY <1>1, SumBound
  <1>8. (\A r \in R : cyc[r.c].owed = r.owed)
          => SumFunctionOnSet(h, R) = SumFunctionOnSet(f, R)
    BY <1>1, SumSame
  <1>9. QED
    BY <1>3, <1>4, <1>5, <1>6, <1>7, <1>8

\* What is left of a set of entries.
LEMMA LeftIs ==
  ASSUME LedgerTypes, LedgerBacked, NEW S \in SUBSET Charged, IsFiniteSet(Charged)
  PROVE  /\ \A p \in Payments : Left[p] \in Nat /\ Left[p] = Fee[p] - collected[p]
         /\ IsFiniteSet(S) /\ S \subseteq Payments
         /\ SumFunctionOnSet(Left, S) \in Nat
  <1>1. \A p \in Payments : Left[p] \in Nat /\ Left[p] = Fee[p] - collected[p]
    BY FeeAssumption DEF Left, LedgerTypes, LedgerBacked
  <1>2. IsFiniteSet(S) /\ S \subseteq Payments
    BY FS_Subset DEF Charged
  <1>3. QED
    BY <1>1, <1>2, SumBound

\* What the invariants already say of the state a step starts in.
Books == TypeOK /\ LedgerInv /\ BookInv

\* The carried balance of a task is a number.
LEMMA CarryIs ==
  ASSUME TypeOK, ReadsOK, NEW t \in Tasks
  PROVE  /\ carry[t] \in SUBSET Snapshot /\ IsFiniteSet(carry[t]) /\ OneEach(carry[t])
         /\ Owed(carry[t]) \in Nat
  BY OwedIs DEF TypeOK, ReadsOK

\* The initial state is well typed.
LEMMA InitType == Init => TypeOK
  BY BoundAssumption
  DEF Init, TypeOK, CycleRow, CycleStatuses, NoCycle, BillRow, NoBill, Tiers,
      Labels, Snapshot

\* What the statements make of a cycle is a cycle.
LEMMA RowTypes ==
  ASSUME NEW row \in CycleRow
  PROVE  /\ \A s \in CycleStatuses : [row EXCEPT !.status = s] \in CycleRow
         /\ \A n \in Nat : [row EXCEPT !.owed = n] \in CycleRow
         /\ \A b \in Bills, l \in Nat :
              [row EXCEPT !.status = "invoiced", !.bill = b, !.left = l] \in CycleRow
         /\ [row EXCEPT !.status = "paid", !.owed = 0] \in CycleRow
  <1>1. \A s \in CycleStatuses : [row EXCEPT !.status = s] \in CycleRow
    BY DEF CycleRow
  <1>2. \A n \in Nat : [row EXCEPT !.owed = n] \in CycleRow
    BY DEF CycleRow
  <1>3. ASSUME NEW b \in Bills, NEW l \in Nat
        PROVE  [row EXCEPT !.status = "invoiced", !.bill = b, !.left = l] \in CycleRow
    <2>1. "invoiced" \in CycleStatuses /\ b \in {0} \cup Bills /\ l \in Int
      BY DEF CycleStatuses
    <2>2. row.owed \in Nat
      BY DEF CycleRow
    <2>3. QED
      BY <2>1, <2>2 DEF CycleRow
  <1>4. [row EXCEPT !.status = "paid", !.owed = 0] \in CycleRow
    BY DEF CycleRow, CycleStatuses
  <1>5. QED
    BY <1>1, <1>2, <1>3, <1>4

\* The types after a step of ensure_billing_cycle.
LEMMA EnsureTypes ==
  ASSUME TypeOK, ReadsOK, NEW t \in Tasks, Ensure(t)
  PROVE  TypeOK'
  <1> USE DEF ledgerVars, dbVars, scannerVars, hourlyVars, otherVars, historyVars,
              Goto, After, Labels
  <1>1. CASE FindOpen(t)
    BY <1>1 DEF FindOpen, TypeOK
  <1>2. CASE SumCarried(t)
    <2>1. Read(WithStatus("carried_over")) \in SUBSET Snapshot
      BY ReadIs DEF WithStatus, TypeOK
    <2>2. QED
      BY <1>2, <2>1 DEF SumCarried, TypeOK
  <1>3. CASE InsertCycle(t)
    <2>1. Owed(carry[t]) \in Nat
      BY CarryIs
    <2>2. PICK c \in Cycles :
            cyc' = [cyc EXCEPT ![c] = [status |-> "open", owed |-> OpeningBalance(t),
                                       bill |-> 0, left |-> CycleTTL[tier]]]
      BY <1>3 DEF InsertCycle, Fresh
    <2>3. cyc' \in [Cycles -> CycleRow]
      BY <2>1, <2>2, TimeAssumption
      DEF OpeningBalance, TypeOK, CycleRow, CycleStatuses
    <2>4. QED
      BY <1>3, <2>3 DEF InsertCycle, TypeOK
  <1>4. CASE ZeroCarried(t)
    <2>1. cyc' \in [Cycles -> CycleRow]
      BY <1>4 DEF ZeroCarried, TypeOK, CycleRow
    <2>2. lost' \in Nat
      <3> DEFINE R == Read(WithStatus("carried_over"))
                 Q == {r \in R : \A s \in carry[t] : s.c # r.c}
      <3>1. /\ R \in SUBSET Snapshot /\ IsFiniteSet(R) /\ OneEach(R)
            /\ \A r \in R : r.owed = cyc[r.c].owed
        BY ReadIs DEF WithStatus, TypeOK
      <3>2. Q \in SUBSET Snapshot /\ IsFiniteSet(Q) /\ OneEach(Q)
        BY <3>1, FS_Subset DEF OneEach
      <3>3. \A r \in Q : cyc[r.c].owed <= r.owed
        BY <3>1 DEF TypeOK, CycleRow, Snapshot
      <3> HIDE DEF Q
      <3>4. Owed(Q) \in Nat
        BY <3>2, <3>3, OwedIs DEF TypeOK
      <3>5. lost' = lost + Owed(Q)
        BY <1>4 DEF ZeroCarried, Q
      <3>6. QED
        BY <3>4, <3>5 DEF TypeOK
    <2>3. QED
      BY <1>4, <2>1, <2>2 DEF ZeroCarried, TypeOK
  <1>5. QED
    BY <1>1, <1>2, <1>3, <1>4 DEF Ensure

\* ... after a step of the scanner ...
LEMMA ScannerTypes ==
  ASSUME Books, LedgerInv', Scanner
  PROVE  TypeOK'
  <1> USE DEF ledgerVars, dbVars, scannerVars, hourlyVars, otherVars, historyVars,
              Goto, Labels, Tasks
  <1>1. TypeOK /\ ReadsOK /\ LedgerTypes /\ LedgerTypes'
    BY DEF Books, LedgerInv, BookInv
  <1>2. CASE Ensure("scanner")
    BY <1>1, <1>2, EnsureTypes
  <1>3. ASSUME NEW p \in Payments, Confirm(p) PROVE TypeOK'
    BY <1>1, <1>3 DEF Confirm, TypeOK
  <1>4. ASSUME NEW p \in Payments, CreateEntry(p) PROVE TypeOK'
    <2> DEFINE c == Youngest(WithStatus("open"))
    <2>1. c \in {0} \cup Cycles /\ Fee[p] \in Nat
      BY YoungestIs, FeeAssumption DEF WithStatus
    <2>2. /\ home' \in [Payments -> {0} \cup Cycles]
          /\ cyc' = cyc \/ cyc' = [cyc EXCEPT ![c].owed = @ + Fee[p]]
          /\ lost' = lost \/ lost' = lost + Fee[p]
      BY <1>1, <1>4, <2>1 DEF CreateEntry, TypeOK
    <2>3. cyc' \in [Cycles -> CycleRow]
      <3>1. \A d \in Cycles : cyc[d] \in CycleRow /\ cyc[d].owed + Fee[p] \in Nat
        BY <1>1, <2>1 DEF TypeOK, CycleRow
      <3>2. \A d \in Cycles : [cyc[d] EXCEPT !.owed = @ + Fee[p]] \in CycleRow
        BY <3>1, RowTypes
      <3> HIDE DEF c
      <3>3. QED
        BY <1>1, <2>2, <3>2 DEF TypeOK
    <2>5. lost' \in Nat
      BY <1>1, <2>1, <2>2 DEF TypeOK
    <2>4. QED
      BY <1>1, <1>4, <2>2, <2>3, <2>5 DEF CreateEntry, TypeOK, LedgerTypes
  <1>5. ASSUME NEW p \in Payments, Receive(p) PROVE TypeOK'
    BY <1>1, <1>5 DEF Receive, TypeOK, LedgerTypes
  <1>6. ASSUME NEW p \in Payments, TotalReceipts(p) PROVE TypeOK'
    BY <1>1, <1>6 DEF TotalReceipts, TypeOK, LedgerTypes
  <1>7. ASSUME NEW p \in Payments, ApplyCollected(p) PROVE TypeOK'
    <2>1. cyc' = cyc \/ cyc' = [cyc EXCEPT ![home[p]].owed =
                                  OwedAfter(@, CollectedAfter(p, got) - collected[p])]
      BY <1>7 DEF ApplyCollected
    <2>2. CollectedAfter(p, got) - collected[p] \in Int
      BY <1>1, FeeAssumption DEF LedgerTypes, CollectedAfter, AtLeast, AtMost
    <2>3. \A c \in Cycles : OwedAfter(cyc[c].owed,
                              CollectedAfter(p, got) - collected[p]) \in Nat
      BY <1>1, <2>2 DEF OwedAfter, AtLeast, TypeOK, CycleRow
    <2>4. cyc' \in [Cycles -> CycleRow]
      BY <1>1, <2>1, <2>3 DEF TypeOK, CycleRow
    <2>5. QED
      BY <1>1, <1>7, <2>4 DEF ApplyCollected, TypeOK, LedgerTypes
  <1>8. QED
    BY <1>2, <1>3, <1>4, <1>5, <1>6, <1>7 DEF Scanner

\* ... after a step of the hourly task ...
LEMMA HourlyTypes ==
  ASSUME Books, Hourly
  PROVE  TypeOK'
  <1> USE DEF ledgerVars, dbVars, scannerVars, hourlyVars, otherVars, historyVars,
              Goto, Labels, Tasks
  <1>1. TypeOK /\ ReadsOK
    BY DEF Books, LedgerInv, BookInv
  <1>2. CASE Ensure("hourly")
    BY <1>1, <1>2, EnsureTypes
  <1>3. CASE ReadExpired \/ ReadOverdue \/ ReadPastDue
    <2>1. \A S \in SUBSET Cycles : Read(S) \in SUBSET Snapshot
      BY <1>1, ReadIs DEF TypeOK
    <2>2. batch' \in SUBSET Snapshot
      BY <1>3, <2>1
      DEF ReadExpired, ReadOverdue, ReadPastDue, Ended, WithStatus
    <2>3. QED
      BY <1>1, <1>3, <2>2 DEF ReadExpired, ReadOverdue, ReadPastDue, TypeOK
  <1>4. ASSUME NEW r \in batch, ClosePaid(r) \/ CarryOver(r) \/ Invoice(r)
        PROVE  TypeOK'
    <2>1. r.c \in Cycles
      BY <1>1 DEF TypeOK, Snapshot
    <2> DEFINE row(s) == [cyc[r.c] EXCEPT !.status = s]
    <2>6. \A s \in CycleStatuses : [cyc EXCEPT ![r.c] = row(s)] \in [Cycles -> CycleRow]
      BY <1>1, <2>1, RowTypes DEF TypeOK
    <2>7. {"paid", "carried_over"} \subseteq CycleStatuses /\ cyc[r.c].owed \in Nat
      BY <1>1, <2>1 DEF CycleStatuses, TypeOK, CycleRow
    <2>2. CASE ClosePaid(r)
      BY <1>1, <2>2, <2>6, <2>7 DEF ClosePaid, Closed, TypeOK
    <2>3. CASE CarryOver(r)
      BY <1>1, <2>3, <2>6, <2>7 DEF CarryOver, Closed, TypeOK
    <2>4. CASE Invoice(r)
      <3>1. PICK b \in Bills :
              /\ NewBill(b, r.owed)
              /\ Closed(r, [cyc[r.c] EXCEPT !.status = "invoiced", !.bill = b,
                                            !.left = Grace[tier]])
              /\ lost' = lost
        BY <2>4 DEF Invoice, Fresh
      <3>2. bill' \in [Bills -> BillRow]
        BY <1>1, <3>1, TimeAssumption DEF NewBill, TypeOK, BillRow, Snapshot
      <3>3. cyc' \in [Cycles -> CycleRow]
        BY <1>1, <2>1, <3>1, RowTypes, TimeAssumption DEF Closed, TypeOK
      <3>4. QED
        BY <1>1, <3>1, <3>2, <3>3 DEF Closed, TypeOK
    <2>5. QED
      BY <1>4, <2>2, <2>3, <2>4
  <1>5. ASSUME NEW r \in batch, Overdue(r) \/ Suspend(r) PROVE TypeOK'
    <2>1. r.c \in Cycles
      BY <1>1 DEF TypeOK, Snapshot
    <2>2. \A s \in CycleStatuses :
            [cyc EXCEPT ![r.c].status = s] \in [Cycles -> CycleRow]
      BY <1>1, <2>1, RowTypes DEF TypeOK
    <2>3. {"past_due", "carried_over", "suspended"} \subseteq CycleStatuses
      BY DEF CycleStatuses
    <2>4. cyc' \in [Cycles -> CycleRow]
      BY <1>5, <2>2, <2>3 DEF Overdue, Suspend
    <2>5. QED
      BY <1>1, <1>5, <2>4 DEF Overdue, Suspend, TypeOK
  <1>6. CASE Judge
    BY <1>1, <1>6 DEF Judge, TypeOK
  <1>7. CASE UpgradeTier
    BY <1>1, <1>7 DEF UpgradeTier, TypeOK, Tiers
  <1>8. QED
    BY <1>2, <1>3, <1>4, <1>5, <1>6, <1>7 DEF Hourly

\* ... and after any other.
LEMMA OtherTypes ==
  ASSUME TypeOK, \/ ReadSettled \/ Merchant \/ Tick \/ FailScanner \/ FailHourly
                 \/ Crash \/ UNCHANGED vars
  PROVE  TypeOK'
  <1> USE DEF ledgerVars, dbVars, scannerVars, hourlyVars, otherVars, historyVars,
              Goto, Labels, Tasks
  <1>1. CASE ReadSettled
    BY <1>1 DEF ReadSettled, Settled, TypeOK
  <1>2. CASE Settle
    <2>1. PICK c \in Cycles, b \in Bills :
            NewBill(b, cyc[c].owed) /\ settling' = {<<c, b>>}
      BY <1>2 DEF Settle, Settleable, WithStatus, Fresh
    <2>2. bill' \in [Bills -> BillRow]
      BY <2>1, TimeAssumption DEF NewBill, TypeOK, BillRow, CycleRow
    <2>3. QED
      BY <1>2, <2>1, <2>2 DEF Settle, TypeOK
  <1>3. ASSUME NEW c \in Cycles, NEW b \in Bills, Link(c, b) PROVE TypeOK'
    <2>1. cyc' \in [Cycles -> CycleRow]
      BY <1>3, RowTypes, TimeAssumption DEF Link, TypeOK, Tiers
    <2>2. QED
      BY <1>3, <2>1 DEF Link, TypeOK
  <1>4. ASSUME NEW b \in Bills, PayBill(b) PROVE TypeOK'
    BY <1>4 DEF PayBill, TypeOK, BillRow
  <1>5. CASE Tick
    <2>1. cyc' \in [Cycles -> CycleRow]
      BY <1>5 DEF Tick, TypeOK, CycleRow
    <2>2. bill' \in [Bills -> BillRow]
      BY <1>5 DEF Tick, TypeOK, BillRow, Payable7Days
    <2>3. QED
      BY <1>5, <2>1, <2>2 DEF Tick, TypeOK
  <1>6. CASE FailScanner
    BY <1>6 DEF FailScanner, TypeOK, Snapshot
  <1>7. CASE FailHourly
    BY <1>7 DEF FailHourly, TypeOK, Snapshot
  <1>8. CASE Crash
    BY <1>8 DEF Crash, TypeOK, Snapshot
  <1>9. CASE UNCHANGED vars
    BY <1>9 DEF vars, TypeOK
  <1>10. QED
    BY <1>1, <1>2, <1>3, <1>4, <1>5, <1>6, <1>7, <1>8, <1>9 DEF Merchant

-----------------------------------------------------------------------------
(* What the tasks have read stays true.                                    *)

\* How a step changes cycles.
LEMMA CycleSteps ==
  ASSUME [Next]_vars
  PROVE  \/ UNCHANGED cyc
         \/ \E t \in Tasks : InsertCycle(t) \/ ZeroCarried(t)
         \/ \E p \in Payments : CreateEntry(p) \/ ApplyCollected(p)
         \/ \E r \in batch :
              ClosePaid(r) \/ CarryOver(r) \/ Invoice(r) \/ Overdue(r) \/ Suspend(r)
         \/ \E c \in Cycles, b \in Bills : Claim(c, b) \/ Link(c, b)
         \/ Tick
  BY DEF Next, Scanner, Hourly, Mempool, Merchant, Ensure, FindOpen, SumCarried,
         Confirm, Receive, TotalReceipts, ReadExpired, ReadOverdue, ReadPastDue,
         Judge, UpgradeTier, ReadSettled, Settle, PayBill, FailScanner, FailHourly,
         Crash, dbVars, vars, Tasks

\* How a step changes what the tasks have read.
LEMMA ReadSteps ==
  ASSUME TypeOK, [Next]_vars
  PROVE  /\ \/ batch' \subseteq batch
            \/ UNCHANGED cyc /\ batch' \in {Read(Ended("open")), Read(Ended("invoiced")),
                 Read({c \in WithStatus("past_due") : cyc[c].left < -SuspendAfter[tier]})}
         /\ \A t \in Tasks :
              \/ carry'[t] \in {carry[t], {}}
              \/ UNCHANGED cyc /\ carry'[t] = Read(WithStatus("carried_over"))
  <1>1. \/ batch' \subseteq batch
        \/ UNCHANGED cyc /\ batch' \in {Read(Ended("open")), Read(Ended("invoiced")),
             Read({c \in WithStatus("past_due") : cyc[c].left < -SuspendAfter[tier]})}
    BY DEF TypeOK, Next, Scanner, Hourly, Mempool, Merchant, Ensure, FindOpen,
           SumCarried, InsertCycle, ZeroCarried, Confirm, CreateEntry, Receive,
           TotalReceipts, ApplyCollected, ReadExpired, ClosePaid, CarryOver, Invoice,
           Closed, Overdue, Suspend, ReadOverdue, ReadPastDue, Judge, UpgradeTier,
           ReadSettled, Claim, Settle, Link, PayBill, Tick, FailScanner, FailHourly,
           Crash, dbVars, hourlyVars, vars, Tasks
  <1>2. ASSUME NEW t \in Tasks
        PROVE  \/ carry'[t] \in {carry[t], {}}
               \/ UNCHANGED cyc /\ carry'[t] = Read(WithStatus("carried_over"))
    <2>1. \/ carry' = carry
          \/ \E u \in Tasks : /\ SumCarried(u) \/ InsertCycle(u) \/ ZeroCarried(u)
          \/ FailScanner \/ FailHourly \/ Crash
      BY DEF TypeOK, Next, Scanner, Hourly, Mempool, Merchant, Ensure, FindOpen,
             Confirm, CreateEntry, Receive,
             TotalReceipts, ApplyCollected, ReadExpired, ClosePaid, CarryOver, Invoice,
             Closed, Overdue, Suspend, ReadOverdue, ReadPastDue, Judge, UpgradeTier,
             ReadSettled, Claim, Settle, Link, PayBill, Tick, 
             dbVars, hourlyVars, vars, Tasks
    <2>2. QED
      BY <2>1 DEF SumCarried, InsertCycle, ZeroCarried, FailScanner, FailHourly,
                  Crash, TypeOK, dbVars
  <1>3. QED
    BY <1>1, <1>2

\* Collecting takes off a cycle what it can, and no more.
LEMMA OwedAfterBounds ==
  \A x, d \in Nat : /\ OwedAfter(x, d) \in Nat /\ OwedAfter(x, d) <= x
                    /\ OwedAfter(x, d) >= x - d
  BY DEF OwedAfter, AtLeast

\* A cycle that is carried over stays so, and owes no more.
LEMMA CarriedStays ==
  ASSUME Books, TypeOK', [Next]_vars, NEW c \in Cycles, cyc[c].status = "carried_over"
  PROVE  cyc'[c].status = "carried_over" /\ cyc'[c].owed <= cyc[c].owed
  <1>1. cyc \in [Cycles -> CycleRow] /\ ReadsOK /\ cyc[c].owed \in Nat
    BY DEF Books, BookInv, TypeOK, CycleRow
  <1>2. CASE UNCHANGED cyc
    BY <1>1, <1>2
  <1>3. ASSUME NEW t \in Tasks, InsertCycle(t) \/ ZeroCarried(t)
        PROVE  cyc'[c].status = "carried_over" /\ cyc'[c].owed <= cyc[c].owed
    <2>1. CASE InsertCycle(t)
      BY <1>1, <2>1 DEF InsertCycle, Fresh
    <2>2. CASE ZeroCarried(t)
      BY <1>1, <2>2 DEF ZeroCarried
    <2>3. QED
      BY <1>3, <2>1, <2>2
  <1>4. ASSUME NEW p \in Payments, CreateEntry(p)
        PROVE  cyc'[c] = cyc[c]
    <2>1. Youngest(WithStatus("open")) # c
      BY <1>1, YoungestIs DEF WithStatus, Cycles
    <2>2. QED
      BY <1>1, <1>4, <2>1 DEF CreateEntry
  <1>5. ASSUME NEW p \in Payments, ApplyCollected(p)
        PROVE  cyc'[c].status = "carried_over" /\ cyc'[c].owed <= cyc[c].owed
    <2> DEFINE d == CollectedAfter(p, got) - collected[p]
    <2>1. d \in Nat
      BY FeeAssumption DEF Books, LedgerInv, LedgerTypes, CollectedAfter, AtLeast, AtMost
    <2>2. cyc' = cyc \/ cyc' = [cyc EXCEPT ![home[p]].owed = OwedAfter(@, d)]
      BY <1>5 DEF ApplyCollected
    <2> HIDE DEF d
    <2>3. OwedAfter(cyc[c].owed, d) <= cyc[c].owed
      BY <1>1, <2>1, OwedAfterBounds
    <2>4. CASE home[p] = c
      <3>1. \/ cyc'[c] = cyc[c]
            \/ cyc'[c] = [cyc[c] EXCEPT !.owed = OwedAfter(cyc[c].owed, d)]
        BY <1>1, <2>2, <2>4
      <3>2. cyc[c] \in CycleRow
        BY <1>1
      <3>3. QED
        BY <1>1, <2>3, <3>1, <3>2 DEF CycleRow
    <2>5. CASE home[p] # c
      BY <1>1, <2>2, <2>5
    <2>6. QED
      BY <2>4, <2>5
  <1>6. ASSUME NEW r \in batch,
               ClosePaid(r) \/ CarryOver(r) \/ Invoice(r) \/ Overdue(r) \/ Suspend(r)
        PROVE  cyc'[c] = cyc[c]
    <2>1. r.c # c
      BY <1>1 DEF ReadsOK
    <2>2. QED
      BY <1>1, <1>6, <2>1
      DEF ClosePaid, CarryOver, Invoice, Closed, Overdue, Suspend
  <1>7. ASSUME NEW d \in Cycles, NEW b \in Bills, Claim(d, b) \/ Link(d, b)
        PROVE  cyc'[c] = cyc[c]
    BY <1>1, <1>7 DEF Claim, Link, Due
  <1>8. CASE Tick
    BY <1>1, <1>8 DEF Tick
  <1>9. QED
    BY <1>1, <1>2, <1>3, <1>4, <1>5, <1>6, <1>7, <1>8, CycleSteps

\* No cycle of the batch becomes carried over while it is in the batch.
LEMMA BatchStays ==
  ASSUME Books, TypeOK', [Next]_vars, NEW r \in batch, r \in batch',
         batch' \subseteq batch
  PROVE  cyc'[r.c].status # "carried_over"
  <1>1. /\ cyc \in [Cycles -> CycleRow] /\ ReadsOK /\ r.c \in Cycles
        /\ cyc[r.c].status # "carried_over"
    BY DEF Books, BookInv, TypeOK, ReadsOK, Snapshot
  <1>2. CASE UNCHANGED cyc
    BY <1>1, <1>2
  <1>3. ASSUME NEW t \in Tasks, InsertCycle(t) \/ ZeroCarried(t)
        PROVE  cyc'[r.c].status # "carried_over"
    <2>1. CASE InsertCycle(t)
      BY <1>1, <2>1 DEF InsertCycle, Fresh
    <2>2. CASE ZeroCarried(t)
      BY <1>1, <2>2 DEF ZeroCarried
    <2>3. QED
      BY <1>3, <2>1, <2>2
  <1>4. ASSUME NEW p \in Payments, CreateEntry(p) \/ ApplyCollected(p)
        PROVE  cyc'[r.c].status # "carried_over"
    <2>1. PICK d, n : cyc' = cyc \/ cyc' = [cyc EXCEPT ![d].owed = n]
      <3>1. CASE CreateEntry(p)
        BY <3>1 DEF CreateEntry
      <3>2. CASE ApplyCollected(p)
        BY <3>2 DEF ApplyCollected
      <3>3. QED
        BY <1>4, <3>1, <3>2
    <2>2. QED
      BY <1>1, <2>1 DEF CycleRow
  <1>5. ASSUME NEW s \in batch,
               ClosePaid(s) \/ CarryOver(s) \/ Invoice(s) \/ Overdue(s) \/ Suspend(s)
        PROVE  cyc'[r.c].status # "carried_over"
    <2>1. batch' = batch \ {s}
      BY <1>5 DEF ClosePaid, CarryOver, Invoice, Closed, Overdue, Suspend
    <2>2. s.c # r.c
      BY <1>1, <2>1 DEF ReadsOK, OneEach
    <2>3. cyc'[r.c] = cyc[r.c]
      BY <1>1, <1>5, <2>2
      DEF ClosePaid, CarryOver, Invoice, Closed, Overdue, Suspend
    <2>4. QED
      BY <1>1, <2>3
  <1>6. ASSUME NEW d \in Cycles, NEW b \in Bills, Claim(d, b) \/ Link(d, b)
        PROVE  cyc'[r.c].status # "carried_over"
    <2>1. \/ cyc' = cyc
          \/ cyc' = [cyc EXCEPT ![d].status = "paid", ![d].owed = 0]
          \/ cyc' = [cyc EXCEPT ![d].status = "invoiced", ![d].bill = b,
                                ![d].left = Grace["new"]]
      BY <1>6 DEF Claim, Link
    <2>2. CASE d = r.c
      BY <1>1, <2>1, <2>2 DEF CycleRow
    <2>3. CASE d # r.c
      BY <1>1, <2>1, <2>3
    <2>4. QED
      BY <2>2, <2>3
  <1>7. CASE Tick
    BY <1>1, <1>7 DEF Tick
  <1>8. QED
    BY <1>2, <1>3, <1>4, <1>5, <1>6, <1>7, CycleSteps

\* Every step keeps ReadsOK.
LEMMA NextReads ==
  ASSUME Books, TypeOK', [Next]_vars
  PROVE  ReadsOK'
  <1>1. TypeOK /\ ReadsOK
    BY DEF Books, BookInv
  <1>2. /\ OneEach(batch') /\ \A r \in batch' : cyc'[r.c].status # "carried_over"
    <2>1. CASE batch' \subseteq batch
      <3>1. OneEach(batch')
        BY <1>1, <2>1 DEF ReadsOK, OneEach
      <3>2. QED
        BY <2>1, <3>1, BatchStays
    <2>2. ASSUME NEW S \in SUBSET Cycles, batch' = Read(S), UNCHANGED cyc,
                 \A c \in S : cyc[c].status # "carried_over"
          PROVE  OneEach(batch') /\ \A r \in batch' : cyc'[r.c].status # "carried_over"
      BY <1>1, <2>2, ReadIs DEF TypeOK
    <2>3. QED
      BY <1>1, <2>1, <2>2, ReadSteps DEF Ended, WithStatus
  <1>3. ASSUME NEW t \in Tasks
        PROVE  /\ OneEach(carry'[t]) /\ IsFiniteSet(carry'[t])
               /\ \A r \in carry'[t] : /\ cyc'[r.c].status = "carried_over"
                                       /\ cyc'[r.c].owed <= r.owed
    <2>1. CASE carry'[t] = {}
      BY <2>1, FS_EmptySet DEF OneEach
    <2>2. CASE carry'[t] = carry[t]
      <3>1. OneEach(carry[t]) /\ IsFiniteSet(carry[t])
        BY <1>1 DEF ReadsOK
      <3>2. ASSUME NEW r \in carry[t]
            PROVE  cyc'[r.c].status = "carried_over" /\ cyc'[r.c].owed <= r.owed
        <4>1. /\ r.c \in Cycles /\ r.owed \in Nat
              /\ cyc[r.c].owed \in Nat /\ cyc'[r.c].owed \in Nat
          BY <1>1 DEF TypeOK, Snapshot, CycleRow
        <4>2. cyc[r.c].status = "carried_over" /\ cyc[r.c].owed <= r.owed
          BY <1>1 DEF ReadsOK
        <4>3. cyc'[r.c].status = "carried_over" /\ cyc'[r.c].owed <= cyc[r.c].owed
          BY <4>1, <4>2, CarriedStays
        <4>4. QED
          BY <4>1, <4>2, <4>3
      <3>3. QED
        BY <2>2, <3>1, <3>2
    <2>3. CASE UNCHANGED cyc /\ carry'[t] = Read(WithStatus("carried_over"))
      <3> DEFINE S == WithStatus("carried_over")
      <3>1. S \in SUBSET Cycles /\ \A c \in S : cyc[c].status = "carried_over"
        BY DEF WithStatus
      <3> HIDE DEF S
      <3>2. /\ Read(S) \in SUBSET Snapshot /\ IsFiniteSet(Read(S)) /\ OneEach(Read(S))
            /\ \A r \in Read(S) : r.c \in S /\ r.owed = cyc[r.c].owed
        BY <1>1, <3>1, ReadIs DEF TypeOK
      <3>3. \A r \in Read(S) : r.owed \in Nat
        BY <3>2 DEF Snapshot
      <3>4. QED
        BY <2>3, <3>1, <3>2, <3>3 DEF S
    <2>4. QED
      BY <1>1, <2>1, <2>2, <2>3, ReadSteps
  <1>4. QED
    BY <1>2, <1>3 DEF ReadsOK

-----------------------------------------------------------------------------
(* The books balance.                                                      *)

\* The cycles whose balance counts.
Counted == (Cycles \ WithStatus("paid")) \ Moved

Balanced ==
  SumFunctionOnSet(Left, Charged)
    <= SumFunctionOnSet(Asked, Counted) + lost + unspent

\* Every sum the books speak of is a number.
LEMMA BookSums ==
  ASSUME Books
  PROVE  /\ \A c \in Cycles : Asked[c] = cyc[c].owed /\ cyc[c].owed \in Nat
         /\ \A S \in SUBSET Cycles :
              IsFiniteSet(S) /\ SumFunctionOnSet(Asked, S) \in Nat
         /\ SumFunctionOnSet(Left, Charged) \in Nat
         /\ lost \in Nat /\ unspent \in Nat
         /\ Moved \subseteq WithStatus("carried_over")
         /\ Counted \subseteq Cycles
         /\ Balanced
  <1>1. \A c \in Cycles : Asked[c] = cyc[c].owed /\ cyc[c].owed \in Nat
    BY DEF Books, TypeOK, Asked, CycleRow
  <1>2. \A S \in SUBSET Cycles :
          IsFiniteSet(S) /\ SumFunctionOnSet(Asked, S) \in Nat
    <2> SUFFICES ASSUME NEW S \in SUBSET Cycles
                 PROVE  IsFiniteSet(S) /\ SumFunctionOnSet(Asked, S) \in Nat
      OBVIOUS
    <2>1. IsFiniteSet(S) /\ \A c \in S : Asked[c] \in Nat
      BY <1>1, CyclesFinite
    <2>2. QED
      BY <2>1, SumBound
  <1>3. SumFunctionOnSet(Left, Charged) \in Nat
    BY LeftIs DEF Books, LedgerInv, BookInv
  <1>4. Moved \subseteq WithStatus("carried_over")
    BY DEF Books, BookInv, ReadsOK, Moved, WithStatus
  <1>5. QED
    BY <1>1, <1>2, <1>3, <1>4 DEF Books, TypeOK, BookInv, Balanced, Counted

\* What counts before a step may be in two parts afterwards: one that asks at
\* least as much as it did, among the cycles of U, and one that is accounted for
\* otherwise.
LEMMA AskedParts ==
  ASSUME Books, TypeOK', NEW S \in SUBSET Cycles, NEW T \in SUBSET Cycles,
         NEW U \in SUBSET Cycles, Counted \subseteq S \cup T, S \subseteq U,
         \A c \in S : cyc[c].owed <= cyc'[c].owed
  PROVE  /\ SumFunctionOnSet(Asked, Counted)
              <= SumFunctionOnSet(Asked', U) + SumFunctionOnSet(Asked, T)
         /\ SumFunctionOnSet(Asked', U) \in Nat
  <1>1. /\ \A c \in Cycles : /\ Asked[c] = cyc[c].owed /\ cyc[c].owed \in Nat
                             /\ Asked'[c] = cyc'[c].owed /\ cyc'[c].owed \in Nat
        /\ Counted \subseteq Cycles
        /\ SumFunctionOnSet(Asked, Counted) \in Nat
    BY BookSums DEF TypeOK, Asked, CycleRow, Counted
  <1>2. IsFiniteSet(S) /\ IsFiniteSet(T) /\ IsFiniteSet(U) /\ IsFiniteSet(S \cup T)
    BY <1>1, CyclesFinite
  <1>3. \A c \in S \cup T : Asked[c] \in Nat /\ Asked[c] <= Asked[c]
    BY <1>1
  <1>4. SumFunctionOnSet(Asked, Counted) <= SumFunctionOnSet(Asked, S \cup T)
    BY <1>2, <1>3, SumBound
  <1>5. /\ SumFunctionOnSet(Asked, S \cup T) \in Nat
        /\ SumFunctionOnSet(Asked, S \cup T)
             <= SumFunctionOnSet(Asked, S) + SumFunctionOnSet(Asked, T)
    BY <1>2, <1>3, SumUnion
  <1>6. \A c \in U : Asked'[c] \in Nat /\ Asked[c] \in Nat
    BY <1>1
  <1>7. \A c \in S : Asked[c] <= Asked'[c]
    BY <1>1
  <1>8. /\ SumFunctionOnSet(Asked, S) \in Nat
        /\ SumFunctionOnSet(Asked, S) <= SumFunctionOnSet(Asked', U)
    BY <1>2, <1>6, <1>7, SumBound
  <1>9. SumFunctionOnSet(Asked, T) \in Nat
    BY <1>2, <1>3, SumBound
  <1>10. SumFunctionOnSet(Asked', U) \in Nat
    <2>1. \A c \in U : Asked'[c] \in Nat /\ Asked'[c] <= Asked'[c]
      BY <1>1
    <2>2. QED
      BY <1>2, <2>1, SumBound
  <1>11. QED
    BY <1>1, <1>4, <1>5, <1>8, <1>9, <1>10

\* The cycles that count after the step, for one.
LEMMA AskedStep ==
  ASSUME Books, TypeOK', NEW S \in SUBSET Cycles, NEW T \in SUBSET Cycles,
         Counted \subseteq S \cup T, S \subseteq Counted',
         \A c \in S : cyc[c].owed <= cyc'[c].owed
  PROVE  /\ SumFunctionOnSet(Asked, Counted)
              <= SumFunctionOnSet(Asked', Counted') + SumFunctionOnSet(Asked, T)
         /\ SumFunctionOnSet(Asked', Counted') \in Nat
  <1>1. Counted' \in SUBSET Cycles
    BY DEF Counted
  <1>2. QED
    BY <1>1, AskedParts

\* In particular nothing is forgotten when only more counts, or more is lost.
LEMMA AskedMore ==
  ASSUME Books, TypeOK', UNCHANGED <<collected, rank>>, lost' = lost \/ lost' > lost,
         unspent' = unspent, Counted \subseteq Counted',
         \A c \in Counted : cyc[c].owed <= cyc'[c].owed
  PROVE  Balanced'
  <1>1. Counted \in SUBSET Cycles /\ Counted \subseteq Counted \cup {} /\ {} \in SUBSET Cycles
    BY BookSums
  <1>2. /\ SumFunctionOnSet(Asked, Counted)
             <= SumFunctionOnSet(Asked', Counted') + SumFunctionOnSet(Asked, {})
        /\ SumFunctionOnSet(Asked', Counted') \in Nat
    BY <1>1, AskedStep
  <1>3. SumFunctionOnSet(Asked, {}) = 0
    BY SumEmpty
  <1>4. Left' = Left /\ Charged' = Charged
    BY DEF Left, Charged
  <1>5. /\ SumFunctionOnSet(Left, Charged) \in Nat /\ lost \in Nat /\ unspent \in Nat
        /\ SumFunctionOnSet(Asked, Counted) \in Nat /\ lost' \in Nat
        /\ SumFunctionOnSet(Left, Charged)
             <= SumFunctionOnSet(Asked, Counted) + lost + unspent
    BY BookSums DEF Balanced, TypeOK
  <1>6. SumFunctionOnSet(Left, Charged)
          <= SumFunctionOnSet(Asked', Counted') + lost' + unspent
    BY <1>2, <1>3, <1>5
  <1>7. QED
    BY <1>4, <1>6 DEF Balanced


\* How a step changes the books.
LEMMA BookSteps ==
  ASSUME [Next]_vars
  PROVE  \/ \E t \in Tasks : InsertCycle(t) \/ ZeroCarried(t)
         \/ \E p \in Payments : CreateEntry(p) \/ ApplyCollected(p)
         \/ \E r \in batch : ClosePaid(r)
         \/ \E c \in Cycles, b \in Bills : Claim(c, b)
         \/ /\ UNCHANGED <<collected, rank, lost, unspent>>
            /\ \/ UNCHANGED cyc \/ Tick
               \/ \E r \in batch : CarryOver(r) \/ Invoice(r) \/ Overdue(r) \/ Suspend(r)
               \/ \E c \in Cycles, b \in Bills : Link(c, b)
  BY DEF Next, Scanner, Hourly, Mempool, Merchant, Ensure, FindOpen, SumCarried,
         Confirm, Receive, TotalReceipts, ReadExpired, CarryOver, Invoice, Closed,
         Overdue, Suspend, ReadOverdue, ReadPastDue, Judge, UpgradeTier, ReadSettled,
         Settle, Link, PayBill, Tick, FailScanner, FailHourly, Crash, dbVars,
         ledgerVars, historyVars, vars, Tasks

\* Only a new cycle has a balance moved into it.
LEMMA MovedSteps ==
  ASSUME TypeOK, [Next]_vars
  PROVE  \/ Moved' \subseteq Moved
         \/ \E t \in Tasks : InsertCycle(t) /\ Owed(carry[t]) > 0
  <1> SUFFICES ASSUME ~ \E t \in Tasks : InsertCycle(t) /\ Owed(carry[t]) > 0
               PROVE  Moved' \subseteq Moved
    OBVIOUS
  <1>1. ASSUME NEW t \in Tasks, pc'[t] = "zero"
        PROVE  pc[t] = "zero" /\ carry'[t] = carry[t]
    <2>1. \/ UNCHANGED <<pc, carry>>
          \/ \E u \in Tasks : Ensure(u)
          \/ \E p \in Payments : Confirm(p) \/ CreateEntry(p) \/ Receive(p)
               \/ TotalReceipts(p) \/ ApplyCollected(p)
          \/ FailScanner
          \/ FailHourly \/ Crash \/ ReadExpired \/ ReadOverdue \/ ReadPastDue
          \/ Judge \/ UpgradeTier
          \/ \E r \in batch :
               ClosePaid(r) \/ CarryOver(r) \/ Invoice(r) \/ Overdue(r) \/ Suspend(r)
      <3> USE DEF dbVars, vars
      <3>1. CASE Hourly
        BY <3>1 DEF Hourly, Tasks
      <3>2. CASE Scanner \/ Mempool \/ Merchant \/ Tick
        BY <3>2 DEF Scanner, Mempool, Merchant, ReadSettled, Claim, Settle, Link, PayBill,
                    Tick, Tasks
      <3>3. QED
        BY <3>1, <3>2 DEF Next
    <2>2. ASSUME NEW u \in Tasks, Ensure(u) PROVE pc[t] = "zero" /\ carry'[t] = carry[t]
      BY <1>1, <2>2
      DEF TypeOK, Ensure, FindOpen, SumCarried, InsertCycle, ZeroCarried, Goto, After
    <2>3. ASSUME NEW p \in Payments,
                 Confirm(p) \/ CreateEntry(p) \/ Receive(p) \/ TotalReceipts(p)
                   \/ ApplyCollected(p)
          PROVE  pc[t] = "zero" /\ carry'[t] = carry[t]
      BY <1>1, <2>3
      DEF TypeOK, Confirm, CreateEntry, Receive, TotalReceipts, ApplyCollected, Goto
    <2>4. CASE FailScanner
      BY <1>1, <2>4 DEF TypeOK, FailScanner, Goto
    <2>5. ASSUME NEW r \in batch,
                 ClosePaid(r) \/ CarryOver(r) \/ Invoice(r) \/ Overdue(r) \/ Suspend(r)
          PROVE  pc[t] = "zero" /\ carry'[t] = carry[t]
      BY <1>1, <2>5
      DEF TypeOK, ClosePaid, CarryOver, Invoice, Closed, Overdue, Suspend, Goto
    <2>6. CASE \/ FailHourly \/ Crash \/ ReadExpired \/ ReadOverdue \/ ReadPastDue
               \/ Judge \/ UpgradeTier
      BY <1>1, <2>6 DEF TypeOK, FailHourly, Crash, ReadExpired, ReadOverdue,
                        ReadPastDue, Judge, UpgradeTier, Goto
    <2>7. QED
      BY <1>1, <2>1, <2>2, <2>3, <2>4, <2>5, <2>6
  <1>2. QED
    BY <1>1 DEF Moved

\* A step that leaves the ledger alone and takes nothing off a cycle ...
LEMMA PlainStep ==
  ASSUME Books, TypeOK', [Next]_vars, UNCHANGED <<collected, rank, lost, unspent>>,
         \/ UNCHANGED cyc \/ Tick
         \/ \E r \in batch : CarryOver(r) \/ Invoice(r) \/ Overdue(r) \/ Suspend(r)
         \/ \E c \in Cycles, b \in Bills : Link(c, b)
  PROVE  Balanced'
  <1>1. TypeOK /\ cyc \in [Cycles -> CycleRow] /\ Counted \subseteq Cycles
    BY BookSums DEF Books, TypeOK
  <1>2. ASSUME NEW c \in Cycles
        PROVE  /\ cyc[c].owed = cyc'[c].owed
               /\ cyc'[c].status = "paid" => cyc[c].status = "paid"
    <2>5. CASE UNCHANGED cyc
      BY <2>5
    <2>1. CASE Tick
      <3>1. \/ cyc'[c] = cyc[c]
            \/ cyc'[c] = [cyc[c] EXCEPT !.left = @ - 1]
        BY <1>1, <2>1 DEF Tick
      <3>2. QED
        BY <1>1, <3>1 DEF CycleRow
    <2>2. ASSUME NEW r \in batch, CarryOver(r) \/ Invoice(r) \/ Overdue(r) \/ Suspend(r)
          PROVE  /\ cyc[c].owed = cyc'[c].owed
                 /\ cyc'[c].status = "paid" => cyc[c].status = "paid"
      <3>1. \/ cyc'[c] = cyc[c]
            \/ \E s \in CycleStatuses : s # "paid" /\ cyc'[c] = [cyc[c] EXCEPT !.status = s]
            \/ \E b \in Bills, n \in Nat :
                 cyc'[c] = [cyc[c] EXCEPT !.status = "invoiced", !.bill = b, !.left = n]
        <4>1. CASE c = r.c
          BY <1>1, <2>2, <4>1, TimeAssumption
          DEF TypeOK, CarryOver, Invoice, Closed, Overdue, Suspend, Fresh, CycleStatuses
        <4>2. CASE c # r.c
          BY <1>1, <2>2, <4>2 DEF CarryOver, Invoice, Closed, Overdue, Suspend
        <4>3. QED
          BY <4>1, <4>2
      <3>2. QED
        BY <1>1, <3>1 DEF CycleRow
    <2>3. ASSUME NEW d \in Cycles, NEW b \in Bills, Link(d, b)
          PROVE  /\ cyc[c].owed = cyc'[c].owed
                 /\ cyc'[c].status = "paid" => cyc[c].status = "paid"
      <3>1. \/ cyc'[c] = cyc[c]
            \/ cyc'[c] = [cyc[c] EXCEPT !.status = "invoiced", !.bill = b,
                                        !.left = Grace["new"]]
        BY <1>1, <2>3 DEF Link
      <3>2. QED
        BY <1>1, <3>1 DEF CycleRow
    <2>4. QED
      BY <2>1, <2>2, <2>3, <2>5
  <1>3. CASE \E t \in Tasks : InsertCycle(t) /\ Owed(carry[t]) > 0
    <2>1. \E t \in Tasks : pc[t] = "insert" /\ pc'[t] = "zero"
      BY <1>1, <1>3 DEF InsertCycle, Goto, TypeOK
    <2>2. FALSE
      <3>1. CASE UNCHANGED cyc
        BY <1>3, <3>1, <1>1 DEF InsertCycle, Fresh, CycleRow
      <3>2. CASE Tick \/ \E c \in Cycles, b \in Bills : Link(c, b)
        BY <2>1, <3>2 DEF Tick, Link
      <3>3. CASE \E r \in batch : CarryOver(r) \/ Invoice(r) \/ Overdue(r) \/ Suspend(r)
        BY <2>1, <1>1, <3>3
        DEF CarryOver, Invoice, Closed, Overdue, Suspend, Goto, TypeOK
      <3>4. QED
        BY <3>1, <3>2, <3>3
    <2>3. QED
      BY <2>2
  <1>4. CASE Moved' \subseteq Moved
    <2>1. Counted \subseteq Counted'
      BY <1>1, <1>2, <1>4 DEF Counted, WithStatus
    <2>2. \A c \in Counted : cyc[c].owed <= cyc'[c].owed
      BY <1>1, <1>2 DEF CycleRow
    <2>3. QED
      BY <2>1, <2>2, AskedMore
  <1>5. QED
    BY <1>1, <1>3, <1>4, MovedSteps

\* ... as does a cycle that is opened with what was carried over, which then
\* counts in its place ...
LEMMA InsertBooks ==
  ASSUME Books, TypeOK', [Next]_vars, NEW t \in Tasks, InsertCycle(t)
  PROVE  Balanced'
  <1>1. TypeOK /\ ReadsOK /\ cyc \in [Cycles -> CycleRow] /\ Counted \subseteq Cycles
    BY BookSums DEF Books, TypeOK, BookInv
  <1>2. UNCHANGED <<collected, rank, lost, unspent>>
    BY DEF InsertCycle, ledgerVars, historyVars
  <1>3. PICK c \in Cycles :
          /\ cyc[c].status = "none"
          /\ cyc' = [cyc EXCEPT ![c] = [status |-> "open", owed |-> OpeningBalance(t),
                                        bill |-> 0, left |-> CycleTTL[tier]]]
    BY DEF InsertCycle, Fresh
  <1>4. /\ cyc[c].owed = 0 /\ c \in Counted
        /\ cyc'[c].status = "open" /\ cyc'[c].owed = Owed(carry[t])
        /\ \A d \in Cycles \ {c} : cyc'[d] = cyc[d]
        /\ Owed(carry[t]) \in Nat
    BY <1>1, <1>3, BookSums, CarryIs
    DEF Books, BookInv, OpeningBalance, Counted, WithStatus
  <1> DEFINE ids == {r.c : r \in carry[t]}
  <1>5. ids \in SUBSET Cycles /\ c \notin ids
    BY <1>1, <1>3 DEF ReadsOK, TypeOK, Snapshot
  <1>6. /\ Moved' \subseteq Moved \cup ids
        /\ Owed(carry[t]) = 0 => Moved' \subseteq Moved
    <2>1. \A u \in Tasks \ {t} : pc'[u] = pc[u] /\ carry'[u] = carry[u]
      BY <1>1 DEF InsertCycle, Goto, TypeOK
    <2>2. carry'[t] \subseteq carry[t]
      BY <1>1 DEF InsertCycle, TypeOK
    <2>3. Owed(carry[t]) = 0 => pc'[t] # "zero"
      BY <1>1, <1>4 DEF InsertCycle, Goto, After, TypeOK
    <2>4. QED
      BY <2>1, <2>2, <2>3 DEF Moved
  <1>7. CASE Owed(carry[t]) = 0
    <2>1. Counted \subseteq Counted'
      BY <1>1, <1>4, <1>6, <1>7 DEF Counted, WithStatus
    <2>2. \A d \in Counted : cyc[d].owed <= cyc'[d].owed
      BY <1>1, <1>4, <1>7, BookSums
    <2>3. QED
      BY <1>2, <2>1, <2>2, AskedMore
  <1>8. CASE Owed(carry[t]) # 0
    <2> DEFINE S == Counted \ (ids \cup {c})
               T == ids \cup {c}
               A == SumFunctionOnSet(Asked, ids)
    <2>1. /\ Counted \subseteq S \cup T /\ S \subseteq Counted' /\ S \subseteq Counted' \ {c}
          /\ T \in SUBSET Cycles /\ S \in SUBSET Cycles /\ c \in Counted'
      BY <1>1, <1>4, <1>5, <1>6, BookSums DEF Counted, WithStatus
    <2> HIDE DEF ids
    <2>2. SumFunctionOnSet(Asked, T) = A /\ A \in Nat
      <3>1. \A d \in ids \cup {c} : Asked[d] \in Int
        BY <1>5, BookSums
      <3>2. IsFiniteSet(ids) /\ Asked[c] = 0
        BY <1>4, <1>5, BookSums
      <3>3. SumFunctionOnSet(Asked, T) = SumFunctionOnSet(Asked, ids) + Asked[c]
        BY <1>5, <3>1, <3>2, SumAdd
      <3>4. QED
        BY <1>5, <3>2, <3>3, BookSums
    <2>3. A <= Owed(carry[t])
      <3>1. \A r \in carry[t] : cyc[r.c].owed <= r.owed
        BY <1>1 DEF ReadsOK
      <3>2. QED
        BY <1>1, <3>1, CarryIs, OwedIs DEF ids
    <2> HIDE DEF S, T, A
    <2>4. /\ SumFunctionOnSet(Asked, Counted) <= SumFunctionOnSet(Asked', Counted' \ {c}) + A
          /\ SumFunctionOnSet(Asked', Counted' \ {c}) \in Nat
      <3>1. \A d \in S : cyc[d].owed <= cyc'[d].owed
        BY <1>1, <1>4, <2>1, BookSums DEF S, TypeOK
      <3>2. Counted' \ {c} \in SUBSET Cycles
        BY DEF Counted
      <3>3. QED
        BY <2>1, <2>2, <3>1, <3>2, AskedParts
    <2>5. SumFunctionOnSet(Asked', Counted')
            = Owed(carry[t]) + SumFunctionOnSet(Asked', Counted' \ {c})
      <3>1. \A d \in Counted' : Asked'[d] \in Int
        BY DEF TypeOK, CycleRow, Asked, Counted
      <3>2. IsFiniteSet(Counted') /\ Asked'[c] = Owed(carry[t])
        BY <1>4, CyclesFinite DEF Counted, Asked
      <3>3. QED
        BY <2>1, <3>1, <3>2, SumRemove
    <2>6. Left' = Left /\ Charged' = Charged
      BY <1>2 DEF Left, Charged
    <2> DEFINE x == SumFunctionOnSet(Asked, Counted)
               y == SumFunctionOnSet(Asked', Counted' \ {c})
               z == SumFunctionOnSet(Asked', Counted')
               w == SumFunctionOnSet(Left, Charged)
               o == Owed(carry[t])
    <2>7. /\ x \in Nat /\ y \in Nat /\ o \in Nat /\ w \in Nat /\ lost \in Nat /\ unspent \in Nat
          /\ A \in Nat /\ x <= y + A /\ A <= o /\ z = o + y /\ w <= x + lost + unspent
      BY <1>1, <1>4, <2>2, <2>3, <2>4, <2>5, BookSums DEF Balanced
    <2> HIDE DEF x, y, z, w, o
    <2>8. w <= z + lost + unspent
      BY <2>7
    <2>9. QED
      BY <1>2, <2>6, <2>8 DEF Balanced, w, z
  <1>9. QED
    BY <1>7, <1>8

\* ... and the UPDATE that zeroes what was carried over, of which what the new
\* cycle does not have is lost.
LEMMA ZeroBooks ==
  ASSUME Books, TypeOK', [Next]_vars, NEW t \in Tasks, ZeroCarried(t)
  PROVE  Balanced'
  <1>1. TypeOK /\ ReadsOK /\ cyc \in [Cycles -> CycleRow] /\ Counted \subseteq Cycles
    BY BookSums DEF Books, TypeOK, BookInv
  <1>2. UNCHANGED <<collected, rank, unspent>>
    BY DEF ZeroCarried, ledgerVars
  <1> DEFINE C == WithStatus("carried_over")
             R == Read(C)
             Q == {r \in R : \A s \in carry[t] : s.c # r.c}
             S == Counted \ C
             T == {r.c : r \in Q}
  <1>3. /\ R \in SUBSET Snapshot /\ IsFiniteSet(R) /\ OneEach(R)
        /\ \A r \in R : r.c \in C /\ r.owed = cyc[r.c].owed
        /\ C = {r.c : r \in R}
    BY <1>1, ReadIs DEF WithStatus
  <1>4. lost' = lost + Owed(Q)
    BY DEF ZeroCarried
  <1>5. Q \in SUBSET Snapshot /\ IsFiniteSet(Q) /\ OneEach(Q)
        /\ \A r \in Q : r.owed = cyc[r.c].owed
    BY <1>3, FS_Subset DEF OneEach
  <1>6. T \in SUBSET Cycles
    BY <1>5 DEF Snapshot
  <1>7. /\ Counted \subseteq S \cup T /\ S \in SUBSET Cycles
    <2>1. ASSUME NEW c \in Counted, c \in C PROVE c \in T
      <3>1. PICK r \in R : r.c = c
        BY <1>3, <2>1
      <3>2. \A s \in carry[t] : s.c # c
        BY <1>1, <2>1 DEF Counted, Moved, ZeroCarried
      <3>3. QED
        BY <3>1, <3>2
    <2>2. QED
      BY <1>1, <2>1
  <1>8. /\ S \subseteq Counted'
        /\ \A c \in S : cyc[c].owed <= cyc'[c].owed
    <2>1. ASSUME NEW c \in S PROVE cyc'[c] = cyc[c]
      BY <1>1 DEF ZeroCarried, WithStatus
    <2>2. Moved' \subseteq C
      <3>1. Moved' \subseteq Moved
        <4>1. \A u \in Tasks : ~ InsertCycle(u)
          <5> SUFFICES ASSUME NEW u \in Tasks, InsertCycle(u) PROVE FALSE
            OBVIOUS
          <5>1. PICK d \in Cycles : cyc[d].status = "none" /\ cyc'[d].status = "open"
            BY <1>1 DEF InsertCycle, Fresh
          <5>2. QED
            BY <1>1, <5>1 DEF ZeroCarried
        <4>2. QED
          BY <1>1, <4>1, MovedSteps
      <3>2. QED
        BY <3>1, BookSums
    <2>3. S \subseteq Counted'
      BY <1>1, <2>1, <2>2 DEF Counted, WithStatus
    <2>4. QED
      BY <1>1, <2>1, <2>3, BookSums
  <1>9. SumFunctionOnSet(Asked, T) = Owed(Q) /\ Owed(Q) \in Nat
    <2>1. \A r \in Q : cyc[r.c].owed <= r.owed
      BY <1>5 DEF Snapshot
    <2> HIDE DEF Q
    <2>2. QED
      BY <1>1, <1>5, <2>1, OwedIs
  <1> HIDE DEF C, R, Q, S, T
  <1>10. /\ SumFunctionOnSet(Asked, Counted)
               <= SumFunctionOnSet(Asked', Counted') + SumFunctionOnSet(Asked, T)
         /\ SumFunctionOnSet(Asked', Counted') \in Nat
    BY <1>6, <1>7, <1>8, AskedStep
  <1>11. Left' = Left /\ Charged' = Charged
    BY <1>2 DEF Left, Charged
  <1> DEFINE x == SumFunctionOnSet(Asked, Counted)
             z == SumFunctionOnSet(Asked', Counted')
             w == SumFunctionOnSet(Left, Charged)
             o == Owed(Q)
  <1>12. /\ x \in Nat /\ z \in Nat /\ o \in Nat /\ w \in Nat /\ lost \in Nat /\ unspent \in Nat
         /\ x <= z + o /\ lost' = lost + o /\ w <= x + lost + unspent
    BY <1>1, <1>4, <1>9, <1>10, BookSums DEF Balanced
  <1> HIDE DEF x, z, w, o
  <1>13. w <= z + lost' + unspent
    BY <1>12
  <1>14. QED
    BY <1>2, <1>11, <1>13 DEF Balanced, w, z

\* Where more counts, the sum is the greater.
LEMMA CountedMore ==
  ASSUME TypeOK', Counted \subseteq Counted'
  PROVE  /\ SumFunctionOnSet(Asked', Counted) \in Nat
         /\ SumFunctionOnSet(Asked', Counted') \in Nat
         /\ SumFunctionOnSet(Asked', Counted) <= SumFunctionOnSet(Asked', Counted')
  <1>1. Counted' \in SUBSET Cycles
    BY DEF Counted
  <1>2. IsFiniteSet(Counted') /\ \A c \in Counted' : Asked'[c] \in Nat
    BY <1>1, CyclesFinite DEF TypeOK, CycleRow, Asked
  <1>3. \A c \in Counted' : Asked'[c] <= Asked'[c]
    BY <1>2
  <1>4. QED
    BY <1>2, <1>3, SumBound

\* A fee that is entered is asked for by the youngest open cycle, or lost.
LEMMA EnterBooks ==
  ASSUME Books, LedgerInv', TypeOK', NEW p \in Payments, CreateEntry(p)
  PROVE  IsFiniteSet(Charged)' /\ Balanced'
  <1> DEFINE c == Youngest(WithStatus("open"))
             n == Fee[p]
  <1>1. /\ TypeOK /\ cyc \in [Cycles -> CycleRow] /\ Counted \subseteq Cycles
        /\ LedgerTypes /\ LedgerBacked /\ LedgerInv /\ IsFiniteSet(Charged)
    BY BookSums DEF Books, TypeOK, BookInv, LedgerInv
  <1>2. /\ c \in {0} \cup Cycles /\ (c # 0 => c \in Cycles /\ cyc[c].status = "open")
        /\ n \in Nat
    BY YoungestIs, FeeAssumption DEF WithStatus
  <1>3. Moved' \subseteq Moved
    BY <1>1 DEF Moved, CreateEntry, Goto, TypeOK, Tasks
  <1>4. UNCHANGED <<collected, unspent>> /\ Left' = Left
    BY DEF CreateEntry, Left
  <1> DEFINE x == SumFunctionOnSet(Asked, Counted)
             y == SumFunctionOnSet(Asked', Counted)
             z == SumFunctionOnSet(Asked', Counted')
             w == SumFunctionOnSet(Left, Charged)
             v == SumFunctionOnSet(Left, Charged')
  <1>5. CASE rank[p] > 0
    <2>1. UNCHANGED <<cyc, rank, lost>>
      BY <1>5 DEF CreateEntry
    <2>2. Counted \subseteq Counted' /\ Charged' = Charged
      BY <1>3, <2>1 DEF Counted, WithStatus, Charged
    <2>3. \A d \in Counted : cyc[d].owed <= cyc'[d].owed
      BY <1>1, <2>1, BookSums
    <2>4. QED
      BY <1>1, <1>4, <2>1, <2>2, <2>3, AskedMore
  <1>6. CASE ~ rank[p] > 0
    <2>1. /\ rank' = [rank EXCEPT ![p] = entries + 1]
          /\ cyc' = IF c = 0 THEN cyc ELSE [cyc EXCEPT ![c].owed = @ + n]
          /\ lost' = IF c = 0 THEN lost + n ELSE lost
      BY <1>6 DEF CreateEntry
    <2>2. p \notin Charged /\ Charged' = Charged \cup {p}
      BY <1>1, <1>6, <2>1 DEF Charged, LedgerTypes
    <2>3. IsFiniteSet(Charged')
      BY <1>1, <2>2, FS_AddElement
    <2>4. \A q \in Charged \cup {p} : Left[q] \in Int
      BY <1>1, LeftIs DEF Charged
    <2>5. Left[p] = n
      BY <1>1, <1>2, <1>6 DEF Left, LedgerTypes, LedgerBacked
    <2>6. v = w + n
      BY <1>1, <2>2, <2>4, <2>5, SumAdd
    <2> HIDE DEF c, n
    <2>7. \A d \in Cycles : /\ cyc'[d].status = cyc[d].status
                            /\ cyc'[d].owed = IF d = c THEN cyc[d].owed + n ELSE cyc[d].owed
      <3> SUFFICES ASSUME NEW d \in Cycles
                   PROVE  /\ cyc'[d].status = cyc[d].status
                          /\ cyc'[d].owed = IF d = c THEN cyc[d].owed + n ELSE cyc[d].owed
        OBVIOUS
      <3>1. cyc[d] \in CycleRow
        BY <1>1
      <3>2. CASE d = c
        <4>1. c # 0
          BY <3>2 DEF Cycles
        <4>2. cyc'[d] = [cyc[d] EXCEPT !.owed = cyc[d].owed + n]
          BY <1>1, <2>1, <3>2, <4>1
        <4>3. QED
          BY <3>1, <3>2, <4>2 DEF CycleRow
      <3>3. CASE d # c
        BY <1>1, <2>1, <3>3
      <3>4. QED
        BY <3>2, <3>3
    <2>8. Counted \subseteq Counted'
      BY <1>1, <1>3, <2>7 DEF Counted, WithStatus
    <2>9. /\ \A d \in Counted : Asked[d] \in Int /\ Asked'[d] \in Int
          /\ \A d \in Counted \ {c} : Asked'[d] = Asked[d]
          /\ IsFiniteSet(Counted)
      <3>1. \A d \in Cycles : Asked[d] = cyc[d].owed /\ Asked'[d] = cyc'[d].owed
        BY DEF Asked
      <3>2. \A d \in Cycles : cyc[d].owed \in Nat /\ cyc'[d].owed \in Nat
        BY <1>1 DEF TypeOK, CycleRow
      <3>3. IsFiniteSet(Counted)
        BY <1>1, CyclesFinite
      <3>4. QED
        BY <1>1, <2>7, <3>1, <3>2, <3>3
    <2>10. CASE c = 0
      <3>1. y = x
        <4>1. c \notin Counted
          BY <1>1, <2>10 DEF Cycles
        <4>2. \A d \in Counted : Asked'[d] = Asked[d]
          BY <2>9, <4>1
        <4> HIDE DEF x, y
        <4>3. QED
          BY <2>9, <4>2, SumSame DEF x, y
      <3>2. lost' = lost + n
        BY <2>1, <2>10
      <3>3. /\ x \in Nat /\ z \in Nat /\ w \in Nat /\ lost \in Nat /\ unspent \in Nat
            /\ y <= z /\ w <= x + lost + unspent
        BY <2>8, CountedMore, BookSums DEF Balanced
      <3> HIDE DEF x, y, z, w, v
      <3>4. v <= z + lost' + unspent
        BY <1>2, <2>6, <3>1, <3>2, <3>3
      <3>5. QED
        BY <1>4, <2>3, <3>4 DEF Balanced, v, z
    <2>11. CASE c # 0
      <3>1. c \in Counted /\ Asked'[c] = Asked[c] + n
        <4>1. c \in Cycles /\ cyc[c].status = "open"
          BY <1>2, <2>11
        <4>2. QED
          BY <2>7, <4>1, BookSums DEF Counted, WithStatus, Asked
      <3>2. y = x + Asked'[c] - Asked[c]
        BY <2>9, <3>1, SumChange
      <3>3. lost' = lost
        BY <2>1, <2>11
      <3>4. /\ x \in Nat /\ z \in Nat /\ w \in Nat /\ lost \in Nat /\ unspent \in Nat
            /\ y <= z /\ w <= x + lost + unspent /\ Asked[c] \in Int
        BY <2>8, <2>9, <3>1, CountedMore, BookSums DEF Balanced
      <3> HIDE DEF x, y, z, w, v
      <3>5. v <= z + lost' + unspent
        BY <1>2, <2>6, <3>1, <3>2, <3>3, <3>4
      <3>6. QED
        BY <1>4, <2>3, <3>5 DEF Balanced, v, z
    <2>12. QED
      BY <2>10, <2>11
  <1>7. QED
    BY <1>5, <1>6

\* What is collected from an entry is taken off its cycle as far as it goes.
LEMMA ApplyBooks ==
  ASSUME Books, LedgerInv', TypeOK', NEW p \in Payments, ApplyCollected(p)
  PROVE  Balanced'
  <1> DEFINE d == CollectedAfter(p, got) - collected[p]
  <1>1. /\ TypeOK /\ cyc \in [Cycles -> CycleRow] /\ Counted \subseteq Cycles
        /\ LedgerTypes /\ LedgerBacked /\ LedgerInv /\ IsFiniteSet(Charged)
        /\ collected \in [Payments -> Nat] /\ home \in [Payments -> {0} \cup Cycles]
    BY BookSums DEF Books, TypeOK, BookInv, LedgerInv
  <1>2. d \in Nat /\ CollectedAfter(p, got) \in Nat
    BY <1>1, FeeAssumption DEF LedgerTypes, CollectedAfter, AtLeast, AtMost
  <1>3. Moved' \subseteq Moved
    BY <1>1 DEF Moved, ApplyCollected, Goto, TypeOK, Tasks
  <1>4. UNCHANGED <<rank, lost, unspent>> /\ Charged' = Charged
    BY DEF ApplyCollected, historyVars, Charged
  <1>5. CASE rank[p] = 0
    <2>1. UNCHANGED <<cyc, collected>>
      BY <1>5 DEF ApplyCollected
    <2>2. Counted \subseteq Counted'
      BY <1>3, <2>1 DEF Counted, WithStatus
    <2>3. \A c \in Counted : cyc[c].owed <= cyc'[c].owed
      BY <1>1, <2>1, BookSums
    <2>4. QED
      BY <1>4, <2>1, <2>2, <2>3, AskedMore
  <1>6. CASE rank[p] # 0
    <2> DEFINE h == home[p]
               x == SumFunctionOnSet(Asked, Counted)
               y == SumFunctionOnSet(Asked', Counted)
               z == SumFunctionOnSet(Asked', Counted')
               w == SumFunctionOnSet(Left, Charged)
               v == SumFunctionOnSet(Left', Charged)
    <2>1. /\ collected' = [collected EXCEPT ![p] = CollectedAfter(p, got)]
          /\ cyc' = IF h = 0 THEN cyc ELSE [cyc EXCEPT ![h].owed = OwedAfter(@, d)]
      BY <1>6 DEF ApplyCollected
    <2>2. v = w - d
      <3>1. /\ p \in Charged
            /\ \A q \in Charged : Left[q] \in Int /\ Left'[q] \in Int
            /\ \A q \in Charged \ {p} : Left'[q] = Left[q]
            /\ Left'[p] = Left[p] - d
        <4>1. \A q \in Payments : /\ Left[q] = Fee[q] - collected[q]
                                  /\ Left'[q] = Fee[q] - collected'[q]
          BY DEF Left
        <4>2. \A q \in Payments : /\ collected[q] \in Nat /\ Fee[q] \in Nat
                                  /\ collected'[q] \in Nat
          BY <1>1, FeeAssumption DEF TypeOK
        <4>3. /\ collected'[p] = collected[p] + d
              /\ \A q \in Payments \ {p} : collected'[q] = collected[q]
          BY <1>1, <1>2, <2>1, <4>2
        <4>4. p \in Charged /\ Charged \subseteq Payments
          BY <1>1, <1>6 DEF Charged, LedgerTypes
        <4> HIDE DEF d
        <4>5. QED
          BY <1>2, <4>1, <4>2, <4>3, <4>4
      <3> HIDE DEF d
      <3>2. v = w + Left'[p] - Left[p]
        BY <1>1, <3>1, SumChange
      <3>3. w \in Int
        BY BookSums
      <3> HIDE DEF v, w
      <3>4. QED
        BY <1>2, <3>1, <3>2, <3>3
    <2> HIDE DEF d
    <2>3. \A c \in Cycles : /\ cyc'[c].status = cyc[c].status
                            /\ c # h => cyc'[c].owed = cyc[c].owed
                            /\ c = h => cyc'[c].owed = OwedAfter(cyc[c].owed, d)
      <3> SUFFICES ASSUME NEW c \in Cycles
                   PROVE  /\ cyc'[c].status = cyc[c].status
                          /\ c # h => cyc'[c].owed = cyc[c].owed
                          /\ c = h => cyc'[c].owed = OwedAfter(cyc[c].owed, d)
        OBVIOUS
      <3>1. cyc[c] \in CycleRow
        BY <1>1
      <3>2. CASE c = h
        <4>1. h # 0
          BY <3>2 DEF Cycles
        <4>2. cyc'[c] = [cyc[c] EXCEPT !.owed = OwedAfter(cyc[c].owed, d)]
          BY <1>1, <2>1, <3>2, <4>1
        <4>3. QED
          BY <3>1, <3>2, <4>2 DEF CycleRow
      <3>3. CASE c # h
        BY <1>1, <2>1, <3>3
      <3>4. QED
        BY <3>2, <3>3
    <2>4. Counted \subseteq Counted'
      BY <1>1, <1>3, <2>3 DEF Counted, WithStatus
    <2>5. /\ \A c \in Counted : Asked[c] \in Int /\ Asked'[c] \in Int
          /\ \A c \in Counted \ {h} : Asked'[c] = Asked[c]
          /\ h \in Counted => Asked'[h] >= Asked[h] - d
          /\ IsFiniteSet(Counted)
      <3>1. \A c \in Cycles : Asked[c] = cyc[c].owed /\ Asked'[c] = cyc'[c].owed
        BY DEF Asked
      <3>2. \A c \in Cycles : cyc[c].owed \in Nat /\ cyc'[c].owed \in Nat
        BY <1>1 DEF TypeOK, CycleRow
      <3> HIDE DEF h
      <3>3. h \in Cycles => cyc'[h].owed >= cyc[h].owed - d
        BY <1>2, <2>3, <3>2, OwedAfterBounds
      <3>4. IsFiniteSet(Counted)
        BY <1>1, CyclesFinite
      <3>5. \A c \in Cycles \ {h} : Asked'[c] = Asked[c]
        BY <2>3, <3>1
      <3>6. h \in Counted => Asked'[h] >= Asked[h] - d
        BY <1>1, <3>1, <3>3
      <3>7. QED
        BY <1>1, <3>1, <3>2, <3>4, <3>5, <3>6
    <2> HIDE DEF h
    <2>6. x \in Nat /\ y >= x - d
      <3>1. CASE h \in Counted
        <4>1. y = x + Asked'[h] - Asked[h]
          BY <2>5, <3>1, SumChange
        <4>2. x \in Nat
          BY BookSums
        <4> HIDE DEF x, y
        <4>3. QED
          BY <1>2, <2>5, <3>1, <4>1, <4>2
      <3>2. CASE h \notin Counted
        <4>1. y = x
          <5>1. \A c \in Counted : Asked'[c] = Asked[c]
            BY <2>5, <3>2
          <5>2. QED
            BY <2>5, <5>1, SumSame
        <4>2. x \in Nat
          BY BookSums
        <4> HIDE DEF x, y
        <4>3. QED
          BY <1>2, <4>1, <4>2
      <3>3. QED
        BY <3>1, <3>2
    <2>7. /\ y \in Nat /\ z \in Nat /\ w \in Nat /\ lost \in Nat /\ unspent \in Nat
          /\ y <= z /\ w <= x + lost + unspent
      BY <2>4, CountedMore, BookSums DEF Balanced
    <2> HIDE DEF x, y, z, w, v
    <2>8. v <= z + lost + unspent
      BY <1>2, <2>2, <2>6, <2>7
    <2>9. QED
      BY <1>4, <2>8 DEF Balanced, v, z
  <1>7. QED
    BY <1>5, <1>6

\* A cycle that is closed as paid loses what was entered since it was read.
LEMMA ClosePaidBooks ==
  ASSUME Books, TypeOK', NEW r \in batch, ClosePaid(r)
  PROVE  Balanced'
  <1> DEFINE c == r.c
             S == Counted \ {c}
             T == {c}
  <1>1. /\ TypeOK /\ cyc \in [Cycles -> CycleRow] /\ Counted \subseteq Cycles
        /\ c \in Cycles
    BY BookSums DEF Books, TypeOK, Snapshot
  <1>2. /\ UNCHANGED <<collected, rank, unspent>> /\ lost' = lost + cyc[c].owed
        /\ cyc' = [cyc EXCEPT ![c] = [cyc[c] EXCEPT !.status = "paid"]]
    BY DEF ClosePaid, Closed, ledgerVars
  <1>3. Moved' \subseteq Moved
    BY <1>1 DEF Moved, ClosePaid, Closed, Goto, TypeOK, Tasks
  <1>4. /\ Counted \subseteq S \cup T /\ S \subseteq Counted'
        /\ S \in SUBSET Cycles /\ T \in SUBSET Cycles
        /\ \A d \in S : cyc[d].owed <= cyc'[d].owed
    <2>1. \A d \in S : cyc'[d] = cyc[d]
      BY <1>1, <1>2
    <2>2. S \subseteq Counted'
      BY <1>1, <1>3, <2>1 DEF Counted, WithStatus
    <2>3. QED
      BY <1>1, <2>1, <2>2, BookSums
  <1> HIDE DEF c, S
  <1>5. SumFunctionOnSet(Asked, T) = cyc[c].owed
    <2>1. SumFunctionOnSet(Asked, {} \cup {c}) = SumFunctionOnSet(Asked, {}) + Asked[c]
      <3>1. IsFiniteSet({}) /\ c \notin {} /\ \A d \in {} \cup {c} : Asked[d] \in Int
        BY <1>1, FS_EmptySet, BookSums
      <3>2. QED
        BY <3>1, SumAdd
    <2>2. {} \cup {c} = T
      OBVIOUS
    <2>3. QED
      BY <1>1, <2>1, <2>2, SumEmpty, BookSums
  <1> HIDE DEF T
  <1> DEFINE x == SumFunctionOnSet(Asked, Counted)
             z == SumFunctionOnSet(Asked', Counted')
             w == SumFunctionOnSet(Left, Charged)
             o == cyc[c].owed
  <1>6. /\ x \in Nat /\ z \in Nat /\ w \in Nat /\ o \in Nat /\ lost \in Nat /\ unspent \in Nat
        /\ x <= z + o /\ w <= x + lost + unspent
    BY <1>1, <1>4, <1>5, AskedStep, BookSums DEF Balanced
  <1>7. Left' = Left /\ Charged' = Charged
    BY <1>2 DEF Left, Charged
  <1> HIDE DEF x, z, w, o
  <1>8. w <= z + lost' + unspent
    BY <1>2, <1>6 DEF o
  <1>9. QED
    BY <1>2, <1>7, <1>8 DEF Balanced, w, z

\* A bill that is claimed pays what its cycle asks for, out of the entries, as
\* far as there are any, and up to its price.
LEMMA ClaimBooks ==
  ASSUME Books, LedgerInv', TypeOK', NEW c \in Cycles, NEW b \in Bills, Claim(c, b)
  PROVE  Balanced'
  <1> DEFINE P == Payable(c)
             price == bill[b].price
             o == cyc[c].owed
             L == SumFunctionOnSet(Left, P)
  <1>1. /\ TypeOK /\ cyc \in [Cycles -> CycleRow] /\ Counted \subseteq Cycles
        /\ LedgerTypes /\ LedgerBacked /\ LedgerInv /\ IsFiniteSet(Charged)
        /\ o \in Nat /\ price \in Nat
    BY BookSums DEF Books, TypeOK, BookInv, LedgerInv, BillRow
  <1>2. UNCHANGED <<rank, pc, carry>> /\ Charged' = Charged /\ Moved' = Moved
    BY DEF Claim, Charged, Moved
  <1>3. CASE UNCHANGED <<cyc, collected, lost, unspent>>
    <2>1. Counted \subseteq Counted'
      BY <1>2, <1>3 DEF Counted, WithStatus
    <2>2. \A d \in Counted : cyc[d].owed <= cyc'[d].owed
      BY <1>1, <1>3, BookSums
    <2>3. QED
      BY <1>2, <1>3, <2>1, <2>2, AskedMore
  <1>4. CASE ~ UNCHANGED <<cyc, collected, lost, unspent>>
    <2>1. PICK units \in [Payments -> Units] :
            /\ Spread(units, P, price)
            /\ cyc' = [cyc EXCEPT ![c].status = "paid", ![c].owed = 0]
            /\ collected' = [p \in Payments |-> collected[p] + units[p]]
            /\ lost' = lost + AtLeast(0, o - price)
            /\ unspent' = unspent + AtLeast(0, price - L)
      BY <1>4 DEF Claim
    <2>2. c \in Counted
      <3>1. cyc[c].status \in Due
        BY <1>4 DEF Claim
      <3>2. QED
        BY <3>1, BookSums DEF Due, Counted, WithStatus
    <2> DEFINE x == SumFunctionOnSet(Asked, Counted)
               z == SumFunctionOnSet(Asked', Counted')
               w == SumFunctionOnSet(Left, Charged)
               v == SumFunctionOnSet(Left', Charged)
               u == SumFunctionOnSet(units, P)
    <2> HIDE DEF price, o, P, L
    <2>3. P \subseteq Charged /\ P \subseteq Payments /\ L \in Nat
      <3>1. P \subseteq Charged /\ P \subseteq Payments
        BY DEF P, Payable, Charged
      <3>2. QED
        BY <1>1, <3>1, LeftIs DEF L
    <2>4. u = AtMost(price, L)
      BY <2>1 DEF Spread, L
    <2>5. v = w - u
      <3>1. \A p \in Payments : /\ units[p] \in Nat
                                /\ p \notin P => units[p] = 0
        <4>1. \A p \in Payments : units[p] \in Nat
          BY <1>1, <2>1, SpreadBounds DEF P
        <4>2. \A p \in Payments : units[p] <= (IF p \in P THEN Left[p] ELSE 0)
          BY <2>1 DEF Spread
        <4>3. QED
          BY <4>1, <4>2
      <3>2. \A p \in Payments : /\ Left[p] = Fee[p] - collected[p]
                                /\ Left'[p] = Fee[p] - (collected[p] + units[p])
        BY <2>1 DEF Left
      <3>3. \A p \in Payments : Fee[p] \in Nat /\ collected[p] \in Nat
        BY <1>1, FeeAssumption DEF TypeOK
      <3>4. \A p \in Payments : Left'[p] = Left[p] - units[p]
        BY <3>1, <3>2, <3>3
      <3>5. \A p \in Payments : Left[p] \in Nat /\ Left'[p] \in Nat
        <4>1. \A p \in Payments : collected'[p] <= Fee[p] /\ collected'[p] \in Nat
          BY DEF TypeOK, LedgerInv, LedgerBacked
        <4>2. \A p \in Payments : Left'[p] = Fee[p] - collected'[p]
          BY DEF Left
        <4>3. \A p \in Payments : Left'[p] \in Nat
          BY <3>3, <4>1, <4>2
        <4>4. \A p \in Payments : Left[p] \in Nat
          BY <1>1, LeftIs
        <4>5. QED
          BY <4>3, <4>4
      <3>6. Charged \subseteq Payments
        BY DEF Charged
      <3>7. /\ \A p \in Charged : Left[p] \in Nat /\ units[p] \in Nat /\ Left'[p] \in Nat
            /\ \A p \in P : Left'[p] = Left[p] - units[p]
            /\ \A p \in Charged \ P : Left'[p] = Left[p]
        <4>1. \A p \in Payments : units[p] = 0 => Left'[p] = Left[p]
          BY <3>4, <3>5
        <4>2. QED
          BY <2>3, <3>1, <3>4, <3>5, <3>6, <4>1
      <3>8. QED
        BY <1>1, <2>3, <3>7, SumLess
    <2>6. x <= z + o /\ z \in Nat
      <3> DEFINE S == Counted \ {c}
                 T == {c}
      <3>1. \A d \in S : cyc'[d] = cyc[d]
        BY <1>1, <2>1
      <3>2. S \subseteq Counted'
        BY <1>1, <1>2, <3>1 DEF Counted, WithStatus
      <3>3. \A d \in S : cyc[d].owed <= cyc'[d].owed
        BY <1>1, <3>1, BookSums
      <3>4. Counted \subseteq S \cup T /\ S \in SUBSET Cycles /\ T \in SUBSET Cycles
        BY <1>1
      <3> HIDE DEF S
      <3>5. SumFunctionOnSet(Asked, T) = o
        <4>1. IsFiniteSet({}) /\ c \notin {} /\ \A d \in {} \cup {c} : Asked[d] \in Int
          BY FS_EmptySet, BookSums
        <4>2. SumFunctionOnSet(Asked, {} \cup {c}) = SumFunctionOnSet(Asked, {}) + Asked[c]
          BY <4>1, SumAdd
        <4>3. {} \cup {c} = T /\ Asked[c] = o
          BY BookSums DEF o
        <4>4. QED
          BY <1>1, <4>2, <4>3, SumEmpty
      <3> HIDE DEF T
      <3>6. QED
        BY <3>2, <3>3, <3>4, <3>5, AskedStep
    <2>7. /\ x \in Nat /\ w \in Nat /\ lost \in Nat /\ unspent \in Nat
          /\ w <= x + lost + unspent
      BY BookSums DEF Balanced
    <2> HIDE DEF x, z, w, v, u
    <2>8. v <= z + lost' + unspent'
      BY <1>1, <2>1, <2>3, <2>4, <2>5, <2>6, <2>7 DEF AtMost, AtLeast
    <2>9. QED
      BY <1>2, <2>8 DEF Balanced, v, z
  <1>5. QED
    BY <1>3, <1>4

\* Types after a claim.
LEMMA ClaimTypes ==
  ASSUME Books, LedgerInv', NEW c \in Cycles, NEW b \in Bills, Claim(c, b)
  PROVE  TypeOK'
  <1>1. TypeOK /\ LedgerTypes' /\ LedgerTypes /\ LedgerBacked /\ IsFiniteSet(Charged)
    BY DEF Books, LedgerInv, BookInv
  <1>2. /\ cyc' = cyc \/ cyc' = [cyc EXCEPT ![c].status = "paid", ![c].owed = 0]
        /\ merchant' \in {merchant, "active"} /\ claims' \subseteq claims
        /\ lost' = lost \/ lost' = lost + AtLeast(0, cyc[c].owed - bill[b].price)
        /\ \/ unspent' = unspent
           \/ unspent' = unspent + AtLeast(0, bill[b].price
                                     - SumFunctionOnSet(Left, Payable(c)))
    BY DEF Claim
  <1>3. paidBy' \in [Payments -> SUBSET Bills]
    <2>1. \/ paidBy' = paidBy
          \/ \E paid : paidBy' = [p \in Payments |->
               IF p \in paid THEN paidBy[p] \cup {b} ELSE paidBy[p]]
      BY DEF Claim
    <2>2. QED
      BY <1>1, <2>1 DEF TypeOK
  <1>4. cyc' \in [Cycles -> CycleRow]
    <2>1. cyc \in [Cycles -> CycleRow]
      BY <1>1 DEF TypeOK
    <2>2. \/ cyc'[c] = cyc[c]
          \/ cyc'[c] = [cyc[c] EXCEPT !.status = "paid", !.owed = 0]
      BY <1>2, <2>1
    <2>3. \A d \in Cycles \ {c} : cyc'[d] = cyc[d]
      BY <1>2, <2>1
    <2>4. \A d \in Cycles : cyc'[d] \in CycleRow
      BY <2>1, <2>2, <2>3, RowTypes
    <2>5. QED
      BY <1>2, <2>1, <2>4
  <1>5. /\ cyc[c].owed \in Nat /\ bill[b].price \in Nat
        /\ SumFunctionOnSet(Left, Payable(c)) \in Nat
    <2>1. Payable(c) \subseteq Charged
      BY DEF Payable, Charged
    <2>2. QED
      BY <1>1, <2>1, LeftIs DEF TypeOK, CycleRow, BillRow
  <1>6. lost' \in Nat /\ unspent' \in Nat
    <2>1. lost \in Nat /\ unspent \in Nat
      BY <1>1 DEF TypeOK
    <2>2. QED
      BY <1>2, <1>5, <2>1 DEF AtLeast
  <1>7. QED
    BY <1>1, <1>2, <1>3, <1>4, <1>6
    DEF Claim, TypeOK, LedgerTypes, scannerVars, hourlyVars

\* Every step keeps the types, and with them the invariant.
LEMMA NextType ==
  ASSUME Books, LedgerInv', [Next]_vars
  PROVE  TypeOK'
  <1>1. TypeOK
    BY DEF Books
  <1>2. ASSUME NEW c \in Cycles, NEW b \in Bills, Claim(c, b) PROVE TypeOK'
    BY <1>2, ClaimTypes
  <1>3. QED
    BY <1>1, <1>2, ScannerTypes, HourlyTypes, OtherTypes DEF Next, Mempool

\* A cycle nobody has opened owes nothing.
LEMMA NoneOwes ==
  ASSUME Books, LedgerInv', TypeOK', [Next]_vars, NEW c \in Cycles,
         cyc'[c].status = "none"
  PROVE  cyc'[c].owed = 0
  <1>1. cyc \in [Cycles -> CycleRow] /\ (cyc[c].status = "none" => cyc[c].owed = 0)
    BY DEF Books, TypeOK, BookInv
  <1>2. CASE UNCHANGED cyc
    BY <1>1, <1>2
  <1>3. ASSUME NEW t \in Tasks, InsertCycle(t) \/ ZeroCarried(t) PROVE cyc'[c].owed = 0
    <2>1. CASE InsertCycle(t)
      BY <1>1, <2>1 DEF InsertCycle
    <2>2. CASE ZeroCarried(t)
      BY <1>1, <2>2 DEF ZeroCarried
    <2>3. QED
      BY <1>3, <2>1, <2>2
  <1>4. ASSUME NEW p \in Payments, CreateEntry(p) PROVE cyc'[c].owed = 0
    <2> DEFINE d == Youngest(WithStatus("open"))
    <2>1. d = 0 \/ cyc[d].status = "open"
      BY YoungestIs DEF WithStatus
    <2>2. cyc' = cyc \/ (d # 0 /\ cyc' = [cyc EXCEPT ![d].owed = @ + Fee[p]])
      BY <1>4 DEF CreateEntry
    <2> HIDE DEF d
    <2>3. CASE c # d
      BY <1>1, <1>4, <2>2, <2>3
    <2>4. CASE c = d
      <3>1. \/ cyc'[c] = cyc[c]
            \/ /\ cyc[c].status = "open"
               /\ cyc'[c] = [cyc[c] EXCEPT !.owed = cyc[c].owed + Fee[p]]
        BY <1>1, <2>1, <2>2, <2>4
      <3>2. QED
        BY <1>1, <3>1 DEF CycleRow
    <2>5. QED
      BY <2>3, <2>4
  <1>5. ASSUME NEW p \in Payments, ApplyCollected(p) PROVE cyc'[c].owed = 0
    <2> DEFINE d == CollectedAfter(p, got) - collected[p]
    <2>1. d \in Nat
      BY FeeAssumption DEF Books, LedgerInv, LedgerTypes, CollectedAfter, AtLeast, AtMost
    <2>2. \/ cyc'[c] = cyc[c]
          \/ cyc'[c] = [cyc[c] EXCEPT !.owed = OwedAfter(cyc[c].owed, d)]
      BY <1>1, <1>5 DEF ApplyCollected
    <2> HIDE DEF d
    <2>3. OwedAfter(0, d) = 0
      BY <2>1 DEF OwedAfter, AtLeast
    <2>4. QED
      BY <1>1, <2>2, <2>3 DEF CycleRow
  <1>6. ASSUME NEW r \in batch,
               ClosePaid(r) \/ CarryOver(r) \/ Invoice(r) \/ Overdue(r) \/ Suspend(r)
        PROVE  cyc'[c].owed = 0
    <2>1. \/ cyc'[c] = cyc[c]
          \/ \E s \in CycleStatuses : s # "none" /\ cyc'[c] = [cyc[c] EXCEPT !.status = s]
          \/ \E b \in Bills :
               cyc'[c] = [cyc[c] EXCEPT !.status = "invoiced", !.bill = b,
                                        !.left = Grace[tier]]
      <3>1. CASE c # r.c
        BY <1>1, <1>6, <3>1 DEF ClosePaid, CarryOver, Invoice, Closed, Overdue, Suspend
      <3>2. CASE c = r.c
        BY <1>1, <1>6, <3>2
        DEF ClosePaid, CarryOver, Invoice, Closed, Overdue, Suspend, CycleStatuses, Fresh
      <3>3. QED
        BY <3>1, <3>2
    <2>2. QED
      BY <1>1, <2>1 DEF CycleRow
  <1>7. ASSUME NEW d \in Cycles, NEW b \in Bills, Claim(d, b) \/ Link(d, b)
        PROVE  cyc'[c].owed = 0
    <2>1. \/ cyc'[c] = cyc[c]
          \/ cyc'[c] = [cyc[c] EXCEPT !.status = "paid", !.owed = 0]
          \/ cyc'[c] = [cyc[c] EXCEPT !.status = "invoiced", !.bill = b,
                                      !.left = Grace["new"]]
      BY <1>1, <1>7 DEF Claim, Link
    <2>2. QED
      BY <1>1, <2>1 DEF CycleRow
  <1>8. CASE Tick
    <2>1. cyc'[c] = cyc[c] \/ cyc'[c] = [cyc[c] EXCEPT !.left = @ - 1]
      BY <1>8 DEF Tick
    <2>2. QED
      BY <1>1, <2>1 DEF CycleRow
  <1>9. QED
    BY <1>2, <1>3, <1>4, <1>5, <1>6, <1>7, <1>8, CycleSteps

\* Only an entry that is created is charged.
LEMMA FewCharged ==
  ASSUME Books, LedgerInv', TypeOK', [Next]_vars
  PROVE  IsFiniteSet(Charged)'
  <1>1. CASE \E p \in Payments : CreateEntry(p)
    BY <1>1, EnterBooks
  <1>2. CASE UNCHANGED rank
    BY <1>2 DEF Books, BookInv, Charged
  <1>3. QED
    BY <1>1, <1>2
    DEF Next, Scanner, Hourly, Mempool, Merchant, Ensure, FindOpen, SumCarried,
        InsertCycle, ZeroCarried, Confirm, Receive, TotalReceipts, ApplyCollected,
        ReadExpired, ClosePaid, CarryOver, Invoice, Closed, Overdue, Suspend,
        ReadOverdue, ReadPastDue, Judge, UpgradeTier, ReadSettled, Claim, Settle,
        Link, PayBill, Tick, FailScanner, FailHourly, Crash, dbVars, ledgerVars, vars

\* Every step keeps the books.
LEMMA NextBooks ==
  ASSUME Books, [Next]_vars
  PROVE  Books'
  <1>1. LedgerInv'
    BY Step DEF Books
  <1>2. TypeOK'
    BY <1>1, NextType
  <1>3. ReadsOK'
    BY <1>2, NextReads
  <1>4. \A c \in Cycles : cyc'[c].status = "none" => cyc'[c].owed = 0
    BY <1>1, <1>2, NoneOwes
  <1>5. IsFiniteSet(Charged)'
    BY <1>1, <1>2, FewCharged
  <1>6. Balanced'
    BY <1>1, <1>2, BookSteps, InsertBooks, ZeroBooks, EnterBooks, ApplyBooks,
       ClosePaidBooks, ClaimBooks, PlainStep
  <1>7. QED
    BY <1>1, <1>2, <1>3, <1>4, <1>5, <1>6 DEF Books, BookInv, Balanced, Counted

\* The books balance at first.
LEMMA InitBooks == Init => Books
  <1> SUFFICES ASSUME Init PROVE Books
    OBVIOUS
  <1>1. TypeOK /\ LedgerInv
    BY InitType, InitInv
  <1>2. Charged = {} /\ IsFiniteSet(Charged)
    BY FS_EmptySet DEF Init, Charged
  <1>3. ReadsOK
    BY FS_EmptySet DEF Init, ReadsOK, OneEach, Tasks
  <1>4. \A c \in Cycles : cyc[c].status = "none" => cyc[c].owed = 0
    BY DEF Init, NoCycle
  <1>5. SumFunctionOnSet(Left, Charged) = 0
    BY <1>2, SumEmpty
  <1>6. SumFunctionOnSet(Asked, Counted) \in Nat
    <2>1. Counted \in SUBSET Cycles /\ \A c \in Counted : Asked[c] \in Nat
      BY <1>1 DEF Counted, TypeOK, CycleRow, Asked
    <2>2. IsFiniteSet(Counted) /\ \A c \in Counted : Asked[c] <= Asked[c]
      BY <2>1, CyclesFinite
    <2>3. QED
      BY <2>1, <2>2, SumBound
  <1>7. lost = 0 /\ unspent = 0
    BY DEF Init
  <1>8. SumFunctionOnSet(Left, Charged)
          <= SumFunctionOnSet(Asked, Counted) + lost + unspent
    BY <1>5, <1>6, <1>7
  <1>9. QED
    BY <1>1, <1>2, <1>3, <1>4, <1>8 DEF Books, BookInv, Counted

\* What counts is asked for by a cycle that is not paid.
LEMMA BooksForgetNothing == Books => NothingForgotten
  <1> SUFFICES ASSUME Books PROVE NothingForgotten
    OBVIOUS
  <1> DEFINE U == Cycles \ WithStatus("paid")
             x == SumFunctionOnSet(Asked, Counted)
             y == SumFunctionOnSet(Asked, U)
             w == SumFunctionOnSet(Left, Charged)
  <1>1. /\ U \in SUBSET Cycles /\ Counted \subseteq U
        /\ \A c \in U : Asked[c] \in Nat /\ Asked[c] <= Asked[c]
    <2>1. \A c \in Cycles : Asked[c] \in Nat
      BY BookSums
    <2>2. QED
      BY <2>1 DEF Counted
  <1>2. IsFiniteSet(U)
    BY <1>1, CyclesFinite
  <1>3. x <= y
    BY <1>1, <1>2, SumBound
  <1>4. /\ x \in Nat /\ y \in Nat /\ w \in Nat /\ lost \in Nat /\ unspent \in Nat
        /\ w <= x + lost + unspent
    BY <1>1, BookSums DEF Balanced
  <1> HIDE DEF x, y, w
  <1>5. w <= y + lost + unspent
    BY <1>3, <1>4
  <1>6. QED
    BY <1>5 DEF NothingForgotten, y, w

-----------------------------------------------------------------------------
(* The theorems about cycles.                                              *)

\* Every variable has its type: no balance, of a cycle, an entry or a bill,
\* becomes negative.
THEOREM TypeCorrect == Spec => []TypeOK
  <1>1. Books /\ [Next]_vars => Books'
    BY NextBooks
  <1>2. Books => TypeOK
    BY DEF Books
  <1>3. QED
    BY <1>1, <1>2, InitBooks, PTL DEF Spec

\* Opening, carrying over, billing, claiming, enforcing and collecting forget
\* no fee, but for what a write based on an older read drops, and for bills
\* that find too little to pay, whatever interleaves, fails or crashes.
THEOREM NothingIsForgotten == Spec => []NothingForgotten
  <1>1. Books /\ [Next]_vars => Books'
    BY NextBooks
  <1>2. QED
    BY <1>1, InitBooks, BooksForgetNothing, PTL DEF Spec

=============================================================================
