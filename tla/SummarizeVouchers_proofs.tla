---------------------- MODULE SummarizeVouchers_proofs ----------------------
(***************************************************************************)
(* Theorems about SummarizeVouchers, for lists, pages, caps and changes of *)
(* any size.                                                               *)
(*                                                                         *)
(* The pages read so far are the front of the list, the rest is its back.  *)
(* What the walk missed went from the back to the front without being      *)
(* read, what it counts twice goes from the front to the back; a voucher   *)
(* that leaves or enters the list moves one other at most.                 *)
(*                                                                         *)
(* What the summary adds up is a sum over a finite set.  Its facts need    *)
(* induction on finite sets, which is used here for a property given as a  *)
(* set: a smallest subset without it would be a contradiction.             *)
(***************************************************************************)
EXTENDS SummarizeVouchers, SequenceTheorems, FiniteSetTheorems, TLAPS

\* The rows of n full pages.
Rows(n) == n * Size

\* The vouchers in the first b places of a list, and those behind them.
Front(l, b) == {l[i] : i \in {j \in 1..Len(l) : j <= b}}
Back(l, b)  == {l[i] : i \in {j \in 1..Len(l) : j > b}}

\* The vouchers in the places b + 1 to c.
Between(l, b, c) == {l[i] : i \in {j \in 1..Len(l) : b < j /\ j <= c}}

\* No voucher is in the list twice.
Distinct(l) == \A i, j \in 1..Len(l) : l[i] = l[j] => i = j

\* s are the places b + 1 to n of l; m is p followed by q.
IsPart(s, l, b, n) ==
  s \in Seq(Vouchers) /\ Len(s) = n - b /\ \A j \in 1..(n - b) : s[j] = l[b + j]
IsJoin(m, p, q) ==
  /\ m \in Seq(Vouchers) /\ Len(m) = Len(p) + Len(q)
  /\ \A j \in 1..(Len(p) + Len(q)) : m[j] = IF j <= Len(p) THEN p[j] ELSE q[j - Len(p)]

\* m is l with v put behind the first i places, and l without its i-th place.
WithAt(m, l, v, i) ==
  /\ m \in Seq(Vouchers) /\ Len(m) = Len(l) + 1
  /\ \A j \in 1..Len(m) : m[j] = IF j <= i THEN l[j] ELSE IF j = i + 1 THEN v ELSE l[j - 1]
WithoutAt(m, l, i) ==
  /\ m \in Seq(Vouchers) /\ Len(m) = Len(l) - 1
  /\ \A j \in 1..Len(m) : m[j] = IF j < i THEN l[j] ELSE l[j + 1]

\* The vouchers of S not counted yet, and those counted.
Missed(S) == {v \in S : counted[v] = 0}
Met(S)    == {v \in S : counted[v] > 0}

\* The groups are those of the vouchers in S.
Tally(S) ==
  \A g \in Groups :
    LET mine == {v \in S : GroupOf[v] = g}
    IN  groups[g] = [count |-> Cardinality(mine), sum |-> SumOver(AmountOf, mine)]

\* The list has each voucher once, and those that stayed are still in it.
Shape ==
  /\ list \in Seq(Vouchers) /\ Distinct(list) /\ stayed \subseteq Listed(list)
  /\ counted \in [Vouchers -> Nat] /\ entered \in Nat /\ left \in Nat

\* Of the vouchers that stayed, those missed for good are in the front, and
\* those still to be counted again are in the back.
Drift ==
  /\ pc = "scanning" =>
       /\ Cardinality(Missed(stayed \cap Front(list, Rows(page)))) <= left
       /\ SumOver(Excess, stayed) + Cardinality(Met(stayed \cap Back(list, Rows(page)))) <= entered
  /\ DriftBounded

\* With nobody else at work the groups are those of the front, in the end of
\* the list.
Quiet ==
  entered = 0 /\ left = 0 =>
    /\ pc = "scanning" =>
         /\ scanned = Rows(page) /\ Rows(page) <= Len(list)
         /\ Tally(Front(list, Rows(page)))
    /\ Complete =>
         /\ scanned = Len(list) /\ totalElements = Len(list)
         /\ Tally(Listed(list))

\* While the walk goes on the cap was not reached; at its end the last answer
\* compares with the pages as the flag says.
Walk ==
  /\ page \in Nat /\ pagesScanned \in Nat /\ truncated \in BOOLEAN
  /\ pc \in {"scanning", "done", "failed"}
  /\ pc = "scanning" => page = pagesScanned /\ page < MaxPages /\ ~truncated
  /\ pc = "done" =>
       /\ truncated <=> totalElements > Rows(pagesScanned)
       /\ truncated => pagesScanned = MaxPages

\* The inductive invariant.
IInv == Shape /\ Walk /\ Drift /\ Quiet

-----------------------------------------------------------------------------
\* What every subset of a finite set inherits from its proper subsets holds of
\* each: induction on finite sets, for a property given as a set.
LEMMA SubsetInduction ==
  ASSUME NEW S, IsFiniteSet(S), NEW G,
         \A T \in SUBSET S : (\A U \in SUBSET T : U # T => U \in G) => T \in G
  PROVE  \A T \in SUBSET S : T \in G
<1> DEFINE Bad == (SUBSET S) \ G
           R   == StrictSubsetOrdering(S)
<1> SUFFICES ASSUME Bad # {} PROVE FALSE
  OBVIOUS
<1>1. IsWellFoundedOn(R, SUBSET S)
  <2>1. FiniteSubsetsOf(S) = SUBSET S
    BY FS_FiniteSubsetsOfFinite
  <2>2. IsWellFoundedOn(R, FiniteSubsetsOf(S))
    BY FS_StrictSubsetOrderingWellFounded
  <2> QED
    BY <2>1, <2>2, Zenon
<1>2. Bad \subseteq SUBSET S
  OBVIOUS
<1> HIDE DEF R, Bad
<1>3. PICK T \in Bad : \A U \in Bad : <<U, T>> \notin R
  BY <1>1, <1>2, WFMin
<1>4. ASSUME NEW U \in SUBSET T, U # T PROVE U \in G
  <2>1. U \in SUBSET S /\ T \in SUBSET S
    BY <1>2, <1>3
  <2>2. <<U, T>> \in R
    BY <1>4, <2>1 DEF R, StrictSubsetOrdering
  <2>3. U \notin Bad
    BY <1>3, <2>2
  <2> QED
    BY <2>1, <2>3 DEF Bad
<1>5. T \in SUBSET S /\ T \notin G
  BY <1>3 DEF Bad
<1> QED
  BY <1>4, <1>5

-----------------------------------------------------------------------------
(* Sums over finite sets. *)

\* The element a sum takes out first.
Pick(s) == CHOOSE x \in s : TRUE

\* f sums w over the subsets of S, one element after the other.
Sums(f, w, S) ==
  f = [s \in SUBSET S |-> IF s = {} THEN 0 ELSE w[Pick(s)] + f[s \ {Pick(s)}]]

\* SumOver is what MapThenSumSet defines by recursion on the subsets.
LEMMA SumUnfold ==
  ASSUME NEW w, NEW S
  PROVE  SumOver(w, S) = (CHOOSE f : Sums(f, w, S))[S]
BY DEF SumOver, MapThenSumSet, MapThenFoldSet, Sums, Pick

\* The voucher taken out next is one of them.
LEMMA PickIn ==
  ASSUME NEW s, s # {}
  PROVE  Pick(s) \in s
BY DEF Pick

\* What such a function is at a subset.
LEMMA SumsAt ==
  ASSUME NEW w, NEW S, NEW f, Sums(f, w, S)
  PROVE  /\ f[{}] = 0
         /\ \A s \in SUBSET S : s # {} => f[s] = w[Pick(s)] + f[s \ {Pick(s)}]
<1>1. DOMAIN f = SUBSET S
  BY DEF Sums
<1>2. \A s \in SUBSET S : f[s] = IF s = {} THEN 0 ELSE w[Pick(s)] + f[s \ {Pick(s)}]
  BY DEF Sums
<1> QED
  BY <1>2

\* Two such functions agree where both are defined.
LEMMA SumsUnique ==
  ASSUME NEW w, NEW S, IsFiniteSet(S), NEW T \in SUBSET S, NEW f, NEW g,
         Sums(f, w, S), Sums(g, w, T)
  PROVE  f[T] = g[T]
<1> DEFINE G == {U \in SUBSET T : f[U] = g[U]}
<1>1. ASSUME NEW U \in SUBSET T, \A V \in SUBSET U : V # U => V \in G
      PROVE  U \in G
  <2>1. CASE U = {}
    BY <2>1, SumsAt
  <2>2. CASE U # {}
    <3> DEFINE V == U \ {Pick(U)}
    <3>1. V \in SUBSET U /\ V # U
      BY <2>2, PickIn
    <3>2. f[V] = g[V]
      BY <1>1, <3>1
    <3>3. U \in SUBSET S
      OBVIOUS
    <3>4. f[U] = w[Pick(U)] + f[V]
      BY <2>2, <3>3, SumsAt
    <3>5. g[U] = w[Pick(U)] + g[V]
      BY <2>2, SumsAt
    <3> QED
      BY <3>2, <3>4, <3>5
  <2> QED
    BY <2>1, <2>2
<1>2. IsFiniteSet(T)
  BY FS_Subset
<1> HIDE DEF G
<1>3. \A U \in SUBSET T : U \in G
  BY <1>1, <1>2, SubsetInduction
<1>4. T \in G
  BY <1>3
<1> QED
  BY <1>4 DEF G

\* There is one for every finite set.
LEMMA SumsExist ==
  ASSUME NEW w, NEW S, IsFiniteSet(S)
  PROVE  \E f : Sums(f, w, S)
<1> DEFINE G == {T \in SUBSET S : \E f : Sums(f, w, T)}
<1>1. ASSUME NEW T \in SUBSET S, \A U \in SUBSET T : U # T => U \in G
      PROVE  T \in G
  <2> DEFINE F(U)    == CHOOSE f : Sums(f, w, U)
             Rest(s) == s \ {Pick(s)}
             g == [s \in SUBSET T |-> IF s = {} THEN 0 ELSE w[Pick(s)] + F(Rest(s))[Rest(s)]]
  <2>1. ASSUME NEW U \in SUBSET T, U # T PROVE Sums(F(U), w, U)
    <3>1. \E f : Sums(f, w, U)
      BY <1>1, <2>1
    <3> QED
      BY <3>1
  <2>2. ASSUME NEW s \in SUBSET T, s # {}
        PROVE  Rest(s) \in SUBSET T /\ Rest(s) # T
    BY <2>2, PickIn
  <2> HIDE DEF F
  <2>3. ASSUME NEW U \in SUBSET T, U # T
        PROVE  g[U] = F(U)[U]
    <3>1. CASE U = {}
      BY <2>1, <2>3, <3>1, SumsAt
    <3>2. CASE U # {}
      <4>1. Rest(U) \in SUBSET U /\ Rest(U) \in SUBSET T /\ Rest(U) # T
        BY <2>2, <3>2
      <4>2. Sums(F(U), w, U) /\ Sums(F(Rest(U)), w, Rest(U))
        BY <2>1, <2>3, <4>1
      <4>3. IsFiniteSet(U)
        BY FS_Subset
      <4> HIDE DEF Rest
      <4>4. F(U)[Rest(U)] = F(Rest(U))[Rest(U)]
        BY <4>1, <4>2, <4>3, SumsUnique
      <4>5. U \in SUBSET U
        OBVIOUS
      <4>6. F(U)[U] = w[Pick(U)] + F(U)[Rest(U)]
        BY <3>2, <4>2, <4>5, SumsAt DEF Rest
      <4> QED
        BY <3>2, <4>4, <4>6
    <3> QED
      BY <3>1, <3>2
  <2>4. \A s \in SUBSET T : s # {} => g[Rest(s)] = F(Rest(s))[Rest(s)]
    BY <2>2, <2>3
  <2>5. g = [s \in SUBSET T |-> IF s = {} THEN 0 ELSE w[Pick(s)] + g[Rest(s)]]
    <3>1. \A s \in SUBSET T : (IF s = {} THEN 0 ELSE w[Pick(s)] + F(Rest(s))[Rest(s)])
                              = (IF s = {} THEN 0 ELSE w[Pick(s)] + g[Rest(s)])
      BY <2>4
    <3> QED
      BY <3>1
  <2>6. Sums(g, w, T)
    BY <2>5 DEF Sums
  <2> QED
    BY <2>6
<1> HIDE DEF G
<1>2. S \in G
  BY <1>1, SubsetInduction
<1> QED
  BY <1>2 DEF G

\* The sum over a finite set: 0 for the empty one, and a voucher's weight more
\* than for the rest.
LEMMA SumRec ==
  ASSUME NEW w, NEW S, IsFiniteSet(S)
  PROVE  IF S = {} THEN SumOver(w, S) = 0
                   ELSE SumOver(w, S) = w[Pick(S)] + SumOver(w, S \ {Pick(S)})
<1> DEFINE F(U) == CHOOSE f : Sums(f, w, U)
           Rest == S \ {Pick(S)}
<1>1. IsFiniteSet(Rest) /\ Rest \in SUBSET S /\ S \in SUBSET S
  BY FS_Subset
<1>2. Sums(F(S), w, S) /\ Sums(F(Rest), w, Rest)
  BY <1>1, SumsExist
<1>3. SumOver(w, S) = F(S)[S] /\ SumOver(w, Rest) = F(Rest)[Rest]
  BY SumUnfold
<1> HIDE DEF F
<1>4. CASE S = {}
  BY <1>2, <1>3, <1>4, SumsAt
<1>5. CASE S # {}
  <2>1. F(S)[S] = w[Pick(S)] + F(S)[Rest]
    BY <1>1, <1>2, <1>5, SumsAt
  <2> HIDE DEF Rest
  <2>2. F(S)[Rest] = F(Rest)[Rest]
    BY <1>1, <1>2, SumsUnique
  <2> QED
    BY <1>3, <1>5, <2>1, <2>2 DEF Rest
<1> QED
  BY <1>4, <1>5

\* The sum over no voucher.
LEMMA SumEmpty == \A w : SumOver(w, {}) = 0
BY SumRec, FS_EmptySet

\* Integer weights have an integer sum.
LEMMA SumType ==
  ASSUME NEW w, NEW S, IsFiniteSet(S), \A v \in S : w[v] \in Int
  PROVE  \A T \in SUBSET S : SumOver(w, T) \in Int
<1> DEFINE G == {T \in SUBSET S : SumOver(w, T) \in Int}
<1>1. ASSUME NEW T \in SUBSET S, \A U \in SUBSET T : U # T => U \in G
      PROVE  T \in G
  <2>1. IsFiniteSet(T)
    BY FS_Subset
  <2>2. CASE T = {}
    BY <2>2, SumEmpty
  <2>3. CASE T # {}
    <3> DEFINE U == T \ {Pick(T)}
    <3>1. Pick(T) \in T /\ U \in SUBSET T /\ U # T
      BY <2>3, PickIn
    <3>2. w[Pick(T)] \in Int /\ SumOver(w, U) \in Int
      BY <1>1, <3>1
    <3>3. SumOver(w, T) = w[Pick(T)] + SumOver(w, U)
      BY <2>1, <2>3, SumRec
    <3> QED
      BY <3>2, <3>3
  <2> QED
    BY <2>2, <2>3
<1> HIDE DEF G
<1>2. \A T \in SUBSET S : T \in G
  BY <1>1, SubsetInduction
<1> QED
  BY <1>2 DEF G

\* Any voucher may be taken out first.
LEMMA SumRemove ==
  ASSUME NEW w, NEW S, IsFiniteSet(S), \A v \in S : w[v] \in Int
  PROVE  \A x \in S : SumOver(w, S) = w[x] + SumOver(w, S \ {x})
<1> DEFINE G == {T \in SUBSET S : \A x \in T : SumOver(w, T) = w[x] + SumOver(w, T \ {x})}
<1>1. ASSUME NEW T \in SUBSET S, \A U \in SUBSET T : U # T => U \in G
      PROVE  T \in G
  <2> SUFFICES ASSUME NEW x \in T PROVE SumOver(w, T) = w[x] + SumOver(w, T \ {x})
    OBVIOUS
  <2> DEFINE p == Pick(T)
  <2>1. IsFiniteSet(T) /\ T # {} /\ p \in T
    BY FS_Subset, PickIn
  <2>2. SumOver(w, T) = w[p] + SumOver(w, T \ {p})
    BY <2>1, SumRec
  <2> HIDE DEF p
  <2>3. CASE x # p
    <3> DEFINE both == T \ {x, p}
    <3>1. T \ {p} \in G /\ T \ {x} \in G
      BY <1>1, <2>1
    <3>2. (T \ {p}) \ {x} = both /\ (T \ {x}) \ {p} = both
      OBVIOUS
    <3>3. SumOver(w, T \ {p}) = w[x] + SumOver(w, both)
      BY <2>3, <3>1, <3>2
    <3>4. SumOver(w, T \ {x}) = w[p] + SumOver(w, both)
      BY <2>1, <2>3, <3>1, <3>2
    <3>5. w[x] \in Int /\ w[p] \in Int /\ SumOver(w, both) \in Int
      <4>1. both \in SUBSET S
        OBVIOUS
      <4> QED
        BY <2>1, <4>1, SumType
    <3> HIDE DEF both
    <3> QED
      BY <2>2, <3>3, <3>4, <3>5
  <2> QED
    BY <2>2, <2>3
<1> HIDE DEF G
<1>2. S \in G
  BY <1>1, SubsetInduction
<1> QED
  BY <1>2 DEF G

\* The sum over two sets that share nothing.
LEMMA SumUnion ==
  ASSUME NEW w, NEW A, NEW B, IsFiniteSet(A), IsFiniteSet(B), A \cap B = {},
         \A v \in A \cup B : w[v] \in Int
  PROVE  SumOver(w, A \cup B) = SumOver(w, A) + SumOver(w, B)
<1> DEFINE G == {T \in SUBSET B : SumOver(w, A \cup T) = SumOver(w, A) + SumOver(w, T)}
<1>1. SumOver(w, A) \in Int
  BY SumType
<1>2. ASSUME NEW T \in SUBSET B, \A U \in SUBSET T : U # T => U \in G
      PROVE  T \in G
  <2>1. CASE T = {}
    <3>1. A \cup {} = A
      OBVIOUS
    <3>2. SumOver(w, A \cup {}) = SumOver(w, A)
      BY <3>1, Zenon
    <3>3. SumOver(w, {}) = 0
      BY SumEmpty
    <3>4. SumOver(w, A \cup T) = SumOver(w, A) + SumOver(w, T)
      BY <1>1, <2>1, <3>2, <3>3
    <3> QED
      BY <3>4
  <2>2. CASE T # {}
    <3>1. PICK x \in T : TRUE
      BY <2>2
    <3> DEFINE U == T \ {x}
    <3>2. U \in SUBSET T /\ U # T /\ (A \cup T) \ {x} = A \cup U
      <4>1. x \in B /\ x \notin A
        OBVIOUS
      <4>2. (A \cup T) \ {x} = A \cup U
        BY <4>1
      <4>3. U \in SUBSET T /\ U # T
        BY <3>1
      <4> QED
        BY <4>2, <4>3
    <3>3. IsFiniteSet(T) /\ IsFiniteSet(A \cup T)
      BY FS_Subset, FS_Union
    <3>4. SumOver(w, A \cup U) = SumOver(w, A) + SumOver(w, U)
      BY <1>2, <3>2
    <3>5. SumOver(w, T) = w[x] + SumOver(w, U)
      BY <3>3, SumRemove
    <3>6. SumOver(w, A \cup T) = w[x] + SumOver(w, A \cup U)
      <4>1. x \in A \cup T /\ \A v \in A \cup T : w[v] \in Int
        OBVIOUS
      <4>2. SumOver(w, A \cup T) = w[x] + SumOver(w, (A \cup T) \ {x})
        BY <3>3, <4>1, SumRemove
      <4> QED
        BY <3>2, <4>2
    <3>7. SumOver(w, U) \in Int /\ w[x] \in Int
      <4>1. U \in SUBSET T /\ x \in B /\ \A v \in T : w[v] \in Int
        OBVIOUS
      <4>2. SumOver(w, U) \in Int
        BY <3>3, <4>1, SumType
      <4> QED
        BY <4>1, <4>2
    <3> HIDE DEF U
    <3> QED
      BY <1>1, <3>4, <3>5, <3>6, <3>7
  <2> QED
    BY <2>1, <2>2
<1> HIDE DEF G
<1>3. B \in G
  BY <1>2, SubsetInduction
<1> QED
  BY <1>3 DEF G

\* Weights that are not negative: a part sums to no more than the whole.
LEMMA SumMonotone ==
  ASSUME NEW w, NEW S, IsFiniteSet(S), \A v \in S : w[v] \in Nat, NEW T \in SUBSET S
  PROVE  SumOver(w, T) \in Nat /\ SumOver(w, T) <= SumOver(w, S)
<1> DEFINE G == {A \in SUBSET S : SumOver(w, A) \in Nat}
<1>1. ASSUME NEW A \in SUBSET S, \A U \in SUBSET A : U # A => U \in G
      PROVE  A \in G
  <2>1. CASE A = {}
    BY <2>1, SumEmpty
  <2>2. CASE A # {}
    <3>1. PICK x \in A : TRUE
      BY <2>2
    <3>2. A \ {x} \in G
      BY <1>1
    <3>3. IsFiniteSet(A) /\ \A v \in A : w[v] \in Int
      BY FS_Subset
    <3>4. SumOver(w, A) = w[x] + SumOver(w, A \ {x})
      BY <3>3, SumRemove
    <3> QED
      BY <3>2, <3>4
  <2> QED
    BY <2>1, <2>2
<1> HIDE DEF G
<1>2. \A A \in SUBSET S : A \in G
  BY <1>1, SubsetInduction
<1>3. SumOver(w, T) \in Nat /\ SumOver(w, S \ T) \in Nat
  BY <1>2 DEF G
<1>4. SumOver(w, S) = SumOver(w, T) + SumOver(w, S \ T)
  <2>1. IsFiniteSet(T) /\ IsFiniteSet(S \ T) /\ T \cap (S \ T) = {} /\ T \cup (S \ T) = S
    BY FS_Subset
  <2>2. \A v \in S : w[v] \in Int
    OBVIOUS
  <2>3. SumOver(w, T \cup (S \ T)) = SumOver(w, T) + SumOver(w, S \ T)
    BY <2>1, <2>2, SumUnion
  <2> QED
    BY <2>1, <2>3
<1> QED
  BY <1>3, <1>4

\* One more for each voucher of K adds as many as there are in K.
LEMMA SumBump ==
  ASSUME NEW w, NEW u, NEW S, IsFiniteSet(S), \A v \in S : w[v] \in Int,
         NEW K, \A v \in S : u[v] = IF v \in K THEN w[v] + 1 ELSE w[v]
  PROVE  SumOver(u, S) = SumOver(w, S) + Cardinality(S \cap K)
<1> DEFINE G == {T \in SUBSET S : SumOver(u, T) = SumOver(w, T) + Cardinality(T \cap K)}
<1>1. ASSUME NEW T \in SUBSET S, \A U \in SUBSET T : U # T => U \in G
      PROVE  T \in G
  <2>1. CASE T = {}
    <3>1. T \cap K = {} /\ SumOver(u, T) = 0 /\ SumOver(w, T) = 0
      BY <2>1, SumEmpty
    <3> QED
      BY <3>1, FS_EmptySet
  <2>2. CASE T # {}
    <3>1. PICK x \in T : TRUE
      BY <2>2
    <3> DEFINE U == T \ {x}
               c == Cardinality(U \cap K)
    <3>2. U \in G
      BY <1>1
    <3>3. /\ IsFiniteSet(T) /\ IsFiniteSet(U \cap K)
          /\ \A v \in T : w[v] \in Int /\ u[v] \in Int
      BY FS_Subset
    <3>4. SumOver(w, T) = w[x] + SumOver(w, U) /\ SumOver(u, T) = u[x] + SumOver(u, U)
      BY <3>3, SumRemove
    <3>5. SumOver(w, U) \in Int /\ c \in Int /\ w[x] \in Int
      <4>1. SumOver(w, U) \in Int
        BY <3>3, SumType
      <4>2. c \in Int
        BY <3>3, FS_CardinalityType
      <4> QED
        BY <4>1, <4>2
    <3>6. SumOver(u, U) = SumOver(w, U) + c
      BY <3>2
    <3>7. CASE x \in K
      <4>1. T \cap K = (U \cap K) \cup {x} /\ x \notin U \cap K
        BY <3>7
      <4>2. Cardinality(T \cap K) = c + 1
        BY <3>3, <4>1, FS_AddElement
      <4>3. u[x] = w[x] + 1
        BY <3>7
      <4> HIDE DEF U, c
      <4>4. SumOver(u, T) = SumOver(w, T) + Cardinality(T \cap K)
        BY <3>4, <3>5, <3>6, <4>2, <4>3
      <4> QED
        BY <4>4
    <3>8. CASE x \notin K
      <4>1. T \cap K = U \cap K
        BY <3>8
      <4>2. u[x] = w[x]
        BY <3>8
      <4>3. Cardinality(T \cap K) = c
        BY <4>1
      <4> HIDE DEF U, c
      <4>4. SumOver(u, T) = SumOver(w, T) + Cardinality(T \cap K)
        BY <3>4, <3>5, <3>6, <4>2, <4>3
      <4> QED
        BY <4>4
    <3> QED
      BY <3>7, <3>8
  <2> QED
    BY <2>1, <2>2
<1> HIDE DEF G
<1>2. S \in G
  BY <1>1, SubsetInduction
<1> QED
  BY <1>2 DEF G

\* Weights that are all 0.
LEMMA SumZero ==
  ASSUME NEW w, NEW S, IsFiniteSet(S), \A v \in S : w[v] = 0
  PROVE  SumOver(w, S) = 0
<1> DEFINE G == {T \in SUBSET S : SumOver(w, T) = 0}
<1>1. ASSUME NEW T \in SUBSET S, \A U \in SUBSET T : U # T => U \in G
      PROVE  T \in G
  <2>1. CASE T = {}
    BY <2>1, SumEmpty
  <2>2. CASE T # {}
    <3>1. PICK x \in T : TRUE
      BY <2>2
    <3>2. T \ {x} \in G
      BY <1>1
    <3>3. IsFiniteSet(T) /\ \A v \in T : w[v] \in Int
      BY FS_Subset
    <3>4. SumOver(w, T) = w[x] + SumOver(w, T \ {x})
      BY <3>3, SumRemove
    <3> QED
      BY <3>2, <3>4
  <2> QED
    BY <2>1, <2>2
<1> HIDE DEF G
<1>2. S \in G
  BY <1>1, SubsetInduction
<1> QED
  BY <1>2 DEF G

-----------------------------------------------------------------------------
(* Counting. *)

\* A part of a finite set, and one element more.
LEMMA CardPart ==
  ASSUME NEW S, IsFiniteSet(S), NEW T, T \subseteq S
  PROVE  /\ IsFiniteSet(T) /\ Cardinality(T) \in Nat /\ Cardinality(S) \in Nat
         /\ Cardinality(T) <= Cardinality(S)
BY FS_Subset, FS_CardinalityType

\* A part of a finite set with one element more.
LEMMA CardOneMore ==
  ASSUME NEW S, IsFiniteSet(S), NEW x, NEW T, T \subseteq S \cup {x}
  PROVE  /\ Cardinality(T) \in Nat /\ Cardinality(S) \in Nat
         /\ Cardinality(T) <= Cardinality(S) + 1
<1>1. IsFiniteSet(S \cup {x}) /\ Cardinality(S) \in Nat
  BY FS_AddElement, FS_CardinalityType
<1>2. Cardinality(S \cup {x}) <= Cardinality(S) + 1
  BY <1>1, FS_AddElement
<1>3. Cardinality(T) \in Nat /\ Cardinality(S \cup {x}) \in Nat /\ Cardinality(T) <= Cardinality(S \cup {x})
  BY <1>1, CardPart
<1> QED
  BY <1>1, <1>2, <1>3

\* Two finite sets that share nothing.
LEMMA CardSum ==
  ASSUME NEW S, NEW T, IsFiniteSet(S), IsFiniteSet(T), S \cap T = {}
  PROVE  /\ Cardinality(S \cup T) = Cardinality(S) + Cardinality(T)
         /\ Cardinality(S) \in Nat /\ Cardinality(T) \in Nat
<1>1. Cardinality(S \cap T) = 0
  BY FS_EmptySet
<1>2. Cardinality(S) \in Nat /\ Cardinality(T) \in Nat
  BY FS_CardinalityType
<1>3. Cardinality(S \cup T) = Cardinality(S) + Cardinality(T) - Cardinality(S \cap T)
  BY FS_Union
<1> QED
  BY <1>1, <1>2, <1>3

-----------------------------------------------------------------------------
(* Lists and their two parts. *)

\* The vouchers of a list are those of its two parts, and finitely many.
LEMMA ListFinite ==
  ASSUME NEW l \in Seq(Vouchers), NEW b \in Int
  PROVE  /\ IsFiniteSet(Listed(l)) /\ Listed(l) \subseteq Vouchers
         /\ IsFiniteSet(Front(l, b)) /\ IsFiniteSet(Back(l, b))
         /\ Front(l, b) \cup Back(l, b) = Listed(l)
<1>1. Len(l) \in Nat /\ l \in [1..Len(l) -> Vouchers]
  BY LenProperties
<1>2. IsFiniteSet(Listed(l))
  <2>1. IsFiniteSet(1..Len(l))
    BY <1>1, FS_Interval
  <2>2. l \in Surjection(1..Len(l), Listed(l))
    BY <1>1 DEF Surjection, Listed
  <2> QED
    BY <2>1, <2>2, FS_Surjection
<1>3. Front(l, b) \subseteq Listed(l) /\ Back(l, b) \subseteq Listed(l)
  BY DEF Front, Back, Listed
<1>4. Listed(l) \subseteq Front(l, b) \cup Back(l, b)
  <2>1. ASSUME NEW i \in 1..Len(l) PROVE l[i] \in Front(l, b) \cup Back(l, b)
    <3>1. i <= b \/ i > b
      BY <1>1
    <3> QED
      BY <3>1 DEF Front, Back
  <2> QED
    BY <2>1 DEF Listed
<1>5. Listed(l) \subseteq Vouchers
  BY <1>1 DEF Listed
<1>6. IsFiniteSet(Front(l, b)) /\ IsFiniteSet(Back(l, b))
  BY <1>2, <1>3, FS_Subset
<1> QED
  BY <1>2, <1>3, <1>4, <1>5, <1>6

\* As many places as vouchers: none is there twice.
LEMMA AllDistinct ==
  ASSUME NEW l \in Seq(Vouchers), Cardinality(Listed(l)) = Len(l)
  PROVE  Distinct(l)
<1>1. Len(l) \in Nat /\ l \in [1..Len(l) -> Vouchers]
  BY LenProperties
<1>2. IsFiniteSet(1..Len(l)) /\ Cardinality(1..Len(l)) = Len(l)
  <2> DEFINE n == Len(l)
  <2>1. 1 \in Int /\ n \in Int /\ (IF 1 > n THEN 0 ELSE n - 1 + 1) = n
    BY <1>1
  <2> HIDE DEF n
  <2>2. IsFiniteSet(1..n) /\ Cardinality(1..n) = n
    BY <2>1, FS_Interval
  <2> QED
    BY <2>2 DEF n
<1>3. l \in Surjection(1..Len(l), Listed(l))
  BY <1>1 DEF Surjection, Listed
<1>4. l \in Injection(1..Len(l), Listed(l))
  BY <1>2, <1>3, FS_SurjSameCardinalityImpliesInj
<1> QED
  BY <1>1, <1>4 DEF Injection, IsInjective, Distinct

\* A part of a list: its places b + 1 to n.
LEMMA PartRows ==
  ASSUME NEW l \in Seq(Vouchers), NEW b \in Nat, NEW n \in Int, b <= n, n <= Len(l)
  PROVE  IsPart(SubSeq(l, b + 1, n), l, b, n)
<1> DEFINE a == b + 1
           s == SubSeq(l, a, n)
<1>1. Len(l) \in Nat /\ \A j \in 1..Len(l) : l[j] \in Vouchers
  BY LenProperties
<1>2. a \in Int /\ \A i \in a..n : l[i] \in Vouchers
  BY <1>1
<1>3. (IF a <= n THEN n - a + 1 ELSE 0) = n - b /\ n - a + 1 = n - b
  OBVIOUS
<1>4. \A j \in Int : a + j - 1 = b + j
  OBVIOUS
<1> HIDE DEF a
<1>5. /\ s \in Seq(Vouchers)
      /\ Len(s) = IF a <= n THEN n - a + 1 ELSE 0
      /\ \A i \in 1..(n - a + 1) : s[i] = l[a + i - 1]
  BY <1>2, SubSeqProperties
<1> HIDE DEF s
<1>6. s \in Seq(Vouchers) /\ Len(s) = n - b
  BY <1>3, <1>5
<1>7. ASSUME NEW j \in 1..(n - b) PROVE s[j] = l[b + j]
  <2>1. s[j] = l[a + j - 1]
    BY <1>3, <1>5
  <2>2. a + j - 1 = b + j
    BY <1>4
  <2> QED
    BY <2>1, <2>2
<1>8. IsPart(s, l, b, n)
  BY <1>6, <1>7 DEF IsPart
<1> QED
  BY <1>8, Zenon DEF s, a

\* The first n places of a list.
LEMMA FirstRows ==
  ASSUME NEW l \in Seq(Vouchers), NEW n \in 0..Len(l)
  PROVE  IsPart(SubSeq(l, 1, n), l, 0, n)
<1>1. Len(l) \in Nat /\ 0 \in Nat /\ n \in Int /\ 0 <= n /\ n <= Len(l) /\ 0 + 1 = 1
  BY LenProperties
<1>2. IsPart(SubSeq(l, 0 + 1, n), l, 0, n)
  BY <1>1, PartRows, Zenon
<1> QED
  BY <1>1, <1>2, Zenon

\* The rows of one page: those in the places b + 1 to n.
LEMMA SliceRows ==
  ASSUME NEW l \in Seq(Vouchers), NEW b \in Nat, NEW n \in Nat, n <= Len(l)
  PROVE  /\ Listed(SubSeq(l, b + 1, n)) = Between(l, b, n)
         /\ Len(SubSeq(l, b + 1, n)) = IF b <= n THEN n - b ELSE 0
<1> DEFINE s == SubSeq(l, b + 1, n)
<1>1. Len(l) \in Nat /\ \A j \in 1..Len(l) : l[j] \in Vouchers
  BY LenProperties
<1>2. CASE b > n
  <2>1. s = << >>
    BY <1>2, SubSeqEmpty
  <2> QED
    BY <1>2, <2>1 DEF Listed, Between
<1>3. CASE b <= n
  <2>1. Len(s) = n - b /\ Len(s) \in Nat /\ \A i \in 1..Len(s) : s[i] = l[b + i]
    <3>1. n \in Int /\ IsPart(s, l, b, n)
      BY <1>3, PartRows
    <3> HIDE DEF s
    <3> QED
      BY <1>3, <3>1 DEF IsPart
  <2> HIDE DEF s
  <2>2. ASSUME NEW i \in 1..Len(s)
        PROVE  b + i \in {j \in 1..Len(l) : b < j /\ j <= n}
    BY <1>1, <2>1
  <2>3. ASSUME NEW j \in 1..Len(l), b < j, j <= n
        PROVE  j - b \in 1..Len(s) /\ l[j] = s[j - b]
    <3>1. j - b \in 1..Len(s) /\ b + (j - b) = j
      BY <1>1, <2>1, <2>3
    <3> QED
      BY <2>1, <3>1
  <2>4. \A x \in Listed(s) : x \in Between(l, b, n)
    BY <2>1, <2>2 DEF Listed, Between
  <2>5. \A x \in Between(l, b, n) : x \in Listed(s)
    BY <2>3 DEF Listed, Between
  <2> QED
    BY <1>3, <2>1, <2>4, <2>5 DEF s
<1> QED
  BY <1>2, <1>3

\* Two parts in a row.
LEMMA ConcatRows ==
  ASSUME NEW p \in Seq(Vouchers), NEW q \in Seq(Vouchers)
  PROVE  IsJoin(p \o q, p, q)
BY ConcatProperties, Zenon DEF IsJoin

\* A list with v put behind the first i places.
LEMMA EnterRows ==
  ASSUME NEW l \in Seq(Vouchers), NEW v \in Vouchers, NEW i \in 0..Len(l), NEW m,
         m = SubSeq(l, 1, i) \o <<v>> \o SubSeq(l, i + 1, Len(l))
  PROVE  WithAt(m, l, v, i)
<1> DEFINE p == SubSeq(l, 1, i)
           q == SubSeq(l, i + 1, Len(l))
           r == p \o <<v>>
<1>1. Len(l) \in Nat /\ \A j \in 1..Len(l) : l[j] \in Vouchers
  BY LenProperties
<1>2. p \in Seq(Vouchers) /\ Len(p) = i /\ \A j \in 1..i : p[j] = l[j]
  <2>1. IsPart(p, l, 0, i)
    BY FirstRows, Zenon
  <2> HIDE DEF p
  <2> QED
    BY <1>1, <2>1 DEF IsPart
<1>3. /\ q \in Seq(Vouchers) /\ Len(q) = Len(l) - i
      /\ \A j \in 1..(Len(l) - i) : q[j] = l[i + j]
  <2>1. i \in Nat /\ i <= Len(l) /\ Len(l) \in Int /\ Len(l) <= Len(l)
    BY <1>1
  <2>2. IsPart(q, l, i, Len(l))
    BY <2>1, PartRows, Zenon
  <2> HIDE DEF q
  <2> QED
    BY <2>2, Zenon DEF IsPart
<1>4. <<v>> \in Seq(Vouchers) /\ Len(<<v>>) = 1 /\ <<v>>[1] = v
  OBVIOUS
<1> HIDE DEF p, q
<1>5. /\ r \in Seq(Vouchers) /\ Len(r) = i + 1
      /\ \A j \in 1..(i + 1) : r[j] = IF j <= i THEN l[j] ELSE v
  <2>1. /\ r \in Seq(Vouchers) /\ Len(r) = i + 1
        /\ \A j \in 1..(i + 1) : r[j] = IF j <= i THEN p[j] ELSE <<v>>[j - i]
    BY <1>2, <1>4, ConcatProperties
  <2> QED
    BY <1>2, <1>4, <2>1
<1> HIDE DEF r
<1>6. /\ m \in Seq(Vouchers) /\ Len(m) = Len(l) + 1
      /\ \A j \in 1..(Len(l) + 1) : m[j] = IF j <= i + 1 THEN r[j] ELSE q[j - (i + 1)]
  <2>1. m = r \o q
    BY DEF r, p, q
  <2> DEFINE a == i + 1
             c == Len(l) + 1
  <2>2. a \in Int /\ c \in Int /\ Len(r) = a /\ Len(q) = c - a
    BY <1>1, <1>3, <1>5
  <2> HIDE DEF a, c
  <2>3. Len(r) + Len(q) = c
    BY <2>2
  <2>4. r \in Seq(Vouchers) /\ q \in Seq(Vouchers)
    BY <1>3, <1>5
  <2>5. IsJoin(m, r, q)
    <3>1. IsJoin(r \o q, r, q)
      BY <2>4, ConcatRows, Zenon
    <3> QED
      BY <2>1, <3>1, Zenon
  <2>6. /\ m \in Seq(Vouchers) /\ Len(m) = c
        /\ \A j \in 1..c : m[j] = IF j <= a THEN r[j] ELSE q[j - a]
    BY <2>2, <2>3, <2>5, Zenon DEF IsJoin
  <2> QED
    BY <2>6 DEF a, c
<1>7. ASSUME NEW j \in 1..(Len(l) + 1)
      PROVE  m[j] = IF j <= i THEN l[j] ELSE IF j = i + 1 THEN v ELSE l[j - 1]
  <2>1. CASE j <= i + 1
    <3>1. j \in 1..(i + 1) /\ (~(j <= i) => j = i + 1)
      BY <2>1
    <3>2. m[j] = r[j] /\ r[j] = IF j <= i THEN l[j] ELSE v
      BY <1>5, <1>6, <2>1, <3>1
    <3> QED
      BY <3>1, <3>2
  <2>2. CASE j > i + 1
    <3>1. j - (i + 1) \in 1..(Len(l) - i) /\ i + (j - (i + 1)) = j - 1
      BY <1>1, <2>2
    <3>2. q[j - (i + 1)] = l[j - 1]
      BY <1>3, <3>1
    <3>3. ~(j <= i + 1) /\ ~(j <= i) /\ j # i + 1
      BY <1>1, <2>2
    <3>4. m[j] = q[j - (i + 1)]
      BY <1>6, <3>3
    <3> QED
      BY <3>2, <3>3, <3>4
  <2>3. j <= i + 1 \/ j > i + 1
    BY <1>1
  <2> QED
    BY <2>1, <2>2, <2>3
<1> QED
  BY <1>6, <1>7 DEF WithAt

\* A list without its i-th place.
LEMMA LeaveRows ==
  ASSUME NEW l \in Seq(Vouchers), NEW i \in 1..Len(l), NEW m,
         m = SubSeq(l, 1, i - 1) \o SubSeq(l, i + 1, Len(l))
  PROVE  WithoutAt(m, l, i)
<1> DEFINE p == SubSeq(l, 1, i - 1)
           q == SubSeq(l, i + 1, Len(l))
<1>1. Len(l) \in Nat /\ \A j \in 1..Len(l) : l[j] \in Vouchers
  BY LenProperties
<1>2. p \in Seq(Vouchers) /\ Len(p) = i - 1 /\ \A j \in 1..(i - 1) : p[j] = l[j]
  <2> DEFINE n == i - 1
  <2>1. n \in 0..Len(l)
    BY <1>1
  <2> HIDE DEF n
  <2>2. IsPart(SubSeq(l, 1, n), l, 0, n)
    BY <2>1, FirstRows, Zenon
  <2>3. IsPart(p, l, 0, n)
    BY <2>2, Zenon DEF n
  <2> HIDE DEF p
  <2> QED
    BY <1>1, <2>3 DEF IsPart, n
<1>3. /\ q \in Seq(Vouchers) /\ Len(q) = Len(l) - i
      /\ \A j \in 1..(Len(l) - i) : q[j] = l[i + j]
  <2>1. i \in Nat /\ i <= Len(l) /\ Len(l) \in Int /\ Len(l) <= Len(l)
    BY <1>1
  <2>2. IsPart(q, l, i, Len(l))
    BY <2>1, PartRows, Zenon
  <2> HIDE DEF q
  <2> QED
    BY <2>2, Zenon DEF IsPart
<1> HIDE DEF p, q
<1>4. /\ m \in Seq(Vouchers) /\ Len(m) = Len(l) - 1
      /\ \A j \in 1..(Len(l) - 1) : m[j] = IF j <= i - 1 THEN p[j] ELSE q[j - (i - 1)]
  <2>1. m = p \o q
    BY DEF p, q
  <2> DEFINE a == i - 1
             c == Len(l) - 1
  <2>2. a \in Int /\ c \in Int /\ Len(p) = a /\ Len(q) = c - a
    BY <1>1, <1>2, <1>3
  <2> HIDE DEF a, c
  <2>3. Len(p) + Len(q) = c
    BY <2>2
  <2>4. p \in Seq(Vouchers) /\ q \in Seq(Vouchers)
    BY <1>2, <1>3
  <2>5. IsJoin(m, p, q)
    <3>1. IsJoin(p \o q, p, q)
      BY <2>4, ConcatRows, Zenon
    <3> QED
      BY <2>1, <3>1, Zenon
  <2>6. /\ m \in Seq(Vouchers) /\ Len(m) = c
        /\ \A j \in 1..c : m[j] = IF j <= a THEN p[j] ELSE q[j - a]
    BY <2>2, <2>3, <2>5, Zenon DEF IsJoin
  <2> QED
    BY <2>6 DEF a, c
<1>5. ASSUME NEW j \in 1..(Len(l) - 1)
      PROVE  m[j] = IF j < i THEN l[j] ELSE l[j + 1]
  <2>1. CASE j < i
    <3>1. j \in 1..(i - 1) /\ j <= i - 1
      BY <2>1
    <3>2. m[j] = p[j] /\ p[j] = l[j]
      BY <1>2, <1>4, <3>1
    <3> QED
      BY <2>1, <3>2
  <2>2. CASE j >= i
    <3>1. j - (i - 1) \in 1..(Len(l) - i) /\ i + (j - (i - 1)) = j + 1
      BY <1>1, <2>2
    <3>2. q[j - (i - 1)] = l[j + 1]
      BY <1>3, <3>1
    <3>3. ~(j <= i - 1) /\ ~(j < i)
      BY <1>1, <2>2
    <3>4. m[j] = q[j - (i - 1)]
      BY <1>4, <3>3
    <3> QED
      BY <3>2, <3>3, <3>4
  <2>3. j < i \/ j >= i
    BY <1>1
  <2> QED
    BY <2>1, <2>2, <2>3
<1> QED
  BY <1>4, <1>5 DEF WithoutAt

\* What a voucher that enters does to the list and its two parts: one voucher
\* at most goes from the front to the back.
LEMMA EnterParts ==
  ASSUME NEW l \in Seq(Vouchers), Distinct(l), NEW v \in Vouchers, v \notin Listed(l),
         NEW i \in 0..Len(l), NEW m, WithAt(m, l, v, i), NEW b \in Int
  PROVE  /\ Distinct(m) /\ Listed(l) \subseteq Listed(m)
         /\ Front(m, b) \subseteq Front(l, b) \cup {v}
         /\ Back(m, b) \subseteq Back(l, b) \cup {v} \cup {l[b]}
<1> DEFINE n == Len(l)
           From(j) == IF j <= i THEN j ELSE j - 1
<1>1. /\ n \in Nat /\ i \in Int /\ Len(m) = n + 1
      /\ \A j \in 1..(n + 1) : m[j] = IF j <= i THEN l[j] ELSE IF j = i + 1 THEN v ELSE l[j - 1]
  <2>1. n \in Nat /\ i \in Int
    BY LenProperties
  <2> HIDE DEF n
  <2>2. Len(l) = n
    BY DEF n
  <2> QED
    BY <2>1, <2>2, Zenon DEF WithAt
<1>2. Len(l) = n /\ 0 <= i /\ i <= n
  BY <1>1
<1> HIDE DEF n
<1>3. ASSUME NEW j \in 1..(n + 1), j # i + 1
      PROVE  From(j) \in 1..n /\ m[j] = l[From(j)]
  <2>1. From(j) \in 1..n
    BY <1>1, <1>2, <1>3
  <2>2. m[j] = IF j <= i THEN l[j] ELSE l[j - 1]
    BY <1>1, <1>3
  <2> QED
    BY <2>1, <2>2
<1>4. m[i + 1] = v
  BY <1>1, <1>2
<1>5. ASSUME NEW j \in 1..(n + 1), NEW k \in 1..(n + 1), j # i + 1, k # i + 1, From(j) = From(k)
      PROVE  j = k
  BY <1>1, <1>2, <1>5
<1>6. \A j \in 1..(n + 1) : From(j) <= j /\ (From(j) = j \/ From(j) = j - 1)
  BY <1>1
<1> HIDE DEF From
<1>7. \A j \in 1..n : l[j] # v
  BY <1>2 DEF Listed
<1>8. Distinct(m)
  <2>1. ASSUME NEW j \in 1..(n + 1), NEW k \in 1..(n + 1), m[j] = m[k] PROVE j = k
    <3>1. CASE j = i + 1 /\ k = i + 1
      BY <3>1
    <3>2. CASE j = i + 1 /\ k # i + 1
      BY <1>3, <1>4, <1>7, <2>1, <3>2
    <3>3. CASE j # i + 1 /\ k = i + 1
      BY <1>3, <1>4, <1>7, <2>1, <3>3
    <3>4. CASE j # i + 1 /\ k # i + 1
      <4>1. From(j) \in 1..n /\ From(k) \in 1..n /\ l[From(j)] = l[From(k)]
        BY <1>3, <2>1, <3>4
      <4>2. From(j) = From(k)
        BY <1>2, <4>1 DEF Distinct
      <4> QED
        BY <1>5, <3>4, <4>2
    <3> QED
      BY <3>1, <3>2, <3>3, <3>4
  <2> QED
    BY <1>1, <2>1 DEF Distinct
<1>9. Listed(l) \subseteq Listed(m)
  <2>1. ASSUME NEW j \in 1..n PROVE l[j] \in Listed(m)
    <3>1. CASE j <= i
      <4>1. j \in 1..(n + 1)
        BY <1>1
      <4>2. m[j] = l[j]
        BY <1>1, <3>1, <4>1
      <4> QED
        BY <1>1, <4>1, <4>2 DEF Listed
    <3>2. CASE j > i
      <4>1. j + 1 \in 1..(n + 1) /\ ~(j + 1 <= i) /\ j + 1 # i + 1 /\ j + 1 - 1 = j
        BY <1>1, <3>2
      <4>2. m[j + 1] = l[j]
        BY <1>1, <4>1
      <4> QED
        BY <1>1, <4>1, <4>2 DEF Listed
    <3>3. j <= i \/ j > i
      BY <1>1
    <3> QED
      BY <3>1, <3>2, <3>3
  <2> QED
    BY <1>2, <2>1 DEF Listed
<1>10. Front(m, b) \subseteq Front(l, b) \cup {v}
  <2>1. ASSUME NEW j \in 1..(n + 1), j <= b PROVE m[j] \in Front(l, b) \cup {v}
    <3>1. CASE j = i + 1
      BY <1>4, <3>1
    <3>2. CASE j # i + 1
      <4>1. From(j) \in 1..n /\ m[j] = l[From(j)]
        BY <1>3, <3>2
      <4>2. From(j) <= b
        BY <1>6, <2>1, <4>1
      <4> QED
        BY <1>2, <4>1, <4>2 DEF Front
    <3> QED
      BY <3>1, <3>2
  <2> QED
    BY <1>1, <2>1 DEF Front
<1>11. Back(m, b) \subseteq Back(l, b) \cup {v} \cup {l[b]}
  <2>1. ASSUME NEW j \in 1..(n + 1), j > b PROVE m[j] \in Back(l, b) \cup {v} \cup {l[b]}
    <3>1. CASE j = i + 1
      BY <1>4, <3>1
    <3>2. CASE j # i + 1
      <4>1. From(j) \in 1..n /\ m[j] = l[From(j)]
        BY <1>3, <3>2
      <4>2. From(j) = b \/ From(j) > b
        BY <1>6, <2>1, <4>1
      <4>3. CASE From(j) > b
        BY <1>2, <4>1, <4>3 DEF Back
      <4>4. CASE From(j) = b
        BY <4>1, <4>4
      <4> QED
        BY <4>2, <4>3, <4>4
    <3> QED
      BY <3>1, <3>2
  <2> QED
    BY <1>1, <2>1 DEF Back
<1> QED
  BY <1>8, <1>9, <1>10, <1>11

\* What a voucher that leaves does: one at most goes from the back to the front.
LEMMA LeaveParts ==
  ASSUME NEW l \in Seq(Vouchers), Distinct(l), NEW i \in 1..Len(l), NEW m, WithoutAt(m, l, i), NEW b \in Int
  PROVE  /\ Distinct(m) /\ Listed(l) \ {l[i]} \subseteq Listed(m)
         /\ Front(m, b) \subseteq Front(l, b) \cup {l[b + 1]}
         /\ Back(m, b) \subseteq Back(l, b)
<1> DEFINE n == Len(l)
           From(j) == IF j < i THEN j ELSE j + 1
<1>1. /\ n \in Nat /\ i \in Int /\ Len(m) = n - 1
      /\ \A j \in 1..(n - 1) : m[j] = l[From(j)]
  <2>2. n \in Nat /\ i \in Int
    BY LenProperties
  <2>3. Len(l) = n
    OBVIOUS
  <2>4. \A j \in 1..(n - 1) : m[j] = l[From(j)]
    <3> HIDE DEF n
    <3>2. \A j \in 1..(n - 1) : m[j] = IF j < i THEN l[j] ELSE l[j + 1]
      BY <2>3, Zenon DEF WithoutAt
    <3>3. \A j : (IF j < i THEN l[j] ELSE l[j + 1]) = l[From(j)]
      OBVIOUS
    <3> QED
      BY <3>2, <3>3, Zenon
  <2> HIDE DEF n, From
  <2> QED
    BY <2>2, <2>3, <2>4, Zenon DEF WithoutAt
<1>2. Len(l) = n /\ 1 <= i /\ i <= n
  BY <1>1
<1> HIDE DEF n
<1>3. \A j \in 1..(n - 1) : From(j) \in 1..n /\ (From(j) = j \/ From(j) = j + 1)
  BY <1>1, <1>2
<1>4. ASSUME NEW j \in 1..(n - 1), NEW k \in 1..(n - 1), From(j) = From(k)
      PROVE  j = k
  BY <1>1, <1>2, <1>4
<1>5. ASSUME NEW j \in 1..n, j # i PROVE \E k \in 1..(n - 1) : From(k) = j
  <2>1. CASE j < i
    <3>1. j \in 1..(n - 1) /\ From(j) = j
      BY <1>1, <1>2, <2>1
    <3> QED
      BY <3>1
  <2>2. CASE j > i
    <3>1. j - 1 \in 1..(n - 1) /\ From(j - 1) = j
      BY <1>1, <1>2, <2>2
    <3> QED
      BY <3>1
  <2>3. j < i \/ j > i
    BY <1>1, <1>5
  <2> QED
    BY <2>1, <2>2, <2>3
<1> HIDE DEF From
<1>6. Distinct(m)
  <2>1. ASSUME NEW j \in 1..(n - 1), NEW k \in 1..(n - 1), m[j] = m[k] PROVE j = k
    <3>1. From(j) \in 1..n /\ From(k) \in 1..n /\ l[From(j)] = l[From(k)]
      BY <1>1, <1>3, <2>1
    <3>2. From(j) = From(k)
      BY <1>2, <3>1 DEF Distinct
    <3> QED
      BY <1>4, <3>2
  <2> QED
    BY <1>1, <2>1 DEF Distinct
<1>7. Listed(l) \ {l[i]} \subseteq Listed(m)
  <2>1. ASSUME NEW j \in 1..n, l[j] # l[i] PROVE l[j] \in Listed(m)
    <3>1. PICK k \in 1..(n - 1) : From(k) = j
      BY <1>5, <2>1
    <3>2. m[k] = l[j]
      BY <1>1, <3>1
    <3> QED
      BY <1>1, <3>2 DEF Listed
  <2> QED
    BY <1>2, <2>1 DEF Listed
<1>8. Front(m, b) \subseteq Front(l, b) \cup {l[b + 1]}
  <2>1. ASSUME NEW j \in 1..(n - 1), j <= b PROVE m[j] \in Front(l, b) \cup {l[b + 1]}
    <3>1. From(j) \in 1..n /\ m[j] = l[From(j)]
      BY <1>1, <1>3
    <3>2. From(j) <= b \/ From(j) = b + 1
      BY <1>3, <2>1
    <3>3. CASE From(j) <= b
      BY <1>2, <3>1, <3>3 DEF Front
    <3>4. CASE From(j) = b + 1
      BY <3>1, <3>4
    <3> QED
      BY <3>2, <3>3, <3>4
  <2> QED
    BY <1>1, <2>1 DEF Front
<1>9. Back(m, b) \subseteq Back(l, b)
  <2>1. ASSUME NEW j \in 1..(n - 1), j > b PROVE m[j] \in Back(l, b)
    <3>1. From(j) \in 1..n /\ m[j] = l[From(j)]
      BY <1>1, <1>3
    <3>2. From(j) > b
      BY <1>3, <2>1
    <3> QED
      BY <1>2, <3>1, <3>2 DEF Back
  <2> QED
    BY <1>1, <2>1 DEF Back
<1> QED
  BY <1>6, <1>7, <1>8, <1>9

\* A page moves its rows from the back to the front.
LEMMA PageParts ==
  ASSUME NEW l \in Seq(Vouchers), Distinct(l), NEW b \in Nat, NEW c \in Nat, b <= c,
         NEW rows, rows = Between(l, b, c)
  PROVE  /\ Front(l, c) = Front(l, b) \cup rows
         /\ Front(l, b) \cap rows = {}
         /\ Back(l, b) = Back(l, c) \cup rows
         /\ Back(l, c) \cap rows = {}
<1>1. \A j \in 1..Len(l) : j \in Int
  BY LenProperties
<1>2. Front(l, c) = Front(l, b) \cup rows
  <2>1. \A j \in 1..Len(l) : j <= c <=> j <= b \/ (b < j /\ j <= c)
    BY <1>1
  <2> QED
    BY <2>1 DEF Front, Between
<1>3. Back(l, b) = Back(l, c) \cup rows
  <2>1. \A j \in 1..Len(l) : j > b <=> j > c \/ (b < j /\ j <= c)
    BY <1>1
  <2> QED
    BY <2>1 DEF Back, Between
<1>4. Front(l, b) \cap rows = {}
  <2>1. ASSUME NEW j \in 1..Len(l), NEW k \in 1..Len(l), j <= b, b < k PROVE l[j] # l[k]
    BY <1>1, <2>1 DEF Distinct
  <2> QED
    BY <2>1 DEF Front, Between
<1>5. Back(l, c) \cap rows = {}
  <2>1. ASSUME NEW j \in 1..Len(l), NEW k \in 1..Len(l), j > c, k <= c PROVE l[j] # l[k]
    BY <1>1, <2>1 DEF Distinct
  <2> QED
    BY <2>1 DEF Back, Between
<1> QED
  BY <1>2, <1>3, <1>4, <1>5

-----------------------------------------------------------------------------
(* The page that comes. *)

\* The rows of the page that comes.
LEMMA PageRows ==
  ASSUME Shape, page \in Nat
  PROVE  /\ Rows(page) \in Nat /\ Rows(page + 1) \in Nat /\ Rows(page) <= Rows(page + 1)
         /\ Last(page) <=> Len(list) <= Rows(page + 1)
         /\ Listed(Content(page)) = Between(list, Rows(page), Rows(page + 1))
         /\ Rows(page) <= Len(list) =>
              Len(Content(page)) = (IF Last(page) THEN Len(list) ELSE Rows(page + 1)) - Rows(page)
<1> DEFINE b == Rows(page)
           c == Rows(page + 1)
           n == IF c < Len(list) THEN c ELSE Len(list)
<1>1. list \in Seq(Vouchers) /\ Len(list) \in Nat /\ Size \in Nat
  BY LenProperties, SummaryAssumption DEF Shape
<1>2. b \in Nat /\ c \in Nat /\ b <= c
  <2>1. page + 1 \in Nat /\ c = b + Size
    BY <1>1 DEF Rows
  <2>2. b \in Nat
    BY <1>1 DEF Rows
  <2> QED
    BY <1>1, <2>1, <2>2
<1>3. Last(page) <=> Len(list) <= c
  <2>1. c = (page + 1) * Size
    BY DEF Rows
  <2>2. Last(page) <=> c >= Len(list)
    BY <2>1 DEF Last
  <2> HIDE DEF c
  <2> QED
    BY <1>1, <1>2, <2>2
<1>4. Content(page) = SubSeq(list, b + 1, n)
  BY DEF Content, Rows
<1> HIDE DEF b, c
<1>5. n \in Nat /\ n <= Len(list) /\ n <= c
  BY <1>1, <1>2
<1>6. \A j \in 1..Len(list) : j <= n <=> j <= c
  BY <1>1, <1>2
<1>7. n = IF Last(page) THEN Len(list) ELSE c
  BY <1>1, <1>2, <1>3
<1> HIDE DEF n
<1>8. /\ Listed(SubSeq(list, b + 1, n)) = Between(list, b, n)
      /\ Len(SubSeq(list, b + 1, n)) = IF b <= n THEN n - b ELSE 0
  BY <1>1, <1>2, <1>5, SliceRows, Zenon
<1>9. Between(list, b, n) = Between(list, b, c)
  BY <1>6 DEF Between
<1>10. Listed(Content(page)) = Between(list, b, c)
  BY <1>4, <1>8, <1>9, Zenon
<1>11. ASSUME b <= Len(list) PROVE Len(Content(page)) = n - b
  <2>1. b <= n
    BY <1>1, <1>2, <1>3, <1>7, <1>11
  <2> QED
    BY <1>4, <1>8, <2>1, Zenon
<1>12. b \in Nat /\ c \in Nat /\ b <= c /\ (Last(page) <=> Len(list) <= c)
  BY <1>2, <1>3
<1>13. b <= Len(list) => Len(Content(page)) = (IF Last(page) THEN Len(list) ELSE c) - b
  BY <1>7, <1>11, Zenon
<1> USE DEF b, c
<1>14. Rows(page) \in Nat /\ Rows(page + 1) \in Nat /\ Rows(page) <= Rows(page + 1)
  BY <1>12, Zenon
<1>15. Last(page) <=> Len(list) <= Rows(page + 1)
  BY <1>12, Zenon
<1>16. Listed(Content(page)) = Between(list, Rows(page), Rows(page + 1))
  BY <1>10, Zenon
<1>17. Rows(page) <= Len(list) =>
         Len(Content(page)) = (IF Last(page) THEN Len(list) ELSE Rows(page + 1)) - Rows(page)
  BY <1>13, Zenon
<1> QED
  BY <1>14, <1>15, <1>16, <1>17, Zenon

\* What the page that comes does to the two parts.
LEMMA PageMoves ==
  ASSUME Shape, page \in Nat
  PROVE  /\ Front(list, Rows(page + 1)) = Front(list, Rows(page)) \cup Listed(Content(page))
         /\ Front(list, Rows(page)) \cap Listed(Content(page)) = {}
         /\ Back(list, Rows(page)) = Back(list, Rows(page + 1)) \cup Listed(Content(page))
         /\ Back(list, Rows(page + 1)) \cap Listed(Content(page)) = {}
         /\ Last(page) => Front(list, Rows(page + 1)) = Listed(list)
<1> DEFINE b == Rows(page)
           c == Rows(page + 1)
           rows == Listed(Content(page))
<1>1. b \in Nat /\ c \in Nat /\ b <= c /\ (Last(page) <=> Len(list) <= c)
  BY PageRows
<1>2. list \in Seq(Vouchers) /\ Distinct(list)
  BY DEF Shape
<1>3. /\ Front(list, c) = Front(list, b) \cup rows /\ Front(list, b) \cap rows = {}
      /\ Back(list, b) = Back(list, c) \cup rows /\ Back(list, c) \cap rows = {}
  <2>1. rows = Between(list, b, c)
    BY PageRows, Zenon
  <2> HIDE DEF b, c, rows
  <2> QED
    BY <1>1, <1>2, <2>1, PageParts
<1> HIDE DEF b, c, rows
<1>4. ASSUME Len(list) <= c PROVE Front(list, c) = Listed(list)
  <2>1. Len(list) \in Nat
    BY <1>2, LenProperties
  <2>2. {j \in 1..Len(list) : j <= c} = 1..Len(list)
    BY <1>1, <1>4, <2>1
  <2> QED
    BY <2>2 DEF Front, Listed
<1>5. Last(page) => Front(list, c) = Listed(list)
  BY <1>1, <1>4, Zenon
<1> QED
  BY <1>3, <1>5, Zenon DEF b, c, rows

\* A page misses no voucher of the back.
LEMMA PageMisses ==
  ASSUME Shape, page \in Nat, Page,
         Cardinality(Missed(stayed \cap Front(list, Rows(page)))) <= left
  PROVE  Cardinality({v \in stayed \cap Front(list, Rows(page + 1)) : counted'[v] = 0}) <= left
<1> DEFINE old == Missed(stayed \cap Front(list, Rows(page)))
           new == {v \in stayed \cap Front(list, Rows(page + 1)) : counted'[v] = 0}
           rows == Listed(Content(page))
<1>1. Front(list, Rows(page + 1)) = Front(list, Rows(page)) \cup rows
  BY PageMoves
<1>2. stayed \subseteq Vouchers /\ IsFiniteSet(stayed)
  <2>1. IsFiniteSet(Listed(list)) /\ Listed(list) \subseteq Vouchers /\ stayed \subseteq Listed(list)
    BY ListFinite DEF Shape
  <2> QED
    BY <2>1, FS_Subset
<1>3. \A v \in Vouchers : counted'[v] = counted[v] + IF v \in rows THEN 1 ELSE 0
  BY DEF Page
<1>4. \A v \in Vouchers : counted[v] \in Nat
  BY DEF Shape
<1> HIDE DEF rows
<1>5. \A v \in Vouchers : counted'[v] = 0 => v \notin rows /\ counted[v] = 0
  BY <1>3, <1>4
<1>6. new \subseteq old
  BY <1>1, <1>2, <1>5 DEF Missed
<1>7. IsFiniteSet(old)
  <2>1. old \subseteq stayed
    BY DEF Missed
  <2> QED
    BY <1>2, <2>1, CardPart
<1> HIDE DEF old, new
<1>8. /\ Cardinality(new) \in Nat /\ Cardinality(old) \in Nat /\ left \in Nat
      /\ Cardinality(new) <= Cardinality(old)
  BY <1>6, <1>7, CardPart DEF Shape
<1>9. Cardinality(old) <= left
  BY DEF old
<1>10. Cardinality(new) <= left
  BY <1>8, <1>9
<1> QED
  BY <1>10 DEF new

\* Excess is a number for every voucher.
LEMMA ExcessType ==
  ASSUME Shape
  PROVE  Excess \in [Vouchers -> Nat]
<1>1. \A v \in Vouchers : counted[v] \in Nat
  BY DEF Shape
<1>2. \A n \in Nat : (IF n > 1 THEN n - 1 ELSE 0) \in Nat
  OBVIOUS
<1> QED
  BY <1>1, <1>2 DEF Excess

\* A page counts a voucher again only if it was met before and is in the back.
LEMMA PageRepeats ==
  ASSUME Shape, page \in Nat, Page,
         SumOver(Excess, stayed) + Cardinality(Met(stayed \cap Back(list, Rows(page)))) <= entered
  PROVE  /\ SumOver(Excess', stayed) \in Nat
         /\ SumOver(Excess', stayed)
              + Cardinality({v \in stayed \cap Back(list, Rows(page + 1)) : counted'[v] > 0}) <= entered
<1> DEFINE old == Met(stayed \cap Back(list, Rows(page)))
           new == {v \in stayed \cap Back(list, Rows(page + 1)) : counted'[v] > 0}
           rows == Listed(Content(page))
           again == stayed \cap Met(rows)
<1>1. Back(list, Rows(page)) = Back(list, Rows(page + 1)) \cup rows /\ Back(list, Rows(page + 1)) \cap rows = {}
  BY PageMoves
<1>2. stayed \subseteq Vouchers /\ IsFiniteSet(stayed)
  <2>1. IsFiniteSet(Listed(list)) /\ Listed(list) \subseteq Vouchers /\ stayed \subseteq Listed(list)
    BY ListFinite DEF Shape
  <2> QED
    BY <2>1, FS_Subset
<1>3. \A v \in Vouchers : counted'[v] = counted[v] + IF v \in rows THEN 1 ELSE 0
  BY DEF Page
<1>4. \A v \in Vouchers : counted[v] \in Nat
  BY DEF Shape
<1>5. Excess \in [Vouchers -> Nat]
  BY ExcessType
<1>6. \A v \in Vouchers : /\ Excess[v] = IF counted[v] > 1 THEN counted[v] - 1 ELSE 0
                          /\ Excess'[v] = IF counted'[v] > 1 THEN counted'[v] - 1 ELSE 0
  BY DEF Excess
<1> HIDE DEF rows
<1>7. ASSUME NEW v \in stayed
      PROVE  Excess'[v] = IF v \in Met(rows) THEN Excess[v] + 1 ELSE Excess[v]
  <2>1. v \in Vouchers /\ counted[v] \in Nat
    BY <1>2, <1>4
  <2>2. CASE v \in rows /\ counted[v] > 0
    <3>1. v \in Met(rows)
      BY <2>2 DEF Met
    <3>2. counted'[v] = counted[v] + 1
      BY <1>3, <2>1, <2>2
    <3>3. Excess'[v] = Excess[v] + 1
      BY <1>6, <2>1, <2>2, <3>2
    <3> QED
      BY <3>1, <3>3
  <2>3. CASE v \in rows /\ counted[v] = 0
    <3>1. v \notin Met(rows)
      BY <2>3 DEF Met
    <3>2. counted'[v] = 1
      BY <1>3, <2>1, <2>3
    <3>3. Excess'[v] = Excess[v]
      BY <1>6, <2>1, <2>3, <3>2
    <3> QED
      BY <3>1, <3>3
  <2>4. CASE v \notin rows
    <3>1. v \notin Met(rows)
      BY <2>4 DEF Met
    <3>2. counted'[v] = counted[v]
      BY <1>3, <2>1, <2>4
    <3>3. Excess'[v] = Excess[v]
      BY <1>6, <2>1, <3>2
    <3> QED
      BY <3>1, <3>3
  <2> QED
    BY <2>1, <2>2, <2>3, <2>4
<1>8. \A v \in stayed : Excess[v] \in Nat /\ Excess[v] \in Int
  BY <1>2, <1>5
<1>9. SumOver(Excess', stayed) = SumOver(Excess, stayed) + Cardinality(again)
  BY <1>2, <1>7, <1>8, SumBump
<1>10. SumOver(Excess, stayed) \in Nat
  <2>1. stayed \in SUBSET stayed
    OBVIOUS
  <2> QED
    BY <1>2, <1>8, <2>1, SumMonotone
<1>11. ASSUME NEW v \in stayed, v \in Back(list, Rows(page + 1)) PROVE counted'[v] = counted[v]
  <2>1. v \in Vouchers /\ v \notin rows /\ counted[v] \in Nat
    BY <1>1, <1>2, <1>4, <1>11
  <2> QED
    BY <1>3, <2>1
<1>12. new = Met(stayed \cap Back(list, Rows(page + 1)))
  BY <1>11 DEF Met
<1>13. old = new \cup again /\ new \cap again = {}
  BY <1>1, <1>12 DEF Met
<1>14. IsFiniteSet(new) /\ IsFiniteSet(again)
  <2>1. new \subseteq stayed /\ again \subseteq stayed
    OBVIOUS
  <2> QED
    BY <1>2, <2>1, CardPart
<1> HIDE DEF old, new, again
<1>15. /\ Cardinality(old) = Cardinality(new) + Cardinality(again)
       /\ Cardinality(new) \in Nat /\ Cardinality(again) \in Nat
  BY <1>13, <1>14, CardSum
<1>16. SumOver(Excess, stayed) + Cardinality(old) <= entered /\ entered \in Nat
  BY DEF old, Shape
<1>17. SumOver(Excess', stayed) \in Nat /\ SumOver(Excess', stayed) + Cardinality(new) <= entered
  BY <1>9, <1>10, <1>15, <1>16
<1> QED
  BY <1>17 DEF new

\* A page adds its rows to the tally.
LEMMA PageTallies ==
  ASSUME Shape, page \in Nat, Page, Tally(Front(list, Rows(page))), NEW g \in Groups,
         NEW mine, mine = {v \in Front(list, Rows(page + 1)) : GroupOf[v] = g}
  PROVE  groups'[g] = [count |-> Cardinality(mine), sum |-> SumOver(AmountOf, mine)]
<1> DEFINE rows == Listed(Content(page))
           old  == {v \in Front(list, Rows(page)) : GroupOf[v] = g}
           new  == {v \in rows : GroupOf[v] = g}
<1>1. /\ Front(list, Rows(page + 1)) = Front(list, Rows(page)) \cup rows
      /\ Front(list, Rows(page)) \cap rows = {}
  BY PageMoves
<1>2. mine = old \cup new /\ old \cap new = {}
  BY <1>1
<1>3. /\ IsFiniteSet(old) /\ IsFiniteSet(new)
      /\ old \subseteq Vouchers /\ new \subseteq Vouchers
  <2>1. page + 1 \in Nat /\ Rows(page + 1) \in Int
    BY PageRows
  <2>2. /\ IsFiniteSet(Front(list, Rows(page + 1)))
        /\ Front(list, Rows(page + 1)) \subseteq Listed(list) /\ Listed(list) \subseteq Vouchers
    BY <2>1, ListFinite DEF Shape
  <2>3. old \subseteq Front(list, Rows(page + 1)) /\ new \subseteq Front(list, Rows(page + 1))
    BY <1>1
  <2> QED
    BY <2>2, <2>3, CardPart
<1>4. groups[g] = [count |-> Cardinality(old), sum |-> SumOver(AmountOf, old)]
  BY DEF Tally
<1>5. groups'[g] = [count |-> groups[g].count + Cardinality(new),
                    sum   |-> groups[g].sum + SumOver(AmountOf, new)]
  BY DEF Page, Added
<1> HIDE DEF old, new
<1>6. Cardinality(mine) = Cardinality(old) + Cardinality(new)
  BY <1>2, <1>3, CardSum
<1>7. \A v \in old \cup new : AmountOf[v] \in Int
  BY <1>3, SummaryAssumption
<1>8. SumOver(AmountOf, old \cup new) = SumOver(AmountOf, old) + SumOver(AmountOf, new)
  BY <1>2, <1>3, <1>7, SumUnion, Zenon
<1>9. SumOver(AmountOf, mine) = SumOver(AmountOf, old) + SumOver(AmountOf, new)
  BY <1>2, <1>8, Zenon
<1>10. groups[g].count = Cardinality(old) /\ groups[g].sum = SumOver(AmountOf, old)
  BY <1>4
<1> QED
  BY <1>5, <1>6, <1>9, <1>10, Zenon

-----------------------------------------------------------------------------
(* The beginning. *)

\* The front is empty when the walk begins.
LEMMA InitIInv == Init => IInv
<1> SUFFICES ASSUME Init PROVE IInv
  OBVIOUS
<1>1. /\ page = 0 /\ pagesScanned = 0 /\ pc = "scanning" /\ truncated = FALSE /\ scanned = 0
      /\ counted = [v \in Vouchers |-> 0] /\ stayed = Listed(list) /\ entered = 0 /\ left = 0
      /\ groups = [g \in Groups |-> [count |-> 0, sum |-> 0]]
  BY DEF Init
<1>2. list \in Seq(Vouchers) /\ Distinct(list)
  <2>1. PICK n \in 0..Cardinality(Vouchers) :
          list \in [1..n -> Vouchers] /\ Cardinality(Listed(list)) = n
    BY DEF Init
  <2>2. n \in Nat
    OBVIOUS
  <2>3. list \in Seq(Vouchers) /\ Len(list) = n
    BY <2>1, <2>2
  <2> QED
    BY <2>1, <2>3, AllDistinct
<1>3. Rows(page) = 0
  BY <1>1, SummaryAssumption DEF Rows
<1>4. Front(list, 0) = {}
  BY DEF Front
<1>5. IsFiniteSet(stayed) /\ stayed \subseteq Vouchers
  BY <1>1, <1>2, ListFinite
<1>6. Shape
  BY <1>1, <1>2 DEF Shape
<1>7. Walk
  <2>1. 0 < MaxPages
    BY SummaryAssumption
  <2> QED
    BY <1>1, <2>1 DEF Walk
<1>8. Drift
  <2>1. Missed(stayed \cap Front(list, 0)) = {} /\ Met(stayed \cap Back(list, 0)) = {}
    BY <1>1, <1>4, <1>5 DEF Missed, Met
  <2>2. SumOver(Excess, stayed) = 0
    <3>1. \A v \in stayed : Excess[v] = 0
      BY <1>1, <1>5 DEF Excess
    <3> QED
      BY <1>5, <3>1, SumZero
  <2>3. Cardinality({}) = 0
    BY FS_EmptySet
  <2>4. Cardinality(Missed(stayed \cap Front(list, Rows(page)))) <= left
    <3>1. Cardinality(Missed(stayed \cap Front(list, Rows(page)))) = 0
      BY <1>3, <2>1, <2>3, Zenon
    <3> QED
      BY <1>1, <3>1
  <2>5. SumOver(Excess, stayed) + Cardinality(Met(stayed \cap Back(list, Rows(page)))) <= entered
    <3>1. Cardinality(Met(stayed \cap Back(list, Rows(page)))) = 0
      BY <1>3, <2>1, <2>3, Zenon
    <3> QED
      BY <1>1, <2>2, <3>1
  <2>6. ~Complete
    BY <1>1 DEF Complete
  <2> QED
    BY <2>4, <2>5, <2>6, Zenon DEF Drift, DriftBounded
<1>9. Quiet
  <2>1. Tally(Front(list, 0))
    <3>1. SUFFICES ASSUME NEW g \in Groups
                   PROVE  LET mine == {v \in Front(list, 0) : GroupOf[v] = g}
                          IN  groups[g] = [count |-> Cardinality(mine), sum |-> SumOver(AmountOf, mine)]
      BY Zenon DEF Tally
    <3>2. {v \in Front(list, 0) : GroupOf[v] = g} = {}
      BY <1>4
    <3>3. Cardinality({}) = 0 /\ SumOver(AmountOf, {}) = 0
      BY FS_EmptySet, SumEmpty
    <3> QED
      BY <1>1, <3>2, <3>3
  <2>2. 0 <= Len(list)
    BY <1>2, LenProperties
  <2> QED
    BY <1>1, <1>3, <2>1, <2>2 DEF Quiet, Complete
<1> QED
  BY <1>6, <1>7, <1>8, <1>9 DEF IInv

-----------------------------------------------------------------------------
(* A page arrives. *)

\* A page ends the walk or brings it to the next one below the cap.
LEMMA PageWalks ==
  ASSUME IInv, Page
  PROVE  Walk'
<1> DEFINE m == page + 1
<1>1. /\ pc = "scanning" /\ page \in Nat /\ page = pagesScanned /\ page < MaxPages /\ ~truncated
      /\ MaxPages \in Nat /\ Size \in Nat /\ Len(list) \in Nat
  BY SummaryAssumption DEF IInv, Shape, Walk, Page
<1>2. m \in Nat /\ m <= MaxPages /\ pagesScanned' = m /\ totalElements' = Len(list) /\ list' = list
  BY <1>1 DEF Page
<1>3. Rows(m) \in Int
  BY <1>1, <1>2 DEF Rows
<1>4. CASE Last(page)
  <2>1. Len(list) <= Rows(m)
    BY <1>1, <1>4 DEF Last, Rows
  <2>2. pc' = "done" /\ page' = page /\ truncated' = truncated
    BY <1>4 DEF Page
  <2>3. ~(totalElements' > Rows(m))
    BY <1>1, <1>2, <1>3, <2>1
  <2>4. Rows(pagesScanned)' = Rows(m)
    BY <1>2 DEF Rows
  <2> HIDE DEF m
  <2> QED
    BY <1>1, <1>2, <2>2, <2>3, <2>4 DEF IInv, Walk
<1>5. CASE ~Last(page)
  <2>1. Len(list) > Rows(m)
    BY <1>1, <1>3, <1>5 DEF Last, Rows
  <2>2. page' = m /\ truncated' = (m >= MaxPages) /\ pc' = IF m >= MaxPages THEN "done" ELSE "scanning"
    BY <1>5 DEF Page, CapReached
  <2>3. totalElements' > Rows(m)
    BY <1>1, <1>2, <1>3, <2>1
  <2>4. Rows(pagesScanned)' = Rows(m)
    BY <1>2 DEF Rows
  <2> HIDE DEF m
  <2>5. CASE m >= MaxPages
    <3>1. m = MaxPages
      BY <1>1, <1>2, <2>5
    <3>2. pc' = "done" /\ truncated' = TRUE
      BY <2>2, <2>5, Zenon
    <3> QED
      BY <1>1, <1>2, <2>2, <2>3, <2>4, <3>1, <3>2 DEF IInv, Walk
  <2>6. CASE ~(m >= MaxPages)
    BY <1>1, <1>2, <2>2, <2>6 DEF IInv, Walk
  <2> QED
    BY <2>5, <2>6
<1> QED
  BY <1>4, <1>5

\* How a page ends: the last one is complete, another may be cut off by the cap.
LEMMA PageEnds ==
  ASSUME IInv, Page
  PROVE  /\ pc = "scanning" /\ page \in Nat
         /\ Complete' => Last(page)
         /\ pc' = "scanning" => ~Last(page) /\ page' = page + 1
         /\ UNCHANGED <<list, stayed, entered, left>>
<1>1. pc = "scanning" /\ page \in Nat /\ UNCHANGED <<list, stayed, entered, left>>
  BY DEF IInv, Walk, Page
<1>2. CASE Last(page)
  <2>1. pc' = "done"
    BY <1>2 DEF Page
  <2> QED
    BY <1>1, <1>2, <2>1
<1>3. CASE ~Last(page)
  <2>1. page' = page + 1 /\ truncated' = CapReached /\ pc' = IF CapReached THEN "done" ELSE "scanning"
    BY <1>3 DEF Page
  <2>2. ~Complete'
    <3>1. CASE CapReached
      BY <2>1, <3>1 DEF Complete
    <3>2. CASE ~CapReached
      BY <2>1, <3>2 DEF Complete
    <3> QED
      BY <3>1, <3>2
  <2> QED
    BY <1>1, <1>3, <2>1, <2>2
<1> QED
  BY <1>2, <1>3

\* A page leaves the list alone and counts its rows.
LEMMA PageShape ==
  ASSUME IInv, Page
  PROVE  Shape'
<1>1. counted' \in [Vouchers -> Nat]
  <2>1. \A v \in Vouchers : (counted[v] + IF v \in Listed(Content(page)) THEN 1 ELSE 0) \in Nat
    BY DEF IInv, Shape
  <2> QED
    BY <2>1 DEF Page
<1>2. UNCHANGED <<list, stayed, entered, left>>
  BY DEF Page
<1> QED
  BY <1>1, <1>2 DEF IInv, Shape, Distinct, Listed

\* A page keeps the drift bounded: what it counts again was in the back.
LEMMA PageDrift ==
  ASSUME IInv, Page
  PROVE  Drift'
<1> DEFINE c == Rows(page + 1)
           missed == {v \in stayed \cap Front(list, c) : counted'[v] = 0}
           met == {v \in stayed \cap Back(list, c) : counted'[v] > 0}
<1>1. /\ pc = "scanning" /\ page \in Nat /\ (Complete' => Last(page))
      /\ (pc' = "scanning" => ~Last(page) /\ page' = page + 1)
      /\ list' = list /\ stayed' = stayed /\ entered' = entered /\ left' = left
  BY PageEnds
<1>2. Shape
  BY DEF IInv
<1>3. Cardinality(missed) <= left
  BY <1>1, <1>2, PageMisses DEF IInv, Drift
<1>4. SumOver(Excess', stayed) \in Nat /\ SumOver(Excess', stayed) + Cardinality(met) <= entered
  BY <1>1, <1>2, PageRepeats DEF IInv, Drift
<1>5. ASSUME pc' = "scanning"
      PROVE  /\ Cardinality(Missed(stayed \cap Front(list, Rows(page))))' <= left'
             /\ SumOver(Excess, stayed)' + Cardinality(Met(stayed \cap Back(list, Rows(page))))' <= entered'
  <2>1. Front(list, Rows(page))' = Front(list, c) /\ Back(list, Rows(page))' = Back(list, c)
    BY <1>1, <1>5, Zenon DEF Front, Back, Rows
  <2>2. Missed(stayed \cap Front(list, Rows(page)))' = missed
    BY <1>1, <2>1, Zenon DEF Missed
  <2>3. Met(stayed \cap Back(list, Rows(page)))' = met
    BY <1>1, <2>1, Zenon DEF Met
  <2>4. SumOver(Excess, stayed)' = SumOver(Excess', stayed)
    BY <1>1 DEF SumOver, MapThenSumSet, MapThenFoldSet
  <2> HIDE DEF missed, met
  <2> QED
    BY <1>1, <1>3, <1>4, <2>2, <2>3, <2>4, Zenon
<1>6. DriftBounded'
  <2> SUFFICES ASSUME Complete'
               PROVE  /\ Cardinality({v \in stayed : counted[v] = 0})' <= left'
                      /\ SumOver(Excess, stayed)' <= entered'
    BY Zenon DEF DriftBounded
  <2>1. Last(page)
    BY <1>1
  <2>2. stayed \cap Front(list, c) = stayed
    <3>1. Front(list, c) = Listed(list)
      BY <1>1, <1>2, <2>1, PageMoves
    <3> QED
      BY <1>2, <3>1 DEF Shape
  <2>3. {v \in stayed : counted[v] = 0}' = missed
    BY <1>1, <2>2
  <2>4. SumOver(Excess, stayed)' = SumOver(Excess', stayed)
    BY <1>1 DEF SumOver, MapThenSumSet, MapThenFoldSet
  <2>5. Cardinality(met) \in Nat /\ entered \in Nat
    <3>1. IsFiniteSet(stayed)
      BY <1>2, ListFinite, FS_Subset DEF Shape
    <3>2. met \subseteq stayed
      OBVIOUS
    <3> HIDE DEF met
    <3> QED
      BY <1>2, <3>1, <3>2, CardPart DEF Shape
  <2> HIDE DEF missed, met
  <2>6. SumOver(Excess', stayed) <= entered
    BY <1>4, <2>5
  <2> QED
    BY <1>1, <1>3, <2>3, <2>4, <2>6, Zenon
<1> QED
  BY <1>5, <1>6 DEF Drift

\* With nobody else at work, a page adds exactly its rows to the tally.
LEMMA PageQuiet ==
  ASSUME IInv, Page
  PROVE  Quiet'
<1> DEFINE c == Rows(page + 1)
<1>1. /\ pc = "scanning" /\ page \in Nat /\ (Complete' => Last(page))
      /\ (pc' = "scanning" => ~Last(page) /\ page' = page + 1)
      /\ list' = list /\ entered' = entered /\ left' = left
  BY PageEnds
<1>2. Shape
  BY DEF IInv
<1> SUFFICES ASSUME entered = 0, left = 0
             PROVE  /\ pc' = "scanning" =>
                         scanned' = Rows(page)' /\ Rows(page)' <= Len(list') /\ Tally(Front(list, Rows(page)))'
                    /\ Complete' =>
                         scanned' = Len(list') /\ totalElements' = Len(list') /\ Tally(Listed(list))'
  BY <1>1 DEF Quiet
<1>3. scanned = Rows(page) /\ Rows(page) <= Len(list) /\ Tally(Front(list, Rows(page)))
  BY <1>1 DEF IInv, Quiet
<1>4. \A g \in Groups : \A mine :
        mine = {v \in Front(list, c) : GroupOf[v] = g} =>
          groups'[g] = [count |-> Cardinality(mine), sum |-> SumOver(AmountOf, mine)]
  BY <1>1, <1>2, <1>3, PageTallies
<1>5. scanned' = (IF Last(page) THEN Len(list) ELSE c) /\ totalElements' = Len(list)
  <2>1. /\ Rows(page) \in Nat /\ c \in Nat /\ Len(list) \in Nat
        /\ Len(Content(page)) = (IF Last(page) THEN Len(list) ELSE c) - Rows(page)
    BY <1>1, <1>2, <1>3, PageRows, LenProperties DEF Shape
  <2>2. scanned' = scanned + Len(Content(page)) /\ totalElements' = Len(list)
    BY DEF Page
  <2> HIDE DEF c
  <2> QED
    BY <1>3, <2>1, <2>2
<1>6. ASSUME pc' = "scanning"
      PROVE  scanned' = Rows(page)' /\ Rows(page)' <= Len(list') /\ Tally(Front(list, Rows(page)))'
  <2>1. Rows(page)' = c /\ ~Last(page)
    BY <1>1, <1>6 DEF Rows
  <2>2. c \in Nat /\ Len(list) \in Nat /\ ~(Len(list) <= c)
    BY <1>1, <1>2, <2>1, PageRows, LenProperties DEF Shape
  <2>3. Front(list, Rows(page))' = Front(list, c)
    BY <1>1, <2>1, Zenon DEF Front
  <2>4. Tally(Front(list, Rows(page)))'
    BY <1>4, <2>3, Zenon DEF Tally
  <2> HIDE DEF c
  <2> QED
    BY <1>1, <1>5, <2>1, <2>2, <2>4
<1>7. ASSUME Complete'
      PROVE  scanned' = Len(list') /\ totalElements' = Len(list') /\ Tally(Listed(list))'
  <2>1. Last(page)
    BY <1>1, <1>7
  <2>2. Front(list, c) = Listed(list)
    BY <1>1, <1>2, <2>1, PageMoves
  <2>3. Listed(list)' = Front(list, c)
    BY <1>1, <2>2, Zenon DEF Listed
  <2>4. Tally(Listed(list))'
    BY <1>4, <2>3, Zenon DEF Tally
  <2> QED
    BY <1>1, <1>5, <2>1, <2>4
<1> QED
  BY <1>6, <1>7

-----------------------------------------------------------------------------
(* What others do to the list never touches the walk. *)

\* What others do leaves the walk as it is.
LEMMA WalkStays ==
  ASSUME Walk, UNCHANGED scan
  PROVE  Walk'
BY DEF scan, Walk, Rows

\* A change that lets one voucher at most into the front, if one left, and one
\* at most into the back, if one entered, keeps the drift bounded.
LEMMA DriftMoves ==
  ASSUME IInv, UNCHANGED scan, stayed' \subseteq stayed,
         NEW f, NEW k, NEW b, b = Rows(page),
         entered' \in Nat, left' \in Nat, entered <= entered', left <= left',
         \/ stayed' \cap Front(list', b) \subseteq stayed \cap Front(list, b)
         \/ /\ stayed' \cap Front(list', b) \subseteq (stayed \cap Front(list, b)) \cup {f}
            /\ left' = left + 1,
         \/ stayed' \cap Back(list', b) \subseteq stayed \cap Back(list, b)
         \/ /\ stayed' \cap Back(list', b) \subseteq (stayed \cap Back(list, b)) \cup {k}
            /\ entered' = entered + 1
  PROVE  Drift'
<1> DEFINE front == Missed(stayed \cap Front(list, b))
           newFront == {v \in stayed' \cap Front(list', b) : counted[v] = 0}
           back == Met(stayed \cap Back(list, b))
           newBack == {v \in stayed' \cap Back(list', b) : counted[v] > 0}
           total == SumOver(Excess, stayed)
           newTotal == SumOver(Excess, stayed')
<1>1. /\ page' = page /\ pc' = pc /\ counted' = counted /\ truncated' = truncated
      /\ Excess' = Excess
  BY DEF scan, Excess
<1>2. stayed \subseteq Vouchers /\ IsFiniteSet(stayed) /\ entered \in Nat /\ left \in Nat
  <2>1. /\ IsFiniteSet(Listed(list)) /\ Listed(list) \subseteq Vouchers /\ stayed \subseteq Listed(list)
        /\ entered \in Nat /\ left \in Nat
    BY ListFinite DEF IInv, Shape
  <2> QED
    BY <2>1, FS_Subset
<1>3. total \in Nat /\ newTotal \in Nat /\ newTotal <= total
  <2>1. Excess \in [Vouchers -> Nat]
    BY ExcessType DEF IInv
  <2>2. stayed \in SUBSET stayed /\ stayed' \in SUBSET stayed /\ \A v \in stayed : Excess[v] \in Nat
    BY <1>2, <2>1
  <2> QED
    BY <1>2, <2>2, SumMonotone
<1>4. SumOver(Excess, stayed)' = newTotal
  BY <1>1 DEF SumOver, MapThenSumSet, MapThenFoldSet
<1>5. /\ Missed(stayed \cap Front(list, Rows(page)))' = newFront
      /\ Met(stayed \cap Back(list, Rows(page)))' = newBack
  <2>1. Front(list, Rows(page))' = Front(list', b) /\ Back(list, Rows(page))' = Back(list', b)
    BY <1>1, Zenon DEF Front, Back, Rows
  <2> QED
    BY <1>1, <2>1, Zenon DEF Missed, Met
<1>6. IsFiniteSet(front) /\ IsFiniteSet(back)
  <2>1. front \subseteq stayed /\ back \subseteq stayed
    BY DEF Missed, Met
  <2> QED
    BY <1>2, <2>1, CardPart
<1>7. /\ Cardinality(newFront) \in Nat /\ Cardinality(front) \in Nat
      /\ Cardinality(newFront) - left' <= Cardinality(front) - left
  <2>1. CASE stayed' \cap Front(list', b) \subseteq stayed \cap Front(list, b)
    <3>1. newFront \subseteq front
      BY <2>1 DEF Missed
    <3> HIDE DEF front, newFront
    <3>2. /\ Cardinality(newFront) \in Nat /\ Cardinality(front) \in Nat
          /\ Cardinality(newFront) <= Cardinality(front)
      BY <1>6, <3>1, CardPart
    <3> QED
      BY <1>2, <3>2
  <2>2. CASE /\ stayed' \cap Front(list', b) \subseteq (stayed \cap Front(list, b)) \cup {f}
             /\ left' = left + 1
    <3>1. newFront \subseteq front \cup {f}
      BY <2>2 DEF Missed
    <3> HIDE DEF front, newFront
    <3>2. /\ Cardinality(newFront) \in Nat /\ Cardinality(front) \in Nat
          /\ Cardinality(newFront) <= Cardinality(front) + 1
      BY <1>6, <3>1, CardOneMore
    <3> QED
      BY <1>2, <2>2, <3>2
  <2> QED
    BY <2>1, <2>2
<1>8. /\ Cardinality(newBack) \in Nat /\ Cardinality(back) \in Nat
      /\ Cardinality(newBack) - entered' <= Cardinality(back) - entered
  <2>1. CASE stayed' \cap Back(list', b) \subseteq stayed \cap Back(list, b)
    <3>1. newBack \subseteq back
      BY <2>1 DEF Met
    <3> HIDE DEF back, newBack
    <3>2. /\ Cardinality(newBack) \in Nat /\ Cardinality(back) \in Nat
          /\ Cardinality(newBack) <= Cardinality(back)
      BY <1>6, <3>1, CardPart
    <3> QED
      BY <1>2, <3>2
  <2>2. CASE /\ stayed' \cap Back(list', b) \subseteq (stayed \cap Back(list, b)) \cup {k}
             /\ entered' = entered + 1
    <3>1. newBack \subseteq back \cup {k}
      BY <2>2 DEF Met
    <3> HIDE DEF back, newBack
    <3>2. /\ Cardinality(newBack) \in Nat /\ Cardinality(back) \in Nat
          /\ Cardinality(newBack) <= Cardinality(back) + 1
      BY <1>6, <3>1, CardOneMore
    <3> QED
      BY <1>2, <2>2, <3>2
  <2> QED
    BY <2>1, <2>2
<1>9. ASSUME pc' = "scanning"
      PROVE  /\ Cardinality(Missed(stayed \cap Front(list, Rows(page))))' <= left'
             /\ SumOver(Excess, stayed)' + Cardinality(Met(stayed \cap Back(list, Rows(page))))' <= entered'
  <2>1. Cardinality(front) <= left /\ total + Cardinality(back) <= entered
    BY <1>1, <1>9 DEF IInv, Drift
  <2> HIDE DEF front, newFront, back, newBack, total, newTotal
  <2>2. Cardinality(newFront) <= left' /\ newTotal + Cardinality(newBack) <= entered'
    BY <1>2, <1>3, <1>7, <1>8, <2>1
  <2> QED
    BY <1>4, <1>5, <2>2, Zenon
<1>10. DriftBounded'
  <2> SUFFICES ASSUME Complete'
               PROVE  /\ Cardinality({v \in stayed : counted[v] = 0})' <= left'
                      /\ SumOver(Excess, stayed)' <= entered'
    BY Zenon DEF DriftBounded
  <2> DEFINE all == {v \in stayed : counted[v] = 0}
             newAll == {v \in stayed' : counted[v] = 0}
  <2>1. Cardinality(all) <= left /\ total <= entered
    <3>1. Complete /\ DriftBounded
      BY <1>1 DEF Complete, IInv, Drift
    <3> QED
      BY <3>1, Zenon DEF DriftBounded
  <2>2. {v \in stayed : counted[v] = 0}' = newAll
    BY <1>1
  <2>3. newAll \subseteq all /\ all \subseteq stayed
    OBVIOUS
  <2> HIDE DEF all, newAll, total, newTotal
  <2>4. /\ Cardinality(newAll) <= Cardinality(all)
        /\ Cardinality(newAll) \in Nat /\ Cardinality(all) \in Nat
    BY <1>2, <2>3, CardPart
  <2>5. Cardinality(newAll) <= left' /\ newTotal <= entered'
    BY <1>2, <1>3, <2>1, <2>4
  <2> QED
    BY <1>4, <2>2, <2>5, Zenon
<1> QED
  BY <1>9, <1>10 DEF Drift

\* A voucher enters the list.
LEMMA EnterStep ==
  ASSUME IInv, NEW v \in Vouchers, NEW i \in 0..Len(list), Enter(v, i)
  PROVE  IInv'
<1> DEFINE b == Rows(page)
<1>1. /\ list \in Seq(Vouchers) /\ Distinct(list) /\ stayed \subseteq Listed(list) /\ v \notin Listed(list)
      /\ counted \in [Vouchers -> Nat] /\ entered \in Nat /\ left \in Nat
  BY DEF IInv, Shape, Enter
<1>2. b \in Nat
  BY PageRows DEF IInv, Walk
<1>3. UNCHANGED scan /\ stayed' = stayed /\ entered' = entered + 1 /\ left' = left
  BY DEF Enter
<1> HIDE DEF b
<1>4. WithAt(list', list, v, i)
  <2>1. list' = SubSeq(list, 1, i) \o <<v>> \o SubSeq(list, i + 1, Len(list))
    BY DEF Enter
  <2> QED
    BY <1>1, <2>1, EnterRows
<1>5. /\ Distinct(list') /\ Listed(list) \subseteq Listed(list')
      /\ Front(list', b) \subseteq Front(list, b) \cup {v}
      /\ Back(list', b) \subseteq Back(list, b) \cup {v} \cup {list[b]}
  BY <1>1, <1>2, <1>4, EnterParts
<1>6. counted' = counted
  BY <1>3 DEF scan
<1>7. Shape'
  <2>1. Listed(list)' = Listed(list') /\ Distinct(list)' = Distinct(list')
    BY Zenon DEF Listed, Distinct
  <2> QED
    BY <1>1, <1>3, <1>4, <1>5, <1>6, <2>1 DEF Shape, WithAt
<1>8. Drift'
  <2>1. v \notin stayed
    BY <1>1
  <2>2. stayed' \cap Front(list', b) \subseteq stayed \cap Front(list, b)
    BY <1>3, <1>5, <2>1
  <2>3. stayed' \cap Back(list', b) \subseteq (stayed \cap Back(list, b)) \cup {list[b]}
    BY <1>3, <1>5, <2>1
  <2>4. /\ entered' \in Nat /\ left' \in Nat /\ entered <= entered' /\ left <= left'
        /\ entered' = entered + 1 /\ stayed' \subseteq stayed
    BY <1>1, <1>3
  <2>5. b = Rows(page)
    BY DEF b
  <2> QED
    BY <1>3, <2>2, <2>3, <2>4, <2>5, DriftMoves, Zenon
<1>9. Quiet'
  BY <1>1, <1>3 DEF Quiet
<1>10. Walk'
  BY <1>3, WalkStays DEF IInv
<1> QED
  BY <1>7, <1>8, <1>9, <1>10 DEF IInv

\* A voucher leaves the list.
LEMMA LeaveStep ==
  ASSUME IInv, NEW i \in 1..Len(list), Leave(i)
  PROVE  IInv'
<1> DEFINE b == Rows(page)
<1>1. /\ list \in Seq(Vouchers) /\ Distinct(list) /\ stayed \subseteq Listed(list)
      /\ counted \in [Vouchers -> Nat] /\ entered \in Nat /\ left \in Nat
  BY DEF IInv, Shape
<1>2. b \in Nat
  BY PageRows DEF IInv, Walk
<1>3. UNCHANGED scan /\ stayed' = stayed \ {list[i]} /\ entered' = entered /\ left' = left + 1
  BY DEF Leave
<1> HIDE DEF b
<1>4. WithoutAt(list', list, i)
  <2>1. list' = SubSeq(list, 1, i - 1) \o SubSeq(list, i + 1, Len(list))
    BY DEF Leave
  <2> QED
    BY <1>1, <2>1, LeaveRows
<1>5. /\ Distinct(list') /\ Listed(list) \ {list[i]} \subseteq Listed(list')
      /\ Front(list', b) \subseteq Front(list, b) \cup {list[b + 1]}
      /\ Back(list', b) \subseteq Back(list, b)
  BY <1>1, <1>2, <1>4, LeaveParts
<1>6. counted' = counted
  BY <1>3 DEF scan
<1>7. Shape'
  <2>1. Listed(list)' = Listed(list') /\ Distinct(list)' = Distinct(list')
    BY Zenon DEF Listed, Distinct
  <2> QED
    BY <1>1, <1>3, <1>4, <1>5, <1>6, <2>1 DEF Shape, WithoutAt
<1>8. Drift'
  <2>1. stayed' \cap Front(list', b) \subseteq (stayed \cap Front(list, b)) \cup {list[b + 1]}
    BY <1>3, <1>5
  <2>2. stayed' \cap Back(list', b) \subseteq stayed \cap Back(list, b)
    BY <1>3, <1>5
  <2>3. /\ entered' \in Nat /\ left' \in Nat /\ entered <= entered' /\ left <= left'
        /\ left' = left + 1 /\ stayed' \subseteq stayed
    BY <1>1, <1>3
  <2>4. b = Rows(page)
    BY DEF b
  <2> QED
    BY <1>3, <2>1, <2>2, <2>3, <2>4, DriftMoves, Zenon
<1>9. Quiet'
  BY <1>1, <1>3 DEF Quiet
<1>10. Walk'
  BY <1>3, WalkStays DEF IInv
<1> QED
  BY <1>7, <1>8, <1>9, <1>10 DEF IInv

-----------------------------------------------------------------------------
\* The client gives up: nothing is returned.
LEMMA FailsStep ==
  ASSUME IInv, PageFails
  PROVE  IInv'
<1>1. /\ pc' = "failed" /\ UNCHANGED <<list, page, pagesScanned, truncated, counted, stayed, entered, left>>
  BY DEF PageFails
<1>2. Shape'
  BY <1>1 DEF IInv, Shape, Listed, Distinct
<1>3. Walk'
  BY <1>1 DEF IInv, Walk
<1>4. Drift' /\ Quiet'
  BY <1>1 DEF Drift, DriftBounded, Quiet, Complete
<1> QED
  BY <1>2, <1>3, <1>4 DEF IInv

\* Nothing happens.
LEMMA StutterStep ==
  ASSUME IInv, UNCHANGED vars
  PROVE  IInv'
<1>1. /\ UNCHANGED <<list, page, pc, groups, scanned, totalElements, pagesScanned, truncated>>
      /\ UNCHANGED <<counted, stayed, entered, left>>
  BY DEF vars, scan
<1>2. Shape'
  BY <1>1 DEF IInv, Shape, Listed, Distinct
<1>3. Walk'
  BY <1>1 DEF IInv, Walk, Rows
<1>4. Drift'
  <2>1. DriftBounded'
    BY <1>1 DEF IInv, Drift, DriftBounded, Complete, Excess, SumOver, MapThenSumSet, MapThenFoldSet
  <2> QED
    BY <1>1, <2>1 DEF IInv, Drift, Missed, Met, Front, Back, Rows, Excess, SumOver,
                      MapThenSumSet, MapThenFoldSet
<1>5. Quiet'
  BY <1>1 DEF IInv, Quiet, Tally, Complete, Rows, Front, Listed
<1> QED
  BY <1>2, <1>3, <1>4, <1>5 DEF IInv

\* The invariant is inductive.
LEMMA NextIInv == IInv /\ [Next]_vars => IInv'
<1> SUFFICES ASSUME IInv, [Next]_vars PROVE IInv'
  OBVIOUS
<1>1. CASE Page
  BY <1>1, PageShape, PageWalks, PageDrift, PageQuiet DEF IInv
<1>2. CASE PageFails
  BY <1>2, FailsStep
<1>3. ASSUME NEW v \in Vouchers, NEW i \in 0..Len(list), Enter(v, i) PROVE IInv'
  BY <1>3, EnterStep
<1>4. ASSUME NEW i \in 1..Len(list), Leave(i) PROVE IInv'
  BY <1>4, LeaveStep
<1>5. CASE UNCHANGED vars
  BY <1>5, StutterStep
<1> QED
  BY <1>1, <1>2, <1>3, <1>4, <1>5 DEF Next, Returned

\* The invariant holds in every state of the tool and the list.
THEOREM Invariance == Spec => []IInv
BY InitIInv, NextIInv, PTL DEF Spec

\* summarize-vouchers says truncated exactly when the last answer had more rows
\* than the pages it scanned, and then it scanned maxPages of them
\* (src/tools/documents.ts, the end of the loop).
THEOREM TruncationIsHonestCorrect == Spec => []TruncationIsHonest
<1>1. IInv => TruncationIsHonest
  BY DEF IInv, Walk, Rows, TruncationIsHonest
<1> QED
  BY <1>1, Invariance, PTL

\* What summarize-vouchers reports when it did not say truncated, over a list
\* that nobody changed, is the number and the sum of that list, group by group,
\* however many rows a page has (src/tools/documents.ts, the loop).
THEOREM ExactWhenQuietCorrect == Spec => []ExactWhenQuiet
<1>1. IInv => ExactWhenQuiet
  BY Zenon DEF IInv, Quiet, Tally, ExactWhenQuiet
<1> QED
  BY <1>1, Invariance, PTL

\* Over a list that others change while it is walked, each voucher that leaves
\* makes the summary miss at most one other and each that enters makes it count
\* at most one twice (src/tools/documents.ts, the loop over numbered pages).
THEOREM DriftBoundedCorrect == Spec => []DriftBounded
<1>1. IInv => DriftBounded
  BY DEF IInv, Drift
<1> QED
  BY <1>1, Invariance, PTL

=============================================================================
