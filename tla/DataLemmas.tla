----------------------------- MODULE DataLemmas -----------------------------
(***************************************************************************)
(* Lemmas on the data of the models, for the proofs about them: counting   *)
(* the processes that are in given states, numbers, sums and sequences.    *)
(***************************************************************************)
EXTENDS Integers, Sequences, SequencesExt, FiniteSets, Functions, FiniteSetTheorems, SequenceTheorems,
        WellFoundedInduction, TLAPS

(* Who of S is in a state of P, when f gives the state of each. *)
In(S, f, P) == {x \in S : f[x] \in P}

(* One process of a finite set changes its state: the number of those in   *)
(* P grows by one, shrinks by one, or their set stays the same.            *)
LEMMA Recount ==
    ASSUME NEW S, IsFiniteSet(S), NEW f, NEW g, NEW x \in S, NEW P,
           \A y \in S : y # x => g[y] = f[y]
    PROVE  /\ Cardinality(In(S, f, P)) \in Nat
           /\ Cardinality(In(S, g, P)) \in Nat
           /\ f[x] \notin P /\ g[x] \in P
                => Cardinality(In(S, g, P)) = Cardinality(In(S, f, P)) + 1
           /\ f[x] \in P /\ g[x] \notin P
                => Cardinality(In(S, g, P)) = Cardinality(In(S, f, P)) - 1
           /\ (f[x] \in P <=> g[x] \in P) => In(S, g, P) = In(S, f, P)
<1> DEFINE A == In(S, f, P)
           B == In(S, g, P)
<1>1. IsFiniteSet(A) /\ IsFiniteSet(B)
  BY FS_Subset, A \in SUBSET S, B \in SUBSET S DEF In
<1>2. Cardinality(A) \in Nat /\ Cardinality(B) \in Nat
  BY <1>1, FS_CardinalityType
<1>3. ASSUME f[x] \notin P, g[x] \in P
      PROVE  Cardinality(B) = Cardinality(A) + 1
  <2>1. B = A \cup {x} /\ x \notin A
    BY <1>3 DEF In
  <2> QED BY <2>1, <1>1, FS_AddElement
<1>4. ASSUME f[x] \in P, g[x] \notin P
      PROVE  Cardinality(B) = Cardinality(A) - 1
  <2>1. B = A \ {x} /\ x \in A
    BY <1>4 DEF In
  <2> QED BY <2>1, <1>1, FS_RemoveElement
<1>5. ASSUME f[x] \in P <=> g[x] \in P
      PROVE  B = A
  BY <1>5 DEF In
<1> QED BY <1>2, <1>3, <1>4, <1>5

(* Those in fewer states are fewer, and never more than there are. *)
LEMMA CountBounds ==
    ASSUME NEW S, IsFiniteSet(S), NEW f, NEW P, NEW Q, P \subseteq Q
    PROVE  /\ Cardinality(In(S, f, P)) \in Nat
           /\ Cardinality(In(S, f, Q)) \in Nat
           /\ Cardinality(S) \in Nat
           /\ Cardinality(In(S, f, P)) <= Cardinality(In(S, f, Q))
           /\ Cardinality(In(S, f, Q)) <= Cardinality(S)
<1>1. In(S, f, P) \in SUBSET In(S, f, Q) /\ In(S, f, Q) \in SUBSET S
  BY DEF In
<1>2. IsFiniteSet(In(S, f, Q)) /\ Cardinality(In(S, f, Q)) <= Cardinality(S)
  BY <1>1, FS_Subset
<1>3. IsFiniteSet(In(S, f, P)) /\ Cardinality(In(S, f, P)) <= Cardinality(In(S, f, Q))
  BY <1>1, <1>2, FS_Subset
<1> QED BY <1>2, <1>3, FS_CardinalityType

(* Somebody in a state of P makes the count positive. *)
LEMMA CountPositive ==
    ASSUME NEW S, IsFiniteSet(S), NEW f, NEW P, NEW x \in S, f[x] \in P
    PROVE  Cardinality(In(S, f, P)) \in Nat \ {0}
<1>1. IsFiniteSet(In(S, f, P)) /\ In(S, f, P) # {}
  BY FS_Subset, In(S, f, P) \in SUBSET S DEF In
<1> QED BY <1>1, FS_EmptySet, FS_CardinalityType

(* A function hits at most as many values as it has arguments. *)
LEMMA HitsAtMost ==
    ASSUME NEW S, IsFiniteSet(S), NEW f
    PROVE  /\ IsFiniteSet({f[x] : x \in S})
           /\ Cardinality({f[x] : x \in S}) <= Cardinality(S)
<1> DEFINE T == {f[x] : x \in S}
           g == [x \in S |-> f[x]]
<1>1. g \in Surjection(S, T)
  <2>1. g \in [S -> T]
    OBVIOUS
  <2>2. \A y \in T : \E x \in S : g[x] = y
    OBVIOUS
  <2> QED BY <2>1, <2>2 DEF Surjection
<1> QED BY <1>1, FS_Surjection

(* There are n numbers from 1 to n. *)
LEMMA UpTo ==
    ASSUME NEW n \in Nat
    PROVE  IsFiniteSet(1..n) /\ Cardinality(1..n) = n
<1> DEFINE id == [i \in 1..n |-> i]
<1>1. id \in Bijection(1..n, 1..n)
  <2>1. id \in Injection(1..n, 1..n)
    BY DEF Injection, IsInjective
  <2>2. id \in Surjection(1..n, 1..n)
    BY DEF Surjection
  <2> QED BY <2>1, <2>2 DEF Bijection
<1>2. ExistsBijection(1..n, 1..n)
  BY <1>1 DEF ExistsBijection
<1>3. IsFiniteSet(1..n)
  <2>1. \E k \in Nat : ExistsBijection(1..k, 1..n)
    BY <1>2
  <2> QED BY <2>1, FS_NatBijection
<1>4. Cardinality(1..n) = n
  BY <1>2, FS_CountingElements
<1> QED BY <1>3, <1>4

-----------------------------------------------------------------------------
(* Numbers: what takes the place of an induction is the least number at    *)
(* which a statement fails.                                                *)

(* A set of natural numbers that is not empty has a least one. *)
LEMMA LeastNumber ==
    ASSUME NEW T \in SUBSET Nat, T # {}
    PROVE  \E n \in T : \A k \in T : n <= k
<1> DEFINE Below == {pair \in Nat \X Nat : pair[1] < pair[2]}
<1>1. IsWellFoundedOn(Below, Nat)
    BY NatLessThanWellFounded, Zenon DEF OpToRel
<1> HIDE DEF Below
<1>2. PICK n \in T : \A k \in T : ~(<<k, n>> \in Below)
    BY <1>1, WFMin, Zenon
<1> USE DEF Below
<1>3. \A k \in T : ~(k < n)
    BY <1>2
<1> QED BY <1>3

(* So a search that ends finds a number it looked for. *)
LEMMA SearchFinds ==
    ASSUME NEW T \in SUBSET Nat, T # {}
    PROVE  (CHOOSE n \in T : \A k \in T : n <= k) \in T
BY LeastNumber, Zenon

(* Recursions over numbers, by what each step makes of the value before. *)
Steps(n, X) == [1..n -> [X -> X]]

Follows(f, n, X, a, step) ==
    f[0] = a /\ \A i \in 1..n : f[i - 1] \in X => f[i] = step[i][f[i - 1]]

(* A recursion that stays in X defines a function. *)
LEMMA RecursionDefines ==
    ASSUME NEW n \in Nat, NEW X, NEW a \in X, NEW step \in Steps(n, X)
    PROVE  \E f \in [0..n -> X] : Follows(f, n, X, a, step)
<1> DEFINE Defined(k) == \E f \in [0..k -> X] : f[0] = a /\ \A i \in 1..k : f[i] = step[i][f[i - 1]]
           Undefined  == {k \in 0..n : ~ Defined(k)}
<1>1. Undefined = {}
  <2> SUFFICES ASSUME Undefined # {} PROVE FALSE
    OBVIOUS
  <2>1. PICK k \in Undefined : \A m \in Undefined : k <= m
    <3> Undefined \in SUBSET Nat
      OBVIOUS
    <3> HIDE DEF Undefined
    <3> QED BY LeastNumber
  <2>2. k # 0
    <3>1. /\ [i \in 0..0 |-> a] \in [0..0 -> X] /\ [i \in 0..0 |-> a][0] = a
          /\ 1..0 = {}
      OBVIOUS
    <3>2. Defined(0)
      BY <3>1
    <3> HIDE DEF Defined
    <3> QED BY <2>1, <3>2
  <2>3. k - 1 \in 0..n /\ k \in 1..n /\ ~ (k <= k - 1)
    BY <2>1, <2>2
  <2>4. Defined(k - 1)
    <3> HIDE DEF Defined
    <3> QED BY <2>1, <2>3
  <2>5. PICK f \in [0..(k - 1) -> X] : f[0] = a /\ \A i \in 1..(k - 1) : f[i] = step[i][f[i - 1]]
    BY <2>4
  <2> DEFINE g == [i \in 0..k |-> IF i = k THEN step[k][f[k - 1]] ELSE f[i]]
  <2>6. g \in [0..k -> X]
    <3>1. f[k - 1] \in X
      BY <2>3
    <3>2. step[k][f[k - 1]] \in X
      BY <2>3, <3>1 DEF Steps
    <3> QED BY <2>3, <3>2
  <2>7. g[0] = a
    BY <2>2, <2>3, <2>5
  <2>8. ASSUME NEW i \in 1..k PROVE g[i] = step[i][g[i - 1]]
    <3>1. CASE i = k
      BY <2>3, <3>1
    <3>2. CASE i # k
      <4>1. i \in 1..(k - 1) /\ i \in 0..k /\ i - 1 \in 0..k /\ i - 1 # k
        BY <2>3, <3>2
      <4> QED BY <2>5, <3>2, <4>1
    <3> QED BY <3>1, <3>2
  <2> HIDE DEF g
  <2>9. Defined(k)
    BY <2>6, <2>7, <2>8
  <2> HIDE DEF Defined
  <2> QED BY <2>1, <2>9
<1>2. Defined(n)
  <2> HIDE DEF Defined
  <2> QED BY <1>1
<1> QED BY <1>2 DEF Follows

(* Only one does. *)
SameValues(f, g, n) == \A i \in 0..n : g[i] = f[i]

LEMMA RecursionAgrees ==
    ASSUME NEW n \in Nat, NEW X, NEW a \in X, NEW step \in Steps(n, X),
           NEW f \in [0..n -> X], Follows(f, n, X, a, step), NEW g, Follows(g, n, X, a, step)
    PROVE  SameValues(f, g, n)
<1> USE DEF Follows, SameValues
<1> SUFFICES ASSUME NEW x \in 0..n, g[x] # f[x] PROVE FALSE
  OBVIOUS
<1> DEFINE Differ == {i \in 0..n : g[i] # f[i]}
<1>1. PICK k \in Differ : \A m \in Differ : k <= m
  <2> x \in Differ /\ Differ \in SUBSET Nat
    OBVIOUS
  <2> HIDE DEF Differ
  <2> QED BY LeastNumber
<1>2. k # 0
  BY <1>1
<1>3. k \in 1..n /\ k - 1 \in 0..n /\ ~ (k <= k - 1)
  BY <1>1, <1>2
<1>4. g[k - 1] = f[k - 1] /\ f[k - 1] \in X
  BY <1>1, <1>3
<1> QED BY <1>1, <1>3, <1>4

(* From a on, f grows like g from b on. *)
GrowAlike(f, a, g, b, n) ==
    /\ \A i \in 0..n : f[a + i] \in Int /\ g[b + i] \in Int
    /\ \A i \in 1..n : f[a + i] - f[a + (i - 1)] = g[b + i] - g[b + (i - 1)]

Parallel(f, a, g, b, n) == \A i \in 0..n : f[a + i] - f[a] = g[b + i] - g[b]

LEMMA SameDistance ==
    ASSUME NEW n \in Nat, NEW a \in Nat, NEW b \in Nat, NEW f, NEW g, GrowAlike(f, a, g, b, n)
    PROVE  Parallel(f, a, g, b, n)
<1> USE DEF GrowAlike, Parallel
<1> SUFFICES ASSUME NEW x \in 0..n, f[a + x] - f[a] # g[b + x] - g[b] PROVE FALSE
  OBVIOUS
<1> DEFINE Apart == {i \in 0..n : f[a + i] - f[a] # g[b + i] - g[b]}
<1>1. PICK k \in Apart : \A m \in Apart : k <= m
  <2> x \in Apart /\ Apart \in SUBSET Nat
    OBVIOUS
  <2> HIDE DEF Apart
  <2> QED BY LeastNumber
<1>2. k # 0
  <2>1. a + 0 = a /\ b + 0 = b
    OBVIOUS
  <2>2. f[a] \in Int /\ g[b] \in Int
    BY <2>1, 0 \in 0..n
  <2>3. f[a] - f[a] = 0 /\ g[b] - g[b] = 0
    BY <2>2
  <2>4. f[a + 0] - f[a] = g[b + 0] - g[b]
    BY <2>1, <2>3, Zenon
  <2> QED BY <1>1, <2>4
<1>3. k \in 1..n /\ k - 1 \in 0..n /\ ~ (k <= k - 1)
  BY <1>1, <1>2
<1>4. f[a + (k - 1)] - f[a] = g[b + (k - 1)] - g[b]
  BY <1>1, <1>3
<1>5. f[a + k] \in Int /\ f[a + (k - 1)] \in Int /\ g[b + k] \in Int /\ g[b + (k - 1)] \in Int
  BY <1>3
<1>6. f[a] \in Int /\ g[b] \in Int
  BY 0 \in 0..n, a + 0 = a, b + 0 = b
<1>7. f[a + k] - f[a + (k - 1)] = g[b + k] - g[b + (k - 1)]
  BY <1>3
<1>8. f[a + k] - f[a] = g[b + k] - g[b]
  BY <1>4, <1>5, <1>6, <1>7
<1> QED BY <1>1, <1>8

-----------------------------------------------------------------------------
(* Sums: SumFunction adds in an order of its own, which makes no difference. *)

(* The sum over each subset of D, an element chosen from it at a time. *)
SumsOver(g, D, w) ==
    g = [S \in SUBSET D |-> IF S = {} THEN 0
                            ELSE LET x == CHOOSE x \in S : TRUE IN w[x] + g[S \ {x}]]

LEMMA SumsExist ==
    ASSUME NEW D, IsFiniteSet(D), NEW w
    PROVE  \E g : SumsOver(g, D, w)
<1> DEFINE value(g, S) == IF S = {} THEN 0 ELSE w[CHOOSE x \in S : TRUE] + g[S \ {CHOOSE x \in S : TRUE}]
           Small(k)    == {S \in SUBSET D : Cardinality(S) <= k}
           Defined(k)  == \E g : \A S \in Small(k) : g[S] = value(g, S)
           Undefined   == {k \in Nat : ~ Defined(k)}
<1>1. \A S \in SUBSET D : IsFiniteSet(S) /\ Cardinality(S) \in Nat /\ Cardinality(S) <= Cardinality(D)
  BY FS_Subset, FS_CardinalityType
<1>2. ASSUME NEW S \in SUBSET D, S # {}
      PROVE  LET rest == S \ {CHOOSE x \in S : TRUE}
             IN  rest \in SUBSET D /\ Cardinality(rest) = Cardinality(S) - 1
  BY <1>1, <1>2, FS_RemoveElement
<1>3. Undefined = {}
  <2> SUFFICES ASSUME Undefined # {} PROVE FALSE
    OBVIOUS
  <2>1. PICK k \in Undefined : \A m \in Undefined : k <= m
    <3> Undefined \in SUBSET Nat
      OBVIOUS
    <3> HIDE DEF Undefined
    <3> QED BY LeastNumber
  <2>2. k \in Nat /\ ~ Defined(k)
    BY <2>1
  <2>3. \E g : \A S \in Small(k) : Cardinality(S) < k => g[S] = value(g, S)
    <3>1. CASE k = 0
      BY <1>1, <3>1
    <3>2. CASE k # 0
      <4>1. k - 1 \in Nat /\ ~ (k <= k - 1)
        BY <2>2, <3>2
      <4>2. Defined(k - 1)
        <5> HIDE DEF Defined
        <5> QED BY <2>1, <4>1
      <4>3. PICK g : \A S \in Small(k - 1) : g[S] = value(g, S)
        BY <4>2
      <4>4. \A S \in Small(k) : Cardinality(S) < k => S \in Small(k - 1)
        BY <1>1, <2>2
      <4> HIDE DEF value, Small
      <4> QED BY <4>3, <4>4
    <3> QED BY <3>1, <3>2
  <2>4. PICK g : \A S \in Small(k) : Cardinality(S) < k => g[S] = value(g, S)
    BY <2>3
  <2> DEFINE h == [S \in SUBSET D |-> IF Cardinality(S) < k THEN g[S] ELSE value(g, S)]
  <2>5. ASSUME NEW S \in Small(k) PROVE h[S] = value(h, S)
    <3> DEFINE x == CHOOSE x \in S : TRUE
    <3>1. CASE S = {}
      <4>1. h[S] = IF Cardinality(S) < k THEN g[S] ELSE value(g, S)
        OBVIOUS
      <4>2. h[S] = value(g, S)
        BY <2>4, <4>1
      <4> QED BY <3>1, <4>2
    <3>2. CASE S # {}
      <4>1. S \ {x} \in SUBSET D /\ Cardinality(S \ {x}) < k
        <5>1. Cardinality(S \ {x}) = Cardinality(S) - 1 /\ Cardinality(S) <= k /\ Cardinality(S) \in Nat
          BY <1>1, <1>2, <3>2
        <5> QED BY <2>2, <5>1
      <4>2. h[S \ {x}] = g[S \ {x}]
        BY <4>1
      <4>3. h[S] = value(g, S)
        BY <2>4
      <4>4. value(g, S) = w[x] + g[S \ {x}] /\ value(h, S) = w[x] + h[S \ {x}]
        BY <3>2
      <4> QED BY <4>2, <4>3, <4>4
    <3> QED BY <3>1, <3>2
  <2> QED
    <3> HIDE DEF h, value, Small
    <3>1. Defined(k)
      BY <2>5
    <3> QED BY <2>2, <3>1
<1>4. Defined(Cardinality(D))
  <2> HIDE DEF Defined
  <2> QED BY <1>3, FS_CardinalityType
<1>5. PICK g : \A S \in SUBSET D : g[S] = value(g, S)
  <2>1. \A S \in SUBSET D : S \in Small(Cardinality(D))
    BY <1>1
  <2> HIDE DEF value, Small
  <2> QED BY <1>4, <2>1
<1> DEFINE h == [S \in SUBSET D |-> g[S]]
<1>6. ASSUME NEW S \in SUBSET D PROVE h[S] = value(h, S)
  <2>1. S # {} => S \ {CHOOSE x \in S : TRUE} \in SUBSET D
    OBVIOUS
  <2>2. value(h, S) = value(g, S)
    BY <2>1
  <2> HIDE DEF value
  <2> QED BY <1>5, <2>2
<1>7. h = [S \in SUBSET D |-> value(h, S)]
  <2> HIDE DEF value
  <2>1. h = [S \in SUBSET D |-> h[S]]
    OBVIOUS
  <2> HIDE DEF h
  <2> QED BY <1>6, <2>1
<1>8. SumsOver(h, D, w)
  <2> HIDE DEF h
  <2> QED BY <1>7 DEF SumsOver
<1> QED BY <1>8

(* Whichever element is taken away, the rest has the rest of the sum. *)
AnyOrder(g, D, w) == \A S \in SUBSET D : g[S] \in Nat /\ \A x \in S : g[S] = w[x] + g[S \ {x}]

LEMMA SumsTaken ==
    ASSUME NEW D, IsFiniteSet(D), NEW w \in [D -> Nat], NEW g, SumsOver(g, D, w)
    PROVE  AnyOrder(g, D, w)
<1> USE DEF AnyOrder
<1> DEFINE Sound(S) == g[S] \in Nat /\ \A x \in S : g[S] = w[x] + g[S \ {x}]
           Sizes    == {Cardinality(S) : S \in {T \in SUBSET D : ~ Sound(T)}}
<1>1. \A S \in SUBSET D : IsFiniteSet(S) /\ Cardinality(S) \in Nat
  BY FS_Subset, FS_CardinalityType
<1>2. ASSUME NEW S \in SUBSET D, NEW x \in S
      PROVE  S \ {x} \in SUBSET D /\ Cardinality(S \ {x}) < Cardinality(S)
  BY <1>1, FS_RemoveElement
<1>3. \A S \in SUBSET D : g[S] = IF S = {} THEN 0
                                ELSE w[CHOOSE x \in S : TRUE] + g[S \ {CHOOSE x \in S : TRUE}]
  BY DEF SumsOver
<1> SUFFICES ASSUME NEW U \in SUBSET D, ~ Sound(U) PROVE FALSE
  OBVIOUS
<1>4. PICK k \in Sizes : \A m \in Sizes : k <= m
  <2>1. Sizes \in SUBSET Nat /\ Cardinality(U) \in Sizes
    <3> HIDE DEF Sound
    <3> QED BY <1>1
  <2> HIDE DEF Sizes
  <2> QED BY <2>1, LeastNumber
<1>5. PICK S \in SUBSET D : ~ Sound(S) /\ Cardinality(S) = k
  <2> HIDE DEF Sound
  <2> QED BY <1>4
<1>6. \A T \in SUBSET D : Cardinality(T) < Cardinality(S) => Sound(T)
  <2>1. ASSUME NEW T \in SUBSET D, Cardinality(T) < Cardinality(S), ~ Sound(T) PROVE FALSE
    <3>1. Cardinality(T) \in Sizes
      BY <2>1
    <3> HIDE DEF Sizes, Sound
    <3>2. k <= Cardinality(T) /\ Cardinality(T) \in Nat /\ k \in Nat
      BY <1>1, <1>4, <1>5, <3>1
    <3> QED BY <1>5, <2>1, <3>2
  <2> HIDE DEF Sound
  <2> QED BY <2>1
<1>7. Sound(S)
  <2>1. CASE S = {}
    BY <1>3, <2>1
  <2>2. CASE S # {}
    <3> DEFINE c == CHOOSE x \in S : TRUE
    <3>1. c \in S
      BY <2>2
    <3>2. g[S] = w[c] + g[S \ {c}]
      BY <1>3, <2>2
    <3> HIDE DEF c
    <3>3. Sound(S \ {c})
      <4> HIDE DEF Sound
      <4> QED BY <1>2, <1>6, <3>1
    <3>4. w[c] \in Nat
      BY <3>1
    <3>5. ASSUME NEW x \in S PROVE g[S] = w[x] + g[S \ {x}]
      <4>1. CASE x = c
        BY <3>2, <4>1
      <4>2. CASE x # c
        <5>1. Sound(S \ {x})
          <6> HIDE DEF Sound
          <6> QED BY <1>2, <1>6
        <5>2. x \in S \ {c} /\ c \in S \ {x} /\ (S \ {x}) \ {c} = (S \ {c}) \ {x}
          BY <3>1, <4>2
        <5> DEFINE both == g[(S \ {c}) \ {x}]
        <5>3. g[S \ {c}] = w[x] + both /\ g[S \ {x}] = w[c] + both
          BY <3>3, <5>1, <5>2
        <5>4. both \in Nat
          <6>1. S \ {c} \in SUBSET D /\ Cardinality(S \ {c}) < Cardinality(S)
            BY <1>2, <3>1
          <6>2. (S \ {c}) \ {x} \in SUBSET D /\ Cardinality((S \ {c}) \ {x}) < Cardinality(S \ {c})
            BY <1>2, <5>2, <6>1
          <6>3. Cardinality((S \ {c}) \ {x}) < Cardinality(S)
            BY <1>1, <6>1, <6>2
          <6>4. Sound((S \ {c}) \ {x})
            <7> HIDE DEF Sound
            <7> QED BY <1>6, <6>2, <6>3
          <6> QED BY <6>4
        <5> HIDE DEF both
        <5>5. w[x] \in Nat
          OBVIOUS
        <5> QED BY <3>2, <3>4, <5>3, <5>4, <5>5
      <4> QED BY <4>1, <4>2
    <3>6. g[S] \in Nat
      BY <3>2, <3>3, <3>4
    <3> QED BY <3>5, <3>6
  <2> QED BY <2>1, <2>2
<1> QED BY <1>5, <1>7

(* The sum over a sequence is where adding its numbers in order ends. *)
AddsUp(f, w, n) == f[0] = 0 /\ \A i \in 1..n : f[i] = f[i - 1] + w[i]

LEMMA SumInOrder ==
    ASSUME NEW n \in Nat, NEW w \in [1..n -> Nat]
    PROVE  \E f \in [0..n -> Nat] : AddsUp(f, w, n) /\ SumFunction(w) = f[n]
<1> DEFINE D == 1..n
           sums == CHOOSE g : SumsOver(g, D, w)
           f == [i \in 0..n |-> sums[1..i]]
<1>1. IsFiniteSet(D) /\ DOMAIN w = D
  BY UpTo
<1>2. SumFunction(w) = sums[D]
  BY <1>1 DEF SumFunction, SumFunctionOnSet, FoldFunctionOnSet, MapThenFoldSet, SumsOver
<1>3. SumsOver(sums, D, w)
  BY <1>1, SumsExist
<1> HIDE DEF sums
<1>4. \A S \in SUBSET D : sums[S] \in Nat /\ \A x \in S : sums[S] = w[x] + sums[S \ {x}]
  <2>1. AnyOrder(sums, D, w)
    <3> w \in [D -> Nat] /\ IsFiniteSet(D)
      BY <1>1
    <3> HIDE DEF D
    <3> QED BY <1>3, SumsTaken
  <2> QED BY <2>1 DEF AnyOrder
<1>5. f \in [0..n -> Nat]
  BY <1>4
<1>6. f[0] = 0
  <2>1. 1..0 = {} /\ {} \in SUBSET D
    OBVIOUS
  <2>2. sums[{}] = 0
    BY <1>3, <2>1 DEF SumsOver
  <2> QED BY <2>1, <2>2
<1>7. ASSUME NEW i \in 1..n PROVE f[i] = f[i - 1] + w[i]
  <2>1. 1..i \in SUBSET D /\ i \in 1..i /\ (1..i) \ {i} = 1..(i - 1) /\ i - 1 \in 0..n /\ i \in 0..n
    OBVIOUS
  <2>2. sums[1..i] = w[i] + sums[1..(i - 1)]
    BY <1>4, <2>1
  <2>3. w[i] \in Nat /\ sums[1..(i - 1)] \in Nat
    BY <1>4, <2>1
  <2> QED BY <2>1, <2>2, <2>3
<1>8. f[n] = sums[D]
  OBVIOUS
<1> QED BY <1>2, <1>5, <1>6, <1>7, <1>8 DEF AddsUp

LEMMA SumOfBoth ==
    ASSUME NEW v \in Seq(Nat), NEW w \in Seq(Nat)
    PROVE  /\ SumFunction(v) \in Nat /\ SumFunction(w) \in Nat
           /\ SumFunction(v \o w) = SumFunction(v) + SumFunction(w)
<1> DEFINE m == Len(v)
           n == Len(w)
           b == v \o w
<1>1. /\ m \in Nat /\ n \in Nat /\ v \in [1..m -> Nat] /\ w \in [1..n -> Nat] /\ b \in [1..(m + n) -> Nat]
      /\ \A i \in 1..m : b[i] = v[i]
      /\ \A i \in 1..n : b[m + i] = w[i]
  <2>1. /\ Len(b) = m + n /\ b \in Seq(Nat) /\ m \in Nat /\ n \in Nat
        /\ \A i \in 1..(m + n) : b[i] = IF i <= m THEN v[i] ELSE w[i - m]
    BY ConcatProperties, LenProperties
  <2> HIDE DEF b, m, n
  <2>2. \A i \in 1..n : m + i \in 1..(m + n) /\ ~ (m + i <= m) /\ (m + i) - m = i
    BY <2>1
  <2>3. \A i \in 1..m : i \in 1..(m + n) /\ i <= m
    BY <2>1
  <2>4. v \in [1..m -> Nat] /\ w \in [1..n -> Nat] /\ b \in [1..(m + n) -> Nat]
    BY <2>1, LenProperties DEF m, n
  <2> QED BY <2>1, <2>2, <2>3, <2>4
<1> HIDE DEF b, m, n
<1>2. m + n \in Nat
  BY <1>1
<1>3. PICK f \in [0..m -> Nat] : AddsUp(f, v, m) /\ SumFunction(v) = f[m]
  BY <1>1, SumInOrder
<1>4. PICK g \in [0..n -> Nat] : AddsUp(g, w, n) /\ SumFunction(w) = g[n]
  BY <1>1, SumInOrder
<1>5. PICK h \in [0..(m + n) -> Nat] : AddsUp(h, b, m + n) /\ SumFunction(b) = h[m + n]
  BY <1>1, <1>2, SumInOrder
<1>6. h[m] = f[m]
  <2>1. GrowAlike(h, 0, f, 0, m)
    <3>1. ASSUME NEW i \in 0..m PROVE h[0 + i] \in Int /\ f[0 + i] \in Int
      BY <1>1, <1>3, <1>5
    <3>2. ASSUME NEW i \in 1..m PROVE h[0 + i] - h[0 + (i - 1)] = f[0 + i] - f[0 + (i - 1)]
      <4>1. /\ i \in 1..(m + n) /\ 0 + i = i /\ 0 + (i - 1) = i - 1
            /\ i - 1 \in 0..m /\ i - 1 \in 0..(m + n)
        BY <1>1
      <4>2. h[i] = h[i - 1] + v[i] /\ f[i] = f[i - 1] + v[i]
        BY <1>1, <1>3, <1>5, <4>1 DEF AddsUp
      <4>3. h[i - 1] \in Int /\ f[i - 1] \in Int /\ v[i] \in Int
        BY SMTT(30), <1>1, <1>3, <1>5, <4>1
      <4> QED BY <4>1, <4>2, <4>3
    <3> QED BY <3>1, <3>2 DEF GrowAlike
  <2>2. Parallel(h, 0, f, 0, m)
    BY <1>1, <2>1, SameDistance, 0 \in Nat
  <2>3. m \in 0..m /\ 0 + m = m /\ h[m] \in Int /\ f[m] \in Int
    BY <1>1, <1>3, <1>5
  <2>4. h[0] = 0 /\ f[0] = 0
    BY <1>3, <1>5 DEF AddsUp
  <2> QED BY <2>2, <2>3, <2>4 DEF Parallel
<1>7. h[m + n] - h[m] = g[n] - g[0]
  <2>1. ASSUME NEW i \in 0..n PROVE h[m + i] \in Int /\ g[0 + i] \in Int
    BY <1>1, <1>4, <1>5
  <2>2. ASSUME NEW i \in 1..n PROVE h[m + i] - h[m + (i - 1)] = g[0 + i] - g[0 + (i - 1)]
    <3>1. /\ m + i \in 1..(m + n) /\ (m + i) - 1 = m + (i - 1) /\ 0 + i = i /\ 0 + (i - 1) = i - 1
          /\ i - 1 \in 0..n
      BY <1>1
    <3>2. h[m + i] = h[m + (i - 1)] + w[i] /\ g[i] = g[i - 1] + w[i]
      BY <1>1, <1>4, <1>5, <3>1 DEF AddsUp
    <3>3. h[m + (i - 1)] \in Int /\ g[i - 1] \in Int /\ w[i] \in Int
      <4>1. /\ \A k \in 0..n : h[m + k] \in Int
            /\ \A k \in 0..n : g[0 + k] \in Int
        BY <2>1
      <4>2. h[m + (i - 1)] \in Int /\ g[0 + (i - 1)] \in Int
        BY <3>1, <4>1
      <4> QED BY <1>1, <3>1, <4>2
    <3> QED BY SMTT(30), <3>1, <3>2, <3>3
  <2>3. GrowAlike(h, m, g, 0, n)
    BY <2>1, <2>2 DEF GrowAlike
  <2>4. Parallel(h, m, g, 0, n)
    BY <1>1, <2>3, SameDistance, 0 \in Nat
  <2>5. n \in 0..n /\ 0 + n = n
    BY <1>1
  <2> QED BY <2>4, <2>5 DEF Parallel
<1>8. f[m] \in Nat /\ g[n] \in Nat /\ g[0] = 0 /\ h[m + n] \in Nat
  BY <1>1, <1>3, <1>4, <1>5 DEF AddsUp
<1>9. SumFunction(v \o w) = h[m + n]
  BY <1>5 DEF b
<1> QED BY <1>3, <1>4, <1>6, <1>7, <1>8, <1>9

LEMMA SumOfOne ==
    /\ SumFunction(<<>>) = 0
    /\ \A x \in Nat : SumFunction(<<x>>) = x
<1>1. SumFunction(<<>>) = 0
  <2>1. <<>> \in [1..0 -> Nat]
    OBVIOUS
  <2>2. PICK f \in [0..0 -> Nat] : AddsUp(f, <<>>, 0) /\ SumFunction(<<>>) = f[0]
    BY <2>1, SumInOrder, 0 \in Nat
  <2> QED BY <2>2 DEF AddsUp
<1>2. ASSUME NEW x \in Nat PROVE SumFunction(<<x>>) = x
  <2>1. <<x>> \in [1..1 -> Nat] /\ <<x>>[1] = x
    OBVIOUS
  <2>2. PICK f \in [0..1 -> Nat] : AddsUp(f, <<x>>, 1) /\ SumFunction(<<x>>) = f[1]
    BY <2>1, SumInOrder, 1 \in Nat
  <2>3. f[0] = 0 /\ f[1] = f[1 - 1] + <<x>>[1]
    BY <2>2, 1 \in 1..1 DEF AddsUp
  <2> QED BY <2>1, <2>2, <2>3
<1> QED BY <1>1, <1>2

-----------------------------------------------------------------------------
(* Sequences of whatever elements.                                         *)
Listed(s) == \E S : s \in Seq(S)

LEMMA ListedFacts ==
    ASSUME NEW s, Listed(s)
    PROVE  /\ Len(s) \in Nat /\ DOMAIN s = 1..Len(s) /\ s = [i \in 1..Len(s) |-> s[i]]
           /\ s = <<>> <=> Len(s) = 0
<1>1. PICK S : s \in Seq(S)
  BY DEF Listed
<1>2. Len(s) \in Nat /\ DOMAIN s = 1..Len(s) /\ s \in [1..Len(s) -> S]
  BY <1>1, LenProperties
<1>3. s = <<>> <=> Len(s) = 0
  BY <1>1, EmptySeq
<1> QED BY <1>2, <1>3

LEMMA Listing ==
    ASSUME NEW n \in Nat, NEW s, s = [i \in 1..n |-> s[i]]
    PROVE  Listed(s) /\ Len(s) = n
<1> DEFINE S == {s[i] : i \in 1..n}
<1>1. s \in Seq(S) /\ Len(s) = n
  OBVIOUS
<1> QED BY <1>1 DEF Listed

LEMMA SameList ==
    ASSUME NEW s, NEW t, Listed(s), Listed(t), Len(s) = Len(t), \A i \in 1..Len(s) : s[i] = t[i]
    PROVE  s = t
<1>1. s = [i \in 1..Len(s) |-> s[i]] /\ t = [i \in 1..Len(s) |-> t[i]]
  BY ListedFacts
<1> QED BY <1>1

(* What joining two sequences makes. *)
Joins(b, s, t) ==
    /\ Listed(b) /\ Len(b) = Len(s) + Len(t)
    /\ \A i \in 1..Len(s) : b[i] = s[i]
    /\ \A i \in 1..Len(t) : b[Len(s) + i] = t[i]

LEMMA Joining ==
    ASSUME NEW s, NEW t, Listed(s), Listed(t)
    PROVE  Joins(s \o t, s, t)
<1>1. PICK S, T : s \in Seq(S) /\ t \in Seq(T)
  BY DEF Listed
<1>2. s \in Seq(S \cup T) /\ t \in Seq(S \cup T)
  BY <1>1
<1>3. /\ s \o t \in Seq(S \cup T) /\ Len(s \o t) = Len(s) + Len(t) /\ Len(s) \in Nat /\ Len(t) \in Nat
      /\ \A i \in 1..Len(s) + Len(t) : (s \o t)[i] = IF i <= Len(s) THEN s[i] ELSE t[i - Len(s)]
  BY <1>2, ConcatProperties, LenProperties
<1>4. /\ \A i \in 1..Len(s) : i \in 1..Len(s) + Len(t) /\ i <= Len(s)
      /\ \A i \in 1..Len(t) : /\ Len(s) + i \in 1..Len(s) + Len(t) /\ ~ (Len(s) + i <= Len(s))
                              /\ (Len(s) + i) - Len(s) = i
  BY <1>3
<1> QED BY <1>3, <1>4 DEF Listed, Joins

LEMMA OneListed ==
    /\ Listed(<<>>) /\ Len(<<>>) = 0
    /\ \A x : Listed(<<x>>) /\ Len(<<x>>) = 1 /\ <<x>>[1] = x
<1>1. <<>> \in Seq({}) /\ \A x : <<x>> \in Seq({x})
  OBVIOUS
<1> QED BY <1>1 DEF Listed

(* What replacing element i of s by x makes. *)
Replaces(t, s, i, x) ==
    /\ Listed(t) /\ Len(t) = Len(s)
    /\ \A k \in 1..Len(s) : t[k] = IF k = i THEN x ELSE s[k]

LEMMA ReplacedListed ==
    ASSUME NEW s, Listed(s), NEW i, NEW x
    PROVE  Replaces([s EXCEPT ![i] = x], s, i, x)
<1> DEFINE t == [s EXCEPT ![i] = x]
<1>1. s = [k \in 1..Len(s) |-> s[k]] /\ Len(s) \in Nat
  BY ListedFacts
<1>2. t = [k \in 1..Len(s) |-> t[k]] /\ \A k \in 1..Len(s) : t[k] = IF k = i THEN x ELSE s[k]
  BY <1>1
<1> HIDE DEF t
<1>3. Listed(t) /\ Len(t) = Len(s)
  BY <1>1, <1>2, Listing
<1> QED BY <1>2, <1>3 DEF t, Replaces

LEMMA Appending ==
    ASSUME NEW s, NEW x, Listed(s)
    PROVE  Append(s, x) = s \o <<x>>
<1>1. PICK S : s \in Seq(S)
  BY DEF Listed
<1>2. s \in Seq(S \cup {x}) /\ x \in S \cup {x}
  BY <1>1
<1> QED BY <1>2

(* A part of a sequence. *)
Part(p, s, a, b) ==
    /\ Listed(p) /\ Len(p) = b - a + 1
    /\ \A i \in 1..b - a + 1 : p[i] = s[a + i - 1]

LEMMA Cutting ==
    ASSUME NEW s, Listed(s), NEW a \in 1..Len(s) + 1, NEW b \in (a - 1)..Len(s)
    PROVE  Part(SubSeq(s, a, b), s, a, b)
<1>1. PICK S : s \in Seq(S)
  BY DEF Listed
<1>2. a \in Int /\ b \in Int /\ \A i \in a..b : s[i] \in S
  BY <1>1, LenProperties, ElementOfSeq
<1>3. /\ SubSeq(s, a, b) \in Seq(S)
      /\ Len(SubSeq(s, a, b)) = IF a <= b THEN b - a + 1 ELSE 0
      /\ \A i \in 1..b - a + 1 : SubSeq(s, a, b)[i] = s[a + i - 1]
  BY <1>2, SubSeqProperties
<1>4. Len(SubSeq(s, a, b)) = b - a + 1
  BY <1>1, <1>3, LenProperties
<1> QED BY <1>3, <1>4 DEF Part, Listed

(* The first element and the rest. *)
LEMMA Splitting ==
    ASSUME NEW s, Listed(s), s # <<>>
    PROVE  Listed(Tail(s)) /\ s = <<Head(s)>> \o Tail(s) /\ Len(Tail(s)) = Len(s) - 1
           /\ Head(s) = s[1] /\ \A i \in 1..Len(s) - 1 : Tail(s)[i] = s[i + 1]
<1>1. PICK S : s \in Seq(S)
  BY DEF Listed
<1>2. /\ Head(s) \in S /\ Tail(s) \in Seq(S) /\ Len(Tail(s)) = Len(s) - 1
      /\ \A i \in 1..Len(Tail(s)) : Tail(s)[i] = s[i + 1]
  BY <1>1, HeadTailProperties
<1>3. s = <<Head(s)>> \o Tail(s)
  BY <1>1
<1> QED BY <1>2, <1>3 DEF Listed

LEMMA JoinLaws ==
    ASSUME NEW r, NEW s, NEW t, Listed(r), Listed(s), Listed(t)
    PROVE  (r \o s) \o t = r \o (s \o t) /\ r \o <<>> = r /\ <<>> \o r = r
<1>1. PICK R, S, T : r \in Seq(R) /\ s \in Seq(S) /\ t \in Seq(T)
  BY DEF Listed
<1> DEFINE U == R \cup S \cup T
<1>2. r \in Seq(U) /\ s \in Seq(U) /\ t \in Seq(U)
  BY <1>1
<1>3. (r \o s) \o t = r \o (s \o t)
  BY <1>2, ConcatAssociative
<1>4. r \o <<>> = r /\ <<>> \o r = r
  BY <1>2, ConcatEmptySeq
<1> QED BY <1>3, <1>4

(* Named, for the provers to find it where r, s and t are large. *)
Associates(r, s, t) == (r \o s) \o t = r \o (s \o t)

LEMMA JoinAssociates ==
    ASSUME NEW r, NEW s, NEW t, Listed(r), Listed(s), Listed(t)
    PROVE  Associates(r, s, t)
<1>1. PICK R, S, T : r \in Seq(R) /\ s \in Seq(S) /\ t \in Seq(T)
  BY DEF Listed
<1> DEFINE U == R \cup S \cup T
<1>2. r \in Seq(U) /\ s \in Seq(U) /\ t \in Seq(U)
  BY <1>1
<1> HIDE DEF U
<1> QED BY <1>2, ConcatAssociative DEF Associates

LEMMA NothingJoined ==
    ASSUME NEW s, Listed(s)
    PROVE  s \o <<>> = s /\ <<>> \o s = s
<1>1. PICK S : s \in Seq(S)
  BY DEF Listed
<1> QED BY <1>1, ConcatEmptySeq

(* What is cut from the first of two joined sequences is a part of it. *)
LEMMA CuttingJoined ==
    ASSUME NEW s, NEW t, Listed(s), Listed(t), NEW a \in 1..Len(s) + 1, NEW b \in (a - 1)..Len(s)
    PROVE  SubSeq(s \o t, a, b) = SubSeq(s, a, b)
<1> DEFINE d == s \o t
<1>1. Joins(d, s, t) /\ Len(s) \in Nat /\ Len(t) \in Nat
  BY Joining, ListedFacts
<1> HIDE DEF d
<1>2. Len(d) = Len(s) + Len(t) /\ Listed(d)
  BY <1>1 DEF Joins
<1>3. a \in 1..Len(d) + 1 /\ b \in (a - 1)..Len(d)
  BY <1>1, <1>2
<1>4. Part(SubSeq(d, a, b), d, a, b) /\ Part(SubSeq(s, a, b), s, a, b)
  BY <1>2, <1>3, Cutting
<1>5. \A i \in 1..b - a + 1 : a + i - 1 \in 1..Len(s)
  BY <1>1
<1>6. \A i \in 1..b - a + 1 : SubSeq(d, a, b)[i] = SubSeq(s, a, b)[i]
  BY <1>1, <1>4, <1>5 DEF Part, Joins
<1> QED BY <1>4, <1>6, SameList DEF Part, d

(* FlattenSeq joins its parts in order. *)
JoinsUp(f, parts) ==
    f[0] = <<>> /\ \A i \in 1..Len(parts) : f[i] = f[i - 1] \o parts[i]

LEMMA FlattenInOrder ==
    ASSUME NEW T, <<>> \in T, \A x, y \in T : x \o y \in T, \A x \in T : Listed(x),
           NEW parts \in Seq(T), parts # <<>>
    PROVE  \E f \in [0..Len(parts) -> T] : JoinsUp(f, parts) /\ FlattenSeq(parts) = f[Len(parts)]
<1> DEFINE n == Len(parts)
           step == [i \in 1..n |-> [x \in T |-> x \o parts[i]]]
           Flat(g) == g = [i \in 1..n |-> IF i = 1 THEN parts[i] ELSE g[i - 1] \o parts[i]]
           flat == CHOOSE g : Flat(g)
           all == [i \in 0..n |-> IF i = 0 THEN <<>> ELSE flat[i]]
<1>1. n \in Nat /\ n # 0 /\ \A i \in 1..n : parts[i] \in T
  BY LenProperties, ElementOfSeq, EmptySeq
<1>2. FlattenSeq(parts) = flat[n]
  BY <1>1 DEF FlattenSeq
<1> HIDE DEF n
<1>3. step \in Steps(n, T)
  BY <1>1 DEF Steps
<1>4. PICK f \in [0..n -> T] : Follows(f, n, T, <<>>, step)
  <2> HIDE DEF step
  <2> QED BY <1>1, <1>3, RecursionDefines
<1>5. f[0] = <<>> /\ \A i \in 1..n : f[i] = f[i - 1] \o parts[i]
  <2>1. ASSUME NEW i \in 1..n PROVE f[i] = f[i - 1] \o parts[i]
    <3>1. f[i - 1] \in T
      BY <1>1
    <3>2. f[i] = step[i][f[i - 1]]
      BY <1>4, <3>1 DEF Follows
    <3> QED BY <3>1, <3>2
  <2> QED BY <1>4, <2>1 DEF Follows
<1>6. Flat([i \in 1..n |-> f[i]])
  <2> DEFINE g == [i \in 1..n |-> f[i]]
  <2>1. ASSUME NEW i \in 1..n PROVE g[i] = IF i = 1 THEN parts[i] ELSE g[i - 1] \o parts[i]
    <3>1. CASE i = 1
      <4>1. f[1] = <<>> \o parts[1]
        <5>1. i - 1 = 0
          BY <3>1
        <5>2. f[i] = f[i - 1] \o parts[i] /\ f[0] = <<>>
          BY <1>5, Zenon
        <5> QED BY <3>1, <5>1, <5>2
      <4>2. <<>> \o parts[1] = parts[1]
        BY <1>1, <3>1, JoinLaws
      <4> QED BY <3>1, <4>1, <4>2
    <3>2. CASE i # 1
      <4>1. i - 1 \in 1..n
        BY <1>1, <3>2
      <4> QED BY <1>5, <3>2, <4>1
    <3> QED BY <3>1, <3>2
  <2>2. g = [i \in 1..n |-> g[i]]
    OBVIOUS
  <2> HIDE DEF g
  <2>3. g = [i \in 1..n |-> IF i = 1 THEN parts[i] ELSE g[i - 1] \o parts[i]]
    BY <2>1, <2>2
  <2> QED BY <2>3 DEF g
<1>7. Flat(flat)
  <2> HIDE DEF Flat
  <2> QED BY <1>6
<1> HIDE DEF flat
<1>8. Follows(all, n, T, <<>>, step)
  <2>1. all[0] = <<>> /\ \A i \in 1..n : all[i] = flat[i]
    BY <1>1
  <2>2. ASSUME NEW i \in 1..n, all[i - 1] \in T PROVE all[i] = step[i][all[i - 1]]
    <3>1. flat[i] = IF i = 1 THEN parts[i] ELSE flat[i - 1] \o parts[i]
      BY <1>7
    <3>2. step[i][all[i - 1]] = all[i - 1] \o parts[i]
      BY <2>2
    <3>3. CASE i = 1
      <4>1. <<>> \o parts[1] = parts[1]
        BY <1>1, <3>3, JoinLaws
      <4>2. i - 1 = 0
        BY <3>3
      <4> HIDE DEF all, step
      <4> QED BY <2>1, <3>1, <3>2, <3>3, <4>1, <4>2
    <3>4. CASE i # 1
      <4>1. i - 1 \in 1..n
        BY <1>1, <3>4
      <4> HIDE DEF all, step
      <4> QED BY <2>1, <3>1, <3>2, <3>4, <4>1
    <3> QED BY <3>3, <3>4
  <2> HIDE DEF all, step
  <2> QED BY <2>1, <2>2 DEF Follows
<1>9. SameValues(f, all, n)
  <2> HIDE DEF all, step
  <2> QED BY <1>1, <1>3, <1>4, <1>8, RecursionAgrees
<1>10. flat[n] = f[n]
  <2>1. all[n] = f[n]
    <3> HIDE DEF all
    <3> QED BY <1>1, <1>9 DEF SameValues
  <2> QED BY <1>1, <2>1
<1>11. JoinsUp(f, parts)
  BY <1>5 DEF JoinsUp, n
<1> QED BY <1>2, <1>10, <1>11 DEF n

(* What holds of the elements of all parts holds of those it makes.        *)
LEMMA FlattenElements ==
    ASSUME NEW S, NEW parts, Listed(parts), \A i \in 1..Len(parts) : parts[i] \in Seq(S)
    PROVE  FlattenSeq(parts) \in Seq(S)
<1> DEFINE T == Seq(S)
<1>1. /\ <<>> \in T
      /\ \A x, y \in T : x \o y \in T
      /\ \A x \in T : Listed(x)
  BY DEF Listed
<1>2. parts \in Seq(T)
  <2>1. Len(parts) \in Nat /\ parts = [i \in 1..Len(parts) |-> parts[i]]
    BY ListedFacts
  <2> HIDE DEF T
  <2>2. \A i \in 1..Len(parts) : parts[i] \in T
    BY DEF T
  <2> QED BY <2>1, <2>2
<1> HIDE DEF T
<1>3. CASE parts = <<>>
  BY <1>1, <1>3 DEF FlattenSeq, T
<1>4. CASE parts # <<>>
  <2>1. PICK f \in [0..Len(parts) -> T] : FlattenSeq(parts) = f[Len(parts)]
    BY <1>1, <1>2, <1>4, FlattenInOrder
  <2>2. Len(parts) \in 0..Len(parts)
    BY ListedFacts
  <2> QED BY <2>1, <2>2 DEF T
<1> QED BY <1>3, <1>4

(* Where the elements of s come from, when it joins the first n parts: each *)
(* element of them is at one place.                                        *)
Spread(s, parts, n, from) ==
    /\ Listed(s) /\ from \in [1..Len(s) -> Nat \X Nat]
    /\ \A k \in 1..Len(s) : /\ from[k][1] \in 1..n /\ from[k][2] \in 1..Len(parts[from[k][1]])
                            /\ s[k] = parts[from[k][1]][from[k][2]]
    /\ \A j, k \in 1..Len(s) : from[j] = from[k] => j = k
    /\ \A i \in 1..n : \A j \in 1..Len(parts[i]) : \E k \in 1..Len(s) : from[k] = <<i, j>>

(* In the order of the parts. *)
PartByPart(s, from) == \A j, k \in 1..Len(s) : j < k => from[j][1] <= from[k][1]

LEMMA SpreadFurther ==
    ASSUME NEW n \in Nat, NEW parts, \A i \in 1..n + 1 : Listed(parts[i]),
           NEW s, NEW from, Spread(s, parts, n, from), PartByPart(s, from)
    PROVE  \E more : Spread(s \o parts[n + 1], parts, n + 1, more) /\ PartByPart(s \o parts[n + 1], more)
<1> DEFINE m == n + 1
           t == parts[m]
           b == s \o t
           more == [k \in 1..Len(b) |-> IF k <= Len(s) THEN from[k] ELSE <<m, k - Len(s)>>]
<1>1. Listed(s) /\ Listed(t) /\ Len(s) \in Nat /\ Len(t) \in Nat
  BY ListedFacts DEF Spread
<1> HIDE DEF t
<1>2. Joins(b, s, t)
  BY <1>1, Joining
<1> HIDE DEF b
<1>3. Len(b) = Len(s) + Len(t) /\ Listed(b)
  BY <1>2 DEF Joins
<1>4. /\ \A k \in 1..Len(s) : k \in 1..Len(b) /\ more[k] = from[k] /\ b[k] = s[k]
      /\ \A j \in 1..Len(t) : Len(s) + j \in 1..Len(b) /\ more[Len(s) + j] = <<m, j>> /\ b[Len(s) + j] = t[j]
  <2>1. ASSUME NEW k \in 1..Len(s) PROVE k \in 1..Len(b) /\ more[k] = from[k] /\ b[k] = s[k]
    BY <1>1, <1>2, <1>3 DEF Joins
  <2>2. ASSUME NEW j \in 1..Len(t)
        PROVE  Len(s) + j \in 1..Len(b) /\ more[Len(s) + j] = <<m, j>> /\ b[Len(s) + j] = t[j]
    <3>1. Len(s) + j \in 1..Len(b) /\ ~ (Len(s) + j <= Len(s)) /\ (Len(s) + j) - Len(s) = j
      BY <1>1, <1>3
    <3> QED BY <1>2, <3>1 DEF Joins
  <2> QED BY <2>1, <2>2
<1>5. \A k \in 1..Len(b) : k \in 1..Len(s) \/ \E j \in 1..Len(t) : k = Len(s) + j
  <2> SUFFICES ASSUME NEW k \in 1..Len(b), k \notin 1..Len(s) PROVE \E j \in 1..Len(t) : k = Len(s) + j
    OBVIOUS
  <2>1. k - Len(s) \in 1..Len(t) /\ k = Len(s) + (k - Len(s))
    BY <1>1, <1>3
  <2> QED BY <2>1
<1>6. \A k \in 1..Len(s) : from[k] \in Nat \X Nat /\ from[k][1] \in 1..n /\ from[k] # <<m, from[k][2]>>
  <2> SUFFICES ASSUME NEW k \in 1..Len(s) PROVE from[k] \in Nat \X Nat /\ from[k][1] \in 1..n /\ from[k] # <<m, from[k][2]>>
    OBVIOUS
  <2>1. from[k] \in Nat \X Nat /\ from[k][1] \in 1..n
    BY DEF Spread
  <2>2. <<m, from[k][2]>>[1] = m /\ m \notin 1..n
    OBVIOUS
  <2> QED BY <2>1, <2>2
<1>7. more \in [1..Len(b) -> Nat \X Nat]
  <2>1. ASSUME NEW k \in 1..Len(b) PROVE more[k] \in Nat \X Nat
    <3>1. CASE k \in 1..Len(s)
      BY <1>4, <1>6, <3>1
    <3>2. ASSUME NEW j \in 1..Len(t), k = Len(s) + j PROVE more[k] \in Nat \X Nat
      BY <1>4, <3>2
    <3> QED BY <1>5, <3>1, <3>2
  <2>2. more = [k \in 1..Len(b) |-> more[k]]
    OBVIOUS
  <2> HIDE DEF more
  <2> QED BY <2>1, <2>2
<1> HIDE DEF more
<1>8. ASSUME NEW k \in 1..Len(b)
      PROVE  /\ more[k][1] \in 1..m /\ more[k][2] \in 1..Len(parts[more[k][1]])
             /\ b[k] = parts[more[k][1]][more[k][2]]
  <2>1. CASE k \in 1..Len(s)
    BY <1>4, <2>1 DEF Spread
  <2>2. ASSUME NEW j \in 1..Len(t), k = Len(s) + j
        PROVE  /\ more[k][1] \in 1..m /\ more[k][2] \in 1..Len(parts[more[k][1]])
               /\ b[k] = parts[more[k][1]][more[k][2]]
    <3>1. more[k][1] = m /\ more[k][2] = j /\ b[k] = t[j]
      BY <1>4, <2>2
    <3> QED BY <3>1 DEF t
  <2> QED BY <1>5, <2>1, <2>2
<1>9. ASSUME NEW j \in 1..Len(b), NEW k \in 1..Len(b), more[j] = more[k] PROVE j = k
  <2>1. ASSUME NEW x \in 1..Len(s), NEW y \in 1..Len(t) PROVE more[x] # more[Len(s) + y]
    <3>1. more[x] = from[x] /\ more[Len(s) + y] = <<m, y>>
      BY <1>4
    <3>2. from[x] = <<m, y>> => from[x][2] = y
      OBVIOUS
    <3> QED BY <1>6, <3>1, <3>2
  <2>2. ASSUME NEW x \in 1..Len(t), NEW y \in 1..Len(t), more[Len(s) + x] = more[Len(s) + y] PROVE x = y
    <3>1. <<m, x>> = <<m, y>>
      BY <1>4, <2>2
    <3> QED BY <3>1
  <2>3. CASE j \in 1..Len(s) /\ k \in 1..Len(s)
    BY <1>4, <1>9, <2>3 DEF Spread
  <2>4. CASE j \in 1..Len(s) /\ k \notin 1..Len(s)
    BY <1>5, <1>9, <2>1, <2>4
  <2>5. CASE j \notin 1..Len(s) /\ k \in 1..Len(s)
    BY <1>5, <1>9, <2>1, <2>5
  <2>6. CASE j \notin 1..Len(s) /\ k \notin 1..Len(s)
    BY <1>5, <1>9, <2>2, <2>6
  <2> QED BY <2>3, <2>4, <2>5, <2>6
<1>10. ASSUME NEW i \in 1..m, NEW j \in 1..Len(parts[i]) PROVE \E k \in 1..Len(b) : more[k] = <<i, j>>
  <2>1. CASE i = m
    BY <1>4, <2>1 DEF t
  <2>2. CASE i # m
    <3>1. i \in 1..n
      BY <2>2
    <3>2. PICK k \in 1..Len(s) : from[k] = <<i, j>>
      BY <3>1 DEF Spread
    <3> QED BY <1>4, <3>2
  <2> QED BY <2>1, <2>2
<1>11. ASSUME NEW j \in 1..Len(b), NEW k \in 1..Len(b), j < k PROVE more[j][1] <= more[k][1]
  <2>1. \A x \in 1..Len(s) : more[x][1] = from[x][1] /\ more[x][1] \in 1..n
    BY <1>4, <1>6
  <2>2. \A x \in 1..Len(t) : more[Len(s) + x][1] = m
    BY <1>4
  <2>3. CASE j \in 1..Len(s) /\ k \in 1..Len(s)
    BY <1>11, <2>1, <2>3 DEF PartByPart
  <2>4. CASE j \in 1..Len(s) /\ k \notin 1..Len(s)
    <3>1. more[k][1] = m /\ more[j][1] \in 1..n
      BY <1>5, <2>1, <2>2, <2>4
    <3> QED BY <3>1
  <2>5. CASE j \notin 1..Len(s)
    <3>1. k \notin 1..Len(s)
      BY <1>1, <1>3, <1>11, <2>5
    <3>2. PICK x \in 1..Len(t), y \in 1..Len(t) : j = Len(s) + x /\ k = Len(s) + y
      BY <1>5, <2>5, <3>1
    <3>3. more[j][1] = m /\ more[k][1] = m
      BY <2>2, <3>2
    <3> QED BY <3>3
  <2> QED BY <2>3, <2>4, <2>5
<1>12. Spread(b, parts, m, more) /\ PartByPart(b, more)
  BY <1>3, <1>7, <1>8, <1>9, <1>10, <1>11 DEF Spread, PartByPart
<1> QED BY <1>12 DEF b, t

LEMMA FlattenSpreads ==
    ASSUME NEW parts, Listed(parts), \A i \in 1..Len(parts) : Listed(parts[i])
    PROVE  \E from : Spread(FlattenSeq(parts), parts, Len(parts), from) /\ PartByPart(FlattenSeq(parts), from)
<1> DEFINE Good(i) == {parts[i][j] : j \in 1..Len(parts[i])}
           S == UNION {Good(i) : i \in 1..Len(parts)}
           T == Seq(S)
<1>1. /\ <<>> \in T
      /\ \A x, y \in T : x \o y \in T
      /\ \A x \in T : Listed(x)
  <2> HIDE DEF S
  <2>1. <<>> \in T /\ \A x, y \in T : x \o y \in T
    OBVIOUS
  <2>2. \A x \in T : Listed(x)
    BY DEF Listed
  <2> QED BY <2>1, <2>2
<1>2. parts \in Seq(T) /\ Len(parts) \in Nat
  <2>1. Len(parts) \in Nat /\ parts = [i \in 1..Len(parts) |-> parts[i]]
    BY ListedFacts
  <2>2. ASSUME NEW i \in 1..Len(parts) PROVE parts[i] \in T
    <3>1. Len(parts[i]) \in Nat /\ parts[i] = [j \in 1..Len(parts[i]) |-> parts[i][j]]
      BY ListedFacts
    <3>2. \A j \in 1..Len(parts[i]) : parts[i][j] \in S
      OBVIOUS
    <3> HIDE DEF S
    <3> QED BY <3>1, <3>2
  <2> HIDE DEF T
  <2> QED BY <2>1, <2>2
<1> HIDE DEF T
<1>3. CASE parts = <<>>
  <2>1. FlattenSeq(parts) = <<>> /\ Len(parts) = 0
    BY <1>3 DEF FlattenSeq
  <2>2. <<>> \in [1..0 -> Nat \X Nat] /\ Listed(<<>>) /\ Len(<<>>) = 0 /\ 1..0 = {}
    BY OneListed
  <2>3. Spread(<<>>, parts, 0, <<>>) /\ PartByPart(<<>>, <<>>)
    BY <2>2 DEF Spread, PartByPart
  <2> QED BY <2>1, <2>3
<1>4. CASE parts # <<>>
  <2>1. PICK f \in [0..Len(parts) -> T] : JoinsUp(f, parts) /\ FlattenSeq(parts) = f[Len(parts)]
    BY <1>1, <1>2, <1>4, FlattenInOrder
  <2> DEFINE Open == {i \in 0..Len(parts) : ~ \E from : Spread(f[i], parts, i, from) /\ PartByPart(f[i], from)}
  <2>2. Open = {}
    <3> SUFFICES ASSUME Open # {} PROVE FALSE
      OBVIOUS
    <3>1. PICK i \in Open : \A k \in Open : i <= k
      <4> Open \in SUBSET Nat
        OBVIOUS
      <4> HIDE DEF Open
      <4> QED BY LeastNumber
    <3>2. CASE i = 0
      <4>1. f[0] = <<>>
        BY <2>1 DEF JoinsUp
      <4>2. <<>> \in [1..0 -> Nat \X Nat] /\ Listed(<<>>) /\ Len(<<>>) = 0 /\ 1..0 = {}
        BY OneListed
      <4>3. Spread(<<>>, parts, 0, <<>>) /\ PartByPart(<<>>, <<>>)
        BY <4>2 DEF Spread, PartByPart
      <4> QED BY <3>1, <3>2, <4>1, <4>3
    <3>3. CASE i # 0
      <4>1. i - 1 \in Nat /\ i - 1 \in 0..Len(parts) /\ ~ (i <= i - 1) /\ i \in 1..Len(parts) /\ (i - 1) + 1 = i
        BY <1>2, <3>1, <3>3
      <4>2. PICK from : Spread(f[i - 1], parts, i - 1, from) /\ PartByPart(f[i - 1], from)
        BY <3>1, <4>1
      <4>3. f[i] = f[i - 1] \o parts[i]
        BY <2>1, <4>1 DEF JoinsUp
      <4>4. PICK h : h = i - 1
        OBVIOUS
      <4>5. h \in Nat /\ h + 1 = i /\ Spread(f[h], parts, h, from) /\ PartByPart(f[h], from) /\ \A k \in 1..h + 1 : Listed(parts[k])
        BY <1>2, <4>1, <4>2, <4>4
      <4>6. \E more : Spread(f[h] \o parts[h + 1], parts, h + 1, more) /\ PartByPart(f[h] \o parts[h + 1], more)
        BY <4>5, SpreadFurther
      <4> QED BY <3>1, <4>3, <4>4, <4>5, <4>6
    <3> QED BY <3>2, <3>3
  <2>3. Len(parts) \in 0..Len(parts)
    BY <1>2
  <2> QED BY <2>1, <2>2, <2>3
<1> QED BY <1>3, <1>4

ComesFrom(x, parts) == \E i \in 1..Len(parts) : \E j \in 1..Len(parts[i]) : x = parts[i][j]

LEMMA FlattenFrom ==
    ASSUME NEW parts, Listed(parts), \A i \in 1..Len(parts) : Listed(parts[i]),
           NEW s, s = FlattenSeq(parts), NEW k \in 1..Len(s)
    PROVE  ComesFrom(s[k], parts)
<1>1. PICK from : Spread(s, parts, Len(parts), from)
  BY FlattenSpreads
<1> QED BY SMTT(30), <1>1 DEF Spread, ComesFrom

(* A part that moves to an earlier one, past empty ones, stays in place.   *)
Moves(moved, parts, into, from) ==
    /\ Listed(parts) /\ \A i \in 1..Len(parts) : Listed(parts[i])
    /\ into \in 1..Len(parts) /\ from \in 1..Len(parts) /\ into < from
    /\ \A i \in 1..Len(parts) : into < i /\ i < from => parts[i] = <<>>
    /\ Listed(moved) /\ Len(moved) = Len(parts)
    /\ \A i \in 1..Len(parts) : moved[i] = IF i = into THEN parts[into] \o parts[from]
                                            ELSE IF i = from THEN <<>> ELSE parts[i]

LEMMA FlattenMoved ==
    ASSUME NEW parts, NEW moved, NEW into, NEW from, Moves(moved, parts, into, from)
    PROVE  FlattenSeq(moved) = FlattenSeq(parts)
<1> USE DEF Moves
<1> DEFINE Good(i) == {parts[i][j] : j \in 1..Len(parts[i])}
           S == UNION {Good(i) : i \in 1..Len(parts)}
           T == Seq(S)
           n == Len(parts)
<1>1. /\ <<>> \in T
      /\ \A x, y \in T : x \o y \in T
      /\ \A x \in T : Listed(x)
  <2> HIDE DEF S
  <2>1. <<>> \in T /\ \A x, y \in T : x \o y \in T
    OBVIOUS
  <2>2. \A x \in T : Listed(x)
    BY DEF Listed
  <2> QED BY <2>1, <2>2
<1>2. /\ n \in Nat /\ parts = [i \in 1..n |-> parts[i]] /\ moved = [i \in 1..n |-> moved[i]]
      /\ \A i \in 1..n : parts[i] \in T
  <2>1. n \in Nat /\ parts = [i \in 1..n |-> parts[i]] /\ moved = [i \in 1..n |-> moved[i]]
    BY ListedFacts
  <2>2. ASSUME NEW i \in 1..n PROVE parts[i] \in T
    <3>1. Len(parts[i]) \in Nat /\ parts[i] = [j \in 1..Len(parts[i]) |-> parts[i][j]]
      BY ListedFacts
    <3>2. \A j \in 1..Len(parts[i]) : parts[i][j] \in S
      OBVIOUS
    <3> HIDE DEF S
    <3> QED BY <3>1, <3>2
  <2> QED BY <2>1, <2>2
<1> HIDE DEF T, n
<1>3. into \in 1..n /\ from \in 1..n /\ Len(moved) = n /\ Len(parts) = n
  BY DEF n
<1>4. \A i \in 1..n : moved[i] \in T
  BY <1>1, <1>2, <1>3
<1>5. parts \in Seq(T) /\ moved \in Seq(T)
  <2>1. parts \in Seq(T)
    <3>1. n \in Nat /\ parts = [i \in 1..n |-> parts[i]] /\ \A i \in 1..n : parts[i] \in T
      BY <1>2
    <3>2. parts \in [1..n -> T]
      BY <3>1
    <3> QED BY <3>1, <3>2
  <2>2. moved \in Seq(T)
    <3>1. n \in Nat /\ moved = [i \in 1..n |-> moved[i]] /\ \A i \in 1..n : moved[i] \in T
      BY <1>2, <1>4
    <3>2. moved \in [1..n -> T]
      BY <3>1
    <3> QED BY <3>1, <3>2
  <2> QED BY <2>1, <2>2
<1>6. parts # <<>> /\ moved # <<>>
  <2>1. Len(<<>>) = 0 /\ n # 0
    BY <1>3
  <2> QED BY <1>3, <2>1
<1>7. PICK f \in [0..n -> T] : JoinsUp(f, parts) /\ FlattenSeq(parts) = f[n]
  BY SMTT(30), <1>1, <1>3, <1>5, <1>6, FlattenInOrder
<1>8. PICK g \in [0..n -> T] : JoinsUp(g, moved) /\ FlattenSeq(moved) = g[n]
  <2>1. \E g \in [0..Len(moved) -> T] : JoinsUp(g, moved) /\ FlattenSeq(moved) = g[Len(moved)]
    BY <1>1, <1>5, <1>6, FlattenInOrder
  <2> QED BY <1>3, <2>1
<1>9. f[0] = <<>> /\ g[0] = <<>> /\ \A i \in 1..n : f[i] = f[i - 1] \o parts[i] /\ g[i] = g[i - 1] \o moved[i]
  BY <1>3, <1>7, <1>8 DEF JoinsUp
<1>10. /\ \A i \in 1..n : moved[i] = IF i = into THEN parts[into] \o parts[from]
                                   ELSE IF i = from THEN <<>> ELSE parts[i]
      /\ \A i \in 1..n : into < i /\ i < from => parts[i] = <<>>
  BY DEF n
<1> DEFINE Like(i) == g[i] = IF into <= i /\ i < from THEN f[i] \o parts[from] ELSE f[i]
           Open == {i \in 0..n : ~ Like(i)}
<1>11. Open = {}
  <2> SUFFICES ASSUME Open # {} PROVE FALSE
    OBVIOUS
  <2>1. PICK i \in Open : \A k \in Open : i <= k
    <3> Open \in SUBSET Nat
      OBVIOUS
    <3> HIDE DEF Open
    <3> QED BY LeastNumber
  <2>2. CASE i = 0
    BY <1>3, <1>9, <2>1, <2>2
  <2>3. CASE i # 0
    <3>1. i \in 1..n /\ i - 1 \in 0..n /\ ~ (i <= i - 1)
      BY <1>2, <2>1, <2>3
    <3>2. Like(i - 1)
      BY <2>1, <3>1
    <3>3. PICK p, q, w, x, y, z : /\ p = f[i - 1] /\ q = parts[i] /\ w = parts[from]
                                  /\ x = g[i - 1] /\ y = moved[i] /\ z = f[i]
      OBVIOUS
    <3>4. Listed(p) /\ Listed(q) /\ Listed(w)
      BY <1>1, <1>2, <1>3, <3>1, <3>3
    <3>5. z = p \o q /\ g[i] = x \o y
      BY <1>9, <3>1, <3>3
    <3>6. /\ (p \o q) \o w = p \o (q \o w) /\ p \o <<>> = p
          /\ (p \o w) \o <<>> = p \o w /\ p \o w = p \o (<<>> \o w)
      <4>2. (p \o q) \o w = p \o (q \o w)
        <5>1. Associates(p, q, w)
          BY <3>4, JoinAssociates
        <5> QED BY <5>1 DEF Associates
      <4>3. p \o <<>> = p /\ w \o <<>> = w /\ <<>> \o w = w
        BY <3>4, NothingJoined
      <4>4. (p \o w) \o <<>> = p \o w
        <5>1. Associates(p, w, <<>>)
          BY <3>4, OneListed, JoinAssociates
        <5> QED BY <4>3, <5>1 DEF Associates
      <4> QED BY <4>2, <4>3, <4>4
    <3>7. CASE i < into
      <4>1. y = q
        <5>1. i \in 1..n /\ into \in 1..n /\ from \in 1..n
          BY <1>3, <3>1
        <5> QED BY <1>10, <3>3, <3>7, <5>1
      <4>2. x = p
        BY <1>3, <3>1, <3>2, <3>3, <3>7
      <4>3. g[i] = z
        BY <3>5, <4>1, <4>2
      <4> QED BY <1>3, <2>1, <3>1, <3>3, <3>7, <4>3
    <3>8. CASE i = into
      <4>1. y = q \o w
        <5>1. i \in 1..n /\ into \in 1..n /\ from \in 1..n
          BY <1>3, <3>1
        <5> QED BY <1>10, <3>3, <3>8, <5>1
      <4>2. x = p
        BY <1>3, <3>1, <3>2, <3>3, <3>8
      <4>3. g[i] = z \o w
        BY <3>5, <3>6, <4>1, <4>2
      <4> QED BY <1>3, <2>1, <3>1, <3>3, <3>8, <4>3
    <3>9. CASE into < i /\ i < from
      <4>1. y = <<>> /\ q = <<>>
        <5>1. i \in 1..n /\ into \in 1..n /\ from \in 1..n
          BY <1>3, <3>1
        <5> QED BY <1>10, <3>3, <3>9, <5>1
      <4>2. x = p \o w
        BY <1>3, <3>1, <3>2, <3>3, <3>9
      <4>3. g[i] = z \o w
        BY <3>5, <3>6, <4>1, <4>2
      <4> QED BY <1>3, <2>1, <3>1, <3>3, <3>9, <4>3
    <3>10. CASE i = from
      <4>1. y = <<>> /\ q = w
        <5>1. i \in 1..n /\ into \in 1..n /\ from \in 1..n
          BY <1>3, <3>1
        <5> QED BY <1>10, <3>3, <3>10, <5>1
      <4>2. x = p \o w
        BY <1>3, <3>1, <3>2, <3>3, <3>10
      <4>3. g[i] = z
        BY <3>5, <3>6, <4>1, <4>2
      <4> QED BY <1>3, <2>1, <3>1, <3>3, <3>10, <4>3
    <3>11. CASE from < i
      <4>1. y = q
        <5>1. i \in 1..n /\ into \in 1..n /\ from \in 1..n
          BY <1>3, <3>1
        <5> QED BY <1>10, <3>3, <3>11, <5>1
      <4>2. x = p
        BY <1>3, <3>1, <3>2, <3>3, <3>11
      <4>3. g[i] = z
        BY <3>5, <4>1, <4>2
      <4> QED BY <1>3, <2>1, <3>1, <3>3, <3>11, <4>3
    <3> QED BY <1>3, <3>1, <3>7, <3>8, <3>9, <3>10, <3>11
  <2> QED BY <2>2, <2>3
<1>12. g[n] = f[n]
  <2>1. n \in 0..n /\ ~ (n < from)
    BY <1>2, <1>3
  <2> QED BY <1>11, <2>1
<1> QED BY <1>7, <1>8, <1>12

(* Different elements are as many as their set has. *)
LEMMA DistinctLength ==
    ASSUME NEW s, Listed(s), \A j, k \in 1..Len(s) : s[j] = s[k] => j = k
    PROVE  Len(s) = Cardinality({s[i] : i \in DOMAIN s})
<1> DEFINE n == Len(s)
           T == {s[i] : i \in 1..n}
<1>1. n \in Nat /\ DOMAIN s = 1..n /\ s = [i \in 1..n |-> s[i]]
  BY ListedFacts
<1> HIDE DEF n
<1>2. s \in [1..n -> T]
  <2>1. \A i \in 1..n : s[i] \in T
    OBVIOUS
  <2> HIDE DEF T
  <2> QED BY <1>1, <2>1
<1>3. s \in Injection(1..n, T)
  BY <1>1, <1>2 DEF Injection, IsInjective, n
<1>4. s \in Surjection(1..n, T)
  BY <1>2 DEF Surjection
<1>5. ExistsBijection(1..n, T)
  BY <1>3, <1>4 DEF Bijection, ExistsBijection
<1>6. Cardinality(T) = n
  BY <1>1, <1>5, FS_CountingElements
<1> QED BY <1>1, <1>6 DEF n

(* Parts that share no element keep all of them, each once. *)
LEMMA FlattenDistinct ==
    ASSUME NEW parts, Listed(parts), \A i \in 1..Len(parts) : Listed(parts[i]),
           \A i, k \in 1..Len(parts) : \A j \in 1..Len(parts[i]), m \in 1..Len(parts[k]) :
               parts[i][j] = parts[k][m] => i = k /\ j = m,
           NEW s, s = FlattenSeq(parts)
    PROVE  /\ \A x : x \in ToSet(s) <=> \E i \in 1..Len(parts) : x \in ToSet(parts[i])
           /\ Len(s) = Cardinality(ToSet(s))
<1> DEFINE n == Len(parts)
<1>1. PICK from : Spread(s, parts, n, from)
  BY FlattenSpreads
<1>2. Listed(s) /\ DOMAIN s = 1..Len(s) /\ \A i \in 1..n : DOMAIN parts[i] = 1..Len(parts[i])
  BY <1>1, ListedFacts DEF Spread
<1> HIDE DEF n
<1>3. ASSUME NEW k \in 1..Len(s) PROVE \E i \in 1..n : s[k] \in ToSet(parts[i])
  <2>1. from[k][1] \in 1..n /\ from[k][2] \in 1..Len(parts[from[k][1]]) /\ s[k] = parts[from[k][1]][from[k][2]]
    BY <1>1 DEF Spread
  <2> QED BY <1>2, <2>1 DEF ToSet
<1>4. ASSUME NEW i \in 1..n, NEW x \in ToSet(parts[i]) PROVE x \in ToSet(s)
  <2>1. PICK j \in 1..Len(parts[i]) : x = parts[i][j]
    BY <1>2 DEF ToSet
  <2>2. PICK k \in 1..Len(s) : from[k] = <<i, j>>
    BY <1>1 DEF Spread
  <2>3. s[k] = x
    BY <1>1, <2>1, <2>2 DEF Spread
  <2> QED BY <1>2, <2>3 DEF ToSet
<1>5. ASSUME NEW j \in 1..Len(s), NEW k \in 1..Len(s), s[j] = s[k] PROVE j = k
  <2>1. from[j] \in Nat \X Nat /\ from[k] \in Nat \X Nat
    BY <1>1 DEF Spread
  <2>2. /\ from[j][1] \in 1..n /\ from[j][2] \in 1..Len(parts[from[j][1]]) /\ s[j] = parts[from[j][1]][from[j][2]]
        /\ from[k][1] \in 1..n /\ from[k][2] \in 1..Len(parts[from[k][1]]) /\ s[k] = parts[from[k][1]][from[k][2]]
    BY <1>1 DEF Spread
  <2>3. from[j][1] = from[k][1] /\ from[j][2] = from[k][2]
    <3>1. PICK a, b, c, d : a = from[j][1] /\ b = from[j][2] /\ c = from[k][1] /\ d = from[k][2]
      OBVIOUS
    <3>2. a \in 1..n /\ c \in 1..n /\ b \in 1..Len(parts[a]) /\ d \in 1..Len(parts[c])
      BY <2>2, <3>1
    <3>3. parts[a][b] = parts[c][d]
      BY <1>5, <2>2, <3>1
    <3>4. a = c /\ b = d
      BY <3>2, <3>3 DEF n
    <3> QED BY <3>1, <3>4
  <2>4. from[j] = from[k]
    BY <2>1, <2>3
  <2> QED BY <1>1, <2>4 DEF Spread
<1>6. Len(s) = Cardinality(ToSet(s))
  BY <1>2, <1>5, DistinctLength DEF ToSet
<1>7. ASSUME NEW x PROVE x \in ToSet(s) <=> \E i \in 1..n : x \in ToSet(parts[i])
  <2>1. x \in ToSet(s) => \E k \in 1..Len(s) : x = s[k]
    BY <1>2 DEF ToSet
  <2> QED BY <1>3, <1>4, <2>1
<1> QED BY <1>6, <1>7 DEF n

(* Of some things one has the least number. *)
LEMMA LeastOf ==
    ASSUME NEW S, S # {}, NEW f, \A x \in S : f[x] \in Nat
    PROVE  \E x \in S : \A y \in S : f[x] <= f[y]
<1> DEFINE T == {f[x] : x \in S}
<1>1. T \in SUBSET Nat /\ T # {}
  OBVIOUS
<1> HIDE DEF T
<1>2. PICK t \in T : \A u \in T : t <= u
  BY <1>1, LeastNumber
<1>3. PICK x \in S : t = f[x]
  BY DEF T
<1>4. \A y \in S : f[y] \in T
  BY DEF T
<1> QED BY <1>2, <1>3, <1>4

LEMMA GreatestUpTo ==
    ASSUME NEW n \in Nat, NEW S \in SUBSET (0..n), S # {}
    PROVE  Max(S) \in S /\ \A y \in S : y <= Max(S)
<1> DEFINE f == [x \in S |-> n - x]
<1>1. \A x \in S : f[x] \in Nat
  OBVIOUS
<1>2. PICK x \in S : \A y \in S : f[x] <= f[y]
  <2> HIDE DEF f
  <2> QED BY <1>1, LeastOf
<1>3. \A y \in S : x >= y
  BY <1>2
<1> QED BY <1>3 DEF Max

LEMMA GreatestOf ==
    ASSUME NEW n \in Nat, NEW S \in SUBSET (1..n), S # {}
    PROVE  Max(S) \in S /\ \A y \in S : y <= Max(S)
<1>1. S \in SUBSET (0..n)
  OBVIOUS
<1> QED BY <1>1, GreatestUpTo

(* The elements of a finite set in some order, each once. *)
Enumerates(q, S) ==
    /\ q \in Seq(S) /\ \A x \in S : \E k \in 1..Len(q) : q[k] = x
    /\ \A j, k \in 1..Len(q) : q[j] = q[k] => j = k

LEMMA SetInOrder ==
    ASSUME NEW S, IsFiniteSet(S)
    PROVE  Enumerates(SetToSeq(S), S)
<1> DEFINE n == Cardinality(S)
           q == SetToSeq(S)
<1>1. n \in Nat /\ ExistsBijection(1..n, S)
  BY FS_CardinalityType
<1> HIDE DEF n
<1>2. q \in [1..n -> S] /\ IsInjective(q)
  <2>1. \E f \in [1..n -> S] : IsInjective(f)
    BY <1>1 DEF ExistsBijection, Bijection, Injection
  <2> QED BY <2>1 DEF SetToSeq, n
<1>3. IsFiniteSet(1..n) /\ Cardinality(1..n) = n
  BY <1>1, UpTo
<1> HIDE DEF q
<1>4. q \in Injection(1..n, S) /\ q \in Surjection(1..n, S)
  <2>1. q \in Injection(1..n, S)
    BY <1>2 DEF Injection
  <2> QED BY <1>1, <1>3, <2>1, FS_Injection DEF n
<1>5. q \in Seq(S) /\ Len(q) = n
  BY <1>1, <1>2
<1>6. \A x \in S : \E k \in 1..n : q[k] = x
  BY <1>4 DEF Surjection
<1>7. \A j, k \in 1..n : q[j] = q[k] => j = k
  BY <1>2 DEF IsInjective
<1>8. Enumerates(q, S)
  BY <1>5, <1>6, <1>7 DEF Enumerates
<1> QED BY <1>8 DEF q

-----------------------------------------------------------------------------
(* Sequences of the numbers from a on.                                     *)
Run(a, n) == [i \in 1..n |-> a + i - 1]

(* n different numbers from a on, in order, leave none out. *)
LEMMA SortedIsRun ==
    ASSUME NEW n \in Nat, NEW a \in Int, NEW s \in [1..n -> a..(a + n - 1)],
           \A i, j \in 1..n : i < j => s[i] <= s[j] /\ s[i] # s[j]
    PROVE  s = Run(a, n)
<1>1. ASSUME NEW x \in 1..n PROVE s[x] >= a + x - 1
  <2> SUFFICES ASSUME s[x] < a + x - 1 PROVE FALSE
    BY s[x] \in Int
  <2> DEFINE Below == {i \in 1..n : s[i] < a + i - 1}
  <2>1. PICK i \in Below : \A k \in Below : i <= k
    <3> x \in Below /\ Below \in SUBSET Nat
      OBVIOUS
    <3> HIDE DEF Below
    <3> QED BY LeastNumber
  <2>2. i - 1 \in 1..n /\ i - 1 \notin Below
    BY <2>1
  <2>3. s[i - 1] < s[i] /\ s[i - 1] >= a + (i - 1) - 1
    BY <2>1, <2>2
  <2> QED BY <2>1, <2>2, <2>3
<1>2. \A i \in 1..n : s[i] <= a + i - 1
  <2> DEFINE Above == {k \in 0..(n - 1) : s[n - k] > a + (n - k) - 1}
  <2>1. Above = {}
    <3> SUFFICES ASSUME Above # {} PROVE FALSE
      OBVIOUS
    <3>1. PICK k \in Above : \A m \in Above : k <= m
      <4> Above \in SUBSET Nat
        OBVIOUS
      <4> HIDE DEF Above
      <4> QED BY LeastNumber
    <3>2. n - k \in 1..n /\ s[n - k] \in a..(a + n - 1)
      BY <3>1
    <3>3. k # 0
      BY <3>1, <3>2
    <3>4. k - 1 \in 0..(n - 1) /\ k - 1 \notin Above /\ n - (k - 1) \in 1..n
      <4>1. k \in 1..(n - 1)
        BY <3>1, <3>3
      <4>2. k - 1 \in 0..(n - 1) /\ n - (k - 1) \in 1..n /\ ~ (k <= k - 1)
        BY <4>1
      <4> QED BY <4>2, <3>1
    <3>5. s[n - k] < s[n - (k - 1)]
      BY <3>2, <3>4
    <3>6. s[n - (k - 1)] <= a + (n - (k - 1)) - 1
      BY <3>4
    <3> QED BY <3>1, <3>2, <3>4, <3>5, <3>6
  <2>2. ASSUME NEW i \in 1..n PROVE s[i] <= a + i - 1
    <3>1. n - i \in 0..(n - 1) /\ n - (n - i) = i
      OBVIOUS
    <3>2. ~ (s[n - (n - i)] > a + (n - (n - i)) - 1)
      BY <2>1, <3>1
    <3> QED BY <3>1, <3>2
  <2> QED BY <2>2
<1>3. \A i \in 1..n : s[i] = a + i - 1
  BY <1>1, <1>2
<1> QED BY <1>3 DEF Run

(* They can be put in order. *)
LEMMA RunCanBeSorted ==
    ASSUME NEW n \in Nat, NEW a \in Int, NEW s \in Bijection(1..n, a..(a + n - 1))
    PROVE  \E f \in Bijection(1..n, 1..n) : \A i, j \in 1..n : i < j => s[f[i]] <= s[f[j]]
<1> DEFINE f == [i \in 1..n |-> CHOOSE k \in 1..n : s[k] = a + i - 1]
<1>1. ASSUME NEW i \in 1..n PROVE f[i] \in 1..n /\ s[f[i]] = a + i - 1
  <2>1. \E k \in 1..n : s[k] = a + i - 1
    BY DEF Bijection, Surjection
  <2> QED BY <2>1
<1>2. s \in [1..n -> a..(a + n - 1)] /\ \A i, j \in 1..n : s[i] = s[j] => i = j
  BY DEF Bijection, Injection, IsInjective
<1>3. f \in [1..n -> 1..n]
  BY <1>1
<1> HIDE DEF f
<1>4. f \in Injection(1..n, 1..n)
  <2>1. ASSUME NEW i \in 1..n, NEW j \in 1..n, f[i] = f[j] PROVE i = j
    <3>1. a + i - 1 = a + j - 1
      BY <1>1, <2>1
    <3> QED BY <3>1
  <2> QED BY <2>1, <1>3 DEF Injection, IsInjective
<1>5. \A k \in 1..n : \E i \in 1..n : f[i] = k
  <2> SUFFICES ASSUME NEW k \in 1..n PROVE \E i \in 1..n : f[i] = k
    OBVIOUS
  <2>1. s[k] \in a..(a + n - 1)
    BY <1>2
  <2>2. s[k] - a + 1 \in 1..n /\ a + (s[k] - a + 1) - 1 = s[k]
    BY <2>1
  <2>3. f[s[k] - a + 1] = k
    BY <1>1, <1>2, <2>2
  <2> QED BY <2>2, <2>3
<1>6. f \in Bijection(1..n, 1..n)
  BY <1>3, <1>4, <1>5 DEF Bijection, Surjection
<1> QED BY <1>1, <1>6

LEMMA RunFacts ==
    ASSUME NEW n \in Nat, NEW a \in Int
    PROVE  /\ Run(a, n) \in [1..n -> Int] /\ Run(a, n) \in Seq(Int)
           /\ DOMAIN Run(a, n) = 1..n /\ Len(Run(a, n)) = n
           /\ \A i \in 1..n : Run(a, n)[i] = a + i - 1
BY DEF Run

LEMMA RunContinues ==
    ASSUME NEW m \in Nat, NEW n \in Nat, NEW a \in Int
    PROVE  Run(a, m) \o Run(a + m, n) = Run(a, m + n)
<1> DEFINE s == Run(a, m)
           t == Run(a + m, n)
<1>1. s \in Seq(Int) /\ Len(s) = m /\ t \in Seq(Int) /\ Len(t) = n
  BY RunFacts
<1> HIDE DEF s, t
<1>2. /\ s \o t \in Seq(Int) /\ Len(s \o t) = m + n
      /\ \A i \in 1..(m + n) : (s \o t)[i] = IF i <= m THEN s[i] ELSE t[i - m]
  BY <1>1, ConcatProperties
<1>3. ASSUME NEW i \in 1..(m + n) PROVE (s \o t)[i] = Run(a, m + n)[i]
  BY <1>2 DEF Run, s, t
<1>4. Run(a, m + n) \in Seq(Int) /\ Len(Run(a, m + n)) = m + n
  BY RunFacts
<1>5. s \o t = Run(a, m + n)
  BY <1>2, <1>3, <1>4, SeqEqual
<1> QED BY <1>5 DEF s, t

(* As many elements as the numbers they are. *)
LEMMA RunLength ==
    ASSUME NEW m \in Nat, NEW a \in Int, NEW b \in Int, a <= b + 1, Bijection(1..m, a..b) # {}
    PROVE  m = b - a + 1
<1>1. IsFiniteSet(a..b) /\ Cardinality(a..b) = b - a + 1
  BY FS_Interval
<1>2. Cardinality(a..b) = m
  BY FS_CountingElements DEF ExistsBijection
<1> QED BY <1>1, <1>2
(* What flattening parts makes, step by step: after the first i of them. *)
FlatBy(f, parts, s) ==
    /\ JoinsUp(f, parts) /\ s = f[Len(parts)]
    /\ \A i \in 0..Len(parts) : Listed(f[i])

ListedParts(parts) == Listed(parts) /\ \A i \in 1..Len(parts) : Listed(parts[i])

LEMMA FlattenBy ==
    ASSUME NEW parts, ListedParts(parts)
    PROVE  \E f : FlatBy(f, parts, FlattenSeq(parts))
<1> DEFINE Good(i) == {parts[i][j] : j \in 1..Len(parts[i])}
           S == UNION {Good(i) : i \in 1..Len(parts)}
           T == Seq(S)
<1>1. /\ <<>> \in T
      /\ \A x, y \in T : x \o y \in T
      /\ \A x \in T : Listed(x)
  <2> HIDE DEF S
  <2>1. <<>> \in T /\ \A x, y \in T : x \o y \in T
    OBVIOUS
  <2>2. \A x \in T : Listed(x)
    BY DEF Listed
  <2> QED BY <2>1, <2>2
<1>2. parts \in Seq(T) /\ Len(parts) \in Nat
  <2>1. Len(parts) \in Nat /\ parts = [i \in 1..Len(parts) |-> parts[i]]
    BY ListedFacts DEF ListedParts
  <2>2. ASSUME NEW i \in 1..Len(parts) PROVE parts[i] \in T
    <3>1. Len(parts[i]) \in Nat /\ parts[i] = [j \in 1..Len(parts[i]) |-> parts[i][j]]
      BY ListedFacts DEF ListedParts
    <3>2. \A j \in 1..Len(parts[i]) : parts[i][j] \in S
      OBVIOUS
    <3> HIDE DEF S
    <3> QED BY <3>1, <3>2
  <2> HIDE DEF T
  <2> QED BY <2>1, <2>2
<1> HIDE DEF T
<1>3. CASE parts = <<>>
  <2>1. PICK f : f = [i \in 0..0 |-> <<>>]
    OBVIOUS
  <2>2. FlattenSeq(parts) = <<>> /\ Len(parts) = 0 /\ Listed(<<>>)
    BY <1>3, OneListed DEF FlattenSeq
  <2>3. JoinsUp(f, parts) /\ f[0] = <<>>
    BY <2>1, <2>2 DEF JoinsUp
  <2> QED BY <2>2, <2>3 DEF FlatBy
<1>4. CASE parts # <<>>
  <2>1. PICK f \in [0..Len(parts) -> T] : JoinsUp(f, parts) /\ FlattenSeq(parts) = f[Len(parts)]
    BY <1>1, <1>2, <1>4, FlattenInOrder
  <2>2. \A i \in 0..Len(parts) : Listed(f[i])
    BY <1>1, <2>1
  <2> QED BY <2>1, <2>2 DEF FlatBy
<1> QED BY <1>3, <1>4

LEMMA ByFlatten ==
    ASSUME NEW parts, ListedParts(parts), NEW f, NEW s, FlatBy(f, parts, s)
    PROVE  FlattenSeq(parts) = s
<1>1. PICK g : FlatBy(g, parts, FlattenSeq(parts))
  BY FlattenBy
<1>2. Len(parts) \in Nat
  BY ListedFacts DEF ListedParts
<1> DEFINE Differ == {i \in 0..Len(parts) : g[i] # f[i]}
<1>3. Differ = {}
  <2> SUFFICES ASSUME Differ # {} PROVE FALSE
    OBVIOUS
  <2>1. PICK k \in Differ : \A m \in Differ : k <= m
    <3> Differ \in SUBSET Nat
      OBVIOUS
    <3> HIDE DEF Differ
    <3> QED BY LeastNumber
  <2>2. k # 0
    BY <1>1, <2>1 DEF FlatBy, JoinsUp
  <2>3. k \in 1..Len(parts) /\ k - 1 \in 0..Len(parts) /\ ~ (k <= k - 1)
    BY <1>2, <2>1, <2>2
  <2>4. g[k - 1] = f[k - 1]
    BY <2>1, <2>3
  <2> QED BY <1>1, <2>1, <2>3, <2>4 DEF FlatBy, JoinsUp
<1>4. Len(parts) \in 0..Len(parts)
  BY <1>2
<1> QED BY <1>1, <1>3, <1>4 DEF FlatBy

(* Parts that are joined make what both make, joined. *)
LEMMA FlattenBoth ==
    ASSUME NEW s, NEW t, ListedParts(s), ListedParts(t)
    PROVE  FlattenSeq(s \o t) = FlattenSeq(s) \o FlattenSeq(t) /\ ListedParts(s \o t)
<1>1. PICK f, g : FlatBy(f, s, FlattenSeq(s)) /\ FlatBy(g, t, FlattenSeq(t))
  BY FlattenBy
<1>2. PICK m, n, b : m = Len(s) /\ n = Len(t) /\ b = s \o t
  OBVIOUS
<1>3. m \in Nat /\ n \in Nat /\ Joins(b, s, t)
  BY <1>2, ListedFacts, Joining DEF ListedParts
<1>4. PICK h : h = [i \in 0..m + n |-> IF i <= m THEN f[i] ELSE f[m] \o g[i - m]]
  OBVIOUS
<1>5. /\ f[0] = <<>> /\ \A i \in 1..m : f[i] = f[i - 1] \o s[i]
      /\ g[0] = <<>> /\ \A i \in 1..n : g[i] = g[i - 1] \o t[i]
      /\ \A i \in 0..m : Listed(f[i])
      /\ \A i \in 0..n : Listed(g[i])
      /\ FlattenSeq(s) = f[m] /\ FlattenSeq(t) = g[n]
  BY <1>1, <1>2 DEF FlatBy, JoinsUp
<1>6. /\ Len(b) = m + n
      /\ \A i \in 1..m : b[i] = s[i]
      /\ \A i \in 1..n : b[m + i] = t[i]
  BY <1>2, <1>3 DEF Joins
<1>7. \A i \in 0..n : h[m + i] = f[m] \o g[i]
  <2> SUFFICES ASSUME NEW i \in 0..n PROVE h[m + i] = f[m] \o g[i]
    OBVIOUS
  <2>1. CASE i = 0
    <3>1. h[m + i] = f[m] /\ g[i] = <<>> /\ Listed(f[m])
      BY <1>3, <1>4, <1>5, <2>1
    <3>2. PICK u : u = f[m]
      OBVIOUS
    <3>3. u \o <<>> = u
      BY <3>1, <3>2, NothingJoined
    <3> QED BY <3>1, <3>2, <3>3
  <2>2. CASE i # 0
    <3>1. m + i \in 0..m + n /\ ~ (m + i <= m) /\ (m + i) - m = i
      BY <1>3, <2>2
    <3> QED BY <1>4, <3>1
  <2> QED BY <2>1, <2>2
<1>8. h[0] = <<>> /\ \A i \in 1..m : h[i] = h[i - 1] \o b[i]
  <2>1. \A i \in 0..m : h[i] = f[i]
    BY <1>3, <1>4
  <2>2. \A i \in 1..m : i \in 0..m /\ i - 1 \in 0..m
    BY <1>3
  <2>3. 0 \in 0..m
    BY <1>3
  <2> QED BY <1>5, <1>6, <2>1, <2>2, <2>3
<1>9. \A i \in 1..n : h[m + i] = h[(m + i) - 1] \o b[m + i]
  <2> SUFFICES ASSUME NEW i \in 1..n PROVE h[m + i] = h[(m + i) - 1] \o b[m + i]
    OBVIOUS
  <2>1. PICK k : k = i - 1
    OBVIOUS
  <2>2. k \in 0..n /\ i \in 0..n /\ (m + i) - 1 = m + k /\ m \in 0..m
    BY <1>3, <2>1
  <2>3. PICK u, v, w : u = f[m] /\ v = g[k] /\ w = t[i]
    OBVIOUS
  <2>4. Listed(u) /\ Listed(v) /\ Listed(w)
    BY <1>2, <1>5, <2>2, <2>3 DEF ListedParts
  <2>5. h[m + i] = u \o (v \o w) /\ h[(m + i) - 1] = u \o v /\ b[m + i] = w
    BY <1>5, <1>6, <1>7, <2>1, <2>2, <2>3
  <2>6. (u \o v) \o w = u \o (v \o w)
    BY <2>4, JoinAssociates DEF Associates
  <2> QED BY <2>5, <2>6
<1>10. JoinsUp(h, b)
  <2> SUFFICES ASSUME NEW i \in 1..m + n PROVE h[i] = h[i - 1] \o b[i]
    BY <1>6, <1>8 DEF JoinsUp
  <2>1. CASE i <= m
    <3>1. i \in 1..m
      BY <1>3, <2>1
    <3> QED BY <1>8, <3>1
  <2>2. CASE ~ (i <= m)
    <3>1. i - m \in 1..n /\ m + (i - m) = i
      BY <1>3, <2>2
    <3> QED BY <1>9, <3>1
  <2> QED BY <2>1, <2>2
<1>11. ASSUME NEW i \in 0..m + n PROVE Listed(h[i])
  <2>1. CASE i <= m
    BY <1>3, <1>4, <1>5, <2>1
  <2>2. CASE ~ (i <= m)
    <3>1. i - m \in 0..n /\ m \in 0..m /\ h[i] = f[m] \o g[i - m]
      BY <1>3, <1>4, <2>2
    <3>2. PICK u, v : u = f[m] /\ v = g[i - m]
      OBVIOUS
    <3>3. Listed(u) /\ Listed(v)
      BY <1>5, <3>1, <3>2
    <3>4. Listed(u \o v)
      BY <3>3, Joining DEF Joins
    <3> QED BY <3>1, <3>2, <3>4
  <2> QED BY <2>1, <2>2
<1>12. ListedParts(b)
  <2> SUFFICES ASSUME NEW i \in 1..m + n PROVE Listed(b[i])
    BY <1>3, <1>6 DEF ListedParts, Joins
  <2>1. CASE i <= m
    BY <1>2, <1>3, <1>6, <2>1 DEF ListedParts
  <2>2. CASE ~ (i <= m)
    <3>1. i - m \in 1..n /\ m + (i - m) = i
      BY <1>3, <2>2
    <3> QED BY <1>2, <1>6, <3>1 DEF ListedParts
  <2> QED BY <2>1, <2>2
<1>13. PICK u : u = f[m] \o g[n]
  OBVIOUS
<1>14. u = h[m + n]
  <2>1. n \in 0..n
    BY <1>3
  <2> QED BY <1>7, <1>13, <2>1
<1>15. FlatBy(h, b, u)
  BY <1>6, <1>10, <1>11, <1>14 DEF FlatBy
<1>16. FlattenSeq(b) = u
  BY <1>12, <1>15, ByFlatten
<1> QED BY <1>2, <1>5, <1>12, <1>13, <1>16

(* When all parts but one are empty, that one is made. *)
LEMMA FlattenOnly ==
    ASSUME NEW parts, ListedParts(parts), NEW n \in 1..Len(parts),
           \A i \in 1..Len(parts) : i # n => parts[i] = <<>>
    PROVE  FlattenSeq(parts) = parts[n]
<1>1. Len(parts) \in Nat /\ Listed(parts[n])
  BY ListedFacts DEF ListedParts
<1>2. PICK p, f : p = parts[n] /\ f = [i \in 0..Len(parts) |-> IF i < n THEN <<>> ELSE p]
  OBVIOUS
<1>3. Listed(p) /\ Listed(<<>>) /\ <<>> \o p = p /\ p \o <<>> = p /\ <<>> \o <<>> = <<>>
  BY <1>1, <1>2, NothingJoined, OneListed
<1>4. ASSUME NEW i \in 1..Len(parts) PROVE f[i] = f[i - 1] \o parts[i]
  <2>1. i - 1 \in 0..Len(parts) /\ i \in 0..Len(parts)
    BY <1>1
  <2>2. CASE i < n
    <3>1. f[i] = <<>> /\ f[i - 1] = <<>> /\ parts[i] = <<>>
      BY <1>1, <1>2, <2>1, <2>2
    <3> QED BY <1>3, <3>1
  <2>3. CASE i = n
    <3>1. f[i] = p /\ f[i - 1] = <<>> /\ parts[i] = p
      BY <1>1, <1>2, <2>1, <2>3
    <3> QED BY <1>3, <3>1
  <2>4. CASE n < i
    <3>1. f[i] = p /\ f[i - 1] = p /\ parts[i] = <<>>
      BY <1>1, <1>2, <2>1, <2>4
    <3> QED BY <1>3, <3>1
  <2>5. i < n \/ i = n \/ n < i
    BY <1>1
  <2> QED BY <2>2, <2>3, <2>4, <2>5
<1>5. f[0] = <<>> /\ f[Len(parts)] = p /\ \A i \in 0..Len(parts) : Listed(f[i])
  BY <1>1, <1>2, <1>3
<1>6. FlatBy(f, parts, p)
  BY <1>4, <1>5 DEF FlatBy, JoinsUp
<1> QED BY <1>2, <1>6, ByFlatten

(* Each element replaced by what h has for it. *)
Applied(h, s) == [i \in 1..Len(s) |-> h[s[i]]]

Applies(a, h, s) == Listed(a) /\ Len(a) = Len(s) /\ \A i \in 1..Len(s) : a[i] = h[s[i]]

LEMMA AppliedFacts ==
    ASSUME NEW h, NEW s, Listed(s)
    PROVE  Applies(Applied(h, s), h, s)
<1>1. PICK a : a = Applied(h, s)
  OBVIOUS
<1>2. Len(s) \in Nat
  BY ListedFacts
<1>3. a = [i \in 1..Len(s) |-> a[i]] /\ \A i \in 1..Len(s) : a[i] = h[s[i]]
  BY <1>1 DEF Applied
<1>4. Listed(a) /\ Len(a) = Len(s)
  BY <1>2, <1>3, Listing
<1> QED BY <1>1, <1>3, <1>4 DEF Applies

LEMMA AppliedBoth ==
    ASSUME NEW h, NEW s, NEW t, Listed(s), Listed(t)
    PROVE  Applied(h, s \o t) = Applied(h, s) \o Applied(h, t)
<1>1. PICK b, x, y, z : b = s \o t /\ x = Applied(h, s) /\ y = Applied(h, t) /\ z = Applied(h, b)
  OBVIOUS
<1>2. Joins(b, s, t) /\ Len(s) \in Nat /\ Len(t) \in Nat
  BY <1>1, Joining, ListedFacts
<1>3. Listed(b)
  BY <1>2 DEF Joins
<1>4. /\ Listed(x) /\ Len(x) = Len(s) /\ \A i \in 1..Len(s) : x[i] = h[s[i]]
      /\ Listed(y) /\ Len(y) = Len(t) /\ \A i \in 1..Len(t) : y[i] = h[t[i]]
      /\ Listed(z) /\ Len(z) = Len(b) /\ \A i \in 1..Len(b) : z[i] = h[b[i]]
  <2>1. Applies(x, h, s) /\ Applies(y, h, t) /\ Applies(z, h, b)
    BY <1>1, <1>3, AppliedFacts
  <2> QED BY <2>1 DEF Applies
<1>5. PICK c : c = x \o y
  OBVIOUS
<1>6. Joins(c, x, y)
  BY <1>4, <1>5, Joining
<1>7. ASSUME NEW i \in 1..Len(z) PROVE z[i] = c[i]
  <2>1. CASE i <= Len(s)
    BY <1>2, <1>4, <1>6, <1>7, <2>1 DEF Joins
  <2>2. CASE ~ (i <= Len(s))
    <3>1. PICK k : k = i - Len(s)
      OBVIOUS
    <3>2. k \in 1..Len(t) /\ i = Len(s) + k
      BY <1>2, <1>4, <1>7, <2>2, <3>1 DEF Joins
    <3> QED BY <1>2, <1>4, <1>6, <3>2 DEF Joins
  <2> QED BY <2>1, <2>2
<1>8. z = c
  BY <1>2, <1>4, <1>6, <1>7, SameList DEF Joins
<1> QED BY <1>1, <1>5, <1>8

(* To replace the elements of what parts make, and flatten that, is to do  *)
(* so with each part.                                                      *)
ListedBy(h, s) == \A i \in 1..Len(s) : Listed(h[s[i]])

LEMMA FlattenApplied ==
    ASSUME NEW h, NEW parts, ListedParts(parts), \A n \in 1..Len(parts) : ListedBy(h, parts[n]),
           NEW inner, Listed(inner), Len(inner) = Len(parts),
           \A n \in 1..Len(parts) : inner[n] = FlattenSeq(Applied(h, parts[n]))
    PROVE  FlattenSeq(Applied(h, FlattenSeq(parts))) = FlattenSeq(inner) /\ ListedParts(inner)
<1>1. PICK f : FlatBy(f, parts, FlattenSeq(parts))
  BY FlattenBy
<1>2. Len(parts) \in Nat
  BY ListedFacts DEF ListedParts
<1>3. /\ f[0] = <<>> /\ FlattenSeq(parts) = f[Len(parts)]
      /\ \A i \in 1..Len(parts) : f[i] = f[i - 1] \o parts[i]
      /\ \A i \in 0..Len(parts) : Listed(f[i])
  BY <1>1 DEF FlatBy, JoinsUp
<1>4. \A i \in 0..Len(parts) : ListedBy(h, f[i])
  <2> DEFINE Open == {i \in 0..Len(parts) : ~ ListedBy(h, f[i])}
  <2>1. Open = {}
    <3> SUFFICES ASSUME Open # {} PROVE FALSE
      OBVIOUS
    <3>1. PICK i \in Open : \A k \in Open : i <= k
      <4> Open \in SUBSET Nat
        OBVIOUS
      <4> HIDE DEF Open
      <4> QED BY LeastNumber
    <3>2. i # 0
      <4>1. ListedBy(h, <<>>)
        BY OneListed DEF ListedBy
      <4> QED BY <1>3, <3>1, <4>1
    <3>3. i \in 1..Len(parts) /\ i - 1 \in 0..Len(parts) /\ ~ (i <= i - 1)
      BY <1>2, <3>1, <3>2
    <3>4. PICK b, s, t : b = f[i] /\ s = f[i - 1] /\ t = parts[i]
      OBVIOUS
    <3>5. ListedBy(h, s) /\ ListedBy(h, t) /\ Listed(s) /\ Listed(t) /\ b = s \o t
      BY <1>3, <3>1, <3>3, <3>4 DEF ListedParts
    <3>6. Joins(b, s, t) /\ Len(s) \in Nat /\ Len(t) \in Nat
      BY <3>5, Joining, ListedFacts
    <3>7. ASSUME NEW k \in 1..Len(b) PROVE Listed(h[b[k]])
      <4>1. CASE k <= Len(s)
        BY <3>5, <3>6, <3>7, <4>1 DEF Joins, ListedBy
      <4>2. CASE ~ (k <= Len(s))
        <5>1. PICK m : m = k - Len(s)
          OBVIOUS
        <5>2. m \in 1..Len(t) /\ k = Len(s) + m
          BY <3>6, <3>7, <4>2, <5>1 DEF Joins
        <5> QED BY <3>5, <3>6, <5>2 DEF Joins, ListedBy
      <4> QED BY <4>1, <4>2
    <3> QED BY <3>1, <3>4, <3>7 DEF ListedBy
  <2> QED BY <2>1
<1>5. PICK g : g = [i \in 0..Len(parts) |-> FlattenSeq(Applied(h, f[i]))]
  OBVIOUS
<1>6. ASSUME NEW s, Listed(s), ListedBy(h, s) PROVE ListedParts(Applied(h, s)) /\ Listed(FlattenSeq(Applied(h, s)))
  <2>1. PICK a : a = Applied(h, s)
    OBVIOUS
  <2>2. Listed(a) /\ Len(a) = Len(s) /\ \A i \in 1..Len(s) : a[i] = h[s[i]]
    BY <1>6, <2>1, AppliedFacts DEF Applies
  <2>3. ListedParts(a)
    BY <1>6, <2>2 DEF ListedParts, ListedBy
  <2>4. PICK k : FlatBy(k, a, FlattenSeq(a))
    BY <2>3, FlattenBy
  <2>5. Len(a) \in 0..Len(a)
    BY <2>2, ListedFacts
  <2> QED BY <2>1, <2>3, <2>4, <2>5 DEF FlatBy
<1>7. \A i \in 0..Len(parts) : Listed(g[i])
  BY <1>3, <1>4, <1>5, <1>6
<1>8. ListedParts(inner)
  BY <1>6 DEF ListedParts
<1>9. g[0] = <<>>
  <2>1. FlattenSeq(<<>>) = <<>>
    BY DEF FlattenSeq
  <2>2. Applied(h, <<>>) = <<>>
    <3>1. Listed(Applied(h, <<>>)) /\ Len(Applied(h, <<>>)) = 0
      BY AppliedFacts, OneListed DEF Applies
    <3>2. PICK a : a = Applied(h, <<>>)
      OBVIOUS
    <3>3. a = <<>>
      BY <3>1, <3>2, ListedFacts
    <3> QED BY <3>2, <3>3
  <2>3. 0 \in 0..Len(parts)
    BY <1>2
  <2> QED BY <1>3, <1>5, <2>1, <2>2, <2>3
<1>10. ASSUME NEW i \in 1..Len(parts) PROVE g[i] = g[i - 1] \o inner[i]
  <2>1. i - 1 \in 0..Len(parts) /\ i \in 0..Len(parts)
    BY <1>2
  <2>2. PICK b, s, t : b = f[i] /\ s = f[i - 1] /\ t = parts[i]
    OBVIOUS
  <2>3. ListedBy(h, s) /\ ListedBy(h, t) /\ Listed(s) /\ Listed(t) /\ b = s \o t
    BY <1>3, <1>4, <2>1, <2>2 DEF ListedParts
  <2>4. PICK x, y : x = Applied(h, s) /\ y = Applied(h, t)
    OBVIOUS
  <2>5. Applied(h, b) = x \o y /\ ListedParts(x) /\ ListedParts(y)
    BY <1>6, <2>3, <2>4, AppliedBoth
  <2>6. FlattenSeq(x \o y) = FlattenSeq(x) \o FlattenSeq(y)
    BY <2>5, FlattenBoth
  <2>7. g[i] = FlattenSeq(Applied(h, b)) /\ g[i - 1] = FlattenSeq(x) /\ inner[i] = FlattenSeq(y)
    BY <1>5, <2>1, <2>2, <2>4
  <2> QED BY <2>5, <2>6, <2>7
<1>11. PICK s : s = g[Len(parts)]
  OBVIOUS
<1>12. Len(parts) \in 0..Len(parts)
  BY <1>2
<1>13. FlatBy(g, inner, s)
  BY <1>7, <1>9, <1>10, <1>11 DEF FlatBy, JoinsUp
<1>14. FlattenSeq(inner) = s
  BY <1>8, <1>13, ByFlatten
<1>15. s = FlattenSeq(Applied(h, FlattenSeq(parts)))
  BY <1>3, <1>5, <1>11, <1>12
<1> QED BY <1>8, <1>14, <1>15

LEMMA FlattenNothing ==
    ASSUME NEW parts, Listed(parts), \A i \in 1..Len(parts) : parts[i] = <<>>
    PROVE  FlattenSeq(parts) = <<>>
<1>1. PICK f : f = [i \in 0..Len(parts) |-> <<>>]
  OBVIOUS
<1>2. Len(parts) \in Nat /\ Listed(<<>>) /\ <<>> \o <<>> = <<>>
  BY ListedFacts, OneListed, NothingJoined
<1>3. \A i \in 1..Len(parts) : i - 1 \in 0..Len(parts) /\ i \in 0..Len(parts)
  BY <1>2
<1>4. \A i \in 0..Len(parts) : f[i] = <<>>
  BY <1>1
<1>5. 0 \in 0..Len(parts) /\ Len(parts) \in 0..Len(parts)
  BY <1>2
<1>6. JoinsUp(f, parts)
  BY <1>2, <1>3, <1>4, <1>5 DEF JoinsUp
<1>7. f[Len(parts)] = <<>> /\ \A i \in 0..Len(parts) : Listed(f[i])
  BY <1>2, <1>4, <1>5
<1>8. FlatBy(f, parts, <<>>) /\ ListedParts(parts)
  BY <1>2, <1>6, <1>7 DEF FlatBy, ListedParts
<1> QED BY <1>8, ByFlatten

LEMMA FlattenOnes ==
    ASSUME NEW s, Listed(s), NEW parts, Listed(parts), Len(parts) = Len(s),
           \A i \in 1..Len(s) : parts[i] = <<s[i]>>
    PROVE  FlattenSeq(parts) = s
<1>1. PICK f : f = [i \in 0..Len(s) |-> [k \in 1..i |-> s[k]]]
  OBVIOUS
<1>2. Len(s) \in Nat /\ s = [k \in 1..Len(s) |-> s[k]]
  BY ListedFacts
<1>3. ASSUME NEW i \in 0..Len(s)
      PROVE  Listed(f[i]) /\ Len(f[i]) = i /\ \A k \in 1..i : f[i][k] = s[k]
  <2>1. PICK t : t = f[i]
    OBVIOUS
  <2>2. t = [k \in 1..i |-> t[k]] /\ i \in Nat /\ \A k \in 1..i : t[k] = s[k]
    BY <1>1, <1>2, <2>1
  <2> QED BY <2>1, <2>2, Listing
<1>4. ASSUME NEW i \in 1..Len(s) PROVE f[i] = f[i - 1] \o parts[i]
  <2>1. PICK h : h = i - 1
    OBVIOUS
  <2>2. h \in 0..Len(s) /\ i \in 0..Len(s) /\ h + 1 = i
    BY <1>2, <2>1
  <2>3. PICK t, u, one, b : t = f[i] /\ u = f[h] /\ one = <<s[i]>> /\ b = u \o one
    OBVIOUS
  <2>4. Listed(one) /\ Len(one) = 1 /\ one[1] = s[i]
    BY <2>3, OneListed
  <2>5. /\ Listed(t) /\ Len(t) = i /\ \A k \in 1..i : t[k] = s[k]
        /\ Listed(u) /\ Len(u) = h /\ \A k \in 1..h : u[k] = s[k]
    BY <1>3, <2>2, <2>3
  <2>6. Joins(b, u, one)
    BY <2>3, <2>4, <2>5, Joining
  <2>7. ASSUME NEW k \in 1..i PROVE t[k] = b[k]
    <3>1. CASE k = i
      <4>1. PICK n : n = 1
        OBVIOUS
      <4>2. n \in 1..Len(one) /\ k = Len(u) + n /\ one[n] = s[i]
        BY <2>1, <2>2, <2>4, <2>5, <3>1, <4>1
      <4>3. b[k] = s[i]
        BY <2>6, <4>2 DEF Joins
      <4> QED BY <2>5, <3>1, <4>3
    <3>2. CASE k # i
      <4>1. k \in 1..h
        BY <2>2, <3>2
      <4> QED BY <2>5, <2>6, <4>1 DEF Joins
    <3> QED BY <3>1, <3>2
  <2>8. Listed(b) /\ Len(b) = i
    BY <2>2, <2>4, <2>5, <2>6 DEF Joins
  <2>9. t = b
    BY <2>5, <2>7, <2>8, SameList
  <2>10. parts[i] = one
    BY <2>3
  <2> QED BY <2>1, <2>3, <2>9, <2>10
<1>5. f[0] = <<>>
  <2>1. 0 \in 0..Len(s)
    BY <1>2
  <2>2. PICK t : t = f[0]
    OBVIOUS
  <2>3. Listed(t) /\ Len(t) = 0
    BY <1>3, <2>1, <2>2
  <2> QED BY <2>2, <2>3, ListedFacts
<1>6. f[Len(s)] = s
  <2>1. PICK n, t : n = Len(s) /\ t = f[n]
    OBVIOUS
  <2>2. Listed(t) /\ Len(t) = n /\ \A k \in 1..n : t[k] = s[k]
    BY <1>2, <1>3, <2>1
  <2> QED BY <2>1, <2>2, SameList
<1>7. ListedParts(parts)
  BY OneListed DEF ListedParts
<1>8. FlatBy(f, parts, s)
  BY <1>3, <1>4, <1>5, <1>6 DEF FlatBy, JoinsUp
<1> QED BY <1>7, <1>8, ByFlatten

-----------------------------------------------------------------------------
(* Folds: FoldLeft takes the elements of a sequence from the greatest      *)
(* index of a set of indices, the whole domain first.                      *)
FoldsUp(g, n, a, step) ==
    \A S \in SUBSET (1..n) : g[S] = IF S = {} THEN a ELSE step[Max(S)][g[S \ {Max(S)}]]

LEMMA FoldDefines ==
    ASSUME NEW n \in Nat, NEW X, NEW a \in X, NEW step \in Steps(n, X)
    PROVE  \E g \in [SUBSET (1..n) -> X] : FoldsUp(g, n, a, step)
<1> DEFINE Defined(k) == \E g \in [SUBSET (1..k) -> X] : FoldsUp(g, k, a, step)
           Undefined  == {k \in 0..n : ~ Defined(k)}
<1>1. Undefined = {}
  <2> SUFFICES ASSUME Undefined # {} PROVE FALSE
    OBVIOUS
  <2>1. PICK k \in Undefined : \A m \in Undefined : k <= m
    <3> Undefined \in SUBSET Nat
      OBVIOUS
    <3> HIDE DEF Undefined
    <3> QED BY LeastNumber
  <2>2. k \in 0..n /\ ~ Defined(k)
    BY <2>1
  <2>3. k # 0
    <3> DEFINE g == [S \in SUBSET (1..0) |-> a]
    <3>1. g \in [SUBSET (1..0) -> X] /\ \A S \in SUBSET (1..0) : S = {} /\ g[S] = a
      OBVIOUS
    <3> HIDE DEF g
    <3>2. FoldsUp(g, 0, a, step)
      BY <3>1 DEF FoldsUp
    <3>3. Defined(0)
      BY <3>1, <3>2
    <3> HIDE DEF Defined
    <3> QED BY <2>2, <3>3
  <2>4. k - 1 \in 0..n /\ k \in 1..n /\ ~ (k <= k - 1)
    BY <2>2, <2>3
  <2>5. Defined(k - 1)
    <3> HIDE DEF Defined
    <3> QED BY <2>1, <2>4
  <2>6. PICK g \in [SUBSET (1..(k - 1)) -> X] : FoldsUp(g, k - 1, a, step)
    BY <2>5
  <2> DEFINE h == [S \in SUBSET (1..k) |-> IF k \in S THEN step[k][g[S \ {k}]] ELSE g[S]]
  <2>7. ASSUME NEW S \in SUBSET (1..k) PROVE /\ S \ {k} \in SUBSET (1..(k - 1))
                                             /\ k \notin S => S \in SUBSET (1..(k - 1))
    BY <2>4
  <2>8. ASSUME NEW S \in SUBSET (1..k) PROVE h[S] \in X
    <3>1. g[S \ {k}] \in X /\ (k \notin S => g[S] \in X)
      BY <2>7
    <3>2. step[k][g[S \ {k}]] \in X
      BY <2>4, <3>1 DEF Steps
    <3> QED BY <3>1, <3>2
  <2>9. \A S \in SUBSET (1..(k - 1)) : S \in SUBSET (1..k) /\ k \notin S /\ h[S] = g[S]
    BY <2>4
  <2>10. ASSUME NEW S \in SUBSET (1..k), S # {} PROVE h[S] = step[Max(S)][h[S \ {Max(S)}]]
    <3>1. CASE k \in S
      <4>1. Max(S) = k
        <5> HIDE DEF h, Defined, Undefined
        <5>1. k \in Nat
          BY <2>2
        <5>2. Max(S) \in S /\ \A y \in S : y <= Max(S)
          BY <2>10, <5>1, GreatestOf
        <5>3. PICK m : m = Max(S)
          OBVIOUS
        <5>4. m \in 1..k /\ k <= m
          BY <3>1, <5>2, <5>3
        <5> QED BY <5>1, <5>3, <5>4
      <4>2. h[S] = step[k][g[S \ {k}]]
        BY <3>1
      <4> HIDE DEF h
      <4> QED BY <2>7, <2>9, <4>1, <4>2
    <3>2. CASE k \notin S
      <4>1. S \in SUBSET (1..(k - 1))
        BY <2>7, <3>2
      <4>2. S \ {Max(S)} \in SUBSET (1..(k - 1))
        BY <4>1
      <4>3. g[S] = step[Max(S)][g[S \ {Max(S)}]]
        BY <2>6, <2>10, <4>1 DEF FoldsUp
      <4> HIDE DEF h
      <4> QED BY <2>9, <4>1, <4>2, <4>3
    <3> QED BY <3>1, <3>2
  <2>11. h[{}] = a
    <3>1. {} \in SUBSET (1..(k - 1))
      OBVIOUS
    <3>2. g[{}] = a
      BY <2>6, <3>1 DEF FoldsUp
    <3> HIDE DEF h
    <3> QED BY <2>9, <3>1, <3>2
  <2>12. h \in [SUBSET (1..k) -> X]
    <3>1. h = [S \in SUBSET (1..k) |-> h[S]]
      OBVIOUS
    <3> HIDE DEF h
    <3> QED BY <2>8, <3>1
  <2> HIDE DEF h
  <2>13. FoldsUp(h, k, a, step)
    BY <2>10, <2>11 DEF FoldsUp
  <2>14. Defined(k)
    BY <2>12, <2>13
  <2> HIDE DEF Defined
  <2> QED BY <2>2, <2>14
<1>2. Defined(n)
  <2> HIDE DEF Defined
  <2> QED BY <1>1
<1> QED BY <1>2

(* The indices up to n, the greatest first. *)
LEMMA UpToGreatest ==
    ASSUME NEW n \in Nat, n # 0
    PROVE  1..n # {} /\ Max(1..n) = n /\ (1..n) \ {n} = 1..(n - 1)
<1>1. 1..n # {} /\ n \in 1..n
  OBVIOUS
<1>2. Max(1..n) \in 1..n /\ \A y \in 1..n : y <= Max(1..n)
  BY <1>1, GreatestOf
<1> HIDE DEF Max
<1> QED BY <1>1, <1>2

-----------------------------------------------------------------------------
(* Texts read from left to right: what is read at i, and where to go on.   *)

(* from[i] is last[i], or give[i] and what is read from next[i] on. *)
ReadsFrom(from, n, give, next, last) ==
    \A i \in 1..n : from[i] = IF next[i] = 0 THEN last[i] ELSE give[i] \o from[next[i]]

LEMMA ReadingDefines ==
    ASSUME NEW n \in Nat, NEW E, NEW give \in [1..n -> Seq(E)], NEW last \in [1..n -> Seq(E)],
           NEW next, \A i \in 1..n : next[i] = 0 \/ next[i] \in (i + 1)..n
    PROVE  \E from \in [1..n -> Seq(E)] : ReadsFrom(from, n, give, next, last)
<1> DEFINE value(f, i) == IF next[i] = 0 THEN last[i] ELSE give[i] \o f[next[i]]
           Reads(f, k) == \A i \in 1..n : i > n - k => f[i] = value(f, i)
           Defined(k)  == \E f \in [1..n -> Seq(E)] : Reads(f, k)
           Undefined   == {k \in 0..n : ~ Defined(k)}
<1>1. Undefined = {}
  <2> SUFFICES ASSUME Undefined # {} PROVE FALSE
    OBVIOUS
  <2>1. PICK k \in Undefined : \A m \in Undefined : k <= m
    <3> Undefined \in SUBSET Nat
      OBVIOUS
    <3> HIDE DEF Undefined
    <3> QED BY LeastNumber
  <2>2. k \in 0..n /\ ~ Defined(k)
    BY <2>1
  <2>3. k # 0
    <3>1. Reads(last, 0)
      <4>1. \A i \in 1..n : ~ (i > n - 0)
        OBVIOUS
      <4> HIDE DEF value
      <4> QED BY <4>1
    <3>2. Defined(0)
      <4> HIDE DEF Reads
      <4> QED BY <3>1
    <3> HIDE DEF Defined
    <3> QED BY <2>2, <3>2
  <2>4. k - 1 \in 0..n /\ ~ (k <= k - 1)
    BY <2>2, <2>3
  <2>5. Defined(k - 1)
    <3> HIDE DEF Defined
    <3> QED BY <2>1, <2>4
  <2>6. PICK f \in [1..n -> Seq(E)] : Reads(f, k - 1)
    <3> HIDE DEF Reads
    <3> QED BY <2>5
  <2> DEFINE m == n - k + 1
             g == [f EXCEPT ![m] = value(f, m)]
  <2>7. m \in 1..n /\ \A i \in 1..n : i > n - k => i = m \/ i > n - (k - 1)
    BY <2>2, <2>3
  <2>8. value(f, m) \in Seq(E)
    <3>1. CASE next[m] = 0
      BY <2>7, <3>1
    <3>2. CASE next[m] # 0
      <4>1. next[m] \in 1..n
        BY <2>7, <3>2
      <4>2. give[m] \in Seq(E) /\ f[next[m]] \in Seq(E)
        BY <2>7, <4>1
      <4>3. give[m] \o f[next[m]] \in Seq(E)
        BY <4>2
      <4> QED BY <3>2, <4>3
    <3> QED BY <3>1, <3>2
  <2>9. g \in [1..n -> Seq(E)] /\ g[m] = value(f, m) /\ \A i \in 1..n : i # m => g[i] = f[i]
    <3> HIDE DEF value, m
    <3> QED BY <2>7, <2>8
  <2>10. ASSUME NEW i \in 1..n, next[i] # 0 PROVE next[i] \in 1..n /\ next[i] > i
    <3> HIDE DEF g, value, m
    <3>1. PICK j : j = next[i]
      OBVIOUS
    <3>2. j \in (i + 1)..n
      BY <2>10, <3>1
    <3>3. j \in 1..n /\ j > i
      BY <3>2
    <3> QED BY <3>1, <3>3
  <2>11. ASSUME NEW i \in 1..n, i > n - k PROVE g[i] = value(g, i)
    <3>1. next[i] # 0 => next[i] \in 1..n /\ next[i] # m
      <4> HIDE DEF g, value
      <4> QED BY SMTT(30), <2>2, <2>7, <2>10, <2>11
    <3>2. next[i] # 0 => g[next[i]] = f[next[i]]
      <4> HIDE DEF g, value, m
      <4> QED BY <2>9, <3>1
    <3>3. value(g, i) = value(f, i)
      <4> HIDE DEF g, m
      <4> QED BY <3>2
    <3>4. g[i] = value(f, i)
      <4>1. CASE i = m
        <5> HIDE DEF g, value, m
        <5> QED BY <2>9, <4>1
      <4>2. CASE i # m
        <5>1. f[i] = value(f, i)
          <6> HIDE DEF value, g
          <6> QED BY <2>6, <2>7, <2>11, <4>2
        <5> HIDE DEF g, value, m
        <5> QED BY <2>9, <4>2, <5>1
      <4> QED BY <4>1, <4>2
    <3> HIDE DEF g, value
    <3> QED BY <3>3, <3>4
  <2>12. Reads(g, k)
    <3> HIDE DEF g, value
    <3> QED BY <2>11
  <2>13. Defined(k)
    <3> HIDE DEF g, Reads, value
    <3> QED BY <2>9, <2>12
  <2> HIDE DEF Defined
  <2> QED BY <2>2, <2>13
<1>2. Defined(n)
  <2> HIDE DEF Defined
  <2> QED BY <1>1
<1>3. PICK f \in [1..n -> Seq(E)] : Reads(f, n)
  <2> HIDE DEF Reads
  <2> QED BY <1>2
<1>4. \A i \in 1..n : i > n - n
  OBVIOUS
<1>5. \A i \in 1..n : f[i] = value(f, i)
  <2> HIDE DEF value
  <2> QED BY <1>3, <1>4
<1> QED BY <1>5 DEF ReadsFrom

(* There is no other. *)
LEMMA ReadingIn ==
    ASSUME NEW n \in Nat, NEW E, NEW give \in [1..n -> Seq(E)], NEW last \in [1..n -> Seq(E)],
           NEW next, \A i \in 1..n : next[i] = 0 \/ next[i] \in (i + 1)..n,
           NEW from, ReadsFrom(from, n, give, next, last), NEW x \in 1..n
    PROVE  from[x] \in Seq(E)
<1> SUFFICES ASSUME from[x] \notin Seq(E) PROVE FALSE
  OBVIOUS
<1> DEFINE Bad == {i \in 1..n : from[i] \notin Seq(E)}
<1>1. Max(Bad) \in Bad /\ \A y \in Bad : y <= Max(Bad)
  <2>1. Bad \in SUBSET (1..n) /\ Bad # {}
    OBVIOUS
  <2> HIDE DEF Bad
  <2> QED BY <2>1, GreatestOf
<1>2. PICK i : i = Max(Bad)
  OBVIOUS
<1>3. i \in 1..n /\ from[i] \notin Seq(E) /\ \A y \in Bad : y <= i
  BY <1>1, <1>2
<1>4. CASE next[i] = 0
  BY <1>3, <1>4 DEF ReadsFrom
<1>5. CASE next[i] # 0
  <2>1. next[i] \in 1..n /\ ~ (next[i] <= i)
    BY SMTT(30), <1>3, <1>5
  <2>2. from[next[i]] \in Seq(E)
    BY <1>3, <2>1
  <2>3. give[i] \o from[next[i]] \in Seq(E)
    BY <1>3, <2>2
  <2> QED BY <1>3, <1>5, <2>3 DEF ReadsFrom
<1> QED BY <1>4, <1>5

=============================================================================
