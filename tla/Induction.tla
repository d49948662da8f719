----------------------------- MODULE Induction -----------------------------
(* Least numbers, smallest sets and sums over finite sets.  What would be an
   induction is an argument by a smallest counterexample: the theorems of the
   library that state induction take a predicate, which no prover fills in. *)
EXTENDS Integers, FiniteSets, FiniteSetsExt, FiniteSetTheorems, NaturalsInduction,
        WellFoundedInduction, TLAPS

(* A set of naturals that is not empty has a least number. *)
LEMMA LeastExists ==
    ASSUME NEW S \in SUBSET Nat, S # {}
    PROVE  \E m \in S : \A n \in S : m <= n
  <1>1. PICK R : IsWellFoundedOn(R, Nat) /\ \A m, n \in Nat : n < m => <<n, m>> \in R
    <2> DEFINE R == OpToRel(<, Nat)
    <2>1. IsWellFoundedOn(R, Nat)
      BY NatLessThanWellFounded
    <2>2. \A m, n \in Nat : n < m => <<n, m>> \in R
      BY DEF OpToRel
    <2> HIDE DEF R
    <2>3. QED
      BY <2>1, <2>2
  <1>2. PICK m \in S : \A n \in S : ~(<<n, m>> \in R)
    BY <1>1, WFMin
  <1>3. \A n \in S : m \in Nat /\ n \in Nat /\ ~(n < m)
    BY <1>1, <1>2, Zenon
  <1>4. QED
    BY <1>3, SMT

(* Of any finite sets one has the fewest elements, so that what removes an
   element from it leads out of the collection. *)
LEMMA SmallestExists ==
    ASSUME NEW T, T # {}, \A t \in T : IsFiniteSet(t)
    PROVE  \E s \in T : IsFiniteSet(s) /\ \A x \in s : s \ {x} \notin T
  <1> DEFINE sizes == {Cardinality(t) : t \in T}
  <1>1. sizes \in SUBSET Nat /\ sizes # {}
    BY FS_CardinalityType
  <1>2. PICK n \in sizes : \A k \in sizes : n <= k
    BY <1>1, LeastExists
  <1>3. PICK s \in T : n = Cardinality(s)
    BY <1>2
  <1>4. ASSUME NEW x \in s PROVE s \ {x} \notin T
    <2>1. Cardinality(s \ {x}) = n - 1 /\ n \in Nat
      BY <1>1, <1>3, <1>4, FS_RemoveElement
    <2>2. QED
      BY <1>2, <2>1
  <1>5. QED
    BY <1>3, <1>4

-----------------------------------------------------------------------------
(* The function that a fold defines by recursion over the subsets of S. *)

Pick(s) == CHOOSE x \in s : TRUE

Summing(g, f, S) ==
    g = [s \in SUBSET S |-> IF s = {} THEN 0 ELSE f[Pick(s)] + g[s \ {Pick(s)}]]

SumOf(f, S) == (CHOOSE g : Summing(g, f, S))[S]

LEMMA PickIsIn == ASSUME NEW s, s # {} PROVE Pick(s) \in s
  BY DEF Pick

Fewer(S, n) == {s \in SUBSET S : Cardinality(s) < n}

SummingTo(n, g, f, S) ==
    g = [s \in Fewer(S, n) |-> IF s = {} THEN 0 ELSE f[Pick(s)] + g[s \ {Pick(s)}]]

(* From the sets of fewer than n elements to those of n. *)
LEMMA SummingOn ==
    ASSUME NEW f, NEW S, IsFiniteSet(S), NEW n \in Nat, NEW g, SummingTo(n, g, f, S)
    PROVE  \E h : SummingTo(n + 1, h, f, S)
  <1> DEFINE h == [s \in Fewer(S, n + 1) |->
                     IF s = {} THEN 0 ELSE f[Pick(s)] + g[s \ {Pick(s)}]]
  <1>1. ASSUME NEW s \in Fewer(S, n + 1), s # {}
        PROVE  h[s \ {Pick(s)}] = g[s \ {Pick(s)}]
    <2> DEFINE t == s \ {Pick(s)}
    <2>1. IsFiniteSet(s) /\ IsFiniteSet(t) /\ t \in SUBSET S
      BY <1>1, FS_Subset DEF Fewer
    <2>2. Cardinality(t) = Cardinality(s) - 1 /\ Cardinality(s) \in Nat /\ Cardinality(s) < n + 1
      BY <1>1, <2>1, PickIsIn, FS_CardinalityType, FS_RemoveElement DEF Fewer
    <2>3. t \in Fewer(S, n) /\ t \in Fewer(S, n + 1)
      BY <2>1, <2>2 DEF Fewer
    <2>4. g[t] = IF t = {} THEN 0 ELSE f[Pick(t)] + g[t \ {Pick(t)}]
      BY <2>3 DEF SummingTo
    <2>5. QED
      BY <2>3, <2>4
  <1>2. SummingTo(n + 1, h, f, S)
    BY <1>1 DEF SummingTo
  <1>3. QED
    BY <1>2

(* The recursion defines a function: on the sets of fewer than n elements, for
   every n, and so on all of them. *)
LEMMA SummingExists ==
    ASSUME NEW f, NEW S, IsFiniteSet(S)
    PROVE  \E g : Summing(g, f, S)
  <1> DEFINE Defined(n) == \E g : SummingTo(n, g, f, S)
             missing == {n \in Nat : ~Defined(n)}
  <1>1. Defined(0)
    <2>1. Fewer(S, 0) = {}
      BY FS_Subset, FS_CardinalityType DEF Fewer
    <2>2. SummingTo(0, [s \in {} |-> 0], f, S)
      BY <2>1 DEF SummingTo
    <2>3. QED
      BY <2>2
  <1>2. ASSUME NEW n \in Nat, Defined(n) PROVE Defined(n + 1)
    BY <1>2, SummingOn
  <1> HIDE DEF Defined
  <1>3. missing = {}
    <2> SUFFICES ASSUME missing # {} PROVE FALSE
      OBVIOUS
    <2>1. PICK n \in missing : \A k \in missing : n <= k
      BY LeastExists
    <2>2. n \in Nat /\ n # 0 /\ ~Defined(n)
      BY <1>1, <2>1
    <2>3. n - 1 \in Nat /\ n - 1 \notin missing
      BY <2>1, <2>2
    <2>4. Defined(n - 1) /\ (n - 1) + 1 = n
      BY <2>2, <2>3
    <2>5. QED
      BY <1>2, <2>2, <2>3, <2>4
  <1>4. Cardinality(S) + 1 \in Nat
    BY FS_CardinalityType
  <1>5. PICK g : SummingTo(Cardinality(S) + 1, g, f, S)
    BY <1>3, <1>4 DEF Defined
  <1>6. Fewer(S, Cardinality(S) + 1) = SUBSET S
    BY FS_Subset, FS_CardinalityType DEF Fewer
  <1>7. QED
    BY <1>5, <1>6 DEF Summing, SummingTo

(* Such functions agree where they are both defined. *)
LEMMA SummingUnique ==
    ASSUME NEW f, NEW g, NEW h, NEW S, NEW s \in SUBSET S, IsFiniteSet(S),
           Summing(g, f, S), Summing(h, f, s)
    PROVE  h[s] = g[s]
  <1> DEFINE apart == {t \in SUBSET s : h[t] # g[t]}
  <1>1. apart = {}
    <2> SUFFICES ASSUME apart # {} PROVE FALSE
      OBVIOUS
    <2>1. PICK t \in apart : \A x \in t : t \ {x} \notin apart
      BY SmallestExists, FS_Subset
    <2>2. t \in SUBSET s /\ t \in SUBSET S /\ \A x \in t : h[t \ {x}] = g[t \ {x}]
      BY <2>1
    <2>3. /\ h[t] = IF t = {} THEN 0 ELSE f[Pick(t)] + h[t \ {Pick(t)}]
          /\ g[t] = IF t = {} THEN 0 ELSE f[Pick(t)] + g[t \ {Pick(t)}]
      BY <2>2 DEF Summing
    <2>4. QED
      BY <2>1, <2>2, <2>3, PickIsIn
  <1>2. QED
    BY <1>1

(* A sum by the equation that defines it. *)
LEMMA SumStep ==
    ASSUME NEW f, NEW S, IsFiniteSet(S)
    PROVE  SumOf(f, S) = IF S = {} THEN 0 ELSE f[Pick(S)] + SumOf(f, S \ {Pick(S)})
  <1> DEFINE g == CHOOSE g : Summing(g, f, S)
             rest == S \ {Pick(S)}
             h == CHOOSE h : Summing(h, f, rest)
  <1>1. Summing(g, f, S)
    BY SummingExists
  <1>2. IsFiniteSet(rest) /\ rest \in SUBSET S
    BY FS_Subset
  <1>3. Summing(h, f, rest)
    BY <1>2, SummingExists
  <1> HIDE DEF g, h
  <1>4. h[rest] = g[rest]
    BY <1>1, <1>2, <1>3, SummingUnique
  <1>5. g[S] = IF S = {} THEN 0 ELSE f[Pick(S)] + g[rest]
    BY <1>1 DEF Summing
  <1>6. QED
    BY <1>4, <1>5 DEF g, h, SumOf

(* A sum of naturals is one. *)
LEMMA SumType ==
    ASSUME NEW f, NEW S, IsFiniteSet(S), \A x \in S : f[x] \in Nat
    PROVE  SumOf(f, S) \in Nat
  <1> DEFINE wrong == {t \in SUBSET S : SumOf(f, t) \notin Nat}
  <1>1. wrong = {}
    <2> SUFFICES ASSUME wrong # {} PROVE FALSE
      OBVIOUS
    <2>1. PICK t \in wrong : IsFiniteSet(t) /\ \A x \in t : t \ {x} \notin wrong
      BY SmallestExists, FS_Subset
    <2>2. t \in SUBSET S /\ \A x \in t : f[x] \in Nat /\ SumOf(f, t \ {x}) \in Nat
      BY <2>1
    <2>3. SumOf(f, t) = IF t = {} THEN 0 ELSE f[Pick(t)] + SumOf(f, t \ {Pick(t)})
      BY <2>1, SumStep
    <2>4. SumOf(f, t) \in Nat
      BY <2>2, <2>3, PickIsIn
    <2>5. QED
      BY <2>1, <2>4
  <1>2. QED
    BY <1>1

(* Any element of a sum can be the first. *)
LEMMA SumRemove ==
    ASSUME NEW f, NEW S, IsFiniteSet(S), \A x \in S : f[x] \in Nat, NEW x \in S
    PROVE  SumOf(f, S) = f[x] + SumOf(f, S \ {x})
  <1> DEFINE wrong == {t \in SUBSET S : \E y \in t : SumOf(f, t) # f[y] + SumOf(f, t \ {y})}
  <1>1. wrong = {}
    <2> SUFFICES ASSUME wrong # {} PROVE FALSE
      OBVIOUS
    <2>1. PICK t \in wrong : IsFiniteSet(t) /\ \A y \in t : t \ {y} \notin wrong
      BY SmallestExists, FS_Subset
    <2>2. PICK y \in t : SumOf(f, t) # f[y] + SumOf(f, t \ {y})
      BY <2>1
    <2> DEFINE p == Pick(t)
    <2>3. p \in t
      BY <2>2, PickIsIn
    <2> HIDE DEF p
    <2>4. SumOf(f, t) = f[p] + SumOf(f, t \ {p})
      BY <2>1, <2>2, SumStep DEF p
    <2>5. y # p
      BY <2>2, <2>4
    <2>6. /\ SumOf(f, t \ {p}) = f[y] + SumOf(f, (t \ {p}) \ {y})
          /\ SumOf(f, t \ {y}) = f[p] + SumOf(f, (t \ {y}) \ {p})
      BY <2>1, <2>2, <2>3, <2>5
    <2>7. (t \ {p}) \ {y} = (t \ {y}) \ {p}
      OBVIOUS
    <2>8. f[p] \in Nat /\ f[y] \in Nat /\ SumOf(f, (t \ {p}) \ {y}) \in Nat
      <3>1. (t \ {p}) \ {y} \in SUBSET S /\ t \in SUBSET S
        BY <2>1
      <3>2. QED
        BY <2>2, <2>3, <3>1, FS_Subset, SumType
    <2>9. SumOf(f, t) = f[y] + SumOf(f, t \ {y})
      <3>1. PICK rest \in Nat : /\ rest = SumOf(f, (t \ {p}) \ {y})
                                /\ rest = SumOf(f, (t \ {y}) \ {p})
        BY <2>7, <2>8
      <3>2. /\ SumOf(f, t \ {p}) = f[y] + rest
            /\ SumOf(f, t \ {y}) = f[p] + rest
        BY <2>6, <3>1
      <3>3. SumOf(f, t) = f[p] + (f[y] + rest)
        BY <2>4, <3>2
      <3>4. QED
        BY <2>8, <3>2, <3>3
    <2>10. QED
      BY <2>2, <2>9
  <1>2. QED
    BY <1>1

(* A sum depends on its summands only. *)
LEMMA SumSame ==
    ASSUME NEW f, NEW h, NEW S, IsFiniteSet(S), \A x \in S : f[x] = h[x]
    PROVE  SumOf(f, S) = SumOf(h, S)
  <1> DEFINE apart == {t \in SUBSET S : SumOf(f, t) # SumOf(h, t)}
  <1>1. apart = {}
    <2> SUFFICES ASSUME apart # {} PROVE FALSE
      OBVIOUS
    <2>1. PICK t \in apart : IsFiniteSet(t) /\ \A x \in t : t \ {x} \notin apart
      BY SmallestExists, FS_Subset
    <2>2. t \in SUBSET S /\ \A x \in t : f[x] = h[x] /\ SumOf(f, t \ {x}) = SumOf(h, t \ {x})
      BY <2>1
    <2>3. /\ SumOf(f, t) = IF t = {} THEN 0 ELSE f[Pick(t)] + SumOf(f, t \ {Pick(t)})
          /\ SumOf(h, t) = IF t = {} THEN 0 ELSE h[Pick(t)] + SumOf(h, t \ {Pick(t)})
      BY <2>1, SumStep
    <2>4. QED
      BY <2>1, <2>2, <2>3, PickIsIn
  <1>2. QED
    BY <1>1

LEMMA SumZero ==
    ASSUME NEW f, NEW S, IsFiniteSet(S), \A x \in S : f[x] = 0
    PROVE  SumOf(f, S) = 0
  <1> DEFINE wrong == {t \in SUBSET S : SumOf(f, t) # 0}
  <1>1. wrong = {}
    <2> SUFFICES ASSUME wrong # {} PROVE FALSE
      OBVIOUS
    <2>1. PICK t \in wrong : IsFiniteSet(t) /\ \A x \in t : t \ {x} \notin wrong
      BY SmallestExists, FS_Subset
    <2>2. t \in SUBSET S /\ \A x \in t : f[x] = 0 /\ SumOf(f, t \ {x}) = 0
      BY <2>1
    <2>3. SumOf(f, t) = IF t = {} THEN 0 ELSE f[Pick(t)] + SumOf(f, t \ {Pick(t)})
      BY <2>1, SumStep
    <2>4. QED
      BY <2>1, <2>2, <2>3, PickIsIn
  <1>2. QED
    BY <1>1

(* One summand more, and one summand changed. *)
LEMMA SumAdd ==
    ASSUME NEW f, NEW S, IsFiniteSet(S), NEW x, x \notin S, \A y \in S \cup {x} : f[y] \in Nat
    PROVE  SumOf(f, S \cup {x}) = SumOf(f, S) + f[x]
  <1>1. IsFiniteSet(S \cup {x}) /\ (S \cup {x}) \ {x} = S
    BY FS_AddElement
  <1>2. SumOf(f, S \cup {x}) = f[x] + SumOf(f, S)
    BY <1>1, SumRemove
  <1>3. SumOf(f, S) \in Nat /\ f[x] \in Nat
    BY SumType
  <1>4. QED
    BY <1>2, <1>3

LEMMA SumChange ==
    ASSUME NEW f, NEW h, NEW S, IsFiniteSet(S), NEW x \in S, NEW d \in Nat,
           \A y \in S : f[y] \in Nat, h[x] = f[x] + d, \A y \in S \ {x} : h[y] = f[y]
    PROVE  SumOf(h, S) = SumOf(f, S) + d
  <1>1. IsFiniteSet(S \ {x})
    BY FS_Subset
  <1>2. SumOf(f, S \ {x}) = SumOf(h, S \ {x})
    BY <1>1, SumSame
  <1>3. \A y \in S : h[y] \in Nat
    OBVIOUS
  <1>4. /\ SumOf(f, S) = f[x] + SumOf(f, S \ {x})
        /\ SumOf(h, S) = h[x] + SumOf(h, S \ {x})
    BY <1>3, SumRemove
  <1>5. SumOf(f, S \ {x}) \in Nat
    BY <1>1, SumType
  <1>6. QED
    BY <1>2, <1>4, <1>5

=============================================================================
