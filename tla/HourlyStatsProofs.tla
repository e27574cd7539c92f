-------------------------- MODULE HourlyStatsProofs --------------------------
(***************************************************************************)
(* What the pure functions of HourlyStats return, for every finite set of  *)
(* checks, windows or rows: sums over sets do not depend on the order, the *)
(* k-th smallest response time exists, the percentile is the nearest rank, *)
(* the mean is rounded to the nearest, and the downtime of windows that do *)
(* not overlap is the number of ticks they cover.                          *)
(***************************************************************************)
EXTENDS HourlyStats, FiniteSetTheorems, WellFoundedInduction, TLAPS

-----------------------------------------------------------------------------
(* Induction, with a set for the property                                  *)

\* A non-empty set of naturals has a least element.
LEMMA LeastNatural ==
  ASSUME NEW S \in SUBSET Nat, S # {}
  PROVE  \E m \in S : \A t \in S : m <= t
<1> DEFINE Less == {p \in Nat \X Nat : p[1] < p[2]}
<1>1. IsWellFoundedOn(Less, Nat)
  <2>1. OpToRel(<, Nat) = Less
    BY Zenon DEF OpToRel
  <2> QED BY <2>1, NatLessThanWellFounded, Zenon
<1>2. \E m \in S : \A t \in S : <<t, m>> \notin Less
  <2> HIDE DEF Less
  <2> QED BY <1>1, WFMin
<1>3. \A m, t \in Nat : <<t, m>> \notin Less => m <= t
  OBVIOUS
<1> QED BY <1>2, <1>3

\* What 0 has, and n + 1 has when n has it, every natural has.
LEMMA EveryNatural ==
  ASSUME NEW G, 0 \in G, \A n \in Nat : n \in G => n + 1 \in G
  PROVE  Nat \subseteq G
<1> DEFINE Bad == Nat \ G
<1>1. SUFFICES ASSUME Bad # {} PROVE FALSE
  OBVIOUS
<1>2. PICK m \in Bad : \A t \in Bad : m <= t
  BY <1>1, LeastNatural
<1>3. m \in Nat /\ m # 0
  BY <1>2
<1>4. m - 1 \in Nat /\ m = (m - 1) + 1 /\ ~(m <= m - 1)
  BY <1>3
<1>5. m - 1 \in G
  BY <1>2, <1>4
<1> QED BY <1>2, <1>4, <1>5

\* What the empty set has, and what survives the addition of an element,
\* every finite set has.
LEMMA EveryFiniteSet ==
  ASSUME NEW S, IsFiniteSet(S), NEW G, {} \in G,
         \A T \in SUBSET S : \A x \in S \ T : T \in G => (T \cup {x}) \in G
  PROVE  S \in G
<1> DEFINE Good == {n \in Nat : \A T \in SUBSET S :
                                  Cardinality(T) = n => T \in G}
<1>1. \A T \in SUBSET S : IsFiniteSet(T) /\ Cardinality(T) \in Nat
  BY FS_Subset, FS_CardinalityType
<1>2. 0 \in Good
  BY <1>1, FS_EmptySet
<1>3. ASSUME NEW n \in Nat, n \in Good PROVE n + 1 \in Good
  <2> SUFFICES ASSUME NEW T \in SUBSET S, Cardinality(T) = n + 1 PROVE T \in G
    OBVIOUS
  <2>1. T # {}
    <3>1. n + 1 # 0
      OBVIOUS
    <3> QED BY <3>1, FS_EmptySet
  <2>2. PICK x \in T : TRUE
    BY <2>1
  <2>3. Cardinality(T \ {x}) = n
    <3>1. Cardinality(T \ {x}) = Cardinality(T) - 1
      BY <1>1, FS_RemoveElement
    <3> QED BY <3>1
  <2>4. (T \ {x}) \in G
    BY <1>3, <2>3
  <2>5. T = (T \ {x}) \cup {x} /\ x \in S \ (T \ {x}) /\ (T \ {x}) \in SUBSET S
    OBVIOUS
  <2>6. ((T \ {x}) \cup {x}) \in G
    BY <2>4, <2>5
  <2> QED BY <2>5, <2>6
<1>4. Nat \subseteq Good
  <2> HIDE DEF Good
  <2> QED BY <1>2, <1>3, EveryNatural
<1>5. Cardinality(S) \in Good
  BY <1>1, <1>4
<1> QED BY <1>5

-----------------------------------------------------------------------------
(* Sums                                                                    *)

\* The element a fold takes next.
Taken(s) == CHOOSE x \in s : TRUE

\* g is the running total of the weights w over the subsets of S, as the folds
\* of the library compute it.
Totals(g, w, S) ==
  g = [s \in SUBSET S |-> IF s = {} THEN 0 ELSE w[Taken(s)] + g[s \ {Taken(s)}]]

\* The sum of the weights of the members of S.
SumOf(w, S) == CHOOSE n : \E g : Totals(g, w, S) /\ n = g[S]

\* Every member has a natural weight.
Weighs(w, S) == \A x \in S : w[x] \in Nat

\* The running totals exist, and there is one way to compute them.
LEMMA TotalsExist ==
  ASSUME NEW S, IsFiniteSet(S), NEW w, Weighs(w, S)
  PROVE  \E g \in [SUBSET S -> Nat] : Totals(g, w, S)
<1> DEFINE D(n) == {s \in SUBSET S : Cardinality(s) <= n}
           Next(g, s) == IF s = {} THEN 0 ELSE w[Taken(s)] + g[s \ {Taken(s)}]
           Good == {n \in Nat : \E g \in [D(n) -> Nat] :
                                  \A s \in D(n) : g[s] = Next(g, s)}
<1>1. \A T \in SUBSET S : IsFiniteSet(T) /\ Cardinality(T) \in Nat
  BY FS_Subset, FS_CardinalityType
<1>2. \A T \in SUBSET S : T # {} =>
        /\ Taken(T) \in T /\ w[Taken(T)] \in Nat
        /\ (T \ {Taken(T)}) \in SUBSET S
        /\ Cardinality(T \ {Taken(T)}) = Cardinality(T) - 1
  <2> SUFFICES ASSUME NEW T \in SUBSET S, T # {}
               PROVE  /\ Taken(T) \in T /\ w[Taken(T)] \in Nat
                      /\ (T \ {Taken(T)}) \in SUBSET S
                      /\ Cardinality(T \ {Taken(T)}) = Cardinality(T) - 1
    OBVIOUS
  <2>1. Taken(T) \in T
    BY DEF Taken
  <2>2. w[Taken(T)] \in Nat
    BY <2>1 DEF Weighs
  <2> QED BY <1>1, <2>1, <2>2, FS_RemoveElement
<1>3. \A n \in Nat : \A T \in D(n + 1) : T # {} => (T \ {Taken(T)}) \in D(n)
  <2> SUFFICES ASSUME NEW n \in Nat, NEW T \in D(n + 1), T # {}
               PROVE  (T \ {Taken(T)}) \in D(n)
    OBVIOUS
  <2>1. Cardinality(T) \in Nat /\ Cardinality(T) <= n + 1
    BY <1>1
  <2>2. Cardinality(T) - 1 <= n
    BY <2>1
  <2> QED BY <1>2, <2>2
<1>4. 0 \in Good
  <2>1. \A T \in D(0) : T = {}
    BY <1>1, FS_EmptySet
  <2> DEFINE g == [s \in D(0) |-> 0]
  <2>2. g \in [D(0) -> Nat] /\ \A s \in D(0) : g[s] = Next(g, s)
    BY <2>1
  <2> QED BY <2>2
<1>5. ASSUME NEW n \in Nat, n \in Good PROVE n + 1 \in Good
  <2>1. PICK g \in [D(n) -> Nat] : \A s \in D(n) : g[s] = Next(g, s)
    BY <1>5
  <2> DEFINE f == [s \in D(n + 1) |-> Next(g, s)]
  <2>2. \A s \in D(n + 1) : Next(g, s) \in Nat
    <3> SUFFICES ASSUME NEW s \in D(n + 1) PROVE Next(g, s) \in Nat
      OBVIOUS
    <3>1. CASE s = {}
      BY <3>1
    <3>2. CASE s # {}
      <4>1. g[s \ {Taken(s)}] \in Nat
        BY <1>3, <2>1, <3>2
      <4>2. w[Taken(s)] \in Nat
        BY <1>2, <3>2
      <4> QED BY <3>2, <4>1, <4>2
    <3> QED BY <3>1, <3>2
  <2>3. f \in [D(n + 1) -> Nat]
    BY <2>2
  <2>4. \A s \in D(n) : s \in D(n + 1) /\ f[s] = g[s]
    <3>1. \A s \in D(n) : s \in D(n + 1)
      BY <1>1
    <3> QED BY <2>1, <3>1
  <2>5. \A s \in D(n + 1) : f[s] = Next(f, s)
    <3> SUFFICES ASSUME NEW s \in D(n + 1) PROVE f[s] = Next(f, s)
      OBVIOUS
    <3>1. f[s] = Next(g, s)
      OBVIOUS
    <3>2. CASE s = {}
      BY <3>1, <3>2
    <3>3. CASE s # {}
      <4>1. f[s \ {Taken(s)}] = g[s \ {Taken(s)}]
        BY <1>3, <2>4, <3>3
      <4> HIDE DEF f
      <4> QED BY <3>1, <3>3, <4>1
    <3> QED BY <3>2, <3>3
  <2> HIDE DEF f
  <2>6. n + 1 \in Nat
    OBVIOUS
  <2> QED BY <2>3, <2>5, <2>6
<1>6. Nat \subseteq Good
  <2> HIDE DEF Good
  <2> QED BY <1>4, <1>5, EveryNatural
<1>7. PICK n \in Nat : n = Cardinality(S)
  BY <1>1
<1>8. D(n) = SUBSET S
  <2>1. \A T \in SUBSET S : Cardinality(T) <= n
    BY <1>7, FS_Subset
  <2> QED BY <2>1
<1>9. PICK g \in [D(n) -> Nat] : \A s \in D(n) : g[s] = Next(g, s)
  BY <1>6
<1>10. g \in [SUBSET S -> Nat] /\ \A s \in SUBSET S : g[s] = Next(g, s)
  BY <1>8, <1>9
<1>11. g = [s \in SUBSET S |-> Next(g, s)]
  BY <1>10
<1> QED BY <1>10, <1>11 DEF Totals

\* Two tables of partial sums agree on a set whose members weigh the same.
LEMMA TotalsAgree ==
  ASSUME NEW S, IsFiniteSet(S), NEW w, NEW v, \A x \in S : w[x] = v[x],
         NEW A, NEW B, S \subseteq A, S \subseteq B,
         NEW f, NEW g, Totals(f, w, A), Totals(g, v, B)
  PROVE  f[S] = g[S]
<1> DEFINE Good == {n \in Nat : \A T \in SUBSET S :
                                  Cardinality(T) = n => f[T] = g[T]}
<1>1. \A T \in SUBSET S : IsFiniteSet(T) /\ Cardinality(T) \in Nat
  BY FS_Subset, FS_CardinalityType
<1>2. \A T \in SUBSET S :
        /\ f[T] = IF T = {} THEN 0 ELSE w[Taken(T)] + f[T \ {Taken(T)}]
        /\ g[T] = IF T = {} THEN 0 ELSE v[Taken(T)] + g[T \ {Taken(T)}]
  <2> SUFFICES ASSUME NEW T \in SUBSET S
               PROVE  /\ f[T] = IF T = {} THEN 0 ELSE w[Taken(T)] + f[T \ {Taken(T)}]
                      /\ g[T] = IF T = {} THEN 0 ELSE v[Taken(T)] + g[T \ {Taken(T)}]
    OBVIOUS
  <2>1. T \in SUBSET A /\ T \in SUBSET B
    OBVIOUS
  <2>2. f[T] = IF T = {} THEN 0 ELSE w[Taken(T)] + f[T \ {Taken(T)}]
    BY <2>1, Zenon DEF Totals
  <2>3. g[T] = IF T = {} THEN 0 ELSE v[Taken(T)] + g[T \ {Taken(T)}]
    BY <2>1, Zenon DEF Totals
  <2> QED BY <2>2, <2>3
<1>3. 0 \in Good
  <2> SUFFICES ASSUME NEW T \in SUBSET S, Cardinality(T) = 0 PROVE f[T] = g[T]
    OBVIOUS
  <2>1. T = {}
    BY <1>1, FS_EmptySet
  <2> QED BY <1>2, <2>1
<1>4. ASSUME NEW n \in Nat, n \in Good PROVE n + 1 \in Good
  <2> SUFFICES ASSUME NEW T \in SUBSET S, Cardinality(T) = n + 1 PROVE f[T] = g[T]
    OBVIOUS
  <2>1. T # {}
    BY FS_EmptySet
  <2>2. Taken(T) \in T
    BY <2>1 DEF Taken
  <2>3. Cardinality(T \ {Taken(T)}) = n
    <3>1. Cardinality(T \ {Taken(T)}) = Cardinality(T) - 1
      BY <1>1, <2>2, FS_RemoveElement
    <3> QED BY <3>1
  <2>4. (T \ {Taken(T)}) \in SUBSET S
    OBVIOUS
  <2>5. f[T \ {Taken(T)}] = g[T \ {Taken(T)}]
    BY <1>4, <2>3, <2>4
  <2>6. w[Taken(T)] = v[Taken(T)]
    BY <2>2
  <2> QED BY <1>2, <2>1, <2>5, <2>6
<1>5. Nat \subseteq Good
  <2> HIDE DEF Good
  <2> QED BY <1>3, <1>4, EveryNatural
<1>6. Cardinality(S) \in Good /\ S \in SUBSET S
  BY <1>1, <1>5
<1> QED BY <1>6

\* The sum takes one member after another,
LEMMA SumTakes ==
  ASSUME NEW S, IsFiniteSet(S), NEW w, Weighs(w, S)
  PROVE  /\ SumOf(w, S) \in Nat
         /\ SumOf(w, S) = IF S = {} THEN 0
                          ELSE w[Taken(S)] + SumOf(w, S \ {Taken(S)})
         /\ \A g : Totals(g, w, S) => SumOf(w, S) = g[S]
<1>1. PICK g \in [SUBSET S -> Nat] : Totals(g, w, S)
  BY TotalsExist
<1>2. \E h : Totals(h, w, S) /\ SumOf(w, S) = h[S]
  <2>1. \E n : \E h : Totals(h, w, S) /\ n = h[S]
    BY <1>1
  <2> QED BY <2>1, Zenon DEF SumOf
<1>3. \A h : Totals(h, w, S) => h[S] = g[S]
  BY <1>1, TotalsAgree
<1>4. SumOf(w, S) = g[S]
  BY <1>2, <1>3
<1>5. SumOf(w, S) \in Nat
  BY <1>1, <1>4
<1>6. g[S] = IF S = {} THEN 0 ELSE w[Taken(S)] + g[S \ {Taken(S)}]
  BY <1>1, Zenon DEF Totals
<1>7. ASSUME S # {} PROVE g[S \ {Taken(S)}] = SumOf(w, S \ {Taken(S)})
  <2> DEFINE T == S \ {Taken(S)}
  <2>1. IsFiniteSet(T) /\ Weighs(w, T) /\ T \subseteq S
    BY FS_Subset DEF Weighs
  <2> HIDE DEF T
  <2>2. PICK h \in [SUBSET T -> Nat] : Totals(h, w, T)
    BY <2>1, TotalsExist
  <2>3. \E k : Totals(k, w, T) /\ SumOf(w, T) = k[T]
    <3>1. \E n : \E k : Totals(k, w, T) /\ n = k[T]
      BY <2>2
    <3> QED BY <3>1, Zenon DEF SumOf
  <2>4. \A k : Totals(k, w, T) => k[T] = g[T]
    BY <1>1, <2>1, TotalsAgree
  <2> QED BY <2>3, <2>4 DEF T
<1> QED BY <1>3, <1>4, <1>5, <1>6, <1>7

\* in any order,
LEMMA SumSplits ==
  ASSUME NEW S, IsFiniteSet(S), NEW w, Weighs(w, S), NEW x \in S
  PROVE  SumOf(w, S) = w[x] + SumOf(w, S \ {x})
<1> DEFINE Good == {n \in Nat : \A T \in SUBSET S : Cardinality(T) = n =>
                      \A y \in T : SumOf(w, T) = w[y] + SumOf(w, T \ {y})}
<1>1. \A T \in SUBSET S :
        IsFiniteSet(T) /\ Cardinality(T) \in Nat /\ Weighs(w, T)
  BY FS_Subset, FS_CardinalityType DEF Weighs
<1>2. 0 \in Good
  <2>1. \A T \in SUBSET S : Cardinality(T) = 0 => T = {}
    BY <1>1, FS_EmptySet
  <2> QED BY <2>1
<1>3. ASSUME NEW n \in Nat, n \in Good PROVE n + 1 \in Good
  <2> SUFFICES ASSUME NEW T \in SUBSET S, Cardinality(T) = n + 1, NEW y \in T
               PROVE  SumOf(w, T) = w[y] + SumOf(w, T \ {y})
    OBVIOUS
  <2>1. PICK t : t = Taken(T)
    OBVIOUS
  <2>2. t \in T
    BY <2>1 DEF Taken
  <2>3. SumOf(w, T) = w[t] + SumOf(w, T \ {t})
    BY <1>1, <2>1, <2>2, SumTakes
  <2>4. \A z \in T : Cardinality(T \ {z}) = n /\ (T \ {z}) \in SUBSET S
    <3> SUFFICES ASSUME NEW z \in T PROVE Cardinality(T \ {z}) = n
      OBVIOUS
    <3>1. Cardinality(T \ {z}) = Cardinality(T) - 1
      BY <1>1, FS_RemoveElement
    <3> QED BY <3>1
  <2>5. CASE y = t
    BY <2>3, <2>5
  <2>6. CASE y # t
    <3>1. SumOf(w, T \ {t}) = w[y] + SumOf(w, (T \ {t}) \ {y})
      <4>1. y \in T \ {t}
        BY <2>6
      <4> QED BY <1>3, <2>2, <2>4, <4>1
    <3>2. SumOf(w, T \ {y}) = w[t] + SumOf(w, (T \ {y}) \ {t})
      <4>1. t \in T \ {y}
        BY <2>2, <2>6
      <4> QED BY <1>3, <2>4, <4>1
    <3>3. (T \ {t}) \ {y} = (T \ {y}) \ {t}
      OBVIOUS
    <3>4. PICK rest : rest = SumOf(w, (T \ {y}) \ {t})
      OBVIOUS
    <3>5. rest \in Nat /\ w[y] \in Nat /\ w[t] \in Nat
      <4>1. ((T \ {y}) \ {t}) \in SUBSET S
        OBVIOUS
      <4>2. rest \in Nat
        BY <1>1, <3>4, <4>1, SumTakes
      <4> QED BY <2>2, <4>2 DEF Weighs
    <3>6. SumOf(w, T) = w[t] + (w[y] + rest) /\ SumOf(w, T \ {y}) = w[t] + rest
      BY <2>3, <3>1, <3>2, <3>3, <3>4
    <3> QED BY <3>5, <3>6
  <2> QED BY <2>5, <2>6
<1>4. Nat \subseteq Good
  <2> HIDE DEF Good
  <2> QED BY <1>2, <1>3, EveryNatural
<1>5. Cardinality(S) \in Good /\ S \in SUBSET S
  BY <1>1, <1>4
<1> QED BY <1>5

\* and grows with the set.
LEMMA SumGrows ==
  ASSUME NEW S, IsFiniteSet(S), NEW x, x \notin S, NEW w, Weighs(w, S),
         w[x] \in Nat
  PROVE  SumOf(w, S \cup {x}) = w[x] + SumOf(w, S)
<1> DEFINE T == S \cup {x}
<1>1. IsFiniteSet(T) /\ Weighs(w, T) /\ x \in T
  BY FS_AddElement DEF Weighs
<1>2. T \ {x} = S
  OBVIOUS
<1> HIDE DEF T
<1>3. SumOf(w, T) = w[x] + SumOf(w, T \ {x})
  BY <1>1, SumSplits
<1> QED BY <1>2, <1>3 DEF T

\* The sum over no members is zero.
LEMMA SumOfNone == \A w : SumOf(w, {}) = 0
<1> SUFFICES ASSUME NEW w PROVE SumOf(w, {}) = 0
  OBVIOUS
<1>1. IsFiniteSet({}) /\ Weighs(w, {})
  BY FS_EmptySet DEF Weighs
<1> QED BY <1>1, SumTakes

\* No member weighs more than all of them together.
LEMMA SumBounds ==
  ASSUME NEW S, IsFiniteSet(S), NEW w, Weighs(w, S)
  PROVE  SumOf(w, S) \in Nat /\ \A x \in S : w[x] <= SumOf(w, S)
<1>1. SumOf(w, S) \in Nat
  BY SumTakes
<1>2. ASSUME NEW x \in S PROVE w[x] <= SumOf(w, S)
  <2>1. IsFiniteSet(S \ {x}) /\ Weighs(w, S \ {x})
    BY FS_Subset DEF Weighs
  <2>2. SumOf(w, S \ {x}) \in Nat
    BY <2>1, SumTakes
  <2>3. w[x] \in Nat /\ SumOf(w, S) = w[x] + SumOf(w, S \ {x})
    BY SumSplits DEF Weighs
  <2> QED BY <2>2, <2>3
<1> QED BY <1>1, <1>2

\* Equal weights, equal sums.
LEMMA SumAgrees ==
  ASSUME NEW S, IsFiniteSet(S), NEW w, Weighs(w, S),
         NEW v, \A x \in S : w[x] = v[x]
  PROVE  SumOf(w, S) = SumOf(v, S)
<1>1. Weighs(v, S)
  BY DEF Weighs
<1>2. PICK f \in [SUBSET S -> Nat] : Totals(f, w, S)
  BY TotalsExist
<1>3. PICK g \in [SUBSET S -> Nat] : Totals(g, v, S)
  BY <1>1, TotalsExist
<1>4. f[S] = g[S]
  BY <1>2, <1>3, TotalsAgree
<1>5. SumOf(w, S) = f[S] /\ SumOf(v, S) = g[S]
  BY <1>1, <1>2, <1>3, SumTakes
<1> QED BY <1>4, <1>5

-----------------------------------------------------------------------------
(* The folds of the module are sums                                        *)

TimeOf(checks) == [c \in checks |-> c.response_time_ms]

\* The fold of compute_response_time_stats over the response times is a sum.
LEMMA TotalTimeIsSum ==
  ASSUME NEW checks, IsFiniteSet(checks),
         \A c \in checks : c.response_time_ms \in Nat
  PROVE  TotalTime(checks) = SumOf(TimeOf(checks), checks)
<1> DEFINE IsFold(g) ==
      g = [s \in SUBSET checks |->
             IF s = {} THEN 0
             ELSE (CHOOSE x \in s : TRUE).response_time_ms
                    + g[s \ {CHOOSE x \in s : TRUE}]]
<1>1. Weighs(TimeOf(checks), checks)
  BY DEF Weighs, TimeOf
<1>2. \A g : IsFold(g) <=> Totals(g, TimeOf(checks), checks)
  <2> SUFFICES ASSUME NEW g
               PROVE  IsFold(g) <=> Totals(g, TimeOf(checks), checks)
    OBVIOUS
  <2>1. \A s \in SUBSET checks : s # {} =>
          TimeOf(checks)[Taken(s)] = (CHOOSE x \in s : TRUE).response_time_ms
    <3> SUFFICES ASSUME NEW s \in SUBSET checks, s # {}
                 PROVE  TimeOf(checks)[Taken(s)] =
                          (CHOOSE x \in s : TRUE).response_time_ms
      OBVIOUS
    <3>1. (CHOOSE x \in s : TRUE) \in checks
      OBVIOUS
    <3> QED BY <3>1 DEF TimeOf, Taken
  <2>2. [s \in SUBSET checks |->
           IF s = {} THEN 0
           ELSE (CHOOSE x \in s : TRUE).response_time_ms
                  + g[s \ {CHOOSE x \in s : TRUE}]]
        = [s \in SUBSET checks |->
             IF s = {} THEN 0
             ELSE TimeOf(checks)[Taken(s)] + g[s \ {Taken(s)}]]
    BY <2>1 DEF Taken
  <2> QED BY <2>2, Zenon DEF Totals
<1>3. PICK h \in [SUBSET checks -> Nat] : Totals(h, TimeOf(checks), checks)
  BY <1>1, TotalsExist
<1>4. \E g : IsFold(g)
  <2> HIDE DEF IsFold
  <2> QED BY <1>2, <1>3
<1>5. \E g : IsFold(g) /\ TotalTime(checks) = g[checks]
  BY <1>4, Zenon DEF TotalTime, MapThenSumSet, MapThenFoldSet
<1> HIDE DEF IsFold
<1> QED BY <1>1, <1>2, <1>5, SumTakes

-----------------------------------------------------------------------------
(* Order statistics                                                        *)

AtMost(checks, v) == {c \in checks : c.response_time_ms <= v}
Below(checks, v) == {c \in checks : c.response_time_ms < v}

\* The k-th smallest response time is that of a check: fewer than k are below
\* it, and k are not above it.
LEMMA NthSmallestExists ==
  ASSUME NEW checks, IsFiniteSet(checks),
         \A c \in checks : c.response_time_ms \in Nat,
         NEW k \in 1..Cardinality(checks)
  PROVE  /\ \E c \in checks : NthSmallest(checks, k) = c.response_time_ms
         /\ NthSmallest(checks, k) \in Nat
         /\ Cardinality(Below(checks, NthSmallest(checks, k))) < k
         /\ k <= Cardinality(AtMost(checks, NthSmallest(checks, k)))
<1>1. \A v : /\ IsFiniteSet(AtMost(checks, v)) /\ Cardinality(AtMost(checks, v)) \in Nat
             /\ IsFiniteSet(Below(checks, v)) /\ Cardinality(Below(checks, v)) \in Nat
  <2> SUFFICES ASSUME NEW v
               PROVE  /\ IsFiniteSet(AtMost(checks, v)) /\ Cardinality(AtMost(checks, v)) \in Nat
                      /\ IsFiniteSet(Below(checks, v)) /\ Cardinality(Below(checks, v)) \in Nat
    OBVIOUS
  <2>1. AtMost(checks, v) \in SUBSET checks /\ Below(checks, v) \in SUBSET checks
    BY DEF AtMost, Below
  <2> QED BY <2>1, FS_Subset, FS_CardinalityType
<1>2. Cardinality(checks) \in Nat /\ k \in Nat \ {0} /\ k <= Cardinality(checks)
  BY FS_CardinalityType
<1> DEFINE Enough == {b \in Nat : k <= Cardinality(AtMost(checks, b))}
<1>3. Enough # {}
  <2>1. Weighs(TimeOf(checks), checks)
    BY DEF Weighs, TimeOf
  <2>2. PICK b \in Nat : \A c \in checks : TimeOf(checks)[c] <= b
    BY <2>1, SumBounds
  <2>3. AtMost(checks, b) = checks
    BY <2>2 DEF TimeOf, AtMost
  <2> QED BY <1>2, <2>3
<1>4. PICK b \in Enough : \A a \in Enough : b <= a
  <2> HIDE DEF Enough
  <2>1. Enough \in SUBSET Nat
    BY DEF Enough
  <2> QED BY <1>3, <2>1, LeastNatural
<1>5. b \in Nat /\ k <= Cardinality(AtMost(checks, b))
  OBVIOUS
<1>6. Cardinality(Below(checks, b)) < k
  <2>1. CASE b = 0
    <3>1. Below(checks, b) = {}
      BY <2>1 DEF Below
    <3> QED BY <1>2, <3>1, FS_EmptySet
  <2>2. CASE b # 0
    <3>1. b - 1 \in Nat /\ ~(b <= b - 1)
      BY <1>5, <2>2
    <3>2. \A n \in Nat : n < b <=> n <= b - 1
      BY <1>5, <2>2
    <3>3. Below(checks, b) = AtMost(checks, b - 1)
      BY <3>2 DEF Below, AtMost
    <3>4. ~(k <= Cardinality(AtMost(checks, b - 1)))
      BY <1>4, <3>1
    <3> QED BY <1>1, <1>2, <3>3, <3>4
  <2> QED BY <2>1, <2>2
<1>7. \E c \in checks : b = c.response_time_ms
  <2>1. Below(checks, b) # AtMost(checks, b)
    <3>1. \A m, n \in Nat : m < k /\ k <= n => m # n
      BY <1>2
    <3> QED BY <1>1, <1>5, <1>6, <3>1
  <2>2. \A n \in Nat : n <= b => n < b \/ n = b
    BY <1>5
  <2>3. \A n \in Nat : n < b => n <= b
    BY <1>5
  <2>4. PICK c \in checks : c \in AtMost(checks, b) /\ c \notin Below(checks, b)
    BY <2>1, <2>3 DEF AtMost, Below
  <2> QED BY <2>2, <2>4 DEF AtMost, Below
<1> DEFINE IsNth(v) ==
      /\ Cardinality({c \in checks : c.response_time_ms < v}) < k
      /\ k <= Cardinality({c \in checks : c.response_time_ms <= v})
<1>8. \E v \in {c.response_time_ms : c \in checks} : IsNth(v)
  BY <1>5, <1>6, <1>7 DEF AtMost, Below
<1>9. NthSmallest(checks, k) \in {c.response_time_ms : c \in checks}
      /\ IsNth(NthSmallest(checks, k))
  BY <1>8, Zenon DEF NthSmallest
<1> QED BY <1>9 DEF AtMost, Below

\* n \div 100, by what it is.
LEMMA Rank95Bounds ==
  ASSUME NEW n \in Nat \ {0}
  PROVE  /\ Rank95(n) \in 1..n
         /\ 100 * Rank95(n) >= 95 * n
         /\ \A c \in Nat : 100 * c >= 95 * n /\ c <= n => c >= Rank95(n)
<1>1. (95 * n + 99) \div 100 \in Nat
  OBVIOUS
<1>2. PICK q \in Nat : q = (95 * n + 99) \div 100
  BY <1>1
<1>3. 100 * q <= 95 * n + 99 /\ 95 * n + 99 < 100 * q + 100
  BY <1>2
<1>4. Rank95(n) = IF n <= q THEN n ELSE q
  BY <1>2 DEF Rank95, Smaller
<1> QED BY <1>3, <1>4

\* round() returns the nearest integer.
LEMMA RoundedIsNearest ==
  ASSUME NEW a \in Nat, NEW b \in Nat \ {0}
  PROVE  /\ RoundedQuotient(a, b) \in Nat
         /\ 2 * (RoundedQuotient(a, b) * b - a) <= b
         /\ 2 * (a - RoundedQuotient(a, b) * b) <= b
<1>1. PICK q, r : q = a \div b /\ r = a % b
  OBVIOUS
<1>2. q \in Nat /\ r \in Nat /\ r < b /\ a = b * q + r
  BY <1>1
<1>3. RoundedQuotient(a, b) \in {q, q + 1}
      /\ (RoundedQuotient(a, b) = q => 2 * r <= b)
      /\ (RoundedQuotient(a, b) = q + 1 => 2 * r >= b)
  BY <1>1, <1>2 DEF RoundedQuotient
<1>4. PICK p \in Nat : p = b * q /\ p = q * b
  BY <1>2
<1>5. (q + 1) * b = p + b
  BY <1>2, <1>4
<1>6. CASE RoundedQuotient(a, b) = q
  BY <1>2, <1>3, <1>4, <1>6
<1>7. CASE RoundedQuotient(a, b) = q + 1
  BY <1>2, <1>3, <1>4, <1>5, <1>7
<1> QED BY <1>3, <1>6, <1>7

\* What compute_response_time_stats makes of the checks of an hour: a mean
\* rounded to the nearest, bounds that hold for all, and as p95 the least
\* response time that 95 % of them do not exceed.
LEMMA ResponseTimeStatsCorrect ==
  ASSUME NEW checks, IsFiniteSet(checks), checks # {},
         \A c \in checks : c.response_time_ms \in Nat,
         NEW x, x = ResponseTimeStats(checks),
         NEW n, n = Cardinality(checks)
  PROVE  /\ x.avg \in Nat /\ x.minimum \in Nat /\ x.maximum \in Nat
         /\ x.p95 \in Nat
         /\ n \in Nat \ {0} /\ TotalTime(checks) \in Nat
         /\ 2 * (x.avg * n - TotalTime(checks)) <= n
         /\ 2 * (TotalTime(checks) - x.avg * n) <= n
         /\ \A c \in checks : /\ x.minimum <= c.response_time_ms
                              /\ c.response_time_ms <= x.maximum
         /\ \E c \in checks : x.p95 = c.response_time_ms
         /\ 100 * Cardinality(AtMost(checks, x.p95)) >= 95 * n
         /\ \A v \in Nat : 100 * Cardinality(AtMost(checks, v)) >= 95 * n =>
                             x.p95 <= v
<1>1. n \in Nat \ {0}
  BY FS_CardinalityType, FS_EmptySet
<1>2. /\ x.avg = RoundedQuotient(TotalTime(checks), n)
      /\ x.minimum = NthSmallest(checks, 1) /\ x.maximum = NthSmallest(checks, n)
      /\ x.p95 = NthSmallest(checks, Rank95(n))
  BY DEF ResponseTimeStats
<1>3. TotalTime(checks) \in Nat
  <2>1. Weighs(TimeOf(checks), checks)
    BY DEF Weighs, TimeOf
  <2>2. SumOf(TimeOf(checks), checks) \in Nat
    BY <2>1, SumTakes
  <2>3. TotalTime(checks) = SumOf(TimeOf(checks), checks)
    BY TotalTimeIsSum
  <2> QED BY <2>2, <2>3
<1>4. \A v : /\ IsFiniteSet(AtMost(checks, v)) /\ Cardinality(AtMost(checks, v)) \in Nat
             /\ Cardinality(AtMost(checks, v)) <= n
             /\ IsFiniteSet(Below(checks, v)) /\ Cardinality(Below(checks, v)) \in Nat
  <2> SUFFICES ASSUME NEW v
               PROVE  /\ IsFiniteSet(AtMost(checks, v)) /\ Cardinality(AtMost(checks, v)) \in Nat
                      /\ Cardinality(AtMost(checks, v)) <= n
                      /\ IsFiniteSet(Below(checks, v)) /\ Cardinality(Below(checks, v)) \in Nat
    OBVIOUS
  <2>1. AtMost(checks, v) \in SUBSET checks /\ Below(checks, v) \in SUBSET checks
    BY DEF AtMost, Below
  <2> QED BY <2>1, FS_Subset, FS_CardinalityType
<1>5. /\ x.minimum \in Nat
      /\ \A c \in checks : x.minimum <= c.response_time_ms
  <2>1. 1 \in 1..n
    BY <1>1
  <2>2. x.minimum \in Nat /\ Cardinality(Below(checks, x.minimum)) < 1
    BY <1>2, <2>1, NthSmallestExists
  <2>3. Below(checks, x.minimum) = {}
    <3>1. Cardinality(Below(checks, x.minimum)) = 0
      BY <1>4, <2>2
    <3> QED BY <1>4, <3>1, FS_EmptySet
  <2>4. \A a, b \in Nat : ~(a < b) => b <= a
    OBVIOUS
  <2> QED BY <2>2, <2>3, <2>4 DEF Below
<1>6. /\ x.maximum \in Nat
      /\ \A c \in checks : c.response_time_ms <= x.maximum
  <2>1. n \in 1..n
    BY <1>1
  <2>2. x.maximum \in Nat /\ n <= Cardinality(AtMost(checks, x.maximum))
    BY <1>2, <2>1, NthSmallestExists
  <2>3. AtMost(checks, x.maximum) = checks
    <3>1. Cardinality(AtMost(checks, x.maximum)) = n
      BY <1>1, <1>4, <2>2
    <3>2. AtMost(checks, x.maximum) \in SUBSET checks
      BY DEF AtMost
    <3> QED BY <3>1, <3>2, FS_Subset
  <2> QED BY <2>2, <2>3 DEF AtMost
<1>7. /\ \E c \in checks : x.p95 = c.response_time_ms
      /\ x.p95 \in Nat
      /\ 100 * Cardinality(AtMost(checks, x.p95)) >= 95 * n
      /\ \A v \in Nat : 100 * Cardinality(AtMost(checks, v)) >= 95 * n => x.p95 <= v
  <2>1. PICK k : k = Rank95(n)
    OBVIOUS
  <2>2. /\ k \in 1..n /\ 100 * k >= 95 * n
        /\ \A c \in Nat : 100 * c >= 95 * n /\ c <= n => c >= k
    BY <1>1, <2>1, Rank95Bounds
  <2>3. /\ \E c \in checks : x.p95 = c.response_time_ms
        /\ x.p95 \in Nat
        /\ Cardinality(Below(checks, x.p95)) < k
        /\ k <= Cardinality(AtMost(checks, x.p95))
    BY <1>2, <2>1, <2>2, NthSmallestExists
  <2>4. 100 * Cardinality(AtMost(checks, x.p95)) >= 95 * n
    <3>1. \A c \in Nat : k <= c => 100 * c >= 95 * n
      BY <1>1, <2>2
    <3> QED BY <1>4, <2>3, <3>1
  <2>5. ASSUME NEW v \in Nat, 100 * Cardinality(AtMost(checks, v)) >= 95 * n
        PROVE  x.p95 <= v
    <3>1. Cardinality(AtMost(checks, v)) >= k
      BY <1>4, <2>2, <2>5
    <3> SUFFICES ASSUME v < x.p95 PROVE FALSE
      BY <2>3
    <3>2. \A a \in Nat : a <= v => a < x.p95
      BY <2>3
    <3>3. AtMost(checks, v) \in SUBSET Below(checks, x.p95)
      BY <3>2 DEF AtMost, Below
    <3>4. Cardinality(AtMost(checks, v)) <= Cardinality(Below(checks, x.p95))
      BY <1>4, <3>3, FS_Subset
    <3> QED BY <1>4, <2>2, <2>3, <3>1, <3>4
  <2> QED BY <2>3, <2>4, <2>5
<1>8. /\ x.avg \in Nat
      /\ 2 * (x.avg * n - TotalTime(checks)) <= n
      /\ 2 * (TotalTime(checks) - x.avg * n) <= n
  BY <1>1, <1>2, <1>3, RoundedIsNearest
<1> QED BY <1>1, <1>3, <1>5, <1>6, <1>7, <1>8

-----------------------------------------------------------------------------
(* Downtime                                                                *)

\* The ticks of the hour that a window covers.
TicksOf(w, hour_start, hour_end) ==
  {t \in hour_start..(hour_end - 1) :
     w.started_at <= t /\ (w.resolved_at = 0 \/ t < w.resolved_at)}

\* What a window contributes is the number of ticks it covers.
LEMMA OverlapIsTicks ==
  ASSUME NEW w, w.started_at \in Nat, w.resolved_at \in Nat,
         NEW hour_start \in Nat, NEW hour_end \in Nat
  PROVE  /\ Overlap(w, hour_start, hour_end) \in Nat
         /\ IsFiniteSet(TicksOf(w, hour_start, hour_end))
         /\ Cardinality(TicksOf(w, hour_start, hour_end)) =
              Overlap(w, hour_start, hour_end)
<1>1. PICK to \in Nat : to = IF w.resolved_at = 0 THEN hour_end
                             ELSE Smaller(w.resolved_at, hour_end)
  BY DEF Smaller
<1>2. PICK from \in Nat : from = Larger(w.started_at, hour_start)
  BY DEF Larger
<1>3. Overlap(w, hour_start, hour_end) = Larger(0, to - from)
  BY <1>1, <1>2 DEF Overlap
<1>4. TicksOf(w, hour_start, hour_end) = from..(to - 1)
  <2>1. \A t \in Int : t \in from..(to - 1) <=>
          t \in hour_start..(hour_end - 1) /\ w.started_at <= t
          /\ (w.resolved_at = 0 \/ t < w.resolved_at)
    BY <1>1, <1>2 DEF Smaller, Larger
  <2> QED BY <2>1 DEF TicksOf
<1>5. /\ IsFiniteSet(from..(to - 1))
      /\ Cardinality(from..(to - 1)) =
           IF from > to - 1 THEN 0 ELSE (to - 1) - from + 1
  <2>1. from \in Int /\ to - 1 \in Int
    OBVIOUS
  <2> QED BY <2>1, FS_Interval
<1>6. Larger(0, to - from) \in Nat
      /\ Larger(0, to - from) = IF from > to - 1 THEN 0 ELSE (to - 1) - from + 1
  BY DEF Larger
<1> QED BY <1>3, <1>4, <1>5, <1>6

OverlapOf(windows, hour_start, hour_end) ==
  [w \in windows |-> Overlap(w, hour_start, hour_end)]

\* compute_downtime_seconds adds up the overlaps of the windows.
LEMMA DowntimeIsSum ==
  ASSUME NEW windows, IsFiniteSet(windows), NEW hour_start, NEW hour_end,
         \A w \in windows : Overlap(w, hour_start, hour_end) \in Nat
  PROVE  DowntimeSeconds(windows, hour_start, hour_end) =
           SumOf(OverlapOf(windows, hour_start, hour_end), windows)
<1> DEFINE IsFold(g) ==
      g = [s \in SUBSET windows |->
             IF s = {} THEN 0
             ELSE Overlap(CHOOSE x \in s : TRUE, hour_start, hour_end)
                    + g[s \ {CHOOSE x \in s : TRUE}]]
<1>0. PICK v : v = OverlapOf(windows, hour_start, hour_end)
  OBVIOUS
<1>1. Weighs(v, windows)
  BY <1>0 DEF Weighs, OverlapOf
<1>2. \A g : IsFold(g) <=> Totals(g, v, windows)
  <2> SUFFICES ASSUME NEW g
               PROVE  IsFold(g) <=> Totals(g, v, windows)
    OBVIOUS
  <2>1. \A s \in SUBSET windows : s # {} =>
          v[Taken(s)] = Overlap(CHOOSE x \in s : TRUE, hour_start, hour_end)
    <3> SUFFICES ASSUME NEW s \in SUBSET windows, s # {}
                 PROVE  v[Taken(s)] =
                          Overlap(CHOOSE x \in s : TRUE, hour_start, hour_end)
      OBVIOUS
    <3>1. (CHOOSE x \in s : TRUE) \in windows
      OBVIOUS
    <3> QED BY <1>0, <3>1 DEF OverlapOf, Taken
  <2>2. [s \in SUBSET windows |->
           IF s = {} THEN 0
           ELSE Overlap(CHOOSE x \in s : TRUE, hour_start, hour_end)
                  + g[s \ {CHOOSE x \in s : TRUE}]]
        = [s \in SUBSET windows |->
             IF s = {} THEN 0 ELSE v[Taken(s)] + g[s \ {Taken(s)}]]
    BY <2>1 DEF Taken
  <2> QED BY <2>2, Zenon DEF Totals
<1>3. PICK h \in [SUBSET windows -> Nat] : Totals(h, v, windows)
  BY <1>1, TotalsExist
<1>4. \E g : IsFold(g)
  <2> HIDE DEF IsFold
  <2> QED BY <1>2, <1>3
<1>5. \E g : IsFold(g) /\ DowntimeSeconds(windows, hour_start, hour_end) = g[windows]
  BY <1>4, Zenon DEF DowntimeSeconds, MapThenSumSet, MapThenFoldSet
<1> HIDE DEF IsFold
<1> QED BY <1>0, <1>1, <1>2, <1>5, SumTakes

\* The downtime of an hour is a natural number.
LEMMA DowntimeType ==
  ASSUME NEW windows, IsFiniteSet(windows),
         NEW hour_start \in Nat, NEW hour_end \in Nat,
         \A w \in windows : w.started_at \in Nat /\ w.resolved_at \in Nat
  PROVE  DowntimeSeconds(windows, hour_start, hour_end) \in Nat
<1>1. PICK v : v = OverlapOf(windows, hour_start, hour_end)
  OBVIOUS
<1>2. \A w \in windows : Overlap(w, hour_start, hour_end) \in Nat
  BY OverlapIsTicks
<1>3. Weighs(v, windows)
  BY <1>1, <1>2 DEF Weighs, OverlapOf
<1>4. SumOf(v, windows) \in Nat
  BY <1>3, SumTakes
<1> QED BY <1>1, <1>2, <1>4, DowntimeIsSum

-----------------------------------------------------------------------------
(* Sums of sizes                                                           *)

\* U consists of finite sets that have nothing in common.
Parted(U, part, I) ==
  /\ IsFiniteSet(I)
  /\ \A i \in I : IsFiniteSet(part[i])
  /\ \A i, j \in I : i # j => part[i] \cap part[j] = {}
  /\ U = UNION {part[i] : i \in I}

\* The sizes of the parts add up to that of the whole.
LEMMA SizesAddUp ==
  ASSUME NEW I, NEW part, NEW U, Parted(U, part, I), NEW size,
         \A i \in I : size[i] = Cardinality(part[i])
  PROVE  IsFiniteSet(U) /\ SumOf(size, I) = Cardinality(U)
<1> DEFINE All(T) == UNION {part[i] : i \in T}
           Good == {T \in SUBSET I :
                      IsFiniteSet(All(T)) /\ SumOf(size, T) = Cardinality(All(T))}
<1>p. /\ IsFiniteSet(I)
      /\ \A i \in I : IsFiniteSet(part[i])
      /\ \A i, j \in I : i # j => part[i] \cap part[j] = {}
      /\ U = UNION {part[i] : i \in I}
  BY DEF Parted
<1>1. \A i \in I : size[i] \in Nat
  BY <1>p, FS_CardinalityType
<1>2. {} \in Good
  <2>1. All({}) = {}
    OBVIOUS
  <2> QED BY <2>1, SumOfNone, FS_EmptySet
<1>3. ASSUME NEW T \in SUBSET I, NEW x \in I \ T, T \in Good
      PROVE  (T \cup {x}) \in Good
  <2>1. IsFiniteSet(T) /\ Weighs(size, T)
    BY <1>1, <1>p, FS_Subset DEF Weighs
  <2>2. SumOf(size, T \cup {x}) = size[x] + SumOf(size, T)
    BY <1>1, <2>1, SumGrows
  <2>3. All(T \cup {x}) = All(T) \cup part[x]
    OBVIOUS
  <2>4. All(T) \cap part[x] = {}
    <3>1. \A i \in T : i # x /\ i \in I
      OBVIOUS
    <3> QED BY <1>p, <3>1
  <2>5. PICK A : A = All(T)
    OBVIOUS
  <2>6. IsFiniteSet(A) /\ SumOf(size, T) = Cardinality(A) /\ A \cap part[x] = {}
    BY <1>3, <2>4, <2>5
  <2>7. IsFiniteSet(part[x]) /\ size[x] = Cardinality(part[x])
    BY <1>p
  <2>8. /\ IsFiniteSet(A \cup part[x])
        /\ Cardinality(A \cup part[x]) =
             Cardinality(A) + Cardinality(part[x]) - Cardinality(A \cap part[x])
    BY <2>6, <2>7, FS_Union
  <2>9. Cardinality(A) \in Nat /\ Cardinality(part[x]) \in Nat
        /\ Cardinality(A \cap part[x]) = 0
    BY <2>6, <2>7, FS_CardinalityType, FS_EmptySet
  <2>10. Cardinality(A \cup part[x]) = size[x] + SumOf(size, T)
    BY <2>6, <2>7, <2>8, <2>9
  <2> HIDE DEF All
  <2> QED BY <2>2, <2>3, <2>5, <2>8, <2>10
<1>4. I \in Good
  <2> HIDE DEF Good
  <2> QED BY <1>p, <1>2, <1>3, EveryFiniteSet
<1> QED BY <1>p, <1>4

\* Windows that do not overlap add up to the ticks they cover.
LEMMA DowntimeIsCoverage ==
  ASSUME NEW windows, IsFiniteSet(windows),
         NEW hour_start \in Nat, NEW hour_end \in Nat,
         \A w \in windows : w.started_at \in Nat /\ w.resolved_at \in Nat,
         \A v, w \in windows : v # w =>
           \/ v.resolved_at # 0 /\ v.resolved_at <= w.started_at
           \/ w.resolved_at # 0 /\ w.resolved_at <= v.started_at
  PROVE  /\ DowntimeSeconds(windows, hour_start, hour_end) =
              Cardinality(UNION {TicksOf(w, hour_start, hour_end) : w \in windows})
         /\ DowntimeSeconds(windows, hour_start, hour_end) \in Nat
<1> DEFINE part == [w \in windows |-> TicksOf(w, hour_start, hour_end)]
           size == OverlapOf(windows, hour_start, hour_end)
<1>1. \A w \in windows : /\ IsFiniteSet(part[w]) /\ size[w] = Cardinality(part[w])
                         /\ size[w] \in Nat
  BY OverlapIsTicks DEF OverlapOf
<1>2. \A v, w \in windows : v # w => part[v] \cap part[w] = {}
  <2> SUFFICES ASSUME NEW v \in windows, NEW w \in windows, v # w,
                      NEW t \in part[v], t \in part[w]
               PROVE  FALSE
    OBVIOUS
  <2>1. /\ t \in Int /\ v.started_at <= t /\ w.started_at <= t
        /\ v.resolved_at = 0 \/ t < v.resolved_at
        /\ w.resolved_at = 0 \/ t < w.resolved_at
    BY DEF TicksOf
  <2>2. \/ v.resolved_at # 0 /\ v.resolved_at <= w.started_at
        \/ w.resolved_at # 0 /\ w.resolved_at <= v.started_at
    OBVIOUS
  <2> HIDE DEF part
  <2> QED BY <2>1, <2>2
<1>3. DowntimeSeconds(windows, hour_start, hour_end) = SumOf(size, windows)
  <2>1. \A w \in windows : Overlap(w, hour_start, hour_end) \in Nat
    BY OverlapIsTicks
  <2> QED BY <2>1, DowntimeIsSum
<1>4. UNION {part[w] : w \in windows} =
        UNION {TicksOf(w, hour_start, hour_end) : w \in windows}
  OBVIOUS
<1> HIDE DEF part, size
<1>5. SumOf(size, windows) = Cardinality(UNION {part[w] : w \in windows})
  <2>1. \A w \in windows : IsFiniteSet(part[w]) /\ size[w] = Cardinality(part[w])
    BY <1>1
  <2>2. PICK p, z : p = part /\ z = size
    OBVIOUS
  <2>3. /\ \A w \in windows : IsFiniteSet(p[w])
        /\ \A w \in windows : z[w] = Cardinality(p[w])
        /\ \A v, w \in windows : v # w => p[v] \cap p[w] = {}
    BY <1>2, <2>1, <2>2
  <2>4. PICK U : U = UNION {p[w] : w \in windows}
    OBVIOUS
  <2>5. SumOf(z, windows) = Cardinality(U)
    <3>1. Parted(U, p, windows)
      BY <2>3, <2>4 DEF Parted
    <3> QED BY <2>3, <3>1, SizesAddUp
  <2> QED BY <2>2, <2>4, <2>5
<1>6. SumOf(size, windows) \in Nat
  BY <1>1, SumTakes DEF Weighs
<1> QED BY <1>3, <1>4, <1>5, <1>6

-----------------------------------------------------------------------------
(* Sums of sums                                                            *)

\* The sum over a set and the sum over another are the sum over both.
LEMMA SumJoins ==
  ASSUME NEW A, IsFiniteSet(A), NEW B, IsFiniteSet(B), A \cap B = {},
         NEW w, Weighs(w, A), Weighs(w, B)
  PROVE  SumOf(w, A \cup B) = SumOf(w, A) + SumOf(w, B)
<1> DEFINE Good == {T \in SUBSET B :
                      SumOf(w, A \cup T) = SumOf(w, A) + SumOf(w, T)}
<1>1. SumOf(w, A) \in Nat
  BY SumTakes
<1>2. {} \in Good
  <2>1. A \cup {} = A /\ SumOf(w, {}) = 0
    BY SumOfNone
  <2>2. \A a \in Nat : a = a + 0
    OBVIOUS
  <2> QED BY <1>1, <2>1, <2>2
<1>3. ASSUME NEW T \in SUBSET B, NEW x \in B \ T, T \in Good
      PROVE  (T \cup {x}) \in Good
  <2>1. PICK U : U = A \cup T
    OBVIOUS
  <2>2. IsFiniteSet(T) /\ Weighs(w, T) /\ x \notin T /\ w[x] \in Nat
    BY FS_Subset DEF Weighs
  <2>3. IsFiniteSet(U) /\ Weighs(w, U) /\ x \notin U
    BY <2>1, <2>2, FS_Union DEF Weighs
  <2>4. SumOf(w, U \cup {x}) = w[x] + SumOf(w, U)
    BY <2>2, <2>3, SumGrows
  <2>5. SumOf(w, T \cup {x}) = w[x] + SumOf(w, T)
    BY <2>2, SumGrows
  <2>6. SumOf(w, U) = SumOf(w, A) + SumOf(w, T)
    BY <1>3, <2>1
  <2>7. SumOf(w, T) \in Nat
    BY <2>2, SumTakes
  <2>8. U \cup {x} = A \cup (T \cup {x})
    BY <2>1
  <2>9. SumOf(w, U \cup {x}) = SumOf(w, A) + SumOf(w, T \cup {x})
    BY <1>1, <2>2, <2>4, <2>5, <2>6, <2>7
  <2> QED BY <2>8, <2>9
<1>4. B \in Good
  <2> HIDE DEF Good
  <2> QED BY <1>2, <1>3, EveryFiniteSet
<1> QED BY <1>4

\* The sums over the parts add up to that over the whole.
LEMMA SumsAddUp ==
  ASSUME NEW I, NEW part, NEW U, Parted(U, part, I), NEW w, NEW sum,
         \A i \in I : Weighs(w, part[i]) /\ sum[i] = SumOf(w, part[i])
  PROVE  IsFiniteSet(U) /\ Weighs(w, U) /\ Weighs(sum, I)
         /\ SumOf(sum, I) = SumOf(w, U)
<1> DEFINE All(T) == UNION {part[i] : i \in T}
           Good == {T \in SUBSET I :
                      IsFiniteSet(All(T)) /\ SumOf(sum, T) = SumOf(w, All(T))}
<1>p. /\ IsFiniteSet(I)
      /\ \A i \in I : IsFiniteSet(part[i])
      /\ \A i, j \in I : i # j => part[i] \cap part[j] = {}
      /\ U = UNION {part[i] : i \in I}
  BY DEF Parted
<1>1. \A i \in I : sum[i] \in Nat
  <2> SUFFICES ASSUME NEW i \in I PROVE sum[i] \in Nat
    OBVIOUS
  <2>1. PICK P : P = part[i]
    OBVIOUS
  <2>2. IsFiniteSet(P) /\ Weighs(w, P) /\ sum[i] = SumOf(w, P)
    BY <1>p, <2>1
  <2>3. SumOf(w, P) \in Nat
    BY <2>2, SumTakes
  <2> QED BY <2>2, <2>3
<1>2. \A T \in SUBSET I : Weighs(w, All(T))
  <2> SUFFICES ASSUME NEW T \in SUBSET I, NEW x \in All(T)
               PROVE  w[x] \in Nat
    BY DEF Weighs
  <2>1. PICK i \in T : x \in part[i]
    OBVIOUS
  <2>2. Weighs(w, part[i])
    OBVIOUS
  <2> QED BY <2>1, <2>2 DEF Weighs
<1>3. {} \in Good
  <2>1. All({}) = {}
    OBVIOUS
  <2> QED BY <2>1, SumOfNone, FS_EmptySet
<1>4. ASSUME NEW T \in SUBSET I, NEW x \in I \ T, T \in Good
      PROVE  (T \cup {x}) \in Good
  <2>1. IsFiniteSet(T) /\ Weighs(sum, T) /\ sum[x] \in Nat /\ x \notin T
    BY <1>1, <1>p, FS_Subset DEF Weighs
  <2>2. SumOf(sum, T \cup {x}) = sum[x] + SumOf(sum, T)
    BY <2>1, SumGrows
  <2>3. All(T \cup {x}) = All(T) \cup part[x]
    OBVIOUS
  <2>4. All(T) \cap part[x] = {}
    <3>1. \A i \in T : i # x /\ i \in I
      OBVIOUS
    <3> QED BY <1>p, <3>1
  <2>5. PICK A : A = All(T)
    OBVIOUS
  <2>6. IsFiniteSet(A) /\ SumOf(sum, T) = SumOf(w, A) /\ A \cap part[x] = {}
    BY <1>4, <2>4, <2>5
  <2>7. IsFiniteSet(part[x]) /\ Weighs(w, part[x]) /\ sum[x] = SumOf(w, part[x])
    BY <1>p
  <2>8. Weighs(w, A)
    BY <1>2, <2>5
  <2>9. IsFiniteSet(A \cup part[x])
    BY <2>6, <2>7, FS_Union
  <2>10. SumOf(w, A \cup part[x]) = SumOf(w, A) + SumOf(w, part[x])
    BY <2>6, <2>7, <2>8, SumJoins
  <2>11. SumOf(w, A) \in Nat
    BY <2>6, <2>8, SumTakes
  <2>12. SumOf(w, A \cup part[x]) = sum[x] + SumOf(sum, T)
    BY <2>1, <2>6, <2>7, <2>10, <2>11
  <2> HIDE DEF All
  <2> QED BY <2>2, <2>3, <2>5, <2>9, <2>12
<1>5. I \in Good
  <2> HIDE DEF Good
  <2> QED BY <1>p, <1>3, <1>4, EveryFiniteSet
<1>6. Weighs(w, U)
  BY <1>p, <1>2
<1> QED BY <1>p, <1>1, <1>5, <1>6 DEF Weighs

\* Where every p is within half of n of t, so are the sums.
LEMMA SumsStayNear ==
  ASSUME NEW S, IsFiniteSet(S), NEW p, NEW t, NEW n,
         Weighs(p, S), Weighs(t, S), Weighs(n, S),
         \A x \in S : 2 * (p[x] - t[x]) <= n[x] /\ 2 * (t[x] - p[x]) <= n[x]
  PROVE  /\ 2 * (SumOf(p, S) - SumOf(t, S)) <= SumOf(n, S)
         /\ 2 * (SumOf(t, S) - SumOf(p, S)) <= SumOf(n, S)
<1> DEFINE Good == {T \in SUBSET S :
                      /\ 2 * (SumOf(p, T) - SumOf(t, T)) <= SumOf(n, T)
                      /\ 2 * (SumOf(t, T) - SumOf(p, T)) <= SumOf(n, T)}
<1>1. {} \in Good
  <2>1. SumOf(p, {}) = 0 /\ SumOf(t, {}) = 0 /\ SumOf(n, {}) = 0
    BY SumOfNone
  <2> QED BY <2>1
<1>2. ASSUME NEW T \in SUBSET S, NEW x \in S \ T, T \in Good
      PROVE  (T \cup {x}) \in Good
  <2>1. /\ IsFiniteSet(T) /\ Weighs(p, T) /\ Weighs(t, T) /\ Weighs(n, T)
        /\ p[x] \in Nat /\ t[x] \in Nat /\ n[x] \in Nat
    BY FS_Subset DEF Weighs
  <2>2. /\ SumOf(p, T \cup {x}) = p[x] + SumOf(p, T)
        /\ SumOf(t, T \cup {x}) = t[x] + SumOf(t, T)
        /\ SumOf(n, T \cup {x}) = n[x] + SumOf(n, T)
    BY <2>1, SumGrows
  <2>3. SumOf(p, T) \in Nat /\ SumOf(t, T) \in Nat /\ SumOf(n, T) \in Nat
    BY <2>1, SumTakes
  <2>4. /\ 2 * (SumOf(p, T) - SumOf(t, T)) <= SumOf(n, T)
        /\ 2 * (SumOf(t, T) - SumOf(p, T)) <= SumOf(n, T)
    BY <1>2
  <2>5. \A a, b, c, d, e, f \in Nat :
          2 * (a - b) <= c /\ 2 * (d - e) <= f =>
            2 * ((a + d) - (b + e)) <= c + f
    OBVIOUS
  <2>6. /\ 2 * (p[x] - t[x]) <= n[x] /\ 2 * (t[x] - p[x]) <= n[x]
    OBVIOUS
  <2>7. /\ 2 * ((p[x] + SumOf(p, T)) - (t[x] + SumOf(t, T))) <= n[x] + SumOf(n, T)
        /\ 2 * ((t[x] + SumOf(t, T)) - (p[x] + SumOf(p, T))) <= n[x] + SumOf(n, T)
    BY <2>1, <2>3, <2>4, <2>5, <2>6
  <2> QED BY <2>2, <2>7
<1>3. S \in Good
  <2> HIDE DEF Good
  <2> QED BY <1>1, <1>2, EveryFiniteSet
<1> QED BY <1>3

-----------------------------------------------------------------------------
(* The folds over the rows of a period are sums                            *)

\* The checks of the rows,
ChecksOf(rows) == [row \in rows |-> row.checks_total]

\* checks_total of a period adds up the rows'.
LEMMA TotalIsSum ==
  ASSUME NEW rows, IsFiniteSet(rows),
         \A row \in rows : row.checks_total \in Nat
  PROVE  Total(rows) = SumOf(ChecksOf(rows), rows)
<1> DEFINE IsFold(g) ==
      g = [s \in SUBSET rows |->
             IF s = {} THEN 0
             ELSE (CHOOSE x \in s : TRUE).checks_total + g[s \ {CHOOSE x \in s : TRUE}]]
<1>1. Weighs(ChecksOf(rows), rows)
  BY DEF Weighs, ChecksOf
<1>2. \A g : IsFold(g) <=> Totals(g, ChecksOf(rows), rows)
  <2> SUFFICES ASSUME NEW g
               PROVE  IsFold(g) <=> Totals(g, ChecksOf(rows), rows)
    OBVIOUS
  <2>1. \A s \in SUBSET rows : s # {} =>
          ChecksOf(rows)[Taken(s)] = (CHOOSE x \in s : TRUE).checks_total
    <3> SUFFICES ASSUME NEW s \in SUBSET rows, s # {}
                 PROVE  ChecksOf(rows)[Taken(s)] = (CHOOSE x \in s : TRUE).checks_total
      OBVIOUS
    <3>1. (CHOOSE x \in s : TRUE) \in rows
      OBVIOUS
    <3> QED BY <3>1 DEF ChecksOf, Taken
  <2>2. [s \in SUBSET rows |->
           IF s = {} THEN 0
           ELSE (CHOOSE x \in s : TRUE).checks_total + g[s \ {CHOOSE x \in s : TRUE}]]
        = [s \in SUBSET rows |->
             IF s = {} THEN 0
             ELSE ChecksOf(rows)[Taken(s)] + g[s \ {Taken(s)}]]
    BY <2>1 DEF Taken
  <2> QED BY <2>2, Zenon DEF Totals
<1>3. PICK h \in [SUBSET rows -> Nat] : Totals(h, ChecksOf(rows), rows)
  BY <1>1, TotalsExist
<1>4. \E g : IsFold(g)
  <2> HIDE DEF IsFold
  <2> QED BY <1>2, <1>3
<1>5. \E g : IsFold(g) /\ Total(rows) = g[rows]
  BY <1>4, Zenon DEF Total, MapThenSumSet, MapThenFoldSet
<1> HIDE DEF IsFold
<1> QED BY <1>1, <1>2, <1>5, SumTakes

\* their failures,
FailuresOf(rows) == [row \in rows |-> row.checks_failed]

\* So does checks_failed,
LEMMA FailedIsSum ==
  ASSUME NEW rows, IsFiniteSet(rows),
         \A row \in rows : row.checks_failed \in Nat
  PROVE  Failed(rows) = SumOf(FailuresOf(rows), rows)
<1> DEFINE IsFold(g) ==
      g = [s \in SUBSET rows |->
             IF s = {} THEN 0
             ELSE (CHOOSE x \in s : TRUE).checks_failed + g[s \ {CHOOSE x \in s : TRUE}]]
<1>1. Weighs(FailuresOf(rows), rows)
  BY DEF Weighs, FailuresOf
<1>2. \A g : IsFold(g) <=> Totals(g, FailuresOf(rows), rows)
  <2> SUFFICES ASSUME NEW g
               PROVE  IsFold(g) <=> Totals(g, FailuresOf(rows), rows)
    OBVIOUS
  <2>1. \A s \in SUBSET rows : s # {} =>
          FailuresOf(rows)[Taken(s)] = (CHOOSE x \in s : TRUE).checks_failed
    <3> SUFFICES ASSUME NEW s \in SUBSET rows, s # {}
                 PROVE  FailuresOf(rows)[Taken(s)] = (CHOOSE x \in s : TRUE).checks_failed
      OBVIOUS
    <3>1. (CHOOSE x \in s : TRUE) \in rows
      OBVIOUS
    <3> QED BY <3>1 DEF FailuresOf, Taken
  <2>2. [s \in SUBSET rows |->
           IF s = {} THEN 0
           ELSE (CHOOSE x \in s : TRUE).checks_failed + g[s \ {CHOOSE x \in s : TRUE}]]
        = [s \in SUBSET rows |->
             IF s = {} THEN 0
             ELSE FailuresOf(rows)[Taken(s)] + g[s \ {Taken(s)}]]
    BY <2>1 DEF Taken
  <2> QED BY <2>2, Zenon DEF Totals
<1>3. PICK h \in [SUBSET rows -> Nat] : Totals(h, FailuresOf(rows), rows)
  BY <1>1, TotalsExist
<1>4. \E g : IsFold(g)
  <2> HIDE DEF IsFold
  <2> QED BY <1>2, <1>3
<1>5. \E g : IsFold(g) /\ Failed(rows) = g[rows]
  BY <1>4, Zenon DEF Failed, MapThenSumSet, MapThenFoldSet
<1> HIDE DEF IsFold
<1> QED BY <1>1, <1>2, <1>5, SumTakes

\* their successes,
WeightOf(rows) == [row \in rows |-> Weight(row)]

\* so do the weights of an average,
LEMMA WeightIsSum ==
  ASSUME NEW rows, IsFiniteSet(rows),
         \A row \in rows : Weight(row) \in Nat
  PROVE  MapThenSumSet(Weight, rows) = SumOf(WeightOf(rows), rows)
<1> DEFINE IsFold(g) ==
      g = [s \in SUBSET rows |->
             IF s = {} THEN 0
             ELSE Weight(CHOOSE x \in s : TRUE)
                    + g[s \ {CHOOSE x \in s : TRUE}]]
<1>1. Weighs(WeightOf(rows), rows)
  BY DEF Weighs, WeightOf
<1>2. \A g : IsFold(g) <=> Totals(g, WeightOf(rows), rows)
  <2> SUFFICES ASSUME NEW g
               PROVE  IsFold(g) <=> Totals(g, WeightOf(rows), rows)
    OBVIOUS
  <2>1. \A s \in SUBSET rows : s # {} =>
          WeightOf(rows)[Taken(s)] = Weight(CHOOSE x \in s : TRUE)
    <3> SUFFICES ASSUME NEW s \in SUBSET rows, s # {}
                 PROVE  WeightOf(rows)[Taken(s)] = Weight(CHOOSE x \in s : TRUE)
      OBVIOUS
    <3>1. (CHOOSE x \in s : TRUE) \in rows
      OBVIOUS
    <3> QED BY <3>1 DEF WeightOf, Taken
  <2>2. [s \in SUBSET rows |->
           IF s = {} THEN 0
           ELSE Weight(CHOOSE x \in s : TRUE)
                    + g[s \ {CHOOSE x \in s : TRUE}]]
        = [s \in SUBSET rows |->
             IF s = {} THEN 0
             ELSE WeightOf(rows)[Taken(s)] + g[s \ {Taken(s)}]]
    BY <2>1 DEF Taken
  <2> QED BY <2>2, Zenon DEF Totals
<1>3. PICK h \in [SUBSET rows -> Nat] : Totals(h, WeightOf(rows), rows)
  BY <1>1, TotalsExist
<1>4. \E g : IsFold(g)
  <2> HIDE DEF IsFold
  <2> QED BY <1>2, <1>3
<1>5. \E g : IsFold(g) /\ MapThenSumSet(Weight, rows) = g[rows]
  BY <1>4, Zenon DEF MapThenSumSet, MapThenFoldSet
<1> HIDE DEF IsFold
<1> QED BY <1>1, <1>2, <1>5, SumTakes

\* and a figure of theirs, weighted by them.
WeightedOf(rows, field_name) == [row \in rows |-> row[field_name] * Weight(row)]

\* and the weighted figures it is the mean of.
LEMMA WeightedIsSum ==
  ASSUME NEW rows, IsFiniteSet(rows), NEW field_name,
         \A row \in rows : row[field_name] * Weight(row) \in Nat
  PROVE  MapThenSumSet(LAMBDA row : row[field_name] * Weight(row), rows)
           = SumOf(WeightedOf(rows, field_name), rows)
<1> DEFINE IsFold(g) ==
      g = [s \in SUBSET rows |->
             IF s = {} THEN 0
             ELSE (CHOOSE x \in s : TRUE)[field_name] * Weight(CHOOSE x \in s : TRUE)
                    + g[s \ {CHOOSE x \in s : TRUE}]]
<1>1. Weighs(WeightedOf(rows, field_name), rows)
  BY DEF Weighs, WeightedOf
<1>2. \A g : IsFold(g) <=> Totals(g, WeightedOf(rows, field_name), rows)
  <2> SUFFICES ASSUME NEW g
               PROVE  IsFold(g) <=> Totals(g, WeightedOf(rows, field_name), rows)
    OBVIOUS
  <2>1. \A s \in SUBSET rows : s # {} =>
          WeightedOf(rows, field_name)[Taken(s)] =
            (CHOOSE x \in s : TRUE)[field_name] * Weight(CHOOSE x \in s : TRUE)
    <3> SUFFICES ASSUME NEW s \in SUBSET rows, s # {}
                 PROVE  WeightedOf(rows, field_name)[Taken(s)] =
            (CHOOSE x \in s : TRUE)[field_name] * Weight(CHOOSE x \in s : TRUE)
      OBVIOUS
    <3>1. (CHOOSE x \in s : TRUE) \in rows
      OBVIOUS
    <3> QED BY <3>1 DEF WeightedOf, Taken
  <2>2. [s \in SUBSET rows |->
           IF s = {} THEN 0
           ELSE (CHOOSE x \in s : TRUE)[field_name] * Weight(CHOOSE x \in s : TRUE)
                    + g[s \ {CHOOSE x \in s : TRUE}]]
        = [s \in SUBSET rows |->
             IF s = {} THEN 0
             ELSE WeightedOf(rows, field_name)[Taken(s)] + g[s \ {Taken(s)}]]
    BY <2>1 DEF Taken
  <2> QED BY <2>2, Zenon DEF Totals
<1>3. PICK h \in [SUBSET rows -> Nat] : Totals(h, WeightedOf(rows, field_name), rows)
  BY <1>1, TotalsExist
<1>4. \E g : IsFold(g)
  <2> HIDE DEF IsFold
  <2> QED BY <1>2, <1>3
<1>5. \E g : IsFold(g) /\
        MapThenSumSet(LAMBDA row : row[field_name] * Weight(row), rows) = g[rows]
  BY <1>4, Zenon DEF MapThenSumSet, MapThenFoldSet
<1> HIDE DEF IsFold
<1> QED BY <1>1, <1>2, <1>5, SumTakes

-----------------------------------------------------------------------------
(* Averages of averages                                                    *)

\* A sum is that over the members that weigh something.
LEMMA SumSkipsZeros ==
  ASSUME NEW S, IsFiniteSet(S), NEW w, Weighs(w, S),
         NEW T \in SUBSET S, \A x \in S \ T : w[x] = 0
  PROVE  IsFiniteSet(T) /\ Weighs(w, T) /\ SumOf(w, S) = SumOf(w, T)
<1> DEFINE Good == {R \in SUBSET S : SumOf(w, R) = SumOf(w, R \cap T)}
<1>1. {} \in Good
  <2>1. {} \cap T = {}
    OBVIOUS
  <2> QED BY <2>1
<1>2. ASSUME NEW R \in SUBSET S, NEW x \in S \ R, R \in Good
      PROVE  (R \cup {x}) \in Good
  <2>1. PICK K : K = R \cap T
    OBVIOUS
  <2>2. /\ IsFiniteSet(R) /\ Weighs(w, R) /\ x \notin R /\ w[x] \in Nat
        /\ IsFiniteSet(K) /\ Weighs(w, K) /\ x \notin K
    BY <2>1, FS_Subset DEF Weighs
  <2>3. SumOf(w, R \cup {x}) = w[x] + SumOf(w, R) /\ SumOf(w, R) \in Nat
    BY <2>2, SumGrows, SumTakes
  <2>4. SumOf(w, K \cup {x}) = w[x] + SumOf(w, K)
    BY <2>2, SumGrows
  <2>5. SumOf(w, R) = SumOf(w, K)
    BY <1>2, <2>1
  <2>6. SumOf(w, R \cup {x}) = SumOf(w, (R \cup {x}) \cap T)
    <3>1. CASE x \in T
      <4>1. (R \cup {x}) \cap T = K \cup {x}
        BY <2>1, <3>1
      <4> QED BY <2>3, <2>4, <2>5, <4>1
    <3>2. CASE x \notin T
      <4>1. (R \cup {x}) \cap T = K
        BY <2>1, <3>2
      <4>2. w[x] = 0
        BY <3>2
      <4>3. \A a \in Nat : 0 + a = a
        OBVIOUS
      <4>4. SumOf(w, R \cup {x}) = SumOf(w, R)
        BY <2>3, <4>2, <4>3
      <4> QED BY <2>5, <4>1, <4>4
    <3> QED BY <3>1, <3>2
  <2> QED BY <2>6
<1>3. S \in Good
  <2> HIDE DEF Good
  <2> QED BY <1>1, <1>2, EveryFiniteSet
<1>4. S \cap T = T
  OBVIOUS
<1> QED BY <1>3, <1>4, FS_Subset DEF Weighs

\* _weighted_average (stats.py): weighted by the successes of each row, rounded
\* averages have a rounded average that is at most one off the mean.
LEMMA WeightedAverageNear ==
  ASSUME NEW rows, IsFiniteSet(rows), NEW time, Weighs(time, rows),
         \A r \in rows : Weight(r) \in Nat /\ r.avg_response_ms \in Nat,
         \A r \in rows : Weight(r) = 0 => time[r] = 0,
         \A r \in rows : Weight(r) # 0 =>
           /\ r.timed
           /\ 2 * (r.avg_response_ms * Weight(r) - time[r]) <= Weight(r)
           /\ 2 * (time[r] - r.avg_response_ms * Weight(r)) <= Weight(r),
         NEW n, n = SumOf(WeightOf(rows), rows), n # 0,
         NEW sum, sum = SumOf(time, rows),
         NEW q, q = WeightedAverage(rows, "avg_response_ms")
  PROVE  /\ q \in Nat /\ n \in Nat /\ sum \in Nat
         /\ q * n - sum <= n /\ sum - q * n <= n
<1>1. PICK T : T = {r \in rows : r.timed /\ Weight(r) > 0}
  OBVIOUS
<1>2. T \in SUBSET rows /\ \A r \in rows \ T : Weight(r) = 0 /\ time[r] = 0
  BY <1>1
<1>3. PICK w : w = WeightOf(rows)
  OBVIOUS
<1>4. Weighs(w, rows) /\ \A r \in rows : w[r] = Weight(r)
  BY <1>3 DEF Weighs, WeightOf
<1>5. IsFiniteSet(T) /\ Weighs(w, T) /\ n = SumOf(w, T)
  BY <1>2, <1>3, <1>4, SumSkipsZeros
<1>6. Weighs(time, T) /\ sum = SumOf(time, T)
  BY <1>2, SumSkipsZeros
<1>7. PICK p : p = WeightedOf(T, "avg_response_ms")
  OBVIOUS
<1>8. /\ \A r \in T : p[r] = r.avg_response_ms * Weight(r)
      /\ Weighs(p, T)
  <2>1. \A r \in T : p[r] = r.avg_response_ms * Weight(r)
    BY <1>7 DEF WeightedOf
  <2>2. \A r \in T : r.avg_response_ms \in Nat /\ Weight(r) \in Nat
    BY <1>2
  <2>3. \A a, b \in Nat : a * b \in Nat
    OBVIOUS
  <2>4. \A r \in T : p[r] \in Nat
    BY <2>1, <2>2, <2>3
  <2> QED BY <2>1, <2>4 DEF Weighs
<1>9. /\ 2 * (SumOf(p, T) - SumOf(time, T)) <= SumOf(w, T)
      /\ 2 * (SumOf(time, T) - SumOf(p, T)) <= SumOf(w, T)
  <2>1. \A r \in T : /\ 2 * (p[r] - time[r]) <= w[r]
                     /\ 2 * (time[r] - p[r]) <= w[r]
    <3> SUFFICES ASSUME NEW r \in T
                 PROVE  /\ 2 * (p[r] - time[r]) <= w[r]
                        /\ 2 * (time[r] - p[r]) <= w[r]
      OBVIOUS
    <3>1. r \in rows /\ Weight(r) # 0
      BY <1>1
    <3>2. w[r] = Weight(r) /\ p[r] = r.avg_response_ms * Weight(r)
      BY <1>4, <1>8, <3>1
    <3> QED BY <3>1, <3>2
  <2> QED BY <1>5, <1>6, <1>8, <2>1, SumsStayNear
<1>10. PICK P : P = SumOf(p, T)
  OBVIOUS
<1>11. P \in Nat /\ n \in Nat /\ sum \in Nat
  <2>1. SumOf(p, T) \in Nat
    BY <1>5, <1>8, SumTakes
  <2>2. SumOf(w, T) \in Nat
    BY <1>5, SumTakes
  <2>3. SumOf(time, T) \in Nat
    BY <1>5, <1>6, SumTakes
  <2> QED BY <1>5, <1>6, <1>10, <2>1, <2>2, <2>3
<1>12. T # {}
  <2>1. SumOf(w, {}) = 0
    BY SumOfNone
  <2> QED BY <1>5, <2>1
<1>13. MapThenSumSet(Weight, T) = n
  <2>1. \A r \in T : Weight(r) \in Nat
    BY <1>2
  <2>2. MapThenSumSet(Weight, T) = SumOf(WeightOf(T), T)
    BY <1>5, <2>1, WeightIsSum
  <2>3. \A r \in T : w[r] = WeightOf(T)[r]
    BY <1>2, <1>4 DEF WeightOf
  <2> QED BY <1>5, <2>2, <2>3, SumAgrees
<1>14. MapThenSumSet(LAMBDA row : row["avg_response_ms"] * Weight(row), T) = P
  <2>1. \A r \in T : r["avg_response_ms"] * Weight(r) \in Nat
    BY <1>8 DEF Weighs
  <2> QED BY <1>5, <1>7, <1>10, <2>1, WeightedIsSum
<1>15. q = RoundedQuotient(P, n)
  BY <1>1, <1>12, <1>13, <1>14 DEF WeightedAverage
<1>16. q \in Nat /\ 2 * (q * n - P) <= n /\ 2 * (P - q * n) <= n
  BY <1>11, <1>15, RoundedIsNearest
<1>17. PICK a \in Nat : a = q * n
  BY <1>11, <1>16
<1>18. 2 * (P - sum) <= n /\ 2 * (sum - P) <= n
  BY <1>5, <1>6, <1>9, <1>10
<1>19. a - sum <= n /\ sum - a <= n
  BY <1>11, <1>16, <1>17, <1>18
<1> QED BY <1>11, <1>16, <1>17, <1>19

\* build_series (stats.py): every row is in one bucket, and the buckets add up
\* to the rows.
LEMMA SeriesAddUp ==
  ASSUME NEW rows, IsFiniteSet(rows), NEW bucket,
         \A row \in rows : row.checks_total \in Nat,
         NEW series, series = Series(rows, bucket)
  PROVE  /\ UNION {b.hours : b \in series} = {row.hour_start : row \in rows}
         /\ Total(rows) = Total(series)
<1> DEFINE Key(row) == row.hour_start \div bucket
           BucketOf(k) == {row \in rows : Key(row) = k}
           Entry(b) ==
             [hours                |-> {row.hour_start : row \in b},
              checks_total         |-> Total(b),
              checks_failed        |-> Failed(b),
              avg_response_time_ms |-> WeightedAverage(b, "avg_response_ms"),
              p95_response_time_ms |-> WeightedAverage(b, "p95_response_ms")]
           part == [r \in series |-> {row \in rows : row.hour_start \in r.hours}]
<1>1. series = {Entry(b) : b \in {BucketOf(k) : k \in {Key(row) : row \in rows}}}
  BY DEF Series, Buckets
<1>2. \A b : /\ Entry(b).hours = {row.hour_start : row \in b}
             /\ Entry(b).checks_total = Total(b)
  OBVIOUS
<1>3. \A p, q : p.hour_start = q.hour_start => Key(p) = Key(q)
  OBVIOUS
<1>4. \A k : BucketOf(k) \subseteq rows /\ \A row \in rows : row \in BucketOf(k) <=> Key(row) = k
  OBVIOUS
<1> HIDE DEF Key, BucketOf, Entry
<1>5. \A k : {row \in rows : row.hour_start \in Entry(BucketOf(k)).hours} = BucketOf(k)
  <2> SUFFICES ASSUME NEW k
               PROVE  {row \in rows : row.hour_start \in Entry(BucketOf(k)).hours}
                        = BucketOf(k)
    OBVIOUS
  <2>1. PICK B : B = BucketOf(k)
    OBVIOUS
  <2>2. Entry(B).hours = {row.hour_start : row \in B}
    BY <1>2
  <2>3. ASSUME NEW row \in rows, row.hour_start \in Entry(B).hours
        PROVE  row \in B
    <3>1. PICK p \in B : p.hour_start = row.hour_start
      BY <2>2, <2>3
    <3>2. p \in rows /\ Key(p) = k
      BY <1>4, <2>1
    <3> QED BY <1>3, <1>4, <2>1, <3>1, <3>2
  <2>4. ASSUME NEW row \in B
        PROVE  row \in rows /\ row.hour_start \in Entry(B).hours
    BY <1>4, <2>1, <2>2
  <2> QED BY <2>1, <2>3, <2>4
<1>6. ASSUME NEW r \in series
      PROVE  \E row \in rows : /\ r = Entry(BucketOf(Key(row)))
                               /\ part[r] = BucketOf(Key(row))
  <2>1. PICK row \in rows : r = Entry(BucketOf(Key(row)))
    BY <1>1
  <2>2. part[r] = {p \in rows : p.hour_start \in r.hours}
    OBVIOUS
  <2> HIDE DEF part
  <2> QED BY <1>5, <2>1, <2>2
<1>7. ASSUME NEW row \in rows
      PROVE  /\ Entry(BucketOf(Key(row))) \in series
             /\ part[Entry(BucketOf(Key(row)))] = BucketOf(Key(row))
             /\ row \in BucketOf(Key(row))
  <2>1. PICK r : r = Entry(BucketOf(Key(row)))
    OBVIOUS
  <2>2. r \in series
    BY <1>1, <2>1
  <2>3. part[r] = {p \in rows : p.hour_start \in r.hours}
    BY <2>2
  <2> HIDE DEF part
  <2> QED BY <1>4, <1>5, <2>1, <2>2, <2>3
<1>8. IsFiniteSet(series)
  <2>1. PICK f : f = [row \in rows |-> Entry(BucketOf(Key(row)))]
    OBVIOUS
  <2>2. f \in Surjection(rows, series)
    <3>1. f \in [rows -> series]
      BY <1>7, <2>1
    <3>2. \A r \in series : \E row \in rows : f[row] = r
      BY <1>6, <2>1
    <3> QED BY <3>1, <3>2 DEF Surjection
  <2> QED BY <2>2, FS_Surjection
<1>9. PICK w, sum, P : w = ChecksOf(rows) /\ sum = ChecksOf(series) /\ P = part
  OBVIOUS
<1> HIDE DEF part
<1>10. Weighs(w, rows) /\ Total(rows) = SumOf(w, rows)
  <2>1. Weighs(w, rows)
    BY <1>9 DEF Weighs, ChecksOf
  <2> QED BY <1>9, <2>1, TotalIsSum
<1>11. ASSUME NEW r \in series
       PROVE  /\ P[r] \in SUBSET rows /\ IsFiniteSet(P[r]) /\ Weighs(w, P[r])
              /\ sum[r] = SumOf(w, P[r]) /\ r.checks_total \in Nat
  <2>1. PICK row \in rows : /\ r = Entry(BucketOf(Key(row)))
                            /\ part[r] = BucketOf(Key(row))
    BY <1>6
  <2>2. PICK B : B = BucketOf(Key(row))
    OBVIOUS
  <2>3. P[r] = B /\ r = Entry(B) /\ B \in SUBSET rows
    BY <1>4, <1>9, <2>1, <2>2
  <2>4. IsFiniteSet(B) /\ Weighs(w, B)
    BY <1>10, <2>3, FS_Subset DEF Weighs
  <2>5. r.checks_total = Total(B) /\ sum[r] = r.checks_total
    BY <1>2, <1>9, <2>3 DEF ChecksOf
  <2>6. \A p \in B : p.checks_total \in Nat /\ w[p] = ChecksOf(B)[p]
    BY <1>9, <2>3 DEF ChecksOf
  <2>7. Total(B) = SumOf(ChecksOf(B), B)
    BY <2>4, <2>6, TotalIsSum
  <2>8. SumOf(w, B) = SumOf(ChecksOf(B), B)
    BY <2>4, <2>6, SumAgrees
  <2>9. SumOf(w, B) \in Nat
    BY <2>4, SumTakes
  <2> QED BY <2>3, <2>4, <2>5, <2>7, <2>8, <2>9
<1>12. \A r, q \in series : r # q => P[r] \cap P[q] = {}
  <2> SUFFICES ASSUME NEW r \in series, NEW q \in series, NEW p \in P[r], p \in P[q]
               PROVE  r = q
    OBVIOUS
  <2>1. PICK x \in rows : r = Entry(BucketOf(Key(x))) /\ P[r] = BucketOf(Key(x))
    BY <1>6, <1>9
  <2>2. PICK y \in rows : q = Entry(BucketOf(Key(y))) /\ P[q] = BucketOf(Key(y))
    BY <1>6, <1>9
  <2>3. p \in rows
    BY <1>11
  <2>4. Key(p) = Key(x) /\ Key(p) = Key(y)
    BY <1>4, <2>1, <2>2, <2>3
  <2> QED BY <2>1, <2>2, <2>4
<1>13. rows = UNION {P[r] : r \in series}
  <2>1. ASSUME NEW row \in rows PROVE \E r \in series : row \in P[r]
    BY <1>7, <1>9
  <2>2. \A r \in series : P[r] \subseteq rows
    BY <1>11
  <2> QED BY <2>1, <2>2
<1>14. Total(rows) = Total(series)
  <2>1. Parted(rows, P, series)
    BY <1>8, <1>11, <1>12, <1>13 DEF Parted
  <2>2. \A r \in series : Weighs(w, P[r]) /\ sum[r] = SumOf(w, P[r])
    BY <1>11
  <2>3. SumOf(sum, series) = SumOf(w, rows)
    BY <2>1, <2>2, SumsAddUp
  <2>4. \A r \in series : r.checks_total \in Nat
    BY <1>11
  <2>5. Total(series) = SumOf(sum, series)
    BY <1>8, <1>9, <2>4, TotalIsSum
  <2> QED BY <1>10, <2>3, <2>5
<1>15. UNION {b.hours : b \in series} = {row.hour_start : row \in rows}
  <2>1. ASSUME NEW r \in series, NEW h \in r.hours
        PROVE  \E row \in rows : h = row.hour_start
    <3>1. PICK x \in rows : r = Entry(BucketOf(Key(x)))
      BY <1>6
    <3>2. PICK B : B = BucketOf(Key(x))
      OBVIOUS
    <3>3. r.hours = {row.hour_start : row \in B} /\ B \subseteq rows
      BY <1>2, <1>4, <3>1, <3>2
    <3> QED BY <3>3
  <2>2. ASSUME NEW row \in rows
        PROVE  \E r \in series : row.hour_start \in r.hours
    <3>1. PICK B : B = BucketOf(Key(row))
      OBVIOUS
    <3>2. Entry(B) \in series /\ row \in B
      BY <1>7, <3>1
    <3>3. Entry(B).hours = {p.hour_start : p \in B}
      BY <1>2
    <3> QED BY <3>2, <3>3
  <2> QED BY <2>1, <2>2
<1> QED BY <1>14, <1>15
=============================================================================
