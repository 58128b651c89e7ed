----------------------------- MODULE PathProofs -----------------------------
(***************************************************************************)
(* Proofs about the path formulas, for every well-formed function: the     *)
(* constraints never contradict each other, and their models are the runs. *)
(***************************************************************************)
EXTENDS PathRuns, NaturalSets, SequenceTheorems

(***************************************************************************)
(* Functions.                                                              *)
(***************************************************************************)
LEMMA BlocksOf ==
  ASSUME NEW g, WellFormed(g)
  PROVE  /\ Len(g.block) \in Nat \ {0} /\ Blocks(g) = 1..Len(g.block) /\ 1 \in Blocks(g)
         /\ \A b \in Blocks(g) : /\ b \in Nat
                                 /\ Len(g.block[b].ops) \in Nat
                                 /\ DOMAIN g.block[b].ops = 1..Len(g.block[b].ops)
                                 /\ Succs(g, b) \subseteq Blocks(g) \ {1}
                                 /\ g.block[b].end.to \in Seq(Blocks(g) \ {1})
<1>1. Len(g.block) \in Nat \ {0} /\ Blocks(g) = 1..Len(g.block)
  BY DEF WellFormed
<1>2. 1 \in Blocks(g)
  BY <1>1
<1>3. ASSUME NEW b \in Blocks(g)
      PROVE  /\ b \in Nat
             /\ Len(g.block[b].ops) \in Nat /\ DOMAIN g.block[b].ops = 1..Len(g.block[b].ops)
             /\ Succs(g, b) \subseteq Blocks(g) \ {1}
             /\ g.block[b].end.to \in Seq(Blocks(g) \ {1})
  <2>1. Len(g.block[b].ops) \in Nat /\ DOMAIN g.block[b].ops = 1..Len(g.block[b].ops)
    BY DEF WellFormed
  <2>2. g.block[b].end.to \in Seq(Blocks(g) \ {1})
    BY DEF WellFormed, WellFormedEnd
  <2>3. \A i \in DOMAIN g.block[b].end.to : g.block[b].end.to[i] \in Blocks(g) \ {1}
    BY <2>2
  <2>4. Succs(g, b) \subseteq Blocks(g) \ {1}
    BY <2>3 DEF Succs, Targets, Range
  <2> QED
    BY <1>1, <2>1, <2>2, <2>4
<1> QED
  BY <1>1, <1>2, <1>3

(* A set of numbers up to some bound has a greatest element. *)
LEMMA MaxOf ==
  ASSUME NEW T \in SUBSET Nat, T # {}, NEW n \in Nat, \A x \in T : x <= n
  PROVE  /\ Max(T) \in T /\ \A x \in T : x <= Max(T)
<1> DEFINE U == {n - x : x \in T}
<1>1. U \in SUBSET Nat /\ U # {}
  OBVIOUS
<1>2. PICK u \in U : \A v \in U : u <= v
  <2> HIDE DEF U
  <2> QED
    BY <1>1, LeastNatural
<1>3. PICK y \in T : u = n - y
  OBVIOUS
<1>4. \A x \in T : y >= x
  <2> SUFFICES ASSUME NEW x \in T PROVE y >= x
    OBVIOUS
  <2>1. n - x \in U
    OBVIOUS
  <2>2. n - y <= n - x
    BY <1>2, <1>3, <2>1
  <2> QED
    BY <2>2
<1>5. Max(T) \in T /\ \A x \in T : Max(T) >= x
  BY <1>4 DEF Max
<1> QED
  BY <1>5

(***************************************************************************)
(* The height of a block is what its definition says: it exists, as there  *)
(* is no cycle of forward edges.  It is greater than that of a successor.  *)
(***************************************************************************)
HeightsUpTo(g, rank, n) ==
  {h \in [Blocks(g) -> Nat] :
     /\ \A b \in Blocks(g) : h[b] <= n
     /\ \A b \in Blocks(g) : rank[b] <= n => h[b] = 1 + Max({0} \cup {h[s] : s \in Succs(g, b)})}

LEMMA HeightsExist ==
  ASSUME NEW g, WellFormed(g), NEW rank \in [Blocks(g) -> Blocks(g)],
         \A b \in Blocks(g) : \A s \in Succs(g, b) : rank[s] < rank[b],
         NEW n \in Nat
  PROVE  HeightsUpTo(g, rank, n) # {}
<1> DEFINE P == {k \in Nat : HeightsUpTo(g, rank, k) # {}}
<1>0. \A b \in Blocks(g) : b \in Nat /\ b > 0 /\ Succs(g, b) \subseteq Blocks(g)
  <2>1. Blocks(g) = 1..Len(g.block) /\ \A b \in Blocks(g) : Succs(g, b) \subseteq Blocks(g)
    BY BlocksOf
  <2> QED
    BY <2>1
<1>1. 0 \in P
  <2> DEFINE h == [b \in Blocks(g) |-> 0]
  <2>1. h \in HeightsUpTo(g, rank, 0)
    BY <1>0 DEF HeightsUpTo
  <2> QED
    BY <2>1
<1>2. ASSUME NEW k \in 0..(n - 1), k \in P PROVE k + 1 \in P
  <2>1. PICK h \in [Blocks(g) -> Nat] :
          /\ \A b \in Blocks(g) : h[b] <= k
          /\ \A b \in Blocks(g) : rank[b] <= k => h[b] = 1 + Max({0} \cup {h[s] : s \in Succs(g, b)})
    BY <1>2 DEF HeightsUpTo
  <2> DEFINE Under(hh, b) == {0} \cup {hh[s] : s \in Succs(g, b)}
             h2 == [b \in Blocks(g) |-> IF rank[b] <= k + 1 THEN 1 + Max(Under(h, b)) ELSE h[b]]
  <2>2. \A b \in Blocks(g) : Max(Under(h, b)) \in 0..k
    <3> SUFFICES ASSUME NEW b \in Blocks(g) PROVE Max(Under(h, b)) \in 0..k
      OBVIOUS
    <3>1. Under(h, b) \in SUBSET Nat /\ Under(h, b) # {} /\ \A x \in Under(h, b) : x <= k
      BY <1>0, <2>1
    <3> HIDE DEF Under
    <3>2. Max(Under(h, b)) \in Under(h, b)
      <4>1. k \in Nat
        OBVIOUS
      <4> QED
        BY <3>1, <4>1, MaxOf
    <3> QED
      BY <3>1, <3>2
  <2>3. h2 \in [Blocks(g) -> Nat] /\ \A b \in Blocks(g) : h2[b] <= k + 1
    <3> HIDE DEF Under
    <3> QED
      BY <2>1, <2>2
  <2>4. \A b \in Blocks(g) : rank[b] <= k => h2[b] = h[b]
    BY <1>0, <2>1
  <2>5. \A b \in Blocks(g) : rank[b] <= k + 1 => \A s \in Succs(g, b) : h2[s] = h[s]
    BY <1>0, <2>4
  <2>6. \A b \in Blocks(g) : rank[b] <= k + 1 => Under(h2, b) = Under(h, b)
    <3> HIDE DEF h2
    <3> QED
      BY <2>5
  <2>7. \A b \in Blocks(g) : rank[b] <= k + 1 => h2[b] = 1 + Max(Under(h2, b))
    <3> SUFFICES ASSUME NEW b \in Blocks(g), rank[b] <= k + 1 PROVE h2[b] = 1 + Max(Under(h2, b))
      OBVIOUS
    <3>1. h2[b] = 1 + Max(Under(h, b))
      OBVIOUS
    <3>2. Under(h2, b) = Under(h, b)
      BY <2>6
    <3> HIDE DEF Under, h2
    <3> QED
      BY <3>1, <3>2
  <2>8. h2 \in HeightsUpTo(g, rank, k + 1)
    <3> HIDE DEF h2
    <3> QED
      BY <2>3, <2>7 DEF HeightsUpTo
  <2> QED
    BY <2>8
<1>3. 0..n \subseteq P
  <2> HIDE DEF P
  <2> QED
    BY <1>1, <1>2, SetInduction
<1> QED
  BY <1>3

LEMMA HeightIs ==
  ASSUME NEW g, WellFormed(g)
  PROVE  /\ Height(g) \in [Blocks(g) -> 1..Len(g.block)]
         /\ \A b \in Blocks(g) : \A s \in Succs(g, b) : Height(g)[s] < Height(g)[b]
<1> DEFINE N == Len(g.block)
           Under(hh, b) == {0} \cup {hh[s] : s \in Succs(g, b)}
           Is(hh) == hh = [b \in Blocks(g) |-> 1 + Max(Under(hh, b))]
           H == Height(g)
<1>0. N \in Nat /\ Blocks(g) = 1..N /\ \A b \in Blocks(g) : Succs(g, b) \subseteq Blocks(g)
  BY BlocksOf
<1>1. PICK rank \in [Blocks(g) -> Blocks(g)] :
        \A b \in Blocks(g) : \A s \in Succs(g, b) : rank[s] < rank[b]
  BY DEF WellFormed
<1>2. PICK h \in HeightsUpTo(g, rank, N) : TRUE
  BY <1>0, <1>1, HeightsExist
<1>3. /\ h \in [Blocks(g) -> Nat] /\ \A b \in Blocks(g) : h[b] <= N
      /\ \A b \in Blocks(g) : h[b] = 1 + Max(Under(h, b))
  BY <1>0, <1>1, <1>2 DEF HeightsUpTo
<1>4. Is(h)
  <2> HIDE DEF Under
  <2> QED
    BY <1>3
<1>5. Is(H)
  <2>1. H = CHOOSE hh : Is(hh)
    BY DEF Height
  <2> HIDE DEF Is, H
  <2> QED
    BY <1>4, <2>1
<1>6. \A b \in Blocks(g) : H[b] = h[b]
  <2> DEFINE P == {n \in Nat : \A b \in Blocks(g) : rank[b] <= n => H[b] = h[b]}
  <2>1. 0 \in P
    BY <1>0
  <2>2. ASSUME NEW n \in 0..(N - 1), n \in P PROVE n + 1 \in P
    <3> SUFFICES ASSUME NEW b \in Blocks(g), rank[b] <= n + 1 PROVE H[b] = h[b]
      OBVIOUS
    <3>1. \A s \in Succs(g, b) : H[s] = h[s]
      <4> SUFFICES ASSUME NEW s \in Succs(g, b) PROVE H[s] = h[s]
        OBVIOUS
      <4>1. s \in Blocks(g) /\ rank[s] < rank[b] /\ rank[s] \in Nat /\ rank[b] \in Nat
        BY <1>0, <1>1
      <4>2. rank[s] <= n
        BY <4>1
      <4> HIDE DEF H
      <4> QED
        BY <2>2, <4>1, <4>2
    <3>2. Under(H, b) = Under(h, b)
      <4> HIDE DEF H
      <4> QED
        BY <3>1
    <3>3. H[b] = 1 + Max(Under(H, b))
      <4> HIDE DEF H, Under
      <4> QED
        BY <1>5
    <3> HIDE DEF H, Under
    <3> QED
      BY <1>3, <3>2, <3>3
  <2>3. 0..N \subseteq P
    <3> HIDE DEF P, N
    <3> QED
      BY <1>0, <2>1, <2>2, SetInduction
  <2>4. N \in P /\ \A b \in Blocks(g) : rank[b] <= N
    BY <1>0, <1>1, <2>3
  <2> HIDE DEF H
  <2> QED
    BY <2>4
<1>7. H = h
  <2>1. DOMAIN H = Blocks(g)
    <3> HIDE DEF H, Under
    <3> QED
      BY <1>5
  <2>2. H = [b \in Blocks(g) |-> H[b]]
    <3> HIDE DEF H, Under
    <3> QED
      BY <1>5
  <2>3. h = [b \in Blocks(g) |-> h[b]]
    BY <1>3
  <2> HIDE DEF H
  <2> QED
    BY <1>6, <2>2, <2>3
<1>8. \A b \in Blocks(g) : \A s \in Succs(g, b) : h[s] < h[b]
  <2> SUFFICES ASSUME NEW b \in Blocks(g), NEW s \in Succs(g, b) PROVE h[s] < h[b]
    OBVIOUS
  <2>1. Under(h, b) \in SUBSET Nat /\ Under(h, b) # {} /\ \A x \in Under(h, b) : x <= N
    BY <1>0, <1>3
  <2>2. h[s] \in Under(h, b) /\ h[s] \in Nat
    BY <1>0, <1>3
  <2> HIDE DEF Under
  <2>3. Max(Under(h, b)) \in Nat /\ h[s] <= Max(Under(h, b))
    BY <1>0, <2>1, <2>2, MaxOf
  <2> QED
    BY <1>3, <2>2, <2>3
<1>9. \A b \in Blocks(g) : h[b] \in 1..N
  <2> SUFFICES ASSUME NEW b \in Blocks(g) PROVE h[b] \in 1..N
    OBVIOUS
  <2>1. Under(h, b) \in SUBSET Nat /\ Under(h, b) # {} /\ \A x \in Under(h, b) : x <= N
    BY <1>0, <1>3
  <2> HIDE DEF Under
  <2>2. Max(Under(h, b)) \in Nat
    BY <1>0, <2>1, MaxOf
  <2> QED
    BY <1>0, <1>3, <2>2
<1> HIDE DEF H, Under
<1> QED
  BY <1>0, <1>3, <1>7, <1>8, <1>9 DEF H

(***************************************************************************)
(* The elements of a finite set in some order, and the place of each.      *)
(***************************************************************************)
LEMMA Enumerated ==
  ASSUME NEW S, IsFiniteSet(S)
  PROVE  /\ Cardinality(S) \in Nat
         /\ SetToSeq(S) \in Seq(S) /\ Len(SetToSeq(S)) = Cardinality(S)
         /\ DOMAIN SetToSeq(S) = 1..Cardinality(S)
         /\ \A i, j \in 1..Cardinality(S) : SetToSeq(S)[i] = SetToSeq(S)[j] => i = j
         /\ \A x \in S : \E i \in 1..Cardinality(S) : SetToSeq(S)[i] = x
<1> DEFINE n == Cardinality(S)
           q == SetToSeq(S)
<1>1. n \in Nat /\ ExistsBijection(1..n, S)
  BY FS_CardinalityType
<1>2. PICK h \in [1..n -> S] : IsInjective(h)
  BY <1>1 DEF ExistsBijection, Bijection, Injection
<1>3. q \in [1..n -> S] /\ IsInjective(q)
  BY <1>2 DEF SetToSeq
<1>4. q \in Injection(1..n, S)
  BY <1>3 DEF Injection
<1>5. q \in Surjection(1..n, S)
  <2>1. IsFiniteSet(1..n) /\ Cardinality(1..n) = n
    BY <1>1, FS_Interval
  <2> HIDE DEF q, n
  <2>2. Cardinality(1..n) = Cardinality(S) <=> q \in Surjection(1..n, S)
    BY <1>4, FS_Injection
  <2> QED
    BY <2>1, <2>2 DEF n
<1>6. \A x \in S : \E i \in 1..n : q[i] = x
  BY <1>3, <1>5 DEF Surjection
<1> HIDE DEF q
<1> QED
  BY <1>1, <1>3, <1>6 DEF q, IsInjective

LEMMA InitialNamesAre ==
  /\ Cardinality(Memories) \in Nat
  /\ InitialNames \in [Memories -> (MaxValue + 2)..(MaxValue + 1 + Cardinality(Memories))]
  /\ \A x, y \in Memories : InitialNames[x] = InitialNames[y] => x = y
<1> DEFINE n == Cardinality(Memories)
           q == SetToSeq(Memories)
           At(x) == CHOOSE i \in DOMAIN q : q[i] = x
<1>1. /\ n \in Nat /\ DOMAIN q = 1..n
      /\ \A x \in Memories : \E i \in 1..n : q[i] = x
  BY ValuesAssumption, Enumerated
<1>2. \A x \in Memories : At(x) \in 1..n /\ q[At(x)] = x
  BY <1>1
<1>3. MaxValue \in Nat
  BY ValuesAssumption
<1>4. InitialNames = [x \in Memories |-> MaxValue + 1 + At(x)]
  BY DEF InitialNames
<1> HIDE DEF At
<1> QED
  BY <1>1, <1>2, <1>3, <1>4

(***************************************************************************)
(* Runs.                                                                   *)
(***************************************************************************)
LEMMA BodyIs ==
  ASSUME NEW g, NEW r, LET ops == g.block[r.at].ops IN Len(ops) \in Nat
  PROVE  /\ Body(g, r, 0) = {r}
         /\ \A k \in 1..Len(g.block[r.at].ops) :
              Body(g, r, k) = UNION {Perform(s, g.block[r.at].ops[k]) : s \in Body(g, r, k - 1)}
<1> DEFINE ops == g.block[r.at].ops
           n == Len(ops)
           Next1(a, k) == UNION {Perform(s, ops[k]) : s \in a[k - 1]}
           Is(a) == a = [k \in 0..n |-> IF k = 0 THEN {r} ELSE Next1(a, k)]
           P == {k \in Nat : \E a : a = [i \in 0..k |-> IF i = 0 THEN {r} ELSE Next1(a, i)]}
<1>0. n \in Nat
  OBVIOUS
<1>1. 0 \in P
  <2> DEFINE a == [i \in 0..0 |-> {r}]
  <2>1. a = [i \in 0..0 |-> IF i = 0 THEN {r} ELSE Next1(a, i)]
    <3> HIDE DEF Next1
    <3> QED
      OBVIOUS
  <2> QED
    BY <2>1
<1>2. ASSUME NEW k \in 0..(n - 1), k \in P PROVE k + 1 \in P
  <2>0. k \in Nat
    BY <1>0
  <2>1. PICK a : a = [i \in 0..k |-> IF i = 0 THEN {r} ELSE Next1(a, i)]
    BY <1>2
  <2> DEFINE c == [i \in 0..(k + 1) |-> IF i = k + 1 THEN Next1(a, i) ELSE a[i]]
  <2>2. \A i \in 1..(k + 1) : Next1(c, i) = Next1(a, i)
    <3>1. \A i \in 1..(k + 1) : c[i - 1] = a[i - 1]
      <4> HIDE DEF Next1
      <4> QED
        BY <2>0
    <3> HIDE DEF c
    <3> QED
      BY <3>1
  <2>3. \A i \in 0..k : a[i] = IF i = 0 THEN {r} ELSE Next1(a, i)
    <3> HIDE DEF Next1
    <3> QED
      BY <2>1
  <2>4. \A i \in 0..(k + 1) : c[i] = IF i = 0 THEN {r} ELSE Next1(c, i)
    <3>1. \A i \in 0..(k + 1) : c[i] = IF i = k + 1 THEN Next1(a, i) ELSE a[i]
      OBVIOUS
    <3>2. c[k + 1] = Next1(a, k + 1) /\ \A i \in 0..k : c[i] = a[i]
      <4> HIDE DEF c, Next1
      <4> QED
        BY <2>0, <3>1
    <3>3. a[0] = {r} /\ \A i \in 1..k : a[i] = Next1(a, i)
      <4> HIDE DEF c, Next1
      <4> QED
        BY <2>0, <2>3
    <3>4. 0 \in 0..k /\ \A i \in 0..(k + 1) : i = 0 \/ i = k + 1 \/ i \in 1..k
      BY <2>0
    <3>5. \A i \in 1..(k + 1) : c[i] = Next1(c, i)
      <4> HIDE DEF c, Next1
      <4> QED
        BY <2>0, <2>2, <3>2, <3>3
    <3>6. c[0] = {r}
      <4> HIDE DEF c, Next1
      <4> QED
        BY <3>2, <3>3, <3>4
    <3>7. \A i \in 0..(k + 1) : i = 0 \/ i \in 1..(k + 1)
      BY <2>0
    <3> HIDE DEF c, Next1
    <3> SUFFICES ASSUME NEW i \in 0..(k + 1) PROVE c[i] = IF i = 0 THEN {r} ELSE Next1(c, i)
      OBVIOUS
    <3>8. CASE i = 0
      BY <3>6, <3>8, Zenon
    <3>9. CASE i # 0
      BY <3>5, <3>7, <3>9, Zenon
    <3> QED
      BY <3>8, <3>9
  <2>5. c = [i \in 0..(k + 1) |-> c[i]]
    OBVIOUS
  <2>6. c = [i \in 0..(k + 1) |-> IF i = 0 THEN {r} ELSE Next1(c, i)]
    <3> HIDE DEF c, Next1
    <3> QED
      BY <2>4, <2>5
  <2> HIDE DEF c, Next1
  <2> QED
    BY <2>0, <2>6
<1>3. n \in P
  <2> HIDE DEF P, n
  <2>1. 0..n \subseteq P
    BY <1>0, <1>1, <1>2, SetInduction
  <2> QED
    BY <1>0, <2>1
<1>4. \E a : Is(a)
  <2> HIDE DEF Next1, n
  <2> QED
    BY <1>3
<1> DEFINE A == CHOOSE a : Is(a)
<1>5. Is(A)
  <2> HIDE DEF Is
  <2> QED
    BY <1>4
<1>6. \A k : Body(g, r, k) = A[k]
  BY DEF Body
<1>7. A[0] = {r} /\ \A k \in 1..n : A[k] = Next1(A, k)
  <2>1. \A k \in 0..n : A[k] = IF k = 0 THEN {r} ELSE Next1(A, k)
    <3> HIDE DEF A, Next1, n
    <3> QED
      BY <1>0, <1>5
  <2>2. 0 \in 0..n /\ \A k \in 1..n : k \in 0..n /\ k # 0
    BY <1>0
  <2> HIDE DEF A, Next1, n
  <2> QED
    BY <2>1, <2>2
<1> HIDE DEF A
<1> QED
  BY <1>6, <1>7

LEMMA RunsIs ==
  ASSUME NEW g, Len(g.block) \in Nat
  PROVE  /\ Runs(g)[0] = Starts(g)
         /\ \A k \in 1..Len(g.block) : Runs(g)[k] = UNION {Advance(g, r) : r \in Runs(g)[k - 1]}
<1> DEFINE n == Len(g.block)
           Next1(a, k) == UNION {Advance(g, s) : s \in a[k - 1]}
           Is(a) == a = [k \in 0..n |-> IF k = 0 THEN Starts(g) ELSE Next1(a, k)]
           P == {k \in Nat : \E a : a = [i \in 0..k |-> IF i = 0 THEN Starts(g) ELSE Next1(a, i)]}
<1>0. n \in Nat
  OBVIOUS
<1>1. 0 \in P
  <2> DEFINE a == [i \in 0..0 |-> Starts(g)]
  <2>1. a = [i \in 0..0 |-> IF i = 0 THEN Starts(g) ELSE Next1(a, i)]
    <3> HIDE DEF Next1
    <3> QED
      OBVIOUS
  <2> QED
    BY <2>1
<1>2. ASSUME NEW k \in 0..(n - 1), k \in P PROVE k + 1 \in P
  <2>0. k \in Nat
    BY <1>0
  <2>1. PICK a : a = [i \in 0..k |-> IF i = 0 THEN Starts(g) ELSE Next1(a, i)]
    BY <1>2
  <2> DEFINE c == [i \in 0..(k + 1) |-> IF i = k + 1 THEN Next1(a, i) ELSE a[i]]
  <2>2. \A i \in 1..(k + 1) : Next1(c, i) = Next1(a, i)
    <3>1. \A i \in 1..(k + 1) : c[i - 1] = a[i - 1]
      <4> HIDE DEF Next1
      <4> QED
        BY <2>0
    <3> HIDE DEF c
    <3> QED
      BY <3>1
  <2>3. \A i \in 0..k : a[i] = IF i = 0 THEN Starts(g) ELSE Next1(a, i)
    <3> HIDE DEF Next1
    <3> QED
      BY <2>1
  <2>4. \A i \in 0..(k + 1) : c[i] = IF i = 0 THEN Starts(g) ELSE Next1(c, i)
    <3>1. \A i \in 0..(k + 1) : c[i] = IF i = k + 1 THEN Next1(a, i) ELSE a[i]
      OBVIOUS
    <3>2. c[k + 1] = Next1(a, k + 1) /\ \A i \in 0..k : c[i] = a[i]
      <4> HIDE DEF c, Next1
      <4> QED
        BY <2>0, <3>1
    <3>3. a[0] = Starts(g) /\ \A i \in 1..k : a[i] = Next1(a, i)
      <4> HIDE DEF c, Next1
      <4> QED
        BY <2>0, <2>3
    <3>4. 0 \in 0..k /\ \A i \in 0..(k + 1) : i = 0 \/ i = k + 1 \/ i \in 1..k
      BY <2>0
    <3>5. \A i \in 1..(k + 1) : c[i] = Next1(c, i)
      <4> HIDE DEF c, Next1
      <4> QED
        BY <2>0, <2>2, <3>2, <3>3
    <3>6. c[0] = Starts(g)
      <4> HIDE DEF c, Next1
      <4> QED
        BY <3>2, <3>3, <3>4
    <3>7. \A i \in 0..(k + 1) : i = 0 \/ i \in 1..(k + 1)
      BY <2>0
    <3> HIDE DEF c, Next1
    <3> SUFFICES ASSUME NEW i \in 0..(k + 1) PROVE c[i] = IF i = 0 THEN Starts(g) ELSE Next1(c, i)
      OBVIOUS
    <3>8. CASE i = 0
      BY <3>6, <3>8, Zenon
    <3>9. CASE i # 0
      BY <3>5, <3>7, <3>9, Zenon
    <3> QED
      BY <3>8, <3>9
  <2>5. c = [i \in 0..(k + 1) |-> c[i]]
    OBVIOUS
  <2>6. c = [i \in 0..(k + 1) |-> IF i = 0 THEN Starts(g) ELSE Next1(c, i)]
    <3> HIDE DEF c, Next1
    <3> QED
      BY <2>4, <2>5
  <2> HIDE DEF c, Next1
  <2> QED
    BY <2>0, <2>6
<1>3. n \in P
  <2> HIDE DEF P, n
  <2>1. 0..n \subseteq P
    BY <1>0, <1>1, <1>2, SetInduction
  <2> QED
    BY <1>0, <2>1
<1>4. \E a : Is(a)
  <2> HIDE DEF Next1, n
  <2> QED
    BY <1>3
<1> DEFINE A == CHOOSE a : Is(a)
<1>5. Is(A)
  <2> HIDE DEF Is
  <2> QED
    BY <1>4
<1>6. Runs(g) = A
  BY DEF Runs
<1>7. A[0] = Starts(g) /\ \A k \in 1..n : A[k] = Next1(A, k)
  <2>1. \A k \in 0..n : A[k] = IF k = 0 THEN Starts(g) ELSE Next1(A, k)
    <3> HIDE DEF A, Next1, n
    <3> QED
      BY <1>0, <1>5
  <2>2. 0 \in 0..n /\ \A k \in 1..n : k \in 0..n /\ k # 0
    BY <1>0
  <2> HIDE DEF A, Next1, n
  <2> QED
    BY <2>1, <2>2
<1> HIDE DEF A
<1> QED
  BY <1>6, <1>7

(***************************************************************************)
(* The registers an operation and a terminator read are registers.         *)
(***************************************************************************)
LEMMA AvailableAre ==
  ASSUME NEW g, WellFormed(g), NEW b \in Blocks(g), NEW k \in 1..(Len(g.block[b].ops) + 1)
  PROVE  Available(g, b, k) \subseteq Registers
<1>1. ASSUME NEW d \in Blocks(g), NEW i \in DOMAIN g.block[d].ops, Defines(g.block[d].ops[i])
      PROVE  g.block[d].ops[i].reg \in Registers
  BY <1>1 DEF WellFormed, WellFormedOp
<1>2. ASSUME NEW d \in Blocks(g), NEW n \in 1..(Len(g.block[d].ops) + 1)
      PROVE  DefinedBefore(g, d, n) \subseteq Registers
  <2> SUFFICES ASSUME NEW r \in DefinedBefore(g, d, n) PROVE r \in Registers
    OBVIOUS
  <2>1. Len(g.block[d].ops) \in Nat /\ DOMAIN g.block[d].ops = 1..Len(g.block[d].ops)
    BY BlocksOf
  <2>2. PICK i \in 1..(n - 1) : Defines(g.block[d].ops[i]) /\ r = g.block[d].ops[i].reg
    BY DEF DefinedBefore
  <2>3. i \in DOMAIN g.block[d].ops
    BY <2>1
  <2> QED
    BY <1>1, <2>2, <2>3
<1>3. ASSUME NEW d \in Blocks(g) PROVE DefinedBefore(g, d, Len(g.block[d].ops) + 1) \subseteq Registers
  <2>1. Len(g.block[d].ops) + 1 \in 1..(Len(g.block[d].ops) + 1)
    BY BlocksOf
  <2> QED
    BY <1>2, <2>1
<1> QED
  BY <1>2, <1>3 DEF Available

LEMMA OpOf ==
  ASSUME NEW g, WellFormed(g), NEW b \in Blocks(g), NEW k \in DOMAIN g.block[b].ops
  PROVE  LET o == g.block[b].ops[k] IN
         /\ Defines(o) => o.reg \in Registers /\ o.reg[1] # "const"
         /\ o.op \in {"store", "assume", "assert"} => o.reg \in Registers
         /\ o.op \in {"load", "store"} => o.mem \in Memories
         /\ o.op = "eq" => o.left \in Registers /\ o.right \in Registers
         /\ o.op = "phi" => b # 1 /\ \A p \in Preds(g, b) : p \in DOMAIN o.in /\ o.in[p] \in Registers
<1> DEFINE o == g.block[b].ops[k]
<1>1. k \in 1..(Len(g.block[b].ops) + 1)
  <2>1. Len(g.block[b].ops) \in Nat /\ DOMAIN g.block[b].ops = 1..Len(g.block[b].ops)
    BY BlocksOf
  <2> HIDE DEF o
  <2> QED
    BY <2>1
<1>2. Available(g, b, k) \subseteq Registers
  BY <1>1, AvailableAre
<1>3. \A p \in Preds(g, b) : Available(g, p, Len(g.block[p].ops) + 1) \subseteq Registers
  <2> SUFFICES ASSUME NEW p \in Preds(g, b) PROVE Available(g, p, Len(g.block[p].ops) + 1) \subseteq Registers
    OBVIOUS
  <2>1. p \in Blocks(g) /\ Len(g.block[p].ops) + 1 \in 1..(Len(g.block[p].ops) + 1)
    BY BlocksOf DEF Preds
  <2> QED
    BY <2>1, AvailableAre
<1>4. WellFormedOp(g, b, k)
  BY DEF WellFormed
<1>5. o.op \in {"store", "assume", "assert"} => o.reg \in Available(g, b, k)
  BY <1>4 DEF WellFormedOp, Defines
<1>6. /\ Defines(o) => o.reg \in Registers /\ o.reg[1] # "const"
      /\ o.op \in {"load", "store"} => o.mem \in Memories
      /\ o.op = "eq" => o.left \in Available(g, b, k) /\ o.right \in Available(g, b, k)
      /\ o.op = "phi" => b # 1 /\ \A p \in Preds(g, b) :
           p \in DOMAIN o.in /\ o.in[p] \in Available(g, p, Len(g.block[p].ops) + 1)
  BY <1>4 DEF WellFormedOp
<1> QED
  BY <1>2, <1>3, <1>5, <1>6

LEMMA EndOf ==
  ASSUME NEW g, WellFormed(g), NEW b \in Blocks(g)
  PROVE  LET e == g.block[b].end IN
         /\ e.kind \in {"br", "cond", "switch", "ret", "unreachable"}
         /\ e.to \in Seq(Blocks(g) \ {1}) /\ Len(e.to) \in Nat /\ DOMAIN e.to = 1..Len(e.to)
         /\ e.kind \in {"ret", "unreachable"} <=> Len(e.to) = 0
         /\ e.kind = "br" => Len(e.to) = 1
         /\ e.kind = "cond" => Len(e.to) = 2
         /\ e.kind = "switch" => e.val \in [1..Len(e.to) -> Value]
         /\ e.kind \in {"cond", "switch"} => e.reg \in Registers
<1> DEFINE e == g.block[b].end
<1>1. WellFormedEnd(g, b)
  BY DEF WellFormed
<1>2. e.to \in Seq(Blocks(g) \ {1})
  BY <1>1 DEF WellFormedEnd
<1>3. Len(e.to) \in Nat /\ DOMAIN e.to = 1..Len(e.to) /\ (Len(e.to) = 0 <=> e.to = <<>>)
  BY <1>2
<1>4. /\ e.kind \in {"br", "cond", "switch", "ret", "unreachable"}
      /\ e.kind \in {"ret", "unreachable"} <=> e.to = <<>>
      /\ e.kind = "br" => Len(e.to) = 1
      /\ e.kind = "cond" => Len(e.to) = 2
      /\ e.kind = "switch" => e.val \in Seq(Value) /\ Len(e.val) = Len(e.to)
      /\ e.kind \in {"cond", "switch"} => e.reg \in Available(g, b, Len(g.block[b].ops) + 1)
  BY <1>1 DEF WellFormedEnd
<1>5. e.kind = "switch" => e.val \in [1..Len(e.to) -> Value]
  BY <1>4
<1>6. Available(g, b, Len(g.block[b].ops) + 1) \subseteq Registers
  <2>1. Len(g.block[b].ops) + 1 \in 1..(Len(g.block[b].ops) + 1)
    BY BlocksOf
  <2> QED
    BY <2>1, AvailableAre
<1> QED
  BY <1>2, <1>3, <1>4, <1>5, <1>6

-----------------------------------------------------------------------------
(***************************************************************************)
(* Models: a longer one gives the names it had before their values.        *)
(***************************************************************************)
Terms(L) == [eq : BOOLEAN, left : 1..L, right : 1..L]

Bits(L) == (1..L) \cup {-n : n \in 1..L}

Prolongs(u, s, L) == \A i \in 1..L : u[i] = s[i]

LEMMA ValuesAre == Value \subseteq Nat /\ 0 \in Value /\ 1 \in Value /\ \A b : Truth(b) \in Value
BY ValuesAssumption DEF Value, Truth

LEMMA TruthIs == ASSUME NEW b \in BOOLEAN PROVE Truth(b) # 0 <=> b
BY DEF Truth

(* The sequences of n values are the functions on 1..n. *)
LEMMA SequencesAre ==
  ASSUME NEW n \in Nat, NEW S
  PROVE  \A s : s \in [1..n -> S] <=> s \in Seq(S) /\ Len(s) = n
<1>1. ASSUME NEW s \in [1..n -> S] PROVE s \in Seq(S) /\ Len(s) = n
  <2>1. s \in Seq(S)
    BY SeqDef
  <2>2. Len(s) \in Nat /\ DOMAIN s = 1..Len(s) /\ DOMAIN s = 1..n
    BY <2>1, LenProperties
  <2> QED
    BY <2>1, <2>2
<1>2. ASSUME NEW s \in Seq(S), Len(s) = n PROVE s \in [1..n -> S]
  BY <1>2, LenProperties
<1> QED
  BY <1>1, <1>2

LEMMA OneMore ==
  ASSUME NEW L \in Nat, NEW s \in [1..L -> Value], NEW v \in Value
  PROVE  /\ Append(s, v) \in [1..(L + 1) -> Value] /\ Append(s, v)[L + 1] = v
         /\ Prolongs(Append(s, v), s, L)
<1>1. s \in Seq(Value) /\ Len(s) = L
  BY SequencesAre
<1>2. Append(s, v) \in Seq(Value) /\ Len(Append(s, v)) = L + 1
  BY <1>1
<1>3. Append(s, v)[L + 1] = v /\ \A i \in 1..L : Append(s, v)[i] = s[i]
  BY <1>1
<1>4. Append(s, v) \in [1..(L + 1) -> Value]
  <2>1. L + 1 \in Nat
    OBVIOUS
  <2> QED
    BY <1>2, <2>1, SequencesAre
<1> QED
  BY <1>3, <1>4 DEF Prolongs

LEMMA SomeMore ==
  ASSUME NEW L \in Nat, NEW k \in Nat, NEW s \in [1..L -> Value], NEW t \in [1..k -> Value]
  PROVE  /\ s \o t \in [1..(L + k) -> Value] /\ \A i \in 1..k : (s \o t)[L + i] = t[i]
         /\ Prolongs(s \o t, s, L)
<1>1. s \in Seq(Value) /\ Len(s) = L /\ t \in Seq(Value) /\ Len(t) = k
  BY SequencesAre
<1>2. s \o t \in Seq(Value) /\ Len(s \o t) = L + k
  BY <1>1
<1>3. \A i \in 1..k : (s \o t)[L + i] = t[i]
  BY <1>1
<1>4. \A i \in 1..L : (s \o t)[i] = s[i]
  BY <1>1
<1>5. s \o t \in [1..(L + k) -> Value]
  <2>1. L + k \in Nat
    OBVIOUS
  <2> QED
    BY <1>2, <2>1, SequencesAre
<1> QED
  BY <1>3, <1>4, <1>5 DEF Prolongs

LEMMA EvalIs ==
  ASSUME NEW L \in Nat, NEW s \in [1..L -> Value], NEW t \in Terms(L)
  PROVE  Eval(t, s) \in Value
BY ValuesAre DEF Terms, Eval

LEMMA EvalKept ==
  ASSUME NEW L \in Nat, NEW s, NEW u, Prolongs(u, s, L), NEW t \in Terms(L)
  PROVE  Eval(t, u) = Eval(t, s)
BY DEF Terms, Eval, Prolongs

LEMMA HoldsKept ==
  ASSUME NEW L \in Nat, NEW s, NEW u, Prolongs(u, s, L), NEW b \in Bits(L)
  PROVE  Holds(b, u) <=> Holds(b, s)
<1>1. CASE b \in 1..L
  BY <1>1 DEF Holds, Prolongs
<1>2. CASE b \notin 1..L
  <2>1. PICK n \in 1..L : b = -n
    BY <1>2 DEF Bits
  <2>2. ~(b > 0) /\ -b = n
    BY <2>1
  <2> QED
    BY <2>2 DEF Holds, Prolongs
<1> QED
  BY <1>1, <1>2

LEMMA NamesGrow ==
  ASSUME NEW L \in Nat, NEW k \in Nat
  PROVE  1..L \subseteq 1..(L + k) /\ Terms(L) \subseteq Terms(L + k) /\ Bits(L) \subseteq Bits(L + k)
<1>1. 1..L \subseteq 1..(L + k)
  OBVIOUS
<1> QED
  BY <1>1 DEF Terms, Bits

-----------------------------------------------------------------------------
(***************************************************************************)
(* The first invariant: what the pass keeps is about the L names it has    *)
(* made, the constants have their values, the exits of a block are there   *)
(* once it is translated, and there is a model on no path but the entry's. *)
(***************************************************************************)
Placed ==
  /\ f \in Functions /\ bb_vec \in Seq(Blocks(f)) /\ IsInjective(bb_vec)
  /\ bb_vec # <<>> => 1 \in Made
  /\ pos \in Nat /\ (pos # 0 => bb_vec # <<>> /\ pos <= Len(Block.ops) + 1)
  /\ \A b \in Done : Len(exit_bits[b]) = Len(Targets(f, b))
  /\ result \in Results
  /\ Len(assert_path_bits) <= Len(spec_vec)

ModelsIn(M, L) ==
  /\ M \subseteq [1..L -> Value]
  /\ \A s \in M : /\ \A v \in Value : s[ConstName(v)] = v
                  /\ \A g \in Globals : s[InitialNames[g]] = 0

NamesIn(L) ==
  /\ names \in [Blocks(f) -> [Memories -> 1..L]]
  /\ path_bit \in [Blocks(f) -> 1..L]
  /\ exit_bits \in [Blocks(f) -> Seq(Bits(L))]
  /\ m \in [Registers -> Terms(L)]
  /\ \A r \in Registers : r[1] = "const" => m[r] = Name(ConstName(r[2]))
  /\ spec_vec \in Seq([path : 1..L, term : Terms(L)]) /\ assert_path_bits \in Seq(1..L)
  /\ quant_elim_vars \cup array_vars \subseteq 1..L

Typed(L) == L >= MaxValue + 1 + Cardinality(Memories) /\ ModelsIn(models, L) /\ NamesIn(L)

AlmostNone(s) == \A b \in Made \ {1} : ~Holds(path_bit[b], s)

Named ==
  /\ Placed
  /\ result = "" => \E L \in Nat : Typed(L) /\ \E s \in models : AlmostNone(s)
  /\ result # "" => \A s, t \in models : s \in Seq(Value) /\ Len(s) = Len(t)

LEMMA FreshIs ==
  ASSUME NEW L \in Nat, Typed(L), models # {}
  PROVE  Fresh = L + 1
<1>1. (CHOOSE s \in models : TRUE) \in [1..L -> Value]
  BY DEF Typed, ModelsIn
<1> QED
  BY <1>1, SequencesAre DEF Fresh

LEMMA NamedTypeOK == Named => TypeOK
<1> SUFFICES ASSUME Named PROVE TypeOK
  OBVIOUS
<1>1. CASE result # ""
  BY <1>1 DEF Named, Placed, TypeOK
<1>2. CASE result = ""
  <2>1. PICK L \in Nat : Typed(L) /\ models # {}
    BY <1>2 DEF Named
  <2>2. Fresh - 1 = L
    BY <2>1, FreshIs
  <2>3. NamesAreMade
    BY <2>1, <2>2 DEF NamesAreMade, Typed, NamesIn, Terms, Bits
  <2>4. \A s \in models : s \in Seq(Value) /\ Len(s) = L
    BY <2>1, SequencesAre DEF Typed, ModelsIn
  <2> QED
    BY <2>3, <2>4 DEF Named, Placed, TypeOK
<1> QED
  BY <1>1, <1>2

LEMMA NamedConsistent == Named => Consistent
BY DEF Named, Consistent, AlmostNone

(***************************************************************************)
(* The place in a block.                                                   *)
(***************************************************************************)
LEMMA AtOp ==
  ASSUME Placed, pos # 0
  PROVE  /\ WellFormed(f) /\ bidx \in Blocks(f) /\ bidx \in Made /\ Made \subseteq Blocks(f)
         /\ Len(Block.ops) \in Nat /\ DOMAIN Block.ops = 1..Len(Block.ops)
<1>1. WellFormed(f)
  BY FunctionsAssumption DEF Placed
<1>2. Len(bb_vec) \in Nat \ {0} /\ DOMAIN bb_vec = 1..Len(bb_vec) /\ \A i \in 1..Len(bb_vec) : bb_vec[i] \in Blocks(f)
  BY DEF Placed
<1>3. bidx \in Blocks(f) /\ bidx \in Made /\ Made \subseteq Blocks(f)
  BY <1>2 DEF bidx, Last, Made, Range
<1> QED
  BY <1>1, <1>3, BlocksOf DEF Block

LEMMA ReadingPlaced ==
  ASSUME Placed, NEW ops, Reading(ops)
  PROVE  /\ pos \in DOMAIN Block.ops /\ Op.op \in ops /\ bidx' = bidx /\ Made' = Made /\ Done' = Done
         /\ Len(assert_path_bits') <= Len(spec_vec') => Placed'
<1>1. /\ result = "" /\ pos # 0 /\ pos <= Len(Block.ops) /\ Op.op \in ops /\ pos' = pos + 1
      /\ f' = f /\ bb_vec' = bb_vec /\ exit_bits' = exit_bits /\ result' = result
  BY DEF Reading, Op
<1>2. Len(Block.ops) \in Nat /\ DOMAIN Block.ops = 1..Len(Block.ops) /\ pos \in Nat
  BY <1>1, AtOp DEF Placed
<1>3. bidx' = bidx /\ Made' = Made /\ Block' = Block
  BY <1>1 DEF bidx, Made, Block
<1>4. pos \in Nat /\ pos' = pos + 1 /\ pos' # 0
  <2>1. pos \in Nat
    BY DEF Placed
  <2>2. pos' = pos + 1
    BY <1>1
  <2> QED
    BY <2>1, <2>2
<1>5. Done' = Done
  BY <1>1, <1>3, <1>4 DEF Done
<1>6. pos \in DOMAIN Block.ops /\ pos + 1 <= Len(Block.ops) + 1
  <2>1. pos <= Len(Block.ops) /\ pos # 0
    BY <1>1
  <2> QED
    BY <1>2, <1>4, <2>1
<1>7. ASSUME Len(assert_path_bits') <= Len(spec_vec') PROVE Placed'
  <2>1. bb_vec # <<>>
    BY <1>1 DEF Placed
  <2>2. pos' \in Nat /\ pos' <= Len(Block'.ops) + 1
    BY <1>3, <1>4, <1>6
  <2>3. \A b \in Done' : Len(exit_bits'[b]) = Len(Targets(f', b))
    BY <1>1, <1>5 DEF Placed
  <2>4. /\ f' \in Functions /\ bb_vec' \in Seq(Blocks(f')) /\ IsInjective(bb_vec')
        /\ (bb_vec' # <<>> => 1 \in Made') /\ result' \in Results
    BY <1>1, <1>3 DEF Placed
  <2> QED
    BY <1>1, <1>7, <2>1, <2>2, <2>3, <2>4 DEF Placed
<1> QED
  BY <1>1, <1>3, <1>5, <1>6, <1>7

(***************************************************************************)
(* What is about L names is about more of them.                            *)
(***************************************************************************)
LEMMA NamesInMore ==
  ASSUME NEW L \in Nat, NEW k \in Nat, NamesIn(L)
  PROVE  NamesIn(L + k)
<1>1. 1..L \subseteq 1..(L + k) /\ Terms(L) \subseteq Terms(L + k) /\ Bits(L) \subseteq Bits(L + k)
  BY NamesGrow
<1>2. names \in [Blocks(f) -> [Memories -> 1..(L + k)]] /\ path_bit \in [Blocks(f) -> 1..(L + k)]
  BY <1>1 DEF NamesIn
<1>3. exit_bits \in [Blocks(f) -> Seq(Bits(L + k))]
  <2>1. \A q \in Seq(Bits(L)) : q \in Seq(Bits(L + k))
    BY <1>1, SeqMonotonic
  <2> QED
    BY <2>1 DEF NamesIn
<1>4. /\ m \in [Registers -> Terms(L + k)]
      /\ \A r \in Registers : r[1] = "const" => m[r] = Name(ConstName(r[2]))
  BY <1>1 DEF NamesIn
<1>5. spec_vec \in Seq([path : 1..(L + k), term : Terms(L + k)])
  <2>1. [path : 1..L, term : Terms(L)] \subseteq [path : 1..(L + k), term : Terms(L + k)]
    BY <1>1
  <2> QED
    BY <2>1, SeqMonotonic DEF NamesIn
<1>6. assert_path_bits \in Seq(1..(L + k)) /\ quant_elim_vars \cup array_vars \subseteq 1..(L + k)
  <2>1. assert_path_bits \in Seq(1..(L + k))
    BY <1>1, SeqMonotonic DEF NamesIn
  <2> QED
    BY <1>1, <2>1 DEF NamesIn
<1> QED
  BY <1>2, <1>3, <1>4, <1>5, <1>6 DEF NamesIn

LEMMA NamesOfConstants ==
  ASSUME NEW L \in Nat, L >= MaxValue + 1 + Cardinality(Memories)
  PROVE  /\ \A v \in Value : ConstName(v) \in 1..L /\ Name(ConstName(v)) \in Terms(L)
         /\ TrueBit \in 1..L /\ FalseBit \in 1..L /\ InitialNames \in [Memories -> 1..L]
<1>1. MaxValue \in Nat \ {0} /\ Cardinality(Memories) \in Nat
  BY ValuesAssumption, InitialNamesAre
<1>2. \A v \in Value : ConstName(v) \in 1..L
  BY <1>1 DEF Value, ConstName
<1>3. 0 \in Value /\ 1 \in Value
  BY <1>1 DEF Value
<1>4. InitialNames \in [Memories -> 1..L]
  <2>1. (MaxValue + 2)..(MaxValue + 1 + Cardinality(Memories)) \subseteq 1..L
    BY <1>1
  <2> QED
    BY <2>1, InitialNamesAre
<1> QED
  BY <1>2, <1>3, <1>4 DEF Name, Terms, TrueBit, FalseBit

LEMMA ModelsInMore ==
  ASSUME NEW L \in Nat, L >= MaxValue + 1 + Cardinality(Memories), NEW k \in Nat, NEW M, NEW N,
         ModelsIn(M, L), N \subseteq [1..(L + k) -> Value],
         \A u \in N : \E s \in M : Prolongs(u, s, L)
  PROVE  ModelsIn(N, L + k)
<1>1. \A v \in Value : ConstName(v) \in 1..L
  BY NamesOfConstants
<1>2. \A g \in Globals : InitialNames[g] \in 1..L
  BY NamesOfConstants, ValuesAssumption
<1>3. ASSUME NEW u \in N PROVE /\ \A v \in Value : u[ConstName(v)] = v
                               /\ \A g \in Globals : u[InitialNames[g]] = 0
  <2>1. PICK s \in M : \A i \in 1..L : u[i] = s[i]
    BY DEF Prolongs
  <2>2. /\ \A v \in Value : s[ConstName(v)] = v
        /\ \A g \in Globals : s[InitialNames[g]] = 0
    BY DEF ModelsIn
  <2> QED
    BY <1>1, <1>2, <2>1, <2>2
<1> QED
  BY <1>3 DEF ModelsIn

LEMMA ModelsInOne ==
  ASSUME NEW L \in Nat, L >= MaxValue + 1 + Cardinality(Memories), NEW M, NEW N,
         ModelsIn(M, L), \A u \in N : \E s \in M, v \in Value : u = Append(s, v)
  PROVE  ModelsIn(N, L + 1)
<1>1. ASSUME NEW u \in N
      PROVE  u \in [1..(L + 1) -> Value] /\ \E s \in M : Prolongs(u, s, L)
  <2>1. PICK s \in M : \E v \in Value : u = Append(s, v)
    OBVIOUS
  <2>2. PICK v \in Value : u = Append(s, v)
    BY <2>1
  <2>3. s \in [1..L -> Value]
    BY DEF ModelsIn
  <2> QED
    BY <2>2, <2>3, OneMore
<1> QED
  BY <1>1, ModelsInMore

(***************************************************************************)
(* The operations.                                                         *)
(***************************************************************************)
NamedNext ==
  /\ Placed'
  /\ \E K \in Nat : Typed(K)'
  /\ \E s \in models' : AlmostNone(s)'

LEMMA AlmostNoneKept ==
  ASSUME NEW L \in Nat, NamesIn(L), Made \subseteq Blocks(f), NEW s, AlmostNone(s), NEW u, Prolongs(u, s, L)
  PROVE  \A b \in Made \ {1} : ~Holds(path_bit[b], u)
<1> SUFFICES ASSUME NEW b \in Made \ {1} PROVE ~Holds(path_bit[b], u)
  OBVIOUS
<1>1. path_bit[b] \in Bits(L)
  BY DEF NamesIn, Bits
<1> QED
  BY <1>1, HoldsKept DEF AlmostNone

LEMMA NondetNamed ==
  ASSUME Placed, NEW L \in Nat, Typed(L), NEW s \in models, AlmostNone(s), translateNondet
  PROVE  NamedNext
<1> DEFINE K == L + 1
<1>1. /\ Reading({"nondet"}) /\ m' = [m EXCEPT ![Op.reg] = Name(Fresh)] /\ array_vars' = array_vars
      /\ models' = {Append(t, v) : t \in models, v \in Value}
      /\ quant_elim_vars' = quant_elim_vars \cup {Fresh}
      /\ names' = names /\ path_bit' = path_bit /\ spec_vec' = spec_vec /\ assert_path_bits' = assert_path_bits
      /\ f' = f /\ exit_bits' = exit_bits
  <2>1. Reading({"nondet"}) /\ Insert(Name(Fresh))
    BY DEF translateNondet
  <2>2. /\ models' = {Append(t, v) : t \in models, v \in Value}
        /\ quant_elim_vars' = quant_elim_vars \cup {Fresh}
        /\ names' = names /\ path_bit' = path_bit /\ spec_vec' = spec_vec /\ assert_path_bits' = assert_path_bits
    BY DEF translateNondet
  <2>3. f' = f /\ exit_bits' = exit_bits
    BY <2>1 DEF Reading
  <2>4. m' = [m EXCEPT ![Op.reg] = Name(Fresh)] /\ array_vars' = array_vars
    BY <2>1 DEF Insert
  <2> QED
    BY <2>1, <2>2, <2>3, <2>4
<1>2. Fresh = K /\ K \in Nat /\ K \in 1..K
  BY FreshIs
<1>3. /\ Placed' /\ Made' = Made
      /\ pos \in DOMAIN Block.ops /\ Op.op = "nondet"
  <2>1. Len(assert_path_bits') <= Len(spec_vec')
    BY <1>1 DEF Placed
  <2> QED
    BY <1>1, <2>1, ReadingPlaced
<1>4. Op.reg[1] # "const" /\ WellFormed(f) /\ Made \subseteq Blocks(f)
  <2>1. pos # 0
    BY <1>1 DEF Reading
  <2> QED
    BY <1>3, <2>1, AtOp, OpOf DEF Op, Block, Defines
<1>5. L >= MaxValue + 1 + Cardinality(Memories) /\ ModelsIn(models, L) /\ NamesIn(L)
  BY DEF Typed
<1>6. ModelsIn(models', K)
  BY <1>1, <1>5, ModelsInOne
<1>7. NamesIn(K) /\ Name(K) \in Terms(K)
  BY <1>2, <1>5, NamesInMore DEF Name, Terms
<1>8. NamesIn(K)'
  BY <1>1, <1>2, <1>4, <1>7 DEF NamesIn
<1>9. Typed(K)'
  <2>1. K >= MaxValue + 1 + Cardinality(Memories)
    BY <1>5, InitialNamesAre, ValuesAssumption
  <2> HIDE DEF K
  <2> QED
    BY <1>6, <1>8, <2>1 DEF Typed, ModelsIn
<1>10. AlmostNone(Append(s, 0))' /\ Append(s, 0) \in models'
  <2>1. Prolongs(Append(s, 0), s, L)
    BY <1>5, ValuesAre, OneMore DEF ModelsIn
  <2>2. \A b \in Made \ {1} : ~Holds(path_bit[b], Append(s, 0))
    BY <1>4, <1>5, <2>1, AlmostNoneKept
  <2> QED
    BY <1>1, <1>3, <2>2, ValuesAre DEF AlmostNone
<1> HIDE DEF K
<1> QED
  BY <1>2, <1>3, <1>9, <1>10 DEF NamedNext

(* What all operations share. *)
LEMMA Reader ==
  ASSUME Placed, NEW L \in Nat, Typed(L), models # {}, NEW ops, Reading(ops)
  PROVE  /\ f' = f /\ exit_bits' = exit_bits /\ bidx' = bidx /\ Made' = Made /\ Done' = Done
         /\ WellFormed(f) /\ Made \subseteq Blocks(f) /\ bidx \in Blocks(f) /\ bidx \in Made
         /\ pos \in DOMAIN Block.ops /\ Op.op \in ops
         /\ Fresh = L + 1 /\ L >= MaxValue + 1 + Cardinality(Memories) /\ ModelsIn(models, L) /\ NamesIn(L)
         /\ L + 1 >= MaxValue + 1 + Cardinality(Memories) /\ NamesIn(L + 1)
         /\ Len(assert_path_bits') <= Len(spec_vec') => Placed'
         /\ Len(assert_path_bits) <= Len(spec_vec)
<1>1. f' = f /\ exit_bits' = exit_bits /\ pos # 0
  BY DEF Reading
<1>2. L >= MaxValue + 1 + Cardinality(Memories) /\ ModelsIn(models, L) /\ NamesIn(L)
  BY DEF Typed
<1>3. L + 1 >= MaxValue + 1 + Cardinality(Memories)
  BY <1>2, InitialNamesAre, ValuesAssumption
<1>4. Len(assert_path_bits) <= Len(spec_vec)
  BY DEF Placed
<1> QED
  BY <1>1, <1>2, <1>3, <1>4, ReadingPlaced, AtOp, FreshIs, NamesInMore

LEMMA LoadNamed ==
  ASSUME Placed, NEW L \in Nat, Typed(L), NEW s \in models, AlmostNone(s), translateLoadInst
  PROVE  NamedNext
<1>1. /\ Reading({"load"}) /\ m' = [m EXCEPT ![Op.reg] = Name(names[bidx][Op.mem])] /\ array_vars' = array_vars
      /\ names' = names /\ path_bit' = path_bit /\ spec_vec' = spec_vec /\ assert_path_bits' = assert_path_bits
      /\ quant_elim_vars' = quant_elim_vars /\ models' = models
  <2>1. Reading({"load"}) /\ Insert(Name(names[bidx][Op.mem]))
    BY DEF translateLoadInst
  <2> QED
    BY <2>1 DEF translateLoadInst, Insert
<1>2. /\ f' = f /\ exit_bits' = exit_bits /\ Made' = Made /\ WellFormed(f) /\ bidx \in Blocks(f)
      /\ pos \in DOMAIN Block.ops /\ Op.op = "load"
      /\ L >= MaxValue + 1 + Cardinality(Memories) /\ ModelsIn(models, L) /\ NamesIn(L)
      /\ Placed'
  BY <1>1, Reader
<1>3. Op.reg[1] # "const" /\ Op.mem \in Memories
  BY <1>2, OpOf DEF Op, Block, Defines
<1>4. Name(names[bidx][Op.mem]) \in Terms(L)
  BY <1>2, <1>3 DEF NamesIn, Name, Terms
<1>5. NamesIn(L)'
  BY <1>1, <1>2, <1>3, <1>4 DEF NamesIn
<1>6. Typed(L)'
  BY <1>1, <1>2, <1>5 DEF Typed, ModelsIn
<1>7. AlmostNone(s)' /\ s \in models'
  BY <1>1, <1>2 DEF AlmostNone
<1> QED
  BY <1>2, <1>6, <1>7 DEF NamedNext

LEMMA StoreNamed ==
  ASSUME Placed, NEW L \in Nat, Typed(L), NEW s \in models, AlmostNone(s), translateStoreInst
  PROVE  NamedNext
<1> DEFINE K == L + 1
           val == m[Op.reg]
<1>1. /\ Reading({"store"}) /\ m' = m
      /\ array_vars' = IF Op.mem \in Arrays THEN array_vars \cup {Fresh} ELSE array_vars
      /\ names' = [names EXCEPT ![bidx][Op.mem] = Fresh]
      /\ path_bit' = path_bit /\ spec_vec' = spec_vec /\ assert_path_bits' = assert_path_bits
      /\ quant_elim_vars' = quant_elim_vars /\ models' = {Append(t, Eval(val, t)) : t \in models}
  BY DEF translateStoreInst
<1>2. /\ f' = f /\ exit_bits' = exit_bits /\ Made' = Made /\ WellFormed(f) /\ bidx \in Blocks(f)
      /\ pos \in DOMAIN Block.ops /\ Op.op = "store" /\ Fresh = K /\ Made \subseteq Blocks(f)
      /\ L >= MaxValue + 1 + Cardinality(Memories) /\ ModelsIn(models, L) /\ NamesIn(L)
      /\ K >= MaxValue + 1 + Cardinality(Memories) /\ NamesIn(K) /\ Placed'
  BY <1>1, Reader
<1>3. Op.reg \in Registers /\ Op.mem \in Memories
  BY <1>2, OpOf DEF Op, Block
<1>4. val \in Terms(L) /\ \A t \in models : t \in [1..L -> Value] /\ Eval(val, t) \in Value
  BY <1>2, <1>3, EvalIs DEF NamesIn, ModelsIn
<1>5. ModelsIn(models', K)
  <2> HIDE DEF val
  <2> QED
    BY <1>1, <1>2, <1>4, ModelsInOne
<1>6. K \in 1..K /\ K \in Nat
  OBVIOUS
<1>7. NamesIn(K)'
  <2>1. names' \in [Blocks(f) -> [Memories -> 1..K]]
    BY <1>1, <1>2, <1>3, <1>6 DEF NamesIn
  <2>2. array_vars' \subseteq 1..K
    BY <1>1, <1>2, <1>6 DEF NamesIn
  <2> HIDE DEF K
  <2> QED
    BY <1>1, <1>2, <2>1, <2>2 DEF NamesIn
<1>8. Typed(K)'
  <2> HIDE DEF K
  <2> QED
    BY <1>2, <1>5, <1>7 DEF Typed, ModelsIn
<1>9. \E u \in models' : \A b \in Made' \ {1} : ~Holds(path_bit'[b], u)
  <2> HIDE DEF val
  <2>1. Prolongs(Append(s, Eval(val, s)), s, L)
    BY <1>4, OneMore
  <2>2. \A b \in Made \ {1} : ~Holds(path_bit[b], Append(s, Eval(val, s)))
    BY <1>2, <2>1, AlmostNoneKept
  <2> QED
    BY <1>1, <1>2, <2>2
<1> HIDE DEF K, val
<1> QED
  BY <1>2, <1>6, <1>8, <1>9 DEF NamedNext, AlmostNone

LEMMA CmpNamed ==
  ASSUME Placed, NEW L \in Nat, Typed(L), NEW s \in models, AlmostNone(s), translateCmpInst
  PROVE  NamedNext
<1> DEFINE t == [eq |-> TRUE, left |-> m[Op.left].left, right |-> m[Op.right].left]
<1>1. /\ Reading({"eq"}) /\ m' = [m EXCEPT ![Op.reg] = t] /\ array_vars' = array_vars
      /\ names' = names /\ path_bit' = path_bit /\ spec_vec' = spec_vec /\ assert_path_bits' = assert_path_bits
      /\ quant_elim_vars' = quant_elim_vars /\ models' = models
  <2>1. Reading({"eq"}) /\ Insert(t)
    BY DEF translateCmpInst
  <2> HIDE DEF t
  <2> QED
    BY <2>1 DEF translateCmpInst, Insert
<1>2. /\ f' = f /\ exit_bits' = exit_bits /\ Made' = Made /\ WellFormed(f) /\ bidx \in Blocks(f)
      /\ pos \in DOMAIN Block.ops /\ Op.op = "eq"
      /\ L >= MaxValue + 1 + Cardinality(Memories) /\ ModelsIn(models, L) /\ NamesIn(L)
      /\ Placed'
  BY <1>1, Reader
<1>3. Op.reg[1] # "const" /\ Op.left \in Registers /\ Op.right \in Registers
  BY <1>2, OpOf DEF Op, Block, Defines
<1>4. t \in Terms(L)
  BY <1>2, <1>3 DEF NamesIn, Terms
<1>5. NamesIn(L)'
  <2> HIDE DEF t
  <2> QED
    BY <1>1, <1>2, <1>3, <1>4 DEF NamesIn
<1>6. Typed(L)'
  BY <1>1, <1>2, <1>5 DEF Typed, ModelsIn
<1>7. AlmostNone(s)' /\ s \in models'
  BY <1>1, <1>2 DEF AlmostNone
<1> QED
  BY <1>2, <1>6, <1>7 DEF NamedNext

LEMMA AssumeNamed ==
  ASSUME Placed, NEW L \in Nat, Typed(L), NEW s \in models, AlmostNone(s), assume_to_bmc
  PROVE  NamedNext
<1> DEFINE K == L + 1
           val == m[Op.reg]
           bit(t) == Truth(Holds(path_bit[bidx], t) /\ Eval(val, t) # 0)
<1>1. /\ Reading({"assume"}) /\ m' = m /\ array_vars' = array_vars /\ names' = names
      /\ path_bit' = [path_bit EXCEPT ![bidx] = Fresh]
      /\ spec_vec' = spec_vec /\ assert_path_bits' = assert_path_bits
      /\ quant_elim_vars' = quant_elim_vars \cup {Fresh} /\ models' = {Append(t, bit(t)) : t \in models}
  BY DEF assume_to_bmc
<1>2. /\ f' = f /\ exit_bits' = exit_bits /\ Made' = Made /\ WellFormed(f) /\ bidx \in Blocks(f)
      /\ pos \in DOMAIN Block.ops /\ Fresh = K /\ Made \subseteq Blocks(f)
      /\ L >= MaxValue + 1 + Cardinality(Memories) /\ ModelsIn(models, L) /\ NamesIn(L)
      /\ K >= MaxValue + 1 + Cardinality(Memories) /\ NamesIn(K) /\ Placed'
  BY <1>1, Reader
<1>3. \A t \in models : t \in [1..L -> Value] /\ bit(t) \in Value
  BY <1>2, ValuesAre DEF ModelsIn
<1>4. ModelsIn(models', K)
  <2> HIDE DEF bit
  <2> QED
    BY <1>1, <1>2, <1>3, ModelsInOne
<1>5. K \in 1..K /\ K \in Nat
  OBVIOUS
<1>6. NamesIn(K)'
  <2> HIDE DEF K
  <2> QED
    BY <1>1, <1>2, <1>5 DEF NamesIn
<1>7. Typed(K)'
  <2> HIDE DEF K
  <2> QED
    BY <1>2, <1>4, <1>6 DEF Typed, ModelsIn
<1>8. \A b \in Made \ {1} : ~Holds(path_bit'[b], Append(s, bit(s)))
  <2> SUFFICES ASSUME NEW b \in Made \ {1} PROVE ~Holds(path_bit'[b], Append(s, bit(s)))
    OBVIOUS
  <2>1. Prolongs(Append(s, bit(s)), s, L) /\ Append(s, bit(s))[L + 1] = bit(s)
    <3> HIDE DEF bit
    <3> QED
      BY <1>3, OneMore
  <2>2. CASE b = bidx
    <3>1. ~Holds(path_bit[bidx], s)
      BY <2>2 DEF AlmostNone
    <3>2. bit(s) = 0
      BY <3>1 DEF Truth
    <3>3. path_bit'[b] = K
      BY <1>1, <1>2, <2>2 DEF NamesIn
    <3>4. K > 0 /\ Append(s, bit(s))[K] = 0
      <4> HIDE DEF bit
      <4> QED
        BY <1>5, <2>1, <3>2
    <3> HIDE DEF K, bit
    <3> QED
      BY <3>3, <3>4 DEF Holds
  <2>3. CASE b # bidx
    <3>1. path_bit'[b] = path_bit[b]
      BY <1>1, <1>2, <2>3 DEF NamesIn
    <3> HIDE DEF bit
    <3> QED
      BY <1>2, <2>1, <3>1, AlmostNoneKept
  <2> QED
    BY <2>2, <2>3
<1>9. \E u \in models' : \A b \in Made' \ {1} : ~Holds(path_bit'[b], u)
  <2> HIDE DEF bit
  <2> QED
    BY <1>1, <1>2, <1>8
<1> HIDE DEF K, bit, val
<1> QED
  BY <1>2, <1>5, <1>7, <1>9 DEF NamedNext, AlmostNone

LEMMA AssertNamed ==
  ASSUME Placed, NEW L \in Nat, Typed(L), NEW s \in models, AlmostNone(s), assert_to_spec
  PROVE  NamedNext
<1> DEFINE spec == [path |-> path_bit[bidx], term |-> m[Op.reg]]
<1>1. /\ Reading({"assert"}) /\ m' = m /\ array_vars' = array_vars
      /\ names' = names /\ path_bit' = path_bit /\ spec_vec' = Append(spec_vec, spec)
      /\ assert_path_bits' = Append(assert_path_bits, path_bit[bidx])
      /\ quant_elim_vars' = quant_elim_vars /\ models' = models
  BY DEF assert_to_spec
<1>2. /\ f' = f /\ exit_bits' = exit_bits /\ Made' = Made /\ WellFormed(f) /\ bidx \in Blocks(f)
      /\ pos \in DOMAIN Block.ops /\ Op.op = "assert"
      /\ L >= MaxValue + 1 + Cardinality(Memories) /\ ModelsIn(models, L) /\ NamesIn(L)
      /\ Len(assert_path_bits') <= Len(spec_vec') => Placed'
      /\ Len(assert_path_bits) <= Len(spec_vec)
  BY <1>1, Reader
<1>3. Op.reg \in Registers
  BY <1>2, OpOf DEF Op, Block
<1>4. spec \in [path : 1..L, term : Terms(L)] /\ path_bit[bidx] \in 1..L
  BY <1>2, <1>3 DEF NamesIn
<1> HIDE DEF spec
<1>5. /\ spec_vec \in Seq([path : 1..L, term : Terms(L)]) /\ assert_path_bits \in Seq(1..L)
      /\ spec_vec' \in Seq([path : 1..L, term : Terms(L)]) /\ assert_path_bits' \in Seq(1..L)
      /\ Len(spec_vec') = Len(spec_vec) + 1 /\ Len(assert_path_bits') = Len(assert_path_bits) + 1
  BY <1>1, <1>2, <1>4, AppendProperties DEF NamesIn
<1>6. Placed'
  BY <1>2, <1>5
<1>7. NamesIn(L)'
  BY <1>1, <1>2, <1>5 DEF NamesIn
<1>8. Typed(L)'
  BY <1>1, <1>2, <1>7 DEF Typed, ModelsIn
<1>9. AlmostNone(s)' /\ s \in models'
  BY <1>1, <1>2 DEF AlmostNone
<1> QED
  BY <1>6, <1>8, <1>9 DEF NamedNext

(***************************************************************************)
(* The edges.                                                              *)
(***************************************************************************)
LEMMA IndexOf ==
  ASSUME NEW g, WellFormed(g), NEW p \in Blocks(g), NEW b \in Succs(g, p)
  PROVE  LET i == getSuccessorIndex(g, p, b) IN
         /\ i \in DOMAIN Targets(g, p) /\ Targets(g, p)[i] = b
         /\ \A j \in 1..(i - 1) : Targets(g, p)[j] # b
<1> DEFINE T == {i \in DOMAIN Targets(g, p) : Targets(g, p)[i] = b}
<1>1. DOMAIN Targets(g, p) = 1..Len(Targets(g, p)) /\ Len(Targets(g, p)) \in Nat
  BY EndOf DEF Targets
<1>2. T \in SUBSET Nat /\ T # {}
  BY <1>1 DEF Succs, Range
<1>3. PICK i \in T : \A j \in T : i <= j
  <2> HIDE DEF T
  <2> QED
    BY <1>2, LeastNatural
<1>4. \A j \in 1..(i - 1) : Targets(g, p)[j] # b
  BY <1>1, <1>3
<1>5. \E k \in DOMAIN Targets(g, p) : Targets(g, p)[k] = b /\ \A j \in 1..(k - 1) : Targets(g, p)[j] # b
  BY <1>4
<1> QED
  BY <1>5 DEF getSuccessorIndex

LEMMA NoSelfLoop ==
  ASSUME NEW g, WellFormed(g), NEW b \in Blocks(g)
  PROVE  b \notin Succs(g, b) /\ b \notin Preds(g, b)
<1>1. \A c \in Blocks(g) : Height(g)[c] \in 0..Len(g.block)
  BY HeightIs
<1>2. \A s \in Succs(g, b) : Height(g)[s] < Height(g)[b]
  BY HeightIs
<1>3. b \notin Succs(g, b)
  BY <1>1, <1>2
<1> QED
  BY <1>3 DEF Preds

LEMMA EdgeIn ==
  ASSUME NEW L \in Nat, NamesIn(L), Placed, NEW p \in Done, p \in Blocks(f), NEW b \in Succs(f, p)
  PROVE  /\ extend_path(b, p).path = path_bit[p] /\ path_bit[p] \in Bits(L)
         /\ extend_path(b, p).exit \in Bits(L)
<1>1. path_bit[p] \in 1..L /\ exit_bits[p] \in Seq(Bits(L))
  BY DEF NamesIn
<1>2. getSuccessorIndex(f, p, b) \in 1..Len(Targets(f, p))
  <2>1. WellFormed(f)
    BY FunctionsAssumption DEF Placed
  <2>2. DOMAIN Targets(f, p) = 1..Len(Targets(f, p))
    BY <2>1, EndOf DEF Targets
  <2> QED
    BY <2>1, <2>2, IndexOf
<1>3. Len(exit_bits[p]) = Len(Targets(f, p))
  BY DEF Placed
<1>4. exit_bits[p][getSuccessorIndex(f, p, b)] \in Bits(L)
  BY <1>1, <1>2, <1>3, ElementOfSeq
<1> QED
  BY <1>1, <1>4 DEF extend_path, Bits

LEMMA TakenKept ==
  ASSUME NEW L \in Nat, NEW e, e.path \in Bits(L), e.exit \in Bits(L), NEW s, NEW u, Prolongs(u, s, L)
  PROVE  Taken(e, u) <=> Taken(e, s)
BY HoldsKept DEF Taken

LEMMA PredsDone ==
  ASSUME Placed, NEW b \in Blocks(f), pos = 0 \/ b = bidx
  PROVE  Preds(f, b) \cap Made \subseteq Done
<1>1. WellFormed(f)
  BY FunctionsAssumption DEF Placed
<1>2. b \notin Preds(f, b)
  BY <1>1, NoSelfLoop
<1> QED
  BY <1>2 DEF Done

LEMMA PhiNamed ==
  ASSUME Placed, NEW L \in Nat, Typed(L), NEW s \in models, AlmostNone(s), translatePhiNode
  PROVE  NamedNext
<1> DEFINE K == L + 1
           prevs == DOMAIN Op.in \cap Preds(f, bidx) \cap Made
           Fits(u) == \A p \in prevs : Taken(extend_path(bidx, p), u) => u[K] = Eval(m[Op.in[p]], u)
<1>1. Reading({"phi"}) /\ Insert(Name(Fresh))
  BY DEF translatePhiNode
<1>2. /\ f' = f /\ exit_bits' = exit_bits /\ Made' = Made /\ WellFormed(f) /\ bidx \in Blocks(f)
      /\ pos \in DOMAIN Block.ops /\ Op.op = "phi" /\ Fresh = K /\ Made \subseteq Blocks(f)
      /\ L >= MaxValue + 1 + Cardinality(Memories) /\ ModelsIn(models, L) /\ NamesIn(L)
      /\ K >= MaxValue + 1 + Cardinality(Memories) /\ NamesIn(K)
      /\ Len(assert_path_bits') <= Len(spec_vec') => Placed'
      /\ Len(assert_path_bits) <= Len(spec_vec)
  BY <1>1, Reader
<1>3. /\ names' = names /\ path_bit' = path_bit /\ spec_vec' = spec_vec /\ assert_path_bits' = assert_path_bits
      /\ quant_elim_vars' = quant_elim_vars
      /\ models' = {u \in {Append(t, v) : t \in models, v \in Value} : Fits(u)}
  BY <1>2 DEF translatePhiNode
<1>4. m' = [m EXCEPT ![Op.reg] = Name(K)] /\ array_vars' = array_vars
  BY <1>1, <1>2 DEF Insert
<1>5. Op.reg[1] # "const" /\ \A p \in prevs : Op.in[p] \in Registers
  BY <1>2, OpOf DEF Op, Block, Defines
<1>6. ModelsIn(models', K)
  <2> HIDE DEF Fits
  <2>1. \A u \in models' : \E t \in models, v \in Value : u = Append(t, v)
    BY <1>3
  <2> QED
    BY <1>2, <2>1, ModelsInOne
<1>7. K \in Nat /\ Name(K) \in Terms(K)
  BY DEF Name, Terms
<1>8. NamesIn(K)'
  <2> HIDE DEF K
  <2> QED
    BY <1>2, <1>3, <1>4, <1>5, <1>7 DEF NamesIn
<1>9. Typed(K)'
  <2> HIDE DEF K
  <2> QED
    BY <1>2, <1>6, <1>8 DEF Typed, ModelsIn
<1>10. \E u \in models' : \A b \in Made' \ {1} : ~Holds(path_bit'[b], u)
  <2> DEFINE v == IF 1 \in prevs THEN Eval(m[Op.in[1]], s) ELSE 0
             u == Append(s, v)
  <2>1. s \in [1..L -> Value] /\ \A p \in prevs : m[Op.in[p]] \in Terms(L)
    BY <1>2, <1>5 DEF ModelsIn, NamesIn
  <2>2. v \in Value
    <3>1. CASE 1 \in prevs
      BY <2>1, <3>1, EvalIs
    <3>2. CASE 1 \notin prevs
      BY <3>2, ValuesAre
    <3> QED
      BY <3>1, <3>2
  <2>3. Prolongs(u, s, L) /\ u[K] = v
    <3> HIDE DEF v
    <3> QED
      BY <2>1, <2>2, OneMore
  <2>4. \A b \in Made \ {1} : ~Holds(path_bit[b], u)
    <3> HIDE DEF u
    <3> QED
      BY <1>2, <2>3, AlmostNoneKept
  <2>5. ASSUME NEW p \in prevs, Taken(extend_path(bidx, p), u) PROVE u[K] = Eval(m[Op.in[p]], u)
    <3> HIDE DEF u, K
    <3>1. p \in Done /\ p \in Blocks(f) /\ bidx \in Succs(f, p) /\ p \in Made
      BY <1>2, PredsDone DEF Preds
    <3>2. Holds(path_bit[p], u)
      BY <1>2, <2>5, <3>1, EdgeIn DEF Taken
    <3>3. p = 1
      BY <2>4, <3>1, <3>2
    <3>4. v = Eval(m[Op.in[p]], s)
      BY <3>3
    <3>5. Eval(m[Op.in[p]], u) = Eval(m[Op.in[p]], s)
      BY <2>1, <2>3, EvalKept
    <3> HIDE DEF v
    <3> QED
      BY <2>3, <3>4, <3>5
  <2>6. u \in models'
    <3>1. Fits(u)
      <4> HIDE DEF u, K, prevs
      <4> QED
        BY <2>5
    <3> HIDE DEF Fits, v
    <3> QED
      BY <1>3, <2>2, <3>1
  <2> HIDE DEF u
  <2> QED
    BY <1>2, <1>3, <2>4, <2>6
<1>11. Placed'
  BY <1>2, <1>3
<1> HIDE DEF K, Fits, prevs
<1> QED
  BY <1>7, <1>9, <1>10, <1>11 DEF NamedNext, AlmostNone

(***************************************************************************)
(* The terminators.                                                        *)
(***************************************************************************)
LEMMA ClaimsIn ==
  ASSUME Placed, pos # 0, NEW L \in Nat, Typed(L)
  PROVE  Claims \in Seq([path : 1..L, term : Terms(L)])
<1> DEFINE spec(c) == [path |-> TrueBit,
                       term |-> [eq |-> TRUE, left |-> names[bidx][c[1]], right |-> ConstName(c[2])]]
           S == {spec(c) : c \in Block.claim}
<1>1. bidx \in Blocks(f) /\ WellFormed(f)
  BY AtOp
<1>2. Block.claim \subseteq Memories \X Value /\ IsFiniteSet(Block.claim)
  BY <1>1 DEF WellFormed, Block
<1>3. L >= MaxValue + 1 + Cardinality(Memories) /\ NamesIn(L)
  BY DEF Typed
<1>4. TrueBit \in 1..L /\ \A v \in Value : ConstName(v) \in 1..L
  BY <1>3, NamesOfConstants
<1>5. ASSUME NEW c \in Block.claim PROVE spec(c) \in [path : 1..L, term : Terms(L)]
  <2>1. c[1] \in Memories /\ c[2] \in Value
    BY <1>2
  <2>2. names[bidx][c[1]] \in 1..L /\ ConstName(c[2]) \in 1..L
    BY <1>1, <1>3, <1>4, <2>1 DEF NamesIn
  <2> QED
    BY <1>4, <2>2 DEF Terms
<1>6. IsFiniteSet(S)
  <2> DEFINE h == [c \in Block.claim |-> spec(c)]
  <2>1. h \in Surjection(Block.claim, S)
    <3> HIDE DEF spec
    <3> QED
      BY DEF Surjection
  <2> HIDE DEF h, S
  <2> QED
    BY <1>2, <2>1, FS_Surjection
<1>7. SetToSeq(S) \in Seq(S)
  <2> HIDE DEF S
  <2> QED
    BY <1>6, Enumerated
<1>8. S \subseteq [path : 1..L, term : Terms(L)]
  <2> HIDE DEF spec
  <2> QED
    BY <1>5
<1>9. Claims = SetToSeq(S)
  BY DEF Claims
<1> HIDE DEF S
<1> QED
  BY <1>7, <1>8, <1>9, SeqMonotonic

LEMMA Ender ==
  ASSUME Placed, NEW L \in Nat, Typed(L), models # {}, NEW kinds, Ending(kinds)
  PROVE  /\ f' = f /\ m' = m /\ names' = names /\ path_bit' = path_bit /\ bb_vec' = bb_vec /\ result' = result
         /\ assert_path_bits' = assert_path_bits /\ array_vars' = array_vars
         /\ bidx' = bidx /\ Made' = Made /\ Done' = Made /\ Done = Made \ {bidx} /\ pos' = 0 /\ pos # 0
         /\ WellFormed(f) /\ Made \subseteq Blocks(f) /\ bidx \in Blocks(f) /\ bidx \in Made
         /\ Block.end.kind \in kinds
         /\ Fresh = L + 1 /\ L >= MaxValue + 1 + Cardinality(Memories) /\ ModelsIn(models, L) /\ NamesIn(L)
         /\ spec_vec \in Seq([path : 1..L, term : Terms(L)]) /\ Claims \in Seq([path : 1..L, term : Terms(L)])
         /\ \A k \in Nat : L + k >= MaxValue + 1 + Cardinality(Memories) /\ NamesIn(L + k)
<1>1. /\ f' = f /\ m' = m /\ names' = names /\ path_bit' = path_bit /\ bb_vec' = bb_vec /\ result' = result
      /\ assert_path_bits' = assert_path_bits /\ array_vars' = array_vars
      /\ pos' = 0 /\ pos # 0 /\ Block.end.kind \in kinds
  BY DEF Ending
<1>2. L >= MaxValue + 1 + Cardinality(Memories) /\ ModelsIn(models, L) /\ NamesIn(L)
  BY DEF Typed
<1>3. \A k \in Nat : L + k >= MaxValue + 1 + Cardinality(Memories)
  BY <1>2, InitialNamesAre, ValuesAssumption
<1>4. \A k \in Nat : NamesIn(L + k)
  BY <1>2, NamesInMore
<1>5. bidx' = bidx /\ Made' = Made
  BY <1>1 DEF bidx, Made
<1>6. Done' = Made /\ Done = Made \ {bidx}
  BY <1>1, <1>5 DEF Done
<1>7. spec_vec \in Seq([path : 1..L, term : Terms(L)])
  BY <1>2 DEF NamesIn
<1> QED
  BY <1>1, <1>2, <1>3, <1>4, <1>5, <1>6, <1>7, ClaimsIn, AtOp, FreshIs

LEMMA ExitsNamed ==
  ASSUME Placed, NEW L \in Nat, Typed(L), models # {}, NEW kinds, Ending(kinds),
         NEW k \in Nat, NEW bits, exit_bits' = [exit_bits EXCEPT ![bidx] = bits],
         bits \in Seq(Bits(L + k)), Len(bits) = Len(Block.end.to),
         spec_vec' \in Seq([path : 1..L, term : Terms(L)]), Len(spec_vec) <= Len(spec_vec'),
         quant_elim_vars' \subseteq 1..(L + k), ModelsIn(models', L + k)
  PROVE  Placed' /\ Typed(L + k)'
<1> DEFINE K == L + k
<1>1. /\ f' = f /\ m' = m /\ names' = names /\ path_bit' = path_bit /\ bb_vec' = bb_vec /\ result' = result
      /\ assert_path_bits' = assert_path_bits /\ array_vars' = array_vars
      /\ bidx' = bidx /\ Made' = Made /\ Done' = Made /\ Done = Made \ {bidx} /\ pos' = 0
      /\ bidx \in Blocks(f) /\ NamesIn(L)
      /\ K >= MaxValue + 1 + Cardinality(Memories) /\ NamesIn(K) /\ Made \subseteq Blocks(f)
  BY Ender
<1>2. exit_bits \in [Blocks(f) -> Seq(Bits(K))]
  BY <1>1 DEF NamesIn
<1>3. exit_bits' \in [Blocks(f) -> Seq(Bits(K))]
  <2> HIDE DEF K
  <2>1. bits \in Seq(Bits(K))
    BY DEF K
  <2> QED
    BY <1>1, <1>2, <2>1
<1>4. \A b \in Done' : Len(exit_bits'[b]) = Len(Targets(f, b))
  <2> SUFFICES ASSUME NEW b \in Made PROVE Len(exit_bits'[b]) = Len(Targets(f, b))
    BY <1>1
  <2>1. CASE b = bidx
    <3>1. exit_bits'[b] = bits
      BY <1>1, <1>2, <2>1
    <3> QED
      BY <2>1, <3>1 DEF Targets, Block
  <2>2. CASE b # bidx
    <3>1. exit_bits'[b] = exit_bits[b] /\ b \in Done
      BY <1>1, <1>2, <2>2
    <3> QED
      BY <3>1 DEF Placed
  <2> QED
    BY <2>1, <2>2
<1>5. Len(assert_path_bits') <= Len(spec_vec')
  <2>1. Len(assert_path_bits) <= Len(spec_vec) /\ Len(spec_vec) \in Nat /\ Len(spec_vec') \in Nat
    BY <1>1 DEF Placed, NamesIn
  <2>2. Len(assert_path_bits) \in Nat
    BY <1>1 DEF NamesIn
  <2> QED
    BY <1>1, <2>1, <2>2
<1>6. Placed'
  <2>1. pos' \in Nat /\ ~(pos' # 0)
    BY <1>1
  <2>2. /\ f' \in Functions /\ bb_vec' \in Seq(Blocks(f')) /\ IsInjective(bb_vec')
        /\ (bb_vec' # <<>> => 1 \in Made') /\ result' \in Results
    BY <1>1 DEF Placed
  <2>3. \A b \in Done' : Len(exit_bits'[b]) = Len(Targets(f', b))
    BY <1>1, <1>4
  <2> QED
    BY <1>5, <2>1, <2>2, <2>3 DEF Placed
<1>7. spec_vec' \in Seq([path : 1..K, term : Terms(K)])
  <2>1. 1..L \subseteq 1..K /\ Terms(L) \subseteq Terms(K)
    BY NamesGrow
  <2>2. [path : 1..L, term : Terms(L)] \subseteq [path : 1..K, term : Terms(K)]
    BY <2>1
  <2> HIDE DEF K
  <2> QED
    BY <2>2, SeqMonotonic
<1>8. NamesIn(K)'
  <2>1. quant_elim_vars' \subseteq 1..K
    OBVIOUS
  <2> HIDE DEF K
  <2> QED
    BY <1>1, <1>3, <1>7, <2>1 DEF NamesIn
<1>9. ModelsIn(models', K)
  OBVIOUS
<1> HIDE DEF K
<1>10. Typed(K)'
  BY <1>1, <1>8, <1>9 DEF Typed, ModelsIn
<1> QED
  BY <1>6, <1>10 DEF K

LEMMA BitsAre ==
  ASSUME NEW L \in Nat, NEW i \in 1..L
  PROVE  i \in Bits(L) /\ -i \in Bits(L)
BY DEF Bits

LEMMA RetNamed ==
  ASSUME Placed, NEW L \in Nat, Typed(L), NEW s \in models, AlmostNone(s), translateRetInst
  PROVE  NamedNext
<1>1. /\ Ending({"ret"}) /\ exit_bits' = [exit_bits EXCEPT ![bidx] = <<>>]
      /\ quant_elim_vars' = quant_elim_vars /\ models' = models /\ spec_vec' = spec_vec \o Claims
  BY DEF translateRetInst, Exits
<1>2. /\ WellFormed(f) /\ bidx \in Blocks(f) /\ Block.end.kind = "ret"
      /\ ModelsIn(models, L) /\ NamesIn(L) /\ path_bit' = path_bit /\ Made' = Made
      /\ spec_vec \in Seq([path : 1..L, term : Terms(L)]) /\ Claims \in Seq([path : 1..L, term : Terms(L)])
  BY <1>1, Ender
<1>3. Len(<<>>) = Len(Block.end.to) /\ <<>> \in Seq(Bits(L)) /\ L + 0 = L
  <2>1. Len(Block.end.to) = 0
    BY <1>2, EndOf DEF Block
  <2> QED
    BY <2>1
<1>4. spec_vec' \in Seq([path : 1..L, term : Terms(L)]) /\ Len(spec_vec) <= Len(spec_vec')
  <2>1. Len(spec_vec) \in Nat /\ Len(Claims) \in Nat /\ Len(spec_vec') = Len(spec_vec) + Len(Claims)
    BY <1>1, <1>2, ConcatProperties, LenProperties
  <2> QED
    BY <1>1, <1>2, <2>1, ConcatProperties
<1>5. Placed' /\ Typed(L)'
  <2>1. ModelsIn(models', L + 0) /\ quant_elim_vars' \subseteq 1..(L + 0) /\ <<>> \in Seq(Bits(L + 0))
    BY <1>1, <1>2, <1>3 DEF NamesIn
  <2>2. Placed' /\ Typed(L + 0)'
    BY <1>1, <1>3, <1>4, <2>1, ExitsNamed
  <2> QED
    BY <1>3, <2>2
<1>6. AlmostNone(s)' /\ s \in models'
  BY <1>1, <1>2 DEF AlmostNone
<1> QED
  BY <1>5, <1>6 DEF NamedNext

LEMMA UnreachableNamed ==
  ASSUME Placed, NEW L \in Nat, Typed(L), NEW s \in models, AlmostNone(s), translateUnreachableInst
  PROVE  NamedNext
<1> DEFINE spec == [path |-> path_bit[bidx], term |-> Name(FalseBit)]
<1>1. /\ Ending({"unreachable"}) /\ exit_bits' = [exit_bits EXCEPT ![bidx] = <<>>]
      /\ quant_elim_vars' = quant_elim_vars /\ models' = models
      /\ spec_vec' = Append(spec_vec, spec) \o Claims
  BY DEF translateUnreachableInst, Exits
<1>2. /\ WellFormed(f) /\ bidx \in Blocks(f) /\ Block.end.kind = "unreachable"
      /\ ModelsIn(models, L) /\ NamesIn(L) /\ path_bit' = path_bit /\ Made' = Made
      /\ spec_vec \in Seq([path : 1..L, term : Terms(L)]) /\ Claims \in Seq([path : 1..L, term : Terms(L)])
      /\ L >= MaxValue + 1 + Cardinality(Memories)
  BY <1>1, Ender
<1>3. Len(<<>>) = Len(Block.end.to) /\ <<>> \in Seq(Bits(L)) /\ L + 0 = L
  <2>1. Len(Block.end.to) = 0
    BY <1>2, EndOf DEF Block
  <2> QED
    BY <2>1
<1>4. spec \in [path : 1..L, term : Terms(L)]
  <2>1. path_bit[bidx] \in 1..L
    BY <1>2 DEF NamesIn
  <2>2. FalseBit \in 1..L
    BY <1>2, NamesOfConstants
  <2> QED
    BY <2>1, <2>2 DEF Name, Terms
<1> HIDE DEF spec
<1>5. spec_vec' \in Seq([path : 1..L, term : Terms(L)]) /\ Len(spec_vec) <= Len(spec_vec')
  <2> DEFINE with == Append(spec_vec, spec)
  <2>1. with \in Seq([path : 1..L, term : Terms(L)]) /\ Len(with) = Len(spec_vec) + 1
    BY <1>2, <1>4, AppendProperties
  <2> HIDE DEF with
  <2>2. spec_vec' = with \o Claims
    BY <1>1 DEF with
  <2>3. Len(spec_vec) \in Nat /\ Len(Claims) \in Nat /\ Len(spec_vec') = Len(with) + Len(Claims)
    BY <1>2, <2>1, <2>2, ConcatProperties, LenProperties
  <2> QED
    BY <1>2, <2>1, <2>2, <2>3, ConcatProperties
<1>6. Placed' /\ Typed(L)'
  <2>1. ModelsIn(models', L + 0) /\ quant_elim_vars' \subseteq 1..(L + 0) /\ <<>> \in Seq(Bits(L + 0))
    BY <1>1, <1>2, <1>3 DEF NamesIn
  <2>2. Placed' /\ Typed(L + 0)'
    BY <1>1, <1>3, <1>5, <2>1, ExitsNamed
  <2> QED
    BY <1>3, <2>2
<1>7. AlmostNone(s)' /\ s \in models'
  BY <1>1, <1>2 DEF AlmostNone
<1> QED
  BY <1>6, <1>7 DEF NamedNext

LEMMA BranchNamed ==
  ASSUME Placed, NEW L \in Nat, Typed(L), NEW s \in models, AlmostNone(s), translateBranch
  PROVE  NamedNext
<1>1. Ending({"br", "cond"}) /\ spec_vec' = spec_vec \o Claims
  BY DEF translateBranch
<1>2. /\ WellFormed(f) /\ bidx \in Blocks(f) /\ Block.end.kind \in {"br", "cond"}
      /\ ModelsIn(models, L) /\ NamesIn(L) /\ path_bit' = path_bit /\ Made' = Made /\ Made \subseteq Blocks(f)
      /\ spec_vec \in Seq([path : 1..L, term : Terms(L)]) /\ Claims \in Seq([path : 1..L, term : Terms(L)])
      /\ L >= MaxValue + 1 + Cardinality(Memories) /\ Fresh = L + 1
  BY <1>1, Ender
<1>3. spec_vec' \in Seq([path : 1..L, term : Terms(L)]) /\ Len(spec_vec) <= Len(spec_vec')
  <2>1. Len(spec_vec) \in Nat /\ Len(Claims) \in Nat /\ Len(spec_vec') = Len(spec_vec) + Len(Claims)
    BY <1>1, <1>2, ConcatProperties, LenProperties
  <2> QED
    BY <1>1, <1>2, <2>1, ConcatProperties
<1>4. CASE Block.end.kind = "br"
  <2>1. /\ exit_bits' = [exit_bits EXCEPT ![bidx] = <<TrueBit>>]
        /\ quant_elim_vars' = quant_elim_vars /\ models' = models
    BY <1>4 DEF translateBranch, Exits
  <2>2. TrueBit \in Bits(L) /\ L + 0 = L
    <3>1. L + 0 = L
      OBVIOUS
    <3>2. TrueBit \in Bits(L)
      BY <1>2, NamesOfConstants, BitsAre
    <3> QED
      BY <3>1, <3>2
  <2>3. <<TrueBit>> \in Seq(Bits(L)) /\ Len(<<TrueBit>>) = Len(Block.end.to)
    <3>1. Len(Block.end.to) = 1
      BY <1>2, <1>4, EndOf DEF Block
    <3> QED
      BY <2>2, <3>1
  <2>4. Placed' /\ Typed(L)'
    <3>1. ModelsIn(models', L + 0) /\ quant_elim_vars' \subseteq 1..(L + 0) /\ <<TrueBit>> \in Seq(Bits(L + 0))
      BY <1>2, <2>1, <2>2, <2>3 DEF NamesIn
    <3>2. Placed' /\ Typed(L + 0)'
      BY <1>1, <1>3, <2>1, <2>3, <3>1, ExitsNamed
    <3> QED
      BY <2>2, <3>2
  <2>5. AlmostNone(s)' /\ s \in models'
    BY <1>2, <2>1 DEF AlmostNone
  <2> QED
    BY <2>4, <2>5 DEF NamedNext
<1>5. CASE Block.end.kind = "cond"
  <2> DEFINE K == L + 1
             val == m[Block.end.reg]
             bit(t) == Truth(Eval(val, t) # 0)
  <2>1. /\ exit_bits' = [exit_bits EXCEPT ![bidx] = <<K, -K>>]
        /\ quant_elim_vars' = quant_elim_vars \cup {Fresh + i : i \in 0..(1 - 1)}
        /\ models' = {Append(t, bit(t)) : t \in models}
    <3>1. Exits(<<Fresh, -Fresh>>) /\ EliminateExits(1) /\ models' = {Append(t, bit(t)) : t \in models}
      BY <1>5 DEF translateBranch
    <3> QED
      BY <1>2, <3>1 DEF Exits, EliminateExits
  <2>2. K \in 1..K /\ K \in Nat /\ K \in Bits(K) /\ -K \in Bits(K)
    BY BitsAre
  <2>3. <<K, -K>> \in Seq(Bits(K)) /\ Len(<<K, -K>>) = Len(Block.end.to)
    <3>1. Len(Block.end.to) = 2
      BY <1>2, <1>5, EndOf DEF Block
    <3> HIDE DEF K
    <3> QED
      BY <2>2, <3>1
  <2>4. \A t \in models : t \in [1..L -> Value] /\ bit(t) \in Value
    BY <1>2, ValuesAre DEF ModelsIn
  <2>5. ModelsIn(models', K)
    <3> HIDE DEF bit
    <3> QED
      BY <1>2, <2>1, <2>4, ModelsInOne
  <2>6. quant_elim_vars' \subseteq 1..K
    <3>1. \A i \in 0..(1 - 1) : Fresh + i = K
      BY <1>2
    <3>2. 1..L \subseteq 1..K
      OBVIOUS
    <3>3. quant_elim_vars \subseteq 1..L
      BY <1>2 DEF NamesIn
    <3> HIDE DEF K
    <3> QED
      BY <2>1, <2>2, <3>1, <3>2, <3>3
  <2>7. Placed' /\ Typed(K)'
    <3>1. <<K, -K>> \in Seq(Bits(L + 1)) /\ ModelsIn(models', L + 1) /\ quant_elim_vars' \subseteq 1..(L + 1)
      BY <2>3, <2>5, <2>6
    <3>2. 1 \in Nat
      OBVIOUS
    <3>3. Placed' /\ Typed(L + 1)'
      <4> HIDE DEF K
      <4> QED
        BY <1>1, <1>3, <2>1, <2>3, <3>1, <3>2, ExitsNamed
    <3> QED
      BY <3>3
  <2>8. \E u \in models' : \A b \in Made' \ {1} : ~Holds(path_bit'[b], u)
    <3> HIDE DEF bit
    <3>1. Prolongs(Append(s, bit(s)), s, L)
      BY <2>4, OneMore
    <3>2. \A b \in Made \ {1} : ~Holds(path_bit[b], Append(s, bit(s)))
      BY <1>2, <3>1, AlmostNoneKept
    <3> QED
      BY <1>2, <2>1, <3>2
  <2> HIDE DEF K, val, bit
  <2> QED
    BY <2>2, <2>7, <2>8 DEF NamedNext, AlmostNone
<1> QED
  BY <1>2, <1>4, <1>5

LEMMA SwitchNamed ==
  ASSUME Placed, NEW L \in Nat, Typed(L), NEW s \in models, AlmostNone(s), translateSwitchInst
  PROVE  NamedNext
<1> DEFINE e == Block.end
           n == Len(e.to)
           Is(i, t) == Eval(m[e.reg], t) = e.val[i]
           Values(t) == [i \in 1..n |-> Truth(IF i = 1 THEN \A j \in 2..n : ~Is(j, t) ELSE Is(i, t))]
<1>1. Ending({"switch"}) /\ spec_vec' = spec_vec \o Claims
  BY DEF translateSwitchInst
<1>2. /\ WellFormed(f) /\ bidx \in Blocks(f) /\ Block.end.kind \in {"switch"}
      /\ ModelsIn(models, L) /\ NamesIn(L) /\ path_bit' = path_bit /\ Made' = Made /\ Made \subseteq Blocks(f)
      /\ spec_vec \in Seq([path : 1..L, term : Terms(L)]) /\ Claims \in Seq([path : 1..L, term : Terms(L)])
      /\ L >= MaxValue + 1 + Cardinality(Memories) /\ Fresh = L + 1
  BY <1>1, Ender
<1>3. spec_vec' \in Seq([path : 1..L, term : Terms(L)]) /\ Len(spec_vec) <= Len(spec_vec')
  <2>1. Len(spec_vec) \in Nat /\ Len(Claims) \in Nat /\ Len(spec_vec') = Len(spec_vec) + Len(Claims)
    BY <1>1, <1>2, ConcatProperties, LenProperties
  <2> QED
    BY <1>1, <1>2, <2>1, ConcatProperties
<1>4. n \in Nat /\ n # 0
  BY <1>2, EndOf DEF Block
<1>5. \A t \in models : t \in [1..L -> Value] /\ Values(t) \in [1..n -> Value]
  <2> SUFFICES ASSUME NEW t \in models PROVE t \in [1..L -> Value] /\ Values(t) \in [1..n -> Value]
    OBVIOUS
  <2>1. \A i \in 1..n : Truth(IF i = 1 THEN \A j \in 2..n : ~Is(j, t) ELSE Is(i, t)) \in Value
    <3> HIDE DEF n, Is
    <3> QED
      BY ValuesAre
  <2> HIDE DEF n, Is
  <2> QED
    BY <1>2, <2>1 DEF ModelsIn
<1>6. \A u, t : Prolongs(u, t, L) /\ t = s => \A b \in Made \ {1} : ~Holds(path_bit[b], u)
  BY <1>2, AlmostNoneKept
<1>7. CASE n = 2
  <2> DEFINE K == L + 1
             bit(t) == Values(t)[1]
  <2>1. /\ exit_bits' = [exit_bits EXCEPT ![bidx] = <<K, -K>>]
        /\ quant_elim_vars' = quant_elim_vars \cup {Fresh + i : i \in 0..(1 - 1)}
        /\ models' = {Append(t, bit(t)) : t \in models}
    <3>1. Exits(<<Fresh, -Fresh>>) /\ EliminateExits(1) /\ models' = {Append(t, bit(t)) : t \in models}
      BY <1>7 DEF translateSwitchInst
    <3> QED
      BY <1>2, <3>1 DEF Exits, EliminateExits
  <2>2. K \in 1..K /\ K \in Nat /\ K \in Bits(K) /\ -K \in Bits(K)
    BY BitsAre
  <2>3. <<K, -K>> \in Seq(Bits(K)) /\ Len(<<K, -K>>) = Len(Block.end.to)
    <3> HIDE DEF K
    <3> QED
      BY <1>7, <2>2
  <2>4. \A t \in models : t \in [1..L -> Value] /\ bit(t) \in Value
    <3>1. 1 \in 1..n
      BY <1>4
    <3> HIDE DEF Values, n
    <3> QED
      BY <1>5, <3>1
  <2>5. ModelsIn(models', K)
    <3> HIDE DEF bit
    <3> QED
      BY <1>2, <2>1, <2>4, ModelsInOne
  <2>6. quant_elim_vars' \subseteq 1..K
    <3>1. \A i \in 0..(1 - 1) : Fresh + i = K
      BY <1>2
    <3>2. 1..L \subseteq 1..K
      OBVIOUS
    <3>3. quant_elim_vars \subseteq 1..L
      BY <1>2 DEF NamesIn
    <3> HIDE DEF K
    <3> QED
      BY <2>1, <2>2, <3>1, <3>2, <3>3
  <2>7. Placed' /\ Typed(K)'
    <3>1. <<K, -K>> \in Seq(Bits(L + 1)) /\ ModelsIn(models', L + 1) /\ quant_elim_vars' \subseteq 1..(L + 1)
      BY <2>3, <2>5, <2>6
    <3>2. 1 \in Nat
      OBVIOUS
    <3>3. Placed' /\ Typed(L + 1)'
      <4> HIDE DEF K
      <4> QED
        BY <1>1, <1>3, <2>1, <2>3, <3>1, <3>2, ExitsNamed
    <3> QED
      BY <3>3
  <2>8. \E u \in models' : \A b \in Made' \ {1} : ~Holds(path_bit'[b], u)
    <3> HIDE DEF bit
    <3>1. Prolongs(Append(s, bit(s)), s, L)
      BY <2>4, OneMore
    <3> QED
      BY <1>2, <1>6, <2>1, <3>1
  <2> HIDE DEF K, bit
  <2> QED
    BY <2>2, <2>7, <2>8 DEF NamedNext, AlmostNone
<1>8. CASE n # 2
  <2> DEFINE K == L + n
             bits == [i \in 1..n |-> L + i]
  <2>1. /\ exit_bits' = [exit_bits EXCEPT ![bidx] = [i \in 1..n |-> Fresh + i - 1]]
        /\ quant_elim_vars' = quant_elim_vars \cup {Fresh + i : i \in 0..(n - 1)}
        /\ models' = {t \o Values(t) : t \in models}
    <3>1. Exits([i \in 1..n |-> Fresh + i - 1]) /\ EliminateExits(n) /\ models' = {t \o Values(t) : t \in models}
      BY <1>8 DEF translateSwitchInst
    <3> HIDE DEF n, Values
    <3> QED
      BY <3>1 DEF Exits, EliminateExits
  <2>2. \A i \in 1..n : Fresh + i - 1 = L + i
    <3> HIDE DEF n
    <3> QED
      BY <1>2, <1>4
  <2>3. exit_bits' = [exit_bits EXCEPT ![bidx] = bits]
    <3>1. bits = [i \in 1..n |-> Fresh + i - 1]
      <4> HIDE DEF n
      <4> QED
        BY <2>2
    <3> HIDE DEF bits
    <3> QED
      BY <2>1, <3>1
  <2>4. K \in Nat /\ \A i \in 1..n : L + i \in 1..K
    <3> HIDE DEF n
    <3> QED
      BY <1>4
  <2>5. bits \in Seq(Bits(K)) /\ Len(bits) = n
    <3>1. \A i \in 1..n : L + i \in Bits(K)
      <4> HIDE DEF n, K
      <4> QED
        BY <2>4 DEF Bits
    <3>2. bits \in [1..n -> Bits(K)]
      <4> HIDE DEF n, K
      <4> QED
        BY <3>1
    <3> HIDE DEF bits, n, K
    <3> QED
      BY <1>4, <3>2, SequencesAre
  <2>6. \A t \in models : t \o Values(t) \in [1..K -> Value] /\ Prolongs(t \o Values(t), t, L)
    <3> HIDE DEF n, Values
    <3> QED
      BY <1>4, <1>5, SomeMore
  <2>7. ModelsIn(models', K)
    <3>1. models' \subseteq [1..(L + n) -> Value] /\ \A u \in models' : \E t \in models : Prolongs(u, t, L)
      <4> HIDE DEF n, Values
      <4> QED
        BY <2>1, <2>6
    <3> HIDE DEF n
    <3> QED
      BY <1>2, <1>4, <3>1, ModelsInMore
  <2>8. quant_elim_vars' \subseteq 1..K
    <3>1. \A i \in 0..(n - 1) : Fresh + i \in 1..K
      <4> HIDE DEF n
      <4> QED
        BY <1>2, <1>4
    <3>2. 1..L \subseteq 1..K
      <4> HIDE DEF n
      <4> QED
        BY <1>4
    <3>3. quant_elim_vars \subseteq 1..L
      BY <1>2 DEF NamesIn
    <3> HIDE DEF n, K
    <3> QED
      BY <2>1, <3>1, <3>2, <3>3
  <2>9. ASSUME NEW k \in Nat, k = n PROVE Placed' /\ Typed(L + k)'
    <3>1. k = Len(Block.end.to)
      BY <2>9
    <3>2. /\ bits \in Seq(Bits(L + k)) /\ ModelsIn(models', L + k) /\ quant_elim_vars' \subseteq 1..(L + k)
      BY <2>5, <2>7, <2>8, <2>9
    <3>3. Len(bits) = Len(Block.end.to)
      BY <2>5
    <3> HIDE DEF n, bits, K
    <3> QED
      BY <1>1, <1>3, <2>3, <3>2, <3>3, ExitsNamed
  <2>10. \E u \in models' : \A b \in Made' \ {1} : ~Holds(path_bit'[b], u)
    <3> HIDE DEF Values, n, K
    <3> QED
      BY <1>2, <1>6, <2>1, <2>6
  <2> HIDE DEF K, Values, n
  <2>11. PICK k \in Nat : k = n
    BY <1>4
  <2>12. L + k \in Nat /\ Placed' /\ Typed(L + k)'
    BY <2>9, <2>11
  <2> QED
    BY <2>10, <2>12 DEF NamedNext, AlmostNone
<1> QED
  BY <1>7, <1>8

-----------------------------------------------------------------------------
(***************************************************************************)
(* The beginning of a block, said of the models themselves: one more name  *)
(* for the path, and one for each memory whose names differ.               *)
(***************************************************************************)
Entries(b, at, L, n) ==
  {u \in [1..n -> Value] : /\ \E s \in models : Prolongs(u, s, L)
                           /\ u[L + 1] \in 0..1
                           /\ u[L + 1] # 0 => \E p \in Prevs(b) : Taken(extend_path(b, p), u)
                           /\ Carried(b, at, u)}

LEMMA NextIs ==
  ASSUME Placed, NEW b \in NextBlocks
  PROVE  /\ WellFormed(f) /\ Made \subseteq Blocks(f) /\ b \in Blocks(f) /\ b \notin Made
         /\ bb_vec = <<>> => b = 1 /\ Made = {}
         /\ bb_vec # <<>> => b # 1 /\ Prevs(b) # {} /\ 1 \in Made
<1>1. WellFormed(f) /\ 1 \in Blocks(f)
  BY FunctionsAssumption, BlocksOf DEF Placed
<1>2. Made \subseteq Blocks(f) /\ (bb_vec = <<>> => Made = {})
  BY DEF Placed, Made, Range
<1>3. CASE bb_vec = <<>>
  BY <1>1, <1>2, <1>3 DEF NextBlocks
<1>4. CASE bb_vec # <<>>
  <2>1. b \in UNION {Succs(f, c) : c \in Made} /\ b \notin Made
    BY <1>4 DEF NextBlocks
  <2>2. PICK c \in Made : b \in Succs(f, c)
    BY <2>1
  <2>3. b \in Blocks(f) \ {1}
    BY <1>1, <1>2, <2>2, BlocksOf
  <2>4. c \in Prevs(b)
    BY <1>2, <2>2 DEF Prevs, Preds
  <2> QED
    BY <1>1, <1>2, <1>4, <2>1, <2>3, <2>4 DEF Placed
<1> QED
  BY <1>3, <1>4

LEMMA AppendedIs ==
  ASSUME Placed, NEW b \in Blocks(f), b \notin Made
  PROVE  LET q == Append(bb_vec, b) IN
         q \in Seq(Blocks(f)) /\ IsInjective(q) /\ Range(q) = Made \cup {b} /\ Last(q) = b /\ q # <<>>
<1> DEFINE q == Append(bb_vec, b)
           n == Len(bb_vec)
<1>1. bb_vec \in Seq(Blocks(f)) /\ IsInjective(bb_vec)
  BY DEF Placed
<1>2. n \in Nat /\ DOMAIN bb_vec = 1..n
  BY <1>1
<1>3. /\ q \in Seq(Blocks(f)) /\ Len(q) = n + 1 /\ q # <<>>
      /\ (\A i \in 1..n : q[i] = bb_vec[i]) /\ q[n + 1] = b
  BY <1>1, AppendProperties
<1>4. DOMAIN q = 1..(n + 1)
  BY <1>3, LenProperties
<1> HIDE DEF q, n
<1>5. \A i \in 1..n : bb_vec[i] \in Made
  BY <1>2 DEF Made, Range
<1>6. \A i \in 1..(n + 1) : i \in 1..n \/ i = n + 1
  BY <1>2
<1>7. IsInjective(q)
  BY <1>1, <1>2, <1>3, <1>4, <1>5, <1>6 DEF IsInjective
<1>8. Range(q) = Made \cup {b}
  <2>1. 1..n \subseteq 1..(n + 1) /\ n + 1 \in 1..(n + 1)
    BY <1>2
  <2> QED
    BY <1>2, <1>3, <1>4, <1>6, <2>1 DEF Made, Range
<1>9. Last(q) = b
  BY <1>3 DEF Last
<1> QED
  BY <1>3, <1>7, <1>8, <1>9 DEF q

(* The control of EnterBlock. *)
LEMMA EnterPlaced ==
  ASSUME Placed, NEW b \in NextBlocks, Enter(b)
  PROVE  /\ result = "" /\ pos = 0 /\ pos' = 1 /\ f' = f /\ m' = m /\ exit_bits' = exit_bits /\ spec_vec' = spec_vec
         /\ assert_path_bits' = assert_path_bits /\ result' = result /\ Placed'
         /\ bb_vec' = Append(bb_vec, b) /\ Made' = Made \cup {b} /\ bidx' = b
         /\ Done = Made /\ Done' = Made
<1>1. /\ pos = 0 /\ pos' = 1 /\ f' = f /\ m' = m /\ exit_bits' = exit_bits /\ spec_vec' = spec_vec
      /\ assert_path_bits' = assert_path_bits /\ result' = result
  BY Zenon DEF Enter
<1>2. bb_vec' = Append(bb_vec, b)
  BY Zenon DEF Enter
<1>0. result = ""
  BY Zenon DEF Enter
<1>3. b \in Blocks(f) /\ b \notin Made /\ WellFormed(f) /\ (Made = {} => b = 1) /\ (Made # {} => 1 \in Made)
  BY <1>2, NextIs
<1>4. bb_vec' \in Seq(Blocks(f)) /\ IsInjective(bb_vec') /\ Made' = Made \cup {b} /\ bidx' = b /\ bb_vec' # <<>>
  BY <1>2, <1>3, AppendedIs DEF Made, bidx
<1>5. Done = Made /\ Done' = Made
  <2>1. Done = Made
    BY <1>1 DEF Done
  <2>2. Done' = Made' \ {bidx'}
    <3>1. pos' = 1
      BY <1>1, Zenon
    <3>2. pos' # 0
      BY <3>1
    <3> QED
      BY <3>2 DEF Done
  <2> QED
    BY <1>3, <1>4, <2>1, <2>2
<1>6. 1 <= Len(f.block[b].ops) + 1
  <2>1. Len(f.block[b].ops) \in Nat
    BY <1>3, BlocksOf
  <2> QED
    BY <2>1
<1>7. Block' = f.block[b]
  BY <1>1, <1>4 DEF Block
<1>8. \A c \in Done' : Len(exit_bits'[c]) = Len(Targets(f', c))
  BY <1>1, <1>5 DEF Placed
<1>9. Placed'
  <2>1. f' \in Functions /\ bb_vec' \in Seq(Blocks(f')) /\ 1 \in Made' /\ pos' \in Nat
    BY <1>1, <1>3, <1>4 DEF Placed
  <2>2. pos' <= Len(Block'.ops) + 1
    BY <1>1, <1>6, <1>7
  <2>3. result' \in Results /\ Len(assert_path_bits') <= Len(spec_vec')
    BY <1>1 DEF Placed
  <2> QED
    BY <1>4, <1>8, <2>1, <2>2, <2>3 DEF Placed
<1> QED
  BY <1>0, <1>1, <1>2, <1>4, <1>5, <1>9, Zenon

EnterIs(b, at, L, k) ==
  /\ at \in [Memories -> 1..(L + 1 + k)]
  /\ \A x \in Joined(b) : at[x] \in (L + 2)..(L + 1 + k)
  /\ \A x, y \in Joined(b) : at[x] = at[y] => x = y
  /\ \A x \in Memories \ Joined(b) : \A p \in Prevs(b) : at[x] = names[p][x]
  /\ path_bit' = [path_bit EXCEPT ![b] = L + 1]
  /\ names' = [names EXCEPT ![b] = at]
  /\ quant_elim_vars' = quant_elim_vars \cup {L + 1}
  /\ array_vars' = array_vars \cup {at[x] : x \in Arrays}
  /\ models' = Entries(b, at, L, L + 1 + k)

(* The new names of the joined memories. *)
LEMMA JoinedAre ==
  ASSUME NEW b
  PROVE  Joined(b) = {x \in Memories : Differ(Prevs(b), x)} /\ IsFiniteSet(Joined(b))
<1>1. Memories = Arrays \cup Globals
  BY ValuesAssumption DEF Arrays
<1>2. Joined(b) = {x \in Memories : Differ(Prevs(b), x)}
  BY <1>1 DEF join_array_state, join_glb_state, Joined
<1>3. Joined(b) \subseteq Memories
  BY <1>2
<1> QED
  BY <1>2, <1>3, ValuesAssumption, FS_Subset

LEMMA JoinedNamesAre ==
  ASSUME Placed, NEW L \in Nat, NamesIn(L), Fresh = L + 1, NEW b \in NextBlocks, b # 1
  PROVE  LET at == JoinedNames(b)
             k  == Cardinality(Joined(b))
         IN  /\ k \in Nat
             /\ at \in [Memories -> 1..(L + 1 + k)]
             /\ \A x \in Joined(b) : at[x] \in (L + 2)..(L + 1 + k)
             /\ \A x, y \in Joined(b) : at[x] = at[y] => x = y
             /\ \A x \in Memories \ Joined(b) : \A p \in Prevs(b) : at[x] = names[p][x]
<1> DEFINE join  == SetToSeq(Joined(b))
           Place(x) == CHOOSE i \in DOMAIN join : join[i] = x
           other == CHOOSE p \in Prevs(b) : TRUE
           at    == JoinedNames(b)
           k     == Cardinality(Joined(b))
<1>1. Joined(b) \subseteq Memories /\ IsFiniteSet(Joined(b))
  BY JoinedAre
<1>2. other \in Prevs(b) /\ Prevs(b) \subseteq Blocks(f)
  <2>1. Prevs(b) # {} /\ Made \subseteq Blocks(f)
    BY NextIs, EmptySeq DEF Placed
  <2> QED
    BY <2>1 DEF Prevs
<1>3. /\ k \in Nat /\ DOMAIN join = 1..k
      /\ \A x \in Joined(b) : \E i \in 1..k : join[i] = x
  BY <1>1, Enumerated
<1>4. \A x \in Joined(b) : Place(x) \in 1..k /\ join[Place(x)] = x
  <2> HIDE DEF join
  <2> QED
    BY <1>3
<1>5. at = [x \in Memories |-> IF x \in Joined(b) THEN L + 1 + Place(x) ELSE names[other][x]]
  BY DEF JoinedNames
<1> HIDE DEF Place, other, k, join, at
<1>6. \A x \in Joined(b) : at[x] = L + 1 + Place(x)
  BY <1>1, <1>5
<1>7. \A x \in Memories \ Joined(b) : at[x] = names[other][x]
  BY <1>5
<1>8. \A x \in Memories : names[other][x] \in 1..L
  BY <1>2 DEF NamesIn
<1>9. \A x \in Joined(b) : at[x] \in (L + 2)..(L + 1 + k)
  <2>1. \A x \in Joined(b) : L + 1 + Place(x) \in (L + 2)..(L + 1 + k)
    BY <1>3, <1>4
  <2> QED
    BY <1>6, <2>1
<1>10. at \in [Memories -> 1..(L + 1 + k)]
  <2>1. at = [x \in Memories |-> at[x]]
    BY <1>5
  <2>2. 1..L \subseteq 1..(L + 1 + k) /\ (L + 2)..(L + 1 + k) \subseteq 1..(L + 1 + k)
    BY <1>3
  <2>3. \A x \in Memories : at[x] \in 1..(L + 1 + k)
    BY <1>7, <1>8, <1>9, <2>2
  <2> QED
    BY <2>1, <2>3
<1>11. \A x, y \in Joined(b) : at[x] = at[y] => x = y
  <2> SUFFICES ASSUME NEW x \in Joined(b), NEW y \in Joined(b), at[x] = at[y] PROVE x = y
    OBVIOUS
  <2>1. Place(x) = Place(y)
    BY <1>3, <1>4, <1>6
  <2> QED
    BY <1>4, <2>1
<1>12. \A x \in Memories \ Joined(b) : \A p \in Prevs(b) : at[x] = names[p][x]
  <2> SUFFICES ASSUME NEW x \in Memories \ Joined(b), NEW p \in Prevs(b) PROVE at[x] = names[p][x]
    OBVIOUS
  <2>1. names[other][x] = names[p][x]
    BY <1>2, JoinedAre DEF Differ
  <2> QED
    BY <1>7, <2>1
<1> QED
  BY <1>3, <1>9, <1>10, <1>11, <1>12 DEF k, at

LEMMA Joins ==
  ASSUME NEW n
  PROVE  \A s \in models : \A t \in [1..n -> Value] : s \o t \in More(n)
<1> DEFINE T == [1..n -> Value]
           S == {a \o c : a \in models, c \in T}
<1>1. More(n) = S
  BY DEF More
<1> HIDE DEF T
<1>2. \A s \in models : \A t \in T : s \o t \in S
  OBVIOUS
<1> HIDE DEF S
<1>3. \A s \in models : \A t \in T : s \o t \in More(n)
  BY <1>1, <1>2
<1> QED
  BY <1>3 DEF T

LEMMA MoreIs ==
  ASSUME NEW L \in Nat, NEW n \in Nat \ {0}, models \subseteq [1..L -> Value]
  PROVE  \A u : u \in More(n) <=> u \in [1..(L + n) -> Value] /\ \E s \in models : Prolongs(u, s, L)
<1>1. ASSUME NEW s \in models, NEW t \in [1..n -> Value]
      PROVE  s \o t \in [1..(L + n) -> Value] /\ Prolongs(s \o t, s, L)
  BY SomeMore
<1>2. ASSUME NEW u \in [1..(L + n) -> Value], NEW s \in models, Prolongs(u, s, L)
      PROVE  \E t \in [1..n -> Value] : u = s \o t
  <2> DEFINE t == [i \in 1..n |-> u[L + i]]
             w == s \o t
  <2>1. \A i \in 1..n : L + i \in 1..(L + n)
    OBVIOUS
  <2>2. t \in [1..n -> Value]
    BY <2>1
  <2>3. /\ w \in [1..(L + n) -> Value] /\ Prolongs(w, s, L)
        /\ \A i \in 1..n : w[L + i] = t[i]
    <3> HIDE DEF t
    <3> QED
      BY <2>2, SomeMore
  <2>4. \A i \in 1..n : t[i] = u[L + i]
    OBVIOUS
  <2>5. \A i \in 1..(L + n) : w[i] = u[i]
    <3> HIDE DEF w, t
    <3> SUFFICES ASSUME NEW i \in 1..(L + n) PROVE w[i] = u[i]
      OBVIOUS
    <3>1. CASE i \in 1..L
      BY <1>2, <2>3, <3>1 DEF Prolongs
    <3>2. CASE i > L
      <4>1. i - L \in 1..n /\ L + (i - L) = i
        BY <3>2
      <4> QED
        BY <2>3, <2>4, <4>1
    <3> QED
      BY <3>1, <3>2
  <2>6. w = u
    <3> HIDE DEF w
    <3> QED
      BY <2>3, <2>5
  <2> HIDE DEF t
  <2> QED
    BY <2>2, <2>6
<1>3. ASSUME NEW u \in More(n)
      PROVE  u \in [1..(L + n) -> Value] /\ \E s \in models : Prolongs(u, s, L)
  <2>1. PICK s \in models, t \in [1..n -> Value] : u = s \o t
    BY DEF More
  <2> QED
    BY <1>1, <2>1
<1>4. ASSUME NEW u \in [1..(L + n) -> Value], NEW s \in models, Prolongs(u, s, L)
      PROVE  u \in More(n)
  <2>1. PICK t \in [1..n -> Value] : u = s \o t
    BY <1>2, <1>4
  <2> QED
    BY <2>1, Joins
<1> QED
  BY <1>3, <1>4

LEMMA EnterIsSo ==
  ASSUME Placed, NEW L \in Nat, Typed(L), models # {}, NEW b \in NextBlocks, Enter(b), b # 1
  PROVE  \E k \in Nat : \E at : EnterIs(b, at, L, k)
<1> DEFINE at == JoinedNames(b)
           k  == Cardinality(Joined(b))
<1>1. /\ path_bit' = [path_bit EXCEPT ![b] = Fresh]
      /\ names' = [names EXCEPT ![b] = at]
      /\ quant_elim_vars' = quant_elim_vars \cup {Fresh}
      /\ models' = {s \in More(1 + k) : Entered(b, s) /\ Carried(b, at, s)}
      /\ array_vars' = array_vars \cup {at[x] : x \in Arrays}
  <2>1. Join(b)
    BY Zenon DEF Enter
  <2> QED
    BY <2>1 DEF Join
<1>2. Fresh = L + 1 /\ NamesIn(L) /\ models \subseteq [1..L -> Value]
  BY FreshIs DEF Typed, ModelsIn
<1>3. /\ k \in Nat
      /\ at \in [Memories -> 1..(L + 1 + k)]
      /\ \A x \in Joined(b) : at[x] \in (L + 2)..(L + 1 + k)
      /\ \A x, y \in Joined(b) : at[x] = at[y] => x = y
      /\ \A x \in Memories \ Joined(b) : \A p \in Prevs(b) : at[x] = names[p][x]
  BY <1>2, JoinedNamesAre
<1>4. Prevs(b) # {}
  BY NextIs, EmptySeq DEF Placed
<1> HIDE DEF at, k
<1>5. 1 + k \in Nat \ {0} /\ L + (1 + k) = L + 1 + k
  BY <1>3
<1>6. \A u : u \in More(1 + k) <=> u \in [1..(L + 1 + k) -> Value] /\ \E s \in models : Prolongs(u, s, L)
  <2> DEFINE n == 1 + k
  <2> HIDE DEF n
  <2>1. n \in Nat \ {0} /\ L + n = L + 1 + k
    BY <1>5 DEF n
  <2>2. \A u : u \in More(n) <=> u \in [1..(L + n) -> Value] /\ \E s \in models : Prolongs(u, s, L)
    BY <1>2, <2>1, MoreIs
  <2>3. \A u : u \in More(n) <=> u \in [1..(L + 1 + k) -> Value] /\ \E s \in models : Prolongs(u, s, L)
    BY <2>1, <2>2
  <2> QED
    BY <2>3 DEF n
<1>7. \A u : Entered(b, u) <=> (u[L + 1] \in 0..1 /\ (u[L + 1] # 0 => \E p \in Prevs(b) : Taken(extend_path(b, p), u)))
  BY <1>2, <1>4 DEF Entered
<1>8. models' = Entries(b, at, L, L + 1 + k)
  <2>1. \A u : u \in models' <=> u \in More(1 + k) /\ Entered(b, u) /\ Carried(b, at, u)
    BY <1>1
  <2>2. \A u : u \in Entries(b, at, L, L + 1 + k) <=>
               /\ u \in [1..(L + 1 + k) -> Value] /\ (\E s \in models : Prolongs(u, s, L)) /\ u[L + 1] \in 0..1
               /\ (u[L + 1] # 0 => \E p \in Prevs(b) : Taken(extend_path(b, p), u))
               /\ Carried(b, at, u)
    BY DEF Entries
  <2>3. \A u : u \in models' <=> u \in Entries(b, at, L, L + 1 + k)
    BY <1>6, <1>7, <2>1, <2>2, Zenon
  <2> QED
    BY <2>3
<1>9. EnterIs(b, at, L, k)
  <2>1. /\ path_bit' = [path_bit EXCEPT ![b] = L + 1] /\ names' = [names EXCEPT ![b] = at]
        /\ quant_elim_vars' = quant_elim_vars \cup {L + 1}
        /\ array_vars' = array_vars \cup {at[x] : x \in Arrays}
    BY <1>1, <1>2
  <2> QED
    BY <1>3, <1>8, <2>1 DEF EnterIs
<1> QED
  BY <1>3, <1>9

(* A model on no path but the entry's prolongs to one that is not on the   *)
(* path of b either, with the memories as the entry leaves them.           *)
LEMMA EnterWitness ==
  ASSUME Placed, NEW L \in Nat, NamesIn(L), models \subseteq [1..L -> Value], NEW b \in NextBlocks, pos = 0,
         NEW s \in models, AlmostNone(s), NEW k \in Nat, NEW at, EnterIs(b, at, L, k)
  PROVE  \E u \in models' : Prolongs(u, s, L) /\ u[L + 1] = 0
<1> DEFINE n == L + 1 + k
           Src(i) == CHOOSE x \in Joined(b) : at[x] = i
           Val(i) == IF i <= L THEN s[i]
                     ELSE IF \E x \in Joined(b) : at[x] = i THEN s[names[1][Src(i)]] ELSE 0
           u == [i \in 1..n |-> Val(i)]
<1>1. /\ n \in Nat /\ L \in Nat /\ s \in [1..L -> Value] /\ Joined(b) \subseteq Memories
      /\ 1..L \subseteq 1..n /\ L + 1 \in 1..n /\ WellFormed(f) /\ 1 \in Blocks(f)
  BY JoinedAre, NextIs, BlocksOf
<1>2. /\ \A x \in Joined(b) : at[x] \in (L + 2)..n
      /\ \A x, y \in Joined(b) : at[x] = at[y] => x = y
      /\ models' = Entries(b, at, L, n)
  BY DEF EnterIs
<1>3. \A x \in Memories : names[1][x] \in 1..L
  BY <1>1 DEF NamesIn
<1>4. \A i \in 1..n : Val(i) \in Value
  <2> SUFFICES ASSUME NEW i \in 1..n PROVE Val(i) \in Value
    OBVIOUS
  <2>1. CASE i <= L
    BY <1>1, <2>1
  <2>2. CASE ~(i <= L) /\ \E x \in Joined(b) : at[x] = i
    <3>1. Src(i) \in Joined(b)
      BY <2>2
    <3>2. names[1][Src(i)] \in 1..L
      <4> HIDE DEF Src
      <4> QED
        BY <1>1, <1>3, <3>1
    <3>3. s[names[1][Src(i)]] \in Value
      <4> HIDE DEF Src
      <4> QED
        BY <1>1, <3>2
    <3>4. Val(i) = s[names[1][Src(i)]]
      <4> HIDE DEF Src
      <4> QED
        BY <2>2
    <3> QED
      BY <3>3, <3>4
  <2>3. CASE ~(i <= L) /\ ~(\E x \in Joined(b) : at[x] = i)
    BY <2>3, ValuesAre
  <2> QED
    BY <2>1, <2>2, <2>3
<1>5. u \in [1..n -> Value]
  <2> HIDE DEF Val
  <2> QED
    BY <1>4
<1>6. Prolongs(u, s, L)
  <2>1. \A i \in 1..L : i \in 1..n /\ i <= L
    BY <1>1
  <2> QED
    BY <2>1 DEF Prolongs
<1>7. u[L + 1] = 0
  <2>1. ~(L + 1 <= L) /\ ~(\E x \in Joined(b) : at[x] = L + 1)
    BY <1>2
  <2>2. Val(L + 1) = 0
    BY <2>1
  <2> HIDE DEF Val
  <2> QED
    BY <1>1, <2>2
<1>8. \A x \in Joined(b) : u[at[x]] = s[names[1][x]]
  <2> SUFFICES ASSUME NEW x \in Joined(b) PROVE u[at[x]] = s[names[1][x]]
    OBVIOUS
  <2>1. at[x] \in 1..n /\ ~(at[x] <= L)
    BY <1>1, <1>2
  <2>2. Src(at[x]) = x
    BY <1>2
  <2>3. Val(at[x]) = s[names[1][x]]
    <3> HIDE DEF Src
    <3> QED
      BY <2>1, <2>2
  <2> HIDE DEF Val
  <2> QED
    BY <2>1, <2>3
<1> HIDE DEF u
<1>9. Carried(b, at, u)
  <2> SUFFICES ASSUME NEW p \in Prevs(b), Taken(extend_path(b, p), u), NEW x \in Joined(b)
               PROVE  u[at[x]] = u[names[p][x]]
    BY DEF Carried
  <2>1. p \in Made /\ p \in Blocks(f) /\ b \in Succs(f, p) /\ p \in Done
    BY DEF Prevs, Preds, Done
  <2>2. Holds(path_bit[p], u)
    BY <2>1, EdgeIn DEF Taken
  <2>3. path_bit[p] \in Bits(L)
    BY <2>1 DEF NamesIn, Bits
  <2>4. Holds(path_bit[p], s)
    BY <1>6, <2>2, <2>3, HoldsKept
  <2>5. p = 1
    BY <2>1, <2>4 DEF AlmostNone
  <2>6. u[names[1][x]] = s[names[1][x]]
    BY <1>1, <1>3, <1>6 DEF Prolongs
  <2> QED
    BY <1>8, <2>5, <2>6
<1>10. u \in Entries(b, at, L, n)
  <2> HIDE DEF n
  <2> QED
    BY <1>5, <1>6, <1>7, <1>9 DEF Entries
<1> QED
  BY <1>2, <1>6, <1>7, <1>10

LEMMA EnterNamed ==
  ASSUME Placed, NEW L \in Nat, Typed(L), NEW s \in models, AlmostNone(s), NEW b \in NextBlocks, Enter(b)
  PROVE  NamedNext
<1>1. /\ pos = 0 /\ f' = f /\ m' = m /\ exit_bits' = exit_bits /\ spec_vec' = spec_vec
      /\ assert_path_bits' = assert_path_bits /\ Placed' /\ Made' = Made \cup {b}
  BY EnterPlaced, Zenon
<1>2. /\ L >= MaxValue + 1 + Cardinality(Memories) /\ ModelsIn(models, L) /\ NamesIn(L)
      /\ models \subseteq [1..L -> Value]
  BY DEF Typed, ModelsIn
<1>3. b \in Blocks(f) /\ b \notin Made /\ Made \subseteq Blocks(f)
  BY NextIs
<1>4. CASE b = 1
  <2>1. /\ path_bit' = [path_bit EXCEPT ![b] = TrueBit]
        /\ names' = names /\ quant_elim_vars' = quant_elim_vars /\ models' = models /\ array_vars' = array_vars
    BY <1>4, Zenon DEF Enter
  <2>2. TrueBit \in 1..L
    BY <1>2, NamesOfConstants
  <2>3. Typed(L)'
    BY <1>1, <1>2, <2>1, <2>2 DEF Typed, ModelsIn, NamesIn
  <2>4. AlmostNone(s)'
    BY <1>1, <1>3, <1>4, <2>1 DEF AlmostNone
  <2> QED
    BY <1>1, <2>1, <2>3, <2>4 DEF NamedNext
<1>5. CASE b # 1
  <2>0. PICK k \in Nat : \E at : EnterIs(b, at, L, k)
    <3>1. models # {}
      OBVIOUS
    <3> QED
      BY <1>5, <3>1, EnterIsSo
  <2>1. PICK at : EnterIs(b, at, L, k)
    BY <2>0
  <2>2. /\ path_bit' = [path_bit EXCEPT ![b] = L + 1]
        /\ names' = [names EXCEPT ![b] = at]
        /\ quant_elim_vars' = quant_elim_vars \cup {L + 1}
        /\ array_vars' = array_vars \cup {at[x] : x \in Arrays}
        /\ models' = Entries(b, at, L, L + 1 + k) /\ at \in [Memories -> 1..(L + 1 + k)]
    BY <2>1 DEF EnterIs
  <2>3. PICK u \in models' : Prolongs(u, s, L) /\ u[L + 1] = 0
    BY <1>1, <1>2, <2>1, EnterWitness
  <2> DEFINE j == 1 + k
             K == L + j
  <2>4. j \in Nat /\ K = L + 1 + k /\ L + 1 \in 1..K /\ K \in Nat /\ K >= L
    OBVIOUS
  <2> HIDE DEF K, j
  <2>5. NamesIn(K)
    BY <1>2, <2>4, NamesInMore DEF K
  <2>6. NamesIn(K)'
    <3>1. /\ names' \in [Blocks(f) -> [Memories -> 1..K]] /\ path_bit' \in [Blocks(f) -> 1..K]
      BY <2>2, <2>4, <2>5 DEF NamesIn
    <3>2. quant_elim_vars' \cup array_vars' \subseteq 1..K
      <4>1. \A x \in Arrays : at[x] \in 1..K
        BY <2>2, <2>4 DEF Arrays
      <4> QED
        BY <2>2, <2>4, <2>5, <4>1 DEF NamesIn
    <3> QED
      BY <1>1, <2>5, <3>1, <3>2 DEF NamesIn
  <2>7. ModelsIn(models', K)
    <3>1. models' \subseteq [1..K -> Value] /\ \A w \in models' : \E t \in models : Prolongs(w, t, L)
      BY <2>2, <2>4 DEF Entries
    <3> QED
      BY <1>2, <2>4, <3>1, ModelsInMore DEF K
  <2>8. Typed(K)'
    <3>1. K >= MaxValue + 1 + Cardinality(Memories)
      BY <1>2, <2>4, InitialNamesAre, ValuesAssumption
    <3> QED
      BY <2>6, <2>7, <3>1 DEF Typed, ModelsIn
  <2>9. AlmostNone(u)'
    <3>1. \A c \in Made \ {1} : ~Holds(path_bit[c], u)
      BY <1>2, <1>3, <2>3, AlmostNoneKept
    <3>2. \A c \in Made \ {1} : path_bit'[c] = path_bit[c]
      BY <1>3, <2>2
    <3>3. path_bit'[b] = L + 1
      BY <1>2, <1>3, <2>2 DEF NamesIn
    <3>4. ~Holds(path_bit'[b], u)
      BY <2>3, <3>3 DEF Holds
    <3>5. \A c \in Made' \ {1} : ~Holds(path_bit'[c], u)
      BY <1>1, <3>1, <3>2, <3>4
    <3> QED
      BY <3>5 DEF AlmostNone
  <2> QED
    BY <1>1, <2>4, <2>8, <2>9 DEF NamedNext
<1> QED
  BY <1>4, <1>5

-----------------------------------------------------------------------------
(* The constants and the memories have values that fit.                    *)
LEMMA FirstModel ==
  ASSUME NEW mem \in [Memories -> Value]
  PROVE  LET n == MaxValue + 1 + Cardinality(Memories) IN
         \E s \in [1..n -> Value] : /\ \A v \in Value : s[ConstName(v)] = v
                                    /\ \A x \in Memories : s[InitialNames[x]] = mem[x]
<1> DEFINE n == MaxValue + 1 + Cardinality(Memories)
           Of(i) == CHOOSE x \in Memories : InitialNames[x] = i
           Val(i) == IF i <= MaxValue + 1 THEN i - 1
                     ELSE IF \E x \in Memories : InitialNames[x] = i THEN mem[Of(i)] ELSE 0
           s == [i \in 1..n |-> Val(i)]
<1>1. /\ MaxValue \in Nat /\ Cardinality(Memories) \in Nat
      /\ \A x \in Memories : InitialNames[x] \in (MaxValue + 2)..n
      /\ \A x, y \in Memories : InitialNames[x] = InitialNames[y] => x = y
  BY ValuesAssumption, InitialNamesAre
<1>2. \A i \in 1..n : Val(i) \in Value
  <2> SUFFICES ASSUME NEW i \in 1..n PROVE Val(i) \in Value
    OBVIOUS
  <2>1. CASE i <= MaxValue + 1
    BY <1>1, <2>1 DEF Value
  <2>2. CASE ~(i <= MaxValue + 1) /\ \E x \in Memories : InitialNames[x] = i
    <3>1. Of(i) \in Memories
      BY <2>2
    <3>2. mem[Of(i)] \in Value /\ Val(i) = mem[Of(i)]
      <4> HIDE DEF Of
      <4> QED
        BY <2>2, <3>1
    <3> QED
      BY <3>2
  <2>3. CASE ~(i <= MaxValue + 1) /\ ~(\E x \in Memories : InitialNames[x] = i)
    BY <2>3, ValuesAre
  <2> QED
    BY <2>1, <2>2, <2>3
<1>3. s \in [1..n -> Value]
  <2> HIDE DEF Val
  <2> QED
    BY <1>2
<1>4. ASSUME NEW v \in Value PROVE s[ConstName(v)] = v
  <2>1. v + 1 \in 1..n /\ v + 1 <= MaxValue + 1 /\ (v + 1) - 1 = v
    BY <1>1 DEF Value
  <2>2. Val(v + 1) = v
    BY <2>1
  <2> HIDE DEF Val
  <2> QED
    BY <2>1, <2>2 DEF ConstName
<1>5. ASSUME NEW x \in Memories PROVE s[InitialNames[x]] = mem[x]
  <2> DEFINE i == InitialNames[x]
  <2>1. i \in 1..n /\ ~(i <= MaxValue + 1)
    BY <1>1
  <2>2. Of(i) = x
    BY <1>1
  <2>3. Val(i) = mem[x]
    <3> HIDE DEF Of, i
    <3>1. \E y \in Memories : InitialNames[y] = i
      BY DEF i
    <3> QED
      BY <2>1, <2>2, <3>1
  <2> HIDE DEF Val, i
  <2>4. s[i] = mem[x]
    BY <2>1, <2>3
  <2> QED
    BY <2>4 DEF i
<1> HIDE DEF s
<1> QED
  BY <1>3, <1>4, <1>5

LEMMA InitNamed == Init => Named
<1> DEFINE n == MaxValue + 1 + Cardinality(Memories)
<1> SUFFICES ASSUME Init PROVE Named
  OBVIOUS
<1>1. /\ f \in Functions /\ bb_vec = <<>> /\ pos = 0
      /\ m = [r \in Registers |-> Name(IF r[1] = "const" THEN ConstName(r[2]) ELSE FalseBit)]
      /\ names = [b \in Blocks(f) |-> InitialNames]
      /\ path_bit = [b \in Blocks(f) |-> FalseBit]
      /\ exit_bits = [b \in Blocks(f) |-> <<>>]
      /\ spec_vec = <<>> /\ assert_path_bits = <<>> /\ quant_elim_vars = {}
      /\ array_vars = {InitialNames[x] : x \in Arrays}
  BY Zenon DEF Init
<1>2. models = {s \in [1..n -> Value] : /\ \A v \in Value : s[ConstName(v)] = v
                                        /\ \A g \in Globals : s[InitialNames[g]] = 0}
  BY Zenon DEF Init
<1>3. result = ""
  BY Zenon DEF Init
<1>4. n \in Nat /\ n >= MaxValue + 1 + Cardinality(Memories)
  BY ValuesAssumption, InitialNamesAre
<1>5. PICK s \in models : TRUE
  <2> HIDE DEF n
  <2> DEFINE mem == [x \in Memories |-> 0]
  <2>1. mem \in [Memories -> Value] /\ \A g \in Globals : mem[g] = 0
    BY ValuesAre, ValuesAssumption
  <2> HIDE DEF mem
  <2>2. \E s \in [1..n -> Value] : /\ \A v \in Value : s[ConstName(v)] = v
                                   /\ \A x \in Memories : s[InitialNames[x]] = mem[x]
    BY <2>1, FirstModel DEF n
  <2>3. PICK s \in [1..n -> Value] : /\ \A v \in Value : s[ConstName(v)] = v
                                     /\ \A x \in Memories : s[InitialNames[x]] = mem[x]
    BY <2>2
  <2>4. \A g \in Globals : s[InitialNames[g]] = 0
    BY <2>1, <2>3, ValuesAssumption
  <2> QED
    BY <1>2, <2>3, <2>4
<1>6. ModelsIn(models, n)
  BY <1>2 DEF ModelsIn
<1> HIDE DEF n
<1>7. /\ \A v \in Value : ConstName(v) \in 1..n /\ Name(ConstName(v)) \in Terms(n)
      /\ TrueBit \in 1..n /\ FalseBit \in 1..n /\ InitialNames \in [Memories -> 1..n]
  BY <1>4, NamesOfConstants
<1>8. NamesIn(n)
  <2>1. names \in [Blocks(f) -> [Memories -> 1..n]] /\ path_bit \in [Blocks(f) -> 1..n]
    BY <1>1, <1>7
  <2>2. exit_bits \in [Blocks(f) -> Seq(Bits(n))]
    BY <1>1
  <2>3. m \in [Registers -> Terms(n)]
    <3> SUFFICES ASSUME NEW r \in Registers
                 PROVE  Name(IF r[1] = "const" THEN ConstName(r[2]) ELSE FalseBit) \in Terms(n)
      BY <1>1
    <3>1. r[1] = "const" => r[2] \in Value
      BY ValuesAssumption DEF Value
    <3>2. Name(FalseBit) \in Terms(n)
      BY <1>7 DEF Name, Terms
    <3> QED
      BY <1>7, <3>1, <3>2
  <2>4. \A r \in Registers : r[1] = "const" => m[r] = Name(ConstName(r[2]))
    BY <1>1
  <2>5. spec_vec \in Seq([path : 1..n, term : Terms(n)]) /\ assert_path_bits \in Seq(1..n)
    BY <1>1
  <2>6. quant_elim_vars \cup array_vars \subseteq 1..n
    BY <1>1, <1>7 DEF Arrays
  <2> QED
    BY <2>1, <2>2, <2>3, <2>4, <2>5, <2>6 DEF NamesIn
<1>9. Typed(n)
  BY <1>4, <1>6, <1>8 DEF Typed
<1>10. Made = {} /\ Done = {}
  BY <1>1 DEF Made, Done, Range
<1>11. AlmostNone(s)
  BY <1>10 DEF AlmostNone
<1>12. Placed
  <2>1. result \in Results
    BY <1>3, Zenon DEF Results
  <2>2. bb_vec \in Seq(Blocks(f)) /\ IsInjective(bb_vec)
    BY <1>1 DEF IsInjective
  <2>3. Len(assert_path_bits) <= Len(spec_vec)
    BY <1>1
  <2> QED
    BY <1>1, <1>10, <2>1, <2>2, <2>3 DEF Placed
<1> QED
  BY <1>3, <1>4, <1>5, <1>9, <1>11, <1>12, Zenon DEF Named

-----------------------------------------------------------------------------
(* The end, and what the two checks print: the blocks stay, and so do the  *)
(* models, or some of them.                                                *)
LEMMA PlacedKept ==
  ASSUME Placed, UNCHANGED <<f, bb_vec, pos, exit_bits, spec_vec, assert_path_bits>>, result' \in Results
  PROVE  Placed'
BY DEF Placed, Done, Made, Block, bidx

LEMMA EndNamed ==
  ASSUME Named, Finish \/ check_all_spec \/ verify
  PROVE  Named'
<1>1. /\ UNCHANGED <<f, bb_vec, pos, exit_bits, spec_vec, assert_path_bits>>
      /\ models' \subseteq models
  <2>1. CASE Finish
    <3>1. UNCHANGED <<f, bb_vec, pos, exit_bits, spec_vec, assert_path_bits>>
      BY <2>1, Zenon DEF Finish
    <3>2. models' \subseteq models
      BY <2>1, Zenon DEF Finish
    <3> QED
      BY <3>1, <3>2
  <2>2. CASE check_all_spec
    BY <2>2, Zenon DEF check_all_spec
  <2>3. CASE verify
    BY <2>3, Zenon DEF verify
  <2> QED
    BY <2>1, <2>2, <2>3
<1>2. result' # "" /\ result' \in Results
  <2>1. CASE Finish
    BY <2>1, Zenon DEF Finish, Results
  <2>2. CASE check_all_spec
    BY <2>2, Zenon DEF check_all_spec, Results
  <2>3. CASE verify
    <3> DEFINE Bad == {i \in DOMAIN spec_vec : BaseCase(i) # "base case holds"}
    <3>1. result' = IF Bad = {} THEN "base case holds" ELSE BaseCase(Min(Bad))
      BY <2>3, Zenon DEF verify
    <3>2. \A i : BaseCase(i) \in {"error", "base case FAILED", "base case holds"}
      <4> SUFFICES ASSUME NEW i PROVE BaseCase(i) \in {"error", "base case FAILED", "base case holds"}
        BY Zenon
      <4> QED
        BY Zenon DEF BaseCase
    <3> HIDE DEF Bad
    <3> QED
      BY <3>1, <3>2, Zenon DEF Results
  <2> QED
    BY <2>1, <2>2, <2>3, Zenon
<1>3. \A s, t \in models : s \in Seq(Value) /\ Len(s) = Len(t)
  BY NamedTypeOK, Zenon DEF TypeOK
<1>4. Placed'
  <2>1. Placed
    BY Zenon DEF Named
  <2>2. result' \in Results
    BY <1>2, Zenon
  <2> QED
    BY <1>1, <2>1, <2>2, PlacedKept
<1>5. \A s, t \in models' : s \in Seq(Value) /\ Len(s) = Len(t)
  BY <1>1, <1>3
<1> QED
  BY <1>2, <1>4, <1>5, Zenon DEF Named

LEMMA NamedKept == Named /\ [Next]_vars => Named'
<1> SUFFICES ASSUME Named, [Next]_vars PROVE Named'
  OBVIOUS
<1>1. CASE Finish \/ check_all_spec \/ verify
  BY <1>1, EndNamed
<1>2. CASE UNCHANGED vars \/ Stop
  <2>1. UNCHANGED vars
    BY <1>2, Zenon DEF Stop
  <2>2. UNCHANGED <<f, bb_vec, pos, exit_bits, spec_vec, assert_path_bits>> /\ result' = result /\ models' = models
    BY <2>1 DEF vars
  <2>3. (\A L : Typed(L)' <=> Typed(L)) /\ \A s : AlmostNone(s)' <=> AlmostNone(s)
    BY <2>1 DEF vars, Typed, ModelsIn, NamesIn, AlmostNone, Made
  <2>4. Placed'
    BY <2>2, PlacedKept, Zenon DEF Named, Placed
  <2> QED
    BY <2>2, <2>3, <2>4, Zenon DEF Named
<1>3. CASE \/ EnterBlock
           \/ translateNondet \/ translateLoadInst \/ translateStoreInst \/ translateCmpInst
           \/ translatePhiNode \/ assume_to_bmc \/ assert_to_spec
           \/ translateBranch \/ translateSwitchInst \/ translateRetInst \/ translateUnreachableInst
  <2>1. result = "" /\ result' = result
    <3>1. CASE EnterBlock
      <4>1. PICK b \in NextBlocks : Enter(b)
        BY <3>1, Zenon DEF EnterBlock
      <4> QED
        BY <4>1, Zenon DEF Enter
    <3>2. CASE \/ translateNondet \/ translateLoadInst \/ translateStoreInst \/ translateCmpInst
               \/ translatePhiNode \/ assume_to_bmc \/ assert_to_spec
      <4>1. CASE translateNondet
        BY <4>1, Zenon DEF translateNondet, Reading
      <4>2. CASE translateLoadInst
        BY <4>2, Zenon DEF translateLoadInst, Reading
      <4>3. CASE translateStoreInst
        BY <4>3, Zenon DEF translateStoreInst, Reading
      <4>4. CASE translateCmpInst
        BY <4>4, Zenon DEF translateCmpInst, Reading
      <4>5. CASE translatePhiNode
        BY <4>5, Zenon DEF translatePhiNode, Reading
      <4>6. CASE assume_to_bmc
        BY <4>6, Zenon DEF assume_to_bmc, Reading
      <4>7. CASE assert_to_spec
        BY <4>7, Zenon DEF assert_to_spec, Reading
      <4> QED
        BY <3>2, <4>1, <4>2, <4>3, <4>4, <4>5, <4>6, <4>7, Zenon
    <3>3. CASE translateBranch \/ translateSwitchInst \/ translateRetInst \/ translateUnreachableInst
      BY <3>3, Zenon DEF translateBranch, translateSwitchInst, translateRetInst, translateUnreachableInst, Ending
    <3> QED
      BY <1>3, <3>1, <3>2, <3>3, Zenon
  <2>2. PICK L \in Nat : Typed(L) /\ \E s \in models : AlmostNone(s)
    <3>1. \E L \in Nat : Typed(L) /\ \E s \in models : AlmostNone(s)
      BY <2>1, Zenon DEF Named
    <3> QED
      BY <3>1, Zenon
  <2>3. PICK s \in models : AlmostNone(s)
    BY <2>2
  <2>4. Placed
    BY Zenon DEF Named
  <2>5. NamedNext
    <3>1. CASE EnterBlock
      <4>1. PICK b \in NextBlocks : Enter(b)
        BY <3>1, Zenon DEF EnterBlock
      <4> QED
        BY <2>2, <2>3, <2>4, <4>1, EnterNamed
    <3>2. CASE \/ translateNondet \/ translateLoadInst \/ translateStoreInst \/ translateCmpInst
               \/ translatePhiNode \/ assume_to_bmc \/ assert_to_spec
      BY <2>2, <2>3, <2>4, <3>2, NondetNamed, LoadNamed, StoreNamed, CmpNamed, PhiNamed, AssumeNamed, AssertNamed
    <3>3. CASE translateBranch \/ translateSwitchInst \/ translateRetInst \/ translateUnreachableInst
      BY <2>2, <2>3, <2>4, <3>3, BranchNamed, SwitchNamed, RetNamed, UnreachableNamed
    <3> QED
      BY <1>3, <3>1, <3>2, <3>3, Zenon
  <2> QED
    BY <2>1, <2>5, Zenon DEF Named, NamedNext
<1> QED
  BY <1>1, <1>2, <1>3, Zenon DEF Next

(***************************************************************************)
(* Whatever function the pass is given and whatever it calls next, all it  *)
(* keeps is about names it has made (the z3 vectors of bmc_ds), a block is *)
(* translated once, and assertions have their path bit.                    *)
(***************************************************************************)
THEOREM TypeCorrect == Spec => []TypeOK
<1>1. Spec => []Named
  BY InitNamed, NamedKept, PTL DEF Spec
<1> QED
  BY <1>1, NamedTypeOK, PTL

(***************************************************************************)
(* Up to its last constraint do_bmc never makes constraints that exclude   *)
(* each other: a solver that refutes a specification does not do so because *)
(* the bits of paths, exits and assumptions contradict themselves.         *)
(***************************************************************************)
THEOREM ConstraintsConsistent == Spec => []Consistent
<1>1. Spec => []Named
  BY InitNamed, NamedKept, PTL DEF Spec
<1> QED
  BY <1>1, NamedConsistent, PTL

-----------------------------------------------------------------------------
(***************************************************************************)
(* The models of a path formula are the runs of the function: at every     *)
(* step of the translation they follow the runs through the blocks it has  *)
(* done, for every well-formed function.                                   *)
(***************************************************************************)

(***************************************************************************)
(* What a run is, at the beginning of a block or in it.                    *)
(***************************************************************************)
RunOf(g) ==
  [at : Blocks(g), from : Blocks(g) \cup {0}, ended : BOOLEAN, mem : [Memories -> Value],
   init : [Memories -> Value], seen : SUBSET Blocks(g), met : SUBSET {"asserted", "bad", "later"},
   regs : [Registers -> Value]]

ConstantsIn(r) == \A x \in Registers : x[1] = "const" => r.regs[x] = x[2]

(* A block that cannot be reached without D is not reached without it. *)
Passed(g, seen) ==
  \A S, D \in SUBSET Blocks(g) :
    1 \in S \cup D /\ (\A p \in S : Succs(g, p) \subseteq S \cup D) => D \cap seen # {} \/ seen \subseteq S

RunIn(g, r) ==
  /\ r \in RunOf(g) /\ ConstantsIn(r)
  /\ \A x \in Globals : r.init[x] = 0
  /\ {1, r.at} \subseteq r.seen
  /\ r.from = 0 => r.at = 1 /\ r.seen = {1}
  /\ r.from # 0 => r.from \in r.seen \ {r.at} /\ r.at \in Succs(g, r.from) /\ Passed(g, r.seen \ {r.at})
  /\ Passed(g, r.seen)
  /\ \A c \in r.seen \ {r.at} : Height(g)[r.at] < Height(g)[c] /\ ~Returns(g, c)
  /\ \A c \in r.seen \ {1} : \E p \in r.seen : c \in Succs(g, p)
  /\ r.ended => Returns(g, r.at)

Same(q, r) ==
  q.at = r.at /\ q.from = r.from /\ q.ended = r.ended /\ q.init = r.init /\ q.seen = r.seen

Met(r, what) == [r EXCEPT !.met = @ \cup {what}]

LEMMA MetIs ==
  ASSUME NEW g, NEW r \in RunOf(g), NEW what \in {"asserted", "bad", "later"}
  PROVE  LET q == Met(r, what) IN
         q \in RunOf(g) /\ Same(q, r) /\ q.mem = r.mem /\ q.regs = r.regs /\ q.met = r.met \cup {what}
BY DEF Met, RunOf, Same

LEMMA MeetIs ==
  ASSUME NEW r, NEW what, NEW b
  PROVE  (b => Meet(r, what, b) = Met(r, what)) /\ (~b => Meet(r, what, b) = r)
<1>1. CASE b
  BY <1>1 DEF Meet, Met
<1>2. CASE ~b
  BY <1>2 DEF Meet
<1> QED
  BY <1>1, <1>2

LEMMA MeetKeeps ==
  ASSUME NEW g, NEW r \in RunOf(g), NEW what \in {"asserted", "bad", "later"}, NEW b
  PROVE  LET q == Meet(r, what, b) IN
         /\ q \in RunOf(g) /\ Same(q, r) /\ q.mem = r.mem /\ q.regs = r.regs
         /\ r.met \subseteq q.met /\ q.met \subseteq r.met \cup {what}
<1>1. CASE b
  <2>1. Meet(r, what, b) = Met(r, what)
    BY <1>1 DEF Meet, Met
  <2>2. LET q == Met(r, what) IN
        q \in RunOf(g) /\ Same(q, r) /\ q.mem = r.mem /\ q.regs = r.regs /\ q.met = r.met \cup {what}
    BY MetIs
  <2> QED
    BY <2>1, <2>2
<1>2. CASE ~b
  BY <1>2, MeetIs DEF Same
<1> QED
  BY <1>1, <1>2

LEMMA SetIs ==
  ASSUME NEW g, NEW r \in RunOf(g), NEW o, o.reg \in Registers, NEW v \in Value
  PROVE  LET q == Set(r, o, v) IN
         /\ q \in RunOf(g) /\ Same(q, r) /\ q.mem = r.mem /\ q.met = r.met
         /\ q.regs = [r.regs EXCEPT ![o.reg] = v]
BY DEF Set, RunOf, Same

Stored(r, o) == [r EXCEPT !.mem[o.mem] = r.regs[o.reg]]

(* Each operation, as a relation of two runs. *)
LEMMA PerformIs ==
  ASSUME NEW r, NEW o, NEW q
  PROVE  /\ o.op = "nondet" => (q \in Perform(r, o) <=> \E v \in Value : q = Set(r, o, v))
         /\ o.op = "load" => (q \in Perform(r, o) <=> q = Set(r, o, r.mem[o.mem]))
         /\ o.op = "store" => (q \in Perform(r, o) <=> q = Stored(r, o))
         /\ o.op = "eq" => (q \in Perform(r, o) <=> q = Set(r, o, Truth(r.regs[o.left] = r.regs[o.right])))
         /\ o.op = "phi" => (q \in Perform(r, o) <=> q = Set(r, o, r.regs[o.in[r.from]]))
         /\ o.op = "assume" => (q \in Perform(r, o) <=> q = r /\ r.regs[o.reg] # 0)
         /\ o.op = "assert" =>
              (q \in Perform(r, o) <=> q = Meet(Meet(r, "asserted", TRUE), "bad", r.regs[o.reg] = 0))
<1>1. CASE o.op = "nondet"
  BY <1>1 DEF Perform
<1>2. CASE o.op = "load"
  BY <1>2 DEF Perform
<1>3. CASE o.op = "store"
  <2>1. Perform(r, o) = {Stored(r, o)}
    BY <1>3 DEF Perform, Stored
  <2> QED
    BY <1>3, <2>1
<1>4. CASE o.op = "eq"
  BY <1>4 DEF Perform
<1>5. CASE o.op = "phi"
  BY <1>5 DEF Perform
<1>6. CASE o.op = "assume"
  BY <1>6 DEF Perform
<1>7. CASE o.op = "assert"
  BY <1>7 DEF Perform
<1> QED
  BY <1>1, <1>2, <1>3, <1>4, <1>5, <1>6, <1>7

LEMMA StoredIs ==
  ASSUME NEW g, NEW r \in RunOf(g), NEW o, o.mem \in Memories, o.reg \in Registers
  PROVE  LET q == Stored(r, o) IN
         /\ q \in RunOf(g) /\ Same(q, r) /\ q.regs = r.regs /\ q.met = r.met
         /\ q.mem = [r.mem EXCEPT ![o.mem] = r.regs[o.reg]]
BY DEF Stored, RunOf, Same

(***************************************************************************)
(* What an operation leaves alone.                                         *)
(***************************************************************************)
Written(o, q, r) == q.regs = [r.regs EXCEPT ![o.reg] = q.regs[o.reg]]

Kept(g, o, q, r) ==
  /\ q \in RunOf(g) /\ Same(q, r) /\ r.met \subseteq q.met /\ ("later" \in q.met <=> "later" \in r.met)
  /\ IF Defines(o) THEN Written(o, q, r) /\ q.regs[o.reg] \in Value ELSE q.regs = r.regs

LEMMA SetKept ==
  ASSUME NEW g, NEW r \in RunOf(g), NEW o, o.reg \in Registers, Defines(o), NEW v \in Value
  PROVE  LET q == Set(r, o, v) IN
         Kept(g, o, q, r) /\ q.regs[o.reg] = v /\ q.mem = r.mem /\ q.met = r.met
<1> DEFINE q == Set(r, o, v)
<1>1. /\ q \in RunOf(g) /\ Same(q, r) /\ q.mem = r.mem /\ q.met = r.met
      /\ q.regs = [r.regs EXCEPT ![o.reg] = v]
  BY SetIs
<1> HIDE DEF q
<1>2. q.regs[o.reg] = v
  <2>1. r.regs \in [Registers -> Value]
    BY DEF RunOf
  <2> QED
    BY <1>1, <2>1
<1>3. Kept(g, o, q, r)
  BY <1>1, <1>2 DEF Kept, Written
<1> QED
  BY <1>1, <1>2, <1>3 DEF q

Reads(o) == o.op = "load" \/ o.op = "eq" \/ o.op = "phi"

(* What is read: the value of the register an operation that reads defines. *)
ReadBy(r, o) ==
  IF o.op = "load" THEN r.mem[o.mem]
  ELSE IF o.op = "eq" THEN Truth(r.regs[o.left] = r.regs[o.right])
  ELSE r.regs[o.in[r.from]]

LEMMA ReadKept ==
  ASSUME NEW g, NEW r \in RunOf(g), NEW o, Reads(o), o.reg \in Registers, ReadBy(r, o) \in Value,
         NEW q \in Perform(r, o)
  PROVE  Kept(g, o, q, r) /\ q.regs[o.reg] = ReadBy(r, o) /\ q.mem = r.mem /\ q.met = r.met
<1>1. q = Set(r, o, ReadBy(r, o))
  <2>1. CASE o.op = "load"
    BY <2>1 DEF Perform, ReadBy
  <2>2. CASE o.op = "eq"
    BY <2>2 DEF Perform, ReadBy
  <2>3. CASE o.op = "phi"
    BY <2>3 DEF Perform, ReadBy
  <2> QED
    BY <2>1, <2>2, <2>3 DEF Reads
<1>2. Defines(o)
  BY DEF Reads, Defines
<1>3. LET u == Set(r, o, ReadBy(r, o)) IN
      Kept(g, o, u, r) /\ u.regs[o.reg] = ReadBy(r, o) /\ u.mem = r.mem /\ u.met = r.met
  BY <1>2, SetKept, SMT
<1> QED
  BY <1>1, <1>3

LEMMA NondetKept ==
  ASSUME NEW g, NEW r \in RunOf(g), NEW o, o.op = "nondet", o.reg \in Registers, NEW q \in Perform(r, o)
  PROVE  Kept(g, o, q, r) /\ q.mem = r.mem /\ q.met = r.met
<1>1. PICK v \in Value : q = Set(r, o, v)
  BY DEF Perform
<1>2. Defines(o)
  BY DEF Defines
<1>3. Kept(g, o, Set(r, o, v), r) /\ Set(r, o, v).mem = r.mem /\ Set(r, o, v).met = r.met
  BY <1>2, SetKept, SMT
<1> QED
  BY <1>1, <1>3

LEMMA StoreKept ==
  ASSUME NEW g, NEW r \in RunOf(g), NEW o, o.op = "store", o.reg \in Registers, o.mem \in Memories,
         NEW q \in Perform(r, o)
  PROVE  Kept(g, o, q, r) /\ q.mem = [r.mem EXCEPT ![o.mem] = r.regs[o.reg]] /\ q.met = r.met
<1>1. q = Stored(r, o)
  BY DEF Perform, Stored
<1>2. /\ q \in RunOf(g) /\ Same(q, r) /\ q.met = r.met /\ q.regs = r.regs
      /\ q.mem = [r.mem EXCEPT ![o.mem] = r.regs[o.reg]]
  BY <1>1, StoredIs
<1>3. ~Defines(o)
  BY DEF Defines
<1> QED
  BY <1>2, <1>3 DEF Kept

LEMMA AssumeKept ==
  ASSUME NEW g, NEW r \in RunOf(g), NEW o, o.op = "assume", NEW q \in Perform(r, o)
  PROVE  Kept(g, o, q, r) /\ q = r /\ r.regs[o.reg] # 0
<1>1. q = r /\ r.regs[o.reg] # 0
  BY DEF Perform
<1>2. ~Defines(o)
  BY DEF Defines
<1> QED
  BY <1>1, <1>2 DEF Kept, Same

LEMMA AssertKept ==
  ASSUME NEW g, NEW r \in RunOf(g), NEW o, o.op = "assert", NEW q \in Perform(r, o)
  PROVE  /\ Kept(g, o, q, r) /\ q.mem = r.mem /\ "asserted" \in q.met
         /\ "bad" \in q.met <=> "bad" \in r.met \/ r.regs[o.reg] = 0
<1> DEFINE t == Meet(r, "asserted", TRUE)
           u == Meet(t, "bad", r.regs[o.reg] = 0)
<1>1. q = u
  BY DEF Perform
<1>2. t \in RunOf(g) /\ Same(t, r) /\ t.regs = r.regs /\ t.mem = r.mem /\ t.met = r.met \cup {"asserted"}
  <2>1. t = Met(r, "asserted")
    BY MeetIs
  <2> HIDE DEF t
  <2> QED
    BY <2>1, MetIs
<1> HIDE DEF t
<1>4. /\ u \in RunOf(g) /\ Same(u, t) /\ u.regs = t.regs /\ u.mem = t.mem
      /\ t.met \subseteq u.met /\ u.met \subseteq t.met \cup {"bad"}
  BY <1>2, MeetKeeps, SMT
<1>5. ~Defines(o)
  BY DEF Defines
<1>8. "bad" \in u.met <=> "bad" \in r.met \/ r.regs[o.reg] = 0
  <2>1. CASE r.regs[o.reg] = 0
    <3>1. u = Met(t, "bad")
      BY <2>1, Zenon DEF Meet, Met
    <3>2. Met(t, "bad").met = t.met \cup {"bad"}
      BY <1>2, MetIs
    <3> QED
      BY <2>1, <3>1, <3>2
  <2>2. CASE r.regs[o.reg] # 0
    <3>1. u = t
      BY <2>2, Zenon DEF Meet
    <3> QED
      BY <1>2, <2>2, <3>1
  <2> QED
    BY <2>1, <2>2
<1> HIDE DEF u
<1>6. Same(u, r)
  BY <1>2, <1>4 DEF Same
<1>7. "asserted" \in u.met /\ r.met \subseteq u.met /\ ("later" \in u.met <=> "later" \in r.met)
  BY <1>2, <1>4
<1> QED
  BY <1>1, <1>2, <1>4, <1>5, <1>6, <1>7, <1>8 DEF Kept

LEMMA Performed ==
  ASSUME NEW g, WellFormed(g), NEW b \in Blocks(g), NEW k \in DOMAIN g.block[b].ops,
         NEW r \in RunOf(g), r.from = 0 => b = 1, r.from # 0 => b \in Succs(g, r.from),
         NEW q \in Perform(r, g.block[b].ops[k])
  PROVE  Kept(g, g.block[b].ops[k], q, r)
<1> DEFINE o == g.block[b].ops[k]
<1>1. /\ Defines(o) => o.reg \in Registers /\ o.reg[1] # "const"
      /\ o.op \in {"store", "assume", "assert"} => o.reg \in Registers
      /\ o.op \in {"load", "store"} => o.mem \in Memories
      /\ o.op = "eq" => o.left \in Registers /\ o.right \in Registers
      /\ o.op = "phi" => b # 1 /\ \A p \in Preds(g, b) : p \in DOMAIN o.in /\ o.in[p] \in Registers
  BY OpOf
<1>2. o.op \in {"nondet", "load", "store", "eq", "phi", "assume", "assert"}
  BY DEF WellFormed, WellFormedOp
<1>3. r.regs \in [Registers -> Value] /\ r.mem \in [Memories -> Value] /\ r.from \in Blocks(g) \cup {0}
  BY DEF RunOf
<1>4. q \in Perform(r, o)
  OBVIOUS
<1> SUFFICES Kept(g, o, q, r)
  OBVIOUS
<1> HIDE DEF o
<1>5. CASE o.op = "nondet"
  BY <1>1, <1>4, <1>5, NondetKept DEF Defines
<1>6. CASE Reads(o)
  <2>1. ReadBy(r, o) \in Value
    <3>1. CASE o.op = "load"
      BY <1>1, <1>3, <3>1 DEF ReadBy
    <3>2. CASE o.op = "eq"
      BY <3>2, ValuesAre DEF ReadBy
    <3>3. CASE o.op = "phi"
      <4>1. r.from \in Preds(g, b)
        BY <1>1, <1>3, <3>3 DEF Preds
      <4>2. o.in[r.from] \in Registers
        BY <1>1, <3>3, <4>1
      <4>3. r.regs[o.in[r.from]] \in Value
        BY <1>3, <4>2
      <4> QED
        BY <3>3, <4>3 DEF ReadBy
    <3> QED
      BY <1>6, <3>1, <3>2, <3>3 DEF Reads
  <2>2. Defines(o)
    BY <1>6 DEF Reads, Defines
  <2> QED
    BY <1>1, <1>4, <1>6, <2>1, <2>2, ReadKept
<1>7. CASE o.op = "store"
  BY <1>1, <1>4, <1>7, StoreKept
<1>8. CASE o.op = "assume"
  BY <1>4, <1>8, AssumeKept
<1>9. CASE o.op = "assert"
  BY <1>4, <1>9, AssertKept
<1> QED
  BY <1>2, <1>5, <1>6, <1>7, <1>8, <1>9 DEF Reads

(***************************************************************************)
(* In a block a run stays what it is.                                      *)
(***************************************************************************)
LEMMA RunKept ==
  ASSUME NEW g, NEW r, RunIn(g, r), NEW q \in RunOf(g), Same(q, r), ConstantsIn(q)
  PROVE  RunIn(g, q)
BY DEF RunIn, Same

LEMMA RunPerformed ==
  ASSUME NEW g, WellFormed(g), NEW r, RunIn(g, r), NEW k \in DOMAIN g.block[r.at].ops,
         NEW q \in Perform(r, g.block[r.at].ops[k])
  PROVE  RunIn(g, q) /\ Kept(g, g.block[r.at].ops[k], q, r)
<1> DEFINE o == g.block[r.at].ops[k]
<1>1. r \in RunOf(g) /\ ConstantsIn(r) /\ (r.from = 0 => r.at = 1) /\ (r.from # 0 => r.at \in Succs(g, r.from))
  BY DEF RunIn
<1>2. r.at \in Blocks(g)
  BY <1>1 DEF RunOf
<1>3. Kept(g, o, q, r)
  BY <1>1, <1>2, Performed
<1>4. Defines(o) => o.reg \in Registers /\ o.reg[1] # "const"
  BY <1>2, OpOf
<1>5. q \in RunOf(g) /\ Same(q, r)
  BY <1>3 DEF Kept
<1>6. ConstantsIn(q)
  <2>1. r.regs \in [Registers -> Value]
    BY <1>1 DEF RunOf
  <2>2. CASE Defines(o)
    <3>1. q.regs = [r.regs EXCEPT ![o.reg] = q.regs[o.reg]]
      BY <1>3, <2>2 DEF Kept, Written
    <3>2. \A x \in Registers : x # o.reg => q.regs[x] = r.regs[x]
      <4> HIDE DEF o
      <4> QED
        BY <2>1, <3>1
    <3> QED
      BY <1>1, <1>4, <2>2, <3>2 DEF ConstantsIn
  <2>3. CASE ~Defines(o)
    BY <1>1, <1>3, <2>3 DEF Kept, ConstantsIn
  <2> QED
    BY <2>2, <2>3
<1> QED
  BY <1>3, <1>5, <1>6, RunKept

LEMMA RunInBlock ==
  ASSUME NEW g, WellFormed(g), NEW r, RunIn(g, r), NEW k \in 0..Len(g.block[r.at].ops), NEW q \in Body(g, r, k)
  PROVE  RunIn(g, q) /\ Same(q, r) /\ r.met \subseteq q.met /\ ("later" \in q.met <=> "later" \in r.met)
<1> DEFINE ops == g.block[r.at].ops
           Is(t) == RunIn(g, t) /\ Same(t, r) /\ r.met \subseteq t.met /\ ("later" \in t.met <=> "later" \in r.met)
           P == {n \in 0..Len(ops) : \A t \in Body(g, r, n) : Is(t)}
<1>1. r.at \in Blocks(g) /\ Len(ops) \in Nat /\ DOMAIN ops = 1..Len(ops)
  <2>1. r.at \in Blocks(g)
    BY DEF RunIn, RunOf
  <2> QED
    BY <2>1, BlocksOf
<1>2. /\ Body(g, r, 0) = {r}
      /\ \A n \in 1..Len(ops) : Body(g, r, n) = UNION {Perform(s, ops[n]) : s \in Body(g, r, n - 1)}
  BY <1>1, BodyIs
<1>3. 0 \in P
  BY <1>1, <1>2 DEF Same
<1>4. ASSUME NEW n \in 0..(Len(ops) - 1), n \in P PROVE n + 1 \in P
  <2>1. n \in Nat /\ n + 1 \in 1..Len(ops) /\ n + 1 \in 0..Len(ops) /\ (n + 1) - 1 = n
    BY <1>1
  <2> SUFFICES ASSUME NEW t \in Body(g, r, n + 1) PROVE Is(t)
    BY <2>1
  <2>2. Body(g, r, n + 1) = UNION {Perform(s, ops[n + 1]) : s \in Body(g, r, n)}
    <3> HIDE DEF ops
    <3> QED
      BY <1>2, <2>1
  <2>3. PICK s \in Body(g, r, n) : t \in Perform(s, ops[n + 1])
    BY <2>2
  <2>4. Is(s)
    BY <1>4
  <2>5. s.at = r.at
    BY <2>4 DEF Same
  <2>6. t \in Perform(s, g.block[s.at].ops[n + 1]) /\ n + 1 \in DOMAIN g.block[s.at].ops
    BY <1>1, <2>1, <2>3, <2>5
  <2>7. RunIn(g, t) /\ Kept(g, g.block[s.at].ops[n + 1], t, s)
    BY <2>4, <2>6, RunPerformed
  <2>8. Same(t, s) /\ s.met \subseteq t.met /\ ("later" \in t.met <=> "later" \in s.met)
    BY <2>7 DEF Kept
  <2> QED
    BY <2>4, <2>7, <2>8 DEF Same
<1>5. 0..Len(ops) \subseteq P
  <2> HIDE DEF P
  <2> QED
    BY <1>1, <1>3, <1>4, SetInduction
<1> QED
  BY <1>5

-----------------------------------------------------------------------------
(***************************************************************************)
(* From block to block.                                                    *)
(***************************************************************************)
LEMMA StartIn ==
  ASSUME NEW g, WellFormed(g), NEW r \in Starts(g)
  PROVE  RunIn(g, r) /\ r.met = {} /\ ~r.ended /\ r.from = 0
<1>1. PICK i \in [Memories -> Value] :
        /\ \A x \in Globals : i[x] = 0
        /\ r = [at |-> 1, from |-> 0, ended |-> FALSE, mem |-> i, init |-> i, seen |-> {1}, met |-> {},
                regs |-> [x \in Registers |-> IF x[1] = "const" THEN x[2] ELSE 0]]
  BY DEF Starts
<1>2. r.regs \in [Registers -> Value] /\ ConstantsIn(r)
  <2>1. \A x \in Registers : (IF x[1] = "const" THEN x[2] ELSE 0) \in Value
    BY ValuesAssumption, ValuesAre DEF Value
  <2>2. r.regs = [x \in Registers |-> IF x[1] = "const" THEN x[2] ELSE 0]
    BY <1>1
  <2> QED
    BY <2>1, <2>2 DEF ConstantsIn
<1>3. 1 \in Blocks(g)
  BY BlocksOf
<1>4. /\ r.at = 1 /\ r.from = 0 /\ r.ended = FALSE /\ r.mem = i /\ r.init = i /\ r.seen = {1} /\ r.met = {}
      /\ DOMAIN r = {"at", "from", "ended", "mem", "init", "seen", "met", "regs"}
  BY <1>1
<1>5. r \in RunOf(g)
  BY <1>1, <1>2, <1>3 DEF RunOf
<1>6. Passed(g, {1})
  BY DEF Passed
<1> QED
  BY <1>2, <1>4, <1>5, <1>6, <1>1 DEF RunIn

LEMMA CaseIs ==
  ASSUME NEW g, WellFormed(g), NEW b \in Blocks(g), ~Returns(g, b), NEW r
  PROVE  Case(r, g.block[b].end) \in DOMAIN g.block[b].end.to
<1> DEFINE e == g.block[b].end
<1>1. /\ e.kind \in {"br", "cond", "switch"}
      /\ Len(e.to) \in Nat /\ DOMAIN e.to = 1..Len(e.to) /\ Len(e.to) # 0
      /\ e.kind = "cond" => Len(e.to) = 2
  BY EndOf DEF Returns
<1> SUFFICES Case(r, e) \in DOMAIN e.to
  OBVIOUS
<1> HIDE DEF e
<1>2. CASE e.kind = "br"
  BY <1>1, <1>2 DEF Case
<1>3. CASE e.kind = "cond"
  <2>1. Case(r, e) \in {1, 2}
    BY <1>3 DEF Case
  <2>2. DOMAIN e.to = 1..2
    BY <1>1, <1>3
  <2> QED
    BY <2>1, <2>2
<1>4. CASE e.kind = "switch"
  <2>1. Case(r, e) = IF \E i \in 2..Len(e.to) : e.val[i] = r.regs[e.reg]
                     THEN CHOOSE i \in 2..Len(e.to) : e.val[i] = r.regs[e.reg] ELSE 1
    BY <1>4 DEF Case
  <2>2. CASE \E i \in 2..Len(e.to) : e.val[i] = r.regs[e.reg]
    <3>1. Case(r, e) \in 2..Len(e.to)
      BY <2>1, <2>2
    <3> QED
      BY <1>1, <3>1
  <2>3. CASE ~ \E i \in 2..Len(e.to) : e.val[i] = r.regs[e.reg]
    BY <1>1, <2>1, <2>3
  <2> QED
    BY <2>2, <2>3
<1> QED
  BY <1>1, <1>2, <1>3, <1>4

Ended(q, r) ==
  /\ q.at = r.at /\ q.from = r.from /\ q.init = r.init /\ q.seen = r.seen /\ q.mem = r.mem /\ q.regs = r.regs
  /\ q.ended = TRUE /\ r.met \subseteq q.met /\ q.met \subseteq r.met \cup {"bad"}

LEMMA EndIs ==
  ASSUME NEW g, NEW r \in RunOf(g), Returns(g, r.at), NEW q \in Leave(g, r)
  PROVE  /\ q \in RunOf(g) /\ Ended(q, r)
         /\ "bad" \in q.met <=> "bad" \in r.met \/ g.block[r.at].end.kind = "unreachable"
<1> DEFINE e == g.block[r.at].end
           bad == Met(r, "bad")
<1>1. CASE e.kind = "ret"
  <2>1. q = [r EXCEPT !.ended = TRUE]
    BY <1>1 DEF Leave
  <2>2. q \in RunOf(g) /\ Ended(q, r)
    BY <2>1 DEF RunOf, Ended
  <2>3. q.met = r.met
    BY <2>1 DEF RunOf
  <2> QED
    BY <1>1, <2>2, <2>3
<1>2. CASE e.kind = "unreachable"
  <2>1. q = [bad EXCEPT !.ended = TRUE]
    BY <1>2 DEF Leave, Meet, Met
  <2>2. /\ bad \in RunOf(g) /\ Same(bad, r) /\ bad.mem = r.mem /\ bad.regs = r.regs
        /\ bad.met = r.met \cup {"bad"}
    BY MetIs
  <2> HIDE DEF bad
  <2>3. q \in RunOf(g) /\ Ended(q, r)
    BY <2>1, <2>2 DEF RunOf, Ended, Same
  <2>4. q.met = bad.met
    BY <2>1, <2>2 DEF RunOf
  <2> QED
    BY <1>2, <2>2, <2>3, <2>4
<1> QED
  BY <1>1, <1>2 DEF Returns

Moved(g, q, r, i) ==
  LET b == r.at
      c == g.block[b].end.to[i]
  IN  /\ q.at = c /\ q.from = b /\ q.ended = r.ended /\ q.init = r.init /\ q.seen = r.seen \cup {c}
      /\ q.mem = r.mem /\ q.regs = r.regs
      /\ r.met \subseteq q.met /\ q.met \subseteq r.met \cup {"later"}
      /\ "later" \in q.met <=> "later" \in r.met \/ i # getSuccessorIndex(g, b, c)

LEMMA LeaveIs ==
  ASSUME NEW g, WellFormed(g), NEW r \in RunOf(g), ~Returns(g, r.at)
  PROVE  LET i == Case(r, g.block[r.at].end)
             c == g.block[r.at].end.to[i] IN
         /\ <<r.at, c>> \in g.back => Leave(g, r) = {}
         /\ <<r.at, c>> \notin g.back =>
              /\ \E q : q \in Leave(g, r)
              /\ \A q \in Leave(g, r) : q \in RunOf(g) /\ Moved(g, q, r, i)
              /\ c \in Succs(g, r.at)
<1> DEFINE e == g.block[r.at].end
           i == Case(r, e)
           c == e.to[i]
           late == i # getSuccessorIndex(g, r.at, c)
           t == Meet(r, "later", late)
           q == [t EXCEPT !.at = c, !.from = r.at, !.seen = @ \cup {c}]
<1>0. r.at \in Blocks(g)
  BY DEF RunOf
<1>1. i \in DOMAIN e.to /\ e.to \in Seq(Blocks(g) \ {1})
  BY <1>0, CaseIs, EndOf
<1>2. c \in Blocks(g)
  <2> HIDE DEF i, e
  <2> QED
    BY <1>1
<1>3. e.kind \notin {"ret", "unreachable"}
  BY DEF Returns
<1>4. Leave(g, r) = IF <<r.at, c>> \in g.back THEN {} ELSE {q}
  BY <1>3 DEF Leave
<1>5. CASE <<r.at, c>> \in g.back
  BY <1>4, <1>5
<1>6. CASE <<r.at, c>> \notin g.back
  <2>1. Leave(g, r) = {q}
    BY <1>4, <1>6
  <2>2. /\ t \in RunOf(g) /\ Same(t, r) /\ t.mem = r.mem /\ t.regs = r.regs
        /\ r.met \subseteq t.met /\ t.met \subseteq r.met \cup {"later"}
    BY MeetKeeps
  <2>3. "later" \in t.met <=> "later" \in r.met \/ late
    <3>1. CASE late
      BY <3>1, MetIs DEF Meet, Met
    <3>2. CASE ~late
      BY <3>2 DEF Meet
    <3> QED
      BY <3>1, <3>2
  <2>4. c \in Succs(g, r.at)
    <3> HIDE DEF i
    <3> QED
      BY <1>1, <1>6 DEF Succs, Targets, Range
  <2> HIDE DEF t, late
  <2>5. q \in RunOf(g)
    <3> HIDE DEF c
    <3> QED
      BY <1>0, <1>2, <2>2 DEF RunOf
  <2>6. /\ q.at = c /\ q.from = r.at /\ q.ended = t.ended /\ q.init = t.init /\ q.seen = t.seen \cup {c}
        /\ q.mem = t.mem /\ q.regs = t.regs /\ q.met = t.met
    <3> HIDE DEF c
    <3> QED
      BY <2>2 DEF RunOf
  <2>7. Moved(g, q, r, i)
    <3> HIDE DEF q
    <3> QED
      BY <2>2, <2>3, <2>6 DEF Moved, Same, late
  <2> HIDE DEF q
  <2> QED
    BY <1>6, <2>1, <2>4, <2>5, <2>7
<1> QED
  BY <1>5, <1>6

LEMMA SaysIs ==
  ASSUME NEW g, NEW r, RunIn(g, r)
  PROVE  LET q == Says(g, r) IN
         /\ RunIn(g, q) /\ Same(q, r) /\ q.mem = r.mem /\ q.regs = r.regs /\ r.met \subseteq q.met
         /\ q.met \subseteq r.met \cup {"bad"}
         /\ "bad" \in q.met <=> "bad" \in r.met \/ \E c \in g.block[r.at].claim : r.mem[c[1]] # c[2]
<1> DEFINE bad == \E c \in g.block[r.at].claim : r.mem[c[1]] # c[2]
           q == Meet(r, "bad", bad)
<1>1. r \in RunOf(g)
  BY DEF RunIn
<1> HIDE DEF bad
<1>2. /\ q \in RunOf(g) /\ Same(q, r) /\ q.mem = r.mem /\ q.regs = r.regs /\ r.met \subseteq q.met
      /\ q.met \subseteq r.met \cup {"bad"}
  BY <1>1, MeetKeeps
<1>3. q = Says(g, r)
  BY DEF Says, bad
<1>6. "bad" \in q.met <=> "bad" \in r.met \/ bad
  <2>1. CASE bad
    <3>1. q = Met(r, "bad")
      BY <2>1, Zenon DEF Meet, Met
    <3>2. Met(r, "bad").met = r.met \cup {"bad"}
      BY <1>1, MetIs
    <3> QED
      BY <2>1, <3>1, <3>2
  <2>2. CASE ~bad
    <3>1. q = r
      BY <2>2, Zenon DEF Meet
    <3> QED
      BY <2>2, <3>1
  <2> QED
    BY <2>1, <2>2
<1> HIDE DEF q
<1>4. ConstantsIn(q)
  BY <1>2 DEF RunIn, ConstantsIn
<1>5. RunIn(g, q)
  BY <1>2, <1>4, RunKept
<1> QED
  BY <1>2, <1>3, <1>5, <1>6 DEF bad

LEMMA PassedOn ==
  ASSUME NEW g, NEW seen, Passed(g, seen), NEW b \in seen, NEW c \in Succs(g, b)
  PROVE  Passed(g, seen \cup {c})
<1> SUFFICES ASSUME NEW S \in SUBSET Blocks(g), NEW D \in SUBSET Blocks(g), 1 \in S \cup D,
                    \A p \in S : Succs(g, p) \subseteq S \cup D
             PROVE  D \cap (seen \cup {c}) # {} \/ seen \cup {c} \subseteq S
  BY DEF Passed
<1>1. D \cap seen # {} \/ seen \subseteq S
  BY DEF Passed
<1>2. CASE seen \subseteq S
  <2>1. c \in S \cup D
    BY <1>2
  <2> QED
    BY <1>2, <2>1
<1> QED
  BY <1>1, <1>2

(* The next block is lower than those seen, and has not been seen. *)
LEMMA MovedIn ==
  ASSUME NEW g, WellFormed(g), NEW r, RunIn(g, r), ~Returns(g, r.at), ~r.ended, NEW q \in RunOf(g), NEW i,
         Moved(g, q, r, i), q.at \in Succs(g, r.at)
  PROVE  RunIn(g, q) /\ q.seen \ {q.at} = r.seen /\ Height(g)[q.at] < Height(g)[r.at]
<1> DEFINE b == r.at
           c == q.at
           H == Height(g)
<1>1. /\ q.from = b /\ q.ended = r.ended /\ q.init = r.init /\ q.seen = r.seen \cup {c}
      /\ q.mem = r.mem /\ q.regs = r.regs
  BY DEF Moved
<1>2. r \in RunOf(g) /\ b \in r.seen /\ 1 \in r.seen
  BY DEF RunIn
<1>3. b \in Blocks(g) /\ c \in Blocks(g) \ {1} /\ r.seen \subseteq Blocks(g) /\ b # 0
  <2>1. b \in Blocks(g) /\ r.seen \subseteq Blocks(g)
    BY <1>2 DEF RunOf
  <2>2. b # 0
    <3>1. Blocks(g) = 1..Len(g.block) /\ Len(g.block) \in Nat
      BY BlocksOf
    <3> QED
      BY <2>1, <3>1
  <2> QED
    BY <2>1, <2>2, BlocksOf
<1>4. H[c] < H[b] /\ \A x \in r.seen : H[x] \in Nat
  <2>1. H \in [Blocks(g) -> 1..Len(g.block)] /\ Len(g.block) \in Nat
    BY HeightIs, BlocksOf
  <2>2. H[c] < H[b]
    BY <1>3, HeightIs
  <2> HIDE DEF H
  <2> QED
    BY <1>3, <2>1, <2>2
<1>5. \A x \in r.seen \ {b} : H[b] < H[x] /\ ~Returns(g, x)
  BY DEF RunIn
<1>6. \A x \in r.seen : H[c] < H[x] /\ ~Returns(g, x)
  <2>1. H[c] \in Nat /\ H[b] \in Nat
    <3>1. H \in [Blocks(g) -> 1..Len(g.block)] /\ Len(g.block) \in Nat
      BY HeightIs, BlocksOf
    <3> HIDE DEF H
    <3> QED
      BY <1>3, <3>1
  <2> HIDE DEF H
  <2> QED
    BY <1>4, <1>5, <2>1
<1>7. c \notin r.seen
  <2>1. H[c] \in Nat
    <3>1. H \in [Blocks(g) -> 1..Len(g.block)] /\ Len(g.block) \in Nat
      BY HeightIs, BlocksOf
    <3> HIDE DEF H
    <3> QED
      BY <1>3, <3>1
  <2> HIDE DEF H
  <2> QED
    BY <1>6, <2>1
<1>8. q.seen \ {c} = r.seen
  BY <1>1, <1>7
<1>9. Passed(g, r.seen) /\ Passed(g, q.seen)
  <2>1. Passed(g, r.seen)
    BY DEF RunIn
  <2> QED
    BY <1>1, <1>2, <2>1, PassedOn
<1>10. ConstantsIn(q) /\ \A x \in Globals : q.init[x] = 0
  BY <1>1 DEF RunIn, ConstantsIn
<1>11. \A x \in q.seen \ {1} : \E p \in q.seen : x \in Succs(g, p)
  <2>1. \A x \in r.seen \ {1} : \E p \in r.seen : x \in Succs(g, p)
    BY DEF RunIn
  <2> QED
    BY <1>1, <1>2, <2>1
<1>12. ~q.ended
  BY <1>1
<1>13. q.from \in q.seen \ {q.at}
  BY <1>1, <1>2, <1>7
<1> HIDE DEF H
<1>14. \A x \in q.seen \ {q.at} : H[q.at] < H[x] /\ ~Returns(g, x)
  BY <1>6, <1>8
<1>15. RunIn(g, q)
  BY <1>1, <1>2, <1>3, <1>8, <1>9, <1>10, <1>11, <1>12, <1>13, <1>14 DEF RunIn, H
<1> QED
  BY <1>4, <1>8, <1>15 DEF H

LEMMA EndedIn ==
  ASSUME NEW g, NEW r, RunIn(g, r), Returns(g, r.at), NEW q \in RunOf(g), Ended(q, r)
  PROVE  RunIn(g, q)
BY DEF RunIn, Ended, ConstantsIn

(* From a block to the next, or to the end. *)
Onward(g, r) == UNION {Leave(g, Says(g, s)) : s \in Body(g, r, Len(g.block[r.at].ops))}

LEMMA OnwardIs ==
  ASSUME NEW g, WellFormed(g), NEW r, RunIn(g, r), ~r.ended, NEW q \in Onward(g, r)
  PROVE  /\ RunIn(g, q)
         /\ q.ended <=> Returns(g, r.at)
         /\ q.ended => q.at = r.at /\ q.from = r.from /\ q.seen = r.seen
         /\ ~q.ended => /\ q.from = r.at /\ q.seen \ {q.at} = r.seen /\ Height(g)[q.at] < Height(g)[r.at]
         /\ "later" \in r.met => "later" \in q.met
<1>1. PICK s \in Body(g, r, Len(g.block[r.at].ops)) : q \in Leave(g, Says(g, s))
  BY DEF Onward
<1>2. RunIn(g, s) /\ Same(s, r) /\ r.met \subseteq s.met
  <2>1. r.at \in Blocks(g)
    BY DEF RunIn, RunOf
  <2>2. Len(g.block[r.at].ops) \in 0..Len(g.block[r.at].ops)
    BY <2>1, BlocksOf
  <2> QED
    BY <1>1, <2>2, RunInBlock
<1> DEFINE t == Says(g, s)
<1>3. RunIn(g, t) /\ Same(t, s) /\ s.met \subseteq t.met
  BY <1>2, SaysIs
<1>4. q \in Leave(g, t)
  BY <1>1
<1> HIDE DEF t
<1>5. t \in RunOf(g) /\ t.at = r.at /\ t.from = r.from /\ t.seen = r.seen /\ ~t.ended /\ r.met \subseteq t.met
  BY <1>2, <1>3 DEF Same, RunIn
<1>6. CASE Returns(g, r.at)
  <2>1. q \in RunOf(g) /\ Ended(q, t)
    BY <1>4, <1>5, <1>6, EndIs
  <2>2. RunIn(g, q)
    BY <1>3, <1>5, <1>6, <2>1, EndedIn
  <2> QED
    BY <1>5, <1>6, <2>1, <2>2 DEF Ended
<1>7. CASE ~Returns(g, r.at)
  <2> DEFINE i == Case(t, g.block[t.at].end)
             c == g.block[t.at].end.to[i]
  <2>1. <<t.at, c>> \notin g.back => (\A u \in Leave(g, t) : u \in RunOf(g) /\ Moved(g, u, t, i)) /\ c \in Succs(g, t.at)
    BY <1>5, <1>7, LeaveIs
  <2>2. <<t.at, c>> \in g.back => Leave(g, t) = {}
    BY <1>5, <1>7, LeaveIs
  <2>3. q \in RunOf(g) /\ Moved(g, q, t, i) /\ c \in Succs(g, t.at)
    <3> HIDE DEF c, i
    <3> QED
      BY <1>4, <2>1, <2>2
  <2>4. q.at = c
    BY <2>3 DEF Moved
  <2> HIDE DEF c, i
  <2>5. RunIn(g, q) /\ q.seen \ {q.at} = t.seen /\ Height(g)[q.at] < Height(g)[t.at]
    BY <1>3, <1>5, <1>7, <2>3, <2>4, MovedIn
  <2>6. q.from = t.at /\ q.ended = t.ended /\ t.met \subseteq q.met
    BY <2>3 DEF Moved
  <2> QED
    BY <1>5, <1>7, <2>5, <2>6
<1> QED
  BY <1>6, <1>7

-----------------------------------------------------------------------------
(***************************************************************************)
(* All runs.  Each is where it has seen no block twice, higher ones before *)
(* lower ones; so it ends within as many steps as there are blocks.        *)
(***************************************************************************)
AllRuns(g) == UNION {Runs(g)[n] : n \in 0..Len(g.block)}

LEMMA AdvanceIs ==
  ASSUME NEW g, NEW r
  PROVE  Advance(g, r) = IF r.ended THEN {r} ELSE Onward(g, r)
BY DEF Advance, Onward

LEMMA RunsStep ==
  ASSUME NEW g, WellFormed(g), NEW n \in 0..(Len(g.block) - 1)
  PROVE  \A q : q \in Runs(g)[n + 1] <=> \E r \in Runs(g)[n] : q \in Advance(g, r)
<1>1. Len(g.block) \in Nat
  BY BlocksOf
<1>2. n + 1 \in 1..Len(g.block) /\ (n + 1) - 1 = n
  BY <1>1
<1>3. Runs(g)[n + 1] = UNION {Advance(g, r) : r \in Runs(g)[n]}
  BY <1>1, <1>2, RunsIs
<1> QED
  BY <1>3

InTime(g, r, n) == RunIn(g, r) /\ (~r.ended => n + Height(g)[r.at] <= Len(g.block))

LEMMA RunsInTime ==
  ASSUME NEW g, WellFormed(g)
  PROVE  \A n \in 0..Len(g.block) : \A r \in Runs(g)[n] : InTime(g, r, n)
<1> DEFINE N == Len(g.block)
           P == {n \in Nat : \A r \in Runs(g)[n] : InTime(g, r, n)}
<1>1. N \in Nat /\ Runs(g)[0] = Starts(g)
  BY BlocksOf, RunsIs
<1>2. Height(g) \in [Blocks(g) -> 1..N]
  BY HeightIs
<1>3. ASSUME NEW r, RunIn(g, r) PROVE r.at \in Blocks(g) /\ Height(g)[r.at] \in 1..N
  <2>1. r.at \in Blocks(g)
    BY <1>3 DEF RunIn, RunOf
  <2> QED
    BY <1>2, <2>1
<1>4. 0 \in P
  <2> SUFFICES ASSUME NEW r \in Starts(g) PROVE InTime(g, r, 0)
    BY <1>1
  <2>1. RunIn(g, r)
    BY StartIn
  <2>2. Height(g)[r.at] \in 1..N
    BY <1>3, <2>1
  <2> QED
    BY <1>1, <2>1, <2>2 DEF InTime
<1>5. ASSUME NEW n \in 0..(N - 1), n \in P PROVE n + 1 \in P
  <2> SUFFICES ASSUME NEW q \in Runs(g)[n + 1] PROVE InTime(g, q, n + 1)
    BY <1>1
  <2>1. PICK r \in Runs(g)[n] : q \in Advance(g, r)
    BY RunsStep
  <2>2. RunIn(g, r) /\ (~r.ended => n + Height(g)[r.at] <= N)
    BY <1>5 DEF InTime
  <2>3. CASE r.ended
    BY <2>1, <2>2, <2>3, AdvanceIs DEF InTime
  <2>4. CASE ~r.ended
    <3>1. q \in Onward(g, r)
      BY <2>1, <2>4, AdvanceIs
    <3>2. RunIn(g, q) /\ (~q.ended => Height(g)[q.at] < Height(g)[r.at])
      BY <2>2, <2>4, <3>1, OnwardIs
    <3>3. Height(g)[r.at] \in 1..N /\ Height(g)[q.at] \in 1..N
      BY <1>3, <2>2, <3>2
    <3> DEFINE x == Height(g)[r.at]
               y == Height(g)[q.at]
    <3>4. ~q.ended => n + 1 + y <= N
      <4>1. x \in 1..N /\ y \in 1..N /\ n + x <= N /\ (~q.ended => y < x)
        BY <2>2, <2>4, <3>2, <3>3
      <4> HIDE DEF x, y, N
      <4> QED
        BY <1>1, <4>1
    <3> QED
      BY <3>2, <3>4 DEF InTime
  <2> QED
    BY <2>3, <2>4
<1>6. 0..N \subseteq P
  <2> HIDE DEF P, N
  <2> QED
    BY <1>1, <1>4, <1>5, SetInduction
<1> QED
  BY <1>6

LEMMA AllIn ==
  ASSUME NEW g, WellFormed(g), NEW r \in AllRuns(g)
  PROVE  RunIn(g, r)
BY RunsInTime DEF AllRuns, InTime

(***************************************************************************)
(* Runs, the function that follows every run block by block, follows each  *)
(* of them to its end: no execution is cut short by the number of steps.   *)
(***************************************************************************)
THEOREM EveryRunEnds ==
  ASSUME NEW g, WellFormed(g)
  PROVE  Executions(g) = {r \in AllRuns(g) : r.ended}
<1> DEFINE N == Len(g.block)
<1>1. N \in Nat
  BY BlocksOf
<1>2. ASSUME NEW r \in Executions(g) PROVE r \in AllRuns(g) /\ r.ended
  <2>1. r \in Runs(g)[N] /\ N \in 0..N
    BY <1>1 DEF Executions
  <2>2. InTime(g, r, N)
    BY <2>1, RunsInTime
  <2>3. r.at \in Blocks(g)
    BY <2>2 DEF InTime, RunIn, RunOf
  <2>4. Height(g)[r.at] \in 1..N
    BY <2>3, HeightIs
  <2>5. ~(N + Height(g)[r.at] <= N)
    BY <1>1, <2>4
  <2>6. r.ended
    BY <2>2, <2>5 DEF InTime
  <2> QED
    BY <2>1, <2>6 DEF AllRuns
<1>3. ASSUME NEW r \in AllRuns(g), r.ended PROVE r \in Executions(g)
  <2> DEFINE P == {n \in Nat : r \in Runs(g)[n]}
  <2>1. PICK n \in 0..N : r \in Runs(g)[n]
    BY DEF AllRuns
  <2>2. ASSUME NEW k \in n..(N - 1), k \in P PROVE k + 1 \in P
    <3>1. k \in 0..(N - 1) /\ r \in Runs(g)[k] /\ k + 1 \in Nat
      BY <1>1, <2>1, <2>2
    <3>2. r \in Advance(g, r)
      BY <1>3, AdvanceIs
    <3> QED
      BY <3>1, <3>2, RunsStep
  <2>3. n..N \subseteq P
    <3>1. n \in Nat /\ n \in P
      BY <2>1
    <3> HIDE DEF P, N
    <3> QED
      BY <1>1, <2>2, <3>1, SetInduction
  <2>4. N \in n..N
    BY <1>1, <2>1
  <2> QED
    BY <2>3, <2>4 DEF Executions
<1> HIDE DEF N
<1> QED
  BY <1>2, <1>3

(***************************************************************************)
(* A run that is not a start is one that has been a block behind.          *)
(***************************************************************************)
LEMMA Forwards ==
  ASSUME NEW g, WellFormed(g), NEW r \in AllRuns(g), ~r.ended
  PROVE  Onward(g, r) \subseteq AllRuns(g)
<1> DEFINE N == Len(g.block)
<1>1. PICK n \in 0..N : r \in Runs(g)[n]
  BY DEF AllRuns
<1>2. N \in Nat
  BY BlocksOf
<1>3. n + Height(g)[r.at] <= N /\ r.at \in Blocks(g)
  BY <1>1, RunsInTime DEF InTime, RunIn, RunOf
<1>4. Height(g)[r.at] \in 1..N
  BY <1>3, HeightIs
<1>5. n \in 0..(N - 1) /\ n + 1 \in 0..N
  BY <1>2, <1>3, <1>4
<1>6. Onward(g, r) \subseteq Runs(g)[n + 1]
  BY <1>1, <1>5, RunsStep, AdvanceIs
<1> HIDE DEF N
<1> QED
  BY <1>5, <1>6 DEF AllRuns, N

LEMMA Backwards ==
  ASSUME NEW g, WellFormed(g), NEW q \in AllRuns(g)
  PROVE  q \in Starts(g) \/ \E r \in AllRuns(g) : ~r.ended /\ q \in Onward(g, r)
<1> DEFINE N == Len(g.block)
           Behind(u) == u \in Starts(g) \/ \E r \in AllRuns(g) : ~r.ended /\ u \in Onward(g, r)
           P == {n \in Nat : \A u \in Runs(g)[n] : Behind(u)}
<1>1. N \in Nat /\ Runs(g)[0] = Starts(g)
  BY BlocksOf, RunsIs
<1>2. 0 \in P
  BY <1>1
<1>3. ASSUME NEW n \in 0..(N - 1), n \in P PROVE n + 1 \in P
  <2> SUFFICES ASSUME NEW u \in Runs(g)[n + 1] PROVE Behind(u)
    BY <1>1
  <2>1. PICK r \in Runs(g)[n] : u \in Advance(g, r)
    BY RunsStep
  <2>2. r \in AllRuns(g)
    <3>1. n \in 0..N
      BY <1>1
    <3> QED
      BY <2>1, <3>1 DEF AllRuns
  <2> HIDE DEF N
  <2>3. CASE r.ended
    BY <1>3, <2>1, <2>3, AdvanceIs
  <2>4. CASE ~r.ended
    BY <2>1, <2>2, <2>4, AdvanceIs
  <2> QED
    BY <2>3, <2>4
<1>4. 0..N \subseteq P
  <2> HIDE DEF P, N
  <2> QED
    BY <1>1, <1>2, <1>3, SetInduction
<1>5. PICK n \in 0..N : q \in Runs(g)[n]
  BY DEF AllRuns
<1> HIDE DEF Behind, N
<1>6. Behind(q)
  BY <1>4, <1>5
<1> QED
  BY <1>6 DEF Behind

-----------------------------------------------------------------------------
(***************************************************************************)
(* The translation.  A run that is at a block, or has left one, comes from *)
(* blocks that are done; and a comparison is no operand of another.        *)
(***************************************************************************)
Closed ==
  \A r \in AllRuns(f) : /\ r.at \in Done => r.seen \subseteq Done
                        /\ r.at \in Made => r.seen \ {r.at} \subseteq Done

Plain == \A x \in Registers : m[x].eq => x \in Comparisons(f)

LEMMA AtBlocksAre == \A r : r \in AtBlocks <=> r \in AllRuns(f) /\ "later" \notin r.met
BY DEF AtBlocks, AllRuns

Home(r) == IF r.at \in Made \/ r.from = 0 THEN r.at ELSE r.from

LEMMA OutsideHas ==
  ASSUME Placed, pos # 0, Closed, NEW r \in Outside
  PROVE  /\ r \in AllRuns(f) /\ RunIn(f, r) /\ "later" \notin r.met
         /\ bidx \notin r.seen /\ r.at # bidx /\ r.seen \cap Made \subseteq Done /\ Home(r) \in Done
<1>1. r \in AllRuns(f) /\ "later" \notin r.met /\ (Waiting(r) \/ AtTheEnd(r))
  BY AtBlocksAre DEF Outside
<1>2. WellFormed(f) /\ bidx \in Made /\ Made \subseteq Blocks(f)
  BY AtOp
<1>3. RunIn(f, r)
  BY <1>1, <1>2, AllIn
<1>4. Done = Made \ {bidx} /\ 1 \in Made
  BY DEF Done, Placed
<1>5. r.at \in r.seen /\ (r.from = 0 => r.at = 1) /\ (r.from # 0 => r.from \in r.seen \ {r.at})
  BY <1>3 DEF RunIn
<1>6. CASE Waiting(r)
  <2>1. r.at \notin Made /\ r.seen \ {r.at} \subseteq Done
    BY <1>6 DEF Waiting
  <2>2. r.from # 0 /\ r.from \in Done
    BY <1>4, <1>5, <2>1
  <2> QED
    BY <1>1, <1>2, <1>3, <1>4, <2>1, <2>2 DEF Home
<1>7. CASE AtTheEnd(r)
  <2>1. r.at \in Done /\ r.seen \subseteq Done
    BY <1>1, <1>7 DEF AtTheEnd, Closed
  <2> QED
    BY <1>1, <1>3, <1>4, <2>1 DEF Home
<1> QED
  BY <1>1, <1>6, <1>7

LEMMA InsideHas ==
  ASSUME Placed, pos # 0, Closed, NEW q \in Inside
  PROVE  /\ RunIn(f, q) /\ q.at = bidx /\ ~q.ended /\ "later" \notin q.met
         /\ q.seen \ {bidx} \subseteq Done /\ bidx \in q.seen
         /\ \E r \in AtBlocks : Entering(r) /\ q \in Body(f, r, pos - 1)
<1>1. PICK r \in AtBlocks : Entering(r) /\ q \in Body(f, r, pos - 1)
  BY DEF Inside
<1>2. r \in AllRuns(f) /\ "later" \notin r.met
  BY <1>1, AtBlocksAre
<1>3. ~r.ended /\ r.at = bidx
  BY <1>1 DEF Entering
<1>4. WellFormed(f) /\ bidx \in Made /\ Len(Block.ops) \in Nat
  BY AtOp
<1>5. pos - 1 \in 0..Len(f.block[r.at].ops)
  <2>1. pos \in Nat /\ pos # 0 /\ pos <= Len(Block.ops) + 1
    BY DEF Placed
  <2>2. Block = f.block[r.at]
    BY <1>3 DEF Block
  <2> DEFINE n == Len(Block.ops)
  <2>3. pos - 1 \in 0..n
    <3> HIDE DEF n
    <3>1. n \in Nat /\ pos \in Nat /\ pos # 0 /\ pos <= n + 1
      BY <1>4, <2>1 DEF n
    <3> QED
      BY <3>1
  <2> QED
    BY <2>2, <2>3
<1>6. RunIn(f, r)
  BY <1>2, <1>4, AllIn
<1>7. RunIn(f, q) /\ Same(q, r) /\ "later" \notin q.met
  BY <1>1, <1>2, <1>4, <1>5, <1>6, RunInBlock
<1>8. r.seen \ {bidx} \subseteq Done /\ bidx \in r.seen
  BY <1>2, <1>3, <1>4, <1>6 DEF Closed, RunIn
<1> QED
  BY <1>1, <1>3, <1>7, <1>8 DEF Same

(***************************************************************************)
(* A step within a block changes nothing of the blocks that are done.      *)
(***************************************************************************)
SpecsGrow ==
  /\ DOMAIN spec_vec \subseteq DOMAIN spec_vec'
  /\ \A i \in DOMAIN spec_vec : spec_vec'[i] = spec_vec[i]
  /\ \A i \in DOMAIN spec_vec' \ DOMAIN spec_vec : spec_vec'[i].path = path_bit[bidx] \/ Claiming

Steady ==
  /\ f' = f /\ Made' = Made /\ bidx' = bidx /\ Done \subseteq Done' /\ Done' \subseteq Done \cup {bidx}
  /\ \A b \in Done : /\ names'[b] = names[b] /\ path_bit'[b] = path_bit[b] /\ exit_bits'[b] = exit_bits[b]
                     /\ \A i \in DOMAIN f.block[b].ops :
                          Defines(f.block[b].ops[i]) => m'[f.block[b].ops[i].reg] = m[f.block[b].ops[i].reg]
  /\ assert_path_bits' = assert_path_bits \/ assert_path_bits' = Append(assert_path_bits, path_bit[bidx])
  /\ SpecsGrow

Dimmed(u, s) == ~Holds(path_bit[bidx], s) => ~Holds(path_bit'[bidx], u)

LEMMA EdgeKept ==
  ASSUME NEW L \in Nat, NamesIn(L), Placed, Steady, NEW p \in Done, p \in Blocks(f), NEW c \in Succs(f, p),
         NEW s, NEW u, Prolongs(u, s, L)
  PROVE  Taken(extend_path(c, p), u)' <=> Taken(extend_path(c, p), s)
<1> DEFINE e == extend_path(c, p)
<1>1. extend_path(c, p)' = e
  BY DEF extend_path, Steady
<1>2. e.path \in Bits(L) /\ e.exit \in Bits(L)
  BY EdgeIn
<1> HIDE DEF e
<1>3. Taken(e, u) <=> Taken(e, s)
  BY <1>2, TakenKept
<1>4. Taken(extend_path(c, p), u)' <=> Taken(e, u)
  BY <1>1 DEF Taken, Holds
<1> QED
  BY <1>3, <1>4 DEF e

LEMMA AssertedKept ==
  ASSUME NEW L \in Nat, NamesIn(L), NEW s, NEW u, Prolongs(u, s, L), path_bit[bidx] \in 1..L
  PROVE  /\ assert_path_bits' = assert_path_bits => (Asserted(u)' <=> Asserted(s))
         /\ assert_path_bits' = Append(assert_path_bits, path_bit[bidx]) =>
              (Asserted(u)' <=> Asserted(s) \/ Holds(path_bit[bidx], s))
<1> DEFINE v == assert_path_bits
           n == Len(v)
<1>1. v \in Seq(1..L) /\ n \in Nat /\ DOMAIN v = 1..n
  BY LenProperties DEF NamesIn
<1>2. \A i \in 1..n : v[i] \in Bits(L) /\ (Holds(v[i], u) <=> Holds(v[i], s))
  <2> SUFFICES ASSUME NEW i \in 1..n PROVE v[i] \in Bits(L) /\ (Holds(v[i], u) <=> Holds(v[i], s))
    OBVIOUS
  <2>1. v[i] \in Bits(L)
    BY <1>1, ElementOfSeq DEF Bits
  <2> QED
    BY <2>1, HoldsKept
<1>3. path_bit[bidx] \in Bits(L) /\ (Holds(path_bit[bidx], u) <=> Holds(path_bit[bidx], s))
  <2>1. path_bit[bidx] \in Bits(L)
    BY DEF Bits
  <2> QED
    BY <2>1, HoldsKept
<1>4. ASSUME assert_path_bits' = v PROVE Asserted(u)' <=> Asserted(s)
  BY <1>1, <1>2, <1>4 DEF Asserted
<1>5. ASSUME assert_path_bits' = Append(v, path_bit[bidx])
      PROVE  Asserted(u)' <=> Asserted(s) \/ Holds(path_bit[bidx], s)
  <2> DEFINE w == Append(v, path_bit[bidx])
  <2>1. DOMAIN w = 1..(n + 1) /\ w[n + 1] = path_bit[bidx] /\ \A i \in 1..n : w[i] = v[i]
    BY <1>1
  <2>2. 1..(n + 1) = (1..n) \cup {n + 1}
    BY <1>1
  <2>3. Asserted(u)' <=> \E i \in DOMAIN w : Holds(w[i], u)
    BY <1>5 DEF Asserted, Holds
  <2> HIDE DEF w
  <2>4. (\E i \in DOMAIN w : Holds(w[i], u)) <=> (\E i \in 1..n : Holds(v[i], u)) \/ Holds(path_bit[bidx], u)
    BY <2>1, <2>2
  <2> QED
    BY <1>1, <1>2, <1>3, <2>3, <2>4 DEF Asserted
<1> QED
  BY <1>4, <1>5

(* Whether a specification is refuted does not change either. *)
LEMMA RefutedMore ==
  ASSUME NEW L \in Nat, NamesIn(L), NEW s, NEW u, Prolongs(u, s, L), SpecsGrow
  PROVE  Refuted(u)' <=> Refuted(s) \/ \E i \in DOMAIN spec_vec' \ DOMAIN spec_vec : False(spec_vec'[i], u)
<1>1. ASSUME NEW i \in DOMAIN spec_vec PROVE False(spec_vec'[i], u) <=> False(spec_vec[i], s)
  <2>1. spec_vec'[i] = spec_vec[i]
    BY DEF SpecsGrow
  <2>2. spec_vec[i] \in [path : 1..L, term : Terms(L)]
    <3>1. spec_vec \in Seq([path : 1..L, term : Terms(L)])
      BY DEF NamesIn
    <3> QED
      BY <3>1, ElementOfSeq, LenProperties
  <2>3. spec_vec[i].path \in Bits(L) /\ spec_vec[i].term \in Terms(L)
    BY <2>2, BitsAre
  <2> QED
    BY <2>1, <2>3, HoldsKept, EvalKept DEF False
<1>2. Refuted(u)' <=> \E i \in DOMAIN spec_vec' : False(spec_vec'[i], u)
  BY DEF Refuted, False, Holds, Eval
<1>3. DOMAIN spec_vec' = DOMAIN spec_vec \cup (DOMAIN spec_vec' \ DOMAIN spec_vec)
  BY DEF SpecsGrow
<1> QED
  BY <1>1, <1>2, <1>3 DEF Refuted

LEMMA VerdictKept ==
  ASSUME NEW L \in Nat, NamesIn(L), NEW s, NEW u, Prolongs(u, s, L), f' = f, Made \subseteq Made',
         spec_vec' = spec_vec, NEW r, SameVerdict(s, r), NEW q, "bad" \in q.met <=> "bad" \in r.met
  PROVE  SameVerdict(u, q)'
<1>1. SpecsGrow
  BY DEF SpecsGrow
<1>2. Refuted(u)' <=> Refuted(s)
  BY <1>1, RefutedMore
<1>3. Claiming => Claiming'
  BY DEF Claiming
<1> QED
  BY <1>2, <1>3 DEF SameVerdict

LEMMA VerdictElsewhere ==
  ASSUME NEW L \in Nat, NamesIn(L), NEW s, NEW u, Prolongs(u, s, L), Steady, path_bit[bidx] \in 1..L,
         ~Holds(path_bit[bidx], s), NEW r, SameVerdict(s, r)
  PROVE  SameVerdict(u, r)'
<1>1. SpecsGrow /\ f' = f /\ Made' = Made
  BY DEF Steady
<1>2. Claiming' <=> Claiming
  BY <1>1 DEF Claiming
<1>3. ~Holds(path_bit[bidx], u)
  <2>1. path_bit[bidx] \in Bits(L)
    BY BitsAre
  <2> QED
    BY <2>1, HoldsKept
<1>4. ~Claiming => \A i \in DOMAIN spec_vec' \ DOMAIN spec_vec : ~False(spec_vec'[i], u)
  BY <1>1, <1>3 DEF SpecsGrow, False
<1>5. Refuted(u)' <=> Refuted(s) \/ \E i \in DOMAIN spec_vec' \ DOMAIN spec_vec : False(spec_vec'[i], u)
  BY <1>1, RefutedMore
<1> QED
  BY <1>2, <1>4, <1>5 DEF SameVerdict

(***************************************************************************)
(* The models of a run that is elsewhere, and those of one that has        *)
(* stopped, stay what they are.                                            *)
(***************************************************************************)
LEMMA OutsideStays ==
  ASSUME Placed, pos # 0, Closed, NEW L \in Nat, NEW r \in Outside, Typed(L), Steady,
         NEW s, Matches(s, r), NEW u, Prolongs(u, s, L), Dimmed(u, s)
  PROVE  Matches(u, r)'
<1>1. /\ RunIn(f, r) /\ bidx \notin r.seen /\ r.at # bidx /\ r.seen \cap Made \subseteq Done /\ Home(r) \in Done
      /\ r.from # bidx
  <2>1. /\ RunIn(f, r) /\ bidx \notin r.seen /\ r.at # bidx /\ r.seen \cap Made \subseteq Done /\ Home(r) \in Done
    BY OutsideHas
  <2>2. r.from # 0 => r.from \in r.seen
    BY <2>1 DEF RunIn
  <2>3. bidx # 0
    <3>1. WellFormed(f) /\ bidx \in Blocks(f)
      BY AtOp
    <3>2. Blocks(f) = 1..Len(f.block) /\ Len(f.block) \in Nat
      BY <3>1, BlocksOf
    <3> QED
      BY <3>1, <3>2
  <2> QED
    BY <2>1, <2>2, <2>3
<1>2. /\ f' = f /\ Made' = Made /\ bidx' = bidx /\ Done \subseteq Done' /\ Done' \subseteq Done \cup {bidx}
      /\ \A b \in Done : names'[b] = names[b] /\ path_bit'[b] = path_bit[b]
  BY DEF Steady
<1>3. WellFormed(f) /\ bidx \in Blocks(f) /\ Made \subseteq Blocks(f) /\ Done = Made \ {bidx}
  BY AtOp DEF Done
<1>4. NamesIn(L)
  BY DEF Typed
<1>5. ~Holds(path_bit[bidx], s) /\ ~Holds(path_bit'[bidx], u)
  <2>1. ~Holds(path_bit[bidx], s)
    BY <1>1, AtOp DEF Matches, SameBlocks
  <2> QED
    BY <2>1 DEF Dimmed
<1>6. SameBlocks(u, r)'
  <2> SUFFICES ASSUME NEW b \in Made PROVE Holds(path_bit'[b], u) <=> b \in r.seen
    BY <1>2 DEF SameBlocks, Holds
  <2>1. CASE b = bidx
    BY <1>1, <1>5, <2>1
  <2>2. CASE b \in Done
    <3>1. path_bit'[b] = path_bit[b]
      BY <1>2, <2>2
    <3>2. path_bit[b] \in Bits(L)
      BY <1>3, <1>4 DEF NamesIn, Bits
    <3>3. Holds(path_bit[b], u) <=> Holds(path_bit[b], s)
      BY <3>2, HoldsKept
    <3> QED
      BY <3>1, <3>3 DEF Matches, SameBlocks
  <2> QED
    BY <1>3, <2>1, <2>2
<1>7. SameMemory(u, r)'
  <2> SUFFICES ASSUME NEW x \in Memories
               PROVE  u[InitialNames[x]] = r.init[x] /\ u[names'[Home(r)][x]] = r.mem[x]
    BY <1>2 DEF SameMemory, MemoryAt, Home
  <2>1. s[InitialNames[x]] = r.init[x] /\ s[names[Home(r)][x]] = r.mem[x]
    BY DEF Matches, SameMemory, MemoryAt, Home
  <2>2. InitialNames[x] \in 1..L
    <3>1. /\ Cardinality(Memories) \in Nat /\ MaxValue \in Nat
          /\ InitialNames[x] \in (MaxValue + 2)..(MaxValue + 1 + Cardinality(Memories))
      BY InitialNamesAre, ValuesAssumption
    <3>2. L >= MaxValue + 1 + Cardinality(Memories)
      BY DEF Typed
    <3> QED
      BY <3>1, <3>2
  <2>3. names[Home(r)][x] \in 1..L /\ names'[Home(r)] = names[Home(r)]
    BY <1>1, <1>2, <1>3, <1>4 DEF NamesIn
  <2> QED
    BY <2>1, <2>2, <2>3 DEF Prolongs
<1>8. SameRegisters(u, r)'
  <2> SUFFICES ASSUME NEW b \in r.seen \cap Made, NEW i \in OpsDone(b)',
                      Defines(f.block[b].ops[i])
               PROVE  LET o == f.block[b].ops[i] IN Eval(m'[o.reg], u) = r.regs[o.reg]
    BY <1>2 DEF SameRegisters
  <2> DEFINE o == f.block[b].ops[i]
  <2>1. b \in Done /\ b \in Blocks(f)
    BY <1>1, <1>3
  <2>2. i \in DOMAIN f.block[b].ops /\ i \in OpsDone(b)
    BY <1>2, <2>1 DEF OpsDone
  <2>3. m'[o.reg] = m[o.reg]
    BY <2>1, <2>2 DEF Steady
  <2>4. o.reg \in Registers
    BY <1>3, <2>1, <2>2, OpOf
  <2>5. Eval(m[o.reg], s) = r.regs[o.reg]
    BY <2>2 DEF Matches, SameRegisters
  <2> HIDE DEF o
  <2>6. m[o.reg] \in Terms(L)
    BY <1>4, <2>4 DEF NamesIn
  <2>7. Eval(m[o.reg], u) = Eval(m[o.reg], s)
    BY <2>6, EvalKept
  <2> QED
    BY <2>3, <2>5, <2>7 DEF o
<1>9. SameEdge(u, r)'
  <2> SUFFICES ASSUME NEW c \in Blocks(f) \ Done', NEW p \in Preds(f, c) \cap Done'
               PROVE  Taken(extend_path(c, p), u)' <=> r.at = c /\ r.from = p
    BY <1>2 DEF SameEdge
  <2>1. p \in Blocks(f) /\ c \in Succs(f, p)
    BY DEF Preds
  <2>2. CASE p \in Done
    <3>1. c \in Blocks(f) \ Done /\ p \in Preds(f, c) \cap Done
      BY <1>2, <2>2
    <3>2. Taken(extend_path(c, p), s) <=> r.at = c /\ r.from = p
      BY <3>1 DEF Matches, SameEdge
    <3> QED
      BY <1>4, <2>1, <2>2, <3>2, EdgeKept
  <2>3. CASE p = bidx
    <3>1. ~Taken(extend_path(c, p), u)'
      BY <1>5, <2>3 DEF Taken, extend_path, Holds
    <3> QED
      BY <1>1, <2>3, <3>1
  <2> QED
    BY <1>2, <2>2, <2>3
<1>10. Asserted(u)' <=> Asserted(s)
  <2>1. path_bit[bidx] \in 1..L
    BY <1>3, <1>4 DEF NamesIn
  <2> QED
    BY <1>4, <1>5, <2>1, AssertedKept DEF Steady
<1>11. SameVerdict(u, r)'
  <2>1. path_bit[bidx] \in 1..L /\ SameVerdict(s, r)
    BY <1>3, <1>4 DEF NamesIn, Matches
  <2> QED
    BY <1>4, <1>5, <2>1, VerdictElsewhere
<1> QED
  BY <1>6, <1>7, <1>8, <1>9, <1>10, <1>11 DEF Matches

LEMMA StuckStays ==
  ASSUME Placed, pos # 0, NEW L \in Nat, Typed(L), Steady, NEW s, Stuck(s), NEW u, Prolongs(u, s, L), Dimmed(u, s)
  PROVE  Stuck(u)'
<1>1. /\ f' = f /\ Made' = Made /\ bidx' = bidx /\ Done' \subseteq Done \cup {bidx}
      /\ \A b \in Done : path_bit'[b] = path_bit[b]
  BY DEF Steady
<1>2. WellFormed(f) /\ bidx \in Blocks(f) /\ bidx \in Made /\ Made \subseteq Blocks(f) /\ Done = Made \ {bidx}
  BY AtOp DEF Done
<1>3. NamesIn(L)
  BY DEF Typed
<1>4. ~Holds(path_bit[bidx], s) /\ ~Holds(path_bit'[bidx], u)
  BY DEF Stuck, Dimmed
<1>5. ~Holds(path_bit[bidx], u)'
  BY <1>1, <1>4 DEF Holds
<1>6. ASSUME NEW c \in Blocks(f) \ Made, NEW p \in Preds(f, c) \cap Done' PROVE ~Taken(extend_path(c, p), u)'
  <2>1. p \in Blocks(f) /\ c \in Succs(f, p)
    BY DEF Preds
  <2>2. CASE p \in Done
    <3>1. ~Taken(extend_path(c, p), s)
      BY <2>2 DEF Stuck
    <3> QED
      BY <1>3, <2>1, <2>2, <3>1, EdgeKept
  <2>3. CASE p = bidx
    BY <1>4, <2>3 DEF Taken, extend_path, Holds
  <2> QED
    BY <1>1, <2>2, <2>3
<1>7. ASSUME NEW b \in Made, Returns(f, b) PROVE ~Holds(path_bit'[b], u)
  <2>1. CASE b = bidx
    BY <1>4, <2>1
  <2>2. CASE b \in Done
    <3>1. path_bit'[b] = path_bit[b] /\ ~Holds(path_bit[b], s)
      BY <1>1, <1>7, <2>2 DEF Stuck
    <3>2. path_bit[b] \in Bits(L)
      BY <1>2, <1>3 DEF NamesIn, Bits
    <3>3. Holds(path_bit[b], u) <=> Holds(path_bit[b], s)
      BY <3>2, HoldsKept
    <3> QED
      BY <3>1, <3>3
  <2> QED
    BY <1>2, <2>1, <2>2
<1> QED
  BY <1>1, <1>2, <1>5, <1>6, <1>7 DEF Stuck, Holds

(***************************************************************************)
(* What a run has given a register is the value of its term in the models. *)
(***************************************************************************)
LEMMA Known ==
  ASSUME Placed, NEW L \in Nat, Typed(L), NEW s \in models, NEW r, RunIn(f, r), SameRegisters(s, r),
         NEW T \in SUBSET r.seen, Passed(f, T), NEW b \in T, b \in Made, T \ {b} \subseteq Done,
         NEW k, 1..(k - 1) \subseteq OpsDone(b), NEW x \in Available(f, b, k), x \in Registers
  PROVE  Eval(m[x], s) = r.regs[x]
<1>1. WellFormed(f)
  BY FunctionsAssumption DEF Placed
<1>2. r.seen \subseteq Blocks(f)
  BY DEF RunIn, RunOf
<1>3. \A d \in r.seen \cap Made : \A i \in OpsDone(d) :
        Defines(f.block[d].ops[i]) => Eval(m[f.block[d].ops[i].reg], s) = r.regs[f.block[d].ops[i].reg]
  BY DEF SameRegisters
<1>4. CASE x[1] = "const"
  <2>1. m[x] = Name(ConstName(x[2])) /\ x[2] \in Value /\ r.regs[x] = x[2]
    BY <1>4, ValuesAssumption DEF Typed, NamesIn, RunIn, ConstantsIn, Value
  <2>2. s[ConstName(x[2])] = x[2]
    BY <2>1 DEF Typed, ModelsIn
  <2> QED
    BY <2>1, <2>2 DEF Eval, Name
<1>5. CASE x \in DefinedBefore(f, b, k)
  <2>1. PICK i \in 1..(k - 1) : Defines(f.block[b].ops[i]) /\ x = f.block[b].ops[i].reg
    BY <1>5 DEF DefinedBefore
  <2> QED
    BY <1>3, <2>1
<1>6. CASE \E d \in Blocks(f) \ {b} : Dominates(f, d, b) /\ x \in DefinedBefore(f, d, Len(f.block[d].ops) + 1)
  <2>1. PICK d \in Blocks(f) \ {b} :
          Dominates(f, d, b) /\ x \in DefinedBefore(f, d, Len(f.block[d].ops) + 1)
    BY <1>6
  <2>2. PICK S \in SUBSET (Blocks(f) \ {d, b}) :
          1 \in S \cup {d} /\ \A p \in S : Succs(f, p) \subseteq S \cup {d}
    BY <2>1 DEF Dominates
  <2>3. {d} \cap T # {} \/ T \subseteq S
    <3>1. S \in SUBSET Blocks(f) /\ {d} \in SUBSET Blocks(f)
      BY <2>1, <2>2
    <3> QED
      BY <2>2, <3>1 DEF Passed
  <2>4. d \in T /\ d # b
    BY <2>1, <2>2, <2>3
  <2>5. d \in Done /\ d \in r.seen \cap Made
    <3>1. Done \subseteq Made
      BY DEF Done
    <3> QED
      BY <2>4, <3>1
  <2>6. PICK i \in 1..((Len(f.block[d].ops) + 1) - 1) : Defines(f.block[d].ops[i]) /\ x = f.block[d].ops[i].reg
    BY <2>1 DEF DefinedBefore
  <2>7. Len(f.block[d].ops) \in Nat /\ DOMAIN f.block[d].ops = 1..Len(f.block[d].ops)
    BY <1>1, <2>1, BlocksOf
  <2>8. i \in DOMAIN f.block[d].ops
    <3> DEFINE n == Len(f.block[d].ops)
    <3>1. n \in Nat /\ i \in 1..((n + 1) - 1) /\ DOMAIN f.block[d].ops = 1..n
      BY <2>6, <2>7
    <3> HIDE DEF n
    <3> QED
      BY <3>1
  <2>9. i \in OpsDone(d)
    BY <2>5, <2>8 DEF OpsDone
  <2> QED
    BY <1>3, <2>5, <2>6, <2>9
<1> QED
  BY <1>4, <1>5, <1>6 DEF Available

LEMMA KnownHere ==
  ASSUME Placed, pos # 0, Closed, NEW L \in Nat, Typed(L), NEW s \in models, NEW r \in Inside, Matches(s, r),
         NEW x \in Available(f, bidx, pos)
  PROVE  Eval(m[x], s) = r.regs[x]
<1>1. RunIn(f, r) /\ bidx \in r.seen /\ r.seen \ {bidx} \subseteq Done
  BY InsideHas
<1>2. Passed(f, r.seen) /\ SameRegisters(s, r)
  BY <1>1 DEF RunIn, Matches
<1>3. WellFormed(f) /\ bidx \in Blocks(f) /\ bidx \in Made /\ bidx \notin Done /\ Len(Block.ops) \in Nat
  BY AtOp DEF Done
<1>4. 1..(pos - 1) \subseteq OpsDone(bidx)
  BY <1>3 DEF OpsDone
<1>5. x \in Registers
  <2>1. pos \in 1..(Len(f.block[bidx].ops) + 1)
    <3>1. pos \in Nat /\ pos # 0 /\ pos <= Len(Block.ops) + 1
      BY DEF Placed
    <3> DEFINE n == Len(Block.ops)
    <3>2. pos \in 1..(n + 1)
      <4> HIDE DEF n
      <4>1. n \in Nat /\ pos <= n + 1 /\ pos \in Nat /\ pos # 0
        BY <1>3, <3>1 DEF n
      <4> QED
        BY <4>1
    <3> QED
      BY <3>2 DEF Block
  <2> QED
    BY <1>3, <2>1, AvailableAre
<1> QED
  BY <1>1, <1>2, <1>3, <1>4, <1>5, Known

LEMMA KnownBefore ==
  ASSUME Placed, pos # 0, Closed, NEW L \in Nat, Typed(L), NEW s \in models, NEW r \in Inside, Matches(s, r),
         r.from # 0, NEW x \in Available(f, r.from, Len(f.block[r.from].ops) + 1)
  PROVE  Eval(m[x], s) = r.regs[x]
<1> DEFINE p == r.from
           n == Len(f.block[p].ops)
           T == r.seen \ {bidx}
<1>1. RunIn(f, r) /\ bidx \in r.seen /\ T \subseteq Done /\ r.at = bidx
  BY InsideHas
<1>2. Passed(f, T) /\ SameRegisters(s, r) /\ p \in T
  BY <1>1 DEF RunIn, Matches
<1>3. WellFormed(f) /\ Made \subseteq Blocks(f) /\ Done \subseteq Made
  BY AtOp DEF Done
<1>4. p \in Done /\ p \in Made /\ p \in Blocks(f)
  BY <1>1, <1>2, <1>3
<1>5. n \in Nat /\ DOMAIN f.block[p].ops = 1..n
  BY <1>3, <1>4, BlocksOf
<1>6. 1..((n + 1) - 1) \subseteq OpsDone(p) /\ n + 1 \in 1..(n + 1)
  <2>1. 1..((n + 1) - 1) = 1..n /\ n + 1 \in 1..(n + 1)
    <3> HIDE DEF n
    <3> QED
      BY <1>5
  <2>2. OpsDone(p) = 1..n
    BY <1>4, <1>5 DEF OpsDone
  <2> QED
    BY <2>1, <2>2
<1>7. x \in Available(f, p, n + 1) /\ x \in Registers
  BY <1>3, <1>4, <1>6, AvailableAre
<1>8. T \in SUBSET r.seen /\ T \ {p} \subseteq Done
  BY <1>1
<1> HIDE DEF T, n, p
<1> QED
  BY <1>1, <1>2, <1>4, <1>6, <1>7, <1>8, Known

(***************************************************************************)
(* A run in the block matches a model after an operation if the operation  *)
(* has done the same to both.                                              *)
(***************************************************************************)
InStep == Steady /\ Done' = Done /\ pos' = pos + 1

LEMMA DefinedOnce ==
  ASSUME NEW g, WellFormed(g), NEW b \in Blocks(g), NEW c \in Blocks(g),
         NEW i \in DOMAIN g.block[b].ops, NEW j \in DOMAIN g.block[c].ops,
         Defines(g.block[b].ops[i]), Defines(g.block[c].ops[j]), g.block[b].ops[i].reg = g.block[c].ops[j].reg
  PROVE  b = c /\ i = j
BY DEF WellFormed

LEMMA InsideMatches ==
  ASSUME Placed, pos # 0, pos \in DOMAIN Block.ops, Closed, NEW L \in Nat, Typed(L), InStep, NEW r \in Inside,
         NEW s, Matches(s, r), NEW u, Prolongs(u, s, L), NEW q, Kept(f, Op, q, r),
         Holds(path_bit'[bidx], u),
         \A x \in Memories : u[names'[bidx][x]] = q.mem[x],
         Defines(Op) => Eval(m'[Op.reg], u) = q.regs[Op.reg],
         \A x \in Registers : m'[x] = m[x] \/ (Defines(Op) /\ x = Op.reg),
         "asserted" \in q.met <=> Asserted(u)', SameVerdict(u, q)'
  PROVE  Matches(u, q)'
<1>1. /\ RunIn(f, r) /\ r.at = bidx /\ r.seen \ {bidx} \subseteq Done /\ bidx \in r.seen
  BY InsideHas
<1>2. /\ f' = f /\ Made' = Made /\ bidx' = bidx /\ Done' = Done /\ pos' = pos + 1
      /\ \A b \in Done : path_bit'[b] = path_bit[b]
  BY DEF InStep, Steady
<1>3. WellFormed(f) /\ bidx \in Blocks(f) /\ bidx \in Made /\ Made \subseteq Blocks(f) /\ Done = Made \ {bidx}
  BY AtOp DEF Done
<1>4. NamesIn(L)
  BY DEF Typed
<1>5. q.at = r.at /\ q.from = r.from /\ q.init = r.init /\ q.seen = r.seen
  BY DEF Kept, Same
<1>6. SameBlocks(u, q)'
  <2> SUFFICES ASSUME NEW b \in Made PROVE Holds(path_bit'[b], u) <=> b \in q.seen
    BY <1>2 DEF SameBlocks, Holds
  <2>1. CASE b = bidx
    BY <1>1, <1>5, <2>1
  <2>2. CASE b \in Done
    <3>1. path_bit'[b] = path_bit[b]
      BY <1>2, <2>2
    <3>2. path_bit[b] \in Bits(L)
      BY <1>3, <1>4 DEF NamesIn, Bits
    <3>3. Holds(path_bit[b], u) <=> Holds(path_bit[b], s)
      BY <3>2, HoldsKept
    <3> QED
      BY <1>5, <3>1, <3>3 DEF Matches, SameBlocks
  <2> QED
    BY <1>3, <2>1, <2>2
<1>7. SameMemory(u, q)'
  <2> SUFFICES ASSUME NEW x \in Memories
               PROVE  u[InitialNames[x]] = q.init[x] /\ u[names'[bidx][x]] = q.mem[x]
    BY <1>1, <1>2, <1>3, <1>5 DEF SameMemory, MemoryAt
  <2>1. s[InitialNames[x]] = r.init[x]
    BY DEF Matches, SameMemory
  <2>2. InitialNames[x] \in 1..L
    <3>1. /\ Cardinality(Memories) \in Nat /\ MaxValue \in Nat
          /\ InitialNames[x] \in (MaxValue + 2)..(MaxValue + 1 + Cardinality(Memories))
      BY InitialNamesAre, ValuesAssumption
    <3>2. L >= MaxValue + 1 + Cardinality(Memories)
      BY DEF Typed
    <3> QED
      BY <3>1, <3>2
  <2> QED
    BY <1>5, <2>1, <2>2 DEF Prolongs
<1>8. SameRegisters(u, q)'
  <2> SUFFICES ASSUME NEW b \in q.seen \cap Made, NEW i \in OpsDone(b)',
                      Defines(f.block[b].ops[i])
               PROVE  LET o == f.block[b].ops[i] IN Eval(m'[o.reg], u) = q.regs[o.reg]
    BY <1>2 DEF SameRegisters
  <2> DEFINE o == f.block[b].ops[i]
  <2>1. b \in Blocks(f) /\ i \in DOMAIN f.block[b].ops /\ ((b = bidx /\ i = pos) \/ i \in OpsDone(b))
    <3>1. CASE b \in Done
      BY <1>2, <1>3, <3>1 DEF OpsDone
    <3>2. CASE b \notin Done
      <4>1. b = bidx /\ i \in 1..((pos + 1) - 1)
        BY <1>2, <1>3, <3>2 DEF OpsDone
      <4>2. pos \in Nat /\ DOMAIN f.block[bidx].ops = 1..Len(f.block[bidx].ops) /\ Len(f.block[bidx].ops) \in Nat
        BY <1>3, BlocksOf DEF Placed
      <4>3. pos \in 1..Len(f.block[bidx].ops)
        BY <4>2 DEF Block
      <4> DEFINE n == Len(f.block[bidx].ops)
      <4>4. i \in 1..n /\ (i = pos \/ i \in 1..(pos - 1))
        <5> HIDE DEF n
        <5>1. n \in Nat /\ pos \in 1..n /\ pos \in Nat
          BY <4>2, <4>3 DEF n
        <5> QED
          BY <4>1, <5>1
      <4> QED
        BY <1>3, <3>2, <4>1, <4>2, <4>4 DEF OpsDone
    <3> QED
      BY <3>1, <3>2
  <2>2. o.reg \in Registers
    BY <1>3, <2>1, OpOf
  <2>3. CASE b = bidx /\ i = pos
    BY <2>3 DEF Op, Block
  <2>4. CASE ~(b = bidx /\ i = pos)
    <3>1. i \in OpsDone(b)
      BY <2>1, <2>4
    <3>2. Eval(m[o.reg], s) = r.regs[o.reg]
      BY <1>5, <3>1 DEF Matches, SameRegisters
    <3>3. Defines(Op) => o.reg # Op.reg
      BY <1>3, <2>1, <2>4, DefinedOnce DEF Op, Block
    <3>4. m'[o.reg] = m[o.reg]
      BY <2>2, <3>3
    <3>5. q.regs[o.reg] = r.regs[o.reg]
      <4>1. r.regs \in [Registers -> Value]
        BY <1>1 DEF RunIn, RunOf
      <4>2. CASE Defines(Op)
        <5>1. q.regs = [r.regs EXCEPT ![Op.reg] = q.regs[Op.reg]]
          BY <4>2 DEF Kept, Written
        <5> HIDE DEF o
        <5> QED
          BY <2>2, <3>3, <4>1, <4>2, <5>1
      <4>3. CASE ~Defines(Op)
        BY <4>3 DEF Kept
      <4> QED
        BY <4>2, <4>3
    <3> HIDE DEF o
    <3>6. m[o.reg] \in Terms(L)
      BY <1>4, <2>2 DEF NamesIn
    <3>7. Eval(m[o.reg], u) = Eval(m[o.reg], s)
      BY <3>6, EvalKept
    <3> QED
      BY <3>2, <3>4, <3>5, <3>7 DEF o
  <2> QED
    BY <2>3, <2>4
<1>9. SameEdge(u, q)'
  <2> SUFFICES ASSUME NEW c \in Blocks(f) \ Done, NEW p \in Preds(f, c) \cap Done
               PROVE  Taken(extend_path(c, p), u)' <=> q.at = c /\ q.from = p
    BY <1>2 DEF SameEdge
  <2>1. p \in Blocks(f) /\ c \in Succs(f, p)
    BY DEF Preds
  <2>2. Taken(extend_path(c, p), s) <=> q.at = c /\ q.from = p
    BY <1>5 DEF Matches, SameEdge
  <2> QED
    BY <1>4, <2>1, <2>2, EdgeKept DEF InStep
<1> QED
  BY <1>6, <1>7, <1>8, <1>9, Zenon DEF Matches

(***************************************************************************)
(* After an operation, the runs followed are those it leads to.            *)
(***************************************************************************)
LEMMA InsideNext ==
  ASSUME Placed, pos # 0, pos \in DOMAIN Block.ops, InStep
  PROVE  /\ \A q : q \in Inside' <=> \E r \in Inside : q \in Perform(r, Op)
         /\ Outside' = Outside
<1>1. f' = f /\ Made' = Made /\ bidx' = bidx /\ Done' = Done /\ pos' = pos + 1
  BY DEF InStep, Steady
<1>2. AtBlocks' = AtBlocks
  BY <1>1 DEF AtBlocks
<1>3. pos \in Nat /\ pos' # 0 /\ pos' - 1 = pos
  <2>1. pos \in Nat
    BY DEF Placed
  <2> QED
    BY <1>1, <2>1
<1>4. ASSUME NEW r \in AtBlocks, Entering(r)
      PROVE  Body(f, r, pos) = UNION {Perform(s, Op) : s \in Body(f, r, pos - 1)}
  <2>1. r.at = bidx
    BY <1>4 DEF Entering
  <2>2. Len(Block.ops) \in Nat /\ DOMAIN Block.ops = 1..Len(Block.ops)
    BY AtOp
  <2>3. f.block[r.at].ops = Block.ops
    BY <2>1 DEF Block
  <2>4. Len(f.block[r.at].ops) \in Nat /\ pos \in 1..Len(f.block[r.at].ops)
    BY <2>2, <2>3
  <2>5. Body(f, r, pos) = UNION {Perform(s, f.block[r.at].ops[pos]) : s \in Body(f, r, pos - 1)}
    BY <2>4, BodyIs
  <2> QED
    BY <2>3, <2>5 DEF Op
<1>5. Inside' = UNION {Body(f, r, pos) : r \in {r \in AtBlocks : Entering(r)}}
  <2>1. Inside' = UNION {Body(f, r, pos' - 1) : r \in {r \in AtBlocks : pos' # 0 /\ ~r.ended /\ r.at = bidx}}
    BY <1>1, <1>2 DEF Inside, Entering
  <2> QED
    BY <1>3, <2>1 DEF Entering
<1>6. ASSUME NEW q PROVE q \in Inside' <=> \E r \in Inside : q \in Perform(r, Op)
  <2>1. q \in Inside' <=> \E r \in AtBlocks : Entering(r) /\ q \in Body(f, r, pos)
    BY <1>5
  <2>2. \A r \in AtBlocks : Entering(r) => (q \in Body(f, r, pos) <=> \E s \in Body(f, r, pos - 1) : q \in Perform(s, Op))
    BY <1>4
  <2>3. \A s : s \in Inside <=> \E r \in AtBlocks : Entering(r) /\ s \in Body(f, r, pos - 1)
    BY DEF Inside
  <2> QED
    BY <2>1, <2>2, <2>3
<1>7. Outside' = Outside
  BY <1>1, <1>2 DEF Outside, Waiting, AtTheEnd
<1> QED
  BY <1>6, <1>7

Follow ==
  /\ \A r \in Followed : \E s \in models : Matches(s, r)
  /\ \A s \in models : Stuck(s) \/ \E r \in Followed : Matches(s, r)

Goes(u, s, L) == Prolongs(u, s, L) /\ Dimmed(u, s)

LEMMA OpFollows ==
  ASSUME Placed, pos # 0, pos \in DOMAIN Block.ops, Closed, NEW L \in Nat, Typed(L), InStep, Follow,
         \A u \in models' : \E s \in models : Goes(u, s, L),
         \A s \in models : \A r \in Outside : Matches(s, r) => \E u \in models' : Goes(u, s, L),
         \A s \in models : \A r \in Inside : Matches(s, r) =>
           \A q \in Perform(r, Op) : \E u \in models' : Matches(u, q)',
         \A s \in models : \A r \in Inside : Matches(s, r) =>
           \A u \in models' : Goes(u, s, L) => Stuck(u)' \/ \E q \in Perform(r, Op) : Matches(u, q)'
  PROVE  Follow' /\ Closed'
<1>1. Steady /\ f' = f /\ Made' = Made /\ Done' = Done
  BY DEF InStep, Steady
<1>2. Closed'
  BY <1>1 DEF Closed, AllRuns
<1>3. /\ \A q : q \in Inside' <=> \E r \in Inside : q \in Perform(r, Op)
      /\ Outside' = Outside
  BY InsideNext
<1>4. ASSUME NEW q \in Followed' PROVE \E u \in models' : Matches(u, q)'
  <2>1. q \in Outside \/ \E r \in Inside : q \in Perform(r, Op)
    BY <1>3, <1>4 DEF Followed
  <2>2. CASE q \in Outside
    <3>1. PICK s \in models : Matches(s, q)
      BY <2>2 DEF Follow, Followed
    <3>2. PICK u \in models' : Goes(u, s, L)
      BY <2>2, <3>1
    <3>3. Matches(u, q)'
      BY <1>1, <2>2, <3>1, <3>2, OutsideStays DEF Goes
    <3> QED
      BY <3>3
  <2>3. CASE \E r \in Inside : q \in Perform(r, Op)
    <3>1. PICK r \in Inside : q \in Perform(r, Op)
      BY <2>3
    <3>2. PICK s \in models : Matches(s, r)
      BY DEF Follow, Followed
    <3> QED
      BY <3>1, <3>2
  <2> QED
    BY <2>1, <2>2, <2>3
<1>5. ASSUME NEW u \in models' PROVE Stuck(u)' \/ \E q \in Followed' : Matches(u, q)'
  <2>1. PICK s \in models : Goes(u, s, L)
    OBVIOUS
  <2>2. CASE Stuck(s)
    BY <1>1, <2>1, <2>2, StuckStays DEF Goes
  <2>3. ASSUME NEW r \in Outside, Matches(s, r) PROVE \E q \in Followed' : Matches(u, q)'
    <3>1. Matches(u, r)'
      BY <1>1, <2>1, <2>3, OutsideStays DEF Goes
    <3>2. r \in Followed'
      BY <1>3 DEF Followed
    <3> QED
      BY <3>1, <3>2
  <2>4. ASSUME NEW r \in Inside, Matches(s, r) PROVE Stuck(u)' \/ \E q \in Followed' : Matches(u, q)'
    <3>1. Stuck(u)' \/ \E q \in Perform(r, Op) : Matches(u, q)'
      BY <2>1, <2>4
    <3>2. \A q \in Perform(r, Op) : q \in Followed'
      BY <1>3 DEF Followed
    <3> QED
      BY <3>1, <3>2
  <2>5. Stuck(s) \/ (\E r \in Outside : Matches(s, r)) \/ (\E r \in Inside : Matches(s, r))
    BY DEF Follow, Followed
  <2> QED
    BY <2>2, <2>3, <2>4, <2>5
<1> QED
  BY <1>2, <1>4, <1>5 DEF Follow

LEMMA SteadyOp ==
  ASSUME Placed, NEW L \in Nat, Typed(L), models # {}, NEW ops, Reading(ops),
         \A b \in Done : names'[b] = names[b] /\ path_bit'[b] = path_bit[b],
         \A x \in Registers : m'[x] = m[x] \/ (Defines(Op) /\ x = Op.reg),
         assert_path_bits' = assert_path_bits \/ assert_path_bits' = Append(assert_path_bits, path_bit[bidx]),
         spec_vec' = spec_vec \/ \E t : spec_vec' = Append(spec_vec, [path |-> path_bit[bidx], term |-> t])
  PROVE  InStep /\ pos # 0 /\ pos \in DOMAIN Block.ops
<1>1. /\ f' = f /\ exit_bits' = exit_bits /\ bidx' = bidx /\ Made' = Made /\ Done' = Done
      /\ WellFormed(f) /\ Made \subseteq Blocks(f) /\ bidx \in Blocks(f) /\ pos \in DOMAIN Block.ops
  BY Reader
<1>2. pos # 0 /\ pos' = pos + 1
  BY Zenon DEF Reading
<1>3. ASSUME NEW b \in Done, NEW i \in DOMAIN f.block[b].ops, Defines(f.block[b].ops[i])
      PROVE  m'[f.block[b].ops[i].reg] = m[f.block[b].ops[i].reg]
  <2>1. b \in Blocks(f) /\ b # bidx
    BY <1>1, <1>2 DEF Done
  <2>2. f.block[b].ops[i].reg \in Registers
    BY <1>1, <1>3, <2>1, OpOf
  <2>3. Defines(Op) => f.block[b].ops[i].reg # Op.reg
    BY <1>1, <1>3, <2>1, DefinedOnce DEF Op, Block
  <2> QED
    BY <2>2, <2>3
<1>4. SpecsGrow
  <2>1. CASE spec_vec' = spec_vec
    BY <2>1 DEF SpecsGrow
  <2>2. ASSUME NEW t, spec_vec' = Append(spec_vec, [path |-> path_bit[bidx], term |-> t]) PROVE SpecsGrow
    <3> DEFINE n == Len(spec_vec)
               e == [path |-> path_bit[bidx], term |-> t]
    <3>1. spec_vec \in Seq([path : 1..L, term : Terms(L)]) /\ n \in Nat /\ DOMAIN spec_vec = 1..n
      BY LenProperties DEF Typed, NamesIn
    <3>2. DOMAIN spec_vec' = 1..(n + 1) /\ (\A i \in 1..n : spec_vec'[i] = spec_vec[i]) /\ spec_vec'[n + 1] = e
      <4> DEFINE S == [path : 1..L, term : Terms(L)] \cup {e}
      <4>1. spec_vec' = Append(spec_vec, e) /\ e \in S
        BY <2>2
      <4>2. spec_vec \in Seq(S)
        <5>1. [path : 1..L, term : Terms(L)] \subseteq S
          OBVIOUS
        <5> QED
          BY <3>1, <5>1, SeqMonotonic
      <4> HIDE DEF e, S
      <4> QED
        BY <4>1, <4>2, AppendProperties
    <3>3. e.path = path_bit[bidx]
      OBVIOUS
    <3> HIDE DEF e, n
    <3>4. 1..n \subseteq 1..(n + 1) /\ (1..(n + 1)) \ (1..n) = {n + 1}
      BY <3>1
    <3>5. \A i \in DOMAIN spec_vec' \ DOMAIN spec_vec : i = n + 1
      BY <3>1, <3>2, <3>4
    <3> QED
      BY <3>1, <3>2, <3>3, <3>4, <3>5 DEF SpecsGrow
  <2> QED
    BY <2>1, <2>2
<1>5. Steady
  BY <1>1, <1>3, <1>4 DEF Steady
<1> QED
  BY <1>1, <1>2, <1>5 DEF InStep

(* A run in the block is on its path. *)
LEMMA InsideHolds ==
  ASSUME Placed, pos # 0, Closed, NEW r \in Inside, NEW s, Matches(s, r)
  PROVE  /\ Holds(path_bit[bidx], s) /\ RunIn(f, r) /\ r \in RunOf(f) /\ r.at = bidx
         /\ \A x \in Memories : s[names[bidx][x]] = r.mem[x]
         /\ r.from = 0 => bidx = 1
         /\ r.from # 0 => bidx \in Succs(f, r.from) /\ r.from \in Done
<1>1. RunIn(f, r) /\ r.at = bidx /\ bidx \in r.seen /\ r.seen \ {bidx} \subseteq Done
  BY InsideHas
<1>2. bidx \in Made
  BY AtOp
<1>3. SameBlocks(s, r) /\ SameMemory(s, r)
  BY DEF Matches
<1>4. MemoryAt(r) = names[bidx]
  BY <1>1, <1>2 DEF MemoryAt
<1> QED
  BY <1>1, <1>2, <1>3, <1>4 DEF SameBlocks, SameMemory, RunIn

(* The names of the memories are among those a longer model keeps. *)
LEMMA HereKept ==
  ASSUME NEW L \in Nat, NamesIn(L), NEW b \in Blocks(f), NEW s, NEW u, Prolongs(u, s, L)
  PROVE  \A x \in Memories : names[b][x] \in 1..L /\ u[names[b][x]] = s[names[b][x]]
<1> SUFFICES ASSUME NEW x \in Memories PROVE names[b][x] \in 1..L /\ u[names[b][x]] = s[names[b][x]]
  OBVIOUS
<1>1. names[b] \in [Memories -> 1..L]
  BY DEF NamesIn
<1>2. names[b][x] \in 1..L
  BY <1>1
<1> QED
  BY <1>2 DEF Prolongs

(* An operation that adds no specification refutes none. *)
LEMMA VerdictHere ==
  ASSUME NEW L \in Nat, NamesIn(L), InStep, spec_vec' = spec_vec, NEW s, NEW u, Prolongs(u, s, L),
         NEW r, Matches(s, r), NEW q, q.met = r.met
  PROVE  SameVerdict(u, q)'
<1>1. f' = f /\ Made \subseteq Made' /\ SameVerdict(s, r)
  BY DEF InStep, Steady, Matches
<1> QED
  BY <1>1, VerdictKept

(* What a model reads is what the run reads. *)
LEMMA ReadMatches ==
  ASSUME Placed, pos # 0, pos \in DOMAIN Block.ops, Closed, NEW L \in Nat, Typed(L), InStep,
         NEW r \in Inside, NEW s, Matches(s, r), NEW u, Prolongs(u, s, L),
         Reads(Op), names' = names, path_bit' = path_bit, assert_path_bits' = assert_path_bits,
         spec_vec' = spec_vec,
         \A x \in Registers : m'[x] = m[x] \/ (Defines(Op) /\ x = Op.reg),
         ReadBy(r, Op) \in Value, Eval(m'[Op.reg], u) = ReadBy(r, Op)
  PROVE  /\ \E q : q \in Perform(r, Op)
         /\ \A q \in Perform(r, Op) : Matches(u, q)'
<1>1. WellFormed(f) /\ bidx \in Blocks(f) /\ NamesIn(L) /\ pos \in DOMAIN f.block[bidx].ops
  BY AtOp DEF Typed, Block
<1>2. Defines(Op)
  BY DEF Reads, Defines
<1>3. Op.reg \in Registers
  <2>1. Defines(f.block[bidx].ops[pos]) => f.block[bidx].ops[pos].reg \in Registers
    BY <1>1, OpOf
  <2> QED
    BY <1>2, <2>1 DEF Op, Block
<1>4. /\ Holds(path_bit[bidx], s) /\ r \in RunOf(f)
      /\ \A x \in Memories : s[names[bidx][x]] = r.mem[x]
  BY InsideHolds
<1>5. Holds(path_bit[bidx], u) /\ path_bit[bidx] \in 1..L
  <2>1. path_bit[bidx] \in Bits(L) /\ path_bit[bidx] \in 1..L
    BY <1>1 DEF NamesIn, Bits
  <2> QED
    BY <1>4, <2>1, HoldsKept
<1>6. \A x \in Memories : u[names[bidx][x]] = r.mem[x]
  BY <1>1, <1>4, HereKept
<1>7. "asserted" \in r.met <=> Asserted(u)'
  BY <1>1, <1>5, AssertedKept DEF Matches
<1>8. ASSUME NEW q \in Perform(r, Op) PROVE Matches(u, q)'
  <2>1. Kept(f, Op, q, r) /\ q.regs[Op.reg] = ReadBy(r, Op) /\ q.mem = r.mem /\ q.met = r.met
    BY <1>3, <1>4, ReadKept
  <2>2. SameVerdict(u, q)'
    BY <1>1, <2>1, VerdictHere
  <2> QED
    BY <1>5, <1>6, <1>7, <2>1, <2>2, InsideMatches
<1>9. \E q : q \in Perform(r, Op)
  BY PerformIs DEF Reads
<1> QED
  BY <1>8, <1>9

LEMMA DimmedKept ==
  ASSUME NEW L \in Nat, NamesIn(L), bidx \in Blocks(f), path_bit' = path_bit, NEW s, NEW u, Prolongs(u, s, L)
  PROVE  Goes(u, s, L)
<1>1. path_bit[bidx] \in Bits(L)
  BY DEF NamesIn, Bits
<1>2. Holds(path_bit[bidx], u) <=> Holds(path_bit[bidx], s)
  BY <1>1, HoldsKept
<1> QED
  BY <1>2 DEF Goes, Dimmed

LEMMA ReadFollows ==
  ASSUME Placed, pos # 0, pos \in DOMAIN Block.ops, Closed, NEW L \in Nat, Typed(L), InStep, Follow,
         Reads(Op), names' = names, path_bit' = path_bit, assert_path_bits' = assert_path_bits,
         spec_vec' = spec_vec,
         \A x \in Registers : m'[x] = m[x] \/ (Defines(Op) /\ x = Op.reg),
         \A u \in models' : \E s \in models : Prolongs(u, s, L),
         \A s \in models : \A r \in Outside : Matches(s, r) => \E u \in models' : Prolongs(u, s, L),
         \A s \in models : \A r \in Inside : Matches(s, r) =>
           /\ ReadBy(r, Op) \in Value
           /\ \E u \in models' : Prolongs(u, s, L)
           /\ \A u \in models' : Prolongs(u, s, L) => Eval(m'[Op.reg], u) = ReadBy(r, Op)
  PROVE  Follow' /\ Closed'
<1>1. NamesIn(L) /\ bidx \in Blocks(f)
  BY AtOp DEF Typed
<1>2. \A s, u : Prolongs(u, s, L) => Goes(u, s, L)
  BY <1>1, DimmedKept
<1>3. \A u \in models' : \E s \in models : Goes(u, s, L)
  BY <1>2
<1>4. \A s \in models : \A r \in Outside : Matches(s, r) => \E u \in models' : Goes(u, s, L)
  BY <1>2
<1>5. ASSUME NEW s \in models, NEW r \in Inside, Matches(s, r), NEW u \in models', Prolongs(u, s, L)
      PROVE  /\ \E q : q \in Perform(r, Op)
             /\ \A q \in Perform(r, Op) : Matches(u, q)'
  <2>1. ReadBy(r, Op) \in Value /\ Eval(m'[Op.reg], u) = ReadBy(r, Op)
    BY <1>5
  <2> QED
    BY <1>5, <2>1, ReadMatches
<1>6. \A s \in models : \A r \in Inside : Matches(s, r) =>
        \A q \in Perform(r, Op) : \E u \in models' : Matches(u, q)'
  BY <1>5
<1>7. \A s \in models : \A r \in Inside : Matches(s, r) =>
        \A u \in models' : Goes(u, s, L) => Stuck(u)' \/ \E q \in Perform(r, Op) : Matches(u, q)'
  BY <1>5 DEF Goes
<1> QED
  BY <1>3, <1>4, <1>6, <1>7, OpFollows

LEMMA PlainKept ==
  ASSUME Plain, f' = f, \A x \in Registers : m'[x] = m[x] \/ (m'[x].eq => x \in Comparisons(f))
  PROVE  Plain'
BY DEF Plain, Comparisons

(***************************************************************************)
(* The operations, one by one.                                             *)
(***************************************************************************)
FollowNext == Follow' /\ Closed' /\ Plain'

LEMMA LoadFollows ==
  ASSUME Placed, Closed, Plain, NEW L \in Nat, Typed(L), models # {}, Follow, translateLoadInst
  PROVE  FollowNext
<1> DEFINE t == Name(names[bidx][Op.mem])
<1>1. /\ Reading({"load"}) /\ m' = [m EXCEPT ![Op.reg] = t]
      /\ names' = names /\ path_bit' = path_bit /\ assert_path_bits' = assert_path_bits /\ spec_vec' = spec_vec
      /\ models' = models
  <2>1. Reading({"load"}) /\ Insert(t)
    BY DEF translateLoadInst
  <2> HIDE DEF t
  <2> QED
    BY <2>1 DEF translateLoadInst, Insert
<1>2. /\ f' = f /\ WellFormed(f) /\ bidx \in Blocks(f) /\ pos \in DOMAIN Block.ops /\ Op.op = "load"
      /\ NamesIn(L) /\ ModelsIn(models, L)
  BY <1>1, Reader
<1>3. Op.reg \in Registers /\ Op.mem \in Memories /\ Defines(Op)
  BY <1>2, OpOf DEF Op, Block, Defines
<1>4. m \in [Registers -> Terms(L)]
  BY <1>2 DEF NamesIn
<1>5. m'[Op.reg] = t /\ t.eq = FALSE /\ \A x \in Registers : m'[x] = m[x] \/ x = Op.reg
  <2>1. t.eq = FALSE
    BY DEF Name
  <2> HIDE DEF t
  <2> QED
    BY <1>1, <1>3, <1>4, <2>1
<1>6. InStep /\ pos # 0
  BY <1>1, <1>3, <1>5, SteadyOp
<1>7. \A s : Prolongs(s, s, L)
  BY DEF Prolongs
<1>8. ASSUME NEW s \in models, NEW r \in Inside, Matches(s, r), NEW u \in models', Prolongs(u, s, L)
      PROVE  ReadBy(r, Op) \in Value /\ Eval(m'[Op.reg], u) = ReadBy(r, Op)
  <2>1. r \in RunOf(f) /\ s[names[bidx][Op.mem]] = r.mem[Op.mem]
    BY <1>3, <1>6, <1>8, InsideHolds
  <2>2. ReadBy(r, Op) = r.mem[Op.mem]
    BY <1>2 DEF ReadBy
  <2>3. r.mem[Op.mem] \in Value
    BY <1>3, <2>1 DEF RunOf
  <2>4. Eval(t, u) = u[names[bidx][Op.mem]]
    BY DEF Eval, Name
  <2>5. u[names[bidx][Op.mem]] = s[names[bidx][Op.mem]]
    BY <1>2, <1>3, <1>8, HereKept
  <2> QED
    BY <1>5, <2>1, <2>2, <2>3, <2>4, <2>5
<1>9. Follow' /\ Closed'
  <2>1. Reads(Op) /\ \A x \in Registers : m'[x] = m[x] \/ (Defines(Op) /\ x = Op.reg)
    BY <1>2, <1>3, <1>5 DEF Reads
  <2>2. \A s \in models : \E u \in models' : Prolongs(u, s, L)
    BY <1>1, <1>7
  <2>3. \A u \in models' : \E s \in models : Prolongs(u, s, L)
    BY <1>1, <1>7
  <2> QED
    BY <1>1, <1>2, <1>6, <1>8, <2>1, <2>2, <2>3, ReadFollows
<1>10. Plain'
  BY <1>2, <1>5, PlainKept
<1> QED
  BY <1>9, <1>10 DEF FollowNext

LEMMA CmpFollows ==
  ASSUME Placed, Closed, Plain, NEW L \in Nat, Typed(L), models # {}, Follow, translateCmpInst
  PROVE  FollowNext
<1> DEFINE t == [eq |-> TRUE, left |-> m[Op.left].left, right |-> m[Op.right].left]
<1>1. /\ Reading({"eq"}) /\ m' = [m EXCEPT ![Op.reg] = t]
      /\ names' = names /\ path_bit' = path_bit /\ assert_path_bits' = assert_path_bits /\ spec_vec' = spec_vec
      /\ models' = models
  <2>1. Reading({"eq"}) /\ Insert(t)
    BY DEF translateCmpInst
  <2> HIDE DEF t
  <2> QED
    BY <2>1 DEF translateCmpInst, Insert
<1>2. /\ f' = f /\ WellFormed(f) /\ bidx \in Blocks(f) /\ pos \in DOMAIN Block.ops /\ Op.op = "eq"
      /\ NamesIn(L) /\ ModelsIn(models, L)
  BY <1>1, Reader
<1>3. Op.reg \in Registers /\ Defines(Op)
  BY <1>2, OpOf DEF Op, Block, Defines
<1>4. m \in [Registers -> Terms(L)]
  BY <1>2 DEF NamesIn
<1>5. m'[Op.reg] = t /\ \A x \in Registers : m'[x] = m[x] \/ x = Op.reg
  <2> HIDE DEF t
  <2> QED
    BY <1>1, <1>3, <1>4
<1>6. InStep /\ pos # 0
  BY <1>1, <1>3, <1>5, SteadyOp
<1>7. \A s : Prolongs(s, s, L)
  BY DEF Prolongs
<1>8. ASSUME NEW x \in {Op.left, Op.right}
      PROVE  x \in Available(f, bidx, pos) /\ x \in Registers /\ m[x].eq = FALSE /\ m[x].left \in 1..L
  <2>1. WellFormedOp(f, bidx, pos)
    BY <1>2 DEF WellFormed, Block
  <2>2. {Op.left, Op.right} \subseteq Available(f, bidx, pos) \ Comparisons(f)
    BY <1>2, <2>1 DEF WellFormedOp, Op, Block
  <2>3. x \in Registers
    BY <1>2, OpOf DEF Op, Block
  <2>4. m[x] \in Terms(L)
    BY <1>4, <2>3
  <2>5. m[x].eq \in BOOLEAN /\ m[x].left \in 1..L
    BY <2>4 DEF Terms
  <2>6. ~m[x].eq
    BY <2>2, <2>3 DEF Plain
  <2> QED
    BY <2>2, <2>3, <2>5, <2>6
<1>9. ASSUME NEW s \in models, NEW r \in Inside, Matches(s, r), NEW u \in models', Prolongs(u, s, L),
             NEW x \in {Op.left, Op.right}
      PROVE  u[m[x].left] = r.regs[x]
  <2>1. x \in Available(f, bidx, pos) /\ x \in Registers /\ m[x].eq = FALSE /\ m[x].left \in 1..L
    BY <1>8
  <2>2. Eval(m[x], s) = r.regs[x]
    BY <1>6, <1>9, <2>1, KnownHere
  <2>3. Eval(m[x], s) = s[m[x].left]
    BY <2>1 DEF Eval
  <2> QED
    BY <1>9, <2>1, <2>2, <2>3 DEF Prolongs
<1>10. ASSUME NEW s \in models, NEW r \in Inside, Matches(s, r), NEW u \in models', Prolongs(u, s, L)
      PROVE  ReadBy(r, Op) \in Value /\ Eval(m'[Op.reg], u) = ReadBy(r, Op)
  <2>1. ReadBy(r, Op) = Truth(r.regs[Op.left] = r.regs[Op.right])
    BY <1>2 DEF ReadBy
  <2>2. Eval(t, u) = Truth(u[m[Op.left].left] = u[m[Op.right].left])
    BY DEF Eval
  <2>3. u[m[Op.left].left] = r.regs[Op.left] /\ u[m[Op.right].left] = r.regs[Op.right]
    BY <1>9, <1>10
  <2> HIDE DEF t
  <2> QED
    BY <1>5, <2>1, <2>2, <2>3, ValuesAre
<1>11. Follow' /\ Closed'
  <2>1. Reads(Op) /\ \A x \in Registers : m'[x] = m[x] \/ (Defines(Op) /\ x = Op.reg)
    BY <1>2, <1>3, <1>5 DEF Reads
  <2>2. \A s \in models : \E u \in models' : Prolongs(u, s, L)
    BY <1>1, <1>7
  <2>3. \A u \in models' : \E s \in models : Prolongs(u, s, L)
    BY <1>1, <1>7
  <2>4. names' = names /\ path_bit' = path_bit /\ assert_path_bits' = assert_path_bits /\ spec_vec' = spec_vec
    BY <1>1
  <2> HIDE DEF t
  <2> QED
    BY <1>2, <1>6, <1>10, <2>1, <2>2, <2>3, <2>4, ReadFollows
<1>12. Op.reg \in Comparisons(f)
  BY <1>2 DEF Comparisons, Op, Block
<1>13. Plain'
  BY <1>2, <1>5, <1>12, PlainKept
<1> QED
  BY <1>11, <1>13 DEF FollowNext

LEMMA PhiFollows ==
  ASSUME Placed, Closed, Plain, NEW L \in Nat, Typed(L), models # {}, Follow, translatePhiNode
  PROVE  FollowNext
<1> DEFINE prevs == DOMAIN Op.in \cap Preds(f, bidx) \cap Made
           in(p) == m[Op.in[p]]
           K == L + 1
<1>1. /\ Reading({"phi"}) /\ m' = [m EXCEPT ![Op.reg] = Name(Fresh)]
      /\ names' = names /\ path_bit' = path_bit /\ assert_path_bits' = assert_path_bits /\ spec_vec' = spec_vec
      /\ models' = {s \in {Append(s, v) : s \in models, v \in Value} :
                      \A p \in prevs : Taken(extend_path(bidx, p), s) => s[Fresh] = Eval(in(p), s)}
  <2>1. Reading({"phi"}) /\ Insert(Name(Fresh))
    BY DEF translatePhiNode
  <2> QED
    BY <2>1 DEF translatePhiNode, Insert
<1>2. /\ f' = f /\ WellFormed(f) /\ bidx \in Blocks(f) /\ pos \in DOMAIN Block.ops /\ Op.op = "phi"
      /\ NamesIn(L) /\ ModelsIn(models, L) /\ Fresh = K
  BY <1>1, Reader
<1>3. /\ Op.reg \in Registers /\ Defines(Op) /\ bidx # 1
      /\ \A p \in Preds(f, bidx) : p \in DOMAIN Op.in /\ Op.in[p] \in Registers
  BY <1>2, OpOf DEF Op, Block, Defines
<1>4. m \in [Registers -> Terms(L)]
  BY <1>2 DEF NamesIn
<1>5. m'[Op.reg] = Name(K) /\ \A x \in Registers : m'[x] = m[x] \/ x = Op.reg
  BY <1>1, <1>2, <1>3, <1>4
<1>6. InStep /\ pos # 0
  BY <1>1, <1>3, <1>5, SteadyOp
<1>7. prevs = Preds(f, bidx) \cap Done /\ Done = Made \ {bidx}
  <2>1. bidx \notin Preds(f, bidx)
    BY <1>2, NoSelfLoop
  <2> QED
    BY <1>3, <1>6, <2>1 DEF Done
<1>8. ASSUME NEW s \in models, NEW u, Prolongs(u, s, L), NEW p \in prevs
      PROVE  /\ Taken(extend_path(bidx, p), u) <=> Taken(extend_path(bidx, p), s)
             /\ Eval(in(p), u) = Eval(in(p), s)
  <2>1. p \in Blocks(f) /\ p \in Done /\ bidx \in Succs(f, p) /\ Op.in[p] \in Registers
    BY <1>3, <1>7 DEF Preds
  <2>2. extend_path(bidx, p).path \in Bits(L) /\ extend_path(bidx, p).exit \in Bits(L)
    BY <1>2, <2>1, EdgeIn
  <2>3. in(p) \in Terms(L)
    BY <1>4, <2>1
  <2> HIDE DEF in
  <2> QED
    BY <1>8, <2>2, <2>3, TakenKept, EvalKept
<1>9. ASSUME NEW s \in models, NEW v \in Value, \A p \in prevs : Taken(extend_path(bidx, p), s) => v = Eval(in(p), s)
      PROVE  Append(s, v) \in models' /\ Prolongs(Append(s, v), s, L)
  <2>1. Append(s, v)[K] = v /\ Prolongs(Append(s, v), s, L)
    BY <1>2, OneMore DEF ModelsIn
  <2>2. \A p \in prevs : Taken(extend_path(bidx, p), Append(s, v)) => Append(s, v)[Fresh] = Eval(in(p), Append(s, v))
    BY <1>2, <1>8, <1>9, <2>1
  <2> DEFINE u == Append(s, v)
  <2>3. u \in {Append(t, w) : t \in models, w \in Value}
    OBVIOUS
  <2> HIDE DEF prevs, in, u
  <2>4. \A p \in prevs : Taken(extend_path(bidx, p), u) => u[Fresh] = Eval(in(p), u)
    BY <2>2 DEF u
  <2>5. u \in models'
    BY <1>1, <2>3, <2>4
  <2> QED
    BY <2>1, <2>5 DEF u
<1>10. ASSUME NEW u \in models'
       PROVE  \E s \in models : Prolongs(u, s, L)
  <2>1. PICK s \in models, v \in Value : u = Append(s, v)
    BY <1>1
  <2>2. s \in [1..L -> Value]
    BY <1>2 DEF ModelsIn
  <2> QED
    BY <2>1, <2>2, OneMore
<1>11. ASSUME NEW s \in models, NEW r \in Outside, Matches(s, r) PROVE \E u \in models' : Prolongs(u, s, L)
  <2>1. r.at # bidx
    BY <1>6, <1>11, OutsideHas
  <2>2. \A p \in prevs : ~Taken(extend_path(bidx, p), s)
    BY <1>2, <1>7, <1>11, <2>1 DEF Matches, SameEdge
  <2> QED
    BY <1>9, <2>2, ValuesAre
<1>12. ASSUME NEW s \in models, NEW r \in Inside, Matches(s, r)
       PROVE  /\ ReadBy(r, Op) \in Value
              /\ \E u \in models' : Prolongs(u, s, L)
              /\ \A u \in models' : Prolongs(u, s, L) => Eval(m'[Op.reg], u) = ReadBy(r, Op)
  <2>1. r \in RunOf(f) /\ r.at = bidx /\ r.from # 0 /\ r.from \in Done /\ bidx \in Succs(f, r.from)
    BY <1>3, <1>6, <1>12, InsideHolds
  <2>2. r.from \in Blocks(f) /\ r.from \in prevs
    BY <1>2, <1>7, <2>1 DEF Preds, RunOf
  <2>3. Op.in[r.from] \in Available(f, r.from, Len(f.block[r.from].ops) + 1) /\ Op.in[r.from] \in Registers
    <3>1. WellFormedOp(f, bidx, pos)
      BY <1>2 DEF WellFormed, Block
    <3> QED
      BY <1>2, <1>3, <2>2, <3>1 DEF WellFormedOp, Op, Block
  <2>4. Eval(in(r.from), s) = r.regs[Op.in[r.from]]
    BY <1>6, <1>12, <2>1, <2>3, KnownBefore
  <2>5. ReadBy(r, Op) = r.regs[Op.in[r.from]]
    BY <1>2 DEF ReadBy
  <2>6. r.regs[Op.in[r.from]] \in Value
    BY <2>1, <2>3 DEF RunOf
  <2>7. \A p \in prevs : Taken(extend_path(bidx, p), s) <=> p = r.from
    BY <1>2, <1>7, <1>12, <2>1 DEF Matches, SameEdge
  <2> DEFINE v == r.regs[Op.in[r.from]]
  <2>8. \A p \in prevs : Taken(extend_path(bidx, p), s) => v = Eval(in(p), s)
    BY <2>4, <2>7
  <2>9. \E u \in models' : Prolongs(u, s, L)
    <3> HIDE DEF v
    <3> QED
      BY <1>9, <2>6, <2>8 DEF v
  <2>10. ASSUME NEW u \in models', Prolongs(u, s, L) PROVE Eval(m'[Op.reg], u) = v
    <3>1. \A p \in prevs : Taken(extend_path(bidx, p), u) => u[Fresh] = Eval(in(p), u)
      BY <1>1
    <3>2. Taken(extend_path(bidx, r.from), u) /\ Eval(in(r.from), u) = Eval(in(r.from), s)
      BY <1>8, <2>2, <2>7, <2>10
    <3>3. u[K] = v
      BY <1>2, <2>2, <2>4, <3>1, <3>2
    <3> QED
      BY <1>5, <3>3 DEF Eval, Name
  <2> QED
    BY <2>5, <2>6, <2>9, <2>10
<1>13. Follow' /\ Closed'
  <2>1. Reads(Op) /\ \A x \in Registers : m'[x] = m[x] \/ (Defines(Op) /\ x = Op.reg)
    BY <1>2, <1>3, <1>5 DEF Reads
  <2> QED
    BY <1>1, <1>2, <1>6, <1>10, <1>11, <1>12, <2>1, ReadFollows
<1>14. Plain'
  <2>1. Name(K).eq = FALSE
    BY DEF Name
  <2> QED
    BY <1>2, <1>5, <2>1, PlainKept
<1> QED
  BY <1>13, <1>14 DEF FollowNext

LEMMA NondetFollows ==
  ASSUME Placed, Closed, Plain, NEW L \in Nat, Typed(L), models # {}, Follow, translateNondet
  PROVE  FollowNext
<1> DEFINE K == L + 1
<1>1. /\ Reading({"nondet"}) /\ m' = [m EXCEPT ![Op.reg] = Name(Fresh)]
      /\ names' = names /\ path_bit' = path_bit /\ assert_path_bits' = assert_path_bits /\ spec_vec' = spec_vec
      /\ models' = {Append(s, v) : s \in models, v \in Value}
  <2>1. Reading({"nondet"}) /\ Insert(Name(Fresh))
    BY DEF translateNondet
  <2> QED
    BY <2>1 DEF translateNondet, Insert
<1>2. /\ f' = f /\ WellFormed(f) /\ bidx \in Blocks(f) /\ pos \in DOMAIN Block.ops /\ Op.op = "nondet"
      /\ NamesIn(L) /\ ModelsIn(models, L) /\ Fresh = K
  BY <1>1, Reader
<1>3. Op.reg \in Registers /\ Defines(Op)
  BY <1>2, OpOf DEF Op, Block, Defines
<1>4. m \in [Registers -> Terms(L)]
  BY <1>2 DEF NamesIn
<1>5. m'[Op.reg] = Name(K) /\ \A x \in Registers : m'[x] = m[x] \/ (Defines(Op) /\ x = Op.reg)
  BY <1>1, <1>2, <1>3, <1>4
<1>6. InStep /\ pos # 0
  BY <1>1, <1>5, SteadyOp
<1>7. ASSUME NEW s \in models, NEW v \in Value
      PROVE  Append(s, v) \in models' /\ Append(s, v)[K] = v /\ Prolongs(Append(s, v), s, L) /\ Goes(Append(s, v), s, L)
  <2>1. Append(s, v)[K] = v /\ Prolongs(Append(s, v), s, L)
    BY <1>2, OneMore DEF ModelsIn
  <2>2. Goes(Append(s, v), s, L)
    BY <1>1, <1>2, <2>1, DimmedKept
  <2> QED
    BY <1>1, <2>1, <2>2
<1>8. ASSUME NEW u \in models' PROVE u[K] \in Value /\ \E s \in models : Goes(u, s, L)
  <2>1. PICK s \in models, v \in Value : u = Append(s, v)
    BY <1>1
  <2>2. Append(s, v)[K] = v /\ Goes(Append(s, v), s, L)
    BY <1>7
  <2> HIDE DEF K
  <2> QED
    BY <2>1, <2>2
<1>9. ASSUME NEW s \in models, NEW r \in Inside, Matches(s, r), NEW u, Prolongs(u, s, L), u[K] \in Value,
             NEW q, q = Set(r, Op, u[K])
      PROVE  q \in Perform(r, Op) /\ Matches(u, q)'
  <2>1. /\ Holds(path_bit[bidx], s) /\ r \in RunOf(f)
        /\ \A x \in Memories : s[names[bidx][x]] = r.mem[x]
    BY <1>6, <1>9, InsideHolds
  <2>2. Kept(f, Op, q, r) /\ q.regs[Op.reg] = u[K] /\ q.mem = r.mem /\ q.met = r.met
    BY <1>3, <1>9, <2>1, SetKept
  <2>3. q \in Perform(r, Op)
    BY <1>2, <1>9, PerformIs
  <2>4. path_bit[bidx] \in Bits(L) /\ path_bit[bidx] \in 1..L
    BY <1>2 DEF NamesIn, Bits
  <2>5. Holds(path_bit'[bidx], u)
    BY <1>1, <1>9, <2>1, <2>4, HoldsKept
  <2>6. \A x \in Memories : u[names'[bidx][x]] = q.mem[x]
    BY <1>1, <1>2, <1>9, <2>1, <2>2, HereKept
  <2>7. "asserted" \in q.met <=> Asserted(u)'
    BY <1>1, <1>2, <1>9, <2>2, <2>4, AssertedKept DEF Matches
  <2>8. Eval(m'[Op.reg], u) = q.regs[Op.reg]
    BY <1>5, <2>2 DEF Eval, Name
  <2>9. SameVerdict(u, q)'
    BY <1>1, <1>2, <1>6, <1>9, <2>2, VerdictHere
  <2>10. Matches(u, q)'
    BY <1>2, <1>5, <1>6, <1>9, <2>2, <2>5, <2>6, <2>7, <2>8, <2>9, InsideMatches
  <2> QED
    BY <2>3, <2>10
<1>10. ASSUME NEW s \in models, NEW r \in Inside, Matches(s, r), NEW q \in Perform(r, Op)
       PROVE  \E u \in models' : Matches(u, q)'
  <2>1. Op.op = "nondet" /\ q \in Perform(r, Op)
    BY <1>2, <1>10
  <2>2. PICK v \in Value : q = Set(r, Op, v)
    BY <2>1 DEF Perform
  <2>3. PICK u \in models' : u[K] = v /\ Prolongs(u, s, L)
    BY <1>7
  <2>4. q = Set(r, Op, u[K])
    BY <2>2, <2>3
  <2> HIDE DEF K
  <2>5. Matches(u, q)'
    BY <1>9, <1>10, <2>3, <2>4
  <2> QED
    BY <2>5
<1>11. Follow' /\ Closed'
  <2>1. \A u \in models' : \E s \in models : Goes(u, s, L)
    BY <1>8
  <2>2. \A s \in models : \E u \in models' : Goes(u, s, L)
    BY <1>7, ValuesAre
  <2>3. \A s \in models : \A r \in Inside : Matches(s, r) =>
           \A u \in models' : Goes(u, s, L) => Stuck(u)' \/ \E q \in Perform(r, Op) : Matches(u, q)'
    <3> SUFFICES ASSUME NEW s \in models, NEW r \in Inside, Matches(s, r), NEW u \in models', Goes(u, s, L)
                 PROVE  \E q \in Perform(r, Op) : Matches(u, q)'
      OBVIOUS
    <3>1. PICK q : q = Set(r, Op, u[K])
      OBVIOUS
    <3>2. q \in Perform(r, Op) /\ Matches(u, q)'
      BY <1>8, <1>9, <3>1 DEF Goes
    <3> QED
      BY <3>2
  <2> QED
    BY <1>2, <1>6, <1>10, <2>1, <2>2, <2>3, OpFollows
<1>12. Plain'
  <2>1. Name(K).eq = FALSE
    BY DEF Name
  <2> QED
    BY <1>2, <1>5, <2>1, PlainKept
<1> QED
  BY <1>11, <1>12 DEF FollowNext

(* The register an operation reads is known in the block. *)
LEMMA OperandKnown ==
  ASSUME Placed, pos # 0, pos \in DOMAIN Block.ops, Closed, NEW L \in Nat, Typed(L),
         Op.op \in {"store", "assume", "assert"}
  PROVE  /\ Op.reg \in Registers /\ ~Defines(Op)
         /\ \A s \in models : \A r \in Inside : Matches(s, r) => Eval(m[Op.reg], s) = r.regs[Op.reg]
<1>1. WellFormed(f) /\ bidx \in Blocks(f)
  BY AtOp
<1>2. Op.reg \in Registers /\ ~Defines(Op)
  BY <1>1, OpOf DEF Op, Block, Defines
<1>3. WellFormedOp(f, bidx, pos)
  BY <1>1 DEF WellFormed, Block
<1>4. Op.reg \in Available(f, bidx, pos)
  BY <1>2, <1>3 DEF WellFormedOp, Op, Block
<1>5. ASSUME NEW s \in models, NEW r \in Inside, Matches(s, r) PROVE Eval(m[Op.reg], s) = r.regs[Op.reg]
  BY <1>4, <1>5, KnownHere
<1> QED
  BY <1>2, <1>5

LEMMA StoreFollows ==
  ASSUME Placed, Closed, Plain, NEW L \in Nat, Typed(L), models # {}, Follow, translateStoreInst
  PROVE  FollowNext
<1> DEFINE K == L + 1
           val == m[Op.reg]
<1>1. /\ Reading({"store"}) /\ m' = m
      /\ names' = [names EXCEPT ![bidx][Op.mem] = Fresh] /\ path_bit' = path_bit
      /\ assert_path_bits' = assert_path_bits /\ spec_vec' = spec_vec
      /\ models' = {Append(s, Eval(val, s)) : s \in models}
  BY DEF translateStoreInst
<1>2. /\ f' = f /\ WellFormed(f) /\ bidx \in Blocks(f) /\ pos \in DOMAIN Block.ops /\ Op.op = "store"
      /\ NamesIn(L) /\ ModelsIn(models, L) /\ Fresh = K
  BY <1>1, Reader
<1>3. pos # 0
  BY <1>1, Zenon DEF Reading
<1>4. Op.mem \in Memories
  BY <1>2, OpOf DEF Op, Block
<1>5. /\ Op.reg \in Registers /\ ~Defines(Op)
      /\ \A s \in models : \A r \in Inside : Matches(s, r) => Eval(val, s) = r.regs[Op.reg]
  BY <1>2, <1>3, OperandKnown
<1>6. /\ names \in [Blocks(f) -> [Memories -> 1..L]]
      /\ names'[bidx] = [names[bidx] EXCEPT ![Op.mem] = K]
      /\ \A b \in Blocks(f) \ {bidx} : names'[b] = names[b]
  BY <1>1, <1>2, <1>4 DEF NamesIn
<1>7. InStep
  <2>1. \A b \in Done : names'[b] = names[b]
    BY <1>2, <1>3, <1>6, AtOp DEF Done
  <2> QED
    BY <1>1, <2>1, SteadyOp
<1>8. ASSUME NEW s \in models
      PROVE  LET u == Append(s, Eval(val, s)) IN
             u \in models' /\ u[K] = Eval(val, s) /\ Prolongs(u, s, L) /\ Goes(u, s, L)
  <2>1. s \in [1..L -> Value] /\ Eval(val, s) \in Value
    BY <1>2, <1>5, EvalIs DEF NamesIn, ModelsIn
  <2> DEFINE u == Append(s, Eval(val, s))
  <2>2. u[K] = Eval(val, s) /\ Prolongs(u, s, L)
    <3> HIDE DEF val
    <3> QED
      BY <2>1, OneMore
  <2>3. u \in models'
    BY <1>1
  <2> HIDE DEF u, val, K
  <2>4. Goes(u, s, L)
    BY <1>1, <1>2, <2>2, DimmedKept
  <2> QED
    BY <2>2, <2>3, <2>4 DEF u
<1>9. ASSUME NEW u \in models' PROVE \E s \in models : Goes(u, s, L) /\ u[K] = Eval(val, s) /\ Prolongs(u, s, L)
  <2>1. PICK s \in models : u = Append(s, Eval(val, s))
    BY <1>1
  <2> HIDE DEF K, val
  <2> QED
    BY <1>8, <2>1
<1>10. ASSUME NEW s \in models, NEW r \in Inside, Matches(s, r), NEW u, Prolongs(u, s, L), u[K] = Eval(val, s)
       PROVE  /\ \E q : q \in Perform(r, Op)
              /\ \A q \in Perform(r, Op) : Matches(u, q)'
  <2>1. /\ Holds(path_bit[bidx], s) /\ r \in RunOf(f)
        /\ \A x \in Memories : s[names[bidx][x]] = r.mem[x]
    BY <1>3, <1>10, InsideHolds
  <2>2. path_bit[bidx] \in Bits(L) /\ path_bit[bidx] \in 1..L
    BY <1>2 DEF NamesIn, Bits
  <2>3. Holds(path_bit'[bidx], u)
    BY <1>1, <1>10, <2>1, <2>2, HoldsKept
  <2>4. \E q : q \in Perform(r, Op)
    BY <1>2, PerformIs
  <2>5. ASSUME NEW q \in Perform(r, Op) PROVE Matches(u, q)'
    <3>1. Kept(f, Op, q, r) /\ q.mem = [r.mem EXCEPT ![Op.mem] = r.regs[Op.reg]] /\ q.met = r.met
      BY <1>2, <1>4, <1>5, <2>1, StoreKept
    <3>2. "asserted" \in q.met <=> Asserted(u)'
      BY <1>1, <1>2, <1>10, <2>2, <3>1, AssertedKept DEF Matches
    <3>3. \A x \in Memories : u[names'[bidx][x]] = q.mem[x]
      <4> SUFFICES ASSUME NEW x \in Memories PROVE u[names'[bidx][x]] = q.mem[x]
        OBVIOUS
      <4>1. r.mem \in [Memories -> Value] /\ names[bidx] \in [Memories -> 1..L]
        BY <1>2, <1>6, <2>1 DEF RunOf
      <4>2. CASE x = Op.mem
        <5>1. names'[bidx][x] = K /\ q.mem[x] = r.regs[Op.reg]
          BY <1>6, <3>1, <4>1, <4>2
        <5>2. Eval(val, s) = r.regs[Op.reg]
          BY <1>5, <1>10
        <5> HIDE DEF K, val
        <5> QED
          BY <1>10, <5>1, <5>2
      <4>3. CASE x # Op.mem
        <5>1. names'[bidx][x] = names[bidx][x] /\ q.mem[x] = r.mem[x]
          BY <1>6, <3>1, <4>1, <4>3
        <5>2. u[names[bidx][x]] = s[names[bidx][x]]
          BY <1>2, <1>10, HereKept
        <5> QED
          BY <2>1, <5>1, <5>2
      <4> QED
        BY <4>2, <4>3
    <3>4. \A x \in Registers : m'[x] = m[x]
      BY <1>1
    <3>5. SameVerdict(u, q)'
      BY <1>1, <1>2, <1>7, <1>10, <3>1, VerdictHere
    <3> HIDE DEF K, val
    <3> QED
      BY <1>2, <1>3, <1>5, <1>7, <1>10, <2>3, <3>1, <3>2, <3>3, <3>4, <3>5, InsideMatches
  <2> QED
    BY <2>4, <2>5
<1>11. Follow' /\ Closed'
  <2>1. \A u \in models' : \E s \in models : Goes(u, s, L)
    BY <1>9
  <2>2. \A s \in models : \E u \in models' : Goes(u, s, L)
    BY <1>8
  <2>3. \A s \in models : \A r \in Inside : Matches(s, r) =>
          \A q \in Perform(r, Op) : \E u \in models' : Matches(u, q)'
    BY <1>8, <1>10
  <2>4. ASSUME NEW s \in models, NEW r \in Inside, Matches(s, r), NEW u \in models', Goes(u, s, L)
        PROVE  \E q \in Perform(r, Op) : Matches(u, q)'
    <3>1. PICK t \in models : u[K] = Eval(val, t) /\ Prolongs(u, t, L)
      BY <1>9
    <3>2. Eval(val, t) = Eval(val, s)
      <4>1. val \in Terms(L)
        BY <1>2, <1>5 DEF NamesIn
      <4> HIDE DEF val
      <4> QED
        BY <2>4, <3>1, <4>1, EvalKept DEF Goes
    <3> HIDE DEF K, val
    <3>3. u[K] = Eval(val, s) /\ Prolongs(u, s, L)
      BY <2>4, <3>1, <3>2 DEF Goes
    <3> QED
      BY <1>10, <2>4, <3>3
  <2> QED
    BY <1>2, <1>3, <1>7, <2>1, <2>2, <2>3, <2>4, OpFollows
<1>12. Plain'
  BY <1>1, <1>2, PlainKept
<1> QED
  BY <1>11, <1>12 DEF FollowNext

(* A model off the path of the block, but on that of a run in it, is stuck. *)
LEMMA StopsHere ==
  ASSUME Placed, pos # 0, Closed, NEW L \in Nat, Typed(L), InStep, NEW r \in Inside,
         NEW s, Matches(s, r), NEW u, Prolongs(u, s, L), ~Holds(path_bit'[bidx], u)
  PROVE  Stuck(u)'
<1>1. RunIn(f, r) /\ r.at = bidx
  BY InsideHas
<1>2. /\ f' = f /\ Made' = Made /\ bidx' = bidx /\ Done' = Done /\ Steady
      /\ \A b \in Done : path_bit'[b] = path_bit[b]
  BY DEF InStep, Steady
<1>3. WellFormed(f) /\ bidx \in Made /\ Made \subseteq Blocks(f) /\ Done = Made \ {bidx} /\ NamesIn(L)
  BY AtOp DEF Done, Typed
<1>4. ASSUME NEW c \in Blocks(f) \ Made, NEW p \in Preds(f, c) \cap Done
      PROVE  ~Taken(extend_path(c, p), u)'
  <2>1. p \in Blocks(f) /\ c \in Succs(f, p)
    BY DEF Preds
  <2>2. ~Taken(extend_path(c, p), s)
    BY <1>1, <1>3 DEF Matches, SameEdge
  <2> QED
    BY <1>2, <1>3, <2>1, <2>2, EdgeKept
<1>5. ASSUME NEW b \in Made, Returns(f, b) PROVE ~Holds(path_bit'[b], u)
  <2>1. CASE b = bidx
    BY <2>1
  <2>2. CASE b # bidx
    <3>1. b \notin r.seen
      BY <1>1, <1>5, <2>2 DEF RunIn
    <3>2. ~Holds(path_bit[b], s)
      BY <3>1 DEF Matches, SameBlocks
    <3>3. path_bit[b] \in Bits(L)
      BY <1>3 DEF NamesIn, Bits
    <3>4. ~Holds(path_bit[b], u)
      BY <3>2, <3>3, HoldsKept
    <3> QED
      BY <1>2, <1>3, <2>2, <3>4
  <2> QED
    BY <2>1, <2>2
<1>6. Made # {}
  BY <1>3
<1>7. /\ (\A c \in Blocks(f) \ Made : \A p \in Preds(f, c) \cap Done : ~Taken(extend_path(c, p), u)')
      /\ \A b \in Made : Returns(f, b) => ~Holds(path_bit'[b], u)
  BY <1>4, <1>5
<1> QED
  BY <1>2, <1>6, <1>7 DEF Stuck, Holds

LEMMA AssumeFollows ==
  ASSUME Placed, Closed, Plain, NEW L \in Nat, Typed(L), models # {}, Follow, assume_to_bmc
  PROVE  FollowNext
<1> DEFINE K == L + 1
           val == m[Op.reg]
           passes(s) == Holds(path_bit[bidx], s) /\ Eval(val, s) # 0
<1>1. /\ Reading({"assume"}) /\ m' = m /\ names' = names
      /\ path_bit' = [path_bit EXCEPT ![bidx] = Fresh]
      /\ assert_path_bits' = assert_path_bits /\ spec_vec' = spec_vec
      /\ models' = {Append(s, Truth(passes(s))) : s \in models}
  BY DEF assume_to_bmc
<1>2. /\ f' = f /\ WellFormed(f) /\ bidx \in Blocks(f) /\ pos \in DOMAIN Block.ops /\ Op.op = "assume"
      /\ NamesIn(L) /\ ModelsIn(models, L) /\ Fresh = K
  BY <1>1, Reader
<1>3. pos # 0
  BY <1>1, Zenon DEF Reading
<1>4. /\ Op.reg \in Registers /\ ~Defines(Op)
      /\ \A s \in models : \A r \in Inside : Matches(s, r) => Eval(val, s) = r.regs[Op.reg]
  BY <1>2, <1>3, OperandKnown
<1>5. path_bit \in [Blocks(f) -> 1..L] /\ path_bit'[bidx] = K /\ \A b \in Blocks(f) \ {bidx} : path_bit'[b] = path_bit[b]
  BY <1>1, <1>2 DEF NamesIn
<1>6. InStep
  <2>1. \A b \in Done : path_bit'[b] = path_bit[b]
    BY <1>2, <1>3, <1>5, AtOp DEF Done
  <2> QED
    BY <1>1, <2>1, SteadyOp
<1>7. path_bit[bidx] \in Bits(L) /\ path_bit[bidx] \in 1..L /\ val \in Terms(L)
  BY <1>2, <1>4 DEF NamesIn, Bits
<1>8. ASSUME NEW s \in models, NEW u, u = Append(s, Truth(passes(s)))
      PROVE  Prolongs(u, s, L) /\ (Holds(path_bit'[bidx], u) <=> passes(s))
  <2>1. s \in [1..L -> Value] /\ Truth(passes(s)) \in Value
    BY <1>2, ValuesAre DEF ModelsIn
  <2>2. u[K] = Truth(passes(s)) /\ Prolongs(u, s, L)
    <3> HIDE DEF passes
    <3> QED
      BY <1>8, <2>1, OneMore
  <2>3. Truth(passes(s)) # 0 <=> passes(s)
    BY DEF Truth
  <2>4. K > 0
    OBVIOUS
  <2> HIDE DEF K, passes
  <2> QED
    BY <1>5, <2>2, <2>3, <2>4 DEF Holds
<1>9. ASSUME NEW u, NEW s \in models, NEW t \in models, Prolongs(u, s, L), Prolongs(u, t, L)
      PROVE  passes(t) <=> passes(s)
  <2> HIDE DEF val
  <2>1. (Holds(path_bit[bidx], t) <=> Holds(path_bit[bidx], s)) /\ Eval(val, t) = Eval(val, s)
    BY <1>7, <1>9, HoldsKept, EvalKept
  <2> QED
    BY <2>1
<1>10. ASSUME NEW s \in models, NEW u \in models', Prolongs(u, s, L)
       PROVE  Holds(path_bit'[bidx], u) <=> passes(s)
  <2>1. PICK t \in models : u = Append(t, Truth(passes(t)))
    BY <1>1
  <2> HIDE DEF passes
  <2> QED
    BY <1>8, <1>9, <1>10, <2>1
<1>11. \A s \in models : \E u \in models' : Goes(u, s, L)
  <2> SUFFICES ASSUME NEW s \in models PROVE \E u \in models' : Goes(u, s, L)
    OBVIOUS
  <2> DEFINE u == Append(s, Truth(passes(s)))
  <2>1. u \in models'
    BY <1>1
  <2>2. Prolongs(u, s, L) /\ (Holds(path_bit'[bidx], u) <=> passes(s))
    <3> HIDE DEF passes
    <3> QED
      BY <1>8
  <2>3. ~Holds(path_bit[bidx], s) => ~passes(s)
    OBVIOUS
  <2> HIDE DEF u, passes
  <2> QED
    BY <2>1, <2>2, <2>3 DEF Goes, Dimmed
<1>12. \A u \in models' : \E s \in models : Goes(u, s, L)
  <2> SUFFICES ASSUME NEW u \in models' PROVE \E s \in models : Goes(u, s, L)
    OBVIOUS
  <2>1. PICK s \in models : u = Append(s, Truth(passes(s)))
    BY <1>1
  <2>2. Prolongs(u, s, L) /\ (Holds(path_bit'[bidx], u) <=> passes(s))
    <3> HIDE DEF passes
    <3> QED
      BY <1>8, <2>1
  <2>3. ~Holds(path_bit[bidx], s) => ~passes(s)
    OBVIOUS
  <2> HIDE DEF passes
  <2> QED
    BY <2>2, <2>3 DEF Goes, Dimmed
<1>13. ASSUME NEW s \in models, NEW r \in Inside, Matches(s, r), NEW u \in models', Prolongs(u, s, L)
       PROVE  /\ r.regs[Op.reg] # 0 => r \in Perform(r, Op)
              /\ r.regs[Op.reg] = 0 => Stuck(u)'
              /\ \A q \in Perform(r, Op) : Matches(u, q)'
  <2>1. /\ Holds(path_bit[bidx], s) /\ r \in RunOf(f)
        /\ \A x \in Memories : s[names[bidx][x]] = r.mem[x]
    BY <1>3, <1>13, InsideHolds
  <2>2. Holds(path_bit'[bidx], u) <=> r.regs[Op.reg] # 0
    <3>1. passes(s) <=> r.regs[Op.reg] # 0
      BY <1>4, <1>13, <2>1
    <3> HIDE DEF passes
    <3> QED
      BY <1>10, <1>13, <3>1
  <2>3. r.regs[Op.reg] # 0 => r \in Perform(r, Op)
    BY <1>2, PerformIs
  <2>4. r.regs[Op.reg] = 0 => Stuck(u)'
    BY <1>3, <1>6, <1>13, <2>2, StopsHere
  <2>5. ASSUME NEW q \in Perform(r, Op) PROVE Matches(u, q)'
    <3>1. Kept(f, Op, q, r) /\ q = r /\ r.regs[Op.reg] # 0
      BY <1>2, <2>1, AssumeKept
    <3>2. "asserted" \in q.met <=> Asserted(u)'
      BY <1>1, <1>2, <1>7, <1>13, <3>1, AssertedKept DEF Matches
    <3>3. \A x \in Memories : u[names'[bidx][x]] = q.mem[x]
      BY <1>1, <1>2, <1>13, <2>1, <3>1, HereKept
    <3>4. \A x \in Registers : m'[x] = m[x]
      BY <1>1
    <3>5. Holds(path_bit'[bidx], u)
      BY <2>2, <3>1
    <3>6. SameVerdict(u, q)'
      BY <1>1, <1>2, <1>6, <1>13, <3>1, VerdictHere
    <3> QED
      BY <1>2, <1>3, <1>4, <1>6, <1>13, <3>1, <3>2, <3>3, <3>4, <3>5, <3>6, InsideMatches
  <2> QED
    BY <2>3, <2>4, <2>5
<1>14. Follow' /\ Closed'
  <2>1. \A s \in models : \A r \in Inside : Matches(s, r) =>
          \A q \in Perform(r, Op) : \E u \in models' : Matches(u, q)'
    BY <1>11, <1>13 DEF Goes
  <2>2. ASSUME NEW s \in models, NEW r \in Inside, Matches(s, r), NEW u \in models', Goes(u, s, L)
        PROVE  Stuck(u)' \/ \E q \in Perform(r, Op) : Matches(u, q)'
    <3>1. r.regs[Op.reg] # 0 \/ r.regs[Op.reg] = 0
      OBVIOUS
    <3> QED
      BY <1>13, <2>2, <3>1 DEF Goes
  <2> QED
    BY <1>2, <1>3, <1>6, <1>11, <1>12, <2>1, <2>2, OpFollows
<1>15. Plain'
  BY <1>1, <1>2, PlainKept
<1> QED
  BY <1>14, <1>15 DEF FollowNext

LEMMA AssertFollows ==
  ASSUME Placed, Closed, Plain, NEW L \in Nat, Typed(L), models # {}, Follow, assert_to_spec
  PROVE  FollowNext
<1> DEFINE spec == [path |-> path_bit[bidx], term |-> m[Op.reg]]
           n == Len(spec_vec)
<1>1. /\ Reading({"assert"}) /\ m' = m /\ names' = names /\ path_bit' = path_bit
      /\ assert_path_bits' = Append(assert_path_bits, path_bit[bidx]) /\ models' = models
      /\ spec_vec' = Append(spec_vec, spec)
  BY DEF assert_to_spec
<1>2. /\ f' = f /\ WellFormed(f) /\ bidx \in Blocks(f) /\ pos \in DOMAIN Block.ops /\ Op.op = "assert"
      /\ NamesIn(L) /\ ModelsIn(models, L)
  BY <1>1, Reader
<1>3. pos # 0
  BY <1>1, Zenon DEF Reading
<1>4. /\ Op.reg \in Registers /\ ~Defines(Op)
      /\ \A s \in models : \A r \in Inside : Matches(s, r) => Eval(m[Op.reg], s) = r.regs[Op.reg]
  BY <1>2, <1>3, OperandKnown
<1>5. InStep
  BY <1>1, SteadyOp
<1>6. path_bit[bidx] \in Bits(L) /\ path_bit[bidx] \in 1..L
  BY <1>2 DEF NamesIn, Bits
<1>7. ASSUME NEW s \in models PROVE Goes(s, s, L) /\ Prolongs(s, s, L)
  <2>1. Prolongs(s, s, L)
    BY DEF Prolongs
  <2> QED
    BY <1>1, <1>2, <2>1, DimmedKept
<1>8. \A i : i \in DOMAIN spec_vec' \ DOMAIN spec_vec <=> i = n + 1
  <2>1. spec_vec \in Seq([path : 1..L, term : Terms(L)]) /\ n \in Nat /\ DOMAIN spec_vec = 1..n
    BY <1>2, LenProperties DEF NamesIn
  <2>2. DOMAIN spec_vec' = 1..(n + 1)
    <3> HIDE DEF spec
    <3> QED
      BY <1>1, <2>1
  <2> HIDE DEF n
  <2> QED
    BY <2>1, <2>2
<1>9. spec_vec'[n + 1] = spec
  <2>1. spec_vec \in Seq([path : 1..L, term : Terms(L)])
    BY <1>2 DEF NamesIn
  <2> HIDE DEF spec
  <2> QED
    BY <1>1, <2>1
<1>10. ASSUME NEW s \in models, NEW r \in Inside, Matches(s, r), NEW u \in models', Prolongs(u, s, L)
      PROVE  /\ \E q : q \in Perform(r, Op)
             /\ \A q \in Perform(r, Op) : Matches(u, q)'
  <2>1. /\ Holds(path_bit[bidx], s) /\ r \in RunOf(f)
        /\ \A x \in Memories : s[names[bidx][x]] = r.mem[x]
    BY <1>3, <1>10, InsideHolds
  <2>2. Holds(path_bit'[bidx], u)
    BY <1>1, <1>6, <1>10, <2>1, HoldsKept
  <2>3. \E q : q \in Perform(r, Op)
    BY <1>2 DEF Perform
  <2>4. ASSUME NEW q \in Perform(r, Op) PROVE Matches(u, q)'
    <3>1. /\ Kept(f, Op, q, r) /\ q.mem = r.mem /\ "asserted" \in q.met
          /\ "bad" \in q.met <=> "bad" \in r.met \/ r.regs[Op.reg] = 0
      BY <1>2, <2>1, AssertKept
    <3>2. Asserted(u)'
      BY <1>1, <1>2, <1>6, <1>10, <2>1, AssertedKept
    <3>3. \A x \in Memories : u[names'[bidx][x]] = q.mem[x]
      BY <1>1, <1>2, <1>10, <2>1, <3>1, HereKept
    <3>4. \A x \in Registers : m'[x] = m[x]
      BY <1>1
    <3>5. SameVerdict(u, q)'
      <4>1. SpecsGrow /\ f' = f /\ Made' = Made /\ SameVerdict(s, r)
        BY <1>5, <1>10 DEF InStep, Steady, Matches
      <4>2. False(spec, u) <=> r.regs[Op.reg] = 0
        <5>1. m[Op.reg] \in Terms(L)
          BY <1>2, <1>4 DEF NamesIn
        <5>2. Eval(m[Op.reg], u) = r.regs[Op.reg]
          BY <1>4, <1>10, <5>1, EvalKept
        <5>3. Holds(path_bit[bidx], u)
          BY <1>1, <2>2 DEF Holds
        <5> QED
          BY <5>2, <5>3 DEF False
      <4>3. Refuted(u)' <=> Refuted(s) \/ False(spec, u)
        <5> HIDE DEF spec, n
        <5>1. Refuted(u)' <=> Refuted(s) \/ \E i \in DOMAIN spec_vec' \ DOMAIN spec_vec : False(spec_vec'[i], u)
          BY <1>2, <1>10, <4>1, RefutedMore
        <5> QED
          BY <1>8, <1>9, <5>1
      <4>4. Claiming' <=> Claiming
        BY <4>1 DEF Claiming
      <4> HIDE DEF spec
      <4> QED
        BY <3>1, <4>1, <4>2, <4>3, <4>4 DEF SameVerdict
    <3> QED
      BY <1>2, <1>3, <1>4, <1>5, <1>10, <2>2, <3>1, <3>2, <3>3, <3>4, <3>5, InsideMatches
  <2> QED
    BY <2>3, <2>4
<1>11. Follow' /\ Closed'
  <2>1. \A s \in models : \A r \in Inside : Matches(s, r) =>
          \A q \in Perform(r, Op) : \E u \in models' : Matches(u, q)'
    BY <1>1, <1>7, <1>10
  <2>2. \A s \in models : \A r \in Inside : Matches(s, r) =>
          \A u \in models' : Goes(u, s, L) => Stuck(u)' \/ \E q \in Perform(r, Op) : Matches(u, q)'
    BY <1>10 DEF Goes
  <2>3. (\A u \in models' : \E s \in models : Goes(u, s, L)) /\ \A s \in models : \E u \in models' : Goes(u, s, L)
    BY <1>1, <1>7
  <2> QED
    BY <1>2, <1>3, <1>5, <2>1, <2>2, <2>3, OpFollows
<1>12. Plain'
  BY <1>1, <1>2, PlainKept
<1> QED
  BY <1>11, <1>12 DEF FollowNext

-----------------------------------------------------------------------------
(***************************************************************************)
(* The end of a block.  The blocks are translated from the highest down.   *)
(***************************************************************************)
Ordered ==
  \A b \in Made : /\ Height(f)[bidx] <= Height(f)[b]
                  /\ \A c \in (UNION {Succs(f, d) : d \in Made}) \ Made : Height(f)[c] <= Height(f)[b]

LEMMA NotZero ==
  ASSUME NEW g, WellFormed(g), NEW b \in Blocks(g)
  PROVE  b # 0
<1>1. Blocks(g) = 1..Len(g.block) /\ Len(g.block) \in Nat
  BY BlocksOf
<1>2. b \in 1..Len(g.block)
  BY <1>1
<1> QED
  BY <1>1, <1>2

LEMMA SuccsAhead ==
  ASSUME Placed, pos # 0, Ordered
  PROVE  Succs(f, bidx) \cap Made = {}
<1>1. WellFormed(f) /\ bidx \in Made /\ Made \subseteq Blocks(f)
  BY AtOp
<1> SUFFICES ASSUME NEW c \in Succs(f, bidx), c \in Made PROVE FALSE
  OBVIOUS
<1>2. Height(f)[c] < Height(f)[bidx] /\ Height(f)[bidx] \in Nat /\ Height(f)[c] \in Nat
  BY <1>1, HeightIs
<1>3. Height(f)[bidx] <= Height(f)[c]
  BY DEF Ordered
<1> DEFINE x == Height(f)[c]
           y == Height(f)[bidx]
<1> HIDE DEF x, y
<1>4. x < y /\ y \in Nat /\ x \in Nat /\ y <= x
  BY <1>2, <1>3 DEF x, y
<1> QED
  BY <1>4

(* What the runs in the block become. *)
Left == UNION {Leave(f, Says(f, r)) : r \in Inside}

LeftNext == {r \in Left : "later" \notin r.met}

LEMMA LeftIs ==
  ASSUME Placed, pos # 0, pos > Len(Block.ops)
  PROVE  \A t : t \in Left <=> \E r \in AtBlocks : Entering(r) /\ t \in Onward(f, r)
<1>1. \A r : Entering(r) => pos - 1 = Len(f.block[r.at].ops)
  <2> SUFFICES ASSUME NEW r, Entering(r) PROVE pos - 1 = Len(f.block[r.at].ops)
    OBVIOUS
  <2>1. f.block[r.at].ops = Block.ops
    BY DEF Entering, Block
  <2> DEFINE n == Len(Block.ops)
  <2>2. n \in Nat /\ pos \in Nat /\ pos > n /\ pos <= n + 1
    BY AtOp DEF Placed
  <2> HIDE DEF n
  <2>3. pos - 1 = n
    BY <2>2
  <2> QED
    BY <2>1, <2>3 DEF n
<1>2. \A q : q \in Inside <=> \E r \in AtBlocks : Entering(r) /\ q \in Body(f, r, Len(f.block[r.at].ops))
  BY <1>1 DEF Inside
<1> QED
  BY <1>2 DEF Left, Onward

(* The specifications that the end of a block adds. *)
Statement(c) ==
  [path |-> TrueBit, term |-> [eq |-> TRUE, left |-> names[bidx][c[1]], right |-> ConstName(c[2])]]

Failure == [path |-> path_bit[bidx], term |-> Name(FalseBit)]

AtEnd == (IF Block.end.kind = "unreachable" THEN {Failure} ELSE {}) \cup {Statement(c) : c \in Block.claim}

Adds(specs) ==
  /\ DOMAIN spec_vec \subseteq DOMAIN spec_vec'
  /\ \A i \in DOMAIN spec_vec : spec_vec'[i] = spec_vec[i]
  /\ \A i \in DOMAIN spec_vec' \ DOMAIN spec_vec : spec_vec'[i] \in specs
  /\ \A e \in specs : \E i \in DOMAIN spec_vec' \ DOMAIN spec_vec : spec_vec'[i] = e

Extends(w, a, b) ==
  /\ DOMAIN a \subseteq DOMAIN w /\ \A i \in DOMAIN a : w[i] = a[i]
  /\ \A i \in DOMAIN w \ DOMAIN a : \E j \in DOMAIN b : w[i] = b[j]
  /\ \A j \in DOMAIN b : \E i \in DOMAIN w \ DOMAIN a : w[i] = b[j]

LEMMA Extended ==
  ASSUME NEW S, NEW a \in Seq(S), NEW b \in Seq(S), NEW w, w = a \o b
  PROVE  w \in Seq(S) /\ Extends(w, a, b)
<1> DEFINE n == Len(a)
           k == Len(b)
<1>1. n \in Nat /\ k \in Nat /\ DOMAIN a = 1..n /\ DOMAIN b = 1..k
  BY LenProperties
<1>2. /\ w \in Seq(S) /\ Len(w) = n + k
      /\ \A i \in 1..(n + k) : w[i] = IF i <= n THEN a[i] ELSE b[i - n]
  BY ConcatProperties
<1>3. DOMAIN w = 1..(n + k)
  BY <1>2, LenProperties
<1> HIDE DEF n, k
<1>4. \A i \in (1..(n + k)) \ (1..n) : i - n \in 1..k /\ w[i] = b[i - n]
  BY <1>1, <1>2
<1>5. \A j \in 1..k : n + j \in (1..(n + k)) \ (1..n) /\ w[n + j] = b[j]
  BY <1>1, <1>2
<1>6. \A i \in 1..n : i \in 1..(n + k) /\ w[i] = a[i]
  BY <1>1, <1>2
<1> QED
  BY <1>1, <1>2, <1>3, <1>4, <1>5, <1>6 DEF Extends

LEMMA AddsAll ==
  ASSUME NEW b, Extends(spec_vec', spec_vec, b), NEW specs,
         \A i \in DOMAIN b : b[i] \in specs, \A e \in specs : \E i \in DOMAIN b : b[i] = e
  PROVE  Adds(specs)
<1> DEFINE w == spec_vec'
           new == DOMAIN w \ DOMAIN spec_vec
<1>1. DOMAIN spec_vec \subseteq DOMAIN w /\ \A i \in DOMAIN spec_vec : w[i] = spec_vec[i]
  BY DEF Extends
<1>2. \A i \in new : \E j \in DOMAIN b : w[i] = b[j]
  BY Zenon DEF Extends
<1>3. \A j \in DOMAIN b : \E i \in new : w[i] = b[j]
  BY Zenon DEF Extends
<1> HIDE DEF new
<1>4. \A i \in new : w[i] \in specs
  BY <1>2, Zenon
<1>5. ASSUME NEW e \in specs PROVE \E i \in new : w[i] = e
  <2>1. PICK j \in DOMAIN b : b[j] = e
    OBVIOUS
  <2>2. PICK i \in new : w[i] = b[j]
    BY <1>3
  <2> QED
    BY <2>1, <2>2
<1> QED
  BY <1>1, <1>4, <1>5 DEF Adds, new

LEMMA ClaimsAre ==
  ASSUME Placed, pos # 0
  PROVE  /\ \A i \in DOMAIN Claims : Claims[i] \in {Statement(c) : c \in Block.claim}
         /\ \A e \in {Statement(c) : c \in Block.claim} : \E i \in DOMAIN Claims : Claims[i] = e
<1> DEFINE S == {Statement(c) : c \in Block.claim}
<1>1. IsFiniteSet(Block.claim)
  BY AtOp DEF WellFormed, Block
<1>2. IsFiniteSet(S)
  <2> DEFINE h == [c \in Block.claim |-> Statement(c)]
  <2>1. h \in Surjection(Block.claim, S)
    BY DEF Surjection
  <2> HIDE DEF h, S
  <2> QED
    BY <1>1, <2>1, FS_Surjection
<1>3. Claims = SetToSeq(S)
  BY DEF Claims, Statement
<1> HIDE DEF S
<1>4. SetToSeq(S) \in Seq(S) /\ \A e \in S : \E i \in DOMAIN SetToSeq(S) : SetToSeq(S)[i] = e
  BY <1>2, Enumerated
<1>5. \A i \in DOMAIN Claims : Claims[i] \in S
  BY <1>3, <1>4, ElementOfSeq, LenProperties
<1> QED
  BY <1>3, <1>4, <1>5 DEF S

States ==
  spec_vec' = (IF Block.end.kind = "unreachable" THEN Append(spec_vec, Failure) ELSE spec_vec) \o Claims

LEMMA EndAdds ==
  ASSUME Placed, pos # 0, NEW L \in Nat, Typed(L),
         States
  PROVE  Adds(AtEnd)
<1> DEFINE T == [path : 1..L, term : Terms(L)]
           all == {Statement(c) : c \in Block.claim}
<1>1. spec_vec \in Seq(T) /\ Claims \in Seq(T)
  BY ClaimsIn DEF Typed, NamesIn
<1>2. /\ \A i \in DOMAIN Claims : Claims[i] \in all
      /\ \A e \in all : \E i \in DOMAIN Claims : Claims[i] = e
  BY ClaimsAre
<1>3. Failure \in T
  <2>1. path_bit[bidx] \in 1..L /\ FalseBit \in 1..L
    BY AtOp, NamesOfConstants DEF Typed, NamesIn
  <2> QED
    BY <2>1 DEF Failure, Name, Terms
<1> HIDE DEF T, all
<1>4. CASE Block.end.kind = "unreachable"
  <2>1. <<Failure>> \in Seq(T) /\ DOMAIN <<Failure>> = {1} /\ <<Failure>>[1] = Failure
    BY <1>3
  <2>2. PICK b : b = <<Failure>> \o Claims
    OBVIOUS
  <2>3. b \in Seq(T) /\ Extends(b, <<Failure>>, Claims)
    BY <1>1, <2>1, <2>2, Extended
  <2>4. spec_vec' = spec_vec \o b
    <3>1. spec_vec' = Append(spec_vec, Failure) \o Claims
      BY <1>4 DEF States
    <3>2. Append(spec_vec, Failure) = spec_vec \o <<Failure>>
      BY <1>1, <1>3, AppendIsConcat
    <3>3. (spec_vec \o <<Failure>>) \o Claims = spec_vec \o (<<Failure>> \o Claims)
      BY <1>1, <2>1, ConcatAssociative
    <3> QED
      BY <2>2, <3>1, <3>2, <3>3, Zenon
  <2>5. Extends(spec_vec', spec_vec, b)
    BY <1>1, <2>3, <2>4, Extended
  <2>6. (\A i \in DOMAIN b : b[i] \in AtEnd) /\ \A e \in AtEnd : \E i \in DOMAIN b : b[i] = e
    <3>1. AtEnd = {Failure} \cup all
      BY <1>4 DEF AtEnd, all
    <3>2. 1 \in DOMAIN b /\ b[1] = Failure
      BY <2>1, <2>3 DEF Extends
    <3>3. ASSUME NEW i \in DOMAIN b PROVE b[i] \in AtEnd
      <4>1. CASE i = 1
        BY <3>1, <3>2, <4>1
      <4>2. CASE i # 1
        <5>1. i \in DOMAIN b \ DOMAIN <<Failure>>
          BY <2>1, <4>2
        <5>2. PICK j \in DOMAIN Claims : b[i] = Claims[j]
          BY <2>3, <5>1, Zenon DEF Extends
        <5> QED
          BY <1>2, <3>1, <5>2
      <4> QED
        BY <4>1, <4>2
    <3>4. ASSUME NEW e \in all PROVE \E i \in DOMAIN b : b[i] = e
      <4>1. PICK j \in DOMAIN Claims : Claims[j] = e
        BY <1>2
      <4>2. \E i \in DOMAIN b \ DOMAIN <<Failure>> : b[i] = Claims[j]
        BY <2>3, Zenon DEF Extends
      <4> QED
        BY <4>1, <4>2
    <3> QED
      BY <3>1, <3>2, <3>3, <3>4
  <2> QED
    BY <2>5, <2>6, AddsAll
<1>5. CASE Block.end.kind # "unreachable"
  <2>1. spec_vec' = spec_vec \o Claims
    BY <1>5 DEF States
  <2>2. AtEnd = all
    BY <1>5 DEF AtEnd, all
  <2>3. Extends(spec_vec', spec_vec, Claims)
    BY <1>1, <2>1, Extended
  <2> QED
    BY <1>2, <2>2, <2>3, AddsAll
<1> QED
  BY <1>4, <1>5

Leaving ==
  /\ pos # 0 /\ pos > Len(Block.ops) /\ pos' = 0 /\ Adds(AtEnd)
  /\ f' = f /\ Made' = Made /\ bidx' = bidx /\ m' = m /\ names' = names /\ path_bit' = path_bit
  /\ assert_path_bits' = assert_path_bits
  /\ \A b \in Done : exit_bits'[b] = exit_bits[b]

LEMMA LeavingIs ==
  ASSUME Placed, Leaving
  PROVE  /\ Steady /\ Done = Made \ {bidx} /\ Done' = Made /\ bidx \in Made /\ Made \subseteq Blocks(f) /\ WellFormed(f)
         /\ bidx \in Blocks(f)
<1>1. Done = Made \ {bidx} /\ Done' = Made
  BY DEF Leaving, Done
<1>2. bidx \in Made /\ Made \subseteq Blocks(f) /\ WellFormed(f) /\ bidx \in Blocks(f)
  BY AtOp DEF Leaving
<1>3. SpecsGrow
  <2>1. \A e \in AtEnd : e.path = path_bit[bidx] \/ Block.claim # {}
    BY DEF AtEnd, Failure
  <2>2. Block.claim # {} => Claiming
    BY <1>2 DEF Claiming, Block
  <2> QED
    BY <2>1, <2>2 DEF SpecsGrow, Leaving, Adds
<1>4. Steady
  BY <1>1, <1>3 DEF Leaving, Steady
<1> QED
  BY <1>1, <1>2, <1>4

LEMMA ClosedLeaving ==
  ASSUME Placed, Leaving, Closed
  PROVE  Closed'
<1>1. f' = f /\ Made' = Made /\ Done' = Made /\ Done \subseteq Made
  BY LeavingIs DEF Leaving
<1>2. \A r \in AllRuns(f) : r.at \in Made => r.seen \subseteq Made
  BY <1>1 DEF Closed
<1> QED
  BY <1>1, <1>2 DEF Closed, AllRuns

(* One that waits after the block, or ends in it, has been in the block. *)
LEMMA OutsideLeaving ==
  ASSUME Placed, Leaving, Closed, Ordered
  PROVE  \A t : t \in Followed' <=> t \in Outside \/ t \in LeftNext
<1>1. /\ f' = f /\ Made' = Made /\ pos # 0 /\ pos' = 0 /\ pos > Len(Block.ops)
      /\ Done = Made \ {bidx} /\ Done' = Made /\ bidx \in Made /\ Made \subseteq Blocks(f) /\ WellFormed(f)
  BY LeavingIs DEF Leaving
<1>2. AtBlocks' = AtBlocks
  BY <1>1 DEF AtBlocks
<1>3. \A t : t \in Followed' <=> /\ t \in AtBlocks
                                 /\ \/ ~t.ended /\ t.at \notin Made /\ t.seen \ {t.at} \subseteq Made
                                    \/ t.ended /\ t.at \in Made
  BY <1>1, <1>2 DEF Followed, Outside, Inside, Waiting, AtTheEnd, Entering
<1>4. \A t : t \in Left <=> \E r \in AtBlocks : Entering(r) /\ t \in Onward(f, r)
  BY <1>1, LeftIs
<1>5. ASSUME NEW t \in Outside PROVE t \in Followed'
  BY <1>1, <1>3 DEF Outside, Waiting, AtTheEnd
<1>6. ASSUME NEW t \in LeftNext PROVE t \in Followed'
  <2>1. PICK r \in AtBlocks : Entering(r) /\ t \in Onward(f, r)
    BY <1>4 DEF LeftNext
  <2>2. r \in AllRuns(f) /\ ~r.ended /\ r.at = bidx
    BY <2>1, AtBlocksAre DEF Entering
  <2>3. RunIn(f, r)
    BY <1>1, <2>2, AllIn
  <2>4. t \in AllRuns(f)
    BY <1>1, <2>1, <2>2, Forwards
  <2>5. t \in AtBlocks
    BY <2>4, AtBlocksAre DEF LeftNext
  <2>6. /\ RunIn(f, t) /\ (t.ended <=> Returns(f, bidx)) /\ (t.ended => t.at = bidx)
        /\ ~t.ended => t.from = bidx /\ t.seen \ {t.at} = r.seen
    BY <1>1, <2>1, <2>2, <2>3, OnwardIs
  <2>7. ~t.ended => t.at \in Succs(f, bidx)
    <3>1. bidx # 0
      BY <1>1, NotZero
    <3> QED
      BY <2>6, <3>1 DEF RunIn
  <2>8. ~t.ended => t.at \notin Made
    BY <1>1, <2>7, SuccsAhead
  <2>9. r.seen \subseteq Made
    BY <1>1, <2>2 DEF Closed
  <2> QED
    BY <1>1, <1>3, <2>5, <2>6, <2>8, <2>9
<1>7. ASSUME NEW t \in AtBlocks, NEW r \in AllRuns(f), ~r.ended, t \in Onward(f, r), r.at = bidx
      PROVE  t \in LeftNext
  <2>1. RunIn(f, r) /\ "later" \notin t.met
    BY <1>1, <1>7, AllIn, AtBlocksAre
  <2>2. "later" \notin r.met
    BY <1>1, <1>7, <2>1, OnwardIs
  <2>3. r \in AtBlocks /\ Entering(r)
    BY <1>1, <1>7, <2>2, AtBlocksAre DEF Entering
  <2> QED
    BY <1>4, <1>7, <2>1, <2>3 DEF LeftNext
<1>8. ASSUME NEW t \in Followed' PROVE t \in Outside \/ t \in LeftNext
  <2>1. t \in AtBlocks /\ t \in AllRuns(f)
    BY <1>3, <1>8, AtBlocksAre
  <2>2. RunIn(f, t)
    BY <1>1, <2>1, AllIn
  <2>3. t \in Starts(f) => ~t.ended /\ t.from = 0
    BY <1>1, StartIn
  <2>4. CASE t.ended /\ t.at \in Made
    <3>1. CASE t.at = bidx
      <4>1. PICK r \in AllRuns(f) : ~r.ended /\ t \in Onward(f, r)
        BY <1>1, <2>1, <2>3, <2>4, Backwards
      <4>2. RunIn(f, r)
        BY <1>1, AllIn
      <4>3. r.at = bidx
        BY <1>1, <2>4, <3>1, <4>1, <4>2, OnwardIs
      <4> QED
        BY <1>7, <2>1, <4>1, <4>3
    <3>2. CASE t.at # bidx
      BY <1>1, <2>1, <2>4, <3>2 DEF Outside, AtTheEnd
    <3> QED
      BY <3>1, <3>2
  <2>5. CASE ~t.ended /\ t.at \notin Made /\ t.seen \ {t.at} \subseteq Made
    <3>1. CASE bidx \notin t.seen
      BY <1>1, <2>1, <2>5, <3>1 DEF Outside, Waiting
    <3>2. CASE bidx \in t.seen
      <4>1. t.from # 0
        BY <1>1, <2>2, <2>5, <3>2 DEF RunIn
      <4>2. PICK r \in AllRuns(f) : ~r.ended /\ t \in Onward(f, r)
        BY <1>1, <2>1, <2>3, <4>1, Backwards
      <4>3. RunIn(f, r)
        BY <1>1, AllIn
      <4>4. t.from = r.at /\ t.seen \ {t.at} = r.seen
        BY <1>1, <2>5, <4>2, <4>3, OnwardIs
      <4>5. bidx \in r.seen /\ r.at \in r.seen /\ r.seen \subseteq Made
        BY <1>1, <2>5, <3>2, <4>3, <4>4 DEF RunIn
      <4>6. r.at = bidx
        BY <1>1, <4>5 DEF Closed
      <4> QED
        BY <1>7, <2>1, <4>2, <4>6
    <3> QED
      BY <3>1, <3>2
  <2> QED
    BY <1>3, <1>8, <2>4, <2>5
<1> QED
  BY <1>5, <1>6, <1>8

(***************************************************************************)
(* In a model of a run in the block, the exit bit of its case holds, and   *)
(* no other; so it takes the edge it knows by that case.                   *)
(***************************************************************************)
Chosen(u, r) ==
  \A i \in DOMAIN Targets(f, bidx) : Holds(exit_bits'[bidx][i], u) <=> i = Case(r, Block.end)

LEMMA EdgesAfter ==
  ASSUME Placed, Leaving, Closed, NEW L \in Nat, Typed(L), NEW r \in Inside, NEW s, Matches(s, r),
         NEW u, Prolongs(u, s, L), Chosen(u, r), NEW c \in Blocks(f) \ Made, NEW p \in Preds(f, c) \cap Made
  PROVE  Taken(extend_path(c, p), u)' <=> p = bidx /\ getSuccessorIndex(f, bidx, c) = Case(r, Block.end)
<1>1. /\ Steady /\ Done = Made \ {bidx} /\ bidx \in Made /\ Made \subseteq Blocks(f) /\ WellFormed(f)
      /\ pos # 0 /\ f' = f /\ path_bit' = path_bit
  BY LeavingIs DEF Leaving
<1>2. r.at = bidx /\ Holds(path_bit[bidx], s)
  BY <1>1, InsideHolds
<1>3. p \in Blocks(f) /\ c \in Succs(f, p) /\ NamesIn(L)
  BY DEF Preds, Typed
<1>4. CASE p = bidx
  <2> DEFINE i == getSuccessorIndex(f, bidx, c)
  <2>1. i \in DOMAIN Targets(f, bidx)
    BY <1>1, <1>3, <1>4, IndexOf
  <2>2. extend_path(c, p)' = [path |-> path_bit[bidx], exit |-> exit_bits'[bidx][i]]
    BY <1>1, <1>4 DEF extend_path
  <2>3. path_bit[bidx] \in Bits(L)
    BY <1>1, <1>3 DEF NamesIn, Bits
  <2>4. Holds(path_bit[bidx], u)
    BY <1>2, <2>3, HoldsKept
  <2> HIDE DEF i
  <2>5. Holds(exit_bits'[bidx][i], u) <=> i = Case(r, Block.end)
    BY <2>1 DEF Chosen
  <2>6. Taken(extend_path(c, p), u)' <=> Holds(path_bit[bidx], u) /\ Holds(exit_bits'[bidx][i], u)
    BY <2>2 DEF Taken, Holds
  <2> QED
    BY <1>4, <2>4, <2>5, <2>6 DEF i
<1>5. CASE p # bidx
  <2>1. p \in Done /\ c \in Blocks(f) \ Done
    BY <1>1, <1>5
  <2>2. ~Taken(extend_path(c, p), s)
    BY <1>1, <1>2, <2>1 DEF Matches, SameEdge
  <2> QED
    BY <1>1, <1>3, <1>5, <2>1, <2>2, EdgeKept
<1> QED
  BY <1>4, <1>5

(* A specification of the end of the block is false where the run fails. *)
FailsHere(r) == Block.end.kind = "unreachable" \/ \E c \in Block.claim : r.mem[c[1]] # c[2]

LEMMA FalseAtEnd ==
  ASSUME Placed, Leaving, Closed, NEW L \in Nat, Typed(L), NEW r \in Inside, NEW s \in models, Matches(s, r),
         NEW u, Prolongs(u, s, L)
  PROVE  (\E e \in AtEnd : False(e, u)) <=> FailsHere(r)
<1>1. WellFormed(f) /\ bidx \in Blocks(f) /\ pos # 0 /\ NamesIn(L) /\ ModelsIn(models, L)
  BY LeavingIs DEF Leaving, Typed
<1>2. Holds(path_bit[bidx], s) /\ \A x \in Memories : s[names[bidx][x]] = r.mem[x]
  BY <1>1, InsideHolds
<1>3. Holds(path_bit[bidx], u)
  <2>1. path_bit[bidx] \in Bits(L)
    BY <1>1, BitsAre DEF NamesIn
  <2> QED
    BY <1>2, <2>1, HoldsKept
<1>4. \A x \in Memories : u[names[bidx][x]] = r.mem[x]
  BY <1>1, <1>2, HereKept
<1>5. \A v \in Value : u[ConstName(v)] = v
  <2>1. \A v \in Value : ConstName(v) \in 1..L
    BY NamesOfConstants DEF Typed
  <2>2. \A v \in Value : s[ConstName(v)] = v
    BY <1>1 DEF ModelsIn
  <2> QED
    BY <2>1, <2>2 DEF Prolongs
<1>6. u[TrueBit] = 1 /\ u[FalseBit] = 0 /\ TrueBit > 0
  BY <1>5, ValuesAre DEF TrueBit, FalseBit, ConstName
<1>7. False(Failure, u)
  <2>1. Eval(Name(FalseBit), u) = 0
    BY <1>6 DEF Eval, Name
  <2> QED
    BY <1>3, <2>1 DEF False, Failure
<1>8. ASSUME NEW c \in Block.claim PROVE False(Statement(c), u) <=> r.mem[c[1]] # c[2]
  <2>1. c[1] \in Memories /\ c[2] \in Value
    BY <1>1 DEF WellFormed, Block
  <2>2. u[names[bidx][c[1]]] = r.mem[c[1]] /\ u[ConstName(c[2])] = c[2]
    BY <1>4, <1>5, <2>1
  <2>3. Holds(TrueBit, u)
    BY <1>6 DEF Holds
  <2>4. Statement(c).path = TrueBit /\ Eval(Statement(c).term, u) = Truth(r.mem[c[1]] = c[2])
    BY <2>2 DEF Statement, Eval
  <2> QED
    BY <2>3, <2>4 DEF False, Truth
<1> QED
  BY <1>7, <1>8 DEF AtEnd, FailsHere

(* What a model and a run in the block share after the block. *)
LEMMA AfterBlock ==
  ASSUME Placed, Leaving, Closed, NEW L \in Nat, Typed(L), NEW r \in Inside, NEW s \in models, Matches(s, r),
         NEW u, Prolongs(u, s, L), NEW t,
         t.seen \cap Made = r.seen, t.init = r.init, t.mem = r.mem, t.regs = r.regs,
         t.at = bidx \/ (t.at \notin Made /\ t.from = bidx),
         "asserted" \in t.met <=> "asserted" \in r.met,
         "bad" \in t.met <=> "bad" \in r.met \/ FailsHere(r),
         SameEdge(u, t)'
  PROVE  Matches(u, t)'
<1>1. /\ Steady /\ Done = Made \ {bidx} /\ Done' = Made /\ bidx \in Made /\ Made \subseteq Blocks(f) /\ WellFormed(f)
      /\ bidx \in Blocks(f)
      /\ pos # 0 /\ f' = f /\ Made' = Made /\ path_bit' = path_bit /\ names' = names /\ m' = m
      /\ assert_path_bits' = assert_path_bits
  BY LeavingIs DEF Leaving
<1>2. /\ RunIn(f, r) /\ \A x \in Memories : s[names[bidx][x]] = r.mem[x]
  BY <1>1, InsideHolds
<1>3. NamesIn(L) /\ path_bit \in [Blocks(f) -> 1..L] /\ m \in [Registers -> Terms(L)]
  BY DEF Typed, NamesIn
<1>4. SameBlocks(u, t)'
  <2> SUFFICES ASSUME NEW b \in Made PROVE Holds(path_bit[b], u) <=> b \in t.seen
    BY <1>1 DEF SameBlocks, Holds
  <2>1. path_bit[b] \in Bits(L)
    BY <1>1, <1>3 DEF Bits
  <2>2. Holds(path_bit[b], u) <=> Holds(path_bit[b], s)
    BY <2>1, HoldsKept
  <2>3. Holds(path_bit[b], s) <=> b \in r.seen
    BY DEF Matches, SameBlocks
  <2> QED
    BY <2>2, <2>3
<1>5. SameMemory(u, t)'
  <2>1. bidx # 0
    BY <1>1, NotZero
  <2>2. (IF t.at \in Made \/ t.from = 0 THEN t.at ELSE t.from) = bidx
    BY <1>1, <2>1
  <2> SUFFICES ASSUME NEW x \in Memories
               PROVE  u[InitialNames[x]] = t.init[x] /\ u[names[bidx][x]] = t.mem[x]
    BY <1>1, <2>2 DEF SameMemory, MemoryAt
  <2>3. s[InitialNames[x]] = r.init[x]
    BY DEF Matches, SameMemory
  <2>4. InitialNames[x] \in 1..L
    <3>1. L >= MaxValue + 1 + Cardinality(Memories)
      BY DEF Typed
    <3> QED
      BY <3>1, NamesOfConstants
  <2>5. u[InitialNames[x]] = s[InitialNames[x]]
    BY <2>4 DEF Prolongs
  <2>6. u[names[bidx][x]] = s[names[bidx][x]]
    BY <1>1, <1>3, HereKept
  <2> QED
    BY <1>2, <2>3, <2>5, <2>6
<1>6. SameRegisters(u, t)'
  <2> SUFFICES ASSUME NEW b \in t.seen \cap Made, NEW i \in DOMAIN f.block[b].ops, Defines(f.block[b].ops[i])
               PROVE  Eval(m[f.block[b].ops[i].reg], u) = t.regs[f.block[b].ops[i].reg]
    BY <1>1 DEF SameRegisters, OpsDone
  <2> DEFINE x == f.block[b].ops[i].reg
  <2>1. b \in Blocks(f) /\ b \in r.seen /\ x \in Registers
    BY <1>1, OpOf
  <2>2. i \in OpsDone(b)
    <3>1. CASE b \in Done
      BY <3>1 DEF OpsDone
    <3>2. CASE b \notin Done
      <4> DEFINE n == Len(Block.ops)
      <4>1. b = bidx
        BY <1>1, <3>2
      <4>2. DOMAIN f.block[b].ops = 1..n /\ n \in Nat /\ pos > n /\ pos \in Nat
        BY <1>1, <4>1, AtOp DEF Block, Leaving, Placed
      <4> HIDE DEF n
      <4>3. i \in 1..(pos - 1)
        BY <4>2
      <4> QED
        BY <3>2, <4>3 DEF OpsDone
    <3> QED
      BY <3>1, <3>2
  <2>3. Eval(m[x], s) = r.regs[x]
    BY <2>1, <2>2 DEF Matches, SameRegisters
  <2> HIDE DEF x
  <2>4. m[x] \in Terms(L)
    BY <1>3, <2>1
  <2>5. Eval(m[x], u) = Eval(m[x], s)
    BY <2>4, EvalKept
  <2>6. Eval(m[x], u) = t.regs[x]
    BY <2>3, <2>5
  <2> QED
    BY <2>6 DEF x
<1>7. "asserted" \in t.met <=> Asserted(u)'
  <2>1. path_bit[bidx] \in 1..L
    BY <1>1, <1>3
  <2>2. Asserted(u)' <=> Asserted(s)
    BY <1>1, <1>3, <2>1, AssertedKept
  <2> QED
    BY <2>2 DEF Matches
<1>8. SameVerdict(u, t)'
  <2>1. SpecsGrow /\ Adds(AtEnd)
    BY <1>1 DEF Steady, Leaving
  <2>2. (\E i \in DOMAIN spec_vec' \ DOMAIN spec_vec : False(spec_vec'[i], u)) <=> \E e \in AtEnd : False(e, u)
    BY <2>1 DEF Adds
  <2>3. Refuted(u)' <=> Refuted(s) \/ FailsHere(r)
    <3>1. Refuted(u)' <=> Refuted(s) \/ \E i \in DOMAIN spec_vec' \ DOMAIN spec_vec : False(spec_vec'[i], u)
      BY <1>3, <2>1, RefutedMore DEF Typed
    <3>2. (\E e \in AtEnd : False(e, u)) <=> FailsHere(r)
      BY FalseAtEnd
    <3> QED
      BY <2>2, <3>1, <3>2
  <2>4. Claiming' <=> Claiming
    BY <1>1 DEF Claiming
  <2>5. SameVerdict(s, r)
    BY DEF Matches
  <2> QED
    BY <2>3, <2>4, <2>5 DEF SameVerdict
<1> QED
  BY <1>4, <1>5, <1>6, <1>7, <1>8, Zenon DEF Matches

(* Where the case of the run is the one the edge is known by, there are    *)
(* both or neither; everywhere else the model is stuck.                    *)
LEMMA LeftMatches ==
  ASSUME Placed, Leaving, Closed, Ordered, NEW L \in Nat, Typed(L), NEW r \in Inside, NEW s \in models, Matches(s, r),
         NEW u, Prolongs(u, s, L), Chosen(u, r), NEW t \in Leave(f, Says(f, r)), "later" \notin t.met
  PROVE  Matches(u, t)'
<1>1. /\ Done' = Made /\ bidx \in Made /\ Made \subseteq Blocks(f) /\ WellFormed(f)
      /\ bidx \in Blocks(f) /\ pos # 0 /\ f' = f /\ Made' = Made
  BY LeavingIs DEF Leaving
<1>2. RunIn(f, r) /\ r.at = bidx /\ r.seen \subseteq Made
  <2>1. RunIn(f, r) /\ r.at = bidx /\ r.seen \ {bidx} \subseteq Done
    BY <1>1, InsideHas
  <2> QED
    BY <1>1, <2>1 DEF Done
<1> DEFINE w == Says(f, r)
<1>3. /\ RunIn(f, w) /\ w \in RunOf(f) /\ w.at = bidx /\ w.seen = r.seen /\ w.init = r.init
      /\ w.mem = r.mem /\ w.regs = r.regs
      /\ r.met \subseteq w.met /\ w.met \subseteq r.met \cup {"bad"}
      /\ "bad" \in w.met <=> "bad" \in r.met \/ \E c \in Block.claim : r.mem[c[1]] # c[2]
  <2>1. /\ RunIn(f, w) /\ Same(w, r) /\ w.mem = r.mem /\ w.regs = r.regs
        /\ r.met \subseteq w.met /\ w.met \subseteq r.met \cup {"bad"}
        /\ "bad" \in w.met <=> "bad" \in r.met \/ \E c \in Block.claim : r.mem[c[1]] # c[2]
    BY <1>2, SaysIs DEF Block
  <2> HIDE DEF w
  <2> QED
    BY <1>2, <2>1 DEF Same, RunIn
<1>4. Case(w, Block.end) = Case(r, Block.end)
  BY <1>3 DEF Case
<1>5. t \in Leave(f, w)
  OBVIOUS
<1> HIDE DEF w
<1>6. CASE Returns(f, bidx)
  <2>1. /\ Ended(t, w)
        /\ "bad" \in t.met <=> "bad" \in w.met \/ Block.end.kind = "unreachable"
    BY <1>3, <1>5, <1>6, EndIs DEF Block
  <2>2. "bad" \in t.met <=> "bad" \in r.met \/ FailsHere(r)
    BY <1>3, <2>1 DEF FailsHere
  <2>3. /\ t.at = bidx /\ t.seen = r.seen /\ t.init = r.init /\ t.mem = r.mem /\ t.regs = r.regs
        /\ r.met \subseteq t.met /\ t.met \subseteq r.met \cup {"bad"}
    BY <1>3, <2>1 DEF Ended
  <2>4. "asserted" \in t.met <=> "asserted" \in r.met
    BY <2>3
  <2>5. SameEdge(u, t)'
    <3> SUFFICES ASSUME NEW c \in Blocks(f) \ Made, NEW p \in Preds(f, c) \cap Made
                 PROVE  Taken(extend_path(c, p), u)' <=> t.at = c /\ t.from = p
      BY <1>1 DEF SameEdge
    <3>1. p # bidx
      <4>1. Len(f.block[bidx].end.to) = 0 /\ DOMAIN f.block[bidx].end.to = 1..Len(f.block[bidx].end.to)
        BY <1>1, <1>6, EndOf DEF Returns
      <4>2. DOMAIN f.block[bidx].end.to = {}
        BY <4>1
      <4> QED
        BY <4>2 DEF Preds, Succs, Targets, Range
    <3>2. ~Taken(extend_path(c, p), u)'
      BY <3>1, EdgesAfter
    <3> QED
      BY <1>1, <2>3, <3>2
  <2>6. t.seen \cap Made = r.seen
    BY <1>2, <2>3
  <2> QED
    BY <2>3, <2>4, <2>5, <2>6, <2>2, AfterBlock
<1>7. CASE ~Returns(f, bidx)
  <2> DEFINE i == Case(r, Block.end)
             e == Block.end.to[i]
  <2>1. /\ <<bidx, e>> \in f.back => Leave(f, w) = {}
        /\ <<bidx, e>> \notin f.back =>
             /\ \A q \in Leave(f, w) : q \in RunOf(f) /\ Moved(f, q, w, i)
             /\ e \in Succs(f, bidx)
    <3>1. Block.end = f.block[w.at].end
      BY <1>3 DEF Block
    <3> QED
      BY <1>1, <1>3, <1>4, <1>7, <3>1, LeaveIs
  <2>2. Moved(f, t, w, i) /\ e \in Succs(f, bidx)
    <3> HIDE DEF i, e
    <3> QED
      BY <1>5, <2>1
  <2>3. /\ t.at = e /\ t.from = bidx /\ t.init = w.init /\ t.seen = w.seen \cup {e} /\ t.mem = w.mem /\ t.regs = w.regs
        /\ w.met \subseteq t.met /\ t.met \subseteq w.met \cup {"later"}
        /\ i = getSuccessorIndex(f, bidx, e)
    BY <1>3, <2>2 DEF Moved, Block
  <2>4. e \notin Made
    BY <1>1, <2>2, SuccsAhead
  <2> HIDE DEF e, i
  <2>5. "asserted" \in t.met <=> "asserted" \in r.met
    BY <1>3, <2>3
  <2>6. SameEdge(u, t)'
    <3> SUFFICES ASSUME NEW c \in Blocks(f) \ Made, NEW p \in Preds(f, c) \cap Made
                 PROVE  Taken(extend_path(c, p), u)' <=> t.at = c /\ t.from = p
      BY <1>1 DEF SameEdge
    <3>1. Taken(extend_path(c, p), u)' <=> p = bidx /\ getSuccessorIndex(f, bidx, c) = i
      BY EdgesAfter DEF i
    <3>2. ASSUME p = bidx, getSuccessorIndex(f, bidx, c) = i PROVE c = e
      <4>1. c \in Succs(f, bidx)
        BY <3>2 DEF Preds
      <4>2. Targets(f, bidx)[i] = c /\ Targets(f, bidx)[i] = e
        <5>1. \A x \in Succs(f, bidx) : Targets(f, bidx)[getSuccessorIndex(f, bidx, x)] = x
          BY <1>1, IndexOf
        <5> QED
          BY <2>2, <2>3, <3>2, <4>1, <5>1
      <4> QED
        BY <4>2
    <3> QED
      BY <2>3, <3>1, <3>2
  <2>7. t.seen \cap Made = r.seen /\ t.init = r.init /\ t.mem = r.mem /\ t.regs = r.regs
    BY <1>2, <1>3, <2>3, <2>4
  <2>8. t.at \notin Made /\ t.from = bidx
    BY <2>3, <2>4
  <2>9. "bad" \in t.met <=> "bad" \in r.met \/ FailsHere(r)
    <3>1. Block.end.kind # "unreachable"
      BY <1>7 DEF Returns, Block
    <3>2. "bad" \in t.met <=> "bad" \in w.met
      BY <2>3
    <3> QED
      BY <1>3, <3>1, <3>2 DEF FailsHere
  <2> QED
    BY <2>5, <2>6, <2>7, <2>8, <2>9, AfterBlock
<1> QED
  BY <1>6, <1>7

LEMMA LostOrLeft ==
  ASSUME Placed, Leaving, Closed, Ordered, NEW L \in Nat, Typed(L), NEW r \in Inside, NEW s, Matches(s, r),
         NEW u, Prolongs(u, s, L), Chosen(u, r)
  PROVE  Stuck(u)' \/ \E t \in Leave(f, Says(f, r)) : "later" \notin t.met
<1>1. /\ Done' = Made /\ bidx \in Made /\ Made \subseteq Blocks(f) /\ WellFormed(f) /\ Done = Made \ {bidx}
      /\ bidx \in Blocks(f) /\ pos # 0 /\ pos' = 0 /\ f' = f /\ Made' = Made /\ path_bit' = path_bit
  BY LeavingIs DEF Leaving
<1>2. RunIn(f, r) /\ r.at = bidx /\ "later" \notin r.met
  BY <1>1, InsideHas
<1> DEFINE w == Says(f, r)
<1>3. RunIn(f, w) /\ w \in RunOf(f) /\ w.at = bidx /\ w.regs = r.regs /\ w.met \subseteq r.met \cup {"bad"}
  <2>1. RunIn(f, w) /\ Same(w, r) /\ w.regs = r.regs /\ w.met \subseteq r.met \cup {"bad"}
    BY <1>2, SaysIs
  <2> HIDE DEF w
  <2> QED
    BY <1>2, <2>1 DEF Same, RunIn
<1>4. Case(w, Block.end) = Case(r, Block.end)
  BY <1>3 DEF Case
<1> HIDE DEF w
<1>5. CASE Returns(f, bidx)
  <2>1. \E t : t \in Leave(f, w)
    BY <1>3, <1>5 DEF Leave, Returns
  <2>2. PICK t \in Leave(f, w) : TRUE
    BY <2>1
  <2>3. "later" \notin t.met
    <3>1. Ended(t, w)
      BY <1>3, <1>5, EndIs
    <3> QED
      BY <1>2, <1>3, <3>1 DEF Ended
  <2> QED
    BY <2>2, <2>3 DEF w
<1>6. CASE ~Returns(f, bidx)
  <2> DEFINE i == Case(r, Block.end)
             e == Block.end.to[i]
  <2>1. /\ <<bidx, e>> \in f.back => Leave(f, w) = {}
        /\ <<bidx, e>> \notin f.back =>
             /\ \E q : q \in Leave(f, w)
             /\ \A q \in Leave(f, w) : q \in RunOf(f) /\ Moved(f, q, w, i)
             /\ e \in Succs(f, bidx)
    <3>1. Block.end = f.block[w.at].end
      BY <1>3 DEF Block
    <3> QED
      BY <1>1, <1>3, <1>4, <1>6, <3>1, LeaveIs
  <2>2. CASE <<bidx, e>> \notin f.back /\ i = getSuccessorIndex(f, bidx, e)
    <3> HIDE DEF i, e
    <3>1. PICK t \in Leave(f, w) : Moved(f, t, w, i)
      BY <2>1, <2>2
    <3>2. "later" \notin t.met
      BY <1>2, <1>3, <2>2, <3>1 DEF Moved, e, Block
    <3> QED
      BY <3>1, <3>2 DEF w
  <2>3. CASE <<bidx, e>> \in f.back \/ i # getSuccessorIndex(f, bidx, e)
    <3>1. ASSUME NEW c \in Blocks(f) \ Made, NEW p \in Preds(f, c) \cap Made
          PROVE  ~Taken(extend_path(c, p), u)'
      <4>1. Taken(extend_path(c, p), u)' <=> p = bidx /\ getSuccessorIndex(f, bidx, c) = i
        BY EdgesAfter
      <4>2. ASSUME p = bidx, getSuccessorIndex(f, bidx, c) = i PROVE FALSE
        <5>1. c \in Succs(f, bidx)
          BY <4>2 DEF Preds
        <5>2. Targets(f, bidx)[i] = c
          <6>1. \A x \in Succs(f, bidx) : Targets(f, bidx)[getSuccessorIndex(f, bidx, x)] = x
            BY <1>1, IndexOf
          <6> HIDE DEF i
          <6> QED
            BY <4>2, <5>1, <6>1
        <5>3. e = c
          BY <5>2 DEF Targets, Block
        <5>4. <<bidx, c>> \notin f.back
          BY <5>1 DEF Succs
        <5> HIDE DEF e, i
        <5> QED
          BY <2>3, <4>2, <5>3, <5>4
      <4> QED
        BY <4>1, <4>2
    <3>2. ASSUME NEW b \in Made, Returns(f, b) PROVE ~Holds(path_bit[b], u)
      <4>1. b \notin r.seen
        BY <1>2, <1>6, <3>2 DEF RunIn
      <4>2. ~Holds(path_bit[b], s)
        BY <4>1 DEF Matches, SameBlocks
      <4>3. path_bit[b] \in Bits(L)
        BY <1>1 DEF Typed, NamesIn, Bits
      <4> QED
        BY <4>2, <4>3, HoldsKept
    <3>3. Stuck(u)'
      <4>1. Made # {}
        BY <1>1
      <4>2. (\A c \in Blocks(f) \ Made : \A p \in Preds(f, c) \cap Made : ~Taken(extend_path(c, p), u)')
            /\ \A b \in Made : Returns(f, b) => ~Holds(path_bit[b], u)
        BY <3>1, <3>2
      <4> QED
        BY <1>1, <4>1, <4>2 DEF Stuck, Holds
    <3> QED
      BY <3>3
  <2> QED
    BY <2>2, <2>3
<1> QED
  BY <1>5, <1>6

(* The runs followed after the end of a block. *)
LEMMA EndFollows ==
  ASSUME Placed, Leaving, Closed, Ordered, Plain, NEW L \in Nat, Typed(L), Follow,
         \A s \in models : \E u \in models' : Prolongs(u, s, L),
         \A u \in models' : \E s \in models : Prolongs(u, s, L),
         \A r \in Inside : \A s \in models : Matches(s, r) =>
           \A u \in models' : Prolongs(u, s, L) => Chosen(u, r)
  PROVE  FollowNext /\ Ordered'
<1>1. Steady /\ pos # 0 /\ f' = f /\ m' = m /\ path_bit' = path_bit /\ Made' = Made /\ bidx' = bidx /\ bidx \in Blocks(f)
  BY LeavingIs DEF Leaving
<1>2. Closed' /\ Plain' /\ Ordered'
  <2>1. Plain'
    BY <1>1, PlainKept
  <2>2. Ordered'
    BY <1>1 DEF Ordered
  <2> QED
    BY <2>1, <2>2, ClosedLeaving
<1>3. \A t : t \in Followed' <=> t \in Outside \/ t \in LeftNext
  BY OutsideLeaving
<1>4. \A s, u : Prolongs(u, s, L) => Dimmed(u, s)
  BY <1>1, DimmedKept DEF Typed, Goes
<1>5. ASSUME NEW s \in models, NEW r \in Inside, Matches(s, r), NEW u \in models', Prolongs(u, s, L)
      PROVE  /\ Stuck(u)' \/ \E t \in Leave(f, Says(f, r)) : "later" \notin t.met
             /\ \A t \in Leave(f, Says(f, r)) : "later" \notin t.met => Matches(u, t)'
  <2>1. Chosen(u, r)
    BY <1>5
  <2> QED
    BY <1>5, <2>1, LeftMatches, LostOrLeft
<1>6. ASSUME NEW t \in Followed' PROVE \E u \in models' : Matches(u, t)'
  <2>1. CASE t \in Outside
    <3>1. PICK s \in models : Matches(s, t)
      BY <2>1 DEF Follow, Followed
    <3>2. PICK u \in models' : Prolongs(u, s, L)
      OBVIOUS
    <3>3. Matches(u, t)'
      BY <1>1, <1>4, <2>1, <3>1, <3>2, OutsideStays
    <3> QED
      BY <3>3
  <2>2. CASE t \in LeftNext
    <3>1. PICK r \in Inside : t \in Leave(f, Says(f, r))
      BY <2>2 DEF LeftNext, Left
    <3>2. PICK s \in models : Matches(s, r)
      BY DEF Follow, Followed
    <3>3. PICK u \in models' : Prolongs(u, s, L)
      OBVIOUS
    <3>4. Matches(u, t)'
      BY <1>5, <2>2, <3>1, <3>2, <3>3 DEF LeftNext
    <3> QED
      BY <3>4
  <2> QED
    BY <1>3, <1>6, <2>1, <2>2
<1>7. ASSUME NEW u \in models' PROVE Stuck(u)' \/ \E t \in Followed' : Matches(u, t)'
  <2>1. PICK s \in models : Prolongs(u, s, L)
    OBVIOUS
  <2>2. CASE Stuck(s)
    BY <1>1, <1>4, <2>1, <2>2, StuckStays
  <2>3. ASSUME NEW r \in Outside, Matches(s, r) PROVE \E t \in Followed' : Matches(u, t)'
    <3>1. Matches(u, r)'
      BY <1>1, <1>4, <2>1, <2>3, OutsideStays
    <3> QED
      BY <1>3, <3>1
  <2>4. ASSUME NEW r \in Inside, Matches(s, r) PROVE Stuck(u)' \/ \E t \in Followed' : Matches(u, t)'
    <3>1. \A t \in Leave(f, Says(f, r)) : "later" \notin t.met => t \in Followed' /\ Matches(u, t)'
      BY <1>3, <1>5, <2>1, <2>4 DEF LeftNext, Left
    <3> QED
      BY <1>5, <2>1, <2>4, <3>1
  <2> QED
    BY <2>1, <2>2, <2>3, <2>4 DEF Follow, Followed
<1> QED
  BY <1>2, <1>6, <1>7 DEF FollowNext, Follow

LEMMA EndStates ==
  ASSUME translateBranch \/ translateSwitchInst \/ translateRetInst \/ translateUnreachableInst
  PROVE  States
<1>1. CASE translateUnreachableInst
  <2>1. spec_vec' = Append(spec_vec, Failure) \o Claims /\ Block.end.kind \in {"unreachable"}
    BY <1>1, Zenon DEF translateUnreachableInst, Ending, Failure
  <2> QED
    BY <2>1 DEF States
<1>2. CASE translateBranch \/ translateSwitchInst \/ translateRetInst
  <2>1. /\ spec_vec' = spec_vec \o Claims
        /\ Block.end.kind \in {"br", "cond"} \/ Block.end.kind \in {"switch"} \/ Block.end.kind \in {"ret"}
    BY <1>2, Zenon DEF translateBranch, translateSwitchInst, translateRetInst, Ending
  <2> QED
    BY <2>1 DEF States
<1> QED
  BY <1>1, <1>2

LEMMA EndingLeaves ==
  ASSUME Placed, NEW L \in Nat, Typed(L), models # {}, NEW kinds, Ending(kinds),
         NEW bits, exit_bits' = [exit_bits EXCEPT ![bidx] = bits], States
  PROVE  /\ Leaving /\ pos # 0 /\ exit_bits'[bidx] = bits /\ Block.end.kind \in kinds /\ WellFormed(f) /\ bidx \in Blocks(f)
         /\ NamesIn(L) /\ ModelsIn(models, L) /\ Fresh = L + 1
         /\ Targets(f, bidx) = Block.end.to
<1>1. /\ f' = f /\ m' = m /\ names' = names /\ path_bit' = path_bit
      /\ assert_path_bits' = assert_path_bits /\ bidx' = bidx /\ Made' = Made
      /\ Done = Made \ {bidx} /\ pos' = 0 /\ pos # 0
      /\ Made \subseteq Blocks(f) /\ bidx \in Blocks(f) /\ NamesIn(L) /\ ModelsIn(models, L) /\ Fresh = L + 1
      /\ Block.end.kind \in kinds /\ WellFormed(f)
  BY Ender
<1>2. pos > Len(Block.ops)
  BY Zenon DEF Ending
<1>3. exit_bits'[bidx] = bits /\ \A b \in Done : exit_bits'[b] = exit_bits[b]
  BY <1>1 DEF NamesIn
<1>4. Targets(f, bidx) = Block.end.to
  BY DEF Targets, Block
<1>5. Adds(AtEnd)
  BY <1>1, EndAdds
<1> QED
  BY <1>1, <1>2, <1>3, <1>4, <1>5 DEF Leaving

(* The register the case depends on is known at the end of the block. *)
LEMMA CaseKnown ==
  ASSUME Placed, pos # 0, pos > Len(Block.ops), Closed, NEW L \in Nat, Typed(L),
         Block.end.kind \in {"cond", "switch"}
  PROVE  /\ Block.end.reg \in Registers
         /\ \A s \in models : \A r \in Inside : Matches(s, r) => Eval(m[Block.end.reg], s) = r.regs[Block.end.reg]
<1>1. WellFormed(f) /\ bidx \in Blocks(f)
  BY AtOp
<1> DEFINE e == Block.end
           n == Len(Block.ops)
<1>2. pos = n + 1
  <2>1. n \in Nat /\ pos \in Nat /\ pos > n /\ pos <= n + 1
    BY AtOp DEF Placed
  <2> HIDE DEF n
  <2> QED
    BY <2>1
<1>3. e.reg \in Available(f, bidx, n + 1)
  BY <1>1 DEF WellFormed, WellFormedEnd, Block
<1>4. e.reg \in Registers
  BY <1>1, EndOf DEF Block
<1>5. e.reg \in Available(f, bidx, pos)
  BY <1>2, <1>3
<1>6. ASSUME NEW s \in models, NEW r \in Inside, Matches(s, r) PROVE Eval(m[e.reg], s) = r.regs[e.reg]
  <2> HIDE DEF e, n
  <2> QED
    BY <1>5, <1>6, KnownHere
<1> QED
  BY <1>4, <1>6

NoMore(L) == /\ \A s \in models : \E u \in models' : Prolongs(u, s, L)
             /\ \A u \in models' : \E s \in models : Prolongs(u, s, L)

LEMMA ReturnFollows ==
  ASSUME Placed, Closed, Ordered, Plain, NEW L \in Nat, Typed(L), models # {}, Follow,
         translateRetInst \/ translateUnreachableInst
  PROVE  FollowNext /\ Ordered'
<1>1. /\ Ending({"ret"}) \/ Ending({"unreachable"})
      /\ exit_bits' = [exit_bits EXCEPT ![bidx] = <<>>] /\ models' = models
  BY DEF translateRetInst, translateUnreachableInst, Exits
<1>2. /\ Leaving /\ WellFormed(f) /\ bidx \in Blocks(f) /\ Targets(f, bidx) = Block.end.to
      /\ Block.end.kind \in {"ret", "unreachable"}
  <2>1. CASE Ending({"ret"})
    BY <1>1, <2>1, EndStates, EndingLeaves
  <2>2. CASE Ending({"unreachable"})
    BY <1>1, <2>2, EndStates, EndingLeaves
  <2> QED
    BY <1>1, <2>1, <2>2
<1>3. DOMAIN Targets(f, bidx) = {}
  <2>1. Len(Block.end.to) = 0 /\ DOMAIN Block.end.to = 1..Len(Block.end.to)
    BY <1>2, EndOf DEF Block
  <2> QED
    BY <1>2, <2>1
<1>4. NoMore(L)
  BY <1>1 DEF NoMore, Prolongs
<1>5. \A u, r : Chosen(u, r)
  BY <1>3 DEF Chosen
<1> QED
  BY <1>2, <1>4, <1>5, EndFollows DEF NoMore

LEMMA BranchFollows ==
  ASSUME Placed, Closed, Ordered, Plain, NEW L \in Nat, Typed(L), models # {}, Follow, translateBranch
  PROVE  FollowNext /\ Ordered'
<1> DEFINE e == Block.end
           K == L + 1
<1>1. /\ Ending({"br", "cond"})
      /\ e.kind = "br" => exit_bits' = [exit_bits EXCEPT ![bidx] = <<TrueBit>>] /\ models' = models
      /\ e.kind # "br" => /\ exit_bits' = [exit_bits EXCEPT ![bidx] = <<Fresh, -Fresh>>]
                          /\ models' = {Append(s, Truth(Eval(m[e.reg], s) # 0)) : s \in models}
  BY DEF translateBranch, Exits
<1>2. CASE e.kind = "br"
  <2>1. /\ Leaving /\ WellFormed(f) /\ bidx \in Blocks(f) /\ Targets(f, bidx) = e.to
        /\ exit_bits'[bidx] = <<TrueBit>> /\ ModelsIn(models, L)
    BY <1>1, <1>2, EndStates, EndingLeaves
  <2>2. DOMAIN Targets(f, bidx) = {1}
    <3>1. Len(e.to) = 1 /\ DOMAIN e.to = 1..Len(e.to)
      BY <1>2, <2>1, EndOf DEF Block
    <3> HIDE DEF e
    <3> QED
      BY <2>1, <3>1
  <2>3. NoMore(L)
    BY <1>1, <1>2 DEF NoMore, Prolongs
  <2>4. ASSUME NEW u \in models' PROVE Holds(TrueBit, u)
    <3>1. u[ConstName(1)] = 1
      BY <1>1, <1>2, <2>1, ValuesAre DEF ModelsIn
    <3>2. ConstName(1) > 0
      BY DEF ConstName
    <3> QED
      BY <3>1, <3>2 DEF Holds, TrueBit
  <2>5. \A u \in models' : \A r : Chosen(u, r)
    <3> SUFFICES ASSUME NEW u \in models', NEW r, NEW i \in {1}
                 PROVE  Holds(exit_bits'[bidx][i], u) <=> i = Case(r, e)
      BY <2>2 DEF Chosen
    <3>1. exit_bits'[bidx][i] = TrueBit /\ Case(r, e) = 1
      BY <1>2, <2>1 DEF Case
    <3> QED
      BY <2>4, <3>1
  <2> QED
    BY <2>1, <2>3, <2>5, EndFollows DEF NoMore
<1>3. CASE e.kind # "br"
  <2>1. /\ Leaving /\ pos # 0 /\ WellFormed(f) /\ bidx \in Blocks(f) /\ Targets(f, bidx) = e.to /\ e.kind \in {"br", "cond"}
        /\ exit_bits'[bidx] = <<Fresh, -Fresh>> /\ ModelsIn(models, L) /\ Fresh = K
    BY <1>1, <1>3, EndStates, EndingLeaves
  <2>2. e.kind = "cond" /\ pos > Len(Block.ops)
    BY <1>3, <2>1 DEF Leaving
  <2>3. DOMAIN Targets(f, bidx) = {1, 2}
    <3>1. Len(e.to) = 2 /\ DOMAIN e.to = 1..Len(e.to)
      BY <2>1, <2>2, EndOf DEF Block
    <3> HIDE DEF e
    <3> QED
      BY <2>1, <3>1
  <2>4. /\ e.reg \in Registers
        /\ \A s \in models : \A r \in Inside : Matches(s, r) => Eval(m[e.reg], s) = r.regs[e.reg]
    BY <2>1, <2>2, CaseKnown
  <2>5. m[e.reg] \in Terms(L)
    BY <2>4 DEF Typed, NamesIn
  <2> DEFINE bit(s) == Eval(m[e.reg], s) # 0
  <2>6. ASSUME NEW s \in models, NEW u, u = Append(s, Truth(bit(s)))
        PROVE  Prolongs(u, s, L) /\ (u[K] # 0 <=> bit(s))
    <3>1. s \in [1..L -> Value] /\ Truth(bit(s)) \in Value
      BY <2>1, ValuesAre DEF ModelsIn
    <3>2. u[K] = Truth(bit(s)) /\ Prolongs(u, s, L)
      <4> HIDE DEF bit
      <4> QED
        BY <2>6, <3>1, OneMore
    <3> QED
      BY <3>2 DEF Truth
  <2>7. NoMore(L)
    <3> HIDE DEF K
    <3> QED
      BY <1>1, <1>3, <2>6 DEF NoMore
  <2>8. ASSUME NEW s \in models, NEW r \in Inside, Matches(s, r), NEW u \in models', Prolongs(u, s, L)
        PROVE  Chosen(u, r)
    <3>1. PICK t \in models : u = Append(t, Truth(bit(t)))
      BY <1>1, <1>3
    <3>2. Prolongs(u, t, L) /\ (u[K] # 0 <=> bit(t))
      BY <2>6, <3>1
    <3>3. Eval(m[e.reg], t) = Eval(m[e.reg], s)
      <4> HIDE DEF e
      <4> QED
        BY <2>5, <2>8, <3>2, EvalKept
    <3>4. u[K] # 0 <=> r.regs[e.reg] # 0
      BY <2>4, <2>8, <3>2, <3>3
    <3>5. Case(r, e) = IF r.regs[e.reg] # 0 THEN 1 ELSE 2
      BY <2>2 DEF Case
    <3> HIDE DEF e
    <3> SUFFICES ASSUME NEW i \in {1, 2} PROVE Holds(exit_bits'[bidx][i], u) <=> i = Case(r, e)
      BY <2>3 DEF Chosen, e
    <3>6. K > 0 /\ ~(-K > 0) /\ -(-K) = K
      OBVIOUS
    <3>7. CASE i = 1
      <4>1. exit_bits'[bidx][i] = K
        BY <2>1, <3>7
      <4> HIDE DEF K
      <4> QED
        BY <3>4, <3>5, <3>6, <3>7, <4>1 DEF Holds
    <3>8. CASE i = 2
      <4>1. exit_bits'[bidx][i] = -K
        BY <2>1, <3>8
      <4>2. Holds(-K, u) <=> u[K] = 0
        <5> HIDE DEF K
        <5> QED
          BY <3>6 DEF Holds
      <4> HIDE DEF K
      <4> QED
        BY <3>4, <3>5, <3>8, <4>1, <4>2
    <3> QED
      BY <3>7, <3>8
  <2> QED
    BY <2>1, <2>7, <2>8, EndFollows DEF NoMore
<1> QED
  BY <1>2, <1>3

(* The case a switch takes is the one whose bit the pass makes true. *)
Fits(r, e, i) == IF i = 1 THEN \A j \in 2..Len(e.to) : e.val[j] # r.regs[e.reg] ELSE e.val[i] = r.regs[e.reg]

LEMMA SwitchCase ==
  ASSUME NEW g, WellFormed(g), NEW b \in Blocks(g), NEW e, e = g.block[b].end, e.kind = "switch", NEW r,
         NEW i \in 1..Len(e.to)
  PROVE  i = Case(r, e) <=> Fits(r, e, i)
<1> DEFINE n == Len(e.to)
           v == r.regs[e.reg]
           Found == \E j \in 2..n : e.val[j] = v
<1>1. n \in Nat /\ \A k, j \in 2..n : e.val[k] = e.val[j] => k = j
  <2>1. WellFormedEnd(g, b)
    BY DEF WellFormed
  <2> QED
    BY <2>1, EndOf DEF WellFormedEnd
<1>2. Case(r, e) = IF Found THEN CHOOSE j \in 2..n : e.val[j] = v ELSE 1
  BY DEF Case
<1> SUFFICES i = Case(r, e) <=> IF i = 1 THEN \A j \in 2..n : e.val[j] # v ELSE e.val[i] = v
  BY DEF Fits
<1>0. i \in 1..n
  OBVIOUS
<1> HIDE DEF n, v
<1>3. CASE Found
  <2>1. Case(r, e) \in 2..n /\ e.val[Case(r, e)] = v
    BY <1>2, <1>3
  <2>2. i # 1 => i \in 2..n
    BY <1>0, <1>1
  <2>3. 1 \notin 2..n
    OBVIOUS
  <2> QED
    BY <1>1, <2>1, <2>2, <2>3
<1>4. CASE ~Found
  <2>1. Case(r, e) = 1
    BY <1>2, <1>4
  <2>2. i # 1 => i \in 2..n
    BY <1>0, <1>1
  <2> QED
    BY <1>4, <2>1, <2>2
<1> QED
  BY <1>3, <1>4

LEMMA SwitchFollows ==
  ASSUME Placed, Closed, Ordered, Plain, NEW L \in Nat, Typed(L), models # {}, Follow, translateSwitchInst
  PROVE  FollowNext /\ Ordered'
<1> DEFINE e == Block.end
           n == Len(e.to)
           Is(i, t) == Eval(m[e.reg], t) = e.val[i]
           Values(t) == [i \in 1..n |-> Truth(IF i = 1 THEN \A j \in 2..n : ~Is(j, t) ELSE Is(i, t))]
           K == L + 1
           bits == IF n = 2 THEN <<Fresh, -Fresh>> ELSE [i \in 1..n |-> Fresh + i - 1]
           Longer(t) == IF n = 2 THEN Append(t, Values(t)[1]) ELSE t \o Values(t)
<1>1. /\ Ending({"switch"}) /\ exit_bits' = [exit_bits EXCEPT ![bidx] = bits]
      /\ models' = {Longer(t) : t \in models}
  <2>1. CASE n = 2
    <3>1. /\ Ending({"switch"}) /\ Exits(<<Fresh, -Fresh>>)
          /\ models' = {Append(t, Values(t)[1]) : t \in models}
      BY <2>1 DEF translateSwitchInst
    <3> HIDE DEF n, Values
    <3> QED
      BY <2>1, <3>1 DEF Exits
  <2>2. CASE n # 2
    <3>1. /\ Ending({"switch"}) /\ Exits([i \in 1..n |-> Fresh + i - 1])
          /\ models' = {t \o Values(t) : t \in models}
      BY <2>2 DEF translateSwitchInst
    <3> HIDE DEF n, Values
    <3> QED
      BY <2>2, <3>1 DEF Exits
  <2> QED
    BY <2>1, <2>2
<1>2. /\ Leaving /\ pos # 0 /\ exit_bits'[bidx] = bits /\ e.kind = "switch" /\ WellFormed(f) /\ bidx \in Blocks(f)
      /\ NamesIn(L) /\ ModelsIn(models, L) /\ Fresh = K /\ Targets(f, bidx) = e.to
  <2>1. Leaving /\ pos # 0 /\ exit_bits'[bidx] = bits /\ Block.end.kind \in {"switch"} /\ WellFormed(f) /\ bidx \in Blocks(f)
    BY <1>1, EndStates, EndingLeaves
  <2>2. NamesIn(L) /\ ModelsIn(models, L) /\ Fresh = L + 1 /\ Targets(f, bidx) = Block.end.to
    BY <1>1, EndStates, EndingLeaves
  <2> QED
    BY <2>1, <2>2
<1>3. n \in Nat /\ n # 0 /\ DOMAIN e.to = 1..n
  BY <1>2, EndOf DEF Block
<1>4. /\ e.reg \in Registers
      /\ \A s \in models : \A r \in Inside : Matches(s, r) => Eval(m[e.reg], s) = r.regs[e.reg]
  <2>1. pos # 0 /\ pos > Len(Block.ops) /\ Block.end.kind \in {"cond", "switch"}
    BY <1>2 DEF Leaving
  <2> QED
    BY <2>1, CaseKnown
<1>5. m[e.reg] \in Terms(L)
  BY <1>2, <1>4 DEF NamesIn
<1>6. \A t \in models : t \in [1..L -> Value] /\ Values(t) \in [1..n -> Value]
  <2> SUFFICES ASSUME NEW t \in models PROVE t \in [1..L -> Value] /\ Values(t) \in [1..n -> Value]
    OBVIOUS
  <2>1. \A i \in 1..n : Truth(IF i = 1 THEN \A j \in 2..n : ~Is(j, t) ELSE Is(i, t)) \in Value
    <3> HIDE DEF n, Is
    <3> QED
      BY ValuesAre
  <2> HIDE DEF n, Is
  <2> QED
    BY <1>2, <2>1 DEF ModelsIn
(* What the names of the exits are in the model. *)
<1> DEFINE True(i, t) == IF i = 1 THEN \A j \in 2..n : ~Is(j, t) ELSE Is(i, t)
<1>7. ASSUME NEW t \in models, NEW u, u = Longer(t), NEW i \in 1..n
      PROVE  Prolongs(u, t, L) /\ (Holds(bits[i], u) <=> True(i, t))
  <2>0. \A j \in 1..n : Values(t)[j] = Truth(True(j, t))
    <3> HIDE DEF n, Is
    <3> QED
      OBVIOUS
  <2>1. CASE n = 2
    <3>1. u = Append(t, Values(t)[1]) /\ bits = <<K, -K>>
      BY <1>2, <1>7, <2>1
    <3>2. Values(t)[1] \in Value /\ Values(t)[1] = Truth(True(1, t))
      <4>1. 1 \in 1..n
        BY <1>3
      <4> HIDE DEF Values, n, True
      <4> QED
        BY <1>6, <2>0, <4>1
    <3>3. u[K] = Truth(True(1, t)) /\ Prolongs(u, t, L)
      <4> HIDE DEF Values, True
      <4> QED
        BY <1>6, <3>1, <3>2, OneMore
    <3>4. u[K] # 0 <=> True(1, t)
      <4> HIDE DEF True
      <4> QED
        BY <3>3 DEF Truth
    <3>5. True(2, t) <=> ~True(1, t)
      <4>1. 2..n = {2}
        <5> HIDE DEF n
        <5> QED
          BY <2>1
      <4> HIDE DEF Is, n
      <4> QED
        BY <4>1
    <3>6. K > 0 /\ ~(-K > 0) /\ -(-K) = K
      OBVIOUS
    <3>7. i = 1 \/ i = 2
      <4> HIDE DEF n
      <4> QED
        BY <2>1
    <3> HIDE DEF K, True, bits
    <3>8. CASE i = 1
      BY <3>1, <3>3, <3>4, <3>6, <3>8 DEF Holds
    <3>9. CASE i = 2
      <4>1. bits[i] = -K
        BY <3>1, <3>9
      <4>2. Holds(-K, u) <=> u[K] = 0
        BY <3>6 DEF Holds
      <4> QED
        BY <3>3, <3>4, <3>5, <3>9, <4>1, <4>2
    <3> QED
      BY <3>7, <3>8, <3>9
  <2>2. CASE n # 2
    <3>1. u = t \o Values(t) /\ bits = [j \in 1..n |-> Fresh + j - 1]
      BY <1>7, <2>2
    <3>2. u[L + i] = Values(t)[i] /\ Prolongs(u, t, L)
      <4> HIDE DEF Values, n
      <4> QED
        BY <1>3, <1>6, <3>1, SomeMore
    <3>3. bits[i] = L + i /\ L + i > 0
      <4> HIDE DEF bits, n
      <4> QED
        BY <1>2, <1>3, <3>1
    <3>4. u[L + i] = Truth(True(i, t))
      <4> HIDE DEF Values, n, True
      <4> QED
        BY <2>0, <3>2
    <3> HIDE DEF bits, n, True, Longer
    <3> QED
      BY <3>2, <3>3, <3>4 DEF Holds, Truth
  <2> QED
    BY <2>1, <2>2
<1>8. NoMore(L)
  <2>1. 1 \in 1..n
    BY <1>3
  <2>2. \A t \in models : Prolongs(Longer(t), t, L)
    <3> HIDE DEF Longer, bits, True, n
    <3> QED
      BY <1>7, <2>1
  <2> HIDE DEF Longer
  <2> QED
    BY <1>1, <2>2 DEF NoMore
<1>9. ASSUME NEW s \in models, NEW r \in Inside, Matches(s, r), NEW u \in models', Prolongs(u, s, L)
      PROVE  Chosen(u, r)
  <2> SUFFICES ASSUME NEW i \in 1..n PROVE Holds(exit_bits'[bidx][i], u) <=> i = Case(r, e)
    BY <1>2, <1>3 DEF Chosen
  <2>1. PICK t \in models : u = Longer(t)
    <3> HIDE DEF Longer
    <3> QED
      BY <1>1
  <2>2. Prolongs(u, t, L) /\ (Holds(bits[i], u) <=> True(i, t))
    <3> HIDE DEF Longer, bits, True, n
    <3> QED
      BY <1>7, <2>1
  <2>3. Eval(m[e.reg], t) = Eval(m[e.reg], s)
    <3> HIDE DEF e, Longer
    <3> QED
      BY <1>5, <1>9, <2>2, EvalKept
  <2>4. Eval(m[e.reg], t) = r.regs[e.reg]
    BY <1>4, <1>9, <2>3
  <2>5. True(i, t) <=> Fits(r, e, i)
    <3> HIDE DEF e
    <3> QED
      BY <2>4 DEF Fits
  <2>6. i = Case(r, e) <=> Fits(r, e, i)
    <3>1. f.block[bidx].end.kind = "switch" /\ bidx \in Blocks(f) /\ WellFormed(f)
      BY <1>2 DEF Block
    <3>2. e = f.block[bidx].end
      BY DEF Block
    <3>3. e.kind = "switch"
      BY <1>2
    <3> HIDE DEF e
    <3> QED
      BY <3>1, <3>2, <3>3, SwitchCase
  <2> HIDE DEF bits, True, n, e, Longer
  <2> QED
    BY <1>2, <2>2, <2>5, <2>6
<1> HIDE DEF n, e, bits, Longer, True
<1> QED
  BY <1>2, <1>8, <1>9, EndFollows DEF NoMore

-----------------------------------------------------------------------------
(***************************************************************************)
(* The beginning of a block.  Blocks come by height, the highest first: a  *)
(* run that is at the next one has been in no block that is still to come. *)
(***************************************************************************)
Starting(b) ==
  /\ pos = 0 /\ pos' = 1 /\ f' = f /\ m' = m /\ exit_bits' = exit_bits
  /\ assert_path_bits' = assert_path_bits /\ spec_vec' = spec_vec
  /\ Made' = Made \cup {b} /\ bidx' = b /\ Done = Made /\ Done' = Made
  /\ \A c \in Made : names'[c] = names[c] /\ path_bit'[c] = path_bit[c]

LEMMA BehindNext ==
  ASSUME Placed, NEW b \in NextBlocks, NEW r \in AllRuns(f), r.at = b
  PROVE  r.seen \ {b} \subseteq Made
<1>1. /\ WellFormed(f) /\ Made \subseteq Blocks(f) /\ b \in Blocks(f)
      /\ (bb_vec = <<>> => b = 1 /\ Made = {}) /\ (bb_vec # <<>> => b # 1 /\ 1 \in Made)
  BY NextIs
<1>2. RunIn(f, r)
  BY <1>1, AllIn
<1>3. \A p \in Blocks(f) : Succs(f, p) \subseteq Blocks(f) \ {1}
  BY <1>1, BlocksOf
<1>4. CASE r.from = 0
  BY <1>2, <1>4 DEF RunIn
<1>5. CASE r.from # 0
  <2>1. r.from \in Blocks(f) /\ b \in Succs(f, r.from) /\ Passed(f, r.seen \ {b})
    BY <1>2, <1>5 DEF RunIn, RunOf
  <2>2. b # 1 /\ bb_vec # <<>> /\ 1 \in Made
    BY <1>1, <1>3, <2>1
  <2> DEFINE D == (UNION {Succs(f, c) : c \in Made}) \ Made
  <2>3. D \subseteq Blocks(f) /\ \A p \in Made : Succs(f, p) \subseteq Made \cup D
    BY <1>1, <1>3
  <2>4. \A c \in D : Height(f)[b] >= Height(f)[c]
    BY <2>2 DEF NextBlocks
  <2>5. D \cap (r.seen \ {b}) # {} \/ r.seen \ {b} \subseteq Made
    <3> HIDE DEF D
    <3>1. Made \in SUBSET Blocks(f) /\ D \in SUBSET Blocks(f) /\ 1 \in Made \cup D
      BY <1>1, <2>2, <2>3
    <3>2. \A S, T \in SUBSET Blocks(f) :
            1 \in S \cup T /\ (\A p \in S : Succs(f, p) \subseteq S \cup T)
              => T \cap (r.seen \ {b}) # {} \/ r.seen \ {b} \subseteq S
      BY <2>1, Zenon DEF Passed
    <3> QED
      BY <2>3, <3>1, <3>2, Zenon
  <2>6. ASSUME NEW c \in D, c \in r.seen \ {b} PROVE FALSE
    <3>1. Height(f)[b] < Height(f)[c]
      BY <1>2, <2>6 DEF RunIn
    <3>2. Height(f)[b] >= Height(f)[c] /\ c \in Blocks(f)
      BY <2>3, <2>4, <2>6
    <3>3. Height(f) \in [Blocks(f) -> 1..Len(f.block)]
      BY <1>1, HeightIs
    <3> DEFINE x == Height(f)[b]
               y == Height(f)[c]
    <3>4. x \in 1..Len(f.block) /\ y \in 1..Len(f.block)
      BY <1>1, <3>2, <3>3
    <3>5. x < y /\ x >= y
      BY <3>1, <3>2
    <3> HIDE DEF x, y
    <3> QED
      BY <3>4, <3>5
  <2> QED
    BY <2>5, <2>6
<1> QED
  BY <1>4, <1>5

LEMMA StartingIs ==
  ASSUME Placed, NEW b \in NextBlocks, Starting(b)
  PROVE  /\ WellFormed(f) /\ Made \subseteq Blocks(f) /\ b \in Blocks(f) /\ b \notin Made /\ b # 0
         /\ \A r \in AllRuns(f) : RunIn(f, r) /\ (r.at = b => r.seen \ {b} \subseteq Made)
<1>1. WellFormed(f) /\ Made \subseteq Blocks(f) /\ b \in Blocks(f) /\ b \notin Made
  BY NextIs
<1> QED
  BY <1>1, NotZero, AllIn, BehindNext

LEMMA ClosedStarting ==
  ASSUME Placed, Closed, NEW b \in NextBlocks, Starting(b)
  PROVE  Closed'
<1>1. /\ f' = f /\ Made' = Made \cup {b} /\ Done = Made /\ Done' = Made
      /\ \A r \in AllRuns(f) : r.at = b => r.seen \ {b} \subseteq Made
  BY StartingIs DEF Starting
<1>2. \A r \in AllRuns(f) : r.at \in Made => r.seen \subseteq Made
  BY <1>1 DEF Closed
<1> QED
  BY <1>1, <1>2 DEF Closed, AllRuns

LEMMA OrderedStarting ==
  ASSUME Placed, Ordered, NEW b \in NextBlocks, Starting(b)
  PROVE  Ordered'
<1> DEFINE H == Height(f)
           Ahead(M) == (UNION {Succs(f, d) : d \in M}) \ M
<1>1. /\ WellFormed(f) /\ Made \subseteq Blocks(f) /\ b \in Blocks(f) /\ b \notin Made
      /\ f' = f /\ Made' = Made \cup {b} /\ bidx' = b
  BY StartingIs DEF Starting
<1>2. /\ H \in [Blocks(f) -> 1..Len(f.block)] /\ \A c \in Succs(f, b) : c \in Blocks(f) /\ H[c] < H[b]
  BY <1>1, HeightIs, BlocksOf
<1>3. Made = {} \/ b \in Ahead(Made)
  BY NextIs DEF NextBlocks
<1>4. \A c \in Ahead(Made) : H[b] >= H[c]
  BY NextIs DEF NextBlocks
<1>5. \A d \in Made : \A c \in Ahead(Made) : H[c] <= H[d]
  BY DEF Ordered
<1>6. \A c \in Ahead(Made \cup {b}) : c \in Ahead(Made) \/ c \in Succs(f, b)
  OBVIOUS
<1>7. \A c \in Ahead(Made) : c \in Blocks(f)
  BY <1>1, BlocksOf
<1>8. ASSUME NEW d \in Made \cup {b} PROVE H[b] <= H[d] /\ \A c \in Ahead(Made \cup {b}) : H[c] <= H[d]
  <2>1. d \in Blocks(f) /\ H[b] \in Nat /\ H[d] \in Nat /\ \A c \in Blocks(f) : H[c] \in Nat
    BY <1>1, <1>2
  <2>2. H[b] <= H[d]
    <3>1. CASE d = b
      BY <2>1, <3>1
    <3>2. CASE d \in Made
      BY <1>3, <1>5, <3>2
    <3> QED
      BY <3>1, <3>2
  <2>3. ASSUME NEW c \in Ahead(Made \cup {b}) PROVE H[c] <= H[d]
    <3>1. c \in Blocks(f) /\ (H[c] < H[b] \/ H[b] >= H[c])
      BY <1>2, <1>4, <1>6, <1>7, <2>3
    <3> DEFINE x == H[c]
               y == H[b]
               z == H[d]
    <3>2. x \in Nat /\ y \in Nat /\ z \in Nat /\ y <= z /\ (x < y \/ y >= x)
      BY <2>1, <2>2, <3>1
    <3> HIDE DEF x, y, z
    <3> QED
      BY <3>2 DEF x, z
  <2> QED
    BY <2>2, <2>3
<1>9. Ordered' <=> \A d \in Made' : H[bidx'] <= H[d] /\ \A c \in Ahead(Made') : H[c] <= H[d]
  BY <1>1 DEF Ordered
<1> HIDE DEF H, Ahead
<1> QED
  BY <1>1, <1>8, <1>9

(* The runs followed are the same: those at b have been waiting for it. *)
LEMMA FollowedStarting ==
  ASSUME Placed, Closed, NEW b \in NextBlocks, Starting(b)
  PROVE  \A t : t \in Followed' <=> t \in Followed
<1>1. /\ f' = f /\ Made' = Made \cup {b} /\ Done = Made /\ Done' = Made /\ pos = 0 /\ pos' = 1 /\ bidx' = b
      /\ WellFormed(f) /\ b \in Blocks(f) /\ b \notin Made
      /\ \A r \in AllRuns(f) : RunIn(f, r) /\ (r.at = b => r.seen \ {b} \subseteq Made)
  BY StartingIs DEF Starting
<1>2. AtBlocks' = AtBlocks /\ AtBlocks \subseteq AllRuns(f)
  BY <1>1, AtBlocksAre DEF AtBlocks
<1>3. \A r \in AtBlocks : Body(f, r, 0) = {r}
  <2> SUFFICES ASSUME NEW r \in AtBlocks PROVE Body(f, r, 0) = {r}
    OBVIOUS
  <2>1. r.at \in Blocks(f)
    BY <1>1, <1>2 DEF RunIn, RunOf
  <2> QED
    BY <1>1, <2>1, BodyIs
<1>4. \A t : t \in Followed <=> /\ t \in AtBlocks
                                /\ \/ ~t.ended /\ t.at \notin Made /\ t.seen \ {t.at} \subseteq Made
                                   \/ t.ended /\ t.at \in Made
  BY <1>1 DEF Followed, Outside, Inside, Waiting, AtTheEnd, Entering
<1>5. Inside' = UNION {Body(f, r, 0) : r \in {r \in AtBlocks : ~r.ended /\ r.at = b}}
  BY <1>1, <1>2 DEF Inside, Entering
<1>6. \A t : t \in Inside' <=> t \in AtBlocks /\ ~t.ended /\ t.at = b
  <2>1. \A t : t \in Inside' <=> \E r \in AtBlocks : ~r.ended /\ r.at = b /\ t \in Body(f, r, 0)
    BY <1>5
  <2> QED
    BY <1>3, <2>1
<1>7. \A t : t \in Outside' <=> /\ t \in AtBlocks
                                /\ \/ ~t.ended /\ t.at \notin Made \cup {b} /\ t.seen \ {t.at} \subseteq Made
                                   \/ t.ended /\ t.at \in Made
  BY <1>1, <1>2 DEF Outside, Waiting, AtTheEnd
<1>8. \A t : t \in Followed' <=> t \in Outside' \/ t \in Inside'
  BY DEF Followed
<1> QED
  BY <1>1, <1>2, <1>4, <1>6, <1>7, <1>8

LEMMA StartedEdge ==
  ASSUME NEW L \in Nat, NamesIn(L), Placed, NEW b, Starting(b), NEW p \in Done, p \in Blocks(f), NEW c \in Succs(f, p),
         NEW s, NEW u, Prolongs(u, s, L)
  PROVE  Taken(extend_path(c, p), u)' <=> Taken(extend_path(c, p), s)
<1> DEFINE e == extend_path(c, p)
<1>1. extend_path(c, p)' = e
  BY DEF extend_path, Starting
<1>2. e.path \in Bits(L) /\ e.exit \in Bits(L)
  BY EdgeIn
<1> HIDE DEF e
<1>3. Taken(e, u) <=> Taken(e, s)
  BY <1>2, TakenKept
<1>4. Taken(extend_path(c, p), u)' <=> Taken(e, u)
  BY <1>1 DEF Taken, Holds
<1> QED
  BY <1>3, <1>4 DEF e

LEMMA StartedAsserted ==
  ASSUME NEW L \in Nat, NamesIn(L), NEW s, NEW u, Prolongs(u, s, L), assert_path_bits' = assert_path_bits
  PROVE  Asserted(u)' <=> Asserted(s)
<1> DEFINE v == assert_path_bits
<1>1. \A i \in DOMAIN v : v[i] \in Bits(L)
  <2>1. v \in Seq(1..L)
    BY DEF NamesIn
  <2> QED
    BY <2>1, ElementOfSeq, LenProperties DEF Bits
<1>2. \A i \in DOMAIN v : Holds(v[i], u) <=> Holds(v[i], s)
  BY <1>1, HoldsKept
<1> QED
  BY <1>2 DEF Asserted, Holds

(* A model that agrees with the run on the path bit and on the memory of b. *)
LEMMA StartedMatches ==
  ASSUME Placed, Closed, NEW b \in NextBlocks, Starting(b), NEW L \in Nat, Typed(L), NEW r \in Followed,
         NEW s, Matches(s, r), NEW u, Prolongs(u, s, L),
         Holds(path_bit'[b], u) <=> r.at = b,
         r.at = b => \A x \in Memories : u[names'[b][x]] = r.mem[x]
  PROVE  Matches(u, r)'
<1>1. /\ f' = f /\ m' = m /\ Made' = Made \cup {b} /\ Done = Made /\ Done' = Made /\ pos = 0 /\ pos' = 1 /\ bidx' = b
      /\ exit_bits' = exit_bits /\ assert_path_bits' = assert_path_bits
      /\ \A c \in Made : names'[c] = names[c] /\ path_bit'[c] = path_bit[c]
  BY DEF Starting
<1>2. /\ WellFormed(f) /\ Made \subseteq Blocks(f) /\ b \in Blocks(f) /\ b \notin Made /\ b # 0
      /\ \A q \in AllRuns(f) : RunIn(f, q) /\ (q.at = b => q.seen \ {b} \subseteq Made)
  BY StartingIs
<1>3. r \in AllRuns(f) /\ \/ ~r.ended /\ r.at \notin Made /\ r.seen \ {r.at} \subseteq Made
                          \/ r.ended /\ r.at \in Made
  BY <1>1, AtBlocksAre DEF Followed, Outside, Inside, Waiting, AtTheEnd, Entering
<1>4. RunIn(f, r) /\ NamesIn(L) /\ r.at \in r.seen /\ (r.from = 0 => r.at = 1) /\ (r.from # 0 => r.from \in r.seen \ {r.at})
  BY <1>2, <1>3 DEF RunIn, Typed
<1>5. r.seen \ {r.at} \subseteq Made /\ (b \in r.seen <=> r.at = b)
  BY <1>1, <1>2, <1>3, <1>4 DEF Closed
<1>6. SameBlocks(u, r)'
  <2> SUFFICES ASSUME NEW c \in Made \cup {b} PROVE Holds(path_bit'[c], u) <=> c \in r.seen
    BY <1>1 DEF SameBlocks, Holds
  <2>1. CASE c = b
    BY <1>5, <2>1
  <2>2. CASE c \in Made
    <3>1. path_bit'[c] = path_bit[c] /\ path_bit[c] \in Bits(L)
      BY <1>1, <1>2, <1>4, <2>2 DEF NamesIn, Bits
    <3>2. Holds(path_bit[c], u) <=> Holds(path_bit[c], s)
      BY <3>1, HoldsKept
    <3> QED
      BY <2>2, <3>1, <3>2 DEF Matches, SameBlocks
  <2> QED
    BY <2>1, <2>2
<1>7. SameMemory(u, r)'
  <2> SUFFICES ASSUME NEW x \in Memories
               PROVE  u[InitialNames[x]] = r.init[x]
                      /\ u[names'[IF r.at \in Made \cup {b} \/ r.from = 0 THEN r.at ELSE r.from][x]] = r.mem[x]
    BY <1>1 DEF SameMemory, MemoryAt
  <2>1. s[InitialNames[x]] = r.init[x] /\ s[names[Home(r)][x]] = r.mem[x]
    BY DEF Matches, SameMemory, MemoryAt, Home
  <2>2. InitialNames[x] \in 1..L
    <3>1. /\ Cardinality(Memories) \in Nat /\ MaxValue \in Nat
          /\ InitialNames[x] \in (MaxValue + 2)..(MaxValue + 1 + Cardinality(Memories))
      BY InitialNamesAre, ValuesAssumption
    <3>2. L >= MaxValue + 1 + Cardinality(Memories)
      BY DEF Typed
    <3> QED
      BY <3>1, <3>2
  <2>3. CASE r.at = b
    BY <2>1, <2>2, <2>3 DEF Prolongs
  <2>4. CASE r.at # b
    <3>1. Home(r) = IF r.at \in Made \cup {b} \/ r.from = 0 THEN r.at ELSE r.from
      BY <2>4 DEF Home
    <3>2. Home(r) \in Made
      <4>1. r.from = 0 => r.at \in Made
        <5>1. 1 \in Made \/ b = 1
          BY NextIs
        <5> QED
          BY <1>4, <2>4, <5>1
      <4> QED
        BY <1>4, <1>5, <4>1 DEF Home
    <3>3. names'[Home(r)] = names[Home(r)] /\ names[Home(r)][x] \in 1..L
      BY <1>1, <1>2, <1>4, <3>2 DEF NamesIn
    <3> QED
      BY <2>1, <2>2, <3>1, <3>3 DEF Prolongs
  <2> QED
    BY <2>3, <2>4
<1>8. SameRegisters(u, r)'
  <2>1. OpsDone(b)' = {}
    <3>1. OpsDone(b)' = 1..(pos' - 1)
      BY <1>1, <1>2 DEF OpsDone
    <3> QED
      BY <1>1, <3>1
  <2> SUFFICES ASSUME NEW c \in r.seen \cap (Made \cup {b}), NEW i \in OpsDone(c)',
                      Defines(f.block[c].ops[i])
               PROVE  LET o == f.block[c].ops[i] IN Eval(m'[o.reg], u) = r.regs[o.reg]
    BY <1>1 DEF SameRegisters
  <2> DEFINE o == f.block[c].ops[i]
  <2>2. c \in Made /\ c \in Blocks(f)
    BY <1>2, <2>1
  <2>3. i \in DOMAIN f.block[c].ops /\ i \in OpsDone(c)
    BY <1>1, <2>2 DEF OpsDone
  <2>4. o.reg \in Registers
    BY <1>2, <2>2, <2>3, OpOf
  <2>5. Eval(m[o.reg], s) = r.regs[o.reg]
    BY <2>2, <2>3 DEF Matches, SameRegisters
  <2> HIDE DEF o
  <2>6. m[o.reg] \in Terms(L)
    BY <1>4, <2>4 DEF NamesIn
  <2>7. Eval(m[o.reg], u) = Eval(m[o.reg], s)
    BY <2>6, EvalKept
  <2> QED
    BY <1>1, <2>5, <2>7 DEF o
<1>9. SameEdge(u, r)'
  <2> SUFFICES ASSUME NEW c \in Blocks(f) \ Made, NEW p \in Preds(f, c) \cap Made
               PROVE  Taken(extend_path(c, p), u)' <=> r.at = c /\ r.from = p
    BY <1>1 DEF SameEdge
  <2>1. p \in Done /\ p \in Blocks(f) /\ c \in Succs(f, p)
    BY <1>1 DEF Preds
  <2>2. Taken(extend_path(c, p), s) <=> r.at = c /\ r.from = p
    BY <1>1 DEF Matches, SameEdge
  <2>3. Taken(extend_path(c, p), u)' <=> Taken(extend_path(c, p), s)
    BY <1>4, <2>1, StartedEdge
  <2> QED
    BY <2>2, <2>3
<1>10. Asserted(u)' <=> Asserted(s)
  BY <1>1, <1>4, StartedAsserted
<1>11. SameVerdict(u, r)'
  <2>1. spec_vec' = spec_vec /\ SameVerdict(s, r)
    BY DEF Starting, Matches
  <2> QED
    BY <1>1, <1>4, <2>1, VerdictKept
<1> QED
  BY <1>6, <1>7, <1>8, <1>9, <1>10, <1>11, Zenon DEF Matches

(* The edges into the next block, of a run and of its models. *)
LEMMA EdgesToNext ==
  ASSUME Placed, NEW b \in NextBlocks, b # 1, Starting(b), NEW r \in AllRuns(f), NEW s, Matches(s, r)
  PROVE  /\ \A p \in Prevs(b) : Taken(extend_path(b, p), s) <=> r.at = b /\ r.from = p
         /\ r.at = b => r.from \in Prevs(b) /\ \A x \in Memories : s[names[r.from][x]] = r.mem[x]
<1>1. /\ Done = Made /\ b \in Blocks(f) /\ b \notin Made /\ Made \subseteq Blocks(f)
      /\ RunIn(f, r) /\ (r.at = b => r.seen \ {b} \subseteq Made)
  BY StartingIs DEF Starting
<1>2. \A p \in Prevs(b) : Taken(extend_path(b, p), s) <=> r.at = b /\ r.from = p
  BY <1>1 DEF Matches, SameEdge, Prevs
<1>3. ASSUME r.at = b PROVE r.from \in Prevs(b) /\ \A x \in Memories : s[names[r.from][x]] = r.mem[x]
  <2>1. r.from \in Made /\ b \in Succs(f, r.from) /\ r.from # 0
    BY <1>1, <1>3 DEF RunIn
  <2>2. r.from \in Prevs(b)
    BY <1>1, <2>1 DEF Prevs, Preds
  <2>3. Home(r) = r.from
    BY <1>1, <1>3, <2>1 DEF Home
  <2> QED
    BY <2>2, <2>3 DEF Matches, SameMemory, MemoryAt, Home
<1> QED
  BY <1>2, <1>3

LEMMA NextEdge ==
  ASSUME Placed, NEW b \in NextBlocks, Starting(b), NEW L \in Nat, NamesIn(L), NEW s, NEW u, Prolongs(u, s, L),
         NEW p \in Prevs(b)
  PROVE  Taken(extend_path(b, p), u) <=> Taken(extend_path(b, p), s)
<1>1. p \in Done /\ p \in Blocks(f) /\ b \in Succs(f, p)
  BY DEF Prevs, Preds, Starting
<1>2. extend_path(b, p).path \in Bits(L) /\ extend_path(b, p).exit \in Bits(L)
  BY <1>1, EdgeIn
<1> QED
  BY <1>2, TakenKept

(* A run's model prolongs to one with the path bit the run says. *)
LEMMA JoinWitness ==
  ASSUME Placed, NEW L \in Nat, NamesIn(L), models \subseteq [1..L -> Value], NEW b \in NextBlocks, b # 1, Starting(b),
         NEW k \in Nat, NEW at, EnterIs(b, at, L, k), NEW r \in AllRuns(f), NEW s \in models, Matches(s, r)
  PROVE  \E u \in models' : Prolongs(u, s, L) /\ (u[L + 1] # 0 <=> r.at = b)
<1> DEFINE n == L + 1 + k
           Src(i) == CHOOSE x \in Joined(b) : at[x] = i
           Val(i) == IF i <= L THEN s[i]
                     ELSE IF \E x \in Joined(b) : at[x] = i THEN r.mem[Src(i)] ELSE Truth(r.at = b)
           u == [i \in 1..n |-> Val(i)]
<1>1. /\ n \in Nat /\ L \in Nat /\ s \in [1..L -> Value] /\ Joined(b) \subseteq Memories
      /\ 1..L \subseteq 1..n /\ L + 1 \in 1..n /\ WellFormed(f)
  BY JoinedAre, NextIs
<1>2. /\ \A x \in Joined(b) : at[x] \in (L + 2)..n
      /\ \A x, y \in Joined(b) : at[x] = at[y] => x = y
      /\ models' = Entries(b, at, L, n)
  BY DEF EnterIs
<1>3. r.mem \in [Memories -> Value]
  <2>1. RunIn(f, r)
    BY <1>1, AllIn
  <2> QED
    BY <2>1 DEF RunIn, RunOf
<1>4. \A i \in 1..n : Val(i) \in Value
  <2> SUFFICES ASSUME NEW i \in 1..n PROVE Val(i) \in Value
    OBVIOUS
  <2>1. CASE i <= L
    BY <1>1, <2>1
  <2>2. CASE ~(i <= L) /\ \E x \in Joined(b) : at[x] = i
    <3>1. Src(i) \in Joined(b)
      BY <2>2
    <3>2. r.mem[Src(i)] \in Value
      <4> HIDE DEF Src
      <4> QED
        BY <1>1, <1>3, <3>1
    <3>3. Val(i) = r.mem[Src(i)]
      <4> HIDE DEF Src
      <4> QED
        BY <2>2
    <3> QED
      BY <3>2, <3>3
  <2>3. CASE ~(i <= L) /\ ~(\E x \in Joined(b) : at[x] = i)
    BY <2>3, ValuesAre
  <2> QED
    BY <2>1, <2>2, <2>3
<1>5. u \in [1..n -> Value]
  <2> HIDE DEF Val
  <2> QED
    BY <1>4
<1>6. Prolongs(u, s, L)
  <2>1. \A i \in 1..L : i \in 1..n /\ i <= L
    BY <1>1
  <2> QED
    BY <2>1 DEF Prolongs
<1>7. u[L + 1] = Truth(r.at = b)
  <2>1. ~(L + 1 <= L) /\ ~(\E x \in Joined(b) : at[x] = L + 1)
    BY <1>2
  <2>2. Val(L + 1) = Truth(r.at = b)
    BY <2>1
  <2> HIDE DEF Val
  <2> QED
    BY <1>1, <2>2
<1>8. \A x \in Joined(b) : u[at[x]] = r.mem[x]
  <2> SUFFICES ASSUME NEW x \in Joined(b) PROVE u[at[x]] = r.mem[x]
    OBVIOUS
  <2>1. at[x] \in 1..n /\ ~(at[x] <= L)
    BY <1>1, <1>2
  <2>2. Src(at[x]) = x
    BY <1>2
  <2>3. Val(at[x]) = r.mem[x]
    <3> HIDE DEF Src
    <3> QED
      BY <2>1, <2>2
  <2> HIDE DEF Val
  <2> QED
    BY <2>1, <2>3
<1> HIDE DEF u
<1>9. Carried(b, at, u)
  <2> SUFFICES ASSUME NEW p \in Prevs(b), Taken(extend_path(b, p), u), NEW x \in Joined(b)
               PROVE  u[at[x]] = u[names[p][x]]
    BY DEF Carried
  <2>1. Taken(extend_path(b, p), s)
    BY <1>6, NextEdge
  <2>2. s[names[p][x]] = r.mem[x]
    BY <1>1, <2>1, EdgesToNext
  <2>3. names[p][x] \in 1..L
    <3>1. p \in Blocks(f)
      BY DEF Prevs, Preds
    <3> QED
      BY <1>1, <3>1 DEF NamesIn
  <2> QED
    BY <1>6, <1>8, <2>2, <2>3 DEF Prolongs
<1>10. u[L + 1] # 0 <=> r.at = b
  BY <1>7 DEF Truth
<1>11. u[L + 1] \in 0..1 /\ (u[L + 1] # 0 => \E p \in Prevs(b) : Taken(extend_path(b, p), u))
  <2>1. r.at = b => r.from \in Prevs(b) /\ Taken(extend_path(b, r.from), s)
    BY EdgesToNext
  <2>2. r.at = b => Taken(extend_path(b, r.from), u)
    BY <1>6, <2>1, NextEdge
  <2> QED
    BY <1>7, <1>10, <2>1, <2>2 DEF Truth
<1>12. u \in Entries(b, at, L, n)
  <2> HIDE DEF n
  <2> QED
    BY <1>5, <1>6, <1>9, <1>11 DEF Entries
<1> QED
  BY <1>2, <1>6, <1>10, <1>12

(* And a model of the join says what the run has in the memories. *)
LEMMA JoinMemory ==
  ASSUME Placed, NEW L \in Nat, NamesIn(L), NEW b \in NextBlocks, b # 1, Starting(b),
         NEW k \in Nat, NEW at, EnterIs(b, at, L, k), NEW r \in AllRuns(f), NEW s, Matches(s, r),
         NEW u \in models', Prolongs(u, s, L)
  PROVE  /\ Holds(path_bit'[b], u) <=> u[L + 1] # 0
         /\ u[L + 1] # 0 => r.at = b
         /\ r.at = b => \A x \in Memories : u[names'[b][x]] = r.mem[x]
<1>1. /\ names' = [names EXCEPT ![b] = at] /\ path_bit' = [path_bit EXCEPT ![b] = L + 1]
      /\ \A x \in Memories \ Joined(b) : \A p \in Prevs(b) : at[x] = names[p][x]
      /\ u[L + 1] # 0 => \E p \in Prevs(b) : Taken(extend_path(b, p), u)
      /\ Carried(b, at, u)
  BY DEF EnterIs, Entries
<1>2. b \in Blocks(f) /\ Prevs(b) \subseteq Blocks(f)
  BY StartingIs DEF Prevs, Preds
<1>3. names'[b] = at /\ path_bit'[b] = L + 1
  BY <1>1, <1>2 DEF NamesIn
<1>4. Holds(path_bit'[b], u) <=> u[L + 1] # 0
  <2>1. L + 1 > 0
    OBVIOUS
  <2> QED
    BY <1>3, <2>1 DEF Holds
<1>5. u[L + 1] # 0 => r.at = b
  BY <1>1, NextEdge, EdgesToNext
<1>6. ASSUME r.at = b, NEW x \in Memories PROVE u[at[x]] = r.mem[x]
  <2> DEFINE p == r.from
  <2>1. p \in Prevs(b) /\ s[names[p][x]] = r.mem[x] /\ Taken(extend_path(b, p), s)
    BY <1>6, EdgesToNext
  <2> HIDE DEF p
  <2>2. Taken(extend_path(b, p), u)
    BY <2>1, NextEdge
  <2>3. names[p][x] \in 1..L
    BY <1>2, <2>1 DEF NamesIn
  <2>4. u[names[p][x]] = r.mem[x]
    BY <2>1, <2>3 DEF Prolongs
  <2>5. u[at[x]] = u[names[p][x]]
    BY <1>1, <2>1, <2>2 DEF Carried
  <2> QED
    BY <2>4, <2>5
<1> QED
  BY <1>3, <1>4, <1>5, <1>6

(* A model the join leaves on no path has lost its run, or is stuck. *)
LEMMA JoinStuck ==
  ASSUME Placed, Closed, NEW b \in NextBlocks, Starting(b), NEW L \in Nat, Typed(L), NEW s, NEW u, Prolongs(u, s, L),
         ~Holds(path_bit'[b], u), Made # {},
         Stuck(s) \/ \E r \in AllRuns(f) : ~r.ended /\ r.at = b /\ Matches(s, r)
  PROVE  Stuck(u)'
<1>1. /\ f' = f /\ Made' = Made \cup {b} /\ bidx' = b /\ pos = 0 /\ Done = Made /\ Done' = Made
      /\ \A c \in Made : path_bit'[c] = path_bit[c]
  BY DEF Starting
<1>2. /\ WellFormed(f) /\ Made \subseteq Blocks(f) /\ b \in Blocks(f) /\ b \notin Made /\ NamesIn(L)
      /\ \A r \in AllRuns(f) : RunIn(f, r)
  BY StartingIs DEF Typed
<1>3. /\ \A c \in Blocks(f) \ (Made \cup {b}) : \A p \in Preds(f, c) \cap Made : ~Taken(extend_path(c, p), s)
      /\ \A c \in Made : Returns(f, c) => ~Holds(path_bit[c], s)
  <2>1. CASE Stuck(s)
    BY <1>1, <2>1 DEF Stuck
  <2>2. ASSUME NEW r \in AllRuns(f), ~r.ended, r.at = b, Matches(s, r)
        PROVE  /\ \A c \in Blocks(f) \ (Made \cup {b}) : \A p \in Preds(f, c) \cap Made : ~Taken(extend_path(c, p), s)
               /\ \A c \in Made : Returns(f, c) => ~Holds(path_bit[c], s)
    <3>1. \A c \in Blocks(f) \ (Made \cup {b}) : \A p \in Preds(f, c) \cap Made : ~Taken(extend_path(c, p), s)
      BY <1>1, <2>2 DEF Matches, SameEdge
    <3>2. \A c \in Made : Returns(f, c) => c \notin r.seen
      BY <1>2, <2>2 DEF RunIn
    <3> QED
      BY <2>2, <3>1, <3>2 DEF Matches, SameBlocks
  <2> QED
    BY <2>1, <2>2
<1>4. ASSUME NEW c \in Blocks(f) \ (Made \cup {b}), NEW p \in Preds(f, c) \cap Made
      PROVE  ~Taken(extend_path(c, p), u)'
  <2>1. p \in Done /\ p \in Blocks(f) /\ c \in Succs(f, p)
    BY <1>1 DEF Preds
  <2>2. Taken(extend_path(c, p), u)' <=> Taken(extend_path(c, p), s)
    BY <1>2, <2>1, StartedEdge
  <2> QED
    BY <1>3, <2>2
<1>5. ASSUME NEW c \in Made \cup {b}, Returns(f, c) PROVE ~Holds(path_bit'[c], u)
  <2>1. CASE c = b
    BY <2>1
  <2>2. CASE c \in Made
    <3>1. path_bit'[c] = path_bit[c] /\ path_bit[c] \in Bits(L)
      BY <1>1, <1>2, <2>2 DEF NamesIn, Bits
    <3>2. ~Holds(path_bit[c], s)
      BY <1>3, <1>5, <2>2
    <3> QED
      BY <3>1, <3>2, HoldsKept
  <2> QED
    BY <2>1, <2>2
<1> QED
  BY <1>1, <1>4, <1>5 DEF Stuck, Holds

LEMMA EnterFollows ==
  ASSUME Placed, Closed, Ordered, Plain, NEW L \in Nat, Typed(L), models # {}, Follow, NEW b \in NextBlocks, Enter(b)
  PROVE  FollowNext /\ Ordered'
<1>1. /\ pos = 0 /\ pos' = 1 /\ f' = f /\ m' = m /\ exit_bits' = exit_bits /\ assert_path_bits' = assert_path_bits /\ spec_vec' = spec_vec
      /\ Made' = Made \cup {b} /\ bidx' = b /\ Done = Made /\ Done' = Made
  BY EnterPlaced, Zenon
<1>2. /\ b \in Blocks(f) /\ b \notin Made /\ Made \subseteq Blocks(f) /\ NamesIn(L) /\ models \subseteq [1..L -> Value]
      /\ (b = 1 => Made = {}) /\ (b # 1 => 1 \in Made)
  <2>1. models \subseteq [1..L -> Value] /\ NamesIn(L)
    BY DEF Typed, ModelsIn
  <2> QED
    BY <2>1, NextIs
<1>3. Starting(b)
  <2>1. \A c \in Made : names'[c] = names[c] /\ path_bit'[c] = path_bit[c]
    <3>1. CASE b = 1
      BY <1>2, <3>1
    <3>2. CASE b # 1
      <4>1. PICK k \in Nat : \E at : EnterIs(b, at, L, k)
        BY <3>2, EnterIsSo
      <4>2. PICK at : EnterIs(b, at, L, k)
        BY <4>1
      <4>3. names' = [names EXCEPT ![b] = at] /\ path_bit' = [path_bit EXCEPT ![b] = L + 1]
        BY <4>2 DEF EnterIs
      <4> QED
        BY <1>2, <4>3 DEF NamesIn
    <3> QED
      BY <3>1, <3>2
  <2> QED
    BY <1>1, <2>1 DEF Starting
<1>4. Closed' /\ Ordered' /\ \A t : t \in Followed' <=> t \in Followed
  BY <1>3, ClosedStarting, OrderedStarting, FollowedStarting
<1>5. Plain'
  BY <1>1, PlainKept
<1>6. \A r \in Followed : r \in AllRuns(f) /\ RunIn(f, r) /\ (r.at = b => ~r.ended /\ r.seen \ {b} \subseteq Made)
                          /\ (Made = {} => r.at = 1)
  <2> SUFFICES ASSUME NEW r \in Followed
               PROVE  r \in AllRuns(f) /\ RunIn(f, r) /\ (r.at = b => ~r.ended /\ r.seen \ {b} \subseteq Made)
                      /\ (Made = {} => r.at = 1)
    OBVIOUS
  <2>1. r \in AllRuns(f) /\ \/ ~r.ended /\ r.at \notin Made /\ r.seen \ {r.at} \subseteq Made
                            \/ r.ended /\ r.at \in Made
    BY <1>1, AtBlocksAre DEF Followed, Outside, Inside, Waiting, AtTheEnd, Entering
  <2>2. RunIn(f, r)
    BY <1>3, <2>1, StartingIs
  <2>3. Made = {} => r.at = 1
    BY <2>1, <2>2 DEF RunIn
  <2> QED
    BY <1>2, <2>1, <2>2, <2>3
<1>7. Follow'
  <2>1. CASE b = 1
    <3>1. path_bit' = [path_bit EXCEPT ![b] = TrueBit] /\ names' = names /\ models' = models
      BY <2>1, Zenon DEF Enter
    <3>2. path_bit'[b] = TrueBit
      BY <1>2, <3>1 DEF NamesIn
    <3>3. \A s \in models : Holds(TrueBit, s)
      <4> SUFFICES ASSUME NEW s \in models PROVE Holds(TrueBit, s)
        OBVIOUS
      <4>1. s[ConstName(1)] = 1
        BY ValuesAre DEF Typed, ModelsIn
      <4>2. ConstName(1) > 0
        BY DEF ConstName
      <4> QED
        BY <4>1, <4>2 DEF Holds, TrueBit
    <3>4. ASSUME NEW r \in Followed, NEW s \in models, Matches(s, r) PROVE Matches(s, r)'
      <4>1. r.at = b /\ Made = {}
        BY <1>2, <1>6, <2>1
      <4>2. \A x \in Memories : s[names'[b][x]] = r.mem[x]
        <5>1. RunIn(f, r) /\ r.seen \ {b} = {}
          BY <1>6, <4>1
        <5>2. r.from = 0
          BY <4>1, <5>1 DEF RunIn
        <5> QED
          BY <3>1, <3>4, <4>1, <5>2 DEF Matches, SameMemory, MemoryAt
      <4>3. Holds(path_bit'[b], s) <=> r.at = b
        BY <3>2, <3>3, <4>1
      <4>4. Prolongs(s, s, L)
        BY DEF Prolongs
      <4> QED
        BY <1>3, <3>4, <4>2, <4>3, <4>4, StartedMatches
    <3>5. \A s \in models : ~Stuck(s)
      BY <1>2, <2>1 DEF Stuck
    <3>6. \A r \in Followed' : \E s \in models' : Matches(s, r)'
      BY <1>4, <3>1, <3>4 DEF Follow
    <3>7. \A s \in models' : Stuck(s)' \/ \E r \in Followed' : Matches(s, r)'
      BY <1>4, <3>1, <3>4, <3>5 DEF Follow
    <3> QED
      BY <3>6, <3>7 DEF Follow
  <2>2. CASE b # 1
    <3>0. PICK k \in Nat : \E at : EnterIs(b, at, L, k)
      BY <2>2, EnterIsSo
    <3>1. PICK at : EnterIs(b, at, L, k)
      BY <3>0
    <3>2. ASSUME NEW r \in Followed, NEW s, Matches(s, r), NEW u \in models', Prolongs(u, s, L), u[L + 1] # 0 <=> r.at = b
          PROVE  Matches(u, r)'
      <4>1. /\ Holds(path_bit'[b], u) <=> u[L + 1] # 0
            /\ r.at = b => \A x \in Memories : u[names'[b][x]] = r.mem[x]
        BY <1>2, <1>3, <1>6, <2>2, <3>1, <3>2, JoinMemory
      <4> QED
        BY <1>3, <3>2, <4>1, StartedMatches
    <3>3. ASSUME NEW r \in Followed' PROVE \E u \in models' : Matches(u, r)'
      <4>1. r \in Followed
        BY <1>4, <3>3
      <4>2. PICK s \in models : Matches(s, r)
        BY <4>1 DEF Follow
      <4>3. PICK u \in models' : Prolongs(u, s, L) /\ (u[L + 1] # 0 <=> r.at = b)
        BY <1>2, <1>3, <1>6, <2>2, <3>1, <4>1, <4>2, JoinWitness
      <4> QED
        BY <3>2, <4>1, <4>2, <4>3
    <3>4. ASSUME NEW u \in models' PROVE Stuck(u)' \/ \E r \in Followed' : Matches(u, r)'
      <4>1. PICK s \in models : Prolongs(u, s, L)
        BY <3>1 DEF EnterIs, Entries
      <4>2. Made # {}
        BY <1>2, <2>2
      <4>3. CASE Stuck(s)
        <5>1. ~Holds(path_bit'[b], u)
          <6>1. /\ path_bit' = [path_bit EXCEPT ![b] = L + 1]
                /\ u[L + 1] # 0 => \E p \in Prevs(b) : Taken(extend_path(b, p), u)
            BY <3>1 DEF EnterIs, Entries
          <6>2. \A p \in Prevs(b) : ~Taken(extend_path(b, p), s)
            BY <1>1, <1>2, <4>3 DEF Stuck, Prevs
          <6>3. u[L + 1] = 0
            BY <1>2, <1>3, <4>1, <6>1, <6>2, NextEdge
          <6>4. path_bit'[b] = L + 1 /\ L + 1 > 0
            BY <1>2, <6>1 DEF NamesIn
          <6> QED
            BY <6>3, <6>4 DEF Holds
        <5> QED
          BY <1>3, <4>1, <4>2, <4>3, <5>1, JoinStuck
      <4>4. ASSUME NEW r \in Followed, Matches(s, r) PROVE Stuck(u)' \/ Matches(u, r)'
        <5>1. /\ Holds(path_bit'[b], u) <=> u[L + 1] # 0
              /\ u[L + 1] # 0 => r.at = b
          BY <1>2, <1>3, <1>6, <2>2, <3>1, <4>1, <4>4, JoinMemory
        <5>2. CASE u[L + 1] # 0 <=> r.at = b
          BY <3>2, <4>1, <4>4, <5>2
        <5>3. CASE r.at = b /\ u[L + 1] = 0
          <6>1. ~r.ended /\ r \in AllRuns(f)
            BY <1>6, <5>3
          <6> QED
            BY <1>3, <4>1, <4>2, <4>4, <5>1, <5>3, <6>1, JoinStuck
        <5> QED
          BY <5>1, <5>2, <5>3
      <4> QED
        BY <1>4, <4>1, <4>3, <4>4 DEF Follow
    <3> QED
      BY <3>3, <3>4 DEF Follow
  <2> QED
    BY <2>1, <2>2
<1> QED
  BY <1>4, <1>5, <1>7 DEF FollowNext

-----------------------------------------------------------------------------
(***************************************************************************)
(* At the beginning every run is at its start, and every model is that of  *)
(* one of the starts.                                                      *)
(***************************************************************************)
LEMMA StartsFollowed ==
  ASSUME Placed, bb_vec = <<>>, pos = 0
  PROVE  \A r : r \in Followed <=> r \in Starts(f)
<1>1. WellFormed(f) /\ Made = {} /\ Done = {}
  BY FunctionsAssumption DEF Placed, Made, Done, Range
<1>2. \A r : r \in Followed <=> r \in AtBlocks /\ ~r.ended /\ r.seen \ {r.at} = {}
  BY <1>1 DEF Followed, Outside, Inside, Waiting, AtTheEnd, Entering
<1>3. ASSUME NEW r \in Starts(f) PROVE r \in AtBlocks /\ ~r.ended /\ r.seen \ {r.at} = {}
  <2>1. RunIn(f, r) /\ r.met = {} /\ ~r.ended /\ r.from = 0
    BY <1>1, StartIn
  <2>2. r \in AllRuns(f)
    <3>1. Runs(f)[0] = Starts(f) /\ 0 \in 0..Len(f.block)
      BY <1>1, BlocksOf, RunsIs
    <3> QED
      BY <3>1 DEF AllRuns
  <2> QED
    BY <2>1, <2>2, AtBlocksAre DEF RunIn
<1>4. ASSUME NEW r \in AtBlocks, ~r.ended, r.seen \ {r.at} = {} PROVE r \in Starts(f)
  <2>1. r \in AllRuns(f) /\ RunIn(f, r)
    BY <1>1, AtBlocksAre, AllIn
  <2>2. r.from = 0
    BY <1>4, <2>1 DEF RunIn
  <2>3. ASSUME NEW q \in AllRuns(f), ~q.ended, r \in Onward(f, q) PROVE FALSE
    <3>1. RunIn(f, q)
      BY <1>1, <2>3, AllIn
    <3>2. r.from = q.at
      BY <1>1, <1>4, <2>3, <3>1, OnwardIs
    <3>3. q.at \in Blocks(f)
      BY <3>1 DEF RunIn, RunOf
    <3> QED
      BY <1>1, <2>2, <3>2, <3>3, NotZero
  <2> QED
    BY <1>1, <2>1, <2>3, Backwards
<1> QED
  BY <1>2, <1>3, <1>4

Followable == Ordered /\ Closed /\ Plain /\ Follow

LEMMA InitFollows == Init => Followable
<1> DEFINE n == MaxValue + 1 + Cardinality(Memories)
<1> SUFFICES ASSUME Init PROVE Followable
  OBVIOUS
<1>1. /\ f \in Functions /\ bb_vec = <<>> /\ pos = 0
      /\ m = [r \in Registers |-> Name(IF r[1] = "const" THEN ConstName(r[2]) ELSE FalseBit)]
      /\ names = [b \in Blocks(f) |-> InitialNames] /\ assert_path_bits = <<>> /\ spec_vec = <<>>
  BY Zenon DEF Init
<1>2. models = {s \in [1..n -> Value] : /\ \A v \in Value : s[ConstName(v)] = v
                                        /\ \A g \in Globals : s[InitialNames[g]] = 0}
  BY Zenon DEF Init
<1>3. Made = {} /\ Done = {} /\ WellFormed(f)
  BY <1>1, FunctionsAssumption DEF Made, Done, Range
<1>4. Ordered /\ Closed
  BY <1>3 DEF Ordered, Closed
<1>5. Plain
  BY <1>1 DEF Plain, Name
<1>6. Placed
  BY InitNamed, Zenon DEF Named
<1>7. ASSUME NEW s, NEW r \in Starts(f), \A x \in Memories : s[InitialNames[x]] = r.init[x]
      PROVE  Matches(s, r)
  <2>1. PICK i \in [Memories -> Value] :
          r = [at |-> 1, from |-> 0, ended |-> FALSE, mem |-> i, init |-> i, seen |-> {1}, met |-> {},
               regs |-> [x \in Registers |-> IF x[1] = "const" THEN x[2] ELSE 0]]
    BY DEF Starts
  <2>2. r.at = 1 /\ r.from = 0 /\ r.mem = r.init /\ r.met = {}
    BY <2>1
  <2>3. 1 \in Blocks(f)
    BY <1>3, BlocksOf
  <2>4. SameMemory(s, r)
    BY <1>1, <1>7, <2>2, <2>3 DEF SameMemory, MemoryAt
  <2>5. SameBlocks(s, r) /\ SameRegisters(s, r) /\ SameEdge(s, r)
    BY <1>3 DEF SameBlocks, SameRegisters, SameEdge
  <2>6. ~Asserted(s) /\ ~Refuted(s)
    BY <1>1 DEF Asserted, Refuted
  <2> QED
    BY <2>2, <2>4, <2>5, <2>6 DEF Matches, SameVerdict
<1>8. ASSUME NEW r \in Starts(f) PROVE \E s \in models : Matches(s, r)
  <2>1. r.init \in [Memories -> Value] /\ \A g \in Globals : r.init[g] = 0
    <3>1. RunIn(f, r)
      BY <1>3, StartIn
    <3> QED
      BY <3>1 DEF RunIn, RunOf
  <2>2. PICK s \in [1..n -> Value] : /\ \A v \in Value : s[ConstName(v)] = v
                                     /\ \A x \in Memories : s[InitialNames[x]] = r.init[x]
    BY <2>1, FirstModel
  <2>3. s \in models
    <3> HIDE DEF n
    <3> QED
      BY <1>2, <2>1, <2>2, ValuesAssumption
  <2> QED
    BY <1>7, <2>2, <2>3
<1>9. ASSUME NEW s \in models PROVE \E r \in Starts(f) : Matches(s, r)
  <2> DEFINE i == [x \in Memories |-> s[InitialNames[x]]]
             r == [at |-> 1, from |-> 0, ended |-> FALSE, mem |-> i, init |-> i, seen |-> {1}, met |-> {},
                   regs |-> [x \in Registers |-> IF x[1] = "const" THEN x[2] ELSE 0]]
  <2>1. s \in [1..n -> Value] /\ \A g \in Globals : s[InitialNames[g]] = 0
    BY <1>2
  <2>2. \A x \in Memories : InitialNames[x] \in 1..n
    BY NamesOfConstants, InitialNamesAre, ValuesAssumption
  <2>3. i \in [Memories -> Value] /\ \A g \in Globals : i[g] = 0
    <3> HIDE DEF n
    <3> QED
      BY <2>1, <2>2, ValuesAssumption
  <2> HIDE DEF i
  <2>4. r \in Starts(f) /\ r.init = i
    BY <2>3 DEF Starts
  <2>5. \A x \in Memories : s[InitialNames[x]] = r.init[x]
    BY <2>4 DEF i
  <2> HIDE DEF r
  <2> QED
    BY <1>7, <2>4, <2>5
<1>10. Follow
  <2>1. \A r : r \in Followed <=> r \in Starts(f)
    BY <1>1, <1>6, StartsFollowed
  <2> QED
    BY <1>8, <1>9, <2>1 DEF Follow
<1> QED
  BY <1>4, <1>5, <1>10 DEF Followable

-----------------------------------------------------------------------------
(***************************************************************************)
(* The steps of the translation together.                                  *)
(***************************************************************************)
LEMMA OperationFollows ==
  ASSUME Placed, NEW L \in Nat, Typed(L), models # {}, Followable,
         \/ translateNondet \/ translateLoadInst \/ translateStoreInst \/ translateCmpInst
         \/ translatePhiNode \/ assume_to_bmc \/ assert_to_spec
  PROVE  Followable'
<1>1. Closed /\ Plain /\ Follow /\ Ordered
  BY DEF Followable
<1>2. FollowNext
  BY <1>1, NondetFollows, LoadFollows, StoreFollows, CmpFollows, PhiFollows, AssumeFollows, AssertFollows
<1>3. f' = f /\ bb_vec' = bb_vec
  <2>1. CASE translateNondet
    BY <2>1, Zenon DEF translateNondet, Reading
  <2>2. CASE translateLoadInst
    BY <2>2, Zenon DEF translateLoadInst, Reading
  <2>3. CASE translateStoreInst
    BY <2>3, Zenon DEF translateStoreInst, Reading
  <2>4. CASE translateCmpInst
    BY <2>4, Zenon DEF translateCmpInst, Reading
  <2>5. CASE translatePhiNode
    BY <2>5, Zenon DEF translatePhiNode, Reading
  <2>6. CASE assume_to_bmc
    BY <2>6, Zenon DEF assume_to_bmc, Reading
  <2>7. CASE assert_to_spec
    BY <2>7, Zenon DEF assert_to_spec, Reading
  <2> QED
    BY <2>1, <2>2, <2>3, <2>4, <2>5, <2>6, <2>7, Zenon
<1>4. Ordered'
  BY <1>1, <1>3 DEF Ordered, Made, bidx
<1> QED
  BY <1>2, <1>4 DEF FollowNext, Followable

LEMMA TranslationFollows ==
  ASSUME Placed, NEW L \in Nat, Typed(L), models # {}, Followable,
         \/ EnterBlock
         \/ translateNondet \/ translateLoadInst \/ translateStoreInst \/ translateCmpInst
         \/ translatePhiNode \/ assume_to_bmc \/ assert_to_spec
         \/ translateBranch \/ translateSwitchInst \/ translateRetInst \/ translateUnreachableInst
  PROVE  Followable'
<1>1. Closed /\ Plain /\ Follow /\ Ordered
  BY DEF Followable
<1>2. CASE EnterBlock
  <2>1. PICK b \in NextBlocks : Enter(b)
    BY <1>2, Zenon DEF EnterBlock
  <2>2. FollowNext /\ Ordered'
    BY <1>1, <2>1, EnterFollows
  <2> QED
    BY <2>2 DEF FollowNext, Followable
<1>3. CASE \/ translateNondet \/ translateLoadInst \/ translateStoreInst \/ translateCmpInst
           \/ translatePhiNode \/ assume_to_bmc \/ assert_to_spec
  BY <1>3, OperationFollows
<1>4. CASE translateBranch \/ translateSwitchInst \/ translateRetInst \/ translateUnreachableInst
  <2>1. FollowNext /\ Ordered'
    BY <1>1, <1>4, BranchFollows, SwitchFollows, ReturnFollows
  <2> QED
    BY <2>1 DEF FollowNext, Followable
<1> QED
  BY <1>2, <1>3, <1>4, Zenon

-----------------------------------------------------------------------------
(***************************************************************************)
(* The end.  When no block is next no edge leads out of those translated,  *)
(* and the runs followed are those that have ended.                        *)
(***************************************************************************)
LEMMA NothingLeft ==
  ASSUME Placed, pos = 0, AllMade
  PROVE  \A c \in Made : Succs(f, c) \subseteq Made
<1> DEFINE D == (UNION {Succs(f, c) : c \in Made}) \ Made
           H == Height(f)
           N == Len(f.block)
           P == {n \in Nat : \E c \in D : H[c] >= n}
<1>1. WellFormed(f) /\ Made \subseteq Blocks(f) /\ bb_vec # <<>> /\ NextBlocks = {}
  BY FunctionsAssumption DEF Placed, Made, Range, AllMade
<1>2. \A b \in D : \E c \in D : ~(H[b] >= H[c])
  BY <1>1 DEF NextBlocks
<1>3. D \subseteq Blocks(f) /\ N \in Nat /\ H \in [Blocks(f) -> 1..N]
  <2>1. \A c \in Made : Succs(f, c) \subseteq Blocks(f)
    BY <1>1, BlocksOf
  <2>2. N \in Nat
    BY <1>1, BlocksOf
  <2>3. H \in [Blocks(f) -> 1..N]
    BY <1>1, HeightIs
  <2> QED
    BY <2>1, <2>2, <2>3
<1>4. ASSUME NEW b \in D PROVE FALSE
  <2>1. \A c \in D : H[c] \in 1..N
    BY <1>3
  <2> HIDE DEF H, D, N
  <2>2. 0 \in P
    BY <1>3, <1>4, <2>1
  <2>3. ASSUME NEW n \in 0..((N + 1) - 1), n \in P PROVE n + 1 \in P
    <3>1. PICK c \in D : H[c] >= n
      BY <2>3
    <3>2. PICK d \in D : ~(H[c] >= H[d])
      BY <1>2
    <3>3. H[d] >= n + 1
      BY <2>1, <3>1, <3>2
    <3> QED
      BY <3>3
  <2>4. 0..(N + 1) \subseteq P
    <3> DEFINE last == N + 1
    <3>1. last \in Nat /\ 0 \in Nat
      BY <1>3
    <3>2. \A n \in 0..(last - 1) : n \in P => n + 1 \in P
      BY <2>3
    <3> HIDE DEF P, last
    <3>3. 0..last \subseteq P
      BY <2>2, <3>1, <3>2, SetInduction
    <3> QED
      BY <3>3 DEF last
  <2>5. PICK c \in D : H[c] >= N + 1
    BY <1>3, <2>4
  <2> QED
    BY <1>3, <2>1, <2>5
<1> QED
  BY <1>4

LEMMA EndedFollowed ==
  ASSUME Placed, pos = 0, AllMade
  PROVE  /\ Done = Made /\ Made \subseteq Blocks(f)
         /\ \A r \in Executions(f) : r.ended /\ r.seen \subseteq Made /\ r.at \in r.seen /\ Returns(f, r.at)
         /\ \A r : r \in Followed <=> r \in Executions(f) /\ "later" \notin r.met
<1>1. /\ WellFormed(f) /\ Made \subseteq Blocks(f) /\ 1 \in Made /\ Done = Made
      /\ \A c \in Made : Succs(f, c) \subseteq Made
  BY NothingLeft, FunctionsAssumption DEF Placed, Made, Range, AllMade, Done
<1>2. \A r : r \in Executions(f) <=> r \in AllRuns(f) /\ r.ended
  BY <1>1, EveryRunEnds
<1>3. ASSUME NEW r \in AllRuns(f) PROVE RunIn(f, r) /\ r.seen \subseteq Made /\ r.at \in r.seen
  <2>1. RunIn(f, r)
    BY <1>1, AllIn
  <2>2. Passed(f, r.seen) /\ r.at \in r.seen
    BY <2>1 DEF RunIn
  <2>3. \A S, T \in SUBSET Blocks(f) :
          1 \in S \cup T /\ (\A p \in S : Succs(f, p) \subseteq S \cup T)
            => T \cap r.seen # {} \/ r.seen \subseteq S
    BY <2>2, Zenon DEF Passed
  <2>4. {} \cap r.seen # {} \/ r.seen \subseteq Made
    <3>1. Made \in SUBSET Blocks(f) /\ {} \in SUBSET Blocks(f) /\ 1 \in Made \cup {}
          /\ \A p \in Made : Succs(f, p) \subseteq Made \cup {}
      BY <1>1
    <3> QED
      BY <2>3, <3>1, Zenon
  <2> QED
    BY <2>1, <2>2, <2>4
<1>4. \A r \in AllRuns(f) : r.ended => Returns(f, r.at)
  BY <1>3 DEF RunIn
<1>5. \A r : r \in Followed <=> /\ r \in AtBlocks
                                /\ \/ ~r.ended /\ r.at \notin Made /\ r.seen \ {r.at} \subseteq Made
                                   \/ r.ended /\ r.at \in Made
  BY <1>1 DEF Followed, Outside, Inside, Waiting, AtTheEnd, Entering
<1>6. \A r : r \in Followed <=> r \in AllRuns(f) /\ "later" \notin r.met /\ r.ended
  BY <1>3, <1>5, AtBlocksAre
<1> QED
  BY <1>1, <1>2, <1>3, <1>4, <1>6

(* The constraints of the end ask for an assertion on the path, and for an exit. *)
LEMMA FinishAdmits ==
  ASSUME Placed, NEW L \in Nat, Typed(L), Follow, Finish
  PROVE  /\ \A r \in Executions(f) : Covered(r) => \E s \in models' : Matches(s, r)
         /\ MayReturn => \A s \in models' : \E r \in Executions(f) : Covered(r) /\ Matches(s, r)
         /\ assert_path_bits # <<>> => \A s \in models' : Asserted(s)
         /\ models' \subseteq models
<1> DEFINE exits == {path_bit[b] : b \in {c \in Made : Returns(f, c)}}
<1>1. pos = 0 /\ AllMade
  BY Zenon DEF Finish
<1>2. models' = {s \in models : Or(Range(assert_path_bits), s) /\ Or(exits, s)}
  BY Zenon DEF Finish
<1>3. /\ \A r \in Executions(f) : r.ended /\ r.seen \subseteq Made /\ r.at \in r.seen /\ Returns(f, r.at)
      /\ \A r : r \in Followed <=> r \in Executions(f) /\ "later" \notin r.met
  BY <1>1, EndedFollowed
<1>4. \A s : (assert_path_bits = <<>> => Or(Range(assert_path_bits), s))
             /\ (assert_path_bits # <<>> => (Or(Range(assert_path_bits), s) <=> Asserted(s)))
  <2>1. assert_path_bits = <<>> => Range(assert_path_bits) = {}
    BY DEF Range
  <2>2. assert_path_bits # <<>> => Range(assert_path_bits) # {}
    <3>1. assert_path_bits \in Seq(1..L)
      BY DEF Typed, NamesIn
    <3>2. assert_path_bits # <<>> => 1 \in DOMAIN assert_path_bits
      BY <3>1, EmptySeq, LenProperties
    <3> QED
      BY <3>2 DEF Range
  <2> QED
    BY <2>1, <2>2 DEF Or, Asserted, Range
<1>5. ASSUME NEW r \in Executions(f), Covered(r) PROVE \E s \in models' : Matches(s, r)
  <2>1. "later" \notin r.met /\ (assert_path_bits # <<>> => "asserted" \in r.met)
    BY <1>5 DEF Covered
  <2>2. PICK s \in models : Matches(s, r)
    BY <1>3, <2>1 DEF Follow
  <2>3. Or(Range(assert_path_bits), s)
    BY <1>4, <2>1, <2>2 DEF Matches
  <2>4. Or(exits, s)
    <3>1. r.at \in Made /\ Returns(f, r.at) /\ Holds(path_bit[r.at], s)
      BY <1>3, <2>2 DEF Matches, SameBlocks
    <3> QED
      BY <3>1 DEF Or
  <2> QED
    BY <1>2, <2>2, <2>3, <2>4
<1>6. ASSUME MayReturn, NEW s \in models' PROVE \E r \in Executions(f) : Covered(r) /\ Matches(s, r)
  <2>1. s \in models /\ Or(Range(assert_path_bits), s) /\ Or(exits, s)
    BY <1>2
  <2>2. PICK b \in Made : Returns(f, b) /\ Holds(path_bit[b], s)
    BY <1>6, <2>1 DEF MayReturn, Or
  <2>3. ~Stuck(s)
    BY <2>2 DEF Stuck
  <2>4. PICK r \in Followed : Matches(s, r)
    BY <2>1, <2>3 DEF Follow
  <2>5. r \in Executions(f) /\ r.ended /\ "later" \notin r.met
    BY <1>3
  <2>6. assert_path_bits # <<>> => "asserted" \in r.met
    BY <1>4, <2>1, <2>4 DEF Matches
  <2> QED
    BY <2>4, <2>5, <2>6 DEF Covered
<1> QED
  BY <1>2, <1>4, <1>5, <1>6

LEMMA FinishFollows ==
  ASSUME Placed, NEW L \in Nat, Typed(L), Follow, Finish
  PROVE  RunsAreModels' /\ ModelsAreRuns'
<1>1. /\ pos = 0 /\ AllMade /\ f' = f /\ bb_vec' = bb_vec /\ m' = m /\ names' = names /\ path_bit' = path_bit
      /\ assert_path_bits' = assert_path_bits
  BY Zenon DEF Finish
<1>2. /\ Done = Made /\ Made \subseteq Blocks(f)
      /\ \A r \in Executions(f) : r.ended /\ r.seen \subseteq Made /\ r.at \in r.seen /\ Returns(f, r.at)
      /\ \A r : r \in Followed <=> r \in Executions(f) /\ "later" \notin r.met
  BY <1>1, EndedFollowed
<1>3. Made' = Made
  BY <1>1 DEF Made
<1>4. ASSUME NEW s, NEW r \in Executions(f), Matches(s, r) PROVE Agrees(s, r)'
  <2>1. MemoryAt(r) = names[r.at]
    BY <1>2 DEF MemoryAt
  <2>2. \A x \in Memories : s[InitialNames[x]] = r.init[x] /\ s[names[r.at][x]] = r.mem[x]
    BY <1>4, <2>1 DEF Matches, SameMemory
  <2>3. \A b \in Made : Holds(path_bit[b], s) <=> b \in r.seen
    BY <1>4 DEF Matches, SameBlocks
  <2>4. \A b \in r.seen : \A i \in DOMAIN f.block[b].ops :
          LET o == f.block[b].ops[i] IN Defines(o) => Eval(m[o.reg], s) = r.regs[o.reg]
    BY <1>2, <1>4 DEF Matches, SameRegisters, OpsDone
  <2>5. \A b \in Made' : Holds(path_bit'[b], s) <=> b \in r.seen
    BY <1>1, <1>3, <2>3
  <2>6. \A x \in Memories : s[InitialNames[x]] = r.init[x] /\ s[names'[r.at][x]] = r.mem[x]
    BY <1>1, <2>2
  <2>7. \A b \in r.seen : \A i \in DOMAIN f'.block[b].ops :
          LET o == f'.block[b].ops[i] IN Defines(o) => Eval(m'[o.reg], s) = r.regs[o.reg]
    BY <1>1, <2>4
  <2> QED
    BY <2>5, <2>6, <2>7 DEF Agrees
<1>5. (\A r : Covered(r)' <=> Covered(r)) /\ (MayReturn' <=> MayReturn)
  BY <1>1, <1>3 DEF Covered, MayReturn
<1>6. /\ \A r \in Executions(f) : Covered(r) => \E s \in models' : Matches(s, r)
      /\ MayReturn => \A s \in models' : \E r \in Executions(f) : Covered(r) /\ Matches(s, r)
  BY FinishAdmits
<1>7. RunsAreModels'
  BY <1>1, <1>4, <1>5, <1>6 DEF RunsAreModels
<1>8. ModelsAreRuns'
  BY <1>1, <1>4, <1>5, <1>6 DEF ModelsAreRuns
<1> QED
  BY <1>7, <1>8

(* A step that leaves everything as it is. *)
LEMMA FollowSame ==
  ASSUME UNCHANGED vars
  PROVE  Follow' <=> Follow
<1>1. /\ f' = f /\ bb_vec' = bb_vec /\ pos' = pos /\ m' = m /\ names' = names /\ path_bit' = path_bit
      /\ exit_bits' = exit_bits /\ assert_path_bits' = assert_path_bits /\ models' = models /\ spec_vec' = spec_vec
  BY DEF vars
<1>2. Made' = Made /\ bidx' = bidx /\ Done' = Done /\ AtBlocks' = AtBlocks
  BY <1>1 DEF Made, bidx, Done, AtBlocks
<1>3. Followed' = Followed
  BY <1>1, <1>2 DEF Followed, Outside, Inside, Waiting, AtTheEnd, Entering
<1>4. \A s : Stuck(s)' <=> Stuck(s)
  BY <1>1, <1>2 DEF Stuck, extend_path, Taken, Holds
<1>5. \A s, r : Matches(s, r)' <=> Matches(s, r)
  <2>1. \A s, r : /\ SameBlocks(s, r)' <=> SameBlocks(s, r)
                  /\ SameMemory(s, r)' <=> SameMemory(s, r)
                  /\ Asserted(s)' <=> Asserted(s)
    BY <1>1, <1>2 DEF SameBlocks, SameMemory, MemoryAt, Asserted, Holds
  <2>2. \A s, r : SameRegisters(s, r)' <=> SameRegisters(s, r)
    BY <1>1, <1>2 DEF SameRegisters, OpsDone
  <2>3. \A s, r : SameEdge(s, r)' <=> SameEdge(s, r)
    BY <1>1, <1>2 DEF SameEdge, extend_path, Taken, Holds
  <2>4. \A s, r : SameVerdict(s, r)' <=> SameVerdict(s, r)
    BY <1>1, <1>2 DEF SameVerdict, Refuted, False, Holds, Eval, Claiming
  <2> QED
    BY <2>1, <2>2, <2>3, <2>4 DEF Matches
<1> QED
  BY <1>1, <1>3, <1>4, <1>5 DEF Follow

LEMMA FollowableSame ==
  ASSUME UNCHANGED vars
  PROVE  (Followable' <=> Followable) /\ result' = result
<1>1. /\ f' = f /\ bb_vec' = bb_vec /\ pos' = pos /\ m' = m /\ result' = result
  BY DEF vars
<1>2. Made' = Made /\ bidx' = bidx /\ Done' = Done /\ AtBlocks' = AtBlocks
  BY <1>1 DEF Made, bidx, Done, AtBlocks
<1>3. Ordered' <=> Ordered
  BY <1>1, <1>2 DEF Ordered
<1>4. (Closed' <=> Closed) /\ (Plain' <=> Plain)
  BY <1>1, <1>2 DEF Closed, AllRuns, Plain, Comparisons
<1> QED
  BY <1>1, <1>3, <1>4, FollowSame, Zenon DEF Followable

LEMMA AnswerSame ==
  ASSUME UNCHANGED vars, RunsAreModels, ModelsAreRuns
  PROVE  RunsAreModels' /\ ModelsAreRuns'
<1>1. /\ f' = f /\ bb_vec' = bb_vec /\ m' = m /\ names' = names /\ path_bit' = path_bit
      /\ assert_path_bits' = assert_path_bits /\ models' = models /\ result' = result
  BY DEF vars
<1>2. Made' = Made
  BY <1>1 DEF Made
<1>3. \A s, r : Agrees(s, r)' <=> Agrees(s, r)
  BY <1>1, <1>2 DEF Agrees, Holds
<1>4. (\A r : Covered(r)' <=> Covered(r)) /\ (MayReturn' <=> MayReturn)
  BY <1>1, <1>2 DEF Covered, MayReturn
<1> QED
  BY <1>1, <1>3, <1>4 DEF RunsAreModels, ModelsAreRuns

LEMMA AnswersEnd ==
  ASSUME check_all_spec \/ verify
  PROVE  result' # "" /\ result' # "formula"
<1>1. CASE check_all_spec
  BY <1>1, Zenon DEF check_all_spec
<1>2. CASE verify
  <2> DEFINE Bad == {i \in DOMAIN spec_vec : BaseCase(i) # "base case holds"}
  <2>1. result' = IF Bad = {} THEN "base case holds" ELSE BaseCase(Min(Bad))
    BY <1>2, Zenon DEF verify
  <2>2. \A i : BaseCase(i) \in {"error", "base case FAILED", "base case holds"}
    <3> SUFFICES ASSUME NEW i PROVE BaseCase(i) \in {"error", "base case FAILED", "base case holds"}
      BY Zenon
    <3> QED
      BY Zenon DEF BaseCase
  <2> HIDE DEF Bad
  <2>3. result' \in {"error", "base case FAILED", "base case holds"}
    BY <2>1, <2>2, Zenon
  <2> QED
    BY <2>3, Zenon
<1> QED
  BY <1>1, <1>2, Zenon

LEMMA TranslationGoesOn ==
  ASSUME \/ EnterBlock
         \/ translateNondet \/ translateLoadInst \/ translateStoreInst \/ translateCmpInst
         \/ translatePhiNode \/ assume_to_bmc \/ assert_to_spec
         \/ translateBranch \/ translateSwitchInst \/ translateRetInst \/ translateUnreachableInst
  PROVE  result = "" /\ result' = ""
<1>1. CASE EnterBlock
  <2>1. PICK b \in NextBlocks : Enter(b)
    BY <1>1, Zenon DEF EnterBlock
  <2> QED
    BY <2>1, Zenon DEF Enter
<1>2. CASE translateNondet
  BY <1>2, Zenon DEF translateNondet, Reading
<1>3. CASE translateLoadInst
  BY <1>3, Zenon DEF translateLoadInst, Reading
<1>4. CASE translateStoreInst
  BY <1>4, Zenon DEF translateStoreInst, Reading
<1>5. CASE translateCmpInst
  BY <1>5, Zenon DEF translateCmpInst, Reading
<1>6. CASE translatePhiNode
  BY <1>6, Zenon DEF translatePhiNode, Reading
<1>7. CASE assume_to_bmc
  BY <1>7, Zenon DEF assume_to_bmc, Reading
<1>8. CASE assert_to_spec
  BY <1>8, Zenon DEF assert_to_spec, Reading
<1>9. CASE translateBranch \/ translateSwitchInst \/ translateRetInst \/ translateUnreachableInst
  BY <1>9, Zenon DEF translateBranch, translateSwitchInst, translateRetInst, translateUnreachableInst, Ending
<1> QED
  BY <1>1, <1>2, <1>3, <1>4, <1>5, <1>6, <1>7, <1>8, <1>9, Zenon

(***************************************************************************)
(* The invariant.                                                          *)
(***************************************************************************)
Following ==
  /\ Named
  /\ result = "" => Followable
  /\ RunsAreModels /\ ModelsAreRuns

LEMMA InitFollowing == Init => Following
<1> SUFFICES ASSUME Init PROVE Following
  OBVIOUS
<1>1. result = ""
  BY Zenon DEF Init
<1>2. RunsAreModels /\ ModelsAreRuns
  BY <1>1, Zenon DEF RunsAreModels, ModelsAreRuns
<1> QED
  BY <1>2, InitNamed, InitFollows, Zenon DEF Following

LEMMA FollowingKept == Following /\ [Next]_vars => Following'
<1> SUFFICES ASSUME Following, [Next]_vars PROVE Following'
  OBVIOUS
<1>1. Named' /\ Named /\ Placed
  BY NamedKept, Zenon DEF Following, Named
<1>2. CASE UNCHANGED vars \/ Stop
  <2>1. UNCHANGED vars
    BY <1>2, Zenon DEF Stop
  <2>2. RunsAreModels' /\ ModelsAreRuns'
    BY <2>1, AnswerSame, Zenon DEF Following
  <2> QED
    BY <1>1, <2>1, <2>2, FollowableSame, Zenon DEF Following
<1>3. CASE Finish
  <2>1. Follow
    <3>1. result = ""
      BY <1>3, Zenon DEF Finish
    <3> QED
      BY <3>1, Zenon DEF Following, Followable
  <2>2. result' # ""
    BY <1>3, Zenon DEF Finish
  <2>3. RunsAreModels' /\ ModelsAreRuns'
    <3>1. \E L \in Nat : Typed(L)
      <4>1. result = ""
        BY <1>3, Zenon DEF Finish
      <4> QED
        BY <1>1, <4>1, Zenon DEF Named
    <3> QED
      BY <1>1, <1>3, <2>1, <3>1, FinishFollows
  <2> QED
    BY <1>1, <2>2, <2>3, Zenon DEF Following
<1>4. CASE check_all_spec \/ verify
  <2>1. result' # "" /\ result' # "formula"
    BY <1>4, AnswersEnd, Zenon
  <2> QED
    BY <1>1, <2>1, Zenon DEF Following, RunsAreModels, ModelsAreRuns
<1>5. CASE \/ EnterBlock
           \/ translateNondet \/ translateLoadInst \/ translateStoreInst \/ translateCmpInst
           \/ translatePhiNode \/ assume_to_bmc \/ assert_to_spec
           \/ translateBranch \/ translateSwitchInst \/ translateRetInst \/ translateUnreachableInst
  <2>1. result = "" /\ result' = ""
    BY <1>5, TranslationGoesOn, Zenon
  <2>2. PICK L \in Nat : Typed(L) /\ models # {}
    <3>1. \E L \in Nat : Typed(L) /\ \E s \in models : AlmostNone(s)
      BY <1>1, <2>1, Zenon DEF Named
    <3> QED
      BY <3>1
  <2>3. Followable
    BY <2>1, Zenon DEF Following
  <2>4. Followable'
    BY <1>1, <1>5, <2>2, <2>3, TranslationFollows
  <2>5. result' # "formula"
    BY <2>1, Zenon
  <2> QED
    BY <1>1, <2>4, <2>5, Zenon DEF Following, RunsAreModels, ModelsAreRuns
<1> QED
  BY <1>2, <1>3, <1>4, <1>5, Zenon DEF Next

(***************************************************************************)
(* While bmc_pass translates, block after block, every run through the     *)
(* blocks translated so far has a model, and a model that no assumption    *)
(* has stopped is that of one of these runs.                               *)
(***************************************************************************)
THEOREM ModelsFollow == Spec => []ModelsFollowRuns
<1>1. Spec => []Following
  BY InitFollowing, FollowingKept, PTL DEF Spec
<1>2. Following => ModelsFollowRuns
  BY Zenon DEF Following, Followable, Follow, ModelsFollowRuns
<1> QED
  BY <1>1, <1>2, PTL

(***************************************************************************)
(* No run of the function is lost by the formula of do_bmc: for every      *)
(* function, joins, phi nodes, exit bits and assumption bits together      *)
(* admit each run the formula is about, with all it reads and computes.    *)
(***************************************************************************)
THEOREM NoRunIsLost == Spec => []RunsAreModels
<1>1. Spec => []Following
  BY InitFollowing, FollowingKept, PTL DEF Spec
<1> QED
  BY <1>1, PTL DEF Following

(***************************************************************************)
(* And nothing else is admitted: though a path bit only implies one of the *)
(* edges into its block, each model of the formula of a function that may  *)
(* return is a run of it, on exactly its blocks.                           *)
(***************************************************************************)
THEOREM NothingElseIsAdmitted == Spec => []ModelsAreRuns
<1>1. Spec => []Following
  BY InitFollowing, FollowingKept, PTL DEF Spec
<1> QED
  BY <1>1, PTL DEF Following

-----------------------------------------------------------------------------
(***************************************************************************)
(* The answers.  What they rest on, beside the models and the runs: path   *)
(* bits are 0 or 1 in every model, so that fixing one the model has set    *)
(* changes nothing, and where only assertions are stated the k-th          *)
(* specification has the k-th path bit.                                    *)
(***************************************************************************)
Binary ==
  \A s \in models : /\ \A b \in Made : s[path_bit[b]] \in 0..1
                    /\ \A i \in DOMAIN assert_path_bits : s[assert_path_bits[i]] \in 0..1

Parallel ==
  ~Claiming /\ ~Erring =>
    /\ Len(spec_vec) = Len(assert_path_bits)
    /\ \A i \in DOMAIN spec_vec : spec_vec[i].path = assert_path_bits[i]

BitsSet(u) ==
  /\ \A b \in Made : u[path_bit[b]] \in 0..1
  /\ \A i \in DOMAIN assert_path_bits : u[assert_path_bits[i]] \in 0..1

LEMMA BitsKept ==
  ASSUME Made \subseteq Blocks(f), NEW L \in Nat, NamesIn(L), Binary, NEW s \in models, NEW u, Prolongs(u, s, L)
  PROVE  BitsSet(u)
<1>1. \A b \in Made : path_bit[b] \in 1..L
  BY DEF NamesIn
<1>2. \A i \in DOMAIN assert_path_bits : assert_path_bits[i] \in 1..L
  BY ElementOfSeq, LenProperties DEF NamesIn
<1> QED
  BY <1>1, <1>2 DEF Binary, BitsSet, Prolongs

(* What is appended to a model leaves the values it has. *)
LEMMA Prolonged ==
  ASSUME NEW L \in Nat, NEW s \in [1..L -> Value], NEW v
  PROVE  Prolongs(Append(s, v), s, L)
<1>1. s \in Seq(Value) /\ Len(s) = L
  BY SequencesAre
<1>2. s \in Seq(Value \cup {v}) /\ v \in Value \cup {v}
  BY <1>1, SeqMonotonic
<1> QED
  BY <1>1, <1>2, AppendProperties DEF Prolongs

(* A step of the translation prolongs models. *)
LEMMA OpsProlong ==
  ASSUME Placed, NEW L \in Nat, Typed(L), models # {},
         \/ translateNondet \/ translateLoadInst \/ translateStoreInst \/ translateCmpInst
         \/ translatePhiNode \/ assume_to_bmc \/ assert_to_spec
  PROVE  \A u \in models' : \E s \in models : Prolongs(u, s, L)
<1>1. \A s \in models : s \in [1..L -> Value]
  BY DEF Typed, ModelsIn
<1>2. \A s : Prolongs(s, s, L)
  BY DEF Prolongs
<1>3. CASE models' = models
  BY <1>2, <1>3
<1>4. CASE \A u \in models' : \E s \in models : \E v : u = Append(s, v)
  BY <1>1, <1>4, Prolonged
<1>5. CASE translateNondet
  <2>1. models' = {Append(s, v) : s \in models, v \in Value}
    BY <1>5 DEF translateNondet
  <2> QED
    BY <1>4, <2>1
<1>6. CASE translateLoadInst \/ translateCmpInst \/ assert_to_spec
  BY <1>3, <1>6 DEF translateLoadInst, translateCmpInst, assert_to_spec
<1>7. CASE translateStoreInst
  <2>1. models' = {Append(s, Eval(m[Op.reg], s)) : s \in models}
    BY <1>7 DEF translateStoreInst
  <2> QED
    BY <1>4, <2>1
<1>8. CASE translatePhiNode
  <2>1. models' \subseteq {Append(s, v) : s \in models, v \in Value}
    BY <1>8 DEF translatePhiNode
  <2> QED
    BY <1>4, <2>1
<1>9. CASE assume_to_bmc
  <2>1. models' = {Append(s, Truth(Holds(path_bit[bidx], s) /\ Eval(m[Op.reg], s) # 0)) : s \in models}
    BY <1>9 DEF assume_to_bmc
  <2> QED
    BY <1>4, <2>1
<1> QED
  BY <1>5, <1>6, <1>7, <1>8, <1>9, Zenon

LEMMA SwitchProlongs ==
  ASSUME Placed, NEW L \in Nat, Typed(L), models # {}, translateSwitchInst
  PROVE  \A u \in models' : \E s \in models : Prolongs(u, s, L)
<1> DEFINE e == Block.end
           n == Len(e.to)
           Is(i, t) == Eval(m[e.reg], t) = e.val[i]
           Values(t) == [i \in 1..n |-> Truth(IF i = 1 THEN \A j \in 2..n : ~Is(j, t) ELSE Is(i, t))]
           More1(t) == IF n = 2 THEN Append(t, Values(t)[1]) ELSE t \o Values(t)
<1>1. Ending({"switch"}) /\ models' = {More1(t) : t \in models}
  <2>1. CASE n = 2
    <3>1. Ending({"switch"}) /\ models' = {Append(t, Values(t)[1]) : t \in models}
      BY <2>1 DEF translateSwitchInst
    <3> HIDE DEF n, Values
    <3> QED
      BY <2>1, <3>1
  <2>2. CASE n # 2
    <3>1. Ending({"switch"}) /\ models' = {t \o Values(t) : t \in models}
      BY <2>2 DEF translateSwitchInst
    <3> HIDE DEF n, Values
    <3> QED
      BY <2>2, <3>1
  <2> QED
    BY <2>1, <2>2
<1>2. n \in Nat
  <2>1. pos # 0
    BY <1>1, Zenon DEF Ending
  <2>2. WellFormed(f) /\ bidx \in Blocks(f)
    BY <2>1, AtOp
  <2> QED
    BY <2>2, EndOf DEF Block
<1>3. ASSUME NEW t \in models PROVE Prolongs(More1(t), t, L)
  <2>1. \A i \in 1..n : Truth(IF i = 1 THEN \A j \in 2..n : ~Is(j, t) ELSE Is(i, t)) \in Value
    <3> HIDE DEF n, Is
    <3> QED
      BY ValuesAssumption DEF Truth, Value
  <2>2. Values(t) \in [1..n -> Value]
    <3> HIDE DEF n, Is
    <3> QED
      BY <2>1
  <2>3. t \in [1..L -> Value]
    BY DEF Typed, ModelsIn
  <2> HIDE DEF n, Values
  <2>4. Prolongs(Append(t, Values(t)[1]), t, L)
    BY <2>3, Prolonged
  <2>5. Prolongs(t \o Values(t), t, L)
    BY <1>2, <2>2, <2>3, SomeMore
  <2> QED
    BY <2>4, <2>5
<1> HIDE DEF More1
<1> QED
  BY <1>1, <1>3

LEMMA EndsProlong ==
  ASSUME Placed, NEW L \in Nat, Typed(L), models # {},
         translateBranch \/ translateSwitchInst \/ translateRetInst \/ translateUnreachableInst
  PROVE  \A u \in models' : \E s \in models : Prolongs(u, s, L)
<1>1. \A s \in models : s \in [1..L -> Value]
  BY DEF Typed, ModelsIn
<1>2. \A s : Prolongs(s, s, L)
  BY DEF Prolongs
<1>3. CASE models' = models
  BY <1>2, <1>3
<1>4. CASE \A u \in models' : \E s \in models : \E v : u = Append(s, v)
  BY <1>1, <1>4, Prolonged
<1>5. CASE translateRetInst \/ translateUnreachableInst
  BY <1>3, <1>5, Zenon DEF translateRetInst, translateUnreachableInst
<1>6. CASE translateBranch
  <2>1. models' = models \/ models' = {Append(s, Truth(Eval(m[Block.end.reg], s) # 0)) : s \in models}
    BY <1>6 DEF translateBranch
  <2>2. ASSUME models' = {Append(s, Truth(Eval(m[Block.end.reg], s) # 0)) : s \in models}
        PROVE  \A u \in models' : \E s \in models : \E v : u = Append(s, v)
    BY <2>2
  <2> QED
    BY <1>3, <1>4, <2>1, <2>2
<1>7. CASE translateSwitchInst
  BY <1>7, SwitchProlongs
<1> QED
  BY <1>5, <1>6, <1>7, Zenon

(***************************************************************************)
(* Both hold as long as the pass translates.                               *)
(***************************************************************************)
Marked == Binary /\ Parallel

LEMMA TrueIs ==
  ASSUME NEW L \in Nat, NEW M, ModelsIn(M, L)
  PROVE  \A s \in M : s[TrueBit] = 1
BY ValuesAre DEF ModelsIn, TrueBit

LEMMA InitMarked == Init => Marked
<1> SUFFICES ASSUME Init PROVE Marked
  OBVIOUS
<1>1. bb_vec = <<>> /\ spec_vec = <<>> /\ assert_path_bits = <<>>
  BY Zenon DEF Init
<1>2. Made = {} /\ DOMAIN assert_path_bits = {} /\ DOMAIN spec_vec = {} /\ Len(spec_vec) = Len(assert_path_bits)
  BY <1>1 DEF Made, Range
<1> QED
  BY <1>2 DEF Marked, Binary, Parallel

(* An operation other than those on path bits and specifications, or the end of a block that states nothing. *)
LEMMA MarkedKept ==
  ASSUME Placed, NEW L \in Nat, NamesIn(L), Marked, f' = f, Made' = Made, Made \subseteq Blocks(f),
         \A u \in models' : \E s \in models : Prolongs(u, s, L),
         path_bit' = path_bit, assert_path_bits' = assert_path_bits,
         ~Claiming /\ ~Erring => spec_vec' = spec_vec
  PROVE  Marked'
<1>1. \A u \in models' : BitsSet(u)
  BY BitsKept DEF Marked
<1>2. Binary'
  BY <1>1 DEF Binary, BitsSet
<1>3. (Claiming' <=> Claiming) /\ (Erring' <=> Erring)
  BY DEF Claiming, Erring
<1>4. Parallel'
  BY <1>3 DEF Marked, Parallel
<1> QED
  BY <1>2, <1>4 DEF Marked

LEMMA AssumeMarked ==
  ASSUME Placed, NEW L \in Nat, Typed(L), models # {}, Marked, assume_to_bmc
  PROVE  Marked'
<1> DEFINE val(s) == Truth(Holds(path_bit[bidx], s) /\ Eval(m[Op.reg], s) # 0)
<1>1. /\ Reading({"assume"}) /\ path_bit' = [path_bit EXCEPT ![bidx] = Fresh]
      /\ assert_path_bits' = assert_path_bits /\ spec_vec' = spec_vec
      /\ models' = {Append(s, val(s)) : s \in models}
  BY DEF assume_to_bmc
<1>2. /\ f' = f /\ bidx \in Blocks(f) /\ Made' = Made /\ Made \subseteq Blocks(f)
      /\ NamesIn(L) /\ ModelsIn(models, L) /\ Fresh = L + 1
  BY <1>1, Reader
<1>3. path_bit \in [Blocks(f) -> 1..L]
  BY <1>2 DEF NamesIn
<1>4. \A s : val(s) \in 0..1 /\ val(s) \in Value
  BY ValuesAre DEF Truth
<1>5. ASSUME NEW u \in models' PROVE BitsSet(u)'
  <2>1. PICK s \in models : u = Append(s, val(s))
    BY <1>1
  <2> HIDE DEF val
  <2>2. s \in [1..L -> Value]
    BY <1>2 DEF ModelsIn
  <2>3. u[L + 1] \in 0..1 /\ Prolongs(u, s, L)
    BY <1>4, <2>1, <2>2, OneMore
  <2>4. BitsSet(u)
    BY <1>2, <2>3, BitsKept DEF Marked
  <2>5. \A b \in Made : path_bit'[b] = L + 1 \/ path_bit'[b] = path_bit[b]
    BY <1>1, <1>2, <1>3
  <2> QED
    BY <1>1, <1>2, <2>3, <2>4, <2>5 DEF BitsSet
<1>6. Binary'
  BY <1>5 DEF Binary, BitsSet
<1>7. Parallel'
  BY <1>1, <1>2 DEF Marked, Parallel, Claiming, Erring
<1> QED
  BY <1>6, <1>7 DEF Marked

LEMMA AssertMarked ==
  ASSUME Placed, NEW L \in Nat, Typed(L), models # {}, Marked, assert_to_spec
  PROVE  Marked'
<1> DEFINE n == Len(assert_path_bits)
           k == Len(spec_vec)
           T == [path : 1..L, term : Terms(L)]
           bit == path_bit[bidx]
           e == [path |-> bit, term |-> m[Op.reg]]
<1>1. /\ Reading({"assert"}) /\ path_bit' = path_bit /\ models' = models
      /\ assert_path_bits' = Append(assert_path_bits, bit) /\ spec_vec' = Append(spec_vec, e)
  BY DEF assert_to_spec
<1>2. /\ f' = f /\ bidx \in Made /\ Made' = Made /\ Made \subseteq Blocks(f) /\ NamesIn(L)
      /\ bidx \in Blocks(f) /\ WellFormed(f) /\ pos \in DOMAIN Block.ops /\ Op.op = "assert"
  BY <1>1, Reader
<1>3. /\ assert_path_bits \in Seq(1..L) /\ n \in Nat /\ DOMAIN assert_path_bits = 1..n /\ bit \in 1..L
      /\ spec_vec \in Seq(T) /\ k \in Nat /\ DOMAIN spec_vec = 1..k
  BY <1>2, LenProperties DEF NamesIn
<1>4. /\ DOMAIN assert_path_bits' = 1..(n + 1) /\ Len(assert_path_bits') = n + 1
      /\ \A i \in 1..n : assert_path_bits'[i] = assert_path_bits[i]
      /\ assert_path_bits'[n + 1] = bit
  BY <1>1, <1>3, AppendProperties
<1>5. e.path = bit
  OBVIOUS
<1>6. /\ DOMAIN spec_vec' = 1..(k + 1) /\ Len(spec_vec') = k + 1
      /\ \A i \in 1..k : spec_vec'[i] = spec_vec[i]
      /\ spec_vec'[k + 1] = e
  <2> DEFINE S == T \cup {e}
  <2>1. spec_vec \in Seq(S) /\ e \in S
    <3>1. T \subseteq S
      OBVIOUS
    <3> QED
      BY <1>3, <3>1, SeqMonotonic
  <2> HIDE DEF S, e
  <2> QED
    BY <1>1, <1>3, <2>1, AppendProperties
<1> HIDE DEF n, k, T, e
<1>7. Binary'
  <2> SUFFICES ASSUME NEW s \in models
               PROVE  /\ \A b \in Made : s[path_bit[b]] \in 0..1
                      /\ \A i \in 1..(n + 1) : s[assert_path_bits'[i]] \in 0..1
    BY <1>1, <1>2, <1>4 DEF Binary
  <2>1. /\ \A b \in Made : s[path_bit[b]] \in 0..1
        /\ \A i \in 1..n : s[assert_path_bits[i]] \in 0..1
    BY <1>3 DEF Marked, Binary
  <2>2. s[bit] \in 0..1
    BY <1>2, <2>1
  <2>3. \A i \in 1..(n + 1) : i \in 1..n \/ i = n + 1
    BY <1>3
  <2> QED
    BY <1>4, <2>1, <2>2, <2>3
<1>8. Parallel'
  <2>1. (Claiming' <=> Claiming) /\ (Erring' <=> Erring)
    BY <1>2 DEF Claiming, Erring
  <2> SUFFICES ASSUME ~Claiming, ~Erring
               PROVE  k + 1 = n + 1 /\ \A i \in 1..(k + 1) : spec_vec'[i].path = assert_path_bits'[i]
    BY <1>4, <1>6, <2>1 DEF Parallel
  <2>2. k = n /\ \A i \in 1..k : spec_vec[i].path = assert_path_bits[i]
    BY <1>3 DEF Marked, Parallel, n, k
  <2>3. \A i \in 1..(k + 1) : i \in 1..k \/ i = k + 1
    BY <1>3
  <2> QED
    BY <1>4, <1>5, <1>6, <2>2, <2>3
<1> QED
  BY <1>7, <1>8 DEF Marked

LEMMA EnterMarked ==
  ASSUME Placed, NEW L \in Nat, Typed(L), models # {}, Marked, NEW b \in NextBlocks, Enter(b)
  PROVE  Marked'
<1>1. /\ f' = f /\ Made' = Made \cup {b} /\ assert_path_bits' = assert_path_bits /\ spec_vec' = spec_vec
  BY EnterPlaced, Zenon
<1>2. b \in Blocks(f) /\ Made \subseteq Blocks(f) /\ NamesIn(L) /\ ModelsIn(models, L)
  BY NextIs DEF Typed
<1>3. path_bit \in [Blocks(f) -> 1..L]
  BY <1>2 DEF NamesIn
<1>4. ASSUME NEW u \in models' PROVE BitsSet(u)'
  <2>1. CASE b = 1
    <3>1. path_bit' = [path_bit EXCEPT ![b] = TrueBit] /\ models' = models
      BY <2>1, Zenon DEF Enter
    <3>2. u[TrueBit] = 1 /\ u \in models
      BY <1>2, <3>1, TrueIs
    <3>3. \A c \in Made' : path_bit'[c] = TrueBit \/ (c \in Made /\ path_bit'[c] = path_bit[c])
      BY <1>1, <1>2, <1>3, <3>1
    <3>4. BitsSet(u)
      BY <3>2 DEF Marked, Binary, BitsSet
    <3> QED
      BY <1>1, <3>2, <3>3, <3>4 DEF BitsSet
  <2>2. CASE b # 1
    <3>1. PICK k \in Nat : \E at : EnterIs(b, at, L, k)
      BY <2>2, EnterIsSo
    <3>2. PICK at : EnterIs(b, at, L, k)
      BY <3>1
    <3>3. path_bit' = [path_bit EXCEPT ![b] = L + 1] /\ models' = Entries(b, at, L, L + 1 + k)
      BY <3>2 DEF EnterIs
    <3>4. u[L + 1] \in 0..1 /\ \E s \in models : Prolongs(u, s, L)
      BY <3>3 DEF Entries
    <3>5. BitsSet(u)
      BY <1>2, <3>4, BitsKept DEF Marked
    <3>6. \A c \in Made' : path_bit'[c] = L + 1 \/ (c \in Made /\ path_bit'[c] = path_bit[c])
      BY <1>1, <1>2, <1>3, <3>3
    <3> QED
      BY <1>1, <3>4, <3>5, <3>6 DEF BitsSet
  <2> QED
    BY <2>1, <2>2
<1>5. Binary'
  BY <1>4 DEF Binary, BitsSet
<1>6. Parallel'
  <2>1. (Claiming => Claiming') /\ (Erring => Erring')
    BY <1>1 DEF Claiming, Erring
  <2> QED
    BY <1>1, <2>1 DEF Marked, Parallel
<1> QED
  BY <1>5, <1>6 DEF Marked

(* A block that states nothing ends without a specification. *)
LEMMA EndMarked ==
  ASSUME Placed, NEW L \in Nat, Typed(L), models # {}, Marked,
         translateBranch \/ translateSwitchInst \/ translateRetInst \/ translateUnreachableInst
  PROVE  Marked'
<1>1. PICK kinds : Ending(kinds)
  BY Zenon DEF translateBranch, translateSwitchInst, translateRetInst, translateUnreachableInst
<1>2. /\ f' = f /\ path_bit' = path_bit /\ assert_path_bits' = assert_path_bits /\ Made' = Made /\ Made \subseteq Blocks(f)
      /\ bidx \in Made /\ NamesIn(L) /\ spec_vec \in Seq([path : 1..L, term : Terms(L)])
      /\ WellFormed(f) /\ bidx \in Blocks(f)
  BY <1>1, Ender
<1>3. States
  BY EndStates
<1>4. ASSUME ~Claiming, ~Erring PROVE spec_vec' = spec_vec
  <2>1. Block.claim = {} /\ Block.end.kind # "unreachable"
    BY <1>2, <1>4 DEF Claiming, Erring, Block
  <2>2. Claims = <<>>
    <3>1. pos # 0
      BY <1>1, Zenon DEF Ending
    <3>2. \A i \in DOMAIN Claims : FALSE
      BY <2>1, <3>1, ClaimsAre
    <3>3. Claims \in Seq([path : 1..L, term : Terms(L)])
      BY <1>1, Ender
    <3>4. Claims # <<>> => Len(Claims) \in Nat \ {0} /\ DOMAIN Claims = 1..Len(Claims)
      BY <3>3, EmptySeq, LenProperties
    <3>5. Claims # <<>> => 1 \in DOMAIN Claims
      BY <3>4
    <3> QED
      BY <3>2, <3>5
  <2>3. spec_vec' = spec_vec \o <<>>
    BY <1>3, <2>1, <2>2 DEF States
  <2> QED
    BY <1>2, <2>3, ConcatEmptySeq
<1>5. \A u \in models' : \E s \in models : Prolongs(u, s, L)
  BY EndsProlong
<1> QED
  BY <1>2, <1>4, <1>5, MarkedKept

LEMMA OperationMarked ==
  ASSUME Placed, NEW L \in Nat, Typed(L), models # {}, Marked,
         \/ translateNondet \/ translateLoadInst \/ translateStoreInst \/ translateCmpInst \/ translatePhiNode
  PROVE  Marked'
<1>1. /\ path_bit' = path_bit /\ assert_path_bits' = assert_path_bits /\ spec_vec' = spec_vec
      /\ \E ops : Reading(ops)
  <2>1. CASE translateNondet
    BY <2>1, Zenon DEF translateNondet
  <2>2. CASE translateLoadInst
    BY <2>2, Zenon DEF translateLoadInst
  <2>3. CASE translateStoreInst
    BY <2>3, Zenon DEF translateStoreInst
  <2>4. CASE translateCmpInst
    BY <2>4, Zenon DEF translateCmpInst
  <2>5. CASE translatePhiNode
    BY <2>5, Zenon DEF translatePhiNode
  <2> QED
    BY <2>1, <2>2, <2>3, <2>4, <2>5, Zenon
<1>2. f' = f /\ Made' = Made /\ Made \subseteq Blocks(f) /\ NamesIn(L)
  BY <1>1, Reader
<1>3. \A u \in models' : \E s \in models : Prolongs(u, s, L)
  BY OpsProlong
<1> QED
  BY <1>1, <1>2, <1>3, MarkedKept

LEMMA TranslationMarked ==
  ASSUME Placed, NEW L \in Nat, Typed(L), models # {}, Marked,
         \/ EnterBlock
         \/ translateNondet \/ translateLoadInst \/ translateStoreInst \/ translateCmpInst
         \/ translatePhiNode \/ assume_to_bmc \/ assert_to_spec
         \/ translateBranch \/ translateSwitchInst \/ translateRetInst \/ translateUnreachableInst
  PROVE  Marked'
<1>1. CASE EnterBlock
  <2>1. PICK b \in NextBlocks : Enter(b)
    BY <1>1, Zenon DEF EnterBlock
  <2> QED
    BY <2>1, EnterMarked
<1>2. CASE \/ translateNondet \/ translateLoadInst \/ translateStoreInst \/ translateCmpInst \/ translatePhiNode
  BY <1>2, OperationMarked
<1>3. CASE assume_to_bmc
  BY <1>3, AssumeMarked
<1>4. CASE assert_to_spec
  BY <1>4, AssertMarked
<1>5. CASE translateBranch \/ translateSwitchInst \/ translateRetInst \/ translateUnreachableInst
  BY <1>5, EndMarked
<1> QED
  BY <1>1, <1>2, <1>3, <1>4, <1>5, Zenon

-----------------------------------------------------------------------------
(***************************************************************************)
(* When the formula is complete.                                           *)
(***************************************************************************)
Judged ==
  result = "formula" =>
    /\ Marked /\ \E L \in Nat : Typed(L)
    /\ \A r \in Executions(f) : Covered(r) => \E s \in models : SameVerdict(s, r)
    /\ MayReturn => \A s \in models : \E r \in Executions(f) : Covered(r) /\ SameVerdict(s, r)
    /\ assert_path_bits # <<>> => \A s \in models : Asserted(s)

LEMMA FinishJudged ==
  ASSUME Placed, NEW L \in Nat, Typed(L), Follow, Marked, Finish
  PROVE  Judged'
<1>1. UNCHANGED <<f, bb_vec, pos, m, names, path_bit, exit_bits, spec_vec, assert_path_bits,
                  quant_elim_vars, array_vars>>
  BY Zenon DEF Finish
<1>2. /\ \A r \in Executions(f) : Covered(r) => \E s \in models' : Matches(s, r)
      /\ MayReturn => \A s \in models' : \E r \in Executions(f) : Covered(r) /\ Matches(s, r)
      /\ assert_path_bits # <<>> => \A s \in models' : Asserted(s)
      /\ models' \subseteq models
  BY FinishAdmits
<1>3. Made' = Made
  BY <1>1 DEF Made
<1>4. (Claiming' <=> Claiming) /\ (Erring' <=> Erring) /\ (MayReturn' <=> MayReturn)
  BY <1>1, <1>3 DEF Claiming, Erring, MayReturn
<1>5. Marked'
  <2>1. Binary'
    BY <1>1, <1>2, <1>3 DEF Marked, Binary
  <2>2. Parallel'
    BY <1>1, <1>4 DEF Marked, Parallel
  <2> QED
    BY <2>1, <2>2 DEF Marked
<1>6. Typed(L)'
  <2>1. NamesIn(L)'
    BY <1>1 DEF Typed, NamesIn
  <2>2. ModelsIn(models', L)
    BY <1>2 DEF Typed, ModelsIn
  <2> QED
    BY <2>1, <2>2 DEF Typed, ModelsIn
<1>7. /\ \A s, r : SameVerdict(s, r)' <=> SameVerdict(s, r)
      /\ \A s : Asserted(s)' <=> Asserted(s)
      /\ \A r : Covered(r)' <=> Covered(r)
  BY <1>1, <1>4 DEF SameVerdict, Refuted, False, Holds, Eval, Asserted, Covered
<1>8. \A s, r : Matches(s, r) => SameVerdict(s, r)
  BY DEF Matches
<1>9. \A r \in Executions(f') : Covered(r)' => \E s \in models' : SameVerdict(s, r)'
  BY <1>1, <1>2, <1>7, <1>8
<1>10. MayReturn' => \A s \in models' : \E r \in Executions(f') : Covered(r)' /\ SameVerdict(s, r)'
  BY <1>1, <1>2, <1>4, <1>7, <1>8
<1>11. assert_path_bits' # <<>> => \A s \in models' : Asserted(s)'
  BY <1>1, <1>2, <1>7
<1> QED
  BY <1>5, <1>6, <1>9, <1>10, <1>11 DEF Judged

(* The solver is asked about the specification itself: a model on the path in which it is false ... *)
LEMMA AsksWhatIsFalse ==
  ASSUME NEW L \in Nat, models \subseteq [1..L -> Value], NEW spec \in [path : 1..L, term : Terms(L)],
         NEW bit \in 1..L, NEW s \in models, s[bit] = 1, False(spec, s)
  PROVE  Falsifiable(spec, bit)
<1> DEFINE free == [n \in NamesOf(spec) \cap quant_elim_vars |-> s[n]]
           u == [n \in DOMAIN s |-> IF n = bit THEN 1 ELSE IF n \in DOMAIN free THEN free[n] ELSE s[n]]
<1>1. NamesOf(spec) \subseteq 1..L
  BY DEF NamesOf, Terms
<1>2. s \in [1..L -> Value]
  OBVIOUS
<1>3. free \in [NamesOf(spec) \cap quant_elim_vars -> Value]
  BY <1>1, <1>2
<1>4. u = s
  BY <1>2
<1>5. Holds(bit, s)
  BY DEF Holds
<1> HIDE DEF free
<1>6. False(spec, u)
  BY <1>4
<1> QED
  BY <1>3, <1>5, <1>6 DEF Falsifiable

(* ... and, if its names are not eliminated, finds no other. *)
LEMMA FindsWhatIsFalse ==
  ASSUME NEW L \in Nat, models \subseteq [1..L -> Value], NEW spec \in [path : 1..L, term : Terms(L)],
         NEW bit \in 1..L, \A s \in models : s[bit] \in 0..1,
         {spec.term.left, spec.term.right} \cap quant_elim_vars = {}, Falsifiable(spec, bit)
  PROVE  \E s \in models : Holds(bit, s) /\ Eval(spec.term, s) = 0
<1>1. PICK s \in models : Holds(bit, s) /\
        \E free \in [NamesOf(spec) \cap quant_elim_vars -> Value] :
          False(spec, [n \in DOMAIN s |-> IF n = bit THEN 1 ELSE IF n \in DOMAIN free THEN free[n] ELSE s[n]])
  BY DEF Falsifiable
<1>2. PICK free \in [NamesOf(spec) \cap quant_elim_vars -> Value] :
        False(spec, [n \in DOMAIN s |-> IF n = bit THEN 1 ELSE IF n \in DOMAIN free THEN free[n] ELSE s[n]])
  BY <1>1
<1> DEFINE u == [n \in DOMAIN s |-> IF n = bit THEN 1 ELSE IF n \in DOMAIN free THEN free[n] ELSE s[n]]
<1>3. Eval(spec.term, u) = 0
  BY <1>2 DEF False
<1>4. s \in [1..L -> Value] /\ s[bit] = 1
  BY <1>1 DEF Holds
<1>5. \A n \in {spec.term.left, spec.term.right} : n \in 1..L /\ n \notin DOMAIN free
  BY DEF Terms
<1>6. \A n \in {spec.term.left, spec.term.right} : u[n] = s[n]
  BY <1>4, <1>5
<1> HIDE DEF u
<1>7. Eval(spec.term, u) = Eval(spec.term, s)
  BY <1>6 DEF Eval
<1> QED
  BY <1>1, <1>3, <1>7

LEMMA BadIsFalse ==
  ASSUME Judged, result = "formula", Reaching("bad") # {}
  PROVE  \E s \in models : \E i \in DOMAIN spec_vec : False(spec_vec[i], s)
<1>1. PICK r \in Executions(f) : Covered(r) /\ "bad" \in r.met
  BY DEF Reaching
<1>2. PICK s \in models : SameVerdict(s, r)
  BY <1>1 DEF Judged
<1> QED
  BY <1>1, <1>2 DEF SameVerdict, Refuted

LEMMA FalseIsBad ==
  ASSUME Judged, result = "formula", MayReturn, ~Claiming, NEW s \in models, NEW i \in DOMAIN spec_vec, False(spec_vec[i], s)
  PROVE  Reaching("bad") # {}
<1>1. PICK r \in Executions(f) : Covered(r) /\ SameVerdict(s, r)
  BY DEF Judged
<1>2. "bad" \in r.met
  BY <1>1 DEF SameVerdict, Refuted
<1> QED
  BY <1>1, <1>2 DEF Reaching

LEMMA JudgedIs ==
  ASSUME Judged, result = "formula"
  PROVE  \E L \in Nat :
           /\ models \subseteq [1..L -> Value] /\ TrueBit \in 1..L /\ \A s \in models : s[TrueBit] = 1
           /\ \A i \in DOMAIN spec_vec : spec_vec[i] \in [path : 1..L, term : Terms(L)]
           /\ \A i \in DOMAIN spec_vec : PathBitOf(i) \in 1..L /\ \A s \in models : s[PathBitOf(i)] \in 0..1
           /\ assert_path_bits = <<>> => \A i \in DOMAIN spec_vec : PathBitOf(i) = TrueBit
           /\ ~Claiming /\ ~Erring => \A i \in DOMAIN spec_vec : PathBitOf(i) = spec_vec[i].path
           /\ DOMAIN spec_vec = 1..Len(spec_vec) /\ Len(spec_vec) \in Nat
           /\ ~Claiming /\ ~Erring => Len(spec_vec) = Len(assert_path_bits)
<1>1. PICK L \in Nat : Typed(L)
  BY DEF Judged
<1>2. L >= MaxValue + 1 + Cardinality(Memories) /\ ModelsIn(models, L) /\ NamesIn(L)
  BY <1>1 DEF Typed
<1>3. models \subseteq [1..L -> Value] /\ TrueBit \in 1..L /\ \A s \in models : s[TrueBit] = 1
  BY <1>2, TrueIs, NamesOfConstants DEF ModelsIn
<1> DEFINE T == [path : 1..L, term : Terms(L)]
           n == Len(spec_vec)
           k == Len(assert_path_bits)
<1>4. spec_vec \in Seq(T) /\ assert_path_bits \in Seq(1..L)
  BY <1>2 DEF NamesIn
<1>5. n \in Nat /\ DOMAIN spec_vec = 1..n /\ \A i \in 1..n : spec_vec[i] \in T
  <2> HIDE DEF T
  <2> QED
    BY <1>4, ElementOfSeq, LenProperties
<1>6. /\ k \in Nat /\ DOMAIN assert_path_bits = 1..k /\ \A i \in 1..k : assert_path_bits[i] \in 1..L
  BY <1>4, ElementOfSeq, LenProperties
<1>7. Binary /\ Parallel
  BY DEF Judged, Marked
<1> HIDE DEF T, n
<1>8. \A i \in 1..n : PathBitOf(i) = TrueBit \/ (i \in 1..k /\ PathBitOf(i) = assert_path_bits[i])
  <2> HIDE DEF k
  <2>1. \A i \in 1..n : i <= k => i \in 1..k
    BY <1>5, <1>6
  <2> QED
    BY <2>1 DEF PathBitOf, k
<1>9. \A i \in 1..n : PathBitOf(i) \in 1..L /\ \A s \in models : s[PathBitOf(i)] \in 0..1
  BY <1>3, <1>6, <1>7, <1>8 DEF Binary
<1>10. assert_path_bits = <<>> => \A i \in 1..n : PathBitOf(i) = TrueBit
  BY <1>8
<1>11. ~Claiming /\ ~Erring => n = k /\ \A i \in 1..n : PathBitOf(i) = spec_vec[i].path
  <2> SUFFICES ASSUME ~Claiming, ~Erring
               PROVE  n = k /\ \A i \in 1..n : PathBitOf(i) = spec_vec[i].path
    OBVIOUS
  <2>1. n = k /\ \A i \in 1..n : spec_vec[i].path = assert_path_bits[i]
    BY <1>5, <1>7 DEF Parallel, n
  <2>2. \A i \in 1..n : PathBitOf(i) = assert_path_bits[i]
    BY <2>1 DEF PathBitOf
  <2> QED
    BY <2>1, <2>2
<1> QED
  BY <1>3, <1>5, <1>9, <1>10, <1>11 DEF T, n

LEMMA SolverAnswers ==
  ASSUME Judged, result = "formula", check_all_spec
  PROVE  SuccessIsReal' /\ FailureIsReal'
<1> DEFINE fails == \E i \in DOMAIN spec_vec : Falsifiable(spec_vec[i], TrueBit)
<1>1. /\ result' = IF fails THEN "FAILED" ELSE "SUCCESSFUL"
      /\ UNCHANGED <<f, bb_vec, spec_vec, assert_path_bits, quant_elim_vars, names>>
  BY Zenon DEF check_all_spec
<1>2. Made' = Made
  BY <1>1 DEF Made
<1>3. Reaching("bad")' = Reaching("bad")
  BY <1>1 DEF Reaching, Covered
<1>4. /\ (MayReturn' <=> MayReturn) /\ (Claiming' <=> Claiming) /\ (Erring' <=> Erring) /\ (Retained' <=> Retained)
  BY <1>1, <1>2 DEF MayReturn, Claiming, Erring, Retained
<1>5. PICK L \in Nat :
        /\ models \subseteq [1..L -> Value] /\ TrueBit \in 1..L /\ \A s \in models : s[TrueBit] = 1
        /\ \A i \in DOMAIN spec_vec : spec_vec[i] \in [path : 1..L, term : Terms(L)]
        /\ ~Claiming /\ ~Erring => \A i \in DOMAIN spec_vec : PathBitOf(i) = spec_vec[i].path
        /\ DOMAIN spec_vec = 1..Len(spec_vec) /\ Len(spec_vec) \in Nat
        /\ ~Claiming /\ ~Erring => Len(spec_vec) = Len(assert_path_bits)
  BY JudgedIs
<1>6. ~fails => Reaching("bad") = {}
  <2> SUFFICES ASSUME Reaching("bad") # {} PROVE fails
    OBVIOUS
  <2>1. PICK s \in models : \E i \in DOMAIN spec_vec : False(spec_vec[i], s)
    BY BadIsFalse
  <2>2. PICK i \in DOMAIN spec_vec : False(spec_vec[i], s)
    BY <2>1
  <2>3. Falsifiable(spec_vec[i], TrueBit)
    BY <1>5, <2>2, AsksWhatIsFalse
  <2> QED
    BY <2>3
<1>7. ASSUME ~Claiming, ~Erring, Retained, MayReturn, fails, Len(spec_vec) = 1 PROVE Reaching("bad") # {}
  <2>1. PICK i \in DOMAIN spec_vec : Falsifiable(spec_vec[i], TrueBit)
    BY <1>7
  <2>2. i = 1 /\ Len(assert_path_bits) = 1 /\ DOMAIN spec_vec = {1}
    BY <1>5, <1>7
  <2>3. {spec_vec[i].term.left, spec_vec[i].term.right} \cap quant_elim_vars = {}
    BY <1>7 DEF Retained
  <2>4. PICK s \in models : Holds(TrueBit, s) /\ Eval(spec_vec[i].term, s) = 0
    <3>1. \A s \in models : s[TrueBit] \in 0..1
      BY <1>5
    <3> QED
      BY <1>5, <2>1, <2>3, <3>1, FindsWhatIsFalse
  <2>5. Holds(spec_vec[i].path, s)
    <3>1. assert_path_bits # <<>> /\ DOMAIN assert_path_bits = {1}
      <4>1. \E K \in Nat : assert_path_bits \in Seq(1..K)
        BY DEF Judged, Typed, NamesIn
      <4>2. DOMAIN assert_path_bits = 1..1
        BY <2>2, <4>1, LenProperties
      <4> QED
        BY <2>2, <4>2
    <3>2. Asserted(s)
      BY <3>1 DEF Judged
    <3>3. Holds(assert_path_bits[1], s)
      BY <3>1, <3>2 DEF Asserted
    <3>4. PathBitOf(1) = assert_path_bits[1]
      BY <2>2 DEF PathBitOf
    <3> QED
      BY <1>5, <1>7, <2>2, <3>3, <3>4
  <2>6. False(spec_vec[i], s)
    BY <2>4, <2>5 DEF False
  <2> QED
    BY <1>7, <2>6, FalseIsBad
<1> HIDE DEF fails
<1>8. /\ result' = "SUCCESSFUL" => ~fails
      /\ result' = "FAILED" => fails
      /\ result' # "base case holds" /\ result' # "base case FAILED"
  BY <1>1, Zenon
<1>9. SuccessIsReal'
  BY <1>3, <1>6, <1>8, Zenon DEF SuccessIsReal
<1>10. FailureIsReal'
  <2>1. Len(spec_vec') = Len(spec_vec)
    BY <1>1
  <2> QED
    BY <1>3, <1>4, <1>7, <1>8, <2>1, Zenon DEF FailureIsReal
<1> QED
  BY <1>9, <1>10

LEMMA BaseCaseIs ==
  ASSUME NEW i
  PROVE  /\ BaseCase(i) \in {"error", "base case FAILED", "base case holds"}
         /\ BaseCase(i) = "base case FAILED" => Falsifiable(base_spec(spec_vec[i]), PathBitOf(i))
         /\ BaseCase(i) = "base case holds" => ~Falsifiable(base_spec(spec_vec[i]), PathBitOf(i))
<1>1. CASE NotFound(spec_vec[i])
  BY <1>1, Zenon DEF BaseCase
<1>2. CASE ~NotFound(spec_vec[i])
  <2>1. CASE Falsifiable(base_spec(spec_vec[i]), PathBitOf(i))
    BY <1>2, <2>1, Zenon DEF BaseCase
  <2>2. CASE ~Falsifiable(base_spec(spec_vec[i]), PathBitOf(i))
    BY <1>2, <2>2, Zenon DEF BaseCase
  <2> QED
    BY <2>1, <2>2, Zenon
<1> QED
  BY <1>1, <1>2, Zenon

(* verify prints what the first specification that does not hold makes it print. *)
LEMMA VerifyIs ==
  ASSUME Judged, result = "formula", verify
  PROVE  /\ result' \in {"error", "base case FAILED", "base case holds"}
         /\ result' = "base case FAILED" =>
              \E i \in DOMAIN spec_vec : Falsifiable(base_spec(spec_vec[i]), PathBitOf(i))
         /\ result' = "base case holds" =>
              \A i \in DOMAIN spec_vec : ~Falsifiable(base_spec(spec_vec[i]), PathBitOf(i))
<1> DEFINE Bad == {i \in DOMAIN spec_vec : BaseCase(i) # "base case holds"}
<1>1. result' = IF Bad = {} THEN "base case holds" ELSE BaseCase(Min(Bad))
  BY Zenon DEF verify
<1>2. Bad \subseteq DOMAIN spec_vec /\ \A i \in Bad : BaseCase(i) # "base case holds"
  BY Zenon
<1>3. Bad = {} => \A i \in DOMAIN spec_vec : BaseCase(i) = "base case holds"
  BY Zenon
<1>4. DOMAIN spec_vec \subseteq Nat
  BY JudgedIs
<1>5. Bad \subseteq Nat
  BY <1>2, <1>4, Zenon
<1> HIDE DEF Bad
<1>6. Bad # {} => Min(Bad) \in Bad
  <2>1. Bad # {} => \E i \in Bad : \A j \in Bad : i <= j
    BY <1>5, LeastNatural
  <2> QED
    BY <2>1 DEF Min
<1>7. CASE Bad = {}
  <2>1. result' = "base case holds"
    BY <1>1, <1>7, Zenon
  <2>2. \A i \in DOMAIN spec_vec : ~Falsifiable(base_spec(spec_vec[i]), PathBitOf(i))
    BY <1>3, <1>7, BaseCaseIs, Zenon
  <2> QED
    BY <2>1, <2>2, Zenon
<1>8. CASE Bad # {}
  <2> DEFINE i == Min(Bad)
  <2>1. i \in DOMAIN spec_vec /\ BaseCase(i) # "base case holds" /\ result' = BaseCase(i)
    <3>1. i \in Bad
      BY <1>6, <1>8, Zenon
    <3> HIDE DEF i
    <3>2. i \in DOMAIN spec_vec /\ BaseCase(i) # "base case holds"
      BY <1>2, <3>1, Zenon
    <3> QED
      BY <1>1, <1>8, <3>2, Zenon DEF i
  <2> HIDE DEF i
  <2> QED
    BY <2>1, BaseCaseIs, Zenon
<1> QED
  BY <1>7, <1>8, Zenon

ExitsAmong(g, v) == SelectSeq(v, LAMBDA b : Returns(g, b))

LEMMA ExitsAre == ExitBlocks = ExitsAmong(f, bb_vec)
BY DEF ExitBlocks, ExitsAmong

LEMMA FinalSame ==
  ASSUME f' = f, bb_vec' = bb_vec, names' = names, spec_vec' = spec_vec
  PROVE  Final' <=> Final
<1>1. Made' = Made
  BY DEF Made
<1>2. \A b : Returns(f, b)' <=> Returns(f, b)
  BY DEF Returns
<1>3. ExitBlocks' = ExitBlocks
  <2>1. (ExitBlocks = ExitsAmong(f, bb_vec))'
    BY ExitsAre, PTL
  <2> QED
    BY <2>1, ExitsAre
<1>4. \A n : EndsWith(n)' = EndsWith(n)
  BY <1>1 DEF EndsWith
<1>5. \A n : AtExit(n)' = AtExit(n)
  <2> SUFFICES ASSUME NEW n PROVE AtExit(n)' = AtExit(n)
    OBVIOUS
  <2>1. EndsWith(n)' = EndsWith(n)
    BY <1>4
  <2> QED
    BY <1>3, <2>1 DEF AtExit
<1>6. \A e : base_spec(e)' = base_spec(e)
  <2> SUFFICES ASSUME NEW e PROVE base_spec(e)' = base_spec(e)
    OBVIOUS
  <2>1. AtExit(e.term.left)' = AtExit(e.term.left) /\ AtExit(e.term.right)' = AtExit(e.term.right)
    BY <1>5
  <2> QED
    BY <2>1, Zenon DEF base_spec
<1>7. \A i \in DOMAIN spec_vec : base_spec(spec_vec[i])' = base_spec(spec_vec[i])
  BY <1>6
<1> QED
  BY <1>7 DEF Final

LEMMA VerifyAnswers ==
  ASSUME Judged, result = "formula", verify
  PROVE  SuccessIsReal' /\ FailureIsReal'
<1>1. UNCHANGED <<f, bb_vec, names, spec_vec, assert_path_bits, quant_elim_vars>>
  BY Zenon DEF verify
<1>2. Made' = Made
  BY <1>1 DEF Made
<1>3. Reaching("bad")' = Reaching("bad")
  BY <1>1 DEF Reaching, Covered
<1>4. /\ (MayReturn' <=> MayReturn) /\ (Claiming' <=> Claiming) /\ (Erring' <=> Erring) /\ (Retained' <=> Retained)
  BY <1>1, <1>2 DEF MayReturn, Claiming, Erring, Retained
<1>5. Final' <=> Final
  BY <1>1, FinalSame
<1>6. PICK L \in Nat :
        /\ models \subseteq [1..L -> Value] /\ TrueBit \in 1..L /\ \A s \in models : s[TrueBit] = 1
        /\ \A i \in DOMAIN spec_vec : spec_vec[i] \in [path : 1..L, term : Terms(L)]
        /\ \A i \in DOMAIN spec_vec : PathBitOf(i) \in 1..L /\ \A s \in models : s[PathBitOf(i)] \in 0..1
        /\ assert_path_bits = <<>> => \A i \in DOMAIN spec_vec : PathBitOf(i) = TrueBit
        /\ ~Claiming /\ ~Erring => \A i \in DOMAIN spec_vec : PathBitOf(i) = spec_vec[i].path
  BY JudgedIs
<1>7. ASSUME Final, ~((Claiming \/ Erring) /\ assert_path_bits # <<>>), Reaching("bad") # {}
      PROVE  \E i \in DOMAIN spec_vec : Falsifiable(base_spec(spec_vec[i]), PathBitOf(i))
  <2>1. PICK s \in models : \E i \in DOMAIN spec_vec : False(spec_vec[i], s)
    BY <1>7, BadIsFalse
  <2>2. PICK i \in DOMAIN spec_vec : False(spec_vec[i], s)
    BY <2>1
  <2>3. s[PathBitOf(i)] = 1
    <3>1. CASE assert_path_bits = <<>>
      BY <1>6, <3>1
    <3>2. CASE assert_path_bits # <<>>
      <4>1. Holds(PathBitOf(i), s)
        BY <1>6, <1>7, <2>2, <3>2 DEF False
      <4>2. s[PathBitOf(i)] \in 0..1 /\ PathBitOf(i) > 0
        BY <1>6
      <4> QED
        BY <4>1, <4>2 DEF Holds
    <3> QED
      BY <3>1, <3>2
  <2>4. Falsifiable(spec_vec[i], PathBitOf(i))
    BY <1>6, <2>2, <2>3, AsksWhatIsFalse
  <2> QED
    BY <1>7, <2>4 DEF Final
<1>8. ASSUME ~Claiming, ~Erring, Retained, MayReturn, Final,
             NEW i \in DOMAIN spec_vec, Falsifiable(base_spec(spec_vec[i]), PathBitOf(i))
      PROVE  Reaching("bad") # {}
  <2>1. Falsifiable(spec_vec[i], PathBitOf(i))
    BY <1>8 DEF Final
  <2>2. {spec_vec[i].term.left, spec_vec[i].term.right} \cap quant_elim_vars = {}
    BY <1>8 DEF Retained
  <2>3. PICK s \in models : Holds(PathBitOf(i), s) /\ Eval(spec_vec[i].term, s) = 0
    BY <1>6, <2>1, <2>2, FindsWhatIsFalse
  <2>4. False(spec_vec[i], s)
    BY <1>6, <1>8, <2>3 DEF False
  <2> QED
    BY <1>8, <2>4, FalseIsBad
<1>9. SuccessIsReal'
  <2>1. result' # "SUCCESSFUL"
    BY VerifyIs, Zenon
  <2>2. assert_path_bits' = assert_path_bits
    BY <1>1
  <2> QED
    BY <1>3, <1>4, <1>5, <1>7, <2>1, <2>2, VerifyIs, Zenon DEF SuccessIsReal
<1>10. FailureIsReal'
  <2>1. result' # "FAILED"
    BY VerifyIs, Zenon
  <2> QED
    BY <1>3, <1>4, <1>5, <1>8, <2>1, VerifyIs, Zenon DEF FailureIsReal
<1> QED
  BY <1>9, <1>10

LEMMA AnsweredSame ==
  ASSUME UNCHANGED vars
  PROVE  /\ Judged' <=> Judged
         /\ Marked' <=> Marked
         /\ SuccessIsReal' <=> SuccessIsReal
         /\ FailureIsReal' <=> FailureIsReal
<1>1. UNCHANGED <<f, bb_vec, pos, m, names, path_bit, exit_bits, spec_vec, assert_path_bits,
                  quant_elim_vars, models, array_vars, result>>
  BY DEF vars
<1>2. Made' = Made
  BY <1>1 DEF Made
<1>3. Reaching("bad")' = Reaching("bad")
  BY <1>1 DEF Reaching, Covered
<1>4. /\ (MayReturn' <=> MayReturn) /\ (Claiming' <=> Claiming) /\ (Erring' <=> Erring) /\ (Retained' <=> Retained)
  BY <1>1, <1>2 DEF MayReturn, Claiming, Erring, Retained
<1>5. Final' <=> Final
  BY <1>1, FinalSame
<1>6. Marked' <=> Marked
  BY <1>1, <1>2, <1>4 DEF Marked, Binary, Parallel
<1>7. /\ \A s, r : SameVerdict(s, r)' <=> SameVerdict(s, r)
      /\ \A s : Asserted(s)' <=> Asserted(s)
      /\ \A r : Covered(r)' <=> Covered(r)
  BY <1>1, <1>4 DEF SameVerdict, Refuted, False, Holds, Eval, Asserted, Covered
<1>8. \A L : Typed(L)' <=> Typed(L)
  BY <1>1 DEF Typed, NamesIn, ModelsIn
<1>9. Judged' <=> Judged
  BY <1>1, <1>4, <1>6, <1>7, <1>8 DEF Judged
<1>10. (assert_path_bits' = assert_path_bits) /\ Len(spec_vec') = Len(spec_vec) /\ result' = result
  BY <1>1
<1>11. SuccessIsReal' <=> SuccessIsReal
  BY <1>3, <1>4, <1>5, <1>10, Zenon DEF SuccessIsReal
<1>12. FailureIsReal' <=> FailureIsReal
  BY <1>3, <1>4, <1>5, <1>10, Zenon DEF FailureIsReal
<1> QED
  BY <1>6, <1>9, <1>11, <1>12

(***************************************************************************)
(* The invariant.                                                          *)
(***************************************************************************)
Judging ==
  /\ Named
  /\ result = "" => Followable /\ Marked
  /\ Judged
  /\ SuccessIsReal /\ FailureIsReal

LEMMA InitJudging == Init => Judging
<1> SUFFICES ASSUME Init PROVE Judging
  OBVIOUS
<1>1. result = ""
  BY Zenon DEF Init
<1>2. Judged /\ SuccessIsReal /\ FailureIsReal
  BY <1>1, Zenon DEF Judged, SuccessIsReal, FailureIsReal
<1> QED
  BY <1>2, InitNamed, InitFollows, InitMarked, Zenon DEF Judging

LEMMA NotAnswered ==
  ASSUME result' = "" \/ result' = "formula"
  PROVE  SuccessIsReal' /\ FailureIsReal'
BY Zenon DEF SuccessIsReal, FailureIsReal

LEMMA JudgingKept == Judging /\ [Next]_vars => Judging'
<1> SUFFICES ASSUME Judging, [Next]_vars PROVE Judging'
  OBVIOUS
<1>1. Named' /\ Named /\ Placed
  BY NamedKept, Zenon DEF Judging, Named
<1>2. CASE UNCHANGED vars \/ Stop
  <2>1. UNCHANGED vars
    BY <1>2, Zenon DEF Stop
  <2> QED
    BY <1>1, <2>1, FollowableSame, AnsweredSame, Zenon DEF Judging
<1>3. CASE Finish
  <2>1. result = "" /\ result' = "formula"
    BY <1>3, Zenon DEF Finish
  <2>2. Follow /\ Marked
    BY <2>1, Zenon DEF Judging, Followable
  <2>3. \E L \in Nat : Typed(L)
    BY <1>1, <2>1, Zenon DEF Named
  <2>4. Judged'
    BY <1>1, <1>3, <2>2, <2>3, FinishJudged
  <2>5. result' # ""
    BY <2>1, Zenon
  <2> QED
    BY <1>1, <2>1, <2>4, <2>5, NotAnswered, Zenon DEF Judging
<1>4. CASE check_all_spec \/ verify
  <2>1. result' # "" /\ result' # "formula"
    BY <1>4, AnswersEnd, Zenon
  <2>2. result = "formula"
    BY <1>4, Zenon DEF check_all_spec, verify
  <2>3. SuccessIsReal' /\ FailureIsReal'
    BY <1>4, <2>2, SolverAnswers, VerifyAnswers, Zenon DEF Judging
  <2> QED
    BY <1>1, <2>1, <2>3, Zenon DEF Judging, Judged
<1>5. CASE \/ EnterBlock
           \/ translateNondet \/ translateLoadInst \/ translateStoreInst \/ translateCmpInst
           \/ translatePhiNode \/ assume_to_bmc \/ assert_to_spec
           \/ translateBranch \/ translateSwitchInst \/ translateRetInst \/ translateUnreachableInst
  <2>1. result = "" /\ result' = ""
    BY <1>5, TranslationGoesOn, Zenon
  <2>2. PICK L \in Nat : Typed(L) /\ models # {}
    <3>1. \E L \in Nat : Typed(L) /\ \E s \in models : AlmostNone(s)
      BY <1>1, <2>1, Zenon DEF Named
    <3> QED
      BY <3>1
  <2>3. Followable /\ Marked
    BY <2>1, Zenon DEF Judging
  <2>4. Followable' /\ Marked'
    BY <1>1, <1>5, <2>2, <2>3, TranslationFollows, TranslationMarked
  <2>5. result' # "formula"
    BY <2>1, Zenon
  <2> QED
    BY <1>1, <2>1, <2>4, <2>5, NotAnswered, Zenon DEF Judging, Judged
<1> QED
  BY <1>2, <1>3, <1>4, <1>5, Zenon DEF Next

(***************************************************************************)
(* A verdict of success is real: where check_all_spec prints SUCCESSFUL,   *)
(* or verify finds the base case to hold (its specifications being about   *)
(* the arrays at the exit, and paired with their own path bits), no run    *)
(* of the function the formula is about fails.                             *)
(***************************************************************************)
THEOREM SuccessesAreReal == Spec => []SuccessIsReal
<1>1. Spec => []Judging
  BY InitJudging, JudgingKept, PTL DEF Spec
<1> QED
  BY <1>1, PTL DEF Judging

(***************************************************************************)
(* And so is one of failure: where no name of a specification is           *)
(* eliminated and only assertions are stated, a base case that verify      *)
(* finds to fail, or a single specification that check_all_spec does, is   *)
(* the failure of a run.                                                   *)
(***************************************************************************)
THEOREM FailuresAreReal == Spec => []FailureIsReal
<1>1. Spec => []Judging
  BY InitJudging, JudgingKept, PTL DEF Spec
<1> QED
  BY <1>1, PTL DEF Judging
=============================================================================
