-------------------------- MODULE DifferenceProofs --------------------------
(***************************************************************************)
(* The difference function and P_N, side by side: what the pass has to     *)
(* record, to insert and to leave in the place of a store for the one to   *)
(* make of the arrays of P_(N-1) those of the other.                       *)
(***************************************************************************)
EXTENDS DiffRun, NaturalSets, SequenceTheorems

-----------------------------------------------------------------------------
(***************************************************************************)
(* Sums and runs, one step at a time.                                     *)
(***************************************************************************)

(* The greatest number of a set of positions. *)
LEMMA MaxIs ==
  ASSUME NEW q \in Nat, NEW s \in SUBSET (1..q)
  PROVE  /\ s # {} => Max(s) \in s
         /\ q \in s => Max(s) = q
<1> SUFFICES ASSUME s # {} PROVE Max(s) \in s /\ (q \in s => Max(s) = q)
  OBVIOUS
<1> DEFINE T == {q - x : x \in s}
<1>1. T \in SUBSET Nat
  <2>1. \A x \in s : q - x \in Nat
    OBVIOUS
  <2> QED
    BY <2>1
<1>2. T # {}
  OBVIOUS
<1>3. PICK t \in T : \A u \in T : t <= u
  <2> HIDE DEF T
  <2> QED
    BY <1>1, <1>2, LeastNatural
<1>4. PICK x \in s : t = q - x
  OBVIOUS
<1>5. ASSUME NEW y \in s PROVE y <= x
  <2>1. q - y \in T
    OBVIOUS
  <2>2. q - x <= q - y
    BY <1>3, <1>4, <2>1
  <2>3. x \in Nat /\ y \in Nat
    OBVIOUS
  <2> QED
    BY <2>2, <2>3
<1>6. Max(s) \in s /\ \A y \in s : y <= Max(s)
  BY <1>5 DEF Max
<1>7. Max(s) \in 1..q
  BY <1>6
<1>8. q \in s => q <= Max(s)
  BY <1>6
<1> QED
  BY <1>6, <1>7, <1>8

(* Taking the greatest out of the first k. *)
LEMMA FirstOnes ==
  ASSUME NEW n \in Nat, NEW k \in 1..n
  PROVE  1..k \in SUBSET (1..n) /\ 1..k # {} /\ Max(1..k) = k /\ (1..k) \ {Max(1..k)} = 1..(k - 1)
<1>1. k \in Nat /\ 1..k \in SUBSET (1..k) /\ k \in 1..k
  OBVIOUS
<1>2. Max(1..k) = k
  BY <1>1, MaxIs
<1>3. (1..k) \ {k} = 1..(k - 1)
  OBVIOUS
<1> QED
  BY <1>1, <1>2, <1>3

(* A sum, one partial sum after each number. *)
SumSteps(run, seq, n) ==
  /\ run[0] = 0 /\ Sum(seq) = run[n]
  /\ \A k \in 1..n : run[k] = run[k - 1] + seq[k]

LEMMA SumTrace ==
  ASSUME NEW seq, NEW n \in Nat, DOMAIN seq = 1..n
  PROVE  \E run : SumSteps(run, seq, n)
<1> DEFINE Iter(f, q) ==
             f = [s \in SUBSET (1..q) |->
                    IF s = {} THEN 0 ELSE f[s \ {Max(s)}] + seq[Max(s)]]
           S == {q \in 0..n : \E f : Iter(f, q)}
<1>1. 0 \in S
  <2>1. Iter([s \in SUBSET (1..0) |-> 0], 0)
    OBVIOUS
  <2> QED
    BY <2>1
<1>2. ASSUME NEW q \in 0..(n - 1), q \in S PROVE q + 1 \in S
  <2>0. q \in Nat /\ q + 1 \in 0..n /\ q + 1 \in Nat
    OBVIOUS
  <2>1. PICK f : Iter(f, q)
    BY <1>2
  <2> DEFINE g == [s \in SUBSET (1..(q + 1)) |->
                     IF q + 1 \in s THEN f[s \ {q + 1}] + seq[q + 1] ELSE f[s]]
  <2>2. \A s \in SUBSET (1..q) : s \in SUBSET (1..(q + 1)) /\ q + 1 \notin s
    BY <2>0
  <2>3. \A s \in SUBSET (1..q) : g[s] = f[s]
    BY <2>2
  <2>4. ASSUME NEW s \in SUBSET (1..(q + 1)), s # {}
        PROVE  g[s] = g[s \ {Max(s)}] + seq[Max(s)]
    <3>1. CASE q + 1 \in s
      <4>1. Max(s) = q + 1
        BY <2>0, <3>1, MaxIs
      <4>2. s \ {q + 1} \in SUBSET (1..q)
        BY <2>0
      <4> QED
        BY <2>3, <3>1, <4>1, <4>2
    <3>2. CASE q + 1 \notin s
      <4>1. s \in SUBSET (1..q)
        BY <2>0, <3>2
      <4>2. s \ {Max(s)} \in SUBSET (1..q)
        BY <4>1
      <4>3. f[s] = f[s \ {Max(s)}] + seq[Max(s)]
        BY <2>1, <2>4, <4>1
      <4> QED
        BY <2>3, <4>1, <4>2, <4>3
    <3> QED
      BY <3>1, <3>2
  <2>5. {} \in SUBSET (1..q) /\ g[{}] = 0
    BY <2>1, <2>3
  <2>6. DOMAIN g = SUBSET (1..(q + 1))
    OBVIOUS
  <2>7. Iter(g, q + 1)
    <3> HIDE DEF g
    <3> SUFFICES g = [s \in SUBSET (1..(q + 1)) |->
                    IF s = {} THEN 0 ELSE g[s \ {Max(s)}] + seq[Max(s)]]
      OBVIOUS
    <3>1. g = [s \in SUBSET (1..(q + 1)) |-> g[s]]
      BY <2>6 DEF g
    <3> QED
      BY <2>4, <2>5, <3>1
  <2> QED
    BY <2>0, <2>7
<1>3. n \in S
  <2> HIDE DEF S
  <2>1. 0..n \subseteq S
    BY <1>1, <1>2, SetInduction
  <2> QED
    BY <2>1
<1> DEFINE iter == CHOOSE f : Iter(f, n)
<1>4. Iter(iter, n)
  <2>1. \E f : Iter(f, n)
    BY <1>3
  <2> HIDE DEF Iter
  <2> QED
    BY <2>1
<1>5. Sum(seq) = iter[1..n]
  BY DEF Sum, FoldLeft, MapThenFoldSet
<1> DEFINE run == [k \in 0..n |-> iter[1..k]]
<1> HIDE DEF iter, S
<1>6. run[0] = 0 /\ run[n] = iter[1..n]
  <2>1. 1..0 = {} /\ {} \in SUBSET (1..n) /\ 0 \in 0..n /\ n \in 0..n
    OBVIOUS
  <2> QED
    BY <1>4, <2>1
<1>7. ASSUME NEW k \in 1..n PROVE run[k] = run[k - 1] + seq[k]
  <2>1. k \in 0..n /\ k - 1 \in 0..n
    OBVIOUS
  <2>2. /\ 1..k \in SUBSET (1..n) /\ 1..k # {} /\ Max(1..k) = k
        /\ (1..k) \ {Max(1..k)} = 1..(k - 1)
    BY FirstOnes
  <2>3. iter[1..k] = iter[1..(k - 1)] + seq[k]
    BY <1>4, <2>2
  <2>4. run[k] = iter[1..k] /\ run[k - 1] = iter[1..(k - 1)]
    BY <2>1
  <2> HIDE DEF run
  <2> QED
    BY <2>3, <2>4
<1> QED
  <2> HIDE DEF run
  <2> QED
    BY <1>5, <1>6, <1>7 DEF SumSteps

(* A recorded value is multiplied by N - 1 as often as it says. *)
ScaleSteps(run, v, N, regs, n) ==
  /\ run[0] = TermDifference(v.term, N) + regs[v.load] /\ DiffValue(v, N, regs) = run[n]
  /\ \A k \in 1..n : run[k] = run[k - 1] * (N - 1)

LEMMA ScaleTrace ==
  ASSUME NEW v, NEW N, NEW regs, NEW n \in Nat, n = v.times
  PROVE  \E run : ScaleSteps(run, v, N, regs, n)
<1> DEFINE Iter(f, q) ==
             f = [s \in SUBSET (1..q) |->
                    IF s = {} THEN TermDifference(v.term, N) + regs[v.load] ELSE f[s \ {Max(s)}] * (N - 1)]
           S == {q \in 0..n : \E f : Iter(f, q)}
<1>1. 0 \in S
  <2>1. Iter([s \in SUBSET (1..0) |-> TermDifference(v.term, N) + regs[v.load]], 0)
    OBVIOUS
  <2> QED
    BY <2>1
<1>2. ASSUME NEW q \in 0..(n - 1), q \in S PROVE q + 1 \in S
  <2>0. q \in Nat /\ q + 1 \in 0..n /\ q + 1 \in Nat
    OBVIOUS
  <2>1. PICK f : Iter(f, q)
    BY <1>2
  <2> DEFINE g == [s \in SUBSET (1..(q + 1)) |->
                     IF q + 1 \in s THEN f[s \ {q + 1}] * (N - 1) ELSE f[s]]
  <2>2. \A s \in SUBSET (1..q) : s \in SUBSET (1..(q + 1)) /\ q + 1 \notin s
    BY <2>0
  <2>3. \A s \in SUBSET (1..q) : g[s] = f[s]
    BY <2>2
  <2>4. ASSUME NEW s \in SUBSET (1..(q + 1)), s # {}
        PROVE  g[s] = g[s \ {Max(s)}] * (N - 1)
    <3>1. CASE q + 1 \in s
      <4>1. Max(s) = q + 1
        BY <2>0, <3>1, MaxIs
      <4>2. s \ {q + 1} \in SUBSET (1..q)
        BY <2>0
      <4> QED
        BY <2>3, <3>1, <4>1, <4>2
    <3>2. CASE q + 1 \notin s
      <4>1. s \in SUBSET (1..q)
        BY <2>0, <3>2
      <4>2. s \ {Max(s)} \in SUBSET (1..q)
        BY <4>1
      <4>3. f[s] = f[s \ {Max(s)}] * (N - 1)
        BY <2>1, <2>4, <4>1
      <4> QED
        BY <2>3, <4>1, <4>2, <4>3
    <3> QED
      BY <3>1, <3>2
  <2>5. {} \in SUBSET (1..q) /\ g[{}] = TermDifference(v.term, N) + regs[v.load]
    BY <2>1, <2>3
  <2>6. DOMAIN g = SUBSET (1..(q + 1))
    OBVIOUS
  <2>7. Iter(g, q + 1)
    <3> HIDE DEF g
    <3> SUFFICES g = [s \in SUBSET (1..(q + 1)) |->
                    IF s = {} THEN TermDifference(v.term, N) + regs[v.load] ELSE g[s \ {Max(s)}] * (N - 1)]
      OBVIOUS
    <3>1. g = [s \in SUBSET (1..(q + 1)) |-> g[s]]
      BY <2>6 DEF g
    <3> QED
      BY <2>4, <2>5, <3>1
  <2> QED
    BY <2>0, <2>7
<1>3. n \in S
  <2> HIDE DEF S
  <2>1. 0..n \subseteq S
    BY <1>1, <1>2, SetInduction
  <2> QED
    BY <2>1
<1> DEFINE iter == CHOOSE f : Iter(f, n)
<1>4. Iter(iter, n)
  <2>1. \E f : Iter(f, n)
    BY <1>3
  <2> HIDE DEF Iter
  <2> QED
    BY <2>1
<1>5. DiffValue(v, N, regs) = iter[1..n]
  BY DEF DiffValue, FoldLeft, MapThenFoldSet
<1> DEFINE run == [k \in 0..n |-> iter[1..k]]
<1> HIDE DEF iter, S
<1>6. run[0] = TermDifference(v.term, N) + regs[v.load] /\ run[n] = iter[1..n]
  <2>1. 1..0 = {} /\ {} \in SUBSET (1..n) /\ 0 \in 0..n /\ n \in 0..n
    OBVIOUS
  <2> QED
    BY <1>4, <2>1
<1>7. ASSUME NEW k \in 1..n PROVE run[k] = run[k - 1] * (N - 1)
  <2>1. k \in 0..n /\ k - 1 \in 0..n
    OBVIOUS
  <2>2. /\ 1..k \in SUBSET (1..n) /\ 1..k # {} /\ Max(1..k) = k
        /\ (1..k) \ {Max(1..k)} = 1..(k - 1)
    BY FirstOnes
  <2>3. iter[1..k] = iter[1..(k - 1)] * (N - 1)
    BY <1>4, <2>2
  <2>4. run[k] = iter[1..k] /\ run[k - 1] = iter[1..(k - 1)]
    BY <2>1
  <2> HIDE DEF run
  <2> QED
    BY <2>3, <2>4
<1> QED
  <2> HIDE DEF run
  <2> QED
    BY <1>5, <1>6, <1>7 DEF ScaleSteps

(* The stores of a body, one memory after each. *)
BodySteps(run, m, item, N, i, n) ==
  /\ run[0] = m /\ Body(m, item, N, i) = run[n]
  /\ \A k \in 1..n : run[k] = Assigned(run[k - 1], item.body[k].arr, i, StoreValue(run[k - 1], item.body[k], N, i))

LEMMA BodyTrace ==
  ASSUME NEW m, NEW item, NEW N, NEW i, NEW n \in Nat, DOMAIN item.body = 1..n, ~item.ofN
  PROVE  \E run : BodySteps(run, m, item, N, i, n)
<1> DEFINE Iter(f, q) ==
             f = [s \in SUBSET (1..q) |->
                    IF s = {} THEN m ELSE Assigned(f[s \ {Max(s)}], item.body[Max(s)].arr, i, StoreValue(f[s \ {Max(s)}], item.body[Max(s)], N, i))]
           S == {q \in 0..n : \E f : Iter(f, q)}
<1>1. 0 \in S
  <2>1. Iter([s \in SUBSET (1..0) |-> m], 0)
    OBVIOUS
  <2> QED
    BY <2>1
<1>2. ASSUME NEW q \in 0..(n - 1), q \in S PROVE q + 1 \in S
  <2>0. q \in Nat /\ q + 1 \in 0..n /\ q + 1 \in Nat
    OBVIOUS
  <2>1. PICK f : Iter(f, q)
    BY <1>2
  <2> DEFINE g == [s \in SUBSET (1..(q + 1)) |->
                     IF q + 1 \in s THEN Assigned(f[s \ {q + 1}], item.body[q + 1].arr, i, StoreValue(f[s \ {q + 1}], item.body[q + 1], N, i)) ELSE f[s]]
  <2>2. \A s \in SUBSET (1..q) : s \in SUBSET (1..(q + 1)) /\ q + 1 \notin s
    BY <2>0
  <2>3. \A s \in SUBSET (1..q) : g[s] = f[s]
    BY <2>2
  <2>4. ASSUME NEW s \in SUBSET (1..(q + 1)), s # {}
        PROVE  g[s] = Assigned(g[s \ {Max(s)}], item.body[Max(s)].arr, i, StoreValue(g[s \ {Max(s)}], item.body[Max(s)], N, i))
    <3>1. CASE q + 1 \in s
      <4>1. Max(s) = q + 1
        BY <2>0, <3>1, MaxIs
      <4>2. s \ {q + 1} \in SUBSET (1..q)
        BY <2>0
      <4> QED
        BY <2>3, <3>1, <4>1, <4>2
    <3>2. CASE q + 1 \notin s
      <4>1. s \in SUBSET (1..q)
        BY <2>0, <3>2
      <4>2. s \ {Max(s)} \in SUBSET (1..q)
        BY <4>1
      <4>3. f[s] = Assigned(f[s \ {Max(s)}], item.body[Max(s)].arr, i, StoreValue(f[s \ {Max(s)}], item.body[Max(s)], N, i))
        BY <2>1, <2>4, <4>1
      <4> QED
        BY <2>3, <4>1, <4>2, <4>3
    <3> QED
      BY <3>1, <3>2
  <2>5. {} \in SUBSET (1..q) /\ g[{}] = m
    BY <2>1, <2>3
  <2>6. DOMAIN g = SUBSET (1..(q + 1))
    OBVIOUS
  <2>7. Iter(g, q + 1)
    <3> HIDE DEF g
    <3> SUFFICES g = [s \in SUBSET (1..(q + 1)) |->
                    IF s = {} THEN m ELSE Assigned(g[s \ {Max(s)}], item.body[Max(s)].arr, i, StoreValue(g[s \ {Max(s)}], item.body[Max(s)], N, i))]
      OBVIOUS
    <3>1. g = [s \in SUBSET (1..(q + 1)) |-> g[s]]
      BY <2>6 DEF g
    <3> QED
      BY <2>4, <2>5, <3>1
  <2> QED
    BY <2>0, <2>7
<1>3. n \in S
  <2> HIDE DEF S
  <2>1. 0..n \subseteq S
    BY <1>1, <1>2, SetInduction
  <2> QED
    BY <2>1
<1> DEFINE iter == CHOOSE f : Iter(f, n)
<1>4. Iter(iter, n)
  <2>1. \E f : Iter(f, n)
    BY <1>3
  <2> HIDE DEF Iter
  <2> QED
    BY <2>1
<1>5. Body(m, item, N, i) = iter[1..n]
  BY DEF Body, FoldLeft, MapThenFoldSet
<1> DEFINE run == [k \in 0..n |-> iter[1..k]]
<1> HIDE DEF iter, S
<1>6. run[0] = m /\ run[n] = iter[1..n]
  <2>1. 1..0 = {} /\ {} \in SUBSET (1..n) /\ 0 \in 0..n /\ n \in 0..n
    OBVIOUS
  <2> QED
    BY <1>4, <2>1
<1>7. ASSUME NEW k \in 1..n PROVE run[k] = Assigned(run[k - 1], item.body[k].arr, i, StoreValue(run[k - 1], item.body[k], N, i))
  <2>1. k \in 0..n /\ k - 1 \in 0..n
    OBVIOUS
  <2>2. /\ 1..k \in SUBSET (1..n) /\ 1..k # {} /\ Max(1..k) = k
        /\ (1..k) \ {Max(1..k)} = 1..(k - 1)
    BY FirstOnes
  <2>3. iter[1..k] = Assigned(iter[1..(k - 1)], item.body[k].arr, i, StoreValue(iter[1..(k - 1)], item.body[k], N, i))
    BY <1>4, <2>2
  <2>4. run[k] = iter[1..k] /\ run[k - 1] = iter[1..(k - 1)]
    BY <2>1
  <2> HIDE DEF run
  <2> QED
    BY <2>3, <2>4
<1> QED
  <2> HIDE DEF run
  <2> QED
    BY <1>5, <1>6, <1>7 DEF BodySteps

(* A loop, one memory after each of its iterations. *)
LoopSteps(run, m, item, N, n) ==
  /\ run[0] = m /\ AfterItem(m, item, N) = run[n]
  /\ \A k \in 1..n : run[k] = Body(run[k - 1], item, N, item.first + k - 1)

LEMMA LoopTrace ==
  ASSUME NEW m, NEW item, NEW N, NEW n \in Nat, item.loop, n = N - item.first
  PROVE  \E run : LoopSteps(run, m, item, N, n)
<1> DEFINE count == [k \in 1..n |-> item.first + k - 1]
<1>a. DOMAIN count = 1..n /\ \A k \in 1..n : count[k] = item.first + k - 1
  OBVIOUS
<1>b. AfterItem(m, item, N) = FoldLeft(LAMBDA mem, i : Body(mem, item, N, i), m, count)
  BY DEF AfterItem
<1> HIDE DEF count
<1> DEFINE Iter(f, q) ==
             f = [s \in SUBSET (1..q) |->
                    IF s = {} THEN m ELSE Body(f[s \ {Max(s)}], item, N, count[Max(s)])]
           S == {q \in 0..n : \E f : Iter(f, q)}
<1>1. 0 \in S
  <2>1. Iter([s \in SUBSET (1..0) |-> m], 0)
    OBVIOUS
  <2> QED
    BY <2>1
<1>2. ASSUME NEW q \in 0..(n - 1), q \in S PROVE q + 1 \in S
  <2>0. q \in Nat /\ q + 1 \in 0..n /\ q + 1 \in Nat
    OBVIOUS
  <2>1. PICK f : Iter(f, q)
    BY <1>2
  <2> DEFINE g == [s \in SUBSET (1..(q + 1)) |->
                     IF q + 1 \in s THEN Body(f[s \ {q + 1}], item, N, count[q + 1]) ELSE f[s]]
  <2>2. \A s \in SUBSET (1..q) : s \in SUBSET (1..(q + 1)) /\ q + 1 \notin s
    BY <2>0
  <2>3. \A s \in SUBSET (1..q) : g[s] = f[s]
    BY <2>2
  <2>4. ASSUME NEW s \in SUBSET (1..(q + 1)), s # {}
        PROVE  g[s] = Body(g[s \ {Max(s)}], item, N, count[Max(s)])
    <3>1. CASE q + 1 \in s
      <4>1. Max(s) = q + 1
        BY <2>0, <3>1, MaxIs
      <4>2. s \ {q + 1} \in SUBSET (1..q)
        BY <2>0
      <4> QED
        BY <2>3, <3>1, <4>1, <4>2
    <3>2. CASE q + 1 \notin s
      <4>1. s \in SUBSET (1..q)
        BY <2>0, <3>2
      <4>2. s \ {Max(s)} \in SUBSET (1..q)
        BY <4>1
      <4>3. f[s] = Body(f[s \ {Max(s)}], item, N, count[Max(s)])
        BY <2>1, <2>4, <4>1
      <4> QED
        BY <2>3, <4>1, <4>2, <4>3
    <3> QED
      BY <3>1, <3>2
  <2>5. {} \in SUBSET (1..q) /\ g[{}] = m
    BY <2>1, <2>3
  <2>6. DOMAIN g = SUBSET (1..(q + 1))
    OBVIOUS
  <2>7. Iter(g, q + 1)
    <3> HIDE DEF g
    <3> SUFFICES g = [s \in SUBSET (1..(q + 1)) |->
                    IF s = {} THEN m ELSE Body(g[s \ {Max(s)}], item, N, count[Max(s)])]
      OBVIOUS
    <3>1. g = [s \in SUBSET (1..(q + 1)) |-> g[s]]
      BY <2>6 DEF g
    <3> QED
      BY <2>4, <2>5, <3>1
  <2> QED
    BY <2>0, <2>7
<1>3. n \in S
  <2> HIDE DEF S
  <2>1. 0..n \subseteq S
    BY <1>1, <1>2, SetInduction
  <2> QED
    BY <2>1
<1> DEFINE iter == CHOOSE f : Iter(f, n)
<1>4. Iter(iter, n)
  <2>1. \E f : Iter(f, n)
    BY <1>3
  <2> HIDE DEF Iter
  <2> QED
    BY <2>1
<1>5. AfterItem(m, item, N) = iter[1..n]
  BY <1>a, <1>b DEF FoldLeft, MapThenFoldSet
<1> DEFINE run == [k \in 0..n |-> iter[1..k]]
<1> HIDE DEF iter, S
<1>6. run[0] = m /\ run[n] = iter[1..n]
  <2>1. 1..0 = {} /\ {} \in SUBSET (1..n) /\ 0 \in 0..n /\ n \in 0..n
    OBVIOUS
  <2> QED
    BY <1>4, <2>1
<1>7. ASSUME NEW k \in 1..n PROVE run[k] = Body(run[k - 1], item, N, item.first + k - 1)
  <2>1. k \in 0..n /\ k - 1 \in 0..n
    OBVIOUS
  <2>2. /\ 1..k \in SUBSET (1..n) /\ 1..k # {} /\ Max(1..k) = k
        /\ (1..k) \ {Max(1..k)} = 1..(k - 1)
    BY FirstOnes
  <2>3. iter[1..k] = Body(iter[1..(k - 1)], item, N, count[k])
    BY <1>4, <2>2
  <2>4. run[k] = iter[1..k] /\ run[k - 1] = iter[1..(k - 1)] /\ count[k] = item.first + k - 1
    BY <1>a, <2>1
  <2> HIDE DEF run
  <2> QED
    BY <2>3, <2>4
<1> QED
  <2> HIDE DEF run
  <2> QED
    BY <1>5, <1>6, <1>7 DEF LoopSteps

(* A function, one memory after each item. *)
ProgSteps(run, N, n) ==
  /\ run[0] = At0 /\ Final(N) = run[n]
  /\ \A k \in 1..n : run[k] = AfterItem(run[k - 1], prog[k], N)

LEMMA ProgTrace ==
  ASSUME NEW N, NEW n \in Nat, DOMAIN prog = 1..n
  PROVE  \E run : ProgSteps(run, N, n)
<1> DEFINE Iter(f, q) ==
             f = [s \in SUBSET (1..q) |->
                    IF s = {} THEN At0 ELSE AfterItem(f[s \ {Max(s)}], prog[Max(s)], N)]
           S == {q \in 0..n : \E f : Iter(f, q)}
<1>1. 0 \in S
  <2>1. Iter([s \in SUBSET (1..0) |-> At0], 0)
    OBVIOUS
  <2> QED
    BY <2>1
<1>2. ASSUME NEW q \in 0..(n - 1), q \in S PROVE q + 1 \in S
  <2>0. q \in Nat /\ q + 1 \in 0..n /\ q + 1 \in Nat
    OBVIOUS
  <2>1. PICK f : Iter(f, q)
    BY <1>2
  <2> DEFINE g == [s \in SUBSET (1..(q + 1)) |->
                     IF q + 1 \in s THEN AfterItem(f[s \ {q + 1}], prog[q + 1], N) ELSE f[s]]
  <2>2. \A s \in SUBSET (1..q) : s \in SUBSET (1..(q + 1)) /\ q + 1 \notin s
    BY <2>0
  <2>3. \A s \in SUBSET (1..q) : g[s] = f[s]
    BY <2>2
  <2>4. ASSUME NEW s \in SUBSET (1..(q + 1)), s # {}
        PROVE  g[s] = AfterItem(g[s \ {Max(s)}], prog[Max(s)], N)
    <3>1. CASE q + 1 \in s
      <4>1. Max(s) = q + 1
        BY <2>0, <3>1, MaxIs
      <4>2. s \ {q + 1} \in SUBSET (1..q)
        BY <2>0
      <4> QED
        BY <2>3, <3>1, <4>1, <4>2
    <3>2. CASE q + 1 \notin s
      <4>1. s \in SUBSET (1..q)
        BY <2>0, <3>2
      <4>2. s \ {Max(s)} \in SUBSET (1..q)
        BY <4>1
      <4>3. f[s] = AfterItem(f[s \ {Max(s)}], prog[Max(s)], N)
        BY <2>1, <2>4, <4>1
      <4> QED
        BY <2>3, <4>1, <4>2, <4>3
    <3> QED
      BY <3>1, <3>2
  <2>5. {} \in SUBSET (1..q) /\ g[{}] = At0
    BY <2>1, <2>3
  <2>6. DOMAIN g = SUBSET (1..(q + 1))
    OBVIOUS
  <2>7. Iter(g, q + 1)
    <3> HIDE DEF g
    <3> SUFFICES g = [s \in SUBSET (1..(q + 1)) |->
                    IF s = {} THEN At0 ELSE AfterItem(g[s \ {Max(s)}], prog[Max(s)], N)]
      OBVIOUS
    <3>1. g = [s \in SUBSET (1..(q + 1)) |-> g[s]]
      BY <2>6 DEF g
    <3> QED
      BY <2>4, <2>5, <3>1
  <2> QED
    BY <2>0, <2>7
<1>3. n \in S
  <2> HIDE DEF S
  <2>1. 0..n \subseteq S
    BY <1>1, <1>2, SetInduction
  <2> QED
    BY <2>1
<1> DEFINE iter == CHOOSE f : Iter(f, n)
<1>4. Iter(iter, n)
  <2>1. \E f : Iter(f, n)
    BY <1>3
  <2> HIDE DEF Iter
  <2> QED
    BY <2>1
<1>5. Final(N) = iter[1..n]
  BY DEF Final, Outcome, FoldLeft, MapThenFoldSet
<1> DEFINE run == [k \in 0..n |-> iter[1..k]]
<1> HIDE DEF iter, S
<1>6. run[0] = At0 /\ run[n] = iter[1..n]
  <2>1. 1..0 = {} /\ {} \in SUBSET (1..n) /\ 0 \in 0..n /\ n \in 0..n
    OBVIOUS
  <2> QED
    BY <1>4, <2>1
<1>7. ASSUME NEW k \in 1..n PROVE run[k] = AfterItem(run[k - 1], prog[k], N)
  <2>1. k \in 0..n /\ k - 1 \in 0..n
    OBVIOUS
  <2>2. /\ 1..k \in SUBSET (1..n) /\ 1..k # {} /\ Max(1..k) = k
        /\ (1..k) \ {Max(1..k)} = 1..(k - 1)
    BY FirstOnes
  <2>3. iter[1..k] = AfterItem(iter[1..(k - 1)], prog[k], N)
    BY <1>4, <2>2
  <2>4. run[k] = iter[1..k] /\ run[k - 1] = iter[1..(k - 1)]
    BY <2>1
  <2> HIDE DEF run
  <2> QED
    BY <2>3, <2>4
<1> QED
  <2> HIDE DEF run
  <2> QED
    BY <1>5, <1>6, <1>7 DEF ProgSteps

(* Its instructions, one state after each. *)
ExecSteps(run, state, ins, N, n) ==
  /\ run[0] = state /\ Exec(prog, state, ins, N) = run[n]
  /\ \A k \in 1..n : run[k] = Execute(prog, run[k - 1], ins[k], N)

LEMMA ExecTrace ==
  ASSUME NEW state, NEW ins, NEW N, NEW n \in Nat, DOMAIN ins = 1..n
  PROVE  \E run : ExecSteps(run, state, ins, N, n)
<1> DEFINE Iter(f, q) ==
             f = [s \in SUBSET (1..q) |->
                    IF s = {} THEN state ELSE Execute(prog, f[s \ {Max(s)}], ins[Max(s)], N)]
           S == {q \in 0..n : \E f : Iter(f, q)}
<1>1. 0 \in S
  <2>1. Iter([s \in SUBSET (1..0) |-> state], 0)
    OBVIOUS
  <2> QED
    BY <2>1
<1>2. ASSUME NEW q \in 0..(n - 1), q \in S PROVE q + 1 \in S
  <2>0. q \in Nat /\ q + 1 \in 0..n /\ q + 1 \in Nat
    OBVIOUS
  <2>1. PICK f : Iter(f, q)
    BY <1>2
  <2> DEFINE g == [s \in SUBSET (1..(q + 1)) |->
                     IF q + 1 \in s THEN Execute(prog, f[s \ {q + 1}], ins[q + 1], N) ELSE f[s]]
  <2>2. \A s \in SUBSET (1..q) : s \in SUBSET (1..(q + 1)) /\ q + 1 \notin s
    BY <2>0
  <2>3. \A s \in SUBSET (1..q) : g[s] = f[s]
    BY <2>2
  <2>4. ASSUME NEW s \in SUBSET (1..(q + 1)), s # {}
        PROVE  g[s] = Execute(prog, g[s \ {Max(s)}], ins[Max(s)], N)
    <3>1. CASE q + 1 \in s
      <4>1. Max(s) = q + 1
        BY <2>0, <3>1, MaxIs
      <4>2. s \ {q + 1} \in SUBSET (1..q)
        BY <2>0
      <4> QED
        BY <2>3, <3>1, <4>1, <4>2
    <3>2. CASE q + 1 \notin s
      <4>1. s \in SUBSET (1..q)
        BY <2>0, <3>2
      <4>2. s \ {Max(s)} \in SUBSET (1..q)
        BY <4>1
      <4>3. f[s] = Execute(prog, f[s \ {Max(s)}], ins[Max(s)], N)
        BY <2>1, <2>4, <4>1
      <4> QED
        BY <2>3, <4>1, <4>2, <4>3
    <3> QED
      BY <3>1, <3>2
  <2>5. {} \in SUBSET (1..q) /\ g[{}] = state
    BY <2>1, <2>3
  <2>6. DOMAIN g = SUBSET (1..(q + 1))
    OBVIOUS
  <2>7. Iter(g, q + 1)
    <3> HIDE DEF g
    <3> SUFFICES g = [s \in SUBSET (1..(q + 1)) |->
                    IF s = {} THEN state ELSE Execute(prog, g[s \ {Max(s)}], ins[Max(s)], N)]
      OBVIOUS
    <3>1. g = [s \in SUBSET (1..(q + 1)) |-> g[s]]
      BY <2>6 DEF g
    <3> QED
      BY <2>4, <2>5, <3>1
  <2> QED
    BY <2>0, <2>7
<1>3. n \in S
  <2> HIDE DEF S
  <2>1. 0..n \subseteq S
    BY <1>1, <1>2, SetInduction
  <2> QED
    BY <2>1
<1> DEFINE iter == CHOOSE f : Iter(f, n)
<1>4. Iter(iter, n)
  <2>1. \E f : Iter(f, n)
    BY <1>3
  <2> HIDE DEF Iter
  <2> QED
    BY <2>1
<1>5. Exec(prog, state, ins, N) = iter[1..n]
  BY DEF Exec, FoldLeft, MapThenFoldSet
<1> DEFINE run == [k \in 0..n |-> iter[1..k]]
<1> HIDE DEF iter, S
<1>6. run[0] = state /\ run[n] = iter[1..n]
  <2>1. 1..0 = {} /\ {} \in SUBSET (1..n) /\ 0 \in 0..n /\ n \in 0..n
    OBVIOUS
  <2> QED
    BY <1>4, <2>1
<1>7. ASSUME NEW k \in 1..n PROVE run[k] = Execute(prog, run[k - 1], ins[k], N)
  <2>1. k \in 0..n /\ k - 1 \in 0..n
    OBVIOUS
  <2>2. /\ 1..k \in SUBSET (1..n) /\ 1..k # {} /\ Max(1..k) = k
        /\ (1..k) \ {Max(1..k)} = 1..(k - 1)
    BY FirstOnes
  <2>3. iter[1..k] = Execute(prog, iter[1..(k - 1)], ins[k], N)
    BY <1>4, <2>2
  <2>4. run[k] = iter[1..k] /\ run[k - 1] = iter[1..(k - 1)]
    BY <2>1
  <2> HIDE DEF run
  <2> QED
    BY <2>3, <2>4
<1> QED
  <2> HIDE DEF run
  <2> QED
    BY <1>5, <1>6, <1>7 DEF ExecSteps

(* Numbers of a sequence, and what a sum of two sequences is the sum of. *)
Numbers(u, n) == n \in Nat /\ DOMAIN u = 1..n /\ \A k \in 1..n : u[k] \in Int

LEMMA SumLinear ==
  ASSUME NEW n, NEW c \in Int, NEW u, NEW v, NEW w, Numbers(u, n), Numbers(v, n), Numbers(w, n),
         \A k \in 1..n : w[k] = u[k] + c * v[k]
  PROVE  Sum(u) \in Int /\ Sum(v) \in Int /\ Sum(w) = Sum(u) + c * Sum(v)
<1>0. /\ n \in Nat /\ DOMAIN u = 1..n /\ DOMAIN v = 1..n /\ DOMAIN w = 1..n
      /\ \A k \in 1..n : u[k] \in Int /\ v[k] \in Int /\ w[k] \in Int
  BY DEF Numbers
<1>1. PICK ru : SumSteps(ru, u, n)
  BY <1>0, SumTrace
<1>2. PICK rv : SumSteps(rv, v, n)
  BY <1>0, SumTrace
<1>3. PICK rw : SumSteps(rw, w, n)
  BY <1>0, SumTrace
<1> DEFINE S == {k \in 0..n : ru[k] \in Int /\ rv[k] \in Int /\ rw[k] = ru[k] + c * rv[k]}
<1>4. 0 \in S
  BY <1>0, <1>1, <1>2, <1>3 DEF SumSteps
<1>5. ASSUME NEW k \in 0..(n - 1), k \in S PROVE k + 1 \in S
  <2>1. k + 1 \in 1..n /\ (k + 1) - 1 = k /\ k + 1 \in 0..n
    BY <1>0
  <2>2. ru[k + 1] = ru[k] + u[k + 1] /\ rv[k + 1] = rv[k] + v[k + 1] /\ rw[k + 1] = rw[k] + w[k + 1]
    BY <1>1, <1>2, <1>3, <2>1 DEF SumSteps
  <2>3. \A x, y, a, b \in Int : (x + c * y) + (a + c * b) = (x + a) + c * (y + b)
    OBVIOUS
  <2>4. w[k + 1] = u[k + 1] + c * v[k + 1] /\ u[k + 1] \in Int /\ v[k + 1] \in Int
    BY <1>0, <2>1
  <2>5. rw[k + 1] = (ru[k] + c * rv[k]) + (u[k + 1] + c * v[k + 1])
    BY <1>5, <2>2, <2>4
  <2>6. rw[k + 1] = ru[k + 1] + c * rv[k + 1] /\ ru[k + 1] \in Int /\ rv[k + 1] \in Int
    BY <1>5, <2>2, <2>3, <2>4, <2>5
  <2> QED
    BY <2>1, <2>6
<1>6. n \in S
  <2> HIDE DEF S
  <2>1. n \in Nat /\ 0 \in Nat /\ n \in 0..n
    BY <1>0
  <2>2. 0..n \subseteq S
    BY <2>1, <1>4, <1>5, SetInduction
  <2> QED
    BY <2>1, <2>2
<1> QED
  BY <1>1, <1>2, <1>3, <1>6 DEF SumSteps

LEMMA SumType ==
  ASSUME NEW n, NEW u, Numbers(u, n)
  PROVE  Sum(u) \in Int
<1>1. \A k \in 1..n : u[k] = u[k] + 0 * u[k]
  BY DEF Numbers
<1> QED
  BY <1>1, SumLinear

LEMMA SameSum ==
  ASSUME NEW n, NEW u, NEW v, Numbers(u, n), Numbers(v, n), \A k \in 1..n : u[k] = v[k]
  PROVE  Sum(u) = Sum(v)
<1>1. \A k \in 1..n : u[k] = v[k] + 0 * u[k]
  BY DEF Numbers
<1>2. Sum(v) \in Int /\ Sum(u) \in Int /\ Sum(u) = Sum(v) + 0 * Sum(u)
  BY <1>1, SumLinear
<1> QED
  BY <1>2

(* All numbers but one are 0. *)
LEMMA SumAt ==
  ASSUME NEW n, NEW u, Numbers(u, n), NEW at \in 1..n, \A k \in 1..n : k # at => u[k] = 0
  PROVE  Sum(u) = u[at]
<1>0. n \in Nat /\ DOMAIN u = 1..n /\ u[at] \in Int /\ \A k \in 1..n : u[k] \in Int
  BY DEF Numbers
<1>1. PICK run : SumSteps(run, u, n)
  BY <1>0, SumTrace
<1> DEFINE S == {k \in 0..n : run[k] = IF k < at THEN 0 ELSE u[at]}
<1>2. 0 \in S
  BY <1>0, <1>1 DEF SumSteps
<1>3. ASSUME NEW k \in 0..(n - 1), k \in S PROVE k + 1 \in S
  <2>1. k + 1 \in 1..n /\ (k + 1) - 1 = k /\ k + 1 \in 0..n
    BY <1>0
  <2>2. run[k + 1] = run[k] + u[k + 1]
    BY <1>1, <2>1 DEF SumSteps
  <2> QED
    BY <1>0, <1>3, <2>1, <2>2
<1>4. n \in S
  <2> HIDE DEF S
  <2>1. n \in Nat /\ 0 \in Nat /\ n \in 0..n
    BY <1>0
  <2>2. 0..n \subseteq S
    BY <2>1, <1>2, <1>3, SetInduction
  <2> QED
    BY <2>1, <2>2
<1> QED
  BY <1>0, <1>1, <1>4 DEF SumSteps

LEMMA SumZero ==
  ASSUME NEW n \in Nat, NEW u, DOMAIN u = 1..n, \A k \in 1..n : u[k] = 0
  PROVE  Sum(u) = 0
<1>1. CASE n = 0
  <2>1. PICK run : SumSteps(run, u, n)
    BY SumTrace
  <2> QED
    BY <1>1, <2>1 DEF SumSteps
<1>2. CASE n # 0
  <2>1. n \in 1..n /\ Numbers(u, n)
    BY <1>2 DEF Numbers
  <2>2. Sum(u) = u[n]
    BY <2>1, SumAt
  <2> QED
    BY <2>1, <2>2
<1> QED
  BY <1>1, <1>2

LEMMA SumOne ==
  ASSUME NEW x \in Int
  PROVE  Sum(<<x>>) = x
<1>1. Numbers(<<x>>, 1) /\ 1 \in 1..1 /\ \A k \in 1..1 : k # 1 => <<x>>[k] = 0
  BY DEF Numbers
<1>2. Sum(<<x>>) = <<x>>[1]
  BY <1>1, SumAt
<1> QED
  BY <1>2

LEMMA SumConcat ==
  ASSUME NEW m, NEW n, NEW q, NEW u, NEW v, NEW w, Numbers(u, m), Numbers(v, n), Numbers(w, q), q = m + n,
         \A k \in 1..m : w[k] = u[k], \A k \in 1..n : w[m + k] = v[k]
  PROVE  Sum(w) = Sum(u) + Sum(v)
<1>0. /\ m \in Nat /\ n \in Nat /\ m + n \in Nat /\ DOMAIN u = 1..m /\ DOMAIN v = 1..n /\ DOMAIN w = 1..(m + n)
      /\ \A k \in 1..m : u[k] \in Int
      /\ \A k \in 1..n : v[k] \in Int
  BY DEF Numbers
<1>1. PICK ru : SumSteps(ru, u, m)
  BY <1>0, SumTrace
<1>2. PICK rv : SumSteps(rv, v, n)
  BY <1>0, SumTrace
<1>3. PICK rw : SumSteps(rw, w, m + n)
  BY <1>0, SumTrace
<1> DEFINE S == {k \in 0..m : rw[k] = ru[k] /\ ru[k] \in Int}
<1>4. m \in S
  <2>1. 0 \in S
    BY <1>0, <1>1, <1>3 DEF SumSteps
  <2>2. ASSUME NEW k \in 0..(m - 1), k \in S PROVE k + 1 \in S
    <3>1. k + 1 \in 1..m /\ (k + 1) - 1 = k /\ k + 1 \in 0..m /\ k + 1 \in 1..(m + n)
      BY <1>0
    <3>2. rw[k + 1] = rw[k] + w[k + 1] /\ ru[k + 1] = ru[k] + u[k + 1]
      BY <1>1, <1>3, <3>1 DEF SumSteps
    <3> QED
      BY <1>0, <2>2, <3>1, <3>2
  <2> HIDE DEF S
  <2>3. m \in Nat /\ 0 \in Nat /\ m \in 0..m
    BY <1>0
  <2>4. 0..m \subseteq S
    BY <2>3, <2>1, <2>2, SetInduction
  <2> QED
    BY <2>3, <2>4
<1> DEFINE R == {k \in 0..n : rw[m + k] = ru[m] + rv[k] /\ rv[k] \in Int}
<1>5. n \in R
  <2>1. 0 \in R
    BY <1>0, <1>2, <1>4 DEF SumSteps
  <2>2. ASSUME NEW k \in 0..(n - 1), k \in R PROVE k + 1 \in R
    <3>1. /\ k + 1 \in 1..n /\ (k + 1) - 1 = k /\ k + 1 \in 0..n
          /\ m + (k + 1) \in 1..(m + n) /\ (m + (k + 1)) - 1 = m + k
      BY <1>0
    <3>2. rw[m + (k + 1)] = rw[m + k] + w[m + (k + 1)] /\ rv[k + 1] = rv[k] + v[k + 1]
      BY <1>2, <1>3, <3>1 DEF SumSteps
    <3>3. w[m + (k + 1)] = v[k + 1] /\ v[k + 1] \in Int /\ ru[m] \in Int
      BY <1>0, <1>4, <3>1
    <3>4. rw[m + k] = ru[m] + rv[k] /\ rv[k] \in Int
      BY <2>2
    <3>5. rw[m + (k + 1)] = ru[m] + rv[k + 1] /\ rv[k + 1] \in Int
      BY <3>2, <3>3, <3>4
    <3> QED
      BY <3>1, <3>5
  <2> HIDE DEF R
  <2>3. n \in Nat /\ 0 \in Nat /\ n \in 0..n
    BY <1>0
  <2>4. 0..n \subseteq R
    BY <2>3, <2>1, <2>2, SetInduction
  <2> QED
    BY <2>3, <2>4
<1> QED
  BY <1>1, <1>2, <1>3, <1>5 DEF SumSteps

(* A concatenation, one sequence after each that is added to it. *)
FlatSteps(run, S, ss) ==
  /\ run[0] = <<>> /\ FlattenSeq(ss) = run[Len(ss)]
  /\ \A k \in 1..Len(ss) : run[k] = run[k - 1] \o ss[k]
  /\ \A k \in 0..Len(ss) : run[k] \in Seq(S)

LEMMA FlatTrace ==
  ASSUME NEW S, NEW ss \in Seq(Seq(S))
  PROVE  \E run : FlatSteps(run, S, ss)
<1> DEFINE N == Len(ss)
           Value(h, i) == IF i = 1 THEN ss[i] ELSE h[i - 1] \o ss[i]
           Is(h) == h = [i \in 1..N |-> Value(h, i)]
           H == CHOOSE h : Is(h)
<1>0. N \in Nat /\ ss \in [1..N -> Seq(S)] /\ \A u, v \in Seq(S) : u \o v \in Seq(S)
  OBVIOUS
<1>1. CASE N = 0
  <2>1. FlattenSeq(ss) = ss /\ ss = <<>>
    BY <1>0, <1>1 DEF FlattenSeq
  <2>2. FlatSteps([k \in 0..0 |-> <<>>], S, ss)
    <3>1. 0 \in 0..0 /\ 1..0 = {} /\ \A k \in 0..0 : k = 0
      OBVIOUS
    <3>2. <<>> \in Seq(S)
      OBVIOUS
    <3> QED
      BY <1>0, <1>1, <2>1, <3>1, <3>2 DEF FlatSteps
  <2> QED
    BY <2>2
<1> HIDE DEF N
<1>2. ASSUME N # 0 PROVE \E run : FlatSteps(run, S, ss)
  <2> DEFINE P == {n \in Nat : \E h \in [1..N -> Seq(S)] : \A i \in 1..N : i <= n => h[i] = Value(h, i)}
  <2>1. 0 \in P
    <3>1. ss \in [1..N -> Seq(S)] /\ \A i \in 1..N : ~(i <= 0)
      BY <1>0
    <3> QED
      BY <3>1
  <2>2. ASSUME NEW n \in 0..(N - 1), n \in P PROVE n + 1 \in P
    <3>1. PICK h \in [1..N -> Seq(S)] : \A i \in 1..N : i <= n => h[i] = Value(h, i)
      BY <2>2
    <3> DEFINE k == [h EXCEPT ![n + 1] = Value(h, n + 1)]
    <3>2. Value(h, n + 1) \in Seq(S)
      <4>1. n + 1 \in 1..N /\ (n # 0 => n \in 1..N) /\ (n + 1) - 1 = n
        BY <1>0
      <4> QED
        BY <1>0, <4>1
    <3>3. k \in [1..N -> Seq(S)] /\ k[n + 1] = Value(h, n + 1) /\ \A i \in 1..N : i # n + 1 => k[i] = h[i]
      <4> HIDE DEF Value
      <4> QED
        BY <3>2, <1>0
    <3>4. ASSUME NEW i \in 1..N, i <= n + 1 PROVE k[i] = Value(k, i)
      <4>1. i # 1 => i - 1 \in 1..N /\ i - 1 # n + 1
        BY <1>0, <3>4
      <4>2. Value(k, i) = Value(h, i)
        <5> HIDE DEF k
        <5> QED
          BY <3>3, <4>1
      <4> HIDE DEF Value, k
      <4>3. CASE i = n + 1
        BY <3>3, <4>2, <4>3
      <4>4. CASE i # n + 1
        BY <3>1, <3>3, <3>4, <4>2, <4>4
      <4> QED
        BY <4>3, <4>4
    <3> HIDE DEF k, Value
    <3>5. n + 1 \in Nat
      BY <1>0
    <3>6. \E hh \in [1..N -> Seq(S)] : \A i \in 1..N : i <= n + 1 => hh[i] = Value(hh, i)
      BY <3>3, <3>4, Zenon
    <3> QED
      BY <3>5, <3>6, Zenon
  <2>3. 0..N \subseteq P
    <3> HIDE DEF P, N
    <3> QED
      BY <1>0, <2>1, <2>2, SetInduction
  <2>4. PICK h \in [1..N -> Seq(S)] : \A i \in 1..N : h[i] = Value(h, i)
    <3>1. N \in P
      <4> HIDE DEF P
      <4> QED
        BY <1>0, <2>3
    <3>2. PICK h \in [1..N -> Seq(S)] : \A i \in 1..N : i <= N => h[i] = Value(h, i)
      BY <3>1
    <3> HIDE DEF Value
    <3>3. \A i \in 1..N : i <= N
      BY <1>0
    <3> QED
      BY <3>2, <3>3, Zenon
  <2>5. Is(h)
    <3> HIDE DEF Value
    <3> QED
      BY <2>4
  <2>6. Is(H)
    <3> HIDE DEF Is
    <3> QED
      BY <2>5
  <2> DEFINE Q == {n \in Nat : n \in 1..N => H[n] \in Seq(S)}
  <2>7. ASSUME NEW i \in 1..N PROVE H[i] = Value(H, i)
    <3> HIDE DEF H, Value
    <3> QED
      BY <2>6
  <2> HIDE DEF H
  <2>8. 1 \in Q
    BY <1>0, <2>7
  <2>9. ASSUME NEW n \in 1..(N - 1), n \in Q PROVE n + 1 \in Q
    <3>1. n + 1 \in 1..N /\ n \in 1..N /\ n + 1 \in Nat /\ n + 1 # 1 /\ (n + 1) - 1 = n
      BY <1>0
    <3>2. H[n + 1] = H[n] \o ss[n + 1]
      BY <2>7, <3>1
    <3>3. H[n] \in Seq(S) /\ ss[n + 1] \in Seq(S)
      BY <1>0, <2>9, <3>1
    <3> QED
      BY <1>0, <3>1, <3>2, <3>3
  <2>10. 1..N \subseteq Q
    <3> HIDE DEF Q, N
    <3> QED
      BY <1>0, <2>8, <2>9, SetInduction
  <2>12. FlattenSeq(ss) = H[N]
    BY <1>0, <1>2 DEF FlattenSeq, H, N
  <2> DEFINE run == [k \in 0..N |-> IF k = 0 THEN <<>> ELSE H[k]]
  <2>13. run[0] = <<>> /\ \A k \in 1..N : run[k] = H[k]
    BY <1>0
  <2>14. ASSUME NEW k \in 1..N PROVE run[k] = run[k - 1] \o ss[k]
    <3>1. CASE k = 1
      <4>1. ss[1] \in Seq(S) /\ run[1] = ss[1] /\ 1 - 1 = 0
        BY <1>0, <2>7, <2>13, <3>1
      <4>2. run[1] = <<>> \o ss[1]
        BY <4>1
      <4> QED
        BY <2>13, <3>1, <4>1, <4>2
    <3>2. CASE k # 1
      <4>1. k - 1 \in 1..N
        BY <1>0, <3>2
      <4> QED
        BY <2>7, <2>13, <3>2, <4>1
    <3> QED
      BY <3>1, <3>2
  <2>15. \A k \in 0..N : run[k] \in Seq(S)
    <3>1. <<>> \in Seq(S)
      OBVIOUS
    <3>2. \A k \in 1..N : H[k] \in Seq(S)
      BY <1>0, <2>10
    <3>3. \A k \in 0..N : k = 0 \/ k \in 1..N
      BY <1>0
    <3> HIDE DEF run
    <3> QED
      BY <2>13, <3>1, <3>2, <3>3
  <2> HIDE DEF run
  <2>16. N \in 1..N
    BY <1>0, <1>2
  <2>17. FlatSteps(run, S, ss)
    BY <2>12, <2>13, <2>14, <2>15, <2>16 DEF FlatSteps, N
  <2> QED
    BY <2>17
<1> QED
  BY <1>1, <1>2

-----------------------------------------------------------------------------
LEMMA FlatIsSeq ==
  ASSUME NEW S, NEW ss \in Seq(Seq(S))
  PROVE  FlattenSeq(ss) \in Seq(S)
<1>1. PICK run : FlatSteps(run, S, ss)
  BY FlatTrace
<1>2. Len(ss) \in 0..Len(ss)
  OBVIOUS
<1> QED
  BY <1>1, <1>2 DEF FlatSteps


-----------------------------------------------------------------------------
(* Recorded values whose loads are in a set of registers with numbers. *)
ValuesOver(S) == [term : Terms, load : S, times : Nat]
Regs(regs, S) == <<0, 0, 0>> \in S /\ regs[<<0, 0, 0>>] = 0 /\ \A r \in S : regs[r] \in Int

LEMMA TermDifferenceType ==
  ASSUME NEW t \in Terms, NEW N \in Int
  PROVE  TermDifference(t, N) \in Int /\ \A i \in Int : TermValue(t, N, i) \in Int
BY DEF TermDifference, TermValue, Terms

LEMMA DiffValueType ==
  ASSUME NEW S, NEW v \in ValuesOver(S), NEW N \in Int, NEW regs, Regs(regs, S)
  PROVE  DiffValue(v, N, regs) \in Int
<1>0. v.times \in Nat /\ v.term \in Terms /\ regs[v.load] \in Int /\ TermDifference(v.term, N) \in Int
  BY TermDifferenceType DEF ValuesOver, Regs
<1> DEFINE n == v.times
<1>1. PICK run : ScaleSteps(run, v, N, regs, n)
  BY <1>0, ScaleTrace
<1> HIDE DEF n
<1> DEFINE P == {k \in 0..n : run[k] \in Int}
<1>2. 0 \in P
  BY <1>0, <1>1 DEF ScaleSteps, n
<1>3. ASSUME NEW k \in 0..(n - 1), k \in P PROVE k + 1 \in P
  <2>1. k + 1 \in 1..n /\ (k + 1) - 1 = k /\ k + 1 \in 0..n
    BY <1>0 DEF n
  <2>2. run[k + 1] = run[k] * (N - 1)
    BY <1>1, <2>1 DEF ScaleSteps
  <2> QED
    BY <1>3, <2>1, <2>2
<1>4. n \in P
  <2> HIDE DEF P
  <2>1. n \in Nat /\ 0 \in Nat /\ n \in 0..n
    BY <1>0 DEF n
  <2>2. 0..n \subseteq P
    BY <1>2, <1>3, <2>1, SetInduction
  <2> QED
    BY <2>1, <2>2
<1> QED
  BY <1>1, <1>4 DEF ScaleSteps

LEMMA DiffValueTimes ==
  ASSUME NEW S, NEW v \in ValuesOver(S), NEW N \in Int, NEW regs, Regs(regs, S)
  PROVE  DiffValue(TimesNS(v), N, regs) = (N - 1) * DiffValue(v, N, regs)
<1> DEFINE n == v.times  w == TimesNS(v)
<1>0. /\ n \in Nat /\ w.term = v.term /\ w.load = v.load /\ w.times = n + 1 /\ DiffValue(v, N, regs) \in Int
  BY DiffValueType DEF ValuesOver, TimesNS
<1> HIDE DEF w
<1>1. PICK ru : ScaleSteps(ru, v, N, regs, n)
  BY <1>0, ScaleTrace
<1>2. PICK rw : ScaleSteps(rw, w, N, regs, n + 1)
  BY <1>0, ScaleTrace
<1> HIDE DEF n
<1> DEFINE P == {k \in 0..n : ru[k] = rw[k]}
<1>3. 0 \in P
  BY <1>0, <1>1, <1>2 DEF ScaleSteps
<1>4. ASSUME NEW k \in 0..(n - 1), k \in P PROVE k + 1 \in P
  <2>1. k + 1 \in 1..n /\ (k + 1) - 1 = k /\ k + 1 \in 0..n /\ k + 1 \in 1..(n + 1)
    BY <1>0
  <2>2. ru[k + 1] = ru[k] * (N - 1) /\ rw[k + 1] = rw[k] * (N - 1)
    BY <1>1, <1>2, <2>1 DEF ScaleSteps
  <2> QED
    BY <1>4, <2>1, <2>2
<1>5. n \in P
  <2> HIDE DEF P
  <2>1. 0 \in Nat /\ n \in 0..n
    BY <1>0
  <2>2. 0..n \subseteq P
    BY <1>0, <1>3, <1>4, <2>1, SetInduction
  <2> QED
    BY <2>1, <2>2
<1>6. n + 1 \in 1..(n + 1) /\ (n + 1) - 1 = n
  BY <1>0
<1>7. rw[n + 1] = rw[n] * (N - 1) /\ DiffValue(w, N, regs) = rw[n + 1] /\ DiffValue(v, N, regs) = ru[n]
  BY <1>1, <1>2, <1>6 DEF ScaleSteps
<1>8. DiffValue(w, N, regs) = DiffValue(v, N, regs) * (N - 1)
  BY <1>5, <1>7
<1>9. \A x \in Int : x * (N - 1) = (N - 1) * x
  OBVIOUS
<1> QED
  BY <1>0, <1>8, <1>9 DEF w

(* The values that are not scaled. *)
LEMMA DiffValueOnce ==
  ASSUME NEW v, v.times = 0, NEW N, NEW regs
  PROVE  DiffValue(v, N, regs) = TermDifference(v.term, N) + regs[v.load]
<1>1. PICK run : ScaleSteps(run, v, N, regs, 0)
  BY ScaleTrace
<1> QED
  BY <1>1 DEF ScaleSteps

LEMMA DiffValueSame ==
  ASSUME NEW v, NEW N, NEW regs, NEW other, regs[v.load] = other[v.load]
  PROVE  DiffValue(v, N, regs) = DiffValue(v, N, other)
<1> DEFINE From(b) == FoldLeft(LAMBDA x, k : x * (N - 1), b, [k \in 1..v.times |-> k])
           b1 == TermDifference(v.term, N) + regs[v.load]
           b2 == TermDifference(v.term, N) + other[v.load]
<1>1. DiffValue(v, N, regs) = From(b1)
  BY Zenon DEF DiffValue
<1>2. DiffValue(v, N, other) = From(b2)
  BY Zenon DEF DiffValue
<1>3. b1 = b2
  OBVIOUS
<1> HIDE DEF From, b1, b2
<1> QED
  BY <1>1, <1>2, <1>3

-----------------------------------------------------------------------------
LEMMA RecordedNumbers ==
  ASSUME NEW S, NEW vs \in Seq(ValuesOver(S)), NEW N \in Int, NEW regs, Regs(regs, S)
  PROVE  /\ Numbers([d \in DOMAIN vs |-> DiffValue(vs[d], N, regs)], Len(vs))
         /\ Recorded(vs, N, regs) \in Int
<1>1. DOMAIN vs = 1..Len(vs) /\ Len(vs) \in Nat /\ \A d \in 1..Len(vs) : vs[d] \in ValuesOver(S)
  OBVIOUS
<1>2. \A d \in 1..Len(vs) : DiffValue(vs[d], N, regs) \in Int
  BY <1>1, DiffValueType
<1>3. Numbers([d \in DOMAIN vs |-> DiffValue(vs[d], N, regs)], Len(vs))
  BY <1>1, <1>2 DEF Numbers
<1> QED
  BY <1>3, SumType DEF Recorded

LEMMA RecordedEmpty ==
  ASSUME NEW N, NEW regs
  PROVE  Recorded(<<>>, N, regs) = 0
<1> DEFINE u == [d \in DOMAIN <<>> |-> DiffValue(<<>>[d], N, regs)]
<1>1. DOMAIN u = 1..0 /\ \A k \in 1..0 : u[k] = 0
  OBVIOUS
<1> HIDE DEF u
<1>2. Sum(u) = 0
  BY <1>1, SumZero
<1> QED
  BY <1>2 DEF Recorded, u

LEMMA RecordedOne ==
  ASSUME NEW v, NEW N, NEW regs, DiffValue(v, N, regs) \in Int
  PROVE  Recorded(<<v>>, N, regs) = DiffValue(v, N, regs)
<1>1. [d \in DOMAIN <<v>> |-> DiffValue(<<v>>[d], N, regs)] = <<DiffValue(v, N, regs)>>
  <2>1. DOMAIN <<v>> = 1..1 /\ <<v>>[1] = v /\ \A d \in 1..1 : d = 1
    OBVIOUS
  <2>2. [d \in DOMAIN <<v>> |-> DiffValue(<<v>>[d], N, regs)] = [d \in 1..1 |-> DiffValue(v, N, regs)]
    BY <2>1
  <2>3. \A x : [d \in 1..1 |-> x] = <<x>>
    OBVIOUS
  <2> QED
    BY <2>2, <2>3
<1> QED
  BY <1>1, SumOne DEF Recorded

LEMMA RecordedConcat ==
  ASSUME NEW S, NEW u \in Seq(ValuesOver(S)), NEW v \in Seq(ValuesOver(S)),
         NEW N \in Int, NEW regs, Regs(regs, S)
  PROVE  Recorded(u \o v, N, regs) = Recorded(u, N, regs) + Recorded(v, N, regs)
<1> DEFINE w == u \o v
           U == [d \in DOMAIN u |-> DiffValue(u[d], N, regs)]
           V == [d \in DOMAIN v |-> DiffValue(v[d], N, regs)]
           W == [d \in DOMAIN w |-> DiffValue(w[d], N, regs)]
<1>1. /\ w \in Seq(ValuesOver(S)) /\ Len(w) = Len(u) + Len(v) /\ Len(u) \in Nat /\ Len(v) \in Nat
      /\ \A k \in 1..Len(u) : k \in DOMAIN w /\ w[k] = u[k]
      /\ \A k \in 1..Len(v) : Len(u) + k \in DOMAIN w /\ w[Len(u) + k] = v[k]
      /\ DOMAIN u = 1..Len(u) /\ DOMAIN v = 1..Len(v)
  OBVIOUS
<1>2. Numbers(U, Len(u)) /\ Numbers(V, Len(v)) /\ Numbers(W, Len(u) + Len(v))
  <2> HIDE DEF w
  <2> QED
    BY <1>1, RecordedNumbers
<1>3. (\A k \in 1..Len(u) : W[k] = U[k]) /\ \A k \in 1..Len(v) : W[Len(u) + k] = V[k]
  <2> HIDE DEF w
  <2> QED
    BY <1>1
<1> DEFINE m == Len(u)  n == Len(v)  q == m + n
<1>2a. Numbers(U, m) /\ Numbers(V, n) /\ Numbers(W, q) /\ q = m + n
  BY <1>2
<1>3a. (\A k \in 1..m : W[k] = U[k]) /\ \A k \in 1..n : W[m + k] = V[k]
  BY <1>3
<1> HIDE DEF U, V, W, w, m, n, q
<1>4. Sum(W) = Sum(U) + Sum(V)
  BY <1>2a, <1>3a, SumConcat
<1> QED
  BY <1>4 DEF Recorded, U, V, W, w

LEMMA RecordedScaled ==
  ASSUME NEW S, NEW vs \in Seq(ValuesOver(S)), NEW N \in Int, NEW regs, Regs(regs, S)
  PROVE  Recorded([d \in DOMAIN vs |-> TimesNS(vs[d])], N, regs) = (N - 1) * Recorded(vs, N, regs)
<1> DEFINE ws == [d \in DOMAIN vs |-> TimesNS(vs[d])]
           U == [d \in DOMAIN vs |-> DiffValue(vs[d], N, regs)]
           W == [d \in DOMAIN ws |-> DiffValue(ws[d], N, regs)]
           Z == [d \in 1..Len(vs) |-> 0]
<1>1. DOMAIN vs = 1..Len(vs) /\ Len(vs) \in Nat /\ \A d \in 1..Len(vs) : vs[d] \in ValuesOver(S)
  OBVIOUS
<1>2. Numbers(U, Len(vs)) /\ \A d \in 1..Len(vs) : U[d] = DiffValue(vs[d], N, regs)
  BY <1>1, RecordedNumbers
<1>3. \A d \in 1..Len(vs) : W[d] = (N - 1) * U[d]
  <2>1. \A d \in 1..Len(vs) : W[d] = DiffValue(TimesNS(vs[d]), N, regs)
    BY <1>1
  <2> HIDE DEF W
  <2> QED
    BY <1>1, <1>2, <2>1, DiffValueTimes
<1>4. DOMAIN W = 1..Len(vs)
  BY <1>1
<1> HIDE DEF U, W
<1>5. Numbers(W, Len(vs)) /\ Numbers(Z, Len(vs))
  BY <1>1, <1>2, <1>3, <1>4 DEF Numbers
<1>6. \A d \in 1..Len(vs) : W[d] = Z[d] + (N - 1) * U[d]
  <2>1. \A d \in 1..Len(vs) : Z[d] = 0 /\ W[d] \in Int
    BY <1>5 DEF Numbers
  <2> HIDE DEF Z
  <2>2. \A x \in Int : x = 0 + x
    OBVIOUS
  <2> QED
    BY <1>3, <2>1, <2>2
<1>7. Sum(W) = Sum(Z) + (N - 1) * Sum(U) /\ Sum(U) \in Int
  <2> DEFINE c == N - 1  n == Len(vs)
  <2>1. c \in Int
    OBVIOUS
  <2>2. Numbers(U, n) /\ Numbers(Z, n) /\ Numbers(W, n) /\ \A d \in 1..n : W[d] = Z[d] + c * U[d]
    BY <1>2, <1>5, <1>6
  <2> HIDE DEF Z, c, n
  <2>3. Sum(W) = Sum(Z) + c * Sum(U) /\ Sum(U) \in Int
    BY <2>1, <2>2, SumLinear
  <2> QED
    BY <2>3 DEF c
<1>8. Sum(Z) = 0
  BY <1>1, SumZero
<1>9. Sum(W) = (N - 1) * Sum(U)
  BY <1>7, <1>8
<1> QED
  BY <1>9 DEF Recorded, U, W

LEMMA RecordedSame ==
  ASSUME NEW vs, NEW N, NEW regs, NEW other, \A d \in DOMAIN vs : regs[vs[d].load] = other[vs[d].load]
  PROVE  Recorded(vs, N, regs) = Recorded(vs, N, other)
<1>1. \A d \in DOMAIN vs : DiffValue(vs[d], N, regs) = DiffValue(vs[d], N, other)
  BY DiffValueSame
<1> QED
  BY <1>1 DEF Recorded

(* Sequence after sequence. *)
LEMMA RecordedFlat ==
  ASSUME NEW S, NEW ss \in Seq(Seq(ValuesOver(S))), NEW N \in Int, NEW regs, Regs(regs, S)
  PROVE  Recorded(FlattenSeq(ss), N, regs) = Sum([k \in DOMAIN ss |-> Recorded(ss[k], N, regs)])
<1> DEFINE n == Len(ss)
           T == [k \in DOMAIN ss |-> Recorded(ss[k], N, regs)]
<1>0. n \in Nat /\ DOMAIN ss = 1..n /\ \A k \in 1..n : ss[k] \in Seq(ValuesOver(S))
  OBVIOUS
<1>1. DOMAIN T = 1..n /\ \A k \in 1..n : T[k] = Recorded(ss[k], N, regs) /\ T[k] \in Int
  BY <1>0, RecordedNumbers
<1> HIDE DEF T
<1>2. PICK rt : SumSteps(rt, T, n)
  BY <1>0, <1>1, SumTrace
<1>3. PICK rs : FlatSteps(rs, ValuesOver(S), ss)
  BY FlatTrace
<1>3a. /\ rs[0] = <<>> /\ FlattenSeq(ss) = rs[n]
       /\ \A k \in 1..n : rs[k] = rs[k - 1] \o ss[k]
       /\ \A k \in 0..n : rs[k] \in Seq(ValuesOver(S))
  BY <1>3 DEF FlatSteps
<1> HIDE DEF n
<1> DEFINE P == {k \in 0..n : Recorded(rs[k], N, regs) = rt[k]}
<1>4. 0 \in P
  BY <1>0, <1>2, <1>3a, RecordedEmpty DEF SumSteps
<1>5. ASSUME NEW k \in 0..(n - 1), k \in P PROVE k + 1 \in P
  <2>1. k + 1 \in 1..n /\ (k + 1) - 1 = k /\ k + 1 \in 0..n /\ k \in 0..n
    BY <1>0
  <2>2. rs[k + 1] = rs[k] \o ss[k + 1] /\ rt[k + 1] = rt[k] + T[k + 1]
    BY <1>2, <1>3a, <2>1 DEF SumSteps
  <2>3. rs[k] \in Seq(ValuesOver(S)) /\ ss[k + 1] \in Seq(ValuesOver(S))
    BY <1>0, <1>3a, <2>1
  <2>4. Recorded(rs[k + 1], N, regs) = Recorded(rs[k], N, regs) + Recorded(ss[k + 1], N, regs)
    BY <2>2, <2>3, RecordedConcat
  <2> QED
    BY <1>1, <1>5, <2>1, <2>2, <2>4
<1>6. n \in P
  <2> HIDE DEF P
  <2>1. 0 \in Nat /\ n \in 0..n
    BY <1>0
  <2>2. 0..n \subseteq P
    BY <1>0, <1>4, <1>5, <2>1, SetInduction
  <2> QED
    BY <2>1, <2>2
<1>7. Recorded(FlattenSeq(ss), N, regs) = Sum(T)
  BY <1>2, <1>3a, <1>6 DEF SumSteps
<1> QED
  BY <1>7 DEF T

-----------------------------------------------------------------------------
(***************************************************************************)
(* P_N: the memories it goes through.                                     *)
(***************************************************************************)

Cells    == 0..(MaxN - 1)
Memories == [Arrays -> [Cells -> Int]]

(* A counter of the item, for the size N. *)
Counts(item, N, i) == i \in Int /\ IF item.loop THEN item.first <= i /\ i < N ELSE i = 0

Plain == prog \in Seq(Items) /\ Modelled

LEMMA PlainIs ==
  ASSUME Plain, NEW p \in DOMAIN prog
  PROVE  /\ prog[p] \in Items /\ prog[p].body \in Seq(Stores) /\ ~prog[p].ofN /\ prog[p].loop \in BOOLEAN
         /\ prog[p].first \in {0, 1} /\ (~prog[p].loop => prog[p].first = 0)
         /\ DOMAIN prog[p].body = 1..Len(prog[p].body) /\ Len(prog[p].body) \in Nat
         /\ \A s \in DOMAIN prog[p].body : /\ prog[p].body[s] \in Stores /\ prog[p].body[s].rem = 0
                                           /\ Placed(prog[p], prog[p].body[s])
<1>1. prog[p] \in Items
  BY DEF Plain
<1>2. prog[p].body \in Seq(Stores)
  BY <1>1 DEF Items
<1> QED
  BY <1>1, <1>2 DEF Items, Plain, Modelled

LEMMA StoreIs ==
  ASSUME NEW st \in Stores
  PROVE  /\ st.arr \in Arrays /\ st.term \in Terms /\ st.loads \in Seq(Loads) /\ st.shape \in Shapes
         /\ DOMAIN st.loads = 1..Len(st.loads) /\ Len(st.loads) \in Nat
         /\ \A l \in DOMAIN st.loads : /\ l \in Nat /\ st.loads[l] \in Loads /\ st.loads[l].arr \in Arrays
                                       /\ st.loads[l].coef \in Int /\ st.loads[l] \in LoadsOf(st)
                                       /\ st.loads[l].idx \in {"counter", "below", "last"}
<1>1. st.arr \in Arrays /\ st.term \in Terms /\ st.loads \in Seq(Loads) /\ st.shape \in Shapes
  BY DEF Stores
<1>2. \A l \in DOMAIN st.loads : l \in Nat /\ st.loads[l] \in Loads
  BY <1>1
<1> QED
  BY <1>1, <1>2 DEF Loads, LoadsOf

LEMMA AssignedIs ==
  ASSUME NEW m \in Memories, NEW a \in Arrays, NEW i \in Cells, NEW v \in Int
  PROVE  /\ Assigned(m, a, i, v) \in Memories
         /\ Assigned(m, a, i, v)[a][Index(a, i)] = v /\ Index(a, i) \in Cells
         /\ \A b \in Arrays : b # a => Assigned(m, a, i, v)[b] = m[b]
         /\ \A j \in Cells : j # Index(a, i) => Assigned(m, a, i, v)[a][j] = m[a][j]
<1>1. Index(a, i) \in Cells
  BY MaxNAssumption DEF Index, Cells
<1> QED
  BY <1>1 DEF Assigned, Memories

(* The element a load reads. *)
Where(l, i) == Index(l.arr, IF l.idx = "below" THEN i - 1 ELSE i)

LEMMA WhereIs ==
  ASSUME Plain, NEW p \in DOMAIN prog, NEW s \in DOMAIN prog[p].body, NEW N \in 1..MaxN,
         NEW i, Counts(prog[p], N, i), NEW l \in LoadsOf(prog[p].body[s])
  PROVE  /\ i \in Cells /\ i \in Nat
         /\ l.idx # "last" => Where(l, i) \in Cells /\ \A m : LoadValue(m, l, N, i) = m[l.arr][Where(l, i)]
         /\ \A m \in Memories : LoadValue(m, l, N, i) \in Int
<1>1. i \in Cells /\ i \in Nat /\ N - 1 \in Cells /\ 0 \in Cells
  BY MaxNAssumption, PlainIs DEF Counts, Cells
<1>2. l.arr \in Arrays /\ l.idx \in {"counter", "below", "last"}
  <2>1. PICK k \in DOMAIN prog[p].body[s].loads : l = prog[p].body[s].loads[k]
    BY DEF LoadsOf
  <2> QED
    BY <2>1, PlainIs, StoreIs
<1>3. l.idx = "below" => i - 1 \in Cells
  <2>1. ASSUME l.idx = "below" PROVE prog[p].first = 1
    <3>1. Placed(prog[p], prog[p].body[s])
      BY PlainIs
    <3> QED
      BY <2>1, <3>1 DEF Placed
  <2>2. ASSUME l.idx = "below" PROVE prog[p].loop
    BY <2>1, <2>2, PlainIs
  <2> SUFFICES ASSUME l.idx = "below" PROVE i - 1 \in Cells
    OBVIOUS
  <2>3. 1 <= i /\ i \in Nat /\ i \in Cells
    BY <1>1, <2>1, <2>2 DEF Counts
  <2>4. i - 1 >= 0 /\ i - 1 <= i
    BY <2>3
  <2> QED
    BY MaxNAssumption, <2>3, <2>4 DEF Cells
<1>4. l.idx # "last" => Where(l, i) \in Cells /\ \A m : LoadValue(m, l, N, i) = m[l.arr][Where(l, i)]
  BY <1>1, <1>2, <1>3 DEF Where, LoadValue, Index
<1>5. \A m \in Memories : LoadValue(m, l, N, i) \in Int
  <2>1. CASE l.idx # "last"
    BY <1>2, <1>4, <2>1 DEF Memories
  <2>2. CASE l.idx = "last"
    BY <1>1, <1>2, <2>2 DEF LoadValue, Index, Memories
  <2> QED
    BY <2>1, <2>2
<1> QED
  BY <1>1, <1>4, <1>5

(* What a store adds up, and the term with its sign. *)
Reads(m, st, N, i) == [l \in DOMAIN st.loads |-> st.loads[l].coef * LoadValue(m, st.loads[l], N, i)]
SignedTerm(st, N, i) == IF st.shape = "subtracted" THEN -TermValue(st.term, N, i) ELSE TermValue(st.term, N, i)

LEMMA StoreValueIs ==
  ASSUME Plain, NEW p \in DOMAIN prog, NEW s \in DOMAIN prog[p].body, NEW N \in 1..MaxN,
         NEW i, Counts(prog[p], N, i), NEW m \in Memories
  PROVE  /\ Numbers(Reads(m, prog[p].body[s], N, i), Len(prog[p].body[s].loads))
         /\ SignedTerm(prog[p].body[s], N, i) \in Int
         /\ StoreValue(m, prog[p].body[s], N, i) = Sum(Reads(m, prog[p].body[s], N, i)) + SignedTerm(prog[p].body[s], N, i)
         /\ StoreValue(m, prog[p].body[s], N, i) \in Int
<1> DEFINE st == prog[p].body[s]
<1>1. st \in Stores /\ st.rem = 0
  BY PlainIs
<1>2. i \in Int /\ N \in Int
  BY MaxNAssumption DEF Counts
<1>3. ASSUME NEW l \in DOMAIN st.loads PROVE st.loads[l].coef * LoadValue(m, st.loads[l], N, i) \in Int
  <2>1. st.loads[l] \in LoadsOf(st) /\ st.loads[l].coef \in Int
    BY <1>1, StoreIs
  <2>2. LoadValue(m, st.loads[l], N, i) \in Int
    BY <2>1, WhereIs
  <2> QED
    BY <2>1, <2>2
<1>4. Numbers(Reads(m, st, N, i), Len(st.loads))
  <2>1. DOMAIN st.loads = 1..Len(st.loads) /\ Len(st.loads) \in Nat
    BY <1>1, StoreIs
  <2> QED
    BY <1>3, <2>1 DEF Numbers, Reads
<1>5. SignedTerm(st, N, i) \in Int
  <2>1. st.term \in Terms
    BY <1>1, StoreIs
  <2>2. TermValue(st.term, N, i) \in Int
    BY <1>2, <2>1, TermDifferenceType
  <2> QED
    BY <2>2 DEF SignedTerm
<1>6. StoreValue(m, st, N, i) = Sum(Reads(m, st, N, i)) + SignedTerm(st, N, i)
  BY <1>1 DEF StoreValue, Reads, SignedTerm
<1>7. Sum(Reads(m, st, N, i)) \in Int
  BY <1>4, SumType
<1> QED
  BY <1>4, <1>5, <1>6, <1>7

LEMMA BodyType ==
  ASSUME Plain, NEW p \in DOMAIN prog, NEW N \in 1..MaxN, NEW i, Counts(prog[p], N, i), NEW m \in Memories,
         NEW run, BodySteps(run, m, prog[p], N, i, Len(prog[p].body))
  PROVE  \A s \in 0..Len(prog[p].body) : run[s] \in Memories
<1> DEFINE n == Len(prog[p].body)
           S == {s \in 0..n : run[s] \in Memories}
<1>0. n \in Nat /\ DOMAIN prog[p].body = 1..n /\ i \in Cells
  <2>1. i \in Cells
    BY MaxNAssumption, PlainIs DEF Counts, Cells
  <2> QED
    BY <2>1, PlainIs
<1>1. 0 \in S
  BY <1>0 DEF BodySteps
<1>2. ASSUME NEW s \in 0..(n - 1), s \in S PROVE s + 1 \in S
  <2>1. s + 1 \in 1..n /\ (s + 1) - 1 = s /\ s + 1 \in 0..n
    BY <1>0
  <2> DEFINE st == prog[p].body[s + 1]
  <2>2. run[s + 1] = Assigned(run[s], st.arr, i, StoreValue(run[s], st, N, i))
    BY <2>1 DEF BodySteps
  <2>3. st.arr \in Arrays
    BY <1>0, <2>1, PlainIs, StoreIs
  <2>4. StoreValue(run[s], st, N, i) \in Int
    BY <1>0, <1>2, <2>1, StoreValueIs
  <2>5. run[s] \in Memories
    BY <1>2
  <2> DEFINE v == StoreValue(run[s], st, N, i)
  <2>6. run[s + 1] \in Memories
    <3> DEFINE a == st.arr  r == run[s]
    <3>1. v \in Int /\ run[s + 1] = Assigned(r, a, i, v) /\ a \in Arrays /\ r \in Memories
      BY <2>2, <2>3, <2>4, <2>5
    <3> HIDE DEF v, a, r
    <3>2. Assigned(r, a, i, v) \in Memories
      BY <1>0, <3>1, AssignedIs
    <3> QED
      BY <3>1, <3>2
  <2> QED
    BY <2>1, <2>6
<1> HIDE DEF S
<1>3. 0..n \subseteq S
  <2> HIDE DEF n
  <2> QED
    BY <1>0, <1>1, <1>2, SetInduction
<1> QED
  BY <1>3 DEF S

LEMMA BodyIs ==
  ASSUME Plain, NEW p \in DOMAIN prog, NEW N \in 1..MaxN, NEW i, Counts(prog[p], N, i), NEW m \in Memories
  PROVE  /\ Body(m, prog[p], N, i) \in Memories
         /\ \E run : BodySteps(run, m, prog[p], N, i, Len(prog[p].body))
<1>1. Len(prog[p].body) \in Nat /\ DOMAIN prog[p].body = 1..Len(prog[p].body) /\ ~prog[p].ofN
  BY PlainIs
<1>2. PICK run : BodySteps(run, m, prog[p], N, i, Len(prog[p].body))
  BY <1>1, BodyTrace
<1>3. Len(prog[p].body) \in 0..Len(prog[p].body)
  BY <1>1
<1>4. run[Len(prog[p].body)] \in Memories
  BY <1>2, <1>3, BodyType
<1> QED
  BY <1>2, <1>4 DEF BodySteps

LEMMA LoopType ==
  ASSUME Plain, NEW p \in DOMAIN prog, prog[p].loop, NEW N \in 1..MaxN, NEW m \in Memories,
         NEW run, LoopSteps(run, m, prog[p], N, N - prog[p].first)
  PROVE  \A k \in 0..(N - prog[p].first) : run[k] \in Memories
<1> DEFINE n == N - prog[p].first
           S == {k \in 0..n : run[k] \in Memories}
<1>0. n \in Nat /\ N \in Nat /\ prog[p].first \in {0, 1}
  BY MaxNAssumption, PlainIs
<1>1. 0 \in S
  BY <1>0 DEF LoopSteps
<1>2. ASSUME NEW k \in 0..(n - 1), k \in S PROVE k + 1 \in S
  <2>1. k + 1 \in 1..n /\ (k + 1) - 1 = k /\ k + 1 \in 0..n
    BY <1>0
  <2> DEFINE i == prog[p].first + (k + 1) - 1
  <2>2. run[k + 1] = Body(run[k], prog[p], N, i)
    BY <2>1 DEF LoopSteps
  <2>3. Counts(prog[p], N, i)
    BY <1>0, <2>1 DEF Counts
  <2> HIDE DEF i
  <2>4. run[k + 1] \in Memories
    BY <1>2, <2>2, <2>3, BodyIs
  <2> QED
    BY <2>1, <2>4
<1> HIDE DEF S
<1>3. 0..n \subseteq S
  <2> HIDE DEF n
  <2> QED
    BY <1>0, <1>1, <1>2, SetInduction
<1> QED
  BY <1>3 DEF S

LEMMA AfterItemType ==
  ASSUME Plain, NEW p \in DOMAIN prog, NEW N \in 1..MaxN, NEW m \in Memories
  PROVE  /\ AfterItem(m, prog[p], N) \in Memories
         /\ prog[p].loop => \E run : LoopSteps(run, m, prog[p], N, N - prog[p].first)
<1>0. prog[p].loop \in BOOLEAN /\ prog[p].first \in {0, 1} /\ N \in Nat \ {0}
  BY MaxNAssumption, PlainIs
<1>1. CASE ~prog[p].loop
  <2>1. Counts(prog[p], N, 0)
    BY <1>1 DEF Counts
  <2>2. AfterItem(m, prog[p], N) = Body(m, prog[p], N, 0)
    BY <1>1 DEF AfterItem
  <2> QED
    BY <1>1, <2>1, <2>2, BodyIs
<1>2. CASE prog[p].loop
  <2>1. N - prog[p].first \in Nat /\ N - prog[p].first \in 0..(N - prog[p].first)
    BY <1>0
  <2>2. PICK run : LoopSteps(run, m, prog[p], N, N - prog[p].first)
    BY <1>2, <2>1, LoopTrace
  <2>3. run[N - prog[p].first] \in Memories
    BY <1>2, <2>1, <2>2, LoopType
  <2> QED
    BY <2>2, <2>3 DEF LoopSteps
<1> QED
  BY <1>0, <1>1, <1>2

LEMMA At0Type == At0 \in Memories
BY ContentsAssumption DEF At0, Memories, Cells

-----------------------------------------------------------------------------
(* The memories P_N goes through. *)
Mem(N)          == CHOOSE run : ProgSteps(run, N, Len(prog))
Iters(N, p)     == CHOOSE run : LoopSteps(run, Mem(N)[p - 1], prog[p], N, N - prog[p].first)
Begins(N, p, i) == IF prog[p].loop THEN Iters(N, p)[i - prog[p].first] ELSE Mem(N)[p - 1]
Stages(N, p, i) == CHOOSE run : BodySteps(run, Begins(N, p, i), prog[p], N, i, Len(prog[p].body))
At(N, p, i, s)  == Stages(N, p, i)[s]

LEMMA MemIs ==
  ASSUME Plain, NEW N \in 1..MaxN
  PROVE  /\ Mem(N)[0] = At0 /\ Final(N) = Mem(N)[Len(prog)]
         /\ \A p \in 0..Len(prog) : Mem(N)[p] \in Memories
         /\ \A p \in DOMAIN prog : Mem(N)[p] = AfterItem(Mem(N)[p - 1], prog[p], N) /\ p - 1 \in 0..Len(prog)
<1> DEFINE n == Len(prog)  run == Mem(N)
<1>0. n \in Nat /\ DOMAIN prog = 1..n
  BY DEF Plain
<1> HIDE DEF n
<1>1. ProgSteps(run, N, n)
  <2>1. \E r : ProgSteps(r, N, n)
    BY <1>0, ProgTrace
  <2> QED
    BY <2>1, Zenon DEF Mem, n
<1> HIDE DEF run
<1>2. run[0] = At0 /\ Final(N) = run[n] /\ \A k \in 1..n : run[k] = AfterItem(run[k - 1], prog[k], N)
  BY <1>1 DEF ProgSteps
<1> DEFINE S == {k \in 0..n : run[k] \in Memories}
<1>3. 0 \in S
  BY <1>0, <1>2, At0Type
<1>4. ASSUME NEW k \in 0..(n - 1), k \in S PROVE k + 1 \in S
  <2>1. k + 1 \in 1..n /\ (k + 1) - 1 = k /\ k + 1 \in 0..n
    BY <1>0
  <2>2. run[k + 1] = AfterItem(run[k], prog[k + 1], N)
    BY <1>2, <2>1
  <2>3. run[k + 1] \in Memories
    BY <1>0, <1>4, <2>1, <2>2, AfterItemType
  <2> QED
    BY <2>1, <2>3
<1> HIDE DEF S
<1>5. 0..n \subseteq S
  BY <1>0, <1>3, <1>4, SetInduction
<1>6. \A k \in 1..n : k - 1 \in 0..n
  BY <1>0
<1> QED
  BY <1>0, <1>2, <1>5, <1>6 DEF S, n, run

LEMMA BeginsIs ==
  ASSUME Plain, NEW p \in DOMAIN prog, prog[p].loop, NEW N \in 1..MaxN
  PROVE  /\ Begins(N, p, prog[p].first) = Mem(N)[p - 1] /\ Begins(N, p, N) = Mem(N)[p]
         /\ \A i \in prog[p].first..N : Begins(N, p, i) \in Memories
         /\ \A i \in prog[p].first..(N - 1) : Begins(N, p, i + 1) = Body(Begins(N, p, i), prog[p], N, i)
<1> DEFINE f == prog[p].first  n == N - f  run == Iters(N, p)  m == Mem(N)[p - 1]
<1>0. f \in {0, 1} /\ n \in Nat /\ N \in Nat
  BY MaxNAssumption, PlainIs
<1>1. m \in Memories /\ Mem(N)[p] = AfterItem(m, prog[p], N)
  BY MemIs
<1>2. LoopSteps(run, m, prog[p], N, n)
  <2>1. \E r : LoopSteps(r, m, prog[p], N, n)
    BY <1>1, AfterItemType
  <2> QED
    BY <2>1, Zenon DEF Iters
<1>3. \A k \in 0..n : run[k] \in Memories
  BY <1>1, <1>2, LoopType
<1>4. run[0] = m /\ run[n] = AfterItem(m, prog[p], N)
      /\ \A k \in 1..n : run[k] = Body(run[k - 1], prog[p], N, f + k - 1)
  BY <1>2 DEF LoopSteps
<1>5. \A i \in f..N : Begins(N, p, i) = run[i - f] /\ i - f \in 0..n
  BY <1>0 DEF Begins
<1>6. f \in f..N /\ N \in f..N /\ f - f = 0
  BY <1>0
<1>7. ASSUME NEW i \in f..(N - 1) PROVE Begins(N, p, i + 1) = Body(Begins(N, p, i), prog[p], N, i)
  <2>1. i + 1 \in f..N /\ i \in f..N /\ (i + 1) - f \in 1..n /\ ((i + 1) - f) - 1 = i - f /\ f + ((i + 1) - f) - 1 = i
    BY <1>0
  <2>2. run[(i + 1) - f] = Body(run[i - f], prog[p], N, i)
    BY <1>4, <2>1
  <2> HIDE DEF f, run, n
  <2> QED
    BY <1>5, <2>1, <2>2
<1> HIDE DEF run
<1> QED
  BY <1>1, <1>3, <1>4, <1>5, <1>6, <1>7

LEMMA AtIs ==
  ASSUME Plain, NEW p \in DOMAIN prog, NEW N \in 1..MaxN, NEW i, Counts(prog[p], N, i)
  PROVE  /\ At(N, p, i, 0) = Begins(N, p, i)
         /\ At(N, p, i, Len(prog[p].body)) = IF prog[p].loop THEN Begins(N, p, i + 1) ELSE Mem(N)[p]
         /\ \A s \in 0..Len(prog[p].body) : At(N, p, i, s) \in Memories
         /\ \A s \in DOMAIN prog[p].body : s - 1 \in 0..Len(prog[p].body)
         /\ \A s \in DOMAIN prog[p].body :
              At(N, p, i, s) = Assigned(At(N, p, i, s - 1), prog[p].body[s].arr, i,
                                        StoreValue(At(N, p, i, s - 1), prog[p].body[s], N, i))
<1> DEFINE n == Len(prog[p].body)  run == Stages(N, p, i)  m == Begins(N, p, i)
<1>0. n \in Nat /\ DOMAIN prog[p].body = 1..n /\ prog[p].loop \in BOOLEAN
  BY PlainIs
<1>1. m \in Memories /\ Body(m, prog[p], N, i) = IF prog[p].loop THEN Begins(N, p, i + 1) ELSE Mem(N)[p]
  <2>1. CASE prog[p].loop
    <3>1. i \in prog[p].first..N /\ i \in prog[p].first..(N - 1)
      BY <2>1, PlainIs, MaxNAssumption DEF Counts
    <3> QED
      BY <2>1, <3>1, BeginsIs
  <2>2. CASE ~prog[p].loop
    <3>1. i = 0 /\ m = Mem(N)[p - 1]
      BY <2>2 DEF Counts, Begins
    <3>2. Mem(N)[p] = Body(Mem(N)[p - 1], prog[p], N, 0) /\ Mem(N)[p - 1] \in Memories
      <4>1. Mem(N)[p] = AfterItem(Mem(N)[p - 1], prog[p], N) /\ Mem(N)[p - 1] \in Memories
        BY MemIs
      <4>2. AfterItem(Mem(N)[p - 1], prog[p], N) = Body(Mem(N)[p - 1], prog[p], N, 0)
        BY <2>2 DEF AfterItem
      <4> QED
        BY <4>1, <4>2
    <3> QED
      BY <2>2, <3>1, <3>2
  <2> QED
    BY <1>0, <2>1, <2>2
<1> HIDE DEF m
<1>2. BodySteps(run, m, prog[p], N, i, n)
  <2>1. \E r : BodySteps(r, m, prog[p], N, i, n)
    BY <1>1, BodyIs
  <2> QED
    BY <2>1, Zenon DEF Stages, m
<1>3. \A s \in 0..n : run[s] \in Memories
  BY <1>1, <1>2, BodyType
<1> HIDE DEF run
<1>4. \A s \in 1..n : s - 1 \in 0..n
  BY <1>0
<1> QED
  BY <1>0, <1>1, <1>2, <1>3, <1>4 DEF BodySteps, At, run, m

LEMMA AssignedElsewhere ==
  ASSUME NEW m \in Memories, NEW a \in Arrays, NEW b \in Arrays, NEW i, NEW v, a # b
  PROVE  Assigned(m, a, i, v)[b] = m[b]
BY DEF Assigned, Memories

(* An array keeps its elements while no store is to it. *)
LEMMA Untouched ==
  ASSUME Plain, NEW p \in DOMAIN prog, NEW N \in 1..MaxN, NEW i, Counts(prog[p], N, i), NEW a \in Arrays,
         NEW s1 \in 0..Len(prog[p].body), NEW s2 \in s1..Len(prog[p].body),
         \A s \in (s1 + 1)..s2 : prog[p].body[s].arr # a
  PROVE  At(N, p, i, s2)[a] = At(N, p, i, s1)[a]
<1> DEFINE n == Len(prog[p].body)
           S == {s \in s1..s2 : At(N, p, i, s)[a] = At(N, p, i, s1)[a]}
<1>0. n \in Nat /\ DOMAIN prog[p].body = 1..n /\ s1 \in Nat /\ s2 \in Nat /\ s1 <= s2 /\ s2 <= n /\ i \in Cells
  <2>1. i \in Cells
    BY MaxNAssumption, PlainIs DEF Counts, Cells
  <2> QED
    BY <2>1, PlainIs
<1> HIDE DEF n
<1>1. s1 \in S
  BY <1>0
<1>2. ASSUME NEW s \in s1..(s2 - 1), s \in S PROVE s + 1 \in S
  <2>0. s \in Int /\ s1 <= s /\ s <= s2 - 1 /\ s2 \in Int /\ s1 \in Int /\ n \in Int /\ 0 <= s1 /\ s2 <= n
    BY <1>0
  <2>1. s + 1 \in 1..n /\ (s + 1) - 1 = s /\ s + 1 \in (s1 + 1)..s2 /\ s + 1 \in s1..s2 /\ s \in 0..n
    BY <2>0
  <2> DEFINE b == prog[p].body[s + 1].arr  r == At(N, p, i, s)  v == StoreValue(r, prog[p].body[s + 1], N, i)
  <2>2. At(N, p, i, s + 1) = Assigned(r, b, i, v) /\ r \in Memories
    BY <1>0, <2>1, AtIs DEF n
  <2>3. b \in Arrays /\ a # b
    BY <1>0, <2>1, PlainIs, StoreIs DEF n
  <2>4. v \in Int
    BY <1>0, <2>1, <2>2, StoreValueIs
  <2> HIDE DEF b, r, v
  <2>5. Assigned(r, b, i, v)[a] = r[a]
    BY <2>2, <2>3, AssignedElsewhere
  <2>6. r[a] = At(N, p, i, s1)[a]
    BY <1>2 DEF r
  <2> QED
    BY <2>1, <2>2, <2>5, <2>6
<1>3. s2 \in S
  <2> HIDE DEF S
  <2>1. s1..s2 \subseteq S
    BY <1>0, <1>1, <1>2, SetInduction
  <2> QED
    BY <1>0, <2>1
<1> QED
  BY <1>3

LEMMA NotWritten ==
  ASSUME Plain, NEW p \in DOMAIN prog, NEW N \in 1..MaxN, NEW a \in Arrays \ Written(prog[p])
  PROVE  /\ Mem(N)[p][a] = Mem(N)[p - 1][a]
         /\ \A i : Counts(prog[p], N, i) =>
              /\ Begins(N, p, i)[a] = Mem(N)[p - 1][a]
              /\ \A s \in 0..Len(prog[p].body) : At(N, p, i, s)[a] = Mem(N)[p - 1][a]
<1> DEFINE n == Len(prog[p].body)
<1>0. /\ n \in Nat /\ \A s \in 1..n : prog[p].body[s].arr # a
      /\ prog[p].loop \in BOOLEAN /\ prog[p].first \in {0, 1} /\ N \in Nat \ {0}
  BY MaxNAssumption, PlainIs DEF Written
<1>1. ASSUME NEW i, Counts(prog[p], N, i), NEW s \in 0..n
      PROVE  At(N, p, i, s)[a] = Begins(N, p, i)[a]
  <2>1. 0 \in 0..n /\ s \in 0..n /\ \A q \in (0 + 1)..s : prog[p].body[q].arr # a
    BY <1>0
  <2>2. At(N, p, i, s)[a] = At(N, p, i, 0)[a]
    BY <1>1, <2>1, Untouched
  <2> QED
    BY <1>1, <2>2, AtIs
<1>2. n \in 0..n
  BY <1>0
<1>3. CASE ~prog[p].loop
  <2>1. ASSUME NEW i, Counts(prog[p], N, i) PROVE Begins(N, p, i) = Mem(N)[p - 1]
    BY <1>3 DEF Begins
  <2>2. Counts(prog[p], N, 0) /\ At(N, p, 0, n) = Mem(N)[p]
    <3>1. Counts(prog[p], N, 0)
      BY <1>3 DEF Counts
    <3> QED
      BY <1>3, <3>1, AtIs
  <2> HIDE DEF n
  <2> QED
    BY <1>1, <1>2, <2>1, <2>2 DEF n
<1>4. CASE prog[p].loop
  <2> DEFINE f == prog[p].first
             S == {i \in f..N : Begins(N, p, i)[a] = Mem(N)[p - 1][a]}
  <2>1. f \in S
    BY <1>0, <1>4, BeginsIs
  <2>2. ASSUME NEW i \in f..(N - 1), i \in S PROVE i + 1 \in S
    <3>1. Counts(prog[p], N, i) /\ i + 1 \in f..N
      BY <1>0, <1>4 DEF Counts
    <3>2. Begins(N, p, i + 1) = At(N, p, i, n)
      BY <1>4, <3>1, AtIs
    <3> QED
      BY <1>1, <1>2, <2>2, <3>1, <3>2
  <2> HIDE DEF S
  <2>3. f..N \subseteq S
    <3>1. f \in Nat /\ N \in Nat
      BY <1>0
    <3> HIDE DEF f
    <3> QED
      BY <2>1, <2>2, <3>1, SetInduction
  <2>4. N \in f..N /\ \A i : Counts(prog[p], N, i) => i \in f..N
    BY <1>0, <1>4 DEF Counts
  <2>5. \A i \in f..N : Begins(N, p, i)[a] = Mem(N)[p - 1][a]
    BY <2>3 DEF S
  <2>6. Mem(N)[p][a] = Mem(N)[p - 1][a]
    BY <1>4, <2>4, <2>5, BeginsIs
  <2> HIDE DEF n, f
  <2> QED
    BY <1>1, <2>4, <2>5, <2>6 DEF n
<1> QED
  BY <1>0, <1>3, <1>4

(* An iteration stores the elements at its counter. *)
LEMMA OneElement ==
  ASSUME Plain, NEW p \in DOMAIN prog, NEW N \in 1..MaxN, NEW i, Counts(prog[p], N, i),
         NEW a \in Arrays \ Static, NEW j \in Cells, j # i
  PROVE  \A s \in 0..Len(prog[p].body) : At(N, p, i, s)[a][j] = Begins(N, p, i)[a][j]
<1> DEFINE n == Len(prog[p].body)
           S == {s \in 0..n : At(N, p, i, s)[a][j] = Begins(N, p, i)[a][j]}
<1>0. n \in Nat /\ DOMAIN prog[p].body = 1..n /\ i \in Cells /\ Index(a, i) = i
  <2>1. i \in Cells
    BY MaxNAssumption, PlainIs DEF Counts, Cells
  <2> QED
    BY <2>1, PlainIs DEF Index, IsStatic
<1>1. 0 \in S
  BY <1>0, AtIs
<1>2. ASSUME NEW s \in 0..(n - 1), s \in S PROVE s + 1 \in S
  <2>1. s + 1 \in 1..n /\ (s + 1) - 1 = s /\ s + 1 \in 0..n /\ s \in 0..n
    BY <1>0
  <2> DEFINE b == prog[p].body[s + 1].arr  r == At(N, p, i, s)  v == StoreValue(r, prog[p].body[s + 1], N, i)
  <2>2. At(N, p, i, s + 1) = Assigned(r, b, i, v) /\ r \in Memories
    BY <1>0, <2>1, AtIs
  <2>3. b \in Arrays
    BY <1>0, <2>1, PlainIs, StoreIs
  <2>4. v \in Int
    BY <1>0, <2>1, <2>2, StoreValueIs
  <2>6. r[a][j] = Begins(N, p, i)[a][j]
    BY <1>2
  <2> HIDE DEF b, r, v, n
  <2>5. Assigned(r, b, i, v)[a][j] = r[a][j]
    <3>1. CASE a = b
      BY <1>0, <2>2, <2>3, <2>4, <3>1, AssignedIs
    <3>2. CASE a # b
      <4>1. Assigned(r, b, i, v)[a] = r[a]
        BY <2>2, <2>3, <3>2, AssignedElsewhere
      <4> QED
        BY <4>1
    <3> QED
      BY <3>1, <3>2
  <2> QED
    BY <2>1, <2>2, <2>5, <2>6
<1> HIDE DEF S
<1>3. 0..n \subseteq S
  <2> HIDE DEF n
  <2> QED
    BY <1>0, <1>1, <1>2, SetInduction
<1> QED
  BY <1>3 DEF S

LEMMA LoopElement ==
  ASSUME Plain, NEW p \in DOMAIN prog, prog[p].loop, NEW N \in 1..MaxN,
         NEW a \in Arrays \ Static, NEW j \in Cells, NEW i \in prog[p].first..N
  PROVE  Begins(N, p, i)[a][j] = IF j < i THEN Mem(N)[p][a][j] ELSE Mem(N)[p - 1][a][j]
<1> DEFINE f == prog[p].first  n == Len(prog[p].body)
<1>0. f \in {0, 1} /\ N \in Nat \ {0} /\ n \in Nat /\ i \in Nat /\ j \in Int /\ f <= i /\ i <= N
  BY MaxNAssumption, PlainIs DEF Cells
<1>1. ASSUME NEW k \in f..(N - 1), k # j PROVE Begins(N, p, k + 1)[a][j] = Begins(N, p, k)[a][j]
  <2>1. Counts(prog[p], N, k) /\ n \in 0..n
    BY <1>0 DEF Counts
  <2>2. At(N, p, k, n) = Begins(N, p, k + 1)
    BY <2>1, AtIs
  <2> QED
    BY <1>1, <2>1, <2>2, OneElement
<1>2. Begins(N, p, f) = Mem(N)[p - 1] /\ Begins(N, p, N) = Mem(N)[p]
  BY BeginsIs
<1> HIDE DEF f, n
<1>3. CASE j < i
  <2> DEFINE S == {k \in i..N : Begins(N, p, k)[a][j] = Begins(N, p, i)[a][j]}
  <2>1. i \in S
    BY <1>0
  <2>2. ASSUME NEW k \in i..(N - 1), k \in S PROVE k + 1 \in S
    <3>1. k \in f..(N - 1) /\ k # j /\ k + 1 \in i..N
      BY <1>0, <1>3
    <3> QED
      BY <1>1, <2>2, <3>1
  <2> HIDE DEF S
  <2>3. i..N \subseteq S
    BY <1>0, <2>1, <2>2, SetInduction
  <2>4. N \in S
    BY <1>0, <2>3
  <2> QED
    BY <1>2, <1>3, <2>4 DEF S
<1>4. CASE ~(j < i)
  <2> DEFINE S == {k \in f..i : Begins(N, p, k)[a][j] = Mem(N)[p - 1][a][j]}
  <2>1. f \in S
    BY <1>0, <1>2
  <2>2. ASSUME NEW k \in f..(i - 1), k \in S PROVE k + 1 \in S
    <3>1. k \in f..(N - 1) /\ k # j /\ k + 1 \in f..i
      BY <1>0, <1>4
    <3> QED
      BY <1>1, <2>2, <3>1
  <2> HIDE DEF S
  <2>3. f..i \subseteq S
    <3>1. f \in Nat /\ i \in Nat
      BY <1>0
    <3> QED
      BY <3>1, <2>1, <2>2, SetInduction
  <2>4. i \in S
    BY <1>0, <2>3
  <2> QED
    BY <1>4, <2>4 DEF S
<1> QED
  BY <1>3, <1>4

(* What an item leaves as it is: elements above its size, or not at its counters. *)
LEMMA NotReached ==
  ASSUME Plain, NEW p \in DOMAIN prog, NEW N \in 1..MaxN, NEW a \in Arrays \ Static, NEW j \in Cells,
         IF prog[p].loop THEN j < prog[p].first \/ j >= N ELSE j # 0
  PROVE  Mem(N)[p][a][j] = Mem(N)[p - 1][a][j]
<1>0. prog[p].loop \in BOOLEAN /\ prog[p].first \in {0, 1} /\ N \in Nat \ {0} /\ j \in Int
      /\ Len(prog[p].body) \in Nat
  BY MaxNAssumption, PlainIs DEF Cells
<1>1. CASE prog[p].loop /\ j >= N
  <2>1. N \in prog[p].first..N /\ ~(j < N)
    BY <1>0, <1>1
  <2>2. Begins(N, p, N)[a][j] = Mem(N)[p - 1][a][j]
    BY <1>1, <2>1, LoopElement
  <2> QED
    BY <1>1, <2>2, BeginsIs
<1>2. CASE prog[p].loop /\ j < prog[p].first
  <2>1. prog[p].first \in prog[p].first..N
    BY <1>0
  <2>2. Begins(N, p, prog[p].first)[a][j] = Mem(N)[p][a][j]
    BY <1>2, <2>1, LoopElement
  <2> QED
    BY <1>2, <2>2, BeginsIs
<1>3. CASE ~prog[p].loop
  <2>1. Counts(prog[p], N, 0) /\ Len(prog[p].body) \in 0..Len(prog[p].body) /\ j # 0
    BY <1>0, <1>3 DEF Counts
  <2>2. At(N, p, 0, Len(prog[p].body))[a][j] = Begins(N, p, 0)[a][j]
    BY <2>1, OneElement
  <2>3. At(N, p, 0, Len(prog[p].body)) = Mem(N)[p] /\ Begins(N, p, 0) = Mem(N)[p - 1]
    BY <1>3, <2>1, AtIs DEF Begins
  <2> QED
    BY <2>2, <2>3
<1> QED
  BY <1>0, <1>1, <1>2, <1>3

-----------------------------------------------------------------------------
LEMMA NeverStored ==
  ASSUME Plain, NEW N \in 1..MaxN, NEW p \in 0..Len(prog), NEW a \in Arrays,
         \A q \in 1..p : a \notin Written(prog[q])
  PROVE  Mem(N)[p][a] = At0[a]
<1> DEFINE S == {q \in 0..p : Mem(N)[q][a] = At0[a]}
<1>0. Len(prog) \in Nat /\ DOMAIN prog = 1..Len(prog) /\ p \in Nat
  BY DEF Plain
<1>1. 0 \in S
  BY <1>0, MemIs
<1>2. ASSUME NEW q \in 0..(p - 1), q \in S PROVE q + 1 \in S
  <2>1. q + 1 \in DOMAIN prog /\ q + 1 \in 1..p /\ (q + 1) - 1 = q /\ q + 1 \in 0..p
    BY <1>0
  <2>2. Mem(N)[q + 1][a] = Mem(N)[q][a]
    BY <2>1, NotWritten
  <2> QED
    BY <1>2, <2>1, <2>2
<1> HIDE DEF S
<1>3. 0..p \subseteq S
  BY <1>0, <1>1, <1>2, SetInduction
<1>4. p \in S
  BY <1>0, <1>3
<1> QED
  BY <1>4 DEF S

LEMMA StoredNoMore ==
  ASSUME Plain, NEW N \in 1..MaxN, NEW p \in 0..Len(prog), NEW a \in Arrays,
         \A q \in (p + 1)..Len(prog) : a \notin Written(prog[q])
  PROVE  Final(N)[a] = Mem(N)[p][a]
<1> DEFINE n == Len(prog)
           S == {q \in p..n : Mem(N)[q][a] = Mem(N)[p][a]}
<1>0. n \in Nat /\ DOMAIN prog = 1..n /\ p \in Nat /\ p <= n
  BY DEF Plain
<1>1. p \in S
  BY <1>0
<1> HIDE DEF n
<1>2. ASSUME NEW q \in p..(n - 1), q \in S PROVE q + 1 \in S
  <2>1. q + 1 \in DOMAIN prog /\ q + 1 \in (p + 1)..n /\ (q + 1) - 1 = q /\ q + 1 \in p..n
    BY <1>0
  <2>2. Mem(N)[q + 1][a] = Mem(N)[q][a]
    BY <2>1, NotWritten DEF n
  <2> QED
    BY <1>2, <2>1, <2>2
<1> HIDE DEF S
<1>3. p..n \subseteq S
  BY <1>0, <1>1, <1>2, SetInduction
<1>4. n \in S
  BY <1>0, <1>3
<1>5. Mem(N)[n][a] = Mem(N)[p][a]
  BY <1>4 DEF S
<1> QED
  BY <1>5, MemIs DEF n

(* Elements no item reaches. *)
LEMMA NeverReached ==
  ASSUME Plain, NEW N \in 1..MaxN, NEW p \in 0..Len(prog), NEW a \in Arrays \ Static, NEW j \in Cells,
         j # 0, j >= N \/ \A q \in 1..p : a \in Written(prog[q]) => ~prog[q].loop
  PROVE  Mem(N)[p][a][j] = At0[a][j]
<1> DEFINE S == {q \in 0..p : Mem(N)[q][a][j] = At0[a][j]}
<1>0. Len(prog) \in Nat /\ DOMAIN prog = 1..Len(prog) /\ p \in Nat
  BY DEF Plain
<1>1. 0 \in S
  BY <1>0, MemIs
<1>2. ASSUME NEW q \in 0..(p - 1), q \in S PROVE q + 1 \in S
  <2>1. q + 1 \in DOMAIN prog /\ q + 1 \in 1..p /\ (q + 1) - 1 = q /\ q + 1 \in 0..p
    BY <1>0
  <2>2. Mem(N)[q + 1][a][j] = Mem(N)[q][a][j]
    <3>1. CASE a \notin Written(prog[q + 1])
      BY <2>1, <3>1, NotWritten
    <3>2. CASE a \in Written(prog[q + 1])
      <4>1. IF prog[q + 1].loop THEN j < prog[q + 1].first \/ j >= N ELSE j # 0
        BY <2>1, <3>2
      <4>2. Mem(N)[q + 1][a][j] = Mem(N)[(q + 1) - 1][a][j]
        BY <2>1, <4>1, NotReached
      <4> QED
        BY <2>1, <4>2
    <3> QED
      BY <3>1, <3>2
  <2> QED
    BY <1>2, <2>1, <2>2
<1> HIDE DEF S
<1>3. 0..p \subseteq S
  BY <1>0, <1>1, <1>2, SetInduction
<1>4. p \in S
  BY <1>0, <1>3
<1> QED
  BY <1>4 DEF S

-----------------------------------------------------------------------------
(***************************************************************************)
(* The difference function: its states and its instructions.              *)
(***************************************************************************)

(* The states of the difference function, and the instructions it may have. *)
Registers == {r \in [AllLoads -> Int] : r[<<0, 0, 0>>] = 0}
States    == [mem : Memories, regs : Registers]
Values    == ValuesOver(AllLoads)
Legal(in) ==
  /\ in.item \in DOMAIN prog /\ in.store \in DOMAIN prog[in.item].body
  /\ in.kind \in {"store", "add"} /\ in.add \in Seq(Values)
Counter(p, N) == IF prog[p].loop THEN N - 1 ELSE 0

LEMMA RegistersAre ==
  ASSUME NEW regs \in Registers
  PROVE  Regs(regs, AllLoads) /\ \A vs \in Seq(Values), N \in Int : Recorded(vs, N, regs) \in Int
<1>1. Regs(regs, AllLoads)
  BY DEF Registers, Regs, AllLoads, LoadSites
<1> QED
  BY <1>1, RecordedNumbers DEF Values

LEMMA CounterIs ==
  ASSUME Plain, NEW N \in 2..MaxN, NEW p \in DOMAIN prog
  PROVE  Counts(prog[p], N, Counter(p, N)) /\ N \in 1..MaxN /\ N - 1 \in 1..MaxN /\ N \in Int
         /\ Counter(p, N) \in Cells /\ N - 1 \in Cells /\ 0 \in Cells /\ N - 1 # 0
BY MaxNAssumption, PlainIs DEF Counts, Counter, Cells

LEMMA SitesAre ==
  ASSUME Plain, NEW r \in AllLoads, r # <<0, 0, 0>>
  PROVE  r[1] \in DOMAIN prog /\ r[2] \in DOMAIN prog[r[1]].body /\ r[3] \in DOMAIN prog[r[1]].body[r[2]].loads
         /\ r = <<r[1], r[2], r[3]>>
BY DEF AllLoads, LoadSites

LEMMA LoadsHave ==
  ASSUME NEW p \in DOMAIN prog, NEW s \in DOMAIN prog[p].body, NEW l \in DOMAIN prog[p].body[s].loads
  PROVE  <<p, s, l>> \in AllLoads
BY DEF AllLoads, LoadSites

LEMMA FinalType ==
  ASSUME Plain, NEW N \in 2..MaxN
  PROVE  Final(N - 1) \in Memories /\ Final(N) \in Memories /\ N - 1 \in 1..MaxN /\ N \in 1..MaxN
<1>1. N - 1 \in 1..MaxN /\ N \in 1..MaxN
  BY MaxNAssumption
<1>2. Len(prog) \in 0..Len(prog)
  BY DEF Plain
<1> QED
  BY <1>1, <1>2, MemIs

(* A store of the function, with the counter at its last value. *)
LEMMA ExecuteStore ==
  ASSUME Plain, NEW N \in 2..MaxN, NEW state \in States, NEW in, Legal(in), in.kind = "store",
         NEW p, p = in.item, NEW s, s = in.store, NEW st, st = prog[p].body[s], NEW i, i = Counter(p, N),
         NEW end, end = Execute(prog, state, in, N)
  PROVE  /\ end \in States
         /\ end.mem = Assigned(state.mem, st.arr, i, StoreValue(state.mem, st, N, i))
         /\ StoreValue(state.mem, st, N, i) \in Int
         /\ \A r \in AllLoads : ~(r[1] = p /\ r[2] = s) => end.regs[r] = state.regs[r]
         /\ \A l \in DOMAIN st.loads : end.regs[<<p, s, l>>] = LoadValue(state.mem, st.loads[l], N, i)
<1> DEFINE v == StoreValue(state.mem, st, N, i)
           regs == [r \in AllLoads |-> IF r[1] = p /\ r[2] = s
                                       THEN LoadValue(state.mem, st.loads[r[3]], N, i)
                                       ELSE state.regs[r]]
<1>1. p \in DOMAIN prog /\ s \in DOMAIN prog[p].body
  BY DEF Legal
<1>2. ~prog[p].ofN /\ st \in Stores
  BY <1>1, PlainIs
<1>3. state.mem \in Memories /\ state.regs \in Registers
  BY DEF States
<1>4. end = [mem |-> Assigned(state.mem, st.arr, i, v), regs |-> regs]
  BY <1>2, Zenon DEF Execute, Final, AllLoads, Counter
<1>5. v \in Int
  BY <1>1, <1>3, CounterIs, StoreValueIs
<1>6. Assigned(state.mem, st.arr, i, v) \in Memories
  <2> DEFINE a == st.arr  m == state.mem
  <2>1. a \in Arrays /\ m \in Memories /\ i \in Cells
    BY <1>1, <1>2, <1>3, StoreIs, CounterIs
  <2> HIDE DEF a, m, v
  <2>2. Assigned(m, a, i, v) \in Memories
    BY <1>5, <2>1, AssignedIs
  <2> QED
    BY <2>2 DEF a, m
<1>7. ASSUME NEW r \in AllLoads, r[1] = p, r[2] = s
      PROVE  r # <<0, 0, 0>> /\ LoadValue(state.mem, st.loads[r[3]], N, i) \in Int
  <2>1. r # <<0, 0, 0>>
    BY <1>1, <1>7 DEF Plain
  <2>2. r[3] \in DOMAIN st.loads
    BY <1>7, <2>1, SitesAre
  <2>3. st.loads[r[3]] \in LoadsOf(st)
    BY <2>2 DEF LoadsOf
  <2>4. Counts(prog[p], N, i) /\ N \in 1..MaxN
    BY <1>1, CounterIs
  <2> DEFINE l == st.loads[r[3]]  m == state.mem
  <2>5. l \in LoadsOf(prog[p].body[s]) /\ m \in Memories
    BY <1>3, <2>3
  <2> HIDE DEF v, l, m
  <2>6. LoadValue(m, l, N, i) \in Int
    BY <1>1, <2>4, <2>5, WhereIs
  <2> QED
    BY <2>1, <2>6 DEF l, m
<1>8. regs \in Registers
  <2>1. \A r \in AllLoads : state.regs[r] \in Int
    BY <1>3 DEF Registers
  <2>2. state.regs[<<0, 0, 0>>] = 0 /\ <<0, 0, 0>> \in AllLoads
    BY <1>3 DEF Registers, AllLoads, LoadSites
  <2>3. \A r \in AllLoads : regs[r] \in Int
    BY <1>7, <2>1
  <2>4. regs[<<0, 0, 0>>] = 0
    BY <1>7, <2>2
  <2>5. regs \in [AllLoads -> Int]
    BY <2>3
  <2> HIDE DEF regs
  <2> QED
    BY <2>4, <2>5 DEF Registers
<1>9. \A l \in DOMAIN st.loads : <<p, s, l>> \in AllLoads
  BY <1>1, LoadsHave
<1>10. \A l \in DOMAIN st.loads : regs[<<p, s, l>>] = LoadValue(state.mem, st.loads[l], N, i)
  BY <1>9
<1>11. \A r \in AllLoads : ~(r[1] = p /\ r[2] = s) => regs[r] = state.regs[r]
  OBVIOUS
<1> HIDE DEF regs, v
<1>12. end \in States /\ end.mem = Assigned(state.mem, st.arr, i, v) /\ end.regs = regs
  BY <1>4, <1>6, <1>8 DEF States
<1> QED
  BY <1>5, <1>10, <1>11, <1>12 DEF v

(* An addition to an element. *)
From(in, state, N)           == IF in.entry THEN Final(N - 1) ELSE state.mem
AddValue(in, state, a, i, N) == From(in, state, N)[a][Index(a, i)] + Recorded(in.add, N, state.regs)

LEMMA ExecuteAdd ==
  ASSUME Plain, NEW N \in 2..MaxN, NEW state \in States, NEW in, Legal(in), in.kind = "add",
         NEW p, p = in.item, NEW a, a = prog[p].body[in.store].arr, NEW i, i = Counter(p, N),
         NEW end, end = Execute(prog, state, in, N)
  PROVE  /\ end \in States /\ end.regs = state.regs /\ AddValue(in, state, a, i, N) \in Int
         /\ end.mem = Assigned(state.mem, a, i, AddValue(in, state, a, i, N))
<1> DEFINE s == in.store  m == state.mem  from == From(in, state, N)
           v == AddValue(in, state, a, i, N)
<1>1. p \in DOMAIN prog /\ s \in DOMAIN prog[p].body /\ in.add \in Seq(Values)
  BY DEF Legal
<1>2. ~prog[p].ofN /\ a \in Arrays /\ i \in Cells /\ N \in Int
  BY <1>1, PlainIs, StoreIs, CounterIs
<1>3. m \in Memories /\ state.regs \in Registers /\ state = [mem |-> state.mem, regs |-> state.regs]
  BY DEF States
<1>4. end = [mem |-> Assigned(m, a, i, v), regs |-> state.regs]
  <2>1. end = [state EXCEPT !.mem = Assigned(@, a, i, v)]
    BY <1>2, Zenon DEF Execute, Final, AllLoads, Counter, From, AddValue
  <2> HIDE DEF v
  <2> QED
    BY <1>3, <2>1
<1>5. v \in Int
  <2>1. from \in Memories /\ Index(a, i) \in Cells
    BY <1>2, <1>3, FinalType, CounterIs, <1>1 DEF Index, From
  <2>2. from[a][Index(a, i)] \in Int
    BY <1>2, <2>1 DEF Memories
  <2>3. Recorded(in.add, N, state.regs) \in Int
    BY <1>1, <1>2, <1>3, RegistersAre
  <2> QED
    BY <2>2, <2>3 DEF AddValue
<1> HIDE DEF v
<1>6. Assigned(m, a, i, v) \in Memories
  <2> HIDE DEF m
  <2> QED
    BY <1>2, <1>3, <1>5, AssignedIs
<1>7. end \in States /\ end.mem = Assigned(m, a, i, v) /\ end.regs = state.regs
  <2> HIDE DEF m
  <2> QED
    BY <1>3, <1>4, <1>6 DEF States
<1> QED
  BY <1>5, <1>7 DEF v

-----------------------------------------------------------------------------
LegalSeq(ins) == DOMAIN ins = 1..Len(ins) /\ Len(ins) \in Nat /\ \A k \in DOMAIN ins : Legal(ins[k])

LEMMA ExecTypes ==
  ASSUME Plain, NEW N \in 2..MaxN, NEW state \in States, NEW ins, LegalSeq(ins),
         NEW run, ExecSteps(run, state, ins, N, Len(ins))
  PROVE  \A k \in 0..Len(ins) : run[k] \in States
<1> DEFINE n == Len(ins)
           S == {k \in 0..n : run[k] \in States}
<1>0. n \in Nat /\ DOMAIN ins = 1..n
  BY DEF LegalSeq
<1>1. 0 \in S
  BY <1>0 DEF ExecSteps
<1>2. ASSUME NEW k \in 0..(n - 1), k \in S PROVE k + 1 \in S
  <2>1. k + 1 \in 1..n /\ (k + 1) - 1 = k /\ k + 1 \in 0..n
    BY <1>0
  <2>2. run[k + 1] = Execute(prog, run[k], ins[k + 1], N) /\ run[k] \in States /\ Legal(ins[k + 1])
    BY <1>0, <1>2, <2>1 DEF ExecSteps, LegalSeq
  <2>3. ins[k + 1].kind \in {"store", "add"}
    BY <2>2 DEF Legal
  <2>4. run[k + 1] \in States
    <3> DEFINE in == ins[k + 1]  state2 == run[k]  end == run[k + 1]
    <3>1. end = Execute(prog, state2, in, N) /\ state2 \in States /\ Legal(in)
      BY <2>2
    <3>2. in.kind = "store" \/ in.kind = "add"
      BY <2>3
    <3> HIDE DEF in, state2, end
    <3>3. end \in States
      BY <3>1, <3>2, ExecuteStore, ExecuteAdd
    <3> QED
      BY <3>3 DEF end
  <2> QED
    BY <2>1, <2>4
<1> HIDE DEF S, n
<1>3. 0..n \subseteq S
  BY <1>0, <1>1, <1>2, SetInduction
<1> QED
  BY <1>3 DEF S, n

LEMMA ExecEmpty ==
  ASSUME NEW N, NEW state
  PROVE  Exec(prog, state, <<>>, N) = state
<1>1. DOMAIN <<>> = 1..0 /\ 0 \in Nat
  OBVIOUS
<1>2. PICK run : ExecSteps(run, state, <<>>, N, 0)
  BY <1>1, ExecTrace
<1> QED
  BY <1>2 DEF ExecSteps

LEMMA ExecOne ==
  ASSUME NEW N, NEW state, NEW in
  PROVE  Exec(prog, state, <<in>>, N) = Execute(prog, state, in, N)
<1>1. DOMAIN <<in>> = 1..1 /\ 1 \in Nat
  OBVIOUS
<1>2. PICK run : ExecSteps(run, state, <<in>>, N, 1)
  BY <1>1, ExecTrace
<1>3. 1 \in 1..1 /\ 1 - 1 = 0 /\ <<in>>[1] = in
  OBVIOUS
<1> HIDE DEF Exec
<1> QED
  BY <1>2, <1>3 DEF ExecSteps

LEMMA ExecConcat ==
  ASSUME NEW N, NEW state, NEW S, NEW u \in Seq(S), NEW v \in Seq(S)
  PROVE  Exec(prog, state, u \o v, N) = Exec(prog, Exec(prog, state, u, N), v, N)
<1> DEFINE w == u \o v  m == Len(u)  n == Len(v)  q == m + n
<1>1. /\ m \in Nat /\ n \in Nat /\ q \in Nat /\ DOMAIN w = 1..q /\ DOMAIN u = 1..m /\ DOMAIN v = 1..n
      /\ \A k \in 1..m : w[k] = u[k]
      /\ \A k \in 1..n : w[m + k] = v[k]
  OBVIOUS
<1> HIDE DEF w, m, n, q, Exec
<1>1a. q = m + n
  BY DEF q
<1>2. PICK ru : ExecSteps(ru, state, u, N, m)
  BY <1>1, ExecTrace
<1>3. PICK rv : ExecSteps(rv, Exec(prog, state, u, N), v, N, n)
  BY <1>1, ExecTrace
<1>4. PICK rw : ExecSteps(rw, state, w, N, q)
  BY <1>1, ExecTrace
<1> DEFINE A == {k \in 0..m : rw[k] = ru[k]}
           B == {k \in 0..n : rw[m + k] = rv[k]}
<1>5. m \in A
  <2>1. 0 \in A
    BY <1>1, <1>2, <1>4 DEF ExecSteps
  <2>2. ASSUME NEW k \in 0..(m - 1), k \in A PROVE k + 1 \in A
    <3>1. k + 1 \in 1..m /\ k + 1 \in 1..q /\ (k + 1) - 1 = k /\ k + 1 \in 0..m
      BY <1>1, <1>1a
    <3> QED
      BY <1>1, <1>2, <1>4, <2>2, <3>1 DEF ExecSteps
  <2> HIDE DEF A
  <2>3. 0..m \subseteq A
    BY <1>1, <2>1, <2>2, SetInduction
  <2> QED
    BY <1>1, <2>3
<1>6. n \in B
  <2>1. 0 \in B
    BY <1>1, <1>2, <1>3, <1>4, <1>5 DEF ExecSteps
  <2>2. ASSUME NEW k \in 0..(n - 1), k \in B PROVE k + 1 \in B
    <3>1. k + 1 \in 1..n /\ m + (k + 1) \in 1..q /\ (k + 1) - 1 = k /\ k + 1 \in 0..n
          /\ (m + (k + 1)) - 1 = m + k
      BY <1>1, <1>1a
    <3> QED
      BY <1>1, <1>3, <1>4, <2>2, <3>1 DEF ExecSteps
  <2> HIDE DEF B
  <2>3. 0..n \subseteq B
    BY <1>1, <2>1, <2>2, SetInduction
  <2> QED
    BY <1>1, <2>3
<1> QED
  BY <1>1a, <1>3, <1>4, <1>6 DEF ExecSteps, w

(* Pieces of code, one after the other. *)
Pieces(run, state, ss, N) ==
  /\ run[0] = state /\ Exec(prog, state, FlattenSeq(ss), N) = run[Len(ss)]
  /\ \A k \in 1..Len(ss) : run[k] = Exec(prog, run[k - 1], ss[k], N)

LEMMA ExecFlat ==
  ASSUME NEW N, NEW state, NEW S, NEW ss \in Seq(Seq(S))
  PROVE  \E run : Pieces(run, state, ss, N)
<1> DEFINE n == Len(ss)
<1>0. n \in Nat /\ DOMAIN ss = 1..n /\ \A k \in 1..n : ss[k] \in Seq(S)
  OBVIOUS
<1>1. PICK rs : FlatSteps(rs, S, ss)
  BY FlatTrace
<1>2. /\ rs[0] = <<>> /\ FlattenSeq(ss) = rs[n]
      /\ \A k \in 1..n : rs[k] = rs[k - 1] \o ss[k]
      /\ \A k \in 0..n : rs[k] \in Seq(S)
  BY <1>1 DEF FlatSteps
<1> DEFINE run == [k \in 0..n |-> Exec(prog, state, rs[k], N)]
<1> HIDE DEF n, Exec
<1>3. run[0] = state /\ Exec(prog, state, FlattenSeq(ss), N) = run[n]
  <2>1. 0 \in 0..n /\ n \in 0..n
    BY <1>0
  <2> QED
    BY <1>2, <2>1, ExecEmpty
<1>4. ASSUME NEW k \in 1..n PROVE run[k] = Exec(prog, run[k - 1], ss[k], N)
  <2>1. k \in 0..n /\ k - 1 \in 0..n
    BY <1>0
  <2>2. Exec(prog, state, rs[k - 1] \o ss[k], N) = Exec(prog, Exec(prog, state, rs[k - 1], N), ss[k], N)
    BY <1>0, <1>2, <2>1, ExecConcat
  <2> QED
    BY <1>2, <2>1, <2>2
<1> HIDE DEF run
<1> QED
  BY <1>3, <1>4 DEF n, Pieces

-----------------------------------------------------------------------------
(***************************************************************************)
(* By what P_N exceeds P_(N-1).                                           *)
(***************************************************************************)

(* By what the elements of P_N exceed those of P_(N-1), after an item. *)
Grown(N, p, a, i) == Mem(N)[p][a][i] - Mem(N - 1)[p][a][i]

StoredBy(a, p)    == \E q \in 1..p : a \in Written(prog[q])
PartialAt(a, p)   == ~IsStatic(a) /\ \A q \in 1..p : a \in Written(prog[q]) => ~prog[q].loop
EarlierAt(p, s, a) ==
  StoredBy(a, p - 1) \/ \E q \in 1..(s - 1) : prog[p].body[q].arr = a

(* The recorded values of the arrays that are not in v are their differences. *)
DiffsHold(d, v, p, N, regs) ==
  \A a \in Arrays \ v : \A k \in 0..(N - 2) :
    Grown(N, p, a, Index(a, k)) = IF PartialAt(a, p) /\ k > 0 THEN 0 ELSE Recorded(d[a], N, regs)

(* A load of an array the item does not store, whose difference is recorded. *)
KnownLoad(p, l, d, v) ==
  /\ l.arr \notin v /\ l.arr \notin Written(prog[p])
  /\ prog[p].loop /\ PartialAt(l.arr, p - 1) => d[l.arr] = <<>>
  /\ l.idx = "below" => d[l.arr] = <<>>
  /\ l.coef = 1 \/ d[l.arr] = <<>>
  /\ l.idx # "last"

(* What a store adds in each iteration of P_N more than in that of P_(N-1). *)
LoadGains(st, d, N, regs) ==
  [l \in DOMAIN st.loads |-> IF st.loads[l].arr = st.arr THEN 0 ELSE Recorded(d[st.loads[l].arr], N, regs)]
Gain(st, d, N, regs) == Sum(LoadGains(st, d, N, regs)) + TermDifference(st.term, N)

Diffs == [Arrays -> Seq(Values)]

(* The numbers of w are those of u and v added up. *)
Plus(w, u, v, n) == Numbers(u, n) /\ Numbers(v, n) /\ Numbers(w, n) /\ \A k \in 1..n : w[k] = u[k] + v[k]

LEMMA SumPlus ==
  ASSUME NEW n, NEW u, NEW v, NEW w, Plus(w, u, v, n)
  PROVE  Sum(u) \in Int /\ Sum(v) \in Int /\ Sum(w) = Sum(u) + Sum(v)
<1> DEFINE one == 1
<1>1. one \in Int /\ Numbers(u, n) /\ Numbers(v, n) /\ Numbers(w, n) /\ \A k \in 1..n : w[k] = u[k] + one * v[k]
  BY DEF Numbers, Plus
<1> HIDE DEF one
<1>2. Sum(u) \in Int /\ Sum(v) \in Int /\ Sum(w) = Sum(u) + one * Sum(v)
  BY <1>1, SumLinear
<1> QED
  BY <1>2 DEF one

LEMMA Subtracted ==
  ASSUME NEW sd \in Int, NEW su \in Int, NEW x \in Int, NEW y \in Int, NEW a, NEW b,
         a = (su + sd) + x, b = su + y
  PROVE  a = b + sd + x - y
OBVIOUS

LEMMA ValueDiffers ==
  ASSUME Plain, NEW p \in DOMAIN prog, NEW s \in DOMAIN prog[p].body, NEW st, st = prog[p].body[s],
         NEW N \in 1..MaxN, NEW i, Counts(prog[p], N, i), NEW m \in Memories,
         NEW N2 \in 1..MaxN, NEW i2, Counts(prog[p], N2, i2), NEW m2 \in Memories,
         NEW D, Plus(Reads(m, st, N, i), Reads(m2, st, N2, i2), D, Len(st.loads))
  PROVE  /\ Sum(D) \in Int
         /\ StoreValue(m, st, N, i) = StoreValue(m2, st, N2, i2) + Sum(D) + SignedTerm(st, N, i) - SignedTerm(st, N2, i2)
<1> DEFINE u == Reads(m2, st, N2, i2)  w == Reads(m, st, N, i)
<1>4. Sum(u) \in Int /\ Sum(D) \in Int /\ Sum(w) = Sum(u) + Sum(D)
  BY SumPlus
<1>5. /\ StoreValue(m, st, N, i) = Sum(w) + SignedTerm(st, N, i)
      /\ StoreValue(m2, st, N2, i2) = Sum(u) + SignedTerm(st, N2, i2)
      /\ SignedTerm(st, N, i) \in Int /\ SignedTerm(st, N2, i2) \in Int
  BY StoreValueIs
<1> HIDE DEF u, w
<1> QED
  BY <1>4, <1>5, Subtracted

(* The same loads: the same value. *)
LEMMA ValueSame ==
  ASSUME Plain, NEW p \in DOMAIN prog, NEW s \in DOMAIN prog[p].body, NEW st, st = prog[p].body[s],
         NEW N \in 1..MaxN, NEW i, Counts(prog[p], N, i), NEW m \in Memories, NEW m2 \in Memories,
         \A l \in DOMAIN st.loads : LoadValue(m, st.loads[l], N, i) = LoadValue(m2, st.loads[l], N, i)
  PROVE  StoreValue(m, st, N, i) = StoreValue(m2, st, N, i)
<1> DEFINE n == Len(st.loads)  u == Reads(m2, st, N, i)  w == Reads(m, st, N, i)
<1>1. Numbers(u, n) /\ Numbers(w, n)
  BY StoreValueIs
<1>2. \A k \in 1..n : w[k] = u[k]
  BY <1>1 DEF Numbers, Reads
<1> HIDE DEF u, w, n
<1>3. Sum(w) = Sum(u)
  BY <1>1, <1>2, SameSum
<1> QED
  BY <1>3, StoreValueIs DEF u, w

LEMMA TermGrows ==
  ASSUME NEW st \in Stores, EvenTerm(st), NEW N \in Int, NEW i \in Int
  PROVE  /\ SignedTerm(st, N, i) - SignedTerm(st, N - 1, i) = TermDifference(st.term, N)
         /\ TermDifference(st.term, N) \in Int
         /\ ~MentionsN(st.term) => TermDifference(st.term, N) = 0
<1>1. st.term \in Terms
  BY StoreIs
<1> DEFINE t == st.term
<1>2. t.c \in Int /\ t.n \in Int /\ t.sq \in Int /\ t.ni \in Int /\ t.i \in Int
  BY <1>1 DEF Terms
<1>3. CASE MentionsN(t)
  <2>1. st.shape = "added" /\ t.ni = 0
    BY <1>3 DEF EvenTerm
  <2> DEFINE A == TermValue(t, N, i)  B == TermValue(t, N - 1, i)
             sq == t.sq  n == t.n
  <2>2. A = t.c + n * N + sq * N * N + 0 * N * i + t.i * i
    BY <2>1 DEF TermValue
  <2>3. B = t.c + n * (N - 1) + sq * (N - 1) * (N - 1) + 0 * (N - 1) * i + t.i * i
    BY <2>1 DEF TermValue
  <2>4. TermDifference(t, N) = (t.c + n * N + sq * N * N + 0 * N * N + t.i * N)
                               - (t.c + n * (N - 1) + sq * (N - 1) * (N - 1) + 0 * (N - 1) * N + t.i * N)
    BY <2>1 DEF TermDifference, TermValue
  <2>5. A - B = TermDifference(t, N)
    <3> DEFINE c == t.c  ii == t.i  sN == sq * N * N  sM == sq * (N - 1) * (N - 1)  nN == n * N  nM == n * (N - 1)
               iN == ii * N  ij == ii * i
    <3>1. c \in Int /\ sN \in Int /\ sM \in Int /\ nN \in Int /\ nM \in Int /\ iN \in Int /\ ij \in Int
      BY <1>2
    <3>2. A = c + nN + sN + 0 + ij /\ B = c + nM + sM + 0 + ij
          /\ TermDifference(t, N) = (c + nN + sN + 0 + iN) - (c + nM + sM + 0 + iN)
      BY <1>2, <2>2, <2>3, <2>4
    <3> HIDE DEF A, B, c, ii, sN, sM, nN, nM, iN, ij
    <3> QED
      BY <3>1, <3>2
  <2> QED
    BY <1>1, <1>3, <2>1, <2>5, TermDifferenceType DEF SignedTerm
<1>4. CASE ~MentionsN(t)
  <2>1. t.n = 0 /\ t.sq = 0 /\ t.ni = 0
    BY <1>4 DEF MentionsN
  <2>2. \A M, j \in Int : TermValue(t, M, j) = t.c + t.i * j
    BY <1>2, <2>1 DEF TermValue
  <2>3. N - 1 \in Int
    OBVIOUS
  <2>4. TermDifference(t, N) = 0
    BY <1>2, <2>2, <2>3 DEF TermDifference
  <2>5. TermValue(t, N, i) = TermValue(t, N - 1, i) /\ TermValue(t, N, i) \in Int
    BY <1>2, <2>2, <2>3
  <2>6. SignedTerm(st, N, i) = SignedTerm(st, N - 1, i) /\ SignedTerm(st, N, i) \in Int
    BY <2>5 DEF SignedTerm
  <2> QED
    BY <2>4, <2>6
<1> QED
  BY <1>3, <1>4

LEMMA PrimeCounts ==
  ASSUME Plain, NEW N \in 2..MaxN, NEW p \in DOMAIN prog, NEW i \in 0..(N - 2), Counts(prog[p], N, i)
  PROVE  Counts(prog[p], N - 1, i) /\ N \in 1..MaxN /\ N - 1 \in 1..MaxN /\ i \in Cells /\ i \in Nat /\ N \in Int

BY MaxNAssumption, PlainIs DEF Counts, Cells, Index

LEMMA LoadIs ==
  ASSUME Plain, NEW p \in DOMAIN prog, NEW s \in DOMAIN prog[p].body, NEW l \in LoadsOf(prog[p].body[s])
  PROVE  /\ l.arr \in Arrays /\ l.coef \in Int /\ l.idx \in {"counter", "below", "last"}
         /\ l.idx = "below" => prog[p].first = 1 /\ prog[p].loop
         /\ l.idx # "counter" => l.arr \notin Static
         /\ \E k \in DOMAIN prog[p].body[s].loads : l = prog[p].body[s].loads[k]
<1>1. PICK k \in DOMAIN prog[p].body[s].loads : l = prog[p].body[s].loads[k]
  BY DEF LoadsOf
<1>2. prog[p].body[s] \in Stores /\ Placed(prog[p], prog[p].body[s])
  BY PlainIs
<1>3. l.arr \in Arrays /\ l.coef \in Int /\ l.idx \in {"counter", "below", "last"}
  BY <1>1, <1>2, StoreIs
<1>4. (l.idx # "counter" => ~IsStatic(l.arr)) /\ (l.idx = "below" => prog[p].first = 1)
  BY <1>2 DEF Placed
<1>5. prog[p].first = 1 => prog[p].loop
  BY PlainIs
<1> QED
  BY <1>1, <1>3, <1>4, <1>5 DEF IsStatic

LEMMA OtherRead ==
  ASSUME Plain, NEW N \in 2..MaxN, NEW p \in DOMAIN prog, NEW s \in DOMAIN prog[p].body,
         NEW l \in LoadsOf(prog[p].body[s]), NEW d \in Diffs, NEW v, KnownLoad(p, l, d, v),
         NEW regs \in Registers, DiffsHold(d, v, p - 1, N, regs),
         NEW i \in 0..(N - 2), Counts(prog[p], N, i), NEW m \in Memories, NEW m2 \in Memories,
         m[l.arr] = Mem(N)[p - 1][l.arr], m2[l.arr] = Mem(N - 1)[p - 1][l.arr]
  PROVE  l.coef * LoadValue(m, l, N, i) = l.coef * LoadValue(m2, l, N - 1, i) + Recorded(d[l.arr], N, regs)
<1> DEFINE b == l.arr  R == Recorded(d[b], N, regs)
           k == IF l.idx = "below" THEN i - 1 ELSE i
<1>1. b \in Arrays /\ l.coef \in Int /\ l.idx \in {"counter", "below"}
  BY LoadIs DEF KnownLoad
<1>2. /\ Counts(prog[p], N - 1, i) /\ N \in 1..MaxN /\ N - 1 \in 1..MaxN /\ N \in Int
      /\ i \in Nat
  BY PrimeCounts
<1>3. k \in 0..(N - 2)
  <2>1. CASE l.idx = "below"
    <3>1. prog[p].first = 1 /\ prog[p].loop
      BY <2>1, LoadIs
    <3>2. i >= 1
      BY <3>1 DEF Counts
    <3> QED
      BY <1>2, <2>1, <3>2
  <2>2. CASE l.idx # "below"
    BY <2>2
  <2> QED
    BY <2>1, <2>2
<1>4. LoadValue(m, l, N, i) = m[b][Index(b, k)] /\ LoadValue(m2, l, N - 1, i) = m2[b][Index(b, k)]
      /\ LoadValue(m, l, N, i) \in Int /\ LoadValue(m2, l, N - 1, i) \in Int
  <2>1. Where(l, i) = Index(b, k)
    BY DEF Where
  <2> HIDE DEF k
  <2> QED
    BY <1>1, <1>2, <2>1, WhereIs
<1>5. Grown(N, p - 1, b, Index(b, k)) = IF PartialAt(b, p - 1) /\ k > 0 THEN 0 ELSE R
  BY <1>1, <1>3 DEF DiffsHold, KnownLoad
<1>6. d[b] = <<>> => R = 0
  BY RecordedEmpty
<1>7. R \in Int
  BY <1>1, <1>2, RegistersAre DEF Diffs
<1>8. Grown(N, p - 1, b, Index(b, k)) = R
  <2>1. CASE prog[p].loop
    BY <1>5, <1>6, <2>1 DEF KnownLoad
  <2>2. CASE ~prog[p].loop
    <3>1. i = 0 /\ l.idx # "below"
      BY <2>2, LoadIs DEF Counts
    <3> QED
      BY <1>5, <3>1
  <2> QED
    BY <2>1, <2>2
<1> DEFINE x == LoadValue(m, l, N, i)  y == LoadValue(m2, l, N - 1, i)  c == l.coef
<1>9. x \in Int /\ y \in Int /\ x = y + R
  <2>1. x \in Int /\ y \in Int /\ x - y = R
    BY <1>4, <1>8 DEF Grown
  <2> HIDE DEF x, y, R
  <2> QED
    BY <2>1, <1>7
<1>10. c = 1 \/ R = 0
  BY <1>6 DEF KnownLoad
<1>11. c \in Int
  BY <1>1
<1> HIDE DEF x, y, c, R
<1>12. c * x = c * y + R
  <2>1. CASE c = 1
    BY <1>7, <1>9, <2>1
  <2>2. CASE R = 0
    <3>1. x = y /\ c * y \in Int
      BY <1>9, <1>11, <2>2
    <3> QED
      BY <2>2, <3>1
  <2> QED
    BY <1>10, <2>1, <2>2
<1> QED
  BY <1>12 DEF x, y, c, R

LEMMA GainType ==
  ASSUME NEW st \in Stores, NEW d \in Diffs, NEW N \in Int, NEW regs \in Registers
  PROVE  /\ Numbers(LoadGains(st, d, N, regs), Len(st.loads))
         /\ Gain(st, d, N, regs) \in Int
<1>1. \A l \in DOMAIN st.loads : LoadGains(st, d, N, regs)[l] \in Int
  <2> SUFFICES ASSUME NEW l \in DOMAIN st.loads PROVE LoadGains(st, d, N, regs)[l] \in Int
    OBVIOUS
  <2>1. st.loads[l].arr \in Arrays
    BY StoreIs
  <2>2. Recorded(d[st.loads[l].arr], N, regs) \in Int
    BY <2>1, RegistersAre DEF Diffs
  <2> QED
    BY <2>2 DEF LoadGains
<1>2. Numbers(LoadGains(st, d, N, regs), Len(st.loads))
  <2>1. DOMAIN st.loads = 1..Len(st.loads) /\ Len(st.loads) \in Nat
    BY StoreIs
  <2>2. DOMAIN LoadGains(st, d, N, regs) = DOMAIN st.loads
    BY DEF LoadGains
  <2> QED
    BY <1>1, <2>1, <2>2 DEF Numbers
<1>3. TermDifference(st.term, N) \in Int
  BY StoreIs, TermDifferenceType
<1>4. Sum(LoadGains(st, d, N, regs)) \in Int
  BY <1>2, SumType
<1> QED
  BY <1>2, <1>3, <1>4 DEF Gain

(* Before the item: the arrays it does not store. *)
Before(m, N, p) == \A b \in Arrays \ Written(prog[p]) : m[b] = Mem(N)[p - 1][b]

KnownLoads(p, st, d, v) == \A l \in OthersOf(st) : KnownLoad(p, l, d, v)

(* What the loads of the store's own array read in m exceeds what they read in m2. *)
OwnExceeds(st, m, m2, N, i, O) ==
  /\ Numbers(O, Len(st.loads))
  /\ \A l \in DOMAIN st.loads : IF st.loads[l].arr = st.arr
                                 THEN Reads(m, st, N, i)[l] = Reads(m2, st, N - 1, i)[l] + O[l]
                                 ELSE O[l] = 0

LEMMA AddUp ==
  ASSUME NEW A, NEW B \in Int, NEW SD \in Int, NEW SO \in Int, NEW SG \in Int, NEW X \in Int,
         NEW Y \in Int, NEW TD \in Int, NEW GG \in Int,
         A = B + SD + X - Y, SD = SO + SG, X - Y = TD, GG = SG + TD
  PROVE  A = B + SO + GG
OBVIOUS

(* By what the value stored differs, given by what the store's own array does. *)
LEMMA ValueGrows ==
  ASSUME Plain, NEW N \in 2..MaxN, NEW p \in DOMAIN prog, NEW s \in DOMAIN prog[p].body,
         NEW st, st = prog[p].body[s], NEW d \in Diffs, NEW v,
         KnownLoads(p, st, d, v), EvenTerm(st),
         NEW regs \in Registers, DiffsHold(d, v, p - 1, N, regs),
         NEW i \in 0..(N - 2), Counts(prog[p], N, i), NEW m \in Memories, NEW m2 \in Memories,
         Before(m, N, p), Before(m2, N - 1, p),
         NEW O, OwnExceeds(st, m, m2, N, i, O)
  PROVE  /\ Sum(O) \in Int /\ Gain(st, d, N, regs) \in Int
         /\ StoreValue(m, st, N, i) = StoreValue(m2, st, N - 1, i) + Sum(O) + Gain(st, d, N, regs)
<1> DEFINE n == Len(st.loads)  G == LoadGains(st, d, N, regs)
           D == [l \in DOMAIN st.loads |-> O[l] + G[l]]
<1>1. st \in Stores /\ DOMAIN st.loads = 1..n /\ n \in Nat
  BY PlainIs, StoreIs
<1>2. /\ Counts(prog[p], N - 1, i) /\ N \in 1..MaxN /\ N - 1 \in 1..MaxN /\ N \in Int
  BY PrimeCounts
<1>3. Numbers(G, n) /\ Gain(st, d, N, regs) \in Int
  BY <1>1, <1>2, GainType
<1>4. Numbers(O, n) /\ \A l \in 1..n : O[l] \in Int /\ G[l] \in Int
  BY <1>3 DEF Numbers, OwnExceeds
<1>5. Numbers(D, n)
  <2> HIDE DEF G, n
  <2> QED
    BY <1>1, <1>4 DEF Numbers
<1>6. ASSUME NEW l \in DOMAIN st.loads
      PROVE  Reads(m, st, N, i)[l] = Reads(m2, st, N - 1, i)[l] + D[l]
  <2>0. Reads(m2, st, N - 1, i)[l] \in Int
    <3>1. Numbers(Reads(m2, st, N - 1, i), n)
      BY <1>2, StoreValueIs
    <3> QED
      BY <1>1, <3>1 DEF Numbers
  <2>1. CASE st.loads[l].arr = st.arr
    <3>1. G[l] = 0
      BY <2>1 DEF LoadGains
    <3>2. D[l] = O[l]
      BY <1>1, <1>4, <3>1
    <3> QED
      BY <2>1, <3>2 DEF OwnExceeds
  <2>2. CASE st.loads[l].arr # st.arr
    <3> DEFINE ld == st.loads[l]
    <3>1. ld \in LoadsOf(st) /\ ld \in OthersOf(st)
      BY <2>2 DEF LoadsOf, OthersOf
    <3>2. KnownLoad(p, ld, d, v) /\ ld.arr \in Arrays
      BY <3>1, LoadIs DEF KnownLoads
    <3>3. m[ld.arr] = Mem(N)[p - 1][ld.arr] /\ m2[ld.arr] = Mem(N - 1)[p - 1][ld.arr]
      BY <3>2 DEF Before, KnownLoad
    <3> HIDE DEF ld
    <3>4. ld.coef * LoadValue(m, ld, N, i) = ld.coef * LoadValue(m2, ld, N - 1, i) + Recorded(d[ld.arr], N, regs)
      BY <3>1, <3>2, <3>3, OtherRead
    <3>5. G[l] = Recorded(d[ld.arr], N, regs) /\ O[l] = 0
      BY <2>2 DEF LoadGains, ld, OwnExceeds
    <3>6. D[l] = Recorded(d[ld.arr], N, regs)
      <4> HIDE DEF G
      <4> QED
        BY <1>1, <1>4, <3>5
    <3>7. /\ Reads(m, st, N, i)[l] = ld.coef * LoadValue(m, ld, N, i)
          /\ Reads(m2, st, N - 1, i)[l] = ld.coef * LoadValue(m2, ld, N - 1, i)
      BY DEF Reads, ld
    <3> HIDE DEF D
    <3> QED
      BY <3>4, <3>6, <3>7
  <2> QED
    BY <2>1, <2>2
<1>7. Sum(O) \in Int /\ Sum(G) \in Int /\ Sum(D) = Sum(O) + Sum(G)
  <2>1. Plus(D, O, G, n)
    <3> HIDE DEF G, n
    <3> QED
      BY <1>1, <1>3, <1>4, <1>5 DEF Plus
  <2> HIDE DEF D, G, n
  <2> QED
    BY <2>1, SumPlus
<1>8. /\ Sum(D) \in Int
      /\ StoreValue(m, st, N, i) = StoreValue(m2, st, N - 1, i) + Sum(D) + SignedTerm(st, N, i) - SignedTerm(st, N - 1, i)
  <2> DEFINE u == Reads(m2, st, N - 1, i)  w == Reads(m, st, N, i)
  <2>1. Numbers(u, n) /\ Numbers(w, n)
    BY <1>2, StoreValueIs
  <2>2. \A l \in 1..n : w[l] = u[l] + D[l]
    BY <1>1, <1>6
  <2>3. Plus(w, u, D, n)
    <3> HIDE DEF D, u, w, n
    <3> QED
      BY <1>5, <2>1, <2>2 DEF Plus
  <2> HIDE DEF D
  <2> QED
    BY <1>2, <2>3, ValueDiffers
<1>9. SignedTerm(st, N, i) - SignedTerm(st, N - 1, i) = TermDifference(st.term, N) /\ TermDifference(st.term, N) \in Int
      /\ SignedTerm(st, N, i) \in Int /\ SignedTerm(st, N - 1, i) \in Int /\ StoreValue(m2, st, N - 1, i) \in Int
  <2>1. i \in Int
    OBVIOUS
  <2> QED
    BY <1>1, <1>2, <2>1, TermGrows, StoreValueIs
<1>10. Gain(st, d, N, regs) = Sum(G) + TermDifference(st.term, N)
  BY DEF Gain
<1> DEFINE a == StoreValue(m, st, N, i)  b == StoreValue(m2, st, N - 1, i)
           x == SignedTerm(st, N, i)  y == SignedTerm(st, N - 1, i)  g == Gain(st, d, N, regs)
           so == Sum(O)  sg == Sum(G)  sd == Sum(D)  td == TermDifference(st.term, N)
<1>11. /\ a = b + sd + x - y /\ sd = so + sg /\ x - y = td /\ g = sg + td
       /\ b \in Int /\ sd \in Int /\ so \in Int /\ sg \in Int /\ x \in Int /\ y \in Int /\ td \in Int /\ g \in Int
  BY <1>3, <1>7, <1>8, <1>9, <1>10
<1> HIDE DEF a, b, x, y, g, so, sg, sd, td
<1>12. so \in Int /\ g \in Int /\ a = b + so + g
  BY <1>11, AddUp
<1> QED
  BY <1>12 DEF a, b, g, so

NoStore(p, lo, hi, a) == \A q \in lo..hi : prog[p].body[q].arr # a

LEMMA Stage ==
  ASSUME Plain, NEW p \in DOMAIN prog, NEW N \in 1..MaxN, NEW i, Counts(prog[p], N, i),
         NEW s \in DOMAIN prog[p].body, NEW st, st = prog[p].body[s]
  PROVE  /\ s - 1 \in 0..Len(prog[p].body) /\ s \in 0..Len(prog[p].body) /\ s \in Nat \ {0}
         /\ At(N, p, i, s - 1) \in Memories /\ At(N, p, i, s) \in Memories
         /\ i \in Cells /\ i \in Nat /\ Index(st.arr, i) \in Cells /\ st.arr \in Arrays /\ st \in Stores
         /\ StoreValue(At(N, p, i, s - 1), st, N, i) \in Int
         /\ At(N, p, i, s) = Assigned(At(N, p, i, s - 1), st.arr, i, StoreValue(At(N, p, i, s - 1), st, N, i))
         /\ At(N, p, i, s)[st.arr][Index(st.arr, i)] = StoreValue(At(N, p, i, s - 1), st, N, i)
         /\ Before(At(N, p, i, s - 1), N, p) /\ Before(At(N, p, i, s), N, p)
<1>1. s - 1 \in 0..Len(prog[p].body) /\ s \in 0..Len(prog[p].body) /\ s \in Nat \ {0}
  BY PlainIs
<1>2. At(N, p, i, s - 1) \in Memories /\ At(N, p, i, s) \in Memories
  BY <1>1, AtIs
<1>3. i \in Cells /\ i \in Nat
  BY MaxNAssumption, PlainIs DEF Counts, Cells
<1>4. st.arr \in Arrays /\ st \in Stores
  BY PlainIs, StoreIs
<1> DEFINE r == At(N, p, i, s - 1)  v == StoreValue(r, st, N, i)  a == st.arr
<1>5. v \in Int
  BY <1>2, StoreValueIs
<1>6. At(N, p, i, s) = Assigned(r, a, i, v)
  BY AtIs
<1>7. Index(a, i) \in Cells /\ Assigned(r, a, i, v)[a][Index(a, i)] = v
  <2>1. r \in Memories /\ a \in Arrays
    BY <1>2, <1>4
  <2> HIDE DEF r, v, a
  <2> QED
    BY <1>3, <1>5, <2>1, AssignedIs
<1>8. Before(At(N, p, i, s - 1), N, p) /\ Before(At(N, p, i, s), N, p)
  BY <1>1, NotWritten DEF Before
<1> QED
  BY <1>1, <1>2, <1>3, <1>4, <1>5, <1>6, <1>7, <1>8

(* The element of the iteration, before the item stores its array and after it has. *)
LEMMA NotYetStored ==
  ASSUME Plain, NEW p \in DOMAIN prog, prog[p].loop, NEW N \in 1..MaxN, NEW i, Counts(prog[p], N, i),
         NEW a \in Arrays \ Static, NEW s \in 0..Len(prog[p].body), NoStore(p, 1, s, a)
  PROVE  At(N, p, i, s)[a][i] = Mem(N)[p - 1][a][i]
<1>1. 0 \in 0..Len(prog[p].body) /\ s \in 0..Len(prog[p].body) /\ 0 + 1 = 1 /\ Len(prog[p].body) \in Nat
  BY PlainIs
<1>2. At(N, p, i, s)[a] = At(N, p, i, 0)[a]
  BY <1>1, Untouched DEF NoStore
<1>3. At(N, p, i, 0) = Begins(N, p, i)
  BY AtIs
<1>4. i \in Cells /\ i \in prog[p].first..N /\ ~(i < i)
  BY MaxNAssumption, PlainIs DEF Counts, Cells
<1>5. Begins(N, p, i)[a][i] = Mem(N)[p - 1][a][i]
  BY <1>4, LoopElement
<1> QED
  BY <1>2, <1>3, <1>5

LEMMA StoredLast ==
  ASSUME Plain, NEW p \in DOMAIN prog, prog[p].loop, NEW N \in 1..MaxN, NEW i, Counts(prog[p], N, i),
         NEW a \in Arrays \ Static, NEW s \in 0..Len(prog[p].body), NoStore(p, s + 1, Len(prog[p].body), a)
  PROVE  At(N, p, i, s)[a][i] = Mem(N)[p][a][i]
<1> DEFINE n == Len(prog[p].body)
<1>1. n \in s..n /\ n \in Nat /\ n \in 0..n
  BY PlainIs
<1>2. At(N, p, i, n)[a] = At(N, p, i, s)[a]
  BY <1>1, Untouched DEF NoStore
<1>3. At(N, p, i, n) = Begins(N, p, i + 1)
  BY AtIs
<1>4. i \in Cells /\ i + 1 \in prog[p].first..N /\ i < i + 1
  BY MaxNAssumption, PlainIs DEF Counts, Cells
<1>5. Begins(N, p, i + 1)[a][i] = Mem(N)[p][a][i]
  <2> DEFINE i1 == i + 1
  <2>1. i1 \in prog[p].first..N /\ i < i1
    BY <1>4
  <2> HIDE DEF i1
  <2>2. Begins(N, p, i1)[a][i] = Mem(N)[p][a][i]
    BY <1>4, <2>1, LoopElement
  <2> QED
    BY <2>2 DEF i1
<1> QED
  BY <1>2, <1>3, <1>5

LEMMA BelowStored ==
  ASSUME Plain, NEW p \in DOMAIN prog, prog[p].loop, NEW N \in 1..MaxN, NEW i, Counts(prog[p], N, i),
         NEW a \in Arrays \ Static, NEW s \in 0..Len(prog[p].body), i - 1 \in Cells
  PROVE  At(N, p, i, s)[a][i - 1] = Mem(N)[p][a][i - 1]
<1> DEFINE j == i - 1
<1>1. j \in Cells /\ j # i /\ i \in prog[p].first..N /\ j < i
  BY MaxNAssumption, PlainIs DEF Counts, Cells
<1> HIDE DEF j
<1>2. At(N, p, i, s)[a][j] = Begins(N, p, i)[a][j]
  BY <1>1, OneElement
<1>3. Begins(N, p, i)[a][j] = Mem(N)[p][a][j]
  BY <1>1, LoopElement
<1> QED
  BY <1>2, <1>3 DEF j

(* A read of the element at the counter, or one below. *)
LEMMA ReadIs ==
  ASSUME Plain, NEW p \in DOMAIN prog, NEW s \in DOMAIN prog[p].body, NEW l \in LoadsOf(prog[p].body[s]),
         l.idx # "last", NEW N \in 1..MaxN, NEW i, Counts(prog[p], N, i), NEW m
  PROVE  /\ l.arr \in Static => LoadValue(m, l, N, i) = m[l.arr][0]
         /\ l.arr \notin Static /\ l.idx = "counter" => LoadValue(m, l, N, i) = m[l.arr][i]
         /\ l.idx = "below" => LoadValue(m, l, N, i) = m[l.arr][i - 1] /\ i - 1 \in Cells
                               /\ l.arr \notin Static /\ prog[p].loop /\ prog[p].first = 1
<1>1. LoadValue(m, l, N, i) = m[l.arr][Where(l, i)] /\ Where(l, i) \in Cells
  BY WhereIs
<1>2. l.idx \in {"counter", "below"} /\ (l.idx = "below" => l.arr \notin Static /\ prog[p].loop /\ prog[p].first = 1)
  BY LoadIs
<1>3. l.arr \in Static => Where(l, i) = 0
  BY DEF Where, Index, IsStatic
<1>4. l.arr \notin Static /\ l.idx = "counter" => Where(l, i) = i
  BY DEF Where, Index, IsStatic
<1>5. l.arr \notin Static /\ l.idx = "below" => Where(l, i) = i - 1
  BY DEF Where, Index, IsStatic
<1> QED
  BY <1>1, <1>2, <1>3, <1>4, <1>5

LEMMA ZeroNumbers ==
  ASSUME NEW n \in Nat
  PROVE  Numbers([l \in 1..n |-> 0], n) /\ Sum([l \in 1..n |-> 0]) = 0
<1> DEFINE u == [l \in 1..n |-> 0]
<1>1. DOMAIN u = 1..n /\ \A k \in 1..n : u[k] = 0
  OBVIOUS
<1> HIDE DEF u
<1>2. Sum(u) = 0
  BY <1>1, SumZero
<1>3. Numbers(u, n)
  BY <1>1 DEF Numbers
<1> QED
  BY <1>2, <1>3 DEF u

(* A new array: its elements differ by what is recorded for the store. *)
OwnAtCounter(st) == \A l \in OwnOf(st) : l.idx = "counter"

St(p, s)  == prog[p].body[s]
Arr(p, s) == prog[p].body[s].arr

(* The recorded values hold where a loop begins. *)
Recording(N, p, d, v, regs) ==
  /\ N \in 2..MaxN /\ p \in DOMAIN prog /\ prog[p].loop /\ d \in Diffs /\ regs \in Registers
  /\ DiffsHold(d, v, p - 1, N, regs)

(* The first store to an array, of a value whose difference is known. *)
NewArray(p, s, d, v) ==
  LET st == prog[p].body[s] IN
  /\ s \in DOMAIN prog[p].body /\ st.arr \notin Static /\ ~EarlierAt(p, s, st.arr)
  /\ KnownLoads(p, st, d, v) /\ EvenTerm(st) /\ OwnAtCounter(st)

LEMMA StageGrows ==
  ASSUME Plain, NEW N, NEW p, NEW d, NEW v, NEW regs, Recording(N, p, d, v, regs),
         NEW s, NewArray(p, s, d, v), NEW i, i \in 0..(N - 2), Counts(prog[p], N, i)
  PROVE  /\ At(N, p, i, s)[Arr(p, s)][i] = At(N - 1, p, i, s)[Arr(p, s)][i] + Gain(St(p, s), d, N, regs)
         /\ Gain(St(p, s), d, N, regs) \in Int
<1> DEFINE st == St(p, s)  a == Arr(p, s)
<1>e. st = prog[p].body[s] /\ a = st.arr
  BY DEF St, Arr
<1> HIDE DEF st, a
<1>0. /\ N \in 2..MaxN /\ p \in DOMAIN prog /\ prog[p].loop /\ d \in Diffs /\ regs \in Registers
      /\ DiffsHold(d, v, p - 1, N, regs)
      /\ s \in DOMAIN prog[p].body /\ a \notin Static /\ ~EarlierAt(p, s, a)
      /\ KnownLoads(p, st, d, v) /\ EvenTerm(st) /\ OwnAtCounter(st)
  BY <1>e DEF Recording, NewArray
<1> DEFINE m == At(N, p, i, s - 1)  m2 == At(N - 1, p, i, s - 1)  n == Len(st.loads)
           O == [l \in 1..n |-> 0]
<1>1. /\ Counts(prog[p], N - 1, i) /\ N \in 1..MaxN /\ N - 1 \in 1..MaxN /\ i \in Cells /\ i \in Nat
  BY <1>0, PrimeCounts
<1>2. /\ s - 1 \in 0..Len(prog[p].body) /\ m \in Memories /\ m2 \in Memories /\ st \in Stores /\ a \in Arrays \ Static
      /\ Before(m, N, p) /\ Before(m2, N - 1, p) /\ Index(a, i) = i /\ n \in Nat /\ DOMAIN st.loads = 1..n
      /\ At(N, p, i, s)[a][Index(a, i)] = StoreValue(m, st, N, i)
      /\ At(N - 1, p, i, s)[a][Index(a, i)] = StoreValue(m2, st, N - 1, i)
      /\ StoreValue(m2, st, N - 1, i) \in Int
  BY <1>e, <1>0, <1>1, Stage, StoreIs DEF Index, IsStatic
<1>3. m[a][i] = At0[a][i] /\ m2[a][i] = At0[a][i]
  <2>1. NoStore(p, 1, s - 1, a) /\ \A q \in 1..(p - 1) : a \notin Written(prog[q])
    BY <1>e, <1>0 DEF EarlierAt, NoStore, StoredBy
  <2>2. m[a][i] = Mem(N)[p - 1][a][i] /\ m2[a][i] = Mem(N - 1)[p - 1][a][i]
    <3> DEFINE q == s - 1  M == N - 1
    <3>1. q \in 0..Len(prog[p].body) /\ NoStore(p, 1, q, a) /\ a \in Arrays \ Static
          /\ M \in 1..MaxN /\ N \in 1..MaxN /\ Counts(prog[p], M, i)
      BY <1>1, <1>2, <2>1
    <3> HIDE DEF q, M
    <3>2. At(N, p, i, q)[a][i] = Mem(N)[p - 1][a][i]
      BY <1>0, <3>1, NotYetStored
    <3>3. At(M, p, i, q)[a][i] = Mem(M)[p - 1][a][i]
      BY <1>0, <3>1, NotYetStored
    <3> QED
      BY <3>2, <3>3 DEF q, M
  <2>3. p - 1 \in 0..Len(prog)
    BY <1>0, <1>1, MemIs
  <2>4. Mem(N)[p - 1][a] = At0[a] /\ Mem(N - 1)[p - 1][a] = At0[a]
    BY <1>0, <1>1, <1>2, <2>1, <2>3, NeverStored
  <2> QED
    BY <2>2, <2>4
<1> HIDE DEF m, m2
<1>4. ASSUME NEW l \in DOMAIN st.loads, st.loads[l].arr = st.arr
      PROVE  Reads(m, st, N, i)[l] = Reads(m2, st, N - 1, i)[l]
  <2> DEFINE ld == st.loads[l]
  <2>1. ld \in LoadsOf(st) /\ ld \in OwnOf(st)
    BY <1>4 DEF LoadsOf, OwnOf, OthersOf
  <2>2. ld.idx = "counter" /\ ld.arr = a
    BY <1>e, <1>0, <1>4, <2>1 DEF OwnAtCounter
  <2> HIDE DEF ld
  <2>c. N - 1 \in 1..MaxN /\ ld \in LoadsOf(prog[p].body[s]) /\ ld.arr \notin Static
    BY <1>e, <1>1, <1>2, <2>1, <2>2
  <2>3. LoadValue(m, ld, N, i) = m[a][i] /\ LoadValue(m2, ld, N - 1, i) = m2[a][i]
    BY <1>0, <1>1, <2>2, <2>c, ReadIs
  <2>4. Reads(m, st, N, i)[l] = ld.coef * LoadValue(m, ld, N, i)
        /\ Reads(m2, st, N - 1, i)[l] = ld.coef * LoadValue(m2, ld, N - 1, i)
    BY DEF Reads, ld
  <2> QED
    BY <1>3, <2>3, <2>4
<1>5. OwnExceeds(st, m, m2, N, i, O)
  <2>1. Numbers(O, n)
    BY <1>2, ZeroNumbers
  <2>2. Numbers(Reads(m2, st, N - 1, i), n)
    BY <1>0, <1>1, <1>2, <1>e, StoreValueIs
  <2>3. \A l \in 1..n : O[l] = 0 /\ Reads(m2, st, N - 1, i)[l] \in Int
    BY <2>2 DEF Numbers
  <2> HIDE DEF O
  <2>4. ASSUME NEW l \in DOMAIN st.loads, st.loads[l].arr = st.arr
        PROVE  Reads(m, st, N, i)[l] = Reads(m2, st, N - 1, i)[l] + O[l]
    BY <1>2, <1>4, <2>3, <2>4
  <2> QED
    BY <1>2, <2>1, <2>3, <2>4 DEF OwnExceeds
<1>6. Sum(O) = 0
  BY <1>2, ZeroNumbers
<1> HIDE DEF O
<1>7. /\ Gain(st, d, N, regs) \in Int
      /\ StoreValue(m, st, N, i) = StoreValue(m2, st, N - 1, i) + Sum(O) + Gain(st, d, N, regs)
  BY <1>0, <1>2, <1>5, <1>e, ValueGrows
<1> QED
  BY <1>2, <1>6, <1>7 DEF st, a

LEMMA Exceeds ==
  ASSUME NEW x, NEW y \in Int, NEW g \in Int, x = y + g
  PROVE  x \in Int /\ x - y = g
OBVIOUS

(* ... and when no other store is to it. *)
NoGain(p, st, d, N, regs) == prog[p].first = 1 => Gain(st, d, N, regs) = 0

LEMMA ArrayGrows ==
  ASSUME Plain, NEW N, NEW p, NEW d, NEW v, NEW regs, Recording(N, p, d, v, regs),
         NEW s, NewArray(p, s, d, v),
         NoStore(p, s + 1, Len(prog[p].body), Arr(p, s)), NoGain(p, St(p, s), d, N, regs), NEW i, i \in 0..(N - 2)
  PROVE  Grown(N, p, Arr(p, s), i) = Gain(St(p, s), d, N, regs)
<1> DEFINE st == St(p, s)  a == Arr(p, s)
<1>e. st = prog[p].body[s] /\ a = st.arr
  BY DEF St, Arr
<1>h. NoStore(p, s + 1, Len(prog[p].body), a) /\ NoGain(p, st, d, N, regs)
  OBVIOUS
<1> HIDE DEF st, a
<1>00. /\ N \in 2..MaxN /\ p \in DOMAIN prog /\ prog[p].loop /\ d \in Diffs /\ regs \in Registers
       /\ s \in DOMAIN prog[p].body /\ a \notin Static /\ ~EarlierAt(p, s, a)
  BY <1>e DEF Recording, NewArray
<1>0. a \in Arrays \ Static /\ s \in 0..Len(prog[p].body) /\ Gain(st, d, N, regs) \in Int
      /\ prog[p].first \in {0, 1} /\ N \in 1..MaxN /\ N - 1 \in 1..MaxN /\ i \in Cells
      /\ p - 1 \in 0..Len(prog) /\ p \in 0..Len(prog)
  <2>1. a \in Arrays \ Static /\ s \in 0..Len(prog[p].body) /\ st \in Stores
    BY <1>e, <1>00, PlainIs, StoreIs
  <2>2. prog[p].first \in {0, 1} /\ N \in 1..MaxN /\ N - 1 \in 1..MaxN /\ i \in Cells /\ N \in Int
    BY <1>00, MaxNAssumption, PlainIs DEF Cells
  <2>3. p - 1 \in 0..Len(prog) /\ p \in 0..Len(prog)
    <3>1. DOMAIN prog = 1..Len(prog) /\ Len(prog) \in Nat
      BY DEF Plain
    <3> QED
      BY <1>00, <3>1
  <2> QED
    BY <1>00, <2>1, <2>2, <2>3, GainType
<1>1. ASSUME Counts(prog[p], N, i) PROVE Grown(N, p, a, i) = Gain(st, d, N, regs)
  <2>1. At(N, p, i, s)[a][i] = At(N - 1, p, i, s)[a][i] + Gain(st, d, N, regs)
    BY <1>1, StageGrows DEF a, st
  <2>2. Counts(prog[p], N - 1, i)
    BY <1>00, <1>1, PrimeCounts
  <2>3. At(N, p, i, s)[a][i] = Mem(N)[p][a][i] /\ At(N - 1, p, i, s)[a][i] = Mem(N - 1)[p][a][i]
    BY <1>00, <1>0, <1>1, <2>2, <1>h, StoredLast
  <2>4. Mem(N - 1)[p][a][i] \in Int
    BY <1>0, MemIs DEF Memories
  <2>5. Mem(N)[p][a][i] = Mem(N - 1)[p][a][i] + Gain(st, d, N, regs)
    BY <2>1, <2>3
  <2> DEFINE x == Mem(N)[p][a][i]  y == Mem(N - 1)[p][a][i]  g == Gain(st, d, N, regs)
  <2>6. y \in Int /\ g \in Int /\ x = y + g
    BY <1>0, <2>4, <2>5
  <2> HIDE DEF x, y, g
  <2>7. x - y = g
    BY <2>6, Exceeds
  <2> QED
    BY <2>7 DEF Grown, x, y, g
<1>2. ASSUME ~Counts(prog[p], N, i) PROVE Grown(N, p, a, i) = Gain(st, d, N, regs)
  <2>1. prog[p].first = 1 /\ i < 1
    <3>1. i < N /\ i \in Int /\ N \in Int /\ i >= 0
      BY <1>00, MaxNAssumption
    <3>2. ~(prog[p].first <= i)
      BY <1>00, <1>2, <3>1 DEF Counts
    <3> DEFINE f == prog[p].first
    <3>3. f \in {0, 1} /\ ~(f <= i)
      BY <1>0, <3>2
    <3> HIDE DEF f
    <3>4. f = 1 /\ i < 1
      BY <3>1, <3>3
    <3> QED
      BY <3>4 DEF f
  <2>2. Mem(N)[p][a][i] = Mem(N)[p - 1][a][i] /\ Mem(N - 1)[p][a][i] = Mem(N - 1)[p - 1][a][i]
    BY <1>00, <1>0, <2>1, NotReached
  <2>3. Mem(N)[p - 1][a] = At0[a] /\ Mem(N - 1)[p - 1][a] = At0[a]
    <3>1. \A q \in 1..(p - 1) : a \notin Written(prog[q])
      BY <1>00, <1>e DEF EarlierAt, StoredBy
    <3> QED
      BY <1>00, <1>0, <3>1, NeverStored
  <2>4. At0[a][i] \in Int
    BY <1>0, At0Type DEF Memories
  <2>5. Mem(N)[p][a][i] = Mem(N - 1)[p][a][i] /\ Mem(N - 1)[p][a][i] \in Int
    BY <2>2, <2>3, <2>4
  <2>6. Gain(st, d, N, regs) = 0
    BY <2>1, <1>h DEF NoGain
  <2> QED
    BY <2>5, <2>6 DEF Grown
<1>3. Grown(N, p, a, i) = Gain(st, d, N, regs)
  BY <1>1, <1>2
<1> QED
  BY <1>3 DEF a, st

(* The only load of the store's own array, which is not multiplied. *)
TheOwn(st, k) ==
  /\ k \in DOMAIN st.loads /\ st.loads[k].arr = st.arr /\ st.loads[k].coef = 1
  /\ \A l \in DOMAIN st.loads : l # k => st.loads[l].arr # st.arr

LEMMA OwnIs ==
  ASSUME NEW st \in Stores, ~Multiplied(st), NEW ld \in OwnOf(st)
  PROVE  \E k : TheOwn(st, k) /\ st.loads[k] = ld
<1>1. PICK k \in DOMAIN st.loads : st.loads[k] = ld
  BY DEF OwnOf, LoadsOf
<1>2. st.loads[k].arr = st.arr
  BY <1>1 DEF OwnOf, OthersOf
<1>3. st.loads[k].coef = 1 /\ \A j \in DOMAIN st.loads \ {k} : st.loads[j].arr # st.arr
  BY <1>2 DEF Multiplied
<1> QED
  BY <1>1, <1>2, <1>3 DEF TheOwn

(* An array P_N and P_(N-1) have the same elements of. *)
Same(p, b, d, v) == b \notin v /\ b \notin Written(prog[p]) /\ d[b] = <<>>

LEMMA NoGainOf ==
  ASSUME NEW p, NEW st \in Stores, ~MentionsN(st.term), NEW d \in Diffs, NEW v,
         \A l \in OthersOf(st) : Same(p, l.arr, d, v), NEW N \in Int, NEW regs \in Registers
  PROVE  Gain(st, d, N, regs) = 0
<1> DEFINE G == LoadGains(st, d, N, regs)  n == Len(st.loads)
<1>1. n \in Nat /\ DOMAIN st.loads = 1..n
  BY StoreIs
<1>2. \A l \in 1..n : G[l] = 0
  <2> SUFFICES ASSUME NEW l \in 1..n PROVE G[l] = 0
    OBVIOUS
  <2>1. CASE st.loads[l].arr = st.arr
    BY <1>1, <2>1 DEF LoadGains
  <2>2. CASE st.loads[l].arr # st.arr
    <3>1. st.loads[l] \in OthersOf(st)
      BY <1>1, <2>2 DEF OthersOf, LoadsOf
    <3>2. d[st.loads[l].arr] = <<>>
      BY <3>1 DEF Same
    <3> QED
      BY <1>1, <2>2, <3>2, RecordedEmpty DEF LoadGains
  <2> QED
    BY <2>1, <2>2
<1>3. Sum(G) = 0
  <2>1. DOMAIN G = 1..n
    BY <1>1 DEF LoadGains
  <2> HIDE DEF G, n
  <2> QED
    BY <1>1, <1>2, <2>1, SumZero
<1>4. TermDifference(st.term, N) = 0
  <2>1. EvenTerm(st) /\ 0 \in Int
    BY DEF EvenTerm
  <2> QED
    BY <2>1, TermGrows
<1> QED
  BY <1>3, <1>4 DEF Gain

(* The last store of an array, of elements computed from the ones before. *)
Recurrent(p, s, d, v) ==
  LET st == prog[p].body[s] IN
  /\ p \in DOMAIN prog /\ prog[p].loop /\ s \in DOMAIN prog[p].body /\ Recurs(st)
  /\ ~MentionsN(st.term) /\ st.arr \notin v
  /\ \A l \in LoadsOf(st) : l.idx # "last"
  /\ \A l \in OthersOf(st) : Same(p, l.arr, d, v)
  /\ d[st.arr] = <<>> \/ ~Multiplied(st)
  /\ NoStore(p, s + 1, Len(prog[p].body), st.arr)

(* What the stores of the array before it are. *)
FirstStores(p, s, d, v, N, regs) ==
  \A q \in 1..(s - 1) : prog[p].body[q].arr = prog[p].body[s].arr =>
    NewArray(p, q, d, v) /\ Gain(prog[p].body[q], d, N, regs) = 0

LEMMA RecurrentIs ==
  ASSUME Plain, NEW p, NEW s, NEW d \in Diffs, NEW v, Recurrent(p, s, d, v)
  PROVE  /\ p \in DOMAIN prog /\ prog[p].loop /\ prog[p].first = 1 /\ s \in DOMAIN prog[p].body
         /\ St(p, s) \in Stores /\ Arr(p, s) \in Arrays \ Static /\ St(p, s) = prog[p].body[s] /\ St(p, s).arr = Arr(p, s)
         /\ KnownLoads(p, St(p, s), d, v) /\ EvenTerm(St(p, s))
         /\ \A N \in Int, regs \in Registers : Gain(St(p, s), d, N, regs) = 0
         /\ NoStore(p, s + 1, Len(prog[p].body), Arr(p, s)) /\ Arr(p, s) \notin v
<1> DEFINE st == St(p, s)
<1>e. st = prog[p].body[s] /\ st.arr = Arr(p, s)
  BY DEF St, Arr
<1> HIDE DEF st
<1>0. /\ p \in DOMAIN prog /\ prog[p].loop /\ s \in DOMAIN prog[p].body /\ Recurs(st)
      /\ ~MentionsN(st.term) /\ st.arr \notin v
      /\ \A l \in LoadsOf(st) : l.idx # "last"
      /\ \A l \in OthersOf(st) : Same(p, l.arr, d, v)
      /\ NoStore(p, s + 1, Len(prog[p].body), st.arr)
  BY <1>e DEF Recurrent
<1>1. st \in Stores /\ st.arr \in Arrays \ Static
  BY <1>e, <1>0, PlainIs, StoreIs DEF Recurs, IsStatic
<1>2. PICK l \in OwnOf(st) : l.idx = "below"
  BY <1>0 DEF Recurs
<1>3. prog[p].first = 1
  <2>1. l \in LoadsOf(prog[p].body[s])
    BY <1>e, <1>2 DEF OwnOf
  <2> QED
    BY <1>0, <1>2, <2>1, LoadIs
<1>4. KnownLoads(p, st, d, v)
  BY <1>0 DEF KnownLoads, KnownLoad, Same, OthersOf
<1>5. \A N \in Int, regs \in Registers : Gain(st, d, N, regs) = 0
  BY <1>0, <1>1, NoGainOf
<1>6. EvenTerm(st)
  BY <1>0 DEF EvenTerm
<1> QED
  BY <1>0, <1>1, <1>3, <1>4, <1>5, <1>6, <1>e DEF st

LEMMA Unstored ==
  ASSUME Plain, NEW p \in DOMAIN prog, NEW N \in 1..MaxN, NEW i, Counts(prog[p], N, i), NEW a \in Arrays,
         NEW s1 \in 0..Len(prog[p].body), NEW s2 \in s1..Len(prog[p].body), NoStore(p, s1 + 1, s2, a)
  PROVE  At(N, p, i, s2)[a] = At(N, p, i, s1)[a]
BY Untouched DEF NoStore

(* The element at the counter, before the store. *)
LEMMA CounterSame ==
  ASSUME Plain, NEW N, NEW p, NEW d, NEW v, NEW regs, Recording(N, p, d, v, regs),
         NEW s, Recurrent(p, s, d, v), FirstStores(p, s, d, v, N, regs), d[Arr(p, s)] = <<>>,
         NEW i, i \in 0..(N - 2), Counts(prog[p], N, i)
  PROVE  At(N, p, i, s - 1)[Arr(p, s)][i] = At(N - 1, p, i, s - 1)[Arr(p, s)][i]
<1> DEFINE a == Arr(p, s)  t == s - 1  M == N - 1
<1>0. /\ N \in 2..MaxN /\ p \in DOMAIN prog /\ prog[p].loop /\ d \in Diffs /\ regs \in Registers
      /\ DiffsHold(d, v, p - 1, N, regs)
  BY DEF Recording
<1>1. s \in DOMAIN prog[p].body /\ a \in Arrays \ Static /\ a = prog[p].body[s].arr /\ a \notin v
  BY <1>0, RecurrentIs DEF St, Arr
<1>2. /\ N \in 1..MaxN /\ M \in 1..MaxN /\ Counts(prog[p], M, i) /\ i \in Cells /\ i \in Nat /\ N \in Int
  BY <1>0, PrimeCounts
<1>3. t \in 0..Len(prog[p].body) /\ s \in Nat \ {0} /\ Len(prog[p].body) \in Nat /\ DOMAIN prog[p].body = 1..Len(prog[p].body)
  BY <1>0, <1>1, PlainIs
<1>d. d[a] = <<>>
  OBVIOUS
<1> HIDE DEF a, t, M
<1>4. CASE NoStore(p, 1, t, a)
  <2>1. At(N, p, i, t)[a][i] = Mem(N)[p - 1][a][i] /\ At(M, p, i, t)[a][i] = Mem(M)[p - 1][a][i]
    BY <1>0, <1>1, <1>2, <1>3, <1>4, NotYetStored
  <2>2. Grown(N, p - 1, a, Index(a, i)) = 0 /\ Index(a, i) = i
    BY <1>d, <1>0, <1>1, RecordedEmpty DEF DiffsHold, Index, IsStatic
  <2>3. Mem(N)[p - 1][a][i] \in Int /\ Mem(M)[p - 1][a][i] \in Int
    <3>1. Mem(N)[p - 1] \in Memories /\ Mem(M)[p - 1] \in Memories
      BY <1>0, <1>2, MemIs DEF Plain
    <3> QED
      BY <1>1, <1>2, <3>1 DEF Memories
  <2>4. Mem(N)[p - 1][a][i] = Mem(M)[p - 1][a][i]
    BY <2>2, <2>3 DEF Grown, M
  <2> QED
    BY <2>1, <2>4 DEF a, t, M
<1>5. ASSUME ~NoStore(p, 1, t, a) PROVE At(N, p, i, t)[a][i] = At(M, p, i, t)[a][i]
  <2>1. PICK q \in 1..t : prog[p].body[q].arr = a
    BY <1>5 DEF NoStore
  <2>2. NewArray(p, q, d, v) /\ Gain(prog[p].body[q], d, N, regs) = 0 /\ q \in 1..(s - 1)
    BY <1>1, <2>1 DEF FirstStores, t
  <2>3. q \in DOMAIN prog[p].body /\ q \in 0..Len(prog[p].body) /\ t \in q..Len(prog[p].body) /\ q \in Nat
    BY <1>3, <2>1
  <2>4. \A k \in (q + 1)..t : prog[p].body[k].arr # a
    <3> SUFFICES ASSUME NEW k \in (q + 1)..t, prog[p].body[k].arr = a PROVE FALSE
      OBVIOUS
    <3>1. k \in 1..(s - 1) /\ q \in 1..(k - 1)
      BY <1>3, <2>1, <2>3 DEF t
    <3>2. ~EarlierAt(p, k, a)
      BY <1>1, <3>1 DEF FirstStores, NewArray
    <3> QED
      BY <2>1, <3>1, <3>2 DEF EarlierAt
  <2>5. At(N, p, i, t)[a] = At(N, p, i, q)[a] /\ At(M, p, i, t)[a] = At(M, p, i, q)[a]
    <3>1. NoStore(p, q + 1, t, a) /\ a \in Arrays
      BY <1>1, <2>4 DEF NoStore
    <3>2. At(N, p, i, t)[a] = At(N, p, i, q)[a]
      BY <1>0, <1>2, <2>3, <3>1, Unstored
    <3>3. At(M, p, i, t)[a] = At(M, p, i, q)[a]
      BY <1>0, <1>2, <2>3, <3>1, Unstored
    <3> QED
      BY <3>2, <3>3
  <2>6. /\ At(N, p, i, q)[Arr(p, q)][i] = At(N - 1, p, i, q)[Arr(p, q)][i] + Gain(St(p, q), d, N, regs)
    BY <2>2, StageGrows
  <2>7. Arr(p, q) = a /\ Gain(St(p, q), d, N, regs) = 0
    BY <2>1, <2>2 DEF Arr, St
  <2>8. At(M, p, i, q)[a][i] \in Int
    <3>1. At(M, p, i, q) \in Memories
      BY <1>0, <1>2, <2>3, AtIs
    <3> QED
      BY <1>1, <1>2, <3>1 DEF Memories
  <2>9. At(N, p, i, q)[a][i] = At(M, p, i, q)[a][i]
    BY <2>6, <2>7, <2>8 DEF M
  <2> QED
    BY <2>5, <2>9
<1> QED
  BY <1>4, <1>5 DEF a, t, M

(* What is added for the store's own array: nothing, or at one load. *)
OnlyAt(O, n, k, g) == DOMAIN O = 1..n /\ \A l \in 1..n : O[l] = IF l = k THEN g ELSE 0

LEMMA OnlyAtIs ==
  ASSUME NEW n \in Nat, NEW k, NEW g \in Int, k \in 1..n \/ g = 0, NEW O, OnlyAt(O, n, k, g)
  PROVE  Numbers(O, n) /\ Sum(O) = g
<1>1. DOMAIN O = 1..n /\ \A l \in 1..n : O[l] = IF l = k THEN g ELSE 0
  BY DEF OnlyAt
<1>2. Numbers(O, n)
  BY <1>1 DEF Numbers
<1>3. CASE k \in 1..n
  <2>1. Sum(O) = O[k]
    BY <1>1, <1>2, <1>3, SumAt
  <2> QED
    BY <1>1, <1>2, <1>3, <2>1
<1>4. CASE g = 0
  BY <1>1, <1>2, <1>4, SumZero
<1> QED
  BY <1>3, <1>4

(* A store of P_M: what it finds, and what it leaves. *)
IsStage(M, p, i, s, q, st, a) ==
  /\ q \in 0..Len(prog[p].body) /\ s \in 0..Len(prog[p].body) /\ s \in Nat \ {0}
  /\ At(M, p, i, q) \in Memories /\ At(M, p, i, s) \in Memories
  /\ i \in Cells /\ i \in Nat /\ Index(a, i) \in Cells /\ a \in Arrays /\ st \in Stores
  /\ StoreValue(At(M, p, i, q), st, M, i) \in Int
  /\ At(M, p, i, s) = Assigned(At(M, p, i, q), a, i, StoreValue(At(M, p, i, q), st, M, i))
  /\ At(M, p, i, s)[a][Index(a, i)] = StoreValue(At(M, p, i, q), st, M, i)
  /\ Before(At(M, p, i, q), M, p) /\ Before(At(M, p, i, s), M, p)

LEMMA StageIs ==
  ASSUME Plain, NEW p \in DOMAIN prog, NEW M \in 1..MaxN, NEW i, Counts(prog[p], M, i), NEW s \in DOMAIN prog[p].body
  PROVE  IsStage(M, p, i, s, s - 1, St(p, s), Arr(p, s))
BY Stage DEF IsStage, St, Arr

LEMMA RecurStep ==
  ASSUME Plain, NEW N, NEW p, NEW d, NEW v, NEW regs, Recording(N, p, d, v, regs),
         NEW s, Recurrent(p, s, d, v), FirstStores(p, s, d, v, N, regs),
         NEW i, i \in 0..(N - 2), Counts(prog[p], N, i), i - 1 \in Cells,
         Grown(N, p, Arr(p, s), i - 1) = Recorded(d[Arr(p, s)], N, regs)
  PROVE  Grown(N, p, Arr(p, s), i) = Recorded(d[Arr(p, s)], N, regs)
<1> DEFINE st == St(p, s)  a == Arr(p, s)  g == Recorded(d[a], N, regs)  M == N - 1  q == s - 1
           m == At(N, p, i, q)  m2 == At(M, p, i, q)  n == Len(st.loads)
           x == Mem(N)[p][a][i - 1]  y == Mem(M)[p][a][i - 1]
<1>0. /\ N \in 2..MaxN /\ p \in DOMAIN prog /\ prog[p].loop /\ d \in Diffs /\ regs \in Registers
      /\ DiffsHold(d, v, p - 1, N, regs)
  BY DEF Recording
<1>1. /\ s \in DOMAIN prog[p].body /\ st \in Stores /\ a \in Arrays \ Static /\ st = prog[p].body[s] /\ st.arr = a
      /\ KnownLoads(p, st, d, v) /\ EvenTerm(st) /\ Gain(st, d, N, regs) = 0
      /\ NoStore(p, s + 1, Len(prog[p].body), a)
  BY <1>0, RecurrentIs
<1>2. /\ N \in 1..MaxN /\ M \in 1..MaxN /\ Counts(prog[p], M, i) /\ i \in Cells /\ i \in Nat /\ N \in Int
  BY <1>0, PrimeCounts
<1>3. g \in Int /\ n \in Nat /\ DOMAIN st.loads = 1..n
  <2>1. d[a] \in Seq(Values)
    BY <1>0, <1>1 DEF Diffs
  <2>2. n \in Nat /\ DOMAIN st.loads = 1..n
    BY <1>1, StoreIs
  <2> QED
    BY <1>0, <1>2, <2>1, <2>2, RegistersAre
<1>d. d[a] = <<>> \/ ~Multiplied(st)
  BY <1>1 DEF Recurrent
<1>x. x - y = g
  BY DEF Grown
<1>c. d[a] = <<>> => m[a][i] = m2[a][i]
  BY CounterSame
<1> HIDE DEF st, a, M, g, n
<1>4. /\ q \in 0..Len(prog[p].body) /\ s \in 0..Len(prog[p].body) /\ m \in Memories /\ m2 \in Memories
      /\ Before(m, N, p) /\ Before(m2, M, p)
      /\ At(N, p, i, s)[a][Index(a, i)] = StoreValue(m, st, N, i)
      /\ At(M, p, i, s)[a][Index(a, i)] = StoreValue(m2, st, M, i)
      /\ StoreValue(m2, st, M, i) \in Int
  <2>1. IsStage(N, p, i, s, q, st, a) /\ IsStage(M, p, i, s, q, st, a)
    BY <1>0, <1>1, <1>2, StageIs DEF q, st, a
  <2> QED
    BY <2>1 DEF IsStage
<1> HIDE DEF q
<1>5. Index(a, i) = i
  BY <1>1 DEF Index, IsStatic
<1>6. At(N, p, i, s)[a][i] = Mem(N)[p][a][i] /\ At(M, p, i, s)[a][i] = Mem(M)[p][a][i]
  BY <1>0, <1>1, <1>2, <1>4, StoredLast
<1>7. m[a][i - 1] = x /\ m2[a][i - 1] = y
  <2>1. i - 1 \in Cells
    OBVIOUS
  <2>2. At(N, p, i, q)[a][i - 1] = Mem(N)[p][a][i - 1]
    BY <1>0, <1>1, <1>2, <1>4, <2>1, BelowStored
  <2>3. At(M, p, i, q)[a][i - 1] = Mem(M)[p][a][i - 1]
    BY <1>0, <1>1, <1>2, <1>4, <2>1, BelowStored
  <2> QED
    BY <2>2, <2>3
<1>8. x \in Int /\ y \in Int
  <2>1. Mem(N)[p] \in Memories /\ Mem(M)[p] \in Memories
    BY <1>0, <1>2, MemIs DEF Plain
  <2> QED
    BY <1>1, <2>1 DEF Memories
<1> HIDE DEF m, m2, x, y
<1>9. ASSUME NEW l \in DOMAIN st.loads, st.loads[l].arr = a
      PROVE  /\ st.loads[l].idx = "below" => Reads(m, st, N, i)[l] = st.loads[l].coef * x /\ Reads(m2, st, M, i)[l] = st.loads[l].coef * y
             /\ st.loads[l].idx # "below" => Reads(m, st, N, i)[l] = st.loads[l].coef * m[a][i] /\ Reads(m2, st, M, i)[l] = st.loads[l].coef * m2[a][i]
             /\ st.loads[l].coef \in Int
  <2> DEFINE ld == st.loads[l]
  <2>1. ld \in LoadsOf(st) /\ ld.arr = a /\ ld.coef \in Int
    BY <1>1, <1>9, StoreIs DEF LoadsOf
  <2>2. ld.idx # "last" /\ ld.idx \in {"counter", "below"} /\ ld \in LoadsOf(prog[p].body[s])
    BY <1>0, <1>1, <2>1, LoadIs DEF Recurrent
  <2>3. Reads(m, st, N, i)[l] = ld.coef * LoadValue(m, ld, N, i) /\ Reads(m2, st, M, i)[l] = ld.coef * LoadValue(m2, ld, M, i)
    BY DEF Reads
  <2> HIDE DEF ld
  <2>4. ld.idx = "below" => LoadValue(m, ld, N, i) = m[a][i - 1] /\ LoadValue(m2, ld, M, i) = m2[a][i - 1]
    BY <1>0, <1>1, <1>2, <2>1, <2>2, ReadIs
  <2>5. ld.idx # "below" => LoadValue(m, ld, N, i) = m[a][i] /\ LoadValue(m2, ld, M, i) = m2[a][i]
    BY <1>0, <1>1, <1>2, <2>1, <2>2, ReadIs
  <2> QED
    BY <1>7, <2>1, <2>3, <2>4, <2>5 DEF ld
<1>10. Numbers(Reads(m2, st, M, i), n)
  BY <1>0, <1>1, <1>2, <1>4, StoreValueIs DEF n
<1>11. \E O, k : OnlyAt(O, n, k, g) /\ (k \in 1..n \/ g = 0) /\ OwnExceeds(st, m, m2, N, i, O)
  <2>1. CASE d[a] = <<>>
    <3> DEFINE O == [l \in 1..n |-> 0]
    <3>1. g = 0 /\ x = y
      BY <2>1, <1>x, <1>8, RecordedEmpty DEF g
    <3>2. OnlyAt(O, n, 0, g)
      BY <3>1 DEF OnlyAt
    <3>3. \A l \in 1..n : O[l] = 0
      OBVIOUS
    <3>4. Numbers(O, n)
      BY <1>3, <3>1, <3>2, OnlyAtIs
    <3> HIDE DEF O
    <3>5. ASSUME NEW l \in DOMAIN st.loads, st.loads[l].arr = a
          PROVE  Reads(m, st, N, i)[l] = Reads(m2, st, M, i)[l] + O[l]
      <4>1. Reads(m, st, N, i)[l] = Reads(m2, st, M, i)[l]
        BY <1>9, <1>c, <2>1, <3>1, <3>5
      <4>2. Reads(m2, st, M, i)[l] \in Int /\ O[l] = 0
        BY <1>3, <1>10, <3>3 DEF Numbers
      <4> QED
        BY <4>1, <4>2
    <3>6. OwnExceeds(st, m, m2, N, i, O)
      BY <1>1, <1>3, <3>3, <3>4, <3>5 DEF OwnExceeds, M, n
    <3> QED
      BY <3>1, <3>2, <3>6
  <2>2. CASE ~Multiplied(st)
    <3>1. PICK ld \in OwnOf(st) : ld.idx = "below"
      BY <1>1 DEF Recurrent, Recurs
    <3>2. PICK k : TheOwn(st, k) /\ st.loads[k] = ld
      BY <1>1, <2>2, <3>1, OwnIs
    <3> DEFINE O == [l \in 1..n |-> IF l = k THEN g ELSE 0]
    <3>3. OnlyAt(O, n, k, g) /\ k \in 1..n
      BY <1>3, <3>2 DEF OnlyAt, TheOwn
    <3>4. Numbers(O, n)
      BY <1>3, <3>3, OnlyAtIs
    <3>5. \A l \in 1..n : O[l] = IF l = k THEN g ELSE 0
      OBVIOUS
    <3> HIDE DEF O
    <3>6. ASSUME NEW l \in DOMAIN st.loads, st.loads[l].arr = a
          PROVE  Reads(m, st, N, i)[l] = Reads(m2, st, M, i)[l] + O[l]
      <4>1. l = k /\ st.loads[l].idx = "below" /\ st.loads[l].coef = 1
        BY <1>1, <3>1, <3>2, <3>6 DEF TheOwn
      <4>2. Reads(m, st, N, i)[l] = x /\ Reads(m2, st, M, i)[l] = y
        BY <1>9, <1>8, <3>6, <4>1
      <4>3. O[l] = g
        BY <3>3, <3>5, <4>1
      <4> QED
        BY <1>x, <1>8, <4>2, <4>3
    <3>7. \A l \in DOMAIN st.loads : st.loads[l].arr # st.arr => O[l] = 0
      BY <1>3, <3>2, <3>5 DEF TheOwn
    <3>8. OwnExceeds(st, m, m2, N, i, O)
      BY <1>1, <3>4, <3>6, <3>7 DEF OwnExceeds, M, n
    <3> QED
      BY <3>3, <3>8
  <2> QED
    BY <1>d, <2>1, <2>2
<1>12. PICK O, k : OnlyAt(O, n, k, g) /\ (k \in 1..n \/ g = 0) /\ OwnExceeds(st, m, m2, N, i, O)
  BY <1>11
<1>13. Sum(O) = g
  BY <1>3, <1>12, OnlyAtIs
<1>14. StoreValue(m, st, N, i) = StoreValue(m2, st, N - 1, i) + Sum(O) + Gain(st, d, N, regs)
  BY <1>0, <1>1, <1>4, <1>12, ValueGrows DEF M
<1>15. Mem(N)[p][a][i] = Mem(M)[p][a][i] + g /\ Mem(M)[p][a][i] \in Int
  <2> DEFINE u == StoreValue(m, st, N, i)  w == StoreValue(m2, st, M, i)
  <2>1. u = w + g + 0 /\ w \in Int
    BY <1>1, <1>4, <1>13, <1>14 DEF M
  <2>2. Mem(N)[p][a][i] = u /\ Mem(M)[p][a][i] = w
    BY <1>4, <1>5, <1>6
  <2> HIDE DEF u, w
  <2> QED
    BY <1>3, <2>1, <2>2
<1>16. Grown(N, p, a, i) = g
  <2> DEFINE u == Mem(N)[p][a][i]  w == Mem(M)[p][a][i]
  <2>1. Grown(N, p, a, i) = u - w
    BY DEF Grown, M
  <2>2. u = w + g /\ w \in Int
    BY <1>15
  <2> HIDE DEF u, w
  <2> QED
    BY <1>3, <2>1, <2>2
<1> QED
  BY <1>16 DEF a, g

(* Such an array keeps the difference its first element has. *)
LEMMA RecurGrows ==
  ASSUME Plain, NEW N, NEW p, NEW d, NEW v, NEW regs, Recording(N, p, d, v, regs),
         NEW s, Recurrent(p, s, d, v), FirstStores(p, s, d, v, N, regs), NEW i \in 0..(N - 2)
  PROVE  Grown(N, p, Arr(p, s), i) = Recorded(d[Arr(p, s)], N, regs)
<1> DEFINE a == Arr(p, s)  g == Recorded(d[a], N, regs)
           S == {j \in 0..(N - 2) : Grown(N, p, a, j) = g}
<1>0. /\ N \in 2..MaxN /\ p \in DOMAIN prog /\ prog[p].loop /\ d \in Diffs /\ regs \in Registers
      /\ DiffsHold(d, v, p - 1, N, regs)
  BY DEF Recording
<1>1. a \in Arrays \ Static /\ a \notin v /\ prog[p].first = 1
  BY <1>0, RecurrentIs
<1>2. N \in 1..MaxN /\ N - 1 \in 1..MaxN /\ N \in Nat /\ N - 2 \in Nat /\ 0 \in 0..(N - 2) /\ 0 \in Cells /\ MaxN \in Nat
  BY <1>0, MaxNAssumption DEF Cells
<1> HIDE DEF a
<1>3. 0 \in S
  <2>1. Mem(N)[p][a][0] = Mem(N)[p - 1][a][0] /\ Mem(N - 1)[p][a][0] = Mem(N - 1)[p - 1][a][0]
    BY <1>0, <1>1, <1>2, NotReached
  <2>2. Grown(N, p - 1, a, Index(a, 0)) = g
    BY <1>0, <1>1, <1>2 DEF DiffsHold
  <2>3. Index(a, 0) = 0
    BY DEF Index
  <2>4. Grown(N, p, a, 0) = g
    BY <2>1, <2>2, <2>3 DEF Grown
  <2> QED
    BY <1>2, <2>4
<1>4. ASSUME NEW k \in 0..(N - 2 - 1), k \in S PROVE k + 1 \in S
  <2> DEFINE j == k + 1
  <2>1. j \in 0..(N - 2) /\ j \in Int /\ 1 <= j /\ j < N /\ j - 1 = k /\ j - 1 \in Cells
    BY <1>2, <1>0 DEF Cells
  <2> HIDE DEF j
  <2>2. Counts(prog[p], N, j)
    BY <1>0, <1>1, <2>1 DEF Counts
  <2>3. Grown(N, p, a, j - 1) = g
    BY <1>4, <2>1
  <2>4. Grown(N, p, a, j) = g
    BY <2>1, <2>2, <2>3, RecurStep DEF a
  <2> QED
    BY <2>1, <2>4 DEF j
<1>5. 0..(N - 2) \subseteq S
  <2> DEFINE n == N - 2
  <2>1. n \in Nat /\ \A k \in 0..(n - 1) : k \in S => k + 1 \in S
    BY <1>2, <1>4
  <2> HIDE DEF S, n
  <2>2. 0..n \subseteq S
    BY <1>3, <2>1, SetInduction
  <2> QED
    BY <2>2 DEF n
<1>6. Grown(N, p, a, i) = g
  BY <1>5
<1> QED
  BY <1>6 DEF a

(* A store that adds to a scalar: one load of it, not multiplied. *)
AddsTo(st) == IsStatic(st.arr) /\ Accumulates(st) /\ ~Multiplied(st)

LEMMA AddsToIs ==
  ASSUME NEW st \in Stores, AddsTo(st)
  PROVE  st.arr \in Static /\ \E k : TheOwn(st, k)
<1>1. PICK ld \in OwnOf(st) : TRUE
  BY DEF AddsTo, Accumulates
<1>2. \E k : TheOwn(st, k)
  BY <1>1, OwnIs DEF AddsTo
<1> QED
  BY <1>2 DEF AddsTo, IsStatic

(* It adds the same to what it finds. *)
LEMMA Collected ==
  ASSUME Plain, NEW p \in DOMAIN prog, NEW s \in DOMAIN prog[p].body, NEW st, st = prog[p].body[s], AddsTo(st),
         NEW d \in Diffs, NEW v, KnownLoads(p, st, d, v), EvenTerm(st),
         NEW N \in 2..MaxN, NEW regs \in Registers, DiffsHold(d, v, p - 1, N, regs),
         NEW i \in 0..(N - 2), Counts(prog[p], N, i), NEW m \in Memories, NEW m2 \in Memories,
         Before(m, N, p), Before(m2, N - 1, p)
  PROVE  /\ Gain(st, d, N, regs) \in Int
         /\ StoreValue(m, st, N, i) = StoreValue(m2, st, N - 1, i) + (m[st.arr][0] - m2[st.arr][0]) + Gain(st, d, N, regs)
<1>1. st \in Stores /\ st.arr \in Static /\ Len(st.loads) \in Nat /\ DOMAIN st.loads = 1..Len(st.loads) /\ st.arr \in Arrays
  BY PlainIs, StoreIs, AddsToIs
<1>2. PICK k : TheOwn(st, k)
  BY <1>1, AddsToIs
<1>3. N - 1 \in 1..MaxN /\ N \in 1..MaxN /\ Counts(prog[p], N - 1, i) /\ 0 \in Cells
  BY MaxNAssumption, PrimeCounts DEF Cells
<1> DEFINE n == Len(st.loads)  x == m[st.arr][0]  y == m2[st.arr][0]  e == x - y
           O == [l \in 1..n |-> IF l = k THEN e ELSE 0]
           R == Reads(m, st, N, i)  R2 == Reads(m2, st, N - 1, i)
<1>4. x \in Int /\ y \in Int /\ e \in Int
  BY <1>1, <1>3 DEF Memories
<1>5. R[k] = x /\ R2[k] = y
  <2> DEFINE ld == st.loads[k]
  <2>1. ld \in LoadsOf(st) /\ ld.arr = st.arr /\ ld.coef = 1 /\ ld.idx # "last"
    BY <1>1, <1>2, LoadIs DEF TheOwn, LoadsOf
  <2>2. R[k] = ld.coef * LoadValue(m, ld, N, i) /\ R2[k] = ld.coef * LoadValue(m2, ld, N - 1, i)
    BY <1>2 DEF Reads, TheOwn
  <2> HIDE DEF ld
  <2>3. LoadValue(m, ld, N, i) = m[ld.arr][0] /\ LoadValue(m2, ld, N - 1, i) = m2[ld.arr][0]
    BY <1>1, <1>3, <2>1, ReadIs
  <2> QED
    BY <1>4, <2>1, <2>2, <2>3
<1>6. Numbers(R, n) /\ Numbers(R2, n)
  BY <1>3, StoreValueIs
<1>7. Numbers(O, n) /\ Sum(O) = e
  <2>1. DOMAIN O = 1..n /\ k \in 1..n /\ O[k] = e /\ \A l \in 1..n : l # k => O[l] = 0
    BY <1>1, <1>2 DEF TheOwn
  <2> HIDE DEF O, e
  <2>2. Numbers(O, n)
    BY <1>1, <1>4, <2>1 DEF Numbers
  <2>3. Sum(O) = O[k]
    BY <2>1, <2>2, SumAt
  <2> QED
    BY <2>1, <2>2, <2>3
<1>8. OwnExceeds(st, m, m2, N, i, O)
  <2>1. \A l \in DOMAIN st.loads : IF st.loads[l].arr = st.arr THEN l = k ELSE l # k
    BY <1>2 DEF TheOwn
  <2>2. R[k] = R2[k] + e
    BY <1>4, <1>5
  <2>3. \A l \in DOMAIN st.loads : O[l] = IF l = k THEN e ELSE 0
    BY <1>1
  <2> HIDE DEF O, e
  <2> QED
    BY <1>7, <2>1, <2>2, <2>3 DEF OwnExceeds
<1> HIDE DEF O, e
<1>9. /\ Gain(st, d, N, regs) \in Int
      /\ StoreValue(m, st, N, i) = StoreValue(m2, st, N - 1, i) + Sum(O) + Gain(st, d, N, regs)
  BY <1>8, ValueGrows
<1> QED
  BY <1>7, <1>9 DEF e

(* A scalar all stores of a loop add to. *)
Collects(p, x, d, v) ==
  /\ p \in DOMAIN prog /\ prog[p].loop /\ x \in Static
  /\ \A s \in DOMAIN prog[p].body : prog[p].body[s].arr = x =>
       AddsTo(prog[p].body[s]) /\ KnownLoads(p, prog[p].body[s], d, v) /\ EvenTerm(prog[p].body[s])

Gains(p, x, d, N, regs) ==
  [s \in DOMAIN prog[p].body |-> IF prog[p].body[s].arr = x THEN Gain(prog[p].body[s], d, N, regs) ELSE 0]

LEMMA GainsAre ==
  ASSUME Plain, NEW p \in DOMAIN prog, NEW x, NEW d \in Diffs, NEW N \in Int, NEW regs \in Registers
  PROVE  Numbers(Gains(p, x, d, N, regs), Len(prog[p].body)) /\ Sum(Gains(p, x, d, N, regs)) \in Int
<1> DEFINE G == Gains(p, x, d, N, regs)  n == Len(prog[p].body)
<1>1. n \in Nat /\ DOMAIN prog[p].body = 1..n /\ \A s \in 1..n : prog[p].body[s] \in Stores
  BY PlainIs
<1>2. DOMAIN G = 1..n /\ \A s \in 1..n : G[s] \in Int
  BY <1>1, GainType DEF Gains
<1>3. Numbers(G, n)
  BY <1>1, <1>2 DEF Numbers
<1> HIDE DEF G, n
<1>4. Sum(G) \in Int
  BY <1>3, SumType
<1> QED
  BY <1>3, <1>4 DEF G, n

(* ... grows in each iteration by the same. *)
Gap(N, p, i, s, x) == At(N, p, i, s)[x][0] - At(N - 1, p, i, s)[x][0]

LEMMA StepCollects ==
  ASSUME Plain, NEW N, NEW p, NEW d, NEW v, NEW regs, Recording(N, p, d, v, regs), NEW x \in Arrays, Collects(p, x, d, v),
         NEW i \in 0..(N - 2), Counts(prog[p], N, i), NEW s \in DOMAIN prog[p].body
  PROVE  /\ Gap(N, p, i, s - 1, x) \in Int /\ Gains(p, x, d, N, regs)[s] \in Int
         /\ Gap(N, p, i, s, x) = Gap(N, p, i, s - 1, x) + Gains(p, x, d, N, regs)[s]
<1> DEFINE st == prog[p].body[s]  a == st.arr  m == At(N, p, i, s - 1)  m2 == At(N - 1, p, i, s - 1)
<1>0. /\ N \in 2..MaxN /\ p \in DOMAIN prog /\ d \in Diffs /\ regs \in Registers /\ prog[p].loop
      /\ DiffsHold(d, v, p - 1, N, regs) /\ x \in Static
  BY DEF Recording, Collects
<1>1. N - 1 \in 1..MaxN /\ N \in 1..MaxN /\ N \in Int /\ Counts(prog[p], N - 1, i) /\ 0 \in Cells
  BY <1>0, MaxNAssumption, PrimeCounts DEF Cells
<1>2. /\ m \in Memories /\ m2 \in Memories /\ a \in Arrays /\ st \in Stores /\ i \in Cells
      /\ Before(m, N, p) /\ Before(m2, N - 1, p)
      /\ At(N, p, i, s) = Assigned(m, a, i, StoreValue(m, st, N, i))
      /\ At(N - 1, p, i, s) = Assigned(m2, a, i, StoreValue(m2, st, N - 1, i))
      /\ At(N, p, i, s)[a][Index(a, i)] = StoreValue(m, st, N, i)
      /\ At(N - 1, p, i, s)[a][Index(a, i)] = StoreValue(m2, st, N - 1, i)
      /\ StoreValue(m2, st, N - 1, i) \in Int
  BY <1>0, <1>1, Stage
<1>3. m[x][0] \in Int /\ m2[x][0] \in Int
  BY <1>1, <1>2 DEF Memories
<1>g. Gains(p, x, d, N, regs)[s] = IF a = x THEN Gain(st, d, N, regs) ELSE 0
  BY DEF Gains
<1> HIDE DEF st, a, m, m2
<1>4. CASE a # x
  <2>1. At(N, p, i, s)[x] = m[x] /\ At(N - 1, p, i, s)[x] = m2[x]
    BY <1>2, <1>4, AssignedElsewhere
  <2> QED
    BY <1>3, <1>4, <1>g, <2>1 DEF Gap, m, m2
<1>5. CASE a = x
  <2>1. Index(a, i) = 0
    BY <1>0, <1>5 DEF Index, IsStatic
  <2>2. AddsTo(st) /\ KnownLoads(p, st, d, v) /\ EvenTerm(st) /\ st = prog[p].body[s] /\ st.arr = x
    BY <1>5 DEF Collects, st, a
  <2>3. /\ Gain(st, d, N, regs) \in Int
        /\ StoreValue(m, st, N, i) = StoreValue(m2, st, N - 1, i) + (m[st.arr][0] - m2[st.arr][0]) + Gain(st, d, N, regs)
    BY <1>0, <1>2, <2>2, Collected
  <2>4. At(N, p, i, s)[x][0] = At(N - 1, p, i, s)[x][0] + (m[x][0] - m2[x][0]) + Gain(st, d, N, regs)
        /\ At(N - 1, p, i, s)[x][0] \in Int
    BY <1>2, <1>5, <2>1, <2>2, <2>3
  <2> DEFINE u == At(N, p, i, s)[x][0]  w == At(N - 1, p, i, s)[x][0]  b == m[x][0]  c == m2[x][0]  g == Gain(st, d, N, regs)
  <2>5. u = w + (b - c) + g /\ w \in Int /\ b \in Int /\ c \in Int /\ g \in Int
    BY <1>3, <2>3, <2>4
  <2>6. Gap(N, p, i, s, x) = u - w /\ Gap(N, p, i, s - 1, x) = b - c
    BY DEF Gap, m, m2
  <2>7. Gains(p, x, d, N, regs)[s] = g
    BY <1>5, <1>g
  <2> HIDE DEF u, w, b, c, g
  <2>8. u - w = (b - c) + g /\ b - c \in Int
    BY <2>5
  <2> QED
    BY <2>5, <2>6, <2>7, <2>8
<1> QED
  BY <1>4, <1>5

(* What grows by a number at a time grows by their sum. *)
LEMMA Telescopes ==
  ASSUME NEW n, NEW u, Numbers(u, n), NEW f, f[0] \in Int, \A k \in 1..n : f[k] = f[k - 1] + u[k]
  PROVE  Sum(u) \in Int /\ f[n] = f[0] + Sum(u)
<1>0. n \in Nat /\ DOMAIN u = 1..n /\ \A k \in 1..n : u[k] \in Int
  BY DEF Numbers
<1>1. PICK run : SumSteps(run, u, n)
  BY <1>0, SumTrace
<1>r. run[0] = 0 /\ Sum(u) = run[n] /\ \A k \in 1..n : run[k] = run[k - 1] + u[k]
  BY <1>1 DEF SumSteps
<1> DEFINE S == {k \in 0..n : run[k] \in Int /\ f[k] = f[0] + run[k]}
<1>2. 0 \in S
  BY <1>0, <1>r
<1>3. ASSUME NEW k \in 0..(n - 1), k \in S PROVE k + 1 \in S
  <2> DEFINE j == k + 1
  <2>1. j \in 1..n /\ j - 1 = k /\ j \in 0..n
    BY <1>0
  <2> HIDE DEF j
  <2>2. f[j] = f[j - 1] + u[j] /\ run[j] = run[j - 1] + u[j] /\ u[j] \in Int
    BY <1>0, <1>r, <2>1
  <2>3. run[k] \in Int /\ f[k] = f[0] + run[k]
    BY <1>3
  <2>4. run[j] \in Int /\ f[j] = f[0] + run[j]
    BY <2>1, <2>2, <2>3
  <2> QED
    BY <2>1, <2>4 DEF j
<1>4. 0..n \subseteq S
  <2> HIDE DEF S
  <2> QED
    BY <1>0, <1>2, <1>3, SetInduction
<1>5. n \in S
  BY <1>0, <1>4
<1> QED
  BY <1>5, <1>r

(* What grows by the same each time. *)
LEMMA Steady ==
  ASSUME NEW lo \in Nat, NEW hi \in Nat, lo <= hi, NEW T \in Int, NEW f, f[lo] \in Int,
         \A i \in lo..(hi - 1) : f[i + 1] = f[i] + T
  PROVE  f[hi] = f[lo] + (hi - lo) * T
<1> DEFINE S == {i \in lo..hi : f[i] = f[lo] + (i - lo) * T}
<1>1. lo \in S
  OBVIOUS
<1>2. ASSUME NEW i \in lo..(hi - 1), i \in S PROVE i + 1 \in S
  <2>1. f[i] = f[lo] + (i - lo) * T /\ f[i + 1] = f[i] + T
    BY <1>2
  <2> DEFINE k == i - lo
  <2>2. k \in Int /\ (i + 1) - lo = k + 1 /\ i + 1 \in lo..hi
    OBVIOUS
  <2>3. (k + 1) * T = k * T + T /\ k * T \in Int
    BY <2>2
  <2> HIDE DEF k
  <2>4. f[i + 1] = f[lo] + ((i + 1) - lo) * T
    <3>1. f[i] = f[lo] + k * T
      BY <2>1 DEF k
    <3> DEFINE kt == k * T
    <3> HIDE DEF kt
    <3>2. f[i + 1] = f[lo] + (kt + T)
      BY <2>1, <2>3, <3>1 DEF kt
    <3> QED
      BY <2>2, <2>3, <3>2 DEF kt
  <2> QED
    BY <2>2, <2>4
<1>3. lo..hi \subseteq S
  <2> HIDE DEF S
  <2> QED
    BY <1>1, <1>2, SetInduction
<1>4. hi \in S
  BY <1>3
<1> QED
  BY <1>4

LEMMA BodyCollects ==
  ASSUME Plain, NEW N, NEW p, NEW d, NEW v, NEW regs, Recording(N, p, d, v, regs), NEW x \in Arrays, Collects(p, x, d, v),
         NEW i \in 0..(N - 2), Counts(prog[p], N, i)
  PROVE  /\ Gap(N, p, i, 0, x) \in Int
         /\ Gap(N, p, i, Len(prog[p].body), x) = Gap(N, p, i, 0, x) + Sum(Gains(p, x, d, N, regs))
<1> DEFINE n == Len(prog[p].body)  u == Gains(p, x, d, N, regs)
           f == [s \in 0..n |-> Gap(N, p, i, s, x)]
<1>1. n \in Nat /\ DOMAIN prog[p].body = 1..n /\ p \in DOMAIN prog /\ N \in Int /\ d \in Diffs /\ regs \in Registers
      /\ N \in 2..MaxN
  BY PlainIs DEF Recording
<1>2. Numbers(u, n)
  BY <1>1, GainsAre
<1>3. f[0] \in Int
  <2>1. Counts(prog[p], N - 1, i) /\ N - 1 \in 1..MaxN /\ N \in 1..MaxN /\ 0 \in Cells
    BY <1>1, MaxNAssumption, PrimeCounts DEF Cells
  <2>2. At(N, p, i, 0) \in Memories /\ At(N - 1, p, i, 0) \in Memories
    BY <1>1, <2>1, AtIs
  <2>3. At(N, p, i, 0)[x][0] \in Int /\ At(N - 1, p, i, 0)[x][0] \in Int
    BY <2>1, <2>2 DEF Memories
  <2>4. f[0] = At(N, p, i, 0)[x][0] - At(N - 1, p, i, 0)[x][0]
    BY <1>1 DEF Gap
  <2> QED
    BY <2>3, <2>4
<1>4. ASSUME NEW s \in 1..n PROVE f[s] = f[s - 1] + u[s]
  <2>1. s - 1 \in 0..n /\ s \in 0..n /\ s \in DOMAIN prog[p].body
    BY <1>1
  <2>2. Gap(N, p, i, s, x) = Gap(N, p, i, s - 1, x) + u[s]
    BY <2>1, StepCollects
  <2> QED
    BY <2>1, <2>2
<1>5. f[n] = f[0] + Sum(u)
  <2> HIDE DEF f, u, n
  <2> QED
    BY <1>2, <1>3, <1>4, Telescopes
<1>6. f[n] = Gap(N, p, i, n, x) /\ f[0] = Gap(N, p, i, 0, x)
  BY <1>1
<1> QED
  BY <1>3, <1>5, <1>6

(* The iterations both have. *)
LEMMA LoopCollects ==
  ASSUME Plain, NEW N, NEW p, NEW d, NEW v, NEW regs, Recording(N, p, d, v, regs), NEW x \in Arrays, Collects(p, x, d, v)
  PROVE  /\ Begins(N, p, N - 1)[x][0] \in Int /\ Mem(N - 1)[p][x][0] \in Int
         /\ Grown(N, p - 1, x, 0) \in Int /\ Sum(Gains(p, x, d, N, regs)) \in Int
         /\ Begins(N, p, N - 1)[x][0] - Mem(N - 1)[p][x][0]
              = Grown(N, p - 1, x, 0) + ((N - 1) - prog[p].first) * Sum(Gains(p, x, d, N, regs))
<1> DEFINE T == Sum(Gains(p, x, d, N, regs))  lo == prog[p].first  hi == N - 1
           f == [i \in lo..hi |-> Begins(N, p, i)[x][0] - Begins(N - 1, p, i)[x][0]]
<1>0. p \in DOMAIN prog /\ prog[p].loop /\ N \in 2..MaxN /\ d \in Diffs /\ regs \in Registers
  BY DEF Recording
<1>1. /\ lo \in {0, 1} /\ lo \in Nat /\ hi \in Nat /\ lo <= hi /\ N \in Int /\ N \in 1..MaxN /\ hi \in 1..MaxN /\ 0 \in Cells
      /\ MaxN \in Nat
  BY <1>0, MaxNAssumption, PlainIs DEF Cells
<1>2. T \in Int
  BY <1>0, <1>1, GainsAre
<1>3. ASSUME NEW i \in lo..hi
      PROVE  /\ Begins(N, p, i)[x][0] \in Int /\ Begins(N - 1, p, i)[x][0] \in Int /\ f[i] \in Int
             /\ f[i] = Begins(N, p, i)[x][0] - Begins(N - 1, p, i)[x][0]
  <2>1. i \in prog[p].first..N /\ i \in prog[p].first..(N - 1)
    BY <1>1
  <2>2. Begins(N, p, i) \in Memories /\ Begins(N - 1, p, i) \in Memories
    BY <1>0, <1>1, <2>1, BeginsIs
  <2>3. Begins(N, p, i)[x][0] \in Int /\ Begins(N - 1, p, i)[x][0] \in Int
    BY <1>1, <2>2 DEF Memories
  <2> QED
    BY <2>3
<1>4. ASSUME NEW i \in lo..(hi - 1) PROVE f[i + 1] = f[i] + T
  <2>1. i \in 0..(N - 2) /\ i + 1 \in lo..hi /\ i \in lo..hi /\ Counts(prog[p], N, i) /\ Counts(prog[p], N - 1, i)
    BY <1>0, <1>1 DEF Counts
  <2> DEFINE j == i + 1  n == Len(prog[p].body)
  <2>2. Gap(N, p, i, n, x) = Gap(N, p, i, 0, x) + T
    BY <2>1, BodyCollects
  <2>3. At(N, p, i, 0) = Begins(N, p, i) /\ At(N - 1, p, i, 0) = Begins(N - 1, p, i)
        /\ At(N, p, i, n) = Begins(N, p, j) /\ At(N - 1, p, i, n) = Begins(N - 1, p, j)
    BY <1>0, <1>1, <2>1, AtIs
  <2>4. f[j] = Begins(N, p, j)[x][0] - Begins(N - 1, p, j)[x][0]
    <3> HIDE DEF j, f
    <3>1. j \in lo..hi
      BY <2>1 DEF j
    <3> QED
      BY <3>1, <1>3
  <2>5. f[i] = Begins(N, p, i)[x][0] - Begins(N - 1, p, i)[x][0]
    BY <2>1
  <2>6. Gap(N, p, i, n, x) = f[j] /\ Gap(N, p, i, 0, x) = f[i]
    BY <2>3, <2>4, <2>5 DEF Gap
  <2> QED
    BY <2>2, <2>6
<1>5. f[hi] = f[lo] + (hi - lo) * T
  <2>1. f[lo] \in Int
    <3>1. lo \in lo..hi
      BY <1>1
    <3> HIDE DEF f, lo, hi
    <3> QED
      BY <3>1, <1>3
  <2> HIDE DEF f, T, lo, hi
  <2> QED
    BY <1>1, <1>2, <1>4, <2>1, Steady
<1>6. Begins(N, p, lo) = Mem(N)[p - 1] /\ Begins(N - 1, p, lo) = Mem(N - 1)[p - 1] /\ Begins(N - 1, p, hi) = Mem(N - 1)[p]
  BY <1>0, <1>1, BeginsIs
<1>7. f[lo] = Grown(N, p - 1, x, 0) /\ f[hi] = Begins(N, p, hi)[x][0] - Mem(N - 1)[p][x][0]
      /\ f[lo] \in Int /\ Begins(N, p, hi)[x][0] \in Int /\ Mem(N - 1)[p][x][0] \in Int
  <2>1. lo \in lo..hi /\ hi \in lo..hi
    BY <1>1
  <2> HIDE DEF f, hi
  <2>2. f[lo] = Begins(N, p, lo)[x][0] - Begins(N - 1, p, lo)[x][0] /\ f[lo] \in Int
    BY <1>3, <2>1
  <2>3. f[hi] = Begins(N, p, hi)[x][0] - Begins(N - 1, p, hi)[x][0]
        /\ Begins(N, p, hi)[x][0] \in Int /\ Begins(N - 1, p, hi)[x][0] \in Int
    BY <1>3, <2>1
  <2> QED
    BY <1>6, <2>2, <2>3 DEF Grown
<1> QED
  BY <1>2, <1>5, <1>7

-----------------------------------------------------------------------------
(***************************************************************************)
(* The last iteration of a loop, in P_N and in the difference function.   *)
(***************************************************************************)

(* Stores an array is left by after this one, other than those that add to it. *)
LaterAt(p, s, a) ==
  \/ \E q \in (p + 1)..Len(prog) : a \in Written(prog[q])
  \/ \E q \in (s + 1)..Len(prog[p].body) : prog[p].body[q].arr = a /\ ~Accumulates(prog[p].body[q])

RestartedBy(x, p) ==
  \E q \in 1..p : \E s \in DOMAIN prog[q].body : prog[q].body[s].arr = x /\ Restarts(prog[q].loop, prog[q].body[s])

(* The difference function has a scalar ahead of P_N by what P_(N-1) still adds to it. *)
Behind(N, p, x) == IF RestartedBy(x, p) THEN 0 ELSE Final(N - 1)[x][0] - Mem(N - 1)[p][x][0]

(* An element below N - 1 is the one P_(N-1) has left, or the first one and stored again. *)
StillOld(m, d, v, p, N, a, j) ==
  \/ m[a][j] = Final(N - 1)[a][j]
  \/ j = 0 /\ StoredBy(a, p) /\ (a \in v \/ (m[a][0] = Mem(N)[p][a][0] /\ d[a] = <<>>))

(* The difference function and P_N, after an item. *)
Agrees(S, d, v, p, N) ==
  /\ S \in States
  /\ \A a \in Arrays \ Static : S.mem[a][N - 1] = Mem(N)[p][a][N - 1]
  /\ \A x \in Static : S.mem[x][0] = Mem(N)[p][x][0] + Behind(N, p, x)
  /\ DiffsHold(d, v, p, N, S.regs)
  /\ \A a \in Arrays \ Static : \A j \in 0..(N - 2) : StillOld(S.mem, d, v, p, N, a, j)

AllAdd(p, x) == \A q \in DOMAIN prog[p].body : prog[p].body[q].arr = x => Accumulates(prog[p].body[q])

(* The difference function and P_N, within the last iteration of a loop. *)
ScalarLike(S, S0, N, p, s, x) ==
  /\ x \notin Written(prog[p]) => S.mem[x][0] = S0.mem[x][0]
  /\ x \in Written(prog[p]) /\ AllAdd(p, x) =>
       S.mem[x][0] = At(N, p, N - 1, s)[x][0] + (Final(N - 1)[x][0] - Mem(N - 1)[p][x][0])
  /\ (\E q \in 1..s : prog[p].body[q].arr = x /\ ~Accumulates(prog[p].body[q])) =>
       S.mem[x][0] = At(N, p, N - 1, s)[x][0]

ReadLike(S, N, p, q) ==
  \A l \in DOMAIN prog[p].body[q].loads : prog[p].body[q].loads[l].arr # prog[p].body[q].arr =>
    S.regs[<<p, q, l>>] = LoadValue(At(N, p, N - 1, q - 1), prog[p].body[q].loads[l], N, N - 1)

Like(S, S0, N, p, s) ==
  /\ S \in States
  /\ \A a \in Arrays \ Static : S.mem[a][N - 1] = At(N, p, N - 1, s)[a][N - 1]
  /\ \A a \in Arrays \ Static : \A j \in 0..(N - 2) : S.mem[a][j] = S0.mem[a][j]
  /\ \A x \in Static : ScalarLike(S, S0, N, p, s, x)
  /\ \A r \in AllLoads : r[1] # p => S.regs[r] = S0.regs[r]
  /\ \A q \in 1..s : ReadLike(S, N, p, q)

(* What has to hold of a store of a loop for that. *)
GoodReads(p, s) ==
  \A l \in LoadsOf(prog[p].body[s]) :
    /\ l.idx # "last"
    /\ LaterAt(p, s, l.arr) => l.idx # "below" /\ ~(IsStatic(l.arr) /\ l.arr # prog[p].body[s].arr)

NeverGains(p, st, d) ==
  prog[p].first = 1 => \A N \in 2..MaxN, regs \in Registers : Gain(st, d, N, regs) = 0

GoodSum(p, s, d, v) ==
  LET st == prog[p].body[s] IN
  /\ AddsTo(st) /\ ~RestartedBy(st.arr, p - 1)
  /\ KnownLoads(p, st, d, v) /\ EvenTerm(st) /\ NeverGains(p, st, d)

GoodRecurrence(p, s, d, v) ==
  LET st == prog[p].body[s] IN
  /\ ~MentionsN(st.term) /\ st.arr \notin v /\ \A l \in OthersOf(st) : Same(p, l.arr, d, v)
  /\ d[st.arr] = <<>> \/ ~Multiplied(st)
  /\ \A q \in 1..(s - 1) : prog[p].body[q].arr = st.arr =>
       NewArray(p, q, d, v) /\ NeverGains(p, prog[p].body[q], d)

GoodLoop(p, s, d, v) ==
  /\ GoodReads(p, s)
  /\ \A l \in OthersOf(prog[p].body[s]) : l.idx = "below" => Same(p, l.arr, d, v)
  /\ Accumulates(prog[p].body[s]) => GoodSum(p, s, d, v)
  /\ Recurs(prog[p].body[s]) => GoodRecurrence(p, s, d, v)

(* Where P_(N-1) leaves an array that is not stored any more. *)
LEMMA FinalAlready ==
  ASSUME Plain, NEW N \in 2..MaxN, NEW p \in DOMAIN prog, NEW s, NEW a \in Arrays, ~LaterAt(p, s, a)
  PROVE  /\ Final(N - 1)[a] = Mem(N - 1)[p][a]
         /\ a \notin Written(prog[p]) => Final(N - 1)[a] = Mem(N - 1)[p - 1][a]
<1> DEFINE M == N - 1
<1>1. M \in 1..MaxN /\ p \in 0..Len(prog)
  BY FinalType, MemIs DEF Plain
<1>2. \A q \in (p + 1)..Len(prog) : a \notin Written(prog[q])
  BY DEF LaterAt
<1> HIDE DEF M
<1>3. Final(M)[a] = Mem(M)[p][a]
  BY <1>1, <1>2, StoredNoMore
<1>4. a \notin Written(prog[p]) => Mem(M)[p][a] = Mem(M)[p - 1][a]
  BY <1>1, NotWritten
<1> QED
  BY <1>3, <1>4 DEF M

LEMMA IntMinus == \A x \in Int : x - x = 0 /\ x + 0 = x
OBVIOUS

(* Outside the loop's own arrays the element below is that of P_N. *)
LEMMA BelowSame ==
  ASSUME Plain, NEW N \in 2..MaxN, NEW p \in DOMAIN prog, NEW s, NEW d \in Diffs, NEW v,
         NEW S, Agrees(S, d, v, p - 1, N), NEW b \in Arrays \ Static, Same(p, b, d, v), ~LaterAt(p, s, b),
         NEW j \in 0..(N - 2)
  PROVE  S.mem[b][j] = Mem(N)[p - 1][b][j]
<1> DEFINE M == N - 1
<1>1. M \in 1..MaxN /\ N \in 1..MaxN /\ p - 1 \in 0..Len(prog) /\ j \in Cells
  BY FinalType, MaxNAssumption, MemIs DEF Cells
<1>2. b \notin v /\ b \notin Written(prog[p]) /\ d[b] = <<>>
  BY DEF Same
<1>3. Index(b, j) = j
  BY DEF Index, IsStatic
<1>4. Grown(N, p - 1, b, j) = 0
  BY <1>2, <1>3, RecordedEmpty DEF Agrees, DiffsHold
<1>5. Mem(N)[p - 1][b][j] \in Int /\ Mem(M)[p - 1][b][j] \in Int
  <2>1. Mem(N)[p - 1] \in Memories /\ Mem(M)[p - 1] \in Memories
    BY <1>1, MemIs
  <2> QED
    BY <1>1, <2>1 DEF Memories
<1>6. Mem(N)[p - 1][b][j] = Mem(M)[p - 1][b][j]
  BY <1>4, <1>5 DEF Grown
<1>7. Final(M)[b] = Mem(M)[p - 1][b]
  BY <1>2, FinalAlready
<1>8. StillOld(S.mem, d, v, p - 1, N, b, j)
  BY DEF Agrees
<1>9. CASE S.mem[b][j] = Final(N - 1)[b][j]
  BY <1>6, <1>7, <1>9
<1>10. CASE j = 0 /\ S.mem[b][0] = Mem(N)[p - 1][b][0]
  BY <1>10
<1> QED
  BY <1>2, <1>8, <1>9, <1>10 DEF StillOld

(* A scalar that is another store's is P_N's when it is read. *)
LEMMA ScalarSame ==
  ASSUME Plain, NEW N \in 2..MaxN, NEW p \in DOMAIN prog, prog[p].loop, NEW s \in DOMAIN prog[p].body,
         NEW d, NEW v, NEW S0, Agrees(S0, d, v, p - 1, N), NEW S, Like(S, S0, N, p, s - 1),
         NEW x \in Static, x # prog[p].body[s].arr, ~LaterAt(p, s, x)
  PROVE  S.mem[x][0] = At(N, p, N - 1, s - 1)[x][0]
<1> DEFINE M == N - 1  q == s - 1
<1>1. M \in 1..MaxN /\ N \in 1..MaxN /\ p - 1 \in 0..Len(prog) /\ 0 \in Cells /\ x \in Arrays /\ p \in 0..Len(prog)
  BY FinalType, MaxNAssumption, MemIs, StaticAssumption DEF Cells, Plain
<1>2. Counts(prog[p], N, M)
  BY CounterIs DEF Counter
<1>3. q \in 0..Len(prog[p].body) /\ At(N, p, M, q) \in Memories /\ s \in Nat /\ DOMAIN prog[p].body = 1..Len(prog[p].body)
      /\ Len(prog[p].body) \in Nat
  BY <1>1, <1>2, AtIs, PlainIs
<1>4. Final(M)[x] = Mem(M)[p][x] /\ (x \notin Written(prog[p]) => Final(M)[x] = Mem(M)[p - 1][x])
  BY <1>1, FinalAlready
<1>5. At(N, p, M, q)[x][0] \in Int /\ Mem(M)[p][x][0] \in Int /\ Mem(M)[p - 1][x][0] \in Int /\ Mem(N)[p - 1][x][0] \in Int
  <2>1. Mem(M)[p] \in Memories /\ Mem(M)[p - 1] \in Memories /\ Mem(N)[p - 1] \in Memories
    BY <1>1, MemIs
  <2> QED
    BY <1>1, <1>3, <2>1 DEF Memories
<1>6. ScalarLike(S, S0, N, p, q, x)
  BY DEF Like
<1>7. CASE x \notin Written(prog[p])
  <2>1. At(N, p, M, q)[x] = Mem(N)[p - 1][x]
    BY <1>1, <1>2, <1>3, <1>7, NotWritten
  <2>2. S.mem[x][0] = S0.mem[x][0]
    BY <1>6, <1>7 DEF ScalarLike
  <2>3. S0.mem[x][0] = Mem(N)[p - 1][x][0] + Behind(N, p - 1, x)
    BY DEF Agrees
  <2>4. Behind(N, p - 1, x) = 0
    BY <1>4, <1>5, <1>7, IntMinus DEF Behind
  <2> QED
    BY <1>5, <2>1, <2>2, <2>3, <2>4, IntMinus
<1>8. CASE x \in Written(prog[p]) /\ AllAdd(p, x)
  <2>1. S.mem[x][0] = At(N, p, M, q)[x][0] + (Final(M)[x][0] - Mem(M)[p][x][0])
    BY <1>6, <1>8 DEF ScalarLike
  <2> QED
    BY <1>4, <1>5, <2>1, IntMinus
<1>9. CASE ~AllAdd(p, x)
  <2>1. PICK k \in DOMAIN prog[p].body : prog[p].body[k].arr = x /\ ~Accumulates(prog[p].body[k])
    BY <1>9 DEF AllAdd
  <2>2. k \in 1..q
    <3>1. ~(k \in (s + 1)..Len(prog[p].body)) /\ k # s
      BY <2>1 DEF LaterAt
    <3> QED
      BY <1>3, <2>1, <3>1
  <2> QED
    BY <1>6, <2>1, <2>2 DEF ScalarLike
<1> QED
  BY <1>7, <1>8, <1>9

(* Two memories a store finds: the loads of other arrays read the same, those of its own g more. *)
OthersSame(st, m, m2, N, i) ==
  \A l \in DOMAIN st.loads : st.loads[l].arr # st.arr =>
    LoadValue(m, st.loads[l], N, i) = LoadValue(m2, st.loads[l], N, i)

OwnSame(st, m, m2, N, i) ==
  \A l \in DOMAIN st.loads : st.loads[l].arr = st.arr =>
    LoadValue(m, st.loads[l], N, i) = LoadValue(m2, st.loads[l], N, i)

OwnOff(st, k, m, m2, N, i, g) ==
  TheOwn(st, k) /\ LoadValue(m, st.loads[k], N, i) = LoadValue(m2, st.loads[k], N, i) + g

LEMMA CancelSame == \A a, b, g, x \in Int : a = b + g + x - x => a = b + g
OBVIOUS

LEMMA ValueAlike ==
  ASSUME Plain, NEW p \in DOMAIN prog, NEW s \in DOMAIN prog[p].body, NEW st, st = prog[p].body[s],
         NEW N \in 1..MaxN, NEW i, Counts(prog[p], N, i), NEW m \in Memories, NEW m2 \in Memories,
         OthersSame(st, m, m2, N, i), OwnSame(st, m, m2, N, i)
  PROVE  StoreValue(m, st, N, i) = StoreValue(m2, st, N, i)
<1>1. \A l \in DOMAIN st.loads : LoadValue(m, st.loads[l], N, i) = LoadValue(m2, st.loads[l], N, i)
  BY DEF OthersSame, OwnSame
<1> QED
  BY <1>1, ValueSame

IsMore(x, y, g) == x = y + g

LEMMA ValueOff ==
  ASSUME Plain, NEW p \in DOMAIN prog, NEW s \in DOMAIN prog[p].body, NEW st, st = prog[p].body[s],
         NEW N \in 1..MaxN, NEW i, Counts(prog[p], N, i), NEW m \in Memories, NEW m2 \in Memories,
         OthersSame(st, m, m2, N, i), NEW k, NEW g \in Int, OwnOff(st, k, m, m2, N, i, g)
  PROVE  IsMore(StoreValue(m, st, N, i), StoreValue(m2, st, N, i), g)
<1> DEFINE n == Len(st.loads)  D == [l \in 1..n |-> IF l = k THEN g ELSE 0]
           U == Reads(m, st, N, i)  V == Reads(m2, st, N, i)
<1>1. st \in Stores /\ DOMAIN st.loads = 1..n /\ n \in Nat
  BY PlainIs, StoreIs
<1>2. k \in 1..n /\ st.loads[k].coef = 1 /\ \A l \in 1..n : l # k => st.loads[l].arr # st.arr
  BY <1>1 DEF OwnOff, TheOwn
<1>3. OnlyAt(D, n, k, g)
  BY DEF OnlyAt
<1>4. Numbers(D, n) /\ Sum(D) = g
  <2> HIDE DEF D, n
  <2> QED
    BY <1>1, <1>2, <1>3, OnlyAtIs
<1>5. Numbers(U, n) /\ Numbers(V, n)
  <2>1. Numbers(U, n)
    BY StoreValueIs
  <2>2. Numbers(V, n)
    BY StoreValueIs
  <2> QED
    BY <2>1, <2>2
<1>6. ASSUME NEW l \in 1..n PROVE U[l] = V[l] + D[l]
  <2>1. U[l] = st.loads[l].coef * LoadValue(m, st.loads[l], N, i) /\ V[l] = st.loads[l].coef * LoadValue(m2, st.loads[l], N, i)
    BY <1>1 DEF Reads
  <2>2. U[l] \in Int /\ V[l] \in Int /\ LoadValue(m2, st.loads[l], N, i) \in Int
    <3>1. st.loads[l] \in LoadsOf(st)
      BY <1>1 DEF LoadsOf
    <3> QED
      BY <1>5, <3>1, WhereIs DEF Numbers
  <2>3. CASE l = k
    <3> DEFINE x == LoadValue(m, st.loads[l], N, i)  y == LoadValue(m2, st.loads[l], N, i)
    <3>1. U[l] = 1 * x /\ V[l] = 1 * y /\ x = y + g /\ D[l] = g /\ y \in Int
      BY <1>2, <2>1, <2>2, <2>3 DEF OwnOff
    <3> HIDE DEF x, y, U, V, D
    <3> QED
      BY <3>1
  <2>4. CASE l # k
    <3>1. U[l] = V[l] /\ D[l] = 0
      BY <1>1, <1>2, <2>1, <2>4 DEF OthersSame
    <3> HIDE DEF U, V, D
    <3> QED
      BY <2>2, <3>1
  <2> QED
    BY <2>3, <2>4
<1>7. Plus(U, V, D, n)
  <2> HIDE DEF U, V, D, n
  <2> QED
    BY <1>4, <1>5, <1>6 DEF Plus
<1>8. StoreValue(m, st, N, i) = StoreValue(m2, st, N, i) + Sum(D) + SignedTerm(st, N, i) - SignedTerm(st, N, i)
  <2> HIDE DEF D
  <2> QED
    BY <1>7, ValueDiffers
<1>9. StoreValue(m, st, N, i) \in Int /\ StoreValue(m2, st, N, i) \in Int /\ SignedTerm(st, N, i) \in Int
  <2>1. StoreValue(m, st, N, i) \in Int /\ SignedTerm(st, N, i) \in Int
    BY StoreValueIs
  <2>2. StoreValue(m2, st, N, i) \in Int
    BY StoreValueIs
  <2> QED
    BY <2>1, <2>2
<1> HIDE DEF D
<1> QED
  BY <1>4, <1>8, <1>9, CancelSame DEF IsMore

(* A store of a loop the difference function runs the last iteration of. *)
Running(N, p, s, d, v, S0, S) ==
  /\ N \in 2..MaxN /\ p \in DOMAIN prog /\ prog[p].loop /\ s \in DOMAIN prog[p].body
  /\ d \in Diffs /\ GoodLoop(p, s, d, v)
  /\ Agrees(S0, d, v, p - 1, N) /\ Like(S, S0, N, p, s - 1)

LEMMA RunningIs ==
  ASSUME Plain, NEW N, NEW p, NEW s, NEW d, NEW v, NEW S0, NEW S, Running(N, p, s, d, v, S0, S)
  PROVE  /\ N \in 1..MaxN /\ N - 1 \in 1..MaxN /\ N - 1 \in Cells /\ N - 2 \in Cells /\ N - 2 \in 0..(N - 2) /\ N - 1 - 1 = N - 2
         /\ N \in Int /\ Counts(prog[p], N, N - 1) /\ p \in 0..Len(prog) /\ p - 1 \in 0..Len(prog)
         /\ s \in Nat \ {0} /\ s - 1 \in 0..Len(prog[p].body)
         /\ At(N, p, N - 1, s - 1) \in Memories /\ S.mem \in Memories /\ S0.mem \in Memories
         /\ S.regs \in Registers /\ S0.regs \in Registers
         /\ St(p, s) \in Stores /\ Arr(p, s) \in Arrays /\ St(p, s).arr = Arr(p, s) /\ St(p, s) = prog[p].body[s]
         /\ \A l \in LoadsOf(St(p, s)) : l.idx # "last" /\ l.arr \in Arrays
<1>1. N \in 2..MaxN /\ p \in DOMAIN prog /\ prog[p].loop /\ s \in DOMAIN prog[p].body
  BY DEF Running
<1>2. N \in 1..MaxN /\ N - 1 \in 1..MaxN /\ N - 1 \in Cells /\ N - 2 \in Cells /\ N - 2 \in 0..(N - 2) /\ N - 1 - 1 = N - 2 /\ N \in Int
  BY <1>1, MaxNAssumption DEF Cells
<1>3. Counts(prog[p], N, N - 1) /\ p \in 0..Len(prog) /\ p - 1 \in 0..Len(prog)
  BY <1>1, <1>2, CounterIs, MemIs DEF Counter, Plain
<1>4. S.mem \in Memories /\ S0.mem \in Memories /\ S.regs \in Registers /\ S0.regs \in Registers
  BY DEF Running, Like, Agrees, States
<1>5. St(p, s) \in Stores /\ Arr(p, s) \in Arrays /\ St(p, s).arr = Arr(p, s) /\ St(p, s) = prog[p].body[s]
  BY <1>1, PlainIs, StoreIs DEF St, Arr
<1>6. \A l \in LoadsOf(St(p, s)) : l.idx # "last" /\ l.arr \in Arrays
  BY <1>1, <1>5, LoadIs DEF Running, GoodLoop, GoodReads
<1>7. s \in Nat \ {0} /\ s - 1 \in 0..Len(prog[p].body) /\ At(N, p, N - 1, s - 1) \in Memories
  <2>1. DOMAIN prog[p].body = 1..Len(prog[p].body) /\ Len(prog[p].body) \in Nat
    BY <1>1, PlainIs
  <2> QED
    BY <1>1, <1>2, <1>3, <2>1, AtIs
<1> QED
  BY <1>2, <1>3, <1>4, <1>5, <1>6, <1>7

LEMMA OtherReadSame ==
  ASSUME Plain, NEW N, NEW p, NEW s, NEW d, NEW v, NEW S0, NEW S, Running(N, p, s, d, v, S0, S),
         NEW l \in OthersOf(St(p, s))
  PROVE  LoadValue(At(N, p, N - 1, s - 1), l, N, N - 1) = LoadValue(S.mem, l, N, N - 1)
<1> DEFINE A == At(N, p, N - 1, s - 1)  i == N - 1
<1>1. /\ N \in 2..MaxN /\ p \in DOMAIN prog /\ prog[p].loop /\ s \in DOMAIN prog[p].body
      /\ d \in Diffs /\ GoodLoop(p, s, d, v) /\ Agrees(S0, d, v, p - 1, N) /\ Like(S, S0, N, p, s - 1)
  BY DEF Running
<1>2. /\ N \in 1..MaxN /\ i \in Cells /\ i - 1 = N - 2 /\ N - 2 \in 0..(N - 2) /\ Counts(prog[p], N, i)
      /\ St(p, s) = prog[p].body[s] /\ s - 1 \in 0..Len(prog[p].body)
  BY RunningIs
<1>3. l \in LoadsOf(prog[p].body[s]) /\ l.arr # prog[p].body[s].arr /\ l.idx # "last" /\ l.arr \in Arrays
  BY <1>2, RunningIs DEF OthersOf
<1>4. /\ l.arr \in Static => LoadValue(A, l, N, i) = A[l.arr][0] /\ LoadValue(S.mem, l, N, i) = S.mem[l.arr][0]
      /\ l.arr \notin Static /\ l.idx = "counter" => LoadValue(A, l, N, i) = A[l.arr][i] /\ LoadValue(S.mem, l, N, i) = S.mem[l.arr][i]
      /\ l.idx = "below" => LoadValue(A, l, N, i) = A[l.arr][i - 1] /\ LoadValue(S.mem, l, N, i) = S.mem[l.arr][i - 1] /\ l.arr \notin Static
  <2> HIDE DEF A, i
  <2> QED
    BY <1>1, <1>2, <1>3, ReadIs
<1>5. CASE l.arr \in Static
  <2>1. ~LaterAt(p, s, l.arr)
    BY <1>1, <1>3, <1>5 DEF GoodLoop, GoodReads, IsStatic
  <2>2. S.mem[l.arr][0] = A[l.arr][0]
    BY <1>1, <1>3, <1>5, <2>1, ScalarSame
  <2> QED
    BY <1>4, <1>5, <2>2
<1>6. CASE l.arr \notin Static /\ l.idx = "counter"
  <2>1. S.mem[l.arr][N - 1] = At(N, p, N - 1, s - 1)[l.arr][N - 1]
    BY <1>1, <1>3, <1>6 DEF Like
  <2> QED
    BY <1>4, <1>6, <2>1
<1>7. CASE l.idx = "below"
  <2>1. l.arr \in Arrays \ Static /\ Same(p, l.arr, d, v) /\ ~LaterAt(p, s, l.arr)
    BY <1>1, <1>2, <1>3, <1>4, <1>7 DEF GoodLoop, GoodReads
  <2>2. S.mem[l.arr][N - 2] = S0.mem[l.arr][N - 2]
    BY <1>1, <1>2, <2>1 DEF Like
  <2>3. S0.mem[l.arr][N - 2] = Mem(N)[p - 1][l.arr][N - 2]
    <3> DEFINE b == l.arr  j == N - 2
    <3>1. b \in Arrays \ Static /\ Same(p, b, d, v) /\ ~LaterAt(p, s, b) /\ j \in 0..(N - 2)
      BY <1>2, <2>1
    <3> HIDE DEF b, j
    <3>2. S0.mem[b][j] = Mem(N)[p - 1][b][j]
      BY <1>1, <3>1, BelowSame
    <3> QED
      BY <3>2 DEF b, j
  <2>4. A[l.arr] = Mem(N)[p - 1][l.arr]
    <3>1. l.arr \in Arrays \ Written(prog[p])
      BY <2>1 DEF Same
    <3> QED
      BY <1>1, <1>2, <3>1, NotWritten
  <2> QED
    BY <1>2, <1>4, <1>7, <2>2, <2>3, <2>4
<1> QED
  <2>1. l.idx \in {"counter", "below", "last"}
    BY <1>1, <1>3, LoadIs
  <2> QED
    BY <1>3, <1>5, <1>6, <1>7, <2>1

LEMMA AllOthersSame ==
  ASSUME Plain, NEW N, NEW p, NEW s, NEW d, NEW v, NEW S0, NEW S, Running(N, p, s, d, v, S0, S)
  PROVE  OthersSame(St(p, s), At(N, p, N - 1, s - 1), S.mem, N, N - 1)
<1> SUFFICES ASSUME NEW l \in DOMAIN St(p, s).loads, St(p, s).loads[l].arr # St(p, s).arr
             PROVE  LoadValue(At(N, p, N - 1, s - 1), St(p, s).loads[l], N, N - 1) = LoadValue(S.mem, St(p, s).loads[l], N, N - 1)
  BY DEF OthersSame
<1>1. St(p, s).loads[l] \in OthersOf(St(p, s))
  BY DEF OthersOf, LoadsOf
<1> QED
  BY <1>1, OtherReadSame

LEMMA RecordingIs ==
  ASSUME Plain, NEW N, NEW p, NEW s, NEW d, NEW v, NEW S0, NEW S, Running(N, p, s, d, v, S0, S)
  PROVE  Recording(N, p, d, v, S0.regs)
<1>1. S0.regs \in Registers
  BY RunningIs
<1> QED
  BY <1>1 DEF Running, Recording, Agrees

LEMMA RecursIs ==
  ASSUME Plain, NEW N \in 2..MaxN, NEW p \in DOMAIN prog, prog[p].loop, NEW s \in DOMAIN prog[p].body, NEW d \in Diffs, NEW v,
         GoodLoop(p, s, d, v), Recurs(St(p, s)), NEW regs \in Registers
  PROVE  /\ Recurrent(p, s, d, v) /\ FirstStores(p, s, d, v, N, regs) /\ ~LaterAt(p, s, Arr(p, s))
         /\ prog[p].first = 1 /\ Arr(p, s) \in Arrays \ Static /\ Arr(p, s) \notin v
<1>1. St(p, s) = prog[p].body[s] /\ St(p, s).arr = Arr(p, s) /\ Arr(p, s) \in Arrays
  BY PlainIs, StoreIs DEF St, Arr
<1>2. GoodRecurrence(p, s, d, v) /\ GoodReads(p, s)
  BY <1>1 DEF GoodLoop
<1>3. PICK l \in OwnOf(St(p, s)) : l.idx = "below"
  BY DEF Recurs
<1>4. l \in LoadsOf(prog[p].body[s]) /\ l.arr = Arr(p, s)
  BY <1>1, <1>3 DEF OwnOf, OthersOf
<1>5. prog[p].first = 1
  BY <1>1, <1>3, <1>4, LoadIs
<1>6. ~LaterAt(p, s, Arr(p, s)) /\ Arr(p, s) \notin Static
  BY <1>1, <1>2, <1>3, <1>4 DEF GoodReads, Recurs, IsStatic
<1>7. NoStore(p, s + 1, Len(prog[p].body), Arr(p, s))
  <2> SUFFICES ASSUME NEW q \in (s + 1)..Len(prog[p].body), prog[p].body[q].arr = Arr(p, s) PROVE FALSE
    BY DEF NoStore
  <2>1. ~Accumulates(prog[p].body[q])
    BY <1>6 DEF Accumulates, IsStatic
  <2> QED
    BY <1>6, <2>1 DEF LaterAt
<1>8. Recurrent(p, s, d, v)
  <2>1. \A k \in LoadsOf(prog[p].body[s]) : k.idx # "last"
    BY <1>2 DEF GoodReads
  <2> QED
    BY <1>1, <1>2, <1>7, <2>1 DEF Recurrent, GoodRecurrence
<1>9. FirstStores(p, s, d, v, N, regs)
  BY <1>1, <1>2, <1>5 DEF FirstStores, GoodRecurrence, NeverGains
<1> QED
  BY <1>1, <1>2, <1>5, <1>6, <1>8, <1>9 DEF GoodRecurrence

LEMMA RunningRecurs ==
  ASSUME Plain, NEW N, NEW p, NEW s, NEW d, NEW v, NEW S0, NEW S, Running(N, p, s, d, v, S0, S), Recurs(St(p, s))
  PROVE  /\ Recurrent(p, s, d, v) /\ FirstStores(p, s, d, v, N, S0.regs) /\ ~LaterAt(p, s, Arr(p, s))
         /\ prog[p].first = 1 /\ Arr(p, s) \in Arrays \ Static /\ Arr(p, s) \notin v
<1>1. /\ N \in 2..MaxN /\ p \in DOMAIN prog /\ prog[p].loop /\ s \in DOMAIN prog[p].body /\ d \in Diffs
      /\ GoodLoop(p, s, d, v) /\ S0.regs \in Registers
  BY RunningIs DEF Running
<1> QED
  BY <1>1, RecursIs

(* The element a recurrence goes on from: that of P_(N-1), unless it has no difference. *)
LEMMA RecurBelow ==
  ASSUME Plain, NEW N, NEW p, NEW s, NEW d, NEW v, NEW S0, NEW S, Running(N, p, s, d, v, S0, S), Recurs(St(p, s))
  PROVE  /\ Recorded(d[Arr(p, s)], N, S0.regs) \in Int
         /\ At(N, p, N - 1, s - 1)[Arr(p, s)][N - 2] = S.mem[Arr(p, s)][N - 2] + Recorded(d[Arr(p, s)], N, S0.regs)
<1> DEFINE a == Arr(p, s)  i == N - 1  j == N - 2  R == Recorded(d[a], N, S0.regs)  q == s - 1  r == p - 1
<1>1. /\ N \in 2..MaxN /\ p \in DOMAIN prog /\ prog[p].loop /\ s \in DOMAIN prog[p].body /\ d \in Diffs
      /\ Agrees(S0, d, v, r, N) /\ Like(S, S0, N, p, q)
  BY DEF Running
<1>2. /\ Recurrent(p, s, d, v) /\ FirstStores(p, s, d, v, N, S0.regs) /\ ~LaterAt(p, s, a)
      /\ prog[p].first = 1 /\ a \in Arrays \ Static /\ a \notin v
  BY RunningRecurs
<1>3. /\ N \in 1..MaxN /\ i \in 1..MaxN /\ j \in Cells /\ j \in 0..(N - 2) /\ i - 1 = j /\ N \in Int
      /\ Counts(prog[p], N, i) /\ q \in 0..Len(prog[p].body) /\ S0.regs \in Registers /\ p \in 0..Len(prog) /\ r \in 0..Len(prog)
      /\ S0.mem \in Memories
  BY RunningIs
<1>4. R \in Int
  BY <1>1, <1>2, <1>3, RegistersAre DEF Diffs
<1>5. Grown(N, p, a, j) = R
  <2>1. Recording(N, p, d, v, S0.regs)
    BY RecordingIs
  <2> HIDE DEF j
  <2> QED
    BY <1>2, <1>3, <2>1, RecurGrows
<1>6. At(N, p, i, q)[a][j] = Mem(N)[p][a][j]
  <2> HIDE DEF i, j, q, a
  <2>0. i - 1 \in Cells /\ i - 1 = j
    BY <1>3
  <2>1. p \in DOMAIN prog /\ prog[p].loop /\ N \in 1..MaxN /\ Counts(prog[p], N, i) /\ a \in Arrays \ Static /\ q \in 0..Len(prog[p].body)
    BY <1>1, <1>2, <1>3
  <2>2. At(N, p, i, q)[a][i - 1] = Mem(N)[p][a][i - 1]
    BY <2>0, <2>1, BelowStored
  <2> QED
    BY <2>0, <2>2
<1>7. S.mem[a][j] = S0.mem[a][j]
  BY <1>2, <1>3, <1>1 DEF Like
<1>8. StillOld(S0.mem, d, v, r, N, a, j)
  BY <1>1, <1>2, <1>3 DEF Agrees
<1>9. Mem(N)[p][a][j] \in Int /\ Mem(i)[p][a][j] \in Int
  <2>1. Mem(N)[p] \in Memories /\ Mem(i)[p] \in Memories
    BY <1>3, MemIs
  <2> QED
    BY <1>2, <1>3, <2>1 DEF Memories
<1>10. CASE S0.mem[a][j] = Final(i)[a][j]
  <2>1. Final(i)[a] = Mem(i)[p][a]
    BY <1>1, <1>2, FinalAlready
  <2>2. Mem(N)[p][a][j] - Mem(i)[p][a][j] = R
    BY <1>5 DEF Grown
  <2>3. S.mem[a][j] = Mem(i)[p][a][j]
    BY <1>7, <1>10, <2>1
  <2>4. At(N, p, i, q)[a][j] = S.mem[a][j] + R
    <3> HIDE DEF R, i, j, a, q
    <3> QED
      BY <1>4, <1>6, <1>9, <2>2, <2>3
  <2> QED
    BY <1>4, <2>4
<1>11. CASE j = 0 /\ S0.mem[a][0] = Mem(N)[r][a][0] /\ d[a] = <<>>
  <2>1. Mem(N)[p][a][0] = Mem(N)[r][a][0]
    <3>1. IF prog[p].loop THEN 0 < prog[p].first \/ 0 >= N ELSE 0 # 0
      BY <1>1, <1>2
    <3>2. 0 \in Cells
      BY <1>3, <1>11
    <3> HIDE DEF a
    <3> QED
      BY <1>1, <1>2, <1>3, <3>1, <3>2, NotReached
  <2>2. R = 0
    BY <1>11, RecordedEmpty
  <2>3. S.mem[a][j] = Mem(N)[p][a][j]
    BY <1>7, <1>11, <2>1
  <2>4. At(N, p, i, q)[a][j] = S.mem[a][j] + R
    <3> HIDE DEF R, i, j, a, q, r
    <3> QED
      BY <1>6, <1>9, <2>2, <2>3
  <2> QED
    BY <1>4, <2>4
<1>12. S0.mem[a][j] = Final(i)[a][j] \/ (j = 0 /\ S0.mem[a][0] = Mem(N)[r][a][0] /\ d[a] = <<>>)
  BY <1>2, <1>8 DEF StillOld
<1> QED
  BY <1>4, <1>10, <1>11, <1>12

(* What is recorded before an item only reads registers of the items before it. *)
LoadsTo(p)    == {r \in AllLoads : r[1] <= p}
DiffsTo(p)    == [Arrays -> Seq(ValuesOver(LoadsTo(p)))]
RegsAgree(regs, other, p) == \A r \in AllLoads : r[1] # p => regs[r] = other[r]

LEMMA RecordedBefore ==
  ASSUME NEW p \in Int, NEW vs \in Seq(ValuesOver(LoadsTo(p - 1))), NEW N, NEW regs, NEW other, RegsAgree(regs, other, p)
  PROVE  Recorded(vs, N, regs) = Recorded(vs, N, other)
<1>1. \A k \in DOMAIN vs : regs[vs[k].load] = other[vs[k].load]
  <2> SUFFICES ASSUME NEW k \in DOMAIN vs PROVE regs[vs[k].load] = other[vs[k].load]
    OBVIOUS
  <2>0. vs[k] \in ValuesOver(LoadsTo(p - 1))
    OBVIOUS
  <2>1. vs[k].load \in LoadsTo(p - 1)
    BY <2>0 DEF ValuesOver
  <2>2. vs[k].load \in AllLoads /\ vs[k].load[1] # p
    BY <2>1 DEF LoadsTo
  <2> QED
    BY <2>2 DEF RegsAgree
<1> QED
  BY <1>1, RecordedSame

LEMMA WiderValues ==
  ASSUME NEW S, NEW T, S \subseteq T, NEW vs \in Seq(ValuesOver(S))
  PROVE  vs \in Seq(ValuesOver(T))
<1>1. ValuesOver(S) \subseteq ValuesOver(T)
  BY DEF ValuesOver
<1> HIDE DEF ValuesOver
<1> QED
  BY <1>1

(* A store of a loop in the difference function, and the addition that may follow it. *)
OrigAt(p, s)       == [kind |-> "store", item |-> p, store |-> s, entry |-> FALSE, add |-> <<>>]
AddAt(p, s, e, vs) == [kind |-> "add", item |-> p, store |-> s, entry |-> e, add |-> vs]

OwnDifference(p, s, d, N, regs) == IF Recurs(St(p, s)) THEN Recorded(d[Arr(p, s)], N, regs) ELSE 0

IsPlaced(p, s, d, is, vs) ==
  /\ vs \in Seq(Values)
  /\ is = IF vs = <<>> THEN <<OrigAt(p, s)>> ELSE <<OrigAt(p, s), AddAt(p, s, FALSE, vs)>>
  /\ \A N \in 2..MaxN, regs \in Registers : Recorded(vs, N, regs) = OwnDifference(p, s, d, N, regs)

PlacedFor(p, s, d, is) == \E vs : IsPlaced(p, s, d, is, vs)

LEMMA LegalAt ==
  ASSUME Plain, NEW p \in DOMAIN prog, NEW s \in DOMAIN prog[p].body, NEW e, NEW vs \in Seq(Values)
  PROVE  Legal(OrigAt(p, s)) /\ Legal(AddAt(p, s, e, vs))
BY DEF Legal, OrigAt, AddAt

(* What the instructions at a store leave. *)
RunOf(S, S1, N, p, s, i, d) ==
  LET a == Arr(p, s)  st == St(p, s) IN
  /\ S1 \in States /\ StoreValue(S.mem, st, N, i) \in Int /\ OwnDifference(p, s, d, N, S1.regs) \in Int
  /\ S1.mem[a][Index(a, i)] = StoreValue(S.mem, st, N, i) + OwnDifference(p, s, d, N, S1.regs)
  /\ \A b \in Arrays : b # a => S1.mem[b] = S.mem[b]
  /\ \A j \in Cells : j # Index(a, i) => S1.mem[a][j] = S.mem[a][j]
  /\ \A r \in AllLoads : ~(r[1] = p /\ r[2] = s) => S1.regs[r] = S.regs[r]
  /\ \A l \in DOMAIN st.loads : S1.regs[<<p, s, l>>] = LoadValue(S.mem, st.loads[l], N, i)

LEMMA RunPlaced ==
  ASSUME Plain, NEW N \in 2..MaxN, NEW p \in DOMAIN prog, NEW s \in DOMAIN prog[p].body, NEW d, NEW is, PlacedFor(p, s, d, is),
         NEW S \in States
  PROVE  RunOf(S, Exec(prog, S, is, N), N, p, s, Counter(p, N), d)
<1> DEFINE a == Arr(p, s)  st == St(p, s)  i == Counter(p, N)  V == StoreValue(S.mem, st, N, i)
           o == OrigAt(p, s)  T == Execute(prog, S, o, N)
<1>1. PICK vs : IsPlaced(p, s, d, is, vs)
  BY DEF PlacedFor
<1>2. vs \in Seq(Values) /\ Legal(o) /\ Legal(AddAt(p, s, FALSE, vs))
  BY <1>1, LegalAt DEF IsPlaced
<1>3. /\ T \in States /\ T.mem = Assigned(S.mem, a, i, V) /\ V \in Int
      /\ \A r \in AllLoads : ~(r[1] = p /\ r[2] = s) => T.regs[r] = S.regs[r]
      /\ \A l \in DOMAIN st.loads : T.regs[<<p, s, l>>] = LoadValue(S.mem, st.loads[l], N, i)
  <2>1. o.kind = "store" /\ p = o.item /\ s = o.store /\ st = prog[p].body[s] /\ st.arr = a
    BY DEF OrigAt, St, Arr
  <2> HIDE DEF o, st, i
  <2>2. /\ T \in States /\ T.mem = Assigned(S.mem, st.arr, i, StoreValue(S.mem, st, N, i)) /\ StoreValue(S.mem, st, N, i) \in Int
        /\ \A r \in AllLoads : ~(r[1] = p /\ r[2] = s) => T.regs[r] = S.regs[r]
        /\ \A l \in DOMAIN st.loads : T.regs[<<p, s, l>>] = LoadValue(S.mem, st.loads[l], N, i)
    BY <1>2, <2>1, ExecuteStore DEF i
  <2> QED
    BY <2>1, <2>2 DEF V
<1>4. i \in Cells /\ a \in Arrays /\ S.mem \in Memories /\ T.regs \in Registers /\ N \in Int /\ Index(a, i) \in Cells
  <2>1. i \in Cells /\ N \in Int
    BY CounterIs
  <2>2. a \in Arrays
    BY PlainIs, StoreIs DEF Arr
  <2>3. S.mem \in Memories /\ T.regs \in Registers
    BY <1>3 DEF States
  <2> QED
    BY <2>1, <2>2, <2>3, AssignedIs
<1>5. /\ T.mem \in Memories /\ T.mem[a][Index(a, i)] = V
      /\ \A b \in Arrays : b # a => T.mem[b] = S.mem[b]
      /\ \A j \in Cells : j # Index(a, i) => T.mem[a][j] = S.mem[a][j]
  <2> HIDE DEF a, i, V, T
  <2>1. T.mem = Assigned(S.mem, a, i, V)
    BY <1>3
  <2> QED
    BY <1>3, <1>4, <2>1, AssignedIs
<1> HIDE DEF T, o, V
<1>6. CASE vs = <<>>
  <2>1. is = <<o>> /\ Exec(prog, S, is, N) = T
    BY <1>1, <1>6, ExecOne DEF IsPlaced, T, o
  <2>2. OwnDifference(p, s, d, N, T.regs) = 0
    BY <1>1, <1>4, <1>6, RecordedEmpty DEF IsPlaced
  <2> DEFINE G == OwnDifference(p, s, d, N, T.regs)
  <2> HIDE DEF G, i, st
  <2>3. V = V + G /\ G \in Int
    BY <1>3, <2>2 DEF G
  <2> QED
    BY <1>3, <1>5, <2>1, <2>3 DEF RunOf, V, G, i, st
<1>7. CASE vs # <<>>
  <2> DEFINE ad == AddAt(p, s, FALSE, vs)  E == Execute(prog, T, ad, N)  R == Recorded(vs, N, T.regs)
  <2>1. is = <<o>> \o <<ad>>
    <3>1. is = <<o, ad>>
      BY <1>1, <1>7 DEF IsPlaced, o
    <3> HIDE DEF ad
    <3> QED
      BY <3>1
  <2>2. Exec(prog, S, is, N) = E
    <3> HIDE DEF ad
    <3>1. <<o>> \in Seq({o, ad}) /\ <<ad>> \in Seq({o, ad})
      OBVIOUS
    <3>2. Exec(prog, S, is, N) = Exec(prog, Exec(prog, S, <<o>>, N), <<ad>>, N)
      BY <2>1, <3>1, ExecConcat
    <3> QED
      BY <3>2, ExecOne DEF T, E
  <2>3. ad.kind = "add" /\ p = ad.item /\ s = ad.store /\ a = prog[p].body[ad.store].arr /\ ad.add = vs /\ ad.entry = FALSE
    BY DEF AddAt, Arr
  <2>4. /\ E \in States /\ E.regs = T.regs /\ AddValue(ad, T, a, i, N) \in Int
        /\ E.mem = Assigned(T.mem, a, i, AddValue(ad, T, a, i, N))
    <3>1. Legal(ad) /\ i = Counter(p, N) /\ E = Execute(prog, T, ad, N)
      BY <1>2
    <3> HIDE DEF ad, i, a, E
    <3> QED
      BY <1>3, <2>3, <3>1, ExecuteAdd
  <2>5. AddValue(ad, T, a, i, N) = V + R
    <3> HIDE DEF ad
    <3>1. From(ad, T, N) = T.mem
      BY <2>3 DEF From
    <3> QED
      BY <1>5, <2>3, <3>1 DEF AddValue
  <2>6. R = OwnDifference(p, s, d, N, E.regs) /\ R \in Int
    <3>1. R \in Int
      BY <1>2, <1>4, RegistersAre
    <3>2. R = OwnDifference(p, s, d, N, T.regs)
      BY <1>1, <1>4 DEF IsPlaced
    <3> QED
      BY <2>4, <3>1, <3>2
  <2> HIDE DEF ad, E, R
  <2>7. /\ E.mem[a][Index(a, i)] = V + R
        /\ \A b \in Arrays : b # a => E.mem[b] = T.mem[b]
        /\ \A j \in Cells : j # Index(a, i) => E.mem[a][j] = T.mem[a][j]
    <3> DEFINE W == AddValue(ad, T, a, i, N)
    <3>1. W \in Int /\ E.mem = Assigned(T.mem, a, i, W) /\ W = V + R
      BY <2>4, <2>5
    <3> HIDE DEF W, a, i
    <3> QED
      BY <1>4, <1>5, <3>1, AssignedIs
  <2>8. \A b \in Arrays : b # a => E.mem[b] = S.mem[b]
    BY <1>5, <2>7
  <2>9. \A j \in Cells : j # Index(a, i) => E.mem[a][j] = S.mem[a][j]
    BY <1>5, <2>7
  <2> HIDE DEF a, st, i
  <2> QED
    BY <1>3, <2>2, <2>4, <2>6, <2>7, <2>8, <2>9 DEF RunOf, V, a, st, i
<1> QED
  BY <1>6, <1>7

(* A load of the store's own array, in either memory. *)
LEMMA OwnReads ==
  ASSUME Plain, NEW N, NEW p, NEW s, NEW d, NEW v, NEW S0, NEW S, Running(N, p, s, d, v, S0, S),
         NEW l \in LoadsOf(St(p, s)), l.arr = Arr(p, s), NEW m
  PROVE  /\ l.arr \in Static => LoadValue(m, l, N, N - 1) = m[Arr(p, s)][0]
         /\ l.arr \notin Static /\ l.idx # "below" => LoadValue(m, l, N, N - 1) = m[Arr(p, s)][N - 1]
         /\ l.idx = "below" => LoadValue(m, l, N, N - 1) = m[Arr(p, s)][N - 2] /\ l.arr \notin Static
<1> DEFINE i == N - 1
<1>1. /\ p \in DOMAIN prog /\ s \in DOMAIN prog[p].body /\ N \in 1..MaxN /\ Counts(prog[p], N, i) /\ i - 1 = N - 2
      /\ l \in LoadsOf(prog[p].body[s]) /\ l.idx # "last"
  BY RunningIs DEF Running
<1>2. l.idx \in {"counter", "below", "last"}
  BY <1>1, LoadIs
<1> HIDE DEF i
<1>3. /\ l.arr \in Static => LoadValue(m, l, N, i) = m[l.arr][0]
      /\ l.arr \notin Static /\ l.idx = "counter" => LoadValue(m, l, N, i) = m[l.arr][i]
      /\ l.idx = "below" => LoadValue(m, l, N, i) = m[l.arr][i - 1] /\ l.arr \notin Static
  BY <1>1, ReadIs
<1> QED
  BY <1>1, <1>2, <1>3 DEF i

(* The element a store of a loop leaves is that of P_N, once its own difference is added. *)
LEMMA OwnElement ==
  ASSUME Plain, NEW N, NEW p, NEW s, NEW d, NEW v, NEW S0, NEW S, Running(N, p, s, d, v, S0, S),
         Arr(p, s) \notin Static, d \in DiffsTo(p - 1), NEW regs, RegsAgree(regs, S0.regs, p)
  PROVE  StoreValue(At(N, p, N - 1, s - 1), St(p, s), N, N - 1)
           = StoreValue(S.mem, St(p, s), N, N - 1) + OwnDifference(p, s, d, N, regs)
<1> DEFINE A == At(N, p, N - 1, s - 1)  i == N - 1  j == N - 2  st == St(p, s)  a == Arr(p, s)
           R == Recorded(d[a], N, S0.regs)
<1>1. /\ p \in DOMAIN prog /\ s \in DOMAIN prog[p].body /\ N \in 1..MaxN /\ Counts(prog[p], N, i)
      /\ A \in Memories /\ S.mem \in Memories /\ st \in Stores /\ st = prog[p].body[s] /\ st.arr = a /\ a \in Arrays
      /\ GoodLoop(p, s, d, v) /\ Like(S, S0, N, p, s - 1)
  BY RunningIs DEF Running
<1>2. OthersSame(st, A, S.mem, N, i)
  BY AllOthersSame
<1>3. S.mem[a][i] = A[a][i]
  BY <1>1 DEF Like
<1>4. StoreValue(S.mem, st, N, i) \in Int
  <2> HIDE DEF st, i, a, A
  <2> QED
    BY <1>1, StoreValueIs
<1>5. ASSUME OwnSame(st, A, S.mem, N, i), OwnDifference(p, s, d, N, regs) = 0
      PROVE  StoreValue(A, st, N, i) = StoreValue(S.mem, st, N, i) + OwnDifference(p, s, d, N, regs)
  <2> HIDE DEF A, st, i, a
  <2>1. StoreValue(A, st, N, i) = StoreValue(S.mem, st, N, i)
    BY <1>1, <1>2, <1>5, ValueAlike
  <2> QED
    BY <1>4, <1>5, <2>1
<1>6. CASE ~Recurs(st)
  <2>1. OwnSame(st, A, S.mem, N, i)
    <3> SUFFICES ASSUME NEW l \in DOMAIN st.loads, st.loads[l].arr = a PROVE LoadValue(A, st.loads[l], N, i) = LoadValue(S.mem, st.loads[l], N, i)
      BY <1>1 DEF OwnSame
    <3>1. st.loads[l] \in LoadsOf(st)
      BY DEF LoadsOf
    <3>2. st.loads[l].idx # "below"
      BY <1>1, <1>6, <3>1 DEF Recurs, OwnOf, OthersOf, IsStatic
    <3>3. LoadValue(A, st.loads[l], N, i) = A[a][i]
      BY <3>1, <3>2, OwnReads
    <3>4. LoadValue(S.mem, st.loads[l], N, i) = S.mem[a][i]
      BY <3>1, <3>2, OwnReads
    <3> QED
      BY <1>3, <3>3, <3>4
  <2> QED
    BY <1>5, <1>6, <2>1 DEF OwnDifference
<1>7. CASE Recurs(st)
  <2>1. R \in Int /\ A[a][j] = S.mem[a][j] + R
    BY <1>7, RecurBelow
  <2>2. OwnDifference(p, s, d, N, regs) = R
    <3>1. p \in Int
      BY <1>1 DEF Plain
    <3>2. d[a] \in Seq(ValuesOver(LoadsTo(p - 1)))
      BY <1>1 DEF DiffsTo
    <3>3. Recorded(d[a], N, regs) = R
      BY <3>1, <3>2, RecordedBefore
    <3> QED
      BY <1>7, <3>3 DEF OwnDifference
  <2>3. CASE d[a] = <<>>
    <3>1. R = 0
      BY <2>3, RecordedEmpty
    <3>2. A[a][j] = S.mem[a][j]
      <4>1. S.mem[a][j] \in Int
        <5>1. j \in Cells
          BY RunningIs
        <5> QED
          BY <1>1, <5>1 DEF Memories
      <4> HIDE DEF R, j, a, A
      <4> QED
        BY <2>1, <3>1, <4>1
    <3>3. OwnSame(st, A, S.mem, N, i)
      <4> SUFFICES ASSUME NEW l \in DOMAIN st.loads, st.loads[l].arr = a PROVE LoadValue(A, st.loads[l], N, i) = LoadValue(S.mem, st.loads[l], N, i)
        BY <1>1 DEF OwnSame
      <4> DEFINE ld == st.loads[l]
      <4>1. ld \in LoadsOf(st) /\ ld.arr = a
        BY DEF LoadsOf
      <4> HIDE DEF ld
      <4>2. /\ ld.idx # "below" => LoadValue(A, ld, N, i) = A[a][i]
            /\ ld.idx = "below" => LoadValue(A, ld, N, i) = A[a][j]
        BY <4>1, OwnReads
      <4>3. /\ ld.idx # "below" => LoadValue(S.mem, ld, N, i) = S.mem[a][i]
            /\ ld.idx = "below" => LoadValue(S.mem, ld, N, i) = S.mem[a][j]
        BY <4>1, OwnReads
      <4> QED
        BY <1>3, <3>2, <4>2, <4>3 DEF ld
    <3> QED
      BY <1>5, <2>2, <3>1, <3>3
  <2>4. CASE d[a] # <<>>
    <3>1. PICK ld \in OwnOf(st) : ld.idx = "below"
      BY <1>7 DEF Recurs
    <3>2. ~Multiplied(st)
      BY <1>1, <1>7, <2>4 DEF GoodLoop, GoodRecurrence
    <3>3. PICK k : TheOwn(st, k) /\ st.loads[k] = ld
      BY <1>1, <3>1, <3>2, OwnIs
    <3>4. ld \in LoadsOf(st) /\ ld.arr = a
      BY <1>1, <3>1 DEF OwnOf, OthersOf
    <3>5. LoadValue(A, ld, N, i) = A[a][j]
      BY <3>1, <3>4, OwnReads
    <3>6. LoadValue(S.mem, ld, N, i) = S.mem[a][j]
      BY <3>1, <3>4, OwnReads
    <3>7. OwnOff(st, k, A, S.mem, N, i, R)
      BY <2>1, <3>3, <3>5, <3>6 DEF OwnOff
    <3>8. StoreValue(A, st, N, i) = StoreValue(S.mem, st, N, i) + R
      <4> DEFINE m2 == S.mem
      <4>1. /\ p \in DOMAIN prog /\ s \in DOMAIN prog[p].body /\ N \in 1..MaxN /\ Counts(prog[p], N, i)
            /\ A \in Memories /\ m2 \in Memories /\ st = prog[p].body[s]
        BY <1>1
      <4>2. R \in Int /\ OwnOff(st, k, A, m2, N, i, R) /\ OthersSame(st, A, m2, N, i)
        BY <1>2, <2>1, <3>7
      <4> HIDE DEF A, st, i, a, R, m2
      <4>3. IsMore(StoreValue(A, st, N, i), StoreValue(m2, st, N, i), R)
        BY <4>1, <4>2, ValueOff
      <4> QED
        BY <4>3 DEF m2, IsMore
    <3> QED
      BY <2>2, <3>8
  <2> QED
    BY <2>3, <2>4
<1> QED
  BY <1>6, <1>7

(* A scalar that is added to stays as far ahead of P_N as it is. *)
LEMMA OwnScalar ==
  ASSUME Plain, NEW N, NEW p, NEW s, NEW d, NEW v, NEW S0, NEW S, Running(N, p, s, d, v, S0, S), Arr(p, s) \in Static
  PROVE  /\ StoreValue(At(N, p, N - 1, s - 1), St(p, s), N, N - 1) \in Int /\ StoreValue(S.mem, St(p, s), N, N - 1) \in Int
         /\ At(N, p, N - 1, s - 1)[Arr(p, s)][0] \in Int /\ S.mem[Arr(p, s)][0] \in Int
         /\ Accumulates(St(p, s)) =>
              IsMore(StoreValue(At(N, p, N - 1, s - 1), St(p, s), N, N - 1), StoreValue(S.mem, St(p, s), N, N - 1),
                     At(N, p, N - 1, s - 1)[Arr(p, s)][0] - S.mem[Arr(p, s)][0])
         /\ ~Accumulates(St(p, s)) =>
              StoreValue(At(N, p, N - 1, s - 1), St(p, s), N, N - 1) = StoreValue(S.mem, St(p, s), N, N - 1)
<1> DEFINE A == At(N, p, N - 1, s - 1)  i == N - 1  st == St(p, s)  a == Arr(p, s)  g == A[a][0] - S.mem[a][0]  m2 == S.mem
<1>1. /\ p \in DOMAIN prog /\ s \in DOMAIN prog[p].body /\ N \in 1..MaxN /\ Counts(prog[p], N, i)
      /\ A \in Memories /\ m2 \in Memories /\ st \in Stores /\ st = prog[p].body[s] /\ st.arr = a /\ a \in Arrays
      /\ GoodLoop(p, s, d, v)
  BY RunningIs DEF Running
<1>2. OthersSame(st, A, m2, N, i)
  BY AllOthersSame
<1>3. 0 \in Cells
  BY MaxNAssumption DEF Cells
<1>4. A[a][0] \in Int /\ m2[a][0] \in Int
  BY <1>1, <1>3 DEF Memories
<1>5. StoreValue(A, st, N, i) \in Int /\ StoreValue(m2, st, N, i) \in Int
  <2> HIDE DEF A, st, i, a, m2
  <2>1. StoreValue(A, st, N, i) \in Int
    BY <1>1, StoreValueIs
  <2>2. StoreValue(m2, st, N, i) \in Int
    BY <1>1, StoreValueIs
  <2> QED
    BY <2>1, <2>2
<1>6. ASSUME Accumulates(st) PROVE IsMore(StoreValue(A, st, N, i), StoreValue(m2, st, N, i), g)
  <2>1. AddsTo(st)
    BY <1>1, <1>6 DEF GoodLoop, GoodSum
  <2>2. PICK k : TheOwn(st, k)
    BY <1>1, <2>1, AddsToIs
  <2>3. st.loads[k] \in LoadsOf(st) /\ st.loads[k].arr = a /\ st.loads[k].arr \in Static
    BY <1>1, <2>2 DEF TheOwn, LoadsOf
  <2>4. LoadValue(A, st.loads[k], N, i) = A[a][0]
    BY <2>3, OwnReads
  <2>5. LoadValue(m2, st.loads[k], N, i) = m2[a][0]
    BY <2>3, OwnReads
  <2>6. g \in Int /\ OwnOff(st, k, A, m2, N, i, g)
    <3>1. g \in Int /\ A[a][0] = m2[a][0] + g
      <4> DEFINE x == A[a][0]  y == m2[a][0]
      <4>1. g = x - y /\ x \in Int /\ y \in Int
        BY <1>4
      <4> HIDE DEF x, y, g
      <4>2. g \in Int /\ x = y + g
        BY <4>1
      <4> QED
        BY <4>2 DEF x, y
    <3> QED
      BY <2>2, <2>4, <2>5, <3>1 DEF OwnOff
  <2> HIDE DEF A, st, i, a, m2, g
  <2> QED
    BY <1>1, <1>2, <2>6, ValueOff
<1>7. ASSUME ~Accumulates(st) PROVE StoreValue(A, st, N, i) = StoreValue(m2, st, N, i)
  <2>1. OwnSame(st, A, m2, N, i)
    <3> SUFFICES ASSUME NEW l \in DOMAIN st.loads, st.loads[l].arr = st.arr PROVE FALSE
      BY DEF OwnSame
    <3>1. st.loads[l] \in OwnOf(st)
      BY DEF OwnOf, OthersOf, LoadsOf
    <3> QED
      BY <1>1, <1>7, <3>1 DEF Accumulates, IsStatic
  <2> HIDE DEF A, st, i, a, m2
  <2> QED
    BY <1>1, <1>2, <2>1, ValueAlike
<1> QED
  BY <1>4, <1>5, <1>6, <1>7

LEMMA OffsetKept == \A V, W, A, F, M : V \in Int /\ W \in Int /\ A \in Int /\ F \in Int /\ M = A + F /\ V = W + (A - M) => W = V + F
OBVIOUS

LEMMA ScalarStep ==
  ASSUME Plain, NEW N, NEW p, NEW s, NEW d, NEW v, NEW S0, NEW S, Running(N, p, s, d, v, S0, S),
         NEW T, RunOf(S, T, N, p, s, N - 1, d), NEW x \in Static
  PROVE  ScalarLike(T, S0, N, p, s, x)
<1> DEFINE A == At(N, p, N - 1, s - 1)  B == At(N, p, N - 1, s)  i == N - 1  st == St(p, s)  a == Arr(p, s)
           V == StoreValue(A, st, N, i)  W == StoreValue(S.mem, st, N, i)  F == Final(N - 1)[x][0] - Mem(N - 1)[p][x][0]
<1>1. /\ p \in DOMAIN prog /\ s \in DOMAIN prog[p].body /\ N \in 1..MaxN /\ Counts(prog[p], N, i)
      /\ A \in Memories /\ st \in Stores /\ st = prog[p].body[s] /\ st.arr = a /\ a \in Arrays /\ s \in Nat \ {0}
      /\ DOMAIN prog[p].body = 1..Len(prog[p].body) /\ Len(prog[p].body) \in Nat
      /\ ScalarLike(S, S0, N, p, s - 1, x) /\ x \in Arrays
  BY RunningIs, PlainIs, StaticAssumption DEF Running, Like
<1>2. /\ B[a][Index(a, i)] = V /\ B = Assigned(A, a, i, V)
  BY <1>1, Stage
<1>3. F \in Int
  <2>1. N - 1 \in 1..MaxN /\ p \in 0..Len(prog) /\ N \in 2..MaxN
    BY RunningIs DEF Running
  <2>2. Final(N - 1) \in Memories /\ Mem(N - 1)[p] \in Memories /\ 0 \in Cells
    <3>1. Final(N - 1) \in Memories
      BY <2>1, FinalType
    <3>2. Mem(N - 1)[p] \in Memories
      BY <2>1, MemIs
    <3> QED
      BY <3>1, <3>2, MaxNAssumption DEF Cells
  <2> QED
    BY <1>1, <2>2 DEF Memories
<1> HIDE DEF F
<1>4. CASE x # a
  <2>1. T.mem[x] = S.mem[x]
    BY <1>1, <1>4 DEF RunOf
  <2>2. B[x] = A[x]
    BY <1>1, <1>2, <1>4, AssignedElsewhere
  <2>3. (\E q \in 1..s : prog[p].body[q].arr = x /\ ~Accumulates(prog[p].body[q]))
        => (\E q \in 1..(s - 1) : prog[p].body[q].arr = x /\ ~Accumulates(prog[p].body[q]))
    <3> SUFFICES ASSUME NEW q \in 1..s, prog[p].body[q].arr = x PROVE q \in 1..(s - 1)
      BY <1>1
    <3>1. q # s
      BY <1>1, <1>4
    <3> QED
      BY <1>1, <3>1
  <2> QED
    BY <1>1, <2>1, <2>2, <2>3 DEF ScalarLike
<1>5. CASE x = a
  <2>1. V \in Int /\ W \in Int /\ A[a][0] \in Int /\ S.mem[a][0] \in Int
    BY <1>5, OwnScalar
  <2>2. Index(a, i) = 0
    BY <1>5 DEF Index, IsStatic
  <2>3. T.mem[x][0] = W /\ B[x][0] = V
    <3>1. OwnDifference(p, s, d, N, T.regs) = 0
      BY <1>1, <1>5 DEF OwnDifference, Recurs, IsStatic
    <3>2. T.mem[a][0] = W + 0
      BY <2>2, <3>1 DEF RunOf
    <3>3. W + 0 = W
      <4> HIDE DEF W
      <4> QED
        BY <2>1
    <3> QED
      BY <1>2, <1>5, <2>2, <3>2, <3>3
  <2>4. x \in Written(prog[p])
    BY <1>1, <1>5 DEF Written
  <2>5. CASE Accumulates(st)
    <3>1. IsMore(V, W, A[a][0] - S.mem[a][0])
      BY <1>5, <2>5, OwnScalar
    <3>2. ASSUME AllAdd(p, x) PROVE T.mem[x][0] = B[x][0] + F
      <4>1. S.mem[a][0] = A[a][0] + F
        BY <1>1, <1>5, <2>4, <3>2 DEF ScalarLike, F
      <4>2. W = V + F
        <5> DEFINE y == A[a][0]  z == S.mem[a][0]
        <5>1. V = W + (y - z) /\ z = y + F /\ y \in Int
          BY <2>1, <3>1, <4>1 DEF IsMore
        <5> HIDE DEF y, z, V, W
        <5> QED
          BY <1>3, <2>1, <5>1, OffsetKept
      <4> QED
        BY <2>3, <4>2
    <3>3. ASSUME \E q \in 1..s : prog[p].body[q].arr = x /\ ~Accumulates(prog[p].body[q]) PROVE T.mem[x][0] = B[x][0]
      <4>1. PICK q \in 1..s : prog[p].body[q].arr = x /\ ~Accumulates(prog[p].body[q])
        BY <3>3
      <4>2. q \in 1..(s - 1)
        <5>1. q # s
          BY <1>1, <2>5, <4>1
        <5> QED
          BY <1>1, <5>1
      <4>3. S.mem[a][0] = A[a][0]
        BY <1>1, <1>5, <4>1, <4>2 DEF ScalarLike
      <4>4. V = W
        <5> DEFINE y == A[a][0]
        <5>1. V = W + (y - y) /\ y \in Int
          BY <2>1, <3>1, <4>3 DEF IsMore
        <5> HIDE DEF y, V, W
        <5> QED
          BY <2>1, <5>1
      <4> QED
        BY <2>3, <4>4
    <3> QED
      BY <2>4, <3>2, <3>3 DEF ScalarLike, F
  <2>6. CASE ~Accumulates(st)
    <3>1. V = W
      BY <1>5, <2>6, OwnScalar
    <3>2. ~AllAdd(p, x)
      BY <1>1, <1>5, <2>6 DEF AllAdd
    <3> QED
      BY <2>3, <2>4, <3>1, <3>2 DEF ScalarLike
  <2> QED
    BY <2>5, <2>6
<1> QED
  BY <1>4, <1>5

LEMMA RegistersStep ==
  ASSUME Plain, NEW N, NEW p, NEW s, NEW d, NEW v, NEW S0, NEW S, Running(N, p, s, d, v, S0, S),
         NEW T, RunOf(S, T, N, p, s, N - 1, d)
  PROVE  RegsAgree(T.regs, S0.regs, p) /\ \A q \in 1..s : ReadLike(T, N, p, q)
<1> DEFINE i == N - 1  st == St(p, s)
<1>1. /\ p \in DOMAIN prog /\ s \in DOMAIN prog[p].body /\ st = prog[p].body[s] /\ s \in Nat \ {0}
      /\ DOMAIN prog[p].body = 1..Len(prog[p].body) /\ Len(prog[p].body) \in Nat /\ Like(S, S0, N, p, s - 1)
  BY RunningIs, PlainIs DEF Running
<1>2. RegsAgree(T.regs, S0.regs, p)
  BY <1>1 DEF RunOf, RegsAgree, Like
<1>3. ReadLike(T, N, p, s)
  <2> SUFFICES ASSUME NEW l \in DOMAIN st.loads, st.loads[l].arr # st.arr
               PROVE  T.regs[<<p, s, l>>] = LoadValue(At(N, p, i, s - 1), st.loads[l], N, i)
    BY <1>1 DEF ReadLike
  <2>1. T.regs[<<p, s, l>>] = LoadValue(S.mem, st.loads[l], N, i)
    BY DEF RunOf
  <2>2. LoadValue(At(N, p, i, s - 1), st.loads[l], N, i) = LoadValue(S.mem, st.loads[l], N, i)
    BY AllOthersSame DEF OthersSame
  <2> QED
    BY <2>1, <2>2
<1>4. ASSUME NEW q \in 1..(s - 1) PROVE ReadLike(T, N, p, q)
  <2>1. q \in DOMAIN prog[p].body /\ q # s
    BY <1>1
  <2>2. \A l \in DOMAIN prog[p].body[q].loads : T.regs[<<p, q, l>>] = S.regs[<<p, q, l>>]
    <3> SUFFICES ASSUME NEW l \in DOMAIN prog[p].body[q].loads PROVE T.regs[<<p, q, l>>] = S.regs[<<p, q, l>>]
      OBVIOUS
    <3>1. <<p, q, l>> \in AllLoads
      BY <1>1, <2>1, LoadsHave
    <3>2. <<p, q, l>>[1] = p /\ <<p, q, l>>[2] = q
      OBVIOUS
    <3> QED
      BY <2>1, <3>1, <3>2 DEF RunOf
  <2>3. ReadLike(S, N, p, q)
    BY <1>1 DEF Like
  <2> QED
    BY <2>2, <2>3 DEF ReadLike
<1>5. \A q \in 1..s : q = s \/ q \in 1..(s - 1)
  BY <1>1
<1> QED
  BY <1>2, <1>3, <1>4, <1>5

(* A store of a loop, with what is left in its place. *)
LEMMA LikeStep ==
  ASSUME Plain, NEW N, NEW p, NEW s, NEW d, NEW v, NEW S0, NEW S, Running(N, p, s, d, v, S0, S), d \in DiffsTo(p - 1),
         NEW is, PlacedFor(p, s, d, is)
  PROVE  Like(Exec(prog, S, is, N), S0, N, p, s)
<1> DEFINE T == Exec(prog, S, is, N)  i == N - 1  st == St(p, s)  a == Arr(p, s)  A == At(N, p, i, s - 1)  B == At(N, p, i, s)
           V == StoreValue(A, st, N, i)
<1>1. /\ N \in 2..MaxN /\ p \in DOMAIN prog /\ prog[p].loop /\ s \in DOMAIN prog[p].body /\ N \in 1..MaxN /\ Counts(prog[p], N, i)
      /\ A \in Memories /\ st \in Stores /\ st = prog[p].body[s] /\ st.arr = a /\ a \in Arrays /\ s \in Nat \ {0}
      /\ Like(S, S0, N, p, s - 1) /\ i \in Cells
  BY RunningIs DEF Running
<1>2. RunOf(S, T, N, p, s, i, d)
  <2>1. S \in States /\ Counter(p, N) = i
    BY <1>1 DEF Like, Counter
  <2>2. RunOf(S, Exec(prog, S, is, N), N, p, s, Counter(p, N), d)
    BY <1>1, <2>1, RunPlaced
  <2> QED
    BY <2>1, <2>2
<1> HIDE DEF T
<1>3. RegsAgree(T.regs, S0.regs, p) /\ \A q \in 1..s : ReadLike(T, N, p, q)
  BY <1>2, RegistersStep
<1>4. \A x \in Static : ScalarLike(T, S0, N, p, s, x)
  BY <1>2, ScalarStep
<1>5. B[a][Index(a, i)] = V /\ B = Assigned(A, a, i, V)
  BY <1>1, Stage
<1>6. ASSUME NEW b \in Arrays \ Static PROVE T.mem[b][i] = B[b][i]
  <2>1. CASE b # a
    <3>1. T.mem[b] = S.mem[b] /\ B[b] = A[b]
      BY <1>1, <1>2, <1>5, <2>1, AssignedElsewhere DEF RunOf
    <3> QED
      BY <1>1, <3>1 DEF Like
  <2>2. CASE b = a
    <3>1. Index(a, i) = i
      BY <2>2 DEF Index, IsStatic
    <3>2. T.mem[a][i] = StoreValue(S.mem, st, N, i) + OwnDifference(p, s, d, N, T.regs)
      BY <1>2, <3>1 DEF RunOf
    <3>3. V = StoreValue(S.mem, st, N, i) + OwnDifference(p, s, d, N, T.regs)
      BY <1>3, <2>2, OwnElement
    <3> QED
      BY <1>5, <2>2, <3>1, <3>2, <3>3
  <2> QED
    BY <2>1, <2>2
<1>7. ASSUME NEW b \in Arrays \ Static, NEW j \in 0..(N - 2) PROVE T.mem[b][j] = S0.mem[b][j]
  <2>1. S.mem[b][j] = S0.mem[b][j]
    BY <1>1 DEF Like
  <2>2. CASE b # a
    BY <1>2, <2>1, <2>2 DEF RunOf
  <2>3. CASE b = a
    <3>1. Index(a, i) = i /\ j \in Cells /\ j # i
      <4>1. Index(a, i) = i
        BY <2>3 DEF Index, IsStatic
      <4>2. j \in Cells /\ j # i
        BY <1>1, MaxNAssumption DEF Cells
      <4> QED
        BY <4>1, <4>2
    <3>2. T.mem[a][j] = S.mem[a][j]
      BY <1>2, <3>1 DEF RunOf
    <3> QED
      BY <2>1, <2>3, <3>2
  <2> QED
    BY <2>2, <2>3
<1>8. T \in States
  BY <1>2 DEF RunOf
<1> QED
  <2> HIDE DEF B, A, st, a, V
  <2> QED
    BY <1>3, <1>4, <1>6, <1>7, <1>8 DEF Like, RegsAgree, T, B

-----------------------------------------------------------------------------
(***************************************************************************)
(* A loop, with what the pass inserts before it.                          *)
(***************************************************************************)

(* A loop whose stores all have what the difference function needs. *)
LoopReady(p, d, v) ==
  /\ p \in DOMAIN prog /\ prog[p].loop /\ d \in Diffs /\ d \in DiffsTo(p - 1)
  /\ \A s \in DOMAIN prog[p].body : GoodLoop(p, s, d, v)

AllPlaced(p, d, pl) ==
  /\ DOMAIN pl = DOMAIN prog[p].body
  /\ \A s \in DOMAIN prog[p].body : PlacedFor(p, s, d, pl[s])

LEMMA LoopRuns ==
  ASSUME Plain, NEW N \in 2..MaxN, NEW p, NEW d, NEW v, LoopReady(p, d, v), NEW S0, Agrees(S0, d, v, p - 1, N),
         NEW S, Like(S, S0, N, p, 0), NEW X, NEW pl \in Seq(Seq(X)), AllPlaced(p, d, pl)
  PROVE  Like(Exec(prog, S, FlattenSeq(pl), N), S0, N, p, Len(prog[p].body))
<1> DEFINE n == Len(prog[p].body)
<1>1. p \in DOMAIN prog /\ DOMAIN prog[p].body = 1..n /\ n \in Nat
  BY PlainIs DEF LoopReady
<1>2. Len(pl) = n
  <2>1. DOMAIN pl = 1..Len(pl) /\ Len(pl) \in Nat
    OBVIOUS
  <2> QED
    BY <1>1, <2>1 DEF AllPlaced
<1>a. PICK run : Pieces(run, S, pl, N)
  BY ExecFlat
<1>3. /\ run[0] = S /\ Exec(prog, S, FlattenSeq(pl), N) = run[Len(pl)]
      /\ \A k \in 1..Len(pl) : run[k] = Exec(prog, run[k - 1], pl[k], N)
  BY <1>a DEF Pieces
<1> DEFINE Good == {k \in 0..n : Like(run[k], S0, N, p, k)}
<1>4. 0 \in Good
  BY <1>1, <1>3
<1>5. ASSUME NEW k \in 0..(n - 1), k \in Good PROVE k + 1 \in Good
  <2> DEFINE s == k + 1
  <2>1. s \in DOMAIN prog[p].body /\ s - 1 = k /\ s \in 1..n /\ s \in 0..n
    <3>1. DOMAIN prog[p].body = 1..n /\ n \in Nat /\ k \in 0..(n - 1)
      BY <1>1
    <3> HIDE DEF n
    <3> QED
      BY <3>1
  <2>2. run[s] = Exec(prog, run[k], pl[s], N)
    BY <1>2, <1>3, <2>1
  <2>3. Like(run[k], S0, N, p, s - 1)
    BY <1>5, <2>1
  <2> HIDE DEF s
  <2>4. Running(N, p, s, d, v, S0, run[k])
    BY <2>1, <2>3 DEF Running, LoopReady
  <2>5. d \in DiffsTo(p - 1) /\ PlacedFor(p, s, d, pl[s])
    BY <2>1 DEF LoopReady, AllPlaced
  <2>6. Like(Exec(prog, run[k], pl[s], N), S0, N, p, s)
    BY <2>4, <2>5, LikeStep
  <2> QED
    BY <2>1, <2>2, <2>6 DEF s
<1> HIDE DEF Good
<1>6. 0..n \subseteq Good
  BY <1>1, <1>4, <1>5, SetInduction
<1>7. n \in Good
  BY <1>1, <1>6
<1> QED
  BY <1>2, <1>3, <1>7 DEF Good

-----------------------------------------------------------------------------
(* What the pass inserts before a loop adds to the scalars its stores add to. *)
DoneGains(p, x, d, N, regs, D) ==
  [s \in DOMAIN prog[p].body |-> IF prog[p].body[s].arr = x /\ s \in D THEN Gain(prog[p].body[s], d, N, regs) ELSE 0]

Inserted(S, T, p, d, N, D) ==
  /\ T \in States /\ T.regs = S.regs
  /\ \A b \in Arrays : b \notin Static \/ b \notin Written(prog[p]) => T.mem[b] = S.mem[b]
  /\ \A x \in Static : AllAdd(p, x) =>
       T.mem[x][0] = S.mem[x][0] + (N - 1) * Sum(DoneGains(p, x, d, N, S.regs, D))

Inserts(pre, p, d, D) ==
  \A N \in 2..MaxN, S \in States : Inserted(S, Exec(prog, S, pre, N), p, d, N, D)

LEMMA DoneGainsAll ==
  ASSUME NEW p, NEW x, NEW d, NEW N, NEW regs
  PROVE  DoneGains(p, x, d, N, regs, DOMAIN prog[p].body) = Gains(p, x, d, N, regs)
BY DEF DoneGains, Gains

LEMMA Ahead == \A x0, M, F, M1, B, T : /\ x0 \in Int /\ M \in Int /\ F \in Int /\ M1 \in Int /\ B \in Int /\ T \in Int
                                        /\ B - M1 = (x0 - M) + T
                                        => (x0 + (F - M)) + T = B + (F - M1)
OBVIOUS

LEMMA Times == \A n \in Int, T \in Int : n * T \in Int /\ n * 0 = 0 /\ n - 0 = n
OBVIOUS

(* What a scalar that is only added to grows by in the iterations both have. *)
LEMMA AddsAlike ==
  ASSUME Plain, NEW N \in 2..MaxN, NEW p, NEW d, NEW v, LoopReady(p, d, v), NEW regs \in Registers, DiffsHold(d, v, p - 1, N, regs),
         NEW x \in Static, AllAdd(p, x)
  PROVE  /\ \A s \in DOMAIN prog[p].body : prog[p].body[s].arr = x => GoodSum(p, s, d, v)
         /\ x \in Written(prog[p]) => ~RestartedBy(x, p - 1)
         /\ Begins(N, p, N - 1)[x][0] \in Int /\ Mem(N - 1)[p][x][0] \in Int /\ Grown(N, p - 1, x, 0) \in Int
         /\ Sum(Gains(p, x, d, N, regs)) \in Int
         /\ Begins(N, p, N - 1)[x][0] - Mem(N - 1)[p][x][0] = Grown(N, p - 1, x, 0) + (N - 1) * Sum(Gains(p, x, d, N, regs))
<1> DEFINE q == p - 1  M == N - 1  T == Sum(Gains(p, x, d, N, regs))  B == Begins(N, p, M)[x][0]  y1 == Mem(M)[p][x][0]
<1>1. /\ p \in DOMAIN prog /\ prog[p].loop /\ d \in Diffs /\ M \in Int /\ x \in Arrays /\ prog[p].first \in {0, 1}
  <2>1. p \in DOMAIN prog /\ prog[p].loop /\ d \in Diffs
    BY DEF LoopReady
  <2> QED
    BY <2>1, PlainIs, StaticAssumption
<1>2. \A s \in DOMAIN prog[p].body : prog[p].body[s].arr = x => GoodSum(p, s, d, v)
  BY DEF LoopReady, GoodLoop, AllAdd
<1>3. Collects(p, x, d, v)
  BY <1>1, <1>2 DEF Collects, GoodSum
<1>4. x \in Written(prog[p]) => ~RestartedBy(x, q)
  BY <1>2 DEF GoodSum, Written
<1>5. Recording(N, p, d, v, regs)
  BY <1>1 DEF Recording
<1>6. /\ B \in Int /\ y1 \in Int /\ Grown(N, q, x, 0) \in Int /\ T \in Int
      /\ B - y1 = Grown(N, q, x, 0) + (M - prog[p].first) * T
  BY <1>1, <1>3, <1>5, LoopCollects
<1>7. prog[p].first = 1 => T = 0
  <2> SUFFICES ASSUME prog[p].first = 1 PROVE T = 0
    OBVIOUS
  <2> DEFINE u == Gains(p, x, d, N, regs)  n == Len(prog[p].body)
  <2>1. DOMAIN prog[p].body = 1..n /\ n \in Nat
    BY <1>1, PlainIs
  <2>2. DOMAIN u = 1..n
    BY <2>1 DEF Gains
  <2>3. ASSUME NEW k \in 1..n PROVE u[k] = 0
    <3>1. k \in DOMAIN prog[p].body
      BY <2>1
    <3>2. prog[p].body[k].arr = x => Gain(prog[p].body[k], d, N, regs) = 0
      BY <1>1, <1>2, <3>1 DEF GoodSum, NeverGains
    <3> QED
      BY <3>1, <3>2 DEF Gains
  <2> HIDE DEF u, n
  <2> QED
    BY <2>1, <2>2, <2>3, SumZero DEF u
<1>8. (M - prog[p].first) * T = M * T
  <2>1. CASE prog[p].first = 1
    BY <1>1, <1>7, <2>1, Times
  <2>2. CASE prog[p].first = 0
    BY <1>1, <2>2, Times
  <2> QED
    BY <1>1, <2>1, <2>2
<1> QED
  BY <1>2, <1>4, <1>6, <1>8

(* Before its last iteration, with what is inserted before the loop. *)
LEMMA ScalarBegins ==
  ASSUME Plain, NEW N \in 2..MaxN, NEW p, NEW d, NEW v, LoopReady(p, d, v), NEW S0, Agrees(S0, d, v, p - 1, N),
         NEW S, Inserted(S0, S, p, d, N, DOMAIN prog[p].body), NEW x \in Static
  PROVE  ScalarLike(S, S0, N, p, 0, x)
<1> DEFINE q == p - 1  M == N - 1  T == Sum(Gains(p, x, d, N, S0.regs))  F == Final(M)[x][0]  B == Begins(N, p, M)[x][0]
           x0 == Mem(N)[q][x][0]  y0 == Mem(M)[q][x][0]  y1 == Mem(M)[p][x][0]
<1>1. /\ p \in DOMAIN prog /\ prog[p].loop /\ N \in 1..MaxN /\ M \in 1..MaxN /\ M \in Int
      /\ Counts(prog[p], N, M) /\ x \in Arrays /\ q \in 0..Len(prog) /\ S0 \in States /\ S0.regs \in Registers /\ 0 \in Cells
  <2>1. p \in DOMAIN prog /\ prog[p].loop
    BY DEF LoopReady
  <2>2. Counts(prog[p], N, M) /\ N \in 1..MaxN /\ M \in 1..MaxN /\ M \in Int /\ 0 \in Cells
    BY <2>1, CounterIs DEF Counter
  <2>3. q \in 0..Len(prog)
    BY <2>1, <2>2, MemIs
  <2> QED
    BY <2>1, <2>2, <2>3, StaticAssumption DEF Agrees, States
<1>2. CASE x \notin Written(prog[p])
  BY <1>1, <1>2 DEF Inserted, ScalarLike
<1>3. CASE x \in Written(prog[p])
  <2>1. ASSUME AllAdd(p, x) PROVE S.mem[x][0] = At(N, p, M, 0)[x][0] + (F - y1)
    <3>1. DiffsHold(d, v, p - 1, N, S0.regs)
      BY DEF Agrees
    <3>2. /\ B \in Int /\ y1 \in Int /\ T \in Int /\ B - y1 = Grown(N, q, x, 0) + M * T
          /\ ~RestartedBy(x, q)
      BY <1>1, <1>3, <2>1, <3>1, AddsAlike
    <3>3. S.mem[x][0] = S0.mem[x][0] + M * T
      BY <2>1, DoneGainsAll DEF Inserted
    <3>4. S0.mem[x][0] = x0 + (F - y0)
      BY <3>2 DEF Agrees, Behind
    <3>5. x0 \in Int /\ y0 \in Int /\ F \in Int
      <4>1. Mem(N)[q] \in Memories
        BY <1>1, MemIs
      <4>2. Mem(M)[q] \in Memories
        BY <1>1, MemIs
      <4>3. Final(M) \in Memories
        BY FinalType
      <4> QED
        BY <1>1, <4>1, <4>2, <4>3 DEF Memories
    <3>6. S.mem[x][0] = B + (F - y1)
      <4>1. B - y1 = (x0 - y0) + M * T
        BY <3>2 DEF Grown
      <4> DEFINE W == M * T
      <4>2. W \in Int
        BY <1>1, <3>2, Times
      <4>3. S.mem[x][0] = (x0 + (F - y0)) + W
        BY <3>3, <3>4
      <4> HIDE DEF W, B, F, x0, y0, y1
      <4> QED
        BY <3>2, <3>5, <4>1, <4>2, <4>3, Ahead DEF W
    <3>7. At(N, p, M, 0) = Begins(N, p, M)
      BY <1>1, AtIs
    <3> QED
      BY <3>6, <3>7
  <2> QED
    BY <1>3, <2>1 DEF ScalarLike
<1> QED
  BY <1>2, <1>3

LEMMA LikeBegins ==
  ASSUME Plain, NEW N \in 2..MaxN, NEW p, NEW d, NEW v, LoopReady(p, d, v), NEW S0, Agrees(S0, d, v, p - 1, N),
         NEW S, Inserted(S0, S, p, d, N, DOMAIN prog[p].body)
  PROVE  Like(S, S0, N, p, 0)
<1> DEFINE M == N - 1
<1>1. /\ p \in DOMAIN prog /\ prog[p].loop /\ N \in 1..MaxN /\ M \in Cells /\ Counts(prog[p], N, M) /\ M \in prog[p].first..N
  <2>1. p \in DOMAIN prog /\ prog[p].loop
    BY DEF LoopReady
  <2>2. Counts(prog[p], N, M) /\ N \in 1..MaxN /\ M \in Cells /\ prog[p].first \in {0, 1} /\ N \in Int
    BY <2>1, CounterIs, PlainIs DEF Counter
  <2> QED
    BY <2>1, <2>2 DEF Counts
<1>2. ASSUME NEW a \in Arrays \ Static PROVE S.mem[a] = S0.mem[a]
  BY DEF Inserted
<1>3. ASSUME NEW a \in Arrays \ Static PROVE S.mem[a][M] = At(N, p, M, 0)[a][M]
  <2>1. Begins(N, p, M)[a][M] = Mem(N)[p - 1][a][M]
    <3>1. ~(M < M)
      BY <1>1 DEF Counts
    <3>2. Begins(N, p, M)[a][M] = IF M < M THEN Mem(N)[p][a][M] ELSE Mem(N)[p - 1][a][M]
      <4> HIDE DEF M
      <4> QED
        BY <1>1, LoopElement
    <3> QED
      BY <3>1, <3>2
  <2>2. At(N, p, M, 0) = Begins(N, p, M)
    BY <1>1, AtIs
  <2>3. S0.mem[a][M] = Mem(N)[p - 1][a][M]
    BY DEF Agrees
  <2> QED
    BY <1>2, <2>1, <2>2, <2>3
<1>4. \A x \in Static : ScalarLike(S, S0, N, p, 0, x)
  BY ScalarBegins
<1>5. S \in States /\ \A r \in AllLoads : S.regs[r] = S0.regs[r]
  BY DEF Inserted
<1>6. \A q \in 1..0 : ReadLike(S, N, p, q)
  OBVIOUS
<1> QED
  BY <1>2, <1>3, <1>4, <1>5, <1>6 DEF Like

-----------------------------------------------------------------------------
(***************************************************************************)
(* What a loop is left with.                                              *)
(***************************************************************************)

(* What an exact store records: what it adds in the iterations, and for a scalar what it read in the last. *)
LastReads(p, s, regs) ==
  [l \in DOMAIN prog[p].body[s].loads |-> IF prog[p].body[s].loads[l].arr \in Static THEN 0 ELSE regs[<<p, s, l>>]]

Notes(p, s, d, N, regs) ==
  LET st == prog[p].body[s] IN
  IF st.arr \in Static THEN (N - 1) * Gain(st, d, N, regs) + Sum(LastReads(p, s, regs)) ELSE Gain(st, d, N, regs)

DoneNotes(p, a, d, N, regs, D) ==
  [s \in DOMAIN prog[p].body |-> IF prog[p].body[s].arr = a /\ s \in D THEN Notes(p, s, d, N, regs) ELSE 0]

ExactStore(p, s, d, v) ==
  LET st == prog[p].body[s] IN
  IF st.arr \in Static
  THEN Accumulates(st) /\ st.term = Zero /\ \A l \in OthersOf(st) : l.coef = 1 /\ l.arr \notin Static
  ELSE (Recurs(st) \/ NewArray(p, s, d, v)) /\ NeverGains(p, st, d)

Fresh(d, v, p) == \A a \in Arrays : ~StoredBy(a, p) => d[a] = <<>> /\ a \notin v

Records(p, d, d1, a, D) ==
  \A N \in 2..MaxN, regs \in Registers :
    Recorded(d1[a], N, regs) = Recorded(d[a], N, regs) + Sum(DoneNotes(p, a, d, N, regs, D))

Outside(p, d, v, d1, v1) ==
  v \subseteq v1 /\ \A a \in Arrays \ Written(prog[p]) : d1[a] = d[a] /\ (a \in v1 => a \in v)

(* What the pass has recorded when it leaves the loop. *)
LoopLeft(p, d, v, d1, v1) ==
  /\ LoopReady(p, d, v) /\ Fresh(d, v, p - 1) /\ Outside(p, d, v, d1, v1)
  /\ \A s \in DOMAIN prog[p].body : prog[p].body[s].arr \notin v1 => ExactStore(p, s, d, v)
  /\ \A a \in Written(prog[p]) \ v1 : Records(p, d, d1, a, DOMAIN prog[p].body)
  /\ prog[p].first = 1 => \A a \in (Arrays \ Static) \ v1 : d1[a] = d[a]

LEMMA LoopLeftIs ==
  ASSUME Plain, NEW p, NEW d, NEW v, NEW d1, NEW v1, LoopLeft(p, d, v, d1, v1)
  PROVE  /\ p \in DOMAIN prog /\ prog[p].loop /\ d \in Diffs /\ d \in DiffsTo(p - 1) /\ p \in Nat \ {0}
         /\ DOMAIN prog[p].body = 1..Len(prog[p].body) /\ Len(prog[p].body) \in Nat /\ prog[p].first \in {0, 1}
         /\ \A s \in DOMAIN prog[p].body : /\ GoodLoop(p, s, d, v) /\ prog[p].body[s] \in Stores /\ prog[p].body[s].arr \in Arrays
                                           /\ St(p, s) = prog[p].body[s] /\ Arr(p, s) = prog[p].body[s].arr
<1>1. p \in DOMAIN prog /\ prog[p].loop /\ d \in Diffs /\ d \in DiffsTo(p - 1)
  BY DEF LoopLeft, LoopReady
<1>2. \A s \in DOMAIN prog[p].body : GoodLoop(p, s, d, v)
  BY DEF LoopLeft, LoopReady
<1> QED
  BY <1>1, <1>2, PlainIs, StoreIs DEF Plain, St, Arr

(* The values recorded before the loop are worth the same after it. *)
LEMMA DiffsHoldKept ==
  ASSUME NEW p \in Int, NEW d \in DiffsTo(p - 1), NEW v, NEW N, NEW regs, NEW other, RegsAgree(regs, other, p),
         DiffsHold(d, v, p - 1, N, other)
  PROVE  DiffsHold(d, v, p - 1, N, regs)
<1>1. ASSUME NEW a \in Arrays PROVE Recorded(d[a], N, regs) = Recorded(d[a], N, other)
  <2>1. d[a] \in Seq(ValuesOver(LoadsTo(p - 1)))
    BY DEF DiffsTo
  <2> QED
    BY <2>1, RecordedBefore
<1> QED
  BY <1>1 DEF DiffsHold

(* An array an item stores has a last store in it. *)
LEMMA LastStore ==
  ASSUME Plain, NEW p \in DOMAIN prog, NEW a \in Written(prog[p])
  PROVE  \E s \in DOMAIN prog[p].body : prog[p].body[s].arr = a /\ NoStore(p, s + 1, Len(prog[p].body), a)
<1> DEFINE n == Len(prog[p].body)  T == {n - s : s \in {q \in 1..n : prog[p].body[q].arr = a}}
<1>1. DOMAIN prog[p].body = 1..n /\ n \in Nat
  BY PlainIs
<1>2. PICK q \in 1..n : prog[p].body[q].arr = a
  BY <1>1 DEF Written
<1> HIDE DEF n
<1>3. T \in SUBSET Nat /\ T # {}
  BY <1>1, <1>2
<1>4. PICK m \in T : \A k \in T : m <= k
  <2> HIDE DEF T
  <2> QED
    BY <1>3, LeastNatural
<1>5. PICK s \in 1..n : prog[p].body[s].arr = a /\ m = n - s
  OBVIOUS
<1>6. ASSUME NEW k \in (s + 1)..n, prog[p].body[k].arr = a PROVE FALSE
  <2>1. k \in 1..n /\ n - k \in T
    BY <1>1, <1>6
  <2>2. n - s <= n - k
    BY <1>4, <1>5, <2>1
  <2> QED
    BY <1>1, <1>5, <2>1, <2>2
<1> QED
  BY <1>1, <1>5, <1>6 DEF NoStore, n

(* The elements a loop leaves differ by what is recorded. *)
LEMMA ElementsDiffer ==
  ASSUME Plain, NEW N \in 2..MaxN, NEW p, NEW d, NEW v, NEW d1, NEW v1, LoopLeft(p, d, v, d1, v1),
         NEW regs \in Registers, DiffsHold(d, v, p - 1, N, regs),
         NEW a \in Arrays \ Static, a \in Written(prog[p]), a \notin v1, NEW i \in 0..(N - 2)
  PROVE  Grown(N, p, a, i) = Recorded(d1[a], N, regs)
<1> DEFINE n == Len(prog[p].body)
<1>1. /\ p \in DOMAIN prog /\ prog[p].loop /\ d \in Diffs /\ p \in Nat \ {0} /\ N \in Int
      /\ DOMAIN prog[p].body = 1..n /\ n \in Nat
  BY LoopLeftIs
<1>2. PICK s \in DOMAIN prog[p].body : prog[p].body[s].arr = a /\ NoStore(p, s + 1, n, a)
  BY <1>1, LastStore
<1>3. GoodLoop(p, s, d, v) /\ St(p, s) \in Stores /\ St(p, s) = prog[p].body[s] /\ Arr(p, s) = a
  BY <1>2, LoopLeftIs
<1>4. Recording(N, p, d, v, regs)
  BY <1>1 DEF Recording
<1>5. ExactStore(p, s, d, v)
  BY <1>2 DEF LoopLeft
<1>6. (Recurs(St(p, s)) \/ NewArray(p, s, d, v)) /\ NeverGains(p, St(p, s), d)
  BY <1>2, <1>3, <1>5 DEF ExactStore
<1>7. CASE Recurs(St(p, s))
  <2>1. /\ Recurrent(p, s, d, v) /\ FirstStores(p, s, d, v, N, regs) /\ prog[p].first = 1
    BY <1>1, <1>3, <1>7, RecursIs
  <2>2. d1[a] = d[a]
    BY <2>1 DEF LoopLeft
  <2>3. Grown(N, p, Arr(p, s), i) = Recorded(d[Arr(p, s)], N, regs)
    BY <1>4, <2>1, RecurGrows
  <2> QED
    BY <1>3, <2>2, <2>3
<1>8. CASE NewArray(p, s, d, v)
  <2> DEFINE u == DoneNotes(p, a, d, N, regs, DOMAIN prog[p].body)  G == Gain(St(p, s), d, N, regs)
  <2>1. NoGain(p, St(p, s), d, N, regs)
    BY <1>6 DEF NoGain, NeverGains
  <2>2. Grown(N, p, Arr(p, s), i) = G
    BY <1>2, <1>3, <1>4, <1>8, <2>1, ArrayGrows
  <2>3. ~EarlierAt(p, s, a)
    BY <1>2, <1>8 DEF NewArray
  <2>4. G \in Int
    BY <1>1, <1>3, GainType
  <2>5. d[a] = <<>>
    BY <2>3 DEF EarlierAt, LoopLeft, Fresh
  <2>6. u[s] = G /\ DOMAIN u = 1..n
    BY <1>1, <1>2, <1>3 DEF DoneNotes, Notes
  <2>7. ASSUME NEW k \in 1..n, k # s PROVE u[k] = 0
    <3>1. prog[p].body[k].arr # a
      <4>1. CASE k < s
        <5>1. k \in 1..(s - 1)
          BY <1>1, <4>1
        <5> QED
          BY <2>3, <5>1 DEF EarlierAt
      <4>2. CASE k > s
        <5>1. k \in (s + 1)..n
          BY <1>1, <4>2
        <5> QED
          BY <1>2, <5>1 DEF NoStore
      <4> QED
        BY <1>1, <2>7, <4>1, <4>2
    <3> QED
      BY <1>1, <3>1 DEF DoneNotes
  <2> HIDE DEF u, n, G
  <2>8. Numbers(u, n)
    BY <1>1, <2>4, <2>6, <2>7 DEF Numbers
  <2>9. Sum(u) = G
    BY <1>1, <2>6, <2>7, <2>8, SumAt
  <2>10. Recorded(d1[a], N, regs) = Recorded(d[a], N, regs) + Sum(u)
    BY DEF LoopLeft, Records, u
  <2>11. Recorded(d[a], N, regs) = 0
    BY <2>5, RecordedEmpty
  <2>12. Recorded(d1[a], N, regs) = G
    BY <2>4, <2>9, <2>10, <2>11
  <2> QED
    BY <1>3, <2>2, <2>12
<1> QED
  BY <1>6, <1>7, <1>8

LastOf(p, x, regs) ==
  [s \in DOMAIN prog[p].body |-> IF prog[p].body[s].arr = x THEN Sum(LastReads(p, s, regs)) ELSE 0]

LEMMA LastReadsAre ==
  ASSUME Plain, NEW p \in DOMAIN prog, NEW s \in DOMAIN prog[p].body, NEW regs \in Registers
  PROVE  Numbers(LastReads(p, s, regs), Len(prog[p].body[s].loads)) /\ Sum(LastReads(p, s, regs)) \in Int
<1> DEFINE st == prog[p].body[s]  u == LastReads(p, s, regs)  n == Len(st.loads)
<1>1. st \in Stores /\ DOMAIN st.loads = 1..n /\ n \in Nat
  BY PlainIs, StoreIs
<1>2. DOMAIN u = 1..n
  BY <1>1 DEF LastReads
<1>3. ASSUME NEW l \in 1..n PROVE u[l] \in Int
  <2>1. <<p, s, l>> \in AllLoads
    BY <1>1, LoadsHave
  <2>2. regs[<<p, s, l>>] \in Int
    BY <2>1 DEF Registers
  <2> QED
    BY <1>1, <2>2 DEF LastReads
<1> HIDE DEF u, n
<1>4. Numbers(u, n)
  BY <1>1, <1>2, <1>3 DEF Numbers
<1> QED
  BY <1>4, SumType DEF u, n

LEMMA ZeroTerm ==
  ASSUME NEW st, st.term = Zero, NEW N \in Int, NEW i \in Int
  PROVE  SignedTerm(st, N, i) = 0 /\ TermDifference(st.term, N) = 0
<1>1. \A M \in Int, k \in Int : TermValue(Zero, M, k) = 0
  BY DEF TermValue, Zero
<1>2. N - 1 \in Int
  OBVIOUS
<1> QED
  BY <1>1, <1>2 DEF SignedTerm, TermDifference

(* What an exact store adds to a scalar in the last iteration. *)
LEMMA LastStep ==
  ASSUME Plain, NEW N \in 2..MaxN, NEW p, NEW d, NEW v, NEW d1, NEW v1, LoopLeft(p, d, v, d1, v1),
         NEW s \in DOMAIN prog[p].body, NEW S \in States, ReadLike(S, N, p, s), Arr(p, s) \in Static, Arr(p, s) \notin v1
  PROVE  /\ At(N, p, N - 1, s - 1)[Arr(p, s)][0] \in Int
         /\ At(N, p, N - 1, s)[Arr(p, s)][0] = At(N, p, N - 1, s - 1)[Arr(p, s)][0] + Sum(LastReads(p, s, S.regs))
<1> DEFINE i == N - 1  st == St(p, s)  x == Arr(p, s)  A == At(N, p, i, s - 1)  n == Len(st.loads)
           y == A[x][0]  U == Reads(A, st, N, i)  L == LastReads(p, s, S.regs)
<1>1. /\ p \in DOMAIN prog /\ prog[p].loop /\ GoodLoop(p, s, d, v) /\ st \in Stores /\ st = prog[p].body[s] /\ st.arr = x
      /\ x \in Arrays /\ p \in Nat
  BY LoopLeftIs
<1>2. N \in 1..MaxN /\ Counts(prog[p], N, i) /\ N \in Int /\ i \in Int /\ 0 \in Cells
  BY <1>1, CounterIs DEF Counter, Counts
<1>3. A \in Memories /\ At(N, p, i, s)[x][Index(x, i)] = StoreValue(A, st, N, i)
  BY <1>1, <1>2, Stage
<1>4. Accumulates(st) /\ st.term = Zero /\ \A l \in OthersOf(st) : l.coef = 1 /\ l.arr \notin Static
  BY <1>1 DEF LoopLeft, ExactStore
<1>5. PICK k : TheOwn(st, k)
  BY <1>1, <1>4, AddsToIs DEF GoodLoop, GoodSum
<1>6. DOMAIN st.loads = 1..n /\ n \in Nat /\ k \in 1..n
  BY <1>1, <1>5, StoreIs DEF TheOwn
<1>7. y \in Int
  BY <1>1, <1>2, <1>3 DEF Memories
<1>8. S.regs \in Registers
  BY DEF States
<1>9. Numbers(L, n) /\ Sum(L) \in Int
  BY <1>1, <1>8, LastReadsAre
<1>10. Numbers(U, n) /\ StoreValue(A, st, N, i) = Sum(U) + SignedTerm(st, N, i)
  <2> HIDE DEF A, i, st, n
  <2> QED
    BY <1>1, <1>2, <1>3, StoreValueIs DEF n
<1> DEFINE O == [l \in 1..n |-> IF l = k THEN y ELSE 0]
<1>11. Numbers(O, n) /\ Sum(O) = y
  <2>1. OnlyAt(O, n, k, y)
    BY DEF OnlyAt
  <2> HIDE DEF O, n, y
  <2> QED
    BY <1>6, <1>7, <2>1, OnlyAtIs
<1>12. ASSUME NEW l \in 1..n PROVE U[l] = O[l] + L[l]
  <2> DEFINE ld == st.loads[l]
  <2>0. ld \in LoadsOf(st) /\ U[l] = ld.coef * LoadValue(A, ld, N, i)
    BY <1>6 DEF LoadsOf, Reads
  <2>1. LoadValue(A, ld, N, i) \in Int
    <3> HIDE DEF A, i, ld, st
    <3> QED
      BY <1>1, <1>2, <1>3, <2>0, WhereIs
  <2>2. CASE l = k
    <3>1. ld.arr = x /\ ld.coef = 1
      BY <1>1, <1>5, <2>2 DEF TheOwn
    <3>2. LoadValue(A, ld, N, i) = y
      <4>1. ld.idx # "last"
        BY <1>1, <2>0 DEF GoodLoop, GoodReads
      <4> HIDE DEF A, i, ld, st
      <4>2. ld.arr \in Static => LoadValue(A, ld, N, i) = A[ld.arr][0]
        BY <1>1, <1>2, <2>0, <4>1, ReadIs
      <4> QED
        BY <3>1, <4>2
    <3>3. L[l] = 0 /\ O[l] = y
      BY <1>1, <1>6, <2>2, <3>1 DEF LastReads
    <3>4. U[l] = 1 * y
      BY <2>0, <3>1, <3>2
    <3> HIDE DEF U, O, L, y
    <3> QED
      BY <1>7, <3>3, <3>4
  <2>3. CASE l # k
    <3>1. ld.arr # st.arr
      BY <1>5, <1>6, <2>3 DEF TheOwn
    <3>2. ld \in OthersOf(st)
      BY <2>0, <3>1 DEF OthersOf
    <3>3. ld.coef = 1 /\ ld.arr \notin Static
      BY <1>4, <3>2
    <3>4. S.regs[<<p, s, l>>] = LoadValue(A, ld, N, i)
      BY <1>1, <1>6, <3>1 DEF ReadLike
    <3>5. L[l] = LoadValue(A, ld, N, i) /\ O[l] = 0
      BY <1>1, <1>6, <2>3, <3>3, <3>4 DEF LastReads
    <3>6. U[l] = 1 * LoadValue(A, ld, N, i)
      BY <2>0, <3>3
    <3> HIDE DEF U, O, L, A, ld
    <3> QED
      BY <2>1, <3>5, <3>6
  <2> QED
    BY <2>2, <2>3
<1>13. Sum(U) = y + Sum(L)
  <2> HIDE DEF U, O, L, n
  <2>1. Plus(U, O, L, n)
    BY <1>9, <1>10, <1>11, <1>12 DEF Plus
  <2> QED
    BY <1>11, <2>1, SumPlus
<1>14. SignedTerm(st, N, i) = 0
  BY <1>2, <1>4, ZeroTerm
<1>15. Index(x, i) = 0
  BY DEF Index, IsStatic
<1>16. At(N, p, i, s)[x][0] = y + Sum(L)
  <2>1. At(N, p, i, s)[x][0] = Sum(U) + 0
    BY <1>3, <1>10, <1>14, <1>15
  <2> HIDE DEF U, L, y
  <2> QED
    BY <1>7, <1>9, <1>13, <2>1
<1> QED
  BY <1>7, <1>16

LEMMA LastAdds ==
  ASSUME Plain, NEW N \in 2..MaxN, NEW p, NEW d, NEW v, NEW d1, NEW v1, LoopLeft(p, d, v, d1, v1),
         NEW S \in States, \A s \in 1..Len(prog[p].body) : ReadLike(S, N, p, s), NEW x \in Static, x \notin v1
  PROVE  /\ Numbers(LastOf(p, x, S.regs), Len(prog[p].body)) /\ Sum(LastOf(p, x, S.regs)) \in Int
         /\ At(N, p, N - 1, Len(prog[p].body))[x][0] = At(N, p, N - 1, 0)[x][0] + Sum(LastOf(p, x, S.regs))
<1> DEFINE n == Len(prog[p].body)  u == LastOf(p, x, S.regs)  i == N - 1  f == [s \in 0..n |-> At(N, p, i, s)[x][0]]
<1>1. p \in DOMAIN prog /\ prog[p].loop /\ DOMAIN prog[p].body = 1..n /\ n \in Nat
  BY LoopLeftIs
<1>2. N \in 1..MaxN /\ Counts(prog[p], N, i) /\ N \in Int /\ i \in Int /\ 0 \in Cells /\ x \in Arrays
  BY <1>1, CounterIs, StaticAssumption DEF Counter, Counts
<1>3. S.regs \in Registers
  BY DEF States
<1>4. Numbers(u, n)
  <2>1. DOMAIN u = 1..n
    BY <1>1 DEF LastOf
  <2>2. ASSUME NEW s \in 1..n PROVE u[s] \in Int
    <3>1. Sum(LastReads(p, s, S.regs)) \in Int
      BY <1>1, <1>3, LastReadsAre
    <3> QED
      BY <1>1, <3>1 DEF LastOf
  <2> HIDE DEF u, n
  <2> QED
    BY <1>1, <2>1, <2>2 DEF Numbers
<1>5. f[0] \in Int
  <2>1. At(N, p, i, 0) \in Memories /\ 0 \in 0..n
    BY <1>1, <1>2, AtIs
  <2> QED
    BY <1>2, <2>1 DEF Memories
<1>6. ASSUME NEW s \in 1..n PROVE f[s] = f[s - 1] + u[s]
  <2>0. s \in DOMAIN prog[p].body /\ s \in 0..n /\ s - 1 \in 0..n
    BY <1>1
  <2>1. CASE prog[p].body[s].arr = x
    <3>1. Arr(p, s) = x
      BY <2>1 DEF Arr
    <3>2. At(N, p, i, s)[x][0] = At(N, p, i, s - 1)[x][0] + Sum(LastReads(p, s, S.regs))
      BY <2>0, <3>1, LastStep
    <3> QED
      BY <2>0, <2>1, <3>2 DEF LastOf
  <2>2. CASE prog[p].body[s].arr # x
    <3>1. At(N, p, i, s) = Assigned(At(N, p, i, s - 1), prog[p].body[s].arr, i, StoreValue(At(N, p, i, s - 1), prog[p].body[s], N, i))
          /\ At(N, p, i, s - 1) \in Memories
      BY <1>1, <1>2, <2>0, AtIs
    <3>2. At(N, p, i, s)[x] = At(N, p, i, s - 1)[x]
      <4> DEFINE a == prog[p].body[s].arr  m == At(N, p, i, s - 1)  w == StoreValue(m, prog[p].body[s], N, i)
      <4>1. a \in Arrays /\ a # x /\ m \in Memories /\ At(N, p, i, s) = Assigned(m, a, i, w)
        BY <2>0, <2>2, <3>1, LoopLeftIs
      <4> HIDE DEF a, m, w
      <4> QED
        BY <1>2, <4>1, AssignedElsewhere DEF m
    <3>3. u[s] = 0 /\ f[s - 1] \in Int
      BY <1>2, <2>0, <2>2, <3>1 DEF LastOf, Memories
    <3>4. f[s] = f[s - 1]
      BY <2>0, <3>2
    <3> HIDE DEF f, u
    <3> QED
      BY <3>3, <3>4
  <2> QED
    BY <2>1, <2>2
<1>7. Sum(u) \in Int /\ f[n] = f[0] + Sum(u)
  <2> HIDE DEF u, f, n
  <2> QED
    BY <1>4, <1>5, <1>6, Telescopes
<1>8. f[n] = At(N, p, i, n)[x][0] /\ f[0] = At(N, p, i, 0)[x][0]
  BY <1>1
<1> QED
  BY <1>4, <1>7, <1>8

LEMMA NotesAdd ==
  ASSUME Plain, NEW N \in 2..MaxN, NEW p \in DOMAIN prog, NEW d \in Diffs, NEW regs \in Registers, NEW x \in Static,
         Numbers(LastOf(p, x, regs), Len(prog[p].body))
  PROVE  Sum(DoneNotes(p, x, d, N, regs, DOMAIN prog[p].body))
           = Sum(LastOf(p, x, regs)) + (N - 1) * Sum(Gains(p, x, d, N, regs))
<1> DEFINE n == Len(prog[p].body)  M == N - 1  w == DoneNotes(p, x, d, N, regs, DOMAIN prog[p].body)
           u == LastOf(p, x, regs)  g == Gains(p, x, d, N, regs)
<1>1. DOMAIN prog[p].body = 1..n /\ n \in Nat /\ M \in Int /\ N \in Int
  BY PlainIs
<1>2. Numbers(g, n)
  BY <1>1, GainsAre
<1>3. DOMAIN w = 1..n
  BY <1>1 DEF DoneNotes
<1>4. ASSUME NEW k \in 1..n PROVE w[k] = u[k] + M * g[k]
  <2>1. k \in DOMAIN prog[p].body
    BY <1>1
  <2>2. CASE prog[p].body[k].arr = x
    <3>1. w[k] = M * Gain(prog[p].body[k], d, N, regs) + Sum(LastReads(p, k, regs))
      BY <2>1, <2>2 DEF DoneNotes, Notes
    <3>2. u[k] = Sum(LastReads(p, k, regs)) /\ g[k] = Gain(prog[p].body[k], d, N, regs)
      BY <2>1, <2>2 DEF LastOf, Gains
    <3>3. u[k] \in Int /\ M * g[k] \in Int
      <4>1. u[k] \in Int /\ g[k] \in Int
        BY <1>2 DEF Numbers
      <4> HIDE DEF u, g, M
      <4> QED
        BY <1>1, <4>1, Times
    <3> DEFINE y == M * g[k]
    <3>4. w[k] = y + u[k]
      BY <3>1, <3>2
    <3> HIDE DEF u, w, y
    <3>5. w[k] = u[k] + y
      BY <3>3, <3>4 DEF y
    <3> QED
      BY <3>5 DEF y
  <2>3. CASE prog[p].body[k].arr # x
    <3>1. w[k] = 0 /\ u[k] = 0 /\ g[k] = 0
      BY <2>1, <2>3 DEF DoneNotes, LastOf, Gains
    <3> HIDE DEF u, w, g, M
    <3>2. M * 0 = 0
      BY <1>1, Times
    <3> QED
      BY <3>1, <3>2
  <2> QED
    BY <2>2, <2>3
<1>5. Numbers(w, n)
  <2>1. ASSUME NEW k \in 1..n PROVE w[k] \in Int
    <3>1. u[k] \in Int /\ g[k] \in Int
      BY <1>2 DEF Numbers
    <3>2. M * g[k] \in Int
      <4> HIDE DEF g, M
      <4> QED
        BY <1>1, <3>1, Times
    <3> DEFINE y == M * g[k]
    <3>3. w[k] = u[k] + y
      BY <1>4
    <3> HIDE DEF u, w, y
    <3> QED
      BY <3>1, <3>2, <3>3 DEF y
  <2> HIDE DEF w, n
  <2> QED
    BY <1>1, <1>3, <2>1 DEF Numbers
<1> HIDE DEF u, w, g, M, n
<1>6. Sum(w) = Sum(u) + M * Sum(g)
  BY <1>1, <1>2, <1>4, <1>5, SumLinear DEF u, n
<1> QED
  BY <1>6 DEF w, u, g, M

LEMMA AddedUp == \A B, y1, G, T, L, m, R : /\ B \in Int /\ y1 \in Int /\ G \in Int /\ T \in Int /\ L \in Int
                                          /\ B - y1 = G + T /\ m = B + L /\ R = G + (L + T)
                                          => m - y1 = R
OBVIOUS

(* The scalars an exact loop leaves differ by what is recorded. *)
LEMMA ScalarsDiffer ==
  ASSUME Plain, NEW N \in 2..MaxN, NEW p, NEW d, NEW v, NEW d1, NEW v1, LoopLeft(p, d, v, d1, v1),
         NEW S \in States, \A s \in 1..Len(prog[p].body) : ReadLike(S, N, p, s), DiffsHold(d, v, p - 1, N, S.regs),
         NEW x \in Static, x \in Written(prog[p]), x \notin v1
  PROVE  Grown(N, p, x, 0) = Recorded(d1[x], N, S.regs)
<1> DEFINE q == p - 1  M == N - 1  T == Sum(Gains(p, x, d, N, S.regs))  B == Begins(N, p, M)[x][0]  y1 == Mem(M)[p][x][0]
           L == Sum(LastOf(p, x, S.regs))  n == Len(prog[p].body)  G == Grown(N, q, x, 0)
<1>1. /\ p \in DOMAIN prog /\ prog[p].loop /\ d \in Diffs /\ x \in Arrays /\ S.regs \in Registers /\ LoopReady(p, d, v)
      /\ DOMAIN prog[p].body = 1..n /\ n \in Nat
  BY LoopLeftIs, StaticAssumption DEF LoopLeft, States
<1>2. N \in 1..MaxN /\ Counts(prog[p], N, M) /\ M \in Int /\ 0 \in 0..(N - 2) /\ M + 1 = N
  <2>1. N \in 1..MaxN /\ Counts(prog[p], N, M)
    BY <1>1, CounterIs DEF Counter
  <2> QED
    BY <2>1
<1>3. AllAdd(p, x)
  <2> SUFFICES ASSUME NEW s \in DOMAIN prog[p].body, prog[p].body[s].arr = x PROVE Accumulates(prog[p].body[s])
    BY DEF AllAdd
  <2>1. ExactStore(p, s, d, v)
    BY DEF LoopLeft
  <2> QED
    BY <2>1 DEF ExactStore
<1>4. B \in Int /\ y1 \in Int /\ G \in Int /\ T \in Int /\ B - y1 = G + M * T
  BY <1>1, <1>3, AddsAlike
<1>5. /\ Numbers(LastOf(p, x, S.regs), n) /\ L \in Int
      /\ At(N, p, M, n)[x][0] = At(N, p, M, 0)[x][0] + L
  BY LastAdds
<1>6. At(N, p, M, 0) = Begins(N, p, M) /\ At(N, p, M, n) = Mem(N)[p]
  <2>1. At(N, p, M, 0) = Begins(N, p, M) /\ At(N, p, M, n) = Begins(N, p, M + 1)
    BY <1>1, <1>2, AtIs
  <2>2. Begins(N, p, N) = Mem(N)[p]
    BY <1>1, <1>2, BeginsIs
  <2> QED
    BY <1>2, <2>1, <2>2
<1>7. G = Recorded(d[x], N, S.regs)
  <2>1. x \notin v /\ Index(x, 0) = 0 /\ ~PartialAt(x, q)
    BY DEF LoopLeft, Outside, Index, IsStatic, PartialAt
  <2> QED
    BY <1>1, <1>2, <2>1 DEF DiffsHold
<1>8. Recorded(d1[x], N, S.regs) = Recorded(d[x], N, S.regs) + Sum(DoneNotes(p, x, d, N, S.regs, DOMAIN prog[p].body))
  BY <1>1 DEF LoopLeft, Records
<1>9. Sum(DoneNotes(p, x, d, N, S.regs, DOMAIN prog[p].body)) = L + M * T
  BY <1>1, <1>5, NotesAdd
<1>10. Recorded(d1[x], N, S.regs) = G + (L + M * T) /\ Mem(N)[p][x][0] = B + L
  BY <1>5, <1>6, <1>7, <1>8, <1>9
<1>11. Mem(N)[p][x][0] - y1 = Recorded(d1[x], N, S.regs)
  <2> DEFINE W == M * T  m == Mem(N)[p][x][0]
  <2>1. W \in Int
    BY <1>2, <1>4, Times
  <2>2. B - y1 = G + W /\ m = B + L /\ Recorded(d1[x], N, S.regs) = G + (L + W)
    BY <1>4, <1>10
  <2> HIDE DEF W, B, y1, G, L, m, T
  <2>3. m - y1 = Recorded(d1[x], N, S.regs)
    BY <1>4, <1>5, <2>1, <2>2, AddedUp
  <2> QED
    BY <2>3 DEF m
<1> QED
  BY <1>11 DEF Grown

(* An array the item does not store. *)
LEMMA NotHere ==
  ASSUME NEW p \in Nat \ {0}, NEW a, a \notin Written(prog[p])
  PROVE  /\ StoredBy(a, p) <=> StoredBy(a, p - 1)
         /\ PartialAt(a, p) <=> PartialAt(a, p - 1)
         /\ RestartedBy(a, p) <=> RestartedBy(a, p - 1)
<1>1. \A q \in 1..p : q = p \/ q \in 1..(p - 1)
  OBVIOUS
<1>2. 1..(p - 1) \subseteq 1..p
  OBVIOUS
<1>3. StoredBy(a, p) <=> StoredBy(a, p - 1)
  BY <1>1, <1>2 DEF StoredBy
<1>4. PartialAt(a, p) <=> PartialAt(a, p - 1)
  BY <1>1, <1>2 DEF PartialAt
<1>5. \A s \in DOMAIN prog[p].body : prog[p].body[s].arr # a
  BY DEF Written
<1>6. RestartedBy(a, p) <=> RestartedBy(a, p - 1)
  BY <1>1, <1>2, <1>5 DEF RestartedBy
<1> QED
  BY <1>3, <1>4, <1>6

LEMMA SameHere ==
  ASSUME Plain, NEW N \in 2..MaxN, NEW p \in DOMAIN prog, NEW a \in Arrays, a \notin Written(prog[p])
  PROVE  /\ Mem(N)[p][a] = Mem(N)[p - 1][a]
         /\ \A i : Grown(N, p, a, i) = Grown(N, p - 1, a, i)
         /\ Behind(N, p, a) = Behind(N, p - 1, a)
<1>1. N \in 1..MaxN /\ N - 1 \in 1..MaxN /\ p \in Nat \ {0}
  BY FinalType DEF Plain
<1>2. Mem(N)[p][a] = Mem(N)[p - 1][a]
  BY <1>1, NotWritten
<1>3. Mem(N - 1)[p][a] = Mem(N - 1)[p - 1][a]
  <2> DEFINE M == N - 1
  <2>1. M \in 1..MaxN
    BY <1>1
  <2> HIDE DEF M
  <2>2. Mem(M)[p][a] = Mem(M)[p - 1][a]
    BY <2>1, NotWritten
  <2> QED
    BY <2>2 DEF M
<1>4. RestartedBy(a, p) <=> RestartedBy(a, p - 1)
  BY <1>1, NotHere
<1> QED
  BY <1>2, <1>3, <1>4 DEF Grown, Behind

(* ... has the recorded values of before, and elements as old as before. *)
LEMMA OutsideHolds ==
  ASSUME Plain, NEW N \in 2..MaxN, NEW p \in DOMAIN prog, NEW d \in DiffsTo(p - 1), NEW v, NEW d1, NEW v1, Outside(p, d, v, d1, v1),
         NEW regs, NEW other, RegsAgree(regs, other, p), DiffsHold(d, v, p - 1, N, other),
         NEW a \in Arrays \ Written(prog[p]), a \notin v1, NEW k \in 0..(N - 2)
  PROVE  Grown(N, p, a, Index(a, k)) = IF PartialAt(a, p) /\ k > 0 THEN 0 ELSE Recorded(d1[a], N, regs)
<1>1. p \in Nat \ {0} /\ p \in Int
  BY DEF Plain
<1>2. a \notin v /\ d1[a] = d[a]
  BY DEF Outside
<1>3. DiffsHold(d, v, p - 1, N, regs)
  BY <1>1, DiffsHoldKept
<1>4. Grown(N, p - 1, a, Index(a, k)) = IF PartialAt(a, p - 1) /\ k > 0 THEN 0 ELSE Recorded(d[a], N, regs)
  BY <1>2, <1>3 DEF DiffsHold
<1>5. Grown(N, p, a, Index(a, k)) = Grown(N, p - 1, a, Index(a, k))
  BY SameHere
<1>6. PartialAt(a, p) <=> PartialAt(a, p - 1)
  BY <1>1, NotHere
<1> QED
  BY <1>2, <1>4, <1>5, <1>6

LEMMA OutsideOld ==
  ASSUME Plain, NEW N \in 2..MaxN, NEW p \in DOMAIN prog, NEW d, NEW v, NEW d1, NEW v1, Outside(p, d, v, d1, v1),
         NEW a \in Arrays \ Written(prog[p]), NEW j, NEW m, NEW m0, StillOld(m0, d, v, p - 1, N, a, j), m[a] = m0[a]
  PROVE  StillOld(m, d1, v1, p, N, a, j)
<1>1. p \in Nat \ {0}
  BY DEF Plain
<1>2. d1[a] = d[a] /\ (a \in v => a \in v1)
  BY DEF Outside
<1>3. Mem(N)[p][a] = Mem(N)[p - 1][a]
  BY SameHere
<1>4. StoredBy(a, p) <=> StoredBy(a, p - 1)
  BY <1>1, NotHere
<1> QED
  BY <1>2, <1>3, <1>4 DEF StillOld

(* After a loop. *)
LEMMA LoopOld ==
  ASSUME Plain, NEW N \in 2..MaxN, NEW p, NEW d, NEW v, NEW d1, NEW v1, LoopLeft(p, d, v, d1, v1),
         NEW a \in Arrays \ Static, NEW j \in 0..(N - 2), NEW m, NEW m0, StillOld(m0, d, v, p - 1, N, a, j), m[a][j] = m0[a][j],
         a \in Written(prog[p])
  PROVE  StillOld(m, d1, v1, p, N, a, j)
<1>1. /\ p \in DOMAIN prog /\ prog[p].loop /\ d \in Diffs /\ p \in Nat \ {0} /\ Outside(p, d, v, d1, v1)
  BY LoopLeftIs DEF LoopLeft
<1>2. CASE m0[a][j] = Final(N - 1)[a][j]
  BY <1>2 DEF StillOld
<1>3. CASE j = 0 /\ StoredBy(a, p - 1) /\ (a \in v \/ (m0[a][0] = Mem(N)[p - 1][a][0] /\ d[a] = <<>>))
  <2>1. StoredBy(a, p)
    BY <1>1, <1>3 DEF StoredBy
  <2>2. CASE a \in v1
    BY <1>3, <2>1, <2>2 DEF StillOld
  <2>3. CASE a \notin v1
    <3>1. a \notin v
      BY <1>1, <2>3 DEF Outside
    <3>2. PICK s \in DOMAIN prog[p].body : prog[p].body[s].arr = a
      BY DEF Written
    <3>3. GoodLoop(p, s, d, v) /\ St(p, s) = prog[p].body[s]
      BY <3>2, LoopLeftIs
    <3>4. ExactStore(p, s, d, v)
      BY <2>3, <3>2 DEF LoopLeft
    <3>5. Recurs(St(p, s))
      <4>1. EarlierAt(p, s, a)
        BY <1>3 DEF EarlierAt
      <4> QED
        BY <3>2, <3>3, <3>4, <4>1 DEF ExactStore, NewArray
    <3>6. prog[p].first = 1
      <4>1. PICK l \in OwnOf(St(p, s)) : l.idx = "below"
        BY <3>5 DEF Recurs
      <4>2. l \in LoadsOf(prog[p].body[s])
        BY <3>3, <4>1 DEF OwnOf
      <4> QED
        BY <1>1, <4>1, <4>2, LoadIs
    <3>7. d1[a] = d[a]
      BY <2>3, <3>6 DEF LoopLeft
    <3>8. Mem(N)[p][a][0] = Mem(N)[p - 1][a][0]
      <4>1. IF prog[p].loop THEN 0 < prog[p].first \/ 0 >= N ELSE 0 # 0
        BY <1>1, <3>6
      <4>2. 0 \in Cells /\ N \in 1..MaxN
        BY <1>1, CounterIs
      <4> QED
        BY <1>1, <4>1, <4>2, NotReached
    <3> QED
      BY <1>3, <2>1, <3>1, <3>7, <3>8 DEF StillOld
  <2> QED
    BY <2>2, <2>3
<1> QED
  BY <1>2, <1>3 DEF StillOld

LEMMA LoopAgrees ==
  ASSUME Plain, NEW N \in 2..MaxN, NEW p, NEW d, NEW v, NEW d1, NEW v1, LoopLeft(p, d, v, d1, v1),
         NEW S0, Agrees(S0, d, v, p - 1, N), NEW T, Like(T, S0, N, p, Len(prog[p].body))
  PROVE  Agrees(T, d1, v1, p, N)
<1> DEFINE n == Len(prog[p].body)  M == N - 1  q == p - 1
<1>1. /\ p \in DOMAIN prog /\ prog[p].loop /\ d \in Diffs /\ d \in DiffsTo(q) /\ p \in Nat \ {0} /\ Outside(p, d, v, d1, v1)
      /\ DOMAIN prog[p].body = 1..n /\ n \in Nat /\ LoopReady(p, d, v)
  BY LoopLeftIs DEF LoopLeft
<1>2. N \in 1..MaxN /\ Counts(prog[p], N, M) /\ M \in Int /\ 0 \in Cells /\ N \in Int
  BY <1>1, CounterIs DEF Counter
<1>3. T \in States /\ T.regs \in Registers /\ RegsAgree(T.regs, S0.regs, p)
  BY DEF Like, States, RegsAgree
<1>4. At(N, p, M, n) = Mem(N)[p]
  <2>1. M + 1 = N
    BY <1>2
  <2>2. At(N, p, M, n) = Begins(N, p, M + 1)
    BY <1>1, <1>2, AtIs
  <2>3. Begins(N, p, N) = Mem(N)[p]
    BY <1>1, <1>2, BeginsIs
  <2> QED
    BY <2>1, <2>2, <2>3
<1>5. ASSUME NEW a \in Arrays \ Static PROVE T.mem[a][M] = Mem(N)[p][a][M]
  BY <1>4 DEF Like
<1>6. DiffsHold(d, v, q, N, T.regs)
  <2>1. DiffsHold(d, v, q, N, S0.regs)
    BY DEF Agrees
  <2> QED
    BY <1>1, <1>3, <2>1, DiffsHoldKept
<1>7. ASSUME NEW x \in Static PROVE T.mem[x][0] = Mem(N)[p][x][0] + Behind(N, p, x)
  <2>0. x \in Arrays /\ ScalarLike(T, S0, N, p, n, x)
    BY StaticAssumption DEF Like
  <2>1. CASE x \notin Written(prog[p])
    <3>1. T.mem[x][0] = S0.mem[x][0]
      BY <2>0, <2>1 DEF ScalarLike
    <3>2. S0.mem[x][0] = Mem(N)[q][x][0] + Behind(N, q, x)
      BY DEF Agrees
    <3>3. Mem(N)[p][x] = Mem(N)[q][x] /\ Behind(N, p, x) = Behind(N, q, x)
      BY <1>1, <2>0, <2>1, SameHere
    <3> QED
      BY <3>1, <3>2, <3>3
  <2>2. CASE x \in Written(prog[p]) /\ AllAdd(p, x)
    <3>1. T.mem[x][0] = At(N, p, M, n)[x][0] + (Final(M)[x][0] - Mem(M)[p][x][0])
      BY <2>0, <2>2 DEF ScalarLike
    <3>2. ~RestartedBy(x, q)
      BY <1>1, <1>3, <1>6, <2>2, AddsAlike
    <3>3. ~RestartedBy(x, p)
      <4>1. \A k \in 1..p : k = p \/ k \in 1..q
        BY <1>1
      <4>2. \A s \in DOMAIN prog[p].body : prog[p].body[s].arr = x => ~Restarts(prog[p].loop, prog[p].body[s])
        BY <1>1, <2>2 DEF AllAdd, Restarts
      <4> QED
        BY <3>2, <4>1, <4>2 DEF RestartedBy
    <3> QED
      BY <1>4, <3>1, <3>3 DEF Behind
  <2>3. CASE ~AllAdd(p, x)
    <3>1. PICK s \in DOMAIN prog[p].body : prog[p].body[s].arr = x /\ ~Accumulates(prog[p].body[s])
      BY <2>3 DEF AllAdd
    <3>2. T.mem[x][0] = At(N, p, M, n)[x][0]
      BY <1>1, <2>0, <3>1 DEF ScalarLike
    <3>3. RestartedBy(x, p)
      <4>1. Restarts(prog[p].loop, prog[p].body[s]) /\ p \in 1..p
        BY <1>1, <3>1 DEF Restarts
      <4> QED
        BY <3>1, <4>1 DEF RestartedBy
    <3>4. Mem(N)[p][x][0] \in Int
      <4>1. Mem(N)[p] \in Memories
        BY <1>1, <1>2, MemIs DEF Plain
      <4> QED
        BY <1>2, <2>0, <4>1 DEF Memories
    <3>5. T.mem[x][0] = Mem(N)[p][x][0] /\ Behind(N, p, x) = 0
      BY <1>4, <3>2, <3>3 DEF Behind
    <3> QED
      BY <3>4, <3>5, IntMinus
  <2> QED
    BY <2>1, <2>2, <2>3
<1>8. ASSUME NEW a \in Arrays \ v1, NEW k \in 0..(N - 2)
      PROVE  Grown(N, p, a, Index(a, k)) = IF PartialAt(a, p) /\ k > 0 THEN 0 ELSE Recorded(d1[a], N, T.regs)
  <2>1. CASE a \notin Written(prog[p])
    <3>1. DiffsHold(d, v, q, N, S0.regs)
      BY DEF Agrees
    <3> QED
      BY <1>1, <1>3, <2>1, <3>1, OutsideHolds
  <2>2. CASE a \in Written(prog[p])
    <3>1. ~PartialAt(a, p)
      <4>1. p \in 1..p
        BY <1>1
      <4> QED
        BY <1>1, <2>2, <4>1 DEF PartialAt
    <3>2. CASE a \in Static
      <4>1. Index(a, k) = 0
        BY <3>2 DEF Index, IsStatic
      <4>2. \A s \in 1..n : ReadLike(T, N, p, s)
        BY DEF Like
      <4>3. Grown(N, p, a, 0) = Recorded(d1[a], N, T.regs)
        BY <1>3, <1>6, <2>2, <3>2, <4>2, ScalarsDiffer
      <4> QED
        BY <3>1, <4>1, <4>3
    <3>3. CASE a \notin Static
      <4>1. Index(a, k) = k
        BY <3>3 DEF Index, IsStatic
      <4>2. Grown(N, p, a, k) = Recorded(d1[a], N, T.regs)
        BY <1>3, <1>6, <2>2, <3>3, ElementsDiffer
      <4> QED
        BY <3>1, <4>1, <4>2
    <3> QED
      BY <3>2, <3>3
  <2> QED
    BY <2>1, <2>2
<1>9. ASSUME NEW a \in Arrays \ Static, NEW j \in 0..(N - 2) PROVE StillOld(T.mem, d1, v1, p, N, a, j)
  <2>1. StillOld(S0.mem, d, v, q, N, a, j) /\ T.mem[a][j] = S0.mem[a][j]
    BY DEF Agrees, Like
  <2>2. CASE a \in Written(prog[p])
    BY <2>1, <2>2, LoopOld
  <2>3. CASE a \notin Written(prog[p])
    <3>1. d1[a] = d[a] /\ (a \in v => a \in v1)
      BY <1>1, <2>3 DEF Outside
    <3>2. Mem(N)[p][a] = Mem(N)[q][a]
      BY <1>1, <2>3, SameHere
    <3>3. StoredBy(a, p) <=> StoredBy(a, q)
      BY <1>1, <2>3, NotHere
    <3> QED
      BY <2>1, <3>1, <3>2, <3>3 DEF StillOld
  <2> QED
    BY <2>2, <2>3
<1> QED
  BY <1>3, <1>5, <1>7, <1>8, <1>9 DEF Agrees, DiffsHold

-----------------------------------------------------------------------------
(***************************************************************************)
(* A block.                                                               *)
(***************************************************************************)

(* What the difference function needs of a store of a block, the only one of its array so far. *)
GoodBlock(p, s, d, v) ==
  LET st == prog[p].body[s] IN
  /\ ~EarlierAt(p, s, st.arr)
  /\ \A l \in LoadsOf(st) : l.idx = "counter" /\ l.arr # st.arr
  /\ OneLoad(st) => \A l \in LoadsOf(st) : /\ l.arr \notin v /\ l.arr \notin Written(prog[p])
                                           /\ Len(d[l.arr]) <= 1 /\ (st.arr \notin Static => d[l.arr] = <<>>)
  /\ Unsupported(st) => \A l \in LoadsOf(st) : ~LaterAt(p, s, l.arr) /\ (l.arr \notin Static => Same(p, l.arr, d, v))
BlockReady(p, d, v) ==
  /\ p \in DOMAIN prog /\ ~prog[p].loop /\ d \in Diffs /\ d \in DiffsTo(p - 1) /\ Fresh(d, v, p - 1)
  /\ \A s \in DOMAIN prog[p].body : GoodBlock(p, s, d, v)

(* A store whose difference is the one that is recorded. *)
ExactBlock(p, s, d, v) ==
  LET st == prog[p].body[s] IN
  Unsupported(st) => ~MentionsN(st.term) /\ \A l \in LoadsOf(st) : Same(p, l.arr, d, v)
BlockNote(p, s, d) ==
  LET st == prog[p].body[s] IN
  IF OnlyOfN(st) THEN <<OfTerm(st.term)>>
  ELSE IF OneLoad(st) /\ d[st.loads[1].arr] # <<>> THEN <<Last(d[st.loads[1].arr])>>
  ELSE <<>>

LEMMA BlockIs ==
  ASSUME Plain, NEW p, NEW d, NEW v, BlockReady(p, d, v), NEW s \in DOMAIN prog[p].body
  PROVE  /\ p \in DOMAIN prog /\ p \in Nat \ {0} /\ prog[p].first = 0 /\ s \in Nat \ {0} /\ s - 1 \in 0..Len(prog[p].body)
         /\ DOMAIN prog[p].body = 1..Len(prog[p].body) /\ Len(prog[p].body) \in Nat
         /\ St(p, s) = prog[p].body[s] /\ Arr(p, s) = prog[p].body[s].arr /\ St(p, s).arr = Arr(p, s)
         /\ St(p, s) \in Stores /\ Arr(p, s) \in Arrays /\ GoodBlock(p, s, d, v) /\ Placed(prog[p], St(p, s)) /\ St(p, s).rem = 0
         /\ d[Arr(p, s)] = <<>> /\ Arr(p, s) \notin v
         /\ ~StoredBy(Arr(p, s), p - 1)
         /\ \A q \in DOMAIN prog[p].body : q # s => Arr(p, q) # Arr(p, s)
         /\ \A q \in DOMAIN prog[p].body : ~Accumulates(prog[p].body[q])
<1>1. /\ p \in DOMAIN prog /\ p \in Nat \ {0} /\ prog[p].first = 0 /\ DOMAIN prog[p].body = 1..Len(prog[p].body) /\ Len(prog[p].body) \in Nat
  <2>1. DOMAIN prog = 1..Len(prog) /\ Len(prog) \in Nat /\ p \in DOMAIN prog
    BY DEF Plain, BlockReady
  <2> QED
    BY <2>1, PlainIs DEF BlockReady
<1>2. \A q \in DOMAIN prog[p].body : /\ prog[p].body[q] \in Stores /\ prog[p].body[q].rem = 0 /\ Placed(prog[p], prog[p].body[q])
                                     /\ prog[p].body[q].arr \in Arrays /\ GoodBlock(p, q, d, v)
  BY <1>1, PlainIs, StoreIs DEF BlockReady
<1>3. St(p, s) = prog[p].body[s] /\ Arr(p, s) = prog[p].body[s].arr /\ \A q : Arr(p, q) = prog[p].body[q].arr
  BY DEF St, Arr
<1>4. ~StoredBy(Arr(p, s), p - 1) /\ d[Arr(p, s)] = <<>> /\ Arr(p, s) \notin v
  <2>1. ~EarlierAt(p, s, Arr(p, s))
    BY <1>2, <1>3 DEF GoodBlock
  <2> QED
    BY <1>2, <1>3, <2>1 DEF EarlierAt, BlockReady, Fresh
<1>5. ASSUME NEW q \in DOMAIN prog[p].body, q # s PROVE Arr(p, q) # Arr(p, s)
  <2>1. ~EarlierAt(p, s, Arr(p, s)) /\ ~EarlierAt(p, q, Arr(p, q))
    BY <1>2, <1>3 DEF GoodBlock
  <2>2. q \in 1..(s - 1) \/ s \in 1..(q - 1)
    BY <1>1, <1>5
  <2> QED
    BY <1>3, <2>1, <2>2 DEF EarlierAt
<1>6. ASSUME NEW q \in DOMAIN prog[p].body PROVE ~Accumulates(prog[p].body[q])
  <2>1. \A l \in LoadsOf(prog[p].body[q]) : l.arr # prog[p].body[q].arr
    BY <1>2 DEF GoodBlock
  <2> QED
    BY <2>1 DEF Accumulates, OwnOf, OthersOf
<1> QED
  BY <1>1, <1>2, <1>3, <1>4, <1>5, <1>6

(* All loads of a block's store are of other arrays, at the first element. *)
LEMMA BlockKnown ==
  ASSUME Plain, NEW p, NEW d, NEW v, BlockReady(p, d, v), NEW s \in DOMAIN prog[p].body, ExactBlock(p, s, d, v)
  PROVE  KnownLoads(p, St(p, s), d, v) /\ EvenTerm(St(p, s))
<1>1. /\ p \in DOMAIN prog /\ St(p, s) = prog[p].body[s] /\ St(p, s) \in Stores /\ GoodBlock(p, s, d, v) /\ Placed(prog[p], St(p, s))
      /\ ~prog[p].loop
  BY BlockIs DEF BlockReady
<1>2. CASE Unsupported(St(p, s))
  <2>1. ~MentionsN(St(p, s).term) /\ \A l \in LoadsOf(St(p, s)) : Same(p, l.arr, d, v) /\ l.idx = "counter"
    BY <1>1, <1>2 DEF ExactBlock, GoodBlock
  <2> QED
    BY <1>1, <2>1 DEF KnownLoads, KnownLoad, Same, OthersOf, EvenTerm
<1>3. CASE OnlyOfN(St(p, s)) \/ Constant(St(p, s))
  <2>1. LoadsOf(St(p, s)) = {}
    BY <1>3 DEF OnlyOfN, Constant, LoadsOf
  <2>2. EvenTerm(St(p, s))
    BY <1>1, <1>3 DEF EvenTerm, Placed, OnlyOfN, Constant
  <2> QED
    BY <2>1, <2>2 DEF KnownLoads, OthersOf
<1>4. CASE OneLoad(St(p, s))
  <2>1. LoadsOf(St(p, s)) = {St(p, s).loads[1]} /\ St(p, s).loads[1].coef = 1
    BY <1>4, <1>1, StoreIs DEF OneLoad, LoadsOf
  <2>2. \A l \in LoadsOf(St(p, s)) : l.idx = "counter" /\ l.arr \notin v /\ l.arr \notin Written(prog[p]) /\ l.coef = 1
    BY <1>1, <1>4, <2>1 DEF GoodBlock
  <2>3. EvenTerm(St(p, s))
    BY <1>4 DEF EvenTerm, OneLoad
  <2> QED
    BY <1>1, <2>2, <2>3 DEF KnownLoads, KnownLoad, OthersOf
<1> QED
  BY <1>2, <1>3, <1>4 DEF Unsupported

LEMMA BlockCounts ==
  ASSUME Plain, NEW N \in 2..MaxN, NEW p, NEW d, NEW v, BlockReady(p, d, v)
  PROVE  /\ Counts(prog[p], N, 0) /\ Counts(prog[p], N - 1, 0) /\ N \in 1..MaxN /\ N - 1 \in 1..MaxN /\ 0 \in 0..(N - 2)
         /\ 0 \in Cells /\ N - 1 \in Cells /\ N - 1 # 0 /\ N \in Int /\ Counter(p, N) = 0
         /\ \A a : Index(a, 0) = 0
<1>1. p \in DOMAIN prog /\ ~prog[p].loop
  BY DEF BlockReady
<1>2. /\ Counts(prog[p], N, Counter(p, N)) /\ N \in 1..MaxN /\ N - 1 \in 1..MaxN /\ N \in Int /\ 0 \in Cells /\ N - 1 \in Cells /\ N - 1 # 0
  BY <1>1, CounterIs
<1>3. Counter(p, N) = 0
  BY <1>1 DEF Counter
<1> QED
  BY <1>1, <1>2, <1>3 DEF Counts, Index

(* What a block leaves of the element its store is to. *)
LEMMA BlockLeaves ==
  ASSUME Plain, NEW M \in 1..MaxN, NEW p, NEW d, NEW v, BlockReady(p, d, v), Counts(prog[p], M, 0), NEW s \in DOMAIN prog[p].body
  PROVE  /\ Mem(M)[p][Arr(p, s)][0] = StoreValue(At(M, p, 0, s - 1), St(p, s), M, 0)
         /\ StoreValue(At(M, p, 0, s - 1), St(p, s), M, 0) \in Int
         /\ At(M, p, 0, s - 1) \in Memories /\ Before(At(M, p, 0, s - 1), M, p)
<1> DEFINE n == Len(prog[p].body)  a == Arr(p, s)
<1>1. /\ p \in DOMAIN prog /\ ~prog[p].loop /\ s \in Nat \ {0} /\ DOMAIN prog[p].body = 1..n /\ n \in Nat /\ a \in Arrays
      /\ \A q \in DOMAIN prog[p].body : q # s => Arr(p, q) # a
  BY BlockIs DEF BlockReady
<1>2. IsStage(M, p, 0, s, s - 1, St(p, s), a)
  BY <1>1, StageIs
<1>3. Index(a, 0) = 0
  BY DEF Index
<1>4. At(M, p, 0, n)[a] = At(M, p, 0, s)[a]
  <2>1. s \in 0..n /\ n \in s..n
    BY <1>1
  <2>2. NoStore(p, s + 1, n, a)
    BY <1>1 DEF NoStore, Arr
  <2> QED
    BY <1>1, <2>1, <2>2, Unstored
<1>5. At(M, p, 0, n) = Mem(M)[p]
  BY <1>1, AtIs
<1> QED
  BY <1>2, <1>3, <1>4, <1>5 DEF IsStage

(* The elements a block stores differ by what is recorded. *)
LEMMA BlockGrows ==
  ASSUME Plain, NEW N \in 2..MaxN, NEW p, NEW d, NEW v, BlockReady(p, d, v), NEW s \in DOMAIN prog[p].body, ExactBlock(p, s, d, v),
         NEW regs \in Registers, DiffsHold(d, v, p - 1, N, regs)
  PROVE  Grown(N, p, Arr(p, s), 0) = Gain(St(p, s), d, N, regs)
<1> DEFINE st == St(p, s)  M == N - 1  m == At(N, p, 0, s - 1)  m2 == At(M, p, 0, s - 1)  O == [l \in 1..Len(st.loads) |-> 0]
           V == StoreValue(m, st, N, 0)  W == StoreValue(m2, st, M, 0)  G == Gain(st, d, N, regs)
<1>1. /\ p \in DOMAIN prog /\ d \in Diffs /\ st = prog[p].body[s] /\ st \in Stores /\ GoodBlock(p, s, d, v)
  BY BlockIs DEF BlockReady
<1>2. /\ Counts(prog[p], N, 0) /\ Counts(prog[p], M, 0) /\ N \in 1..MaxN /\ M \in 1..MaxN /\ 0 \in 0..(N - 2) /\ N \in Int
  BY BlockCounts
<1>3. KnownLoads(p, st, d, v) /\ EvenTerm(st)
  BY BlockKnown
<1>4. Mem(N)[p][Arr(p, s)][0] = V /\ V \in Int /\ m \in Memories /\ Before(m, N, p)
  BY <1>2, BlockLeaves
<1>5. Mem(M)[p][Arr(p, s)][0] = W /\ W \in Int /\ m2 \in Memories /\ Before(m2, M, p)
  BY <1>2, BlockLeaves
<1>6. Numbers(O, Len(st.loads)) /\ Sum(O) = 0 /\ DOMAIN st.loads = 1..Len(st.loads) /\ \A l \in DOMAIN st.loads : st.loads[l] \in LoadsOf(st)
  BY <1>1, StoreIs, ZeroNumbers
<1>7. OwnExceeds(st, m, m2, N, 0, O)
  <2>1. \A l \in DOMAIN st.loads : st.loads[l].arr # st.arr
    BY <1>1, <1>6 DEF GoodBlock
  <2> QED
    BY <1>6, <2>1 DEF OwnExceeds
<1> HIDE DEF O, m, m2, M
<1>8. G \in Int /\ V = W + Sum(O) + G
  BY <1>1, <1>2, <1>3, <1>4, <1>5, <1>7, ValueGrows DEF M
<1>9. V = W + G
  BY <1>5, <1>6, <1>8
<1>10. Grown(N, p, Arr(p, s), 0) = V - W
  BY <1>4, <1>5 DEF Grown, M
<1> HIDE DEF V, W, G
<1>11. Grown(N, p, Arr(p, s), 0) = G
  BY <1>5, <1>8, <1>9, <1>10
<1> QED
  BY <1>11 DEF G

LEMMA LastOfOne ==
  ASSUME NEW S, NEW u \in Seq(S), u # <<>>, Len(u) <= 1
  PROVE  u = <<Last(u)>> /\ Last(u) \in S
<1>1. Len(u) = 1 /\ u \in [1..1 -> S]
  <2>1. Len(u) \in Nat /\ u \in [1..Len(u) -> S] /\ Len(u) # 0
    BY EmptySeq
  <2> QED
    BY <2>1
<1>2. Last(u) = u[1]
  BY <1>1 DEF Last
<1> QED
  BY <1>1, <1>2

(* ... which is what the note of a supported store is worth. *)
LEMMA NoteWorth ==
  ASSUME Plain, NEW N \in 2..MaxN, NEW p, NEW d, NEW v, BlockReady(p, d, v), NEW s \in DOMAIN prog[p].body, ExactBlock(p, s, d, v),
         NEW regs \in Registers
  PROVE  /\ BlockNote(p, s, d) \in Seq(Values) /\ BlockNote(p, s, d) \in Seq(ValuesOver(LoadsTo(p - 1)))
         /\ Recorded(BlockNote(p, s, d), N, regs) = Gain(St(p, s), d, N, regs)
<1> DEFINE st == St(p, s)  TD == TermDifference(st.term, N)
<1>1. /\ p \in DOMAIN prog /\ p \in Nat \ {0} /\ d \in Diffs /\ d \in DiffsTo(p - 1) /\ st = prog[p].body[s] /\ st \in Stores /\ GoodBlock(p, s, d, v)
      /\ N \in Int
  BY BlockIs, BlockCounts DEF BlockReady
<1>2. KnownLoads(p, st, d, v) /\ EvenTerm(st)
  BY BlockKnown
<1>3. Regs(regs, AllLoads) /\ <<0, 0, 0>> \in AllLoads /\ <<0, 0, 0>> \in LoadsTo(p - 1) /\ regs[<<0, 0, 0>>] = 0
  <2>1. Regs(regs, AllLoads)
    BY RegistersAre
  <2>2. <<0, 0, 0>> \in AllLoads /\ regs[<<0, 0, 0>>] = 0
    BY <2>1 DEF Regs
  <2>3. <<0, 0, 0>>[1] = 0 /\ 0 <= p - 1
    BY <1>1
  <2> QED
    BY <2>1, <2>2, <2>3 DEF LoadsTo
<1>4. TD \in Int /\ st.term \in Terms /\ (~MentionsN(st.term) => TD = 0)
  <2>1. TD \in Int /\ (~MentionsN(st.term) => TD = 0)
    BY <1>1, <1>2, TermGrows, 0 \in Int
  <2> QED
    BY <1>1, <2>1, StoreIs
<1>5. CASE OnlyOfN(st)
  <2>1. BlockNote(p, s, d) = <<OfTerm(st.term)>>
    BY <1>1, <1>5 DEF BlockNote
  <2>2. OfTerm(st.term) \in Values /\ OfTerm(st.term) \in ValuesOver(LoadsTo(p - 1)) /\ OfTerm(st.term).times = 0
        /\ OfTerm(st.term).load = <<0, 0, 0>> /\ OfTerm(st.term).term = st.term
    BY <1>3, <1>4 DEF OfTerm, Values, ValuesOver
  <2>3. DiffValue(OfTerm(st.term), N, regs) = TD + 0
    BY <1>3, <2>2, DiffValueOnce
  <2>4. Recorded(<<OfTerm(st.term)>>, N, regs) = TD
    BY <1>4, <2>3, RecordedOne
  <2>5. Gain(st, d, N, regs) = TD
    <3>1. LoadGains(st, d, N, regs) = <<>>
      BY <1>5 DEF LoadGains, OnlyOfN
    <3>2. Sum(<<>>) = 0
      BY SumZero
    <3> HIDE DEF st
    <3> QED
      BY <1>4, <3>1, <3>2 DEF Gain
  <2> QED
    BY <2>1, <2>2, <2>4, <2>5
<1>6. CASE ~OnlyOfN(st)
  <2>1. ~MentionsN(st.term) /\ TD = 0
    BY <1>1, <1>4, <1>6 DEF Unsupported, Constant, OneLoad, ExactBlock
  <2>2. CASE OneLoad(st)
    <3> DEFINE b == st.loads[1].arr  u == d[b]
    <3>1. DOMAIN st.loads = {1} /\ st.loads[1] \in LoadsOf(st) /\ b \in Arrays /\ Len(st.loads) = 1
      BY <1>1, <2>2, StoreIs DEF OneLoad
    <3>2. Len(u) <= 1 /\ b # st.arr
      BY <1>1, <2>2, <3>1 DEF GoodBlock
    <3>3. u \in Seq(Values) /\ u \in Seq(ValuesOver(LoadsTo(p - 1)))
      BY <1>1, <3>1 DEF Diffs, DiffsTo
    <3>4. BlockNote(p, s, d) = u
      <4>1. u # <<>> => u = <<Last(u)>>
        BY <3>2, <3>3, LastOfOne
      <4> QED
        BY <1>1, <1>6, <2>2, <4>1 DEF BlockNote
    <3>5. Gain(st, d, N, regs) = Recorded(u, N, regs)
      <4> DEFINE LG == LoadGains(st, d, N, regs)
      <4>1. Numbers(LG, 1)
        BY <1>1, <3>1, GainType
      <4>2. LG[1] = Recorded(u, N, regs)
        BY <3>1, <3>2 DEF LoadGains
      <4>3. Sum(LG) = LG[1] /\ LG[1] \in Int
        <5>1. LG[1] \in Int /\ 1 \in 1..1 /\ \A k \in 1..1 : k # 1 => LG[k] = 0
          BY <4>1 DEF Numbers
        <5> HIDE DEF LG
        <5> QED
          BY <4>1, <5>1, SumAt
      <4>4. Gain(st, d, N, regs) = Sum(LG) + TD
        BY DEF Gain
      <4> HIDE DEF LG, TD, u
      <4> QED
        BY <2>1, <4>2, <4>3, <4>4
    <3> QED
      BY <3>3, <3>4, <3>5
  <2>3. CASE ~OneLoad(st)
    <3>1. BlockNote(p, s, d) = <<>>
      BY <1>1, <1>6, <2>3 DEF BlockNote
    <3>2. \A l \in OthersOf(st) : Same(p, l.arr, d, v)
      <4>1. CASE Unsupported(st)
        BY <1>1, <4>1 DEF ExactBlock, OthersOf
      <4>2. CASE ~Unsupported(st)
        BY <1>6, <2>3, <4>2 DEF Unsupported, Constant, OthersOf, LoadsOf
      <4> QED
        BY <4>1, <4>2
    <3>3. Gain(st, d, N, regs) = 0
      BY <1>1, <2>1, <3>2, NoGainOf
    <3> QED
      BY <3>1, <3>3, RecordedEmpty
  <2> QED
    BY <2>2, <2>3
<1> QED
  BY <1>5, <1>6

(* What the pass leaves in the place of a block's store. *)
PlacedBlock(p, s, d, is) ==
  LET st == prog[p].body[s]  note == BlockNote(p, s, d) IN
  \/ Unsupported(st) /\ is = <<OrigAt(p, s)>>
  \/ ~Unsupported(st) /\ is = <<>> /\ (st.arr \in Static => note = <<>>)
  \/ ~Unsupported(st) /\ st.arr \in Static /\ \E e \in BOOLEAN : is = <<AddAt(p, s, e, note)>>

(* ... and what it does to the element of P_(N-1). *)
BlockEffect(S, T, N, p, s, d) ==
  LET a == Arr(p, s)  st == St(p, s) IN
  /\ T \in States /\ RegsAgree(T.regs, S.regs, p)
  /\ \A b \in Arrays : b # a => T.mem[b] = S.mem[b]
  /\ \A j \in Cells : j # 0 => T.mem[a][j] = S.mem[a][j]
  /\ T.mem[a][0] = IF Unsupported(st) THEN StoreValue(S.mem, st, N, 0)
                   ELSE IF a \in Static THEN Final(N - 1)[a][0] + Recorded(BlockNote(p, s, d), N, S.regs)
                   ELSE S.mem[a][0]

LEMMA EffectSame ==
  ASSUME Plain, NEW N \in 2..MaxN, NEW p, NEW d, NEW v, BlockReady(p, d, v), NEW s \in DOMAIN prog[p].body,
         NEW S \in States, Arr(p, s) \in Static => S.mem[Arr(p, s)][0] = Final(N - 1)[Arr(p, s)][0],
         ~Unsupported(St(p, s)), Arr(p, s) \in Static => BlockNote(p, s, d) = <<>>
  PROVE  BlockEffect(S, S, N, p, s, d)
<1>1. RegsAgree(S.regs, S.regs, p)
  BY DEF RegsAgree
<1>2. ASSUME Arr(p, s) \in Static PROVE S.mem[Arr(p, s)][0] = Final(N - 1)[Arr(p, s)][0] + Recorded(BlockNote(p, s, d), N, S.regs)
  <2>1. Recorded(BlockNote(p, s, d), N, S.regs) = 0
    BY <1>2, RecordedEmpty
  <2>2. S.mem[Arr(p, s)][0] = Final(N - 1)[Arr(p, s)][0]
    BY <1>2
  <2>3. S.mem[Arr(p, s)][0] \in Int
    <3>1. Arr(p, s) \in Arrays /\ 0 \in Cells /\ S.mem \in Memories
      BY BlockIs, BlockCounts DEF States
    <3> QED
      BY <3>1 DEF Memories
  <2> QED
    BY <2>1, <2>2, <2>3
<1> QED
  BY <1>1, <1>2 DEF BlockEffect

LEMMA EffectStore ==
  ASSUME Plain, NEW N \in 2..MaxN, NEW p, NEW d, NEW v, BlockReady(p, d, v), NEW s \in DOMAIN prog[p].body,
         NEW S \in States, Unsupported(St(p, s))
  PROVE  BlockEffect(S, Exec(prog, S, <<OrigAt(p, s)>>, N), N, p, s, d)
<1> DEFINE st == St(p, s)  a == Arr(p, s)  in == OrigAt(p, s)  T == Execute(prog, S, in, N)  W == StoreValue(S.mem, st, N, 0)
<1>1. /\ p \in DOMAIN prog /\ st = prog[p].body[s] /\ a = prog[p].body[s].arr /\ st.arr = a /\ a \in Arrays /\ Counter(p, N) = 0
      /\ 0 \in Cells /\ Index(a, 0) = 0 /\ S.mem \in Memories
  BY BlockIs, BlockCounts DEF States
<1>2. Legal(in) /\ in.kind = "store" /\ in.item = p /\ in.store = s
  <2>1. Legal(in)
    BY <1>1, LegalAt, EmptySeq
  <2> QED
    BY <2>1 DEF OrigAt
<1>3. /\ T \in States /\ T.mem = Assigned(S.mem, a, 0, W) /\ W \in Int
      /\ \A r \in AllLoads : ~(r[1] = p /\ r[2] = s) => T.regs[r] = S.regs[r]
  <2> HIDE DEF in
  <2> QED
    BY <1>1, <1>2, ExecuteStore
<1>4. Exec(prog, S, <<in>>, N) = T
  BY ExecOne
<1> HIDE DEF T, W, in
<1>5. /\ T.mem[a][0] = W /\ \A b \in Arrays : b # a => T.mem[b] = S.mem[b]
  BY <1>1, <1>3, AssignedIs
<1>6. \A j \in Cells : j # 0 => T.mem[a][j] = S.mem[a][j]
  BY <1>1, <1>3, AssignedIs
<1>7. RegsAgree(T.regs, S.regs, p)
  BY <1>3 DEF RegsAgree
<1>8. BlockEffect(S, T, N, p, s, d)
  BY <1>3, <1>5, <1>6, <1>7 DEF BlockEffect, W
<1> QED
  BY <1>4, <1>8 DEF in

LEMMA EffectAdd ==
  ASSUME Plain, NEW N \in 2..MaxN, NEW p, NEW d, NEW v, BlockReady(p, d, v), NEW s \in DOMAIN prog[p].body,
         NEW S \in States, S.mem[Arr(p, s)][0] = Final(N - 1)[Arr(p, s)][0],
         ~Unsupported(St(p, s)), Arr(p, s) \in Static, NEW e \in BOOLEAN
  PROVE  BlockEffect(S, Exec(prog, S, <<AddAt(p, s, e, BlockNote(p, s, d))>>, N), N, p, s, d)
<1> DEFINE st == St(p, s)  a == Arr(p, s)  note == BlockNote(p, s, d)  in == AddAt(p, s, e, note)  T == Execute(prog, S, in, N)
           W == AddValue(in, S, a, 0, N)
<1>1. /\ p \in DOMAIN prog /\ st = prog[p].body[s] /\ a = prog[p].body[s].arr /\ st.arr = a /\ a \in Arrays /\ Counter(p, N) = 0
      /\ 0 \in Cells /\ Index(a, 0) = 0 /\ S.mem \in Memories /\ S.regs \in Registers
  BY BlockIs, BlockCounts DEF States
<1>2. note \in Seq(Values)
  <2>1. ExactBlock(p, s, d, v)
    BY <1>1 DEF ExactBlock
  <2> QED
    BY <1>1, <2>1, NoteWorth
<1>3. Legal(in) /\ in.kind = "add" /\ in.item = p /\ in.store = s /\ in.entry = e /\ in.add = note
  <2>1. Legal(in)
    <3> HIDE DEF note
    <3> QED
      BY <1>1, <1>2, LegalAt
  <2> QED
    BY <2>1 DEF AddAt
<1>4. T \in States /\ T.mem = Assigned(S.mem, a, 0, W) /\ W \in Int /\ T.regs = S.regs
  <2>1. a = prog[p].body[in.store].arr /\ p = in.item
    BY <1>1, <1>3
  <2> HIDE DEF in, a
  <2> QED
    BY <1>1, <1>3, <2>1, ExecuteAdd
<1>5. W = Final(N - 1)[a][0] + Recorded(note, N, S.regs)
  <2> HIDE DEF in, note
  <2> QED
    BY <1>1, <1>3 DEF AddValue, From
<1>6. Exec(prog, S, <<in>>, N) = T
  BY ExecOne
<1> HIDE DEF T, W, in
<1>7. /\ T.mem[a][0] = W /\ \A b \in Arrays : b # a => T.mem[b] = S.mem[b]
  BY <1>1, <1>4, AssignedIs
<1>8. \A j \in Cells : j # 0 => T.mem[a][j] = S.mem[a][j]
  BY <1>1, <1>4, AssignedIs
<1>9. RegsAgree(T.regs, S.regs, p)
  BY <1>4 DEF RegsAgree
<1>10. BlockEffect(S, T, N, p, s, d)
  BY <1>4, <1>5, <1>7, <1>8, <1>9 DEF BlockEffect
<1> QED
  BY <1>6, <1>10 DEF in

LEMMA EffectPlaced ==
  ASSUME Plain, NEW N \in 2..MaxN, NEW p, NEW d, NEW v, BlockReady(p, d, v), NEW s \in DOMAIN prog[p].body,
         NEW S \in States, Arr(p, s) \in Static => S.mem[Arr(p, s)][0] = Final(N - 1)[Arr(p, s)][0],
         NEW is, PlacedBlock(p, s, d, is)
  PROVE  BlockEffect(S, Exec(prog, S, is, N), N, p, s, d)
<1>1. St(p, s) = prog[p].body[s] /\ Arr(p, s) = prog[p].body[s].arr
  BY DEF St, Arr
<1>2. CASE Unsupported(St(p, s))
  <2>1. is = <<OrigAt(p, s)>>
    BY <1>1, <1>2 DEF PlacedBlock
  <2> QED
    BY <1>2, <2>1, EffectStore
<1>3. CASE ~Unsupported(St(p, s)) /\ is = <<>> /\ (Arr(p, s) \in Static => BlockNote(p, s, d) = <<>>)
  <2>1. Exec(prog, S, is, N) = S
    BY <1>3, ExecEmpty
  <2>2. BlockEffect(S, S, N, p, s, d)
    BY <1>3, EffectSame
  <2> QED
    BY <2>1, <2>2
<1>4. CASE ~Unsupported(St(p, s)) /\ Arr(p, s) \in Static /\ \E e \in BOOLEAN : is = <<AddAt(p, s, e, BlockNote(p, s, d))>>
  BY <1>4, EffectAdd
<1> QED
  BY <1>1, <1>2, <1>3, <1>4 DEF PlacedBlock

(* The difference function and P_N, within a block. *)
StoredLike(S, S0, N, p, q) ==
  LET a == Arr(p, q) IN
  S.mem[a][0] = IF Unsupported(St(p, q)) THEN Mem(N)[p][a][0]
                ELSE IF a \in Static THEN Final(N - 1)[a][0] + Grown(N, p, a, 0)
                ELSE S0.mem[a][0]
BlockLike(S, S0, N, p, s) ==
  /\ S \in States /\ RegsAgree(S.regs, S0.regs, p)
  /\ \A a \in Arrays : NoStore(p, 1, s, a) => S.mem[a] = S0.mem[a]
  /\ \A a \in Arrays : \A j \in Cells : j # 0 => S.mem[a][j] = S0.mem[a][j]
  /\ \A q \in 1..s : StoredLike(S, S0, N, p, q)

(* A store of a block the difference function comes to. *)
InBlock(S, S0, N, p, s, d, v) ==
  /\ N \in 2..MaxN /\ BlockReady(p, d, v) /\ s \in DOMAIN prog[p].body
  /\ Agrees(S0, d, v, p - 1, N) /\ BlockLike(S, S0, N, p, s - 1)

LEMMA InBlockIs ==
  ASSUME Plain, NEW S, NEW S0, NEW N, NEW p, NEW s, NEW d, NEW v, InBlock(S, S0, N, p, s, d, v)
  PROVE  /\ N \in 2..MaxN /\ p \in DOMAIN prog /\ p \in Nat \ {0} /\ s \in DOMAIN prog[p].body /\ s \in Nat \ {0} /\ ~prog[p].loop
         /\ DOMAIN prog[p].body = 1..Len(prog[p].body) /\ Len(prog[p].body) \in Nat /\ BlockReady(p, d, v)
         /\ S \in States /\ S0 \in States /\ S.mem \in Memories /\ S0.mem \in Memories /\ S0.regs \in Registers
         /\ Arr(p, s) \in Arrays /\ St(p, s) \in Stores /\ St(p, s).arr = Arr(p, s) /\ St(p, s) = prog[p].body[s]
         /\ DiffsHold(d, v, p - 1, N, S0.regs)
         /\ Counts(prog[p], N, 0) /\ Counts(prog[p], N - 1, 0) /\ N \in 1..MaxN /\ N - 1 \in 1..MaxN /\ 0 \in Cells
         /\ p - 1 \in 0..Len(prog) /\ p \in 0..Len(prog)
         /\ Final(N - 1) \in Memories /\ \A k \in 0..Len(prog) : Mem(N)[k] \in Memories /\ Mem(N - 1)[k] \in Memories
<1>1. BlockReady(p, d, v) /\ N \in 2..MaxN /\ s \in DOMAIN prog[p].body /\ S \in States /\ S0 \in States /\ DiffsHold(d, v, p - 1, N, S0.regs)
  BY DEF InBlock, BlockLike, Agrees
<1>2. /\ p \in DOMAIN prog /\ p \in Nat \ {0} /\ s \in Nat \ {0} /\ DOMAIN prog[p].body = 1..Len(prog[p].body) /\ Len(prog[p].body) \in Nat
      /\ Arr(p, s) \in Arrays /\ St(p, s) \in Stores /\ St(p, s).arr = Arr(p, s) /\ St(p, s) = prog[p].body[s]
  BY <1>1, BlockIs
<1>3. Counts(prog[p], N, 0) /\ Counts(prog[p], N - 1, 0) /\ N \in 1..MaxN /\ N - 1 \in 1..MaxN /\ 0 \in Cells
  BY <1>1, BlockCounts
<1>4. p - 1 \in 0..Len(prog) /\ p \in 0..Len(prog)
  BY <1>2 DEF Plain
<1>5. Final(N - 1) \in Memories
  BY <1>1, FinalType
<1>6. \A k \in 0..Len(prog) : Mem(N)[k] \in Memories /\ Mem(N - 1)[k] \in Memories
  BY <1>3, MemIs
<1> QED
  BY <1>1, <1>2, <1>3, <1>4, <1>5, <1>6 DEF States, BlockReady

LEMMA Minus == \A x, y \in Int : y + (x - y) = x /\ x + (y - y) = x
  BY SMT

(* An array not stored in the block so far. *)
LEMMA NotStoredYet ==
  ASSUME Plain, NEW S, NEW S0, NEW N, NEW p, NEW s, NEW d, NEW v, InBlock(S, S0, N, p, s, d, v)
  PROVE  /\ S.mem[Arr(p, s)] = S0.mem[Arr(p, s)]
         /\ Arr(p, s) \in Static => S.mem[Arr(p, s)][0] = Final(N - 1)[Arr(p, s)][0]
<1> DEFINE a == Arr(p, s)  q == p - 1  F == Final(N - 1)  n == Len(prog[p].body)
<1>1. /\ N \in 2..MaxN /\ p \in DOMAIN prog /\ p \in Nat \ {0} /\ s \in DOMAIN prog[p].body /\ s \in Nat \ {0}
      /\ DOMAIN prog[p].body = 1..n /\ n \in Nat /\ BlockReady(p, d, v)
      /\ a \in Arrays /\ q \in 0..Len(prog) /\ N \in 1..MaxN /\ N - 1 \in 1..MaxN /\ 0 \in Cells /\ F \in Memories
      /\ Mem(N)[q] \in Memories
  BY InBlockIs
<1>2. ~StoredBy(a, q) /\ \A k \in DOMAIN prog[p].body : k # s => Arr(p, k) # a
  BY <1>1, BlockIs
<1>3. NoStore(p, 1, s - 1, a)
  <2>1. \A k \in 1..(s - 1) : k \in DOMAIN prog[p].body /\ k # s
    <3> HIDE DEF n
    <3>1. s \in 1..n /\ n \in Nat
      BY <1>1
    <3>2. \A k \in 1..(s - 1) : k \in 1..n /\ k # s
      BY <3>1
    <3> QED
      BY <1>1, <3>2
  <2> QED
    BY <1>2, <2>1 DEF NoStore, Arr
<1>4. S.mem[a] = S0.mem[a]
  BY <1>1, <1>3 DEF InBlock, BlockLike
<1>5. ASSUME a \in Static PROVE S0.mem[a][0] = F[a][0]
  <2>1. S0.mem[a][0] = Mem(N)[q][a][0] + Behind(N, q, a)
    BY <1>5 DEF InBlock, Agrees
  <2>2. ~RestartedBy(a, q)
    BY <1>2 DEF StoredBy, RestartedBy, Written
  <2>3. Behind(N, q, a) = F[a][0] - Mem(N - 1)[q][a][0]
    BY <2>2 DEF Behind
  <2>4. Mem(N)[q][a] = At0[a] /\ Mem(N - 1)[q][a] = At0[a]
    <3>1. \A k \in 1..q : a \notin Written(prog[k])
      BY <1>2 DEF StoredBy
    <3> HIDE DEF a, q
    <3> QED
      BY <1>1, <3>1, NeverStored
  <2>5. F[a][0] \in Int /\ At0[a][0] \in Int
    BY <1>1, <2>4 DEF Memories
  <2> HIDE DEF F, a, q
  <2>6. S0.mem[a][0] = At0[a][0] + (F[a][0] - At0[a][0])
    BY <2>1, <2>3, <2>4 DEF F, q, a
  <2> QED
    BY <2>5, <2>6, Minus
<1> QED
  BY <1>4, <1>5

(* What an unsupported store reads is what P_N reads. *)
LEMMA BlockReads ==
  ASSUME Plain, NEW S, NEW S0, NEW N, NEW p, NEW s, NEW d, NEW v, InBlock(S, S0, N, p, s, d, v), Unsupported(St(p, s)),
         NEW l \in LoadsOf(St(p, s))
  PROVE  LoadValue(S.mem, l, N, 0) = LoadValue(At(N, p, 0, s - 1), l, N, 0)
<1> DEFINE n == Len(prog[p].body)  b == l.arr  m == At(N, p, 0, s - 1)  M == N - 1  q == p - 1
<1>1. /\ N \in 2..MaxN /\ p \in DOMAIN prog /\ p \in Nat \ {0} /\ s \in DOMAIN prog[p].body /\ s \in Nat \ {0} /\ ~prog[p].loop
      /\ DOMAIN prog[p].body = 1..n /\ n \in Nat /\ BlockReady(p, d, v)
      /\ St(p, s) \in Stores /\ St(p, s).arr = Arr(p, s) /\ St(p, s) = prog[p].body[s]
      /\ DiffsHold(d, v, q, N, S0.regs) /\ Counts(prog[p], N, 0) /\ N \in 1..MaxN /\ M \in 1..MaxN /\ 0 \in Cells
      /\ q \in 0..Len(prog) /\ p \in 0..Len(prog)
      /\ Final(M) \in Memories /\ \A k \in 0..Len(prog) : Mem(N)[k] \in Memories /\ Mem(M)[k] \in Memories
  BY InBlockIs
<1>2. l.idx = "counter" /\ b # Arr(p, s) /\ ~LaterAt(p, s, b) /\ (b \notin Static => Same(p, b, d, v)) /\ b \in Arrays
  <2>1. GoodBlock(p, s, d, v)
    BY <1>1, BlockIs
  <2>2. b \in Arrays
    BY <1>1, LoadIs
  <2> QED
    BY <1>1, <2>1, <2>2 DEF GoodBlock
<1>3. \A mm : LoadValue(mm, l, N, 0) = mm[b][0]
  BY <1>2 DEF LoadValue, Index
<1>4. Agrees(S0, d, v, q, N) /\ BlockLike(S, S0, N, p, s - 1)
  BY DEF InBlock
<1> HIDE DEF b, m, n
<1>0. d \in Diffs /\ s \in 1..n /\ n \in Nat
  BY <1>1 DEF BlockReady
<1>5. CASE b \notin Written(prog[p])
  <2>1. NoStore(p, 1, s - 1, b)
    <3>1. \A k \in 1..(s - 1) : k \in 1..n
      BY <1>0
    <3> QED
      BY <1>1, <1>5, <3>1 DEF NoStore, Written
  <2>2. S.mem[b] = S0.mem[b]
    BY <1>2, <1>4, <2>1 DEF BlockLike
  <2>3. m[b] = Mem(N)[q][b]
    <3>1. s - 1 \in 0..n
      BY <1>1
    <3> QED
      BY <1>1, <1>2, <1>5, <3>1, NotWritten DEF m
  <2>4. S0.mem[b][0] = Mem(N)[q][b][0]
    <3>1. CASE b \notin Static
      <4>1. 0 \in 0..(N - 2) /\ N \in 2..MaxN /\ p \in DOMAIN prog
        BY <1>1
      <4>2. Same(p, b, d, v) /\ ~LaterAt(p, s, b) /\ b \in Arrays \ Static
        BY <1>2, <3>1
      <4>3. Agrees(S0, d, v, p - 1, N) /\ d \in Diffs
        BY <1>0, <1>4
      <4>4. PICK j \in 0..(N - 2) : j = 0
        BY <4>1
      <4>5. S0.mem[b][j] = Mem(N)[p - 1][b][j]
        BY <4>1, <4>2, <4>3, BelowSame
      <4> QED
        BY <4>4, <4>5
    <3>2. CASE b \in Static
      <4>1. S0.mem[b][0] = Mem(N)[q][b][0] + Behind(N, q, b)
        BY <1>4, <3>2 DEF Agrees
      <4>2. Mem(N)[q][b][0] \in Int /\ Mem(M)[q][b][0] \in Int
        BY <1>1, <1>2 DEF Memories
      <4>3. Final(M)[b] = Mem(M)[q][b]
        BY <1>1, <1>2, <1>5, FinalAlready
      <4>4. Behind(N, q, b) = 0
        BY <4>2, <4>3 DEF Behind
      <4> QED
        BY <4>1, <4>2, <4>4
    <3> QED
      BY <3>1, <3>2
  <2> QED
    BY <1>3, <2>2, <2>3, <2>4 DEF m
<1>6. CASE b \in Written(prog[p])
  <2>1. b \in Static
    BY <1>2, <1>6 DEF Same
  <2>2. PICK k \in DOMAIN prog[p].body : Arr(p, k) = b
    BY <1>6 DEF Written, Arr
  <2>3. k \in 1..(s - 1) /\ \A j \in DOMAIN prog[p].body : j # k => Arr(p, j) # b
    <3>1. k # s
      BY <1>2, <2>2
    <3>2. ~Accumulates(prog[p].body[k]) /\ \A j \in DOMAIN prog[p].body : j # k => Arr(p, j) # Arr(p, k)
      <4>1. BlockReady(p, d, v)
        BY <1>1
      <4> QED
        BY <4>1, BlockIs
    <3>3. k \notin (s + 1)..n
      BY <1>2, <2>2, <3>2 DEF LaterAt, Arr, b
    <3> QED
      <4>1. k \in 1..n
        BY <1>1
      <4>2. k \in 1..(s - 1)
        BY <1>0, <3>1, <3>3, <4>1
      <4> QED
        BY <2>2, <3>2, <4>2
  <2>4. StoredLike(S, S0, N, p, k)
    BY <1>4, <2>3 DEF BlockLike
  <2>5. S.mem[b][0] = Mem(N)[p][b][0]
    <3>1. CASE Unsupported(St(p, k))
      BY <2>2, <2>4, <3>1 DEF StoredLike
    <3>2. CASE ~Unsupported(St(p, k))
      <4>1. S.mem[b][0] = Final(M)[b][0] + Grown(N, p, b, 0)
        BY <2>1, <2>2, <2>4, <3>2 DEF StoredLike
      <4>2. Final(M)[b] = Mem(M)[p][b]
        BY <1>1, <1>2, FinalAlready
      <4>3. Mem(N)[p][b][0] \in Int /\ Mem(M)[p][b][0] \in Int
        BY <1>1, <1>2 DEF Memories, b
      <4> QED
        BY <4>1, <4>2, <4>3, Minus DEF Grown
    <3> QED
      BY <3>1, <3>2
  <2>6. m[b] = Mem(N)[p][b]
    <3>1. At(N, p, 0, n) = Mem(N)[p]
      BY <1>1, AtIs
    <3>2. s - 1 \in 0..n /\ n \in (s - 1)..n
      BY <1>0
    <3>3. NoStore(p, (s - 1) + 1, n, b)
      <4>1. k \in 1..(s - 1)
        BY <2>3
      <4>2. \A j \in ((s - 1) + 1)..n : j \in 1..n /\ j # k
        BY <1>0, <4>1
      <4>3. \A j \in 1..n : j # k => Arr(p, j) # b
        BY <1>1, <2>3
      <4> QED
        BY <4>2, <4>3 DEF NoStore, Arr
    <3>4. At(N, p, 0, n)[b] = At(N, p, 0, s - 1)[b]
      <4>1. p \in DOMAIN prog /\ N \in 1..MaxN /\ Counts(prog[p], N, 0) /\ b \in Arrays
        BY <1>1, <1>2
      <4> QED
        BY <3>2, <3>3, <4>1, Unstored DEF n
    <3> QED
      BY <3>1, <3>4 DEF m
  <2> QED
    BY <1>3, <2>5, <2>6 DEF m
<1> QED
  BY <1>5, <1>6

LEMMA BlockStep ==
  ASSUME Plain, NEW S, NEW S0, NEW N, NEW p, NEW s, NEW d, NEW v, InBlock(S, S0, N, p, s, d, v), NEW is, PlacedBlock(p, s, d, is)
  PROVE  BlockLike(Exec(prog, S, is, N), S0, N, p, s)
<1> DEFINE a == Arr(p, s)  st == St(p, s)  T == Exec(prog, S, is, N)  M == N - 1  m == At(N, p, 0, s - 1)  n == Len(prog[p].body)
<1>1. /\ N \in 2..MaxN /\ p \in DOMAIN prog /\ p \in Nat \ {0} /\ s \in DOMAIN prog[p].body /\ s \in Nat \ {0}
      /\ DOMAIN prog[p].body = 1..n /\ n \in Nat /\ BlockReady(p, d, v)
      /\ a \in Arrays /\ st \in Stores /\ st.arr = a /\ st = prog[p].body[s] /\ N \in 1..MaxN /\ 0 \in Cells /\ Counts(prog[p], N, 0)
      /\ S \in States /\ S.mem \in Memories /\ S0.regs \in Registers /\ DiffsHold(d, v, p - 1, N, S0.regs)
  BY InBlockIs
<1>2. S.mem[a] = S0.mem[a] /\ (a \in Static => S.mem[a][0] = Final(M)[a][0])
  BY NotStoredYet
<1>3. BlockEffect(S, T, N, p, s, d)
  BY <1>1, <1>2, EffectPlaced
<1> HIDE DEF T
<1>4. BlockLike(S, S0, N, p, s - 1)
  BY DEF InBlock
<1>5. T \in States /\ RegsAgree(T.regs, S0.regs, p)
  BY <1>3, <1>4 DEF BlockEffect, BlockLike, RegsAgree
<1>6. ASSUME NEW b \in Arrays, NoStore(p, 1, s, b) PROVE T.mem[b] = S0.mem[b]
  <2>1. b # a
    <3>1. s \in 1..s
      BY <1>1
    <3> QED
      BY <1>6, <3>1 DEF NoStore, Arr
  <2>2. NoStore(p, 1, s - 1, b)
    <3>1. \A k \in 1..(s - 1) : k \in 1..s
      BY <1>1
    <3> QED
      BY <1>6, <3>1 DEF NoStore
  <2>3. T.mem[b] = S.mem[b]
    BY <1>3, <2>1 DEF BlockEffect
  <2> QED
    BY <1>4, <2>2, <2>3 DEF BlockLike
<1>7. ASSUME NEW b \in Arrays, NEW j \in Cells, j # 0 PROVE T.mem[b][j] = S0.mem[b][j]
  <2>1. T.mem[b][j] = S.mem[b][j]
    BY <1>3, <1>7 DEF BlockEffect
  <2>2. S.mem[b][j] = S0.mem[b][j]
    BY <1>4, <1>7 DEF BlockLike
  <2> QED
    BY <2>1, <2>2
<1>8. StoredLike(T, S0, N, p, s)
  <2>1. CASE Unsupported(st)
    <3>1. T.mem[a][0] = StoreValue(S.mem, st, N, 0)
      BY <1>3, <2>1 DEF BlockEffect
    <3>2. Mem(N)[p][a][0] = StoreValue(m, st, N, 0) /\ m \in Memories
      BY <1>1, BlockLeaves
    <3>3. \A l \in DOMAIN st.loads : LoadValue(S.mem, st.loads[l], N, 0) = LoadValue(m, st.loads[l], N, 0)
      <4>1. \A l \in DOMAIN st.loads : st.loads[l] \in LoadsOf(st)
        BY DEF LoadsOf
      <4> QED
        BY <2>1, <4>1, BlockReads
    <3>4. StoreValue(S.mem, st, N, 0) = StoreValue(m, st, N, 0)
      <4> HIDE DEF m, st
      <4> QED
        BY <1>1, <3>2, <3>3, ValueSame
    <3> QED
      BY <2>1, <3>1, <3>2, <3>4 DEF StoredLike
  <2>2. CASE ~Unsupported(st) /\ a \in Static
    <3>1. T.mem[a][0] = Final(M)[a][0] + Recorded(BlockNote(p, s, d), N, S.regs)
      BY <1>3, <2>2 DEF BlockEffect
    <3>2. ExactBlock(p, s, d, v)
      BY <1>1, <2>2 DEF ExactBlock
    <3>3. Grown(N, p, a, 0) = Gain(st, d, N, S0.regs)
      BY <1>1, <3>2, BlockGrows
    <3>4. /\ BlockNote(p, s, d) \in Seq(ValuesOver(LoadsTo(p - 1)))
          /\ Recorded(BlockNote(p, s, d), N, S0.regs) = Gain(st, d, N, S0.regs)
      BY <1>1, <3>2, NoteWorth
    <3>5. Recorded(BlockNote(p, s, d), N, S.regs) = Recorded(BlockNote(p, s, d), N, S0.regs)
      <4>1. RegsAgree(S.regs, S0.regs, p) /\ p \in Int
        BY <1>1, <1>4 DEF BlockLike
      <4> QED
        BY <3>4, <4>1, RecordedBefore
    <3> QED
      BY <2>2, <3>1, <3>3, <3>4, <3>5 DEF StoredLike
  <2>3. CASE ~Unsupported(st) /\ a \notin Static
    BY <1>2, <1>3, <2>3 DEF BlockEffect, StoredLike
  <2> QED
    BY <2>1, <2>2, <2>3
<1>9. ASSUME NEW q \in 1..s PROVE StoredLike(T, S0, N, p, q)
  <2>1. CASE q = s
    BY <1>8, <2>1
  <2>2. CASE q # s
    <3> HIDE DEF n
    <3>1. q \in 1..(s - 1) /\ q \in 1..n
      BY <1>1, <2>2
    <3>2. q \in DOMAIN prog[p].body
      BY <1>1, <3>1
    <3>3. Arr(p, q) # a /\ Arr(p, q) \in Arrays
      BY <1>1, <2>2, <3>2, BlockIs
    <3>4. T.mem[Arr(p, q)] = S.mem[Arr(p, q)]
      BY <1>3, <3>3 DEF BlockEffect
    <3>5. StoredLike(S, S0, N, p, q)
      BY <1>4, <3>1 DEF BlockLike
    <3> QED
      BY <3>4, <3>5 DEF StoredLike
  <2> QED
    BY <2>1, <2>2
<1>10. BlockLike(T, S0, N, p, s)
  BY <1>5, <1>6, <1>7, <1>9 DEF BlockLike
<1> QED
  BY <1>10 DEF T

AllBlockPlaced(p, d, pl) ==
  /\ DOMAIN pl = DOMAIN prog[p].body
  /\ \A s \in DOMAIN prog[p].body : PlacedBlock(p, s, d, pl[s])

LEMMA BlockRuns ==
  ASSUME Plain, NEW N \in 2..MaxN, NEW p, NEW d, NEW v, BlockReady(p, d, v), NEW S0, Agrees(S0, d, v, p - 1, N),
         NEW X, NEW pl \in Seq(Seq(X)), AllBlockPlaced(p, d, pl)
  PROVE  BlockLike(Exec(prog, S0, FlattenSeq(pl), N), S0, N, p, Len(prog[p].body))
<1> DEFINE n == Len(prog[p].body)
<1>1. p \in DOMAIN prog /\ DOMAIN prog[p].body = 1..n /\ n \in Nat
  BY PlainIs DEF BlockReady
<1>2. Len(pl) = n
  <2>1. DOMAIN pl = 1..Len(pl) /\ Len(pl) \in Nat
    OBVIOUS
  <2> QED
    BY <1>1, <2>1 DEF AllBlockPlaced
<1>a. PICK run : Pieces(run, S0, pl, N)
  BY ExecFlat
<1>3. /\ run[0] = S0 /\ Exec(prog, S0, FlattenSeq(pl), N) = run[Len(pl)]
      /\ \A k \in 1..Len(pl) : run[k] = Exec(prog, run[k - 1], pl[k], N)
  BY <1>a DEF Pieces
<1> DEFINE Good == {k \in 0..n : BlockLike(run[k], S0, N, p, k)}
<1>4. 0 \in Good
  <2>1. S0 \in States /\ RegsAgree(S0.regs, S0.regs, p)
    BY DEF Agrees, RegsAgree
  <2>2. BlockLike(S0, S0, N, p, 0)
    BY <2>1 DEF BlockLike
  <2> QED
    BY <1>1, <1>3, <2>2
<1>5. ASSUME NEW k \in 0..(n - 1), k \in Good PROVE k + 1 \in Good
  <2> DEFINE s == k + 1
  <2>1. s \in DOMAIN prog[p].body /\ s - 1 = k /\ s \in 1..n /\ s \in 0..n
    <3>1. DOMAIN prog[p].body = 1..n /\ n \in Nat /\ k \in 0..(n - 1)
      BY <1>1
    <3> HIDE DEF n
    <3> QED
      BY <3>1
  <2>2. run[s] = Exec(prog, run[k], pl[s], N)
    BY <1>2, <1>3, <2>1
  <2>3. BlockLike(run[k], S0, N, p, s - 1)
    BY <1>5, <2>1
  <2> HIDE DEF s
  <2>4. InBlock(run[k], S0, N, p, s, d, v)
    BY <2>1, <2>3 DEF InBlock
  <2>5. PlacedBlock(p, s, d, pl[s])
    BY <2>1 DEF AllBlockPlaced
  <2>6. BlockLike(Exec(prog, run[k], pl[s], N), S0, N, p, s)
    BY <2>4, <2>5, BlockStep
  <2> QED
    BY <2>1, <2>2, <2>6 DEF s
<1> HIDE DEF Good
<1>6. 0..n \subseteq Good
  BY <1>1, <1>4, <1>5, SetInduction
<1>7. n \in Good
  <2> HIDE DEF n
  <2>1. n \in 0..n
    BY <1>1
  <2> QED
    BY <1>6, <2>1
<1> QED
  BY <1>2, <1>3, <1>7 DEF Good

(* What the pass has recorded when it leaves a block. *)
BlockLeft(p, d, v, d1, v1) ==
  /\ BlockReady(p, d, v) /\ Outside(p, d, v, d1, v1)
  /\ \A s \in DOMAIN prog[p].body : /\ d1[prog[p].body[s].arr] = BlockNote(p, s, d)
                                    /\ prog[p].body[s].arr \notin v1 => ExactBlock(p, s, d, v)

LEMMA BlockLeftIs ==
  ASSUME Plain, NEW p, NEW d, NEW v, NEW d1, NEW v1, BlockLeft(p, d, v, d1, v1), NEW a \in Written(prog[p])
  PROVE  \E s \in DOMAIN prog[p].body : /\ Arr(p, s) = a /\ d1[a] = BlockNote(p, s, d) /\ (a \notin v1 => ExactBlock(p, s, d, v))
                                        /\ ~StoredBy(a, p - 1) /\ \A q \in DOMAIN prog[p].body : q # s => Arr(p, q) # a
<1>1. PICK s \in DOMAIN prog[p].body : prog[p].body[s].arr = a
  BY DEF Written
<1>2. Arr(p, s) = a /\ BlockReady(p, d, v)
  BY <1>1 DEF Arr, BlockLeft
<1>3. ~StoredBy(a, p - 1) /\ \A q \in DOMAIN prog[p].body : q # s => Arr(p, q) # a
  BY <1>2, BlockIs
<1> QED
  BY <1>1, <1>2, <1>3 DEF BlockLeft

LEMMA BlockRestarts ==
  ASSUME Plain, NEW p, NEW d, NEW v, BlockReady(p, d, v), NEW s \in DOMAIN prog[p].body, ~StoredBy(Arr(p, s), p - 1),
         \A q \in DOMAIN prog[p].body : q # s => Arr(p, q) # Arr(p, s)
  PROVE  RestartedBy(Arr(p, s), p) <=> Unsupported(St(p, s))
<1> DEFINE a == Arr(p, s)
<1>1. p \in Nat \ {0} /\ ~prog[p].loop /\ p \in 1..p
  <2>1. p \in Nat \ {0} /\ ~prog[p].loop
    BY BlockIs DEF BlockReady
  <2> QED
    BY <2>1
<1>2. \A q \in 1..p : q = p \/ q \in 1..(p - 1)
  BY <1>1
<1>3. \A q \in 1..(p - 1) : a \notin Written(prog[q])
  BY DEF StoredBy
<1>4. RestartedBy(a, p) <=> \E k \in DOMAIN prog[p].body : prog[p].body[k].arr = a /\ Restarts(prog[p].loop, prog[p].body[k])
  BY <1>1, <1>2, <1>3 DEF RestartedBy, Written
<1>5. \A k \in DOMAIN prog[p].body : Arr(p, k) = prog[p].body[k].arr /\ St(p, k) = prog[p].body[k]
  BY DEF Arr, St
<1> QED
  BY <1>1, <1>4, <1>5 DEF Restarts

LEMMA BlockScalars ==
  ASSUME Plain, NEW N \in 2..MaxN, NEW p, NEW d, NEW v, NEW d1, NEW v1, BlockLeft(p, d, v, d1, v1),
         NEW S0, Agrees(S0, d, v, p - 1, N), NEW T, BlockLike(T, S0, N, p, Len(prog[p].body)), NEW x \in Static
  PROVE  T.mem[x][0] = Mem(N)[p][x][0] + Behind(N, p, x)
<1> DEFINE n == Len(prog[p].body)  q == p - 1  M == N - 1
<1>1. /\ BlockReady(p, d, v) /\ p \in DOMAIN prog /\ DOMAIN prog[p].body = 1..n /\ n \in Nat /\ x \in Arrays
  BY PlainIs, StaticAssumption DEF BlockLeft, BlockReady
<1>2. /\ Mem(N)[p][x][0] \in Int /\ Mem(M)[p][x][0] \in Int /\ Final(M)[x][0] \in Int
  <2>1. p \in 0..Len(prog) /\ 0 \in Cells /\ N \in 1..MaxN /\ M \in 1..MaxN
    BY <1>1, BlockCounts DEF Plain
  <2>2. Mem(N)[p] \in Memories /\ Mem(M)[p] \in Memories /\ Final(M) \in Memories
    BY <2>1, MemIs, FinalType
  <2> QED
    BY <1>1, <2>1, <2>2 DEF Memories
<1>3. CASE x \notin Written(prog[p])
  <2>1. NoStore(p, 1, n, x)
    BY <1>1, <1>3 DEF NoStore, Written
  <2>2. T.mem[x] = S0.mem[x]
    BY <1>1, <2>1 DEF BlockLike
  <2>3. S0.mem[x][0] = Mem(N)[q][x][0] + Behind(N, q, x)
    BY DEF Agrees
  <2>4. Mem(N)[p][x] = Mem(N)[q][x] /\ Behind(N, p, x) = Behind(N, q, x)
    BY <1>1, <1>3, SameHere
  <2> QED
    BY <2>2, <2>3, <2>4
<1>4. CASE x \in Written(prog[p])
  <2>1. PICK s \in DOMAIN prog[p].body : /\ Arr(p, s) = x /\ ~StoredBy(x, q)
                                         /\ \A k \in DOMAIN prog[p].body : k # s => Arr(p, k) # x
    BY <1>4, BlockLeftIs
  <2>2. RestartedBy(x, p) <=> Unsupported(St(p, s))
    BY <1>1, <2>1, BlockRestarts
  <2>3. StoredLike(T, S0, N, p, s)
    BY <1>1 DEF BlockLike
  <2>4. CASE Unsupported(St(p, s))
    <3>1. Behind(N, p, x) = 0
      BY <2>2, <2>4 DEF Behind
    <3>2. T.mem[x][0] = Mem(N)[p][x][0]
      BY <2>1, <2>3, <2>4 DEF StoredLike
    <3> QED
      BY <1>2, <3>1, <3>2
  <2>5. CASE ~Unsupported(St(p, s))
    <3>1. Behind(N, p, x) = Final(M)[x][0] - Mem(M)[p][x][0]
      BY <2>2, <2>5 DEF Behind
    <3>2. T.mem[x][0] = Final(M)[x][0] + (Mem(N)[p][x][0] - Mem(M)[p][x][0])
      BY <2>1, <2>3, <2>5 DEF StoredLike, Grown
    <3> QED
      BY <1>2, <3>1, <3>2
  <2> QED
    BY <2>4, <2>5
<1> QED
  BY <1>3, <1>4

LEMMA BlockHolds ==
  ASSUME Plain, NEW N \in 2..MaxN, NEW p, NEW d, NEW v, NEW d1, NEW v1, BlockLeft(p, d, v, d1, v1),
         NEW S0, Agrees(S0, d, v, p - 1, N), NEW regs \in Registers, RegsAgree(regs, S0.regs, p),
         NEW a \in Arrays \ v1, NEW k \in 0..(N - 2)
  PROVE  Grown(N, p, a, Index(a, k)) = IF PartialAt(a, p) /\ k > 0 THEN 0 ELSE Recorded(d1[a], N, regs)
<1> DEFINE q == p - 1  M == N - 1
<1>1. /\ BlockReady(p, d, v) /\ p \in DOMAIN prog /\ p \in Nat \ {0} /\ d \in DiffsTo(q) /\ DiffsHold(d, v, q, N, S0.regs) /\ ~prog[p].loop
      /\ Outside(p, d, v, d1, v1) /\ p \in 0..Len(prog)
  BY DEF BlockLeft, BlockReady, Agrees, Plain
<1>2. CASE a \notin Written(prog[p])
  BY <1>1, <1>2, OutsideHolds
<1>3. CASE a \in Written(prog[p])
  <2>1. PICK s \in DOMAIN prog[p].body : Arr(p, s) = a /\ d1[a] = BlockNote(p, s, d) /\ ExactBlock(p, s, d, v) /\ ~StoredBy(a, q)
    BY <1>3, BlockLeftIs
  <2>2. CASE a \in Static \/ k = 0
    <3>1. Index(a, k) = 0 /\ ~(PartialAt(a, p) /\ k > 0)
      BY <2>2 DEF Index, IsStatic, PartialAt
    <3>2. DiffsHold(d, v, q, N, regs)
      BY <1>1, DiffsHoldKept
    <3>3. Grown(N, p, a, 0) = Gain(St(p, s), d, N, regs)
      BY <1>1, <2>1, <3>2, BlockGrows
    <3>4. Recorded(d1[a], N, regs) = Gain(St(p, s), d, N, regs)
      BY <1>1, <2>1, NoteWorth
    <3> QED
      BY <3>1, <3>3, <3>4
  <2>3. CASE a \notin Static /\ k # 0
    <3>1. Index(a, k) = k /\ k > 0
      BY <2>3 DEF Index, IsStatic
    <3>2. \A j \in 1..p : a \in Written(prog[j]) => ~prog[j].loop
      <4>1. \A j \in 1..p : j = p \/ j \in 1..q
        BY <1>1
      <4> QED
        BY <1>1, <2>1, <4>1 DEF StoredBy
    <3>3. PartialAt(a, p)
      BY <2>3, <3>2 DEF PartialAt, IsStatic
    <3>4. N \in 1..MaxN /\ M \in 1..MaxN
      BY <1>1, BlockCounts
    <3>5. k \in Cells /\ a \in Arrays \ Static
      BY <2>3, <3>4, MaxNAssumption DEF Cells
    <3>6. Mem(N)[p][a][k] = At0[a][k]
      BY <1>1, <2>3, <3>2, <3>4, <3>5, NeverReached
    <3>7. Mem(M)[p][a][k] = At0[a][k]
      BY <1>1, <2>3, <3>2, <3>4, <3>5, NeverReached
    <3>8. At0[a][k] \in Int
      BY <3>5, At0Type DEF Memories
    <3>9. Grown(N, p, a, k) = 0
      BY <3>6, <3>7, <3>8 DEF Grown
    <3> QED
      BY <3>1, <3>3, <3>9
  <2> QED
    BY <2>2, <2>3
<1> QED
  BY <1>2, <1>3

LEMMA BlockOld ==
  ASSUME Plain, NEW N \in 2..MaxN, NEW p, NEW d, NEW v, NEW d1, NEW v1, BlockLeft(p, d, v, d1, v1),
         NEW S0, Agrees(S0, d, v, p - 1, N), NEW T, BlockLike(T, S0, N, p, Len(prog[p].body)),
         NEW a \in Arrays \ Static, NEW j \in 0..(N - 2)
  PROVE  StillOld(T.mem, d1, v1, p, N, a, j)
<1> DEFINE n == Len(prog[p].body)  q == p - 1  M == N - 1
<1>1. /\ BlockReady(p, d, v) /\ p \in DOMAIN prog /\ p \in Nat \ {0} /\ DOMAIN prog[p].body = 1..n /\ n \in Nat /\ N \in 1..MaxN
      /\ Outside(p, d, v, d1, v1)
  BY PlainIs, BlockCounts DEF BlockLeft, BlockReady, Plain
<1>2. StillOld(S0.mem, d, v, q, N, a, j)
  BY DEF Agrees
<1>3. CASE a \notin Written(prog[p])
  <2>1. NoStore(p, 1, n, a)
    BY <1>1, <1>3 DEF NoStore, Written
  <2>2. T.mem[a] = S0.mem[a]
    BY <1>1, <2>1 DEF BlockLike
  <2> QED
    BY <1>1, <1>2, <1>3, <2>2, OutsideOld
<1>4. CASE a \in Written(prog[p])
  <2>1. PICK s \in DOMAIN prog[p].body : /\ Arr(p, s) = a /\ d1[a] = BlockNote(p, s, d) /\ (a \notin v1 => ExactBlock(p, s, d, v))
                                         /\ ~StoredBy(a, p - 1) /\ \A k \in DOMAIN prog[p].body : k # s => Arr(p, k) # a
    BY <1>4, BlockLeftIs
  <2>2. S0.mem[a][j] = Final(M)[a][j]
    BY <1>2, <2>1 DEF StillOld
  <2>3. StoredLike(T, S0, N, p, s)
    BY <1>1 DEF BlockLike
  <2>4. CASE j # 0
    <3>1. j \in Cells
      BY <1>1, MaxNAssumption DEF Cells
    <3>2. T.mem[a][j] = S0.mem[a][j]
      BY <2>4, <3>1 DEF BlockLike
    <3> QED
      BY <2>2, <3>2 DEF StillOld
  <2>5. CASE j = 0 /\ ~Unsupported(St(p, s))
    <3>1. T.mem[a][j] = S0.mem[a][j]
      BY <2>1, <2>3, <2>5 DEF StoredLike
    <3> QED
      BY <2>2, <3>1 DEF StillOld
  <2>6. CASE j = 0 /\ Unsupported(St(p, s))
    <3>1. T.mem[a][0] = Mem(N)[p][a][0]
      BY <2>1, <2>3, <2>6 DEF StoredLike
    <3>2. d1[a] = <<>>
      BY <2>1, <2>6 DEF BlockNote, Unsupported, St
    <3>3. StoredBy(a, p)
      <4>1. p \in 1..p
        BY <1>1
      <4> QED
        BY <1>4, <4>1 DEF StoredBy
    <3> QED
      BY <2>6, <3>1, <3>2, <3>3 DEF StillOld
  <2> QED
    BY <2>4, <2>5, <2>6
<1> QED
  BY <1>3, <1>4

LEMMA BlockAgrees ==
  ASSUME Plain, NEW N \in 2..MaxN, NEW p, NEW d, NEW v, NEW d1, NEW v1, BlockLeft(p, d, v, d1, v1),
         NEW S0, Agrees(S0, d, v, p - 1, N), NEW T, BlockLike(T, S0, N, p, Len(prog[p].body))
  PROVE  Agrees(T, d1, v1, p, N)
<1> DEFINE M == N - 1
<1>1. T \in States /\ T.regs \in Registers /\ RegsAgree(T.regs, S0.regs, p)
  BY DEF BlockLike, States
<1>2. ASSUME NEW a \in Arrays \ Static PROVE T.mem[a][M] = Mem(N)[p][a][M]
  <2>1. M \in Cells /\ M # 0 /\ p \in DOMAIN prog /\ ~prog[p].loop /\ N \in 1..MaxN
    BY BlockCounts DEF BlockLeft, BlockReady
  <2>2. T.mem[a][M] = S0.mem[a][M]
    BY <2>1 DEF BlockLike
  <2>3. S0.mem[a][M] = Mem(N)[p - 1][a][M]
    BY DEF Agrees
  <2>4. Mem(N)[p][a][M] = Mem(N)[p - 1][a][M]
    <3> HIDE DEF M
    <3> QED
      BY <2>1, NotReached
  <2> QED
    BY <2>2, <2>3, <2>4
<1>3. \A x \in Static : T.mem[x][0] = Mem(N)[p][x][0] + Behind(N, p, x)
  BY BlockScalars
<1>4. ASSUME NEW a \in Arrays \ v1, NEW k \in 0..(N - 2)
      PROVE  Grown(N, p, a, Index(a, k)) = IF PartialAt(a, p) /\ k > 0 THEN 0 ELSE Recorded(d1[a], N, T.regs)
  BY <1>1, BlockHolds
<1>5. \A a \in Arrays \ Static, j \in 0..(N - 2) : StillOld(T.mem, d1, v1, p, N, a, j)
  BY BlockOld
<1> QED
  BY <1>1, <1>2, <1>3, <1>4, <1>5 DEF Agrees, DiffsHold
=============================================================================
