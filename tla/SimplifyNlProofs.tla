-------------------------- MODULE SimplifyNlProofs --------------------------
(***************************************************************************)
(* Proofs about simplify_nl, for every function: that the pass keeps to    *)
(* the items it can build, that it is done with a nest only when no inner  *)
(* loop is left in it, what the checks it makes would be enough for, and   *)
(* that a function whose pass ends without a warning computes in every     *)
(* memory what it computed before.                                         *)
(***************************************************************************)
EXTENDS NestedRun, NaturalSets, SequenceTheorems

LEMMA FunctionsAreNests == Functions \subseteq Seq(Nests)
<1>1. Sources \subseteq Nests
  BY DEF Sources, Nests
<1> QED
  BY <1>1, FunctionsAssumption

(* An item is what its kind says. *)
LEMMA ItemKinds ==
  ASSUME NEW body \in Nests
  PROVE  /\ \A p \in StoresAt(body) : body[p] \in Stores
         /\ \A p \in LoopsAt(body) : body[p] \in Loops
<1>1. \A p \in DOMAIN body : body[p] \in Stores \cup Loops \cup ClosedForms
  BY DEF Nests
<1>2. \A x \in Stores : x.kind = "store"
  BY DEF Stores
<1>3. \A x \in Loops : x.kind = "loop"
  BY DEF Loops
<1>4. \A x \in ClosedForms : x.kind = "closed"
  BY DEF ClosedForms
<1> QED
  BY <1>1, <1>2, <1>3, <1>4 DEF StoresAt, LoopsAt

LEMMA FirstStoresType ==
  ASSUME NEW body \in Nests PROVE FirstStores(body) \subseteq Stores
BY ItemKinds DEF FirstStores

LEMMA InnerBody ==
  ASSUME NEW lp \in Loops PROVE lp.body \in Nests
BY DEF Loops, Nests

LEMMA TermTypes ==
  ASSUME NEW t \in Terms, NEW u \in Terms
  PROVE  Add(t, u) \in Terms /\ Sub(t, u) \in Terms
BY DEF Terms, Add, Sub

LEMMA NumType == \A v \in Int : Num(v) \in Terms
BY DEF Terms, Num

LEMMA ConstantTerms == SizeN \in Terms /\ Outer \in Terms
BY DEF Terms, SizeN, Outer

-----------------------------------------------------------------------------
(* What the pass builds are items again. *)
LEMMA StoreFields ==
  ASSUME NEW st \in Stores
  PROVE  /\ st.arr \in Arrays /\ st.idx \in Indices
         /\ st.op \in {"none", "add", "sub", "mul"}
         /\ st.l \in Operands /\ st.r \in Operands /\ st # None
BY DEF Stores, None

LEMMA RecTermType ==
  ASSUME NEW st \in Stores, RecTerm(st) # None
  PROVE  RecTerm(st) \in Operands /\ st.op \in {"add", "sub", "mul"}
BY StoreFields DEF RecTerm

LEMMA LoopFields ==
  ASSUME NEW lp \in Loops
  PROVE  /\ lp.init \in Terms /\ lp.exit \in Terms /\ lp.strict \in BOOLEAN
         /\ lp.step \in {1, -1, 2} /\ lp.body \in Seq(Stores)
         /\ StepCount(lp) \in Int
         /\ Num(StepCount(lp)) \in Terms
BY NumType DEF Loops, StepCount

LEMMA MultipleType ==
  ASSUME NEW st \in Stores, NEW lp \in Loops
  PROVE  Multiple(st, lp) \in Terms
<1>1. /\ lp.init \in Terms /\ lp.exit \in Terms /\ lp.strict \in BOOLEAN
      /\ StepCount(lp) \in Int /\ Num(StepCount(lp)) \in Terms
  BY LoopFields
<1>2. ClonedExit(lp) \in Terms
  BY <1>1, TermTypes DEF ClonedExit
<1>3. IterationsOf(lp) \in Terms
  BY <1>1, <1>2, TermTypes DEF IterationsOf
<1>4. InitBound(lp) \in Terms /\ ExitBound(lp) \in Terms
  BY <1>1, TermTypes DEF InitBound, ExitBound
<1>5. lp.init.c \in Int /\ ExitBound(lp).c \in Int
  BY <1>1, <1>4 DEF Terms
<1>6. Num(1) \in Terms
  BY NumType
<1>7. ReachesUpwards(lp) \in Terms
  BY <1>1, <1>2, <1>6, TermTypes, ConstantTerms DEF ReachesUpwards
<1>8. ReachesDownwards(lp) \in Terms
  BY <1>1, <1>2, <1>6, TermTypes, ConstantTerms DEF ReachesDownwards
<1> QED
  BY <1>3, <1>7, <1>8 DEF Multiple, ReachesOf

LEMMA CloneType == ASSUME NEW o \in Operands PROVE cloneExpr(o) \in Operands
<1>1. CASE o.kind = "term"
  <2>1. o.term \in Terms
    BY <1>1 DEF Operands
  <2>2. [c |-> o.term.c, n |-> o.term.n, i |-> o.term.i + o.term.j, j |-> 0] \in Terms
    BY <2>1 DEF Terms
  <2> QED
    BY <1>1, <2>2 DEF cloneExpr, Term, Operands
<1>2. CASE o.kind # "term"
  <2>1. o.kind = "load" /\ o.arr \in Arrays /\ o.idx \in Indices
    BY <1>2 DEF Operands
  <2> QED
    BY <1>2, <2>1 DEF cloneExpr, Load, Operands, Indices
<1> QED
  BY <1>1, <1>2

LEMMA ClosedFormType ==
  ASSUME NEW st \in Stores, NEW lp \in Loops, NEW ls \in Stores \cup {None},
         RecTerm(st) # None, ls # None => RecTerm(ls) # None
  PROVE  ClosedForm(st, lp, ls) \in ClosedForms
<1>1. st.arr \in Arrays /\ st.idx \in Indices /\ st.op \in {"add", "sub", "mul"}
  BY StoreFields, RecTermType
<1>2. cloneExpr(RecTerm(st)) \in Operands /\ Multiple(st, lp) \in Terms
  BY RecTermType, CloneType, MultipleType
<1>3. ASSUME OuterTermKept(ls)
      PROVE  ls.op \in {"add", "sub", "mul"} /\ cloneExpr(RecTerm(ls)) \in Operands
  BY <1>3, RecTermType, CloneType DEF OuterTermKept
<1>4. Term(Num(0)) \in Operands
  BY NumType DEF Operands, Term
<1>5. "outer" \in Indices
  BY DEF Indices
<1> QED
  BY <1>1, <1>2, <1>3, <1>4, <1>5 DEF ClosedForm, ClosedForms

-----------------------------------------------------------------------------
(* The body that is left is a body again. *)
LEMMA PlaceIs ==
  ASSUME NEW body \in Nests, NEW item
  PROVE  /\ Place(body, item) \in 0..Len(body)
         /\ (\E p \in DOMAIN body : body[p] = item)
              => Place(body, item) \in DOMAIN body /\ body[Place(body, item)] = item
<1> DEFINE T == {p \in 1..Len(body) : body[p] = item}
<1>1. T \in SUBSET Nat /\ Len(body) \in Nat /\ DOMAIN body = 1..Len(body)
  BY DEF Nests
<1>2. Place(body, item) = IF T # {} THEN Min(T) ELSE 0
  BY DEF Place, SelectInSeq
<1>3. ASSUME T # {} PROVE Min(T) \in T
  <2>1. \E m \in T : \A n \in T : m <= n
    <3> HIDE DEF T
    <3> QED
      BY <1>1, <1>3, LeastNatural
  <2> QED
    BY <2>1 DEF Min
<1>4. CASE T # {}
  BY <1>1, <1>2, <1>3, <1>4
<1>5. CASE T = {}
  BY <1>1, <1>2, <1>5
<1> QED
  BY <1>4, <1>5

LEMMA PutAt ==
  ASSUME NEW body \in Nests, NEW p \in Int, NEW form \in ClosedForms
  PROVE  ReplaceAt(body, p, form) \in Nests
<1> DEFINE Items == Stores \cup Loops \cup ClosedForms
<1>1. body \in Seq(Items) /\ form \in Items
  BY DEF Nests
<1> HIDE DEF Items
<1>2. [body EXCEPT ![p] = form] \in Seq(Items)
  <2>1. CASE p \in 1..Len(body)
    BY <1>1, <2>1, ExceptSeq
  <2>2. CASE p \notin 1..Len(body)
    <3>1. PICK n \in Nat : body \in [1..n -> Items]
      BY <1>1, SeqDef
    <3>2. n = Len(body)
      BY <1>1, <3>1
    <3>3. [body EXCEPT ![p] = form] = body
      BY <2>2, <3>1, <3>2
    <3> QED
      BY <1>1, <3>3
  <2> QED
    BY <2>1, <2>2
<1> QED
  BY <1>2 DEF Items, Nests, ReplaceAt

LEMMA TakenOut ==
  ASSUME NEW body \in Nests, NEW item
  PROVE  RemoveFirst(body, item) \in Nests
<1> DEFINE Items == Stores \cup Loops \cup ClosedForms
           p == Place(body, item)
<1>1. body \in Seq(Items) /\ Len(body) \in Nat /\ DOMAIN body = 1..Len(body)
  BY DEF Nests
<1>2. CASE ~ \E q \in 1..Len(body) : body[q] = item
  BY <1>2 DEF RemoveFirst
<1>3. CASE \E q \in 1..Len(body) : body[q] = item
  <2>1. RemoveFirst(body, item) = SubSeq(body, 1, p - 1) \o SubSeq(body, p + 1, Len(body))
    BY <1>3 DEF RemoveFirst, RemoveAt, Place
  <2>2. p \in 1..Len(body)
    BY <1>1, <1>3, PlaceIs
  <2>3. \A q \in 1..Len(body) : body[q] \in Items
    BY <1>1
  <2> HIDE DEF p, Items
  <2>4. SubSeq(body, 1, p - 1) \in Seq(Items)
    <3>1. \A q \in 1..(p - 1) : body[q] \in Items
      BY <1>1, <2>2, <2>3
    <3> QED
      BY <2>2, <3>1, SubSeqProperties
  <2>5. SubSeq(body, p + 1, Len(body)) \in Seq(Items)
    <3>1. \A q \in (p + 1)..Len(body) : body[q] \in Items
      BY <1>1, <2>2, <2>3
    <3> QED
      BY <1>1, <2>2, <3>1, SubSeqProperties
  <2> QED
    BY <2>1, <2>4, <2>5, ConcatProperties DEF Items, Nests
<1> QED
  BY <1>2, <1>3

(* What is left of a body without the item at p. *)
Without(body, p, R) ==
  /\ R \in Nests /\ Len(R) = Len(body) - 1
  /\ \A x \in 1..(p - 1) : R[x] = body[x]
  /\ \A x \in (p + 1)..Len(body) : R[x - 1] = body[x]

(* What is left of a body when an item is taken out. *)
LEMMA TakenIs ==
  ASSUME NEW body \in Nests, NEW item, NEW q \in DOMAIN body, body[q] = item
  PROVE  /\ Place(body, item) \in 1..Len(body) /\ body[Place(body, item)] = item
         /\ Without(body, Place(body, item), RemoveFirst(body, item))
<1> DEFINE Items == Stores \cup Loops \cup ClosedForms
           p == Place(body, item)
           L == Len(body)
           one == SubSeq(body, 1, p - 1)
           two == SubSeq(body, p + 1, L)
           R == RemoveFirst(body, item)
<1>1. body \in Seq(Items) /\ L \in Nat /\ DOMAIN body = 1..L
  BY DEF Nests
<1>2. p \in 1..L /\ body[p] = item
  BY <1>1, PlaceIs
<1>3. R = one \o two
  BY <1>1 DEF RemoveFirst, RemoveAt, Place
<1>4. \A x \in 1..L : body[x] \in Items
  BY <1>1
<1>5. R \in Nests
  BY TakenOut
<1> HIDE DEF p, Items, L, one, two, R
<1>6. /\ one \in Seq(Items) /\ Len(one) = p - 1 /\ \A x \in 1..(p - 1) : one[x] = body[x]
  <2>1. \A x \in 1..(p - 1) : body[x] \in Items
    BY <1>1, <1>2, <1>4
  <2>2. /\ one \in Seq(Items) /\ Len(one) = IF 1 <= p - 1 THEN p - 1 - 1 + 1 ELSE 0
        /\ \A x \in 1..(p - 1 - 1 + 1) : one[x] = body[1 + x - 1]
    BY <1>2, <2>1, SubSeqProperties DEF one
  <2>3. \A x \in 1..(p - 1) : one[x] = body[x]
    <3>1. \A x \in 1..(p - 1) : x \in 1..(p - 1 - 1 + 1) /\ 1 + x - 1 = x
      BY <1>1, <1>2
    <3> QED
      BY <2>2, <3>1
  <2> QED
    BY <1>1, <1>2, <2>2, <2>3
<1>7. /\ two \in Seq(Items) /\ Len(two) = L - p /\ \A x \in (p + 1)..L : two[x - p] = body[x]
  <2>1. \A x \in (p + 1)..L : body[x] \in Items
    BY <1>1, <1>2, <1>4
  <2>2. /\ two \in Seq(Items) /\ Len(two) = IF p + 1 <= L THEN L - (p + 1) + 1 ELSE 0
        /\ \A x \in 1..(L - (p + 1) + 1) : two[x] = body[p + 1 + x - 1]
    BY <1>1, <1>2, <2>1, SubSeqProperties DEF two
  <2>3. \A x \in (p + 1)..L : two[x - p] = body[x]
    <3>1. \A x \in (p + 1)..L : x - p \in 1..(L - (p + 1) + 1) /\ p + 1 + (x - p) - 1 = x
      BY <1>1, <1>2
    <3> QED
      BY <2>2, <3>1
  <2> QED
    BY <1>1, <1>2, <2>2, <2>3
<1>8. /\ Len(R) = (p - 1) + (L - p)
      /\ \A x \in 1..((p - 1) + (L - p)) : R[x] = IF x <= p - 1 THEN one[x] ELSE two[x - (p - 1)]
  BY <1>3, <1>6, <1>7, ConcatProperties
<1>9. \A x \in 1..(p - 1) : R[x] = body[x]
  <2>1. \A x \in 1..(p - 1) : x \in 1..((p - 1) + (L - p)) /\ x <= p - 1
    BY <1>1, <1>2
  <2> QED
    BY <1>6, <1>8, <2>1
<1>10. \A x \in (p + 1)..L : R[x - 1] = body[x]
  <2>1. \A x \in (p + 1)..L : x - 1 \in 1..((p - 1) + (L - p)) /\ ~(x - 1 <= p - 1) /\ x - 1 - (p - 1) = x - p
    BY <1>1, <1>2
  <2> QED
    BY <1>7, <1>8, <2>1
<1>11. Len(R) = L - 1
  BY <1>1, <1>2, <1>8
<1> QED
  BY <1>1, <1>2, <1>5, <1>9, <1>10, <1>11 DEF p, L, R, Without

LEMMA ReplacedType ==
  ASSUME NEW body \in Nests, NEW lp, NEW ls, NEW form \in ClosedForms
  PROVE  Replaced(body, lp, ls, form) \in Nests
<1>1. Place(body, lp) \in Int /\ Place(body, ls) \in Int
  BY PlaceIs DEF Nests
<1> QED
  BY <1>1, PutAt, TakenOut DEF Replaced

-----------------------------------------------------------------------------
(* The pass adds no loop to the function and takes none away. *)
TypeInv ==
  /\ TypeOK
  /\ Len(out) = Len(prog)
  /\ nest <= Len(prog) => \A c \in DOMAIN subs : subs[c] \in LoopsAt(prog[nest])

(* What the pass looks at when it is at an inner loop. *)
LEMMA AtHand ==
  ASSUME TypeInv, AtLoop
  PROVE  /\ nest \in DOMAIN prog /\ nest \in DOMAIN out
         /\ out[nest] \in Nests /\ prog[nest] \in Nests
         /\ CurrentLoop \in Loops
         /\ FirstStores(CurrentLoop.body) \subseteq Stores
         /\ OuterStores(nest) \subseteq Stores \cup {None}
<1>1. prog \in Seq(Nests) /\ out \in Seq(Nests) /\ nest \in 1..Len(prog)
  BY FunctionsAreNests DEF TypeInv, TypeOK, AtLoop
<1>2. nest \in DOMAIN prog /\ nest \in DOMAIN out /\ out[nest] \in Nests /\ prog[nest] \in Nests
  BY <1>1 DEF TypeInv
<1>3. CurrentLoop \in Loops
  <2>1. loops + 1 \in DOMAIN subs
    BY DEF TypeInv, TypeOK, AtLoop, LoopEnd
  <2>2. Current \in LoopsAt(prog[nest])
    BY <2>1 DEF TypeInv, AtLoop, Current
  <2> QED
    BY <1>2, <2>2, ItemKinds DEF CurrentLoop
<1>4. FirstStores(CurrentLoop.body) \subseteq Stores
  BY <1>3, InnerBody, FirstStoresType
<1>5. OuterStores(nest) \subseteq Stores \cup {None}
  BY <1>2, FirstStoresType DEF OuterStores
<1> QED
  BY <1>2, <1>3, <1>4, <1>5

(* w lists the elements of P, each once. *)
Lists(n, P, w) ==
  /\ w \in [1..n -> P]
  /\ \A x \in P : \E c \in 1..n : w[c] = x
  /\ \A c, d \in 1..n : w[c] = w[d] => c = d

LEMMA SequenceOf ==
  ASSUME NEW m \in Nat, NEW f \in [1..m -> Nat]
  PROVE  f \in Seq(Nat) /\ Len(f) = m /\ DOMAIN f = 1..m
OBVIOUS

LEMMA UpToHas ==
  ASSUME NEW m \in Nat PROVE Cardinality(1..m) = m
<1>1. 1 \in Int /\ m \in Int
  OBVIOUS
<1>2. Cardinality(1..m) = IF 1 > m THEN 0 ELSE m - 1 + 1
  BY <1>1, FS_Interval
<1> QED
  BY <1>2

(* At a new loop the vector lists its inner loops. *)
LEMMA FreshVector ==
  ASSUME NEW k \in Nat \ {0}, k <= Len(prog), prog \in Seq(Nests), NEW s \in SubLoops(k)
  PROVE  /\ s \in Seq(Nat) /\ Len(s) \in Nat /\ DOMAIN s = 1..Len(s)
         /\ Lists(Len(s), LoopsAt(prog[k]), s)
<1> DEFINE at == LoopsAt(prog[k])
           m == Cardinality(at)
<1>1. k \in DOMAIN prog /\ prog[k] \in Nests
  OBVIOUS
<1>2. at \subseteq Nat /\ m \in Nat
  <2>1. at \subseteq 1..Len(prog[k]) /\ Len(prog[k]) \in Nat
    BY <1>1 DEF LoopsAt, Nests
  <2> HIDE DEF at
  <2>2. IsFiniteSet(1..Len(prog[k]))
    BY <2>1, FS_Interval
  <2>3. IsFiniteSet(at)
    BY <2>1, <2>2, FS_Subset
  <2> QED
    BY <2>1, <2>3, FS_CardinalityType
<1>3. s \in [1..m -> at] /\ (\A p \in at : \E c \in DOMAIN s : s[c] = p)
        /\ (\A c, d \in DOMAIN s : c < d => s[c] < s[d])
  BY <1>1 DEF SubLoops
<1> HIDE DEF at, m
<1>4. s \in Seq(Nat) /\ Len(s) = m /\ DOMAIN s = 1..m
  <2>1. s \in [1..m -> Nat]
    BY <1>2, <1>3
  <2> QED
    BY <1>2, <2>1
<1>5. ASSUME NEW c \in 1..m, NEW d \in 1..m, s[c] = s[d] PROVE c = d
  <2>1. s[c] \in Nat /\ s[d] \in Nat
    BY <1>4
  <2>2. ~(c < d) /\ ~(d < c)
    BY <1>3, <1>4, <1>5, <2>1
  <2> QED
    BY <1>2, <2>2
<1> QED
  BY <1>2, <1>3, <1>4, <1>5 DEF at, Lists

(* The vector of any loop, of one past the end too. *)
VectorTypes(k, s) ==
  /\ s \in Seq(Nat) /\ Len(s) \in Nat
  /\ k <= Len(prog) => \A c \in DOMAIN s : s[c] \in LoopsAt(prog[k])

LEMMA FreshTypes ==
  ASSUME NEW k \in Nat \ {0}, prog \in Seq(Nests), NEW s \in SubLoops(k)
  PROVE  VectorTypes(k, s)
<1>1. CASE k <= Len(prog)
  BY <1>1, FreshVector DEF VectorTypes, Lists
<1>2. CASE ~(k <= Len(prog))
  <2>1. k \notin DOMAIN prog
    BY <1>2
  <2>2. s \in [1..Cardinality({}) -> {}]
    BY <2>1 DEF SubLoops
  <2>3. Cardinality({}) = 0
    BY FS_EmptySet
  <2>4. s = << >>
    BY <2>2, <2>3
  <2> QED
    BY <1>2, <2>4 DEF VectorTypes
<1> QED
  BY <1>1, <1>2

(* The entries of the vector without the one of the current loop. *)
LEMMA EntriesAre ==
  ASSUME TypeInv, AtLoop, ~IsDestroyed
  PROVE  /\ Len(subs) \in Nat /\ loops \in Nat /\ loops < Len(subs) /\ DOMAIN subs = 1..Len(subs)
         /\ EntriesMoved \in Seq(Nat) /\ Len(EntriesMoved) = Len(subs)
         /\ \A c \in DOMAIN subs : EntriesMoved[c] \in LoopsAt(prog[nest])
         /\ \E r \in Left : /\ subs[r] = Current
                            /\ \A c \in 1..(Len(subs) - loops - 1) :
                                 EntriesMoved[c] = subs[IF c < r THEN c ELSE c + 1]
<1>1. /\ subs \in Seq(Nat) /\ Len(subs) \in Nat /\ DOMAIN subs = 1..Len(subs)
      /\ loops \in Nat /\ loops < Len(subs)
      /\ \A c \in DOMAIN subs : subs[c] \in LoopsAt(prog[nest])
  BY DEF TypeInv, TypeOK, AtLoop, LoopEnd
<1>2. \A c \in DOMAIN subs : EntriesMoved[c] \in {subs[d] : d \in DOMAIN subs}
  BY <1>1 DEF EntriesMoved, Left
<1>3. EntriesMoved \in Seq(Nat) /\ Len(EntriesMoved) = Len(subs)
  <2>1. \A d \in DOMAIN subs : subs[d] \in Nat
    BY <1>1
  <2>2. EntriesMoved \in [1..Len(subs) -> Nat]
    BY <1>1, <1>2, <2>1 DEF EntriesMoved
  <2> QED
    BY <1>1, <2>2, SequenceOf, Zenon
<1>4. \E r \in Left : subs[r] = Current /\ \A d \in Left : subs[d] = Current => r <= d
  <2> DEFINE T == {d \in Left : subs[d] = Current}
  <2>1. T \in SUBSET Nat /\ T # {}
    <3>1. Left \in SUBSET Nat
      BY <1>1 DEF Left
    <3>2. T \in SUBSET Nat
      BY <3>1
    <3>3. \E d \in Left : subs[d] = Current
      BY DEF IsDestroyed
    <3> QED
      BY <3>2, <3>3
  <2> HIDE DEF T
  <2>2. PICK r \in T : \A d \in T : r <= d
    BY <2>1, LeastNatural
  <2> QED
    BY <2>2 DEF T
<1>5. PICK r \in Left : subs[r] = Current /\ \A d \in Left : subs[d] = Current => r <= d
  BY <1>4
<1>6. ASSUME NEW c \in 1..(Len(subs) - loops - 1)
      PROVE  EntriesMoved[c] = subs[IF c < r THEN c ELSE c + 1]
  <2>1. c \in DOMAIN subs /\ c + 1 \in Left /\ c \in Int /\ r \in Int
    BY <1>1 DEF Left
  <2>2. (\E d \in 1..c : subs[d] = Current) <=> ~(c < r)
    <3>1. \A d \in 1..c : d \in Left
      BY <1>1 DEF Left
    <3>2. ~(c < r) => r \in 1..c
      BY <1>1, <2>1 DEF Left
    <3>3. \A d \in 1..c : subs[d] = Current => r <= d
      BY <1>5, <3>1
    <3>4. \A d \in 1..c : r <= d => ~(c < r)
      BY <2>1
    <3> QED
      BY <1>5, <3>2, <3>3, <3>4
  <2> QED
    BY <2>1, <2>2 DEF EntriesMoved
<1> QED
  BY <1>1, <1>2, <1>3, <1>5, <1>6

LEMMA SimplifyKeepsTypes ==
  ASSUME TypeInv, Simplify PROVE TypeInv'
<1>1. AtLoop
  BY DEF Simplify
<1>2. /\ nest \in DOMAIN prog /\ nest \in DOMAIN out /\ out[nest] \in Nests
      /\ CurrentLoop \in Loops
  BY <1>1, AtHand
<1>3. PICK st \in FirstStores(CurrentLoop.body), ls \in OuterStores(nest) :
        /\ ~IsUndefined(st, ls) /\ InScope(nest, CurrentLoop, st, ls)
        /\ out' = [out EXCEPT ![nest] = Replaced(@, CurrentLoop, ls, ClosedForm(st, CurrentLoop, ls))]
        /\ erased' = IF ls = None THEN erased ELSE erased \cup {<<nest, ls>>}
        /\ ignored' = ignored \cup Forgotten(nest, CurrentLoop, st, ls)
        /\ gaps' = gaps \cup GapsAt(nest, CurrentLoop, st, ls)
  BY DEF Simplify
<1>4. st \in Stores /\ ls \in Stores \cup {None}
  BY <1>1, AtHand
<1>5. RecTerm(st) # None /\ (ls # None => RecTerm(ls) # None)
  BY <1>3 DEF IsUndefined, InScope, LastChecks
<1>6. ClosedForm(st, CurrentLoop, ls) \in ClosedForms
  BY <1>2, <1>4, <1>5, ClosedFormType
<1>7. Replaced(out[nest], CurrentLoop, ls, ClosedForm(st, CurrentLoop, ls)) \in Nests
  BY <1>2, <1>6, ReplacedType
<1>8. out' \in Seq(Nests) /\ Len(out') = Len(prog')
  BY <1>2, <1>3, <1>7 DEF TypeInv, TypeOK, Simplify
<1>9. \A e \in erased' : e[1] \in DOMAIN prog /\ e[2] \in Stores
  BY <1>2, <1>3, <1>4 DEF TypeInv, TypeOK
<1>10. ignored' \subseteq Checks /\ gaps' \subseteq Gaps
  BY <1>3 DEF TypeInv, TypeOK, Forgotten, FailedChecks, GapsAt
<1>11. /\ subs' \in Seq(Nat) /\ loops' \in 0..Len(subs')
       /\ \A c \in DOMAIN subs' : subs'[c] \in LoopsAt(prog'[nest'])
  <2>1. subs' = EntriesMoved /\ loops' = loops + 1 /\ prog' = prog /\ nest' = nest
    BY DEF Simplify
  <2>2. /\ Len(subs) \in Nat /\ loops \in Nat /\ loops < Len(subs) /\ DOMAIN subs = 1..Len(subs)
        /\ EntriesMoved \in Seq(Nat) /\ Len(EntriesMoved) = Len(subs)
        /\ \A c \in DOMAIN subs : EntriesMoved[c] \in LoopsAt(prog[nest])
    BY <1>1, EntriesAre DEF Simplify
  <2>3. DOMAIN EntriesMoved = DOMAIN subs
    BY DEF EntriesMoved
  <2> QED
    BY <2>1, <2>2, <2>3
<1> QED
  BY <1>8, <1>9, <1>10, <1>11 DEF TypeInv, TypeOK, Simplify

(* The pass keeps to functions of stores, inner loops and closed forms,    *)
(* names only stores of the function as erased, and stays within it.       *)
LEMMA TypesInvariant == Spec => []TypeInv
<1>1. Init => TypeInv
  <2> SUFFICES ASSUME Init PROVE TypeInv
    OBVIOUS
  <2>1. prog \in Seq(Nests) /\ out = prog /\ nest = 1 /\ loops = 0 /\ subs \in SubLoops(1)
    BY FunctionsAreNests DEF Init
  <2>2. VectorTypes(1, subs)
    BY <2>1, FreshTypes
  <2> QED
    BY <2>1, <2>2 DEF Init, TypeInv, TypeOK, VectorTypes
<1>2. TypeInv /\ [Next]_vars => TypeInv'
  <2> SUFFICES ASSUME TypeInv, [Next]_vars PROVE TypeInv'
    OBVIOUS
  <2>1. CASE Crash
    BY <2>1 DEF Crash, TypeInv, TypeOK
  <2>2. CASE GiveUp
    BY <2>2 DEF GiveUp, TypeInv, TypeOK
  <2>3. CASE Simplify
    BY <2>3, SimplifyKeepsTypes
  <2>4. CASE NextLoop
    <3>1. /\ prog \in Seq(Nests) /\ prog' = prog /\ nest' = nest + 1 /\ loops' = 0
          /\ subs' \in SubLoops(nest + 1) /\ nest + 1 \in Nat \ {0}
      BY <2>4, FunctionsAreNests DEF NextLoop, TypeInv, TypeOK
    <3>2. PICK s \in SubLoops(nest + 1) : subs' = s
      BY <3>1
    <3>3. VectorTypes(nest + 1, s)
      BY <3>1, FreshTypes
    <3>4. subs' \in Seq(Nat) /\ loops' \in 0..Len(subs')
      BY <3>1, <3>2, <3>3 DEF VectorTypes
    <3>5. nest' <= Len(prog') => \A c \in DOMAIN subs' : subs'[c] \in LoopsAt(prog'[nest'])
      BY <3>1, <3>2, <3>3 DEF VectorTypes
    <3> QED
      BY <2>4, <3>1, <3>4, <3>5 DEF NextLoop, TypeInv, TypeOK
  <2>5. CASE Done
    BY <2>5 DEF Done, TypeInv, TypeOK
  <2>6. CASE UNCHANGED vars
    BY <2>6 DEF vars, TypeInv, TypeOK
  <2> QED
    BY <2>1, <2>2, <2>3, <2>4, <2>5, <2>6 DEF Next
<1> QED
  BY <1>1, <1>2, PTL DEF Spec

THEOREM TypesAreKept == Spec => []TypeOK
<1>1. TypeInv => TypeOK
  BY DEF TypeInv
<1> QED
  BY <1>1, TypesInvariant, PTL

-----------------------------------------------------------------------------
(***************************************************************************)
(* The vector and the nest: what is left of the vector names, one for one, *)
(* the inner loops that are left in the nest.                              *)
(***************************************************************************)
Names(w) ==
  /\ Lists(Len(subs) - loops, LoopsAt(out[nest]), w)
  /\ \A c \in Left : out[nest][w[c]] = prog[nest][subs[c]]

VectorInv ==
  /\ \A k \in DOMAIN prog : k > nest => out[k] = prog[k]
  /\ nest <= Len(prog) => \E w : Names(w)

(* Where the entry c of the list without entry r was. *)
WithoutEntry(r, c) == IF c < r THEN c ELSE c + 1

(* u lists P without p, with the entries of w without entry r, except that  *)
(* the entry that was p is what entry r was.                                *)
ListsRest(n, P, w, r, p, u) ==
  /\ Lists(n - 1, P \ {p}, u)
  /\ \A c \in 1..(n - 1) :
       \/ u[c] = w[WithoutEntry(r, c)]
       \/ u[c] = w[r] /\ w[WithoutEntry(r, c)] = p

LEMMA ListWithout ==
  ASSUME NEW n \in Nat, NEW P, NEW w, Lists(n, P, w), NEW r \in 1..n, NEW p \in P
  PROVE  \E u : ListsRest(n, P, w, r, p, u)
<1> PICK v : v = [c \in 1..(n - 1) |-> WithoutEntry(r, c)]
  OBVIOUS
<1>0. /\ w \in [1..n -> P]
      /\ \A x \in P : \E c \in 1..n : w[c] = x
      /\ \A c, d \in 1..n : w[c] = w[d] => c = d
  BY DEF Lists
<1>1. /\ \A c \in 1..(n - 1) : v[c] \in 1..n /\ v[c] # r
      /\ \A c, d \in 1..(n - 1) : v[c] = v[d] => c = d
  BY DEF WithoutEntry
<1>2. \A e \in 1..n : e # r => \E c \in 1..(n - 1) : v[c] = e
  <2> SUFFICES ASSUME NEW e \in 1..n, e # r PROVE \E c \in 1..(n - 1) : v[c] = e
    OBVIOUS
  <2>1. CASE e < r
    <3>1. e \in 1..(n - 1) /\ v[e] = e
      BY <2>1 DEF WithoutEntry
    <3> QED
      BY <3>1
  <2>2. CASE e > r
    <3>1. e - 1 \in 1..(n - 1) /\ v[e - 1] = e
      BY <2>2 DEF WithoutEntry
    <3> QED
      BY <3>1
  <2> QED
    BY <2>1, <2>2
<1> DEFINE I == 1..(n - 1)
           u == [c \in I |-> IF w[v[c]] = p THEN w[r] ELSE w[v[c]]]
<1>3. \A c \in I : v[c] \in 1..n /\ v[c] # r /\ w[v[c]] \in P /\ w[r] \in P /\ w[v[c]] # w[r]
  BY <1>0, <1>1
<1> HIDE DEF I
<1>4. u \in [I -> P \ {p}]
  BY <1>3
<1>5. ASSUME NEW x \in P \ {p} PROVE \E c \in I : u[c] = x
  <2>1. PICK e \in 1..n : w[e] = x
    BY <1>0
  <2>2. CASE e # r
    <3>1. PICK c \in I : v[c] = e
      BY <1>2, <2>2 DEF I
    <3>2. u[c] = x
      BY <2>1, <3>1
    <3> QED
      BY <3>2
  <2>3. CASE e = r
    <3>1. PICK f \in 1..n : w[f] = p
      BY <1>0
    <3>2. f # r
      BY <2>1, <2>3, <3>1
    <3>3. PICK c \in I : v[c] = f
      BY <1>2, <3>2 DEF I
    <3>4. u[c] = x
      BY <2>1, <2>3, <3>1, <3>3
    <3> QED
      BY <3>4
  <2> QED
    BY <2>2, <2>3
<1>6. ASSUME NEW c \in I, NEW d \in I, u[c] = u[d] PROVE c = d
  <2>1. w[v[c]] # w[r] /\ w[v[d]] # w[r] /\ v[c] \in 1..n /\ v[d] \in 1..n
    BY <1>3
  <2>2. w[v[c]] = w[v[d]]
    BY <1>6, <2>1
  <2>3. v[c] = v[d]
    BY <1>0, <2>1, <2>2
  <2> QED
    BY <1>1, <2>3 DEF I
<1>7. \A c \in I : u[c] = w[WithoutEntry(r, c)] \/ (u[c] = w[r] /\ w[WithoutEntry(r, c)] = p)
  BY DEF I
<1> HIDE DEF u
<1>8. Lists(n - 1, P \ {p}, u)
  BY <1>4, <1>5, <1>6 DEF I, Lists
<1>9. ListsRest(n, P, w, r, p, u)
  BY <1>7, <1>8 DEF I, ListsRest
<1> QED
  BY <1>9

(* An item that does not occur has no place. *)
LEMMA NoPlace ==
  ASSUME NEW body \in Nests, NEW item, ~ \E p \in DOMAIN body : body[p] = item
  PROVE  Place(body, item) = 0
<1> DEFINE T == {p \in 1..Len(body) : body[p] = item}
<1>1. T = {}
  BY DEF Nests
<1>2. Place(body, item) = IF T # {} THEN Min(T) ELSE 0
  BY DEF Place, SelectInSeq
<1> QED
  BY <1>1, <1>2

(* What is put in a body is no inner loop. *)
LEMMA LoopsPutAt ==
  ASSUME NEW body \in Nests, NEW p \in Int, NEW form \in ClosedForms
  PROVE  /\ ReplaceAt(body, p, form) \in Nests
         /\ LoopsAt(ReplaceAt(body, p, form)) = LoopsAt(body) \ {p}
         /\ \A x \in LoopsAt(body) \ {p} : ReplaceAt(body, p, form)[x] = body[x]
<1>1. ReplaceAt(body, p, form) \in Nests
  BY PutAt
<1>2. form.kind = "closed"
  BY DEF ClosedForms
<1>3. /\ DOMAIN ReplaceAt(body, p, form) = DOMAIN body
      /\ \A x \in DOMAIN body : x # p => ReplaceAt(body, p, form)[x] = body[x]
      /\ p \in DOMAIN body => ReplaceAt(body, p, form)[p] = form
  BY DEF ReplaceAt
<1> QED
  BY <1>1, <1>2, <1>3 DEF LoopsAt

(* sh says where in R each inner loop of the body other than the one at p is. *)
ShiftedLoops(body, p, R, sh) ==
  /\ sh \in [LoopsAt(body) \ {p} -> LoopsAt(R)]
  /\ \A y \in LoopsAt(R) : \E x \in LoopsAt(body) \ {p} : sh[x] = y
  /\ \A x, y \in LoopsAt(body) \ {p} : sh[x] = sh[y] => x = y
  /\ \A x \in LoopsAt(body) \ {p} : R[sh[x]] = body[x]

(* The inner loops that are left are those there were, but for the one      *)
(* that is replaced, in the same order.                                     *)
LEMMA LoopsReplaced ==
  ASSUME NEW body \in Nests, NEW lp \in Loops, NEW ls \in Stores \cup {None}, NEW form \in ClosedForms,
         \E q \in LoopsAt(body) : body[q] = lp
  PROVE  \E p \in LoopsAt(body) :
           /\ body[p] = lp
           /\ \E sh : ShiftedLoops(body, p, Replaced(body, lp, ls, form), sh)
<1>1. lp.kind = "loop"
  BY DEF Loops
<1>2. CASE ls = None
  <2> DEFINE p == Place(body, lp)
             sh == [x \in LoopsAt(body) \ {p} |-> x]
  <2>1. p \in Int /\ p \in DOMAIN body /\ body[p] = lp
    BY PlaceIs DEF LoopsAt
  <2>2. p \in LoopsAt(body)
    BY <1>1, <2>1 DEF LoopsAt
  <2>3. Replaced(body, lp, ls, form) = ReplaceAt(body, p, form)
    BY <1>2 DEF Replaced
  <2> HIDE DEF p
  <2>4. /\ LoopsAt(Replaced(body, lp, ls, form)) = LoopsAt(body) \ {p}
        /\ \A x \in LoopsAt(body) \ {p} : Replaced(body, lp, ls, form)[x] = body[x]
    BY <2>1, <2>3, LoopsPutAt
  <2>5. sh \in [LoopsAt(body) \ {p} -> LoopsAt(Replaced(body, lp, ls, form))]
    BY <2>4
  <2>6. \A x \in LoopsAt(body) \ {p} : sh[x] = x
    OBVIOUS
  <2> HIDE DEF sh
  <2>7. ShiftedLoops(body, p, Replaced(body, lp, ls, form), sh)
    BY <2>4, <2>5, <2>6 DEF ShiftedLoops
  <2> QED
    BY <2>1, <2>2, <2>7
<1>3. CASE ls # None
  <2> DEFINE ps == Place(body, ls)
             B  == ReplaceAt(body, ps, form)
             p  == Place(B, lp)
             R  == RemoveFirst(B, lp)
  <2>1. ps \in Int /\ ps \notin LoopsAt(body)
    <3>1. ls.kind = "store"
      BY <1>3 DEF Stores
    <3>2. CASE \E q \in DOMAIN body : body[q] = ls
      BY <3>1, <3>2, PlaceIs DEF LoopsAt
    <3>3. CASE ~ \E q \in DOMAIN body : body[q] = ls
      <4>1. ps = 0 /\ 0 \notin DOMAIN body
        BY <3>3, NoPlace DEF Nests
      <4> QED
        BY <4>1 DEF LoopsAt
    <3> QED
      BY <3>2, <3>3
  <2> HIDE DEF ps
  <2>2. B \in Nests /\ LoopsAt(B) = LoopsAt(body) /\ \A x \in LoopsAt(body) : B[x] = body[x]
    <3>1. LoopsAt(body) \ {ps} = LoopsAt(body)
      BY <2>1
    <3> QED
      BY <2>1, <3>1, LoopsPutAt
  <2>3. Replaced(body, lp, ls, form) = R
    BY <1>3 DEF Replaced, ps
  <2> HIDE DEF B
  <2>4. PICK q \in DOMAIN B : B[q] = lp
    BY <2>2 DEF LoopsAt
  <2>5. p \in 1..Len(B) /\ B[p] = lp /\ Without(B, p, R)
    BY <2>2, <2>4, TakenIs
  <2> HIDE DEF p, R
  <2>6. p \in LoopsAt(body) /\ body[p] = lp
    <3>1. p \in LoopsAt(B)
      BY <1>1, <2>2, <2>5 DEF LoopsAt, Nests
    <3> QED
      BY <2>2, <2>5, <3>1
  <2>7. /\ Len(B) \in Nat /\ DOMAIN B = 1..Len(B) /\ R \in Nests /\ Len(R) = Len(B) - 1
        /\ DOMAIN R = 1..(Len(B) - 1)
        /\ \A x \in 1..(p - 1) : R[x] = B[x]
        /\ \A x \in (p + 1)..Len(B) : R[x - 1] = B[x]
    BY <2>2, <2>5 DEF Without, Nests
  <2> DEFINE D  == LoopsAt(body) \ {p}
             sh == [x \in D |-> IF x < p THEN x ELSE x - 1]
  <2>8. \A x \in D : x \in 1..Len(B) /\ x # p /\ B[x] = body[x] /\ B[x].kind = "loop"
    BY <2>2, <2>7 DEF LoopsAt
  <2>9. \A x \in D : sh[x] \in 1..(Len(B) - 1) /\ R[sh[x]] = B[x]
    <3> SUFFICES ASSUME NEW x \in D PROVE sh[x] \in 1..(Len(B) - 1) /\ R[sh[x]] = B[x]
      OBVIOUS
    <3>1. x \in 1..Len(B) /\ x # p /\ p \in 1..Len(B)
      BY <2>5, <2>8
    <3>2. CASE x < p
      <4>1. sh[x] = x /\ x \in 1..(p - 1) /\ x \in 1..(Len(B) - 1)
        BY <2>7, <3>1, <3>2
      <4> QED
        BY <2>7, <4>1
    <3>3. CASE x > p
      <4>1. sh[x] = x - 1 /\ x \in (p + 1)..Len(B) /\ x - 1 \in 1..(Len(B) - 1)
        BY <2>7, <3>1, <3>3
      <4> QED
        BY <2>7, <4>1
    <3> QED
      BY <3>1, <3>2, <3>3
  <2>10. sh \in [D -> LoopsAt(R)]
    BY <2>7, <2>8, <2>9 DEF LoopsAt
  <2>11. ASSUME NEW y \in LoopsAt(R) PROVE \E x \in D : sh[x] = y
    <3>1. y \in 1..(Len(B) - 1) /\ R[y].kind = "loop"
      BY <2>7 DEF LoopsAt
    <3>2. CASE y < p
      <4>1. y \in 1..Len(B) /\ y # p /\ R[y] = B[y]
        BY <2>5, <2>7, <3>1, <3>2
      <4>2. y \in D
        BY <2>2, <2>7, <3>1, <4>1 DEF LoopsAt
      <4>3. sh[y] = y
        BY <3>2, <4>2
      <4> QED
        BY <4>2, <4>3
    <3>3. CASE y >= p
      <4>1. y + 1 \in (p + 1)..Len(B) /\ y + 1 # p /\ y + 1 \in 1..Len(B) /\ (y + 1) - 1 = y
        BY <2>5, <2>7, <3>1, <3>3
      <4>2. B[y + 1] = R[y]
        BY <2>7, <4>1
      <4>3. y + 1 \in D
        BY <2>2, <2>7, <3>1, <4>1, <4>2 DEF LoopsAt
      <4>4. sh[y + 1] = y
        BY <3>1, <3>3, <4>1, <4>3, <2>5
      <4> QED
        BY <4>3, <4>4
    <3> QED
      BY <2>5, <3>1, <3>2, <3>3
  <2>12. ASSUME NEW x \in D, NEW y \in D, sh[x] = sh[y] PROVE x = y
    BY <2>5, <2>7, <2>8, <2>12
  <2>13. \A x \in D : R[sh[x]] = body[x]
    BY <2>8, <2>9
  <2> HIDE DEF sh
  <2>14. ShiftedLoops(body, p, R, sh)
    BY <2>10, <2>11, <2>12, <2>13 DEF ShiftedLoops
  <2> QED
    BY <2>3, <2>6, <2>14
<1> QED
  BY <1>2, <1>3

(* An inner loop that is not destroyed is still in the nest. *)
LEMMA StillThere ==
  ASSUME TypeInv, VectorInv, AtLoop, ~IsDestroyed
  PROVE  \E p \in LoopsAt(out[nest]) : out[nest][p] = CurrentLoop
<1>1. PICK w : Names(w)
  BY DEF VectorInv, AtLoop
<1>2. PICK c \in Left : subs[c] = Current
  BY DEF IsDestroyed
<1>3. w[c] \in LoopsAt(out[nest]) /\ out[nest][w[c]] = CurrentLoop
  BY <1>1, <1>2 DEF Names, Lists, Left, CurrentLoop
<1> QED
  BY <1>3

(* A replacement keeps the vector and the nest together. *)
LEMMA SimplifyKeepsVector ==
  ASSUME TypeInv, VectorInv, Simplify
  PROVE  VectorInv'
<1>1. AtLoop /\ ~IsDestroyed
  BY DEF Simplify
<1>2. /\ nest \in DOMAIN prog /\ nest \in DOMAIN out /\ out[nest] \in Nests
      /\ CurrentLoop \in Loops
  BY <1>1, AtHand
<1>3. PICK st \in FirstStores(CurrentLoop.body), ls \in OuterStores(nest) :
        /\ ~IsUndefined(st, ls) /\ InScope(nest, CurrentLoop, st, ls)
        /\ out' = [out EXCEPT ![nest] = Replaced(@, CurrentLoop, ls, ClosedForm(st, CurrentLoop, ls))]
  BY DEF Simplify
<1>4. st \in Stores /\ ls \in Stores \cup {None}
  BY <1>1, AtHand
<1>5. RecTerm(st) # None /\ (ls # None => RecTerm(ls) # None)
  BY <1>3 DEF IsUndefined, InScope, LastChecks
<1>6. PICK form \in ClosedForms : form = ClosedForm(st, CurrentLoop, ls)
  BY <1>2, <1>4, <1>5, ClosedFormType
<1>7. \A k \in DOMAIN prog' : k > nest' => out'[k] = prog'[k]
  <2>1. prog' = prog /\ nest' = nest /\ DOMAIN out = DOMAIN prog
    BY <1>1, FunctionsAreNests DEF Simplify, TypeInv, TypeOK
  <2>2. \A k \in DOMAIN prog : k > nest => k # nest
    BY <1>2 DEF TypeInv, TypeOK
  <2> QED
    BY <1>3, <2>1, <2>2 DEF VectorInv
<1> PICK body \in Nests : body = out[nest]
  BY <1>2
<1> PICK lp \in Loops : lp = CurrentLoop
  BY <1>2
<1> PICK R : R = Replaced(body, lp, ls, form)
  OBVIOUS
<1>8. out'[nest] = R /\ nest' = nest /\ prog' = prog /\ subs' = EntriesMoved /\ loops' = loops + 1
  BY <1>2, <1>3, <1>6 DEF Simplify
<1>9. PICK w : Names(w)
  BY <1>1 DEF VectorInv, AtLoop
<1>10. PICK r \in Left : /\ subs[r] = Current
                         /\ \A c \in 1..(Len(subs) - loops - 1) :
                              EntriesMoved[c] = subs[WithoutEntry(r, c)]
  BY <1>1, EntriesAre DEF WithoutEntry
<1>11. \E q \in LoopsAt(body) : body[q] = lp
  BY <1>1, StillThere
<1>12. PICK p \in LoopsAt(body) : body[p] = lp /\ \E sh : ShiftedLoops(body, p, R, sh)
  BY <1>4, <1>11, LoopsReplaced
<1> PICK sh : ShiftedLoops(body, p, R, sh)
  BY <1>12
<1>13. /\ sh \in [LoopsAt(body) \ {p} -> LoopsAt(R)]
       /\ \A y \in LoopsAt(R) : \E x \in LoopsAt(body) \ {p} : sh[x] = y
       /\ \A x, y \in LoopsAt(body) \ {p} : sh[x] = sh[y] => x = y
       /\ \A x \in LoopsAt(body) \ {p} : R[sh[x]] = body[x]
  BY DEF ShiftedLoops
<1>n. PICK n : n = Len(subs) - loops
  OBVIOUS
<1>p. PICK P : P = LoopsAt(body)
  OBVIOUS
<1> DEFINE I == 1..(n - 1)
<1>14. n \in Nat /\ Left = 1..n /\ (Left)' = I
  <2>1. Len(EntriesMoved) = Len(subs) /\ Len(subs) \in Nat /\ loops \in Nat /\ loops < Len(subs)
    BY <1>1, EntriesAre
  <2> QED
    BY <1>8, <1>n, <2>1 DEF Left
<1>15. /\ Lists(n, P, w) /\ r \in 1..n
       /\ \A c \in 1..n : body[w[c]] = prog[nest][subs[c]]
  BY <1>9, <1>10, <1>14, <1>n, <1>p DEF Names
<1>16. P = LoopsAt(body) /\ p \in P
  BY <1>p
<1> PICK u : ListsRest(n, P, w, r, p, u)
  BY <1>14, <1>15, <1>16, ListWithout
<1>17. /\ u \in [I -> P \ {p}]
       /\ \A x \in P \ {p} : \E c \in I : u[c] = x
       /\ \A c, d \in I : u[c] = u[d] => c = d
       /\ \A c \in I : u[c] = w[WithoutEntry(r, c)] \/ (u[c] = w[r] /\ w[WithoutEntry(r, c)] = p)
  BY DEF ListsRest, Lists
<1>18. ASSUME NEW c \in I PROVE body[u[c]] = prog[nest][EntriesMoved[c]]
  <2>1. WithoutEntry(r, c) \in 1..n /\ EntriesMoved[c] = subs[WithoutEntry(r, c)]
    BY <1>10, <1>14, <1>15, <1>n DEF WithoutEntry
  <2>2. body[w[WithoutEntry(r, c)]] = prog[nest][EntriesMoved[c]]
    BY <1>15, <2>1
  <2>3. body[w[r]] = body[p]
    BY <1>10, <1>12, <1>15 DEF CurrentLoop
  <2> QED
    BY <1>17, <2>2, <2>3
<1> HIDE DEF I
<1> DEFINE x == [c \in I |-> sh[u[c]]]
<1>19. x \in [I -> LoopsAt(R)]
  BY <1>13, <1>16, <1>17
<1>20. ASSUME NEW y \in LoopsAt(R) PROVE \E c \in I : x[c] = y
  <2>1. PICK z \in P \ {p} : sh[z] = y
    BY <1>13, <1>16
  <2>2. PICK c \in I : u[c] = z
    BY <1>17
  <2> QED
    BY <2>1, <2>2
<1>21. ASSUME NEW c \in I, NEW d \in I, x[c] = x[d] PROVE c = d
  <2>1. u[c] \in P \ {p} /\ u[d] \in P \ {p} /\ sh[u[c]] = sh[u[d]]
    BY <1>17, <1>21
  <2>2. u[c] = u[d]
    BY <1>13, <1>16, <2>1
  <2> QED
    BY <1>17, <2>2
<1>22. \A c \in I : R[x[c]] = prog[nest][EntriesMoved[c]]
  BY <1>13, <1>16, <1>17, <1>18
<1> HIDE DEF x
<1>23. Lists(n - 1, LoopsAt(R), x)
  BY <1>19, <1>20, <1>21 DEF Lists, I
<1>24. (Len(subs) - loops)' = n - 1
  <2>1. Len(EntriesMoved) = Len(subs) /\ Len(subs) \in Nat /\ loops \in Nat
    BY <1>1, EntriesAre
  <2> QED
    BY <1>8, <1>n, <2>1
<1>25. PICK z : z = x
  OBVIOUS
<1>26. Names(z)'
  BY <1>8, <1>14, <1>22, <1>23, <1>24, <1>25 DEF Names
<1> QED
  BY <1>7, <1>26 DEF VectorInv

(* A new loop is as it was given, and its vector names its inner loops. *)
LEMMA VectorStarts ==
  ASSUME prog \in Seq(Nests), NEW k \in Nat \ {0}, k <= Len(prog), out'[k] = prog'[k],
         prog' = prog, nest' = k, loops' = 0, subs' \in SubLoops(k)
  PROVE  \E w : Names(w)'
<1>1. PICK s \in SubLoops(k) : subs' = s
  OBVIOUS
<1>2. Len(s) \in Nat /\ Lists(Len(s), LoopsAt(prog[k]), s)
  BY FreshVector
<1>3. out'[nest'] = prog[k] /\ prog'[nest'] = prog[k] /\ (Len(subs) - loops)' = Len(s) /\ Left' = 1..Len(s)
  BY <1>1, <1>2 DEF Left
<1>4. Names(s)'
  BY <1>1, <1>2, <1>3 DEF Names
<1> QED
  BY <1>4

(* What is left of the vector names the inner loops left in the nest, and  *)
(* the loops that come later are as they were given.                       *)
LEMMA VectorInvariant == Spec => []VectorInv
<1>1. Init => VectorInv
  <2> SUFFICES ASSUME Init PROVE VectorInv
    OBVIOUS
  <2>1. prog \in Seq(Nests) /\ out = prog /\ nest = 1 /\ loops = 0 /\ subs \in SubLoops(1)
    BY FunctionsAreNests DEF Init
  <2>2. ASSUME 1 <= Len(prog) PROVE Names(subs)
    <3>1. Len(subs) \in Nat /\ Lists(Len(subs), LoopsAt(prog[1]), subs)
      <4>1. 1 \in Nat \ {0}
        OBVIOUS
      <4> QED
        BY <2>1, <2>2, <4>1, FreshVector, Zenon
    <3> QED
      BY <2>1, <3>1 DEF Names, Left
  <2> QED
    BY <2>1, <2>2 DEF VectorInv
<1>2. TypeInv /\ VectorInv /\ [Next]_vars => VectorInv'
  <2> SUFFICES ASSUME TypeInv, VectorInv, [Next]_vars PROVE VectorInv'
    OBVIOUS
  <2>1. CASE Simplify
    BY <2>1, SimplifyKeepsVector
  <2>2. CASE NextLoop
    <3>1. /\ prog \in Seq(Nests) /\ prog' = prog /\ out' = out /\ nest' = nest + 1 /\ loops' = 0
          /\ subs' \in SubLoops(nest + 1) /\ nest \in Nat \ {0} /\ DOMAIN prog = 1..Len(prog)
          /\ Len(prog) \in Nat
      BY <2>2, FunctionsAreNests DEF NextLoop, TypeInv, TypeOK
    <3>2. \A k \in DOMAIN prog : k >= nest + 1 => out[k] = prog[k]
      BY <3>1 DEF VectorInv
    <3>3. ASSUME nest + 1 <= Len(prog) PROVE \E w : Names(w)'
      <4>1. PICK k \in Nat \ {0} : k = nest + 1
        BY <3>1
      <4>2. k <= Len(prog) /\ out'[k] = prog'[k] /\ nest' = k /\ subs' \in SubLoops(k)
        BY <3>1, <3>2, <3>3, <4>1
      <4> QED
        BY <3>1, <4>2, VectorStarts
    <3>4. \A k \in DOMAIN prog' : k > nest' => out'[k] = prog'[k]
      BY <3>1, <3>2
    <3> QED
      BY <3>1, <3>3, <3>4 DEF VectorInv
  <2>3. CASE Crash \/ GiveUp \/ Done \/ UNCHANGED vars
    BY <2>3 DEF Crash, GiveUp, Done, vars, VectorInv, Names, Left
  <2> QED
    BY <2>1, <2>2, <2>3 DEF Next
<1> QED
  BY <1>1, <1>2, TypesInvariant, PTL DEF Spec

(* The pass is done with a nest only when no inner loop is left in it,     *)
(* although it takes them out of the vector it goes through: each inner    *)
(* loop it has replaced has left the vector, and what is left of that      *)
(* names all that are left.                                                *)
THEOREM NoNestIsLeftBehind == Spec => []NoNestIsLeft
<1>1. Init => NoNestIsLeft
  BY FunctionsAreNests DEF Init, NoNestIsLeft, Nests
<1>2. TypeInv /\ VectorInv /\ NoNestIsLeft /\ [Next]_vars => NoNestIsLeft'
  <2> SUFFICES ASSUME TypeInv, VectorInv, NoNestIsLeft, [Next]_vars PROVE NoNestIsLeft'
    OBVIOUS
  <2>1. CASE Simplify
    <3>1. PICK x : out' = [out EXCEPT ![nest] = x]
      BY <2>1 DEF Simplify
    <3>2. nest' = nest /\ nest \in Nat /\ out \in Seq(Nests)
      BY <2>1 DEF Simplify, TypeInv, TypeOK
    <3>3. \A k \in DOMAIN out' : k < nest => k \in DOMAIN out /\ out'[k] = out[k]
      BY <3>1, <3>2
    <3> QED
      BY <3>2, <3>3 DEF NoNestIsLeft
  <2>2. CASE NextLoop
    <3>1. \A k \in DOMAIN out : k < nest + 1 => k < nest \/ k = nest
      BY DEF TypeInv, TypeOK
    <3>2. Left = {}
      BY <2>2 DEF NextLoop, LoopEnd, Left, TypeInv, TypeOK
    <3>3. LoopsAt(out[nest]) = {}
      <4>1. PICK w : Names(w)
        BY <2>2 DEF NextLoop, VectorInv
      <4> QED
        BY <3>2, <4>1 DEF Names, Lists, Left
    <3> QED
      BY <2>2, <3>1, <3>3 DEF NextLoop, NoNestIsLeft
  <2>3. CASE Crash \/ GiveUp \/ Done \/ UNCHANGED vars
    BY <2>3 DEF Crash, GiveUp, Done, vars, NoNestIsLeft
  <2> QED
    BY <2>1, <2>2, <2>3 DEF Next
<1> QED
  BY <1>1, <1>2, TypesInvariant, VectorInvariant, PTL DEF Spec

-----------------------------------------------------------------------------
(* A body of stores with one array, and one store of it, has one store. *)
LEMMA OneStoreOnly ==
  ASSUME NEW body \in Seq(Stores), NEW st \in FirstStores(body),
         OnlyArray(body), OnlyStore(st, body)
  PROVE  Len(body) = 1
<1>1. DOMAIN body = 1..Len(body) /\ Len(body) \in Nat
  OBVIOUS
<1>2. StoresAt(body) = 1..Len(body)
  <2>1. \A x \in Stores : x.kind = "store"
    BY DEF Stores
  <2>2. \A p \in 1..Len(body) : body[p] \in Stores
    OBVIOUS
  <2> QED
    BY <1>1, <2>1, <2>2, Zenon DEF StoresAt
<1>3. \A p \in StoresAt(body) : body[p].arr = st.arr
  BY Zenon DEF FirstStores, OnlyArray
<1>4. {p \in StoresAt(body) : body[p].arr = st.arr} = 1..Len(body)
  BY <1>2, <1>3, Zenon
<1>5. Cardinality(1..Len(body)) = Len(body)
  BY <1>1, UpToHas, Zenon
<1> QED
  BY <1>4, <1>5 DEF OnlyStore

(* The checks, where none fails: what they keep out. *)
LEMMA ChecksKeepOut ==
  ASSUME NEW k, NEW lp \in Loops, NEW st \in FirstStores(lp.body), NEW ls,
         FailedChecks(k, lp, st, ls) = {}
  PROVE  GapsAt(k, lp, st, ls)
           \cap {"conditional", "several", "elsewhere", "assigned", "other"} = {}
<1>1. /\ ~ \E p \in DOMAIN lp.body : lp.body[p].guarded
      /\ OnlyArray(lp.body) /\ OnlyStore(st, lp.body)
      /\ ls # None => OnlyStore(ls, prog[k]) /\ ls.arr = st.arr
      /\ ~(st.arr \notin Static /\ st.idx = "zero")
      /\ ls # None => ~(ls.arr \notin Static /\ ls.idx # "outer")
      /\ IsRecurrence(st)
  BY DEF FailedChecks, Checks
<1>2. Len(lp.body) = 1
  BY <1>1, OneStoreOnly, LoopFields
<1>3. "conditional" \notin GapsAt(k, lp, st, ls)
  BY <1>1 DEF GapsAt
<1>4. "several" \notin GapsAt(k, lp, st, ls)
  BY <1>1, <1>2 DEF GapsAt
<1>5. "elsewhere" \notin GapsAt(k, lp, st, ls)
  BY <1>1 DEF GapsAt
<1>6. "assigned" \notin GapsAt(k, lp, st, ls) /\ "other" \notin GapsAt(k, lp, st, ls)
  BY <1>1 DEF GapsAt
<1> QED
  BY <1>3, <1>4, <1>5, <1>6

(* Had the checks of is_in_scope been heeded, no conditional, assigned or  *)
(* further store, none of another array and none at another element would  *)
(* be taken for the recurrence, whatever the function.                     *)
THEOREM ChecksAreEnough == Spec => []ChecksSuffice
<1> DEFINE Bad == {"conditional", "several", "elsewhere", "assigned", "other"}
<1>1. Init => ChecksSuffice
  BY DEF Init, ChecksSuffice
<1>2. TypeInv /\ ChecksSuffice /\ [Next]_vars => ChecksSuffice'
  <2> SUFFICES ASSUME TypeInv, ChecksSuffice, [Next]_vars PROVE ChecksSuffice'
    OBVIOUS
  <2>1. CASE Simplify
    <3> SUFFICES ASSUME ignored' = {} PROVE gaps' \cap Bad = {}
      BY DEF ChecksSuffice
    <3>1. PICK st \in FirstStores(CurrentLoop.body), ls \in OuterStores(nest) :
            /\ InScope(nest, CurrentLoop, st, ls)
            /\ ignored' = ignored \cup Forgotten(nest, CurrentLoop, st, ls)
            /\ gaps' = gaps \cup GapsAt(nest, CurrentLoop, st, ls)
      BY <2>1 DEF Simplify
    <3>2. CurrentLoop \in Loops
      BY <2>1, AtHand DEF Simplify
    <3>3. FailedChecks(nest, CurrentLoop, st, ls) = {}
      BY <3>1 DEF InScope, Forgotten
    <3>4. GapsAt(nest, CurrentLoop, st, ls) \cap Bad = {}
      BY <3>2, <3>3, ChecksKeepOut
    <3>5. gaps \cap Bad = {}
      BY <3>1 DEF ChecksSuffice
    <3> QED
      BY <3>1, <3>4, <3>5
  <2>2. CASE Crash \/ GiveUp \/ NextLoop \/ Done \/ UNCHANGED vars
    BY <2>2 DEF Crash, GiveUp, NextLoop, Done, vars, ChecksSuffice
  <2> QED
    BY <2>1, <2>2 DEF Next
<1> QED
  BY <1>1, <1>2, TypesInvariant, PTL DEF Spec

-----------------------------------------------------------------------------
(***************************************************************************)
(* The multiples.  An outer iteration is given by N and by the counter i,  *)
(* the bounds of an inner loop do not speak of its own counter.            *)
(***************************************************************************)
LEMMA Products == \A x, y \in Nat : x * y \in Nat
OBVIOUS

(* The corners tell: NonNegative is what it says. *)
LEMMA CornersTell ==
  ASSUME NEW t \in Terms, t.j = 0, NonNegative(t), NEW n \in Nat, NEW i \in 0..(n - 1)
  PROVE  ValueOf(t, Iteration(n, i)) >= 0
<1>1. t.c \in Int /\ t.n \in Int /\ t.i \in Int
  BY DEF Terms
<1>2. n - 1 - i \in Nat /\ t.n \in Nat /\ i \in Nat /\ t.n + t.i \in Nat /\ t.c + t.n >= 0
  BY <1>1 DEF NonNegative
<1>3. t.n * (n - 1 - i) >= 0 /\ (t.n + t.i) * i >= 0
  BY <1>2, Products
<1>4. ValueOf(t, Iteration(n, i)) = t.c + t.n * n + t.i * i
  BY <1>1, <1>2 DEF ValueOf, Iteration
<1>5. t.n * n = t.n * (n - 1 - i) + t.n + t.n * i /\ (t.n + t.i) * i = t.n * i + t.i * i
  BY <1>1, <1>2
<1> DEFINE a == t.n * n
           b == t.i * i
           c == t.n * i
           d == t.n * (n - 1 - i)
           f == (t.n + t.i) * i
<1>6. a \in Int /\ b \in Int /\ c \in Int /\ d \in Int /\ f \in Int
  BY <1>1, <1>2
<1>7. d >= 0 /\ f >= 0 /\ a = d + t.n + c /\ f = c + b
  BY <1>3, <1>5
<1>8. t.c + a + b >= 0
  <2> HIDE DEF a, b, c, d, f
  <2> QED
    BY <1>1, <1>2, <1>6, <1>7
<1> QED
  BY <1>4, <1>8

(* The value of a difference is the difference of the values. *)
LEMMA Values ==
  ASSUME NEW t \in Terms, NEW u \in Terms, NEW n \in Int, NEW i \in Int
  PROVE  /\ ValueOf(t, Iteration(n, i)) \in Int
         /\ ValueOf(Add(t, u), Iteration(n, i))
              = ValueOf(t, Iteration(n, i)) + ValueOf(u, Iteration(n, i))
         /\ ValueOf(Sub(t, u), Iteration(n, i))
              = ValueOf(t, Iteration(n, i)) - ValueOf(u, Iteration(n, i))
<1>1. /\ t.c \in Int /\ t.n \in Int /\ t.i \in Int /\ t.j \in Int
      /\ u.c \in Int /\ u.n \in Int /\ u.i \in Int /\ u.j \in Int
  BY DEF Terms
<1>2. /\ (t.n + u.n) * n = t.n * n + u.n * n /\ (t.n - u.n) * n = t.n * n - u.n * n
      /\ (t.i + u.i) * i = t.i * i + u.i * i /\ (t.i - u.i) * i = t.i * i - u.i * i
  BY <1>1
<1>3. t.n * n \in Int /\ u.n * n \in Int /\ t.i * i \in Int /\ u.i * i \in Int
  BY <1>1
<1>4. /\ ValueOf(t, Iteration(n, i)) = t.c + t.n * n + t.i * i
      /\ ValueOf(u, Iteration(n, i)) = u.c + u.n * n + u.i * i
  BY <1>1 DEF ValueOf, Iteration
<1>5. /\ ValueOf(Add(t, u), Iteration(n, i)) = t.c + u.c + (t.n + u.n) * n + (t.i + u.i) * i
      /\ ValueOf(Sub(t, u), Iteration(n, i)) = t.c - u.c + (t.n - u.n) * n + (t.i - u.i) * i
  BY <1>1 DEF ValueOf, Iteration, Add, Sub
<1> DEFINE tn == t.n * n
           un == u.n * n
           ti == t.i * i
           ui == u.i * i
           valT == ValueOf(t, Iteration(n, i))
           valU == ValueOf(u, Iteration(n, i))
           sum == ValueOf(Add(t, u), Iteration(n, i))
           dif == ValueOf(Sub(t, u), Iteration(n, i))
<1>6. /\ valT = t.c + tn + ti /\ valU = u.c + un + ui
      /\ sum = t.c + u.c + (tn + un) + (ti + ui) /\ dif = t.c - u.c + (tn - un) + (ti - ui)
      /\ tn \in Int /\ un \in Int /\ ti \in Int /\ ui \in Int
  BY <1>2, <1>3, <1>4, <1>5
<1>7. valT \in Int /\ sum = valT + valU /\ dif = valT - valU
  <2> HIDE DEF tn, un, ti, ui, valT, valU, sum, dif
  <2> QED
    BY <1>1, <1>6
<1> QED
  BY <1>7

LEMMA KnownValues ==
  ASSUME NEW v \in Int, NEW n \in Int, NEW i \in Int
  PROVE  /\ ValueOf(Num(v), Iteration(n, i)) = v
         /\ ValueOf(SizeN, Iteration(n, i)) = n
         /\ ValueOf(Outer, Iteration(n, i)) = i
BY DEF ValueOf, Iteration, Num, SizeN, Outer

(* What an upward loop runs through: from its first counter to the one     *)
(* before the cloned bound.                                                *)
LEMMA UpwardsRuns ==
  ASSUME NEW lp \in Loops, Upwards(lp), NEW n \in Int, NEW i \in Int
  PROVE  LET e == Iteration(n, i)
             from == ValueOf(lp.init, e)
             to == ValueOf(ClonedExit(lp), e)
         IN  Counters(lp, e) = [k \in 1..(IF to > from THEN to - from ELSE 0) |-> from + (k - 1)]
<1> DEFINE e == Iteration(n, i)
           from == ValueOf(lp.init, e)
           to == ValueOf(lp.exit, e) + IF lp.strict THEN 0 ELSE 1
<1>1. lp.init \in Terms /\ lp.exit \in Terms /\ lp.strict \in BOOLEAN /\ lp.step = 1
  BY LoopFields DEF Upwards
<1>2. StepCount(lp) = 1 /\ Num(1) \in Terms
  BY <1>1, NumType DEF StepCount
<1>3. to = ValueOf(ClonedExit(lp), e)
  <2>1. CASE lp.strict
    <3>1. ClonedExit(lp) = lp.exit /\ ValueOf(lp.exit, e) \in Int
      BY <1>1, <2>1, Values DEF ClonedExit
    <3> QED
      BY <2>1, <3>1
  <2>2. CASE ~ lp.strict
    <3>1. ClonedExit(lp) = Add(lp.exit, Num(1))
      BY <1>2, <2>2 DEF ClonedExit
    <3>2. ValueOf(Num(1), e) = 1
      BY KnownValues
    <3>3. \A u \in Terms : ValueOf(Add(lp.exit, u), e) = ValueOf(lp.exit, e) + ValueOf(u, e)
      BY <1>1, Values
    <3> QED
      BY <1>2, <2>2, <3>1, <3>2, <3>3
  <2> QED
    BY <2>1, <2>2
<1>4. from \in Int /\ to \in Int
  <2>1. \A u \in Terms : ValueOf(u, e) \in Int
    BY Values
  <2> HIDE DEF e
  <2>2. ValueOf(lp.init, e) \in Int /\ ValueOf(lp.exit, e) \in Int
    BY <1>1, <2>1
  <2>3. (IF lp.strict THEN 0 ELSE 1) \in Int
    OBVIOUS
  <2> QED
    BY <2>2, <2>3
<1>5. Counters(lp, e) = [k \in 1..(IF to - from > 0 THEN (to - from + 1 - 1) \div 1 ELSE 0)
                           |-> from + (k - 1) * 1]
  BY <1>1 DEF Counters
<1>6. (IF to - from > 0 THEN (to - from + 1 - 1) \div 1 ELSE 0) = IF to > from THEN to - from ELSE 0
  BY <1>4
<1>7. Counters(lp, e) = [k \in 1..(IF to > from THEN to - from ELSE 0) |-> from + (k - 1)]
  <2> HIDE DEF from, to, e
  <2>1. \A k \in 1..(IF to > from THEN to - from ELSE 0) : from + (k - 1) * 1 = from + (k - 1)
    BY <1>4
  <2> QED
    BY <1>5, <1>6, <2>1
<1> QED
  BY <1>3, <1>7

(* IterationsOf is the number of iterations of the inner loop, in every    *)
(* outer iteration and for every N, when the loop counts upwards by one    *)
(* and Runs holds of its bounds (simplify_nl.cpp:236-246).                 *)
THEOREM IterationsAreCounted ==
  ASSUME NEW lp \in Loops, Upwards(lp), Runs(lp), lp.init.j = 0, lp.exit.j = 0,
         NEW n \in Nat, NEW i \in 0..(n - 1)
  PROVE  ValueOf(IterationsOf(lp), Iteration(n, i)) = Len(Counters(lp, Iteration(n, i)))
<1> DEFINE e == Iteration(n, i)
           from == ValueOf(lp.init, e)
           to == ValueOf(ClonedExit(lp), e)
<1>1. /\ lp.init \in Terms /\ lp.exit \in Terms /\ lp.strict \in BOOLEAN /\ StepCount(lp) = 1
      /\ Num(StepCount(lp)) \in Terms
  BY LoopFields DEF Upwards, StepCount
<1>2. ClonedExit(lp) \in Terms /\ ClonedExit(lp).j = 0
  BY <1>1, TermTypes DEF ClonedExit, Add, Num
<1>3. Sub(ClonedExit(lp), lp.init) \in Terms /\ Sub(ClonedExit(lp), lp.init).j = 0
  BY <1>1, <1>2, TermTypes DEF Sub
<1>4. ValueOf(Sub(ClonedExit(lp), lp.init), e) = to - from /\ from \in Int /\ to \in Int
  <2>1. n \in Int /\ i \in Int
    OBVIOUS
  <2>2. \A t, u \in Terms : /\ ValueOf(t, e) \in Int
                            /\ ValueOf(Sub(t, u), e) = ValueOf(t, e) - ValueOf(u, e)
    BY <2>1, Values
  <2> HIDE DEF e
  <2> QED
    BY <1>1, <1>2, <2>2
<1>5. to - from >= 0
  BY <1>3, <1>4, CornersTell DEF Runs
<1>6. Len(Counters(lp, e)) = to - from
  <2>1. Counters(lp, e) = [k \in 1..(IF to > from THEN to - from ELSE 0) |-> from + (k - 1)]
    BY UpwardsRuns
  <2> HIDE DEF from, to, e
  <2>2. (IF to > from THEN to - from ELSE 0) = to - from /\ to - from \in Nat
    BY <1>4, <1>5
  <2> QED
    BY <2>1, <2>2
<1>7. ValueOf(IterationsOf(lp), e) = to - from
  <2>1. CASE StartsAbove0(InitBound(lp))
    BY <1>1, <1>4, <2>1 DEF IterationsOf
  <2>2. CASE ~ StartsAbove0(InitBound(lp))
    <3>1. IsNumeral(lp.init) /\ lp.init.c <= 0 /\ lp.init.c \in Int
      BY <1>1, <2>2 DEF StartsAbove0, InitBound, Terms
    <3>2. lp.init = Num(0)
      BY <3>1 DEF Runs, IsNumeral
    <3>3. from = 0
      BY <3>2, KnownValues
    <3> QED
      BY <1>1, <1>4, <2>2, <3>3 DEF IterationsOf
  <2> QED
    BY <2>1, <2>2
<1> QED
  BY <1>6, <1>7

(* The outer iterations i whose inner loop is at x at some time. *)
ReachedFrom(lp, n, x) ==
  {i \in 0..(n - 1) : \E k \in DOMAIN Counters(lp, Iteration(n, i)) :
                         Counters(lp, Iteration(n, i))[k] = x}

LEMMA ReachedBetween ==
  ASSUME NEW lp \in Loops, Upwards(lp), NEW n \in Nat, NEW x \in 0..(n - 1)
  PROVE  ReachedFrom(lp, n, x) =
           {i \in 0..(n - 1) : /\ ValueOf(lp.init, Iteration(n, i)) <= x
                               /\ x < ValueOf(ClonedExit(lp), Iteration(n, i))}
<1> SUFFICES ASSUME NEW i \in 0..(n - 1)
             PROVE  (\E k \in DOMAIN Counters(lp, Iteration(n, i)) :
                        Counters(lp, Iteration(n, i))[k] = x)
                      <=> /\ ValueOf(lp.init, Iteration(n, i)) <= x
                          /\ x < ValueOf(ClonedExit(lp), Iteration(n, i))
  BY DEF ReachedFrom
<1> DEFINE c == Counters(lp, Iteration(n, i))
           from == ValueOf(lp.init, Iteration(n, i))
           to == ValueOf(ClonedExit(lp), Iteration(n, i))
           times == IF to > from THEN to - from ELSE 0
<1>0. n \in Int /\ i \in Int /\ x \in Int
  OBVIOUS
<1>1. c = [k \in 1..times |-> from + (k - 1)]
  BY <1>0, UpwardsRuns
<1>2. lp.init \in Terms /\ ClonedExit(lp) \in Terms
  <2>1. lp.init \in Terms /\ lp.exit \in Terms /\ Num(StepCount(lp)) \in Terms
    BY LoopFields
  <2> QED
    BY <2>1, TermTypes DEF ClonedExit
<1>3. from \in Int /\ to \in Int
  BY <1>0, <1>2, Values
<1> HIDE DEF c, from, to
<1>4. ASSUME from <= x, x < to PROVE \E k \in DOMAIN c : c[k] = x
  <2>1. x - from + 1 \in 1..times
    BY <1>0, <1>3, <1>4
  <2>2. c[x - from + 1] = x
    BY <1>0, <1>1, <1>3, <2>1
  <2> QED
    BY <1>1, <2>1, <2>2
<1>5. ASSUME NEW k \in DOMAIN c, c[k] = x PROVE from <= x /\ x < to
  BY <1>0, <1>1, <1>3, <1>5
<1> QED
  BY <1>4, <1>5 DEF c, from, to

(* For an array stored at the inner counter, ReachesOf(lp) at x is the     *)
(* number of outer iterations in which the inner loop comes by x: for each *)
(* of the shapes for(j = 0; j < N), for(j = i; j < N), for(j = 0; j <= i), *)
(* every N and every x (simplify_nl.cpp:247-275).                          *)
THEOREM ReachesAreCounted ==
  ASSUME NEW lp \in Loops, Reached(lp), NEW n \in Nat, NEW x \in 0..(n - 1)
  PROVE  ValueOf(ReachesOf(lp), Iteration(n, x)) = Cardinality(ReachedFrom(lp, n, x))
<1>1. Upwards(lp) /\ StepCount(lp) = 1 /\ ReachesOf(lp) = ReachesUpwards(lp)
  BY DEF Reached, Upwards, StepCount, ReachesOf
<1>2. n \in Int /\ x \in Int /\ 0 <= x /\ x < n
  OBVIOUS
<1>3. /\ \A i \in Int : ValueOf(Num(0), Iteration(n, i)) = 0
      /\ \A i \in Int : ValueOf(Num(1), Iteration(n, i)) = 1
      /\ \A i \in Int : ValueOf(SizeN, Iteration(n, i)) = n
      /\ \A i \in Int : ValueOf(Outer, Iteration(n, i)) = i
  BY <1>2, KnownValues
<1>4. Num(1) \in Terms /\ SizeN \in Terms /\ Outer \in Terms
  BY NumType, ConstantTerms
<1> DEFINE OuterPlus1 == Add(Outer, Num(1))
<1>5. \A i \in Int : ValueOf(OuterPlus1, Iteration(n, i)) = i + 1
  BY <1>2, <1>3, <1>4, Values
<1>6. IsNumeral(Num(0)) /\ Num(0).c = 0 /\ ~IsNumeral(Outer)
  BY DEF IsNumeral, Num, Outer
<1>7. EndsAtN(lp) => ClonedExit(lp) = SizeN
  BY DEF EndsAtN, ClonedExit
<1>8. ReachedFrom(lp, n, x) =
          {i \in 0..(n - 1) : /\ ValueOf(lp.init, Iteration(n, i)) <= x
                              /\ x < ValueOf(ClonedExit(lp), Iteration(n, i))}
  BY <1>1, ReachedBetween
<1>9. CASE lp.init = Num(0) /\ EndsAtN(lp)
  <2>1. ReachesUpwards(lp) = SizeN
    BY <1>6, <1>9 DEF ReachesUpwards, InitBound
  <2>2. ReachedFrom(lp, n, x) = 0..(n - 1)
    <3>1. \A i \in 0..(n - 1) : /\ ValueOf(lp.init, Iteration(n, i)) = 0
                               /\ ValueOf(ClonedExit(lp), Iteration(n, i)) = n
      BY <1>2, <1>3, <1>7, <1>9
    <3>2. ReachedFrom(lp, n, x) = {i \in 0..(n - 1) : 0 <= x /\ x < n}
      BY <1>8, <3>1
    <3> QED
      BY <1>2, <3>2
  <2>3. Cardinality(0..(n - 1)) = n
    BY <1>2, FS_Interval
  <2> QED
    BY <1>1, <1>2, <1>3, <2>1, <2>2, <2>3
<1>10. CASE lp.init = Num(0) /\ ~EndsAtN(lp) /\ ClonedExit(lp) = OuterPlus1
  <2>1. ReachesUpwards(lp) = Add(Sub(SizeN, OuterPlus1), Num(1))
    BY <1>6, <1>10 DEF ReachesUpwards, InitBound
  <2>2. OuterPlus1 \in Terms /\ Sub(SizeN, OuterPlus1) \in Terms
    BY <1>4, TermTypes
  <2>3. ValueOf(Sub(SizeN, OuterPlus1), Iteration(n, x)) = n - (x + 1)
    BY <1>2, <1>3, <1>4, <1>5, <2>2, Values
  <2>4. ValueOf(ReachesUpwards(lp), Iteration(n, x)) = n - x
    <3>1. ValueOf(Add(Sub(SizeN, OuterPlus1), Num(1)), Iteration(n, x))
            = ValueOf(Sub(SizeN, OuterPlus1), Iteration(n, x)) + ValueOf(Num(1), Iteration(n, x))
      BY <1>2, <1>4, <2>2, Values
    <3> QED
      BY <1>2, <1>3, <2>1, <2>3, <3>1
  <2>5. ReachedFrom(lp, n, x) = x..(n - 1)
    <3>1. \A i \in 0..(n - 1) : /\ ValueOf(lp.init, Iteration(n, i)) = 0
                               /\ ValueOf(ClonedExit(lp), Iteration(n, i)) = i + 1
      BY <1>2, <1>3, <1>5, <1>10
    <3>2. ReachedFrom(lp, n, x) = {i \in 0..(n - 1) : 0 <= x /\ x < i + 1}
      BY <1>8, <3>1
    <3> QED
      BY <1>2, <3>2
  <2>6. Cardinality(x..(n - 1)) = n - x
    BY <1>2, FS_Interval
  <2> QED
    BY <1>1, <2>4, <2>5, <2>6
<1>11. CASE lp.init = Outer /\ EndsAtN(lp)
  <2>1. ReachesUpwards(lp) = OuterPlus1
    BY <1>6, <1>11 DEF ReachesUpwards, InitBound
  <2>2. ReachedFrom(lp, n, x) = 0..x
    <3>1. \A i \in 0..(n - 1) : /\ ValueOf(lp.init, Iteration(n, i)) = i
                               /\ ValueOf(ClonedExit(lp), Iteration(n, i)) = n
      BY <1>2, <1>3, <1>7, <1>11
    <3>2. ReachedFrom(lp, n, x) = {i \in 0..(n - 1) : i <= x /\ x < n}
      BY <1>8, <3>1
    <3> QED
      BY <1>2, <3>2
  <2>3. Cardinality(0..x) = x + 1
    BY <1>2, FS_Interval
  <2> QED
    BY <1>1, <1>2, <1>5, <2>1, <2>2, <2>3
<1> QED
  BY <1>9, <1>10, <1>11 DEF Reached

-----------------------------------------------------------------------------
(***************************************************************************)
(* Memories, and what is added to an array of one.                         *)
(***************************************************************************)
Memories == [Arrays -> [Cells -> Int]]
Amounts  == [Cells -> Int]

Shifted(m, a, d) == [m EXCEPT ![a] = [x \in Cells |-> m[a][x] + d[x]]]

OneAmount(x, v) == [y \in Cells |-> IF y = x THEN v ELSE 0]

Signed(op, v) == IF op = "sub" THEN -v ELSE v

(* The indices of a loop over N are cells. *)
LEMMA CellsAre == 0 \in Cells /\ Cells \subseteq Int /\ \A n \in 1..MaxN : 0..(n - 1) \subseteq Cells
BY MaxNAssumption DEF Cells

(* Two memories that agree everywhere are one. *)
LEMMA SameMemory ==
  ASSUME NEW m \in Memories, NEW w \in Memories, \A a \in Arrays : \A x \in Cells : m[a][x] = w[a][x]
  PROVE  m = w
<1>1. \A a \in Arrays : m[a] \in [Cells -> Int] /\ w[a] \in [Cells -> Int]
  BY DEF Memories
<1>2. \A a \in Arrays : m[a] = w[a]
  BY <1>1
<1> QED
  BY <1>2 DEF Memories

(* What a shifted memory holds. *)
LEMMA ShiftedIs ==
  ASSUME NEW m \in Memories, NEW a \in Arrays, NEW d \in Amounts
  PROVE  /\ Shifted(m, a, d) \in Memories
         /\ \A x \in Cells : Shifted(m, a, d)[a][x] = m[a][x] + d[x]
         /\ \A b \in Arrays \ {a} : Shifted(m, a, d)[b] = m[b]
<1>1. [x \in Cells |-> m[a][x] + d[x]] \in [Cells -> Int]
  BY DEF Memories, Amounts
<1> QED
  BY <1>1 DEF Memories, Shifted

(* To add nothing changes nothing. *)
LEMMA ShiftedByNothing ==
  ASSUME NEW m \in Memories, NEW a \in Arrays, NEW d \in Amounts, \A x \in Cells : d[x] = 0
  PROVE  Shifted(m, a, d) = m
<1>1. /\ Shifted(m, a, d) \in Memories
      /\ \A x \in Cells : Shifted(m, a, d)[a][x] = m[a][x] + d[x]
      /\ \A b \in Arrays \ {a} : Shifted(m, a, d)[b] = m[b]
  BY ShiftedIs
<1>2. \A x \in Cells : m[a][x] \in Int
  BY DEF Memories
<1>3. \A b \in Arrays : \A x \in Cells : Shifted(m, a, d)[b][x] = m[b][x]
  BY <1>1, <1>2
<1> QED
  BY <1>1, <1>3, SameMemory

(* Two additions to one array are their sum. *)
LEMMA ShiftedTwice ==
  ASSUME NEW m \in Memories, NEW a \in Arrays, NEW d \in Amounts, NEW f \in Amounts,
         NEW g \in Amounts, \A x \in Cells : g[x] = d[x] + f[x]
  PROVE  Shifted(Shifted(m, a, d), a, f) = Shifted(m, a, g)
<1> DEFINE w == Shifted(m, a, d)
           u == Shifted(w, a, f)
           v == Shifted(m, a, g)
<1>1. w \in Memories /\ (\A x \in Cells : w[a][x] = m[a][x] + d[x]) /\ \A b \in Arrays \ {a} : w[b] = m[b]
  BY ShiftedIs
<1>2. v \in Memories /\ (\A x \in Cells : v[a][x] = m[a][x] + g[x]) /\ \A b \in Arrays \ {a} : v[b] = m[b]
  BY ShiftedIs
<1> HIDE DEF w, v
<1>3. u \in Memories /\ (\A x \in Cells : u[a][x] = w[a][x] + f[x]) /\ \A b \in Arrays \ {a} : u[b] = w[b]
  BY <1>1, ShiftedIs
<1> HIDE DEF u
<1>4. \A x \in Cells : m[a][x] \in Int /\ d[x] \in Int /\ f[x] \in Int /\ g[x] \in Int
  BY DEF Memories, Amounts
<1>5. \A x \in Cells : u[a][x] = v[a][x]
  BY <1>1, <1>2, <1>3, <1>4
<1>6. \A b \in Arrays : \A x \in Cells : u[b][x] = v[b][x]
  BY <1>1, <1>2, <1>3, <1>5
<1> QED
  BY <1>2, <1>3, <1>6, SameMemory DEF u, v, w

(* Additions commute, to one array or to two. *)
LEMMA ShiftsCommute ==
  ASSUME NEW m \in Memories, NEW a \in Arrays, NEW b \in Arrays, NEW d \in Amounts, NEW f \in Amounts
  PROVE  Shifted(Shifted(m, a, d), b, f) = Shifted(Shifted(m, b, f), a, d)
<1> DEFINE p == Shifted(m, a, d)
           q == Shifted(m, b, f)
           u == Shifted(p, b, f)
           v == Shifted(q, a, d)
<1>1. p \in Memories /\ (\A x \in Cells : p[a][x] = m[a][x] + d[x]) /\ \A c \in Arrays \ {a} : p[c] = m[c]
  BY ShiftedIs
<1>2. q \in Memories /\ (\A x \in Cells : q[b][x] = m[b][x] + f[x]) /\ \A c \in Arrays \ {b} : q[c] = m[c]
  BY ShiftedIs
<1> HIDE DEF p, q
<1>3. u \in Memories /\ (\A x \in Cells : u[b][x] = p[b][x] + f[x]) /\ \A c \in Arrays \ {b} : u[c] = p[c]
  BY <1>1, ShiftedIs
<1>4. v \in Memories /\ (\A x \in Cells : v[a][x] = q[a][x] + d[x]) /\ \A c \in Arrays \ {a} : v[c] = q[c]
  BY <1>2, ShiftedIs
<1> HIDE DEF u, v
<1>5. \A x \in Cells : m[a][x] \in Int /\ m[b][x] \in Int /\ d[x] \in Int /\ f[x] \in Int
  BY DEF Memories, Amounts
<1>6. ASSUME NEW c \in Arrays, NEW x \in Cells PROVE u[c][x] = v[c][x]
  <2>1. CASE c = a /\ c = b
    BY <1>1, <1>2, <1>3, <1>4, <1>5, <2>1
  <2>2. CASE c = a /\ c # b
    BY <1>1, <1>2, <1>3, <1>4, <2>2
  <2>3. CASE c # a /\ c = b
    BY <1>1, <1>2, <1>3, <1>4, <2>3
  <2>4. CASE c # a /\ c # b
    BY <1>1, <1>2, <1>3, <1>4, <2>4
  <2> QED
    BY <2>1, <2>2, <2>3, <2>4
<1> QED
  BY <1>3, <1>4, <1>6, SameMemory DEF u, v, p, q

(* What a memory holds after an assignment. *)
LEMMA AssignedIs ==
  ASSUME NEW m \in Memories, NEW a \in Arrays, NEW x \in Cells, NEW v \in Int
  PROVE  /\ Assigned(m, a, x, v) \in Memories
         /\ Assigned(m, a, x, v)[a][x] = v
         /\ \A y \in Cells \ {x} : Assigned(m, a, x, v)[a][y] = m[a][y]
         /\ \A b \in Arrays \ {a} : Assigned(m, a, x, v)[b] = m[b]
BY DEF Memories, Assigned

(* One number, added to one element, is an amount. *)
LEMMA OneAmountType == \A x \in Cells : \A v \in Int : OneAmount(x, v) \in Amounts
BY DEF OneAmount, Amounts

(* To increase an element is to add to one element of the array. *)
LEMMA AssignedIsShifted ==
  ASSUME NEW m \in Memories, NEW a \in Arrays, NEW x \in Cells, NEW v \in Int
  PROVE  Assigned(m, a, x, m[a][x] + v) = Shifted(m, a, OneAmount(x, v))
<1>0. \A y \in Cells : m[a][y] \in Int
  BY DEF Memories
<1> DEFINE u == Assigned(m, a, x, m[a][x] + v)
           w == Shifted(m, a, OneAmount(x, v))
<1>1. m[a][x] + v \in Int
  BY <1>0
<1>2. /\ u \in Memories /\ u[a][x] = m[a][x] + v
      /\ \A y \in Cells \ {x} : u[a][y] = m[a][y]
      /\ \A b \in Arrays \ {a} : u[b] = m[b]
  BY <1>1, AssignedIs
<1>3. OneAmount(x, v) \in Amounts /\ OneAmount(x, v)[x] = v
      /\ \A y \in Cells \ {x} : OneAmount(x, v)[y] = 0
  BY OneAmountType DEF OneAmount
<1>4. /\ w \in Memories /\ \A b \in Arrays \ {a} : w[b] = m[b]
      /\ \A y \in Cells : w[a][y] = m[a][y] + OneAmount(x, v)[y]
  BY <1>3, ShiftedIs
<1> HIDE DEF u, w
<1>5. \A y \in Cells : u[a][y] = w[a][y]
  BY <1>0, <1>2, <1>3, <1>4
<1>6. \A b \in Arrays : \A y \in Cells : u[b][y] = w[b][y]
  BY <1>2, <1>4, <1>5
<1> QED
  BY <1>2, <1>4, <1>6, SameMemory DEF u, w

(* The greatest number of a set of positions. *)
LEMMA MaxIs ==
  ASSUME NEW q \in Nat, NEW s \in SUBSET (1..q)
  PROVE  /\ s # {} => Max(s) \in s
         /\ q \in s => Max(s) = q
<1> SUFFICES ASSUME s # {} PROVE Max(s) \in s /\ (q \in s => Max(s) = q)
  OBVIOUS
<1> DEFINE T == {q - x : x \in s}
<1>1. T \in SUBSET Nat
  <2>1. \A x \in s : q - x \in Nat
    OBVIOUS
  <2> QED
    BY <2>1
<1>2. T # {}
  OBVIOUS
<1>3. PICK t \in T : \A u \in T : t <= u
  <2> HIDE DEF T
  <2> QED
    BY <1>1, <1>2, LeastNatural
<1>4. PICK x \in s : t = q - x
  OBVIOUS
<1>5. ASSUME NEW y \in s PROVE y <= x
  <2>1. q - y \in T
    OBVIOUS
  <2>2. q - x <= q - y
    BY <1>3, <1>4, <2>1
  <2>3. x \in Nat /\ y \in Nat
    OBVIOUS
  <2> QED
    BY <2>2, <2>3
<1>6. Max(s) \in s /\ \A y \in s : y <= Max(s)
  BY <1>5 DEF Max
<1>7. Max(s) \in 1..q
  BY <1>6
<1>8. q \in s => q <= Max(s)
  BY <1>6
<1> QED
  BY <1>6, <1>7, <1>8

(* Taking the greatest out of the first k. *)
LEMMA FirstOnes ==
  ASSUME NEW n \in Nat, NEW k \in 1..n
  PROVE  1..k \in SUBSET (1..n) /\ 1..k # {} /\ Max(1..k) = k /\ (1..k) \ {Max(1..k)} = 1..(k - 1)
<1>1. k \in Nat /\ 1..k \in SUBSET (1..k) /\ k \in 1..k
  OBVIOUS
<1>2. Max(1..k) = k
  BY <1>1, MaxIs
<1>3. (1..k) \ {k} = 1..(k - 1)
  OBVIOUS
<1> QED
  BY <1>1, <1>2, <1>3

(* Store by store. *)
StoresSteps(run, m, e, body, n) ==
  /\ run[0] = m /\ AfterStores(m, e, body) = run[n]
  /\ \A k \in 1..n : run[k] = AfterStore(run[k - 1], e, body[k])

(* The stores of a body, one memory after each. *)
LEMMA StoresTrace ==
  ASSUME NEW m, NEW e, NEW body, NEW n \in Nat, DOMAIN body = 1..n
  PROVE  \E run : StoresSteps(run, m, e, body, n)
<1> DEFINE Iter(f, q) ==
             f = [s \in SUBSET (1..q) |->
                    IF s = {} THEN m ELSE AfterStore(f[s \ {Max(s)}], e, body[Max(s)])]
           S == {q \in 0..n : \E f : Iter(f, q)}
<1>1. 0 \in S
  <2>1. Iter([s \in SUBSET (1..0) |-> m], 0)
    OBVIOUS
  <2> QED
    BY <2>1
<1>2. ASSUME NEW q \in 0..(n - 1), q \in S PROVE q + 1 \in S
  <2>0. q \in Nat /\ q + 1 \in 0..n /\ q + 1 \in Nat
    OBVIOUS
  <2>1. PICK f : Iter(f, q)
    BY <1>2
  <2> DEFINE g == [s \in SUBSET (1..(q + 1)) |->
                     IF q + 1 \in s THEN AfterStore(f[s \ {q + 1}], e, body[q + 1]) ELSE f[s]]
  <2>2. \A s \in SUBSET (1..q) : s \in SUBSET (1..(q + 1)) /\ q + 1 \notin s
    BY <2>0
  <2>3. \A s \in SUBSET (1..q) : g[s] = f[s]
    BY <2>2
  <2>4. ASSUME NEW s \in SUBSET (1..(q + 1)), s # {}
        PROVE  g[s] = AfterStore(g[s \ {Max(s)}], e, body[Max(s)])
    <3>1. CASE q + 1 \in s
      <4>1. Max(s) = q + 1
        BY <2>0, <3>1, MaxIs
      <4>2. s \ {q + 1} \in SUBSET (1..q)
        BY <2>0
      <4> QED
        BY <2>3, <3>1, <4>1, <4>2
    <3>2. CASE q + 1 \notin s
      <4>1. s \in SUBSET (1..q)
        BY <2>0, <3>2
      <4>2. s \ {Max(s)} \in SUBSET (1..q)
        BY <4>1
      <4>3. f[s] = AfterStore(f[s \ {Max(s)}], e, body[Max(s)])
        BY <2>1, <2>4, <4>1
      <4> QED
        BY <2>3, <4>1, <4>2, <4>3
    <3> QED
      BY <3>1, <3>2
  <2>5. {} \in SUBSET (1..q) /\ g[{}] = m
    BY <2>1, <2>3
  <2>6. DOMAIN g = SUBSET (1..(q + 1))
    OBVIOUS
  <2>7. Iter(g, q + 1)
    <3> HIDE DEF g
    <3> SUFFICES g = [s \in SUBSET (1..(q + 1)) |->
                    IF s = {} THEN m ELSE AfterStore(g[s \ {Max(s)}], e, body[Max(s)])]
      OBVIOUS
    <3>1. g = [s \in SUBSET (1..(q + 1)) |-> g[s]]
      BY <2>6 DEF g
    <3> QED
      BY <2>4, <2>5, <3>1
  <2> QED
    BY <2>0, <2>7
<1>3. n \in S
  <2> HIDE DEF S
  <2>1. 0..n \subseteq S
    BY <1>1, <1>2, SetInduction
  <2> QED
    BY <2>1
<1> DEFINE iter == CHOOSE f : Iter(f, n)
<1>4. Iter(iter, n)
  <2>1. \E f : Iter(f, n)
    BY <1>3
  <2> HIDE DEF Iter
  <2> QED
    BY <2>1
<1>5. AfterStores(m, e, body) = iter[1..n]
  BY DEF AfterStores, FoldLeft, MapThenFoldSet
<1> DEFINE run == [k \in 0..n |-> iter[1..k]]
<1> HIDE DEF iter, S
<1>6. run[0] = m /\ run[n] = iter[1..n]
  <2>1. 1..0 = {} /\ {} \in SUBSET (1..n) /\ 0 \in 0..n /\ n \in 0..n
    OBVIOUS
  <2> QED
    BY <1>4, <2>1
<1>7. ASSUME NEW k \in 1..n PROVE run[k] = AfterStore(run[k - 1], e, body[k])
  <2>1. k \in 0..n /\ k - 1 \in 0..n
    OBVIOUS
  <2> QED
    BY <1>4, <2>1, FirstOnes
<1> QED
  <2> HIDE DEF run
  <2> QED
    BY <1>5, <1>6, <1>7 DEF StoresSteps

(* Counter by counter. *)
LoopSteps(run, m, e, lp, n) ==
  /\ run[0] = m /\ AfterLoop(m, e, lp) = run[n]
  /\ \A k \in 1..n : run[k] = AfterStores(run[k - 1], Within(e, Counters(lp, e)[k]), lp.body)

(* An inner loop, one memory after each of its iterations. *)
LEMMA LoopTrace ==
  ASSUME NEW m, NEW e, NEW lp, NEW n \in Nat, DOMAIN Counters(lp, e) = 1..n
  PROVE  \E run : LoopSteps(run, m, e, lp, n)
<1> DEFINE Iter(f, q) ==
             f = [s \in SUBSET (1..q) |->
                    IF s = {} THEN m ELSE AfterStores(f[s \ {Max(s)}], Within(e, Counters(lp, e)[Max(s)]), lp.body)]
           S == {q \in 0..n : \E f : Iter(f, q)}
<1>1. 0 \in S
  <2>1. Iter([s \in SUBSET (1..0) |-> m], 0)
    OBVIOUS
  <2> QED
    BY <2>1
<1>2. ASSUME NEW q \in 0..(n - 1), q \in S PROVE q + 1 \in S
  <2>0. q \in Nat /\ q + 1 \in 0..n /\ q + 1 \in Nat
    OBVIOUS
  <2>1. PICK f : Iter(f, q)
    BY <1>2
  <2> DEFINE g == [s \in SUBSET (1..(q + 1)) |->
                     IF q + 1 \in s THEN AfterStores(f[s \ {q + 1}], Within(e, Counters(lp, e)[q + 1]), lp.body) ELSE f[s]]
  <2>2. \A s \in SUBSET (1..q) : s \in SUBSET (1..(q + 1)) /\ q + 1 \notin s
    BY <2>0
  <2>3. \A s \in SUBSET (1..q) : g[s] = f[s]
    BY <2>2
  <2>4. ASSUME NEW s \in SUBSET (1..(q + 1)), s # {}
        PROVE  g[s] = AfterStores(g[s \ {Max(s)}], Within(e, Counters(lp, e)[Max(s)]), lp.body)
    <3>1. CASE q + 1 \in s
      <4>1. Max(s) = q + 1
        BY <2>0, <3>1, MaxIs
      <4>2. s \ {q + 1} \in SUBSET (1..q)
        BY <2>0
      <4> QED
        BY <2>3, <3>1, <4>1, <4>2
    <3>2. CASE q + 1 \notin s
      <4>1. s \in SUBSET (1..q)
        BY <2>0, <3>2
      <4>2. s \ {Max(s)} \in SUBSET (1..q)
        BY <4>1
      <4>3. f[s] = AfterStores(f[s \ {Max(s)}], Within(e, Counters(lp, e)[Max(s)]), lp.body)
        BY <2>1, <2>4, <4>1
      <4> QED
        BY <2>3, <4>1, <4>2, <4>3
    <3> QED
      BY <3>1, <3>2
  <2>5. {} \in SUBSET (1..q) /\ g[{}] = m
    BY <2>1, <2>3
  <2>6. DOMAIN g = SUBSET (1..(q + 1))
    OBVIOUS
  <2>7. Iter(g, q + 1)
    <3> HIDE DEF g
    <3> SUFFICES g = [s \in SUBSET (1..(q + 1)) |->
                    IF s = {} THEN m ELSE AfterStores(g[s \ {Max(s)}], Within(e, Counters(lp, e)[Max(s)]), lp.body)]
      OBVIOUS
    <3>1. g = [s \in SUBSET (1..(q + 1)) |-> g[s]]
      BY <2>6 DEF g
    <3> QED
      BY <2>4, <2>5, <3>1
  <2> QED
    BY <2>0, <2>7
<1>3. n \in S
  <2> HIDE DEF S
  <2>1. 0..n \subseteq S
    BY <1>1, <1>2, SetInduction
  <2> QED
    BY <2>1
<1> DEFINE iter == CHOOSE f : Iter(f, n)
<1>4. Iter(iter, n)
  <2>1. \E f : Iter(f, n)
    BY <1>3
  <2> HIDE DEF Iter
  <2> QED
    BY <2>1
<1>5. AfterLoop(m, e, lp) = iter[1..n]
  BY DEF AfterLoop, FoldLeft, MapThenFoldSet
<1> DEFINE run == [k \in 0..n |-> iter[1..k]]
<1> HIDE DEF iter, S
<1>6. run[0] = m /\ run[n] = iter[1..n]
  <2>1. 1..0 = {} /\ {} \in SUBSET (1..n) /\ 0 \in 0..n /\ n \in 0..n
    OBVIOUS
  <2> QED
    BY <1>4, <2>1
<1>7. ASSUME NEW k \in 1..n PROVE run[k] = AfterStores(run[k - 1], Within(e, Counters(lp, e)[k]), lp.body)
  <2>1. k \in 0..n /\ k - 1 \in 0..n
    OBVIOUS
  <2> QED
    BY <1>4, <2>1, FirstOnes
<1> QED
  <2> HIDE DEF run
  <2> QED
    BY <1>5, <1>6, <1>7 DEF LoopSteps

(* Item by item. *)
BodySteps(run, m, e, body, n) ==
  /\ run[0] = m /\ AfterBody(m, e, body) = run[n]
  /\ \A k \in 1..n : run[k] = AfterItem(run[k - 1], e, body[k])

(* The items of a body, one memory after each. *)
LEMMA BodyTrace ==
  ASSUME NEW m, NEW e, NEW body, NEW n \in Nat, DOMAIN body = 1..n
  PROVE  \E run : BodySteps(run, m, e, body, n)
<1> DEFINE Iter(f, q) ==
             f = [s \in SUBSET (1..q) |->
                    IF s = {} THEN m ELSE AfterItem(f[s \ {Max(s)}], e, body[Max(s)])]
           S == {q \in 0..n : \E f : Iter(f, q)}
<1>1. 0 \in S
  <2>1. Iter([s \in SUBSET (1..0) |-> m], 0)
    OBVIOUS
  <2> QED
    BY <2>1
<1>2. ASSUME NEW q \in 0..(n - 1), q \in S PROVE q + 1 \in S
  <2>0. q \in Nat /\ q + 1 \in 0..n /\ q + 1 \in Nat
    OBVIOUS
  <2>1. PICK f : Iter(f, q)
    BY <1>2
  <2> DEFINE g == [s \in SUBSET (1..(q + 1)) |->
                     IF q + 1 \in s THEN AfterItem(f[s \ {q + 1}], e, body[q + 1]) ELSE f[s]]
  <2>2. \A s \in SUBSET (1..q) : s \in SUBSET (1..(q + 1)) /\ q + 1 \notin s
    BY <2>0
  <2>3. \A s \in SUBSET (1..q) : g[s] = f[s]
    BY <2>2
  <2>4. ASSUME NEW s \in SUBSET (1..(q + 1)), s # {}
        PROVE  g[s] = AfterItem(g[s \ {Max(s)}], e, body[Max(s)])
    <3>1. CASE q + 1 \in s
      <4>1. Max(s) = q + 1
        BY <2>0, <3>1, MaxIs
      <4>2. s \ {q + 1} \in SUBSET (1..q)
        BY <2>0
      <4> QED
        BY <2>3, <3>1, <4>1, <4>2
    <3>2. CASE q + 1 \notin s
      <4>1. s \in SUBSET (1..q)
        BY <2>0, <3>2
      <4>2. s \ {Max(s)} \in SUBSET (1..q)
        BY <4>1
      <4>3. f[s] = AfterItem(f[s \ {Max(s)}], e, body[Max(s)])
        BY <2>1, <2>4, <4>1
      <4> QED
        BY <2>3, <4>1, <4>2, <4>3
    <3> QED
      BY <3>1, <3>2
  <2>5. {} \in SUBSET (1..q) /\ g[{}] = m
    BY <2>1, <2>3
  <2>6. DOMAIN g = SUBSET (1..(q + 1))
    OBVIOUS
  <2>7. Iter(g, q + 1)
    <3> HIDE DEF g
    <3> SUFFICES g = [s \in SUBSET (1..(q + 1)) |->
                    IF s = {} THEN m ELSE AfterItem(g[s \ {Max(s)}], e, body[Max(s)])]
      OBVIOUS
    <3>1. g = [s \in SUBSET (1..(q + 1)) |-> g[s]]
      BY <2>6 DEF g
    <3> QED
      BY <2>4, <2>5, <3>1
  <2> QED
    BY <2>0, <2>7
<1>3. n \in S
  <2> HIDE DEF S
  <2>1. 0..n \subseteq S
    BY <1>1, <1>2, SetInduction
  <2> QED
    BY <2>1
<1> DEFINE iter == CHOOSE f : Iter(f, n)
<1>4. Iter(iter, n)
  <2>1. \E f : Iter(f, n)
    BY <1>3
  <2> HIDE DEF Iter
  <2> QED
    BY <2>1
<1>5. AfterBody(m, e, body) = iter[1..n]
  BY DEF AfterBody, FoldLeft, MapThenFoldSet
<1> DEFINE run == [k \in 0..n |-> iter[1..k]]
<1> HIDE DEF iter, S
<1>6. run[0] = m /\ run[n] = iter[1..n]
  <2>1. 1..0 = {} /\ {} \in SUBSET (1..n) /\ 0 \in 0..n /\ n \in 0..n
    OBVIOUS
  <2> QED
    BY <1>4, <2>1
<1>7. ASSUME NEW k \in 1..n PROVE run[k] = AfterItem(run[k - 1], e, body[k])
  <2>1. k \in 0..n /\ k - 1 \in 0..n
    OBVIOUS
  <2> QED
    BY <1>4, <2>1, FirstOnes
<1> QED
  <2> HIDE DEF run
  <2> QED
    BY <1>5, <1>6, <1>7 DEF BodySteps

(* Outer iteration by outer iteration. *)
NestSteps(run, m, n, items) ==
  /\ run[0] = m /\ AfterNest(m, n, items) = run[n]
  /\ \A k \in 1..n : run[k] = AfterBody(run[k - 1], Iteration(n, k - 1), items)

(* A nest, one memory after each outer iteration. *)
LEMMA NestTrace ==
  ASSUME NEW m, NEW n \in Nat, NEW items
  PROVE  \E run : NestSteps(run, m, n, items)
<1> DEFINE count == [k \in 1..n |-> k - 1]
<1>a. DOMAIN count = 1..n /\ \A k \in 1..n : count[k] = k - 1
  OBVIOUS
<1>b. AfterNest(m, n, items) = FoldLeft(LAMBDA mem, i : AfterBody(mem, Iteration(n, i), items), m, count)
  BY DEF AfterNest
<1> HIDE DEF count
<1> DEFINE Iter(f, q) ==
             f = [s \in SUBSET (1..q) |->
                    IF s = {} THEN m ELSE AfterBody(f[s \ {Max(s)}], Iteration(n, count[Max(s)]), items)]
           S == {q \in 0..n : \E f : Iter(f, q)}
<1>1. 0 \in S
  <2>1. Iter([s \in SUBSET (1..0) |-> m], 0)
    OBVIOUS
  <2> QED
    BY <2>1
<1>2. ASSUME NEW q \in 0..(n - 1), q \in S PROVE q + 1 \in S
  <2>0. q \in Nat /\ q + 1 \in 0..n /\ q + 1 \in Nat
    OBVIOUS
  <2>1. PICK f : Iter(f, q)
    BY <1>2
  <2> DEFINE g == [s \in SUBSET (1..(q + 1)) |->
                     IF q + 1 \in s THEN AfterBody(f[s \ {q + 1}], Iteration(n, count[q + 1]), items) ELSE f[s]]
  <2>2. \A s \in SUBSET (1..q) : s \in SUBSET (1..(q + 1)) /\ q + 1 \notin s
    BY <2>0
  <2>3. \A s \in SUBSET (1..q) : g[s] = f[s]
    BY <2>2
  <2>4. ASSUME NEW s \in SUBSET (1..(q + 1)), s # {}
        PROVE  g[s] = AfterBody(g[s \ {Max(s)}], Iteration(n, count[Max(s)]), items)
    <3>1. CASE q + 1 \in s
      <4>1. Max(s) = q + 1
        BY <2>0, <3>1, MaxIs
      <4>2. s \ {q + 1} \in SUBSET (1..q)
        BY <2>0
      <4> QED
        BY <2>3, <3>1, <4>1, <4>2
    <3>2. CASE q + 1 \notin s
      <4>1. s \in SUBSET (1..q)
        BY <2>0, <3>2
      <4>2. s \ {Max(s)} \in SUBSET (1..q)
        BY <4>1
      <4>3. f[s] = AfterBody(f[s \ {Max(s)}], Iteration(n, count[Max(s)]), items)
        BY <2>1, <2>4, <4>1
      <4> QED
        BY <2>3, <4>1, <4>2, <4>3
    <3> QED
      BY <3>1, <3>2
  <2>5. {} \in SUBSET (1..q) /\ g[{}] = m
    BY <2>1, <2>3
  <2>6. DOMAIN g = SUBSET (1..(q + 1))
    OBVIOUS
  <2>7. Iter(g, q + 1)
    <3> HIDE DEF g
    <3> SUFFICES g = [s \in SUBSET (1..(q + 1)) |->
                    IF s = {} THEN m ELSE AfterBody(g[s \ {Max(s)}], Iteration(n, count[Max(s)]), items)]
      OBVIOUS
    <3>1. g = [s \in SUBSET (1..(q + 1)) |-> g[s]]
      BY <2>6 DEF g
    <3> QED
      BY <2>4, <2>5, <3>1
  <2> QED
    BY <2>0, <2>7
<1>3. n \in S
  <2> HIDE DEF S
  <2>1. 0..n \subseteq S
    BY <1>1, <1>2, SetInduction
  <2> QED
    BY <2>1
<1> DEFINE iter == CHOOSE f : Iter(f, n)
<1>4. Iter(iter, n)
  <2>1. \E f : Iter(f, n)
    BY <1>3
  <2> HIDE DEF Iter
  <2> QED
    BY <2>1
<1>5. AfterNest(m, n, items) = iter[1..n]
  BY <1>a, <1>b DEF FoldLeft, MapThenFoldSet
<1> DEFINE run == [k \in 0..n |-> iter[1..k]]
<1> HIDE DEF iter, S
<1>6. run[0] = m /\ run[n] = iter[1..n]
  <2>1. 1..0 = {} /\ {} \in SUBSET (1..n) /\ 0 \in 0..n /\ n \in 0..n
    OBVIOUS
  <2> QED
    BY <1>4, <2>1
<1>7. ASSUME NEW k \in 1..n PROVE run[k] = AfterBody(run[k - 1], Iteration(n, k - 1), items)
  <2>1. k \in 0..n /\ k - 1 \in 0..n
    OBVIOUS
  <2>2. /\ 1..k \in SUBSET (1..n) /\ 1..k # {} /\ Max(1..k) = k
        /\ (1..k) \ {Max(1..k)} = 1..(k - 1)
    BY FirstOnes
  <2>3. iter[1..k] = AfterBody(iter[1..(k - 1)], Iteration(n, count[k]), items)
    BY <1>4, <2>2
  <2>4. run[k] = iter[1..k] /\ run[k - 1] = iter[1..(k - 1)] /\ count[k] = k - 1
    BY <1>a, <2>1
  <2> HIDE DEF run
  <2> QED
    BY <2>3, <2>4
<1> QED
  <2> HIDE DEF run
  <2> QED
    BY <1>5, <1>6, <1>7 DEF NestSteps

(* Nest by nest. *)
RunSteps(run, m, N, nests, n) ==
  /\ run[0] = m /\ After(m, N, nests) = run[n]
  /\ \A k \in 1..n : run[k] = AfterNest(run[k - 1], N, nests[k])

(* A function, one memory after each nest. *)
LEMMA RunTrace ==
  ASSUME NEW m, NEW N, NEW nests, NEW n \in Nat, DOMAIN nests = 1..n
  PROVE  \E run : RunSteps(run, m, N, nests, n)
<1> DEFINE Iter(f, q) ==
             f = [s \in SUBSET (1..q) |->
                    IF s = {} THEN m ELSE AfterNest(f[s \ {Max(s)}], N, nests[Max(s)])]
           S == {q \in 0..n : \E f : Iter(f, q)}
<1>1. 0 \in S
  <2>1. Iter([s \in SUBSET (1..0) |-> m], 0)
    OBVIOUS
  <2> QED
    BY <2>1
<1>2. ASSUME NEW q \in 0..(n - 1), q \in S PROVE q + 1 \in S
  <2>0. q \in Nat /\ q + 1 \in 0..n /\ q + 1 \in Nat
    OBVIOUS
  <2>1. PICK f : Iter(f, q)
    BY <1>2
  <2> DEFINE g == [s \in SUBSET (1..(q + 1)) |->
                     IF q + 1 \in s THEN AfterNest(f[s \ {q + 1}], N, nests[q + 1]) ELSE f[s]]
  <2>2. \A s \in SUBSET (1..q) : s \in SUBSET (1..(q + 1)) /\ q + 1 \notin s
    BY <2>0
  <2>3. \A s \in SUBSET (1..q) : g[s] = f[s]
    BY <2>2
  <2>4. ASSUME NEW s \in SUBSET (1..(q + 1)), s # {}
        PROVE  g[s] = AfterNest(g[s \ {Max(s)}], N, nests[Max(s)])
    <3>1. CASE q + 1 \in s
      <4>1. Max(s) = q + 1
        BY <2>0, <3>1, MaxIs
      <4>2. s \ {q + 1} \in SUBSET (1..q)
        BY <2>0
      <4> QED
        BY <2>3, <3>1, <4>1, <4>2
    <3>2. CASE q + 1 \notin s
      <4>1. s \in SUBSET (1..q)
        BY <2>0, <3>2
      <4>2. s \ {Max(s)} \in SUBSET (1..q)
        BY <4>1
      <4>3. f[s] = AfterNest(f[s \ {Max(s)}], N, nests[Max(s)])
        BY <2>1, <2>4, <4>1
      <4> QED
        BY <2>3, <4>1, <4>2, <4>3
    <3> QED
      BY <3>1, <3>2
  <2>5. {} \in SUBSET (1..q) /\ g[{}] = m
    BY <2>1, <2>3
  <2>6. DOMAIN g = SUBSET (1..(q + 1))
    OBVIOUS
  <2>7. Iter(g, q + 1)
    <3> HIDE DEF g
    <3> SUFFICES g = [s \in SUBSET (1..(q + 1)) |->
                    IF s = {} THEN m ELSE AfterNest(g[s \ {Max(s)}], N, nests[Max(s)])]
      OBVIOUS
    <3>1. g = [s \in SUBSET (1..(q + 1)) |-> g[s]]
      BY <2>6 DEF g
    <3> QED
      BY <2>4, <2>5, <3>1
  <2> QED
    BY <2>0, <2>7
<1>3. n \in S
  <2> HIDE DEF S
  <2>1. 0..n \subseteq S
    BY <1>1, <1>2, SetInduction
  <2> QED
    BY <2>1
<1> DEFINE iter == CHOOSE f : Iter(f, n)
<1>4. Iter(iter, n)
  <2>1. \E f : Iter(f, n)
    BY <1>3
  <2> HIDE DEF Iter
  <2> QED
    BY <2>1
<1>5. After(m, N, nests) = iter[1..n]
  BY DEF After, FoldLeft, MapThenFoldSet
<1> DEFINE run == [k \in 0..n |-> iter[1..k]]
<1> HIDE DEF iter, S
<1>6. run[0] = m /\ run[n] = iter[1..n]
  <2>1. 1..0 = {} /\ {} \in SUBSET (1..n) /\ 0 \in 0..n /\ n \in 0..n
    OBVIOUS
  <2> QED
    BY <1>4, <2>1
<1>7. ASSUME NEW k \in 1..n PROVE run[k] = AfterNest(run[k - 1], N, nests[k])
  <2>1. k \in 0..n /\ k - 1 \in 0..n
    OBVIOUS
  <2> QED
    BY <1>4, <2>1, FirstOnes
<1> QED
  <2> HIDE DEF run
  <2> QED
    BY <1>5, <1>6, <1>7 DEF RunSteps

-----------------------------------------------------------------------------
(***************************************************************************)
(* One store that adds to an element, and the inner loop that repeats it.  *)
(***************************************************************************)
Inside(n, i, j) == [n |-> n, i |-> i, j |-> j]

(* Where an iteration of the inner loop is. *)
LEMMA InsideIs ==
  ASSUME NEW n, NEW i, NEW j
  PROVE  /\ Within(Iteration(n, i), j) = Inside(n, i, j)
         /\ Iteration(n, i) = Inside(n, i, 0)
BY DEF Iteration, Within, Inside

(* What the checks and the gaps leave: x = x op rec, rec not of the same array. *)
Recurring(st) ==
  /\ ~st.guarded /\ IsRecurrence(st)
  /\ RecTerm(st) # None /\ ~IsLoadOf(RecTerm(st), st.arr)
  /\ st.op = "sub" => IsOwn(st.l, st)

(* An operand that is not a load of a reads the same when only a differs. *)
LEMMA ReadElsewhere ==
  ASSUME NEW o \in Operands, NEW a \in Arrays, ~IsLoadOf(o, a), NEW e, NEW m, NEW w,
         \A b \in Arrays \ {a} : w[b] = m[b]
  PROVE  Read(w, e, o) = Read(m, e, o)
<1>1. CASE o.kind = "term"
  BY <1>1 DEF Read
<1>2. CASE o.kind # "term"
  <2>1. o.kind = "load" /\ o.arr \in Arrays
    BY <1>2 DEF Operands
  <2>2. o.arr # a
    BY <2>1 DEF IsLoadOf
  <2> QED
    BY <1>2, <2>1, <2>2 DEF Read
<1> QED
  BY <1>1, <1>2

(* A recurrence applies its operation to the element and the operand. *)
LEMMA RecurrenceStore ==
  ASSUME NEW st \in Stores, Recurring(st), NEW m \in Memories, NEW e,
         At(st.idx, e) \in Cells, Read(m, e, RecTerm(st)) \in Int
  PROVE  AfterStore(m, e, st) =
           Assigned(m, st.arr, At(st.idx, e),
                    Apply(st.op, m[st.arr][At(st.idx, e)], Read(m, e, RecTerm(st))))
<1> DEFINE x == At(st.idx, e)
<1>1. /\ st.arr \in Arrays /\ st.idx \in Indices /\ st.op \in {"add", "sub", "mul"}
      /\ st.l \in Operands /\ st.r \in Operands
  BY StoreFields, RecTermType DEF Recurring
<1>2. m[st.arr][x] \in Int
  BY <1>1 DEF Memories
<1>3. AfterStore(m, e, st) = Assigned(m, st.arr, x, Apply(st.op, Read(m, e, st.l), Read(m, e, st.r)))
  BY DEF AfterStore, Recurring
<1>4. ASSUME NEW o \in Operands, IsOwn(o, st) PROVE Read(m, e, o) = m[st.arr][x]
  BY <1>4 DEF IsOwn, IsLoadOf, Read
<1>5. CASE IsOwn(st.l, st)
  <2>1. RecTerm(st) = st.r
    BY <1>1, <1>5 DEF RecTerm
  <2> QED
    BY <1>1, <1>3, <1>4, <1>5, <2>1
<1>6. CASE ~IsOwn(st.l, st)
  <2>1. IsOwn(st.r, st) /\ IsLoadOf(st.r, st.arr)
    BY <1>6 DEF Recurring, IsRecurrence, IsOwn
  <2>2. RecTerm(st) = st.l
    BY <1>1, <1>6, <2>1 DEF RecTerm, Recurring
  <2>3. st.op \in {"add", "mul"}
    BY <1>1, <1>6 DEF Recurring
  <2>4. \A v, w \in Int : Apply(st.op, v, w) = Apply(st.op, w, v)
    BY <2>3 DEF Apply
  <2> HIDE DEF x
  <2>5. Apply(st.op, Read(m, e, st.l), Read(m, e, st.r)) = Apply(st.op, m[st.arr][x], Read(m, e, RecTerm(st)))
    BY <1>1, <1>2, <1>4, <2>1, <2>2, <2>4
  <2> QED
    BY <1>3, <2>5 DEF x
<1> QED
  BY <1>5, <1>6

(* add and sub both add something. *)
LEMMA Adding ==
  ASSUME NEW op \in {"add", "sub"}, NEW v \in Int, NEW w \in Int
  PROVE  Apply(op, v, w) = v + Signed(op, w) /\ Signed(op, w) \in Int
BY DEF Apply, Signed

(* An addition to an element, as an amount added to its array. *)
LEMMA AddingStore ==
  ASSUME NEW st \in Stores, Recurring(st), st.op \in {"add", "sub"}, NEW m \in Memories, NEW e,
         At(st.idx, e) \in Cells, NEW v \in Int, Read(m, e, RecTerm(st)) = v
  PROVE  AfterStore(m, e, st) = Shifted(m, st.arr, OneAmount(At(st.idx, e), Signed(st.op, v)))
<1> DEFINE x == At(st.idx, e)
<1>1. st.arr \in Arrays /\ m[st.arr][x] \in Int
  BY StoreFields DEF Memories
<1>2. AfterStore(m, e, st) = Assigned(m, st.arr, x, Apply(st.op, m[st.arr][x], v))
  BY RecurrenceStore
<1>3. Apply(st.op, m[st.arr][x], v) = m[st.arr][x] + Signed(st.op, v) /\ Signed(st.op, v) \in Int
  BY <1>1, Adding
<1> QED
  BY <1>1, <1>2, <1>3, AssignedIsShifted

(* A body of one store is the store. *)
LEMMA OneStore ==
  ASSUME NEW m, NEW e, NEW st PROVE AfterStores(m, e, <<st>>) = AfterStore(m, e, st)
<1>1. DOMAIN <<st>> = 1..1 /\ <<st>>[1] = st
  OBVIOUS
<1>2. PICK run : StoresSteps(run, m, e, <<st>>, 1)
  BY <1>1, StoresTrace
<1>3. run[0] = m /\ AfterStores(m, e, <<st>>) = run[1] /\ run[1] = AfterStore(run[1 - 1], e, <<st>>[1])
  BY <1>2 DEF StoresSteps
<1> QED
  BY <1>1, <1>3

(* The inner loop that adds to one element adds the multiple to it. *)
LEMMA LoopAtOneElement ==
  ASSUME NEW lp, NEW st \in Stores, lp.body = <<st>>, Recurring(st), st.op \in {"add", "sub"},
         st.idx # "inner", NEW m \in Memories, NEW n \in Int, NEW i \in Int, NEW times \in Nat,
         DOMAIN Counters(lp, Iteration(n, i)) = 1..times, NEW v \in Int,
         At(st.idx, Iteration(n, i)) \in Cells,
         \A k \in 1..times : Read(m, Inside(n, i, Counters(lp, Iteration(n, i))[k]), RecTerm(st)) = v
  PROVE  AfterLoop(m, Iteration(n, i), lp) =
           Shifted(m, st.arr, OneAmount(At(st.idx, Iteration(n, i)), Signed(st.op, times * v)))
<1> DEFINE e == Iteration(n, i)
           x == At(st.idx, e)
           a == st.arr
           count == Counters(lp, e)
           Sum(k) == Signed(st.op, k * v)
<1>1. a \in Arrays /\ RecTerm(st) \in Operands /\ st.idx \in Indices
  BY StoreFields, RecTermType DEF Recurring
<1>2. PICK run : LoopSteps(run, m, e, lp, times)
  BY LoopTrace
<1>3. /\ run[0] = m /\ AfterLoop(m, e, lp) = run[times]
      /\ \A k \in 1..times : run[k] = AfterStore(run[k - 1], Inside(n, i, count[k]), st)
  BY <1>2, InsideIs, OneStore DEF LoopSteps
<1>4. \A k \in Nat : Sum(k) \in Int /\ Sum(k + 1) = Sum(k) + Signed(st.op, v)
  <2> SUFFICES ASSUME NEW k \in Nat PROVE Sum(k) \in Int /\ Sum(k + 1) = Sum(k) + Signed(st.op, v)
    OBVIOUS
  <2>1. k * v \in Int /\ (k + 1) * v = k * v + v
    OBVIOUS
  <2> QED
    BY <2>1 DEF Signed
<1>5. \A j : At(st.idx, Inside(n, i, j)) = x
  BY <1>1, InsideIs DEF At, Inside, Indices
<1> HIDE DEF Sum, x, e
<1> DEFINE T == {k \in 0..times : run[k] = Shifted(m, a, OneAmount(x, Sum(k)))}
<1>6. 0 \in T
  <2>1. Sum(0) = 0
    BY DEF Sum, Signed
  <2>2. OneAmount(x, 0) \in Amounts /\ \A y \in Cells : OneAmount(x, 0)[y] = 0
    BY OneAmountType DEF OneAmount, x, e
  <2>3. Shifted(m, a, OneAmount(x, 0)) = m
    BY <1>1, <2>2, ShiftedByNothing
  <2> QED
    BY <1>3, <2>1, <2>3
<1>7. ASSUME NEW k \in 0..(times - 1), k \in T PROVE k + 1 \in T
  <2>0. k \in Nat /\ k + 1 \in 1..times /\ k + 1 - 1 = k
    OBVIOUS
  <2> DEFINE d == OneAmount(x, Sum(k))
             w == Shifted(m, a, d)
             f == OneAmount(x, Signed(st.op, v))
             c == Inside(n, i, count[k + 1])
  <2>1. run[k] = w
    BY <1>7
  <2>2. x \in Cells /\ Signed(st.op, v) \in Int /\ Sum(k) \in Int /\ Sum(k + 1) \in Int
    <3>1. x \in Cells
      BY DEF x, e
    <3>2. Signed(st.op, v) \in Int
      BY DEF Signed
    <3>3. k \in Nat /\ k + 1 \in Nat
      BY <2>0
    <3>4. Sum(k) \in Int
      BY <1>4, <3>3
    <3>5. Sum(k + 1) \in Int
      BY <1>4, <3>3
    <3> QED
      BY <3>1, <3>2, <3>4, <3>5
  <2>3. d \in Amounts /\ f \in Amounts /\ OneAmount(x, Sum(k + 1)) \in Amounts
    BY <2>2, OneAmountType
  <2>4. w \in Memories /\ \A b \in Arrays \ {a} : w[b] = m[b]
    <3> HIDE DEF d
    <3> QED
      BY <1>1, <2>3, ShiftedIs
  <2>5. Read(w, c, RecTerm(st)) = Read(m, c, RecTerm(st))
    <3> HIDE DEF w
    <3> QED
      BY <1>1, <2>4, ReadElsewhere DEF Recurring
  <2>6. Read(m, c, RecTerm(st)) = v
    BY <2>0 DEF e
  <2>7. AfterStore(w, c, st) = Shifted(w, a, f)
    <3> HIDE DEF w, c
    <3>1. Read(w, c, RecTerm(st)) = v /\ At(st.idx, c) = x
      BY <1>5, <2>5, <2>6 DEF c
    <3> QED
      BY <2>2, <2>4, <3>1, AddingStore
  <2>8. run[k + 1] = AfterStore(w, c, st)
    BY <1>3, <2>0, <2>1
  <2>9. \A y \in Cells : OneAmount(x, Sum(k + 1))[y] = d[y] + f[y]
    <3>1. Sum(k + 1) = Sum(k) + Signed(st.op, v)
      BY <1>4, <2>0
    <3> QED
      BY <2>2, <3>1 DEF OneAmount
  <2>10. Shifted(w, a, f) = Shifted(m, a, OneAmount(x, Sum(k + 1)))
    <3> HIDE DEF d, f
    <3> QED
      BY <1>1, <2>3, <2>9, ShiftedTwice
  <2> QED
    BY <2>0, <2>7, <2>8, <2>10
<1>8. times \in T
  <2> HIDE DEF T
  <2>1. 0..times \subseteq T
    BY <1>6, <1>7, SetInduction
  <2> QED
    BY <2>1
<1> QED
  BY <1>3, <1>8 DEF x, e, Sum

(* What is added between two bounds. *)
Between(op, from, to, v) == [x \in Cells |-> IF from <= x /\ x < to THEN Signed(op, v[x]) ELSE 0]

(* What is added is a number. *)
LEMMA SignedType == \A op : \A v \in Int : Signed(op, v) \in Int
BY DEF Signed

(* What is added between two bounds is an amount. *)
LEMMA BetweenType ==
  ASSUME NEW op, NEW from, NEW to, NEW v \in Amounts
  PROVE  Between(op, from, to, v) \in Amounts
BY SignedType DEF Between, Amounts

(* A loop that counts up, and what its store adds on the way. *)
Counting(lp, e, from, times) ==
  DOMAIN Counters(lp, e) = 1..times /\ \A k \in 1..times : Counters(lp, e)[k] = from + (k - 1)

Reading(m, n, i, st, from, times, v) ==
  \A j \in from..(from + times - 1) : j \in Cells /\ Read(m, Inside(n, i, j), RecTerm(st)) = v[j]

(* The inner loop that adds along the array adds to each element it comes by. *)
LEMMA LoopAlongArray ==
  ASSUME NEW lp, NEW st \in Stores, lp.body = <<st>>, Recurring(st), st.op \in {"add", "sub"},
         st.idx = "inner", NEW m \in Memories, NEW n \in Int, NEW i \in Int, NEW times \in Nat,
         NEW from \in Int, Counting(lp, Iteration(n, i), from, times), NEW v \in Amounts,
         Reading(m, n, i, st, from, times, v)
  PROVE  AfterLoop(m, Iteration(n, i), lp) =
           Shifted(m, st.arr, Between(st.op, from, from + times, v))
<1> DEFINE e == Iteration(n, i)
           a == st.arr
           count == Counters(lp, e)
           d(k) == Between(st.op, from, from + k, v)
<1>1. a \in Arrays /\ RecTerm(st) \in Operands
  BY StoreFields, RecTermType DEF Recurring
<1>2. DOMAIN count = 1..times /\ \A k \in 1..times : count[k] = from + (k - 1)
  BY DEF Counting
<1>9. \A j \in from..(from + times - 1) : j \in Cells /\ Read(m, Inside(n, i, j), RecTerm(st)) = v[j]
  BY DEF Reading
<1>3. PICK run : LoopSteps(run, m, e, lp, times)
  <2> HIDE DEF e
  <2> QED
    BY <1>2, LoopTrace
<1>4. /\ run[0] = m /\ AfterLoop(m, e, lp) = run[times]
      /\ \A k \in 1..times : run[k] = AfterStore(run[k - 1], Inside(n, i, count[k]), st)
  BY <1>3, InsideIs, OneStore DEF LoopSteps
<1>5. \A k : d(k) \in Amounts
  BY BetweenType
<1> DEFINE T == {k \in 0..times : run[k] = Shifted(m, a, d(k))}
<1>6. 0 \in T
  <2>1. \A x \in Cells : d(0)[x] = 0
    <3>1. \A x \in Cells : ~(from <= x /\ x < from + 0)
      BY CellsAre
    <3> QED
      BY <3>1 DEF Between
  <2>2. d(0) \in Amounts
    BY <1>5
  <2> HIDE DEF d
  <2>3. Shifted(m, a, d(0)) = m
    BY <1>1, <2>1, <2>2, ShiftedByNothing
  <2> QED
    BY <1>4, <2>3
<1>7. ASSUME NEW k \in 0..(times - 1), k \in T PROVE k + 1 \in T
  <2>0. k \in Nat /\ k + 1 \in 1..times /\ k + 1 - 1 = k
    OBVIOUS
  <2> DEFINE x == from + k
             w == Shifted(m, a, d(k))
             f == OneAmount(x, Signed(st.op, v[x]))
             c == Inside(n, i, x)
  <2>1. run[k] = w
    BY <1>7
  <2>2. count[k + 1] = x /\ x \in Cells /\ x \in from..(from + times - 1)
    BY <1>2, <1>9, <2>0
  <2>3. v[x] \in Int /\ Signed(st.op, v[x]) \in Int
    BY <2>2, SignedType DEF Amounts
  <2>4. f \in Amounts /\ d(k) \in Amounts /\ d(k + 1) \in Amounts
    BY <1>5, <2>2, <2>3, OneAmountType
  <2>5. w \in Memories /\ \A b \in Arrays \ {a} : w[b] = m[b]
    <3> HIDE DEF d
    <3> QED
      BY <1>1, <2>4, ShiftedIs
  <2>6. Read(w, c, RecTerm(st)) = v[x] /\ At(st.idx, c) = x
    <3>1. Read(w, c, RecTerm(st)) = Read(m, c, RecTerm(st))
      <4> HIDE DEF w, c
      <4> QED
        BY <1>1, <2>5, ReadElsewhere DEF Recurring
    <3>2. Read(m, c, RecTerm(st)) = v[x]
      BY <1>9, <2>2
    <3> QED
      BY <3>1, <3>2 DEF At, Inside
  <2>7. AfterStore(w, c, st) = Shifted(w, a, f)
    <3> HIDE DEF w, c, x
    <3> QED
      BY <2>2, <2>3, <2>5, <2>6, AddingStore
  <2>8. run[k + 1] = AfterStore(w, c, st)
    BY <1>4, <2>0, <2>1, <2>2
  <2>9. \A y \in Cells : d(k + 1)[y] = d(k)[y] + f[y]
    <3> SUFFICES ASSUME NEW y \in Cells PROVE d(k + 1)[y] = d(k)[y] + f[y]
      OBVIOUS
    <3>1. y \in Int /\ v[y] \in Int /\ Signed(st.op, v[y]) \in Int
      BY CellsAre, SignedType DEF Amounts, Cells
    <3>2. /\ d(k + 1)[y] = IF from <= y /\ y < from + (k + 1) THEN Signed(st.op, v[y]) ELSE 0
          /\ d(k)[y] = IF from <= y /\ y < from + k THEN Signed(st.op, v[y]) ELSE 0
          /\ f[y] = IF y = from + k THEN Signed(st.op, v[y]) ELSE 0
      BY DEF Between, OneAmount
    <3> HIDE DEF d, f
    <3> QED
      BY <2>0, <3>1, <3>2
  <2>10. Shifted(w, a, f) = Shifted(m, a, d(k + 1))
    <3> HIDE DEF d, f
    <3> QED
      BY <1>1, <2>4, <2>9, ShiftedTwice
  <2> QED
    BY <2>0, <2>7, <2>8, <2>10
<1>8. times \in T
  <2> HIDE DEF T
  <2>1. 0..times \subseteq T
    BY <1>6, <1>7, SetInduction
  <2> QED
    BY <2>1
<1> QED
  BY <1>4, <1>8

-----------------------------------------------------------------------------
(***************************************************************************)
(* What the pass replaces when no gap is recorded, and the operand of it.  *)
(***************************************************************************)
Replaces(k, lp, st, ls) ==
  /\ st \in FirstStores(lp.body) /\ RecTerm(st) # None /\ LastChecks(st, ls)
  /\ RecTerm(st) # Term(Outer) /\ RecTerm(st).kind = "term" =>
       RecTerm(st).term.i = 0 /\ RecTerm(st).term.j = 0
  /\ GapsAt(k, lp, st, ls) = {}

Along(st) == st.arr \notin Static /\ st.idx = "inner"

(* The first store of a body of one item is the body. *)
LEMMA OnlyOne ==
  ASSUME NEW body \in Seq(Stores), NEW st \in FirstStores(body), Len(body) <= 1
  PROVE  body = <<st>> /\ st \in Stores
<1>1. PICK p \in DOMAIN body : body[p] = st
  BY DEF FirstStores, StoresAt
<1>2. Len(body) \in Nat /\ DOMAIN body = 1..Len(body)
  OBVIOUS
<1>3. Len(body) = 1 /\ p = 1
  BY <1>2
<1> QED
  BY <1>1, <1>3

(* When no gap is recorded the inner loop is one recurrence that runs forward. *)
LEMMA ReplacesMeans ==
  ASSUME NEW k, NEW lp \in Loops, NEW st, NEW ls, Replaces(k, lp, st, ls)
  PROVE  /\ lp.body = <<st>> /\ st \in Stores
         /\ Recurring(st) /\ st.op \in {"add", "sub"} /\ Upwards(lp)
         /\ IF Along(st) THEN Reached(lp) /\ RecTerm(st) # Term(Outer) ELSE Runs(lp)
         /\ st.arr \notin Static => st.idx \in {"outer", "inner"}
<1>1. \A g \in Gaps : g \notin GapsAt(k, lp, st, ls)
  BY DEF Replaces
<1>2. Len(lp.body) <= 1
  <2>1. ~(Len(lp.body) > 1)
    BY <1>1 DEF GapsAt, Gaps
  <2>2. Len(lp.body) \in Nat
    BY LoopFields
  <2> QED
    BY <2>1, <2>2
<1>3. lp.body = <<st>> /\ st \in Stores
  BY <1>2, LoopFields, OnlyOne DEF Replaces
<1>4. ~st.guarded
  <2>1. ~ \E p \in DOMAIN lp.body : lp.body[p].guarded
    BY <1>1 DEF GapsAt, Gaps
  <2> QED
    BY <1>3, <2>1
<1>5. IsRecurrence(st)
  BY <1>1 DEF GapsAt, Gaps
<1>6. st.op = "sub" => IsOwn(st.l, st)
  BY <1>1 DEF GapsAt, Gaps
<1>7. st.op # "mul"
  BY <1>1 DEF GapsAt, Gaps
<1>8. lp.step # 2 /\ lp.step # -1
  BY <1>1 DEF GapsAt, Gaps
<1>9. Upwards(lp)
  BY <1>8, LoopFields DEF Upwards
<1>10. Along(st) => Reached(lp)
  BY <1>1, <1>9 DEF GapsAt, Gaps, Along
<1>11. ~Along(st) => Runs(lp)
  BY <1>1, <1>9 DEF GapsAt, Gaps, Along
<1>12. ~(st.arr \notin Static /\ st.idx = "zero")
  BY <1>1 DEF GapsAt, Gaps
<1>13. st.op \in {"add", "sub"} /\ st.idx \in Indices
  BY <1>3, <1>7, StoreFields, RecTermType DEF Replaces
<1>14. Along(st) => RecTerm(st) # Term(Outer)
  BY DEF Replaces, LastChecks, Along
<1> QED
  BY <1>3, <1>4, <1>5, <1>6, <1>9, <1>10, <1>11, <1>12, <1>13, <1>14
  DEF Recurring, Replaces, LastChecks, Indices

(* The operand: one of those the gaps leave. *)
LEMMA OperandMeans ==
  ASSUME NEW k, NEW lp \in Loops, NEW st, NEW ls, Replaces(k, lp, st, ls), PlacedStore(st)
  PROVE  LET rec == RecTerm(st) IN
         \/ rec.kind = "term" /\ rec.term \in Terms /\ rec.term.i = 0 /\ rec.term.j = 0
         \/ ~Along(st) /\ rec = Term(Outer)
         \/ rec.kind = "load" /\ rec.arr \in Arrays /\ rec.idx = "zero"
         \/ /\ rec.kind = "load" /\ rec.arr \in Arrays
            /\ rec.idx = IF Along(st) THEN "inner" ELSE "outer"
         \/ /\ rec.kind = "load" /\ rec.arr \in Arrays /\ Uniform(rec.arr, k)
            /\ rec.idx = IF Along(st) THEN "outer" ELSE "inner"
<1> DEFINE rec == RecTerm(st)
<1>1. st \in Stores /\ rec # None /\ rec \in Operands
  BY ReplacesMeans, RecTermType DEF Replaces
<1>2. rec = st.l \/ rec = st.r
  BY <1>1 DEF RecTerm
<1>3. Placed(rec)
  BY <1>2 DEF PlacedStore
<1>4. CASE rec.kind = "term"
  <2>1. rec.term \in Terms /\ rec = Term(rec.term)
    BY <1>1, <1>4 DEF Operands, Term
  <2>2. CASE rec = Term(Outer)
    <3>1. ~Along(st)
      BY <2>2, ReplacesMeans
    <3> QED
      BY <2>2, <3>1
  <2>3. CASE rec # Term(Outer)
    <3>1. rec.term.i = 0 /\ rec.term.j = 0
      BY <1>4, <2>3 DEF Replaces
    <3> QED
      BY <1>4, <2>1, <3>1
  <2> QED
    BY <2>2, <2>3
<1>5. CASE rec.kind # "term"
  <2>1. rec.kind = "load" /\ rec.arr \in Arrays /\ rec.idx \in Indices
    BY <1>1, <1>5 DEF Operands
  <2>2. ~ (/\ rec.kind = "load" /\ rec.arr \notin Static
           /\ rec.idx = (IF Along(st) THEN "outer" ELSE "inner") /\ ~Uniform(rec.arr, k))
    <3>1. "moved" \notin GapsAt(k, lp, st, ls)
      BY DEF Replaces
    <3> QED
      BY <3>1 DEF GapsAt, Gaps, Along
  <2>3. CASE rec.idx = "zero"
    BY <2>1, <2>3
  <2>4. CASE rec.idx # "zero"
    <3>1. rec.arr \notin Static
      BY <1>3, <2>1, <2>4 DEF Placed
    <3>2. rec.idx \in {"outer", "inner"}
      BY <2>1, <2>4 DEF Indices
    <3> QED
      BY <2>1, <2>2, <3>1, <3>2
  <2> QED
    BY <2>3, <2>4
<1> QED
  BY <1>4, <1>5

(* Every element below n has one value. *)
Even(m, b, n) == \A x \in 0..(n - 1) : m[b][x] = m[b][0]

AllEven(m, k, n) == \A b \in Arrays : Uniform(b, k) => Even(m, b, n)

(* A term has a value. *)
LEMMA ValueType ==
  ASSUME NEW t \in Terms, NEW n \in Int, NEW i \in Int, NEW j \in Int
  PROVE  ValueOf(t, Inside(n, i, j)) \in Int
BY DEF Terms, ValueOf, Inside

(* What a term reads, in the loop and moved out of it. *)
LEMMA ReadTerm ==
  ASSUME NEW o \in Operands, o.kind = "term"
  PROVE  /\ \A m, e : Read(m, e, o) = ValueOf(o.term, e)
         /\ \A m, e : Read(m, e, cloneExpr(o)) =
              ValueOf([c |-> o.term.c, n |-> o.term.n, i |-> o.term.i + o.term.j, j |-> 0], e)
BY DEF Read, cloneExpr, Term

(* What a load reads, in the loop and moved out of it. *)
LEMMA ReadLoad ==
  ASSUME NEW o, o.kind = "load"
  PROVE  /\ \A m, e : Read(m, e, o) = m[o.arr][At(o.idx, e)]
         /\ \A m, e : Read(m, e, cloneExpr(o)) =
              m[o.arr][At(IF o.idx = "inner" THEN "outer" ELSE o.idx, e)]
BY DEF Read, cloneExpr, Load

(* What each kind of index means. *)
LEMMA Indexing ==
  ASSUME NEW n, NEW i, NEW j
  PROVE  /\ At("zero", Inside(n, i, j)) = 0 /\ At("outer", Inside(n, i, j)) = i
         /\ At("inner", Inside(n, i, j)) = j
BY DEF At, Inside

(* A term without counters has one value; its copy has the same. *)
LEMMA SteadyTerm ==
  ASSUME NEW t \in Terms, t.i = 0, t.j = 0, NEW n \in Int, NEW i \in Int, NEW j \in Int
  PROVE  /\ ValueOf(t, Inside(n, i, j)) = t.c + t.n * n
         /\ [c |-> t.c, n |-> t.n, i |-> t.i + t.j, j |-> 0] = t
         /\ t.c + t.n * n \in Int
BY DEF Terms, ValueOf, Inside

(* The term that is the outer counter. *)
LEMMA OuterValue ==
  ASSUME NEW n \in Int, NEW i \in Int, NEW j \in Int
  PROVE  /\ ValueOf(Outer, Inside(n, i, j)) = i
         /\ [c |-> Outer.c, n |-> Outer.n, i |-> Outer.i + Outer.j, j |-> 0] = Outer
BY DEF ValueOf, Inside, Outer

(***************************************************************************)
(* In an outer iteration, the operand of an addition to one element has    *)
(* one value, and its copy has that value.                                 *)
(***************************************************************************)
LEMMA OperandOfOne ==
  ASSUME NEW k, NEW lp \in Loops, NEW st, NEW ls, Replaces(k, lp, st, ls), PlacedStore(st),
         ~Along(st), NEW m \in Memories, NEW n \in 1..MaxN, NEW i \in 0..(n - 1), AllEven(m, k, n),
         NEW S \in SUBSET Int, AtInner(RecTerm(st)) => S \subseteq 0..(n - 1)
  PROVE  /\ Read(m, Iteration(n, i), cloneExpr(RecTerm(st))) \in Int
         /\ \A j \in S : Read(m, Inside(n, i, j), RecTerm(st)) =
                           Read(m, Iteration(n, i), cloneExpr(RecTerm(st)))
<1> DEFINE rec == RecTerm(st)
<1>1. Iteration(n, i) = Inside(n, i, 0) /\ n \in Int /\ i \in Int /\ i \in Cells /\ 0 \in Cells
  BY InsideIs, CellsAre
<1>2. rec \in Operands
  BY ReplacesMeans, RecTermType DEF Replaces
<1>3. \A b \in Arrays : \A x \in Cells : m[b][x] \in Int
  BY DEF Memories
<1>4. CASE rec.kind = "term" /\ rec.term \in Terms /\ rec.term.i = 0 /\ rec.term.j = 0
  BY <1>1, <1>2, <1>4, ReadTerm, SteadyTerm
<1>5. CASE rec = Term(Outer)
  <2>1. rec.kind = "term" /\ rec.term = Outer
    BY <1>5 DEF Term
  <2>2. /\ \A w, e : Read(w, e, rec) = ValueOf(Outer, e)
        /\ \A w, e : Read(w, e, cloneExpr(rec)) =
              ValueOf([c |-> Outer.c, n |-> Outer.n, i |-> Outer.i + Outer.j, j |-> 0], e)
    BY <1>2, <2>1, ReadTerm
  <2>3. \A j \in Int : ValueOf(Outer, Inside(n, i, j)) = i
    BY <1>1, OuterValue
  <2>4. [c |-> Outer.c, n |-> Outer.n, i |-> Outer.i + Outer.j, j |-> 0] = Outer
    BY <1>1, OuterValue
  <2>5. Read(m, Iteration(n, i), cloneExpr(rec)) = i
    <3>1. Read(m, Iteration(n, i), cloneExpr(rec)) = ValueOf(Outer, Iteration(n, i))
      BY <2>2, <2>4
    <3> QED
      BY <1>1, <2>3, <3>1
  <2>6. \A j \in Int : Read(m, Inside(n, i, j), rec) = i
    BY <2>2, <2>3
  <2> QED
    BY <1>1, <2>5, <2>6
<1>6. CASE rec.kind = "load" /\ rec.arr \in Arrays /\ rec.idx \in {"zero", "outer"}
  BY <1>1, <1>3, <1>6, ReadLoad, Indexing
<1>7. CASE rec.kind = "load" /\ rec.arr \in Arrays /\ Uniform(rec.arr, k) /\ rec.idx = "inner"
  <2>1. Even(m, rec.arr, n)
    BY <1>7 DEF AllEven
  <2>2. S \subseteq 0..(n - 1)
    BY <1>7 DEF AtInner
  <2>3. \A x \in 0..(n - 1) : m[rec.arr][x] = m[rec.arr][0]
    BY <2>1 DEF Even
  <2> QED
    BY <1>1, <1>3, <1>7, <2>2, <2>3, ReadLoad, Indexing
<1> QED
  BY <1>4, <1>5, <1>6, <1>7, OperandMeans

(***************************************************************************)
(* The operand of an addition along the array has a value for each element *)
(* and no other outer iteration changes it; its copy has that value too.   *)
(***************************************************************************)
OperandAlong(m, st, n) == [x \in Cells |-> Read(m, Inside(n, 0, x), RecTerm(st))]

(* The operand along an array has in the loop the value the closed form reads. *)
LEMMA OperandOfEach ==
  ASSUME NEW k, NEW lp \in Loops, NEW st, NEW ls, Replaces(k, lp, st, ls), PlacedStore(st),
         Along(st), NEW m \in Memories, NEW n \in 1..MaxN, AllEven(m, k, n)
  PROVE  /\ OperandAlong(m, st, n) \in Amounts
         /\ \A i, x \in 0..(n - 1) : /\ Read(m, Inside(n, i, x), RecTerm(st)) = OperandAlong(m, st, n)[x]
                                      /\ Read(m, Iteration(n, x), cloneExpr(RecTerm(st))) = OperandAlong(m, st, n)[x]
<1> DEFINE rec == RecTerm(st)
           v == OperandAlong(m, st, n)
<1>1. /\ \A x : Iteration(n, x) = Inside(n, x, 0)
      /\ n \in Int /\ 0 \in Cells /\ 0..(n - 1) \subseteq Cells /\ Cells \subseteq Int /\ 0 \in 0..(n - 1)
  BY InsideIs, CellsAre
<1>2. rec \in Operands
  BY ReplacesMeans, RecTermType DEF Replaces
<1>3. \A b \in Arrays : \A x \in Cells : m[b][x] \in Int
  BY DEF Memories
<1>4. \A x \in Cells : v[x] = Read(m, Inside(n, 0, x), rec)
  BY DEF OperandAlong
<1>5. SUFFICES /\ \A x \in Cells : Read(m, Inside(n, 0, x), rec) \in Int
               /\ \A i, x \in 0..(n - 1) :
                    /\ Read(m, Inside(n, i, x), rec) = Read(m, Inside(n, 0, x), rec)
                    /\ Read(m, Iteration(n, x), cloneExpr(rec)) = Read(m, Inside(n, 0, x), rec)
  BY <1>1, <1>4 DEF OperandAlong, Amounts
<1>6. CASE rec.kind = "term" /\ rec.term \in Terms /\ rec.term.i = 0 /\ rec.term.j = 0
  <2> DEFINE t == rec.term
  <2>1. /\ \A w, e : Read(w, e, rec) = ValueOf(t, e)
        /\ \A w, e : Read(w, e, cloneExpr(rec)) =
              ValueOf([c |-> t.c, n |-> t.n, i |-> t.i + t.j, j |-> 0], e)
    BY <1>2, <1>6, ReadTerm
  <2>2. \A i, j \in Int : ValueOf(t, Inside(n, i, j)) = t.c + t.n * n
    BY <1>1, <1>6, SteadyTerm
  <2>3. [c |-> t.c, n |-> t.n, i |-> t.i + t.j, j |-> 0] = t /\ t.c + t.n * n \in Int
    BY <1>1, <1>6, SteadyTerm
  <2>4. \A x \in 0..(n - 1) : x \in Int
    OBVIOUS
  <2>5. \A i, j \in Int : /\ Read(m, Inside(n, i, j), rec) = t.c + t.n * n
                          /\ Read(m, Inside(n, i, j), cloneExpr(rec)) = t.c + t.n * n
    BY <2>1, <2>2, <2>3
  <2> HIDE DEF t
  <2> QED
    BY <1>1, <2>3, <2>4, <2>5
<1>7. CASE rec.kind = "load" /\ rec.arr \in Arrays /\ rec.idx = "zero"
  BY <1>1, <1>3, <1>7, ReadLoad, Indexing
<1>8. CASE rec.kind = "load" /\ rec.arr \in Arrays /\ rec.idx = "inner"
  BY <1>1, <1>3, <1>8, ReadLoad, Indexing
<1>9. CASE rec.kind = "load" /\ rec.arr \in Arrays /\ Uniform(rec.arr, k) /\ rec.idx = "outer"
  <2>1. Even(m, rec.arr, n)
    BY <1>9 DEF AllEven
  <2>2. \A x \in 0..(n - 1) : m[rec.arr][x] = m[rec.arr][0]
    BY <2>1 DEF Even
  <2> QED
    BY <1>1, <1>3, <1>9, <2>2, ReadLoad, Indexing
<1> QED
  BY <1>6, <1>7, <1>8, <1>9, OperandMeans

-----------------------------------------------------------------------------
(***************************************************************************)
(* An inner loop and the closed form of it, in one outer iteration.        *)
(***************************************************************************)
StaysInside(lp, n) ==
  GoesAlong(lp) =>
    \A i \in 0..(n - 1) : \A c \in DOMAIN Counters(lp, Iteration(n, i)) :
      Counters(lp, Iteration(n, i))[c] \in 0..(n - 1)

Bounded(lp) == lp.init.j = 0 /\ lp.exit.j = 0

(* The recurring term is one of the two operands. *)
LEMMA OperandOfStore ==
  ASSUME NEW st, RecTerm(st) # None
  PROVE  RecTerm(st) = st.l \/ RecTerm(st) = st.r
BY DEF RecTerm

(* One counter after the other, as many as the loop has iterations. *)
LEMMA CountersInOrder ==
  ASSUME NEW lp \in Loops, Upwards(lp), NEW n \in Int, NEW i \in Int
  PROVE  LET e == Iteration(n, i)
             from == ValueOf(lp.init, e)
             to == ValueOf(ClonedExit(lp), e)
         IN  /\ from \in Int /\ to \in Int /\ Len(Counters(lp, e)) \in Nat
             /\ Counters(lp, e) = [k \in 1..Len(Counters(lp, e)) |-> from + (k - 1)]
             /\ from <= to => Len(Counters(lp, e)) = to - from
<1> DEFINE e == Iteration(n, i)
           from == ValueOf(lp.init, e)
           to == ValueOf(ClonedExit(lp), e)
           times == IF to > from THEN to - from ELSE 0
<1>1. lp.init \in Terms /\ ClonedExit(lp) \in Terms
  <2>1. lp.init \in Terms /\ lp.exit \in Terms /\ Num(StepCount(lp)) \in Terms
    BY LoopFields
  <2> QED
    BY <2>1, TermTypes DEF ClonedExit
<1>2. from \in Int /\ to \in Int
  BY <1>1, Values
<1>3. Counters(lp, e) = [k \in 1..times |-> from + (k - 1)]
  BY UpwardsRuns
<1> HIDE DEF e, from, to
<1>4. times \in Nat
  BY <1>2
<1>5. Len(Counters(lp, e)) = times
  BY <1>3, <1>4
<1>6. from <= to => times = to - from
  BY <1>2
<1> QED
  BY <1>2, <1>3, <1>4, <1>5, <1>6 DEF e, from, to

(* What the closed form is made of. *)
LEMMA ClosedFields ==
  ASSUME NEW st, NEW lp, NEW ls
  PROVE  LET cf == ClosedForm(st, lp, ls) IN
         /\ cf.kind = "closed" /\ cf.arr = st.arr /\ cf.op = st.op
         /\ cf.idx = IF st.arr \in Static THEN st.idx ELSE "outer"
         /\ cf.times = Multiple(st, lp) /\ cf.rec = cloneExpr(RecTerm(st))
         /\ cf.op2 = IF OuterTermKept(ls) THEN ls.op ELSE "none"
         /\ cf.plus = IF OuterTermKept(ls) THEN cloneExpr(RecTerm(ls)) ELSE Term(Num(0))
BY DEF ClosedForm

(* What a closed form does, when its multiple and its operand are known. *)
LEMMA ClosedDoes ==
  ASSUME NEW st, NEW lp, NEW ls, NEW m, NEW e, NEW x, NEW v,
         At(IF st.arr \in Static THEN st.idx ELSE "outer", e) = x,
         ValueOf(Multiple(st, lp), e) * Read(m, e, cloneExpr(RecTerm(st))) = v
  PROVE  /\ OuterTermKept(ls) =>
              AfterClosed(m, e, ClosedForm(st, lp, ls)) =
                Assigned(m, st.arr, x, Apply(ls.op, Apply(st.op, m[st.arr][x], v),
                                             Read(m, e, cloneExpr(RecTerm(ls)))))
         /\ ~OuterTermKept(ls) =>
              AfterClosed(m, e, ClosedForm(st, lp, ls)) =
                Assigned(m, st.arr, x, Apply(st.op, m[st.arr][x], v))
<1> DEFINE cf == ClosedForm(st, lp, ls)
<1>1. /\ cf.kind = "closed" /\ cf.arr = st.arr /\ cf.op = st.op
      /\ cf.idx = IF st.arr \in Static THEN st.idx ELSE "outer"
      /\ cf.times = Multiple(st, lp) /\ cf.rec = cloneExpr(RecTerm(st))
      /\ cf.op2 = IF OuterTermKept(ls) THEN ls.op ELSE "none"
      /\ cf.plus = IF OuterTermKept(ls) THEN cloneExpr(RecTerm(ls)) ELSE Term(Num(0))
  BY ClosedFields
<1> HIDE DEF cf
<1>2. AfterClosed(m, e, cf) =
        Assigned(m, st.arr, x, Apply(cf.op2, Apply(st.op, m[st.arr][x], v), Read(m, e, cf.plus)))
  BY <1>1 DEF AfterClosed
<1>3. \A w, u : Apply("none", w, u) = w
  BY DEF Apply
<1> QED
  BY <1>1, <1>2, <1>3 DEF cf

(***************************************************************************)
(* An addition to one element: the loop adds the multiple of the operand,  *)
(* and that is what the closed form computes with.                         *)
(***************************************************************************)
LEMMA LoopOfOne ==
  ASSUME NEW k, NEW lp \in Loops, NEW st, NEW ls, Replaces(k, lp, st, ls), PlacedStore(st),
         ~Along(st), Bounded(lp), NEW n \in 1..MaxN, StaysInside(lp, n), NEW i \in 0..(n - 1),
         NEW m \in Memories, AllEven(m, k, n)
  PROVE  LET e == Iteration(n, i)
             x == At(st.idx, e)
             v == ValueOf(Multiple(st, lp), e) * Read(m, e, cloneExpr(RecTerm(st)))
         IN  /\ x \in Cells /\ v \in Int
             /\ x = At(IF st.arr \in Static THEN st.idx ELSE "outer", e)
             /\ AfterLoop(m, e, lp) = Shifted(m, st.arr, OneAmount(x, Signed(st.op, v)))
<1> DEFINE e == Iteration(n, i)
           x == At(st.idx, e)
           one == Read(m, e, cloneExpr(RecTerm(st)))
           times == ValueOf(Multiple(st, lp), e)
           S == {Counters(lp, e)[c] : c \in DOMAIN Counters(lp, e)}
<1>1. /\ lp.body = <<st>> /\ st \in Stores /\ Recurring(st) /\ st.op \in {"add", "sub"} /\ Upwards(lp)
      /\ Runs(lp) /\ (st.arr \notin Static => st.idx = "outer")
  BY ReplacesMeans DEF Along
<1>2. n \in Int /\ i \in Int /\ n \in Nat /\ st.idx \in Indices
  BY <1>1, StoreFields
<1>3. st.idx \in {"zero", "outer"}
  <2>1. st.arr \in Static => st.idx = "zero"
    BY DEF PlacedStore
  <2> QED
    BY <1>1, <2>1
<1>4. x \in Cells
  BY <1>2, <1>3, InsideIs, Indexing, CellsAre
<1>5. times = Len(Counters(lp, e)) /\ times \in Nat
  <2>1. Multiple(st, lp) = IterationsOf(lp)
    BY <1>1 DEF Multiple
  <2>2. ValueOf(IterationsOf(lp), e) = Len(Counters(lp, e))
    BY <1>1, <1>2, IterationsAreCounted DEF Bounded
  <2> QED
    BY <1>1, <1>2, <2>1, <2>2, CountersInOrder
<1>6. DOMAIN Counters(lp, e) = 1..times /\ S \in SUBSET Int
  <2> DEFINE from == ValueOf(lp.init, e)
  <2>1. from \in Int /\ Counters(lp, e) = [c \in 1..times |-> from + (c - 1)]
    BY <1>1, <1>2, <1>5, CountersInOrder
  <2> HIDE DEF from, times, e
  <2>2. DOMAIN Counters(lp, e) = 1..times
    BY <2>1
  <2>3. \A c \in 1..times : Counters(lp, e)[c] \in Int
    BY <2>1
  <2> QED
    BY <2>2, <2>3
<1>7. AtInner(RecTerm(st)) => S \subseteq 0..(n - 1)
  <2> SUFFICES ASSUME AtInner(RecTerm(st)) PROVE S \subseteq 0..(n - 1)
    OBVIOUS
  <2>1. GoesAlong(lp)
    <3>1. 1 \in DOMAIN lp.body /\ lp.body[1] = st
      BY <1>1
    <3>2. RecTerm(st) = st.l \/ RecTerm(st) = st.r
      BY OperandOfStore DEF Replaces
    <3> QED
      BY <3>1, <3>2 DEF GoesAlong
  <2> QED
    BY <2>1 DEF StaysInside
<1>8. one \in Int /\ \A j \in S : Read(m, Inside(n, i, j), RecTerm(st)) = one
  <2> HIDE DEF S
  <2> QED
    BY <1>6, <1>7, OperandOfOne
<1>9. \A c \in 1..times : Read(m, Inside(n, i, Counters(lp, e)[c]), RecTerm(st)) = one
  BY <1>6, <1>8
<1>10. AfterLoop(m, e, lp) = Shifted(m, st.arr, OneAmount(x, Signed(st.op, times * one)))
  <2>1. st.idx # "inner"
    BY <1>3
  <2>2. DOMAIN Counters(lp, Iteration(n, i)) = 1..times /\ times \in Nat /\ one \in Int
    BY <1>5, <1>6, <1>8
  <2>3. \A c \in 1..times : Read(m, Inside(n, i, Counters(lp, Iteration(n, i))[c]), RecTerm(st)) = one
    BY <1>9
  <2>4. At(st.idx, Iteration(n, i)) \in Cells
    BY <1>4
  <2> HIDE DEF one, times, S, x, e
  <2>5. AfterLoop(m, Iteration(n, i), lp) =
           Shifted(m, st.arr, OneAmount(At(st.idx, Iteration(n, i)), Signed(st.op, times * one)))
    BY <1>1, <1>2, <2>1, <2>2, <2>3, <2>4, LoopAtOneElement
  <2> QED
    BY <2>5 DEF x, e
<1>11. times * one \in Int
  <2> HIDE DEF one, times
  <2> QED
    BY <1>5, <1>8
<1>12. x = At(IF st.arr \in Static THEN st.idx ELSE "outer", e)
  BY <1>1
<1> QED
  BY <1>4, <1>10, <1>11, <1>12

(* The closed form that replaces an inner loop alone. *)
Alone(st, lp) == ClosedForm(st, lp, None)

(* The closed form of an inner loop alone adds at one element. *)
LEMMA AloneDoes ==
  ASSUME NEW st \in Stores, NEW lp, st.op \in {"add", "sub"}, NEW m \in Memories, NEW e,
         NEW x \in Cells, NEW v \in Int,
         At(IF st.arr \in Static THEN st.idx ELSE "outer", e) = x,
         ValueOf(Multiple(st, lp), e) * Read(m, e, cloneExpr(RecTerm(st))) = v
  PROVE  AfterClosed(m, e, Alone(st, lp)) = Shifted(m, st.arr, OneAmount(x, Signed(st.op, v)))
<1>1. ~OuterTermKept(None)
  BY DEF OuterTermKept
<1>2. AfterClosed(m, e, Alone(st, lp)) = Assigned(m, st.arr, x, Apply(st.op, m[st.arr][x], v))
  BY <1>1, ClosedDoes DEF Alone
<1>3. st.arr \in Arrays /\ m[st.arr][x] \in Int
  BY StoreFields DEF Memories
<1>4. Apply(st.op, m[st.arr][x], v) = m[st.arr][x] + Signed(st.op, v) /\ Signed(st.op, v) \in Int
  BY <1>3, Adding
<1> QED
  BY <1>2, <1>3, <1>4, AssignedIsShifted

(* An addition to one element: the closed form does what the loop does. *)
LEMMA AloneIsLoop ==
  ASSUME NEW k, NEW lp \in Loops, NEW st, NEW ls, Replaces(k, lp, st, ls), PlacedStore(st),
         ~Along(st), Bounded(lp), NEW n \in 1..MaxN, StaysInside(lp, n), NEW i \in 0..(n - 1),
         NEW m \in Memories, AllEven(m, k, n)
  PROVE  AfterClosed(m, Iteration(n, i), Alone(st, lp)) = AfterLoop(m, Iteration(n, i), lp)
<1> DEFINE e == Iteration(n, i)
           x == At(st.idx, e)
           v == ValueOf(Multiple(st, lp), e) * Read(m, e, cloneExpr(RecTerm(st)))
<1>1. /\ x \in Cells /\ v \in Int
      /\ x = At(IF st.arr \in Static THEN st.idx ELSE "outer", e)
      /\ AfterLoop(m, e, lp) = Shifted(m, st.arr, OneAmount(x, Signed(st.op, v)))
  BY LoopOfOne
<1>2. st \in Stores /\ st.op \in {"add", "sub"}
  BY ReplacesMeans
<1>3. AfterClosed(m, e, Alone(st, lp)) = Shifted(m, st.arr, OneAmount(x, Signed(st.op, v)))
  <2> HIDE DEF x, e
  <2> QED
    BY <1>1, <1>2, AloneDoes
<1> QED
  BY <1>1, <1>3

(* What an inner loop along the array adds in one outer iteration. *)
InIteration(lp, op, n, i, v) ==
  [x \in Cells |-> IF x \in 0..(n - 1) /\ i \in ReachedFrom(lp, n, x) THEN Signed(op, v[x]) ELSE 0]

(* What its closed form adds in that iteration, all to one element. *)
AtOnce(lp, op, n, i, v) == OneAmount(i, Signed(op, Cardinality(ReachedFrom(lp, n, i)) * v[i]))

(* What the loop adds in one outer iteration is an amount. *)
LEMMA InIterationType ==
  ASSUME NEW lp, NEW op, NEW n, NEW i, NEW v \in Amounts PROVE InIteration(lp, op, n, i, v) \in Amounts
<1>1. \A x \in Cells : v[x] \in Int /\ Signed(op, v[x]) \in Int
  BY SignedType DEF Amounts
<1> QED
  BY <1>1 DEF InIteration, Amounts

(* The shapes the pass knows: where their loops run. *)
LEMMA ReachedRuns ==
  ASSUME NEW lp \in Loops, Reached(lp), NEW n \in Nat, NEW i \in 0..(n - 1)
  PROVE  LET from == ValueOf(lp.init, Iteration(n, i))
             to == ValueOf(ClonedExit(lp), Iteration(n, i))
         IN  from \in 0..to /\ to \in 0..n
<1>1. n \in Int /\ i \in Int /\ 0 <= i /\ i < n
  OBVIOUS
<1>2. /\ ValueOf(Num(0), Iteration(n, i)) = 0 /\ ValueOf(Num(1), Iteration(n, i)) = 1
      /\ ValueOf(SizeN, Iteration(n, i)) = n /\ ValueOf(Outer, Iteration(n, i)) = i
  BY <1>1, KnownValues
<1>3. Num(1) \in Terms /\ Outer \in Terms
  BY NumType, ConstantTerms
<1>4. ValueOf(Add(Outer, Num(1)), Iteration(n, i)) = i + 1
  BY <1>1, <1>2, <1>3, Values
<1>5. EndsAtN(lp) => ClonedExit(lp) = SizeN
  BY DEF EndsAtN, ClonedExit
<1>6. lp.init \in {Num(0), Outer} /\ ClonedExit(lp) \in {SizeN, Add(Outer, Num(1))}
  BY <1>5 DEF Reached
<1> QED
  BY <1>1, <1>2, <1>4, <1>6

(* The loop along an array adds the operand at the elements it reaches. *)
LEMMA LoopOfEach ==
  ASSUME NEW k, NEW lp \in Loops, NEW st, NEW ls, Replaces(k, lp, st, ls), PlacedStore(st),
         Along(st), NEW n \in 1..MaxN, NEW i \in 0..(n - 1), NEW m \in Memories, AllEven(m, k, n)
  PROVE  AfterLoop(m, Iteration(n, i), lp) =
           Shifted(m, st.arr, InIteration(lp, st.op, n, i, OperandAlong(m, st, n)))
<1> DEFINE e == Iteration(n, i)
           from == ValueOf(lp.init, e)
           to == ValueOf(ClonedExit(lp), e)
           v == OperandAlong(m, st, n)
<1>1. /\ lp.body = <<st>> /\ st \in Stores /\ Recurring(st) /\ st.op \in {"add", "sub"} /\ Upwards(lp)
      /\ Reached(lp) /\ st.idx = "inner"
  BY ReplacesMeans DEF Along
<1>2. n \in Int /\ i \in Int /\ n \in Nat /\ 0..(n - 1) \subseteq Cells
  BY CellsAre
<1>3. from \in 0..to /\ to \in 0..n
  BY <1>1, <1>2, ReachedRuns
<1>4. Counters(lp, e) = [c \in 1..(to - from) |-> from + (c - 1)]
  <2>1. /\ Counters(lp, e) = [c \in 1..Len(Counters(lp, e)) |-> from + (c - 1)]
        /\ from <= to => Len(Counters(lp, e)) = to - from
    BY <1>1, <1>2, CountersInOrder
  <2> HIDE DEF e, from, to
  <2> QED
    BY <1>3, <2>1
<1>5. v \in Amounts /\ \A y, x \in 0..(n - 1) : Read(m, Inside(n, y, x), RecTerm(st)) = v[x]
  BY OperandOfEach
<1>6. AfterLoop(m, e, lp) = Shifted(m, st.arr, Between(st.op, from, from + (to - from), v))
  <2> DEFINE times == to - from
  <2> HIDE DEF from, to, v
  <2>1. times \in Nat /\ from \in Int /\ from..(from + times - 1) \subseteq 0..(n - 1)
    BY <1>2, <1>3
  <2>3. Reading(m, n, i, st, from, times, v)
    BY <1>2, <1>5, <2>1 DEF Reading
  <2>4. Counting(lp, Iteration(n, i), from, times)
    BY <1>4 DEF Counting
  <2> HIDE DEF times
  <2>5. AfterLoop(m, Iteration(n, i), lp) = Shifted(m, st.arr, Between(st.op, from, from + times, v))
    BY <1>1, <1>2, <1>5, <2>1, <2>3, <2>4, LoopAlongArray
  <2> QED
    BY <2>5 DEF times
<1>7. Between(st.op, from, from + (to - from), v) = InIteration(lp, st.op, n, i, v)
  <2> SUFFICES ASSUME NEW x \in Cells
               PROVE  (from <= x /\ x < from + (to - from)) <=> (x \in 0..(n - 1) /\ i \in ReachedFrom(lp, n, x))
    BY DEF Between, InIteration
  <2>1. \A y \in 0..(n - 1) : i \in ReachedFrom(lp, n, y) <=> from <= y /\ y < to
    BY <1>1, <1>2, ReachedBetween
  <2>2. x \in Int
    BY CellsAre
  <2> HIDE DEF from, to
  <2> QED
    BY <1>2, <1>3, <2>1, <2>2
<1> QED
  BY <1>6, <1>7

(* An element is reached a number of times. *)
LEMMA ReachesType ==
  ASSUME NEW lp, NEW n \in Nat, NEW x PROVE Cardinality(ReachedFrom(lp, n, x)) \in Nat
<1>1. IsFiniteSet(0..(n - 1)) /\ ReachedFrom(lp, n, x) \subseteq 0..(n - 1)
  BY FS_Interval DEF ReachedFrom
<1> QED
  BY <1>1, FS_Subset, FS_CardinalityType

(* Its closed form adds all that an element gets at once. *)
LEMMA AloneOfEach ==
  ASSUME NEW k, NEW lp \in Loops, NEW st, NEW ls, Replaces(k, lp, st, ls), PlacedStore(st),
         Along(st), NEW n \in 1..MaxN, NEW i \in 0..(n - 1), NEW m \in Memories, AllEven(m, k, n)
  PROVE  /\ AtOnce(lp, st.op, n, i, OperandAlong(m, st, n)) \in Amounts
         /\ AfterClosed(m, Iteration(n, i), Alone(st, lp)) =
              Shifted(m, st.arr, AtOnce(lp, st.op, n, i, OperandAlong(m, st, n)))
<1> DEFINE e == Iteration(n, i)
           v == OperandAlong(m, st, n)
           w == Cardinality(ReachedFrom(lp, n, i)) * v[i]
<1>1. st \in Stores /\ st.op \in {"add", "sub"} /\ Reached(lp) /\ st.arr \notin Static /\ st.idx = "inner"
  BY ReplacesMeans DEF Along
<1>2. n \in Nat /\ i \in Cells
  BY CellsAre
<1>3. v \in Amounts /\ Read(m, e, cloneExpr(RecTerm(st))) = v[i]
  <2>1. /\ v \in Amounts
        /\ \A y, x \in 0..(n - 1) : /\ Read(m, Inside(n, y, x), RecTerm(st)) = v[x]
                                    /\ Read(m, Iteration(n, x), cloneExpr(RecTerm(st))) = v[x]
    BY OperandOfEach
  <2> HIDE DEF v
  <2> QED
    BY <2>1
<1>4. ValueOf(Multiple(st, lp), e) = Cardinality(ReachedFrom(lp, n, i))
  BY <1>1, <1>2, ReachesAreCounted DEF Multiple
<1>5. w \in Int
  <2>1. v[i] \in Int
    BY <1>2, <1>3 DEF Amounts
  <2>2. Cardinality(ReachedFrom(lp, n, i)) \in Nat
    BY <1>2, ReachesType
  <2> QED
    BY <2>1, <2>2
<1>6. At(IF st.arr \in Static THEN st.idx ELSE "outer", e) = i
  BY <1>1, InsideIs, Indexing
<1>7. ValueOf(Multiple(st, lp), e) * Read(m, e, cloneExpr(RecTerm(st))) = w
  BY <1>3, <1>4
<1>8. AfterClosed(m, e, Alone(st, lp)) = Shifted(m, st.arr, OneAmount(i, Signed(st.op, w)))
  <2> HIDE DEF w, e
  <2> QED
    BY <1>1, <1>2, <1>5, <1>6, <1>7, AloneDoes
<1>9. OneAmount(i, Signed(st.op, w)) \in Amounts
  BY <1>2, <1>5, SignedType, OneAmountType
<1> QED
  BY <1>8, <1>9 DEF AtOnce

-----------------------------------------------------------------------------
(***************************************************************************)
(* Two nests in step.  G is a set of memories that additions to the arrays *)
(* of T do not leave.                                                      *)
(***************************************************************************)
Keeps(G, T) ==
  /\ G \subseteq Memories /\ T \subseteq Arrays
  /\ \A m \in G : \A b \in T : \A d \in Amounts : Shifted(m, b, d) \in G

(* The same addition to b, whatever a holds. *)
AddsTo(G, e, item, m, a, b, d) ==
  \A w \in G : (\A c \in Arrays \ {a} : w[c] = m[c]) => AfterItem(w, e, item) = Shifted(w, b, d)

Indifferent(G, T, n, item, a) ==
  \A i \in 0..(n - 1) : \A m \in G : \E b \in T : \E d \in Amounts :
    AddsTo(G, Iteration(n, i), item, m, a, b, d)

AddsThere(G, n, item, a, D) ==
  \A i \in 0..(n - 1) : D[i] \in Amounts /\ \A m \in G : AfterItem(m, Iteration(n, i), item) = Shifted(m, a, D[i])

(* A gap in an array an item is indifferent to stays through the item. *)
LEMMA IndifferentStep ==
  ASSUME NEW G, NEW T, Keeps(G, T), NEW a \in T, NEW n \in Nat, NEW i \in 0..(n - 1), NEW item,
         Indifferent(G, T, n, item, a), NEW m \in G, NEW X \in Amounts
  PROVE  LET e == Iteration(n, i) IN
         /\ AfterItem(m, e, item) \in G
         /\ AfterItem(Shifted(m, a, X), e, item) = Shifted(AfterItem(m, e, item), a, X)
<1> DEFINE e == Iteration(n, i)
           w == Shifted(m, a, X)
<1>1. PICK b \in T, d \in Amounts : AddsTo(G, e, item, m, a, b, d)
  BY DEF Indifferent
<1>2. m \in Memories /\ a \in Arrays /\ b \in Arrays /\ w \in G
  BY DEF Keeps
<1>3. \A c \in Arrays \ {a} : w[c] = m[c]
  BY <1>2, ShiftedIs
<1>4. AfterItem(m, e, item) = Shifted(m, b, d) /\ Shifted(m, b, d) \in G
  BY <1>1 DEF AddsTo, Keeps
<1>5. AfterItem(w, e, item) = Shifted(w, b, d)
  <2> HIDE DEF w, e
  <2> QED
    BY <1>1, <1>2, <1>3 DEF AddsTo
<1>6. Shifted(w, b, d) = Shifted(Shifted(m, b, d), a, X)
  BY <1>2, ShiftsCommute
<1> QED
  BY <1>4, <1>5, <1>6

(* The gap X before additions of D and of F is the gap Y after them. *)
Closes(X, Y, D, F) == \A x \in Cells : Y[x] + D[x] = X[x] + F[x]

(* Two additions to an array change the gap by their difference. *)
LEMMA DifferentStep ==
  ASSUME NEW G, NEW T, Keeps(G, T), NEW a \in T, NEW m \in G, NEW X \in Amounts, NEW Y \in Amounts,
         NEW D \in Amounts, NEW F \in Amounts, Closes(X, Y, D, F)
  PROVE  Shifted(Shifted(m, a, X), a, F) = Shifted(Shifted(m, a, D), a, Y)
<1> DEFINE H == [x \in Cells |-> X[x] + F[x]]
<1>1. m \in Memories /\ a \in Arrays
  BY DEF Keeps
<1>2. \A x \in Cells : X[x] \in Int /\ F[x] \in Int /\ Y[x] \in Int /\ D[x] \in Int
  BY DEF Amounts
<1>3. H \in Amounts
  BY <1>2 DEF Amounts
<1>4. /\ \A x \in Cells : H[x] = X[x] + F[x]
      /\ \A x \in Cells : H[x] = D[x] + Y[x]
  BY <1>2 DEF Closes
<1> HIDE DEF H
<1>5. Shifted(Shifted(m, a, X), a, F) = Shifted(m, a, H)
  BY <1>1, <1>3, <1>4, ShiftedTwice
<1>6. Shifted(Shifted(m, a, D), a, Y) = Shifted(m, a, H)
  BY <1>1, <1>3, <1>4, ShiftedTwice
<1> QED
  BY <1>5, <1>6

(* Two bodies that differ in one item. *)
OneApart(G, T, n, B, C, L, q, a, D, F) ==
  /\ DOMAIN B = 1..L /\ DOMAIN C = 1..L
  /\ \A p \in (1..L) \ {q} : B[p] = C[p] /\ Indifferent(G, T, n, B[p], a)
  /\ AddsThere(G, n, B[q], a, D) /\ AddsThere(G, n, C[q], a, F)

(* Bodies that differ in one item carry the gap X to the gap Y. *)
LEMMA BodiesInStep ==
  ASSUME NEW G, NEW T, Keeps(G, T), NEW a \in T, NEW n \in Nat, NEW i \in 0..(n - 1), NEW B, NEW C,
         NEW L \in Nat, NEW q \in 1..L, NEW D, NEW F, OneApart(G, T, n, B, C, L, q, a, D, F),
         NEW m \in G, NEW X \in Amounts, NEW Y \in Amounts,
         Closes(X, Y, D[i], F[i])
  PROVE  /\ AfterBody(m, Iteration(n, i), B) \in G
         /\ AfterBody(Shifted(m, a, X), Iteration(n, i), C) = Shifted(AfterBody(m, Iteration(n, i), B), a, Y)
<1> DEFINE e == Iteration(n, i)
           w == Shifted(m, a, X)
           Gap(p) == IF p < q THEN X ELSE Y
<1>1. /\ DOMAIN B = 1..L /\ DOMAIN C = 1..L
      /\ \A p \in (1..L) \ {q} : B[p] = C[p] /\ Indifferent(G, T, n, B[p], a)
      /\ D[i] \in Amounts /\ F[i] \in Amounts
      /\ \A v \in G : AfterItem(v, e, B[q]) = Shifted(v, a, D[i])
      /\ \A v \in G : AfterItem(v, e, C[q]) = Shifted(v, a, F[i])
  BY DEF OneApart, AddsThere
<1>2. PICK rb : BodySteps(rb, m, e, B, L)
  BY <1>1, BodyTrace
<1>3. PICK rc : BodySteps(rc, w, e, C, L)
  BY <1>1, BodyTrace
<1>4. /\ rb[0] = m /\ AfterBody(m, e, B) = rb[L]
      /\ \A p \in 1..L : rb[p] = AfterItem(rb[p - 1], e, B[p])
  BY <1>2 DEF BodySteps
<1>5. /\ rc[0] = w /\ AfterBody(w, e, C) = rc[L]
      /\ \A p \in 1..L : rc[p] = AfterItem(rc[p - 1], e, C[p])
  BY <1>3 DEF BodySteps
<1> DEFINE S == {p \in 0..L : rb[p] \in G /\ rc[p] = Shifted(rb[p], a, Gap(p))}
<1>6. 0 \in S
  BY <1>4, <1>5
<1>7. ASSUME NEW p \in 0..(L - 1), p \in S PROVE p + 1 \in S
  <2>0. p + 1 \in 1..L /\ p + 1 - 1 = p /\ p \in Int /\ q \in Int
    OBVIOUS
  <2>1. rb[p] \in G /\ rc[p] = Shifted(rb[p], a, Gap(p))
    BY <1>7
  <2>2. rb[p + 1] = AfterItem(rb[p], e, B[p + 1]) /\ rc[p + 1] = AfterItem(rc[p], e, C[p + 1])
    BY <1>4, <1>5, <2>0
  <2>3. CASE p + 1 # q
    <3>1. Gap(p + 1) = Gap(p) /\ Gap(p) \in Amounts
      BY <2>0, <2>3
    <3>2. C[p + 1] = B[p + 1] /\ Indifferent(G, T, n, B[p + 1], a)
      BY <1>1, <2>0, <2>3
    <3> HIDE DEF Gap
    <3>3. /\ AfterItem(rb[p], e, B[p + 1]) \in G
          /\ AfterItem(Shifted(rb[p], a, Gap(p)), e, B[p + 1]) = Shifted(AfterItem(rb[p], e, B[p + 1]), a, Gap(p))
      BY <2>1, <3>1, <3>2, IndifferentStep
    <3> QED
      BY <2>0, <2>1, <2>2, <3>1, <3>2, <3>3
  <2>4. CASE p + 1 = q
    <3>1. Gap(p) = X /\ Gap(p + 1) = Y
      BY <2>0, <2>4
    <3>2. Shifted(rb[p], a, X) \in G /\ Shifted(rb[p], a, D[i]) \in G
      BY <1>1, <2>1 DEF Keeps
    <3>3. rb[p + 1] = Shifted(rb[p], a, D[i]) /\ rc[p + 1] = Shifted(Shifted(rb[p], a, X), a, F[i])
      BY <1>1, <2>1, <2>2, <2>4, <3>1, <3>2
    <3>4. Shifted(Shifted(rb[p], a, X), a, F[i]) = Shifted(Shifted(rb[p], a, D[i]), a, Y)
      BY <1>1, <2>1, DifferentStep
    <3> QED
      BY <2>0, <3>1, <3>2, <3>3, <3>4
  <2> QED
    BY <2>3, <2>4
<1>8. L \in S
  <2> HIDE DEF S
  <2>1. 0..L \subseteq S
    BY <1>6, <1>7, SetInduction
  <2> QED
    BY <2>1
<1>9. Gap(L) = Y
  OBVIOUS
<1> QED
  BY <1>4, <1>5, <1>8, <1>9

(* The iterations of the two nests differ by Off, which comes to nothing. *)
Offsets(Off, n, D, F) ==
  /\ \A t \in 0..n : Off[t] \in Amounts
  /\ \A x \in Cells : Off[0][x] = 0 /\ Off[n][x] = 0
  /\ \A i \in 0..(n - 1) : Closes(Off[i], Off[i + 1], D[i], F[i])

(* When the gap closes after the last iteration the nests compute the same. *)
LEMMA NestsInStep ==
  ASSUME NEW G, NEW T, Keeps(G, T), NEW a \in T, NEW n \in Nat, NEW B, NEW C,
         NEW L \in Nat, NEW q \in 1..L, NEW D, NEW F, OneApart(G, T, n, B, C, L, q, a, D, F),
         NEW m \in G, NEW Off, Offsets(Off, n, D, F)
  PROVE  AfterNest(m, n, B) \in G /\ AfterNest(m, n, C) = AfterNest(m, n, B)
<1>1. PICK rb : NestSteps(rb, m, n, B)
  BY NestTrace
<1>2. PICK rc : NestSteps(rc, m, n, C)
  BY NestTrace
<1>3. /\ rb[0] = m /\ AfterNest(m, n, B) = rb[n]
      /\ \A t \in 1..n : rb[t] = AfterBody(rb[t - 1], Iteration(n, t - 1), B)
  BY <1>1 DEF NestSteps
<1>4. /\ rc[0] = m /\ AfterNest(m, n, C) = rc[n]
      /\ \A t \in 1..n : rc[t] = AfterBody(rc[t - 1], Iteration(n, t - 1), C)
  BY <1>2 DEF NestSteps
<1>5. a \in Arrays /\ G \subseteq Memories
  BY DEF Keeps
<1>0. /\ \A t \in 0..n : Off[t] \in Amounts
      /\ \A x \in Cells : Off[0][x] = 0 /\ Off[n][x] = 0
      /\ \A i \in 0..(n - 1) : Closes(Off[i], Off[i + 1], D[i], F[i])
  BY DEF Offsets
<1> DEFINE S == {t \in 0..n : rb[t] \in G /\ rc[t] = Shifted(rb[t], a, Off[t])}
<1>6. 0 \in S
  <2>1. Off[0] \in Amounts /\ 0 \in 0..n
    BY <1>0
  <2>2. Shifted(m, a, Off[0]) = m
    BY <1>0, <1>5, <2>1, ShiftedByNothing
  <2> QED
    BY <1>3, <1>4, <2>1, <2>2
<1>7. ASSUME NEW t \in 0..(n - 1), t \in S PROVE t + 1 \in S
  <2>0. t + 1 \in 1..n /\ t + 1 - 1 = t /\ t \in 0..n /\ t + 1 \in 0..n
    OBVIOUS
  <2>1. rb[t] \in G /\ rc[t] = Shifted(rb[t], a, Off[t])
    BY <1>7
  <2>2. /\ rb[t + 1] = AfterBody(rb[t], Iteration(n, t), B)
        /\ rc[t + 1] = AfterBody(rc[t], Iteration(n, t), C)
    BY <1>3, <1>4, <2>0
  <2>3. Off[t] \in Amounts /\ Off[t + 1] \in Amounts
    BY <1>0, <2>0
  <2>4. Closes(Off[t], Off[t + 1], D[t], F[t])
    BY <1>0
  <2>5. /\ AfterBody(rb[t], Iteration(n, t), B) \in G
        /\ AfterBody(Shifted(rb[t], a, Off[t]), Iteration(n, t), C) =
             Shifted(AfterBody(rb[t], Iteration(n, t), B), a, Off[t + 1])
    BY <2>1, <2>3, <2>4, BodiesInStep
  <2> QED
    BY <2>0, <2>1, <2>2, <2>5
<1>8. n \in S
  <2> HIDE DEF S
  <2>1. 0..n \subseteq S
    BY <1>6, <1>7, SetInduction
  <2> QED
    BY <2>1
<1>9. rb[n] \in Memories /\ Shifted(rb[n], a, Off[n]) = rb[n]
  <2>1. Off[n] \in Amounts /\ rb[n] \in Memories
    BY <1>0, <1>5, <1>8
  <2> QED
    BY <1>0, <1>5, <2>1, ShiftedByNothing
<1> QED
  BY <1>3, <1>4, <1>8, <1>9

(* Item for item the same, in the memories of G. *)
Alike(G, n, B, C) ==
  \A i \in 0..(n - 1) : \A m \in G :
    /\ AfterBody(m, Iteration(n, i), B) \in G
    /\ AfterBody(m, Iteration(n, i), C) = AfterBody(m, Iteration(n, i), B)

(* Nests whose bodies do the same in every iteration compute the same. *)
LEMMA AlikeNests ==
  ASSUME NEW G, NEW n \in Nat, NEW B, NEW C, Alike(G, n, B, C), NEW m \in G
  PROVE  AfterNest(m, n, B) \in G /\ AfterNest(m, n, C) = AfterNest(m, n, B)
<1>1. PICK rb : NestSteps(rb, m, n, B)
  BY NestTrace
<1>2. PICK rc : NestSteps(rc, m, n, C)
  BY NestTrace
<1>3. /\ rb[0] = m /\ AfterNest(m, n, B) = rb[n]
      /\ \A t \in 1..n : rb[t] = AfterBody(rb[t - 1], Iteration(n, t - 1), B)
  BY <1>1 DEF NestSteps
<1>4. /\ rc[0] = m /\ AfterNest(m, n, C) = rc[n]
      /\ \A t \in 1..n : rc[t] = AfterBody(rc[t - 1], Iteration(n, t - 1), C)
  BY <1>2 DEF NestSteps
<1> DEFINE S == {t \in 0..n : rb[t] \in G /\ rc[t] = rb[t]}
<1>5. 0 \in S
  BY <1>3, <1>4
<1>6. ASSUME NEW t \in 0..(n - 1), t \in S PROVE t + 1 \in S
  <2>0. t + 1 \in 1..n /\ t + 1 - 1 = t /\ t + 1 \in 0..n
    OBVIOUS
  <2>1. rb[t] \in G /\ rc[t] = rb[t]
    BY <1>6
  <2>2. /\ rb[t + 1] = AfterBody(rb[t], Iteration(n, t), B)
        /\ rc[t + 1] = AfterBody(rb[t], Iteration(n, t), C)
    BY <1>3, <1>4, <2>0, <2>1
  <2> QED
    BY <2>0, <2>1, <2>2 DEF Alike
<1>7. n \in S
  <2> HIDE DEF S
  <2>1. 0..n \subseteq S
    BY <1>5, <1>6, SetInduction
  <2> QED
    BY <2>1
<1> QED
  BY <1>3, <1>4, <1>7

(* One item is replaced by another that does the same. *)
SameThere(G, n, L, q, B, C) ==
  /\ DOMAIN B = 1..L /\ DOMAIN C = 1..L /\ \A p \in (1..L) \ {q} : B[p] = C[p]
  /\ \A i \in 0..(n - 1) : \A m \in G :
       /\ \A p \in 1..L : AfterItem(m, Iteration(n, i), B[p]) \in G
       /\ AfterItem(m, Iteration(n, i), C[q]) = AfterItem(m, Iteration(n, i), B[q])

(* Bodies that differ in one item that does the same do the same. *)
LEMMA SameBodies ==
  ASSUME NEW G, NEW n \in Nat, NEW L \in Nat, NEW q, NEW B, NEW C, SameThere(G, n, L, q, B, C)
  PROVE  Alike(G, n, B, C)
<1> SUFFICES ASSUME NEW i \in 0..(n - 1), NEW m \in G
             PROVE  /\ AfterBody(m, Iteration(n, i), B) \in G
                    /\ AfterBody(m, Iteration(n, i), C) = AfterBody(m, Iteration(n, i), B)
  BY DEF Alike
<1> DEFINE e == Iteration(n, i)
<1>0. DOMAIN B = 1..L /\ DOMAIN C = 1..L
  BY DEF SameThere
<1>1. \A v \in G : \A p \in 1..L : AfterItem(v, e, B[p]) \in G /\ AfterItem(v, e, C[p]) = AfterItem(v, e, B[p])
  <2> SUFFICES ASSUME NEW v \in G, NEW p \in 1..L
               PROVE  AfterItem(v, e, B[p]) \in G /\ AfterItem(v, e, C[p]) = AfterItem(v, e, B[p])
    OBVIOUS
  <2>1. CASE p = q
    BY <2>1 DEF SameThere
  <2>2. CASE p # q
    BY <2>2 DEF SameThere
  <2> QED
    BY <2>1, <2>2
<1>2. PICK rb : BodySteps(rb, m, e, B, L)
  BY <1>0, BodyTrace
<1>3. PICK rc : BodySteps(rc, m, e, C, L)
  BY <1>0, BodyTrace
<1>4. /\ rb[0] = m /\ AfterBody(m, e, B) = rb[L]
      /\ \A p \in 1..L : rb[p] = AfterItem(rb[p - 1], e, B[p])
  BY <1>2 DEF BodySteps
<1>5. /\ rc[0] = m /\ AfterBody(m, e, C) = rc[L]
      /\ \A p \in 1..L : rc[p] = AfterItem(rc[p - 1], e, C[p])
  BY <1>3 DEF BodySteps
<1> DEFINE S == {p \in 0..L : rb[p] \in G /\ rc[p] = rb[p]}
<1>6. 0 \in S
  BY <1>4, <1>5
<1>7. ASSUME NEW p \in 0..(L - 1), p \in S PROVE p + 1 \in S
  <2>0. p + 1 \in 1..L /\ p + 1 - 1 = p /\ p + 1 \in 0..L
    OBVIOUS
  <2>1. rb[p] \in G /\ rc[p] = rb[p]
    BY <1>7
  <2>2. /\ rb[p + 1] = AfterItem(rb[p], e, B[p + 1])
        /\ rc[p + 1] = AfterItem(rb[p], e, C[p + 1])
    BY <1>4, <1>5, <2>0, <2>1
  <2> QED
    BY <1>1, <2>0, <2>1, <2>2
<1>8. L \in S
  <2> HIDE DEF S
  <2>1. 0..L \subseteq S
    BY <1>6, <1>7, SetInduction
  <2> QED
    BY <2>1
<1> QED
  BY <1>4, <1>5, <1>8

-----------------------------------------------------------------------------
(***************************************************************************)
(* The loop along an array adds to an element now and then, its closed     *)
(* form all at once: how far the two are apart after t iterations.         *)
(***************************************************************************)
SoFar(lp, n, t, x) == Cardinality(ReachedFrom(lp, n, x) \cap 0..(t - 1))

Ahead(lp, n, t, x) == (IF x < t THEN Cardinality(ReachedFrom(lp, n, x)) ELSE 0) - SoFar(lp, n, t, x)

Apart(lp, op, n, t, v) ==
  [x \in Cells |-> IF x \in 0..(n - 1) THEN Ahead(lp, n, t, x) * Signed(op, v[x]) ELSE 0]

(* How often an element was reached, iteration by iteration. *)
LEMMA SoFarIs ==
  ASSUME NEW lp, NEW n \in Nat, NEW x
  PROVE  /\ SoFar(lp, n, 0, x) = 0 /\ SoFar(lp, n, n, x) = Cardinality(ReachedFrom(lp, n, x))
         /\ \A t \in Nat : SoFar(lp, n, t, x) \in Nat
         /\ \A t \in Nat : SoFar(lp, n, t + 1, x) = SoFar(lp, n, t, x) + IF t \in ReachedFrom(lp, n, x) THEN 1 ELSE 0
<1> DEFINE R == ReachedFrom(lp, n, x)
<1>1. R \subseteq 0..(n - 1)
  BY DEF ReachedFrom
<1> HIDE DEF R
<1>2. R \cap 0..(0 - 1) = {} /\ R \cap 0..(n - 1) = R
  <2>1. 0..(0 - 1) = {}
    OBVIOUS
  <2>2. R \cap 0..(n - 1) = R
    BY <1>1
  <2> QED
    BY <2>1, <2>2
<1>3. ASSUME NEW t \in Nat PROVE IsFiniteSet(R \cap 0..(t - 1))
  <2>1. IsFiniteSet(0..(t - 1))
    BY FS_Interval
  <2> QED
    BY <2>1, FS_Intersection
<1>4. ASSUME NEW t \in Nat
      PROVE  Cardinality(R \cap 0..(t + 1 - 1)) = Cardinality(R \cap 0..(t - 1)) + IF t \in R THEN 1 ELSE 0
  <2> DEFINE S == R \cap 0..(t - 1)
  <2>1. t \notin S /\ IsFiniteSet(S)
    BY <1>3
  <2>2. Cardinality(S) \in Nat /\ Cardinality(S \cup {t}) = Cardinality(S) + 1
    <3> HIDE DEF S
    <3> QED
      BY <2>1, FS_AddElement, FS_CardinalityType
  <2>3. CASE t \in R
    <3>1. R \cap 0..(t + 1 - 1) = S \cup {t}
      BY <2>3
    <3> QED
      BY <2>2, <2>3, <3>1
  <2>4. CASE t \notin R
    <3>1. R \cap 0..(t + 1 - 1) = S
      BY <2>4
    <3> HIDE DEF S
    <3>2. Cardinality(S) + 0 = Cardinality(S)
      BY <2>2
    <3> QED
      BY <2>4, <3>1, <3>2 DEF S
  <2> QED
    BY <2>3, <2>4
<1>5. \A t \in Nat : Cardinality(R \cap 0..(t - 1)) \in Nat
  BY <1>3, FS_CardinalityType
<1>6. Cardinality({}) = 0
  BY FS_EmptySet
<1> QED
  BY <1>2, <1>4, <1>5, <1>6 DEF SoFar, R

(* How far the closed form is ahead is a number. *)
LEMMA AheadType ==
  ASSUME NEW lp, NEW n \in Nat, NEW t \in Nat, NEW x \in Int
  PROVE  Ahead(lp, n, t, x) \in Int
<1>1. SoFar(lp, n, t, x) \in Nat
  BY SoFarIs
<1>2. Cardinality(ReachedFrom(lp, n, x)) \in Nat
  BY ReachesType
<1> QED
  BY <1>1, <1>2 DEF Ahead

(* The gap between the two nests is an amount. *)
LEMMA ApartType ==
  ASSUME NEW lp, NEW op, NEW n \in Nat, NEW t \in Nat, NEW v \in Amounts
  PROVE  Apart(lp, op, n, t, v) \in Amounts
<1>1. ASSUME NEW x \in Cells PROVE Ahead(lp, n, t, x) * Signed(op, v[x]) \in Int
  <2>1. x \in Int /\ Signed(op, v[x]) \in Int
    BY CellsAre, SignedType DEF Amounts
  <2>2. Ahead(lp, n, t, x) \in Int
    BY <2>1, AheadType
  <2> QED
    BY <2>1, <2>2
<1> QED
  BY <1>1 DEF Apart, Amounts

(* There is no gap before the first iteration and none after the last. *)
LEMMA ApartAtEnds ==
  ASSUME NEW lp, NEW op, NEW n \in Nat, NEW v \in Amounts
  PROVE  \A x \in Cells : Apart(lp, op, n, 0, v)[x] = 0 /\ Apart(lp, op, n, n, v)[x] = 0
<1> SUFFICES ASSUME NEW x \in 0..(n - 1), x \in Cells
             PROVE  Ahead(lp, n, 0, x) * Signed(op, v[x]) = 0 /\ Ahead(lp, n, n, x) * Signed(op, v[x]) = 0
  BY DEF Apart
<1>1. Signed(op, v[x]) \in Int
  BY SignedType DEF Amounts
<1>2. Ahead(lp, n, 0, x) = 0 /\ Ahead(lp, n, n, x) = 0
  BY SoFarIs, ReachesType DEF Ahead
<1> QED
  BY <1>1, <1>2

(* A sign goes through a product. *)
LEMMA SignedTimes ==
  ASSUME NEW op, NEW r \in Int, NEW v \in Int
  PROVE  Signed(op, r * v) = r * Signed(op, v)
BY DEF Signed

(* Multiples of one number add up. *)
LEMMA Distributes == \A a, b, s \in Int : a * s + b * s = (a + b) * s
OBVIOUS

(* An iteration changes the gap by what the two forms add in it. *)
LEMMA ApartCloses ==
  ASSUME NEW lp, NEW op, NEW n \in Nat, NEW i \in 0..(n - 1), NEW v \in Amounts
  PROVE  Closes(Apart(lp, op, n, i, v), Apart(lp, op, n, i + 1, v),
                InIteration(lp, op, n, i, v), AtOnce(lp, op, n, i, v))
<1> SUFFICES ASSUME NEW x \in Cells
             PROVE  Apart(lp, op, n, i + 1, v)[x] + InIteration(lp, op, n, i, v)[x]
                      = Apart(lp, op, n, i, v)[x] + AtOnce(lp, op, n, i, v)[x]
  BY DEF Closes
<1>1. x \in Int /\ v[x] \in Int /\ i \in Nat
  BY CellsAre DEF Amounts
<1> DEFINE s == Signed(op, v[x])
           r == Cardinality(ReachedFrom(lp, n, x))
           p == SoFar(lp, n, i, x)
           one == IF i \in ReachedFrom(lp, n, x) THEN 1 ELSE 0
<1>2. s \in Int /\ r \in Int /\ p \in Int /\ one \in Int /\ SoFar(lp, n, i + 1, x) = p + one
  <2>1. s \in Int
    BY <1>1, SignedType
  <2>2. r \in Int
    BY ReachesType
  <2>3. p \in Int /\ SoFar(lp, n, i + 1, x) = p + one
    <3>1. /\ \A t \in Nat : SoFar(lp, n, t, x) \in Nat
          /\ \A t \in Nat : SoFar(lp, n, t + 1, x) = SoFar(lp, n, t, x) + IF t \in ReachedFrom(lp, n, x) THEN 1 ELSE 0
      BY SoFarIs
    <3> QED
      BY <1>1, <3>1
  <2> QED
    BY <2>1, <2>2, <2>3
<1>3. CASE x \notin 0..(n - 1)
  <2>1. x # i
    BY <1>3
  <2> QED
    BY <1>3, <2>1 DEF Apart, InIteration, AtOnce, OneAmount
<1>4. CASE x \in 0..(n - 1)
  <2>1. /\ Apart(lp, op, n, i + 1, v)[x] = ((IF x < i + 1 THEN r ELSE 0) - (p + one)) * s
        /\ Apart(lp, op, n, i, v)[x] = ((IF x < i THEN r ELSE 0) - p) * s
    BY <1>2, <1>4 DEF Apart, Ahead
  <2>2. InIteration(lp, op, n, i, v)[x] = one * s
    <3>1. InIteration(lp, op, n, i, v)[x] = IF i \in ReachedFrom(lp, n, x) THEN s ELSE 0
      BY <1>4 DEF InIteration
    <3> QED
      BY <1>2, <3>1
  <2>3. AtOnce(lp, op, n, i, v)[x] = (IF x = i THEN r ELSE 0) * s
    <3>1. CASE x = i
      <4>1. AtOnce(lp, op, n, i, v)[x] = Signed(op, r * v[x])
        BY <3>1 DEF AtOnce, OneAmount
      <4>2. Signed(op, r * v[x]) = r * s
        BY <1>1, <1>2, SignedTimes
      <4> QED
        BY <3>1, <4>1, <4>2
    <3>2. CASE x # i
      <4>1. AtOnce(lp, op, n, i, v)[x] = 0
        BY <3>2 DEF AtOnce, OneAmount
      <4> QED
        BY <1>2, <3>2, <4>1
    <3> QED
      BY <3>1, <3>2
  <2>4. \A a, b, c, d \in Int : a + b = c + d => a * s + b * s = c * s + d * s
    <3> SUFFICES ASSUME NEW a \in Int, NEW b \in Int, NEW c \in Int, NEW d \in Int, a + b = c + d
                 PROVE  a * s + b * s = c * s + d * s
      OBVIOUS
    <3>1. a * s + b * s = (a + b) * s /\ c * s + d * s = (c + d) * s
      BY <1>2, Distributes
    <3> HIDE DEF s
    <3> QED
      BY <3>1
  <2>5. ((IF x < i + 1 THEN r ELSE 0) - (p + one)) + one = ((IF x < i THEN r ELSE 0) - p) + IF x = i THEN r ELSE 0
    <3> HIDE DEF r, p, one
    <3> QED
      BY <1>1, <1>2
  <2>6. /\ (IF x < i + 1 THEN r ELSE 0) - (p + one) \in Int /\ (IF x < i THEN r ELSE 0) - p \in Int
        /\ (IF x = i THEN r ELSE 0) \in Int
    <3> HIDE DEF r, p, one
    <3> QED
      BY <1>1, <1>2
  <2> DEFINE a == (IF x < i + 1 THEN r ELSE 0) - (p + one)
             c == (IF x < i THEN r ELSE 0) - p
             d == IF x = i THEN r ELSE 0
  <2> HIDE DEF s, one, a, c, d
  <2>7. a * s + one * s = c * s + d * s
    <3>1. a + one = c + d /\ a \in Int /\ c \in Int /\ d \in Int
      BY <2>5, <2>6 DEF a, c, d
    <3> QED
      BY <1>2, <2>4, <3>1
  <2> QED
    BY <2>1, <2>2, <2>3, <2>7 DEF a, c, d
<1> QED
  BY <1>3, <1>4

-----------------------------------------------------------------------------
(* The operand has one value in all memories of G. *)
Fixed(G, o) == \A m, w \in G : o.kind = "load" => w[o.arr] = m[o.arr]

(* A fixed operand has the same values in every memory of G. *)
LEMMA FixedAlong ==
  ASSUME NEW G, NEW st, Fixed(G, RecTerm(st)), RecTerm(st) \in Operands, NEW m \in G, NEW w \in G, NEW n
  PROVE  OperandAlong(w, st, n) = OperandAlong(m, st, n)
<1>1. \A e : Read(w, e, RecTerm(st)) = Read(m, e, RecTerm(st))
  BY DEF Fixed, Read, Operands
<1> QED
  BY <1>1 DEF OperandAlong

(* The nest with the loop and the nest with its closed form. *)
OneReplaced(G, T, n, B, C, L, q, lp, st) ==
  /\ DOMAIN B = 1..L /\ DOMAIN C = 1..L /\ B[q] = lp /\ C[q] = Alone(st, lp)
  /\ \A p \in (1..L) \ {q} : B[p] = C[p] /\ Indifferent(G, T, n, B[p], st.arr)

(* One loop along an array may be replaced by its closed form. *)
LEMMA AlongReplaced ==
  ASSUME NEW k, NEW lp \in Loops, NEW st, NEW ls, Replaces(k, lp, st, ls), PlacedStore(st), Along(st),
         NEW n \in 1..MaxN, NEW G, NEW T, Keeps(G, T), st.arr \in T, Fixed(G, RecTerm(st)),
         \A m \in G : AllEven(m, k, n),
         NEW L \in Nat, NEW q \in 1..L, NEW B, NEW C, OneReplaced(G, T, n, B, C, L, q, lp, st), NEW m \in G
  PROVE  AfterNest(m, n, B) \in G /\ AfterNest(m, n, C) = AfterNest(m, n, B)
<1> DEFINE v == OperandAlong(m, st, n)
           D == [i \in 0..(n - 1) |-> InIteration(lp, st.op, n, i, v)]
           F == [i \in 0..(n - 1) |-> AtOnce(lp, st.op, n, i, v)]
           Off == [t \in 0..n |-> Apart(lp, st.op, n, t, v)]
<1>1. n \in Nat /\ G \subseteq Memories /\ RecTerm(st) \in Operands /\ lp.kind = "loop"
  BY ReplacesMeans, RecTermType DEF Keeps, Replaces, Loops
<1>2. v \in Amounts
  BY <1>1, OperandOfEach
<1>3. \A w \in G : OperandAlong(w, st, n) = v
  BY <1>1, FixedAlong
<1>4. ASSUME NEW i \in 0..(n - 1), NEW w \in G
      PROVE  /\ AfterItem(w, Iteration(n, i), lp) = Shifted(w, st.arr, InIteration(lp, st.op, n, i, v))
             /\ AfterItem(w, Iteration(n, i), Alone(st, lp)) = Shifted(w, st.arr, AtOnce(lp, st.op, n, i, v))
             /\ AtOnce(lp, st.op, n, i, v) \in Amounts
  <2>1. w \in Memories /\ AllEven(w, k, n) /\ OperandAlong(w, st, n) = v
    BY <1>1, <1>3
  <2>2. AfterLoop(w, Iteration(n, i), lp) = Shifted(w, st.arr, InIteration(lp, st.op, n, i, OperandAlong(w, st, n)))
    BY <2>1, LoopOfEach
  <2>3. /\ AtOnce(lp, st.op, n, i, OperandAlong(w, st, n)) \in Amounts
        /\ AfterClosed(w, Iteration(n, i), Alone(st, lp)) =
             Shifted(w, st.arr, AtOnce(lp, st.op, n, i, OperandAlong(w, st, n)))
    BY <2>1, AloneOfEach
  <2>4. Alone(st, lp).kind = "closed"
    BY ClosedFields DEF Alone
  <2>5. AfterItem(w, Iteration(n, i), lp) = AfterLoop(w, Iteration(n, i), lp)
    BY <1>1 DEF AfterItem
  <2>6. AfterItem(w, Iteration(n, i), Alone(st, lp)) = AfterClosed(w, Iteration(n, i), Alone(st, lp))
    BY <2>4 DEF AfterItem
  <2> HIDE DEF v
  <2> QED
    BY <2>1, <2>2, <2>3, <2>5, <2>6
<1>5. AddsThere(G, n, B[q], st.arr, D) /\ AddsThere(G, n, C[q], st.arr, F)
  <2> HIDE DEF v
  <2>1. \A i : InIteration(lp, st.op, n, i, v) \in Amounts
    BY <1>2, InIterationType
  <2>2. \A i \in 0..(n - 1) : AtOnce(lp, st.op, n, i, v) \in Amounts
    BY <1>4
  <2>3. \A i \in 0..(n - 1) : D[i] = InIteration(lp, st.op, n, i, v) /\ F[i] = AtOnce(lp, st.op, n, i, v)
    OBVIOUS
  <2> HIDE DEF D, F
  <2> QED
    BY <1>4, <2>1, <2>2, <2>3 DEF AddsThere, OneReplaced
<1>6. OneApart(G, T, n, B, C, L, q, st.arr, D, F)
  <2> HIDE DEF D, F
  <2> QED
    BY <1>5 DEF OneApart, OneReplaced
<1>7. \A t \in 0..n : Off[t] \in Amounts
  <2> HIDE DEF v
  <2> QED
    BY <1>1, <1>2, ApartType
<1>8. \A x \in Cells : Off[0][x] = 0 /\ Off[n][x] = 0
  <2> HIDE DEF v
  <2>1. 0 \in 0..n /\ n \in 0..n
    OBVIOUS
  <2>2. \A x \in Cells : Apart(lp, st.op, n, 0, v)[x] = 0 /\ Apart(lp, st.op, n, n, v)[x] = 0
    BY <1>1, <1>2, ApartAtEnds
  <2> QED
    BY <2>1, <2>2
<1>9. \A i \in 0..(n - 1) : Closes(Off[i], Off[i + 1], D[i], F[i])
  <2> HIDE DEF v
  <2>1. \A i \in 0..(n - 1) : i \in 0..n /\ i + 1 \in 0..n
    BY <1>1
  <2>2. \A i \in 0..(n - 1) : Closes(Apart(lp, st.op, n, i, v), Apart(lp, st.op, n, i + 1, v),
                                     InIteration(lp, st.op, n, i, v), AtOnce(lp, st.op, n, i, v))
    BY <1>1, <1>2, ApartCloses
  <2> QED
    BY <2>1, <2>2
<1> HIDE DEF D, F, Off
<1>10. Offsets(Off, n, D, F)
  BY <1>7, <1>8, <1>9 DEF Offsets
<1> QED
  BY <1>1, <1>6, <1>10, NestsInStep

-----------------------------------------------------------------------------
(***************************************************************************)
(* The memories a nest goes through: what it does not store stays.         *)
(***************************************************************************)
Stored(body) == {b \in Arrays : StoredIn(body, b)}

Kept(m0, body) == {m \in Memories : \A b \in Arrays : ~StoredIn(body, b) => m[b] = m0[b]}

(* The memories that keep what a body does not store are closed under adding to what it stores. *)
LEMMA KeptKeeps ==
  ASSUME NEW m0, NEW body PROVE Keeps(Kept(m0, body), Stored(body))
<1>1. ASSUME NEW m \in Kept(m0, body), NEW b \in Stored(body), NEW d \in Amounts
      PROVE  Shifted(m, b, d) \in Kept(m0, body)
  <2>1. m \in Memories /\ b \in Arrays /\ StoredIn(body, b)
    BY DEF Kept, Stored
  <2>2. Shifted(m, b, d) \in Memories /\ \A c \in Arrays \ {b} : Shifted(m, b, d)[c] = m[c]
    BY <2>1, ShiftedIs
  <2>3. \A c \in Arrays : ~StoredIn(body, c) => m[c] = m0[c]
    BY DEF Kept
  <2>4. \A c \in Arrays : ~StoredIn(body, c) => c # b
    BY <2>1
  <2>5. \A c \in Arrays : ~StoredIn(body, c) => Shifted(m, b, d)[c] = m0[c]
    BY <2>2, <2>3, <2>4
  <2> QED
    BY <2>2, <2>5 DEF Kept
<1> QED
  BY <1>1 DEF Keeps, Kept, Stored

(* An operand the body does not store is fixed in them. *)
LEMMA FixedKept ==
  ASSUME NEW m0, NEW body, NEW o \in Operands, o.kind = "load" => ~StoredIn(body, o.arr)
  PROVE  Fixed(Kept(m0, body), o)
<1>1. o.kind = "load" => o.arr \in Arrays
  BY DEF Operands
<1> QED
  BY <1>1 DEF Fixed, Kept

(* What the pass takes for one value is not stored in the nest. *)
LEMMA UniformNotStored ==
  ASSUME NEW k \in Nat, NEW b, Uniform(b, k), k >= 1
  PROVE  ~StoredIn(prog[k], b)
<1> SUFFICES ASSUME StoredIn(prog[k], b) PROVE FALSE
  OBVIOUS
<1>1. PICK q \in Writers(b, k) : Writers(b, k) = {q} /\ q[1] < k
  BY DEF Uniform
<1>2. PICK p \in DOMAIN prog[k] : StoredBy(prog[k][p], b)
  BY DEF StoredIn
<1>3. <<k, p>> \in UNION {{t} \X DOMAIN prog[t] : t \in 1..k}
  BY <1>2
<1>4. <<k, p>> \in Writers(b, k)
  BY <1>2, <1>3 DEF Writers
<1> QED
  BY <1>1, <1>4

(* What is uniform before the nest is so in all of them. *)
LEMMA KeptEven ==
  ASSUME NEW k \in Nat, k >= 1, NEW n, NEW m0,
         AllEven(m0, k, n), NEW m \in Kept(m0, prog[k])
  PROVE  AllEven(m, k, n)
<1> SUFFICES ASSUME NEW b \in Arrays, Uniform(b, k) PROVE Even(m, b, n)
  BY DEF AllEven
<1>1. m[b] = m0[b]
  BY UniformNotStored DEF Kept
<1>2. Even(m0, b, n)
  BY DEF AllEven
<1> QED
  BY <1>1, <1>2 DEF Even

-----------------------------------------------------------------------------
(* An inner loop the pass may replace, in a program. *)
Replaceable(k, n, lp, st, ls) ==
  /\ lp \in Loops /\ Replaces(k, lp, st, ls) /\ PlacedStore(st)
  /\ Bounded(lp) /\ StaysInside(lp, n)

(* Memories to run the nest in. *)
Running(k, n, G, T) == Keeps(G, T) /\ \A m \in G : AllEven(m, k, n)

(* An item does what its kind does. *)
LEMMA ItemsDo ==
  ASSUME NEW lp \in Loops, NEW st, NEW m, NEW e
  PROVE  /\ AfterItem(m, e, lp) = AfterLoop(m, e, lp)
         /\ AfterItem(m, e, Alone(st, lp)) = AfterClosed(m, e, Alone(st, lp))
<1>1. lp.kind = "loop" /\ Alone(st, lp).kind = "closed"
  BY ClosedFields DEF Alone, Loops
<1> QED
  BY <1>1 DEF AfterItem

(* An operand that is not a load of a, moved out or not, reads the same when only a differs. *)
LEMMA ReadsSame ==
  ASSUME NEW o \in Operands, NEW a, ~IsLoadOf(o, a), NEW m, NEW w, \A c \in Arrays \ {a} : w[c] = m[c], NEW e
  PROVE  Read(w, e, o) = Read(m, e, o) /\ Read(w, e, cloneExpr(o)) = Read(m, e, cloneExpr(o))
<1>1. CASE o.kind = "term"
  <2>1. Read(w, e, o) = Read(m, e, o)
    BY <1>1 DEF Read
  <2>2. cloneExpr(o).kind = "term"
    BY <1>1 DEF cloneExpr, Term
  <2>3. Read(w, e, cloneExpr(o)) = Read(m, e, cloneExpr(o))
    BY <2>2 DEF Read
  <2> QED
    BY <2>1, <2>3
<1>2. CASE o.kind # "term"
  <2>1. o.kind = "load" /\ o.arr \in Arrays /\ o.arr # a
    BY <1>2 DEF Operands, IsLoadOf
  <2>2. w[o.arr] = m[o.arr]
    BY <2>1
  <2> QED
    BY <2>1, <2>2, ReadLoad
<1> QED
  BY <1>1, <1>2

(* The additions to one element do not depend on arrays they do not read. *)
LEMMA IndifferentOne ==
  ASSUME NEW k, NEW n \in 1..MaxN, NEW lp, NEW st, NEW ls, Replaceable(k, n, lp, st, ls), ~Along(st),
         NEW G, NEW T, Running(k, n, G, T), st.arr \in T, NEW a, ~IsLoadOf(RecTerm(st), a),
         NEW item \in {lp, Alone(st, lp)}
  PROVE  Indifferent(G, T, n, item, a)
<1> SUFFICES ASSUME NEW i \in 0..(n - 1), NEW m \in G
             PROVE  \E d \in Amounts : AddsTo(G, Iteration(n, i), item, m, a, st.arr, d)
  BY DEF Indifferent
<1> DEFINE e == Iteration(n, i)
           x == At(st.idx, e)
           v(w) == ValueOf(Multiple(st, lp), e) * Read(w, e, cloneExpr(RecTerm(st)))
           d == OneAmount(x, Signed(st.op, v(m)))
<1>1. /\ lp \in Loops /\ Replaces(k, lp, st, ls) /\ PlacedStore(st) /\ Bounded(lp) /\ StaysInside(lp, n)
      /\ G \subseteq Memories /\ \A w \in G : AllEven(w, k, n)
  BY DEF Replaceable, Running, Keeps
<1>2. RecTerm(st) \in Operands
  BY <1>1, ReplacesMeans, RecTermType DEF Replaces
<1>3. ASSUME NEW w \in G
      PROVE  x \in Cells /\ v(w) \in Int /\ AfterItem(w, e, item) = Shifted(w, st.arr, OneAmount(x, Signed(st.op, v(w))))
  <2>1. w \in Memories /\ AllEven(w, k, n)
    BY <1>1
  <2>2. x \in Cells /\ v(w) \in Int /\ AfterLoop(w, e, lp) = Shifted(w, st.arr, OneAmount(x, Signed(st.op, v(w))))
    BY <1>1, <2>1, LoopOfOne
  <2>3. AfterClosed(w, e, Alone(st, lp)) = AfterLoop(w, e, lp)
    BY <1>1, <2>1, AloneIsLoop
  <2>4. AfterItem(w, e, item) = AfterLoop(w, e, lp)
    BY <1>1, <2>3, ItemsDo
  <2> QED
    BY <2>2, <2>4
<1>4. d \in Amounts
  <2>1. x \in Cells /\ v(m) \in Int
    BY <1>3
  <2> HIDE DEF x, v
  <2> QED
    BY <2>1, SignedType, OneAmountType
<1>5. ASSUME NEW w \in G, \A c \in Arrays \ {a} : w[c] = m[c] PROVE v(w) = v(m)
  <2>1. Read(w, e, cloneExpr(RecTerm(st))) = Read(m, e, cloneExpr(RecTerm(st)))
    BY <1>2, <1>5, ReadsSame
  <2> QED
    BY <2>1
<1> HIDE DEF e, x, v
<1>6. AddsTo(G, e, item, m, a, st.arr, d)
  BY <1>3, <1>5 DEF AddsTo
<1> QED
  BY <1>4, <1>6 DEF e

(* Nor do those along an array, whose operand is not stored in the nest. *)
LEMMA IndifferentEach ==
  ASSUME NEW k, NEW n \in 1..MaxN, NEW lp, NEW st, NEW ls, Replaceable(k, n, lp, st, ls), Along(st),
         NEW G, NEW T, Running(k, n, G, T), st.arr \in T, Fixed(G, RecTerm(st)), NEW a,
         NEW item \in {lp, Alone(st, lp)}
  PROVE  Indifferent(G, T, n, item, a)
<1> SUFFICES ASSUME NEW i \in 0..(n - 1), NEW m \in G
             PROVE  \E d \in Amounts : AddsTo(G, Iteration(n, i), item, m, a, st.arr, d)
  BY DEF Indifferent
<1> DEFINE e == Iteration(n, i)
           v == OperandAlong(m, st, n)
           d == IF item = lp THEN InIteration(lp, st.op, n, i, v) ELSE AtOnce(lp, st.op, n, i, v)
<1>1. /\ lp \in Loops /\ Replaces(k, lp, st, ls) /\ PlacedStore(st)
      /\ G \subseteq Memories /\ \A w \in G : AllEven(w, k, n)
  BY DEF Replaceable, Running, Keeps
<1>2. RecTerm(st) \in Operands
  BY <1>1, ReplacesMeans, RecTermType DEF Replaces
<1>3. v \in Amounts
  BY <1>1, OperandOfEach
<1>4. ASSUME NEW w \in G
      PROVE  /\ AtOnce(lp, st.op, n, i, v) \in Amounts
             /\ AfterItem(w, e, lp) = Shifted(w, st.arr, InIteration(lp, st.op, n, i, v))
             /\ AfterItem(w, e, Alone(st, lp)) = Shifted(w, st.arr, AtOnce(lp, st.op, n, i, v))
  <2>1. w \in Memories /\ AllEven(w, k, n) /\ OperandAlong(w, st, n) = v
    BY <1>1, <1>2, FixedAlong
  <2>2. AfterLoop(w, e, lp) = Shifted(w, st.arr, InIteration(lp, st.op, n, i, OperandAlong(w, st, n)))
    BY <1>1, <2>1, LoopOfEach
  <2>3. /\ AtOnce(lp, st.op, n, i, OperandAlong(w, st, n)) \in Amounts
        /\ AfterClosed(w, e, Alone(st, lp)) = Shifted(w, st.arr, AtOnce(lp, st.op, n, i, OperandAlong(w, st, n)))
    BY <1>1, <2>1, AloneOfEach
  <2>4. /\ AfterItem(w, e, lp) = AfterLoop(w, e, lp)
        /\ AfterItem(w, e, Alone(st, lp)) = AfterClosed(w, e, Alone(st, lp))
    BY <1>1, ItemsDo
  <2> HIDE DEF v, e
  <2> QED
    BY <2>1, <2>2, <2>3, <2>4
<1>5. d \in Amounts
  BY <1>3, <1>4, InIterationType
<1> HIDE DEF e, v
<1>6. AddsTo(G, e, item, m, a, st.arr, d)
  BY <1>4 DEF AddsTo
<1> QED
  BY <1>5, <1>6 DEF e

(* An operand without the inner counter is not changed by moving it out. *)
LEMMA OutsideReads ==
  ASSUME NEW o \in Operands, Outside(o), NEW m \in Memories, NEW n \in 1..MaxN, NEW i \in 0..(n - 1)
  PROVE  /\ Read(m, Iteration(n, i), o) \in Int
         /\ Read(m, Iteration(n, i), cloneExpr(o)) = Read(m, Iteration(n, i), o)
<1>1. Iteration(n, i) = Inside(n, i, 0) /\ n \in Int /\ i \in Int /\ i \in Cells /\ 0 \in Cells
  BY InsideIs, CellsAre
<1>2. CASE o.kind = "term"
  <2>1. o.term \in Terms /\ o.term.j = 0
    BY <1>2 DEF Operands, Outside
  <2>2. ValueOf(o.term, Inside(n, i, 0)) \in Int
    BY <1>1, <2>1, ValueType
  <2>3. [c |-> o.term.c, n |-> o.term.n, i |-> o.term.i + o.term.j, j |-> 0] = o.term
    BY <2>1 DEF Terms
  <2> QED
    BY <1>1, <1>2, <2>2, <2>3, ReadTerm
<1>3. CASE o.kind # "term"
  <2>1. o.kind = "load" /\ o.arr \in Arrays /\ o.idx \in {"zero", "outer"}
    BY <1>3 DEF Operands, Outside, Indices
  <2>2. \A x \in Cells : m[o.arr][x] \in Int
    BY <2>1 DEF Memories
  <2> QED
    BY <1>1, <2>1, <2>2, ReadLoad, Indexing
<1> QED
  BY <1>2, <1>3

(* The outer store, when it is an addition. *)
Sums(ls) ==
  /\ ls \in Stores /\ Recurring(ls) /\ ls.op \in {"add", "sub"} /\ ls.idx # "inner"
  /\ Outside(RecTerm(ls))

(* A store that adds what it does not read of a is indifferent to a. *)
LEMMA IndifferentStore ==
  ASSUME NEW n \in 1..MaxN, NEW ls, Sums(ls), NEW G, NEW T, Keeps(G, T), ls.arr \in T,
         NEW a, ~IsLoadOf(RecTerm(ls), a)
  PROVE  Indifferent(G, T, n, ls, a)
<1> SUFFICES ASSUME NEW i \in 0..(n - 1), NEW m \in G
             PROVE  \E d \in Amounts : AddsTo(G, Iteration(n, i), ls, m, a, ls.arr, d)
  BY DEF Indifferent
<1> DEFINE e == Iteration(n, i)
           x == At(ls.idx, e)
           v == Read(m, e, RecTerm(ls))
           d == OneAmount(x, Signed(ls.op, v))
<1>1. G \subseteq Memories /\ RecTerm(ls) \in Operands /\ ls.idx \in {"zero", "outer"} /\ ls.kind = "store"
  BY RecTermType, StoreFields DEF Keeps, Sums, Recurring, Indices, Stores
<1>2. x \in Cells
  BY <1>1, InsideIs, Indexing, CellsAre
<1>3. v \in Int
  BY <1>1, OutsideReads DEF Sums
<1>4. d \in Amounts
  BY <1>2, <1>3, SignedType, OneAmountType
<1>5. ASSUME NEW w \in G, \A c \in Arrays \ {a} : w[c] = m[c]
      PROVE  AfterItem(w, e, ls) = Shifted(w, ls.arr, d)
  <2>1. Read(w, e, RecTerm(ls)) = v
    BY <1>1, <1>5, ReadsSame
  <2>2. AfterItem(w, e, ls) = AfterStore(w, e, ls)
    BY <1>1 DEF AfterItem
  <2>3. w \in Memories
    BY <1>1
  <2> HIDE DEF v, e
  <2>4. AfterStore(w, e, ls) = Shifted(w, ls.arr, OneAmount(At(ls.idx, e), Signed(ls.op, v)))
    BY <1>2, <1>3, <2>1, <2>3, AddingStore DEF Sums
  <2> QED
    BY <2>2, <2>4
<1> HIDE DEF e, d
<1>6. AddsTo(G, e, ls, m, a, ls.arr, d)
  BY <1>5 DEF AddsTo
<1> QED
  BY <1>4, <1>6 DEF e

-----------------------------------------------------------------------------
(***************************************************************************)
(* A nest of inner loops only, and the nest of their closed forms.         *)
(***************************************************************************)
ClosedLoops(k, n, L, body, left) ==
  /\ L \in Nat /\ body = [p \in 1..L |-> body[p]] /\ left = [p \in 1..L |-> left[p]]
  /\ \A p \in 1..L : \E st : Replaceable(k, n, body[p], st, None) /\ left[p] = Alone(st, body[p])

Mixed(L, body, left, q) == [p \in 1..L |-> IF p <= q THEN left[p] ELSE body[p]]

(* An array stored in an inner loop is stored in the body. *)
LEMMA StoredByLoop ==
  ASSUME NEW L, NEW body, DOMAIN body = 1..L, NEW p \in 1..L, body[p] \in Loops, NEW st, body[p].body = <<st>>
  PROVE  StoredIn(body, st.arr) /\ (st \in Stores => st.arr \in Stored(body))
<1>1. body[p].kind = "loop"
  BY DEF Loops
<1>2. 1 \in DOMAIN body[p].body /\ body[p].body[1] = st
  OBVIOUS
<1>3. StoredBy(body[p], st.arr)
  BY <1>1, <1>2 DEF StoredBy
<1>4. st \in Stores => st.arr \in Arrays
  BY StoreFields
<1> QED
  BY <1>3, <1>4 DEF StoredIn, Stored

(* What no gap says of two loops of the nest. *)
LEMMA Apartness ==
  ASSUME NEW k, NEW n, NEW L, DOMAIN prog[k] = 1..L, NEW p \in 1..L, NEW q \in 1..L,
         NEW sp, NEW sq, Replaceable(k, n, prog[k][p], sp, None), Replaceable(k, n, prog[k][q], sq, None)
  PROVE  /\ Along(sp) /\ RecTerm(sp).kind = "load" => ~StoredIn(prog[k], RecTerm(sp).arr)
         /\ Along(sq) => ~IsLoadOf(RecTerm(sp), sq.arr)
<1> DEFINE body == prog[k]
           rec == RecTerm(sp)
<1>1. /\ body[p] \in Loops /\ body[q] \in Loops /\ body[p].body = <<sp>> /\ body[q].body = <<sq>>
      /\ Recurring(sp)
  BY ReplacesMeans DEF Replaceable
<1>2. "interleaved" \notin GapsAt(k, body[p], sp, None)
  BY DEF Replaceable, Replaces
<1>3. ~ (rec.kind = "load" /\ (\/ Along(sp) /\ StoredIn(body, rec.arr)
                               \/ AlongInner(body, body[p], rec.arr)))
  BY <1>2 DEF GapsAt, Gaps, Along
<1>4. StoredIn(body, sq.arr)
  BY <1>1, StoredByLoop
<1>5. ASSUME Along(sq), IsLoadOf(rec, sq.arr) PROVE FALSE
  <2>1. rec.kind = "load" /\ rec.arr = sq.arr
    BY <1>5 DEF IsLoadOf
  <2>2. CASE body[q] = body[p]
    <3>1. sq = sp
      BY <1>1, <2>2
    <3> QED
      BY <1>1, <1>5, <3>1 DEF Recurring
  <2>3. CASE body[q] # body[p]
    <3>1. body[q].kind = "loop" /\ 1 \in DOMAIN body[q].body /\ body[q].body[1] = sq
      BY <1>1 DEF Loops
    <3>2. AlongInner(body, body[p], sq.arr)
      BY <1>5, <2>3, <3>1 DEF AlongInner, Along
    <3> QED
      BY <1>3, <2>1, <3>2
  <2> QED
    BY <2>2, <2>3
<1> QED
  BY <1>3, <1>5

(* One more loop of the nest is replaced. *)
LEMMA OneMore ==
  ASSUME NEW k \in Nat, k >= 1, NEW n \in 1..MaxN, NEW L, NEW left, ClosedLoops(k, n, L, prog[k], left),
         NEW m0 \in Memories, AllEven(m0, k, n), NEW q \in 1..L, NEW m \in Kept(m0, prog[k])
  PROVE  /\ AfterNest(m, n, Mixed(L, prog[k], left, q - 1)) \in Kept(m0, prog[k])
         /\ AfterNest(m, n, Mixed(L, prog[k], left, q)) = AfterNest(m, n, Mixed(L, prog[k], left, q - 1))
<1> DEFINE body == prog[k]
           G == Kept(m0, body)
           T == Stored(body)
           B == Mixed(L, body, left, q - 1)
           C == Mixed(L, body, left, q)
<1>1. /\ L \in Nat /\ DOMAIN body = 1..L
      /\ \A p \in 1..L : \E st : Replaceable(k, n, body[p], st, None) /\ left[p] = Alone(st, body[p])
  BY DEF ClosedLoops
<1>2. Keeps(G, T) /\ Running(k, n, G, T)
  BY KeptKeeps, KeptEven DEF Running
<1>3. PICK sq : Replaceable(k, n, body[q], sq, None) /\ left[q] = Alone(sq, body[q])
  BY <1>1
<1>4. /\ DOMAIN B = 1..L /\ DOMAIN C = 1..L
      /\ \A p \in (1..L) \ {q} : B[p] = C[p]
      /\ \A p \in 1..L : B[p] \in {body[p], left[p]}
      /\ B[q] = body[q] /\ C[q] = left[q]
  BY <1>1 DEF Mixed
<1>5. ASSUME NEW p \in 1..L, NEW st, Replaceable(k, n, body[p], st, None), left[p] = Alone(st, body[p]),
             NEW a, ~IsLoadOf(RecTerm(st), a)
      PROVE  Indifferent(G, T, n, B[p], a)
  <2>1. /\ body[p] \in Loops /\ st.arr \in T /\ B[p] \in {body[p], Alone(st, body[p])}
        /\ RecTerm(st) \in Operands
    <3>1. body[p] \in Loops /\ body[p].body = <<st>> /\ st \in Stores /\ RecTerm(st) # None
      BY <1>5, ReplacesMeans DEF Replaceable, Replaces
    <3> QED
      BY <1>1, <1>4, <1>5, <3>1, StoredByLoop, RecTermType
  <2> HIDE DEF B, T
  <2>2. CASE ~Along(st)
    <3> HIDE DEF G, body
    <3> QED
      BY <1>2, <1>5, <2>1, <2>2, IndifferentOne
  <2>3. CASE Along(st)
    <3>1. RecTerm(st).kind = "load" => ~StoredIn(body, RecTerm(st).arr)
      BY <1>1, <1>5, <2>3, Apartness
    <3>2. Fixed(G, RecTerm(st))
      BY <2>1, <3>1, FixedKept
    <3> HIDE DEF G, body
    <3> QED
      BY <1>2, <1>5, <2>1, <2>3, <3>2, IndifferentEach
  <2> QED
    BY <2>2, <2>3
<1>6. /\ body[q] \in Loops /\ Replaces(k, body[q], sq, None) /\ PlacedStore(sq) /\ Bounded(body[q])
      /\ StaysInside(body[q], n) /\ body[q].body = <<sq>> /\ sq \in Stores /\ sq.arr \in T
      /\ RecTerm(sq) \in Operands
  <2>1. /\ body[q] \in Loops /\ Replaces(k, body[q], sq, None) /\ PlacedStore(sq) /\ Bounded(body[q])
        /\ StaysInside(body[q], n)
    BY <1>3 DEF Replaceable
  <2>2. body[q].body = <<sq>> /\ sq \in Stores /\ RecTerm(sq) # None
    BY <2>1, ReplacesMeans DEF Replaces
  <2> QED
    BY <1>1, <2>1, <2>2, StoredByLoop, RecTermType
<1>7. G \subseteq Memories /\ \A w \in G : AllEven(w, k, n)
  BY <1>2 DEF Running, Keeps
<1>8. CASE Along(sq)
  <2>1. \A p \in (1..L) \ {q} : B[p] = C[p] /\ Indifferent(G, T, n, B[p], sq.arr)
    <3> SUFFICES ASSUME NEW p \in (1..L) \ {q} PROVE Indifferent(G, T, n, B[p], sq.arr)
      BY <1>4
    <3>1. PICK st : Replaceable(k, n, body[p], st, None) /\ left[p] = Alone(st, body[p])
      BY <1>1
    <3>2. ~IsLoadOf(RecTerm(st), sq.arr)
      BY <1>1, <1>3, <1>8, <3>1, Apartness
    <3> QED
      BY <1>5, <3>1, <3>2
  <2>2. Fixed(G, RecTerm(sq))
    <3>1. RecTerm(sq).kind = "load" => ~StoredIn(body, RecTerm(sq).arr)
      BY <1>1, <1>3, <1>8, Apartness
    <3> QED
      BY <1>6, <3>1, FixedKept
  <2>3. B[q] = body[q] /\ C[q] = Alone(sq, body[q])
    BY <1>3, <1>4
  <2> DEFINE lp == body[q]
  <2>5. OneReplaced(G, T, n, B, C, L, q, lp, sq)
    <3> HIDE DEF G, T, B, C
    <3> QED
      BY <1>4, <2>1, <2>3 DEF OneReplaced
  <2>6. m \in G /\ lp \in Loops /\ Replaces(k, lp, sq, None)
    BY <1>6
  <2> HIDE DEF G, T, B, C, lp
  <2>4. AfterNest(m, n, B) \in G /\ AfterNest(m, n, C) = AfterNest(m, n, B)
    BY <1>1, <1>2, <1>6, <1>7, <1>8, <2>2, <2>5, <2>6, AlongReplaced
  <2> QED
    BY <2>4 DEF G, B, C
<1>9. CASE ~Along(sq)
  <2>1. ASSUME NEW i \in 0..(n - 1), NEW w \in G, NEW p \in 1..L
        PROVE  AfterItem(w, Iteration(n, i), B[p]) \in G
    <3>1. PICK st : Replaceable(k, n, body[p], st, None) /\ left[p] = Alone(st, body[p])
      BY <1>1
    <3>2. body[p] \in Loops /\ body[p].body = <<st>> /\ st \in Stores /\ ~IsLoadOf(RecTerm(st), st.arr)
      BY <3>1, ReplacesMeans DEF Replaceable, Recurring
    <3>3. st.arr \in T
      BY <1>1, <3>2, StoredByLoop
    <3>4. Indifferent(G, T, n, B[p], st.arr)
      BY <1>5, <3>1, <3>2
    <3>5. [x \in Cells |-> 0] \in Amounts /\ n \in Nat
      BY CellsAre DEF Amounts
    <3> HIDE DEF G, T, B
    <3> QED
      BY <1>2, <3>3, <3>4, <3>5, IndifferentStep
  <2>2. ASSUME NEW i \in 0..(n - 1), NEW w \in G
        PROVE  AfterItem(w, Iteration(n, i), C[q]) = AfterItem(w, Iteration(n, i), B[q])
    <3>1. w \in Memories /\ AllEven(w, k, n)
      BY <1>7
    <3>2. AfterClosed(w, Iteration(n, i), Alone(sq, body[q])) = AfterLoop(w, Iteration(n, i), body[q])
      BY <1>6, <1>9, <3>1, AloneIsLoop
    <3> QED
      BY <1>3, <1>4, <1>6, <3>2, ItemsDo
  <2> HIDE DEF G, B, C
  <2>3. SameThere(G, n, L, q, B, C)
    BY <1>4, <2>1, <2>2 DEF SameThere
  <2>4. n \in Nat
    BY CellsAre
  <2>5. AfterNest(m, n, B) \in G /\ AfterNest(m, n, C) = AfterNest(m, n, B)
    BY <1>1, <2>3, <2>4, SameBodies, AlikeNests DEF G
  <2> QED
    BY <2>5 DEF G, B, C
<1> QED
  BY <1>8, <1>9

(* All are replaced. *)
LEMMA AllClosed ==
  ASSUME NEW k \in Nat, k >= 1, NEW n \in 1..MaxN, NEW L, NEW left, ClosedLoops(k, n, L, prog[k], left),
         NEW m \in Memories, AllEven(m, k, n)
  PROVE  AfterNest(m, n, left) = AfterNest(m, n, prog[k])
<1> DEFINE body == prog[k]
           S == {q \in 0..L : AfterNest(m, n, Mixed(L, body, left, q)) = AfterNest(m, n, body)}
<1>1. L \in Nat /\ body = [p \in 1..L |-> body[p]] /\ left = [p \in 1..L |-> left[p]]
  BY DEF ClosedLoops
<1>2. m \in Kept(m, body)
  BY DEF Kept
<1>3. 0 \in S
  <2>1. Mixed(L, body, left, 0) = body
    <3>1. \A p \in 1..L : ~(p <= 0)
      OBVIOUS
    <3> HIDE DEF body
    <3> QED
      BY <1>1, <3>1 DEF Mixed
  <2> QED
    BY <1>1, <2>1
<1>4. ASSUME NEW q \in 0..(L - 1), q \in S PROVE q + 1 \in S
  <2>1. q + 1 \in 1..L /\ q + 1 - 1 = q
    BY <1>1
  <2>2. AfterNest(m, n, Mixed(L, body, left, q + 1)) = AfterNest(m, n, Mixed(L, body, left, q + 1 - 1))
    BY <1>2, <2>1, OneMore
  <2> QED
    BY <1>1, <1>4, <2>1, <2>2
<1>5. L \in S
  <2> HIDE DEF S
  <2>1. 0..L \subseteq S
    BY <1>1, <1>3, <1>4, SetInduction
  <2> QED
    BY <1>1, <2>1
<1>6. Mixed(L, body, left, L) = left
  <2>1. \A p \in 1..L : p <= L
    BY <1>1
  <2> HIDE DEF body
  <2> QED
    BY <1>1, <2>1 DEF Mixed
<1> QED
  BY <1>5, <1>6

-----------------------------------------------------------------------------
(***************************************************************************)
(* A nest of one inner loop and one outer store, and the one closed form   *)
(* that stands for both.                                                   *)
(***************************************************************************)
LEMMA OneItem ==
  ASSUME NEW m, NEW e, NEW item PROVE AfterBody(m, e, <<item>>) = AfterItem(m, e, item)
<1>1. DOMAIN <<item>> = 1..1 /\ <<item>>[1] = item
  OBVIOUS
<1>2. PICK run : BodySteps(run, m, e, <<item>>, 1)
  BY <1>1, BodyTrace
<1>3. run[0] = m /\ AfterBody(m, e, <<item>>) = run[1] /\ run[1] = AfterItem(run[1 - 1], e, <<item>>[1])
  BY <1>2 DEF BodySteps
<1> QED
  BY <1>1, <1>3

(* A body of two items is one after the other. *)
LEMMA TwoItems ==
  ASSUME NEW m, NEW e, NEW body, DOMAIN body = 1..2
  PROVE  AfterBody(m, e, body) = AfterItem(AfterItem(m, e, body[1]), e, body[2])
<1>1. PICK run : BodySteps(run, m, e, body, 2)
  BY BodyTrace
<1>2. /\ run[0] = m /\ AfterBody(m, e, body) = run[2]
      /\ run[1] = AfterItem(run[1 - 1], e, body[1]) /\ run[2] = AfterItem(run[2 - 1], e, body[2])
  BY <1>1 DEF BodySteps
<1> QED
  BY <1>2

(* The second assignment to an element is what counts. *)
LEMMA AssignedTwice ==
  ASSUME NEW m \in Memories, NEW a \in Arrays, NEW x \in Cells, NEW v \in Int, NEW w \in Int
  PROVE  Assigned(Assigned(m, a, x, v), a, x, w) = Assigned(m, a, x, w)
BY DEF Memories, Assigned

(* An outer store of a program, of a kind the pass puts in a closed form. *)
OuterStore(ls) ==
  /\ ls \in Stores /\ PlacedStore(ls) /\ ls.idx # "inner" /\ Outside(ls.l) /\ Outside(ls.r)

(* When no gap is recorded the outer store is a recurrence on the same element. *)
LEMMA OuterStoreMeans ==
  ASSUME NEW k, NEW lp, NEW st, NEW ls, Replaces(k, lp, st, ls), OuterStore(ls), PlacedStore(st)
  PROVE  /\ Recurring(ls) /\ ls.arr = st.arr /\ OuterTermKept(ls) /\ Outside(RecTerm(ls))
         /\ RecTerm(ls) \in Operands /\ ls.op \in {"add", "sub", "mul"}
         /\ ls.idx = IF st.arr \in Static THEN st.idx ELSE "outer"
         /\ ls.op = "mul" => ~Along(st) /\ ~(Place(prog[k], ls) < Place(prog[k], lp))
         /\ Along(st) => (RecTerm(st).kind = "load" => ~StoredIn(prog[k], RecTerm(st).arr))
<1>1. ls # None /\ ls \in Stores
  BY StoreFields DEF OuterStore
<1>2. \A g \in Gaps : g \notin GapsAt(k, lp, st, ls)
  BY DEF Replaces
<1>3. ~ls.guarded
  BY <1>1, <1>2 DEF GapsAt, Gaps
<1>4. IsRecurrence(ls) /\ RecTerm(ls) # None
  BY <1>1 DEF Replaces, LastChecks
<1>5. ~IsLoadOf(RecTerm(ls), ls.arr)
  BY <1>1, <1>2 DEF GapsAt, Gaps
<1>6. ls.op = "sub" => IsOwn(ls.l, ls)
  BY <1>1, <1>2 DEF GapsAt, Gaps
<1>7. ls.arr = st.arr
  BY <1>1, <1>2 DEF GapsAt, Gaps
<1>8. OuterTermKept(ls)
  BY <1>1, <1>2 DEF GapsAt, Gaps
<1>9. ls.arr \notin Static => ls.idx = "outer"
  BY <1>1, <1>2 DEF GapsAt, Gaps
<1>10. ls.op = "mul" => ~(Along(st) \/ Place(prog[k], ls) < Place(prog[k], lp))
  BY <1>1, <1>2 DEF GapsAt, Gaps, Along
<1>11. Along(st) => (RecTerm(st).kind = "load" => ~StoredIn(prog[k], RecTerm(st).arr))
  BY <1>2 DEF GapsAt, Gaps, Along
<1>12. RecTerm(ls) = ls.l \/ RecTerm(ls) = ls.r
  BY <1>4, OperandOfStore
<1>13. ls.idx = IF st.arr \in Static THEN st.idx ELSE "outer"
  BY <1>7, <1>9 DEF OuterStore, PlacedStore
<1> QED
  BY <1>1, <1>3, <1>4, <1>5, <1>6, <1>7, <1>8, <1>10, <1>11, <1>12, <1>13, RecTermType
  DEF Recurring, OuterStore

(* What the closed form computes with. *)
LEMMA MultipleDoes ==
  ASSUME NEW k, NEW n \in 1..MaxN, NEW lp, NEW st, NEW ls, Replaceable(k, n, lp, st, ls),
         NEW m \in Memories, AllEven(m, k, n), NEW i \in 0..(n - 1)
  PROVE  /\ At(IF st.arr \in Static THEN st.idx ELSE "outer", Iteration(n, i)) \in Cells
         /\ ValueOf(Multiple(st, lp), Iteration(n, i)) * Read(m, Iteration(n, i), cloneExpr(RecTerm(st))) \in Int
<1> DEFINE e == Iteration(n, i)
<1>1. lp \in Loops /\ Replaces(k, lp, st, ls) /\ PlacedStore(st) /\ Bounded(lp) /\ StaysInside(lp, n)
  BY DEF Replaceable
<1>2. CASE ~Along(st)
  <2>1. /\ At(st.idx, e) \in Cells
        /\ ValueOf(Multiple(st, lp), e) * Read(m, e, cloneExpr(RecTerm(st))) \in Int
        /\ At(st.idx, e) = At(IF st.arr \in Static THEN st.idx ELSE "outer", e)
    BY <1>1, <1>2, LoopOfOne
  <2> HIDE DEF e
  <2> QED
    BY <2>1 DEF e
<1>3. CASE Along(st)
  <2>1. st.arr \notin Static /\ st.idx = "inner" /\ Reached(lp)
    BY <1>1, <1>3, ReplacesMeans DEF Along
  <2>2. n \in Nat /\ i \in Cells
    BY CellsAre
  <2>3. ValueOf(Multiple(st, lp), e) = Cardinality(ReachedFrom(lp, n, i))
    BY <1>1, <2>1, <2>2, ReachesAreCounted DEF Multiple
  <2>4. Cardinality(ReachedFrom(lp, n, i)) \in Nat
    BY <2>2, ReachesType
  <2>5. Read(m, e, cloneExpr(RecTerm(st))) \in Int
    <3> DEFINE v == OperandAlong(m, st, n)
    <3>1. /\ v \in Amounts
          /\ \A y, x \in 0..(n - 1) : /\ Read(m, Inside(n, y, x), RecTerm(st)) = v[x]
                                      /\ Read(m, Iteration(n, x), cloneExpr(RecTerm(st))) = v[x]
      BY <1>1, <1>3, OperandOfEach
    <3> HIDE DEF v
    <3> QED
      BY <2>2, <3>1 DEF Amounts
  <2>6. At("outer", e) = i
    BY InsideIs, Indexing
  <2>7. ValueOf(Multiple(st, lp), e) * Read(m, e, cloneExpr(RecTerm(st))) \in Int
    <3> DEFINE a == ValueOf(Multiple(st, lp), e)
               b == Read(m, e, cloneExpr(RecTerm(st)))
    <3>1. a \in Int /\ b \in Int
      BY <2>3, <2>4, <2>5
    <3> HIDE DEF a, b
    <3>2. a * b \in Int
      BY <3>1
    <3> QED
      BY <3>2 DEF a, b
  <2> QED
    BY <2>1, <2>2, <2>6, <2>7
<1> QED
  BY <1>2, <1>3

(* Additions and subtractions may change places. *)
LEMMA AddingTwice ==
  ASSUME NEW op \in {"add", "sub"}, NEW op2 \in {"add", "sub"}, NEW u \in Int, NEW v \in Int, NEW w \in Int
  PROVE  Apply(op, Apply(op2, u, w), v) = Apply(op2, Apply(op, u, v), w)
BY DEF Apply

(* The operations of a recurrence compute numbers. *)
LEMMA ApplyType ==
  ASSUME NEW op \in {"add", "sub", "mul"}, NEW u \in Int, NEW v \in Int PROVE Apply(op, u, v) \in Int
BY DEF Apply

(* The closed form of both, and the two after one another. *)
LEMMA BothDo ==
  ASSUME NEW k, NEW n \in 1..MaxN, NEW lp, NEW st, NEW ls, Replaceable(k, n, lp, st, ls), OuterStore(ls),
         NEW m \in Memories, AllEven(m, k, n), NEW i \in 0..(n - 1)
  PROVE  LET e == Iteration(n, i)
             both == AfterClosed(m, e, ClosedForm(st, lp, ls))
         IN  /\ \E x \in Cells : \E v \in Int : both = Assigned(m, st.arr, x, v)
             /\ \E x \in Cells : \E v \in Int : AfterStore(m, e, ls) = Assigned(m, st.arr, x, v)
             /\ AfterStore(AfterClosed(m, e, Alone(st, lp)), e, ls) = both
             /\ ls.op # "mul" => AfterClosed(AfterStore(m, e, ls), e, Alone(st, lp)) = both
<1> DEFINE e == Iteration(n, i)
           a == st.arr
           x == At(IF st.arr \in Static THEN st.idx ELSE "outer", e)
           v(w) == ValueOf(Multiple(st, lp), e) * Read(w, e, cloneExpr(RecTerm(st)))
           r == Read(m, e, RecTerm(ls))
           u == Apply(st.op, m[a][x], v(m))
           both == AfterClosed(m, e, ClosedForm(st, lp, ls))
           first == AfterClosed(m, e, Alone(st, lp))
           stored == AfterStore(m, e, ls)
<1>1. lp \in Loops /\ Replaces(k, lp, st, ls) /\ PlacedStore(st) /\ ls \in Stores
  BY DEF Replaceable, OuterStore
<1>2. /\ Recurring(ls) /\ ls.arr = a /\ OuterTermKept(ls) /\ Outside(RecTerm(ls))
      /\ RecTerm(ls) \in Operands /\ ls.op \in {"add", "sub", "mul"}
      /\ ls.idx = IF st.arr \in Static THEN st.idx ELSE "outer"
  BY <1>1, OuterStoreMeans
<1>3. /\ st \in Stores /\ st.op \in {"add", "sub"} /\ RecTerm(st) \in Operands
      /\ ~IsLoadOf(RecTerm(st), a) /\ a \in Arrays
  BY <1>1, ReplacesMeans, RecTermType, StoreFields DEF Recurring
<1>4. x \in Cells /\ v(m) \in Int
  BY MultipleDoes
<1>5. r \in Int /\ Read(m, e, cloneExpr(RecTerm(ls))) = r
  BY <1>2, OutsideReads
<1>6. m[a][x] \in Int /\ u \in Int /\ Apply(ls.op, m[a][x], r) \in Int /\ Apply(ls.op, u, r) \in Int
  <2>1. m[a][x] \in Int
    BY <1>3, <1>4 DEF Memories
  <2> HIDE DEF x, v, r
  <2> QED
    BY <1>2, <1>3, <1>4, <1>5, <2>1, ApplyType
<1>7. both = Assigned(m, a, x, Apply(ls.op, u, r))
  <2>1. At(IF st.arr \in Static THEN st.idx ELSE "outer", e) = x
    OBVIOUS
  <2>2. ValueOf(Multiple(st, lp), e) * Read(m, e, cloneExpr(RecTerm(st))) = v(m)
    OBVIOUS
  <2> HIDE DEF x, v, e, r
  <2>3. AfterClosed(m, e, ClosedForm(st, lp, ls)) =
          Assigned(m, st.arr, x, Apply(ls.op, Apply(st.op, m[st.arr][x], v(m)), Read(m, e, cloneExpr(RecTerm(ls)))))
    BY <1>2, <2>1, <2>2, ClosedDoes
  <2> QED
    BY <1>5, <2>3
<1>8. ASSUME NEW w PROVE AfterClosed(w, e, Alone(st, lp)) = Assigned(w, a, x, Apply(st.op, w[a][x], v(w)))
  <2>1. At(IF st.arr \in Static THEN st.idx ELSE "outer", e) = x
    OBVIOUS
  <2>2. ValueOf(Multiple(st, lp), e) * Read(w, e, cloneExpr(RecTerm(st))) = v(w)
    OBVIOUS
  <2>3. ~OuterTermKept(None)
    BY DEF OuterTermKept
  <2> HIDE DEF x, v, e
  <2> QED
    BY <2>1, <2>2, <2>3, ClosedDoes DEF Alone
<1>9. ASSUME NEW w \in Memories, Read(w, e, RecTerm(ls)) = r
      PROVE  AfterStore(w, e, ls) = Assigned(w, a, x, Apply(ls.op, w[a][x], r))
  <2>1. At(ls.idx, e) = x
    BY <1>2
  <2> HIDE DEF x, e, r
  <2> QED
    BY <1>1, <1>2, <1>4, <1>5, <1>9, <2>1, RecurrenceStore
<1>10. AfterStore(first, e, ls) = both
  <2>1. first = Assigned(m, a, x, u)
    BY <1>8
  <2> HIDE DEF x, u, e, r, first, both
  <2>2. first \in Memories /\ first[a][x] = u /\ \A c \in Arrays \ {a} : first[c] = m[c]
    BY <1>3, <1>4, <1>6, <2>1, AssignedIs
  <2>3. Read(first, e, RecTerm(ls)) = Read(m, e, RecTerm(ls))
    BY <1>2, <2>2, ReadsSame DEF Recurring
  <2>4. Read(m, e, RecTerm(ls)) = r
    BY DEF r
  <2>5. AfterStore(first, e, ls) = Assigned(first, a, x, Apply(ls.op, u, r))
    BY <1>9, <2>2, <2>3, <2>4
  <2>6. Assigned(first, a, x, Apply(ls.op, u, r)) = Assigned(m, a, x, Apply(ls.op, u, r))
    BY <1>3, <1>4, <1>6, <2>1, AssignedTwice
  <2> QED
    BY <1>7, <2>5, <2>6
<1>11. stored = Assigned(m, a, x, Apply(ls.op, m[a][x], r))
  BY <1>9
<1>12. ASSUME ls.op # "mul" PROVE AfterClosed(stored, e, Alone(st, lp)) = both
  <2> DEFINE w == Apply(ls.op, m[a][x], r)
  <2>0. ls.op \in {"add", "sub"}
    BY <1>2, <1>12
  <2>1. stored = Assigned(m, a, x, w) /\ w \in Int
    BY <1>6, <1>11
  <2> HIDE DEF x, e, r, stored, both, w
  <2>2. stored \in Memories /\ stored[a][x] = w /\ \A c \in Arrays \ {a} : stored[c] = m[c]
    BY <1>3, <1>4, <2>1, AssignedIs
  <2>3. Read(stored, e, cloneExpr(RecTerm(st))) = Read(m, e, cloneExpr(RecTerm(st)))
    BY <1>3, <2>2, ReadsSame
  <2>4. v(stored) = v(m)
    BY <2>3
  <2> HIDE DEF v
  <2>5. AfterClosed(stored, e, Alone(st, lp)) = Assigned(stored, a, x, Apply(st.op, w, v(m)))
    BY <1>8, <2>2, <2>4
  <2>6. Apply(st.op, w, v(m)) = Apply(ls.op, u, r)
    BY <1>3, <1>4, <1>5, <1>6, <2>0, AddingTwice DEF w
  <2> HIDE DEF u
  <2>7. Assigned(stored, a, x, Apply(ls.op, u, r)) = Assigned(m, a, x, Apply(ls.op, u, r))
    BY <1>3, <1>4, <1>6, <2>1, AssignedTwice
  <2> QED
    BY <1>7, <2>5, <2>6, <2>7
<1> HIDE DEF x, u, r, both, stored, first
<1>13. \E y \in Cells : \E z \in Int : both = Assigned(m, a, y, z)
  BY <1>4, <1>6, <1>7
<1>14. \E y \in Cells : \E z \in Int : stored = Assigned(m, a, y, z)
  BY <1>4, <1>6, <1>11
<1> QED
  BY <1>10, <1>12, <1>13, <1>14 DEF both, stored, first

-----------------------------------------------------------------------------
(* What is assigned in a nest stays in its memories. *)
LEMMA AssignedKept ==
  ASSUME NEW m0, NEW body, NEW a \in Arrays, StoredIn(body, a), NEW m \in Kept(m0, body),
         NEW w, \E x \in Cells : \E v \in Int : w = Assigned(m, a, x, v)
  PROVE  w \in Kept(m0, body)
<1>1. PICK x \in Cells, v \in Int : w = Assigned(m, a, x, v)
  OBVIOUS
<1>2. m \in Memories /\ \A b \in Arrays : ~StoredIn(body, b) => m[b] = m0[b]
  BY DEF Kept
<1>3. w \in Memories /\ \A c \in Arrays \ {a} : w[c] = m[c]
  BY <1>1, <1>2, AssignedIs
<1> QED
  BY <1>2, <1>3 DEF Kept

(* An item that does what the closed form of the loop alone does. *)
DoesAlone(G, n, item, st, lp) ==
  \A w \in G : \A i \in 0..(n - 1) :
    AfterItem(w, Iteration(n, i), item) = AfterClosed(w, Iteration(n, i), Alone(st, lp))

(* The closed form with the outer term does in each iteration what the two items do. *)
LEMMA FusedAlike ==
  ASSUME NEW k \in Nat, k >= 1, NEW n \in 1..MaxN, NEW lp, NEW st, NEW ls,
         Replaceable(k, n, lp, st, ls), OuterStore(ls), StoredIn(prog[k], st.arr),
         NEW m0 \in Memories, AllEven(m0, k, n),
         NEW X, DOMAIN X = 1..2, NEW q \in {1, 2}, X[3 - q] = ls,
         DoesAlone(Kept(m0, prog[k]), n, X[q], st, lp),
         q = 2 => ls.op # "mul"
  PROVE  Alike(Kept(m0, prog[k]), n, X, <<ClosedForm(st, lp, ls)>>)
<1> DEFINE G == Kept(m0, prog[k])
           cf == ClosedForm(st, lp, ls)
<1> SUFFICES ASSUME NEW i \in 0..(n - 1), NEW m \in G
             PROVE  /\ AfterBody(m, Iteration(n, i), X) \in G
                    /\ AfterBody(m, Iteration(n, i), <<cf>>) = AfterBody(m, Iteration(n, i), X)
  BY DEF Alike
<1> DEFINE e == Iteration(n, i)
           both == AfterClosed(m, e, cf)
           first == AfterClosed(m, e, Alone(st, lp))
           stored == AfterStore(m, e, ls)
<1>1. m \in Memories /\ AllEven(m, k, n) /\ st.arr \in Arrays
  <2>1. st \in Stores
    BY ReplacesMeans DEF Replaceable
  <2> QED
    BY <2>1, KeptEven, StoreFields DEF Kept
<1>2. /\ \E x \in Cells : \E v \in Int : both = Assigned(m, st.arr, x, v)
      /\ \E x \in Cells : \E v \in Int : stored = Assigned(m, st.arr, x, v)
      /\ AfterStore(first, e, ls) = both
      /\ ls.op # "mul" => AfterClosed(stored, e, Alone(st, lp)) = both
  BY <1>1, BothDo
<1> HIDE DEF both, first, stored
<1>3. both \in G /\ stored \in G
  BY <1>1, <1>2, AssignedKept
<1>4. cf.kind = "closed" /\ ls.kind = "store"
  BY ClosedFields DEF OuterStore, Stores
<1>5. AfterBody(m, e, <<cf>>) = both
  <2>1. AfterBody(m, e, <<cf>>) = AfterItem(m, e, cf)
    BY OneItem
  <2>2. AfterItem(m, e, cf) = AfterClosed(m, e, cf)
    BY <1>4 DEF AfterItem
  <2> QED
    BY <2>1, <2>2 DEF both
<1>6. \A w : AfterItem(w, e, ls) = AfterStore(w, e, ls)
  BY <1>4 DEF AfterItem
<1>7. \A w \in G : AfterItem(w, e, X[q]) = AfterClosed(w, e, Alone(st, lp))
  BY DEF DoesAlone
<1>8. AfterBody(m, e, X) = AfterItem(AfterItem(m, e, X[1]), e, X[2])
  BY TwoItems
<1>9. AfterBody(m, e, X) = both
  <2>1. CASE q = 1
    <3>1. X[2] = ls
      BY <2>1
    <3>2. AfterItem(m, e, X[1]) = first
      BY <1>7, <2>1 DEF first
    <3> QED
      BY <1>2, <1>6, <1>8, <3>1, <3>2
  <2>2. CASE q = 2
    <3>1. X[1] = ls
      BY <2>2
    <3>2. AfterItem(m, e, X[1]) = stored
      BY <1>6, <3>1 DEF stored
    <3>3. AfterItem(stored, e, X[2]) = AfterClosed(stored, e, Alone(st, lp))
      BY <1>3, <1>7, <2>2
    <3> QED
      BY <1>2, <1>8, <2>2, <3>2, <3>3
  <2> QED
    BY <2>1, <2>2
<1> QED
  BY <1>3, <1>5, <1>9

(* A nest of an inner loop and an outer store is its closed form. *)
Fused(k, n, lp, st, ls, q) ==
  /\ Replaceable(k, n, lp, st, ls) /\ OuterStore(ls)
  /\ prog[k] \in Nests /\ DOMAIN prog[k] = 1..2 /\ q \in {1, 2}
  /\ prog[k][q] = lp /\ prog[k][3 - q] = ls

(* What the checks leave of a loop and an outer store. *)
LEMMA FusedMeans ==
  ASSUME NEW k, NEW n, NEW lp, NEW st, NEW ls, NEW q, Fused(k, n, lp, st, ls, q)
  PROVE  /\ StoredIn(prog[k], st.arr) /\ st.arr \in Stored(prog[k]) /\ RecTerm(st) \in Operands
         /\ Along(st) => ls.op # "mul" /\ (RecTerm(st).kind = "load" => ~StoredIn(prog[k], RecTerm(st).arr))
         /\ q = 2 => ls.op # "mul"
         /\ ~IsLoadOf(RecTerm(ls), st.arr) /\ ls.arr = st.arr
         /\ ls.op # "mul" => Sums(ls)
<1> DEFINE body == prog[k]
<1>1. /\ Replaceable(k, n, lp, st, ls) /\ OuterStore(ls)
      /\ body \in Nests /\ DOMAIN body = 1..2 /\ q \in {1, 2} /\ body[q] = lp /\ body[3 - q] = ls
  BY DEF Fused
<1>2. lp \in Loops /\ Replaces(k, lp, st, ls) /\ PlacedStore(st) /\ ls \in Stores
  BY <1>1 DEF Replaceable, OuterStore
<1>3. lp.body = <<st>> /\ st \in Stores /\ RecTerm(st) # None
  BY <1>2, ReplacesMeans DEF Replaces
<1>4. StoredIn(body, st.arr) /\ st.arr \in Stored(body)
  <2>1. q \in 1..2
    BY <1>1
  <2> HIDE DEF body
  <2> QED
    BY <1>1, <1>2, <1>3, <2>1, StoredByLoop
<1>5. /\ Recurring(ls) /\ ls.arr = st.arr /\ Outside(RecTerm(ls)) /\ ls.op \in {"add", "sub", "mul"}
      /\ ls.op = "mul" => ~Along(st) /\ ~(Place(body, ls) < Place(body, lp))
      /\ Along(st) => (RecTerm(st).kind = "load" => ~StoredIn(body, RecTerm(st).arr))
  BY <1>1, <1>2, OuterStoreMeans
<1>6. lp.kind = "loop" /\ ls.kind = "store"
  BY <1>2 DEF Loops, Stores
<1>7. Place(body, lp) = q /\ Place(body, ls) = 3 - q
  <2>1. /\ Place(body, lp) \in DOMAIN body /\ body[Place(body, lp)] = lp
        /\ Place(body, ls) \in DOMAIN body /\ body[Place(body, ls)] = ls
    BY <1>1, PlaceIs
  <2>2. lp # ls
    BY <1>6
  <2> HIDE DEF body
  <2> QED
    BY <1>1, <2>1, <2>2
<1>8. q = 2 => ls.op # "mul"
  BY <1>5, <1>7
<1>9. ~IsLoadOf(RecTerm(ls), ls.arr)
  BY <1>5 DEF Recurring
<1>10. ls.op # "mul" => Sums(ls)
  BY <1>1, <1>2, <1>5 DEF Sums, OuterStore
<1> QED
  BY <1>3, <1>4, <1>5, <1>8, <1>9, <1>10, RecTermType

(* One inner loop and one outer store may be replaced by one closed form. *)
LEMMA FusedNest ==
  ASSUME NEW k \in Nat, k >= 1, NEW n \in 1..MaxN, NEW lp, NEW st, NEW ls, NEW q,
         Fused(k, n, lp, st, ls, q), NEW m \in Memories, AllEven(m, k, n)
  PROVE  AfterNest(m, n, <<ClosedForm(st, lp, ls)>>) = AfterNest(m, n, prog[k])
<1> DEFINE body == prog[k]
           G == Kept(m, body)
           T == Stored(body)
           cf == ClosedForm(st, lp, ls)
<1>1. /\ Replaceable(k, n, lp, st, ls) /\ OuterStore(ls)
      /\ DOMAIN body = 1..2 /\ q \in {1, 2} /\ body[q] = lp /\ body[3 - q] = ls
  BY DEF Fused
<1>2. lp \in Loops /\ Replaces(k, lp, st, ls) /\ PlacedStore(st) /\ Bounded(lp) /\ StaysInside(lp, n)
  BY <1>1 DEF Replaceable
<1>3. /\ StoredIn(body, st.arr) /\ st.arr \in T /\ RecTerm(st) \in Operands
      /\ Along(st) => ls.op # "mul" /\ (RecTerm(st).kind = "load" => ~StoredIn(body, RecTerm(st).arr))
      /\ q = 2 => ls.op # "mul"
      /\ ~IsLoadOf(RecTerm(ls), st.arr) /\ ls.arr = st.arr
      /\ ls.op # "mul" => Sums(ls)
  BY FusedMeans
<1>4. m \in G /\ Keeps(G, T) /\ \A w \in G : w \in Memories /\ AllEven(w, k, n)
  BY KeptKeeps, KeptEven DEF Kept
<1>5. n \in Nat
  BY CellsAre
<1>6. CASE ~Along(st)
  <2>1. ASSUME NEW w \in G, NEW i \in 0..(n - 1)
        PROVE  AfterItem(w, Iteration(n, i), body[q]) = AfterClosed(w, Iteration(n, i), Alone(st, lp))
    <3>1. AfterClosed(w, Iteration(n, i), Alone(st, lp)) = AfterLoop(w, Iteration(n, i), lp)
      BY <1>2, <1>4, <1>6, AloneIsLoop
    <3> QED
      BY <1>1, <1>2, <3>1, ItemsDo
  <2>2. DoesAlone(G, n, body[q], st, lp)
    BY <2>1 DEF DoesAlone
  <2>3. Alike(G, n, body, <<cf>>)
    BY <1>1, <1>3, <2>2, FusedAlike
  <2> HIDE DEF G, cf
  <2> QED
    BY <1>4, <1>5, <2>3, AlikeNests DEF cf
<1>7. CASE Along(st)
  <2> DEFINE C == [p \in 1..2 |-> IF p = q THEN Alone(st, lp) ELSE ls]
  <2>1. DOMAIN C = 1..2 /\ C[q] = Alone(st, lp) /\ C[3 - q] = ls
    BY <1>1
  <2>2. ls.op # "mul" /\ Sums(ls) /\ Fixed(G, RecTerm(st))
    BY <1>3, <1>7, FixedKept
  <2>3. Indifferent(G, T, n, ls, st.arr)
    BY <1>3, <1>4, <2>2, IndifferentStore
  <2>4. \A p \in (1..2) \ {q} : p = 3 - q
    BY <1>1
  <2>5. OneReplaced(G, T, n, body, C, 2, q, lp, st)
    <3> HIDE DEF C, G, T, body
    <3> QED
      BY <1>1, <2>1, <2>3, <2>4 DEF OneReplaced
  <2> HIDE DEF C
  <2>6. AfterNest(m, n, C) = AfterNest(m, n, body)
    <3> HIDE DEF G, T, body
    <3>1. q \in 1..2 /\ 2 \in Nat
      BY <1>1
    <3>2. \A w \in G : AllEven(w, k, n)
      BY <1>4
    <3>3. AfterNest(m, n, body) \in G /\ AfterNest(m, n, C) = AfterNest(m, n, body)
      BY <1>2, <1>3, <1>4, <1>7, <2>2, <2>5, <3>1, <3>2, AlongReplaced
    <3> QED
      BY <3>3
  <2>7. DoesAlone(G, n, C[q], st, lp)
    BY <1>2, <2>1, ItemsDo DEF DoesAlone
  <2>8. Alike(G, n, C, <<cf>>)
    BY <1>1, <1>3, <2>1, <2>2, <2>7, FusedAlike
  <2>9. AfterNest(m, n, <<cf>>) = AfterNest(m, n, C)
    <3> HIDE DEF G, T, cf
    <3>1. m \in G
      BY <1>4
    <3>2. AfterNest(m, n, C) \in G /\ AfterNest(m, n, <<cf>>) = AfterNest(m, n, C)
      BY <1>5, <2>8, <3>1, AlikeNests
    <3> QED
      BY <3>2
  <2> QED
    BY <2>6, <2>9
<1> QED
  BY <1>6, <1>7

-----------------------------------------------------------------------------
(***************************************************************************)
(* A program in its arrays: no store of it is outside them, and what it    *)
(* does not store it leaves as it is.                                      *)
(***************************************************************************)
LEMMA CountersType ==
  ASSUME NEW lp \in Loops, NEW n \in Int, NEW i \in Int
  PROVE  \E L \in Nat : /\ DOMAIN Counters(lp, Iteration(n, i)) = 1..L
                        /\ \A c \in 1..L : Counters(lp, Iteration(n, i))[c] \in Int
<1> DEFINE e == Iteration(n, i)
           from == ValueOf(lp.init, e)
           to   == ValueOf(lp.exit, e) + IF lp.strict THEN 0 ELSE IF lp.step > 0 THEN 1 ELSE -1
           span == IF lp.step > 0 THEN to - from ELSE from - to
           size == IF lp.step > 0 THEN lp.step ELSE -lp.step
           times == IF span > 0 THEN (span + size - 1) \div size ELSE 0
<1>1. lp.init \in Terms /\ lp.exit \in Terms /\ lp.strict \in BOOLEAN /\ lp.step \in {1, -1, 2}
  BY LoopFields
<1>2. from \in Int /\ ValueOf(lp.exit, e) \in Int
  BY <1>1, Values
<1>3. Counters(lp, e) = [k \in 1..times |-> from + (k - 1) * lp.step]
  BY DEF Counters
<1>4. to \in Int
  <2>1. (IF lp.strict THEN 0 ELSE IF lp.step > 0 THEN 1 ELSE -1) \in Int
    BY <1>1
  <2> HIDE DEF e
  <2> QED
    BY <1>2, <2>1
<1> HIDE DEF from, to, e
<1>5. span \in Int /\ size \in {1, 2}
  BY <1>1, <1>2, <1>4
<1> HIDE DEF span, size
<1>6. times \in Nat
  BY <1>5
<1> HIDE DEF times
<1>7. DOMAIN Counters(lp, e) = 1..times
  BY <1>3
<1>8. \A c \in 1..times : Counters(lp, e)[c] \in Int
  <2> SUFFICES ASSUME NEW c \in 1..times PROVE Counters(lp, e)[c] \in Int
    OBVIOUS
  <2>1. Counters(lp, e)[c] = from + (c - 1) * lp.step
    BY <1>3
  <2>2. c - 1 \in Int /\ lp.step \in Int
    BY <1>1, <1>6
  <2>3. (c - 1) * lp.step \in Int
    BY <2>2
  <2> QED
    BY <1>2, <2>1, <2>3
<1> QED
  BY <1>6, <1>7, <1>8 DEF e

(* An operand reads a number where its index is in the arrays. *)
LEMMA ReadType ==
  ASSUME NEW o \in Operands, NEW m \in Memories, NEW n \in 1..MaxN, NEW i \in 0..(n - 1), NEW j \in Int,
         AtInner(o) => j \in 0..(n - 1)
  PROVE  Read(m, Inside(n, i, j), o) \in Int
<1>1. n \in Int /\ i \in Int /\ i \in Cells /\ 0 \in Cells /\ 0..(n - 1) \subseteq Cells
  BY CellsAre
<1>2. CASE o.kind = "term"
  <2>1. o.term \in Terms
    BY <1>2 DEF Operands
  <2>2. ValueOf(o.term, Inside(n, i, j)) \in Int
    BY <1>1, <2>1, ValueType
  <2>3. Read(m, Inside(n, i, j), o) = ValueOf(o.term, Inside(n, i, j))
    BY <1>2, ReadTerm
  <2> QED
    BY <2>2, <2>3
<1>3. CASE o.kind # "term"
  <2>1. o.kind = "load" /\ o.arr \in Arrays /\ o.idx \in {"zero", "outer", "inner"}
    BY <1>3 DEF Operands, Indices
  <2>2. \A x \in Cells : m[o.arr][x] \in Int
    BY <2>1 DEF Memories
  <2>3. o.idx = "inner" => j \in Cells
    BY <1>1, <2>1 DEF AtInner
  <2>4. At(o.idx, Inside(n, i, j)) \in Cells
    BY <1>1, <2>1, <2>3, Indexing
  <2> QED
    BY <2>1, <2>2, <2>4, ReadLoad
<1> QED
  BY <1>2, <1>3

(* Where the counter of the inner loop is used, it is an index. *)
Indexed(st, n, j) == st.idx = "inner" \/ AtInner(st.l) \/ AtInner(st.r) => j \in 0..(n - 1)

(* A store leaves every other array as it is. *)
LEMMA StoreKept ==
  ASSUME NEW m0, NEW body, NEW st \in Stores, StoredIn(body, st.arr), NEW m \in Kept(m0, body),
         NEW n \in 1..MaxN, NEW i \in 0..(n - 1), NEW j \in Int, Indexed(st, n, j)
  PROVE  AfterStore(m, Inside(n, i, j), st) \in Kept(m0, body)
<1> DEFINE e == Inside(n, i, j)
           x == At(st.idx, e)
           v == Apply(st.op, Read(m, e, st.l), Read(m, e, st.r))
<1>1. /\ st.arr \in Arrays /\ st.idx \in {"zero", "outer", "inner"} /\ st.op \in {"none", "add", "sub", "mul"}
      /\ st.l \in Operands /\ st.r \in Operands
  BY StoreFields DEF Indices
<1>2. m \in Memories
  BY DEF Kept
<1>3. Read(m, e, st.l) \in Int /\ Read(m, e, st.r) \in Int
  BY <1>1, <1>2, ReadType DEF Indexed
<1>4. v \in Int
  <2> DEFINE l == Read(m, e, st.l)
             r == Read(m, e, st.r)
  <2>1. l \in Int /\ r \in Int
    BY <1>3
  <2> HIDE DEF l, r
  <2>2. Apply(st.op, l, r) \in Int
    BY <1>1, <2>1 DEF Apply
  <2> QED
    BY <2>2 DEF l, r
<1>5. x \in Cells
  <2>1. i \in Cells /\ 0 \in Cells /\ 0..(n - 1) \subseteq Cells
    BY CellsAre
  <2> QED
    BY <1>1, <2>1, Indexing DEF Indexed
<1>6. AfterStore(m, e, st) \in {m, Assigned(m, st.arr, x, v)}
  BY DEF AfterStore
<1> HIDE DEF x, v, e
<1>7. Assigned(m, st.arr, x, v) \in Kept(m0, body)
  BY <1>1, <1>4, <1>5, AssignedKept
<1> QED
  BY <1>6, <1>7 DEF e

StoresThere(body, lp) == \A q \in DOMAIN lp.body : StoredIn(body, lp.body[q].arr)

(* So do the stores of an inner loop, in one iteration of it. *)
LEMMA StoresKept ==
  ASSUME NEW m0, NEW body, NEW lp \in Loops, StoresThere(body, lp), NEW m \in Kept(m0, body),
         NEW n \in 1..MaxN, NEW i \in 0..(n - 1), NEW j \in Int, GoesAlong(lp) => j \in 0..(n - 1)
  PROVE  AfterStores(m, Inside(n, i, j), lp.body) \in Kept(m0, body)
<1> DEFINE e == Inside(n, i, j)
           L == Len(lp.body)
<1>1. L \in Nat /\ DOMAIN lp.body = 1..L /\ \A q \in 1..L : lp.body[q] \in Stores
  BY LoopFields
<1> HIDE DEF L
<1>2. PICK run : StoresSteps(run, m, e, lp.body, L)
  BY <1>1, StoresTrace
<1>3. /\ run[0] = m /\ AfterStores(m, e, lp.body) = run[L]
      /\ \A q \in 1..L : run[q] = AfterStore(run[q - 1], e, lp.body[q])
  BY <1>2 DEF StoresSteps
<1> DEFINE S == {q \in 0..L : run[q] \in Kept(m0, body)}
<1>4. 0 \in S
  BY <1>1, <1>3
<1>5. ASSUME NEW q \in 0..(L - 1), q \in S PROVE q + 1 \in S
  <2>1. q + 1 \in 1..L /\ q + 1 - 1 = q
    BY <1>1
  <2>2. run[q + 1] = AfterStore(run[q], e, lp.body[q + 1])
    BY <1>3, <2>1
  <2>3. StoredIn(body, lp.body[q + 1].arr) /\ lp.body[q + 1] \in Stores
    BY <1>1, <2>1 DEF StoresThere
  <2>4. Indexed(lp.body[q + 1], n, j)
    BY <1>1, <2>1 DEF Indexed, GoesAlong
  <2>5. run[q + 1] \in Kept(m0, body)
    BY <1>5, <2>2, <2>3, <2>4, StoreKept
  <2> QED
    BY <1>1, <2>1, <2>5
<1>6. L \in S
  <2> HIDE DEF S
  <2>1. 0..L \subseteq S
    BY <1>1, <1>4, <1>5, SetInduction
  <2> QED
    BY <1>1, <2>1
<1> QED
  BY <1>3, <1>6

(* So does an inner loop that stays in the arrays. *)
LEMMA LoopKept ==
  ASSUME NEW m0, NEW body, NEW lp \in Loops, StoresThere(body, lp), NEW m \in Kept(m0, body),
         NEW n \in 1..MaxN, NEW i \in 0..(n - 1), StaysInside(lp, n)
  PROVE  AfterLoop(m, Iteration(n, i), lp) \in Kept(m0, body)
<1> DEFINE e == Iteration(n, i)
<1>1. n \in Int /\ i \in Int
  OBVIOUS
<1>2. PICK L \in Nat : DOMAIN Counters(lp, e) = 1..L /\ \A c \in 1..L : Counters(lp, e)[c] \in Int
  BY <1>1, CountersType
<1>3. PICK run : LoopSteps(run, m, e, lp, L)
  BY <1>2, LoopTrace
<1>4. /\ run[0] = m /\ AfterLoop(m, e, lp) = run[L]
      /\ \A q \in 1..L : run[q] = AfterStores(run[q - 1], Within(e, Counters(lp, e)[q]), lp.body)
  BY <1>3 DEF LoopSteps
<1> DEFINE S == {q \in 0..L : run[q] \in Kept(m0, body)}
<1>5. 0 \in S
  BY <1>4
<1>6. ASSUME NEW q \in 0..(L - 1), q \in S PROVE q + 1 \in S
  <2> DEFINE j == Counters(lp, e)[q + 1]
  <2>1. q + 1 \in 1..L /\ q + 1 - 1 = q
    OBVIOUS
  <2>2. run[q + 1] = AfterStores(run[q], Within(e, j), lp.body)
    BY <1>4, <2>1
  <2>3. Within(e, j) = Inside(n, i, j)
    BY InsideIs
  <2>4. j \in Int /\ (GoesAlong(lp) => j \in 0..(n - 1))
    BY <1>2, <2>1 DEF StaysInside
  <2> HIDE DEF j, e
  <2>5. run[q + 1] \in Kept(m0, body)
    BY <1>6, <2>2, <2>3, <2>4, StoresKept
  <2> QED
    BY <2>1, <2>5
<1>7. L \in S
  <2> HIDE DEF S
  <2>1. 0..L \subseteq S
    BY <1>5, <1>6, SetInduction
  <2> QED
    BY <2>1
<1> QED
  BY <1>4, <1>7

(* A body of a program whose loops stay in the arrays. *)
InArrays(body, n) == body \in Sources /\ \A p \in LoopsAt(body) : StaysInside(body[p], n)

(* The items of a program are outer stores and bounded loops. *)
LEMMA SourceItems ==
  ASSUME NEW body \in Sources
  PROVE  /\ body \in Nests /\ DOMAIN body = 1..Len(body) /\ Len(body) \in Nat
         /\ \A p \in DOMAIN body : \/ p \in StoresAt(body) /\ OuterStore(body[p])
                                   \/ /\ p \in LoopsAt(body) /\ body[p] \in Loops /\ Bounded(body[p])
                                      /\ \A q \in DOMAIN body[p].body : PlacedStore(body[p].body[q])
<1>1. body \in Seq(Stores \cup Loops)
  BY DEF Sources
<1>2. body \in Nests /\ DOMAIN body = 1..Len(body) /\ Len(body) \in Nat
  BY <1>1 DEF Nests
<1>3. \A p \in DOMAIN body : body[p] \in Stores \cup Loops
  BY <1>1
<1>4. \A x \in Stores : x.kind = "store"
  BY DEF Stores
<1>5. \A x \in Loops : x.kind = "loop"
  BY DEF Loops
<1>6. \A p \in DOMAIN body : \/ body[p] \in Stores /\ p \in StoresAt(body)
                             \/ body[p] \in Loops /\ p \in LoopsAt(body)
  BY <1>3, <1>4, <1>5 DEF StoresAt, LoopsAt
<1>7. \A p \in StoresAt(body) :
        PlacedStore(body[p]) /\ body[p].idx # "inner" /\ Outside(body[p].l) /\ Outside(body[p].r)
  BY DEF Sources
<1>8. \A p \in LoopsAt(body) : /\ body[p].init.j = 0 /\ body[p].exit.j = 0
                               /\ \A q \in DOMAIN body[p].body : PlacedStore(body[p].body[q])
  BY DEF Sources
<1> QED
  BY <1>2, <1>6, <1>7, <1>8 DEF OuterStore, Bounded

(* An item of a body leaves what the body does not store. *)
LEMMA ItemKept ==
  ASSUME NEW m0, NEW n \in 1..MaxN, NEW body, InArrays(body, n), NEW i \in 0..(n - 1),
         NEW p \in DOMAIN body, NEW m \in Kept(m0, body)
  PROVE  AfterItem(m, Iteration(n, i), body[p]) \in Kept(m0, body)
<1> DEFINE e == Iteration(n, i)
<1>1. \/ p \in StoresAt(body) /\ OuterStore(body[p])
      \/ p \in LoopsAt(body) /\ body[p] \in Loops
  BY SourceItems DEF InArrays
<1>2. CASE p \in StoresAt(body) /\ OuterStore(body[p])
  <2>1. body[p].kind = "store" /\ body[p] \in Stores
    BY <1>2 DEF StoresAt, OuterStore
  <2>2. StoredIn(body, body[p].arr)
    BY <2>1 DEF StoredIn, StoredBy
  <2>3. Indexed(body[p], n, 0)
    BY <1>2 DEF OuterStore, Outside, Indexed, AtInner
  <2>4. AfterStore(m, Inside(n, i, 0), body[p]) \in Kept(m0, body)
    BY <2>1, <2>2, <2>3, StoreKept
  <2>5. AfterItem(m, e, body[p]) = AfterStore(m, e, body[p])
    BY <2>1 DEF AfterItem
  <2> QED
    BY <2>4, <2>5, InsideIs
<1>3. CASE p \in LoopsAt(body) /\ body[p] \in Loops
  <2>1. body[p].kind = "loop"
    BY <1>3 DEF LoopsAt
  <2>2. StoresThere(body, body[p])
    BY <2>1 DEF StoresThere, StoredIn, StoredBy
  <2>3. StaysInside(body[p], n)
    BY <1>3 DEF InArrays
  <2>4. AfterLoop(m, Iteration(n, i), body[p]) \in Kept(m0, body)
    BY <1>3, <2>2, <2>3, LoopKept
  <2>5. AfterItem(m, e, body[p]) = AfterLoop(m, e, body[p])
    BY <2>1 DEF AfterItem
  <2> QED
    BY <2>4, <2>5
<1> QED
  BY <1>1, <1>2, <1>3

(* A nest leaves what its body does not store. *)
LEMMA NestKept ==
  ASSUME NEW n \in 1..MaxN, NEW body, InArrays(body, n), NEW m \in Memories
  PROVE  AfterNest(m, n, body) \in Kept(m, body)
<1> DEFINE G == Kept(m, body)
           L == Len(body)
<1>1. m \in G /\ n \in Nat
  BY CellsAre DEF Kept
<1>2. DOMAIN body = 1..L /\ L \in Nat
  BY SourceItems DEF InArrays
<1>3. \A i \in 0..(n - 1) : \A w \in G : \A p \in 1..L : AfterItem(w, Iteration(n, i), body[p]) \in G
  <2> HIDE DEF L
  <2> QED
    BY <1>2, ItemKept
<1> HIDE DEF G, L
<1>4. SameThere(G, n, L, 1, body, body)
  BY <1>2, <1>3 DEF SameThere
<1>5. Alike(G, n, body, body)
  BY <1>1, <1>2, <1>4, SameBodies
<1>6. AfterNest(m, n, body) \in G /\ AfterNest(m, n, body) = AfterNest(m, n, body)
  BY <1>1, <1>5, AlikeNests
<1> QED
  BY <1>6 DEF G

-----------------------------------------------------------------------------
(***************************************************************************)
(* What Uniform says of an array is so when the nest is run.               *)
(***************************************************************************)
LEMMA OneIsSource ==
  ASSUME NEW n, NEW body, InArrays(body, n), NEW p \in DOMAIN body
  PROVE  InArrays(<<body[p]>>, n)
<1> DEFINE x == body[p]
           one == <<x>>
<1>1. body \in Seq(Stores \cup Loops) /\ x \in Stores \cup Loops
  BY DEF InArrays, Sources
<1>2. one \in Seq(Stores \cup Loops) /\ DOMAIN one = {1} /\ one[1] = x
  <2> HIDE DEF x
  <2> QED
    BY <1>1
<1>3. /\ p \in StoresAt(body) => PlacedStore(x) /\ x.idx # "inner" /\ Outside(x.l) /\ Outside(x.r)
      /\ p \in LoopsAt(body) => /\ x.init.j = 0 /\ x.exit.j = 0 /\ StaysInside(x, n)
                                /\ \A q \in DOMAIN x.body : PlacedStore(x.body[q])
  BY DEF InArrays, Sources
<1>4. x.kind = "store" => p \in StoresAt(body)
  BY DEF StoresAt
<1>5. x.kind = "loop" => p \in LoopsAt(body)
  BY DEF LoopsAt
<1> HIDE DEF x, one
<1>6. \A q \in StoresAt(one) : q = 1 /\ x.kind = "store"
  BY <1>2 DEF StoresAt
<1>7. \A q \in LoopsAt(one) : q = 1 /\ x.kind = "loop"
  BY <1>2 DEF LoopsAt
<1>8. \A q \in StoresAt(one) : PlacedStore(one[q]) /\ one[q].idx # "inner" /\ Outside(one[q].l) /\ Outside(one[q].r)
  BY <1>2, <1>3, <1>4, <1>6
<1>9. \A q \in LoopsAt(one) : /\ one[q].init.j = 0 /\ one[q].exit.j = 0 /\ StaysInside(one[q], n)
                              /\ \A r \in DOMAIN one[q].body : PlacedStore(one[q].body[r])
  BY <1>2, <1>3, <1>5, <1>7
<1>10. one \in Sources
  BY <1>2, <1>8, <1>9 DEF Sources
<1> QED
  BY <1>9, <1>10 DEF InArrays, one, x

(* An item that does not store an array leaves it. *)
LEMMA ItemLeaves ==
  ASSUME NEW n \in 1..MaxN, NEW body, InArrays(body, n), NEW i \in 0..(n - 1),
         NEW p \in DOMAIN body, NEW m \in Memories, NEW b \in Arrays
  PROVE  /\ AfterItem(m, Iteration(n, i), body[p]) \in Memories
         /\ ~StoredBy(body[p], b) => AfterItem(m, Iteration(n, i), body[p])[b] = m[b]
<1> DEFINE one == <<body[p]>>
<1>1. InArrays(one, n)
  BY OneIsSource
<1>2. 1 \in DOMAIN one /\ one[1] = body[p] /\ \A q \in DOMAIN one : q = 1
  OBVIOUS
<1>3. m \in Kept(m, one)
  BY DEF Kept
<1> HIDE DEF one
<1>4. AfterItem(m, Iteration(n, i), one[1]) \in Kept(m, one)
  BY <1>1, <1>2, <1>3, ItemKept
<1>5. ~StoredBy(body[p], b) => ~StoredIn(one, b)
  BY <1>2 DEF StoredIn
<1> QED
  BY <1>2, <1>4, <1>5 DEF Kept

(* The store that gives every element of b one value. *)
Filling(st, b) ==
  /\ st \in Stores /\ OuterStore(st) /\ st.arr = b /\ st.op = "none" /\ ~st.guarded /\ st.idx = "outer"
  /\ st.l.kind = "term" /\ st.l.term.i = 0

FillValue(st, n) == ValueOf(st.l.term, Iteration(n, 0))

(* A store that fills an array gives each element the same value. *)
LEMMA FillingDoes ==
  ASSUME NEW st, NEW b, Filling(st, b), NEW n \in 1..MaxN, NEW i \in 0..(n - 1), NEW m
  PROVE  AfterItem(m, Iteration(n, i), st) = Assigned(m, b, i, FillValue(st, n)) /\ FillValue(st, n) \in Int
<1> DEFINE e == Iteration(n, i)
           t == st.l.term
<1>1. st.kind = "store" /\ t \in Terms /\ t.i = 0 /\ t.j = 0 /\ n \in Int /\ i \in Int
  BY StoreFields DEF Filling, Stores, Operands, OuterStore, Outside
<1>2. AfterItem(m, e, st) = Assigned(m, st.arr, At(st.idx, e), Apply(st.op, Read(m, e, st.l), Read(m, e, st.r)))
  BY <1>1 DEF AfterItem, AfterStore, Filling
<1>3. At(st.idx, e) = i
  BY InsideIs, Indexing DEF Filling
<1>4. Apply(st.op, Read(m, e, st.l), Read(m, e, st.r)) = ValueOf(t, e)
  BY DEF Apply, Filling, Read
<1>5. ValueOf(t, Inside(n, i, 0)) = t.c + t.n * n /\ ValueOf(t, Inside(n, 0, 0)) = t.c + t.n * n /\ t.c + t.n * n \in Int
  <2>1. t \in Terms /\ t.i = 0 /\ t.j = 0 /\ n \in Int /\ i \in Int /\ 0 \in Int
    BY <1>1
  <2> HIDE DEF t
  <2>2. \A x \in Int : ValueOf(t, Inside(n, x, 0)) = t.c + t.n * n /\ t.c + t.n * n \in Int
    BY <2>1, SteadyTerm
  <2> QED
    BY <2>1, <2>2
<1>6. ValueOf(t, e) = FillValue(st, n) /\ FillValue(st, n) \in Int
  BY <1>5, InsideIs DEF FillValue
<1> QED
  BY <1>2, <1>3, <1>4, <1>6 DEF Filling

(* The one item of a nest that stores b. *)
FilledAt(body, p, b) ==
  p \in DOMAIN body /\ Filling(body[p], b) /\ \A q \in DOMAIN body \ {p} : ~StoredBy(body[q], b)

(* A body fills the element of the iteration and leaves the others. *)
LEMMA BodyFills ==
  ASSUME NEW n \in 1..MaxN, NEW body, InArrays(body, n), NEW i \in 0..(n - 1), NEW b \in Arrays,
         NEW p, FilledAt(body, p, b), NEW m \in Memories
  PROVE  LET w == AfterBody(m, Iteration(n, i), body) IN
         w \in Memories /\ w[b][i] = FillValue(body[p], n) /\ \A x \in Cells \ {i} : w[b][x] = m[b][x]
<1> DEFINE e == Iteration(n, i)
           v == FillValue(body[p], n)
           L == Len(body)
<1>1. DOMAIN body = 1..L /\ L \in Nat
  BY SourceItems DEF InArrays
<1> HIDE DEF L, v
<1>2. PICK run : BodySteps(run, m, e, body, L)
  BY <1>1, BodyTrace
<1>3. /\ run[0] = m /\ AfterBody(m, e, body) = run[L]
      /\ \A q \in 1..L : run[q] = AfterItem(run[q - 1], e, body[q])
  BY <1>2 DEF BodySteps
<1>4. p \in 1..L /\ Filling(body[p], b) /\ \A q \in (1..L) \ {p} : ~StoredBy(body[q], b)
  BY <1>1 DEF FilledAt
<1> DEFINE S == {q \in 0..L : /\ run[q] \in Memories /\ (q >= p => run[q][b][i] = v)
                              /\ \A x \in Cells \ {i} : run[q][b][x] = m[b][x]}
<1>5. 0 \in S
  BY <1>1, <1>3, <1>4
<1>6. ASSUME NEW q \in 0..(L - 1), q \in S PROVE q + 1 \in S
  <2>0. q + 1 \in 1..L /\ q + 1 - 1 = q /\ q + 1 \in 0..L /\ p \in Int
    BY <1>1, <1>4
  <2>1. /\ run[q] \in Memories /\ (q >= p => run[q][b][i] = v)
        /\ \A x \in Cells \ {i} : run[q][b][x] = m[b][x]
    BY <1>6
  <2>2. run[q + 1] = AfterItem(run[q], e, body[q + 1])
    BY <1>3, <2>0
  <2>3. CASE q + 1 = p
    <3>1. run[q + 1] = Assigned(run[q], b, i, v) /\ v \in Int
      BY <1>4, <2>2, <2>3, FillingDoes DEF v
    <3>2. i \in Cells
      BY CellsAre
    <3>3. /\ run[q + 1] \in Memories /\ run[q + 1][b][i] = v
          /\ \A x \in Cells \ {i} : run[q + 1][b][x] = run[q][b][x]
      BY <2>1, <3>1, <3>2, AssignedIs
    <3> QED
      BY <2>0, <2>1, <3>3
  <2>4. CASE q + 1 # p
    <3>1. ~StoredBy(body[q + 1], b) /\ q + 1 \in DOMAIN body
      BY <1>1, <1>4, <2>0, <2>4
    <3>2. run[q + 1] \in Memories /\ run[q + 1][b] = run[q][b]
      BY <2>1, <2>2, <3>1, ItemLeaves
    <3>3. q + 1 >= p => q >= p
      BY <2>0, <2>4
    <3> QED
      BY <2>0, <2>1, <3>2, <3>3
  <2> QED
    BY <2>3, <2>4
<1>7. L \in S
  <2> HIDE DEF S
  <2>1. 0..L \subseteq S
    BY <1>1, <1>5, <1>6, SetInduction
  <2> QED
    BY <1>1, <2>1
<1> QED
  BY <1>3, <1>4, <1>7 DEF v

(* After a nest that fills an array all its elements are equal. *)
LEMMA NestFills ==
  ASSUME NEW n \in 1..MaxN, NEW body, InArrays(body, n), NEW b \in Arrays,
         NEW p, FilledAt(body, p, b), NEW m \in Memories
  PROVE  Even(AfterNest(m, n, body), b, n)
<1> DEFINE v == FillValue(body[p], n)
<1>1. n \in Nat /\ n >= 1
  BY CellsAre
<1>2. PICK run : NestSteps(run, m, n, body)
  BY <1>1, NestTrace
<1>3. /\ run[0] = m /\ AfterNest(m, n, body) = run[n]
      /\ \A t \in 1..n : run[t] = AfterBody(run[t - 1], Iteration(n, t - 1), body)
  BY <1>2 DEF NestSteps
<1> HIDE DEF v
<1> DEFINE S == {t \in 0..n : run[t] \in Memories /\ \A x \in 0..(t - 1) : run[t][b][x] = v}
<1>4. 0 \in S
  BY <1>1, <1>3
<1>5. ASSUME NEW t \in 0..(n - 1), t \in S PROVE t + 1 \in S
  <2>0. t + 1 \in 1..n /\ t + 1 - 1 = t /\ t + 1 \in 0..n
    BY <1>1
  <2>1. run[t] \in Memories /\ \A x \in 0..(t - 1) : run[t][b][x] = v
    BY <1>5
  <2>2. run[t + 1] = AfterBody(run[t], Iteration(n, t), body)
    BY <1>3, <2>0
  <2>3. run[t + 1] \in Memories /\ run[t + 1][b][t] = v /\ \A x \in Cells \ {t} : run[t + 1][b][x] = run[t][b][x]
    BY <2>1, <2>2, BodyFills DEF v
  <2>4. \A x \in 0..t : x # t => x \in 0..(t - 1) /\ x \in Cells
    <3>1. 0..(n - 1) \subseteq Cells
      BY CellsAre
    <3> QED
      BY <1>1, <3>1
  <2>5. \A x \in 0..t : run[t + 1][b][x] = v
    BY <2>1, <2>3, <2>4
  <2> QED
    BY <2>0, <2>3, <2>5
<1>6. n \in S
  <2> HIDE DEF S
  <2>1. 0..n \subseteq S
    BY <1>1, <1>4, <1>5, SetInduction
  <2> QED
    BY <1>1, <2>1
<1>7. \A x \in 0..(n - 1) : run[n][b][x] = v
  BY <1>6
<1>8. 0 \in 0..(n - 1)
  BY <1>1
<1> QED
  BY <1>3, <1>7, <1>8 DEF Even

(* The function given, whose loops stay in the arrays. *)
ProgramInArrays(n) == prog \in Seq(Sources) /\ \A k \in DOMAIN prog : InArrays(prog[k], n)

(* Loop t fills b, and no other one up to loop k stores it. *)
FilledIn(t, k, b) ==
  (\E p : FilledAt(prog[t], p, b)) /\ \A s \in (1..k) \ {t} : ~StoredIn(prog[s], b)

(* A uniform array is filled in one earlier nest and stored nowhere else. *)
LEMMA UniformMeans ==
  ASSUME NEW n, ProgramInArrays(n), NEW k \in 1..Len(prog), NEW b, Uniform(b, k)
  PROVE  \E t \in 1..(k - 1) : FilledIn(t, k, b)
<1>1. PICK q \in Writers(b, k) :
        LET st == prog[q[1]][q[2]] IN
          /\ Writers(b, k) = {q} /\ q[1] < k /\ st.kind = "store"
          /\ st.op = "none" /\ ~st.guarded /\ st.idx = "outer"
          /\ st.l.kind = "term" /\ st.l.term.i = 0
  BY DEF Uniform
<1> DEFINE t == q[1]
           p == q[2]
<1>2. t \in 1..k /\ p \in DOMAIN prog[t] /\ q = <<t, p>>
  BY DEF Writers
<1>3. q[1] = t /\ q[2] = p
  OBVIOUS
<1> HIDE DEF t, p
<1>4. /\ Writers(b, k) = {<<t, p>>} /\ t < k /\ prog[t][p].kind = "store"
      /\ prog[t][p].op = "none" /\ ~prog[t][p].guarded /\ prog[t][p].idx = "outer"
      /\ prog[t][p].l.kind = "term" /\ prog[t][p].l.term.i = 0
  BY <1>1, <1>2, <1>3
<1>5. StoredBy(prog[t][p], b)
  BY <1>2, <1>3 DEF Writers
<1>6. ASSUME NEW s \in 1..k, NEW r \in DOMAIN prog[s], StoredBy(prog[s][r], b) PROVE s = t /\ r = p
  <2>1. <<s, r>> \in UNION {{u} \X DOMAIN prog[u] : u \in 1..k}
    OBVIOUS
  <2>2. <<s, r>> \in Writers(b, k)
    BY <1>6, <2>1 DEF Writers
  <2> QED
    BY <1>4, <2>2
<1>7. t \in DOMAIN prog /\ prog[t] \in Sources
  BY <1>2 DEF ProgramInArrays
<1>8. p \notin LoopsAt(prog[t])
  BY <1>4 DEF LoopsAt
<1>9. OuterStore(prog[t][p])
  BY <1>2, <1>7, <1>8, SourceItems
<1>10. prog[t][p].arr = b
  BY <1>4, <1>5 DEF StoredBy
<1>11. Filling(prog[t][p], b)
  BY <1>4, <1>9, <1>10 DEF Filling, OuterStore
<1>12. FilledAt(prog[t], p, b)
  BY <1>2, <1>6, <1>11 DEF FilledAt
<1>13. \A s \in (1..k) \ {t} : ~StoredIn(prog[s], b)
  BY <1>6 DEF StoredIn
<1>14. t \in 1..(k - 1)
  BY <1>2, <1>4
<1> QED
  BY <1>12, <1>13, <1>14 DEF FilledIn

(* A run stays in the memories, and a nest leaves what it does not store. *)
LEMMA RunInMemories ==
  ASSUME NEW n \in 1..MaxN, ProgramInArrays(n), NEW m \in Memories, NEW run, RunSteps(run, m, n, prog, Len(prog))
  PROVE  /\ \A t \in 0..Len(prog) : run[t] \in Memories
         /\ \A t \in 1..Len(prog) : \A b \in Arrays : ~StoredIn(prog[t], b) => run[t][b] = run[t - 1][b]
<1> DEFINE L == Len(prog)
<1>1. L \in Nat /\ \A t \in 1..L : InArrays(prog[t], n)
  BY DEF ProgramInArrays
<1>2. run[0] = m /\ \A t \in 1..L : run[t] = AfterNest(run[t - 1], n, prog[t])
  BY DEF RunSteps
<1> HIDE DEF L
<1>3. ASSUME NEW t \in 1..L, run[t - 1] \in Memories PROVE run[t] \in Kept(run[t - 1], prog[t])
  BY <1>1, <1>2, <1>3, NestKept
<1> DEFINE S == {t \in 0..L : run[t] \in Memories}
<1>4. 0 \in S
  BY <1>1, <1>2
<1>5. ASSUME NEW t \in 0..(L - 1), t \in S PROVE t + 1 \in S
  <2>1. t + 1 \in 1..L /\ t + 1 - 1 = t /\ t + 1 \in 0..L
    BY <1>1
  <2>2. run[t + 1] \in Kept(run[t], prog[t + 1])
    BY <1>3, <1>5, <2>1
  <2> QED
    BY <2>1, <2>2 DEF Kept
<1>6. \A t \in 0..L : run[t] \in Memories
  <2> HIDE DEF S
  <2>1. 0..L \subseteq S
    BY <1>1, <1>4, <1>5, SetInduction
  <2> QED
    BY <2>1 DEF S
<1>7. ASSUME NEW t \in 1..L, NEW b \in Arrays, ~StoredIn(prog[t], b) PROVE run[t][b] = run[t - 1][b]
  <2>1. t - 1 \in 0..L
    BY <1>1
  <2>2. run[t] \in Kept(run[t - 1], prog[t])
    BY <1>3, <1>6, <2>1
  <2> QED
    BY <1>7, <2>2 DEF Kept
<1> QED
  BY <1>6, <1>7 DEF L

(* Before nest k the elements of what is uniform there are equal. *)
LEMMA UniformIsEven ==
  ASSUME NEW n \in 1..MaxN, ProgramInArrays(n), NEW m \in Memories, NEW run, RunSteps(run, m, n, prog, Len(prog)),
         NEW k \in 1..Len(prog)
  PROVE  AllEven(run[k - 1], k, n)
<1> SUFFICES ASSUME NEW b \in Arrays, Uniform(b, k) PROVE Even(run[k - 1], b, n)
  BY DEF AllEven
<1> DEFINE L == Len(prog)
<1>1. L \in Nat /\ \A t \in 1..L : InArrays(prog[t], n)
  BY DEF ProgramInArrays
<1>2. \A t \in 1..L : run[t] = AfterNest(run[t - 1], n, prog[t])
  BY DEF RunSteps
<1>3. /\ \A t \in 0..L : run[t] \in Memories
      /\ \A t \in 1..L : \A c \in Arrays : ~StoredIn(prog[t], c) => run[t][c] = run[t - 1][c]
  BY RunInMemories
<1>4. PICK t \in 1..(k - 1) : FilledIn(t, k, b)
  BY UniformMeans
<1> HIDE DEF L
<1>0. k \in 1..L
  BY DEF L
<1>5. t \in 1..L /\ t - 1 \in 0..L /\ k - 1 \in Nat /\ t \in 0..(k - 1)
  BY <1>0, <1>1
<1>6. PICK p : FilledAt(prog[t], p, b)
  BY <1>4 DEF FilledIn
<1>7. Even(run[t], b, n)
  <2>1. run[t - 1] \in Memories /\ InArrays(prog[t], n)
    BY <1>1, <1>3, <1>5
  <2>2. Even(AfterNest(run[t - 1], n, prog[t]), b, n)
    BY <1>6, <2>1, NestFills
  <2> QED
    BY <1>2, <1>5, <2>2
<1> DEFINE S == {s \in 0..(k - 1) : s >= t => Even(run[s], b, n)}
<1>8. 0 \in S
  BY <1>5
<1>9. ASSUME NEW s \in 0..(k - 1 - 1), s \in S PROVE s + 1 \in S
  <2>1. s + 1 \in 0..(k - 1) /\ s + 1 \in 1..L /\ s + 1 \in 1..k /\ s + 1 - 1 = s
    BY <1>0, <1>1, <1>5
  <2>2. CASE s + 1 = t
    BY <1>7, <2>1, <2>2
  <2>3. CASE s + 1 # t
    <3>1. run[s + 1][b] = run[s][b]
      BY <1>3, <1>4, <2>1, <2>3 DEF FilledIn
    <3>2. s + 1 >= t => s >= t
      BY <2>3
    <3> QED
      BY <1>9, <2>1, <3>1, <3>2 DEF Even
  <2> QED
    BY <2>2, <2>3
<1>10. k - 1 \in S
  <2> HIDE DEF S
  <2>1. 0..(k - 1) \subseteq S
    BY <1>5, <1>8, <1>9, SetInduction
  <2> QED
    BY <1>5, <2>1
<1> QED
  BY <1>5, <1>10

(* What is uniform depends on the function given only. *)
LEMMA UniformStays ==
  ASSUME NEW a, NEW k, prog' = prog
  PROVE  Uniform(a, k)' <=> Uniform(a, k)
BY DEF Uniform, Writers

(* So do the gaps. *)
LEMMA GapsStay ==
  ASSUME NEW k, NEW lp, NEW st, NEW ls, prog' = prog
  PROVE  GapsAt(k, lp, st, ls)' = GapsAt(k, lp, st, ls)
<1>1. \A a : Uniform(a, k)' <=> Uniform(a, k)
  BY UniformStays
<1> QED
  BY <1>1 DEF GapsAt

(* So does what the pass may replace. *)
LEMMA ReplacesStays ==
  ASSUME NEW k, NEW lp, NEW st, NEW ls, prog' = prog
  PROVE  Replaces(k, lp, st, ls)' <=> Replaces(k, lp, st, ls)
<1>1. GapsAt(k, lp, st, ls)' = GapsAt(k, lp, st, ls)
  BY GapsStay
<1> QED
  BY <1>1 DEF Replaces

-----------------------------------------------------------------------------
(***************************************************************************)
(* What the pass makes of a body with one outer store.                     *)
(***************************************************************************)
LEMMA FirstIsOnly ==
  ASSUME NEW body \in Nests, OnlyArray(body), NEW st \in FirstStores(body), NEW ls \in FirstStores(body)
  PROVE  st = ls
<1>1. PICK p \in StoresAt(body) : body[p] = st /\ \A r \in StoresAt(body) : r < p => body[r].arr # st.arr
  BY DEF FirstStores
<1>2. PICK q \in StoresAt(body) : body[q] = ls /\ \A r \in StoresAt(body) : r < q => body[r].arr # ls.arr
  BY DEF FirstStores
<1>3. body[p].arr = body[q].arr /\ p \in Int /\ q \in Int
  BY DEF OnlyArray, StoresAt, Nests
<1> QED
  BY <1>1, <1>2, <1>3

(* A body with one array and one store of it has the store at one place. *)
LEMMA OneStoreAt ==
  ASSUME NEW body \in Nests, OnlyArray(body), NEW ls \in FirstStores(body), OnlyStore(ls, body),
         NEW p \in StoresAt(body), NEW q \in StoresAt(body)
  PROVE  p = q
<1> SUFFICES ASSUME p # q PROVE FALSE
  OBVIOUS
<1> DEFINE S == {r \in StoresAt(body) : body[r].arr = ls.arr}
<1>1. p \in S /\ q \in S
  BY DEF FirstStores, OnlyArray
<1>2. S \subseteq 1..Len(body) /\ Len(body) \in Nat
  BY DEF StoresAt, Nests
<1>3. Cardinality(S) = 1
  BY DEF OnlyStore
<1> HIDE DEF S
<1>4. IsFiniteSet(S)
  <2>1. IsFiniteSet(1..Len(body))
    BY <1>2, FS_Interval
  <2> QED
    BY <1>2, <2>1, FS_Subset
<1>5. IsFiniteSet({p}) /\ Cardinality({p}) = 1
  BY FS_Singleton
<1>6. Cardinality({p} \cup {q}) = 2
  <2>1. q \notin {p} /\ IsFiniteSet({p})
    BY <1>5
  <2> DEFINE P == {p}
  <2> HIDE DEF P
  <2>2. Cardinality(P \cup {q}) = Cardinality(P) + 1
    BY <2>1, FS_AddElement DEF P
  <2> QED
    BY <1>5, <2>2 DEF P
<1>7. Cardinality({p} \cup {q}) <= Cardinality(S)
  <2>1. {p} \cup {q} \subseteq S
    BY <1>1
  <2> QED
    BY <1>4, <2>1, FS_Subset
<1> QED
  BY <1>3, <1>6, <1>7

(* When no inner loop is left, there were one loop and one store. *)
LEMMA ReplacedIs ==
  ASSUME NEW body \in Seq(Stores \cup Loops), NEW p \in LoopsAt(body), NEW ls \in FirstStores(body),
         OnlyArray(body), OnlyStore(ls, body), NEW cf \in ClosedForms,
         LoopsAt(Replaced(body, body[p], ls, cf)) = {}
  PROVE  /\ Replaced(body, body[p], ls, cf) = <<cf>>
         /\ \E q \in {1, 2} : DOMAIN body = 1..2 /\ body[q] = body[p] /\ body[3 - q] = ls
<1> DEFINE lp == body[p]
           L == Len(body)
           ps == Place(body, ls)
           B == ReplaceAt(body, ps, cf)
           pl == Place(B, lp)
           R == RemoveFirst(B, lp)
<1>1. body \in Nests /\ L \in Nat /\ DOMAIN body = 1..L
  BY DEF Nests
<1>2. ls # None /\ \E r \in DOMAIN body : body[r] = ls /\ r \in StoresAt(body)
  <2>1. FirstStores(body) \subseteq Stores
    BY <1>1, FirstStoresType
  <2> QED
    BY <2>1, StoreFields DEF FirstStores, StoresAt
<1>3. ps \in 1..L /\ body[ps] = ls /\ ps \in StoresAt(body)
  <2>1. ps \in DOMAIN body /\ body[ps] = ls
    BY <1>1, <1>2, PlaceIs
  <2> HIDE DEF ps
  <2> QED
    BY <1>1, <1>2, <2>1 DEF StoresAt
<1> HIDE DEF ps
<1>4. B \in Nests /\ DOMAIN B = 1..L /\ Len(B) = L /\ B[ps] = cf /\ \A x \in (1..L) \ {ps} : B[x] = body[x]
  <2>1. B \in Nests
    BY <1>1, <1>3, PutAt
  <2>2. B = [body EXCEPT ![ps] = cf]
    BY DEF ReplaceAt
  <2>3. DOMAIN B = 1..L /\ B[ps] = cf /\ \A x \in (1..L) \ {ps} : B[x] = body[x]
    BY <1>1, <1>3, <2>2
  <2>4. Len(B) = L
    BY <1>1, <2>1, <2>3 DEF Nests
  <2> QED
    BY <2>1, <2>3, <2>4
<1>5. p \in 1..L /\ lp.kind = "loop" /\ p # ps
  BY <1>1, <1>3 DEF LoopsAt, StoresAt
<1>6. p \in DOMAIN B /\ B[p] = lp
  BY <1>4, <1>5
<1>7. R = Replaced(body, lp, ls, cf)
  BY <1>2 DEF Replaced, ps
<1> HIDE DEF B
<1>8. /\ pl \in 1..L /\ B[pl] = lp /\ R \in Nests /\ Len(R) = L - 1
      /\ \A x \in 1..(pl - 1) : R[x] = B[x]
      /\ \A x \in (pl + 1)..L : R[x - 1] = B[x]
  <2>1. /\ Place(B, lp) \in 1..Len(B) /\ B[Place(B, lp)] = lp
        /\ Without(B, Place(B, lp), RemoveFirst(B, lp))
    <3> HIDE DEF lp
    <3> QED
      BY <1>4, <1>6, TakenIs
  <2> HIDE DEF L, lp
  <2> QED
    BY <1>4, <2>1 DEF Without
<1> HIDE DEF pl, R
<1>9. LoopsAt(R) = {} /\ DOMAIN R = 1..(L - 1)
  BY <1>7, <1>8 DEF Nests
<1>10. ASSUME NEW x \in 1..L, x # pl PROVE B[x].kind # "loop"
  <2>1. CASE x < pl
    <3>1. x \in 1..(pl - 1) /\ x \in DOMAIN R
      BY <1>1, <1>8, <1>9, <2>1
    <3> QED
      BY <1>8, <1>9, <3>1 DEF LoopsAt
  <2>2. CASE ~(x < pl)
    <3>1. x \in (pl + 1)..L /\ x - 1 \in DOMAIN R
      BY <1>1, <1>8, <1>9, <1>10, <2>2
    <3> QED
      BY <1>8, <1>9, <3>1 DEF LoopsAt
  <2> QED
    BY <2>1, <2>2
<1>11. ps # pl
  BY <1>4, <1>5, <1>8 DEF ClosedForms
<1>12. ASSUME NEW x \in 1..L, x # pl PROVE x = ps
  <2> SUFFICES ASSUME x # ps PROVE FALSE
    OBVIOUS
  <2>1. body[x].kind # "loop" /\ body[x] \in Stores \cup Loops
    BY <1>1, <1>4, <1>10, <1>12
  <2>2. body[x].kind = "store"
    BY <2>1 DEF Stores, Loops
  <2>3. x \in StoresAt(body)
    BY <1>1, <2>2 DEF StoresAt
  <2> QED
    BY <1>1, <1>3, <2>3, OneStoreAt
<1>13. L = 2 /\ {pl, ps} = {1, 2}
  <2>1. 1 \in 1..L
    BY <1>1, <1>3
  <2>2. 2 \in 1..L
    BY <1>1, <1>3, <1>8, <1>11
  <2>3. 3 \notin 1..L
    <3> SUFFICES ASSUME 3 \in 1..L PROVE FALSE
      OBVIOUS
    <3>1. \A x \in 1..L : x = pl \/ x = ps
      BY <1>12
    <3>2. (1 = pl \/ 1 = ps) /\ (2 = pl \/ 2 = ps) /\ (3 = pl \/ 3 = ps)
      BY <2>1, <2>2, <3>1
    <3> QED
      BY <3>2
  <2>4. \A x \in 1..L : x = pl \/ x = ps
    BY <1>12
  <2> QED
    BY <1>1, <1>3, <1>8, <1>11, <2>1, <2>2, <2>3, <2>4
<1>14. R = <<cf>>
  <2>1. R[1] = cf
    <3>1. CASE pl = 1
      <4>1. 2 \in (pl + 1)..L /\ ps = 2 /\ 2 - 1 = 1
        BY <1>11, <1>13, <3>1
      <4> QED
        BY <1>4, <1>8, <4>1
    <3>2. CASE pl = 2
      <4>1. 1 \in 1..(pl - 1) /\ ps = 1
        BY <1>11, <1>13, <3>2
      <4> QED
        BY <1>4, <1>8, <4>1
    <3> QED
      BY <1>13, <3>1, <3>2
  <2>2. R = [x \in 1..1 |-> R[x]]
    BY <1>8, <1>9, <1>13 DEF Nests
  <2> QED
    BY <2>1, <2>2
<1>15. body[pl] = lp
  BY <1>4, <1>8, <1>11
<1>16. pl \in {1, 2} /\ 3 - pl = ps
  BY <1>11, <1>13
<1>17. DOMAIN body = 1..2 /\ body[pl] = lp /\ body[3 - pl] = ls
  BY <1>1, <1>3, <1>13, <1>15, <1>16
<1> QED
  BY <1>7, <1>14, <1>16, <1>17

-----------------------------------------------------------------------------
(***************************************************************************)
(* What the pass has made of loop k: nothing; or closed forms of some of   *)
(* its inner loops, when it has no outer store; or one of both.            *)
(***************************************************************************)
ClosedInPlace(k) ==
  /\ OuterStores(k) = {None} /\ DOMAIN out[k] = DOMAIN prog[k]
  /\ \A p \in DOMAIN prog[k] :
       \/ out[k][p] = prog[k][p]
       \/ /\ p \in LoopsAt(prog[k])
          /\ \E st : Replaces(k, prog[k][p], st, None) /\ out[k][p] = Alone(st, prog[k][p])

ClosedTogether(k) ==
  \E p \in LoopsAt(prog[k]) : \E ls \in OuterStores(k) \ {None} : \E st :
    /\ Replaces(k, prog[k][p], st, ls) /\ <<k, ls>> \in erased
    /\ out[k] = Replaced(prog[k], prog[k][p], ls, ClosedForm(st, prog[k][p], ls))

FaithfulNest(k) == out[k] = prog[k] \/ ClosedInPlace(k) \/ ClosedTogether(k)

Faithful ==
  /\ verdict = "done" => nest > Len(prog)
  /\ gaps = {} => \A k \in DOMAIN prog : FaithfulNest(k)

(* A nest the step leaves is as it was. *)
LEMMA FaithfulStays ==
  ASSUME NEW k, prog' = prog, out[k]' = out[k], erased \subseteq erased', FaithfulNest(k)
  PROVE  FaithfulNest(k)'
<1>1. \A lp, st, ls : Replaces(k, lp, st, ls)' <=> Replaces(k, lp, st, ls)
  BY ReplacesStays
<1>2. OuterStores(k)' = OuterStores(k)
  BY DEF OuterStores
<1>3. CASE out[k] = prog[k]
  BY <1>3 DEF FaithfulNest
<1>4. CASE ClosedInPlace(k)
  <2>1. ClosedInPlace(k)'
    BY <1>1, <1>2, <1>4 DEF ClosedInPlace
  <2> QED
    BY <2>1 DEF FaithfulNest
<1>5. CASE ClosedTogether(k)
  <2>1. ClosedTogether(k)'
    BY <1>1, <1>2, <1>5 DEF ClosedTogether
  <2> QED
    BY <2>1 DEF FaithfulNest
<1> QED
  BY <1>3, <1>4, <1>5 DEF FaithfulNest

(* The checks the pass makes, when they record no gap, allow the replacement. *)
LEMMA ReplacesHere ==
  ASSUME NEW st, NEW ls, st \in FirstStores(CurrentLoop.body), ~IsUndefined(st, ls),
         InScope(nest, CurrentLoop, st, ls), GapsAt(nest, CurrentLoop, st, ls) = {}
  PROVE  Replaces(nest, CurrentLoop, st, ls)
<1>1. RecTerm(st) # None
  BY DEF IsUndefined
<1>2. LastChecks(st, ls)
  BY DEF InScope
<1>3. RecTerm(st) # Term(Outer) => check_rt_scope(RecTerm(st), nest)
  BY DEF InScope
<1>4. RecTerm(st) # Term(Outer) /\ RecTerm(st).kind = "term" => RecTerm(st).term.i = 0 /\ RecTerm(st).term.j = 0
  BY <1>3 DEF check_rt_scope, SteadyGiven
<1> QED
  BY <1>1, <1>2, <1>4 DEF Replaces

(* The outer stores of a body are its first stores, or None. *)
LEMMA OuterStoresAre ==
  ASSUME NEW k, prog[k] \in Nests
  PROVE  \/ OuterStores(k) = {None} /\ StoresAt(prog[k]) = {}
         \/ OuterStores(k) = FirstStores(prog[k]) /\ None \notin OuterStores(k)
<1>1. FirstStores(prog[k]) \subseteq Stores
  BY FirstStoresType
<1>2. None \notin Stores
  BY StoreFields
<1> QED
  BY <1>1, <1>2 DEF OuterStores

(* The inner loop the pass is at gets its closed form. *)
LEMMA InPlaceGrows ==
  ASSUME TypeInv, VectorInv, AtLoop, ~IsDestroyed,
         NEW k, k = nest, NEW st, Replaces(k, CurrentLoop, st, None),
         OuterStores(k) = {None}, FaithfulNest(k), prog' = prog,
         out'[k] = Replaced(out[k], CurrentLoop, None, ClosedForm(st, CurrentLoop, None))
  PROVE  FaithfulNest(k)'
<1> DEFINE lp == CurrentLoop
           q == Place(out[k], lp)
<1>1. out[k] \in Nests /\ prog[k] \in Nests /\ lp \in Loops
  BY AtHand
<1>2. q \in DOMAIN out[k] /\ out[k][q] = lp
  <2>1. \E p \in DOMAIN out[k] : out[k][p] = lp
    BY StillThere DEF LoopsAt
  <2> HIDE DEF lp
  <2> QED
    BY <1>1, <2>1, PlaceIs
<1>3. ~ClosedTogether(k)
  BY DEF ClosedTogether
<1>4. /\ DOMAIN out[k] = DOMAIN prog[k]
      /\ \A p \in DOMAIN prog[k] :
           \/ out[k][p] = prog[k][p]
           \/ /\ p \in LoopsAt(prog[k])
              /\ \E s : Replaces(k, prog[k][p], s, None) /\ out[k][p] = Alone(s, prog[k][p])
  BY <1>3 DEF FaithfulNest, ClosedInPlace
<1> HIDE DEF q
<1>5. prog[k][q] = lp /\ q \in LoopsAt(prog[k])
  <2>1. lp.kind = "loop"
    BY <1>1 DEF Loops
  <2>2. \A s, x : Alone(s, x).kind = "closed"
    BY ClosedFields DEF Alone
  <2>3. prog[k][q] = lp
    BY <1>2, <1>4, <2>1, <2>2
  <2> QED
    BY <1>2, <1>4, <2>1, <2>3 DEF LoopsAt
<1>6. out'[k] = [out[k] EXCEPT ![q] = Alone(st, lp)]
  BY DEF Replaced, ReplaceAt, Alone, q
<1>7. DOMAIN out'[k] = DOMAIN prog[k] /\ out'[k][q] = Alone(st, lp) /\ \A p \in DOMAIN prog[k] \ {q} : out'[k][p] = out[k][p]
  BY <1>2, <1>4, <1>6
<1> HIDE DEF lp
<1>8. \A p \in DOMAIN prog[k] :
        \/ out'[k][p] = prog[k][p]
        \/ /\ p \in LoopsAt(prog[k])
           /\ \E s : Replaces(k, prog[k][p], s, None) /\ out'[k][p] = Alone(s, prog[k][p])
  <2> SUFFICES ASSUME NEW p \in DOMAIN prog[k]
               PROVE  \/ out'[k][p] = prog[k][p]
                      \/ /\ p \in LoopsAt(prog[k])
                         /\ \E s : Replaces(k, prog[k][p], s, None) /\ out'[k][p] = Alone(s, prog[k][p])
    OBVIOUS
  <2>1. CASE p = q
    BY <1>5, <1>7, <2>1 DEF lp
  <2>2. CASE p # q
    BY <1>4, <1>7, <2>2
  <2> QED
    BY <2>1, <2>2
<1>9. \A l, s, x : Replaces(k, l, s, x)' <=> Replaces(k, l, s, x)
  BY ReplacesStays
<1>10. OuterStores(k)' = {None}
  BY DEF OuterStores
<1>11. ClosedInPlace(k)'
  BY <1>7, <1>8, <1>9, <1>10 DEF ClosedInPlace
<1> QED
  BY <1>11 DEF FaithfulNest

(* The inner loop and the outer store get one closed form. *)
LEMMA TogetherGrows ==
  ASSUME TypeInv, VectorInv, AtLoop, ~IsDestroyed,
         NEW k, k = nest, NEW st, NEW ls \in OuterStores(k), ls # None,
         Replaces(k, CurrentLoop, st, ls), <<k, ls>> \notin erased, FaithfulNest(k), prog' = prog,
         <<k, ls>> \in erased',
         out'[k] = Replaced(out[k], CurrentLoop, ls, ClosedForm(st, CurrentLoop, ls))
  PROVE  FaithfulNest(k)'
<1>1. out[k] \in Nests /\ prog[k] \in Nests
  BY AtHand
<1>2. OuterStores(k) = FirstStores(prog[k])
  BY <1>1, OuterStoresAre
<1>3. OnlyArray(prog[k])
  BY DEF Replaces, GapsAt, Gaps
<1>4. ~ClosedTogether(k)
  <2> SUFFICES ASSUME NEW l \in OuterStores(k), <<k, l>> \in erased PROVE FALSE
    BY DEF ClosedTogether
  <2>1. l = ls
    BY <1>1, <1>2, <1>3, FirstIsOnly
  <2> QED
    BY <2>1
<1>5. ~ClosedInPlace(k)
  BY DEF ClosedInPlace
<1>6. out[k] = prog[k]
  BY <1>4, <1>5 DEF FaithfulNest
<1>7. PICK p \in LoopsAt(prog[k]) : prog[k][p] = CurrentLoop
  BY <1>6, StillThere
<1>8. Replaces(k, prog[k][p], st, ls) /\ out'[k] = Replaced(prog[k], prog[k][p], ls, ClosedForm(st, prog[k][p], ls))
  BY <1>6, <1>7
<1>9. \A l, s, x : Replaces(k, l, s, x)' <=> Replaces(k, l, s, x)
  BY ReplacesStays
<1>10. OuterStores(k)' = OuterStores(k)
  BY DEF OuterStores
<1>11. ClosedTogether(k)'
  BY <1>7, <1>8, <1>9, <1>10 DEF ClosedTogether
<1> QED
  BY <1>11 DEF FaithfulNest

(* What simplify_nl leaves of a nest, while none of the named gaps is met,  *)
(* is at every step the nest as it was, the nest with closed forms in the   *)
(* places of loops, or the one closed form of a loop and the outer store.   *)
THEOREM FaithfulInvariant == Spec => []Faithful
<1>1. Init => Faithful
  BY DEF Init, Faithful, FaithfulNest
<1>2. TypeInv /\ VectorInv /\ Faithful /\ [Next]_vars => Faithful'
  <2> SUFFICES ASSUME TypeInv, VectorInv, Faithful, [Next]_vars PROVE Faithful'
    OBVIOUS
  <2>1. CASE Simplify
    <3>1. AtLoop /\ ~IsDestroyed /\ prog' = prog /\ nest' = nest /\ verdict' = verdict /\ verdict = "running"
      BY <2>1 DEF Simplify, AtLoop
    <3>2. PICK st \in FirstStores(CurrentLoop.body), ls \in OuterStores(nest) :
            /\ ~IsUndefined(st, ls) /\ InScope(nest, CurrentLoop, st, ls)
            /\ out' = [out EXCEPT ![nest] = Replaced(@, CurrentLoop, ls, ClosedForm(st, CurrentLoop, ls))]
            /\ erased' = IF ls = None THEN erased ELSE erased \cup {<<nest, ls>>}
            /\ gaps' = gaps \cup GapsAt(nest, CurrentLoop, st, ls)
      BY <2>1 DEF Simplify
    <3>3. nest \in DOMAIN out /\ DOMAIN out = DOMAIN prog /\ prog[nest] \in Nests
      BY <3>1, AtHand, FunctionsAreNests DEF TypeInv, TypeOK
    <3>4. ASSUME gaps' = {}, NEW k \in DOMAIN prog PROVE FaithfulNest(k)'
      <4>1. gaps = {} /\ GapsAt(nest, CurrentLoop, st, ls) = {} /\ FaithfulNest(k)
        BY <3>2, <3>4 DEF Faithful
      <4>2. Replaces(nest, CurrentLoop, st, ls)
        BY <3>2, <4>1, ReplacesHere
      <4>3. CASE k # nest
        <5>1. out'[k] = out[k] /\ erased \subseteq erased'
          BY <3>2, <3>3, <4>3
        <5> QED
          BY <3>1, <4>1, <5>1, FaithfulStays
      <4>4. CASE k = nest
        <5>1. out'[k] = Replaced(out[k], CurrentLoop, ls, ClosedForm(st, CurrentLoop, ls))
          BY <3>2, <3>3, <4>4
        <5>2. CASE ls = None
          <6>1. OuterStores(k) = {None}
            BY <3>2, <3>3, <4>4, <5>2, OuterStoresAre
          <6> QED
            BY <3>1, <4>1, <4>2, <4>4, <5>1, <5>2, <6>1, InPlaceGrows
        <5>3. CASE ls # None
          <6>1. <<k, ls>> \notin erased /\ <<k, ls>> \in erased'
            BY <3>2, <4>4, <5>3 DEF IsUndefined
          <6> QED
            BY <3>1, <3>2, <4>1, <4>2, <4>4, <5>1, <5>3, <6>1, TogetherGrows
        <5> QED
          BY <5>2, <5>3
      <4> QED
        BY <4>3, <4>4
    <3> QED
      BY <3>1, <3>4 DEF Faithful
  <2>2. ASSUME UNCHANGED <<prog, out, erased, gaps>>, verdict' = "done" => nest' > Len(prog') PROVE Faithful'
    <3>1. \A k \in DOMAIN prog : FaithfulNest(k) => FaithfulNest(k)'
      BY <2>2, FaithfulStays
    <3> QED
      BY <2>2, <3>1 DEF Faithful
  <2>3. CASE Crash \/ GiveUp
    BY <2>2, <2>3 DEF Crash, GiveUp
  <2>4. CASE NextLoop
    BY <2>2, <2>4 DEF NextLoop
  <2>5. CASE Done
    BY <2>2, <2>5 DEF Done
  <2>6. CASE UNCHANGED vars
    BY <2>2, <2>6 DEF vars, Faithful
  <2> QED
    BY <2>1, <2>3, <2>4, <2>5, <2>6 DEF Next
<1> QED
  BY <1>1, <1>2, TypesInvariant, VectorInvariant, PTL DEF Spec

-----------------------------------------------------------------------------
(***************************************************************************)
(* The nests the pass is done with compute what they computed.             *)
(***************************************************************************)
LEMMA GivenInArrays ==
  ASSUME TypeInv, NEW n \in 1..MaxN PROVE ProgramInArrays(n)
<1>1. prog \in Functions /\ prog \in Seq(Sources)
  BY FunctionsAssumption DEF TypeInv, TypeOK
<1>2. ASSUME NEW k \in DOMAIN prog, NEW p \in LoopsAt(prog[k]) PROVE StaysInside(prog[k][p], n)
  BY <1>1, BoundsAssumption DEF StaysInside
<1>3. \A k \in DOMAIN prog : prog[k] \in Sources
  BY <1>1
<1> QED
  BY <1>1, <1>2, <1>3 DEF ProgramInArrays, InArrays

(* What the pass replaces in a program is replaceable. *)
LEMMA ReplaceableHere ==
  ASSUME NEW n, NEW body, InArrays(body, n), NEW k, NEW p \in LoopsAt(body), NEW st, NEW ls,
         Replaces(k, body[p], st, ls)
  PROVE  Replaceable(k, n, body[p], st, ls)
<1>1. p \in DOMAIN body /\ p \notin StoresAt(body)
  BY DEF LoopsAt, StoresAt
<1>2. body[p] \in Loops /\ Bounded(body[p]) /\ \A q \in DOMAIN body[p].body : PlacedStore(body[p].body[q])
  BY <1>1, SourceItems DEF InArrays
<1>3. StaysInside(body[p], n)
  BY DEF InArrays
<1>4. PlacedStore(st)
  BY <1>2 DEF Replaces, FirstStores, StoresAt
<1> QED
  BY <1>2, <1>3, <1>4 DEF Replaceable

(* One nest computes what it computed. *)
LEMMA NestComputesTheSame ==
  ASSUME NEW n \in 1..MaxN, ProgramInArrays(n), NEW k \in DOMAIN prog, FaithfulNest(k),
         LoopsAt(out[k]) = {}, out[k] \in Nests, NEW m \in Memories, AllEven(m, k, n)
  PROVE  AfterNest(m, n, out[k]) = AfterNest(m, n, prog[k])
<1> DEFINE body == prog[k]
           L == Len(body)
<1>1. k \in Nat /\ k >= 1 /\ InArrays(body, n) /\ prog \in Seq(Sources)
  BY DEF ProgramInArrays
<1>2. body \in Sources /\ body \in Seq(Stores \cup Loops) /\ body \in Nests
  BY <1>1, SourceItems DEF InArrays, Sources
<1>3. L \in Nat /\ DOMAIN body = 1..L
  BY <1>2 DEF Nests
<1>4. CASE out[k] = body
  BY <1>4
<1>5. CASE ClosedInPlace(k)
  <2>1. /\ OuterStores(k) = {None} /\ DOMAIN out[k] = DOMAIN body
        /\ \A p \in DOMAIN body :
             \/ out[k][p] = body[p]
             \/ /\ p \in LoopsAt(body)
                /\ \E st : Replaces(k, body[p], st, None) /\ out[k][p] = Alone(st, body[p])
    BY <1>5 DEF ClosedInPlace
  <2>2. StoresAt(body) = {}
    BY <1>2, <2>1, OuterStoresAre
  <2>3. ASSUME NEW p \in 1..L
        PROVE  \E st : Replaceable(k, n, body[p], st, None) /\ out[k][p] = Alone(st, body[p])
    <3>1. p \in LoopsAt(body)
      BY <1>2, <1>3, <2>2, SourceItems
    <3>2. out[k][p] # body[p]
      BY <1>3, <2>1, <3>1 DEF LoopsAt
    <3>3. PICK st : Replaces(k, body[p], st, None) /\ out[k][p] = Alone(st, body[p])
      BY <1>3, <2>1, <3>2
    <3>4. Replaceable(k, n, body[p], st, None)
      BY <1>1, <3>1, <3>3, ReplaceableHere
    <3> QED
      BY <3>3, <3>4
  <2>4. body = [p \in 1..L |-> body[p]] /\ out[k] = [p \in 1..L |-> out[k][p]]
    <3>1. \A x \in Nests : x = [p \in DOMAIN x |-> x[p]]
      BY DEF Nests
    <3> QED
      BY <1>2, <1>3, <2>1, <3>1
  <2>5. ClosedLoops(k, n, L, prog[k], out[k])
    BY <1>3, <2>3, <2>4 DEF ClosedLoops
  <2> DEFINE left == out[k]
  <2> HIDE DEF L, left
  <2>6. ClosedLoops(k, n, L, prog[k], left)
    BY <2>5 DEF left
  <2>7. AfterNest(m, n, left) = AfterNest(m, n, prog[k])
    BY <1>1, <2>6, AllClosed
  <2> QED
    BY <2>7 DEF left
<1>6. CASE ClosedTogether(k)
  <2>12. PICK p \in LoopsAt(body), ls \in OuterStores(k) \ {None} :
           \E st : /\ Replaces(k, body[p], st, ls)
                  /\ out[k] = Replaced(body, body[p], ls, ClosedForm(st, body[p], ls))
    BY <1>6 DEF ClosedTogether
  <2>1. PICK st : /\ Replaces(k, body[p], st, ls)
                  /\ out[k] = Replaced(body, body[p], ls, ClosedForm(st, body[p], ls))
    BY <2>12
  <2>2. ls \in FirstStores(body) /\ ls # None /\ ls \in Stores
    <3>1. ls \in FirstStores(body) /\ ls # None
      BY <1>2, <2>1, OuterStoresAre
    <3> QED
      BY <1>2, <3>1, FirstStoresType
  <2>3. OnlyArray(body) /\ OnlyStore(ls, body)
    BY <2>1, <2>2 DEF Replaces, GapsAt, Gaps
  <2>4. Replaceable(k, n, body[p], st, ls)
    BY <1>1, <2>1, ReplaceableHere
  <2>5. ClosedForm(st, body[p], ls) \in ClosedForms
    <3>1. body[p] \in Loops
      BY <2>4 DEF Replaceable
    <3>2. st \in Stores /\ RecTerm(st) # None
      BY <2>1, <3>1, ReplacesMeans DEF Replaces
    <3>3. RecTerm(ls) # None
      BY <2>1, <2>2 DEF Replaces, LastChecks
    <3> QED
      BY <2>2, <3>1, <3>2, <3>3, ClosedFormType
  <2>6. LoopsAt(Replaced(body, body[p], ls, ClosedForm(st, body[p], ls))) = {}
    BY <2>1
  <2> DEFINE cf == ClosedForm(st, body[p], ls)
  <2> HIDE DEF cf
  <2>7. /\ Replaced(body, body[p], ls, cf) = <<cf>>
        /\ \E q \in {1, 2} : DOMAIN body = 1..2 /\ body[q] = body[p] /\ body[3 - q] = ls
    <3> HIDE DEF body
    <3> QED
      BY <1>2, <2>2, <2>3, <2>5, <2>6, ReplacedIs DEF cf
  <2>8. PICK q \in {1, 2} : DOMAIN body = 1..2 /\ body[q] = body[p] /\ body[3 - q] = ls
    BY <2>7
  <2>9. OuterStore(ls)
    <3>1. PICK r \in StoresAt(body) : body[r] = ls
      BY <2>2 DEF FirstStores
    <3>2. r \in DOMAIN body /\ r \notin LoopsAt(body)
      BY <3>1 DEF StoresAt, LoopsAt
    <3> QED
      BY <1>2, <3>1, <3>2, SourceItems
  <2>10. Fused(k, n, body[p], st, ls, q)
    BY <1>2, <2>4, <2>8, <2>9 DEF Fused
  <2>11. AfterNest(m, n, <<ClosedForm(st, body[p], ls)>>) = AfterNest(m, n, prog[k])
    BY <1>1, <2>10, FusedNest
  <2> QED
    BY <2>1, <2>7, <2>11 DEF cf
<1> QED
  BY <1>4, <1>5, <1>6 DEF FaithfulNest

(* Nest by nest, the function computes what it computed. *)
LEMMA RunComputesTheSame ==
  ASSUME NEW n \in 1..MaxN, ProgramInArrays(n), out \in Seq(Nests), Len(out) = Len(prog),
         \A k \in DOMAIN prog : FaithfulNest(k) /\ LoopsAt(out[k]) = {}, NEW m \in Memories
  PROVE  After(m, n, out) = After(m, n, prog)
<1> DEFINE L == Len(prog)
<1>1. L \in Nat /\ DOMAIN prog = 1..L /\ DOMAIN out = 1..L
  BY DEF ProgramInArrays
<1>2. PICK rp : RunSteps(rp, m, n, prog, L)
  BY <1>1, RunTrace
<1>3. PICK ro : RunSteps(ro, m, n, out, L)
  BY <1>1, RunTrace
<1>4. /\ rp[0] = m /\ After(m, n, prog) = rp[L]
      /\ \A t \in 1..L : rp[t] = AfterNest(rp[t - 1], n, prog[t])
  BY <1>2 DEF RunSteps
<1>5. /\ ro[0] = m /\ After(m, n, out) = ro[L]
      /\ \A t \in 1..L : ro[t] = AfterNest(ro[t - 1], n, out[t])
  BY <1>3 DEF RunSteps
<1>6. \A t \in 0..L : rp[t] \in Memories
  BY <1>2, RunInMemories
<1>7. \A t \in 1..L : AllEven(rp[t - 1], t, n)
  BY <1>2, UniformIsEven
<1> HIDE DEF L
<1> DEFINE S == {t \in 0..L : ro[t] = rp[t]}
<1>8. 0 \in S
  BY <1>1, <1>4, <1>5
<1>9. ASSUME NEW t \in 0..(L - 1), t \in S PROVE t + 1 \in S
  <2>1. t + 1 \in 1..L /\ t + 1 - 1 = t /\ t \in 0..L /\ t + 1 \in 0..L
    BY <1>1
  <2>2. rp[t] \in Memories /\ AllEven(rp[t], t + 1, n) /\ ro[t] = rp[t]
    BY <1>6, <1>7, <1>9, <2>1
  <2>3. t + 1 \in DOMAIN prog /\ FaithfulNest(t + 1) /\ LoopsAt(out[t + 1]) = {} /\ out[t + 1] \in Nests
    BY <1>1, <2>1
  <2>4. AfterNest(rp[t], n, out[t + 1]) = AfterNest(rp[t], n, prog[t + 1])
    BY <2>2, <2>3, NestComputesTheSame
  <2> QED
    BY <1>4, <1>5, <2>1, <2>2, <2>4
<1>10. L \in S
  <2> HIDE DEF S
  <2>1. 0..L \subseteq S
    BY <1>1, <1>8, <1>9, SetInduction
  <2> QED
    BY <1>1, <2>1
<1> QED
  BY <1>4, <1>5, <1>10

(* The function simplify_nl is done with computes what the function it was *)
(* given computes, from any contents and for every N, when every inner     *)
(* loop replaced is one recurrence of one store with none of the named     *)
(* gaps (simplify_nl.cpp:260-318).                                         *)
THEOREM ClosedFormsComputeTheSame == Spec => []SimplifiedIsNested
<1>1. TypeInv /\ Faithful /\ NoNestIsLeft => SimplifiedIsNested
  <2> SUFFICES ASSUME TypeInv, Faithful, NoNestIsLeft, verdict = "done", gaps = {}, NEW n \in 1..MaxN
               PROVE  After(Contents, n, out) = After(Contents, n, prog)
    BY DEF SimplifiedIsNested
  <2>1. nest > Len(prog) /\ \A k \in DOMAIN prog : FaithfulNest(k)
    BY DEF Faithful
  <2>2. prog \in Seq(Nests) /\ out \in Seq(Nests) /\ Len(out) = Len(prog) /\ nest \in Int
    BY FunctionsAreNests DEF TypeInv, TypeOK
  <2>3. \A k \in DOMAIN prog : LoopsAt(out[k]) = {}
    <3>1. DOMAIN out = DOMAIN prog /\ \A k \in DOMAIN prog : k < nest
      BY <2>1, <2>2
    <3> QED
      BY <3>1 DEF NoNestIsLeft
  <2>4. Contents \in Memories
    BY ContentsAssumption DEF Memories
  <2>5. ProgramInArrays(n)
    BY GivenInArrays
  <2> QED
    BY <2>1, <2>2, <2>3, <2>4, <2>5, RunComputesTheSame
<1> QED
  BY <1>1, TypesInvariant, FaithfulInvariant, NoNestIsLeftBehind, PTL

=============================================================================
