----------------------------- MODULE DiffProofs -----------------------------
(***************************************************************************)
(* The two difference passes: facts they rest on, their types, and, for    *)
(* diff_preds, that what it makes is the difference function.              *)
(***************************************************************************)
EXTENDS DifferenceProofs

(***************************************************************************)
(* One value per store is enough: the difference of a term without a       *)
(* product of N and the counter is that of every element, although         *)
(* compute_diff_expr's caller replaces the counter by N.                   *)
(***************************************************************************)
THEOREM DifferenceOfEveryElement ==
  ASSUME NEW t \in Terms, t.ni = 0, NEW N \in Int, NEW i \in Int
  PROVE  TermValue(t, N, i) - TermValue(t, N - 1, i) = TermDifference(t, N)
<1>1. /\ t.c \in Int /\ t.n \in Int /\ t.sq \in Int /\ t.i \in Int
  BY DEF Terms
<1>2. \A k \in Int : t.ni * N * k = 0 /\ t.ni * (N - 1) * k = 0
  BY <1>1
<1>3. \A k \in Int :
        TermValue(t, N, k) - TermValue(t, N - 1, k)
          = t.n * N + t.sq * N * N - t.n * (N - 1) - t.sq * (N - 1) * (N - 1)
  BY <1>1, <1>2 DEF TermValue
<1> QED
  BY <1>3 DEF TermDifference
-----------------------------------------------------------------------------
(***************************************************************************)
(* The invariant behind the types: between two items nothing is left to    *)
(* peel, and within one everything the pass has yet to do, and to place,   *)
(* is about stores of the item.                                            *)
(***************************************************************************)
PassInv ==
  /\ TypeOK
  /\ ~entered => todo = <<>> /\ pend = {}
  /\ entered => /\ pos \in 1..Len(prog)
                /\ todo \in Seq(DOMAIN Item.body)
                /\ DOMAIN placed = DOMAIN Item.body

-----------------------------------------------------------------------------
LEMMA TermsOf ==
  /\ Zero \in Terms /\ Seq(DiffVals) # {}
  /\ constOne \in DiffVals
  /\ \A t \in Terms : OfTerm(t) \in DiffVals
  /\ \A v \in DiffVals : TimesNS(v) \in DiffVals
<1>1. <<0, 0, 0>> \in LoadIds
  BY DEF LoadIds
<1>2. Zero \in Terms /\ [Zero EXCEPT !.n = 1] \in Terms
  BY DEF Zero, Terms
<1>3. \A t \in Terms : OfTerm(t) \in DiffVals
  BY <1>1 DEF OfTerm, DiffVals
<1>4. ASSUME NEW v \in DiffVals PROVE TimesNS(v) \in DiffVals
  BY <1>4 DEF TimesNS, DiffVals
<1>5. <<>> \in Seq(DiffVals)
  OBVIOUS
<1> QED
  BY <1>2, <1>3, <1>4, <1>5 DEF constOne

(* The item and the store the pass is at. *)
LEMMA AtStore ==
  ASSUME PassInv
  PROVE  /\ \A p \in DOMAIN prog : /\ prog[p] \in Items /\ prog[p].body \in Seq(Stores)
                                   /\ \A s \in DOMAIN prog[p].body : s \in Nat /\ prog[p].body[s] \in Stores
         /\ prog \in Seq(Items) /\ DOMAIN prog = 1..Len(prog) /\ Len(prog) \in Nat
         /\ todo # <<>> =>
              /\ entered /\ pos \in DOMAIN prog /\ pos \in Nat /\ Item \in Items
              /\ Head(todo) \in DOMAIN Item.body /\ Head(todo) \in Nat
              /\ Store \in Stores /\ Tail(todo) \in Seq(DOMAIN Item.body)
<1>1. prog \in Seq(Items)
  BY FunctionsAssumption DEF PassInv, TypeOK
<1>2. ASSUME NEW p \in DOMAIN prog
      PROVE  /\ prog[p] \in Items /\ prog[p].body \in Seq(Stores)
             /\ \A s \in DOMAIN prog[p].body : s \in Nat /\ prog[p].body[s] \in Stores
  <2>1. prog[p] \in Items
    BY <1>1
  <2>2. prog[p].body \in Seq(Stores)
    BY <2>1 DEF Items
  <2> QED
    BY <2>1, <2>2
<1>3. ASSUME todo # <<>>
      PROVE  /\ entered /\ pos \in DOMAIN prog /\ pos \in Nat /\ Item \in Items
             /\ Head(todo) \in DOMAIN Item.body /\ Head(todo) \in Nat
             /\ Store \in Stores /\ Tail(todo) \in Seq(DOMAIN Item.body)
  <2>1. entered /\ pos \in DOMAIN prog /\ pos \in Nat
    BY <1>1, <1>3 DEF PassInv
  <2>2. todo \in Seq(DOMAIN Item.body)
    BY <2>1 DEF PassInv
  <2>3. Head(todo) \in DOMAIN Item.body /\ Tail(todo) \in Seq(DOMAIN Item.body)
    BY <1>3, <2>2, HeadTailProperties
  <2> QED
    BY <1>2, <2>1, <2>3 DEF Item, Store
<1> QED
  BY <1>1, <1>2, <1>3

(* What a store makes the passes record and add. *)
LEMMA LoadsAre ==
  ASSUME NEW st \in Stores
  PROVE  /\ st.arr \in Arrays /\ st.term \in Terms /\ st.loads \in Seq(Loads)
         /\ \A l \in DOMAIN st.loads : l \in Nat /\ st.loads[l].arr \in Arrays
<1>1. st.arr \in Arrays /\ st.term \in Terms /\ st.loads \in Seq(Loads)
  BY DEF Stores
<1>2. \A l \in DOMAIN st.loads : l \in Nat /\ st.loads[l] \in Loads
  BY <1>1
<1> QED
  BY <1>1, <1>2 DEF Loads

LEMMA ScaledIs ==
  ASSUME diffs \in [Arrays -> Seq(DiffVals)], NEW a, NEW b \in Arrays
  PROVE  Scaled(a, b) \in Seq(DiffVals)
<1>1. diffs[b] \in Seq(DiffVals)
  OBVIOUS
<1>2. \A d \in DOMAIN diffs[b] : diffs[b][d] \in DiffVals
  BY <1>1
<1>3. \A d \in DOMAIN diffs[b] :
        (IF IsStatic(a) /\ ~IsStatic(b) THEN TimesNS(diffs[b][d]) ELSE diffs[b][d]) \in DiffVals
  BY <1>2, TermsOf
<1>4. DOMAIN diffs[b] = 1..Len(diffs[b]) /\ Len(diffs[b]) \in Nat
  BY <1>1
<1> QED
  BY <1>3, <1>4 DEF Scaled

LEMMA PerLoadIs ==
  ASSUME diffs \in [Arrays -> Seq(DiffVals)], NEW st \in Stores
  PROVE  Added(st) \in Seq(DiffVals) /\ AppendedDiffs(st) \in Seq(DiffVals)
<1>0. /\ DOMAIN st.loads = 1..Len(st.loads) /\ Len(st.loads) \in Nat /\ st.term \in Terms
      /\ \A l \in DOMAIN st.loads : st.loads[l].arr \in Arrays
  BY LoadsAre
<1>1. ASSUME NEW b \in Arrays PROVE OwnTerm(st, b) \in Seq(DiffVals)
  <2>1. TimesNS(OfTerm(st.term)) \in DiffVals
    BY <1>0, TermsOf
  <2> QED
    BY <2>1 DEF OwnTerm
<1>2. ASSUME NEW b \in Arrays
      PROVE  AddedFor(st.arr, b) \in Seq(DiffVals) /\ RecordedFor(st.arr, b) \in Seq(DiffVals)
  BY ScaledIs DEF AddedFor, RecordedFor
<1>3. \A u, v \in Seq(DiffVals) : u \o v \in Seq(DiffVals)
  OBVIOUS
<1>4. Added(st) \in Seq(DiffVals)
  <2> DEFINE ss == [l \in DOMAIN st.loads |-> AddedFor(st.arr, st.loads[l].arr) \o OwnTerm(st, st.loads[l].arr)]
  <2>1. \A l \in DOMAIN st.loads :
          AddedFor(st.arr, st.loads[l].arr) \o OwnTerm(st, st.loads[l].arr) \in Seq(DiffVals)
    BY <1>0, <1>1, <1>2, <1>3
  <2>2. ss \in Seq(Seq(DiffVals))
    BY <1>0, <2>1
  <2>3. Added(st) = FlattenSeq(ss)
    BY DEF Added, PerLoad
  <2> QED
    BY <2>2, <2>3, FlatIsSeq
<1>5. PerLoad(st, LAMBDA b : OwnTerm(st, b)) \in Seq(DiffVals)
  <2> DEFINE ss == [l \in DOMAIN st.loads |-> OwnTerm(st, st.loads[l].arr)]
  <2>1. ss \in Seq(Seq(DiffVals))
    BY <1>0, <1>1
  <2> QED
    BY <2>1, FlatIsSeq DEF PerLoad
<1>6. PerLoad(st, LAMBDA b : RecordedFor(st.arr, b)) \in Seq(DiffVals)
  <2> DEFINE ss == [l \in DOMAIN st.loads |-> RecordedFor(st.arr, st.loads[l].arr)]
  <2>1. ss \in Seq(Seq(DiffVals))
    BY <1>0, <1>2
  <2> QED
    BY <2>1, FlatIsSeq DEF PerLoad
<1>7. (IF ~IsStatic(st.arr) /\ TermRecorded(st) THEN <<OfTerm(st.term)>> ELSE <<>>) \in Seq(DiffVals)
  <2>1. OfTerm(st.term) \in DiffVals
    BY <1>0, TermsOf
  <2> QED
    BY <2>1
<1> QED
  BY <1>3, <1>4, <1>5, <1>6, <1>7 DEF AppendedDiffs

LEMMA LoadIdIs ==
  ASSUME PassInv, todo # <<>>, NEW l \in Nat
  PROVE  /\ OfLoad(l) \in DiffVals
         /\ \A s \in Nat : [OfLoad(l) EXCEPT !.load[2] = s] \in DiffVals
<1>1. pos \in Nat /\ Head(todo) \in Nat
  BY AtStore
<1>2. ASSUME NEW s \in Nat PROVE [term |-> Zero, load |-> <<pos, s, l>>, times |-> 0] \in DiffVals
  BY <1>1, TermsOf DEF DiffVals, LoadIds
<1>3. ASSUME NEW s \in Nat
      PROVE  [OfLoad(l) EXCEPT !.load[2] = s] = [term |-> Zero, load |-> <<pos, s, l>>, times |-> 0]
  BY DEF OfLoad
<1> QED
  BY <1>1, <1>2, <1>3 DEF OfLoad

LEMMA RecordIs ==
  ASSUME PassInv, todo # <<>>
  PROVE  AdditionalRecord(Store) \in Seq(DiffVals)
<1>0. /\ Store \in Stores /\ DOMAIN Store.loads = 1..Len(Store.loads) /\ Len(Store.loads) \in Nat
      /\ \A l \in DOMAIN Store.loads : l \in Nat
  BY AtStore, LoadsAre
<1> DEFINE Value(l) == IF IsStatic(Store.arr) /\ ~IsStatic(Store.loads[l].arr) THEN <<OfLoad(l)>> ELSE <<>>
           ss == [l \in DOMAIN Store.loads |-> Value(l)]
<1>1. ASSUME NEW l \in DOMAIN Store.loads PROVE Value(l) \in Seq(DiffVals)
  <2>1. OfLoad(l) \in DiffVals
    BY <1>0, LoadIdIs
  <2> QED
    BY <2>1
<1>2. ss \in Seq(Seq(DiffVals))
  <2> HIDE DEF Value
  <2> QED
    BY <1>0, <1>1
<1> QED
  BY <1>2, FlatIsSeq DEF AdditionalRecord

LEMMA SeenIs ==
  ASSUME NEW st \in Stores, NEW order \in Seq(Arrays)
  PROVE  Seen(st, order) \in Stores
<1> DEFINE ls == [k \in DOMAIN order |-> [arr |-> order[k], idx |-> "counter", coef |-> 1]]
<1>1. \A k \in DOMAIN order : [arr |-> order[k], idx |-> "counter", coef |-> 1] \in Loads
  BY DEF Loads
<1>2. ls \in Seq(Loads)
  BY <1>1
<1> HIDE DEF ls
<1>3. [st EXCEPT !.loads = ls] \in Stores
  BY <1>2 DEF Stores
<1> QED
  BY <1>3 DEF Seen, ls

LEMMA LocalDiffIs ==
  ASSUME PassInv, todo # <<>>, NEW order \in Seq(Arrays)
  PROVE  LocalDiff(Store, order) \in Seq(DiffVals)
<1> DEFINE body == Item.body
           OfOne(b, s, l) == IF body[s].loads[l].arr = b THEN <<[OfLoad(l) EXCEPT !.load[2] = s]>> ELSE <<>>
           Here(b, s) == [l \in DOMAIN body[s].loads |-> OfOne(b, s, l)]
           OfArray(b) == [s \in DOMAIN body |-> FlattenSeq(Here(b, s))]
           OfKth(k) == IF IsStatic(Store.arr) /\ ~IsStatic(order[k]) THEN FlattenSeq(OfArray(order[k])) ELSE <<>>
           all == [k \in DOMAIN order |-> OfKth(k)]
<1>0. /\ body \in Seq(Stores) /\ DOMAIN body = 1..Len(body) /\ Len(body) \in Nat
      /\ \A s \in DOMAIN body : s \in Nat /\ body[s] \in Stores
  BY AtStore DEF Item
<1>1. ASSUME NEW b, NEW s \in DOMAIN body PROVE FlattenSeq(Here(b, s)) \in Seq(DiffVals)
  <2>0. /\ DOMAIN body[s].loads = 1..Len(body[s].loads) /\ Len(body[s].loads) \in Nat
        /\ \A l \in DOMAIN body[s].loads : l \in Nat
    BY <1>0, LoadsAre
  <2>1. ASSUME NEW l \in DOMAIN body[s].loads PROVE OfOne(b, s, l) \in Seq(DiffVals)
    <3>1. [OfLoad(l) EXCEPT !.load[2] = s] \in DiffVals
      BY <1>0, <2>0, LoadIdIs
    <3> HIDE DEF body
    <3> QED
      BY <3>1
  <2> HIDE DEF OfOne, body
  <2>2. Here(b, s) \in Seq(Seq(DiffVals))
    BY <2>0, <2>1
  <2> HIDE DEF Here
  <2> QED
    BY <2>2, FlatIsSeq
<1> HIDE DEF Here
<1>2. ASSUME NEW b PROVE FlattenSeq(OfArray(b)) \in Seq(DiffVals)
  <2> HIDE DEF body
  <2>1. OfArray(b) \in Seq(Seq(DiffVals))
    BY <1>0, <1>1
  <2> HIDE DEF OfArray
  <2> QED
    BY <2>1, FlatIsSeq
<1>3. \A k \in DOMAIN order : OfKth(k) \in Seq(DiffVals)
  <2> HIDE DEF OfArray
  <2> QED
    BY <1>2
<1>4. all \in Seq(Seq(DiffVals))
  <2> HIDE DEF OfKth
  <2> QED
    BY <1>3
<1>5. LocalDiff(Store, order) = FlattenSeq(all)
  BY DEF LocalDiff, Here
<1> HIDE DEF all
<1> QED
  BY <1>4, <1>5, FlatIsSeq

(* What a function takes on a finite set is finite. *)
LEMMA ValuesAreFinite ==
  ASSUME NEW D, NEW h, DOMAIN h = D, IsFiniteSet(D)
  PROVE  IsFiniteSet({h[x] : x \in D})
<1> DEFINE T == {h[x] : x \in D}
           k == [x \in D |-> h[x]]
<1>1. k \in [D -> T] /\ \A y \in T : \E x \in D : k[x] = y
  OBVIOUS
<1>2. k \in Surjection(D, T)
  <2> HIDE DEF T, k
  <2> QED
    BY <1>1 DEF Surjection
<1> HIDE DEF T, k
<1>3. IsFiniteSet(T)
  BY <1>2, FS_Surjection
<1> QED
  BY <1>3 DEF T

LEMMA SeqOfMore ==
  ASSUME NEW T, NEW S \in SUBSET T, NEW q \in Seq(S)
  PROVE  q \in Seq(T)
OBVIOUS

LEMMA SequencesOf ==
  ASSUME NEW S, IsFiniteSet(S), NEW q \in SetToSeqs(S)
  PROVE  q \in Seq(S)
<1> DEFINE n == Cardinality(S)
<1>1. n \in Nat
  BY FS_CardinalityType
<1>2. q \in [1..n -> S]
  BY DEF SetToSeqs
<1> HIDE DEF n
<1> QED
  BY <1>1, <1>2

LEMMA InOrderIs ==
  ASSUME NEW D, IsFiniteSet(D), NEW S \in SUBSET D
  PROVE  InOrder(S) \subseteq Seq(D)
<1>1. IsFiniteSet(S)
  BY FS_Subset
<1>2. InOrder(S) \subseteq SetToSeqs(S)
  BY DEF InOrder
<1> QED
  BY <1>1, <1>2, SeqOfMore, SequencesOf

LEMMA OrderIs ==
  ASSUME PassInv, todo # <<>>, NEW order \in SetToSeqs(ReadIn(Item))
  PROVE  order \in Seq(Arrays)
<1> DEFINE body == Item.body
           Arrs(s) == {l.arr : l \in LoadsOf(body[s])}
           read_ == [s \in DOMAIN body |-> Arrs(s)]
<1>0. /\ body \in Seq(Stores) /\ DOMAIN body = 1..Len(body) /\ Len(body) \in Nat
      /\ \A s \in DOMAIN body : body[s] \in Stores
  BY AtStore DEF Item
<1>1. ASSUME NEW s \in DOMAIN body PROVE IsFiniteSet(Arrs(s)) /\ Arrs(s) \subseteq Arrays
  <2> DEFINE loads == body[s].loads
             n == Len(loads)
             names == [l \in 1..n |-> loads[l].arr]
  <2>0. n \in Nat /\ DOMAIN loads = 1..n /\ \A l \in 1..n : loads[l].arr \in Arrays
    BY <1>0, LoadsAre
  <2> HIDE DEF body
  <2>1. Arrs(s) = {names[l] : l \in 1..n}
    <3>1. LoadsOf(body[s]) = {loads[l] : l \in 1..n}
      BY <2>0 DEF LoadsOf
    <3> HIDE DEF loads, n
    <3> QED
      BY <3>1
  <2>2. IsFiniteSet(1..n)
    BY <2>0, FS_Interval
  <2>3. DOMAIN names = 1..n /\ \A l \in 1..n : names[l] \in Arrays
    BY <2>0
  <2> HIDE DEF names, loads, n, Arrs
  <2>4. IsFiniteSet({names[l] : l \in 1..n})
    BY <2>2, <2>3, ValuesAreFinite
  <2>5. Arrs(s) \subseteq Arrays
    BY <2>1, <2>3
  <2> QED
    BY <2>1, <2>4, <2>5
<1>2. ReadIn(Item) = UNION {read_[s] : s \in DOMAIN body}
  BY DEF ReadIn
<1>3. IsFiniteSet({read_[s] : s \in DOMAIN body})
  <2>1. IsFiniteSet(DOMAIN body)
    BY <1>0, FS_Interval
  <2>2. DOMAIN read_ = DOMAIN body
    OBVIOUS
  <2> HIDE DEF read_
  <2> QED
    BY <2>1, <2>2, ValuesAreFinite
<1>4. \A T \in {read_[s] : s \in DOMAIN body} : IsFiniteSet(T) /\ T \subseteq Arrays
  <2> HIDE DEF Arrs, body
  <2> QED
    BY <1>1
<1> HIDE DEF read_
<1>5. IsFiniteSet(ReadIn(Item)) /\ ReadIn(Item) \subseteq Arrays
  BY <1>2, <1>3, <1>4, FS_UNION
<1>6. order \in Seq(ReadIn(Item))
  BY <1>5, SequencesOf
<1> QED
  BY <1>5, <1>6

-----------------------------------------------------------------------------
(***************************************************************************)
(* What the steps of either pass have in common.                           *)
(***************************************************************************)
Rest == UNCHANGED runVars /\ unsupported' \in 0..3 /\ aborted' \in BOOLEAN

LEMMA PeelKeeps ==
  ASSUME PassInv, NEW kind, Peel(kind), Rest, vague' \subseteq Arrays,
         diffs' \in [Arrays -> Seq(DiffVals)], preheader' \in Seq(Instructions),
         placed' \in Seq(Seq(Instructions)), DOMAIN placed' = DOMAIN placed
  PROVE  PassInv'
<1>1. /\ todo' \in Seq(DOMAIN Item.body) /\ entered /\ pos \in 1..Len(prog)
      /\ DOMAIN placed = DOMAIN Item.body /\ DOMAIN Item.body \subseteq Nat
  BY AtStore DEF Peel, PassInv, Item
<1>2. todo' \in Seq(Nat)
  BY <1>1
<1>3. UNCHANGED <<prog, pos, pend, entered, out>>
  BY DEF Peel
<1>4. TypeOK'
  BY <1>2, <1>3 DEF PassInv, TypeOK, Rest, runVars
<1> QED
  BY <1>1, <1>3, <1>4 DEF PassInv, Item

LEMMA RecordKeeps ==
  ASSUME PassInv, NEW vs \in Seq(DiffVals), Record(vs)
  PROVE  diffs' \in [Arrays -> Seq(DiffVals)]
<1>1. \A u \in Seq(DiffVals) : u \o vs \in Seq(DiffVals)
  OBVIOUS
<1>2. diffs \in [Arrays -> Seq(DiffVals)]
  BY DEF PassInv, TypeOK
<1> QED
  BY <1>1, <1>2 DEF Record

LEMMA ReplaceKeeps ==
  ASSUME PassInv, NEW is \in Seq(Instructions), Replace(is)
  PROVE  placed' \in Seq(Seq(Instructions)) /\ DOMAIN placed' = DOMAIN placed
<1> DEFINE T == Seq(Instructions)
<1>1. placed \in Seq(T) /\ is \in T
  BY DEF PassInv, TypeOK
<1> DEFINE n == Len(placed)
<1>4. n \in Nat /\ placed \in [1..n -> T]
  <2> HIDE DEF T
  <2> QED
    BY <1>1
<1> HIDE DEF T, n
<1>5. [placed EXCEPT ![Head(todo)] = is] \in [1..n -> T]
  BY <1>1, <1>4
<1>2. [placed EXCEPT ![Head(todo)] = is] \in Seq(T)
  BY <1>4, <1>5
<1>3. DOMAIN [placed EXCEPT ![Head(todo)] = is] = DOMAIN placed
  BY <1>1
<1> QED
  BY <1>2, <1>3 DEF Replace, T

LEMMA JudgeKeeps ==
  ASSUME PassInv, todo # <<>>, NEW newGaps, NEW exact, Judge(newGaps, exact)
  PROVE  vague' \subseteq Arrays
<1>1. Store.arr \in Arrays
  BY AtStore, LoadsAre
<1> QED
  BY <1>1 DEF Judge, PassInv, TypeOK

LEMMA AdditionIs ==
  ASSUME PassInv, todo # <<>>, NEW e \in BOOLEAN, NEW vs \in Seq(DiffVals)
  PROVE  <<Addition(e, vs)>> \in Seq(Instructions)
<1>1. pos \in Nat /\ Head(todo) \in Nat
  BY AtStore
<1> QED
  BY <1>1 DEF Addition, Instructions

(* A sum: the addition for it goes before the loop, after the store, or nowhere. *)
LEMMA SumKeeps ==
  ASSUME PassInv, NEW kind, Peel(kind), Rest, NEW st \in Stores,
         NEW add, add = <<Addition(FALSE, Added(st))>>,
         CASE Added(st) = <<>>    -> UNCHANGED <<preheader, placed>>
           [] IsStatic(Store.arr) -> preheader' = preheader \o add /\ UNCHANGED placed
           [] OTHER               -> Replace(placed[Head(todo)] \o add) /\ UNCHANGED preheader
  PROVE  /\ preheader' \in Seq(Instructions)
         /\ placed' \in Seq(Seq(Instructions)) /\ DOMAIN placed' = DOMAIN placed
<1>0. /\ todo # <<>> /\ preheader \in Seq(Instructions) /\ placed \in Seq(Seq(Instructions))
      /\ diffs \in [Arrays -> Seq(DiffVals)]
  BY DEF Peel, PassInv, TypeOK
<1>1. add \in Seq(Instructions)
  BY <1>0, PerLoadIs, AdditionIs
<1>2. Head(todo) \in DOMAIN placed
  BY <1>0, AtStore DEF PassInv
<1>7. placed[Head(todo)] \in Seq(Instructions) /\ \A u, v \in Seq(Instructions) : u \o v \in Seq(Instructions)
  <2> DEFINE T == Seq(Instructions)
  <2>1. placed \in Seq(T)
    BY <1>0
  <2> HIDE DEF T
  <2>2. placed[Head(todo)] \in T
    BY <1>2, <2>1
  <2> QED
    BY <2>2 DEF T
<1>3. placed[Head(todo)] \o add \in Seq(Instructions) /\ preheader \o add \in Seq(Instructions)
  BY <1>0, <1>1, <1>7
<1>4. CASE UNCHANGED <<preheader, placed>>
  BY <1>0, <1>4
<1>5. CASE preheader' = preheader \o add /\ UNCHANGED placed
  BY <1>0, <1>3, <1>5
<1>6. CASE Replace(placed[Head(todo)] \o add) /\ UNCHANGED preheader
  BY <1>0, <1>3, <1>6, ReplaceKeeps
<1> QED
  BY <1>4, <1>5, <1>6

-----------------------------------------------------------------------------
(***************************************************************************)
(* The steps both passes take.                                             *)
(***************************************************************************)
LEMMA EnterKeeps == ASSUME PassInv, Enter, Rest PROVE PassInv'
<1> DEFINE new == [s \in DOMAIN Item.body |-> <<Original(s)>>]
<1>1. entered' = TRUE /\ todo' = todo /\ todo = <<>> /\ placed' = new /\ pend' = Written(Item)
      /\ UNCHANGED <<prog, pos, diffs, preheader, out, ghosts>>
  BY DEF Enter, PassInv
<1>2. pos \in 1..Len(prog) /\ pos \in DOMAIN prog /\ pos \in Nat
  <2>1. Len(prog) \in Nat /\ DOMAIN prog = 1..Len(prog)
    BY AtStore
  <2>2. pos \in 0..(Len(prog) + 1) /\ pos > 0 /\ ~(pos > Len(prog))
    BY DEF Enter, Finished, PassInv, TypeOK
  <2> QED
    BY <2>1, <2>2
<1>3. /\ Item.body \in Seq(Stores) /\ DOMAIN Item.body = 1..Len(Item.body) /\ Len(Item.body) \in Nat
      /\ \A s \in DOMAIN Item.body : s \in Nat /\ Item.body[s] \in Stores
  BY <1>2, AtStore DEF Item
<1>4. \A s \in DOMAIN Item.body : <<Original(s)>> \in Seq(Instructions)
  <2>1. <<>> \in Seq(DiffVals)
    OBVIOUS
  <2> QED
    BY <1>2, <1>3, <2>1 DEF Original, Instructions
<1>5. new \in Seq(Seq(Instructions)) /\ DOMAIN new = DOMAIN Item.body
  BY <1>3, <1>4
<1>6. Written(Item) \subseteq Arrays
  BY <1>3, LoadsAre DEF Written
<1>7. \A D : <<>> \in Seq(D)
  OBVIOUS
<1> HIDE DEF new
<1>8. TypeOK'
  BY <1>1, <1>5, <1>6 DEF PassInv, TypeOK, Rest, runVars, ghosts
<1> QED
  BY <1>1, <1>2, <1>5, <1>7, <1>8 DEF PassInv, Item

LEMMA ChooseKeeps ==
  ASSUME PassInv, NEW a, NEW ofN, ChooseArrayBy(a, ofN), Rest
  PROVE  PassInv'
<1> DEFINE D == DOMAIN Item.body
           ss == {s \in D : Item.body[s].arr = a}
<1>1. /\ entered /\ pend' = pend \ {a}
      /\ UNCHANGED <<prog, pos, entered, diffs, preheader, placed, out, ghosts>>
  BY DEF ChooseArrayBy
<1>2. pos \in 1..Len(prog) /\ pos \in DOMAIN prog /\ DOMAIN placed = D
  BY <1>1, AtStore DEF PassInv
<1>3. D \subseteq Nat /\ IsFiniteSet(D)
  <2> DEFINE n == Len(Item.body)
  <2>1. D = 1..n /\ n \in Nat
    BY <1>2, AtStore DEF Item
  <2> HIDE DEF D, n
  <2>2. IsFiniteSet(1..n)
    BY <2>1, FS_Interval
  <2> QED
    BY <2>1, <2>2
<1>4. \A s \in SUBSET D : InOrder(s) \subseteq Seq(D)
  BY <1>3, InOrderIs
<1>5. \A u, v \in Seq(D) : u \o v \in Seq(D)
  OBVIOUS
<1>6. todo' \in Seq(D)
  <2>1. ss \in SUBSET D /\ ss \cap ofN \in SUBSET D /\ ss \ ofN \in SUBSET D
    OBVIOUS
  <2>2. \/ \E first \in InOrder(ss \cap ofN), second \in InOrder(ss \ ofN) : todo' = first \o second
        \/ todo' \in InOrder(ss)
    BY DEF ChooseArrayBy
  <2> HIDE DEF D, ss
  <2> QED
    BY <1>4, <1>5, <2>1, <2>2
<1>7. todo' \in Seq(Nat)
  <2> DEFINE q == todo'
  <2> HIDE DEF D, q
  <2>1. q \in Seq(D)
    BY <1>6 DEF q
  <2>2. q \in Seq(Nat)
    BY <1>3, <2>1, SeqOfMore
  <2> QED
    BY <2>2 DEF q
<1>8. TypeOK'
  BY <1>1, <1>7 DEF PassInv, TypeOK, Rest, runVars, ghosts
<1> QED
  BY <1>1, <1>2, <1>6, <1>8 DEF PassInv, Item

LEMMA LeaveKeeps == ASSUME PassInv, Leave, Rest PROVE PassInv'
<1>0. /\ entered /\ pos \in 1..Len(prog) /\ Len(prog) \in Nat
      /\ out \in Seq(Instructions) /\ preheader \in Seq(Instructions) /\ placed \in Seq(Seq(Instructions))
  BY AtStore DEF Leave, PassInv, TypeOK
<1>1. /\ out' = out \o preheader \o FlattenSeq(placed) /\ pos' = pos + 1 /\ entered' = FALSE
      /\ preheader' = <<>> /\ placed' = <<>> /\ todo = <<>> /\ pend = {}
      /\ UNCHANGED <<prog, pend, todo, diffs, ghosts>>
  BY DEF Leave
<1>2. out' \in Seq(Instructions)
  <2>1. FlattenSeq(placed) \in Seq(Instructions)
    BY <1>0, FlatIsSeq
  <2> QED
    BY <1>0, <1>1, <2>1
<1>3. pos' \in 0..(Len(prog') + 1) /\ preheader' \in Seq(Instructions) /\ placed' \in Seq(Seq(Instructions))
  BY <1>0, <1>1
<1>4. TypeOK'
  BY <1>1, <1>2, <1>3 DEF PassInv, TypeOK, Rest, runVars, ghosts
<1> QED
  BY <1>1, <1>4 DEF PassInv

LEMMA BlockKeeps ==
  ASSUME PassInv, Rest,
         LoopConstant \/ BlockConstant \/ BlockCopy \/ BlockOther
  PROVE  PassInv'
<1>0. /\ diffs \in [Arrays -> Seq(DiffVals)] /\ preheader \in Seq(Instructions)
      /\ placed \in Seq(Seq(Instructions)) /\ <<>> \in Seq(Instructions)
  BY DEF PassInv, TypeOK
<1>1. CASE LoopConstant
  <2>1. vague' \subseteq Arrays
    BY <1>1, JudgeKeeps DEF LoopConstant, LoopJudge, Peel
  <2> QED
    BY <1>0, <1>1, <2>1, PeelKeeps DEF LoopConstant
<1>2. CASE BlockConstant
  <2>1. vague' \subseteq Arrays
    BY <1>2, JudgeKeeps DEF BlockConstant, BlockJudge, Peel
  <2>2. placed' \in Seq(Seq(Instructions)) /\ DOMAIN placed' = DOMAIN placed
    BY <1>0, <1>2, ReplaceKeeps DEF BlockConstant
  <2> QED
    BY <1>0, <1>2, <2>1, <2>2, PeelKeeps DEF BlockConstant
<1>3. CASE BlockCopy
  <2> DEFINE ds == diffs[Store.loads[1].arr]
  <2>0. todo # <<>> /\ OneLoad(Store)
    BY <1>3 DEF BlockCopy, Peel
  <2>1. vague' \subseteq Arrays
    BY <1>3, <2>0, JudgeKeeps DEF BlockCopy, BlockJudge
  <2>2. ds \in Seq(DiffVals)
    <3>1. Store \in Stores
      BY <2>0, AtStore
    <3>2. Len(Store.loads) = 1 /\ Store.loads \in Seq(Loads)
      BY <2>0, <3>1, LoadsAre DEF OneLoad
    <3>3. Store.loads[1].arr \in Arrays
      BY <3>1, <3>2, LoadsAre
    <3> QED
      BY <1>0, <3>3
  <2>3. \/ Replace(<<>>) /\ UNCHANGED diffs
        \/ ds # <<>> /\ Replace(<<Addition(FALSE, <<Last(ds)>>)>>) /\ Record(<<Last(ds)>>)
    BY <1>3 DEF BlockCopy
  <2>4. ds # <<>> => <<Last(ds)>> \in Seq(DiffVals)
    <3> HIDE DEF ds
    <3> QED
      BY <2>2 DEF Last
  <2> HIDE DEF ds
  <2>5. diffs' \in [Arrays -> Seq(DiffVals)]
    BY <1>0, <2>3, <2>4, RecordKeeps
  <2>6. placed' \in Seq(Seq(Instructions)) /\ DOMAIN placed' = DOMAIN placed
    BY <1>0, <2>0, <2>3, <2>4, AdditionIs, ReplaceKeeps
  <2> QED
    BY <1>0, <1>3, <2>1, <2>5, <2>6, PeelKeeps DEF BlockCopy
<1>4. CASE BlockOther
  <2>1. vague' \subseteq Arrays
    BY <1>4, JudgeKeeps DEF BlockOther, BlockJudge, Peel
  <2> QED
    BY <1>0, <1>4, <2>1, PeelKeeps DEF BlockOther
<1> QED
  BY <1>1, <1>2, <1>3, <1>4

(* Those of diff_preds alone, and those of aggr_llvm_diff alone. *)
LEMMA PredsKeep ==
  ASSUME PassInv, Rest, LoopOfN \/ LoopSum \/ BlockOfN
  PROVE  PassInv'
<1>0. /\ diffs \in [Arrays -> Seq(DiffVals)] /\ preheader \in Seq(Instructions)
      /\ placed \in Seq(Seq(Instructions)) /\ <<>> \in Seq(Instructions) /\ todo # <<>>
  BY DEF PassInv, TypeOK, LoopOfN, LoopSum, BlockOfN, Peel
<1>1. Store \in Stores /\ <<OfTerm(Store.term)>> \in Seq(DiffVals)
  <2>1. Store \in Stores /\ Store.term \in Terms
    BY <1>0, AtStore, LoadsAre
  <2>2. OfTerm(Store.term) \in DiffVals
    BY <2>1, TermsOf
  <2> QED
    BY <2>1, <2>2
<1>2. CASE LoopOfN
  <2>1. vague' \subseteq Arrays
    BY <1>0, <1>2, JudgeKeeps DEF LoopOfN, LoopJudge
  <2>2. diffs' \in [Arrays -> Seq(DiffVals)]
    BY <1>1, <1>2, RecordKeeps DEF LoopOfN
  <2> QED
    BY <1>0, <1>2, <2>1, <2>2, PeelKeeps DEF LoopOfN
<1>3. CASE LoopSum
  <2>1. vague' \subseteq Arrays
    BY <1>0, <1>3, JudgeKeeps DEF LoopSum, LoopJudge
  <2>2. AppendedDiffs(Store) \o AdditionalRecord(Store) \in Seq(DiffVals)
    BY <1>0, <1>1, PerLoadIs, RecordIs
  <2>3. diffs' \in [Arrays -> Seq(DiffVals)]
    BY <1>3, <2>2, RecordKeeps DEF LoopSum
  <2>4. /\ preheader' \in Seq(Instructions)
        /\ placed' \in Seq(Seq(Instructions)) /\ DOMAIN placed' = DOMAIN placed
    BY <1>1, <1>3, SumKeeps DEF LoopSum
  <2> QED
    BY <1>3, <2>1, <2>3, <2>4, PeelKeeps DEF LoopSum
<1>4. CASE BlockOfN
  <2>1. vague' \subseteq Arrays
    BY <1>0, <1>4, JudgeKeeps DEF BlockOfN, BlockJudge
  <2>2. diffs' \in [Arrays -> Seq(DiffVals)]
    BY <1>1, <1>4, RecordKeeps DEF BlockOfN
  <2>3. placed' \in Seq(Seq(Instructions)) /\ DOMAIN placed' = DOMAIN placed
    <3>1. <<Addition(TRUE, <<OfTerm(Store.term)>>)>> \in Seq(Instructions)
      BY <1>0, <1>1, AdditionIs
    <3> QED
      BY <1>0, <1>4, <3>1, ReplaceKeeps DEF BlockOfN
  <2> QED
    BY <1>0, <1>4, <2>1, <2>2, <2>3, PeelKeeps DEF BlockOfN
<1> QED
  BY <1>2, <1>3, <1>4

LEMMA AggrKeep ==
  ASSUME PassInv, Rest,
         AggrLoopOfN \/ AggrBlockOfN \/ \E order \in SetToSeqs(ReadIn(Item)) : AggrLoopSum(order)
  PROVE  PassInv'
<1>0. /\ diffs \in [Arrays -> Seq(DiffVals)] /\ preheader \in Seq(Instructions)
      /\ placed \in Seq(Seq(Instructions)) /\ <<>> \in Seq(Instructions) /\ todo # <<>>
  <2>1. todo # <<>>
    BY DEF AggrLoopOfN, AggrBlockOfN, AggrLoopSum, Peel
  <2> QED
    BY <2>1 DEF PassInv, TypeOK
<1>1. Store \in Stores /\ <<constOne>> \in Seq(DiffVals)
  BY <1>0, AtStore, TermsOf
<1>2. CASE AggrLoopOfN
  <2>1. vague' \subseteq Arrays
    BY <1>0, <1>2, JudgeKeeps DEF AggrLoopOfN
  <2>2. diffs' \in [Arrays -> Seq(DiffVals)]
    BY <1>1, <1>2, RecordKeeps DEF AggrLoopOfN
  <2> QED
    BY <1>0, <1>2, <2>1, <2>2, PeelKeeps DEF AggrLoopOfN
<1>3. ASSUME NEW order \in SetToSeqs(ReadIn(Item)), AggrLoopSum(order) PROVE PassInv'
  <2>0. order \in Seq(Arrays)
    BY <1>0, OrderIs
  <2>1. vague' \subseteq Arrays
    BY <1>0, <1>3, JudgeKeeps DEF AggrLoopSum
  <2> DEFINE seen == Seen(Store, order)
  <2>5. seen \in Stores
    BY <1>1, <2>0, SeenIs
  <2> HIDE DEF seen
  <2>2. AppendedDiffs(seen) \o LocalDiff(Store, order) \in Seq(DiffVals)
    BY <1>0, <2>0, <2>5, PerLoadIs, LocalDiffIs
  <2>3. diffs' \in [Arrays -> Seq(DiffVals)]
    BY <1>3, <2>2, RecordKeeps DEF AggrLoopSum, seen
  <2>4. /\ preheader' \in Seq(Instructions)
        /\ placed' \in Seq(Seq(Instructions)) /\ DOMAIN placed' = DOMAIN placed
    BY <1>3, <2>5, SumKeeps DEF AggrLoopSum, seen
  <2> QED
    BY <1>3, <2>1, <2>3, <2>4, PeelKeeps DEF AggrLoopSum
<1>4. CASE AggrBlockOfN
  <2>1. vague' \subseteq Arrays
    BY <1>0, <1>4, JudgeKeeps DEF AggrBlockOfN
  <2>2. diffs' \in [Arrays -> Seq(DiffVals)]
    BY <1>1, <1>4, RecordKeeps DEF AggrBlockOfN
  <2>3. placed' \in Seq(Seq(Instructions)) /\ DOMAIN placed' = DOMAIN placed
    <3>1. <<Addition(TRUE, <<constOne>>)>> \in Seq(Instructions)
      BY <1>0, <1>1, AdditionIs
    <3> QED
      BY <1>0, <1>4, <3>1, ReplaceKeeps DEF AggrBlockOfN
  <2> QED
    BY <1>0, <1>4, <2>1, <2>2, <2>3, PeelKeeps DEF AggrBlockOfN
<1> QED
  BY <1>2, <1>3, <1>4

(* What opens the pass, and what it does to a function without loops. *)
LEMMA PeelFunctionKeeps == ASSUME PassInv, PeelFunction \/ AggrPeelFunction, Rest PROVE PassInv'
<1>1. /\ pos = 0 /\ pos' = 1 /\ vague' \subseteq Arrays
      /\ UNCHANGED <<prog, pend, todo, entered, diffs, preheader, placed, out>>
  BY DEF PassInv, TypeOK, PeelFunction, AggrPeelFunction, ghosts
<1>2. ~entered /\ pos' \in 0..(Len(prog) + 1)
  BY <1>1, AtStore DEF PassInv
<1>3. TypeOK'
  BY <1>1, <1>2 DEF PassInv, TypeOK, Rest, runVars
<1> QED
  BY <1>1, <1>2, <1>3 DEF PassInv

LEMMA KeepFunctionKeeps == ASSUME PassInv, KeepFunction, Rest PROVE PassInv'
<1> DEFINE Store_(p, s) == [Original(s) EXCEPT !.item = p]
           Of(p) == [s \in DOMAIN prog[p].body |-> Store_(p, s)]
           all == [p \in DOMAIN prog |-> Of(p)]
<1>1. /\ pos = 0 /\ pos' = Len(prog) + 1 /\ vague' = Arrays /\ out' = FlattenSeq(all)
      /\ UNCHANGED <<prog, pend, todo, entered, diffs, preheader, placed>>
  BY DEF KeepFunction
<1>2. Len(prog) \in Nat /\ DOMAIN prog = 1..Len(prog)
  BY AtStore
<1>3. ASSUME NEW p \in DOMAIN prog PROVE Of(p) \in Seq(Instructions)
  <2> DEFINE n == Len(prog[p].body)
  <2>1. p \in Nat /\ n \in Nat /\ DOMAIN prog[p].body = 1..n
    BY <1>2, AtStore
  <2>2. ASSUME NEW s \in 1..n PROVE Store_(p, s) \in Instructions
    <3>1. <<>> \in Seq(DiffVals) /\ s \in Nat /\ pos \in Nat
      BY <1>1, <2>1
    <3>2. Original(s) \in Instructions
      BY <3>1 DEF Original, Instructions
    <3>3. \A x \in Instructions : [x EXCEPT !.item = p] \in Instructions
      BY <2>1 DEF Instructions
    <3> QED
      BY <3>2, <3>3
  <2> HIDE DEF Store_, n
  <2> QED
    BY <2>1, <2>2
<1>4. all \in Seq(Seq(Instructions))
  <2> HIDE DEF Of
  <2> QED
    BY <1>2, <1>3
<1> HIDE DEF all
<1>5. out' \in Seq(Instructions)
  BY <1>1, <1>4, FlatIsSeq
<1>6. ~entered /\ pos' \in 0..(Len(prog) + 1)
  BY <1>1, <1>2, AtStore DEF PassInv
<1>7. TypeOK'
  BY <1>1, <1>5, <1>6 DEF PassInv, TypeOK, Rest, runVars
<1> QED
  BY <1>1, <1>6, <1>7 DEF PassInv

-----------------------------------------------------------------------------
LEMMA PassKeeps == ASSUME PassInv, RunPass, UNCHANGED runVars PROVE PassInv'
<1>0. unsupported \in 0..3 /\ aborted \in BOOLEAN
  BY DEF PassInv, TypeOK
<1>1. CASE Next /\ UNCHANGED aborted
  <2>1. unsupported' \in 0..3
    BY <1>0, <1>1 DEF Next, PeelFunction, KeepFunction
  <2>2. Rest
    BY <1>0, <1>1, <2>1 DEF Rest
  <2>3. CASE PeelFunction
    BY <2>2, <2>3, PeelFunctionKeeps
  <2>4. CASE KeepFunction
    BY <2>2, <2>4, KeepFunctionKeeps
  <2>5. CASE PeelItems
    <3>1. CASE Enter
      BY <2>2, <3>1, EnterKeeps
    <3>2. ASSUME NEW a \in pend, ChooseArray(a) PROVE PassInv'
      BY <2>2, <3>2, ChooseKeeps DEF ChooseArray
    <3>3. CASE LoopOfN \/ LoopSum \/ BlockOfN
      BY <2>2, <3>3, PredsKeep
    <3>4. CASE LoopConstant \/ BlockConstant \/ BlockCopy \/ BlockOther
      BY <2>2, <3>4, BlockKeeps
    <3>5. CASE Leave
      BY <2>2, <3>5, LeaveKeeps
    <3> QED
      BY <2>5, <3>1, <3>2, <3>3, <3>4, <3>5 DEF PeelItems
  <2> QED
    BY <1>1, <2>3, <2>4, <2>5 DEF Next
<1>2. CASE AggrNext
  <2>1. CASE (AggrPeelFunction \/ KeepFunction) /\ UNCHANGED aborted
    <3>1. unsupported' \in 0..3
      BY <1>0, <2>1 DEF AggrPeelFunction, KeepFunction
    <3>2. Rest
      BY <1>0, <2>1, <3>1 DEF Rest
    <3> QED
      BY <2>1, <3>2, PeelFunctionKeeps, KeepFunctionKeeps
  <2>2. CASE (Enter \/ AggrChooseArray \/ Leave) /\ UNCHANGED <<unsupported, aborted>>
    <3>1. Rest
      BY <1>0, <2>2 DEF Rest
    <3> QED
      BY <2>2, <3>1, EnterKeeps, ChooseKeeps, LeaveKeeps DEF AggrChooseArray
  <2>3. CASE entered /\ AggrPeelStore /\ FlagRem /\ UNCHANGED aborted
    <3>1. Rest
      BY <1>0, <2>3 DEF Rest, FlagRem
    <3>2. CASE LoopConstant \/ BlockConstant \/ BlockCopy \/ BlockOther
      BY <3>1, <3>2, BlockKeeps
    <3>3. CASE AggrLoopOfN \/ AggrBlockOfN \/ \E order \in SetToSeqs(ReadIn(Item)) : AggrLoopSum(order)
      BY <3>1, <3>3, AggrKeep
    <3> QED
      BY <2>3, <3>2, <3>3 DEF AggrPeelStore, AggrBlockOther
  <2>4. ASSUME NEW order, Abort(order) PROVE PassInv'
    BY <2>4 DEF Abort, PassInv, TypeOK, Item, vars, pass, ghosts, runVars
  <2> QED
    BY <1>2, <2>1, <2>2, <2>3, <2>4 DEF AggrNext
<1> QED
  BY <1>1, <1>2 DEF RunPass

LEMMA RunKeeps ==
  ASSUME PassInv, RunBase \/ RunDifference \/ UNCHANGED <<vars, aborted, runVars>>
  PROVE  PassInv'
<1>1. /\ UNCHANGED <<vars, aborted, mode>>
      /\ size' \in 0..MaxN /\ held' \in BOOLEAN
  <2>1. size \in 0..MaxN /\ held \in BOOLEAN
    BY DEF PassInv, TypeOK
  <2>2. CASE RunBase
    <3>1. HoldsAt(Final(1), 1, 0) \in BOOLEAN
      BY DEF HoldsAt
    <3>2. size' = 1 /\ held' \in BOOLEAN /\ UNCHANGED <<vars, aborted, mode>>
      BY <2>2, <3>1 DEF RunBase
    <3> QED
      BY <3>2, MaxNAssumption
  <2>3. CASE RunDifference
    <3>1. size' \in 0..MaxN /\ UNCHANGED <<vars, aborted, mode>>
      BY <2>1, <2>3, MaxNAssumption DEF RunDifference
    <3>2. held' \in BOOLEAN
      BY <2>1, <2>3 DEF RunDifference
    <3> QED
      BY <3>1, <3>2
  <2>4. CASE UNCHANGED <<vars, aborted, runVars>>
    BY <2>1, <2>4 DEF runVars
  <2> QED
    BY <2>2, <2>3, <2>4
<1> QED
  BY <1>1 DEF PassInv, TypeOK, Item, vars, pass, ghosts

LEMMA PassStarts == RunInit => PassInv
<1> SUFFICES ASSUME RunInit PROVE PassInv
  OBVIOUS
<1>1. /\ prog \in Functions /\ pos = 0 /\ pend = {} /\ todo = <<>> /\ entered = FALSE
      /\ diffs = [a \in Arrays |-> <<>>] /\ preheader = <<>> /\ placed = <<>> /\ out = <<>>
      /\ unsupported = 0 /\ vague = {} /\ aborted = FALSE /\ mode \in Modes /\ size = 0 /\ held = TRUE
  BY DEF RunInit, Init
<1>2. Len(prog) \in Nat
  BY <1>1, FunctionsAssumption
<1>3. \A D : <<>> \in Seq(D)
  OBVIOUS
<1>4. /\ diffs \in [Arrays -> Seq(DiffVals)] /\ preheader \in Seq(Instructions) /\ out \in Seq(Instructions)
      /\ placed \in Seq(Seq(Instructions)) /\ todo \in Seq(Nat)
  BY <1>1, <1>3
<1>5. pos \in 0..(Len(prog) + 1) /\ unsupported \in 0..3 /\ size \in 0..MaxN
  BY <1>1, <1>2, MaxNAssumption
<1> QED
  BY <1>1, <1>4, <1>5 DEF PassInv, TypeOK

(***************************************************************************)
(* Either pass, on any function: what is recorded, inserted and left in    *)
(* place is well-formed, the flag is one of the four values the driver     *)
(* knows, and no step looks for a store that is not of the item it is at.  *)
(***************************************************************************)
THEOREM DifferenceTypes == RunSpec => []TypeOK
<1>1. PassInv /\ [RunNext]_<<vars, aborted, runVars>> => PassInv'
  BY PassKeeps, RunKeeps DEF RunNext
<1>2. PassInv => TypeOK
  BY DEF PassInv
<1> QED
  BY <1>1, <1>2, PassStarts, PTL DEF RunSpec

-----------------------------------------------------------------------------
(***************************************************************************)
(* A store of a loop, as the pass comes to it.                            *)
(***************************************************************************)

(* A loop's store without a gap. *)
LEMMA NoLoopGaps ==
  ASSUME NEW st, LoopGaps(st) = {}
  PROVE  /\ \A l \in LoadsOf(st) : StoredLater(l.arr) => l.idx # "below" /\ ~(IsStatic(l.arr) /\ l \in OthersOf(st))
         /\ \A l \in OthersOf(st) : l.idx = "below" => ~Differs(l.arr)
         /\ Accumulates(st) =>
              /\ \A p \in 1..(pos - 1) : \A s \in DOMAIN prog[p].body :
                   prog[p].body[s].arr = st.arr => ~Restarts(prog[p].loop, prog[p].body[s])
              /\ ~Multiplied(st) /\ EvenTerm(st)
              /\ \A l \in OthersOf(st) : ~Unknown(l.arr) /\ (Differs(l.arr) => ~IsStatic(l.arr) /\ l.coef = 1)
              /\ Item.first = 1 => ~MentionsN(st.term) /\ \A l \in OthersOf(st) : ~Differs(l.arr)
         /\ ~IsStatic(st.arr) /\ diffs[st.arr] # <<>> => \A l \in OwnOf(st) : l.idx # "counter"
         /\ Recurs(st) =>
              /\ ~MentionsN(st.term) /\ st.arr \notin vague /\ \A l \in OthersOf(st) : ~Differs(l.arr)
              /\ diffs[st.arr] # <<>> => ~Multiplied(st)
<1> DEFINE G == [
    overwritten |-> \E l \in LoadsOf(st) : /\ StoredLater(l.arr)
                                           /\ (l.idx = "below" \/ (IsStatic(l.arr) /\ l \in OthersOf(st))),
    stale       |-> \E l \in OthersOf(st) : l.idx = "below" /\ Differs(l.arr),
    restarted   |-> Accumulates(st) /\ \E p \in 1..(pos - 1) : \E s \in DOMAIN prog[p].body :
                      prog[p].body[s].arr = st.arr /\ Restarts(prog[p].loop, prog[p].body[s]),
    doubled     |-> Accumulates(st) /\ Multiplied(st),
    unknown     |-> Accumulates(st) /\ \E l \in OthersOf(st) : Unknown(l.arr),
    scalar      |-> Accumulates(st) /\ \E l \in OthersOf(st) : IsStatic(l.arr) /\ Differs(l.arr),
    scaled      |-> Accumulates(st) /\ \E l \in OthersOf(st) : l.coef # 1 /\ Differs(l.arr),
    short       |-> /\ Accumulates(st) /\ Item.first = 1
                    /\ (MentionsN(st.term) \/ \E l \in OthersOf(st) : Differs(l.arr)),
    uneven      |-> Accumulates(st) /\ ~EvenTerm(st),
    again       |-> ~IsStatic(st.arr) /\ diffs[st.arr] # <<>> /\ \E l \in OwnOf(st) : l.idx = "counter",
    recurrence  |-> /\ Recurs(st)
                    /\ \/ MentionsN(st.term)
                       \/ st.arr \in vague
                       \/ \E l \in OthersOf(st) : Differs(l.arr)
                       \/ diffs[st.arr] # <<>> /\ Multiplied(st)]
<1>1. LoopGaps(st) = {g \in DOMAIN G : G[g]}
  BY Zenon DEF LoopGaps
<1>2. DOMAIN G = {"overwritten", "stale", "restarted", "doubled", "unknown", "scalar", "scaled", "short", "uneven", "again", "recurrence"}
  OBVIOUS
<1>3. \A g \in DOMAIN G : ~G[g]
  <2> HIDE DEF G
  <2> QED
    BY <1>1
<1>4. /\ ~G.overwritten /\ ~G.stale /\ ~G.restarted /\ ~G.doubled /\ ~G.unknown /\ ~G.scalar /\ ~G.scaled /\ ~G.short
      /\ ~G.uneven /\ ~G.again /\ ~G.recurrence
  <2> HIDE DEF G
  <2> QED
    BY <1>2, <1>3
<1>5. ~(\E l \in LoadsOf(st) : StoredLater(l.arr) /\ (l.idx = "below" \/ (IsStatic(l.arr) /\ l \in OthersOf(st))))
  BY <1>4
<1>6. ~(\E l \in OthersOf(st) : l.idx = "below" /\ Differs(l.arr))
  BY <1>4
<1>7. ~(Accumulates(st) /\ \E p \in 1..(pos - 1) : \E s \in DOMAIN prog[p].body :
                      prog[p].body[s].arr = st.arr /\ Restarts(prog[p].loop, prog[p].body[s]))
  BY <1>4
<1>8. ~(Accumulates(st) /\ Multiplied(st)) /\ ~(Accumulates(st) /\ ~EvenTerm(st))
  BY <1>4
<1>9. ~(Accumulates(st) /\ \E l \in OthersOf(st) : Unknown(l.arr))
  BY <1>4
<1>10. ~(Accumulates(st) /\ \E l \in OthersOf(st) : IsStatic(l.arr) /\ Differs(l.arr))
  BY <1>4
<1>11. ~(Accumulates(st) /\ \E l \in OthersOf(st) : l.coef # 1 /\ Differs(l.arr))
  BY <1>4
<1>12. ~(Accumulates(st) /\ Item.first = 1 /\ (MentionsN(st.term) \/ \E l \in OthersOf(st) : Differs(l.arr)))
  BY <1>4
<1>13. ~(~IsStatic(st.arr) /\ diffs[st.arr] # <<>> /\ \E l \in OwnOf(st) : l.idx = "counter")
  BY <1>4
<1>14. ~(Recurs(st) /\ (MentionsN(st.term) \/ st.arr \in vague \/ (\E l \in OthersOf(st) : Differs(l.arr))
                          \/ (diffs[st.arr] # <<>> /\ Multiplied(st))))
  BY <1>4
<1> HIDE DEF G
<1> QED
  BY <1>5, <1>6, <1>7, <1>8, <1>9, <1>10, <1>11, <1>12, <1>13, <1>14

(* A loop the pass is in: d and v are what it had recorded before, D the stores it has gone through. *)
LoopInv(p, d, v, D, dc, vc, pre, pl) ==
  /\ p \in DOMAIN prog /\ prog[p].loop /\ d \in Diffs /\ d \in DiffsTo(p - 1) /\ Fresh(d, v, p - 1) /\ D \subseteq DOMAIN prog[p].body
  /\ dc \in DiffsTo(p) /\ Outside(p, d, v, dc, vc)
  /\ \A s \in D : GoodLoop(p, s, d, v) /\ (prog[p].body[s].arr \notin vc => ExactStore(p, s, d, v))
  /\ \A a \in Arrays \ vc : Records(p, d, dc, a, D)
  /\ \A a \in Arrays : /\ d[a] # <<>> => dc[a] # <<>>
                       /\ prog[p].first = 1 /\ a \notin Static /\ a \notin vc => dc[a] = d[a]
  /\ pre \in Seq(Instructions) /\ Inserts(pre, p, d, D)
  /\ DOMAIN pl = DOMAIN prog[p].body
  /\ \A s \in DOMAIN prog[p].body : IF s \in D THEN PlacedFor(p, s, d, pl[s]) ELSE pl[s] = <<OrigAt(p, s)>>

(* ... and the store it comes to. *)
Peeling(p, s, d, v, D) ==
  LET st == prog[p].body[s] IN
  /\ pos = p /\ Head(todo) = s /\ s \in DOMAIN prog[p].body \ D
  /\ LoopInv(p, d, v, D, diffs, vague, preheader, placed)
  /\ LoopGaps(st) = {} /\ \A l \in LoadsOf(st) : l.idx # "last"
  /\ Recurs(st) => \A q \in 1..(s - 1) : prog[p].body[q].arr = st.arr => q \in D

(* The pass's view of other arrays. *)
Views(p, s, d, v) ==
  /\ pos = p /\ Head(todo) = s /\ p \in Nat \ {0} /\ p \in DOMAIN prog /\ s \in DOMAIN prog[p].body
  /\ Outside(p, d, v, diffs, vague)

LEMMA ViewsAre ==
  ASSUME NEW p, NEW s, NEW d, NEW v, Views(p, s, d, v)
  PROVE  /\ Item = prog[p] /\ Store = prog[p].body[s]
         /\ \A a : StoredEarlier(a) <=> EarlierAt(p, s, a)
         /\ \A a : StoredLater(a) <=> LaterAt(p, s, a)
         /\ \A b : Partial(b) <=> PartialAt(b, p - 1)
         /\ \A b \in Arrays : ~Unknown(b) => /\ b \notin v /\ b \notin Written(prog[p]) /\ diffs[b] = d[b]
                                             /\ prog[p].loop /\ PartialAt(b, p - 1) => d[b] = <<>>
         /\ \A b \in Arrays : ~Differs(b) => Same(p, b, d, v)
<1>1. Item = prog[p] /\ Store = prog[p].body[s] /\ pos = p /\ Head(todo) = s
  BY DEF Item, Store, Views
<1>2. ASSUME NEW a PROVE (StoredEarlier(a) <=> EarlierAt(p, s, a)) /\ (StoredLater(a) <=> LaterAt(p, s, a)) /\ (Partial(a) <=> PartialAt(a, p - 1))
  BY <1>1 DEF StoredEarlier, EarlierAt, StoredBy, StoredLater, LaterAt, Partial, PartialAt
<1>3. ASSUME NEW b \in Arrays, ~Unknown(b)
      PROVE  b \notin v /\ b \notin Written(prog[p]) /\ diffs[b] = d[b] /\ (prog[p].loop /\ PartialAt(b, p - 1) => d[b] = <<>>)
  <2>1. b \notin vague /\ b \notin Written(prog[p])
    BY <1>1, <1>3 DEF Unknown
  <2>2. diffs[b] = d[b] /\ b \notin v
    BY <2>1 DEF Views, Outside
  <2> QED
    BY <1>1, <1>2, <1>3, <2>1, <2>2 DEF Unknown
<1>4. ASSUME NEW b \in Arrays, ~Differs(b) PROVE Same(p, b, d, v)
  <2>1. ~Unknown(b) /\ diffs[b] = <<>>
    BY <1>4 DEF Differs
  <2> QED
    BY <1>3, <2>1 DEF Same
<1> QED
  BY <1>1, <1>2, <1>3, <1>4

LEMMA PeelingIs ==
  ASSUME Plain, NEW p, NEW s, NEW d, NEW v, NEW D, Peeling(p, s, d, v, D)
  PROVE  /\ p \in Nat \ {0} /\ p \in DOMAIN prog /\ prog[p].loop /\ s \in DOMAIN prog[p].body /\ s \notin D /\ s \in Nat \ {0} /\ Views(p, s, d, v)
         /\ St(p, s) = prog[p].body[s] /\ St(p, s) \in Stores /\ St(p, s).arr = Arr(p, s) /\ Arr(p, s) = prog[p].body[s].arr /\ Arr(p, s) \in Arrays
         /\ prog[p].first \in {0, 1} /\ Placed(prog[p], St(p, s)) /\ d \in Diffs /\ d \in DiffsTo(p - 1) /\ Fresh(d, v, p - 1)
         /\ LoopGaps(St(p, s)) = {} /\ \A l \in LoadsOf(St(p, s)) : l.idx \in {"counter", "below"} /\ l.arr \in Arrays /\ l.coef \in Int
         /\ Item = prog[p] /\ Store = St(p, s) /\ pos = p /\ Head(todo) = s /\ diffs \in DiffsTo(p)
         /\ DOMAIN prog[p].body = 1..Len(prog[p].body) /\ Len(prog[p].body) \in Nat
<1>1. LoopInv(p, d, v, D, diffs, vague, preheader, placed) /\ pos = p /\ Head(todo) = s /\ s \in DOMAIN prog[p].body /\ s \notin D
  BY DEF Peeling
<1>2. p \in DOMAIN prog /\ prog[p].loop /\ d \in Diffs /\ d \in DiffsTo(p - 1) /\ Fresh(d, v, p - 1) /\ Outside(p, d, v, diffs, vague)
      /\ diffs \in DiffsTo(p)
  BY <1>1 DEF LoopInv
<1>3. p \in Nat \ {0}
  BY <1>2 DEF Plain
<1>4. Views(p, s, d, v)
  BY <1>1, <1>2, <1>3 DEF Views
<1>5. /\ St(p, s) = prog[p].body[s] /\ St(p, s) \in Stores /\ St(p, s).arr = Arr(p, s) /\ Arr(p, s) = prog[p].body[s].arr /\ Arr(p, s) \in Arrays
      /\ prog[p].first \in {0, 1} /\ Placed(prog[p], St(p, s))
      /\ DOMAIN prog[p].body = 1..Len(prog[p].body) /\ Len(prog[p].body) \in Nat
  BY <1>1, <1>2, PlainIs, StoreIs DEF St, Arr
<1>6. s \in Nat \ {0}
  BY <1>1, <1>5
<1>7. LoopGaps(St(p, s)) = {} /\ \A l \in LoadsOf(St(p, s)) : l.idx \in {"counter", "below"} /\ l.arr \in Arrays /\ l.coef \in Int
  BY <1>1, <1>2, <1>5, LoadIs DEF Peeling
<1>8. Item = prog[p] /\ Store = St(p, s)
  BY <1>4, <1>5, ViewsAre
<1> QED
  BY <1>1, <1>2, <1>3, <1>4, <1>5, <1>6, <1>7, <1>8

(* What the gaps leave is what the difference function needs. *)
LEMMA PeelingReads ==
  ASSUME Plain, NEW p, NEW s, NEW d, NEW v, NEW D, Peeling(p, s, d, v, D)
  PROVE  /\ GoodReads(p, s)
         /\ \A l \in OthersOf(St(p, s)) : l.idx = "below" => Same(p, l.arr, d, v)
         /\ \A l \in OthersOf(St(p, s)) : ~Unknown(l.arr) /\ (l.coef = 1 \/ ~Differs(l.arr)) => KnownLoad(p, l, d, v)
<1> DEFINE st == St(p, s)
<1>1. /\ Views(p, s, d, v) /\ LoopGaps(st) = {} /\ st = prog[p].body[s]
      /\ \A l \in LoadsOf(st) : l.idx \in {"counter", "below"} /\ l.arr \in Arrays
  BY PeelingIs
<1>2. /\ \A a : StoredLater(a) <=> LaterAt(p, s, a)
      /\ \A b \in Arrays : ~Differs(b) => Same(p, b, d, v)
      /\ \A b \in Arrays : ~Unknown(b) => b \notin v /\ b \notin Written(prog[p]) /\ diffs[b] = d[b] /\ (prog[p].loop /\ PartialAt(b, p - 1) => d[b] = <<>>)
  BY <1>1, ViewsAre
<1>3. /\ \A l \in LoadsOf(st) : StoredLater(l.arr) => l.idx # "below" /\ ~(IsStatic(l.arr) /\ l \in OthersOf(st))
      /\ \A l \in OthersOf(st) : l.idx = "below" => ~Differs(l.arr)
  BY <1>1, NoLoopGaps
<1>4. OthersOf(st) \subseteq LoadsOf(st) /\ \A l \in LoadsOf(st) : l.arr # st.arr => l \in OthersOf(st)
  BY DEF OthersOf
<1> HIDE DEF st
<1>5. GoodReads(p, s)
  <2>1. ASSUME NEW l \in LoadsOf(st) PROVE l.idx # "last" /\ (LaterAt(p, s, l.arr) => l.idx # "below" /\ ~(IsStatic(l.arr) /\ l.arr # st.arr))
    BY <1>1, <1>2, <1>3, <1>4
  <2> QED
    BY <1>1, <2>1 DEF GoodReads
<1>6. \A l \in OthersOf(st) : l.idx = "below" => Same(p, l.arr, d, v)
  BY <1>1, <1>2, <1>3, <1>4
<1>7. ASSUME NEW l \in OthersOf(st), ~Unknown(l.arr), l.coef = 1 \/ ~Differs(l.arr) PROVE KnownLoad(p, l, d, v)
  <2>1. l.arr \in Arrays /\ l.idx # "last"
    BY <1>1, <1>4
  <2>2. l.idx = "below" => Same(p, l.arr, d, v)
    BY <1>6
  <2>3. l.coef = 1 \/ Same(p, l.arr, d, v)
    BY <1>2, <1>7, <2>1
  <2> QED
    BY <1>2, <1>7, <2>1, <2>2, <2>3 DEF KnownLoad, Same
<1> QED
  BY <1>5, <1>6, <1>7 DEF st

LEMMA PeelingSum ==
  ASSUME Plain, NEW p, NEW s, NEW d, NEW v, NEW D, Peeling(p, s, d, v, D), Accumulates(St(p, s))
  PROVE  GoodSum(p, s, d, v) /\ \A l \in OthersOf(St(p, s)) : diffs[l.arr] = d[l.arr] /\ (l.arr \in Static => d[l.arr] = <<>>)
<1> DEFINE st == St(p, s)
<1>1. /\ Views(p, s, d, v) /\ LoopGaps(st) = {} /\ st = prog[p].body[s] /\ Item = prog[p] /\ pos = p /\ st \in Stores /\ d \in Diffs
      /\ \A l \in LoadsOf(st) : l.arr \in Arrays
  BY PeelingIs
<1>2. OthersOf(st) \subseteq LoadsOf(st)
  BY DEF OthersOf
<1>3. /\ \A b \in Arrays : ~Differs(b) => Same(p, b, d, v)
      /\ \A b \in Arrays : ~Unknown(b) => diffs[b] = d[b]
  BY <1>1, ViewsAre
<1> HIDE DEF st
<1>4. /\ \A q \in 1..(p - 1) : \A k \in DOMAIN prog[q].body : prog[q].body[k].arr = st.arr => ~Restarts(prog[q].loop, prog[q].body[k])
      /\ ~Multiplied(st) /\ EvenTerm(st)
      /\ \A l \in OthersOf(st) : ~Unknown(l.arr) /\ (Differs(l.arr) => ~IsStatic(l.arr) /\ l.coef = 1)
      /\ prog[p].first = 1 => ~MentionsN(st.term) /\ \A l \in OthersOf(st) : ~Differs(l.arr)
  BY <1>1, NoLoopGaps DEF st
<1>5. AddsTo(st) /\ ~RestartedBy(st.arr, p - 1)
  BY <1>4 DEF AddsTo, Accumulates, RestartedBy, st
<1>6. KnownLoads(p, st, d, v)
  <2>1. \A l \in OthersOf(st) : ~Unknown(l.arr) /\ (l.coef = 1 \/ ~Differs(l.arr))
    BY <1>4
  <2> QED
    BY <2>1, PeelingReads DEF KnownLoads, st
<1>7. NeverGains(p, st, d)
  <2>1. ASSUME prog[p].first = 1, NEW N \in 2..MaxN, NEW regs \in Registers PROVE Gain(st, d, N, regs) = 0
    <3>1. \A l \in OthersOf(st) : Same(p, l.arr, d, v)
      BY <1>1, <1>2, <1>3, <1>4, <2>1
    <3>2. ~MentionsN(st.term) /\ N \in Int
      BY <1>4, <2>1
    <3> QED
      BY <1>1, <3>1, <3>2, NoGainOf
  <2> QED
    BY <2>1 DEF NeverGains
<1>8. \A l \in OthersOf(st) : diffs[l.arr] = d[l.arr] /\ (l.arr \in Static => d[l.arr] = <<>>)
  BY <1>1, <1>2, <1>3, <1>4 DEF Same, IsStatic
<1> QED
  BY <1>1, <1>4, <1>5, <1>6, <1>7, <1>8 DEF GoodSum, st

LEMMA PeelingRecurs ==
  ASSUME Plain, NEW p, NEW s, NEW d, NEW v, NEW D, Peeling(p, s, d, v, D), Recurs(St(p, s))
  PROVE  GoodRecurrence(p, s, d, v) /\ diffs[Arr(p, s)] = d[Arr(p, s)] /\ prog[p].first = 1 /\ Arr(p, s) \notin vague
<1> DEFINE st == St(p, s)
<1>1. /\ Views(p, s, d, v) /\ LoopGaps(st) = {} /\ st = prog[p].body[s] /\ st \in Stores /\ st.arr = Arr(p, s) /\ st.arr \in Arrays
      /\ \A l \in LoadsOf(st) : l.arr \in Arrays
      /\ s \in DOMAIN prog[p].body /\ p \in DOMAIN prog /\ prog[p].loop /\ s \in Nat \ {0}
      /\ DOMAIN prog[p].body = 1..Len(prog[p].body) /\ Len(prog[p].body) \in Nat
  BY PeelingIs
<1>2. OthersOf(st) \subseteq LoadsOf(st) /\ st.arr \notin Static
  BY DEF OthersOf, Recurs, IsStatic
<1>3. \A b \in Arrays : ~Differs(b) => Same(p, b, d, v)
  BY <1>1, ViewsAre
<1>4. PICK own \in OwnOf(st) : own.idx = "below"
  BY DEF Recurs
<1>5. own \in LoadsOf(st) /\ own.arr = st.arr
  BY DEF OwnOf, OthersOf
<1>6. prog[p].first = 1
  BY <1>1, <1>4, <1>5, LoadIs
<1> HIDE DEF st
<1>7. /\ ~MentionsN(st.term) /\ st.arr \notin vague /\ \A l \in OthersOf(st) : ~Differs(l.arr)
      /\ diffs[st.arr] # <<>> => ~Multiplied(st)
  BY <1>1, NoLoopGaps DEF st
<1>8. LoopInv(p, d, v, D, diffs, vague, preheader, placed)
  BY DEF Peeling
<1>9. diffs[st.arr] = d[st.arr] /\ st.arr \notin v
  BY <1>1, <1>2, <1>6, <1>7, <1>8 DEF LoopInv, Outside
<1>10. \A l \in OthersOf(st) : Same(p, l.arr, d, v)
  BY <1>1, <1>2, <1>3, <1>7
<1>11. ASSUME NEW q \in 1..(s - 1), prog[p].body[q].arr = st.arr
       PROVE  NewArray(p, q, d, v) /\ NeverGains(p, prog[p].body[q], d)
  <2>1. q \in D
    BY <1>1, <1>11 DEF Peeling, st
  <2>2. GoodLoop(p, q, d, v) /\ ExactStore(p, q, d, v)
    BY <1>7, <1>8, <1>11, <2>1 DEF LoopInv
  <2>3. ~Recurs(prog[p].body[q])
    <3>1. SUFFICES ASSUME Recurs(prog[p].body[q]) PROVE FALSE
      OBVIOUS
    <3>2. PICK l \in LoadsOf(prog[p].body[q]) : l.idx = "below" /\ l.arr = st.arr
      BY <1>11, <3>1 DEF Recurs, OwnOf, OthersOf
    <3>3. LaterAt(p, q, st.arr)
      <4>1. s \in (q + 1)..Len(prog[p].body)
        BY <1>1
      <4>2. ~Accumulates(prog[p].body[s]) /\ prog[p].body[s].arr = st.arr
        BY <1>1, <1>2 DEF Accumulates, IsStatic
      <4> QED
        BY <4>1, <4>2 DEF LaterAt
    <3> QED
      BY <2>2, <3>2, <3>3 DEF GoodLoop, GoodReads
  <2> QED
    BY <1>2, <1>11, <2>2, <2>3 DEF ExactStore
<1> QED
  BY <1>1, <1>6, <1>7, <1>9, <1>10, <1>11 DEF GoodRecurrence, st

LEMMA PeelingGood ==
  ASSUME Plain, NEW p, NEW s, NEW d, NEW v, NEW D, Peeling(p, s, d, v, D)
  PROVE  GoodLoop(p, s, d, v)
<1>1. St(p, s) = prog[p].body[s]
  BY DEF St
<1> QED
  BY <1>1, PeelingReads, PeelingSum, PeelingRecurs DEF GoodLoop

LEMMA RegsTo ==
  ASSUME NEW p \in Nat, NEW regs \in Registers
  PROVE  /\ Regs(regs, LoadsTo(p)) /\ <<0, 0, 0>> \in LoadsTo(p) /\ regs[<<0, 0, 0>>] = 0 /\ LoadsTo(p) \subseteq AllLoads
         /\ ValuesOver(LoadsTo(p)) \subseteq Values
<1>1. Regs(regs, AllLoads)
  BY RegistersAre
<1>2. <<0, 0, 0>> \in AllLoads /\ regs[<<0, 0, 0>>] = 0 /\ \A r \in AllLoads : regs[r] \in Int
  BY <1>1 DEF Regs
<1>3. <<0, 0, 0>>[1] = 0 /\ 0 <= p
  OBVIOUS
<1>4. LoadsTo(p) \subseteq AllLoads
  BY DEF LoadsTo
<1>5. <<0, 0, 0>> \in LoadsTo(p)
  BY <1>2, <1>3 DEF LoadsTo
<1>6. ValuesOver(LoadsTo(p)) \subseteq Values
  <2> HIDE DEF LoadsTo, AllLoads
  <2> QED
    BY <1>4 DEF ValuesOver, Values
<1> QED
  BY <1>2, <1>4, <1>5, <1>6 DEF Regs

(* The worth of a concatenation. *)
FlatSum(w, ss, N, regs) ==
  /\ DOMAIN w = DOMAIN ss /\ Recorded(FlattenSeq(ss), N, regs) = Sum(w)
  /\ \A k \in DOMAIN ss : w[k] = Recorded(ss[k], N, regs)

LEMMA FlatSumIs ==
  ASSUME NEW S, NEW ss \in Seq(Seq(ValuesOver(S))), NEW N \in Int, NEW regs, Regs(regs, S)
  PROVE  \E w : FlatSum(w, ss, N, regs)
<1> DEFINE x == [k \in DOMAIN ss |-> Recorded(ss[k], N, regs)]
<1>1. Recorded(FlattenSeq(ss), N, regs) = Sum(x)
  BY RecordedFlat, Zenon
<1>2. DOMAIN x = DOMAIN ss /\ \A k \in DOMAIN ss : x[k] = Recorded(ss[k], N, regs)
  OBVIOUS
<1> HIDE DEF x
<1>3. FlatSum(x, ss, N, regs)
  BY <1>1, <1>2 DEF FlatSum
<1> QED
  BY <1>3
IsWorth(vs, x, N, regs) == Recorded(vs, N, regs) = x

LEMMA FlatWorth ==
  ASSUME NEW p \in Nat, NEW n \in Nat, NEW ss, DOMAIN ss = 1..n, ss = [k \in 1..n |-> ss[k]],
         \A k \in 1..n : ss[k] \in Seq(ValuesOver(LoadsTo(p)))
  PROVE  /\ FlattenSeq(ss) \in Seq(ValuesOver(LoadsTo(p)))
         /\ \A N \in Int, regs \in Registers : \A u : Numbers(u, n) /\ (\A k \in 1..n : IsWorth(ss[k], u[k], N, regs))
              => IsWorth(FlattenSeq(ss), Sum(u), N, regs)
<1> DEFINE V == ValuesOver(LoadsTo(p))
<1>1. ss \in Seq(Seq(V))
  <2> HIDE DEF V
  <2>1. \A k \in 1..n : ss[k] \in Seq(V)
    BY DEF V
  <2> QED
    BY <2>1, IsASeq
<1>2. FlattenSeq(ss) \in Seq(V)
  BY <1>1, FlatIsSeq
<1>3. ASSUME NEW N \in Int, NEW regs \in Registers, NEW u, Numbers(u, n), \A k \in 1..n : IsWorth(ss[k], u[k], N, regs)
      PROVE  IsWorth(FlattenSeq(ss), Sum(u), N, regs)
  <2>1. Regs(regs, LoadsTo(p))
    BY RegsTo
  <2>2. PICK w : FlatSum(w, ss, N, regs)
    BY <1>1, <2>1, FlatSumIs
  <2>3. DOMAIN w = 1..n /\ \A k \in 1..n : w[k] = u[k]
    BY <1>3, <2>2 DEF IsWorth, FlatSum
  <2>4. Numbers(w, n)
    BY <1>3, <2>3 DEF Numbers
  <2>5. Sum(w) = Sum(u)
    BY <1>3, <2>3, <2>4, SameSum
  <2> QED
    BY <2>2, <2>5 DEF IsWorth, FlatSum
<1> QED
  BY <1>2, <1>3

(* Nothing after nothing. *)
LEMMA FlatNothing ==
  ASSUME NEW n \in Nat, NEW ss, DOMAIN ss = 1..n, ss = [k \in 1..n |-> ss[k]], \A k \in 1..n : ss[k] = <<>>
  PROVE  FlattenSeq(ss) = <<>>
<1>1. ss \in Seq(Seq({}))
  <2>1. \A k \in 1..n : ss[k] \in Seq({})
    <3>1. <<>> \in Seq({})
      BY EmptySeq
    <3> QED
      BY <3>1
  <2> QED
    BY <2>1, IsASeq
<1>2. FlattenSeq(ss) \in Seq({})
  BY <1>1, FlatIsSeq
<1>3. \A z \in Seq({}) : z = <<>>
  <2>1. ASSUME NEW z \in Seq({}) PROVE z = <<>>
    <3>1. Len(z) \in Nat /\ z \in [1..Len(z) -> {}]
      OBVIOUS
    <3>2. Len(z) = 0
      <4>1. ASSUME Len(z) # 0 PROVE FALSE
        <5>1. 1 \in 1..Len(z)
          BY <3>1, <4>1
        <5>2. z[1] \in {}
          BY <3>1, <5>1
        <5> QED
          BY <5>2
      <4> QED
        BY <4>1
    <3> QED
      BY <3>2, EmptySeq
  <2> QED
    BY <2>1
<1> QED
  BY <1>2, <1>3

-----------------------------------------------------------------------------
(* The values the pass has for a load's array. *)
LEMMA ScaledWorth ==
  ASSUME NEW p \in Nat, diffs \in DiffsTo(p), NEW a \in Arrays, NEW b \in Arrays, NEW N \in Int, NEW regs \in Registers
  PROVE  /\ Scaled(a, b) \in Seq(ValuesOver(LoadsTo(p)))
         /\ IsWorth(Scaled(a, b), IF IsStatic(a) /\ ~IsStatic(b) THEN (N - 1) * Recorded(diffs[b], N, regs) ELSE Recorded(diffs[b], N, regs), N, regs)
         /\ Recorded(diffs[b], N, regs) \in Int
         /\ diffs[b] = <<>> => Scaled(a, b) = <<>>
<1> DEFINE vs == diffs[b]  S == LoadsTo(p)
<1>1. vs \in Seq(ValuesOver(S))
  BY DEF DiffsTo
<1>2. Regs(regs, S)
  BY RegsTo
<1> HIDE DEF S, vs
<1>3. Recorded(vs, N, regs) \in Int
  BY <1>1, <1>2, RecordedNumbers
<1>4. DOMAIN vs = 1..Len(vs) /\ Len(vs) \in Nat
  BY <1>1
<1>5. CASE IsStatic(a) /\ ~IsStatic(b)
  <2>1. Scaled(a, b) = [d \in DOMAIN vs |-> TimesNS(vs[d])]
    BY <1>5 DEF Scaled, vs
  <2>2. \A x \in ValuesOver(S) : TimesNS(x) \in ValuesOver(S)
    BY DEF ValuesOver, TimesNS
  <2>3. \A d \in 1..Len(vs) : TimesNS(vs[d]) \in ValuesOver(S)
    BY <1>1, <2>2
  <2>4. [d \in 1..Len(vs) |-> TimesNS(vs[d])] \in Seq(ValuesOver(S))
    BY <1>4, <2>3, IsASeq
  <2>5. Recorded([d \in DOMAIN vs |-> TimesNS(vs[d])], N, regs) = (N - 1) * Recorded(vs, N, regs)
    BY <1>1, <1>2, RecordedScaled
  <2>6. vs = <<>> => Scaled(a, b) = <<>>
    BY <2>1
  <2> QED
    BY <1>3, <1>4, <1>5, <2>1, <2>4, <2>5, <2>6 DEF IsWorth, S, vs
<1>6. CASE ~(IsStatic(a) /\ ~IsStatic(b))
  <2>1. Scaled(a, b) = [d \in DOMAIN vs |-> vs[d]]
    BY <1>6 DEF Scaled, vs
  <2>2. [d \in DOMAIN vs |-> vs[d]] = vs
    BY <1>1
  <2> QED
    BY <1>1, <1>3, <1>6, <2>1, <2>2 DEF IsWorth, S, vs
<1> QED
  BY <1>5, <1>6

AddedSeq(st)      == [l \in DOMAIN st.loads |-> AddedFor(st.arr, st.loads[l].arr) \o OwnTerm(st, st.loads[l].arr)]
OwnSeq(st)        == [l \in DOMAIN st.loads |-> OwnTerm(st, st.loads[l].arr)]
OthersSeq(st)     == [l \in DOMAIN st.loads |-> RecordedFor(st.arr, st.loads[l].arr)]
AdditionalSeq(st) == [l \in DOMAIN st.loads |->
    IF IsStatic(st.arr) /\ ~IsStatic(st.loads[l].arr) THEN <<OfLoad(l)>> ELSE <<>>]
TermSeq(st)       == IF ~IsStatic(st.arr) /\ TermRecorded(st) THEN <<OfTerm(st.term)>> ELSE <<>>

LEMMA FlattenedAre ==
  ASSUME NEW st
  PROVE  /\ Added(st) = FlattenSeq(AddedSeq(st))
         /\ AppendedDiffs(st) = FlattenSeq(OwnSeq(st)) \o TermSeq(st) \o FlattenSeq(OthersSeq(st))
         /\ AdditionalRecord(st) = FlattenSeq(AdditionalSeq(st))
<1>1. Added(st) = FlattenSeq(AddedSeq(st))
  BY Zenon DEF Added, PerLoad, AddedSeq
<1>2. AppendedDiffs(st) = FlattenSeq(OwnSeq(st)) \o TermSeq(st) \o FlattenSeq(OthersSeq(st))
  BY Zenon DEF AppendedDiffs, PerLoad, OwnSeq, TermSeq, OthersSeq
<1>3. AdditionalRecord(st) = FlattenSeq(AdditionalSeq(st))
  BY Zenon DEF AdditionalRecord, AdditionalSeq
<1> QED
  BY <1>1, <1>2, <1>3

LEMMA SingleWorth ==
  ASSUME NEW p \in Nat, NEW x \in ValuesOver(LoadsTo(p)), NEW N \in Int, NEW regs \in Registers
  PROVE  /\ <<x>> \in Seq(ValuesOver(LoadsTo(p))) /\ DiffValue(x, N, regs) \in Int
         /\ IsWorth(<<x>>, DiffValue(x, N, regs), N, regs)
<1>1. Regs(regs, LoadsTo(p))
  BY RegsTo
<1>2. DiffValue(x, N, regs) \in Int
  BY <1>1, DiffValueType
<1>3. Recorded(<<x>>, N, regs) = DiffValue(x, N, regs)
  BY <1>2, RecordedOne
<1> QED
  BY <1>2, <1>3 DEF IsWorth

LEMMA TermWorth ==
  ASSUME NEW p \in Nat, NEW t \in Terms, NEW N \in Int, NEW regs \in Registers
  PROVE  /\ TermDifference(t, N) \in Int
         /\ <<OfTerm(t)>> \in Seq(ValuesOver(LoadsTo(p))) /\ IsWorth(<<OfTerm(t)>>, TermDifference(t, N), N, regs)
         /\ <<TimesNS(OfTerm(t))>> \in Seq(ValuesOver(LoadsTo(p)))
         /\ IsWorth(<<TimesNS(OfTerm(t))>>, (N - 1) * TermDifference(t, N), N, regs)
<1> DEFINE V == ValuesOver(LoadsTo(p))  x == OfTerm(t)
<1>1. Regs(regs, LoadsTo(p)) /\ <<0, 0, 0>> \in LoadsTo(p) /\ regs[<<0, 0, 0>>] = 0
  BY RegsTo
<1>2. x \in V /\ TimesNS(x) \in V /\ x.times = 0 /\ x.term = t /\ x.load = <<0, 0, 0>>
  BY <1>1 DEF OfTerm, TimesNS, ValuesOver
<1>3. TermDifference(t, N) \in Int
  BY TermDifferenceType
<1> HIDE DEF x
<1>4. DiffValue(x, N, regs) = TermDifference(t, N)
  <2>1. DiffValue(x, N, regs) = TermDifference(x.term, N) + regs[x.load]
    BY <1>2, DiffValueOnce
  <2> QED
    BY <1>1, <1>2, <1>3, <2>1
<1>5. DiffValue(TimesNS(x), N, regs) = (N - 1) * DiffValue(x, N, regs)
  BY <1>1, <1>2, DiffValueTimes
<1>6. <<x>> \in Seq(V) /\ IsWorth(<<x>>, DiffValue(x, N, regs), N, regs)
  BY <1>2, SingleWorth
<1>7. <<TimesNS(x)>> \in Seq(V) /\ IsWorth(<<TimesNS(x)>>, DiffValue(TimesNS(x), N, regs), N, regs)
  BY <1>2, SingleWorth
<1>8. /\ IsWorth(<<x>>, TermDifference(t, N), N, regs)
      /\ IsWorth(<<TimesNS(x)>>, (N - 1) * TermDifference(t, N), N, regs)
  BY <1>4, <1>5, <1>6, <1>7
<1> QED
  BY <1>3, <1>6, <1>7, <1>8 DEF x

LEMMA NothingWorth ==
  ASSUME NEW N, NEW regs, NEW S
  PROVE  IsWorth(<<>>, 0, N, regs) /\ <<>> \in Seq(S)
BY RecordedEmpty, EmptySeq DEF IsWorth

LEMMA WorthOfBoth ==
  ASSUME NEW p \in Nat, NEW u \in Seq(ValuesOver(LoadsTo(p))), NEW w \in Seq(ValuesOver(LoadsTo(p))), NEW N \in Int, NEW regs \in Registers,
         NEW x, NEW y, IsWorth(u, x, N, regs), IsWorth(w, y, N, regs)
  PROVE  u \o w \in Seq(ValuesOver(LoadsTo(p))) /\ IsWorth(u \o w, x + y, N, regs) /\ x \in Int /\ y \in Int
<1>1. Regs(regs, LoadsTo(p))
  BY RegsTo
<1>2. Recorded(u \o w, N, regs) = Recorded(u, N, regs) + Recorded(w, N, regs)
  BY <1>1, RecordedConcat
<1>4. Recorded(u, N, regs) \in Int
  BY <1>1, RecordedNumbers
<1>5. Recorded(w, N, regs) \in Int
  BY <1>1, RecordedNumbers
<1>3. u \o w \in Seq(ValuesOver(LoadsTo(p)))
  OBVIOUS
<1> QED
  BY <1>2, <1>3, <1>4, <1>5 DEF IsWorth

-----------------------------------------------------------------------------
LEMMA OneNumber ==
  ASSUME NEW n \in Nat, NEW c \in Int, NEW u, NEW w, Numbers(u, n), DOMAIN w = 1..n, \A k \in 1..n : w[k] = c * u[k]
  PROVE  Numbers(w, n) /\ Sum(w) = c * Sum(u) /\ Sum(u) \in Int
<1> DEFINE z == [k \in 1..n |-> 0]
<1>1. Numbers(z, n) /\ Sum(z) = 0
  BY ZeroNumbers
<1>2. \A k \in 1..n : u[k] \in Int /\ c * u[k] \in Int
  BY DEF Numbers
<1>3. Numbers(w, n)
  BY <1>2 DEF Numbers
<1>4. \A k \in 1..n : w[k] = z[k] + c * u[k]
  BY <1>2
<1> HIDE DEF z
<1>5. Sum(u) \in Int /\ Sum(w) = Sum(z) + c * Sum(u)
  BY <1>1, <1>3, <1>4, SumLinear
<1>6. c * Sum(u) \in Int
  BY <1>5
<1> QED
  BY <1>1, <1>3, <1>5, <1>6

(* What is inserted before a loop for a scalar that is added to: N - 1 times what an iteration adds more. *)
LEMMA AddedWorth ==
  ASSUME Plain, NEW p, NEW s, NEW d, NEW v, NEW D, Peeling(p, s, d, v, D), Accumulates(St(p, s)), NEW N \in Int, NEW regs \in Registers
  PROVE  IsWorth(Added(St(p, s)), (N - 1) * Gain(St(p, s), d, N, regs), N, regs)
<1> DEFINE st == St(p, s)  n == Len(st.loads)  TD == TermDifference(st.term, N)  LG == LoadGains(st, d, N, regs)  ss == AddedSeq(st)
<1>1. /\ st \in Stores /\ d \in Diffs /\ p \in Nat /\ diffs \in DiffsTo(p)
  BY PeelingIs
<1>2. GoodSum(p, s, d, v) /\ st = prog[p].body[s] /\ \A l \in OthersOf(st) : diffs[l.arr] = d[l.arr] /\ (l.arr \in Static => d[l.arr] = <<>>)
  BY PeelingSum DEF St
<1>3. /\ DOMAIN st.loads = 1..n /\ n \in Nat /\ st.term \in Terms /\ st.arr \in Arrays
      /\ \A l \in DOMAIN st.loads : st.loads[l] \in LoadsOf(st) /\ st.loads[l].arr \in Arrays
  BY <1>1, StoreIs
<1>4. st.arr \in Static /\ EvenTerm(st) /\ AddsTo(st)
  BY <1>2 DEF GoodSum, AddsTo, IsStatic
<1>5. PICK k : TheOwn(st, k)
  BY <1>1, <1>4, AddsToIs
<1>6. k \in 1..n /\ \A l \in 1..n : st.loads[l].arr = st.arr <=> l = k
  BY <1>3, <1>5 DEF TheOwn
<1>7. TD \in Int /\ (~MentionsN(st.term) => TD = 0)
  <2>1. TD \in Int /\ (~MentionsN(st.term) => TD = 0)
    BY <1>1, <1>4, TermGrows, 0 \in Int
  <2> QED
    BY <2>1
<1>8. TermRecorded(st) <=> MentionsN(st.term)
  BY <1>4 DEF EvenTerm, TermRecorded
<1>9. Numbers(LG, n) /\ Gain(st, d, N, regs) = Sum(LG) + TD
  BY <1>1, GainType DEF Gain
<1> DEFINE O == [l \in 1..n |-> IF l = k THEN TD ELSE 0]
           u == [l \in 1..n |-> LG[l] + O[l]]
           w == [l \in 1..n |-> (N - 1) * u[l]]
<1>10. Numbers(O, n) /\ Sum(O) = TD
  <2>0. n \in Nat /\ k \in 1..n /\ TD \in Int
    BY <1>3, <1>6, <1>7
  <2> HIDE DEF TD, n, st
  <2>1. OnlyAt(O, n, k, TD)
    BY DEF OnlyAt
  <2> HIDE DEF O
  <2> QED
    BY <2>0, <2>1, OnlyAtIs
<1> HIDE DEF O, LG, TD, n, st, ss
<1>11. Numbers(u, n) /\ \A l \in 1..n : u[l] = LG[l] + O[l]
  <2>1. \A l \in 1..n : LG[l] + O[l] \in Int
    BY <1>9, <1>10 DEF Numbers
  <2> QED
    BY <1>3, <2>1 DEF Numbers
<1> HIDE DEF u
<1>12. Sum(u) = Sum(LG) + Sum(O)
  BY <1>9, <1>10, <1>11, SumPlus DEF Plus
<1>13. DOMAIN w = 1..n /\ \A l \in 1..n : w[l] = (N - 1) * u[l]
  OBVIOUS
<1> HIDE DEF w
<1>14. Numbers(w, n) /\ Sum(w) = (N - 1) * Sum(u)
  BY <1>3, <1>11, <1>13, OneNumber
<1>15. /\ DOMAIN ss = 1..n /\ ss = [l \in 1..n |-> ss[l]]
       /\ \A l \in 1..n : ss[l] = AddedFor(st.arr, st.loads[l].arr) \o OwnTerm(st, st.loads[l].arr)
  BY <1>3 DEF ss, AddedSeq
<1>16. ASSUME NEW l \in 1..n PROVE ss[l] \in Seq(ValuesOver(LoadsTo(p))) /\ IsWorth(ss[l], w[l], N, regs)
  <2> DEFINE b == st.loads[l].arr  X == AddedFor(st.arr, b)  Y == OwnTerm(st, b)
  <2>1. ss[l] = X \o Y /\ w[l] = (N - 1) * u[l] /\ u[l] = LG[l] + O[l] /\ LG[l] \in Int /\ O[l] \in Int /\ b \in Arrays
    BY <1>3, <1>9, <1>10, <1>11, <1>13, <1>15 DEF Numbers
  <2> HIDE DEF X, Y
  <2>2. CASE l = k
    <3>1. b = st.arr
      BY <1>6, <2>2
    <3>2. X = <<>>
      BY <1>4, <3>1 DEF AddedFor, IsStatic, X
    <3>3. LG[l] = 0
      BY <1>3, <3>1 DEF LG, LoadGains
    <3>4. O[l] = TD
      BY <2>2 DEF O
    <3>5. w[l] = (N - 1) * TD
      BY <1>7, <2>1, <3>3, <3>4
    <3>6. Y \in Seq(ValuesOver(LoadsTo(p))) /\ IsWorth(Y, (N - 1) * TD, N, regs)
      <4>1. CASE MentionsN(st.term)
        <5>1. Y = <<TimesNS(OfTerm(st.term))>>
          BY <1>4, <1>8, <3>1, <4>1 DEF OwnTerm, IsStatic, Y
        <5> QED
          BY <1>1, <1>3, <5>1, TermWorth DEF TD
      <4>2. CASE ~MentionsN(st.term)
        <5>1. Y = <<>>
          BY <1>8, <4>2 DEF OwnTerm, Y
        <5>2. (N - 1) * TD = 0
          BY <1>7, <4>2, Times
        <5> QED
          BY <5>1, <5>2, NothingWorth
      <4> QED
        BY <4>1, <4>2
    <3>7. X \o Y = Y
      BY <3>2, <3>6
    <3> QED
      BY <2>1, <3>5, <3>6, <3>7
  <2>3. CASE l # k
    <3>1. b # st.arr /\ st.loads[l] \in OthersOf(st)
      BY <1>3, <1>6, <2>3 DEF OthersOf
    <3>2. Y = <<>>
      BY <3>1 DEF OwnTerm, Y
    <3>3. X = Scaled(st.arr, b) /\ diffs[b] = d[b] /\ (b \in Static => d[b] = <<>>)
      BY <1>2, <1>4, <3>1 DEF AddedFor, IsStatic, X
    <3>4. LG[l] = Recorded(d[b], N, regs) /\ O[l] = 0
      BY <1>3, <2>3, <3>1 DEF LG, LoadGains, O
    <3>5. w[l] = (N - 1) * Recorded(d[b], N, regs)
      BY <2>1, <3>4
    <3>6. Scaled(st.arr, b) \in Seq(ValuesOver(LoadsTo(p))) /\ IsWorth(Scaled(st.arr, b), (N - 1) * Recorded(d[b], N, regs), N, regs)
      <4>1. CASE b \in Static
        <5>1. Scaled(st.arr, b) = <<>> /\ Recorded(d[b], N, regs) = 0
          BY <1>1, <1>3, <2>1, <3>3, <4>1, ScaledWorth, RecordedEmpty
        <5>2. (N - 1) * Recorded(d[b], N, regs) = 0
          BY <5>1, Times
        <5> QED
          BY <5>1, <5>2, NothingWorth
      <4>2. CASE b \notin Static
        <5> DEFINE a == st.arr
        <5>0. a \in Arrays /\ b \in Arrays /\ a \in Static /\ diffs[b] = d[b]
          BY <1>3, <1>4, <2>1, <3>3
        <5> HIDE DEF a, b
        <5>1. Scaled(a, b) \in Seq(ValuesOver(LoadsTo(p))) /\ IsWorth(Scaled(a, b), IF IsStatic(a) /\ ~IsStatic(b) THEN (N - 1) * Recorded(diffs[b], N, regs) ELSE Recorded(diffs[b], N, regs), N, regs)
          BY <1>1, <5>0, ScaledWorth
        <5>2. IsStatic(a) /\ ~IsStatic(b)
          BY <4>2, <5>0 DEF IsStatic
        <5> QED
          BY <5>0, <5>1, <5>2 DEF a
      <4> QED
        BY <4>1, <4>2
    <3>7. X \o Y = Scaled(st.arr, b)
      BY <3>2, <3>3, <3>6
    <3> QED
      BY <2>1, <3>5, <3>6, <3>7
  <2> QED
    BY <2>2, <2>3
<1>17. IsWorth(FlattenSeq(ss), Sum(w), N, regs)
  BY <1>1, <1>3, <1>14, <1>15, <1>16, FlatWorth
<1>18. Sum(w) = (N - 1) * Gain(st, d, N, regs)
  BY <1>9, <1>10, <1>12, <1>14
<1>19. Added(st) = FlattenSeq(ss)
  BY FlattenedAre DEF ss
<1> QED
  BY <1>17, <1>18, <1>19 DEF st

(* The values the pass puts together are those of the loads of items up to the one it is in. *)
LEMMA FlatType ==
  ASSUME NEW p \in Nat, NEW n \in Nat, NEW ss, DOMAIN ss = 1..n, ss = [k \in 1..n |-> ss[k]],
         \A k \in 1..n : ss[k] \in Seq(ValuesOver(LoadsTo(p)))
  PROVE  FlattenSeq(ss) \in Seq(ValuesOver(LoadsTo(p)))
BY FlatWorth

LEMMA OwnTermType ==
  ASSUME NEW p \in Nat, NEW st \in Stores, NEW b
  PROVE  OwnTerm(st, b) \in Seq(ValuesOver(LoadsTo(p))) /\ TermSeq(st) \in Seq(ValuesOver(LoadsTo(p)))
<1> DEFINE V == ValuesOver(LoadsTo(p))
<1>1. PICK regs : regs = [r \in AllLoads |-> 0]
  OBVIOUS
<1>2. regs \in Registers
  BY <1>1 DEF Registers, AllLoads, LoadSites
<1>3. st.term \in Terms /\ 2 \in Int
  BY StoreIs
<1>4. <<OfTerm(st.term)>> \in Seq(V) /\ <<TimesNS(OfTerm(st.term))>> \in Seq(V)
  BY <1>2, <1>3, TermWorth
<1>5. <<>> \in Seq(V)
  BY EmptySeq
<1> HIDE DEF V
<1> QED
  BY <1>4, <1>5 DEF OwnTerm, TermSeq, V

LEMMA ScaledType ==
  ASSUME NEW p \in Nat, diffs \in DiffsTo(p), NEW a \in Arrays, NEW b \in Arrays
  PROVE  Scaled(a, b) \in Seq(ValuesOver(LoadsTo(p)))
<1>1. PICK regs : regs = [r \in AllLoads |-> 0]
  OBVIOUS
<1>2. regs \in Registers /\ 2 \in Int
  BY <1>1 DEF Registers, AllLoads, LoadSites
<1> QED
  BY <1>2, ScaledWorth

LEMMA AddedType ==
  ASSUME NEW p \in Nat, diffs \in DiffsTo(p), NEW st \in Stores
  PROVE  Added(st) \in Seq(ValuesOver(LoadsTo(p))) /\ AppendedDiffs(st) \in Seq(ValuesOver(LoadsTo(p)))
<1> DEFINE V == ValuesOver(LoadsTo(p))  n == Len(st.loads)
<1>1. DOMAIN st.loads = 1..n /\ n \in Nat /\ st.arr \in Arrays /\ \A l \in DOMAIN st.loads : st.loads[l].arr \in Arrays
  BY StoreIs
<1>2. <<>> \in Seq(V)
  BY EmptySeq
<1>3. \A l \in DOMAIN st.loads : OwnTerm(st, st.loads[l].arr) \in Seq(V) /\ Scaled(st.arr, st.loads[l].arr) \in Seq(V)
  BY <1>1, OwnTermType, ScaledType
<1>4. TermSeq(st) \in Seq(V)
  BY OwnTermType
<1> HIDE DEF V, n
<1>5. \A l \in DOMAIN st.loads : AddedFor(st.arr, st.loads[l].arr) \in Seq(V) /\ RecordedFor(st.arr, st.loads[l].arr) \in Seq(V)
  BY <1>2, <1>3 DEF AddedFor, RecordedFor
<1>6. /\ DOMAIN AddedSeq(st) = 1..n /\ AddedSeq(st) = [l \in 1..n |-> AddedSeq(st)[l]] /\ \A l \in 1..n : AddedSeq(st)[l] \in Seq(V)
  <2>1. DOMAIN AddedSeq(st) = 1..n /\ AddedSeq(st) = [l \in 1..n |-> AddedSeq(st)[l]]
    BY <1>1 DEF AddedSeq
  <2>2. ASSUME NEW l \in 1..n PROVE AddedSeq(st)[l] \in Seq(V)
    <3>1. AddedSeq(st)[l] = AddedFor(st.arr, st.loads[l].arr) \o OwnTerm(st, st.loads[l].arr)
      BY <1>1 DEF AddedSeq
    <3>2. AddedFor(st.arr, st.loads[l].arr) \in Seq(V) /\ OwnTerm(st, st.loads[l].arr) \in Seq(V)
      BY <1>1, <1>3, <1>5
    <3> QED
      BY <3>1, <3>2
  <2> QED
    BY <2>1, <2>2
<1>7. /\ DOMAIN OwnSeq(st) = 1..n /\ OwnSeq(st) = [l \in 1..n |-> OwnSeq(st)[l]] /\ \A l \in 1..n : OwnSeq(st)[l] \in Seq(V)
  BY <1>1, <1>3 DEF OwnSeq
<1>8. /\ DOMAIN OthersSeq(st) = 1..n /\ OthersSeq(st) = [l \in 1..n |-> OthersSeq(st)[l]] /\ \A l \in 1..n : OthersSeq(st)[l] \in Seq(V)
  BY <1>1, <1>5 DEF OthersSeq
<1>9. FlattenSeq(AddedSeq(st)) \in Seq(V) /\ FlattenSeq(OwnSeq(st)) \in Seq(V) /\ FlattenSeq(OthersSeq(st)) \in Seq(V)
  BY <1>1, <1>6, <1>7, <1>8, FlatType DEF V
<1>10. FlattenSeq(OwnSeq(st)) \o TermSeq(st) \o FlattenSeq(OthersSeq(st)) \in Seq(V)
  <2>1. FlattenSeq(OwnSeq(st)) \o TermSeq(st) \in Seq(V)
    BY <1>4, <1>9, ConcatProperties
  <2> QED
    BY <1>9, <2>1, ConcatProperties
<1> QED
  BY <1>9, <1>10, FlattenedAre DEF V

(* The values read in the last iteration. *)
LEMMA AdditionalType ==
  ASSUME Plain, NEW p \in DOMAIN prog, p \in Nat, NEW s \in DOMAIN prog[p].body, pos = p, Head(todo) = s
  PROVE  /\ AdditionalRecord(St(p, s)) \in Seq(ValuesOver(LoadsTo(p)))
         /\ \A N \in Int, regs \in Registers : IsStatic(Arr(p, s)) => IsWorth(AdditionalRecord(St(p, s)), Sum(LastReads(p, s, regs)), N, regs)
         /\ ~IsStatic(Arr(p, s)) => AdditionalRecord(St(p, s)) = <<>>
<1> DEFINE V == ValuesOver(LoadsTo(p))  st == St(p, s)  n == Len(st.loads)  ss == AdditionalSeq(st)
<1>1. DOMAIN st.loads = 1..n /\ n \in Nat /\ st.arr \in Arrays /\ st = prog[p].body[s] /\ st.arr = Arr(p, s)
      /\ \A l \in DOMAIN st.loads : st.loads[l].arr \in Arrays /\ l \in Nat
  BY PlainIs, StoreIs DEF St, Arr
<1>2. <<>> \in Seq(V)
  BY EmptySeq
<1>3. DOMAIN ss = 1..n /\ ss = [l \in 1..n |-> ss[l]]
      /\ \A l \in 1..n : ss[l] = IF IsStatic(st.arr) /\ ~IsStatic(st.loads[l].arr) THEN <<OfLoad(l)>> ELSE <<>>
  BY <1>1 DEF AdditionalSeq
<1>4. AdditionalRecord(st) = FlattenSeq(ss)
  BY FlattenedAre
<1>5. ASSUME NEW l \in 1..n
      PROVE  /\ <<OfLoad(l)>> \in Seq(V)
             /\ \A N \in Int, regs \in Registers : IsWorth(<<OfLoad(l)>>, regs[<<p, s, l>>], N, regs)
  <2>1. <<p, s, l>> \in AllLoads
    BY <1>1, LoadsHave
  <2>2. <<p, s, l>> \in LoadsTo(p)
    BY <2>1 DEF LoadsTo
  <2>3. OfLoad(l) \in V /\ OfLoad(l).term = Zero /\ OfLoad(l).times = 0 /\ OfLoad(l).load = <<p, s, l>> /\ Zero \in Terms
    BY <2>2 DEF OfLoad, ValuesOver, Zero, Terms
  <2>4. ASSUME NEW N \in Int, NEW regs \in Registers PROVE IsWorth(<<OfLoad(l)>>, regs[<<p, s, l>>], N, regs)
    <3>1. DiffValue(OfLoad(l), N, regs) = TermDifference(OfLoad(l).term, N) + regs[OfLoad(l).load]
      BY <2>3, DiffValueOnce
    <3>2. TermDifference(Zero, N) = 0
      BY DEF TermDifference, TermValue, Zero
    <3>3. regs[<<p, s, l>>] \in Int
      BY <2>1 DEF Registers
    <3>4. DiffValue(OfLoad(l), N, regs) = regs[<<p, s, l>>]
      BY <2>3, <3>1, <3>2, <3>3
    <3> QED
      BY <2>3, <3>4, SingleWorth
  <2>5. <<OfLoad(l)>> \in Seq(V)
    BY <2>3
  <2> QED
    BY <2>4, <2>5
<1> HIDE DEF V, n, ss, st
<1>6. \A l \in 1..n : ss[l] \in Seq(V)
  BY <1>2, <1>3, <1>5
<1>7. FlattenSeq(ss) \in Seq(V)
  BY <1>1, <1>3, <1>6, FlatType DEF V
<1>8. ASSUME NEW N \in Int, NEW regs \in Registers, IsStatic(st.arr) PROVE IsWorth(FlattenSeq(ss), Sum(LastReads(p, s, regs)), N, regs)
  <2>1. Numbers(LastReads(p, s, regs), n)
    BY <1>1, LastReadsAre DEF n
  <2>2. ASSUME NEW l \in 1..n PROVE IsWorth(ss[l], LastReads(p, s, regs)[l], N, regs)
    <3>1. LastReads(p, s, regs)[l] = IF st.loads[l].arr \in Static THEN 0 ELSE regs[<<p, s, l>>]
      BY <1>1 DEF LastReads
    <3>2. CASE IsStatic(st.loads[l].arr)
      BY <1>3, <3>1, <3>2, NothingWorth DEF IsStatic
    <3>3. CASE ~IsStatic(st.loads[l].arr)
      BY <1>3, <1>5, <1>8, <3>1, <3>3 DEF IsStatic
    <3> QED
      BY <3>2, <3>3
  <2> QED
    BY <1>1, <1>3, <1>6, <2>1, <2>2, FlatWorth DEF V
<1>9. ASSUME ~IsStatic(st.arr) PROVE FlattenSeq(ss) = <<>>
  BY <1>1, <1>3, <1>9, FlatNothing
<1> QED
  BY <1>1, <1>4, <1>7, <1>8, <1>9 DEF V, st

(* A store whose loads of other arrays have their differences recorded. *)
Recorders(st, d) == \A l \in OthersOf(st) : diffs[l.arr] = d[l.arr]

LEMMA OthersWorth ==
  ASSUME NEW p \in Nat, diffs \in DiffsTo(p), NEW st \in Stores, NEW d \in Diffs, Recorders(st, d), NEW N \in Int, NEW regs \in Registers,
         NEW c \in Int, \A l \in OthersOf(st) : c = IF IsStatic(st.arr) /\ ~IsStatic(l.arr) THEN N - 1 ELSE 1
  PROVE  /\ FlattenSeq(OthersSeq(st)) \in Seq(ValuesOver(LoadsTo(p)))
         /\ IsWorth(FlattenSeq(OthersSeq(st)), c * Sum(LoadGains(st, d, N, regs)), N, regs)
         /\ Sum(LoadGains(st, d, N, regs)) \in Int
<1> DEFINE V == ValuesOver(LoadsTo(p))  n == Len(st.loads)  ss == OthersSeq(st)  LG == LoadGains(st, d, N, regs)  w == [l \in 1..n |-> c * LG[l]]
<1>1. DOMAIN st.loads = 1..n /\ n \in Nat /\ st.arr \in Arrays /\ \A l \in DOMAIN st.loads : st.loads[l].arr \in Arrays /\ st.loads[l] \in LoadsOf(st)
  BY StoreIs
<1>2. DOMAIN ss = 1..n /\ ss = [l \in 1..n |-> ss[l]] /\ \A l \in 1..n : ss[l] = RecordedFor(st.arr, st.loads[l].arr)
  BY <1>1 DEF OthersSeq
<1>3. Numbers(LG, n) /\ \A l \in 1..n : LG[l] = IF st.loads[l].arr = st.arr THEN 0 ELSE Recorded(d[st.loads[l].arr], N, regs)
  BY <1>1, GainType DEF LoadGains
<1>4. DOMAIN w = 1..n /\ \A l \in 1..n : w[l] = c * LG[l]
  OBVIOUS
<1> HIDE DEF V, n, ss, LG, w
<1>5. Numbers(w, n) /\ Sum(w) = c * Sum(LG) /\ Sum(LG) \in Int
  BY <1>1, <1>3, <1>4, OneNumber
<1>6. ASSUME NEW l \in 1..n PROVE ss[l] \in Seq(V) /\ IsWorth(ss[l], w[l], N, regs)
  <2> DEFINE a == st.arr  b == st.loads[l].arr
  <2>1. a \in Arrays /\ b \in Arrays /\ ss[l] = RecordedFor(a, b) /\ w[l] = c * LG[l]
    BY <1>1, <1>2, <1>4
  <2>2. CASE b = a
    <3>1. ss[l] = <<>>
      BY <2>1, <2>2 DEF RecordedFor
    <3>2. LG[l] = 0
      BY <1>3, <2>2
    <3>3. w[l] = 0
      BY <2>1, <3>2, Times
    <3> QED
      BY <3>1, <3>3, NothingWorth
  <2>3. CASE b # a
    <3>1. st.loads[l] \in OthersOf(st)
      BY <1>1, <2>3 DEF OthersOf
    <3>2. diffs[b] = d[b] /\ c = IF IsStatic(a) /\ ~IsStatic(b) THEN N - 1 ELSE 1
      BY <3>1 DEF Recorders
    <3>3. ss[l] = Scaled(a, b) /\ LG[l] = Recorded(d[b], N, regs)
      BY <1>3, <2>1, <2>3 DEF RecordedFor
    <3> HIDE DEF a, b
    <3>4. /\ Scaled(a, b) \in Seq(ValuesOver(LoadsTo(p)))
          /\ IsWorth(Scaled(a, b), IF IsStatic(a) /\ ~IsStatic(b) THEN (N - 1) * Recorded(diffs[b], N, regs) ELSE Recorded(diffs[b], N, regs), N, regs)
          /\ Recorded(diffs[b], N, regs) \in Int
      BY <2>1, ScaledWorth
    <3>5. w[l] = IF IsStatic(a) /\ ~IsStatic(b) THEN (N - 1) * Recorded(diffs[b], N, regs) ELSE Recorded(diffs[b], N, regs)
      <4>1. CASE IsStatic(a) /\ ~IsStatic(b)
        BY <2>1, <3>2, <3>3, <4>1
      <4>2. CASE ~(IsStatic(a) /\ ~IsStatic(b))
        BY <2>1, <3>2, <3>3, <3>4, <4>2
      <4> QED
        BY <4>1, <4>2
    <3> QED
      BY <3>3, <3>4, <3>5 DEF V
  <2> QED
    BY <2>2, <2>3
<1>7. FlattenSeq(ss) \in Seq(V) /\ IsWorth(FlattenSeq(ss), Sum(w), N, regs)
  BY <1>1, <1>2, <1>5, <1>6, FlatWorth DEF V
<1> QED
  BY <1>5, <1>7 DEF V, ss, LG

(* The store's term. *)
LEMMA TermSeqWorth ==
  ASSUME NEW p \in Nat, NEW st \in Stores, EvenTerm(st), ~IsStatic(st.arr), NEW N \in Int, NEW regs \in Registers
  PROVE  TermSeq(st) \in Seq(ValuesOver(LoadsTo(p))) /\ IsWorth(TermSeq(st), TermDifference(st.term, N), N, regs) /\ TermDifference(st.term, N) \in Int
<1>1. TermDifference(st.term, N) \in Int /\ (~MentionsN(st.term) => TermDifference(st.term, N) = 0)
  <2>1. 0 \in Int
    OBVIOUS
  <2> QED
    BY <2>1, TermGrows
<1>2. TermRecorded(st) <=> MentionsN(st.term)
  BY DEF EvenTerm, TermRecorded
<1>3. st.term \in Terms
  BY StoreIs
<1>4. CASE MentionsN(st.term)
  <2>1. TermSeq(st) = <<OfTerm(st.term)>>
    BY <1>2, <1>4 DEF TermSeq
  <2> QED
    BY <1>1, <1>3, <2>1, TermWorth
<1>5. CASE ~MentionsN(st.term)
  <2>1. TermSeq(st) = <<>>
    BY <1>2, <1>5 DEF TermSeq
  <2> QED
    BY <1>1, <1>5, <2>1, NothingWorth
<1> QED
  BY <1>4, <1>5
-----------------------------------------------------------------------------
LEMMA ElementNotes ==
  ASSUME NEW p \in Nat, diffs \in DiffsTo(p), NEW st \in Stores, NEW d \in Diffs, Recorders(st, d),
         EvenTerm(st), ~IsStatic(st.arr), NEW N \in Int, NEW regs \in Registers
  PROVE  IsWorth(AppendedDiffs(st), Gain(st, d, N, regs), N, regs)
<1> DEFINE n == Len(st.loads)  LG == LoadGains(st, d, N, regs)
<1>1. DOMAIN st.loads = 1..n /\ n \in Nat
  BY StoreIs
<1>2. DOMAIN OwnSeq(st) = 1..n /\ OwnSeq(st) = [l \in 1..n |-> OwnSeq(st)[l]] /\ \A l \in 1..n : OwnSeq(st)[l] = <<>>
  BY <1>1 DEF OwnSeq, OwnTerm
<1> HIDE DEF n
<1>3. FlattenSeq(OwnSeq(st)) = <<>>
  BY <1>1, <1>2, FlatNothing
<1>4. /\ FlattenSeq(OthersSeq(st)) \in Seq(ValuesOver(LoadsTo(p))) /\ Sum(LG) \in Int
      /\ IsWorth(FlattenSeq(OthersSeq(st)), 1 * Sum(LG), N, regs)
  <2>1. \A l \in OthersOf(st) : 1 = IF IsStatic(st.arr) /\ ~IsStatic(l.arr) THEN N - 1 ELSE 1
    OBVIOUS
  <2>2. 1 \in Int
    OBVIOUS
  <2> QED
    BY <2>1, <2>2, OthersWorth
<1>5. 1 * Sum(LG) = Sum(LG)
  BY <1>4
<1>6. TermSeq(st) \in Seq(ValuesOver(LoadsTo(p))) /\ IsWorth(TermSeq(st), TermDifference(st.term, N), N, regs) /\ TermDifference(st.term, N) \in Int
  BY TermSeqWorth
<1>7. AppendedDiffs(st) = TermSeq(st) \o FlattenSeq(OthersSeq(st))
  <2>1. <<>> \o TermSeq(st) = TermSeq(st)
    BY <1>6
  <2> QED
    BY <1>3, <2>1, FlattenedAre
<1> HIDE DEF LG
<1>8. IsWorth(TermSeq(st) \o FlattenSeq(OthersSeq(st)), TermDifference(st.term, N) + Sum(LG), N, regs)
  BY <1>4, <1>5, <1>6, WorthOfBoth
<1>9. Gain(st, d, N, regs) = TermDifference(st.term, N) + Sum(LG)
  BY <1>4, <1>6 DEF Gain, LG
<1> QED
  BY <1>7, <1>8, <1>9

LEMMA ScalarNotes ==
  ASSUME NEW p \in Nat, diffs \in DiffsTo(p), NEW st \in Stores, NEW d \in Diffs, Recorders(st, d),
         st.term = Zero, IsStatic(st.arr), \A l \in OthersOf(st) : ~IsStatic(l.arr), NEW N \in Int, NEW regs \in Registers
  PROVE  IsWorth(AppendedDiffs(st), (N - 1) * Gain(st, d, N, regs), N, regs)
<1> DEFINE n == Len(st.loads)  LG == LoadGains(st, d, N, regs)
<1>1. DOMAIN st.loads = 1..n /\ n \in Nat /\ ~TermRecorded(st)
  BY StoreIs DEF TermRecorded, MentionsN, Zero
<1>2. DOMAIN OwnSeq(st) = 1..n /\ OwnSeq(st) = [l \in 1..n |-> OwnSeq(st)[l]] /\ \A l \in 1..n : OwnSeq(st)[l] = <<>>
  BY <1>1 DEF OwnSeq, OwnTerm
<1> HIDE DEF n
<1>3. FlattenSeq(OwnSeq(st)) = <<>> /\ TermSeq(st) = <<>>
  BY <1>1, <1>2, FlatNothing DEF TermSeq
<1>4. /\ FlattenSeq(OthersSeq(st)) \in Seq(ValuesOver(LoadsTo(p))) /\ Sum(LG) \in Int
      /\ IsWorth(FlattenSeq(OthersSeq(st)), (N - 1) * Sum(LG), N, regs)
  <2>1. \A l \in OthersOf(st) : N - 1 = IF IsStatic(st.arr) /\ ~IsStatic(l.arr) THEN N - 1 ELSE 1
    OBVIOUS
  <2>2. N - 1 \in Int
    OBVIOUS
  <2> QED
    BY <2>1, <2>2, OthersWorth
<1>5. AppendedDiffs(st) = FlattenSeq(OthersSeq(st))
  <2>1. <<>> \o <<>> = <<>> /\ <<>> \o FlattenSeq(OthersSeq(st)) = FlattenSeq(OthersSeq(st))
    BY <1>4
  <2> QED
    BY <1>3, <2>1, FlattenedAre
<1>6. Gain(st, d, N, regs) = Sum(LG)
  <2>1. TermDifference(st.term, N) = 0
    BY DEF TermDifference, TermValue, Zero
  <2> QED
    BY <1>4, <2>1 DEF Gain
<1> QED
  BY <1>4, <1>5, <1>6

(* What the pass takes for exact is. *)
LEMMA PeelingExact ==
  ASSUME Plain, NEW p, NEW s, NEW d, NEW v, NEW D, Peeling(p, s, d, v, D), LoopExact(St(p, s))
  PROVE  /\ ExactStore(p, s, d, v) /\ Recorders(St(p, s), d)
         /\ IsStatic(Arr(p, s)) => Accumulates(St(p, s)) /\ St(p, s).term = Zero /\ \A l \in OthersOf(St(p, s)) : ~IsStatic(l.arr)
         /\ ~IsStatic(Arr(p, s)) => EvenTerm(St(p, s)) /\ (prog[p].first = 1 => AppendedDiffs(St(p, s)) = <<>>)
<1> DEFINE st == St(p, s)
<1>1. /\ Views(p, s, d, v) /\ LoopGaps(st) = {} /\ st = prog[p].body[s] /\ Item = prog[p] /\ st \in Stores /\ st.arr = Arr(p, s) /\ d \in Diffs
      /\ \A l \in LoadsOf(st) : l.arr \in Arrays /\ l.idx \in {"counter", "below"}
      /\ s \in DOMAIN prog[p].body /\ p \in Nat \ {0} /\ diffs \in DiffsTo(p)
  BY PeelingIs
<1>2. OthersOf(st) \subseteq LoadsOf(st) /\ OwnOf(st) \subseteq LoadsOf(st)
  BY DEF OthersOf, OwnOf
<1>3. /\ \A b \in Arrays : ~Unknown(b) => diffs[b] = d[b]
      /\ \A a : StoredEarlier(a) <=> EarlierAt(p, s, a)
  BY <1>1, ViewsAre
<1> HIDE DEF st
<1>4. /\ \A l \in OthersOf(st) : ~Unknown(l.arr) /\ (l.coef = 1 \/ (~IsStatic(st.arr) /\ ~Differs(l.arr)))
      /\ IsStatic(st.arr) => Accumulates(st) /\ st.term = Zero /\ \A l \in OthersOf(st) : ~IsStatic(l.arr)
      /\ ~IsStatic(st.arr) => /\ StoredEarlier(st.arr) => Recurs(st)
                              /\ EvenTerm(st)
                              /\ prog[p].first = 1 => AppendedDiffs(st) = <<>>
  BY <1>1 DEF LoopExact, st
<1>5. Recorders(st, d)
  BY <1>1, <1>2, <1>3, <1>4 DEF Recorders
<1>6. CASE IsStatic(st.arr)
  <2>1. ExactStore(p, s, d, v)
    BY <1>1, <1>4, <1>6 DEF ExactStore, IsStatic
  <2> QED
    BY <1>1, <1>4, <1>5, <1>6, <2>1 DEF st
<1>7. CASE ~IsStatic(st.arr)
  <2>1. NeverGains(p, st, d)
    <3>1. ASSUME prog[p].first = 1, NEW N \in 2..MaxN, NEW regs \in Registers PROVE Gain(st, d, N, regs) = 0
      <4>1. IsWorth(AppendedDiffs(st), Gain(st, d, N, regs), N, regs)
        BY <1>1, <1>4, <1>5, <1>7, ElementNotes
      <4>2. AppendedDiffs(st) = <<>>
        BY <1>4, <1>7, <3>1
      <4> QED
        BY <4>1, <4>2, RecordedEmpty DEF IsWorth
    <3> QED
      BY <3>1 DEF NeverGains
  <2>2. Recurs(st) \/ NewArray(p, s, d, v)
    <3>1. SUFFICES ASSUME ~Recurs(st) PROVE NewArray(p, s, d, v)
      OBVIOUS
    <3>2. ~EarlierAt(p, s, st.arr)
      BY <1>3, <1>4, <1>7, <3>1
    <3>3. KnownLoads(p, st, d, v)
      <4>1. \A l \in OthersOf(st) : ~Unknown(l.arr) /\ (l.coef = 1 \/ ~Differs(l.arr))
        BY <1>4
      <4> QED
        BY <4>1, PeelingReads DEF KnownLoads, st
    <3>4. OwnAtCounter(st)
      BY <1>1, <1>2, <1>7, <3>1 DEF OwnAtCounter, Recurs
    <3> QED
      BY <1>1, <1>4, <1>7, <3>2, <3>3, <3>4 DEF NewArray, IsStatic
  <2>3. ExactStore(p, s, d, v)
    BY <1>1, <1>7, <2>1, <2>2 DEF ExactStore, IsStatic
  <2> QED
    BY <1>1, <1>4, <1>5, <1>7, <2>3 DEF st
<1> QED
  BY <1>6, <1>7

(* ... and what it records is what the store adds. *)
LEMMA NotesWorth ==
  ASSUME Plain, NEW p, NEW s, NEW d, NEW v, NEW D, Peeling(p, s, d, v, D), LoopExact(St(p, s)), NEW N \in Int, NEW regs \in Registers
  PROVE  IsWorth(AppendedDiffs(St(p, s)) \o AdditionalRecord(St(p, s)), Notes(p, s, d, N, regs), N, regs)
<1> DEFINE st == St(p, s)
<1>1. /\ st = prog[p].body[s] /\ st \in Stores /\ st.arr = Arr(p, s) /\ d \in Diffs
      /\ s \in DOMAIN prog[p].body /\ p \in DOMAIN prog /\ p \in Nat /\ diffs \in DiffsTo(p) /\ pos = p /\ Head(todo) = s
  BY PeelingIs
<1>2. /\ Recorders(st, d)
      /\ IsStatic(st.arr) => st.term = Zero /\ \A l \in OthersOf(st) : ~IsStatic(l.arr)
      /\ ~IsStatic(st.arr) => EvenTerm(st)
  BY <1>1, PeelingExact
<1>3. AppendedDiffs(st) \in Seq(ValuesOver(LoadsTo(p)))
  BY <1>1, AddedType
<1>4. /\ AdditionalRecord(st) \in Seq(ValuesOver(LoadsTo(p)))
      /\ IsStatic(st.arr) => IsWorth(AdditionalRecord(st), Sum(LastReads(p, s, regs)), N, regs)
      /\ ~IsStatic(st.arr) => AdditionalRecord(st) = <<>>
  BY <1>1, AdditionalType
<1> HIDE DEF st
<1>5. CASE IsStatic(st.arr)
  <2>1. IsWorth(AppendedDiffs(st), (N - 1) * Gain(st, d, N, regs), N, regs)
    BY <1>1, <1>2, <1>5, ScalarNotes
  <2>2. IsWorth(AppendedDiffs(st) \o AdditionalRecord(st), (N - 1) * Gain(st, d, N, regs) + Sum(LastReads(p, s, regs)), N, regs)
    BY <1>1, <1>3, <1>4, <1>5, <2>1, WorthOfBoth
  <2> QED
    BY <1>1, <1>5, <2>2 DEF Notes, IsStatic, st
<1>6. CASE ~IsStatic(st.arr)
  <2>1. IsWorth(AppendedDiffs(st), Gain(st, d, N, regs), N, regs)
    BY <1>1, <1>2, <1>6, ElementNotes
  <2>2. AppendedDiffs(st) \o AdditionalRecord(st) = AppendedDiffs(st)
    BY <1>3, <1>4, <1>6
  <2> QED
    BY <1>1, <1>6, <2>1, <2>2 DEF Notes, IsStatic, st
<1> QED
  BY <1>5, <1>6

(* A store without loads. *)
LEMMA NoLoads ==
  ASSUME NEW st \in Stores, st.loads = <<>>
  PROVE  /\ AppendedDiffs(st) = TermSeq(st) /\ AdditionalRecord(st) = <<>> /\ LoadsOf(st) = {} /\ ~Accumulates(st) /\ ~Recurs(st)
         /\ EvenTerm(st) /\ OnlyOfN(st) /\ ~IsStatic(st.arr) => TermSeq(st) = <<OfTerm(st.term)>>
         /\ Constant(st) => TermSeq(st) = <<>>
<1>1. DOMAIN st.loads = 1..0
  BY StoreIs
<1>2. FlattenSeq(OwnSeq(st)) = <<>> /\ FlattenSeq(OthersSeq(st)) = <<>> /\ FlattenSeq(AdditionalSeq(st)) = <<>>
  <2>1. DOMAIN OwnSeq(st) = 1..0 /\ OwnSeq(st) = [l \in 1..0 |-> OwnSeq(st)[l]]
    BY <1>1 DEF OwnSeq
  <2>2. DOMAIN OthersSeq(st) = 1..0 /\ OthersSeq(st) = [l \in 1..0 |-> OthersSeq(st)[l]]
    BY <1>1 DEF OthersSeq
  <2>3. DOMAIN AdditionalSeq(st) = 1..0 /\ AdditionalSeq(st) = [l \in 1..0 |-> AdditionalSeq(st)[l]]
    BY <1>1 DEF AdditionalSeq
  <2>4. 0 \in Nat /\ \A k \in 1..0 : FALSE
    OBVIOUS
  <2>5. FlattenSeq(OwnSeq(st)) = <<>>
    BY <2>1, <2>4, FlatNothing
  <2>6. FlattenSeq(OthersSeq(st)) = <<>>
    BY <2>2, <2>4, FlatNothing
  <2>7. FlattenSeq(AdditionalSeq(st)) = <<>>
    BY <2>3, <2>4, FlatNothing
  <2> QED
    BY <2>5, <2>6, <2>7
<1>3. LoadsOf(st) = {}
  BY <1>1 DEF LoadsOf
<1>4. ~Accumulates(st) /\ ~Recurs(st)
  BY <1>3 DEF Accumulates, Recurs, OwnOf
<1>5. AppendedDiffs(st) = TermSeq(st)
  <2>1. <<>> \o TermSeq(st) \o <<>> = TermSeq(st)
    <3>1. TermSeq(st) \in Seq(ValuesOver(LoadsTo(0)))
      BY OwnTermType, 0 \in Nat
    <3> QED
      BY <3>1
  <2> QED
    BY <1>2, <2>1, FlattenedAre
<1>6. EvenTerm(st) /\ OnlyOfN(st) /\ ~IsStatic(st.arr) => TermSeq(st) = <<OfTerm(st.term)>>
  BY DEF EvenTerm, OnlyOfN, TermSeq, TermRecorded
<1>7. Constant(st) => TermSeq(st) = <<>>
  BY DEF Constant, TermSeq, TermRecorded
<1> QED
  BY <1>2, <1>3, <1>4, <1>5, <1>6, <1>7, FlattenedAre

(* What is added to an element after its store: the difference of the one it is computed from. *)
LEMMA AddedAre ==
  ASSUME NEW p \in Nat, diffs \in DiffsTo(p), NEW st \in Stores, ~IsStatic(st.arr), NEW n, n = Len(st.loads)
  PROVE  /\ DOMAIN AddedSeq(st) = 1..n /\ AddedSeq(st) = [l \in 1..n |-> AddedSeq(st)[l]] /\ n \in Nat /\ DOMAIN st.loads = 1..n
         /\ \A l \in 1..n : AddedSeq(st)[l] = IF st.loads[l].arr = st.arr THEN Scaled(st.arr, st.arr) ELSE <<>>
<1>1. DOMAIN st.loads = 1..n /\ n \in Nat /\ st.arr \in Arrays
  BY StoreIs
<1>2. DOMAIN AddedSeq(st) = 1..n /\ AddedSeq(st) = [l \in 1..n |-> AddedSeq(st)[l]]
  BY <1>1 DEF AddedSeq
<1>3. Scaled(st.arr, st.arr) \in Seq(ValuesOver(LoadsTo(p)))
  BY <1>1, ScaledType
<1>4. ASSUME NEW l \in 1..n PROVE AddedSeq(st)[l] = IF st.loads[l].arr = st.arr THEN Scaled(st.arr, st.arr) ELSE <<>>
  <2>1. AddedSeq(st)[l] = AddedFor(st.arr, st.loads[l].arr) \o OwnTerm(st, st.loads[l].arr)
    BY <1>1 DEF AddedSeq
  <2>2. OwnTerm(st, st.loads[l].arr) = <<>>
    BY DEF OwnTerm
  <2>3. AddedFor(st.arr, st.loads[l].arr) = IF st.loads[l].arr = st.arr THEN Scaled(st.arr, st.arr) ELSE <<>>
    <3>1. CASE st.loads[l].arr = st.arr
      BY <3>1 DEF AddedFor, IsStatic
    <3>2. CASE st.loads[l].arr # st.arr
      BY <3>2 DEF AddedFor, IsStatic
    <3> QED
      BY <3>1, <3>2
  <2>4. Scaled(st.arr, st.arr) \o <<>> = Scaled(st.arr, st.arr) /\ <<>> \o <<>> = <<>>
    BY <1>3
  <2> QED
    BY <2>1, <2>2, <2>3, <2>4
<1> QED
  BY <1>1, <1>2, <1>4

LEMMA AddedIsOwn ==
  ASSUME Plain, NEW p, NEW s, NEW d, NEW v, NEW D, Peeling(p, s, d, v, D), ~IsStatic(Arr(p, s)), NEW N \in Int, NEW regs \in Registers
  PROVE  IsWorth(Added(St(p, s)), OwnDifference(p, s, d, N, regs), N, regs)
<1> DEFINE st == St(p, s)  n == Len(st.loads)  ss == AddedSeq(st)
<1>1. /\ st = prog[p].body[s] /\ st \in Stores /\ st.arr = Arr(p, s) /\ LoopGaps(st) = {} /\ st.arr \in Arrays
      /\ p \in Nat /\ diffs \in DiffsTo(p) /\ \A l \in LoadsOf(st) : l.idx \in {"counter", "below"}
  BY PeelingIs
<1>2. /\ DOMAIN ss = 1..n /\ ss = [l \in 1..n |-> ss[l]] /\ n \in Nat /\ DOMAIN st.loads = 1..n
      /\ \A l \in 1..n : ss[l] = IF st.loads[l].arr = st.arr THEN Scaled(st.arr, st.arr) ELSE <<>>
  BY <1>1, AddedAre
<1>3. Added(st) = FlattenSeq(ss)
  BY FlattenedAre
<1>4. OwnDifference(p, s, d, N, regs) = IF Recurs(st) THEN Recorded(d[st.arr], N, regs) ELSE 0
  BY <1>1 DEF OwnDifference
<1>5. Recurs(st) => diffs[st.arr] = d[st.arr]
  BY <1>1, PeelingRecurs
<1> HIDE DEF ss, n, st
<1>6. OwnOf(st) \subseteq LoadsOf(st) /\ \A l \in DOMAIN st.loads : st.loads[l].arr = st.arr => st.loads[l] \in OwnOf(st)
  BY DEF OwnOf, OthersOf, LoadsOf
<1>7. CASE diffs[st.arr] = <<>>
  <2>1. Scaled(st.arr, st.arr) = <<>>
    BY <1>1, <1>7, ScaledWorth
  <2>2. \A l \in 1..n : ss[l] = <<>>
    BY <1>2, <2>1
  <2>3. Added(st) = <<>>
    BY <1>2, <1>3, <2>2, FlatNothing
  <2>4. OwnDifference(p, s, d, N, regs) = 0
    BY <1>4, <1>5, <1>7, RecordedEmpty
  <2> QED
    BY <2>3, <2>4, NothingWorth DEF st
<1>8. CASE diffs[st.arr] # <<>>
  <2>1. \A l \in OwnOf(st) : l.idx # "counter"
    BY <1>1, <1>8, NoLoopGaps DEF st
  <2>2. \A l \in OwnOf(st) : l.idx = "below"
    BY <1>1, <1>6, <2>1
  <2>3. CASE OwnOf(st) = {}
    <3>1. \A l \in 1..n : ss[l] = <<>>
      BY <1>2, <1>6, <2>3
    <3>2. Added(st) = <<>>
      BY <1>2, <1>3, <3>1, FlatNothing
    <3>3. OwnDifference(p, s, d, N, regs) = 0
      BY <1>4, <2>3 DEF Recurs
    <3> QED
      BY <3>2, <3>3, NothingWorth DEF st
  <2>4. CASE OwnOf(st) # {}
    <3> DEFINE g == Recorded(diffs[st.arr], N, regs)
    <3>1. Recurs(st)
      BY <1>1, <2>2, <2>4 DEF Recurs, st
    <3>2. ~Multiplied(st)
      BY <1>1, <1>8, <3>1, NoLoopGaps DEF st
    <3>3. PICK own \in OwnOf(st) : TRUE
      BY <2>4
    <3>4. PICK k : TheOwn(st, k)
      BY <1>1, <3>2, <3>3, OwnIs
    <3>5. k \in 1..n /\ \A l \in 1..n : st.loads[l].arr = st.arr <=> l = k
      BY <1>2, <3>4 DEF TheOwn
    <3>6. /\ Scaled(st.arr, st.arr) \in Seq(ValuesOver(LoadsTo(p)))
          /\ IsWorth(Scaled(st.arr, st.arr), IF IsStatic(st.arr) /\ ~IsStatic(st.arr) THEN (N - 1) * Recorded(diffs[st.arr], N, regs) ELSE Recorded(diffs[st.arr], N, regs), N, regs)
          /\ g \in Int
      BY <1>1, ScaledWorth
    <3>7. IsWorth(Scaled(st.arr, st.arr), g, N, regs)
      BY <3>6
    <3> DEFINE u == [l \in 1..n |-> IF l = k THEN g ELSE 0]
    <3>8. OwnDifference(p, s, d, N, regs) = g
      BY <1>4, <1>5, <3>1
    <3> HIDE DEF g
    <3>9. OnlyAt(u, n, k, g)
      BY DEF OnlyAt
    <3>10. DOMAIN u = 1..n /\ \A l \in 1..n : u[l] = IF l = k THEN g ELSE 0
      OBVIOUS
    <3> HIDE DEF u
    <3>11. Numbers(u, n) /\ Sum(u) = g
      BY <1>2, <3>5, <3>6, <3>9, OnlyAtIs
    <3>12. ASSUME NEW l \in 1..n PROVE ss[l] \in Seq(ValuesOver(LoadsTo(p))) /\ IsWorth(ss[l], u[l], N, regs)
      <4>1. CASE l = k
        BY <1>2, <3>5, <3>6, <3>7, <3>10, <4>1
      <4>2. CASE l # k
        BY <1>2, <3>5, <3>10, <4>2, NothingWorth
      <4> QED
        BY <4>1, <4>2
    <3>13. IsWorth(FlattenSeq(ss), Sum(u), N, regs)
      BY <1>1, <1>2, <3>11, <3>12, FlatWorth
    <3> QED
      BY <1>3, <3>8, <3>11, <3>13 DEF st
  <2> QED
    BY <2>3, <2>4
<1> QED
  BY <1>7, <1>8

(* What is left in the place of a store of a loop is what the difference function needs there. *)
LEMMA StaysPlaced ==
  ASSUME Plain, NEW p, NEW s, NEW d, NEW v, NEW D, Peeling(p, s, d, v, D), IsStatic(Arr(p, s)) \/ St(p, s).loads = <<>> \/ Added(St(p, s)) = <<>>
  PROVE  PlacedFor(p, s, d, <<OrigAt(p, s)>>)
<1>1. /\ St(p, s) \in Stores /\ St(p, s).arr = Arr(p, s)
  BY PeelingIs
<1>2. \A N \in 2..MaxN, regs \in Registers : Recorded(<<>>, N, regs) = OwnDifference(p, s, d, N, regs)
  <2> SUFFICES ASSUME NEW N \in 2..MaxN, NEW regs \in Registers PROVE Recorded(<<>>, N, regs) = OwnDifference(p, s, d, N, regs)
    OBVIOUS
  <2>1. CASE IsStatic(Arr(p, s)) \/ St(p, s).loads = <<>>
    <3>1. ~Recurs(St(p, s))
      BY <1>1, <2>1, NoLoads DEF Recurs
    <3> QED
      BY <3>1, RecordedEmpty DEF OwnDifference
  <2>2. CASE ~IsStatic(Arr(p, s)) /\ Added(St(p, s)) = <<>>
    <3>1. N \in Int
      OBVIOUS
    <3>2. IsWorth(Added(St(p, s)), OwnDifference(p, s, d, N, regs), N, regs)
      BY <2>2, <3>1, AddedIsOwn
    <3> QED
      BY <2>2, <3>2 DEF IsWorth
  <2> QED
    BY <2>1, <2>2
<1>3. <<>> \in Seq(Values)
  BY EmptySeq
<1>4. IsPlaced(p, s, d, <<OrigAt(p, s)>>, <<>>)
  BY <1>2, <1>3 DEF IsPlaced
<1> QED
  BY <1>4 DEF PlacedFor

LEMMA AddedPlaced ==
  ASSUME Plain, NEW p, NEW s, NEW d, NEW v, NEW D, Peeling(p, s, d, v, D), ~IsStatic(Arr(p, s)), Added(St(p, s)) # <<>>
  PROVE  PlacedFor(p, s, d, <<OrigAt(p, s), AddAt(p, s, FALSE, Added(St(p, s)))>>)
<1>1. /\ St(p, s) \in Stores /\ p \in Nat /\ diffs \in DiffsTo(p)
  BY PeelingIs
<1>2. Added(St(p, s)) \in Seq(ValuesOver(LoadsTo(p)))
  BY <1>1, AddedType
<1>3. LoadsTo(p) \subseteq AllLoads
  BY DEF LoadsTo
<1>4. Added(St(p, s)) \in Seq(Values)
  BY <1>2, <1>3, WiderValues DEF Values
<1>5. \A N \in 2..MaxN, regs \in Registers : Recorded(Added(St(p, s)), N, regs) = OwnDifference(p, s, d, N, regs)
  <2> SUFFICES ASSUME NEW N \in 2..MaxN, NEW regs \in Registers PROVE Recorded(Added(St(p, s)), N, regs) = OwnDifference(p, s, d, N, regs)
    OBVIOUS
  <2>1. N \in Int
    OBVIOUS
  <2>2. IsWorth(Added(St(p, s)), OwnDifference(p, s, d, N, regs), N, regs)
    BY <2>1, AddedIsOwn
  <2> QED
    BY <2>2 DEF IsWorth
<1>6. IsPlaced(p, s, d, <<OrigAt(p, s), AddAt(p, s, FALSE, Added(St(p, s)))>>, Added(St(p, s)))
  BY <1>4, <1>5 DEF IsPlaced
<1> QED
  BY <1>6 DEF PlacedFor

(* One more of the numbers that are added up. *)
LEMMA MoreDone ==
  ASSUME NEW n \in Nat, NEW s \in 1..n, NEW g \in Int, NEW u, NEW w, Numbers(u, n), u[s] = 0, DOMAIN w = 1..n,
         w[s] = g, \A k \in 1..n : k # s => w[k] = u[k]
  PROVE  Numbers(w, n) /\ Sum(u) \in Int /\ Sum(w) \in Int /\ Sum(w) = Sum(u) + g
<1> DEFINE O == [k \in 1..n |-> IF k = s THEN g ELSE 0]
<1>1. OnlyAt(O, n, s, g)
  BY DEF OnlyAt
<1>2. O[s] = g /\ \A k \in 1..n : k # s => O[k] = 0
  OBVIOUS
<1> HIDE DEF O
<1>3. Numbers(O, n) /\ Sum(O) = g
  <2>1. Numbers(O, n)
    BY <1>1 DEF OnlyAt, Numbers
  <2>2. Sum(O) = O[s]
    BY <1>2, <2>1, SumAt
  <2> QED
    BY <1>2, <2>1, <2>2
<1>6. \A k \in 1..n : u[k] \in Int
  BY DEF Numbers
<1>7. ASSUME NEW k \in 1..n PROVE w[k] \in Int /\ w[k] = u[k] + O[k]
  <2>1. CASE k = s
    BY <1>2, <2>1
  <2>2. CASE k # s
    BY <1>2, <1>6, <2>2
  <2> QED
    BY <2>1, <2>2
<1>4. Numbers(w, n) /\ \A k \in 1..n : w[k] = u[k] + O[k]
  BY <1>7 DEF Numbers
<1>5. Plus(w, u, O, n)
  BY <1>3, <1>4 DEF Plus
<1> QED
  BY <1>3, <1>4, <1>5, SumPlus

LEMMA DoneGainsAre ==
  ASSUME Plain, NEW p \in DOMAIN prog, NEW x, NEW d \in Diffs, NEW N \in Int, NEW regs \in Registers, NEW D
  PROVE  /\ Numbers(DoneGains(p, x, d, N, regs, D), Len(prog[p].body))
         /\ \A s \in DOMAIN prog[p].body : Gain(prog[p].body[s], d, N, regs) \in Int
<1>1. DOMAIN prog[p].body = 1..Len(prog[p].body) /\ Len(prog[p].body) \in Nat /\ \A s \in DOMAIN prog[p].body : prog[p].body[s] \in Stores
  BY PlainIs
<1>2. \A s \in DOMAIN prog[p].body : Gain(prog[p].body[s], d, N, regs) \in Int
  BY <1>1, GainType
<1> QED
  BY <1>1, <1>2 DEF Numbers, DoneGains

LEMMA GainsMore ==
  ASSUME Plain, NEW p \in DOMAIN prog, NEW s \in DOMAIN prog[p].body, NEW x, NEW d \in Diffs, NEW N \in Int, NEW regs \in Registers, NEW D, s \notin D
  PROVE  /\ Sum(DoneGains(p, x, d, N, regs, D)) \in Int /\ Gain(St(p, s), d, N, regs) \in Int
         /\ Sum(DoneGains(p, x, d, N, regs, D \cup {s}))
              = Sum(DoneGains(p, x, d, N, regs, D)) + IF Arr(p, s) = x THEN Gain(St(p, s), d, N, regs) ELSE 0
<1> DEFINE n == Len(prog[p].body)  u == DoneGains(p, x, d, N, regs, D)  w == DoneGains(p, x, d, N, regs, D \cup {s})  G == Gain(St(p, s), d, N, regs)
           g == IF Arr(p, s) = x THEN G ELSE 0
<1>1. DOMAIN prog[p].body = 1..n /\ n \in Nat /\ s \in 1..n
  BY PlainIs
<1>2. Numbers(u, n) /\ G \in Int
  BY DoneGainsAre DEF St
<1>3. g \in Int /\ u[s] = 0 /\ DOMAIN w = 1..n
  BY <1>1, <1>2 DEF DoneGains
<1>4. w[s] = g /\ \A k \in 1..n : k # s => w[k] = u[k]
  BY <1>1 DEF DoneGains, St, Arr
<1> HIDE DEF u, w, g, n
<1>5. Sum(u) \in Int /\ Sum(w) = Sum(u) + g
  BY <1>1, <1>2, <1>3, <1>4, MoreDone
<1> QED
  BY <1>2, <1>5 DEF u, w, g

LEMMA DoneNotesAre ==
  ASSUME Plain, NEW p \in DOMAIN prog, NEW x, NEW d \in Diffs, NEW N \in Int, NEW regs \in Registers, NEW D
  PROVE  /\ Numbers(DoneNotes(p, x, d, N, regs, D), Len(prog[p].body))
         /\ \A s \in DOMAIN prog[p].body : Notes(p, s, d, N, regs) \in Int
<1>1. DOMAIN prog[p].body = 1..Len(prog[p].body) /\ Len(prog[p].body) \in Nat /\ \A s \in DOMAIN prog[p].body : prog[p].body[s] \in Stores
  BY PlainIs
<1>2. \A s \in DOMAIN prog[p].body : Notes(p, s, d, N, regs) \in Int
  <2> SUFFICES ASSUME NEW s \in DOMAIN prog[p].body PROVE Notes(p, s, d, N, regs) \in Int
    OBVIOUS
  <2>1. Gain(prog[p].body[s], d, N, regs) \in Int
    BY <1>1, GainType
  <2>2. Sum(LastReads(p, s, regs)) \in Int
    BY LastReadsAre
  <2>3. (N - 1) * Gain(prog[p].body[s], d, N, regs) \in Int
    BY <2>1, Times
  <2> QED
    BY <2>1, <2>2, <2>3 DEF Notes
<1> QED
  BY <1>1, <1>2 DEF Numbers, DoneNotes

NotesGrow(p, s, x, d, N, regs, D) ==
  /\ Sum(DoneNotes(p, x, d, N, regs, D)) \in Int /\ Notes(p, s, d, N, regs) \in Int
  /\ Sum(DoneNotes(p, x, d, N, regs, D \cup {s}))
       = Sum(DoneNotes(p, x, d, N, regs, D)) + IF Arr(p, s) = x THEN Notes(p, s, d, N, regs) ELSE 0

LEMMA NotesMore ==
  ASSUME Plain, NEW p \in DOMAIN prog, NEW s \in DOMAIN prog[p].body, NEW x, NEW d \in Diffs, NEW N \in Int, NEW regs \in Registers, NEW D, s \notin D
  PROVE  NotesGrow(p, s, x, d, N, regs, D)
<1> DEFINE n == Len(prog[p].body)  u == DoneNotes(p, x, d, N, regs, D)  w == DoneNotes(p, x, d, N, regs, D \cup {s})  G == Notes(p, s, d, N, regs)
           g == IF Arr(p, s) = x THEN G ELSE 0
<1>1. DOMAIN prog[p].body = 1..n /\ n \in Nat /\ s \in 1..n
  BY PlainIs
<1>2. Numbers(u, n) /\ G \in Int
  BY DoneNotesAre
<1>3. g \in Int /\ u[s] = 0 /\ DOMAIN w = 1..n
  BY <1>1, <1>2 DEF DoneNotes
<1>4. w[s] = g /\ \A k \in 1..n : k # s => w[k] = u[k]
  BY <1>1 DEF DoneNotes, Arr
<1> HIDE DEF u, w, g, n
<1>5. Sum(u) \in Int /\ Sum(w) = Sum(u) + g
  BY <1>1, <1>2, <1>3, <1>4, MoreDone
<1> QED
  BY <1>2, <1>5 DEF u, w, g, NotesGrow

LEMMA AddMore == \A n, S, G \in Int : n * (S + G) = n * S + n * G /\ S + 0 = S
  BY SMT

(* What is inserted before the loop, for one more store. *)
StepInserts(S, T1, T, p, s, d, N) ==
  /\ T \in States /\ T.regs = T1.regs
  /\ \A b \in Arrays : b # Arr(p, s) => T.mem[b] = T1.mem[b]
  /\ Arr(p, s) \notin Static => T.mem[Arr(p, s)] = T1.mem[Arr(p, s)]
  /\ Arr(p, s) \in Static /\ Accumulates(St(p, s)) =>
       T.mem[Arr(p, s)][0] = T1.mem[Arr(p, s)][0] + (N - 1) * Gain(St(p, s), d, N, S.regs)

LEMMA InsertedMore ==
  ASSUME Plain, NEW N \in 2..MaxN, NEW p \in DOMAIN prog, NEW s \in DOMAIN prog[p].body, NEW d \in Diffs, NEW D, s \notin D,
         NEW S \in States, NEW T1, NEW T, Inserted(S, T1, p, d, N, D), StepInserts(S, T1, T, p, s, d, N)
  PROVE  Inserted(S, T, p, d, N, D \cup {s})
<1> DEFINE a == Arr(p, s)
<1>1. a \in Written(prog[p]) /\ a = prog[p].body[s].arr /\ St(p, s) = prog[p].body[s]
  BY DEF Written, Arr, St
<1>2. N \in Int /\ S.regs \in Registers /\ S.mem \in Memories
  BY DEF States
<1>3. /\ T1 \in States /\ T1.regs = S.regs
      /\ \A b \in Arrays : b \notin Static \/ b \notin Written(prog[p]) => T1.mem[b] = S.mem[b]
      /\ \A x \in Static : AllAdd(p, x) => T1.mem[x][0] = S.mem[x][0] + (N - 1) * Sum(DoneGains(p, x, d, N, S.regs, D))
  BY DEF Inserted
<1>4. /\ T \in States /\ T.regs = T1.regs
      /\ \A b \in Arrays : b # a => T.mem[b] = T1.mem[b]
      /\ a \notin Static => T.mem[a] = T1.mem[a]
      /\ a \in Static /\ Accumulates(St(p, s)) => T.mem[a][0] = T1.mem[a][0] + (N - 1) * Gain(St(p, s), d, N, S.regs)
  BY DEF StepInserts
<1> HIDE DEF a
<1>5. ASSUME NEW b \in Arrays, b \notin Static \/ b \notin Written(prog[p]) PROVE T.mem[b] = S.mem[b]
  BY <1>1, <1>3, <1>4, <1>5
<1>6. ASSUME NEW x \in Static, AllAdd(p, x) PROVE T.mem[x][0] = S.mem[x][0] + (N - 1) * Sum(DoneGains(p, x, d, N, S.regs, D \cup {s}))
  <2> DEFINE A == Sum(DoneGains(p, x, d, N, S.regs, D))  B == Sum(DoneGains(p, x, d, N, S.regs, D \cup {s}))  G == Gain(St(p, s), d, N, S.regs)
  <2>1. A \in Int /\ G \in Int /\ B = A + IF a = x THEN G ELSE 0
    BY <1>2, GainsMore DEF a
  <2>2. x \in Arrays /\ S.mem[x][0] \in Int /\ T1.mem[x][0] = S.mem[x][0] + (N - 1) * A
    <3>1. x \in Arrays /\ 0 \in Cells
      BY StaticAssumption, MaxNAssumption DEF Cells
    <3> QED
      BY <1>2, <1>3, <1>6, <3>1 DEF Memories
  <2> HIDE DEF A, B, G
  <2>3. (N - 1) * A \in Int /\ (N - 1) * G \in Int /\ (N - 1) * (A + G) = (N - 1) * A + (N - 1) * G /\ A + 0 = A
    <3>1. N - 1 \in Int
      BY <1>2
    <3> QED
      BY <2>1, <3>1, AddMore, Times
  <2>4. CASE a = x
    <3>1. Accumulates(St(p, s))
      BY <1>1, <1>6, <2>4 DEF AllAdd
    <3>2. T.mem[x][0] = T1.mem[x][0] + (N - 1) * G
      BY <1>4, <2>4, <3>1 DEF G
    <3>3. B = A + G
      BY <2>1, <2>4
    <3>4. T.mem[x][0] = S.mem[x][0] + (N - 1) * B
      BY <2>2, <2>3, <3>2, <3>3
    <3> QED
      BY <3>4 DEF B
  <2>5. CASE a # x
    <3>1. T.mem[x] = T1.mem[x] /\ B = A
      BY <1>4, <2>1, <2>2, <2>3, <2>5
    <3> QED
      BY <2>2, <3>1 DEF B
  <2> QED
    BY <2>4, <2>5
<1> QED
  BY <1>3, <1>4, <1>5, <1>6 DEF Inserted

(* Nothing is inserted for a store that adds nothing more. *)
LEMMA InsertsNothing ==
  ASSUME Plain, NEW p, NEW s, NEW d, NEW v, NEW D, Peeling(p, s, d, v, D), NEW N \in 2..MaxN, NEW S \in States, NEW T1, T1 \in States, T1.regs = S.regs,
         IsStatic(Arr(p, s)) => St(p, s).loads = <<>> \/ Added(St(p, s)) = <<>>
  PROVE  StepInserts(S, T1, T1, p, s, d, N)
<1>1. St(p, s) \in Stores /\ Arr(p, s) \in Arrays /\ d \in Diffs
  BY PeelingIs
<1>2. N \in Int /\ S.regs \in Registers /\ T1.mem \in Memories /\ 0 \in Cells
  BY MaxNAssumption DEF States, Cells
<1>3. ASSUME Arr(p, s) \in Static, Accumulates(St(p, s)) PROVE T1.mem[Arr(p, s)][0] = T1.mem[Arr(p, s)][0] + (N - 1) * Gain(St(p, s), d, N, S.regs)
  <2>1. St(p, s).loads # <<>>
    BY <1>1, <1>3, NoLoads
  <2>2. Added(St(p, s)) = <<>>
    BY <1>3, <2>1 DEF IsStatic
  <2>3. IsWorth(Added(St(p, s)), (N - 1) * Gain(St(p, s), d, N, S.regs), N, S.regs)
    BY <1>2, <1>3, AddedWorth
  <2>4. (N - 1) * Gain(St(p, s), d, N, S.regs) = 0
    BY <2>2, <2>3, RecordedEmpty DEF IsWorth
  <2>5. T1.mem[Arr(p, s)][0] \in Int
    BY <1>1, <1>2 DEF Memories
  <2> QED
    BY <2>4, <2>5
<1> QED
  BY <1>3 DEF StepInserts

(* An addition before the loop. *)
LEMMA InsertsAdded ==
  ASSUME Plain, NEW p, NEW s, NEW d, NEW v, NEW D, Peeling(p, s, d, v, D), NEW N \in 2..MaxN, NEW S \in States, NEW T1, T1 \in States, T1.regs = S.regs,
         IsStatic(Arr(p, s)), NEW T, T = Exec(prog, T1, <<AddAt(p, s, FALSE, Added(St(p, s)))>>, N)
  PROVE  StepInserts(S, T1, T, p, s, d, N)
<1> DEFINE a == Arr(p, s)  in == AddAt(p, s, FALSE, Added(St(p, s)))  i == Counter(p, N)
<1>1. St(p, s) \in Stores /\ a \in Arrays /\ d \in Diffs /\ p \in DOMAIN prog /\ s \in DOMAIN prog[p].body /\ p \in Nat /\ diffs \in DiffsTo(p)
      /\ a = prog[p].body[s].arr /\ a \in Static
  BY PeelingIs DEF IsStatic, Arr
<1>2. N \in Int /\ S.regs \in Registers /\ T1.mem \in Memories /\ 0 \in Cells
  BY MaxNAssumption DEF States, Cells
<1>3. Added(St(p, s)) \in Seq(Values)
  <2>1. Added(St(p, s)) \in Seq(ValuesOver(LoadsTo(p)))
    BY <1>1, AddedType
  <2>2. LoadsTo(p) \subseteq AllLoads
    BY DEF LoadsTo
  <2> QED
    BY <2>1, <2>2, WiderValues DEF Values
<1>4. Legal(in)
  BY <1>1, <1>3, LegalAt
<1>5. in.kind = "add" /\ p = in.item /\ in.store = s /\ ~in.entry /\ in.add = Added(St(p, s))
  BY DEF AddAt
<1>6. T = Execute(prog, T1, in, N)
  BY ExecOne
<1> HIDE DEF in, a, i
<1>7. T \in States /\ T.regs = T1.regs /\ AddValue(in, T1, a, i, N) \in Int /\ T.mem = Assigned(T1.mem, a, i, AddValue(in, T1, a, i, N))
  <2>1. a = prog[p].body[in.store].arr
    BY <1>1, <1>5
  <2> QED
    BY <1>4, <1>5, <1>6, <2>1, ExecuteAdd DEF i
<1>8. AddValue(in, T1, a, i, N) = T1.mem[a][0] + Recorded(Added(St(p, s)), N, S.regs)
  BY <1>1, <1>5 DEF AddValue, From, Index, IsStatic
<1>9. i \in Cells /\ Index(a, i) = 0
  BY <1>1, CounterIs DEF i, Index, IsStatic
<1>10. T.mem[a][0] = AddValue(in, T1, a, i, N) /\ \A b \in Arrays : b # a => T.mem[b] = T1.mem[b]
  <2> DEFINE W == AddValue(in, T1, a, i, N)  m == T1.mem
  <2>1. m \in Memories /\ a \in Arrays /\ i \in Cells /\ W \in Int
    BY <1>1, <1>2, <1>7, <1>9
  <2>2. T.mem = Assigned(m, a, i, W)
    BY <1>7
  <2> HIDE DEF W, m
  <2>3. Assigned(m, a, i, W)[a][Index(a, i)] = W /\ \A b \in Arrays : b # a => Assigned(m, a, i, W)[b] = m[b]
    BY <2>1, AssignedIs
  <2> QED
    BY <1>9, <2>2, <2>3 DEF W, m
<1>11. ASSUME Accumulates(St(p, s)) PROVE Recorded(Added(St(p, s)), N, S.regs) = (N - 1) * Gain(St(p, s), d, N, S.regs)
  <2>1. IsWorth(Added(St(p, s)), (N - 1) * Gain(St(p, s), d, N, S.regs), N, S.regs)
    BY <1>2, <1>11, AddedWorth
  <2> QED
    BY <2>1 DEF IsWorth
<1> QED
  BY <1>1, <1>7, <1>8, <1>10, <1>11 DEF StepInserts, a

(* What the pass records and inserts for the store it comes to. *)
Noted(p, s, dc1, vc1) ==
  LET st == St(p, s) IN
  /\ \E vs \in Seq(ValuesOver(LoadsTo(p))) : /\ dc1 = [diffs EXCEPT ![st.arr] = @ \o vs]
                                             /\ LoopExact(st) => vs = AppendedDiffs(st) \o AdditionalRecord(st)
  /\ vc1 = IF LoopExact(st) THEN vague ELSE vague \cup {st.arr}
InsertedAt(p, s, pre1, pl1) ==
  LET st == St(p, s)  add == AddAt(p, s, FALSE, Added(st)) IN
  \/ pre1 = preheader /\ pl1 = placed /\ (st.loads = <<>> \/ Added(st) = <<>>)
  \/ IsStatic(st.arr) /\ pre1 = preheader \o <<add>> /\ pl1 = placed
  \/ ~IsStatic(st.arr) /\ Added(st) # <<>> /\ pre1 = preheader /\ pl1 = [placed EXCEPT ![s] = placed[s] \o <<add>>]

LEMMA NotedIs ==
  ASSUME Plain, NEW p, NEW s, NEW d, NEW v, NEW D, Peeling(p, s, d, v, D), NEW dc1, NEW vc1, Noted(p, s, dc1, vc1)
  PROVE  \E vs \in Seq(ValuesOver(LoadsTo(p))) :
           /\ dc1 \in DiffsTo(p) /\ dc1[Arr(p, s)] = diffs[Arr(p, s)] \o vs
           /\ \A a \in Arrays : a # Arr(p, s) => dc1[a] = diffs[a]
           /\ diffs[Arr(p, s)] \in Seq(ValuesOver(LoadsTo(p)))
           /\ Arr(p, s) \notin vc1 => LoopExact(St(p, s)) /\ vs = AppendedDiffs(St(p, s)) \o AdditionalRecord(St(p, s))
<1> DEFINE V == ValuesOver(LoadsTo(p))  a == Arr(p, s)  st == St(p, s)
<1>1. st.arr = a /\ a \in Arrays /\ diffs \in DiffsTo(p)
  BY PeelingIs
<1>2. PICK vs \in Seq(V) : dc1 = [diffs EXCEPT ![st.arr] = @ \o vs] /\ (LoopExact(st) => vs = AppendedDiffs(st) \o AdditionalRecord(st))
  BY DEF Noted
<1>3. vc1 = IF LoopExact(st) THEN vague ELSE vague \cup {st.arr}
  BY DEF Noted
<1> HIDE DEF V, a, st
<1>4. diffs \in [Arrays -> Seq(V)]
  BY <1>1 DEF DiffsTo, V
<1>5. diffs[a] \in Seq(V)
  BY <1>1, <1>4
<1>6. diffs[a] \o vs \in Seq(V)
  BY <1>2, <1>5
<1>7. dc1 \in [Arrays -> Seq(V)] /\ dc1[a] = diffs[a] \o vs /\ \A b \in Arrays : b # a => dc1[b] = diffs[b]
  BY <1>1, <1>2, <1>4, <1>6
<1>8. a \notin vc1 => LoopExact(st)
  BY <1>1, <1>3
<1> QED
  BY <1>2, <1>5, <1>7, <1>8 DEF DiffsTo, V, a, st

(* What has been recorded is still what the stores gone through add. *)
LEMMA RecordsStep ==
  ASSUME Plain, NEW p, NEW s, NEW d, NEW v, NEW D, Peeling(p, s, d, v, D), NEW dc1, NEW vc1, Noted(p, s, dc1, vc1), NEW a \in Arrays \ vc1
  PROVE  Records(p, d, dc1, a, D \cup {s})
<1>1. /\ St(p, s).arr = Arr(p, s) /\ Arr(p, s) \in Arrays /\ p \in DOMAIN prog /\ p \in Nat /\ s \in DOMAIN prog[p].body /\ s \notin D /\ d \in Diffs
      /\ diffs \in DiffsTo(p)
  BY PeelingIs
<1>2. PICK vs \in Seq(ValuesOver(LoadsTo(p))) :
           /\ dc1 \in DiffsTo(p) /\ dc1[Arr(p, s)] = diffs[Arr(p, s)] \o vs
           /\ \A b \in Arrays : b # Arr(p, s) => dc1[b] = diffs[b]
           /\ diffs[Arr(p, s)] \in Seq(ValuesOver(LoadsTo(p)))
           /\ Arr(p, s) \notin vc1 => LoopExact(St(p, s)) /\ vs = AppendedDiffs(St(p, s)) \o AdditionalRecord(St(p, s))
  BY NotedIs
<1>3. a \notin vague
  BY DEF Noted
<1>4. Records(p, d, diffs, a, D)
  BY <1>3 DEF Peeling, LoopInv
<1>5. ASSUME NEW N \in 2..MaxN, NEW regs \in Registers
      PROVE  Recorded(dc1[a], N, regs) = Recorded(d[a], N, regs) + Sum(DoneNotes(p, a, d, N, regs, D \cup {s}))
  <2> DEFINE A == Sum(DoneNotes(p, a, d, N, regs, D))  B == Sum(DoneNotes(p, a, d, N, regs, D \cup {s}))  G == Notes(p, s, d, N, regs)
             R == Recorded(d[a], N, regs)
  <2>0. N \in Int
    OBVIOUS
  <2>1. A \in Int /\ G \in Int /\ B = A + IF Arr(p, s) = a THEN G ELSE 0
    <3>1. NotesGrow(p, s, a, d, N, regs, D)
      BY <1>1, <2>0, NotesMore
    <3> QED
      BY <3>1 DEF NotesGrow
  <2>2. Recorded(diffs[a], N, regs) = R + A
    BY <1>4 DEF Records
  <2>3. R \in Int
    <3>1. d[a] \in Seq(Values)
      BY <1>1 DEF Diffs
    <3> QED
      BY <2>0, <3>1, RegistersAre
  <2> HIDE DEF A, B, G, R
  <2>4. CASE Arr(p, s) = a
    <3>1. Recorded(dc1[a], N, regs) = Recorded(diffs[a], N, regs) + Recorded(vs, N, regs)
      <4>1. IsWorth(diffs[a], Recorded(diffs[a], N, regs), N, regs) /\ IsWorth(vs, Recorded(vs, N, regs), N, regs)
        BY DEF IsWorth
      <4>2. IsWorth(diffs[a] \o vs, Recorded(diffs[a], N, regs) + Recorded(vs, N, regs), N, regs)
        BY <1>1, <1>2, <2>0, <2>4, <4>1, WorthOfBoth
      <4> QED
        BY <1>2, <2>4, <4>2 DEF IsWorth
    <3>2. Recorded(vs, N, regs) = G
      <4>1. LoopExact(St(p, s)) /\ vs = AppendedDiffs(St(p, s)) \o AdditionalRecord(St(p, s))
        BY <1>2, <2>4
      <4>2. IsWorth(AppendedDiffs(St(p, s)) \o AdditionalRecord(St(p, s)), Notes(p, s, d, N, regs), N, regs)
        BY <2>0, <4>1, NotesWorth
      <4> QED
        BY <4>1, <4>2 DEF IsWorth, G
    <3>3. Recorded(dc1[a], N, regs) = R + B
      BY <2>1, <2>2, <2>3, <2>4, <3>1, <3>2
    <3> QED
      BY <3>3 DEF R, B
  <2>5. CASE Arr(p, s) # a
    <3>1. dc1[a] = diffs[a] /\ B = A
      BY <1>2, <2>1, <2>5
    <3> QED
      BY <2>2, <3>1 DEF R, B
  <2> QED
    BY <2>4, <2>5
<1> QED
  BY <1>5 DEF Records

LEMMA TwoOf ==
  ASSUME NEW x, NEW y
  PROVE  <<x>> \o <<y>> = <<x, y>>
<1> DEFINE S == {x, y}  u == <<x>> \o <<y>>  w == <<x, y>>
<1>1. <<x>> \in Seq(S) /\ <<y>> \in Seq(S) /\ w \in Seq(S) /\ Len(<<x>>) = 1 /\ Len(<<y>>) = 1 /\ Len(w) = 2 /\ w[1] = x /\ w[2] = y
  OBVIOUS
<1> HIDE DEF S, w
<1>2. u \in Seq(S) /\ Len(u) = 2 /\ u[1] = x /\ u[2] = y
  BY <1>1, ConcatProperties
<1> HIDE DEF u
<1>3. \A i \in 1..Len(u) : u[i] = w[i]
  BY <1>1, <1>2
<1>4. u = w
  BY <1>1, <1>2, <1>3, SeqEqual
<1> QED
  BY <1>4 DEF u, w

LEMMA OutsideStep ==
  ASSUME Plain, NEW p, NEW s, NEW d, NEW v, NEW D, Peeling(p, s, d, v, D), NEW dc1, NEW vc1, Noted(p, s, dc1, vc1)
  PROVE  /\ dc1 \in DiffsTo(p) /\ Outside(p, d, v, dc1, vc1) /\ vague \subseteq vc1
         /\ \A a \in Arrays : /\ d[a] # <<>> => dc1[a] # <<>>
                              /\ prog[p].first = 1 /\ a \notin Static /\ a \notin vc1 => dc1[a] = d[a]
<1>1. /\ St(p, s).arr = Arr(p, s) /\ Arr(p, s) \in Arrays /\ Arr(p, s) = prog[p].body[s].arr /\ s \in DOMAIN prog[p].body
      /\ p \in DOMAIN prog /\ p \in Nat /\ pos = p /\ Head(todo) = s
  BY PeelingIs
<1>2. Arr(p, s) \in Written(prog[p])
  BY <1>1 DEF Written
<1>3. PICK vs \in Seq(ValuesOver(LoadsTo(p))) :
           /\ dc1 \in DiffsTo(p) /\ dc1[Arr(p, s)] = diffs[Arr(p, s)] \o vs
           /\ \A b \in Arrays : b # Arr(p, s) => dc1[b] = diffs[b]
           /\ diffs[Arr(p, s)] \in Seq(ValuesOver(LoadsTo(p)))
           /\ Arr(p, s) \notin vc1 => LoopExact(St(p, s)) /\ vs = AppendedDiffs(St(p, s)) \o AdditionalRecord(St(p, s))
  BY NotedIs
<1>4. vague \subseteq vc1 /\ vc1 \subseteq vague \cup {Arr(p, s)}
  BY <1>1 DEF Noted
<1>5. /\ Outside(p, d, v, diffs, vague)
      /\ \A a \in Arrays : /\ d[a] # <<>> => diffs[a] # <<>>
                           /\ prog[p].first = 1 /\ a \notin Static /\ a \notin vague => diffs[a] = d[a]
  BY DEF Peeling, LoopInv
<1>6. Outside(p, d, v, dc1, vc1)
  BY <1>2, <1>3, <1>4, <1>5 DEF Outside
<1>7. ASSUME NEW a \in Arrays, d[a] # <<>> PROVE dc1[a] # <<>>
  <2>1. diffs[a] # <<>>
    BY <1>5, <1>7
  <2>2. CASE a # Arr(p, s)
    BY <1>3, <2>1, <2>2
  <2>3. CASE a = Arr(p, s)
    <3> DEFINE u == diffs[a]
    <3>1. u # <<>> /\ u \in Seq(ValuesOver(LoadsTo(p))) /\ dc1[a] = u \o vs
      BY <1>3, <2>1, <2>3
    <3> HIDE DEF u
    <3>2. Len(u) # 0 /\ Len(u) \in Nat /\ Len(u \o vs) = Len(u) + Len(vs) /\ Len(vs) \in Nat
      BY <3>1
    <3>3. Len(u \o vs) # 0
      BY <3>2
    <3> QED
      BY <3>1, <3>3
  <2> QED
    BY <2>2, <2>3
<1>8. ASSUME NEW a \in Arrays, prog[p].first = 1, a \notin Static, a \notin vc1 PROVE dc1[a] = d[a]
  <2>1. diffs[a] = d[a]
    BY <1>4, <1>5, <1>8
  <2>2. CASE a # Arr(p, s)
    BY <1>3, <2>1, <2>2
  <2>3. CASE a = Arr(p, s)
    <3>1. LoopExact(St(p, s)) /\ vs = AppendedDiffs(St(p, s)) \o AdditionalRecord(St(p, s))
      BY <1>3, <1>8, <2>3
    <3>2. AppendedDiffs(St(p, s)) = <<>>
      BY <1>8, <2>3, <3>1, PeelingExact DEF IsStatic
    <3>3. AdditionalRecord(St(p, s)) = <<>>
      BY <1>1, <1>8, <2>3, AdditionalType DEF IsStatic
    <3>4. vs = <<>>
      BY <3>1, <3>2, <3>3
    <3>5. diffs[a] \o <<>> = diffs[a]
      BY <1>3, <2>3
    <3> QED
      BY <1>3, <2>1, <2>3, <3>4, <3>5
  <2> QED
    BY <2>2, <2>3
<1> QED
  BY <1>3, <1>4, <1>6, <1>7, <1>8

LEMMA InsertsStep ==
  ASSUME Plain, NEW p, NEW s, NEW d, NEW v, NEW D, Peeling(p, s, d, v, D), NEW pre1, NEW pl1, InsertedAt(p, s, pre1, pl1)
  PROVE  Inserts(pre1, p, d, D \cup {s})
<1> DEFINE add == AddAt(p, s, FALSE, Added(St(p, s)))
<1>1. /\ St(p, s).arr = Arr(p, s) /\ Arr(p, s) \in Arrays /\ p \in DOMAIN prog /\ s \in DOMAIN prog[p].body /\ s \notin D /\ d \in Diffs
  BY PeelingIs
<1>2. Inserts(preheader, p, d, D) /\ preheader \in Seq(Instructions)
  BY DEF Peeling, LoopInv
<1>3. ASSUME NEW N \in 2..MaxN, NEW S \in States PROVE Inserted(S, Exec(prog, S, pre1, N), p, d, N, D \cup {s})
  <2> DEFINE T1 == Exec(prog, S, preheader, N)
  <2>1. Inserted(S, T1, p, d, N, D)
    BY <1>2 DEF Inserts
  <2>2. T1 \in States /\ T1.regs = S.regs
    BY <2>1 DEF Inserted
  <2>3. CASE pre1 = preheader /\ (IsStatic(Arr(p, s)) => St(p, s).loads = <<>> \/ Added(St(p, s)) = <<>>)
    <3> HIDE DEF T1
    <3>1. StepInserts(S, T1, T1, p, s, d, N)
      BY <2>2, <2>3, InsertsNothing
    <3>2. Inserted(S, T1, p, d, N, D \cup {s})
      BY <1>1, <2>1, <3>1, InsertedMore
    <3> QED
      BY <2>3, <3>2 DEF T1
  <2>4. CASE IsStatic(Arr(p, s)) /\ pre1 = preheader \o <<add>>
    <3> DEFINE X == Instructions \cup {add}
    <3>1. preheader \in Seq(X) /\ <<add>> \in Seq(X)
      <4>1. add \in X /\ Instructions \subseteq X
        OBVIOUS
      <4> HIDE DEF X, add
      <4>2. \A k \in 1..Len(preheader) : preheader[k] \in X
        BY <1>2, <4>1
      <4> QED
        BY <1>2, <4>1, <4>2, SeqDef
    <3> HIDE DEF X, add
    <3>2. Exec(prog, S, preheader \o <<add>>, N) = Exec(prog, T1, <<add>>, N)
      BY <3>1, ExecConcat
    <3> HIDE DEF T1
    <3>3. StepInserts(S, T1, Exec(prog, T1, <<add>>, N), p, s, d, N)
      BY <2>2, <2>4, InsertsAdded DEF add
    <3>4. Inserted(S, Exec(prog, T1, <<add>>, N), p, d, N, D \cup {s})
      BY <1>1, <2>1, <3>3, InsertedMore
    <3> QED
      BY <2>4, <3>2, <3>4
  <2> QED
    BY <1>1, <2>3, <2>4 DEF InsertedAt
<1> QED
  BY <1>3 DEF Inserts

LEMMA PlacedStep ==
  ASSUME Plain, NEW p, NEW s, NEW d, NEW v, NEW D, Peeling(p, s, d, v, D), NEW pre1, NEW pl1, InsertedAt(p, s, pre1, pl1)
  PROVE  /\ DOMAIN pl1 = DOMAIN prog[p].body
         /\ \A q \in DOMAIN prog[p].body : IF q \in D \cup {s} THEN PlacedFor(p, q, d, pl1[q]) ELSE pl1[q] = <<OrigAt(p, q)>>
<1> DEFINE add == AddAt(p, s, FALSE, Added(St(p, s)))
<1>1. /\ St(p, s).arr = Arr(p, s) /\ s \in DOMAIN prog[p].body /\ s \notin D
  BY PeelingIs
<1>2. /\ DOMAIN placed = DOMAIN prog[p].body
      /\ \A q \in DOMAIN prog[p].body : IF q \in D THEN PlacedFor(p, q, d, placed[q]) ELSE placed[q] = <<OrigAt(p, q)>>
  BY DEF Peeling, LoopInv
<1>3. placed[s] = <<OrigAt(p, s)>>
  BY <1>1, <1>2
<1>4. CASE pl1 = placed /\ (IsStatic(Arr(p, s)) \/ St(p, s).loads = <<>> \/ Added(St(p, s)) = <<>>)
  <2>1. PlacedFor(p, s, d, pl1[s])
    BY <1>3, <1>4, StaysPlaced
  <2> QED
    BY <1>1, <1>2, <1>4, <2>1
<1>5. CASE ~IsStatic(Arr(p, s)) /\ Added(St(p, s)) # <<>> /\ pl1 = [placed EXCEPT ![s] = placed[s] \o <<add>>]
  <2>1. pl1[s] = <<OrigAt(p, s), add>> /\ DOMAIN pl1 = DOMAIN placed /\ \A q \in DOMAIN prog[p].body : q # s => pl1[q] = placed[q]
    <3>1. <<OrigAt(p, s)>> \o <<add>> = <<OrigAt(p, s), add>>
      BY TwoOf
    <3> QED
      BY <1>1, <1>2, <1>3, <1>5, <3>1
  <2>2. PlacedFor(p, s, d, pl1[s])
    BY <1>5, <2>1, AddedPlaced
  <2> QED
    BY <1>1, <1>2, <2>1, <2>2
<1> QED
  BY <1>1, <1>4, <1>5 DEF InsertedAt

(* The pass goes on to the next store. *)
LEMMA LoopStep ==
  ASSUME Plain, NEW p, NEW s, NEW d, NEW v, NEW D, Peeling(p, s, d, v, D), NEW dc1, NEW vc1, Noted(p, s, dc1, vc1),
         NEW pre1 \in Seq(Instructions), NEW pl1, InsertedAt(p, s, pre1, pl1)
  PROVE  LoopInv(p, d, v, D \cup {s}, dc1, vc1, pre1, pl1)
<1>1. /\ St(p, s).arr = Arr(p, s) /\ Arr(p, s) = prog[p].body[s].arr /\ s \in DOMAIN prog[p].body /\ St(p, s) = prog[p].body[s] /\ Arr(p, s) \in Arrays
  BY PeelingIs
<1>2. /\ p \in DOMAIN prog /\ prog[p].loop /\ d \in Diffs /\ d \in DiffsTo(p - 1) /\ Fresh(d, v, p - 1) /\ D \subseteq DOMAIN prog[p].body
      /\ \A q \in D : GoodLoop(p, q, d, v) /\ (prog[p].body[q].arr \notin vague => ExactStore(p, q, d, v))
  BY DEF Peeling, LoopInv
<1>3. /\ dc1 \in DiffsTo(p) /\ Outside(p, d, v, dc1, vc1) /\ vague \subseteq vc1
      /\ \A a \in Arrays : /\ d[a] # <<>> => dc1[a] # <<>>
                           /\ prog[p].first = 1 /\ a \notin Static /\ a \notin vc1 => dc1[a] = d[a]
  BY OutsideStep
<1>4. ASSUME NEW q \in D \cup {s} PROVE GoodLoop(p, q, d, v) /\ (prog[p].body[q].arr \notin vc1 => ExactStore(p, q, d, v))
  <2>1. CASE q \in D
    BY <1>2, <1>3, <2>1
  <2>2. CASE q = s
    <3>1. GoodLoop(p, s, d, v)
      BY PeelingGood
    <3>2. Arr(p, s) \notin vc1 => LoopExact(St(p, s))
      BY <1>1 DEF Noted
    <3>3. LoopExact(St(p, s)) => ExactStore(p, s, d, v)
      BY PeelingExact
    <3> QED
      BY <1>1, <2>2, <3>1, <3>2, <3>3
  <2> QED
    BY <2>1, <2>2
<1>5. \A a \in Arrays \ vc1 : Records(p, d, dc1, a, D \cup {s})
  BY RecordsStep
<1>6. Inserts(pre1, p, d, D \cup {s})
  BY InsertsStep
<1>7. /\ DOMAIN pl1 = DOMAIN prog[p].body
      /\ \A q \in DOMAIN prog[p].body : IF q \in D \cup {s} THEN PlacedFor(p, q, d, pl1[q]) ELSE pl1[q] = <<OrigAt(p, q)>>
  BY PlacedStep
<1>8. D \cup {s} \subseteq DOMAIN prog[p].body
  BY <1>1, <1>2
<1> QED
  BY <1>2, <1>3, <1>4, <1>5, <1>6, <1>7, <1>8 DEF LoopInv

-----------------------------------------------------------------------------
(***************************************************************************)
(* A store of a block, as the pass comes to it.                           *)
(***************************************************************************)

(* A store of a block without a gap. *)
LEMMA NoBlockGaps ==
  ASSUME NEW st, BlockGaps(st) = {}
  PROVE  /\ ~StoredEarlier(st.arr)
         /\ OneLoad(st) => \A l \in LoadsOf(st) : ~Unknown(l.arr) /\ ~(Len(diffs[l.arr]) > 1) /\ (~IsStatic(st.arr) => diffs[l.arr] = <<>>)
         /\ Unsupported(st) => \A l \in LoadsOf(st) : l.arr # st.arr /\ ~StoredLater(l.arr) /\ (~IsStatic(l.arr) => ~Differs(l.arr))
<1> DEFINE G == [
    replaced    |-> StoredEarlier(st.arr),
    copied      |-> OneLoad(st) /\ \E l \in LoadsOf(st) :
                      Unknown(l.arr) \/ Len(diffs[l.arr]) > 1
                        \/ (~IsStatic(st.arr) /\ diffs[l.arr] # <<>>),
    recomputed  |-> /\ Unsupported(st)
                    /\ \E l \in LoadsOf(st) :
                         \/ l.arr = st.arr
                         \/ StoredLater(l.arr)
                         \/ (~IsStatic(l.arr) /\ Differs(l.arr))]
<1>1. {g \in DOMAIN G : G[g]} = {}
  BY Zenon DEF BlockGaps
<1>2. DOMAIN G = {"replaced", "copied", "recomputed"}
  OBVIOUS
<1>3. ~G["replaced"] /\ ~G["copied"] /\ ~G["recomputed"]
  <2> HIDE DEF G
  <2> QED
    BY <1>1, <1>2, Zenon
<1>4. /\ G["replaced"] = StoredEarlier(st.arr)
      /\ G["copied"] = (OneLoad(st) /\ \E l \in LoadsOf(st) :
                      Unknown(l.arr) \/ Len(diffs[l.arr]) > 1
                        \/ (~IsStatic(st.arr) /\ diffs[l.arr] # <<>>))
      /\ G["recomputed"] = (/\ Unsupported(st)
                    /\ \E l \in LoadsOf(st) :
                         \/ l.arr = st.arr
                         \/ StoredLater(l.arr)
                         \/ (~IsStatic(l.arr) /\ Differs(l.arr)))
  BY Zenon
<1> HIDE DEF G
<1>5. ~StoredEarlier(st.arr)
  BY <1>3, <1>4, Zenon
<1>6. OneLoad(st) => \A l \in LoadsOf(st) : ~Unknown(l.arr) /\ ~(Len(diffs[l.arr]) > 1) /\ (~IsStatic(st.arr) => diffs[l.arr] = <<>>)
  BY <1>3, <1>4, Zenon
<1>7. Unsupported(st) => \A l \in LoadsOf(st) : l.arr # st.arr /\ ~StoredLater(l.arr) /\ (~IsStatic(l.arr) => ~Differs(l.arr))
  BY <1>3, <1>4, Zenon
<1> QED
  BY <1>5, <1>6, <1>7

(* A block the pass is in. *)
BlockInv(p, d, v, D, dc, vc, pre, pl) ==
  /\ p \in DOMAIN prog /\ ~prog[p].loop /\ d \in Diffs /\ d \in DiffsTo(p - 1) /\ Fresh(d, v, p - 1) /\ D \subseteq DOMAIN prog[p].body
  /\ dc \in DiffsTo(p) /\ Outside(p, d, v, dc, vc)
  /\ \A s \in D : /\ GoodBlock(p, s, d, v) /\ dc[prog[p].body[s].arr] = BlockNote(p, s, d)
                  /\ prog[p].body[s].arr \notin vc => ExactBlock(p, s, d, v)
  /\ \A a \in Arrays : (\A s \in D : prog[p].body[s].arr # a) => dc[a] = d[a]
  /\ pre = <<>>
  /\ DOMAIN pl = DOMAIN prog[p].body
  /\ \A s \in DOMAIN prog[p].body : IF s \in D THEN PlacedBlock(p, s, d, pl[s]) ELSE pl[s] = <<OrigAt(p, s)>>

(* ... and the store it comes to. *)
PeelingBlock(p, s, d, v, D) ==
  LET st == prog[p].body[s] IN
  /\ pos = p /\ Head(todo) = s /\ s \in DOMAIN prog[p].body \ D
  /\ BlockInv(p, d, v, D, diffs, vague, preheader, placed)
  /\ BlockGaps(st) = {} /\ \A l \in LoadsOf(st) : l.idx # "last"

LEMMA PeelingBlockIs ==
  ASSUME Plain, NEW p, NEW s, NEW d, NEW v, NEW D, PeelingBlock(p, s, d, v, D)
  PROVE  /\ p \in Nat \ {0} /\ p \in DOMAIN prog /\ ~prog[p].loop /\ s \in DOMAIN prog[p].body /\ s \notin D /\ s \in Nat \ {0} /\ Views(p, s, d, v)
         /\ St(p, s) = prog[p].body[s] /\ St(p, s) \in Stores /\ St(p, s).arr = Arr(p, s) /\ Arr(p, s) = prog[p].body[s].arr /\ Arr(p, s) \in Arrays
         /\ prog[p].first = 0 /\ d \in Diffs /\ d \in DiffsTo(p - 1) /\ Fresh(d, v, p - 1)
         /\ BlockGaps(St(p, s)) = {} /\ \A l \in LoadsOf(St(p, s)) : l.idx = "counter" /\ l.arr \in Arrays /\ l.coef \in Int
         /\ Item = prog[p] /\ Store = St(p, s) /\ pos = p /\ Head(todo) = s /\ diffs \in DiffsTo(p)
         /\ DOMAIN prog[p].body = 1..Len(prog[p].body) /\ Len(prog[p].body) \in Nat
<1>1. BlockInv(p, d, v, D, diffs, vague, preheader, placed) /\ pos = p /\ Head(todo) = s /\ s \in DOMAIN prog[p].body /\ s \notin D
  BY DEF PeelingBlock
<1>2. p \in DOMAIN prog /\ ~prog[p].loop /\ d \in Diffs /\ d \in DiffsTo(p - 1) /\ Fresh(d, v, p - 1) /\ Outside(p, d, v, diffs, vague)
      /\ diffs \in DiffsTo(p)
  BY <1>1 DEF BlockInv
<1>3. p \in Nat \ {0}
  BY <1>2 DEF Plain
<1>4. Views(p, s, d, v)
  BY <1>1, <1>2, <1>3 DEF Views
<1>5. /\ St(p, s) = prog[p].body[s] /\ St(p, s) \in Stores /\ St(p, s).arr = Arr(p, s) /\ Arr(p, s) = prog[p].body[s].arr /\ Arr(p, s) \in Arrays
      /\ prog[p].first = 0
      /\ DOMAIN prog[p].body = 1..Len(prog[p].body) /\ Len(prog[p].body) \in Nat
  BY <1>1, <1>2, PlainIs, StoreIs DEF St, Arr
<1>6. s \in Nat \ {0}
  BY <1>1, <1>5
<1>7. BlockGaps(St(p, s)) = {} /\ \A l \in LoadsOf(St(p, s)) : l.idx # "last"
  BY <1>5 DEF PeelingBlock
<1>9. \A l \in LoadsOf(St(p, s)) : l.idx = "counter" /\ l.arr \in Arrays /\ l.coef \in Int
  <2>1. \A l \in LoadsOf(St(p, s)) : /\ l.arr \in Arrays /\ l.coef \in Int /\ l.idx \in {"counter", "below", "last"}
                                     /\ l.idx = "below" => prog[p].loop
    BY <1>1, <1>2, <1>5, LoadIs
  <2> QED
    BY <1>2, <1>7, <2>1
<1>8. Item = prog[p] /\ Store = St(p, s)
  BY <1>4, <1>5, ViewsAre
<1> QED
  BY <1>1, <1>2, <1>3, <1>4, <1>5, <1>6, <1>7, <1>8, <1>9

(* What the gaps leave is what the difference function needs. *)
LEMMA PeelingGoodBlock ==
  ASSUME Plain, NEW p, NEW s, NEW d, NEW v, NEW D, PeelingBlock(p, s, d, v, D)
  PROVE  /\ GoodBlock(p, s, d, v) /\ (BlockExact(St(p, s)) => ExactBlock(p, s, d, v))
         /\ OneLoad(St(p, s)) => \A l \in LoadsOf(St(p, s)) : /\ diffs[l.arr] = d[l.arr] /\ ~(Len(diffs[l.arr]) > 1)
                                                              /\ ~IsStatic(Arr(p, s)) => diffs[l.arr] = <<>>
<1> DEFINE st == St(p, s)
<1>1. /\ Views(p, s, d, v) /\ BlockGaps(st) = {} /\ st = prog[p].body[s] /\ Item = prog[p] /\ st \in Stores /\ st.arr = Arr(p, s)
      /\ \A l \in LoadsOf(st) : l.arr \in Arrays /\ l.idx = "counter"
      /\ s \in DOMAIN prog[p].body /\ p \in Nat \ {0} /\ diffs \in DiffsTo(p)
  BY PeelingBlockIs
<1>2. /\ \A b \in Arrays : ~Unknown(b) => diffs[b] = d[b] /\ b \notin v /\ b \notin Written(prog[p])
      /\ \A b \in Arrays : ~Differs(b) => Same(p, b, d, v)
      /\ \A a : StoredEarlier(a) <=> EarlierAt(p, s, a)
      /\ \A a : StoredLater(a) <=> LaterAt(p, s, a)
  BY <1>1, ViewsAre
<1>3. st.arr \in Written(prog[p])
  BY <1>1 DEF Written
<1> HIDE DEF st
<1>4. /\ ~StoredEarlier(st.arr)
      /\ OneLoad(st) => \A l \in LoadsOf(st) : ~Unknown(l.arr) /\ ~(Len(diffs[l.arr]) > 1) /\ (~IsStatic(st.arr) => diffs[l.arr] = <<>>)
      /\ Unsupported(st) => \A l \in LoadsOf(st) : l.arr # st.arr /\ ~StoredLater(l.arr) /\ (~IsStatic(l.arr) => ~Differs(l.arr))
  BY <1>1, NoBlockGaps
<1>5. OnlyOfN(st) \/ Constant(st) => LoadsOf(st) = {}
  BY <1>1, NoLoads DEF OnlyOfN, Constant
<1>6. \A l \in LoadsOf(st) : l.arr # st.arr
  <2>1. CASE Unsupported(st)
    BY <1>4, <2>1
  <2>2. CASE OneLoad(st)
    BY <1>1, <1>2, <1>3, <1>4, <2>2
  <2>3. CASE OnlyOfN(st) \/ Constant(st)
    BY <1>5, <2>3
  <2> QED
    BY <2>1, <2>2, <2>3 DEF Unsupported
<1>7. OneLoad(st) => \A l \in LoadsOf(st) : /\ l.arr \notin v /\ l.arr \notin Written(prog[p])
                                            /\ Len(d[l.arr]) <= 1 /\ (st.arr \notin Static => d[l.arr] = <<>>)
  <2> SUFFICES ASSUME OneLoad(st), NEW l \in LoadsOf(st)
               PROVE  /\ l.arr \notin v /\ l.arr \notin Written(prog[p])
                      /\ Len(d[l.arr]) <= 1 /\ (st.arr \notin Static => d[l.arr] = <<>>)
    OBVIOUS
  <2>1. ~Unknown(l.arr) /\ ~(Len(diffs[l.arr]) > 1) /\ (~IsStatic(st.arr) => diffs[l.arr] = <<>>) /\ l.arr \in Arrays
    BY <1>1, <1>4
  <2>2. diffs[l.arr] = d[l.arr] /\ l.arr \notin v /\ l.arr \notin Written(prog[p])
    BY <1>2, <2>1
  <2>3. Len(diffs[l.arr]) \in Nat
    BY <1>1, <2>1 DEF DiffsTo
  <2> QED
    BY <2>1, <2>2, <2>3 DEF IsStatic
<1>8. Unsupported(st) => \A l \in LoadsOf(st) : ~LaterAt(p, s, l.arr) /\ (l.arr \notin Static => Same(p, l.arr, d, v))
  BY <1>1, <1>2, <1>4 DEF IsStatic
<1>9. GoodBlock(p, s, d, v)
  BY <1>1, <1>2, <1>4, <1>6, <1>7, <1>8 DEF GoodBlock
<1>10. BlockExact(st) => ExactBlock(p, s, d, v)
  BY <1>1, <1>2 DEF BlockExact, ExactBlock, Unsupported
<1>11. OneLoad(st) => \A l \in LoadsOf(st) : diffs[l.arr] = d[l.arr] /\ ~(Len(diffs[l.arr]) > 1) /\ (~IsStatic(st.arr) => diffs[l.arr] = <<>>)
  BY <1>1, <1>2, <1>4
<1> QED
  BY <1>1, <1>9, <1>10, <1>11 DEF st

(* What the pass records for a store of a block. *)
PassNote(st) ==
  IF OnlyOfN(st) THEN <<OfTerm(st.term)>>
  ELSE IF OneLoad(st) /\ diffs[st.loads[1].arr] # <<>> THEN <<Last(diffs[st.loads[1].arr])>>
  ELSE <<>>
NotedBlock(p, s, dc1, vc1) ==
  LET st == St(p, s)  note == PassNote(st) IN
  /\ dc1 = [diffs EXCEPT ![st.arr] = @ \o note] \/ (note = <<>> /\ dc1 = diffs)
  /\ vc1 = IF BlockExact(st) THEN vague ELSE vague \cup {st.arr}

(* ... and what it leaves in its place. *)
InPlaceOf(p, s, is) ==
  LET st == St(p, s)  note == PassNote(st) IN
  \/ is = <<>> /\ (st.arr \in Static => note = <<>>)
  \/ st.arr \in Static /\ \E e \in BOOLEAN : is = <<AddAt(p, s, e, note)>>
PlacedNote(p, s, pl1) ==
  \/ Unsupported(St(p, s)) /\ pl1 = placed
  \/ ~Unsupported(St(p, s)) /\ \E is : pl1 = [placed EXCEPT ![s] = is] /\ InPlaceOf(p, s, is)

LEMMA NoteSame ==
  ASSUME Plain, NEW p, NEW s, NEW d, NEW v, NEW D, PeelingBlock(p, s, d, v, D)
  PROVE  PassNote(St(p, s)) = BlockNote(p, s, d) /\ BlockNote(p, s, d) \in Seq(ValuesOver(LoadsTo(p)))
<1> DEFINE st == St(p, s)
<1>1. /\ st = prog[p].body[s] /\ st \in Stores /\ p \in Nat /\ p - 1 \in Nat /\ p \in DOMAIN prog /\ s \in DOMAIN prog[p].body
      /\ d \in DiffsTo(p - 1)
  BY PeelingBlockIs
<1>2. OneLoad(st) => \A l \in LoadsOf(st) : diffs[l.arr] = d[l.arr] /\ ~(Len(diffs[l.arr]) > 1)
  BY PeelingGoodBlock
<1> HIDE DEF st
<1>3. OneLoad(st) => st.loads[1] \in LoadsOf(st) /\ st.loads[1].arr \in Arrays
  <2> SUFFICES ASSUME OneLoad(st) PROVE st.loads[1] \in LoadsOf(st) /\ st.loads[1].arr \in Arrays
    OBVIOUS
  <2>1. Len(st.loads) = 1 /\ DOMAIN st.loads = 1..Len(st.loads)
    BY <1>1, StoreIs DEF OneLoad
  <2>2. 1 \in DOMAIN st.loads
    BY <2>1
  <2> QED
    BY <1>1, <2>2, StoreIs
<1>4. PassNote(st) = BlockNote(p, s, d)
  BY <1>1, <1>2, <1>3 DEF PassNote, BlockNote
<1>5. CASE OnlyOfN(st)
  <2>1. BlockNote(p, s, d) = <<OfTerm(st.term)>>
    BY <1>1, <1>5 DEF BlockNote
  <2>2. st.term \in Terms
    BY <1>1, StoreIs
  <2>3. \A N \in Int, regs \in Registers : <<OfTerm(st.term)>> \in Seq(ValuesOver(LoadsTo(p)))
    BY <1>1, <2>2, TermWorth
  <2>4. OfTerm(st.term) \in ValuesOver(LoadsTo(p))
    <3>1. <<0, 0, 0>> \in LoadsTo(p)
      BY <1>1 DEF LoadsTo, AllLoads, LoadSites
    <3> QED
      BY <2>2, <3>1 DEF OfTerm, ValuesOver
  <2> HIDE DEF st
  <2>5. <<OfTerm(st.term)>> \in Seq(ValuesOver(LoadsTo(p)))
    BY <2>4
  <2> QED
    BY <1>4, <2>1, <2>5 DEF st
<1>6. CASE ~OnlyOfN(st) /\ OneLoad(st) /\ d[st.loads[1].arr] # <<>>
  <2> DEFINE u == d[st.loads[1].arr]
  <2>1. BlockNote(p, s, d) = <<Last(u)>>
    BY <1>1, <1>6 DEF BlockNote
  <2>2. u \in Seq(ValuesOver(LoadsTo(p - 1))) /\ u # <<>> /\ ~(Len(u) > 1)
    BY <1>1, <1>2, <1>3, <1>6 DEF DiffsTo
  <2> HIDE DEF u
  <2>3. Len(u) <= 1
    BY <2>2
  <2>4. u = <<Last(u)>>
    BY <2>2, <2>3, LastOfOne
  <2>5. LoadsTo(p - 1) \subseteq LoadsTo(p)
    <3> SUFFICES ASSUME NEW r \in AllLoads, r[1] <= p - 1 PROVE r[1] <= p
      BY DEF LoadsTo
    <3>1. r[1] \in Int
      <4>1. CASE r = <<0, 0, 0>>
        BY <4>1
      <4>2. CASE r # <<0, 0, 0>>
        BY <4>2, SitesAre DEF Plain
      <4> QED
        BY <4>1, <4>2
    <3> QED
      BY <1>1, <3>1
  <2>6. u \in Seq(ValuesOver(LoadsTo(p)))
    BY <2>2, <2>5, WiderValues
  <2> QED
    BY <1>4, <2>1, <2>4, <2>6 DEF st
<1>7. CASE ~OnlyOfN(st) /\ ~(OneLoad(st) /\ d[st.loads[1].arr] # <<>>)
  <2>1. BlockNote(p, s, d) = <<>>
    BY <1>1, <1>7 DEF BlockNote
  <2> QED
    BY <1>4, <2>1 DEF st
<1> QED
  BY <1>5, <1>6, <1>7

(* The pass goes on to the next store. *)
LEMMA BlockStepped ==
  ASSUME Plain, NEW p, NEW s, NEW d, NEW v, NEW D, PeelingBlock(p, s, d, v, D), NEW dc1, NEW vc1, NotedBlock(p, s, dc1, vc1),
         NEW pl1, PlacedNote(p, s, pl1)
  PROVE  BlockInv(p, d, v, D \cup {s}, dc1, vc1, <<>>, pl1)
<1> DEFINE st == St(p, s)  a == Arr(p, s)  note == BlockNote(p, s, d)
<1>1. /\ p \in Nat \ {0} /\ p \in DOMAIN prog /\ ~prog[p].loop /\ s \in DOMAIN prog[p].body /\ s \notin D /\ s \in Nat \ {0}
      /\ st = prog[p].body[s] /\ st \in Stores /\ st.arr = a /\ a = prog[p].body[s].arr /\ a \in Arrays
      /\ d \in Diffs /\ d \in DiffsTo(p - 1) /\ Fresh(d, v, p - 1) /\ diffs \in DiffsTo(p)
      /\ DOMAIN prog[p].body = 1..Len(prog[p].body) /\ Len(prog[p].body) \in Nat
  BY PeelingBlockIs
<1>2. PassNote(st) = note /\ note \in Seq(ValuesOver(LoadsTo(p)))
  BY NoteSame
<1>3. GoodBlock(p, s, d, v) /\ (BlockExact(st) => ExactBlock(p, s, d, v))
  BY PeelingGoodBlock
<1>4. BlockInv(p, d, v, D, diffs, vague, preheader, placed)
  BY DEF PeelingBlock
<1>5. /\ D \subseteq DOMAIN prog[p].body /\ Outside(p, d, v, diffs, vague)
      /\ \A q \in D : /\ GoodBlock(p, q, d, v) /\ diffs[prog[p].body[q].arr] = BlockNote(p, q, d)
                      /\ prog[p].body[q].arr \notin vague => ExactBlock(p, q, d, v)
      /\ \A b \in Arrays : (\A q \in D : prog[p].body[q].arr # b) => diffs[b] = d[b]
      /\ DOMAIN placed = DOMAIN prog[p].body
      /\ \A q \in DOMAIN prog[p].body : IF q \in D THEN PlacedBlock(p, q, d, placed[q]) ELSE placed[q] = <<OrigAt(p, q)>>
  BY <1>4 DEF BlockInv
<1> HIDE DEF st, a, note
<1>6. dc1 \in DiffsTo(p) /\ dc1[a] = diffs[a] \o note /\ \A b \in Arrays : b # a => dc1[b] = diffs[b]
  <2>1. /\ dc1 = [diffs EXCEPT ![a] = @ \o note] \/ (note = <<>> /\ dc1 = diffs)
    <3>1. /\ dc1 = [diffs EXCEPT ![St(p, s).arr] = @ \o PassNote(St(p, s))] \/ (PassNote(St(p, s)) = <<>> /\ dc1 = diffs)
      BY Zenon DEF NotedBlock
    <3>2. St(p, s).arr = a /\ PassNote(St(p, s)) = note
      BY <1>1, <1>2 DEF st
    <3> QED
      BY <3>1, <3>2, Zenon
  <2>2. diffs[a] \in Seq(ValuesOver(LoadsTo(p))) /\ diffs \in [Arrays -> Seq(ValuesOver(LoadsTo(p)))]
    BY <1>1 DEF DiffsTo
  <2> DEFINE V == ValuesOver(LoadsTo(p))
  <2> HIDE DEF V
  <2>3. diffs[a] \o note \in Seq(V) /\ diffs[a] \o <<>> = diffs[a]
    BY <1>2, <2>2 DEF V
  <2>4. CASE dc1 = [diffs EXCEPT ![a] = @ \o note]
    BY <1>1, <2>2, <2>3, <2>4 DEF DiffsTo, V
  <2>5. CASE note = <<>> /\ dc1 = diffs
    BY <1>1, <2>3, <2>5
  <2> QED
    BY <2>1, <2>4, <2>5
<1>7. vc1 = IF BlockExact(st) THEN vague ELSE vague \cup {a}
  BY <1>1 DEF NotedBlock, st
<1>8. ~EarlierAt(p, s, a) /\ \A q \in D : prog[p].body[q].arr # a
  <2>1. ~EarlierAt(p, s, a)
    BY <1>1, <1>3 DEF GoodBlock, a, Arr
  <2>2. ASSUME NEW q \in D, prog[p].body[q].arr = a PROVE FALSE
    <3>1. q \in Nat \ {0} /\ q # s /\ q \in DOMAIN prog[p].body
      BY <1>1, <1>5
    <3>2. CASE q < s
      <4>1. q \in 1..(s - 1)
        BY <1>1, <3>1, <3>2
      <4> QED
        BY <2>1, <2>2, <4>1 DEF EarlierAt
    <3>3. CASE s < q
      <4>1. s \in 1..(q - 1)
        BY <1>1, <3>1, <3>3
      <4>2. ~EarlierAt(p, q, prog[p].body[q].arr)
        BY <1>5 DEF GoodBlock
      <4> QED
        BY <1>1, <2>2, <4>1, <4>2 DEF EarlierAt
    <3> QED
      BY <1>1, <3>1, <3>2, <3>3
  <2> QED
    BY <2>1, <2>2
<1>9. dc1[a] = note
  <2>1. diffs[a] = d[a] /\ ~StoredBy(a, p - 1)
    BY <1>1, <1>5, <1>8 DEF EarlierAt
  <2>2. d[a] = <<>>
    BY <1>1, <2>1 DEF Fresh
  <2>3. <<>> \o note = note
    BY <1>2
  <2> QED
    BY <1>6, <2>1, <2>2, <2>3
<1>10. Outside(p, d, v, dc1, vc1)
  <2>1. \A b \in Arrays \ Written(prog[p]) : b # a
    BY <1>1 DEF Written
  <2> QED
    BY <1>5, <1>6, <1>7, <2>1 DEF Outside
<1>11. \A q \in D \cup {s} : /\ GoodBlock(p, q, d, v) /\ dc1[prog[p].body[q].arr] = BlockNote(p, q, d)
                             /\ prog[p].body[q].arr \notin vc1 => ExactBlock(p, q, d, v)
  <2>1. ASSUME NEW q \in D
        PROVE  /\ GoodBlock(p, q, d, v) /\ dc1[prog[p].body[q].arr] = BlockNote(p, q, d)
               /\ prog[p].body[q].arr \notin vc1 => ExactBlock(p, q, d, v)
    <3>1. prog[p].body[q].arr \in Arrays /\ prog[p].body[q].arr # a
      BY <1>1, <1>5, <1>8, PlainIs, StoreIs
    <3>2. prog[p].body[q].arr \notin vc1 => prog[p].body[q].arr \notin vague
      BY <1>7
    <3> QED
      BY <1>5, <1>6, <3>1, <3>2
  <2>2. /\ GoodBlock(p, s, d, v) /\ dc1[prog[p].body[s].arr] = BlockNote(p, s, d)
        /\ prog[p].body[s].arr \notin vc1 => ExactBlock(p, s, d, v)
    BY <1>1, <1>3, <1>7, <1>9 DEF note
  <2> QED
    BY <2>1, <2>2
<1>12. \A b \in Arrays : (\A q \in D \cup {s} : prog[p].body[q].arr # b) => dc1[b] = d[b]
  BY <1>1, <1>5, <1>6
<1>13. /\ DOMAIN pl1 = DOMAIN prog[p].body
       /\ \A q \in DOMAIN prog[p].body : IF q \in D \cup {s} THEN PlacedBlock(p, q, d, pl1[q]) ELSE pl1[q] = <<OrigAt(p, q)>>
  <2>1. CASE Unsupported(st) /\ pl1 = placed
    <3>1. PlacedBlock(p, s, d, pl1[s])
      BY <1>1, <1>5, <2>1 DEF PlacedBlock
    <3> QED
      BY <1>1, <1>5, <2>1, <3>1
  <2>2. CASE ~Unsupported(st) /\ \E is : pl1 = [placed EXCEPT ![s] = is] /\ InPlaceOf(p, s, is)
    <3>1. PICK is : pl1 = [placed EXCEPT ![s] = is] /\ InPlaceOf(p, s, is)
      BY <2>2
    <3>2. DOMAIN pl1 = DOMAIN placed /\ pl1[s] = is /\ \A q \in DOMAIN placed : q # s => pl1[q] = placed[q]
      BY <1>1, <1>5, <3>1
    <3>3. PlacedBlock(p, s, d, is)
      BY <1>1, <1>2, <2>2, <3>1 DEF PlacedBlock, InPlaceOf, st, note
    <3> QED
      BY <1>1, <1>5, <3>2, <3>3
  <2> QED
    BY <2>1, <2>2 DEF PlacedNote, st
<1>14. D \cup {s} \subseteq DOMAIN prog[p].body
  BY <1>1, <1>5
<1> QED
  BY <1>1, <1>6, <1>10, <1>11, <1>12, <1>13, <1>14 DEF BlockInv

(***************************************************************************)
(* What is said of the function stays true while the function stays: none  *)
(* of it depends on how far the pass is.                                   *)
(***************************************************************************)
LEMMA MemKept ==
  ASSUME prog' = prog
  PROVE  /\ \A N : Final(N)' = Final(N)
         /\ \A N : Mem(N)' = Mem(N)
         /\ \A N, p, a, i : Grown(N, p, a, i)' = Grown(N, p, a, i)
<1>1. \A N : Final(N)' = Final(N)
  BY DEF Final
<1>2. \A N : Mem(N)' = Mem(N)
  <2> SUFFICES ASSUME NEW N PROVE Mem(N)' = Mem(N)
    OBVIOUS
  <2>1. \A run : ProgSteps(run, N, Len(prog))' <=> ProgSteps(run, N, Len(prog))
    BY DEF ProgSteps, Final
  <2> QED
    BY <2>1 DEF Mem
<1>3. \A N, p, a, i : Grown(N, p, a, i)' = Grown(N, p, a, i)
  BY <1>2 DEF Grown
<1> QED
  BY <1>1, <1>2, <1>3

LEMMA TypesKept ==
  ASSUME prog' = prog
  PROVE  /\ AllLoads' = AllLoads /\ Registers' = Registers /\ States' = States /\ Values' = Values /\ Diffs' = Diffs
         /\ \A p : LoadsTo(p)' = LoadsTo(p) /\ DiffsTo(p)' = DiffsTo(p)
<1>1. AllLoads' = AllLoads /\ Registers' = Registers /\ States' = States /\ Values' = Values /\ Diffs' = Diffs
  BY DEF AllLoads, Registers, States, Values, Diffs
<1>2. \A p : LoadsTo(p)' = LoadsTo(p)
  BY <1>1 DEF LoadsTo
<1>3. \A p : DiffsTo(p)' = DiffsTo(p)
  BY <1>2 DEF DiffsTo
<1> QED
  BY <1>1, <1>2, <1>3

LEMMA PlacesKept ==
  ASSUME prog' = prog
  PROVE  /\ \A a, p : (StoredBy(a, p)' <=> StoredBy(a, p)) /\ (PartialAt(a, p)' <=> PartialAt(a, p)) /\ (RestartedBy(a, p)' <=> RestartedBy(a, p))
         /\ \A p, s, a : (EarlierAt(p, s, a)' <=> EarlierAt(p, s, a)) /\ (LaterAt(p, s, a)' <=> LaterAt(p, s, a))
         /\ \A d, v, p : Fresh(d, v, p)' <=> Fresh(d, v, p)
         /\ \A p, s : St(p, s)' = St(p, s) /\ Arr(p, s)' = Arr(p, s)
         /\ \A p, b, d, v : Same(p, b, d, v)' <=> Same(p, b, d, v)
         /\ \A p, l, d, v : KnownLoad(p, l, d, v)' <=> KnownLoad(p, l, d, v)
         /\ \A p, st, d, v : KnownLoads(p, st, d, v)' <=> KnownLoads(p, st, d, v)
         /\ \A p, d, v, d1, v1 : Outside(p, d, v, d1, v1)' <=> Outside(p, d, v, d1, v1)
<1>1. \A a, p : (StoredBy(a, p)' <=> StoredBy(a, p)) /\ (PartialAt(a, p)' <=> PartialAt(a, p)) /\ (RestartedBy(a, p)' <=> RestartedBy(a, p))
  BY DEF StoredBy, PartialAt, RestartedBy
<1>2. \A p, s, a : (EarlierAt(p, s, a)' <=> EarlierAt(p, s, a)) /\ (LaterAt(p, s, a)' <=> LaterAt(p, s, a))
  <2> SUFFICES ASSUME NEW p, NEW s, NEW a PROVE (EarlierAt(p, s, a)' <=> EarlierAt(p, s, a)) /\ (LaterAt(p, s, a)' <=> LaterAt(p, s, a))
    OBVIOUS
  <2>1. EarlierAt(p, s, a)' <=> EarlierAt(p, s, a)
    BY DEF EarlierAt, StoredBy
  <2>2. LaterAt(p, s, a)' <=> LaterAt(p, s, a)
    BY DEF LaterAt
  <2> QED
    BY <2>1, <2>2
<1>3. \A d, v, p : Fresh(d, v, p)' <=> Fresh(d, v, p)
  BY <1>1 DEF Fresh
<1>4. \A p, s : St(p, s)' = St(p, s) /\ Arr(p, s)' = Arr(p, s)
  BY DEF St, Arr
<1>5. \A p, b, d, v : Same(p, b, d, v)' <=> Same(p, b, d, v)
  BY DEF Same
<1>6. \A p, l, d, v : KnownLoad(p, l, d, v)' <=> KnownLoad(p, l, d, v)
  <2> SUFFICES ASSUME NEW p, NEW l, NEW d, NEW v PROVE KnownLoad(p, l, d, v)' <=> KnownLoad(p, l, d, v)
    OBVIOUS
  <2> QED
    BY DEF KnownLoad, PartialAt
<1>7. \A p, st, d, v : KnownLoads(p, st, d, v)' <=> KnownLoads(p, st, d, v)
  BY <1>6 DEF KnownLoads
<1>8. \A p, d, v, d1, v1 : Outside(p, d, v, d1, v1)' <=> Outside(p, d, v, d1, v1)
  BY DEF Outside
<1> QED
  BY <1>1, <1>2, <1>3, <1>4, <1>5, <1>6, <1>7, <1>8

LEMMA AgreesKept ==
  ASSUME prog' = prog
  PROVE  \A S, d, v, p, N : Agrees(S, d, v, p, N)' <=> Agrees(S, d, v, p, N)
<1> SUFFICES ASSUME NEW S, NEW d, NEW v, NEW p, NEW N PROVE Agrees(S, d, v, p, N)' <=> Agrees(S, d, v, p, N)
  OBVIOUS
<1>1. \A x : Behind(N, p, x)' = Behind(N, p, x)
  BY MemKept, PlacesKept DEF Behind
<1>2. \A regs : DiffsHold(d, v, p, N, regs)' <=> DiffsHold(d, v, p, N, regs)
  BY MemKept, PlacesKept DEF DiffsHold
<1>3. \A m, a, j : StillOld(m, d, v, p, N, a, j)' <=> StillOld(m, d, v, p, N, a, j)
  BY MemKept, PlacesKept DEF StillOld
<1> QED
  BY <1>1, <1>2, <1>3, MemKept, TypesKept DEF Agrees

(* What is recorded, inserted and placed. *)
LEMMA StoresKept ==
  ASSUME prog' = prog
  PROVE  /\ \A p, st, d : NeverGains(p, st, d)' <=> NeverGains(p, st, d)
         /\ \A p, s, d, v : NewArray(p, s, d, v)' <=> NewArray(p, s, d, v)
         /\ \A p, s, d, v : GoodLoop(p, s, d, v)' <=> GoodLoop(p, s, d, v)
         /\ \A p, s, d, v : ExactStore(p, s, d, v)' <=> ExactStore(p, s, d, v)
         /\ \A p, d, d1, a, D : Records(p, d, d1, a, D)' <=> Records(p, d, d1, a, D)
         /\ \A p, s, d, is : PlacedFor(p, s, d, is)' <=> PlacedFor(p, s, d, is)
         /\ \A pre, p, d, D : Inserts(pre, p, d, D)' <=> Inserts(pre, p, d, D)
<1>1. \A p, st, d : NeverGains(p, st, d)' <=> NeverGains(p, st, d)
  BY TypesKept DEF NeverGains
<1>2. \A p, s, d, v : NewArray(p, s, d, v)' <=> NewArray(p, s, d, v)
  BY PlacesKept DEF NewArray
<1>3. \A p, s, d, v : GoodLoop(p, s, d, v)' <=> GoodLoop(p, s, d, v)
  <2>1. \A p, s : GoodReads(p, s)' <=> GoodReads(p, s)
    BY PlacesKept DEF GoodReads
  <2>2. \A p, s, d, v : GoodSum(p, s, d, v)' <=> GoodSum(p, s, d, v)
    BY <1>1, PlacesKept DEF GoodSum
  <2>3. \A p, s, d, v : GoodRecurrence(p, s, d, v)' <=> GoodRecurrence(p, s, d, v)
    BY <1>1, <1>2, PlacesKept DEF GoodRecurrence
  <2> QED
    BY <2>1, <2>2, <2>3, PlacesKept DEF GoodLoop
<1>4. \A p, s, d, v : ExactStore(p, s, d, v)' <=> ExactStore(p, s, d, v)
  BY <1>1, <1>2 DEF ExactStore
<1>5. \A p, d, d1, a, D : Records(p, d, d1, a, D)' <=> Records(p, d, d1, a, D)
  <2>1. \A p, s, regs : LastReads(p, s, regs)' = LastReads(p, s, regs)
    BY DEF LastReads
  <2>2. \A p, s, d, N, regs : Notes(p, s, d, N, regs)' = Notes(p, s, d, N, regs)
    BY <2>1 DEF Notes
  <2>3. \A p, a, d, N, regs, D : DoneNotes(p, a, d, N, regs, D)' = DoneNotes(p, a, d, N, regs, D)
    BY <2>2 DEF DoneNotes
  <2> QED
    BY <2>3, TypesKept DEF Records
<1>6. \A p, s, d, is : PlacedFor(p, s, d, is)' <=> PlacedFor(p, s, d, is)
  <2>1. \A p, s, d, N, regs : OwnDifference(p, s, d, N, regs)' = OwnDifference(p, s, d, N, regs)
    BY PlacesKept DEF OwnDifference
  <2>2. \A p, s, d, is, vs : IsPlaced(p, s, d, is, vs)' <=> IsPlaced(p, s, d, is, vs)
    <3> SUFFICES ASSUME NEW p, NEW s, NEW d, NEW is, NEW vs PROVE IsPlaced(p, s, d, is, vs)' <=> IsPlaced(p, s, d, is, vs)
      OBVIOUS
    <3>1. Values' = Values /\ Registers' = Registers
      BY TypesKept
    <3>2. \A N, regs : OwnDifference(p, s, d, N, regs)' = OwnDifference(p, s, d, N, regs)
      BY <2>1
    <3>3. (\A N \in 2..MaxN, regs \in Registers : Recorded(vs, N, regs) = OwnDifference(p, s, d, N, regs))'
            <=> (\A N \in 2..MaxN, regs \in Registers : Recorded(vs, N, regs) = OwnDifference(p, s, d, N, regs))
      BY <3>1, <3>2
    <3> QED
      BY <3>1, <3>3, Zenon DEF IsPlaced
  <2> QED
    BY <2>2 DEF PlacedFor
<1>7. \A pre, p, d, D : Inserts(pre, p, d, D)' <=> Inserts(pre, p, d, D)
  <2>1. \A p, x, d, N, regs, D : DoneGains(p, x, d, N, regs, D)' = DoneGains(p, x, d, N, regs, D)
    BY DEF DoneGains
  <2>2. \A p, x : AllAdd(p, x)' <=> AllAdd(p, x)
    BY DEF AllAdd
  <2>3. \A S, T, p, d, N, D : Inserted(S, T, p, d, N, D)' <=> Inserted(S, T, p, d, N, D)
    BY <2>1, <2>2, TypesKept DEF Inserted
  <2> QED
    BY <2>3, TypesKept DEF Inserts
<1> QED
  BY <1>1, <1>2, <1>3, <1>4, <1>5, <1>6, <1>7

LEMMA LoopInvKept ==
  ASSUME prog' = prog
  PROVE  \A p, d, v, D, dc, vc, pre, pl : LoopInv(p, d, v, D, dc, vc, pre, pl)' <=> LoopInv(p, d, v, D, dc, vc, pre, pl)
<1> SUFFICES ASSUME NEW p, NEW d, NEW v, NEW D, NEW dc, NEW vc, NEW pre, NEW pl
             PROVE  LoopInv(p, d, v, D, dc, vc, pre, pl)' <=> LoopInv(p, d, v, D, dc, vc, pre, pl)
  OBVIOUS
<1> QED
  BY PlacesKept, TypesKept, StoresKept DEF LoopInv

LEMMA BlockInvKept ==
  ASSUME prog' = prog
  PROVE  \A p, d, v, D, dc, vc, pre, pl : BlockInv(p, d, v, D, dc, vc, pre, pl)' <=> BlockInv(p, d, v, D, dc, vc, pre, pl)
<1> SUFFICES ASSUME NEW p, NEW d, NEW v, NEW D, NEW dc, NEW vc, NEW pre, NEW pl
             PROVE  BlockInv(p, d, v, D, dc, vc, pre, pl)' <=> BlockInv(p, d, v, D, dc, vc, pre, pl)
  OBVIOUS
<1>1. \A s : GoodBlock(p, s, d, v)' <=> GoodBlock(p, s, d, v)
  BY PlacesKept DEF GoodBlock
<1>2. \A s : ExactBlock(p, s, d, v)' <=> ExactBlock(p, s, d, v)
  BY PlacesKept DEF ExactBlock
<1>3. \A s : BlockNote(p, s, d)' = BlockNote(p, s, d)
  BY DEF BlockNote
<1>4. \A s, is : PlacedBlock(p, s, d, is)' <=> PlacedBlock(p, s, d, is)
  BY <1>3 DEF PlacedBlock
<1> QED
  BY <1>1, <1>2, <1>3, <1>4, PlacesKept, TypesKept DEF BlockInv

-----------------------------------------------------------------------------
(***************************************************************************)
(* The pass: where it is, and what it has made of the function.           *)
(***************************************************************************)

-----------------------------------------------------------------------------
(* No load is of the element at N - 1. *)
NoLast == \A p \in DOMAIN prog : \A s \in DOMAIN prog[p].body : \A l \in LoadsOf(prog[p].body[s]) : l.idx # "last"

(* What the pass has made of the first p items. *)
Boundary(d, v, o, p) ==
  /\ p \in 0..Len(prog) /\ d \in DiffsTo(p) /\ Fresh(d, v, p) /\ o \in Seq(Instructions)
  /\ \A N \in 2..MaxN : Agrees(Exec(prog, Entry(prog, N), o, N), d, v, p, N)

(* The pass between two items. *)
Between(p, d, v, o) ==
  /\ ~entered /\ pos = p + 1 /\ diffs = d /\ vague = v /\ out = o /\ preheader = <<>> /\ placed = <<>>
  /\ Boundary(d, v, o, p)

(* ... and in one: D is what it has gone through. *)
Within(p, d, v, o, D, dc, vc, pre, pl) ==
  /\ entered /\ pos = p /\ diffs = dc /\ vague = vc /\ preheader = pre /\ placed = pl /\ out = o
  /\ Boundary(d, v, o, p - 1)
  /\ D = {s \in DOMAIN prog[p].body : prog[p].body[s].arr \notin pend /\ \A i \in DOMAIN todo : todo[i] # s}
  /\ LoopInv(p, d, v, D, dc, vc, pre, pl) \/ BlockInv(p, d, v, D, dc, vc, pre, pl)

(* The stores it has still to go through of an array: each once, in order but for those of N. *)
Ordered(p) ==
  /\ todo \in Seq(DOMAIN prog[p].body)
  /\ \A i, j \in DOMAIN todo : i < j => todo[i] # todo[j] /\ prog[p].body[todo[i]].arr = prog[p].body[todo[j]].arr
  /\ \A i, j \in DOMAIN todo : i < j /\ ~(todo[i] < todo[j]) => OnlyOfN(prog[p].body[todo[i]])
  /\ \A i \in DOMAIN todo : prog[p].body[todo[i]].arr \notin pend

LEMMA BoundaryKept ==
  ASSUME prog' = prog
  PROVE  \A d, v, o, p : Boundary(d, v, o, p)' <=> Boundary(d, v, o, p)
<1> SUFFICES ASSUME NEW d, NEW v, NEW o, NEW p PROVE Boundary(d, v, o, p)' <=> Boundary(d, v, o, p)
  OBVIOUS
<1>1. \A N : Agrees(Exec(prog, Entry(prog, N), o, N), d, v, p, N)' <=> Agrees(Exec(prog, Entry(prog, N), o, N), d, v, p, N)
  <2> SUFFICES ASSUME NEW N
               PROVE  Agrees(Exec(prog, Entry(prog, N), o, N), d, v, p, N)' <=> Agrees(Exec(prog, Entry(prog, N), o, N), d, v, p, N)
    OBVIOUS
  <2>1. PICK S : S = Exec(prog, Entry(prog, N), o, N)
    OBVIOUS
  <2>2. Agrees(S, d, v, p, N)' <=> Agrees(S, d, v, p, N)
    BY AgreesKept
  <2> QED
    BY <2>1, <2>2
<1> QED
  BY <1>1, PlacesKept, TypesKept DEF Boundary

(* A pass that is in an item, at its next store. *)
AtStoreOf(p, d, v, o, D) ==
  /\ Plain /\ NoLast /\ PassInv /\ todo # <<>> /\ Ordered(p)
  /\ Within(p, d, v, o, D, diffs, vague, preheader, placed)

LEMMA NextStore ==
  ASSUME NEW p, NEW d, NEW v, NEW o, NEW D, AtStoreOf(p, d, v, o, D)
  PROVE  /\ Plain /\ pos = p /\ p \in DOMAIN prog /\ p \in Nat \ {0} /\ Item = prog[p] /\ Store = St(p, Head(todo)) /\ entered
         /\ Head(todo) \in DOMAIN prog[p].body \ D /\ D \subseteq DOMAIN prog[p].body
         /\ todo[1] = Head(todo) /\ 1 \in DOMAIN todo /\ todo \in Seq(DOMAIN prog[p].body)
         /\ \A i \in DOMAIN todo : i # 1 => 1 < i
         /\ \A l \in LoadsOf(St(p, Head(todo))) : l.idx # "last"
<1>1. /\ Plain /\ NoLast /\ PassInv /\ todo # <<>> /\ Ordered(p) /\ entered /\ pos = p
      /\ D = {s \in DOMAIN prog[p].body : prog[p].body[s].arr \notin pend /\ \A i \in DOMAIN todo : todo[i] # s}
  BY DEF AtStoreOf, Within
<1>2. p \in 1..Len(prog) /\ p \in DOMAIN prog /\ Item = prog[p] /\ Head(todo) \in DOMAIN prog[p].body /\ p \in Nat \ {0}
  BY <1>1, AtStore DEF PassInv, Item
<1>3. todo \in Seq(DOMAIN prog[p].body) /\ DOMAIN todo = 1..Len(todo) /\ Len(todo) \in Nat
  BY <1>1 DEF Ordered
<1>4. todo[1] = Head(todo) /\ 1 \in DOMAIN todo /\ \A i \in DOMAIN todo : i # 1 => 1 < i
  BY <1>1, <1>3
<1>5. Head(todo) \notin D
  BY <1>1, <1>4
<1>6. Store = St(p, Head(todo))
  BY <1>2 DEF Store, St
<1>7. \A l \in LoadsOf(St(p, Head(todo))) : l.idx # "last"
  BY <1>1, <1>2 DEF NoLast, St
<1> QED
  BY <1>1, <1>2, <1>3, <1>4, <1>5, <1>6, <1>7

LEMMA InLoop ==
  ASSUME NEW p, NEW d, NEW v, NEW o, NEW D, AtStoreOf(p, d, v, o, D), Item.loop, LoopGaps(Store) = {}
  PROVE  Peeling(p, Head(todo), d, v, D)
<1> DEFINE s == Head(todo)  st == prog[p].body[s]
<1>1. /\ pos = p /\ p \in DOMAIN prog /\ Item = prog[p] /\ Store = St(p, s) /\ s \in DOMAIN prog[p].body \ D
      /\ todo[1] = s /\ 1 \in DOMAIN todo /\ todo \in Seq(DOMAIN prog[p].body) /\ \A i \in DOMAIN todo : i # 1 => 1 < i
      /\ \A l \in LoadsOf(St(p, s)) : l.idx # "last"
      /\ Plain
  BY NextStore
<1>2. LoopInv(p, d, v, D, diffs, vague, preheader, placed)
  BY <1>1 DEF AtStoreOf, Within, BlockInv
<1>3. St(p, s) = st
  BY DEF St
<1>4. Recurs(st) => \A q \in 1..(s - 1) : prog[p].body[q].arr = st.arr => q \in D
  <2> SUFFICES ASSUME Recurs(st), NEW q \in 1..(s - 1), prog[p].body[q].arr = st.arr PROVE q \in D
    OBVIOUS
  <2>1. DOMAIN prog[p].body = 1..Len(prog[p].body) /\ Len(prog[p].body) \in Nat /\ st \in Stores
    BY <1>1, PlainIs
  <2>2. q \in DOMAIN prog[p].body /\ q < s /\ s \in Nat
    BY <1>1, <2>1
  <2>3. st.arr \notin pend
    BY <1>1 DEF AtStoreOf, Ordered
  <2>4. ASSUME NEW i \in DOMAIN todo, todo[i] = q PROVE FALSE
    <3>1. i # 1 /\ ~(todo[1] < todo[i])
      BY <1>1, <2>2, <2>4
    <3>2. OnlyOfN(prog[p].body[todo[1]])
      BY <1>1, <3>1 DEF AtStoreOf, Ordered
    <3>3. st.loads = <<>>
      BY <1>1, <3>2 DEF OnlyOfN
    <3> QED
      BY <2>1, <3>3, NoLoads
  <2> QED
    BY <2>2, <2>3, <2>4 DEF AtStoreOf, Within
<1> QED
  BY <1>1, <1>2, <1>3, <1>4 DEF Peeling

LEMMA InBlockOf ==
  ASSUME NEW p, NEW d, NEW v, NEW o, NEW D, AtStoreOf(p, d, v, o, D), ~Item.loop, BlockGaps(Store) = {}
  PROVE  PeelingBlock(p, Head(todo), d, v, D)
<1> DEFINE s == Head(todo)
<1>1. /\ pos = p /\ p \in DOMAIN prog /\ Item = prog[p] /\ Store = St(p, s) /\ s \in DOMAIN prog[p].body \ D
      /\ \A l \in LoadsOf(St(p, s)) : l.idx # "last"
  BY NextStore
<1>2. BlockInv(p, d, v, D, diffs, vague, preheader, placed)
  BY <1>1 DEF AtStoreOf, Within, LoopInv
<1>3. St(p, s) = prog[p].body[s]
  BY DEF St
<1> QED
  BY <1>1, <1>2, <1>3 DEF PeelingBlock

(* The store it comes to is behind it afterwards. *)
LEMMA Peeled ==
  ASSUME NEW p, NEW d, NEW v, NEW o, NEW D, AtStoreOf(p, d, v, o, D), NEW kind, Peel(kind),
         NEW D1, D1 = D \cup {Head(todo)},
         NEW dc1, NEW vc1, NEW pre1, NEW pl1, dc1 = diffs', vc1 = vague', pre1 = preheader', pl1 = placed',
         LoopInv(p, d, v, D1, dc1, vc1, pre1, pl1) \/ BlockInv(p, d, v, D1, dc1, vc1, pre1, pl1)
  PROVE  Within(p, d, v, o, D1, dc1, vc1, pre1, pl1)' /\ Ordered(p)'
<1> DEFINE s == Head(todo)
<1>1. /\ pos = p /\ p \in DOMAIN prog /\ s \in DOMAIN prog[p].body \ D /\ D \subseteq DOMAIN prog[p].body
      /\ todo[1] = s /\ 1 \in DOMAIN todo /\ todo \in Seq(DOMAIN prog[p].body) /\ \A i \in DOMAIN todo : i # 1 => 1 < i
  BY NextStore
<1>2. todo # <<>> /\ todo' = Tail(todo) /\ UNCHANGED <<prog, pos, pend, entered, out>>
  BY DEF Peel
<1>3. /\ Ordered(p) /\ entered /\ out = o /\ Boundary(d, v, o, p - 1)
      /\ D = {q \in DOMAIN prog[p].body : prog[p].body[q].arr \notin pend /\ \A i \in DOMAIN todo : todo[i] # q}
  BY DEF AtStoreOf, Within
<1>4. /\ Tail(todo) \in Seq(DOMAIN prog[p].body) /\ DOMAIN Tail(todo) = 1..(Len(todo) - 1) /\ DOMAIN todo = 1..Len(todo) /\ Len(todo) \in Nat
      /\ \A i \in 1..(Len(todo) - 1) : Tail(todo)[i] = todo[i + 1] /\ i + 1 \in DOMAIN todo
  <2> DEFINE S == DOMAIN prog[p].body
  <2>1. todo \in Seq(S) /\ todo # <<>>
    BY <1>1, <1>2
  <2> HIDE DEF S
  <2>2. /\ Tail(todo) \in Seq(S) /\ Len(Tail(todo)) = Len(todo) - 1
        /\ \A i \in 1..Len(Tail(todo)) : Tail(todo)[i] = todo[i + 1]
    BY <2>1, HeadTailProperties
  <2>3. Len(todo) \in Nat /\ DOMAIN todo = 1..Len(todo) /\ DOMAIN Tail(todo) = 1..Len(Tail(todo))
    BY <2>1, <2>2
  <2> QED
    BY <2>2, <2>3 DEF S
<1>5. Ordered(p)'
  <2>1. \A i, j \in 1..(Len(todo) - 1) : i < j => i + 1 < j + 1
    OBVIOUS
  <2>2. \A i, j \in DOMAIN Tail(todo) : i < j => /\ Tail(todo)[i] # Tail(todo)[j] /\ prog[p].body[Tail(todo)[i]].arr = prog[p].body[Tail(todo)[j]].arr
                                                 /\ ~(Tail(todo)[i] < Tail(todo)[j]) => OnlyOfN(prog[p].body[Tail(todo)[i]])
    BY <1>3, <1>4, <2>1 DEF Ordered
  <2>3. \A i \in DOMAIN Tail(todo) : prog[p].body[Tail(todo)[i]].arr \notin pend
    BY <1>3, <1>4 DEF Ordered
  <2>5. (todo \in Seq(DOMAIN prog[p].body))'
    BY <1>2, <1>4
  <2>6. (\A i, j \in DOMAIN todo : i < j => todo[i] # todo[j] /\ prog[p].body[todo[i]].arr = prog[p].body[todo[j]].arr)'
    BY <1>2, <2>2
  <2>7. (\A i, j \in DOMAIN todo : i < j /\ ~(todo[i] < todo[j]) => OnlyOfN(prog[p].body[todo[i]]))'
    BY <1>2, <2>2
  <2>8. (\A i \in DOMAIN todo : prog[p].body[todo[i]].arr \notin pend)'
    BY <1>2, <2>3
  <2> QED
    BY <2>5, <2>6, <2>7, <2>8 DEF Ordered
<1>6. D1 = {q \in DOMAIN prog[p].body : prog[p].body[q].arr \notin pend /\ \A i \in DOMAIN Tail(todo) : Tail(todo)[i] # q}
  <2>1. prog[p].body[s].arr \notin pend /\ \A i \in DOMAIN Tail(todo) : Tail(todo)[i] # s
    <3>1. \A i \in DOMAIN todo : 1 < i => todo[i] # s
      BY <1>1, <1>3 DEF Ordered
    <3>2. \A i \in 1..(Len(todo) - 1) : 1 < i + 1
      BY <1>4
    <3> QED
      BY <1>1, <1>3, <1>4, <3>1, <3>2 DEF Ordered
  <2>2. ASSUME NEW q \in DOMAIN prog[p].body, q # s, \A i \in DOMAIN Tail(todo) : Tail(todo)[i] # q
        PROVE  \A i \in DOMAIN todo : todo[i] # q
    <3> SUFFICES ASSUME NEW i \in DOMAIN todo PROVE todo[i] # q
      OBVIOUS
    <3>1. CASE i = 1
      BY <1>1, <2>2, <3>1
    <3>2. CASE i # 1
      <4>1. i - 1 \in 1..(Len(todo) - 1) /\ (i - 1) + 1 = i
        BY <1>1, <1>4, <3>2
      <4> QED
        BY <1>4, <2>2, <4>1
    <3> QED
      BY <3>1, <3>2
  <2>3. ASSUME NEW q \in DOMAIN prog[p].body, \A i \in DOMAIN todo : todo[i] # q
        PROVE  \A i \in DOMAIN Tail(todo) : Tail(todo)[i] # q
    BY <1>4, <2>3
  <2> QED
    BY <1>1, <1>3, <2>1, <2>2, <2>3
<1>7. Boundary(d, v, o, p - 1)'
  BY <1>2, <1>3, BoundaryKept
<1>8. (LoopInv(p, d, v, D1, dc1, vc1, pre1, pl1) \/ BlockInv(p, d, v, D1, dc1, vc1, pre1, pl1))'
  BY <1>2, LoopInvKept, BlockInvKept
<1>9. (D1 = {q \in DOMAIN prog[p].body : prog[p].body[q].arr \notin pend /\ \A i \in DOMAIN todo : todo[i] # q})'
  BY <1>2, <1>6
<1>10. (entered /\ pos = p /\ diffs = dc1 /\ vague = vc1 /\ preheader = pre1 /\ placed = pl1 /\ out = o)'
  BY <1>1, <1>2, <1>3
<1> QED
  BY <1>5, <1>7, <1>8, <1>9, <1>10, Zenon DEF Within

(* The pass is in the item, a store further. *)
OneFurther(p, d, v, o) == \E D, dc, vc, pre, pl : Within(p, d, v, o, D, dc, vc, pre, pl) /\ Ordered(p)

(* What each of the three steps records. *)
LEMMA RecordsNote ==
  ASSUME NEW p, NEW s, NEW d, NEW v, NEW D, Peeling(p, s, d, v, D), Plain, Store = St(p, s), NEW dc1, dc1 = diffs', NEW vc1, vc1 = vague',
         LoopJudge, LoopOfN \/ LoopConstant \/ LoopSum
  PROVE  Noted(p, s, dc1, vc1)
<1> DEFINE st == St(p, s)  V == ValuesOver(LoadsTo(p))
<1>1. /\ st \in Stores /\ st.arr \in Arrays /\ p \in Nat /\ p \in DOMAIN prog /\ s \in DOMAIN prog[p].body /\ diffs \in DiffsTo(p) /\ pos = p /\ Head(todo) = s
      /\ st.term \in Terms
  BY PeelingIs, StoreIs
<1>2. vc1 = IF LoopExact(st) THEN vague ELSE vague \cup {st.arr}
  BY DEF LoopJudge, Judge
<1>3. LoopExact(st) => (~IsStatic(st.arr) => EvenTerm(st)) /\ (IsStatic(st.arr) => Accumulates(st))
  BY SMT DEF LoopExact, IsStatic
<1>4. diffs \in [Arrays -> Seq(V)]
  BY <1>1 DEF DiffsTo
<1>5. \E vs \in Seq(V) : /\ dc1 = [diffs EXCEPT ![st.arr] = @ \o vs]
                         /\ LoopExact(st) => vs = AppendedDiffs(st) \o AdditionalRecord(st)
  <2>1. CASE LoopOfN
    <3>1. dc1 = [diffs EXCEPT ![st.arr] = @ \o <<OfTerm(st.term)>>] /\ OnlyOfN(st)
      BY <2>1 DEF LoopOfN, Record, Peel
    <3>2. st.loads = <<>>
      BY <3>1 DEF OnlyOfN
    <3>3. /\ AppendedDiffs(st) = TermSeq(st) /\ AdditionalRecord(st) = <<>> /\ ~Accumulates(st)
          /\ EvenTerm(st) /\ OnlyOfN(st) /\ ~IsStatic(st.arr) => TermSeq(st) = <<OfTerm(st.term)>>
      BY <1>1, <3>2, NoLoads
    <3>4. <<OfTerm(st.term)>> \in Seq(V)
      <4>1. <<0, 0, 0>> \in LoadsTo(p)
        BY <1>1 DEF LoadsTo, AllLoads, LoadSites
      <4>2. OfTerm(st.term) \in V
        BY <1>1, <4>1 DEF OfTerm, ValuesOver
      <4> HIDE DEF st, V
      <4> QED
        BY <4>2
    <3>5. <<OfTerm(st.term)>> \o <<>> = <<OfTerm(st.term)>>
      OBVIOUS
    <3>6. LoopExact(st) => <<OfTerm(st.term)>> = AppendedDiffs(st) \o AdditionalRecord(st)
      BY <1>3, <3>1, <3>3, <3>5
    <3> HIDE DEF st, V
    <3> QED
      BY <3>1, <3>4, <3>6
  <2>2. CASE LoopConstant
    <3>1. dc1 = diffs /\ Constant(st)
      BY <2>2 DEF LoopConstant, Peel
    <3>2. st.loads = <<>>
      BY <3>1 DEF Constant
    <3>3. AppendedDiffs(st) = <<>> /\ AdditionalRecord(st) = <<>>
      BY <1>1, <3>1, <3>2, NoLoads
    <3> HIDE DEF st, V
    <3>4. diffs[st.arr] \o <<>> = diffs[st.arr] /\ <<>> \o <<>> = <<>> /\ <<>> \in Seq(V)
      BY <1>1, <1>4
    <3>5. dc1 = [diffs EXCEPT ![st.arr] = @ \o <<>>]
      BY <1>1, <1>4, <3>1, <3>4
    <3> QED
      BY <3>3, <3>4, <3>5
  <2>3. CASE LoopSum
    <3>1. dc1 = [diffs EXCEPT ![st.arr] = @ \o (AppendedDiffs(st) \o AdditionalRecord(st))]
      BY <2>3 DEF LoopSum, Record
    <3>2. AppendedDiffs(st) \in Seq(V) /\ AdditionalRecord(st) \in Seq(V)
      BY <1>1, AddedType, AdditionalType
    <3> HIDE DEF st, V
    <3>3. AppendedDiffs(st) \o AdditionalRecord(st) \in Seq(V)
      BY <3>2
    <3> QED
      BY <3>1, <3>3
  <2> QED
    BY <2>1, <2>2, <2>3
<1> QED
  BY <1>2, <1>5 DEF Noted

(* ... and inserts. *)
LEMMA InsertsAt ==
  ASSUME NEW p, NEW s, pos = p, Head(todo) = s, Store = St(p, s), NEW pre1, pre1 = preheader', NEW pl1, pl1 = placed',
         LoopOfN \/ LoopConstant \/ LoopSum
  PROVE  InsertedAt(p, s, pre1, pl1)
<1> DEFINE st == St(p, s)  add == AddAt(p, s, FALSE, Added(st))
<1>1. CASE LoopOfN \/ LoopConstant
  <2>1. pre1 = preheader /\ pl1 = placed /\ st.loads = <<>>
    BY <1>1 DEF LoopOfN, LoopConstant, Peel, OnlyOfN, Constant
  <2> QED
    BY <2>1 DEF InsertedAt
<1>2. CASE LoopSum
  <2>1. Addition(FALSE, Added(Store)) = add
    BY DEF Addition, AddAt
  <2>2. (CASE Added(Store) = <<>>          -> UNCHANGED <<preheader, placed>>
          [] IsStatic(Store.arr)          -> preheader' = preheader \o <<add>> /\ UNCHANGED placed
          [] OTHER                        -> Replace(placed[Head(todo)] \o <<add>>) /\ UNCHANGED preheader)
    BY <1>2, <2>1 DEF LoopSum
  <2>3. \/ Added(st) = <<>> /\ pre1 = preheader /\ pl1 = placed
        \/ IsStatic(st.arr) /\ pre1 = preheader \o <<add>> /\ pl1 = placed
        \/ ~IsStatic(st.arr) /\ Added(st) # <<>> /\ pre1 = preheader /\ pl1 = [placed EXCEPT ![s] = placed[s] \o <<add>>]
    <3> HIDE DEF add, st
    <3>0. Store = st
      BY DEF st
    <3> QED
      BY <2>2, <3>0 DEF Replace
  <2> QED
    BY <2>3 DEF InsertedAt
<1> QED
  BY <1>1, <1>2

LEMMA LoopGoesOn ==
  ASSUME NEW p, NEW d, NEW v, NEW o, NEW D, AtStoreOf(p, d, v, o, D), LoopOfN \/ LoopConstant \/ LoopSum, gaps' = {}, preheader' \in Seq(Instructions)
  PROVE  OneFurther(p, d, v, o)'
<1> DEFINE s == Head(todo)
<1>1. Plain /\ pos = p /\ Store = St(p, s)
  BY NextStore
<1>2. LoopJudge /\ Item.loop
  BY DEF LoopOfN, LoopConstant, LoopSum, Peel
<1>3. LoopGaps(Store) = {}
  BY <1>2 DEF LoopJudge, Judge
<1>4. Peeling(p, s, d, v, D)
  BY <1>2, <1>3, InLoop
<1>5. PICK D1, dc1, vc1, pre1, pl1 : D1 = D \cup {s} /\ dc1 = diffs' /\ vc1 = vague' /\ pre1 = preheader' /\ pl1 = placed'
  OBVIOUS
<1>6. Noted(p, s, dc1, vc1)
  BY <1>1, <1>2, <1>4, <1>5, RecordsNote
<1>7. InsertedAt(p, s, pre1, pl1)
  BY <1>1, <1>5, InsertsAt
<1>8. LoopInv(p, d, v, D \cup {s}, dc1, vc1, pre1, pl1)
  BY <1>1, <1>4, <1>5, <1>6, <1>7, LoopStep
<1>9. PICK kind : Peel(kind)
  BY DEF LoopOfN, LoopConstant, LoopSum
<1>10. Within(p, d, v, o, D1, dc1, vc1, pre1, pl1)' /\ Ordered(p)'
  BY <1>5, <1>8, <1>9, Peeled
<1> QED
  BY <1>10 DEF OneFurther

(* The kinds of a block's store exclude each other. *)
LEMMA BlockKinds ==
  ASSUME NEW st
  PROVE  /\ OnlyOfN(st) => ~Constant(st) /\ ~OneLoad(st) /\ ~Unsupported(st)
         /\ Constant(st) => ~OnlyOfN(st) /\ ~OneLoad(st) /\ ~Unsupported(st)
         /\ OneLoad(st) => ~OnlyOfN(st) /\ ~Constant(st) /\ ~Unsupported(st)
         /\ Unsupported(st) => ~OnlyOfN(st) /\ ~Constant(st) /\ ~OneLoad(st)
<1>1. Len(<<>>) # 1
  OBVIOUS
<1> QED
  BY <1>1 DEF OnlyOfN, Constant, OneLoad, Unsupported

(* What each of the four steps records and leaves in the store's place. *)
LEMMA BlockNotes ==
  ASSUME NEW p, NEW s, NEW d, NEW v, NEW D, PeelingBlock(p, s, d, v, D), Plain, Store = St(p, s),
         NEW dc1, dc1 = diffs', NEW vc1, vc1 = vague', NEW pl1, pl1 = placed',
         BlockOfN \/ BlockConstant \/ BlockCopy \/ BlockOther
  PROVE  NotedBlock(p, s, dc1, vc1) /\ PlacedNote(p, s, pl1) /\ preheader' = preheader
<1> DEFINE st == St(p, s)
<1>1. /\ Store = st /\ pos = p /\ Head(todo) = s /\ st \in Stores
  BY PeelingBlockIs
<1>2. vc1 = IF BlockExact(st) THEN vague ELSE vague \cup {st.arr}
  BY <1>1 DEF BlockOfN, BlockConstant, BlockCopy, BlockOther, BlockJudge, Judge
<1>3. \A e, vs : Addition(e, vs) = AddAt(p, s, e, vs)
  BY <1>1 DEF Addition, AddAt
<1>4. IsStatic(st.arr) <=> st.arr \in Static
  BY DEF IsStatic
<1>5. /\ OnlyOfN(st) => ~Constant(st) /\ ~OneLoad(st) /\ ~Unsupported(st)
      /\ Constant(st) => ~OnlyOfN(st) /\ ~OneLoad(st) /\ ~Unsupported(st)
      /\ OneLoad(st) => ~OnlyOfN(st) /\ ~Constant(st) /\ ~Unsupported(st)
      /\ Unsupported(st) => ~OnlyOfN(st) /\ ~Constant(st) /\ ~OneLoad(st)
  BY BlockKinds
<1>6. ASSUME NEW is, placed' = [placed EXCEPT ![s] = is], InPlaceOf(p, s, is), ~Unsupported(st)
      PROVE  PlacedNote(p, s, pl1)
  BY <1>6 DEF PlacedNote
<1>7. CASE BlockOfN
  <2>1. OnlyOfN(st)
    BY <1>1, <1>7 DEF BlockOfN, Peel
  <2>2. PassNote(st) = <<OfTerm(st.term)>>
    BY <2>1 DEF PassNote
  <2>3. dc1 = [diffs EXCEPT ![st.arr] = @ \o <<OfTerm(st.term)>>] /\ preheader' = preheader
    BY <1>1, <1>7 DEF BlockOfN, Record
  <2>4. placed' = [placed EXCEPT ![s] = IF IsStatic(st.arr) THEN <<AddAt(p, s, TRUE, <<OfTerm(st.term)>>)>> ELSE <<>>]
    BY <1>1, <1>3, <1>7 DEF BlockOfN, Replace
  <2>5. NotedBlock(p, s, dc1, vc1)
    BY <1>2, <2>2, <2>3 DEF NotedBlock
  <2>6. InPlaceOf(p, s, IF IsStatic(st.arr) THEN <<AddAt(p, s, TRUE, <<OfTerm(st.term)>>)>> ELSE <<>>)
    BY <1>4, <2>2 DEF InPlaceOf
  <2> QED
    BY <1>5, <1>6, <2>1, <2>3, <2>4, <2>5, <2>6
<1>8. CASE BlockConstant
  <2>1. Constant(st)
    BY <1>1, <1>8 DEF BlockConstant, Peel
  <2>2. PassNote(st) = <<>>
    BY <1>5, <2>1 DEF PassNote
  <2>3. dc1 = diffs /\ preheader' = preheader /\ placed' = [placed EXCEPT ![s] = <<>>]
    BY <1>1, <1>8 DEF BlockConstant, Replace
  <2>4. NotedBlock(p, s, dc1, vc1)
    BY <1>2, <2>2, <2>3 DEF NotedBlock
  <2>5. InPlaceOf(p, s, <<>>)
    BY <2>2 DEF InPlaceOf
  <2> QED
    BY <1>5, <1>6, <2>1, <2>3, <2>4, <2>5
<1>9. CASE BlockCopy
  <2> DEFINE ds == diffs[st.loads[1].arr]
  <2>1. OneLoad(st) /\ preheader' = preheader
    BY <1>1, <1>9 DEF BlockCopy, Peel
  <2>2. PassNote(st) = IF ds # <<>> THEN <<Last(ds)>> ELSE <<>>
    BY <1>5, <2>1 DEF PassNote
  <2>3. \/ ds = <<>> /\ placed' = [placed EXCEPT ![s] = <<>>] /\ dc1 = diffs
        \/ /\ ds # <<>> /\ placed' = [placed EXCEPT ![s] = <<AddAt(p, s, FALSE, <<Last(ds)>>)>>]
           /\ dc1 = [diffs EXCEPT ![st.arr] = @ \o <<Last(ds)>>]
    BY <1>1, <1>3, <1>9 DEF BlockCopy, Replace, Record
  <2>4. ~IsStatic(st.arr) => ds = <<>>
    <3>1. 1 \in DOMAIN st.loads
      BY <1>1, <2>1, StoreIs DEF OneLoad
    <3>2. st.loads[1] \in LoadsOf(st)
      BY <3>1 DEF LoadsOf
    <3>3. \A l \in LoadsOf(st) : ~IsStatic(st.arr) => diffs[l.arr] = <<>>
      BY <2>1, PeelingGoodBlock, PeelingBlockIs
    <3> QED
      BY <3>2, <3>3
  <2>5. NotedBlock(p, s, dc1, vc1)
    BY <1>2, <2>2, <2>3 DEF NotedBlock
  <2>6. CASE ds = <<>>
    <3>1. InPlaceOf(p, s, <<>>) /\ placed' = [placed EXCEPT ![s] = <<>>]
      BY <2>2, <2>3, <2>6 DEF InPlaceOf
    <3> QED
      BY <1>5, <1>6, <2>1, <2>5, <3>1
  <2>7. CASE ds # <<>>
    <3>1. InPlaceOf(p, s, <<AddAt(p, s, FALSE, <<Last(ds)>>)>>)
      BY <1>4, <2>2, <2>4, <2>7 DEF InPlaceOf
    <3> QED
      BY <1>5, <1>6, <2>1, <2>3, <2>5, <2>7, <3>1
  <2> QED
    BY <2>6, <2>7
<1>10. CASE BlockOther
  <2>1. Unsupported(st) /\ dc1 = diffs /\ preheader' = preheader /\ pl1 = placed
    BY <1>1, <1>10 DEF BlockOther, Peel
  <2>2. PassNote(st) = <<>>
    BY <1>5, <2>1 DEF PassNote
  <2> QED
    BY <1>2, <2>1, <2>2 DEF NotedBlock, PlacedNote
<1> QED
  BY <1>7, <1>8, <1>9, <1>10

LEMMA BlockGoesOn ==
  ASSUME NEW p, NEW d, NEW v, NEW o, NEW D, AtStoreOf(p, d, v, o, D), BlockOfN \/ BlockConstant \/ BlockCopy \/ BlockOther, gaps' = {}
  PROVE  OneFurther(p, d, v, o)'
<1> DEFINE s == Head(todo)
<1>1. Plain /\ pos = p /\ Store = St(p, s)
  BY NextStore
<1>2. BlockJudge /\ ~Item.loop
  BY DEF BlockOfN, BlockConstant, BlockCopy, BlockOther, Peel
<1>3. BlockGaps(Store) = {}
  BY <1>2 DEF BlockJudge, Judge
<1>4. PeelingBlock(p, s, d, v, D)
  BY <1>2, <1>3, InBlockOf
<1>5. PICK D1, dc1, vc1, pre1, pl1 : D1 = D \cup {s} /\ dc1 = diffs' /\ vc1 = vague' /\ pre1 = preheader' /\ pl1 = placed'
  OBVIOUS
<1>6. NotedBlock(p, s, dc1, vc1) /\ PlacedNote(p, s, pl1) /\ preheader' = preheader
  BY <1>1, <1>4, <1>5, BlockNotes
<1>7. preheader = <<>>
  BY <1>4 DEF PeelingBlock, BlockInv
<1>8. BlockInv(p, d, v, D \cup {s}, dc1, vc1, <<>>, pl1)
  BY <1>1, <1>4, <1>6, BlockStepped
<1>9. PICK kind : Peel(kind)
  BY DEF BlockOfN, BlockConstant, BlockCopy, BlockOther
<1>10. BlockInv(p, d, v, D1, dc1, vc1, pre1, pl1)
  BY <1>5, <1>6, <1>7, <1>8
<1>11. Within(p, d, v, o, D1, dc1, vc1, pre1, pl1)' /\ Ordered(p)'
  BY <1>5, <1>9, <1>10, Peeled
<1> QED
  BY <1>11 DEF OneFurther

(* The recorded values of earlier items are values of later ones. *)
LEMMA WiderDiffs ==
  ASSUME Plain, NEW p \in Nat, NEW d \in DiffsTo(p)
  PROVE  d \in DiffsTo(p + 1) /\ d \in Diffs
<1>1. LoadsTo(p) \subseteq LoadsTo(p + 1) /\ LoadsTo(p) \subseteq AllLoads
  <2>1. ASSUME NEW r \in AllLoads, r[1] <= p
        PROVE  r[1] <= p + 1
    <3>1. r = <<0, 0, 0>> \/ \E q \in DOMAIN prog : r[1] = q
      BY <2>1 DEF AllLoads, LoadSites
    <3>2. r[1] \in Int
      <4>1. <<0, 0, 0>>[1] = 0 /\ DOMAIN prog \subseteq Int
        BY DEF Plain
      <4> QED
        BY <3>1, <4>1
    <3> QED
      BY <2>1, <3>2
  <2> QED
    BY <2>1 DEF LoadsTo
<1>2. \A a \in Arrays : d[a] \in Seq(ValuesOver(LoadsTo(p)))
  BY DEF DiffsTo
<1>3. ASSUME NEW a \in Arrays
      PROVE  d[a] \in Seq(ValuesOver(LoadsTo(p + 1))) /\ d[a] \in Seq(ValuesOver(AllLoads))
  <2>1. PICK X, Y, vs : X = LoadsTo(p) /\ Y = LoadsTo(p + 1) /\ vs = d[a]
    OBVIOUS
  <2>2. vs \in Seq(ValuesOver(X)) /\ X \subseteq Y /\ X \subseteq AllLoads
    BY <1>1, <1>2, <2>1
  <2>3. vs \in Seq(ValuesOver(Y)) /\ vs \in Seq(ValuesOver(AllLoads))
    BY <2>2, WiderValues
  <2> QED
    BY <2>1, <2>3
<1>4. d = [a \in Arrays |-> d[a]]
  BY DEF DiffsTo
<1> QED
  BY <1>3, <1>4 DEF DiffsTo, Diffs, Values

LEMMA NothingDone ==
  ASSUME Plain, NEW p \in DOMAIN prog, NEW x, NEW d, NEW N, NEW regs
  PROVE  Sum(DoneGains(p, x, d, N, regs, {})) = 0 /\ Sum(DoneNotes(p, x, d, N, regs, {})) = 0
<1>1. DOMAIN prog[p].body = 1..Len(prog[p].body) /\ Len(prog[p].body) \in Nat
  BY PlainIs
<1>2. PICK n : n = Len(prog[p].body)
  OBVIOUS
<1>3. PICK u, w : u = DoneGains(p, x, d, N, regs, {}) /\ w = DoneNotes(p, x, d, N, regs, {})
  OBVIOUS
<1>4. n \in Nat /\ DOMAIN u = 1..n /\ DOMAIN w = 1..n /\ \A k \in 1..n : u[k] = 0 /\ w[k] = 0
  BY <1>1, <1>2, <1>3 DEF DoneGains, DoneNotes
<1> QED
  BY <1>3, <1>4, SumZero

(* The pass enters an item: it has gone through none of its stores. *)
LEMMA Begun ==
  ASSUME Plain, NEW q \in Nat, NEW p, p = q + 1, p \in DOMAIN prog, NEW d, NEW v, NEW o, Boundary(d, v, o, q),
         NEW pl, DOMAIN pl = DOMAIN prog[p].body, \A s \in DOMAIN prog[p].body : pl[s] = <<OrigAt(p, s)>>
  PROVE  LoopInv(p, d, v, {}, d, v, <<>>, pl) \/ BlockInv(p, d, v, {}, d, v, <<>>, pl)
<1>1. /\ q = p - 1 /\ p \in Nat /\ d \in DiffsTo(p - 1) /\ Fresh(d, v, p - 1)
  BY DEF Boundary
<1>2. d \in DiffsTo(p) /\ d \in Diffs
  BY <1>1, WiderDiffs
<1>3. Outside(p, d, v, d, v)
  BY DEF Outside
<1>4. ASSUME NEW a \in Arrays
      PROVE  Records(p, d, d, a, {})
  <2>1. ASSUME NEW N \in 2..MaxN, NEW regs \in Registers
        PROVE  Recorded(d[a], N, regs) = Recorded(d[a], N, regs) + Sum(DoneNotes(p, a, d, N, regs, {}))
    <3>1. d[a] \in Seq(Values) /\ N \in Int
      BY <1>2, MaxNAssumption DEF Diffs
    <3>2. Recorded(d[a], N, regs) \in Int
      BY <3>1, RegistersAre
    <3>3. Sum(DoneNotes(p, a, d, N, regs, {})) = 0
      BY NothingDone
    <3> QED
      BY <3>2, <3>3
  <2> QED
    BY <2>1 DEF Records
<1>5. <<>> \in Seq(Instructions)
  OBVIOUS
<1>6. Inserts(<<>>, p, d, {})
  <2>1. ASSUME NEW N \in 2..MaxN, NEW S \in States
        PROVE  Inserted(S, Exec(prog, S, <<>>, N), p, d, N, {})
    <3>1. Exec(prog, S, <<>>, N) = S
      BY ExecEmpty
    <3>2. ASSUME NEW x \in Static
          PROVE  S.mem[x][0] = S.mem[x][0] + (N - 1) * Sum(DoneGains(p, x, d, N, S.regs, {}))
      <4>1. S.mem[x][0] \in Int
        BY StaticAssumption, MaxNAssumption DEF States, Memories, Cells
      <4>2. Sum(DoneGains(p, x, d, N, S.regs, {})) = 0
        BY NothingDone
      <4>3. N - 1 \in Int
        BY MaxNAssumption
      <4>4. (N - 1) * 0 = 0
        BY <4>3, Times
      <4> QED
        BY <4>1, <4>2, <4>4
    <3> QED
      BY <3>1, <3>2 DEF Inserted
  <2> QED
    BY <2>1 DEF Inserts
<1> QED
  BY <1>1, <1>2, <1>3, <1>4, <1>5, <1>6 DEF LoopInv, BlockInv

LEMMA Entering ==
  ASSUME Plain, PassInv, NEW q, NEW d, NEW v, NEW o, Between(q, d, v, o), Enter
  PROVE  OneFurther(q + 1, d, v, o)'
<1>1. /\ entered' = TRUE /\ pend' = Written(Item) /\ placed' = [s \in DOMAIN Item.body |-> <<Original(s)>>]
      /\ prog' = prog /\ pos' = pos /\ todo' = todo /\ diffs' = diffs /\ vague' = vague /\ preheader' = preheader /\ out' = out
      /\ pos > 0 /\ ~Finished
  BY DEF Enter, ghosts
<1>2. PICK p : p = q + 1
  OBVIOUS
<1>3. pos = p /\ diffs = d /\ vague = v /\ out = o /\ preheader = <<>> /\ todo = <<>> /\ Boundary(d, v, o, q) /\ q \in 0..Len(prog)
  BY <1>2 DEF Between, Boundary, PassInv
<1>4. prog \in Seq(Items) /\ Len(prog) \in Nat /\ DOMAIN prog = 1..Len(prog)
  BY AtStore
<1>5. p \in DOMAIN prog /\ q \in Nat /\ p \in Nat /\ q = p - 1 /\ Item = prog[p]
  BY <1>1, <1>2, <1>3, <1>4 DEF Finished, Item
<1>6. PICK pl : pl = placed'
  OBVIOUS
<1>7. DOMAIN pl = DOMAIN prog[p].body /\ \A s \in DOMAIN prog[p].body : pl[s] = <<OrigAt(p, s)>>
  BY <1>1, <1>3, <1>5, <1>6 DEF Original, OrigAt
<1>8. LoopInv(p, d, v, {}, d, v, <<>>, pl) \/ BlockInv(p, d, v, {}, d, v, <<>>, pl)
  BY <1>2, <1>3, <1>5, <1>7, Begun
<1>9. Boundary(d, v, o, p - 1)
  BY <1>3, <1>5
<1>10. LoopInv(p, d, v, {}, d, v, <<>>, pl)' \/ BlockInv(p, d, v, {}, d, v, <<>>, pl)'
  BY <1>1, <1>8, LoopInvKept, BlockInvKept
<1>11. Boundary(d, v, o, p - 1)'
  BY <1>1, <1>9, BoundaryKept
<1>12. ({} = {s \in DOMAIN prog[p].body : prog[p].body[s].arr \notin pend /\ \A i \in DOMAIN todo : todo[i] # s})'
  BY <1>1, <1>5 DEF Written
<1>13. (entered /\ pos = p /\ diffs = d /\ vague = v /\ preheader = <<>> /\ placed = pl /\ out = o)'
  BY <1>1, <1>3, <1>6
<1>14. Within(p, d, v, o, {}, d, v, <<>>, pl)'
  BY <1>10, <1>11, <1>12, <1>13 DEF Within
<1>15. Ordered(p)'
  BY <1>1, <1>3 DEF Ordered
<1>16. OneFurther(p, d, v, o)'
  BY <1>14, <1>15 DEF OneFurther
<1> QED
  BY <1>2, <1>16

(* The stores of a set in the order they have in the item: each of them, once. *)
IsOrderOf(q, S) ==
  /\ q \in Seq(S) /\ DOMAIN q = 1..Len(q) /\ Len(q) \in Nat /\ \A i \in DOMAIN q : q[i] \in S
  /\ \A x \in S : \E i \in DOMAIN q : q[i] = x
  /\ \A i, j \in DOMAIN q : i < j => q[i] < q[j]

LEMMA OrderOf ==
  ASSUME NEW S, IsFiniteSet(S), NEW q \in InOrder(S)
  PROVE  IsOrderOf(q, S)
<1> DEFINE n == Cardinality(S)
<1>1. n \in Nat
  BY FS_CardinalityType
<1>2. q \in [1..n -> S] /\ (\A i, j \in 1..n : i # j => q[i] # q[j]) /\ \A i, j \in DOMAIN q : i < j => q[i] < q[j]
  BY DEF InOrder, SetToSeqs
<1>3. IsFiniteSet(1..n) /\ Cardinality(1..n) = n
  BY <1>1, FS_Interval
<1>4. q \in Injection(1..n, S)
  BY <1>2 DEF Injection, IsInjective
<1>5. q \in Surjection(1..n, S)
  <2>1. Cardinality(1..n) = Cardinality(S)
    BY <1>3
  <2> HIDE DEF n
  <2> QED
    BY <1>4, <2>1, FS_Injection
<1>6. \A x \in S : \E i \in 1..n : q[i] = x
  BY <1>5 DEF Surjection
<1> HIDE DEF n
<1>7. q \in Seq(S) /\ DOMAIN q = 1..n /\ Len(q) = n
  BY <1>1, <1>2
<1> QED
  BY <1>1, <1>2, <1>6, <1>7 DEF IsOrderOf

(* ... or first those of F, and then the others. *)
IsChoice(q, S, F) ==
  /\ q \in Seq(S) /\ \A x \in S : \E i \in DOMAIN q : q[i] = x
  /\ \A i, j \in DOMAIN q : i < j => q[i] # q[j] /\ (~(q[i] < q[j]) => q[i] \in F)

LEMMA ChosenOnce ==
  ASSUME NEW S \in SUBSET Nat, NEW F, NEW q, IsOrderOf(q, S)
  PROVE  IsChoice(q, S, F)
<1>1. \A i, j \in DOMAIN q : i < j => q[i] # q[j] /\ (~(q[i] < q[j]) => q[i] \in F)
  <2>1. \A i \in DOMAIN q : q[i] \in Nat
    BY DEF IsOrderOf
  <2> QED
    BY <2>1 DEF IsOrderOf
<1> QED
  BY <1>1 DEF IsOrderOf, IsChoice

LEMMA ChosenTwice ==
  ASSUME NEW S \in SUBSET Nat, NEW F, NEW u, NEW w, IsOrderOf(u, S \cap F), IsOrderOf(w, S \ F)
  PROVE  IsChoice(u \o w, S, F)
<1>1. PICK m, n, q : m = Len(u) /\ n = Len(w) /\ q = u \o w
  OBVIOUS
<1>2. /\ u \in Seq(S) /\ w \in Seq(S) /\ m \in Nat /\ n \in Nat
      /\ DOMAIN u = 1..m /\ DOMAIN w = 1..n
      /\ \A i \in 1..m : u[i] \in F /\ u[i] \in S /\ u[i] \in Nat
      /\ \A i \in 1..n : w[i] \notin F /\ w[i] \in S /\ w[i] \in Nat
  <2>1. /\ DOMAIN u = 1..m /\ DOMAIN w = 1..n /\ m \in Nat /\ n \in Nat
        /\ \A i \in DOMAIN u : u[i] \in S \cap F
        /\ \A i \in DOMAIN w : w[i] \in S \ F
    BY <1>1 DEF IsOrderOf
  <2>2. u \in Seq(S) /\ w \in Seq(S)
    <3>1. u \in Seq(S \cap F) /\ w \in Seq(S \ F)
      BY DEF IsOrderOf
    <3> QED
      BY <3>1
  <2> QED
    BY <2>1, <2>2
<1>3. /\ q \in Seq(S) /\ DOMAIN q = 1..(m + n)
      /\ \A i \in 1..m : q[i] = u[i]
      /\ \A i \in (m + 1)..(m + n) : q[i] = w[i - m]
  BY <1>1, <1>2
<1>4. /\ \A x \in S \cap F : \E i \in 1..m : u[i] = x
      /\ \A x \in S \ F : \E i \in 1..n : w[i] = x
      /\ \A i, j \in 1..m : i < j => u[i] < u[j]
      /\ \A i, j \in 1..n : i < j => w[i] < w[j]
  BY <1>2 DEF IsOrderOf
<1>5. ASSUME NEW x \in S
      PROVE  \E i \in DOMAIN q : q[i] = x
  <2>1. CASE x \in F
    <3>1. PICK i \in 1..m : u[i] = x
      BY <1>4, <2>1
    <3>2. i \in 1..(m + n)
      BY <1>2
    <3>3. i \in DOMAIN q /\ q[i] = x
      BY <1>3, <3>1, <3>2
    <3> QED
      BY <3>3
  <2>2. CASE x \notin F
    <3>1. PICK i \in 1..n : w[i] = x
      BY <1>4, <2>2
    <3>2. m + i \in (m + 1)..(m + n) /\ (m + i) - m = i /\ m + i \in 1..(m + n)
      BY <1>2
    <3> QED
      BY <1>3, <3>1, <3>2
  <2> QED
    BY <2>1, <2>2
<1>6. ASSUME NEW i \in DOMAIN q, NEW j \in DOMAIN q, i < j
      PROVE  q[i] # q[j] /\ (~(q[i] < q[j]) => q[i] \in F)
  <2>1. CASE j <= m
    <3>1. i \in 1..m /\ j \in 1..m
      BY <1>2, <1>3, <1>6, <2>1
    <3>2. u[i] < u[j] /\ u[i] \in Nat /\ u[j] \in Nat /\ q[i] = u[i] /\ q[j] = u[j]
      BY <1>2, <1>3, <1>4, <1>6, <3>1
    <3> QED
      BY <3>2
  <2>2. CASE i <= m /\ ~(j <= m)
    <3>1. i \in 1..m /\ j \in (m + 1)..(m + n) /\ j - m \in 1..n
      BY <1>2, <1>3, <1>6, <2>2
    <3>2. q[i] \in F /\ q[j] \notin F
      BY <1>2, <1>3, <3>1
    <3> QED
      BY <3>2
  <2>3. CASE ~(i <= m)
    <3>1. /\ i \in (m + 1)..(m + n) /\ j \in (m + 1)..(m + n) /\ i - m \in 1..n /\ j - m \in 1..n /\ i - m < j - m
      BY <1>2, <1>3, <1>6, <2>3
    <3>2. w[i - m] < w[j - m] /\ w[i - m] \in Nat /\ w[j - m] \in Nat /\ q[i] = w[i - m] /\ q[j] = w[j - m]
      BY <1>2, <1>3, <1>4, <3>1
    <3> QED
      BY <3>2
  <2> QED
    BY <2>1, <2>2, <2>3
<1>7. IsChoice(q, S, F)
  BY <1>3, <1>5, <1>6 DEF IsChoice
<1> QED
  BY <1>1, <1>7

(* The pass turns to an array of the item. *)
LEMMA Turning ==
  ASSUME Plain, PassInv, NEW p, NEW d, NEW v, NEW o, NEW D, NEW dc, NEW vc, NEW pre, NEW pl, Within(p, d, v, o, D, dc, vc, pre, pl),
         NEW a, ChooseArray(a)
  PROVE  OneFurther(p, d, v, o)'
<1> DEFINE body == prog[p].body  ss == {s \in DOMAIN body : body[s].arr = a}  F == {s \in DOMAIN body : OnlyOfN(body[s])}
<1>1. /\ pos = p /\ entered /\ todo = <<>> /\ a \in pend /\ pend' = pend \ {a}
      /\ prog' = prog /\ pos' = pos /\ entered' = entered /\ diffs' = diffs /\ preheader' = preheader /\ placed' = placed /\ out' = out
      /\ vague' = vague /\ Item = prog[p]
  BY DEF ChooseArray, ChooseArrayBy, Within, ghosts, Item
<1>2. p \in DOMAIN prog
  BY DEF Within, LoopInv, BlockInv
<1>3. DOMAIN body = 1..Len(body) /\ Len(body) \in Nat
  BY <1>2, PlainIs
<1>4. DOMAIN body \in SUBSET Nat /\ IsFiniteSet(DOMAIN body)
  <2> HIDE DEF body
  <2>1. IsFiniteSet(1..Len(body))
    BY <1>3, FS_Interval
  <2> QED
    BY <1>3, <2>1
<1>5. ss \in SUBSET DOMAIN body /\ ss \cap F \in SUBSET DOMAIN body /\ ss \ F \in SUBSET DOMAIN body
  OBVIOUS
<1>6. IsFiniteSet(ss) /\ IsFiniteSet(ss \cap F) /\ IsFiniteSet(ss \ F) /\ ss \in SUBSET Nat
  <2> HIDE DEF body, ss, F
  <2> QED
    BY <1>4, <1>5, FS_Subset
<1>7. \/ \E first \in InOrder(ss \cap F), second \in InOrder(ss \ F) : todo' = first \o second
      \/ todo' \in InOrder(ss)
  BY <1>1 DEF ChooseArray, ChooseArrayBy
<1>8. IsChoice(todo', ss, F)
  <2> HIDE DEF ss, F
  <2>1. ASSUME NEW first \in InOrder(ss \cap F), NEW second \in InOrder(ss \ F), todo' = first \o second
        PROVE  IsChoice(todo', ss, F)
    <3>1. IsOrderOf(first, ss \cap F) /\ IsOrderOf(second, ss \ F)
      BY <1>6, OrderOf
    <3>2. IsChoice(first \o second, ss, F)
      BY <1>6, <3>1, ChosenTwice
    <3> QED
      BY <2>1, <3>2
  <2>2. ASSUME todo' \in InOrder(ss)
        PROVE  IsChoice(todo', ss, F)
    <3>1. PICK q : q = todo'
      OBVIOUS
    <3>2. IsOrderOf(q, ss)
      BY <1>6, <2>2, <3>1, OrderOf
    <3>3. IsChoice(q, ss, F)
      BY <1>6, <3>2, ChosenOnce
    <3> QED
      BY <3>1, <3>3
  <2> QED
    BY <1>7, <2>1, <2>2
<1>9. /\ \A x \in ss : \E i \in DOMAIN todo' : todo'[i] = x
      /\ \A i, j \in DOMAIN todo' : i < j => todo'[i] # todo'[j] /\ (~(todo'[i] < todo'[j]) => todo'[i] \in F)
      /\ todo' \in Seq(ss)
  <2> HIDE DEF ss, F
  <2> QED
    BY <1>8 DEF IsChoice
<1>10. \A i \in DOMAIN todo' : todo'[i] \in ss
  <2> HIDE DEF ss, F
  <2>1. PICK q : q = todo'
    OBVIOUS
  <2>2. q \in Seq(ss)
    BY <1>9, <2>1
  <2>3. \A i \in DOMAIN q : q[i] \in ss
    BY <2>2
  <2> QED
    BY <2>1, <2>3
<1>11. todo' \in Seq(DOMAIN body)
  <2>1. PICK q : q = todo'
    OBVIOUS
  <2>2. q \in Seq(ss) /\ ss \subseteq DOMAIN body
    BY <1>9, <2>1
  <2>3. q \in Seq(DOMAIN body)
    <3> HIDE DEF ss, body
    <3> QED
      BY <2>2
  <2> QED
    BY <2>1, <2>3
<1>12. Ordered(p)'
  <2>1. (todo \in Seq(DOMAIN prog[p].body))'
    BY <1>1, <1>11
  <2>2. (\A i, j \in DOMAIN todo : i < j => todo[i] # todo[j] /\ prog[p].body[todo[i]].arr = prog[p].body[todo[j]].arr)'
    BY <1>1, <1>9, <1>10
  <2>3. (\A i, j \in DOMAIN todo : i < j /\ ~(todo[i] < todo[j]) => OnlyOfN(prog[p].body[todo[i]]))'
    BY <1>1, <1>9
  <2>4. (\A i \in DOMAIN todo : prog[p].body[todo[i]].arr \notin pend)'
    BY <1>1, <1>10
  <2> QED
    BY <2>1, <2>2, <2>3, <2>4 DEF Ordered
<1>13. (D = {s \in DOMAIN prog[p].body : prog[p].body[s].arr \notin pend /\ \A i \in DOMAIN todo : todo[i] # s})'
  <2>1. D = {s \in DOMAIN body : body[s].arr \notin pend}
    BY <1>1 DEF Within
  <2>2. \A s \in DOMAIN body : (body[s].arr \notin pend \ {a} /\ \A i \in DOMAIN todo' : todo'[i] # s) <=> body[s].arr \notin pend
    BY <1>1, <1>9, <1>10
  <2> QED
    BY <1>1, <2>1, <2>2
<1>14. Boundary(d, v, o, p - 1)' /\ (LoopInv(p, d, v, D, dc, vc, pre, pl)' \/ BlockInv(p, d, v, D, dc, vc, pre, pl)')
  BY <1>1, BoundaryKept, LoopInvKept, BlockInvKept DEF Within
<1>15. (entered /\ pos = p /\ diffs = dc /\ vague = vc /\ preheader = pre /\ placed = pl /\ out = o)'
  BY <1>1 DEF Within
<1>16. Within(p, d, v, o, D, dc, vc, pre, pl)'
  BY <1>13, <1>14, <1>15 DEF Within
<1> QED
  BY <1>12, <1>16 DEF OneFurther

(* What the difference function does in an item the pass has gone through. *)
LEMMA ItemRuns ==
  ASSUME Plain, NEW p, NEW d, NEW v, NEW dc, NEW vc, NEW pre, NEW pl, NEW D, D = DOMAIN prog[p].body,
         LoopInv(p, d, v, D, dc, vc, pre, pl) \/ BlockInv(p, d, v, D, dc, vc, pre, pl),
         pl \in Seq(Seq(Instructions)), NEW N \in 2..MaxN, NEW S0, Agrees(S0, d, v, p - 1, N)
  PROVE  Agrees(Exec(prog, Exec(prog, S0, pre, N), FlattenSeq(pl), N), dc, vc, p, N)
<1>1. S0 \in States
  BY DEF Agrees
<1>2. CASE LoopInv(p, d, v, D, dc, vc, pre, pl)
  <2>1. LoopReady(p, d, v) /\ p \in DOMAIN prog
    BY <1>2 DEF LoopInv, LoopReady
  <2>2. \A a \in Written(prog[p]) : a \in Arrays
    <3>1. \A s \in DOMAIN prog[p].body : prog[p].body[s].arr \in Arrays
      BY <2>1, PlainIs, StoreIs
    <3> QED
      BY <3>1 DEF Written
  <2>3. LoopLeft(p, d, v, dc, vc)
    BY <1>2, <2>1, <2>2 DEF LoopInv, LoopLeft
  <2>4. AllPlaced(p, d, pl)
    BY <1>2 DEF LoopInv, AllPlaced
  <2>5. PICK S, T : S = Exec(prog, S0, pre, N) /\ T = Exec(prog, S, FlattenSeq(pl), N)
    OBVIOUS
  <2>6. Inserted(S0, S, p, d, N, DOMAIN prog[p].body)
    BY <1>1, <1>2, <2>5 DEF LoopInv, Inserts
  <2>7. Like(S, S0, N, p, 0)
    BY <2>1, <2>6, LikeBegins
  <2>8. Like(T, S0, N, p, Len(prog[p].body))
    BY <2>1, <2>4, <2>5, <2>7, LoopRuns
  <2>9. Agrees(T, dc, vc, p, N)
    BY <2>3, <2>8, LoopAgrees
  <2> QED
    BY <2>5, <2>9
<1>3. CASE BlockInv(p, d, v, D, dc, vc, pre, pl)
  <2>1. BlockReady(p, d, v) /\ p \in DOMAIN prog /\ pre = <<>>
    BY <1>3 DEF BlockInv, BlockReady
  <2>2. BlockLeft(p, d, v, dc, vc)
    BY <1>3, <2>1 DEF BlockInv, BlockLeft
  <2>3. AllBlockPlaced(p, d, pl)
    BY <1>3 DEF BlockInv, AllBlockPlaced
  <2>4. Exec(prog, S0, pre, N) = S0
    BY <2>1, ExecEmpty
  <2>5. PICK T : T = Exec(prog, S0, FlattenSeq(pl), N)
    OBVIOUS
  <2>6. BlockLike(T, S0, N, p, Len(prog[p].body))
    BY <2>1, <2>3, <2>5, BlockRuns
  <2>7. Agrees(T, dc, vc, p, N)
    BY <2>2, <2>6, BlockAgrees
  <2> QED
    BY <2>4, <2>5, <2>7
<1> QED
  BY <1>2, <1>3

LEMMA StaysFresh ==
  ASSUME NEW p \in Nat \ {0}, NEW d, NEW v, NEW dc, NEW vc, Fresh(d, v, p - 1), Outside(p, d, v, dc, vc)
  PROVE  Fresh(dc, vc, p)
<1>1. ASSUME NEW a \in Arrays, ~StoredBy(a, p)
      PROVE  dc[a] = <<>> /\ a \notin vc
  <2>1. ~StoredBy(a, p - 1) /\ a \notin Written(prog[p])
    BY <1>1 DEF StoredBy
  <2> QED
    BY <2>1 DEF Fresh, Outside
<1> QED
  BY <1>1 DEF Fresh

(* The pass leaves an item. *)
LEMMA Leaving ==
  ASSUME Plain, PassInv, NEW p, NEW d, NEW v, NEW o, NEW D, NEW dc, NEW vc, NEW pre, NEW pl, Within(p, d, v, o, D, dc, vc, pre, pl), Leave,
         NEW o1, o1 = out'
  PROVE  Between(p, dc, vc, o1)'
<1>1. /\ pend = {} /\ todo = <<>> /\ out' = (out \o preheader) \o FlattenSeq(placed) /\ pos' = pos + 1 /\ entered' = FALSE
      /\ preheader' = <<>> /\ placed' = <<>> /\ prog' = prog /\ diffs' = diffs /\ vague' = vague
  BY DEF Leave, ghosts
<1>2. pos = p /\ diffs = dc /\ vague = vc /\ preheader = pre /\ placed = pl /\ out = o /\ Boundary(d, v, o, p - 1)
      /\ (LoopInv(p, d, v, D, dc, vc, pre, pl) \/ BlockInv(p, d, v, D, dc, vc, pre, pl))
  BY DEF Within
<1>3. D = DOMAIN prog[p].body
  BY <1>1 DEF Within
<1>4. /\ p \in DOMAIN prog /\ dc \in DiffsTo(p) /\ Outside(p, d, v, dc, vc) /\ Fresh(d, v, p - 1)
  BY <1>2 DEF LoopInv, BlockInv
<1>5. DOMAIN prog = 1..Len(prog) /\ Len(prog) \in Nat
  BY AtStore
<1>6. p \in Nat \ {0} /\ p \in 0..Len(prog) /\ pos' = p + 1
  BY <1>1, <1>2, <1>4, <1>5
<1>7. o \in Seq(Instructions) /\ pre \in Seq(Instructions) /\ pl \in Seq(Seq(Instructions))
  BY <1>2 DEF PassInv, TypeOK
<1>8. FlattenSeq(pl) \in Seq(Instructions) /\ o \o pre \in Seq(Instructions)
  BY <1>7, FlatIsSeq
<1>9. o1 = (o \o pre) \o FlattenSeq(pl) /\ o1 \in Seq(Instructions)
  BY <1>1, <1>2, <1>8
<1>10. ASSUME NEW N \in 2..MaxN
       PROVE  Agrees(Exec(prog, Entry(prog, N), o1, N), dc, vc, p, N)
  <2>1. PICK E, S0, S, T : /\ E = Entry(prog, N) /\ S0 = Exec(prog, E, o, N) /\ S = Exec(prog, S0, pre, N)
                           /\ T = Exec(prog, S, FlattenSeq(pl), N)
    OBVIOUS
  <2>2. Agrees(S0, d, v, p - 1, N)
    BY <1>2, <2>1 DEF Boundary
  <2>3. Agrees(T, dc, vc, p, N)
    BY <1>2, <1>3, <1>7, <2>1, <2>2, ItemRuns
  <2>4. Exec(prog, E, o \o pre, N) = S
    BY <1>7, <2>1, ExecConcat
  <2>5. Exec(prog, E, (o \o pre) \o FlattenSeq(pl), N) = T
    <3>1. PICK u, w : u = o \o pre /\ w = FlattenSeq(pl)
      OBVIOUS
    <3>2. u \in Seq(Instructions) /\ w \in Seq(Instructions)
      BY <1>8, <3>1
    <3>3. Exec(prog, E, u \o w, N) = Exec(prog, Exec(prog, E, u, N), w, N)
      BY <3>2, ExecConcat
    <3> QED
      BY <2>1, <2>4, <3>1, <3>3
  <2> QED
    BY <1>9, <2>1, <2>3, <2>5
<1>11. Boundary(dc, vc, o1, p)
  BY <1>4, <1>6, <1>9, <1>10, StaysFresh DEF Boundary
<1>12. Boundary(dc, vc, o1, p)'
  BY <1>1, <1>11, BoundaryKept
<1>13. (~entered /\ pos = p + 1 /\ diffs = dc /\ vague = vc /\ out = o1 /\ preheader = <<>> /\ placed = <<>>)'
  BY <1>1, <1>2
<1> QED
  BY <1>12, <1>13 DEF Between

-----------------------------------------------------------------------------
(***************************************************************************)
(* Its beginning.                                                         *)
(***************************************************************************)

LEMMA CellInt ==
  ASSUME NEW m \in Memories, NEW a \in Arrays, NEW j \in Cells
  PROVE  m[a][j] \in Int
BY DEF Memories

(* The difference function begins with what P_(N-1) has left. *)
LEMMA EntryIs ==
  ASSUME Plain, NEW N \in 2..MaxN
  PROVE  /\ Entry(prog, N) \in States /\ Entry(prog, N).mem = Final(N - 1)
         /\ \A r \in AllLoads : Entry(prog, N).regs[r] = 0
<1>1. Final(N - 1) \in Memories
  BY FinalType
<1>2. PICK R : R = [r \in AllLoads |-> 0]
  OBVIOUS
<1>3. <<0, 0, 0>> \in AllLoads
  BY DEF AllLoads, LoadSites
<1>4. R \in Registers /\ \A r \in AllLoads : R[r] = 0
  BY <1>2, <1>3 DEF Registers
<1>5. PICK m : m = Final(N - 1)
  OBVIOUS
<1>6. Entry(prog, N) = [mem |-> m, regs |-> R]
  BY <1>2, <1>5 DEF Entry, Final, AllLoads
<1> QED
  BY <1>1, <1>4, <1>5, <1>6 DEF States

LEMMA EntryAgrees ==
  ASSUME Plain, NEW N \in 2..MaxN, NEW d, d = [a \in Arrays |-> <<>>], NEW S, S = Entry(prog, N)
  PROVE  Agrees(S, d, {}, 0, N)
<1>1. S \in States /\ S.mem = Final(N - 1)
  BY EntryIs
<1>2. /\ N \in 1..MaxN /\ N - 1 \in 1..MaxN /\ N \in Int /\ N - 1 \in Cells /\ 0 \in Cells /\ N - 1 # 0 /\ 0..(N - 2) \subseteq Cells
  BY MaxNAssumption DEF Cells
<1>3. /\ Mem(N)[0] = At0 /\ Mem(N - 1)[0] = At0 /\ Final(N - 1) = Mem(N - 1)[Len(prog)] /\ Final(N - 1) \in Memories
      /\ At0 \in Memories
  BY <1>2, MemIs, FinalType, At0Type
<1>4. Len(prog) \in 0..Len(prog)
  BY DEF Plain
<1>5. ASSUME NEW a \in Arrays \ Static
      PROVE  S.mem[a][N - 1] = Mem(N)[0][a][N - 1]
  <2>1. Mem(N - 1)[Len(prog)][a][N - 1] = At0[a][N - 1]
    <3>1. N - 1 >= N - 1
      BY <1>2
    <3> QED
      BY <1>2, <1>4, <3>1, NeverReached
  <2> QED
    BY <1>1, <1>3, <2>1
<1>6. ASSUME NEW x \in Static
      PROVE  S.mem[x][0] = Mem(N)[0][x][0] + Behind(N, 0, x)
  <2>1. ~RestartedBy(x, 0)
    BY DEF RestartedBy
  <2>2. Behind(N, 0, x) = Final(N - 1)[x][0] - At0[x][0]
    BY <1>3, <2>1 DEF Behind
  <2>3. PICK f, b : f = Final(N - 1)[x][0] /\ b = At0[x][0]
    OBVIOUS
  <2>4. f \in Int /\ b \in Int
    BY <1>2, <1>3, <2>3, CellInt, StaticAssumption
  <2> QED
    BY <1>1, <1>3, <2>2, <2>3, <2>4
<1>7. DiffsHold(d, {}, 0, N, S.regs)
  <2>1. ASSUME NEW a \in Arrays, NEW k \in 0..(N - 2)
        PROVE  Grown(N, 0, a, Index(a, k)) = 0 /\ Recorded(d[a], N, S.regs) = 0
    <3>1. Recorded(d[a], N, S.regs) = 0
      BY RecordedEmpty
    <3>2. Index(a, k) \in Cells
      BY <1>2 DEF Index
    <3>3. PICK b, i : i = Index(a, k) /\ b = At0[a][i]
      OBVIOUS
    <3>4. b \in Int
      BY <1>3, <3>2, <3>3, CellInt
    <3>5. Grown(N, 0, a, i) = b - b
      BY <1>3, <3>3 DEF Grown
    <3> QED
      BY <3>1, <3>3, <3>4, <3>5
  <2> QED
    BY <2>1 DEF DiffsHold
<1>8. \A a \in Arrays \ Static : \A j \in 0..(N - 2) : StillOld(S.mem, d, {}, 0, N, a, j)
  BY <1>1 DEF StillOld
<1> QED
  BY <1>1, <1>5, <1>6, <1>7, <1>8 DEF Agrees

LEMMA NothingYet ==
  ASSUME Plain, NEW d, d = [a \in Arrays |-> <<>>]
  PROVE  Boundary(d, {}, <<>>, 0)
<1>1. d \in DiffsTo(0)
  <2>1. PICK V : V = ValuesOver(LoadsTo(0))
    OBVIOUS
  <2>2. d \in [Arrays -> Seq(V)]
    OBVIOUS
  <2> QED
    BY <2>1, <2>2 DEF DiffsTo
<1>2. Fresh(d, {}, 0)
  BY DEF Fresh
<1>3. ASSUME NEW N \in 2..MaxN
      PROVE  Agrees(Exec(prog, Entry(prog, N), <<>>, N), d, {}, 0, N)
  <2>1. PICK S : S = Entry(prog, N)
    OBVIOUS
  <2>2. Exec(prog, S, <<>>, N) = S
    BY ExecEmpty
  <2>3. Agrees(S, d, {}, 0, N)
    BY <2>1, EntryAgrees
  <2> QED
    BY <2>1, <2>2, <2>3
<1>4. 0 \in 0..Len(prog) /\ <<>> \in Seq(Instructions)
  BY DEF Plain
<1> QED
  BY <1>1, <1>2, <1>3, <1>4 DEF Boundary

(* The pass before it has begun. *)
NotBegun ==
  /\ pos = 0 /\ ~entered /\ diffs = [a \in Arrays |-> <<>>] /\ vague = {} /\ out = <<>> /\ preheader = <<>> /\ placed = <<>>

LEMMA NoLastIs == NoLast <=> ~NInIndex
BY DEF NoLast, NInIndex

LEMMA Beginning ==
  ASSUME Plain, NotBegun, PeelFunction, gaps' = {}, NEW d, d = diffs
  PROVE  NoLast' /\ Between(0, d, {}, <<>>)'
<1>1. /\ pos' = 1 /\ prog' = prog /\ entered' = entered /\ diffs' = diffs /\ preheader' = preheader /\ placed' = placed
      /\ out' = out /\ vague' = vague /\ ~NInIndex
  BY DEF PeelFunction
<1>2. NoLast'
  <2>1. NoLast
    BY <1>1, NoLastIs
  <2> QED
    BY <1>1, <2>1 DEF NoLast
<1>3. Boundary(d, {}, <<>>, 0)
  BY NothingYet DEF NotBegun
<1>4. Boundary(d, {}, <<>>, 0)'
  BY <1>1, <1>3, BoundaryKept
<1>5. (~entered /\ pos = 0 + 1 /\ diffs = d /\ vague = {} /\ out = <<>> /\ preheader = <<>> /\ placed = <<>>)'
  BY <1>1 DEF NotBegun
<1> QED
  BY <1>2, <1>4, <1>5 DEF Between

-----------------------------------------------------------------------------
(***************************************************************************)
(* A function without loops, which is kept.                               *)
(***************************************************************************)

(* A function without loops is kept as it is: none of its stores reads an array it stores. *)
Unwritten(a) == \A q \in DOMAIN prog : a \notin Written(prog[q])
Whole ==
  /\ \A p \in DOMAIN prog : ~prog[p].loop
  /\ \A p \in DOMAIN prog : \A s \in DOMAIN prog[p].body : \A l \in LoadsOf(prog[p].body[s]) : Unwritten(l.arr)

(* The difference function and P_N, when the arrays of W have been stored. *)
KeptLike(S, m, W) ==
  /\ S \in States /\ m \in Memories
  /\ \A a \in Arrays : Unwritten(a) => S.mem[a] = At0[a] /\ m[a] = At0[a]
  /\ \A a \in W : S.mem[a][0] = m[a][0]
  /\ \A a \in Arrays \ Static : \A j \in Cells : j # 0 => S.mem[a][j] = At0[a][j]

LEMMA KeptStep ==
  ASSUME Plain, Whole, NEW N \in 2..MaxN, NEW p \in DOMAIN prog, NEW s \in DOMAIN prog[p].body, NEW S, NEW m, NEW W \in SUBSET Arrays,
         KeptLike(S, m, W), NEW T, T = Execute(prog, S, OrigAt(p, s), N),
         NEW m1, m1 = Assigned(m, Arr(p, s), 0, StoreValue(m, St(p, s), N, 0))
  PROVE  KeptLike(T, m1, W \cup {Arr(p, s)})
<1> DEFINE st == St(p, s)
<1>1. /\ st \in Stores /\ st.arr \in Arrays /\ Arr(p, s) = st.arr /\ st = prog[p].body[s]
  BY PlainIs, StoreIs DEF St, Arr
<1>2. PICK a : a = st.arr
  OBVIOUS
<1>3. ~prog[p].loop
  BY DEF Whole
<1>4. Counter(p, N) = 0 /\ Counts(prog[p], N, 0) /\ N \in 1..MaxN /\ 0 \in Cells /\ Index(a, 0) = 0
  BY <1>3, MaxNAssumption DEF Counter, Counts, Cells, Index
<1>5. S \in States /\ S.mem \in Memories /\ m \in Memories
  BY DEF KeptLike, States
<1>6. StoreValue(S.mem, st, N, 0) = StoreValue(m, st, N, 0) /\ StoreValue(m, st, N, 0) \in Int
  <2>1. ASSUME NEW l \in DOMAIN st.loads
        PROVE  LoadValue(S.mem, st.loads[l], N, 0) = LoadValue(m, st.loads[l], N, 0)
    <3>1. st.loads[l] \in LoadsOf(st) /\ st.loads[l].arr \in Arrays
      BY <1>1, StoreIs
    <3>2. Unwritten(st.loads[l].arr)
      BY <1>1, <3>1 DEF Whole
    <3>3. S.mem[st.loads[l].arr] = m[st.loads[l].arr]
      BY <3>1, <3>2 DEF KeptLike
    <3> QED
      BY <3>3 DEF LoadValue
  <2> HIDE DEF st
  <2> QED
    BY <1>1, <1>4, <1>5, <2>1, ValueSame, StoreValueIs
<1>7. PICK w : w = StoreValue(m, st, N, 0)
  OBVIOUS
<1>8. T \in States /\ T.mem = Assigned(S.mem, a, 0, w)
  <2>1. Legal(OrigAt(p, s)) /\ OrigAt(p, s).kind = "store" /\ OrigAt(p, s).item = p /\ OrigAt(p, s).store = s
    <3>1. <<>> \in Seq(Values)
      OBVIOUS
    <3> QED
      BY <3>1, LegalAt DEF OrigAt
  <2>2. PICK in : in = OrigAt(p, s)
    OBVIOUS
  <2>3. T \in States /\ T.mem = Assigned(S.mem, st.arr, Counter(p, N), StoreValue(S.mem, st, N, Counter(p, N)))
    <3> HIDE DEF st
    <3>1. T = Execute(prog, S, in, N) /\ Legal(in) /\ in.kind = "store" /\ p = in.item /\ s = in.store
      BY <2>1, <2>2
    <3> QED
      BY <1>1, <1>5, <3>1, ExecuteStore
  <2> QED
    BY <1>2, <1>4, <1>6, <1>7, <2>3
<1>9. m1 = Assigned(m, a, 0, w) /\ a \in Arrays /\ w \in Int
  BY <1>1, <1>2, <1>6, <1>7
<1>10. /\ m1 \in Memories /\ m1[a][0] = w /\ T.mem[a][0] = w
       /\ \A b \in Arrays : b # a => m1[b] = m[b] /\ T.mem[b] = S.mem[b]
       /\ \A j \in Cells : j # 0 => T.mem[a][j] = S.mem[a][j]
  <2> HIDE DEF st
  <2> QED
    BY <1>4, <1>5, <1>8, <1>9, AssignedIs
<1>11. ~Unwritten(a)
  BY <1>1, <1>2 DEF Unwritten, Written
<1>12. \A b \in Arrays : Unwritten(b) => T.mem[b] = At0[b] /\ m1[b] = At0[b]
  BY <1>10, <1>11 DEF KeptLike
<1>13. ASSUME NEW b \in W \cup {a} PROVE T.mem[b][0] = m1[b][0]
  <2>1. CASE b = a
    BY <1>10, <2>1
  <2>2. CASE b # a
    <3>1. b \in W /\ b \in Arrays
      BY <2>2
    <3>2. S.mem[b][0] = m[b][0]
      BY <3>1 DEF KeptLike
    <3>3. m1[b] = m[b] /\ T.mem[b] = S.mem[b]
      BY <1>10, <2>2, <3>1
    <3> QED
      BY <3>2, <3>3
  <2> QED
    BY <2>1, <2>2
<1>14. ASSUME NEW b \in Arrays \ Static, NEW j \in Cells, j # 0 PROVE T.mem[b][j] = At0[b][j]
  <2>1. S.mem[b][j] = At0[b][j]
    BY <1>14 DEF KeptLike
  <2> QED
    BY <1>10, <1>14, <2>1
<1>15. KeptLike(T, m1, W \cup {a})
  BY <1>8, <1>10, <1>12, <1>13, <1>14 DEF KeptLike
<1> QED
  BY <1>1, <1>2, <1>15

CodeOf(p) == [s \in DOMAIN prog[p].body |-> OrigAt(p, s)]

LEMMA KeptItem ==
  ASSUME Plain, Whole, NEW N \in 2..MaxN, NEW p \in DOMAIN prog, NEW S, NEW W \in SUBSET Arrays, KeptLike(S, Mem(N)[p - 1], W)
  PROVE  KeptLike(Exec(prog, S, CodeOf(p), N), Mem(N)[p], W \cup Written(prog[p])) /\ Written(prog[p]) \subseteq Arrays
<1> DEFINE n == Len(prog[p].body)  body == prog[p].body
<1>1. n \in Nat /\ DOMAIN body = 1..n /\ \A s \in DOMAIN body : body[s] \in Stores /\ body[s].arr \in Arrays
  BY PlainIs, StoreIs
<1>2. ~prog[p].loop /\ Counts(prog[p], N, 0) /\ N \in 1..MaxN
  BY MaxNAssumption DEF Whole, Counts
<1>3. /\ At(N, p, 0, 0) = Mem(N)[p - 1] /\ At(N, p, 0, n) = Mem(N)[p]
      /\ \A s \in 1..n : At(N, p, 0, s) = Assigned(At(N, p, 0, s - 1), Arr(p, s), 0, StoreValue(At(N, p, 0, s - 1), St(p, s), N, 0))
  BY <1>1, <1>2, AtIs DEF Begins, Arr, St
<1>4. DOMAIN CodeOf(p) = 1..n
  BY <1>1 DEF CodeOf
<1>5. PICK run : ExecSteps(run, S, CodeOf(p), N, n)
  BY <1>1, <1>4, ExecTrace
<1>6. /\ run[0] = S /\ Exec(prog, S, CodeOf(p), N) = run[n]
      /\ \A k \in 1..n : run[k] = Execute(prog, run[k - 1], CodeOf(p)[k], N)
  BY <1>5 DEF ExecSteps
<1> DEFINE To(k) == W \cup {Arr(p, q) : q \in 1..k}
           Good == {k \in 0..n : KeptLike(run[k], At(N, p, 0, k), To(k))}
<1>7. 0 \in Good
  <2>1. To(0) = W
    OBVIOUS
  <2> HIDE DEF n, To
  <2> QED
    BY <1>1, <1>3, <1>6, <2>1
<1>8. ASSUME NEW k \in 0..(n - 1), k \in Good PROVE k + 1 \in Good
  <2>1. PICK s : s = k + 1
    OBVIOUS
  <2>2. s \in 1..n /\ s - 1 = k /\ s \in 0..n /\ s \in DOMAIN body
    <3> HIDE DEF n, body
    <3> QED
      BY <1>1, <2>1
  <2>3. /\ run[s] = Execute(prog, run[k], OrigAt(p, s), N)
        /\ At(N, p, 0, s) = Assigned(At(N, p, 0, k), Arr(p, s), 0, StoreValue(At(N, p, 0, k), St(p, s), N, 0))
    BY <1>3, <1>6, <2>2 DEF CodeOf
  <2>4. To(k) \in SUBSET Arrays
    <3>1. \A q \in 1..k : q \in 1..n
      <4> HIDE DEF n
      <4> QED
        BY <1>1
    <3> QED
      BY <1>1, <3>1 DEF Arr
  <2>5. To(s) = To(k) \cup {Arr(p, s)}
    <3>1. 1..s = (1..k) \cup {s}
      <4> HIDE DEF n
      <4> QED
        BY <1>1, <2>1
    <3> QED
      BY <3>1
  <2>6. KeptLike(run[k], At(N, p, 0, k), To(k))
    BY <1>8
  <2> HIDE DEF To
  <2>7. PICK m, m1, X : m = At(N, p, 0, k) /\ m1 = At(N, p, 0, s) /\ X = To(k)
    OBVIOUS
  <2>8. KeptLike(run[s], m1, X \cup {Arr(p, s)})
    BY <2>2, <2>3, <2>4, <2>6, <2>7, KeptStep
  <2> QED
    BY <2>1, <2>2, <2>5, <2>7, <2>8
<1> HIDE DEF Good
<1>9. 0..n \subseteq Good
  <2> HIDE DEF n
  <2> QED
    BY <1>1, <1>7, <1>8, SetInduction
<1>10. n \in Good
  <2> HIDE DEF n
  <2> QED
    BY <1>1, <1>9
<1>11. To(n) = W \cup Written(prog[p]) /\ Written(prog[p]) \subseteq Arrays
  BY <1>1 DEF Written, Arr
<1> HIDE DEF To
<1> QED
  BY <1>3, <1>6, <1>10, <1>11 DEF Good

KeptCode == FlattenSeq([p \in DOMAIN prog |-> CodeOf(p)])

LEMMA CodeIs ==
  ASSUME Plain
  PROVE  [p \in DOMAIN prog |-> CodeOf(p)] \in Seq(Seq(Instructions)) /\ KeptCode \in Seq(Instructions)
<1>1. DOMAIN prog = 1..Len(prog) /\ Len(prog) \in Nat
  BY DEF Plain
<1>2. ASSUME NEW p \in DOMAIN prog
      PROVE  CodeOf(p) \in Seq(Instructions)
  <2>1. PICK n, c : n = Len(prog[p].body) /\ c = CodeOf(p)
    OBVIOUS
  <2>2. n \in Nat /\ DOMAIN prog[p].body = 1..n /\ p \in Nat
    BY <1>1, <2>1, PlainIs
  <2>3. <<>> \in Seq(DiffVals)
    OBVIOUS
  <2>4. \A s \in 1..n : OrigAt(p, s) \in Instructions
    BY <2>2, <2>3 DEF OrigAt, Instructions
  <2>5. c = [s \in 1..n |-> OrigAt(p, s)]
    BY <2>1, <2>2 DEF CodeOf
  <2>6. c \in Seq(Instructions)
    BY <2>2, <2>4, <2>5
  <2> QED
    BY <2>1, <2>6
<1>3. PICK ss, n, X : ss = [p \in DOMAIN prog |-> CodeOf(p)] /\ n = Len(prog) /\ X = Seq(Instructions)
  OBVIOUS
<1>4. n \in Nat /\ ss = [p \in 1..n |-> CodeOf(p)] /\ \A p \in 1..n : CodeOf(p) \in X
  BY <1>1, <1>2, <1>3
<1>5. ss \in Seq(X)
  BY <1>4
<1>6. ss \in Seq(Seq(Instructions))
  BY <1>3, <1>5
<1>7. FlattenSeq(ss) \in Seq(Instructions)
  BY <1>6, FlatIsSeq
<1> QED
  BY <1>3, <1>6, <1>7 DEF KeptCode

StoredTo(k) == UNION {Written(prog[q]) : q \in 1..k}

LEMMA KeptRuns ==
  ASSUME Plain, Whole, NEW N \in 2..MaxN
  PROVE  KeptLike(Exec(prog, Entry(prog, N), KeptCode, N), Final(N), StoredTo(Len(prog)))
<1>1. PICK n, S0 : n = Len(prog) /\ S0 = Entry(prog, N)
  OBVIOUS
<1>2. n \in Nat /\ DOMAIN prog = 1..n
  BY <1>1 DEF Plain
<1>3. PICK ss : ss = [p \in DOMAIN prog |-> CodeOf(p)]
  OBVIOUS
<1>4. ss \in Seq(Seq(Instructions)) /\ KeptCode = FlattenSeq(ss) /\ Len(ss) = n /\ \A p \in 1..n : ss[p] = CodeOf(p)
  <2>1. ss \in Seq(Seq(Instructions)) /\ KeptCode = FlattenSeq(ss)
    BY <1>3, CodeIs DEF KeptCode
  <2>2. DOMAIN ss = 1..n
    BY <1>2, <1>3
  <2>3. Len(ss) = n
    BY <1>2, <2>1, <2>2
  <2> QED
    BY <1>2, <1>3, <2>1, <2>3
<1>5. PICK run : Pieces(run, S0, ss, N)
  BY <1>4, ExecFlat
<1>6. /\ run[0] = S0 /\ Exec(prog, S0, KeptCode, N) = run[n]
      /\ \A k \in 1..n : run[k] = Exec(prog, run[k - 1], CodeOf(k), N)
  BY <1>4, <1>5 DEF Pieces
<1> DEFINE Good == {k \in 0..n : KeptLike(run[k], Mem(N)[k], StoredTo(k)) /\ StoredTo(k) \subseteq Arrays}
<1>7. /\ N \in 1..MaxN /\ N - 1 \in 1..MaxN /\ N - 1 \in Cells /\ 0 \in Cells
  BY MaxNAssumption DEF Cells
<1>8. 0 \in Good
  <2>1. S0 \in States /\ S0.mem = Final(N - 1)
    BY <1>1, EntryIs
  <2>2. Final(N - 1) = Mem(N - 1)[n] /\ Mem(N)[0] = At0 /\ At0 \in Memories
    BY <1>1, <1>7, MemIs, At0Type
  <2>3. ASSUME NEW a \in Arrays, Unwritten(a)
        PROVE  S0.mem[a] = At0[a]
    <3>1. \A q \in 1..n : a \notin Written(prog[q])
      BY <1>2, <2>3 DEF Unwritten
    <3>2. n \in 0..Len(prog)
      BY <1>1, <1>2
    <3>3. PICK M : M = N - 1
      OBVIOUS
    <3>4. M \in 1..MaxN
      BY <1>7, <3>3
    <3>5. Mem(M)[n][a] = At0[a]
      BY <2>3, <3>1, <3>2, <3>4, NeverStored
    <3>6. S0.mem = Mem(M)[n]
      BY <2>1, <2>2, <3>3
    <3> QED
      BY <3>5, <3>6
  <2>4. ASSUME NEW a \in Arrays \ Static, NEW j \in Cells, j # 0
        PROVE  S0.mem[a][j] = At0[a][j]
    <3>1. \A q \in 1..n : a \in Written(prog[q]) => ~prog[q].loop
      BY <1>2 DEF Whole
    <3>2. n \in 0..Len(prog)
      BY <1>1, <1>2
    <3> QED
      BY <1>7, <2>1, <2>2, <2>4, <3>1, <3>2, NeverReached
  <2>5. StoredTo(0) = {}
    BY DEF StoredTo
  <2>6. KeptLike(S0, At0, {})
    BY <2>1, <2>2, <2>3, <2>4 DEF KeptLike
  <2>7. PICK z, r, m0, W0 : z = 0 /\ r = run[0] /\ m0 = Mem(N)[0] /\ W0 = StoredTo(0)
    OBVIOUS
  <2>8. KeptLike(r, m0, W0)
    <3>1. r = S0 /\ m0 = At0 /\ W0 = {}
      BY <1>6, <2>2, <2>5, <2>7
    <3> QED
      BY <2>6, <3>1
  <2>9. z \in 0..n /\ W0 \subseteq Arrays
    BY <1>2, <2>5, <2>7
  <2> QED
    BY <2>7, <2>8, <2>9
<1>9. ASSUME NEW k \in 0..(n - 1), k \in Good PROVE k + 1 \in Good
  <2>1. PICK p, W : p = k + 1 /\ W = StoredTo(k)
    OBVIOUS
  <2>2. p \in DOMAIN prog /\ p \in 1..n /\ p - 1 = k /\ p \in 0..n
    BY <1>2, <2>1
  <2>3. run[p] = Exec(prog, run[k], CodeOf(p), N)
    BY <1>6, <2>2
  <2>4. W \in SUBSET Arrays /\ KeptLike(run[k], Mem(N)[p - 1], W)
    BY <1>9, <2>1, <2>2
  <2>5. KeptLike(run[p], Mem(N)[p], W \cup Written(prog[p])) /\ Written(prog[p]) \subseteq Arrays
    BY <2>2, <2>3, <2>4, KeptItem
  <2>6. StoredTo(p) = W \cup Written(prog[p])
    <3>1. 1..p = (1..k) \cup {p}
      BY <1>2, <2>1
    <3> QED
      BY <2>1, <3>1 DEF StoredTo
  <2> QED
    BY <2>1, <2>2, <2>4, <2>5, <2>6
<1> HIDE DEF Good
<1>10. 0..n \subseteq Good
  BY <1>2, <1>8, <1>9, SetInduction
<1>11. n \in Good
  BY <1>2, <1>10
<1>12. Final(N) = Mem(N)[n]
  BY <1>1, <1>7, MemIs
<1> QED
  BY <1>1, <1>6, <1>11, <1>12 DEF Good

(* Its last elements, and its scalars, are those of P_N. *)
Right(S, N) == \A a \in Arrays : S.mem[a][Index(a, N - 1)] = Final(N)[a][Index(a, N - 1)]

LEMMA KeptRight ==
  ASSUME Plain, Whole, NEW N \in 2..MaxN
  PROVE  Right(Exec(prog, Entry(prog, N), KeptCode, N), N)
<1>1. PICK S, n, m : S = Exec(prog, Entry(prog, N), KeptCode, N) /\ n = Len(prog) /\ m = Final(N)
  OBVIOUS
<1>2. n \in Nat /\ DOMAIN prog = 1..n /\ n \in 0..Len(prog) /\ N \in 1..MaxN /\ N - 1 \in Cells /\ N - 1 # 0
  BY <1>1, MaxNAssumption DEF Plain, Cells
<1>3. KeptLike(S, m, StoredTo(n))
  BY <1>1, KeptRuns
<1>4. ASSUME NEW a \in Static
      PROVE  S.mem[a][0] = m[a][0]
  <2>1. CASE Unwritten(a)
    BY <1>3, <2>1, StaticAssumption DEF KeptLike
  <2>2. CASE ~Unwritten(a)
    <3>1. a \in StoredTo(n)
      BY <1>2, <2>2 DEF Unwritten, StoredTo
    <3> QED
      BY <1>3, <3>1 DEF KeptLike
  <2> QED
    BY <2>1, <2>2
<1>5. ASSUME NEW a \in Arrays \ Static
      PROVE  S.mem[a][N - 1] = m[a][N - 1]
  <2>1. S.mem[a][N - 1] = At0[a][N - 1]
    BY <1>2, <1>3 DEF KeptLike
  <2>2. m = Mem(N)[n]
    BY <1>1, <1>2, MemIs
  <2>3. \A q \in 1..n : a \in Written(prog[q]) => ~prog[q].loop
    BY <1>2 DEF Whole
  <2>4. Mem(N)[n][a][N - 1] = At0[a][N - 1]
    BY <1>2, <2>3, NeverReached
  <2> QED
    BY <2>1, <2>2, <2>4
<1>6. ASSUME NEW a \in Arrays
      PROVE  S.mem[a][Index(a, N - 1)] = m[a][Index(a, N - 1)]
  <2>1. CASE a \in Static
    <3>1. Index(a, N - 1) = 0
      BY <2>1 DEF Index, IsStatic
    <3> QED
      BY <1>4, <2>1, <3>1
  <2>2. CASE a \notin Static
    <3>1. Index(a, N - 1) = N - 1
      BY <2>2 DEF Index, IsStatic
    <3> QED
      BY <1>5, <2>2, <3>1
  <2> QED
    BY <2>1, <2>2
<1>7. Right(S, N)
  <2> SUFFICES ASSUME NEW a \in Arrays
               PROVE  S.mem[a][Index(a, N - 1)] = Final(N)[a][Index(a, N - 1)]
    BY Zenon DEF Right
  <2>1. S.mem[a][Index(a, N - 1)] = m[a][Index(a, N - 1)]
    BY <1>6
  <2>2. m = Final(N)
    BY <1>1
  <2> QED
    BY <2>1, <2>2
<1> QED
  BY <1>1, <1>7

-----------------------------------------------------------------------------
(***************************************************************************)
(* Every step of the pass.                                                *)
(***************************************************************************)

(* A function without loops has been kept. *)
KeptWhole == Finished /\ ~entered /\ Whole /\ out = KeptCode /\ vague = Arrays

(* The pass, while it adds nothing else than the difference. *)
PassGood ==
  \/ NotBegun
  \/ NoLast /\ \E p, d, v, o : Between(p, d, v, o)
  \/ NoLast /\ \E p, d, v, o : OneFurther(p, d, v, o)
  \/ KeptWhole

LEMMA Keeping ==
  ASSUME Plain, KeepFunction, ~entered, gaps' = {}
  PROVE  KeptWhole'
<1>1. /\ pos = 0 /\ pos' = Len(prog) + 1 /\ prog' = prog /\ entered' = entered /\ vague' = Arrays /\ ~HasLoops
      /\ out' = FlattenSeq([p \in DOMAIN prog |-> [s \in DOMAIN prog[p].body |-> [Original(s) EXCEPT !.item = p]]])
  BY DEF KeepFunction
<1>2. Whole
  <2>1. ~\E p \in DOMAIN prog : \E s \in DOMAIN prog[p].body :
           \E l \in LoadsOf(prog[p].body[s]) : \E q \in DOMAIN prog : l.arr \in Written(prog[q])
    BY DEF KeepFunction
  <2>2. \A p \in DOMAIN prog : ~prog[p].loop
    BY <1>1 DEF HasLoops
  <2> QED
    BY <2>1, <2>2 DEF Whole, Unwritten
<1>3. ASSUME NEW p \in DOMAIN prog, NEW s \in DOMAIN prog[p].body
      PROVE  [Original(s) EXCEPT !.item = p] = OrigAt(p, s)
  <2>1. p \in Nat /\ s \in Nat /\ <<>> \in Seq(DiffVals)
    <3>1. DOMAIN prog = 1..Len(prog) /\ DOMAIN prog[p].body = 1..Len(prog[p].body)
      BY PlainIs DEF Plain
    <3> QED
      BY <3>1
  <2>2. PICK x, y, z : x = Original(s) /\ y = OrigAt(p, s) /\ z = [x EXCEPT !.item = p]
    OBVIOUS
  <2>3. x \in Instructions /\ y \in Instructions
    BY <1>1, <2>1, <2>2 DEF Original, OrigAt, Instructions
  <2>4. z \in Instructions /\ z.kind = x.kind /\ z.item = p /\ z.store = x.store /\ z.entry = x.entry /\ z.add = x.add
    BY <2>1, <2>2, <2>3 DEF Instructions
  <2>5. y.kind = x.kind /\ y.item = p /\ y.store = x.store /\ y.entry = x.entry /\ y.add = x.add
    BY <2>2 DEF Original, OrigAt
  <2>6. z = y
    BY <2>3, <2>4, <2>5 DEF Instructions
  <2> QED
    BY <2>2, <2>6
<1>4. PICK ss : ss = [p \in DOMAIN prog |-> CodeOf(p)]
  OBVIOUS
<1>5. ss = [p \in DOMAIN prog |-> [s \in DOMAIN prog[p].body |-> [Original(s) EXCEPT !.item = p]]]
  BY <1>3, <1>4 DEF CodeOf
<1>6. out' = FlattenSeq(ss)
  BY <1>1, <1>5
<1>7. KeptCode' = FlattenSeq(ss)
  <2>1. ss = [p \in DOMAIN prog' |-> CodeOf(p)']
    BY <1>1, <1>4 DEF CodeOf, OrigAt
  <2> QED
    BY <2>1 DEF KeptCode
<1>8. Whole'
  <2>1. \A q : Written(prog'[q]) = Written(prog[q]) /\ LoadsOf(q) = LoadsOf(q)
    BY <1>1
  <2>2. \A a : Unwritten(a)' <=> Unwritten(a)
    BY <1>1 DEF Unwritten
  <2> QED
    BY <1>1, <1>2, <2>2 DEF Whole
<1>9. Finished'
  <2>1. Len(prog) \in Nat
    BY DEF Plain
  <2> QED
    BY <1>1, <2>1 DEF Finished
<1> QED
  BY <1>1, <1>6, <1>7, <1>8, <1>9 DEF KeptWhole

LEMMA WhereThePassIs ==
  ASSUME Plain, PassInv, Next
  PROVE  /\ ~Finished
         /\ ~(PeelFunction /\ pos # 0) /\ ~(KeepFunction /\ pos # 0) /\ ~(Enter /\ (pos = 0 \/ entered))
         /\ (LoopOfN \/ LoopConstant \/ LoopSum \/ BlockOfN \/ BlockConstant \/ BlockCopy \/ BlockOther) => todo # <<>> /\ entered
         /\ Leave => entered
         /\ \A a : ChooseArray(a) => entered
<1>1. Len(prog) \in Nat /\ (~entered => todo = <<>>) /\ (entered => pos \in 1..Len(prog))
  BY DEF PassInv, Plain
<1>2. (LoopOfN \/ LoopConstant \/ LoopSum \/ BlockOfN \/ BlockConstant \/ BlockCopy \/ BlockOther) => todo # <<>>
  BY DEF LoopOfN, LoopConstant, LoopSum, BlockOfN, BlockConstant, BlockCopy, BlockOther, Peel
<1>3. /\ (Leave => entered) /\ (\A a : ChooseArray(a) => entered) /\ (Enter => pos > 0 /\ ~entered /\ ~Finished)
      /\ (PeelFunction => pos = 0) /\ (KeepFunction => pos = 0)
  BY DEF Leave, ChooseArray, ChooseArrayBy, Enter, PeelFunction, KeepFunction
<1>4. pos = 0 \/ entered => ~Finished
  BY <1>1 DEF Finished
<1>5. Enter => pos # 0
  BY <1>3
<1> QED
  BY <1>1, <1>2, <1>3, <1>4, <1>5 DEF Next, PeelItems

LEMMA StaysGood ==
  ASSUME Plain, PassInv, PassGood, Next, gaps' = {}, preheader' \in Seq(Instructions)
  PROVE  PassGood'
<1>1. prog' = prog
  BY DEF Next, PeelFunction, KeepFunction, PeelItems, Enter, ChooseArray, ChooseArrayBy, LoopOfN, LoopConstant, LoopSum,
         BlockOfN, BlockConstant, BlockCopy, BlockOther, Peel, Leave
<1>2. NoLast => NoLast'
  BY <1>1 DEF NoLast
<1>3. Len(prog) \in Nat
  BY DEF Plain
<1>4. CASE NotBegun
  <2>1. pos = 0 /\ ~entered
    BY <1>4 DEF NotBegun
  <2>2. CASE PeelFunction
    <3>1. PICK d : d = diffs
      OBVIOUS
    <3>2. NoLast' /\ Between(0, d, {}, <<>>)'
      BY <1>4, <2>2, <3>1, Beginning
    <3> QED
      BY <3>2 DEF PassGood
  <2>3. CASE KeepFunction
    BY <2>1, <2>3, Keeping DEF PassGood
  <2> QED
    BY <2>1, <2>2, <2>3, WhereThePassIs DEF Next, PeelItems
<1>5. CASE NoLast /\ \E p, d, v, o : Between(p, d, v, o)
  <2>1. PICK p, d, v, o : Between(p, d, v, o)
    BY <1>5
  <2>2. ~entered /\ pos # 0
    BY <1>3, <2>1 DEF Between, Boundary
  <2>3. CASE Enter
    <3>1. OneFurther(p + 1, d, v, o)'
      BY <2>1, <2>3, Entering
    <3>2. PICK q : q = p + 1
      OBVIOUS
    <3>3. OneFurther(q, d, v, o)'
      BY <3>1, <3>2
    <3> QED
      BY <1>2, <1>5, <3>3 DEF PassGood
  <2> QED
    BY <2>2, <2>3, WhereThePassIs DEF Next, PeelItems
<1>6. CASE NoLast /\ \E p, d, v, o : OneFurther(p, d, v, o)
  <2>1. PICK p, d, v, o : OneFurther(p, d, v, o)
    BY <1>6
  <2>2. PICK D, dc, vc, pre, pl : Within(p, d, v, o, D, dc, vc, pre, pl) /\ Ordered(p)
    BY <2>1 DEF OneFurther
  <2>3. entered /\ dc = diffs /\ vc = vague /\ pre = preheader /\ pl = placed /\ pos # 0
    <3>1. entered /\ dc = diffs /\ vc = vague /\ pre = preheader /\ pl = placed
      BY <2>2 DEF Within
    <3>2. pos \in 1..Len(prog)
      BY <3>1 DEF PassInv
    <3> QED
      BY <1>3, <3>1, <3>2
  <2>4. ASSUME NEW a, ChooseArray(a) PROVE PassGood'
    <3>1. OneFurther(p, d, v, o)'
      BY <2>2, <2>4, Turning
    <3> QED
      BY <1>2, <1>6, <3>1 DEF PassGood
  <2>5. CASE Leave
    <3>1. PICK o1 : o1 = out'
      OBVIOUS
    <3>2. Between(p, dc, vc, o1)'
      BY <2>2, <2>5, <3>1, Leaving
    <3> QED
      BY <1>2, <1>6, <3>2 DEF PassGood
  <2>6. todo # <<>> => AtStoreOf(p, d, v, o, D)
    BY <1>6, <2>2, <2>3 DEF AtStoreOf
  <2>7. CASE LoopOfN \/ LoopConstant \/ LoopSum
    <3>1. todo # <<>>
      BY <2>7, WhereThePassIs
    <3>2. OneFurther(p, d, v, o)'
      BY <2>6, <2>7, <3>1, LoopGoesOn
    <3> QED
      BY <1>2, <1>6, <3>2 DEF PassGood
  <2>8. CASE BlockOfN \/ BlockConstant \/ BlockCopy \/ BlockOther
    <3>1. todo # <<>>
      BY <2>8, WhereThePassIs
    <3>2. OneFurther(p, d, v, o)'
      BY <2>6, <2>8, <3>1, BlockGoesOn
    <3> QED
      BY <1>2, <1>6, <3>2 DEF PassGood
  <2> QED
    BY <2>3, <2>4, <2>5, <2>7, <2>8, WhereThePassIs DEF Next, PeelItems
<1>7. CASE KeptWhole
  BY <1>7, WhereThePassIs DEF KeptWhole
<1> QED
  BY <1>4, <1>5, <1>6, <1>7 DEF PassGood

-----------------------------------------------------------------------------
(* What the finished pass has recorded of an array is its difference. *)
Noticed(N, d, v, regs) ==
  \A a \in Arrays \ v : \A k \in IF Partial(a) THEN {0} ELSE 0..(N - 2) :
    Final(N)[a][Index(a, k)] - Final(N - 1)[a][Index(a, k)] = Recorded(d[a], N, regs)

LEMMA AgreesRight ==
  ASSUME Plain, NEW N \in 2..MaxN, NEW S, NEW d, NEW v, Agrees(S, d, v, Len(prog), N)
  PROVE  Right(S, N)
<1> SUFFICES ASSUME NEW a \in Arrays
             PROVE  S.mem[a][Index(a, N - 1)] = Final(N)[a][Index(a, N - 1)]
  BY Zenon DEF Right
<1>1. /\ N \in 1..MaxN /\ N - 1 \in 1..MaxN /\ 0 \in Cells /\ Final(N) \in Memories /\ Final(N - 1) \in Memories
  BY MaxNAssumption, FinalType DEF Cells
<1>2. PICK m, m1 : m = Final(N) /\ m1 = Final(N - 1)
  OBVIOUS
<1>3. m = Mem(N)[Len(prog)] /\ m1 = Mem(N - 1)[Len(prog)]
  BY <1>1, <1>2, MemIs
<1>4. CASE a \notin Static
  <2>1. S.mem[a][N - 1] = m[a][N - 1]
    BY <1>3, <1>4 DEF Agrees
  <2>2. Index(a, N - 1) = N - 1
    BY <1>4 DEF Index, IsStatic
  <2> QED
    BY <1>2, <2>1, <2>2
<1>5. CASE a \in Static
  <2>1. PICK u, w, b : u = m[a][0] /\ w = m1[a][0] /\ b = Behind(N, Len(prog), a)
    OBVIOUS
  <2>2. u \in Int /\ w \in Int
    BY <1>1, <1>2, <2>1, CellInt
  <2>3. b = 0
    <3>1. b = IF RestartedBy(a, Len(prog)) THEN 0 ELSE w - w
      BY <1>2, <1>3, <2>1 DEF Behind
    <3> QED
      BY <2>2, <3>1
  <2>4. S.mem[a][0] = u + b
    BY <1>3, <1>5, <2>1 DEF Agrees
  <2>5. Index(a, N - 1) = 0
    BY <1>5 DEF Index, IsStatic
  <2> QED
    BY <1>2, <2>1, <2>2, <2>3, <2>4, <2>5
<1> QED
  BY <1>4, <1>5

LEMMA AgreesNoticed ==
  ASSUME Plain, NEW N \in 2..MaxN, NEW S, NEW d, NEW v, Agrees(S, d, v, Len(prog), N), pos = Len(prog) + 1
  PROVE  Noticed(N, d, v, S.regs)
<1> SUFFICES ASSUME NEW a \in Arrays \ v, NEW k \in IF Partial(a) THEN {0} ELSE 0..(N - 2)
             PROVE  Final(N)[a][Index(a, k)] - Final(N - 1)[a][Index(a, k)] = Recorded(d[a], N, S.regs)
  BY Zenon DEF Noticed
<1>1. N \in 1..MaxN /\ N - 1 \in 1..MaxN /\ Len(prog) \in Nat
  BY FinalType DEF Plain
<1>2. Final(N) = Mem(N)[Len(prog)] /\ Final(N - 1) = Mem(N - 1)[Len(prog)]
  BY <1>1, MemIs
<1>3. Partial(a) <=> PartialAt(a, Len(prog))
  <2>1. 1..(pos - 1) = 1..Len(prog)
    BY <1>1
  <2> QED
    BY <2>1, Zenon DEF Partial, PartialAt
<1>4. k \in 0..(N - 2) /\ ~(PartialAt(a, Len(prog)) /\ k > 0)
  BY <1>3
<1>5. Grown(N, Len(prog), a, Index(a, k)) = Recorded(d[a], N, S.regs)
  <2>1. DiffsHold(d, v, Len(prog), N, S.regs)
    BY DEF Agrees
  <2>2. Grown(N, Len(prog), a, Index(a, k)) = IF PartialAt(a, Len(prog)) /\ k > 0 THEN 0 ELSE Recorded(d[a], N, S.regs)
    BY <1>4, <2>1 DEF DiffsHold
  <2> QED
    BY <1>4, <2>2
<1> QED
  BY <1>2, <1>5 DEF Grown

(* What the finished pass makes, when it has added nothing else than the difference. *)
LEMMA GoodIsRight ==
  ASSUME Plain, PassInv, PassGood, Finished, NEW N \in 2..MaxN
  PROVE  Right(Differed(N), N) /\ Noticed(N, diffs, vague, Differed(N).regs)
<1>1. Len(prog) \in Nat /\ pos \in 0..(Len(prog) + 1) /\ pos > Len(prog)
  BY DEF Plain, PassInv, TypeOK, Finished
<1>2. pos = Len(prog) + 1
  BY <1>1
<1>3. PICK S : S = Differed(N)
  OBVIOUS
<1>4. S = Exec(prog, Entry(prog, N), out, N)
  BY <1>3 DEF Differed
<1>5. ~NotBegun /\ ~entered
  BY <1>1, <1>2 DEF NotBegun, PassInv
<1>6. ASSUME NEW p, NEW d, NEW v, NEW o, OneFurther(p, d, v, o) PROVE FALSE
  BY <1>5, <1>6 DEF OneFurther, Within
<1>7. CASE \E p, d, v, o : Between(p, d, v, o)
  <2>1. PICK p, d, v, o : Between(p, d, v, o)
    BY <1>7
  <2>2. Boundary(d, v, o, p) /\ diffs = d /\ vague = v /\ out = o /\ p = Len(prog)
    <3>1. Boundary(d, v, o, p) /\ pos = p + 1 /\ p \in 0..Len(prog) /\ diffs = d /\ vague = v /\ out = o
      BY <2>1 DEF Between, Boundary
    <3> QED
      BY <1>1, <1>2, <3>1
  <2>3. Agrees(S, diffs, vague, Len(prog), N)
    BY <1>4, <2>2 DEF Boundary
  <2> QED
    BY <1>2, <1>3, <2>3, AgreesRight, AgreesNoticed
<1>8. CASE KeptWhole
  <2>1. Right(S, N)
    BY <1>4, <1>8, KeptRight DEF KeptWhole
  <2>2. Noticed(N, diffs, vague, S.regs)
    BY <1>8, Zenon DEF KeptWhole, Noticed
  <2> QED
    BY <1>3, <2>1, <2>2
<1> QED
  BY <1>5, <1>6, <1>7, <1>8 DEF PassGood

-----------------------------------------------------------------------------
(***************************************************************************)
(* The invariant of diff_preds: while the pass adds nothing else than the  *)
(* difference, what it has made of the items it has done is the            *)
(* difference function of those; and what has been run is what it made.    *)
(***************************************************************************)
HasRun == size > 1 => Finished /\ after = Differed(size).mem /\ read = Differed(size).regs
Exact == mode = 6 => Plain /\ (pos = 0 => gaps = {}) /\ (gaps = {} => PassGood) /\ HasRun
ExactInv == PassInv /\ Exact

LEMMA ExactStarts == RunInit => ExactInv
<1> SUFFICES ASSUME RunInit PROVE ExactInv
  OBVIOUS
<1>1. PassInv
  BY PassStarts
<1>2. mode = 6 => Plain
  BY FunctionsAssumption DEF RunInit, Init, Plain
<1>3. NotBegun /\ size = 0 /\ gaps = {}
  BY DEF RunInit, Init, NotBegun
<1>4. HasRun
  BY <1>3 DEF HasRun
<1> QED
  BY <1>1, <1>2, <1>3, <1>4 DEF ExactInv, Exact, PassGood

(* The pass keeps to a function, does not begin again, and takes no gap back. *)
LEMMA PassIsOver ==
  ASSUME Plain, PassInv, Next
  PROVE  prog' = prog /\ pos' # 0 /\ (gaps' = {} => gaps = {} \/ pos = 0)
<1>1. Len(prog) \in Nat /\ (entered => pos \in 1..Len(prog))
  BY DEF Plain, PassInv
<1>2. ASSUME NEW a, ChooseArray(a) PROVE prog' = prog /\ pos' = pos /\ gaps' = gaps /\ entered
  BY <1>2 DEF ChooseArray, ChooseArrayBy, ghosts
<1>3. CASE LoopOfN \/ LoopConstant \/ LoopSum
  <2>1. prog' = prog /\ pos' = pos /\ entered /\ (gaps' = {} => gaps = {})
    BY <1>3, WhereThePassIs DEF LoopOfN, LoopConstant, LoopSum, Peel, LoopJudge, Judge
  <2> QED
    BY <1>1, <2>1
<1>4. CASE BlockOfN \/ BlockConstant \/ BlockCopy \/ BlockOther
  <2>1. prog' = prog /\ pos' = pos /\ entered /\ (gaps' = {} => gaps = {})
    BY <1>4, WhereThePassIs DEF BlockOfN, BlockConstant, BlockCopy, BlockOther, Peel, BlockJudge, Judge
  <2> QED
    BY <1>1, <2>1
<1>5. CASE Enter
  BY <1>5 DEF Enter, ghosts
<1>6. CASE Leave
  BY <1>1, <1>6 DEF Leave, ghosts
<1>7. CASE PeelFunction \/ KeepFunction
  BY <1>1, <1>7 DEF PeelFunction, KeepFunction
<1> QED
  BY <1>1, <1>2, <1>3, <1>4, <1>5, <1>6, <1>7 DEF Next, PeelItems

LEMMA StandsStill ==
  ASSUME UNCHANGED <<prog, pos, pend, todo, entered, diffs, preheader, placed, out, vague>>,
         NEW p, NEW d, NEW v, NEW o, OneFurther(p, d, v, o)
  PROVE  OneFurther(p, d, v, o)'
<1>1. PICK D, dc, vc, pre, pl : Within(p, d, v, o, D, dc, vc, pre, pl) /\ Ordered(p)
  BY DEF OneFurther
<1>2. Ordered(p)'
  BY <1>1 DEF Ordered
<1>3. Boundary(d, v, o, p - 1)' /\ (LoopInv(p, d, v, D, dc, vc, pre, pl)' \/ BlockInv(p, d, v, D, dc, vc, pre, pl)')
  BY <1>1, BoundaryKept, LoopInvKept, BlockInvKept DEF Within
<1>4. (D = {s \in DOMAIN prog[p].body : prog[p].body[s].arr \notin pend /\ \A i \in DOMAIN todo : todo[i] # s})'
  BY <1>1 DEF Within
<1>5. (entered /\ pos = p /\ diffs = dc /\ vague = vc /\ preheader = pre /\ placed = pl /\ out = o)'
  BY <1>1 DEF Within
<1>6. Within(p, d, v, o, D, dc, vc, pre, pl)'
  BY <1>3, <1>4, <1>5 DEF Within
<1> QED
  BY <1>2, <1>6 DEF OneFurther

LEMMA UnchangedExact ==
  ASSUME ExactInv, PassInv', UNCHANGED <<vars, aborted, mode>>, mode = 6 => HasRun'
  PROVE  ExactInv'
<1>1. UNCHANGED <<prog, pos, pend, todo, entered, diffs, preheader, placed, out, vague, gaps, mode>>
  BY DEF vars, pass, ghosts
<1>2. Plain => Plain'
  BY <1>1 DEF Plain, Modelled
<1>3. ASSUME PassGood PROVE PassGood'
  <2>1. CASE NotBegun
    BY <1>1, <2>1 DEF NotBegun, PassGood
  <2>2. NoLast => NoLast'
    BY <1>1 DEF NoLast
  <2>3. ASSUME NEW p, NEW d, NEW v, NEW o, Between(p, d, v, o) PROVE Between(p, d, v, o)'
    BY <1>1, <2>3, BoundaryKept DEF Between
  <2>4. ASSUME NEW p, NEW d, NEW v, NEW o, OneFurther(p, d, v, o) PROVE OneFurther(p, d, v, o)'
    BY <1>1, <2>4, StandsStill
  <2>5. CASE KeptWhole
    BY <1>1, <2>5 DEF KeptWhole, Finished, Whole, Unwritten, KeptCode, CodeOf, OrigAt, PassGood
  <2> QED
    BY <1>3, <2>1, <2>2, <2>3, <2>4, <2>5 DEF PassGood
<1> QED
  BY <1>1, <1>2, <1>3 DEF ExactInv, Exact

LEMMA ExactKeeps == ASSUME ExactInv, [RunNext]_<<vars, aborted, runVars>> PROVE ExactInv'
<1>1. PassInv
  BY DEF ExactInv
<1>2. CASE RunPass /\ UNCHANGED runVars
  <2>1. PassInv' /\ mode' = mode
    BY <1>1, <1>2, PassKeeps DEF runVars
  <2>2. CASE mode # 6
    BY <2>1, <2>2 DEF ExactInv, Exact
  <2>3. CASE mode = 6
    <3>1. Next /\ Plain /\ (pos = 0 => gaps = {}) /\ (gaps = {} => PassGood) /\ HasRun
      BY <1>2, <2>3 DEF ExactInv, Exact, RunPass
    <3>2. ~Finished /\ prog' = prog /\ pos' # 0
      BY <1>1, <3>1, WhereThePassIs, PassIsOver
    <3>3. Plain'
      BY <3>1, <3>2 DEF Plain, Modelled
    <3>4. HasRun'
      BY <1>2, <3>1, <3>2 DEF HasRun, runVars
    <3>5. ASSUME gaps' = {} PROVE PassGood'
      <4>1. preheader' \in Seq(Instructions)
        BY <2>1 DEF PassInv, TypeOK
      <4>2. gaps = {}
        BY <1>1, <3>1, <3>5, PassIsOver
      <4> QED
        BY <1>1, <3>1, <3>5, <4>1, <4>2, StaysGood
    <3> QED
      BY <2>1, <3>2, <3>3, <3>4, <3>5 DEF ExactInv, Exact
  <2> QED
    BY <2>2, <2>3
<1>3. CASE RunBase \/ RunDifference \/ UNCHANGED <<vars, aborted, runVars>>
  <2>1. PassInv'
    BY <1>1, <1>3, RunKeeps
  <2>2. UNCHANGED <<vars, aborted, mode>>
    BY <1>3 DEF RunBase, RunDifference, runVars
  <2>3. mode = 6 => HasRun'
    <3>1. CASE RunBase
      BY <3>1 DEF RunBase, HasRun
    <3>2. CASE RunDifference
      <4>1. prog' = prog /\ pos' = pos /\ out' = out /\ Finished
        BY <2>2, <3>2 DEF RunDifference, vars, pass
      <4>2. PICK N : N = size + 1
        OBVIOUS
      <4>3. size' = N /\ after' = Differed(N).mem /\ read' = Differed(N).regs
        BY <3>2, <4>2 DEF RunDifference
      <4>4. Differed(N)' = Differed(N)
        BY <4>1, MemKept DEF Differed
      <4>5. Differed(size)' = Differed(N)'
        BY <4>3
      <4>6. Finished'
        BY <4>1 DEF Finished
      <4> QED
        BY <4>3, <4>4, <4>5, <4>6 DEF HasRun
    <3>3. CASE UNCHANGED <<vars, aborted, runVars>>
      <4>1. prog' = prog /\ pos' = pos /\ out' = out /\ size' = size /\ after' = after /\ read' = read
        BY <3>3 DEF vars, pass, runVars
      <4>2. mode = 6 => HasRun
        BY DEF ExactInv, Exact
      <4>3. Differed(size)' = Differed(size)
        BY <4>1 DEF Differed
      <4> QED
        BY <4>1, <4>2, <4>3 DEF HasRun, Finished
    <3> QED
      BY <1>3, <3>1, <3>2, <3>3
  <2> QED
    BY <2>1, <2>2, <2>3, UnchangedExact
<1> QED
  BY <1>2, <1>3 DEF RunNext

LEMMA ExactIsRight ==
  ASSUME ExactInv
  PROVE  mode = 6 => DifferenceMakesPN /\ RecordedIsDifference
<1> SUFFICES ASSUME mode = 6, size > 1, gaps = {}
             PROVE  /\ \A a \in Arrays : LET i == Index(a, size - 1) IN after[a][i] = Final(size)[a][i]
                    /\ \A a \in Arrays \ vague : \A i \in {Index(a, k) : k \in IF Partial(a) THEN {0} ELSE 0..(size - 2)} :
                         Final(size)[a][i] - Final(size - 1)[a][i] = Recorded(diffs[a], size, read)
  BY DEF DifferenceMakesPN, RecordedIsDifference
<1>1. Plain /\ PassInv /\ PassGood /\ Finished /\ after = Differed(size).mem /\ read = Differed(size).regs
  BY DEF ExactInv, Exact, HasRun
<1>2. size \in 2..MaxN
  BY <1>1, MaxNAssumption DEF PassInv, TypeOK
<1>3. Right(Differed(size), size) /\ Noticed(size, diffs, vague, read)
  BY <1>1, <1>2, GoodIsRight
<1>4. ASSUME NEW a \in Arrays PROVE after[a][Index(a, size - 1)] = Final(size)[a][Index(a, size - 1)]
  BY <1>1, <1>3, Zenon DEF Right
<1>5. ASSUME NEW a \in Arrays \ vague, NEW i \in {Index(a, k) : k \in IF Partial(a) THEN {0} ELSE 0..(size - 2)}
      PROVE  Final(size)[a][i] - Final(size - 1)[a][i] = Recorded(diffs[a], size, read)
  BY <1>3, Zenon DEF Noticed
<1> QED
  BY <1>4, <1>5, Zenon

LEMMA AlwaysExact == RunSpec => []ExactInv
<1>1. ExactInv /\ [RunNext]_<<vars, aborted, runVars>> => ExactInv'
  BY ExactKeeps
<1> QED
  BY <1>1, ExactStarts, PTL DEF RunSpec

(***************************************************************************)
(* diff_preds, on any function and for any size: run on the arrays         *)
(* P_(N-1) has left, what the pass makes leaves the scalars of P_N and the *)
(* elements at N - 1, unless a step of it had one of the gaps that are     *)
(* listed with the model.                                                  *)
(***************************************************************************)
THEOREM DifferenceFunctionMakesPN == RunSpec => [](mode = 6 => DifferenceMakesPN)
<1>1. ExactInv => (mode = 6 => DifferenceMakesPN)
  BY ExactIsRight
<1> QED
  BY <1>1, AlwaysExact, PTL

(***************************************************************************)
(* ... and what its diff_val_map holds for an array is the difference      *)
(* invariant of it: by how much each element P_N and P_(N-1) both have     *)
(* differs, unless a store of the array is one whose difference the pass   *)
(* does not know.                                                          *)
(***************************************************************************)
THEOREM RecordedValuesAreDifferences == RunSpec => [](mode = 6 => RecordedIsDifference)
<1>1. ExactInv => (mode = 6 => RecordedIsDifference)
  BY ExactIsRight
<1> QED
  BY <1>1, AlwaysExact, PTL
=============================================================================
