----------------------------- MODULE DiffPreds -----------------------------
(***************************************************************************)
(* The pass diff_preds: from a function P_N over arrays of size N to the   *)
(* difference function, which makes the arrays of P_N from those P_(N-1)   *)
(* has left.  A loop is reduced to its last iteration, i = N - 1; for each *)
(* array the pass records the values by which an element of P_N exceeds    *)
(* the one of P_(N-1), and adds them wherever the last iteration alone     *)
(* would miss them.                                                        *)
(***************************************************************************)
EXTENDS ArrayFunction, SequencesExt

CONSTANT Functions

ASSUME FunctionsAssumption == Functions \subseteq Seq(Items)

VARIABLES
  prog,
  pos,        \* the item being peeled, or 0 before peel_function
  pend,       \* its arrays that are still to be peeled, or {} and pos not entered
  todo,       \* the stores of the array being peeled
  entered,
  diffs,      \* diff_val_map
  preheader,  \* what the pass inserts before the loop
  placed,     \* what it leaves in the place of each store of the item
  out,        \* the difference function, up to the item
  unsupported, \* unsupported_val: 0, or what the pass cannot transform
  vague,      \* history: arrays whose recorded values are not their difference
  gaps        \* history: where the pass adds something else than the difference

pass   == <<pos, pend, todo, entered, diffs, preheader, placed, out, unsupported>>
ghosts == <<vague, gaps>>
vars   == <<prog, pass, ghosts>>

Item     == prog[pos]
Store    == Item.body[Head(todo)]
HasLoops == \E p \in DOMAIN prog : prog[p].loop
Finished == pos > Len(prog)

(***************************************************************************)
(* A recorded value: the difference of a term, or what a load of the loop  *)
(* reads in the last iteration, times a power of N - 1.                    *)
(***************************************************************************)
LoadIds == {<<0, 0, 0>>} \cup (Nat \X Nat \X Nat)
DiffVals == [term : Terms, load : LoadIds, times : Nat]

Zero       == [c |-> 0, n |-> 0, sq |-> 0, ni |-> 0, i |-> 0]
OfTerm(t)  == [term |-> t, load |-> <<0, 0, 0>>, times |-> 0]
OfLoad(l)  == [term |-> Zero, load |-> <<pos, Head(todo), l>>, times |-> 0]

\* A bug it could have: the factor is taken out again.
TimesNSInverse(v) == [v EXCEPT !.times = @ - 1]

TimesNS(v) == [v EXCEPT !.times = @ + 1]

(* An instruction: a store of the function, or an addition to an element. *)
Instructions == [kind : {"store", "add"}, item : Nat, store : Nat, entry : BOOLEAN, add : Seq(DiffVals)]

Original(s) ==
  [kind |-> "store", item |-> pos, store |-> s, entry |-> FALSE, add |-> <<>>]
Addition(entry, vs) ==
  [kind |-> "add", item |-> pos, store |-> Head(todo), entry |-> entry, add |-> vs]

Init ==
  /\ prog \in Functions
  /\ pos = 0 /\ pend = {} /\ todo = <<>> /\ entered = FALSE
  /\ diffs = [a \in Arrays |-> <<>>]
  /\ preheader = <<>> /\ placed = <<>> /\ out = <<>> /\ unsupported = 0
  /\ vague = {} /\ gaps = {}

-----------------------------------------------------------------------------
(***************************************************************************)
(* append_diff_invs: what an operand adds to the element, and what is      *)
(* recorded for the array because of it.                                   *)
(***************************************************************************)
\* A bug it could have: the differences are added once, not per element.
ScaledOnce(a, b) == diffs[b]

Scaled(a, b) ==
  [d \in DOMAIN diffs[b] |->
     IF IsStatic(a) /\ ~IsStatic(b) THEN TimesNS(diffs[b][d]) ELSE diffs[b][d]]

(* A scalar gets those of the other operands, an array element its own. *)
AddedFor(a, b) == IF IsStatic(a) # (a = b) THEN Scaled(a, b) ELSE <<>>

RecordedFor(a, b) == IF a = b THEN <<>> ELSE Scaled(a, b)

(* The difference of the term of a scalar that accumulates, once per load of it. *)
OwnTerm(st, b) ==
  IF IsStatic(st.arr) /\ st.arr = b /\ TermRecorded(st) THEN <<TimesNS(OfTerm(st.term))>> ELSE <<>>

PerLoad(st, F(_)) == FlattenSeq([l \in DOMAIN st.loads |-> F(st.loads[l].arr)])

Added(st) == PerLoad(st, LAMBDA b : AddedFor(st.arr, b) \o OwnTerm(st, b))

(* The operand's differences reach diff_val_map after those of the term. *)
AppendedDiffs(st) ==
  PerLoad(st, LAMBDA b : OwnTerm(st, b))
    \o (IF ~IsStatic(st.arr) /\ TermRecorded(st) THEN <<OfTerm(st.term)>> ELSE <<>>)
    \o PerLoad(st, LAMBDA b : RecordedFor(st.arr, b))

\* A bug it could have: the last element is not recorded.
AdditionalRecordNever(st) == <<>>

(* additional_record: the element a scalar accumulates last. *)
AdditionalRecord(st) ==
  FlattenSeq([l \in DOMAIN st.loads |->
    IF IsStatic(st.arr) /\ ~IsStatic(st.loads[l].arr) THEN <<OfLoad(l)>> ELSE <<>>])

-----------------------------------------------------------------------------
(***************************************************************************)
(* History: what the recorded values leave out.  No action reads it.       *)
(***************************************************************************)
StoredEarlier(a) ==
  \/ \E p \in 1..(pos - 1) : a \in Written(prog[p])
  \/ \E s \in 1..(Head(todo) - 1) : Item.body[s].arr = a

OthersOf(st) == {l \in LoadsOf(st) : l.arr # st.arr}
OwnOf(st)    == LoadsOf(st) \ OthersOf(st)

Accumulates(st) == IsStatic(st.arr) /\ OwnOf(st) # {}
Recurs(st)      == ~IsStatic(st.arr) /\ \E l \in OwnOf(st) : l.idx = "below"

(* It goes on from a multiple of its own value. *)
Multiplied(st) ==
  \E l \in DOMAIN st.loads :
    /\ st.loads[l].arr = st.arr
    /\ st.loads[l].coef # 1 \/ \E k \in DOMAIN st.loads \ {l} : st.loads[k].arr = st.arr

StoredLater(a) ==
  \/ \E p \in (pos + 1)..Len(prog) : a \in Written(prog[p])
  \/ \E s \in (Head(todo) + 1)..Len(Item.body) :
       Item.body[s].arr = a /\ ~Accumulates(Item.body[s])

(* The store is left in place and does not go on from the value of P_(N-1). *)
Unsupported(st)    == ~OnlyOfN(st) /\ ~Constant(st) /\ ~OneLoad(st)
Restarts(loop, st) == IF loop THEN ~Accumulates(st) ELSE Unsupported(st)

(* What is recorded for an array is that of its first element alone. *)
Partial(b) ==
  ~IsStatic(b) /\ \A p \in 1..(pos - 1) : b \in Written(prog[p]) => ~prog[p].loop

Unknown(b) ==
  \/ b \in vague \/ b \in Written(Item)
  \/ Item.loop /\ Partial(b) /\ diffs[b] # <<>>
Differs(b) == Unknown(b) \/ diffs[b] # <<>>

(* The difference of the term does not depend on the element. *)
EvenTerm(st) == MentionsN(st.term) => st.shape = "added" /\ st.term.ni = 0

LoopGaps(st) ==
  LET G == [
    \* an element is read as P_N leaves it at the end, or as P_(N-1) left it
    overwritten |-> \E l \in LoadsOf(st) : /\ StoredLater(l.arr)
                                           /\ (l.idx = "below" \/ (IsStatic(l.arr) /\ l \in OthersOf(st))),
    stale       |-> \E l \in OthersOf(st) : l.idx = "below" /\ Differs(l.arr),
    \* what a scalar accumulates in the other iterations
    restarted   |-> Accumulates(st) /\ \E p \in 1..(pos - 1) : \E s \in DOMAIN prog[p].body :
                      prog[p].body[s].arr = st.arr /\ Restarts(prog[p].loop, prog[p].body[s]),
    doubled     |-> Accumulates(st) /\ Multiplied(st),
    unknown     |-> Accumulates(st) /\ \E l \in OthersOf(st) : Unknown(l.arr),
    scalar      |-> Accumulates(st) /\ \E l \in OthersOf(st) : IsStatic(l.arr) /\ Differs(l.arr),
    scaled      |-> Accumulates(st) /\ \E l \in OthersOf(st) : l.coef # 1 /\ Differs(l.arr),
    short       |-> /\ Accumulates(st) /\ Item.first = 1
                    /\ (MentionsN(st.term) \/ \E l \in OthersOf(st) : Differs(l.arr)),
    uneven      |-> Accumulates(st) /\ ~EvenTerm(st),
    \* an element computed from the one before
    again       |-> ~IsStatic(st.arr) /\ diffs[st.arr] # <<>> /\ \E l \in OwnOf(st) : l.idx = "counter",
    recurrence  |-> /\ Recurs(st)
                    /\ \/ MentionsN(st.term)
                       \/ st.arr \in vague
                       \/ \E l \in OthersOf(st) : Differs(l.arr)
                       \/ diffs[st.arr] # <<>> /\ Multiplied(st)]
  IN {g \in DOMAIN G : G[g]}

(* The values a loop records for its array are the difference of each element. *)
LoopExact(st) ==
  /\ st.arr \notin vague
  /\ \A l \in OthersOf(st) : ~Unknown(l.arr) /\ (l.coef = 1 \/ (~IsStatic(st.arr) /\ ~Differs(l.arr)))
  /\ IF IsStatic(st.arr)
     THEN /\ Accumulates(st) /\ st.term = Zero
          /\ \A l \in OthersOf(st) : ~IsStatic(l.arr)
     ELSE /\ StoredEarlier(st.arr) => Recurs(st)
          /\ Recurs(st) => Len(st.loads) = 1
          /\ EvenTerm(st)
          /\ Item.first = 1 => AppendedDiffs(st) = <<>>

BlockGaps(st) ==
  LET G == [
    replaced    |-> StoredEarlier(st.arr),
    copied      |-> OneLoad(st) /\ \E l \in LoadsOf(st) :
                      Unknown(l.arr) \/ Len(diffs[l.arr]) > 1
                        \/ (~IsStatic(st.arr) /\ diffs[l.arr] # <<>>),
    recomputed  |-> /\ Unsupported(st)
                    /\ \E l \in LoadsOf(st) :
                         \/ l.arr = st.arr
                         \/ StoredLater(l.arr)
                         \/ (~IsStatic(l.arr) /\ Differs(l.arr))]
  IN {g \in DOMAIN G : G[g]}

BlockExact(st) ==
  /\ st.arr \notin vague
  /\ \/ OnlyOfN(st) \/ Constant(st) \/ OneLoad(st)
     \/ (~MentionsN(st.term) /\ \A l \in LoadsOf(st) : ~Differs(l.arr))

-----------------------------------------------------------------------------
(* check_indu_param_in_index: the index of some load mentions N. *)
NInIndex ==
  \E p \in DOMAIN prog : \E s \in DOMAIN prog[p].body :
    \E l \in LoadsOf(prog[p].body[s]) : l.idx = "last"

(* The flag is set to 3; the caller of the pass sets it to 0 again. *)
PeelFunction ==
  /\ pos = 0 /\ HasLoops
  /\ pos' = 1
  /\ unsupported' = IF NInIndex THEN 3 ELSE 0
  /\ gaps' = IF NInIndex THEN {"index"} ELSE {}
  /\ UNCHANGED <<prog, pend, todo, entered, diffs, preheader, placed, out, vague>>

(* peel_function does nothing to a function without loops. *)
KeepFunction ==
  /\ pos = 0 /\ ~HasLoops
  /\ out' = FlattenSeq([p \in DOMAIN prog |->
               [s \in DOMAIN prog[p].body |-> [Original(s) EXCEPT !.item = p]]])
  /\ pos' = Len(prog) + 1
  /\ vague' = Arrays
  /\ gaps' = IF \E p \in DOMAIN prog : \E s \in DOMAIN prog[p].body :
                 \E l \in LoadsOf(prog[p].body[s]) : \E q \in DOMAIN prog : l.arr \in Written(prog[q])
             THEN {"kept"} ELSE {}
  /\ UNCHANGED <<prog, pend, todo, entered, diffs, preheader, placed, unsupported>>

Enter ==
  /\ pos > 0 /\ ~Finished /\ ~entered
  /\ entered' = TRUE
  /\ pend' = Written(Item)
  /\ placed' = [s \in DOMAIN Item.body |-> <<Original(s)>>]
  /\ UNCHANGED <<prog, pos, todo, diffs, preheader, out, ghosts>>

(* The stores of a set in the order they have in the item. *)
InOrder(ss) == {q \in SetToSeqs(ss) : \A i, j \in DOMAIN q : i < j => q[i] < q[j]}

(***************************************************************************)
(* arrWrite is a map from pointers: its order is the one the allocations   *)
(* happen to have.  A loop's stores are gone through twice: first for      *)
(* those of N.                                                             *)
(***************************************************************************)
ChooseArrayBy(a, ofN) ==
  LET ss == {s \in DOMAIN Item.body : Item.body[s].arr = a} IN
  /\ entered /\ todo = <<>> /\ a \in pend
  /\ pend' = pend \ {a}
  /\ IF Item.loop
     THEN \E first \in InOrder(ss \cap ofN), second \in InOrder(ss \ ofN) : todo' = first \o second
     ELSE todo' \in InOrder(ss)
  /\ UNCHANGED <<prog, pos, entered, diffs, preheader, placed, out, ghosts>>

ChooseArray(a) == ChooseArrayBy(a, {s \in DOMAIN Item.body : OnlyOfN(Item.body[s])})

Peel(kind) ==
  /\ todo # <<>> /\ kind
  /\ todo' = Tail(todo)
  /\ UNCHANGED <<prog, pos, pend, entered, out>>

Record(vs)  == diffs' = [diffs EXCEPT ![Store.arr] = @ \o vs]
Replace(is) == placed' = [placed EXCEPT ![Head(todo)] = is]

Judge(newGaps, exact) ==
  /\ gaps' = gaps \cup newGaps
  /\ vague' = IF exact THEN vague ELSE vague \cup {Store.arr}

LoopJudge  == Judge(LoopGaps(Store), LoopExact(Store))
BlockJudge == Judge(BlockGaps(Store), BlockExact(Store))

(* peel_loop: a value of N and the counter; a constant; any other value. *)
LoopOfN ==
  /\ Peel(Item.loop /\ OnlyOfN(Store))
  /\ Record(<<OfTerm(Store.term)>>)
  /\ LoopJudge /\ UNCHANGED <<preheader, placed>>

LoopConstant ==
  /\ Peel(Item.loop /\ Constant(Store))
  /\ LoopJudge /\ UNCHANGED <<diffs, preheader, placed>>

(* append_diff_invs, then additional_record. *)
LoopSum ==
  LET add == <<Addition(FALSE, Added(Store))>> IN
  /\ Peel(Item.loop /\ ~OnlyOfN(Store) /\ ~Constant(Store))
  /\ CASE Added(Store) = <<>>   -> UNCHANGED <<preheader, placed>>
       [] IsStatic(Store.arr)   -> preheader' = preheader \o add /\ UNCHANGED placed
       [] OTHER                 -> Replace(placed[Head(todo)] \o add) /\ UNCHANGED preheader
  /\ Record(AppendedDiffs(Store) \o AdditionalRecord(Store))
  /\ LoopJudge

(* peel_outer_block: a value of N, which a scalar gets from its entry value. *)
BlockOfN ==
  LET ds == <<OfTerm(Store.term)>> IN
  /\ Peel(~Item.loop /\ OnlyOfN(Store))
  /\ Replace(IF IsStatic(Store.arr) THEN <<Addition(TRUE, ds)>> ELSE <<>>)
  /\ Record(ds)
  /\ BlockJudge /\ UNCHANGED preheader

BlockConstant ==
  /\ Peel(~Item.loop /\ Constant(Store))
  /\ Replace(<<>>)
  /\ BlockJudge /\ UNCHANGED <<diffs, preheader>>

(* A copy: the last value recorded for the array is the one that is added. *)
BlockCopy ==
  LET ds == diffs[Store.loads[1].arr] IN
  /\ Peel(~Item.loop /\ OneLoad(Store))
  /\ IF ds = <<>>
     THEN Replace(<<>>) /\ UNCHANGED diffs
     ELSE Replace(<<Addition(FALSE, <<Last(ds)>>)>>) /\ Record(<<Last(ds)>>)
  /\ BlockJudge /\ UNCHANGED preheader

(* "Warning: These instructions are currently not supported". *)
BlockOther ==
  /\ Peel(~Item.loop /\ Unsupported(Store))
  /\ BlockJudge /\ UNCHANGED <<diffs, preheader, placed>>

(* The counter is replaced by N - 1, and the loop runs once. *)
Leave ==
  /\ entered /\ pend = {} /\ todo = <<>>
  /\ out' = out \o preheader \o FlattenSeq(placed)
  /\ pos' = pos + 1 /\ entered' = FALSE
  /\ preheader' = <<>> /\ placed' = <<>>
  /\ UNCHANGED <<prog, pend, todo, diffs, ghosts>>

PeelItems ==
  \/ Enter \/ \E a \in pend : ChooseArray(a)
  \/ LoopOfN \/ LoopConstant \/ LoopSum
  \/ BlockOfN \/ BlockConstant \/ BlockCopy \/ BlockOther
  \/ Leave

Next == PeelFunction \/ KeepFunction \/ (PeelItems /\ UNCHANGED unsupported)

Spec == Init /\ [][Next]_vars
=============================================================================
