------------------------------ MODULE AggrDiff ------------------------------
(***************************************************************************)
(* The pass aggr_llvm_diff, which makes the difference function in mode 4  *)
(* (run_FPI).  It goes through the function as diff_preds does, and is     *)
(* coarser in three ways: whatever mentions N is taken to grow by 1; what  *)
(* is added for a store comes from all the arrays its loop reads, once for *)
(* each; and the difference of a term is never added.  In return it sets   *)
(* the flag for more functions, and run_FPI leaves the flag as it is.      *)
(***************************************************************************)
EXTENDS DiffPreds, FiniteSets

VARIABLE aborted   \* an assertion of LLVM has ended the program

StoresN(st) == MentionsN(st.term)

(* What local_diff_map gets for a value that mentions N: the constant 1. *)
constOne == OfTerm([Zero EXCEPT !.n = 1])

-----------------------------------------------------------------------------
(***************************************************************************)
(* generate_glue_for_loop sees, in the place of the stored value, each     *)
(* array of the loop's arrRead once, in the order of the map.  A scalar    *)
(* gets the recorded values of the others, an array element its own.       *)
(***************************************************************************)
Seen(st, order) ==
  [st EXCEPT !.loads = [k \in DOMAIN order |-> [arr |-> order[k], idx |-> "counter", coef |-> 1]]]

(***************************************************************************)
(* at_least_one_diff_val is cleared by every recorded value of another     *)
(* array than the stored one: the addition is built, and its first operand *)
(* erased, when such an array comes after.  LLVM, built with assertions,   *)
(* does not survive the erasure of a value in use.                         *)
(***************************************************************************)
UsedLoadErased(st, order) ==
  \E k \in DOMAIN order : \E m \in (k + 1)..Len(order) :
    ~IsStatic(st.arr) /\ order[k] = st.arr /\ diffs[st.arr] # <<>> /\ diffs[order[m]] # <<>>

\* A bug it could have: the last element is not recorded.
LocalDiffNever(st, order) == <<>>

(* compute_local_diff_n_add: for a scalar, what every load of the loop reads last. *)
LocalDiff(st, order) ==
  LET LoadsAt(b, s) == FlattenSeq([l \in DOMAIN Item.body[s].loads |->
        IF Item.body[s].loads[l].arr = b THEN <<[OfLoad(l) EXCEPT !.load[2] = s]>> ELSE <<>>])
  IN FlattenSeq([k \in DOMAIN order |->
       IF IsStatic(st.arr) /\ ~IsStatic(order[k])
       THEN FlattenSeq([s \in DOMAIN Item.body |-> LoadsAt(order[k], s)])
       ELSE <<>>])

-----------------------------------------------------------------------------
(***************************************************************************)
(* History, in addition to that of DiffPreds.                              *)
(***************************************************************************)
LoadsIn(st, b) == Cardinality({l \in DOMAIN st.loads : st.loads[l].arr = b})

(* The term grows by 1, for every element. *)
UnitTerm(st) ==
  /\ st.term.n = 1 /\ st.term.sq = 0 /\ st.term.ni = 0 /\ st.shape # "subtracted"
  /\ IsStatic(st.arr) => st.term.i = 0

GrowsByOne(st) == UnitTerm(st) /\ \A l \in LoadsOf(st) : ~Differs(l.arr)

(* An array is read elsewhere in the loop, or more than once, and has recorded values. *)
CountedWrong(st, b) == LoadsIn(st, b) # 1 /\ Differs(b)

AggrLoopGaps(st) ==
  LET G == [
    ofN       |-> StoresN(st) /\ (Accumulates(st) \/ Recurs(st)),
    elsewhere |-> /\ ~StoresN(st)
                  /\ \/ Accumulates(st) /\ \E b \in ReadIn(Item) \ {st.arr} : CountedWrong(st, b)
                     \/ /\ ~IsStatic(st.arr) /\ st.arr \in ReadIn(Item)
                        /\ diffs[st.arr] # <<>> /\ LoadsIn(st, st.arr) # 1]
  IN LoopGaps(st) \cup {g \in DOMAIN G : G[g]}

AggrLoopExact(st) ==
  IF StoresN(st)
  THEN /\ st.arr \notin vague /\ GrowsByOne(st) /\ Item.first = 0
       /\ IsStatic(st.arr) => \A l \in LoadsOf(st) : IsStatic(l.arr)
       /\ ~StoredEarlier(st.arr) /\ ~StoredLater(st.arr)
       /\ \A s \in DOMAIN Item.body : Item.body[s].arr = st.arr => s = Head(todo)
  ELSE /\ LoopExact(st)
       /\ \A b \in ReadIn(Item) \ {st.arr} :
            /\ ~CountedWrong(st, b)
            /\ IsStatic(st.arr) => \A s \in DOMAIN Item.body :
                 s # Head(todo) => LoadsIn(Item.body[s], b) = 0

AggrBlockGaps(st) ==
  LET G == [ofN |-> IsStatic(st.arr) /\ StoresN(st) /\ ~GrowsByOne(st)]
  IN {g \in DOMAIN G : G[g]} \cup (BlockGaps(st) \ (IF StoresN(st) THEN {"recomputed"} ELSE {}))

AggrBlockExact(st) == st.arr \notin vague /\ GrowsByOne(st)

-----------------------------------------------------------------------------
(* check_conditional_in_loopbody, then check_indu_param_in_index. *)
AggrPeelFunction ==
  /\ pos = 0 /\ HasLoops
  /\ pos' = 1
  /\ unsupported' = CASE NInIndex                         -> 3
                      [] \E p \in DOMAIN prog : prog[p].ofN -> 2
                      [] OTHER                            -> 0
  /\ UNCHANGED <<prog, pend, todo, entered, diffs, preheader, placed, out, ghosts>>

(* Each store is looked at once for an operation modulo. *)
FlagRem == unsupported' = IF Store.rem # 0 THEN 1 ELSE unsupported

AggrLoopOfN ==
  /\ Peel(Item.loop /\ StoresN(Store))
  /\ Record(<<constOne>>)
  /\ Judge(AggrLoopGaps(Store), AggrLoopExact(Store))
  /\ UNCHANGED <<preheader, placed>>

AggrLoopSum(order) ==
  LET seen == Seen(Store, order)
      add  == <<Addition(FALSE, Added(seen))>> IN
  /\ Peel(Item.loop /\ ~StoresN(Store) /\ ~Constant(Store))
  /\ ~UsedLoadErased(Store, order)
  /\ CASE Added(seen) = <<>>      -> UNCHANGED <<preheader, placed>>
       [] IsStatic(Store.arr)     -> preheader' = preheader \o add /\ UNCHANGED placed
       [] OTHER                   -> Replace(placed[Head(todo)] \o add) /\ UNCHANGED preheader
  /\ Record(AppendedDiffs(seen) \o LocalDiff(Store, order))
  /\ Judge(AggrLoopGaps(Store), AggrLoopExact(Store))

Abort(order) ==
  /\ todo # <<>> /\ Item.loop /\ ~StoresN(Store) /\ ~Constant(Store)
  /\ UsedLoadErased(Store, order)
  /\ aborted' = TRUE
  /\ UNCHANGED vars

AggrBlockOfN ==
  /\ Peel(~Item.loop /\ StoresN(Store))
  /\ Replace(IF IsStatic(Store.arr) THEN <<Addition(TRUE, <<constOne>>)>> ELSE <<>>)
  /\ Record(<<constOne>>)
  /\ Judge(AggrBlockGaps(Store), AggrBlockExact(Store))
  /\ UNCHANGED preheader

AggrBlockOther == BlockOther /\ ~StoresN(Store)

AggrChooseArray ==
  \E a \in pend : ChooseArrayBy(a, {s \in DOMAIN Item.body : StoresN(Item.body[s])})

AggrPeelStore ==
  \/ AggrLoopOfN \/ LoopConstant \/ \E order \in SetToSeqs(ReadIn(Item)) : AggrLoopSum(order)
  \/ AggrBlockOfN \/ BlockConstant \/ BlockCopy \/ AggrBlockOther

AggrNext ==
  /\ ~aborted
  /\ \/ (AggrPeelFunction \/ KeepFunction) /\ UNCHANGED aborted
     \/ (Enter \/ AggrChooseArray \/ Leave) /\ UNCHANGED <<unsupported, aborted>>
     \/ entered /\ AggrPeelStore /\ FlagRem /\ UNCHANGED aborted
     \/ entered /\ \E order \in SetToSeqs(ReadIn(Item)) : Abort(order)
=============================================================================
