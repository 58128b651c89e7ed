----------------------------- MODULE SimplifyNl -----------------------------
(***************************************************************************)
(* The pass simplify_nl: every inner loop that repeats one recurrence,     *)
(* x = x op rec, is replaced by what it adds up to, x = x op times * rec.  *)
(* A nest the pass thinks it cannot replace ends the run with UNKNOWN.     *)
(*                                                                         *)
(* ignored and gaps are history variables, which no action reads: the      *)
(* checks that failed and were forgotten, and the ways in which the closed *)
(* form is not what the loops compute.                                     *)
(***************************************************************************)
EXTENDS NestedLoops

CONSTANT Functions   \* the functions to run the pass on

ASSUME FunctionsAssumption == Functions \subseteq Seq(Sources)

VARIABLES
  prog,      \* the function given
  out,       \* the function as the pass has left it
  nest,      \* the outer loop it is at
  subs,      \* the storage of its list of inner loops: their places in prog
  loops,     \* how many entries of it are behind the iterator, all replaced (slc)
  erased,    \* the outer stores it has erased, as <<loop, store>>
  verdict,   \* "running", "done", "UNKNOWN" or "undefined"
  ignored, gaps

vars == <<prog, out, nest, subs, loops, erased, verdict, ignored, gaps>>

None == [kind |-> "none"]

(* getSubLoops: the inner loops of a loop, in the order of the text; past   *)
(* the last loop there are none.  The set holds that one list.              *)
SubLoops(k) ==
  LET at == IF k \in DOMAIN prog THEN LoopsAt(prog[k]) ELSE {}
  IN  {s \in [1..Cardinality(at) -> at] :
         /\ \A p \in at : \E c \in DOMAIN s : s[c] = p
         /\ \A c, d \in DOMAIN s : c < d => s[c] < s[d]}

Init ==
  /\ prog \in Functions
  /\ out = prog
  /\ nest = 1 /\ subs \in SubLoops(1) /\ loops = 0 /\ erased = {}
  /\ verdict = "running"
  /\ ignored = {} /\ gaps = {}

-----------------------------------------------------------------------------
(* What the pass reads off a nest.                                          *)

StepCount(lp) == IF lp.step \in {1, -1} THEN lp.step ELSE 0

InitBound(lp) == lp.init
ExitBound(lp) == IF lp.strict THEN Sub(lp.exit, Num(StepCount(lp))) ELSE lp.exit

(* The first array of a map keyed by pointers is any, its first store is not. *)
FirstStores(body) ==
  {body[p] : p \in {q \in StoresAt(body) :
                     \A r \in StoresAt(body) : r < q => body[r].arr # body[q].arr}}

(* The lists of an outer loop leave out its inner loops and are not renewed. *)
OuterStores(k) ==
  IF StoresAt(prog[k]) = {} THEN {None} ELSE FirstStores(prog[k])

OnlyStore(st, body) == Cardinality({p \in StoresAt(body) : body[p].arr = st.arr}) = 1
OnlyArray(body)     == \A p, q \in StoresAt(body) : body[p].arr = body[q].arr

IsOwn(o, st)       == IsLoadOf(o, st.arr) /\ o.idx = st.idx
IsRecurrence(st)   == st.op # "none" /\ (IsOwn(st.l, st) \/ IsOwn(st.r, st))

(***************************************************************************)
(* rec_term: the second operand, unless that is a load of the stored array *)
(* and the first is not the recurrence.  A plain value has no rec_term.    *)
(***************************************************************************)
RecTerm(st) ==
  IF st.op = "none" THEN None
  ELSE IF ~IsLoadOf(st.r, st.arr) \/ IsOwn(st.l, st) THEN st.r
  ELSE IF ~IsLoadOf(st.l, st.arr) THEN st.l
  ELSE None

(***************************************************************************)
(* check_rt_scope: a term has the same value in all iterations when it has *)
(* no counter; an array when all that the earlier loops store in it has.   *)
(***************************************************************************)
StoresBefore(a, k) ==
  {q \in UNION {{t} \X StoresAt(prog[t]) : t \in 1..(k - 1)} : prog[q[1]][q[2]].arr = a}

SteadyGiven(o, arrays) ==
  IF o.kind = "term" THEN o.term.i = 0 /\ o.term.j = 0 ELSE o.arr \in arrays

SteadyArrays ==
  LET steady[k \in 1..Len(prog)] ==
        {a \in Arrays :
           \/ a \in Static
           \/ \A q \in StoresBefore(a, k) :
                LET st == prog[q[1]][q[2]]
                IN  SteadyGiven(st.l, steady[q[1]]) /\ SteadyGiven(st.r, steady[q[1]])}
  IN  steady

check_rt_scope(o, k) == SteadyGiven(o, SteadyArrays[k])

(***************************************************************************)
(* It looks at the stores of the nearest loop first and stops at one that  *)
(* varies.  Among them may be stores that this pass has erased.            *)
(***************************************************************************)
LookedAt(a, k) ==
  {q \in StoresBefore(a, k) :
     \A r \in StoresBefore(a, k) :
       r[1] > q[1] \/ (r[1] = q[1] /\ r[2] < q[2]) =>
         LET st == prog[r[1]][r[2]] IN check_rt_scope(st.l, r[1]) /\ check_rt_scope(st.r, r[1])}

ErasedArrays ==
  LET reach[k \in 1..Len(prog)] ==
        {a \in Arrays \ Static :
           \E q \in LookedAt(a, k) :
             LET st == prog[q[1]][q[2]] IN
               \/ <<q[1], st>> \in erased
               \/ \E o \in {st.l, st.r} : o.kind = "load" /\ o.arr \in reach[q[1]]}
  IN  reach

ReadsErased(o, k) == o.kind = "load" /\ o.arr \in ErasedArrays[k]

Checks == {"first", "unconditional", "one", "same", "counters", "recurrence"}

(* A bug it could have: conditions in the inner loop are not looked for. *)
FailedChecksAnywhere(k, lp, st, ls) ==
  {c \in Checks :
     \/ c = "first"      /\ loops # 0
     \/ c = "one"        /\ ~(OnlyArray(lp.body) /\ OnlyStore(st, lp.body))
     \/ c = "one"        /\ ls # None /\ ~OnlyStore(ls, prog[k])
     \/ c = "same"       /\ ls # None /\ ls.arr # st.arr
     \/ c = "counters"   /\ st.arr \notin Static /\ st.idx = "zero"
     \/ c = "counters"   /\ ls # None /\ ls.arr \notin Static /\ ls.idx # "outer"
     \/ c = "recurrence" /\ ~IsRecurrence(st)}

(* The checks made before rec_term is looked at: those that fail. *)
FailedChecks(k, lp, st, ls) ==
  {c \in Checks :
     \/ c = "first"         /\ loops # 0
     \/ c = "unconditional" /\ \E p \in DOMAIN lp.body : lp.body[p].guarded
     \/ c = "one"           /\ ~(OnlyArray(lp.body) /\ OnlyStore(st, lp.body))
     \/ c = "one"           /\ ls # None /\ ~OnlyStore(ls, prog[k])
     \/ c = "same"          /\ ls # None /\ ls.arr # st.arr
     \/ c = "counters"      /\ st.arr \notin Static /\ st.idx = "zero"
     \/ c = "counters"      /\ ls # None /\ ls.arr \notin Static /\ ls.idx # "outer"
     \/ c = "recurrence"    /\ ~IsRecurrence(st)}

(* A rec_term other than the counter makes the pass forget their outcome. *)
Forgotten(k, lp, st, ls) ==
  IF RecTerm(st) # Term(Outer) THEN FailedChecks(k, lp, st, ls) ELSE {}

LastChecks(st, ls) ==
  /\ ~IsLoadOf(RecTerm(st), st.arr)
  /\ ls # None => IsRecurrence(ls) /\ RecTerm(ls) # None
  /\ st.arr \notin Static /\ st.idx # "outer" => RecTerm(st) # Term(Outer)

InScope(k, lp, st, ls) ==
  /\ IF RecTerm(st) # Term(Outer)
     THEN check_rt_scope(RecTerm(st), k)
     ELSE FailedChecks(k, lp, st, ls) = {}
  /\ LastChecks(st, ls)

-----------------------------------------------------------------------------
(* The closed form.                                                         *)

(* A bug it could have: the bound is taken as it is. *)
ClonedExitStrict(lp) == lp.exit

(* clExit: one step past the bound when the loop includes it. *)
ClonedExit(lp) ==
  IF lp.strict THEN lp.exit
  ELSE IF StepCount(lp) > 0 THEN Add(lp.exit, Num(StepCount(lp)))
  ELSE Sub(lp.exit, Num(StepCount(lp)))

(* clExit == ld->exitValue compares instructions: a new sum is not the old N. *)
EndsAtN(lp) == lp.strict /\ lp.exit = SizeN

StartsAbove0(t) == ~IsNumeral(t) \/ t.c > 0

(* rec_mult for an array stored at the outer counter: the iterations of the inner loop. *)
IterationsOf(lp) ==
  IF StepCount(lp) > 0
  THEN IF StartsAbove0(InitBound(lp)) THEN Sub(ClonedExit(lp), lp.init) ELSE ClonedExit(lp)
  ELSE IF StartsAbove0(ExitBound(lp)) THEN Sub(lp.init, ClonedExit(lp)) ELSE lp.init

(* rec_mult for one stored at the inner counter: the outer iterations that reach it. *)
ReachesUpwards(lp) ==
  IF ~IsNumeral(InitBound(lp))
  THEN IF lp.init = Outer /\ EndsAtN(lp) THEN Add(lp.init, Num(1)) ELSE lp.init
  ELSE IF lp.init.c > 0 THEN Sub(ClonedExit(lp), lp.init)
  ELSE IF EndsAtN(lp) THEN SizeN ELSE Add(Sub(SizeN, ClonedExit(lp)), Num(1))

ReachesDownwards(lp) ==
  IF ~IsNumeral(ExitBound(lp))
  THEN IF lp.strict /\ lp.exit = Outer /\ lp.init = Num(0) THEN Add(Outer, Num(1))
       ELSE ClonedExit(lp)
  ELSE IF ExitBound(lp).c > 0 THEN Sub(lp.init, ClonedExit(lp)) ELSE lp.init

ReachesOf(lp) == IF StepCount(lp) > 0 THEN ReachesUpwards(lp) ELSE ReachesDownwards(lp)

(* A bug it could have: an array stored at the inner counter has no multiple. *)
MultipleOrNull(st, lp) ==
  IF st.arr \in Static \/ st.idx = "outer" THEN IterationsOf(lp) ELSE None

Multiple(st, lp) ==
  IF st.arr \in Static \/ st.idx = "outer" THEN IterationsOf(lp) ELSE ReachesOf(lp)

(* cloneExpr: every counter of the copy is the outer one. *)
cloneExpr(o) ==
  IF o.kind = "term"
  THEN Term([c |-> o.term.c, n |-> o.term.n, i |-> o.term.i + o.term.j, j |-> 0])
  ELSE IF o.idx = "inner" THEN Load(o.arr, "outer") ELSE o

(* N is not cloned, and the term of the outer store is then left out. *)
OuterTermKept(ls) == ls # None /\ RecTerm(ls) # Term(SizeN)

ClosedForm(st, lp, ls) ==
  [kind |-> "closed", arr |-> st.arr, idx |-> IF st.arr \in Static THEN st.idx ELSE "outer",
   op |-> st.op, times |-> Multiple(st, lp), rec |-> cloneExpr(RecTerm(st)),
   op2 |-> IF OuterTermKept(ls) THEN ls.op ELSE "none",
   plus |-> IF OuterTermKept(ls) THEN cloneExpr(RecTerm(ls)) ELSE Term(Num(0))]

(* Where an item stands in a body, or 0. *)
Place(body, item) == SelectInSeq(body, LAMBDA x : x = item)

(* In place of the outer store, or else of the inner loop; both are removed. *)
Replaced(body, lp, ls, form) ==
  IF ls = None THEN ReplaceAt(body, Place(body, lp), form)
  ELSE RemoveFirst(ReplaceAt(body, Place(body, ls), form), lp)

-----------------------------------------------------------------------------
(* How a closed form goes wrong.                                            *)

Upwards(lp) == lp.step = 1

(* t >= 0 whenever 0 <= i < N: it is linear, so that the corners tell. *)
NonNegative(t) == t.c + t.n >= 0 /\ t.n >= 0 /\ t.n + t.i >= 0

(* The loops whose iterations are exit - init, or exit when init is a number up to 0. *)
Runs(lp) ==
  /\ NonNegative(Sub(ClonedExit(lp), lp.init))
  /\ IsNumeral(lp.init) => lp.init.c >= 0

(* The shapes for(j = 0; j < N), (j = i; j < N), (j = 0; j < i + 1). *)
Reached(lp) ==
  Upwards(lp) /\ \/ lp.init = Num(0) /\ (EndsAtN(lp) \/ ClonedExit(lp) = Add(Outer, Num(1)))
                 \/ lp.init = Outer /\ EndsAtN(lp)

(* It is stored by the item, or in it. *)
StoredBy(item, a) ==
  IF item.kind = "loop" THEN \E q \in DOMAIN item.body : item.body[q].arr = a ELSE item.arr = a

StoredIn(body, a) == \E p \in DOMAIN body : StoredBy(body[p], a)

(* Every element of a is stored the same value, once, before loop k. *)
Writers(a, k) ==
  {q \in UNION {{t} \X DOMAIN prog[t] : t \in 1..k} : StoredBy(prog[q[1]][q[2]], a)}

Uniform(a, k) ==
  \E q \in Writers(a, k) :
    LET st == prog[q[1]][q[2]] IN
      /\ Writers(a, k) = {q} /\ q[1] < k /\ st.kind = "store"
      /\ st.op = "none" /\ ~st.guarded /\ st.idx = "outer"
      /\ st.l.kind = "term" /\ st.l.term.i = 0

(* Another inner loop of the nest stores an array along its own counter. *)
AlongInner(body, lp, a) ==
  \E p \in DOMAIN body :
    /\ body[p].kind = "loop" /\ body[p] # lp
    /\ \E q \in DOMAIN body[p].body : body[p].body[q].arr = a /\ body[p].body[q].idx = "inner"

Gaps == {"conditional", "beneath", "several", "second", "elsewhere", "assigned", "reversed", "product",
         "other", "late", "twice", "dropped", "stride", "down", "short", "reach", "moved",
         "interleaved"}

GapsAt(k, lp, st, ls) ==
  LET rec   == RecTerm(st)
      lrec  == IF ls = None THEN None ELSE RecTerm(ls)
      body  == prog[k]
      along == st.arr \notin Static /\ st.idx = "inner"
      reads(x) == rec.kind = "load" /\ rec.arr \notin Static /\ rec.idx = x
                    /\ ~Uniform(rec.arr, k)
  IN  {g \in Gaps :
         \/ g = "conditional" /\ \E p \in DOMAIN lp.body : lp.body[p].guarded
         \/ g = "beneath"     /\ ls # None /\ ls.guarded
         \/ g = "several"     /\ Len(lp.body) > 1
         \/ g = "several"     /\ ls # None /\ ~OnlyStore(ls, body)
         \/ g = "second"      /\ ~OnlyArray(body)
         \/ g = "elsewhere"   /\ st.arr \notin Static /\ st.idx = "zero"
         \/ g = "elsewhere"   /\ ls # None /\ ls.arr \notin Static /\ ls.idx # "outer"
         \/ g = "assigned"    /\ ~IsRecurrence(st)
         \/ g = "reversed"    /\ st.op = "sub" /\ ~IsOwn(st.l, st)
         \/ g = "reversed"    /\ ls # None /\ ls.op = "sub" /\ ~IsOwn(ls.l, ls)
         \/ g = "product"     /\ st.op = "mul"
         \/ g = "other"       /\ ls # None /\ ls.arr # st.arr
         \/ g = "late"        /\ ls # None /\ ls.op = "mul"
                                /\ (along \/ Place(body, ls) < Place(body, lp))
         \/ g = "twice"       /\ ls # None /\ IsLoadOf(lrec, ls.arr)
         \/ g = "dropped"     /\ ls # None /\ ~OuterTermKept(ls)
         \/ g = "stride"      /\ lp.step = 2
         \/ g = "down"        /\ lp.step = -1
         \/ g = "short"       /\ ~along /\ Upwards(lp) /\ ~Runs(lp)
         \/ g = "reach"       /\ along /\ Upwards(lp) /\ ~Reached(lp)
         \/ g = "moved"       /\ reads(IF along THEN "outer" ELSE "inner")
         \/ g = "interleaved" /\ rec.kind = "load"
                                /\ \/ along /\ StoredIn(body, rec.arr)
                                   \/ AlongInner(body, lp, rec.arr)}

-----------------------------------------------------------------------------

(***************************************************************************)
(* The loop over getSubLoops() finds the end of that vector once; what it  *)
(* deletes leaves the vector, whose later entries move down by one, and    *)
(* leaves the entries behind the new end as they are.                      *)
(***************************************************************************)

(* A bug it could have: the end is found anew for every inner loop. *)
EndFoundAnew == Len(subs) - loops

LoopEnd == Len(subs)

(* The entries that are still of the vector. *)
Left == 1..(Len(subs) - loops)

AtLoop      == verdict = "running" /\ nest <= Len(prog) /\ loops < LoopEnd
Current     == subs[loops + 1]
CurrentLoop == prog[nest][Current]

(* With three inner loops the iterator passes over one and comes to another again. *)
IsDestroyed == \A c \in Left : subs[c] # Current

(* deleteDeadLoop: what is left of the vector without the current loop. *)
EntriesMoved ==
  [c \in DOMAIN subs |->
     IF c + 1 \in Left /\ (\E d \in 1..c : subs[d] = Current) THEN subs[c + 1] ELSE subs[c]]

(***************************************************************************)
(* Undefined behaviour: the inner loop is one that was destroyed, a second *)
(* inner loop is given the outer store that was erased for the first, a    *)
(* check reads a store erased in an earlier nest, or there is no rec_term  *)
(* to cast.                                                                *)
(***************************************************************************)
IsUndefined(st, ls) ==
  \/ ls # None /\ <<nest, ls>> \in erased
  \/ RecTerm(st) = None
  \/ RecTerm(st) # Term(Outer) /\ ReadsErased(RecTerm(st), nest)

Crash ==
  /\ AtLoop
  /\ \/ IsDestroyed
     \/ \E st \in FirstStores(CurrentLoop.body), ls \in OuterStores(nest) : IsUndefined(st, ls)
  /\ verdict' = "undefined"
  /\ UNCHANGED <<prog, out, nest, subs, loops, erased, ignored, gaps>>

(* The run ends with _VERIFICATION_UNKNOWN. *)
GiveUp ==
  /\ AtLoop /\ ~IsDestroyed
  /\ \E st \in FirstStores(CurrentLoop.body), ls \in OuterStores(nest) :
       ~IsUndefined(st, ls) /\ ~InScope(nest, CurrentLoop, st, ls)
  /\ verdict' = "UNKNOWN"
  /\ UNCHANGED <<prog, out, nest, subs, loops, erased, ignored, gaps>>

Simplify ==
  /\ AtLoop /\ ~IsDestroyed
  /\ \E st \in FirstStores(CurrentLoop.body), ls \in OuterStores(nest) :
       /\ ~IsUndefined(st, ls)
       /\ InScope(nest, CurrentLoop, st, ls)
       /\ out' = [out EXCEPT ![nest] =
                    Replaced(@, CurrentLoop, ls, ClosedForm(st, CurrentLoop, ls))]
       /\ erased' = IF ls = None THEN erased ELSE erased \cup {<<nest, ls>>}
       /\ ignored' = ignored \cup Forgotten(nest, CurrentLoop, st, ls)
       /\ gaps' = gaps \cup GapsAt(nest, CurrentLoop, st, ls)
  /\ subs' = EntriesMoved /\ loops' = loops + 1
  /\ UNCHANGED <<prog, nest, verdict>>

(* A bug it could have: it goes back to the loop it has edited. *)
NextLoopAgain ==
  /\ verdict = "running" /\ nest <= Len(prog)
  /\ loops >= LoopEnd
  /\ loops' = 0 /\ subs' = <<>>
  /\ UNCHANGED <<prog, out, nest, erased, verdict, ignored, gaps>>

NextLoop ==
  /\ verdict = "running" /\ nest <= Len(prog)
  /\ loops >= LoopEnd
  /\ nest' = nest + 1 /\ subs' \in SubLoops(nest + 1) /\ loops' = 0
  /\ UNCHANGED <<prog, out, erased, verdict, ignored, gaps>>

Done ==
  /\ verdict = "running" /\ nest > Len(prog)
  /\ verdict' = "done"
  /\ UNCHANGED <<prog, out, nest, subs, loops, erased, ignored, gaps>>

Next == Crash \/ GiveUp \/ Simplify \/ NextLoop \/ Done

Spec == Init /\ [][Next]_vars /\ WF_vars(Next)

-----------------------------------------------------------------------------

TypeOK ==
  /\ prog \in Functions /\ out \in Seq(Nests)
  /\ nest \in 1..(Len(prog) + 1)
  /\ subs \in Seq(Nat) /\ loops \in 0..Len(subs)
  /\ \A e \in erased : e[1] \in DOMAIN prog /\ e[2] \in Stores
  /\ verdict \in {"running", "done", "UNKNOWN", "undefined"}
  /\ ignored \subseteq Checks /\ gaps \subseteq Gaps

(* simplify_nl leaves no inner loop behind, though it takes them out of the *)
(* vector it goes through (simplify_nl.cpp:51, 329): one that its iterator  *)
(* passes over has to be the end of the run.  The array_ssa that follows in *)
(* mode 6 would pass over an inner loop (array_ssa.cpp:67).                 *)
NoNestIsLeft ==
  \A k \in DOMAIN out : k < nest => LoopsAt(out[k]) = {}

(* The pass comes to an end, although it deletes the loops it goes through. *)
Ends == <>(verdict # "running")

(* The checks that is_in_scope stands for, had none been forgotten, keep    *)
(* out the nests that are not one recurrence of one store.                  *)
ChecksSuffice ==
  ignored = {} => gaps \cap {"conditional", "several", "elsewhere", "assigned", "other"} = {}
=============================================================================
