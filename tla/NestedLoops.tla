---------------------------- MODULE NestedLoops ----------------------------
(***************************************************************************)
(* The functions simplify_nl works on, and what running them does.  A      *)
(* function is a sequence of loops for(i = 0; i < N; i++); the body of a   *)
(* loop is a sequence of stores and of inner loops over j, whose bodies    *)
(* are stores.  What the pass puts in place of an inner loop is a third    *)
(* kind of item, a closed form.                                            *)
(***************************************************************************)
EXTENDS Integers, SequencesExt

CONSTANTS
  Arrays,   \* the arrays of the function
  Static    \* those of constant size: the program's scalars, x[1]

ASSUME StaticAssumption == Static \subseteq Arrays

(* The expressions over constants, N and the two counters, by coefficients. *)
Terms == [c : Int, n : Int, i : Int, j : Int]

Num(v) == [c |-> v, n |-> 0, i |-> 0, j |-> 0]
SizeN  == [c |-> 0, n |-> 1, i |-> 0, j |-> 0]
Outer  == [c |-> 0, n |-> 0, i |-> 1, j |-> 0]

Add(t, u) == [c |-> t.c + u.c, n |-> t.n + u.n, i |-> t.i + u.i, j |-> t.j + u.j]
Sub(t, u) == [c |-> t.c - u.c, n |-> t.n - u.n, i |-> t.i - u.i, j |-> t.j - u.j]

IsNumeral(t) == t = Num(t.c)

(* Where an array is read or stored; a scalar always at "zero". *)
Indices == {"zero", "outer", "inner"}

Operands == [kind : {"term"}, term : Terms]
              \cup [kind : {"load"}, arr : Arrays, idx : Indices]

Term(t)    == [kind |-> "term", term |-> t]
Load(a, x) == [kind |-> "load", arr |-> a, idx |-> x]

IsLoadOf(o, a) == o.kind = "load" /\ o.arr = a

(* A store of l, or of l op r; a guarded one is under a condition. *)
Stores ==
  [kind : {"store"}, arr : Arrays, idx : Indices, op : {"none", "add", "sub", "mul"},
   l : Operands, r : Operands, guarded : BOOLEAN]

(* for(j = init; j < exit; j += step), or <=, or with > and >= downwards. *)
Loops ==
  [kind : {"loop"}, init : Terms, exit : Terms, strict : BOOLEAN, step : {1, -1, 2},
   body : Seq(Stores)]

(* arr[idx] = (arr[idx] op times * rec) op2 plus *)
ClosedForms ==
  [kind : {"closed"}, arr : Arrays, idx : Indices, op : {"add", "sub", "mul"}, times : Terms,
   rec : Operands, op2 : {"none", "add", "sub", "mul"}, plus : Operands]

Nests == Seq(Stores \cup Loops \cup ClosedForms)

(* The positions of the stores and of the inner loops in a body. *)
StoresAt(body) == {p \in DOMAIN body : body[p].kind = "store"}
LoopsAt(body)  == {p \in DOMAIN body : body[p].kind = "loop"}

(***************************************************************************)
(* What a program is: stores and inner loops, with its scalars at "zero",  *)
(* and j only between the braces of an inner loop.                         *)
(***************************************************************************)
Placed(o)       == o.kind = "load" /\ o.arr \in Static => o.idx = "zero"
PlacedStore(st) == (st.arr \in Static => st.idx = "zero") /\ Placed(st.l) /\ Placed(st.r)
Outside(o)      == IF o.kind = "term" THEN o.term.j = 0 ELSE o.idx # "inner"

Sources ==
  {nest \in Seq(Stores \cup Loops) :
     /\ \A p \in StoresAt(nest) :
          PlacedStore(nest[p]) /\ nest[p].idx # "inner" /\ Outside(nest[p].l) /\ Outside(nest[p].r)
     /\ \A p \in LoopsAt(nest) :
          /\ nest[p].init.j = 0 /\ nest[p].exit.j = 0
          /\ \A q \in DOMAIN nest[p].body : PlacedStore(nest[p].body[q])}

-----------------------------------------------------------------------------

(* An environment e gives N and the counters their values. *)
Iteration(n, i) == [n |-> n, i |-> i, j |-> 0]
Within(e, j)    == [e EXCEPT !.j = j]

ValueOf(t, e) == t.c + t.n * e.n + t.i * e.i + t.j * e.j

At(x, e) == CASE x = "zero" -> 0 [] x = "outer" -> e.i [] x = "inner" -> e.j

Read(m, e, o) == IF o.kind = "term" THEN ValueOf(o.term, e) ELSE m[o.arr][At(o.idx, e)]

Apply(op, v, w) ==
  CASE op = "none" -> v [] op = "add" -> v + w [] op = "sub" -> v - w [] op = "mul" -> v * w

Assigned(m, a, x, v) == [m EXCEPT ![a][x] = v]

AfterStore(m, e, st) ==
  IF st.guarded /\ (e.i + e.j) % 2 = 0
  THEN m
  ELSE Assigned(m, st.arr, At(st.idx, e), Apply(st.op, Read(m, e, st.l), Read(m, e, st.r)))

(* The values of the counter of an inner loop, in order. *)
Counters(lp, e) ==
  LET from == ValueOf(lp.init, e)
      to   == ValueOf(lp.exit, e) + IF lp.strict THEN 0 ELSE IF lp.step > 0 THEN 1 ELSE -1
      span == IF lp.step > 0 THEN to - from ELSE from - to
      size == IF lp.step > 0 THEN lp.step ELSE -lp.step
      times == IF span > 0 THEN (span + size - 1) \div size ELSE 0
  IN  [k \in 1..times |-> from + (k - 1) * lp.step]

AfterStores(m, e, body) == FoldLeft(LAMBDA x, st : AfterStore(x, e, st), m, body)

AfterLoop(m, e, lp) ==
  FoldLeft(LAMBDA mem, j : AfterStores(mem, Within(e, j), lp.body), m, Counters(lp, e))

AfterClosed(m, e, cf) ==
  LET old  == m[cf.arr][At(cf.idx, e)]
      recs == ValueOf(cf.times, e) * Read(m, e, cf.rec)
  IN  Assigned(m, cf.arr, At(cf.idx, e), Apply(cf.op2, Apply(cf.op, old, recs), Read(m, e, cf.plus)))

AfterItem(m, e, item) ==
  CASE item.kind = "store"  -> AfterStore(m, e, item)
    [] item.kind = "loop"   -> AfterLoop(m, e, item)
    [] item.kind = "closed" -> AfterClosed(m, e, item)

AfterBody(m, e, body) == FoldLeft(LAMBDA x, item : AfterItem(x, e, item), m, body)

AfterNest(m, n, nest) ==
  FoldLeft(LAMBDA mem, i : AfterBody(mem, Iteration(n, i), nest), m, [k \in 1..n |-> k - 1])

(* What the function leaves of the contents m when it is run with size n. *)
After(m, n, nests) == FoldLeft(LAMBDA mem, nest : AfterNest(mem, n, nest), m, nests)
=============================================================================
