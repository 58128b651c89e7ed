--------------------------- MODULE ArrayFunction ---------------------------
(***************************************************************************)
(* The functions diff_preds and aggr_llvm_diff work on: what array_ssa     *)
(* leaves of a program of the class Diffy is for.  A function is a         *)
(* sequence of items, each a loop for(i = first; i < N; i++) or a block    *)
(* outside the loops; an item is a sequence of stores of sums.  A loop     *)
(* stores an array at i, a block at 0, and a static array has one element. *)
(***************************************************************************)
EXTENDS Integers, Sequences

CONSTANTS
  Arrays,   \* the names array_ssa has made
  Static    \* those of constant size: the program's scalars, x[1]

ASSUME StaticAssumption == Static \subseteq Arrays

IsStatic(a) == a \in Static

(* What a sum adds to the elements it reads: the coefficients of 1, N, N*N, *)
(* N*i and i, where i is the counter.                                       *)
Terms == [c : Int, n : Int, sq : Int, ni : Int, i : Int]

TermValue(t, N, i) == t.c + t.n * N + t.sq * N * N + t.ni * N * i + t.i * i

(***************************************************************************)
(* compute_diff_expr: by how much the term grows from N - 1 to N; the      *)
(* counter, when it is left in the difference, is replaced by N.           *)
(***************************************************************************)
TermDifference(t, N) == TermValue(t, N, N) - TermValue(t, N - 1, N)

(* An element, at the counter, one below it or at N - 1, times a number. *)
Loads == [arr : Arrays, idx : {"counter", "below", "last"}, coef : Int]

(* How the term occurs in the sum: as an operand that is added, as one     *)
(* that is subtracted, or as several operands with loads between them.     *)
Shapes == {"added", "subtracted", "spread"}

(* The sum may be taken modulo rem, unless that is 0. *)
Stores == [arr : Arrays, loads : Seq(Loads), term : Terms, shape : Shapes, rem : Nat]

LoadsOf(st) == {st.loads[l] : l \in DOMAIN st.loads}

(***************************************************************************)
(* A sum without loads is its term.  A block has no counter, a scalar is   *)
(* read at 0, and a loop that reads the element below starts at 1.         *)
(***************************************************************************)
Placed(item, st) ==
  /\ st.loads = <<>> => st.shape = "added"
  /\ ~item.loop => st.term.i = 0 /\ st.term.ni = 0
  /\ \A l \in LoadsOf(st) : /\ l.idx # "counter" => ~IsStatic(l.arr)
                            /\ l.idx = "below" => item.first = 1

(* The body of a loop may be under a condition on N: if (i < N - 1). *)
Items ==
  {item \in [loop : BOOLEAN, first : {0, 1}, ofN : BOOLEAN, body : Seq(Stores)] :
     /\ ~item.loop => item.first = 0 /\ ~item.ofN
     /\ \A s \in DOMAIN item.body : Placed(item, item.body[s])}

Written(item) == {item.body[s].arr : s \in DOMAIN item.body}
ReadIn(item)  == UNION {{l.arr : l \in LoadsOf(item.body[s])} : s \in DOMAIN item.body}

(* isValueInSubExpr(N, value). *)
MentionsN(t) == t.n # 0 \/ t.sq # 0 \/ t.ni # 0

(* The tests on the stored value: in N and the counter alone, a constant, a load. *)
OnlyOfN(st)  == st.loads = <<>> /\ MentionsN(st.term)
Constant(st) == st.loads = <<>> /\ ~MentionsN(st.term) /\ st.term.i = 0 /\ st.rem = 0
OneLoad(st)  == /\ Len(st.loads) = 1 /\ st.loads[1].coef = 1 /\ st.rem = 0
                /\ ~MentionsN(st.term) /\ st.term.c = 0 /\ st.term.i = 0

(***************************************************************************)
(* collect_loads_recs returns what the loads leave of the sum, without its *)
(* sign.  When that is spread over the sum it returns the sum itself,      *)
(* whose loads make onlyValuesInSubExpr fail.                              *)
(***************************************************************************)
TermRecorded(st) == MentionsN(st.term) /\ st.shape # "spread"
=============================================================================
