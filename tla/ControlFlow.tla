---------------------------- MODULE ControlFlow ----------------------------
(***************************************************************************)
(* The functions the bounded model checker translates, and what running    *)
(* them does.  A function is a sequence of blocks, the first its entry,    *)
(* with the back edges of its loops; a block is a sequence of operations,  *)
(* a terminator, and the property a comment states of the memory at its    *)
(* end.  An array is one cell, as its index plays no part in how paths are *)
(* joined; integers and truth values are the members of Value, 0 is false. *)
(***************************************************************************)
EXTENDS Naturals, Sequences, FiniteSets, SequencesExt

CONSTANTS
  MaxValue,    \* the largest value
  Memories,    \* the arrays and the global variables
  Globals,     \* those that are global variables, initialised to 0
  Registers    \* <<name, n>>; <<"const", v>> is the constant v

ASSUME ValuesAssumption ==
  /\ MaxValue \in Nat \ {0} /\ Globals \subseteq Memories /\ IsFiniteSet(Memories)
  /\ \A r \in Registers : r[1] = "const" => r[2] \in 0..MaxValue

Value == 0..MaxValue

Const(v) == <<"const", v>>

Truth(b) == IF b THEN 1 ELSE 0

(***************************************************************************)
(* The graph.                                                              *)
(***************************************************************************)
Blocks(f)  == DOMAIN f.block
Targets(f, b) == f.block[b].end.to
Succs(f, b) == {s \in Range(Targets(f, b)) : <<b, s>> \notin f.back}
Preds(f, b) == {p \in Blocks(f) : b \in Succs(f, p)}
Returns(f, b) == f.block[b].end.kind \in {"ret", "unreachable"}

(* The successor index of an edge: the first one, whatever case is taken. *)
getSuccessorIndex(f, b, s) ==
  CHOOSE i \in DOMAIN Targets(f, b) :
    Targets(f, b)[i] = s /\ \A j \in 1..(i - 1) : Targets(f, b)[j] # s

(***************************************************************************)
(* A register, once defined, keeps its value; d dominates b if the blocks  *)
(* that are reached without d, all of them in S, do not include b.         *)
(***************************************************************************)
Defines(o) == o.op \in {"nondet", "load", "eq", "phi"}

DefinedBefore(f, b, k) ==
  {f.block[b].ops[i].reg : i \in {i \in 1..(k - 1) : Defines(f.block[b].ops[i])}}

Dominates(f, d, b) ==
  \E S \in SUBSET (Blocks(f) \ {d, b}) :
    1 \in S \cup {d} /\ \A p \in S : Succs(f, p) \subseteq S \cup {d}

Available(f, b, k) ==
  {r \in Registers : r[1] = "const"} \cup DefinedBefore(f, b, k)
    \cup UNION {DefinedBefore(f, d, Len(f.block[d].ops) + 1) :
                  d \in {d \in Blocks(f) \ {b} : Dominates(f, d, b)}}

(***************************************************************************)
(* What LLVM's verifier asks of a function, and what loop_ignore_edge      *)
(* makes of one: without the back edges it has no cycle.  The comparisons  *)
(* are of integers.                                                        *)
(***************************************************************************)
Comparisons(f) ==
  UNION {{f.block[b].ops[i].reg : i \in {i \in DOMAIN f.block[b].ops : f.block[b].ops[i].op = "eq"}} :
           b \in Blocks(f)}

WellFormedOp(f, b, k) ==
  LET o == f.block[b].ops[k] IN
  /\ o.op \in {"nondet", "load", "store", "eq", "phi", "assume", "assert"}
  /\ o.op # "eq" /\ o.op # "phi" /\ ~Defines(o) => o.reg \in Available(f, b, k)
  /\ o.op \in {"load", "store"} => o.mem \in Memories
  /\ o.op = "eq" => {o.left, o.right} \subseteq Available(f, b, k) \ Comparisons(f)
  /\ o.op = "phi" => b # 1 /\ \A p \in Preds(f, b) :
       p \in DOMAIN o.in /\ o.in[p] \in Available(f, p, Len(f.block[p].ops) + 1)
  /\ Defines(o) => o.reg \in Registers /\ o.reg[1] # "const"

WellFormedEnd(f, b) ==
  LET e == f.block[b].end IN
  /\ e.kind \in {"br", "cond", "switch", "ret", "unreachable"}
  /\ e.to \in Seq(Blocks(f) \ {1}) /\ (e.kind = "switch" => e.val \in Seq(Value) /\ Len(e.val) = Len(e.to))
  /\ e.kind \in {"ret", "unreachable"} <=> e.to = <<>>
  /\ e.kind = "br" => Len(e.to) = 1
  /\ e.kind = "cond" => Len(e.to) = 2
  /\ e.kind \in {"cond", "switch"} => e.reg \in Available(f, b, Len(f.block[b].ops) + 1)
  /\ e.kind = "switch" => \A i, j \in 2..Len(e.to) : e.val[i] = e.val[j] => i = j

WellFormed(f) ==
  /\ Len(f.block) \in Nat \ {0} /\ Blocks(f) = 1..Len(f.block)
  /\ \E rank \in [Blocks(f) -> Blocks(f)] : \A b \in Blocks(f) : \A s \in Succs(f, b) : rank[s] < rank[b]
  /\ \A b \in Blocks(f) :
       /\ WellFormedEnd(f, b)
       /\ Len(f.block[b].ops) \in Nat /\ DOMAIN f.block[b].ops = 1..Len(f.block[b].ops)
       /\ \A k \in DOMAIN f.block[b].ops : WellFormedOp(f, b, k)
       /\ f.block[b].claim \subseteq Memories \X Value /\ IsFiniteSet(f.block[b].claim)
       /\ \A c \in Blocks(f) : \A i \in DOMAIN f.block[b].ops : \A j \in DOMAIN f.block[c].ops :
            /\ Defines(f.block[b].ops[i]) /\ Defines(f.block[c].ops[j])
            /\ f.block[b].ops[i].reg = f.block[c].ops[j].reg
            => b = c /\ i = j

(***************************************************************************)
(* A run: where it is and where it comes from, its registers and memory,   *)
(* the blocks it has seen, and what it has met: "asserted" if it passed an *)
(* assertion, "bad" if one failed or an unreachable instruction was        *)
(* reached or a comment is false, "later" if it took an edge by another    *)
(* case than the first that leads there.                                   *)
(***************************************************************************)
Starts(f) ==
  {[at |-> 1, from |-> 0, ended |-> FALSE, mem |-> i, init |-> i, seen |-> {1}, met |-> {},
    regs |-> [r \in Registers |-> IF r[1] = "const" THEN r[2] ELSE 0]] :
     i \in {i \in [Memories -> Value] : \A g \in Globals : i[g] = 0}}

Meet(r, what, b) == IF b THEN [r EXCEPT !.met = @ \cup {what}] ELSE r

Set(r, o, v) == [r EXCEPT !.regs[o.reg] = v]

Perform(r, o) ==
  CASE o.op = "nondet" -> {Set(r, o, v) : v \in Value}
    [] o.op = "load"   -> {Set(r, o, r.mem[o.mem])}
    [] o.op = "store"  -> {[r EXCEPT !.mem[o.mem] = r.regs[o.reg]]}
    [] o.op = "eq"     -> {Set(r, o, Truth(r.regs[o.left] = r.regs[o.right]))}
    [] o.op = "phi"    -> {Set(r, o, r.regs[o.in[r.from]])}
    [] o.op = "assume" -> IF r.regs[o.reg] # 0 THEN {r} ELSE {}
    [] o.op = "assert" -> {Meet(Meet(r, "asserted", TRUE), "bad", r.regs[o.reg] = 0)}

Case(r, e) ==
  CASE e.kind = "br"     -> 1
    [] e.kind = "cond"   -> IF r.regs[e.reg] # 0 THEN 1 ELSE 2
    [] e.kind = "switch" ->
         IF \E i \in 2..Len(e.to) : e.val[i] = r.regs[e.reg]
         THEN CHOOSE i \in 2..Len(e.to) : e.val[i] = r.regs[e.reg]
         ELSE 1

Leave(f, r) ==
  LET b == r.at
      e == f.block[b].end
      i == Case(r, e)
  IN  CASE e.kind = "ret"         -> {[r EXCEPT !.ended = TRUE]}
        [] e.kind = "unreachable" -> {[Meet(r, "bad", TRUE) EXCEPT !.ended = TRUE]}
        [] OTHER ->
             IF <<b, e.to[i]>> \in f.back THEN {}   \* one iteration of a loop
             ELSE {[Meet(r, "later", i # getSuccessorIndex(f, b, e.to[i]))
                      EXCEPT !.at = e.to[i], !.from = b, !.seen = @ \cup {e.to[i]}]}

(* After the first k operations of its block. *)
Body(f, r, k) ==
  LET ops == f.block[r.at].ops
      after[n \in 0..Len(ops)] ==
        IF n = 0 THEN {r} ELSE UNION {Perform(s, ops[n]) : s \in after[n - 1]}
  IN  after[k]

Says(f, r) == Meet(r, "bad", \E c \in f.block[r.at].claim : r.mem[c[1]] # c[2])

Advance(f, r) ==
  IF r.ended THEN {r}
  ELSE UNION {Leave(f, Says(f, s)) : s \in Body(f, r, Len(f.block[r.at].ops))}

(* After n blocks; and every run from the entry to where it ends. *)
Runs(f) ==
  LET runs[n \in 0..Len(f.block)] ==
        IF n = 0 THEN Starts(f) ELSE UNION {Advance(f, r) : r \in runs[n - 1]}
  IN  runs

Executions(f) == Runs(f)[Len(f.block)]
=============================================================================
