---------------------------- MODULE PathFormula ----------------------------
(***************************************************************************)
(* bmc_pass: a loop-free reading of a function as constraints over fresh   *)
(* names, and the two places that ask a solver about them.  The names are  *)
(* numbered as they are made, and the constraints are the set of their     *)
(* models: the sequences that give each name its value.  A bit is the      *)
(* number of a Boolean name, negated if the bit is its negation.  The      *)
(* exit bits of a block are made with the constraint of its terminator.    *)
(***************************************************************************)
EXTENDS ControlFlow

CONSTANT Functions   \* the functions the pass may be given

ASSUME FunctionsAssumption == \A g \in Functions : WellFormed(g)

VARIABLES
  f,                 \* the function
  bb_vec,            \* its blocks, in the order they are translated
  pos,               \* the next operation of the last of them
  m,                 \* the term of each register
  names,             \* the name of each memory at the end of each block
  path_bit,
  exit_bits,
  spec_vec,          \* [path, term]: on the path, the term is true
  assert_path_bits,
  quant_elim_vars,
  models,            \* the models of bmc_vec
  array_vars,        \* the names that are names of arrays
  result             \* what the check printed

vars == <<f, bb_vec, pos, m, names, path_bit, exit_bits, spec_vec, assert_path_bits,
          quant_elim_vars, models, array_vars, result>>

ConstName(v) == v + 1
TrueBit  == ConstName(1)
FalseBit == ConstName(0)

(***************************************************************************)
(* A term is a name, or the equality of two.                               *)
(***************************************************************************)
Name(n) == [eq |-> FALSE, left |-> n, right |-> n]

Eval(t, s) == IF t.eq THEN Truth(s[t.left] = s[t.right]) ELSE s[t.left]
Holds(bit, s) == IF bit > 0 THEN s[bit] # 0 ELSE s[-bit] = 0

Fresh == Len(CHOOSE s \in models : TRUE) + 1

Arrays == Memories \ Globals

Made == Range(bb_vec)
bidx == Last(bb_vec)

-----------------------------------------------------------------------------
(***************************************************************************)
(* topological_sort: by the longest way to an exit, the longest first.     *)
(***************************************************************************)
Height(g) ==
  LET h[b \in Blocks(g)] ==
        1 + Max({0} \cup {h[s] : s \in Succs(g, b)})
  IN  h

\* A bug it could have: a block that has its number already is visited again.
NextBlocksAgain ==
  LET Left == IF bb_vec = <<>> THEN {1} ELSE UNION {Succs(f, b) : b \in Made}
  IN  {b \in Left : \A c \in Left : Height(f)[b] >= Height(f)[c]}

NextBlocks ==
  LET Left == IF bb_vec = <<>> THEN {1} ELSE (UNION {Succs(f, b) : b \in Made}) \ Made
  IN  {b \in Left : \A c \in Left : Height(f)[b] >= Height(f)[c]}

AllMade == bb_vec # <<>> /\ NextBlocks = {}

\* A bug it could have: the last of the cases that lead to b is taken.
extend_pathLast(b, p) ==
  [path |-> path_bit[p], exit |-> exit_bits[p][SelectLastInSeq(Targets(f, p), LAMBDA s : s = b)]]

extend_path(b, p) ==
  [path |-> path_bit[p], exit |-> exit_bits[p][getSuccessorIndex(f, p, b)]]

\* A bug it could have: the exit alone tells that the edge is taken.
TakenByExit(e, s) == Holds(e.exit, s)

Taken(e, s) == Holds(e.path, s) /\ Holds(e.exit, s)

Or(bits, s) == bits = {} \/ \E b \in bits : Holds(b, s)

(***************************************************************************)
(* The memories whose names differ at the ends of the predecessors get a   *)
(* fresh name; "prevs" of the entry is empty and its names are set before. *)
(***************************************************************************)
Differ(prevs, x) == \E p, q \in prevs : names[p][x] # names[q][x]

join_array_state(prevs) == {x \in Arrays : Differ(prevs, x)}
join_glb_state(prevs)   == {x \in Globals : Differ(prevs, x)}

Prevs(b)  == Preds(f, b) \cap Made
Joined(b) == join_array_state(Prevs(b)) \cup join_glb_state(Prevs(b))

JoinedNames(b) ==
  LET join == SetToSeq(Joined(b))
  IN  [x \in Memories |-> IF x \in Joined(b) THEN Fresh + CHOOSE i \in DOMAIN join : join[i] = x
                          ELSE names[CHOOSE p \in Prevs(b) : TRUE][x]]

(* The path bit implies that one of the edges to the block is taken ... *)
Entered(b, s) ==
  /\ s[Fresh] \in 0..1
  /\ s[Fresh] # 0 => Prevs(b) = {} \/ \E p \in Prevs(b) : Taken(extend_path(b, p), s)

(* ... and the edge implies that the memories are as it leaves them. *)
Carried(b, at, s) ==
  \A p \in Prevs(b) : Taken(extend_path(b, p), s) => \A x \in Joined(b) : s[at[x]] = s[names[p][x]]

More(n) == {s \o t : s \in models, t \in [1..n -> Value]}

Join(b) ==
  LET at == JoinedNames(b) IN
  /\ path_bit' = [path_bit EXCEPT ![b] = Fresh]
  /\ names' = [names EXCEPT ![b] = at]
  /\ quant_elim_vars' = quant_elim_vars \cup {Fresh}
  /\ models' = {s \in More(1 + Cardinality(Joined(b))) : Entered(b, s) /\ Carried(b, at, s)}
  /\ array_vars' = array_vars \cup {at[x] : x \in Arrays}

Enter(b) ==
  /\ result = "" /\ pos = 0
  /\ bb_vec' = Append(bb_vec, b)
  /\ IF b = 1
     THEN /\ path_bit' = [path_bit EXCEPT ![b] = TrueBit]
          /\ UNCHANGED <<names, quant_elim_vars, models, array_vars>>
     ELSE Join(b)
  /\ pos' = 1
  /\ UNCHANGED <<f, m, exit_bits, spec_vec, assert_path_bits, result>>

EnterBlock == \E b \in NextBlocks : Enter(b)

-----------------------------------------------------------------------------
(***************************************************************************)
(* The operations.                                                         *)
(***************************************************************************)
Block == f.block[bidx]

Reading(ops) ==
  /\ result = "" /\ pos # 0 /\ pos <= Len(Block.ops)
  /\ Block.ops[pos].op \in ops
  /\ pos' = pos + 1
  /\ UNCHANGED <<f, bb_vec, exit_bits, result>>

Op == Block.ops[pos]

Insert(t) == m' = [m EXCEPT ![Op.reg] = t] /\ UNCHANGED array_vars

translateNondet ==
  /\ Reading({"nondet"})
  /\ Insert(Name(Fresh))
  /\ models' = {Append(s, v) : s \in models, v \in Value}
  /\ quant_elim_vars' = quant_elim_vars \cup {Fresh}
  /\ UNCHANGED <<names, path_bit, spec_vec, assert_path_bits>>

translateLoadInst ==
  /\ Reading({"load"})
  /\ Insert(Name(names[bidx][Op.mem]))
  /\ UNCHANGED <<names, path_bit, spec_vec, assert_path_bits, quant_elim_vars, models>>

translateStoreInst ==
  /\ Reading({"store"})
  /\ names' = [names EXCEPT ![bidx][Op.mem] = Fresh]
  /\ models' = {Append(s, Eval(m[Op.reg], s)) : s \in models}
  /\ array_vars' = IF Op.mem \in Arrays THEN array_vars \cup {Fresh} ELSE array_vars
  /\ UNCHANGED <<m, path_bit, spec_vec, assert_path_bits, quant_elim_vars>>

translateCmpInst ==
  /\ Reading({"eq"})
  /\ Insert([eq |-> TRUE, left |-> m[Op.left].left, right |-> m[Op.right].left])
  /\ UNCHANGED <<names, path_bit, spec_vec, assert_path_bits, quant_elim_vars, models>>

translatePhiNode ==
  /\ Reading({"phi"})
  /\ Insert(Name(Fresh))
  /\ LET prevs == DOMAIN Op.in \cap Preds(f, bidx) \cap Made
     IN  models' = {s \in {Append(s, v) : s \in models, v \in Value} :
                      \A p \in prevs : Taken(extend_path(bidx, p), s) =>
                        s[Fresh] = Eval(m[Op.in[p]], s)}
  /\ UNCHANGED <<names, path_bit, spec_vec, assert_path_bits, quant_elim_vars>>

\* A bug it could have: the bit of the assumption is not made the path bit.
assume_to_bmcBeside ==
  /\ Reading({"assume"})
  /\ models' = {Append(s, Truth(Holds(path_bit[bidx], s) /\ Eval(m[Op.reg], s) # 0)) : s \in models}
  /\ quant_elim_vars' = quant_elim_vars \cup {Fresh}
  /\ UNCHANGED <<m, names, path_bit, spec_vec, assert_path_bits, array_vars>>

\* A bug it could have: the assumption is a constraint.
assume_to_bmcAlways ==
  /\ Reading({"assume"})
  /\ models' = {s \in models : Eval(m[Op.reg], s) # 0}
  /\ UNCHANGED <<m, names, path_bit, spec_vec, assert_path_bits, quant_elim_vars, array_vars>>

assume_to_bmc ==
  /\ Reading({"assume"})
  /\ path_bit' = [path_bit EXCEPT ![bidx] = Fresh]
  /\ models' = {Append(s, Truth(Holds(path_bit[bidx], s) /\ Eval(m[Op.reg], s) # 0)) : s \in models}
  /\ quant_elim_vars' = quant_elim_vars \cup {Fresh}
  /\ UNCHANGED <<m, names, spec_vec, assert_path_bits, array_vars>>

assert_to_spec ==
  /\ Reading({"assert"})
  /\ spec_vec' = Append(spec_vec, [path |-> path_bit[bidx], term |-> m[Op.reg]])
  /\ assert_path_bits' = Append(assert_path_bits, path_bit[bidx])
  /\ UNCHANGED <<m, names, path_bit, quant_elim_vars, models, array_vars>>

-----------------------------------------------------------------------------
(***************************************************************************)
(* The terminators, after which translateCommentProperty adds what the     *)
(* comments state, on no path.                                             *)
(***************************************************************************)
Claims ==
  SetToSeq({[path |-> TrueBit,
             term |-> [eq |-> TRUE, left |-> names[bidx][c[1]], right |-> ConstName(c[2])]] :
              c \in Block.claim})

Ending(kinds) ==
  /\ result = "" /\ pos # 0 /\ pos > Len(Block.ops)
  /\ Block.end.kind \in kinds
  /\ pos' = 0
  /\ UNCHANGED <<f, bb_vec, m, names, path_bit, assert_path_bits, array_vars, result>>

Exits(bits) == exit_bits' = [exit_bits EXCEPT ![bidx] = bits]

EliminateExits(n) == quant_elim_vars' = quant_elim_vars \cup {Fresh + i : i \in 0..(n - 1)}

(* Two exits: the bit of the first is the negation of the other's. *)
translateBranch ==
  /\ Ending({"br", "cond"})
  /\ spec_vec' = spec_vec \o Claims
  /\ IF Block.end.kind = "br"
     THEN Exits(<<TrueBit>>) /\ UNCHANGED <<quant_elim_vars, models>>
     ELSE /\ Exits(<<Fresh, -Fresh>>)
          /\ models' = {Append(s, Truth(Eval(m[Block.end.reg], s) # 0)) : s \in models}
          /\ EliminateExits(1)

translateSwitchInst ==
  /\ Ending({"switch"})
  /\ spec_vec' = spec_vec \o Claims
  /\ LET e == Block.end
         n == Len(e.to)
         Is(i, s) == Eval(m[e.reg], s) = e.val[i]
         Values(s) == [i \in 1..n |-> Truth(IF i = 1 THEN \A j \in 2..n : ~Is(j, s) ELSE Is(i, s))]
     IN  IF n = 2
         THEN /\ Exits(<<Fresh, -Fresh>>)
              /\ models' = {Append(s, Values(s)[1]) : s \in models}
              /\ EliminateExits(1)
         ELSE /\ Exits([i \in 1..n |-> Fresh + i - 1])
              /\ models' = {s \o Values(s) : s \in models}
              /\ EliminateExits(n)

translateRetInst ==
  /\ Ending({"ret"})
  /\ spec_vec' = spec_vec \o Claims
  /\ Exits(<<>>)
  /\ UNCHANGED <<quant_elim_vars, models>>

translateUnreachableInst ==
  /\ Ending({"unreachable"})
  /\ spec_vec' = Append(spec_vec, [path |-> path_bit[bidx], term |-> Name(FalseBit)]) \o Claims
  /\ Exits(<<>>)
  /\ UNCHANGED <<quant_elim_vars, models>>

-----------------------------------------------------------------------------
(* What do_bmc and add_exit_constraint add at the end. *)
Finish ==
  /\ result = "" /\ pos = 0 /\ AllMade
  /\ models' = {s \in models : /\ Or(Range(assert_path_bits), s)
                               /\ Or({path_bit[b] : b \in {c \in Made : Returns(f, c)}}, s)}
  /\ result' = "formula"
  /\ UNCHANGED <<f, bb_vec, pos, m, names, path_bit, exit_bits, spec_vec, assert_path_bits,
                 quant_elim_vars, array_vars>>

(***************************************************************************)
(* A solver is asked for a model in which a specification is false.  The   *)
(* names eliminated from bmc_vec are free in the specification.            *)
(***************************************************************************)
NamesOf(spec) == {spec.path, spec.term.left, spec.term.right}

False(spec, s) == Holds(spec.path, s) /\ Eval(spec.term, s) = 0

Falsifiable(spec, bit) ==
  \E s \in models : Holds(bit, s) /\
    \E free \in [NamesOf(spec) \cap quant_elim_vars -> Value] :
      False(spec, [n \in DOMAIN s |-> IF n = bit THEN 1
                                      ELSE IF n \in DOMAIN free THEN free[n] ELSE s[n]])

check_all_spec ==
  /\ result = "formula"
  /\ result' = IF \E i \in DOMAIN spec_vec : Falsifiable(spec_vec[i], TrueBit)
               THEN "FAILED" ELSE "SUCCESSFUL"
  /\ UNCHANGED <<f, bb_vec, pos, m, names, path_bit, exit_bits, spec_vec, assert_path_bits,
                 quant_elim_vars, models, array_vars>>

(***************************************************************************)
(* get_base_spec: an array that a block ends with is replaced by the one   *)
(* the first exit block ends with.  An array that no block ends with is an *)
(* error, and so is any if no block is an exit.                            *)
(***************************************************************************)
ExitBlocks == SelectSeq(bb_vec, LAMBDA b : Returns(f, b))

EndsWith(n) == {x \in Arrays : \E b \in Made : names[b][x] = n}

AtExit(n) ==
  IF EndsWith(n) = {} THEN n ELSE names[Head(ExitBlocks)][CHOOSE x \in EndsWith(n) : TRUE]

NotFound(spec) == \E n \in NamesOf(spec) \cap array_vars : EndsWith(n) = {} \/ ExitBlocks = <<>>

base_spec(spec) == [spec EXCEPT !.term.left = AtExit(@), !.term.right = AtExit(@)]

(***************************************************************************)
(* verify, up to the base case: the specifications in turn, each with the  *)
(* path bit of the assertion that has its number, if there is one.         *)
(***************************************************************************)
\* Bugs it could have: the number is one ahead, or the bits are left out.
PathBitOfNext(i) == IF i + 1 <= Len(assert_path_bits) THEN assert_path_bits[i + 1] ELSE TrueBit
PathBitOfNone(i) == TrueBit

PathBitOf(i) == IF i <= Len(assert_path_bits) THEN assert_path_bits[i] ELSE TrueBit

BaseCase(i) ==
  IF NotFound(spec_vec[i]) THEN "error"
  ELSE IF Falsifiable(base_spec(spec_vec[i]), PathBitOf(i)) THEN "base case FAILED"
  ELSE "base case holds"

verify ==
  /\ result = "formula"
  /\ LET Bad == {i \in DOMAIN spec_vec : BaseCase(i) # "base case holds"}
     IN  result' = IF Bad = {} THEN "base case holds" ELSE BaseCase(Min(Bad))
  /\ UNCHANGED <<f, bb_vec, pos, m, names, path_bit, exit_bits, spec_vec, assert_path_bits,
                 quant_elim_vars, models, array_vars>>

-----------------------------------------------------------------------------
Answered == result \notin {"", "formula"}

Stop == Answered /\ UNCHANGED vars

(* The constants, then the memories: a global variable has its initial value. *)
InitialNames == LET order == SetToSeq(Memories)
                IN  [x \in Memories |-> MaxValue + 1 + CHOOSE i \in DOMAIN order : order[i] = x]

Init ==
  /\ f \in Functions
  /\ bb_vec = <<>> /\ pos = 0
  /\ m = [r \in Registers |-> Name(IF r[1] = "const" THEN ConstName(r[2]) ELSE FalseBit)]
  /\ names = [b \in Blocks(f) |-> InitialNames]
  /\ path_bit = [b \in Blocks(f) |-> FalseBit]
  /\ exit_bits = [b \in Blocks(f) |-> <<>>]
  /\ spec_vec = <<>> /\ assert_path_bits = <<>> /\ quant_elim_vars = {}
  /\ models = {s \in [1..(MaxValue + 1 + Cardinality(Memories)) -> Value] :
                 /\ \A v \in Value : s[ConstName(v)] = v
                 /\ \A g \in Globals : s[InitialNames[g]] = 0}
  /\ array_vars = {InitialNames[x] : x \in Arrays}
  /\ result = ""

Next ==
  \/ EnterBlock
  \/ translateNondet \/ translateLoadInst \/ translateStoreInst \/ translateCmpInst
  \/ translatePhiNode \/ assume_to_bmc \/ assert_to_spec
  \/ translateBranch \/ translateSwitchInst \/ translateRetInst \/ translateUnreachableInst
  \/ Finish \/ check_all_spec \/ verify \/ Stop

Spec == Init /\ [][Next]_vars
=============================================================================
