------------------------------ MODULE PathRuns ------------------------------
(***************************************************************************)
(* What the constraints of PathFormula say about the runs of the function, *)
(* and what the two checks may conclude from them.                         *)
(***************************************************************************)
EXTENDS PathFormula

Results == {"", "formula", "FAILED", "SUCCESSFUL", "base case FAILED", "base case holds", "error"}

(* Everything the pass keeps speaks of names it has made. *)
NamesAreMade ==
  LET made  == 1..(Fresh - 1)
      terms == [eq : BOOLEAN, left : made, right : made] IN
  /\ names \in [Blocks(f) -> [Memories -> made]]
  /\ path_bit \in [Blocks(f) -> made]
  /\ exit_bits \in [Blocks(f) -> Seq(made \cup {-n : n \in made})]
  /\ m \in [Registers -> terms]
  /\ spec_vec \in Seq([path : made, term : terms]) /\ assert_path_bits \in Seq(made)
  /\ quant_elim_vars \cup array_vars \subseteq made

TypeOK ==
  /\ f \in Functions /\ bb_vec \in Seq(Blocks(f)) /\ IsInjective(bb_vec)
  /\ pos \in Nat /\ (pos # 0 => bb_vec # <<>> /\ pos <= Len(Block.ops) + 1)
  /\ \A s, t \in models : s \in Seq(Value) /\ Len(s) = Len(t)
  /\ result \in Results /\ (result = "" => NamesAreMade)
  /\ Len(assert_path_bits) <= Len(spec_vec)

(***************************************************************************)
(* The constraints do not contradict each other, whatever the function     *)
(* assumes: they have a model on no path but that of the entry (do_bmc, up *)
(* to its last constraint).  Otherwise they would imply everything.        *)
(***************************************************************************)
Consistent ==
  result = "" => \E s \in models : \A b \in Made \ {1} : ~Holds(path_bit[b], s)

(***************************************************************************)
(* A model and a run agree on the blocks, the memory at both ends, and     *)
(* every register the run has given a value.                               *)
(***************************************************************************)
Agrees(s, r) ==
  /\ \A b \in Made : Holds(path_bit[b], s) <=> b \in r.seen
  /\ \A x \in Memories : s[InitialNames[x]] = r.init[x] /\ s[names[r.at][x]] = r.mem[x]
  /\ \A b \in r.seen : \A i \in DOMAIN f.block[b].ops :
       LET o == f.block[b].ops[i] IN Defines(o) => Eval(m[o.reg], s) = r.regs[o.reg]

(* The runs the formula is about: it asks for an assertion on the path if  *)
(* there is one, and knows one case of the edges between two blocks.       *)
Covered(r) ==
  /\ r.ended /\ "later" \notin r.met
  /\ assert_path_bits # <<>> => "asserted" \in r.met

(***************************************************************************)
(* No run of the function is lost: joins, phi nodes, exit bits and assume  *)
(* bits together admit each of them, with all it reads and computes.       *)
(***************************************************************************)
RunsAreModels ==
  result = "formula" => \A r \in Executions(f) : Covered(r) => \E s \in models : Agrees(s, r)

(***************************************************************************)
(* Nothing else is admitted: although a path bit only implies one of the   *)
(* edges into its block, and no constraint excludes two of them, each      *)
(* model is a run with exactly its blocks.  Where no block returns, the    *)
(* disjunction of their path bits is empty, for _or true: the models are   *)
(* those of unfinished runs.                                               *)
(***************************************************************************)
MayReturn == \E b \in Made : Returns(f, b)

ModelsAreRuns ==
  result = "formula" /\ MayReturn =>
    LET runs == {r \in Executions(f) : Covered(r)}
    IN  \A s \in models : \E r \in runs : Agrees(s, r)

-----------------------------------------------------------------------------
(***************************************************************************)
(* Why: the runs followed through the blocks translated so far, and what a *)
(* model has in common with one of them.                                   *)
(***************************************************************************)
Done == IF pos = 0 THEN Made ELSE Made \ {bidx}

AtBlocks == {r \in UNION {Runs(f)[n] : n \in 0..Len(f.block)} : "later" \notin r.met}

(* At a block to come, with all blocks before it done; at the end; in the block. *)
Waiting(r)  == ~r.ended /\ r.at \notin Made /\ r.seen \ {r.at} \subseteq Done
AtTheEnd(r) == r.ended /\ r.at \in Done
Entering(r) == pos # 0 /\ ~r.ended /\ r.at = bidx

Outside == {r \in AtBlocks : Waiting(r) \/ AtTheEnd(r)}
Inside  == UNION {Body(f, r, pos - 1) : r \in {r \in AtBlocks : Entering(r)}}

Followed == Outside \cup Inside

OpsDone(b) == IF b \in Done THEN DOMAIN f.block[b].ops ELSE 1..(pos - 1)

MemoryAt(r) == names[IF r.at \in Made \/ r.from = 0 THEN r.at ELSE r.from]

SameBlocks(s, r) == \A b \in Made : Holds(path_bit[b], s) <=> b \in r.seen

SameMemory(s, r) ==
  \A x \in Memories : s[InitialNames[x]] = r.init[x] /\ s[MemoryAt(r)[x]] = r.mem[x]

SameRegisters(s, r) ==
  \A b \in r.seen \cap Made : \A i \in OpsDone(b) :
    LET o == f.block[b].ops[i] IN Defines(o) => Eval(m[o.reg], s) = r.regs[o.reg]

SameEdge(s, r) ==
  \A c \in Blocks(f) \ Done : \A p \in Preds(f, c) \cap Done :
    Taken(extend_path(c, p), s) <=> r.at = c /\ r.from = p

Asserted(s) == \E i \in DOMAIN assert_path_bits : Holds(assert_path_bits[i], s)

Claiming == \E b \in Made : f.block[b].claim # {}
Erring   == \E b \in Made : f.block[b].end.kind = "unreachable"

(* What a comment states is a specification on every path. *)
Refuted(s) == \E i \in DOMAIN spec_vec : False(spec_vec[i], s)

SameVerdict(s, r) ==
  /\ "bad" \in r.met => Refuted(s)
  /\ ~Claiming /\ Refuted(s) => "bad" \in r.met

Matches(s, r) ==
  /\ SameBlocks(s, r) /\ SameMemory(s, r) /\ SameRegisters(s, r) /\ SameEdge(s, r)
  /\ "asserted" \in r.met <=> Asserted(s)
  /\ SameVerdict(s, r)

(* The model of a run that an assumption has stopped, or the formula loses. *)
Stuck(s) ==
  /\ Made # {} /\ (pos # 0 => ~Holds(path_bit[bidx], s))
  /\ \A c \in Blocks(f) \ Made : \A p \in Preds(f, c) \cap Done : ~Taken(extend_path(c, p), s)
  /\ \A b \in Made : Returns(f, b) => ~Holds(path_bit[b], s)

(***************************************************************************)
(* The invariant RunsAreModels and ModelsAreRuns follow from.              *)
(***************************************************************************)
ModelsFollowRuns ==
  result = "" =>
    LET runs == Followed IN
    /\ \A r \in runs : \E s \in models : Matches(s, r)
    /\ \A s \in models : Stuck(s) \/ \E r \in runs : Matches(s, r)

-----------------------------------------------------------------------------
Reaching(what) == {r \in Executions(f) : Covered(r) /\ what \in r.met}

(* The specifications are about names that no elimination frees ... *)
Retained == \A i \in DOMAIN spec_vec :
              {spec_vec[i].term.left, spec_vec[i].term.right} \cap quant_elim_vars = {}

(* ... and about arrays as they are at the only exit. *)
Final == \A i \in DOMAIN spec_vec : base_spec(spec_vec[i]) = spec_vec[i]

(***************************************************************************)
(* A base case that holds, and a SUCCESSFUL, leave no failing run.  verify *)
(* pairs the specifications with the path bits of assertions by number: if *)
(* some are not assertions, one may be asked about where no model goes.    *)
(***************************************************************************)
SuccessIsReal ==
  \/ result = "SUCCESSFUL"
  \/ result = "base case holds" /\ Final /\ ~((Claiming \/ Erring) /\ assert_path_bits # <<>>)
  => Reaching("bad") = {}

(***************************************************************************)
(* A base case that fails, and a FAILED, are the failure of a run.  verify *)
(* has lost the path of what is not an assertion, and check_all_spec that  *)
(* of each specification when there are several.  A function that never    *)
(* returns may fail in an iteration that no execution completes.           *)
(***************************************************************************)
FailureIsReal ==
  /\ ~Claiming /\ ~Erring /\ Retained /\ MayReturn
  /\ \/ result = "base case FAILED" /\ Final
     \/ result = "FAILED" /\ Len(spec_vec) = 1
  => Reaching("bad") # {}

(***************************************************************************)
(* bmc_pass.cpp:304: "VERIFIER_error always has an unreachable instruction *)
(* which is handled".  The specification of an unreachable instruction has *)
(* no path bit of its own in verify, which then refutes it on any path.    *)
(***************************************************************************)
ErrorIsHandled ==
  result = "base case FAILED" /\ Erring /\ ~Claiming /\ assert_path_bits = <<>> => Reaching("bad") # {}
=============================================================================
