---------------------------- MODULE FpiExecution ----------------------------
(***************************************************************************)
(* The verifier and the program it has judged: once the verdict is out,    *)
(* the program is run for N = 1 and then, by its difference function, for  *)
(* larger and larger N.  What a verdict claims is a claim about these runs.*)
(***************************************************************************)
EXTENDS FpiVerify

VARIABLE at   \* <<N, final contents>> of the run, or NotRun

NotRun == <<>>

ExecInit == Init /\ at = NotRun

Run ==
  /\ pc = "done"
  /\ at' \in IF at = NotRun THEN InitialPoints(prog) ELSE Successors(prog, at)
  /\ UNCHANGED vars

ExecNext == (Next /\ UNCHANGED at) \/ Run

ExecSpec == ExecInit /\ [][ExecNext]_<<vars, at>> /\ WF_vars(Next)

Verdicts == {"SUCCESSFUL", "FAILED", "UNKNOWN"}

Says(v) == \E i \in DOMAIN printed : printed[i] = v

-----------------------------------------------------------------------------
TypeOK ==
  /\ prog \in ProgramType
  /\ pc \in {"spec", "exists", "paths", "induct", "strengthen", "proved", "done"}
  /\ k \in 1..(Len(prog.specs) + 1)
  /\ todo \in SUBSET DOMAIN prog.paths
  /\ cur \in DOMAIN prog.paths \cup {0}
  /\ post \in SUBSET Points /\ chain \in SUBSET Points
  /\ iter \in 0..FixpointBound
  /\ printed \in Seq(Verdicts)
  /\ cert \in [DOMAIN prog.specs -> SUBSET Points]
  /\ gaps \in SUBSET Gaps
  /\ at \in Points \cup {NotRun}

(***************************************************************************)
(* A program reported SUCCESSFUL satisfies every assertion in every run,   *)
(* for every N, unless the driver went through one of the gaps: the per-   *)
(* path strengthening of bmc_llvm_aggr.cpp:481-559 and the base case it    *)
(* re-checks after each pre-condition are otherwise enough.                *)
(***************************************************************************)
SuccessIsSound ==
  at # NotRun /\ Says("SUCCESSFUL") /\ gaps = {}
    => \A j \in DOMAIN prog.specs : at \in prog.specs[j].holds

(* A program of one path that no assumption cuts off, with every answer of *)
(* the solver definite and no empty pre-condition.                         *)
OneTotalPath ==
  /\ Total(prog) /\ Cardinality(flatten_path(prog)) <= 1
  /\ gaps \cap {"unknown", "emptyPre"} = {}

(***************************************************************************)
(* A program with a single path, none of whose runs an assumption cuts     *)
(* off, is reported FAILED only when it violates its post-condition: the   *)
(* base case of a pre-condition fails only if the post fails later on.     *)
(***************************************************************************)
FailureIsReal == Says("FAILED") /\ OneTotalPath => ~Valid(prog)

(***************************************************************************)
(* A difference function the passes marked as unsupported never leads to   *)
(* SUCCESSFUL when there is something to verify (the early return after    *)
(* each base case), whatever the solver answers.                           *)
(***************************************************************************)
UnsupportedIsNotProved ==
  prog.unsupported /\ prog.specs # <<>> => ~Says("SUCCESSFUL")

(***************************************************************************)
(* The tool never prints two verdicts, and a run that ends without one has *)
(* refuted an existential, the only silent return of verify.               *)
(***************************************************************************)
OneVerdict ==
  /\ Len(printed) <= 1
  /\ pc = "done" /\ printed = <<>> => "existsWitness" \in gaps

(***************************************************************************)
(* Every verification ends: the pre-condition loop stops at fixpointBound, *)
(* and each path and each assertion is left behind for good.               *)
(***************************************************************************)
Terminates == <>(pc = "done")

(***************************************************************************)
(* README.md:39 and README.md:41: SUCCESSFUL is for a post-condition that  *)
(* is verified, FAILED for one that is violated.  Neither is true of every *)
(* program: bmc_llvm_aggr.cpp:509-513, 470-476 and 544-548.                *)
(***************************************************************************)
SuccessfulIsVerified == Says("SUCCESSFUL") => Valid(prog)
FailedIsViolated     == Says("FAILED") => ~Valid(prog)

(***************************************************************************)
(* The driver implements the README's description of the tool: a verdict   *)
(* reached without a gap, FAILED only of a program with one path that no   *)
(* assumption cuts off, is an answer the description allows.               *)
(***************************************************************************)
Trusted ==
  /\ gaps = {}
  /\ Says("FAILED") => Total(prog) /\ Cardinality(flatten_path(prog)) <= 1

ReadmeVerdict ==
  INSTANCE Verdict WITH prog <- prog, printed <- IF Trusted THEN printed ELSE <<>>
ImplementsVerdict == ReadmeVerdict!Spec

-----------------------------------------------------------------------------
(***************************************************************************)
(* The inductive invariant behind FailureIsReal: of a program of one path  *)
(* that no assumption cuts off, a pre-condition shifted to N + 1 contains  *)
(* what the program reaches if the post-condition is valid.  So a base     *)
(* case that fails refutes the post-condition, and an assertion the path   *)
(* and the hypothesis contradict is not valid either.                      *)
(***************************************************************************)
FailureInv ==
  /\ pc \in {"exists", "paths", "induct", "strengthen"} => todo \subseteq flatten_path(prog)
  /\ pc \in {"induct", "strengthen"} /\ OneTotalPath /\ Valid(prog)
       => Reachable(prog) \subseteq post
  /\ FailureIsReal

(***************************************************************************)
(* The inductive invariant behind SuccessIsSound.  Without a gap, chain    *)
(* and post together hold of the base contents and imply the assertion,    *)
(* and a step of the current path from a point of both leads into chain;   *)
(* when the inductive step succeeds it leads into post too, so that their  *)
(* conjunction is an invariant of the program.                             *)
(***************************************************************************)
ClosedUnder(inv, path) ==
  \A t \in path : t[1] > 1 /\ Entered(t) \in inv => Exited(t) \in inv

Established(j, paths) ==
  /\ InitialPoints(prog) \subseteq cert[j]
  /\ cert[j] \subseteq prog.specs[j].holds
  /\ \A i \in paths : ClosedUnder(cert[j], prog.paths[i])

InSpec == pc \in {"paths", "induct", "strengthen"}
InPath == pc \in {"induct", "strengthen"}

ChainInv ==
  /\ cur \in todo
  /\ InitialPoints(prog) \subseteq chain \cap post
  /\ chain \cap post \subseteq Spec_.holds
  /\ \A t \in Body : t[1] > 1 /\ Entered(t) \in chain \cap post => Exited(t) \in chain
  /\ flatten_path(prog) = {cur} \/ (chain = Points /\ post = Spec_.holds)

NoGapInv ==
  /\ \A j \in 1..(k - 1) : Established(j, DOMAIN prog.paths)
  /\ InSpec => /\ k \in DOMAIN prog.specs
               /\ BaseRuns(prog) = prog.base
               /\ todo \subseteq flatten_path(prog)
               /\ Established(k, flatten_path(prog) \ todo)
               /\ cert[k] = Spec_.holds \/ todo = {}
  /\ InPath => ChainInv
  /\ pc = "proved" \/ Says("SUCCESSFUL") => k = Len(prog.specs) + 1

RunInv ==
  at # NotRun =>
    /\ pc = "done"
    /\ gaps = {} /\ Says("SUCCESSFUL")
         => \A j \in DOMAIN prog.specs : at \in cert[j]

SoundInv ==
  /\ gaps = {} => NoGapInv
  /\ pc # "done" => printed = <<>>
  /\ RunInv
=============================================================================
