----------------------------- MODULE FpiVerify -----------------------------
(***************************************************************************)
(* The driver of full-program induction: bmc_llvm_aggr::verify and         *)
(* verify_post, with the report of the caller (run_FPI, run_diff_preds).   *)
(*                                                                         *)
(* For each assertion the driver checks the base case, then, for every     *)
(* path of the difference function, that the assertion for N - 1 and the   *)
(* path imply it for N.  When they do not, it replaces the assertion by a  *)
(* pre-condition computed from the failed implication and tries again.     *)
(*                                                                         *)
(* chain, cert and gaps are history variables.  chain is the conjunction   *)
(* of the posts the current path has replaced, cert[k] the invariant the   *)
(* driver has established for assertion k, and gaps names the places where *)
(* the code went on without the implication that would justify it.         *)
(***************************************************************************)
EXTENDS ProgramFamily, FiniteSets

CONSTANTS
  Lost,            \* sets of points: what a computed pre-condition may add to the exact one
  FixpointBound,   \* o.fixpointBound
  SolverGivesUp,   \* z3 may answer unknown, which check_sat takes for unsat
  FalseIsLiteral   \* the simplifier may turn a contradictory pre-condition into false

ASSUME LostAssumption == Lost \subseteq SUBSET Points
ASSUME FixpointBoundAssumption == FixpointBound \in Nat
ASSUME SwitchAssumption == SolverGivesUp \in BOOLEAN /\ FalseIsLiteral \in BOOLEAN

VARIABLES
  prog,      \* the program: never changes
  pc,        \* the place in verify: see TypeOK
  k,         \* the iterator over spec_vec
  todo,      \* the flattened paths of the difference function not yet verified
  cur,       \* the path verify_post is working on
  post,      \* verify_post's post
  iter,      \* verify_post's iterCount
  printed,   \* the verdicts written to the output
  chain, cert, gaps

driver == <<pc, k, todo, cur, post, iter>>
ghosts == <<chain, cert, gaps>>
vars   == <<prog, driver, printed, ghosts>>

Gaps == {"falsePre", "weakPre", "emptyPre", "perPath", "cutBase",
         "existsWitness", "existsFirst", "unknown"}

(***************************************************************************)
(* check_sat and run_solver answer FALSE when z3 answers unknown.          *)
(***************************************************************************)
check_sat(satisfiable) ==
  IF SolverGivesUp THEN {satisfiable, FALSE} ELSE {satisfiable}

Unknown(answer, exact) == IF answer = exact THEN {} ELSE {"unknown"}

(***************************************************************************)
(* get_hyp: the post over the arrays at entry, with N - 1 for N.           *)
(***************************************************************************)
get_hyp(p, t) == Entered(t) \in p

(* The formula of verify_post: hyp, body and not post. *)
Refuted(p, body) == \E t \in body : get_hyp(p, t) /\ Exited(t) \notin p

(***************************************************************************)
(* compute_pre: the contents at entry that hyp, body and post allow.       *)
(***************************************************************************)
compute_pre(p, body) ==
  {<<t[1], t[2]>> : t \in {u \in body : get_hyp(p, u) /\ Exited(u) \in p}}

\* A bug that get_post could have: the substitution of N + 1 for N is forgotten.
get_postUnshifted(a) == a

(* The pre-condition a for N becomes the post of N + 1 -> N. *)
get_post(a) == {x \in Points : x[1] + 1 \in Sizes => <<x[1] + 1, x[2]>> \in a}

(***************************************************************************)
(* flatten_path erases the paths that are not satisfiable with N > 1, and  *)
(* with them a path of which z3 cannot say it.                             *)
(***************************************************************************)
flatten_path(P) == {i \in DOMAIN P.paths : \E t \in P.paths[i] : t[1] > 1}

Kept(paths) == IF SolverGivesUp THEN SUBSET paths ELSE {paths}

(***************************************************************************)
(* check_base_case: the formula holds the base function for N = 1 and the  *)
(* difference function for N = 2, so only the base contents from which     *)
(* the latter has a run are examined.                                      *)
(***************************************************************************)
BaseRuns(P) == {d \in P.base : 2 \in Sizes => Successors(P, <<1, d>>) # {}}

\* A bug it could have: the post is instantiated for the N of the difference function.
check_base_caseForTwo(P, p) == \E d \in BaseRuns(P) : <<2, d>> \notin p

check_base_case(P, p) == \E d \in BaseRuns(P) : <<1, d>> \notin p

Init ==
  /\ prog \in Programs
  /\ pc = "spec" /\ k = 1
  /\ todo = {} /\ cur = 0 /\ post = {} /\ iter = 0
  /\ printed = <<>>
  /\ chain = Points
  /\ cert = [j \in DOMAIN prog.specs |-> {}]
  /\ gaps = {}

Spec_ == prog.specs[k]

(* The passes have met code they cannot transform. *)
NothingUnsupported == FALSE
Unsupported == prog.unsupported

\* A bug it could have: verify returns true whatever it has printed.
ReturnTrue(result, verdicts) == pc' = "proved" /\ printed' = printed \o verdicts

(* Return from verify; FAILED and UNKNOWN are written just before it. *)
Return(result, verdicts) ==
  /\ pc' = IF result THEN "proved" ELSE "done"
  /\ printed' = printed \o verdicts

-----------------------------------------------------------------------------
(***************************************************************************)
(* verify: the base case of the next assertion.                            *)
(***************************************************************************)
BaseCase ==
  /\ pc = "spec" /\ k <= Len(prog.specs)
  /\ \E sat \in check_sat(check_base_case(prog, Spec_.holds)),
        paths \in Kept(flatten_path(prog)) :
       /\ IF sat THEN Return(FALSE, <<"FAILED">>)
          ELSE IF Unsupported THEN Return(FALSE, <<"UNKNOWN">>)
          ELSE /\ pc' = IF Spec_.exists THEN "exists" ELSE "paths"
               /\ UNCHANGED printed
       /\ todo' = paths
       /\ gaps' = gaps \cup Unknown(sat, check_base_case(prog, Spec_.holds))
                       \cup Unknown(paths, flatten_path(prog))
                       \cup IF BaseRuns(prog) = prog.base THEN {} ELSE {"cutBase"}
  /\ cert' = [cert EXCEPT ![k] = Spec_.holds]
  /\ UNCHANGED <<prog, k, cur, post, iter, chain>>

(* Every assertion has been verified, or there was none. *)
AllVerified ==
  /\ pc = "spec" /\ k > Len(prog.specs)
  /\ Return(TRUE, <<>>)
  /\ UNCHANGED <<prog, k, todo, cur, post, iter, ghosts>>

(***************************************************************************)
(* verify: an existential is instantiated, with 0 in the hypothesis and    *)
(* with 0 and N - 1 in the post, and the answer is returned at once.       *)
(***************************************************************************)
ExistsRefuted(s) ==
  \E t \in StepsOf(prog) : get_hyp(s.at0, t) /\ Exited(t) \notin s.at0 \cup s.atLast

ExistsCase ==
  /\ pc = "exists"
  /\ \E sat \in check_sat(ExistsRefuted(Spec_)) :
       /\ Return(~sat, <<>>)
       /\ gaps' = gaps \cup Unknown(sat, ExistsRefuted(Spec_)) \cup {"existsWitness"}
                       \cup IF k < Len(prog.specs) THEN {"existsFirst"} ELSE {}
  /\ UNCHANGED <<prog, k, todo, cur, post, iter, chain, cert>>

\* A bug it could have: a path starts from the post its predecessor ended with.
NextPathKeepingPost ==
  /\ pc = "paths" /\ todo # {}
  /\ cur' \in {i \in todo : \A j \in todo : i <= j}
  /\ pc' = "induct"
  /\ post' = (IF cur = 0 THEN Spec_.holds ELSE post) /\ iter' = 0 /\ chain' = Points
  /\ UNCHANGED <<prog, k, todo, printed, cert, gaps>>

(* verify: the loop over the flattened paths. *)
NextPath ==
  /\ pc = "paths" /\ todo # {}
  /\ cur' \in {i \in todo : \A j \in todo : i <= j}
  /\ pc' = "induct"
  /\ post' = Spec_.holds /\ iter' = 0 /\ chain' = Points
  /\ UNCHANGED <<prog, k, todo, printed, cert, gaps>>

\* A bug it could have: the iterator of spec_vec is advanced twice.
NextSpecButOne ==
  /\ pc = "paths" /\ todo = {}
  /\ k' = k + 2 /\ pc' = "spec"
  /\ UNCHANGED <<prog, todo, cur, post, iter, printed, ghosts>>

NextSpec ==
  /\ pc = "paths" /\ todo = {}
  /\ k' = k + 1 /\ pc' = "spec"
  /\ UNCHANGED <<prog, todo, cur, post, iter, printed, ghosts>>

-----------------------------------------------------------------------------
Body == prog.paths[cur]

PathVerified == pc' = "paths" /\ todo' = todo \ {cur}

\* A bug it could have: iterCount is not incremented.
CountNothing == iter' = iter
Count == iter' = iter + 1

(* verify_post: the inductive step of the path. *)
InductiveStep ==
  /\ pc = "induct" /\ iter < FixpointBound
  /\ Count
  /\ \E sat \in check_sat(Refuted(post, Body)) :
       /\ IF sat THEN pc' = "strengthen" /\ UNCHANGED <<todo, cert>>
          ELSE /\ PathVerified
               /\ cert' = [cert EXCEPT ![k] = @ \cap chain \cap post]
       /\ gaps' = gaps \cup Unknown(sat, Refuted(post, Body))
  /\ UNCHANGED <<prog, k, cur, post, printed, chain>>

GiveUp ==
  /\ pc = "induct" /\ iter = FixpointBound
  /\ Return(FALSE, <<"UNKNOWN">>)
  /\ UNCHANGED <<prog, k, todo, cur, post, iter, ghosts>>

(***************************************************************************)
(* verify_post: a conjunct of the pre-condition is false.  The path counts *)
(* as verified.                                                            *)
(***************************************************************************)
PreIsFalse ==
  /\ pc = "strengthen" /\ FalseIsLiteral
  /\ compute_pre(post, Body) = {}
  /\ PathVerified
  /\ gaps' = gaps \cup {"falsePre"}
  /\ UNCHANGED <<prog, k, cur, post, iter, printed, chain, cert>>

(* No conjunct of the pre-condition reads an array. *)
PreWithoutArrays ==
  /\ pc = "strengthen"
  /\ \E sat \in check_sat(compute_pre(post, Body) # {}) :
       /\ Return(FALSE, <<IF sat THEN "UNKNOWN" ELSE "FAILED">>)
       /\ gaps' = gaps \cup Unknown(sat, compute_pre(post, Body) # {})
  /\ UNCHANGED <<prog, k, todo, cur, post, iter, chain, cert>>

(***************************************************************************)
(* The pre-condition, shifted to N + 1, is the new post, if its base case  *)
(* holds.  (verify has returned already when unsupported is set.)          *)
(***************************************************************************)
Strengthen(a, gap) ==
  /\ \E sat \in check_sat(check_base_case(prog, get_post(a))) :
       /\ IF sat THEN Return(FALSE, <<"FAILED">>)
          ELSE pc' = "induct" /\ UNCHANGED printed
       /\ gaps' = gaps \cup gap \cup Unknown(sat, check_base_case(prog, get_post(a)))
                       \cup IF flatten_path(prog) = {cur} THEN {} ELSE {"perPath"}
  /\ post' = get_post(a)
  /\ chain' = chain \cap post
  /\ UNCHANGED <<prog, k, todo, cur, iter, cert>>

(* a, the hypothesis and the body do imply the post. *)
Sufficient(a, p, body) ==
  \A t \in body : t[1] > 1 /\ <<t[1], t[2]>> \in a /\ get_hyp(p, t) => Exited(t) \in p

(* The conjuncts with a select are kept: lost is what the others excluded. *)
PreWithArrays ==
  /\ pc = "strengthen"
  /\ \E lost \in Lost :
       LET a == compute_pre(post, Body) \cup lost IN
       Strengthen(a, IF Sufficient(a, post, Body) THEN {} ELSE {"weakPre"})

(* The rewriting has dropped every conjunct: the post is kept, and shifted. *)
PreIsEmpty ==
  /\ pc = "strengthen"
  /\ \E lost \in Lost : Sizes \X Data \subseteq compute_pre(post, Body) \cup lost
  /\ Strengthen(post, {"emptyPre"})

-----------------------------------------------------------------------------
(* The caller of verify writes the verdict of a success. *)
Report ==
  /\ pc = "proved"
  /\ pc' = "done"
  /\ printed' = Append(printed, "SUCCESSFUL")
  /\ UNCHANGED <<prog, k, todo, cur, post, iter, ghosts>>

Next ==
  \/ BaseCase \/ AllVerified \/ ExistsCase \/ NextPath \/ NextSpec
  \/ InductiveStep \/ GiveUp
  \/ PreIsFalse \/ PreWithoutArrays \/ PreWithArrays \/ PreIsEmpty
  \/ Report

Spec == Init /\ [][Next]_vars

(* The driver is sequential code: it takes its next step. *)
FairSpec == Spec /\ WF_vars(Next)
=============================================================================
