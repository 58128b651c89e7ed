----------------------------- MODULE FpiProofs -----------------------------
(***************************************************************************)
(* Proofs about the driver of full-program induction, for every family of  *)
(* programs, every set of array contents and every N.                      *)
(***************************************************************************)
EXTENDS FpiExecution, NaturalSets

(* The shape of a program: its paths and its assertions. *)
LEMMA ProgramFields ==
  ASSUME NEW P \in ProgramType
  PROVE  /\ P.base \in SUBSET Data
         /\ P.paths \in Seq(SUBSET Steps)
         /\ P.specs \in Seq(Assertions)
         /\ P.unsupported \in BOOLEAN
         /\ Len(P.specs) \in Nat
         /\ DOMAIN P.specs = 1..Len(P.specs)
         /\ \A j \in DOMAIN P.specs : P.specs[j] \in Assertions
         /\ \A j \in DOMAIN P.specs : P.specs[j].holds \in SUBSET Points
         /\ \A i \in DOMAIN P.paths : P.paths[i] \in SUBSET Steps
<1>1. /\ P.base \in SUBSET Data
      /\ P.paths \in Seq(SUBSET Steps)
      /\ P.specs \in Seq(Assertions)
      /\ P.unsupported \in BOOLEAN
  BY DEF ProgramType
<1>2. /\ Len(P.specs) \in Nat
      /\ DOMAIN P.specs = 1..Len(P.specs)
      /\ \A j \in DOMAIN P.specs : P.specs[j] \in Assertions
  BY <1>1
<1>3. \A j \in DOMAIN P.specs : P.specs[j].holds \in SUBSET Points
  BY <1>2 DEF Assertions
<1>4. \A i \in DOMAIN P.paths : P.paths[i] \in SUBSET Steps
  BY <1>1
<1> QED
  BY <1>1, <1>2, <1>3, <1>4

LEMMA GetPostType == ASSUME NEW a PROVE get_post(a) \in SUBSET Points
  BY DEF get_post

LEMMA FlattenType ==
  ASSUME NEW P PROVE flatten_path(P) \in SUBSET DOMAIN P.paths
  BY DEF flatten_path

LEMMA KeptOf == \A paths : \A kept \in Kept(paths) : kept \subseteq paths
BY DEF Kept

(* Everywhere the driver looks at an assertion, there is one. *)
WithinSpecs == pc \in {"exists", "paths", "induct", "strengthen"} => k \in DOMAIN prog.specs

WithinPaths == pc \in {"induct", "strengthen"} => cur \in todo

TypeInv == TypeOK /\ WithinSpecs /\ WithinPaths

LEMMA TypeInit == ExecInit => TypeInv
<1> SUFFICES ASSUME ExecInit PROVE TypeInv
  OBVIOUS
<1> USE DEF ExecInit, Init
<1>1. prog \in ProgramType
  BY ProgramsAssumption
<1>2. Len(prog.specs) \in Nat
  BY <1>1, ProgramFields
<1>3. k \in 1..(Len(prog.specs) + 1)
  BY <1>2
<1>4. cert \in [DOMAIN prog.specs -> SUBSET Points]
  OBVIOUS
<1>5. iter \in 0..FixpointBound
  BY FixpointBoundAssumption
<1>6. printed \in Seq(Verdicts)
  BY DEF Verdicts
<1> QED
  BY <1>1, <1>3, <1>4, <1>5, <1>6 DEF Verdicts, TypeInv, TypeOK, WithinSpecs, WithinPaths, NotRun

(* A return appends at most one verdict to those that were printed. *)
LEMMA ReturnType ==
  ASSUME NEW r, NEW vs \in {<<>>, <<"FAILED">>, <<"UNKNOWN">>},
         printed \in Seq(Verdicts), Return(r, vs)
  PROVE  printed' \in Seq(Verdicts) /\ pc' \in {"proved", "done"}
<1>1. vs \in Seq(Verdicts)
  <2>1. "FAILED" \in Verdicts /\ "UNKNOWN" \in Verdicts
    BY DEF Verdicts
  <2>2. CASE vs = <<>>
    BY <2>2
  <2>3. CASE vs = <<"FAILED">>
    BY <2>1, <2>3
  <2>4. CASE vs = <<"UNKNOWN">>
    BY <2>1, <2>4
  <2> QED
    BY <2>2, <2>3, <2>4
<1>2. printed \o vs \in Seq(Verdicts)
  BY <1>1
<1> QED
  BY <1>2 DEF Return

LEMMA StrengthenType ==
  ASSUME TypeInv, pc = "strengthen",
         NEW a, NEW gap \in SUBSET Gaps, Strengthen(a, gap), UNCHANGED at
  PROVE  TypeInv'
<1> USE DEF TypeInv, TypeOK, Strengthen
<1>1. post' \in SUBSET Points /\ chain' \in SUBSET Points
  BY GetPostType
<1>2. gaps' \in SUBSET Gaps
  BY DEF Gaps, Unknown
<1>3. printed' \in Seq(Verdicts) /\ pc' \in {"induct", "proved", "done"}
  BY ReturnType
<1> QED
  BY <1>1, <1>2, <1>3 DEF WithinSpecs, WithinPaths

(***************************************************************************)
(* Every action of the driver preserves the type invariant.                *)
(***************************************************************************)
LEMMA TypeStep == TypeInv /\ [ExecNext]_<<vars, at>> => TypeInv'
<1> SUFFICES ASSUME TypeInv, [ExecNext]_<<vars, at>> PROVE TypeInv'
  OBVIOUS
<1> USE DEF TypeInv, TypeOK, WithinSpecs, WithinPaths, driver, ghosts
<1>0. /\ Len(prog.specs) \in Nat
      /\ DOMAIN prog.specs = 1..Len(prog.specs)
      /\ \A j \in DOMAIN prog.specs : prog.specs[j].holds \in SUBSET Points
  BY ProgramFields
<1>1. CASE UNCHANGED <<vars, at>>
  BY <1>1 DEF vars
<1>2. CASE BaseCase /\ UNCHANGED at
  <2>1. k \in DOMAIN prog.specs /\ Spec_.holds \in SUBSET Points
    <3>1. k \in 1..(Len(prog.specs) + 1) /\ k <= Len(prog.specs)
      BY <1>2 DEF BaseCase
    <3> QED
      BY <1>0, <3>1 DEF Spec_
  <2>2. printed' \in Seq(Verdicts)
        /\ pc' \in {"exists", "paths", "proved", "done"}
    BY <1>2, ReturnType DEF BaseCase
  <2>3. gaps' \in SUBSET Gaps
    BY <1>2 DEF BaseCase, Gaps, Unknown
  <2>4. cert' \in [DOMAIN prog.specs -> SUBSET Points]
    BY <1>2, <2>1 DEF BaseCase
  <2>5. todo' \in SUBSET DOMAIN prog.paths
    BY <1>2, FlattenType, KeptOf DEF BaseCase
  <2> QED
    BY <1>2, <2>1, <2>2, <2>3, <2>4, <2>5 DEF BaseCase
<1>3. CASE AllVerified /\ UNCHANGED at
  BY <1>3, ReturnType DEF AllVerified
<1>4. CASE ExistsCase /\ UNCHANGED at
  <2>1. gaps' \in SUBSET Gaps
    BY <1>4 DEF ExistsCase, Gaps, Unknown
  <2>2. printed' \in Seq(Verdicts) /\ pc' \in {"proved", "done"}
    BY <1>4, ReturnType DEF ExistsCase
  <2> QED
    BY <1>4, <2>1, <2>2 DEF ExistsCase
<1>5. CASE NextPath /\ UNCHANGED at
  <2>1. cur' \in todo
    BY <1>5 DEF NextPath
  <2>2. Spec_.holds \in SUBSET Points
    BY <1>0, <1>5 DEF NextPath, Spec_
  <2> QED
    BY <1>5, <2>1, <2>2, FixpointBoundAssumption DEF NextPath
<1>6. CASE NextSpec /\ UNCHANGED at
  <2> HIDE DEF TypeInv, TypeOK
  <2>1. TypeOK /\ k \in DOMAIN prog.specs
    BY <1>6 DEF TypeInv, NextSpec
  <2>2. k' = k + 1 /\ pc' = "spec" /\ UNCHANGED <<prog, todo, cur, post, iter, printed, ghosts, at>>
    BY <1>6 DEF NextSpec
  <2>3. k' \in 1..(Len(prog.specs) + 1)
    BY <1>0, <2>1, <2>2
  <2> QED
    BY <2>1, <2>2, <2>3 DEF TypeInv, TypeOK
<1>7. CASE InductiveStep /\ UNCHANGED at
  <2>1. gaps' \in SUBSET Gaps
    BY <1>7 DEF InductiveStep, Gaps, Unknown
  <2>2. iter' \in 0..FixpointBound
    BY <1>7, FixpointBoundAssumption DEF InductiveStep, Count
  <2>3. cert' \in [DOMAIN prog.specs -> SUBSET Points]
    BY <1>7 DEF InductiveStep
  <2> QED
    BY <1>7, <2>1, <2>2, <2>3 DEF InductiveStep, PathVerified
<1>8. CASE GiveUp /\ UNCHANGED at
  BY <1>8, ReturnType DEF GiveUp
<1>9. CASE PreIsFalse /\ UNCHANGED at
  BY <1>9 DEF PreIsFalse, PathVerified, Gaps
<1>10. CASE PreWithoutArrays /\ UNCHANGED at
  <2>1. gaps' \in SUBSET Gaps
    BY <1>10 DEF PreWithoutArrays, Gaps, Unknown
  <2>2. printed' \in Seq(Verdicts) /\ pc' \in {"proved", "done"}
    BY <1>10, ReturnType DEF PreWithoutArrays
  <2> QED
    BY <1>10, <2>1, <2>2 DEF PreWithoutArrays
<1>11. CASE PreWithArrays /\ UNCHANGED at
  BY <1>11, StrengthenType DEF PreWithArrays, Gaps
<1>12. CASE PreIsEmpty /\ UNCHANGED at
  BY <1>12, StrengthenType DEF PreIsEmpty, Gaps
<1>13. CASE Report /\ UNCHANGED at
  <2>1. "SUCCESSFUL" \in Verdicts
    BY DEF Verdicts
  <2>2. printed' \in Seq(Verdicts)
    BY <1>13, <2>1 DEF Report
  <2> QED
    BY <1>13, <2>2 DEF Report
<1>14. CASE Run
  <2>1. at' \in Points
    <3>1. InitialPoints(prog) \subseteq Points
      BY ProgramFields, SizesAssumption DEF InitialPoints, Points
    <3>2. ASSUME NEW x PROVE Successors(prog, x) \subseteq Points
      BY ProgramFields DEF Successors, StepsOf, Exited, Steps, Points
    <3> QED
      BY <1>14, <3>1, <3>2 DEF Run
  <2> QED
    BY <1>14, <2>1 DEF Run, vars
<1> QED
  BY <1>1, <1>2, <1>3, <1>4, <1>5, <1>6, <1>7, <1>8, <1>9, <1>10, <1>11, <1>12,
     <1>13, <1>14 DEF ExecNext, Next

(***************************************************************************)
(* The variables keep their types: the driver never looks at an assertion  *)
(* or a path that does not exist, and never exceeds fixpointBound.         *)
(***************************************************************************)
THEOREM TypeCorrect == ExecSpec => []TypeOK
<1>1. TypeInv => TypeOK
  BY DEF TypeInv
<1> QED
  BY <1>1, TypeInit, TypeStep, PTL DEF ExecSpec

-----------------------------------------------------------------------------
(* The base case covers the contents at N = 1 when every one of them runs. *)
LEMMA BaseCaseCovers ==
  ASSUME NEW P \in ProgramType, NEW p,
         BaseRuns(P) = P.base, ~check_base_case(P, p)
  PROVE  InitialPoints(P) \subseteq p
  BY DEF check_base_case, InitialPoints

(* The hypothesis of the next round is the pre-condition of this one. *)
LEMMA ShiftedBack ==
  ASSUME NEW a, NEW t \in Steps, Entered(t) \in get_post(a)
  PROVE  <<t[1], t[2]>> \in a
<1>1. t[1] \in Sizes /\ t[1] \in Nat
  BY SizesAssumption DEF Steps
<1>2. Entered(t)[1] + 1 = t[1] /\ Entered(t)[2] = t[2]
  BY <1>1 DEF Entered
<1> QED
  BY <1>1, <1>2 DEF get_post

(* A path that flatten_path erases has no step to an N above 1. *)
LEMMA ErasedIsClosed ==
  ASSUME NEW P \in ProgramType, NEW inv,
         NEW i \in DOMAIN P.paths, i \notin flatten_path(P)
  PROVE  ClosedUnder(inv, P.paths[i])
  BY DEF flatten_path, ClosedUnder

(* What every path preserves, every execution preserves. *)
LEMMA ClosedForRuns ==
  ASSUME NEW P \in ProgramType, NEW inv, NEW x \in inv,
         \A i \in DOMAIN P.paths : ClosedUnder(inv, P.paths[i])
  PROVE  Successors(P, x) \subseteq inv
  BY DEF Successors, StepsOf, ClosedUnder

LEMMA SoundInit == ExecInit => SoundInv
<1> SUFFICES ASSUME ExecInit PROVE SoundInv
  OBVIOUS
<1>1. ~Says("SUCCESSFUL")
  BY DEF ExecInit, Init, Says
<1> QED
  BY <1>1 DEF ExecInit, Init, SoundInv, NoGapInv, RunInv, InSpec, InPath

(* Nothing is printed by a return that prints another verdict. *)
LEMMA OtherVerdict ==
  ASSUME printed = <<>>, NEW vs \in {<<>>, <<"FAILED">>, <<"UNKNOWN">>},
         NEW r, Return(r, vs)
  PROVE  ~Says("SUCCESSFUL")'
<1>1. printed' = vs
  BY DEF Return
<1> QED
  BY <1>1 DEF Says

(***************************************************************************)
(* A successful strengthening keeps ChainInv: the post joins the chain,    *)
(* and a step from both and from the new post re-enters the old post       *)
(* because the pre-condition is sufficient for it.                         *)
(***************************************************************************)
LEMMA StrengthenKeepsChain ==
  ASSUME TypeInv, NoGapInv, InPath, NEW a, NEW gap,
         Strengthen(a, gap), gaps' = {}, pc' = "induct",
         Sufficient(a, post, Body), UNCHANGED prog
  PROVE  ChainInv'
<1> USE DEF TypeInv, TypeOK
<1>1. ChainInv /\ k \in DOMAIN prog.specs /\ BaseRuns(prog) = prog.base
  BY DEF NoGapInv, InPath, InSpec
<1>2. /\ post' = get_post(a) /\ chain' = chain \cap post
      /\ UNCHANGED <<k, todo, cur, cert>>
      /\ flatten_path(prog) = {cur}
      /\ ~check_base_case(prog, get_post(a))
  BY DEF Strengthen, Return, Unknown, check_sat
<1>3. InitialPoints(prog) \subseteq get_post(a)
  BY <1>1, <1>2, BaseCaseCovers
<1>4. Body \in SUBSET Steps
  BY <1>1, ProgramFields DEF Body, WithinPaths, ChainInv
<1>5. ASSUME NEW t \in Body, t[1] > 1, Entered(t) \in chain \cap post \cap get_post(a)
      PROVE  Exited(t) \in chain \cap post
  <2>1. Exited(t) \in chain
    BY <1>1, <1>5 DEF ChainInv
  <2>2. <<t[1], t[2]>> \in a
    BY <1>4, <1>5, ShiftedBack
  <2>3. Exited(t) \in post
    BY <1>5, <2>2 DEF Sufficient, get_hyp
  <2> QED
    BY <2>1, <2>3
<1>6. Body' = Body /\ Spec_' = Spec_ /\ InitialPoints(prog)' = InitialPoints(prog)
      /\ flatten_path(prog)' = flatten_path(prog)
  BY <1>2 DEF Body, Spec_
<1> QED
  BY <1>1, <1>2, <1>3, <1>5, <1>6 DEF ChainInv

(***************************************************************************)
(* One lemma per action that opens, advances or closes a path.             *)
(***************************************************************************)
LEMMA BaseCaseSound ==
  ASSUME TypeInv, TypeInv', SoundInv, gaps' = {}, BaseCase
  PROVE  NoGapInv'
<1> USE DEF TypeInv, TypeOK
<1>1. gaps = {} /\ NoGapInv /\ printed = <<>> /\ UNCHANGED <<prog, k>>
  BY DEF BaseCase, SoundInv
<1>2. BaseRuns(prog) = prog.base /\ k \in DOMAIN prog.specs
  <2>1. BaseRuns(prog) = prog.base
    BY DEF BaseCase
  <2>2. k \in 1..(Len(prog.specs) + 1) /\ k <= Len(prog.specs)
    BY DEF BaseCase
  <2>3. Len(prog.specs) \in Nat /\ DOMAIN prog.specs = 1..Len(prog.specs)
    BY ProgramFields
  <2>4. k \in DOMAIN prog.specs
    BY <2>2, <2>3
  <2> QED
    BY <2>1, <2>4
<1>3. \A j \in 1..(k - 1) : Established(j, DOMAIN prog.paths)'
  <2>1. \A j \in 1..(k - 1) : j \in DOMAIN prog.specs /\ cert'[j] = cert[j]
    BY <1>2, ProgramFields DEF BaseCase
  <2> QED
    BY <1>1, <2>1 DEF NoGapInv, Established, InitialPoints, ClosedUnder
<1>4. CASE pc' = "done"
  BY <1>1, <1>3, <1>4, OtherVerdict
     DEF BaseCase, NoGapInv, InSpec, InPath, Return, Says
<1>5. CASE pc' # "done"
  <2>1. /\ pc' \in {"exists", "paths"} /\ printed' = <<>>
        /\ ~check_base_case(prog, Spec_.holds)
        /\ todo' = flatten_path(prog)
        /\ cert'[k] = Spec_.holds
    <3>1. PICK sat \in check_sat(check_base_case(prog, Spec_.holds)),
               paths \in Kept(flatten_path(prog)) :
            /\ IF sat THEN Return(FALSE, <<"FAILED">>)
               ELSE IF Unsupported THEN Return(FALSE, <<"UNKNOWN">>)
               ELSE /\ pc' = IF Spec_.exists THEN "exists" ELSE "paths"
                    /\ UNCHANGED printed
            /\ todo' = paths
            /\ gaps' = gaps \cup Unknown(sat, check_base_case(prog, Spec_.holds))
                            \cup Unknown(paths, flatten_path(prog))
                            \cup IF BaseRuns(prog) = prog.base THEN {} ELSE {"cutBase"}
      BY Zenon DEF BaseCase
    <3>2. ~sat /\ pc' \in {"exists", "paths"} /\ printed' = <<>>
      BY <1>1, <1>5, <3>1 DEF Return
    <3>3. sat = check_base_case(prog, Spec_.holds) /\ paths = flatten_path(prog)
      <4>1. /\ Unknown(sat, check_base_case(prog, Spec_.holds)) = {}
            /\ Unknown(paths, flatten_path(prog)) = {}
        BY <3>1
      <4> QED
        BY <4>1 DEF Unknown
    <3>4. cert'[k] = Spec_.holds
      BY <1>2 DEF BaseCase
    <3> QED
      BY <3>1, <3>2, <3>3, <3>4
  <2>2. InitialPoints(prog) \subseteq Spec_.holds
    BY <1>2, <2>1, BaseCaseCovers
  <2>3. Established(k, flatten_path(prog) \ todo)'
    BY <1>1, <2>1, <2>2 DEF Established, Spec_, InitialPoints, flatten_path
  <2>4. BaseRuns(prog)' = prog'.base /\ Spec_' = Spec_
    BY <1>1, <1>2 DEF BaseRuns, Spec_, Successors, StepsOf
  <2>5. todo' \subseteq flatten_path(prog)'
    BY <1>1, <2>1 DEF flatten_path
  <2>6. ~Says("SUCCESSFUL")'
    BY <2>1 DEF Says
  <2> QED
    BY <1>1, <1>2, <1>3, <2>1, <2>3, <2>4, <2>5, <2>6 DEF NoGapInv, InSpec, InPath
<1> QED
  BY <1>4, <1>5

LEMMA NextPathSound ==
  ASSUME TypeInv, TypeInv', SoundInv, gaps' = {}, NextPath
  PROVE  NoGapInv'
<1> USE DEF TypeInv, TypeOK
<1>1. /\ gaps = {} /\ NoGapInv /\ printed = <<>>
      /\ UNCHANGED <<prog, k, todo, printed, cert>>
      /\ pc' = "induct" /\ post' = Spec_.holds /\ chain' = Points
      /\ cur' \in todo /\ todo # {} /\ InSpec
  BY DEF NextPath, SoundInv, InSpec
<1>2. k \in DOMAIN prog.specs /\ cert[k] = Spec_.holds /\ Spec_.holds \in SUBSET Points
  BY <1>1, ProgramFields DEF NoGapInv, Spec_
<1>3. Spec_' = Spec_ /\ InitialPoints(prog)' = InitialPoints(prog)
      /\ flatten_path(prog)' = flatten_path(prog)
  BY <1>1 DEF Spec_
<1>4. InitialPoints(prog) \subseteq Spec_.holds
  BY <1>1, <1>2 DEF NoGapInv, Established
<1>5. ASSUME NEW t \in Body' PROVE Exited(t) \in Points
  BY <1>1, <1>5, ProgramFields DEF Body, Exited, Steps, Points
<1>6. ChainInv'
  BY <1>1, <1>2, <1>3, <1>4, <1>5 DEF ChainInv
<1>7. ~Says("SUCCESSFUL")'
  BY <1>1 DEF Says
<1>8. (BaseRuns(prog) = prog.base)' /\ Established(k, flatten_path(prog) \ todo)'
  BY <1>1 DEF NoGapInv, Established, Spec_
<1>9. \A j \in 1..(k - 1) : Established(j, DOMAIN prog.paths)'
  BY <1>1 DEF NoGapInv, Established
<1> QED
  BY <1>1, <1>2, <1>3, <1>6, <1>7, <1>8, <1>9 DEF NoGapInv, InSpec, InPath

LEMMA NextSpecSound ==
  ASSUME TypeInv, TypeInv', SoundInv, gaps' = {}, NextSpec
  PROVE  NoGapInv'
<1> USE DEF TypeInv, TypeOK
<1>1. /\ gaps = {} /\ NoGapInv /\ printed = <<>> /\ todo = {} /\ InSpec
      /\ UNCHANGED <<prog, todo, printed, cert>> /\ k' = k + 1 /\ pc' = "spec"
  BY DEF NextSpec, SoundInv, InSpec, ghosts
<1>2. Established(k, DOMAIN prog.paths)
  BY <1>1, ErasedIsClosed DEF NoGapInv, Established
<1>3. k \in Nat /\ 1..(k' - 1) = 1..(k - 1) \cup {k}
  BY <1>1
<1>4. \A j \in 1..(k' - 1) : Established(j, DOMAIN prog.paths)
  BY <1>1, <1>2, <1>3 DEF NoGapInv
<1>5. ~Says("SUCCESSFUL")'
  BY <1>1 DEF Says
<1> QED
  BY <1>1, <1>4, <1>5 DEF NoGapInv, InSpec, InPath, Established

LEMMA InductiveStepSound ==
  ASSUME TypeInv, TypeInv', SoundInv, gaps' = {}, InductiveStep
  PROVE  NoGapInv'
<1> USE DEF TypeInv, TypeOK
<1>1. /\ gaps = {} /\ NoGapInv /\ printed = <<>> /\ ChainInv
      /\ k \in DOMAIN prog.specs
      /\ UNCHANGED <<prog, k, cur, post, printed, chain>>
  BY DEF InductiveStep, SoundInv, NoGapInv, InSpec, InPath
<1>2. /\ Spec_' = Spec_ /\ Body' = Body
      /\ flatten_path(prog)' = flatten_path(prog)
      /\ InitialPoints(prog)' = InitialPoints(prog)
  BY <1>1 DEF Spec_, Body
<1>3. ~Says("SUCCESSFUL")'
  BY <1>1 DEF Says
<1>4. CASE Refuted(post, Body)
  <2>1. pc' = "strengthen" /\ UNCHANGED <<todo, cert>>
    BY <1>4 DEF InductiveStep, Unknown, check_sat
  <2>2. ChainInv'
    BY <1>1, <1>2, <2>1 DEF ChainInv
  <2> QED
    BY <1>1, <1>2, <1>3, <2>1, <2>2
       DEF InductiveStep, NoGapInv, InSpec, InPath, Established
<1>5. CASE ~Refuted(post, Body)
  <2>1. /\ pc' = "paths" /\ todo' = todo \ {cur}
        /\ cert' = [cert EXCEPT ![k] = @ \cap chain \cap post]
    BY <1>5 DEF InductiveStep, check_sat, PathVerified
  <2>2. /\ todo \subseteq flatten_path(prog)
        /\ Established(k, flatten_path(prog) \ todo)
        /\ cert[k] = Spec_.holds
        /\ BaseRuns(prog) = prog.base
    BY <1>1 DEF InductiveStep, NoGapInv, InSpec, ChainInv
  <2>3. cert'[k] = Spec_.holds \cap chain \cap post /\ cert'[k] = chain \cap post
    BY <1>1, <2>1, <2>2 DEF ChainInv
  <2>4. ClosedUnder(chain \cap post, Body)
    BY <1>1, <1>5 DEF ChainInv, ClosedUnder, Refuted, get_hyp
  <2>5. ASSUME NEW i \in flatten_path(prog) \ todo'
        PROVE  ClosedUnder(cert'[k], prog.paths[i])
    <3>1. CASE i = cur
      BY <2>3, <2>4, <3>1 DEF Body
    <3>2. CASE i # cur
      <4>1. i \in flatten_path(prog) \ todo
        BY <2>1, <3>2
      <4>2. chain = Points /\ post = Spec_.holds
        BY <1>1, <2>5, <3>2 DEF ChainInv
      <4>3. cert'[k] = cert[k]
        BY <1>1, <2>2, <2>3, <4>2, ProgramFields DEF Spec_
      <4> QED
        BY <2>2, <4>1, <4>3 DEF Established
    <3> QED
      BY <3>1, <3>2
  <2>6. Established(k, flatten_path(prog) \ todo)'
    BY <1>1, <1>2, <2>3, <2>5 DEF Established, ChainInv, Spec_
  <2>7. cert'[k] = Spec_.holds \/ todo' = {}
    <3>1. CASE flatten_path(prog) = {cur}
      BY <2>1, <2>2, <3>1
    <3>2. CASE chain = Points /\ post = Spec_.holds
      BY <2>3, <3>2, <1>1, ProgramFields DEF Spec_
    <3> QED
      BY <1>1, <3>1, <3>2 DEF ChainInv
  <2>8. \A j \in 1..(k - 1) : Established(j, DOMAIN prog.paths)'
    <3>1. \A j \in 1..(k - 1) : cert'[j] = cert[j]
      BY <1>1, <2>1, ProgramFields
    <3> QED
      BY <1>1, <3>1 DEF NoGapInv, Established
  <2> QED
    BY <1>1, <1>2, <1>3, <2>1, <2>2, <2>6, <2>7, <2>8 DEF NoGapInv, InSpec, InPath
<1> QED
  BY <1>4, <1>5

LEMMA PreWithArraysSound ==
  ASSUME TypeInv, TypeInv', SoundInv, gaps' = {}, PreWithArrays
  PROVE  NoGapInv'
<1> USE DEF TypeInv, TypeOK
<1>1. PICK lost \in Lost :
        LET a == compute_pre(post, Body) \cup lost IN
        Strengthen(a, IF Sufficient(a, post, Body) THEN {} ELSE {"weakPre"})
  BY DEF PreWithArrays
<1> DEFINE a == compute_pre(post, Body) \cup lost
           gap == IF Sufficient(a, post, Body) THEN {} ELSE {"weakPre"}
<1>2. Strengthen(a, gap)
  BY <1>1
<1> HIDE DEF a
<1>3. gaps = {} /\ Sufficient(a, post, Body)
  BY <1>2 DEF Strengthen
<1> HIDE DEF gap
<1>4. /\ NoGapInv /\ printed = <<>> /\ UNCHANGED <<prog, k, todo, cert>> /\ InPath /\ InSpec
  BY <1>2, <1>3 DEF PreWithArrays, Strengthen, SoundInv, InPath, InSpec
<1>5. \A j \in 1..(k - 1) : Established(j, DOMAIN prog.paths)'
  BY <1>4 DEF NoGapInv, Established
<1>6. CASE pc' = "induct"
  <2>1. ChainInv'
    BY <1>2, <1>3, <1>4, <1>6, StrengthenKeepsChain
  <2>2. printed' = <<>>
    BY <1>2, <1>4, <1>6 DEF Strengthen, Return
  <2>3. ~Says("SUCCESSFUL")'
    BY <2>2 DEF Says
  <2>4. Spec_' = Spec_
    BY <1>4 DEF Spec_
  <2> QED
    BY <1>4, <1>5, <1>6, <2>1, <2>3, <2>4 DEF NoGapInv, InSpec, InPath, Established
<1>7. CASE pc' # "induct"
  <2>1. Return(FALSE, <<"FAILED">>)
    BY <1>2, <1>7 DEF Strengthen
  <2>2. ~Says("SUCCESSFUL")' /\ pc' = "done"
    BY <1>4, <2>1, OtherVerdict DEF Return
  <2> QED
    BY <1>5, <2>2, <1>4 DEF NoGapInv, InSpec, InPath
<1> QED
  BY <1>6, <1>7

(***************************************************************************)
(* The runs: what was established of the program holds all along them.     *)
(***************************************************************************)
LEMMA RunSound ==
  ASSUME TypeInv, SoundInv, Run PROVE SoundInv'
<1> USE DEF TypeInv, TypeOK
<1>1. pc = "done" /\ UNCHANGED vars
  BY DEF Run
<1>2. /\ UNCHANGED <<prog, pc, k, todo, cur, post, iter, printed, chain, cert, gaps>>
  BY <1>1 DEF vars, driver, ghosts
<1>3. ASSUME gaps = {}, Says("SUCCESSFUL"), NEW j \in DOMAIN prog.specs
      PROVE  at' \in cert[j]
  <2>1. Established(j, DOMAIN prog.paths)
    <3>1. NoGapInv /\ k = Len(prog.specs) + 1
      BY <1>3 DEF SoundInv, NoGapInv
    <3>2. j \in 1..(k - 1)
      BY <1>3, <3>1, ProgramFields
    <3> QED
      BY <3>1, <3>2 DEF NoGapInv
  <2>2. CASE at = NotRun
    BY <2>1, <2>2 DEF Run, Established
  <2>3. CASE at # NotRun
    <3>1. at \in cert[j]
      BY <1>3, <2>3 DEF SoundInv, RunInv
    <3> QED
      BY <2>1, <2>3, <3>1, ClosedForRuns DEF Run, Established
  <2> QED
    BY <2>2, <2>3
<1>4. NoGapInv' <=> NoGapInv
  BY <1>2 DEF NoGapInv, Established, InSpec, InPath, ChainInv, Says, ClosedUnder,
              Body, Spec_, BaseRuns, InitialPoints, flatten_path, Successors, StepsOf
<1>5. RunInv'
  BY <1>1, <1>2, <1>3 DEF RunInv, Says
<1> QED
  BY <1>1, <1>2, <1>4, <1>5 DEF SoundInv

(***************************************************************************)
(* Without a gap, the driver's other actions leave what they do not touch. *)
(***************************************************************************)
LEMMA DriverSound ==
  ASSUME TypeInv, TypeInv', SoundInv, Next, gaps' = {} PROVE NoGapInv'
<1> USE DEF TypeInv, TypeOK, driver, ghosts
<1>1. CASE BaseCase
  BY <1>1, BaseCaseSound
<1>2. CASE AllVerified
  <2>1. k = Len(prog.specs) + 1
    BY <1>2, ProgramFields DEF AllVerified
  <2> QED
    BY <1>2, <2>1
       DEF AllVerified, SoundInv, NoGapInv, Established, InSpec, InPath, Return
<1>3. CASE ExistsCase
  BY <1>3 DEF ExistsCase
<1>4. CASE NextPath
  BY <1>4, NextPathSound
<1>5. CASE NextSpec
  BY <1>5, NextSpecSound
<1>6. CASE InductiveStep
  BY <1>6, InductiveStepSound
<1>7. CASE GiveUp
  <2>1. ~Says("SUCCESSFUL")' /\ pc' = "done"
    BY <1>7, OtherVerdict DEF GiveUp, SoundInv, Return
  <2> QED
    BY <1>7, <2>1 DEF GiveUp, SoundInv, NoGapInv, Established, InSpec, InPath
<1>8. CASE PreIsFalse
  BY <1>8 DEF PreIsFalse
<1>9. CASE PreWithoutArrays
  <2>1. /\ ~Says("SUCCESSFUL")' /\ pc' = "done"
        /\ gaps = {} /\ UNCHANGED <<prog, k, cert>>
    BY <1>9, OtherVerdict DEF PreWithoutArrays, SoundInv, Return
  <2> QED
    BY <2>1 DEF SoundInv, NoGapInv, Established, InSpec, InPath
<1>10. CASE PreWithArrays
  BY <1>10, PreWithArraysSound
<1>11. CASE PreIsEmpty
  BY <1>11 DEF PreIsEmpty, Strengthen
<1>12. CASE Report
  BY <1>12 DEF Report, SoundInv, NoGapInv, Established, InSpec, InPath
<1> QED
  BY <1>1, <1>2, <1>3, <1>4, <1>5, <1>6, <1>7, <1>8, <1>9, <1>10, <1>11, <1>12 DEF Next

(* Until the driver stops it prints nothing, and the program does not run. *)
LEMMA SilentUntilDone ==
  ASSUME TypeInv, SoundInv, Next
  PROVE  pc # "done" /\ (pc' # "done" => printed' = <<>>)
<1>1. pc # "done"
  BY DEF Next, BaseCase, AllVerified, ExistsCase, NextPath, NextSpec, InductiveStep,
         GiveUp, PreIsFalse, PreWithoutArrays, PreWithArrays, PreIsEmpty, Report
<1>2. printed = <<>>
  BY <1>1 DEF SoundInv
<1>3. ASSUME NEW r, NEW vs \in {<<>>, <<"FAILED">>, <<"UNKNOWN">>}, Return(r, vs), pc' # "done",
             r = FALSE \/ vs = <<>>
      PROVE  printed' = <<>>
  BY <1>2, <1>3 DEF Return
<1>4. ASSUME pc' # "done" PROVE printed' = <<>>
  <2>1. CASE BaseCase
    BY <1>2, <1>4, <2>1 DEF BaseCase, Return
  <2>2. CASE AllVerified
    BY <1>3, <1>4, <2>2 DEF AllVerified
  <2>3. CASE ExistsCase
    BY <1>3, <1>4, <2>3 DEF ExistsCase
  <2>4. CASE NextPath \/ NextSpec \/ InductiveStep \/ PreIsFalse
    BY <1>2, <2>4 DEF NextPath, NextSpec, InductiveStep, PreIsFalse
  <2>5. CASE GiveUp \/ PreWithoutArrays \/ Report
    BY <1>4, <2>5 DEF GiveUp, PreWithoutArrays, Report, Return
  <2>6. CASE PreWithArrays \/ PreIsEmpty
    BY <1>2, <1>4, <2>6 DEF PreWithArrays, PreIsEmpty, Strengthen, Return
  <2> QED
    BY <2>1, <2>2, <2>3, <2>4, <2>5, <2>6 DEF Next
<1> QED
  BY <1>1, <1>4

LEMMA SoundStep ==
  TypeInv /\ TypeInv' /\ SoundInv /\ [ExecNext]_<<vars, at>> => SoundInv'
<1> SUFFICES ASSUME TypeInv, TypeInv', SoundInv, [ExecNext]_<<vars, at>> PROVE SoundInv'
  OBVIOUS
<1>1. CASE Run
  BY <1>1, RunSound
<1>2. CASE Next /\ UNCHANGED at
  <2>1. at' = NotRun
    BY <1>2, SilentUntilDone DEF SoundInv, RunInv
  <2>2. RunInv'
    BY <2>1 DEF RunInv, NotRun
  <2> QED
    BY <1>2, <2>2, DriverSound, SilentUntilDone DEF SoundInv
<1>3. CASE UNCHANGED <<vars, at>>
  BY <1>3 DEF vars, driver, ghosts, SoundInv, RunInv, NoGapInv, Established, InSpec,
              InPath, ChainInv, Says, ClosedUnder, Body, Spec_, BaseRuns,
              InitialPoints, flatten_path, Successors, StepsOf
<1> QED
  BY <1>1, <1>2, <1>3 DEF ExecNext

(***************************************************************************)
(* The invariant of the driver, and its consequence: a verdict SUCCESSFUL  *)
(* reached without a gap is true of every run of the program.              *)
(***************************************************************************)
THEOREM DriverInvariant == ExecSpec => []SoundInv
<1>1. ExecSpec => [](TypeInv /\ SoundInv)
  BY TypeInit, TypeStep, SoundInit, SoundStep, PTL DEF ExecSpec
<1> QED
  BY <1>1, PTL

THEOREM Soundness == ExecSpec => []SuccessIsSound
<1>1. TypeInv /\ SoundInv => SuccessIsSound
  <2> SUFFICES ASSUME TypeInv, SoundInv, at # NotRun, Says("SUCCESSFUL"), gaps = {},
                      NEW j \in DOMAIN prog.specs
               PROVE  at \in prog.specs[j].holds
    BY DEF SuccessIsSound
  <2>1. at \in cert[j]
    BY DEF SoundInv, RunInv
  <2>2. NoGapInv /\ k = Len(prog.specs) + 1
    BY DEF SoundInv, NoGapInv
  <2>3. Established(j, DOMAIN prog.paths)
    BY <2>2, ProgramFields DEF NoGapInv, TypeInv, TypeOK
  <2> QED
    BY <2>1, <2>3 DEF Established
<1>2. ExecSpec => [](TypeInv /\ SoundInv)
  BY TypeInit, TypeStep, SoundInit, SoundStep, PTL DEF ExecSpec
<1> QED
  BY <1>1, <1>2, PTL

-----------------------------------------------------------------------------
(* A program with unsupported code and an assertion is given up at once. *)
GivenUp ==
  prog.unsupported /\ prog.specs # <<>> =>
    /\ pc \in {"spec", "done"} /\ (pc = "spec" => k = 1)
    /\ ~Says("SUCCESSFUL")

(***************************************************************************)
(* Unsupported code is never reported SUCCESSFUL: verify leaves through    *)
(* the first base case, whatever the solver and the base case say.         *)
(***************************************************************************)
THEOREM UnsupportedNeverProved == ExecSpec => []UnsupportedIsNotProved
<1>1. ExecInit => GivenUp
  BY DEF ExecInit, Init, GivenUp, Says
<1>2. TypeInv /\ SoundInv /\ GivenUp /\ [ExecNext]_<<vars, at>> => GivenUp'
  <2> SUFFICES ASSUME TypeInv, SoundInv, GivenUp, [ExecNext]_<<vars, at>>,
                      prog'.unsupported /\ prog'.specs # <<>>
               PROVE  /\ pc' \in {"spec", "done"} /\ (pc' = "spec" => k' = 1)
                      /\ ~Says("SUCCESSFUL")'
    BY DEF GivenUp
  <2>1. prog' = prog
    BY DEF ExecNext, Next, BaseCase, AllVerified, ExistsCase, NextPath, NextSpec,
           InductiveStep, GiveUp, PreIsFalse, PreWithoutArrays, PreWithArrays,
           PreIsEmpty, Report, Run, vars, Strengthen
  <2>2. pc \in {"spec", "done"} /\ (pc = "spec" => k = 1) /\ ~Says("SUCCESSFUL")
    BY <2>1 DEF GivenUp
  <2>3. CASE pc = "spec" /\ Next
    <3>1. ~(k > Len(prog.specs))
      <4>1. Len(prog.specs) \in Nat /\ prog.specs \in Seq(Assertions)
        BY ProgramFields DEF TypeInv, TypeOK
      <4>2. Len(prog.specs) # 0
        BY <2>1, <4>1
      <4> QED
        BY <2>2, <2>3, <4>1, <4>2
    <3>2. BaseCase
      BY <2>3, <3>1 DEF Next, AllVerified, ExistsCase, NextPath, NextSpec,
         InductiveStep, GiveUp, PreIsFalse, PreWithoutArrays, PreWithArrays,
         PreIsEmpty, Report
    <3>3. \E v \in {"FAILED", "UNKNOWN"} : Return(FALSE, <<v>>)
      BY <2>1, <3>2 DEF BaseCase, Unsupported
    <3> QED
      BY <2>3, <3>3, OtherVerdict DEF SoundInv, Return
  <2>4. CASE ~(pc = "spec" /\ Next)
    <3>1. UNCHANGED <<pc, k, printed>>
      BY <2>2, <2>4, SilentUntilDone DEF ExecNext, Run, vars, driver
    <3> QED
      BY <2>2, <3>1 DEF Says
  <2> QED
    BY <2>3, <2>4
<1>3. GivenUp => UnsupportedIsNotProved
  BY DEF GivenUp, UnsupportedIsNotProved
<1> QED
  BY <1>1, <1>2, <1>3, TypeInit, TypeStep, SoundInit, SoundStep, PTL DEF ExecSpec
-----------------------------------------------------------------------------
(***************************************************************************)
(* What a program reaches is the least set with the contents of P_1 that   *)
(* the difference function does not leave.                                 *)
(***************************************************************************)
LEMMA InitialReached ==
  ASSUME NEW P \in ProgramType
  PROVE  InitialPoints(P) \subseteq Reachable(P)
<1> SUFFICES ASSUME NEW d \in P.base PROVE <<1, d>> \in Reachable(P)
  BY DEF InitialPoints
<1> DEFINE run == [m \in 1..1 |-> d]
<1>1. run \in Executions(P, 1)
  BY ProgramFields DEF Executions
<1>2. <<1, d>> = <<1, run[1]>> /\ 1 \in Sizes
  BY SizesAssumption
<1> QED
  BY <1>1, <1>2 DEF Reachable

LEMMA StepFields ==
  ASSUME NEW t \in Steps
  PROVE  t[1] \in Sizes /\ t[1] \in Nat /\ t[3] \in Data /\ t = <<t[1], t[2], t[3]>>
<1>1. t = <<t[1], t[2], t[3]>> /\ t[1] \in Sizes /\ t[3] \in Data
  BY DEF Steps
<1> QED
  BY <1>1, SizesAssumption

LEMMA SuccessorsReached ==
  ASSUME NEW P \in ProgramType, NEW x \in Reachable(P)
  PROVE  Successors(P, x) \subseteq Reachable(P)
<1> SUFFICES ASSUME NEW t \in StepsOf(P), t[1] > 1, Entered(t) = x
             PROVE  Exited(t) \in Reachable(P)
  BY DEF Successors
<1>0. PICK n \in Sizes : \E r \in Executions(P, n) : x = <<n, r[n]>>
  BY DEF Reachable
<1>1. PICK run \in Executions(P, n) : x = <<n, run[n]>>
  BY <1>0
<1>2. t \in Steps /\ n \in Nat /\ n >= 1
  BY ProgramFields, SizesAssumption DEF StepsOf
<1>3. t[1] \in Sizes /\ t[1] \in Nat /\ t[3] \in Data /\ t = <<t[1], t[2], t[3]>>
  BY <1>2, StepFields
<1>4. t[1] = n + 1 /\ t[2] = run[n]
  BY <1>1, <1>2, <1>3 DEF Entered
<1> DEFINE longer == [m \in 1..(n + 1) |-> IF m = n + 1 THEN t[3] ELSE run[m]]
<1>5. longer \in Executions(P, n + 1)
  <2>1. run \in [1..n -> Data] /\ run[1] \in P.base
        /\ \A m \in 2..n : <<m, run[m - 1], run[m]>> \in StepsOf(P)
    BY DEF Executions
  <2>2. longer \in [1..(n + 1) -> Data] /\ longer[1] \in P.base
    BY <1>2, <1>3, <2>1
  <2>3. ASSUME NEW m \in 2..(n + 1)
        PROVE  <<m, longer[m - 1], longer[m]>> \in StepsOf(P)
    <3>1. CASE m = n + 1
      <4>1. longer[m - 1] = t[2] /\ longer[m] = t[3]
        BY <1>2, <1>4, <3>1
      <4> QED
        BY <1>3, <1>4, <3>1, <4>1
    <3>2. CASE m # n + 1
      <4>1. m \in 2..n /\ longer[m - 1] = run[m - 1] /\ longer[m] = run[m]
        BY <1>2, <3>2
      <4> QED
        BY <2>1, <4>1
    <3> QED
      BY <3>1, <3>2
  <2> QED
    BY <2>2, <2>3 DEF Executions
<1>6. Exited(t) = <<n + 1, longer[n + 1]>> /\ n + 1 \in Sizes
  BY <1>2, <1>3, <1>4 DEF Exited
<1>7. \A r \in Executions(P, n + 1) : <<n + 1, r[n + 1]>> \in Reachable(P)
  BY <1>6 DEF Reachable
<1> HIDE DEF longer
<1> QED
  BY <1>5, <1>6, <1>7

LEMMA ReachedWithin ==
  ASSUME NEW P \in ProgramType, NEW inv, InitialPoints(P) \subseteq inv,
         \A i \in DOMAIN P.paths : ClosedUnder(inv, P.paths[i])
  PROVE  Reachable(P) \subseteq inv
<1> SUFFICES ASSUME NEW n \in Sizes, NEW run \in Executions(P, n)
             PROVE  <<n, run[n]>> \in inv
  BY DEF Reachable
<1> DEFINE S == {m \in 1..n : <<m, run[m]>> \in inv}
<1>1. n \in Nat /\ n >= 1
  BY SizesAssumption
<1>2. 1 \in S
  BY <1>1 DEF Executions, InitialPoints
<1>3. ASSUME NEW m \in 1..(n - 1), m \in S PROVE m + 1 \in S
  <2> DEFINE t == <<m + 1, run[m], run[m + 1]>>
  <2>1. m + 1 \in 2..n /\ (m + 1) - 1 = m
    BY <1>1, <1>3
  <2>2. t \in StepsOf(P)
    BY <2>1 DEF Executions
  <2>3. t[1] > 1 /\ Entered(t) = <<m, run[m]>> /\ Exited(t) = <<m + 1, run[m + 1]>>
    BY <2>1 DEF Entered, Exited
  <2>4. Entered(t) \in inv
    BY <1>3, <2>3
  <2>5. Exited(t) \in inv
    BY <2>2, <2>3, <2>4 DEF StepsOf, ClosedUnder
  <2> QED
    BY <1>1, <2>1, <2>3, <2>5
<1>4. 1..n \subseteq S
  <2> HIDE DEF S
  <2> QED
    BY <1>1, <1>2, <1>3, SetInduction
<1> QED
  BY <1>1, <1>4

-----------------------------------------------------------------------------
(* What a return adds to an empty output. *)
LEMMA ReturnPrints ==
  ASSUME printed = <<>>, NEW r, NEW vs \in {<<>>, <<"FAILED">>, <<"UNKNOWN">>}, Return(r, vs)
  PROVE  printed' = vs /\ pc' = IF r THEN "proved" ELSE "done"
BY DEF Return

(* The last step of the driver prints its verdict, or refutes an existential. *)
LEMMA Answers ==
  ASSUME TypeInv, SoundInv, Next, pc' = "done"
  PROVE  \/ printed' = <<"SUCCESSFUL">> /\ Report
         \/ printed' \in {<<"FAILED">>, <<"UNKNOWN">>}
         \/ printed' = <<>> /\ "existsWitness" \in gaps'
<1>1. printed = <<>>
  BY SilentUntilDone DEF SoundInv
<1>2. CASE BaseCase
  BY <1>1, <1>2, ReturnPrints DEF BaseCase
<1>3. CASE AllVerified
  BY <1>1, <1>3, ReturnPrints DEF AllVerified
<1>4. CASE ExistsCase
  BY <1>1, <1>4, ReturnPrints DEF ExistsCase
<1>5. CASE NextPath \/ NextSpec \/ InductiveStep \/ PreIsFalse
  BY <1>5 DEF NextPath, NextSpec, InductiveStep, PreIsFalse, PathVerified
<1>6. CASE GiveUp
  BY <1>1, <1>6, ReturnPrints DEF GiveUp
<1>7. CASE PreWithoutArrays
  BY <1>1, <1>7, ReturnPrints DEF PreWithoutArrays
<1>8. CASE PreWithArrays \/ PreIsEmpty
  <2>1. PICK a, g : Strengthen(a, g)
    BY <1>8 DEF PreWithArrays, PreIsEmpty
  <2> QED
    BY <1>1, <2>1, ReturnPrints DEF Strengthen
<1>9. CASE Report
  BY <1>1, <1>9 DEF Report
<1> QED
  BY <1>2, <1>3, <1>4, <1>5, <1>6, <1>7, <1>8, <1>9 DEF Next

(***************************************************************************)
(* One verdict: it is the last thing the driver does, and the only return  *)
(* that prints none is the one for an existential.                         *)
(***************************************************************************)
THEOREM VerdictIsOne == ExecSpec => []OneVerdict
<1>1. ExecInit => OneVerdict
  BY DEF ExecInit, Init, OneVerdict
<1>2. TypeInv /\ SoundInv /\ OneVerdict /\ [ExecNext]_<<vars, at>> => OneVerdict'
  <2> SUFFICES ASSUME TypeInv, SoundInv, OneVerdict, [ExecNext]_<<vars, at>>
               PROVE  OneVerdict'
    OBVIOUS
  <2>1. CASE UNCHANGED vars
    BY <2>1 DEF vars, driver, ghosts, OneVerdict
  <2>2. CASE Next /\ pc' # "done"
    BY <2>2, SilentUntilDone DEF OneVerdict
  <2>3. CASE Next /\ pc' = "done"
    <3>1. \/ \E v \in Verdicts : printed' = <<v>>
          \/ printed' = <<>> /\ "existsWitness" \in gaps'
      BY <2>3, Answers DEF Verdicts
    <3>2. ASSUME NEW v, printed' = <<v>> PROVE OneVerdict'
      BY <3>2 DEF OneVerdict
    <3>3. CASE printed' = <<>> /\ "existsWitness" \in gaps'
      BY <3>3 DEF OneVerdict
    <3> QED
      BY <3>1, <3>2, <3>3
  <2> QED
    BY <2>1, <2>2, <2>3 DEF ExecNext, Run
<1> QED
  BY <1>1, <1>2, TypeInit, TypeStep, SoundInit, SoundStep, PTL DEF ExecSpec

-----------------------------------------------------------------------------
(* A program of one path has no other path. *)
LEMMA OnlyPath ==
  ASSUME NEW P \in ProgramType, Cardinality(flatten_path(P)) <= 1,
         NEW i \in flatten_path(P), NEW j \in flatten_path(P)
  PROVE  i = j
<1> DEFINE F == flatten_path(P)
<1>1. DOMAIN P.paths = 1..Len(P.paths) /\ Len(P.paths) \in Nat
  BY ProgramFields
<1>2. IsFiniteSet(F)
  <2>1. IsFiniteSet(1..Len(P.paths))
    BY <1>1, FS_Interval
  <2>2. F \in SUBSET (1..Len(P.paths))
    BY <1>1, FlattenType
  <2> HIDE DEF F
  <2> QED
    BY <2>1, <2>2, FS_Subset
<1>3. Cardinality(F) = 1
  <2> HIDE DEF F
  <2>1. Cardinality(F) \in Nat
    BY <1>2, FS_CardinalityType
  <2>2. Cardinality(F) # 0
    BY <1>2, FS_EmptySet DEF F
  <2> QED
    BY <2>1, <2>2 DEF F
<1>4. PICK x : F = {x}
  <2> HIDE DEF F
  <2> QED
    BY <1>2, <1>3, FS_Singleton
<1> QED
  BY <1>4

LEMMA ReachedPoints ==
  ASSUME NEW P \in ProgramType, NEW x \in Reachable(P)
  PROVE  x \in Points /\ x = <<x[1], x[2]>> /\ x[1] \in Sizes /\ x[1] \in Nat
<1>1. PICK n \in Sizes : \E r \in Executions(P, n) : x = <<n, r[n]>>
  BY DEF Reachable
<1>2. PICK r \in Executions(P, n) : x = <<n, r[n]>>
  BY <1>1
<1>3. r[n] \in Data /\ n \in Nat
  BY SizesAssumption DEF Executions
<1> QED
  BY <1>2, <1>3 DEF Points

(* A program of one path goes on from what it has reached, by that path. *)
LEMMA PathGoesOn ==
  ASSUME NEW P \in ProgramType, Total(P), Cardinality(flatten_path(P)) <= 1,
         NEW i \in flatten_path(P), NEW x \in Reachable(P), x[1] + 1 \in Sizes
  PROVE  \E t \in P.paths[i] :
           Entered(t) = x /\ Exited(t) \in Reachable(P) /\ <<t[1], t[2]>> = <<x[1] + 1, x[2]>>
<1>1. PICK t \in StepsOf(P) : t[1] > 1 /\ Entered(t) = x
  BY DEF Total, Successors
<1>2. Exited(t) \in Reachable(P)
  BY <1>1, SuccessorsReached DEF Successors
<1>3. PICK j \in DOMAIN P.paths : t \in P.paths[j]
  BY DEF StepsOf
<1>4. j \in flatten_path(P)
  BY <1>1, <1>3 DEF flatten_path
<1>5. j = i
  BY <1>4, OnlyPath
<1>6. t[1] \in Nat
  BY ProgramFields, StepFields DEF StepsOf
<1>7. t[1] - 1 = x[1] /\ t[2] = x[2]
  BY <1>1 DEF Entered
<1> QED
  BY <1>1, <1>2, <1>3, <1>5, <1>6, <1>7

(* A post that holds of all it reaches is replaced by one that does. *)
LEMMA ShiftedHolds ==
  ASSUME NEW P \in ProgramType, Total(P), Cardinality(flatten_path(P)) <= 1,
         NEW i \in flatten_path(P), NEW p, Reachable(P) \subseteq p,
         NEW a, compute_pre(p, P.paths[i]) \subseteq a
  PROVE  Reachable(P) \subseteq get_post(a)
<1> SUFFICES ASSUME NEW x \in Reachable(P), x[1] + 1 \in Sizes
             PROVE  <<x[1] + 1, x[2]>> \in a
  BY ReachedPoints DEF get_post
<1>1. PICK t \in P.paths[i] :
        Entered(t) = x /\ Exited(t) \in Reachable(P) /\ <<t[1], t[2]>> = <<x[1] + 1, x[2]>>
  BY PathGoesOn
<1>2. <<t[1], t[2]>> \in compute_pre(p, P.paths[i])
  BY <1>1 DEF compute_pre, get_hyp
<1> QED
  BY <1>1, <1>2

(* Its pre-condition is not empty: the first contents are in it. *)
LEMMA PreNotEmpty ==
  ASSUME NEW P \in ProgramType, Total(P), Cardinality(flatten_path(P)) <= 1,
         NEW i \in flatten_path(P), NEW p, Reachable(P) \subseteq p
  PROVE  compute_pre(p, P.paths[i]) # {}
<1>1. PICK d \in P.base : TRUE
  BY DEF Total
<1>2. <<1, d>> \in Reachable(P)
  BY InitialReached DEF InitialPoints
<1>3. 2 \in Sizes
  <2>1. PICK t \in P.paths[i] : t[1] > 1
    BY DEF flatten_path
  <2>2. t[1] \in Sizes /\ t[1] \in Nat
    BY <2>1, ProgramFields, StepFields DEF flatten_path
  <2>3. 2 \in 1..t[1]
    BY <2>1, <2>2
  <2> QED
    BY <2>2, <2>3, SizesAssumption
<1> DEFINE x == <<1, d>>
<1>4. x[1] + 1 \in Sizes
  BY <1>3
<1>5. PICK t \in P.paths[i] : Entered(t) = x /\ Exited(t) \in Reachable(P)
  <2> HIDE DEF x
  <2> QED
    BY <1>2, <1>4, PathGoesOn DEF x
<1> QED
  BY <1>2, <1>5 DEF compute_pre, get_hyp

(* A base case the solver refutes refutes an assertion that holds of all the base. *)
LEMMA BaseCaseRefutes ==
  ASSUME NEW P \in ProgramType, NEW p, check_base_case(P, p)
  PROVE  ~ Reachable(P) \subseteq p
BY InitialReached DEF check_base_case, BaseRuns, InitialPoints

LEMMA GapsStay == Next => gaps \subseteq gaps' /\ prog' = prog
BY DEF Next, BaseCase, AllVerified, ExistsCase, NextPath, NextSpec, InductiveStep, GiveUp,
       PreIsFalse, PreWithoutArrays, PreWithArrays, PreIsEmpty, Report, Strengthen, ghosts

(* The new post of a strengthening, and its base case. *)
LEMMA StrengthenFails ==
  ASSUME TypeInv, SoundInv, FailureInv, pc = "strengthen", NEW a, NEW gap,
         Strengthen(a, gap), OneTotalPath', Valid(prog),
         compute_pre(post, Body) \subseteq a
  PROVE  Reachable(prog) \subseteq post' /\ ~Says("FAILED")'
<1> USE DEF TypeInv, TypeOK
<1>1. UNCHANGED prog /\ gaps \subseteq gaps'
  BY DEF Strengthen
<1>2. OneTotalPath
  BY <1>1 DEF OneTotalPath
<1>3. Reachable(prog) \subseteq post
  BY <1>2 DEF FailureInv
<1>4. cur \in flatten_path(prog)
  BY DEF FailureInv, WithinPaths
<1>5. Reachable(prog) \subseteq get_post(a)
  BY <1>2, <1>3, <1>4, ShiftedHolds DEF OneTotalPath, Body
<1>6. ~check_base_case(prog, get_post(a))
  BY <1>5, BaseCaseRefutes
<1>7. printed' = <<>>
  BY <1>6 DEF Strengthen, check_sat, SoundInv
<1> QED
  BY <1>5, <1>7 DEF Strengthen, Says

LEMMA FailureStep ==
  ASSUME TypeInv, TypeInv', SoundInv, FailureInv, Next PROVE FailureInv'
<1> USE DEF TypeInv, TypeOK
<1>1. UNCHANGED prog /\ gaps \subseteq gaps' /\ printed = <<>>
  BY GapsStay, SilentUntilDone DEF SoundInv
<1>2. ASSUME OneTotalPath' PROVE OneTotalPath
  BY <1>1, <1>2 DEF OneTotalPath
<1>3. /\ flatten_path(prog)' = flatten_path(prog)
      /\ Reachable(prog)' = Reachable(prog)
      /\ Valid(prog)' <=> Valid(prog)
  BY <1>1
<1>4. ASSUME printed' = <<>> PROVE FailureIsReal'
  BY <1>4 DEF FailureIsReal, Says
<1>5. ASSUME NEW v, v # "FAILED", printed' = <<v>> PROVE FailureIsReal'
  BY <1>5 DEF FailureIsReal, Says
<1>6. CASE BaseCase
  <2>1. todo' \subseteq flatten_path(prog)' /\ pc' \in {"exists", "paths", "proved", "done"}
    BY <1>3, <1>6, KeptOf DEF BaseCase, Return
  <2>2. FailureIsReal'
    <3>1. CASE check_base_case(prog, Spec_.holds)
      <4>1. ~ Reachable(prog) \subseteq Spec_.holds
        BY <3>1, BaseCaseRefutes
      <4>2. k \in DOMAIN prog.specs
        BY <1>6, ProgramFields DEF BaseCase
      <4> QED
        BY <1>3, <4>1, <4>2 DEF FailureIsReal, Valid, Spec_
    <3>2. CASE ~check_base_case(prog, Spec_.holds)
      <4>1. printed' \in {<<>>, <<"UNKNOWN">>}
        BY <1>1, <1>6, <3>2, ReturnPrints DEF BaseCase, check_sat
      <4> QED
        BY <1>4, <1>5, <4>1
    <3> QED
      BY <3>1, <3>2
  <2> QED
    BY <2>1, <2>2 DEF FailureInv
<1>7. CASE AllVerified \/ ExistsCase
  <2>1. printed' = <<>> /\ pc' \in {"proved", "done"}
    BY <1>1, <1>7, ReturnPrints DEF AllVerified, ExistsCase
  <2> QED
    BY <1>4, <2>1 DEF FailureInv
<1>8. CASE NextPath
  <2>1. /\ pc = "paths" /\ pc' = "induct" /\ UNCHANGED <<todo, printed, k>>
        /\ post' = Spec_.holds
    BY <1>8 DEF NextPath
  <2>2. Valid(prog) => Reachable(prog) \subseteq post'
    BY <2>1 DEF Valid, Spec_, WithinSpecs
  <2> QED
    BY <1>1, <1>3, <1>4, <2>1, <2>2 DEF FailureInv
<1>9. CASE NextSpec \/ PreIsFalse \/ GiveUp \/ Report
  <2>1. /\ pc' \in {"spec", "paths", "proved", "done"}
        /\ pc' = "paths" => pc = "strengthen" /\ todo' \subseteq todo
    BY <1>9 DEF NextSpec, PreIsFalse, PathVerified, GiveUp, Return, Report
  <2>2. printed' = <<>> \/ \E v : v # "FAILED" /\ printed' = <<v>>
    <3>1. CASE NextSpec \/ PreIsFalse
      BY <1>1, <3>1 DEF NextSpec, PreIsFalse
    <3>2. CASE GiveUp
      BY <1>1, <3>2, ReturnPrints DEF GiveUp
    <3>3. CASE Report
      BY <1>1, <3>3 DEF Report
    <3> QED
      BY <1>9, <3>1, <3>2, <3>3
  <2> QED
    BY <1>3, <1>4, <1>5, <2>1, <2>2 DEF FailureInv
<1>10. CASE InductiveStep
  <2>1. pc = "induct" /\ pc' \in {"paths", "strengthen"} /\ todo' \subseteq todo
        /\ UNCHANGED <<post, printed>>
    BY <1>10 DEF InductiveStep, PathVerified
  <2> QED
    BY <1>1, <1>2, <1>3, <1>4, <2>1 DEF FailureInv
<1>11. CASE PreWithoutArrays
  <2>1. pc = "strengthen" /\ pc' = "done"
    BY <1>11 DEF PreWithoutArrays, Return
  <2>2. ASSUME OneTotalPath', Valid(prog) PROVE printed' = <<"UNKNOWN">>
    <3>1. Reachable(prog) \subseteq post /\ cur \in flatten_path(prog)
      BY <1>2, <2>1, <2>2 DEF FailureInv, WithinPaths
    <3>2. compute_pre(post, Body) # {}
      BY <1>2, <2>2, <3>1, PreNotEmpty DEF OneTotalPath, Body
    <3>3. "unknown" \notin gaps'
      BY <2>2 DEF OneTotalPath
    <3> QED
      BY <1>1, <1>11, <3>2, <3>3, ReturnPrints DEF PreWithoutArrays, check_sat, Unknown
  <2>3. FailureIsReal'
    BY <1>3, <2>2 DEF FailureIsReal, Says
  <2> QED
    BY <2>1, <2>3 DEF FailureInv
<1>12. CASE PreWithArrays \/ PreIsEmpty
  <2>1. pc = "strengthen" /\ todo' = todo
    BY <1>12 DEF PreWithArrays, PreIsEmpty, Strengthen
  <2>2. ASSUME OneTotalPath', Valid(prog)
        PROVE  Reachable(prog) \subseteq post' /\ ~Says("FAILED")'
    <3>1. CASE PreWithArrays
      <4>1. PICK lost, gap : Strengthen(compute_pre(post, Body) \cup lost, gap)
        BY <3>1 DEF PreWithArrays
      <4> QED
        BY <2>1, <2>2, <4>1, StrengthenFails
    <3>2. CASE PreIsEmpty
      BY <2>2, <3>2 DEF PreIsEmpty, Strengthen, OneTotalPath
    <3> QED
      BY <1>12, <3>1, <3>2
  <2> QED
    BY <1>3, <2>1, <2>2 DEF FailureInv, FailureIsReal
<1> QED
  BY <1>6, <1>7, <1>8, <1>9, <1>10, <1>11, <1>12 DEF Next

(***************************************************************************)
(* FAILED is true of a program of one path, whatever pre-conditions lose   *)
(* on the way: a base case is only refuted when the post-condition is.     *)
(***************************************************************************)
THEOREM FailureInvariant == ExecSpec => []FailureInv
<1>1. ExecInit => FailureInv
  BY DEF ExecInit, Init, FailureInv, FailureIsReal, Says
<1>2. TypeInv /\ TypeInv' /\ SoundInv /\ FailureInv /\ [ExecNext]_<<vars, at>> => FailureInv'
  <2>1. ASSUME FailureInv, UNCHANGED vars PROVE FailureInv'
    BY <2>1 DEF vars, driver, ghosts, FailureInv, FailureIsReal, Says, OneTotalPath, Total,
                flatten_path, Valid
  <2> QED
    BY <2>1, FailureStep DEF ExecNext, Run
<1> QED
  BY <1>1, <1>2, TypeInit, TypeStep, SoundInit, SoundStep, PTL DEF ExecSpec

THEOREM FailureReal == ExecSpec => []FailureIsReal
<1>1. FailureInv => FailureIsReal
  BY DEF FailureInv
<1> QED
  BY <1>1, FailureInvariant, PTL

-----------------------------------------------------------------------------
(* An invariant of the program's steps holds of all its executions. *)
LEMMA CertifiedIsValid ==
  ASSUME NEW P \in ProgramType, NEW c,
         \A j \in DOMAIN P.specs :
           /\ InitialPoints(P) \subseteq c[j]
           /\ c[j] \subseteq P.specs[j].holds
           /\ \A i \in DOMAIN P.paths : ClosedUnder(c[j], P.paths[i])
  PROVE  Valid(P)
<1> SUFFICES ASSUME NEW j \in DOMAIN P.specs
             PROVE  Reachable(P) \subseteq P.specs[j].holds
  BY DEF Valid
<1>1. Reachable(P) \subseteq c[j]
  BY ReachedWithin
<1> QED
  BY <1>1

(* What the README's reader sees: nothing of an answer reached through a gap. *)
Shown == IF Trusted THEN printed ELSE <<>>

LEMMA ShownInit == ExecInit => ReadmeVerdict!Init
BY ProgramsAssumption DEF ExecInit, Init, ReadmeVerdict!Init, ReadmeVerdict!ProgramType,
   ReadmeVerdict!Steps, ReadmeVerdict!Points, ReadmeVerdict!Assertions, ProgramType,
   Steps, Points, Assertions

LEMMA SameValid == ReadmeVerdict!Valid(prog) <=> Valid(prog)
BY DEF ReadmeVerdict!Valid, Valid, ReadmeVerdict!Reachable, Reachable,
   ReadmeVerdict!Executions, Executions, ReadmeVerdict!StepsOf, StepsOf

(***************************************************************************)
(* Every step of the driver writes nothing that counts, or an answer that  *)
(* is true: SUCCESSFUL by the certified invariants, FAILED by FailureInv.  *)
(***************************************************************************)
LEMMA ShownStep ==
  ASSUME TypeInv, SoundInv, SoundInv', FailureInv', [ExecNext]_<<vars, at>>
  PROVE  [ReadmeVerdict!Next]_<<prog, Shown>>
<1> USE DEF TypeInv, TypeOK
<1>1. CASE UNCHANGED vars
  BY <1>1 DEF vars, driver, ghosts, Shown, Trusted, Says
<1>2. CASE Next
  <2>1. printed = <<>> /\ prog' = prog
    BY <1>2, SilentUntilDone, GapsStay DEF SoundInv
  <2>2. Shown = <<>>
    BY <2>1 DEF Shown
  <2>3. CASE ~Trusted' \/ printed' = <<>>
    BY <2>1, <2>2, <2>3 DEF Shown
  <2>4. CASE Trusted' /\ printed' # <<>>
    <3>1. pc' = "done"
      BY <2>4 DEF SoundInv
    <3>2. gaps' = {} /\ gaps = {}
      BY <1>2, <2>4, GapsStay DEF Trusted
    <3>3. PICK v \in Verdicts : printed' = <<v>> /\ (v = "SUCCESSFUL" => Report)
      BY <1>2, <2>4, <3>1, Answers DEF Verdicts
    <3>4. ASSUME v = "SUCCESSFUL" PROVE Valid(prog)
      <4>1. NoGapInv /\ pc = "proved"
        BY <3>2, <3>3, <3>4 DEF SoundInv, Report
      <4>2. k = Len(prog.specs) + 1 /\ DOMAIN prog.specs = 1..(k - 1)
        BY <4>1, ProgramFields DEF NoGapInv
      <4>3. \A j \in DOMAIN prog.specs : Established(j, DOMAIN prog.paths)
        BY <4>1, <4>2 DEF NoGapInv
      <4> QED
        BY <4>3, CertifiedIsValid DEF Established
    <3>5. ASSUME v = "FAILED" PROVE ~Valid(prog)
      <4>1. Says("FAILED")'
        BY <3>3, <3>5 DEF Says
      <4>2. OneTotalPath'
        BY <2>4, <4>1 DEF Trusted, OneTotalPath
      <4> QED
        BY <2>1, <4>1, <4>2 DEF FailureInv, FailureIsReal
    <3>6. Shown' = <<v>>
      BY <2>4, <3>3 DEF Shown
    <3>7. ReadmeVerdict!Answer(v)
      BY <2>1, <2>2, <3>4, <3>5, <3>6, SameValid DEF ReadmeVerdict!Answer, Shown
    <3> QED
      BY <3>7 DEF ReadmeVerdict!Next, Verdicts
  <2> QED
    BY <2>3, <2>4
<1> QED
  BY <1>1, <1>2 DEF ExecNext, Run

(***************************************************************************)
(* The driver implements the README's description of the tool, for every   *)
(* family of programs: at most one answer, SUCCESSFUL only of a post-      *)
(* condition that is valid for every N and FAILED only of one that is not. *)
(***************************************************************************)
THEOREM Refinement == ExecSpec => ImplementsVerdict
<1>1. ExecInit => ReadmeVerdict!Init
  BY ShownInit
<1>2. TypeInv /\ SoundInv /\ SoundInv' /\ FailureInv' /\ [ExecNext]_<<vars, at>>
        => [ReadmeVerdict!Next]_<<prog, IF Trusted THEN printed ELSE <<>> >>
  BY ShownStep DEF Shown
<1>3. ExecSpec => [](TypeInv /\ SoundInv)
  BY TypeInit, TypeStep, SoundInit, SoundStep, PTL DEF ExecSpec
<1> QED
  BY <1>1, <1>2, <1>3, FailureInvariant, PTL DEF ExecSpec, ImplementsVerdict, ReadmeVerdict!Spec
=============================================================================
