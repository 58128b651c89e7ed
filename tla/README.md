# Diffy: a TLA+ and TLAPS verification development

Diffy (`src/diffy`) proves assertions about C programs over arrays of a
symbolic size N. It is an LLVM and Z3 program of about 17 000 lines of C++. It
is sequential: what makes it hard is not threads but a long pipeline of passes
that rewrite a function while they share maps from one to the next, and a
verifier that claims something about *every* N after looking at two of them.

This directory models the parts that carry that claim, checks them with TLC on
small instances, and proves the central results with TLAPS for every value of
the constants.

    tlc -workers 2 -config MCFpi_driver.cfg MCFpi      # one run per .cfg
    tlapm FpiProofs.tla                                # and ArraySsaProofs, DifferenceProofs, DiffProofs,
                                                       # PathProofs, SimplifyNlProofs, EqualityProofs

All paths below are relative to `src/diffy/src`, except `README.md`, which is
`src/README.md`.

## 1. Inventory

### How a verification runs

    main.cpp -- mode 6 --> run_diff_preds (daikon-inst/cinput.cpp)
       prepare_module, preprocess        find N, remove redundant statements
       simplify_nl                       flatten nested loops
       fun_clonner_mod_pass _ssa         clone f, the clone becomes the target
       array_ssa                         one name per update of an array
       fun_clonner_mod_pass _peel        clone f_ssa
       diff_preds                        rewrite the clone into the difference
       bmc: collect_bmc_ds_pass          path formulas of all the functions
       bmc_llvm_aggr                     generate_bmc, verify --> verdict
    main.cpp -- mode 4 --> run_FPI       the same, with aggr_llvm_diff

The passes communicate by shared maps (`def_map`, `ld_map`, `lMap`, `evMap`,
`fwd_fn_v2v_map`, `rev_fn_v2v_map`), by the name of the target function in
`options`, by an `int& unsupported_val`, and by the LLVM module they all edit.
There are no threads, no messages and no persistence; nothing is retried, so
there is no fault model.

### Components

| component | state | operations | what is hard |
|---|---|---|---|
| inductive verifier `bmc/bmc_llvm_aggr.cpp` | base and difference formulas, `spec_vec`, the current post, `iterCount` | `generate_bmc`, `check_base_case`, `verify`, `verify_post`, `compute_pre`, `get_hyp`, `get_post`, `flatten_path`, `inst_exists_quant` | several assertions, several paths and several strengthenings are interleaved, a wrong answer needs a particular sequence; many early returns |
| array renaming `aggregation/array_ssa.cpp` | `prev_arr_map`, `curr_arr_map`, `arr_updflag_map`, the function | `create_new_names`, `rename_arr_in_block`, `process_loop`, `process_outer_block` | whether a load sees the same store depends on the whole history of updates |
| difference invariants `aggregation/diff_preds.cpp`, `extract_peels.cpp` | the cloned function, `diff_val_map`, read and write lists | `peel_loop`, `peel_outer_block`, `append_diff_invs`, `additional_record` | what is added for one array is what was recorded for another before: a wrong sum needs a chain of loops; the order of the arrays is that of their pointers |
| difference for full-program induction `aggregation/aggr_llvm_diff.cpp` | the cloned function, `diff_val_map`, the flag | `peel_loop`, `peel_outer_block`, `generate_glue_for_loop` | unsupported code must reach the verifier as a flag; the order of pointers |
| explicit construction `aggregation/create_pnm1.cpp`, `create_qnm1.cpp` | affected sets, lists of peels | marking, moving of peels | switched off by `options.h:95` |
| simplification of nested loops `aggregation/simplify_nl.cpp` | the function, the loops' lists of stores | `process_nl`, `check_rt_scope`, the multiple, the closed form | a dozen checks whose outcome is overwritten by the last; loop data of a function already edited; arithmetic on the bounds |
| pipeline `daikon-inst/cinput.cpp`, `main.cpp`, `utils/options.cpp` | the maps above | order of the passes, `ld_map.clear()` | stale entries, the flag reset |
| path formulas `bmc/bmc_pass.cpp`, `bmc_ds.cpp`, `bmc_*_pass.cpp` | path bits, exit bits, specification vectors | `do_bmc`, translation of each instruction | two vectors indexed in parallel |
| array and global models `bmc/array_model.cpp`, `glb_model.cpp` | SSA-like versions of arrays | load, store, join | joins |
| bounded model checker `bmc/bmc.cpp`, `witness.cpp` | solver | `run_solver` | an unknown answer |
| aggregation solver `aggregation/aggregation.cpp` | aggregates per loop | `solve_aggregates`, `verify_body` | induction of its own |
| loop and block collection `daikon-inst/collect_*.cpp` | `ld_map`, block lists with gaps | one list per loop | gaps must match the loops |
| z3 helpers `utils/z3Utils.cpp`, `irtoz3expr` | the list of conjuncts being rewritten | `propogate_array_eq`, `propogate_store_eq`, `simplify_select_store_nest`, `propogate_select_eq`, `simplify_select_eq` | iterators over a list that shrinks; aliases between indices; both ways round of an equation |
| tiling `daikon-inst/transform.cpp` ..., parser `inv2smt` | none of interest | instrumentation and parsing | belongs to another tool |

### What must hold of each

* **verifier**: a SUCCESSFUL verdict means the assertions hold for every N; a
  FAILED one that they do not; exactly one verdict; it ends; code the passes
  could not transform is never reported proved.
* **array renaming**: an array name is stored to by one item only; the renamed
  function computes what the function computed, read by read.
* **difference passes**: base at N, run after the difference, equals the
  function at N; a statement whose value depends on N is never dropped; code
  outside the supported class sets the flag.
* **pipeline**: a pass reads loop data of the function as it now is; the flag
  set by a pass is the flag the verifier reads; the explicit construction ends.
* **path formulas**: an assertion is paired with its own path condition; a
  path condition is satisfiable exactly when the path is.
* **collection**: as many gaps in the block list as loops, in the same order.
* **rewriting of pre-conditions**: what is left follows from the path, the
  hypothesis and the assertion, speaks of elements only, and the rewriting ends.
* **nested loops**: the closed form is what the inner loop added up; a nest that
  is not understood ends in UNKNOWN.
* **aggregation solver**: an aggregate is the sum the loop computes.

Every place where one of these could go wrong is in `hazards` of
`PROJECT.json`, with its line and with the properties that cover it.

## 2. Modules

    ProgramFamily --- Verdict
         |               |  (INSTANCE, refinement)
     FpiVerify --- FpiExecution --- MCFpi
                        |
                    FpiProofs

     ArraySsa --- ArraySsaRun --- MCSsa
                        |
                  ArraySsaProofs

     ArrayFunction --- DiffPreds --- AggrDiff --- DiffRun --- MCDiff
                                                      |
                                              DifferenceProofs --- DiffProofs

     ControlFlow --- PathFormula --- PathRuns --- MCPath
                                        |
                                   PathProofs

     NestedLoops --- SimplifyNl --- NestedRun --- MCNested
                                        |
                                 SimplifyNlProofs

     ArrayTerms --- ArrayEqualities --- EqualityProofs
           |              |
       Z3Terms ----- MCEqualities

     NaturalSets (induction) --- FpiProofs, DifferenceProofs, EqualityProofs, PathProofs,
                                 SimplifyNlProofs

A line is EXTENDS. The MC modules hold the instances: the menus of programs,
functions, graphs and constraints.

### ProgramFamily: what is being verified

A program over arrays of size N is a family P_1, P_2, .... The verifier has two
functions: the base, run with N = 1, and the difference, which turns the final
arrays of P_(N-1) into those of P_N. A z3 formula is represented by the set of
points it denotes: `<<N, contents>>` for a condition, `<<N, contents at entry,
contents at exit>>` for a path. Equality of formulas up to z3's equivalence is
equality of sets, so nothing about the solver is lost except that it may answer
*unknown* and that the syntactic shape of a pre-condition matters in three
places; those are constants (below).

`Executions`, `Reachable` and `Valid` define what a correct verdict would be,
independently of the driver: the runs from P_1 to P_n, the points they reach for
some N, and whether the assertions hold there. A program is `Total` when no
assumption cuts a run off, P_1 included.

### FpiVerify: the driver

One action per step of `verify` and `verify_post`:

| action | code (`bmc/bmc_llvm_aggr.cpp`) |
|---|---|
| `BaseCase` | the head of the loop over `spec_vec`: base case, FAILED; `unsupported_val`, UNKNOWN; otherwise the kind of assertion |
| `AllVerified` | the loop over `spec_vec` ends, `return true` |
| `ExistsCase` | `inst_exists_quant`, returned at once |
| `NextPath`, `NextSpec` | the loop over the flattened paths; each path starts from a copy of the post |
| `InductiveStep` | one iteration of `verify_post`: hyp, body and not post |
| `GiveUp` | `fixpointBound` iterations, UNKNOWN |
| `PreIsFalse` | a conjunct of the pre-condition is false: `return true` |
| `PreWithoutArrays` | no conjunct reads an array: FAILED or UNKNOWN |
| `PreWithArrays` | conjuncts without arrays are dropped, shift, base case, next iteration |
| `PreIsEmpty` | the rewriting has dropped every conjunct: the post is kept and shifted |
| `Report` | the caller's `_VERIFICATION_SUCCESSFUL` (`cinput.cpp`) |

The nondeterminism stands for what the code does not control: z3's *unknown*
(`SolverGivesUp`: `check_sat` counts it as unsatisfiable, `z3Utils.cpp:876`, and
`flatten_path` then erases the path: `Kept`),
whether z3's simplifier reduces a contradictory pre-condition to the literal
`false` (`FalseIsLiteral`), and what the dropping of conjuncts adds to a
pre-condition (`Lost`; when that is everything the pre-condition is the empty
list). `chain`, `cert` and `gaps` are history variables: they record what the
driver has established and where it went on without the implication that would
justify it, and no action reads them.

### FpiExecution: verdict against execution

Composes the driver with the program it has judged: when the verdict is out,
the program is run for N = 1, 2, .... Properties relate the verdict to these
runs. `Verdict` is the abstract specification, the sentence of `README.md` for
each verdict; `ImplementsVerdict` is the refinement.

### ArraySsa: the renaming pass

State: the three maps of the pass, the renamed operations, the copies the pass
puts in preheaders. An item is a loop or a block between loops; an operation is
a load, a store, or a compound assignment whose load and store share an address
instruction. An index is known by where it lies relative to the loop counter,
which is all that `check_sat(ctr > idx)` asks. `ProcessLoop` and
`ProcessOuterBlock` are the two functions of that name with everything they
call: the creation of names, the renaming of every load and store, the copies,
and, for loops only, the final update of `prev_arr_map`. `Throw` is the lookup
that fails on an address already renamed; the exception ends the program, so
the partial effects of that item are not kept.

A new allocation is the next number: 0 is the array's own, n + 1 the one made
when n was current. This is what the code's pointers tell apart, since a name
is only ever made from the current one.

### ArraySsaRun: both functions side by side

When the pass is done, the function and its renamed form run in lockstep, with
one memory for the original and one per name for the other. A store writes its
own identity, so that two loads agree exactly when they see the same store.
Guarded operations and guarded items may be skipped.

### ArrayFunction and DiffPreds: the difference function

`ArrayFunction` is the language of the pass: a function is a sequence of loops
and blocks, as array_ssa leaves it; a store assigns a sum of loads, each times a
number, and of a term in 1, N, N^2, N*i and i. `OnlyOfN`, `Constant`, `OneLoad`
are the tests by which the code tells stores apart.

`DiffPreds` is the pass. A loop is reduced to its last iteration. The earlier
iterations are those of P_(N-1), except that elements and terms may now have
other values; `diffs` (`diff_val_map`) lists, for each array, the values an
element gains, and the pass adds them where the last iteration would miss them.

| action | code (`aggregation/diff_preds.cpp`) |
|---|---|
| `KeepFunction` | `peel_function` returns when there are no loops |
| `Enter`, `Leave` | one item of `getCurrentBlocks`; the counter becomes N - 1 |
| `ChooseArray` | the next array of `arrWrite`, in any order: it is a map from pointers |
| `LoopOfN`, `LoopConstant`, `LoopSum` | `peel_loop`'s three cases; `LoopSum` is `append_diff_invs` and `additional_record` |
| `BlockOfN`, `BlockConstant`, `BlockCopy`, `BlockOther` | `peel_outer_block`'s four cases |

A scalar that sums an array gets N - 1 times the array's values, in the
preheader; a recurrence `a[i] = a[i-1] + ...` gets its own; a scalar set from N
outside the loops gets the difference on top of its value at entry, through a
new allocation that stands for the same array. What a scalar reads in its last
iteration is recorded by reference: a register of the difference function.

`vague` and `gaps` are history variables. `vague` holds the arrays whose
recorded values are not the difference of their elements, which does no harm
until something adds them. `gaps` names the ways the pass goes wrong:

| gap | what the function does |
|---|---|
| `kept` | has no loop and reads what it stores |
| `overwritten` | reads a scalar, or an element below the counter, that is stored later under the same name |
| `stale` | reads, below the counter, an element of another array that has changed since P_(N-1) |
| `restarted` | sets a scalar to something the pass leaves in place, then accumulates |
| `doubled` | accumulates a scalar that is read twice or multiplied |
| `unknown` | sums an array that is `vague`, stored in the same loop, or of which only element 0 has changed |
| `scalar` | adds to a scalar another that has changed (added once, not N - 1 times) |
| `scaled` | sums a multiple of, or subtracts, elements that have changed |
| `short` | sums from 1 (N - 2 values, multiplied by N - 1) |
| `uneven` | sums N*i, subtracts N, or has the term spread over the sum |
| `again` | updates in place an array that has recorded values |
| `recurrence` | a recurrence with a term in N, a changed operand, a factor or its own element twice |
| `replaced`, `copied`, `recomputed` | a block stores a name again, copies an array of several or unknown values, computes from what has changed |
| `index` | has N in an index (see `unsupported_val`) |

`PeelFunction` is the entry of the pass: a function with N in the index of a
load only sets the flag (`llvmUtils.cpp:2202` looks at loads, not at stores).

`Items` admits the stores array_ssa leaves and no more (`Placed`): a block has no
counter, a scalar is read at 0, and a loop that reads the element below starts at
1. The list of gaps was tried on 180 000 random functions of up to four items in
addition to those of `MCDiff`, which showed two conditions it lacked: a recurrence
that reads its own element twice (`Multiplied`), and, in mode 4, a scalar set from
an element of an array, whose values are not all the same. Both are in `MCDiff`.

### AggrDiff: the same for mode 4

`aggr_llvm_diff` (mode 4) walks the function as `diff_preds` does, and its
actions have the same shape; the differences are the module's content:

* whatever mentions N is recorded as growing by 1 (`constOne`), and never added;
* `generate_glue_for_loop` sees, in place of the operands of a store, each array
  the loop reads once (`Seen`), in the order of a map of pointers
  (`AggrChooseArray` chooses an order);
* `at_least_one_diff_val` is cleared by a recorded value of another array. In
  the wrong order the pass erases a load that is in use: the build has LLVM's
  assertions on (`Makefile:103`), which is the action `Abort`;
* the flag is set for a remainder under a condition on N (`FlagRem`), for N in
  an index, and for stores it does not know.

Its own gaps are `ofN` (a value of N that is not + N in a fresh store, summed or
in a recurrence) and `elsewhere` (an array with recorded values that the store
does not read, or reads more than once).

### DiffRun: the difference function in execution

`mode` chooses the pass. Runs P_1, then for N = 2, 3, ... the difference
function on the arrays P_(N-1) leaves, and compares with P_N. `Final(N)` is P_N,
computed by folds over items, iterations and stores. `unsupported_val` is the
flag as the verifier reads it: `run_FPI` keeps what the pass set,
`run_diff_preds` clears it (`cinput.cpp:627`), so that in mode 6 functions with
N in an index are verified; that is the gap `index`.

### ControlFlow and PathFormula: the translation of a function

`ControlFlow` is a loop-free reading of a function: blocks of operations
(`nondet`, load, store, comparison, phi, assume, assert) ending in a branch, a
switch, a return or an unreachable instruction, with back edges ignored as the
code does, and comments that claim something at a block.

`PathFormula` is `bmc_fun_pass` with everything it calls. One action per kind of
instruction and per terminator, in the order of `topological_sort`; the state is
that of `bmc_ds`: path bits, exit bits, the current name of each memory in each
block, `spec_vec`, `assert_path_bits`, the quantified variables. Constraints are
represented by their models, the sequences of values of all names made so far;
a new name multiplies the models and a constraint removes some.

| action | code (`bmc/bmc_pass.cpp` unless said) |
|---|---|
| `EnterBlock` (`Enter`, `Join`) | `do_bmc`: the path bit (`Entered`), `join_array_state`, `join_glb_state` (`Joined`, `Carried`) |
| `translateLoadInst`, `translateStoreInst`, `translateCmpInst`, `translatePhiNode`, `translateNondet` | the functions of that name |
| `assume_to_bmc`, `assert_to_spec`, `Claims` | an assumption makes its own bit the block's path bit; an assertion adds to both vectors; a comment's claim and an error to `spec_vec` only |
| `translateBranch`, `translateSwitchInst`, `translateRetInst`, `translateUnreachableInst` | with the exit bits of the block |
| `EliminateExits`, `Finish` | `init_path_exit_bit`, the end of `do_bmc` |
| `check_all_spec` | mode 0: all specifications at once (`bmc.cpp:129`) |
| `BaseCase`, `NotFound` | `verify`'s use of the two vectors, with `get_base_spec` |

`PathRuns` executes the function for every input and relates runs to models.

### NestedLoops, SimplifyNl and NestedRun: closing inner loops

A function is a sequence of loops over i from 0 to N - 1, whose bodies are
stores and inner loops over j with linear bounds (`Sources`: j is only used
between the braces of its loop). `SimplifyNl` is `process_nl`:

| action | code (`aggregation/simplify_nl.cpp`) |
|---|---|
| `Simplify` | an inner loop passes the checks and is replaced by `x = x op times * rec`, merged with the outer store |
| `GiveUp` | the checks fail: `_VERIFICATION_UNKNOWN`, exit |
| `Crash` | it comes to a destroyed loop, uses an erased store, or casts a missing term: undefined behaviour |
| `NextLoop`, `Done` | the next outer loop, whose vector of inner loops is fetched; the end |

The loop over the inner loops (line 51) goes through the vector `getSubLoops()`
with an iterator and an end it found at the beginning, while `deleteDeadLoop` (line
329) erases the loop just closed from that vector. `subs` is the vector's memory,
with the entries behind its shrinking end, and `loops` the iterator, which is also
the number of erased entries. Of one or two inner loops every one is reached: the
entry the second moved from is still there. Of three the second is passed over,
and the third is closed and then found again as the last entry, a loop LLVM has
destroyed (`IsDestroyed`). What follows is undefined, and the model stops.

`is_in_scope` is assigned the answer of `check_rt_scope` whatever the checks
before it found (line 140). `ignored` records the checks so forgotten, `gaps`
how the closed form differs from the loops:

| gap | the nest |
|---|---|
| `conditional`, `beneath` | the inner, the outer store is under a condition |
| `several`, `second` | has more than one store; stores more than one array |
| `elsewhere` | stores an array at 0 or at a counter that is not the loop's |
| `assigned`, `reversed`, `product` | assigns, subtracts from the other side, multiplies |
| `other`, `late`, `twice`, `dropped` | the outer store is of another array; multiplies at the wrong end; reads its array twice; adds N |
| `stride`, `down`, `short`, `reach` | steps by two; goes down; has an exit below its start; reaches elements in a number of iterations that none of three known shapes has |
| `moved`, `interleaved` | reads an array whose elements differ along the other counter; reads one that the nest stores |

`NestedRun` runs the function and what is left of it for each N and compares.
An inner loop that uses j as an index stays between 0 and N - 1
(`BoundsAssumption`): outside, the C program has no meaning.

### ArrayTerms and ArrayEqualities: computing a pre-condition

`ArrayTerms` has the z3 terms as records. What the code calls z3 for
(`substitute`, `simplify`, the subterms and the meaning of a term) are operator
constants, and `Z3Contract(T)` is what the rewriting relies on of them, for terms
of the sorts T: terms have one sort and the arguments of their operator
(`Z3Syntax`); the terms the passes build are among them (`Z3Closed`); `simplify`
adds no symbol and makes no equation of arrays (`Z3Simplifies`); `substitute`
replaces every occurrence and nothing else (`Z3Replaces`, `Z3Renames`); neither
changes a meaning, which depends on the term's own symbols (`Z3Sound`, `Z3Local`).
`Z3Terms` has definitions of them for TLC, recursive ones; `SampleAssumption` in
`MCEqualities` checks the contract for these definitions on the terms of a pass
over two versions of an array. `ArrayEqualities`
is the list `compute_pre` fills and the five functions of `z3Utils.cpp` that
rewrite it, one action per step of an iterator. Its state is theirs: the list,
`list_copy` (never updated), the iterator, the size at the beginning of the
sweep, `new_list`. A position one past the end stands for `end()`; two past it
would be undefined.

The history variable `gaps` names two rules that are wrong where they are
applied, `lost` those that drop a conjunct for which the rest does not stand:

| | the rule |
|---|---|
| `mirrored` | `simplify_select_store_nest` finds the element on the right of the equation and still makes `arg(1) == stored value` (line 1331): a tautology, and false where the conjunct says that the two differ |
| `summed` | `simplify_select_eq` keeps one of two elements of a sum |
| `unread` (lost only) | an equation with a store is dropped though the array is read at another index |
| `alias` (lost only) | an element is replaced, and the array, or what its store stored, is read again: at another index that may be the same, or the element is one of a store |

A pre-condition is computed from constraints that satisfy `DefinitionsAssumption`:
each equation of arrays defines an array from arrays of a lower rank, and no array
twice (`array_model` makes a fresh name for every store and join); and
`PostAssumption`: the last conjunct, of the assertion (as it is, `bmc_llvm_aggr.cpp:501`), is about elements
or integers. The sweep that steps past the conjunct after an erased one would
otherwise step past the end.

`FpiVerify` takes the result of `compute_pre` as the exact pre-condition, with
points added by `Lost`. `PreIsImplied` is what makes that right: the list that is
left is never stronger than the constraints. The two gaps are outside the
driver's model: of an assertion that two elements differ, mirrored, `verify_post` would find a
literal false, and return true, for a pre-condition that is not contradictory.

## 3. What the runs check

| run | bounds | shows |
|---|---|---|
| `driver` | 3 contents, N up to 3, 3 iterations, 1 or 2 paths, up to 2 assertions | the safety properties of the verdict, the two inductive invariants, termination, the refinement of `Verdict` |
| `fpi_false`, `fpi_paths`, `fpi_failed` | one family each | three disagreements with `README.md`, see findings |
| `lockstep` | one array of two elements and one scalar, up to 4 items, up to 3 operations | typing, single assignment, same reads, current names, the inductive invariant behind them |
| `updates` | three operations in one loop, two or three of them stores, the last one a store | one disagreement with a comment, see findings |
| `diff` | about 6000 functions over two arrays and three scalars in each mode, N up to 4 | typing, difference function against P_N, recorded values against differences |
| `diff_last` | one loop, one assertion in a loop, N up to 4 | one disagreement with `README.md`, see findings |
| `paths` | about 570 functions of up to 5 blocks, an array, a global, one input, values 0 to 2 | the constraints are consistent, their models follow the runs block by block and are the runs in the end; the two checks against the runs |
| `path_error` | functions with an exit after an error (`Errors`) | one disagreement with a comment, see findings |
| `nested` | 2264 functions of one to three nests of up to four inner loops, 48 of them those of the benchmarks; three arrays and a scalar, N up to 3 | the closed forms against the loops, the forgotten checks, that the vector walked while it shrinks leaves no inner loop, termination |
| `equalities` | 1440 lists of constraints: three versions of an array of two elements, two indices that may alias, two integers, arithmetic modulo 3 | the pre-condition against the constraints, termination |

Properties of the driver:

* `SuccessIsSound`: after SUCCESSFUL, every run of the program satisfies every
  assertion, unless the driver passed a gap.
* `FailureIsReal`: a program of one path, none of whose runs is cut off by an
  assumption, is reported FAILED only when it violates an assertion. A program
  whose P_1 has no run at all violates nothing and may be reported FAILED: the
  assumption that cuts it off is part of the base formula, not of the
  pre-condition of the next. Hence `P.base # {}` in `Total`, and the programs with
  `Cut` in the run `driver`.
* `UnsupportedIsNotProved`, `OneVerdict`, `Terminates`.
* `ImplementsVerdict`: the driver with the program's runs implements `Verdict`.
  The mapping shows the abstract specification the verdicts that can be
  trusted: no gap passed, a single path, no run cut off by an assumption.

Properties of the renaming:

* `SingleAssignment`: no two items that rename an array store it under one name.
* `SameReads`: for functions in `Supported`, each load sees the store it saw.
* `CurrentNames`: between two items the current names hold the arrays.
* `LockstepInv`: which name holds which element in the middle of an item.

Properties of the difference:

* `DifferenceMakesPN`: run on what P_(N-1) leaves, the difference function
  leaves the scalars of P_N and its elements at N - 1, unless the flag reaches
  the verifier.
* `RecordedIsDifference`: what is recorded for an array that is not `vague` is
  by how much each of its elements below N - 1 differs between P_N and P_(N-1),
  and by how much a scalar does.

Properties of the translation:

* `RunsAreModels`, `ModelsAreRuns`: the models of the constraints are the runs
  of the function that meet an assertion (if there is one), each with its blocks,
  memories and registers. Excepted are runs through a later one of two edges
  between the same blocks, of which the code knows one, and, for the second,
  functions in which no block returns: `_or` of nothing is true, and the models
  are those of iterations that are never left.
* `ModelsFollowRuns`: why. At every step of the translation the models and the
  runs through the blocks translated so far have the same blocks, memories,
  registers, next edge and assertions met, and agree on whether a specification
  stated so far is false.
* `SuccessIsReal`: a base case that holds, or a SUCCESSFUL of the plain checker,
  leaves no failing run. Set aside for the base case: arrays written after the
  assertion (`Final`), and functions that have both assertions and claims or
  errors. `verify` reads the vector of assertions' bits with the index of the
  vector of specifications; with an error between two assertions, a specification
  is asked about under the bit of another, and if no run passes that one the base
  case holds whatever is false (`Strays` are the functions that show it).
* `FailureIsReal`: one that fails is the failure of a run, for functions that may
  return, without claims and errors; the plain checker, for one specification.

Properties of the closed forms:

* `SimplifiedIsNested`: what is left computes what the function did, unless it
  is in a gap.
* `ChecksSuffice`: had the forgotten checks counted, the nest would have been
  left alone for each gap they are for.
* `NoNestIsLeft`: a nest the pass has gone on from has no inner loop, although
  the vector it walks loses an entry at every step: a loop the iterator passes over
  is followed by one that is destroyed. array_ssa relies on it in mode 6.
* `Ends`: the pass ends, in one of these ways: done, UNKNOWN, undefined.

Properties of the pre-condition:

* `PreIsImplied`: it follows from the constraints, in every valuation (arrays of
  two elements, integers modulo 3) and for every alias.
* `PreIsExact`: where nothing is `lost`, it can be satisfied only if they can.
* `ArraysAreEliminated`: no equation of whole arrays is left, although a sweep
  skips the conjunct after one it drops.
* `Progress`: every step shortens the list, advances, or begins a sweep or pass
  that is due. With the deadlock check it is termination, without fairness.
* The range of the iterator (in `TypeOK`): never past the end of the list.

**Why the bounds are enough.** *driver*: three contents are the fewest with
which a strengthened post differs both from the assertion and from the
reachable set; N = 3 is the first N where a post strengthened once can be wrong
while the base case (N = 1) and the difference from 1 to 2 are right; two paths
and two assertions are the fewest that interact; a fixpoint bound of 3 lets a
chain strengthen twice and still be cut off. Every gap, every verdict and every
early return is reached. *lockstep*: two elements distinguish written from
not yet written and give each of the four index classes both an in-range and
an out-of-range iteration; a third item reads what the second wrote under a new
name, a fourth item writes after a block and a loop in either order. Each
condition of `Supported` is needed: without any one of them TLC finds a
function that violates `SameReads` or `CurrentNames`. What the conditions mean
in the code's terms is in the comment above them. *diff*: every pair of items
from a menu that has each kind of store with each kind of term, every item of
two stores, every chain of three items through which recorded values flow, and
five functions of the shape of the benchmarks in `cav21-bench/safe`. In mode 6
these five pass no gap; in mode 4 four of them do not, the fifth passes `ofN`
and `unknown`. N = 2 is the first difference function, N = 3 the first whose
predecessor has an iteration before the last, N = 4 tells N - 1 from its
square. Each gap is needed: for each, TLC finds a function with no other gap
that violates one of the two properties; `index` and `uneven` in mode 6 only,
`ofN` and `elsewhere` in mode 4 only. Functions with a remainder or with
branches on N in a loop are run in mode 4 only (`Modelled`). *paths*: five
blocks are a diamond with a check after it, or a switch of three cases with a
shared target; a join with memories that differ, agree, and differ in one of
two is among them, and so are an assumption before and after each use of the
path bit. *nested*: N = 3 tells the number of iterations of a triangle from
that of a square and of a rectangle; all operators, both counters, both
orientations and the bounds 0, 1, i, i + 1, N and their inclusive forms are in
the menus; three inner loops are the fewest of which one is passed over, four the
fewest with which the iterator, past the end of what is left, finds a live loop.
*equalities*: two indices that may be equal give every alias between two reads;
three versions of an array give a chain of two stores, or of a store and a
renaming; modulo 3 a wrong sign shows.

**Fairness.** `WF_vars(Next)` on the driver, for `Terminates`, and on
`SimplifyNl`, for `Ends`: the code is a sequential program that takes its next
step; z3 calls return (with a timeout at worst, which is the *unknown* answer).
The runs of the program after the verdict have no fairness, and the other
modules have none.

**Deadlock** is switched off in the runs where the driver, the pass or the
program's run ends; in `equalities` it is on, with a step that stutters when
`compute_pre` has returned.

**Mutants.** Each module carries, next to a definition, the mutated form a
plausible slip in the code would give ("A bug it could have"); each property
fails for one of them under its own run.

## 4. Findings

Each is a passing contradiction: TLC reaches the state under the run named.

1. `fpi_false`: a conjunct `false` in a pre-condition makes `verify_post`
   return true (`bmc_llvm_aggr.cpp:513`, next to commented-out code that
   reports FAILED); SUCCESSFUL for a program whose assertion fails at N = 2.
2. `fpi_paths`: each flattened path strengthens its own copy of the post and
   nothing checks the copy against the other paths; SUCCESSFUL for a program
   that violates its assertion by taking one path, then the other.
3. `fpi_failed`: with several paths, the base case of a pre-condition can fail
   although the post holds; FAILED for a correct program.
4. `updates`: the comment of `process_loop` (`array_ssa.cpp:56`) says that several
   updates of an array in a loop can share a name, as only the value at the end of
   the loop matters. TLC's loop stores `a[i]`, loads it, and stores it again: the
   load that feeds the second update is renamed to the name from before the loop
   and misses the first one, so that the value the second store leaves at the end
   of the loop is not the function's.
5. `diff_last`: the loops of assertions are peeled like all others, so that an
   assertion about every element is verified for the last one only
   (`diff_preds.cpp:148`); SUCCESSFUL for `a[i] = i; assert(a[i] == N - 1)`.
6. `path_error`: an unreachable instruction adds a specification and no path bit
   (`bmc_pass.cpp:521`), which pairs it with another assertion's path or none,
   although the comment at line 304 says that it is handled; the base case fails
   for an error no run reaches.

Other places where the code does less than its surroundings say are conditions
(gaps) of properties rather than runs of their own: the checks overwritten at
`simplify_nl.cpp:140`; the flag cleared at `cinput.cpp:627` although
`diff_preds.cpp:59` says what it is for; the mirrored equations and the sums of
two elements in `z3Utils.cpp`, where the comment above `simplify_select_eq`
moves the other operand to the right and the code drops it if it is an element.

## 5. What is proved

Every theorem is for all values of the constants, under the named assumptions of
the modules. Assumptions say what a constant is (a set of programs of the right
type, a set of positive numbers closed downwards) and, where something outside
the code is a constant, what the code relies on it for. Nothing is assumed about
finiteness, about the number of paths, assertions or items, or about the solver's
answers, unless said.

| property | theorem | module |
|---|---|---|
| types, `SoundInv`, `SuccessIsSound`, `UnsupportedIsNotProved`, `OneVerdict`, `FailureIsReal`, `ImplementsVerdict` | `TypeCorrect`, `DriverInvariant`, `Soundness`, `UnsupportedNeverProved`, `VerdictIsOne`, `FailureInvariant`, `FailureReal`, `Refinement` | `FpiProofs` |
| types, `SingleAssignment` | `RunTypeCorrect`, `RunNamesAssignedOnce` | `ArraySsaProofs` |
| `LockstepInv`, `SameReads`, `CurrentNames` | `LockstepInvariant`, `RenamedReadsTheSame`, `CurrentNamesHold` | `ArraySsaProofs` |
| types; one value per store is enough | `DifferenceTypes`, `DifferenceOfEveryElement` | `DiffProofs` |
| `DifferenceMakesPN`, `RecordedIsDifference`, for `diff_preds` (mode 6) | `DifferenceFunctionMakesPN`, `RecordedValuesAreDifferences` | `DiffProofs` |
| types, `NoNestIsLeft`, `ChecksSuffice`; the multiple of the three shapes | `TypesAreKept`, `NoNestIsLeftBehind`, `ChecksAreEnough`, `IterationsAreCounted`, `ReachesAreCounted` | `SimplifyNlProofs` |
| `SimplifiedIsNested`, with its invariant `Faithful` | `ClosedFormsComputeTheSame`, `FaithfulInvariant` | `SimplifyNlProofs` |
| types, `Consistent` | `TypeCorrect`, `ConstraintsConsistent` | `PathProofs` |
| `ModelsFollowRuns`, `RunsAreModels`, `ModelsAreRuns`; runs end | `ModelsFollow`, `NoRunIsLost`, `NothingElseIsAdmitted`, `EveryRunEnds` | `PathProofs` |
| `SuccessIsReal`, `FailureIsReal` (of `PathRuns`) | `SuccessesAreReal`, `FailuresAreReal` | `PathProofs` |
| types, `PreIsImplied`, `PreIsExact`, `ArraysAreEliminated`, `Progress` | `ListInvariant`, `IteratorsStayInside`, `PreconditionIsImplied`, `PreconditionIsExact`, `NoArrayIsLeft`, `EveryStepAdvances` | `EqualityProofs` |

**A success** (`FpiProofs`). `SuccessIsSound` is not inductive: when SUCCESSFUL is
printed nothing in the driver's variables says why. `SoundInv` strengthens it. As
long as no gap was passed, `chain \cap post` contains the base contents, implies
the assertion, and is mapped by the current path into `chain`; `InductiveStep`
closes the loop by mapping it into `post` too, at which point `cert[k]` becomes an
invariant of that path; `NextSpec` moves on when all paths are done, so
`Established` holds of every assertion before `k`; and a run of the program, which
starts in the base contents and follows paths, can never leave `cert`. The step
case has one lemma per action. `UnsupportedNeverProved` needs its own invariant:
with the flag set the driver never gets past the first base case.

**A failure** (`FpiProofs`). FAILED comes from the base case of a post computed
backwards. `FailureInv` says that if the program has one path, no run is cut off
and the assertion is valid, every reachable point is in the current `post`. A
pre-condition keeps that: from a reachable point there is a step (no run is cut
off), it is the only path's, it ends in a reachable point, which is in the post.
So a base case that fails refutes validity, whatever the number of
strengthenings. That reachable points are those of runs is by induction on N.

**The refinement** (`FpiProofs`). A step of the driver that prints maps to the one
step of `Verdict`, all others stutter; that the verdict printed is one `Verdict`
allows is `Soundness` for SUCCESSFUL and `FailureReal` for FAILED.

**The difference passes** (`DiffProofs`). Types need the invariant `PassInv`: while
an item is entered, what is left to peel and what is placed are stores of this
item, and between items nothing is left. The rest is closure: the values either
pass records or adds are concatenations over loads, over arrays in any order and
over stores, and `FlatIsSeq` says that those are lists of values again.

**The difference function** (`DifferenceProofs`, `DiffProofs`). Both properties
compare two executions that are folds over a function of any length, of loops
with any number of iterations, so the proof is an induction over items, inside it
one over iterations, inside that one over the stores of a body. `DifferenceProofs`
says what the executions are worth, without the pass:

* `Mem(N)` is the list of memories P_N goes through, item by item (`Iters` and
  `Stages` go through the iterations of a loop and the stores of a body), and ends
  in what the fold `Outcome` gives; what an item writes is then said element by
  element, and for a scalar that accumulates as a sum over iterations;
* an instruction of the difference function changes one element and, if it is a
  store, the registers of its loads. `Agrees` relates a state of it to P_N between
  two items: elements at N - 1 are those P_N has, a scalar is ahead of P_N's by
  what P_(N-1) still adds to it in the items to come (`Behind`: the difference
  function starts where P_(N-1) ends), and elements below N - 1 that no later item
  changes are as P_(N-1) left them (`StillOld`);
* `DiffsHold` relates recorded values to the two memories: for every array not
  `vague` the sum recorded is by how much its elements differ. What is recorded by
  reference is read from the registers, which later items leave alone.

`DiffProofs` has the pass. `ExactInv` is its invariant: between two items the
output so far does to the memories what `Agrees` and `DiffsHold` say (`Between`);
within an item the same holds of the items before it, and `LoopInv` or `BlockInv`
says what the stores already peeled have recorded, inserted before the loop and
left in their places (`OneFurther`). A step of the pass adds one store, in any
order of the arrays, and either is of a class whose difference is exact or names
its gap in the same step; `Leave` turns what the item has become into the next
`Between` by running it, the preheader first, then the stores in program order.
Two cases are not of that kind: nothing was begun (`NotBegun`), and a function
without loops is kept (`KeptWhole`), which computes P_N from P_(N-1) because it
reads nothing it stores. No bound on items, stores, loads or N is used. Assumed
are the types of the functions, integers as initial contents
(`ContentsAssumption`) and `Modelled`, that mode 6 is run on functions without
remainders and branches in loops, which the model of that pass leaves out.

**The names** (`ArraySsaProofs`). `SingleAssignment` is strengthened to `NameInv`:
an array not yet updated has name 0 as current name, a name used by an earlier
item is at most the current one, and an array that was renamed is flagged. The
lockstep run adds variables and leaves those of the pass alone, so that its
theorems follow by `RunIsPass`.

**The lockstep run** (`ArraySsaProofs`). `NamesGiven` says in closed form which
name the pass gives each operation; `NamesHold` says, for the point the run has
reached, which elements the name an item stores to holds (those below the counter
and those stored already, for a loop that updates an array again) and which the
name from before the loop still holds (those above the counter, and those not yet
stored). A load with the old name reads an element of the second kind, any other
load one of the first. The proof found three classes of functions that an earlier
`Supported` admitted and the menu of the run did not have: a loop without an
iteration that updates a scalar again, scalars at an index other than 0, blocks
whose stores are all conditional. The run has them now.

**Nested loops** (`SimplifyNlProofs`). That no inner loop is left when the iterator
reaches the end is not what any step tests. `VectorInv` is the invariant behind
`NoNestIsLeft`, for any number of inner loops: what is left of the vector lists,
each once, the inner loops left in the nest (`Names`). Closing a loop takes one
from both (`SimplifyKeepsVector`), and as the iterator advances by one per entry
erased, it reaches the end only when nothing is left of the vector; from there
the nest has no inner loop. A run that would pass over one ends in `Crash` before.

Further, an ignored check is recorded with its gap in the same step; and the number
of iterations the multiple stands for, N, N - i and i, is the number of values of j
between the bounds.

**Closed forms** (`SimplifyNlProofs`). `SimplifiedIsNested` speaks of the last step
only, and where it came from is gone: the nests left are no longer those given.
`Faithful` says it at every step: while no gap is met, each nest is as it was
(`out[k] = prog[k]`), or has closed forms in the places of some of its loops
(`ClosedInPlace`), or is the one closed form of a loop and an outer store
(`ClosedTogether`), each of a loop and store the checks let pass (`Replaces`). That
the pass is done only after the last nest (first conjunct) and `NoNestIsLeft` make
it a statement about whole nests. What `Replaces` is worth is then shown for every
memory and every N:

* a loop along no array adds one amount in each outer iteration, times the number
  of its iterations, and the closed form does that in the same iteration;
* a loop along an array does not. It adds to an element in several outer
  iterations, the closed form all at once in the iteration of that element, so
  that between two iterations the memories differ. `Apart` is by how much:
  nothing before the first and after the last iteration, and each iteration
  changes it by what the two forms add (`ApartCloses`, from the count of the
  iterations that reach an element). The other items of the body must neither
  read the array nor do other than add to it (`Indifferent`), and then carry the
  difference along unchanged (`BodiesInStep`, `NestsInStep`);
* with an outer store the two of one iteration are fused: their operations may
  change places, except `mul`, which the check on the order is for (`FusedNest`);
* several loops are replaced one after the other (`Mixed`), each beside the
  closed forms of those before;
* a load moved out of the inner loop reads another element. That the elements of
  its array are equal (`Uniform`) is syntactic: one earlier nest fills the array
  and nothing else stores it. `UniformIsEven` shows what it means for the run.

The proof found `Uniform` wrong as first stated: it looked for stores of the array
among the first four items of each nest only. Assumed are `Sources`, contents for
every element, and `BoundsAssumption`; nothing about the number of nests, items or
arrays, or about N.

**Pre-conditions** (`EqualityProofs`). For every terms and operations that satisfy
`Z3Contract`; the list is any list of well-sorted conjuncts, of any length.
Going forwards, every conjunct made is implied by those it was made from
(`PreIsImplied`). Going backwards is `PreIsExact`: a valuation of what is left
becomes one of what there was by giving an erased array the value it was defined
to have, and an element the value it equalled; that this disturbs no other
conjunct is why what is erased must not be read again, up to aliases. The proof
found the property false as first stated: an element of the array just stored to,
at another index, was not counted as an alias. `ArraysAreEliminated` needs an
invariant about the sweep that skips: what it skipped is still a definition and
the sweep is repeated. `Progress` compares a lexicographic measure before and
after a step.

**Path formulas** (`PathProofs`). `Named` strengthens both: what the pass keeps is
about the names 1 to L, where L is the length of every model, and there is a model
on the path of no block but the entry. Each action prolongs that model: a new
block's bit is 0, a joined memory gets the value the entry leaves, a phi node the
value its operand has coming from the entry. That blocks are translated after
their predecessors, so that the bits an edge is made of are there, rests on
`HeightIs`: the recursion of `topological_sort` has a solution on a graph whose
forward edges have no cycle.

**Models and runs** (`PathProofs`). `ModelsFollowRuns` relates the models of
the constraints made so far to the runs of the function followed so far, and is
not inductive: `Following` adds `Named` and three facts. `Ordered`: blocks are
translated from the highest down, and no successor to come is higher than a block
made. `Closed`: a run that is at a block done has only been in blocks done, so
that none is forgotten. `Plain`: a comparison is no operand of another, so that
what it evaluates to in a model is a Boolean of that model. Each action then has
to turn a run's step into a longer model and a longer model into a run's step:

* an operation prolongs both by one value, or by none; an assumption stops a run
  and leaves its model with no path bit to hold (`Stuck`), which stays so;
* a terminator makes the exit bits, and among them exactly the one of the
  successor the run goes to holds (`EdgesAfter`, `LeftMatches`); a model in which
  the block's bit does not hold keeps every edge out of it shut (`Dimmed`);
* the beginning of a block joins the edges into it. From a run that waits there
  the values of the new names are those of its edge (`JoinMemory`); from a model,
  a path bit that holds has an edge that is taken, by `SameEdge` only one, and its
  run is the one that enters (`JoinWitness`). If the bit is left false although an
  edge is taken, the model is `Stuck` (`JoinStuck`);
* at the end no block is left, so the runs followed are those of `Executions`, and
  the last constraint, that some returning block was passed, removes `Stuck`.

That the runs followed are all the runs rests on `EveryRunEnds`: heights fall
along a run, whatever the number of blocks. The theorems assume `WellFormed` only;
runs that take a later one of several cases to one block, which the exit bits
lose, are those `Covered` leaves out.

**Verdicts of a path formula** (`PathProofs`). The two properties speak of the
last step only; `Judging` carries to it what the checks rely on. `SameVerdict`, a
part of `Matches`, is kept by every step: an assertion that fails in a run is the
specification its model refutes, an error refutes its own on the block's path,
and a claim is stated of the names the block ends with. `Marked` says that path
bits are 0 or 1 in every model, so that fixing to 1 the bit the solver is asked
about changes no model on that path, and that the k-th specification has the k-th
path bit where only assertions are stated. At the end `Judged` has, for each run
covered, a model that refutes what the run violates, and the converse for
functions that may return. A run that fails then gives the solver its model
(`AsksWhatIsFalse`: the freed names may keep their values), and an answer of the
solver is a model in which the specification is false, as no name of it is freed
(`FindsWhatIsFalse`). `check_all_spec` asks on no path; that one assertion is on
the path (the last constraint) is enough when there is one specification.

**Induction.** The library's induction theorems take an operator and cannot be
used here. `NaturalSets` derives from the well-foundedness of finite sets that a
set of numbers has a least element, and from that induction over a set of numbers
(`SetInduction`); the inductions over N, over lists and over prefixes of a
function are instances.

Only model-checked:

* `Terminates` and `Ends`: liveness under fairness. `ENABLED` is out of reach.
* `DifferenceMakesPN`, `RecordedIsDifference` for `aggr_llvm_diff` (mode 4),
  which walks the function in the same way but accumulates over what it has
  `Seen`, in one of many orders, and adds constants by its own rules. What
  `DifferenceProofs` shows of P_N and of instructions holds in either mode; the
  invariants of a loop and of a block would have to be found anew.

## 6. Not modelled

* Nested loops in the renaming: the pass skips their blocks. In mode 6
  `simplify_nl` removes them before (`NoNestIsLeft`); mode 4 never calls it
  (`cinput.cpp:365-424`), so that what mode 4 does with a nested loop is in no model.
* How the formulas of the functions are joined (`generate_bmc`: several
  functions one after the other, the renaming of arrays between them), casts and
  arithmetic instructions (pure terms), the loop pass and the copying of segments
  (mode 3 unrolls loops; modes 4 and 6 have none left), `array_model_fixed_len` (a
  stub), the witness printer.
* In the difference passes: products of loads, several stores of one array under
  conditions, branches inside a loop in mode 6, a remainder nested in a sum
  (`isRemInStore` sees the top operation only), the glue loop of a division
  (`gen_fpdiv_glue_loop`), what z3's simplifier does to a difference (its value is
  modelled, not its form), and the functions after `aggr_llvm_diff.cpp:555`, which
  nothing calls.
* In nests: divisions, inner loops left by several exits or without a store,
  three levels.
* In pre-conditions: sums of more than two operands, quantified assertions,
  products. z3's `simplify` is modelled on the terms the passes build.
* The explicit construction of P_(N-1) and Q_(N-1) (`create_pnm1.cpp`,
  `create_qnm1.cpp`, `extract_peels.cpp`): its only call is under a constant that
  `options.h:95` sets to false, so that no run of the build reaches it.
* The aggregation solver (`aggregation.cpp`, mode 5): `options.cpp:133` calls it
  experimental. Tiling and the instrumentation for Daikon (modes 1 and 2, with
  `inv2smt`): another tool built from the same tree.
* The lists of blocks with gaps (`collect_fun_blocks.cpp`): the functions of the
  models are sequences of loops and blocks already. A block that leaves a loop
  early, laid out between two of its blocks, makes a second gap; the hazard is
  listed, and in no model.
* The maps the passes share (`ld_map`, `def_map`, ...) and the order of the passes.

The models translate what decides a verdict in modes 4 and 6, about 3500 lines.
Half of the repository's lines are benchmark programs in C; of the C++, the
larger part is other modes, helpers that build or print LLVM and z3 terms, and
code nothing calls. A model of those would say nothing about a verdict.

## 7. Plan

Done: the driver, the renaming, both difference passes with the way of the flag,
the path formulas, the nested loops, the pre-conditions. Left, in this order:

1. **Proofs.** The difference function of mode 4.
2. **Blocks**: layouts of blocks with early exits, as one list per loop, composed
   with the passes that walk it.
3. **Pipeline**: the maps and their `clear()` between the passes, over two
   functions and their clones.
4. **AggrSolver** (mode 5), if it leaves the experimental state.
