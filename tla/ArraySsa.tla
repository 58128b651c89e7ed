------------------------------ MODULE ArraySsa ------------------------------
(***************************************************************************)
(* The pass array_ssa: a new name for an array wherever it is updated      *)
(* again.  The pass walks the loops and the blocks between them in program *)
(* order, allocates a name for each array the item stores to, and renames  *)
(* the item's loads and stores to the previous or to the current name.     *)
(*                                                                         *)
(* A name of array a is a number: 0 is the array's own allocation and      *)
(* n + 1 the one created when n was current.  All the code knows of an     *)
(* access is its array and where its index lies: at the loop counter,      *)
(* below it, above it, or at the constant 0.                               *)
(***************************************************************************)
EXTENDS Integers, Sequences, FiniteSets

CONSTANTS
  Arrays,    \* the arrays of the function
  Static,    \* those of constant size: the program's scalars, x[1]
  Programs   \* the functions: sequences of items

Indices == {"counter", "below", "above", "zero"}

(* An update is a compound assignment, a[i] += x: clang lets its load and  *)
(* its store share one address instruction.                                *)
Ops == [kind : {"load", "store", "update"}, arr : Arrays, idx : Indices,
        guarded : BOOLEAN]

(* A loop, from the element first to the one short of the last by short,   *)
(* or a block outside the loops.  Guarded: under a condition.              *)
Items == [loop : BOOLEAN, first : Nat, short : Nat, guarded : BOOLEAN, ops : Seq(Ops)]

ASSUME StaticAssumption == Static \subseteq Arrays
ASSUME FunctionsAssumption == Programs \subseteq Seq(Items)

VARIABLES
  prog,
  prev,      \* prev_arr_map: a name of each array
  curr,      \* curr_arr_map
  updated,   \* arr_updflag_map
  out,       \* the renamed items: the name each operation was given
  copies,    \* add_equality_stmt: the copies of element 0 before each item
  ends,      \* history: curr after each item
  thrown     \* a lookup in prev_arr_map has failed

vars == <<prog, prev, curr, updated, out, copies, ends, thrown>>

Storing == {"store", "update"}

(* populate_arr_rd_wr and collect_arr_n_glb_read_write: arrWrite's keys. *)
Written(item) == {item.ops[i].arr : i \in {j \in DOMAIN item.ops : item.ops[j].kind \in Storing}}

\* A bug create_new_names could have: arrays of size N are renamed in blocks too.
RenamedEverywhere(item) == Written(item)

(* create_new_names leaves arrays of size N written outside loops alone. *)
Renamed(item) == IF item.loop THEN Written(item) ELSE Written(item) \cap Static

(* Updated once before: a new allocation. *)
Fresh(item) == {a \in Renamed(item) : updated[a]}

\* A bug it could have: the flag of the new allocation is set, not the array's.
SetUpdatedNever(item) == updated

SetUpdated(item) == [a \in Arrays |-> updated[a] \/ a \in Renamed(item)]

(* update_prev_curr_maps at the new allocations. *)
NewPrev(item) == [a \in Arrays |-> IF a \in Fresh(item) THEN curr[a] ELSE prev[a]]

\* A bug process_loop could have: each store of an array gets a name of its own.
NewCurrPerStore(item) ==
  [a \in Arrays |-> curr[a] + IF a \notin Fresh(item) THEN 0
     ELSE Cardinality({i \in DOMAIN item.ops : item.ops[i].arr = a /\ item.ops[i].kind \in Storing})]

NewCurr(item) == [a \in Arrays |-> IF a \in Fresh(item) THEN curr[a] + 1 ELSE curr[a]]

(* check_sat(ctr > idx): the element may have been written by this loop. *)
MayBeBelow(idx) == idx \in {"below", "zero"}

(* rename_arr_in_block *)
LoadName(item, op) ==
  IF item.loop /\ ~MayBeBelow(op.idx) THEN NewPrev(item)[op.arr] ELSE NewCurr(item)[op.arr]

StoreName(item, op) == NewCurr(item)[op.arr]

(* The store of an update is the last to set the operand of the address. *)
NameOf(item, op) ==
  IF op.kind = "load" THEN LoadName(item, op) ELSE StoreName(item, op)

(* Renaming an update's load has renamed the address its store looks up. *)
LookupFails(item) ==
  \E i \in DOMAIN item.ops :
    item.ops[i].kind = "update" /\ LoadName(item, item.ops[i]) # 0

RenamedOps(item) == [i \in DOMAIN item.ops |-> NameOf(item, item.ops[i])]

(* remap_store in a loop: the preheader copies element 0 of static arrays. *)
EqualityStmts(item) ==
  {[arr |-> a, from |-> NewPrev(item)[a], to |-> NewCurr(item)[a]] :
     a \in Written(item) \cap Static}

-----------------------------------------------------------------------------
Pos == Len(out) + 1

Init ==
  /\ prog \in Programs
  /\ prev = [a \in Arrays |-> 0] /\ curr = [a \in Arrays |-> 0]
  /\ updated = [a \in Arrays |-> FALSE]
  /\ out = <<>> /\ copies = <<>> /\ ends = <<>>
  /\ thrown = FALSE

Working == Pos <= Len(prog) /\ ~thrown

\* A bug process_loop could have: the final update of prev_arr_map is missing.
SettledNever(item) == NewPrev(item)

(* The loop's arrays start the next item with one name. *)
Settled(item) ==
  [a \in Arrays |-> IF a \in Written(item) THEN NewCurr(item)[a] ELSE NewPrev(item)[a]]

Rename(item) ==
  /\ ~LookupFails(item)
  /\ out' = Append(out, RenamedOps(item))
  /\ curr' = NewCurr(item)
  /\ ends' = Append(ends, NewCurr(item))
  /\ updated' = SetUpdated(item)
  /\ UNCHANGED <<prog, thrown>>

ProcessLoop ==
  /\ Working /\ prog[Pos].loop
  /\ Rename(prog[Pos])
  /\ prev' = Settled(prog[Pos])
  /\ copies' = Append(copies, EqualityStmts(prog[Pos]))

ProcessOuterBlock ==
  /\ Working /\ ~prog[Pos].loop
  /\ Rename(prog[Pos])
  /\ prev' = NewPrev(prog[Pos])
  /\ copies' = Append(copies, {})

(* prev_arr_map.at throws and nothing catches it. *)
Throw ==
  /\ Working /\ LookupFails(prog[Pos])
  /\ thrown' = TRUE
  /\ UNCHANGED <<prog, prev, curr, updated, out, copies, ends>>

Next == ProcessLoop \/ ProcessOuterBlock \/ Throw

Spec == Init /\ [][Next]_vars

Done == Pos > Len(prog)

-----------------------------------------------------------------------------
(***************************************************************************)
(* The maps and the renamed items keep their types; the names made are at  *)
(* most as many as the items the pass has been through.                    *)
(***************************************************************************)
TypeOK ==
  /\ prog \in Seq(Items)
  /\ Pos \in 1..(Len(prog) + 1)
  /\ prev \in [Arrays -> 0..Len(out)] /\ curr \in [Arrays -> 0..Len(out)]
  /\ updated \in [Arrays -> BOOLEAN]
  /\ out \in Seq(Seq(Nat))
  /\ copies \in Seq(SUBSET [arr : Static, from : Nat, to : Nat]) /\ Len(copies) = Len(out)
  /\ ends \in Seq([Arrays -> Nat]) /\ Len(ends) = Len(out)
  /\ \A j \in DOMAIN out : out[j] \in [DOMAIN prog[j].ops -> 0..j]
  /\ thrown \in BOOLEAN

(***************************************************************************)
(* Single assignment: two items that rename an array never store to it     *)
(* under one name, and the later one has the later name.  The passes that  *)
(* subtract P_(N-1) from P_N compare arrays by these names.                *)
(***************************************************************************)
StoreNames(j, a) ==
  {out[j][i] : i \in {x \in DOMAIN out[j] : prog[j].ops[x].arr = a /\ prog[j].ops[x].kind \in Storing}}

SingleAssignment ==
  \A i, j \in DOMAIN out : \A a \in Renamed(prog[i]) \cap Renamed(prog[j]) :
    i < j => \A m \in StoreNames(i, a), n \in StoreNames(j, a) : m < n
=============================================================================
