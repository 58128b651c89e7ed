----------------------------- MODULE ArraySsaRun -----------------------------
(***************************************************************************)
(* The function and its renamed form, run side by side once array_ssa is   *)
(* done.  The two take the same branches.  What a store writes is the      *)
(* store's identity, so that a load reads the same value in both when it   *)
(* sees the same store.                                                    *)
(***************************************************************************)
EXTENDS ArraySsa

CONSTANT Size   \* N: the number of elements of an array that is not static

ASSUME SizeAssumption == Size \in Nat \ {0}

VARIABLES
  item,   \* the item being run
  op,     \* the next operation of its body, or 0 between two items
  iter,   \* the loop counter
  mem,    \* who wrote each element, in the function
  ren,    \* and under each name, in the renamed function
  seen    \* what the last load read in the one and in the other

runVars == <<item, op, iter, mem, ren, seen>>

Elements(a) == IF a \in Static THEN {0} ELSE 0..(Size - 1)

InitialValue == <<0, 0, 0>>
Undefined    == <<0, 0, 1>>

Cells == UNION {{a} \X Elements(a) : a \in Arrays}

NamesMade == 0..Len(prog)

RunInit ==
  /\ Init
  /\ item = 1 /\ op = 0 /\ iter = 0
  /\ mem = [c \in Cells |-> InitialValue]
  /\ ren = [n \in NamesMade |-> [c \in Cells |-> IF n = 0 THEN InitialValue ELSE Undefined]]
  /\ seen = <<InitialValue, InitialValue>>

Item == prog[item]
Op   == Item.ops[op]

LastOf(it)  == IF it.loop THEN Size - 1 - it.short ELSE 0
FirstOf(it) == IF it.loop THEN it.first ELSE 0

Running == Done /\ item <= Len(prog)

(* The preheader, with the copies, runs when the loop has an iteration. *)
Enter ==
  /\ Running /\ op = 0
  /\ FirstOf(Item) <= LastOf(Item)
  /\ op' = 1 /\ iter' = FirstOf(Item)
  /\ ren' = [n \in NamesMade |-> [c \in Cells |->
       IF \E e \in copies[item] : e.to = n /\ <<e.arr, 0>> = c
       THEN ren[(CHOOSE e \in copies[item] : e.to = n /\ <<e.arr, 0>> = c).from][c]
       ELSE ren[n][c]]]
  /\ UNCHANGED <<vars, item, mem, seen>>

Skip ==
  /\ Running /\ op = 0
  /\ Item.guarded \/ FirstOf(Item) > LastOf(Item)
  /\ item' = item + 1
  /\ UNCHANGED <<vars, op, iter, mem, ren, seen>>

Element(o) ==
  CASE o.idx = "counter" -> iter
    [] o.idx = "below"   -> iter - 1
    [] o.idx = "above"   -> iter + 1
    [] o.idx = "zero"    -> 0

Cell == <<Op.arr, Element(Op)>>
InBody == Running /\ op \in DOMAIN Item.ops

(* An access of an element the array does not have is under a condition. *)
Pass ==
  /\ InBody
  /\ Op.guarded \/ Element(Op) \notin Elements(Op.arr)
  /\ op' = op + 1
  /\ UNCHANGED <<vars, item, iter, mem, ren, seen>>

Execute ==
  /\ InBody
  /\ Element(Op) \in Elements(Op.arr)
  /\ seen' = IF Op.kind \in {"load", "update"} THEN <<mem[Cell], ren[out[item][op]][Cell]>> ELSE seen
  /\ IF Op.kind \in Storing
     THEN /\ mem' = [mem EXCEPT ![Cell] = <<item, iter, op>>]
          /\ ren' = [ren EXCEPT ![out[item][op]][Cell] = <<item, iter, op>>]
     ELSE UNCHANGED <<mem, ren>>
  /\ op' = op + 1
  /\ UNCHANGED <<vars, item, iter>>

EndOfBody ==
  /\ Running /\ op > Len(Item.ops)
  /\ IF iter < LastOf(Item)
     THEN iter' = iter + 1 /\ op' = 1 /\ UNCHANGED item
     ELSE iter' = 0 /\ op' = 0 /\ item' = item + 1
  /\ UNCHANGED <<vars, mem, ren, seen>>

RunNext == (Next /\ UNCHANGED runVars) \/ Enter \/ Skip \/ Pass \/ Execute \/ EndOfBody

RunSpec == RunInit /\ [][RunNext]_<<vars, runVars>>

-----------------------------------------------------------------------------
(***************************************************************************)
(* What the renaming supports.  A scalar has only the element 0.  An item  *)
(* that updates an array again must run, and a loop that does must write   *)
(* each element of an array of size N at its counter, read an element at   *)
(* the counter or at 0 only before, or only after, it is written, and be   *)
(* free of compound assignments.  A block must store before it loads.      *)
(***************************************************************************)
UpdatedAgain(j, a) ==
  a \in Renamed(prog[j]) /\ \E i \in 1..(j - 1) : a \in Renamed(prog[i])

(* A store to a, with a guard in G, among the operations before the i-th. *)
Stored(ops, a, i, G) ==
  \E h \in 1..(i - 1) : ops[h].arr = a /\ ops[h].kind = "store" /\ ops[h].guarded \in G

StoredBefore(ops, i, G) == Stored(ops, ops[i].arr, i, G)

(* An unconditional store in every run of the body. *)
AlwaysStores(it, a) == Stored(it.ops, a, Len(it.ops) + 1, {FALSE})

MustRun(it) == ~it.guarded /\ FirstOf(it) <= LastOf(it)

ScalarsAtZero(it) == \A i \in DOMAIN it.ops : it.ops[i].arr \in Static => it.ops[i].idx = "zero"

Overwrites(it, a) ==
  /\ it.first = 0 /\ it.short = 0
  /\ AlwaysStores(it, a)
  /\ \A i \in DOMAIN it.ops : it.ops[i].arr = a /\ it.ops[i].kind = "store" => it.ops[i].idx = "counter"

ReadsInOrder(it, a) ==
  \A i \in DOMAIN it.ops :
    it.ops[i].arr = a /\ it.ops[i].kind = "load" /\ it.ops[i].idx = "zero"
      => StoredBefore(it.ops, i, {FALSE})

NoReadAfterStore(it, a) ==
  \A i \in DOMAIN it.ops :
    it.ops[i].arr = a /\ it.ops[i].kind = "load" /\ it.ops[i].idx = "counter"
      => ~StoredBefore(it.ops, i, BOOLEAN)

NoCompound(it, a) ==
  \A i \in DOMAIN it.ops : it.ops[i].arr = a => it.ops[i].kind # "update"

(* Everything a loop must satisfy but the order of an iteration's updates. *)
Regular ==
  \A j \in DOMAIN prog :
    /\ ScalarsAtZero(prog[j])
    /\ \A a \in Arrays : UpdatedAgain(j, a) =>
         /\ MustRun(prog[j])
         /\ NoCompound(prog[j], a)
         /\ prog[j].loop /\ a \notin Static => Overwrites(prog[j], a) /\ ReadsInOrder(prog[j], a)
         /\ ~prog[j].loop => AlwaysStores(prog[j], a) /\ ReadsInOrder(prog[j], a)

Supported ==
  /\ Regular
  /\ \A j \in DOMAIN prog : \A a \in Arrays \ Static :
       UpdatedAgain(j, a) => NoReadAfterStore(prog[j], a)

(***************************************************************************)
(* Every load of the renamed function sees the store it saw before.        *)
(***************************************************************************)
SameReads == Supported => seen[1] = seen[2]

(***************************************************************************)
(* Between two items the current name of each array holds the array: what  *)
(* the comment of process_loop (array_ssa.cpp:58-60) rests on, and what    *)
(* the assertions, which read the last names, are about.                   *)
(***************************************************************************)
CurrentNames ==
  Supported /\ Done /\ op = 0 /\ item > 1 =>
    \A c \in Cells : ren[ends[item - 1][c[1]]][c] = mem[c]

(***************************************************************************)
(* Why: the names the pass gives, and which of them hold which elements.   *)
(***************************************************************************)
(* The current names after the item j: 0 is before the first. *)
NamesAt(j) == IF j = 0 THEN [a \in Arrays |-> 0] ELSE ends[j]

(* A load the pass takes for one of what was there before the loop. *)
ReadsOld(it, o) == it.loop /\ o.kind = "load" /\ ~MayBeBelow(o.idx)

(* The current name changes where an array is updated again, and only a    *)
(* load of an element the loop has yet to write has the name from before.  *)
NamesGiven ==
  /\ \A j \in DOMAIN out :
       /\ ends[j] \in [Arrays -> 0..j]
       /\ \A a \in Arrays :
            ends[j][a] = IF UpdatedAgain(j, a) THEN NamesAt(j - 1)[a] + 1 ELSE NamesAt(j - 1)[a]
       /\ \A i \in DOMAIN out[j] :
            LET o == prog[j].ops[i] IN
            IF ~ReadsOld(prog[j], o) THEN out[j][i] = ends[j][o.arr]
            ELSE o.arr \notin Static => out[j][i] = NamesAt(j - 1)[o.arr]
       /\ copies[j] =
            {[arr |-> a, from |-> NamesAt(j - 1)[a], to |-> ends[j][a]] :
               a \in IF prog[j].loop THEN Written(prog[j]) \cap Static ELSE {}}
  /\ curr = NamesAt(Len(out))
  /\ \A a \in Arrays : a \notin Static \/ ~updated[a] => prev[a] = curr[a]
  /\ \A a \in Arrays : updated[a] <=> \E j \in DOMAIN out : a \in Renamed(prog[j])

(* In the middle of an item, the element x of a is under the name the item *)
(* stores to, once it is stored or copied ...                              *)
UnderNew(a, x) ==
  \/ ~UpdatedAgain(item, a)
  \/ a \in Static /\ Item.loop
  \/ a \notin Static /\ x < iter
  \/ (a \in Static \/ x = iter) /\ Stored(Item.ops, a, op, {FALSE})

(* ... and under the name from before the loop until it may be. *)
UnderOld(a, x) ==
  a \notin Static /\ (x > iter \/ (x = iter /\ ~Stored(Item.ops, a, op, BOOLEAN)))

NamesHold ==
  \A a \in Arrays : \A x \in Elements(a) :
    /\ op = 0 => ren[NamesAt(item - 1)[a]][<<a, x>>] = mem[<<a, x>>]
    /\ op # 0 /\ UnderNew(a, x) => ren[NamesAt(item)[a]][<<a, x>>] = mem[<<a, x>>]
    /\ op # 0 /\ UnderOld(a, x) => ren[NamesAt(item - 1)[a]][<<a, x>>] = mem[<<a, x>>]

RunTypeOK ==
  /\ item \in 1..(Len(prog) + 1) /\ op \in Nat /\ iter \in Nat
  /\ op # 0 => /\ Done /\ item <= Len(prog) /\ op <= Len(Item.ops) + 1
               /\ FirstOf(Item) <= iter /\ iter <= LastOf(Item)
  /\ item # 1 => Done
  /\ DOMAIN mem = Cells /\ DOMAIN ren = NamesMade /\ \A n \in NamesMade : DOMAIN ren[n] = Cells

(***************************************************************************)
(* The invariant both facts follow from.                                   *)
(***************************************************************************)
LockstepInv ==
  /\ NamesGiven
  /\ RunTypeOK
  /\ Supported => NamesHold /\ seen[1] = seen[2]

(* At the end of a loop whose last store is a second update of its element. *)
LastStoreAgain ==
  /\ Running /\ Item.loop /\ iter = LastOf(Item)
  /\ op = Len(Item.ops) + 1 /\ op > 1
  /\ LET last == Item.ops[op - 1] IN
       last.kind = "store" /\ \E h \in 1..(op - 2) :
         Item.ops[h].kind = "store" /\ Item.ops[h].arr = last.arr /\ Item.ops[h].idx = last.idx

(***************************************************************************)
(* array_ssa.cpp:58-60: several updates of an array in a loop may share a  *)
(* name "as we only need to know the value of the array at the end of the  *)
(* loop".  That value is what the last update computes from the load       *)
(* before it.  When an update comes before that load, the load reads the   *)
(* name from before the loop, so that the value at the end is not known.   *)
(***************************************************************************)
SharedNameSuffices == Regular /\ LastStoreAgain => seen[1] = seen[2]
=============================================================================
