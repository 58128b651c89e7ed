--------------------------- MODULE ArraySsaProofs ---------------------------
(***************************************************************************)
(* Proofs about array_ssa, for every set of arrays, every function and     *)
(* every N: the pass keeps its types and gives single assignment, and the  *)
(* renamed function reads what the function reads.                         *)
(***************************************************************************)
EXTENDS ArraySsaRun, SequenceTheorems, TLAPS

(* The shape of an item, and where its operations lead. *)
LEMMA ItemFields ==
  ASSUME NEW it \in Items
  PROVE  /\ it.ops \in Seq(Ops) /\ it.loop \in BOOLEAN
         /\ \A i \in DOMAIN it.ops : it.ops[i].arr \in Arrays
         /\ Written(it) \subseteq Arrays /\ Renamed(it) \subseteq Arrays
<1>1. it.ops \in Seq(Ops) /\ it.loop \in BOOLEAN
  BY DEF Items
<1>2. \A i \in DOMAIN it.ops : it.ops[i] \in Ops
  BY <1>1
<1>3. \A i \in DOMAIN it.ops : it.ops[i].arr \in Arrays
  BY <1>2 DEF Ops
<1>4. Written(it) \subseteq Arrays
  BY <1>3 DEF Written
<1> QED
  BY <1>1, <1>3, <1>4 DEF Renamed

LEMMA NewNames ==
  ASSUME TypeOK, NEW it \in Items
  PROVE  /\ NewPrev(it) \in [Arrays -> 0..(Len(out) + 1)]
         /\ NewCurr(it) \in [Arrays -> 0..(Len(out) + 1)]
         /\ Settled(it) \in [Arrays -> 0..(Len(out) + 1)]
         /\ SetUpdated(it) \in [Arrays -> BOOLEAN]
<1> DEFINE L == Len(out)
<1>1. L \in Nat
  BY DEF TypeOK, Pos
<1>2. /\ \A a \in Arrays : prev[a] \in 0..L /\ curr[a] \in 0..L
      /\ \A a \in Arrays : updated[a] \in BOOLEAN
  BY DEF TypeOK
<1> HIDE DEF L
<1>3. NewPrev(it) \in [Arrays -> 0..(L + 1)]
  BY <1>1, <1>2 DEF NewPrev
<1>4. NewCurr(it) \in [Arrays -> 0..(L + 1)]
  BY <1>1, <1>2 DEF NewCurr
<1>5. Settled(it) \in [Arrays -> 0..(L + 1)]
  BY <1>3, <1>4 DEF Settled
<1>6. SetUpdated(it) \in [Arrays -> BOOLEAN]
  BY <1>2 DEF SetUpdated
<1> QED
  BY <1>3, <1>4, <1>5, <1>6 DEF L

LEMMA RenamedType ==
  ASSUME TypeOK, NEW it \in Items
  PROVE  /\ RenamedOps(it) \in [DOMAIN it.ops -> 0..(Len(out) + 1)]
         /\ RenamedOps(it) \in Seq(Nat)
         /\ EqualityStmts(it) \in SUBSET [arr : Static, from : Nat, to : Nat]
<1> DEFINE L == Len(out)
<1>1. L \in Nat
  BY DEF TypeOK
<1>2. /\ NewPrev(it) \in [Arrays -> 0..(L + 1)] /\ NewCurr(it) \in [Arrays -> 0..(L + 1)]
      /\ it.ops \in Seq(Ops) /\ \A i \in DOMAIN it.ops : it.ops[i].arr \in Arrays
  BY NewNames, ItemFields
<1>3. \A i \in DOMAIN it.ops : NameOf(it, it.ops[i]) \in 0..(L + 1)
  BY <1>2 DEF NameOf, LoadName, StoreName
<1> HIDE DEF L
<1>4. RenamedOps(it) \in [DOMAIN it.ops -> 0..(L + 1)]
  BY <1>3 DEF RenamedOps
<1>5. RenamedOps(it) \in [DOMAIN it.ops -> Nat]
  BY <1>1, <1>4
<1>6. DOMAIN it.ops = 1..Len(it.ops) /\ Len(it.ops) \in Nat
  BY <1>2
<1>7. RenamedOps(it) \in Seq(Nat)
  BY <1>5, <1>6, SeqDef
<1>8. EqualityStmts(it) \in SUBSET [arr : Static, from : Nat, to : Nat]
  BY <1>1, <1>2, StaticAssumption DEF EqualityStmts
<1> QED
  BY <1>4, <1>7, <1>8 DEF L

LEMMA TypeInit == Init => TypeOK
<1> SUFFICES ASSUME Init PROVE TypeOK
  OBVIOUS
<1>1. prog \in Seq(Items) /\ Len(prog) \in Nat
  BY FunctionsAssumption DEF Init
<1>2. /\ out = <<>> /\ copies = <<>> /\ ends = <<>> /\ thrown = FALSE
      /\ Len(<<>>) = 0 /\ DOMAIN <<>> = {}
  BY DEF Init
<1>3. /\ prev \in [Arrays -> 0..Len(out)] /\ curr \in [Arrays -> 0..Len(out)]
      /\ updated \in [Arrays -> BOOLEAN]
  BY <1>2 DEF Init
<1>4. out \in Seq(Seq(Nat)) /\ \A j \in DOMAIN out : out[j] \in [DOMAIN prog[j].ops -> 0..j]
  BY <1>2
<1>5. /\ copies \in Seq(SUBSET [arr : Static, from : Nat, to : Nat]) /\ Len(copies) = Len(out)
      /\ ends \in Seq([Arrays -> Nat]) /\ Len(ends) = Len(out)
  BY <1>2
<1>6. Pos \in 1..(Len(prog) + 1)
  BY <1>1, <1>2 DEF Pos
<1> QED
  BY <1>1, <1>2, <1>3, <1>4, <1>5, <1>6 DEF TypeOK

(* What renaming one item does to the sequences. *)
LEMMA RenameStep ==
  ASSUME TypeOK, Pos <= Len(prog), Rename(prog[Pos]),
         NEW C \in SUBSET [arr : Static, from : Nat, to : Nat],
         copies' = Append(copies, C), prev' \in [Arrays -> 0..(Len(out) + 1)]
  PROVE  TypeOK'
<1> DEFINE it == prog[Pos]
           L == Len(out)
<1>1. /\ prog \in Seq(Items) /\ Len(prog) \in Nat /\ L \in Nat
      /\ out \in Seq(Seq(Nat)) /\ prog' = prog
  BY DEF TypeOK, Rename
<1>2. Pos = L + 1 /\ Pos \in DOMAIN prog /\ it \in Items
  BY <1>1 DEF Pos
<1>3. /\ RenamedOps(it) \in [DOMAIN it.ops -> 0..(L + 1)]
      /\ RenamedOps(it) \in Seq(Nat)
  BY <1>2, RenamedType
<1>4. /\ NewCurr(it) \in [Arrays -> 0..(L + 1)]
      /\ SetUpdated(it) \in [Arrays -> BOOLEAN]
  BY <1>2, NewNames
<1>5. out' = Append(out, RenamedOps(it))
  BY DEF Rename
<1>6. /\ out' \in Seq(Seq(Nat)) /\ Len(out') = L + 1
      /\ \A j \in 1..L : out'[j] = out[j]
      /\ out'[L + 1] = RenamedOps(it)
  BY <1>1, <1>3, <1>5, AppendProperties
<1>7. \A j \in DOMAIN out' : out'[j] \in [DOMAIN prog'[j].ops -> 0..j]
  <2> SUFFICES ASSUME NEW j \in DOMAIN out' PROVE out'[j] \in [DOMAIN prog[j].ops -> 0..j]
    BY <1>1
  <2>1. DOMAIN out' = 1..(L + 1) /\ DOMAIN out = 1..L
    BY <1>1, <1>6
  <2>2. CASE j = L + 1
    BY <2>2, <1>2, <1>3, <1>6
  <2>3. CASE j \in 1..L
    BY <2>1, <2>3, <1>6 DEF TypeOK
  <2> QED
    BY <2>1, <2>2, <2>3, <1>1
<1>8. /\ copies' \in Seq(SUBSET [arr : Static, from : Nat, to : Nat]) /\ Len(copies') = L + 1
  BY AppendProperties DEF TypeOK
<1>9. NewCurr(it) \in [Arrays -> Nat]
  BY <1>1, <1>4
<1>10. ends' \in Seq([Arrays -> Nat]) /\ Len(ends') = L + 1
  BY <1>9, AppendProperties DEF TypeOK, Rename
<1>11. Pos' \in 1..(Len(prog') + 1)
  BY <1>1, <1>2, <1>6 DEF Pos
<1>12. curr' \in [Arrays -> 0..Len(out')] /\ updated' \in [Arrays -> BOOLEAN]
  BY <1>4, <1>6 DEF Rename
<1>13. thrown' \in BOOLEAN
  BY DEF TypeOK, Rename
<1> QED
  BY <1>1, <1>6, <1>7, <1>8, <1>10, <1>11, <1>12, <1>13 DEF TypeOK

LEMMA TypeStep == TypeOK /\ [Next]_vars => TypeOK'
<1> SUFFICES ASSUME TypeOK, [Next]_vars PROVE TypeOK'
  OBVIOUS
<1>1. Working => prog[Pos] \in Items /\ Pos <= Len(prog)
  BY DEF TypeOK, Working, Pos
<1>2. CASE ProcessLoop
  <2>1. prog[Pos] \in Items /\ Pos <= Len(prog)
    BY <1>1, <1>2 DEF ProcessLoop
  <2>2. EqualityStmts(prog[Pos]) \in SUBSET [arr : Static, from : Nat, to : Nat]
    BY <2>1, RenamedType
  <2>3. Settled(prog[Pos]) \in [Arrays -> 0..(Len(out) + 1)]
    BY <2>1, NewNames
  <2> QED
    BY <1>2, <2>1, <2>2, <2>3, RenameStep DEF ProcessLoop
<1>3. CASE ProcessOuterBlock
  <2>1. prog[Pos] \in Items /\ Pos <= Len(prog)
    BY <1>1, <1>3 DEF ProcessOuterBlock
  <2>2. NewPrev(prog[Pos]) \in [Arrays -> 0..(Len(out) + 1)]
    BY <2>1, NewNames
  <2>3. {} \in SUBSET [arr : Static, from : Nat, to : Nat]
    OBVIOUS
  <2> QED
    BY <1>3, <2>1, <2>2, <2>3, RenameStep DEF ProcessOuterBlock
<1>4. CASE Throw
  BY <1>4 DEF Throw, TypeOK, Pos
<1>5. CASE UNCHANGED vars
  BY <1>5 DEF vars, TypeOK, Pos
<1> QED
  BY <1>2, <1>3, <1>4, <1>5 DEF Next

(***************************************************************************)
(* The pass keeps its types on every function (array_ssa.cpp:36-130).      *)
(***************************************************************************)
THEOREM PassTypeCorrect == Spec => []TypeOK
  BY TypeInit, TypeStep, PTL DEF Spec

-----------------------------------------------------------------------------
(***************************************************************************)
(* Single assignment.  The flag of an array records whether an item before *)
(* has renamed it, and no such item uses a name later than the current one:*)
(* the item that renames it next allocates a later name.                   *)
(***************************************************************************)
FlagInv ==
  \A a \in Arrays : updated[a] <=> \E j \in DOMAIN out : a \in Renamed(prog[j])

BelowCurr ==
  \A j \in DOMAIN out : \A a \in Renamed(prog[j]) : \A n \in StoreNames(j, a) : n <= curr[a]

NameInv == FlagInv /\ BelowCurr /\ SingleAssignment

LEMMA NameInit == Init => NameInv
<1> SUFFICES ASSUME Init PROVE NameInv
  OBVIOUS
<1>1. DOMAIN out = {} /\ \A a \in Arrays : updated[a] = FALSE
  BY DEF Init
<1> QED
  BY <1>1 DEF NameInv, FlagInv, BelowCurr, SingleAssignment

LEMMA NameRename ==
  ASSUME TypeOK, TypeOK', NameInv, Pos <= Len(prog), Rename(prog[Pos])
  PROVE  NameInv'
<1> DEFINE it == prog[Pos]
           L == Len(out)
<1>1. /\ L \in Nat /\ Pos = L + 1 /\ prog' = prog /\ it \in Items
      /\ out \in Seq(Seq(Nat)) /\ DOMAIN out = 1..L
  BY DEF TypeOK, Rename, Pos
<1>2. /\ RenamedOps(it) \in Seq(Nat) /\ it.ops \in Seq(Ops)
      /\ Renamed(it) \subseteq Arrays
      /\ \A i \in DOMAIN it.ops : it.ops[i].arr \in Arrays
  BY <1>1, RenamedType, ItemFields
<1>3. out' = Append(out, RenamedOps(it))
  BY DEF Rename
<1>4. /\ DOMAIN out' = 1..(L + 1)
      /\ \A j \in 1..L : out'[j] = out[j]
      /\ out'[L + 1] = RenamedOps(it)
  BY <1>1, <1>2, <1>3, AppendProperties
<1>5. \A j \in DOMAIN out : \A a : StoreNames(j, a)' = StoreNames(j, a)
  BY <1>1, <1>4 DEF StoreNames
<1>6. \A j \in DOMAIN out' : \A a \in Arrays : \A n \in StoreNames(j, a)' :
        j = L + 1 => n = NewCurr(it)[a]
  <2> SUFFICES ASSUME NEW j \in DOMAIN out', NEW a \in Arrays, NEW n \in StoreNames(j, a)', j = L + 1
               PROVE  n = NewCurr(it)[a]
    OBVIOUS
  <2>1. PICK x \in DOMAIN RenamedOps(it) :
          n = RenamedOps(it)[x] /\ it.ops[x].arr = a /\ it.ops[x].kind \in Storing
    BY <1>1, <1>4 DEF StoreNames
  <2>2. x \in DOMAIN it.ops /\ n = NameOf(it, it.ops[x])
    BY <2>1 DEF RenamedOps
  <2>3. it.ops[x].kind # "load"
    BY <2>1 DEF Storing
  <2> QED
    BY <2>1, <2>2, <2>3 DEF NameOf, StoreName
<1>7. \A a \in Arrays : curr[a] \in Nat /\ updated[a] \in BOOLEAN
  BY <1>1 DEF TypeOK
<1>8. /\ \A a \in Arrays : curr'[a] = NewCurr(it)[a]
      /\ \A a \in Arrays : curr'[a] \in Nat /\ curr'[a] >= curr[a]
      /\ \A a \in Arrays : updated[a] /\ a \in Renamed(it) => curr'[a] = curr[a] + 1
  BY <1>7 DEF Rename, NewCurr, Fresh
<1>9. \A a \in Arrays : updated'[a] <=> (updated[a] \/ a \in Renamed(it))
  BY <1>7 DEF Rename, SetUpdated
<1>10. \A j \in DOMAIN out : Renamed(prog[j]) \subseteq Arrays
  <2> TAKE j \in DOMAIN out
  <2>1. prog[j] \in Items
    BY <1>1 DEF TypeOK
  <2> QED
    BY <2>1, ItemFields
<1>11. FlagInv'
  <2> SUFFICES ASSUME NEW a \in Arrays
               PROVE  updated'[a] <=> \E j \in DOMAIN out' : a \in Renamed(prog[j])
    BY <1>1 DEF FlagInv
  <2>1. updated[a] <=> \E j \in 1..L : a \in Renamed(prog[j])
    BY <1>1 DEF NameInv, FlagInv
  <2>2. \A j : j \in DOMAIN out' <=> j \in 1..L \/ j = L + 1
    BY <1>1, <1>4
  <2> HIDE DEF L
  <2>3. (\E j \in DOMAIN out' : a \in Renamed(prog[j]))
          <=> (\E j \in 1..L : a \in Renamed(prog[j])) \/ a \in Renamed(prog[L + 1])
    BY <2>2
  <2> QED
    BY <2>1, <2>3, <1>1, <1>9
<1>12. \A j \in DOMAIN out : \A a \in Renamed(prog[j]) : \A n \in StoreNames(j, a) : n \in Nat
  <2> SUFFICES ASSUME NEW j \in DOMAIN out, NEW a, NEW n \in StoreNames(j, a) PROVE n \in Nat
    OBVIOUS
  <2>1. out[j] \in Seq(Nat)
    BY <1>1
  <2> QED
    BY <2>1 DEF StoreNames
<1>13. BelowCurr'
  <2> SUFFICES ASSUME NEW j \in DOMAIN out', NEW a \in Renamed(prog[j]),
                      NEW n \in StoreNames(j, a)'
               PROVE  n <= curr'[a]
    BY <1>1 DEF BelowCurr
  <2>1. CASE j = L + 1
    <3>1. a \in Arrays
      BY <2>1, <1>1, <1>2
    <3>2. n = NewCurr(it)[a]
      BY <2>1, <3>1, <1>6
    <3>3. n = curr'[a] /\ curr'[a] \in Nat
      BY <3>1, <3>2, <1>8
    <3> QED
      BY <3>3
  <2>2. CASE j \in DOMAIN out
    <3>1. n \in StoreNames(j, a) /\ a \in Arrays
      BY <2>2, <1>5, <1>10
    <3>2. n <= curr[a] /\ n \in Nat
      BY <2>2, <3>1, <1>12 DEF NameInv, BelowCurr
    <3>3. curr'[a] \in Nat /\ curr'[a] >= curr[a]
      BY <3>1, <1>7, <1>8 DEF TypeOK
    <3> QED
      BY <3>1, <3>2, <3>3, <1>7
  <2> QED
    BY <2>1, <2>2, <1>1, <1>4
<1>14. SingleAssignment'
  <2> SUFFICES ASSUME NEW i \in DOMAIN out', NEW j \in DOMAIN out',
                      NEW a \in Renamed(prog[i]) \cap Renamed(prog[j]), i < j,
                      NEW m \in StoreNames(i, a)', NEW n \in StoreNames(j, a)'
               PROVE  m < n
    BY <1>1 DEF SingleAssignment
  <2>1. i \in DOMAIN out
    BY <1>1, <1>4
  <2>2. m \in StoreNames(i, a) /\ a \in Arrays
    BY <2>1, <1>5, <1>10
  <2>3. CASE j \in DOMAIN out
    BY <2>1, <2>2, <2>3, <1>5 DEF NameInv, SingleAssignment
  <2>4. CASE j = L + 1
    <3>1. updated[a]
      BY <2>1, <2>2 DEF NameInv, FlagInv
    <3>2. n = curr[a] + 1
      BY <2>2, <2>4, <3>1, <1>1, <1>6, <1>8
    <3>3. m <= curr[a] /\ m \in Nat
      BY <2>1, <2>2, <1>12 DEF NameInv, BelowCurr
    <3> QED
      BY <3>2, <3>3, <2>2, <1>7
  <2> QED
    BY <2>3, <2>4, <1>1, <1>4
<1> QED
  BY <1>11, <1>13, <1>14 DEF NameInv

LEMMA NameStep == TypeOK /\ TypeOK' /\ NameInv /\ [Next]_vars => NameInv'
<1> SUFFICES ASSUME TypeOK, TypeOK', NameInv, [Next]_vars PROVE NameInv'
  OBVIOUS
<1>1. CASE ProcessLoop
  BY <1>1, NameRename DEF ProcessLoop, Working
<1>2. CASE ProcessOuterBlock
  BY <1>2, NameRename DEF ProcessOuterBlock, Working
<1>3. CASE UNCHANGED <<prog, out, curr, updated>>
  BY <1>3 DEF NameInv, FlagInv, BelowCurr, SingleAssignment, StoreNames
<1>4. CASE Throw
  BY <1>3, <1>4 DEF Throw
<1>5. CASE UNCHANGED vars
  BY <1>3, <1>5 DEF vars
<1> QED
  BY <1>1, <1>2, <1>4, <1>5 DEF Next

(***************************************************************************)
(* Two items that rename an array never store to it under one name         *)
(* (create_new_names, array_ssa.cpp:92-113).                               *)
(***************************************************************************)
THEOREM NamesAssignedOnce == Spec => []SingleAssignment
<1>1. NameInv => SingleAssignment
  BY DEF NameInv
<1> QED
  BY <1>1, NameInit, NameStep, PassTypeCorrect, PTL DEF Spec

(* Running the two functions leaves the pass's variables alone. *)
LEMMA RunIsPass == RunSpec => Spec
<1>1. RunInit => Init
  BY DEF RunInit
<1>2. [RunNext]_<<vars, runVars>> => [Next]_vars
  BY DEF RunNext, Enter, Skip, Pass, Execute, EndOfBody
<1> QED
  BY <1>1, <1>2, PTL DEF RunSpec, Spec

(***************************************************************************)
(* The two facts hold of the system whose runs are checked.                *)
(***************************************************************************)
THEOREM RunTypeCorrect == RunSpec => []TypeOK
  BY RunIsPass, PassTypeCorrect

THEOREM RunNamesAssignedOnce == RunSpec => []SingleAssignment
  BY RunIsPass, NamesAssignedOnce

(***************************************************************************)
(* The renamed function runs beside the function: for every function,      *)
(* every set of arrays and every N, each of its loads sees the store the   *)
(* load of the function sees, and between two items the current names hold *)
(* the arrays.                                                             *)
(***************************************************************************)

(***************************************************************************)
(* The names the pass gives.                                               *)
(***************************************************************************)
LEMMA NamesGivenInit == Init => NamesGiven
<1> SUFFICES ASSUME Init PROVE NamesGiven
  OBVIOUS
<1>1. DOMAIN out = {} /\ Len(out) = 0
  BY DEF Init
<1>2. /\ curr = [a \in Arrays |-> 0]
      /\ \A a \in Arrays : prev[a] = curr[a] /\ updated[a] = FALSE
  BY DEF Init
<1> QED
  BY <1>1, <1>2 DEF NamesGiven, NamesAt

(* What the item at hand, the one after n others, does to the maps. *)
LEMMA MapsOfItem ==
  ASSUME TypeOK, NamesGiven, Working, NEW n, n = Len(out), NEW it, it = prog[Pos]
  PROVE  /\ n \in Nat /\ Pos = n + 1 /\ DOMAIN out = 1..n
         /\ it \in Items /\ it = prog[n + 1] /\ it.loop \in BOOLEAN
         /\ Renamed(it) \subseteq Arrays /\ Written(it) \subseteq Arrays
         /\ \A a \in Arrays : a \in Fresh(it) <=> UpdatedAgain(n + 1, a)
         /\ \A a \in Arrays : NewCurr(it)[a] =
              IF UpdatedAgain(n + 1, a) THEN NamesAt(n)[a] + 1 ELSE NamesAt(n)[a]
         /\ \A a \in Arrays :
              a \notin Static \/ ~updated[a] \/ a \in Renamed(it) => NewPrev(it)[a] = NamesAt(n)[a]
<1>1. n \in Nat /\ Pos = n + 1 /\ DOMAIN out = 1..n
  BY DEF TypeOK, Pos
<1>2. it \in Items /\ it = prog[n + 1]
  BY <1>1 DEF TypeOK, Working
<1>3. Renamed(it) \subseteq Arrays /\ Written(it) \subseteq Arrays /\ it.loop \in BOOLEAN
  BY <1>2, ItemFields
<1>4. \A a \in Arrays : updated[a] <=> \E j \in 1..n : a \in Renamed(prog[j])
  BY <1>1 DEF NamesGiven
<1>5. \A a \in Arrays : a \in Fresh(it) <=> UpdatedAgain(n + 1, a)
  <2>1. \A a \in Arrays : UpdatedAgain(n + 1, a)
                            <=> a \in Renamed(it) /\ \E j \in 1..n : a \in Renamed(prog[j])
    BY <1>1, <1>2 DEF UpdatedAgain
  <2> QED
    BY <1>4, <2>1 DEF Fresh
<1>6. curr = NamesAt(n) /\ \A a \in Arrays : a \notin Static \/ ~updated[a] => prev[a] = curr[a]
  BY DEF NamesGiven
<1>7. \A a \in Arrays : NewCurr(it)[a] =
        IF UpdatedAgain(n + 1, a) THEN NamesAt(n)[a] + 1 ELSE NamesAt(n)[a]
  BY <1>5, <1>6 DEF NewCurr
<1>8. \A a \in Arrays :
        a \notin Static \/ ~updated[a] \/ a \in Renamed(it) => NewPrev(it)[a] = NamesAt(n)[a]
  BY <1>6 DEF NewPrev, Fresh
<1> QED
  BY <1>1, <1>2, <1>3, <1>5, <1>7, <1>8

(* The names the operations of the item are given. *)
LEMMA NamesOfItem ==
  ASSUME TypeOK, NamesGiven, Working, NEW n, n = Len(out), NEW it, it = prog[Pos],
         NEW i \in DOMAIN it.ops
  PROVE  IF ~ReadsOld(it, it.ops[i]) THEN RenamedOps(it)[i] = NewCurr(it)[it.ops[i].arr]
         ELSE it.ops[i].arr \notin Static => RenamedOps(it)[i] = NamesAt(n)[it.ops[i].arr]
<1> DEFINE o == it.ops[i]
<1>1. it \in Items /\ \A a \in Arrays : a \notin Static => NewPrev(it)[a] = NamesAt(n)[a]
  BY MapsOfItem
<1>2. o.arr \in Arrays
  BY <1>1, ItemFields
<1>3. RenamedOps(it)[i] = NameOf(it, o)
  BY DEF RenamedOps
<1> HIDE DEF o
<1>4. ~ReadsOld(it, o) => NameOf(it, o) = NewCurr(it)[o.arr]
  BY DEF ReadsOld, NameOf, LoadName, StoreName
<1>5. ReadsOld(it, o) => NameOf(it, o) = NewPrev(it)[o.arr]
  BY DEF ReadsOld, NameOf, LoadName
<1> QED
  BY <1>1, <1>2, <1>3, <1>4, <1>5 DEF o

LEMMA CopiesOfLoop ==
  ASSUME TypeOK, NamesGiven, Working, NEW n, n = Len(out), NEW it, it = prog[Pos], it.loop
  PROVE  EqualityStmts(it) =
           {[arr |-> a, from |-> NamesAt(n)[a], to |-> NewCurr(it)[a]] : a \in Written(it) \cap Static}
<1>1. /\ Written(it) \subseteq Arrays
      /\ \A a \in Arrays : a \in Renamed(it) => NewPrev(it)[a] = NamesAt(n)[a]
  BY MapsOfItem
<1>2. Renamed(it) = Written(it)
  BY DEF Renamed
<1>3. \A a \in Written(it) \cap Static : NewPrev(it)[a] = NamesAt(n)[a]
  BY <1>1, <1>2
<1> QED
  BY <1>3 DEF EqualityStmts

(* The array has one name when the next item begins. *)
LEMMA PrevIsCurr ==
  ASSUME TypeOK, NamesGiven, Working, NEW n, n = Len(out), NEW it, it = prog[Pos],
         NEW a \in Arrays, a \notin Static \/ ~(updated[a] \/ a \in Renamed(it))
  PROVE  /\ it.loop => Settled(it)[a] = NewCurr(it)[a]
         /\ ~it.loop => NewPrev(it)[a] = NewCurr(it)[a]
<1>1. prev[a] = curr[a]
  BY DEF NamesGiven
<1>2. a \notin Renamed(it) => NewPrev(it)[a] = curr[a] /\ NewCurr(it)[a] = curr[a]
  BY <1>1 DEF NewPrev, NewCurr, Fresh
<1>3. it.loop => Renamed(it) = Written(it)
  BY DEF Renamed
<1>4. ~it.loop => a \notin Renamed(it)
  BY DEF Renamed
<1> QED
  BY <1>2, <1>3, <1>4 DEF Settled

LEMMA NamesGivenRename ==
  ASSUME TypeOK, NamesGiven, NameInv', Working, Rename(prog[Pos]),
         \/ /\ prog[Pos].loop /\ prev' = Settled(prog[Pos])
            /\ copies' = Append(copies, EqualityStmts(prog[Pos]))
         \/ /\ ~prog[Pos].loop /\ prev' = NewPrev(prog[Pos])
            /\ copies' = Append(copies, {})
  PROVE  NamesGiven'
<1>1. PICK n : n = Len(out)
  OBVIOUS
<1>2. PICK it : it = prog[Pos]
  OBVIOUS
<1>3. /\ n \in Nat /\ Pos = n + 1 /\ DOMAIN out = 1..n
      /\ it \in Items /\ it = prog[n + 1] /\ it.loop \in BOOLEAN
      /\ Renamed(it) \subseteq Arrays
      /\ \A a \in Arrays : NewCurr(it)[a] =
           IF UpdatedAgain(n + 1, a) THEN NamesAt(n)[a] + 1 ELSE NamesAt(n)[a]
  BY <1>1, <1>2, MapsOfItem
<1>4. prog' = prog /\ out \in Seq(Seq(Nat)) /\ Len(ends) = n /\ Len(copies) = n
  BY <1>1 DEF TypeOK, Rename
<1>5. /\ NewCurr(it) \in [Arrays -> 0..(n + 1)] /\ NewCurr(it) \in [Arrays -> Nat]
      /\ RenamedOps(it) \in Seq(Nat)
  <2>1. NewCurr(it) \in [Arrays -> 0..(n + 1)] /\ RenamedOps(it) \in Seq(Nat)
    BY <1>1, <1>3, NewNames, RenamedType
  <2> QED
    BY <1>3, <2>1
<1>6. /\ out' = Append(out, RenamedOps(it)) /\ ends' = Append(ends, NewCurr(it))
      /\ curr' = NewCurr(it) /\ updated' = SetUpdated(it)
  BY <1>2 DEF Rename
<1>7. /\ DOMAIN out' = 1..(n + 1) /\ Len(out') = n + 1
      /\ \A j \in 1..n : out'[j] = out[j]
      /\ out'[n + 1] = RenamedOps(it)
  BY <1>1, <1>4, <1>5, <1>6, AppendProperties
<1>8. (\A j \in 1..n : ends'[j] = ends[j]) /\ ends'[n + 1] = NewCurr(it)
  <2>1. ends \in Seq([Arrays -> Nat])
    BY DEF TypeOK
  <2> QED
    BY <1>4, <1>5, <1>6, <2>1, AppendProperties
<1>9. (\A j \in 0..n : NamesAt(j)' = NamesAt(j)) /\ NamesAt(n + 1)' = NewCurr(it)
  BY <1>3, <1>8 DEF NamesAt
<1>10. \A j : \A a : UpdatedAgain(j, a)' <=> UpdatedAgain(j, a)
  BY <1>4 DEF UpdatedAgain
<1> DEFINE Copied == IF it.loop THEN Written(it) \cap Static ELSE {}
           Copies == {[arr |-> a, from |-> NamesAt(n)[a], to |-> NewCurr(it)[a]] : a \in Copied}
<1>11. (\A j \in 1..n : copies'[j] = copies[j]) /\ copies'[n + 1] = Copies
  <2>1. copies' = Append(copies, IF it.loop THEN EqualityStmts(it) ELSE {})
    BY <1>2
  <2>2. (IF it.loop THEN EqualityStmts(it) ELSE {}) = Copies
    <3>1. CASE it.loop
      BY <1>1, <1>2, <3>1, CopiesOfLoop
    <3>2. CASE ~it.loop
      BY <3>2
    <3> QED
      BY <3>1, <3>2
  <2>3. \A j \in 1..n : copies'[j] = copies[j]
    BY <1>4, <2>1 DEF TypeOK
  <2>4. copies'[n + 1] = IF it.loop THEN EqualityStmts(it) ELSE {}
    BY <1>4, <2>1 DEF TypeOK
  <2> QED
    BY <2>2, <2>3, <2>4
<1>12. ASSUME NEW j \in DOMAIN out'
       PROVE  /\ ends'[j] \in [Arrays -> 0..j]
              /\ \A a \in Arrays : ends'[j][a] =
                   IF UpdatedAgain(j, a) THEN NamesAt(j - 1)'[a] + 1 ELSE NamesAt(j - 1)'[a]
              /\ \A i \in DOMAIN out'[j] :
                   LET o == prog[j].ops[i] IN
                   IF ~ReadsOld(prog[j], o) THEN out'[j][i] = ends'[j][o.arr]
                   ELSE o.arr \notin Static => out'[j][i] = NamesAt(j - 1)'[o.arr]
              /\ copies'[j] =
                   {[arr |-> a, from |-> NamesAt(j - 1)'[a], to |-> ends'[j][a]] :
                      a \in IF prog[j].loop THEN Written(prog[j]) \cap Static ELSE {}}
  <2>1. CASE j \in 1..n
    <3>1. j - 1 \in 0..n /\ j \in DOMAIN out
      BY <1>3, <2>1
    <3>2. /\ ends'[j] = ends[j] /\ NamesAt(j - 1)' = NamesAt(j - 1)
          /\ out'[j] = out[j] /\ copies'[j] = copies[j]
      BY <1>7, <1>8, <1>9, <1>11, <2>1, <3>1
    <3> QED
      BY <3>1, <3>2 DEF NamesGiven
  <2>2. CASE j = n + 1
    <3>1. /\ ends'[j] = NewCurr(it) /\ NamesAt(j - 1)' = NamesAt(n) /\ prog[j] = it
          /\ out'[j] = RenamedOps(it) /\ copies'[j] = Copies
      <4>1. j - 1 = n /\ n \in 0..n
        BY <1>3, <2>2
      <4> QED
        BY <1>3, <1>7, <1>8, <1>9, <1>11, <2>2, <4>1
    <3>2. \A i \in DOMAIN RenamedOps(it) :
            LET o == it.ops[i] IN
            IF ~ReadsOld(it, o) THEN RenamedOps(it)[i] = NewCurr(it)[o.arr]
            ELSE o.arr \notin Static => RenamedOps(it)[i] = NamesAt(n)[o.arr]
      <4>1. DOMAIN RenamedOps(it) = DOMAIN it.ops
        BY DEF RenamedOps
      <4> QED
        BY <1>1, <1>2, <4>1, NamesOfItem
    <3>3. \A a \in Arrays : NewCurr(it)[a] =
            IF UpdatedAgain(j, a) THEN NamesAt(n)[a] + 1 ELSE NamesAt(n)[a]
      BY <1>3, <2>2
    <3>4. NewCurr(it) \in [Arrays -> 0..j]
      BY <1>5, <2>2
    <3> QED
      BY <3>1, <3>2, <3>3, <3>4
  <2> QED
    BY <1>3, <1>7, <2>1, <2>2
<1>13. curr' = NamesAt(n + 1)'
  BY <1>6, <1>9
<1>14. ASSUME NEW a \in Arrays, a \notin Static \/ ~updated'[a] PROVE prev'[a] = curr'[a]
  <2>1. a \notin Static \/ ~(updated[a] \/ a \in Renamed(it))
    BY <1>6, <1>14 DEF SetUpdated
  <2>2. /\ it.loop => Settled(it)[a] = NewCurr(it)[a]
        /\ ~it.loop => NewPrev(it)[a] = NewCurr(it)[a]
    BY <1>1, <1>2, <2>1, PrevIsCurr
  <2> QED
    BY <1>2, <1>6, <2>2
<1>15. \A a \in Arrays : updated'[a] <=> \E j \in DOMAIN out' : a \in Renamed(prog'[j])
  BY DEF NameInv, FlagInv
<1>16. NamesAt(Len(out))' = NamesAt(n + 1)'
  BY <1>7 DEF NamesAt
<1> QED
  BY <1>4, <1>10, <1>12, <1>13, <1>14, <1>15, <1>16 DEF NamesGiven

LEMMA NamesGivenStep ==
  TypeOK /\ NamesGiven /\ NameInv' /\ [Next]_vars => NamesGiven'
<1> SUFFICES ASSUME TypeOK, NamesGiven, NameInv', [Next]_vars PROVE NamesGiven'
  OBVIOUS
<1>1. CASE ProcessLoop
  BY <1>1, NamesGivenRename DEF ProcessLoop
<1>2. CASE ProcessOuterBlock
  BY <1>2, NamesGivenRename DEF ProcessOuterBlock
<1>3. CASE UNCHANGED <<prog, prev, curr, updated, out, copies, ends>>
  BY <1>3 DEF NamesGiven, NamesAt, UpdatedAgain
<1>4. CASE Throw
  BY <1>3, <1>4 DEF Throw
<1>5. CASE UNCHANGED vars
  BY <1>3, <1>5 DEF vars
<1> QED
  BY <1>1, <1>2, <1>4, <1>5 DEF Next

-----------------------------------------------------------------------------
(***************************************************************************)
(* What the runs need of the pass once it is done.                         *)
(***************************************************************************)
LEMMA CellsOf ==
  /\ \A a \in Arrays : \A x \in Elements(a) : <<a, x>> \in Cells
  /\ \A c \in Cells : c[1] \in Arrays /\ c[2] \in Elements(c[1]) /\ c = <<c[1], c[2]>>
BY DEF Cells

LEMMA ElementsOf ==
  ASSUME NEW a \in Arrays
  PROVE  IF a \in Static THEN Elements(a) = {0} ELSE Elements(a) = 0..(Size - 1)
BY DEF Elements

LEMMA NamesKnown ==
  ASSUME TypeOK, NamesGiven, Done
  PROVE  /\ Len(prog) \in Nat /\ DOMAIN prog = 1..Len(prog) /\ DOMAIN out = 1..Len(prog)
         /\ \A j \in 0..Len(prog) : NamesAt(j) \in [Arrays -> NamesMade]
         /\ \A j \in 1..Len(prog) : \A a \in Arrays :
              NamesAt(j)[a] = IF UpdatedAgain(j, a) THEN NamesAt(j - 1)[a] + 1 ELSE NamesAt(j - 1)[a]
<1>1. Len(prog) \in Nat /\ DOMAIN prog = 1..Len(prog) /\ DOMAIN out = 1..Len(prog)
  BY DEF TypeOK, Done, Pos
<1>2. \A j \in 1..Len(prog) : NamesAt(j) = ends[j]
  BY DEF NamesAt
<1>3. NamesAt(0) \in [Arrays -> NamesMade]
  BY <1>1 DEF NamesAt, NamesMade
<1>4. \A j \in 1..Len(prog) : ends[j] \in [Arrays -> NamesMade]
  <2> SUFFICES ASSUME NEW j \in 1..Len(prog) PROVE ends[j] \in [Arrays -> NamesMade]
    OBVIOUS
  <2>1. ends[j] \in [Arrays -> 0..j] /\ 0..j \subseteq NamesMade
    BY <1>1 DEF NamesGiven, NamesMade
  <2> QED
    BY <2>1
<1>5. \A j \in 0..Len(prog) : j = 0 \/ j \in 1..Len(prog)
  BY <1>1
<1>6. \A j \in 1..Len(prog) : \A a \in Arrays :
        NamesAt(j)[a] = IF UpdatedAgain(j, a) THEN NamesAt(j - 1)[a] + 1 ELSE NamesAt(j - 1)[a]
  BY <1>1, <1>2 DEF NamesGiven
<1> QED
  BY <1>1, <1>2, <1>3, <1>4, <1>5, <1>6

(* The item being run. *)
LEMMA ItemAtHand ==
  ASSUME TypeOK, LockstepInv, Running
  PROVE  /\ item \in 1..Len(prog) /\ item - 1 \in 0..Len(prog) /\ Item \in Items
         /\ FirstOf(Item) \in Nat /\ LastOf(Item) \in Int
         /\ Item.ops \in Seq(Ops) /\ Item.loop \in BOOLEAN
         /\ NamesAt(item) \in [Arrays -> NamesMade] /\ NamesAt(item - 1) \in [Arrays -> NamesMade]
         /\ \A a \in Arrays : NamesAt(item)[a] =
              IF UpdatedAgain(item, a) THEN NamesAt(item - 1)[a] + 1 ELSE NamesAt(item - 1)[a]
         /\ \A a \in Arrays : a \notin Static /\ UpdatedAgain(item, a) => Item.loop
<1>1. /\ DOMAIN prog = 1..Len(prog) /\ Len(prog) \in Nat
      /\ \A j \in 0..Len(prog) : NamesAt(j) \in [Arrays -> NamesMade]
      /\ \A j \in 1..Len(prog) : \A a \in Arrays :
           NamesAt(j)[a] = IF UpdatedAgain(j, a) THEN NamesAt(j - 1)[a] + 1 ELSE NamesAt(j - 1)[a]
  BY NamesKnown DEF LockstepInv, Running
<1>2. item \in 1..Len(prog)
  BY <1>1 DEF LockstepInv, RunTypeOK, Running
<1>3. item - 1 \in 0..Len(prog) /\ item \in 0..Len(prog)
  BY <1>1, <1>2
<1>4. Item \in Items
  BY <1>2 DEF TypeOK, Item
<1>5. /\ Item.ops \in Seq(Ops) /\ Item.loop \in BOOLEAN /\ Item.first \in Nat /\ Item.short \in Nat
  BY <1>4 DEF Items
<1>6. FirstOf(Item) \in Nat /\ LastOf(Item) \in Int
  BY <1>5, SizeAssumption DEF FirstOf, LastOf
<1>7. \A a \in Arrays : a \notin Static /\ UpdatedAgain(item, a) => Item.loop
  BY DEF UpdatedAgain, Renamed, Item
<1> QED
  BY <1>1, <1>2, <1>3, <1>4, <1>5, <1>6, <1>7

(* What Supported says of the item being run. *)
LEMMA ItemSupported ==
  ASSUME TypeOK, LockstepInv, Running, Supported
  PROVE  /\ ScalarsAtZero(Item)
         /\ \A a \in Arrays : UpdatedAgain(item, a) =>
              /\ MustRun(Item) /\ NoCompound(Item, a)
              /\ a \notin Static => Overwrites(Item, a) /\ NoReadAfterStore(Item, a)
              /\ a \notin Static \/ ~Item.loop => ReadsInOrder(Item, a)
              /\ ~Item.loop => AlwaysStores(Item, a)
<1>1. item \in DOMAIN prog
  BY ItemAtHand DEF TypeOK
<1> QED
  BY <1>1, ItemAtHand DEF Supported, Regular, Item

(* A step of the run leaves the pass alone. *)
LEMMA PassAlone ==
  ASSUME UNCHANGED vars
  PROVE  /\ NamesGiven => NamesGiven'
         /\ Supported' <=> Supported
         /\ Done' <=> Done
         /\ \A j : NamesAt(j)' = NamesAt(j)
         /\ \A j : \A a : UpdatedAgain(j, a)' <=> UpdatedAgain(j, a)
<1>1. /\ prog' = prog /\ prev' = prev /\ curr' = curr /\ updated' = updated
      /\ out' = out /\ copies' = copies /\ ends' = ends
  BY DEF vars
<1>2. NamesGiven => NamesGiven'
  BY <1>1 DEF NamesGiven, NamesAt, UpdatedAgain
<1>3. \A j : \A a : UpdatedAgain(j, a)' <=> UpdatedAgain(j, a)
  BY <1>1 DEF UpdatedAgain
<1>4. Supported' <=> Supported
  BY <1>1 DEF Supported, Regular, UpdatedAgain
<1>5. Done' <=> Done
  BY <1>1 DEF Done, Pos
<1>6. \A j : NamesAt(j)' = NamesAt(j)
  BY <1>1 DEF NamesAt
<1> QED
  BY <1>2, <1>3, <1>4, <1>5, <1>6

LEMMA OneMoreStored ==
  ASSUME NEW ops, NEW a, NEW i \in Nat \ {0}, NEW G
  PROVE  /\ ~Stored(ops, a, 1, G)
         /\ Stored(ops, a, i + 1, G) <=>
              Stored(ops, a, i, G) \/ (ops[i].arr = a /\ ops[i].kind = "store" /\ ops[i].guarded \in G)
<1>1. \A h : h \in 1..(i + 1 - 1) <=> h \in 1..(i - 1) \/ h = i
  OBVIOUS
<1> QED
  BY <1>1 DEF Stored

-----------------------------------------------------------------------------
(***************************************************************************)
(* One lemma for each step of the run.                                     *)
(***************************************************************************)
(* The copies in the preheader. *)
LEMMA EnterCopies ==
  ASSUME TypeOK, LockstepInv, Enter, NEW a \in Arrays, NEW x \in Elements(a)
  PROVE  LET c == <<a, x>>  IN
         /\ Item.loop /\ a \in Written(Item) /\ a \in Static =>
              ren'[NamesAt(item)[a]][c] = ren[NamesAt(item - 1)[a]][c]
         /\ ~(Item.loop /\ a \in Written(Item) /\ a \in Static) =>
              \A n \in NamesMade : ren'[n][c] = ren[n][c]
<1> DEFINE c == <<a, x>>
           C == IF Item.loop THEN Written(Item) \cap Static ELSE {}
<1>1. item \in 1..Len(prog) /\ NamesAt(item) \in [Arrays -> NamesMade] /\ item \in DOMAIN out
  BY ItemAtHand, NamesKnown DEF Enter, LockstepInv, Running
<1>2. copies[item] = {[arr |-> b, from |-> NamesAt(item - 1)[b], to |-> NamesAt(item)[b]] : b \in C}
  <2>1. ends[item] = NamesAt(item)
    BY <1>1 DEF NamesAt
  <2> QED
    BY <1>1, <2>1 DEF LockstepInv, NamesGiven, Item
<1>3. c \in Cells
  BY CellsOf
<1>4. \A n \in NamesMade : ren'[n][c] =
        IF \E e \in copies[item] : e.to = n /\ <<e.arr, 0>> = c
        THEN ren[(CHOOSE e \in copies[item] : e.to = n /\ <<e.arr, 0>> = c).from][c]
        ELSE ren[n][c]
  BY <1>3 DEF Enter
<1>5. \A e \in copies[item] : <<e.arr, 0>> = c => e.arr = a /\ a \in C /\ e.from = NamesAt(item - 1)[a]
  BY <1>2
<1>6. ASSUME a \in C PROVE ren'[NamesAt(item)[a]][c] = ren[NamesAt(item - 1)[a]][c]
  <2>1. x = 0
    BY <1>6, ElementsOf
  <2>2. \E e \in copies[item] : e.to = NamesAt(item)[a] /\ <<e.arr, 0>> = c
    <3>1. [arr |-> a, from |-> NamesAt(item - 1)[a], to |-> NamesAt(item)[a]] \in copies[item]
      BY <1>2, <1>6
    <3> QED
      BY <2>1, <3>1
  <2>3. PICK e : /\ e = CHOOSE d \in copies[item] : d.to = NamesAt(item)[a] /\ <<d.arr, 0>> = c
                 /\ e \in copies[item] /\ <<e.arr, 0>> = c
    BY <2>2
  <2>4. e.from = NamesAt(item - 1)[a]
    BY <1>5, <2>3
  <2>5. NamesAt(item)[a] \in NamesMade
    BY <1>1
  <2> QED
    BY <1>4, <2>2, <2>3, <2>4, <2>5
<1>7. ASSUME a \notin C PROVE \A n \in NamesMade : ren'[n][c] = ren[n][c]
  BY <1>4, <1>5, <1>7
<1> QED
  BY <1>6, <1>7

LEMMA EnterKeeps ==
  ASSUME TypeOK, LockstepInv, Enter PROVE LockstepInv'
<1>1. /\ op = 0 /\ op' = 1 /\ iter' = FirstOf(Item) /\ item' = item /\ mem' = mem /\ seen' = seen
      /\ FirstOf(Item) <= LastOf(Item) /\ Running
  BY DEF Enter
<1>2. /\ NamesGiven' /\ (Supported' <=> Supported) /\ (Done' <=> Done) /\ prog' = prog
      /\ \A j : NamesAt(j)' = NamesAt(j)
      /\ \A j : \A a : UpdatedAgain(j, a)' <=> UpdatedAgain(j, a)
  BY PassAlone DEF Enter, LockstepInv, vars
<1>3. /\ item \in 1..Len(prog) /\ FirstOf(Item) \in Nat /\ Item.ops \in Seq(Ops)
      /\ NamesAt(item) \in [Arrays -> NamesMade] /\ NamesAt(item - 1) \in [Arrays -> NamesMade]
      /\ \A a \in Arrays : ~UpdatedAgain(item, a) => NamesAt(item)[a] = NamesAt(item - 1)[a]
  BY <1>1, ItemAtHand
<1>4. Item' = Item
  BY <1>1, <1>2 DEF Item
<1>5. RunTypeOK'
  <2>1. DOMAIN ren' = NamesMade /\ \A n \in NamesMade : DOMAIN ren'[n] = Cells
    BY DEF Enter
  <2>2. NamesMade' = NamesMade
    BY <1>2 DEF NamesMade
  <2> QED
    BY <1>1, <1>2, <1>3, <1>4, <2>1, <2>2 DEF LockstepInv, RunTypeOK, Running
<1>6. ASSUME Supported PROVE NamesHold'
  <2>0. /\ op' # 0 /\ mem' = mem
        /\ NamesAt(item)' = NamesAt(item) /\ NamesAt(item - 1)' = NamesAt(item - 1)
    BY <1>1, <1>2
  <2> SUFFICES ASSUME NEW a \in Arrays, NEW x \in Elements(a)
               PROVE  /\ UnderNew(a, x)' => ren'[NamesAt(item)[a]][<<a, x>>] = mem[<<a, x>>]
                      /\ UnderOld(a, x)' => ren'[NamesAt(item - 1)[a]][<<a, x>>] = mem[<<a, x>>]
    BY <2>0 DEF NamesHold
  <2>1. ren[NamesAt(item - 1)[a]][<<a, x>>] = mem[<<a, x>>]
    BY <1>1, <1>6 DEF LockstepInv, NamesHold
  <2>2. NamesAt(item)[a] \in NamesMade /\ NamesAt(item - 1)[a] \in NamesMade
    BY <1>3
  <2>3. ASSUME UnderOld(a, x)' PROVE ren'[NamesAt(item - 1)[a]][<<a, x>>] = mem[<<a, x>>]
    <3>1. a \notin Static
      BY <2>3 DEF UnderOld
    <3> QED
      BY <2>1, <2>2, <3>1, EnterCopies
  <2>4. ASSUME ~UpdatedAgain(item, a) PROVE ren'[NamesAt(item)[a]][<<a, x>>] = mem[<<a, x>>]
    BY <1>3, <2>1, <2>2, <2>4, EnterCopies
  <2>5. ASSUME UpdatedAgain(item, a), UnderNew(a, x)'
        PROVE  ren'[NamesAt(item)[a]][<<a, x>>] = mem[<<a, x>>]
    <3>1. ~Stored(Item.ops, a, 1, {FALSE})
      BY OneMoreStored
    <3>2. a \notin Static => ~(x < FirstOf(Item))
      <4>1. a \notin Static => Overwrites(Item, a)
        BY <1>1, <1>6, <2>5, ItemSupported
      <4>2. a \notin Static => x \in Nat
        BY ElementsOf, SizeAssumption
      <4> QED
        BY <4>1, <4>2 DEF FirstOf, Overwrites
    <3>3. a \in Static /\ Item.loop
      BY <1>1, <1>2, <1>4, <2>5, <3>1, <3>2 DEF UnderNew
    <3>4. a \in Written(Item)
      BY <2>5, <3>3 DEF UpdatedAgain, Renamed, Item
    <3> QED
      BY <2>1, <3>3, <3>4, EnterCopies
  <2> QED
    BY <2>3, <2>4, <2>5
<1> QED
  BY <1>1, <1>2, <1>5, <1>6 DEF LockstepInv

LEMMA SkipKeeps ==
  ASSUME TypeOK, LockstepInv, Skip PROVE LockstepInv'
<1>1. /\ op = 0 /\ op' = 0 /\ item' = item + 1 /\ iter' = iter /\ mem' = mem /\ ren' = ren
      /\ seen' = seen /\ Running /\ ~MustRun(Item)
  <2>1. Item.guarded \/ FirstOf(Item) > LastOf(Item)
    BY DEF Skip
  <2>2. FirstOf(Item) \in Nat /\ LastOf(Item) \in Int
    BY ItemAtHand DEF Skip
  <2> QED
    BY <2>1, <2>2 DEF Skip, MustRun
<1>2. /\ NamesGiven' /\ (Supported' <=> Supported) /\ (Done' <=> Done) /\ prog' = prog
      /\ \A j : NamesAt(j)' = NamesAt(j)
  BY PassAlone DEF Skip, LockstepInv, vars
<1>3. item \in 1..Len(prog)
  BY <1>1, ItemAtHand
<1>4. RunTypeOK'
  BY <1>1, <1>2, <1>3 DEF LockstepInv, RunTypeOK, Running, NamesMade
<1>5. ASSUME Supported PROVE NamesHold'
  <2>1. \A a \in Arrays : NamesAt(item)[a] = NamesAt(item - 1)[a]
    BY <1>1, <1>5, ItemSupported, ItemAtHand
  <2>2. item' - 1 = item
    BY <1>1, <1>3
  <2> QED
    BY <1>1, <1>2, <1>5, <2>1, <2>2 DEF LockstepInv, NamesHold
<1> QED
  BY <1>1, <1>2, <1>4, <1>5 DEF LockstepInv

-----------------------------------------------------------------------------
(* The operation to be run, and the name it was given. *)
LEMMA OpAtHand ==
  ASSUME TypeOK, LockstepInv, InBody
  PROVE  /\ op \in 1..Len(Item.ops) /\ op \in Nat \ {0} /\ iter \in Nat
         /\ Op \in Ops /\ Op.arr \in Arrays
         /\ item \in 1..Len(prog) /\ Item.ops \in Seq(Ops)
         /\ out[item][op] \in NamesMade
         /\ ~ReadsOld(Item, Op) => out[item][op] = NamesAt(item)[Op.arr]
         /\ ReadsOld(Item, Op) /\ Op.arr \notin Static => out[item][op] = NamesAt(item - 1)[Op.arr]
<1>1. /\ item \in 1..Len(prog) /\ Item.ops \in Seq(Ops) /\ item \in DOMAIN out
      /\ Len(prog) \in Nat
  BY ItemAtHand, NamesKnown DEF InBody, LockstepInv, Running
<1>2. op \in DOMAIN Item.ops /\ DOMAIN Item.ops = 1..Len(Item.ops) /\ Len(Item.ops) \in Nat
  BY <1>1 DEF InBody
<1>3. Op \in Ops
  BY <1>1, <1>2 DEF Op
<1>4. Op.arr \in Arrays
  BY <1>3 DEF Ops
<1>5. out[item] \in [DOMAIN Item.ops -> 0..item]
  BY <1>1 DEF TypeOK, Item
<1>6. out[item][op] \in NamesMade
  <2>1. out[item][op] \in 0..item
    BY <1>2, <1>5
  <2> QED
    BY <1>1, <2>1 DEF NamesMade
<1>7. NamesAt(item) = ends[item]
  BY <1>1 DEF NamesAt
<1>8. IF ~ReadsOld(Item, Op) THEN out[item][op] = ends[item][Op.arr]
      ELSE Op.arr \notin Static => out[item][op] = NamesAt(item - 1)[Op.arr]
  <2>1. op \in DOMAIN out[item]
    BY <1>2, <1>5
  <2> QED
    BY <1>1, <2>1 DEF LockstepInv, NamesGiven, Item, Op
<1> QED
  BY <1>1, <1>2, <1>3, <1>4, <1>6, <1>7, <1>8 DEF LockstepInv, RunTypeOK

(* A scalar is never read under an old name: its index is 0. *)
LEMMA ScalarsReadNew ==
  ASSUME TypeOK, LockstepInv, InBody, Supported, Op.arr \in Static
  PROVE  ~ReadsOld(Item, Op) /\ Op.idx = "zero" /\ Element(Op) = 0
<1>1. op \in DOMAIN Item.ops
  BY DEF InBody
<1>2. ScalarsAtZero(Item)
  BY ItemSupported DEF InBody
<1>3. Op.idx = "zero"
  BY <1>1, <1>2 DEF ScalarsAtZero, Op
<1> QED
  BY <1>3 DEF ReadsOld, MayBeBelow, Element

(* The element has what the array has, under the name the load was given. *)
LEMMA LoadSees ==
  ASSUME TypeOK, LockstepInv, InBody, Supported,
         Element(Op) \in Elements(Op.arr), Op.kind \in {"load", "update"}
  PROVE  ren[out[item][op]][Cell] = mem[Cell]
<1> DEFINE a == Op.arr
           x == Element(Op)
           old == NamesAt(item - 1)[a]
           new == NamesAt(item)[a]
<1>1. /\ a \in Arrays /\ op \in Nat \ {0} /\ op \in DOMAIN Item.ops /\ Op \in Ops /\ iter \in Nat
      /\ ~ReadsOld(Item, Op) => out[item][op] = new
      /\ ReadsOld(Item, Op) /\ a \notin Static => out[item][op] = old
  BY OpAtHand DEF InBody
<1>2. /\ UnderNew(a, x) => ren[new][Cell] = mem[Cell]
      /\ UnderOld(a, x) => ren[old][Cell] = mem[Cell]
  BY <1>1 DEF LockstepInv, NamesHold, Cell
<1>3. ~UpdatedAgain(item, a) => new = old
  BY <1>1, ItemAtHand DEF InBody
<1>4. CASE ~UpdatedAgain(item, a)
  <2>1. UnderNew(a, x)
    BY <1>4 DEF UnderNew
  <2>2. out[item][op] = new
    BY <1>1, <1>3, <1>4, ScalarsReadNew
  <2> QED
    BY <1>2, <2>1, <2>2
<1>5. CASE UpdatedAgain(item, a)
  <2>1. /\ NoCompound(Item, a)
        /\ a \notin Static => NoReadAfterStore(Item, a) /\ Item.loop
        /\ a \notin Static \/ ~Item.loop => ReadsInOrder(Item, a)
    BY <1>1, <1>5, ItemSupported, ItemAtHand DEF InBody
  <2>2. Op.kind = "load"
    BY <1>1, <2>1 DEF NoCompound, Op
  <2>3. Op.idx = "zero" /\ (a \notin Static \/ ~Item.loop) => Stored(Item.ops, a, op, {FALSE})
    BY <1>1, <2>1, <2>2 DEF ReadsInOrder, StoredBefore, Op
  <2>4. CASE a \in Static
    <3>1. ~ReadsOld(Item, Op) /\ Op.idx = "zero"
      BY <2>4, ScalarsReadNew
    <3>2. UnderNew(a, x)
      BY <2>3, <2>4, <3>1 DEF UnderNew
    <3> QED
      BY <1>1, <1>2, <3>1, <3>2
  <2>5. CASE a \notin Static
    <3>1. Op.idx \in {"counter", "below", "above", "zero"}
      BY <1>1 DEF Ops, Indices
    <3>2. CASE Op.idx = "below"
      <4>1. x < iter
        BY <1>1, <3>2 DEF Element
      <4>2. UnderNew(a, x) /\ ~ReadsOld(Item, Op)
        BY <2>5, <3>2, <4>1 DEF UnderNew, ReadsOld, MayBeBelow
      <4> QED
        BY <1>1, <1>2, <4>2
    <3>3. CASE Op.idx = "zero"
      <4>1. x = 0 /\ (x < iter \/ x = iter)
        BY <1>1, <3>3 DEF Element
      <4>2. UnderNew(a, x) /\ ~ReadsOld(Item, Op)
        BY <2>3, <2>5, <3>3, <4>1 DEF UnderNew, ReadsOld, MayBeBelow
      <4> QED
        BY <1>1, <1>2, <4>2
    <3>4. CASE Op.idx = "counter"
      <4>1. x = iter /\ ~Stored(Item.ops, a, op, BOOLEAN)
        BY <1>1, <2>1, <2>2, <2>5, <3>4 DEF Element, NoReadAfterStore, StoredBefore, Op
      <4>2. UnderOld(a, x) /\ ReadsOld(Item, Op)
        BY <2>1, <2>2, <2>5, <3>4, <4>1 DEF UnderOld, ReadsOld, MayBeBelow
      <4> QED
        BY <1>1, <1>2, <2>5, <4>2
    <3>5. CASE Op.idx = "above"
      <4>1. x > iter
        BY <1>1, <3>5 DEF Element
      <4>2. UnderOld(a, x) /\ ReadsOld(Item, Op)
        BY <2>1, <2>2, <2>5, <3>5, <4>1 DEF UnderOld, ReadsOld, MayBeBelow
      <4> QED
        BY <1>1, <1>2, <2>5, <4>2
    <3> QED
      BY <3>1, <3>2, <3>3, <3>4, <3>5
  <2> QED
    BY <2>4, <2>5
<1> QED
  BY <1>4, <1>5

(* After one more operation an element is under the names it was under, or *)
(* it is the one an unconditional store of an array updated again is at.   *)
LEMMA OneMoreUnder ==
  ASSUME TypeOK, LockstepInv, InBody, Supported, NEW a \in Arrays, NEW x \in Elements(a),
         op' = op + 1, UNCHANGED <<vars, item, iter>>
  PROVE  /\ UnderNew(a, x)' =>
              UnderNew(a, x) \/ (Op.kind = "store" /\ Op.arr = a /\ Element(Op) = x /\ ~Op.guarded)
         /\ UnderOld(a, x)' => UnderOld(a, x) /\ ~(x = iter /\ Op.kind = "store" /\ Op.arr = a)
<1>1. /\ op \in Nat \ {0} /\ op \in DOMAIN Item.ops /\ Op \in Ops /\ prog' = prog
  BY OpAtHand DEF InBody, vars
<1>2. Item' = Item /\ iter' = iter /\ (UpdatedAgain(item, a)' <=> UpdatedAgain(item, a))
  BY <1>1 DEF Item, UpdatedAgain
<1>3. Op.guarded \in BOOLEAN
  BY <1>1 DEF Ops
<1>4. \A G : Stored(Item.ops, a, op + 1, G) <=>
               Stored(Item.ops, a, op, G) \/ (Op.arr = a /\ Op.kind = "store" /\ Op.guarded \in G)
  BY <1>1, OneMoreStored DEF Op
<1>5. ASSUME UnderOld(a, x)'
      PROVE  UnderOld(a, x) /\ ~(x = iter /\ Op.kind = "store" /\ Op.arr = a)
  <2>1. a \notin Static /\ (x > iter \/ (x = iter /\ ~Stored(Item.ops, a, op + 1, BOOLEAN)))
    BY <1>2, <1>5 DEF UnderOld
  <2>2. x = iter => ~(x > iter)
    BY OpAtHand, ElementsOf, SizeAssumption
  <2> QED
    BY <1>3, <1>4, <2>1, <2>2 DEF UnderOld
<1>6. ASSUME UnderNew(a, x)', ~UnderNew(a, x)
      PROVE  Op.kind = "store" /\ Op.arr = a /\ Element(Op) = x /\ ~Op.guarded
  <2>1. /\ UpdatedAgain(item, a) /\ (a \in Static \/ x = iter)
        /\ Op.arr = a /\ Op.kind = "store" /\ Op.guarded \in {FALSE}
    BY <1>1, <1>2, <1>4, <1>6 DEF UnderNew
  <2>2. CASE a \in Static
    <3>1. Element(Op) = 0 /\ x = 0
      BY <2>1, <2>2, ScalarsReadNew, ElementsOf
    <3> QED
      BY <2>1, <3>1
  <2>3. CASE a \notin Static
    <3>1. Op.idx = "counter"
      BY <1>1, <2>1, <2>3, ItemSupported DEF Overwrites, Op, InBody
    <3>2. Element(Op) = iter
      BY <3>1 DEF Element
    <3> QED
      BY <2>1, <2>3, <3>2
  <2> QED
    BY <2>2, <2>3
<1> QED
  BY <1>5, <1>6

LEMMA NextOp ==
  ASSUME TypeOK, LockstepInv, InBody, op' = op + 1, UNCHANGED <<vars, item, iter>>,
         DOMAIN mem' = Cells, DOMAIN ren' = NamesMade, \A n \in NamesMade : DOMAIN ren'[n] = Cells
  PROVE  /\ NamesGiven' /\ RunTypeOK' /\ (Supported' <=> Supported) /\ op # 0 /\ op' # 0
         /\ NamesAt(item)' = NamesAt(item) /\ NamesAt(item - 1)' = NamesAt(item - 1)
<1>1. /\ NamesGiven' /\ (Supported' <=> Supported) /\ (Done' <=> Done) /\ prog' = prog
      /\ \A j : NamesAt(j)' = NamesAt(j)
  BY PassAlone DEF LockstepInv, vars
<1>2. op \in 1..Len(Item.ops) /\ Item.ops \in Seq(Ops) /\ Item' = Item
  BY <1>1, OpAtHand DEF Item
<1>3. op # 0 /\ op' # 0 /\ op' \in Nat /\ op' <= Len(Item.ops) + 1
  BY <1>2
<1>4. NamesMade' = NamesMade
  BY <1>1 DEF NamesMade
<1>5. RunTypeOK'
  BY <1>1, <1>2, <1>3, <1>4 DEF LockstepInv, RunTypeOK
<1> QED
  BY <1>1, <1>3, <1>5

LEMMA PassKeeps ==
  ASSUME TypeOK, LockstepInv, Pass PROVE LockstepInv'
<1>1. /\ InBody /\ op' = op + 1 /\ UNCHANGED <<vars, item, iter>>
      /\ mem' = mem /\ ren' = ren /\ seen' = seen
      /\ Op.guarded \/ Element(Op) \notin Elements(Op.arr)
  BY DEF Pass
<1>2. /\ NamesGiven' /\ RunTypeOK' /\ (Supported' <=> Supported) /\ op # 0 /\ op' # 0
      /\ NamesAt(item)' = NamesAt(item) /\ NamesAt(item - 1)' = NamesAt(item - 1)
  <2>1. DOMAIN mem' = Cells /\ DOMAIN ren' = NamesMade /\ \A n \in NamesMade : DOMAIN ren'[n] = Cells
    BY <1>1 DEF LockstepInv, RunTypeOK
  <2> QED
    BY <1>1, <2>1, NextOp
<1>3. ASSUME Supported PROVE NamesHold'
  <2> SUFFICES ASSUME NEW a \in Arrays, NEW x \in Elements(a)
               PROVE  /\ UnderNew(a, x)' => UnderNew(a, x)
                      /\ UnderOld(a, x)' => UnderOld(a, x)
    BY <1>1, <1>2, <1>3 DEF LockstepInv, NamesHold
  <2>1. ~(Op.kind = "store" /\ Op.arr = a /\ Element(Op) = x /\ ~Op.guarded)
    BY <1>1
  <2> QED
    BY <1>1, <1>3, <2>1, OneMoreUnder
<1> QED
  BY <1>1, <1>2, <1>3 DEF LockstepInv

LEMMA ExecuteKeeps ==
  ASSUME TypeOK, LockstepInv, Execute PROVE LockstepInv'
<1> DEFINE n == out[item][op]
           v == <<item, iter, op>>
<1>1. /\ InBody /\ op' = op + 1 /\ UNCHANGED <<vars, item, iter>>
      /\ Element(Op) \in Elements(Op.arr)
      /\ Op.kind \in Storing =>
           mem' = [mem EXCEPT ![Cell] = v] /\ ren' = [ren EXCEPT ![n] = [ren[n] EXCEPT ![Cell] = v]]
      /\ Op.kind \notin Storing => mem' = mem /\ ren' = ren
      /\ seen' = IF Op.kind \in {"load", "update"} THEN <<mem[Cell], ren[n][Cell]>> ELSE seen
  BY DEF Execute
<1>2. Op.arr \in Arrays /\ n \in NamesMade /\ Op \in Ops /\ Cell \in Cells
  <2>1. Op.arr \in Arrays /\ n \in NamesMade /\ Op \in Ops
    BY <1>1, OpAtHand
  <2> QED
    BY <1>1, <2>1, CellsOf DEF Cell
<1>3. DOMAIN mem = Cells /\ DOMAIN ren = NamesMade /\ \A k \in NamesMade : DOMAIN ren[k] = Cells
  BY DEF LockstepInv, RunTypeOK
<1>4. DOMAIN mem' = Cells /\ DOMAIN ren' = NamesMade /\ \A k \in NamesMade : DOMAIN ren'[k] = Cells
  <2>1. CASE Op.kind \in Storing
    BY <1>1, <1>2, <1>3, <2>1
  <2>2. CASE Op.kind \notin Storing
    BY <1>1, <1>3, <2>2
  <2> QED
    BY <2>1, <2>2
<1>5. /\ NamesGiven' /\ RunTypeOK' /\ (Supported' <=> Supported) /\ op # 0 /\ op' # 0
      /\ NamesAt(item)' = NamesAt(item) /\ NamesAt(item - 1)' = NamesAt(item - 1)
  BY <1>1, <1>4, NextOp
<1>6. ASSUME Supported PROVE NamesHold'
  <2> SUFFICES ASSUME NEW a \in Arrays, NEW x \in Elements(a)
               PROVE  /\ UnderNew(a, x)' => ren'[NamesAt(item)[a]][<<a, x>>] = mem'[<<a, x>>]
                      /\ UnderOld(a, x)' => ren'[NamesAt(item - 1)[a]][<<a, x>>] = mem'[<<a, x>>]
    BY <1>5 DEF NamesHold
  <2>1. /\ UnderNew(a, x) => ren[NamesAt(item)[a]][<<a, x>>] = mem[<<a, x>>]
        /\ UnderOld(a, x) => ren[NamesAt(item - 1)[a]][<<a, x>>] = mem[<<a, x>>]
    BY <1>5, <1>6 DEF LockstepInv, NamesHold
  <2>2. /\ NamesAt(item)[a] \in NamesMade /\ NamesAt(item - 1)[a] \in NamesMade
        /\ ~UpdatedAgain(item, a) => NamesAt(item)[a] = NamesAt(item - 1)[a]
        /\ <<a, x>> \in Cells
    BY <1>1, ItemAtHand, CellsOf DEF InBody
  <2>3. /\ UnderNew(a, x)' =>
             UnderNew(a, x) \/ (Op.kind = "store" /\ Op.arr = a /\ Element(Op) = x /\ ~Op.guarded)
        /\ UnderOld(a, x)' => UnderOld(a, x) /\ ~(x = iter /\ Op.kind = "store" /\ Op.arr = a)
    BY <1>1, <1>6, OneMoreUnder
  <2>4. CASE Op.kind \notin Storing
    BY <1>1, <2>1, <2>3, <2>4 DEF Storing
  <2>5. CASE Op.kind \in Storing /\ <<a, x>> # Cell
    <3>1. mem'[<<a, x>>] = mem[<<a, x>>] /\ \A k \in NamesMade : ren'[k][<<a, x>>] = ren[k][<<a, x>>]
      BY <1>1, <1>2, <1>3, <2>2, <2>5
    <3>2. ~(Op.arr = a /\ Element(Op) = x)
      BY <2>5 DEF Cell
    <3> QED
      BY <2>1, <2>2, <2>3, <3>1, <3>2
  <2>6. CASE Op.kind \in Storing /\ <<a, x>> = Cell
    <3>1. Op.arr = a /\ Element(Op) = x
      BY <2>6 DEF Cell
    <3>2. n = NamesAt(item)[a]
      <4>1. ~ReadsOld(Item, Op)
        BY <2>6 DEF Storing, ReadsOld
      <4> QED
        BY <1>1, <3>1, <4>1, OpAtHand
    <3>3. mem'[<<a, x>>] = v /\ ren'[n][<<a, x>>] = v
      BY <1>1, <1>2, <1>3, <2>6
    <3>4. ASSUME UnderOld(a, x)' PROVE ~UpdatedAgain(item, a)
      <4>1. a \notin Static /\ ~(x = iter /\ Op.kind = "store")
        BY <2>3, <3>1, <3>4 DEF UnderOld
      <4> SUFFICES ASSUME UpdatedAgain(item, a) PROVE FALSE
        OBVIOUS
      <4>2. NoCompound(Item, a) /\ Overwrites(Item, a) /\ op \in DOMAIN Item.ops
        BY <1>1, <1>6, <4>1, ItemSupported DEF InBody
      <4>3. Op.kind = "store"
        BY <2>6, <3>1, <4>2 DEF NoCompound, Storing, Op
      <4>4. Op.idx = "counter"
        BY <3>1, <4>2, <4>3 DEF Overwrites, Op
      <4>5. x = iter
        BY <3>1, <4>4 DEF Element
      <4> QED
        BY <4>1, <4>3, <4>5
    <3> QED
      BY <2>2, <3>2, <3>3, <3>4
  <2> QED
    BY <2>4, <2>5, <2>6
<1>7. ASSUME Supported PROVE seen'[1] = seen'[2]
  <2>1. CASE Op.kind \in {"load", "update"}
    <3>1. ren[n][Cell] = mem[Cell]
      BY <1>1, <1>7, <2>1, LoadSees
    <3> QED
      BY <1>1, <2>1, <3>1
  <2>2. CASE Op.kind \notin {"load", "update"}
    BY <1>1, <1>7, <2>2 DEF LockstepInv
  <2> QED
    BY <2>1, <2>2
<1> QED
  BY <1>5, <1>6, <1>7 DEF LockstepInv

(* At the end of the body an array updated again has been stored to. *)
LEMMA BodyStores ==
  ASSUME TypeOK, LockstepInv, EndOfBody, Supported, NEW a \in Arrays, UpdatedAgain(item, a),
         a \notin Static \/ ~Item.loop
  PROVE  Stored(Item.ops, a, op, {FALSE})
<1>1. Running /\ op > Len(Item.ops)
  BY DEF EndOfBody
<1>2. AlwaysStores(Item, a)
  BY <1>1, ItemSupported DEF Overwrites
<1>3. op = Len(Item.ops) + 1
  BY <1>1, ItemAtHand DEF LockstepInv, RunTypeOK
<1> QED
  BY <1>2, <1>3 DEF AlwaysStores

LEMMA EndKeeps ==
  ASSUME TypeOK, LockstepInv, EndOfBody PROVE LockstepInv'
<1>1. /\ Running /\ op > Len(Item.ops) /\ UNCHANGED vars /\ mem' = mem /\ ren' = ren /\ seen' = seen
      /\ iter < LastOf(Item) => iter' = iter + 1 /\ op' = 1 /\ item' = item
      /\ ~(iter < LastOf(Item)) => iter' = 0 /\ op' = 0 /\ item' = item + 1
  BY DEF EndOfBody
<1>2. /\ NamesGiven' /\ (Supported' <=> Supported) /\ (Done' <=> Done) /\ prog' = prog
      /\ \A j : NamesAt(j)' = NamesAt(j)
      /\ \A j : \A a : UpdatedAgain(j, a)' <=> UpdatedAgain(j, a)
  BY <1>1, PassAlone DEF LockstepInv, vars
<1>3. /\ item \in 1..Len(prog) /\ Item.ops \in Seq(Ops) /\ Item.loop \in BOOLEAN
      /\ FirstOf(Item) \in Nat /\ LastOf(Item) \in Int
      /\ \A a \in Arrays : a \notin Static /\ UpdatedAgain(item, a) => Item.loop
  BY <1>1, ItemAtHand
<1>4. op \in Nat \ {0} /\ iter \in Nat /\ FirstOf(Item) <= iter /\ iter <= LastOf(Item)
  BY <1>1, <1>3 DEF LockstepInv, RunTypeOK
<1>5. NamesMade' = NamesMade
  BY <1>2 DEF NamesMade
<1>6. CASE iter < LastOf(Item)
  <2>1. /\ iter' = iter + 1 /\ op' = 1 /\ item' = item /\ Item' = Item
        /\ NamesAt(item)' = NamesAt(item) /\ NamesAt(item - 1)' = NamesAt(item - 1)
    BY <1>1, <1>2, <1>6 DEF Item
  <2>2. RunTypeOK'
    BY <1>1, <1>2, <1>3, <1>4, <1>5, <1>6, <2>1 DEF LockstepInv, RunTypeOK, Running
  <2>3. ASSUME Supported PROVE NamesHold'
    <3>1. op # 0 /\ op' # 0
      BY <1>4, <2>1
    <3> SUFFICES ASSUME NEW a \in Arrays, NEW x \in Elements(a)
                 PROVE  /\ UnderNew(a, x)' => UnderNew(a, x)
                        /\ UnderOld(a, x)' => UnderOld(a, x)
      BY <1>1, <2>1, <2>3, <3>1 DEF LockstepInv, NamesHold
    <3>2. a \notin Static => x \in Nat
      BY ElementsOf, SizeAssumption
    <3>3. UnderOld(a, x)' => UnderOld(a, x)
      BY <1>4, <2>1, <3>2 DEF UnderOld
    <3>4. ASSUME UnderNew(a, x)', UpdatedAgain(item, a), ~(a \in Static /\ Item.loop)
          PROVE  UnderNew(a, x)
      <4>1. ~Stored(Item.ops, a, 1, {FALSE})
        BY OneMoreStored
      <4>2. a \notin Static /\ x < iter + 1
        BY <1>2, <2>1, <3>4, <4>1 DEF UnderNew
      <4>3. x < iter \/ x = iter
        BY <1>4, <3>2, <4>2
      <4>4. Stored(Item.ops, a, op, {FALSE})
        BY <2>3, <3>4, <4>2, BodyStores
      <4> QED
        BY <4>2, <4>3, <4>4 DEF UnderNew
    <3>5. UnderNew(a, x)' => UnderNew(a, x)
      <4>1. ~UpdatedAgain(item, a) \/ (a \in Static /\ Item.loop) => UnderNew(a, x)
        BY DEF UnderNew
      <4> QED
        BY <3>4, <4>1
    <3> QED
      BY <3>3, <3>5
  <2> QED
    BY <1>1, <1>2, <2>2, <2>3 DEF LockstepInv
<1>7. CASE ~(iter < LastOf(Item))
  <2>1. iter' = 0 /\ op' = 0 /\ item' = item + 1 /\ item' - 1 = item
    BY <1>1, <1>3, <1>7
  <2>2. RunTypeOK'
    BY <1>1, <1>2, <1>3, <1>5, <2>1 DEF LockstepInv, RunTypeOK, Running
  <2>3. ASSUME Supported PROVE NamesHold'
    <3> SUFFICES ASSUME NEW a \in Arrays, NEW x \in Elements(a)
                 PROVE  ren[NamesAt(item)[a]][<<a, x>>] = mem[<<a, x>>]
      BY <1>1, <1>2, <2>1 DEF NamesHold
    <3>1. SUFFICES ASSUME UpdatedAgain(item, a), ~(a \in Static /\ Item.loop) PROVE UnderNew(a, x)
      <4>1. ~UpdatedAgain(item, a) \/ (a \in Static /\ Item.loop) => UnderNew(a, x)
        BY DEF UnderNew
      <4>2. UnderNew(a, x) => ren[NamesAt(item)[a]][<<a, x>>] = mem[<<a, x>>]
        BY <1>4, <2>3 DEF LockstepInv, NamesHold
      <4> QED
        BY <3>1, <4>1, <4>2
    <3>2. Stored(Item.ops, a, op, {FALSE})
      BY <2>3, <3>1, BodyStores
    <3>3. a \notin Static => x < iter \/ x = iter
      <4> SUFFICES ASSUME a \notin Static PROVE x < iter \/ x = iter
        OBVIOUS
      <4>1. Overwrites(Item, a) /\ Item.loop
        BY <1>1, <1>3, <2>3, <3>1, ItemSupported
      <4>2. LastOf(Item) = Size - 1
        BY <4>1, SizeAssumption DEF Overwrites, LastOf
      <4>3. x \in 0..(Size - 1)
        BY ElementsOf
      <4> QED
        BY <1>4, <1>7, <4>2, <4>3, SizeAssumption
    <3> QED
      BY <3>2, <3>3 DEF UnderNew
  <2> QED
    BY <1>1, <1>2, <2>2, <2>3 DEF LockstepInv
<1> QED
  BY <1>6, <1>7

(* While the pass is working nothing runs. *)
LEMMA PassKeepsRun ==
  ASSUME TypeOK, LockstepInv, NameInv', Next, UNCHANGED runVars PROVE LockstepInv'
<1>1. Working /\ prog' = prog
  BY DEF Next, ProcessLoop, ProcessOuterBlock, Throw, Rename
<1>2. ~Done
  BY <1>1 DEF Working, Done, Pos, TypeOK
<1>3. op = 0 /\ item = 1
  BY <1>2 DEF LockstepInv, RunTypeOK
<1>4. item' = item /\ op' = op /\ iter' = iter /\ mem' = mem /\ ren' = ren /\ seen' = seen
  BY DEF runVars
<1>5. NamesGiven'
  BY NamesGivenStep DEF LockstepInv
<1>6. RunTypeOK'
  BY <1>1, <1>3, <1>4 DEF LockstepInv, RunTypeOK, NamesMade
<1>7. Supported' <=> Supported
  BY <1>1 DEF Supported, Regular, UpdatedAgain
<1>8. NamesHold => NamesHold'
  <2>1. item - 1 = 0 /\ item' - 1 = 0
    BY <1>3, <1>4
  <2>2. NamesAt(0)' = NamesAt(0)
    BY DEF NamesAt
  <2> QED
    BY <1>3, <1>4, <2>1, <2>2 DEF NamesHold
<1> QED
  BY <1>4, <1>5, <1>6, <1>7, <1>8 DEF LockstepInv

LEMMA LockstepInit == RunInit => LockstepInv
<1> SUFFICES ASSUME RunInit PROVE LockstepInv
  OBVIOUS
<1>1. /\ item = 1 /\ op = 0 /\ iter = 0 /\ seen[1] = seen[2] /\ mem = [c \in Cells |-> InitialValue]
      /\ ren = [n \in NamesMade |-> [c \in Cells |-> IF n = 0 THEN InitialValue ELSE Undefined]]
  BY DEF RunInit
<1>2. NamesGiven
  BY NamesGivenInit DEF RunInit
<1>3. Len(prog) \in Nat
  BY FunctionsAssumption DEF RunInit, Init
<1>4. RunTypeOK
  BY <1>1, <1>3 DEF RunTypeOK
<1>5. NamesHold
  <2> SUFFICES ASSUME NEW a \in Arrays, NEW x \in Elements(a)
               PROVE  ren[NamesAt(item - 1)[a]][<<a, x>>] = mem[<<a, x>>]
    BY <1>1 DEF NamesHold
  <2>1. NamesAt(item - 1)[a] = 0
    BY <1>1 DEF NamesAt
  <2>2. 0 \in NamesMade /\ <<a, x>> \in Cells
    BY <1>3, CellsOf DEF NamesMade
  <2> QED
    BY <1>1, <2>1, <2>2
<1> QED
  BY <1>1, <1>2, <1>4, <1>5 DEF LockstepInv

LEMMA LockstepStep ==
  TypeOK /\ LockstepInv /\ NameInv' /\ [RunNext]_<<vars, runVars>> => LockstepInv'
<1> SUFFICES ASSUME TypeOK, LockstepInv, NameInv', [RunNext]_<<vars, runVars>> PROVE LockstepInv'
  OBVIOUS
<1>1. CASE Next /\ UNCHANGED runVars
  BY <1>1, PassKeepsRun
<1>2. CASE Enter
  BY <1>2, EnterKeeps
<1>3. CASE Skip
  BY <1>3, SkipKeeps
<1>4. CASE Pass
  BY <1>4, PassKeeps
<1>5. CASE Execute
  BY <1>5, ExecuteKeeps
<1>6. CASE EndOfBody
  BY <1>6, EndKeeps
<1>7. CASE UNCHANGED <<vars, runVars>>
  <2>1. /\ UNCHANGED vars /\ prog' = prog
        /\ item' = item /\ op' = op /\ iter' = iter /\ mem' = mem /\ ren' = ren /\ seen' = seen
    BY <1>7 DEF vars, runVars
  <2>2. /\ NamesGiven' /\ (Supported' <=> Supported) /\ (Done' <=> Done)
        /\ NamesAt(item)' = NamesAt(item) /\ NamesAt(item - 1)' = NamesAt(item - 1)
        /\ \A a : UpdatedAgain(item, a)' <=> UpdatedAgain(item, a)
    BY <2>1, PassAlone DEF LockstepInv
  <2>3. RunTypeOK'
    BY <2>1, <2>2 DEF LockstepInv, RunTypeOK, NamesMade, Item
  <2>4. NamesHold => NamesHold'
    <3>1. \A a, x : (UnderNew(a, x)' <=> UnderNew(a, x)) /\ (UnderOld(a, x)' <=> UnderOld(a, x))
      BY <2>1, <2>2 DEF UnderNew, UnderOld, Item
    <3> QED
      BY <2>1, <2>2, <3>1 DEF NamesHold
  <2> QED
    BY <2>1, <2>2, <2>3, <2>4 DEF LockstepInv
<1> QED
  BY <1>1, <1>2, <1>3, <1>4, <1>5, <1>6, <1>7 DEF RunNext

-----------------------------------------------------------------------------
(***************************************************************************)
(* The names process_loop gives (array_ssa.cpp:64-80) and what is under    *)
(* them: whenever an item is about to run, the current names hold the      *)
(* arrays, and inside an item an element is under the new name once it is  *)
(* stored or copied, under the old one until it may be.                    *)
(***************************************************************************)
THEOREM LockstepInvariant == RunSpec => []LockstepInv
<1>1. RunInit => NameInv
  BY NameInit DEF RunInit
<1>2. TypeOK /\ TypeOK' /\ NameInv /\ [RunNext]_<<vars, runVars>> => NameInv'
  <2>1. [RunNext]_<<vars, runVars>> => [Next]_vars
    BY DEF RunNext, Enter, Skip, Pass, Execute, EndOfBody
  <2> QED
    BY <2>1, NameStep
<1> QED
  BY <1>1, <1>2, LockstepInit, LockstepStep, RunTypeCorrect, PTL DEF RunSpec

(***************************************************************************)
(* Each load of the renamed function reads what the load of the function   *)
(* does, whichever name rename_arr_in_block (array_ssa.cpp:115-158) chose. *)
(***************************************************************************)
THEOREM RenamedReadsTheSame == RunSpec => []SameReads
<1>1. LockstepInv => SameReads
  BY DEF LockstepInv, SameReads
<1> QED
  BY <1>1, LockstepInvariant, PTL

(***************************************************************************)
(* Between two items the current names hold the arrays: the copies of      *)
(* add_equality_stmt and the stores of the loops leave nothing behind      *)
(* under a name that update_prev_curr_maps has retired.                    *)
(***************************************************************************)
THEOREM CurrentNamesHold == RunSpec => []CurrentNames
<1>1. TypeOK /\ LockstepInv => CurrentNames
  <2> SUFFICES ASSUME TypeOK, LockstepInv, Supported, Done, op = 0, item > 1, NEW c \in Cells
               PROVE  ren[ends[item - 1][c[1]]][c] = mem[c]
    BY DEF CurrentNames
  <2>1. NamesAt(item - 1) = ends[item - 1]
    BY DEF NamesAt, LockstepInv, RunTypeOK
  <2>2. c[1] \in Arrays /\ c[2] \in Elements(c[1]) /\ c = <<c[1], c[2]>>
    BY CellsOf
  <2>3. \A a \in Arrays : \A x \in Elements(a) :
          ren[NamesAt(item - 1)[a]][<<a, x>>] = mem[<<a, x>>]
    BY DEF LockstepInv, NamesHold
  <2> QED
    BY <2>1, <2>2, <2>3
<1> QED
  BY <1>1, RunTypeCorrect, LockstepInvariant, PTL
=============================================================================
