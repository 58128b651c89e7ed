-------------------------- MODULE ArrayEqualities --------------------------
(***************************************************************************)
(* bmc_llvm_aggr::compute_pre: the constraints of a path, of the           *)
(* hypothesis and of the assertion become one list of conjuncts, from      *)
(* which five passes of utils/z3Utils.cpp eliminate the equations between  *)
(* arrays, so that what is left speaks of array elements:                  *)
(*   array   propogate_array_eq          store  propogate_store_eq         *)
(*   nest    simplify_select_store_nest  select propogate_select_eq        *)
(*   sum     simplify_select_eq                                            *)
(*                                                                         *)
(* An iterator is a position of the list, Len(list) + 1 being the end.     *)
(* gaps and lost are history variables: gaps names the rules that have     *)
(* been applied where they do not hold, lost those that have dropped a     *)
(* conjunct the rest of the list does not stand for.                       *)
(***************************************************************************)
EXTENDS ArrayTerms, FiniteSets

CONSTANT Inputs    \* records of the constraints body, hyp and post

(* The argument of an assertion is a scalar (assert_to_spec, bmc_pass.cpp: *)
(* 179); a strengthened post is a pre-condition, without such equations.   *)
ASSUME PostAssumption ==
  \A in \in Inputs : in.post # <<>> => ~ SpeaksOfArrays(Last(in.post))

VARIABLES
  from,       \* the constraints compute_pre was called with: never changes
  list,       \* pre
  copy,       \* list_copy: the conjuncts as propogate_store_eq found them
  stage,      \* the pass
  it,         \* its iterator
  size,       \* the length of list at the beginning of the sweep
  new_list,   \* the conjuncts to be added at the end of the pass
  gaps, lost

passVars == <<copy, stage, it, size, new_list>>
vars == <<from, list, passVars, gaps, lost>>

Stages == <<"array", "store", "nest", "select", "sum", "done">>

\* The early return of compute_pre, forgotten.
extract_exprAlways(in) == in.body \o in.hyp \o in.post

(* The conjuncts, without the conjunctions at the top, unless post or hyp is empty. *)
extract_expr(in) ==
  IF in.post = <<>> \/ in.hyp = <<>> THEN <<>> ELSE in.body \o in.hyp \o in.post

(* Each equation of l with an array defines one, on the side given by side, *)
(* by arrays of lower ranks; no array is defined twice.                     *)
DefinedBy(l, rank, side) ==
  \A n \in DOMAIN l : SpeaksOfArrays(l[n]) =>
    LET array == l[n].args[side[n]]  value == l[n].args[3 - side[n]] IN
    /\ array.name \in Arrays
    /\ \A a \in Names(value) \cap Arrays : rank[a] < rank[array.name]
    /\ \A k \in DOMAIN l \ {n} : SpeaksOfArrays(l[k]) => l[k].args[side[k]].name # array.name

(* A store and a join of paths each make a new version of an array, equal  *)
(* to what is made of those before (array_model.cpp:79, 26).               *)
ASSUME DefinitionsAssumption ==
  \A in \in Inputs : \E rank \in [Arrays -> 0 .. Cardinality(Arrays)],
                          side \in [DOMAIN extract_expr(in) -> 1 .. 2] :
    DefinedBy(extract_expr(in), rank, side)

Init ==
  /\ from \in Inputs
  /\ list = extract_expr(from)
  /\ copy = <<>> /\ new_list = <<>>
  /\ stage = "array" /\ it = 1 /\ size = Len(list)
  /\ gaps = {} /\ lost = {}

AtEnd == it = Len(list) + 1

(* The end of a pass: the next one begins with the list l. *)
NextStage(l) ==
  /\ list' = l
  /\ stage' = Stages[1 + CHOOSE s \in DOMAIN Stages : Stages[s] = stage]
  /\ it' = 1 /\ size' = Len(l) /\ new_list' = <<>>
  /\ copy' = IF stage = "array" THEN l ELSE copy
  /\ UNCHANGED <<from, gaps, lost>>

Erase(n) == RemoveAt(list, n)

-----------------------------------------------------------------------------
(***************************************************************************)
(* propogate_array_eq: every sweep replaces, in all other conjuncts, the   *)
(* left side of the first equation of two arrays by the right one.         *)
(***************************************************************************)
ArrayEquations ==
  {n \in DOMAIN list : LET e == list[n] IN
     isEQ(e) /\ \A s \in 1 .. 2 : is_array(e.args[s]) /\ ~ isStore(e.args[s])}

First(S) == CHOOSE n \in S : \A m \in S : n <= m

propogate_array_eq ==
  /\ stage = "array"
  /\ IF ArrayEquations = {} THEN NextStage(list)
     ELSE LET n == First(ArrayEquations) IN
          /\ list' = inplace_substitute(Erase(n), list[n].args[1], list[n].args[2])
          /\ UNCHANGED <<from, passVars, gaps, lost>>

(***************************************************************************)
(* propogate_store_eq.  An equation of an array with a store is erased; if *)
(* a conjunct of list_copy reads the element stored, the store takes the   *)
(* array's place everywhere and the sweep starts again.  Otherwise the     *)
(* iterator, already at the next conjunct, advances past it.               *)
(***************************************************************************)
(* <<array, store>> for an equation of an array with a store. *)
Definition(e) ==
  {<<e.args[s], e.args[3 - s]>> : s \in {r \in 1 .. 2 :
     isEQ(e) /\ is_array(e.args[r]) /\ isStore(e.args[3 - r]) /\ ~ isStore(e.args[r])}}

IsRead(a, st) ==
  \E n \in DOMAIN copy : \E sel \in collect_select(copy[n]) :
    sel.args[1] = a /\ simplify(sel.args[2]) = simplify(st.args[2])

StoreSkip ==
  /\ stage = "store" /\ it <= Len(list) /\ Definition(list[it]) = {}
  /\ it' = it + 1
  /\ UNCHANGED <<from, list, copy, stage, size, new_list, gaps, lost>>

StoreRead ==
  /\ stage = "store" /\ it <= Len(list)
  /\ \E d \in Definition(list[it]) :
       /\ IsRead(d[1], d[2])
       /\ list' = inplace_substitute(Erase(it), d[1], d[2])
  /\ it' = 1 /\ size' = Len(list')
  /\ UNCHANGED <<from, copy, stage, new_list, gaps, lost>>

StoreUnread ==
  /\ stage = "store" /\ it <= Len(list)
  /\ \E d \in Definition(list[it]) :
       /\ ~ IsRead(d[1], d[2])
       /\ lost' = lost \cup (IF d[1].name \in SymbolsOf(Erase(it)) THEN {"unread"} ELSE {})
  /\ list' = Erase(it)
  /\ it' = it + 1
  /\ UNCHANGED <<from, copy, stage, size, new_list, gaps>>

\* One sweep only.
StoreSweptOnce ==
  /\ stage = "store" /\ AtEnd /\ NextStage(list)

\* The length is taken once, before the loop.
StoreSweptForever ==
  /\ stage = "store" /\ AtEnd
  /\ IF size = Len(list) THEN NextStage(list)
     ELSE /\ it' = 1
          /\ UNCHANGED <<from, list, copy, stage, size, new_list, gaps, lost>>

\* A sweep is the last one if it has erased nothing.
StoreSwept ==
  /\ stage = "store" /\ AtEnd
  /\ IF size = Len(list) THEN NextStage(list)
     ELSE /\ it' = 1 /\ size' = Len(list)
          /\ UNCHANGED <<from, list, copy, stage, new_list, gaps, lost>>

-----------------------------------------------------------------------------
(***************************************************************************)
(* simplify_select_store_nest: an equation, or its negation, on an element *)
(* just stored becomes one on the value stored.  The element is looked for *)
(* on both sides, and the new equation has the right side always.          *)
(***************************************************************************)
Positive(f) == IF isNot(f) THEN f.args[1] ELSE f

(* The side of the equation the pass looks at: the left one if it is an element. *)
Element(e) == IF isSelect(e.args[1]) THEN 1 ELSE 2

Nested(f) ==
  LET e == Positive(f)  sel == e.args[Element(e)] IN
  isEQ(e) /\ isSelect(sel) /\ isStore(sel.args[1])
    /\ simplify(sel.args[2]) = simplify(sel.args[1].args[2])

\* The negation is forgotten.
OnTheValuePositive(f) ==
  LET e == Positive(f) IN
  simplify(equals(e.args[2], e.args[Element(e)].args[1].args[3]))

OnTheValue(f) ==
  LET e == Positive(f)  st == e.args[Element(e)].args[1]
      new_eq == equals(e.args[2], st.args[3])
  IN simplify(IF isNot(f) THEN not(new_eq) ELSE new_eq)

simplify_select_store_nest ==
  /\ stage = "nest" /\ it <= Len(list)
  /\ LET f == list[it]  mirrored == Element(Positive(f)) = 2 IN
     \/ /\ ~ Nested(f)
        /\ it' = it + 1
        /\ UNCHANGED <<list, new_list, gaps, lost>>
     \/ /\ Nested(f)
        /\ new_list' = Append(new_list, OnTheValue(f))
        /\ list' = Erase(it)
        /\ gaps' = gaps \cup (IF mirrored /\ isNot(f) THEN {"mirrored"} ELSE {})
        /\ lost' = lost \cup (IF mirrored THEN {"mirrored"} ELSE {})
        /\ UNCHANGED it
  /\ UNCHANGED <<from, copy, stage, size>>

(***************************************************************************)
(* propogate_select_eq: the element in the first equation of an element    *)
(* with another term is replaced by that term, and the equation erased.    *)
(* The elements of the same array at other indices stay as they are.       *)
(***************************************************************************)
ElementEquations ==
  {n \in DOMAIN list : LET e == list[n] IN
     isEQ(e) /\ (isSelect(e.args[1]) # isSelect(e.args[2]))}

propogate_select_eq ==
  /\ stage = "select"
  /\ IF ElementEquations = {} THEN NextStage(list)
     ELSE LET n       == First(ElementEquations)
              s       == Element(list[n])
              element == list[n].args[s]
              value   == list[n].args[3 - s]
          IN /\ list' = inplace_substitute(Erase(n), element, value)
             /\ lost' = IF \/ isStore(element.args[1])
                           \/ element.args[1].name \in SymbolsOf(list') \cup Names(value) \cup Names(element.args[2])
                        THEN lost \cup {"alias"} ELSE lost
             /\ UNCHANGED <<from, passVars, gaps>>

(***************************************************************************)
(* simplify_select_eq: a sum with an element, equal to another term,       *)
(* becomes an equation of the element with the difference.  Of two         *)
(* elements in one sum only the second is kept.                            *)
(***************************************************************************)
(* The sides that are a sum with an element while the other side is not one. *)
Sums(e) ==
  {s \in 1 .. 2 : isEQ(e) /\ isAdd(e.args[s]) /\ ~ isSelect(e.args[3 - s])
     /\ \E n \in 1 .. 2 : isSelect(e.args[s].args[n])}

\* The difference, taken the wrong way round.
SolvedReversed(e, s) ==
  LET sum == e.args[s]  rhs == e.args[3 - s] IN
  CASE ~ isSelect(sum.args[1]) -> equals(sum.args[2], minus(sum.args[1], rhs))
    [] ~ isSelect(sum.args[2]) -> equals(sum.args[1], minus(sum.args[2], rhs))
    [] OTHER -> equals(sum.args[2], rhs)

Solved(e, s) ==
  LET sum == e.args[s]  rhs == e.args[3 - s] IN
  CASE ~ isSelect(sum.args[1]) -> equals(sum.args[2], minus(rhs, sum.args[1]))
    [] ~ isSelect(sum.args[2]) -> equals(sum.args[1], minus(rhs, sum.args[2]))
    [] OTHER -> equals(sum.args[2], rhs)

simplify_select_eq ==
  /\ stage = "sum" /\ it <= Len(list)
  /\ LET e == list[it] IN
     \/ /\ Sums(e) = {}
        /\ it' = it + 1
        /\ UNCHANGED <<list, new_list, gaps, lost>>
     \/ /\ Sums(e) # {}
        /\ LET s == First(Sums(e))
               two == \A n \in 1 .. 2 : isSelect(e.args[s].args[n])
           IN /\ new_list' = Append(new_list, simplify(Solved(e, s)))
              /\ gaps' = gaps \cup (IF two THEN {"summed"} ELSE {})
              /\ lost' = lost \cup (IF two THEN {"summed"} ELSE {})
        /\ list' = Erase(it)
        /\ UNCHANGED it
  /\ UNCHANGED <<from, copy, stage, size>>

\* The new conjuncts are not inserted.
SingleSweepEndsWithout ==
  /\ stage \in {"nest", "sum"} /\ AtEnd
  /\ NextStage(list)

SingleSweepEnds ==
  /\ stage \in {"nest", "sum"} /\ AtEnd
  /\ NextStage(list \o new_list)

-----------------------------------------------------------------------------
Next ==
  \/ propogate_array_eq
  \/ StoreSkip \/ StoreRead \/ StoreUnread \/ StoreSwept
  \/ simplify_select_store_nest
  \/ propogate_select_eq
  \/ simplify_select_eq
  \/ SingleSweepEnds

(* compute_pre has returned. *)
Done == stage = "done" /\ UNCHANGED vars

Spec == Init /\ [][Next \/ Done]_vars

-----------------------------------------------------------------------------
(* The iterator stays within the list or is at its end: list.erase and     *)
(* it++ together (z3Utils.cpp:1239, 1262) step over the end if an unread   *)
(* store is the last conjunct.                                             *)
TypeOK ==
  /\ stage \in ToSet(Stages)
  /\ it \in 1 .. Len(list) + 1
  /\ size >= Len(list)
  /\ gaps \subseteq {"mirrored", "summed"}
  /\ lost \subseteq {"unread", "alias", "mirrored", "summed"}

Constraints == extract_expr(from)

(* What compute_pre returns follows from the path, the hypothesis and the  *)
(* assertion, whatever the indices alias: verify_post takes it as the next *)
(* assertion, and a false in it as success (bmc_llvm_aggr.cpp:509).  Only  *)
(* an element on the right of a negated equation and a sum of two elements *)
(* are rewritten into something that does not follow.                      *)
PreIsImplied ==
  stage = "done" /\ gaps = {} =>
    \A m \in Valuations(SymbolsOf(Constraints)) :
      Satisfies(m, Constraints) => Satisfies(m, list)

(* Nothing else is lost: unless a store that is read elsewhere, an element *)
(* whose array is read or has been stored to at another index, or one of   *)
(* the two rules above has dropped a conjunct, a pre-condition that can be *)
(* satisfied means that the path, the hypothesis and the assertion can     *)
(* hold together.                                                          *)
PreIsExact ==
  stage = "done" /\ lost = {} =>
    ((\E m \in Valuations(SymbolsOf(list)) : Satisfies(m, list))
      => \E m \in Valuations(SymbolsOf(Constraints)) : Satisfies(m, Constraints))

(* No equation of whole arrays reaches verify_post, which shifts N in what *)
(* it finds, although a sweep skips the conjunct after one it drops.       *)
ArraysAreEliminated ==
  stage = "done" =>
    \A n \in DOMAIN list : isEQ(list[n]) => ~ is_array(list[n].args[1])

(* compute_pre returns: every step begins a later pass, or shortens the    *)
(* list, or begins a sweep that the last one has made necessary, or        *)
(* advances.  With no deadlock before the end this is termination; the     *)
(* sweeps of propogate_store_eq are repeated until one erases nothing      *)
(* (z3Utils.cpp:1269).                                                     *)
Rank == CHOOSE s \in DOMAIN Stages : Stages[s] = stage

Advances ==
  \/ Rank' > Rank
  \/ /\ Rank' = Rank
     /\ \/ Len(list') < Len(list)
        \/ list' = list /\ size' < size
        \/ list' = list /\ size' = size /\ it' > it

Progress == [][Advances]_vars
=============================================================================
