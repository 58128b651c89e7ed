----------------------------- MODULE NestedRun -----------------------------
(***************************************************************************)
(* Both functions in execution: what simplify_nl was given, and what it    *)
(* has made of it, from the same contents and with the same N.             *)
(***************************************************************************)
EXTENDS SimplifyNl

CONSTANTS
  MaxN,         \* the sizes to run with
  Contents      \* the contents at entry, for each array and index

Cells == 0..(MaxN + 1)

ASSUME MaxNAssumption == MaxN \in Nat
ASSUME ContentsAssumption == Contents \in [Arrays -> [Cells -> Int]]

(* The arrays have N elements: a loop that goes along one stays between 0 and N. *)
AtInner(o) == o.kind = "load" /\ o.idx = "inner"

GoesAlong(lp) ==
  \E p \in DOMAIN lp.body :
    lp.body[p].idx = "inner" \/ AtInner(lp.body[p].l) \/ AtInner(lp.body[p].r)

ASSUME BoundsAssumption ==
  \A f \in Functions : \A k \in DOMAIN f : \A p \in LoopsAt(f[k]) : GoesAlong(f[k][p]) =>
    \A n \in 1..MaxN : \A i \in 0..(n - 1) :
      \A c \in DOMAIN Counters(f[k][p], Iteration(n, i)) :
        Counters(f[k][p], Iteration(n, i))[c] \in 0..(n - 1)

(* The closed forms compute what the inner loops computed, for every N,    *)
(* unless the pass has gone wrong in one of the ways gaps names            *)
(* (simplify_nl.cpp:260-318).                                              *)
SimplifiedIsNested ==
  verdict = "done" /\ gaps = {} =>
    \A n \in 1..MaxN : After(Contents, n, out) = After(Contents, n, prog)
=============================================================================
