--------------------------- MODULE ProgramFamily ---------------------------
(***************************************************************************)
(* What the inductive verifier of bmc/bmc_llvm_aggr.cpp reasons about.     *)
(*                                                                         *)
(* A C program over arrays of size N is a family P_1, P_2, ... of          *)
(* programs.  The passes that run before the verifier leave two functions: *)
(* the base function, run with N = 1, and the difference function, which   *)
(* turns the final arrays of P_(N-1) into those of P_N.  The z3 formulas   *)
(* the verifier builds from them are represented by what they denote: a    *)
(* condition on the arrays and on N is a set of points <<N, contents>>,    *)
(* and one path of the difference function is a set of triples             *)
(* <<N, contents at entry, contents at exit>>.                             *)
(***************************************************************************)
EXTENDS Integers, Sequences

CONSTANTS
  Data,      \* what the arrays can contain
  Sizes,     \* the values of N: 1..K for TLC, every positive number in the proofs
  Programs   \* the analysed programs: their base function, paths and assertions

Points == (Sizes \cup {0}) \X Data
Steps  == Sizes \X Data \X Data

(* An assertion: the points where it holds and, when it is an existential, *)
(* those where its body holds of the index 0 and of the index N - 1.       *)
Assertions == [exists : BOOLEAN, holds : SUBSET Points,
               at0 : SUBSET Points, atLast : SUBSET Points]

ProgramType == [base : SUBSET Data, paths : Seq(SUBSET Steps),
                specs : Seq(Assertions), unsupported : BOOLEAN]

ASSUME SizesAssumption ==
  Sizes \subseteq Nat \ {0} /\ 1 \in Sizes /\ \A n \in Sizes : 1..n \subseteq Sizes
ASSUME ProgramsAssumption == Programs \subseteq ProgramType

(***************************************************************************)
(* The executions of a program: the final contents of P_1, and what the    *)
(* difference function makes of final contents of P_(n-1).                 *)
(***************************************************************************)
Entered(step) == <<step[1] - 1, step[2]>>
Exited(step)  == <<step[1], step[3]>>

StepsOf(P) == UNION {P.paths[i] : i \in DOMAIN P.paths}

InitialPoints(P) == {<<1, d>> : d \in P.base}

Successors(P, x) ==
  {Exited(t) : t \in {u \in StepsOf(P) : u[1] > 1 /\ Entered(u) = x}}

(* The executions up to P_n: the final contents of P_1, P_2, ... P_n. *)
Executions(P, n) ==
  {run \in [1..n -> Data] :
     run[1] \in P.base /\ \A m \in 2..n : <<m, run[m - 1], run[m]>> \in StepsOf(P)}

Reachable(P) == UNION {{<<n, run[n]>> : run \in Executions(P, n)} : n \in Sizes}

(* The post-condition of P: each of its assertions, for every N. *)
Valid(P) == \A k \in DOMAIN P.specs : Reachable(P) \subseteq P.specs[k].holds

(* No assumption in the source of P cuts one of its executions off, or all of P_1. *)
Total(P) ==
  /\ P.base # {}
  /\ \A x \in Reachable(P) : x[1] + 1 \in Sizes => Successors(P, x) # {}
=============================================================================
