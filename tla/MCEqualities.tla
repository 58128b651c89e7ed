--------------------------- MODULE MCEqualities ---------------------------
(***************************************************************************)
(* The pre-conditions of difference functions over one array, a0 at entry, *)
(* with one or two versions of it, a1 and a2; equations both ways round.   *)
(***************************************************************************)
EXTENDS ArrayEqualities, Z3Terms

MCArrays  == {"a0", "a1", "a2"}
MCNumbers == {"x", "y"}
MCIndices == {"p", "q"}

A(n) == Symbol(IF n = 0 THEN "a0" ELSE IF n = 1 THEN "a1" ELSE "a2")
X == Symbol("x")
Y == Symbol("y")
P == Symbol("p")
Q == Symbol("q")

BothWays(l, r) == {equals(l, r), equals(r, l)}

(* The store of a peeled iteration: a constant, or the old element and more. *)
Stores ==
  BothWays(A(1), store(A(0), P, Y)) \cup {equals(A(1), store(A(0), P, plus(select(A(0), P), Y)))}

(* The last version of the array, and how it comes from a1. *)
Versions ==
  {<<1, <<>>>>}
    \cup {<<2, <<e>>>> : e \in BothWays(A(2), A(1)) \cup {equals(A(2), store(A(1), Q, X))}}

(* What the branches of the path say of the version v. *)
Branches(v) ==
  {<<>>, <<equals(select(A(v), P), X)>>, <<not(equals(X, select(A(v), P)))>>,
   <<not(equals(select(A(v), P), X)), equals(P, Q)>>}

Hypotheses ==
  {<<>>, <<not(equals(plus(X, Y), X))>>, <<equals(select(A(0), P), X)>>, <<equals(X, select(A(0), Q))>>,
   <<equals(plus(select(A(0), P), Y), X)>>, <<equals(plus(X, select(A(0), P)), Y)>>}

Assertions(v) ==
  {<<>>, <<equals(select(A(v), P), X)>>, <<equals(X, select(A(v), Q))>>,
   <<not(equals(select(A(v), P), X))>>,
   <<equals(plus(select(A(v), P), select(A(v), Q)), X)>>}

MCInputs ==
  UNION {{[body |-> <<s>> \o v[2] \o b, hyp |-> h, post |-> a] :
            s \in Stores, b \in Branches(v[1]), h \in Hypotheses, a \in Assertions(v[1])} :
         v \in Versions}

(***************************************************************************)
(* What is asked of z3 holds of the definitions in Z3Terms: the terms of a *)
(* pass over a1 and a0, read at an index that may be the one stored to.    *)
(***************************************************************************)
SampleOf(arrays, integers, indices) ==
  LET equations == UNION {{equals(t, u) : t, u \in S} : S \in {arrays, integers, indices}} IN
  "array" :> arrays @@ "integer" :> integers @@ "index" :> indices
    @@ "formula" :> (equations \cup {not(f) : f \in equations} \cup {true, false})

Sample ==
  LET stored == store(A(0), P, plus(select(A(0), P), X)) IN
  SampleOf({A(0), stored},
           {X, select(A(0), P), plus(select(A(0), P), X), select(stored, P), select(stored, Q)},
           {P, Q})

ASSUME SampleAssumption ==
  LET S == {"a0", "x", "p", "q"} IN
  /\ Z3Syntax(Sample) /\ Z3Simplifies(Sample) /\ Z3Replaces(Sample) /\ Z3Renames(Sample)
  /\ Z3Sound(Sample, S) /\ Z3Local(Sample, S)
=============================================================================
