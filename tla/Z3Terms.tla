------------------------------ MODULE Z3Terms ------------------------------
(***************************************************************************)
(* The operations of z3 on the terms of ArrayTerms, as definitions to run. *)
(***************************************************************************)
EXTENDS ArrayTerms

(* F of each argument: a term has at most three. *)
EachOf(args, F(_)) ==
  CASE args = <<>>    -> <<>>
    [] Len(args) = 1  -> <<F(args[1])>>
    [] Len(args) = 2  -> <<F(args[1]), F(args[2])>>
    [] Len(args) = 3  -> <<F(args[1]), F(args[2]), F(args[3])>>

RECURSIVE SubtermsOf(_)
SubtermsOf(t) == {t} \cup UNION {SubtermsOf(t.args[n]) : n \in DOMAIN t.args}

RECURSIVE Substituted(_, _, _)
Substituted(t, out, in) ==
  IF t = out THEN in
  ELSE [t EXCEPT !.args = EachOf(t.args, LAMBDA a : Substituted(a, out, in))]

(***************************************************************************)
(* z3's simplify, on the terms the rewriting builds: an element just       *)
(* stored is read back, an equation of a term with itself is true.         *)
(***************************************************************************)
Folded(t) ==
  CASE isSelect(t) /\ isStore(t.args[1]) /\ t.args[1].args[2] = t.args[2] -> t.args[1].args[3]
    [] isEQ(t) /\ t.args[1] = t.args[2] -> true
    [] isNot(t) /\ t.args[1] = true -> false
    [] isNot(t) /\ t.args[1] = false -> true
    [] OTHER -> t

RECURSIVE Simplified(_)
Simplified(t) == Folded([t EXCEPT !.args = EachOf(t.args, Simplified)])

RECURSIVE MeaningOf(_, _)
MeaningOf(t, m) ==
  CASE t.op = "symbol" -> m[t.name]
    [] t.op = "true"   -> TRUE
    [] t.op = "false"  -> FALSE
    [] t.op = "not"    -> ~ MeaningOf(t.args[1], m)
    [] t.op = "="      -> MeaningOf(t.args[1], m) = MeaningOf(t.args[2], m)
    [] t.op = "+"      -> (MeaningOf(t.args[1], m) + MeaningOf(t.args[2], m)) % Width
    [] t.op = "-"      -> (MeaningOf(t.args[1], m) - MeaningOf(t.args[2], m)) % Width
    [] t.op = "select" -> MeaningOf(t.args[1], m)[MeaningOf(t.args[2], m)]
    [] t.op = "store"  -> [MeaningOf(t.args[1], m) EXCEPT
                             ![MeaningOf(t.args[2], m)] = MeaningOf(t.args[3], m)]
=============================================================================
