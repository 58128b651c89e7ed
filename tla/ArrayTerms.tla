---------------------------- MODULE ArrayTerms ----------------------------
(***************************************************************************)
(* The z3 terms a pre-condition is computed from, as far as the rewriting  *)
(* of utils/z3Utils.cpp looks at them: an operator over the terms of args, *)
(* or the symbol name.  Symbols are array variables, integers, indices.    *)
(***************************************************************************)
EXTENDS Integers, Sequences, SequencesExt

CONSTANTS
  Arrays,     \* the names of arrays
  Numbers,    \* the names of integers that are not indices
  Indices,    \* the names of indices
  Width,      \* arithmetic is modulo Width
  Subterms(_),           \* z3: the term and all below it
  substitute(_, _, _),   \* z3: the term with its second argument replaced by the third
  simplify(_),           \* z3: an equivalent term
  Meaning(_, _)          \* the value of a term under a valuation of its symbols

ASSUME NamesAssumption ==
  /\ Arrays \cap (Numbers \cup Indices) = {} /\ Numbers \cap Indices = {}
  /\ "" \notin Arrays \cup Numbers \cup Indices
ASSUME WidthAssumption == Width \in Nat /\ Width > 1

Symbol(s)         == [op |-> "symbol", name |-> s, args |-> <<>>]
Term(op, args)    == [op |-> op, name |-> "", args |-> args]
select(a, i)      == Term("select", <<a, i>>)
store(a, i, v)    == Term("store", <<a, i, v>>)
plus(x, y)        == Term("+", <<x, y>>)
minus(x, y)       == Term("-", <<x, y>>)
equals(x, y)      == Term("=", <<x, y>>)
not(f)            == Term("not", <<f>>)
true              == Term("true", <<>>)
false             == Term("false", <<>>)

isEQ(t)     == t.op = "="
isNot(t)    == t.op = "not"
isSelect(t) == t.op = "select"
isStore(t)  == t.op = "store"
isAdd(t)    == t.op = "+"
is_array(t) == isStore(t) \/ t.name \in Arrays

(* An equation with an array on one side at least. *)
SpeaksOfArrays(e) == isEQ(e) /\ \E s \in 1 .. 2 : is_array(e.args[s])

collect_select(t) == {u \in Subterms(t) : isSelect(u)}

Names(t) == {u.name : u \in Subterms(t)} \ {""}

inplace_substitute(list, out, in) ==
  [n \in DOMAIN list |-> substitute(list[n], out, in)]

SymbolsOf(list) == UNION {Names(list[n]) : n \in DOMAIN list}

(***************************************************************************)
(* The valuations of the symbols S: an array has values at all positions.  *)
(***************************************************************************)
Positions == {0, 1}
Values    == 0 .. Width - 1

Valuation(S, a, n, i) ==
  [x \in S |-> IF x \in Arrays THEN a[x] ELSE IF x \in Numbers THEN n[x] ELSE i[x]]

Valuations(S) ==
  {Valuation(S, a, n, i) : a \in [S \cap Arrays -> [Positions -> Values]],
                           n \in [S \cap Numbers -> Values],
                           i \in [S \cap Indices -> Positions]}

Satisfies(m, list) == \A n \in DOMAIN list : Meaning(list[n], m)

-----------------------------------------------------------------------------
(***************************************************************************)
(* What the rewriting relies on z3 for.  T[s] is a set of terms of the     *)
(* sort s, for instance of all of them.  Z3Terms holds definitions to run. *)
(***************************************************************************)
Sorts == {"array", "integer", "index", "formula"}

(* Each sort has operators of its own, over arguments of the right sorts. *)
Z3Syntax(T) ==
  /\ \A s, r \in Sorts : s # r => T[s] \cap T[r] = {}
  /\ \A s \in Sorts : \A t \in T[s] :
       /\ isSelect(t) => /\ s = "integer" /\ t = select(t.args[1], t.args[2])
                         /\ t.args[1] \in T["array"] /\ t.args[2] \in T["index"]
       /\ isStore(t) => /\ s = "array" /\ t = store(t.args[1], t.args[2], t.args[3])
                        /\ t.args[1] \in T["array"] /\ t.args[2] \in T["index"]
                        /\ t.args[3] \in T["integer"]
       /\ isAdd(t) => /\ s = "integer" /\ t = plus(t.args[1], t.args[2])
                      /\ t.args[1] \in T["integer"] /\ t.args[2] \in T["integer"]
       /\ isEQ(t) => /\ s = "formula" /\ t = equals(t.args[1], t.args[2])
                     /\ \E r \in Sorts \ {"formula"} : t.args[1] \in T[r] /\ t.args[2] \in T[r]
       /\ isNot(t) => s = "formula" /\ t = not(t.args[1]) /\ t.args[1] \in T["formula"]
       /\ is_array(t) <=> s = "array"
       /\ t.name \in Arrays => t = Symbol(t.name)
       /\ Names(t) = ({t.name} \ {""}) \cup UNION {Names(t.args[n]) : n \in DOMAIN t.args}

(* The terms the passes build from terms of T are terms of T. *)
Z3Closed(T) ==
  /\ \A r \in Sorts \ {"formula"} : \A x, y \in T[r] : equals(x, y) \in T["formula"]
  /\ \A f \in T["formula"] : not(f) \in T["formula"]
  /\ \A x, y \in T["integer"] : minus(x, y) \in T["integer"]
  /\ \A s \in Sorts : \A t \in T[s] :
       /\ simplify(t) \in T[s]
       /\ \A r \in Sorts \ {"formula"} : \A out, in \in T[r] : substitute(t, out, in) \in T[s]

(* simplify adds no symbol and makes no equation of arrays from another. *)
Z3Simplifies(T) ==
  \A s \in Sorts : \A t \in T[s] :
    /\ Names(simplify(t)) \subseteq Names(t)
    /\ isEQ(t) /\ ~ SpeaksOfArrays(t) =>
         ~ SpeaksOfArrays(simplify(t)) /\ ~ SpeaksOfArrays(simplify(not(t)))

(* substitute replaces all occurrences of out, and brings in names of in alone. *)
Z3Replaces(T) ==
  \A s \in Sorts : \A t \in T[s] : \A r \in Sorts \ {"formula"} : \A out, in \in T[r] :
    substitute(t, out, in) =
      IF t = out THEN in
      ELSE [op |-> t.op, name |-> t.name,
            args |-> [n \in DOMAIN t.args |-> substitute(t.args[n], out, in)]]

Z3Renames(T) ==
  \A s \in Sorts : \A t \in T[s] : \A r \in Sorts \ {"formula"} : \A out, in \in T[r] :
    /\ Names(substitute(t, out, in)) \subseteq Names(t) \cup Names(in)
    /\ out.name # "" =>
         Names(substitute(t, out, in)) \subseteq
           (Names(t) \ {out.name}) \cup (IF out.name \in Names(t) THEN Names(in) ELSE {})

Symbols == Arrays \cup Numbers \cup Indices

(* What terms over the symbols S mean; neither operation changes it. *)
Z3Sound(T, S) ==
  LET Over(s) == {t \in T[s] : Names(t) \subseteq S} IN
  \A m \in Valuations(S) :
    /\ \A t \in Over("array")   : Meaning(t, m) \in [Positions -> Values]
    /\ \A t \in Over("integer") : Meaning(t, m) \in Values
    /\ \A t \in Over("index")   : Meaning(t, m) \in Positions
    /\ \A t \in Over("formula") : Meaning(t, m) \in BOOLEAN /\ Meaning(not(t), m) = ~ Meaning(t, m)
    /\ \A a \in Over("array"), i \in Over("index"), v \in Over("integer") :
         /\ Meaning(select(a, i), m) = Meaning(a, m)[Meaning(i, m)]
         /\ Meaning(store(a, i, v), m) = [Meaning(a, m) EXCEPT ![Meaning(i, m)] = Meaning(v, m)]
    /\ \A x, y \in Over("integer") :
         /\ Meaning(plus(x, y), m) = (Meaning(x, m) + Meaning(y, m)) % Width
         /\ Meaning(minus(x, y), m) = (Meaning(x, m) - Meaning(y, m)) % Width
    /\ \A r \in Sorts \ {"formula"} : \A x, y \in Over(r) :
         /\ Meaning(equals(x, y), m) = (Meaning(x, m) = Meaning(y, m))
         /\ Meaning(x, m) = Meaning(y, m) =>
              \A s \in Sorts : \A t \in Over(s) : Meaning(substitute(t, x, y), m) = Meaning(t, m)
    /\ \A s \in Sorts : \A t \in Over(s) : Meaning(simplify(t), m) = Meaning(t, m)

(* The meaning of a term is a matter of its own symbols. *)
Z3Local(T, S) ==
  \A m \in Valuations(S) : \A s \in Sorts : \A t \in T[s] : Names(t) \subseteq S =>
    /\ Meaning(t, [n \in Names(t) |-> m[n]]) = Meaning(t, m)
    /\ t.name # "" => Meaning(t, m) = m[t.name]

Z3Contract(T) ==
  /\ Z3Syntax(T) /\ Z3Closed(T) /\ Z3Simplifies(T) /\ Z3Replaces(T) /\ Z3Renames(T)
  /\ \A S \in SUBSET Symbols : Z3Sound(T, S) /\ Z3Local(T, S)
=============================================================================
