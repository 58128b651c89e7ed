-------------------------- MODULE EqualityProofs --------------------------
(***************************************************************************)
(* Proofs about the pre-conditions, for every list of constraints, every   *)
(* set of names and every width.  T stands for the well-sorted terms of z3 *)
(* and Z3Contract for what z3 promises of them.                            *)
(***************************************************************************)
EXTENDS ArrayEqualities, NaturalSets

(* The constraints are formulas of T over the symbols. *)
InputsOver(T) ==
  \A in \in Inputs :
    /\ in.body \in Seq(T["formula"]) /\ in.hyp \in Seq(T["formula"]) /\ in.post \in Seq(T["formula"])
    /\ SymbolsOf(extract_expr(in)) \subseteq Symbols

(* The terms of the sort s over the symbols S. *)
TermsOver(T, S, s) == {t \in T[s] : Names(t) \subseteq S}

FormulasOver(T, S) == TermsOver(T, S, "formula")

-----------------------------------------------------------------------------
(***************************************************************************)
(* Lists.                                                                  *)
(***************************************************************************)
LEMMA FirstIsLeast ==
  ASSUME NEW N \in SUBSET Nat, N # {}
  PROVE  First(N) \in N /\ \A m \in N : First(N) <= m
BY LeastNatural DEF First

LEMMA Erased ==
  ASSUME NEW F, NEW l \in Seq(F), NEW n \in 1 .. Len(l)
  PROVE  /\ RemoveAt(l, n) \in Seq(F)
         /\ Len(RemoveAt(l, n)) = Len(l) - 1
         /\ \A k \in 1 .. Len(l) - 1 : RemoveAt(l, n)[k] = IF k < n THEN l[k] ELSE l[k + 1]
<1> DEFINE before == SubSeq(l, 1, n - 1)
           after  == SubSeq(l, n + 1, Len(l))
<1>1. /\ before \in Seq(F) /\ Len(before) = n - 1
      /\ \A k \in 1 .. n - 1 : before[k] = l[k]
  OBVIOUS
<1>2. /\ after \in Seq(F) /\ Len(after) = Len(l) - n
      /\ \A k \in 1 .. Len(l) - n : after[k] = l[n + k]
  OBVIOUS
<1>3. RemoveAt(l, n) = before \o after
  BY DEF RemoveAt
<1> HIDE DEF before, after
<1>4. before \o after \in Seq(F) /\ Len(before \o after) = Len(l) - 1
  BY <1>1, <1>2
<1>5. ASSUME NEW k \in 1 .. Len(l) - 1
      PROVE  (before \o after)[k] = IF k < n THEN l[k] ELSE l[k + 1]
  <2>1. CASE k < n
    BY <1>1, <1>2, <2>1
  <2>2. CASE ~ (k < n)
    <3>0. k >= n
      BY <2>2
    <3>1. (before \o after)[k] = after[k - (n - 1)]
      BY <1>1, <1>2, <3>0
    <3>2. k - (n - 1) \in 1 .. Len(l) - n /\ n + (k - (n - 1)) = k + 1
      BY <3>0
    <3> QED
      BY <1>2, <2>2, <3>1, <3>2
  <2> QED
    BY <2>1, <2>2
<1> QED
  BY <1>3, <1>4, <1>5

LEMMA ErasedFrom ==
  ASSUME NEW F, NEW l \in Seq(F), NEW n \in 1 .. Len(l)
  PROVE  \A k \in DOMAIN RemoveAt(l, n) : \E j \in DOMAIN l : RemoveAt(l, n)[k] = l[j]
<1>1. DOMAIN RemoveAt(l, n) = 1 .. Len(l) - 1 /\ DOMAIN l = 1 .. Len(l) /\ Len(l) \in Nat
  <2>1. RemoveAt(l, n) \in Seq(F) /\ Len(RemoveAt(l, n)) = Len(l) - 1
    BY Erased
  <2> QED
    BY <2>1
<1>2. \A k \in 1 .. Len(l) - 1 : RemoveAt(l, n)[k] = IF k < n THEN l[k] ELSE l[k + 1]
  BY Erased
<1>3. \A k \in 1 .. Len(l) - 1 : k \in DOMAIN l /\ k + 1 \in DOMAIN l
  BY <1>1
<1> QED
  BY <1>1, <1>2, <1>3

(* What is left of a list that holds, holds. *)
LEMMA ErasedHolds ==
  ASSUME NEW F, NEW l \in Seq(F), NEW n \in 1 .. Len(l), NEW m, Satisfies(m, l)
  PROVE  Satisfies(m, RemoveAt(l, n))
<1>1. RemoveAt(l, n) \in Seq(F) /\ Len(RemoveAt(l, n)) = Len(l) - 1
  BY Erased
<1> SUFFICES ASSUME NEW k \in 1 .. Len(l) - 1 PROVE Meaning(RemoveAt(l, n)[k], m)
  BY <1>1 DEF Satisfies
<1>2. RemoveAt(l, n)[k] = IF k < n THEN l[k] ELSE l[k + 1]
  BY Erased
<1>3. k \in DOMAIN l /\ k + 1 \in DOMAIN l
  OBVIOUS
<1>4. Meaning(l[k], m) /\ Meaning(l[k + 1], m)
  BY <1>3 DEF Satisfies
<1> QED
  BY <1>2, <1>4

LEMMA AppendedHolds ==
  ASSUME NEW F, NEW l \in Seq(F), NEW f \in F, NEW m, Satisfies(m, l), Meaning(f, m)
  PROVE  Satisfies(m, Append(l, f))
<1> SUFFICES ASSUME NEW k \in 1 .. Len(l) + 1 PROVE Meaning(Append(l, f)[k], m)
  BY DEF Satisfies
<1>1. CASE k = Len(l) + 1
  BY <1>1
<1>2. CASE k \in 1 .. Len(l)
  BY <1>2 DEF Satisfies
<1> QED
  BY <1>1, <1>2

LEMMA JoinedHolds ==
  ASSUME NEW F, NEW l \in Seq(F), NEW r \in Seq(F), NEW m, Satisfies(m, l), Satisfies(m, r)
  PROVE  Satisfies(m, l \o r)
<1> SUFFICES ASSUME NEW k \in 1 .. Len(l) + Len(r) PROVE Meaning((l \o r)[k], m)
  BY DEF Satisfies
<1>1. CASE k \in 1 .. Len(l)
  BY <1>1 DEF Satisfies
<1>2. CASE k \notin 1 .. Len(l)
  <2>1. (l \o r)[k] = r[k - Len(l)] /\ k - Len(l) \in DOMAIN r
    BY <1>2
  <2> QED
    BY <2>1 DEF Satisfies
<1> QED
  BY <1>1, <1>2

LEMMA JoinedOver ==
  ASSUME NEW F, NEW b \in Seq(F), NEW h \in Seq(F), NEW p \in Seq(F)
  PROVE  b \o h \in Seq(F) /\ b \o h \o p \in Seq(F) /\ <<>> \in Seq(F)
<1>1. b \o h \in Seq(F)
  OBVIOUS
<1>2. (b \o h) \o p \in Seq(F)
  BY <1>1
<1> QED
  BY <1>1, <1>2

LEMMA LastOfJoined ==
  ASSUME NEW F, NEW l \in Seq(F), NEW r \in Seq(F), r # <<>>
  PROVE  (l \o r)[Len(l \o r)] = r[Len(r)]
<1>1. Len(l) \in Nat /\ Len(r) \in Nat \ {0} /\ Len(l \o r) = Len(l) + Len(r)
  OBVIOUS
<1>2. (l \o r)[Len(l) + Len(r)] = r[(Len(l) + Len(r)) - Len(l)]
  BY <1>1
<1>3. (Len(l) + Len(r)) - Len(l) = Len(r)
  BY <1>1
<1> QED
  BY <1>1, <1>2, <1>3

-----------------------------------------------------------------------------
(***************************************************************************)
(* Terms.                                                                  *)
(***************************************************************************)
LEMMA SoundOver ==
  ASSUME NEW T, Z3Contract(T), NEW S \in SUBSET Symbols, NEW m \in Valuations(S)
  PROVE  /\ \A t \in TermsOver(T, S, "array")   : Meaning(t, m) \in [Positions -> Values]
         /\ \A t \in TermsOver(T, S, "integer") : Meaning(t, m) \in Values
         /\ \A t \in TermsOver(T, S, "index")   : Meaning(t, m) \in Positions
         /\ \A t \in FormulasOver(T, S) :
              Meaning(t, m) \in BOOLEAN /\ Meaning(not(t), m) = ~ Meaning(t, m)
         /\ \A a \in TermsOver(T, S, "array"), i \in TermsOver(T, S, "index"),
               v \in TermsOver(T, S, "integer") :
              /\ Meaning(select(a, i), m) = Meaning(a, m)[Meaning(i, m)]
              /\ Meaning(store(a, i, v), m) = [Meaning(a, m) EXCEPT ![Meaning(i, m)] = Meaning(v, m)]
         /\ \A x, y \in TermsOver(T, S, "integer") :
              /\ Meaning(plus(x, y), m) = (Meaning(x, m) + Meaning(y, m)) % Width
              /\ Meaning(minus(x, y), m) = (Meaning(x, m) - Meaning(y, m)) % Width
         /\ \A r \in Sorts \ {"formula"} : \A x, y \in TermsOver(T, S, r) :
              /\ Meaning(equals(x, y), m) = (Meaning(x, m) = Meaning(y, m))
              /\ Meaning(x, m) = Meaning(y, m) =>
                   \A s \in Sorts : \A t \in TermsOver(T, S, s) :
                     Meaning(substitute(t, x, y), m) = Meaning(t, m)
         /\ \A s \in Sorts : \A t \in TermsOver(T, S, s) : Meaning(simplify(t), m) = Meaning(t, m)
<1>1. Z3Sound(T, S)
  BY DEF Z3Contract
<1> QED
  BY <1>1, Zenon DEF Z3Sound, TermsOver, FormulasOver

LEMMA ArgumentsOver ==
  ASSUME NEW T, Z3Contract(T), NEW S, NEW s \in Sorts, NEW t \in TermsOver(T, S, s),
         NEW n \in DOMAIN t.args
  PROVE  Names(t.args[n]) \subseteq S
<1>1. t \in T[s] /\ Names(t) \subseteq S
  BY DEF TermsOver
<1>2. Names(t) = ({t.name} \ {""}) \cup UNION {Names(t.args[k]) : k \in DOMAIN t.args}
  BY <1>1 DEF Z3Contract, Z3Syntax
<1>3. Names(t.args[n]) \in {Names(t.args[k]) : k \in DOMAIN t.args}
  OBVIOUS
<1> QED
  BY <1>1, <1>2, <1>3

(* Both sides of an equation have the same sort, and the equation says that *)
(* they have the same value.                                                *)
LEMMA EquationOver ==
  ASSUME NEW T, Z3Contract(T), NEW S \in SUBSET Symbols, NEW e \in FormulasOver(T, S), isEQ(e)
  PROVE  /\ DOMAIN e.args = 1 .. 2
         /\ \E r \in Sorts \ {"formula"} :
              e.args[1] \in TermsOver(T, S, r) /\ e.args[2] \in TermsOver(T, S, r)
         /\ \A m \in Valuations(S) :
              Meaning(e, m) = (Meaning(e.args[1], m) = Meaning(e.args[2], m))
<1>1. "formula" \in Sorts /\ e \in T["formula"] /\ Names(e) \subseteq S
  BY DEF Sorts, FormulasOver, TermsOver
<1>2. e = equals(e.args[1], e.args[2])
  BY <1>1 DEF Z3Contract, Z3Syntax
<1>3. DOMAIN e.args = 1 .. 2
  <2>1. \A x, y : equals(x, y).args = <<x, y>> /\ DOMAIN <<x, y>> = 1 .. 2
    BY DEF equals, Term
  <2>2. PICK x, y : e = equals(x, y)
    BY <1>2
  <2> QED
    BY <2>1, <2>2
<1>4. PICK r \in Sorts \ {"formula"} : e.args[1] \in T[r] /\ e.args[2] \in T[r]
  BY <1>1 DEF Z3Contract, Z3Syntax
<1>5. Names(e.args[1]) \subseteq S /\ Names(e.args[2]) \subseteq S
  BY <1>1, <1>3, ArgumentsOver DEF TermsOver
<1>6. e.args[1] \in TermsOver(T, S, r) /\ e.args[2] \in TermsOver(T, S, r)
  BY <1>4, <1>5 DEF TermsOver
<1>7. ASSUME NEW m \in Valuations(S)
      PROVE  Meaning(e, m) = (Meaning(e.args[1], m) = Meaning(e.args[2], m))
  <2>1. \A x, y \in TermsOver(T, S, r) : Meaning(equals(x, y), m) = (Meaning(x, m) = Meaning(y, m))
    BY SoundOver
  <2>2. Meaning(equals(e.args[1], e.args[2]), m) = (Meaning(e.args[1], m) = Meaning(e.args[2], m))
    BY <1>6, <2>1
  <2> QED
    BY <1>2, <2>2
<1> QED
  BY <1>3, <1>6, <1>7

(* A formula in which a term is replaced by one of the same value. *)
LEMMA SubstitutedOver ==
  ASSUME NEW T, Z3Contract(T), NEW S \in SUBSET Symbols, NEW r \in Sorts \ {"formula"},
         NEW out \in TermsOver(T, S, r), NEW in \in TermsOver(T, S, r),
         NEW f \in FormulasOver(T, S)
  PROVE  /\ substitute(f, out, in) \in FormulasOver(T, S)
         /\ \A m \in Valuations(S) :
              Meaning(out, m) = Meaning(in, m) => Meaning(substitute(f, out, in), m) = Meaning(f, m)
<1>1. "formula" \in Sorts /\ f \in T["formula"] /\ out \in T[r] /\ in \in T[r]
  BY DEF Sorts, FormulasOver, TermsOver
<1>2. substitute(f, out, in) \in T["formula"]
  BY <1>1 DEF Z3Contract, Z3Closed
<1>3. Names(substitute(f, out, in)) \subseteq Names(f) \cup Names(in)
  BY <1>1 DEF Z3Contract, Z3Renames
<1>4. substitute(f, out, in) \in FormulasOver(T, S)
  BY <1>2, <1>3 DEF FormulasOver, TermsOver
<1>5. ASSUME NEW m \in Valuations(S), Meaning(out, m) = Meaning(in, m)
      PROVE  Meaning(substitute(f, out, in), m) = Meaning(f, m)
  <2>1. \A x, y \in TermsOver(T, S, r) :
          Meaning(x, m) = Meaning(y, m) =>
            \A s \in Sorts : \A t \in TermsOver(T, S, s) :
              Meaning(substitute(t, x, y), m) = Meaning(t, m)
    BY SoundOver
  <2>2. f \in TermsOver(T, S, "formula")
    BY DEF FormulasOver
  <2> QED
    BY <1>1, <1>5, <2>1, <2>2
<1> QED
  BY <1>4, <1>5

LEMMA SimplifiedOver ==
  ASSUME NEW T, Z3Contract(T), NEW S \in SUBSET Symbols, NEW s \in Sorts, NEW t \in TermsOver(T, S, s)
  PROVE  /\ simplify(t) \in TermsOver(T, S, s)
         /\ \A m \in Valuations(S) : Meaning(simplify(t), m) = Meaning(t, m)
<1>1. simplify(t) \in T[s] /\ Names(simplify(t)) \subseteq Names(t)
  BY DEF Z3Contract, Z3Closed, Z3Simplifies, TermsOver
<1>2. \A m \in Valuations(S) : Meaning(simplify(t), m) = Meaning(t, m)
  BY SoundOver
<1> QED
  BY <1>1, <1>2 DEF TermsOver

(* The step propogate_array_eq, propogate_store_eq and propogate_select_eq  *)
(* have in common: an equation is erased, and one of its sides replaced by  *)
(* the other in the rest of the list.                                       *)
LEMMA Replaced ==
  ASSUME NEW T, Z3Contract(T), NEW S \in SUBSET Symbols,
         NEW l \in Seq(FormulasOver(T, S)), NEW n \in 1 .. Len(l), isEQ(l[n]), NEW s \in 1 .. 2,
         NEW r, r = inplace_substitute(RemoveAt(l, n), l[n].args[s], l[n].args[3 - s])
  PROVE  /\ r \in Seq(FormulasOver(T, S))
         /\ Len(r) = Len(l) - 1
         /\ \A m \in Valuations(S) : Satisfies(m, l) => Satisfies(m, r)
<1> DEFINE rest == RemoveAt(l, n)  e == l[n]
<1>1. /\ rest \in Seq(FormulasOver(T, S)) /\ Len(rest) = Len(l) - 1
      /\ \A m : Satisfies(m, l) => Satisfies(m, rest)
  BY Erased, ErasedHolds
<1>2. e \in FormulasOver(T, S) /\ isEQ(e)
  OBVIOUS
<1> HIDE DEF rest, e
<1>3. PICK q \in Sorts \ {"formula"} :
         e.args[1] \in TermsOver(T, S, q) /\ e.args[2] \in TermsOver(T, S, q)
  BY <1>2, EquationOver
<1>4. e.args[s] \in TermsOver(T, S, q) /\ e.args[3 - s] \in TermsOver(T, S, q)
  BY <1>3
<1>5. r = [k \in DOMAIN rest |-> substitute(rest[k], e.args[s], e.args[3 - s])]
  BY DEF rest, e, inplace_substitute
<1>6. \A f \in FormulasOver(T, S) :
        /\ substitute(f, e.args[s], e.args[3 - s]) \in FormulasOver(T, S)
        /\ \A m \in Valuations(S) :
             Meaning(e.args[s], m) = Meaning(e.args[3 - s], m) =>
               Meaning(substitute(f, e.args[s], e.args[3 - s]), m) = Meaning(f, m)
  BY <1>4, SubstitutedOver
<1>7. r \in Seq(FormulasOver(T, S)) /\ Len(r) = Len(rest) /\ DOMAIN r = DOMAIN rest
  <2>1. DOMAIN rest = 1 .. Len(rest) /\ Len(rest) \in Nat
    BY <1>1
  <2>2. \A k \in DOMAIN rest : r[k] \in FormulasOver(T, S)
    BY <1>1, <1>5, <1>6
  <2> QED
    BY <1>5, <2>1, <2>2
<1>8. ASSUME NEW m \in Valuations(S), Satisfies(m, l) PROVE Satisfies(m, r)
  <2>1. Meaning(e, m)
    BY <1>8 DEF Satisfies, e
  <2>2. Meaning(e.args[1], m) = Meaning(e.args[2], m)
    BY <1>2, <2>1, EquationOver
  <2>3. Meaning(e.args[s], m) = Meaning(e.args[3 - s], m)
    BY <2>2
  <2>4. SUFFICES ASSUME NEW k \in DOMAIN rest PROVE Meaning(r[k], m)
    BY <1>7 DEF Satisfies
  <2>5. rest[k] \in FormulasOver(T, S) /\ Meaning(rest[k], m)
    BY <1>1, <1>8 DEF Satisfies
  <2>6. r[k] = substitute(rest[k], e.args[s], e.args[3 - s])
    BY <1>5
  <2> QED
    BY <1>6, <2>3, <2>5, <2>6
<1> QED
  BY <1>1, <1>7, <1>8

(***************************************************************************)
(* Terms the passes build, and the parts of the terms they look for.       *)
(***************************************************************************)
LEMMA NamesOver ==
  ASSUME NEW T, Z3Contract(T), NEW S, NEW s \in Sorts, NEW t \in T[s], t.name = "",
         \A n \in DOMAIN t.args : Names(t.args[n]) \subseteq S
  PROVE  t \in TermsOver(T, S, s)
<1>1. Names(t) = ({t.name} \ {""}) \cup UNION {Names(t.args[n]) : n \in DOMAIN t.args}
  BY DEF Z3Contract, Z3Syntax
<1>2. {t.name} \ {""} = {}
  OBVIOUS
<1>3. UNION {Names(t.args[n]) : n \in DOMAIN t.args} \subseteq S
  OBVIOUS
<1> QED
  BY <1>1, <1>2, <1>3 DEF TermsOver

LEMMA BuiltOver ==
  ASSUME NEW T, Z3Contract(T), NEW S
  PROVE  /\ \A r \in Sorts \ {"formula"} : \A x, y \in TermsOver(T, S, r) :
              equals(x, y) \in FormulasOver(T, S)
         /\ \A f \in FormulasOver(T, S) : not(f) \in FormulasOver(T, S)
         /\ \A x, y \in TermsOver(T, S, "integer") : minus(x, y) \in TermsOver(T, S, "integer")
<1>0. "formula" \in Sorts /\ "integer" \in Sorts
  BY DEF Sorts
<1>1. ASSUME NEW r \in Sorts \ {"formula"}, NEW x \in TermsOver(T, S, r), NEW y \in TermsOver(T, S, r)
      PROVE  equals(x, y) \in FormulasOver(T, S)
  <2>1. equals(x, y) \in T["formula"]
    BY DEF Z3Contract, Z3Closed, TermsOver
  <2>2. equals(x, y).name = "" /\ \A n \in DOMAIN equals(x, y).args : equals(x, y).args[n] \in {x, y}
    BY DEF equals, Term
  <2>3. Names(x) \subseteq S /\ Names(y) \subseteq S
    BY DEF TermsOver
  <2>4. \A n \in DOMAIN equals(x, y).args : Names(equals(x, y).args[n]) \subseteq S
    BY <2>2, <2>3
  <2> QED
    BY <1>0, <2>1, <2>2, <2>4, NamesOver DEF FormulasOver
<1>2. ASSUME NEW f \in FormulasOver(T, S) PROVE not(f) \in FormulasOver(T, S)
  <2>1. not(f) \in T["formula"]
    BY DEF Z3Contract, Z3Closed, TermsOver, FormulasOver
  <2>2. not(f).name = "" /\ \A n \in DOMAIN not(f).args : not(f).args[n] = f
    BY DEF not, Term
  <2>3. Names(f) \subseteq S
    BY DEF TermsOver, FormulasOver
  <2>4. \A n \in DOMAIN not(f).args : Names(not(f).args[n]) \subseteq S
    BY <2>2, <2>3
  <2> QED
    BY <1>0, <2>1, <2>2, <2>4, NamesOver DEF FormulasOver
<1>3. ASSUME NEW x \in TermsOver(T, S, "integer"), NEW y \in TermsOver(T, S, "integer")
      PROVE  minus(x, y) \in TermsOver(T, S, "integer")
  <2>1. minus(x, y) \in T["integer"]
    BY DEF Z3Contract, Z3Closed, TermsOver
  <2>2. minus(x, y).name = "" /\ \A n \in DOMAIN minus(x, y).args : minus(x, y).args[n] \in {x, y}
    BY DEF minus, Term
  <2>3. Names(x) \subseteq S /\ Names(y) \subseteq S
    BY DEF TermsOver
  <2>4. \A n \in DOMAIN minus(x, y).args : Names(minus(x, y).args[n]) \subseteq S
    BY <2>2, <2>3
  <2> QED
    BY <1>0, <2>1, <2>2, <2>4, NamesOver
<1> QED
  BY <1>1, <1>2, <1>3

LEMMA SelectOver ==
  ASSUME NEW T, Z3Contract(T), NEW S, NEW s \in Sorts, NEW t \in TermsOver(T, S, s), isSelect(t)
  PROVE  /\ s = "integer" /\ t = select(t.args[1], t.args[2])
         /\ t.args[1] \in TermsOver(T, S, "array") /\ t.args[2] \in TermsOver(T, S, "index")
<1>1. t \in T[s]
  BY DEF TermsOver
<1>2. /\ s = "integer" /\ t = select(t.args[1], t.args[2])
      /\ t.args[1] \in T["array"] /\ t.args[2] \in T["index"]
  BY <1>1 DEF Z3Contract, Z3Syntax
<1>3. DOMAIN t.args = 1 .. 2
  <2>1. \A x, y : select(x, y).args = <<x, y>> /\ DOMAIN <<x, y>> = 1 .. 2
    BY DEF select, Term
  <2>2. PICK x, y : t = select(x, y)
    BY <1>2
  <2> QED
    BY <2>1, <2>2
<1>4. Names(t.args[1]) \subseteq S /\ Names(t.args[2]) \subseteq S
  BY <1>3, ArgumentsOver
<1> QED
  BY <1>2, <1>4 DEF TermsOver

LEMMA StoreOver ==
  ASSUME NEW T, Z3Contract(T), NEW S, NEW s \in Sorts, NEW t \in TermsOver(T, S, s), isStore(t)
  PROVE  /\ s = "array" /\ t = store(t.args[1], t.args[2], t.args[3])
         /\ t.args[1] \in TermsOver(T, S, "array") /\ t.args[2] \in TermsOver(T, S, "index")
         /\ t.args[3] \in TermsOver(T, S, "integer")
<1>1. t \in T[s]
  BY DEF TermsOver
<1>2. /\ s = "array" /\ t = store(t.args[1], t.args[2], t.args[3])
      /\ t.args[1] \in T["array"] /\ t.args[2] \in T["index"] /\ t.args[3] \in T["integer"]
  BY <1>1 DEF Z3Contract, Z3Syntax
<1>3. DOMAIN t.args = 1 .. 3
  <2>1. \A x, y, z : store(x, y, z).args = <<x, y, z>> /\ DOMAIN <<x, y, z>> = 1 .. 3
    BY DEF store, Term
  <2>2. PICK x, y, z : t = store(x, y, z)
    BY <1>2
  <2> QED
    BY <2>1, <2>2
<1>4. \A n \in 1 .. 3 : Names(t.args[n]) \subseteq S
  BY <1>3, ArgumentsOver
<1> QED
  BY <1>2, <1>4 DEF TermsOver

LEMMA AddOver ==
  ASSUME NEW T, Z3Contract(T), NEW S, NEW s \in Sorts, NEW t \in TermsOver(T, S, s), isAdd(t)
  PROVE  /\ s = "integer" /\ t = plus(t.args[1], t.args[2])
         /\ t.args[1] \in TermsOver(T, S, "integer") /\ t.args[2] \in TermsOver(T, S, "integer")
<1>1. t \in T[s]
  BY DEF TermsOver
<1>2. /\ s = "integer" /\ t = plus(t.args[1], t.args[2])
      /\ t.args[1] \in T["integer"] /\ t.args[2] \in T["integer"]
  BY <1>1 DEF Z3Contract, Z3Syntax
<1>3. DOMAIN t.args = 1 .. 2
  <2>1. \A x, y : plus(x, y).args = <<x, y>> /\ DOMAIN <<x, y>> = 1 .. 2
    BY DEF plus, Term
  <2>2. PICK x, y : t = plus(x, y)
    BY <1>2
  <2> QED
    BY <2>1, <2>2
<1>4. Names(t.args[1]) \subseteq S /\ Names(t.args[2]) \subseteq S
  BY <1>3, ArgumentsOver
<1> QED
  BY <1>2, <1>4 DEF TermsOver

LEMMA NotOver ==
  ASSUME NEW T, Z3Contract(T), NEW S, NEW f \in FormulasOver(T, S), isNot(f)
  PROVE  f = not(f.args[1]) /\ f.args[1] \in FormulasOver(T, S)
<1>1. "formula" \in Sorts /\ f \in T["formula"] /\ f \in TermsOver(T, S, "formula")
  BY DEF TermsOver, FormulasOver, Sorts
<1>2. f = not(f.args[1]) /\ f.args[1] \in T["formula"]
  BY <1>1 DEF Z3Contract, Z3Syntax
<1>3. DOMAIN f.args = {1}
  <2>1. \A x : not(x).args = <<x>> /\ DOMAIN <<x>> = {1}
    BY DEF not, Term
  <2>2. PICK x : f = not(x)
    BY <1>2
  <2> QED
    BY <2>1, <2>2
<1>4. Names(f.args[1]) \subseteq S
  BY <1>1, <1>3, ArgumentsOver
<1> QED
  BY <1>2, <1>4 DEF TermsOver, FormulasOver

(* An array is a symbol, and known by its name. *)
LEMMA NamedArray ==
  ASSUME NEW T, Z3Contract(T), NEW S, NEW s \in Sorts, NEW t \in TermsOver(T, S, s)
  PROVE  /\ t.name \in Arrays => /\ t = Symbol(t.name) /\ ~ isStore(t) /\ is_array(t)
                                /\ Names(t) = {t.name} /\ t.name # ""
         /\ is_array(t) <=> s = "array"
         /\ is_array(t) /\ ~ isStore(t) => t.name \in Arrays
<1>1. t \in T[s]
  BY DEF TermsOver
<1>2. (is_array(t) <=> s = "array") /\ (t.name \in Arrays => t = Symbol(t.name))
  BY <1>1 DEF Z3Contract, Z3Syntax
<1>3. ASSUME t.name \in Arrays PROVE ~ isStore(t) /\ Names(t) = {t.name} /\ t.name # ""
  <2>1. t = Symbol(t.name)
    BY <1>2, <1>3
  <2>2. \A x : Symbol(x).op = "symbol" /\ DOMAIN Symbol(x).args = {}
    BY DEF Symbol
  <2>3. PICK x : t = Symbol(x)
    BY <2>1
  <2>4. t.name # ""
    BY <1>3, NamesAssumption
  <2>5. Names(t) = ({t.name} \ {""}) \cup UNION {Names(t.args[n]) : n \in DOMAIN t.args}
    BY <1>1 DEF Z3Contract, Z3Syntax
  <2> QED
    BY <2>2, <2>3, <2>4, <2>5 DEF isStore
<1> QED
  BY <1>2, <1>3 DEF is_array

(* The symbols of a term in which an array has been replaced. *)
LEMMA NamesReplaced ==
  ASSUME NEW T, Z3Contract(T), NEW S, NEW s \in Sorts, NEW t \in TermsOver(T, S, s),
         NEW r \in Sorts \ {"formula"}, NEW out \in TermsOver(T, S, r), NEW in \in TermsOver(T, S, r),
         out.name \in Arrays
  PROVE  Names(substitute(t, out, in)) \subseteq
           (Names(t) \ {out.name}) \cup (IF out.name \in Names(t) THEN Names(in) ELSE {})
<1>1. t \in T[s] /\ out \in T[r] /\ in \in T[r] /\ out.name # ""
  BY NamesAssumption DEF TermsOver
<1> QED
  BY <1>1 DEF Z3Contract, Z3Renames

(* An equation of integers is none of arrays, nor is what simplify makes of *)
(* it or of its negation.                                                   *)
LEMMA IntegersOnly ==
  ASSUME NEW T, Z3Contract(T), NEW S, NEW x \in TermsOver(T, S, "integer"), NEW y \in TermsOver(T, S, "integer")
  PROVE  /\ ~ SpeaksOfArrays(simplify(equals(x, y)))
         /\ ~ SpeaksOfArrays(simplify(not(equals(x, y))))
<1> DEFINE e == equals(x, y)
<1>1. "integer" \in Sorts \ {"formula"} /\ "integer" \in Sorts /\ "formula" \in Sorts
  BY DEF Sorts
<1>2. e \in T["formula"]
  BY <1>1 DEF Z3Contract, Z3Closed, TermsOver
<1>3. isEQ(e) /\ e.args[1] = x /\ e.args[2] = y
  BY DEF equals, Term, isEQ
<1>4. ~ is_array(x) /\ ~ is_array(y)
  BY <1>1, NamedArray
<1> HIDE DEF e
<1>5. \A s \in 1 .. 2 : e.args[s] \in {x, y}
  BY <1>3
<1>6. ~ SpeaksOfArrays(e)
  BY <1>4, <1>5 DEF SpeaksOfArrays
<1>7. ~ SpeaksOfArrays(simplify(e)) /\ ~ SpeaksOfArrays(simplify(not(e)))
  BY <1>1, <1>2, <1>3, <1>6 DEF Z3Contract, Z3Simplifies
<1> QED
  BY <1>7 DEF e

-----------------------------------------------------------------------------
(***************************************************************************)
(* The two rules that put a new conjunct into the list.                    *)
(***************************************************************************)
(* An element read where it has just been stored is the value stored. *)
LEMMA ReadBack ==
  ASSUME NEW T, Z3Contract(T), NEW S \in SUBSET Symbols, NEW s \in Sorts, NEW t \in TermsOver(T, S, s),
         isSelect(t), isStore(t.args[1]), simplify(t.args[2]) = simplify(t.args[1].args[2])
  PROVE  /\ t.args[1].args[3] \in TermsOver(T, S, "integer")
         /\ \A m \in Valuations(S) : Meaning(t, m) = Meaning(t.args[1].args[3], m)
<1> DEFINE st == t.args[1]  i == t.args[2]  a == st.args[1]  j == st.args[2]  v == st.args[3]
<1>0. "array" \in Sorts /\ "index" \in Sorts
  BY DEF Sorts
<1>1. t = select(st, i) /\ st \in TermsOver(T, S, "array") /\ i \in TermsOver(T, S, "index")
  BY SelectOver
<1>2. isStore(st) /\ simplify(i) = simplify(j)
  OBVIOUS
<1> HIDE DEF st, i
<1>3. /\ st = store(a, j, v) /\ a \in TermsOver(T, S, "array")
      /\ j \in TermsOver(T, S, "index") /\ v \in TermsOver(T, S, "integer")
  BY <1>0, <1>1, <1>2, StoreOver
<1> HIDE DEF a, j, v
<1>4. ASSUME NEW m \in Valuations(S) PROVE Meaning(t, m) = Meaning(v, m)
  <2>1. Meaning(t, m) = Meaning(st, m)[Meaning(i, m)]
    <3>1. \A x \in TermsOver(T, S, "array"), y \in TermsOver(T, S, "index"), z \in TermsOver(T, S, "integer") :
            Meaning(select(x, y), m) = Meaning(x, m)[Meaning(y, m)]
      BY SoundOver
    <3>2. Meaning(select(st, i), m) = Meaning(st, m)[Meaning(i, m)]
      BY <1>1, <1>3, <3>1
    <3> QED
      BY <1>1, <3>2
  <2>2. Meaning(st, m) = [Meaning(a, m) EXCEPT ![Meaning(j, m)] = Meaning(v, m)]
    <3>1. \A x \in TermsOver(T, S, "array"), y \in TermsOver(T, S, "index"), z \in TermsOver(T, S, "integer") :
            Meaning(store(x, y, z), m) = [Meaning(x, m) EXCEPT ![Meaning(y, m)] = Meaning(z, m)]
      BY SoundOver
    <3>2. Meaning(store(a, j, v), m) = [Meaning(a, m) EXCEPT ![Meaning(j, m)] = Meaning(v, m)]
      BY <1>3, <3>1
    <3> QED
      BY <1>3, <3>2
  <2>3. Meaning(a, m) \in [Positions -> Values] /\ Meaning(j, m) \in Positions
    BY <1>3, SoundOver
  <2>4. Meaning(i, m) = Meaning(j, m)
    <3>1. Meaning(simplify(i), m) = Meaning(i, m) /\ Meaning(simplify(j), m) = Meaning(j, m)
      BY <1>0, <1>1, <1>3, SimplifiedOver
    <3> QED
      BY <1>2, <3>1
  <2> QED
    BY <2>1, <2>2, <2>3, <2>4
<1> QED
  BY <1>3, <1>4 DEF st, v

LEMMA NestedHolds ==
  ASSUME NEW T, Z3Contract(T), NEW S \in SUBSET Symbols, NEW f \in FormulasOver(T, S), Nested(f)
  PROVE  /\ OnTheValue(f) \in FormulasOver(T, S) /\ ~ SpeaksOfArrays(OnTheValue(f))
         /\ \A m \in Valuations(S) :
              /\ Element(Positive(f)) = 1 => (Meaning(OnTheValue(f), m) <=> Meaning(f, m))
              /\ Meaning(f, m) /\ ~ (isNot(f) /\ Element(Positive(f)) = 2)
                   => Meaning(OnTheValue(f), m)
<1> DEFINE e == Positive(f)  k == Element(e)  sel == e.args[k]  v == sel.args[1].args[3]
           new_eq == equals(e.args[2], v)
<1>1. e \in FormulasOver(T, S)
  BY NotOver DEF Positive
<1>2. isEQ(e) /\ isSelect(sel) /\ isStore(sel.args[1])
      /\ simplify(sel.args[2]) = simplify(sel.args[1].args[2])
  BY DEF Nested
<1>3. k \in 1 .. 2
  BY DEF Element
<1>4. OnTheValue(f) = simplify(IF isNot(f) THEN not(new_eq) ELSE new_eq)
  BY DEF OnTheValue
<1>5. isNot(f) => f = not(e)
  BY NotOver DEF Positive
<1>6. ~ isNot(f) => f = e
  BY DEF Positive
<1> HIDE DEF e, k
<1>7. PICK q \in Sorts \ {"formula"} :
         e.args[1] \in TermsOver(T, S, q) /\ e.args[2] \in TermsOver(T, S, q)
  BY <1>1, <1>2, EquationOver
<1>8. sel \in TermsOver(T, S, q)
  BY <1>3, <1>7
<1>9. isSelect(sel)
  BY <1>2
<1> HIDE DEF sel
<1>10. q = "integer"
  BY <1>8, <1>9, SelectOver
<1>11. /\ v \in TermsOver(T, S, "integer")
       /\ \A m \in Valuations(S) : Meaning(sel, m) = Meaning(v, m)
  BY <1>2, <1>8, ReadBack
<1> HIDE DEF v
<1>12. new_eq \in FormulasOver(T, S)
  BY <1>7, <1>10, <1>11, BuiltOver
<1>16. ~ SpeaksOfArrays(simplify(new_eq)) /\ ~ SpeaksOfArrays(simplify(not(new_eq)))
  BY <1>7, <1>10, <1>11, IntegersOnly
<1> HIDE DEF new_eq
<1>17. ~ SpeaksOfArrays(OnTheValue(f))
  BY <1>4, <1>16
<1>13. (IF isNot(f) THEN not(new_eq) ELSE new_eq) \in FormulasOver(T, S)
  BY <1>12, BuiltOver
<1>14. /\ OnTheValue(f) \in FormulasOver(T, S)
       /\ \A m \in Valuations(S) :
            Meaning(OnTheValue(f), m) = Meaning(IF isNot(f) THEN not(new_eq) ELSE new_eq, m)
  <2>1. "formula" \in Sorts
    BY DEF Sorts
  <2> QED
    BY <1>4, <1>13, <2>1, SimplifiedOver DEF FormulasOver
<1>15. ASSUME NEW m \in Valuations(S)
       PROVE  /\ k = 1 => (Meaning(OnTheValue(f), m) <=> Meaning(f, m))
              /\ k = 2 /\ ~ isNot(f) => Meaning(OnTheValue(f), m)
  <2>1. Meaning(e, m) = (Meaning(e.args[1], m) = Meaning(e.args[2], m))
    BY <1>1, <1>2, EquationOver
  <2>2. Meaning(new_eq, m) = (Meaning(e.args[2], m) = Meaning(v, m))
    <3>1. \A x, y \in TermsOver(T, S, q) : Meaning(equals(x, y), m) = (Meaning(x, m) = Meaning(y, m))
      BY SoundOver
    <3>2. e.args[2] \in TermsOver(T, S, q) /\ v \in TermsOver(T, S, q)
      BY <1>7, <1>10, <1>11
    <3> QED
      BY <3>1, <3>2 DEF new_eq
  <2>3. Meaning(sel, m) = Meaning(v, m)
    BY <1>11
  <2>4. /\ Meaning(not(e), m) = ~ Meaning(e, m)
        /\ Meaning(not(new_eq), m) = ~ Meaning(new_eq, m)
    BY <1>1, <1>12, SoundOver
  <2>5. k = 1 => (Meaning(new_eq, m) <=> Meaning(e, m))
    BY <2>1, <2>2, <2>3 DEF sel
  <2>6. k = 2 => Meaning(new_eq, m)
    BY <2>2, <2>3 DEF sel
  <2>7. CASE isNot(f)
    <3>1. Meaning(OnTheValue(f), m) <=> ~ Meaning(new_eq, m)
      BY <1>14, <2>4, <2>7
    <3>2. Meaning(f, m) <=> ~ Meaning(e, m)
      BY <1>5, <2>4, <2>7
    <3> QED
      BY <2>5, <2>7, <3>1, <3>2
  <2>8. CASE ~ isNot(f)
    <3>1. Meaning(OnTheValue(f), m) = Meaning(new_eq, m) /\ f = e
      BY <1>6, <1>14, <2>8
    <3> QED
      BY <2>5, <2>6, <3>1
  <2> QED
    BY <2>7, <2>8
<1>18. ASSUME NEW m \in Valuations(S), Meaning(f, m), ~ (isNot(f) /\ k = 2)
       PROVE  Meaning(OnTheValue(f), m)
  BY <1>3, <1>15, <1>18
<1> QED
  BY <1>14, <1>15, <1>17, <1>18 DEF e, k

(* The difference of a sum and one of its operands is the other one. *)
LEMMA Difference ==
  ASSUME NEW x \in Values, NEW y \in Values, NEW r \in Values
  PROVE  (x + y) % Width = r <=> (r - x) % Width = y
<1>1. /\ Width \in Nat /\ Width > 1
      /\ x \in 0 .. Width - 1 /\ y \in 0 .. Width - 1 /\ r \in 0 .. Width - 1
  BY WidthAssumption DEF Values
<1>2. (x + y) % Width = IF x + y < Width THEN x + y ELSE x + y - Width
  BY <1>1
<1>3. (r - x) % Width = IF x <= r THEN r - x ELSE r - x + Width
  BY <1>1
<1> QED
  BY <1>1, <1>2, <1>3

LEMMA SolvedHolds ==
  ASSUME NEW T, Z3Contract(T), NEW S \in SUBSET Symbols, NEW e \in FormulasOver(T, S), NEW s \in Sums(e)
  PROVE  /\ simplify(Solved(e, s)) \in FormulasOver(T, S) /\ ~ SpeaksOfArrays(simplify(Solved(e, s)))
         /\ \A m \in Valuations(S) :
              ~ (\A n \in 1 .. 2 : isSelect(e.args[s].args[n]))
                => (Meaning(simplify(Solved(e, s)), m) <=> Meaning(e, m))
<1> DEFINE sum == e.args[s]  rhs == e.args[3 - s]  x == sum.args[1]  y == sum.args[2]
<1>1. s \in 1 .. 2 /\ isEQ(e) /\ isAdd(sum) /\ \E n \in 1 .. 2 : isSelect(sum.args[n])
  BY DEF Sums
<1>2. PICK q \in Sorts \ {"formula"} :
         e.args[1] \in TermsOver(T, S, q) /\ e.args[2] \in TermsOver(T, S, q)
  BY <1>1, EquationOver
<1>3. sum \in TermsOver(T, S, q) /\ rhs \in TermsOver(T, S, q)
  BY <1>1, <1>2
<1>4. Solved(e, s) =
        CASE ~ isSelect(x) -> equals(y, minus(rhs, x))
          [] ~ isSelect(y) -> equals(x, minus(rhs, y))
          [] OTHER -> equals(y, rhs)
  BY DEF Solved
<1>5. isSelect(x) \/ isSelect(y)
  BY <1>1
<1>6. \A m \in Valuations(S) : Meaning(e, m) = (Meaning(sum, m) = Meaning(rhs, m))
  <2>1. \A m \in Valuations(S) : Meaning(e, m) = (Meaning(e.args[1], m) = Meaning(e.args[2], m))
    BY <1>1, EquationOver
  <2> QED
    BY <1>1, <2>1
<1> HIDE DEF sum, rhs
<1>7. /\ q = "integer" /\ sum = plus(x, y)
      /\ x \in TermsOver(T, S, "integer") /\ y \in TermsOver(T, S, "integer")
  BY <1>1, <1>3, AddOver
<1> HIDE DEF x, y
<1>8. "integer" \in Sorts \ {"formula"} /\ "formula" \in Sorts
  BY DEF Sorts
<1>9. minus(rhs, x) \in TermsOver(T, S, "integer") /\ minus(rhs, y) \in TermsOver(T, S, "integer")
  BY <1>3, <1>7, BuiltOver
<1>10. /\ equals(y, minus(rhs, x)) \in FormulasOver(T, S)
       /\ equals(x, minus(rhs, y)) \in FormulasOver(T, S)
       /\ equals(y, rhs) \in FormulasOver(T, S)
  BY <1>3, <1>7, <1>8, <1>9, BuiltOver
<1>11. Solved(e, s) \in FormulasOver(T, S)
  BY <1>4, <1>10, Zenon
<1>12. /\ simplify(Solved(e, s)) \in FormulasOver(T, S)
       /\ \A m \in Valuations(S) : Meaning(simplify(Solved(e, s)), m) = Meaning(Solved(e, s), m)
  <2>1. \A f \in FormulasOver(T, S) :
          /\ simplify(f) \in FormulasOver(T, S)
          /\ \A m \in Valuations(S) : Meaning(simplify(f), m) = Meaning(f, m)
    BY <1>8, SimplifiedOver DEF FormulasOver
  <2> QED
    BY <1>11, <2>1
<1>13. ASSUME NEW m \in Valuations(S), ~ isSelect(x) \/ ~ isSelect(y)
       PROVE  Meaning(Solved(e, s), m) <=> Meaning(e, m)
  <2>1. Meaning(x, m) \in Values /\ Meaning(y, m) \in Values /\ Meaning(rhs, m) \in Values
    BY <1>3, <1>7, SoundOver
  <2>2. \A u, v \in TermsOver(T, S, "integer") :
          /\ Meaning(plus(u, v), m) = (Meaning(u, m) + Meaning(v, m)) % Width
          /\ Meaning(minus(u, v), m) = (Meaning(u, m) - Meaning(v, m)) % Width
    BY SoundOver
  <2>3. \A u, v \in TermsOver(T, S, "integer") : Meaning(equals(u, v), m) = (Meaning(u, m) = Meaning(v, m))
    BY <1>8, SoundOver
  <2>4. Meaning(e, m) <=> (Meaning(x, m) + Meaning(y, m)) % Width = Meaning(rhs, m)
    BY <1>6, <1>7, <2>2
  <2>5. Meaning(equals(y, minus(rhs, x)), m) <=> Meaning(y, m) = (Meaning(rhs, m) - Meaning(x, m)) % Width
    <3>1. Meaning(equals(y, minus(rhs, x)), m) = (Meaning(y, m) = Meaning(minus(rhs, x), m))
      BY <1>7, <1>9, <2>3
    <3>2. Meaning(minus(rhs, x), m) = (Meaning(rhs, m) - Meaning(x, m)) % Width
      BY <1>3, <1>7, <2>2
    <3> QED
      BY <3>1, <3>2
  <2>6. Meaning(equals(x, minus(rhs, y)), m) <=> Meaning(x, m) = (Meaning(rhs, m) - Meaning(y, m)) % Width
    <3>1. Meaning(equals(x, minus(rhs, y)), m) = (Meaning(x, m) = Meaning(minus(rhs, y), m))
      BY <1>7, <1>9, <2>3
    <3>2. Meaning(minus(rhs, y), m) = (Meaning(rhs, m) - Meaning(y, m)) % Width
      BY <1>3, <1>7, <2>2
    <3> QED
      BY <3>1, <3>2
  <2>7. Meaning(equals(y, minus(rhs, x)), m) <=> Meaning(e, m)
    <3>1. (Meaning(x, m) + Meaning(y, m)) % Width = Meaning(rhs, m)
            <=> (Meaning(rhs, m) - Meaning(x, m)) % Width = Meaning(y, m)
      BY <2>1, Difference
    <3> QED
      BY <2>4, <2>5, <3>1
  <2>8. Meaning(equals(x, minus(rhs, y)), m) <=> Meaning(e, m)
    <3>1. (Meaning(y, m) + Meaning(x, m)) % Width = Meaning(rhs, m)
            <=> (Meaning(rhs, m) - Meaning(y, m)) % Width = Meaning(x, m)
      BY <2>1, Difference
    <3>2. Meaning(y, m) + Meaning(x, m) = Meaning(x, m) + Meaning(y, m)
      BY <2>1, WidthAssumption DEF Values
    <3> QED
      BY <2>4, <2>6, <3>1, <3>2
  <2>9. Solved(e, s) \in {equals(y, minus(rhs, x)), equals(x, minus(rhs, y))}
    BY <1>4, <1>5, <1>13, Zenon
  <2> QED
    BY <2>7, <2>8, <2>9
<1>14. ~ SpeaksOfArrays(simplify(Solved(e, s)))
  <2>1. Solved(e, s) \in {equals(y, minus(rhs, x)), equals(x, minus(rhs, y)), equals(y, rhs)}
    BY <1>4, Zenon
  <2>2. rhs \in TermsOver(T, S, "integer")
    BY <1>3, <1>7
  <2>3. \A u, v \in TermsOver(T, S, "integer") : ~ SpeaksOfArrays(simplify(equals(u, v)))
    BY IntegersOnly
  <2> QED
    BY <1>7, <1>9, <2>1, <2>2, <2>3
<1> QED
  BY <1>12, <1>13, <1>14 DEF sum, x, y

-----------------------------------------------------------------------------
(***************************************************************************)
(* The inductive invariant.  S stands for the symbols of the constraints,  *)
(* which do not change.                                                    *)
(***************************************************************************)
WellFormed(T, S) ==
  /\ from \in Inputs /\ S = SymbolsOf(Constraints)
  /\ list \in Seq(FormulasOver(T, S)) /\ new_list \in Seq(FormulasOver(T, S))
  /\ stage \in ToSet(Stages)
  /\ it \in 1 .. Len(list) + 1 /\ (stage \in {"array", "select"} => it = 1)
  /\ size \in Nat /\ size >= Len(list)
  /\ stage \in {"array", "store"} /\ list # <<>> => ~ SpeaksOfArrays(list[Len(list)])
  /\ gaps \subseteq {"mirrored", "summed"}
  /\ lost \subseteq {"unread", "alias", "mirrored", "summed"}

ListIsImplied(S) ==
  gaps = {} =>
    \A m \in Valuations(S) :
      Satisfies(m, Constraints) => Satisfies(m, list) /\ Satisfies(m, new_list)

ListInv(T) == WellFormed(T, SymbolsOf(Constraints)) /\ ListIsImplied(SymbolsOf(Constraints))

LEMMA StagesInOrder ==
  /\ ToSet(Stages) = {"array", "store", "nest", "select", "sum", "done"}
  /\ DOMAIN Stages = 1 .. 6
  /\ \A s \in 1 .. 6 : (CHOOSE r \in DOMAIN Stages : Stages[r] = Stages[s]) = s
  /\ Stages[1] = "array" /\ Stages[2] = "store" /\ Stages[3] = "nest"
  /\ Stages[4] = "select" /\ Stages[5] = "sum" /\ Stages[6] = "done"
<1>1. DOMAIN Stages = 1 .. 6
  BY DEF Stages
<1>2. /\ Stages[1] = "array" /\ Stages[2] = "store" /\ Stages[3] = "nest"
      /\ Stages[4] = "select" /\ Stages[5] = "sum" /\ Stages[6] = "done"
  BY DEF Stages
<1>3. \A s, r \in 1 .. 6 : Stages[r] = Stages[s] => r = s
  BY <1>2
<1>4. \A s \in 1 .. 6 : (CHOOSE r \in DOMAIN Stages : Stages[r] = Stages[s]) = s
  BY <1>1, <1>3
<1>5. ToSet(Stages) = {Stages[s] : s \in 1 .. 6}
  BY <1>1 DEF ToSet
<1>6. ToSet(Stages) = {"array", "store", "nest", "select", "sum", "done"}
  BY <1>2, <1>5
<1> QED
  BY <1>1, <1>2, <1>4, <1>6

(* The rank of a pass and the pass that follows it. *)
LEMMA RankOfStage ==
  ASSUME stage \in ToSet(Stages)
  PROVE  /\ Rank \in 1 .. 6 /\ stage = Stages[Rank]
         /\ stage = "array" => Rank = 1
         /\ stage = "store" => Rank = 2
         /\ stage = "nest" => Rank = 3
         /\ stage = "select" => Rank = 4
         /\ stage = "sum" => Rank = 5
         /\ stage = "done" => Rank = 6
BY StagesInOrder DEF Rank

(* What a substitution makes of the equations of arrays: their sides are    *)
(* replaced or keep their operator and name, and no conjunct becomes one.   *)
LEMMA SidesReplaced ==
  ASSUME NEW T, Z3Contract(T), NEW S \in SUBSET Symbols, NEW f \in FormulasOver(T, S),
         NEW r \in Sorts \ {"formula"}, NEW out \in TermsOver(T, S, r), NEW in \in TermsOver(T, S, r),
         SpeaksOfArrays(substitute(f, out, in))
  PROVE  /\ SpeaksOfArrays(f)
         /\ \A s \in 1 .. 2 :
              /\ substitute(f, out, in).args[s] = substitute(f.args[s], out, in)
              /\ \/ f.args[s] = out /\ substitute(f, out, in).args[s] = in
                 \/ /\ f.args[s] # out
                    /\ substitute(f, out, in).args[s].op = f.args[s].op
                    /\ substitute(f, out, in).args[s].name = f.args[s].name
<1> DEFINE g == substitute(f, out, in)
<1>1. "formula" \in Sorts /\ f \in T["formula"] /\ out \in T[r] /\ in \in T[r]
  BY DEF Sorts, FormulasOver, TermsOver
<1>2. \A s \in Sorts : \A t \in T[s] : t # out =>
        substitute(t, out, in) =
          [op |-> t.op, name |-> t.name, args |-> [n \in DOMAIN t.args |-> substitute(t.args[n], out, in)]]
  <2>1. ASSUME NEW s \in Sorts, NEW t \in T[s]
        PROVE  substitute(t, out, in) =
                 IF t = out THEN in
                 ELSE [op |-> t.op, name |-> t.name,
                       args |-> [n \in DOMAIN t.args |-> substitute(t.args[n], out, in)]]
    BY <1>1 DEF Z3Contract, Z3Replaces
  <2> QED
    BY <2>1
<1>3. \A t \in T[r] : substitute(out, out, in) = in
  BY <1>1 DEF Z3Contract, Z3Replaces
<1>4. f # out
  BY <1>1 DEF Z3Contract, Z3Syntax
<1>5. g = [op |-> f.op, name |-> f.name, args |-> [n \in DOMAIN f.args |-> substitute(f.args[n], out, in)]]
  BY <1>1, <1>2, <1>4
<1>6. isEQ(g) /\ \E s \in 1 .. 2 : is_array(g.args[s])
  BY DEF SpeaksOfArrays
<1>7. isEQ(f)
  BY <1>5, <1>6 DEF isEQ
<1>8. DOMAIN f.args = 1 .. 2
  BY <1>7, EquationOver
<1>9. PICK q \in Sorts : f.args[1] \in T[q] /\ f.args[2] \in T[q]
  <2>1. PICK p \in Sorts \ {"formula"} :
           f.args[1] \in TermsOver(T, S, p) /\ f.args[2] \in TermsOver(T, S, p)
    BY <1>7, EquationOver
  <2> QED
    BY <2>1 DEF TermsOver
<1>10. \A s \in 1 .. 2 : g.args[s] = substitute(f.args[s], out, in)
  BY <1>5, <1>8
<1>11. ASSUME NEW s \in 1 .. 2
       PROVE  \/ f.args[s] = out /\ g.args[s] = in
              \/ f.args[s] # out /\ g.args[s].op = f.args[s].op /\ g.args[s].name = f.args[s].name
  <2>1. CASE f.args[s] = out
    BY <1>1, <1>3, <1>10, <2>1
  <2>2. CASE f.args[s] # out
    <3>1. f.args[s] \in T[q]
      BY <1>9
    <3>2. substitute(f.args[s], out, in) =
            [op |-> f.args[s].op, name |-> f.args[s].name,
             args |-> [n \in DOMAIN f.args[s].args |-> substitute(f.args[s].args[n], out, in)]]
      BY <1>2, <2>2, <3>1
    <3> QED
      BY <1>10, <2>2, <3>2
  <2> QED
    BY <2>1, <2>2
<1>12. is_array(out) <=> is_array(in)
  BY <1>1 DEF Z3Contract, Z3Syntax
<1>13. PICK s \in 1 .. 2 : is_array(g.args[s])
  BY <1>6
<1>14. is_array(f.args[s])
  <2>1. CASE f.args[s] = out /\ g.args[s] = in
    BY <1>12, <1>13, <2>1
  <2>2. CASE g.args[s].op = f.args[s].op /\ g.args[s].name = f.args[s].name
    BY <1>13, <2>2 DEF is_array, isStore
  <2> QED
    BY <1>11, <2>1, <2>2
<1>15. SpeaksOfArrays(f)
  BY <1>7, <1>14 DEF SpeaksOfArrays
<1> QED
  BY <1>10, <1>11, <1>15

(* The last conjunct stays, and stays what it is, when an array is replaced. *)
LEMMA LastReplaced ==
  ASSUME NEW T, Z3Contract(T), NEW S \in SUBSET Symbols,
         NEW l \in Seq(FormulasOver(T, S)), NEW n \in 1 .. Len(l), isEQ(l[n]), NEW s \in 1 .. 2,
         is_array(l[n].args[s]), ~ SpeaksOfArrays(l[Len(l)]),
         NEW r, r = inplace_substitute(RemoveAt(l, n), l[n].args[s], l[n].args[3 - s])
  PROVE  n < Len(l) /\ ~ SpeaksOfArrays(r[Len(r)])
<1> DEFINE rest == RemoveAt(l, n)  e == l[n]
<1>1. n # Len(l) /\ n < Len(l)
  BY DEF SpeaksOfArrays
<1>2. rest \in Seq(FormulasOver(T, S)) /\ Len(rest) = Len(l) - 1
  BY Erased
<1>3. rest[Len(l) - 1] = l[Len(l)]
  <2>1. Len(l) - 1 \in 1 .. Len(l) - 1 /\ ~ (Len(l) - 1 < n) /\ (Len(l) - 1) + 1 = Len(l)
    BY <1>1
  <2>2. rest[Len(l) - 1] = l[(Len(l) - 1) + 1]
    BY <2>1, Erased
  <2> QED
    BY <2>1, <2>2
<1>4. Len(r) = Len(l) - 1
  BY Replaced
<1>5. e \in FormulasOver(T, S) /\ isEQ(e) /\ is_array(e.args[s])
  OBVIOUS
<1>6. r = [k \in DOMAIN rest |-> substitute(rest[k], e.args[s], e.args[3 - s])]
  BY DEF inplace_substitute
<1> HIDE DEF rest, e
<1>7. PICK q \in Sorts \ {"formula"} :
         e.args[1] \in TermsOver(T, S, q) /\ e.args[2] \in TermsOver(T, S, q)
  BY <1>5, EquationOver
<1>8. e.args[s] \in TermsOver(T, S, q) /\ e.args[3 - s] \in TermsOver(T, S, q)
  BY <1>7
<1>9. Len(l) - 1 \in DOMAIN rest
  BY <1>1, <1>2
<1>10. r[Len(r)] = substitute(l[Len(l)], e.args[s], e.args[3 - s])
  BY <1>3, <1>4, <1>6, <1>9
<1>11. l[Len(l)] \in FormulasOver(T, S)
  OBVIOUS
<1> QED
  BY <1>1, <1>8, <1>10, <1>11, SidesReplaced

-----------------------------------------------------------------------------
(***************************************************************************)
(* The steps.                                                              *)
(***************************************************************************)
LEMMA InitKeeps ==
  ASSUME NEW T, Z3Contract(T), InputsOver(T), Init
  PROVE  ListInv(T)
<1> DEFINE S == SymbolsOf(Constraints)
<1>1. /\ from \in Inputs /\ list = Constraints /\ new_list = <<>>
      /\ stage = "array" /\ it = 1 /\ size = Len(list) /\ gaps = {} /\ lost = {}
  BY DEF Init, Constraints
<1>2. /\ from.body \in Seq(T["formula"]) /\ from.hyp \in Seq(T["formula"])
      /\ from.post \in Seq(T["formula"])
  BY <1>1 DEF InputsOver
<1>3. Constraints \in Seq(T["formula"])
  <2>1. from.body \o from.hyp \o from.post \in Seq(T["formula"]) /\ <<>> \in Seq(T["formula"])
    BY <1>2, JoinedOver
  <2>2. Constraints = <<>> \/ Constraints = from.body \o from.hyp \o from.post
    BY DEF Constraints, extract_expr
  <2> HIDE DEF S
  <2> QED
    BY <2>1, <2>2
<1>4. \A k \in DOMAIN Constraints : Constraints[k] \in FormulasOver(T, S)
  <2>1. \A k \in DOMAIN Constraints : Names(Constraints[k]) \subseteq S
    BY DEF SymbolsOf
  <2> QED
    BY <1>3, <2>1 DEF FormulasOver, TermsOver
<1>5. Constraints \in Seq(FormulasOver(T, S))
  <2>1. DOMAIN Constraints = 1 .. Len(Constraints) /\ Len(Constraints) \in Nat
    BY <1>3
  <2>2. Constraints = [k \in 1 .. Len(Constraints) |-> Constraints[k]]
    BY <1>3
  <2> HIDE DEF S
  <2> QED
    BY <1>4, <2>1, <2>2
<1>6. list # <<>> => ~ SpeaksOfArrays(list[Len(list)])
  <2>1. SUFFICES ASSUME list # <<>> PROVE ~ SpeaksOfArrays(list[Len(list)])
    OBVIOUS
  <2>2. from.post # <<>> /\ Constraints = (from.body \o from.hyp) \o from.post
    BY <1>1, <2>1 DEF Constraints, extract_expr
  <2>3. list[Len(list)] = from.post[Len(from.post)]
    <3>1. from.body \o from.hyp \in Seq(T["formula"])
      BY <1>2, JoinedOver
    <3> QED
      BY <1>1, <1>2, <2>2, <3>1, LastOfJoined
  <2>4. ~ SpeaksOfArrays(Last(from.post))
    BY <1>1, <2>2, PostAssumption
  <2> QED
    BY <2>3, <2>4 DEF Last
<1>7. stage \in ToSet(Stages)
  BY <1>1, StagesInOrder
<1> HIDE DEF S
<1>8. \A m \in Valuations(S) : Satisfies(m, Constraints) => Satisfies(m, list) /\ Satisfies(m, new_list)
  BY <1>1 DEF Satisfies
<1>9. ListIsImplied(S)
  BY <1>8 DEF ListIsImplied
<1>10. Len(list) \in Nat
  BY <1>1, <1>5
<1>11. WellFormed(T, S)
  BY <1>1, <1>5, <1>6, <1>7, <1>10 DEF WellFormed, S
<1> QED
  BY <1>9, <1>11 DEF ListInv, S

LEMMA NextStageRank ==
  ASSUME stage \in ToSet(Stages), stage # "done", NEW l, NextStage(l)
  PROVE  Rank \in 1 .. 5 /\ Rank' = 1 + Rank /\ stage' = Stages[1 + Rank]
<1>1. stage' = Stages[1 + Rank]
  BY DEF NextStage, Rank
<1>2. Rank \in 1 .. 5
  BY RankOfStage, StagesInOrder
<1>3. 1 + Rank \in 1 .. 6
  BY <1>2
<1>4. (CHOOSE r \in DOMAIN Stages : Stages[r] = stage') = 1 + Rank
  BY <1>1, <1>3, StagesInOrder
<1>5. Rank' = 1 + Rank
  BY <1>4 DEF Rank
<1> QED
  BY <1>1, <1>2, <1>5

(* A pass hands over a list that follows from the one it has. *)
LEMMA NextStageKeeps ==
  ASSUME NEW T, Z3Contract(T), NEW S \in SUBSET Symbols, WellFormed(T, S), ListIsImplied(S),
         stage # "done", NEW l \in Seq(FormulasOver(T, S)), stage = "array" => l = list,
         \A m \in Valuations(S) : Satisfies(m, list) /\ Satisfies(m, new_list) => Satisfies(m, l),
         NextStage(l)
  PROVE  WellFormed(T, S)' /\ ListIsImplied(S)'
<1>1. /\ from' = from /\ list' = l /\ it' = 1 /\ size' = Len(l) /\ new_list' = <<>>
      /\ gaps' = gaps /\ lost' = lost
  BY DEF NextStage
<1>2. stage \in ToSet(Stages)
  BY DEF WellFormed
<1>3. /\ stage' \in {"store", "nest", "select", "sum", "done"}
      /\ stage' = "store" => stage = "array"
  <2>1. Rank \in 1 .. 5 /\ stage' = Stages[1 + Rank] /\ stage = Stages[Rank]
    BY <1>2, NextStageRank, RankOfStage
  <2> QED
    BY <2>1, StagesInOrder
<1>5. Constraints' = Constraints
  BY <1>1 DEF Constraints
<1>6. WellFormed(T, S)'
  <2>1. stage' \in ToSet(Stages)
    BY <1>3, StagesInOrder
  <2>2. stage' \in {"array", "store"} /\ l # <<>> => ~ SpeaksOfArrays(l[Len(l)])
    BY <1>3 DEF WellFormed
  <2>3. Len(l) \in Nat
    OBVIOUS
  <2> QED
    BY <1>1, <1>5, <2>1, <2>2, <2>3 DEF WellFormed
<1>7. ListIsImplied(S)'
  <2>1. \A m : Satisfies(m, new_list')
    BY <1>1 DEF Satisfies
  <2> QED
    BY <1>1, <1>5, <2>1 DEF ListIsImplied
<1> QED
  BY <1>6, <1>7

(* A step that leaves the list as it is. *)
LEMMA OnlyIteratorMoves ==
  ASSUME NEW T, NEW S, WellFormed(T, S), ListIsImplied(S),
         UNCHANGED <<from, list, stage, new_list, gaps>>, lost' = lost,
         it' \in 1 .. Len(list) + 1, stage \notin {"array", "select"},
         size' \in Nat, size' >= Len(list)
  PROVE  WellFormed(T, S)' /\ ListIsImplied(S)'
<1>1. Constraints' = Constraints
  BY DEF Constraints
<1> QED
  BY <1>1 DEF WellFormed, ListIsImplied

LEMMA ArrayEqKeeps ==
  ASSUME NEW T, Z3Contract(T), NEW S \in SUBSET Symbols, WellFormed(T, S), ListIsImplied(S),
         propogate_array_eq
  PROVE  WellFormed(T, S)' /\ ListIsImplied(S)'
<1>0. /\ stage = "array" /\ it = 1 /\ list \in Seq(FormulasOver(T, S))
      /\ list # <<>> => ~ SpeaksOfArrays(list[Len(list)])
  BY DEF propogate_array_eq, WellFormed
<1>1. CASE ArrayEquations = {}
  <2>1. NextStage(list)
    BY <1>1 DEF propogate_array_eq
  <2> QED
    BY <1>0, <2>1, NextStageKeeps
<1>2. CASE ArrayEquations # {}
  <2> DEFINE n == First(ArrayEquations)
  <2>1. n \in ArrayEquations
    <3>1. ArrayEquations \in SUBSET Nat
      BY <1>0 DEF ArrayEquations
    <3> QED
      BY <1>2, <3>1, FirstIsLeast
  <2>2. n \in 1 .. Len(list) /\ isEQ(list[n]) /\ is_array(list[n].args[1])
    <3>1. DOMAIN list = 1 .. Len(list) /\ 1 \in 1 .. 2
      BY <1>0
    <3>2. /\ n \in DOMAIN list /\ isEQ(list[n])
          /\ \A s \in 1 .. 2 : is_array(list[n].args[s])
      <4> HIDE DEF n
      <4> QED
        BY <2>1 DEF ArrayEquations
    <3> HIDE DEF n
    <3> QED
      BY <3>1, <3>2
  <2>3. /\ list' = inplace_substitute(Erase(n), list[n].args[1], list[n].args[2])
        /\ UNCHANGED <<from, stage, it, size, new_list, gaps, lost>>
    BY <1>2 DEF propogate_array_eq, passVars
  <2> HIDE DEF n
  <2>4. list' = inplace_substitute(RemoveAt(list, n), list[n].args[1], list[n].args[3 - 1])
    BY <2>3 DEF Erase
  <2>5. /\ list' \in Seq(FormulasOver(T, S)) /\ Len(list') = Len(list) - 1
        /\ \A m \in Valuations(S) : Satisfies(m, list) => Satisfies(m, list')
    BY <1>0, <2>2, <2>4, Replaced
  <2>6. ~ SpeaksOfArrays(list'[Len(list')])
    <3>1. ~ SpeaksOfArrays(list[Len(list)])
      BY <1>0, <2>2
    <3> QED
      BY <1>0, <2>2, <2>4, <3>1, LastReplaced
  <2>7. Constraints' = Constraints
    BY <2>3 DEF Constraints
  <2>8. /\ Len(list') \in Nat /\ Len(list) \in Nat
    BY <1>0, <2>5
  <2>9. WellFormed(T, S)'
    BY <1>0, <2>3, <2>5, <2>6, <2>7, <2>8 DEF WellFormed
  <2>10. ListIsImplied(S)'
    BY <2>3, <2>5, <2>7 DEF ListIsImplied
  <2> QED
    BY <2>9, <2>10
<1> QED
  BY <1>1, <1>2

LEMMA StoreSkipKeeps ==
  ASSUME NEW T, Z3Contract(T), NEW S \in SUBSET Symbols, WellFormed(T, S), ListIsImplied(S),
         StoreSkip
  PROVE  WellFormed(T, S)' /\ ListIsImplied(S)'
<1>1. /\ list \in Seq(FormulasOver(T, S)) /\ Len(list) \in Nat
      /\ it \in 1 .. Len(list) + 1 /\ size \in Nat /\ size >= Len(list)
  BY DEF WellFormed
<1>2. it <= Len(list) /\ it' = it + 1 /\ stage = "store"
      /\ UNCHANGED <<from, list, stage, size, new_list, gaps>> /\ lost' = lost
  BY DEF StoreSkip
<1>3. it' \in 1 .. Len(list) + 1 /\ size' \in Nat /\ size' >= Len(list)
  BY <1>1, <1>2
<1> QED
  BY <1>2, <1>3, OnlyIteratorMoves

LEMMA StoreReadKeeps ==
  ASSUME NEW T, Z3Contract(T), NEW S \in SUBSET Symbols, WellFormed(T, S), ListIsImplied(S),
         StoreRead
  PROVE  WellFormed(T, S)' /\ ListIsImplied(S)'
<1>0. /\ stage = "store" /\ it \in 1 .. Len(list) /\ list \in Seq(FormulasOver(T, S))
      /\ list # <<>> => ~ SpeaksOfArrays(list[Len(list)])
  BY DEF StoreRead, WellFormed
<1>1. PICK s \in 1 .. 2 :
         /\ isEQ(list[it]) /\ is_array(list[it].args[s])
         /\ list' = inplace_substitute(Erase(it), list[it].args[s], list[it].args[3 - s])
  <2>1. PICK d \in Definition(list[it]) : list' = inplace_substitute(Erase(it), d[1], d[2])
    BY DEF StoreRead
  <2>2. PICK s \in 1 .. 2 : /\ d = <<list[it].args[s], list[it].args[3 - s]>>
                            /\ isEQ(list[it]) /\ is_array(list[it].args[s])
    BY DEF Definition
  <2> QED
    BY <2>1, <2>2
<1>2. it' = 1 /\ size' = Len(list') /\ UNCHANGED <<from, stage, new_list, gaps, lost>>
  BY DEF StoreRead
<1>3. list' = inplace_substitute(RemoveAt(list, it), list[it].args[s], list[it].args[3 - s])
  BY <1>1 DEF Erase
<1>4. /\ list' \in Seq(FormulasOver(T, S)) /\ Len(list') = Len(list) - 1
      /\ \A m \in Valuations(S) : Satisfies(m, list) => Satisfies(m, list')
  <2>1. isEQ(list[it]) /\ it \in 1 .. Len(list) /\ list \in Seq(FormulasOver(T, S))
    BY <1>0, <1>1
  <2> QED
    BY <1>3, <2>1, Replaced
<1>5. ~ SpeaksOfArrays(list'[Len(list')])
  <2>1. ~ SpeaksOfArrays(list[Len(list)])
    BY <1>0
  <2> QED
    BY <1>0, <1>1, <1>3, <2>1, LastReplaced
<1>6. Constraints' = Constraints
  BY <1>2 DEF Constraints
<1>7. Len(list') \in Nat
  BY <1>4
<1>8. WellFormed(T, S)'
  BY <1>0, <1>2, <1>4, <1>5, <1>6, <1>7 DEF WellFormed
<1>9. ListIsImplied(S)'
  BY <1>2, <1>4, <1>6 DEF ListIsImplied
<1> QED
  BY <1>8, <1>9

LEMMA StoreUnreadKeeps ==
  ASSUME NEW T, Z3Contract(T), NEW S \in SUBSET Symbols, WellFormed(T, S), ListIsImplied(S),
         StoreUnread
  PROVE  WellFormed(T, S)' /\ ListIsImplied(S)'
<1>0. /\ stage = "store" /\ it \in 1 .. Len(list) /\ list \in Seq(FormulasOver(T, S))
      /\ list # <<>> => ~ SpeaksOfArrays(list[Len(list)])
      /\ lost \subseteq {"unread", "alias", "mirrored", "summed"}
  BY DEF StoreUnread, WellFormed
<1>1. /\ list' = RemoveAt(list, it) /\ it' = it + 1
      /\ UNCHANGED <<from, stage, size, new_list, gaps>>
      /\ lost' \in {lost, lost \cup {"unread"}}
  BY DEF StoreUnread, Erase
<1>2. SpeaksOfArrays(list[it])
  <2>1. PICK d \in Definition(list[it]) : TRUE
    BY DEF StoreUnread
  <2>2. PICK s \in 1 .. 2 : isEQ(list[it]) /\ is_array(list[it].args[s])
    BY <2>1 DEF Definition
  <2> QED
    BY <2>2 DEF SpeaksOfArrays
<1>3. it < Len(list)
  <2>1. ~ SpeaksOfArrays(list[Len(list)]) /\ Len(list) \in Nat
    BY <1>0
  <2>2. it # Len(list)
    BY <1>2, <2>1
  <2> QED
    BY <1>0, <2>1, <2>2
<1>4. /\ list' \in Seq(FormulasOver(T, S)) /\ Len(list') = Len(list) - 1
      /\ list'[Len(list) - 1] = list[Len(list)]
  <2>1. Len(list) - 1 \in 1 .. Len(list) - 1 /\ ~ (Len(list) - 1 < it) /\ (Len(list) - 1) + 1 = Len(list)
    BY <1>0, <1>3
  <2>2. RemoveAt(list, it)[Len(list) - 1] = list[(Len(list) - 1) + 1]
    BY <1>0, <2>1, Erased
  <2>3. RemoveAt(list, it) \in Seq(FormulasOver(T, S)) /\ Len(RemoveAt(list, it)) = Len(list) - 1
    BY <1>0, Erased
  <2> QED
    BY <1>1, <2>1, <2>2, <2>3
<1>5. \A m : Satisfies(m, list) => Satisfies(m, list')
  BY <1>0, <1>1, ErasedHolds
<1>6. Constraints' = Constraints
  BY <1>1 DEF Constraints
<1>7. ~ SpeaksOfArrays(list'[Len(list')])
  <2>1. list # <<>> /\ list'[Len(list')] = list[Len(list)]
    BY <1>0, <1>4
  <2> QED
    BY <1>0, <2>1
<1>8. it' \in 1 .. Len(list') + 1 /\ size >= Len(list')
  <2>1. Len(list) \in Nat /\ size \in Nat /\ size >= Len(list)
    BY <1>0 DEF WellFormed
  <2> QED
    BY <1>0, <1>1, <1>3, <1>4, <2>1
<1>9. lost' \subseteq {"unread", "alias", "mirrored", "summed"}
  BY <1>0, <1>1
<1>10. WellFormed(T, S)'
  BY <1>0, <1>1, <1>4, <1>6, <1>7, <1>8, <1>9 DEF WellFormed
<1>11. ListIsImplied(S)'
  BY <1>1, <1>5, <1>6 DEF ListIsImplied
<1> QED
  BY <1>10, <1>11

LEMMA StoreSweptKeeps ==
  ASSUME NEW T, Z3Contract(T), NEW S \in SUBSET Symbols, WellFormed(T, S), ListIsImplied(S),
         StoreSwept
  PROVE  WellFormed(T, S)' /\ ListIsImplied(S)'
<1>0. /\ list \in Seq(FormulasOver(T, S)) /\ Len(list) \in Nat /\ stage = "store"
  BY DEF WellFormed, StoreSwept
<1>1. CASE size = Len(list)
  <2>1. NextStage(list)
    BY <1>1 DEF StoreSwept
  <2> QED
    BY <1>0, <2>1, NextStageKeeps
<1>2. CASE size # Len(list)
  <2>1. it' = 1 /\ size' = Len(list) /\ UNCHANGED <<from, list, stage, new_list, gaps>> /\ lost' = lost
    BY <1>2 DEF StoreSwept
  <2>2. it' \in 1 .. Len(list) + 1 /\ size' \in Nat /\ size' >= Len(list)
    BY <1>0, <2>1
  <2> QED
    BY <1>0, <2>1, <2>2, OnlyIteratorMoves
<1> QED
  BY <1>1, <1>2

(* One conjunct moves to new_list in a form that follows from it, unless a  *)
(* gap is entered.                                                          *)
LEMMA RewrittenKeeps ==
  ASSUME NEW T, Z3Contract(T), NEW S \in SUBSET Symbols, WellFormed(T, S), ListIsImplied(S),
         stage \in {"nest", "sum"}, it <= Len(list),
         list' = RemoveAt(list, it), UNCHANGED <<from, stage, it, size>>,
         gaps \subseteq gaps', gaps' \subseteq {"mirrored", "summed"},
         lost' \subseteq {"unread", "alias", "mirrored", "summed"},
         NEW g \in FormulasOver(T, S), new_list' = Append(new_list, g),
         gaps' = {} => \A m \in Valuations(S) : Meaning(list[it], m) => Meaning(g, m)
  PROVE  WellFormed(T, S)' /\ ListIsImplied(S)'
<1>0. /\ it \in 1 .. Len(list) /\ list \in Seq(FormulasOver(T, S)) /\ Len(list) \in Nat
      /\ new_list \in Seq(FormulasOver(T, S)) /\ size \in Nat /\ size >= Len(list)
  BY DEF WellFormed
<1>1. list' \in Seq(FormulasOver(T, S)) /\ Len(list') = Len(list) - 1
  BY <1>0, Erased
<1>2. new_list' \in Seq(FormulasOver(T, S))
  BY <1>0
<1>3. it' \in 1 .. Len(list') + 1 /\ size' \in Nat /\ size' >= Len(list')
  BY <1>0, <1>1
<1>4. Constraints' = Constraints
  BY DEF Constraints
<1>5. WellFormed(T, S)'
  BY <1>1, <1>2, <1>3, <1>4 DEF WellFormed
<1>6. ListIsImplied(S)'
  <2>1. SUFFICES ASSUME gaps' = {}, NEW m \in Valuations(S), Satisfies(m, Constraints)
                 PROVE  Satisfies(m, list') /\ Satisfies(m, new_list')
    BY <1>4 DEF ListIsImplied
  <2>2. Satisfies(m, list) /\ Satisfies(m, new_list)
    BY <2>1 DEF ListIsImplied
  <2>3. Meaning(list[it], m)
    BY <1>0, <2>2 DEF Satisfies
  <2>4. Meaning(g, m)
    BY <2>1, <2>3
  <2>5. Satisfies(m, list')
    BY <1>0, <2>2, ErasedHolds
  <2>6. Satisfies(m, new_list')
    BY <1>0, <2>2, <2>4, AppendedHolds
  <2> QED
    BY <2>5, <2>6
<1> QED
  BY <1>5, <1>6

LEMMA NestKeeps ==
  ASSUME NEW T, Z3Contract(T), NEW S \in SUBSET Symbols, WellFormed(T, S), ListIsImplied(S),
         simplify_select_store_nest
  PROVE  WellFormed(T, S)' /\ ListIsImplied(S)'
<1> DEFINE f == list[it]
<1>0. /\ stage = "nest" /\ it <= Len(list) /\ it \in 1 .. Len(list) + 1
      /\ list \in Seq(FormulasOver(T, S)) /\ Len(list) \in Nat /\ size \in Nat /\ size >= Len(list)
      /\ UNCHANGED <<from, stage, size>>
      /\ gaps \subseteq {"mirrored", "summed"}
      /\ lost \subseteq {"unread", "alias", "mirrored", "summed"}
  BY DEF WellFormed, simplify_select_store_nest
<1>1. f \in FormulasOver(T, S)
  BY <1>0
<1>2. CASE ~ Nested(f)
  <2>1. it' = it + 1 /\ UNCHANGED <<list, new_list, gaps>> /\ lost' = lost
    BY <1>2 DEF simplify_select_store_nest
  <2>2. it' \in 1 .. Len(list) + 1
    BY <1>0, <2>1
  <2> QED
    BY <1>0, <2>1, <2>2, OnlyIteratorMoves
<1>3. CASE Nested(f)
  <2> DEFINE mirrored == Element(Positive(f)) = 2
  <2>1. /\ new_list' = Append(new_list, OnTheValue(f)) /\ list' = RemoveAt(list, it) /\ it' = it
        /\ gaps' = gaps \cup (IF mirrored /\ isNot(f) THEN {"mirrored"} ELSE {})
        /\ lost' = lost \cup (IF mirrored THEN {"mirrored"} ELSE {})
    BY <1>3 DEF simplify_select_store_nest, Erase
  <2>2. /\ OnTheValue(f) \in FormulasOver(T, S)
        /\ \A m \in Valuations(S) :
             Meaning(f, m) /\ ~ (isNot(f) /\ mirrored) => Meaning(OnTheValue(f), m)
    BY <1>1, <1>3, NestedHolds
  <2>3. gaps' = {} => \A m \in Valuations(S) : Meaning(f, m) => Meaning(OnTheValue(f), m)
    <3> HIDE DEF mirrored
    <3>1. gaps' = {} => ~ (isNot(f) /\ mirrored)
      BY <2>1
    <3> QED
      BY <2>2, <3>1
  <2>4. /\ gaps \subseteq gaps' /\ gaps' \subseteq {"mirrored", "summed"}
        /\ lost' \subseteq {"unread", "alias", "mirrored", "summed"}
    BY <1>0, <2>1
  <2> QED
    BY <1>0, <2>1, <2>2, <2>3, <2>4, RewrittenKeeps
<1> QED
  BY <1>2, <1>3

LEMMA SelectEqKeeps ==
  ASSUME NEW T, Z3Contract(T), NEW S \in SUBSET Symbols, WellFormed(T, S), ListIsImplied(S),
         propogate_select_eq
  PROVE  WellFormed(T, S)' /\ ListIsImplied(S)'
<1>0. /\ stage = "select" /\ it = 1 /\ list \in Seq(FormulasOver(T, S)) /\ Len(list) \in Nat
      /\ size \in Nat /\ size >= Len(list)
      /\ lost \subseteq {"unread", "alias", "mirrored", "summed"}
  BY DEF propogate_select_eq, WellFormed
<1>1. CASE ElementEquations = {}
  <2>1. NextStage(list)
    BY <1>1 DEF propogate_select_eq
  <2> QED
    BY <1>0, <2>1, NextStageKeeps
<1>2. CASE ElementEquations # {}
  <2> DEFINE n == First(ElementEquations)  s == Element(list[n])
  <2>1. n \in ElementEquations
    <3>1. ElementEquations \in SUBSET Nat
      BY <1>0 DEF ElementEquations
    <3> QED
      BY <1>2, <3>1, FirstIsLeast
  <2>2. s \in 1 .. 2
    BY DEF Element
  <2>3. /\ list' = inplace_substitute(Erase(n), list[n].args[s], list[n].args[3 - s])
        /\ UNCHANGED <<from, stage, it, size, new_list, gaps>>
        /\ lost' \in {lost, lost \cup {"alias"}}
    BY <1>2 DEF propogate_select_eq, passVars
  <2> HIDE DEF n, s
  <2>4. n \in 1 .. Len(list) /\ isEQ(list[n])
    BY <1>0, <2>1 DEF ElementEquations
  <2>5. list' = inplace_substitute(RemoveAt(list, n), list[n].args[s], list[n].args[3 - s])
    BY <2>3 DEF Erase
  <2>6. /\ list' \in Seq(FormulasOver(T, S)) /\ Len(list') = Len(list) - 1
        /\ \A m \in Valuations(S) : Satisfies(m, list) => Satisfies(m, list')
    BY <1>0, <2>2, <2>4, <2>5, Replaced
  <2>7. Constraints' = Constraints
    BY <2>3 DEF Constraints
  <2>8. Len(list') \in Nat /\ it' \in 1 .. Len(list') + 1 /\ size' >= Len(list')
    BY <1>0, <2>3, <2>6
  <2>9. lost' \subseteq {"unread", "alias", "mirrored", "summed"}
    BY <1>0, <2>3
  <2>10. WellFormed(T, S)'
    BY <1>0, <2>3, <2>6, <2>7, <2>8, <2>9 DEF WellFormed
  <2>11. ListIsImplied(S)'
    BY <2>3, <2>6, <2>7 DEF ListIsImplied
  <2> QED
    BY <2>10, <2>11
<1> QED
  BY <1>1, <1>2

LEMMA SumKeeps ==
  ASSUME NEW T, Z3Contract(T), NEW S \in SUBSET Symbols, WellFormed(T, S), ListIsImplied(S),
         simplify_select_eq
  PROVE  WellFormed(T, S)' /\ ListIsImplied(S)'
<1> DEFINE e == list[it]
<1>0. /\ stage = "sum" /\ it <= Len(list) /\ it \in 1 .. Len(list) + 1
      /\ list \in Seq(FormulasOver(T, S)) /\ Len(list) \in Nat /\ size \in Nat /\ size >= Len(list)
      /\ UNCHANGED <<from, stage, size>>
      /\ gaps \subseteq {"mirrored", "summed"}
      /\ lost \subseteq {"unread", "alias", "mirrored", "summed"}
  BY DEF WellFormed, simplify_select_eq
<1>1. e \in FormulasOver(T, S)
  BY <1>0
<1>2. CASE Sums(e) = {}
  <2>1. it' = it + 1 /\ UNCHANGED <<list, new_list, gaps>> /\ lost' = lost
    BY <1>2 DEF simplify_select_eq
  <2>2. it' \in 1 .. Len(list) + 1
    BY <1>0, <2>1
  <2> QED
    BY <1>0, <2>1, <2>2, OnlyIteratorMoves
<1>3. CASE Sums(e) # {}
  <2> DEFINE s == First(Sums(e))  two == \A n \in 1 .. 2 : isSelect(e.args[s].args[n])
  <2>1. s \in Sums(e)
    <3>1. Sums(e) \in SUBSET Nat
      BY DEF Sums
    <3> QED
      BY <1>3, <3>1, FirstIsLeast
  <2>2. /\ new_list' = Append(new_list, simplify(Solved(e, s))) /\ list' = RemoveAt(list, it) /\ it' = it
        /\ gaps' = gaps \cup (IF two THEN {"summed"} ELSE {})
        /\ lost' = lost \cup (IF two THEN {"summed"} ELSE {})
    BY <1>3 DEF simplify_select_eq, Erase
  <2> HIDE DEF s
  <2>3. /\ simplify(Solved(e, s)) \in FormulasOver(T, S)
        /\ \A m \in Valuations(S) : Meaning(e, m) /\ ~ two => Meaning(simplify(Solved(e, s)), m)
    BY <1>1, <2>1, SolvedHolds
  <2> HIDE DEF two
  <2>4. gaps' = {} => \A m \in Valuations(S) : Meaning(e, m) => Meaning(simplify(Solved(e, s)), m)
    <3>1. gaps' = {} => ~ two
      BY <2>2
    <3> QED
      BY <2>3, <3>1
  <2>5. /\ gaps \subseteq gaps' /\ gaps' \subseteq {"mirrored", "summed"}
        /\ lost' \subseteq {"unread", "alias", "mirrored", "summed"}
    BY <1>0, <2>2
  <2> QED
    BY <1>0, <2>2, <2>3, <2>4, <2>5, RewrittenKeeps
<1> QED
  BY <1>2, <1>3

LEMMA SweepEndsKeeps ==
  ASSUME NEW T, Z3Contract(T), NEW S \in SUBSET Symbols, WellFormed(T, S), ListIsImplied(S),
         SingleSweepEnds
  PROVE  WellFormed(T, S)' /\ ListIsImplied(S)'
<1>1. list \in Seq(FormulasOver(T, S)) /\ new_list \in Seq(FormulasOver(T, S))
  BY DEF WellFormed
<1>2. stage \notin {"array", "done"} /\ NextStage(list \o new_list)
  BY DEF SingleSweepEnds
<1>3. list \o new_list \in Seq(FormulasOver(T, S))
  BY <1>1, JoinedOver
<1>4. \A m : Satisfies(m, list) /\ Satisfies(m, new_list) => Satisfies(m, list \o new_list)
  BY <1>1, JoinedHolds
<1> QED
  BY <1>2, <1>3, <1>4, NextStageKeeps

-----------------------------------------------------------------------------
(***************************************************************************)
(* The theorems.  The hypotheses are the contract of z3 and the sorts of   *)
(* the constraints; with PostAssumption they are all that is assumed.      *)
(***************************************************************************)
LEMMA SymbolsAreSymbols ==
  ASSUME NEW T, InputsOver(T), from \in Inputs
  PROVE  SymbolsOf(Constraints) \in SUBSET Symbols
BY DEF InputsOver, Constraints

LEMMA ListInvStep ==
  ASSUME NEW T, Z3Contract(T), InputsOver(T), ListInv(T), [Next \/ Done]_vars
  PROVE  ListInv(T)'
<1>0. PICK S : S = SymbolsOf(Constraints)
  OBVIOUS
<1>1. WellFormed(T, S) /\ ListIsImplied(S)
  BY <1>0 DEF ListInv
<1>2. S \in SUBSET Symbols
  BY <1>0, <1>1, SymbolsAreSymbols DEF WellFormed
<1>3. WellFormed(T, S)' /\ ListIsImplied(S)'
  <2>1. CASE propogate_array_eq
    BY <1>1, <1>2, <2>1, ArrayEqKeeps
  <2>2. CASE StoreSkip
    BY <1>1, <1>2, <2>2, StoreSkipKeeps
  <2>3. CASE StoreRead
    BY <1>1, <1>2, <2>3, StoreReadKeeps
  <2>4. CASE StoreUnread
    BY <1>1, <1>2, <2>4, StoreUnreadKeeps
  <2>5. CASE StoreSwept
    BY <1>1, <1>2, <2>5, StoreSweptKeeps
  <2>6. CASE simplify_select_store_nest
    BY <1>1, <1>2, <2>6, NestKeeps
  <2>7. CASE propogate_select_eq
    BY <1>1, <1>2, <2>7, SelectEqKeeps
  <2>8. CASE simplify_select_eq
    BY <1>1, <1>2, <2>8, SumKeeps
  <2>9. CASE SingleSweepEnds
    BY <1>1, <1>2, <2>9, SweepEndsKeeps
  <2>10. CASE UNCHANGED vars
    <3>1. UNCHANGED <<from, list, stage, it, size, new_list, gaps, lost>>
      BY <2>10 DEF vars, passVars
    <3>2. Constraints' = Constraints
      BY <3>1 DEF Constraints
    <3>3. WellFormed(T, S)'
      BY <1>1, <3>1, <3>2 DEF WellFormed
    <3> QED
      BY <1>1, <3>1, <3>2, <3>3 DEF ListIsImplied
  <2> QED
    BY <2>1, <2>2, <2>3, <2>4, <2>5, <2>6, <2>7, <2>8, <2>9, <2>10 DEF Next, Done
<1>4. S = SymbolsOf(Constraints)'
  BY <1>3 DEF WellFormed
<1> QED
  BY <1>3, <1>4 DEF ListInv

(* As long as no rule has been applied where it does not hold, what is in   *)
(* the list and what will be added to it follows from the constraints.      *)
THEOREM ListInvariant ==
  ASSUME NEW T, Z3Contract(T), InputsOver(T)
  PROVE  Spec => []ListInv(T)
<1>1. Init => ListInv(T)
  BY InitKeeps
<1>2. ListInv(T) /\ [Next \/ Done]_vars => ListInv(T)'
  BY ListInvStep
<1> QED
  BY <1>1, <1>2, PTL DEF Spec

(* The iterators of the five passes never leave the list, and a sweep never *)
(* lengthens it.                                                            *)
THEOREM IteratorsStayInside ==
  ASSUME NEW T, Z3Contract(T), InputsOver(T)
  PROVE  Spec => []TypeOK
<1>1. ListInv(T) => TypeOK
  BY DEF ListInv, WellFormed, TypeOK
<1> QED
  BY <1>1, ListInvariant, PTL

(* What compute_pre returns follows from the path, the hypothesis and the   *)
(* assertion, outside the two rules that are wrong.                         *)
THEOREM PreconditionIsImplied ==
  ASSUME NEW T, Z3Contract(T), InputsOver(T)
  PROVE  Spec => []PreIsImplied
<1>1. ListInv(T) => PreIsImplied
  BY DEF ListInv, ListIsImplied, PreIsImplied
<1> QED
  BY <1>1, ListInvariant, PTL

-----------------------------------------------------------------------------
LEMMA ReplacedIsShorter ==
  ASSUME NEW F, NEW l \in Seq(F), NEW n \in 1 .. Len(l), NEW out, NEW in
  PROVE  Len(inplace_substitute(RemoveAt(l, n), out, in)) = Len(l) - 1
<1>1. RemoveAt(l, n) \in Seq(F) /\ Len(RemoveAt(l, n)) = Len(l) - 1
  BY Erased
<1>2. DOMAIN RemoveAt(l, n) = 1 .. Len(l) - 1 /\ Len(l) - 1 \in Nat
  BY <1>1
<1> QED
  BY <1>2 DEF inplace_substitute

LEMMA StepAdvances ==
  ASSUME NEW T, NEW S, WellFormed(T, S), Next
  PROVE  Advances
<1>1. /\ list \in Seq(FormulasOver(T, S)) /\ Len(list) \in Nat /\ stage \in ToSet(Stages)
      /\ it \in 1 .. Len(list) + 1 /\ size \in Nat /\ size >= Len(list)
  BY DEF WellFormed
<1>2. Rank \in 1 .. 6
  BY <1>1, RankOfStage
<1>3. stage' = stage => Rank' = Rank
  BY DEF Rank
<1>4. ASSUME NEW l, stage # "done", NextStage(l) PROVE Advances
  <2>1. Rank' = 1 + Rank /\ Rank \in 1 .. 5
    BY <1>1, <1>4, NextStageRank
  <2> QED
    BY <2>1 DEF Advances
<1>5. ASSUME NEW n \in 1 .. Len(list), stage' = stage, Len(list') = Len(list) - 1 PROVE Advances
  BY <1>1, <1>3, <1>5 DEF Advances
<1>6. ASSUME stage' = stage, list' = list, size' = size, it' = it + 1 PROVE Advances
  BY <1>1, <1>3, <1>6 DEF Advances
<1>7. ASSUME NEW n \in 1 .. Len(list), stage' = stage, list' = RemoveAt(list, n) PROVE Advances
  <2>1. Len(list') = Len(list) - 1
    BY <1>1, <1>7, Erased
  <2> QED
    BY <1>5, <1>7, <2>1
<1>8. ASSUME NEW n \in 1 .. Len(list), NEW out, NEW in, stage' = stage,
             list' = inplace_substitute(RemoveAt(list, n), out, in)
      PROVE  Advances
  <2>1. Len(list') = Len(list) - 1
    BY <1>1, <1>8, ReplacedIsShorter
  <2> QED
    BY <1>5, <1>8, <2>1
<1>9. CASE propogate_array_eq
  <2>1. CASE ArrayEquations = {}
    BY <1>4, <1>9, <2>1 DEF propogate_array_eq
  <2>2. CASE ArrayEquations # {}
    <3> DEFINE n == First(ArrayEquations)
    <3>1. ArrayEquations \subseteq 1 .. Len(list) /\ ArrayEquations \in SUBSET Nat
      BY <1>1 DEF ArrayEquations
    <3>2. n \in 1 .. Len(list)
      BY <2>2, <3>1, FirstIsLeast
    <3>3. /\ list' = inplace_substitute(RemoveAt(list, n), list[n].args[1], list[n].args[2])
          /\ stage' = stage
      BY <1>9, <2>2 DEF propogate_array_eq, passVars, Erase
    <3> HIDE DEF n
    <3> QED
      BY <1>8, <3>2, <3>3
  <2> QED
    BY <2>1, <2>2
<1>10. CASE StoreSkip
  BY <1>6, <1>10 DEF StoreSkip
<1>11. CASE StoreRead
  <2>1. PICK d \in Definition(list[it]) : list' = inplace_substitute(Erase(it), d[1], d[2])
    BY <1>11 DEF StoreRead
  <2>2. list' = inplace_substitute(RemoveAt(list, it), d[1], d[2]) /\ stage' = stage
    BY <1>11, <2>1 DEF StoreRead, Erase
  <2>3. it \in 1 .. Len(list)
    BY <1>1, <1>11 DEF StoreRead
  <2> QED
    BY <1>8, <2>2, <2>3
<1>12. CASE StoreUnread
  <2>1. it \in 1 .. Len(list) /\ stage' = stage /\ list' = RemoveAt(list, it)
    BY <1>1, <1>12 DEF StoreUnread, Erase
  <2> QED
    BY <1>7, <2>1
<1>13. CASE StoreSwept
  <2>1. CASE size = Len(list)
    BY <1>4, <1>13, <2>1 DEF StoreSwept
  <2>2. CASE size # Len(list)
    <3>1. stage' = stage /\ list' = list /\ size' = Len(list)
      BY <1>13, <2>2 DEF StoreSwept
    <3>2. size' < size
      BY <1>1, <2>2, <3>1
    <3> QED
      BY <1>3, <3>1, <3>2 DEF Advances
  <2> QED
    BY <2>1, <2>2
<1>14. CASE simplify_select_store_nest
  <2>1. it \in 1 .. Len(list) /\ stage' = stage /\ size' = size
    BY <1>1, <1>14 DEF simplify_select_store_nest
  <2>2. (list' = list /\ it' = it + 1) \/ list' = RemoveAt(list, it)
    BY <1>14 DEF simplify_select_store_nest, Erase
  <2> QED
    BY <1>6, <1>7, <2>1, <2>2
<1>15. CASE propogate_select_eq
  <2>1. CASE ElementEquations = {}
    BY <1>4, <1>15, <2>1 DEF propogate_select_eq
  <2>2. CASE ElementEquations # {}
    <3> DEFINE n == First(ElementEquations)  e == list[n]  s == Element(e)
    <3>1. ElementEquations \subseteq 1 .. Len(list) /\ ElementEquations \in SUBSET Nat
      BY <1>1 DEF ElementEquations
    <3>2. n \in 1 .. Len(list)
      BY <2>2, <3>1, FirstIsLeast
    <3>3. /\ list' = inplace_substitute(RemoveAt(list, n), e.args[s], e.args[3 - s])
          /\ stage' = stage
      BY <1>15, <2>2 DEF propogate_select_eq, passVars, Erase
    <3> HIDE DEF n, e, s
    <3> QED
      BY <1>8, <3>2, <3>3
  <2> QED
    BY <2>1, <2>2
<1>16. CASE simplify_select_eq
  <2>1. it \in 1 .. Len(list) /\ stage' = stage /\ size' = size
    BY <1>1, <1>16 DEF simplify_select_eq
  <2>2. (list' = list /\ it' = it + 1) \/ list' = RemoveAt(list, it)
    BY <1>16 DEF simplify_select_eq, Erase
  <2> QED
    BY <1>6, <1>7, <2>1, <2>2
<1>17. CASE SingleSweepEnds
  <2>1. stage # "done" /\ NextStage(list \o new_list)
    BY <1>17 DEF SingleSweepEnds
  <2> QED
    BY <1>4, <2>1
<1> QED
  BY <1>9, <1>10, <1>11, <1>12, <1>13, <1>14, <1>15, <1>16, <1>17 DEF Next

(* Every step of compute_pre ends a pass, shortens the list, begins a sweep *)
(* that is due, or advances: the measure of its termination.                *)
THEOREM EveryStepAdvances ==
  ASSUME NEW T, Z3Contract(T), InputsOver(T)
  PROVE  Spec => Progress
<1>1. ListInv(T) /\ [Next \/ Done]_vars => [Advances]_vars
  BY StepAdvances DEF ListInv, Done
<1> QED
  BY <1>1, ListInvariant, PTL DEF Spec, Progress

-----------------------------------------------------------------------------
(***************************************************************************)
(* No array is defined twice, so that the two passes over equations of     *)
(* arrays leave none.                                                      *)
(***************************************************************************)
DefinedOnce(l) ==
  \E rank \in [Arrays -> Int], side \in [DOMAIN l -> 1 .. 2] : DefinedBy(l, rank, side)

(* Every equation of arrays has a store on one side. *)
StoresOnly(l) ==
  \A n \in DOMAIN l : SpeaksOfArrays(l[n]) => \E s \in 1 .. 2 : isStore(l[n].args[s])

NoArrayEquation(l) == \A n \in DOMAIN l : ~ SpeaksOfArrays(l[n])

(* Erasing a conjunct leaves the others with their definitions, which are   *)
(* of other arrays than the one it defined.                                 *)
LEMMA ErasedDefined ==
  ASSUME NEW F, NEW l \in Seq(F), NEW n \in 1 .. Len(l),
         NEW rank, NEW side \in [DOMAIN l -> 1 .. 2], DefinedBy(l, rank, side)
  PROVE  \E side2 \in [DOMAIN RemoveAt(l, n) -> 1 .. 2] :
           /\ DefinedBy(RemoveAt(l, n), rank, side2)
           /\ SpeaksOfArrays(l[n]) =>
                \A k \in DOMAIN RemoveAt(l, n) : SpeaksOfArrays(RemoveAt(l, n)[k]) =>
                  RemoveAt(l, n)[k].args[side2[k]].name # l[n].args[side[n]].name
<1> DEFINE rest == RemoveAt(l, n)
           at(k) == IF k < n THEN k ELSE k + 1
           side2 == [k \in DOMAIN rest |-> side[at(k)]]
<1>1. DOMAIN rest = 1 .. Len(l) - 1 /\ DOMAIN l = 1 .. Len(l) /\ Len(l) \in Nat
  <2>1. rest \in Seq(F) /\ Len(rest) = Len(l) - 1
    BY Erased
  <2> QED
    BY <2>1
<1>2. \A k \in DOMAIN rest : rest[k] = l[at(k)] /\ at(k) \in DOMAIN l \ {n}
  <2>1. \A k \in 1 .. Len(l) - 1 : rest[k] = IF k < n THEN l[k] ELSE l[k + 1]
    BY Erased
  <2> HIDE DEF rest
  <2>2. ASSUME NEW k \in 1 .. Len(l) - 1
        PROVE  rest[k] = l[at(k)] /\ at(k) \in DOMAIN l \ {n}
    <3>1. CASE k < n
      BY <1>1, <2>1, <3>1
    <3>2. CASE ~ (k < n)
      BY <1>1, <2>1, <3>2
    <3> QED
      BY <3>1, <3>2
  <2> QED
    BY <1>1, <2>2
<1>3. \A j, k \in DOMAIN rest : j # k => at(j) # at(k)
  BY <1>1
<1>4. \A k \in DOMAIN rest : side2[k] = side[at(k)]
  OBVIOUS
<1>5. side2 \in [DOMAIN rest -> 1 .. 2]
  BY <1>2
<1> HIDE DEF rest, at, side2
<1>6. DefinedBy(rest, rank, side2)
  <2>1. SUFFICES ASSUME NEW k \in DOMAIN rest, SpeaksOfArrays(rest[k])
                 PROVE  LET array == rest[k].args[side2[k]]  value == rest[k].args[3 - side2[k]] IN
                        /\ array.name \in Arrays
                        /\ \A b \in Names(value) \cap Arrays : rank[b] < rank[array.name]
                        /\ \A j \in DOMAIN rest \ {k} :
                             SpeaksOfArrays(rest[j]) => rest[j].args[side2[j]].name # array.name
    BY DEF DefinedBy
  <2>2. rest[k] = l[at(k)] /\ at(k) \in DOMAIN l /\ side2[k] = side[at(k)]
    BY <1>2, <1>4
  <2>3. LET array == l[at(k)].args[side[at(k)]]  value == l[at(k)].args[3 - side[at(k)]] IN
        /\ array.name \in Arrays
        /\ \A b \in Names(value) \cap Arrays : rank[b] < rank[array.name]
        /\ \A j \in DOMAIN l \ {at(k)} : SpeaksOfArrays(l[j]) => l[j].args[side[j]].name # array.name
    BY <2>1, <2>2 DEF DefinedBy
  <2>4. ASSUME NEW j \in DOMAIN rest \ {k}, SpeaksOfArrays(rest[j])
        PROVE  rest[j].args[side2[j]].name # rest[k].args[side2[k]].name
    <3>1. rest[j] = l[at(j)] /\ side2[j] = side[at(j)] /\ at(j) \in DOMAIN l \ {at(k)}
      BY <1>2, <1>3, <1>4
    <3> QED
      BY <2>2, <2>3, <2>4, <3>1
  <2> QED
    BY <2>2, <2>3, <2>4
<1>7. ASSUME SpeaksOfArrays(l[n]), NEW k \in DOMAIN rest, SpeaksOfArrays(rest[k])
      PROVE  rest[k].args[side2[k]].name # l[n].args[side[n]].name
  <2>1. rest[k] = l[at(k)] /\ side2[k] = side[at(k)] /\ at(k) \in DOMAIN l \ {n}
    BY <1>2, <1>4
  <2>2. l[at(k)].args[side[at(k)]].name # l[n].args[side[n]].name
    BY <1>1, <1>7, <2>1 DEF DefinedBy
  <2> QED
    BY <2>1, <2>2
<1> QED
  BY <1>5, <1>6, <1>7 DEF rest

(* Replacing, in a list where no array is defined twice, an array out:      *)
(* either by what it was defined to be, or by the array in that was defined *)
(* to be out.  Neither of them is defined elsewhere.                        *)
LEMMA ReplacedDefined ==
  ASSUME NEW T, Z3Contract(T), NEW S \in SUBSET Symbols, NEW q \in Seq(FormulasOver(T, S)),
         NEW out \in TermsOver(T, S, "array"), NEW in \in TermsOver(T, S, "array"),
         out.name \in Arrays,
         NEW rank \in [Arrays -> Int], NEW side \in [DOMAIN q -> 1 .. 2], DefinedBy(q, rank, side),
         NEW x \in {out, in}, x.name \in Arrays,
         \A k \in DOMAIN q : SpeaksOfArrays(q[k]) => q[k].args[side[k]].name # x.name,
         x = out => \A b \in Names(in) \cap Arrays : rank[b] < rank[out.name],
         x # out => rank[out.name] < rank[in.name]
  PROVE  DefinedOnce(inplace_substitute(q, out, in))
<1> DEFINE r == inplace_substitute(q, out, in)
           rank2 == IF x = out THEN rank ELSE [rank EXCEPT ![in.name] = rank[out.name]]
<1>0. "array" \in Sorts /\ "array" \in Sorts \ {"formula"}
  BY DEF Sorts
<1>1. DOMAIN r = DOMAIN q /\ \A k \in DOMAIN q : r[k] = substitute(q[k], out, in)
  BY DEF inplace_substitute
<1>2. rank2 \in [Arrays -> Int]
  OBVIOUS
<1>3. \A k \in DOMAIN q : q[k] \in FormulasOver(T, S)
  OBVIOUS
<1>4. \A k \in DOMAIN q : side[k] \in 1 .. 2 /\ 3 - side[k] \in 1 .. 2
  OBVIOUS
<1> HIDE DEF r
(* The array each equation defines, and what it is defined to be, before    *)
(* and after.                                                               *)
<1>5. ASSUME NEW k \in DOMAIN q, SpeaksOfArrays(r[k])
      PROVE  /\ SpeaksOfArrays(q[k])
             /\ \A s \in 1 .. 2 :
                  /\ q[k].args[s] \in TermsOver(T, S, "array")
                  /\ r[k].args[s] = substitute(q[k].args[s], out, in)
                  /\ \/ q[k].args[s] = out /\ r[k].args[s] = in
                     \/ /\ q[k].args[s] # out /\ r[k].args[s].op = q[k].args[s].op
                        /\ r[k].args[s].name = q[k].args[s].name
  <2>1. /\ SpeaksOfArrays(q[k])
        /\ \A s \in 1 .. 2 :
             /\ r[k].args[s] = substitute(q[k].args[s], out, in)
             /\ \/ q[k].args[s] = out /\ r[k].args[s] = in
                \/ /\ q[k].args[s] # out /\ r[k].args[s].op = q[k].args[s].op
                   /\ r[k].args[s].name = q[k].args[s].name
    BY <1>0, <1>1, <1>3, <1>5, SidesReplaced
  <2>2. PICK p \in Sorts \ {"formula"} :
           q[k].args[1] \in TermsOver(T, S, p) /\ q[k].args[2] \in TermsOver(T, S, p)
    BY <1>3, <2>1, EquationOver DEF SpeaksOfArrays
  <2>3. \A s \in 1 .. 2 : q[k].args[s] \in TermsOver(T, S, p)
    BY <2>2
  <2>4. p = "array"
    BY <2>1, <2>3, NamedArray DEF SpeaksOfArrays
  <2> QED
    BY <2>1, <2>3, <2>4
<1>6. \A t \in TermsOver(T, S, "array") : t.name = out.name => t = out
  BY <1>0, NamedArray
<1>12. \A t \in TermsOver(T, S, "array") : \A b \in Names(substitute(t, out, in)) :
          b \in Names(t) \/ (out.name \in Names(t) /\ b \in Names(in))
  BY <1>0, NamesReplaced
(* The name of the array defined: in, if it was out and in was not defined. *)
<1>8. ASSUME NEW k \in DOMAIN q, SpeaksOfArrays(r[k])
      PROVE  LET array == q[k].args[side[k]]  array2 == r[k].args[side[k]] IN
             /\ array.name \in Arrays /\ array.name # x.name
             /\ array2.name = IF array.name = out.name THEN in.name ELSE array.name
             /\ array2.name \in Arrays
  <2> DEFINE array == q[k].args[side[k]]  array2 == r[k].args[side[k]]
  <2>1. /\ SpeaksOfArrays(q[k]) /\ array \in TermsOver(T, S, "array")
        /\ \/ array = out /\ array2 = in
           \/ array # out /\ array2.op = array.op /\ array2.name = array.name
    BY <1>4, <1>5, <1>8
  <2>2. array.name \in Arrays /\ array.name # x.name
    BY <2>1 DEF DefinedBy
  <2>3. array.name = out.name <=> array = out
    BY <1>6, <2>1
  <2> HIDE DEF array, array2
  <2>4. array2.name = IF array.name = out.name THEN in.name ELSE array.name
    BY <2>1, <2>3
  <2>5. array.name = out.name => in.name \in Arrays
    BY <2>2
  <2> QED
    BY <2>2, <2>4, <2>5 DEF array, array2
(* The value is made of arrays of lower ranks still. *)
<1>9. ASSUME NEW k \in DOMAIN q, SpeaksOfArrays(r[k]),
             NEW b \in Names(r[k].args[3 - side[k]]) \cap Arrays
      PROVE  rank2[b] < rank2[r[k].args[side[k]].name]
  <2> DEFINE array == q[k].args[side[k]]  array2 == r[k].args[side[k]]
             value == q[k].args[3 - side[k]]  value2 == r[k].args[3 - side[k]]
  <2>1. /\ SpeaksOfArrays(q[k]) /\ value \in TermsOver(T, S, "array")
        /\ value2 = substitute(value, out, in)
    BY <1>4, <1>5, <1>9
  <2>2. \A a \in Names(value) \cap Arrays : rank[a] < rank[array.name]
    BY <2>1 DEF DefinedBy
  <2>3. /\ array.name \in Arrays /\ array.name # x.name
        /\ array2.name = IF array.name = out.name THEN in.name ELSE array.name
        /\ array2.name \in Arrays
    BY <1>8, <1>9
  <2>4. b \in Names(value2) /\ b \in Arrays
    BY <1>9
  <2> HIDE DEF array, array2, value, value2
  <2>5. \A a \in Arrays : rank[a] \in Int
    OBVIOUS
  <2>6. b \in Names(value) \/ (out.name \in Names(value) /\ b \in Names(in))
    BY <1>12, <2>1, <2>4
  <2>7. CASE x = out
    <3>1. array2.name = array.name /\ rank2 = rank
      BY <2>3, <2>7
    <3>2. CASE b \in Names(value)
      BY <2>2, <2>4, <3>1, <3>2 DEF array2
    <3>3. CASE out.name \in Names(value) /\ b \in Names(in)
      <4>1. rank[b] < rank[out.name] /\ rank[out.name] < rank[array.name]
        BY <2>2, <2>4, <2>7, <3>3
      <4>2. rank[b] < rank[array.name]
        BY <2>3, <2>4, <2>5, <4>1
      <4> QED
        BY <3>1, <4>2 DEF array2
    <3> QED
      BY <2>6, <3>2, <3>3
  <2>8. CASE x # out
    <3>1. x = in /\ in.name \in Arrays /\ in.name # out.name /\ rank[out.name] < rank[in.name]
      <4>1. x = in /\ rank[out.name] < rank[in.name] /\ in.name \in Arrays
        BY <2>8
      <4> QED
        BY <2>5, <4>1
    <3>2. \A a \in Arrays : rank2[a] = IF a = in.name THEN rank[out.name] ELSE rank[a]
      BY <2>8
    <3> HIDE DEF rank2
    <3>3. rank2[array2.name] = IF array.name = out.name THEN rank[out.name] ELSE rank[array.name]
      BY <2>3, <3>1, <3>2
    <3>4. rank2[array2.name] = rank[array.name]
      BY <3>3
    <3>5. Names(in) = {in.name}
      BY <1>0, <3>1, NamedArray
    <3>6. rank2[b] < rank[array.name]
      <4>1. CASE b # in.name
        BY <2>2, <2>4, <2>6, <3>2, <3>5, <4>1
      <4>2. CASE b = in.name /\ b \in Names(value)
        <5>1. rank2[b] = rank[out.name] /\ rank[out.name] < rank[b] /\ rank[b] < rank[array.name]
          BY <2>2, <2>4, <3>1, <3>2, <4>2
        <5> QED
          BY <2>3, <2>4, <2>5, <5>1
      <4>3. CASE b = in.name /\ out.name \in Names(value)
        BY <2>2, <2>4, <3>2, <4>3
      <4> QED
        BY <2>6, <4>1, <4>2, <4>3
    <3> QED
      BY <3>4, <3>6 DEF array2
  <2> QED
    BY <2>7, <2>8
<1>10. ASSUME NEW k \in DOMAIN q, SpeaksOfArrays(r[k]), NEW j \in DOMAIN q \ {k}, SpeaksOfArrays(r[j])
       PROVE  r[j].args[side[j]].name # r[k].args[side[k]].name
  <2> DEFINE a == q[k].args[side[k]].name  b == q[j].args[side[j]].name
  <2>1. SpeaksOfArrays(q[k]) /\ SpeaksOfArrays(q[j])
    BY <1>5, <1>10
  <2>2. a # b
    BY <2>1 DEF DefinedBy
  <2>3. /\ a # x.name /\ r[k].args[side[k]].name = IF a = out.name THEN in.name ELSE a
        /\ b # x.name /\ r[j].args[side[j]].name = IF b = out.name THEN in.name ELSE b
    BY <1>8, <1>10
  <2> HIDE DEF a, b
  <2> QED
    BY <2>2, <2>3
<1>11. DefinedBy(r, rank2, side)
  <2> HIDE DEF rank2
  <2>1. SUFFICES ASSUME NEW k \in DOMAIN q, SpeaksOfArrays(r[k])
                 PROVE  LET array == r[k].args[side[k]]  value == r[k].args[3 - side[k]] IN
                        /\ array.name \in Arrays
                        /\ \A b \in Names(value) \cap Arrays : rank2[b] < rank2[array.name]
                        /\ \A j \in DOMAIN q \ {k} :
                             SpeaksOfArrays(r[j]) => r[j].args[side[j]].name # array.name
    BY <1>1 DEF DefinedBy
  <2> QED
    BY <1>8, <1>9, <1>10, <2>1
<1> QED
  BY <1>1, <1>2, <1>11 DEF DefinedOnce, r

(* Replacing an array that is no store leaves every store where it was. *)
LEMMA StoresReplaced ==
  ASSUME NEW T, Z3Contract(T), NEW S \in SUBSET Symbols, NEW q \in Seq(FormulasOver(T, S)),
         NEW out \in TermsOver(T, S, "array"), NEW in \in TermsOver(T, S, "array"),
         ~ isStore(out), StoresOnly(q)
  PROVE  StoresOnly(inplace_substitute(q, out, in))
<1> DEFINE r == inplace_substitute(q, out, in)
<1>1. "array" \in Sorts \ {"formula"}
  BY DEF Sorts
<1>2. DOMAIN r = DOMAIN q /\ \A k \in DOMAIN q : r[k] = substitute(q[k], out, in)
  BY DEF inplace_substitute
<1> HIDE DEF r
<1>3. ASSUME NEW k \in DOMAIN q, SpeaksOfArrays(r[k])
      PROVE  \E t \in 1 .. 2 : isStore(r[k].args[t])
  <2>1. q[k] \in FormulasOver(T, S) /\ r[k] = substitute(q[k], out, in)
    BY <1>2
  <2>2. /\ SpeaksOfArrays(q[k])
        /\ \A t \in 1 .. 2 :
             \/ q[k].args[t] = out /\ r[k].args[t] = in
             \/ /\ q[k].args[t] # out /\ r[k].args[t].op = q[k].args[t].op
                /\ r[k].args[t].name = q[k].args[t].name
    BY <1>1, <1>3, <2>1, SidesReplaced
  <2>3. PICK t \in 1 .. 2 : isStore(q[k].args[t])
    BY <2>2 DEF StoresOnly
  <2> QED
    BY <2>2, <2>3 DEF isStore
<1> QED
  BY <1>2, <1>3 DEF StoresOnly, r

(* The two passes over equations of arrays: an equation is erased and its   *)
(* array replaced.                                                          *)
LEMMA EquationReplaced ==
  ASSUME NEW T, Z3Contract(T), NEW S \in SUBSET Symbols, NEW l \in Seq(FormulasOver(T, S)),
         NEW n \in 1 .. Len(l), isEQ(l[n]), NEW s \in 1 .. 2, l[n].args[s].name \in Arrays,
         DefinedOnce(l),
         NEW r, r = inplace_substitute(RemoveAt(l, n), l[n].args[s], l[n].args[3 - s])
  PROVE  DefinedOnce(r) /\ (StoresOnly(l) => StoresOnly(r))
<1> DEFINE e == l[n]  out == e.args[s]  in == e.args[3 - s]  rest == RemoveAt(l, n)
<1>0. "array" \in Sorts /\ "array" \in Sorts \ {"formula"} /\ 3 - s \in 1 .. 2 /\ n \in DOMAIN l
  BY DEF Sorts
<1>1. PICK p \in Sorts \ {"formula"} : e.args[1] \in TermsOver(T, S, p) /\ e.args[2] \in TermsOver(T, S, p)
  BY EquationOver
<1>2. \A t \in 1 .. 2 : e.args[t] \in TermsOver(T, S, p)
  BY <1>1
<1>3. p = "array" /\ ~ isStore(out) /\ is_array(out)
  BY <1>2, NamedArray
<1>4. out \in TermsOver(T, S, "array") /\ in \in TermsOver(T, S, "array") /\ out.name \in Arrays
  BY <1>0, <1>2, <1>3
<1>5. SpeaksOfArrays(e)
  BY <1>3 DEF SpeaksOfArrays
<1>6. PICK rank \in [Arrays -> Int], side \in [DOMAIN l -> 1 .. 2] : DefinedBy(l, rank, side)
  BY DEF DefinedOnce
<1>7. PICK side2 \in [DOMAIN rest -> 1 .. 2] :
         /\ DefinedBy(rest, rank, side2)
         /\ \A k \in DOMAIN rest : SpeaksOfArrays(rest[k]) =>
              rest[k].args[side2[k]].name # e.args[side[n]].name
  <2>1. \E side2 \in [DOMAIN RemoveAt(l, n) -> 1 .. 2] :
           /\ DefinedBy(RemoveAt(l, n), rank, side2)
           /\ SpeaksOfArrays(l[n]) =>
                \A k \in DOMAIN RemoveAt(l, n) : SpeaksOfArrays(RemoveAt(l, n)[k]) =>
                  RemoveAt(l, n)[k].args[side2[k]].name # l[n].args[side[n]].name
    <3> HIDE DEF rest, e, out, in
    <3>1. PICK F : F = FormulasOver(T, S)
      OBVIOUS
    <3>2. l \in Seq(F) /\ n \in 1 .. Len(l) /\ side \in [DOMAIN l -> 1 .. 2] /\ DefinedBy(l, rank, side)
      BY <1>6, <3>1
    <3> HIDE <1>6
    <3> QED
      BY <3>2, ErasedDefined
  <2> QED
    BY <1>5, <2>1, Zenon
<1>8. rest \in Seq(FormulasOver(T, S))
  BY Erased
<1>9. r = inplace_substitute(rest, out, in)
  OBVIOUS
<1>10. /\ side[n] \in 1 .. 2 /\ e.args[side[n]].name \in Arrays
       /\ \A b \in Names(e.args[3 - side[n]]) \cap Arrays : rank[b] < rank[e.args[side[n]].name]
  BY <1>0, <1>5, <1>6 DEF DefinedBy
<1>11. DefinedOnce(r)
  <2>0. \A x \in {out, in} :
          /\ x.name \in Arrays
          /\ \A k \in DOMAIN rest : SpeaksOfArrays(rest[k]) => rest[k].args[side2[k]].name # x.name
          /\ x = out => \A b \in Names(in) \cap Arrays : rank[b] < rank[out.name]
          /\ x # out => rank[out.name] < rank[in.name]
          => DefinedOnce(inplace_substitute(rest, out, in))
    <3> HIDE DEF out, in, rest, e
    <3>1. rank \in [Arrays -> Int] /\ side2 \in [DOMAIN rest -> 1 .. 2] /\ DefinedBy(rest, rank, side2)
      BY <1>6, <1>7
    <3> QED
      BY <1>4, <1>8, <3>1, ReplacedDefined
  <2>1. CASE side[n] = s
    <3>1. \A b \in Names(in) \cap Arrays : rank[b] < rank[out.name]
      BY <1>10, <2>1
    <3>2. \A k \in DOMAIN rest : SpeaksOfArrays(rest[k]) => rest[k].args[side2[k]].name # out.name
      BY <1>7, <2>1
    <3> HIDE DEF out, in, rest, e
    <3> QED
      BY <1>4, <1>9, <2>0, <3>1, <3>2
  <2>2. CASE side[n] # s
    <3>1. side[n] = 3 - s /\ 3 - side[n] = s
      BY <1>10, <2>2
    <3>2. in.name \in Arrays /\ rank[out.name] < rank[in.name]
      <4>1. in.name \in Arrays /\ \A b \in Names(out) \cap Arrays : rank[b] < rank[in.name]
        BY <1>10, <3>1
      <4>2. out.name \in Names(out)
        <5>1. PICK a \in TermsOver(T, S, "array") : a = out
          BY <1>4
        <5>2. Names(a) = {a.name}
          BY <1>0, <1>4, <5>1, NamedArray
        <5> QED
          BY <5>1, <5>2
      <4> QED
        BY <1>4, <4>1, <4>2
    <3>3. \A k \in DOMAIN rest : SpeaksOfArrays(rest[k]) => rest[k].args[side2[k]].name # in.name
      BY <1>7, <3>1
    <3>4. in # out
      <4>1. rank[out.name] \in Int
        BY <1>4, <1>6
      <4> QED
        BY <3>2, <4>1
    <3> HIDE DEF out, in, rest, e
    <3> QED
      BY <1>9, <2>0, <3>2, <3>3, <3>4
  <2> QED
    BY <2>1, <2>2
<1>12. ASSUME StoresOnly(l) PROVE StoresOnly(r)
  <2>1. StoresOnly(rest)
    BY <1>12, ErasedFrom DEF StoresOnly
  <2>2. ~ isStore(out)
    BY <1>3
  <2> HIDE DEF out, in, rest, e
  <2>3. StoresOnly(inplace_substitute(rest, out, in))
    BY <1>4, <1>8, <2>1, <2>2, StoresReplaced
  <2> QED
    BY <1>9, <2>3
<1> QED
  BY <1>11, <1>12

(* Lists without equations of arrays. *)
LEMMA NoneErased ==
  ASSUME NEW F, NEW l \in Seq(F), NEW n \in 1 .. Len(l), NoArrayEquation(l)
  PROVE  NoArrayEquation(RemoveAt(l, n))
<1>1. RemoveAt(l, n) \in Seq(F) /\ Len(RemoveAt(l, n)) = Len(l) - 1
  BY Erased
<1>2. \A k \in 1 .. Len(l) - 1 : RemoveAt(l, n)[k] = IF k < n THEN l[k] ELSE l[k + 1]
  BY Erased
<1>3. \A k \in 1 .. Len(l) - 1 : k \in DOMAIN l /\ k + 1 \in DOMAIN l
  OBVIOUS
<1>4. DOMAIN RemoveAt(l, n) = 1 .. Len(l) - 1
  BY <1>1
<1> QED
  BY <1>2, <1>3, <1>4 DEF NoArrayEquation

LEMMA NoneReplaced ==
  ASSUME NEW T, Z3Contract(T), NEW S \in SUBSET Symbols, NEW l \in Seq(FormulasOver(T, S)),
         NEW n \in 1 .. Len(l), isEQ(l[n]), NEW s \in 1 .. 2, NoArrayEquation(l),
         NEW r, r = inplace_substitute(RemoveAt(l, n), l[n].args[s], l[n].args[3 - s])
  PROVE  NoArrayEquation(r)
<1> DEFINE e == l[n]  rest == RemoveAt(l, n)
<1>1. PICK p \in Sorts \ {"formula"} : e.args[1] \in TermsOver(T, S, p) /\ e.args[2] \in TermsOver(T, S, p)
  BY EquationOver
<1>2. e.args[s] \in TermsOver(T, S, p) /\ e.args[3 - s] \in TermsOver(T, S, p)
  BY <1>1
<1>3. rest \in Seq(FormulasOver(T, S)) /\ NoArrayEquation(rest)
  BY Erased, NoneErased
<1>4. DOMAIN r = DOMAIN rest /\ \A k \in DOMAIN rest : r[k] = substitute(rest[k], e.args[s], e.args[3 - s])
  BY DEF inplace_substitute
<1> HIDE DEF rest, e
<1>5. ASSUME NEW k \in DOMAIN rest PROVE ~ SpeaksOfArrays(r[k])
  <2>1. rest[k] \in FormulasOver(T, S) /\ ~ SpeaksOfArrays(rest[k])
    BY <1>3 DEF NoArrayEquation
  <2> QED
    BY <1>2, <1>4, <2>1, SidesReplaced
<1> QED
  BY <1>4, <1>5 DEF NoArrayEquation

LEMMA NoneJoined ==
  ASSUME NEW F, NEW l \in Seq(F), NEW r \in Seq(F), NoArrayEquation(l), NoArrayEquation(r)
  PROVE  NoArrayEquation(l \o r)
<1> SUFFICES ASSUME NEW k \in 1 .. Len(l) + Len(r) PROVE ~ SpeaksOfArrays((l \o r)[k])
  BY DEF NoArrayEquation
<1>1. CASE k \in 1 .. Len(l)
  BY <1>1 DEF NoArrayEquation
<1>2. CASE k \notin 1 .. Len(l)
  <2>1. (l \o r)[k] = r[k - Len(l)] /\ k - Len(l) \in DOMAIN r
    BY <1>2
  <2> QED
    BY <2>1 DEF NoArrayEquation
<1> QED
  BY <1>1, <1>2

LEMMA NoneAppended ==
  ASSUME NEW F, NEW l \in Seq(F), NEW f \in F, NoArrayEquation(l), ~ SpeaksOfArrays(f)
  PROVE  NoArrayEquation(Append(l, f))
<1> SUFFICES ASSUME NEW k \in 1 .. Len(l) + 1 PROVE ~ SpeaksOfArrays(Append(l, f)[k])
  BY DEF NoArrayEquation
<1>1. CASE k = Len(l) + 1
  BY <1>1
<1>2. CASE k \in 1 .. Len(l)
  BY <1>2 DEF NoArrayEquation
<1> QED
  BY <1>1, <1>2

-----------------------------------------------------------------------------
(* The store pass has visited the conjuncts before the iterator, unless its *)
(* sweep has erased one and skipped the next: the sweep is then repeated.   *)
EliminationInv ==
  /\ stage = "array" => DefinedOnce(list)
  /\ stage = "store" =>
       /\ DefinedOnce(list) /\ StoresOnly(list)
       /\ size = Len(list) => \A k \in 1 .. it - 1 : ~ SpeaksOfArrays(list[k])
  /\ stage \notin {"array", "store"} => NoArrayEquation(list)
  /\ NoArrayEquation(new_list)

LEMMA BothAreArrays ==
  ASSUME NEW T, Z3Contract(T), NEW S \in SUBSET Symbols, NEW f \in FormulasOver(T, S), SpeaksOfArrays(f)
  PROVE  \A s \in 1 .. 2 : f.args[s] \in TermsOver(T, S, "array") /\ is_array(f.args[s])
<1>1. PICK p \in Sorts \ {"formula"} :
         f.args[1] \in TermsOver(T, S, p) /\ f.args[2] \in TermsOver(T, S, p)
  BY EquationOver DEF SpeaksOfArrays
<1>2. \A s \in 1 .. 2 : f.args[s] \in TermsOver(T, S, p)
  BY <1>1
<1>3. p = "array"
  BY <1>2, NamedArray DEF SpeaksOfArrays
<1> QED
  BY <1>2, <1>3, NamedArray

LEMMA DefinedInitially ==
  ASSUME Init
  PROVE  EliminationInv
<1>1. from \in Inputs /\ list = extract_expr(from) /\ stage = "array" /\ new_list = <<>>
  BY DEF Init
<1>2. PICK rank \in [Arrays -> 0 .. Cardinality(Arrays)], side \in [DOMAIN list -> 1 .. 2] :
         DefinedBy(list, rank, side)
  BY <1>1, DefinitionsAssumption
<1>3. rank \in [Arrays -> Int]
  BY <1>2
<1>4. DefinedOnce(list)
  BY <1>2, <1>3 DEF DefinedOnce
<1>5. NoArrayEquation(new_list)
  BY <1>1 DEF NoArrayEquation
<1> QED
  BY <1>1, <1>4, <1>5 DEF EliminationInv

(* An equation of an array with a store that is not found to define one     *)
(* does not exist.                                                          *)
LEMMA DefinitionFound ==
  ASSUME NEW T, Z3Contract(T), NEW S \in SUBSET Symbols, NEW l \in Seq(FormulasOver(T, S)),
         DefinedOnce(l), StoresOnly(l), NEW k \in 1 .. Len(l), SpeaksOfArrays(l[k])
  PROVE  Definition(l[k]) # {}
<1> DEFINE e == l[k]
<1>1. k \in DOMAIN l /\ e \in FormulasOver(T, S)
  OBVIOUS
<1>2. PICK rank \in [Arrays -> Int], side \in [DOMAIN l -> 1 .. 2] : DefinedBy(l, rank, side)
  BY DEF DefinedOnce
<1>3. side[k] \in 1 .. 2 /\ e.args[side[k]].name \in Arrays
  BY <1>1, <1>2 DEF DefinedBy
<1>4. PICK t \in 1 .. 2 : isStore(e.args[t])
  BY <1>1 DEF StoresOnly
<1> HIDE DEF e
<1>5. \A s \in 1 .. 2 : e.args[s] \in TermsOver(T, S, "array") /\ is_array(e.args[s])
  BY <1>1, BothAreArrays DEF e
<1>6. ~ isStore(e.args[side[k]])
  <2>1. "array" \in Sorts
    BY DEF Sorts
  <2> QED
    BY <1>3, <1>5, <2>1, NamedArray
<1>7. 3 - side[k] = t
  <2>1. side[k] # t
    BY <1>4, <1>6
  <2> QED
    BY <1>3, <1>4, <2>1
<1>8. isEQ(e)
  BY DEF SpeaksOfArrays, e
<1>9. <<e.args[side[k]], e.args[3 - side[k]]>> \in Definition(e)
  BY <1>3, <1>4, <1>5, <1>6, <1>7, <1>8 DEF Definition
<1> QED
  BY <1>9 DEF e

LEMMA ArrayEqEliminates ==
  ASSUME NEW T, Z3Contract(T), NEW S \in SUBSET Symbols, WellFormed(T, S), EliminationInv,
         propogate_array_eq
  PROVE  EliminationInv'
<1>0. /\ stage = "array" /\ list \in Seq(FormulasOver(T, S)) /\ DefinedOnce(list)
      /\ NoArrayEquation(new_list) /\ stage \in ToSet(Stages)
  BY DEF propogate_array_eq, WellFormed, EliminationInv
<1>1. CASE ArrayEquations = {}
  <2>1. /\ list' = list /\ it' = 1 /\ new_list' = <<>>
    BY <1>1 DEF propogate_array_eq, NextStage
  <2>2. stage' = "store"
    <3>1. Rank = 1 /\ stage' = Stages[1 + Rank]
      BY <1>0, <1>1, RankOfStage, NextStageRank DEF propogate_array_eq
    <3> QED
      BY <3>1, StagesInOrder
  <2>3. ASSUME NEW n \in DOMAIN list, SpeaksOfArrays(list[n])
        PROVE  \E s \in 1 .. 2 : isStore(list[n].args[s])
    <3>1. list[n] \in FormulasOver(T, S)
      BY <1>0
    <3>2. \A s \in 1 .. 2 : is_array(list[n].args[s])
      BY <2>3, <3>1, BothAreArrays
    <3> QED
      BY <1>1, <2>3, <3>2 DEF ArrayEquations, SpeaksOfArrays
  <2>4. StoresOnly(list)
    BY <2>3 DEF StoresOnly
  <2>5. NoArrayEquation(new_list')
    BY <2>1 DEF NoArrayEquation
  <2> QED
    BY <1>0, <2>1, <2>2, <2>4, <2>5 DEF EliminationInv
<1>2. CASE ArrayEquations # {}
  <2> DEFINE n == First(ArrayEquations)
  <2>1. n \in ArrayEquations
    <3>1. ArrayEquations \in SUBSET Nat
      BY <1>0 DEF ArrayEquations
    <3> QED
      BY <1>2, <3>1, FirstIsLeast
  <2>2. /\ list' = inplace_substitute(Erase(n), list[n].args[1], list[n].args[2])
        /\ UNCHANGED <<stage, new_list>>
    BY <1>2 DEF propogate_array_eq, passVars
  <2> HIDE DEF n
  <2>3. /\ n \in 1 .. Len(list) /\ isEQ(list[n])
        /\ \A s \in 1 .. 2 : is_array(list[n].args[s]) /\ ~ isStore(list[n].args[s])
    BY <1>0, <2>1 DEF ArrayEquations
  <2>4. list[n].args[1].name \in Arrays
    BY <2>3 DEF is_array
  <2>5. list' = inplace_substitute(RemoveAt(list, n), list[n].args[1], list[n].args[3 - 1])
    BY <2>2 DEF Erase
  <2>6. DefinedOnce(list')
    <3>1. 1 \in 1 .. 2
      OBVIOUS
    <3> QED
      BY <1>0, <2>3, <2>4, <2>5, <3>1, EquationReplaced
  <2> QED
    BY <1>0, <2>2, <2>6 DEF EliminationInv
<1> QED
  BY <1>1, <1>2

LEMMA StoreEliminates ==
  ASSUME NEW T, Z3Contract(T), NEW S \in SUBSET Symbols, WellFormed(T, S), EliminationInv,
         StoreSkip \/ StoreRead \/ StoreUnread \/ StoreSwept
  PROVE  EliminationInv'
<1>0. /\ stage = "store" /\ list \in Seq(FormulasOver(T, S)) /\ Len(list) \in Nat
      /\ it \in 1 .. Len(list) + 1 /\ size \in Nat /\ size >= Len(list)
      /\ DefinedOnce(list) /\ StoresOnly(list)
      /\ size = Len(list) => \A k \in 1 .. it - 1 : ~ SpeaksOfArrays(list[k])
      /\ NoArrayEquation(new_list) /\ stage \in ToSet(Stages)
  BY DEF StoreSkip, StoreRead, StoreUnread, StoreSwept, WellFormed, EliminationInv
<1>1. CASE StoreSkip
  <2>1. /\ it \in 1 .. Len(list) /\ it' = it + 1 /\ Definition(list[it]) = {}
        /\ UNCHANGED <<list, stage, size, new_list>>
    BY <1>0, <1>1 DEF StoreSkip
  <2>2. ~ SpeaksOfArrays(list[it])
    BY <1>0, <2>1, DefinitionFound
  <2>3. size = Len(list) => \A k \in 1 .. it' - 1 : ~ SpeaksOfArrays(list[k])
    BY <1>0, <2>1, <2>2
  <2> QED
    BY <1>0, <2>1, <2>3 DEF EliminationInv
<1>2. CASE StoreRead
  <2>1. it \in 1 .. Len(list) /\ it' = 1 /\ UNCHANGED <<stage, new_list>>
    BY <1>0, <1>2 DEF StoreRead
  <2>2. PICK d \in Definition(list[it]) : list' = inplace_substitute(Erase(it), d[1], d[2])
    BY <1>2 DEF StoreRead
  <2>3. PICK s \in 1 .. 2 : /\ d = <<list[it].args[s], list[it].args[3 - s]>>
                            /\ isEQ(list[it]) /\ is_array(list[it].args[s]) /\ ~ isStore(list[it].args[s])
    BY DEF Definition
  <2>4. list' = inplace_substitute(RemoveAt(list, it), list[it].args[s], list[it].args[3 - s])
    BY <2>2, <2>3 DEF Erase
  <2>5. list[it].args[s].name \in Arrays
    BY <2>3 DEF is_array
  <2>6. DefinedOnce(list') /\ StoresOnly(list')
    BY <1>0, <2>1, <2>3, <2>4, <2>5, EquationReplaced
  <2> QED
    BY <1>0, <2>1, <2>6 DEF EliminationInv
<1>3. CASE StoreUnread
  <2>1. /\ it \in 1 .. Len(list) /\ list' = RemoveAt(list, it)
        /\ UNCHANGED <<stage, size, new_list>>
    BY <1>0, <1>3 DEF StoreUnread, Erase
  <2>2. size # Len(list')
    <3>1. Len(list') = Len(list) - 1
      BY <1>0, <2>1, Erased
    <3> QED
      BY <1>0, <3>1
  <2>3. DefinedOnce(list')
    <3>1. PICK rank \in [Arrays -> Int], side \in [DOMAIN list -> 1 .. 2] : DefinedBy(list, rank, side)
      BY <1>0 DEF DefinedOnce
    <3>2. \E side2 \in [DOMAIN RemoveAt(list, it) -> 1 .. 2] :
            DefinedBy(RemoveAt(list, it), rank, side2)
      BY <1>0, <2>1, <3>1, ErasedDefined
    <3> QED
      BY <2>1, <3>1, <3>2 DEF DefinedOnce
  <2>4. StoresOnly(list')
    <3>1. \A k \in DOMAIN RemoveAt(list, it) : \E j \in DOMAIN list : RemoveAt(list, it)[k] = list[j]
      BY <1>0, <2>1, ErasedFrom
    <3> QED
      BY <1>0, <2>1, <3>1 DEF StoresOnly
  <2> QED
    BY <1>0, <2>1, <2>2, <2>3, <2>4 DEF EliminationInv
<1>4. CASE StoreSwept
  <2>1. CASE size = Len(list)
    <3>1. list' = list /\ new_list' = <<>>
      BY <1>4, <2>1 DEF StoreSwept, NextStage
    <3>2. stage' = "nest"
      <4>1. Rank = 2 /\ stage' = Stages[1 + Rank]
        BY <1>0, <1>4, <2>1, RankOfStage, NextStageRank DEF StoreSwept
      <4> QED
        BY <4>1, StagesInOrder
    <3>3. it - 1 = Len(list)
      BY <1>0, <1>4 DEF StoreSwept, AtEnd
    <3>4. NoArrayEquation(list)
      BY <1>0, <2>1, <3>3 DEF NoArrayEquation
    <3>5. NoArrayEquation(new_list')
      BY <3>1 DEF NoArrayEquation
    <3> QED
      BY <3>1, <3>2, <3>4, <3>5 DEF EliminationInv
  <2>2. CASE size # Len(list)
    <3>1. it' = 1 /\ UNCHANGED <<list, stage, new_list>>
      BY <1>4, <2>2 DEF StoreSwept
    <3> QED
      BY <1>0, <3>1 DEF EliminationInv
  <2> QED
    BY <2>1, <2>2
<1> QED
  BY <1>1, <1>2, <1>3, <1>4

(* The later passes put no equation of arrays into a list without one. *)
LEMMA OthersEliminate ==
  ASSUME NEW T, Z3Contract(T), NEW S \in SUBSET Symbols, WellFormed(T, S), EliminationInv,
         simplify_select_store_nest \/ propogate_select_eq \/ simplify_select_eq \/ SingleSweepEnds
  PROVE  EliminationInv'
<1>0. /\ stage \in {"nest", "select", "sum"} /\ list \in Seq(FormulasOver(T, S)) /\ Len(list) \in Nat
      /\ it \in 1 .. Len(list) + 1 /\ stage \in ToSet(Stages)
      /\ new_list \in Seq(FormulasOver(T, S))
      /\ NoArrayEquation(list) /\ NoArrayEquation(new_list)
  BY DEF simplify_select_store_nest, propogate_select_eq, simplify_select_eq, SingleSweepEnds,
         WellFormed, EliminationInv
<1>1. ASSUME stage' \notin {"array", "store"}, NoArrayEquation(list'), NoArrayEquation(new_list')
      PROVE  EliminationInv'
  BY <1>1 DEF EliminationInv
<1>2. ASSUME stage' = stage, list' = RemoveAt(list, it), it <= Len(list),
             NEW g \in FormulasOver(T, S), ~ SpeaksOfArrays(g), new_list' = Append(new_list, g)
      PROVE  EliminationInv'
  <2>1. it \in 1 .. Len(list)
    BY <1>0, <1>2
  <2>2. NoArrayEquation(list')
    BY <1>0, <1>2, <2>1, NoneErased
  <2>3. NoArrayEquation(new_list')
    BY <1>0, <1>2, NoneAppended
  <2> QED
    BY <1>0, <1>1, <1>2, <2>2, <2>3
<1>3. ASSUME NEW l \in Seq(FormulasOver(T, S)), NoArrayEquation(l), NextStage(l)
      PROVE  EliminationInv'
  <2>1. list' = l /\ new_list' = <<>>
    BY <1>3 DEF NextStage
  <2>2. stage' \notin {"array", "store"}
    <3>1. Rank \in 3 .. 5 /\ stage' = Stages[1 + Rank]
      BY <1>0, <1>3, RankOfStage, NextStageRank
    <3>2. 1 + Rank \in {4, 5, 6}
      BY <3>1
    <3> QED
      BY <3>1, <3>2, StagesInOrder
  <2>3. NoArrayEquation(new_list')
    BY <2>1 DEF NoArrayEquation
  <2> QED
    BY <1>1, <1>3, <2>1, <2>2, <2>3
<1>4. CASE simplify_select_store_nest
  <2>1. CASE UNCHANGED <<stage, list, new_list>>
    BY <1>0, <1>1, <2>1
  <2>2. CASE ~ UNCHANGED <<stage, list, new_list>>
    <3>1. /\ Nested(list[it]) /\ it <= Len(list) /\ list' = RemoveAt(list, it) /\ stage' = stage
          /\ new_list' = Append(new_list, OnTheValue(list[it]))
      BY <1>4, <2>2 DEF simplify_select_store_nest, Erase
    <3>2. list[it] \in FormulasOver(T, S)
      BY <1>0, <3>1
    <3>3. OnTheValue(list[it]) \in FormulasOver(T, S) /\ ~ SpeaksOfArrays(OnTheValue(list[it]))
      BY <3>1, <3>2, NestedHolds
    <3> QED
      BY <1>2, <3>1, <3>3
  <2> QED
    BY <2>1, <2>2
<1>5. CASE propogate_select_eq
  <2>1. CASE ElementEquations = {}
    <3>1. NextStage(list)
      BY <1>5, <2>1 DEF propogate_select_eq
    <3> QED
      BY <1>0, <1>3, <3>1
  <2>2. CASE ElementEquations # {}
    <3> DEFINE n == First(ElementEquations)  s == Element(list[n])
    <3>1. n \in ElementEquations
      <4>1. ElementEquations \in SUBSET Nat
        BY <1>0 DEF ElementEquations
      <4> QED
        BY <2>2, <4>1, FirstIsLeast
    <3>2. s \in 1 .. 2
      BY DEF Element
    <3>3. /\ list' = inplace_substitute(Erase(n), list[n].args[s], list[n].args[3 - s])
          /\ UNCHANGED <<stage, new_list>>
      BY <1>5, <2>2 DEF propogate_select_eq, passVars
    <3> HIDE DEF n, s
    <3>4. n \in 1 .. Len(list) /\ isEQ(list[n])
      BY <1>0, <3>1 DEF ElementEquations
    <3>5. list' = inplace_substitute(RemoveAt(list, n), list[n].args[s], list[n].args[3 - s])
      BY <3>3 DEF Erase
    <3>6. NoArrayEquation(list')
      BY <1>0, <3>2, <3>4, <3>5, NoneReplaced
    <3> QED
      BY <1>0, <1>1, <3>3, <3>6
  <2> QED
    BY <2>1, <2>2
<1>6. CASE simplify_select_eq
  <2>1. CASE UNCHANGED <<stage, list, new_list>>
    BY <1>0, <1>1, <2>1
  <2>2. CASE ~ UNCHANGED <<stage, list, new_list>>
    <3> DEFINE e == list[it]  s == First(Sums(e))
    <3>1. /\ Sums(e) # {} /\ it <= Len(list) /\ list' = RemoveAt(list, it) /\ stage' = stage
          /\ new_list' = Append(new_list, simplify(Solved(e, s)))
      BY <1>6, <2>2 DEF simplify_select_eq, Erase
    <3>2. e \in FormulasOver(T, S)
      BY <1>0, <3>1
    <3>3. s \in Sums(e)
      <4>1. Sums(e) \in SUBSET Nat
        BY DEF Sums
      <4> QED
        BY <3>1, <4>1, FirstIsLeast
    <3> HIDE DEF e, s
    <3>4. simplify(Solved(e, s)) \in FormulasOver(T, S) /\ ~ SpeaksOfArrays(simplify(Solved(e, s)))
      BY <3>2, <3>3, SolvedHolds
    <3> QED
      BY <1>2, <3>1, <3>4
  <2> QED
    BY <2>1, <2>2
<1>7. CASE SingleSweepEnds
  <2>1. NextStage(list \o new_list)
    BY <1>7 DEF SingleSweepEnds
  <2>2. list \o new_list \in Seq(FormulasOver(T, S)) /\ NoArrayEquation(list \o new_list)
    BY <1>0, JoinedOver, NoneJoined
  <2> QED
    BY <1>3, <2>1, <2>2
<1> QED
  BY <1>4, <1>5, <1>6, <1>7

LEMMA EliminationInvariant ==
  ASSUME NEW T, Z3Contract(T), InputsOver(T)
  PROVE  Spec => []EliminationInv
<1>1. Init => EliminationInv
  BY DefinedInitially
<1>2. ListInv(T) /\ EliminationInv /\ [Next \/ Done]_vars => EliminationInv'
  <2> SUFFICES ASSUME ListInv(T), EliminationInv, [Next \/ Done]_vars PROVE EliminationInv'
    OBVIOUS
  <2>1. PICK S : S = SymbolsOf(Constraints)
    OBVIOUS
  <2>2. WellFormed(T, S) /\ S \in SUBSET Symbols
    BY <2>1, SymbolsAreSymbols DEF ListInv, WellFormed
  <2>3. CASE Next
    BY <2>2, <2>3, ArrayEqEliminates, StoreEliminates, OthersEliminate DEF Next
  <2>4. CASE UNCHANGED vars
    BY <2>4 DEF EliminationInv, vars, passVars
  <2> QED
    BY <2>3, <2>4 DEF Done
<1> QED
  BY <1>1, <1>2, ListInvariant, PTL DEF Spec

(* No equation of whole arrays is handed to verify_post, where N is shifted *)
(* in the elements only.                                                    *)
THEOREM NoArrayIsLeft ==
  ASSUME NEW T, Z3Contract(T), InputsOver(T)
  PROVE  Spec => []ArraysAreEliminated
<1>1. EliminationInv => ArraysAreEliminated
  BY DEF EliminationInv, NoArrayEquation, ArraysAreEliminated, SpeaksOfArrays
<1> QED
  BY <1>1, EliminationInvariant, PTL

-----------------------------------------------------------------------------
(***************************************************************************)
(* Nothing is lost: from a valuation of what is left one of the            *)
(* constraints can be made, an array being given the value it was defined  *)
(* to have, or an element the value it was equal to.                       *)
(***************************************************************************)
LEMMA ValuationsAre ==
  ASSUME NEW S \in SUBSET Symbols, NEW m
  PROVE  m \in Valuations(S) <=>
           /\ m = [x \in S |-> m[x]]
           /\ \A x \in S \cap Arrays : m[x] \in [Positions -> Values]
           /\ \A x \in S \cap Numbers : m[x] \in Values
           /\ \A x \in S \cap Indices : m[x] \in Positions
<1>1. S = (S \cap Arrays) \cup (S \cap Numbers) \cup (S \cap Indices)
  BY DEF Symbols
<1>2. ASSUME m \in Valuations(S)
      PROVE  /\ m = [x \in S |-> m[x]]
             /\ \A x \in S \cap Arrays : m[x] \in [Positions -> Values]
             /\ \A x \in S \cap Numbers : m[x] \in Values
             /\ \A x \in S \cap Indices : m[x] \in Positions
  <2>1. PICK a \in [S \cap Arrays -> [Positions -> Values]], n \in [S \cap Numbers -> Values],
             i \in [S \cap Indices -> Positions] :
         m = Valuation(S, a, n, i)
    <3> DEFINE A == [S \cap Arrays -> [Positions -> Values]]
               N == [S \cap Numbers -> Values]
               I == [S \cap Indices -> Positions]
    <3>1. Valuations(S) = {Valuation(S, a, n, i) : a \in A, n \in N, i \in I}
      BY DEF Valuations
    <3> HIDE DEF A, N, I
    <3>2. \E a \in A, n \in N, i \in I : m = Valuation(S, a, n, i)
      BY <1>2, <3>1
    <3> QED
      BY <3>2 DEF A, N, I
  <2> QED
    BY <1>1, <2>1, NamesAssumption DEF Valuation
<1>3. ASSUME /\ m = [x \in S |-> m[x]]
             /\ \A x \in S \cap Arrays : m[x] \in [Positions -> Values]
             /\ \A x \in S \cap Numbers : m[x] \in Values
             /\ \A x \in S \cap Indices : m[x] \in Positions
      PROVE  m \in Valuations(S)
  <2> DEFINE a == [x \in S \cap Arrays |-> m[x]]
             n == [x \in S \cap Numbers |-> m[x]]
             i == [x \in S \cap Indices |-> m[x]]
  <2>1. /\ a \in [S \cap Arrays -> [Positions -> Values]] /\ n \in [S \cap Numbers -> Values]
        /\ i \in [S \cap Indices -> Positions]
    BY <1>3
  <2>2. \A x \in S : m[x] = IF x \in Arrays THEN a[x] ELSE IF x \in Numbers THEN n[x] ELSE i[x]
    BY <1>1
  <2>3. m = Valuation(S, a, n, i)
    BY <1>3, <2>2 DEF Valuation
  <2> HIDE DEF a, n, i
  <2> QED
    BY <2>1, <2>3 DEF Valuations
<1> QED
  BY <1>2, <1>3

(* Terms do not tell apart two valuations that agree on their symbols. *)
LEMMA Coincidence ==
  ASSUME NEW T, Z3Contract(T), NEW S1 \in SUBSET Symbols, NEW S2 \in SUBSET Symbols,
         NEW m1 \in Valuations(S1), NEW m2 \in Valuations(S2),
         NEW s \in Sorts, NEW t \in T[s], Names(t) \subseteq S1, Names(t) \subseteq S2,
         \A x \in Names(t) : m1[x] = m2[x]
  PROVE  Meaning(t, m1) = Meaning(t, m2)
<1>1. Meaning(t, [x \in Names(t) |-> m1[x]]) = Meaning(t, m1)
  BY DEF Z3Contract, Z3Local
<1>2. Meaning(t, [x \in Names(t) |-> m2[x]]) = Meaning(t, m2)
  BY DEF Z3Contract, Z3Local
<1>3. [x \in Names(t) |-> m1[x]] = [x \in Names(t) |-> m2[x]]
  OBVIOUS
<1> QED
  BY <1>1, <1>2, <1>3

LEMMA SymbolMeans ==
  ASSUME NEW T, Z3Contract(T), NEW S \in SUBSET Symbols, NEW m \in Valuations(S),
         NEW s \in Sorts, NEW t \in TermsOver(T, S, s), t.name # ""
  PROVE  Meaning(t, m) = m[t.name]
<1>1. t \in T[s] /\ Names(t) \subseteq S
  BY DEF TermsOver
<1> QED
  BY <1>1 DEF Z3Contract, Z3Local

(* One array of a valuation is changed. *)
LEMMA ArrayChanged ==
  ASSUME NEW T, Z3Contract(T), NEW S \in SUBSET Symbols, NEW m \in Valuations(S),
         NEW a \in S \cap Arrays, NEW w \in [Positions -> Values]
  PROVE  \E v \in Valuations(S) :
           /\ v[a] = w
           /\ \A s \in Sorts : \A t \in TermsOver(T, S, s) :
                a \notin Names(t) => Meaning(t, v) = Meaning(t, m)
<1> DEFINE v == [x \in S |-> IF x = a THEN w ELSE m[x]]
<1>1. /\ \A x \in S \cap Arrays : m[x] \in [Positions -> Values]
      /\ \A x \in S \cap Numbers : m[x] \in Values
      /\ \A x \in S \cap Indices : m[x] \in Positions
  BY ValuationsAre
<1>2. v \in Valuations(S)
  <2>1. /\ v = [x \in S |-> v[x]]
        /\ \A x \in S \cap Arrays : v[x] \in [Positions -> Values]
        /\ \A x \in S \cap Numbers : v[x] \in Values
        /\ \A x \in S \cap Indices : v[x] \in Positions
    BY <1>1, NamesAssumption
  <2> HIDE DEF v
  <2> QED
    BY <2>1, ValuationsAre
<1>3. v[a] = w /\ \A x \in S : x # a => v[x] = m[x]
  OBVIOUS
<1> HIDE DEF v
<1>4. ASSUME NEW s \in Sorts, NEW t \in TermsOver(T, S, s), a \notin Names(t)
      PROVE  Meaning(t, v) = Meaning(t, m)
  <2>1. t \in T[s] /\ Names(t) \subseteq S
    BY DEF TermsOver
  <2>2. \A x \in Names(t) : v[x] = m[x]
    BY <1>3, <1>4, <2>1
  <2> QED
    BY <1>2, <2>1, <2>2, Coincidence
<1> QED
  BY <1>2, <1>3, <1>4

-----------------------------------------------------------------------------
(***************************************************************************)
(* The rewriting backwards: what is left holds only if what was there can. *)
(***************************************************************************)
(* An equation whose one side is known to be the other is put back. *)
LEMMA ReplacedBack ==
  ASSUME NEW T, Z3Contract(T), NEW S \in SUBSET Symbols,
         NEW l \in Seq(FormulasOver(T, S)), NEW n \in 1 .. Len(l), isEQ(l[n]), NEW s \in 1 .. 2,
         NEW m \in Valuations(S), Meaning(l[n].args[s], m) = Meaning(l[n].args[3 - s], m),
         \/ Satisfies(m, inplace_substitute(RemoveAt(l, n), l[n].args[s], l[n].args[3 - s]))
         \/ Satisfies(m, RemoveAt(l, n))
  PROVE  Satisfies(m, l)
<1> DEFINE rest == RemoveAt(l, n)  e == l[n]  out == e.args[s]  in == e.args[3 - s]
<1>1. /\ rest \in Seq(FormulasOver(T, S)) /\ Len(rest) = Len(l) - 1
      /\ \A k \in 1 .. Len(l) - 1 : rest[k] = IF k < n THEN l[k] ELSE l[k + 1]
  BY Erased
<1>2. e \in FormulasOver(T, S) /\ isEQ(e) /\ Meaning(out, m) = Meaning(in, m)
  OBVIOUS
<1>3. Satisfies(m, inplace_substitute(rest, out, in)) \/ Satisfies(m, rest)
  OBVIOUS
<1>4. l \in Seq(FormulasOver(T, S)) /\ n \in 1 .. Len(l) /\ Len(l) \in Nat /\ DOMAIN l = 1 .. Len(l) /\ e = l[n]
  OBVIOUS
<1> HIDE DEF rest, e
<1>5. PICK q \in Sorts \ {"formula"} :
         e.args[1] \in TermsOver(T, S, q) /\ e.args[2] \in TermsOver(T, S, q)
  BY <1>2, EquationOver
<1>6. out \in TermsOver(T, S, q) /\ in \in TermsOver(T, S, q)
  BY <1>5
<1>7. Meaning(e, m)
  <2>1. Meaning(e, m) = (Meaning(e.args[1], m) = Meaning(e.args[2], m))
    BY <1>2, EquationOver
  <2>2. Meaning(e.args[1], m) = Meaning(e.args[2], m)
    BY <1>2
  <2> QED
    BY <2>1, <2>2
<1> HIDE DEF out, in
<1>8. ASSUME NEW k \in 1 .. Len(l) - 1 PROVE Meaning(rest[k], m)
  <2>1. k \in DOMAIN rest /\ rest[k] \in FormulasOver(T, S)
    BY <1>1
  <2>2. CASE Satisfies(m, rest)
    BY <2>1, <2>2 DEF Satisfies
  <2>3. CASE Satisfies(m, inplace_substitute(rest, out, in))
    <3>1. Meaning(substitute(rest[k], out, in), m)
      BY <2>1, <2>3 DEF Satisfies, inplace_substitute
    <3>2. Meaning(substitute(rest[k], out, in), m) = Meaning(rest[k], m)
      BY <1>2, <1>6, <2>1, SubstitutedOver
    <3> QED
      BY <3>1, <3>2
  <2> QED
    BY <1>3, <2>2, <2>3
<1>9. ASSUME NEW k \in 1 .. Len(l) PROVE Meaning(l[k], m)
  <2>1. CASE k = n
    BY <1>4, <1>7, <2>1
  <2>2. CASE k < n
    <3>1. k \in 1 .. Len(l) - 1 /\ rest[k] = l[k]
      BY <1>1, <1>4, <2>2
    <3> QED
      BY <1>8, <3>1
  <2>3. CASE k > n
    <3>1. k - 1 \in 1 .. Len(l) - 1 /\ ~ (k - 1 < n) /\ (k - 1) + 1 = k
      BY <1>4, <2>3
    <3>2. rest[k - 1] = l[(k - 1) + 1]
      BY <1>1, <3>1
    <3> QED
      BY <1>8, <3>1, <3>2
  <2> QED
    BY <1>4, <2>1, <2>2, <2>3
<1> QED
  BY <1>4, <1>9 DEF Satisfies

(* An array defined by terms it does not occur in, and nowhere else. *)
LEMMA DefinedBack ==
  ASSUME NEW T, Z3Contract(T), NEW S \in SUBSET Symbols,
         NEW l \in Seq(FormulasOver(T, S)), NEW n \in 1 .. Len(l), isEQ(l[n]), NEW s \in 1 .. 2,
         l[n].args[s].name \in Arrays, l[n].args[s].name \notin Names(l[n].args[3 - s]),
         NEW r \in {RemoveAt(l, n), inplace_substitute(RemoveAt(l, n), l[n].args[s], l[n].args[3 - s])},
         r \in Seq(FormulasOver(T, S)), l[n].args[s].name \notin SymbolsOf(r),
         NEW m \in Valuations(S), Satisfies(m, r)
  PROVE  \E v \in Valuations(S) : Satisfies(v, l)
<1> DEFINE e == l[n]  out == e.args[s]  in == e.args[3 - s]
<1>0. "array" \in Sorts /\ "formula" \in Sorts
  BY DEF Sorts
<1>1. e \in FormulasOver(T, S) /\ isEQ(e) /\ out.name \in Arrays /\ out.name \notin Names(in)
  OBVIOUS
<1> HIDE DEF e
<1>2. PICK q \in Sorts \ {"formula"} :
         e.args[1] \in TermsOver(T, S, q) /\ e.args[2] \in TermsOver(T, S, q)
  BY <1>1, EquationOver
<1>3. out \in TermsOver(T, S, q) /\ in \in TermsOver(T, S, q)
  BY <1>2
<1> HIDE DEF out, in
<1>4. q = "array" /\ Names(out) = {out.name} /\ out.name # ""
  BY <1>1, <1>3, NamedArray
<1>5. out.name \in S \cap Arrays
  BY <1>1, <1>3, <1>4 DEF TermsOver
<1>6. Meaning(in, m) \in [Positions -> Values]
  BY <1>3, <1>4, SoundOver
<1>7. PICK v \in Valuations(S) :
         /\ v[out.name] = Meaning(in, m)
         /\ \A p \in Sorts : \A t \in TermsOver(T, S, p) :
              out.name \notin Names(t) => Meaning(t, v) = Meaning(t, m)
  BY <1>5, <1>6, ArrayChanged
<1>8. Meaning(out, v) = v[out.name]
  <2>1. "array" \in Sorts /\ out \in TermsOver(T, S, "array") /\ out.name # ""
    BY <1>0, <1>3, <1>4
  <2>2. \A t \in TermsOver(T, S, "array") : t.name # "" => Meaning(t, v) = v[t.name]
    BY <2>1, SymbolMeans
  <2> QED
    BY <2>1, <2>2
<1>9. Meaning(in, v) = Meaning(in, m)
  BY <1>0, <1>1, <1>3, <1>4, <1>7
<1>10. Satisfies(v, r)
  <2>1. SUFFICES ASSUME NEW k \in DOMAIN r PROVE Meaning(r[k], v)
    BY DEF Satisfies
  <2>2. r[k] \in TermsOver(T, S, "formula")
    BY DEF FormulasOver
  <2>3. out.name \notin Names(r[k])
    BY DEF SymbolsOf, out, e
  <2>4. Meaning(r[k], m)
    BY DEF Satisfies
  <2> QED
    BY <1>0, <1>7, <2>2, <2>3, <2>4
<1>11. Meaning(l[n].args[s], v) = Meaning(l[n].args[3 - s], v)
  BY <1>7, <1>8, <1>9 DEF out, in, e
<1> QED
  BY <1>10, <1>11, ReplacedBack

(* In a list where no array is defined twice, none occurs in what it is     *)
(* equal to.                                                                *)
LEMMA NotInItself ==
  ASSUME NEW T, Z3Contract(T), NEW S \in SUBSET Symbols, NEW l \in Seq(FormulasOver(T, S)), DefinedOnce(l),
         NEW n \in 1 .. Len(l), isEQ(l[n]), NEW s \in 1 .. 2, l[n].args[s].name \in Arrays
  PROVE  l[n].args[s].name \notin Names(l[n].args[3 - s])
<1> DEFINE e == l[n]
<1>1. n \in DOMAIN l /\ e \in FormulasOver(T, S) /\ "array" \in Sorts /\ 3 - s \in 1 .. 2
  BY DEF Sorts
<1>2. SpeaksOfArrays(e)
  BY DEF SpeaksOfArrays, is_array
<1>3. PICK rank \in [Arrays -> Int], side \in [DOMAIN l -> 1 .. 2] : DefinedBy(l, rank, side)
  BY DEF DefinedOnce
<1>4. /\ e.args[side[n]].name \in Arrays /\ side[n] \in 1 .. 2
      /\ \A a \in Names(e.args[3 - side[n]]) \cap Arrays : rank[a] < rank[e.args[side[n]].name]
  BY <1>1, <1>2, <1>3 DEF DefinedBy
<1>5. e.args[s].name \in Arrays
  OBVIOUS
<1> HIDE DEF e
<1>6. \A r \in 1 .. 2 : e.args[r] \in TermsOver(T, S, "array")
  BY <1>1, <1>2, BothAreArrays
<1>7. rank[e.args[s].name] \in Int
  BY <1>5
<1>8. CASE side[n] = s
  BY <1>4, <1>5, <1>7, <1>8 DEF e
<1>9. CASE side[n] = 3 - s
  <2>1. 3 - side[n] = s
    BY <1>9
  <2>2. Names(e.args[s]) = {e.args[s].name} /\ Names(e.args[3 - s]) = {e.args[3 - s].name}
    BY <1>1, <1>4, <1>5, <1>6, <1>9, NamedArray
  <2>3. rank[e.args[s].name] < rank[e.args[3 - s].name]
    BY <1>4, <1>5, <1>9, <2>1, <2>2
  <2> QED
    BY <1>7, <2>2, <2>3 DEF e
<1> QED
  BY <1>4, <1>8, <1>9

(* An array that has been replaced by terms it does not occur in is gone. *)
LEMMA ReplacedIsGone ==
  ASSUME NEW T, Z3Contract(T), NEW S \in SUBSET Symbols, NEW q \in Seq(FormulasOver(T, S)),
         NEW r \in Sorts \ {"formula"}, NEW out \in TermsOver(T, S, r), NEW in \in TermsOver(T, S, r),
         out.name \in Arrays, out.name \notin Names(in)
  PROVE  out.name \notin SymbolsOf(inplace_substitute(q, out, in))
<1>1. ASSUME NEW k \in DOMAIN q PROVE out.name \notin Names(substitute(q[k], out, in))
  <2>1. q[k] \in TermsOver(T, S, "formula") /\ "formula" \in Sorts
    BY DEF FormulasOver, Sorts
  <2>2. Names(substitute(q[k], out, in)) \subseteq
          (Names(q[k]) \ {out.name}) \cup (IF out.name \in Names(q[k]) THEN Names(in) ELSE {})
    BY <2>1, NamesReplaced
  <2> QED
    BY <2>2
<1> QED
  BY <1>1 DEF SymbolsOf, inplace_substitute

(* The two passes over equations of arrays: the equation erased defined the *)
(* array it was replaced by.                                                *)
LEMMA EquationBack ==
  ASSUME NEW T, Z3Contract(T), NEW S \in SUBSET Symbols, NEW l \in Seq(FormulasOver(T, S)), DefinedOnce(l),
         NEW n \in 1 .. Len(l), isEQ(l[n]), NEW s \in 1 .. 2, l[n].args[s].name \in Arrays,
         NEW m \in Valuations(S),
         Satisfies(m, inplace_substitute(RemoveAt(l, n), l[n].args[s], l[n].args[3 - s]))
  PROVE  \E v \in Valuations(S) : Satisfies(v, l)
<1> DEFINE e == l[n]  r == inplace_substitute(RemoveAt(l, n), e.args[s], e.args[3 - s])
<1>1. e.args[s].name \notin Names(e.args[3 - s])
  BY NotInItself
<1>2. e \in FormulasOver(T, S) /\ isEQ(e) /\ e.args[s].name \in Arrays
  OBVIOUS
<1>3. r \in Seq(FormulasOver(T, S))
  <2>1. \A x : x = inplace_substitute(RemoveAt(l, n), l[n].args[s], l[n].args[3 - s])
                 => x \in Seq(FormulasOver(T, S))
    BY Replaced
  <2> QED
    BY <2>1
<1>4. e.args[s].name \notin SymbolsOf(r)
  <2> HIDE DEF e
  <2>1. PICK q \in Sorts \ {"formula"} :
           e.args[1] \in TermsOver(T, S, q) /\ e.args[2] \in TermsOver(T, S, q)
    BY <1>2, EquationOver
  <2>2. e.args[s] \in TermsOver(T, S, q) /\ e.args[3 - s] \in TermsOver(T, S, q)
    BY <2>1
  <2>3. RemoveAt(l, n) \in Seq(FormulasOver(T, S))
    BY Erased
  <2> QED
    BY <1>1, <1>2, <2>2, <2>3, ReplacedIsGone
<1>5. Satisfies(m, r)
  OBVIOUS
<1>6. \A x \in {RemoveAt(l, n), inplace_substitute(RemoveAt(l, n), l[n].args[s], l[n].args[3 - s])} :
        x \in Seq(FormulasOver(T, S)) /\ l[n].args[s].name \notin SymbolsOf(x) /\ Satisfies(m, x)
          => \E v \in Valuations(S) : Satisfies(v, l)
  BY <1>1, DefinedBack
<1> QED
  BY <1>3, <1>4, <1>5, <1>6

LEMMA ErasedBack ==
  ASSUME NEW T, Z3Contract(T), NEW S \in SUBSET Symbols, NEW l \in Seq(FormulasOver(T, S)), DefinedOnce(l),
         NEW n \in 1 .. Len(l), isEQ(l[n]), NEW s \in 1 .. 2, l[n].args[s].name \in Arrays,
         l[n].args[s].name \notin SymbolsOf(RemoveAt(l, n)),
         NEW m \in Valuations(S), Satisfies(m, RemoveAt(l, n))
  PROVE  \E v \in Valuations(S) : Satisfies(v, l)
<1>1. l[n].args[s].name \notin Names(l[n].args[3 - s])
  BY NotInItself
<1>2. RemoveAt(l, n) \in Seq(FormulasOver(T, S))
  BY Erased
<1>3. \A x \in {RemoveAt(l, n), inplace_substitute(RemoveAt(l, n), l[n].args[s], l[n].args[3 - s])} :
        x \in Seq(FormulasOver(T, S)) /\ l[n].args[s].name \notin SymbolsOf(x) /\ Satisfies(m, x)
          => \E v \in Valuations(S) : Satisfies(v, l)
  BY <1>1, DefinedBack
<1> QED
  BY <1>2, <1>3

(* The element of an array that occurs nowhere else is given the value it   *)
(* was replaced by.                                                         *)
LEMMA ElementBack ==
  ASSUME NEW T, Z3Contract(T), NEW S \in SUBSET Symbols, NEW l \in Seq(FormulasOver(T, S)),
         NEW n \in 1 .. Len(l), isEQ(l[n]), NEW s \in 1 .. 2, isSelect(l[n].args[s]),
         ~ isStore(l[n].args[s].args[1]),
         l[n].args[s].args[1].name \notin Names(l[n].args[3 - s]),
         l[n].args[s].args[1].name \notin Names(l[n].args[s].args[2]),
         l[n].args[s].args[1].name \notin
           SymbolsOf(inplace_substitute(RemoveAt(l, n), l[n].args[s], l[n].args[3 - s])),
         NEW m \in Valuations(S),
         Satisfies(m, inplace_substitute(RemoveAt(l, n), l[n].args[s], l[n].args[3 - s]))
  PROVE  \E v \in Valuations(S) : Satisfies(v, l)
<1> DEFINE e == l[n]  element == e.args[s]  value == e.args[3 - s]
           a == element.args[1]  i == element.args[2]
           r == inplace_substitute(RemoveAt(l, n), element, value)
<1>0. {"array", "index", "integer", "formula"} \subseteq Sorts
  BY DEF Sorts
<1>1. /\ e \in FormulasOver(T, S) /\ isEQ(e) /\ isSelect(element) /\ ~ isStore(a)
      /\ a.name \notin Names(value) /\ a.name \notin Names(i) /\ a.name \notin SymbolsOf(r)
      /\ Satisfies(m, r)
  OBVIOUS
<1>2. r \in Seq(FormulasOver(T, S))
  <2>1. \A x : x = inplace_substitute(RemoveAt(l, n), l[n].args[s], l[n].args[3 - s])
                 => x \in Seq(FormulasOver(T, S))
    BY Replaced
  <2> QED
    BY <2>1
<1> HIDE DEF e
<1>3. PICK q \in Sorts \ {"formula"} :
         e.args[1] \in TermsOver(T, S, q) /\ e.args[2] \in TermsOver(T, S, q)
  BY <1>1, EquationOver
<1>4. element \in TermsOver(T, S, q) /\ value \in TermsOver(T, S, q)
  BY <1>3
<1> HIDE DEF element, value, r
<1>5. /\ q = "integer" /\ element = select(a, i)
      /\ a \in TermsOver(T, S, "array") /\ i \in TermsOver(T, S, "index")
  BY <1>1, <1>4, SelectOver
<1> HIDE DEF a, i
<1>6. a.name \in Arrays /\ Names(a) = {a.name} /\ a.name # "" /\ a.name \in S
  <2>1. is_array(a)
    BY <1>0, <1>5, NamedArray
  <2>2. a.name \in Arrays
    BY <1>0, <1>1, <1>5, <2>1, NamedArray
  <2>3. Names(a) = {a.name} /\ a.name # ""
    BY <1>0, <1>5, <2>2, NamedArray
  <2> QED
    BY <1>5, <2>2, <2>3 DEF TermsOver
<1>7. /\ Meaning(a, m) \in [Positions -> Values] /\ Meaning(i, m) \in Positions
      /\ Meaning(value, m) \in Values
  BY <1>4, <1>5, SoundOver
<1>15. PICK w : w = [Meaning(a, m) EXCEPT ![Meaning(i, m)] = Meaning(value, m)]
  OBVIOUS
<1>16. w \in [Positions -> Values]
  BY <1>7, <1>15
<1>8. PICK v \in Valuations(S) :
         /\ v[a.name] = w
         /\ \A p \in Sorts : \A t \in TermsOver(T, S, p) :
              a.name \notin Names(t) => Meaning(t, v) = Meaning(t, m)
  <2>1. a.name \in S \cap Arrays
    BY <1>6
  <2> QED
    BY <1>16, <2>1, ArrayChanged
<1>9. Meaning(a, v) = v[a.name]
  <2>1. "array" \in Sorts /\ a \in TermsOver(T, S, "array") /\ a.name # ""
    BY <1>0, <1>5, <1>6
  <2>2. \A t \in TermsOver(T, S, "array") : t.name # "" => Meaning(t, v) = v[t.name]
    BY <2>1, SymbolMeans
  <2> QED
    BY <2>1, <2>2
<1>10. Meaning(i, v) = Meaning(i, m) /\ Meaning(value, v) = Meaning(value, m)
  BY <1>0, <1>1, <1>4, <1>5, <1>8
<1>11. Meaning(element, v) = Meaning(value, v)
  <2>1. \A x \in TermsOver(T, S, "array"), y \in TermsOver(T, S, "index"), z \in TermsOver(T, S, "integer") :
          Meaning(select(x, y), v) = Meaning(x, v)[Meaning(y, v)]
    BY SoundOver
  <2>2. Meaning(element, v) = Meaning(a, v)[Meaning(i, v)]
    BY <1>4, <1>5, <2>1
  <2>3. Meaning(a, v)[Meaning(i, m)] = Meaning(value, m)
    BY <1>7, <1>8, <1>9, <1>15
  <2> QED
    BY <1>10, <2>2, <2>3
<1>12. Satisfies(v, r)
  <2>1. SUFFICES ASSUME NEW k \in DOMAIN r PROVE Meaning(r[k], v)
    BY DEF Satisfies
  <2>2. r[k] \in TermsOver(T, S, "formula")
    BY <1>2 DEF FormulasOver
  <2>3. a.name \notin Names(r[k])
    BY <1>1 DEF SymbolsOf
  <2>4. Meaning(r[k], m)
    BY <1>1 DEF Satisfies
  <2> QED
    BY <1>0, <1>8, <2>2, <2>3, <2>4
<1>13. Satisfies(v, inplace_substitute(RemoveAt(l, n), l[n].args[s], l[n].args[3 - s]))
  BY <1>12 DEF r, element, value, e
<1>14. Meaning(l[n].args[s], v) = Meaning(l[n].args[3 - s], v)
  BY <1>11 DEF element, value, e
<1> QED
  BY <1>13, <1>14, ReplacedBack

LEMMA JoinedBack ==
  ASSUME NEW F, NEW l \in Seq(F), NEW r \in Seq(F), NEW m, Satisfies(m, l \o r)
  PROVE  Satisfies(m, l) /\ Satisfies(m, r)
<1>1. /\ Len(l) \in Nat /\ Len(r) \in Nat /\ DOMAIN l = 1 .. Len(l) /\ DOMAIN r = 1 .. Len(r)
      /\ DOMAIN (l \o r) = 1 .. Len(l) + Len(r)
  OBVIOUS
<1>2. \A k \in 1 .. Len(l) : (l \o r)[k] = l[k] /\ k \in 1 .. Len(l) + Len(r)
  BY <1>1
<1>3. \A k \in 1 .. Len(r) : (l \o r)[Len(l) + k] = r[k] /\ Len(l) + k \in 1 .. Len(l) + Len(r)
  BY <1>1
<1>4. \A k \in 1 .. Len(l) + Len(r) : Meaning((l \o r)[k], m)
  BY <1>1 DEF Satisfies
<1>5. \A k \in 1 .. Len(l) : Meaning(l[k], m)
  BY <1>2, <1>4
<1>6. \A k \in 1 .. Len(r) : Meaning(r[k], m)
  BY <1>3, <1>4
<1> QED
  BY <1>1, <1>5, <1>6 DEF Satisfies

(* What is said of an element of a sum, or of one just stored, is what was  *)
(* said before.                                                             *)
LEMMA RewrittenBack ==
  ASSUME NEW F, NEW l \in Seq(F), NEW new \in Seq(F), NEW n \in 1 .. Len(l), NEW g \in F, NEW m,
         Satisfies(m, RemoveAt(l, n)), Satisfies(m, Append(new, g)), Meaning(g, m) => Meaning(l[n], m)
  PROVE  Satisfies(m, l) /\ Satisfies(m, new)
<1>1. Satisfies(m, new) /\ Meaning(g, m)
  <2>1. DOMAIN Append(new, g) = 1 .. Len(new) + 1 /\ Append(new, g)[Len(new) + 1] = g
        /\ DOMAIN new = 1 .. Len(new) /\ Len(new) \in Nat
        /\ \A k \in 1 .. Len(new) : Append(new, g)[k] = new[k]
    OBVIOUS
  <2>2. \A k \in 1 .. Len(new) + 1 : Meaning(Append(new, g)[k], m)
    BY <2>1 DEF Satisfies
  <2>3. Meaning(g, m)
    <3>1. Len(new) + 1 \in 1 .. Len(new) + 1
      BY <2>1
    <3> QED
      BY <2>1, <2>2, <3>1
  <2>4. \A k \in 1 .. Len(new) : Meaning(new[k], m)
    BY <2>1, <2>2
  <2> QED
    BY <2>1, <2>3, <2>4 DEF Satisfies
<1>2. /\ RemoveAt(l, n) \in Seq(F) /\ Len(RemoveAt(l, n)) = Len(l) - 1
      /\ \A k \in 1 .. Len(l) - 1 : RemoveAt(l, n)[k] = IF k < n THEN l[k] ELSE l[k + 1]
  BY Erased
<1>3. \A k \in 1 .. Len(l) - 1 : Meaning(RemoveAt(l, n)[k], m)
  BY <1>2 DEF Satisfies
<1>4. ASSUME NEW k \in 1 .. Len(l) PROVE Meaning(l[k], m)
  <2>1. CASE k = n
    BY <1>1, <2>1
  <2>2. CASE k < n
    <3>1. k \in 1 .. Len(l) - 1 /\ RemoveAt(l, n)[k] = l[k]
      BY <1>2, <2>2
    <3> QED
      BY <1>3, <3>1
  <2>3. CASE k > n
    <3>1. k - 1 \in 1 .. Len(l) - 1 /\ ~ (k - 1 < n) /\ (k - 1) + 1 = k
      BY <2>3
    <3>2. RemoveAt(l, n)[k - 1] = l[(k - 1) + 1]
      BY <1>2, <3>1
    <3> QED
      BY <1>3, <3>1, <3>2
  <2> QED
    BY <2>1, <2>2, <2>3
<1> QED
  BY <1>1, <1>4 DEF Satisfies

-----------------------------------------------------------------------------
(* Unless something has been lost, the constraints can hold if the list and *)
(* what will be added to it can.                                            *)
ListIsExact(S) ==
  /\ lost = {} =>
       \A m \in Valuations(S) :
         Satisfies(m, list) /\ Satisfies(m, new_list) =>
           \E v \in Valuations(S) : Satisfies(v, Constraints)
  /\ stage \notin {"nest", "sum"} => new_list = <<>>

ExactInv == ListIsExact(SymbolsOf(Constraints))

(* A step back from every valuation of the list. *)
LEMMA BackKeeps ==
  ASSUME NEW S, ListIsExact(S), from' = from, lost \subseteq lost',
         stage' \notin {"nest", "sum"} => new_list' = <<>>,
         lost' = {} =>
           \A m \in Valuations(S) :
             Satisfies(m, list') /\ Satisfies(m, new_list') =>
               \E v \in Valuations(S) : Satisfies(v, list) /\ Satisfies(v, new_list)
  PROVE  ListIsExact(S)'
<1>1. Constraints' = Constraints
  BY DEF Constraints
<1>2. SUFFICES ASSUME lost' = {}, NEW m \in Valuations(S), Satisfies(m, list'), Satisfies(m, new_list')
               PROVE  \E v \in Valuations(S) : Satisfies(v, Constraints)
  BY <1>1 DEF ListIsExact
<1>3. PICK v \in Valuations(S) : Satisfies(v, list) /\ Satisfies(v, new_list)
  BY <1>2
<1>4. lost = {}
  BY <1>2
<1> QED
  BY <1>3, <1>4 DEF ListIsExact

LEMMA NextStageExact ==
  ASSUME NEW S, ListIsExact(S), NEW l, NextStage(l),
         \A m \in Valuations(S) : Satisfies(m, l) => Satisfies(m, list) /\ Satisfies(m, new_list)
  PROVE  ListIsExact(S)'
<1>1. list' = l /\ new_list' = <<>> /\ from' = from /\ lost' = lost
  BY DEF NextStage
<1> QED
  BY <1>1, BackKeeps

LEMMA ArrayEqExact ==
  ASSUME NEW T, Z3Contract(T), NEW S \in SUBSET Symbols, WellFormed(T, S), EliminationInv, ListIsExact(S),
         propogate_array_eq
  PROVE  ListIsExact(S)'
<1>0. /\ stage = "array" /\ list \in Seq(FormulasOver(T, S)) /\ DefinedOnce(list) /\ new_list = <<>>
      /\ \A m : Satisfies(m, new_list)
  BY DEF propogate_array_eq, WellFormed, EliminationInv, ListIsExact, Satisfies
<1>1. CASE ArrayEquations = {}
  BY <1>0, <1>1, NextStageExact DEF propogate_array_eq
<1>2. CASE ArrayEquations # {}
  <2> DEFINE n == First(ArrayEquations)
  <2>1. n \in ArrayEquations
    <3>1. ArrayEquations \in SUBSET Nat
      BY <1>0 DEF ArrayEquations
    <3> QED
      BY <1>2, <3>1, FirstIsLeast
  <2>2. /\ list' = inplace_substitute(Erase(n), list[n].args[1], list[n].args[2])
        /\ UNCHANGED <<from, stage, new_list, lost>>
    BY <1>2 DEF propogate_array_eq, passVars
  <2> HIDE DEF n
  <2>3. n \in 1 .. Len(list) /\ isEQ(list[n]) /\ list[n].args[1].name \in Arrays /\ 1 \in 1 .. 2
    <3>1. DOMAIN list = 1 .. Len(list) /\ 1 \in 1 .. 2
      BY <1>0
    <3>2. n \in DOMAIN list /\ isEQ(list[n]) /\ is_array(list[n].args[1]) /\ ~ isStore(list[n].args[1])
      BY <2>1, <3>1 DEF ArrayEquations
    <3> QED
      BY <3>1, <3>2 DEF is_array
  <2>4. list' = inplace_substitute(RemoveAt(list, n), list[n].args[1], list[n].args[3 - 1])
    BY <2>2 DEF Erase
  <2>5. \A m \in Valuations(S) :
          Satisfies(m, inplace_substitute(RemoveAt(list, n), list[n].args[1], list[n].args[3 - 1]))
            => \E v \in Valuations(S) : Satisfies(v, list)
    BY <1>0, <2>3, EquationBack
  <2> QED
    BY <1>0, <2>2, <2>4, <2>5, BackKeeps
<1> QED
  BY <1>1, <1>2

LEMMA StoreExact ==
  ASSUME NEW T, Z3Contract(T), NEW S \in SUBSET Symbols, WellFormed(T, S), EliminationInv, ListIsExact(S),
         StoreSkip \/ StoreRead \/ StoreUnread \/ StoreSwept
  PROVE  ListIsExact(S)'
<1>0. /\ stage = "store" /\ list \in Seq(FormulasOver(T, S)) /\ DefinedOnce(list) /\ new_list = <<>>
      /\ it \in 1 .. Len(list) + 1 /\ Len(list) \in Nat
      /\ \A m : Satisfies(m, new_list)
  BY DEF StoreSkip, StoreRead, StoreUnread, StoreSwept, WellFormed, EliminationInv, ListIsExact, Satisfies
<1>1. CASE StoreSkip
  <2>1. UNCHANGED <<from, list, stage, new_list, lost>>
    BY <1>1 DEF StoreSkip
  <2> QED
    BY <1>0, <2>1, BackKeeps
<1>2. CASE StoreSwept
  <2>1. CASE size = Len(list)
    BY <1>0, <1>2, <2>1, NextStageExact DEF StoreSwept
  <2>2. CASE size # Len(list)
    <3>1. UNCHANGED <<from, list, stage, new_list, lost>>
      BY <1>2, <2>2 DEF StoreSwept
    <3> QED
      BY <1>0, <3>1, BackKeeps
  <2> QED
    BY <2>1, <2>2
<1>3. ASSUME NEW d \in Definition(list[it]), it <= Len(list)
      PROVE  \E s \in 1 .. 2 : /\ d = <<list[it].args[s], list[it].args[3 - s]>>
                               /\ isEQ(list[it]) /\ list[it].args[s].name \in Arrays
  BY <1>3 DEF Definition, is_array
<1>4. CASE StoreRead
  <2>1. PICK d \in Definition(list[it]) : list' = inplace_substitute(Erase(it), d[1], d[2])
    BY <1>4 DEF StoreRead
  <2>2. it \in 1 .. Len(list) /\ UNCHANGED <<from, stage, new_list, lost>>
    BY <1>0, <1>4 DEF StoreRead
  <2>3. PICK s \in 1 .. 2 : /\ d = <<list[it].args[s], list[it].args[3 - s]>>
                            /\ isEQ(list[it]) /\ list[it].args[s].name \in Arrays
    BY <1>3, <2>2
  <2>4. list' = inplace_substitute(RemoveAt(list, it), list[it].args[s], list[it].args[3 - s])
    BY <2>1, <2>3 DEF Erase
  <2>5. \A m \in Valuations(S) :
          Satisfies(m, inplace_substitute(RemoveAt(list, it), list[it].args[s], list[it].args[3 - s]))
            => \E v \in Valuations(S) : Satisfies(v, list)
    BY <1>0, <2>2, <2>3, EquationBack
  <2> QED
    BY <1>0, <2>2, <2>4, <2>5, BackKeeps
<1>5. CASE StoreUnread
  <2>1. PICK d \in Definition(list[it]) :
           lost' = lost \cup (IF d[1].name \in SymbolsOf(Erase(it)) THEN {"unread"} ELSE {})
    BY <1>5 DEF StoreUnread
  <2>2. it \in 1 .. Len(list) /\ list' = RemoveAt(list, it) /\ UNCHANGED <<from, stage, new_list>>
    BY <1>0, <1>5 DEF StoreUnread, Erase
  <2>3. PICK s \in 1 .. 2 : /\ d = <<list[it].args[s], list[it].args[3 - s]>>
                            /\ isEQ(list[it]) /\ list[it].args[s].name \in Arrays
    BY <1>3, <2>2
  <2>4. lost' = {} => list[it].args[s].name \notin SymbolsOf(RemoveAt(list, it))
    BY <2>1, <2>3 DEF Erase
  <2>5. ASSUME lost' = {}, NEW m \in Valuations(S), Satisfies(m, list')
        PROVE  \E v \in Valuations(S) : Satisfies(v, list)
    <3>1. Satisfies(m, RemoveAt(list, it)) /\ list[it].args[s].name \notin SymbolsOf(RemoveAt(list, it))
      BY <2>2, <2>4, <2>5
    <3> QED
      BY <1>0, <2>2, <2>3, <3>1, ErasedBack
  <2>6. lost \subseteq lost'
    BY <2>1
  <2> QED
    BY <1>0, <2>2, <2>5, <2>6, BackKeeps
<1> QED
  BY <1>1, <1>2, <1>4, <1>5

LEMMA NestExact ==
  ASSUME NEW T, Z3Contract(T), NEW S \in SUBSET Symbols, WellFormed(T, S), ListIsExact(S),
         simplify_select_store_nest
  PROVE  ListIsExact(S)'
<1> DEFINE f == list[it]
<1>0. /\ stage = "nest" /\ it \in 1 .. Len(list) /\ UNCHANGED <<from, stage>>
      /\ list \in Seq(FormulasOver(T, S)) /\ new_list \in Seq(FormulasOver(T, S))
  BY DEF WellFormed, simplify_select_store_nest
<1>1. f \in FormulasOver(T, S)
  BY <1>0
<1>2. CASE ~ Nested(f)
  <2>1. UNCHANGED <<list, new_list, lost>>
    BY <1>2 DEF simplify_select_store_nest
  <2> QED
    BY <1>0, <2>1, BackKeeps
<1>3. CASE Nested(f)
  <2>1. /\ new_list' = Append(new_list, OnTheValue(f)) /\ list' = RemoveAt(list, it)
        /\ lost' = lost \cup (IF Element(Positive(f)) = 2 THEN {"mirrored"} ELSE {})
    BY <1>3 DEF simplify_select_store_nest, Erase
  <2>2. /\ OnTheValue(f) \in FormulasOver(T, S)
        /\ \A m \in Valuations(S) :
             Element(Positive(f)) = 1 => (Meaning(OnTheValue(f), m) <=> Meaning(f, m))
    BY <1>1, <1>3, NestedHolds
  <2>3. Element(Positive(f)) \in {1, 2}
    BY DEF Element
  <2>4. lost' = {} => Element(Positive(f)) = 1
    BY <2>1, <2>3
  <2>5. ASSUME lost' = {}, NEW m \in Valuations(S), Satisfies(m, list'), Satisfies(m, new_list')
        PROVE  Satisfies(m, list) /\ Satisfies(m, new_list)
    <3>1. Meaning(OnTheValue(f), m) => Meaning(list[it], m)
      BY <2>2, <2>4, <2>5
    <3>2. Satisfies(m, RemoveAt(list, it)) /\ Satisfies(m, Append(new_list, OnTheValue(f)))
      BY <2>1, <2>5
    <3> QED
      BY <1>0, <2>2, <3>1, <3>2, RewrittenBack
  <2>6. lost \subseteq lost'
    BY <2>1
  <2> QED
    BY <1>0, <2>5, <2>6, BackKeeps
<1> QED
  BY <1>2, <1>3

LEMMA SumExact ==
  ASSUME NEW T, Z3Contract(T), NEW S \in SUBSET Symbols, WellFormed(T, S), ListIsExact(S),
         simplify_select_eq
  PROVE  ListIsExact(S)'
<1> DEFINE e == list[it]
<1>0. /\ stage = "sum" /\ it \in 1 .. Len(list) /\ UNCHANGED <<from, stage>>
      /\ list \in Seq(FormulasOver(T, S)) /\ new_list \in Seq(FormulasOver(T, S))
  BY DEF WellFormed, simplify_select_eq
<1>1. e \in FormulasOver(T, S)
  BY <1>0
<1>2. CASE Sums(e) = {}
  <2>1. UNCHANGED <<list, new_list, lost>>
    BY <1>2 DEF simplify_select_eq
  <2> QED
    BY <1>0, <2>1, BackKeeps
<1>3. CASE Sums(e) # {}
  <2> DEFINE s == First(Sums(e))  two == \A n \in 1 .. 2 : isSelect(e.args[s].args[n])
             g == simplify(Solved(e, s))
  <2>1. s \in Sums(e)
    <3>1. Sums(e) \in SUBSET Nat
      BY DEF Sums
    <3> QED
      BY <1>3, <3>1, FirstIsLeast
  <2>2. /\ new_list' = Append(new_list, g) /\ list' = RemoveAt(list, it)
        /\ lost' = lost \cup (IF two THEN {"summed"} ELSE {})
    BY <1>3 DEF simplify_select_eq, Erase
  <2> HIDE DEF s
  <2>3. /\ g \in FormulasOver(T, S)
        /\ \A m \in Valuations(S) : ~ two => (Meaning(g, m) <=> Meaning(e, m))
    BY <1>1, <2>1, SolvedHolds
  <2> HIDE DEF two, g
  <2>4. lost' = {} => ~ two
    BY <2>2
  <2>5. ASSUME lost' = {}, NEW m \in Valuations(S), Satisfies(m, list'), Satisfies(m, new_list')
        PROVE  Satisfies(m, list) /\ Satisfies(m, new_list)
    <3>1. Meaning(g, m) => Meaning(list[it], m)
      BY <2>3, <2>4, <2>5
    <3>2. Satisfies(m, RemoveAt(list, it)) /\ Satisfies(m, Append(new_list, g))
      BY <2>2, <2>5
    <3> QED
      BY <1>0, <2>3, <3>1, <3>2, RewrittenBack
  <2>6. lost \subseteq lost'
    BY <2>2
  <2> QED
    BY <1>0, <2>5, <2>6, BackKeeps
<1> QED
  BY <1>2, <1>3

LEMMA SelectEqExact ==
  ASSUME NEW T, Z3Contract(T), NEW S \in SUBSET Symbols, WellFormed(T, S), ListIsExact(S),
         propogate_select_eq
  PROVE  ListIsExact(S)'
<1>0. /\ stage = "select" /\ list \in Seq(FormulasOver(T, S)) /\ new_list = <<>>
      /\ \A m : Satisfies(m, new_list)
  BY DEF propogate_select_eq, WellFormed, ListIsExact, Satisfies
<1>1. CASE ElementEquations = {}
  BY <1>0, <1>1, NextStageExact DEF propogate_select_eq
<1>2. CASE ElementEquations # {}
  <2> DEFINE n == First(ElementEquations)  s == Element(list[n])
             element == list[n].args[s]  value == list[n].args[3 - s]
             a == element.args[1]
  <2>1. n \in ElementEquations
    <3>1. ElementEquations \in SUBSET Nat
      BY <1>0 DEF ElementEquations
    <3> QED
      BY <1>2, <3>1, FirstIsLeast
  <2>2. /\ list' = inplace_substitute(Erase(n), element, value)
        /\ lost' = IF isStore(a) \/ a.name \in SymbolsOf(list') \cup Names(value) \cup Names(element.args[2])
                   THEN lost \cup {"alias"} ELSE lost
        /\ UNCHANGED <<from, stage, new_list>>
    BY <1>2 DEF propogate_select_eq, passVars
  <2>3. s \in 1 .. 2 /\ (isSelect(list[n].args[1]) \/ isSelect(list[n].args[2]) => isSelect(element))
    BY DEF Element
  <2> HIDE DEF s, n
  <2>4. n \in 1 .. Len(list) /\ isEQ(list[n]) /\ isSelect(element)
    <3>1. n \in DOMAIN list /\ isEQ(list[n]) /\ isSelect(list[n].args[1]) # isSelect(list[n].args[2])
      BY <2>1 DEF ElementEquations
    <3>2. DOMAIN list = 1 .. Len(list)
      BY <1>0
    <3>3. isSelect(list[n].args[1]) \/ isSelect(list[n].args[2])
      BY <3>1 DEF isSelect
    <3> HIDE DEF element
    <3> QED
      BY <2>3, <3>1, <3>2, <3>3
  <2>5. list' = inplace_substitute(RemoveAt(list, n), list[n].args[s], list[n].args[3 - s])
    BY <2>2 DEF Erase
  <2>6. ASSUME lost' = {}, NEW m \in Valuations(S), Satisfies(m, list')
        PROVE  \E v \in Valuations(S) : Satisfies(v, list)
    <3>1. ~ isStore(a) /\ a.name \notin SymbolsOf(list') \cup Names(value) \cup Names(element.args[2])
      BY <2>2, <2>6
    <3>2. /\ a.name \notin Names(value) /\ a.name \notin Names(element.args[2])
          /\ a.name \notin SymbolsOf(inplace_substitute(RemoveAt(list, n), list[n].args[s], list[n].args[3 - s]))
          /\ Satisfies(m, inplace_substitute(RemoveAt(list, n), list[n].args[s], list[n].args[3 - s]))
      BY <2>5, <2>6, <3>1
    <3> QED
      BY <1>0, <2>3, <2>4, <3>1, <3>2, ElementBack
  <2>7. lost \subseteq lost'
    BY <2>2
  <2> QED
    BY <1>0, <2>2, <2>6, <2>7, BackKeeps
<1> QED
  BY <1>1, <1>2

LEMMA SweepEndsExact ==
  ASSUME NEW T, Z3Contract(T), NEW S \in SUBSET Symbols, WellFormed(T, S), ListIsExact(S),
         SingleSweepEnds
  PROVE  ListIsExact(S)'
<1>1. list \in Seq(FormulasOver(T, S)) /\ new_list \in Seq(FormulasOver(T, S))
  BY DEF WellFormed
<1>2. NextStage(list \o new_list)
  BY DEF SingleSweepEnds
<1>3. ASSUME NEW m \in Valuations(S), Satisfies(m, list \o new_list)
      PROVE  Satisfies(m, list) /\ Satisfies(m, new_list)
  BY <1>1, <1>3, JoinedBack
<1> QED
  BY <1>2, <1>3, NextStageExact

(* The list at the end says nothing of the other symbols of the constraints. *)
LEMMA Extended ==
  ASSUME NEW T, Z3Contract(T), NEW S \in SUBSET Symbols, NEW l \in Seq(FormulasOver(T, S)),
         NEW m \in Valuations(SymbolsOf(l)), Satisfies(m, l)
  PROVE  \E v \in Valuations(S) : Satisfies(v, l)
<1> DEFINE R == SymbolsOf(l)
           v == [x \in S |-> IF x \in R THEN m[x] ELSE IF x \in Arrays THEN [p \in Positions |-> 0] ELSE 0]
<1>1. R \in SUBSET Symbols /\ R \subseteq S
  BY DEF SymbolsOf, FormulasOver, TermsOver
<1>2. \A k \in DOMAIN l : Names(l[k]) \subseteq R
  BY DEF SymbolsOf
<1> HIDE DEF R
<1>3. /\ \A x \in R \cap Arrays : m[x] \in [Positions -> Values]
      /\ \A x \in R \cap Numbers : m[x] \in Values
      /\ \A x \in R \cap Indices : m[x] \in Positions
  BY <1>1, ValuationsAre DEF R
<1>4. 0 \in Values /\ 0 \in Positions
  BY WidthAssumption DEF Values, Positions
<1>5. v \in Valuations(S)
  <2>1. /\ v = [x \in S |-> v[x]]
        /\ \A x \in S \cap Arrays : v[x] \in [Positions -> Values]
        /\ \A x \in S \cap Numbers : v[x] \in Values
        /\ \A x \in S \cap Indices : v[x] \in Positions
    BY <1>1, <1>3, <1>4, NamesAssumption
  <2> HIDE DEF v
  <2> QED
    BY <2>1, ValuationsAre
<1>6. \A x \in R : v[x] = m[x]
  BY <1>1
<1> HIDE DEF v
<1>7. ASSUME NEW k \in DOMAIN l PROVE Meaning(l[k], v)
  <2>1. l[k] \in T["formula"] /\ "formula" \in Sorts /\ Names(l[k]) \subseteq S /\ Names(l[k]) \subseteq R
    BY <1>2 DEF FormulasOver, TermsOver, Sorts
  <2>2. \A x \in Names(l[k]) : v[x] = m[x]
    BY <1>6, <2>1
  <2>3. m \in Valuations(R)
    BY DEF R
  <2>4. Meaning(l[k], v) = Meaning(l[k], m)
    BY <1>1, <1>5, <2>1, <2>2, <2>3, Coincidence
  <2>5. Meaning(l[k], m)
    BY DEF Satisfies
  <2> QED
    BY <2>4, <2>5
<1> QED
  BY <1>5, <1>7 DEF Satisfies

(* Unless a rule has dropped something, the pre-condition compute_pre hands *)
(* to verify_post can hold only if the path, the hypothesis and the         *)
(* assertion can hold together.                                             *)
THEOREM PreconditionIsExact ==
  ASSUME NEW T, Z3Contract(T), InputsOver(T)
  PROVE  Spec => []PreIsExact
<1>1. Init => ListIsExact(SymbolsOf(Constraints))
  BY DEF Init, ListIsExact, Constraints
<1>2. ListInv(T) /\ EliminationInv /\ ExactInv /\ [Next \/ Done]_vars => ExactInv'
  <2> SUFFICES ASSUME ListInv(T), EliminationInv, ExactInv, [Next \/ Done]_vars PROVE ExactInv'
    OBVIOUS
  <2>1. PICK S : S = SymbolsOf(Constraints)
    OBVIOUS
  <2>2. WellFormed(T, S) /\ S \in SUBSET Symbols /\ ListIsExact(S)
    BY <2>1, SymbolsAreSymbols DEF ListInv, WellFormed, ExactInv
  <2>3. ListIsExact(S)'
    <3>1. CASE propogate_array_eq
      BY <2>2, <3>1, ArrayEqExact
    <3>2. CASE StoreSkip \/ StoreRead \/ StoreUnread \/ StoreSwept
      BY <2>2, <3>2, StoreExact
    <3>3. CASE simplify_select_store_nest
      BY <2>2, <3>3, NestExact
    <3>4. CASE propogate_select_eq
      BY <2>2, <3>4, SelectEqExact
    <3>5. CASE simplify_select_eq
      BY <2>2, <3>5, SumExact
    <3>6. CASE SingleSweepEnds
      BY <2>2, <3>6, SweepEndsExact
    <3>7. CASE UNCHANGED vars
      <4>1. UNCHANGED <<from, list, stage, new_list, lost>>
        BY <3>7 DEF vars, passVars
      <4> QED
        BY <2>2, <4>1, BackKeeps DEF ListIsExact
    <3> QED
      BY <3>1, <3>2, <3>3, <3>4, <3>5, <3>6, <3>7 DEF Next, Done
  <2>4. from' = from
    <3>1. WellFormed(T, S) /\ ListIsImplied(S)
      BY <2>1 DEF ListInv
    <3> QED
      BY DEF Next, Done, NextStage, propogate_array_eq, StoreSkip, StoreRead, StoreUnread, StoreSwept,
             simplify_select_store_nest, propogate_select_eq, simplify_select_eq, SingleSweepEnds, vars
  <2>5. S = SymbolsOf(Constraints)'
    BY <2>1, <2>4 DEF Constraints
  <2> QED
    BY <2>3, <2>5 DEF ExactInv
<1>3. ListInv(T) /\ ExactInv => PreIsExact
  <2> SUFFICES ASSUME ListInv(T), ExactInv, stage = "done", lost = {},
                      NEW m \in Valuations(SymbolsOf(list)), Satisfies(m, list)
               PROVE  \E v \in Valuations(SymbolsOf(Constraints)) : Satisfies(v, Constraints)
    BY DEF PreIsExact
  <2>1. PICK S : S = SymbolsOf(Constraints)
    OBVIOUS
  <2>2. WellFormed(T, S) /\ S \in SUBSET Symbols /\ ListIsExact(S)
    BY <2>1, SymbolsAreSymbols DEF ListInv, WellFormed, ExactInv
  <2>3. list \in Seq(FormulasOver(T, S)) /\ new_list = <<>>
    BY <2>2 DEF WellFormed, ListIsExact
  <2>4. PICK v \in Valuations(S) : Satisfies(v, list)
    BY <2>2, <2>3, Extended
  <2>5. Satisfies(v, new_list)
    BY <2>3 DEF Satisfies
  <2> QED
    BY <2>1, <2>2, <2>4, <2>5 DEF ListIsExact
<1> QED
  BY <1>1, <1>2, <1>3, ListInvariant, EliminationInvariant, PTL DEF Spec, ExactInv
=============================================================================
