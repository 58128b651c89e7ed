------------------------------ MODULE DiffRun ------------------------------
(***************************************************************************)
(* The difference function, run on what P_(N-1) leaves and compared with   *)
(* what P_N leaves, for N = 2, 3, ... MaxN.  The arrays start with the     *)
(* same contents in each.  The pass is diff_preds in mode 6, and           *)
(* aggr_llvm_diff in mode 4.                                               *)
(***************************************************************************)
EXTENDS AggrDiff

CONSTANTS
  Modes,            \* the values of o.mode
  MaxN,
  Contents(_, _),   \* of an array at an index, at entry
  Claims            \* for(i = 0; i < N; i++) assert(arr[i] == term)

ASSUME ModesAssumption == Modes \subseteq {4, 6}
ASSUME MaxNAssumption == MaxN \in Nat \ {0, 1}
ASSUME ContentsAssumption == \A a \in Arrays : \A i \in 0..(MaxN - 1) : Contents(a, i) \in Int
ASSUME ClaimsAssumption == Claims \subseteq [arr : Arrays \ Static, term : Terms]

VARIABLES
  mode,    \* o.mode
  claim,
  size,    \* the N for which the difference function has been run, or 0
  after,   \* the arrays it leaves
  read,    \* what each load read in it
  held     \* the claim has held where the verification has looked

runVars == <<mode, claim, size, after, read, held>>

At0 == [a \in Arrays |-> [i \in 0..(MaxN - 1) |-> Contents(a, i)]]

Sum(seq) == FoldLeft(LAMBDA x, y : x + y, 0, seq)

Index(a, i) == IF IsStatic(a) THEN 0 ELSE i

LoadValue(mem, l, N, i) ==
  mem[l.arr][Index(l.arr, CASE l.idx = "counter" -> i [] l.idx = "below" -> i - 1 [] l.idx = "last" -> N - 1)]

(* The remainder has the sign of the dividend. *)
SRem(v, m) == IF v < 0 THEN -((-v) % m) ELSE v % m

StoreValue(mem, st, N, i) ==
  LET t == TermValue(st.term, N, i)
      v == Sum([l \in DOMAIN st.loads |-> st.loads[l].coef * LoadValue(mem, st.loads[l], N, i)])
             + IF st.shape = "subtracted" THEN -t ELSE t
  IN IF st.rem = 0 THEN v ELSE SRem(v, st.rem)

Assigned(mem, a, i, v) == [mem EXCEPT ![a][Index(a, i)] = v]

-----------------------------------------------------------------------------
(* P_N. *)
Body(mem, item, N, i) ==
  IF item.ofN /\ i = N - 1 THEN mem
  ELSE FoldLeft(LAMBDA m, st : Assigned(m, st.arr, i, StoreValue(m, st, N, i)), mem, item.body)

AfterItem(mem, item, N) ==
  IF item.loop
  THEN FoldLeft(LAMBDA m, i : Body(m, item, N, i), mem, [k \in 1..(N - item.first) |-> item.first + k - 1])
  ELSE Body(mem, item, N, 0)

Outcome(f, N) == FoldLeft(LAMBDA m, item : AfterItem(m, item, N), At0, f)
Final(N)      == Outcome(prog, N)

-----------------------------------------------------------------------------
(* The difference function, from what P_(N-1) leaves. *)
LoadSites(f) == {<<0, 0, 0>>} \cup
  UNION {UNION {{<<p, s, l>> : l \in DOMAIN f[p].body[s].loads} : s \in DOMAIN f[p].body} : p \in DOMAIN f}
AllLoads == LoadSites(prog)

DiffValue(v, N, regs) ==
  FoldLeft(LAMBDA x, k : x * (N - 1), TermDifference(v.term, N) + regs[v.load],
           [k \in 1..v.times |-> k])

Recorded(vs, N, regs) == Sum([d \in DOMAIN vs |-> DiffValue(vs[d], N, regs)])

Execute(f, state, in, N) ==
  LET st == f[in.item].body[in.store]
      i  == IF f[in.item].loop THEN N - 1 ELSE 0
      at == Index(st.arr, i)
      from == IF in.entry THEN Outcome(f, N - 1) ELSE state.mem
  IN IF f[in.item].ofN /\ (in.kind = "store" \/ ~IsStatic(st.arr)) THEN state
     ELSE IF in.kind = "store"
     THEN [mem  |-> Assigned(state.mem, st.arr, i, StoreValue(state.mem, st, N, i)),
           regs |-> [r \in LoadSites(f) |-> IF r[1] = in.item /\ r[2] = in.store
                                        THEN LoadValue(state.mem, st.loads[r[3]], N, i)
                                        ELSE state.regs[r]]]
     ELSE [state EXCEPT !.mem =
             Assigned(@, st.arr, i, from[st.arr][at] + Recorded(in.add, N, state.regs))]

Entry(f, N)          == [mem |-> Outcome(f, N - 1), regs |-> [r \in LoadSites(f) |-> 0]]
Exec(f, state, is, N) == FoldLeft(LAMBDA s, in : Execute(f, s, in, N), state, is)
Differed(N)          == Exec(prog, Entry(prog, N), out, N)

(***************************************************************************)
(* peel_loop reduces the loop of an assertion like any other: the claim is *)
(* about the element at N - 1.                                             *)
(***************************************************************************)
HoldsAt(mem, N, i) == mem[claim.arr][i] = TermValue(claim.term, N, i)

(* What is not modelled of diff_preds: remainders, and branches in a loop. *)
Modelled ==
  \A p \in DOMAIN prog : ~prog[p].ofN /\ \A s \in DOMAIN prog[p].body : prog[p].body[s].rem = 0

RunInit ==
  /\ Init /\ aborted = FALSE
  /\ mode \in Modes /\ (mode = 6 => Modelled)
  /\ claim \in Claims
  /\ size = 0 /\ after = At0 /\ read = [r \in AllLoads |-> 0]
  /\ held = TRUE

\* A bug it could have: run_FPI sets it to 0 as well.
unsupported_valReset == 0

(* run_diff_preds sets the flag to 0 before it makes the verifier, run_FPI does not. *)
unsupported_val == IF mode = 6 THEN 0 ELSE unsupported

(***************************************************************************)
(* P_1, the base case, and then the difference functions, of which verify  *)
(* makes use only when the flag is 0.                                      *)
(***************************************************************************)
RunBase ==
  /\ Finished /\ size = 0
  /\ size' = 1 /\ after' = Final(1) /\ held' = HoldsAt(Final(1), 1, 0)
  /\ UNCHANGED <<vars, aborted, mode, claim, read>>

RunDifference ==
  /\ Finished /\ size \in 1..(MaxN - 1) /\ unsupported_val = 0
  /\ size' = size + 1
  /\ LET end == Differed(size + 1)
     IN /\ after' = end.mem /\ read' = end.regs
        /\ held' = (held /\ HoldsAt(end.mem, size + 1, size))
  /\ UNCHANGED <<vars, aborted, mode, claim>>

RunPass ==
  \/ mode = 6 /\ Next /\ UNCHANGED aborted
  \/ mode = 4 /\ AggrNext

RunNext == (RunPass /\ UNCHANGED runVars) \/ RunBase \/ RunDifference

RunSpec == RunInit /\ [][RunNext]_<<vars, aborted, runVars>>

-----------------------------------------------------------------------------
TypeOK ==
  /\ prog \in Functions /\ pos \in 0..(Len(prog) + 1)
  /\ pend \subseteq Arrays /\ todo \in Seq(Nat) /\ entered \in BOOLEAN
  /\ diffs \in [Arrays -> Seq(DiffVals)]
  /\ preheader \in Seq(Instructions) /\ out \in Seq(Instructions)
  /\ placed \in Seq(Seq(Instructions))
  /\ unsupported \in 0..3 /\ aborted \in BOOLEAN
  /\ vague \subseteq Arrays
  /\ mode \in Modes /\ size \in 0..MaxN /\ held \in BOOLEAN

(***************************************************************************)
(* What "base, then difference" rests on: run on the arrays of P_(N-1),    *)
(* the difference function leaves the scalars of P_N and, at index N - 1,  *)
(* the elements of P_N (peel_loop, append_diff_invs, peel_outer_block of   *)
(* either pass), unless the verifier has been told not to use it.          *)
(***************************************************************************)
DifferenceMakesPN ==
  size > 1 /\ gaps = {} =>
    \A a \in Arrays : LET i == Index(a, size - 1) IN after[a][i] = Final(size)[a][i]

(***************************************************************************)
(* diff_val_map holds the difference invariants: an element both P_N and   *)
(* P_(N-1) have differs by the sum of what is recorded for its array, and  *)
(* so does a scalar.                                                       *)
(***************************************************************************)
RecordedIsDifference ==
  size > 1 /\ gaps = {} =>
    \A a \in Arrays \ vague :
      \A i \in {Index(a, k) : k \in IF Partial(a) THEN {0} ELSE 0..(size - 2)} :
      Final(size)[a][i] - Final(size - 1)[a][i] = Recorded(diffs[a], size, read)

(***************************************************************************)
(* README.md:39: SUCCESSFUL is printed "when the given post-condition is   *)
(* verified".  What is verified of an assertion in a loop is its last      *)
(* iteration, for N = 1 and after each difference function.                *)
(***************************************************************************)
LastIterationSuffices ==
  held /\ size = MaxN => \A N \in 1..size : \A i \in 0..(N - 1) : HoldsAt(Final(N), N, i)
=============================================================================
