------------------------------- MODULE MCFpi -------------------------------
(***************************************************************************)
(* Instances of FpiExecution: small families of programs over three array  *)
(* contents and N up to 3, the first N a wrong invariant can show at after *)
(* one strengthening.                                                      *)
(***************************************************************************)
EXTENDS FpiExecution

MCSizes == 1..3
Three == 0..2
Two == 0..1

MCPoints(D) == (0..3) \X D
Where(D, S) == {x \in MCPoints(D) : x[2] \in S}
FromTwoOn(D, S) == {x \in MCPoints(D) : x[1] <= 1 \/ x[2] \in S}

ForAll(h) == [exists |-> FALSE, holds |-> h, at0 |-> {}, atLast |-> {}]
ForSome(h0, hl) == [exists |-> TRUE, holds |-> h0 \cup hl, at0 |-> h0, atLast |-> hl]

Program(b, ps, ss) == [base |-> b, paths |-> ps, specs |-> ss, unsupported |-> FALSE]

(* The steps of a path that does f to the contents in S, for every N. *)
Always(f, S) == {<<n, d, f[d]>> : n \in MCSizes, d \in S}

(* if (c) f else f, with c true of the contents in S *)
IfElse(f, S) == <<Always(f, S), Always(f, Three \ S)>>

(* What the program does may depend on N. *)
ByN(g) == {<<n, d, g[n, d]>> : n \in MCSizes, d \in Two}

(* Single-path, deterministic, without assumptions: 64 bodies, 64 posts. *)
SinglePath ==
  {Program({0}, <<ByN(g)>>, <<ForAll(h \cup Where(Two, {}) \cup {<<0, 0>>, <<0, 1>>})>>) :
     g \in [MCSizes \X Two -> Two], h \in SUBSET (MCSizes \X Two)}

(* Two paths. *)
Branching ==
  {Program({0}, IfElse(f, S), <<ForAll(h)>>) :
     f \in [Three -> Three], S \in {X \in SUBSET Three : 0 \in X},
     h \in {Where(Three, X) : X \in SUBSET Three}
             \cup {FromTwoOn(Three, X) : X \in SUBSET Three}}

(* if (nondet()) f else g *)
Choosing ==
  {Program({0}, <<Always(f, Three), Always(g, Three)>>, <<ForAll(Where(Three, {0, 1}))>>) :
     f \in [Three -> Three], g \in [Three -> Three]}

(* Random contents, assumptions that cut runs off, one or two assertions, *)
(* existentials, unsupported code.                                        *)
Unusual ==
  {[Program({0, 1}, <<r>>, ss) EXCEPT !.unsupported = u] :
     r \in {{<<n, d, e>> \in MCSizes \X Two \X Two : <<d, e>> \in q} :
              q \in SUBSET (Two \X Two)},
     ss \in {<<>>}
          \cup {<<ForAll(Where(Two, X)), ForAll(FromTwoOn(Two, Y))>> :
                  X \in SUBSET Two, Y \in SUBSET Two}
          \cup {<<ForSome(Where(Two, X), Where(Two, Y)), ForAll(FromTwoOn(Two, Y))>> :
                  X \in SUBSET Two, Y \in SUBSET Two},
     u \in BOOLEAN}

\* No run of P_1 satisfies the assumptions.
Cut ==
  {Program({}, <<Always(f, Two)>>, <<ForAll(Where(Two, X))>>) :
     f \in [Two -> Two], X \in SUBSET Two}

AllPrograms == SinglePath \cup Branching \cup Choosing \cup Unusual \cup Cut
MCLost == {{}, Where(Three, {1})}
NothingLost == {{}}
=============================================================================
