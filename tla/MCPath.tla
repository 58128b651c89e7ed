------------------------------- MODULE MCPath -------------------------------
(***************************************************************************)
(* Instances of PathFormula: functions of up to five blocks over an array, *)
(* a global variable and one input.                                        *)
(***************************************************************************)
EXTENDS PathRuns

MCMemories  == {"a", "g"}
MCGlobals   == {"g"}
MCRegisters == ({"const"} \X (0..2)) \cup ({"x", "y", "c", "p"} \X (1..5))

R(n, b) == <<n, b>>
X == R("x", 1)

Nondet(r)      == [op |-> "nondet", reg |-> r]
LoadOf(r, x)   == [op |-> "load", reg |-> r, mem |-> x]
StoreOf(x, r)  == [op |-> "store", mem |-> x, reg |-> r]
Equal(r, u, v) == [op |-> "eq", reg |-> r, left |-> u, right |-> v]
Phi(r, in)     == [op |-> "phi", reg |-> r, in |-> in]
Assumption(r)      == [op |-> "assume", reg |-> r]
Assertion(r)      == [op |-> "assert", reg |-> r]

Ret         == [kind |-> "ret", to |-> <<>>]
Unreachable == [kind |-> "unreachable", to |-> <<>>]
Br(b)       == [kind |-> "br", to |-> <<b>>]
Cond(r, bs) == [kind |-> "cond", reg |-> r, to |-> bs]
Switch(r, bs, vs) == [kind |-> "switch", reg |-> r, to |-> bs, val |-> vs]

B(ops, e) == [ops |-> ops, claim |-> {}, end |-> e]
Function(bs) == [block |-> bs, back |-> {}]

(* What a block b may do. *)
Read(b, x, v) == <<LoadOf(R("y", b), x), Equal(R("c", b), R("y", b), Const(v))>>

Work(b) ==
  {<<>>,
   <<StoreOf("a", Const(1))>>,
   <<StoreOf("g", X)>>,
   Read(b, "a", 1) \o <<Assumption(R("c", b))>>,
   Read(b, "g", 0) \o <<Assertion(R("c", b))>>}

Input == <<Nondet(X), Equal(R("c", 1), X, Const(0))>>
C1    == R("c", 1)

Checks(b) == {Read(b, "a", 1) \o <<Assertion(R("c", b))>>, Read(b, "g", 2) \o <<Assertion(R("c", b))>>, <<>>}

Diamonds ==
  {Function(<<B(Input, Cond(C1, <<2, 3>>)), B(u, Br(4)), B(v, Br(4)),
              B(<<Phi(R("p", 4), (2 :> Const(2)) @@ (3 :> X))>> \o w, Ret)>>) :
     u \in Work(2), v \in Work(3),
     w \in Checks(4) \cup {<<Equal(R("c", 4), R("p", 4), Const(2)), Assertion(R("c", 4))>>}}

Skips ==
  {Function(<<B(Input \o <<StoreOf("a", X)>>, Cond(C1, t)), B(u, Br(3)),
              B(<<Phi(R("p", 3), (1 :> Const(1)) @@ (2 :> Const(2)))>> \o v \o w, Ret)>>) :
     t \in {<<2, 3>>, <<3, 2>>}, u \in Work(2),
     v \in {<<>>, <<StoreOf("a", Const(1))>>}, w \in Checks(3)}

Switches ==
  {Function(<<B(<<Nondet(X)>>, Switch(X, t, SubSeq(<<0, 0, 2>>, 1, Len(t)))), B(u, Br(5)), B(<<StoreOf("a", X)>>, Br(5)),
              B(v, Br(5)),
              B(<<Phi(R("p", 5), (2 :> Const(0)) @@ (3 :> Const(1)) @@ (4 :> X))>> \o w, Ret)>>) :
     t \in {<<2, 3, 4>>, <<2, 3, 3>>, <<4, 2, 4>>, <<2, 3>>},
     u \in {<<>>, <<StoreOf("a", Const(0))>>},
     v \in {<<>>, <<StoreOf("g", Const(2))>>},
     w \in Checks(5) \cup {Read(5, "a", 0) \o <<Assertion(R("c", 5))>>}}

(* A loop: its header is 2, its latch 3. *)
Loops ==
  {[Function(<<B(Input, Br(2)),
               B(<<Phi(R("p", 2), (1 :> X) @@ (3 :> R("y", 3)))>> \o u, Cond(C1, <<4, 3>>)),
               B(v, Br(2)), B(w, Ret)>>) EXCEPT !.back = {<<3, 2>>}] :
     u \in Work(2), v \in {<<>>, <<StoreOf("a", Const(0))>>}, w \in Checks(4)}

(* A loop without an exit: its latch is 3; or two loops of one block each. *)
Endless ==
  {[Function(<<B(Input, Br(2)), B(u, Br(3)), B(w, Br(2))>>) EXCEPT !.back = {<<3, 2>>}] :
     u \in Work(2), w \in Checks(3)}
    \cup
  {[Function(<<B(Input \o u, Cond(C1, <<3, 2>>)), B(v, Br(2)), B(w, Br(3))>>)
      EXCEPT !.back = {<<2, 2>>, <<3, 3>>}] :
     u \in {<<>>, <<Assumption(C1)>>}, v \in Work(2), w \in Checks(3)}

(* Two exits, one of them after an error, and a block no path leads to. *)
Errors ==
  {Function(<<B(Input \o u, Cond(C1, <<2, 3>>)), B(v, e), B(w, Ret), B(<<>>, Br(3))>>) :
     u \in {<<>>, <<Assumption(C1)>>, <<Equal(R("p", 1), X, Const(1)), Assumption(R("p", 1))>>},
     v \in Work(2), e \in {Unreachable, Ret}, w \in Checks(3)}

(* Comments at the end of a block, with assertions in it and elsewhere. *)
Comments ==
  {Function(<<[B(Input \o <<StoreOf("g", X)>>, Cond(C1, <<3, 2>>)) EXCEPT !.claim = c],
              [B(u, Br(4)) EXCEPT !.claim = d], B(v, Br(4)), B(w, Ret)>>) :
     c \in {{}, {<<"g", 2>>}}, d \in {{}, {<<"a", 1>>}},
     u \in Work(2),
     v \in {<<>>, <<StoreOf("a", X)>>,
            <<StoreOf("a", Const(0))>> \o Read(3, "a", 0) \o <<Assertion(R("c", 3))>>},
     w \in Checks(4) \ {<<>>}}
    \cup
  {Function(<<[B(<<StoreOf("a", Const(1))>> \o Input \o <<StoreOf("g", X)>>, Cond(C1, <<3, 2>>)) EXCEPT !.claim = c],
              B(Read(2, "g", 0) \o <<Assertion(R("c", 2))>>, Br(4)),
              B(<<StoreOf("g", Const(2))>> \o Read(3, "g", 2) \o <<Assertion(R("c", 3))>>, Br(4)),
              B(<<>>, Ret)>>) : c \in {{}, {<<"a", 1>>}}}

(* Assertions of the input, and of an array that is written again. *)
Inputs == {Function(<<B(Input \o <<Assumption(C1)>> \o u \o <<Assertion(C1)>> \o v, Ret)>>) :
             u \in Work(2), v \in Work(3)}
            \cup
          {Function(<<B(u \o Read(1, "a", 1) \o <<Assertion(C1)>> \o v, Br(2)), B(w, Ret)>>) :
             u, v, w \in {<<>>, <<StoreOf("a", Const(0))>>, <<StoreOf("a", Const(1))>>}}

(* No run: the second assumption contradicts the first. *)
Contradictions ==
  {Function(<<B(Input \o <<Assumption(C1), Equal(R("p", 1), X, Const(1)), Assumption(R("p", 1))>>, Br(2)),
              B(u, Ret)>>) : u \in Work(2)}

(* An error between two assertions, the second where no run goes. *)
Strays ==
  {Function(<<B(Input, Cond(C1, <<2, 3>>)),
              B(Read(2, "g", 0) \o <<Assertion(R("c", 2))>>, Cond(C1, <<4, 5>>)),
              B(<<Assumption(Const(0))>>, Br(5)),
              B(u, Unreachable),
              B(v \o <<Assertion(Const(1))>>, Ret)>>) :
     u \in {<<>>, <<Assumption(Const(0))>>}, v \in {<<>>, <<Assumption(Const(0))>>}}

MCFunctions == Strays \cup Contradictions \cup Diamonds \cup Skips \cup Switches \cup Loops \cup Endless \cup Errors \cup Comments \cup Inputs
MCErrors    == Errors
=============================================================================
