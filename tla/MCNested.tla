------------------------------ MODULE MCNested ------------------------------
(***************************************************************************)
(* Instances of NestedRun: arrays a, b and c of size N and a scalar s.     *)
(***************************************************************************)
EXTENDS NestedRun

MCArrays == {"a", "b", "c", "s"}
MCStatic == {"s"}

\* Without a pattern that could hide a missing or a doubled addition; one
\* element beyond the largest N, for bounds that include it.
MCContents ==
  [x \in MCArrays |-> [p \in 0..(MaxN + 1) |->
     [a |-> 3 + 5 * p, b |-> 2 + p * p, c |-> 7 - 3 * p, s |-> 4][x]]]

At0(a) == IF a \in MCStatic THEN "zero" ELSE "outer"

One  == Term(Num(1))
OfN  == Term(SizeN)
OfI  == Term(Outer)
OfJ  == Term([c |-> 0, n |-> 0, i |-> 0, j |-> 1])
OfI1 == Term(Add(Outer, Num(1)))
OfN1 == Term(Add(SizeN, Num(1)))

Is(a, x, op, l, r) ==
  [kind |-> "store", arr |-> a, idx |-> x, op |-> op, l |-> l, r |-> r, guarded |-> FALSE]
Set(a, x, v)     == Is(a, x, "none", v, v)
Rec(a, x, op, r) == Is(a, x, op, Load(a, x), r)
If(st)           == [st EXCEPT !.guarded = TRUE]

For(init, exit, body) ==
  [kind |-> "loop", init |-> init, exit |-> exit, strict |-> TRUE, step |-> 1, body |-> body]
Upto(init, exit, body) == [For(init, exit, body) EXCEPT !.strict = FALSE]
Down(init, exit, strict, body) == [For(init, exit, body) EXCEPT !.strict = strict, !.step = -1]

I1 == Add(Outer, Num(1))
N1 == Sub(SizeN, Num(1))

UpLoops(body) ==
  {For(Num(0), SizeN, body), For(Outer, SizeN, body), For(Num(0), I1, body),
   For(Num(0), Outer, body), Upto(Num(0), Outer, body), Upto(Num(0), N1, body),
   For(Num(1), SizeN, body), For(Num(2), SizeN, body), For(I1, SizeN, body),
   Upto(Outer, N1, body), For(Outer, I1, body)}

OtherLoops(body) ==
  {Down(SizeN, Num(0), TRUE, body), Down(N1, Num(0), FALSE, body), Down(N1, Num(-1), TRUE, body),
   Down(Outer, Num(0), FALSE, body), Down(N1, Outer, FALSE, body), Down(SizeN, Outer, TRUE, body),
   [For(Num(0), SizeN, body) EXCEPT !.step = 2], For(Num(-1), SizeN, body)}

Recs == {One, OfN, OfI, OfJ, OfI1, OfN1, Load("b", "outer"), Load("b", "inner"), Load("s", "zero"),
         Load("a", "outer"), Load("a", "inner")}

Places == {<<"a", "outer">>, <<"a", "inner">>, <<"a", "zero">>, <<"s", "zero">>}

InnerStores ==
  {Rec(q[1], q[2], op, r) : q \in Places, op \in {"add", "sub", "mul"}, r \in Recs}
    \cup {Is(q[1], q[2], op, r, Load(q[1], q[2])) : q \in Places, op \in {"add", "sub"}, r \in Recs}
    \cup {Is(q[1], q[2], "add", Load("b", "outer"), r) : q \in Places, r \in Recs}
    \cup {Set(q[1], q[2], r) : q \in Places, r \in {One, Load("b", "outer")}}
    \cup {If(Rec(q[1], q[2], "add", r)) : q \in Places, r \in {One, OfI}}

PlainLoops == {For(Num(0), SizeN, <<st>>) : st \in InnerStores}

Single ==
  {<<<<lp>>>> : lp \in PlainLoops}
    \cup {<<<<lp>>>> : lp \in UNION {UpLoops(<<Rec(q[1], q[2], op, r)>>) :
            q \in Places, op \in {"add", "sub"}, r \in {One, OfN, OfI, Load("b", "inner")}}}
    \cup {<<<<lp>>>> : lp \in UNION {OtherLoops(<<Rec(q[1], q[2], "add", One)>>) :
            q \in {<<"a", "outer">>, <<"s", "zero">>}}}
    \cup {<<<<For(Num(0), SizeN, <<Rec("a", "outer", "add", One), st>>)>>>> :
            st \in {Rec("a", "outer", "add", One), Rec("b", "outer", "add", One)}}

OuterItems ==
  {Rec("a", "outer", op, r) : op \in {"add", "sub", "mul"}, r \in {One, OfN, OfI, OfN1, Load("b", "outer"),
                                  Load("s", "zero"), Load("a", "outer")}}
    \cup {Rec("s", "zero", "add", One), Rec("b", "outer", "add", One), Rec("a", "zero", "add", One),
          Is("a", "outer", "sub", One, Load("a", "outer")), Set("a", "outer", One),
          If(Rec("a", "outer", "add", One))}

Around(lp, item) == {<<item, lp>>, <<lp, item>>}

WithOuter ==
  {<<body>> : body \in UNION {Around(For(Num(0), SizeN, <<Rec(q[1], q[2], "add", r)>>), st) :
     q \in {<<"a", "outer">>, <<"a", "inner">>, <<"s", "zero">>},
     r \in {One, OfI, Load("b", "inner"), Load("s", "zero")}, st \in OuterItems}}
    \cup {<<<<For(Num(0), I1, <<Rec("a", "inner", "add", Term(Num(2)))>>), st>>>> : st \in OuterItems}
    \cup {<<<<st1, For(Num(0), SizeN, <<Rec("a", "outer", "add", r)>>), st2>>>> :
            r \in {One, OfI}, st1 \in {Rec("a", "outer", "add", One)},
            st2 \in {Rec("a", "outer", "add", OfI), Rec("b", "outer", "add", OfI)}}
    \cup {<<<<For(Num(0), SizeN, <<Rec("a", x, "add", One)>>), Set("b", "outer", Load("a", "outer")),
              Rec("a", "outer", "add", r)>>>> : x \in {"outer", "inner"}, r \in {One, OfI}}

TwoLoops ==
  {<<<<For(Num(0), SizeN, <<st1>>), For(Num(0), I1, <<st2>>)>> \o rest>> :
     st1 \in {Rec("a", "outer", "add", One), Rec("b", "inner", "add", One), Rec("s", "zero", "add", One),
              Rec("b", "outer", "add", OfI)},
     st2 \in {Rec("a", "outer", "add", Load("b", "outer")), Rec("a", "inner", "add", Load("b", "inner")),
              Rec("a", "outer", "add", Load("s", "zero")), Rec("b", "inner", "add", Load("s", "zero")),
              Rec("a", "outer", "add", OfI), Rec("b", "inner", "sub", One)},
     rest \in {<<>>, <<Rec("a", "outer", "add", One)>>}}

\* A loop that sets b, or a nest, and then a nest that reads it.
Before ==
  {<<Set("b", "outer", v)>> : v \in {One, OfN, OfI, Load("a", "outer"), Load("s", "zero")}}
    \cup {<<Set("b", "zero", One)>>, <<If(Set("b", "outer", One))>>, <<Rec("b", "outer", "add", One)>>,
          <<Set("b", "outer", One), Rec("b", "outer", "add", One)>>,
          <<For(Num(0), I1, <<Rec("b", "outer", "add", One)>>)>>,
          <<Rec("b", "outer", "add", One), For(Num(0), I1, <<Rec("b", "outer", "add", One)>>)>>}

TwoNests ==
  {<<first, <<lp>>>> : first \in Before,
     lp \in UNION {UpLoops(<<st>>) : st \in
       {Rec("a", "outer", "add", Load("b", "inner")), Rec("a", "outer", "add", Load("b", "outer")),
        Rec("a", "inner", "add", Load("b", "outer")), Rec("a", "inner", "add", Load("b", "inner")),
        Rec("s", "zero", "add", Load("b", "inner"))}}}
    \cup {<<first, <<Set("c", "outer", Load("b", "outer"))>>, <<For(Num(0), SizeN, <<st>>)>>>> :
            first \in Before, st \in {Rec("a", "outer", "add", Load("c", "inner"))}}

\* additional-bench/safe/nested-*.c: the three shapes of inner loop, what they
\* add, and the loops before and after.
Shapes(body) == {For(Num(0), I1, body), For(Outer, SizeN, body), For(Num(0), SizeN, body)}

Benchmarks ==
  {<<<<Set("a", "outer", Term(Num(0)))>>, <<lp>>, <<Rec("a", "outer", "add", r)>>>> :
     lp \in UNION {Shapes(<<Rec("a", x, "add", q)>>) : x \in {"outer", "inner"}, q \in {One, OfN}},
     r \in {One, OfN, OfI}}
    \cup {<<<<Set("a", "outer", One)>>, <<lp>>, <<Set("b", "outer", Load("s", "zero"))>>>> :
            lp \in Shapes(<<Rec("s", "zero", "add", Load("a", "inner"))>>)}
    \cup {<<<<Set("b", "outer", OfN)>>, <<lp>>>> : lp \in Shapes(<<Rec("b", "inner", "add", Load("a", "inner"))>>)}
    \cup {<<<<Set("b", "outer", One)>>, <<Rec("s", "zero", "add", Load("b", "outer"))>>,
             <<lp, Rec("b", "outer", "add", r)>>>> :
            lp \in {For(Num(0), SizeN, <<Rec("b", "outer", "add", Load("s", "zero"))>>),
                    For(Num(0), Outer, <<Rec("b", "outer", "add", One)>>),
                    For(Outer, SizeN, <<Rec("b", "outer", "add", Load("s", "zero"))>>)},
            r \in {One, Load("s", "zero")}}

\* Inner loops enough for the iterator to pass over one, or to come to one
\* behind the end of the list that is still there; and twice the same loop.
MoreLoops ==
  LET lps == {For(Num(0), exit, <<st>>) : exit \in {SizeN, I1},
                st \in {Rec("a", "outer", "add", One), Rec("b", "inner", "add", One),
                        Rec("a", "outer", "add", OfI)}}
      plain == {For(Num(0), SizeN, <<Rec(a, "outer", "add", One)>>) : a \in {"a", "b"}}
  IN  {<<<<x, y, z>>>> : x, y, z \in lps}
        \cup {<<<<x, y, z, u>> \o rest>> : x, y, z, u \in plain,
                rest \in {<<>>, <<Rec("a", "outer", "add", One)>>}}
        \cup {<<<<x, Set("c", "outer", One), x>>, <<y>>>> : x, y \in plain}
        \cup {<<<<y>>, <<x, y, x>>, <<z>>>> : x, y, z \in plain}

AllNested == Single \cup WithOuter \cup TwoLoops \cup MoreLoops \cup TwoNests \cup Benchmarks

=============================================================================
