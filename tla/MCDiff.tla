------------------------------- MODULE MCDiff -------------------------------
(***************************************************************************)
(* Instances of DiffRun: arrays a and b of size N, scalars x, y and z.     *)
(***************************************************************************)
EXTENDS DiffRun

MCArrays == {"a", "b", "x", "y", "z"}
MCStatic == {"x", "y", "z"}

\* Contents at entry without a pattern that could hide a missing addition.
MCContents(a, i) ==
  [a |-> <<5, 11, 2, 8>>, b |-> <<7, 3, 13, 4>>, x |-> <<17, 17, 17, 17>>,
   y |-> <<29, 29, 29, 29>>, z |-> <<31, 31, 31, 31>>][a][i + 1]

T(c, n, sq, ni, i) == [c |-> c, n |-> n, sq |-> sq, ni |-> ni, i |-> i]
None == T(0, 0, 0, 0, 0)
One  == T(1, 0, 0, 0, 0)
OfN  == T(0, 1, 0, 0, 0)
OfNN == T(0, 0, 1, 0, 0)
OfNI == T(0, 0, 0, 1, 0)
OfI  == T(0, 0, 0, 0, 1)

L(a)        == [arr |-> a, idx |-> "counter", coef |-> 1]
Below(a)    == [arr |-> a, idx |-> "below", coef |-> 1]
AtEnd(a)    == [arr |-> a, idx |-> "last", coef |-> 1]
Times(k, l) == [l EXCEPT !.coef = k]

Is(a, ls, t)     == [arr |-> a, loads |-> ls, term |-> t, shape |-> "added", rem |-> 0]
Minus(a, ls, t)  == [Is(a, ls, t) EXCEPT !.shape = "subtracted"]
Spread(a, ls, t) == [Is(a, ls, t) EXCEPT !.shape = "spread"]

Rem(st)          == [st EXCEPT !.rem = 3]

Loop(f, body) == [loop |-> TRUE, first |-> f, ofN |-> FALSE, body |-> body]
Block(body)   == [loop |-> FALSE, first |-> 0, ofN |-> FALSE, body |-> body]
LoopIf(body)  == [Loop(0, body) EXCEPT !.ofN = TRUE]

LoopStores ==
  {Is("a", <<>>, t) : t \in {OfN, One, OfNI, OfI}}
    \cup {Is("a", <<L("a")>>, t) : t \in {One, OfN}}
    \cup {Is("a", <<L("b")>>, t) : t \in {None, OfN}}
    \cup {Is("b", <<L("a")>>, t) : t \in {None, OfN}}
    \cup {Is("b", <<L("x")>>, None), Is("a", <<L("y")>>, One), Is("b", <<L("a"), L("x")>>, None),
          Is("b", <<Times(2, L("a"))>>, None),
          Minus("b", <<L("a")>>, OfN), Spread("b", <<L("a")>>, OfN)}
    \cup {Is("x", <<L("x")>>, t) : t \in {None, One, OfN, OfNI, OfI, OfNN}}
    \cup {Is("x", <<L("x"), L("a")>>, t) : t \in {None, OfN}}
    \cup {Is("x", <<L("x"), Times(k, L("a"))>>, None) : k \in {-1, 2}}
    \cup {Is("x", <<L("a")>>, OfN)}
    \cup {Is("y", <<L("y"), L("b")>>, None), Is("y", <<L("y"), L("x")>>, None),
          Is("x", <<L("x"), L("x")>>, None), Is("x", <<Times(2, L("x"))>>, OfN),
          Is("x", <<L("a")>>, None), Is("x", <<>>, OfN),
          Minus("x", <<L("x")>>, OfN), Spread("x", <<L("x"), L("b")>>, OfN)}

FromOne ==
  {Is("a", <<Below("a")>>, t) : t \in {None, One, OfN}}
    \cup {Is("a", <<Below("a"), L("b")>>, None), Is("b", <<Below("a")>>, None),
          Is("a", <<Times(2, Below("a"))>>, None), Is("y", <<L("y"), Below("a")>>, None),
          Is("x", <<L("x"), L("a")>>, None), Is("a", <<>>, OfN), Is("x", <<L("x")>>, OfN),
          Is("x", <<>>, OfN), Is("a", <<L("x")>>, None)}

BlockStores ==
  {Is(a, <<>>, t) : a \in {"x", "a"}, t \in {One, OfN}}
    \cup {Is("y", <<L("x")>>, t) : t \in {None, One, OfN}}
    \cup {Is("x", <<L("x")>>, One), Is("a", <<L("x")>>, None), Is("a", <<L("x")>>, One),
          Is("y", <<L("a")>>, None), Is("y", <<L("a")>>, One)}

Singles ==
  {Loop(0, <<s>>) : s \in LoopStores} \cup {Loop(1, <<s>>) : s \in FromOne}
    \cup {Block(<<s>>) : s \in BlockStores}

(* Two items of one store each; one item of two stores, then a reader. *)
TwoItems  == [1..2 -> Singles]
Readers   == {Loop(0, <<Is("y", <<L("y"), L("b")>>, None)>>), Loop(0, <<Is("b", <<L("y")>>, None)>>)}
TwoStores ==
  {<<Loop(0, <<s, t>>)>> : s \in LoopStores, t \in LoopStores}
    \cup {<<Block(<<s, t>>), r>> : s \in BlockStores, t \in BlockStores, r \in Readers}

(* Chains in which what one item records reaches the next. *)
Links ==
  {Block(<<Is("x", <<>>, OfN)>>), Block(<<Is("y", <<L("x")>>, None)>>), Block(<<Is("a", <<>>, OfN)>>),
   Loop(0, <<Is("a", <<>>, OfN)>>), Loop(0, <<Is("b", <<L("a")>>, One)>>), Loop(0, <<Is("b", <<L("y")>>, None)>>),
   Loop(0, <<Is("x", <<L("x"), L("a")>>, None)>>), Loop(0, <<Is("y", <<L("y"), L("b")>>, OfN)>>),
   Loop(0, <<Is("y", <<L("y"), L("b")>>, None)>>), Loop(1, <<Is("a", <<Below("a")>>, None)>>)}
Chains == [1..3 -> Links]

(***************************************************************************)
(* Benchmarks of cav21-bench/safe as array_ssa leaves them: ss1.c;         *)
(* sina2.c; two loops of ncomp.c; zero_sum1.c; and a function that adds    *)
(* every kind of recorded value.                                           *)
(***************************************************************************)
Benchmarks ==
  {<<Block(<<Is("x", <<>>, None)>>), Loop(0, <<Is("a", <<>>, One)>>),
     Block(<<Is("y", <<L("x")>>, None)>>), Loop(0, <<Is("y", <<L("y"), L("a")>>, None)>>),
     Loop(0, <<Is("b", <<L("a"), L("y")>>, None)>>),
     Block(<<Is("z", <<L("y")>>, None)>>), Loop(0, <<Is("z", <<L("z"), L("b")>>, None)>>)>>,
   <<Block(<<Is("x", <<>>, None)>>), Loop(0, <<Is("a", <<>>, One)>>),
     Block(<<Is("y", <<L("x")>>, None)>>), Loop(0, <<Is("y", <<L("y"), L("a")>>, None)>>),
     Loop(0, <<Is("b", <<L("a"), L("y")>>, None)>>)>>,
   <<Block(<<Is("a", <<>>, One), Is("b", <<>>, OfN)>>), Loop(1, <<Is("a", <<Below("a")>>, One)>>),
     Loop(1, <<Is("b", <<Below("b"), Below("a")>>, None)>>)>>,
   <<Block(<<Is("x", <<>>, None)>>),
     Block(<<Is("y", <<L("x")>>, None)>>), Loop(0, <<Is("y", <<L("y"), L("a")>>, None)>>),
     Block(<<Is("z", <<L("y")>>, None)>>), Loop(0, <<Is("z", <<L("z"), Times(-1, L("a"))>>, None)>>)>>,
   <<Block(<<Is("x", <<>>, OfN)>>), Loop(0, <<Is("a", <<L("x")>>, None)>>),
     Loop(0, <<Is("b", <<L("a")>>, OfN)>>), Block(<<Is("y", <<>>, None)>>),
     Block(<<Is("z", <<L("y")>>, None)>>), Loop(0, <<Is("z", <<L("z"), L("b")>>, OfN)>>)>>}

(* N in the index of a load, with and without a loop. *)
Indexed ==
  {<<f, g>> : f \in {Loop(0, <<Is("a", <<>>, OfN)>>), Block(<<Is("a", <<>>, One)>>)},
              g \in {Loop(0, <<Is("b", <<AtEnd("a")>>, None)>>), Block(<<Is("y", <<AtEnd("a")>>, None)>>)}}

AllFunctions == TwoItems \cup TwoStores \cup Chains \cup Benchmarks \cup Indexed

(* What mode 4 sets the flag for, alone and before a reader. *)
Flagged ==
  {Loop(0, <<Rem(s)>>) : s \in {Is("a", <<L("b")>>, OfN), Is("x", <<L("x"), L("a")>>, None), Is("x", <<L("x")>>, One)}}
    \cup {Block(<<Rem(s)>>) : s \in {Is("y", <<L("x")>>, None), Is("x", <<>>, OfN)}}
    \cup {LoopIf(<<s>>) : s \in {Is("a", <<>>, OfN), Is("a", <<>>, One), Is("x", <<L("x"), L("a")>>, None)}}

(* A store of N and loads outside the loops. *)
BlocksOfN == {Block(<<Is("x", <<L("x")>>, OfN)>>), Block(<<Is("a", <<L("x")>>, OfN)>>)}

(* A recurrence that reads another array, both with recorded values. *)
Recurrences ==
  {<<f, g, Loop(1, <<Is("a", <<Below("a"), L("b")>>, None)>>)>> :
     f \in {Block(<<Is("a", <<>>, t)>>) : t \in {OfN, One}},
     g \in {Loop(0, <<Is("b", <<>>, t)>>) : t \in {OfN, One}}}
    \cup {<<Block(<<Is("a", <<>>, t)>>), Loop(1, <<Is("a", <<Below("a"), Below("a")>>, None)>>)>> :
            t \in {OfN, One}}

MCFunctions ==
  AllFunctions \cup Recurrences
    \cup {<<f, g>> : f \in Flagged \cup BlocksOfN, g \in Links \cup Flagged \cup BlocksOfN}
    \cup {<<g, f>> : f \in Flagged \cup BlocksOfN, g \in Links}

(* for(i = 0; i < N; i++) a[i] = i, of which N - 1 is the last; or a[i] = N. *)
Counting == {<<Loop(0, <<Is("a", <<>>, OfI)>>)>>, <<Loop(0, <<Is("a", <<>>, OfN)>>)>>}
BothModes == {4, 6}
Only6     == {6}

NoClaims == {[arr |-> "a", term |-> None]}
MCClaims == {[arr |-> "a", term |-> t] : t \in {None, OfN, OfI, T(-1, 1, 0, 0, 0)}}
=============================================================================
