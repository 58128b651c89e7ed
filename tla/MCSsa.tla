------------------------------- MODULE MCSsa -------------------------------
(***************************************************************************)
(* Instances of ArraySsaRun: an array a of two elements and a scalar s.    *)
(***************************************************************************)
EXTENDS ArraySsaRun

MCArrays == {"a", "s"}
MCStatic == {"s"}

O(k, a, x, g) == [kind |-> k, arr |-> a, idx |-> x, guarded |-> g]
Loop(f, h, g, b) == [loop |-> TRUE, first |-> f, short |-> h, guarded |-> g, ops |-> b]
Block(g, b) == [loop |-> FALSE, first |-> 0, short |-> 0, guarded |-> g, ops |-> b]
Plain(b) == Loop(0, 0, FALSE, b)

Writer == Plain(<<O("store", "a", "counter", FALSE)>>)
Reader == Plain(<<O("load", "a", "counter", FALSE), O("load", "a", "below", FALSE),
                  O("load", "a", "above", FALSE)>>)

OpsOf(ks, gs) == {O(k, "a", x, g) : k \in ks, x \in Indices, g \in gs}

(* A loop of any shape updates a again, and a last one reads it. *)
Again ==
  {<<Writer, Loop(f, h, g, b), Reader>> :
     f \in 0..1, h \in 0..1, g \in BOOLEAN,
     b \in UNION {[1..n -> OpsOf({"load", "store"}, BOOLEAN)] : n \in 0..2}}
    \cup {<<Writer, Plain(b), Reader>> :
            b \in [1..3 -> OpsOf({"load", "store"}, {FALSE})]}
    \cup {<<Writer, Plain(b), Reader>> :
            b \in [1..3 -> {O("store", "a", "counter", g) : g \in BOOLEAN}
                             \cup {O("load", "a", x, g) : x \in {"zero", "counter"}, g \in BOOLEAN}]}
    \cup {<<Writer, Plain(b)>> : b \in [1..2 -> OpsOf({"load", "store", "update"}, {FALSE})]}

(* Sequences of loops and blocks over the array and the scalar. *)
Menu ==
  {Block(FALSE, <<O("store", "s", "zero", FALSE)>>),
   Block(TRUE, <<O("store", "s", "zero", FALSE)>>),
   Block(FALSE, <<O("load", "s", "zero", FALSE), O("store", "s", "zero", FALSE)>>),
   Block(FALSE, <<O("update", "s", "zero", FALSE), O("store", "a", "zero", FALSE)>>),
   Block(FALSE, <<O("store", "a", "zero", FALSE), O("load", "a", "zero", FALSE)>>),
   Plain(<<O("load", "s", "zero", FALSE), O("load", "a", "counter", FALSE),
           O("store", "s", "zero", TRUE)>>),
   Plain(<<O("load", "a", "counter", FALSE), O("load", "a", "below", FALSE),
           O("load", "s", "zero", FALSE), O("store", "a", "counter", FALSE)>>),
   Loop(1, 0, FALSE, <<O("load", "a", "below", FALSE), O("store", "a", "counter", FALSE)>>),
   Loop(0, 0, TRUE, <<O("store", "s", "zero", FALSE), O("load", "a", "zero", FALSE)>>),
   Loop(1, 1, FALSE, <<O("store", "s", "zero", FALSE)>>)}

Mixed == [1..4 -> Menu]

AllFunctions == Again \cup Mixed

(* Two or three updates of one element in an iteration, a store the last. *)
Updates == {O("store", "a", "counter", FALSE), O("load", "a", "counter", FALSE)}

Repeated ==
  {<<Writer, Plain(b)>> : b \in {c \in [1..3 -> Updates] :
     c[3].kind = "store" /\ \E i \in 1..2 : c[i].kind = "store"}}
=============================================================================
