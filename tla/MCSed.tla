------------------------------- MODULE MCSed -------------------------------
(* Scripts and inputs for the TLC run of Sed.                              *)
EXTENDS Sed, TLC

Letters == {"none", "a", "b", "c", "A", "C", "I", "L"}

Num(n) == Spec0("num", n, 0, "none")
Last_  == Spec0("last", 0, 0, "none")
Pat(c) == Spec0("pat", 0, 0, c)
On(s)  == [start |-> s, end |-> NoSpec]
From(s, e) == [start |-> s, end |-> e]

Do(op) == [op |-> op, a |-> NoAddr, x |-> "none", y |-> "none", f |-> {}, to |-> 0]
At(a, s) == [s EXCEPT !.a = a]
S_(x, y, f) == [Do("s") EXCEPT !.x = x, !.y = y, !.f = f]
Text(op, t) == [Do(op) EXCEPT !.x = t]

Statements ==
    {Do(op) : op \in {"p", "n", "N", "D", "P", "h", "H", "G", "x", "close"}}
    \cup {Text(op, "L") : op \in {"b", "t", ":"}}
    \cup {At(On(Pat("b")), Do("n")), At(On(Pat("a")), Do("D"))}
    \cup {At(From(Num(1), Num(2)), Do("p")), At(From(Pat("a"), Pat("b")), Do("d")),
          At(On(Last_), Do("d")), At(On(Num(2)), Do("q")),
          S_("a", "b", {}), S_("b", "c", {"g", "p"}),
          At(On(Num(2)), [Do("y") EXCEPT !.x = "b", !.y = "a"]),
          At(On(Num(2)), Text("i", "I")), At(From(Num(2), Last_), Text("a", "A")),
          At(On(Pat("a")), Text("c", "C")), At(On(Num(2)), Do("open")),
          At(On(Spec0("step", 0, 2, "none")), Do("g"))}

AllScripts == UNION {[1 .. k -> Statements] : k \in 1 .. 3}
Lines == {<<<<"a", "b">>, <<"b">>, <<"a">>>>, <<<<"a", "a">>>>}
=============================================================================
