------------------------------ MODULE MCInterp ------------------------------
(* Scripts for the TLC runs of Interp, and its properties against InterpRef. *)
EXTENDS Interp, TLC

Ref == INSTANCE InterpRef WITH RefCode <- CodeOf, RefMaxFn <- MaxFn,
                               RefMaxSubst <- MaxSubst,
                               RefMaxIter <- MaxIter, RefNil <- Nil

\* Commands and segments.
Cmd(op, x, n, v, b) == [op |-> op, x |-> x, n |-> n, v |-> v, body |-> b]
Seg(conn, c) == [conn |-> conn, do |-> c, bg |-> FALSE]
S(c)         == Seg("always", c)

Say(x)      == Cmd("mark", x, 0, Nil, Nil)
False       == Cmd("fail", Nil, 2, Nil, Nil)
Set(x, v)   == Cmd("assign", x, 0, v, Nil)
Sig(op, n)  == Cmd(op, Nil, n, Nil, Nil)
Is(x, v)    == Cmd("test", x, 0, v, Nil)
Def(f)      == Cmd("def", f, 0, Nil, Nil)
Run(op, b)  == Cmd(op, b, 0, Nil, Nil)
Cond(c, b)  == Cmd("if", Nil, 0, << <<c, b>>, <<Nil, "else">> >>, Nil)
Iter(op, v, b) == Cmd(op, "x", 0, v, b)
With(op, v) == Cmd(op, "x", 0, v, Nil)

\* The innermost block: a leaf command, alone or followed by a mark.
Leaves1 == {Say("c"), False, Set("y", "1"), With("local", "2"), With("cd", "/d"),
            Sig("break", 1), Sig("break", 2), Sig("continue", 1),
            Sig("continue", 2), Sig("exit", 4), Sig("exit", Nil),
            Sig("return", 5), Run("call", "g"), Cmd("setargs", Nil, 0, "a", Nil)}
SignalOps == {"break", "continue", "exit"}
InnerBlocks ==
    {<<S(l)>> : l \in Leaves1}
    \cup {<<S(l), Seg("always", Say("c2"))>> :
              l \in {m \in Leaves1 : m.op \in SignalOps}}
    \cup {<<S(l), Seg(k, Say("c2"))>> :
              l \in {m \in Leaves1 : m.op \in {"fail", "assign", "call"}},
              k \in {"and", "or"}}

Plain  == {"group", "not", "if", "case"}
Loops  == {"for", "while", "until"}
Around == Plain \cup Loops \cup {"sub", "pipe", "call", "subst"}

\* Construct op around block b; function f has body c.
Wrapped(op, b) ==
    CASE op \in {"group", "not", "sub"} -> Run(op, b)
      [] op = "if"    -> Cond("t", b)
      [] op = "case"  -> Cmd("case", "x", 0, << <<"1", b>>, <<Nil, b>> >>, Nil)
      [] op = "for"   -> Iter("for", <<"1", "2">>, b)
      [] op \in {"while", "until"} -> Iter(op, "t", b)
      [] op = "pipe"  -> Iter("pipe", "p", b)
      [] op = "call"  -> Run("call", IF b = "pb" THEN "pb" ELSE "f")
      [] op = "subst" -> Cmd("subst", "s", 0, Nil, b)

Trap(s, h) == Cmd("trap", s, 0, h, Nil)

\* A script id: family, the constructs around the inner block c, the
\* connector after the inner construct.
Id(fam, o1, o2, j, c) == [fam |-> fam, o1 |-> o1, o2 |-> o2, j |-> j, c |-> c]

Traps == [ERR |-> Trap("ERR", "h"), failing |-> Trap("ERR", "hf"),
          INT |-> Trap("INT", "h"),
          errexit |-> Cmd("errexit", Nil, 0, TRUE, Nil)]

Main(id) ==
    CASE id.fam = "nest" -> <<S(Def("f")), S(Def("g")), S(Wrapped(id.o1, "b")),
                              S(Say("m"))>>
      [] id.fam = "trap" -> <<S(Def("f")), S(Traps[id.o1]), S(Trap("EXIT", "h")),
                              S(Wrapped(id.o2, "c")),
                              [S(Run("call", "nosuch")) EXCEPT !.bg = TRUE]>>

MCCodeOf(id, b) ==
    CASE b = "m" -> Main(id)
      [] b = "b" -> <<S(Wrapped(id.o2, "c")), Seg(id.j, Say("b"))>>
      [] b \in {"c", "f"} -> id.c
      [] b = "t" -> <<S(Is("y", Nil))>>
      [] b = "p" -> <<S(Say("p")), S(Say("q"))>>
      [] b = "g" -> <<S(With("local", "3")), S(Say("g")), S(Run("call", "g"))>>
      [] b = "h" -> <<S(Say("h"))>>
      [] b = "hf" -> <<S(Say("h")), S(False)>>
      [] b = "else" -> <<S(Say("e"))>>
      [] b = "boom" -> <<S(Def("pb")), S(Set("y", "7")), S(Wrapped(id.boom, "pb"))>>
      [] b = "pb"   -> <<S(Set("y", "8")), S(Run("panic", "!"))>>

Script(id, cs, h) == [id |-> id, calls |-> cs, host |-> h]

\* Which leaves the promised semantics is compared on: the places where the
\* code is known to differ are left out (see README).
MayStand(l, o1, o2) ==       \* leaf l inside construct o2 inside construct o1
    CASE l.op \in {"break", "continue"} ->
           /\ o2 \in Loops \cup Plain
           /\ IF l.n = 1 THEN o2 \in Loops \/ o1 \in Loops
                         ELSE o2 \in Loops /\ o1 \in Loops
      [] l.op = "exit" -> {o1, o2} \cap {"not", "subst", "pipe"} = {}
      [] l.op = "return" -> o2 = "call"
      [] l.op = "setargs" -> "sub" \notin {o1, o2}
      [] OTHER -> TRUE

NestIds ==
    {Id("nest", o1, o2, j, c) : o1 \in Around \ {"call", "until"}, o2 \in Around,
                                j \in {"always", "or"}, c \in InnerBlocks}

CoreIds == {id \in NestIds : /\ MayStand(id.c[1].do, id.o1, id.o2)
                             /\ id.j = "or" => Len(id.c) = 1}

\* One call, or two of the same script on one shell.
Wide == {Script(id, IF id.j = "always" /\ Len(id.c) = 1 THEN <<"m", "m">> ELSE <<"m">>,
                "quiet") : id \in CoreIds}

\* A call that panics inside construct o, and then a clean one.
Boom ==
    { Script([boom |-> o] @@ id, <<"boom", "m">>, "quiet") :
        o \in Around, id \in {i \in CoreIds : /\ i.o1 \in {"sub", "for", "subst"}
                                             /\ i.o2 \in {"call", "while", "subst"}
                                             /\ Len(i.c) = 1} }

\* Scripts the host may cancel at any step.
MayBeCut == {"group", "sub", "for", "while", "until", "call", "pipe"}
CancelledScripts ==
    { Script(id, <<"m">>, "cancels") :
        id \in {i \in CoreIds :
            /\ {i.o1, i.o2} \subseteq MayBeCut /\ Len(i.c) = 1
            /\ i.c[1].do \in {Say("c"), False, Set("y", "1"), Run("call", "g")}} }

\* Traps, set -e, background, unknown commands: no reference meaning.
TrapScripts ==
    { Script(Id("trap", t, k, "always", c), <<"m", "m">>, h) :
        t \in DOMAIN Traps, k \in {"call", "for", "not"}, h \in {"other", "cancels"},
        c \in {<<S(False), S(Say("c"))>>, <<S(False), Seg("or", Say("c"))>>} }

All == Wide \cup Boom \cup CancelledScripts \cup TrapScripts

Meant(k) == Ref!CallMeaning(script.id, script.calls[k], start)

\* The interpreter means what InterpRef says: a call's exit code, its output,
\* the commands that took effect and the shell it leaves are those of the
\* recursive definition, started from the shell the call before it left, even
\* by a panic (executor.rs:205, 1002, 1022, 1122, 1754, 136).
Agrees ==
    stack = <<>> /\ calls > 0 /\ script.host = "quiet"
        /\ results[calls].code # 134 =>
        LET r == Meant(calls)
        IN  /\ results[calls] = Out(r.code, r.out)
            /\ trace = r.trace /\ sh = r.sh /\ rest.pos = r.pos

\* A cancelled call says so, or had done everything (executor.rs:232, 1101,
\* 1155; shell/mod.rs:458).  `if` and `!` turn 143 into another code.
CancelShows ==
    stack = <<>> /\ calls > 0 /\ script.host = "cancels" /\ script.id.fam = "nest" =>
        results[calls].code = 143 \/ trace = Meant(calls).trace
=============================================================================
