----------------------------- MODULE InterpRef -----------------------------
(***************************************************************************)
(* What a script means, as a recursive definition over its blocks with no   *)
(* stack, no counters and no flags: the shell semantics that Interp's frames *)
(* and signals are an implementation of.  A state is [sh, pos, last, loc,   *)
(* code, out, trace, sig]; loc maps the variables the running function made  *)
(* local to the values they had outside; sig is what cuts the list short.    *)
(***************************************************************************)
EXTENDS Integers, Sequences, SequencesExt, TLC

CONSTANTS RefCode(_, _), RefMaxFn, RefMaxSubst, RefMaxIter, RefNil

None      == [k |-> "none", n |-> 0]
Cut(k, n) == [k |-> k, n |-> n]

\* `exit N` is the status of the shell it ends.
Status(r) == IF r.sig.k = "exit" THEN r.sig.n ELSE r.code

RECURSIVE Meaning(_, _, _, _, _), MeaningOf(_, _, _, _), Repeat(_, _, _, _, _)

\* Segments i, i + 1, ... of block b; d is the depth [fn, subst] of s.
Meaning(C, b, i, s, d) ==
    IF i > Len(RefCode(C, b)) \/ s.sig # None THEN s
    ELSE LET seg == RefCode(C, b)[i]
             skip == \/ seg.conn = "and" /\ s.code # 0
                     \/ seg.conn = "or" /\ s.code = 0
             r == MeaningOf(C, seg.do, [s EXCEPT !.out = <<>>], d)
         IN  IF i > 1 /\ skip THEN Meaning(C, b, i + 1, s, d)
             ELSE Meaning(C, b, i + 1,
                          [r EXCEPT !.out = s.out \o r.out, !.last = r.code], d)

\* A block as a list of its own: starts with code 0 and no output.
Inner(C, b, s, d) == Meaning(C, b, 1, [s EXCEPT !.code = 0, !.out = <<>>], d)

\* A loop from its k-th pass on; acc holds the output and code so far.
Repeat(C, c, words, acc, d) ==
    LET k    == acc.pass
        wh   == c.op \in {"while", "until"}
        s0   == acc.s
        cnd  == Inner(C, c.v, s0, d)
        go   == IF wh THEN k <= RefMaxIter /\ ((cnd.code = 0) = (c.op = "while"))
                      ELSE k <= Len(words)
        s1   == IF wh THEN cnd ELSE [s0 EXCEPT !.sh.vars[c.x] = words[k]]
        r    == Inner(C, c.body, s1, d)
        r2   == [r EXCEPT !.out = s0.out \o r.out]
        done == [r2 EXCEPT !.sig = IF r.sig.n > 1 THEN [@ EXCEPT !.n = @ - 1]
                                                  ELSE None]
    IN  IF ~go THEN IF wh /\ k <= RefMaxIter
                    THEN [cnd EXCEPT !.code = s0.code, !.out = s0.out] ELSE s0
        ELSE CASE r.sig.k \in {"exit", "return"} -> r2
               [] r.sig.k = "break" -> done
               [] r.sig.k = "continue" /\ r.sig.n > 1 -> done
               [] OTHER -> Repeat(C, c, words,
                             [pass |-> k + 1, s |-> [r2 EXCEPT !.sig = None]], d)

MeaningOf(C, c, s, d) ==
    CASE c.op = "mark" ->
           [s EXCEPT !.code = 0, !.out = <<c.x>>, !.trace = Append(@, c.x)]
      [] c.op = "fail" -> [s EXCEPT !.code = c.n]
      [] c.op = "test" -> [s EXCEPT !.code = IF s.sh.vars[c.x] = c.v THEN 0 ELSE 1]
      [] c.op = "cd" -> [s EXCEPT !.code = 0, !.sh.cwd = c.v]
      [] c.op = "assign" -> [s EXCEPT !.code = 0, !.sh.vars[c.x] = c.v]
      [] c.op = "def" -> [s EXCEPT !.code = 0, !.sh.funs = @ \cup {c.x}]
      [] c.op = "setargs" -> [s EXCEPT !.code = 0, !.pos = c.v]
      [] c.op = "local" ->
           IF d.fn = 0 THEN [s EXCEPT !.code = 0]
           ELSE [s EXCEPT !.code = 0, !.sh.vars[c.x] = c.v,
                          !.loc = IF c.x \in DOMAIN @ THEN @
                                  ELSE @ @@ (c.x :> s.sh.vars[c.x])]
      [] c.op \in {"break", "continue"} ->
           [s EXCEPT !.code = 0, !.sig = Cut(c.op, c.n)]
      [] c.op \in {"return", "exit"} ->
           LET code == IF c.n = RefNil THEN s.last ELSE c.n
           IN  [s EXCEPT !.code = code, !.sig = Cut(c.op, code)]
      [] c.op = "group" -> Inner(C, c.x, s, d)
      [] c.op = "not" -> LET r == Inner(C, c.x, s, d)
                         IN  [r EXCEPT !.code = IF r.code = 0 THEN 1 ELSE 0]
      [] c.op = "case" ->
           LET hit == SelectInSeq(c.v, LAMBDA br : br[1] = s.sh.vars[c.x])
           IN  IF hit = 0 THEN [s EXCEPT !.code = 0] ELSE Inner(C, c.v[hit][2], s, d)
      [] c.op = "if" ->
           LET br == c.v[1]
               cnd == Inner(C, br[1], s, d)
           IN  IF c.v = <<>> THEN [s EXCEPT !.code = 0]
               ELSE IF br[1] = RefNil THEN Inner(C, br[2], s, d)
               ELSE IF cnd.code = 0
               THEN Inner(C, br[2], [cnd EXCEPT !.out = <<>>], d)
               ELSE MeaningOf(C, [c EXCEPT !.v = Tail(@)],
                              [cnd EXCEPT !.out = <<>>], d)
      [] c.op = "for" ->
           Repeat(C, c, c.v, [pass |-> 1, s |-> [s EXCEPT !.code = 0]], d)
      [] c.op \in {"while", "until"} ->
           Repeat(C, c, <<>>, [pass |-> 1, s |-> [s EXCEPT !.code = 0]], d)
      [] c.op = "pipe" ->
           LET p == Inner(C, c.v, s, d)
           IN  IF p.code # 0 /\ p.out = <<>> THEN p
               ELSE Repeat(C, c, p.out, [pass |-> 1,
                             s |-> [p EXCEPT !.code = 0, !.out = <<>>]], d)
      [] c.op = "call" ->
           IF c.x \notin s.sh.funs THEN [s EXCEPT !.code = 127]
           ELSE IF d.fn >= RefMaxFn THEN [s EXCEPT !.code = 1]
           ELSE LET r == Inner(C, c.x, [s EXCEPT !.pos = c.x, !.loc = <<>>],
                               [d EXCEPT !.fn = @ + 1])
                IN  [r EXCEPT !.pos = s.pos, !.loc = s.loc,
                       !.sh.vars = [x \in DOMAIN @ |-> IF x \in DOMAIN r.loc
                                                       THEN r.loc[x] ELSE @[x]],
                       !.sig = IF @.k = "return" THEN None ELSE @]
      [] c.op = "sub" ->
           LET r == Inner(C, c.x, s, d)
           IN  [s EXCEPT !.code = Status(r), !.out = r.out, !.trace = r.trace]
      [] c.op = "subst" ->
           LET r == Inner(C, c.body, s, [d EXCEPT !.subst = @ + 1])
               q == IF d.subst >= RefMaxSubst THEN s ELSE [r EXCEPT !.sig = None]
           IN  [q EXCEPT !.code = 0, !.out = <<c.x>>, !.trace = Append(@, c.x)]

\* One host call of block b from shell state st.
CallMeaning(C, b, st) ==
    LET r == Inner(C, b, [sh |-> st.sh, pos |-> st.pos, last |-> st.last, loc |-> <<>>,
                 code |-> 0, out |-> <<>>, trace |-> <<>>, sig |-> None],
                   [fn |-> 0, subst |-> 0])
    IN  [r EXCEPT !.code = Status(r)]
=============================================================================
