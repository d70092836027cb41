-------------------------------- MODULE Sed --------------------------------
(***************************************************************************)
(* The stream editor (commands/sed.rs).  It has two interpreters: a script  *)
(* with control flow runs command by command on a pattern space (apply_sed_ *)
(* script); any other goes the fast path, line by line (apply_sed_commands).*)
(* Here the first runs every script, and the second is an operator.         *)
(*                                                                         *)
(* A line is a sequence of letters, a pattern space a sequence of lines.    *)
(* Regular expressions are single letters; how a script is cut into         *)
(* statements is left out.                                                 *)
(***************************************************************************)
EXTENDS Integers, SequencesExt

CONSTANTS
    Letter,     \* what lines are made of, "none" where a statement has none
    Scripts,    \* sequences of statements
    Inputs,     \* sequences of lines
    MaxSpace,   \* bound on the lines in the pattern and in the hold space
    MaxQueue,   \* bound on what waits to be printed at the end of a cycle
    MaxOut      \* bound on the lines of output

\* A statement [op, a, x, y, f, to]: its address, a letter, text or label, a
\* letter, flags of s, and where it jumps.
Spec0(k, n, m, c) == [k |-> k, n |-> n, m |-> m, c |-> c]
NoSpec   == Spec0("none", 0, 0, "none")
NoAddr   == [start |-> NoSpec, end |-> NoSpec]
HasAddr(s)  == s.a # NoAddr
IsRange(s)  == s.a.end # NoSpec
\* open and close are { and }.
Texts   == {"i", "a", "c"}
Control == {"n", "N", "D", "P", "h", "H", "g", "G", "x", "b", "t", ":", "open", "close"}
NoText  == <<"no_text">>

\* What parse_addr and parse_sed_command make: an end has a start.
LineSpec  == [k : {"num", "last", "pat", "step"}, n : Nat, m : Nat, c : Letter] \cup {NoSpec}
Addr      == {a \in [start : LineSpec, end : LineSpec] : a.start = NoSpec => a = NoAddr}
Statement == [op : Control \cup Texts \cup {"d", "p", "q", "s", "y"}, a : Addr, x : Letter, y : Letter,
              f : SUBSET {"g", "p"}, to : Nat]

ASSUME SedAssumption ==
    /\ MaxSpace \in Nat /\ MaxQueue \in Nat /\ MaxOut \in Nat
    /\ "none" \in Letter /\ Scripts \subseteq Seq(Statement) /\ Inputs \subseteq Seq(Seq(Letter))

\* sed_stmt_is_control: which scripts leave the fast path.
IsControl(s) == \/ s.op \in Control /\ (s.op = "open" => ~HasAddr(s))
                \/ IsRange(s) /\ "pat" \in {s.a.start.k, s.a.end.k}
IsScript(S)  == \E k \in 1 .. Len(S) : IsControl(S[k])

VARIABLES
    stmts, prog,    \* the script, and what parse_sed_program makes of it
    quiet, input,
    i,              \* lines read
    hold,           \* the hold space
    active,         \* which ranges are open
    cyc,            \* of this cycle: [pat, no, subst, changed, extra, ins, app]
    pc, out,
    phase           \* "start" of a cycle, "run", "end" of it, "quit", "done"

given == <<stmts, prog, quiet, input>>
vars  == <<given, i, hold, active, cyc, pc, out, phase>>

-----------------------------------------------------------------------------
(* parse_sed_program.                                                      *)

\* `}` closes the innermost block or is dropped.  A block left open ends at the
\* end; a label that is defined twice is the last one; b and t lose an address,
\* and go to the end of the script if there is no such label.
Closed(p) ==
    [cmds  |-> Append([p.cmds EXCEPT ![Last(p.stack)].to = Len(p.cmds) + 1],
                      [op |-> "close", a |-> NoAddr, x |-> "none", y |-> "none", f |-> {}, to |-> 0]),
     stack |-> Front(p.stack)]
Pushed(p, s) ==
    CASE s.op = "close" -> IF p.stack = <<>> THEN p ELSE Closed(p)
      [] s.op = "open" -> [cmds |-> Append(p.cmds, s), stack |-> Append(p.stack, Len(p.cmds) + 1)]
      [] s.op \in {"b", "t", ":"} -> [p EXCEPT !.cmds = Append(@, [s EXCEPT !.a = NoAddr])]
      [] OTHER -> [p EXCEPT !.cmds = Append(@, s)]
Program(S) ==
    LET parsed == FoldLeft(Pushed, [cmds |-> <<>>, stack |-> <<>>], S)
        cmds   == FoldLeft(LAMBDA p, s : Closed(p), parsed, parsed.stack).cmds
        at(l)  == {k \in 1 .. Len(cmds) : cmds[k].op = ":" /\ cmds[k].x = l}
        goal(l) == IF at(l) = {} THEN Len(cmds) + 1 ELSE CHOOSE k \in at(l) : \A j \in at(l) : j <= k
    IN  [k \in 1 .. Len(cmds) |->
            IF cmds[k].op \in {"b", "t"} THEN [cmds[k] EXCEPT !.to = goal(cmds[k].x)] ELSE cmds[k]]

-----------------------------------------------------------------------------
(* Matching and substituting, in a sequence of lines.                      *)

Occurs(c, pat) == \E l \in 1 .. Len(pat) : c \in Range(pat[l])
OnStep(s, no) ==
    LET first == IF s.n = 0 THEN s.m ELSE s.n
    IN  s.m # 0 /\ no >= first /\ (no - first) % s.m = 0
Mapped(x, y, pat) ==
    [l \in 1 .. Len(pat) |-> [k \in 1 .. Len(pat[l]) |-> IF pat[l][k] = x THEN y ELSE pat[l][k]]]
Subst(s, pat) ==
    IF "g" \in s.f THEN Mapped(s.x, s.y, pat)
    ELSE IF ~Occurs(s.x, pat) THEN pat
    ELSE LET l == SelectInSeq(pat, LAMBDA line : s.x \in Range(line))
         IN  [pat EXCEPT ![l][SelectInSeq(pat[l], LAMBDA c : c = s.x)] = s.y]

\* Addr::hit, the stateful match: a range is open until a line that ends it.
Starts(s, no, total, pat) ==
    CASE s.k = "num"  -> no = s.n
      [] s.k = "last" -> no = total
      [] s.k = "pat"  -> Occurs(s.c, pat)
      [] s.k = "step" -> OnStep(s, no)
\* Mutant of Ends: past its last line.
EndsLate(s, no, total, pat) ==
    CASE s.k = "num"  -> no > s.n
      [] s.k = "last" -> no >= total
      [] s.k = "pat"  -> Occurs(s.c, pat)
      [] s.k = "step" -> FALSE
Ends(s, no, total, pat) ==
    CASE s.k = "num"  -> no >= s.n
      [] s.k = "last" -> no >= total
      [] s.k = "pat"  -> Occurs(s.c, pat)
      [] s.k = "step" -> FALSE

Cmd == prog[pc]
Hit == \/ ~HasAddr(Cmd)
       \/ IsRange(Cmd) /\ active[pc]
       \/ Starts(Cmd.a.start, cyc.no, Len(input), cyc.pat)
Look == active' = IF IsRange(Cmd) /\ Hit
                    THEN [active EXCEPT ![pc] = ~Ends(Cmd.a.end, cyc.no, Len(input), cyc.pat)] ELSE active

-----------------------------------------------------------------------------
(* apply_sed_script, one action per command.                               *)

Fresh(line, no) ==
    [pat |-> <<line>>, no |-> no, subst |-> FALSE, changed |-> NoText, extra |-> 0,
     ins |-> <<>>, app |-> <<>>]

\* The next line, a new cycle.
Start ==
    /\ phase = "start"
    /\ IF i < Len(input)
         THEN /\ cyc' = Fresh(input[i + 1], i + 1)
              /\ pc' = 1 /\ phase' = "run"
         ELSE phase' = "done" /\ UNCHANGED <<cyc, pc>>
    /\ UNCHANGED <<given, i, hold, active, out>>

Running(op) == phase = "run" /\ pc <= Len(prog) /\ Cmd.op = op
Shown(lines) == IF quiet THEN out ELSE out \o lines
\* Goes on with the pattern space, or another part of the cycle, changed.
Step(c) == cyc' = c /\ pc' = pc + 1 /\ UNCHANGED <<given, i, hold, out, phase>>

Block ==
    /\ Running("open") /\ Look
    /\ pc' = IF Hit THEN pc + 1 ELSE Cmd.to + 1
    /\ UNCHANGED <<given, i, hold, cyc, out, phase>>
NoOp == (Running("close") \/ Running(":")) /\ Step(cyc) /\ UNCHANGED active
Branch ==
    /\ Running("b") /\ pc' = Cmd.to
    /\ UNCHANGED <<given, i, hold, active, cyc, out, phase>>
BranchIfSubst ==
    /\ Running("t")
    /\ pc' = IF cyc.subst THEN Cmd.to ELSE pc + 1
    /\ cyc' = [cyc EXCEPT !.subst = FALSE]
    /\ UNCHANGED <<given, i, hold, active, out, phase>>

\* n prints the pattern space and reads the next line; without one it quits.
\* Mutant of Next_: it quits as q does, and prints the last line again.
NextPrintsAgain ==
    /\ Running("n") /\ Look
    /\ IF ~Hit THEN pc' = pc + 1 /\ UNCHANGED <<i, cyc, out, phase>>
       ELSE /\ out' = Shown(cyc.pat) /\ i' = i + 1
            /\ IF i + 1 >= Len(input) THEN phase' = "end" /\ UNCHANGED <<cyc, pc>>
               ELSE /\ cyc' = [cyc EXCEPT !.pat = <<input[i + 2]>>, !.no = i + 2, !.subst = FALSE]
                    /\ pc' = pc + 1 /\ UNCHANGED phase
    /\ UNCHANGED <<given, hold>>
Next_ ==
    /\ Running("n") /\ Look
    /\ IF ~Hit THEN pc' = pc + 1 /\ UNCHANGED <<i, cyc, out, phase>>
       ELSE /\ out' = Shown(cyc.pat) /\ i' = i + 1
            /\ IF i + 1 >= Len(input) THEN phase' = "no_print" /\ UNCHANGED <<cyc, pc>>
               ELSE /\ cyc' = [cyc EXCEPT !.pat = <<input[i + 2]>>, !.no = i + 2, !.subst = FALSE]
                    /\ pc' = pc + 1 /\ UNCHANGED phase
    /\ UNCHANGED <<given, hold>>

\* N appends the next line, if there is one; the line number stays.
AppendNext ==
    /\ Running("N") /\ Look
    /\ IF Hit /\ i + 1 < Len(input)
         THEN i' = i + 1 /\ cyc' = [cyc EXCEPT !.pat = Append(@, input[i + 2])]
         ELSE UNCHANGED <<i, cyc>>
    /\ Len(cyc'.pat) <= MaxSpace
    /\ pc' = pc + 1 /\ UNCHANGED <<given, hold, out, phase>>

\* D deletes the first line and starts again with the others; with none left it
\* ends the cycle, whose queued text is lost.  Mutant of DeleteFirst: starts
\* again anyhow.
DeleteFirstAgain ==
    /\ Running("D") /\ Look
    /\ IF ~Hit THEN pc' = pc + 1 /\ UNCHANGED cyc
       ELSE /\ cyc' = [cyc EXCEPT !.pat = IF Len(@) > 1 THEN Tail(@) ELSE @, !.subst = FALSE]
            /\ pc' = 1
    /\ UNCHANGED <<given, i, hold, out, phase>>
DeleteFirst ==
    /\ Running("D") /\ Look
    /\ CASE ~Hit -> pc' = pc + 1 /\ UNCHANGED <<i, cyc, phase>>
         [] Hit /\ Len(cyc.pat) > 1 ->
              /\ cyc' = [cyc EXCEPT !.pat = Tail(@), !.subst = FALSE]
              /\ pc' = 1 /\ UNCHANGED <<i, phase>>
         [] OTHER -> i' = i + 1 /\ phase' = "start" /\ UNCHANGED <<cyc, pc>>
    /\ UNCHANGED <<given, hold, out>>

PrintFirst ==
    /\ Running("P") /\ Look
    /\ out' = IF Hit THEN Append(out, Head(cyc.pat)) ELSE out
    /\ pc' = pc + 1 /\ UNCHANGED <<given, i, hold, cyc, phase>>

\* h, H, g, G and x.
Hold ==
    /\ phase = "run" /\ pc <= Len(prog) /\ Cmd.op \in {"h", "H", "g", "G", "x"} /\ Look
    /\ LET p == cyc.pat
           q == CASE Cmd.op = "h" -> <<p, p>>
                  [] Cmd.op = "H" -> <<p, hold \o p>>
                  [] Cmd.op = "g" -> <<hold, hold>>
                  [] Cmd.op = "G" -> <<p \o hold, hold>>
                  [] Cmd.op = "x" -> <<hold, p>>
       IN  IF Hit THEN cyc' = [cyc EXCEPT !.pat = q[1]] /\ hold' = q[2]
                  ELSE UNCHANGED <<cyc, hold>>
    /\ Len(cyc'.pat) <= MaxSpace /\ Len(hold') <= MaxSpace
    /\ pc' = pc + 1 /\ UNCHANGED <<given, i, out, phase>>

\* d ends the cycle, whose queued text is lost.
Delete ==
    /\ Running("d") /\ Look
    /\ IF Hit THEN i' = i + 1 /\ phase' = "start" /\ UNCHANGED pc
              ELSE pc' = pc + 1 /\ UNCHANGED <<i, phase>>
    /\ UNCHANGED <<given, hold, cyc, out>>

Quit ==
    /\ Running("q") /\ Look
    /\ IF Hit THEN phase' = "quit" /\ UNCHANGED pc ELSE pc' = pc + 1 /\ UNCHANGED phase
    /\ UNCHANGED <<given, i, hold, cyc, out>>

PrintSpace == Running("p") /\ Look /\ Step(IF Hit THEN [cyc EXCEPT !.extra = @ + 1] ELSE cyc)
Insert == Running("i") /\ Look /\ Step(IF Hit THEN [cyc EXCEPT !.ins = Append(@, <<Cmd.x>>)] ELSE cyc)
Appended == Running("a") /\ Look /\ Step(IF Hit THEN [cyc EXCEPT !.app = Append(@, <<Cmd.x>>)] ELSE cyc)
Change == Running("c") /\ Look /\ Step(IF Hit THEN [cyc EXCEPT !.changed = <<Cmd.x>>] ELSE cyc)
Transliterate ==
    Running("y") /\ Look /\ Step(IF Hit THEN [cyc EXCEPT !.pat = Mapped(Cmd.x, Cmd.y, @)] ELSE cyc)
Substitute ==
    /\ Running("s") /\ Look
    /\ Step(IF Hit /\ Occurs(Cmd.x, cyc.pat)
              THEN [cyc EXCEPT !.pat = Subst(Cmd, @), !.subst = TRUE,
                               !.extra = IF "p" \in Cmd.f THEN @ + 1 ELSE @]
              ELSE cyc)

\* The end of a cycle.
Times(lines, k) == FlattenSeq([j \in 1 .. k |-> lines])
Said(printed) ==
    cyc.ins \o (IF cyc.changed # NoText THEN <<cyc.changed>>
                ELSE (IF quiet \/ ~printed THEN <<>> ELSE cyc.pat) \o Times(cyc.pat, cyc.extra))
EndCycle ==
    /\ phase = "end" \/ (phase = "run" /\ pc > Len(prog))
    /\ out' = out \o Said(TRUE) \o cyc.app
    /\ i' = i + 1 /\ phase' = "start"
    /\ Len(out') <= MaxOut
    /\ UNCHANGED <<given, hold, active, cyc, pc>>
EndAll ==
    /\ phase \in {"quit", "no_print"}
    /\ out' = out \o Said(phase = "quit")
    /\ phase' = "done"
    /\ UNCHANGED <<given, i, hold, active, cyc, pc>>

-----------------------------------------------------------------------------

Init ==
    /\ stmts \in Scripts /\ prog = Program(stmts)
    /\ quiet \in BOOLEAN /\ input \in Inputs
    /\ i = 0 /\ hold = << <<>> >> /\ active = [k \in 1 .. Len(prog) |-> FALSE]
    /\ cyc = Fresh(<<>>, 0) /\ pc = 1 /\ out = <<>> /\ phase = "start"

Next ==
    \/ Start \/ EndCycle \/ EndAll
    \/ /\ Len(out) <= MaxOut /\ cyc.extra + Len(cyc.ins) + Len(cyc.app) <= MaxQueue
       /\ \/ Block \/ NoOp \/ Branch \/ BranchIfSubst \/ Next_ \/ AppendNext
          \/ DeleteFirst \/ PrintFirst \/ Hold \/ Delete \/ Quit \/ PrintSpace
          \/ Insert \/ Appended \/ Change \/ Transliterate \/ Substitute

Spec == Init /\ [][Next]_vars /\ WF_vars(Next)
-----------------------------------------------------------------------------
(* apply_sed_commands, the fast path.                                      *)

\* Addr::matches: a range is a pair of line numbers.
Point(s, total, other) == CASE s.k = "num" -> s.n [] s.k = "last" -> total [] OTHER -> other
Matches(s, no, total, line) ==
    IF ~HasAddr(s) THEN TRUE
    ELSE IF IsRange(s) THEN no \in Point(s.a.start, total, 1) .. Point(s.a.end, total, total)
    ELSE Starts(s.a.start, no, total, <<line>>)

\* One statement on a line of `total` of them.
FastCommand(l, s) ==
    IF l.stop \/ ~Matches(s, l.no, l.total, l.line) THEN l
    ELSE CASE s.op = "i" -> [l EXCEPT !.ins = Append(@, <<s.x>>)]
           [] s.op = "a" -> [l EXCEPT !.app = Append(@, <<s.x>>)]
           [] s.op = "c" -> [l EXCEPT !.changed = <<s.x>>]
           [] s.op = "y" -> [l EXCEPT !.line = Mapped(s.x, s.y, <<@>>)[1]]
           [] s.op = "d" -> [l EXCEPT !.keep = FALSE, !.stop = TRUE]
           [] s.op = "q" -> [l EXCEPT !.quit = TRUE, !.stop = TRUE]
           [] s.op = "p" -> [l EXCEPT !.extra = @ + 1]
           [] s.op = "s" -> [l EXCEPT !.line = Subst(s, <<@>>)[1],
                                      !.extra = IF "p" \in s.f /\ Occurs(s.x, <<l.line>>)
                                                  THEN @ + 1 ELSE @]
           [] s.op = "open" -> l
FastLine(S, text, no) ==
    FoldLeft(FastCommand,
             [line |-> text[no], no |-> no, total |-> Len(text), keep |-> TRUE, extra |-> 0,
              ins |-> <<>>, app |-> <<>>, changed |-> NoText, stop |-> FALSE, quit |-> FALSE], S)

\* What it prints of a line, as the line is after the script; none after q.
Printed(q, r, l) ==
    LET shown == IF l.changed # NoText THEN <<l.changed>>
                 ELSE IF ~l.keep THEN <<>>
                 ELSE (IF q THEN <<>> ELSE <<l.line>>) \o Times(<<l.line>>, l.extra)
    IN  IF r.quit THEN r
        ELSE [out |-> r.out \o l.ins \o shown \o l.app, quit |-> l.quit]
Fast(S, text, q) ==
    FoldLeft(LAMBDA r, l : Printed(q, r, l), [out |-> <<>>, quit |-> FALSE],
             [no \in 1 .. Len(text) |-> FastLine(S, text, no)]).out

-----------------------------------------------------------------------------
(* Properties.                                                             *)

Ops == {stmts[k].op : k \in 1 .. Len(stmts)}

\* The two interpreters print the same (sed.rs:123): a script that needs no
\* control flow may take either.  They differ, and not as documented, where a
\* line is given up by d or q with text queued or a range open, and on ranges
\* that end before they start or start at line 0; Simple leaves those out.
Simple ==
    /\ ~IsScript(stmts) /\ "open" \notin Ops
    /\ Ops \cap {"d", "q"} # {} => \A k \in 1 .. Len(stmts) :
                                     stmts[k].op \notin Texts /\ ~IsRange(stmts[k])
    /\ \A k \in 1 .. Len(stmts) : IsRange(stmts[k]) =>
          LET a == stmts[k].a
          IN  /\ a.start.k = "num" /\ a.start.n # 0
              /\ a.end.k = "last" \/ a.start.n <= a.end.n
PathsAgree == phase = "done" /\ Simple => out = Fast(stmts, input, quiet)

\* However a script walks over the input - with n and N, blocks, branches and
\* ranges - every line comes out, once and in order, if no command edits.
Walking == {"n", "N", "h", "H", "b", "t", ":", "open", "close"}
LinesKept == phase = "done" /\ ~quiet /\ Ops \subseteq Walking => out = input

\* A script with no branch backwards ends, D included, whatever it skips; D with
\* lines from the hold space may go on, as in any sed.
NoLoop ==
    /\ \A k \in 1 .. Len(prog) : prog[k].op \in {"b", "t"} => prog[k].to > k
    /\ "D" \in Ops => Ops \cap {"g", "G", "x"} = {}
ScriptsEnd == NoLoop ~> phase = "done"
=============================================================================
