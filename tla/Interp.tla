------------------------------- MODULE Interp -------------------------------
(***************************************************************************)
(* The control flow of the shell interpreter (bridge/executor.rs): lists,   *)
(* conditions, loops, functions, subshells, substitutions, traps and the     *)
(* signals (break, continue, return, exit) that cut them short.  The Rust    *)
(* code is a family of recursive methods over one Runtime; here their        *)
(* activations are the frames of `stack` and every field of the Runtime that *)
(* they share is a variable.  A script is a table of blocks; the host runs   *)
(* some of them, one call after the other, on the same Runtime.             *)
(***************************************************************************)
EXTENDS Integers, Sequences, SequencesExt, FiniteSets

CONSTANTS
    Scripts,     \* set of [id, calls: Seq(block name),
                 \*         host: "quiet" | "cancels" | "other"]
    CodeOf(_, _),\* CodeOf(id, b): the list block b of script id stands for
    Vars,        \* the shell variables the scripts use
    MaxFn,       \* limit of nested function calls (50)
    MaxSubst,    \* limit of nested substitutions (8)
    MaxIter,     \* limit of iterations of while and until (100000)
    MaxStack,    \* activations the thread's native stack holds
    Wrap,        \* depth counters are unsigned: 0 - 1 is Wrap - 1
    Nil          \* no signal, no handler, an unset variable

ASSUME InterpAssumption ==
    /\ MaxFn \in Nat /\ MaxSubst \in Nat /\ MaxIter \in Nat /\ MaxStack \in Nat
    /\ Wrap \in Nat /\ Wrap > MaxFn /\ Wrap > MaxSubst
    /\ Nil \notin Nat

VARIABLES
    script,      \* the script under test
    calls,       \* how many host calls have ended
    results,     \* their exit codes and output
    stack,       \* the activations of execute, execute_for, call_function...
    ret,         \* what the activation that just ended returned, or Nil
    last,        \* last_exit
    sh,          \* shell state a subshell isolates: vars, cwd, funs, errexit
    rest,        \* shell state it does not: positional, traps, jobs
    sig,         \* break_levels, continue_levels, return_code, exit_signal
    fnDepth,     \* fn_call_depth
    substDepth,  \* subst_depth
    scopes,      \* local_saves
    cancel,      \* the cancel flag
    trace,       \* ghost: the commands that took effect, in order
    start,       \* ghost: the shell state the current call started from
    alive,       \* the process: FALSE after a stack overflow
    drift        \* ghost: an ERR trap reset the depths of open activations

session == <<script, alive, calls, results, start>>
shell == <<sh, rest, last>>
depth == <<fnDepth, substDepth, scopes>>
vars  == <<session, stack, ret, shell, sig, depth, cancel, trace, drift>>

-----------------------------------------------------------------------------
(* Frames.                                                                 *)

Code(b) == CodeOf(script.id, b)
Out(c, o) == [code |-> c, out |-> o]
NoSignal == [brk |-> 0, cont |-> 0, ret |-> Nil, exit |-> Nil]

\* k: which method; cmd: the construct it runs; ph: where it is in it;
\* i: the segment, branch or iteration; code, out: its result so far; keep:
\* what it restores when it ends.
Frame(k, c, p) ==
    [k |-> k, cmd |-> c, ph |-> p, i |-> 1, code |-> 0, out |-> <<>>,
     keep |-> Nil]
List(b) == Frame("list", b, "seg")

Top   == stack[Len(stack)]
Below == SubSeq(stack, 1, Len(stack) - 1)

Fits       == Len(stack) \in 1 .. MaxStack
Running(k) == Fits /\ ret = Nil /\ Top.k = k
Back(k)    == Fits /\ ret # Nil /\ Top.k = k

Goto(f)      == stack' = Append(Below, f) /\ ret' = Nil
Enter(f, g)  == stack' = Below \o <<f, g>> /\ ret' = Nil  \* f waits for g
Return(c, o) == stack' = Below /\ ret' = Out(c, o)
Answer(c, o) == stack' = stack /\ ret' = Out(c, o)        \* no activation

\* reset_transient
ResetTransient == sig' = NoSignal /\ fnDepth' = 0 /\ substDepth' = 0

-----------------------------------------------------------------------------
(* execute: a list of segments.                                            *)

Block   == Code(Top.cmd)
Segment == Block[Top.i]
Single  == Len(Block) = 1          \* the fast path
AtSegment == Running("list") /\ Top.ph = "seg" /\ Top.i <= Len(Block)

Skipped(seg) ==
    /\ ~Single
    /\ \/ seg.conn = "and" /\ Top.code # 0
       \/ seg.conn = "or"  /\ Top.code = 0

\* The segment at the top is run now; c is its command.
Runs(op) ==
    /\ AtSegment /\ Segment.do.op = op
    /\ (Single \/ ~cancel) /\ ~Skipped(Segment)

Do == Segment.do

ListEnd ==
    /\ Running("list") /\ Top.ph = "seg" /\ Top.i > Len(Block)
    /\ Return(Top.code, Top.out)
    /\ UNCHANGED <<session, shell, sig, depth, cancel, trace, drift>>

\* Mutant of ListCancelled: what the list ended with so far is reported.
ListCancelledSilently ==
    /\ AtSegment /\ ~Single /\ cancel
    /\ Return(Top.code, Top.out)
    /\ UNCHANGED <<session, shell, sig, depth, cancel,
                   trace, drift>>

ListCancelled ==
    /\ AtSegment /\ ~Single /\ cancel
    /\ Return(143, Top.out)
    /\ UNCHANGED <<session, shell, sig, depth, cancel, trace, drift>>

ListSkip ==
    /\ AtSegment /\ ~cancel /\ Skipped(Segment)
    /\ Goto([Top EXCEPT !.i = @ + 1])
    /\ UNCHANGED <<session, shell, sig, depth, cancel, trace, drift>>

\* A failing segment fires the ERR trap unless a connector tests it.
TestedByNext ==
    /\ Top.i < Len(Block)
    /\ Block[Top.i + 1].conn \in {"and", "or"}

FiresErr(c) ==
    /\ c # 0 /\ sig.exit = Nil /\ rest.traps.ERR # Nil
    /\ Single \/ (Segment.conn = "always" /\ ~TestedByNext)

ListResult ==
    /\ Back("list") /\ Top.ph = "seg"
    /\ LET f == [Top EXCEPT !.ph = "after", !.code = ret.code,
                            !.out = @ \o ret.out]
       IN  IF FiresErr(ret.code)
           THEN /\ Enter([f EXCEPT !.ph = "trap"], List(rest.traps.ERR))
                /\ ResetTransient
                /\ drift' = (drift \/ fnDepth > 0 \/ substDepth > 0)
           ELSE Goto(f) /\ UNCHANGED <<sig, fnDepth, substDepth, drift>>
    /\ last' = ret.code
    /\ rest' = [rest EXCEPT !.jobs = @ + (IF Segment.bg THEN 1 ELSE 0)]
    /\ UNCHANGED <<session, sh, scopes, cancel, trace>>

\* run_err_trap: only the handler's output is kept.
ErrTrapDone ==
    /\ Back("list") /\ Top.ph = "trap"
    /\ Goto([Top EXCEPT !.ph = "after", !.out = @ \o ret.out])
    /\ UNCHANGED <<session, shell, sig, depth, cancel, trace, drift>>

\* What ends a list early: set -e, exit, break and continue.
CutShort ==
    \/ sh.errexit /\ Top.code # 0
    \/ sig.exit # Nil \/ sig.brk > 0 \/ sig.cont > 0

ListNext ==
    /\ Running("list") /\ Top.ph = "after"
    /\ IF Single \/ CutShort
       THEN Return(Top.code, Top.out)
       ELSE Goto([Top EXCEPT !.ph = "seg", !.i = @ + 1])
    /\ UNCHANGED <<session, shell, sig, depth, cancel, trace, drift>>

-----------------------------------------------------------------------------
(* Commands that need no activation of their own.                          *)

\* A builtin does nothing once the flag is set (Shell::execute).
Cancelled == Answer(143, <<>>) /\ UNCHANGED <<shell, trace>>

\* `mark`: any builtin that prints one line and succeeds.
Mark ==
    /\ Runs("mark")
    /\ IF cancel THEN Cancelled
       ELSE /\ Answer(0, <<Do.x>>) /\ trace' = Append(trace, Do.x)
            /\ UNCHANGED shell
    /\ UNCHANGED <<session, sig, depth, cancel, drift>>

Fail ==
    /\ Runs("fail")
    /\ IF cancel THEN Cancelled
       ELSE Answer(Do.n, <<>>) /\ UNCHANGED <<shell, trace>>
    /\ UNCHANGED <<session, sig, depth, cancel, drift>>

\* `[ $x = v ]`
Test ==
    /\ Runs("test")
    /\ IF cancel THEN Cancelled
       ELSE /\ Answer(IF sh.vars[Do.x] = Do.v THEN 0 ELSE 1, <<>>)
            /\ UNCHANGED <<shell, trace>>
    /\ UNCHANGED <<session, sig, depth, cancel, drift>>

\* cd, set -e, set +e, trap: builtins that change the shell.
Configure ==
    /\ \E op \in {"cd", "errexit", "trap"} : Runs(op)
    /\ IF cancel THEN Cancelled
       ELSE /\ Answer(0, <<>>)
            /\ sh' = CASE Do.op = "cd"      -> [sh EXCEPT !.cwd = Do.v]
                       [] Do.op = "errexit" -> [sh EXCEPT !.errexit = Do.v]
                       [] OTHER             -> sh
            /\ rest' = IF Do.op = "trap"
                       THEN [rest EXCEPT !.traps[Do.x] = Do.v] ELSE rest
            /\ UNCHANGED <<last, trace>>
    /\ UNCHANGED <<session, sig, depth, cancel, drift>>

\* Assignments, function definitions and `set --` are not builtins: they do
\* not look at the flag.
Assign ==
    /\ Runs("assign")
    /\ sh' = [sh EXCEPT !.vars[Do.x] = Do.v]
    /\ Answer(0, <<>>)
    /\ UNCHANGED <<session, rest, last, sig, depth, cancel,
                   trace, drift>>

Define ==
    /\ Runs("def")
    /\ sh' = [sh EXCEPT !.funs = @ \cup {Do.x}]
    /\ Answer(0, <<>>)
    /\ UNCHANGED <<session, rest, last, sig, depth, cancel,
                   trace, drift>>

SetPositional ==
    /\ Runs("setargs")
    /\ rest' = [rest EXCEPT !.pos = Do.v]
    /\ Answer(0, <<>>)
    /\ UNCHANGED <<session, sh, last, sig, depth, cancel,
                   trace, drift>>

\* `local x=v`: nothing happens outside a function.
Local ==
    /\ Runs("local")
    /\ IF scopes = <<>> THEN UNCHANGED <<sh, scopes>>
       ELSE /\ scopes' = [scopes EXCEPT ![Len(scopes)] =
                             Append(@, <<Do.x, sh.vars[Do.x]>>)]
            /\ sh' = [sh EXCEPT !.vars[Do.x] = Do.v]
    /\ Answer(0, <<>>)
    /\ UNCHANGED <<session, rest, last, sig, fnDepth,
                   substDepth, cancel, trace, drift>>

Signal ==
    /\ \E op \in {"break", "continue", "return", "exit"} : Runs(op)
    /\ LET code == IF Do.n = Nil THEN last ELSE Do.n IN
       CASE Do.op = "break"    -> /\ sig' = [sig EXCEPT !.brk = Do.n]
                                  /\ Answer(0, <<>>)
         [] Do.op = "continue" -> /\ sig' = [sig EXCEPT !.cont = Do.n]
                                  /\ Answer(0, <<>>)
         [] Do.op = "return"   -> /\ sig' = [sig EXCEPT !.ret = code]
                                  /\ Answer(0, <<>>)
         [] OTHER              -> /\ sig' = [sig EXCEPT !.exit = code]
                                  /\ Answer(code, <<>>)
    /\ UNCHANGED <<session, shell, depth, cancel, trace, drift>>

\* A call of a function nobody defined is an unknown command.
Unknown ==
    /\ Runs("call") /\ Do.x \notin sh.funs
    /\ IF cancel THEN Cancelled
       ELSE Answer(127, <<>>) /\ UNCHANGED <<shell, trace>>
    /\ UNCHANGED <<session, sig, depth, cancel, drift>>

\* A panic below guarded_execute: every activation is gone, nothing restored.
Panic ==
    /\ Runs("panic")
    /\ IF cancel THEN Cancelled /\ UNCHANGED <<results, calls>>
       ELSE /\ stack' = <<>> /\ ret' = Nil
            /\ results' = Append(results, Out(134, <<>>))
            /\ calls' = calls + 1
            /\ UNCHANGED <<shell, trace>>
    /\ UNCHANGED <<script, alive, start, sig, depth, cancel, drift>>

-----------------------------------------------------------------------------
(* Groups, `!`, background, conditions.                                    *)

Wait(f) == Enter(Top, f)     \* the list waits for the construct

\* `{ ...; }`, `nohup`, and the branch a `case` selects: execute, in place.
Group ==
    /\ Runs("group")
    /\ Wait(List(Do.x))
    /\ UNCHANGED <<session, shell, sig, depth, cancel, trace, drift>>

Case ==
    /\ Runs("case")
    /\ LET hit == SelectInSeq(Do.v, LAMBDA br : br[1] = sh.vars[Do.x])
       IN  IF hit = 0 THEN Answer(0, <<>>) ELSE Wait(List(Do.v[hit][2]))
    /\ UNCHANGED <<session, shell, sig, depth, cancel, trace, drift>>

Not ==
    /\ Runs("not")
    /\ Wait([Frame("not", Do, "run") EXCEPT !.i = 1])
    /\ UNCHANGED <<session, shell, sig, depth, cancel, trace, drift>>

NotStep ==
    \/ /\ Running("not") /\ Enter(Top, List(Top.cmd.x))
       /\ UNCHANGED <<session, shell, sig, depth, cancel,
                      trace, drift>>
    \/ /\ Back("not") /\ Return(IF ret.code = 0 THEN 1 ELSE 0, ret.out)
       /\ UNCHANGED <<session, shell, sig, depth, cancel,
                      trace, drift>>

\* execute_if; cmd.v: the branches <<condition, body>>, Nil for `else`.
If ==
    /\ Runs("if")
    /\ Wait(Frame("if", Do, "cond"))
    /\ UNCHANGED <<session, shell, sig, depth, cancel, trace, drift>>

IfStep ==
    /\ \/ /\ Running("if") /\ Top.i > Len(Top.cmd.v)
          /\ Return(0, <<>>)
       \/ /\ Running("if") /\ Top.i <= Len(Top.cmd.v)
          /\ LET br == Top.cmd.v[Top.i]
             IN  IF br[1] = Nil THEN Goto(List(br[2]))
                                ELSE Enter(Top, List(br[1]))
       \/ /\ Back("if")                   \* the condition's output is dropped
          /\ IF ret.code = 0 THEN Goto(List(Top.cmd.v[Top.i][2]))
                             ELSE Goto([Top EXCEPT !.i = @ + 1])
    /\ UNCHANGED <<session, shell, sig, depth, cancel, trace, drift>>

-----------------------------------------------------------------------------
(* Loops: for (and while read < FILE), while, until, PRODUCER | while read. *)

LoopOps == {"for", "while", "until", "pipe"}

Loop ==
    /\ \E op \in LoopOps : Runs(op)
    /\ IF Do.op = "pipe"
       THEN Enter(Top, Frame("loop", Do, "produced")) \* left side first
       ELSE Wait(Frame("loop", Do, "head"))
    /\ UNCHANGED <<session, shell, sig, depth, cancel, trace, drift>>

Words   == IF Top.cmd.op = "pipe" THEN Top.keep ELSE Top.cmd.v
Exhausted ==
    IF Top.cmd.op \in {"while", "until"} THEN Top.i > MaxIter
                                         ELSE Top.i > Len(Words)

\* The producer of a pipe runs in this shell; its lines are the words.
LoopProduce ==
    /\ \/ /\ Running("loop") /\ Top.ph = "produced"
          /\ Enter([Top EXCEPT !.ph = "lines"], List(Top.cmd.v))
       \/ /\ Back("loop") /\ Top.ph = "lines"
          /\ IF ret.code # 0 /\ ret.out = <<>>
             THEN Return(ret.code, ret.out)
             ELSE Goto([Top EXCEPT !.ph = "head", !.keep = ret.out])
    /\ UNCHANGED <<session, shell, sig, depth, cancel, trace, drift>>

LoopHead ==
    /\ Running("loop") /\ Top.ph = "head"
    /\ CASE Exhausted -> Return(Top.code, Top.out) /\ UNCHANGED sh
         [] ~Exhausted /\ cancel -> Return(143, Top.out) /\ UNCHANGED sh
         [] OTHER ->
              IF Top.cmd.op \in {"while", "until"}
              THEN /\ Enter([Top EXCEPT !.ph = "cond"], List(Top.cmd.v))
                   /\ UNCHANGED sh
              ELSE /\ Enter([Top EXCEPT !.ph = "body"], List(Top.cmd.body))
                   /\ sh' = [sh EXCEPT !.vars[Top.cmd.x] = Words[Top.i]]
    /\ UNCHANGED <<session, rest, last, sig, depth, cancel,
                   trace, drift>>

LoopCond ==
    /\ Back("loop") /\ Top.ph = "cond"
    /\ IF (ret.code = 0) = (Top.cmd.op = "while")
       THEN Enter([Top EXCEPT !.ph = "body"], List(Top.cmd.body))
       ELSE Return(Top.code, Top.out)
    /\ UNCHANGED <<session, shell, sig, depth, cancel, trace, drift>>

\* Mutant of Leaves: `continue 2` goes on with the inner loop.
LeavesContinue ==
    /\ Top.cmd.op # "pipe"
    /\ sig.exit # Nil \/ sig.brk > 0

\* After the body: exit and break leave, continue N leaves all but the last
\* loop.  The loop of a pipe looks at none of them.
Leaves ==
    /\ Top.cmd.op # "pipe"
    /\ sig.exit # Nil \/ sig.brk > 0 \/ sig.cont > 1

Consumed ==
    IF Top.cmd.op = "pipe" \/ sig.exit # Nil THEN sig
    ELSE IF sig.brk > 0 THEN [sig EXCEPT !.brk = @ - 1]
    ELSE IF sig.cont > 0 THEN [sig EXCEPT !.cont = @ - 1]
    ELSE sig

\* Mutant of LoopBody: a pass does not count towards the limit.
LoopBodyUncounted ==
    /\ Back("loop") /\ Top.ph = "body"
    /\ LET f == [Top EXCEPT !.ph = "head", !.code = ret.code]
       IN  IF Leaves THEN Return(f.code, f.out) ELSE Goto(f)
    /\ sig' = Consumed
    /\ UNCHANGED <<session, shell, depth, cancel, trace, drift>>

LoopBody ==
    /\ Back("loop") /\ Top.ph = "body"
    /\ LET f == [Top EXCEPT !.ph = "head", !.i = @ + 1, !.code = ret.code,
                            !.out = @ \o ret.out]
       IN  IF Leaves THEN Return(f.code, f.out) ELSE Goto(f)
    /\ sig' = Consumed
    /\ UNCHANGED <<session, shell, depth, cancel, trace, drift>>

-----------------------------------------------------------------------------
(* Functions, subshells, substitutions.                                    *)

Call ==
    /\ Runs("call") /\ Do.x \in sh.funs
    /\ IF fnDepth >= MaxFn
       THEN Answer(1, <<>>) /\ UNCHANGED <<rest, fnDepth, scopes>>
       ELSE /\ stack' = stack \o
                 <<[Frame("call", Do, "body") EXCEPT !.keep = rest.pos],
                   List(Do.x)>>
            /\ ret' = Nil
            /\ rest' = [rest EXCEPT !.pos = Do.x]
            /\ scopes' = Append(scopes, <<>>)
            /\ fnDepth' = fnDepth + 1
    /\ UNCHANGED <<session, sh, last, sig, substDepth, cancel,
                   trace, drift>>

\* The saved values are put back first to last: of two entries for one name
\* the later wins.
Restored(scope) ==
    [x \in Vars |->
        LET at == {i \in DOMAIN scope : scope[i][1] = x}
        IN  IF at = {} THEN sh.vars[x]
            ELSE scope[CHOOSE i \in at : \A j \in at : j <= i][2]]

Down(n) == (n + Wrap - 1) % Wrap

\* Mutant of CallReturn: the depth is only taken back when the body succeeds.
CallReturnForgets ==
    /\ Back("call")
    /\ IF scopes = <<>> THEN UNCHANGED <<sh, scopes>>
       ELSE /\ sh' = [sh EXCEPT !.vars = Restored(Last(scopes))]
            /\ scopes' = Front(scopes)
    /\ fnDepth' = IF ret.code = 0 THEN Down(fnDepth) ELSE fnDepth
    /\ rest' = [rest EXCEPT !.pos = Top.keep]
    /\ Return(IF sig.ret = Nil THEN ret.code ELSE sig.ret, ret.out)
    /\ sig' = [sig EXCEPT !.ret = Nil]
    /\ UNCHANGED <<session, last, substDepth, cancel,
                   trace, drift>>

CallReturn ==
    /\ Back("call")
    /\ IF scopes = <<>> THEN UNCHANGED <<sh, scopes>>
       ELSE /\ sh' = [sh EXCEPT !.vars = Restored(Last(scopes))]
            /\ scopes' = Front(scopes)
    /\ fnDepth' = Down(fnDepth)
    /\ rest' = [rest EXCEPT !.pos = Top.keep]
    /\ Return(IF sig.ret = Nil THEN ret.code ELSE sig.ret, ret.out)
    /\ sig' = [sig EXCEPT !.ret = Nil]
    /\ UNCHANGED <<session, last, substDepth, cancel, trace, drift>>

\* ( ... ) and sh -c: execute_subshell.
Subshell ==
    /\ Runs("sub")
    /\ stack' = stack \o
         <<[Frame("sub", Do, "body") EXCEPT !.keep = [sh |-> sh, sig |-> sig]],
           List(Do.x)>>
    /\ ret' = Nil
    /\ sig' = [sig EXCEPT !.exit = Nil, !.ret = Nil]
    /\ UNCHANGED <<session, shell, depth, cancel, trace, drift>>

SubshellReturn ==
    /\ Back("sub")
    /\ sh' = Top.keep.sh /\ sig' = Top.keep.sig
    /\ Return(ret.code, ret.out)
    /\ UNCHANGED <<session, rest, last, depth, cancel, trace, drift>>

\* `mark $(...)`: the output of the inner list becomes an argument.
Subst ==
    /\ Runs("subst")
    /\ IF substDepth >= MaxSubst
       THEN Wait(Frame("subst", Do, "mark")) /\ UNCHANGED substDepth
       ELSE /\ stack' = stack \o
                 <<Frame("subst", Do, "inner"), List(Do.body)>>
            /\ ret' = Nil
            /\ substDepth' = substDepth + 1
    /\ UNCHANGED <<session, shell, sig, fnDepth, scopes, cancel,
                   trace, drift>>

SubstReturn ==
    /\ Back("subst")
    /\ Goto([Top EXCEPT !.ph = "mark"])
    /\ substDepth' = Down(substDepth)
    /\ UNCHANGED <<session, shell, sig, fnDepth, scopes, cancel,
                   trace, drift>>

SubstMark ==
    /\ Running("subst") /\ Top.ph = "mark"
    /\ IF cancel THEN Return(143, <<>>) /\ UNCHANGED trace
       ELSE Return(0, <<Top.cmd.x>>) /\ trace' = Append(trace, Top.cmd.x)
    /\ UNCHANGED <<session, shell, sig, depth, cancel, drift>>

\* One activation too many: the signal takes the process, catch_unwind does
\* not see it.
Overflow ==
    /\ Len(stack) > MaxStack
    /\ stack' = <<>> /\ ret' = Nil /\ alive' = FALSE
    /\ UNCHANGED <<script, calls, results, start, shell, sig, depth, cancel,
                   trace, drift>>

-----------------------------------------------------------------------------
(* execute_top: one call of the host.                                      *)

StartCall ==
    /\ alive /\ stack = <<>> /\ calls < Len(script.calls)
    /\ ResetTransient
    /\ stack' = <<Frame("top", script.calls[calls + 1], "main"),
                  List(script.calls[calls + 1])>>
    /\ ret' = Nil /\ cancel' = FALSE /\ drift' = FALSE
    /\ start' = [sh |-> sh, pos |-> rest.pos, last |-> last]
    /\ trace' = <<>>
    /\ UNCHANGED <<script, alive, calls, results, shell, scopes>>

Handler(f, s, p) ==      \* f goes on in phase p after the handler of trap s
    /\ ResetTransient
    /\ Enter([f EXCEPT !.ph = p], List(rest.traps[s]))

Finish(c, o) ==
    /\ stack' = <<>> /\ ret' = Nil
    /\ results' = Append(results, Out(c, o)) /\ calls' = calls + 1

\* The INT trap after a cancellation, the EXIT trap at the end.
TopNext ==
    /\ Back("top")
    /\ LET f == [Top EXCEPT !.out = @ \o ret.out,
                   !.code = IF Top.ph = "main" THEN ret.code
                            ELSE IF Top.ph = "exit" /\ ret.code # 0
                            THEN ret.code ELSE @]
       IN  CASE /\ Top.ph = "main" /\ ret.code = 143
                /\ rest.traps.INT # Nil ->
                  Handler(f, "INT", "int") /\ UNCHANGED <<results, calls>>
             [] /\ Top.ph \in {"main", "int"}
                /\ ~(Top.ph = "main" /\ ret.code = 143 /\ rest.traps.INT # Nil)
                /\ rest.traps.EXIT # Nil ->
                  Handler(f, "EXIT", "exit") /\ UNCHANGED <<results, calls>>
             [] OTHER -> /\ Finish(f.code, f.out)
                         /\ IF Top.ph = "exit"
                            THEN UNCHANGED <<sig, fnDepth, substDepth>>
                            ELSE ResetTransient
    /\ UNCHANGED <<script, alive, start, shell, scopes, cancel, trace, drift>>

\* The host cancels at any moment, if it does.
HostCancel ==
    /\ script.host = "cancels" /\ stack # <<>> /\ ~cancel
    /\ cancel' = TRUE
    /\ UNCHANGED <<session, stack, ret, shell, sig, depth,
                   trace, drift>>

NoTraps == [ERR |-> Nil, INT |-> Nil, EXIT |-> Nil]

Init ==
    /\ script \in Scripts
    /\ calls = 0 /\ results = <<>> /\ stack = <<>> /\ ret = Nil /\ last = 0
    /\ start = Nil
    /\ sh = [vars |-> [x \in Vars |-> Nil], cwd |-> "/", funs |-> {},
             errexit |-> FALSE]
    /\ rest = [pos |-> Nil, traps |-> NoTraps, jobs |-> 0]
    /\ sig = NoSignal /\ fnDepth = 0 /\ substDepth = 0 /\ scopes = <<>>
    /\ cancel = FALSE /\ trace = <<>> /\ alive = TRUE /\ drift = FALSE

Simple == \/ Mark \/ Fail \/ Test \/ Configure \/ Assign \/ Define
          \/ SetPositional \/ Local \/ Signal \/ Unknown \/ Panic

Compound == \/ Group \/ Case \/ Not \/ NotStep \/ If \/ IfStep
            \/ Loop \/ LoopProduce \/ LoopHead \/ LoopCond \/ LoopBody
            \/ Call \/ CallReturn \/ Subshell \/ SubshellReturn
            \/ Subst \/ SubstReturn \/ SubstMark

Lists == ListEnd \/ ListCancelled \/ ListSkip \/ ListResult \/ ErrTrapDone
         \/ ListNext

Next == Lists \/ Simple \/ Compound \/ StartCall \/ TopNext \/ Overflow
        \/ HostCancel

Spec == Init /\ [][Next]_vars

\* The interpreter runs on; the host need not cancel.
Steps == Lists \/ Simple \/ Compound \/ StartCall \/ TopNext \/ Overflow
FairSpec == Spec /\ WF_vars(Steps)

-----------------------------------------------------------------------------
(* Properties.                                                             *)

Count(k, p) ==
    Cardinality({i \in DOMAIN stack : stack[i].k = k /\ stack[i].ph = p})

\* "`trap 'CMD' ERR` (approximated): run once when the top-level command exits
\* non-zero" (executor.rs:173): the handler does not run inside itself.
ErrTrapOnce == Count("list", "trap") <= 1

\* Every call of the host ends and the process lives, whatever the script:
\* loops, recursion and substitution are bounded (executor.rs:1152, 1761,
\* 2235), and so is an ERR trap as long as its handler does not fail and fire
\* it again.
CallsEnd ==
    []ErrTrapOnce => <>(alive /\ stack = <<>> /\ calls = Len(script.calls))

\* The depth counters are the number of open calls and substitutions, however
\* these end: by return, exit, break, cancellation, or an error inside, and
\* whatever a panic in the call before left (executor.rs:121, 1770, 2238).  An
\* ERR trap that runs inside one is left out (executor.rs:338).
DepthsExact ==
    stack # <<>> /\ ~drift =>
        /\ fnDepth = Count("call", "body")
        /\ substDepth = Count("subst", "inner")
        /\ Len(scopes) >= fnDepth

=============================================================================
