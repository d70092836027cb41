------------------------------ MODULE Pipeline ------------------------------
(***************************************************************************)
(* One runtime executes calls one after the other.  A call is a sequence of *)
(* segments (`a; b`), a segment a pipeline (`a | b`).  A lone command runs  *)
(* on the runtime's own thread, the stages of a longer pipeline on one      *)
(* thread each (executor.rs, execute, execute_pipeline).  A command may run *)
(* under `timeout` (paste_timeout.rs): its watchdog sets the cancel flag    *)
(* that the whole SDK instance shares, and that the host sets as well.      *)
(***************************************************************************)
EXTENDS Naturals, Sequences

CONSTANTS
    Sessions,    \* what the host may execute: a sequence of scripts, each a
                 \* sequence of pipelines, each a sequence of commands
    NCalls, MaxSegments, MaxStages, MaxNest,   \* bounds on their shape
    MaxAsks,     \* bound: how often the host cancels
    Nil

\* long: does not end by itself but polls the flag (sleep); deaf: polls nothing.
Bodies == {"ok", "fail", "long", "deaf", "panic", "empty"}
Command == [nest : 0 .. MaxNest, body : Bodies]  \* nest: `timeout` prefixes

ASSUME PipelineAssumption ==
    /\ NCalls \in Nat /\ MaxSegments \in Nat /\ MaxStages \in Nat
    /\ MaxNest \in Nat /\ MaxAsks \in Nat
    /\ Nil \notin {"data", "cut"} /\ Nil \notin Nat
    /\ \A x \in Sessions :
         /\ x \in Seq(Seq(Seq(Command))) /\ Len(x) <= NCalls
         /\ \A k \in 1 .. Len(x) :
              /\ Len(x[k]) <= MaxSegments
              /\ \A j \in 1 .. Len(x[k]) : Len(x[k][j]) \in 1 .. MaxStages

VARIABLES
    session,    \* session[k]: the script of call k
    pipefail,   \* set -o pipefail
    at, seg,    \* the call and the segment the runtime is at
    main,       \* where the runtime's thread is
    next,       \* the stage to launch, or the thread to join
    threads, rx,       \* the stages launched, in order; the one whose pipe
                       \* the next stage is to read (prev_rx), 0 if none
    final, panicked,   \* what the threads joined so far make of the pipeline
    code,       \* last_exit
    codes,      \* codes[<<k, j>>]: how segment j of call k ended
    answer,     \* answer[k]: how call k ended
    cancel,     \* the cancel flag
    pc, depth,  \* pc[s]: where the thread of stage s is, in how many timeouts
    out,        \* out[s]: exit code of s
    from,              \* from[s]: the stage whose pipe s reads, 0 if none
    sent, input,       \* the chunk s sent down its pipe, the one it received
    prev, done, dog,   \* of each timeout: saved flag, done flag, its watchdog
    asks, asked, late  \* how often the host cancelled; has it since the last
                       \* reset; has a watchdog fired after it was told `done`?

script == <<session, pipefail>>
pool  == <<threads, rx, final, panicked>>
results == <<code, codes, answer>>
mainVars == <<at, seg, main, next, pool, results>>
pipes  == <<from, sent, input>>
timers == <<prev, done, dog>>
ghosts == <<asks, asked, late>>
stages == <<pc, depth, out, pipes, timers>>
vars == <<script, mainVars, cancel, stages, ghosts>>

Stages  == (1 .. NCalls) \X (1 .. MaxSegments) \X (1 .. MaxStages)
Timeouts == Stages \X (1 .. MaxNest)
Ended   == {"done", "dead"}

Init ==
    /\ session \in Sessions /\ pipefail \in BOOLEAN
    /\ at = 0 /\ seg = 1 /\ main = "rest" /\ next = 1
    /\ threads = <<>> /\ rx = 0
    /\ final = 0 /\ panicked = FALSE /\ code = 0
    /\ codes = [x \in (1 .. NCalls) \X (1 .. MaxSegments) |-> Nil]
    /\ answer = [k \in 1 .. NCalls |-> Nil]
    /\ cancel = FALSE
    /\ pc = [s \in Stages |-> "none"] /\ depth = [s \in Stages |-> 0]
    /\ out = [s \in Stages |-> 0]
    /\ from = [s \in Stages |-> 0]
    /\ sent = [s \in Stages |-> Nil] /\ input = [s \in Stages |-> Nil]
    /\ prev = [t \in Timeouts |-> FALSE] /\ done = [t \in Timeouts |-> FALSE]
    /\ dog = [t \in Timeouts |-> "off"]
    /\ asks = 0 /\ asked = FALSE /\ late = FALSE

Pipe(s) == session[s[1]][s[2]]              \* the pipeline of stage s
Cmd(s)  == Pipe(s)[s[3]]
Here(i) == <<at, seg, i>>
HasPipe(s) == s[3] < Len(Pipe(s))           \* every stage but the last
Producer(s) == <<s[1], s[2], from[s]>>      \* where from[s] # 0

-----------------------------------------------------------------------------
(* The runtime's thread: calls, segments, launching and joining stages.    *)

Goto(m) == main' = m

\* The SDK clears the flag when a call starts.
StartCall ==
    /\ main = "rest" /\ at < Len(session)
    /\ at' = at + 1 /\ seg' = 1 /\ code' = 0
    /\ cancel' = FALSE /\ asked' = FALSE
    /\ Goto("segment")
    /\ UNCHANGED <<script, next, pool, codes, answer, stages, asks, late>>

Answer(c) ==
    /\ answer' = [answer EXCEPT ![at] = c]
    /\ Goto("rest")
    /\ UNCHANGED <<script, at, seg, next, pool, code, codes, cancel, stages,
                   ghosts>>

EndCall ==
    /\ main = "segment" /\ seg > Len(session[at])
    /\ Answer(code)

\* Between the segments of a list, but not before a lone one, the flag counts.
StopList ==
    /\ main = "segment" /\ seg <= Len(session[at])
    /\ Len(session[at]) > 1 /\ cancel
    /\ Answer(143)

StartSegment ==
    /\ main = "segment" /\ seg <= Len(session[at])
    /\ Len(session[at]) = 1 \/ ~ cancel
    /\ LET p == session[at][seg] IN
       IF Len(p) > 1
       THEN Goto("launch") /\ UNCHANGED pc
       ELSE /\ Goto("inline")
            /\ pc' = [pc EXCEPT ![Here(1)] =
                        IF p[1].body = "empty" THEN "done" ELSE "enter"]
    /\ next' = 1 /\ threads' = <<>> /\ rx' = 0
    /\ final' = 0 /\ panicked' = FALSE
    /\ UNCHANGED <<script, at, seg, results, cancel, depth, out, pipes, timers,
                   ghosts>>

EndSegment(c) ==
    /\ code' = c /\ codes' = [codes EXCEPT ![<<at, seg>>] = c]
    /\ seg' = seg + 1
    /\ Goto("segment")

InlineEnds ==
    /\ main = "inline" /\ pc[Here(1)] = "done"
    /\ EndSegment(out[Here(1)])
    /\ UNCHANGED <<script, at, next, pool, answer, cancel, stages, ghosts>>

\* Mutant of InlinePanics: the exit code of a Rust panic.
InlinePanicsRaw ==
    /\ main = "inline" /\ pc[Here(1)] = "dead"
    /\ Answer(101)

\* guarded_execute turns a panic of the runtime's thread into an error.
InlinePanics ==
    /\ main = "inline" /\ pc[Here(1)] = "dead"
    /\ Answer(134)

Launch ==
    /\ main = "launch" /\ next <= Len(session[at][seg])
    /\ LET s == Here(next) IN
       \/ Cmd(s).body = "empty" /\ UNCHANGED <<pc, from, threads, rx>>
       \/ /\ Cmd(s).body # "empty" /\ ~ cancel
          /\ pc' = [pc EXCEPT ![s] = IF rx = 0 THEN "gate" ELSE "poll"]
          /\ from' = [from EXCEPT ![s] = rx]
          /\ rx' = IF HasPipe(s) THEN next ELSE 0
          /\ threads' = Append(threads, next)
    /\ next' = next + 1
    /\ UNCHANGED <<script, at, seg, main, final, panicked, results, cancel,
                   depth, out, sent, input, timers, ghosts>>

\* A cancelled pipeline returns without its threads, launched or not.
Abandon ==
    /\ \/ /\ main = "launch" /\ next <= Len(session[at][seg])
          /\ Cmd(Here(next)).body # "empty"
       \/ main = "poll"
    /\ cancel
    /\ EndSegment(143)
    /\ UNCHANGED <<script, at, next, pool, answer, cancel, stages, ghosts>>

Launched ==
    /\ main = "launch" /\ next > Len(session[at][seg])
    /\ IF threads = <<>>
       THEN EndSegment(0) /\ UNCHANGED next
       ELSE Goto("poll") /\ next' = 1 /\ UNCHANGED <<code, codes, seg>>
    /\ UNCHANGED <<script, at, pool, answer, cancel, stages, ghosts>>

\* Mutant of PollMain: the loop that joins the threads does not poll the flag.
PollMainBlind ==
    /\ main = "poll"
    /\ Goto("look")
    /\ UNCHANGED <<script, at, seg, next, pool, results, cancel, stages,
                   ghosts>>

PollMain ==
    /\ main = "poll" /\ ~ cancel
    /\ Goto("look")
    /\ UNCHANGED <<script, at, seg, next, pool, results, cancel, stages,
                   ghosts>>

NotFinished ==
    /\ main = "look"
    /\ pc[Here(threads[next])] \notin Ended
    /\ Goto("poll")
    /\ UNCHANGED <<script, at, seg, next, pool, results, cancel, stages,
                   ghosts>>

\* Mutant of Combine: pipefail keeps the first failure.
CombineFirst(n, c) ==
    IF pipefail
    THEN IF final # 0 THEN final ELSE c
    ELSE IF n = Len(session[at][seg]) THEN c ELSE final

\* What the exit code c of the n-th thread adds to the result: the
\* code compares the thread's number with the last stage's.
Combine(n, c) ==
    IF pipefail
    THEN IF c # 0 THEN c ELSE final
    ELSE IF n = Len(session[at][seg]) THEN c ELSE final

\* Mutant of Join: a panic ends the pipeline at once.
JoinStopsAtPanic ==
    /\ main = "look"
    /\ LET s == Here(threads[next])
           dead == panicked \/ pc[s] = "dead"
           f == IF pc[s] = "dead" THEN final ELSE Combine(next, out[s]) IN
       /\ pc[s] \in Ended
       /\ final' = f /\ panicked' = dead /\ next' = next + 1
       /\ IF dead \/ next = Len(threads)
          THEN EndSegment(IF dead THEN 1 ELSE f)
          ELSE Goto("poll") /\ UNCHANGED <<code, codes, seg>>
    /\ UNCHANGED <<script, at, threads, rx, answer, cancel, stages, ghosts>>

Join ==
    /\ main = "look"
    /\ LET s == Here(threads[next])
           dead == panicked \/ pc[s] = "dead"
           f == IF pc[s] = "dead" THEN final ELSE Combine(next, out[s]) IN
       /\ pc[s] \in Ended
       /\ final' = f /\ panicked' = dead /\ next' = next + 1
       /\ IF next = Len(threads)
          THEN EndSegment(IF dead THEN 1 ELSE f)
          ELSE Goto("poll") /\ UNCHANGED <<code, codes, seg>>
    /\ UNCHANGED <<script, at, threads, rx, answer, cancel, stages, ghosts>>

-----------------------------------------------------------------------------
(* The thread of a stage: its input, the command, its output.              *)

At(s, p) == pc' = [pc EXCEPT ![s] = p]

Finish(s, c, chunk) ==
    /\ At(s, "done") /\ out' = [out EXCEPT ![s] = c]
    /\ sent' = IF HasPipe(s) THEN [sent EXCEPT ![s] = chunk] ELSE sent
    /\ UNCHANGED <<from, input>>

\* Before each wait for input, and before its command, a stage gives up.
GiveUp(s) ==
    /\ pc[s] \in {"poll", "gate"} /\ cancel
    /\ Finish(s, 143, "cut")
    /\ UNCHANGED <<script, mainVars, cancel, depth, timers, ghosts>>

Poll(s) ==
    /\ pc[s] = "poll" /\ ~ cancel
    /\ At(s, "recv")
    /\ UNCHANGED <<script, mainVars, cancel, depth, out, pipes, timers,
                   ghosts>>

Receive(s) ==
    /\ pc[s] = "recv" /\ input[s] = Nil /\ sent[Producer(s)] # Nil
    /\ input' = [input EXCEPT ![s] = sent[Producer(s)]]
    /\ At(s, "poll")
    /\ UNCHANGED <<script, mainVars, cancel, depth, out, from, sent, timers,
                   ghosts>>

\* Mutant of NoChunk: a timeout is taken for the end of the pipe.
NoChunkIsEnd(s) ==
    /\ pc[s] = "recv" /\ (input[s] # Nil \/ sent[Producer(s)] = Nil)
    /\ At(s, "gate")
    /\ UNCHANGED <<script, mainVars, cancel, depth, out, pipes, timers,
                   ghosts>>

\* recv_timeout: nothing in 100 ms, or the producer has gone.
NoChunk(s) ==
    /\ pc[s] = "recv" /\ (input[s] # Nil \/ sent[Producer(s)] = Nil)
    /\ At(s, IF pc[Producer(s)] \in Ended THEN "gate" ELSE "poll")
    /\ UNCHANGED <<script, mainVars, cancel, depth, out, pipes, timers,
                   ghosts>>

Gate(s) ==
    /\ pc[s] = "gate" /\ ~ cancel
    /\ At(s, "enter")
    /\ UNCHANGED <<script, mainVars, cancel, depth, out, pipes, timers,
                   ghosts>>

\* Shell::execute, for the command and for the one under each timeout.
Enter(s) ==
    /\ pc[s] = "enter"
    /\ IF cancel
       THEN At(s, "unwind") /\ out' = [out EXCEPT ![s] = 143]
       ELSE /\ At(s, IF depth[s] < Cmd(s).nest THEN "load" ELSE "run")
            /\ UNCHANGED out
    /\ UNCHANGED <<script, mainVars, cancel, depth, pipes, timers, ghosts>>

\* The body ends by itself ...
Complete(s) ==
    /\ pc[s] = "run" /\ Cmd(s).body # "panic"
    /\ out' = [out EXCEPT ![s] = IF Cmd(s).body = "fail" THEN 1 ELSE 0]
    /\ At(s, "unwind")
    /\ UNCHANGED <<script, mainVars, cancel, depth, pipes, timers, ghosts>>

\* ... or, when it polls the flag, on a cancellation ...
Observe(s) ==
    /\ pc[s] = "run" /\ Cmd(s).body = "long" /\ cancel
    /\ out' = [out EXCEPT ![s] = 143]
    /\ At(s, "unwind")
    /\ UNCHANGED <<script, mainVars, cancel, depth, pipes, timers, ghosts>>

\* ... or panics, past the end of every timeout around it.
Panic(s) ==
    /\ pc[s] = "run" /\ Cmd(s).body = "panic"
    /\ At(s, "dead")
    /\ UNCHANGED <<script, mainVars, cancel, depth, out, pipes, timers,
                   ghosts>>

Emit(s) ==
    /\ pc[s] = "unwind" /\ depth[s] = 0
    /\ Finish(s, out[s], IF out[s] \in {124, 143} THEN "cut" ELSE "data")
    /\ UNCHANGED <<script, mainVars, cancel, depth, timers, ghosts>>

-----------------------------------------------------------------------------
(* cmd_timeout, in-process: save and clear the flag, start the watchdog,   *)
(* run the command, tell the watchdog, restore the flag.                   *)

Load(s) ==
    /\ pc[s] = "load"
    /\ prev' = [prev EXCEPT ![<<s, depth[s] + 1>>] = cancel]
    /\ At(s, "clear")
    /\ UNCHANGED <<script, mainVars, cancel, depth, out, pipes, done, dog,
                   ghosts>>

Clear(s) ==
    /\ pc[s] = "clear"
    /\ cancel' = FALSE
    /\ At(s, "arm")
    /\ UNCHANGED <<script, mainVars, depth, out, pipes, timers, ghosts>>

\* Mutant of Arm: no watchdog.
ArmNoDog(s) ==
    /\ pc[s] = "arm"
    /\ depth' = [depth EXCEPT ![s] = @ + 1]
    /\ At(s, "enter")
    /\ UNCHANGED <<script, mainVars, cancel, out, pipes, timers, ghosts>>

Arm(s) ==
    /\ pc[s] = "arm"
    /\ depth' = [depth EXCEPT ![s] = @ + 1]
    /\ dog' = [dog EXCEPT ![<<s, depth[s] + 1>>] = "watch"]
    /\ At(s, "enter")
    /\ UNCHANGED <<script, mainVars, cancel, out, pipes, prev, done, ghosts>>

\* Mutant of SetDone: the watchdog is not told.
SetDoneNot(s) ==
    /\ pc[s] = "unwind" /\ depth[s] > 0
    /\ At(s, "restore")
    /\ UNCHANGED <<script, mainVars, cancel, depth, out, pipes, timers,
                   ghosts>>

SetDone(s) ==
    /\ pc[s] = "unwind" /\ depth[s] > 0
    /\ done' = [done EXCEPT ![<<s, depth[s]>>] = TRUE]
    /\ At(s, "restore")
    /\ UNCHANGED <<script, mainVars, cancel, depth, out, pipes, prev, dog,
                   ghosts>>

\* Mutant of Restore: the flag stays as the watchdog left it.
RestoreNot(s) ==
    /\ pc[s] = "restore"
    /\ out' = [out EXCEPT ![s] = IF @ = 143 THEN 124 ELSE @]
    /\ depth' = [depth EXCEPT ![s] = @ - 1]
    /\ At(s, "unwind")
    /\ UNCHANGED <<script, mainVars, cancel, pipes, timers, ghosts>>

Restore(s) ==
    /\ pc[s] = "restore"
    /\ cancel' = prev[<<s, depth[s]>>]
    /\ out' = [out EXCEPT ![s] = IF @ = 143 THEN 124 ELSE @]
    /\ depth' = [depth EXCEPT ![s] = @ - 1]
    /\ At(s, "unwind")
    /\ UNCHANGED <<script, mainVars, pipes, timers, ghosts>>

\* The watchdog finds its command done, or that its time is up ...
Watch(t) ==
    /\ dog[t] = "watch"
    /\ dog' = [dog EXCEPT ![t] = IF done[t] THEN "gone" ELSE "fire"]
    /\ UNCHANGED <<script, mainVars, cancel, pc, depth, out, pipes, prev, done,
                   ghosts>>

\* ... and sets the flag, which may be after the command is done.
Fire(t) ==
    /\ dog[t] = "fire"
    /\ cancel' = TRUE
    /\ dog' = [dog EXCEPT ![t] = "fired"]
    /\ late' = (late \/ done[t])
    /\ UNCHANGED <<script, mainVars, pc, depth, out, pipes, prev, done, asks,
                   asked>>

\* cancel_execution, while a call is being executed.
HostCancel ==
    /\ main # "rest" /\ asks < MaxAsks
    /\ asks' = asks + 1 /\ asked' = TRUE
    /\ cancel' = TRUE
    /\ UNCHANGED <<script, mainVars, stages, late>>

-----------------------------------------------------------------------------

MainStep ==
    \/ StartCall \/ EndCall \/ StopList \/ StartSegment \/ InlineEnds
    \/ InlinePanics \/ Launch \/ Launched \/ Abandon \/ PollMain
    \/ NotFinished \/ Join

\* The steps of a stage but for the end of its body.
Protocol(s) ==
    \/ GiveUp(s) \/ Poll(s) \/ Receive(s) \/ NoChunk(s) \/ Gate(s) \/ Enter(s)
    \/ Observe(s) \/ Panic(s) \/ Emit(s)
    \/ Load(s) \/ Clear(s) \/ Arm(s) \/ SetDone(s) \/ Restore(s)

DogStep(t) == Watch(t) \/ Fire(t)

Next ==
    \/ MainStep \/ HostCancel
    \/ \E s \in Stages : Protocol(s) \/ Complete(s)
    \/ \E t \in Timeouts : DogStep(t)

Spec == Init /\ [][Next]_vars

\* Threads run and time passes; long and deaf bodies need not end by
\* themselves, and the host need not cancel.
FairSpec ==
    /\ Spec /\ WF_vars(MainStep)
    /\ \A s \in Stages :
         /\ WF_vars(Protocol(s))
         /\ WF_vars(Complete(s) /\ Cmd(s).body \notin {"long", "deaf"})
    /\ \A t \in Timeouts : WF_vars(DogStep(t))

-----------------------------------------------------------------------------
(* Properties.                                                             *)

Codes == {0, 1, 124, 134, 143}
Running == {"enter", "load", "clear", "arm", "run", "unwind", "restore"}

MainTypes ==
    /\ session \in Sessions /\ pipefail \in BOOLEAN
    /\ at \in 0 .. NCalls /\ seg \in 1 .. MaxSegments + 1
    /\ main \in {"rest", "segment", "inline", "launch", "poll", "look"}
    /\ next \in 1 .. MaxStages + 1
    /\ threads \in Seq(1 .. MaxStages) /\ rx \in 0 .. MaxStages
    /\ final \in Codes /\ panicked \in BOOLEAN /\ code \in Codes
    /\ codes \in [(1 .. NCalls) \X (1 .. MaxSegments) -> Codes \cup {Nil}]
    /\ answer \in [1 .. NCalls -> Codes \cup {Nil}]
    /\ cancel \in BOOLEAN
    /\ asks \in 0 .. MaxAsks /\ asked \in BOOLEAN /\ late \in BOOLEAN

Places == {"none", "poll", "recv", "gate"} \cup Running \cup Ended

StageTypes ==
    /\ pc \in [Stages -> Places]
    /\ depth \in [Stages -> 0 .. MaxNest] /\ out \in [Stages -> Codes]
    /\ from \in [Stages -> 0 .. MaxStages]
    /\ sent \in [Stages -> {"data", "cut", Nil}]
    /\ input \in [Stages -> {"data", "cut", Nil}]
    /\ prev \in [Timeouts -> BOOLEAN] /\ done \in [Timeouts -> BOOLEAN]
    /\ dog \in [Timeouts -> {"off", "watch", "fire", "fired", "gone"}]

TypeOK == MainTypes /\ StageTypes

\* The command of a stage starts only when the stage before it has ended, and
\* on all of what that stage sent down the pipe.
StageOrder ==
    \A s \in Stages :
        pc[s] \in Running /\ from[s] # 0 =>
            pc[Producer(s)] \in Ended /\ input[s] = sent[Producer(s)]

StageIds(k, j) == {s \in Stages : s[1] = k /\ s[2] = j}

\* Segment j of call k has a result that is not "cancelled".
Completed(k, j) == codes[<<k, j>>] \notin {Nil, 143}

\* "all threads are joined": a pipeline that was not cancelled leaves no
\* thread behind, whether or not one of its stages panicked.
Joined ==
    \A k \in 1 .. NCalls, j \in 1 .. MaxSegments :
        Completed(k, j) =>
            \A s \in StageIds(k, j) : pc[s] \in Ended \cup {"none"}

\* What a shell makes of the exit codes of a pipeline: the last one, or with
\* pipefail the last that is not 0; fastshell adds 1 for a panic.  (The code
\* confuses stages and threads when a stage is empty: see Combine.)
ShellCode(k, j, c) ==
    LET n == Len(session[k][j])
        Stage(i) == <<k, j, i>> IN
    IF \E i \in 1 .. n : pc[Stage(i)] = "dead" THEN c = 1
    ELSE IF ~ pipefail THEN c = out[Stage(n)]
    ELSE \/ c = 0 /\ \A i \in 1 .. n : out[Stage(i)] = 0
         \/ c # 0 /\ \E i \in 1 .. n :
              out[Stage(i)] = c /\ \A h \in i + 1 .. n : out[Stage(h)] = 0

PipelineCode ==
    \A k \in 1 .. NCalls, j \in 1 .. MaxSegments :
        /\ Completed(k, j)
        /\ \A i \in 1 .. Len(session[k][j]) : session[k][j][i].body # "empty"
        => ShellCode(k, j, codes[<<k, j>>])

\* No pipes in the session: every command runs on the runtime's thread.
Plain ==
    \A k \in 1 .. Len(session) : \A j \in 1 .. Len(session[k]) :
        Len(session[k][j]) = 1

\* What spoils the flag: a watchdog that found its command running and fired
\* when it was over, or a panic out of a command under `timeout`.
Spoilt == late \/ \E s \in Stages : pc[s] = "dead" /\ depth[s] > 0

\* "Restore the previous flag afterwards": with no pipes, a flag that is set
\* between commands was set by the host, or spoilt.
FlagRestored ==
    Plain /\ main \in {"rest", "segment"} /\ cancel => asked \/ Spoilt

\* With no pipes and an unspoilt flag, a command that was cut short was cut
\* short by the host or by a timeout of its own.
OwnTimeout ==
    Plain => \A s \in Stages : out[s] \in {124, 143} =>
        \/ asks > 0 \/ Spoilt
        \/ \E d \in 1 .. MaxNest : dog[<<s, d>>] = "fired"

Commands ==
    UNION {UNION {{session[k][j][i] : i \in 1 .. Len(session[k][j])}
                    : j \in 1 .. Len(session[k])} : k \in 1 .. Len(session)}

\* With no pipes and no deaf command a call returns when its long commands are
\* under `timeout`.
Bounded ==
    Plain /\ \A c \in Commands :
                c.body # "deaf" /\ (c.body = "long" => c.nest > 0)

TimeoutBounds == (Bounded /\ main # "rest") ~> (main = "rest")

\* With no `timeout` a cancelled call returns, whatever its stages do: one that
\* polls nothing is left behind.  Only a deaf command outside a pipeline, on
\* the runtime's own thread, can hold the call up.
Untimed == \A c \in Commands : c.nest = 0
Hearing ==
    \A k \in 1 .. Len(session) : \A j \in 1 .. Len(session[k]) :
        Len(session[k][j]) = 1 => session[k][j][1].body # "deaf"

CancelEndsCall ==
    (Untimed /\ Hearing /\ asked /\ main # "rest") ~> (main = "rest")

\* "Cancel the currently executing command": a call is answered as cancelled
\* only when the host has cancelled.
OnlyHostCancels == \A k \in 1 .. NCalls : answer[k] = 143 => asks > 0
=============================================================================
