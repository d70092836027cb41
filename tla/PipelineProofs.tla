--------------------------- MODULE PipelineProofs ---------------------------
(***************************************************************************)
(* Proofs about Pipeline, for every session: typing; a stage starts after   *)
(* the one it reads from, on all of its output; a pipeline that was not     *)
(* cancelled has joined all of its threads; its exit code is the one a      *)
(* shell gives it; and the flag after a command is as it was before.        *)
(***************************************************************************)
EXTENDS Pipeline, TLAPS

Busy == {"inline", "launch", "poll", "look"}
Live == Places \ (Ended \cup {"none"})

\* The runtime's thread is at a pipeline of the session, and within it.
InRange ==
    /\ main # "rest" => at \in 1 .. Len(session)
    /\ main \in Busy => seg \in 1 .. Len(session[at])
    /\ main = "launch" =>
         /\ next <= Len(session[at][seg]) + 1 /\ Len(threads) < next
         /\ rx < next
    /\ main \in {"poll", "look"} =>
         /\ next <= Len(threads) /\ Len(threads) <= Len(session[at][seg])

\* A stage with a thread has a command, and is within its timeouts.
Framed ==
    \A s \in Stages : pc[s] # "none" =>
        /\ Cmd(s) \in Command
        /\ depth[s] <= Cmd(s).nest
        /\ pc[s] \in {"load", "clear", "arm"} => depth[s] < Cmd(s).nest
        /\ pc[s] = "restore" => depth[s] > 0

\* Stages the runtime's thread has not come to have no thread, and what has no
\* thread has done nothing.
Ahead(s) ==
    \/ s[1] > at
    \/ /\ s[1] = at
       /\ \/ s[2] > seg
          \/ s[2] = seg /\ main = "segment"
          \/ s[2] = seg /\ main = "launch" /\ s[3] >= next
          \/ s[2] = seg /\ main = "inline" /\ s[3] > 1

Fresh ==
    \A s \in Stages :
        /\ Ahead(s) => pc[s] = "none"
        /\ pc[s] = "none" => depth[s] = 0 /\ from[s] = 0 /\ input[s] = Nil

\* A pipe holds its chunk from the moment its writer has ended; what a stage
\* received is that chunk.
WiredTo(s) ==
    /\ sent[s] # Nil => pc[s] \in Ended
    /\ from[s] # 0 => Producer(s) \in Stages /\ Producer(s) # s
    /\ input[s] # Nil => from[s] # 0 /\ input[s] = sent[Producer(s)]
    /\ pc[s] \in {"poll", "recv"} => from[s] # 0
    /\ pc[s] \in Running \cup {"gate"} /\ from[s] # 0 =>
         pc[Producer(s)] \in Ended /\ input[s] = sent[Producer(s)]

Wired == \A s \in Stages : WiredTo(s)

\* Results are written in order; every live thread of the pipeline at hand is
\* yet to be joined.
Written ==
    \A k \in 1 .. NCalls, j \in 1 .. MaxSegments :
        codes[<<k, j>>] # Nil => k < at \/ (k = at /\ j < seg)

Joining ==
    /\ main = "launch" => \A i \in 1 .. MaxStages :
         pc[Here(i)] # "none" => \E n \in 1 .. Len(threads) : threads[n] = i
    /\ main \in {"poll", "look"} => \A i \in 1 .. MaxStages :
         pc[Here(i)] \in Live => \E n \in next .. Len(threads) : threads[n] = i

IInv ==
    /\ TypeOK /\ InRange /\ Framed /\ Fresh
    /\ Wired /\ Written /\ Joining /\ Joined

-----------------------------------------------------------------------------
(* The script at hand has the shape PipelineAssumption gives it.           *)

LEMMA Scripts ==
    ASSUME TypeOK, NEW k \in 1 .. Len(session)
    PROVE  /\ k \in 1 .. NCalls /\ Len(session[k]) \in 0 .. MaxSegments
           /\ \A j \in 1 .. Len(session[k]) :
                /\ j \in 1 .. MaxSegments
                /\ Len(session[k][j]) \in 1 .. MaxStages
                /\ \A i \in 1 .. Len(session[k][j]) :
                     i \in 1 .. MaxStages /\ session[k][j][i] \in Command
<1>1. /\ session \in Seq(Seq(Seq(Command))) /\ Len(session) <= NCalls
      /\ Len(session[k]) <= MaxSegments
      /\ \A j \in 1 .. Len(session[k]) : Len(session[k][j]) \in 1 .. MaxStages
      BY PipelineAssumption DEF TypeOK, MainTypes
<1>2. session[k] \in Seq(Seq(Command)) /\ k \in 1 .. NCalls
      BY <1>1, PipelineAssumption
<1>3. ASSUME NEW j \in 1 .. Len(session[k])
      PROVE  /\ j \in 1 .. MaxSegments
             /\ Len(session[k][j]) \in 1 .. MaxStages
             /\ \A i \in 1 .. Len(session[k][j]) :
                  i \in 1 .. MaxStages /\ session[k][j][i] \in Command
      <2>1. session[k][j] \in Seq(Command) /\ j \in 1 .. MaxSegments
            BY <1>1, <1>2, PipelineAssumption
      <2>2. Len(session[k][j]) \in 1 .. MaxStages
            BY <1>1
      <2>. QED BY <2>1, <2>2, PipelineAssumption
<1>. QED BY <1>1, <1>2, <1>3, PipelineAssumption

\* The pipeline at hand, and the command of each of its stages.
LEMMA Shape ==
    ASSUME TypeOK, InRange, main \in Busy
    PROVE  /\ at \in 1 .. NCalls /\ at \in 1 .. Len(session)
           /\ seg \in 1 .. MaxSegments /\ seg \in 1 .. Len(session[at])
           /\ Len(session[at][seg]) \in 1 .. MaxStages
           /\ \A i \in 1 .. MaxStages : Here(i) \in Stages
           /\ \A i \in 1 .. Len(session[at][seg]) :
                i \in 1 .. MaxStages /\ Cmd(Here(i)) \in Command
<1>1. at \in 1 .. Len(session) /\ seg \in 1 .. Len(session[at])
      BY DEF InRange, Busy
<1>2. at \in 1 .. NCalls /\ seg \in 1 .. MaxSegments
      BY <1>1, Scripts
<1>. QED BY <1>1, <1>2, Scripts DEF Here, Cmd, Pipe, Stages

-----------------------------------------------------------------------------
(* Initially the invariant holds.                                          *)

LEMMA InitInv == Init => IInv
<1> SUFFICES ASSUME Init PROVE IInv
    OBVIOUS
<1>1. MainTypes
      <2>1. codes \in [(1 .. NCalls) \X (1 .. MaxSegments) -> Codes \cup {Nil}]
            BY DEF Init
      <2>2. threads \in Seq(1 .. MaxStages)
            BY DEF Init
      <2>3. answer \in [1 .. NCalls -> Codes \cup {Nil}]
            BY DEF Init
      <2>4. asks \in 0 .. MaxAsks /\ at \in 0 .. NCalls
            BY PipelineAssumption DEF Init
      <2>5. next \in 1 .. MaxStages + 1 /\ seg \in 1 .. MaxSegments + 1
            BY PipelineAssumption DEF Init
      <2>6. final \in Codes /\ code \in Codes /\ rx \in 0 .. MaxStages
            BY PipelineAssumption DEF Init, Codes
      <2>. QED BY <2>1, <2>2, <2>3, <2>4, <2>5, <2>6 DEF Init, MainTypes
<1>2. StageTypes
      BY PipelineAssumption DEF Init, StageTypes, Places, Codes
<1>3. InRange
      BY DEF Init, InRange, Busy
<1>4. Framed /\ Fresh /\ Wired /\ Joining
      BY DEF Init, Framed, Fresh, Wired, WiredTo, Joining, Running
<1>5. Written /\ Joined
      BY DEF Init, Written, Joined, Completed
<1>. QED BY <1>1, <1>2, <1>3, <1>4, <1>5 DEF IInv, TypeOK

-----------------------------------------------------------------------------
(* What the steps of the two kinds of threads leave alone.                 *)

\* A step of stage s is one of a live thread, and disturbs no other stage.
Local(s) ==
    /\ pc[s] \in Live
    /\ \E p \in Places \ {"none"} : pc' = [pc EXCEPT ![s] = p]
    /\ UNCHANGED <<script, mainVars, from>>
    /\ \A u \in Stages \ {s} : /\ sent'[u] = sent[u] /\ input'[u] = input[u]
                               /\ depth'[u] = depth[u]

LEMMA LocalStep ==
    ASSUME TypeOK, NEW s \in Stages, Protocol(s) \/ Complete(s)
    PROVE  Local(s)
<1>. USE DEF TypeOK, StageTypes, Local, Live, Places, Running, Ended, At,
             pipes, timers
<1>1. CASE GiveUp(s) \/ Emit(s)
      BY <1>1 DEF GiveUp, Emit, Finish
<1>2. CASE Poll(s) \/ Receive(s) \/ NoChunk(s) \/ Gate(s) \/ Enter(s)
      BY <1>2 DEF Poll, Receive, NoChunk, Gate, Enter
<1>3. CASE Complete(s) \/ Observe(s) \/ Panic(s)
      BY <1>3 DEF Complete, Observe, Panic
<1>4. CASE Load(s) \/ Clear(s) \/ Arm(s) \/ SetDone(s) \/ Restore(s)
      BY <1>4 DEF Load, Clear, Arm, SetDone, Restore
<1>. QED BY <1>1, <1>2, <1>3, <1>4 DEF Protocol

\* The watchdogs and the host move nothing but flags.
Aside == UNCHANGED <<script, mainVars, pc, depth, out, pipes>>

LEMMA AsideStep ==
    ASSUME HostCancel \/ \E t \in Timeouts : DogStep(t)
    PROVE  Aside
BY DEF HostCancel, DogStep, Watch, Fire, Aside, stages, pipes, timers

\* The runtime's thread leaves the stages to themselves, but for their launch.
MainOnly == UNCHANGED <<script, depth, out, sent, input, timers>>

LEMMA MainStepOnly ==
    ASSUME MainStep
    PROVE  MainOnly
<1>. USE DEF MainOnly, stages, pipes
<1>1. CASE StartCall \/ EndCall \/ StopList \/ StartSegment
      BY <1>1 DEF StartCall, EndCall, StopList, StartSegment, Answer
<1>2. CASE InlineEnds \/ InlinePanics \/ Launch \/ Launched \/ Abandon
      BY <1>2 DEF InlineEnds, InlinePanics, Launch, Launched, Abandon, Answer
<1>3. CASE PollMain \/ NotFinished \/ Join
      BY <1>3 DEF PollMain, NotFinished, Join
<1>. QED BY <1>1, <1>2, <1>3 DEF MainStep

\* Only two of its steps launch a stage.
LEMMA OnlyLaunches ==
    ASSUME MainStep, ~ StartSegment, ~ Launch
    PROVE  UNCHANGED <<pc, from>>
<1>1. CASE StartCall \/ EndCall \/ StopList \/ InlineEnds \/ InlinePanics
      BY <1>1 DEF StartCall, EndCall, StopList, InlineEnds, InlinePanics,
                  Answer, stages, pipes
<1>2. CASE Launched \/ Abandon \/ PollMain \/ NotFinished \/ Join
      BY <1>2 DEF Launched, Abandon, PollMain, NotFinished, Join, stages, pipes
<1>. QED BY <1>1, <1>2 DEF MainStep

-----------------------------------------------------------------------------
(* Typing.                                                                 *)

\* What a join comes to: the combined code, and at the last thread the result.
Joins == IF next = Len(threads) THEN \E c \in Codes : EndSegment(c)
         ELSE Goto("poll") /\ UNCHANGED <<code, codes, seg>>

LEMMA JoinTypes ==
    ASSUME TypeOK, InRange, Join
    PROVE  /\ main \in Busy /\ next' \in 1 .. MaxStages + 1 /\ final' \in Codes
           /\ panicked' \in BOOLEAN /\ Joins
<1>. DEFINE u == Here(threads[next])
            dead == panicked \/ pc[u] = "dead"
            f == IF pc[u] = "dead" THEN final ELSE Combine(next, out[u])
<1>1. main = "look" /\ next' = next + 1 /\ final' = f /\ panicked' = dead
      BY DEF Join
<1>2. IF next = Len(threads) THEN EndSegment(IF dead THEN 1 ELSE f)
      ELSE Goto("poll") /\ UNCHANGED <<code, codes, seg>>
      BY DEF Join
<1>3. main \in Busy
      BY <1>1 DEF Busy
<1>4. /\ threads \in Seq(1 .. MaxStages) /\ next \in 1 .. MaxStages + 1
      /\ MaxStages \in Nat /\ final \in Codes /\ panicked \in BOOLEAN
      /\ out \in [Stages -> Codes]
      BY PipelineAssumption DEF TypeOK, MainTypes, StageTypes
<1>5. next <= Len(threads) /\ Len(threads) <= MaxStages
      <2>1. next <= Len(threads) /\ Len(threads) <= Len(session[at][seg])
            BY <1>1 DEF InRange
      <2>2. Len(session[at][seg]) \in 1 .. MaxStages
            BY <1>3, Shape
      <2>3. Len(threads) \in Nat
            BY <1>4
      <2>. QED BY <1>4, <2>1, <2>2, <2>3
<1>6. next \in 1 .. Len(threads) /\ threads[next] \in 1 .. MaxStages
      BY <1>4, <1>5
<1>7. u \in Stages
      BY <1>3, <1>6, Shape
<1>8. out[u] \in Codes
      BY <1>4, <1>7
<1>9. f \in Codes
      BY <1>4, <1>8 DEF Combine
<1>10. (IF dead THEN 1 ELSE f) \in Codes
      BY <1>9 DEF Codes
<1>11. next' \in 1 .. MaxStages + 1
      BY <1>1, <1>4, <1>5
<1>. HIDE DEF u, dead, f
<1>12. Joins
      BY <1>2, <1>10 DEF Joins
<1>13. dead \in BOOLEAN
      BY <1>4 DEF dead
<1>. QED BY <1>1, <1>3, <1>9, <1>11, <1>12, <1>13

LEMMA MainTypesStep ==
    ASSUME IInv, MainStep
    PROVE  MainTypes'
<1>. USE DEF IInv, TypeOK, MainTypes, script, pool, results, ghosts, Goto
<1>1. /\ NCalls \in Nat /\ MaxSegments \in Nat /\ MaxStages \in Nat
      /\ MaxAsks \in Nat
      /\ 0 \in Codes /\ 1 \in Codes /\ 134 \in Codes /\ 143 \in Codes
      BY PipelineAssumption DEF Codes
<1>2. CASE StartCall
      <2>1. at < Len(session) /\ Len(session) \in Nat /\ Len(session) <= NCalls
            BY <1>2, PipelineAssumption DEF StartCall
      <2>2. at' \in 0 .. NCalls /\ seg' \in 1 .. MaxSegments + 1
            BY <1>1, <1>2, <2>1 DEF StartCall
      <2>. QED BY <1>1, <1>2, <2>2 DEF StartCall
<1>3. CASE EndCall \/ StopList \/ InlinePanics
      <2>1. PICK c \in Codes : Answer(c)
            BY <1>1, <1>3 DEF EndCall, StopList, InlinePanics
      <2>2. answer' \in [1 .. NCalls -> Codes \cup {Nil}]
            BY <2>1 DEF Answer
      <2>. QED BY <2>1, <2>2 DEF Answer
<1>4. CASE StartSegment
      <2>1. threads' \in Seq(1 .. MaxStages)
            BY <1>4 DEF StartSegment
      <2>2. next' \in 1 .. MaxStages + 1 /\ rx' \in 0 .. MaxStages
            BY <1>1, <1>4 DEF StartSegment
      <2>. QED BY <1>1, <1>4, <2>1, <2>2 DEF StartSegment
<1>5. ASSUME NEW c \in Codes, EndSegment(c), main \in Busy
      PROVE  /\ code' \in Codes /\ seg' \in 1 .. MaxSegments + 1
             /\ main' = "segment"
             /\ codes' \in [(1 .. NCalls) \X (1 .. MaxSegments)
                              -> Codes \cup {Nil}]
      <2>1. seg \in 1 .. MaxSegments
            BY <1>5, Shape
      <2>2. seg' \in 1 .. MaxSegments + 1
            BY <1>1, <1>5, <2>1 DEF EndSegment
      <2>3. codes' \in [(1 .. NCalls) \X (1 .. MaxSegments)
                         -> Codes \cup {Nil}]
            BY <1>5 DEF EndSegment
      <2>. QED BY <1>5, <2>2, <2>3 DEF EndSegment
<1>6. CASE InlineEnds
      <2>1. Here(1) \in Stages
            BY <1>6, Shape DEF InlineEnds, Busy
      <2>2. out[Here(1)] \in Codes /\ main \in Busy
            BY <1>6, <2>1 DEF InlineEnds, StageTypes, Busy
      <2>. QED BY <1>6, <2>2, <1>5 DEF InlineEnds
<1>7. CASE Abandon
      <2>1. EndSegment(143) /\ main \in Busy
            BY <1>7 DEF Abandon, Busy
      <2>. QED BY <1>1, <1>7, <2>1, <1>5 DEF Abandon
<1>8. CASE Launch
      <2>1. next \in 1 .. MaxStages
            BY <1>1, <1>8, Shape DEF Launch, Busy
      <2>2. threads' \in Seq(1 .. MaxStages)
            <3>1. Append(threads, next) \in Seq(1 .. MaxStages)
                  BY <2>1
            <3>2. threads' = threads \/ threads' = Append(threads, next)
                  BY <1>8 DEF Launch
            <3>. QED BY <3>1, <3>2
      <2>3. rx' \in 0 .. MaxStages /\ next' \in 1 .. MaxStages + 1
            BY <1>1, <1>8, <2>1 DEF Launch
      <2>. QED BY <1>1, <1>8, <2>2, <2>3 DEF Launch
<1>9. CASE Launched
      <2>1. main \in Busy
            BY <1>9 DEF Launched, Busy
      <2>2. CASE threads = <<>>
            BY <1>1, <1>9, <2>1, <2>2, <1>5 DEF Launched
      <2>3. CASE threads # <<>>
            BY <1>1, <1>9, <2>3 DEF Launched
      <2>. QED BY <2>2, <2>3
<1>10. CASE PollMain \/ NotFinished
      BY <1>10 DEF PollMain, NotFinished
<1>11. CASE Join
      <2>1. main \in Busy /\ next' \in 1 .. MaxStages + 1 /\ final' \in Codes
            /\ panicked' \in BOOLEAN /\ Joins
            BY <1>11, JoinTypes
      <2>2. CASE next = Len(threads)
            <3>1. PICK c \in Codes : EndSegment(c)
                  BY <2>1, <2>2 DEF Joins
            <3>. QED BY <1>11, <2>1, <3>1, <1>5 DEF Join
      <2>3. CASE next # Len(threads)
            BY <1>11, <2>1, <2>3 DEF Join, Joins
      <2>. QED BY <2>2, <2>3
<1>. QED BY <1>2, <1>3, <1>4, <1>6, <1>7, <1>8, <1>9, <1>10, <1>11 DEF MainStep

LEMMA MainStageTypesStep ==
    ASSUME IInv, MainStep
    PROVE  StageTypes'
<1>1. MainOnly /\ TypeOK /\ InRange
      BY MainStepOnly DEF IInv
<1>2. pc' \in [Stages -> Places] /\ from' \in [Stages -> 0 .. MaxStages]
      <2>1. CASE StartSegment
            BY <1>1, <2>1 DEF StartSegment, TypeOK, StageTypes, Places, Running,
               Ended, pipes
      <2>2. CASE Launch
            <3>1. pc' \in [Stages -> Places]
                  BY <1>1, <2>2 DEF Launch, TypeOK, StageTypes, Places
            <3>2. from' \in [Stages -> 0 .. MaxStages]
                  BY <1>1, <2>2 DEF Launch, TypeOK, MainTypes, StageTypes
            <3>. QED BY <3>1, <3>2
      <2>3. CASE ~ StartSegment /\ ~ Launch
            BY <1>1, <2>3, OnlyLaunches DEF TypeOK, StageTypes
      <2>. QED BY <2>1, <2>2, <2>3
<1>. QED BY <1>1, <1>2 DEF MainOnly, timers, TypeOK, StageTypes

\* A stage within its timeouts: the numbers the steps of cmd_timeout use.
LEMMA Within ==
    ASSUME TypeOK, Framed, NEW s \in Stages, pc[s] # "none"
    PROVE  /\ depth[s] \in 0 .. MaxNest /\ Cmd(s).nest \in 0 .. MaxNest
           /\ MaxNest \in Nat /\ depth[s] <= Cmd(s).nest
           /\ pc[s] \in {"load", "clear", "arm"} =>
                depth[s] + 1 \in 0 .. MaxNest
           /\ pc[s] = "restore" => <<s, depth[s]>> \in Timeouts
<1>1. depth[s] \in 0 .. MaxNest /\ Cmd(s).nest \in 0 .. MaxNest
      BY DEF TypeOK, StageTypes, Framed, Command
<1>. QED BY <1>1, PipelineAssumption DEF Framed, Timeouts

LEMMA StageStepTypes ==
    ASSUME IInv, NEW s \in Stages, Protocol(s) \/ Complete(s)
    PROVE  TypeOK'
<1>1. TypeOK /\ Framed /\ Local(s)
      BY LocalStep DEF IInv
<1>2. /\ UNCHANGED <<script, mainVars, from>>
      /\ pc' \in [Stages -> Places]
      BY <1>1 DEF Local, TypeOK, StageTypes
<1>3. /\ cancel' \in BOOLEAN /\ UNCHANGED ghosts
      /\ prev' \in [Timeouts -> BOOLEAN] /\ done' \in [Timeouts -> BOOLEAN]
      /\ dog' \in [Timeouts -> {"off", "watch", "fire", "fired", "gone"}]
      <2>. USE DEF TypeOK, MainTypes, StageTypes, timers
      <2>1. CASE GiveUp(s) \/ Emit(s) \/ Poll(s) \/ Receive(s) \/ NoChunk(s)
            BY <1>1, <2>1 DEF GiveUp, Emit, Poll, Receive, NoChunk
      <2>2. CASE Gate(s) \/ Enter(s) \/ Complete(s) \/ Observe(s) \/ Panic(s)
            BY <1>1, <2>2 DEF Gate, Enter, Complete, Observe, Panic
      <2>3. CASE Load(s) \/ Clear(s) \/ Arm(s) \/ SetDone(s)
            BY <1>1, <2>3 DEF Load, Clear, Arm, SetDone
      <2>4. CASE Restore(s)
            <3>1. <<s, depth[s]>> \in Timeouts
                  BY <1>1, <2>4, Within DEF Restore
            <3>. QED BY <1>1, <2>4, <3>1 DEF Restore
      <2>. QED BY <2>1, <2>2, <2>3, <2>4 DEF Protocol
<1>4. /\ out' \in [Stages -> Codes]
      /\ sent' \in [Stages -> {"data", "cut", Nil}]
      /\ input' \in [Stages -> {"data", "cut", Nil}]
      <2>. USE DEF TypeOK, StageTypes, Codes, pipes
      <2>1. CASE GiveUp(s) \/ Emit(s)
            BY <1>1, <2>1 DEF GiveUp, Emit, Finish
      <2>2. CASE Receive(s)
            <3>1. sent[Producer(s)] \in {"data", "cut", Nil}
                  BY <1>1, <2>2 DEF Receive, IInv, Wired, WiredTo
            <3>. QED BY <1>1, <2>2, <3>1 DEF Receive
      <2>3. CASE Poll(s) \/ NoChunk(s) \/ Gate(s) \/ Enter(s) \/ Complete(s)
            BY <1>1, <2>3 DEF Poll, NoChunk, Gate, Enter, Complete
      <2>4. CASE Observe(s) \/ Panic(s) \/ Load(s) \/ Clear(s) \/ Arm(s)
            BY <1>1, <2>4 DEF Observe, Panic, Load, Clear, Arm
      <2>5. CASE SetDone(s) \/ Restore(s)
            BY <1>1, <2>5 DEF SetDone, Restore
      <2>. QED BY <2>1, <2>2, <2>3, <2>4, <2>5 DEF Protocol
<1>5. depth' \in [Stages -> 0 .. MaxNest]
      <2>. USE DEF TypeOK, StageTypes, stages
      <2>1. CASE Arm(s)
            <3>1. depth[s] + 1 \in 0 .. MaxNest
                  BY <1>1, <2>1, Within DEF Arm
            <3>. QED BY <1>1, <2>1, <3>1 DEF Arm
      <2>2. CASE Restore(s)
            <3>1. depth[s] - 1 \in 0 .. MaxNest
                  BY <1>1, <2>2, Within DEF Restore, Framed
            <3>. QED BY <1>1, <2>2, <3>1 DEF Restore
      <2>3. CASE ~ Arm(s) /\ ~ Restore(s)
            BY <1>1, <2>3 DEF Protocol, GiveUp, Emit, Poll, Receive, NoChunk,
               Gate, Enter, Complete, Observe, Panic, Load, Clear, SetDone
      <2>. QED BY <2>1, <2>2, <2>3
<1>6. MainTypes'
      BY <1>1, <1>2, <1>3 DEF TypeOK, MainTypes, script, mainVars, pool,
         results, ghosts
<1>7. StageTypes'
      BY <1>1, <1>2, <1>3, <1>4, <1>5 DEF TypeOK, StageTypes
<1>. QED BY <1>6, <1>7 DEF TypeOK

LEMMA TypeStep == IInv /\ [Next]_vars => TypeOK'
<1> SUFFICES ASSUME IInv, [Next]_vars PROVE TypeOK'
    OBVIOUS
<1>1. CASE MainStep
      BY <1>1, MainTypesStep, MainStageTypesStep DEF TypeOK
<1>2. CASE \E s \in Stages : Protocol(s) \/ Complete(s)
      BY <1>2, StageStepTypes
<1>3. CASE HostCancel
      <2>1. asks' \in 0 .. MaxAsks
            BY <1>3, PipelineAssumption DEF IInv, TypeOK, MainTypes, HostCancel
      <2>2. MainTypes'
            BY <1>3, <2>1 DEF IInv, TypeOK, MainTypes, HostCancel, script,
               mainVars, pool, results
      <2>. QED BY <1>3, <2>2 DEF IInv, TypeOK, StageTypes, HostCancel, stages,
                  pipes, timers
<1>4. ASSUME NEW t \in Timeouts, DogStep(t) PROVE TypeOK'
      <2>1. MainTypes'
            BY <1>4 DEF IInv, TypeOK, MainTypes, DogStep, Watch, Fire, script,
               mainVars, pool, results, ghosts
      <2>2. dog' \in [Timeouts -> {"off", "watch", "fire", "fired", "gone"}]
            BY <1>4 DEF IInv, TypeOK, StageTypes, DogStep, Watch, Fire
      <2>. QED BY <1>4, <2>1, <2>2 DEF IInv, TypeOK, StageTypes, DogStep, Watch,
                  Fire, pipes
<1>5. CASE UNCHANGED vars
      BY <1>5 DEF IInv, TypeOK, MainTypes, StageTypes, vars, script, mainVars,
         pool, results, stages, pipes, timers, ghosts
<1>. QED BY <1>1, <1>2, <1>3, <1>4, <1>5 DEF Next

-----------------------------------------------------------------------------
(* The runtime's thread stays within the script.                           *)

LEMMA InRangeStep == IInv /\ [Next]_vars => InRange'
<1> SUFFICES ASSUME IInv, [Next]_vars PROVE InRange'
    OBVIOUS
<1>. USE DEF script, mainVars, pool, results
<1>1. TypeOK /\ InRange
      BY DEF IInv
<1>2. main # "rest" => /\ at \in 1 .. Len(session)
                       /\ Len(session[at]) \in Nat
      BY <1>1, Scripts DEF InRange
<1>3. /\ at \in Nat /\ Len(session) \in Nat /\ seg \in Nat \ {0}
      /\ Len(threads) \in Nat /\ next \in Nat \ {0} /\ rx \in Nat
      BY <1>1, PipelineAssumption DEF TypeOK, MainTypes
<1>4. main \in Busy => Len(session[at][seg]) \in Nat \ {0}
      BY <1>1, Shape
<1>5. CASE StartCall
      BY <1>3, <1>5 DEF StartCall, InRange, Busy, Goto
<1>6. CASE EndCall \/ StopList \/ InlinePanics
      BY <1>1, <1>6 DEF EndCall, StopList, InlinePanics, Answer, InRange, Busy,
         Goto
<1>7. CASE StartSegment
      <2>1. /\ main' \in {"inline", "launch"} /\ next' = 1 /\ threads' = <<>>
            /\ rx' = 0 /\ UNCHANGED <<session, at, seg>>
            /\ seg <= Len(session[at]) /\ main # "rest"
            BY <1>7 DEF StartSegment, Goto
      <2>2. seg \in 1 .. Len(session[at]) /\ Len(session[at][seg]) \in Nat
            BY <1>1, <1>2, <1>3, <2>1, Scripts
      <2>. QED BY <1>2, <2>1, <2>2 DEF InRange
<1>8. ASSUME NEW c, EndSegment(c), UNCHANGED <<session, at>>, main # "rest"
      PROVE  InRange'
      BY <1>2, <1>8 DEF EndSegment, InRange, Busy, Goto
<1>9. CASE InlineEnds \/ Abandon
      BY <1>8, <1>9 DEF InlineEnds, Abandon
<1>10. CASE Launch
      <2>1. /\ main = "launch" /\ UNCHANGED <<session, at, seg, main>>
            /\ next <= Len(session[at][seg]) /\ next' = next + 1
            /\ rx' \in {rx, next, 0}
            /\ threads' = threads \/ threads' = Append(threads, next)
            BY <1>10 DEF Launch
      <2>2. Len(threads') <= Len(threads) + 1
            BY <1>1, <2>1 DEF TypeOK, MainTypes
      <2>3. Len(threads) < next /\ rx < next
            BY <1>1, <2>1 DEF InRange
      <2>4. Len(threads') \in Nat
            BY <1>1, <1>3, <2>1 DEF TypeOK, MainTypes
      <2>5. Len(threads') < next' /\ rx' < next'
            BY <1>3, <2>1, <2>2, <2>3, <2>4
      <2>6. next' <= Len(session[at][seg]) + 1
            BY <1>3, <1>4, <2>1 DEF Busy
      <2>. QED BY <1>1, <2>1, <2>5, <2>6 DEF InRange, Busy
<1>11. CASE Launched
      <2>1. CASE threads = <<>>
            BY <1>8, <1>11, <2>1 DEF Launched
      <2>2. CASE threads # <<>>
            <3>1. /\ main = "launch" /\ main' = "poll" /\ next' = 1
                  /\ UNCHANGED <<session, at, seg, threads>>
                  BY <1>11, <2>2 DEF Launched, Goto
            <3>2. Len(threads) # 0
                  BY <1>1, <2>2 DEF TypeOK, MainTypes
            <3>3. Len(threads) <= Len(session[at][seg])
                  BY <1>1, <1>3, <1>4, <3>1 DEF InRange, Busy
            <3>. QED BY <1>1, <1>3, <3>1, <3>2, <3>3 DEF InRange, Busy
      <2>. QED BY <2>1, <2>2
<1>12. CASE PollMain \/ NotFinished
      BY <1>1, <1>12 DEF PollMain, NotFinished, InRange, Busy, Goto
<1>13. CASE Join
      <2>1. CASE next = Len(threads)
            BY <1>8, <1>13, <2>1 DEF Join
      <2>2. CASE next # Len(threads)
            BY <1>1, <1>3, <1>13, <2>2 DEF Join, InRange, Busy, Goto
      <2>. QED BY <2>1, <2>2
<1>14. CASE \E s \in Stages : Protocol(s) \/ Complete(s)
      BY <1>1, <1>14, LocalStep DEF Local, InRange
<1>15. CASE HostCancel \/ \E t \in Timeouts : DogStep(t)
      BY <1>1, <1>15, AsideStep DEF Aside, InRange
<1>16. CASE UNCHANGED vars
      BY <1>1, <1>16 DEF vars, InRange
<1>. QED BY <1>5, <1>6, <1>7, <1>9, <1>10, <1>11, <1>12, <1>13, <1>14, <1>15,
            <1>16 DEF Next, MainStep

-----------------------------------------------------------------------------
(* A launch starts one stage that had done nothing.                        *)

Started(u) ==
    /\ Ahead(u) /\ pc[u] = "none" /\ Cmd(u) \in Command
    /\ u[1] = at /\ u[2] = seg
    /\ \E p \in {"enter", "done", "gate", "poll"}, r \in 0 .. MaxStages :
         /\ pc' = [pc EXCEPT ![u] = p]
         /\ \A v \in Stages : from'[v] = IF v = u THEN r ELSE from[v]
         /\ (p = "poll" <=> r # 0) /\ (r # 0 => r < u[3])

LEMMA Launches ==
    ASSUME IInv, MainStep
    PROVE  UNCHANGED <<pc, from>> \/ \E u \in Stages : Started(u)
<1>1. TypeOK /\ InRange /\ Fresh /\ PipelineAssumption
      BY PipelineAssumption DEF IInv
<1>2. CASE StartSegment
      <2>. DEFINE u == Here(1)
      <2>1. /\ main = "segment" /\ seg <= Len(session[at])
            /\ at \in 1 .. Len(session) /\ seg \in Nat \ {0}
            BY <1>1, <1>2 DEF StartSegment, InRange, TypeOK, MainTypes,
               PipelineAssumption
      <2>2. Len(session[at]) \in Nat
            BY <1>1, <2>1, Scripts
      <2>3. seg \in 1 .. Len(session[at])
            BY <2>1, <2>2
      <2>4. /\ at \in 1 .. NCalls /\ seg \in 1 .. MaxSegments
            /\ Len(session[at][seg]) \in 1 .. MaxStages
            BY <1>1, <2>1, <2>3, Scripts
      <2>5. u \in Stages /\ u[1] = at /\ u[2] = seg
            BY <1>1, <2>4 DEF Stages, Here, PipelineAssumption
      <2>6. Cmd(u) \in Command
            <3>1. 1 \in 1 .. Len(session[at][seg])
                  BY <1>1, <2>4 DEF PipelineAssumption
            <3>2. session[at][seg][1] \in Command
                  BY <1>1, <2>1, <2>3, <3>1, Scripts
            <3>. QED BY <3>2 DEF Cmd, Pipe, Here
      <2>7. Ahead(u) /\ pc[u] = "none" /\ from[u] = 0
            BY <1>1, <2>1, <2>5 DEF Ahead, Fresh
      <2>8. UNCHANGED from /\ 0 \in 0 .. MaxStages
            BY <1>1, <1>2 DEF StartSegment, pipes, PipelineAssumption
      <2>9. \/ UNCHANGED pc
            \/ \E p \in {"enter", "done"} : pc' = [pc EXCEPT ![u] = p]
            BY <1>2 DEF StartSegment
      <2>. QED BY <2>5, <2>6, <2>7, <2>8, <2>9 DEF Started
<1>3. CASE Launch
      <2>. DEFINE u == Here(next)
      <2>1. /\ main = "launch" /\ next \in 1 .. Len(session[at][seg])
            /\ rx \in 0 .. MaxStages /\ rx < next
            BY <1>1, <1>3, Shape DEF Launch, InRange, TypeOK, MainTypes, Busy,
               PipelineAssumption
      <2>2. next \in 1 .. MaxStages /\ u \in Stages /\ Cmd(u) \in Command
            BY <1>1, <2>1, Shape DEF Busy
      <2>3. u[1] = at /\ u[2] = seg /\ u[3] = next
            BY DEF Here
      <2>4. Ahead(u) /\ pc[u] = "none"
            BY <1>1, <2>1, <2>2, <2>3 DEF Ahead, Fresh
      <2>5. \/ UNCHANGED <<pc, from>>
            \/ /\ pc' = [pc EXCEPT ![u] = IF rx = 0 THEN "gate" ELSE "poll"]
               /\ from' = [from EXCEPT ![u] = rx]
            BY <1>3 DEF Launch
      <2>6. ASSUME from' = [from EXCEPT ![u] = rx]
            PROVE  \A v \in Stages : from'[v] = IF v = u THEN rx ELSE from[v]
            BY <1>1, <2>2, <2>6 DEF TypeOK, StageTypes
      <2>. QED BY <2>1, <2>2, <2>3, <2>4, <2>5, <2>6 DEF Started
<1>4. CASE ~ StartSegment /\ ~ Launch
      BY <1>4, OnlyLaunches
<1>. QED BY <1>2, <1>3, <1>4

-----------------------------------------------------------------------------
(* The stages keep within their timeouts.                                  *)

LEMMA FramedStep == IInv /\ [Next]_vars => Framed'
<1> SUFFICES ASSUME IInv, [Next]_vars PROVE Framed'
    OBVIOUS
<1>1. TypeOK /\ Framed /\ Fresh
      BY DEF IInv
<1>2. CASE MainStep
      <2>1. UNCHANGED <<session, depth>>
            BY <1>2, MainStepOnly DEF MainOnly, script
      <2>2. CASE UNCHANGED <<pc, from>>
            BY <1>1, <2>1, <2>2 DEF Framed, Cmd, Pipe
      <2>3. ASSUME NEW u \in Stages, Started(u) PROVE Framed'
            <3>1. depth[u] = 0 /\ Cmd(u) \in Command /\ 0 <= Cmd(u).nest
                  BY <1>1, <2>3, PipelineAssumption
                  DEF Started, Fresh, Command
            <3>2. PICK p \in {"enter", "done", "gate", "poll"} :
                    pc' = [pc EXCEPT ![u] = p]
                  BY <2>3 DEF Started
            <3>3. \A s \in Stages \ {u} : pc'[s] = pc[s]
                  BY <3>2
            <3>4. pc'[u] \in {"enter", "done", "gate", "poll"}
                  BY <1>1, <3>2 DEF TypeOK, StageTypes
            <3>. QED BY <1>1, <2>1, <3>1, <3>3, <3>4 DEF Framed, Cmd, Pipe
      <2>. QED BY <1>2, <2>2, <2>3, Launches DEF IInv
<1>3. ASSUME NEW s \in Stages, Protocol(s) \/ Complete(s) PROVE Framed'
      <2>1. /\ Local(s) /\ UNCHANGED session
            /\ pc[s] # "none" /\ depth[s] \in Nat /\ Cmd(s).nest \in Nat
            /\ Cmd(s) \in Command /\ depth[s] <= Cmd(s).nest
            /\ pc[s] \in {"load", "clear", "arm"} => depth[s] < Cmd(s).nest
            /\ pc[s] = "restore" => depth[s] > 0
            <3>1. Local(s) /\ pc[s] # "none" /\ UNCHANGED session
                  BY <1>1, <1>3, LocalStep DEF Local, script, Live
            <3>2. /\ depth[s] \in 0 .. MaxNest /\ Cmd(s).nest \in 0 .. MaxNest
                  /\ MaxNest \in Nat
                  BY <1>1, <3>1, Within
            <3>. QED BY <1>1, <3>1, <3>2 DEF Framed
      <2>2. \A u \in Stages \ {s} : pc'[u] = pc[u] /\ depth'[u] = depth[u]
            BY <2>1 DEF Local
      <2>3. /\ depth'[s] \in Nat /\ depth'[s] <= Cmd(s).nest
            /\ pc'[s] \in {"load", "clear", "arm"} => depth'[s] < Cmd(s).nest
            /\ pc'[s] = "restore" => depth'[s] > 0
            <3>. USE DEF TypeOK, StageTypes, At
            <3>1. CASE GiveUp(s) \/ Emit(s)
                  BY <1>1, <2>1, <3>1 DEF GiveUp, Emit, Finish
            <3>2. CASE Poll(s) \/ Receive(s) \/ NoChunk(s) \/ Gate(s)
                  BY <1>1, <2>1, <3>2 DEF Poll, Receive, NoChunk, Gate
            <3>3. CASE Enter(s) \/ Complete(s) \/ Observe(s) \/ Panic(s)
                  BY <1>1, <2>1, <3>3 DEF Enter, Complete, Observe, Panic
            <3>4. CASE Load(s) \/ Clear(s) \/ Arm(s)
                  BY <1>1, <2>1, <3>4 DEF Load, Clear, Arm
            <3>5. CASE SetDone(s) \/ Restore(s)
                  BY <1>1, <2>1, <3>5 DEF SetDone, Restore
            <3>. QED BY <1>3, <3>1, <3>2, <3>3, <3>4, <3>5 DEF Protocol
      <2>. QED BY <1>1, <2>1, <2>2, <2>3 DEF Framed, Cmd, Pipe
<1>4. CASE HostCancel \/ \E t \in Timeouts : DogStep(t)
      BY <1>1, <1>4, AsideStep DEF Aside, script, Framed, Cmd, Pipe
<1>5. CASE UNCHANGED vars
      BY <1>1, <1>5 DEF vars, script, stages, Framed, Cmd, Pipe
<1>. QED BY <1>2, <1>3, <1>4, <1>5 DEF Next

-----------------------------------------------------------------------------
(* What the runtime's thread has not come to stays untouched.              *)

LEMMA FreshStep == IInv /\ [Next]_vars => Fresh'
<1> SUFFICES ASSUME IInv, [Next]_vars PROVE Fresh'
    OBVIOUS
<1>1. TypeOK /\ Fresh /\ InRange
      BY DEF IInv
<1>2. CASE MainStep
      <2>. USE DEF mainVars, script
      <2>1. UNCHANGED <<depth, input>>
            BY <1>2, MainStepOnly DEF MainOnly
      <2>2. \A s \in Stages : pc'[s] = "none" =>
              /\ pc[s] = "none"
              /\ depth'[s] = 0 /\ from'[s] = 0 /\ input'[s] = Nil
            <3>1. CASE UNCHANGED <<pc, from>>
                  BY <1>1, <2>1, <3>1 DEF Fresh
            <3>2. ASSUME NEW u \in Stages, Started(u), NEW s \in Stages,
                         pc'[s] = "none"
                  PROVE  s # u /\ pc[s] = "none" /\ from'[s] = from[s]
                  BY <1>1, <3>2 DEF Started, TypeOK, StageTypes
            <3>. QED BY <1>1, <1>2, <2>1, <3>1, <3>2, Launches
                     DEF Fresh, IInv
      <2>3. ASSUME NEW s \in Stages, Ahead(s)' PROVE pc'[s] = "none"
            <3>1. /\ at \in Nat /\ seg \in Nat /\ next \in Nat
                  /\ s[1] \in Nat /\ s[2] \in Nat /\ s[3] \in Nat
                  BY <1>1, PipelineAssumption
                  DEF TypeOK, MainTypes, Stages
            <3>2. CASE StartSegment
                  <4>1. CASE UNCHANGED pc
                        BY <1>1, <2>3, <3>1, <3>2, <4>1
                        DEF StartSegment, Ahead, Fresh, Goto
                  <4>2. CASE pc' # pc
                        <5>1. main' = "inline" /\ s # Here(1)
                              BY <2>3, <3>1, <3>2, <4>2
                              DEF StartSegment, Ahead, Goto, Here
                        <5>2. pc'[s] = pc[s]
                              BY <1>1, <3>2, <5>1
                              DEF StartSegment, Goto, TypeOK, StageTypes
                        <5>. QED BY <1>1, <2>3, <3>1, <3>2, <5>1, <5>2
                                 DEF StartSegment, Ahead, Fresh, Goto
                  <4>. QED BY <4>1, <4>2
            <3>3. CASE Launch
                  <4>1. Ahead(s) /\ s # Here(next)
                        BY <2>3, <3>1, <3>3 DEF Launch, Ahead, Here
                  <4>2. pc'[s] = pc[s]
                        BY <1>1, <3>3, <4>1 DEF Launch, TypeOK, StageTypes
                  <4>. QED BY <1>1, <4>1, <4>2 DEF Fresh
            <3>4. CASE ~ StartSegment /\ ~ Launch
                  <4>1. UNCHANGED pc
                        BY <1>2, <3>4, OnlyLaunches
                  <4>2. Ahead(s)
                        <5>1. CASE StartCall \/ EndCall \/ StopList
                              BY <2>3, <3>1, <5>1 DEF StartCall, EndCall,
                                 StopList, Answer, Ahead, Goto
                        <5>2. CASE InlineEnds \/ InlinePanics \/ Launched
                              BY <2>3, <3>1, <5>2 DEF InlineEnds, InlinePanics,
                                 Launched, Answer, EndSegment, Ahead, Goto
                        <5>3. CASE Abandon \/ PollMain \/ NotFinished
                              BY <2>3, <3>1, <5>3 DEF Abandon, PollMain,
                                 NotFinished, EndSegment, Ahead, Goto
                        <5>4. CASE Join
                              BY <2>3, <3>1, <5>4 DEF Join, EndSegment, Ahead,
                                 Goto
                        <5>. QED BY <1>2, <3>4, <5>1, <5>2, <5>3, <5>4
                                 DEF MainStep
                  <4>. QED BY <1>1, <4>1, <4>2 DEF Fresh
            <3>. QED BY <3>2, <3>3, <3>4
      <2>. QED BY <2>2, <2>3 DEF Fresh
<1>3. ASSUME NEW s \in Stages, Protocol(s) \/ Complete(s) PROVE Fresh'
      <2>1. Local(s)
            BY <1>1, <1>3, LocalStep
      <2>2. pc[s] # "none" /\ pc'[s] # "none"
            BY <1>1, <2>1 DEF Local, Live, TypeOK, StageTypes
      <2>3. \A u \in Stages \ {s} :
              /\ pc'[u] = pc[u] /\ depth'[u] = depth[u] /\ input'[u] = input[u]
              /\ from'[u] = from[u]
            BY <2>1 DEF Local
      <2>4. \A u \in Stages : Ahead(u)' = Ahead(u)
            BY <2>1 DEF Local, mainVars, Ahead
      <2>. QED BY <1>1, <2>2, <2>3, <2>4 DEF Fresh
<1>4. CASE HostCancel \/ \E t \in Timeouts : DogStep(t)
      BY <1>1, <1>4, AsideStep DEF Aside, mainVars, pipes, Fresh, Ahead
<1>5. CASE UNCHANGED vars
      BY <1>1, <1>5 DEF vars, mainVars, stages, pipes, Fresh, Ahead
<1>. QED BY <1>2, <1>3, <1>4, <1>5 DEF Next

-----------------------------------------------------------------------------
(* The pipes.                                                              *)

LEMMA WiredStep == IInv /\ [Next]_vars => Wired'
<1> SUFFICES ASSUME IInv, [Next]_vars PROVE Wired'
    OBVIOUS
<1>1. TypeOK /\ Fresh /\ Wired /\ PipelineAssumption
      BY PipelineAssumption DEF IInv
<1>2. CASE MainStep
      <2>1. UNCHANGED <<sent, input>>
            BY <1>2, MainStepOnly DEF MainOnly
      <2>2. CASE UNCHANGED <<pc, from>>
            BY <1>1, <2>1, <2>2 DEF Wired, WiredTo, Producer
      <2>3. ASSUME NEW u \in Stages, Started(u) PROVE Wired'
            <3>1. PICK p \in {"enter", "done", "gate", "poll"},
                       r \in 0 .. MaxStages :
                    /\ pc' = [pc EXCEPT ![u] = p]
                    /\ \A v \in Stages : from'[v] = IF v = u THEN r ELSE from[v]
                    /\ (p = "poll" <=> r # 0) /\ (r # 0 => r < u[3])
                  BY <2>3 DEF Started
            <3>2. /\ pc[u] = "none" /\ input[u] = Nil /\ sent[u] = Nil
                  /\ pc'[u] = p /\ from'[u] = r
                  BY <1>1, <2>3, <3>1
                  DEF Started, Fresh, Wired, WiredTo, TypeOK, StageTypes, Ended
            <3>3. \A s \in Stages \ {u} : pc'[s] = pc[s] /\ from'[s] = from[s]
                  BY <3>1
            <3>4. ASSUME r # 0 PROVE /\ Producer(u)' \in Stages
                                     /\ Producer(u)' # u
                  BY <1>1, <3>1, <3>2, <3>4
                  DEF Producer, Stages, PipelineAssumption
            <3>5. \A s \in Stages \ {u} : Producer(s)' = Producer(s)
                  BY <3>3 DEF Producer
            <3>. QED BY <1>1, <2>1, <3>1, <3>2, <3>3, <3>4, <3>5
                     DEF Wired, WiredTo, Running, Ended
      <2>. QED BY <1>2, <2>2, <2>3, Launches DEF IInv
<1>3. ASSUME NEW s \in Stages, Protocol(s) \/ Complete(s) PROVE Wired'
      <2>. DEFINE q == Producer(s)
      <2>1. /\ Local(s) /\ UNCHANGED from
            /\ pc[s] \notin Ended /\ pc[s] # "none" /\ sent[s] = Nil
            BY <1>1, <1>3, LocalStep DEF Local, Live, Wired, WiredTo
      <2>2. \A u \in Stages \ {s} :
              /\ pc'[u] = pc[u] /\ sent'[u] = sent[u] /\ input'[u] = input[u]
              /\ Producer(u)' = Producer(u)
            BY <2>1 DEF Local, Producer
      <2>3. UNCHANGED q /\ (from[s] # 0 => q \in Stages /\ q # s)
            BY <1>1, <2>1 DEF Producer, Wired, WiredTo
      <2>4. /\ sent'[s] # Nil => pc'[s] \in Ended
            /\ input'[s] # Nil => from[s] # 0 /\ input'[s] = sent[q]
            /\ pc'[s] \in {"poll", "recv"} => from[s] # 0
            /\ pc'[s] \in Running \cup {"gate"} /\ from[s] # 0 =>
                 pc[q] \in Ended /\ input'[s] = sent[q]
            <3>. USE DEF TypeOK, StageTypes, At, Wired, WiredTo, Running, Ended, pipes
            <3>1. CASE GiveUp(s) \/ Emit(s)
                  BY <1>1, <2>1, <3>1 DEF GiveUp, Emit, Finish
            <3>2. CASE Poll(s) \/ Gate(s)
                  BY <1>1, <2>1, <3>2 DEF Poll, Gate
            <3>3. CASE Receive(s)
                  BY <1>1, <2>1, <3>3 DEF Receive
            <3>4. CASE NoChunk(s)
                  BY <1>1, <2>1, <3>4 DEF NoChunk
            <3>5. CASE Enter(s) \/ Complete(s) \/ Observe(s) \/ Panic(s)
                  BY <1>1, <2>1, <3>5 DEF Enter, Complete, Observe, Panic
            <3>6. CASE Load(s) \/ Clear(s) \/ Arm(s)
                  BY <1>1, <2>1, <3>6 DEF Load, Clear, Arm
            <3>7. CASE SetDone(s) \/ Restore(s)
                  BY <1>1, <2>1, <3>7 DEF SetDone, Restore
            <3>. QED BY <1>3, <3>1, <3>2, <3>3, <3>4, <3>5, <3>6, <3>7
                     DEF Protocol
      <2>5. from[s] # 0 => pc'[q] = pc[q] /\ sent'[q] = sent[q]
            BY <2>2, <2>3
      <2>6. \A u \in Stages \ {s} : from[u] # 0 /\ Producer(u) = s =>
              input[u] = Nil /\ pc[u] \notin Running \cup {"gate"}
            BY <1>1, <2>1 DEF Wired, WiredTo
      <2>. SUFFICES ASSUME NEW u \in Stages
                    PROVE  WiredTo(u)'
            BY DEF Wired, WiredTo
      <2>7. WiredTo(u)
            BY <1>1 DEF Wired, WiredTo
      <2>8. CASE u = s
            BY <2>1, <2>3, <2>4, <2>5, <2>8 DEF WiredTo
      <2>9. CASE u # s
            <3>1. /\ pc'[u] = pc[u] /\ sent'[u] = sent[u] /\ input'[u] = input[u]
                  /\ from'[u] = from[u] /\ Producer(u)' = Producer(u)
                  BY <2>1, <2>2, <2>9
            <3>2. CASE from[u] # 0 /\ Producer(u) = s
                  BY <2>6, <2>7, <2>9, <3>1, <3>2 DEF WiredTo, Running
            <3>3. CASE from[u] # 0 /\ Producer(u) # s
                  <4>1. Producer(u) \in Stages \ {s}
                        BY <2>7, <3>3 DEF WiredTo
                  <4>. QED BY <2>2, <2>7, <3>1, <4>1 DEF WiredTo
            <3>4. CASE from[u] = 0
                  BY <2>7, <3>1, <3>4 DEF WiredTo
            <3>. QED BY <3>2, <3>3, <3>4
      <2>. QED BY <2>8, <2>9
<1>4. CASE HostCancel \/ \E t \in Timeouts : DogStep(t)
      BY <1>1, <1>4, AsideStep DEF Aside, pipes, Wired, WiredTo, Producer
<1>5. CASE UNCHANGED vars
      BY <1>1, <1>5 DEF vars, stages, pipes, Wired, WiredTo, Producer
<1>. QED BY <1>2, <1>3, <1>4, <1>5 DEF Next

-----------------------------------------------------------------------------
(* Results, and the threads that are yet to be joined.                     *)

\* The runtime's thread writes one result at a time, and goes on.
Ends(c) ==
    /\ codes' = [codes EXCEPT ![<<at, seg>>] = c] /\ seg' = seg + 1
    /\ main' = "segment" /\ UNCHANGED <<at, pc>>

Ending ==
    \/ InlineEnds \/ Abandon
    \/ Launched /\ threads = <<>>
    \/ Join /\ next = Len(threads)

LEMMA Endings ==
    ASSUME Ending
    PROVE  \E c : Ends(c) /\ (Abandon => c = 143)
<1>. USE DEF EndSegment, Ends, Goto, stages
<1>1. CASE Abandon
      BY <1>1 DEF Abandon
<1>2. CASE InlineEnds /\ ~ Abandon
      BY <1>2 DEF InlineEnds
<1>3. CASE Launched /\ threads = <<>> /\ ~ Abandon
      BY <1>3 DEF Launched
<1>4. CASE Join /\ next = Len(threads) /\ ~ Abandon
      BY <1>4 DEF Join
<1>. QED BY <1>1, <1>2, <1>3, <1>4 DEF Ending

LEMMA OtherMainSteps ==
    ASSUME MainStep, ~ Ending
    PROVE  UNCHANGED <<codes, session>> /\ seg' \in {seg, 1}
           /\ (UNCHANGED <<at, seg>> \/ StartCall)
<1>. USE DEF results, pool, script
<1>1. CASE StartCall \/ EndCall \/ StopList \/ InlinePanics
      BY <1>1 DEF StartCall, EndCall, StopList, InlinePanics, Answer
<1>2. CASE StartSegment \/ Launch \/ PollMain \/ NotFinished
      BY <1>2 DEF StartSegment, Launch, PollMain, NotFinished
<1>3. CASE Launched
      BY <1>3 DEF Launched, Ending
<1>4. CASE Join
      BY <1>4 DEF Join, Ending
<1>. QED BY <1>1, <1>2, <1>3, <1>4 DEF MainStep, Ending

LEMMA WrittenStep == IInv /\ [Next]_vars => Written'
<1> SUFFICES ASSUME IInv, [Next]_vars PROVE Written'
    OBVIOUS
<1>1. /\ Written /\ at \in Nat /\ seg \in Nat
      /\ codes \in [(1 .. NCalls) \X (1 .. MaxSegments) -> Codes \cup {Nil}]
      BY PipelineAssumption DEF IInv, TypeOK, MainTypes
<1>2. CASE Ending
      <2>1. PICK c : Ends(c)
            BY <1>2, Endings
      <2>2. ASSUME NEW k \in 1 .. NCalls, NEW j \in 1 .. MaxSegments,
                   k # at \/ j # seg
            PROVE  codes'[<<k, j>>] = codes[<<k, j>>]
            BY <1>1, <2>1, <2>2 DEF Ends
      <2>. QED BY <1>1, <2>1, <2>2 DEF Ends, Written
<1>3. CASE MainStep /\ ~ Ending
      <2>1. CASE UNCHANGED <<at, seg>>
            BY <1>1, <1>3, <2>1, OtherMainSteps DEF Written
      <2>2. CASE StartCall
            BY <1>1, <1>3, <2>2, OtherMainSteps DEF Written, StartCall
      <2>. QED BY <1>3, <2>1, <2>2, OtherMainSteps
<1>4. CASE UNCHANGED mainVars
      BY <1>1, <1>4 DEF mainVars, results, Written
<1>. QED BY <1>2, <1>3, <1>4, LocalStep, AsideStep
         DEF Next, IInv, Local, Aside, vars

LEMMA JoiningStep == IInv /\ [Next]_vars => Joining'
<1> SUFFICES ASSUME IInv, [Next]_vars PROVE Joining'
    OBVIOUS
<1>1. TypeOK /\ Joining /\ InRange /\ Fresh
      BY DEF IInv
<1>2. CASE Ending
      BY <1>2, Endings DEF Ends, Joining
<1>3. CASE StartCall \/ EndCall \/ StopList \/ InlinePanics
      BY <1>3 DEF StartCall, EndCall, StopList, InlinePanics, Answer, Goto,
         Joining
<1>4. CASE StartSegment
      <2>1. CASE main' = "launch"
            <3>1. UNCHANGED <<pc, at, seg>> /\ threads' = <<>>
                  BY <1>4, <2>1 DEF StartSegment, Goto
            <3>2. main' \in Busy /\ TypeOK' /\ InRange'
                  BY <2>1, TypeStep, InRangeStep DEF Busy
            <3>3. \A i \in 1 .. MaxStages : Here(i) \in Stages
                  <4>1. at \in 1 .. NCalls /\ seg \in 1 .. MaxSegments
                        BY <1>1, <1>4, <3>1, <3>2, Scripts
                        DEF InRange, StartSegment, script
                  <4>. QED BY <4>1 DEF Here, Stages
            <3>4. \A i \in 1 .. MaxStages : pc[Here(i)] = "none"
                  BY <1>1, <1>4, <3>3 DEF StartSegment, Fresh, Ahead, Here
            <3>. QED BY <2>1, <3>1, <3>4 DEF Joining, Here
      <2>2. CASE main' # "launch"
            BY <1>4, <2>2 DEF StartSegment, Goto, Joining
      <2>. QED BY <2>1, <2>2
<1>5. CASE Launch
      <2>1. /\ main = "launch" /\ UNCHANGED <<main, at, seg>>
            /\ next \in 1 .. MaxStages /\ Len(threads) \in Nat
            /\ threads \in Seq(1 .. MaxStages)
            /\ \A i \in 1 .. MaxStages : Here(i) \in Stages
            BY <1>1, <1>5, Shape DEF Launch, Busy, TypeOK, MainTypes
      <2>2. CASE UNCHANGED <<pc, threads>>
            BY <1>1, <2>1, <2>2 DEF Joining, Here
      <2>3. CASE threads' = Append(threads, next)
            <3>1. \A i \in 1 .. MaxStages : i # next =>
                    pc'[Here(i)] = pc[Here(i)]
                  BY <1>1, <1>5, <2>1 DEF Launch, Here, TypeOK, StageTypes
            <3>2. /\ Len(threads') = Len(threads) + 1
                  /\ threads'[Len(threads) + 1] = next
                  /\ \A n \in 1 .. Len(threads) : threads'[n] = threads[n]
                  BY <2>1, <2>3
            <3>. QED BY <1>1, <2>1, <3>1, <3>2 DEF Joining, Here
      <2>. QED BY <1>5, <2>2, <2>3 DEF Launch
<1>6. CASE Launched /\ threads # <<>>
      BY <1>1, <1>6 DEF Launched, Joining, Goto, stages, pool, Here, Live, Ended
<1>7. CASE PollMain \/ NotFinished
      BY <1>1, <1>7 DEF PollMain, NotFinished, Joining, Goto, stages, pool, Here
<1>8. CASE Join /\ next # Len(threads)
      <2>1. /\ main = "look" /\ main' = "poll" /\ next' = next + 1
            /\ UNCHANGED <<pc, at, seg, threads>>
            /\ pc[Here(threads[next])] \in Ended
            BY <1>8 DEF Join, Goto, stages
      <2>2. next \in Nat /\ Len(threads) \in Nat
            BY <1>1, PipelineAssumption DEF TypeOK, MainTypes
      <2>3. ASSUME NEW i \in 1 .. MaxStages, pc[Here(i)] \in Live
            PROVE  \E n \in next + 1 .. Len(threads) : threads[n] = i
            <3>1. PICK n \in next .. Len(threads) : threads[n] = i
                  BY <1>1, <2>1, <2>3 DEF Joining
            <3>2. n # next
                  BY <2>1, <2>3, <3>1 DEF Live
            <3>. QED BY <2>2, <3>1, <3>2
      <2>. QED BY <2>1, <2>3 DEF Joining, Here
<1>9. ASSUME NEW s \in Stages, Protocol(s) \/ Complete(s) PROVE Joining'
      <2>1. Local(s)
            BY <1>1, <1>9, LocalStep
      <2>2. \A u \in Stages : /\ pc'[u] # "none" => pc[u] # "none"
                              /\ pc'[u] \in Live => pc[u] \in Live
            BY <2>1 DEF Local, Live
      <2>3. main \in Busy => \A i \in 1 .. MaxStages : Here(i) \in Stages
            BY <1>1, Shape
      <2>4. UNCHANGED <<main, at, seg, next, threads>>
            BY <2>1 DEF Local, mainVars, pool
      <2>. QED BY <1>1, <2>2, <2>3, <2>4 DEF Joining, Here, Busy
<1>10. CASE HostCancel \/ \E t \in Timeouts : DogStep(t)
      BY <1>1, <1>10, AsideStep DEF Aside, mainVars, pool, Joining, Here
<1>11. CASE UNCHANGED vars
      BY <1>1, <1>11 DEF vars, mainVars, pool, stages, Joining, Here
<1>. QED BY <1>2, <1>3, <1>4, <1>5, <1>6, <1>7, <1>8, <1>9, <1>10, <1>11
         DEF Next, MainStep, Ending

LEMMA JoinedStep == IInv /\ [Next]_vars => Joined'
<1> SUFFICES ASSUME IInv, [Next]_vars,
                    NEW k \in 1 .. NCalls, NEW j \in 1 .. MaxSegments,
                    Completed(k, j)', NEW s \in StageIds(k, j)
             PROVE  pc'[s] \in Ended \cup {"none"}
    BY DEF Joined, StageIds
<1>1. /\ TypeOK /\ InRange /\ Fresh /\ Joining /\ Written
      /\ Joined /\ at \in Nat /\ seg \in Nat
      BY PipelineAssumption DEF IInv, TypeOK, MainTypes
<1>2. s \in Stages /\ s[1] = k /\ s[2] = j
      BY DEF StageIds
<1>3. CASE Ending
      <2>1. PICK c : Ends(c) /\ (Abandon => c = 143)
            BY <1>3, Endings
      <2>2. CASE k # at \/ j # seg
            <3>1. codes'[<<k, j>>] = codes[<<k, j>>]
                  BY <1>1, <2>1, <2>2 DEF Ends, TypeOK, MainTypes
            <3>. QED BY <1>1, <2>1, <3>1 DEF Ends, Completed, Joined
      <2>3. CASE k = at /\ j = seg
            <3>1. codes'[<<k, j>>] = c /\ UNCHANGED pc
                  BY <1>1, <2>1, <2>3 DEF Ends, TypeOK, MainTypes
            <3>2. ~ Abandon
                  BY <2>1, <3>1 DEF Completed
            <3>3. s = Here(s[3]) /\ s[3] \in 1 .. MaxStages
                  BY <1>2, <2>3 DEF Here, Stages
            <3>4. CASE InlineEnds
                  <4>1. CASE s[3] = 1
                        BY <3>1, <3>3, <3>4, <4>1 DEF InlineEnds, Ended
                  <4>2. CASE s[3] # 1
                        <5>1. s[3] > 1
                              BY <3>3, <4>2, PipelineAssumption
                        <5>2. Ahead(s)
                              BY <1>2, <2>3, <3>4, <5>1 DEF Ahead, InlineEnds
                        <5>. QED BY <1>1, <1>2, <3>1, <5>2 DEF Fresh
                  <4>. QED BY <4>1, <4>2
            <3>5. CASE Launched /\ threads = <<>>
                  <4>1. main = "launch" /\ Len(threads) = 0
                        BY <3>5 DEF Launched
                  <4>. QED BY <1>1, <3>1, <3>3, <4>1 DEF Joining
            <3>6. CASE Join /\ next = Len(threads)
                  <4>1. main = "look" /\ pc[Here(threads[next])] \in Ended
                        BY <3>6 DEF Join
                  <4>2. pc[s] \notin Live
                        BY <1>1, <3>3, <3>6, <4>1, PipelineAssumption
                        DEF Joining, Live, TypeOK, MainTypes
                  <4>. QED BY <1>1, <1>2, <3>1, <4>2
                           DEF Live, TypeOK, StageTypes
            <3>. QED BY <1>3, <3>2, <3>4, <3>5, <3>6 DEF Ending
      <2>. QED BY <2>2, <2>3
<1>4. CASE MainStep /\ ~ Ending
      <2>1. codes[<<k, j>>] \notin {Nil, 143}
            BY <1>4, OtherMainSteps DEF Completed
      <2>2. pc[s] \in Ended \cup {"none"} /\ ~ (k = at /\ j = seg)
            BY <1>1, <2>1 DEF Joined, Completed, Written
      <2>3. pc'[s] = pc[s]
            BY <1>1, <1>2, <1>4, <2>2, Launches
            DEF Started, TypeOK, StageTypes
      <2>. QED BY <2>2, <2>3
<1>5. ASSUME NEW u \in Stages, Protocol(u) \/ Complete(u)
      PROVE  pc'[s] \in Ended \cup {"none"}
      <2>1. Local(u) /\ UNCHANGED codes
            BY <1>1, <1>5, LocalStep DEF Local, mainVars, results
      <2>2. pc[s] \in Ended \cup {"none"}
            BY <1>1, <2>1 DEF Joined, Completed
      <2>. QED BY <1>2, <2>1, <2>2 DEF Local, Live
<1>6. CASE HostCancel \/ \E t \in Timeouts : DogStep(t)
      BY <1>1, <1>6, AsideStep
      DEF Aside, mainVars, results, Joined, Completed
<1>7. CASE UNCHANGED vars
      BY <1>1, <1>7 DEF vars, mainVars, results, stages, Joined, Completed
<1>. QED BY <1>3, <1>4, <1>5, <1>6, <1>7 DEF Next

-----------------------------------------------------------------------------
(* The theorems.                                                           *)

LEMMA InvHolds == Spec => []IInv
<1>1. Init => IInv
      BY InitInv
<1>2. IInv /\ [Next]_vars => IInv'
      BY TypeStep, InRangeStep, FramedStep, FreshStep, WiredStep, WrittenStep,
         JoiningStep, JoinedStep DEF IInv
<1>. QED BY <1>1, <1>2, PTL DEF Spec

\* Positions, codes, chunks and the state of every timeout keep their types,
\* whatever the session: no thread index or timeout level runs out of range.
THEOREM TypeCorrect == Spec => []TypeOK
<1>1. IInv => TypeOK
      BY DEF IInv
<1>. QED BY <1>1, InvHolds, PTL

\* execute_pipeline is sequential: a stage's command starts only after the one
\* it reads from has ended, and on all of its output.
THEOREM StagesInOrder == Spec => []StageOrder
<1>1. IInv => StageOrder
      BY DEF IInv, Wired, WiredTo, StageOrder
<1>. QED BY <1>1, InvHolds, PTL

\* execute_pipeline joins: a pipeline that was not cancelled leaves no thread
\* behind, whatever its stages do, panics included.
THEOREM ThreadsJoined == Spec => []Joined
<1>1. IInv => Joined
      BY DEF IInv
<1>. QED BY <1>1, InvHolds, PTL

-----------------------------------------------------------------------------
(* The exit code.                                                          *)

\* A pipeline without an empty stage: a stage's number is its thread's.
Whole(k, j) ==
    \A i \in 1 .. Len(session[k][j]) : session[k][j][i].body # "empty"

\* f is what the first n stages at hand come to with pipefail.
Comes(n, f) ==
    \/ f = 0 /\ \A i \in 1 .. n : out[Here(i)] = 0
    \/ f # 0 /\ \E i \in 1 .. n :
         out[Here(i)] = f /\ \A h \in i + 1 .. n : out[Here(h)] = 0

\* While threads are joined, the codes of those joined are final and combined.
Combining ==
    /\ main = "inline" => Len(session[at][seg]) = 1
    /\ main \in {"launch", "poll", "look"} /\ Whole(at, seg) =>
         /\ \A n \in 1 .. Len(threads) : threads[n] = n
         /\ main = "launch" => Len(threads) = next - 1 /\ final = 0 /\ ~ panicked
         /\ main # "launch" =>
              /\ Len(threads) = Len(session[at][seg])
              /\ \A i \in 1 .. next - 1 : pc[Here(i)] \in Ended
              /\ panicked <=> \E i \in 1 .. next - 1 : pc[Here(i)] = "dead"
              /\ pipefail /\ ~ panicked => Comes(next - 1, final)


\* A step of a stage leaves the exit codes of the others alone, and of those
\* that are over.
LEMMA OutKept ==
    ASSUME TypeOK, NEW s \in Stages, Protocol(s) \/ Complete(s), NEW u \in Stages,
           pc[u] \notin Live
    PROVE  u # s /\ pc'[u] = pc[u] /\ out'[u] = out[u]
<1>1. Local(s) /\ u # s /\ pc'[u] = pc[u]
      BY LocalStep DEF Local, TypeOK, StageTypes
<1>. USE DEF TypeOK, StageTypes
<1>2. CASE GiveUp(s) \/ Emit(s)
      BY <1>1, <1>2 DEF GiveUp, Emit, Finish
<1>3. CASE Poll(s) \/ Receive(s) \/ NoChunk(s) \/ Gate(s) \/ Enter(s)
      BY <1>1, <1>3 DEF Poll, Receive, NoChunk, Gate, Enter
<1>4. CASE Complete(s) \/ Observe(s) \/ Panic(s)
      BY <1>1, <1>4 DEF Complete, Observe, Panic
<1>5. CASE Load(s) \/ Clear(s) \/ Arm(s) \/ SetDone(s) \/ Restore(s)
      BY <1>1, <1>5 DEF Load, Clear, Arm, SetDone, Restore
<1>. QED BY <1>1, <1>2, <1>3, <1>4, <1>5 DEF Protocol

\* What one more thread adds, with pipefail: Combine keeps the last failure.
LEMMA Combined ==
    ASSUME NEW n \in Nat \ {0}, Comes(n - 1, final), pipefail
    PROVE  Comes(n, Combine(n, out[Here(n)]))
<1>1. CASE out[Here(n)] # 0
      <2>1. \A h \in n + 1 .. n : FALSE
            OBVIOUS
      <2>. QED BY <1>1, <2>1 DEF Comes, Combine
<1>2. CASE out[Here(n)] = 0
      <2>1. \A i \in 1 .. n : i \in 1 .. n - 1 \/ i = n
            OBVIOUS
      <2>2. \A i \in 1 .. n - 1 : i \in 1 .. n /\
              \A h \in i + 1 .. n : h \in i + 1 .. n - 1 \/ h = n
            OBVIOUS
      <2>. QED BY <1>2, <2>1, <2>2 DEF Comes, Combine
<1>. QED BY <1>1, <1>2

\* Steps that leave the launching and joining alone.
Idle ==
    /\ UNCHANGED <<at, seg, session, pipefail, threads, next, final, panicked>>
    /\ main' = main \/ (main \in {"poll", "look"} /\ main' \in {"poll", "look"})
    /\ main \in {"poll", "look"} => \A i \in 1 .. next - 1 : pc[Here(i)] \in Ended =>
         pc'[Here(i)] = pc[Here(i)] /\ out'[Here(i)] = out[Here(i)]

LEMMA CombiningKept ==
    ASSUME Combining, Idle, next \in Nat,
           main \in {"rest", "segment", "inline", "launch", "poll", "look"}
    PROVE  Combining'
<1>1. /\ Whole(at, seg)' <=> Whole(at, seg)
      /\ \A i \in 1 .. next - 1 : Here(i)' = Here(i)
      BY DEF Idle, Whole, Here
<1>2. CASE main \in {"inline", "launch", "rest", "segment"} \/ ~ Whole(at, seg)
      BY <1>1, <1>2 DEF Idle, Combining
<1>3. CASE main \in {"poll", "look"} /\ Whole(at, seg)
      <2>1. /\ \A i \in 1 .. next - 1 : pc[Here(i)] \in Ended
            /\ panicked <=> \E i \in 1 .. next - 1 : pc[Here(i)] = "dead"
            /\ pipefail /\ ~ panicked => Comes(next - 1, final)
            /\ Len(threads) = Len(session[at][seg])
            /\ \A n \in 1 .. Len(threads) : threads[n] = n
            BY <1>3 DEF Combining
      <2>2. \A i \in 1 .. next - 1 :
              pc'[Here(i)] = pc[Here(i)] /\ out'[Here(i)] = out[Here(i)]
            BY <1>3, <2>1 DEF Idle
      <2>3. Comes(next - 1, final) => Comes(next - 1, final)'
            <3>1. UNCHANGED <<next, final, at, seg>>
                  BY DEF Idle
            <3>2. \A i \in 1 .. next - 1 : \A h \in i + 1 .. next - 1 :
                    h \in 1 .. next - 1
                  OBVIOUS
            <3>. QED BY <1>1, <2>2, <3>1, <3>2 DEF Comes
      <2>. QED BY <1>1, <1>3, <2>1, <2>2, <2>3 DEF Idle, Combining
<1>. QED BY <1>2, <1>3

LEMMA CombiningStep ==
    ASSUME IInv, Combining, [Next]_vars
    PROVE  Combining'
<1>1. TypeOK /\ InRange
      BY DEF IInv
<1>0. /\ next \in Nat
      /\ main \in {"rest", "segment", "inline", "launch", "poll", "look"}
      BY <1>1, PipelineAssumption DEF TypeOK, MainTypes
<1>2. CASE Ending
      BY <1>2, Endings DEF Ends, Combining
<1>3. CASE StartCall \/ EndCall \/ StopList \/ InlinePanics
      BY <1>3 DEF StartCall, EndCall, StopList, InlinePanics, Answer, Goto,
         Combining
<1>4. CASE StartSegment
      <2>1. /\ UNCHANGED <<session, at, seg>> /\ main' \in {"inline", "launch"}
            /\ main' = "inline" => ~ Len(session[at][seg]) > 1
            /\ next' = 1 /\ threads' = <<>> /\ final' = 0 /\ ~ panicked'
            BY <1>4 DEF StartSegment, Goto, script
      <2>2. at \in 1 .. Len(session) /\ seg \in 1 .. Len(session[at])
            <3>1. at \in 1 .. Len(session) /\ seg <= Len(session[at]) /\ seg \in Nat \ {0}
                  BY <1>1, <1>4, PipelineAssumption
                  DEF StartSegment, InRange, TypeOK, MainTypes
            <3>2. Len(session[at]) \in Nat
                  BY <1>1, <3>1, Scripts
            <3>. QED BY <3>1, <3>2
      <2>3. Len(session[at][seg]) \in Nat \ {0}
            <3>1. Len(session[at][seg]) \in 1 .. MaxStages
                  BY <1>1, <2>2, Scripts
            <3>. QED BY <3>1, PipelineAssumption
      <2>4. main' = "inline" => Len(session[at][seg]) = 1
            <3>1. \A n \in Nat \ {0} : ~ n > 1 => n = 1
                  OBVIOUS
            <3>. QED BY <2>1, <2>3, <3>1
      <2>5. /\ Len(threads') = 0 /\ Len(threads') = next' - 1
            /\ \A n \in 1 .. Len(threads') : FALSE
            BY <2>1
      <2>. QED BY <2>1, <2>4, <2>5 DEF Combining
<1>5. CASE Launch
      <2>1. /\ main = "launch" /\ UNCHANGED <<main, at, seg, session, final, panicked>>
            /\ next' = next + 1 /\ next \in Nat
            /\ next \in 1 .. Len(session[at][seg]) /\ threads \in Seq(1 .. MaxStages)
            BY <1>1, <1>5, Shape, PipelineAssumption
            DEF Launch, Busy, TypeOK, MainTypes, script
      <2>. SUFFICES ASSUME Whole(at, seg)
                    PROVE  /\ Len(threads') = next' - 1 /\ final = 0 /\ ~ panicked
                           /\ \A n \in 1 .. Len(threads') : threads'[n] = n
           BY <2>1 DEF Combining, Whole
      <2>2. /\ Len(threads) = next - 1 /\ final = 0 /\ ~ panicked
            /\ \A n \in 1 .. Len(threads) : threads[n] = n
            BY <2>1 DEF Combining
      <2>3. threads' = Append(threads, next)
            BY <1>5, <2>1 DEF Launch, Whole, Cmd, Pipe, Here
      <2>4. /\ Len(threads') = Len(threads) + 1
            /\ threads'[Len(threads) + 1] = next
            /\ \A n \in 1 .. Len(threads) : threads'[n] = threads[n]
            BY <2>1, <2>3
      <2>. QED BY <2>1, <2>2, <2>4
<1>6. CASE Launched /\ threads # <<>>
      <2>1. /\ main = "launch" /\ main' = "poll" /\ next' = 1
            /\ UNCHANGED <<at, seg, session, threads, final, panicked>>
            /\ next > Len(session[at][seg]) /\ next <= Len(session[at][seg]) + 1
            BY <1>1, <1>6 DEF Launched, Goto, script, pool, InRange
      <2>2. next \in Nat /\ Len(session[at][seg]) \in Nat /\ Len(threads) \in Nat
            <3>1. next \in Nat /\ Len(threads) \in Nat
                  BY <1>1, PipelineAssumption DEF TypeOK, MainTypes
            <3>2. Len(session[at][seg]) \in 1 .. MaxStages
                  BY <1>1, <2>1, Shape DEF Busy
            <3>. QED BY <3>1, <3>2, PipelineAssumption
      <2>3. Len(threads) = next - 1 => Len(threads) = Len(session[at][seg])
            BY <2>1, <2>2
      <2>4. \A i \in 1 .. next' - 1 : FALSE
            BY <2>1
      <2>. QED BY <2>1, <2>3, <2>4 DEF Combining, Whole, Comes
<1>7. CASE PollMain \/ NotFinished
      <2>1. Idle
            BY <1>7 DEF PollMain, NotFinished, Goto, script, pool, stages, Idle
      <2>. QED BY <1>0, <2>1, CombiningKept
<1>8. CASE Join /\ next # Len(threads)
      <2>. DEFINE f == IF pc[Here(next)] = "dead" THEN final
                       ELSE Combine(next, out[Here(next)])
      <2>1. /\ main = "look" /\ main' = "poll" /\ next' = next + 1
            /\ UNCHANGED <<at, seg, session, pipefail, threads, pc, out>>
            BY <1>8 DEF Join, Goto, script, stages
      <2>. SUFFICES ASSUME Whole(at, seg) PROVE Combining'
           BY <2>1 DEF Combining, Whole
      <2>2. /\ next \in Nat \ {0} /\ next <= Len(threads) /\ Len(threads) \in Nat
            /\ \A n \in 1 .. Len(threads) : threads[n] = n
            /\ Len(threads) = Len(session[at][seg])
            /\ \A i \in 1 .. next - 1 : pc[Here(i)] \in Ended
            /\ panicked <=> \E i \in 1 .. next - 1 : pc[Here(i)] = "dead"
            /\ pipefail /\ ~ panicked => Comes(next - 1, final)
            <3>1. next \in Nat \ {0} /\ next <= Len(threads) /\ Len(threads) \in Nat
                  <4>1. next \in 1 .. MaxStages + 1 /\ Len(threads) \in Nat
                        BY <1>1 DEF TypeOK, MainTypes
                  <4>2. next <= Len(threads)
                        BY <1>1, <2>1 DEF InRange
                  <4>. QED BY <4>1, <4>2, PipelineAssumption
            <3>. QED BY <2>1, <3>1 DEF Combining
      <2>3. /\ pc[Here(next)] \in Ended /\ final' = f
            /\ panicked' = (panicked \/ pc[Here(next)] = "dead")
            BY <1>8, <2>2 DEF Join
      <2>4. \A i \in 1 .. next : i \in 1 .. next - 1 \/ i = next
            BY <2>2
      <2>5. /\ \A i \in 1 .. next : pc[Here(i)] \in Ended
            /\ panicked' <=> \E i \in 1 .. next : pc[Here(i)] = "dead"
            <3>1. next \in 1 .. next /\ \A i \in 1 .. next - 1 : i \in 1 .. next
                  BY <2>2
            <3>. QED BY <2>2, <2>3, <2>4, <3>1
      <2>6. pipefail /\ ~ panicked' => Comes(next, final')
            BY <2>2, <2>3, Combined
      <2>7. next' - 1 = next
            BY <2>1, <2>2
      <2>. QED BY <2>1, <2>2, <2>5, <2>6, <2>7 DEF Combining, Comes, Here
<1>9. ASSUME NEW s \in Stages, Protocol(s) \/ Complete(s) PROVE Combining'
      <2>1. /\ UNCHANGED <<main, at, seg, session, pipefail, threads, next, final, panicked>>
            BY <1>1, <1>9, LocalStep DEF Local, script, mainVars, pool
      <2>2. main \in Busy => \A i \in 1 .. MaxStages : Here(i) \in Stages
            BY <1>1, Shape
      <2>3. main \in {"poll", "look"} => \A i \in 1 .. next - 1 : i \in 1 .. MaxStages
            BY <1>1, Shape, PipelineAssumption DEF InRange, Busy, TypeOK, MainTypes
      <2>4. main \in {"poll", "look"} => \A i \in 1 .. next - 1 :
              pc[Here(i)] \in Ended =>
                pc'[Here(i)] = pc[Here(i)] /\ out'[Here(i)] = out[Here(i)]
            BY <1>1, <1>9, <2>2, <2>3, OutKept DEF Live, Busy
      <2>. QED BY <1>0, <2>1, <2>4, CombiningKept DEF Idle
<1>10. CASE HostCancel \/ \E t \in Timeouts : DogStep(t)
      BY <1>0, <1>10, AsideStep, CombiningKept DEF Aside, script, mainVars, pool, Idle
<1>11. CASE UNCHANGED vars
      BY <1>0, <1>11, CombiningKept DEF vars, script, mainVars, pool, stages, Idle
<1>. QED BY <1>2, <1>3, <1>4, <1>5, <1>6, <1>7, <1>8, <1>9, <1>10, <1>11
         DEF Next, MainStep, Ending

\* Results belong to segments of the session, and are those a shell gives.
Coded(k, j) ==
    /\ codes[<<k, j>>] # Nil => k \in 1 .. Len(session) /\ j \in 1 .. Len(session[k])
    /\ Completed(k, j) /\ Whole(k, j) => ShellCode(k, j, codes[<<k, j>>])

Coding == \A k \in 1 .. NCalls, j \in 1 .. MaxSegments : Coded(k, j)

\* A result stays right while the stages it is made of stay as they are.
LEMMA CodeKept ==
    ASSUME TypeOK, NEW k \in 1 .. NCalls, NEW j \in 1 .. MaxSegments, Coded(k, j),
           codes'[<<k, j>>] = codes[<<k, j>>], UNCHANGED script,
           Completed(k, j) =>
             \A s \in StageIds(k, j) : pc'[s] = pc[s] /\ out'[s] = out[s]
    PROVE  Coded(k, j)'
<1>1. /\ session' = session /\ pipefail' = pipefail
      /\ Completed(k, j)' <=> Completed(k, j)
      /\ Whole(k, j)' <=> Whole(k, j)
      BY DEF script, Completed, Whole
<1>2. SUFFICES ASSUME Completed(k, j), Whole(k, j)
               PROVE  ShellCode(k, j, codes[<<k, j>>])'
      BY <1>1 DEF Coded
<1>3. k \in 1 .. Len(session) /\ j \in 1 .. Len(session[k])
      BY <1>2 DEF Coded, Completed
<1>4. \A i \in 1 .. Len(session[k][j]) : <<k, j, i>> \in StageIds(k, j)
      BY <1>3, Scripts DEF StageIds, Stages
<1>5. \A i \in 1 .. Len(session[k][j]) :
        pc'[<<k, j, i>>] = pc[<<k, j, i>>] /\ out'[<<k, j, i>>] = out[<<k, j, i>>]
      BY <1>2, <1>4
<1>6. ShellCode(k, j, codes[<<k, j>>])
      BY <1>2 DEF Coded
<1>7. Len(session[k][j]) \in Nat \ {0}
      <2>1. Len(session[k][j]) \in 1 .. MaxStages
            BY <1>3, Scripts
      <2>. QED BY <2>1, PipelineAssumption
<1>8. \A n \in Nat \ {0} : n \in 1 .. n /\
        \A i \in 1 .. n : \A h \in i + 1 .. n : h \in 1 .. n
      OBVIOUS
<1>. DEFINE n == Len(session[k][j])
            c == codes[<<k, j>>]
            U(i) == <<k, j, i>>
<1>9. n \in 1 .. n /\ \A i \in 1 .. n : \A h \in i + 1 .. n : h \in 1 .. n
      BY <1>7, <1>8
<1>10. \A i \in 1 .. n : pc'[U(i)] = pc[U(i)] /\ out'[U(i)] = out[U(i)]
      BY <1>5
<1>11. CASE \E i \in 1 .. n : pc[U(i)] = "dead"
      <2>1. c = 1
            BY <1>6, <1>11 DEF ShellCode
      <2>2. \E i \in 1 .. n : pc'[U(i)] = "dead"
            BY <1>10, <1>11
      <2>. QED BY <1>1, <2>1, <2>2 DEF ShellCode
<1>12. CASE ~ \E i \in 1 .. n : pc[U(i)] = "dead"
      <2>1. ~ \E i \in 1 .. n : pc'[U(i)] = "dead"
            BY <1>10, <1>12
      <2>2. CASE ~ pipefail
            <3>1. c = out'[U(n)]
                  BY <1>6, <1>9, <1>10, <1>12, <2>2 DEF ShellCode
            <3>. QED BY <1>1, <2>1, <2>2, <3>1 DEF ShellCode
      <2>3. CASE pipefail
            <3>1. \/ c = 0 /\ \A i \in 1 .. n : out[U(i)] = 0
                  \/ c # 0 /\ \E i \in 1 .. n :
                       out[U(i)] = c /\ \A h \in i + 1 .. n : out[U(h)] = 0
                  BY <1>6, <1>12, <2>3 DEF ShellCode
            <3>2. \/ c = 0 /\ \A i \in 1 .. n : out'[U(i)] = 0
                  \/ c # 0 /\ \E i \in 1 .. n :
                       out'[U(i)] = c /\ \A h \in i + 1 .. n : out'[U(h)] = 0
                  <4>1. CASE c = 0
                        BY <1>10, <3>1, <4>1
                  <4>2. CASE c # 0
                        <5>1. PICK i \in 1 .. n :
                                out[U(i)] = c /\ \A h \in i + 1 .. n : out[U(h)] = 0
                              BY <3>1, <4>2
                        <5>2. \A h \in i + 1 .. n : out'[U(h)] = 0
                              BY <1>9, <1>10, <5>1
                        <5>. QED BY <1>10, <4>2, <5>1, <5>2
                  <4>. QED BY <4>1, <4>2
            <3>. QED BY <1>1, <2>1, <2>3, <3>2 DEF ShellCode
      <2>. QED BY <2>2, <2>3
<1>. QED BY <1>11, <1>12

\* The result a pipeline is given when it ends.
LEMMA CodeWritten ==
    ASSUME IInv, Combining, Ending, ~ Abandon, Whole(at, seg), NEW c, Ends(c)
    PROVE  ShellCode(at, seg, c)
<1>. DEFINE n == Len(session[at][seg])
<1>1. TypeOK /\ InRange
      BY DEF IInv
<1>2. main \in Busy
      BY DEF Ending, InlineEnds, Abandon, Launched, Join, Busy
<1>3. at \in 1 .. NCalls /\ seg \in 1 .. MaxSegments /\ n \in Nat \ {0}
      <2>1. at \in 1 .. NCalls /\ seg \in 1 .. MaxSegments /\ n \in 1 .. MaxStages
            BY <1>1, <1>2, Shape
      <2>. QED BY <2>1, PipelineAssumption
<1>4. ASSUME NEW d, EndSegment(d) PROVE c = d
      <2>1. codes'[<<at, seg>>] = c /\ codes'[<<at, seg>>] = d
            BY <1>1, <1>3, <1>4 DEF Ends, EndSegment, TypeOK, MainTypes
      <2>. QED BY <2>1
<1>5. CASE InlineEnds
      <2>1. c = out[Here(1)] /\ pc[Here(1)] = "done" /\ n = 1
            BY <1>4, <1>5 DEF InlineEnds, Combining
      <2>2. \A i \in 1 .. 1 : i = 1 /\ \A h \in i + 1 .. 1 : FALSE
            OBVIOUS
      <2>. QED BY <2>1, <2>2 DEF ShellCode, Here
<1>6. CASE Launched /\ threads = <<>>
      <2>1. main = "launch" /\ next > n /\ Len(threads) = 0 /\ next \in Nat
            BY <1>1, <1>6, PipelineAssumption DEF Launched, TypeOK, MainTypes
      <2>2. Len(threads) = next - 1
            BY <2>1 DEF Combining
      <2>. QED BY <1>3, <2>1, <2>2
<1>7. CASE Join /\ next = Len(threads)
      <2>. DEFINE u == Here(n)
                  dead == panicked \/ pc[u] = "dead"
                  f == IF pc[u] = "dead" THEN final ELSE Combine(n, out[u])
      <2>1. /\ main = "look" /\ Len(threads) = n /\ next = n /\ threads[n] = n
            /\ panicked <=> \E i \in 1 .. n - 1 : pc[Here(i)] = "dead"
            /\ pipefail /\ ~ panicked => Comes(n - 1, final)
            <3>1. main = "look" /\ next = Len(threads)
                  BY <1>7 DEF Join
            <3>2. Len(threads) = n /\ \A i \in 1 .. Len(threads) : threads[i] = i
                  BY <3>1 DEF Combining
            <3>3. n \in 1 .. Len(threads)
                  BY <1>3, <3>2
            <3>. QED BY <3>1, <3>2, <3>3 DEF Combining
      <2>2. c = IF dead THEN 1 ELSE f
            BY <1>4, <1>7, <2>1 DEF Join
      <2>3. \A i \in 1 .. n : i \in 1 .. n - 1 \/ i = n
            BY <1>3
      <2>4. n \in 1 .. n /\ \A i \in 1 .. n - 1 : i \in 1 .. n
            BY <1>3
      <2>5. dead <=> \E i \in 1 .. n : pc[Here(i)] = "dead"
            BY <2>1, <2>3, <2>4
      <2>6. CASE dead
            BY <2>2, <2>5, <2>6 DEF ShellCode, Here
      <2>7. CASE ~ dead
            <3>1. c = Combine(n, out[u]) /\ ~ \E i \in 1 .. n : pc[Here(i)] = "dead"
                  BY <2>2, <2>5, <2>7
            <3>2. ~ pipefail => c = out[u]
                  BY <3>1 DEF Combine
            <3>3. pipefail => Comes(n, c)
                  BY <1>3, <2>1, <2>7, <3>1, Combined
            <3>. QED BY <3>1, <3>2, <3>3 DEF ShellCode, Comes, Here
      <2>. QED BY <2>6, <2>7
<1>. QED BY <1>5, <1>6, <1>7 DEF Ending

LEMMA CodingStep ==
    ASSUME IInv, Combining, Coding, [Next]_vars
    PROVE  Coding'
<1>. SUFFICES ASSUME NEW k \in 1 .. NCalls, NEW j \in 1 .. MaxSegments
              PROVE  Coded(k, j)'
     BY DEF Coding
<1>1. TypeOK /\ InRange /\ Written /\ Joined /\ Coded(k, j) /\ at \in Nat /\ seg \in Nat
      BY PipelineAssumption DEF IInv, Coding, TypeOK, MainTypes
<1>2. \A s \in StageIds(k, j) : s \in Stages /\ s[1] = k /\ s[2] = j
      BY DEF StageIds
<1>3. CASE Ending
      <2>1. PICK c : Ends(c) /\ (Abandon => c = 143)
            BY <1>3, Endings
      <2>2. main \in Busy /\ MainStep
            BY <1>3 DEF Ending, InlineEnds, Abandon, Launched, Join, Busy, MainStep
      <2>3. UNCHANGED <<script, out, pc>>
            BY <2>1, <2>2, MainStepOnly DEF MainOnly, Ends
      <2>4. CASE k # at \/ j # seg
            <3>1. codes'[<<k, j>>] = codes[<<k, j>>]
                  BY <1>1, <2>1, <2>4 DEF Ends, TypeOK, MainTypes
            <3>. QED BY <1>1, <2>3, <3>1, CodeKept
      <2>5. CASE k = at /\ j = seg
            <3>1. codes'[<<k, j>>] = c /\ at' = at /\ session' = session
                  BY <1>1, <2>1, <2>3, <2>5 DEF Ends, TypeOK, MainTypes, script
            <3>2. k \in 1 .. Len(session) /\ j \in 1 .. Len(session[k])
                  BY <1>1, <2>2, <2>5, Shape
            <3>3. Completed(k, j)' /\ Whole(k, j) => ShellCode(at, seg, c)
                  BY <1>3, <2>1, <2>5, <3>1, CodeWritten DEF Completed
            <3>4. Completed(k, j)' /\ Whole(k, j) => ShellCode(k, j, c)'
                  BY <2>3, <2>5, <3>3 DEF ShellCode, script
            <3>. QED BY <3>1, <3>2, <3>4 DEF Coded, Whole
      <2>. QED BY <2>4, <2>5
<1>4. CASE MainStep /\ ~ Ending
      <2>1. UNCHANGED <<script, out, codes>>
            BY <1>4, OtherMainSteps, MainStepOnly DEF MainOnly
      <2>2. Completed(k, j) => \A s \in StageIds(k, j) : pc'[s] = pc[s]
            <3>. SUFFICES ASSUME Completed(k, j), NEW s \in StageIds(k, j)
                          PROVE  pc'[s] = pc[s]
                 OBVIOUS
            <3>1. ~ (k = at /\ j = seg)
                  BY <1>1 DEF Completed, Written
            <3>. QED BY <1>1, <1>2, <1>4, <3>1, Launches
                     DEF Started, TypeOK, StageTypes
      <2>. QED BY <1>1, <2>1, <2>2, CodeKept
<1>5. ASSUME NEW u \in Stages, Protocol(u) \/ Complete(u) PROVE Coded(k, j)'
      <2>1. UNCHANGED <<script, codes>>
            BY <1>1, <1>5, LocalStep DEF Local, mainVars, results
      <2>2. Completed(k, j) => \A s \in StageIds(k, j) : pc[s] \notin Live
            BY <1>1 DEF Joined, Live, Ended
      <2>. QED BY <1>1, <1>2, <1>5, <2>1, <2>2, OutKept, CodeKept
<1>6. CASE HostCancel \/ \E t \in Timeouts : DogStep(t)
      BY <1>1, <1>6, AsideStep, CodeKept DEF Aside, mainVars, results
<1>7. CASE UNCHANGED vars
      BY <1>1, <1>7, CodeKept DEF vars, mainVars, results, stages
<1>. QED BY <1>3, <1>4, <1>5, <1>6, <1>7 DEF Next

\* execute_pipeline gives a pipeline the exit code a shell gives it, with and
\* without pipefail, whatever the order in which its stages end; a panic is 1.
THEOREM ExitCodeOfPipeline == Spec => []PipelineCode
<1>. DEFINE K == IInv /\ Combining /\ Coding
<1>1. Init => Combining /\ Coding
      BY DEF Init, Combining, Coding, Coded, Completed
<1>2. K /\ [Next]_vars => Combining' /\ Coding'
      BY CombiningStep, CodingStep
<1>3. Coding => PipelineCode
      BY DEF Coding, Coded, PipelineCode, Whole
<1>. QED BY <1>1, <1>2, <1>3, InvHolds, PTL DEF Spec

-----------------------------------------------------------------------------
(* The flag, in a session without pipes.                                   *)

\* A stage on its way to its body.
Inward == {"enter", "load", "clear", "arm", "run"}

\* One command at a time: whatever has a thread that is not over is the lone
\* command of the segment at hand, on the runtime's own thread.
Lone(s) ==
    /\ pc[s] \in Running \cup Ended \cup {"none"}
    /\ pc[s] \in Running => main = "inline" /\ s = Here(1)
    /\ pc[s] = "done" => depth[s] = 0
    /\ pc[s] = "restore" => done[<<s, depth[s]>>]
    /\ pc[s] \in Inward \cup {"none"} => out[s] = 0

Alone ==
    /\ main \in {"rest", "segment", "inline"}
    /\ \A s \in Stages : Lone(s)

\* The flag was set by the host, or by one of the d outer timeouts of s.
Fired(s, d)  == \E e \in 1 .. d : dog[<<s, e>>] = "fired"
Caused(s, d) == asked \/ Fired(s, d)

\* Whoever may still set the flag is a timeout around the command at hand ...
Armed(s) ==
    \A e \in 1 .. MaxNest :
        dog[<<s, e>>] \in {"watch", "fire"} /\ ~ done[<<s, e>>] =>
            pc[s] \in Running /\ e <= depth[s]

\* ... who has set it is one that encloses it, also for what was saved ...
Reasons(s) ==
    /\ cancel => Caused(s, depth[s])
    /\ \A e \in 1 .. depth[s] : prev[<<s, e>>] => Caused(s, e - 1)
    /\ pc[s] \in {"clear", "arm"} /\ prev[<<s, depth[s] + 1>>] => Caused(s, depth[s])

\* ... and who was cut short, was cut short by one of those.
Blamed(s) == out[s] \in {124, 143} => asks > 0 \/ Fired(s, MaxNest)

Honest ==
    /\ \A s \in Stages : Armed(s) /\ Blamed(s)
    /\ main # "inline" /\ cancel => asked
    /\ main = "inline" => Reasons(Here(1))

Flags == Plain => Alone /\ (asked => asks > 0) /\ (Spoilt \/ Honest)

\* What is spoilt stays spoilt.
LEMMA SpoiltStays ==
    ASSUME IInv, Spoilt, [Next]_vars
    PROVE  Spoilt'
<1>1. TypeOK
      BY DEF IInv
<1>2. CASE MainStep
      <2>1. UNCHANGED depth
            BY <1>2, MainStepOnly DEF MainOnly
      <2>2. UNCHANGED late
            BY <1>2 DEF MainStep, StartCall, EndCall, StopList, StartSegment,
               InlineEnds, InlinePanics, Launch, Launched, Abandon, PollMain,
               NotFinished, Join, Answer, ghosts
      <2>3. \A s \in Stages : pc[s] = "dead" => pc'[s] = "dead"
            BY <1>1, <1>2, Launches DEF Started, TypeOK, StageTypes
      <2>. QED BY <2>1, <2>2, <2>3 DEF Spoilt
<1>3. ASSUME NEW u \in Stages, Protocol(u) \/ Complete(u) PROVE Spoilt'
      <2>1. Local(u)
            BY <1>1, <1>3, LocalStep
      <2>2. UNCHANGED late
            BY <1>3 DEF Protocol, Complete, GiveUp, Poll, Receive, NoChunk, Gate,
               Enter, Observe, Panic, Emit, Load, Clear, Arm, SetDone, Restore, ghosts
      <2>3. \A s \in Stages : pc[s] = "dead" => pc'[s] = "dead" /\ depth'[s] = depth[s]
            BY <1>1, <2>1 DEF Local, Live, Ended, TypeOK, StageTypes
      <2>. QED BY <2>2, <2>3 DEF Spoilt
<1>4. CASE HostCancel \/ \E t \in Timeouts : DogStep(t)
      <2>1. UNCHANGED <<pc, depth>>
            BY <1>4, AsideStep DEF Aside
      <2>2. CASE HostCancel
            BY <2>1, <2>2 DEF HostCancel, Spoilt
      <2>3. ASSUME NEW t \in Timeouts, DogStep(t) PROVE late => late'
            BY <2>3 DEF DogStep, Watch, Fire, ghosts
      <2>. QED BY <1>4, <2>1, <2>2, <2>3 DEF Spoilt
<1>5. CASE UNCHANGED vars
      BY <1>5 DEF vars, stages, ghosts, Spoilt
<1>. QED BY <1>2, <1>3, <1>4, <1>5 DEF Next

\* Without pipes the runtime's thread runs its commands itself.
LEMMA LoneMain ==
    ASSUME IInv, Alone, MainStep
    PROVE  StartCall \/ EndCall \/ StopList \/ StartSegment \/ InlineEnds \/ InlinePanics
BY DEF Alone, MainStep, Launch, Launched, Abandon, PollMain, NotFinished, Join

LEMMA LoneStage ==
    ASSUME IInv, Alone, NEW s \in Stages, Protocol(s) \/ Complete(s)
    PROVE  /\ main = "inline" /\ s = Here(1) /\ UNCHANGED <<main, at, seg>>
           /\ \A u \in Stages \ {s} : pc'[u] = pc[u] /\ depth'[u] = depth[u] /\ out'[u] = out[u]
           /\ \/ Enter(s) \/ Observe(s) \/ Panic(s) \/ Emit(s) \/ Complete(s)
              \/ Load(s) \/ Clear(s) \/ Arm(s) \/ SetDone(s) \/ Restore(s)
<1>1. TypeOK /\ Lone(s) /\ \A u \in Stages : Lone(u)
      BY DEF IInv, Alone
<1>2. Local(s)
      BY <1>1, LocalStep
<1>3. pc[s] \in Running
      BY <1>1, <1>2 DEF Local, Live, Lone
<1>4. main = "inline" /\ s = Here(1) /\ UNCHANGED <<main, at, seg>>
      BY <1>1, <1>2, <1>3 DEF Local, Lone, mainVars
<1>5. \A u \in Stages \ {s} : pc[u] \notin Live
      BY <1>1, <1>4 DEF Lone, Live, Places, Ended
<1>6. \A u \in Stages \ {s} : pc'[u] = pc[u] /\ depth'[u] = depth[u] /\ out'[u] = out[u]
      BY <1>1, <1>2, <1>5, OutKept DEF Local
<1>7. ~ (GiveUp(s) \/ Poll(s) \/ Receive(s) \/ NoChunk(s) \/ Gate(s))
      BY <1>3 DEF Running, GiveUp, Poll, Receive, NoChunk, Gate
<1>. QED BY <1>4, <1>6, <1>7 DEF Protocol

\* A segment without pipes starts its command on the runtime's thread.
LEMMA LoneStart ==
    ASSUME IInv, Plain, Alone, StartSegment
    PROVE  /\ main = "segment" /\ main' = "inline" /\ UNCHANGED <<at, seg>>
           /\ Here(1) \in Stages
           /\ pc[Here(1)] = "none" /\ depth[Here(1)] = 0 /\ out[Here(1)] = 0
           /\ \E p \in {"done", "enter"} : pc' = [pc EXCEPT ![Here(1)] = p]
<1>1. TypeOK /\ InRange /\ Fresh /\ \A u \in Stages : Lone(u)
      BY DEF IInv, Alone
<1>2. at \in 1 .. Len(session) /\ seg \in 1 .. Len(session[at])
      <2>1. /\ at \in 1 .. Len(session) /\ seg <= Len(session[at])
            /\ seg \in 1 .. MaxSegments + 1
            BY <1>1 DEF StartSegment, InRange, TypeOK, MainTypes
      <2>2. Len(session[at]) \in Nat
            BY <1>1, <2>1, Scripts
      <2>. QED BY <2>1, <2>2, PipelineAssumption
<1>3. Len(session[at][seg]) = 1
      BY <1>2 DEF Plain
<1>4. /\ main = "segment" /\ main' = "inline" /\ UNCHANGED <<at, seg>>
      /\ pc' = [pc EXCEPT ![Here(1)] =
                  IF session[at][seg][1].body = "empty" THEN "done" ELSE "enter"]
      BY <1>3 DEF StartSegment, Goto
<1>5. Here(1) \in Stages
      <2>1. /\ at \in 1 .. NCalls /\ seg \in 1 .. MaxSegments
            /\ Len(session[at][seg]) \in 1 .. MaxStages
            BY <1>1, <1>2, Scripts
      <2>2. 1 \in 1 .. MaxStages
            BY <2>1, <1>3
      <2>. QED BY <2>1, <2>2 DEF Here, Stages
<1>6. pc[Here(1)] = "none"
      <2>1. Ahead(Here(1))
            BY <1>4 DEF Ahead, Here
      <2>. QED BY <1>1, <1>5, <2>1 DEF Fresh
<1>7. depth[Here(1)] = 0 /\ out[Here(1)] = 0
      BY <1>1, <1>5, <1>6 DEF Fresh, Lone
<1>8. \E p \in {"done", "enter"} : pc' = [pc EXCEPT ![Here(1)] = p]
      BY <1>4
<1>. QED BY <1>4, <1>5, <1>6, <1>7, <1>8

LEMMA AloneStep ==
    ASSUME IInv, Plain, Alone, [Next]_vars
    PROVE  Alone'
<1>1. /\ TypeOK /\ InRange /\ Fresh /\ Framed
      /\ \A u \in Stages : Lone(u)
      BY DEF IInv, Alone
<1>2. CASE MainStep
      <2>1. UNCHANGED <<depth, out, done>>
            BY <1>2, MainStepOnly DEF MainOnly, timers
      <2>2. CASE StartCall \/ EndCall \/ StopList
            <3>1. /\ UNCHANGED pc /\ main \in {"rest", "segment"}
                  /\ main' \in {"rest", "segment"}
                  BY <2>2 DEF StartCall, EndCall, StopList, Answer, Goto, stages
            <3>. QED BY <1>1, <2>1, <3>1 DEF Alone, Lone
      <2>3. CASE InlineEnds \/ InlinePanics
            <3>1. /\ UNCHANGED pc /\ pc[Here(1)] \in Ended
                  /\ main' \in {"rest", "segment"}
                  BY <2>3 DEF InlineEnds, InlinePanics, EndSegment, Answer, Goto,
                     Ended, stages
            <3>2. \A u \in Stages : pc[u] \notin Running
                  BY <1>1, <3>1 DEF Lone, Running, Ended
            <3>. QED BY <1>1, <2>1, <3>1, <3>2 DEF Alone, Lone
      <2>4. CASE StartSegment
            <3>1. /\ main = "segment" /\ main' = "inline" /\ UNCHANGED <<at, seg>>
                  /\ Here(1) \in Stages
                  /\ pc[Here(1)] = "none" /\ depth[Here(1)] = 0 /\ out[Here(1)] = 0
                  BY <2>4, LoneStart
            <3>2. PICK p \in {"done", "enter"} : pc' = [pc EXCEPT ![Here(1)] = p]
                  BY <2>4, LoneStart
            <3>5. Lone(Here(1))'
                  BY <1>1, <2>1, <3>1, <3>2
                  DEF Lone, Here, Running, Ended, Inward, TypeOK, StageTypes
            <3>6. ASSUME NEW u \in Stages, u # Here(1) PROVE Lone(u)'
                  BY <1>1, <2>1, <3>1, <3>2, <3>6
                  DEF Lone, Running, Ended, TypeOK, StageTypes
            <3>7. Here(1)' = Here(1)
                  BY <3>1 DEF Here
            <3>. QED BY <3>1, <3>5, <3>6, <3>7 DEF Alone
      <2>. QED BY <1>2, <2>2, <2>3, <2>4, LoneMain
<1>3. ASSUME NEW s \in Stages, Protocol(s) \/ Complete(s) PROVE Alone'
      <2>1. /\ main = "inline" /\ s = Here(1) /\ UNCHANGED <<main, at, seg>>
            /\ \A u \in Stages \ {s} : pc'[u] = pc[u] /\ depth'[u] = depth[u] /\ out'[u] = out[u]
            /\ \/ Enter(s) \/ Observe(s) \/ Panic(s) \/ Emit(s) \/ Complete(s)
               \/ Load(s) \/ Clear(s) \/ Arm(s) \/ SetDone(s) \/ Restore(s)
            BY <1>3, LoneStage
      <2>2. ASSUME NEW t \in Timeouts, done[t] PROVE done'[t]
            BY <1>1, <2>1, <2>2 DEF TypeOK, StageTypes, Enter, Observe, Panic, Emit,
               Complete, Load, Clear, Arm, SetDone, Restore, timers
      <2>3. ASSUME NEW u \in Stages \ {s} PROVE Lone(u)'
            BY <1>1, <2>1 DEF Lone, Running
      <2>4. Here(1)' = s
            BY <2>1 DEF Here
      <2>5. Lone(s)'
            <3>. USE DEF Lone, At, Finish, TypeOK, StageTypes, Running, Ended, Inward,
                         Framed, timers
            <3>1. CASE Enter(s) \/ Observe(s) \/ Panic(s) \/ Complete(s)
                  BY <1>1, <2>1, <2>4, <3>1 DEF Enter, Observe, Panic, Complete
            <3>2. CASE Emit(s)
                  BY <1>1, <2>1, <2>4, <3>2 DEF Emit
            <3>3. CASE Load(s)
                  BY <1>1, <2>1, <2>4, <3>3 DEF Load
            <3>6. CASE Clear(s)
                  BY <1>1, <2>1, <2>4, <3>6 DEF Clear
            <3>7. CASE Arm(s)
                  BY <1>1, <2>1, <2>4, <3>7 DEF Arm
            <3>4. CASE SetDone(s)
                  <4>1. pc[s] # "none" /\ depth[s] \in 1 .. MaxNest
                        BY <1>1, <3>4, Within, PipelineAssumption DEF SetDone
                  <4>2. <<s, depth[s]>> \in Timeouts
                        BY <4>1 DEF Timeouts
                  <4>. QED BY <1>1, <2>1, <2>4, <3>4, <4>2 DEF SetDone
            <3>5. CASE Restore(s)
                  BY <1>1, <2>1, <2>4, <3>5 DEF Restore
            <3>. QED BY <2>1, <3>1, <3>2, <3>3, <3>4, <3>5, <3>6, <3>7
      <2>. QED BY <2>1, <2>3, <2>5 DEF Alone
<1>4. CASE HostCancel \/ \E t \in Timeouts : DogStep(t)
      <2>1. UNCHANGED <<main, at, seg, pc, depth, out>>
            BY <1>4, AsideStep DEF Aside, mainVars
      <2>2. UNCHANGED done
            BY <1>4 DEF HostCancel, DogStep, Watch, Fire, stages, timers
      <2>. QED BY <2>1, <2>2 DEF Alone, Lone, Here
<1>5. CASE UNCHANGED vars
      BY <1>5 DEF vars, mainVars, stages, timers, Alone, Lone, Here
<1>. QED BY <1>2, <1>3, <1>4, <1>5 DEF Next

\* What the flag has been set by does not change while no watchdog does.
LEMMA HonestMain ==
    ASSUME IInv, Plain, Alone, Honest, MainStep, ~ Spoilt'
    PROVE  Honest'
<1>1. /\ TypeOK /\ InRange
      /\ \A u \in Stages : Lone(u) /\ Armed(u) /\ Blamed(u)
      BY DEF IInv, Alone, Honest
<1>2. UNCHANGED <<depth, out, prev, done, dog>>
      BY MainStepOnly DEF MainOnly, timers
<1>3. UNCHANGED asks
      BY LoneMain DEF StartCall, EndCall, StopList, StartSegment, InlineEnds,
         InlinePanics, Answer, ghosts
<1>4. \A u \in Stages : pc[u] \in Running => pc'[u] = pc[u]
      BY <1>1, Launches DEF Started, TypeOK, StageTypes, Running
<1>5. \A u \in Stages : Armed(u)' /\ Blamed(u)'
      BY <1>1, <1>2, <1>3, <1>4 DEF Armed, Blamed, Fired
<1>6. (main # "inline" /\ cancel => asked)' /\ (main = "inline" => Reasons(Here(1)))'
      <2>1. CASE StartCall \/ EndCall \/ StopList
            BY <2>1 DEF StartCall, EndCall, StopList, Answer, Goto, ghosts, Honest
      <2>2. CASE InlineEnds \/ InlinePanics
            <3>. DEFINE s == Here(1)
            <3>1. /\ main = "inline" /\ main' \in {"rest", "segment"}
                  /\ pc[s] \in Ended /\ UNCHANGED <<cancel, asked, pc>>
                  BY <2>2 DEF InlineEnds, InlinePanics, EndSegment, Answer, Goto,
                     Ended, stages, ghosts
            <3>2. s \in Stages /\ depth[s] \in Nat
                  BY <1>1, <3>1, Shape, PipelineAssumption
                  DEF Busy, TypeOK, MainTypes, StageTypes
            <3>3. depth[s] = 0
                  <4>1. CASE pc[s] = "done"
                        BY <1>1, <3>2, <4>1 DEF Lone
                  <4>2. CASE pc[s] = "dead"
                        <5>1. pc'[s] = "dead" /\ depth'[s] = depth[s]
                              BY <1>2, <3>1, <4>2
                        <5>2. ~ depth'[s] > 0
                              BY <3>2, <5>1 DEF Spoilt
                        <5>. QED BY <3>2, <5>1, <5>2
                  <4>. QED BY <3>1, <4>1, <4>2 DEF Ended
            <3>4. cancel => Caused(s, 0)
                  BY <3>1, <3>3 DEF Honest, Reasons
            <3>. QED BY <3>1, <3>4 DEF Caused, Fired
      <2>3. CASE StartSegment
            <3>1. /\ main = "segment" /\ UNCHANGED <<cancel, asked, at, seg>>
                  /\ Here(1) \in Stages /\ depth[Here(1)] = 0
                  BY <2>3, LoneStart DEF StartSegment, ghosts
            <3>2. PICK p \in {"done", "enter"} : pc' = [pc EXCEPT ![Here(1)] = p]
                  BY <2>3, LoneStart
            <3>3. pc'[Here(1)] \notin {"clear", "arm"}
                  BY <1>1, <3>1, <3>2 DEF TypeOK, StageTypes
            <3>4. cancel => asked
                  BY <3>1 DEF Honest
            <3>5. main' = "inline"
                  BY <2>3, LoneStart
            <3>6. Here(1)' = Here(1)
                  BY <3>1 DEF Here
            <3>. QED BY <1>2, <3>1, <3>3, <3>4, <3>5, <3>6 DEF Reasons, Caused
      <2>. QED BY <2>1, <2>2, <2>3, LoneMain
<1>. QED BY <1>5, <1>6 DEF Honest

\* A timeout that has fired is not forgotten while its command runs.
LEMMA HonestStage ==
    ASSUME IInv, Plain, Alone, asked => asks > 0, Honest,
           NEW s \in Stages, Protocol(s) \/ Complete(s), ~ Spoilt'
    PROVE  Honest'
<1>1. /\ TypeOK /\ Framed /\ \A u \in Stages : Lone(u) /\ Armed(u) /\ Blamed(u)
      BY DEF IInv, Alone, Honest
<1>2. /\ main = "inline" /\ s = Here(1) /\ UNCHANGED <<main, at, seg>>
      /\ \A u \in Stages \ {s} : pc'[u] = pc[u] /\ depth'[u] = depth[u] /\ out'[u] = out[u]
      /\ \/ Enter(s) \/ Observe(s) \/ Panic(s) \/ Emit(s) \/ Complete(s)
         \/ Load(s) \/ Clear(s) \/ Arm(s) \/ SetDone(s) \/ Restore(s)
      BY LoneStage
<1>3. Reasons(s) /\ s = Here(1)'
      BY <1>2 DEF Honest, Here
<1>4. UNCHANGED <<asks, asked>>
      BY <1>2 DEF Enter, Observe, Panic, Emit, Complete, Load, Clear, Arm, SetDone,
         Restore, ghosts
<1>5. depth[s] \in 0 .. MaxNest /\ depth[s] \in Nat /\ MaxNest \in Nat
      BY <1>1, PipelineAssumption DEF TypeOK, StageTypes
<1>6. pc[s] \in {"load", "clear", "arm"} => depth[s] + 1 \in 1 .. MaxNest
      <2>. SUFFICES ASSUME pc[s] \in {"load", "clear", "arm"}
                    PROVE  depth[s] + 1 \in 1 .. MaxNest
           OBVIOUS
      <2>1. Cmd(s) \in Command /\ depth[s] < Cmd(s).nest
            BY <1>1 DEF Framed
      <2>2. Cmd(s).nest \in 0 .. MaxNest
            BY <2>1 DEF Command
      <2>. QED BY <1>5, <2>1, <2>2
<1>7. cancel => asks > 0 \/ Fired(s, MaxNest)
      BY <1>3, <1>5 DEF Reasons, Caused, Fired
<1>8. ASSUME NEW u \in Stages \ {s} PROVE Armed(u)' /\ Blamed(u)'
      <2>1. \A e \in 1 .. MaxNest :
               dog'[<<u, e>>] = dog[<<u, e>>] /\ done'[<<u, e>>] = done[<<u, e>>]
            BY <1>1, <1>2 DEF TypeOK, StageTypes, Timeouts, Enter, Observe, Panic, Emit,
               Complete, Load, Clear, Arm, SetDone, Restore, timers
      <2>2. Armed(u) /\ Blamed(u) /\ pc'[u] = pc[u] /\ depth'[u] = depth[u]
            /\ out'[u] = out[u]
            BY <1>1, <1>2
      <2>. QED BY <1>4, <2>1, <2>2 DEF Armed, Blamed, Fired
<1>9. Armed(s)' /\ Blamed(s)' /\ Reasons(s)'
      <2>1. Armed(s) /\ Blamed(s) /\ Lone(s)
            BY <1>1
      <2>2. CASE Enter(s) \/ Observe(s) \/ Complete(s)
            <3>1. /\ UNCHANGED <<cancel, depth, prev, done, dog>>
                  /\ pc[s] \in Running /\ pc'[s] \in {"load", "run", "unwind"}
                  /\ out'[s] \in {0, 1, out[s]} \/ (cancel /\ out'[s] = 143)
                  BY <1>1, <2>2 DEF Enter, Observe, Complete, At, Running, timers,
                     TypeOK, StageTypes
            <3>2. Armed(s)'
                  BY <2>1, <3>1 DEF Armed, Running
            <3>3. Blamed(s)'
                  <4>1. Fired(s, MaxNest)' <=> Fired(s, MaxNest)
                        BY <3>1 DEF Fired
                  <4>2. CASE cancel /\ out'[s] = 143
                        BY <1>4, <1>7, <4>1, <4>2 DEF Blamed
                  <4>3. CASE out'[s] \in {0, 1}
                        BY <4>3 DEF Blamed
                  <4>4. CASE out'[s] = out[s]
                        BY <1>4, <2>1, <4>1, <4>4 DEF Blamed
                  <4>. QED BY <3>1, <4>2, <4>3, <4>4
            <3>4. Reasons(s)'
                  BY <1>3, <1>4, <3>1 DEF Reasons, Caused, Fired
            <3>. QED BY <3>2, <3>3, <3>4
      <2>3. CASE Panic(s) \/ Emit(s)
            <3>1. /\ UNCHANGED <<cancel, depth, prev, done, dog>>
                  /\ pc'[s] \in {"done", "dead"} /\ out'[s] = out[s]
                  /\ pc'[s] = "done" => depth[s] = 0
                  BY <1>1, <2>3 DEF Panic, Emit, Finish, At, timers, TypeOK, StageTypes
            <3>2. depth[s] = 0
                  BY <1>5, <3>1 DEF Spoilt
            <3>3. Armed(s)'
                  BY <2>1, <3>1, <3>2 DEF Armed
            <3>4. Blamed(s)'
                  BY <1>4, <2>1, <3>1 DEF Blamed, Fired
            <3>5. Reasons(s)'
                  BY <1>3, <1>4, <3>1 DEF Reasons, Caused, Fired
            <3>. QED BY <3>3, <3>4, <3>5
      <2>4. CASE Load(s)
            <3>1. /\ UNCHANGED <<cancel, depth, done, dog, out>>
                  /\ pc[s] = "load" /\ pc'[s] = "clear"
                  /\ prev' = [prev EXCEPT ![<<s, depth[s] + 1>>] = cancel]
                  BY <1>1, <2>4 DEF Load, At, TypeOK, StageTypes
            <3>2. /\ prev'[<<s, depth[s] + 1>>] = cancel
                  /\ \A e \in 1 .. depth[s] : prev'[<<s, e>>] = prev[<<s, e>>]
                  BY <1>1, <1>5, <1>6, <3>1 DEF TypeOK, StageTypes, Timeouts
            <3>3. Armed(s)'
                  BY <2>1, <3>1 DEF Armed, Running
            <3>4. Blamed(s)'
                  BY <1>4, <2>1, <3>1 DEF Blamed, Fired
            <3>5. Reasons(s)'
                  BY <1>3, <1>4, <3>1, <3>2 DEF Reasons, Caused, Fired
            <3>. QED BY <3>3, <3>4, <3>5
      <2>5. CASE Clear(s)
            <3>1. /\ UNCHANGED <<depth, done, dog, out, prev>> /\ ~ cancel'
                  /\ pc[s] = "clear" /\ pc'[s] = "arm"
                  BY <1>1, <2>5 DEF Clear, At, timers, TypeOK, StageTypes
            <3>2. Armed(s)'
                  BY <2>1, <3>1 DEF Armed, Running
            <3>3. Blamed(s)'
                  BY <1>4, <2>1, <3>1 DEF Blamed, Fired
            <3>4. Reasons(s)'
                  BY <1>3, <1>4, <3>1 DEF Reasons, Caused, Fired
            <3>. QED BY <3>2, <3>3, <3>4
      <2>6. CASE Arm(s)
            <3>0. PICK d \in Nat : d = depth[s]
                  BY <1>5
            <3>1. /\ UNCHANGED <<cancel, done, out, prev>>
                  /\ pc[s] = "arm" /\ pc'[s] = "enter" /\ depth'[s] = d + 1
                  /\ dog' = [dog EXCEPT ![<<s, d + 1>>] = "watch"]
                  BY <3>0, <1>1, <2>6 DEF Arm, At, TypeOK, StageTypes
            <3>2. \A e \in 1 .. MaxNest : e # d + 1 => dog'[<<s, e>>] = dog[<<s, e>>]
                  BY <3>0, <1>1, <3>1 DEF TypeOK, StageTypes, Timeouts
            <3>4. Armed(s)'
                  <4>. SUFFICES ASSUME NEW e \in 1 .. MaxNest,
                                       dog'[<<s, e>>] \in {"watch", "fire"},
                                       ~ done'[<<s, e>>]
                                PROVE  e <= d + 1
                       BY <3>0, <3>1 DEF Armed, Running
                  <4>1. CASE e = d + 1
                        BY <3>0, <1>5, <4>1
                  <4>2. CASE e # d + 1
                        BY <3>0, <1>5, <2>1, <3>1, <3>2, <4>2 DEF Armed
                  <4>. QED BY <3>0, <4>1, <4>2
            <3>5. Blamed(s)'
                  BY <3>0, <2>1, <3>1 DEF Blamed, Lone, Inward
            <3>6. \A n \in 0 .. d : Caused(s, n) => Caused(s, n)'
                  <4>. SUFFICES ASSUME NEW n \in 0 .. d, NEW e \in 1 .. n,
                                       dog[<<s, e>>] = "fired"
                                PROVE  Fired(s, n)'
                       BY <3>0, <1>4 DEF Caused, Fired
                  <4>1. e \in 1 .. MaxNest /\ e # d + 1
                        BY <3>0, <1>5
                  <4>. QED BY <3>0, <3>2, <4>1 DEF Fired
            <3>7. Caused(s, d)' => Caused(s, d + 1)'
                  <4>1. \A e \in 1 .. d : e \in 1 .. d + 1
                        BY <3>0
                  <4>. QED BY <4>1 DEF Caused, Fired
            <3>8. cancel => Caused(s, d)'
                  BY <3>0, <1>3, <1>5, <3>6 DEF Reasons
            <3>9. \A e \in 1 .. d + 1 : prev[<<s, e>>] => Caused(s, e - 1)'
                  <4>. SUFFICES ASSUME NEW e \in 1 .. d + 1, prev[<<s, e>>]
                                PROVE  Caused(s, e - 1)'
                       OBVIOUS
                  <4>1. e - 1 \in 0 .. d
                        BY <3>0, <1>5
                  <4>2. Caused(s, e - 1)
                        <5>1. CASE e = d + 1
                              <6>1. e - 1 = d
                                    BY <3>0, <1>5, <5>1
                              <6>. QED BY <3>0, <1>3, <3>1, <5>1, <6>1 DEF Reasons
                        <5>2. CASE e # d + 1
                              BY <3>0, <1>3, <1>5, <5>2 DEF Reasons
                        <5>. QED BY <3>0, <5>1, <5>2
                  <4>. QED BY <3>0, <3>6, <4>1, <4>2
            <3>10. Reasons(s)'
                  <4>1. (cancel => Caused(s, depth[s]))'
                        BY <3>0, <3>1, <3>7, <3>8
                  <4>2. (\A e \in 1 .. depth[s] : prev[<<s, e>>] => Caused(s, e - 1))'
                        BY <3>0, <3>1, <3>9
                  <4>. QED BY <3>0, <3>1, <4>1, <4>2 DEF Reasons
            <3>. QED BY <3>0, <3>4, <3>5, <3>10
      <2>7. CASE SetDone(s)
            <3>1. /\ UNCHANGED <<cancel, depth, dog, out, prev>>
                  /\ pc[s] = "unwind" /\ pc'[s] = "restore"
                  /\ \A e \in 1 .. MaxNest : done[<<s, e>>] => done'[<<s, e>>]
                  BY <1>1, <2>7 DEF SetDone, At, TypeOK, StageTypes, Timeouts
            <3>2. Armed(s)'
                  BY <2>1, <3>1 DEF Armed, Running
            <3>3. Blamed(s)'
                  BY <1>4, <2>1, <3>1 DEF Blamed, Fired
            <3>4. Reasons(s)'
                  BY <1>3, <1>4, <3>1 DEF Reasons, Caused, Fired
            <3>. QED BY <3>2, <3>3, <3>4
      <2>8. CASE Restore(s)
            <3>0. PICK d \in Nat : d = depth[s]
                  BY <1>5
            <3>1. /\ UNCHANGED <<prev, done, dog>>
                  /\ pc[s] = "restore" /\ pc'[s] = "unwind" /\ depth'[s] = d - 1
                  /\ cancel' = prev[<<s, d>>]
                  /\ out'[s] = IF out[s] = 143 THEN 124 ELSE out[s]
                  BY <3>0, <1>1, <2>8 DEF Restore, At, timers, TypeOK, StageTypes
            <3>2. d \in 1 .. MaxNest /\ done[<<s, d>>]
                  BY <3>0, <1>1, <1>5, <2>1, <3>1 DEF Framed, Lone
            <3>3. Armed(s)'
                  <4>. SUFFICES ASSUME NEW e \in 1 .. MaxNest,
                                       dog[<<s, e>>] \in {"watch", "fire"},
                                       ~ done[<<s, e>>]
                                PROVE  e <= d - 1
                       BY <3>0, <3>1 DEF Armed, Running
                  <4>1. e <= d /\ e # d
                        BY <3>0, <2>1, <3>2 DEF Armed
                  <4>. QED BY <3>0, <3>2, <4>1
            <3>4. Blamed(s)'
                  BY <3>0, <1>4, <2>1, <3>1 DEF Blamed, Fired
            <3>5. \A n \in Nat : Caused(s, n)' <=> Caused(s, n)
                  BY <3>0, <1>4, <3>1 DEF Caused, Fired
            <3>6. cancel' => Caused(s, d - 1)'
                  <4>1. prev[<<s, d>>] => Caused(s, d - 1)
                        BY <3>0, <1>3, <3>2 DEF Reasons
                  <4>2. d - 1 \in Nat
                        BY <3>0, <3>2
                  <4>. QED BY <3>0, <3>1, <3>5, <4>1, <4>2
            <3>7. \A e \in 1 .. d - 1 : prev[<<s, e>>] => Caused(s, e - 1)'
                  <4>. SUFFICES ASSUME NEW e \in 1 .. d - 1, prev[<<s, e>>]
                                PROVE  Caused(s, e - 1)'
                       OBVIOUS
                  <4>1. e - 1 \in Nat /\ e \in 1 .. d
                        BY <3>0, <3>2
                  <4>2. Caused(s, e - 1)
                        BY <3>0, <1>3, <4>1 DEF Reasons
                  <4>. QED BY <3>0, <3>5, <4>1, <4>2
            <3>8. Reasons(s)'
                  <4>1. (cancel => Caused(s, depth[s]))'
                        BY <3>0, <3>1, <3>6
                  <4>2. (\A e \in 1 .. depth[s] : prev[<<s, e>>] => Caused(s, e - 1))'
                        BY <3>0, <3>1, <3>7
                  <4>. QED BY <3>0, <3>1, <4>1, <4>2 DEF Reasons
            <3>. QED BY <3>0, <3>3, <3>4, <3>8
      <2>. QED BY <1>2, <2>2, <2>3, <2>4, <2>5, <2>6, <2>7, <2>8
<1>. QED BY <1>2, <1>3, <1>8, <1>9 DEF Honest

\* A watchdog that fires in time is one around the command at hand.
LEMMA HonestAside ==
    ASSUME IInv, Alone, Honest, HostCancel \/ \E t \in Timeouts : DogStep(t),
           ~ Spoilt'
    PROVE  Honest'
<1>1. /\ TypeOK /\ \A u \in Stages : Lone(u) /\ Armed(u) /\ Blamed(u)
      BY DEF IInv, Alone, Honest
<1>2. UNCHANGED <<main, at, seg, pc, depth, out>>
      BY AsideStep DEF Aside, mainVars
<1>3. CASE HostCancel
      <2>1. UNCHANGED <<prev, done, dog>> /\ asked' /\ asks' = asks + 1
            BY <1>3 DEF HostCancel, stages, timers
      <2>2. asks' > 0
            BY <1>1, <2>1, PipelineAssumption DEF TypeOK, MainTypes
      <2>3. \A u \in Stages : Armed(u)' /\ Blamed(u)'
            BY <1>1, <1>2, <2>1, <2>2 DEF Armed, Blamed
      <2>. QED BY <2>1, <2>3 DEF Honest, Reasons, Caused
<1>4. ASSUME NEW t \in Timeouts, DogStep(t) PROVE Honest'
      <2>1. /\ UNCHANGED <<prev, done, asks, asked>>
            /\ \E x \in {"gone", "fire", "fired"} : dog' = [dog EXCEPT ![t] = x]
            BY <1>4 DEF DogStep, Watch, Fire, ghosts
      <2>2. dog[t] \in {"watch", "fire"}
            BY <1>4 DEF DogStep, Watch, Fire
      <2>3. \A x \in Timeouts : /\ dog[x] = "fired" => dog'[x] = "fired"
                                /\ x # t => dog'[x] = dog[x]
            BY <1>1, <2>1, <2>2 DEF TypeOK, StageTypes
      <2>4. dog'[t] = "fire" => dog[t] = "watch" /\ ~ done[t]
            BY <1>1, <1>4 DEF DogStep, Watch, Fire, TypeOK, StageTypes
      <2>5. \A u \in Stages, d \in 0 .. MaxNest : Fired(u, d) => Fired(u, d)'
            <3>. SUFFICES ASSUME NEW u \in Stages, NEW d \in 0 .. MaxNest,
                                 NEW e \in 1 .. d, dog[<<u, e>>] = "fired"
                          PROVE  dog'[<<u, e>>] = "fired"
                 BY DEF Fired
            <3>1. e \in 1 .. MaxNest
                  BY PipelineAssumption
            <3>. QED BY <2>3, <3>1 DEF Timeouts
      <2>6. MaxNest \in 0 .. MaxNest
            BY PipelineAssumption
      <2>7. ASSUME NEW u \in Stages PROVE Armed(u)' /\ Blamed(u)'
            <3>1. Blamed(u)'
                  BY <1>1, <1>2, <2>1, <2>5, <2>6 DEF Blamed
            <3>2. ASSUME NEW e \in 1 .. MaxNest,
                         dog'[<<u, e>>] \in {"watch", "fire"}, ~ done'[<<u, e>>]
                  PROVE  dog[<<u, e>>] \in {"watch", "fire"} /\ ~ done[<<u, e>>]
                  <4>1. <<u, e>> \in Timeouts
                        BY DEF Timeouts
                  <4>. QED BY <2>1, <2>2, <2>3, <3>2, <4>1
            <3>. QED BY <1>1, <1>2, <3>1, <3>2 DEF Armed
      <2>8. cancel' => cancel \/ (main = "inline" /\ Fired(Here(1), depth[Here(1)])')
            <3>1. CASE Watch(t)
                  BY <3>1 DEF Watch
            <3>2. CASE Fire(t)
                  <4>1. PICK u \in Stages, e \in 1 .. MaxNest : t = <<u, e>>
                        BY DEF Timeouts
                  <4>2. dog[t] = "fire" /\ dog'[t] = "fired" /\ ~ done[t]
                        BY <1>1, <3>2 DEF Fire, Spoilt, TypeOK, StageTypes
                  <4>3. pc[u] \in Running /\ e <= depth[u]
                        BY <1>1, <4>1, <4>2 DEF Armed
                  <4>4. main = "inline" /\ u = Here(1)
                        BY <1>1, <4>3 DEF Lone
                  <4>5. depth[u] \in Nat
                        BY <1>1, PipelineAssumption DEF TypeOK, StageTypes
                  <4>6. Fired(u, depth[u])'
                        BY <1>2, <4>1, <4>2, <4>3, <4>5 DEF Fired
                  <4>. QED BY <1>2, <4>4, <4>6 DEF Here
            <3>. QED BY <1>4, <3>1, <3>2 DEF DogStep
      <2>9. (main # "inline" /\ cancel => asked)'
            BY <1>2, <2>1, <2>8 DEF Honest
      <2>10. (main = "inline" => Reasons(Here(1)))'
            <3>. SUFFICES ASSUME main = "inline" PROVE Reasons(Here(1))'
                 BY <1>2
            <3>1. PICK s \in Stages : s = Here(1) /\ s = Here(1)'
                  <4>1. Here(1) \in Stages
                        BY Shape, PipelineAssumption DEF IInv, Busy
                  <4>. QED BY <1>2, <4>1 DEF Here
            <3>2. Reasons(s) /\ depth[s] \in 0 .. MaxNest
                  BY <1>1, <3>1 DEF Honest, TypeOK, StageTypes
            <3>3. \A d \in 0 .. MaxNest : Caused(s, d) => Caused(s, d)'
                  BY <2>1, <2>5 DEF Caused
            <3>4. cancel' => Caused(s, depth[s])'
                  BY <1>2, <2>8, <3>1, <3>2, <3>3 DEF Reasons, Caused
            <3>5. \A e \in 1 .. depth[s] : e - 1 \in 0 .. MaxNest
                  BY <3>2, PipelineAssumption
            <3>6. \A e \in 1 .. depth[s] : prev[<<s, e>>] => Caused(s, e - 1)'
                  BY <3>2, <3>3, <3>5 DEF Reasons
            <3>7. pc[s] \in {"clear", "arm"} /\ prev[<<s, depth[s] + 1>>] =>
                     Caused(s, depth[s])'
                  BY <1>2, <3>2, <3>3 DEF Reasons
            <3>8. Reasons(s)'
                  BY <1>2, <2>1, <3>4, <3>6, <3>7 DEF Reasons
            <3>. QED BY <3>1, <3>8
      <2>. QED BY <2>7, <2>9, <2>10 DEF Honest
<1>. QED BY <1>3, <1>4

LEMMA FlagsStep == IInv /\ Flags /\ [Next]_vars => Flags'
<1> SUFFICES ASSUME IInv, Flags, [Next]_vars, Plain' PROVE
             Alone' /\ (asked => asks > 0)' /\ (Spoilt \/ Honest)'
    BY DEF Flags
<1>1. TypeOK
      BY DEF IInv
<1>2. Plain /\ Alone /\ (asked => asks > 0) /\ (Spoilt \/ Honest)
      <2>1. UNCHANGED script
            <3>1. CASE MainStep
                  BY <3>1, MainStepOnly DEF MainOnly
            <3>2. ASSUME NEW u \in Stages, Protocol(u) \/ Complete(u)
                  PROVE  UNCHANGED script
                  BY <1>1, <3>2, LocalStep DEF Local
            <3>3. CASE HostCancel \/ \E t \in Timeouts : DogStep(t)
                  BY <3>3, AsideStep DEF Aside
            <3>4. CASE UNCHANGED vars
                  BY <3>4 DEF vars
            <3>. QED BY <3>1, <3>2, <3>3, <3>4 DEF Next
      <2>2. Plain
            BY <2>1 DEF Plain, script
      <2>. QED BY <2>2 DEF Flags
<1>3. Alone'
      BY <1>2, AloneStep
<1>4. (asked => asks > 0)'
      <2>1. asks \in Nat
            BY <1>1, PipelineAssumption DEF TypeOK, MainTypes
      <2>2. CASE MainStep
            <3>1. UNCHANGED asks /\ asked' \in {asked, FALSE}
                  BY <1>2, <2>2, LoneMain DEF StartCall, EndCall, StopList, StartSegment,
                     InlineEnds, InlinePanics, Answer, ghosts
            <3>. QED BY <1>2, <3>1
      <2>3. ASSUME NEW u \in Stages, Protocol(u) \/ Complete(u)
            PROVE  UNCHANGED <<asks, asked>>
            BY <2>3 DEF Protocol, Complete, GiveUp, Poll, Receive, NoChunk, Gate,
               Enter, Observe, Panic, Emit, Load, Clear, Arm, SetDone, Restore, ghosts
      <2>4. CASE HostCancel
            BY <2>1, <2>4 DEF HostCancel
      <2>5. ASSUME NEW t \in Timeouts, DogStep(t) PROVE UNCHANGED <<asks, asked>>
            BY <2>5 DEF DogStep, Watch, Fire, ghosts
      <2>6. CASE UNCHANGED vars
            BY <1>2, <2>6 DEF vars, ghosts
      <2>. QED BY <1>2, <2>2, <2>3, <2>4, <2>5, <2>6 DEF Next
<1>5. (Spoilt \/ Honest)'
      <2>. SUFFICES ASSUME ~ Spoilt' PROVE Honest'
           OBVIOUS
      <2>1. Honest
            BY <1>2, SpoiltStays
      <2>2. CASE MainStep
            BY <1>2, <2>1, <2>2, HonestMain
      <2>3. ASSUME NEW u \in Stages, Protocol(u) \/ Complete(u) PROVE Honest'
            BY <1>2, <2>1, <2>3, HonestStage
      <2>4. CASE HostCancel \/ \E t \in Timeouts : DogStep(t)
            BY <1>2, <2>1, <2>4, HonestAside
      <2>5. CASE UNCHANGED vars
            BY <2>1, <2>5 DEF vars, mainVars, stages, timers, ghosts, Honest, Armed,
               Blamed, Reasons, Caused, Fired, Here
      <2>. QED BY <2>2, <2>3, <2>4, <2>5 DEF Next
<1>. QED BY <1>3, <1>4, <1>5

LEMMA FlagsHold == Spec => [](IInv /\ Flags)
<1>1. Init => Flags
      BY DEF Init, Flags, Alone, Lone, Honest, Armed, Blamed, Running, Ended, Timeouts
<1>. QED BY <1>1, FlagsStep, InvHolds, PTL DEF Spec

\* cmd_timeout gives the flag back as the host left it: in a session without
\* pipes a flag that is set between commands was set by the host, however
\* timeouts nest and whenever they fire, unless a watchdog fired late or a
\* command panicked under `timeout`.
THEOREM FlagComesBack == Spec => []FlagRestored
<1>1. Flags => FlagRestored
      BY DEF Flags, Honest, FlagRestored
<1>. QED BY <1>1, FlagsHold, PTL

\* Under the same conditions a command is cut short (124, 143) by the host or
\* by a `timeout` of its own, never by that of another command.
THEOREM CutShortByOwn == Spec => []OwnTimeout
<1>1. Flags => OwnTimeout
      BY DEF Flags, Honest, Blamed, Fired, OwnTimeout
<1>. QED BY <1>1, FlagsHold, PTL
=============================================================================
