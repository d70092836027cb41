----------------------------- MODULE NetProofs -----------------------------
(***************************************************************************)
(* Proofs about Net for any number of calls, programs, retries and files:   *)
(* one request in flight per command, and what an exit code says of the     *)
(* disk.                                                                   *)
(***************************************************************************)
EXTENDS Net, SequenceTheorems, FiniteSetTheorems, TLAPS

Running == {"begin", "top", "backoff", "ask", "wait", "late", "read", "unpack"}
Codes   == {0, 1, 7, 22, 23, 28, 143}
Request == [pc : {"new", "sent", "body", "ended"}, ok : BOOLEAN, got : 0 .. Size,
            ans : {Nil, 0, 1, 7, 28, 143}]
Output  == [by : Call \cup {Nil}, got : 0 .. Size, exact : BOOLEAN]

Typed ==
    /\ cmd \in Seq(Programs) /\ Len(cmd) <= MaxCalls /\ told \subseteq Call
    /\ slot \in Call \cup {Nil} /\ expired \subseteq Call /\ holder \in Call \cup {Nil}
    /\ pc \in [Call -> Running \cup {"none", "lock", "done"}]
    /\ stage \in [Call -> {"info", "wheel"}] /\ tries \in [Call -> Nat]
    /\ budget \in [Call -> Call \cup {Nil}] /\ out \in [Call -> Codes \cup {Nil}]
    /\ req \in [Call -> Seq(Request)]
    /\ file \in Output
    /\ cache \in {Nil, "wheel", "other"}
    /\ site \subseteq (1 .. Files) \ Skipped /\ unpacked \in [Call -> 0 .. Files]

\* A worker exists for the calls made, and it alone decides on its exit code.
Made(c) == (pc[c] = "none" <=> c > Len(cmd)) /\ (pc[c] = "done" <=> out[c] # Nil)
\* The runtime is held by the command that runs.
Held(c) == pc[c] \in Running <=> holder = c
\* A request is the one waited for, or the deadline has passed: Ask looks at the
\* deadline, so that there is never a second.
Asked(c) ==
    /\ Len(req[c]) <= 1
    /\ pc[c] = "wait" => Len(req[c]) = 1
    /\ pc[c] # "wait" /\ req[c] # <<>> => budget[c] \in expired
    /\ pc[c] \in {"none", "lock", "begin"} => req[c] = <<>>
    /\ \A k \in Requests(c) : req[c][k].ans = 0 => req[c][k].got = Size
\* The output is that of a command that is over; the files of a wheel are
\* installed in order, by pip, and are there while it goes on.
Written(c) ==
    /\ file.by = c => pc[c] = "done"
    /\ pc[c] = "unpack" => (1 .. unpacked[c]) \ Skipped \subseteq site
    /\ pc[c] \notin {"unpack", "done"} => unpacked[c] = 0
    /\ pc[c] \in {"read", "unpack"} => Runs(c, {"pip"})

Sound(c) == Made(c) /\ Held(c) /\ Asked(c) /\ Written(c)
IInv == Typed /\ \A c \in Call : Sound(c)

-----------------------------------------------------------------------------
(* Operators.                                                              *)

\* The channel of a request that is waited for is empty once its answer is taken.
LEMMA OneTaken ==
  ASSUME NEW S, NEW s \in Seq(S), Len(s) = 1
  PROVE  Front(s) = <<>> /\ RemoveAt(s, 1) = <<>> /\ Last(s) = s[1]
<1>1. SubSeq(s, 1, 0) = <<>> /\ SubSeq(s, 2, 1) = <<>>
  BY SubSeqEmpty
<1>2. <<>> \o <<>> = <<>>
  BY EmptySeq, ConcatEmptySeq
<1> QED
  BY <1>1, <1>2 DEF Front, RemoveAt, Last

LEMMA AtMostOne ==
  ASSUME NEW S, NEW s \in Seq(S), Len(s) <= 1, NEW k \in 1 .. Len(s)
  PROVE  k = 1 /\ Len(s) = 1 /\ s[1] \in S /\ s # <<>>
<1>1. Len(s) \in Nat
  OBVIOUS
<1>2. \A n \in Nat : n <= 1 /\ k \in 1 .. n => k = 1 /\ n = 1
  OBVIOUS
<1>3. k = 1 /\ Len(s) = 1
  BY <1>1, <1>2
<1> QED
  BY <1>3, ElementOfSeq, EmptySeq

\* The first request.
LEMMA OneMade ==
  ASSUME NEW S, NEW e \in S
  PROVE  /\ Append(<<>>, e) \in Seq(S) /\ Len(Append(<<>>, e)) = 1
         /\ Append(<<>>, e)[1] = e
  OBVIOUS

-----------------------------------------------------------------------------
(* What a step of one command leaves alone of the others.                  *)

\* A call that a step does not touch stays sound.
LEMMA Untouched ==
  ASSUME NEW c \in Call, Sound(c), Typed,
         /\ pc'[c] = pc[c] /\ out'[c] = out[c] /\ req'[c] = req[c] /\ budget'[c] = budget[c]
         /\ unpacked'[c] = unpacked[c],
         c > Len(cmd) <=> c > Len(cmd'),
         c <= Len(cmd) => cmd'[c] = cmd[c],
         holder = c <=> holder' = c,
         expired \subseteq expired', site \subseteq site' \/ pc[c] # "unpack",
         file'.by = c => file.by = c
  PROVE  Sound(c)'
<1>1. Made(c)' /\ Held(c)'
  BY DEF Sound, Made, Held
<1>2. Asked(c)'
  BY DEF Sound, Asked, Requests
<1>3. Runs(c, {"pip"}) => Runs(c, {"pip"})'
  BY DEF Runs, Typed, Call
<1>4. Written(c)'
  BY <1>3 DEF Sound, Written
<1> QED
  BY <1>1, <1>2, <1>4 DEF Sound

-----------------------------------------------------------------------------
(* The invariant.                                                          *)

LEMMA Begins == Init => IInv
<1> SUFFICES ASSUME Init PROVE IInv
  OBVIOUS
<1> USE NetAssumption DEF NetAssumption, Init
<1>1. Typed
  BY DEF Typed, Output
<1>2. ASSUME NEW c \in Call PROVE Made(c) /\ Held(c) /\ Asked(c) /\ Written(c)
  BY DEF Made, Held, Asked, Written, Running, Call, Requests
<1> QED
  BY <1>1, <1>2 DEF IInv, Sound

LEMMA Calls ==
  ASSUME IInv, NEW p \in Programs, HostCall(p)
  PROVE  IInv'
<1> USE NetAssumption DEF NetAssumption, IInv, worker, disk
<1>1. PICK d \in Call : d = Len(cmd) + 1
  BY DEF HostCall, Typed, Call
<1>2. /\ cmd' = Append(cmd, p) /\ slot' \in {d, Nil} /\ pc' = [pc EXCEPT ![d] = "lock"]
      /\ UNCHANGED <<told, expired, holder, stage, tries, budget, out, req, disk>>
  BY <1>1 DEF HostCall, To
<1>3. /\ cmd' \in Seq(Programs) /\ Len(cmd') = d /\ d <= MaxCalls /\ Len(cmd) \in Nat
      /\ \A e \in Call : e < d => cmd'[e] = cmd[e]
  <2>1. cmd \in Seq(Programs) /\ Len(cmd) \in Nat
    BY DEF Typed
  <2>2. cmd' \in Seq(Programs) /\ \A e \in 1 .. Len(cmd) : cmd'[e] = cmd[e]
    BY <1>2, <2>1
  <2>3. Len(cmd') = d /\ d <= MaxCalls
    BY <1>1, <1>2, <2>1 DEF Call
  <2>4. \A e \in Call : e < d => e \in 1 .. Len(cmd)
    BY <1>1, <2>1 DEF Call
  <2> QED
    BY <2>1, <2>2, <2>3, <2>4
<1>4. \A e \in Call : pc'[e] = IF e = d THEN "lock" ELSE pc[e]
  BY <1>2 DEF Typed
<1>5. Typed'
  <2>1. pc' \in [Call -> Running \cup {"none", "lock", "done"}] /\ slot' \in Call \cup {Nil}
    BY <1>2 DEF Typed
  <2> QED
    BY <2>1, <1>2, <1>3 DEF Typed
<1>6. Sound(d)'
  <2>1. pc[d] = "none"
    BY <1>1, <1>3 DEF Sound, Made
  <2>2. Made(d)' /\ Held(d)'
    BY <2>1, <1>1, <1>2, <1>3, <1>4 DEF Sound, Made, Held, Running, Call
  <2>3. Asked(d)'
    BY <2>1, <1>2, <1>4 DEF Sound, Asked, Requests
  <2>4. Written(d)'
    BY <2>1, <1>2, <1>4 DEF Sound, Written
  <2> QED
    BY <2>2, <2>3, <2>4 DEF Sound
<1>7. ASSUME NEW e \in Call, e # d PROVE Sound(e)'
  <2>1. (e > Len(cmd) <=> e > Len(cmd')) /\ (e <= Len(cmd) => cmd'[e] = cmd[e])
    BY <1>1, <1>3, <1>7 DEF Call
  <2> QED
    BY <2>1, <1>2, <1>4, <1>7, Untouched
<1> QED
  BY <1>5, <1>6, <1>7

LEMMA Hosts ==
  ASSUME IInv,
         \/ HostCancel \/ UNCHANGED vars
         \/ \E c \in Call : Expire(c) \/ TellTimeout(c) \/ Tell(c)
  PROVE  IInv'
<1>1. /\ UNCHANGED <<cmd, slot, worker, req, disk>> /\ expired \subseteq expired'
      /\ expired' \subseteq Call /\ told' \subseteq Call
  BY DEF HostCancel, Expire, TellTimeout, Tell, vars, host, IInv, Typed
<1>2. Typed'
  BY <1>1 DEF IInv, Typed, worker, disk
<1>3. \A e \in Call : Sound(e)'
  BY <1>1, Untouched DEF IInv, worker, disk
<1> QED
  BY <1>2, <1>3 DEF IInv

-----------------------------------------------------------------------------
(* The worker: it ends, or it goes on.                                     *)

\* Nothing is left in the channel, or what is there is not waited for.
Took(c) ==
    \/ req' = To(req, c, <<>>)
    \/ /\ req' = req
       /\ pc[c] # "wait" \/ budget[c] \in expired

LEMMA TookTyped ==
  ASSUME Typed, NEW c \in Call, Took(c) PROVE req' \in [Call -> Seq(Request)]
<1>1. req \in [Call -> Seq(Request)] /\ <<>> \in Seq(Request)
  BY EmptySeq DEF Typed
<1> QED
  BY <1>1 DEF Took, To

LEMMA Finishes ==
  ASSUME IInv, NEW c \in Call, NEW code \in Codes, Finish(c, code), UNCHANGED <<host, unpacked>>,
         pc[c] \in Running \cup {"lock"}, Took(c), cache' \in {Nil, "wheel", "other"},
         site' \subseteq (1 .. Files) \ Skipped, site' = site \/ pc[c] \in Running,
         file' = file \/ (file' \in Output /\ file'.by = c)
  PROVE  IInv'
<1> USE NetAssumption DEF NetAssumption, IInv, host, Finish, To
<1>1. /\ \A e \in Call : pc'[e] = IF e = c THEN "done" ELSE pc[e]
      /\ \A e \in Call : out'[e] = IF e = c THEN code ELSE out[e]
      /\ \A e \in Call : e # c => req'[e] = req[e]
      /\ pc[c] = "lock" => req[c] = <<>>
      /\ UNCHANGED <<host, unpacked, budget>>
  BY DEF Typed, Took, Sound, Asked
<1>2. req' \in [Call -> Seq(Request)]
  BY TookTyped DEF Typed
<1>9. file' \in Output
  BY DEF Typed
<1>3. /\ pc' \in [Call -> Running \cup {"none", "lock", "done"}]
      /\ stage' \in [Call -> {"info", "wheel"}] /\ tries' \in [Call -> Nat]
      /\ out' \in [Call -> Codes \cup {Nil}] /\ holder' \in Call \cup {Nil}
  BY DEF Typed
<1>4. Typed'
  <2> HIDE DEF Finish, To
  <2> QED
    BY <1>1, <1>2, <1>3, <1>9 DEF Typed
<1>5. Made(c)' /\ Held(c)'
  BY <1>1 DEF Sound, Made, Held, Running, Codes, Call
<1>6. Asked(c)'
  <2>1. \/ req'[c] = <<>>
        \/ req'[c] = req[c] /\ pc[c] # "wait"
        \/ req'[c] = req[c] /\ budget[c] \in expired
    BY DEF Took, Typed
  <2> QED
    BY <2>1, <1>1 DEF Sound, Asked, Requests
<1>7. Written(c)'
  BY <1>1 DEF Sound, Written
<1>8. ASSUME NEW e \in Call, e # c PROVE Sound(e)'
  <2>1. (holder = e <=> holder' = e) /\ (file'.by = e => file.by = e)
    BY <1>8, <1>1, NetAssumption DEF Call
  <2>2. site' = site \/ pc[e] # "unpack"
    BY <1>8 DEF Sound, Held, Running
  <2> QED
    BY <2>1, <2>2, <1>8, <1>1, Untouched
<1> QED
  BY <1>4, <1>5, <1>6, <1>7, <1>8 DEF Sound

\* The next file of a wheel is installed, or skipped.
Unpacks(c) ==
    LET f == unpacked[c] + 1
    IN  /\ pc[c] = "unpack" /\ unpacked[c] < Files /\ unpacked' = To(unpacked, c, f)
        /\ site' = IF f \in Skipped THEN site ELSE site \cup {f}

LEMMA GoesOn ==
  ASSUME IInv, NEW c \in Call, UNCHANGED <<host, holder, budget, out, file>>,
         NEW at \in Running \ {"begin", "wait"}, pc' = To(pc, c, at), pc[c] \in Running,
         Took(c), cache' \in {Nil, "wheel", "other"},
         stage' \in [Call -> {"info", "wheel"}], tries' \in [Call -> Nat],
         at \in {"read", "unpack"} => Runs(c, {"pip"}),
         pc[c] = "unpack" => at = "unpack", UNCHANGED <<site, unpacked>> \/ Unpacks(c)
  PROVE  IInv'
<1> USE NetAssumption DEF NetAssumption, IInv, host, To
<1>1. /\ \A e \in Call : pc'[e] = IF e = c THEN at ELSE pc[e]
      /\ \A e \in Call : e # c => req'[e] = req[e] /\ unpacked'[e] = unpacked[e]
      /\ site \subseteq site'
  BY DEF Typed, Took, Unpacks
<1>2. req' \in [Call -> Seq(Request)]
  BY TookTyped DEF Typed
<1>3. site' \subseteq (1 .. Files) \ Skipped /\ unpacked' \in [Call -> 0 .. Files]
  <2>1. site \subseteq (1 .. Files) \ Skipped /\ unpacked \in [Call -> 0 .. Files]
    BY DEF Typed
  <2>2. CASE UNCHANGED <<site, unpacked>>
    BY <2>1, <2>2
  <2>3. CASE Unpacks(c)
    <3>1. unpacked[c] + 1 \in 1 .. Files /\ unpacked[c] + 1 \in 0 .. Files
      BY <2>1, <2>3 DEF Unpacks
    <3> QED
      BY <2>1, <2>3, <3>1 DEF Unpacks
  <2> QED
    BY <2>2, <2>3
<1>4. pc' \in [Call -> Running \cup {"none", "lock", "done"}]
  BY DEF Typed
<1>5. Typed'
  BY <1>2, <1>3, <1>4 DEF Typed
<1>6. Made(c)' /\ Held(c)'
  BY <1>1 DEF Sound, Made, Held, Running, Call
<1>7. Asked(c)'
  <2>1. \/ req'[c] = <<>>
        \/ req'[c] = req[c] /\ pc[c] # "wait"
        \/ req'[c] = req[c] /\ budget[c] \in expired
    BY DEF Took, Typed
  <2> QED
    BY <2>1, <1>1 DEF Sound, Asked, Requests, Running
<1>8. Written(c)'
  <2>2. Runs(c, {"pip"}) => Runs(c, {"pip"})'
    BY DEF Runs
  <2>1. CASE UNCHANGED <<site, unpacked>> /\ pc[c] = "unpack"
    BY <1>1, <2>1, <2>2 DEF Sound, Written
  <2>3. CASE UNCHANGED <<site, unpacked>> /\ pc[c] # "unpack"
    <3>1. unpacked'[c] = 0
      BY <2>3 DEF Sound, Written, Running
    <3> QED
      BY <1>1, <2>2, <3>1 DEF Sound, Written, Running
  <2>4. CASE Unpacks(c)
    <3>1. (1 .. unpacked[c]) \ Skipped \subseteq site /\ unpacked[c] \in 0 .. Files
      BY <2>4 DEF Sound, Written, Typed, Unpacks
    <3>2. unpacked'[c] = unpacked[c] + 1
      BY <2>4 DEF Typed, Unpacks
    <3>3. \A i \in 1 .. unpacked[c] + 1 : i \in 1 .. unpacked[c] \/ i = unpacked[c] + 1
      BY <3>1
    <3>4. (1 .. unpacked'[c]) \ Skipped \subseteq site'
      BY <2>4, <3>1, <3>2, <3>3 DEF Unpacks
    <3>5. pc'[c] = "unpack"
      BY <1>1, <2>4 DEF Unpacks
    <3> QED
      BY <1>1, <2>2, <2>4, <3>4, <3>5 DEF Sound, Written, Unpacks
  <2> QED
    BY <2>1, <2>3, <2>4
<1>9. ASSUME NEW e \in Call, e # c PROVE Sound(e)'
  BY <1>9, <1>1, Untouched
<1> QED
  BY <1>5, <1>6, <1>7, <1>8, <1>9 DEF Sound

\* An attempt that failed is tried again, or ends the command.
LEMMA Fails ==
  ASSUME IInv, NEW c \in Call, NEW code \in Codes, Failed(c, code), pc[c] \in Running \ {"unpack"},
         Took(c), UNCHANGED <<host, disk>>
  PROVE  IInv'
<1>1. CASE tries[c] + 1 < Attempts(c)
  <2>1. PICK at \in {"backoff", "top"} : pc' = To(pc, c, at)
    BY <1>1 DEF Failed
  <2>2. tries' \in [Call -> Nat] /\ UNCHANGED <<holder, stage, budget, out>>
    <3>1. tries \in [Call -> Nat] /\ tries' = To(tries, c, tries[c] + 1)
      BY <1>1 DEF Failed, IInv, Typed
    <3>2. tries' \in [Call -> Nat]
      BY <3>1 DEF To
    <3> QED
      BY <1>1, <3>2 DEF Failed
  <2>3. stage \in [Call -> {"info", "wheel"}] /\ cache \in {Nil, "wheel", "other"}
    BY DEF IInv, Typed
  <2> QED
    BY <2>1, <2>2, <2>3, GoesOn DEF disk, Running
<1>2. CASE ~ (tries[c] + 1 < Attempts(c))
  <2>1. PICK x \in Codes : Finish(c, x)
    BY <1>2 DEF Failed, Codes
  <2> QED
    BY <2>1, Finishes DEF disk, IInv, Typed
<1> QED
  BY <1>1, <1>2

LEMMA Taken ==
  ASSUME IInv, NEW c \in Call, pc[c] = "wait"
  PROVE  /\ Requests(c) = {1} /\ Len(req[c]) = 1
         /\ Answer(c) = req[c][1] /\ Answer(c) \in Request
         /\ Answer(c).ans = 0 => Answer(c).got = Size
         /\ Front(req[c]) = <<>>
<1>1. req[c] \in Seq(Request) /\ Len(req[c]) = 1
  BY DEF IInv, Typed, Sound, Asked
<1>2. Requests(c) = {1} /\ req[c][1] \in Request
  BY <1>1 DEF Requests
<1>3. Front(req[c]) = <<>> /\ Last(req[c]) = req[c][1]
  BY <1>1, OneTaken
<1>4. req[c][1].ans = 0 => req[c][1].got = Size
  BY <1>2 DEF IInv, Sound, Asked
<1> QED
  BY <1>1, <1>2, <1>3, <1>4 DEF Answer

\* A write that fails leaves the output, or part of what was to be written.
LEMMA Wrote ==
  ASSUME IInv, NEW c \in Call, NEW n \in 0 .. Size, NEW exact \in BOOLEAN, WriteFails(c, n, exact)
  PROVE  file' = file \/ (file' \in Output /\ CutShort(c))
<1>1. \A k \in 0 .. n - 1 : k \in 0 .. Size /\ k < Size
  BY NetAssumption DEF NetAssumption
<1> QED
  BY <1>1 DEF WriteFails, Output, CutShort

LEMMA Works ==
  ASSUME IInv, NEW c \in Call, Work(c)
  PROVE  IInv'
<1> USE NetAssumption DEF NetAssumption
<1>t. /\ pc[c] \in Running \cup {"none", "lock", "done"} /\ cache \in {Nil, "wheel", "other"}
      /\ stage \in [Call -> {"info", "wheel"}] /\ tries \in [Call -> Nat]
      /\ \A v \in {"info", "wheel"} : To(stage, c, v) \in [Call -> {"info", "wheel"}]
      /\ To(tries, c, 0) \in [Call -> Nat] /\ site \subseteq (1 .. Files) \ Skipped
  BY DEF IInv, Typed, To
<1>h. ASSUME NEW names, NEW ans, Has(c, names, ans)
      PROVE  /\ pc[c] = "wait" /\ Took(c) /\ Answer(c) \in Request /\ Answer(c).ans \in ans
             /\ Runs(c, names)
  BY <1>h, Taken DEF Has, Took
<1>1. CASE GiveWay(c)
  BY <1>1, <1>t, Finishes DEF GiveWay, disk, Took, Codes
<1>2. CASE Top(c) \/ Wake(c)
  <2>1. CASE Finish(c, 143)
    BY <1>2, <2>1, <1>t, Finishes DEF Top, Wake, disk, Took, Codes, Running
  <2>2. ASSUME NEW at \in {"backoff", "ask"}, Goes(c, at) PROVE IInv'
    BY <1>2, <2>2, <1>t, GoesOn DEF Top, Wake, Goes, disk, Took, Running
  <2> QED
    BY <1>2, <2>1, <2>2 DEF Top, Wake
<1>3. CASE GiveUp(c)
  BY <1>3, <1>t, GoesOn DEF GiveUp, Goes, disk, Took, Running
<1>4. CASE Late(c)
  BY <1>4, Fails DEF Late, Took, Codes, Running
<1>5. CASE Error(c)
  <2>1. Answer(c).ans \in Codes
    BY <1>5, <1>h DEF Error, Codes
  <2> QED
    BY <1>5, <1>h, <2>1, Fails DEF Error, Running
<1>6. CASE CurlDone(c)
  <2>1. Took(c) /\ pc[c] \in Running /\ Answer(c).got \in 0 .. Size /\ 0 \in 0 .. Size
    BY <1>6, <1>h DEF CurlDone, Running, Request
  <2>3. file' = file \/ (file' \in Output /\ file'.by = c)
    <3>1. PICK n \in 0 .. Size : file' = [by |-> c, got |-> n, exact |-> TRUE] \/ WriteFails(c, n, TRUE)
      BY <1>6, <2>1 DEF CurlDone
    <3>2. CASE file' = [by |-> c, got |-> n, exact |-> TRUE]
      BY <3>2 DEF Output
    <3> QED
      BY <3>1, <3>2, Wrote DEF CutShort
  <2>2. PICK code \in Codes : Finish(c, code)
    BY <1>6 DEF CurlDone, Codes
  <2> QED
    BY <1>6, <2>1, <2>2, <2>3, <1>t, Finishes DEF CurlDone, IInv, Typed
<1>7. CASE WgetDone(c)
  <2>1. Took(c) /\ pc[c] \in Running /\ Answer(c).got \in 0 .. Size
    BY <1>7, <1>h DEF WgetDone, Running, Request
  <2>3. file' = file \/ (file' \in Output /\ file'.by = c)
    <3>1. PICK n \in 0 .. Size :
            \/ UNCHANGED file \/ WriteFails(c, n, FALSE)
            \/ \E text \in BOOLEAN : file' = [by |-> c, got |-> n, exact |-> text]
      BY <1>7, <2>1 DEF WgetDone
    <3>2. ASSUME NEW text \in BOOLEAN, file' = [by |-> c, got |-> n, exact |-> text]
          PROVE  file' \in Output /\ file'.by = c
      BY <3>2 DEF Output
    <3> QED
      BY <3>1, <3>2, Wrote DEF CutShort
  <2>2. PICK code \in Codes : Finish(c, code)
    BY <1>7 DEF WgetDone, Codes
  <2> QED
    BY <1>7, <2>1, <2>2, <2>3, <1>t, Finishes DEF WgetDone, IInv, Typed
<1>8. CASE GotInfo(c)
  <2>1. Took(c) /\ pc[c] \in Running \ {"unpack"} /\ Runs(c, {"pip"}) /\ UNCHANGED <<host, disk>>
    BY <1>8, <1>h DEF GotInfo, Running
  <2>2. CASE Answer(c).ok
    <3>1. PICK at \in {"ask", "read"} : pc' = To(pc, c, at)
      BY <1>8, <2>2 DEF GotInfo
    <3> QED
      BY <1>8, <2>1, <2>2, <3>1, <1>t, GoesOn DEF GotInfo, Running, disk
  <2>3. CASE ~Answer(c).ok
    BY <1>8, <2>1, <2>3, <1>t, Finishes DEF GotInfo, disk, Codes
  <2> QED
    BY <2>2, <2>3
<1>9. CASE GotWheel(c)
  <2>1. Took(c) /\ pc[c] \in Running /\ Runs(c, {"pip"}) /\ cache' \in {Nil, "wheel", "other"}
        /\ UNCHANGED <<host, file, site, unpacked>>
    BY <1>9, <1>h, <1>t DEF GotWheel, Running
  <2>2. CASE Goes(c, "unpack")
    BY <2>1, <2>2, <1>t, GoesOn DEF Goes, Running
  <2>3. CASE Finish(c, 1)
    BY <2>1, <2>3, <1>t, Finishes DEF Codes
  <2> QED
    BY <1>9, <2>2, <2>3 DEF GotWheel
<1>10. CASE FromCache(c) \/ Extract(c)
  <2>1. /\ Took(c) /\ pc[c] \in {"read", "unpack"} /\ Runs(c, {"pip"})
        /\ UNCHANGED <<host, req, file, cache>>
    BY <1>10 DEF FromCache, Extract, Took, disk, IInv, Sound, Written
  <2>2. ASSUME NEW code \in {0, 1}, Finish(c, code), UNCHANGED unpacked, site' \subseteq site
        PROVE  IInv'
    BY <2>1, <2>2, <1>t, Finishes DEF Codes, Running, IInv, Typed
  <2>3. ASSUME Goes(c, "unpack"), UNCHANGED <<site, unpacked>> \/ Unpacks(c) PROVE IInv'
    BY <2>1, <2>3, <1>t, GoesOn DEF Goes, Running
  <2> QED
    BY <1>10, <2>2, <2>3 DEF FromCache, Extract, Unpacks, disk
<1>11. CASE Acquire(c)
  <2>1. /\ pc' = [pc EXCEPT ![c] = "begin"] /\ holder' = c /\ holder = Nil /\ pc[c] = "lock"
        /\ UNCHANGED <<host, stage, tries, budget, out, req, disk>>
        /\ \A e \in Call : pc'[e] = IF e = c THEN "begin" ELSE pc[e]
    BY <1>11 DEF Acquire, To, IInv, Typed
  <2>2. Typed'
    <3>1. pc' \in [Call -> Running \cup {"none", "lock", "done"}] /\ holder' \in Call \cup {Nil}
      BY <2>1 DEF IInv, Typed, Running
    <3> QED
      BY <2>1, <3>1 DEF IInv, Typed, host, disk
  <2>3. Made(c)' /\ Held(c)' /\ Asked(c)' /\ Written(c)'
    BY <2>1 DEF IInv, Sound, Made, Held, Asked, Written, Requests, host, disk, Running, Call
  <2>4. ASSUME NEW e \in Call, e # c PROVE Sound(e)'
    <3>1. holder = e <=> holder' = e
      BY <2>1, <2>4 DEF Call
    <3> QED
      BY <2>1, <2>4, <3>1, Untouched DEF IInv, host, disk
  <2> QED
    BY <2>2, <2>3, <2>4 DEF IInv, Sound
<1>12. CASE Begin(c)
  <2>1. CASE cancel
    BY <1>12, <2>1, <1>t, Finishes DEF Begin, Took, disk, Codes, Running
  <2>2. CASE ~cancel
    <3>1. PICK b \in Call \cup {Nil} : budget' = [budget EXCEPT ![c] = b]
      BY <1>12, <2>2 DEF Begin, To, IInv, Typed
    <3>2. /\ pc' = [pc EXCEPT ![c] = "top"] /\ pc[c] = "begin"
          /\ UNCHANGED <<host, holder, stage, tries, out, req, disk>>
          /\ \A e \in Call : pc'[e] = IF e = c THEN "top" ELSE pc[e]
      BY <1>12, <2>2 DEF Begin, To, IInv, Typed
    <3>3. \A e \in Call : e # c => budget'[e] = budget[e]
      BY <3>1 DEF IInv, Typed
    <3>4. Typed'
      <4>1. pc' \in [Call -> Running \cup {"none", "lock", "done"}] /\ budget' \in [Call -> Call \cup {Nil}]
        BY <3>1, <3>2 DEF IInv, Typed, Running
      <4> QED
        BY <3>2, <4>1 DEF IInv, Typed, host, disk
    <3>5. Made(c)' /\ Held(c)' /\ Asked(c)' /\ Written(c)'
      BY <3>2 DEF IInv, Sound, Made, Held, Asked, Written, Requests, host, disk, Running, Call
    <3>6. ASSUME NEW e \in Call, e # c PROVE Sound(e)'
      BY <3>2, <3>3, <3>6, Untouched DEF IInv, host, disk
    <3> QED
      BY <3>4, <3>5, <3>6 DEF IInv, Sound
  <2> QED
    BY <2>1, <2>2
<1>13. CASE Ask(c)
  <2>1. CASE budget[c] \in expired
    BY <1>13, <2>1, <1>t, GoesOn DEF Ask, Goes, disk, Took, Running
  <2>2. CASE budget[c] \notin expired
    <3>1. /\ pc' = [pc EXCEPT ![c] = "wait"] /\ pc[c] = "ask"
          /\ req' = [req EXCEPT ![c] = Append(req[c], Fresh)]
          /\ UNCHANGED <<host, holder, stage, tries, budget, out, disk>>
      BY <1>13, <2>2 DEF Ask, Goes, To
    <3>2. req[c] = <<>>
      BY <2>2, <3>1 DEF IInv, Sound, Asked
    <3>3. Fresh \in Request
      BY DEF Fresh, Request
    <3>4. Append(<<>>, Fresh) \in Seq(Request) /\ Len(Append(<<>>, Fresh)) = 1
          /\ Append(<<>>, Fresh)[1] = Fresh
      BY <3>3, OneMade
    <3>5. req' \in [Call -> Seq(Request)] /\ pc' \in [Call -> Running \cup {"none", "lock", "done"}]
      BY <3>1, <3>2, <3>4 DEF IInv, Typed, Running
    <3>6. /\ \A e \in Call : pc'[e] = IF e = c THEN "wait" ELSE pc[e]
          /\ \A e \in Call : e # c => req'[e] = req[e]
          /\ Len(req'[c]) = 1 /\ req'[c][1] = Fresh
      BY <3>1, <3>2, <3>4 DEF IInv, Typed
    <3>7. Typed'
      BY <3>1, <3>5 DEF IInv, Typed, host, disk
    <3>8. Made(c)' /\ Held(c)' /\ Written(c)'
      BY <3>1, <3>6 DEF IInv, Sound, Made, Held, Written, host, disk, Running, Call, Runs
    <3>9. Asked(c)'
      BY <3>6 DEF Asked, Requests, Fresh
    <3>10. ASSUME NEW e \in Call, e # c PROVE Sound(e)'
      BY <3>1, <3>6, <3>10, Untouched DEF IInv, host, disk
    <3> QED
      BY <3>7, <3>8, <3>9, <3>10 DEF IInv, Sound
  <2> QED
    BY <2>1, <2>2
<1> QED
  BY <1>1, <1>2, <1>3, <1>4, <1>5, <1>6, <1>7, <1>8, <1>9, <1>10, <1>11, <1>12, <1>13 DEF Work

-----------------------------------------------------------------------------
(* The request's own thread.                                               *)

LEMMA Changes ==
  ASSUME IInv, NEW c \in Call, NEW s \in Seq(Request), req' = To(req, c, s),
         UNCHANGED <<host, worker, disk>>,
         Len(s) <= 1, pc[c] = "wait" => Len(s) = 1, s # <<>> => req[c] # <<>>,
         \A k \in 1 .. Len(s) : s[k].ans = 0 => s[k].got = Size
  PROVE  IInv'
<1>1. req' \in [Call -> Seq(Request)] /\ req'[c] = s /\ \A e \in Call : e # c => req'[e] = req[e]
  BY DEF IInv, Typed, To
<1>2. Typed'
  BY <1>1 DEF IInv, Typed, host, worker, disk
<1>3. Made(c)' /\ Held(c)' /\ Written(c)'
  BY DEF IInv, Sound, Made, Held, Written, host, worker, disk, Runs
<1>4. Asked(c)'
  BY <1>1 DEF IInv, Sound, Asked, host, worker, Requests
<1>5. ASSUME NEW e \in Call, e # c PROVE Sound(e)'
  BY <1>1, <1>5, Untouched DEF IInv, host, worker, disk
<1> QED
  BY <1>2, <1>3, <1>4, <1>5 DEF IInv, Sound

\* There is one request, and it has the types.
LEMMA Only ==
  ASSUME IInv, NEW c \in Call, NEW k \in Requests(c)
  PROVE  /\ k = 1 /\ Len(req[c]) = 1 /\ req[c] \in Seq(Request) /\ req[c][1] \in Request
         /\ req[c] # <<>> /\ req \in [Call -> Seq(Request)]
<1>1. req[c] \in Seq(Request) /\ Len(req[c]) <= 1 /\ req \in [Call -> Seq(Request)]
  BY DEF IInv, Typed, Sound, Asked
<1>2. Len(req[c]) = 1 /\ k = 1 /\ req[c][1] \in Request /\ req[c] # <<>>
  BY <1>1, AtMostOne DEF Requests
<1> QED
  BY <1>1, <1>2

LEMMA BecomesStep ==
  ASSUME IInv, NEW c \in Call, NEW k \in Requests(c), NEW r \in Request, Becomes(c, k, r),
         r.ans = 0 => r.got = Size
  PROVE  IInv'
<1>1. k = 1 /\ Len(req[c]) = 1 /\ req[c] \in Seq(Request) /\ req[c] # <<>>
  BY Only
<1> DEFINE s == [req[c] EXCEPT ![1] = r]
<1>2. s \in Seq(Request) /\ Len(s) = 1 /\ s[1] = r
  BY <1>1
<1>3. req' = To(req, c, s) /\ UNCHANGED <<host, worker, disk>>
  BY <1>1 DEF Becomes, To
<1>4. \A i \in 1 .. Len(s) : s[i].ans = 0 => s[i].got = Size
  BY <1>2
<1> HIDE DEF s
<1>5. Len(s) <= 1
  BY <1>2
<1> QED
  BY <1>1, <1>2, <1>3, <1>4, <1>5, Changes

LEMMA EndsStep ==
  ASSUME IInv, NEW c \in Call, NEW k \in Requests(c), NEW ans \in {0, 1, 7, 28, 143},
         Ends(c, k, ans), ans = 0 => req[c][k].got = Size
  PROVE  IInv'
<1>1. k = 1 /\ Len(req[c]) = 1 /\ req[c][1] \in Request /\ req[c] \in Seq(Request)
  BY Only
<1>2. CASE pc[c] = "wait"
  <2> DEFINE q == req[c][k]
             n == IF ans = 0 THEN q.got ELSE 0
             r == [q EXCEPT !.pc = "ended", !.ans = ans, !.got = n]
  <2>0. q \in Request /\ (ans = 0 => q.got = Size)
    BY <1>1
  <2>2. Becomes(c, k, r)
    BY <1>1, <1>2 DEF Ends
  <2>3. n \in 0 .. Size /\ (ans = 0 => n = Size)
    BY <2>0, NetAssumption DEF Request, NetAssumption
  <2> HIDE DEF q, n
  <2>1. r \in Request /\ (r.ans = 0 => r.got = Size)
    BY <2>0, <2>3 DEF Request
  <2> HIDE DEF r
  <2> QED
    BY <2>1, <2>2, BecomesStep
<1>3. CASE pc[c] # "wait"
  <2>1. RemoveAt(req[c], k) = <<>>
    BY <1>1, OneTaken
  <2>2. req' = To(req, c, <<>>) /\ UNCHANGED <<host, worker, disk>>
    BY <1>3, <2>1 DEF Ends
  <2> DEFINE s == <<>>
  <2>3. s \in Seq(Request) /\ Len(s) <= 1 /\ \A i \in 1 .. Len(s) : FALSE
    BY EmptySeq
  <2>4. s # <<>> => req[c] # <<>>
    OBVIOUS
  <2>5. req' = To(req, c, s)
    BY <2>2
  <2> HIDE DEF s
  <2> QED
    BY <1>3, <2>2, <2>3, <2>4, <2>5, Changes
<1> QED
  BY <1>2, <1>3

LEMMA Serves ==
  ASSUME IInv, NEW c \in Call, NEW k \in Requests(c),
         Check(c, k) \/ Limit(c, k) \/ Server(c, k)
  PROVE  IInv'
<1> DEFINE r == req[c][k]
<1>1. r \in Request /\ (r.ans = 0 => r.got = Size)
  BY Only DEF IInv, Sound, Asked
<1>2. ASSUME NEW ans \in {1, 7, 28, 143}, Ends(c, k, ans) PROVE IInv'
  BY <1>2, EndsStep
<1>3. CASE Check(c, k) \/ Limit(c, k) \/ Refuse(c, k) \/ Break(c, k)
  <2>1. ASSUME Becomes(c, k, [r EXCEPT !.pc = "sent"]) PROVE IInv'
    <3>1. [r EXCEPT !.pc = "sent"] \in Request /\ [r EXCEPT !.pc = "sent"].ans = r.ans
          /\ [r EXCEPT !.pc = "sent"].got = r.got
      BY <1>1 DEF Request
    <3> HIDE DEF r
    <3> QED
      BY <1>1, <2>1, <3>1, BecomesStep
  <2> QED
    BY <1>2, <1>3, <2>1 DEF Check, Limit, Refuse, Break
<1>4. CASE Respond(c, k)
  <2>1. PICK ok \in BOOLEAN : Becomes(c, k, [r EXCEPT !.pc = "body", !.ok = ok])
    BY <1>4 DEF Respond
  <2> DEFINE q == [r EXCEPT !.pc = "body", !.ok = ok]
  <2>2. q \in Request /\ q.ans = r.ans /\ q.got = r.got
    BY <1>1 DEF Request
  <2> HIDE DEF q, r
  <2> QED
    BY <1>1, <2>1, <2>2, BecomesStep DEF q
<1>5. CASE Read(c, k)
  <2>1. CASE Cancelled(c) \/ r.got = Size
    <3>1. Ends(c, k, 143) \/ (Ends(c, k, 0) /\ r.got = Size)
      BY <1>5, <2>1 DEF Read
    <3> QED
      BY <3>1, EndsStep
  <2>2. CASE ~Cancelled(c) /\ r.got # Size
    <3> DEFINE q == [r EXCEPT !.got = @ + 1]
    <3>1. Becomes(c, k, q)
      BY <1>5, <2>2 DEF Read
    <3>2. r.ans # 0
      BY <1>1, <2>2
    <3>3. r.got + 1 \in 0 .. Size
      BY <1>1, <2>2, NetAssumption DEF Request, NetAssumption
    <3>4. q \in Request /\ q.ans = r.ans
      BY <1>1, <3>3 DEF Request
    <3> HIDE DEF q, r
    <3> QED
      BY <3>1, <3>2, <3>4, BecomesStep
  <2> QED
    BY <2>1, <2>2
<1> QED
  BY <1>3, <1>4, <1>5 DEF Server

LEMMA Steps == IInv /\ [Next]_vars => IInv'
<1> SUFFICES ASSUME IInv, [Next]_vars PROVE IInv'
  OBVIOUS
<1>1. ASSUME NEW p \in Programs, HostCall(p) PROVE IInv'
  BY <1>1, Calls
<1>2. CASE HostCancel \/ UNCHANGED vars
  BY <1>2, Hosts
<1>3. ASSUME NEW c \in Call, Expire(c) \/ TellTimeout(c) \/ Tell(c) PROVE IInv'
  BY <1>3, Hosts
<1>4. ASSUME NEW c \in Call, Work(c) PROVE IInv'
  BY <1>4, Works
<1>5. ASSUME NEW c \in Call, NEW k \in Requests(c), Check(c, k) \/ Limit(c, k) \/ Server(c, k)
      PROVE  IInv'
  BY <1>5, Serves
<1> QED
  BY <1>1, <1>2, <1>3, <1>4, <1>5 DEF Next

LEMMA Invariant == Spec => []IInv
BY Begins, Steps, PTL DEF Spec

-----------------------------------------------------------------------------
(* Theorems.                                                               *)

\* A command has one request in flight at most, whatever its retries and
\* however long the servers stall; it leaves that behind only when its deadline
\* has passed (http_request_ex: the thread is not joined, recv_timeout).
THEOREM RequestsBounded == Spec => []OneRequest
<1>1. IInv => OneRequest
  <2> SUFFICES ASSUME IInv, NEW c \in Call
               PROVE  /\ Cardinality(Live(c)) <= 1
                      /\ Live(c) # {} => pc[c] = "wait" \/ budget[c] \in expired
    BY DEF OneRequest
  <2>1. Live(c) = {} \/ Live(c) = {1}
    BY Only DEF Live
  <2>2. Cardinality(Live(c)) <= 1
    <3>1. Cardinality(Live(c)) = 0 \/ Cardinality(Live(c)) = 1
      BY <2>1, FS_EmptySet, FS_Singleton
    <3> QED
      BY <3>1
  <2>3. Live(c) # {} => req[c] # <<>>
    BY Only DEF Live
  <2> QED
    BY <2>2, <2>3 DEF IInv, Sound, Asked
<1> QED
  BY <1>1, Invariant, PTL

\* What an exit code says of the disk, for any files, pieces and retries: 0 that
\* the output is there in whole, or all of the wheel that is not skipped; 22 that
\* it is empty; another that it is as it was, or cut short by a failed write.
THEOREM ExitCodesHonest == Spec => Delivered
<1> DEFINE D(c) ==
      out[c] = Nil /\ out'[c] # Nil =>
         /\ cmd[c].prog = "pip" /\ out'[c] = 0 => site' = (1 .. Files) \ Skipped
         /\ cmd[c].prog = "curl" =>
              /\ out'[c] = 0 => file' = [by |-> c, got |-> Size, exact |-> TRUE]
              /\ out'[c] = 22 => file' = [by |-> c, got |-> 0, exact |-> TRUE]
              /\ out'[c] \notin {0, 22} => Kept(c) \/ (out'[c] = 23 /\ CutShort(c))
         /\ cmd[c].prog = "wget" =>
              IF out'[c] = 0 THEN file'.by = c /\ file'.got = Size
                             ELSE Kept(c) \/ CutShort(c)
<1>1. ASSUME IInv, NEW c \in Call, Work(c), out[c] = Nil, out'[c] # Nil PROVE D(c)
  <2>1. file.by # c /\ out \in [Call -> Codes \cup {Nil}]
    BY <1>1 DEF IInv, Typed, Sound, Made, Written
  <2>2. ASSUME NEW code, Finish(c, code) PROVE out'[c] = code
    BY <2>1, <2>2 DEF Finish, To
  <2>k. ASSUME out'[c] \in {1, 7, 28, 143}, UNCHANGED file PROVE D(c)
    <3>1. Kept(c)
      BY <2>1, <2>k DEF Kept
    <3>2. out'[c] # 0 /\ out'[c] # 22 /\ out'[c] \notin {0, 22}
      BY <2>k
    <3> QED
      BY <3>1, <3>2, Zenon
  <2>3. ASSUME NEW code \in {1, 7, 28, 143}, Failed(c, code), UNCHANGED disk PROVE D(c)
    <3>1. PICK x \in {1, 7, 28, 143} : Finish(c, x)
      BY <1>1, <2>3 DEF Failed
    <3> QED
      BY <2>2, <2>3, <2>k, <3>1 DEF disk
  <2>4. ASSUME Finish(c, 143) \/ Finish(c, 1), UNCHANGED file PROVE D(c)
    BY <2>2, <2>4, <2>k
  <2>5. ASSUME UNCHANGED out PROVE D(c)
    BY <1>1, <2>5
  <2>6. CASE GiveWay(c) \/ Acquire(c) \/ Begin(c) \/ Top(c) \/ Wake(c) \/ Ask(c) \/ GiveUp(c)
             \/ GotInfo(c) \/ FromCache(c)
    BY <2>4, <2>5, <2>6 DEF GiveWay, Acquire, Begin, Top, Wake, Ask, GiveUp, GotInfo, FromCache,
       Goes, disk
  <2>7. CASE Late(c) \/ Error(c)
    BY <2>3, <2>7 DEF Late, Error, Has
  <2>8. CASE CurlDone(c)
    <3>1. cmd[c].prog = "curl" /\ Answer(c).got = Size
      BY <1>1, <2>8, Taken DEF CurlDone, Has, Runs
    <3>2. \/ file' = [by |-> c, got |-> 0, exact |-> TRUE] /\ out'[c] = 22
          \/ file' = [by |-> c, got |-> Size, exact |-> TRUE] /\ out'[c] = 0
          \/ out'[c] = 23 /\ \E n \in {0, Size} : WriteFails(c, n, TRUE)
      BY <2>2, <2>8, <3>1 DEF CurlDone
    <3>3. 0 \in 0 .. Size /\ Size \in 0 .. Size
      BY NetAssumption DEF NetAssumption
    <3>4. (\E n \in {0, Size} : WriteFails(c, n, TRUE)) => Kept(c) \/ CutShort(c)
      BY <1>1, <2>1, <3>3, Wrote DEF Kept
    <3>5. cmd[c].prog # "pip" /\ cmd[c].prog # "wget"
      BY <3>1
    <3>6. CASE out'[c] = 23 /\ (Kept(c) \/ CutShort(c))
      <4>1. out'[c] # 0 /\ out'[c] # 22 /\ out'[c] = 23
        BY <3>6
      <4> QED
        BY <3>5, <3>6, <4>1, Zenon
    <3>7. CASE file' = [by |-> c, got |-> 0, exact |-> TRUE] /\ out'[c] = 22
      <4>1. out'[c] # 0 /\ out'[c] \in {0, 22}
        BY <3>7
      <4> QED
        BY <3>5, <3>7, <4>1, Zenon
    <3>8. CASE file' = [by |-> c, got |-> Size, exact |-> TRUE] /\ out'[c] = 0
      <4>1. out'[c] # 22 /\ out'[c] \in {0, 22}
        BY <3>8
      <4> QED
        BY <3>5, <3>8, <4>1, Zenon
    <3> QED
      BY <3>2, <3>4, <3>6, <3>7, <3>8
  <2>9. CASE WgetDone(c)
    <3>1. cmd[c].prog = "wget" /\ Answer(c).got = Size
      BY <1>1, <2>9, Taken DEF WgetDone, Has, Runs
    <3>2. CASE ~Answer(c).ok /\ Finish(c, 1) /\ UNCHANGED file
      BY <2>4, <3>2
    <3>3. CASE WriteFails(c, Answer(c).got, FALSE) /\ Finish(c, 1)
      <4>1. out'[c] # 0 /\ cmd[c].prog # "pip" /\ cmd[c].prog # "curl"
        BY <2>2, <3>1, <3>3
      <4>2. Size \in 0 .. Size
        BY NetAssumption DEF NetAssumption
      <4>3. Kept(c) \/ CutShort(c)
        BY <1>1, <2>1, <3>1, <3>3, <4>2, Wrote DEF Kept
      <4> QED
        BY <4>1, <4>3, Zenon
    <3>4. CASE /\ Finish(c, 0)
               /\ \E text \in BOOLEAN : file' = [by |-> c, got |-> Answer(c).got, exact |-> text]
      <4>1. out'[c] = 0 /\ cmd[c].prog # "pip" /\ cmd[c].prog # "curl"
        BY <2>2, <3>1, <3>4
      <4>2. file'.by = c /\ file'.got = Size
        BY <3>1, <3>4
      <4> QED
        BY <4>1, <4>2, Zenon
    <3> QED
      BY <2>9, <3>2, <3>3, <3>4 DEF WgetDone
  <2>10. CASE GotWheel(c)
    <3>1. UNCHANGED out \/ (Finish(c, 1) /\ UNCHANGED file)
      BY <2>10 DEF GotWheel, Goes
    <3> QED
      BY <2>4, <2>5, <3>1
  <2>11. CASE Extract(c)
    <3>1. /\ Runs(c, {"pip"}) /\ (1 .. unpacked[c]) \ Skipped \subseteq site
          /\ site \subseteq (1 .. Files) \ Skipped
      BY <1>1, <2>11 DEF Extract, IInv, Typed, Sound, Written
    <3>2. \/ unpacked[c] = Files /\ UNCHANGED site
          \/ out'[c] = 1
      BY <1>1, <2>2, <2>11 DEF Extract, Goes
    <3>3. out'[c] = 0 => site' = (1 .. Files) \ Skipped
      <4>1. CASE out'[c] = 1
        BY <4>1
      <4>2. CASE unpacked[c] = Files /\ UNCHANGED site
        BY <3>1, <4>2
      <4> QED
        BY <3>2, <4>1, <4>2
    <3> QED
      BY <3>1, <3>3 DEF Runs
  <2> QED
    BY <1>1, <2>6, <2>7, <2>8, <2>9, <2>10, <2>11 DEF Work
<1>2. ASSUME IInv, [Next]_vars, NEW c \in Call PROVE D(c)
  <2>1. ASSUME NEW d \in Call, Work(d), d # c PROVE out'[c] = out[c]
    <3>1. ASSUME NEW code, Finish(d, code) PROVE out'[c] = out[c]
      BY <1>2, <2>1, <3>1 DEF Finish, To, IInv, Typed
    <3>2. ASSUME NEW code, Failed(d, code) PROVE out'[c] = out[c]
      BY <3>1, <3>2 DEF Failed
    <3>3. ASSUME NEW at, Goes(d, at) PROVE out'[c] = out[c]
      BY <3>3 DEF Goes
    <3>4. CASE GiveWay(d) \/ Acquire(d) \/ Begin(d) \/ Top(d) \/ Wake(d) \/ Ask(d) \/ GiveUp(d)
      BY <3>1, <3>3, <3>4 DEF GiveWay, Acquire, Begin, Top, Wake, Ask, GiveUp
    <3>5. CASE Late(d) \/ Error(d) \/ CurlDone(d) \/ WgetDone(d)
      BY <3>1, <3>2, <3>5 DEF Late, Error, CurlDone, WgetDone
    <3>6. CASE GotInfo(d) \/ GotWheel(d) \/ FromCache(d) \/ Extract(d)
      BY <3>1, <3>3, <3>6 DEF GotInfo, GotWheel, FromCache, Extract
    <3> QED
      BY <2>1, <3>4, <3>5, <3>6 DEF Work
  <2>2. CASE \A d \in Call : ~Work(d)
    <3>1. ASSUME NEW d \in Call, NEW k \in Requests(d),
                 Check(d, k) \/ Limit(d, k) \/ Server(d, k)
          PROVE  out' = out
      BY <3>1 DEF Check, Limit, Server, Refuse, Respond, Read, Break, Ends, Becomes, worker
    <3>2. ASSUME NEW d \in Call, Expire(d) \/ TellTimeout(d) \/ Tell(d) PROVE out' = out
      BY <3>2 DEF Expire, TellTimeout, Tell, worker
    <3>3. ASSUME \/ \E p \in Programs : HostCall(p)
                 \/ HostCancel \/ UNCHANGED vars
          PROVE  out' = out
      BY <3>3 DEF HostCall, HostCancel, vars, worker
    <3> QED
      BY <1>2, <2>2, <3>1, <3>2, <3>3 DEF Next
  <2> QED
    BY <1>1, <1>2, <2>1, <2>2
<1> HIDE DEF D
<1>3. IInv /\ [Next]_vars => [\A c \in Call : D(c)]_vars
  BY <1>2
<1> QED
  BY <1>3, Invariant, PTL DEF Spec, Delivered, D
=============================================================================
