------------------------------ MODULE SdkExec ------------------------------
(***************************************************************************)
(* How a host runs a command through the SDK (src/src/sdk/mod.rs) and its  *)
(* C ABI (src/src/sdk/ffi.rs).  A host call takes the runtime, cancel and   *)
(* deadline handles under the global SDK lock, then runs the command on a   *)
(* worker thread that polls the runtime mutex while the caller waits on a   *)
(* channel with a timeout.  All calls share ONE cancel flag and ONE        *)
(* deadline slot; a caller that times out leaves its worker behind.         *)
(***************************************************************************)
EXTENDS Naturals, FiniteSets

CONSTANTS
    Call,        \* host threads, each making one call that runs a command
    Admin,       \* host threads, each making one other SDK call
    Kinds,       \* the entry points the host uses
    Bodies,      \* what the commands do
    AdminOps,    \* AdminOps[a]: the calls a may make
    MaxInit,     \* bound: how often the SDK is initialised
    Concurrent,  \* do the host's calls overlap?
    MayPanic,    \* may a builtin panic?
    Nil,         \* no holder, no deadline (0), no result yet
    Root         \* the initial working directory "/"

WorkerKinds == {"exec", "execIn", "override"}   \* timeout > 0, own thread
InKinds     == {"execIn", "inlineIn"}           \* run in a given directory
InlineKinds == {"inline", "inlineIn"}           \* timeout 0, host thread
AllKinds    == WorkerKinds \cup InlineKinds \cup {"python"}

\* short: finishes by itself; loop: only ends when it sees the cancel flag
\* (sleep, while true); net: a socket wait bounded by the captured deadline;
\* deaf: long work that polls nothing.
AllBodies   == {"short", "loop", "net", "deaf"}
AllAdminOps == {"init", "cancel", "handle", "submit", "shutdown"}
Codes   == {"ok", "error", "timeout", "panic", "cancelled"} \* 0 1 124 134 143

ASSUME SdkAssumption ==
    /\ Kinds \subseteq AllKinds /\ Bodies \subseteq AllBodies
    /\ AdminOps \in [Admin -> SUBSET AllAdminOps]
    /\ MaxInit \in Nat
    /\ Concurrent \in BOOLEAN /\ MayPanic \in BOOLEAN
    /\ Call \cap Admin = {}
    /\ Nil \notin Call \cup Admin \cup Codes
    /\ Root \notin Call

Runtime == 0 .. MaxInit      \* 0 is the runtime of Fastshell::new
Dir     == Call \cup {Root}  \* c stands for the directory call c goes to

VARIABLES
    cancel,       \* Fastshell.cancel_flag
    deadline,     \* Fastshell.deadline_flag: the call that armed it last
    current,      \* Fastshell.runtime: which runtime the handle points to
    initialized,  \* Fastshell.initialized
    sdk,          \* the thread holding SDK_INSTANCE across a blocking call
    admin,        \* admin[a]: progress of the SDK call of a
    holder,       \* holder[r]: the call holding the mutex of runtime r
    cwd,          \* cwd[r]: Shell.cwd of runtime r
    host,         \* host[c]: program counter of the calling thread
    kind, body,   \* kind[c], body[c]: entry point and command of c
    rt,           \* rt[c]: the runtime handle c took
    expired,      \* the calls whose timeout has elapsed
    worker,       \* worker[c]: program counter of the thread running c
    saved,        \* saved[c]: cwd to restore (execute_with_cwd)
    budget,       \* budget[c]: the deadline a network wait captured
    out,          \* out[c]: exit code the command of c computed
    chan,         \* chan[c]: message in the result channel
    result        \* result[c]: what the host got

shared == <<cancel, deadline>>
front  == <<current, initialized, sdk, admin>>
rtvars == <<holder, cwd>>
caller == <<host, kind, body, rt, expired, result>>
thread == <<worker, saved, budget, out, chan>>
vars   == <<shared, front, rtvars, caller, thread>>

HostPcs   == {"idle", "open", "half", "recv", "late", "inline", "returned"}
WorkerPcs == {"none", "poll", "try", "got", "drop", "tell", "lock", "cd",
              "body", "net", "send", "unlock", "done"}
AdminPcs  == {"idle", "submit", "shutdown", "asking", "cancelled", "done"}

Init ==
    /\ cancel = FALSE /\ deadline = Nil
    /\ current = 0 /\ initialized = FALSE /\ sdk = Nil
    /\ admin = [a \in Admin |-> "idle"]
    /\ holder = [r \in Runtime |-> Nil]
    /\ cwd = [r \in Runtime |-> Root]
    /\ host = [c \in Call |-> "idle"]
    /\ kind \in [Call -> Kinds] /\ body \in [Call -> Bodies]
    /\ rt = [c \in Call |-> 0]
    /\ expired = {}
    /\ worker = [c \in Call |-> "none"]
    /\ saved = [c \in Call |-> Root]
    /\ budget = [c \in Call |-> Nil]
    /\ out = [c \in Call |-> Nil]
    /\ chan = [c \in Call |-> Nil]
    /\ result = [c \in Call |-> Nil]

Timed(c)  == kind[c] \in WorkerKinds
InFlight(c) == host[c] \notin {"idle", "returned"}

-----------------------------------------------------------------------------
(* The calling thread.                                                     *)

\* sdk_handles: a short lock of SDK_INSTANCE; without init() the call fails.
Open(c) ==
    /\ host[c] = "idle" /\ sdk = Nil
    /\ Concurrent \/ \A d \in Call : ~InFlight(d)
    /\ IF initialized
       THEN /\ host' = [host EXCEPT ![c] = "open"]
            /\ rt' = [rt EXCEPT ![c] = current]
            /\ UNCHANGED result
       ELSE /\ host' = [host EXCEPT ![c] = "returned"]
            /\ result' = [result EXCEPT ![c] = "error"]
            /\ UNCHANGED rt
    /\ UNCHANGED <<shared, front, rtvars, thread, kind, body, expired>>

Spawn(c) ==
    /\ host' = [host EXCEPT ![c] = "recv"]
    /\ worker' = [worker EXCEPT ![c] = "poll"]

\* arm_deadline is the first store of execute[_in]_with_runtime and the
\* second one of Fastshell::execute_with_timeout; timeout 0 stores 0.
Arm(c) ==
    /\ kind[c] # "python"
    /\ IF kind[c] = "override"
       THEN /\ host[c] = "half" /\ Spawn(c) /\ deadline' = c
       ELSE /\ host[c] = "open"
            /\ IF Timed(c)
               THEN /\ deadline' = c
                    /\ host' = [host EXCEPT ![c] = "half"]
                    /\ UNCHANGED worker
               ELSE /\ deadline' = Nil
                    /\ host' = [host EXCEPT ![c] = "inline"]
                    /\ worker' = [worker EXCEPT ![c] = "lock"]
    /\ UNCHANGED <<cancel, front, rtvars, kind, body, rt, expired, result,
                   saved, budget, out, chan>>

\* Mutant of Reset: the flag is not cleared before the worker starts.
ResetKeepsFlag(c) ==
    /\ Timed(c)
    /\ IF kind[c] = "override"
       THEN /\ host[c] = "open"
            /\ host' = [host EXCEPT ![c] = "half"]
            /\ UNCHANGED worker
       ELSE host[c] = "half" /\ Spawn(c)
    /\ UNCHANGED <<shared, front, rtvars, kind, body, rt, expired, result,
                   saved, budget, out, chan>>

\* cancel.store(false): what an earlier caller stored there is forgotten.
Reset(c) ==
    /\ Timed(c)
    /\ cancel' = FALSE
    /\ IF kind[c] = "override"
       THEN /\ host[c] = "open"
            /\ host' = [host EXCEPT ![c] = "half"]
            /\ UNCHANGED worker
       ELSE host[c] = "half" /\ Spawn(c)
    /\ UNCHANGED <<deadline, front, rtvars, kind, body, rt, expired, result,
                   saved, budget, out, chan>>

\* execute_python[_script]_with_runtime: no deadline, no flag, no thread.
StartPython(c) ==
    /\ host[c] = "open" /\ kind[c] = "python"
    /\ host' = [host EXCEPT ![c] = "inline"]
    /\ worker' = [worker EXCEPT ![c] = "lock"]
    /\ UNCHANGED <<shared, front, rtvars, kind, body, rt, expired, result,
                   saved, budget, out, chan>>

\* The timeout of c elapses, for its recv_timeout and for its deadline, which
\* another call may have captured and which outlives c.
Expire(c) ==
    /\ Timed(c) /\ worker[c] # "none" /\ c \notin expired
    /\ expired' = expired \cup {c}
    /\ UNCHANGED <<shared, front, rtvars, thread, host, kind, body, rt, result>>

Return(c, code) ==
    /\ host' = [host EXCEPT ![c] = "returned"]
    /\ result' = [result EXCEPT ![c] = code]

\* recv_timeout returns the worker's message ...
RecvResult(c) ==
    /\ host[c] = "recv" /\ chan[c] # Nil
    /\ Return(c, chan[c])
    /\ UNCHANGED <<shared, front, rtvars, thread, kind, body, rt, expired>>

\* Mutant of RecvTimeout: the caller joins its worker first.
RecvTimeoutJoins(c) ==
    /\ host[c] = "recv" /\ c \in expired /\ chan[c] = Nil
    /\ worker[c] = "done"
    /\ host' = [host EXCEPT ![c] = "late"]
    /\ UNCHANGED <<shared, front, rtvars, thread, kind, body, rt, expired, result>>

\* ... or Timeout, if there is none ...
RecvTimeout(c) ==
    /\ host[c] = "recv" /\ c \in expired /\ chan[c] = Nil
    /\ host' = [host EXCEPT ![c] = "late"]
    /\ UNCHANGED <<shared, front, rtvars, thread, kind, body, rt, expired, result>>

\* ... after which the caller stores the cancel flag and reports 124.
GiveUp(c) ==
    /\ host[c] = "late"
    /\ cancel' = TRUE
    /\ Return(c, "timeout")
    /\ UNCHANGED <<deadline, front, rtvars, thread, kind, body, rt, expired>>

\* Mutant of InlineReturn: the exit code is dropped.
InlineReturnOk(c) ==
    /\ host[c] = "inline" /\ worker[c] = "done"
    /\ Return(c, "ok")
    /\ UNCHANGED <<shared, front, rtvars, thread, kind, body, rt, expired>>

\* The return of a call that ran on the host thread.
InlineReturn(c) ==
    /\ host[c] = "inline" /\ worker[c] = "done"
    /\ Return(c, out[c])
    /\ UNCHANGED <<shared, front, rtvars, thread, kind, body, rt, expired>>

-----------------------------------------------------------------------------
(* The worker thread.                                                      *)

Goto(c, pc) == worker' = [worker EXCEPT ![c] = pc]

\* Every round of the acquire loop first reads the cancel flag.
Poll(c) ==
    /\ worker[c] = "poll"
    /\ Goto(c, IF cancel THEN "tell" ELSE "try")
    /\ UNCHANGED <<shared, front, rtvars, caller, saved, budget, out, chan>>

\* try_lock; on WouldBlock the worker sleeps 50 ms and polls again.
TryLock(c) ==
    /\ worker[c] = "try"
    /\ IF holder[rt[c]] = Nil
       THEN /\ holder' = [holder EXCEPT ![rt[c]] = c] /\ Goto(c, "got")
       ELSE /\ UNCHANGED holder /\ Goto(c, "poll")
    /\ UNCHANGED <<shared, front, cwd, caller, saved, budget, out, chan>>

FirstStep(c) == IF kind[c] \in InKinds THEN "cd" ELSE "body"

\* The flag is read once more under the lock, before the command starts.
Recheck(c) ==
    /\ worker[c] = "got"
    /\ Goto(c, IF cancel THEN "drop" ELSE FirstStep(c))
    /\ UNCHANGED <<shared, front, rtvars, caller, saved, budget, out, chan>>

\* Mutant of BlockingLock: the host thread does not wait for the mutex.
BlockingLockAlways(c) ==
    /\ worker[c] = "lock"
    /\ holder' = [holder EXCEPT ![rt[c]] = c]
    /\ Goto(c, FirstStep(c))
    /\ UNCHANGED <<shared, front, cwd, caller, saved, budget, out, chan>>

\* runtime.lock() of the calls that run on the host thread.
BlockingLock(c) ==
    /\ worker[c] = "lock" /\ holder[rt[c]] = Nil
    /\ holder' = [holder EXCEPT ![rt[c]] = c]
    /\ Goto(c, FirstStep(c))
    /\ UNCHANGED <<shared, front, cwd, caller, saved, budget, out, chan>>

\* drop(runtime) of a worker cancelled between try_lock and the command.
Drop(c) ==
    /\ worker[c] = "drop"
    /\ holder' = [holder EXCEPT ![rt[c]] = Nil]
    /\ Goto(c, "tell")
    /\ UNCHANGED <<shared, front, cwd, caller, saved, budget, out, chan>>

\* The worker answers 143 for a command it never started.
Tell(c) ==
    /\ worker[c] = "tell"
    /\ chan' = [chan EXCEPT ![c] = "cancelled"]
    /\ Goto(c, "done")
    /\ UNCHANGED <<shared, front, rtvars, caller, saved, budget, out>>

AfterBody(c) == IF Timed(c) THEN "send" ELSE "unlock"

\* The command of c is over with this exit code, its runtime in directory d.
Finish(c, code, d) ==
    /\ out' = [out EXCEPT ![c] = code]
    /\ cwd' = [cwd EXCEPT ![rt[c]] = d]
    /\ Goto(c, AfterBody(c))

\* execute_with_cwd saves the cwd and runs `cd dir`; a cd that fails or that
\* sees the cancel flag ends the call there.
EnterDir(c) ==
    /\ worker[c] = "cd"
    /\ \/ /\ cancel /\ Finish(c, "cancelled", cwd[rt[c]])
          /\ UNCHANGED saved
       \/ /\ ~cancel /\ Finish(c, "error", cwd[rt[c]])
          /\ UNCHANGED saved
       \/ /\ ~cancel
          /\ saved' = [saved EXCEPT ![c] = cwd[rt[c]]]
          /\ cwd' = [cwd EXCEPT ![rt[c]] = c]
          /\ Goto(c, "body")
          /\ UNCHANGED out
    /\ UNCHANGED <<shared, front, holder, caller, budget, chan>>

\* Mutant of Restored: execute_with_cwd does not restore the directory.
RestoredNever(c) == cwd[rt[c]]

\* The directory of the runtime once the command of c is over.
Restored(c) == IF kind[c] \in InKinds THEN saved[c] ELSE cwd[rt[c]]

Executing(c) == worker[c] \in {"body", "net"}
Python(c)    == kind[c] = "python"

\* A segment of a script: `cd` moves the shared cwd and the script goes on.
RunSegment(c) ==
    /\ worker[c] = "body" /\ ~Python(c) /\ body[c] \in {"short", "loop"}
    /\ ~cancel /\ cwd[rt[c]] # c
    /\ cwd' = [cwd EXCEPT ![rt[c]] = c]
    /\ UNCHANGED <<shared, front, holder, caller, thread>>

\* Mutant of ObserveCancel: a loop does not poll the flag.
ObserveCancelNotInLoops(c) ==
    /\ worker[c] = "body" /\ ~Python(c) /\ cancel
    /\ body[c] \notin {"deaf", "loop"}
    /\ Finish(c, "cancelled", Restored(c))
    /\ UNCHANGED <<shared, front, holder, caller, saved, budget, chan>>

\* Shell::execute and the segment loop answer 143 once the flag is set.
ObserveCancel(c) ==
    /\ worker[c] = "body" /\ ~Python(c) /\ cancel
    /\ body[c] # "deaf"
    /\ Finish(c, "cancelled", Restored(c))
    /\ UNCHANGED <<shared, front, holder, caller, saved, budget, chan>>

EndShort(c) ==
    /\ worker[c] = "body" /\ ~Python(c) /\ body[c] = "short" /\ ~cancel
    /\ Finish(c, "ok", Restored(c))
    /\ UNCHANGED <<shared, front, holder, caller, saved, budget, chan>>

\* curl, wget and ping read the deadline slot when they start ...
StartNet(c) ==
    /\ worker[c] = "body" /\ ~Python(c) /\ body[c] = "net" /\ ~cancel
    /\ budget' = [budget EXCEPT ![c] = deadline]
    /\ Goto(c, "net")
    /\ UNCHANGED <<shared, front, rtvars, caller, saved, out, chan>>

\* ... and then wait for the peer or for that deadline, not for the flag.
NetAnswer(c) ==
    /\ worker[c] = "net"
    /\ Finish(c, "ok", Restored(c))
    /\ UNCHANGED <<shared, front, holder, caller, saved, budget, chan>>

NetAbort(c) ==
    /\ worker[c] = "net" /\ budget[c] \in expired
    /\ Finish(c, "error", Restored(c))
    /\ UNCHANGED <<shared, front, holder, caller, saved, budget, chan>>

EndDeaf(c) ==
    /\ worker[c] = "body" /\ (Python(c) \/ body[c] = "deaf")
    /\ Finish(c, "ok", Restored(c))
    /\ UNCHANGED <<shared, front, holder, caller, saved, budget, chan>>

\* Mutant of Panic: a worker that panicked tries its command again.
PanicRetries(c) ==
    /\ MayPanic /\ Executing(c) /\ Timed(c)
    /\ holder' = [holder EXCEPT ![rt[c]] = Nil]
    /\ Goto(c, "poll")
    /\ UNCHANGED <<shared, front, cwd, caller, saved, budget, out, chan>>

\* guarded_execute (worker) or the C ABI guard (host thread, which poisons
\* the mutex: into_inner recovers it) catches a panic; nothing is restored.
Panic(c) ==
    /\ MayPanic /\ Executing(c)
    /\ Finish(c, IF Timed(c) THEN "panic" ELSE "error", cwd[rt[c]])
    /\ UNCHANGED <<shared, front, holder, caller, saved, budget, chan>>

\* The result is sent before the guard of the runtime mutex is dropped.
Send(c) ==
    /\ worker[c] = "send"
    /\ chan' = [chan EXCEPT ![c] = out[c]]
    /\ Goto(c, "unlock")
    /\ UNCHANGED <<shared, front, rtvars, caller, saved, budget, out>>

Unlock(c) ==
    /\ worker[c] = "unlock"
    /\ holder' = [holder EXCEPT ![rt[c]] = Nil]
    /\ Goto(c, "done")
    /\ UNCHANGED <<shared, front, cwd, caller, saved, budget, out, chan>>

-----------------------------------------------------------------------------
(* The other SDK calls.                                                    *)

AdminGoto(a, pc) == admin' = [admin EXCEPT ![a] = pc]

\* fastshell_init: a new runtime; the cancel flag and the deadline slot are
\* kept and calls in flight keep the runtime they took.
InitSdk(a) ==
    /\ "init" \in AdminOps[a] /\ admin[a] = "idle" /\ sdk = Nil
    /\ current < MaxInit
    /\ current' = current + 1 /\ initialized' = TRUE
    /\ AdminGoto(a, "done")
    /\ UNCHANGED <<shared, rtvars, caller, thread, sdk>>

\* fastshell_cancel_execution locks SDK_INSTANCE to reach the flag.
AskCancel(a) ==
    /\ "cancel" \in AdminOps[a] /\ admin[a] = "idle"
    /\ AdminGoto(a, "asking")
    /\ UNCHANGED <<shared, rtvars, caller, thread, current, initialized, sdk>>

DoCancel(a) ==
    /\ admin[a] = "asking" /\ sdk = Nil
    /\ cancel' = TRUE
    /\ AdminGoto(a, "cancelled")
    /\ UNCHANGED <<deadline, rtvars, caller, thread, current, initialized, sdk>>

\* A host that kept cancel_handle() stores into it with no lock at all.
CancelHandle(a) ==
    /\ "handle" \in AdminOps[a] /\ admin[a] = "idle"
    /\ cancel' = TRUE
    /\ AdminGoto(a, "cancelled")
    /\ UNCHANGED <<deadline, rtvars, caller, thread, current, initialized, sdk>>

\* fastshell_submit_task and fastshell_start_agent_server hold SDK_INSTANCE
\* while they wait for the runtime mutex; so does a Rust host that keeps its
\* Fastshell in a mutex and calls shutdown, or reads a file (mod.rs:493-557).
TakeSdk(a) ==
    /\ admin[a] = "idle" /\ sdk = Nil
    /\ \/ /\ "submit" \in AdminOps[a]
          /\ AdminGoto(a, "submit") /\ UNCHANGED initialized
       \/ /\ "shutdown" \in AdminOps[a]
          /\ AdminGoto(a, "shutdown") /\ initialized' = FALSE
    /\ sdk' = a
    /\ UNCHANGED <<shared, rtvars, caller, thread, current>>

UseRuntime(a) ==
    /\ admin[a] \in {"submit", "shutdown"} /\ holder[current] = Nil
    /\ sdk' = Nil
    /\ AdminGoto(a, "done")
    /\ UNCHANGED <<shared, rtvars, caller, thread, current, initialized>>

-----------------------------------------------------------------------------

HostStep(c) ==
    \/ Arm(c) \/ Reset(c) \/ StartPython(c) \/ RecvResult(c)
    \/ RecvTimeout(c) \/ GiveUp(c) \/ InlineReturn(c)

\* What the thread of c does by itself; peers, panics and deaf code are not.
WorkerStep(c) ==
    \/ Poll(c) \/ TryLock(c) \/ Recheck(c) \/ BlockingLock(c) \/ Drop(c)
    \/ Tell(c) \/ EnterDir(c) \/ ObserveCancel(c) \/ EndShort(c)
    \/ StartNet(c) \/ NetAbort(c) \/ Send(c) \/ Unlock(c)

AdminStep(a) ==
    \/ InitSdk(a) \/ AskCancel(a) \/ DoCancel(a) \/ CancelHandle(a)
    \/ TakeSdk(a) \/ UseRuntime(a)

Next ==
    \/ \E c \in Call :
         \/ Open(c) \/ Expire(c) \/ HostStep(c) \/ WorkerStep(c)
         \/ RunSegment(c) \/ NetAnswer(c) \/ EndDeaf(c) \/ Panic(c)
    \/ \E a \in Admin : AdminStep(a)

Spec == Init /\ [][Next]_vars

\* Threads that can run do run and clocks advance.  The host need not call
\* anything, peers need not answer, and deaf code need not end.
Fairness ==
    /\ \A c \in Call : /\ WF_vars(Expire(c)) /\ WF_vars(HostStep(c))
                       /\ WF_vars(WorkerStep(c))
    /\ \A a \in Admin : WF_vars(DoCancel(a)) /\ WF_vars(UseRuntime(a))

FairSpec == Spec /\ Fairness
-----------------------------------------------------------------------------
(* Properties.                                                             *)

TypeOK ==
    /\ cancel \in BOOLEAN /\ deadline \in Call \cup {Nil}
    /\ current \in Runtime /\ initialized \in BOOLEAN
    /\ sdk \in Admin \cup {Nil} /\ admin \in [Admin -> AdminPcs]
    /\ holder \in [Runtime -> Call \cup {Nil}] /\ cwd \in [Runtime -> Dir]
    /\ host \in [Call -> HostPcs]
    /\ kind \in [Call -> Kinds] /\ body \in [Call -> Bodies]
    /\ rt \in [Call -> Runtime] /\ expired \in SUBSET Call
    /\ worker \in [Call -> WorkerPcs] /\ saved \in [Call -> Dir]
    /\ budget \in [Call -> Call \cup {Nil}]
    /\ out \in [Call -> Codes \cup {Nil}] /\ chan \in [Call -> Codes \cup {Nil}]
    /\ result \in [Call -> Codes \cup {Nil}]

Holds(c) ==
    worker[c] \in {"got", "drop", "cd", "body", "net", "send", "unlock"}

\* The runtime mutex serialises commands: whoever executes holds the mutex of
\* its own runtime, nobody else does, and a finished thread holds nothing -
\* orphans of timed-out calls, blocking callers and panics included.
LockExact ==
    \A c \in Call, r \in Runtime : holder[r] = c <=> Holds(c) /\ rt[c] = r

RuntimeExclusive ==
    /\ LockExact
    /\ \A c, d \in Call : Executing(c) /\ Executing(d) /\ rt[c] = rt[d] => c = d

\* What the host is told is final unless it is a timeout: the command of the
\* call is over and no longer touches the runtime, and the code is the one it
\* computed, or 143 for a command that was never started.
AnswerIsFinal ==
    \A c \in Call :
        result[c] # Nil /\ result[c] # "timeout" /\ worker[c] # "none" =>
            /\ worker[c] \in {"unlock", "done"}
            /\ result[c] = IF out[c] = Nil THEN "cancelled" ELSE out[c]

\* Why AnswerIsFinal is inductive: how far the worker is decides what it has
\* computed and sent, and how far the caller is decides whether it has one.
ProtocolOf(c) ==
    /\ worker[c] \notin {"send", "unlock", "done"} =>
           out[c] = Nil /\ chan[c] = Nil
    /\ worker[c] = "send" => Timed(c) /\ out[c] # Nil /\ chan[c] = Nil
    /\ worker[c] = "unlock" =>
           out[c] # Nil /\ chan[c] = IF Timed(c) THEN out[c] ELSE Nil
    /\ worker[c] = "done" =>
           IF Timed(c)
           THEN chan[c] = IF out[c] = Nil THEN "cancelled" ELSE out[c]
           ELSE out[c] # Nil /\ chan[c] = Nil
    /\ worker[c] \in {"poll", "try", "got", "drop", "tell"} => Timed(c)
    /\ worker[c] = "lock" => ~Timed(c)
    /\ host[c] \in {"idle", "open", "half"} => worker[c] = "none"
    /\ host[c] \in {"recv", "late"} => Timed(c) /\ worker[c] # "none"
    /\ host[c] = "inline" => ~Timed(c) /\ worker[c] # "none"
    /\ result[c] # Nil <=> host[c] = "returned"

Protocol == \A c \in Call : ProtocolOf(c)

\* fastshell_execute_in: "the shared cwd is never left polluted".  A runtime
\* nobody uses is never in a directory that only an execute_in call visited.
CwdNotPolluted ==
    \A r \in Runtime :
        holder[r] = Nil => cwd[r] = Root \/ kind[cwd[r]] \notin InKinds

CancelsAsked == {a \in Admin : admin[a] = "cancelled"}
Cancelled    == {c \in Call : result[c] = "cancelled"}

\* cancel_execution: "Cancel the currently executing command".  With a host
\* that runs one call at a time, one cancellation ends one call at most, and no
\* cancellation ends none: the flag a timed-out caller leaves behind is cleared before the next
\* worker can read it.
OneVictimPerCancel == Cardinality(Cancelled) <= Cardinality(CancelsAsked)

Started(c) == Executing(c) \/ out[c] # Nil

\* A command whose caller was told 124 before it started is never started:
\* the host may retry it ("124 => timeout - inform agent or retry").
NoGhostRun ==
    [][\A c \in Call :
          result[c] = "timeout" /\ ~Started(c) => ~Started(c)']_vars

\* A call with a timeout returns, whatever its command and the others do.
TimedCallsReturn ==
    \A c \in Call : (host[c] = "open" /\ Timed(c)) ~> (host[c] = "returned")

\* The worker a timed-out caller leaves behind lets go of the runtime unless
\* somebody clears the cancel flag in the meantime.
OrphanEnds ==
    \A c \in Call : (result[c] = "timeout") ~> (~Holds(c) \/ ~cancel)

\* Why a cancellation may never be carried out: a timed-out command runs on
\* because a later call has cleared the flag under it (mod.rs:80, 150, 369).
Revived == \E c \in Call : result[c] = "timeout" /\ Holds(c) /\ ~cancel

\* A cancellation is carried out, though submit_task and start_agent_server wait
\* for the runtime with SDK_INSTANCE in their hands (ffi.rs:642, 666): unless it
\* is revived, the command they wait for ends when its call gives up (mod.rs:122).
CancelComesThrough ==
    (\E a \in Admin : admin[a] = "asking") ~>
        (Revived \/ \A a \in Admin : admin[a] # "asking")

-----------------------------------------------------------------------------
(* The promise to the host, HostContract, implemented by this protocol.    *)

PhaseOf(c) ==
    IF out[c] # Nil THEN "over"
    ELSE IF worker[c] \in {"cd", "body", "net"} THEN "running"
    ELSE IF \/ worker[c] \in {"tell", "done"}
            \/ worker[c] = "none" /\ result[c] # Nil THEN "refused"
    ELSE "waiting"

phase == [c \in Call |-> PhaseOf(c)]

HC == INSTANCE HostContract WITH Place <- Runtime, place <- rt,
                                 answer <- result, outcome <- out

\* Every behaviour of the protocol is one the contract allows: a command runs
\* at most once, alone on its runtime, and the answer is its outcome, a
\* refusal of a command that never ran, or a timeout.
Contract == HC!Spec
=============================================================================
