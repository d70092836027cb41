---------------------------- MODULE DeviceBridge ----------------------------
(***************************************************************************)
(* Device commands (camera, location, ...) reach the host application      *)
(* through one registered callback (src/src/sdk/device_callback.rs).  A     *)
(* command holds the plugin mutex of its SDK instance while it waits, up to *)
(* a timeout, for the host: a synchronous callback runs on a thread of its  *)
(* own that may be abandoned; an asynchronous one gets a request id and the *)
(* host answers from any thread, at any time, any number of times.         *)
(***************************************************************************)
EXTENDS Naturals

CONSTANTS
    Call,        \* threads, each making one device call
    Responder,   \* host threads that answer asynchronous requests
    Host,        \* host threads, each making one SDK call of HostOps
    HostOps,     \* the SDK calls the host makes
    MaxInit,     \* bound: how often the SDK is initialised
    MaxId,       \* bound: how many request ids are handed out
    Overlap,     \* may registrations overlap?
    TimedOut, Unsupported,   \* how a call may end but for an answer
    Nil

RegisterOps == {"setSync", "clearSync", "setAsync", "clearAsync"}
Id      == 1 .. MaxId
Slot    == 0 .. MaxInit                    \* plugin_ref of each runtime
Plugins == {"none", "sync", "async"}
Answers == Call \cup {TimedOut, Unsupported}  \* c: the answer to c

ASSUME DeviceAssumption ==
    /\ HostOps \subseteq RegisterOps \cup {"init"}
    /\ MaxInit \in Nat /\ MaxId \in Nat
    /\ Overlap \in BOOLEAN
    /\ Nil \notin Call \cup Host \cup Answers
    /\ TimedOut \notin Call /\ Unsupported \notin Call
    /\ Call \cap Host = {}

VARIABLES
    cbSync, cbAsync,  \* DEVICE_CB, DEVICE_CB_ASYNC: is a callback set?
    plugin,           \* plugin[s]: what the slot of runtime s holds
    lock,             \* lock[s]: the thread holding the mutex of slot s
    current,          \* the slot of the SDK's current runtime
    sdk,              \* the host thread holding SDK_INSTANCE
    nextId,           \* NEXT_REQUEST_ID
    pending,          \* pending[i]: the call that waits for request i
    known,            \* the requests handed to the host: id, and who asks
    pc, slot, req,    \* pc[c], slot[c], req[c]: where c is, its slot and id
    chan,             \* chan[c]: the call the message in c's channel answers
    result,           \* result[c]: how c ended
    thread,           \* the calls whose synchronous callback is running
    hand,             \* hand[h]: whose channel h took, and whom it answers
    op, hpc, found    \* op[g], hpc[g], found[g]: SDK call of g, and what it read

globals  == <<cbSync, cbAsync>>
requests == <<nextId, pending, known, chan, thread, hand>>
calls    == <<pc, slot, req, result>>
hosts    == <<op, hpc, found>>
vars     == <<globals, plugin, lock, current, sdk, requests, calls, hosts>>

Init ==
    /\ cbSync = FALSE /\ cbAsync = FALSE
    /\ plugin = [s \in Slot |-> "none"] /\ lock = [s \in Slot |-> Nil]
    /\ current = 0 /\ sdk = Nil
    /\ nextId = 1 /\ pending = [i \in Id |-> Nil] /\ known = {}
    /\ pc = [c \in Call |-> "idle"] /\ slot = [c \in Call |-> 0]
    /\ req = [c \in Call |-> 0]
    /\ chan = [c \in Call |-> Nil] /\ result = [c \in Call |-> Nil]
    /\ thread = {} /\ hand = [h \in Responder |-> Nil]
    /\ op \in [Host -> HostOps]
    /\ hpc = [g \in Host |-> "idle"] /\ found = [g \in Host |-> "none"]

-----------------------------------------------------------------------------
(* A device command.                                                       *)

Goto(c, p) == pc' = [pc EXCEPT ![c] = p]

\* The call returns and drops its guard of the plugin mutex.
End(c, answer) ==
    /\ Goto(c, "done")
    /\ result' = [result EXCEPT ![c] = answer]
    /\ lock' = [lock EXCEPT ![slot[c]] = Nil]

\* plugin(): the mutex of the slot of the runtime the command runs on, which
\* may be one that init() has replaced since.
Acquire(c, s) ==
    /\ pc[c] = "idle" /\ s <= current /\ lock[s] = Nil
    /\ lock' = [lock EXCEPT ![s] = c]
    /\ slot' = [slot EXCEPT ![c] = s]
    /\ Goto(c, plugin[s])
    /\ UNCHANGED <<globals, plugin, current, sdk, requests, req, result, hosts>>

NotRegistered(c) ==
    /\ pc[c] = "none"
    /\ End(c, Unsupported)
    /\ UNCHANGED <<globals, plugin, current, sdk, requests, slot, req, hosts>>

\* call_sync: the callback runs on a thread of its own.
CallSync(c) ==
    /\ pc[c] = "sync"
    /\ thread' = thread \cup {c}
    /\ Goto(c, "wait")
    /\ UNCHANGED <<globals, plugin, lock, current, sdk, nextId, pending, known,
                   chan, hand, slot, req, result, hosts>>

\* Mutant of TakeId: the id is read but not advanced.
TakeIdTwice(c) ==
    /\ pc[c] = "async" /\ nextId <= MaxId
    /\ req' = [req EXCEPT ![c] = nextId]
    /\ Goto(c, "insert")
    /\ UNCHANGED <<globals, plugin, lock, current, sdk, requests, slot, result,
                   hosts>>

\* call_async: fetch_add, then the insert under the mutex of the registry ...
TakeId(c) ==
    /\ pc[c] = "async" /\ nextId <= MaxId
    /\ req' = [req EXCEPT ![c] = nextId]
    /\ nextId' = nextId + 1
    /\ Goto(c, "insert")
    /\ UNCHANGED <<globals, plugin, lock, current, sdk, pending, known, chan,
                   thread, hand, slot, result, hosts>>

Insert(c) ==
    /\ pc[c] = "insert"
    /\ pending' = [pending EXCEPT ![req[c]] = c]
    /\ Goto(c, "invoke")
    /\ UNCHANGED <<globals, plugin, lock, current, sdk, nextId, known, chan,
                   thread, hand, slot, req, result, hosts>>

\* ... then the host's callback, which returns at once.
Invoke(c) ==
    /\ pc[c] = "invoke"
    /\ known' = known \cup {[id |-> req[c], from |-> c]}
    /\ Goto(c, "wait")
    /\ UNCHANGED <<globals, plugin, lock, current, sdk, nextId, pending, chan,
                   thread, hand, slot, req, result, hosts>>

Receive(c) ==
    /\ pc[c] = "wait" /\ chan[c] # Nil
    /\ End(c, chan[c])
    /\ UNCHANGED <<globals, plugin, current, sdk, requests, slot, req, hosts>>

\* Mutant of ExpireWait: an asynchronous call waits for ever.
ExpireSyncOnly(c) ==
    /\ pc[c] = "wait" /\ chan[c] = Nil /\ req[c] = 0
    /\ End(c, TimedOut)
    /\ UNCHANGED <<globals, plugin, current, sdk, requests, slot, req, hosts>>

\* FASTSHELL_DEVICE_TIMEOUT has passed: a synchronous call abandons its
\* thread, an asynchronous one has yet to forget its request.
ExpireWait(c) ==
    /\ pc[c] = "wait" /\ chan[c] = Nil
    /\ IF req[c] = 0
       THEN End(c, TimedOut)
       ELSE Goto(c, "forget") /\ UNCHANGED <<result, lock>>
    /\ UNCHANGED <<globals, plugin, current, sdk, requests, slot, req, hosts>>

\* Mutant of Forget: the entry of a timed-out request stays.
ForgetNothing(c) ==
    /\ pc[c] = "forget"
    /\ End(c, TimedOut)
    /\ UNCHANGED <<globals, plugin, current, sdk, requests, slot, req, hosts>>

Forget(c) ==
    /\ pc[c] = "forget"
    /\ pending' = [pending EXCEPT ![req[c]] = Nil]
    /\ End(c, TimedOut)
    /\ UNCHANGED <<globals, plugin, current, sdk, nextId, known, chan, thread,
                   hand, slot, req, hosts>>

-----------------------------------------------------------------------------
(* The host's answers.                                                     *)

\* The synchronous callback returns; a reply to an abandoned call is dropped.
Reply(c) ==
    /\ c \in thread
    /\ thread' = thread \ {c}
    /\ chan' = IF result[c] = Nil THEN [chan EXCEPT ![c] = c] ELSE chan
    /\ UNCHANGED <<globals, plugin, lock, current, sdk, nextId, pending, known,
                   hand, calls, hosts>>

\* host_send_result takes the sender out of the registry, if it is there ...
Respond(h, m) ==
    /\ hand[h] = Nil /\ pending[m.id] # Nil
    /\ hand' = [hand EXCEPT ![h] = [to |-> pending[m.id], for |-> m.from]]
    /\ pending' = [pending EXCEPT ![m.id] = Nil]
    /\ UNCHANGED <<globals, plugin, lock, current, sdk, nextId, known, chan,
                   thread, calls, hosts>>

\* ... and sends; the receiver may be gone by now.
Deliver(h) ==
    /\ hand[h] # Nil
    /\ LET m == hand[h] IN
       chan' = IF result[m.to] = Nil THEN [chan EXCEPT ![m.to] = m.for] ELSE chan
    /\ hand' = [hand EXCEPT ![h] = Nil]
    /\ UNCHANGED <<globals, plugin, lock, current, sdk, nextId, pending, known,
                   thread, calls, hosts>>

-----------------------------------------------------------------------------
(* Registration and init(), from the host's threads.                       *)

HostGoto(g, p) == hpc' = [hpc EXCEPT ![g] = p]

\* set_global_device_callback[_async].
SetCallback(g) ==
    /\ hpc[g] = "idle" /\ op[g] \in RegisterOps
    /\ Overlap \/ \A d \in Host : hpc[d] \in {"idle", "done"}
    /\ cbSync' = IF op[g] \in {"setSync", "clearSync"}
                 THEN op[g] = "setSync" ELSE cbSync
    /\ cbAsync' = IF op[g] \in {"setAsync", "clearAsync"}
                  THEN op[g] = "setAsync" ELSE cbAsync
    /\ HostGoto(g, "async")
    /\ UNCHANGED <<plugin, lock, current, sdk, requests, calls, op, found>>

\* global_device_plugin reads the asynchronous callback, then the other.
ReadAsync(g) ==
    /\ hpc[g] = "async"
    /\ found' = [found EXCEPT ![g] = "async"]
    /\ HostGoto(g, IF cbAsync THEN "sdk" ELSE "sync")
    /\ UNCHANGED <<globals, plugin, lock, current, sdk, requests, calls, op>>

ReadSync(g) ==
    /\ hpc[g] = "sync"
    /\ found' = [found EXCEPT ![g] = IF cbSync THEN "sync" ELSE "none"]
    /\ HostGoto(g, "sdk")
    /\ UNCHANGED <<globals, plugin, lock, current, sdk, requests, calls, op>>

\* install_global_device_plugin and fastshell_init lock SDK_INSTANCE ...
LockSdk(g) ==
    /\ sdk = Nil
    /\ \/ hpc[g] = "sdk" /\ HostGoto(g, "install")
       \/ /\ hpc[g] = "idle" /\ op[g] = "init" /\ current < MaxInit
          /\ HostGoto(g, "init")
    /\ sdk' = g
    /\ UNCHANGED <<globals, plugin, lock, current, requests, calls, op, found>>

\* ... and keep it while they wait for the plugin mutex.
Install(g) ==
    /\ hpc[g] = "install" /\ lock[current] = Nil
    /\ plugin' = [plugin EXCEPT ![current] = found[g]]
    /\ sdk' = Nil
    /\ HostGoto(g, "done")
    /\ UNCHANGED <<globals, lock, current, requests, calls, op, found>>

Preferred == IF cbAsync THEN "async" ELSE IF cbSync THEN "sync" ELSE "none"

\* Mutant of InitSdk: the new runtime starts without a plugin.
InitForgets(g) ==
    /\ hpc[g] = "init" /\ lock[current] = Nil /\ current < MaxInit
    /\ current' = current + 1
    /\ sdk' = Nil
    /\ HostGoto(g, "done")
    /\ UNCHANGED <<globals, plugin, lock, requests, calls, op, found>>

\* init() moves the plugin to the new runtime; the old one is left without.
InitSdk(g) ==
    /\ hpc[g] = "init" /\ lock[current] = Nil /\ current < MaxInit
    /\ plugin' = [plugin EXCEPT
                    ![current] = "none",
                    ![current + 1] = IF plugin[current] # "none"
                                     THEN plugin[current] ELSE Preferred]
    /\ current' = current + 1
    /\ sdk' = Nil
    /\ HostGoto(g, "done")
    /\ UNCHANGED <<globals, lock, requests, calls, op, found>>

-----------------------------------------------------------------------------

CallStep(c) ==
    \/ NotRegistered(c) \/ CallSync(c) \/ TakeId(c) \/ Insert(c) \/ Invoke(c)
    \/ Receive(c) \/ ExpireWait(c) \/ Forget(c)

HostStep(g) ==
    \/ ReadAsync(g) \/ ReadSync(g) \/ LockSdk(g) \/ Install(g) \/ InitSdk(g)

Next ==
    \/ \E c \in Call : CallStep(c) \/ Reply(c) \/ \E s \in Slot : Acquire(c, s)
    \/ \E h \in Responder : Deliver(h) \/ \E m \in known : Respond(h, m)
    \/ \E g \in Host : SetCallback(g) \/ HostStep(g)

Spec == Init /\ [][Next]_vars

\* Threads run and timeouts pass; the host's device code need not answer.
FairSpec ==
    /\ Spec
    /\ \A c \in Call : /\ WF_vars(CallStep(c))
                       /\ WF_vars(\E s \in Slot : Acquire(c, s))
    /\ \A h \in Responder : WF_vars(Deliver(h))
    /\ \A g \in Host : WF_vars(HostStep(g))
-----------------------------------------------------------------------------
(* Properties.                                                             *)

Request == [id : Id, from : Call]
Message == [to : Call, for : Call]

TypeOK ==
    /\ cbSync \in BOOLEAN /\ cbAsync \in BOOLEAN
    /\ plugin \in [Slot -> Plugins]
    /\ lock \in [Slot -> Call \cup {Nil}]
    /\ current \in Slot /\ sdk \in Host \cup {Nil}
    /\ nextId \in 1 .. MaxId + 1
    /\ pending \in [Id -> Call \cup {Nil}] /\ known \in SUBSET Request
    /\ pc \in [Call -> {"idle", "none", "sync", "async", "insert", "invoke",
                        "wait", "forget", "done"}]
    /\ slot \in [Call -> Slot] /\ req \in [Call -> Id \cup {0}]
    /\ chan \in [Call -> Call \cup {Nil}]
    /\ result \in [Call -> Answers \cup {Nil}]
    /\ thread \in SUBSET Call /\ hand \in [Responder -> Message \cup {Nil}]
    /\ op \in [Host -> HostOps] /\ found \in [Host -> Plugins]
    /\ hpc \in [Host -> {"idle", "async", "sync", "sdk", "install", "init",
                         "done"}]

\* The answer a command gets is the host's answer to its own request, however
\* late, often or out of order the host answers.
OwnAnswer == \A c \in Call : result[c] \in Call => result[c] = c

\* "on timeout we drop the registry entry so it can't leak": a request in the
\* registry has a call that still waits for it.
NoLeak ==
    \A i \in Id : pending[i] # Nil =>
        pc[pending[i]] \in {"invoke", "wait", "forget"} /\ req[pending[i]] = i

\* Why OwnAnswer and NoLeak are inductive: ids are unique, the host knows a
\* request by the id of the call that made it, and a sender is in one place -
\* the registry, a responder's hands or spent.
Asked == {"wait", "forget", "done"}

UniqueIds ==
    /\ \A c \in Call :
         /\ req[c] # 0 => req[c] < nextId
         /\ pc[c] \in {"idle", "none", "sync", "async"} => req[c] = 0
         /\ pc[c] \in {"insert", "invoke", "forget"} => req[c] # 0
         /\ c \in thread => req[c] = 0 /\ pc[c] \in {"wait", "done"}
    /\ \A c, d \in Call : req[c] = req[d] /\ req[c] # 0 => c = d
    /\ \A m \in known : req[m.from] = m.id /\ pc[m.from] \in Asked

OneSender ==
    /\ \A h \in Responder : hand[h] # Nil =>
         /\ hand[h].to = hand[h].for /\ pc[hand[h].to] \in Asked
         /\ \A i \in Id : pending[i] # hand[h].to
    /\ \A c \in Call : chan[c] # Nil =>
         /\ chan[c] = c /\ pc[c] \in Asked
         /\ \A i \in Id : pending[i] # c

\* When no registration is under way, the plugin of the SDK is the one
\* the registered callbacks call for (asynchronous before synchronous).
PluginCurrent ==
    (\A g \in Host : hpc[g] \in {"idle", "done"}) => plugin[current] = Preferred

\* A device call returns although the host never answers: "a hung host bridge
\* can never block a task forever"; and so do the registrations and the init()
\* that wait for the plugin such a call holds.
CallsReturn ==
    /\ \A c \in Call : (pc[c] # "idle") ~> (pc[c] = "done")
    /\ \A g \in Host : (hpc[g] # "idle") ~> (hpc[g] = "done")
=============================================================================
