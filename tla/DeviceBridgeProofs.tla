------------------------- MODULE DeviceBridgeProofs -------------------------
(***************************************************************************)
(* Proofs about DeviceBridge for any number of commands, responders and     *)
(* host threads: typing, no leaked request, no answer to somebody else.    *)
(***************************************************************************)
EXTENDS DeviceBridge, TLAPS

Inv == UniqueIds /\ NoLeak /\ OneSender /\ OwnAnswer

IInv == TypeOK /\ Inv

LEMMA InitTyped == Init => TypeOK
<1> SUFFICES ASSUME Init PROVE TypeOK
  OBVIOUS
<1> USE DeviceAssumption DEF DeviceAssumption, Init
<1>1. plugin \in [Slot -> Plugins] /\ lock \in [Slot -> Call \cup {Nil}] /\ current \in Slot
  BY DEF Slot, Plugins
<1>2. nextId \in 1 .. MaxId + 1 /\ pending \in [Id -> Call \cup {Nil}] /\ known \in SUBSET Request
  BY DEF Id
<1>3. slot \in [Call -> Slot] /\ req \in [Call -> Id \cup {0}]
  BY DEF Slot
<1>4. found \in [Host -> Plugins]
  BY DEF Plugins
<1> QED
  BY <1>1, <1>2, <1>3, <1>4 DEF TypeOK

\* A step keeps the types; that a request handed to the host has an id is
\* UniqueIds.
LEMMA TypeStep == TypeOK /\ UniqueIds /\ [Next]_vars => TypeOK'
<1> SUFFICES ASSUME TypeOK, UniqueIds, [Next]_vars PROVE TypeOK'
  OBVIOUS
<1> USE DeviceAssumption DEF DeviceAssumption, TypeOK, Slot, Id, Plugins,
            Answers, Request, Message, RegisterOps, globals, requests, calls, hosts
<1>1. ASSUME NEW c \in Call, NotRegistered(c) PROVE TypeOK'
  BY <1>1 DEF NotRegistered, Goto, End
<1>2. ASSUME NEW c \in Call, CallSync(c) PROVE TypeOK'
  BY <1>2 DEF CallSync, Goto
<1>3. ASSUME NEW c \in Call, TakeId(c) PROVE TypeOK'
  BY <1>3 DEF TakeId, Goto
<1>4. ASSUME NEW c \in Call, Insert(c) PROVE TypeOK'
  BY <1>4 DEF Insert, Goto
<1>5. ASSUME NEW c \in Call, Invoke(c) PROVE TypeOK'
  <2>1. req[c] \in Id
    BY <1>5 DEF UniqueIds, Invoke
  <2>2. known' \in SUBSET Request
    BY <1>5, <2>1 DEF Invoke
  <2> QED
    BY <1>5, <2>2 DEF Invoke, Goto
<1>6. ASSUME NEW c \in Call, Receive(c) PROVE TypeOK'
  BY <1>6 DEF Receive, Goto, End
<1>7. ASSUME NEW c \in Call, ExpireWait(c) PROVE TypeOK'
  <2>1. pc' = [pc EXCEPT ![c] = "done"] \/ pc' = [pc EXCEPT ![c] = "forget"]
    BY <1>7 DEF ExpireWait, Goto, End
  <2>2. result' = result \/ result' = [result EXCEPT ![c] = TimedOut]
    BY <1>7 DEF ExpireWait, End
  <2>3. lock' = lock \/ lock' = [lock EXCEPT ![slot[c]] = Nil]
    BY <1>7 DEF ExpireWait, End
  <2>4. UNCHANGED <<globals, plugin, current, sdk, requests, slot, req, hosts>>
    BY <1>7 DEF ExpireWait
  <2>5. pc' \in [Call -> {"idle", "none", "sync", "async", "insert", "invoke",
                           "wait", "forget", "done"}]
    BY <2>1
  <2>6. result' \in [Call -> Answers \cup {Nil}]
    BY <2>2
  <2>7. lock' \in [Slot -> Call \cup {Nil}]
    BY <2>3
  <2> QED
    BY <2>4, <2>5, <2>6, <2>7
<1>8. ASSUME NEW c \in Call, Forget(c) PROVE TypeOK'
  BY <1>8 DEF Forget, Goto, End
<1>9. ASSUME NEW c \in Call, Reply(c) PROVE TypeOK'
  BY <1>9 DEF Reply
<1>10. ASSUME NEW c \in Call, NEW s \in Slot, Acquire(c, s) PROVE TypeOK'
  BY <1>10 DEF Acquire, Goto
<1>11. ASSUME NEW h \in Responder, Deliver(h) PROVE TypeOK'
  BY <1>11 DEF Deliver
<1>12. ASSUME NEW h \in Responder, NEW m \in known, Respond(h, m) PROVE TypeOK'
  BY <1>12 DEF Respond
<1>13. ASSUME NEW g \in Host, SetCallback(g) PROVE TypeOK'
  BY <1>13 DEF SetCallback, HostGoto
<1>14. ASSUME NEW g \in Host, ReadAsync(g) PROVE TypeOK'
  BY <1>14 DEF ReadAsync, HostGoto
<1>15. ASSUME NEW g \in Host, ReadSync(g) PROVE TypeOK'
  BY <1>15 DEF ReadSync, HostGoto
<1>16. ASSUME NEW g \in Host, LockSdk(g) PROVE TypeOK'
  BY <1>16 DEF LockSdk, HostGoto
<1>17. ASSUME NEW g \in Host, Install(g) PROVE TypeOK'
  BY <1>17 DEF Install, HostGoto
<1>18. ASSUME NEW g \in Host, InitSdk(g) PROVE TypeOK'
  <2>1. current + 1 \in Slot
    BY <1>18 DEF InitSdk
  <2>2. plugin[current] \in Plugins /\ Preferred \in Plugins
    BY DEF Preferred
  <2>3. plugin' \in [Slot -> Plugins]
    BY <1>18, <2>1, <2>2 DEF InitSdk
  <2> QED
    BY <1>18, <2>1, <2>3 DEF InitSdk, HostGoto
<1>19. CASE UNCHANGED vars
  BY <1>19 DEF vars
<1> QED
  BY <1>1, <1>2, <1>3, <1>4, <1>5, <1>6, <1>7, <1>8, <1>9, <1>10, <1>11,
    <1>12, <1>13, <1>14, <1>15, <1>16, <1>17, <1>18, <1>19 DEF Next,
    CallStep, HostStep

\* A wait that expires ends a synchronous call, and no other.
LEMMA ExpireStep ==
  ASSUME TypeOK, TypeOK', Inv, NEW c \in Call, ExpireWait(c)
  PROVE Inv'
<1>1. /\ pc[c] = "wait" /\ chan[c] = Nil
      /\ nextId' = nextId /\ pending' = pending /\ known' = known /\ chan' = chan
      /\ thread' = thread /\ hand' = hand /\ req' = req
  BY DEF ExpireWait, requests
<1>2. /\ pc'[c] \in {"done", "forget"}
      /\ pc'[c] = "forget" <=> req[c] # 0
      /\ \A d \in Call : d # c => pc'[d] = pc[d]
  BY DEF ExpireWait, Goto, End, TypeOK
<1>3. \A d \in Call : result'[d] = result[d] \/ result'[d] = TimedOut
  BY DEF ExpireWait, Goto, End, TypeOK, calls
<1>4. UniqueIds'
  BY <1>1, <1>2 DEF UniqueIds, Asked, Inv, TypeOK, Request
<1>5. NoLeak'
  BY <1>1, <1>2 DEF NoLeak, UniqueIds, Inv, TypeOK, Id
<1>6. OneSender'
  <2>1. \A d \in Call : pc[d] \in Asked => pc'[d] \in Asked
    BY <1>1, <1>2 DEF Asked
  <2>2. \A h \in Responder : hand[h] # Nil => hand[h].to \in Call
    BY DEF TypeOK, Message
  <2> QED
    BY <1>1, <2>1, <2>2 DEF OneSender, Inv
<1>7. OwnAnswer'
  BY <1>3, DeviceAssumption DEF OwnAnswer, Inv, DeviceAssumption
<1> QED
  BY <1>4, <1>5, <1>6, <1>7 DEF Inv

\* A step keeps ids unique, senders in one place, entries with waiting calls.
LEMMA InvStep == TypeOK /\ TypeOK' /\ Inv /\ [Next]_vars => Inv'
<1> SUFFICES ASSUME TypeOK, TypeOK', Inv, [Next]_vars PROVE Inv'
  OBVIOUS
<1> USE DeviceAssumption DEF DeviceAssumption, TypeOK, Plugins, Id,
            Answers, Request, Message, Asked, Inv, UniqueIds, NoLeak, OneSender,
            OwnAnswer, globals, requests, calls, hosts
<1>1. ASSUME NEW c \in Call, NotRegistered(c) PROVE Inv'
  BY <1>1 DEF NotRegistered, Goto, End
<1>2. ASSUME NEW c \in Call, CallSync(c) PROVE Inv'
  BY <1>2 DEF CallSync, Goto
<1>3. ASSUME NEW c \in Call, TakeId(c) PROVE Inv'
  BY <1>3 DEF TakeId, Goto
<1>4. ASSUME NEW c \in Call, Insert(c) PROVE Inv'
  BY <1>4 DEF Insert, Goto
<1>5. ASSUME NEW c \in Call, Invoke(c) PROVE Inv'
  BY <1>5 DEF Invoke, Goto
<1>6. ASSUME NEW c \in Call, Receive(c) PROVE Inv'
  BY <1>6 DEF Receive, Goto, End
<1>7. ASSUME NEW c \in Call, ExpireWait(c) PROVE Inv'
  BY <1>7, ExpireStep
<1>8. ASSUME NEW c \in Call, Forget(c) PROVE Inv'
  BY <1>8 DEF Forget, Goto, End
<1>9. ASSUME NEW c \in Call, Reply(c) PROVE Inv'
  BY <1>9 DEF Reply
<1>10. ASSUME NEW c \in Call, NEW s \in Slot, Acquire(c, s) PROVE Inv'
  BY <1>10 DEF Acquire, Goto
<1>11. ASSUME NEW h \in Responder, Deliver(h) PROVE Inv'
  BY <1>11 DEF Deliver
<1>12. ASSUME NEW h \in Responder, NEW m \in known, Respond(h, m) PROVE Inv'
  BY <1>12 DEF Respond
<1>13. ASSUME NEW g \in Host, SetCallback(g) \/ HostStep(g) PROVE Inv'
  BY <1>13 DEF HostStep, SetCallback, ReadAsync, ReadSync, LockSdk, Install,
    InitSdk, HostGoto
<1>14. CASE UNCHANGED vars
  BY <1>14 DEF vars
<1> QED
  BY <1>1, <1>2, <1>3, <1>4, <1>5, <1>6, <1>7, <1>8, <1>9, <1>10, <1>11,
    <1>12, <1>13, <1>14 DEF Next, CallStep, HostStep

LEMMA InvHolds == Spec => []IInv
<1>1. Init => Inv
  BY DeviceAssumption DEF DeviceAssumption, Init, Inv, UniqueIds, NoLeak, OneSender, OwnAnswer
<1>2. IInv /\ [Next]_vars => IInv'
  BY TypeStep, InvStep DEF IInv, Inv
<1> QED
  BY <1>1, <1>2, InitTyped, PTL DEF Spec, IInv

-----------------------------------------------------------------------------

\* Every variable of the bridge keeps its type; request ids stay in range.
THEOREM TypeCorrect == Spec => []TypeOK
  BY InvHolds, PTL DEF IInv

\* A request in the registry has a call that waits for it: neither a timeout
\* nor an answer leaves an entry behind (call_async, host_send_result).
THEOREM RegistryDoesNotLeak == Spec => []NoLeak
  BY InvHolds, PTL DEF IInv, Inv

\* The answer a device command gets answers its own request, however late,
\* often or out of order the host answers.
THEOREM AnswersAreOwn == Spec => []OwnAnswer
  BY InvHolds, PTL DEF IInv, Inv

-----------------------------------------------------------------------------
(* Registrations.                                                          *)

Registering(g) == hpc[g] \in {"async", "sync", "sdk", "install"}

\* What one registration at a time knows: nobody changes the callbacks while it
\* reads them, so that what it has found is what they call for.
OneRegistration ==
    /\ \A g, k \in Host : Registering(g) /\ Registering(k) => g = k
    /\ \A g \in Host :
         /\ hpc[g] = "sync" => ~cbAsync
         /\ hpc[g] \in {"sdk", "install"} => found[g] = Preferred
    /\ (\A g \in Host : ~Registering(g)) => plugin[current] = Preferred

\* A device command and its answers leave what registrations decide alone.
LEMMA CallsLeaveHosts ==
  ASSUME NEW c \in Call,
         \/ CallStep(c) \/ Reply(c) \/ \E s \in Slot : Acquire(c, s)
  PROVE  UNCHANGED <<globals, plugin, current, hosts>>
<1>1. CASE CallStep(c)
  BY <1>1 DEF CallStep, NotRegistered, CallSync, TakeId, Insert, Invoke, Receive,
    ExpireWait, Forget
<1>2. CASE Reply(c) \/ \E s \in Slot : Acquire(c, s)
  BY <1>2 DEF Reply, Acquire
<1> QED
  BY <1>1, <1>2

\* When no registration is under way, the plugin of the SDK is the one the
\* callbacks call for - as long as the host registers from one thread at a
\* time: init() may come at any time, also in the middle of a registration.
THEOREM PluginFollowsCallbacks ==
  ASSUME ~Overlap
  PROVE  Spec => []PluginCurrent
<1>1. Init => OneRegistration
  <2>1. 0 \in Slot
    BY DeviceAssumption DEF DeviceAssumption, Slot
  <2> QED
    BY <2>1 DEF Init, OneRegistration, Registering, Preferred
<1>2. TypeOK /\ OneRegistration /\ [Next]_vars => OneRegistration'
  <2> SUFFICES ASSUME TypeOK, OneRegistration, [Next]_vars PROVE OneRegistration'
    OBVIOUS
  <2>1. ASSUME UNCHANGED <<globals, plugin, current, hosts>> PROVE OneRegistration'
    BY <2>1 DEF OneRegistration, Registering, Preferred, globals, hosts
  <2>2. ASSUME NEW h \in Responder, Deliver(h) \/ \E m \in known : Respond(h, m)
        PROVE  OneRegistration'
    BY <2>1, <2>2 DEF Deliver, Respond
  <2> USE DEF TypeOK, OneRegistration, Registering, Preferred, globals
  <2>3. ASSUME NEW g \in Host, SetCallback(g) PROVE OneRegistration'
    BY <2>3 DEF SetCallback, HostGoto
  <2>4. ASSUME NEW g \in Host, ReadAsync(g) PROVE OneRegistration'
    BY <2>4 DEF ReadAsync, HostGoto
  <2>5. ASSUME NEW g \in Host, ReadSync(g) PROVE OneRegistration'
    BY <2>5 DEF ReadSync, HostGoto
  <2>6. ASSUME NEW g \in Host, LockSdk(g) PROVE OneRegistration'
    BY <2>6 DEF LockSdk, HostGoto
  <2>7. ASSUME NEW g \in Host, Install(g) PROVE OneRegistration'
    BY <2>7 DEF Install, HostGoto
  <2>8. ASSUME NEW g \in Host, InitSdk(g) PROVE OneRegistration'
    <3>1. current' = current + 1 /\ current' \in Slot /\ current' # current
      BY <2>8, DeviceAssumption DEF InitSdk, Slot, DeviceAssumption
    <3>2. plugin'[current'] = IF plugin[current] # "none" THEN plugin[current] ELSE Preferred
      BY <2>8, <3>1 DEF InitSdk
    <3>3. hpc[g] = "init" /\ hpc' = [hpc EXCEPT ![g] = "done"] /\ UNCHANGED <<globals, op, found>>
      BY <2>8 DEF InitSdk, HostGoto
    <3> QED
      BY <3>2, <3>3
  <2> QED
    BY <2>1, <2>2, <2>3, <2>4, <2>5, <2>6, <2>7, <2>8, CallsLeaveHosts
    DEF Next, HostStep, vars
<1>3. OneRegistration => PluginCurrent
  BY DEF OneRegistration, Registering, PluginCurrent
<1> QED
  BY <1>1, <1>2, <1>3, TypeCorrect, PTL DEF Spec
=============================================================================
