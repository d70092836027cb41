--------------------------- MODULE SdkExecProofs ---------------------------
(***************************************************************************)
(* Proofs about SdkExec, for every set of calls, kinds and bodies: typing,  *)
(* mutual exclusion on the runtime, finality of the host's answer; and what *)
(* it promises particular hosts, those whose commands do not panic and those *)
(* that make one call with a timeout after the other: the README tells what *)
(* happens to others.  Last, SdkExec implements HostContract.               *)
(***************************************************************************)
EXTENDS SdkExec, FiniteSetTheorems, TLAPS

\* The variables keep their types: the worker and caller program counters stay
\* on the paths of execute_with_runtime, and codes and handles stay in range.
THEOREM TypeCorrect == Spec => []TypeOK
<1>1. Init => TypeOK
  <2> SUFFICES ASSUME Init PROVE TypeOK
    OBVIOUS
  <2>1. current \in Runtime /\ rt \in [Call -> Runtime]
    BY SdkAssumption DEF SdkAssumption, Init, Runtime
  <2>2. /\ worker \in [Call -> WorkerPcs] /\ host \in [Call -> HostPcs]
        /\ admin \in [Admin -> AdminPcs]
    BY DEF Init, HostPcs, WorkerPcs, AdminPcs
  <2> QED
    BY <2>1, <2>2 DEF Init, TypeOK, Dir
<1>2. TypeOK /\ [Next]_vars => TypeOK'
  <2> SUFFICES ASSUME TypeOK, [Next]_vars PROVE TypeOK'
    OBVIOUS
  <2> USE DEF TypeOK, HostPcs, WorkerPcs, AdminPcs, Codes, Dir, shared, front, rtvars, caller, thread
  <2>1. ASSUME NEW c \in Call, Open(c) PROVE TypeOK'
    BY <2>1 DEF Open
  <2>2. ASSUME NEW c \in Call, Expire(c) PROVE TypeOK'
    BY <2>2 DEF Expire, Timed
  <2>3. ASSUME NEW c \in Call, Arm(c) PROVE TypeOK'
    BY <2>3 DEF Arm, Spawn, Timed
  <2>4. ASSUME NEW c \in Call, Reset(c) PROVE TypeOK'
    BY <2>4 DEF Reset, Spawn, Timed
  <2>5. ASSUME NEW c \in Call, StartPython(c) PROVE TypeOK'
    BY <2>5 DEF StartPython
  <2>6. ASSUME NEW c \in Call, RecvResult(c) PROVE TypeOK'
    BY <2>6 DEF RecvResult, Return
  <2>7. ASSUME NEW c \in Call, RecvTimeout(c) PROVE TypeOK'
    BY <2>7 DEF RecvTimeout
  <2>8. ASSUME NEW c \in Call, GiveUp(c) PROVE TypeOK'
    BY <2>8 DEF GiveUp, Return
  <2>9. ASSUME NEW c \in Call, InlineReturn(c) PROVE TypeOK'
    BY <2>9 DEF InlineReturn, Return
  <2>10. ASSUME NEW c \in Call, Poll(c) PROVE TypeOK'
    BY <2>10 DEF Poll, Goto
  <2>11. ASSUME NEW c \in Call, TryLock(c) PROVE TypeOK'
    BY <2>11 DEF TryLock, Goto
  <2>12. ASSUME NEW c \in Call, Recheck(c) PROVE TypeOK'
    BY <2>12 DEF Recheck, Goto, FirstStep
  <2>13. ASSUME NEW c \in Call, BlockingLock(c) PROVE TypeOK'
    BY <2>13 DEF BlockingLock, Goto, FirstStep
  <2>14. ASSUME NEW c \in Call, Drop(c) PROVE TypeOK'
    BY <2>14 DEF Drop, Goto
  <2>15. ASSUME NEW c \in Call, Tell(c) PROVE TypeOK'
    BY <2>15 DEF Tell, Goto
  <2>16. ASSUME NEW c \in Call, EnterDir(c) PROVE TypeOK'
    BY <2>16 DEF EnterDir, Goto, Finish, AfterBody, Timed
  <2>17. ASSUME NEW c \in Call, ObserveCancel(c) PROVE TypeOK'
    BY <2>17 DEF ObserveCancel, Goto, Finish, AfterBody, Timed, Restored
  <2>18. ASSUME NEW c \in Call, EndShort(c) PROVE TypeOK'
    BY <2>18 DEF EndShort, Goto, Finish, AfterBody, Timed, Restored
  <2>19. ASSUME NEW c \in Call, StartNet(c) PROVE TypeOK'
    BY <2>19 DEF StartNet, Goto
  <2>20. ASSUME NEW c \in Call, NetAbort(c) PROVE TypeOK'
    BY <2>20 DEF NetAbort, Goto, Finish, AfterBody, Timed, Restored
  <2>21. ASSUME NEW c \in Call, Send(c) PROVE TypeOK'
    BY <2>21 DEF Send, Goto
  <2>22. ASSUME NEW c \in Call, Unlock(c) PROVE TypeOK'
    BY <2>22 DEF Unlock, Goto
  <2>23. ASSUME NEW c \in Call, RunSegment(c) PROVE TypeOK'
    BY <2>23 DEF RunSegment
  <2>24. ASSUME NEW c \in Call, NetAnswer(c) PROVE TypeOK'
    BY <2>24 DEF NetAnswer, Goto, Finish, AfterBody, Timed, Restored
  <2>25. ASSUME NEW c \in Call, EndDeaf(c) PROVE TypeOK'
    BY <2>25 DEF EndDeaf, Goto, Finish, AfterBody, Timed, Restored
  <2>26. ASSUME NEW c \in Call, Panic(c) PROVE TypeOK'
    BY <2>26 DEF Panic, Goto, Finish, AfterBody, Timed, Executing
  <2>27. ASSUME NEW a \in Admin, InitSdk(a) PROVE TypeOK'
    BY <2>27, SdkAssumption DEF InitSdk, AdminGoto, Runtime, SdkAssumption
  <2>28. ASSUME NEW a \in Admin, AskCancel(a) PROVE TypeOK'
    BY <2>28 DEF AskCancel, AdminGoto
  <2>29. ASSUME NEW a \in Admin, DoCancel(a) PROVE TypeOK'
    BY <2>29 DEF DoCancel, AdminGoto
  <2>30. ASSUME NEW a \in Admin, CancelHandle(a) PROVE TypeOK'
    BY <2>30 DEF CancelHandle, AdminGoto
  <2>31. ASSUME NEW a \in Admin, TakeSdk(a) PROVE TypeOK'
    BY <2>31 DEF TakeSdk, AdminGoto
  <2>32. ASSUME NEW a \in Admin, UseRuntime(a) PROVE TypeOK'
    BY <2>32 DEF UseRuntime, AdminGoto
  <2>33. CASE UNCHANGED vars
    BY <2>33 DEF vars, shared, front, rtvars, caller, thread
  <2> QED
    BY <2>1, <2>2, <2>3, <2>4, <2>5, <2>6, <2>7, <2>8, <2>9, <2>10, <2>11,
      <2>12, <2>13, <2>14, <2>15, <2>16, <2>17, <2>18, <2>19, <2>20, <2>21,
      <2>22, <2>23, <2>24, <2>25, <2>26, <2>27, <2>28, <2>29, <2>30, <2>31,
      <2>32, <2>33 DEF Next, HostStep, WorkerStep, AdminStep
<1> QED
  BY <1>1, <1>2, PTL DEF Spec

-----------------------------------------------------------------------------

\* What a worker has computed and sent, and whether a caller has one, follows
\* from how far the worker and the caller are.
LEMMA ProtocolHolds == Spec => []Protocol
<1>1. Init => Protocol
  BY DEF Init, Protocol, ProtocolOf
<1>2. TypeOK /\ Protocol /\ [Next]_vars => Protocol'
  <2> SUFFICES ASSUME TypeOK, Protocol, [Next]_vars, NEW d \in Call
               PROVE  ProtocolOf(d)'
    BY DEF Protocol
  <2> USE SdkAssumption DEF SdkAssumption, TypeOK, Protocol, ProtocolOf, Timed,
              Codes, shared, front, rtvars, caller, thread
  <2>1. ASSUME NEW c \in Call, Open(c) PROVE ProtocolOf(d)'
    BY <2>1 DEF Open
  <2>2. ASSUME NEW c \in Call, Expire(c) PROVE ProtocolOf(d)'
    BY <2>2 DEF Expire
  <2>3. ASSUME NEW c \in Call, Arm(c) PROVE ProtocolOf(d)'
    BY <2>3 DEF Arm, Spawn, WorkerKinds
  <2>4. ASSUME NEW c \in Call, Reset(c) PROVE ProtocolOf(d)'
    BY <2>4 DEF Reset, Spawn
  <2>5. ASSUME NEW c \in Call, StartPython(c) PROVE ProtocolOf(d)'
    BY <2>5 DEF StartPython, WorkerKinds
  <2>6. ASSUME NEW c \in Call, RecvResult(c) PROVE ProtocolOf(d)'
    BY <2>6 DEF RecvResult, Return
  <2>7. ASSUME NEW c \in Call, RecvTimeout(c) PROVE ProtocolOf(d)'
    BY <2>7 DEF RecvTimeout
  <2>8. ASSUME NEW c \in Call, GiveUp(c) PROVE ProtocolOf(d)'
    BY <2>8 DEF GiveUp, Return
  <2>9. ASSUME NEW c \in Call, InlineReturn(c) PROVE ProtocolOf(d)'
    BY <2>9 DEF InlineReturn, Return
  <2>10. ASSUME NEW c \in Call, Poll(c) PROVE ProtocolOf(d)'
    BY <2>10 DEF Poll, Goto
  <2>11. ASSUME NEW c \in Call, TryLock(c) PROVE ProtocolOf(d)'
    BY <2>11 DEF TryLock, Goto
  <2>12. ASSUME NEW c \in Call, Recheck(c) PROVE ProtocolOf(d)'
    BY <2>12 DEF Recheck, Goto, FirstStep
  <2>13. ASSUME NEW c \in Call, BlockingLock(c) PROVE ProtocolOf(d)'
    BY <2>13 DEF BlockingLock, Goto, FirstStep
  <2>14. ASSUME NEW c \in Call, Drop(c) PROVE ProtocolOf(d)'
    BY <2>14 DEF Drop, Goto
  <2>15. ASSUME NEW c \in Call, Tell(c) PROVE ProtocolOf(d)'
    BY <2>15 DEF Tell, Goto
  <2>16. ASSUME NEW c \in Call, EnterDir(c) PROVE ProtocolOf(d)'
    BY <2>16 DEF EnterDir, Goto, Finish, AfterBody
  <2>17. ASSUME NEW c \in Call, ObserveCancel(c) PROVE ProtocolOf(d)'
    BY <2>17 DEF ObserveCancel, Goto, Finish, AfterBody
  <2>18. ASSUME NEW c \in Call, EndShort(c) PROVE ProtocolOf(d)'
    BY <2>18 DEF EndShort, Goto, Finish, AfterBody
  <2>19. ASSUME NEW c \in Call, StartNet(c) PROVE ProtocolOf(d)'
    BY <2>19 DEF StartNet, Goto
  <2>20. ASSUME NEW c \in Call, NetAbort(c) PROVE ProtocolOf(d)'
    BY <2>20 DEF NetAbort, Goto, Finish, AfterBody
  <2>21. ASSUME NEW c \in Call, Send(c) PROVE ProtocolOf(d)'
    BY <2>21 DEF Send, Goto
  <2>22. ASSUME NEW c \in Call, Unlock(c) PROVE ProtocolOf(d)'
    BY <2>22 DEF Unlock, Goto
  <2>23. ASSUME NEW c \in Call, RunSegment(c) PROVE ProtocolOf(d)'
    BY <2>23 DEF RunSegment
  <2>24. ASSUME NEW c \in Call, NetAnswer(c) PROVE ProtocolOf(d)'
    BY <2>24 DEF NetAnswer, Goto, Finish, AfterBody
  <2>25. ASSUME NEW c \in Call, EndDeaf(c) PROVE ProtocolOf(d)'
    BY <2>25 DEF EndDeaf, Goto, Finish, AfterBody
  <2>26. ASSUME NEW c \in Call, Panic(c) PROVE ProtocolOf(d)'
    BY <2>26 DEF Panic, Goto, Finish, AfterBody, Executing
  <2>27. ASSUME NEW a \in Admin, AdminStep(a) PROVE ProtocolOf(d)'
    BY <2>27 DEF AdminStep, InitSdk, AskCancel, DoCancel, CancelHandle,
      TakeSdk, UseRuntime, AdminGoto
  <2>28. CASE UNCHANGED vars
    BY <2>28 DEF vars
  <2> QED
    BY <2>1, <2>2, <2>3, <2>4, <2>5, <2>6, <2>7, <2>8, <2>9, <2>10, <2>11,
      <2>12, <2>13, <2>14, <2>15, <2>16, <2>17, <2>18, <2>19, <2>20, <2>21,
      <2>22, <2>23, <2>24, <2>25, <2>26, <2>27, <2>28 DEF Next, HostStep,
      WorkerStep
<1> QED
  BY <1>1, <1>2, TypeCorrect, PTL DEF Spec

\* A worker holds the mutex of its own runtime exactly while it is between
\* acquiring and releasing it.
LEMMA LockHolds == Spec => []LockExact
<1>1. Init => LockExact
  BY SdkAssumption DEF SdkAssumption, Init, LockExact, Holds
<1>2. TypeOK /\ Protocol /\ LockExact /\ [Next]_vars => LockExact'
  <2> SUFFICES ASSUME TypeOK, Protocol, LockExact, [Next]_vars,
                      NEW d \in Call, NEW r \in Runtime
               PROVE  (holder[r] = d <=> Holds(d) /\ rt[d] = r)'
    BY DEF LockExact
  <2> USE SdkAssumption DEF SdkAssumption, TypeOK, Protocol, ProtocolOf,
              LockExact, Holds, shared, front, rtvars, caller, thread
  <2>1. ASSUME NEW c \in Call, Open(c) PROVE (holder[r] = d <=> Holds(d) /\ rt[d] = r)'
    BY <2>1 DEF Open
  <2>2. ASSUME NEW c \in Call, Expire(c) PROVE (holder[r] = d <=> Holds(d) /\ rt[d] = r)'
    BY <2>2 DEF Expire
  <2>3. ASSUME NEW c \in Call, Arm(c) PROVE (holder[r] = d <=> Holds(d) /\ rt[d] = r)'
    BY <2>3 DEF Arm, Spawn
  <2>4. ASSUME NEW c \in Call, Reset(c) PROVE (holder[r] = d <=> Holds(d) /\ rt[d] = r)'
    BY <2>4 DEF Reset, Spawn
  <2>5. ASSUME NEW c \in Call, StartPython(c) PROVE (holder[r] = d <=> Holds(d) /\ rt[d] = r)'
    BY <2>5 DEF StartPython
  <2>6. ASSUME NEW c \in Call, RecvResult(c) PROVE (holder[r] = d <=> Holds(d) /\ rt[d] = r)'
    BY <2>6 DEF RecvResult, Return
  <2>7. ASSUME NEW c \in Call, RecvTimeout(c) PROVE (holder[r] = d <=> Holds(d) /\ rt[d] = r)'
    BY <2>7 DEF RecvTimeout
  <2>8. ASSUME NEW c \in Call, GiveUp(c) PROVE (holder[r] = d <=> Holds(d) /\ rt[d] = r)'
    BY <2>8 DEF GiveUp, Return
  <2>9. ASSUME NEW c \in Call, InlineReturn(c) PROVE (holder[r] = d <=> Holds(d) /\ rt[d] = r)'
    BY <2>9 DEF InlineReturn, Return
  <2>10. ASSUME NEW c \in Call, Poll(c) PROVE (holder[r] = d <=> Holds(d) /\ rt[d] = r)'
    BY <2>10 DEF Poll, Goto
  <2>11. ASSUME NEW c \in Call, TryLock(c) PROVE (holder[r] = d <=> Holds(d) /\ rt[d] = r)'
    BY <2>11 DEF TryLock, Goto
  <2>12. ASSUME NEW c \in Call, Recheck(c) PROVE (holder[r] = d <=> Holds(d) /\ rt[d] = r)'
    BY <2>12 DEF Recheck, Goto, FirstStep
  <2>13. ASSUME NEW c \in Call, BlockingLock(c) PROVE (holder[r] = d <=> Holds(d) /\ rt[d] = r)'
    BY <2>13 DEF BlockingLock, Goto, FirstStep
  <2>14. ASSUME NEW c \in Call, Drop(c) PROVE (holder[r] = d <=> Holds(d) /\ rt[d] = r)'
    BY <2>14 DEF Drop, Goto
  <2>15. ASSUME NEW c \in Call, Tell(c) PROVE (holder[r] = d <=> Holds(d) /\ rt[d] = r)'
    BY <2>15 DEF Tell, Goto
  <2>16. ASSUME NEW c \in Call, EnterDir(c) PROVE (holder[r] = d <=> Holds(d) /\ rt[d] = r)'
    BY <2>16 DEF EnterDir, Goto, Finish, AfterBody
  <2>17. ASSUME NEW c \in Call, ObserveCancel(c) PROVE (holder[r] = d <=> Holds(d) /\ rt[d] = r)'
    BY <2>17 DEF ObserveCancel, Goto, Finish, AfterBody
  <2>18. ASSUME NEW c \in Call, EndShort(c) PROVE (holder[r] = d <=> Holds(d) /\ rt[d] = r)'
    BY <2>18 DEF EndShort, Goto, Finish, AfterBody
  <2>19. ASSUME NEW c \in Call, StartNet(c) PROVE (holder[r] = d <=> Holds(d) /\ rt[d] = r)'
    BY <2>19 DEF StartNet, Goto
  <2>20. ASSUME NEW c \in Call, NetAbort(c) PROVE (holder[r] = d <=> Holds(d) /\ rt[d] = r)'
    BY <2>20 DEF NetAbort, Goto, Finish, AfterBody
  <2>21. ASSUME NEW c \in Call, Send(c) PROVE (holder[r] = d <=> Holds(d) /\ rt[d] = r)'
    BY <2>21 DEF Send, Goto
  <2>22. ASSUME NEW c \in Call, Unlock(c) PROVE (holder[r] = d <=> Holds(d) /\ rt[d] = r)'
    BY <2>22 DEF Unlock, Goto
  <2>23. ASSUME NEW c \in Call, RunSegment(c) PROVE (holder[r] = d <=> Holds(d) /\ rt[d] = r)'
    BY <2>23 DEF RunSegment
  <2>24. ASSUME NEW c \in Call, NetAnswer(c) PROVE (holder[r] = d <=> Holds(d) /\ rt[d] = r)'
    BY <2>24 DEF NetAnswer, Goto, Finish, AfterBody
  <2>25. ASSUME NEW c \in Call, EndDeaf(c) PROVE (holder[r] = d <=> Holds(d) /\ rt[d] = r)'
    BY <2>25 DEF EndDeaf, Goto, Finish, AfterBody
  <2>26. ASSUME NEW c \in Call, Panic(c) PROVE (holder[r] = d <=> Holds(d) /\ rt[d] = r)'
    BY <2>26 DEF Panic, Goto, Finish, AfterBody, Executing
  <2>27. ASSUME NEW a \in Admin, AdminStep(a) PROVE (holder[r] = d <=> Holds(d) /\ rt[d] = r)'
    BY <2>27 DEF AdminStep, InitSdk, AskCancel, DoCancel, CancelHandle,
      TakeSdk, UseRuntime, AdminGoto
  <2>28. CASE UNCHANGED vars
    BY <2>28 DEF vars
  <2> QED
    BY <2>1, <2>2, <2>3, <2>4, <2>5, <2>6, <2>7, <2>8, <2>9, <2>10, <2>11,
      <2>12, <2>13, <2>14, <2>15, <2>16, <2>17, <2>18, <2>19, <2>20, <2>21,
      <2>22, <2>23, <2>24, <2>25, <2>26, <2>27, <2>28 DEF Next, HostStep,
      WorkerStep
<1> QED
  BY <1>1, <1>2, TypeCorrect, ProtocolHolds, PTL DEF Spec

\* No two commands ever execute on one runtime, orphans of timed-out calls and
\* panicking commands included (src/src/sdk/mod.rs, the worker closures).
THEOREM MutualExclusion == Spec => []RuntimeExclusive
<1>1. TypeOK /\ LockExact => RuntimeExclusive
  BY DEF TypeOK, LockExact, RuntimeExclusive, Executing, Holds
<1> QED
  BY <1>1, TypeCorrect, LockHolds, PTL

FinalOf(c) ==
    result[c] # Nil /\ result[c] # "timeout" /\ worker[c] # "none" =>
        /\ worker[c] \in {"unlock", "done"}
        /\ result[c] = IF out[c] = Nil THEN "cancelled" ELSE out[c]

\* The answer of execute[_in]_with_runtime is final unless it is 124: the
\* command is over and no longer touches the runtime.
THEOREM FinalAnswer == Spec => []AnswerIsFinal
<1>1. Init => AnswerIsFinal
  BY DEF Init, AnswerIsFinal
<1>2. TypeOK /\ Protocol /\ AnswerIsFinal /\ [Next]_vars => AnswerIsFinal'
  <2> SUFFICES ASSUME TypeOK, Protocol, AnswerIsFinal, [Next]_vars,
                      NEW d \in Call
               PROVE  FinalOf(d)'
    BY DEF AnswerIsFinal, FinalOf
  <2> USE SdkAssumption DEF SdkAssumption, TypeOK, Protocol, ProtocolOf,
              AnswerIsFinal, FinalOf, shared, front, rtvars, caller, thread
  <2>1. ASSUME NEW c \in Call, Open(c) PROVE FinalOf(d)'
    BY <2>1 DEF Open
  <2>2. ASSUME NEW c \in Call, Expire(c) PROVE FinalOf(d)'
    BY <2>2 DEF Expire
  <2>3. ASSUME NEW c \in Call, Arm(c) PROVE FinalOf(d)'
    BY <2>3 DEF Arm, Spawn
  <2>4. ASSUME NEW c \in Call, Reset(c) PROVE FinalOf(d)'
    BY <2>4 DEF Reset, Spawn
  <2>5. ASSUME NEW c \in Call, StartPython(c) PROVE FinalOf(d)'
    BY <2>5 DEF StartPython
  <2>6. ASSUME NEW c \in Call, RecvResult(c) PROVE FinalOf(d)'
    BY <2>6 DEF RecvResult, Return
  <2>7. ASSUME NEW c \in Call, RecvTimeout(c) PROVE FinalOf(d)'
    BY <2>7 DEF RecvTimeout
  <2>8. ASSUME NEW c \in Call, GiveUp(c) PROVE FinalOf(d)'
    BY <2>8 DEF GiveUp, Return
  <2>9. ASSUME NEW c \in Call, InlineReturn(c) PROVE FinalOf(d)'
    BY <2>9 DEF InlineReturn, Return
  <2>10. ASSUME NEW c \in Call, Poll(c) PROVE FinalOf(d)'
    BY <2>10 DEF Poll, Goto
  <2>11. ASSUME NEW c \in Call, TryLock(c) PROVE FinalOf(d)'
    BY <2>11 DEF TryLock, Goto
  <2>12. ASSUME NEW c \in Call, Recheck(c) PROVE FinalOf(d)'
    BY <2>12 DEF Recheck, Goto, FirstStep
  <2>13. ASSUME NEW c \in Call, BlockingLock(c) PROVE FinalOf(d)'
    BY <2>13 DEF BlockingLock, Goto, FirstStep
  <2>14. ASSUME NEW c \in Call, Drop(c) PROVE FinalOf(d)'
    BY <2>14 DEF Drop, Goto
  <2>15. ASSUME NEW c \in Call, Tell(c) PROVE FinalOf(d)'
    BY <2>15 DEF Tell, Goto
  <2>16. ASSUME NEW c \in Call, EnterDir(c) PROVE FinalOf(d)'
    BY <2>16 DEF EnterDir, Goto, Finish, AfterBody
  <2>17. ASSUME NEW c \in Call, ObserveCancel(c) PROVE FinalOf(d)'
    BY <2>17 DEF ObserveCancel, Goto, Finish, AfterBody
  <2>18. ASSUME NEW c \in Call, EndShort(c) PROVE FinalOf(d)'
    BY <2>18 DEF EndShort, Goto, Finish, AfterBody
  <2>19. ASSUME NEW c \in Call, StartNet(c) PROVE FinalOf(d)'
    BY <2>19 DEF StartNet, Goto
  <2>20. ASSUME NEW c \in Call, NetAbort(c) PROVE FinalOf(d)'
    BY <2>20 DEF NetAbort, Goto, Finish, AfterBody
  <2>21. ASSUME NEW c \in Call, Send(c) PROVE FinalOf(d)'
    BY <2>21 DEF Send, Goto
  <2>22. ASSUME NEW c \in Call, Unlock(c) PROVE FinalOf(d)'
    BY <2>22 DEF Unlock, Goto
  <2>23. ASSUME NEW c \in Call, RunSegment(c) PROVE FinalOf(d)'
    BY <2>23 DEF RunSegment
  <2>24. ASSUME NEW c \in Call, NetAnswer(c) PROVE FinalOf(d)'
    BY <2>24 DEF NetAnswer, Goto, Finish, AfterBody
  <2>25. ASSUME NEW c \in Call, EndDeaf(c) PROVE FinalOf(d)'
    BY <2>25 DEF EndDeaf, Goto, Finish, AfterBody
  <2>26. ASSUME NEW c \in Call, Panic(c) PROVE FinalOf(d)'
    BY <2>26 DEF Panic, Goto, Finish, AfterBody, Executing
  <2>27. ASSUME NEW a \in Admin, AdminStep(a) PROVE FinalOf(d)'
    BY <2>27 DEF AdminStep, InitSdk, AskCancel, DoCancel, CancelHandle,
      TakeSdk, UseRuntime, AdminGoto
  <2>28. CASE UNCHANGED vars
    BY <2>28 DEF vars
  <2> QED
    BY <2>1, <2>2, <2>3, <2>4, <2>5, <2>6, <2>7, <2>8, <2>9, <2>10, <2>11,
      <2>12, <2>13, <2>14, <2>15, <2>16, <2>17, <2>18, <2>19, <2>20, <2>21,
      <2>22, <2>23, <2>24, <2>25, <2>26, <2>27, <2>28 DEF Next, HostStep,
      WorkerStep
<1> QED
  BY <1>1, <1>2, TypeCorrect, ProtocolHolds, PTL DEF Spec


-----------------------------------------------------------------------------
(* The working directory.                                                  *)

\* A directory that an execute_in call did not bring.
Shared(d) == d = Root \/ kind[d] \notin InKinds

\* What the shared directory is worth: clean where nobody runs, and while a
\* command runs either it or what execute_with_cwd saved for its end is.
CwdOf(c) ==
    /\ Holds(c) /\ ~(Executing(c) /\ kind[c] \in InKinds) => Shared(cwd[rt[c]])
    /\ Executing(c) /\ kind[c] \in InKinds => Shared(saved[c])

\* The same of the next state, for one runtime and one call.
Kept(r, d) ==
    (/\ r \in Runtime /\ holder[r] = Nil => Shared(cwd[r])
     /\ d \in Call => CwdOf(d))'

CwdInv == CwdNotPolluted /\ \A c \in Call : CwdOf(c)

\* "The shared cwd is never left polluted" (fastshell_execute_in), by timeouts,
\* cancellations and orphans, for any host - if no command panics: a panic
\* skips the restore (executor.rs:323).
THEOREM CwdRestored ==
  ASSUME ~MayPanic
  PROVE  Spec => []CwdNotPolluted
<1>1. Init => CwdInv
  BY DEF Init, CwdInv, CwdNotPolluted, CwdOf, Shared, Holds, Executing
<1>2. TypeOK /\ Protocol /\ LockExact /\ CwdInv /\ [Next]_vars => CwdInv'
  <2> SUFFICES ASSUME TypeOK, Protocol, LockExact, CwdInv, [Next]_vars,
                      NEW r, NEW d
               PROVE  Kept(r, d)
    BY DEF CwdInv, CwdNotPolluted, Kept, Shared
  <2> USE SdkAssumption DEF SdkAssumption, TypeOK, Protocol, ProtocolOf, Dir,
              LockExact, Holds, CwdInv, CwdNotPolluted, CwdOf, Kept, Shared,
              Executing, shared, front, rtvars, caller, thread
  <2>1. ASSUME NEW c \in Call, Open(c) PROVE Kept(r, d)
    BY <2>1 DEF Open
  <2>2. ASSUME NEW c \in Call, Expire(c) PROVE Kept(r, d)
    BY <2>2 DEF Expire
  <2>3. ASSUME NEW c \in Call, Arm(c) PROVE Kept(r, d)
    BY <2>3 DEF Arm, Spawn
  <2>4. ASSUME NEW c \in Call, Reset(c) PROVE Kept(r, d)
    BY <2>4 DEF Reset, Spawn
  <2>5. ASSUME NEW c \in Call, StartPython(c) PROVE Kept(r, d)
    BY <2>5 DEF StartPython
  <2>6. ASSUME NEW c \in Call, RecvResult(c) PROVE Kept(r, d)
    BY <2>6 DEF RecvResult, Return
  <2>7. ASSUME NEW c \in Call, RecvTimeout(c) PROVE Kept(r, d)
    BY <2>7 DEF RecvTimeout
  <2>8. ASSUME NEW c \in Call, GiveUp(c) PROVE Kept(r, d)
    BY <2>8 DEF GiveUp, Return
  <2>9. ASSUME NEW c \in Call, InlineReturn(c) PROVE Kept(r, d)
    BY <2>9 DEF InlineReturn, Return
  <2>10. ASSUME NEW c \in Call, Poll(c) PROVE Kept(r, d)
    BY <2>10 DEF Poll, Goto
  <2>11. ASSUME NEW c \in Call, TryLock(c) PROVE Kept(r, d)
    BY <2>11 DEF TryLock, Goto
  <2>12. ASSUME NEW c \in Call, Recheck(c) PROVE Kept(r, d)
    BY <2>12 DEF Recheck, Goto, FirstStep
  <2>13. ASSUME NEW c \in Call, BlockingLock(c) PROVE Kept(r, d)
    BY <2>13 DEF BlockingLock, Goto, FirstStep
  <2>14. ASSUME NEW c \in Call, Drop(c) PROVE Kept(r, d)
    BY <2>14 DEF Drop, Goto
  <2>15. ASSUME NEW c \in Call, Tell(c) PROVE Kept(r, d)
    BY <2>15 DEF Tell, Goto
  <2>16. ASSUME NEW c \in Call, EnterDir(c) PROVE Kept(r, d)
    BY <2>16 DEF EnterDir, Goto, Finish, AfterBody
  <2>17. ASSUME NEW c \in Call, ObserveCancel(c) PROVE Kept(r, d)
    BY <2>17 DEF ObserveCancel, Goto, Finish, AfterBody, Restored
  <2>18. ASSUME NEW c \in Call, EndShort(c) PROVE Kept(r, d)
    BY <2>18 DEF EndShort, Goto, Finish, AfterBody, Restored
  <2>19. ASSUME NEW c \in Call, StartNet(c) PROVE Kept(r, d)
    BY <2>19 DEF StartNet, Goto
  <2>20. ASSUME NEW c \in Call, NetAbort(c) PROVE Kept(r, d)
    BY <2>20 DEF NetAbort, Goto, Finish, AfterBody, Restored
  <2>21. ASSUME NEW c \in Call, Send(c) PROVE Kept(r, d)
    BY <2>21 DEF Send, Goto
  <2>22. ASSUME NEW c \in Call, Unlock(c) PROVE Kept(r, d)
    <3>1. /\ Shared(cwd[rt[c]]) /\ UNCHANGED <<cwd, kind, rt, saved>>
          /\ holder' = [holder EXCEPT ![rt[c]] = Nil]
          /\ worker' = [worker EXCEPT ![c] = "done"]
      BY <2>22 DEF Unlock, Goto
    <3>2. (r \in Runtime /\ holder[r] = Nil => Shared(cwd[r]))'
      BY <3>1
    <3>3. (d \in Call => CwdOf(d))'
      BY <3>1
    <3> QED
      BY <3>2, <3>3
  <2>23. ASSUME NEW c \in Call, RunSegment(c) PROVE Kept(r, d)
    BY <2>23 DEF RunSegment
  <2>24. ASSUME NEW c \in Call, NetAnswer(c) PROVE Kept(r, d)
    BY <2>24 DEF NetAnswer, Goto, Finish, AfterBody, Restored
  <2>25. ASSUME NEW c \in Call, EndDeaf(c) PROVE Kept(r, d)
    BY <2>25 DEF EndDeaf, Goto, Finish, AfterBody, Restored
  <2>26. ASSUME NEW c \in Call, Panic(c) PROVE Kept(r, d)
    BY <2>26 DEF Panic
  <2>27. ASSUME NEW a \in Admin, AdminStep(a) PROVE Kept(r, d)
    BY <2>27 DEF AdminStep, InitSdk, AskCancel, DoCancel, CancelHandle,
      TakeSdk, UseRuntime, AdminGoto
  <2>28. CASE UNCHANGED vars
    BY <2>28 DEF vars
  <2> QED
    BY <2>1, <2>2, <2>3, <2>4, <2>5, <2>6, <2>7, <2>8, <2>9, <2>10, <2>11,
      <2>12, <2>13, <2>14, <2>15, <2>16, <2>17, <2>18, <2>19, <2>20,
      <2>21, <2>22, <2>23, <2>24, <2>25, <2>26, <2>27, <2>28 DEF Next,
      HostStep, WorkerStep
<1> QED
  BY <1>1, <1>2, TypeCorrect, ProtocolHolds, LockHolds, PTL DEF Spec, CwdInv

-----------------------------------------------------------------------------
(* One cancellation, one victim at most.                                   *)

\* A host that makes one call after the other, all of them with a timeout or
\* to Python.
OneByOne == ~Concurrent /\ Kinds \cap InlineKinds = {}

\* What such a host brings about: one call is under way, and Python never
\* looks at the flag.
Lonely ==
    /\ \A c, d \in Call : InFlight(c) /\ InFlight(d) => c = d
    /\ \A c \in Call : kind[c] \in WorkerKinds \cup {"python"}
    /\ \A c \in Call : ~Timed(c) => out[c] # "cancelled" /\ worker[c] # "cd"

LEMMA HostIsLonely ==
  ASSUME OneByOne
  PROVE  Spec => []Lonely
<1>1. Init => Lonely
  BY SdkAssumption DEF SdkAssumption, OneByOne, Init, Lonely, InFlight, AllKinds,
    WorkerKinds, InlineKinds, Codes
<1>2. TypeOK /\ Protocol /\ Lonely /\ [Next]_vars => Lonely'
  <2> SUFFICES ASSUME TypeOK, Protocol, Lonely, [Next]_vars PROVE Lonely'
    OBVIOUS
  <2> USE SdkAssumption DEF SdkAssumption, OneByOne, TypeOK, Protocol,
              ProtocolOf, Lonely, InFlight, Timed, WorkerKinds, InKinds,
              shared, front, rtvars, caller, thread
  <2>1. ASSUME NEW c \in Call, Open(c) PROVE Lonely'
    BY <2>1 DEF Open
  <2>2. ASSUME NEW c \in Call, Expire(c) PROVE Lonely'
    BY <2>2 DEF Expire
  <2>3. ASSUME NEW c \in Call, Arm(c) PROVE Lonely'
    BY <2>3 DEF Arm, Spawn
  <2>4. ASSUME NEW c \in Call, Reset(c) PROVE Lonely'
    BY <2>4 DEF Reset, Spawn
  <2>5. ASSUME NEW c \in Call, StartPython(c) PROVE Lonely'
    BY <2>5 DEF StartPython
  <2>6. ASSUME NEW c \in Call, RecvResult(c) PROVE Lonely'
    BY <2>6 DEF RecvResult, Return
  <2>7. ASSUME NEW c \in Call, RecvTimeout(c) PROVE Lonely'
    BY <2>7 DEF RecvTimeout
  <2>8. ASSUME NEW c \in Call, GiveUp(c) PROVE Lonely'
    BY <2>8 DEF GiveUp, Return
  <2>9. ASSUME NEW c \in Call, InlineReturn(c) PROVE Lonely'
    BY <2>9 DEF InlineReturn, Return
  <2>10. ASSUME NEW c \in Call, Poll(c) PROVE Lonely'
    BY <2>10 DEF Poll, Goto
  <2>11. ASSUME NEW c \in Call, TryLock(c) PROVE Lonely'
    BY <2>11 DEF TryLock, Goto
  <2>12. ASSUME NEW c \in Call, Recheck(c) PROVE Lonely'
    BY <2>12 DEF Recheck, Goto, FirstStep
  <2>13. ASSUME NEW c \in Call, BlockingLock(c) PROVE Lonely'
    BY <2>13 DEF BlockingLock, Goto, FirstStep
  <2>14. ASSUME NEW c \in Call, Drop(c) PROVE Lonely'
    BY <2>14 DEF Drop, Goto
  <2>15. ASSUME NEW c \in Call, Tell(c) PROVE Lonely'
    BY <2>15 DEF Tell, Goto
  <2>16. ASSUME NEW c \in Call, EnterDir(c) PROVE Lonely'
    BY <2>16 DEF EnterDir, Goto, Finish, AfterBody
  <2>17. ASSUME NEW c \in Call, ObserveCancel(c) PROVE Lonely'
    BY <2>17 DEF ObserveCancel, Goto, Finish, AfterBody, Python
  <2>18. ASSUME NEW c \in Call, EndShort(c) PROVE Lonely'
    BY <2>18 DEF EndShort, Goto, Finish, AfterBody
  <2>19. ASSUME NEW c \in Call, StartNet(c) PROVE Lonely'
    BY <2>19 DEF StartNet, Goto
  <2>20. ASSUME NEW c \in Call, NetAbort(c) PROVE Lonely'
    BY <2>20 DEF NetAbort, Goto, Finish, AfterBody
  <2>21. ASSUME NEW c \in Call, Send(c) PROVE Lonely'
    BY <2>21 DEF Send, Goto
  <2>22. ASSUME NEW c \in Call, Unlock(c) PROVE Lonely'
    BY <2>22 DEF Unlock, Goto
  <2>23. ASSUME NEW c \in Call, RunSegment(c) PROVE Lonely'
    BY <2>23 DEF RunSegment
  <2>24. ASSUME NEW c \in Call, NetAnswer(c) PROVE Lonely'
    BY <2>24 DEF NetAnswer, Goto, Finish, AfterBody
  <2>25. ASSUME NEW c \in Call, EndDeaf(c) PROVE Lonely'
    BY <2>25 DEF EndDeaf, Goto, Finish, AfterBody
  <2>26. ASSUME NEW c \in Call, Panic(c) PROVE Lonely'
    BY <2>26 DEF Panic, Goto, Finish, AfterBody
  <2>27. ASSUME NEW a \in Admin, AdminStep(a) PROVE Lonely'
    BY <2>27 DEF AdminStep, InitSdk, AskCancel, DoCancel, CancelHandle,
      TakeSdk, UseRuntime, AdminGoto
  <2>28. CASE UNCHANGED vars
    BY <2>28 DEF vars
  <2> QED
    BY <2>1, <2>2, <2>3, <2>4, <2>5, <2>6, <2>7, <2>8, <2>9, <2>10, <2>11,
      <2>12, <2>13, <2>14, <2>15, <2>16, <2>17, <2>18, <2>19, <2>20,
      <2>21, <2>22, <2>23, <2>24, <2>25, <2>26, <2>27, <2>28 DEF Next,
      HostStep, WorkerStep
<1> QED
  BY <1>1, <1>2, TypeCorrect, ProtocolHolds, PTL DEF Spec

\* A call that the cancellation will end, or may: it has cleared the flag, and
\* has since seen it set, or has yet to look.
Doomed(c) ==
    \/ host[c] = "half" /\ kind[c] = "override" /\ cancel
    \/ /\ host[c] = "recv"
       /\ \/ cancel \/ worker[c] \in {"drop", "tell"}
          \/ "cancelled" \in {out[c], chan[c]}

\* Every victim, and the one that may be next, has a cancellation of its own.
Paid ==
    /\ IsFiniteSet(Cancelled) /\ IsFiniteSet(CancelsAsked)
    /\ OneVictimPerCancel
    /\ (\E c \in Call : Doomed(c)) =>
           Cardinality(Cancelled) + 1 <= Cardinality(CancelsAsked)

\* What a step may do to victims and cancellations: nothing, ask for one
\* more, or make the call that was doomed a victim.
Quiet == /\ Cancelled' = Cancelled /\ CancelsAsked' = CancelsAsked
         /\ \A c \in Call : Doomed(c)' => Doomed(c)
Asks(a) == /\ Cancelled' = Cancelled /\ a \notin CancelsAsked
           /\ CancelsAsked' = CancelsAsked \cup {a}
Strikes(c) == /\ Doomed(c) /\ c \notin Cancelled
              /\ Cancelled' = Cancelled \cup {c} /\ CancelsAsked' = CancelsAsked
              /\ \A d \in Call : ~Doomed(d)'
Fair == \/ Quiet \/ \E a \in Admin : Asks(a)
        \/ \E c \in Call : Strikes(c)

LEMMA StepsAreFair ==
  ASSUME OneByOne, TypeOK, Protocol, Lonely, [Next]_vars
  PROVE  Fair
<1> USE SdkAssumption DEF SdkAssumption, TypeOK, Protocol, ProtocolOf, Lonely,
            InFlight, Timed, WorkerKinds, InKinds, Codes, Quiet, Cancelled,
            CancelsAsked, Doomed, shared, front, rtvars, caller, thread
<1>1. ASSUME NEW c \in Call, Open(c) PROVE Quiet
  BY <1>1 DEF Open
<1>2. ASSUME NEW c \in Call, Expire(c) PROVE Quiet
  BY <1>2 DEF Expire
<1>3. ASSUME NEW c \in Call, Arm(c) PROVE Quiet
  BY <1>3 DEF Arm, Spawn
<1>4. ASSUME NEW c \in Call, Reset(c) PROVE Quiet
  BY <1>4 DEF Reset, Spawn
<1>5. ASSUME NEW c \in Call, StartPython(c) PROVE Quiet
  BY <1>5 DEF StartPython
<1>6. ASSUME NEW c \in Call, RecvResult(c) PROVE Fair
  <2>1. CASE chan[c] = "cancelled"
    <3>1. Cancelled' = Cancelled \cup {c}
      BY <1>6, <2>1 DEF RecvResult, Return
    <3> HIDE DEF Quiet
    <3>2. Strikes(c)
      BY <1>6, <2>1, <3>1 DEF RecvResult, Return, Strikes
    <3> QED
      BY <3>2 DEF Fair
  <2>2. CASE chan[c] # "cancelled"
    <3>1. Quiet
      BY <1>6, <2>2 DEF RecvResult, Return
    <3> QED
      BY <3>1 DEF Fair
  <2> QED
    BY <2>1, <2>2
<1>7. ASSUME NEW c \in Call, RecvTimeout(c) PROVE Quiet
  BY <1>7 DEF RecvTimeout
<1>8. ASSUME NEW c \in Call, GiveUp(c) PROVE Quiet
  BY <1>8 DEF GiveUp, Return
<1>9. ASSUME NEW c \in Call, InlineReturn(c) PROVE Quiet
  BY <1>9 DEF InlineReturn, Return
<1>10. ASSUME NEW c \in Call, Poll(c) PROVE Quiet
  BY <1>10 DEF Poll, Goto
<1>11. ASSUME NEW c \in Call, TryLock(c) PROVE Quiet
  BY <1>11 DEF TryLock, Goto
<1>12. ASSUME NEW c \in Call, Recheck(c) PROVE Quiet
  BY <1>12 DEF Recheck, Goto, FirstStep
<1>13. ASSUME NEW c \in Call, BlockingLock(c) PROVE Quiet
  BY <1>13 DEF BlockingLock, Goto, FirstStep
<1>14. ASSUME NEW c \in Call, Drop(c) PROVE Quiet
  BY <1>14 DEF Drop, Goto
<1>15. ASSUME NEW c \in Call, Tell(c) PROVE Quiet
  BY <1>15 DEF Tell, Goto
<1>16. ASSUME NEW c \in Call, EnterDir(c) PROVE Quiet
  BY <1>16 DEF EnterDir, Goto, Finish, AfterBody
<1>17. ASSUME NEW c \in Call, ObserveCancel(c) PROVE Quiet
  BY <1>17 DEF ObserveCancel, Goto, Finish, AfterBody, Python
<1>18. ASSUME NEW c \in Call, EndShort(c) PROVE Quiet
  BY <1>18 DEF EndShort, Goto, Finish, AfterBody
<1>19. ASSUME NEW c \in Call, StartNet(c) PROVE Quiet
  BY <1>19 DEF StartNet, Goto
<1>20. ASSUME NEW c \in Call, NetAbort(c) PROVE Quiet
  BY <1>20 DEF NetAbort, Goto, Finish, AfterBody
<1>21. ASSUME NEW c \in Call, Send(c) PROVE Quiet
  BY <1>21 DEF Send, Goto
<1>22. ASSUME NEW c \in Call, Unlock(c) PROVE Quiet
  BY <1>22 DEF Unlock, Goto
<1>23. ASSUME NEW c \in Call, RunSegment(c) PROVE Quiet
  BY <1>23 DEF RunSegment
<1>24. ASSUME NEW c \in Call, NetAnswer(c) PROVE Quiet
  BY <1>24 DEF NetAnswer, Goto, Finish, AfterBody
<1>25. ASSUME NEW c \in Call, EndDeaf(c) PROVE Quiet
  BY <1>25 DEF EndDeaf, Goto, Finish, AfterBody
<1>26. ASSUME NEW c \in Call, Panic(c) PROVE Quiet
  BY <1>26 DEF Panic, Goto, Finish, AfterBody
<1>27. ASSUME NEW a \in Admin, AdminStep(a) PROVE Fair
  <2>1. CASE InitSdk(a) \/ AskCancel(a) \/ TakeSdk(a) \/ UseRuntime(a)
    <3>1. Quiet
      BY <2>1 DEF InitSdk, AskCancel, TakeSdk, UseRuntime, AdminGoto
    <3> QED
      BY <3>1 DEF Fair
  <2>2. CASE DoCancel(a) \/ CancelHandle(a)
    <3>1. Asks(a)
      BY <2>2 DEF DoCancel, CancelHandle, AdminGoto, Asks
    <3> QED
      BY <3>1 DEF Fair
  <2> QED
    BY <1>27, <2>1, <2>2 DEF AdminStep
<1>28. CASE UNCHANGED vars
  <2>1. Cancelled' = Cancelled /\ CancelsAsked' = CancelsAsked
    BY <1>28 DEF vars
  <2>2. \A c \in Call : Doomed(c)' <=> Doomed(c)
    BY <1>28 DEF vars
  <2> QED
    BY <2>1, <2>2 DEF Fair
<1> HIDE DEF Quiet
<1> QED
  BY <1>1, <1>2, <1>3, <1>4, <1>5, <1>6, <1>7, <1>8, <1>9, <1>10, <1>11,
    <1>12, <1>13, <1>14, <1>15, <1>16, <1>17, <1>18, <1>19, <1>20, <1>21,
    <1>22, <1>23, <1>24, <1>25, <1>26, <1>27, <1>28 DEF Fair, Next,
    HostStep, WorkerStep

\* "Cancel the currently executing command": one cancellation ends one call at
\* most, whatever orphans and timed-out calls leave behind in the flag.
THEOREM CancelEndsOne ==
  ASSUME OneByOne
  PROVE  Spec => []OneVictimPerCancel
<1>1. Init => Paid
  <2> SUFFICES ASSUME Init PROVE Paid
    OBVIOUS
  <2>1. Cancelled = {} /\ CancelsAsked = {} /\ \A c \in Call : ~Doomed(c)
    BY SdkAssumption DEF SdkAssumption, Codes, Init, Cancelled, CancelsAsked, Doomed
  <2> QED
    BY <2>1, FS_EmptySet DEF Paid, OneVictimPerCancel
<1>2. Paid /\ Fair => Paid'
  <2> SUFFICES ASSUME Paid, Fair PROVE Paid'
    OBVIOUS
  <2> DEFINE m == Cardinality(Cancelled)
             n == Cardinality(CancelsAsked)
  <2>1. m \in Nat /\ n \in Nat /\ m <= n
    BY FS_CardinalityType DEF Paid, OneVictimPerCancel
  <2>2. CASE Quiet
    BY <2>2 DEF Quiet, Paid, OneVictimPerCancel
  <2>3. ASSUME NEW a \in Admin, Asks(a) PROVE Paid'
    <3>1. Cardinality(CancelsAsked') = n + 1 /\ IsFiniteSet(CancelsAsked')
      BY <2>3, FS_AddElement DEF Asks, Paid
    <3> QED
      BY <2>1, <2>3, <3>1 DEF Asks, Paid, OneVictimPerCancel
  <2>4. ASSUME NEW c \in Call, Strikes(c) PROVE Paid'
    <3>1. Cardinality(Cancelled') = m + 1 /\ IsFiniteSet(Cancelled')
      BY <2>4, FS_AddElement DEF Strikes, Paid
    <3>2. m + 1 <= n
      BY <2>4 DEF Strikes, Paid
    <3> QED
      BY <2>1, <2>4, <3>1, <3>2 DEF Strikes, Paid, OneVictimPerCancel
  <2> QED
    BY <2>2, <2>3, <2>4 DEF Fair
<1>3. TypeOK /\ Protocol /\ Lonely /\ Paid /\ [Next]_vars => Paid'
  BY <1>2, StepsAreFair
<1>4. Paid => OneVictimPerCancel
  BY DEF Paid
<1> QED
  BY <1>1, <1>3, <1>4, TypeCorrect, ProtocolHolds, HostIsLonely, PTL DEF Spec

-----------------------------------------------------------------------------
(* The contract: initial states of SdkExec are initial states of HostContract, *)
(* and each step is a step of it or changes nothing the host can see.       *)

\* The invariants the refinement rests on.
Inv == TypeOK /\ Protocol /\ LockExact

\* No step of the contract: the host sees no difference.
LEMMA NothingSeen ==
    ASSUME UNCHANGED <<rt, result, out>>,
           \A c \in Call : PhaseOf(c)' = PhaseOf(c)
    PROVE  UNCHANGED HC!vars
  BY DEF HC!vars, phase

\* A step of c moves the phase of c only.
LEMMA OnePhaseMoves ==
    ASSUME NEW c \in Call,
           \A d \in Call \ {c} : /\ worker'[d] = worker[d] /\ out'[d] = out[d]
                                 /\ result'[d] = result[d]
    PROVE  phase' = [phase EXCEPT ![c] = PhaseOf(c)']
<1>1. \A d \in Call \ {c} : PhaseOf(d)' = PhaseOf(d)
  BY DEF PhaseOf
<1> QED
  BY <1>1 DEF phase

\* The end of a command, whatever its code and its directory, is HC!End.
LEMMA FinishEnds ==
    ASSUME NEW c \in Call, TypeOK, Protocol, NEW code \in Codes,
           worker[c] \in {"cd", "body", "net"}, \E d : Finish(c, code, d),
           UNCHANGED <<rt, result>>
    PROVE  HC!End(c)
<1>1. PhaseOf(c) = "running" /\ PhaseOf(c)' = "over"
  BY SdkAssumption
  DEF SdkAssumption, TypeOK, Protocol, ProtocolOf, PhaseOf, Finish, Codes
<1>2. phase' = [phase EXCEPT ![c] = "over"]
  BY <1>1, OnePhaseMoves DEF TypeOK, Finish, Goto
<1> QED
  BY <1>1, <1>2 DEF HC!End, Finish, phase

\* A worker that gets as far as its first step, alone with the mutex of its
\* runtime, is HC!Start.
LEMMA FirstStepStarts ==
    ASSUME NEW c \in Call, TypeOK, Protocol, LockExact,
           \A d \in Call : Executing(d) \/ worker[d] = "cd" => rt[d] # rt[c],
           worker[c] \in {"got", "lock"}, Goto(c, FirstStep(c)),
           UNCHANGED <<rt, result, out>>
    PROVE  HC!Start(c)
<1>1. PhaseOf(c) = "waiting" /\ PhaseOf(c)' = "running"
  BY DEF TypeOK, Protocol, ProtocolOf, PhaseOf, Goto, FirstStep
<1>2. phase' = [phase EXCEPT ![c] = "running"]
  BY <1>1, OnePhaseMoves DEF TypeOK, Goto
<1>3. \A d \in Call : phase[d] = "running" => rt[d] # rt[c]
  BY DEF phase, PhaseOf, Executing
<1> QED
  BY <1>1, <1>2, <1>3 DEF HC!Start, phase

\* The initial states of the protocol are initial states of the contract.
LEMMA ContractInit == Init => HC!Init
<1> SUFFICES ASSUME Init PROVE HC!Init
  OBVIOUS
<1>1. phase = [c \in Call |-> "waiting"]
  BY DEF Init, phase, PhaseOf
<1>2. rt \in [Call -> Runtime]
  BY SdkAssumption DEF SdkAssumption, Init, Runtime
<1> QED
  BY <1>1, <1>2 DEF Init, HC!Init

\* Every step of the protocol maps to a step or a stutter of the contract.
LEMMA ContractStep == Inv /\ Inv' /\ [Next]_vars => [HC!Next]_(HC!vars)
<1> SUFFICES ASSUME Inv, Inv', [Next]_vars
             PROVE  HC!Next \/ UNCHANGED HC!vars
  OBVIOUS
<1> USE SdkAssumption DEF SdkAssumption, Inv, TypeOK, Protocol, ProtocolOf, Timed,
        shared, front, rtvars, caller, thread
<1>1. ASSUME NEW c \in Call, Open(c) PROVE HC!Bind(c) \/ HC!Reject(c)
  <2>1. PhaseOf(c) = "waiting" /\ result[c] = Nil
    BY <1>1 DEF Open, PhaseOf
  <2>2. CASE initialized
    <3>1. UNCHANGED phase
      BY <1>1, <2>2 DEF Open, phase, PhaseOf
    <3> QED
      BY <1>1, <2>1, <2>2, <3>1 DEF Open, HC!Bind, phase
  <2>3. CASE ~initialized
    <3>1. PhaseOf(c)' = "refused"
      BY <1>1, <2>3 DEF Open, PhaseOf, Codes
    <3>2. phase' = [phase EXCEPT ![c] = "refused"]
      BY <1>1, <2>3, <3>1, OnePhaseMoves DEF Open
    <3> QED
      BY <1>1, <2>1, <2>3, <3>2 DEF Open, HC!Reject, phase
  <2> QED
    BY <2>2, <2>3
<1>2. ASSUME NEW c \in Call, Expire(c) PROVE UNCHANGED HC!vars
  BY <1>2, NothingSeen DEF Expire, PhaseOf
<1>3. ASSUME NEW c \in Call, Arm(c) PROVE UNCHANGED HC!vars
  BY <1>3, NothingSeen DEF Arm, Spawn, PhaseOf
<1>4. ASSUME NEW c \in Call, Reset(c) PROVE UNCHANGED HC!vars
  BY <1>4, NothingSeen DEF Reset, Spawn, PhaseOf
<1>5. ASSUME NEW c \in Call, StartPython(c) PROVE UNCHANGED HC!vars
  BY <1>5, NothingSeen DEF StartPython, PhaseOf
<1>6. ASSUME NEW c \in Call, RecvResult(c) PROVE HC!Answer(c)
  BY <1>6 DEF RecvResult, Return, PhaseOf, HC!Answer, phase, Codes
<1>7. ASSUME NEW c \in Call, RecvTimeout(c) PROVE UNCHANGED HC!vars
  BY <1>7, NothingSeen DEF RecvTimeout, PhaseOf
<1>8. ASSUME NEW c \in Call, GiveUp(c) PROVE HC!Answer(c)
  BY <1>8 DEF GiveUp, Return, PhaseOf, HC!Answer, phase, Codes
<1>9. ASSUME NEW c \in Call, InlineReturn(c) PROVE HC!Answer(c)
  BY <1>9 DEF InlineReturn, Return, PhaseOf, HC!Answer, phase, Codes
<1>10. ASSUME NEW c \in Call, Poll(c) PROVE HC!Refuse(c) \/ UNCHANGED HC!vars
  <2>1. CASE cancel
    <3>1. PhaseOf(c) = "waiting" /\ PhaseOf(c)' = "refused"
      BY <1>10, <2>1 DEF Poll, Goto, PhaseOf
    <3>2. phase' = [phase EXCEPT ![c] = "refused"]
      BY <1>10, <3>1, OnePhaseMoves DEF Poll, Goto
    <3> QED
      BY <1>10, <3>1, <3>2 DEF Poll, HC!Refuse, phase
  <2>2. CASE ~cancel
    BY <1>10, <2>2, NothingSeen DEF Poll, Goto, PhaseOf
  <2> QED
    BY <2>1, <2>2
<1>11. ASSUME NEW c \in Call, TryLock(c) PROVE UNCHANGED HC!vars
  BY <1>11, NothingSeen DEF TryLock, Goto, PhaseOf
<1>12. ASSUME NEW c \in Call, Recheck(c) PROVE HC!Start(c) \/ UNCHANGED HC!vars
  <2>1. CASE cancel
    BY <1>12, <2>1, NothingSeen DEF Recheck, Goto, PhaseOf
  <2>2. CASE ~cancel
    <3>1. \A d \in Call : Executing(d) \/ worker[d] = "cd" => rt[d] # rt[c]
      BY <1>12 DEF Recheck, Executing, LockExact, Holds
    <3> QED
      BY <1>12, <2>2, <3>1, FirstStepStarts DEF Recheck
  <2> QED
    BY <2>1, <2>2
<1>13. ASSUME NEW c \in Call, BlockingLock(c) PROVE HC!Start(c)
  <2>1. \A d \in Call : Executing(d) \/ worker[d] = "cd" => rt[d] # rt[c]
    BY <1>13 DEF BlockingLock, Executing, LockExact, Holds
  <2> QED
    BY <1>13, <2>1, FirstStepStarts DEF BlockingLock
<1>14. ASSUME NEW c \in Call, Drop(c) PROVE HC!Refuse(c)
  <2>1. PhaseOf(c) = "waiting" /\ PhaseOf(c)' = "refused"
    BY <1>14 DEF Drop, Goto, PhaseOf
  <2>2. phase' = [phase EXCEPT ![c] = "refused"]
    BY <1>14, <2>1, OnePhaseMoves DEF Drop, Goto
  <2> QED
    BY <1>14, <2>1, <2>2 DEF Drop, HC!Refuse, phase
<1>15. ASSUME NEW c \in Call, Tell(c) PROVE UNCHANGED HC!vars
  BY <1>15, NothingSeen DEF Tell, Goto, PhaseOf
<1>16. ASSUME NEW c \in Call, EnterDir(c) PROVE HC!End(c) \/ UNCHANGED HC!vars
  <2>1. CASE worker'[c] = "body"
    BY <1>16, <2>1, NothingSeen DEF EnterDir, Goto, Finish, AfterBody, PhaseOf
  <2>2. CASE worker'[c] # "body"
    <3>1. PICK code \in Codes : \E d : Finish(c, code, d)
      BY <1>16, <2>2 DEF EnterDir, Codes, Goto
    <3> QED
      BY <1>16, <3>1, FinishEnds DEF EnterDir
  <2> QED
    BY <2>1, <2>2
<1>17. ASSUME NEW c \in Call, ObserveCancel(c) PROVE HC!End(c)
  <2>1. PICK code \in Codes : \E d : Finish(c, code, d)
    BY <1>17 DEF ObserveCancel, Codes
  <2> QED
    BY <1>17, <2>1, FinishEnds DEF ObserveCancel
<1>18. ASSUME NEW c \in Call, EndShort(c) PROVE HC!End(c)
  <2>1. PICK code \in Codes : \E d : Finish(c, code, d)
    BY <1>18 DEF EndShort, Codes
  <2> QED
    BY <1>18, <2>1, FinishEnds DEF EndShort
<1>19. ASSUME NEW c \in Call, StartNet(c) PROVE UNCHANGED HC!vars
  BY <1>19, NothingSeen DEF StartNet, Goto, PhaseOf
<1>20. ASSUME NEW c \in Call, NetAbort(c) PROVE HC!End(c)
  <2>1. PICK code \in Codes : \E d : Finish(c, code, d)
    BY <1>20 DEF NetAbort, Codes
  <2> QED
    BY <1>20, <2>1, FinishEnds DEF NetAbort
<1>21. ASSUME NEW c \in Call, Send(c) PROVE UNCHANGED HC!vars
  BY <1>21, NothingSeen DEF Send, Goto, PhaseOf
<1>22. ASSUME NEW c \in Call, Unlock(c) PROVE UNCHANGED HC!vars
  BY <1>22, NothingSeen DEF Unlock, Goto, PhaseOf
<1>23. ASSUME NEW c \in Call, RunSegment(c) PROVE UNCHANGED HC!vars
  BY <1>23, NothingSeen DEF RunSegment, PhaseOf
<1>24. ASSUME NEW c \in Call, NetAnswer(c) PROVE HC!End(c)
  <2>1. PICK code \in Codes : \E d : Finish(c, code, d)
    BY <1>24 DEF NetAnswer, Codes
  <2> QED
    BY <1>24, <2>1, FinishEnds DEF NetAnswer
<1>25. ASSUME NEW c \in Call, EndDeaf(c) PROVE HC!End(c)
  <2>1. PICK code \in Codes : \E d : Finish(c, code, d)
    BY <1>25 DEF EndDeaf, Codes
  <2> QED
    BY <1>25, <2>1, FinishEnds DEF EndDeaf
<1>26. ASSUME NEW c \in Call, Panic(c) PROVE HC!End(c)
  <2>1. PICK code \in Codes : \E d : Finish(c, code, d)
    BY <1>26 DEF Panic, Codes
  <2> QED
    BY <1>26, <2>1, FinishEnds DEF Panic, Executing
<1>27. ASSUME NEW a \in Admin, AdminStep(a) PROVE UNCHANGED HC!vars
  BY <1>27, NothingSeen DEF AdminStep, InitSdk, AskCancel, DoCancel,
    CancelHandle, TakeSdk, UseRuntime, AdminGoto, PhaseOf
<1>28. CASE UNCHANGED vars
  BY <1>28, NothingSeen DEF vars, PhaseOf
<1> QED
  BY <1>1, <1>2, <1>3, <1>4, <1>5, <1>6, <1>7, <1>8, <1>9, <1>10, <1>11,
    <1>12, <1>13, <1>14, <1>15, <1>16, <1>17, <1>18, <1>19, <1>20, <1>21,
    <1>22, <1>23, <1>24, <1>25, <1>26, <1>27, <1>28 DEF Next, HostStep,
    WorkerStep, HC!Next

\* Every behaviour of the SDK is one HostContract allows: a command runs at
\* most once, alone on its runtime, and its caller gets its outcome, a refusal
\* of a command that never ran, or a timeout (src/src/sdk/mod.rs).
THEOREM ContractImplemented == Spec => Contract
<1>1. Spec => []Inv
  BY TypeCorrect, ProtocolHolds, LockHolds, PTL DEF Inv
<1> QED
  BY <1>1, ContractInit, ContractStep, PTL DEF Spec, Contract, HC!Spec
=============================================================================
