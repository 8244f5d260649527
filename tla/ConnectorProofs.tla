-------------------------- MODULE ConnectorProofs --------------------------
(***************************************************************************)
(* Proofs about the tunnel manager, for any number of calls of runTunnel.  *)
(***************************************************************************)
EXTENDS Connector, TLAPS

\* Only a task that was started has a context to cancel.
CancelledStarted == \A t \in cancelled : pc[t] # "unused"

\* The invariants are inductive together with it.
IInv == TypeOK /\ CancelledStarted /\ OneLiveTask /\ AddressOfLiveTunnel

LEMMA InductiveInit == Init => IInv
  BY NoneAssumption DEF Init, IInv, TypeOK, CancelledStarted, OneLiveTask,
     AddressOfLiveTunnel, Running, TaskOrNil, Status, Error, PC, InServeOnce

\* A step of a task that only moves it on inside its loop, and takes it away
\* from no place where its address may be on show, keeps the invariant.
LEMMA MoveStep ==
  ASSUME IInv, TypeOK', NEW t \in Task, pc[t] # "unused", pc'[t] # "unused",
         Running(t)' => Running(t),
         \A u \in Task \ {t} : pc'[u] = pc[u],
         UNCHANGED <<current, cancelled>>,
         \/ publicAddr' = None
         \/ publicAddr' = t /\ pc'[t] = "serving"
         \/ publicAddr' = publicAddr /\ publicAddr # t
         \/ /\ publicAddr' = publicAddr
            /\ pc'[t] \in {"serving", "failed", "goIdle", "goRetry"}
  PROVE  IInv'
  <1> USE NoneAssumption DEF IInv, TypeOK, CancelledStarted, TaskOrNil
  <1>1. OneLiveTask'
    BY DEF OneLiveTask, Running
  <1>2. AddressOfLiveTunnel'
    BY DEF AddressOfLiveTunnel
  <1>3. QED
    BY <1>1, <1>2

LEMMA TypeStep == TypeOK /\ [Next]_vars => TypeOK'
  <1> SUFFICES ASSUME TypeOK, [Next]_vars PROVE TypeOK'
    OBVIOUS
  <1> USE NoneAssumption DEF TypeOK, TaskOrNil, Status, Error, ErrorKind, Said, PC,
          InServeOnce, Goto, shown
  <1>1. ASSUME NEW t \in Task, Connect(t) PROVE TypeOK'
    BY <1>1 DEF Connect
  <1>2. CASE Disconnect
    BY <1>2 DEF Disconnect
  <1>3. ASSUME NEW t \in Task, TaskStep(t) PROVE TypeOK'
    <2>1. CASE Begin(t)
      BY <2>1 DEF Begin
    <2>2. CASE Dial(t) \/ Reply(t) \/ SetUp(t) \/ Drop(t) \/ CheckContext(t) \/ Backoff(t)
      BY <2>2 DEF Dial, Reply, SetUp, Drop, CheckContext, Backoff
    <2>3. CASE MarkConnected(t)
      BY <2>3 DEF MarkConnected
    <2>4. CASE GoIdle(t)
      BY <2>4 DEF GoIdle
    <2>5. CASE GoError(t)
      BY <2>5 DEF GoError
    <2>6. CASE GoRetry(t)
      BY <2>6 DEF GoRetry
    <2>7. QED
      BY <1>3, <2>1, <2>2, <2>3, <2>4, <2>5, <2>6 DEF TaskStep
  <1>4. ASSUME NEW t \in Task, StreamArrives(t) PROVE TypeOK'
    BY <1>4 DEF StreamArrives
  <1>5. ASSUME NEW t \in Task, LocalDialEnds(t) PROVE TypeOK'
    BY <1>5 DEF LocalDialEnds
  <1>6. CASE UNCHANGED vars
    BY <1>6 DEF vars
  <1>7. QED
    BY <1>1, <1>2, <1>3, <1>4, <1>5, <1>6 DEF Next

LEMMA InductiveStep == IInv /\ [Next]_vars => IInv'
  <1> SUFFICES ASSUME IInv, [Next]_vars PROVE IInv'
    OBVIOUS
  <1>0. TypeOK'
    BY TypeStep DEF IInv
  <1> USE NoneAssumption DEF IInv, TypeOK, CancelledStarted, TaskOrNil, Goto, shown
  <1>1. ASSUME NEW t \in Task, Connect(t) PROVE IInv'
    <2>1. OneLiveTask'
      BY <1>1 DEF Connect, OneLiveTask, Running
    <2>2. AddressOfLiveTunnel'
      BY <1>1 DEF Connect, AddressOfLiveTunnel
    <2>3. CancelledStarted'
      <3>1. \A u \in Task : pc[u] # "unused" => pc'[u] # "unused"
        BY <1>1 DEF Connect
      <3>2. QED
        BY <1>1, <3>1 DEF Connect, OneLiveTask
    <2>4. QED
      BY <1>0, <2>1, <2>2, <2>3
  <1>2. CASE Disconnect
    BY <1>0, <1>2 DEF Disconnect, OneLiveTask, AddressOfLiveTunnel, Running
  <1>3. ASSUME NEW t \in Task, TaskStep(t) PROVE IInv'
    <2> USE DEF Running
    <2>1. CASE Begin(t)
      BY <1>0, <2>1, MoveStep DEF Begin, AddressOfLiveTunnel
    <2>2. CASE Dial(t)
      BY <1>0, <2>2, MoveStep DEF Dial, AddressOfLiveTunnel
    <2>3. CASE Reply(t)
      BY <1>0, <2>3, MoveStep DEF Reply, AddressOfLiveTunnel
    <2>4. CASE SetUp(t)
      BY <1>0, <2>4, MoveStep DEF SetUp, AddressOfLiveTunnel
    <2>5. CASE MarkConnected(t)
      BY <1>0, <2>5, MoveStep DEF MarkConnected
    <2>6. CASE Drop(t)
      BY <1>0, <2>6, MoveStep DEF Drop
    <2>7. CASE CheckContext(t)
      BY <1>0, <2>7, MoveStep DEF CheckContext, AddressOfLiveTunnel
    <2>8. CASE GoIdle(t)
      BY <1>0, <2>8, MoveStep DEF GoIdle
    <2>9. CASE GoError(t)
      BY <1>0, <2>9, MoveStep DEF GoError
    <2>10. CASE GoRetry(t)
      BY <1>0, <2>10, MoveStep DEF GoRetry
    <2>11. CASE Backoff(t)
      BY <1>0, <2>11, MoveStep DEF Backoff, AddressOfLiveTunnel
    <2>12. QED
      BY <1>3, <2>1, <2>2, <2>3, <2>4, <2>5, <2>6, <2>7, <2>8, <2>9, <2>10, <2>11
         DEF TaskStep
  <1>4. ASSUME NEW t \in Task, StreamArrives(t) \/ LocalDialEnds(t) PROVE IInv'
    BY <1>0, <1>4 DEF StreamArrives, LocalDialEnds, OneLiveTask, AddressOfLiveTunnel, Running
  <1>5. CASE UNCHANGED vars
    BY <1>0, <1>5 DEF vars, OneLiveTask, AddressOfLiveTunnel, Running
  <1>6. QED
    BY <1>1, <1>2, <1>3, <1>4, <1>5 DEF Next

LEMMA Inductive == Spec => []IInv
  BY InductiveInit, InductiveStep, PTL DEF Spec

\* Every variable of the tunnel manager has its type.
THEOREM TypeCorrect == Spec => []TypeOK
  BY Inductive, PTL DEF IInv

\* At most one call of runTunnel is still wanted and st.cancel reaches it.
THEOREM OneLiveTaskCorrect == Spec => []OneLiveTask
  BY Inductive, PTL DEF IInv

\* No write of a cancelled or retrying tunnel leaves a dead address on show.
THEOREM AddressCorrect == Spec => []AddressOfLiveTunnel
  BY Inductive, PTL DEF IInv
=============================================================================
