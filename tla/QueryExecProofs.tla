-------------------------- MODULE QueryExecProofs --------------------------
(***************************************************************************)
(* Safety of QueryExec for any number of calls, any MaxRows and results of *)
(* any length, and that it implements OneQuery (its safety part).          *)
(***************************************************************************)
EXTENDS QueryExec, TLAPS

-----------------------------------------------------------------------------
(* The inductive invariant. *)

\* The mutex is held by the call that is between TryLock and Unlock.
LockHeld == \A q \in Query : pc[q] \in Locked <=> running = q

\* Rows are open only while they are read or about to be closed.
RowsPlace == \A q \in rowsOpen : pc[q] \in {"read", "close"}

\* A transaction that began lives as long as the context does.
TxBegun == \A q \in Query :
    pc[q] = "query" /\ Live(q) /\ engine[q] = "transactions" => q \in txOpen

\* What a call has to return so far: nothing before it ends reading, and then
\* an error or the first rows of its result.
NothingYet(q) == outcome[q] = "none" /\ q \notin truncated /\ got[q] <= total[q]
ExactRows(q) ==
    /\ got[q] = IF total[q] > MaxRows THEN MaxRows ELSE total[q]
    /\ q \in truncated <=> total[q] > MaxRows

Ending == {"close", "cancel", "unlock"}

ResultSoFar == \A q \in Query :
    /\ pc[q] \notin Ending \cup {"done"} => NothingYet(q)
    /\ pc[q] \in Ending => outcome[q] \in {"ok", "error", "timeout"}
    /\ pc[q] = "done" => outcome[q] # "none"
    /\ outcome[q] = "ok" => ExactRows(q)

IInv == TypeOK /\ LockHeld /\ RowsPlace /\ TxBegun /\ ReadOnlyWhereSupported /\ ResultSoFar

USE QueryAssumption, RowsAssumption

LEMMA IInvInit == Init => IInv
<1> SUFFICES ASSUME Init PROVE IInv
  OBVIOUS
<1>1. TypeOK
  BY DEF Init, TypeOK, PC, Locked, InTime
<1>2. LockHeld
  BY DEF Init, LockHeld, Locked, InTime
<1>3. RowsPlace /\ TxBegun /\ ReadOnlyWhereSupported
  BY DEF Init, RowsPlace, TxBegun, ReadOnlyWhereSupported
<1>4. ResultSoFar
  <2>1. total \in [Query -> 0 .. RowBound]
    BY DEF Init
  <2>2. \A q \in Query : 0 <= total[q]
    BY <2>1
  <2> QED
    BY <2>2 DEF Init, ResultSoFar, NothingYet, Ending
<1> QED
  BY <1>1, <1>2, <1>3, <1>4 DEF IInv

-----------------------------------------------------------------------------
(* One lemma per conjunct, one step per action. *)

LEMMA TypeStep == IInv /\ [Next]_vars => TypeOK'
<1> SUFFICES ASSUME IInv, [Next]_vars PROVE TypeOK'
  OBVIOUS
<1> USE DEF IInv, TypeOK, PC, Locked, InTime, Goto, query, server
<1>1. ASSUME NEW q \in Query, Validate(q) \/ TryLock(q) \/ Plan(q) PROVE TypeOK'
  BY <1>1 DEF Validate, TryLock, Plan, Says
<1>2. ASSUME NEW q \in Query, Begin(q) \/ RunQuery(q) PROVE TypeOK'
  BY <1>2 DEF Begin, RunQuery, Says, Fails, Live
<1>3. ASSUME NEW q \in Query, ReadRow(q) PROVE TypeOK'
  BY <1>3 DEF ReadRow, Says
<1>4. ASSUME NEW q \in Query, NoMoreRows(q) \/ ReadFails(q) PROVE TypeOK'
  BY <1>4 DEF NoMoreRows, ReadFails, Says, Fails
<1>5. ASSUME NEW q \in Query, Close(q) \/ Cancel(q) \/ Unlock(q) PROVE TypeOK'
  BY <1>5 DEF Close, Cancel, Unlock
<1>6. ASSUME NEW q \in Query, Timeout(q) \/ Leave(q) \/ CloseRows(q) \/ Rollback(q) PROVE TypeOK'
  BY <1>6 DEF Timeout, Leave, CloseRows, Rollback
<1>7. CASE UNCHANGED vars
  BY <1>7 DEF vars
<1> QED
  BY <1>1, <1>2, <1>3, <1>4, <1>5, <1>6, <1>7 DEF Next

LEMMA LockStep == IInv /\ [Next]_vars => LockHeld'
<1> SUFFICES ASSUME IInv, [Next]_vars PROVE LockHeld'
  OBVIOUS
<1> USE DEF IInv, TypeOK, LockHeld, Locked, InTime, Goto, query, server
<1>1. ASSUME NEW q \in Query, Validate(q) \/ TryLock(q) \/ Plan(q) PROVE LockHeld'
  BY <1>1 DEF Validate, TryLock, Plan
<1>2. ASSUME NEW q \in Query, Begin(q) \/ RunQuery(q) \/ ReadRow(q) PROVE LockHeld'
  BY <1>2 DEF Begin, RunQuery, ReadRow
<1>3. ASSUME NEW q \in Query, NoMoreRows(q) \/ ReadFails(q) \/ Close(q) \/ Cancel(q) PROVE LockHeld'
  BY <1>3 DEF NoMoreRows, ReadFails, Close, Cancel
<1>4. ASSUME NEW q \in Query, Unlock(q) PROVE LockHeld'
  BY <1>4 DEF Unlock
<1>5. ASSUME NEW q \in Query, Timeout(q) \/ Leave(q) \/ CloseRows(q) \/ Rollback(q) PROVE LockHeld'
  BY <1>5 DEF Timeout, Leave, CloseRows, Rollback
<1>6. CASE UNCHANGED vars
  BY <1>6 DEF vars
<1> QED
  BY <1>1, <1>2, <1>3, <1>4, <1>5, <1>6 DEF Next

LEMMA RowsStep == IInv /\ [Next]_vars => (RowsPlace /\ TxBegun /\ ReadOnlyWhereSupported)'
<1> SUFFICES ASSUME IInv, [Next]_vars PROVE RowsPlace' /\ TxBegun' /\ ReadOnlyWhereSupported'
  OBVIOUS
<1> USE DEF IInv, TypeOK, RowsPlace, TxBegun, Live, ReadOnlyWhereSupported, Goto, query, server
<1>1. ASSUME NEW q \in Query, Validate(q) \/ TryLock(q) \/ Plan(q)
      PROVE RowsPlace' /\ TxBegun' /\ ReadOnlyWhereSupported'
  BY <1>1 DEF Validate, TryLock, Plan
<1>2. ASSUME NEW q \in Query, Begin(q) \/ RunQuery(q)
      PROVE RowsPlace' /\ TxBegun' /\ ReadOnlyWhereSupported'
  BY <1>2 DEF Begin, RunQuery
<1>3. ASSUME NEW q \in Query, ReadRow(q) \/ NoMoreRows(q) \/ ReadFails(q)
      PROVE RowsPlace' /\ TxBegun' /\ ReadOnlyWhereSupported'
  BY <1>3 DEF ReadRow, NoMoreRows, ReadFails
<1>4. ASSUME NEW q \in Query, Close(q) \/ Cancel(q) \/ Unlock(q)
      PROVE RowsPlace' /\ TxBegun' /\ ReadOnlyWhereSupported'
  BY <1>4 DEF Close, Cancel, Unlock
<1>5. ASSUME NEW q \in Query, Timeout(q) \/ Leave(q) \/ CloseRows(q) \/ Rollback(q)
      PROVE RowsPlace' /\ TxBegun' /\ ReadOnlyWhereSupported'
  BY <1>5 DEF Timeout, Leave, CloseRows, Rollback
<1>6. CASE UNCHANGED vars
  BY <1>6 DEF vars
<1> QED
  BY <1>1, <1>2, <1>3, <1>4, <1>5, <1>6 DEF Next

LEMMA ResultStep == IInv /\ [Next]_vars => ResultSoFar'
<1> SUFFICES ASSUME IInv, [Next]_vars PROVE ResultSoFar'
  OBVIOUS
<1> USE DEF IInv, TypeOK, ResultSoFar, NothingYet, ExactRows, Ending, Goto, query, server
<1>1. ASSUME NEW q \in Query, Validate(q) \/ TryLock(q) \/ Plan(q) PROVE ResultSoFar'
  BY <1>1 DEF Validate, TryLock, Plan, Says
<1>2. ASSUME NEW q \in Query, Begin(q) \/ RunQuery(q) PROVE ResultSoFar'
  BY <1>2 DEF Begin, RunQuery, Says, Fails
<1>3. ASSUME NEW q \in Query, ReadRow(q) PROVE ResultSoFar'
  BY <1>3 DEF ReadRow, Says
<1>4. ASSUME NEW q \in Query, NoMoreRows(q) \/ ReadFails(q) PROVE ResultSoFar'
  BY <1>4 DEF NoMoreRows, ReadFails, Says, Fails
<1>5. ASSUME NEW q \in Query, Close(q) \/ Cancel(q) \/ Unlock(q) PROVE ResultSoFar'
  BY <1>5 DEF Close, Cancel, Unlock
<1>6. ASSUME NEW q \in Query, Timeout(q) \/ Leave(q) \/ CloseRows(q) \/ Rollback(q) PROVE ResultSoFar'
  BY <1>6 DEF Timeout, Leave, CloseRows, Rollback
<1>7. CASE UNCHANGED vars
  BY <1>7 DEF vars
<1> QED
  BY <1>1, <1>2, <1>3, <1>4, <1>5, <1>6, <1>7 DEF Next

LEMMA Inductive == Spec => []IInv
<1>1. IInv /\ [Next]_vars => IInv'
  BY TypeStep, LockStep, RowsStep, ResultStep DEF IInv
<1> QED
  BY <1>1, IInvInit, PTL DEF Spec

-----------------------------------------------------------------------------
\* The calls, the mutex, the results and the server keep their types.
THEOREM TypeCorrect == Spec => []TypeOK
<1>1. IInv => TypeOK
  BY DEF IInv
<1> QED
  BY <1>1, Inductive, PTL

\* One query at a time: the rows of a query are gone from the server before
\* another call can take the mutex.
THEOREM OneAtATime == Spec => []RowsOnlyUnderLock
<1>1. IInv => RowsOnlyUnderLock
  BY DEF IInv, TypeOK, LockHeld, RowsPlace, RowsOnlyUnderLock, Locked, InTime
<1> QED
  BY <1>1, Inductive, PTL

\* No query runs outside a read-only transaction where there are such.
THEOREM ReadOnlyCorrect == Spec => []ReadOnlyWhereSupported
<1>1. IInv => ReadOnlyWhereSupported
  BY DEF IInv
<1> QED
  BY <1>1, Inductive, PTL

-----------------------------------------------------------------------------
(* QueryExec implements OneQuery. *)

Answers == [q \in Query |-> Answered(q)]

\* A step of one call that does not end it changes no answer.
LEMMA Quiet ==
    ASSUME NEW q \in Query, pc[q] # "done", pc'[q] # "done",
           \A x \in Query \ {q} :
               pc'[x] = pc[x] /\ outcome'[x] = outcome[x] /\ got'[x] = got[x],
           \A x \in Query \ {q} : x \in truncated' <=> x \in truncated
    PROVE  Answers' = Answers
<1>1. Answered(q)' = Answered(q)
  BY DEF Answered
<1>2. ASSUME NEW x \in Query \ {q} PROVE Answered(x)' = Answered(x)
  <2>1. pc'[x] = pc[x] /\ outcome'[x] = outcome[x] /\ got'[x] = got[x]
    OBVIOUS
  <2>2. (x \in truncated') = (x \in truncated)
    OBVIOUS
  <2> QED
    BY <2>1, <2>2 DEF Answered
<1>3. \A x \in Query : Answered(x)' = Answered(x)
  BY <1>1, <1>2
<1> QED
  BY <1>3 DEF Answers

\* A step that ends a call changes its answer only.
LEMMA Returns ==
    ASSUME NEW q \in Query, pc' = [pc EXCEPT ![q] = "done"], UNCHANGED <<got, truncated>>,
           IInv, \A x \in Query \ {q} : outcome'[x] = outcome[x]
    PROVE  Answers' = [Answers EXCEPT ![q] = Answered(q)']
<1>1. \A x \in Query \ {q} : Answered(x)' = Answered(x)
  BY DEF Answered, IInv, TypeOK
<1> QED
  BY <1>1 DEF Answers

LEMMA NoAnswerYet == ASSUME NEW q \in Query, pc[q] # "done" PROVE Answers[q] = One!NoAnswer
  BY DEF Answers, Answered, One!NoAnswer, One!Answer

LEMMA RefinesInit == Init => One!Init
<1> SUFFICES ASSUME Init PROVE One!Init
  OBVIOUS
<1>1. total \in [Query -> Nat]
  BY DEF Init
<1> QED
  BY <1>1 DEF Init, Answered, One!Init, One!NoAnswer, One!Answer

LEMMA RefinesNext == IInv /\ IInv' /\ [Next]_vars => [One!Next]_(One!vars)
<1> SUFFICES ASSUME IInv, IInv', [Next]_vars PROVE [One!Next]_(One!vars)
  OBVIOUS
<1> USE DEF IInv, TypeOK, Goto, query, server
<1>0. Answers' = Answers /\ UNCHANGED <<running, total>> => UNCHANGED One!vars
  BY DEF Answers, One!vars
<1>9. UNCHANGED <<pc, got, truncated, outcome, running, total>> => UNCHANGED One!vars
  BY DEF Answered, One!vars
<1>1. ASSUME NEW q \in Query, Validate(q) PROVE [One!Next]_(One!vars)
  <2>1. CASE pc'[q] = "lock"
    BY <2>1, <1>0, <1>1, Quiet DEF Validate
  <2>2. CASE pc'[q] = "done"
    <3>1. pc[q] = "validate" /\ pc' = [pc EXCEPT ![q] = "done"] /\ Says(q, "blocked")
      BY <1>1, <2>2 DEF Validate
    <3>2. running # q /\ UNCHANGED <<running, total, got, truncated>>
      BY <1>1, <3>1 DEF Validate, LockHeld, Locked, InTime
    <3>3. Answered(q)' = One!Failed("blocked")
      BY <3>1 DEF Says, Answered, One!Failed, One!Answer
    <3>4. Answers' = [Answers EXCEPT ![q] = One!Failed("blocked")]
      BY <3>1, <3>2, <3>3, Returns DEF Says
    <3>5. One!Block(q)
      BY <3>1, <3>2, <3>4, NoAnswerYet DEF One!Block, One!Return, Answers
    <3> QED
      BY <3>5 DEF One!Next
  <2> QED
    BY <1>1, <2>1, <2>2 DEF Validate
<1>2. ASSUME NEW q \in Query, TryLock(q) PROVE [One!Next]_(One!vars)
  <2>1. CASE running = None
    <3>1. Answers' = Answers
      BY <2>1, <1>2, Quiet DEF TryLock
    <3>2. running' = q /\ UNCHANGED total /\ pc[q] = "lock"
      BY <2>1, <1>2 DEF TryLock
    <3>3. One!Begin(q)
      BY <2>1, <3>1, <3>2, NoAnswerYet DEF One!Begin, Answers
    <3> QED
      BY <3>3 DEF One!Next
  <2>2. CASE running # None
    <3>1. pc[q] = "lock" /\ pc' = [pc EXCEPT ![q] = "done"] /\ Says(q, "busy")
      BY <1>2, <2>2 DEF TryLock
    <3>2. running # q /\ UNCHANGED <<running, total, got, truncated>>
      BY <1>2, <2>2, <3>1 DEF TryLock, LockHeld, Locked, InTime
    <3>3. Answered(q)' = One!Failed("busy")
      BY <3>1 DEF Says, Answered, One!Failed, One!Answer
    <3>4. Answers' = [Answers EXCEPT ![q] = One!Failed("busy")]
      BY <3>1, <3>2, <3>3, Returns DEF Says
    <3>5. One!Refuse(q)
      BY <2>2, <3>1, <3>2, <3>4, NoAnswerYet DEF One!Refuse, One!Return, Answers
    <3> QED
      BY <3>5 DEF One!Next
  <2> QED
    BY <2>1, <2>2
<1>3. ASSUME NEW q \in Query, Plan(q) \/ Begin(q) \/ RunQuery(q) PROVE [One!Next]_(One!vars)
  BY <1>3, <1>0, Quiet DEF Plan, Begin, RunQuery, Says, Fails
<1>4. ASSUME NEW q \in Query, ReadRow(q) \/ NoMoreRows(q) \/ ReadFails(q)
      PROVE [One!Next]_(One!vars)
  BY <1>4, <1>0, Quiet DEF ReadRow, NoMoreRows, ReadFails, Says, Fails
<1>5. ASSUME NEW q \in Query, Close(q) \/ Cancel(q) PROVE [One!Next]_(One!vars)
  BY <1>5, <1>0, Quiet DEF Close, Cancel
<1>6. ASSUME NEW q \in Query, Unlock(q) PROVE [One!Next]_(One!vars)
  <2>1. pc[q] = "unlock" /\ pc' = [pc EXCEPT ![q] = "done"] /\ running' = None
    BY <1>6 DEF Unlock
  <2>2. UNCHANGED <<total, got, truncated, outcome>>
    BY <1>6 DEF Unlock
  <2>3. running = q
    BY <2>1 DEF LockHeld, Locked
  <2>4. Answered(q)' \in {One!Exact(total[q]), One!Failed("error"), One!Failed("timeout")}
    <3>1. outcome[q] \in {"ok", "error", "timeout"}
      BY <2>1 DEF ResultSoFar, Ending
    <3>2. CASE outcome[q] = "ok"
      <4>1. ExactRows(q) /\ total[q] \in Nat /\ got[q] \in Nat
        BY <3>2 DEF ResultSoFar
      <4>2. (q \in truncated) = (total[q] > MaxRows)
        BY <4>1 DEF ExactRows
      <4> QED
        BY <4>1, <4>2, <3>2, <2>1, <2>2 DEF Answered, ExactRows, One!Exact, One!Answer
    <3>3. CASE outcome[q] # "ok"
      BY <3>1, <3>3, <2>1, <2>2 DEF Answered, One!Failed, One!Answer
    <3> QED
      BY <3>2, <3>3
  <2>5. Answers' = [Answers EXCEPT ![q] = Answered(q)']
    BY <2>1, <2>2, Returns
  <2>6. One!Finish(q)
    BY <2>1, <2>2, <2>3, <2>4, <2>5, NoAnswerYet DEF One!Finish, One!Return, Answers
  <2> QED
    BY <2>6 DEF One!Next
<1>7. ASSUME NEW q \in Query, Timeout(q) \/ Leave(q) \/ CloseRows(q) \/ Rollback(q)
      PROVE [One!Next]_(One!vars)
  BY <1>7, <1>9 DEF Timeout, Leave, CloseRows, Rollback
<1>8. CASE UNCHANGED vars
  BY <1>8, <1>9 DEF vars
<1> QED
  BY <1>1, <1>2, <1>3, <1>4, <1>5, <1>6, <1>7, <1>8 DEF Next

\* Whatever its caller sees of QueryExec, OneQuery allows.
THEOREM Implements == Spec => One!Spec
<1>1. IInv /\ IInv' /\ [Next]_vars => [One!Next]_(One!vars)
  BY RefinesNext
<1> QED
  BY <1>1, RefinesInit, Inductive, PTL DEF Spec, One!Spec
=============================================================================
