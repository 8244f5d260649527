----------------------------- MODULE PageProofs -----------------------------
(***************************************************************************)
(* The page, for any number of clicks and reloads.                         *)
(***************************************************************************)
EXTENDS Page, TLAPS

-----------------------------------------------------------------------------
(* The inductive invariant. *)

FnTypes ==
    /\ answer = [r \in Run |-> answer[r]]
    /\ total \in [Run -> 0..1]

\* The clicks on Generate whose handler has not ended, and those of them that
\* have disabled the button.
Open == {g \in Gen : gpc[g] \notin {"idle", "done"}}
Sent == {g \in Gen : gpc[g] \in {"waiting", "sql", "error"}}

GenInv ==
    ~overlapped => /\ \A g, o \in Open : g = o
                   /\ Sent # {} => genDisabled

\* One query is waited for, and a handler that has ended had its answer.
RunInv ==
    /\ \A r, o \in Run : rpc[r] = "waiting" /\ rpc[o] = "waiting" => r = o
    /\ \A r \in Run : rpc[r] = "waiting" => runDisabled
    /\ \A r \in Run : rpc[r] = "done" => answer[r] # Q!NoAnswer
    /\ inFlight # None => rpc[inFlight] # "idle" /\ answer[inFlight] = Q!NoAnswer

ResultInv ==
    /\ result # None => rpc[result] = "done"
    /\ ResultOfShownSQL

Earned == \E r \in Run : rpc[r] = "done" /\ answer[r].rows > 0

OfferInv ==
    /\ offers \in {0, 1}
    /\ opc # "idle" => offers = 0
    /\ ~offerDone => offers = 0 /\ opc = "idle"
    /\ offerDone => Earned

IInv == TypeOK /\ FnTypes /\ GenInv /\ RunInv /\ ResultInv /\ OfferInv

-----------------------------------------------------------------------------
LEMMA InitInv == Init => IInv
<1> SUFFICES ASSUME Init PROVE IInv
  OBVIOUS
<1>1. TypeOK
  <2>1. reloads \in 0..MaxReloads /\ offers \in Nat
    BY ReloadAssumption DEF Init
  <2>2. /\ offer \in BOOLEAN /\ offerDone \in BOOLEAN
        /\ genDisabled \in BOOLEAN /\ runDisabled \in BOOLEAN
        /\ signedIn \in BOOLEAN /\ overlapped \in BOOLEAN
    BY DEF Init
  <2>3. /\ gpc \in [Gen -> GenPC] /\ rpc \in [Run -> RunPC] /\ ran \in [Run -> Gen \cup {None}]
        /\ \A r \in Run : rpc[r] = "idle"
        /\ opc \in OfferPC /\ late \in SUBSET {"result", "offer"}
    BY DEF Init, GenPC, RunPC, OfferPC
  <2>4. sql = None /\ result = None /\ inFlight = None
    BY DEF Init
  <2> QED
    BY <2>1, <2>2, <2>3, <2>4 DEF TypeOK
<1>5. FnTypes
  BY DEF Init, FnTypes
<1>2. GenInv
  BY DEF Init, GenInv, Open, Sent
<1>3. RunInv
  BY DEF Init, RunInv
<1>4. ResultInv /\ OfferInv
  BY DEF Init, ResultInv, ResultOfShownSQL, OfferInv
<1> QED
  BY <1>1, <1>2, <1>3, <1>4, <1>5 DEF IInv

\* What one call of Execute does to the executor.
LEMMA ExecuteStep ==
    ASSUME FnTypes, inFlight \in Run \cup {None}, NEW r \in Run, Execute(r)
    PROVE  /\ FnTypes'
           /\ inFlight' \in {inFlight, r, None}
           /\ answer[r] = Q!NoAnswer
           /\ \A o \in Run : o # r => answer'[o] = answer[o]
           /\ inFlight' = r => answer'[r] = Q!NoAnswer
           /\ answer'[r] = Q!Failed("busy") => inFlight \in Run \ {r}
<1>0. r # None
  BY NoneAssumption
<1>1. CASE Q!Begin(r)
  BY <1>0, <1>1 DEF FnTypes, Q!Begin, Q!NoAnswer, Q!Failed, Q!Answer
<1>2. CASE Q!Block(r)
  BY <1>0, <1>2 DEF FnTypes, Q!Block, Q!Return, Q!NoAnswer, Q!Failed, Q!Answer
<1>3. CASE Q!Refuse(r)
  BY <1>0, <1>3 DEF FnTypes, Q!Refuse, Q!Return, Q!NoAnswer, Q!Failed, Q!Answer
<1>4. CASE Q!Finish(r)
  BY <1>0, <1>4 DEF FnTypes, Q!Finish, Q!Return, Q!Exact, Q!NoAnswer, Q!Failed, Q!Answer
<1> QED
  BY <1>1, <1>2, <1>3, <1>4 DEF Execute

-----------------------------------------------------------------------------
LEMMA TypeStep == IInv /\ [Next]_vars => TypeOK' /\ FnTypes'
<1> SUFFICES ASSUME IInv, [Next]_vars PROVE TypeOK' /\ FnTypes'
  OBVIOUS
<1> USE DEF IInv, TypeOK, FnTypes, GenPC, RunPC, OfferPC, shown, handlers, executor, history
<1>1. ASSUME NEW g \in Gen, ClickGenerate(g) PROVE TypeOK' /\ FnTypes'
  BY <1>1 DEF ClickGenerate, GenGoto
<1>2. ASSUME NEW g \in Gen, AuthStatus(g) \/ Stop(g) \/ Send(g) PROVE TypeOK' /\ FnTypes'
  <2>1. CASE AuthStatus(g)
    BY <2>1 DEF AuthStatus, GenGoto
  <2>2. CASE Stop(g)
    BY <2>2 DEF Stop, GenGoto
  <2>3. CASE Send(g)
    BY <2>3 DEF Send, GenGoto
  <2> QED
    BY <1>2, <2>1, <2>2, <2>3
<1>3. ASSUME NEW g \in Gen, Generate(g) PROVE TypeOK' /\ FnTypes'
  BY <1>3 DEF Generate, GenGoto
<1>4. ASSUME NEW g \in Gen, ShowSQL(g) PROVE TypeOK' /\ FnTypes'
  BY <1>4 DEF ShowSQL, GenGoto, HideResults
<1>5. CASE NewQuery
  BY <1>5 DEF NewQuery, HideResults
<1>6. ASSUME NEW r \in Run, ClickRun(r) PROVE TypeOK' /\ FnTypes'
  BY <1>6 DEF ClickRun, CanRun
<1>7. ASSUME NEW r \in Run, Execute(r) PROVE TypeOK' /\ FnTypes'
  BY <1>7, ExecuteStep DEF Execute
<1>8. ASSUME NEW r \in Run, ShowResult(r) PROVE TypeOK' /\ FnTypes'
  BY <1>8 DEF ShowResult
<1>9. CASE Quota
  BY <1>9 DEF Quota
<1>10. CASE ShowOffer
  <2>1. offers' \in Nat
    BY <1>10 DEF ShowOffer
  <2>2. offer' \in BOOLEAN
    BY <1>10 DEF ShowOffer
  <2>3. late' \in SUBSET {"result", "offer"}
    BY <1>10 DEF ShowOffer
  <2> QED
    BY <1>10, <2>1, <2>2, <2>3 DEF ShowOffer
<1>11. CASE DismissOffer \/ SignInOrOut
  BY <1>11 DEF DismissOffer, SignInOrOut
<1>12. CASE Reload
  <2>1. reloads' \in 0..MaxReloads
    BY <1>12, ReloadAssumption DEF Reload
  <2>2. gpc' \in [Gen -> GenPC] /\ rpc' \in [Run -> RunPC]
    BY <1>12 DEF Reload
  <2>3. \A r \in Run : rpc'[r] # "idle" => ran'[r] # None
    BY <1>12 DEF Reload
  <2> QED
    BY <1>12, <2>1, <2>2, <2>3 DEF Reload, HideResults
<1>13. CASE UNCHANGED vars
  BY <1>13 DEF vars
<1> QED
  BY <1>1, <1>2, <1>3, <1>4, <1>5, <1>6, <1>7, <1>8, <1>9, <1>10, <1>11, <1>12, <1>13
  DEF Next, GenStep

LEMMA GenInvStep == IInv /\ [Next]_vars => GenInv'
<1> SUFFICES ASSUME IInv, [Next]_vars PROVE GenInv'
  OBVIOUS
<1> USE DEF IInv, TypeOK, GenInv, Open, Sent, GenPC, shown, handlers, history
<1>1. ASSUME NEW g \in Gen, ClickGenerate(g) PROVE GenInv'
  <2> SUFFICES ASSUME ~overlapped' PROVE GenInv'
    OBVIOUS
  <2>1. ~overlapped /\ ~genDisabled
    BY <1>1 DEF ClickGenerate
  <2>2. \A o \in Gen : gpc[o] \notin {"asking", "yes", "no"}
    BY <1>1 DEF ClickGenerate
  <2>3. Open = {} /\ Sent = {}
    BY <2>1, <2>2
  <2>4. gpc' = [gpc EXCEPT ![g] = "asking"]
    BY <1>1 DEF ClickGenerate, GenGoto
  <2> QED
    BY <2>3, <2>4
<1>2. ASSUME NEW g \in Gen, AuthStatus(g) \/ Stop(g) PROVE GenInv'
  BY <1>2 DEF AuthStatus, Stop, GenGoto
<1>3. ASSUME NEW g \in Gen, Send(g) \/ Generate(g) PROVE GenInv'
  BY <1>3 DEF Send, Generate, GenGoto
<1>4. ASSUME NEW g \in Gen, ShowSQL(g) PROVE GenInv'
  BY <1>4 DEF ShowSQL, GenGoto
<1>5. CASE Reload
  BY <1>5 DEF Reload
<1>6. ASSUME UNCHANGED <<gpc, genDisabled, overlapped>> PROVE GenInv'
  BY <1>6
<1>7. ASSUME NEW r \in Run, ClickRun(r) \/ Execute(r) \/ ShowResult(r) PROVE GenInv'
  BY <1>6, <1>7 DEF ClickRun, Execute, ShowResult
<1>8. CASE NewQuery \/ Quota \/ ShowOffer \/ DismissOffer \/ SignInOrOut \/ UNCHANGED vars
  BY <1>6, <1>8 DEF NewQuery, Quota, ShowOffer, DismissOffer, SignInOrOut, vars
<1> QED
  BY <1>1, <1>2, <1>3, <1>4, <1>5, <1>7, <1>8 DEF Next, GenStep

LEMMA RunInvStep == IInv /\ [Next]_vars => RunInv'
<1> SUFFICES ASSUME IInv, [Next]_vars PROVE RunInv'
  OBVIOUS
<1> USE NoneAssumption
        DEF IInv, TypeOK, FnTypes, RunInv, RunPC, shown, handlers, executor, history
<1>1. ASSUME NEW r \in Run, ClickRun(r) PROVE RunInv'
  BY <1>1 DEF ClickRun, CanRun
<1>2. ASSUME NEW r \in Run, Execute(r) PROVE RunInv'
  <2>1. rpc[r] # "idle" /\ rpc[r] # "done"
    BY <1>2, ExecuteStep DEF Execute
  <2>2. UNCHANGED <<rpc, runDisabled>>
    BY <1>2 DEF Execute
  <2> QED
    BY <1>2, <2>1, <2>2, ExecuteStep
<1>3. ASSUME NEW r \in Run, ShowResult(r) PROVE RunInv'
  BY <1>3 DEF ShowResult
<1>4. CASE Reload
  BY <1>4 DEF Reload
<1>5. ASSUME UNCHANGED <<rpc, runDisabled, answer, inFlight>> PROVE RunInv'
  BY <1>5
<1>6. ASSUME NEW g \in Gen, ClickGenerate(g) \/ GenStep(g) PROVE RunInv'
  BY <1>5, <1>6
  DEF ClickGenerate, GenStep, AuthStatus, Stop, Send, Generate, ShowSQL
<1>7. CASE NewQuery \/ Quota \/ ShowOffer \/ DismissOffer \/ SignInOrOut \/ UNCHANGED vars
  BY <1>5, <1>7 DEF NewQuery, Quota, ShowOffer, DismissOffer, SignInOrOut, vars
<1> QED
  BY <1>1, <1>2, <1>3, <1>4, <1>6, <1>7 DEF Next

LEMMA ResultInvStep == IInv /\ [Next]_vars => ResultInv'
<1> SUFFICES ASSUME IInv, [Next]_vars PROVE ResultInv'
  OBVIOUS
<1> USE NoneAssumption
        DEF IInv, TypeOK, ResultInv, ResultOfShownSQL, shown, handlers, history
<1>1. ASSUME UNCHANGED <<sql, result, offer, late, rpc, ran>> PROVE ResultInv'
  BY <1>1
<1>2. ASSUME result' = None, offer' = FALSE PROVE ResultInv'
  BY <1>2
<1>3. ASSUME NEW g \in Gen, ClickGenerate(g) \/ AuthStatus(g) \/ Stop(g) \/ Send(g) \/ Generate(g)
      PROVE  ResultInv'
  BY <1>1, <1>3 DEF ClickGenerate, AuthStatus, Stop, Send, Generate
<1>4. ASSUME NEW g \in Gen, ShowSQL(g) PROVE ResultInv'
  BY <1>1, <1>2, <1>4 DEF ShowSQL, HideResults
<1>5. CASE NewQuery \/ Reload
  BY <1>2, <1>5 DEF NewQuery, Reload, HideResults
<1>6. ASSUME NEW r \in Run, ClickRun(r) PROVE ResultInv'
  BY <1>6 DEF ClickRun
<1>7. ASSUME NEW r \in Run, Execute(r) PROVE ResultInv'
  BY <1>1, <1>7 DEF Execute
<1>8. ASSUME NEW r \in Run, ShowResult(r) PROVE ResultInv'
  BY <1>8 DEF ShowResult
<1>9. CASE ShowOffer
  BY <1>9 DEF ShowOffer
<1>10. CASE DismissOffer
  BY <1>10 DEF DismissOffer
<1>11. CASE Quota \/ SignInOrOut \/ UNCHANGED vars
  BY <1>1, <1>11 DEF Quota, SignInOrOut, vars
<1> QED
  BY <1>3, <1>4, <1>5, <1>6, <1>7, <1>8, <1>9, <1>10, <1>11 DEF Next, GenStep

LEMMA OfferInvStep == IInv /\ [Next]_vars => OfferInv'
<1> SUFFICES ASSUME IInv, [Next]_vars PROVE OfferInv'
  OBVIOUS
<1> USE DEF IInv, TypeOK, OfferInv, Earned, OfferPC, shown, handlers, executor, history
<1>1. ASSUME UNCHANGED <<offers, opc, offerDone, rpc, answer>> PROVE OfferInv'
  BY <1>1
<1>2. ASSUME NEW g \in Gen, ClickGenerate(g) \/ GenStep(g) PROVE OfferInv'
  BY <1>1, <1>2
  DEF ClickGenerate, GenStep, AuthStatus, Stop, Send, Generate, ShowSQL
<1>3. CASE NewQuery \/ DismissOffer \/ SignInOrOut \/ UNCHANGED vars
  BY <1>1, <1>3 DEF NewQuery, DismissOffer, SignInOrOut, vars
<1>4. ASSUME NEW r \in Run, ClickRun(r) PROVE OfferInv'
  BY <1>4 DEF ClickRun
<1>5. ASSUME NEW r \in Run, Execute(r) PROVE OfferInv'
  <2>1. \A o \in Run : answer[o].rows > 0 => answer'[o] = answer[o]
    BY <1>5, ExecuteStep DEF Q!NoAnswer, Q!Answer
  <2> QED
    BY <1>5, <2>1 DEF Execute
<1>6. ASSUME NEW r \in Run, ShowResult(r) PROVE OfferInv'
  BY <1>6 DEF ShowResult, Offers
<1>7. CASE Quota \/ ShowOffer
  BY <1>7 DEF Quota, ShowOffer
<1>8. CASE Reload
  BY <1>8 DEF Reload
<1> QED
  BY <1>2, <1>3, <1>4, <1>5, <1>6, <1>7, <1>8 DEF Next

THEOREM Invariant == Spec => []IInv
<1>1. IInv /\ [Next]_vars => IInv'
  BY TypeStep, GenInvStep, RunInvStep, ResultInvStep, OfferInvStep DEF IInv
<1> QED
  BY InitInv, <1>1, PTL DEF Spec

-----------------------------------------------------------------------------
\* Every variable of the page has its type, and no query is sent without SQL.
THEOREM TypeCorrect == Spec => []TypeOK
<1>1. IInv => TypeOK
  BY DEF IInv
<1> QED
  BY Invariant, <1>1, PTL

\* What is shown below the SQL is about that SQL, or was painted late.
THEOREM ShownBelongsTogether == Spec => []ResultOfShownSQL
<1>1. IInv => ResultOfShownSQL
  BY DEF IInv, ResultInv
<1> QED
  BY Invariant, <1>1, PTL

\* Without clicks into each other's sign-in check, one generation at a time.
THEOREM OneGeneration == Spec => []OneGenerationAtATime
<1>1. IInv => OneGenerationAtATime
  BY DEF IInv, TypeOK, GenInv, Open, Sent, GenPC, OneGenerationAtATime
<1> QED
  BY Invariant, <1>1, PTL

\* One offer per page at most, after rows came back.
THEOREM OfferCorrect == Spec => []OfferIsEarned
<1>1. IInv => OfferIsEarned
  BY DEF IInv, OfferInv, Earned, OfferIsEarned
<1> QED
  BY Invariant, <1>1, PTL

\* A query is refused as a second one only around a reload.
THEOREM BusyExplained == Spec => BusyOnlyAfterReload
<1> DEFINE Busy == \A r \in Run :
        answer[r] # Q!Failed("busy") /\ answer'[r] = Q!Failed("busy") =>
            rpc[inFlight] = "left" \/ rpc[r] = "left"
<1>1. IInv /\ [Next]_vars => [Busy]_vars
  <2> SUFFICES ASSUME IInv, Next, NEW r \in Run,
                      answer[r] # Q!Failed("busy"), answer'[r] = Q!Failed("busy")
               PROVE  rpc[inFlight] = "left" \/ rpc[r] = "left"
    OBVIOUS
  <2>1. PICK q \in Run : Execute(q)
    <3>1. answer' # answer
      OBVIOUS
    <3> QED
      BY <3>1 DEF Next, GenStep, ClickGenerate, AuthStatus, Stop, Send, Generate, ShowSQL,
                  NewQuery, ClickRun, ShowResult, Quota, ShowOffer, DismissOffer, SignInOrOut,
                  Reload, executor
  <2>2. q = r /\ answer[r] = Q!NoAnswer /\ inFlight \in Run \ {r} /\ rpc[r] # "idle"
    BY <2>1, ExecuteStep DEF IInv, TypeOK, Execute
  <2>3. rpc[r] \in {"waiting", "left"} /\ rpc[inFlight] \in {"waiting", "left"}
    BY <2>2, NoneAssumption DEF IInv, TypeOK, RunPC, RunInv
  <2> QED
    BY <2>2, <2>3 DEF IInv, RunInv
<1> QED
  BY Invariant, <1>1, PTL DEF Spec, BusyOnlyAfterReload
=============================================================================
