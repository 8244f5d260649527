---------------------------- MODULE SystemProofs ----------------------------
(***************************************************************************)
(* The system implements both of its components, so that what is proved of *)
(* each of them alone holds of it; and what it shows its user agrees with  *)
(* what the relay has recorded.                                            *)
(***************************************************************************)
EXTENDS System, TLAPS

RP == INSTANCE RelayProofs WITH pc <- hpc
CP == INSTANCE ConnectorProofs WITH pc <- tpc

-----------------------------------------------------------------------------
\* The types of what lies between the two components.
LinkTypes ==
    /\ typed \in [Task -> Code \cup {None}]
    /\ link \in [Task -> Handler \cup {None}]
    /\ sent \in [Handler -> Code \cup {None}]
    /\ reply \in [Handler -> ReplyKind]
    /\ cut \in SUBSET Handler
    /\ served \in SUBSET Task

LEMMA LinkTypesInit == Init => LinkTypes
  BY DEF Init, LinkTypes, ReplyKind

LEMMA LinkTypesStep == LinkTypes /\ [Next]_vars => LinkTypes'
  <1> SUFFICES ASSUME LinkTypes, [Next]_vars PROVE LinkTypes'
    OBVIOUS
  <1> USE DEF LinkTypes, linkVars
  <1>1. ASSUME NEW t \in Task, NEW c \in Code, Connect(t, c) PROVE LinkTypes'
    BY <1>1 DEF Connect
  <1>2. CASE Disconnect
    BY <1>2 DEF Disconnect
  <1>3. ASSUME NEW t \in Task, TaskStep(t) PROVE LinkTypes'
    <2>1. CASE TaskMoves(t)
      BY <2>1 DEF TaskMoves
    <2>2. CASE Dial(t)
      BY <2>2 DEF Dial
    <2>3. CASE Reply(t) \/ SetUp(t) \/ Drop(t)
      BY <2>3 DEF Reply, SetUp, Drop, Unlink
    <2>4. CASE MarkConnected(t)
      BY <2>4 DEF MarkConnected
    <2>5. QED
      BY <1>3, <2>1, <2>2, <2>3, <2>4 DEF TaskStep
  <1>4. CASE RelayAlone
    BY <1>4 DEF RelayAlone, HandlePair, TTLPasses, Reaper
  <1>5. ASSUME NEW h \in Handler, ReadsHello(h) \/ HandlerStep(h) PROVE LinkTypes'
    BY <1>5 DEF ReadsHello, HandlerStep, Answers, ReplyKind
  <1>6. ASSUME NEW h \in Handler, Notices(h) \/ Cut(h) PROVE LinkTypes'
    BY <1>6 DEF Notices, Cut
  <1>7. CASE UNCHANGED vars
    BY <1>7 DEF vars
  <1>8. QED
    BY <1>1, <1>2, <1>3, <1>4, <1>5, <1>6, <1>7 DEF Next

-----------------------------------------------------------------------------
(* Refinement: a step of the system is a step of the relay or leaves all   *)
(* its variables alone, and likewise for the connector.                    *)

LEMMA RelayStep == LinkTypes /\ [Next]_vars => [R!Next]_(R!vars)
  <1> SUFFICES ASSUME LinkTypes, [Next]_vars PROVE R!Next \/ UNCHANGED R!vars
    OBVIOUS
  <1>1. UNCHANGED relayVars => UNCHANGED R!vars
    BY DEF relayVars, R!vars, R!tableVars, R!pairingVars, R!socketVars, R!handlerVars,
           R!pollVars
  <1>2. ASSUME NEW t \in Task, TaskStep(t) \/ (\E c \in Code : Connect(t, c))
        PROVE  UNCHANGED relayVars
    BY <1>2 DEF TaskStep, TaskMoves, Dial, Reply, SetUp, MarkConnected, Drop, Connect
  <1>3. Disconnect \/ (\E h \in Handler : Cut(h)) => UNCHANGED relayVars
    BY DEF Disconnect, Cut
  <1>4. RelayAlone => R!Next
    BY DEF RelayAlone, HandlePair, TTLPasses, Reaper, R!Next
  <1>5. ASSUME NEW h \in Handler, ReadsHello(h)
        PROVE  R!Next
    BY <1>5 DEF ReadsHello, R!Next, LinkTypes
  <1>6. ASSUME NEW h \in Handler, HandlerStep(h) \/ Notices(h)
        PROVE  R!Next
    BY <1>6 DEF HandlerStep, Notices, R!Next
  <1>7. UNCHANGED vars => UNCHANGED relayVars
    BY DEF vars
  <1>8. QED
    BY <1>1, <1>2, <1>3, <1>4, <1>5, <1>6, <1>7 DEF Next

LEMMA ConnectorStep == [Next]_vars => [C!Next]_(C!vars)
  <1> SUFFICES ASSUME [Next]_vars PROVE C!Next \/ UNCHANGED C!vars
    OBVIOUS
  <1>1. UNCHANGED taskVars => UNCHANGED C!vars
    BY DEF taskVars, C!vars, C!shown
  <1>2. ASSUME NEW t \in Task, NEW c \in Code, Connect(t, c) PROVE C!Next
    BY <1>2 DEF Connect, C!Next
  <1>3. Disconnect => C!Next
    BY DEF Disconnect, C!Next
  <1>4. ASSUME NEW t \in Task, TaskStep(t) PROVE C!Next
    BY <1>4 DEF TaskStep, TaskMoves, Dial, Reply, SetUp, MarkConnected, Drop,
                C!Next, C!TaskStep
  <1>5. RelayAlone \/ (\E h \in Handler : Cut(h)) => UNCHANGED taskVars
    BY DEF RelayAlone, HandlePair, TTLPasses, Reaper, Cut
  <1>6. ASSUME NEW h \in Handler, ReadsHello(h) \/ HandlerStep(h) \/ Notices(h)
        PROVE  UNCHANGED taskVars
    BY <1>6 DEF ReadsHello, HandlerStep, Notices
  <1>7. UNCHANGED vars => UNCHANGED taskVars
    BY DEF vars
  <1>8. QED
    BY <1>1, <1>2, <1>3, <1>4, <1>5, <1>6, <1>7 DEF Next

\* The relay of the system behaves as Relay says.
THEOREM ImplementsRelay == Spec => R!Spec
  BY LinkTypesInit, LinkTypesStep, RelayStep, PTL DEF Spec, Init, R!Spec

\* The tunnel manager of the system behaves as Connector says.
THEOREM ImplementsConnector == Spec => C!Spec
  BY ConnectorStep, PTL DEF Spec, Init, C!Spec

-----------------------------------------------------------------------------
(* The two instances R and RP of Relay, and C and CP of Connector, are one. *)

LEMMA SameRelay ==
  /\ R!Init => RP!Init
  /\ [R!Next]_(R!vars) => [RP!Next]_(RP!vars)
  BY DEF R!Init, RP!Init,
         R!HandlePair, RP!HandlePair, R!TTLPasses, RP!TTLPasses, R!BadHello,
         RP!BadHello, R!Hello, RP!Hello, R!CheckExpiry, RP!CheckExpiry,
         R!CheckInUse, RP!CheckInUse, R!Listen, RP!Listen, R!SessionFails,
         RP!SessionFails, R!OpenSession, RP!OpenSession, R!Install, RP!Install,
         R!SendReply, RP!SendReply, R!SessionDrops, RP!SessionDrops, R!Teardown,
         RP!Teardown, R!ReapTick, RP!ReapTick, R!ReapVisit, RP!ReapVisit,
         R!PollLookup, RP!PollLookup, R!PollRead, RP!PollRead, R!vars, RP!vars,
         R!tableVars, RP!tableVars, R!pairingVars, RP!pairingVars, R!socketVars,
         RP!socketVars, R!handlerVars, RP!handlerVars, R!pollVars, RP!pollVars,
         R!Goto, RP!Goto, R!RMuFree, RP!RMuFree, R!Expired, RP!Expired, R!Active,
         RP!Active, R!Record, RP!Record, R!Release, RP!Release, R!HandlerStep,
         RP!HandlerStep, R!Next, RP!Next

LEMMA SameConnector ==
  /\ C!Init => CP!Init
  /\ [C!Next]_(C!vars) => [CP!Next]_(CP!vars)
  BY DEF C!Init, CP!Init,
         C!Connect, CP!Connect, C!Disconnect, CP!Disconnect, C!Begin, CP!Begin,
         C!Dial, CP!Dial, C!Reply, CP!Reply, C!SetUp, CP!SetUp, C!MarkConnected,
         CP!MarkConnected, C!Drop, CP!Drop, C!CheckContext, CP!CheckContext,
         C!GoIdle, CP!GoIdle, C!GoError, CP!GoError, C!GoRetry, CP!GoRetry,
         C!Backoff, CP!Backoff, C!StreamArrives, CP!StreamArrives, C!LocalDialEnds,
         CP!LocalDialEnds, C!TaskStep, CP!TaskStep, C!Next, CP!Next, C!vars,
         CP!vars, C!shown, CP!shown, C!Goto, CP!Goto, C!Said, CP!Said

-----------------------------------------------------------------------------
(* What is proved of the components holds here too. *)

LEMMA RelayInductive == Spec => []RP!IInv
  <1>1. None \notin Code \cup Pairing \cup Handler
    BY NoneAssumption
  <1>2. Init => RP!IInv
    BY <1>1, SameRelay, RP!InductiveInit DEF Init
  <1>3. RP!IInv /\ LinkTypes /\ [Next]_vars => RP!IInv'
    BY <1>1, SameRelay, RelayStep, RP!InductiveStep
  <1>4. QED
    BY <1>2, <1>3, LinkTypesInit, LinkTypesStep, PTL DEF Spec

LEMMA ConnectorInductive == Spec => []CP!IInv
  <1>1. None \notin Task
    BY NoneAssumption
  <1>2. Init => CP!IInv
    BY <1>1, SameConnector, CP!InductiveInit DEF Init
  <1>3. CP!IInv /\ [Next]_vars => CP!IInv'
    BY <1>1, SameConnector, ConnectorStep, CP!InductiveStep
  <1>4. QED
    BY <1>2, <1>3, PTL DEF Spec

-----------------------------------------------------------------------------
(* What the connector knows of the relay.  The two properties that relate  *)
(* the sides rest on one fact: the relay says ok only after it recorded    *)
(* the connection, and nothing undoes that.                                *)

OnLink == {"reply", "session", "mark", "serving"}

LinkInv ==
    /\ \A t \in Task : tpc[t] \in OnLink => link[t] \in Handler
    /\ \A h \in Handler : reply[h] = "ok" => R!Installed(h)
    /\ \A t \in Task : tpc[t] \in OnLink \ {"reply"} => reply[link[t]] = "ok"

TypeInv == R!TypeOK /\ C!TypeOK /\ LinkTypes

\* A connection that was recorded stays one that was recorded.
LEMMA StaysInstalled ==
  ASSUME R!TypeOK, [R!Next]_(R!vars), NEW h \in Handler, R!Installed(h)
  PROVE  R!Installed(h)'
  <1> USE DEF R!TypeOK, R!Installed, R!InstalledPC, R!Goto
  <1>1. ASSUME NEW g \in Handler, R!HandlerStep(g) PROVE R!Installed(h)'
    BY <1>1 DEF R!HandlerStep, R!CheckExpiry, R!CheckInUse, R!Listen, R!SessionFails,
                R!OpenSession, R!Install, R!SendReply, R!Teardown
  <1>2. ASSUME NEW g \in Handler, NEW c \in Code, R!BadHello(g) \/ R!Hello(g, c)
        PROVE  R!Installed(h)'
    BY <1>2 DEF R!BadHello, R!Hello
  <1>3. CASE UNCHANGED hpc
    BY <1>3
  <1>4. QED
    BY <1>1, <1>2, <1>3 DEF R!Next, R!vars, R!handlerVars, R!HandlePair, R!TTLPasses,
       R!SessionDrops, R!ReapTick, R!ReapVisit, R!PollLookup, R!PollRead, R!BadHello

LEMMA LinkInvInit == Init => LinkInv
  BY DEF Init, C!Init, LinkInv, OnLink

LEMMA LinkInvStep == TypeInv /\ LinkInv /\ [Next]_vars => LinkInv'
  <1> SUFFICES ASSUME TypeInv, LinkInv, [Next]_vars PROVE LinkInv'
    OBVIOUS
  <1>0. \A h \in Handler : R!Installed(h) => R!Installed(h)'
    BY StaysInstalled, RelayStep DEF TypeInv
  <1> USE DEF TypeInv, LinkInv, LinkTypes, OnLink, C!TypeOK, linkVars
  <1>1. ASSUME NEW t \in Task, NEW c \in Code, Connect(t, c) PROVE LinkInv'
    BY <1>0, <1>1 DEF Connect, C!Connect, C!Goto
  <1>2. CASE Disconnect
    BY <1>0, <1>2 DEF Disconnect, C!Disconnect
  <1>3. ASSUME NEW t \in Task, TaskStep(t) PROVE LinkInv'
    <2> USE DEF C!Goto
    <2>1. CASE TaskMoves(t)
      BY <1>0, <2>1 DEF TaskMoves, C!Begin, C!CheckContext, C!GoIdle, C!GoError,
                        C!GoRetry, C!Backoff
    <2>2. CASE Dial(t)
      BY <1>0, <2>2 DEF Dial, C!Dial
    <2>3. CASE Reply(t)
      BY <1>0, <2>3 DEF Reply, C!Reply, Unlink
    <2>4. CASE SetUp(t)
      BY <1>0, <2>4 DEF SetUp, C!SetUp, Unlink
    <2>5. CASE MarkConnected(t)
      BY <1>0, <2>5 DEF MarkConnected, C!MarkConnected
    <2>6. CASE Drop(t)
      BY <1>0, <2>6 DEF Drop, C!Drop, Unlink
    <2>7. QED
      BY <1>3, <2>1, <2>2, <2>3, <2>4, <2>5, <2>6 DEF TaskStep
  <1>4. CASE RelayAlone
    BY <1>0, <1>4 DEF RelayAlone, HandlePair, TTLPasses, Reaper, taskVars
  <1>5. ASSUME NEW h \in Handler, ReadsHello(h) PROVE LinkInv'
    <2>1. hpc[h] = "hello" /\ ~ R!Installed(h)
      BY <1>5 DEF ReadsHello, R!Hello, R!BadHello, R!Goto, R!Installed, R!InstalledPC
    <2>2. reply' = reply \/ Answers(h)
      BY <1>5 DEF ReadsHello
    <2>3. hpc'[h] # "serving"
      BY <1>5 DEF ReadsHello, R!Hello, R!BadHello, R!Goto, R!TypeOK
    <2>4. QED
      BY <1>0, <1>5, <2>1, <2>2, <2>3 DEF ReadsHello, Answers, taskVars
  <1>6. ASSUME NEW h \in Handler, HandlerStep(h) PROVE LinkInv'
    <2>1. R!Installed(h)' => hpc'[h] # "rejected"
      BY DEF R!Installed, R!InstalledPC
    <2>2. hpc'[h] = "serving" => R!Installed(h)'
      BY DEF R!Installed, R!InstalledPC
    <2>3. QED
      BY <1>0, <1>6, <2>1, <2>2 DEF HandlerStep, Answers, taskVars
  <1>7. ASSUME NEW h \in Handler, Notices(h) \/ Cut(h) PROVE LinkInv'
    BY <1>0, <1>7 DEF Notices, Cut, taskVars
  <1>8. CASE UNCHANGED vars
    BY <1>0, <1>8 DEF vars, taskVars
  <1>9. QED
    BY <1>1, <1>2, <1>3, <1>4, <1>5, <1>6, <1>7, <1>8 DEF Next

LEMMA SameTypes == (RP!IInv => R!TypeOK) /\ (CP!IInv => C!TypeOK)
  BY DEF RP!IInv, RP!TypeOK, R!TypeOK, RP!PairingOrNil, R!PairingOrNil, RP!HandlerOrNil,
         R!HandlerOrNil, RP!PC, R!PC, RP!InstalledPC, R!InstalledPC,
         CP!IInv, CP!TypeOK, C!TypeOK, CP!TaskOrNil, C!TaskOrNil, CP!Status, C!Status,
         CP!Error, C!Error, CP!ErrorKind, C!ErrorKind, CP!PC, C!PC, CP!InServeOnce,
         C!InServeOnce

LEMMA LinkInductive == Spec => [](TypeInv /\ LinkInv)
  BY RelayInductive, ConnectorInductive, SameTypes, LinkTypesInit, LinkTypesStep,
     LinkInvInit, LinkInvStep, PTL DEF Spec, TypeInv

\* Every variable of the two programs, and of what lies between them, keeps its
\* type.
THEOREM TypeCorrect == Spec => []TypeOK
  BY LinkInductive, PTL DEF TypeInv, LinkTypes, TypeOK

\* A connector that announces its tunnel was recorded by the relay before.
THEOREM RecordedCorrect == Spec => []ConnectedIsRecorded
  <1>1. LinkInv => ConnectedIsRecorded
    BY NoneAssumption DEF LinkInv, OnLink, ConnectedIsRecorded
  <1>2. QED
    BY <1>1, LinkInductive, PTL

\* The address a connector shows is recorded at the relay and its port is held,
\* while the connection is whole and no other one used the code.
THEOREM ShownCorrect == Spec => []ShownAddressIsHeld
  <1>1. RP!IInv /\ TypeInv /\ LinkInv => ShownAddressIsHeld
    <2> SUFFICES ASSUME RP!IInv, TypeInv, LinkInv, NEW t \in Task,
                        tpc[t] = "serving", link[t] \in sessOpen, R!Sole(link[t])
                 PROVE  link[t] \in lnOpen /\ publicAdr[local[link[t]]] = link[t]
      BY DEF ShownAddressIsHeld
    <2> DEFINE h == link[t]
    <2>1. h \in Handler /\ R!Installed(h)
      BY DEF LinkInv, OnLink
    <2>2. RP!Sole(h)
      BY DEF R!Sole, RP!Sole, R!Installed, RP!Installed, R!InstalledPC, RP!InstalledPC
    <2>3. hpc[h] # "done"
      BY <2>1, <2>2 DEF RP!IInv, RP!SoleConnectorFreesPort
    <2>4. hpc[h] \in {"reply", "serving", "teardown"}
      BY <2>1, <2>3 DEF R!Installed, R!InstalledPC
    <2>5. sess[local[h]] = h
      BY <2>1, <2>2, <2>4 DEF RP!IInv, RP!SoleIsRecorded
    <2>6. local[h] \in Pairing
      BY <2>1, <2>4 DEF TypeInv, R!TypeOK, R!PairingOrNil
    <2>7. QED
      BY <2>1, <2>5, <2>6, NoneAssumption DEF RP!IInv, RP!AddressHasKeeper
  <1>2. QED
    BY <1>1, RelayInductive, LinkInductive, PTL
=============================================================================
