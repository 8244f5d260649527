---------------------------- MODULE RelayProofs ----------------------------
(***************************************************************************)
(* Proofs about the control plane of the relay, for any number of codes,   *)
(* pairings and connections.                                               *)
(***************************************************************************)
EXTENDS Relay, TLAPS

\* What a handler has open, by where it is.
OpenByPlace ==
    \A h \in Handler :
        /\ h \in lnOpen => pc[h] \in {"session", "install"} \cup InstalledPC
        /\ h \in sessOpen => pc[h] \in {"install"} \cup InstalledPC
        /\ pc[h] \in {"session", "install"} => h \in lnOpen

\* A connection that has its code for itself is the one its pairing records.
SoleIsRecorded ==
    \A h \in Handler :
        pc[h] \in {"reply", "serving", "teardown"} /\ Sole(h) => sess[local[h]] = h

IInv ==
    /\ TypeOK
    /\ AddressHasKeeper
    /\ OpenByPlace
    /\ SoleIsRecorded
    /\ SoleConnectorFreesPort

-----------------------------------------------------------------------------
\* Every variable keeps its type, and a handler past the lookup has a pairing.
LEMMA TypeInit == Init => TypeOK
  BY NoneAssumption DEF Init, TypeOK, PairingOrNil, HandlerOrNil, PC, InstalledPC

LEMMA TypeStep == TypeOK /\ [Next]_vars => TypeOK'
  <1> SUFFICES ASSUME TypeOK, [Next]_vars PROVE TypeOK'
    OBVIOUS
  <1> USE NoneAssumption DEF TypeOK, PairingOrNil, HandlerOrNil, PC, InstalledPC,
          Goto, RMuFree, tableVars, pairingVars, socketVars, handlerVars, pollVars
  <1>1. ASSUME NEW p \in Pairing, NEW c \in Code, HandlePair(p, c) PROVE TypeOK'
    BY <1>1 DEF HandlePair
  <1>2. ASSUME NEW p \in Pairing, TTLPasses(p) PROVE TypeOK'
    BY <1>2 DEF TTLPasses
  <1>3. ASSUME NEW h \in Handler, BadHello(h) PROVE TypeOK'
    BY <1>3 DEF BadHello
  <1>4. ASSUME NEW h \in Handler, NEW c \in Code, Hello(h, c) PROVE TypeOK'
    BY <1>4 DEF Hello
  <1>5. ASSUME NEW h \in Handler, HandlerStep(h) PROVE TypeOK'
    <2>1. CASE CheckExpiry(h)
      BY <2>1 DEF CheckExpiry
    <2>2. CASE CheckInUse(h)
      BY <2>2 DEF CheckInUse
    <2>3. CASE Listen(h)
      BY <2>3 DEF Listen
    <2>4. CASE SessionFails(h)
      BY <2>4 DEF SessionFails
    <2>5. CASE OpenSession(h)
      BY <2>5 DEF OpenSession
    <2>6. CASE Install(h)
      BY <2>6 DEF Install, Record
    <2>7. CASE SendReply(h)
      BY <2>7 DEF SendReply
    <2>8. CASE Teardown(h)
      BY <2>8 DEF Teardown, Release
    <2>9. QED
      BY <1>5, <2>1, <2>2, <2>3, <2>4, <2>5, <2>6, <2>7, <2>8 DEF HandlerStep
  <1>6. ASSUME NEW h \in Handler, SessionDrops(h) PROVE TypeOK'
    BY <1>6 DEF SessionDrops
  <1>7. CASE ReapTick
    BY <1>7 DEF ReapTick
  <1>8. ASSUME NEW c \in Code, ReapVisit(c) PROVE TypeOK'
    BY <1>8 DEF ReapVisit
  <1>9. ASSUME NEW c \in Code, PollLookup(c) PROVE TypeOK'
    BY <1>9 DEF PollLookup
  <1>10. CASE PollRead
    BY <1>10 DEF PollRead
  <1>11. CASE UNCHANGED vars
    BY <1>11 DEF vars
  <1>12. QED
    BY <1>1, <1>2, <1>3, <1>4, <1>5, <1>6, <1>7, <1>8, <1>9, <1>10, <1>11 DEF Next

THEOREM TypeCorrect == Spec => []TypeOK
  BY TypeInit, TypeStep, PTL DEF Spec

-----------------------------------------------------------------------------
\* A recorded session stays recorded: being alone with a code can only end.
LEMMA SoleBefore ==
  ASSUME TypeOK, [Next]_vars, NEW h \in Handler, Sole(h)',
         pc[h] # "hello" 
  PROVE  Sole(h) /\ local'[h] = local[h]
  <1> USE NoneAssumption DEF TypeOK, Goto, Installed, InstalledPC, Sole
  <1>1. \A g \in Handler : pc[g] # "hello" => local'[g] = local[g]
    BY DEF Next, HandlerStep, vars, handlerVars, HandlePair, TTLPasses, BadHello,
           Hello, CheckExpiry, CheckInUse, Listen, SessionFails, OpenSession, Install,
           SendReply, SessionDrops, Teardown, ReapTick, ReapVisit, PollLookup, PollRead
  <1>2. \A g \in Handler : Installed(g) => Installed(g)'
    BY DEF Next, HandlerStep, vars, handlerVars, HandlePair, TTLPasses, BadHello,
           Hello, CheckExpiry, CheckInUse, Listen, SessionFails, OpenSession, Install,
           SendReply, SessionDrops, Teardown, ReapTick, ReapVisit, PollLookup, PollRead,
           PC
  <1>3. QED
    BY <1>1, <1>2

-----------------------------------------------------------------------------
\* The steps that leave sessions, listeners and what is recorded alone, and
\* move no goroutine that has a listener, cannot break the invariant.
LEMMA QuietStep ==
  ASSUME IInv, TypeOK', UNCHANGED <<pairingVars, socketVars>>,
         \A h \in Handler :
            \/ pc'[h] = pc[h] /\ local'[h] = local[h]
            \/ /\ pc[h] \in {"hello", "expiry", "inUse"}
               /\ pc'[h] \in {"expiry", "inUse", "listen", "rejected"}
  PROVE  IInv'
  <1> USE DEF IInv, TypeOK, InstalledPC, pairingVars, socketVars
  <1>1. AddressHasKeeper'
    BY NoneAssumption DEF AddressHasKeeper, HandlerOrNil
  <1>2. OpenByPlace'
    BY DEF OpenByPlace
  <1>3. ASSUME NEW h \in Handler, Sole(h)', Installed(h)
        PROVE  Sole(h)
    BY <1>3 DEF Sole, Installed
  <1>4. SoleIsRecorded'
    BY <1>3 DEF SoleIsRecorded, Installed
  <1>5. SoleConnectorFreesPort'
    BY <1>3 DEF SoleConnectorFreesPort, OpenByPlace, Installed
  <1>6. QED
    BY <1>1, <1>2, <1>4, <1>5

\* Recording a session: the one recorded before, if any, has company now.
LEMMA InstallStep ==
  ASSUME IInv, TypeOK', [Next]_vars, NEW h \in Handler, Install(h)
  PROVE  IInv'
  <1> USE DEF IInv, TypeOK, InstalledPC, Install, Record, Goto, socketVars
  <1>1. AddressHasKeeper'
    BY NoneAssumption DEF AddressHasKeeper, HandlerOrNil, OpenByPlace
  <1>2. OpenByPlace'
    BY DEF OpenByPlace
  <1>3. \A g \in Handler : Sole(g)' /\ pc[g] # "hello" => Sole(g)
    BY SoleBefore
  <1>4. SoleIsRecorded'
    <2> SUFFICES ASSUME NEW g \in Handler, Sole(g)',
                        pc'[g] \in {"reply", "serving", "teardown"}
                 PROVE  sess'[local[g]] = g
      BY DEF SoleIsRecorded
    <2>1. CASE g = h
      BY <2>1
    <2>2. CASE g # h
      <3>1. local[g] # local[h]
        BY <2>2 DEF Sole, Installed
      <3>2. QED
        BY <2>2, <3>1, <1>3 DEF SoleIsRecorded
    <2>3. QED
      BY <2>1, <2>2
  <1>5. SoleConnectorFreesPort'
    BY <1>3 DEF SoleConnectorFreesPort
  <1>6. QED
    BY <1>1, <1>2, <1>4, <1>5

\* Tearing a pairing down: what is closed is what the pairing records, and
\* that is the caller's own connection if it had the code for itself.
LEMMA TeardownStep ==
  ASSUME IInv, TypeOK', [Next]_vars, NEW h \in Handler, Teardown(h)
  PROVE  IInv'
  <1> USE DEF IInv, TypeOK, InstalledPC, Teardown, Release, Goto
  <1>1. AddressHasKeeper'
    <2> SUFFICES ASSUME NEW p \in Pairing
                 PROVE  /\ listener'[p] = sess'[p]
                        /\ publicAdr'[p] = sess'[p]
                        /\ sess'[p] # None =>
                             /\ sess'[p] \in lnOpen'
                             /\ local'[sess'[p]] = p
                             /\ pc'[sess'[p]] \in {"reply", "serving", "teardown"}
      BY DEF AddressHasKeeper
    <2>1. local[h] \in Pairing
      BY DEF PairingOrNil
    <2>2. CASE p = local[h]
      BY <2>1, <2>2
    <2>3. CASE p # local[h]
      <3>1. /\ listener'[p] = sess'[p] /\ publicAdr'[p] = sess'[p] /\ sess'[p] = sess[p]
            /\ local' = local
        BY <2>3 DEF AddressHasKeeper
      <3>2. ASSUME sess[p] # None
            PROVE  sess[p] # h /\ sess[p] # listener[local[h]]
        BY <2>1, <2>3, <3>2 DEF AddressHasKeeper
      <3>3. \A g \in Handler \ {h} : pc'[g] = pc[g]
        OBVIOUS
      <3>4. ASSUME sess[p] # None
            PROVE  /\ sess[p] \in Handler /\ sess[p] \in lnOpen /\ local[sess[p]] = p
                   /\ pc[sess[p]] \in {"reply", "serving", "teardown"}
        BY <3>4 DEF AddressHasKeeper, HandlerOrNil
      <3>5. sess[p] # None => sess[p] \in lnOpen'
        BY <3>2, <3>4
      <3>6. QED
        BY <3>1, <3>2, <3>3, <3>4, <3>5
    <2>4. QED
      BY <2>2, <2>3
  <1>2. OpenByPlace'
    <2>1. listener[local[h]] # None =>
            pc[listener[local[h]]] \in {"reply", "serving", "teardown"}
      BY DEF AddressHasKeeper, PairingOrNil
    <2>2. \A g \in Handler : pc[g] \in {"session", "install"} => g # listener[local[h]]
      BY <2>1, NoneAssumption
    <2>3. QED
      BY <2>2 DEF OpenByPlace
  <1>3. \A g \in Handler : Sole(g)' /\ pc[g] # "hello" => Sole(g)
    BY SoleBefore
  <1>4. SoleIsRecorded'
    <2> SUFFICES ASSUME NEW g \in Handler, Sole(g)',
                        pc'[g] \in {"reply", "serving", "teardown"}
                 PROVE  sess'[local[g]] = g
      BY DEF SoleIsRecorded
    <2>1. g # h /\ local[g] # local[h]
      BY DEF Sole, Installed
    <2>2. QED
      BY <2>1, <1>3 DEF SoleIsRecorded
  <1>5. SoleConnectorFreesPort'
    <2>1. ASSUME Sole(h)
          PROVE  listener[local[h]] = h /\ sess[local[h]] = h
      BY <2>1, NoneAssumption DEF SoleIsRecorded, AddressHasKeeper, PairingOrNil
    <2>2. QED
      BY <1>3, <2>1 DEF SoleConnectorFreesPort
  <1>6. QED
    BY <1>1, <1>2, <1>4, <1>5

\* What a goroutine does without touching the record of its pairing.
LEMMA SocketStep ==
  ASSUME IInv, TypeOK', [Next]_vars, NEW h \in Handler,
         Listen(h) \/ SessionFails(h) \/ OpenSession(h) \/ SendReply(h) \/ SessionDrops(h)
  PROVE  IInv'
  <1> USE DEF IInv, TypeOK, InstalledPC, Goto, Listen, SessionFails, OpenSession,
          SendReply, SessionDrops, pairingVars, socketVars, handlerVars
  <1>1. AddressHasKeeper'
    BY NoneAssumption DEF AddressHasKeeper, HandlerOrNil
  <1>2. OpenByPlace'
    BY DEF OpenByPlace
  <1>3. \A g \in Handler : Sole(g)' /\ pc[g] # "hello" => Sole(g)
    BY SoleBefore
  <1>4. SoleIsRecorded'
    BY <1>3 DEF SoleIsRecorded
  <1>5. SoleConnectorFreesPort'
    BY <1>3 DEF SoleConnectorFreesPort, OpenByPlace
  <1>6. QED
    BY <1>1, <1>2, <1>4, <1>5

LEMMA InductiveInit == Init => IInv
  BY TypeInit, NoneAssumption
     DEF Init, IInv, AddressHasKeeper, OpenByPlace, SoleIsRecorded, SoleConnectorFreesPort

LEMMA InductiveStep == IInv /\ [Next]_vars => IInv'
  <1> SUFFICES ASSUME IInv, [Next]_vars PROVE IInv'
    OBVIOUS
  <1>0. TypeOK'
    BY TypeStep DEF IInv
  <1> USE DEF Goto, tableVars, pairingVars, socketVars, handlerVars, pollVars
  <1>1. ASSUME NEW p \in Pairing, NEW c \in Code, HandlePair(p, c) PROVE IInv'
    BY <1>0, <1>1, QuietStep DEF HandlePair
  <1>2. ASSUME NEW p \in Pairing, TTLPasses(p) PROVE IInv'
    BY <1>0, <1>2, QuietStep DEF TTLPasses
  <1>3. ASSUME NEW h \in Handler, BadHello(h) PROVE IInv'
    BY <1>0, <1>3, QuietStep DEF BadHello, IInv, TypeOK
  <1>4. ASSUME NEW h \in Handler, NEW c \in Code, Hello(h, c) PROVE IInv'
    BY <1>0, <1>4, QuietStep DEF Hello, IInv, TypeOK
  <1>5. ASSUME NEW h \in Handler, HandlerStep(h) PROVE IInv'
    <2>1. CASE CheckExpiry(h)
      BY <1>0, <2>1, QuietStep DEF CheckExpiry, IInv, TypeOK
    <2>2. CASE CheckInUse(h)
      BY <1>0, <2>2, QuietStep DEF CheckInUse, IInv, TypeOK
    <2>3. CASE Install(h)
      BY <1>0, <2>3, InstallStep
    <2>4. CASE Teardown(h)
      BY <1>0, <2>4, TeardownStep
    <2>5. CASE Listen(h) \/ SessionFails(h) \/ OpenSession(h) \/ SendReply(h)
      BY <1>0, <2>5, SocketStep
    <2>6. QED
      BY <1>5, <2>1, <2>2, <2>3, <2>4, <2>5 DEF HandlerStep
  <1>6. ASSUME NEW h \in Handler, SessionDrops(h) PROVE IInv'
    BY <1>0, <1>6, SocketStep
  <1>7. CASE ReapTick
    BY <1>0, <1>7, QuietStep DEF ReapTick
  <1>8. ASSUME NEW c \in Code, ReapVisit(c) PROVE IInv'
    BY <1>0, <1>8, QuietStep DEF ReapVisit
  <1>9. ASSUME NEW c \in Code, PollLookup(c) PROVE IInv'
    BY <1>0, <1>9, QuietStep DEF PollLookup
  <1>10. CASE PollRead
    BY <1>0, <1>10, QuietStep DEF PollRead
  <1>11. CASE UNCHANGED vars
    BY <1>0, <1>11, QuietStep DEF vars
  <1>12. QED
    BY <1>1, <1>2, <1>3, <1>4, <1>5, <1>6, <1>7, <1>8, <1>9, <1>10, <1>11 DEF Next

LEMMA Inductive == Spec => []IInv
  BY InductiveInit, InductiveStep, PTL DEF Spec

\* The three fields of a pairing name one connection whose handler is still
\* there to clear them.
THEOREM AddressCorrect == Spec => []AddressHasKeeper
  BY Inductive, PTL DEF IInv

\* A connection alone with its code leaves nothing open behind it.
THEOREM SoleFreesCorrect == Spec => []SoleConnectorFreesPort
  BY Inductive, PTL DEF IInv

-----------------------------------------------------------------------------
\* The address a poll is given belongs to an open session and a held port.
THEOREM StatusCorrect == Spec => StatusTruthful
  <1>1. IInv /\ [Next]_vars =>
          [answer' \notin {answer, None} => answer' \in sessOpen' \cap lnOpen']_vars
    <2> SUFFICES ASSUME IInv, [Next]_vars, answer' \notin {answer, None}
                 PROVE  answer' \in sessOpen' \cap lnOpen'
      OBVIOUS
    <2>1. PollRead
      BY DEF Next, HandlerStep, vars, tableVars, pairingVars, socketVars, handlerVars,
           pollVars, HandlePair, TTLPasses, BadHello, Hello, CheckExpiry, CheckInUse,
           Listen, SessionFails, OpenSession, Install, SendReply, SessionDrops,
           Teardown, ReapTick, ReapVisit, PollLookup, PollRead
    <2>2. Active(asked) /\ answer' = publicAdr[asked] /\ asked \in Pairing
      BY <2>1 DEF PollRead, IInv, TypeOK, PairingOrNil
    <2>3. sess[asked] \in sessOpen /\ sess[asked] # None
      BY <2>2, NoneAssumption DEF Active, IInv, TypeOK
    <2>4. answer' \in sessOpen /\ answer' \in lnOpen
      BY <2>2, <2>3 DEF IInv, AddressHasKeeper
    <2>5. QED
      BY <2>1, <2>4 DEF PollRead, socketVars
  <1>2. QED
    BY <1>1, Inductive, PTL DEF Spec, StatusTruthful

\* A code that expired with no connector past the check stays without one.
THEOREM ExpiryCorrect == Spec => ExpiredStaysDead
  <1>1. TypeOK /\ [Next]_vars =>
          [\A p \in Pairing : Dead(p) => Dead(p)']_vars
    <2> SUFFICES ASSUME TypeOK, [Next]_vars, NEW p \in Pairing, Dead(p)
                 PROVE  Dead(p)'
      OBVIOUS
    <2> USE NoneAssumption DEF TypeOK, Goto
    <2>1. stale \subseteq stale'
      BY DEF Next, HandlerStep, vars, tableVars, pairingVars, socketVars, handlerVars,
           pollVars, HandlePair, TTLPasses, BadHello, Hello, CheckExpiry, CheckInUse,
           Listen, SessionFails, OpenSession, Install, SendReply, SessionDrops,
           Teardown, ReapTick, ReapVisit, PollLookup, PollRead
    <2>2. sess'[p] = None
      <3>1. \A h \in Handler : Install(h) => local[h] # p
        BY DEF Dead, Install
      <3>2. CASE \E h \in Handler : Install(h)
        BY <3>1, <3>2 DEF Dead, Install, Record, PairingOrNil
      <3>3. CASE \E h \in Handler : Teardown(h)
        BY <3>3 DEF Dead, Teardown, Release, PairingOrNil
      <3>4. CASE sess' = sess
        BY <3>4 DEF Dead
      <3>5. QED
        BY <3>2, <3>3, <3>4 DEF Next, HandlerStep, vars, tableVars, pairingVars, socketVars, handlerVars,
           pollVars, HandlePair, TTLPasses, BadHello, Hello, CheckExpiry, CheckInUse,
           Listen, SessionFails, OpenSession, Install, SendReply, SessionDrops,
           Teardown, ReapTick, ReapVisit, PollLookup, PollRead
    <2>3. ASSUME NEW h \in Handler, local'[h] = p
          PROVE  pc'[h] \in {"expiry", "rejected", "done"}
      <3>1. CASE \E c \in Code : Hello(h, c)
        BY <2>3, <3>1 DEF Hello
      <3>2. CASE CheckExpiry(h)
        BY <2>3, <3>2 DEF CheckExpiry, Expired, Dead
      <3>3. CASE pc'[h] = pc[h] /\ local'[h] = local[h]
        BY <2>3, <3>3 DEF Dead
      <3>4. CASE BadHello(h) \/ (HandlerStep(h) /\ ~ CheckExpiry(h))
        BY <2>3, <3>4 DEF Dead, BadHello, HandlerStep, CheckInUse, Listen, SessionFails,
              OpenSession, Install, SendReply, Teardown
      <3>5. QED
        BY <3>1, <3>2, <3>3, <3>4 DEF Next, HandlerStep, vars, tableVars, pairingVars, socketVars, handlerVars,
           pollVars, HandlePair, TTLPasses, BadHello, Hello, CheckExpiry, CheckInUse,
           Listen, SessionFails, OpenSession, Install, SendReply, SessionDrops,
           Teardown, ReapTick, ReapVisit, PollLookup, PollRead
    <2>4. QED
      BY <2>1, <2>2, <2>3 DEF Dead
  <1>2. QED
    BY <1>1, TypeCorrect, PTL DEF Spec, ExpiredStaysDead

\* Nobody closes the port of a connection that has its code for itself while
\* its session is open and its reply went out.
THEOREM SoleKeepsCorrect == Spec => SoleConnectorKeepsPort
  <1>1. IInv /\ [Next]_vars =>
          [\A h \in lnOpen \ lnOpen' :
             Sole(h) => h \notin sessOpen \/ pc[h] \in {"session", "teardown"}]_vars
    <2> SUFFICES ASSUME IInv, [Next]_vars, NEW h \in lnOpen \ lnOpen', Sole(h)
                 PROVE  h \notin sessOpen \/ pc[h] \in {"session", "teardown"}
      OBVIOUS
    <2> USE DEF IInv, TypeOK, Goto
    <2>1. h \in Handler
      OBVIOUS
    <2>2. \E g \in Handler : SessionFails(g) \/ Teardown(g)
      BY <2>1 DEF Next, HandlerStep, vars, tableVars, pairingVars, socketVars, handlerVars,
           pollVars, HandlePair, TTLPasses, BadHello, Hello, CheckExpiry, CheckInUse,
           Listen, SessionFails, OpenSession, Install, SendReply, SessionDrops,
           Teardown, ReapTick, ReapVisit, PollLookup, PollRead
    <2>3. PICK g \in Handler : SessionFails(g) \/ Teardown(g)
      BY <2>2
    <2>4. CASE SessionFails(g)
      BY <2>4 DEF SessionFails
    <2>5. CASE Teardown(g)
      <3>1. local[g] \in Pairing /\ h = listener[local[g]]
        BY <2>5 DEF Teardown, Release, PairingOrNil
      <3>2. local[h] = local[g]
        BY <2>1, <3>1, NoneAssumption DEF AddressHasKeeper
      <3>3. g = h
        BY <2>1, <2>5, <3>2 DEF Teardown, Sole, Installed, InstalledPC
      <3>4. QED
        BY <2>5, <3>3 DEF Teardown
    <2>6. QED
      BY <2>3, <2>4, <2>5
  <1>2. QED
    BY <1>1, Inductive, PTL DEF Spec, SoleConnectorKeepsPort
=============================================================================
