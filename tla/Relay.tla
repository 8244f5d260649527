------------------------------- MODULE Relay -------------------------------
(***************************************************************************)
(* The control plane of the relay (cmd/relay/main.go): the table of        *)
(* pairing codes, the goroutine that serves each connector's /ws request,  *)
(* the reaper and the backend's status poll.                               *)
(*                                                                         *)
(* Grain of atomicity: one action per critical section (r.mu or p.mu) or   *)
(* per call that can fail.  r.mu is only ever held across several steps by *)
(* the reaper, which visits the codes one by one; toReap # {} says that it *)
(* does.  Every other critical section is a single action.                 *)
(*                                                                         *)
(* A handler h stands for one connection: its goroutine, its WebSocket,    *)
(* the TCP listener it opens and the yamux session it creates.  So the     *)
(* address of h's listener, the listener and the session are all named h.  *)
(***************************************************************************)
CONSTANTS
    Code,       \* the codes newCode can draw, already upper-cased
    Pairing,    \* the pairing objects /pair may allocate (bounds the calls)
    Handler,    \* the connections to /ws (bounds their number)
    None        \* Go's nil and the empty string

ASSUME NoneAssumption == None \notin Code \cup Pairing \cup Handler

VARIABLES
    pairings,   \* relay.pairings: code -> pairing object
    issued,     \* the pairing objects allocated so far
    stale,      \* the pairing objects older than codeTTL
    sess,       \* pairing.sess: the session recorded in each pairing
    listener,   \* pairing.listener
    publicAdr,  \* pairing.publicAdr
    sessOpen,   \* the sessions for which IsClosed() is false
    lnOpen,     \* the listeners that hold a port
    pc,         \* where each handleWS goroutine is
    local,      \* its local variable p
    toReap,     \* the codes reapLoop still has to visit in this round
    asked,      \* the pairing a status request looked up and will now read
    answer      \* the address the last status reply called active

tableVars   == <<pairings, issued, stale>>
pairingVars == <<sess, listener, publicAdr>>
socketVars  == <<sessOpen, lnOpen>>
handlerVars == <<pc, local>>
pollVars    == <<asked, answer>>
vars == <<tableVars, pairingVars, socketVars, handlerVars, toReap, pollVars>>

-----------------------------------------------------------------------------
PairingOrNil == Pairing \cup {None}
HandlerOrNil == Handler \cup {None}

(***************************************************************************)
(* The places of a handleWS goroutine, named for what it does next.        *)
(* "rejected" and "done" are its two returns: before and after it recorded *)
(* a session.                                                              *)
(***************************************************************************)
InstalledPC == {"reply", "serving", "teardown", "done"}
PC == {"hello", "expiry", "inUse", "listen", "session", "install", "rejected"}
        \cup InstalledPC

\* h recorded its session in its pairing at some time.
Installed(h) == pc[h] \in InstalledPC

\* No other connection ever recorded a session in h's pairing.
Sole(h) == \A g \in Handler \ {h} : local[g] = local[h] => ~Installed(g)

Goto(h, from, to) ==
    /\ pc[h] = from
    /\ pc' = [pc EXCEPT ![h] = to]

RMuFree == toReap = {}

Init ==
    /\ pairings = [c \in Code |-> None]
    /\ issued = {}
    /\ stale = {}
    /\ sess = [p \in Pairing |-> None]
    /\ listener = [p \in Pairing |-> None]
    /\ publicAdr = [p \in Pairing |-> None]
    /\ sessOpen = {}
    /\ lnOpen = {}
    /\ pc = [h \in Handler |-> "hello"]
    /\ local = [h \in Handler |-> None]
    /\ toReap = {}
    /\ asked = None
    /\ answer = None

-----------------------------------------------------------------------------
(* POST /pair.  newCode does not look at the table, so the code may be one *)
(* that is in use: the old pairing is then no longer reachable by it.      *)
HandlePair(p, c) ==
    /\ RMuFree
    /\ p \notin issued
    /\ issued' = issued \cup {p}
    /\ pairings' = [pairings EXCEPT ![c] = p]
    /\ UNCHANGED <<stale, pairingVars, socketVars, handlerVars, toReap, pollVars>>

\* codeTTL has passed since p.createdAt.
TTLPasses(p) ==
    /\ p \in issued \ stale
    /\ stale' = stale \cup {p}
    /\ UNCHANGED <<pairings, issued, pairingVars, socketVars, handlerVars, toReap, pollVars>>

Expired_never(p) == FALSE
Expired(p) == p \in stale /\ sess[p] = None

-----------------------------------------------------------------------------
(* GET /ws, step by step. *)

\* The first frame could not be read or is not a hello.
BadHello(h) ==
    /\ Goto(h, "hello", "rejected")
    /\ UNCHANGED <<tableVars, pairingVars, socketVars, local, toReap, pollVars>>

\* The hello carries code c; the pairing is looked up under r.mu.
Hello_noNilCheck(h, c) ==
    /\ RMuFree
    /\ Goto(h, "hello", "expiry")
    /\ local' = [local EXCEPT ![h] = pairings[c]]
    /\ UNCHANGED <<tableVars, pairingVars, socketVars, toReap, pollVars>>
Hello(h, c) ==
    /\ RMuFree
    /\ Goto(h, "hello", IF pairings[c] = None THEN "rejected" ELSE "expiry")
    /\ local' = [local EXCEPT ![h] = pairings[c]]
    /\ UNCHANGED <<tableVars, pairingVars, socketVars, toReap, pollVars>>

CheckExpiry(h) ==
    /\ Goto(h, "expiry", IF Expired(local[h]) THEN "rejected" ELSE "inUse")
    /\ UNCHANGED <<tableVars, pairingVars, socketVars, local, toReap, pollVars>>

\* p.sess != nil && !p.sess.IsClosed()
Active_recorded(p) == sess[p] # None
Active(p) == sess[p] \in sessOpen

\* p.mu is released before anything is recorded: Install takes it again.
CheckInUse(h) ==
    /\ Goto(h, "inUse", IF Active(local[h]) THEN "rejected" ELSE "listen")
    /\ UNCHANGED <<tableVars, pairingVars, socketVars, local, toReap, pollVars>>

\* net.Listen on port 0, which can run out of ports.
Listen(h) ==
    /\ \/ /\ Goto(h, "listen", "session")
          /\ lnOpen' = lnOpen \cup {h}
       \/ /\ Goto(h, "listen", "rejected")
          /\ UNCHANGED lnOpen
    /\ UNCHANGED <<tableVars, pairingVars, sessOpen, local, toReap, pollVars>>

\* A listener whose session cannot be set up is closed before the rejection.
SessionFails_keepsPort(h) ==
    /\ Goto(h, "session", "rejected")
    /\ UNCHANGED <<tableVars, pairingVars, socketVars, local, toReap, pollVars>>
SessionFails(h) ==
    /\ Goto(h, "session", "rejected")
    /\ lnOpen' = lnOpen \ {h}
    /\ UNCHANGED <<tableVars, pairingVars, sessOpen, local, toReap, pollVars>>

OpenSession(h) ==
    /\ Goto(h, "session", "install")
    /\ sessOpen' = sessOpen \cup {h}
    /\ UNCHANGED <<tableVars, pairingVars, lnOpen, local, toReap, pollVars>>

\* p.sess, p.listener, p.publicAdr = sess, ln, publicAdr
Record_noAddress(p, h) ==
    /\ sess' = [sess EXCEPT ![p] = h]
    /\ listener' = [listener EXCEPT ![p] = h]
    /\ UNCHANGED publicAdr
Record(p, h) ==
    /\ sess' = [sess EXCEPT ![p] = h]
    /\ listener' = [listener EXCEPT ![p] = h]
    /\ publicAdr' = [publicAdr EXCEPT ![p] = h]

Install(h) ==
    /\ Goto(h, "install", "reply")
    /\ Record(local[h], h)
    /\ UNCHANGED <<tableVars, socketVars, local, toReap, pollVars>>

\* HelloReply: the write fails for certain once the session, and with it the
\* WebSocket, is closed.  After a good write acceptLoop is started.
SendReply(h) ==
    /\ \/ h \in sessOpen /\ Goto(h, "reply", "serving")
       \/ Goto(h, "reply", "teardown")
    /\ UNCHANGED <<tableVars, pairingVars, socketVars, local, toReap, pollVars>>

\* The connector goes away: yamux closes the session and its CloseChan.
SessionDrops(h) ==
    /\ h \in sessOpen
    /\ sessOpen' = sessOpen \ {h}
    /\ UNCHANGED <<tableVars, pairingVars, lnOpen, handlerVars, toReap, pollVars>>

\* The body of teardown(p), under p.mu: it closes what p records now.
Release_keepsAddress(p) ==
    /\ lnOpen' = lnOpen \ {listener[p]}
    /\ sessOpen' = sessOpen \ {sess[p]}
    /\ sess' = [sess EXCEPT ![p] = None]
    /\ listener' = [listener EXCEPT ![p] = None]
    /\ UNCHANGED publicAdr
Release(p) ==
    /\ lnOpen' = lnOpen \ {listener[p]}
    /\ sessOpen' = sessOpen \ {sess[p]}
    /\ sess' = [sess EXCEPT ![p] = None]
    /\ listener' = [listener EXCEPT ![p] = None]
    /\ publicAdr' = [publicAdr EXCEPT ![p] = None]

\* teardown runs after a failed reply, or when <-sess.CloseChan() returns.
Teardown_doesNotWait(h) ==
    /\ Goto(h, "teardown", "done") \/ Goto(h, "serving", "done")
    /\ Release(local[h])
    /\ UNCHANGED <<tableVars, local, toReap, pollVars>>
Teardown(h) ==
    /\ \/ Goto(h, "teardown", "done")
       \/ h \notin sessOpen /\ Goto(h, "serving", "done")
    /\ Release(local[h])
    /\ UNCHANGED <<tableVars, local, toReap, pollVars>>

-----------------------------------------------------------------------------
(* reapLoop.  A round holds r.mu; expired() takes p.mu for each pairing. *)
ReapTick ==
    /\ RMuFree
    /\ toReap' = {c \in Code : pairings[c] # None}
    /\ UNCHANGED <<tableVars, pairingVars, socketVars, handlerVars, pollVars>>

ReapVisit_keepsAll(c) ==
    /\ c \in toReap
    /\ toReap' = toReap \ {c}
    /\ UNCHANGED <<tableVars, pairingVars, socketVars, handlerVars, pollVars>>
ReapVisit(c) ==
    /\ c \in toReap
    /\ toReap' = toReap \ {c}
    /\ pairings' = IF Expired(pairings[c]) THEN [pairings EXCEPT ![c] = None] ELSE pairings
    /\ UNCHANGED <<issued, stale, pairingVars, socketVars, handlerVars, pollVars>>

-----------------------------------------------------------------------------
(* GET /tunnel/{code}: the lookup under r.mu, then the read under p.mu. *)
PollLookup(c) ==
    /\ RMuFree
    /\ asked = None
    /\ asked' = pairings[c]
    /\ answer' = None
    /\ UNCHANGED <<tableVars, pairingVars, socketVars, handlerVars, toReap>>

PollRead ==
    /\ asked # None
    /\ asked' = None
    /\ answer' = IF Active(asked) THEN publicAdr[asked] ELSE None
    /\ UNCHANGED <<tableVars, pairingVars, socketVars, handlerVars, toReap>>

-----------------------------------------------------------------------------
\* The steps the goroutine of h takes by itself once the hello has arrived.
HandlerStep(h) ==
    \/ CheckExpiry(h)
    \/ CheckInUse(h)
    \/ Listen(h)
    \/ SessionFails(h)
    \/ OpenSession(h)
    \/ Install(h)
    \/ SendReply(h)
    \/ Teardown(h)

Next ==
    \/ \E p \in Pairing, c \in Code : HandlePair(p, c)
    \/ \E p \in Pairing : TTLPasses(p)
    \/ \E h \in Handler : BadHello(h)
    \/ \E h \in Handler, c \in Code : Hello(h, c)
    \/ \E h \in Handler : HandlerStep(h)
    \/ \E h \in Handler : SessionDrops(h)
    \/ ReapTick
    \/ \E c \in Code : ReapVisit(c)
    \/ \E c \in Code : PollLookup(c)
    \/ PollRead

Spec == Init /\ [][Next]_vars

-----------------------------------------------------------------------------
TypeOK ==
    /\ pairings \in [Code -> PairingOrNil]
    /\ issued \in SUBSET Pairing
    /\ stale \in SUBSET Pairing
    /\ sess \in [Pairing -> HandlerOrNil]
    /\ listener \in [Pairing -> HandlerOrNil]
    /\ publicAdr \in [Pairing -> HandlerOrNil]
    /\ sessOpen \in SUBSET Handler
    /\ lnOpen \in SUBSET Handler
    /\ pc \in [Handler -> PC]
    /\ local \in [Handler -> PairingOrNil]
    /\ \A h \in Handler : pc[h] \notin {"hello", "rejected"} => local[h] # None
    /\ toReap \in SUBSET {c \in Code : pairings[c] # None}
    /\ asked \in PairingOrNil
    /\ answer \in HandlerOrNil

-----------------------------------------------------------------------------
(* Properties that hold. *)

\* A pairing shows an address exactly while the handler that recorded it has
\* not been torn down: the three fields that Install sets and teardown clears
\* name one connection, whose port is still held and whose goroutine is still
\* there to free it, whatever other connections with the same code did
\* (handleWS lines 184-199, teardown).
AddressHasKeeper ==
    \A p \in Pairing :
        /\ listener[p] = sess[p]
        /\ publicAdr[p] = sess[p]
        /\ sess[p] # None =>
             /\ sess[p] \in lnOpen
             /\ local[sess[p]] = p
             /\ pc[sess[p]] \in {"reply", "serving", "teardown"}

\* When the backend's poll says active, the address it is given is that of a
\* session that is open and of a listener that holds its port at that moment,
\* although the lookup of the code and the read of the pairing are two
\* critical sections (handleTunnelStatus).
StatusTruthful ==
    [][answer' \notin {answer, None} => answer' \in sessOpen' \cap lnOpen']_vars

\* No connection is on its way to recording a session in p, which is too old
\* and has none.
Dead(p) ==
    /\ p \in stale
    /\ sess[p] = None
    /\ \A h \in Handler : local[h] = p => pc[h] \in {"expiry", "rejected", "done"}

\* An expired code never comes back to life, neither through a hello that
\* looked it up before it expired nor through one the reaper overtakes: the
\* check of expired() at line 157 stops every connection that was not past it.
ExpiredStaysDead ==
    [][\A p \in Pairing : Dead(p) => Dead(p)']_vars

\* Nothing is left open by a connection that had its code for itself: every
\* return of handleWS has closed the listener and the session it opened.
SoleConnectorFreesPort ==
    \A h \in Handler :
        /\ pc[h] = "rejected" => h \notin lnOpen \cup sessOpen
        /\ pc[h] = "done" /\ Sole(h) => h \notin lnOpen \cup sessOpen

\* The port of a connection that has its code for itself is closed only
\* after its session is, or because no session or no reply came about: the
\* port is "the tunnel's public identity for as long as the connector stays
\* up" (line 169).
SoleConnectorKeepsPort ==
    [][\A h \in lnOpen \ lnOpen' :
        Sole(h) => h \notin sessOpen \/ pc[h] \in {"session", "teardown"}]_vars

\* The table does not keep a code for ever unless a connector holds it: some
\* round of the reaper removes it (reapLoop), or a new /pair replaces it.
Reaped ==
    \A c \in Code, p \in Pairing :
        pairings[c] = p ~> pairings[c] # p \/ sess[p] # None

-----------------------------------------------------------------------------
(* What the comments say and the code does not do. *)

\* "that port is the tunnel's public identity for as long as the connector
\* stays up" (lines 169-170): SoleConnectorKeepsPort without its condition.
PortLivesWithConnector ==
    [][\A h \in lnOpen \ lnOpen' :
        h \notin sessOpen \/ pc[h] \in {"session", "teardown"}]_vars
=============================================================================
