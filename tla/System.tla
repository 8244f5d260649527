------------------------------- MODULE System -------------------------------
(***************************************************************************)
(* The connector and the relay together: every connection of a task of     *)
(* Connector is a handler of Relay, and the two ends of the WebSocket      *)
(* learn of each other only through the hello, the reply and the end of    *)
(* the connection, which each side notices at its own time.                *)
(*                                                                         *)
(* The steps are those of the two modules, with the guards that the        *)
(* network puts on them: a connector reads a reply only after the relay    *)
(* wrote it, and a side sees its session end only after the other side     *)
(* closed it or the connection was cut.  Two kinds of steps are left out,   *)
(* since no other step depends on what they change: the status poll of     *)
(* Relay and the local dials of Connector.                                 *)
(***************************************************************************)
CONSTANTS
    Code, Pairing, Handler, Task, None

ASSUME NoneAssumption == None \notin Code \cup Pairing \cup Handler \cup Task

VARIABLES
    (* the relay *)
    pairings, issued, stale, sess, listener, publicAdr, sessOpen, lnOpen,
    hpc, local, toReap, asked, answer,
    (* the connector *)
    status, publicAddr, lastError, current, cancelled, tpc, again, dialing,
    (* between them *)
    typed,      \* the code the user typed for each task
    link,       \* the connection each task has open
    sent,       \* the code in the hello of each connection, None before it
    reply,      \* the HelloReply the relay wrote on each connection
    cut,        \* the connections on which nothing passes any more
    served      \* the tasks whose tunnel was up at some time (history)

R == INSTANCE Relay WITH pc <- hpc
C == INSTANCE Connector WITH pc <- tpc

relayVars == <<pairings, issued, stale, sess, listener, publicAdr, sessOpen, lnOpen,
               hpc, local, toReap, asked, answer>>
taskVars == <<status, publicAddr, lastError, current, cancelled, tpc, again, dialing>>
linkVars == <<typed, link, sent, reply, cut, served>>
vars == <<relayVars, taskVars, linkVars>>

ReplyKind == {"none", "ok", "refused"}

Init ==
    /\ R!Init
    /\ C!Init
    /\ typed = [t \in Task |-> None]
    /\ link = [t \in Task |-> None]
    /\ sent = [h \in Handler |-> None]
    /\ reply = [h \in Handler |-> "none"]
    /\ cut = {}
    /\ served = {}

-----------------------------------------------------------------------------
\* The connector's end of connection h is closed, or nothing passes on it.
Broken(h) == h \in cut \/ \A t \in Task : link[t] # h

\* The relay's end of connection h is closed: a rejection closes the
\* WebSocket, a teardown the session over it.
RelayClosed(h) ==
    \/ hpc[h] \in {"rejected", "teardown", "done"}
    \/ hpc[h] \in {"reply", "serving"} /\ h \notin sessOpen

\* A connection the connector has not dialled yet.
Fresh(h) == sent[h] = None /\ hpc[h] = "hello"

-----------------------------------------------------------------------------
(* The connector's side. *)

Connect(t, c) ==
    /\ C!Connect(t)
    /\ typed' = [typed EXCEPT ![t] = c]
    /\ UNCHANGED <<relayVars, link, sent, reply, cut, served>>

Disconnect ==
    /\ C!Disconnect
    /\ UNCHANGED <<relayVars, linkVars>>

\* The steps that neither use the connection nor end it.
TaskMoves(t) ==
    /\ \/ C!Begin(t)
       \/ C!CheckContext(t)
       \/ C!GoIdle(t)
       \/ C!GoError(t)
       \/ C!GoRetry(t)
       \/ C!Backoff(t)
    /\ UNCHANGED <<relayVars, linkVars>>

\* A dial that succeeds is a connection whose hello is on its way.
Dial(t) ==
    /\ C!Dial(t)
    /\ \/ /\ tpc'[t] = "reply"
          /\ \E h \in Handler :
                /\ Fresh(h)
                /\ link' = [link EXCEPT ![t] = h]
                /\ sent' = [sent EXCEPT ![h] = typed[t]]
       \/ /\ tpc'[t] = "failed"
          /\ UNCHANGED <<link, sent>>
    /\ UNCHANGED <<relayVars, typed, reply, cut, served>>

\* Every way out of serveOnce closes the WebSocket.
Unlink_never(t) == UNCHANGED link
Unlink(t) ==
    link' = IF tpc'[t] \in {"failed", "refused"} THEN [link EXCEPT ![t] = None] ELSE link

\* A read on the connection of t can fail.
MayFail(t) == t \in cancelled \/ link[t] \in cut \/ RelayClosed(link[t])

Reply(t) ==
    /\ C!Reply(t)
    /\ tpc'[t] = "session" => reply[link[t]] = "ok"
    /\ tpc'[t] = "refused" => reply[link[t]] = "refused"
    /\ tpc'[t] = "failed" => MayFail(t)
    /\ Unlink(t)
    /\ UNCHANGED <<relayVars, typed, sent, reply, cut, served>>

SetUp(t) ==
    /\ C!SetUp(t)
    /\ Unlink(t)
    /\ UNCHANGED <<relayVars, typed, sent, reply, cut, served>>

MarkConnected(t) ==
    /\ C!MarkConnected(t)
    /\ served' = served \cup {t}
    /\ UNCHANGED <<relayVars, typed, link, sent, reply, cut>>

Drop(t) ==
    /\ C!Drop(t)
    /\ MayFail(t)
    /\ Unlink(t)
    /\ UNCHANGED <<relayVars, typed, sent, reply, cut, served>>

-----------------------------------------------------------------------------
(* The relay's side. *)

\* What does not depend on a connector: the backend, the clock, the reaper.
HandlePair ==
    /\ \E p \in Pairing, c \in Code : R!HandlePair(p, c)
    /\ UNCHANGED <<taskVars, linkVars>>

TTLPasses(p) ==
    /\ R!TTLPasses(p)
    /\ UNCHANGED <<taskVars, linkVars>>

Reaper ==
    /\ R!ReapTick \/ \E c \in Code : R!ReapVisit(c)
    /\ UNCHANGED <<taskVars, linkVars>>

RelayAlone ==
    \/ HandlePair
    \/ \E p \in Pairing : TTLPasses(p)
    \/ Reaper

\* reject writes its reply before it closes the WebSocket.
Answers_beforeRecording(h) ==
    reply' = [reply EXCEPT ![h] =
                 CASE hpc'[h] = "rejected" -> "refused"
                   [] hpc'[h] = "install" -> "ok"
                   [] OTHER -> @]
Answers(h) ==
    reply' = [reply EXCEPT ![h] =
                 CASE hpc'[h] = "rejected" -> "refused"
                   [] hpc'[h] = "serving" -> "ok"
                   [] OTHER -> @]

ReadsHello(h) ==
    /\ sent[h] # None
    /\ \/ R!Hello(h, sent[h]) /\ Answers(h)
       \/ Broken(h) /\ R!BadHello(h) /\ UNCHANGED reply
    /\ UNCHANGED <<taskVars, typed, link, sent, cut, served>>

HandlerStep(h) ==
    /\ R!HandlerStep(h)
    /\ hpc'[h] = "teardown" => Broken(h) \/ RelayClosed(h)
    /\ Answers(h)
    /\ UNCHANGED <<taskVars, typed, link, sent, cut, served>>

\* yamux sees the end of the WebSocket, or its keepalive goes unanswered.
Notices(h) ==
    /\ Broken(h)
    /\ R!SessionDrops(h)
    /\ UNCHANGED <<taskVars, linkVars>>

-----------------------------------------------------------------------------
\* The network fails, or the user's machine goes to sleep.
Cut(h) ==
    /\ ~Broken(h)
    /\ cut' = cut \cup {h}
    /\ UNCHANGED <<relayVars, taskVars, typed, link, sent, reply, served>>

TaskStep(t) ==
    \/ TaskMoves(t)
    \/ Dial(t)
    \/ Reply(t)
    \/ SetUp(t)
    \/ MarkConnected(t)
    \/ Drop(t)

Next ==
    \/ \E t \in Task, c \in Code : Connect(t, c)
    \/ Disconnect
    \/ \E t \in Task : TaskStep(t)
    \/ RelayAlone
    \/ \E h \in Handler : ReadsHello(h)
    \/ \E h \in Handler : HandlerStep(h)
    \/ \E h \in Handler : Notices(h)
    \/ \E h \in Handler : Cut(h)

Spec == Init /\ [][Next]_vars

(***************************************************************************)
(* Both programs run on, time passes and the reaper's ticker ticks.  A     *)
(* broken connection is noticed: by yamux's keepalive once there is a      *)
(* session, by that of TCP before.  Nothing says that users pair or        *)
(* connect, or that the network ever fails.                                *)
(***************************************************************************)
Fairness ==
    /\ \A t \in Task : WF_vars(TaskStep(t))
    /\ \A h \in Handler :
          WF_vars(ReadsHello(h) \/ HandlerStep(h)) /\ WF_vars(Notices(h))
    /\ \A p \in Pairing : WF_vars(TTLPasses(p))
    /\ WF_vars(Reaper)

FairSpec == Spec /\ Fairness

-----------------------------------------------------------------------------
TypeOK ==
    /\ R!TypeOK
    /\ C!TypeOK
    /\ typed \in [Task -> Code \cup {None}]
    /\ link \in [Task -> Handler \cup {None}]
    /\ sent \in [Handler -> Code \cup {None}]
    /\ reply \in [Handler -> ReplyKind]
    /\ cut \in SUBSET Handler
    /\ served \in SUBSET Task

\* What the connector shows its user is what the relay tells the backend: as
\* long as the connection is whole on both sides and the code is used by no
\* other one, the address on show is recorded in the pairing and its port is
\* held (serveOnce line 602, handleWS lines 184-199).
ShownAddressIsHeld ==
    \A t \in Task :
        LET h == link[t] IN
        /\ publicAddr = t
        /\ tpc[t] = "serving"
        /\ h \in sessOpen \ cut
        /\ R!Sole(h)
        => h \in lnOpen /\ publicAdr[local[h]] = h

\* A connector announces its tunnel only after the relay has recorded it: the
\* backend's poll is never behind what the user was told (handleWS records at
\* line 185 and replies at line 188; serveOnce line 602).
ConnectedIsRecorded ==
    \A t \in Task :
        tpc[t] \in {"session", "mark", "serving"} =>
            link[t] # None /\ R!Installed(link[t])

\* The connector of connection h has gone, or the network between them has.
Abandoned(h) ==
    /\ sent[h] # None
    /\ Broken(h) \/ \E t \in cancelled : link[t] = h

\* Disconnecting, giving up or losing the network ends the relay's handler as
\* well, on whatever step it was: no goroutine of the relay waits for ever for a
\* connector that is gone (serveOnce line 600, handleWS line 198).  An instance
\* has finitely many connections, each abandoned once and for good, so that all
\* of the abandoned ones are over again and again only if each comes to an end.
EndReachesRelay ==
    []<>(\A h \in Handler : Abandoned(h) => hpc[h] \in {"rejected", "done"})

\* The table does not keep a code for ever unless a connector holds it: some
\* round of the reaper removes it (reapLoop), or a new /pair replaces it, also
\* while connectors come and go with that code.
Reaped == R!Reaped

\* "on any drop retry with capped backoff ... a laptop waking from sleep should
\* recover in seconds" (cmd/connector/main.go lines 527, 555): a tunnel that
\* was up is not given up over a drop while nobody cancels it.
DropIsRetried ==
    \A t \in Task : t \in served /\ tpc[t] = "goError" => t \in cancelled
=============================================================================
