------------------------------ MODULE Connector ------------------------------
(***************************************************************************)
(* The tunnel manager of the connector (cmd/connector/main.go): the shared *)
(* struct state, the handlers that start and drop a tunnel, runTunnel with *)
(* serveOnce, and the goroutines that dial the local database.             *)
(*                                                                         *)
(* A task is one call of runTunnel with its context.  Tasks overlap:       *)
(* cancelling one is only a request, and until it notices it still writes  *)
(* to the state that the next one shares.  Each action is one critical     *)
(* section of st.mu, one read of the context or one call that can fail.    *)
(*                                                                         *)
(* The relay, the WebSocket and yamux are only seen through what their     *)
(* calls return.                                                           *)
(***************************************************************************)
CONSTANTS
    Task,       \* the calls of runTunnel (bounds the number of /api/connect)
    None        \* Go's nil and the empty string

ASSUME NoneAssumption == None \notin Task

VARIABLES
    status,     \* state.state
    publicAddr, \* state.publicAddr: the task whose tunnel has the address
    lastError,  \* state.lastError: what is said, and the task that said it
    current,    \* state.cancel: the task it would cancel
    cancelled,  \* the tasks whose context is cancelled
    pc,         \* where each runTunnel goroutine is
    again,      \* the tasks whose local variable attempt is more than 1
    dialing     \* the tasks with a stream whose local dial is under way

shown == <<status, publicAddr, lastError>>
vars == <<shown, current, cancelled, pc, again, dialing>>

-----------------------------------------------------------------------------
TaskOrNil == Task \cup {None}

Status == {"idle", "connecting", "connected", "reconnecting", "error"}

ErrorKind == {"relay", "refused", "local"}
Said(kind, t) == [kind |-> kind, by |-> t]
Error == [kind : ErrorKind, by : Task] \cup {None}

(***************************************************************************)
(* The places of a runTunnel goroutine, named for what it does next, except *)
(* for three.  "failed" and "refused" are serveOnce returning an error,    *)
(* "refused" when it is pairingRejected.  "done" is runTunnel returning.   *)
(***************************************************************************)
InServeOnce == {"dial", "reply", "session", "mark", "serving"}
PC == {"unused", "begin", "failed", "refused", "goIdle", "goError", "goRetry",
       "backoff", "done"} \cup InServeOnce

Running(t) == pc[t] \notin {"unused", "done"}

Goto(t, from, to) ==
    /\ pc[t] = from
    /\ pc' = [pc EXCEPT ![t] = to]

Init ==
    /\ status = "idle"
    /\ publicAddr = None
    /\ lastError = None
    /\ current = None
    /\ cancelled = {}
    /\ pc = [t \in Task |-> "unused"]
    /\ again = {}
    /\ dialing = {}

-----------------------------------------------------------------------------
(* The handlers of the local API. *)

\* POST /api/connect once the probe of the target succeeded, and main with
\* -code and -target.  current # None is cancelled even if it returned.
Connect_cancelsNil(t) ==
    /\ Goto(t, "unused", "begin")
    /\ cancelled' = cancelled \cup {current}
    /\ current' = t
    /\ UNCHANGED <<shown, again, dialing>>
Connect_keepsOld(t) ==
    /\ Goto(t, "unused", "begin")
    /\ current' = t
    /\ UNCHANGED <<shown, cancelled, again, dialing>>
Connect(t) ==
    /\ Goto(t, "unused", "begin")
    /\ cancelled' = cancelled \cup ({current} \ {None})
    /\ current' = t
    /\ UNCHANGED <<shown, again, dialing>>

\* POST /api/disconnect.
Disconnect ==
    /\ cancelled' = cancelled \cup ({current} \ {None})
    /\ current' = None
    /\ status' = "idle"
    /\ publicAddr' = None
    /\ lastError' = None
    /\ UNCHANGED <<pc, again, dialing>>

-----------------------------------------------------------------------------
(* One turn of the loop of runTunnel. *)

Begin(t) ==
    /\ Goto(t, "begin", "dial")
    /\ IF t \in again
       THEN status' = "reconnecting" /\ UNCHANGED lastError
       ELSE status' = "connecting" /\ lastError' = None
    /\ again' = again \cup {t}
    /\ UNCHANGED <<publicAddr, current, cancelled, dialing>>

\* websocket.Dial, within 15 s, and the hello.
Dial(t) ==
    /\ Goto(t, "dial", "reply") \/ Goto(t, "dial", "failed")
    /\ UNCHANGED <<shown, current, cancelled, again, dialing>>

\* The HelloReply is read, without a deadline.
Reply(t) ==
    /\ \/ Goto(t, "reply", "session")
       \/ Goto(t, "reply", "refused")
       \/ Goto(t, "reply", "failed")
    /\ UNCHANGED <<shown, current, cancelled, again, dialing>>

SetUp(t) ==
    /\ Goto(t, "session", "mark") \/ Goto(t, "session", "failed")
    /\ UNCHANGED <<shown, current, cancelled, again, dialing>>

\* The tunnel is up.  Nothing is asked of the context here.
MarkConnected(t) ==
    /\ Goto(t, "mark", "serving")
    /\ status' = "connected"
    /\ publicAddr' = t
    /\ UNCHANGED <<lastError, current, cancelled, again, dialing>>

\* AcceptStream fails: the session broke, or the context was cancelled.
Drop(t) ==
    /\ Goto(t, "serving", "failed")
    /\ UNCHANGED <<shown, current, cancelled, again, dialing>>

\* ctx.Err() and the kind of the error decide what is written next; the lock
\* is only taken then.
CheckContext_always(t) ==
    /\ \/ Goto(t, "refused", "goError")
       \/ Goto(t, "failed", "goRetry")
    /\ UNCHANGED <<shown, current, cancelled, again, dialing>>
CheckContext_anyErrorEnds(t) ==
    /\ IF t \in cancelled
       THEN Goto(t, "refused", "goIdle") \/ Goto(t, "failed", "goIdle")
       ELSE Goto(t, "refused", "goError") \/ Goto(t, "failed", "goError")
    /\ UNCHANGED <<shown, current, cancelled, again, dialing>>
CheckContext(t) ==
    /\ IF t \in cancelled
       THEN Goto(t, "refused", "goIdle") \/ Goto(t, "failed", "goIdle")
       ELSE Goto(t, "refused", "goError") \/ Goto(t, "failed", "goRetry")
    /\ UNCHANGED <<shown, current, cancelled, again, dialing>>

GoIdle_silently(t) ==
    /\ Goto(t, "goIdle", "done")
    /\ UNCHANGED <<shown, current, cancelled, again, dialing>>
GoIdle(t) ==
    /\ Goto(t, "goIdle", "done")
    /\ status' = "idle"
    /\ publicAddr' = None
    /\ UNCHANGED <<lastError, current, cancelled, again, dialing>>

GoError(t) ==
    /\ Goto(t, "goError", "done")
    /\ status' = "error"
    /\ lastError' = Said("refused", t)
    /\ publicAddr' = None
    /\ UNCHANGED <<current, cancelled, again, dialing>>

\* The address is cleared, the status stays as it is.
GoRetry_keepsAddress(t) ==
    /\ Goto(t, "goRetry", "backoff")
    /\ lastError' = Said("relay", t)
    /\ UNCHANGED <<status, publicAddr, current, cancelled, again, dialing>>
GoRetry(t) ==
    /\ Goto(t, "goRetry", "backoff")
    /\ lastError' = Said("relay", t)
    /\ publicAddr' = None
    /\ UNCHANGED <<status, current, cancelled, again, dialing>>

\* select: if the timer and the context are both ready, either may be taken.
Backoff(t) ==
    /\ \/ Goto(t, "backoff", "begin")
       \/ t \in cancelled /\ Goto(t, "backoff", "done")
    /\ UNCHANGED <<shown, current, cancelled, again, dialing>>

-----------------------------------------------------------------------------
(* The goroutine of one stream: the bound is one local dial at a time for   *)
(* each task.  It outlives serveOnce, by up to 10 s.                        *)
StreamArrives(t) ==
    /\ pc[t] = "serving"
    /\ t \notin dialing
    /\ dialing' = dialing \cup {t}
    /\ UNCHANGED <<shown, current, cancelled, pc, again>>

LocalDialEnds(t) ==
    /\ t \in dialing
    /\ dialing' = dialing \ {t}
    /\ \/ lastError' = Said("local", t)
       \/ UNCHANGED lastError
    /\ UNCHANGED <<status, publicAddr, current, cancelled, pc, again>>

-----------------------------------------------------------------------------
TaskStep(t) ==
    \/ Begin(t)
    \/ Dial(t)
    \/ Reply(t)
    \/ SetUp(t)
    \/ MarkConnected(t)
    \/ Drop(t)
    \/ CheckContext(t)
    \/ GoIdle(t)
    \/ GoError(t)
    \/ GoRetry(t)
    \/ Backoff(t)

Next ==
    \/ \E t \in Task : Connect(t)
    \/ Disconnect
    \/ \E t \in Task : TaskStep(t)
    \/ \E t \in Task : StreamArrives(t)
    \/ \E t \in Task : LocalDialEnds(t)

Spec == Init /\ [][Next]_vars

(***************************************************************************)
(* A goroutine that can run does.  Waiting for the reply of the relay and  *)
(* for the end of a session has no deadline: it ends for certain only when *)
(* the context, which closes the WebSocket, is cancelled.                  *)
(***************************************************************************)
MustEnd(t) == t \in cancelled \/ pc[t] \notin {"reply", "serving"}

Fairness ==
    \A t \in Task :
        /\ WF_vars(MustEnd(t) /\ TaskStep(t))
        /\ WF_vars(LocalDialEnds(t))

FairSpec == Spec /\ Fairness

-----------------------------------------------------------------------------
TypeOK ==
    /\ status \in Status
    /\ publicAddr \in TaskOrNil
    /\ lastError \in Error
    /\ current \in TaskOrNil
    /\ cancelled \in SUBSET Task
    /\ pc \in [Task -> PC]
    /\ again \in SUBSET Task
    /\ dialing \in SUBSET Task

-----------------------------------------------------------------------------
(* Properties that hold. *)

\* "drop a previous tunnel before starting over" (line 188): of all the calls
\* of runTunnel that have not returned, at most one is still wanted, and
\* st.cancel is the handle to it, so that no tunnel is left that neither
\* /api/connect nor /api/disconnect can reach.
OneLiveTask ==
    /\ \A t \in Task : Running(t) /\ t \notin cancelled => current = t
    /\ current # None => current \notin cancelled /\ pc[current] # "unused"

\* The address on show is never that of a tunnel whose goroutine is back in
\* its loop, in backoff or gone, however the writes of overlapping calls of
\* runTunnel interleave (lines 544, 549, 553, 602).
AddressOfLiveTunnel ==
    publicAddr # None => pc[publicAddr] \in {"serving", "failed", "goIdle", "goRetry"}

\* A tunnel that was told to stop returns, whatever it was doing: dialling,
\* waiting for the relay, serving or backing off (runTunnel).
CancelledEnds ==
    \A t \in Task : t \in cancelled ~> ~Running(t)

\* After the last /api/disconnect the status comes to rest on idle, or on the
\* refusal that came in with it, and no address is left on show, although a
\* tunnel that was cancelled late may still announce itself for a while.
Settles ==
    <>[](current = None) => <>[](status \in {"idle", "error"} /\ publicAddr = None)

\* "on any drop retry" (line 527): a tunnel that failed dials again, unless it
\* is cancelled meanwhile.
RetriesAfterDrop ==
    \A t \in Task : pc[t] = "failed" ~> pc[t] = "dial" \/ t \in cancelled

-----------------------------------------------------------------------------
(* What the comments say and the code does not do. *)

\* "so the UI can show 'your database is now reachable at ...'" (proto.go
\* line 33): a current tunnel that goes on serving is what the status shows.
ServedIsShown ==
    \A t \in Task :
        current = t /\ pc[t] = "serving" ~>
            \/ status = "connected" /\ publicAddr = t
            \/ current # t
            \/ pc[t] # "serving"
=============================================================================
