----------------------------- MODULE DataPlane -----------------------------
(***************************************************************************)
(* One public connection on its way through the tunnel: the goroutine that *)
(* acceptLoop starts for it in the relay, the one serveOnce starts for its *)
(* stream in the connector, and in each of them a Pipe, which copies both  *)
(* directions with a goroutine for each.                                   *)
(*                                                                         *)
(*   client -- pub [Pipe] rst ==tunnel== cst [Pipe] loc -- base            *)
(*                 relay                     connector                     *)
(*                                                                         *)
(* client and base are the remote client and the local database; pub and   *)
(* loc are TCP connections, rst and cst the two ends of a yamux stream.    *)
(* Connections share nothing but the session.                              *)
(***************************************************************************)
EXTENDS Naturals, Sequences

CONSTANTS
    FromClient, \* how many chunks the client sends at most (bound)
    FromBase,   \* how many the database sends (bound)
    Window,     \* how many unread chunks a side may send ahead (bound)
    None        \* no chunk

ASSUME BoundsAssumption == FromClient \in Nat /\ FromBase \in Nat /\ Window \in Nat \ {0}

Peer == [client |-> "pub", pub |-> "client", rst |-> "cst",
         cst |-> "rst", loc |-> "base", base |-> "loc"]
End == DOMAIN Peer
Stream == {"rst", "cst"}
Outer == {"client", "base"}
Opposite(e) == IF e = "client" THEN "base" ELSE "client"

\* The goroutines of a Pipe, named for what they copy from and to.
EndsOf == [relay |-> {"pub", "rst"}, connector |-> {"cst", "loc"}]
Pipe == DOMAIN EndsOf
Copy == {<<"pub", "rst">>, <<"rst", "pub">>, <<"cst", "loc">>, <<"loc", "cst">>}
CopiesOf(p) == {g \in Copy : g[1] \in EndsOf[p]}

Most(e) == IF e = "client" THEN FromClient ELSE FromBase
Chunk == Outer \X Nat
ASSUME NoneAssumption == None \notin Chunk

VARIABLES
    inbox,      \* what is on its way to each end, or buffered there
    shut,       \* the ends that are closed
    reset,      \* the ends that lost their connection
    sent,       \* how many chunks each side has sent
    received,   \* the chunks each side has received
    main,       \* where the goroutine that calls Pipe is
    done,       \* how many signals are in the channel done of each Pipe
    pc,         \* where each copying goroutine is
    buf         \* the chunk it has read and not written

outer == <<sent, received>>
copy == <<pc, buf>>
vars == <<inbox, shut, reset, outer, main, done, copy>>

Init ==
    /\ inbox = [e \in End |-> <<>>]
    /\ shut = {}
    /\ reset = {}
    /\ sent = [e \in Outer |-> 0]
    /\ received = [e \in Outer |-> <<>>]
    /\ main = [p \in Pipe |-> "start"]
    /\ done = [p \in Pipe |-> 0]
    /\ pc = [g \in Copy |-> "none"]
    /\ buf = [g \in Copy |-> None]

-----------------------------------------------------------------------------
(* Connections. *)

Put(e, chunk) == inbox' = [inbox EXCEPT ![e] = Append(@, chunk)]
Fits(e) == Len(inbox[e]) < Window

\* Both ends lose the connection, and some of what was under way to them.
Lose(e) ==
    /\ reset' = reset \cup {e, Peer[e]}
    /\ \E m \in 0 .. Len(inbox[e]), n \in 0 .. Len(inbox[Peer[e]]) :
          inbox' = [inbox EXCEPT ![e] = SubSeq(@, 1, m), ![Peer[e]] = SubSeq(@, 1, n)]

\* Closing a TCP connection with unread data resets it.
Shut(e) ==
    /\ shut' = shut \cup {e}
    /\ IF e \in Stream \/ inbox[e] = <<>> THEN UNCHANGED <<inbox, reset>> ELSE Lose(e)

\* A stream that was closed can still be read, a TCP connection cannot.
Readable(e) == e \notin shut \/ e \in Stream
AtEOF(e) == inbox[e] = <<>> /\ (Peer[e] \in shut \/ e \in reset)
Writable(e) == e \notin shut \cup reset

-----------------------------------------------------------------------------
(* The two sides. *)

Reached(e) == e = "client" \/ main["connector"] \notin {"start", "refused"}

Send(e) ==
    /\ sent[e] < Most(e)
    /\ Reached(e)
    /\ Writable(e)
    /\ Peer[e] \notin shut
    /\ Fits(Peer[e])
    /\ sent' = [sent EXCEPT ![e] = @ + 1]
    /\ Put(Peer[e], <<e, sent'[e]>>)
    /\ UNCHANGED <<shut, reset, received, main, done, copy>>

Receive(e) ==
    /\ inbox[e] # <<>>
    /\ received' = [received EXCEPT ![e] = Append(@, Head(inbox[e]))]
    /\ inbox' = [inbox EXCEPT ![e] = Tail(@)]
    /\ UNCHANGED <<shut, reset, sent, main, done, copy>>

\* It will send no more, and goes on receiving.
CloseWrite(e) ==
    /\ Reached(e)
    /\ Writable(e)
    /\ shut' = shut \cup {e}
    /\ UNCHANGED <<inbox, reset, outer, main, done, copy>>

\* It goes away, the network between it and its end of the tunnel does, or
\* the session ends (bound: as the first connection that is lost).
Break(e) ==
    /\ Reached(e)
    /\ reset = {}
    /\ Lose(e)
    /\ UNCHANGED <<shut, outer, main, done, copy>>

-----------------------------------------------------------------------------
(* acceptLoop and the loop of serveOnce. *)

StartPipe(p) ==
    /\ main' = [main EXCEPT ![p] = "wait"]
    /\ pc' = [g \in Copy |-> IF g \in CopiesOf(p) THEN "read" ELSE pc[g]]

\* A new stream for the connection, unless the session has ended.
OpenStream ==
    /\ main["relay"] = "start"
    /\ \/ /\ "rst" \notin reset
          /\ StartPipe("relay")
          /\ UNCHANGED <<inbox, shut, reset>>
       \/ /\ "rst" \in reset
          /\ main' = [main EXCEPT !["relay"] = "refused"]
          /\ Shut("pub")
          /\ UNCHANGED pc
    /\ UNCHANGED <<outer, done, buf>>

\* The stream is accepted and the local database dialled.
DialLocal ==
    /\ main["connector"] = "start"
    /\ main["relay"] # "start"
    /\ "rst" \notin reset
    /\ \/ /\ StartPipe("connector")
          /\ UNCHANGED <<inbox, shut, reset>>
       \/ /\ main' = [main EXCEPT !["connector"] = "refused"]
          /\ Shut("cst")
          /\ UNCHANGED pc
    /\ UNCHANGED <<outer, done, buf>>

-----------------------------------------------------------------------------
(* Pipe. *)

\* A signal of either goroutine starts the end, the other one's completes it.
AwaitOne(p) ==
    /\ main[p] = "wait"
    /\ done[p] > 0
    /\ main' = [main EXCEPT ![p] = "close"]
    /\ done' = [done EXCEPT ![p] = @ - 1]
    /\ UNCHANGED <<inbox, shut, reset, outer, copy>>

\* a.Close(), and then b.Close().
ClosesNext(p) == CASE main[p] = "close"  -> IF p = "relay" THEN "pub" ELSE "cst"
                   [] main[p] = "closeB" -> IF p = "relay" THEN "rst" ELSE "loc"

CloseEnds(p) ==
    /\ main[p] \in {"close", "closeB"}
    /\ Shut(ClosesNext(p))
    /\ main' = [main EXCEPT ![p] = IF @ = "close" THEN "closeB" ELSE "drain"]
    /\ UNCHANGED <<outer, done, copy>>

AwaitOther_never(p) ==
    /\ main[p] = "drain"
    /\ main' = [main EXCEPT ![p] = "returned"]
    /\ UNCHANGED <<inbox, shut, reset, outer, done, copy>>
AwaitOther(p) ==
    /\ main[p] = "drain"
    /\ done[p] > 0
    /\ main' = [main EXCEPT ![p] = "returned"]
    /\ done' = [done EXCEPT ![p] = @ - 1]
    /\ UNCHANGED <<inbox, shut, reset, outer, copy>>

-----------------------------------------------------------------------------
(* copyAndSignal. *)

Goto(g, from, to) ==
    /\ pc[g] = from
    /\ pc' = [pc EXCEPT ![g] = to]

\* One buffer for both goroutines of a Pipe would hold what was read last.
Read_sharedBuffer(g) ==
    /\ Goto(g, "read", "write")
    /\ Readable(g[1])
    /\ inbox[g[1]] # <<>>
    /\ buf' = [h \in Copy |-> IF {h[1], h[2]} = {g[1], g[2]} THEN Head(inbox[g[1]]) ELSE buf[h]]
    /\ inbox' = [inbox EXCEPT ![g[1]] = Tail(@)]
    /\ UNCHANGED <<shut, reset, outer, main, done>>
Read(g) ==
    /\ Goto(g, "read", "write")
    /\ Readable(g[1])
    /\ inbox[g[1]] # <<>>
    /\ buf' = [buf EXCEPT ![g] = Head(inbox[g[1]])]
    /\ inbox' = [inbox EXCEPT ![g[1]] = Tail(@)]
    /\ UNCHANGED <<shut, reset, outer, main, done>>

\* EOF, a connection that was lost or that Pipe has closed, or a stream the
\* other side does not close within yamux's StreamCloseTimeout.
ReadFails(g) ==
    /\ Goto(g, "read", "signal")
    /\ \/ AtEOF(g[1]) /\ UNCHANGED <<inbox, reset>>
       \/ ~Readable(g[1]) /\ UNCHANGED <<inbox, reset>>
       \/ g[1] \in shut \cap Stream /\ Lose(g[1])
    /\ UNCHANGED <<shut, outer, main, done, buf>>

Write(g) ==
    /\ Goto(g, "write", "read")
    /\ Writable(g[2])
    /\ Fits(Peer[g[2]])
    /\ Put(Peer[g[2]], buf[g])
    /\ buf' = [buf EXCEPT ![g] = None]
    /\ UNCHANGED <<shut, reset, outer, main, done>>

WriteFails_whenFull(g) ==
    /\ Goto(g, "write", "signal")
    /\ ~Writable(g[2]) \/ ~Fits(Peer[g[2]])
    /\ buf' = [buf EXCEPT ![g] = None]
    /\ UNCHANGED <<inbox, shut, reset, outer, main, done>>
WriteFails_signalsToo(g) ==
    \E p \in Pipe :
        /\ g \in CopiesOf(p)
        /\ Goto(g, "write", "signal")
        /\ ~Writable(g[2])
        /\ buf' = [buf EXCEPT ![g] = None]
        /\ done' = [done EXCEPT ![p] = @ + 1]
        /\ UNCHANGED <<inbox, shut, reset, outer, main>>
WriteFails(g) ==
    /\ Goto(g, "write", "signal")
    /\ ~Writable(g[2])
    /\ buf' = [buf EXCEPT ![g] = None]
    /\ UNCHANGED <<inbox, shut, reset, outer, main, done>>

\* done has room for both signals, so that none waits for Pipe or is dropped.
Signal_orDrop(g) ==
    \E p \in Pipe :
        /\ g \in CopiesOf(p)
        /\ Goto(g, "signal", "ended")
        /\ done' = IF main[p] \in {"wait", "drain"} THEN [done EXCEPT ![p] = @ + 1] ELSE done
        /\ UNCHANGED <<inbox, shut, reset, outer, main, buf>>
Signal(g) ==
    \E p \in Pipe :
        /\ g \in CopiesOf(p)
        /\ Goto(g, "signal", "ended")
        /\ done' = [done EXCEPT ![p] = @ + 1]
        /\ UNCHANGED <<inbox, shut, reset, outer, main, buf>>

-----------------------------------------------------------------------------
CopyStep(g) == Read(g) \/ ReadFails(g) \/ Write(g) \/ WriteFails(g) \/ Signal(g)
MainStep(p) == AwaitOne(p) \/ CloseEnds(p) \/ AwaitOther(p)

Next ==
    \/ \E e \in Outer : Send(e)
    \/ \E e \in Outer : Receive(e)
    \/ \E e \in Outer : CloseWrite(e)
    \/ \E e \in {"client", "rst", "base"} : Break(e)
    \/ OpenStream
    \/ DialLocal
    \/ \E p \in Pipe : AwaitOne(p)
    \/ \E p \in Pipe : CloseEnds(p)
    \/ \E p \in Pipe : AwaitOther(p)
    \/ \E g \in Copy : Read(g)
    \/ \E g \in Copy : ReadFails(g)
    \/ \E g \in Copy : Write(g)
    \/ \E g \in Copy : WriteFails(g)
    \/ \E g \in Copy : Signal(g)

Spec == Init /\ [][Next]_vars

\* Goroutines are scheduled, a dial takes 10 s at most, and a yamux stream that
\* was closed is given up after a while.  Nobody has to read, send or close.
Fairness ==
    /\ WF_vars(OpenStream)
    /\ WF_vars(DialLocal)
    /\ \A p \in Pipe : WF_vars(MainStep(p))
    /\ \A g \in Copy : WF_vars(CopyStep(g))

FairSpec == Spec /\ Fairness

-----------------------------------------------------------------------------
TypeOK ==
    /\ inbox \in [End -> Seq(Chunk)]
    /\ shut \in SUBSET End
    /\ reset \in SUBSET End
    /\ sent \in [Outer -> Nat]
    /\ received \in [Outer -> Seq(Chunk)]
    /\ main \in [Pipe -> {"start", "refused", "wait", "close", "closeB", "drain", "returned"}]
    /\ done \in [Pipe -> 0 .. 2]
    /\ pc \in [Copy -> {"none", "read", "write", "signal", "ended"}]
    /\ buf \in [Copy -> Chunk \cup {None}]

-----------------------------------------------------------------------------
(* Properties. *)

Sent(e) == [n \in 1 .. sent[e] |-> <<e, n>>]
IsPrefixOf(s, t) == Len(s) <= Len(t) /\ s = SubSeq(t, 1, Len(s))

\* "This is the entire data plane" (proto.go line 79): whatever closes, fails
\* or blocks, each side gets a prefix of what the other side sent, and nothing
\* of another direction.
InOrder == \A e \in Outer : IsPrefixOf(received[e], Sent(Opposite(e)))

\* "copies both directions until either side closes" (proto.go line 78): when
\* one side closed after its last byte, and no connection was lost, the other
\* side gets all of it before its own connection is closed, through both
\* Pipes.
ClosedAfterLastByte == \A e \in Outer :
    /\ Peer[e] \in shut
    /\ e \notin shut
    /\ reset = {}
    => received[e] \o inbox[e] = Sent(Opposite(e))

\* A Pipe that returned leaves no goroutine and no connection behind.
NothingLeft == \A p \in Pipe :
    main[p] = "returned" =>
        /\ \A g \in CopiesOf(p) : pc[g] = "ended"
        /\ EndsOf[p] \subseteq shut

\* A side reads on if it never leaves something unread for good, unless its
\* connection is lost.
ReadsOn(e) == []<>(inbox[e] = <<>> \/ e \in reset)

\* "until either side closes, then closes both" (proto.go line 78) holds as long
\* as neither side stays connected without reading: then whoever closes, stops
\* sending or vanishes, at whatever step, ends every Pipe on the way, also one with
\* a copy that was blocked on a full connection (lines 80-104).  Without that
\* condition it does not hold, since no write has a deadline (line 95).
PipeReturns ==
    (\A e \in Outer : ReadsOn(e)) =>
        \A p \in Pipe :
            main[p] = "wait" /\ (Outer \cap shut # {} \/ reset # {}) ~> main[p] = "returned"
=============================================================================
