-------------------------- MODULE DataPlaneProofs --------------------------
(***************************************************************************)
(* Types, ends of the goroutines and the order and completeness of what    *)
(* the data plane delivers, for any number of chunks, any window and any   *)
(* losses.                                                                 *)
(***************************************************************************)
EXTENDS DataPlane, SequenceTheorems, TLAPS

-----------------------------------------------------------------------------
(* The inductive invariant. *)

Up(p) == IF p = "relay" THEN <<"pub", "rst">> ELSE <<"cst", "loc">>
Down(p) == IF p = "relay" THEN <<"rst", "pub">> ELSE <<"loc", "cst">>

One(b) == IF b THEN 1 ELSE 0
Signalled(p) == One(pc[Up(p)] = "ended") + One(pc[Down(p)] = "ended")
Taken(p) == CASE main[p] \in {"start", "refused", "wait"}   -> 0
              [] main[p] \in {"close", "closeB", "drain"}   -> 1
              [] main[p] = "returned"                       -> 2

\* No signal is lost, none is sent twice, and none before Pipe is called.
SignalsCounted == \A p \in Pipe :
    /\ done[p] + Taken(p) = Signalled(p)
    /\ main[p] \in {"start", "refused"} => pc[Up(p)] = "none" /\ pc[Down(p)] = "none"

\* What Pipe has closed by where it is.
ClosedByPlace == \A p \in Pipe :
    /\ main[p] = "closeB" => (IF p = "relay" THEN "pub" ELSE "cst") \in shut
    /\ main[p] \in {"drain", "returned"} => EndsOf[p] \subseteq shut

DataTypes ==
    /\ inbox \in [End -> Seq(Chunk)]
    /\ shut \in SUBSET End
    /\ reset \in SUBSET End
    /\ sent \in [Outer -> Nat]
    /\ received \in [Outer -> Seq(Chunk)]
    /\ buf \in [Copy -> Chunk \cup {None}]
    /\ \A g \in Copy : pc[g] = "write" => buf[g] # None

ControlTypes ==
    /\ main \in [Pipe -> {"start", "refused", "wait", "close", "closeB", "drain", "returned"}]
    /\ done \in [Pipe -> Nat]
    /\ pc \in [Copy -> {"none", "read", "write", "signal", "ended"}]

IInv == DataTypes /\ ControlTypes /\ SignalsCounted /\ ClosedByPlace

-----------------------------------------------------------------------------
(* The way to a side: what the other side sent passes the first copy, the  *)
(* tunnel and the last copy.                                               *)

FirstCopy(e) == IF e = "base" THEN <<"pub", "rst">> ELSE <<"loc", "cst">>
LastCopy(e) == IF e = "base" THEN <<"cst", "loc">> ELSE <<"rst", "pub">>
FirstPipe(e) == IF e = "base" THEN "relay" ELSE "connector"
LastPipe(e) == IF e = "base" THEN "connector" ELSE "relay"

\* The next chunks of o after the first n.
Run(s, o, n) == \A i \in 1 .. Len(s) : s[i] = <<o, n + i>>
Held(g) == IF pc[g] = "write" THEN 1 ELSE 0
\* What g reads it will also write.
Carries(g) == pc[g] \in {"none", "read", "write"} /\ g[2] \notin reset

\* How many chunks are at e, at most one copy away, past the tunnel, past
\* the first copy, and anywhere on the way.
Arrived(e) == Len(received[e]) + Len(inbox[e])
PastLast(e) == Arrived(e) + Held(LastCopy(e))
PastTunnel(e) == PastLast(e) + Len(inbox[LastCopy(e)[1]])
PastFirst(e) == PastTunnel(e) + Held(FirstCopy(e))
OnItsWay(e) == PastFirst(e) + Len(inbox[FirstCopy(e)[1]])

\* Every place on the way holds the chunks that follow those further on: e
\* itself always, the tunnel while the last copy carries, the rest while both
\* do; and nothing is missing then unless the sender lost its connection.
ArrivedInOrder(e) ==
    /\ Run(received[e], Opposite(e), 0)
    /\ Run(inbox[e], Opposite(e), Len(received[e]))
    /\ Arrived(e) <= sent[Opposite(e)]
LastInOrder(e) ==
    Carries(LastCopy(e)) =>
        /\ pc[LastCopy(e)] = "write" => buf[LastCopy(e)] = <<Opposite(e), Arrived(e) + 1>>
        /\ Run(inbox[LastCopy(e)[1]], Opposite(e), PastLast(e))
        /\ PastTunnel(e) <= sent[Opposite(e)]
FirstInOrder(e) ==
    Carries(LastCopy(e)) /\ Carries(FirstCopy(e)) =>
        /\ pc[FirstCopy(e)] = "write" => buf[FirstCopy(e)] = <<Opposite(e), PastTunnel(e) + 1>>
        /\ Run(inbox[FirstCopy(e)[1]], Opposite(e), PastFirst(e))
        /\ OnItsWay(e) <= sent[Opposite(e)]
        /\ Opposite(e) \notin reset => OnItsWay(e) = sent[Opposite(e)]
InFlow(e) == ArrivedInOrder(e) /\ LastInOrder(e) /\ FirstInOrder(e)
FlowInv == \A e \in Outer : InFlow(e)

\* A Pipe on its way to closing its ends.
Ending(p) ==
    \/ main[p] \in {"close", "closeB", "drain", "returned"}
    \/ \E g \in CopiesOf(p) : pc[g] \in {"signal", "ended"}

\* e will send nothing more.
Over(e) == e \in shut \/ (e = "base" /\ main["connector"] = "refused")

\* Who closed an end, by where that goroutine is now.
ShutByPlace ==
    /\ "pub" \in shut => main["relay"] \in {"closeB", "drain", "returned", "refused"}
    /\ "rst" \in shut => main["relay"] \in {"drain", "returned"}
    /\ "cst" \in shut => main["connector"] \in {"closeB", "drain", "returned", "refused"}
    /\ "loc" \in shut => main["connector"] \in {"drain", "returned"}
    /\ main["relay"] = "refused" => reset # {}
    /\ main["connector"] \in {"start", "refused"} => sent["base"] = 0

\* The first copy, or the last one, has passed on all there will ever be.
OutOfFirst(e) == Over(Opposite(e)) /\ PastTunnel(e) = sent[Opposite(e)]
OutOfLast(e) == Over(Opposite(e)) /\ Arrived(e) = sent[Opposite(e)]
\* Without losses and while e is open, a Pipe ends only when it has nothing
\* left to pass on to e.
AllOut == \A e \in Outer :
    reset = {} /\ e \notin shut =>
        /\ Ending(LastPipe(e)) => OutOfLast(e)
        /\ Ending(FirstPipe(e)) /\ ~Ending(LastPipe(e)) /\ main[LastPipe(e)] # "refused"
              => OutOfFirst(e)

-----------------------------------------------------------------------------
(* Constants and copies. *)

LEMMA Ends ==
    /\ End = {"client", "pub", "rst", "cst", "loc", "base"}
    /\ \A e \in End : Peer[e] \in End
    /\ Pipe = {"relay", "connector"}
    /\ EndsOf["relay"] = {"pub", "rst"} /\ EndsOf["connector"] = {"cst", "loc"}
  BY DEF End, Peer, Pipe, EndsOf

LEMMA Copies ==
    /\ \A p \in Pipe : CopiesOf(p) = {Up(p), Down(p)} /\ Up(p) # Down(p)
    /\ \A p \in Pipe : Up(p) \in Copy /\ Down(p) \in Copy
    /\ \A p, q \in Pipe : p # q => CopiesOf(p) \cap CopiesOf(q) = {}
    /\ \A g \in Copy : g[1] \in End /\ g[2] \in End
  BY Ends DEF CopiesOf, Copy, Up, Down

LEMMA Cut ==
    ASSUME NEW S, NEW s \in Seq(S), NEW n \in 0 .. Len(s)
    PROVE  SubSeq(s, 1, n) \in Seq(S)
  BY SubSeqProperties

LEMMA LoseTypes ==
    ASSUME DataTypes, NEW e \in End, Lose(e)
    PROVE  inbox' \in [End -> Seq(Chunk)] /\ reset' \in SUBSET End
<1>1. PICK m \in 0 .. Len(inbox[e]), n \in 0 .. Len(inbox[Peer[e]]) :
          inbox' = [inbox EXCEPT ![e] = SubSeq(@, 1, m), ![Peer[e]] = SubSeq(@, 1, n)]
  BY DEF Lose
<1>2. Peer[e] \in End /\ Peer[e] # e
  BY Ends DEF Peer, End
<1>3. SubSeq(inbox[e], 1, m) \in Seq(Chunk) /\ SubSeq(inbox[Peer[e]], 1, n) \in Seq(Chunk)
  BY <1>2, Cut DEF DataTypes
<1> QED
  BY <1>1, <1>2, <1>3 DEF Lose, DataTypes

LEMMA ShutTypes ==
    ASSUME DataTypes, NEW e \in End, Shut(e)
    PROVE  /\ inbox' \in [End -> Seq(Chunk)]
           /\ reset' \in SUBSET End
           /\ shut' = shut \cup {e}
  BY LoseTypes DEF Shut, DataTypes

-----------------------------------------------------------------------------
LEMMA IInvInit == Init => IInv
<1> SUFFICES ASSUME Init PROVE IInv
  OBVIOUS
<1>1. DataTypes /\ ControlTypes
  BY DEF Init, DataTypes, ControlTypes
<1>2. SignalsCounted
  BY Copies DEF Init, SignalsCounted, Taken, Signalled, One
<1>3. ClosedByPlace
  BY DEF Init, ClosedByPlace
<1> QED
  BY <1>1, <1>2, <1>3 DEF IInv

LEMMA DataStep == IInv /\ [Next]_vars => DataTypes'
<1> SUFFICES ASSUME IInv, [Next]_vars PROVE DataTypes'
  OBVIOUS
<1> USE DEF IInv, DataTypes, ControlTypes, outer, copy
<1>0. Outer \subseteq End /\ None \notin Chunk /\ \A e \in Outer : Peer[e] \in End
  BY Ends, NoneAssumption DEF Outer
<1>1. ASSUME NEW e \in Outer, Send(e) PROVE DataTypes'
  <2>1. sent'[e] \in Nat /\ <<e, sent'[e]>> \in Chunk
    BY <1>1 DEF Send, Chunk
  <2>2. inbox' \in [End -> Seq(Chunk)]
    BY <1>0, <1>1, <2>1 DEF Send, Put
  <2> QED
    BY <1>1, <2>2 DEF Send
<1>2. ASSUME NEW e \in Outer, Receive(e) PROVE DataTypes'
  <2>1. Head(inbox[e]) \in Chunk /\ Tail(inbox[e]) \in Seq(Chunk)
    BY <1>0, <1>2, HeadTailProperties DEF Receive
  <2> QED
    BY <1>0, <1>2, <2>1 DEF Receive
<1>3. ASSUME NEW e \in Outer, CloseWrite(e) PROVE DataTypes'
  BY <1>0, <1>3 DEF CloseWrite
<1>4. ASSUME NEW e \in {"client", "rst", "base"}, Break(e) PROVE DataTypes'
  <2>1. e \in End
    BY Ends
  <2> QED
    BY <1>4, <2>1, LoseTypes DEF Break
<1>5. CASE OpenStream \/ DialLocal
  <2>1. "pub" \in End /\ "cst" \in End
    BY Ends
  <2>2. \A g \in Copy : pc'[g] = "write" => pc[g] = "write"
    BY <1>5 DEF OpenStream, DialLocal, StartPipe
  <2> QED
    BY <1>5, <2>1, <2>2, ShutTypes DEF OpenStream, DialLocal
<1>6. ASSUME NEW p \in Pipe, AwaitOne(p) \/ AwaitOther(p) PROVE DataTypes'
  BY <1>6 DEF AwaitOne, AwaitOther
<1>7. ASSUME NEW p \in Pipe, CloseEnds(p) PROVE DataTypes'
  <2>1. ClosesNext(p) \in End
    BY <1>7, Ends DEF CloseEnds, ClosesNext
  <2> QED
    BY <1>7, <2>1, ShutTypes DEF CloseEnds
<1>8. ASSUME NEW g \in Copy, Read(g) PROVE DataTypes'
  <2>1. g[1] \in End
    BY Copies
  <2>2. Head(inbox[g[1]]) \in Chunk /\ Tail(inbox[g[1]]) \in Seq(Chunk)
    BY <1>8, <2>1, HeadTailProperties DEF Read
  <2> QED
    BY <1>0, <1>8, <2>1, <2>2 DEF Read, Goto
<1>9. ASSUME NEW g \in Copy, ReadFails(g) PROVE DataTypes'
  <2>1. g[1] \in End
    BY Copies
  <2>2. inbox' \in [End -> Seq(Chunk)] /\ reset' \in SUBSET End
    BY <1>9, <2>1, LoseTypes DEF ReadFails
  <2> QED
    BY <1>9, <2>2 DEF ReadFails, Goto
<1>10. ASSUME NEW g \in Copy, Write(g) PROVE DataTypes'
  <2>1. Peer[g[2]] \in End
    BY Copies, Ends
  <2>2. buf[g] \in Chunk
    BY <1>10 DEF Write, Goto
  <2> QED
    BY <1>0, <1>10, <2>1, <2>2 DEF Write, Goto, Put
<1>11. ASSUME NEW g \in Copy, WriteFails(g) \/ Signal(g) PROVE DataTypes'
  BY <1>11 DEF WriteFails, Signal, Goto
<1>12. CASE UNCHANGED vars
  BY <1>12 DEF vars
<1> QED
  BY <1>1, <1>2, <1>3, <1>4, <1>5, <1>6, <1>7, <1>8, <1>9, <1>10, <1>11, <1>12 DEF Next

\* A copy on its way between reading, writing and signalling changes no count.
LEMMA Moves ==
    ASSUME IInv, NEW g \in Copy, pc' = [pc EXCEPT ![g] = pc'[g]],
           pc[g] \notin {"none", "ended"}, pc'[g] \in {"read", "write", "signal"},
           UNCHANGED <<main, done, shut>>
    PROVE  (ControlTypes /\ SignalsCounted /\ ClosedByPlace)'
<1>1. \A p \in Pipe : Signalled(p)' = Signalled(p) /\ Taken(p)' = Taken(p)
  BY Copies DEF IInv, ControlTypes, Signalled, Taken, One
<1>2. ControlTypes' /\ ClosedByPlace'
  BY DEF IInv, ControlTypes, ClosedByPlace
<1>3. \A h \in Copy : pc[h] = "none" => pc'[h] = "none"
  BY DEF IInv, ControlTypes
<1>4. SignalsCounted'
  BY <1>1, <1>3, Copies DEF IInv, SignalsCounted
<1> QED
  BY <1>2, <1>4

LEMMA ControlStep == IInv /\ [Next]_vars => (ControlTypes /\ SignalsCounted /\ ClosedByPlace)'
<1> SUFFICES ASSUME IInv, [Next]_vars PROVE (ControlTypes /\ SignalsCounted /\ ClosedByPlace)'
  OBVIOUS
<1> DEFINE Goal == ControlTypes /\ SignalsCounted /\ ClosedByPlace
<1>0. UNCHANGED <<main, done, pc>> /\ shut \subseteq shut' => Goal'
  BY DEF IInv, ControlTypes, SignalsCounted, ClosedByPlace, Signalled, Taken, One
<1>1. ASSUME NEW e \in Outer, Send(e) \/ Receive(e) \/ CloseWrite(e) PROVE Goal'
  BY <1>0, <1>1 DEF Send, Receive, CloseWrite, outer, copy
<1>2. ASSUME NEW e \in {"client", "rst", "base"}, Break(e) PROVE Goal'
  BY <1>0, <1>2 DEF Break, copy
<1>3. CASE OpenStream
  <2>1. main["relay"] = "start" /\ done' = done /\ shut \subseteq shut'
    BY <1>3 DEF OpenStream, Shut
  <2>2. CASE StartPipe("relay")
    <3>1. /\ main' = [main EXCEPT !["relay"] = "wait"]
          /\ \A g \in Copy : pc'[g] = IF g \in CopiesOf("relay") THEN "read" ELSE pc[g]
          /\ pc' \in [Copy -> {"none", "read", "write", "signal", "ended"}]
      BY <2>2 DEF StartPipe, IInv, ControlTypes
    <3>2. Signalled("relay")' = Signalled("relay") /\ Taken("relay")' = Taken("relay")
      BY <2>1, <3>1, Copies, Ends DEF IInv, ControlTypes, SignalsCounted, Signalled, Taken, One
    <3>3. ASSUME NEW q \in Pipe, q # "relay"
          PROVE  /\ pc'[Up(q)] = pc[Up(q)] /\ pc'[Down(q)] = pc[Down(q)] /\ main'[q] = main[q]
                 /\ Signalled(q)' = Signalled(q) /\ Taken(q)' = Taken(q)
      <4>1. Up(q) \in Copy \ CopiesOf("relay") /\ Down(q) \in Copy \ CopiesOf("relay")
        BY <3>3, Copies, Ends
      <4> QED
        BY <3>1, <3>3, <4>1 DEF Signalled, Taken, IInv, ControlTypes
    <3> QED
      BY <2>1, <3>1, <3>2, <3>3, Ends DEF IInv, ControlTypes, SignalsCounted, ClosedByPlace
  <2>3. CASE main' = [main EXCEPT !["relay"] = "refused"] /\ UNCHANGED pc
    BY <2>1, <2>3, Copies, Ends DEF IInv, ControlTypes, SignalsCounted, ClosedByPlace,
       Signalled, Taken, One
  <2> QED
    BY <1>3, <2>2, <2>3 DEF OpenStream
<1>4. CASE DialLocal
  <2>1. main["connector"] = "start" /\ done' = done /\ shut \subseteq shut'
    BY <1>4 DEF DialLocal, Shut
  <2>2. CASE StartPipe("connector")
    <3>1. /\ main' = [main EXCEPT !["connector"] = "wait"]
          /\ \A g \in Copy : pc'[g] = IF g \in CopiesOf("connector") THEN "read" ELSE pc[g]
          /\ pc' \in [Copy -> {"none", "read", "write", "signal", "ended"}]
      BY <2>2 DEF StartPipe, IInv, ControlTypes
    <3>2. Signalled("connector")' = Signalled("connector") /\ Taken("connector")' = Taken("connector")
      BY <2>1, <3>1, Copies, Ends DEF IInv, ControlTypes, SignalsCounted, Signalled, Taken, One
    <3>3. ASSUME NEW q \in Pipe, q # "connector"
          PROVE  /\ pc'[Up(q)] = pc[Up(q)] /\ pc'[Down(q)] = pc[Down(q)] /\ main'[q] = main[q]
                 /\ Signalled(q)' = Signalled(q) /\ Taken(q)' = Taken(q)
      <4>1. Up(q) \in Copy \ CopiesOf("connector") /\ Down(q) \in Copy \ CopiesOf("connector")
        BY <3>3, Copies, Ends
      <4> QED
        BY <3>1, <3>3, <4>1 DEF Signalled, Taken, IInv, ControlTypes
    <3> QED
      BY <2>1, <3>1, <3>2, <3>3, Ends DEF IInv, ControlTypes, SignalsCounted, ClosedByPlace
  <2>3. CASE main' = [main EXCEPT !["connector"] = "refused"] /\ UNCHANGED pc
    BY <2>1, <2>3, Copies, Ends DEF IInv, ControlTypes, SignalsCounted, ClosedByPlace,
       Signalled, Taken, One
  <2> QED
    BY <1>4, <2>2, <2>3 DEF DialLocal
<1>5. ASSUME NEW p \in Pipe, AwaitOne(p) \/ AwaitOther(p) PROVE Goal'
  <2>1. /\ done' = [done EXCEPT ![p] = @ - 1] /\ done[p] > 0
        /\ \/ main[p] = "wait" /\ main' = [main EXCEPT ![p] = "close"]
           \/ main[p] = "drain" /\ main' = [main EXCEPT ![p] = "returned"]
        /\ UNCHANGED <<shut, pc>>
    BY <1>5 DEF AwaitOne, AwaitOther, copy
  <2>2. ControlTypes' /\ ClosedByPlace'
    BY <2>1 DEF IInv, ControlTypes, ClosedByPlace
  <2>3. Taken(p)' = Taken(p) + 1 /\ Taken(p) \in Nat
    BY <2>1 DEF Taken, IInv, ControlTypes
  <2>4. \A q \in Pipe \ {p} : Taken(q)' = Taken(q)
    BY <2>1 DEF Taken, IInv, ControlTypes
  <2>5. \A q \in Pipe : Signalled(q)' = Signalled(q) /\ Signalled(q) \in Nat
    BY <2>1 DEF Signalled, One
  <2>6. \A q \in Pipe : main'[q] \in {"start", "refused"} => main[q] \in {"start", "refused"}
    BY <2>1 DEF IInv, ControlTypes
  <2>7. SignalsCounted'
    BY <2>1, <2>3, <2>4, <2>5, <2>6 DEF IInv, SignalsCounted, ControlTypes
  <2> QED
    BY <2>2, <2>7
<1>6. ASSUME NEW p \in Pipe, CloseEnds(p) PROVE Goal'
  <2>1. shut' = shut \cup {ClosesNext(p)}
    BY <1>6 DEF CloseEnds, Shut
  <2>2. ControlTypes' /\ SignalsCounted'
    BY <1>6 DEF CloseEnds, IInv, ControlTypes, SignalsCounted, Signalled, Taken, One, copy
  <2>3. ClosedByPlace'
    BY <1>6, <2>1, Ends DEF CloseEnds, IInv, ControlTypes, ClosedByPlace, ClosesNext
  <2> QED
    BY <2>2, <2>3
<1>7. ASSUME NEW g \in Copy, Read(g) \/ ReadFails(g) \/ Write(g) \/ WriteFails(g) PROVE Goal'
  BY <1>7, Moves DEF Read, ReadFails, Write, WriteFails, Goto, IInv, ControlTypes
<1>8. ASSUME NEW g \in Copy, Signal(g) PROVE Goal'
  <2>1. PICK p \in Pipe : g \in CopiesOf(p) /\ done' = [done EXCEPT ![p] = @ + 1]
    BY <1>8 DEF Signal
  <2>2. pc[g] = "signal" /\ pc' = [pc EXCEPT ![g] = "ended"] /\ UNCHANGED <<shut, main>>
    BY <1>8 DEF Signal, Goto
  <2>3. g \in {Up(p), Down(p)} /\ Up(p) # Down(p)
    BY <2>1, Copies
  <2>4. Signalled(p)' = Signalled(p) + 1
    BY <2>2, <2>3, Copies DEF Signalled, One, IInv, ControlTypes
  <2>5. \A q \in Pipe \ {p} : Signalled(q)' = Signalled(q)
    BY <2>1, <2>2, Copies DEF Signalled, One, IInv, ControlTypes
  <2>6. ControlTypes' /\ ClosedByPlace'
    BY <2>1, <2>2 DEF IInv, ControlTypes, ClosedByPlace
  <2>7. \A q \in Pipe : Taken(q)' = Taken(q) /\ Taken(q) \in Nat /\ Signalled(q) \in Nat
    BY <2>2 DEF Taken, Signalled, One, IInv, ControlTypes
  <2>8. \A q \in Pipe : done'[q] + Taken(q)' = Signalled(q)'
    BY <2>1, <2>4, <2>5, <2>7 DEF IInv, SignalsCounted, ControlTypes
  <2>9. \A h \in Copy : pc[h] = "none" => pc'[h] = "none"
    BY <2>2 DEF IInv, ControlTypes
  <2> QED
    BY <2>2, <2>6, <2>8, <2>9, Copies DEF IInv, SignalsCounted
<1>9. CASE UNCHANGED vars
  BY <1>0, <1>9 DEF vars, copy
<1> QED
  BY <1>1, <1>2, <1>3, <1>4, <1>5, <1>6, <1>7, <1>8, <1>9 DEF Next

LEMMA Inductive == Spec => []IInv
<1>1. IInv /\ [Next]_vars => IInv'
  BY DataStep, ControlStep DEF IInv
<1> QED
  BY <1>1, IInvInit, PTL DEF Spec

-----------------------------------------------------------------------------
\* Every variable keeps its type; in particular no goroutine of a Pipe ever
\* waits to signal its end, since done never holds more than two signals.
THEOREM TypeCorrect == Spec => []TypeOK
<1>1. IInv => TypeOK
  <2> SUFFICES ASSUME IInv PROVE TypeOK
    OBVIOUS
  <2>1. ASSUME NEW p \in Pipe PROVE done[p] \in 0 .. 2
    BY <2>1 DEF IInv, ControlTypes, SignalsCounted, Signalled, Taken, One
  <2> QED
    BY <2>1 DEF IInv, DataTypes, ControlTypes, TypeOK
<1> QED
  BY <1>1, Inductive, PTL

\* A Pipe that returned leaves no goroutine and no open connection behind.
THEOREM NothingLeftCorrect == Spec => []NothingLeft
<1>1. IInv => NothingLeft
  <2> SUFFICES ASSUME IInv, NEW p \in Pipe, main[p] = "returned"
               PROVE  (\A g \in CopiesOf(p) : pc[g] = "ended") /\ EndsOf[p] \subseteq shut
    BY DEF NothingLeft
  <2>1. done[p] + 2 = Signalled(p)
    BY DEF IInv, SignalsCounted, Taken
  <2>2. pc[Up(p)] = "ended" /\ pc[Down(p)] = "ended"
    BY <2>1 DEF IInv, ControlTypes, Signalled, One
  <2> QED
    BY <2>2, Copies DEF IInv, ClosedByPlace
<1> QED
  BY <1>1, Inductive, PTL

-----------------------------------------------------------------------------
(* Chunks stay in order. *)

\* The path to e: what its side of the other direction never touches.
Path(e) == {e, LastCopy(e)[1], FirstCopy(e)[1]}

LEMMA Paths ==
    ASSUME NEW e \in Outer
    PROVE  /\ Opposite(e) \in Outer /\ Opposite(e) # e /\ Opposite(Opposite(e)) = e
           /\ FirstCopy(e) \in Copy /\ LastCopy(e) \in Copy /\ FirstCopy(e) # LastCopy(e)
           /\ Path(e) \subseteq End
           /\ e # LastCopy(e)[1] /\ e # FirstCopy(e)[1] /\ LastCopy(e)[1] # FirstCopy(e)[1]
           /\ Peer[Opposite(e)] = FirstCopy(e)[1]
           /\ Peer[FirstCopy(e)[2]] = LastCopy(e)[1]
           /\ Peer[LastCopy(e)[2]] = e
           /\ Peer[FirstCopy(e)[1]] = Opposite(e)
           /\ Peer[LastCopy(e)[1]] = FirstCopy(e)[2]
           /\ Peer[e] = LastCopy(e)[2]
           /\ Peer[e] \notin Path(e) /\ Opposite(e) \notin Path(e)
           /\ \A h \in Copy \ {FirstCopy(e), LastCopy(e)} :
                 h[1] \notin Path(e) /\ Peer[h[2]] \notin Path(e)
  BY DEF Outer, Opposite, FirstCopy, LastCopy, Copy, Path, End, Peer

LEMMA RunAppend ==
    ASSUME NEW S, NEW s \in Seq(S), NEW o, NEW n \in Nat, Run(s, o, n),
           NEW c \in S, c = <<o, n + Len(s) + 1>>
    PROVE  Run(Append(s, c), o, n) /\ Len(Append(s, c)) = Len(s) + 1
  BY AppendProperties DEF Run

LEMMA RunTail ==
    ASSUME NEW S, NEW s \in Seq(S), NEW o, NEW n \in Nat, Run(s, o, n), s # <<>>
    PROVE  /\ Head(s) = <<o, n + 1>>
           /\ Run(Tail(s), o, n + 1)
           /\ Len(Tail(s)) + 1 = Len(s)
  BY HeadTailProperties DEF Run

LEMMA RunCut ==
    ASSUME NEW S, NEW s \in Seq(S), NEW o, NEW n \in Nat, Run(s, o, n), NEW m \in 0 .. Len(s)
    PROVE  Run(SubSeq(s, 1, m), o, n) /\ Len(SubSeq(s, 1, m)) = m
  BY SubSeqProperties DEF Run

\* Nothing that was under way is lost.
Grows(e) ==
    /\ Arrived(e)' >= Arrived(e)
    /\ Carries(LastCopy(e))' => PastTunnel(e)' >= PastTunnel(e)

Fades(e) ==
    /\ received'[e] = received[e]
    /\ sent'[Opposite(e)] = sent[Opposite(e)]
    /\ reset \subseteq reset'
    /\ \A x \in Path(e) : \E m \in 0 .. Len(inbox[x]) :
          /\ inbox'[x] = SubSeq(inbox[x], 1, m)
          /\ m = Len(inbox[x]) \/ Peer[x] \in reset'
    /\ \A g \in {FirstCopy(e), LastCopy(e)} :
          \/ pc'[g] \in {"signal", "ended"}
          \/ buf'[g] = buf[g] /\ (pc'[g] = pc[g] \/ (pc[g] = "none" /\ pc'[g] = "read"))

\* The next item of t is put at the end of s.
LEMMA RunMoves ==
    ASSUME NEW S, NEW s \in Seq(S), NEW t \in Seq(S), NEW o, NEW n \in Nat, n = Len(s),
           Run(s, o, 0), Run(t, o, n), t # <<>>
    PROVE  /\ Run(Append(s, Head(t)), o, 0)
           /\ Run(Tail(t), o, Len(Append(s, Head(t))))
           /\ Len(Append(s, Head(t))) + Len(Tail(t)) = Len(s) + Len(t)
<1>1. /\ Head(t) = <<o, n + 1>> /\ Run(Tail(t), o, n + 1) /\ Len(Tail(t)) + 1 = Len(t)
      /\ Head(t) \in S /\ Len(Tail(t)) \in Nat /\ Len(t) \in Nat
  BY RunTail, HeadTailProperties, LenProperties
<1>2. Run(Append(s, Head(t)), o, 0) /\ Len(Append(s, Head(t))) = n + 1
  BY <1>1, AppendProperties DEF Run
<1> QED
  BY <1>1, <1>2

LEMMA Counts ==
    ASSUME IInv, NEW e \in Outer
    PROVE  /\ received[e] \in Seq(Chunk) /\ Len(received[e]) \in Nat
           /\ \A x \in Path(e) : inbox[x] \in Seq(Chunk) /\ Len(inbox[x]) \in Nat
           /\ sent[Opposite(e)] \in Nat /\ Arrived(e) \in Nat /\ PastLast(e) \in Nat
           /\ PastTunnel(e) \in Nat /\ PastFirst(e) \in Nat /\ OnItsWay(e) \in Nat
<1>1. received[e] \in Seq(Chunk) /\ \A x \in Path(e) : inbox[x] \in Seq(Chunk)
  BY Paths DEF IInv, DataTypes
<1>2. Len(received[e]) \in Nat /\ \A x \in Path(e) : Len(inbox[x]) \in Nat
  BY <1>1, LenProperties
<1>3. Held(FirstCopy(e)) \in Nat /\ Held(LastCopy(e)) \in Nat /\ sent[Opposite(e)] \in Nat
  BY Paths DEF Held, IInv, DataTypes
<1>4. /\ Len(inbox[e]) \in Nat
      /\ Len(inbox[LastCopy(e)[1]]) \in Nat
      /\ Len(inbox[FirstCopy(e)[1]]) \in Nat
  BY <1>2 DEF Path
<1>5. Arrived(e) \in Nat
  BY <1>2, <1>4 DEF Arrived, IInv, DataTypes
<1>6. PastLast(e) \in Nat
  BY <1>3, <1>5 DEF PastLast
<1>7. PastTunnel(e) \in Nat
  BY <1>4, <1>6 DEF PastTunnel
<1>8. PastFirst(e) \in Nat
  BY <1>3, <1>7 DEF PastFirst
<1>9. OnItsWay(e) \in Nat
  BY <1>4, <1>8 DEF OnItsWay
<1> QED
  BY <1>1, <1>2, <1>3, <1>5, <1>6, <1>7, <1>8, <1>9

LEMMA FadesInFlow ==
    ASSUME IInv, NEW e \in Outer, InFlow(e), Fades(e)
    PROVE  InFlow(e)' /\ (reset' = {} => Grows(e))
<1> DEFINE o == Opposite(e)
           f == FirstCopy(e)
           l == LastCopy(e)
<1>0. e \in Path(e) /\ l[1] \in Path(e) /\ f[1] \in Path(e)
  BY DEF Path
<1>1. PICK a \in 0 .. Len(inbox[e]) :
          /\ inbox'[e] = SubSeq(inbox[e], 1, a) 
          /\ a = Len(inbox[e]) \/ Peer[e] \in reset'
  BY DEF Fades, Path
<1>2. PICK b \in 0 .. Len(inbox[l[1]]) :
          /\ inbox'[l[1]] = SubSeq(inbox[l[1]], 1, b) 
          /\ b = Len(inbox[l[1]]) \/ Peer[l[1]] \in reset'
  BY DEF Fades, Path
<1>3. PICK c \in 0 .. Len(inbox[f[1]]) :
          /\ inbox'[f[1]] = SubSeq(inbox[f[1]], 1, c) 
          /\ c = Len(inbox[f[1]]) \/ Peer[f[1]] \in reset'
  BY DEF Fades, Path
<1>4. Len(inbox'[e]) = a /\ Len(inbox'[l[1]]) = b /\ Len(inbox'[f[1]]) = c
  BY <1>0, <1>1, <1>2, <1>3, Counts, SubSeqProperties
<1>5. ArrivedInOrder(e)'
  <2>1. Run(inbox[e], o, Len(received[e])) /\ Run(received[e], o, 0) /\ Arrived(e) <= sent[o]
    BY DEF InFlow, ArrivedInOrder
  <2>2. Run(inbox'[e], o, Len(received[e]))
    BY <1>0, <1>1, <2>1, Counts, RunCut
  <2>3. Arrived(e) = Len(received[e]) + Len(inbox[e]) /\ Arrived(e)' = Len(received[e]) + a
    BY <1>4 DEF Fades, Arrived
  <2>4. Arrived(e)' <= sent'[o]
    <3>1. sent'[o] = sent[o] /\ sent[o] \in Nat /\ Len(received[e]) \in Nat /\ Len(inbox[e]) \in Nat
      BY <1>0, Counts DEF Fades
    <3> QED
      BY <1>1, <2>1, <2>3, <3>1 DEF IInv, DataTypes
  <2> QED
    BY <2>1, <2>2, <2>4 DEF Fades, ArrivedInOrder
<1>6. ASSUME NEW g \in {f, l}, Carries(g)'
      PROVE  Carries(g) /\ Held(g)' = Held(g) /\ (pc'[g] = "write" => pc[g] = "write" /\ buf'[g] = buf[g])
             /\ Peer[Peer[g[2]]] \notin reset'
  <2>1. Peer[Peer[g[2]]] = g[2]
    BY Paths
  <2> QED
    BY <1>6, <2>1 DEF Fades, Carries, Held
<1>7. ASSUME Carries(l)' PROVE Arrived(e)' = Arrived(e) /\ PastLast(e)' = PastLast(e) /\ Carries(l)
  BY <1>0, <1>1, <1>4, <1>6, <1>7, Paths DEF Fades, Arrived, PastLast
<1>8. ASSUME Carries(l)' PROVE LastInOrder(e)'
  <2>1. Run(inbox[l[1]], o, PastLast(e)) /\ PastTunnel(e) <= sent[o]
    BY <1>7, <1>8 DEF InFlow, LastInOrder
  <2>2. Run(inbox'[l[1]], o, PastLast(e))
    BY <1>0, <1>2, <2>1, Counts, RunCut
  <2>3. PastTunnel(e) = PastLast(e) + Len(inbox[l[1]]) /\ PastTunnel(e)' = PastLast(e) + b
    BY <1>4, <1>7, <1>8 DEF PastTunnel
  <2>4. PastTunnel(e)' <= sent'[o]
    <3>1. sent'[o] = sent[o] /\ sent[o] \in Nat /\ PastLast(e) \in Nat /\ Len(inbox[l[1]]) \in Nat
      BY <1>0, Counts DEF Fades
    <3> QED
      BY <1>2, <2>1, <2>3, <3>1
  <2> QED
    BY <1>6, <1>7, <1>8, <2>2, <2>4 DEF Fades, InFlow, LastInOrder
<1>9. ASSUME Carries(l)', Carries(f)' PROVE FirstInOrder(e)'
  <2>1. /\ Run(inbox[f[1]], o, PastFirst(e)) /\ OnItsWay(e) <= sent[o]
        /\ o \notin reset => OnItsWay(e) = sent[o]
    BY <1>6, <1>9 DEF InFlow, FirstInOrder
  <2>2. b = Len(inbox[l[1]])
    BY <1>2, <1>6, <1>9, Paths
  <2>3. PastTunnel(e)' = PastTunnel(e) /\ PastFirst(e)' = PastFirst(e)
    BY <1>4, <1>6, <1>7, <1>9, <2>2 DEF PastTunnel, PastFirst
  <2>4. Run(inbox'[f[1]], o, PastFirst(e))
    BY <1>0, <1>3, <2>1, Counts, RunCut
  <2>5. o \notin reset' => c = Len(inbox[f[1]]) /\ o \notin reset
    BY <1>3, Paths DEF Fades
  <2>6. OnItsWay(e) = PastFirst(e) + Len(inbox[f[1]]) /\ OnItsWay(e)' = PastFirst(e) + c
    BY <1>4, <2>3 DEF OnItsWay
  <2>7. OnItsWay(e)' <= sent'[o] /\ (o \notin reset' => OnItsWay(e)' = sent'[o])
    <3>1. sent'[o] = sent[o] /\ sent[o] \in Nat /\ PastFirst(e) \in Nat /\ Len(inbox[f[1]]) \in Nat
      BY <1>0, Counts DEF Fades
    <3> QED
      BY <1>3, <2>1, <2>5, <2>6, <3>1
  <2> QED
    BY <1>6, <1>9, <2>3, <2>4, <2>7 DEF InFlow, FirstInOrder
<1>10. reset' = {} => Grows(e)
  <2> SUFFICES ASSUME reset' = {} PROVE Grows(e)
    OBVIOUS
  <2>1. a = Len(inbox[e]) /\ b = Len(inbox[l[1]])
    BY <1>1, <1>2
  <2>2. Arrived(e)' = Arrived(e)
    BY <1>4, <2>1 DEF Fades, Arrived
  <2>3. Carries(l)' => PastTunnel(e)' = PastTunnel(e)
    BY <1>4, <1>7, <2>1 DEF PastTunnel
  <2> QED
    BY <2>2, <2>3, Counts DEF Grows
<1> QED
  BY <1>5, <1>8, <1>9, <1>10 DEF InFlow, LastInOrder, FirstInOrder

\* What is cut from an inbox is cut from its end, and for good.
Cuts ==
    /\ reset \subseteq reset'
    /\ \A x \in End : \E m \in 0 .. Len(inbox[x]) :
          /\ inbox'[x] = SubSeq(inbox[x], 1, m)
          /\ m = Len(inbox[x]) \/ Peer[x] \in reset'

LEMMA NothingCut ==
    ASSUME IInv, NEW x \in End, inbox'[x] = inbox[x]
    PROVE  \E m \in 0 .. Len(inbox[x]) :
              inbox'[x] = SubSeq(inbox[x], 1, m) /\ m = Len(inbox[x])
<1>1. inbox[x] \in Seq(Chunk)
  BY DEF IInv, DataTypes
<1> QED
  BY <1>1, LenProperties, SubSeqFull

LEMMA UnchangedCuts == ASSUME IInv, UNCHANGED <<inbox, reset>> PROVE Cuts
  BY NothingCut DEF Cuts

LEMMA LoseCuts ==
    ASSUME IInv, NEW y \in End, Lose(y)
    PROVE  Cuts
<1>1. PICK m \in 0 .. Len(inbox[y]), n \in 0 .. Len(inbox[Peer[y]]) :
          inbox' = [inbox EXCEPT ![y] = SubSeq(@, 1, m), ![Peer[y]] = SubSeq(@, 1, n)]
  BY DEF Lose
<1>2. Peer[y] \in End /\ Peer[y] # y /\ Peer[Peer[y]] = y /\ inbox \in [End -> Seq(Chunk)]
  BY Ends DEF Peer, End, IInv, DataTypes
<1>3. reset' = reset \cup {y, Peer[y]}
  BY DEF Lose
<1>4. ASSUME NEW x \in End, x \notin {y, Peer[y]}
      PROVE  inbox'[x] = inbox[x]
  BY <1>1, <1>2, <1>4
<1>5. inbox'[y] = SubSeq(inbox[y], 1, m) /\ inbox'[Peer[y]] = SubSeq(inbox[Peer[y]], 1, n)
  BY <1>1, <1>2
<1> QED
  BY <1>1, <1>2, <1>3, <1>4, <1>5, NothingCut DEF Cuts

LEMMA ShutCuts ==
    ASSUME IInv, NEW y \in End, Shut(y)
    PROVE  Cuts
  BY LoseCuts, UnchangedCuts DEF Shut

LEMMA CutsFade ==
    ASSUME IInv, Cuts, NEW e \in Outer, UNCHANGED <<sent, received>>,
           \A g \in {FirstCopy(e), LastCopy(e)} :
              \/ pc'[g] \in {"signal", "ended"}
              \/ buf'[g] = buf[g] /\ (pc'[g] = pc[g] \/ (pc[g] = "none" /\ pc'[g] = "read"))
    PROVE  Fades(e)
  BY Paths DEF Cuts, Fades

LEMMA SendInFlow ==
    ASSUME IInv, NEW e \in Outer, InFlow(e), Send(Opposite(e))
    PROVE  InFlow(e)' /\ Grows(e)
<1> DEFINE o == Opposite(e)
           x == FirstCopy(e)[1]
<1>1. /\ inbox' = [inbox EXCEPT ![x] = Append(@, <<o, sent[o] + 1>>)]
      /\ sent' = [sent EXCEPT ![o] = @ + 1]
      /\ o \notin reset
      /\ UNCHANGED <<reset, received, pc, buf>>
  BY Paths DEF Send, Put, Writable, copy, IInv, DataTypes
<1>2. /\ sent'[o] = sent[o] + 1 /\ inbox'[x] = Append(inbox[x], <<o, sent[o] + 1>>)
      /\ inbox'[e] = inbox[e] /\ inbox'[LastCopy(e)[1]] = inbox[LastCopy(e)[1]]
  BY <1>1, Paths DEF IInv, DataTypes, Path
<1>3. /\ Arrived(e)' = Arrived(e) /\ PastLast(e)' = PastLast(e) /\ PastTunnel(e)' = PastTunnel(e)
      /\ PastFirst(e)' = PastFirst(e)
  BY <1>1, <1>2, Paths DEF Arrived, PastLast, PastTunnel, PastFirst, Held, Path
<1>4. \A g \in Copy : Carries(g)' = Carries(g)
  BY <1>1 DEF Carries
<1>5. ArrivedInOrder(e)' /\ LastInOrder(e)'
  <2>1. \A n \in Nat : n <= sent[o] => n <= sent'[o]
    BY <1>2, Counts
  <2>2. ArrivedInOrder(e)'
    BY <1>1, <1>2, <1>3, <2>1, Counts DEF InFlow, ArrivedInOrder
  <2> QED
    BY <1>1, <1>2, <1>3, <1>4, <2>1, <2>2, Paths, Counts DEF InFlow, LastInOrder
<1>6. ASSUME Carries(LastCopy(e)), Carries(FirstCopy(e))
      PROVE  /\ Run(inbox'[x], o, PastFirst(e))
             /\ OnItsWay(e)' = sent'[o]
  <2>1. Run(inbox[x], o, PastFirst(e)) /\ OnItsWay(e) = sent[o]
    BY <1>1, <1>6 DEF InFlow, FirstInOrder
  <2>2. inbox[x] \in Seq(Chunk) /\ PastFirst(e) \in Nat /\ sent[o] \in Nat /\ o \in Outer
    BY Counts, Paths DEF Path
  <2>3. /\ <<o, sent[o] + 1>> = <<o, PastFirst(e) + Len(inbox[x]) + 1>>
        /\ <<o, sent[o] + 1>> \in Chunk
    BY <2>1, <2>2 DEF OnItsWay, Chunk
  <2>4. Run(inbox'[x], o, PastFirst(e)) /\ Len(inbox'[x]) = Len(inbox[x]) + 1
    BY <1>2, <2>1, <2>2, <2>3, RunAppend
  <2> QED
    BY <1>2, <1>3, <2>2, <2>3, <2>4 DEF OnItsWay
<1>7. FirstInOrder(e)'
  BY <1>1, <1>2, <1>3, <1>4, <1>6, Paths, Counts DEF InFlow, FirstInOrder
<1>8. InFlow(e)'
  BY <1>5, <1>7 DEF InFlow
<1>9. Grows(e)
  BY <1>3, Counts DEF Grows
<1> QED
  BY <1>8, <1>9

LEMMA ReceiveInFlow ==
    ASSUME IInv, NEW e \in Outer, InFlow(e), Receive(e)
    PROVE  InFlow(e)' /\ Grows(e)
<1> DEFINE o == Opposite(e)
<1>1. /\ received' = [received EXCEPT ![e] = Append(@, Head(inbox[e]))]
      /\ inbox' = [inbox EXCEPT ![e] = Tail(@)]
      /\ inbox[e] # <<>>
      /\ UNCHANGED <<sent, reset, pc, buf>>
  BY DEF Receive, copy
<1>2. /\ received'[e] = Append(received[e], Head(inbox[e])) /\ inbox'[e] = Tail(inbox[e])
      /\ inbox'[FirstCopy(e)[1]] = inbox[FirstCopy(e)[1]]
      /\ inbox'[LastCopy(e)[1]] = inbox[LastCopy(e)[1]]
  <2>1. e \in DOMAIN received /\ e \in DOMAIN inbox
    BY Paths DEF IInv, DataTypes, Path
  <2> QED
    BY <1>1, <2>1, Paths DEF IInv, DataTypes, Path
<1>3. /\ inbox[e] \in Seq(Chunk) /\ received[e] \in Seq(Chunk)
      /\ Len(inbox[e]) \in Nat /\ Len(received[e]) \in Nat
  BY Counts DEF Path
<1>4. Run(received[e], o, 0) /\ Run(inbox[e], o, Len(received[e]))
  BY DEF InFlow, ArrivedInOrder
<1>5. /\ Run(received'[e], o, 0)
      /\ Run(inbox'[e], o, Len(received'[e]))
      /\ Len(received'[e]) + Len(inbox'[e]) = Len(received[e]) + Len(inbox[e])
  BY <1>1, <1>2, <1>3, <1>4, RunMoves
<1>6. Arrived(e)' = Arrived(e)
  BY <1>5 DEF Arrived
<1>7. /\ PastLast(e)' = PastLast(e) /\ PastTunnel(e)' = PastTunnel(e)
      /\ PastFirst(e)' = PastFirst(e) /\ OnItsWay(e)' = OnItsWay(e)
  BY <1>1, <1>2, <1>6, Paths DEF PastLast, PastTunnel, PastFirst, OnItsWay, Held, Path
<1>8. \A g \in Copy : Carries(g)' = Carries(g)
  BY <1>1 DEF Carries
<1>9. InFlow(e)'
  BY <1>1, <1>2, <1>5, <1>6, <1>7, <1>8, Paths
     DEF InFlow, ArrivedInOrder, LastInOrder, FirstInOrder, Path
<1>10. Grows(e)
  BY <1>6, <1>7, Counts DEF Grows
<1> QED
  BY <1>9, <1>10

LEMMA ReadLastInFlow ==
    ASSUME IInv, NEW e \in Outer, InFlow(e), Read(LastCopy(e))
    PROVE  InFlow(e)' /\ Grows(e)
<1> DEFINE o == Opposite(e)
           l == LastCopy(e)
           s == inbox[l[1]]
<1>1. /\ pc' = [pc EXCEPT ![l] = "write"] /\ pc[l] = "read" /\ s # <<>>
      /\ buf' = [buf EXCEPT ![l] = Head(s)]
      /\ inbox' = [inbox EXCEPT ![l[1]] = Tail(s)]
      /\ UNCHANGED <<sent, received, reset>>
  BY DEF Read, Goto, outer
<1>2. /\ pc'[l] = "write" /\ buf'[l] = Head(s) /\ inbox'[l[1]] = Tail(s)
      /\ inbox'[e] = inbox[e] /\ inbox'[FirstCopy(e)[1]] = inbox[FirstCopy(e)[1]]
      /\ pc'[FirstCopy(e)] = pc[FirstCopy(e)] /\ buf'[FirstCopy(e)] = buf[FirstCopy(e)]
  BY <1>1, Paths DEF IInv, DataTypes, ControlTypes, Path
<1>3. s \in Seq(Chunk) /\ Len(s) \in Nat /\ Len(Tail(s)) \in Nat /\ Len(Tail(s)) + 1 = Len(s)
  BY <1>1, Counts, HeadTailProperties DEF Path
<1>4. Arrived(e)' = Arrived(e) /\ PastLast(e)' = PastLast(e) + 1 /\ PastLast(e) = Arrived(e)
  <2>1. Arrived(e)' = Arrived(e) /\ Held(l) = 0 /\ Held(l)' = 1
    BY <1>1, <1>2 DEF Arrived, Held
  <2> QED
    BY <2>1, Counts DEF PastLast
<1>5. PastTunnel(e)' = PastTunnel(e)
  BY <1>2, <1>3, <1>4, Counts DEF PastTunnel
<1>6. PastFirst(e)' = PastFirst(e) /\ OnItsWay(e)' = OnItsWay(e)
  BY <1>2, <1>5 DEF PastFirst, OnItsWay, Held
<1>7. Carries(l)' = Carries(l) /\ Carries(FirstCopy(e))' = Carries(FirstCopy(e))
  BY <1>1, <1>2 DEF Carries
<1>8. ASSUME Carries(l) PROVE buf'[l] = <<o, Arrived(e) + 1>> /\ Run(inbox'[l[1]], o, PastLast(e)')
  BY <1>1, <1>2, <1>3, <1>4, <1>8, Counts, RunTail DEF InFlow, LastInOrder
<1>9. InFlow(e)'
  BY <1>1, <1>2, <1>4, <1>5, <1>6, <1>7, <1>8 DEF InFlow, ArrivedInOrder, LastInOrder, FirstInOrder
<1>10. Grows(e)
  BY <1>4, <1>5, Counts DEF Grows
<1> QED
  BY <1>9, <1>10

LEMMA ReadFirstInFlow ==
    ASSUME IInv, NEW e \in Outer, InFlow(e), Read(FirstCopy(e))
    PROVE  InFlow(e)' /\ Grows(e)
<1> DEFINE o == Opposite(e)
           f == FirstCopy(e)
           s == inbox[f[1]]
<1>1. /\ pc' = [pc EXCEPT ![f] = "write"] /\ pc[f] = "read" /\ s # <<>>
      /\ buf' = [buf EXCEPT ![f] = Head(s)]
      /\ inbox' = [inbox EXCEPT ![f[1]] = Tail(s)]
      /\ UNCHANGED <<sent, received, reset>>
  BY DEF Read, Goto, outer
<1>2. /\ pc'[f] = "write" /\ buf'[f] = Head(s) /\ inbox'[f[1]] = Tail(s)
      /\ inbox'[e] = inbox[e] /\ inbox'[LastCopy(e)[1]] = inbox[LastCopy(e)[1]]
      /\ pc'[LastCopy(e)] = pc[LastCopy(e)] /\ buf'[LastCopy(e)] = buf[LastCopy(e)]
  BY <1>1, Paths DEF IInv, DataTypes, ControlTypes, Path
<1>3. s \in Seq(Chunk) /\ Len(s) \in Nat /\ Len(Tail(s)) \in Nat /\ Len(Tail(s)) + 1 = Len(s)
  BY <1>1, Counts, HeadTailProperties DEF Path
<1>4. Arrived(e)' = Arrived(e) /\ PastLast(e)' = PastLast(e) /\ PastTunnel(e)' = PastTunnel(e)
  BY <1>1, <1>2 DEF Arrived, PastLast, PastTunnel, Held
<1>5. PastFirst(e)' = PastFirst(e) + 1 /\ PastFirst(e) = PastTunnel(e)
  BY <1>1, <1>2, <1>4, Counts DEF PastFirst, Held
<1>6. OnItsWay(e)' = OnItsWay(e)
  BY <1>2, <1>3, <1>5, Counts DEF OnItsWay
<1>7. Carries(f)' = Carries(f) /\ Carries(LastCopy(e))' = Carries(LastCopy(e))
  BY <1>1, <1>2 DEF Carries
<1>8. ASSUME Carries(f), Carries(LastCopy(e))
      PROVE  buf'[f] = <<o, PastTunnel(e) + 1>> /\ Run(inbox'[f[1]], o, PastFirst(e)')
  BY <1>1, <1>2, <1>3, <1>5, <1>8, Counts, RunTail DEF InFlow, FirstInOrder
<1>9. InFlow(e)'
  BY <1>1, <1>2, <1>4, <1>5, <1>6, <1>7, <1>8 DEF InFlow, ArrivedInOrder, LastInOrder, FirstInOrder
<1>10. Grows(e)
  BY <1>4, Counts DEF Grows
<1> QED
  BY <1>9, <1>10

LEMMA WriteLastInFlow ==
    ASSUME IInv, NEW e \in Outer, InFlow(e), Write(LastCopy(e))
    PROVE  InFlow(e)' /\ Grows(e)
<1> DEFINE o == Opposite(e)
           l == LastCopy(e)
<1>1. /\ pc' = [pc EXCEPT ![l] = "read"] /\ pc[l] = "write"
      /\ buf' = [buf EXCEPT ![l] = None]
      /\ inbox' = [inbox EXCEPT ![e] = Append(@, buf[l])]
      /\ l[2] \notin reset
      /\ UNCHANGED <<sent, received, reset>>
  BY Paths DEF Write, Goto, Put, Writable, outer
<1>2. /\ pc'[l] = "read" /\ inbox'[e] = Append(inbox[e], buf[l])
      /\ inbox'[l[1]] = inbox[l[1]] /\ inbox'[FirstCopy(e)[1]] = inbox[FirstCopy(e)[1]]
      /\ pc'[FirstCopy(e)] = pc[FirstCopy(e)] /\ buf'[FirstCopy(e)] = buf[FirstCopy(e)]
  BY <1>1, Paths DEF IInv, DataTypes, ControlTypes, Path
<1>3. Carries(l) /\ Carries(l)' /\ Carries(FirstCopy(e))' = Carries(FirstCopy(e))
  BY <1>1, <1>2 DEF Carries
<1>4. /\ buf[l] = <<o, Arrived(e) + 1>> /\ buf[l] \in Chunk
      /\ Run(inbox[l[1]], o, PastLast(e)) /\ PastTunnel(e) <= sent[o]
  BY <1>1, <1>3, Paths DEF InFlow, LastInOrder, IInv, DataTypes
<1>5. inbox[e] \in Seq(Chunk) /\ Len(inbox[e]) \in Nat /\ Len(inbox[l[1]]) \in Nat
  BY Counts DEF Path
<1>6. PICK n \in Nat : n = Len(received[e])
  BY Counts
<1>7. Run(inbox'[e], o, n) /\ Len(inbox'[e]) = Len(inbox[e]) + 1 /\ Arrived(e)' = Arrived(e) + 1
  <2>1. Arrived(e) = n + Len(inbox[e]) /\ Arrived(e)' = n + Len(inbox'[e])
    BY <1>1, <1>6 DEF Arrived
  <2>2. buf[l] = <<o, n + Len(inbox[e]) + 1>> /\ Run(inbox[e], o, n)
    BY <1>4, <1>6, <2>1 DEF InFlow, ArrivedInOrder
  <2>3. Run(inbox'[e], o, n) /\ Len(inbox'[e]) = Len(inbox[e]) + 1
    <3> HIDE DEF l
    <3>1. /\ Run(Append(inbox[e], buf[l]), o, n)
          /\ Len(Append(inbox[e], buf[l])) = Len(inbox[e]) + 1
      <4>1. buf[l] \in Chunk
        BY <1>4
      <4> QED
        BY <1>5, <2>2, <4>1, RunAppend
    <3> QED
      BY <1>2, <3>1
  <2> QED
    BY <1>5, <2>1, <2>3
<1>8. PastLast(e)' = PastLast(e) /\ PastLast(e) = Arrived(e) + 1
  BY <1>1, <1>2, <1>7, Counts DEF PastLast, Held
<1>9. /\ PastTunnel(e)' = PastTunnel(e) /\ PastFirst(e)' = PastFirst(e)
      /\ OnItsWay(e)' = OnItsWay(e) /\ Arrived(e)' <= sent'[o]
  <2>1. PastTunnel(e)' = PastTunnel(e) /\ PastFirst(e)' = PastFirst(e) /\ OnItsWay(e)' = OnItsWay(e)
    BY <1>2, <1>8 DEF PastTunnel, PastFirst, OnItsWay, Held
  <2>2. Arrived(e) + 1 <= PastTunnel(e)
    BY <1>5, <1>8, Counts DEF PastTunnel
  <2> QED
    BY <1>1, <1>4, <1>7, <2>1, <2>2, Counts
<1>10. InFlow(e)'
  BY <1>1, <1>2, <1>3, <1>4, <1>6, <1>7, <1>8, <1>9
     DEF InFlow, ArrivedInOrder, LastInOrder, FirstInOrder
<1>11. Grows(e)
  BY <1>7, <1>9, Counts DEF Grows
<1> QED
  BY <1>10, <1>11

LEMMA WriteFirstInFlow ==
    ASSUME IInv, NEW e \in Outer, InFlow(e), Write(FirstCopy(e))
    PROVE  InFlow(e)' /\ Grows(e)
<1> DEFINE o == Opposite(e)
           f == FirstCopy(e)
           l == LastCopy(e)
<1>1. /\ pc' = [pc EXCEPT ![f] = "read"] /\ pc[f] = "write"
      /\ buf' = [buf EXCEPT ![f] = None]
      /\ inbox' = [inbox EXCEPT ![l[1]] = Append(@, buf[f])]
      /\ f[2] \notin reset
      /\ UNCHANGED <<sent, received, reset>>
  BY Paths DEF Write, Goto, Put, Writable, outer
<1>2. /\ pc'[f] = "read" /\ inbox'[l[1]] = Append(inbox[l[1]], buf[f])
      /\ inbox'[e] = inbox[e] /\ inbox'[f[1]] = inbox[f[1]]
      /\ pc'[l] = pc[l] /\ buf'[l] = buf[l]
  BY <1>1, Paths DEF IInv, DataTypes, ControlTypes, Path
<1>3. Carries(f) /\ Carries(f)' /\ Carries(l)' = Carries(l)
  BY <1>1, <1>2 DEF Carries
<1>4. inbox[l[1]] \in Seq(Chunk) /\ Len(inbox[l[1]]) \in Nat /\ Len(inbox[f[1]]) \in Nat
  BY Counts DEF Path
<1>5. Arrived(e)' = Arrived(e) /\ PastLast(e)' = PastLast(e)
  BY <1>1, <1>2 DEF Arrived, PastLast, Held
<1>6. ASSUME Carries(l)
      PROVE  LastInOrder(e)' /\ FirstInOrder(e)' /\ PastTunnel(e)' = PastTunnel(e) + 1
  <2>1. /\ buf[f] = <<o, PastTunnel(e) + 1>> /\ buf[f] \in Chunk
        /\ Run(inbox[f[1]], o, PastFirst(e)) /\ OnItsWay(e) <= sent[o]
        /\ o \notin reset => OnItsWay(e) = sent[o]
    BY <1>1, <1>3, <1>6, Paths DEF InFlow, FirstInOrder, IInv, DataTypes
  <2>2. Run(inbox'[l[1]], o, PastLast(e)) /\ Len(inbox'[l[1]]) = Len(inbox[l[1]]) + 1
    <3>1. buf[f] = <<o, PastLast(e) + Len(inbox[l[1]]) + 1>>
      BY <2>1 DEF PastTunnel
    <3>2. Run(inbox[l[1]], o, PastLast(e)) /\ PastLast(e) \in Nat
      BY <1>6, Counts DEF InFlow, LastInOrder
    <3> QED
      BY <1>2, <1>4, <2>1, <3>1, <3>2, RunAppend
  <2>3. PastTunnel(e)' = PastTunnel(e) + 1
    <3>1. PICK k \in Nat : k = PastLast(e)
      BY Counts
    <3>2. PastTunnel(e) = k + Len(inbox[l[1]]) /\ PastTunnel(e)' = k + Len(inbox'[l[1]])
      BY <1>5, <3>1 DEF PastTunnel
    <3> QED
      BY <1>4, <2>2, <3>2
  <2>4. PastFirst(e)' = PastFirst(e) /\ PastFirst(e) = PastTunnel(e) + 1 /\ OnItsWay(e)' = OnItsWay(e)
    <3>1. Held(f) = 1 /\ Held(f)' = 0
      BY <1>1, <1>2 DEF Held
    <3>2. PastFirst(e)' = PastFirst(e) /\ PastFirst(e) = PastTunnel(e) + 1
      BY <2>3, <3>1, Counts DEF PastFirst
    <3> QED
      BY <1>2, <3>2 DEF OnItsWay
  <2>5. PastTunnel(e)' <= sent[o]
    BY <1>4, <2>1, <2>3, <2>4, Counts DEF OnItsWay
  <2>6. LastInOrder(e)'
    BY <1>1, <1>2, <1>3, <1>5, <1>6, <2>2, <2>5 DEF InFlow, LastInOrder
  <2>7. FirstInOrder(e)'
    BY <1>1, <1>2, <1>3, <1>6, <2>1, <2>4 DEF FirstInOrder
  <2> QED
    BY <2>3, <2>6, <2>7
<1>7. InFlow(e)'
  BY <1>1, <1>2, <1>3, <1>5, <1>6 DEF InFlow, ArrivedInOrder, LastInOrder, FirstInOrder
<1>8. Grows(e)
  BY <1>3, <1>5, <1>6, Counts DEF Grows
<1> QED
  BY <1>7, <1>8

\* A step of the other direction.
LEMMA ElsewhereInFlow ==
    ASSUME IInv, NEW e \in Outer, InFlow(e), reset' = reset,
           received'[e] = received[e], sent'[Opposite(e)] = sent[Opposite(e)],
           \A x \in Path(e) : inbox'[x] = inbox[x],
           \A g \in {FirstCopy(e), LastCopy(e)} : pc'[g] = pc[g] /\ buf'[g] = buf[g]
    PROVE  InFlow(e)' /\ (reset' = {} => Grows(e))
  BY Paths, NothingCut, FadesInFlow DEF Fades

LEMMA FlowStep ==
    ASSUME IInv, FlowInv, [Next]_vars, NEW e \in Outer
    PROVE  InFlow(e)' /\ (reset' = {} => Grows(e))
<1> DEFINE Goal == InFlow(e)' /\ (reset' = {} => Grows(e))
<1>0. InFlow(e)
  BY DEF FlowInv
<1> DEFINE Quiet(g) == \/ pc'[g] \in {"signal", "ended"}
                       \/ buf'[g] = buf[g] /\ (pc'[g] = pc[g] \/ (pc[g] = "none" /\ pc'[g] = "read"))
<1>quiet. ASSUME Cuts, UNCHANGED <<sent, received>>, \A g \in Copy : Quiet(g)
      PROVE  Goal
  <2>1. \A g \in {FirstCopy(e), LastCopy(e)} : Quiet(g)
    BY <1>quiet, Paths
  <2> QED
    BY <1>0, <1>quiet, <2>1, CutsFade, FadesInFlow
<1>1. ASSUME NEW x \in Outer, Send(x) PROVE Goal
  <2>1. CASE x = Opposite(e)
    BY <1>0, <1>1, <2>1, SendInFlow
  <2>2. CASE x # Opposite(e)
    <3>1. x = e
      BY <2>2 DEF Outer, Opposite
    <3>2. \A y \in Path(e) : inbox'[y] = inbox[y]
      BY <1>1, <3>1, Paths DEF Send, Put, IInv, DataTypes
    <3>3. sent'[Opposite(e)] = sent[Opposite(e)]
      BY <1>1, <2>2, Paths DEF Send, IInv, DataTypes
    <3> QED
      BY <1>0, <1>1, <3>2, <3>3, ElsewhereInFlow DEF Send, copy
  <2> QED
    BY <2>1, <2>2
<1>2. ASSUME NEW x \in Outer, Receive(x) PROVE Goal
  <2>1. CASE x = e
    BY <1>0, <1>2, <2>1, ReceiveInFlow
  <2>2. CASE x # e
    <3>1. x = Opposite(e)
      BY <2>2 DEF Outer, Opposite
    <3>2. \A y \in Path(e) : inbox'[y] = inbox[y]
      BY <1>2, <3>1, Paths DEF Receive, IInv, DataTypes
    <3>3. received'[e] = received[e]
      BY <1>2, <2>2 DEF Receive, IInv, DataTypes
    <3> QED
      BY <1>0, <1>2, <3>2, <3>3, ElsewhereInFlow DEF Receive, copy
  <2> QED
    BY <2>1, <2>2
<1>3. ASSUME NEW x \in Outer, CloseWrite(x) PROVE Goal
  BY <1>3, <1>quiet, UnchangedCuts DEF CloseWrite, outer, copy
<1>4. ASSUME NEW x \in {"client", "rst", "base"}, Break(x) PROVE Goal
  BY <1>4, <1>quiet, LoseCuts, Ends DEF Break, outer, copy
<1>5. CASE OpenStream \/ DialLocal
  <2>1. Cuts
    BY <1>5, Ends, ShutCuts, UnchangedCuts DEF OpenStream, DialLocal
  <2>2. \A g \in Copy : Quiet(g)
    <3>1. CASE pc' = pc
      BY <1>5, <3>1 DEF OpenStream, DialLocal
    <3>2. ASSUME NEW p \in Pipe, main[p] = "start", StartPipe(p)
          PROVE  \A g \in Copy : pc'[g] = pc[g] \/ (pc[g] = "none" /\ pc'[g] = "read")
      BY <3>2, Copies DEF StartPipe, IInv, SignalsCounted
    <3> QED
      BY <1>5, <3>1, <3>2, Ends DEF OpenStream, DialLocal
  <2> QED
    BY <1>5, <1>quiet, <2>1, <2>2 DEF OpenStream, DialLocal, outer
<1>6. ASSUME NEW p \in Pipe, AwaitOne(p) \/ AwaitOther(p) PROVE Goal
  BY <1>6, <1>quiet, UnchangedCuts DEF AwaitOne, AwaitOther, outer, copy
<1>7. ASSUME NEW p \in Pipe, CloseEnds(p) PROVE Goal
  <2>1. ClosesNext(p) \in End
    BY <1>7, Ends DEF CloseEnds, ClosesNext
  <2> QED
    BY <1>7, <1>quiet, <2>1, ShutCuts DEF CloseEnds, outer, copy
<1>8. ASSUME NEW g \in Copy, Read(g) PROVE Goal
  <2>1. CASE g = LastCopy(e)
    BY <1>0, <1>8, <2>1, ReadLastInFlow
  <2>2. CASE g = FirstCopy(e)
    BY <1>0, <1>8, <2>2, ReadFirstInFlow
  <2>3. CASE g \notin {FirstCopy(e), LastCopy(e)}
    <3>1. \A x \in Path(e) : inbox'[x] = inbox[x]
      BY <1>8, <2>3, Paths DEF Read, IInv, DataTypes
    <3>2. \A h \in {FirstCopy(e), LastCopy(e)} : pc'[h] = pc[h] /\ buf'[h] = buf[h]
      BY <1>8, <2>3, Paths DEF Read, Goto, IInv, DataTypes, ControlTypes
    <3> QED
      BY <1>0, <1>8, <3>1, <3>2, ElsewhereInFlow DEF Read, outer
  <2> QED
    BY <2>1, <2>2, <2>3
<1>9. ASSUME NEW g \in Copy, Write(g) PROVE Goal
  <2>1. CASE g = LastCopy(e)
    BY <1>0, <1>9, <2>1, WriteLastInFlow
  <2>2. CASE g = FirstCopy(e)
    BY <1>0, <1>9, <2>2, WriteFirstInFlow
  <2>3. CASE g \notin {FirstCopy(e), LastCopy(e)}
    <3>1. \A x \in Path(e) : inbox'[x] = inbox[x]
      BY <1>9, <2>3, Paths DEF Write, Put, IInv, DataTypes
    <3>2. \A h \in {FirstCopy(e), LastCopy(e)} : pc'[h] = pc[h] /\ buf'[h] = buf[h]
      BY <1>9, <2>3, Paths DEF Write, Goto, IInv, DataTypes, ControlTypes
    <3> QED
      BY <1>0, <1>9, <3>1, <3>2, ElsewhereInFlow DEF Write, outer
  <2> QED
    BY <2>1, <2>2, <2>3
<1>10. ASSUME NEW g \in Copy, ReadFails(g) \/ WriteFails(g) \/ Signal(g) PROVE Goal
  <2>1. g[1] \in End
    BY Copies
  <2>2. Cuts
    BY <1>10, <2>1, LoseCuts, UnchangedCuts DEF ReadFails, WriteFails, Signal
  <2>3. \A h \in Copy : Quiet(h)
    BY <1>10 DEF ReadFails, WriteFails, Signal, Goto, IInv, ControlTypes, DataTypes
  <2> QED
    BY <1>10, <1>quiet, <2>2, <2>3 DEF ReadFails, WriteFails, Signal, outer
<1>11. CASE UNCHANGED vars
  BY <1>11, <1>quiet, UnchangedCuts DEF vars, outer, copy
<1> QED
  BY <1>1, <1>2, <1>3, <1>4, <1>5, <1>6, <1>7, <1>8, <1>9, <1>10, <1>11 DEF Next

LEMMA FlowInit == Init => FlowInv
<1> SUFFICES ASSUME Init, NEW e \in Outer PROVE InFlow(e)
  BY DEF FlowInv
<1>1. /\ received[e] = <<>> /\ sent[Opposite(e)] = 0
      /\ \A x \in Path(e) : inbox[x] = <<>>
      /\ pc[FirstCopy(e)] = "none" /\ pc[LastCopy(e)] = "none"
  BY Paths DEF Init
<1>2. /\ Len(received[e]) = 0
      /\ \A x \in Path(e) : Len(inbox[x]) = 0 /\ \A n : Run(inbox[x], Opposite(e), n)
      /\ Run(received[e], Opposite(e), 0)
  BY <1>1 DEF Run
<1>3. /\ Arrived(e) = 0 /\ PastLast(e) = 0 /\ PastTunnel(e) = 0
      /\ PastFirst(e) = 0 /\ OnItsWay(e) = 0
  <2>1. /\ Len(inbox[e]) = 0 /\ Len(inbox[LastCopy(e)[1]]) = 0
        /\ Len(inbox[FirstCopy(e)[1]]) = 0
    BY <1>2 DEF Path
  <2>2. Held(FirstCopy(e)) = 0 /\ Held(LastCopy(e)) = 0
    BY <1>1 DEF Held
  <2>3. Arrived(e) = 0
    BY <1>2, <2>1 DEF Arrived
  <2> QED
    BY <2>1, <2>2, <2>3 DEF PastLast, PastTunnel, PastFirst, OnItsWay
<1> QED
  BY <1>1, <1>2, <1>3 DEF InFlow, ArrivedInOrder, LastInOrder, FirstInOrder, Path

LEMMA InOrderStep == IInv /\ FlowInv => InOrder
<1> SUFFICES ASSUME IInv, FlowInv, NEW e \in Outer
             PROVE  IsPrefixOf(received[e], Sent(Opposite(e)))
  BY DEF InOrder
<1> DEFINE o == Opposite(e)
           s == received[e]
           t == Sent(o)
<1>1. /\ s \in Seq(Chunk) /\ Len(s) \in Nat /\ sent[o] \in Nat
      /\ \A i \in 1 .. Len(s) : s[i] = <<o, i>>
      /\ Len(s) <= sent[o]
  <2>1. Len(inbox[e]) \in Nat /\ Arrived(e) = Len(s) + Len(inbox[e])
    BY Counts DEF Path, Arrived
  <2>2. Run(s, o, 0) /\ Arrived(e) <= sent[o]
    BY DEF FlowInv, InFlow, ArrivedInOrder
  <2>3. s \in Seq(Chunk) /\ Len(s) \in Nat /\ sent[o] \in Nat
    BY Counts
  <2>4. Len(s) <= sent[o]
    <3>1. \A i, j, k \in Nat : k = i + j /\ k <= sent[o] => i <= sent[o]
      BY <2>3
    <3> QED
      BY <2>1, <2>2, <2>3, <3>1, Counts
  <2>5. \A i \in 1 .. Len(s) : s[i] = <<o, i>>
    BY <2>2, <2>3 DEF Run
  <2> QED
    BY <2>3, <2>4, <2>5
<1>2. t \in Seq(Chunk) /\ Len(t) = sent[o]
  BY <1>1, Paths DEF Sent, Chunk
<1>3. SubSeq(t, 1, Len(s)) \in Seq(Chunk) /\ Len(SubSeq(t, 1, Len(s))) = Len(s)
  BY <1>1, <1>2, SubSeqProperties
<1>4. \A i \in 1 .. Len(s) : SubSeq(t, 1, Len(s))[i] = <<o, i>>
  BY <1>1, <1>2, SubSeqProperties DEF Sent
<1>5. s = SubSeq(t, 1, Len(s))
  BY <1>1, <1>3, <1>4, SeqEqual
<1> QED
  BY <1>1, <1>2, <1>5 DEF IsPrefixOf

-----------------------------------------------------------------------------
(* Nothing is left behind when a side closed. *)

\* What a step does to the ends that are closed, to the losses and to main.
LEMMA Monotonic ==
    ASSUME IInv, [Next]_vars
    PROVE  reset \subseteq reset' /\ shut \subseteq shut'
  BY DEF Next, vars, Send, Receive, CloseWrite, Break, OpenStream, DialLocal, AwaitOne, CloseEnds,
     AwaitOther, Read, ReadFails, Write, WriteFails, Signal, Shut, Lose

LEMMA PlaceStep ==
    ASSUME IInv, ShutByPlace, [Next]_vars
    PROVE  ShutByPlace'
<1> USE DEF ShutByPlace, outer, copy
<1>0. reset \subseteq reset'
  BY Monotonic
<1>1. ASSUME NEW e \in Outer, Send(e) PROVE ShutByPlace'
  BY <1>1 DEF Send, Reached, IInv, DataTypes
<1>2. ASSUME NEW e \in Outer, Receive(e) PROVE ShutByPlace'
  BY <1>2 DEF Receive
<1>3. ASSUME NEW e \in Outer, CloseWrite(e) PROVE ShutByPlace'
  BY <1>3 DEF CloseWrite, Outer
<1>4. ASSUME NEW e \in {"client", "rst", "base"}, Break(e) PROVE ShutByPlace'
  BY <1>0, <1>4 DEF Break
<1>5. CASE OpenStream
  BY <1>0, <1>5 DEF OpenStream, StartPipe, Shut, IInv, ControlTypes, Pipe, EndsOf
<1>6. CASE DialLocal
  BY <1>0, <1>6 DEF DialLocal, StartPipe, Shut, IInv, ControlTypes, Pipe, EndsOf
<1>7. ASSUME NEW p \in Pipe, AwaitOne(p) \/ AwaitOther(p) PROVE ShutByPlace'
  <2>1. \A q \in Pipe : \/ main'[q] = main[q]
                        \/ main[q] = "wait" /\ main'[q] = "close"
                        \/ main[q] = "drain" /\ main'[q] = "returned"
    BY <1>7 DEF AwaitOne, AwaitOther, IInv, ControlTypes
  <2>2. UNCHANGED <<shut, reset, sent>>
    BY <1>7 DEF AwaitOne, AwaitOther
  <2> QED
    BY <2>1, <2>2, Ends
<1>8. ASSUME NEW p \in Pipe, CloseEnds(p) PROVE ShutByPlace'
  BY <1>0, <1>8, Ends DEF CloseEnds, ClosesNext, Shut, IInv, ControlTypes
<1>9. ASSUME NEW g \in Copy, Read(g) \/ ReadFails(g) \/ Write(g) \/ WriteFails(g) \/ Signal(g)
      PROVE  ShutByPlace'
  BY <1>0, <1>9 DEF Read, ReadFails, Write, WriteFails, Signal
<1>10. CASE UNCHANGED vars
  BY <1>10 DEF vars
<1> QED
  BY <1>1, <1>2, <1>3, <1>4, <1>5, <1>6, <1>7, <1>8, <1>9, <1>10 DEF Next

\* A Pipe that Pipe has closed an end of is ending, one that was refused has
\* no copies.
LEMMA ShutEnds ==
    ASSUME IInv, ShutByPlace, reset = {}, NEW p \in Pipe, NEW x \in EndsOf[p], x \in shut
    PROVE  Ending(p) \/ (p = "connector" /\ main[p] = "refused" /\ x = "cst")
  BY Ends DEF ShutByPlace, Ending

LEMMA Refused ==
    ASSUME IInv, NEW p \in Pipe, main[p] = "refused", NEW g \in CopiesOf(p)
    PROVE  pc[g] = "none"
  BY Copies DEF IInv, SignalsCounted

\* The first of the copies of a Pipe ends because its reader is at the end.
LEMMA EndingStarts ==
    ASSUME IInv, ShutByPlace, [Next]_vars, reset' = {}, NEW p \in Pipe, ~Ending(p), Ending(p)'
    PROVE  \E g \in CopiesOf(p) :
              /\ pc[g] = "read" /\ inbox[g[1]] = <<>> /\ Peer[g[1]] \in shut
              /\ UNCHANGED <<inbox, reset, shut, sent, received, main>>
<1>0. reset = {}
  BY Monotonic
<1>1. \A g \in CopiesOf(p) : g[1] \in EndsOf[p] /\ g[2] \in EndsOf[p] /\ g \in Copy
  BY Copies, Ends DEF Up, Down
<1>2. ASSUME NEW g \in Copy, ReadFails(g), g \in CopiesOf(p)
      PROVE  pc[g] = "read" /\ inbox[g[1]] = <<>> /\ Peer[g[1]] \in shut
             /\ UNCHANGED <<inbox, reset, shut, sent, received, main>>
  <2>1. pc[g] = "read" /\ UNCHANGED <<shut, sent, received, main>>
    BY <1>2 DEF ReadFails, Goto, outer
  <2>2. ~Lose(g[1])
    BY <1>0, <1>1, <1>2 DEF Lose
  <2>3. Readable(g[1])
    BY <1>0, <1>1, <1>2, <2>1, ShutEnds, Refused DEF Readable
  <2> QED
    BY <1>0, <1>2, <2>1, <2>2, <2>3 DEF ReadFails, AtEOF
<1>3. ASSUME NEW g \in Copy, WriteFails(g), g \in CopiesOf(p) PROVE FALSE
  <2>1. pc[g] = "write" /\ g[2] \in shut
    BY <1>0, <1>3 DEF WriteFails, Goto, Writable
  <2> QED
    BY <1>0, <1>1, <1>3, <2>1, ShutEnds, Refused
<1>4. ASSUME NEW q \in Pipe, AwaitOne(q), q = p PROVE FALSE
  <2>1. Signalled(p) > 0
    BY <1>4 DEF AwaitOne, IInv, SignalsCounted, Taken, ControlTypes
  <2>2. pc[Up(p)] = "ended" \/ pc[Down(p)] = "ended"
    BY <2>1 DEF Signalled, One
  <2> QED
    BY <2>2, Copies DEF Ending
<1>5. ASSUME main'[p] \in {"close", "closeB", "drain", "returned"} => main[p] \in {"close", "closeB", "drain", "returned"},
             \A g \in CopiesOf(p) : pc'[g] \in {"signal", "ended"} => pc[g] \in {"signal", "ended"}
      PROVE  FALSE
  BY <1>5 DEF Ending
<1>6. ASSUME NEW e \in Outer, Send(e) \/ Receive(e) \/ CloseWrite(e) PROVE FALSE
  BY <1>5, <1>6 DEF Send, Receive, CloseWrite, copy
<1>7. ASSUME NEW e \in {"client", "rst", "base"}, Break(e) PROVE FALSE
  BY <1>5, <1>7 DEF Break, copy
<1>8. ASSUME OpenStream \/ DialLocal PROVE FALSE
  BY <1>1, <1>5, <1>8 DEF OpenStream, DialLocal, StartPipe, IInv, ControlTypes
<1>9. ASSUME NEW q \in Pipe, AwaitOne(q) \/ CloseEnds(q) \/ AwaitOther(q) PROVE FALSE
  BY <1>4, <1>5, <1>9 DEF AwaitOne, CloseEnds, AwaitOther, copy, IInv, ControlTypes
<1>10. ASSUME NEW g \in Copy, Read(g) \/ Write(g) \/ Signal(g) PROVE FALSE
  BY <1>1, <1>5, <1>10 DEF Read, Write, Signal, Goto, IInv, ControlTypes
<1>11. ASSUME NEW g \in Copy, ReadFails(g) \/ WriteFails(g), g \notin CopiesOf(p) PROVE FALSE
  BY <1>1, <1>5, <1>11 DEF ReadFails, WriteFails, Goto, IInv, ControlTypes
<1>12. ASSUME UNCHANGED vars PROVE FALSE
  BY <1>5, <1>12 DEF vars, copy
<1> QED
  BY <1>2, <1>3, <1>6, <1>7, <1>8, <1>9, <1>10, <1>11, <1>12 DEF Next

Back(g) == <<g[2], g[1]>>

LEMMA Sides ==
    ASSUME NEW e \in Outer
    PROVE  /\ FirstPipe(e) \in Pipe /\ LastPipe(e) \in Pipe
           /\ CopiesOf(FirstPipe(e)) = {FirstCopy(e), Back(FirstCopy(e))}
           /\ CopiesOf(LastPipe(e)) = {LastCopy(e), Back(LastCopy(e))}
           /\ EndsOf[FirstPipe(e)] = {FirstCopy(e)[1], FirstCopy(e)[2]}
           /\ EndsOf[LastPipe(e)] = {LastCopy(e)[1], LastCopy(e)[2]}
           /\ FirstPipe(e) = "connector" => e = "client" /\ Opposite(e) = "base"
           /\ Opposite(e) = "base" => e = "client" /\ FirstPipe(e) = "connector"
           /\ LastPipe(e) = "connector" => LastCopy(e)[1] = "cst"
           /\ FirstPipe(e) = "connector" => FirstCopy(e)[2] = "cst"
<1>1. CopiesOf(FirstPipe(e)) = {Up(FirstPipe(e)), Down(FirstPipe(e))}
      /\ CopiesOf(LastPipe(e)) = {Up(LastPipe(e)), Down(LastPipe(e))}
  BY Copies, Ends DEF FirstPipe, LastPipe
<1> QED
  BY <1>1, Ends DEF Outer, FirstPipe, LastPipe, FirstCopy, LastCopy, Back, Up, Down, Opposite

LEMMA IInvStep == IInv /\ [Next]_vars => IInv'
  BY DataStep, ControlStep DEF IInv

Counted == \A e \in Outer : Arrived(e) \in Nat /\ PastTunnel(e) \in Nat

LEMMA CountsStep == IInv /\ [Next]_vars => Counted'
<1>1. IInv => Counted
  BY Counts DEF Counted
<1>2. IInv' => Counted'
  BY <1>1, PTL
<1> QED
  BY <1>2, IInvStep

LEMMA RefusedStays ==
    ASSUME IInv, [Next]_vars, NEW p \in Pipe, main[p] = "refused"
    PROVE  main'[p] = "refused"
  BY DEF Next, vars, Send, Receive, CloseWrite, Break, OpenStream, DialLocal, StartPipe, AwaitOne,
     CloseEnds, AwaitOther, Read, ReadFails, Write, WriteFails, Signal, IInv, ControlTypes

LEMMA EndingStays ==
    ASSUME IInv, [Next]_vars, NEW p \in Pipe, Ending(p)
    PROVE  Ending(p)'
<1>1. CASE main[p] \in {"close", "closeB", "drain", "returned"}
  <2>1. main'[p] \in {"close", "closeB", "drain", "returned"}
    BY <1>1 DEF Next, vars, Send, Receive, CloseWrite, Break, OpenStream, DialLocal, StartPipe,
       AwaitOne, CloseEnds, AwaitOther, Read, ReadFails, Write, WriteFails, Signal, IInv, ControlTypes
  <2> QED
    BY <2>1 DEF Ending
<1>2. ASSUME NEW g \in CopiesOf(p), pc[g] \in {"signal", "ended"} PROVE Ending(p)'
  <2>1. \A q \in Pipe : main[q] = "start" => pc[Up(q)] = "none" /\ pc[Down(q)] = "none"
    BY DEF IInv, SignalsCounted
  <2>2. g \in Copy /\ pc[g] # "none" /\ pc[g] # "read" /\ pc[g] # "write"
    BY <1>2 DEF CopiesOf
  <2>3. ASSUME NEW q \in Pipe, main[q] = "start" PROVE g \notin CopiesOf(q)
    BY <2>1, <2>2, <2>3, Copies
  <2>4. ASSUME NEW q \in Pipe, main[q] = "start", StartPipe(q) PROVE pc'[g] = pc[g]
    BY <2>2, <2>3, <2>4 DEF StartPipe
  <2>5. pc'[g] \in {"signal", "ended"}
    <3>1. CASE OpenStream \/ DialLocal
      BY <1>2, <2>4, <3>1, Ends DEF OpenStream, DialLocal
    <3>2. CASE ~(OpenStream \/ DialLocal)
      BY <1>2, <2>2, <3>2 DEF Next, vars, copy, Send, Receive, CloseWrite, Break, AwaitOne, CloseEnds,
         AwaitOther, Read, ReadFails, Write, WriteFails, Signal, Goto, IInv, ControlTypes
    <3> QED
      BY <3>1, <3>2
  <2> QED
    BY <1>2, <2>5 DEF Ending
<1> QED
  BY <1>1, <1>2 DEF Ending

LEMMA OverStays ==
    ASSUME IInv, [Next]_vars, NEW o \in Outer, Over(o)
    PROVE  Over(o)' /\ sent'[o] = sent[o]
<1>1. Over(o)'
  BY Monotonic, RefusedStays, Ends DEF Over
<1>2. ~Send(o)
  BY DEF Over, Send, Writable, Reached
<1>3. ASSUME NEW e \in Outer, Send(e) PROVE sent'[o] = sent[o]
  BY <1>2, <1>3 DEF Send, IInv, DataTypes
<1>4. (\E e \in Outer : Send(e)) \/ sent' = sent
  BY DEF Next, vars, outer, Receive, CloseWrite, Break, OpenStream, DialLocal, AwaitOne,
     CloseEnds, AwaitOther, Read, ReadFails, Write, WriteFails, Signal
<1> QED
  BY <1>1, <1>3, <1>4

LEMMA OutOfLastStays ==
    ASSUME IInv, FlowInv, [Next]_vars, reset' = {}, NEW e \in Outer, OutOfLast(e)
    PROVE  OutOfLast(e)'
<1> DEFINE o == Opposite(e)
<1>1. Over(o)' /\ sent'[o] = sent[o]
  BY OverStays, Paths DEF OutOfLast
<1>2. Arrived(e)' >= Arrived(e) /\ Arrived(e)' <= sent'[o]
  BY FlowStep DEF Grows, InFlow, ArrivedInOrder
<1>3. Arrived(e) \in Nat
  BY Counts
<1>4. Arrived(e)' \in Nat
  BY CountsStep DEF Counted
<1>5. Arrived(e)' = sent'[o]
  BY <1>1, <1>2, <1>3, <1>4 DEF OutOfLast
<1> QED
  BY <1>1, <1>5 DEF OutOfLast
LEMMA OutOfFirstStays ==
    ASSUME IInv, FlowInv, [Next]_vars, reset' = {}, NEW e \in Outer, OutOfFirst(e),
           ~Ending(LastPipe(e))'
    PROVE  OutOfFirst(e)'
<1> DEFINE o == Opposite(e)
           l == LastCopy(e)
<1>1. Over(o)' /\ sent'[o] = sent[o]
  BY OverStays, Paths DEF OutOfFirst
<1>2. Carries(l)'
  <2>1. pc'[l] \in {"none", "read", "write", "signal", "ended"}
    BY IInvStep, Paths DEF IInv, ControlTypes
  <2>2. pc'[l] \notin {"signal", "ended"}
    BY Sides DEF Ending
  <2> QED
    BY <2>1, <2>2 DEF Carries
<1>3. PastTunnel(e)' >= PastTunnel(e) /\ PastTunnel(e)' <= sent'[o]
  BY <1>2, FlowStep DEF Grows, InFlow, LastInOrder
<1>4. PastTunnel(e) \in Nat /\ PastTunnel(e)' \in Nat
  BY Counts, CountsStep DEF Counted
<1>5. PastTunnel(e)' = sent'[o]
  BY <1>1, <1>3, <1>4 DEF OutOfFirst
<1> QED
  BY <1>1, <1>5 DEF OutOfFirst

LEMMA AllOutStep ==
    ASSUME IInv, FlowInv, ShutByPlace, AllOut, [Next]_vars
    PROVE  AllOut'
<1> SUFFICES ASSUME NEW e \in Outer, reset' = {}, e \notin shut'
             PROVE  /\ Ending(LastPipe(e))' => OutOfLast(e)'
                    /\ Ending(FirstPipe(e))' /\ ~Ending(LastPipe(e))' /\ main'[LastPipe(e)] # "refused"
                          => OutOfFirst(e)'
  BY DEF AllOut
<1> DEFINE o == Opposite(e)
           l == LastCopy(e)
           f == FirstCopy(e)
           lp == LastPipe(e)
           fp == FirstPipe(e)
<1>1. reset = {} /\ e \notin shut /\ lp \in Pipe /\ fp \in Pipe
  BY Monotonic, Sides
<1>2. /\ Ending(lp) => OutOfLast(e)
      /\ Ending(fp) /\ ~Ending(lp) /\ main[lp] # "refused" => OutOfFirst(e)
  BY <1>1 DEF AllOut
<1>3. InFlow(e) /\ Arrived(e) \in Nat /\ PastTunnel(e) \in Nat /\ sent[o] \in Nat
  BY Counts DEF FlowInv
<1>4. ASSUME Ending(lp)', ~Ending(lp) PROVE OutOfLast(e)
  <2>1. PICK g \in CopiesOf(lp) : pc[g] = "read" /\ inbox[g[1]] = <<>> /\ Peer[g[1]] \in shut
    BY <1>1, <1>4, EndingStarts
  <2>2. g # Back(l)
    BY <1>1, <2>1, Paths DEF Back
  <2>3. g = l
    BY <2>1, <2>2, Sides
  <2>4. main[lp] # "refused"
    BY <1>1, <2>1, Refused
  <2>5. f[2] \in shut /\ f[2] \in EndsOf[fp]
    BY <2>1, <2>3, Paths, Sides
  <2>6. CASE Ending(fp)
    <3>1. OutOfFirst(e)
      BY <1>2, <1>4, <2>4, <2>6
    <3>2. Len(inbox[l[1]]) = 0 /\ Held(l) = 0
      BY <2>1, <2>3 DEF Held
    <3>3. PastTunnel(e) = Arrived(e)
      BY <1>3, <3>2 DEF PastTunnel, PastLast
    <3> QED
      BY <3>1, <3>3 DEF OutOfFirst, OutOfLast
  <2>7. CASE fp = "connector" /\ main[fp] = "refused"
    <3>1. o = "base" /\ sent[o] = 0
      BY <2>7, Sides DEF ShutByPlace
    <3>2. Arrived(e) <= sent[o]
      BY <1>3 DEF InFlow, ArrivedInOrder
    <3>3. Arrived(e) = sent[o]
      BY <1>3, <3>1, <3>2
    <3> QED
      BY <2>7, <3>1, <3>3 DEF OutOfLast, Over
  <2> QED
    BY <1>1, <2>5, <2>6, <2>7, ShutEnds
<1>5. ASSUME Ending(fp)', ~Ending(fp), ~Ending(lp), main[lp] # "refused" PROVE OutOfFirst(e)
  <2>1. PICK g \in CopiesOf(fp) : pc[g] = "read" /\ inbox[g[1]] = <<>> /\ Peer[g[1]] \in shut
    BY <1>1, <1>5, EndingStarts
  <2>2. g # Back(f)
    <3>1. SUFFICES ASSUME g = Back(f) PROVE FALSE
      OBVIOUS
    <3>2. l[1] \in shut /\ l[1] \in EndsOf[lp]
      BY <2>1, <3>1, Paths, Sides DEF Back
    <3> QED
      BY <1>1, <1>5, <3>2, ShutEnds
  <2>3. g = f
    BY <2>1, <2>2, Sides
  <2>4. Over(o)
    BY <2>1, <2>3, Paths DEF Over
  <2>5. Carries(f) /\ Carries(l)
    <3>1. pc[l] \in {"none", "read", "write", "signal", "ended"} /\ pc[l] \notin {"signal", "ended"}
      BY <1>5, Paths, Sides DEF IInv, ControlTypes, Ending
    <3> QED
      BY <1>1, <2>1, <2>3, <3>1 DEF Carries
  <2>6. OnItsWay(e) = sent[o]
    BY <1>1, <1>3, <2>5 DEF InFlow, FirstInOrder
  <2>7. Len(inbox[f[1]]) = 0 /\ Held(f) = 0
    BY <2>1, <2>3 DEF Held
  <2>8. PastTunnel(e) = OnItsWay(e)
    BY <1>3, <2>7 DEF OnItsWay, PastFirst
  <2> QED
    BY <2>4, <2>6, <2>8 DEF OutOfFirst
<1>6. Ending(lp)' => OutOfLast(e)'
  BY <1>2, <1>4, OutOfLastStays
<1>7. ASSUME Ending(fp)', ~Ending(lp)', main'[lp] # "refused" PROVE OutOfFirst(e)'
  <2>1. ~Ending(lp) /\ main[lp] # "refused"
    BY <1>1, <1>7, EndingStays, RefusedStays
  <2>2. OutOfFirst(e)
    BY <1>2, <1>5, <1>7, <2>1
  <2> QED
    BY <1>7, <2>2, OutOfFirstStays
<1> QED
  BY <1>6, <1>7

LEMMA PlaceInit == Init => ShutByPlace /\ AllOut
<1> SUFFICES ASSUME Init PROVE ShutByPlace /\ AllOut
  OBVIOUS
<1>1. ShutByPlace
  BY DEF Init, ShutByPlace, Outer, Pipe, EndsOf
<1>2. ASSUME NEW p \in Pipe PROVE ~Ending(p)
  BY <1>2 DEF Init, Ending, CopiesOf
<1> QED
  BY <1>1, <1>2, Sides DEF AllOut

LEMMA FlowInductive == Spec => [](IInv /\ FlowInv /\ ShutByPlace /\ AllOut)
<1>1. IInv /\ FlowInv /\ [Next]_vars => FlowInv'
  BY FlowStep DEF FlowInv
<1>2. IInv /\ ShutByPlace /\ [Next]_vars => ShutByPlace'
  BY PlaceStep
<1>3. IInv /\ FlowInv /\ ShutByPlace /\ AllOut /\ [Next]_vars => AllOut'
  BY AllOutStep
<1> QED
  BY <1>1, <1>2, <1>3, FlowInit, PlaceInit, IInvInit, IInvStep, PTL DEF Spec

\* A run of all that was sent is what was sent.
LEMMA RunOfAll ==
    ASSUME NEW o \in Outer, NEW m \in Nat, sent[o] = m,
           NEW s \in Seq(Chunk), Run(s, o, 0), Len(s) = m
    PROVE  s = Sent(o)
<1>1. Sent(o) = [i \in 1 .. m |-> <<o, i>>]
  BY DEF Sent
<1>2. [i \in 1 .. m |-> <<o, i>>] \in Seq(Chunk) /\ Len([i \in 1 .. m |-> <<o, i>>]) = m
  BY DEF Chunk
<1>3. \A i \in 1 .. m : s[i] = <<o, i>>
  BY DEF Run
<1> QED
  BY <1>1, <1>2, <1>3, SeqEqual

LEMMA RunsJoin ==
    ASSUME NEW S, NEW s \in Seq(S), NEW t \in Seq(S), NEW o, NEW n \in Nat, n = Len(s),
           Run(s, o, 0), Run(t, o, n)
    PROVE  Run(s \o t, o, 0) /\ Len(s \o t) = Len(s) + Len(t)
<1>1. s \o t \in Seq(S) /\ Len(s \o t) = n + Len(t) /\ Len(t) \in Nat
  BY ConcatProperties, LenProperties
<1>2. ASSUME NEW i \in 1 .. Len(s \o t) PROVE (s \o t)[i] = <<o, 0 + i>>
  <2>1. CASE i <= n
    BY <1>1, <2>1, ConcatProperties DEF Run
  <2>2. CASE i > n
    <3>1. (s \o t)[i] = t[i - n] /\ i - n \in 1 .. Len(t)
      BY <1>1, <2>2, ConcatProperties
    <3> QED
      BY <3>1 DEF Run
  <2> QED
    BY <1>1, <2>1, <2>2
<1> QED
  BY <1>1, <1>2 DEF Run

LEMMA ClosedStep == IInv /\ FlowInv /\ ShutByPlace /\ AllOut => ClosedAfterLastByte
<1> SUFFICES ASSUME IInv, FlowInv, ShutByPlace, AllOut, NEW e \in Outer,
                    Peer[e] \in shut, e \notin shut, reset = {}
             PROVE  received[e] \o inbox[e] = Sent(Opposite(e))
  BY DEF ClosedAfterLastByte
<1> DEFINE o == Opposite(e)
<1>1. Ending(LastPipe(e))
  <2>1. LastCopy(e)[2] \in shut /\ LastCopy(e)[2] \in EndsOf[LastPipe(e)] /\ LastCopy(e)[2] # "cst"
    BY Paths, Sides DEF Outer, LastCopy
  <2> QED
    BY <2>1, ShutEnds, Sides
<1>2. Arrived(e) = sent[o]
  BY <1>1 DEF AllOut, OutOfLast
<1>3. /\ received[e] \in Seq(Chunk) /\ inbox[e] \in Seq(Chunk)
      /\ Run(received[e], o, 0) /\ Run(inbox[e], o, Len(received[e]))
      /\ sent[o] \in Nat /\ o \in Outer
  BY Counts, Paths DEF FlowInv, InFlow, ArrivedInOrder, Path
<1>4. Run(received[e] \o inbox[e], o, 0) /\ Len(received[e] \o inbox[e]) = sent[o]
      /\ received[e] \o inbox[e] \in Seq(Chunk)
  BY <1>2, <1>3, RunsJoin, LenProperties, ConcatProperties DEF Arrived
<1> QED
  BY <1>3, <1>4, RunOfAll

\* Whatever closes, fails or blocks, each side has received a prefix of what
\* the other side sent, through both Pipes, and nothing of another direction.
THEOREM InOrderCorrect == Spec => []InOrder
  BY InOrderStep, FlowInductive, PTL

\* When no connection was lost, a Pipe closes the connection of a side only
\* after all that the other side sent has arrived there.
THEOREM ClosedAfterLastByteCorrect == Spec => []ClosedAfterLastByte
  BY ClosedStep, FlowInductive, PTL
=============================================================================
