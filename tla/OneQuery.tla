------------------------------ MODULE OneQuery ------------------------------
(***************************************************************************)
(* What internal/dbexec promises its caller: one query at a time, a second *)
(* one is refused and not queued, and a query that succeeds answers with   *)
(* the first MaxRows rows of its result and says whether there were more.  *)
(***************************************************************************)
EXTENDS Naturals

CONSTANTS
    Query,      \* the calls of Execute
    MaxRows,    \* how many rows an answer may hold
    None

VARIABLES
    inFlight,   \* the call whose query runs
    total,      \* how many rows the result of each query has
    answer      \* what each call returned

vars == <<inFlight, total, answer>>

Answer(kind, rows, truncated) == [kind |-> kind, rows |-> rows, truncated |-> truncated]

NoAnswer == Answer("none", 0, FALSE)
Failed(kind) == Answer(kind, 0, FALSE)
Exact(n) == Answer("ok", IF n > MaxRows THEN MaxRows ELSE n, n > MaxRows)

Init ==
    /\ inFlight = None
    /\ total \in [Query -> Nat]
    /\ answer = [q \in Query |-> NoAnswer]

Return(q, a) ==
    /\ answer[q] = NoAnswer
    /\ answer' = [answer EXCEPT ![q] = a]
    /\ UNCHANGED total

Begin(q) ==
    /\ inFlight = None
    /\ answer[q] = NoAnswer
    /\ inFlight' = q
    /\ UNCHANGED <<total, answer>>

\* The guard of package dbexec does not let the query through.
Block(q) ==
    /\ inFlight # q
    /\ Return(q, Failed("blocked"))
    /\ UNCHANGED inFlight

Refuse(q) ==
    /\ inFlight \notin {q, None}
    /\ Return(q, Failed("busy"))
    /\ UNCHANGED inFlight

Finish(q) ==
    /\ inFlight = q
    /\ inFlight' = None
    /\ \E a \in {Exact(total[q]), Failed("error"), Failed("timeout")} : Return(q, a)

Next == \E q \in Query : Begin(q) \/ Block(q) \/ Refuse(q) \/ Finish(q)

Spec == Init /\ [][Next]_vars

\* A query that runs comes to an end.
FairSpec == Spec /\ \A q \in Query : WF_vars(Finish(q))
=============================================================================
