----------------------------- MODULE QueryExec -----------------------------
(***************************************************************************)
(* The query executor (internal/dbexec/exec.go): Execute step by step, the *)
(* context that limits it to 30 s, the deferred calls in the order they    *)
(* run, and the two goroutines that act when the context ends: the one     *)
(* queryReadOnly starts, which rolls the transaction back, and that of     *)
(* database/sql, which closes the rows.                                    *)
(*                                                                         *)
(* Rows are counted, not modelled.  The guard is only seen through its     *)
(* verdict, the database through what its calls return.                    *)
(***************************************************************************)
EXTENDS Naturals

CONSTANTS
    Query,      \* the calls of Execute (bounds their number)
    MaxRows,    \* dbexec.MaxRows
    RowBound,   \* no result has more rows (bounds the results)
    None        \* no call

ASSUME QueryAssumption == None \notin Query
ASSUME RowsAssumption == MaxRows \in Nat /\ RowBound \in Nat

VARIABLES
    pc,         \* where each call is
    running,    \* the call that holds the mutex
    engine,     \* whether the database of each call has read-only transactions
    total,      \* how many rows the result of each query has
    got,        \* len(out.Rows)
    truncated,  \* the calls with out.Truncated set
    ctx,        \* whether the context of each call has ended, and how
    txOpen,     \* the calls whose transaction is open at the server
    rowsOpen,   \* the calls whose query runs or sends rows at the server
    outcome     \* what each call returns

query == <<engine, got, truncated, outcome>>
server == <<txOpen, rowsOpen>>
vars == <<pc, running, total, ctx, query, server>>

-----------------------------------------------------------------------------
(***************************************************************************)
(* The places of a call, named for what it does next.  "close", "cancel"   *)
(* and "unlock" are its deferred calls.                                    *)
(***************************************************************************)
InTime == {"begin", "query", "read", "close", "cancel"}
Locked == {"plan", "unlock"} \cup InTime
PC == {"validate", "lock", "done"} \cup Locked

Goto(q, from, to) ==
    /\ pc[q] = from
    /\ pc' = [pc EXCEPT ![q] = to]

Says(q, what) == outcome' = [outcome EXCEPT ![q] = what]

\* friendly: once the deadline has passed, every error is called a timeout.
Fails(q) == Says(q, IF ctx[q] = "deadline" THEN "timeout" ELSE "error")

Live(q) == ctx[q] = "live"

Init ==
    /\ pc = [q \in Query |-> "validate"]
    /\ running = None
    /\ engine = [q \in Query |-> "plain"]
    /\ total \in [Query -> 0 .. RowBound]
    /\ got = [q \in Query |-> 0]
    /\ truncated = {}
    /\ ctx = [q \in Query |-> "live"]
    /\ txOpen = {}
    /\ rowsOpen = {}
    /\ outcome = [q \in Query |-> "none"]

-----------------------------------------------------------------------------
(* Execute. *)

Validate(q) ==
    /\ \/ Goto(q, "validate", "lock") /\ UNCHANGED outcome
       \/ Goto(q, "validate", "done") /\ Says(q, "blocked")
    /\ UNCHANGED <<running, total, engine, got, truncated, ctx, server>>

TryLock(q) ==
    /\ \/ /\ running = None
          /\ Goto(q, "lock", "plan")
          /\ running' = q
          /\ UNCHANGED outcome
       \/ /\ running # None
          /\ Goto(q, "lock", "done")
          /\ Says(q, "busy")
          /\ UNCHANGED running
    /\ UNCHANGED <<total, engine, got, truncated, ctx, server>>

\* dbinspect.Plan and sql.Open, which does not connect yet.
Plan(q) ==
    /\ \/ /\ Goto(q, "plan", "begin")
          /\ \E e \in {"transactions", "plain"} : engine' = [engine EXCEPT ![q] = e]
          /\ UNCHANGED outcome
       \/ /\ Goto(q, "plan", "unlock")
          /\ Says(q, "error")
          /\ UNCHANGED engine
    /\ UNCHANGED <<running, total, got, truncated, ctx, server>>

\* queryReadOnly: no query without a transaction where the engine has them.
Begin_orGoOn(q) ==
    /\ Goto(q, "begin", "query")
    /\ \/ engine[q] = "transactions" /\ Live(q) /\ txOpen' = txOpen \cup {q}
       \/ UNCHANGED txOpen
    /\ UNCHANGED <<running, total, query, ctx, rowsOpen>>
Begin(q) ==
    /\ \/ /\ engine[q] = "plain"
          /\ Goto(q, "begin", "query")
          /\ UNCHANGED <<txOpen, outcome>>
       \/ /\ engine[q] = "transactions"
          /\ Live(q)
          /\ Goto(q, "begin", "query")
          /\ txOpen' = txOpen \cup {q}
          /\ UNCHANGED outcome
       \/ /\ engine[q] = "transactions"
          /\ Goto(q, "begin", "cancel")
          /\ Fails(q)
          /\ UNCHANGED txOpen
    /\ UNCHANGED <<running, total, engine, got, truncated, ctx, rowsOpen>>

\* A query that fails is rolled back at once.
RunQuery(q) ==
    /\ \/ /\ Live(q)
          /\ Goto(q, "query", "read")
          /\ rowsOpen' = rowsOpen \cup {q}
          /\ UNCHANGED <<txOpen, outcome>>
       \/ /\ Goto(q, "query", "cancel")
          /\ txOpen' = txOpen \ {q}
          /\ Fails(q)
          /\ UNCHANGED rowsOpen
    /\ UNCHANGED <<running, total, engine, got, truncated, ctx>>

\* The rows arrive one at a time; the one after MaxRows only sets the flag.
ReadRow_noFlag(q) ==
    /\ q \in rowsOpen
    /\ got[q] < total[q]
    /\ \/ /\ got[q] < MaxRows
          /\ pc[q] = "read"
          /\ got' = [got EXCEPT ![q] = @ + 1]
          /\ UNCHANGED <<pc, outcome>>
       \/ /\ got[q] = MaxRows
          /\ Goto(q, "read", "close")
          /\ Says(q, "ok")
          /\ UNCHANGED got
    /\ UNCHANGED <<running, total, engine, truncated, ctx, server>>
ReadRow(q) ==
    /\ q \in rowsOpen
    /\ got[q] < total[q]
    /\ \/ /\ got[q] < MaxRows
          /\ pc[q] = "read"
          /\ got' = [got EXCEPT ![q] = @ + 1]
          /\ UNCHANGED <<pc, truncated, outcome>>
       \/ /\ got[q] = MaxRows
          /\ Goto(q, "read", "close")
          /\ truncated' = truncated \cup {q}
          /\ Says(q, "ok")
          /\ UNCHANGED got
    /\ UNCHANGED <<running, total, engine, ctx, server>>

\* rows.Next has closed the rows, and there was no error.
NoMoreRows(q) ==
    /\ q \in rowsOpen
    /\ got[q] = total[q]
    /\ Goto(q, "read", "close")
    /\ rowsOpen' = rowsOpen \ {q}
    /\ Says(q, "ok")
    /\ UNCHANGED <<running, total, engine, got, truncated, ctx, txOpen>>

\* A row that cannot be scanned, rows closed because the context ended, or a
\* connection that broke, and with it what the server had open.
ReadFails(q) ==
    /\ Goto(q, "read", "close")
    /\ Fails(q)
    /\ \/ UNCHANGED server
       \/ txOpen' = txOpen \ {q} /\ rowsOpen' = rowsOpen \ {q}
    /\ UNCHANGED <<running, total, engine, got, truncated, ctx>>

-----------------------------------------------------------------------------
(* The deferred calls of Execute, the last one first. *)

Close_forgotten(q) ==
    /\ Goto(q, "close", "cancel")
    /\ UNCHANGED <<running, total, query, ctx, server>>
Close(q) ==
    /\ Goto(q, "close", "cancel")
    /\ rowsOpen' = rowsOpen \ {q}
    /\ UNCHANGED <<running, total, query, ctx, txOpen>>

\* db.Close, which is next, waits for nobody.
Cancel(q) ==
    /\ Goto(q, "cancel", "unlock")
    /\ ctx' = IF Live(q) THEN [ctx EXCEPT ![q] = "cancelled"] ELSE ctx
    /\ UNCHANGED <<running, total, query, server>>

Unlock(q) ==
    /\ Goto(q, "unlock", "done")
    /\ running' = None
    /\ UNCHANGED <<total, query, ctx, server>>

-----------------------------------------------------------------------------
(* The context, and those who wait for it to end. *)

Timeout(q) ==
    /\ pc[q] \in InTime
    /\ Live(q)
    /\ ctx' = [ctx EXCEPT ![q] = "deadline"]
    /\ UNCHANGED <<pc, running, total, query, server>>

\* The page that asked goes away, and with it the context of its request.
Leave(q) ==
    /\ pc[q] # "done"
    /\ Live(q)
    /\ ctx' = [ctx EXCEPT ![q] = "cancelled"]
    /\ UNCHANGED <<pc, running, total, query, server>>

\* database/sql.
CloseRows(q) ==
    /\ ~Live(q)
    /\ q \in rowsOpen
    /\ rowsOpen' = rowsOpen \ {q}
    /\ UNCHANGED <<pc, running, total, query, ctx, txOpen>>

\* The goroutine of queryReadOnly, and that of database/sql, which is there
\* from the start of the transaction.  A rollback waits for the rows.
Rollback_atDeadline(q) ==
    /\ ctx[q] = "deadline"
    /\ q \in txOpen \ rowsOpen
    /\ txOpen' = txOpen \ {q}
    /\ UNCHANGED <<pc, running, total, query, ctx, rowsOpen>>
Rollback(q) ==
    /\ ~Live(q)
    /\ q \in txOpen \ rowsOpen
    /\ txOpen' = txOpen \ {q}
    /\ UNCHANGED <<pc, running, total, query, ctx, rowsOpen>>

-----------------------------------------------------------------------------
Next == \E q \in Query :
    \/ Validate(q)
    \/ TryLock(q)
    \/ Plan(q)
    \/ Begin(q)
    \/ RunQuery(q)
    \/ ReadRow(q)
    \/ NoMoreRows(q)
    \/ ReadFails(q)
    \/ Close(q)
    \/ Cancel(q)
    \/ Unlock(q)
    \/ Timeout(q)
    \/ Leave(q)
    \/ CloseRows(q)
    \/ Rollback(q)

Spec == Init /\ [][Next]_vars

\* Goroutines are scheduled and timers fire.  The database may leave a call
\* without an answer for as long as its context has not ended.
Fairness == \A q \in Query :
    /\ WF_vars(Validate(q) \/ TryLock(q) \/ Plan(q) \/ Cancel(q) \/ Unlock(q))
    /\ WF_vars(~Live(q) /\ (Begin(q) \/ RunQuery(q) \/ Close(q)))
    /\ WF_vars(q \notin rowsOpen /\ (ReadFails(q) \/ Close(q)))
    /\ WF_vars(Timeout(q))
    /\ WF_vars(CloseRows(q))
    /\ WF_vars(Rollback(q))

FairSpec == Spec /\ Fairness

-----------------------------------------------------------------------------
TypeOK ==
    /\ pc \in [Query -> PC]
    /\ running \in Query \cup {None}
    /\ engine \in [Query -> {"transactions", "plain"}]
    /\ total \in [Query -> 0 .. RowBound]
    /\ got \in [Query -> 0 .. MaxRows]
    /\ truncated \in SUBSET Query
    /\ ctx \in [Query -> {"live", "cancelled", "deadline"}]
    /\ txOpen \in SUBSET Query
    /\ rowsOpen \in SUBSET Query
    /\ outcome \in [Query -> {"none", "ok", "error", "timeout", "blocked", "busy"}]

-----------------------------------------------------------------------------
(* Properties that hold. *)

\* "One query at a time, as the product promises" (exec.go line 30): no query
\* runs or sends rows at a server unless its call holds the mutex, however the
\* deferred calls, the two goroutines and the end of the context interleave.
RowsOnlyUnderLock == \A q \in rowsOpen : running = q

\* "An engine that refuses the read-only transaction is not a reason to
\* silently run without one" (exec.go lines 121-122): where the engine has
\* them, no query runs at the server outside its read-only transaction.
ReadOnlyWhereSupported == \A q \in rowsOpen : engine[q] = "transactions" => q \in txOpen

\* "the transaction is rolled back" (exec.go line 130) after every call, also
\* one that succeeded, timed out, failed or was left by its page, although the
\* call returns without waiting for it.
ConnectionsReleased ==
    \A q \in Query : pc[q] = "done" ~> q \notin txOpen \cup rowsOpen

\* Execute keeps what OneQuery promises of it.
Answered(q) ==
    IF pc[q] # "done"        THEN [kind |-> "none", rows |-> 0, truncated |-> FALSE]
    ELSE IF outcome[q] = "ok" THEN [kind |-> "ok", rows |-> got[q], truncated |-> q \in truncated]
    ELSE [kind |-> outcome[q], rows |-> 0, truncated |-> FALSE]

One == INSTANCE OneQuery WITH
    inFlight <- running,
    answer   <- [q \in Query |-> Answered(q)]

ImplementsOneQuery == One!FairSpec
=============================================================================
