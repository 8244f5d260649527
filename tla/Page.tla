--------------------------------- MODULE Page ---------------------------------
(***************************************************************************)
(* The page of the connector (ui/index.html) as its event loop runs it:    *)
(* the handlers of its buttons between their awaits, in any order, against *)
(* the endpoints of the connector they wait for.  Queries are run by the   *)
(* executor of internal/dbexec, of which the page sees the promise         *)
(* OneQuery.                                                               *)
(*                                                                         *)
(* The SQL is named by the click that generated it, a result by the click  *)
(* that ran it.  The prompt, the tables and the messages are left out: the *)
(* early returns they lead to are the choice to stop.                      *)
(***************************************************************************)
EXTENDS Naturals

CONSTANTS
    Gen,        \* clicks on Generate (bounds their number)
    Run,        \* clicks on Run Query (bounds their number)
    MaxReloads, \* how often the page is reloaded
    None

ASSUME NoneAssumption == None \notin Gen \cup Run
ASSUME ReloadAssumption == MaxReloads \in Nat

VARIABLES
    (* what the page shows and remembers *)
    sql,            \* the generation whose SQL is shown
    result,         \* the run whose answer is in the result card
    offer,          \* the offer card is shown
    offerDone,
    genDisabled,
    runDisabled,
    (* its handlers *)
    gpc,            \* where each click on Generate is
    rpc,            \* where each click on Run Query is
    ran,            \* the SQL each click on Run Query sent
    opc,            \* where maybeOffer is
    (* the connector *)
    signedIn,       \* the store holds a key
    inFlight, total, answer,    \* the executor, see OneQuery
    (* history *)
    reloads,
    overlapped,     \* a click on Generate came during the sign-in check of another
    late,           \* "result" or "offer" was painted when what it is about had gone
    offers          \* how often this page showed the offer

Q == INSTANCE OneQuery WITH Query <- Run, MaxRows <- 1

shown == <<sql, result, offer, offerDone, genDisabled, runDisabled>>
handlers == <<gpc, rpc, ran, opc>>
executor == <<inFlight, total, answer>>
history == <<reloads, overlapped, late, offers>>
vars == <<shown, handlers, signedIn, executor, history>>

GenPC == {"idle", "asking", "yes", "no", "waiting", "sql", "error", "done"}
RunPC == {"idle", "waiting", "done", "left"}
OfferPC == {"idle", "asking", "free", "other"}

Init ==
    /\ sql = None
    /\ result = None
    /\ offer = FALSE
    /\ offerDone = FALSE
    /\ genDisabled = FALSE
    /\ runDisabled = FALSE
    /\ gpc = [g \in Gen |-> "idle"]
    /\ rpc = [r \in Run |-> "idle"]
    /\ ran = [r \in Run |-> None]
    /\ opc = "idle"
    /\ signedIn \in BOOLEAN
    /\ inFlight = None
    /\ total \in [Run -> 0..1]
    /\ answer = [r \in Run |-> Q!NoAnswer]
    /\ reloads = 0
    /\ overlapped = FALSE
    /\ late = {}
    /\ offers = 0

-----------------------------------------------------------------------------
(* The Generate button. *)

GenGoto(g, from, to) ==
    /\ gpc[g] = from
    /\ gpc' = [gpc EXCEPT ![g] = to]

HideResults_keepsOffer ==
    /\ result' = None
    /\ late' = {}
    /\ UNCHANGED offer
HideResults ==
    /\ result' = None
    /\ late' = {}
    /\ offer' = FALSE

\* Before the first await the button is still enabled.
ClickGenerate(g) ==
    /\ ~genDisabled
    /\ GenGoto(g, "idle", "asking")
    /\ overlapped' = (overlapped \/ \E o \in Gen : gpc[o] \in {"asking", "yes", "no"})
    /\ UNCHANGED <<shown, rpc, ran, opc, signedIn, executor, reloads, late, offers>>

\* GET /api/auth/status.
AuthStatus(g) ==
    /\ GenGoto(g, "asking", IF signedIn THEN "yes" ELSE "no")
    /\ UNCHANGED <<shown, rpc, ran, opc, signedIn, executor, history>>

\* Not signed in, no answer, or no table selected.
Stop(g) ==
    /\ GenGoto(g, "yes", "done") \/ GenGoto(g, "no", "done")
    /\ UNCHANGED <<shown, rpc, ran, opc, signedIn, executor, history>>

Send_enabled(g) ==
    /\ GenGoto(g, "yes", "waiting")
    /\ UNCHANGED <<shown, rpc, ran, opc, signedIn, executor, history>>
Send(g) ==
    /\ GenGoto(g, "yes", "waiting")
    /\ genDisabled' = TRUE
    /\ UNCHANGED <<sql, result, offer, offerDone, runDisabled, rpc, ran, opc, signedIn,
                   executor, history>>

\* POST /api/generate: SQL, or one of its errors.  A 401 clears the store.
Generate(g) ==
    /\ \/ signedIn /\ GenGoto(g, "waiting", "sql") /\ UNCHANGED signedIn
       \/ signedIn /\ GenGoto(g, "waiting", "error") /\ signedIn' \in BOOLEAN
       \/ ~signedIn /\ GenGoto(g, "waiting", "error") /\ UNCHANGED signedIn
    /\ UNCHANGED <<shown, rpc, ran, opc, executor, history>>

ShowSQL_noFinally(g) ==
    /\ \/ GenGoto(g, "sql", "done") /\ sql' = g /\ HideResults /\ genDisabled' = FALSE
       \/ GenGoto(g, "error", "done") /\ UNCHANGED <<sql, result, offer, late, genDisabled>>
    /\ UNCHANGED <<offerDone, runDisabled, rpc, ran, opc, signedIn, executor, reloads,
                   overlapped, offers>>
ShowSQL(g) ==
    /\ \/ GenGoto(g, "sql", "done") /\ sql' = g /\ HideResults
       \/ GenGoto(g, "error", "done") /\ UNCHANGED <<sql, result, offer, late>>
    /\ genDisabled' = FALSE
    /\ UNCHANGED <<offerDone, runDisabled, rpc, ran, opc, signedIn, executor, reloads,
                   overlapped, offers>>

NewQuery ==
    /\ sql' = None
    /\ HideResults
    /\ UNCHANGED <<offerDone, genDisabled, runDisabled, handlers, signedIn, executor, reloads,
                   overlapped, offers>>

-----------------------------------------------------------------------------
(* The Run Query button, which is shown with the SQL. *)

CanRun_whileRunning == sql # None
CanRun == sql # None /\ ~runDisabled

ClickRun(r) ==
    /\ CanRun
    /\ rpc[r] = "idle"
    /\ rpc' = [rpc EXCEPT ![r] = "waiting"]
    /\ ran' = [ran EXCEPT ![r] = sql]
    /\ runDisabled' = TRUE
    /\ UNCHANGED <<sql, result, offer, offerDone, genDisabled, gpc, opc, signedIn, executor,
                   history>>

\* POST /api/db/query: Execute, whether the page still waits for it or not.
Execute(r) ==
    /\ rpc[r] # "idle"
    /\ Q!Begin(r) \/ Q!Block(r) \/ Q!Refuse(r) \/ Q!Finish(r)
    /\ UNCHANGED <<shown, handlers, signedIn, history>>

\* maybeOffer begins with rows that came back.
Offers_eachTime(r) == answer[r].rows > 0
Offers(r) == answer[r].rows > 0 /\ ~offerDone

ShowResult(r) ==
    /\ rpc[r] = "waiting"
    /\ answer[r] # Q!NoAnswer
    /\ rpc' = [rpc EXCEPT ![r] = "done"]
    /\ result' = r
    /\ runDisabled' = FALSE
    /\ IF Offers(r) THEN offerDone' = TRUE /\ opc' = "asking"
                    ELSE UNCHANGED <<offerDone, opc>>
    /\ late' = IF ran[r] # sql THEN late \cup {"result"} ELSE late \ {"result"}
    /\ UNCHANGED <<sql, offer, genDisabled, gpc, ran, signedIn, executor, reloads,
                   overlapped, offers>>

\* GET /api/quota; offline, or with another plan, nothing is offered.
Quota ==
    /\ opc = "asking"
    /\ opc' \in IF signedIn THEN {"free", "other"} ELSE {"other"}
    /\ UNCHANGED <<shown, gpc, rpc, ran, signedIn, executor, history>>

ShowOffer ==
    /\ opc \in {"free", "other"}
    /\ opc' = "idle"
    /\ IF opc = "free"
       THEN /\ offer' = TRUE
            /\ offers' = offers + 1
            /\ late' = IF result = None THEN late \cup {"offer"} ELSE late \ {"offer"}
       ELSE UNCHANGED <<offer, offers, late>>
    /\ UNCHANGED <<sql, result, offerDone, genDisabled, runDisabled, gpc, rpc, ran, signedIn,
                   executor, reloads, overlapped>>

DismissOffer ==
    /\ offer
    /\ offer' = FALSE
    /\ UNCHANGED <<sql, result, offerDone, genDisabled, runDisabled, handlers, signedIn,
                   executor, history>>

-----------------------------------------------------------------------------
\* POST /api/auth from the sign-in tab, or POST /api/auth/logout.
SignInOrOut ==
    /\ signedIn' = ~signedIn
    /\ UNCHANGED <<shown, handlers, executor, history>>

\* The page starts over.  What its handlers waited for is nobody's any more; a
\* query that runs is told through its context, and ends when it sees it.
Reload ==
    /\ reloads < MaxReloads
    /\ reloads' = reloads + 1
    /\ sql' = None
    /\ HideResults
    /\ offerDone' = FALSE
    /\ genDisabled' = FALSE
    /\ runDisabled' = FALSE
    /\ gpc' = [g \in Gen |-> IF gpc[g] = "idle" THEN "idle" ELSE "done"]
    /\ rpc' = [r \in Run |-> IF rpc[r] = "idle" THEN "idle" ELSE "left"]
    /\ opc' = "idle"
    /\ overlapped' = FALSE
    /\ offers' = 0
    /\ UNCHANGED <<ran, signedIn, executor>>

GenStep(g) == AuthStatus(g) \/ Stop(g) \/ Send(g) \/ Generate(g) \/ ShowSQL(g)

Next ==
    \/ \E g \in Gen : ClickGenerate(g) \/ GenStep(g)
    \/ NewQuery
    \/ \E r \in Run : ClickRun(r) \/ Execute(r) \/ ShowResult(r)
    \/ Quota
    \/ ShowOffer
    \/ DismissOffer
    \/ SignInOrOut
    \/ Reload

Spec == Init /\ [][Next]_vars

(***************************************************************************)
(* The event loop of the page runs every handler whose answer is there,    *)
(* and every request is answered: a generation ends after 45 s, a query    *)
(* after 30 s, and the others at once.  Nobody has to click.               *)
(***************************************************************************)
Fairness ==
    /\ \A g \in Gen : WF_vars(GenStep(g))
    /\ \A r \in Run : WF_vars(Execute(r)) /\ WF_vars(ShowResult(r))
    /\ WF_vars(Quota \/ ShowOffer)

FairSpec == Spec /\ Fairness

-----------------------------------------------------------------------------
TypeOK ==
    /\ sql \in Gen \cup {None}
    /\ result \in Run \cup {None}
    /\ offer \in BOOLEAN /\ offerDone \in BOOLEAN
    /\ genDisabled \in BOOLEAN /\ runDisabled \in BOOLEAN
    /\ signedIn \in BOOLEAN /\ overlapped \in BOOLEAN
    /\ gpc \in [Gen -> GenPC]
    /\ rpc \in [Run -> RunPC]
    /\ ran \in [Run -> Gen \cup {None}]
    /\ \A r \in Run : rpc[r] # "idle" => ran[r] # None
    /\ opc \in OfferPC
    /\ inFlight \in Run \cup {None}
    /\ reloads \in 0..MaxReloads
    /\ late \in SUBSET {"result", "offer"}
    /\ offers \in Nat

\* What is shown below the SQL is about that SQL.  The exception is what comes
\* in after the user has moved on: the answer of a query is painted whatever
\* the page shows by then, and so is the offer (index.html lines 499, 535).
\* Neither outlives the next change of the SQL (hideResults, lines 461-466).
ResultOfShownSQL ==
    /\ result # None => ran[result] = sql \/ "result" \in late
    /\ offer => result # None \/ "offer" \in late

\* Whoever is told that "a query is already running" has reloaded the page
\* during it: in one page, the button is disabled from the click until the
\* executor has let go of the query (index.html lines 481, 504, exec.go 42-45).
BusyOnlyAfterReload ==
    [][\A r \in Run : answer[r] # Q!Failed("busy") /\ answer'[r] = Q!Failed("busy") =>
            rpc[inFlight] = "left" \/ rpc[r] = "left"]_vars

\* The button is disabled while a generation is under way, so that there is
\* never a second one, except for clicks that fell into the sign-in check of
\* each other (index.html lines 414-418, 448).
OneGenerationAtATime ==
    ~overlapped =>
        \A g, o \in Gen :
            gpc[g] \in {"waiting", "sql", "error"} =>
                /\ genDisabled
                /\ gpc[o] \in {"idle", "done"} \/ o = g

\* The offer is made at most once by a page, and only after a query of that
\* page came back with rows (index.html lines 509-517).
OfferIsEarned ==
    /\ offers <= 1
    /\ offers = 1 => \E r \in Run : rpc[r] = "done" /\ answer[r].rows > 0

\* Neither button stays disabled, whichever way its handler ends
\* (index.html lines 447-450, 503-506).
ButtonsReturn ==
    /\ []<>(~genDisabled)
    /\ []<>(~runDisabled)
=============================================================================
