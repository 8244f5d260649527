# A verification project for the AI2SQL Connector

The AI2SQL Connector makes a database on a user's machine reachable from the
AI2SQL cloud and runs generated SQL against it, read-only.  This directory
holds TLA+ models of the parts of it where order, concurrency and failure
matter, the TLC configurations that check them on small instances, and proofs
for the results that should hold for instances of any size.

Model-check with `tlc -config X.cfg M` and prove with `tlapm M.tla`.
`PROJECT.json` lists the runs, which source lines each definition stands for,
for every property a plausible bug that breaks it, the hazards and the findings.

## 1. The system

    user's machine                              cloud
    UI page --HTTP-- connector ==WebSocket== relay --HTTP-- backend
                      |    |       (yamux)     |
                 auth file |              one TCP port
                       local DB           per tunnel

| part | source | state | operations |
|---|---|---|---|
| relay, control plane | `cmd/relay/main.go` | the table of pairing codes; per pairing the session, the listener, the address | `/pair`, `/ws` (`handleWS`), `/tunnel/{code}`, `teardown`, `reapLoop` |
| relay, data plane | `cmd/relay/main.go` `acceptLoop`, `internal/tunnel` `Pipe` | a stream and two copying goroutines per public connection | accept, open stream, copy, close |
| tunnel protocol | `internal/tunnel/proto.go` | none | `Hello`, `HelloReply`, `Session`, `ReadJSON`, `WriteJSON` |
| connector, tunnel manager | `cmd/connector/main.go` | `struct state`, one goroutine per `runTunnel` | `/api/connect`, `/api/disconnect`, `/api/status`, `runTunnel`, `serveOnce` |
| connector, HTTP API and start | `cmd/connector/main.go` | none of its own | sign-in, quota, inspect, query, generate, second launch |
| account store | `internal/auth` | credentials in memory and in a file | `NewStore`, `Get`, `Set`, `Clear` |
| analytics | `internal/analytics` | user id, install id, aliased | `SetUser`, `Track` |
| update check | `internal/update` | the status | `Check`, `compare` |
| query guard | `internal/dbexec/guard.go` | none | `strip`, `splitStatements`, `Validate` |
| query executor | `internal/dbexec/exec.go` | the mutex `running`; connection, transaction and rows of a query | `Execute`, `queryReadOnly`, `friendly` |
| schema reader | `internal/dbinspect/inspect.go` | none | `Plan`, `Inspect`, `SchemaString` |
| error classes | `internal/dbinspect/errclass.go` | none | `Classify`, `Shape` |
| UI page | `ui/index.html` | what the page shows | one handler per button |

How they interact.  The backend asks the relay for a code (`/pair`) and polls
`/tunnel/{code}` for its address.  The user types the code into the page, the
connector dials the relay, sends a hello with the code, reads one reply, and
from then on the WebSocket carries a yamux session; the relay opens a stream
on it for each connection that arrives at the public port, and the connector
joins the stream to a local database.  Independently of the tunnel, the page
asks the connector for SQL (`/api/generate`, with the stored key) and runs it
(`/api/db/query`).

What is hard:

* `handleWS` checks a code, listens and records in separate critical sections,
  and tears down what the pairing records *then*; the reaper and the status
  poll run between any two of its steps;
* cancelling a tunnel of the connector is only a request: several calls of
  `runTunnel` overlap and write one shared status;
* the two programs learn of a broken connection at different times;
* the account store writes its file after it released its lock, several
  launches share the file, and answers of the API arrive after the sign-in
  they are about was replaced;
* a query's transaction is rolled back by a goroutine nobody waits for, and
  the deadline may pass, or the page leave, between any two steps;
* a handler of the page reads the page before an await and writes it after one,
  by when other handlers have run;
* the guard reads comments, literals and escapes with look-ahead, and must be
  right at the end of a text too; it has one dialect for four engines.

What makes each part correct:

* relay: an address on show has a session, a held port and a goroutine that
  will free it; a code is used by one connector; nothing is left behind;
* tunnel manager: at most one wanted tunnel, which the buttons reach; a
  cancelled one ends; the status comes to rest on the truth;
* both together: what the user sees agrees with what the backend is told;
* account store: the install id is kept, the file follows the memory, an
  answer is applied to the sign-in it is about;
* executor: one query at a time, read-only where possible, an exact result or
  an error, everything released;
* data plane: bytes in order, both ends closed when one is;
* page: what is shown below the SQL is about it, one generation and one query
  at a time, buttons that come back;
* guard, update check, schema reader, error classes: the operator computes its
  reference.

## 2. The modules

| module | models | how |
|---|---|---|
| `Relay` | control plane of the relay | one action per critical section of a handler; `MCRelay` is its TLC instance |
| `Connector` | tunnel manager of the connector | one action per step of `runTunnel` and `serveOnce` between two writes of the shared state |
| `System` | both, joined by hello, reply and end of connection | instances of the two modules, whose actions get the guards the network puts on them |
| `Credentials` | account store and its users | one action per critical section, per half of `os.WriteFile`, per API answer; `MCCredentials` is its TLC instance |
| `OneQuery` | what the executor promises its caller | the abstract specification: begin, block, refuse, finish |
| `QueryExec` | the executor | one action per call into the database, per deferred call, per goroutine that waits for the context |
| `DataPlane` | one public connection through both `Pipe`s | one action per read, write, signal and close of a goroutine, and per step of the two sides |
| `Page` | the page's buttons against the connector's endpoints | one action per piece of a handler between two awaits, and per answer; queries are `OneQuery` |
| `Strings` | what Go's `strings` does to sequences | operators |
| `Guard` | the read-only guard | operators on sequences of symbols |
| `Version` | the update check | operators on sequences of parts |
| `Schema` | the outline of a schema and the context made of it | operators on sequences of rows |
| `Errors` | rewording, classes and skeletons of errors | operators on sets of phrases and sequences of symbols |
| `Texts` | inputs and reference definitions of the last four | a state is one input, a step appends a symbol |
| `RelayProofs`, `ConnectorProofs`, `SystemProofs`, `CredentialsProofs`, `QueryExecProofs`, `DataPlaneProofs`, `PageProofs`, `TextsProofs` | | the theorems |

### Relay

A `Handler` is one `/ws` request; the session, the listener and the address
it creates are named by it, so that "the pairing records handler h's port"
can be said.  `pairings`, `sess`, `listener`, `publicAdr` are the fields of
`relay` and `pairing`; `sessOpen` and `lnOpen` say what is really open;
`stale` stands for `expired()`, a clock that has passed 15 minutes.  A place
(`pc`) of a handler is named for what it does next.  The reaper holds the
table's lock over a whole round and takes each pairing's lock in turn:
`ReapTick` and `ReapVisit`, with `RMuFree` guarding everyone else who needs the
table.  The poll is a lookup and a read under two locks.

### Connector

A `Task` is one call of `runTunnel`.  `current` stands for `st.cancel`,
`publicAddr` for the address of the task that wrote it.  The cancellation of
a context is a flag that a task sees only where the code looks at it:
`ctx.Err()` after `serveOnce`, the select of the backoff, and the calls that
take the context.  `Reply` may also fail without a cancellation, and has no
deadline.  The attempt counter and the durations are left out.

### System

`link` joins a task to the connection it has open, `reply` is what the relay
has written on it, `cut` the connections nothing passes on any more.  A side
sees the end of its session only after the other side closed it or the
connection was cut.  The relay's own steps that no connection causes, `/pair`, the
passing of 15 minutes and the reaper, are `RelayAlone`.  The status poll and
the local dials are left out, since no other step depends on them.  `served`
is a history variable.

### Credentials

A launch is one process with a store of its own over the shared file.  A
goroutine (`Op`) is a handler or the background revalidation.  The file is
truncated and then written, so two writers may interleave; the result is
decided by the lengths of the texts (`Overlay`): a shorter text over a longer
one leaves a tail and no valid JSON (`Torn`), which `NewStore` takes for "not
signed in".  `clean` and `identity` are history variables: whether writes or
launches ever overlapped, and the first install id.

### QueryExec

A `Query` is one call of `Execute`.  Rows are counted.  `engine` is what
`dbinspect.Plan` decided: PostgreSQL and MySQL have read-only transactions,
SQL Server and Oracle do not.  `txOpen` and `rowsOpen` are the state at the
database's side.  The deferred calls are places of their own, in the order
they run: rows, context (with `db.Close`, which waits for nobody), mutex.
`CloseRows` is what database/sql does with the rows of a context that ended.

### DataPlane

    client -- pub [Pipe] rst ==tunnel== cst [Pipe] loc -- base

A connection of `acceptLoop` shares nothing with the others but the session,
so one is modelled.  A chunk is what one `Read` returns.  `main` is the
goroutine that calls `Pipe` (or closes instead, when `Open` or the dial
fails), `pc` and `buf` are the four copies, `done` counts the signals in each
channel.  What a connection does is external: a closed TCP connection cannot
be read and is reset when data was unread, a closed yamux stream can still be
read, a write blocks while the other end has `Window` chunks unread, a reset
drops some of what was under way.  The end of a session is a lost stream.

### Page

The SQL on show is named by the click on Generate that made it, a result by the
click on Run Query that asked for it.  `gpc`, `rpc` and `opc` say for each
handler what it waits for; between two awaits it runs alone, as JavaScript
does.  `AuthStatus`, `Generate`, `Quota` and `Execute` are the connector's
side; `signedIn` stands for the key in the account store.  A reload forgets the
page and its handlers; a query in the executor goes on until it sees its
context.  `overlapped`, `late` and `offers` are history variables.

### Guard, Version, Schema, Errors

What these compute has no order in time, so they are operators, and `Texts`
makes TLC visit every input.  A text is a sequence of symbols: the punctuation
the code tells apart is itself, a word is one symbol, and two word symbols side
by side are one identifier, so that `exp_date` does not begin with `xp_`.  Digits
in identifiers and letter case are left out.  A version is cut into parts and
pieces; a table is a number in the order of `sort.Strings`; an error is the set
of phrases its text contains, or, for `Shape`, a sequence of symbols.  The
references in `Texts` are written another way than the code: the guard's is a
reader of its own dialect with a mode that takes one symbol at a time, that of
the versions reads
a version as a number, that of `Shape` is a set of positions, that of the outline
the rows themselves.  A reference takes the lexical rules from the code where
no other text gives them: a comment ends at the first `*/`, `[` opens a literal,
a backslash escapes or not.  So the results about the guard are that it finds
the code, the words and the statements of its dialect, not that this is the
dialect of an engine (see section 5).

## 3. The runs

| run | bounds | shows |
|---|---|---|
| `relay_safety` | 2 codes, 2 pairings, 3 connections, symmetric | `TypeOK`; `AddressHasKeeper`, `SoleConnectorFreesPort`, `SoleConnectorKeepsPort`: what a pairing shows stays consistent, a connection alone with its code neither loses nor leaks its port; `StatusTruthful`: an address given to the backend is live at that moment; `ExpiredStaysDead`: a dead code is not revived by a hello that looked it up in time |
| `connector` | 2 tasks | `OneLiveTask`, `AddressOfLiveTunnel`, `CancelledEnds`, `Settles`, `RetriesAfterDrop` |
| `system` | 1 code, 1 pairing, 2 connections, 1 task | `ConnectedIsRecorded`, `ShownAddressIsHeld`: both programs agree; `EndReachesRelay`: a disconnect or a cut ends the relay's goroutine wherever it was; `Reaped`: an abandoned code leaves the table |
| `credentials` | 2 accounts, 3 launches, 2 goroutines, symmetric | `InstallKept`, `OneMachineOneInstall`, `FileFollowsMemory` |
| `data_plane` | 2 chunks from the client, 1 from the database, room for 1 chunk per hop, one spontaneous loss | `InOrder`, `ClosedAfterLastByte`: what arrives is in order, and whole when a side closed and nothing was lost; `NothingLeft`, `PipeReturns`: as long as no side stays connected without reading, every `Pipe` on the way returns, and leaves no goroutine or connection |
| `query` | 2 calls, at most 2 rows of results of up to 3 | `RowsOnlyUnderLock`, `ReadOnlyWhereSupported`, `ConnectionsReleased`, `ImplementsOneQuery` |
| `texts` | texts of up to 6 symbols of punctuation or 5 of words; 3 versions of up to 2 parts; 4 rows of 3 tables; 2 wrapped messages; error texts of up to 5 symbols | `StripIsOneReading`, `VerdictIsExact`, `NoSchemaWordLeaves`, `VersionsAgree`, `OutlineIsWhole`, `FailureKeepsItsClass`, `ShapeDropsValues`: what is computed is what its reference computes, for every such input |
| `page` | 2 clicks on each button, 1 reload | `ResultOfShownSQL`, `OneGenerationAtATime`, `OfferIsEarned`, `BusyOnlyAfterReload`: what is shown belongs together, one generation and one query at a time; `ButtonsReturn`: no button stays disabled |

The type invariants of `System`, `Credentials`, `QueryExec` and `Page` are
proved, and no run checks them again.

That the address of a connector that left is withdrawn needs no property of its
own: by `EndReachesRelay` no goroutine of such a connector is left, and by
`AddressHasKeeper` a pairing without one shows no address.

Runs that end in a counterexample, because a comment says more than the code
does:

| run | property | what happens |
|---|---|---|
| `relay_port_closed_early` | `PortLivesWithConnector` ("for as long as the connector stays up") | a connector comes back before the old handler has torn down; the late teardown closes the new port and session.  The same race leaves a port behind ("free the port so it cannot linger"): of two connectors that both pass the in-use check, the first is overwritten and its listener outlives its handler |
| `connector_served_is_shown` | `ServedIsShown` ("so the UI can show") | a cancelled tunnel notices late and writes idle over the status of its successor, which serves on unseen |
| `system_drop_retried` | `DropIsRetried` ("on any drop retry") | the connector notices a drop before the relay, is refused as a second user of its own code, and gives up |
| `credentials_answer` | `AnswerIsForStoredKey` ("a revoked key signs itself out") | a 401 for the old key arrives after a new sign-in and clears it; a revalidation puts the old account beside the new key |

### The bounds and why they are enough

* Relay: two connections race for one pairing, and a third meets what the race
  left; two codes are needed for the reaper's walk, two pairings for a code
  that is drawn again.  Every safety property is also proved for all sizes.
* Connector: overlapping needs a cancelled and a current task.  The safety
  properties are proved for any number of tasks.
* System: two connections are a drop and the reconnect; the code expires and
  is reaped beside them.
* Credentials: three launches are the first, its overlap with a second, and a
  restart that reads what they left; two goroutines are two writers.
* QueryExec: 0 to 3 rows with `MaxRows` 2 are below, at and above the limit;
  one call can hold the mutex and one be refused.
* Texts: five symbols after the first word hold a literal that is opened,
  escaped or doubled, closed, and followed by a separator or a word; five words
  and separators hold two statements.  Two parts are a version and a longer one.
  Four rows mix three tables.
* Page: two clicks overlap, a reload leaves one query behind and a second meets
  it.  The safety properties are proved for any number of clicks.
* DataPlane: with room for one chunk per hop, the client's second chunk can
  be read and unwritten while the first waits at the next hop; one chunk the
  other way is enough for an answer that crosses a close.  Losses are
  spontaneous once, and follow from closes any number of times.

Deadlock is not checked in `Credentials`, `QueryExec`, `DataPlane`, `Page` and
`Texts`: the launches, the calls, the connection, the clicks and the symbols
are used up.

### Fairness

Fairness is stated for what the runtime does by itself, and for nothing a
user, a peer or a database decides.

* A goroutine that can run does (the Go scheduler); the reaper's ticker
  ticks; time passes.
* `Connector`: waiting for the reply and serving end for certain only when
  the context is cancelled, which closes the WebSocket.  Without it the relay
  may leave the connector waiting: `serveOnce` sets no deadline there.
* `System`: a broken connection is noticed, by yamux's keepalive once there
  is a session and by that of TCP before.  The reaper ticks, and the 15 minutes
  of a code pass.
* `QueryExec`: the 30 s timer fires.  The database may leave a call
  unanswered until the context has ended; then the driver returns.
* `Page`: the browser runs a handler whose answer is there, and the connector
  answers: a generation within 45 s, a query within 30 s, the rest at once.
  Clicks, sign-ins and reloads have no fairness.
* `DataPlane`: the goroutines run, a dial ends (10 s), and a yamux stream that
  was closed is given up in the end.  The client and the database need not
  read.  What they do is a condition in the formula of `PipeReturns`: it is
  about behaviours in which no side stays connected and leaves something
  unread for good (`ReadsOn`).

No fairness is assumed of pairings, hellos, connects, disconnects, drops,
sign-ins or answers of the API.

## 4. The proofs

All theorems hold for every value of the constants; what they assume is
that the names are apart (`NoneAssumption`, `FileAssumption`,
`QueryAssumption`), that the bounds are naturals (`RowsAssumption`,
`BoundsAssumption`, `MaxIntAssumption`, `TablesAssumption`, and
`PartsAssumption`, by which a version has at least one part), and that the words
of the guard are no separators and its user's identifiers none of the words it
lists (`VocabularyAssumption`).

* **Relay** (`TypeCorrect` and the theorems after it).  `AddressHasKeeper`
  and `SoleConnectorFreesPort` are not inductive: whether a returning handler
  closes its own port depends on the pairing still recording it.  `IInv` adds
  `OpenByPlace` (what a handler has open, by where it is) and
  `SoleIsRecorded` (a connection alone with its code is the one recorded).
  The three action properties `StatusTruthful`, `ExpiredStaysDead` and
  `SoleConnectorKeepsPort` follow from the same invariant, action by action.
* **Connector.**  `OneLiveTask` and `AddressOfLiveTunnel` are inductive once
  only started tasks can be cancelled (`CancelledStarted`).  `MoveStep`
  covers every step that only moves a task on.
* **System.**  Every step of `System` is a step of `Relay` or leaves its
  variables alone, and likewise for `Connector` (`ImplementsRelay`,
  `ImplementsConnector`), so their invariants are taken over.
  `ConnectedIsRecorded` and `ShownAddressIsHeld` follow from `LinkInv`: which
  connection a task has at which place, and that an accepting reply is
  written only by a handler that has recorded.
* **Credentials.**  `InstallKept` needs `CarriesInstall`: what a goroutine is
  about to store already carries the install id of the memory it goes to.
  `OneMachineOneInstall` and `FileFollowsMemory` need `CleanInv`: while
  nothing overlaps there is one launch and one writer, and a file that is
  empty has one who will write it.
* **QueryExec.**  `RowsPlace` (rows are open only while they are read or
  closed), `LockHeld`, `TxBegun` (a transaction lives as long as its context)
  and `ResultSoFar` (what a call has to return at each place) make the
  invariants inductive.  `Implements` maps the holder of the mutex to
  `inFlight` and what finished calls return to `answer`: only `TryLock`,
  `Unlock` and the refusals of `Validate` and `TryLock` are steps of `OneQuery`.
* **Page.**  `IInv` adds to the properties what each rests on: `GenInv` (while no
  click fell into another's sign-in check, one handler at most is open),
  `RunInv` (one query is waited for, with the button disabled, and a handler that
  ended had its answer), `ResultInv` (what is on show has been answered) and
  `OfferInv` (who asks for the quota has not offered yet, and has rows).
  `ExecuteStep` says what the page may assume of `OneQuery`.
* **DataPlane.**  That `done` holds at most two signals, and that a `Pipe`
  that returned has no goroutine left, both follow from `SignalsCounted`: the
  signals in the channel and those taken are together the copies that have
  ended.  `ClosedByPlace` adds which ends are closed at each place of `Pipe`.
  `InOrder` and `ClosedAfterLastByte` hold for any number of chunks and any
  window.  They are not inductive: a chunk out of order may still be on its
  way.  `FlowInv` says, for each outer side, that the chunks it received, those in
  its inbox and those in each buffer and inbox on the way to it follow one
  another without a gap, as far back as the copies still pass on what they read
  (`Carries`), and reach up to the last one sent if the sender has not lost its
  connection.  `AllOut` and `ShutByPlace` add that, without losses, a `Pipe`
  passes the end on only when nothing is left before it.
* **Texts.**  The pure modules, for texts, errors and versions of any length
  and lists of any words.  No theorem of the library that takes a predicate
  can be used, so induction comes from one fact, `LeastNatural` (a set of
  naturals that is not empty has a least member, by well-foundedness); `UpTo`
  and `DownFrom` are that fact as induction over an interval, and `Recursion`
  and `Iteration` show that the recursive functions of `Guard` and `Texts`
  exist and satisfy their equations.
  - `StripIsOneReading`: `strip` jumps, the reader goes on symbol by symbol.
    `Together` says that at a position both stand outside any literal or
    comment with the same code behind them; `GoOnTogether` leads from one such
    position to the next, and `StripIsCode` to the end.
  - `VerdictIsExact`: `Words` and `SplitStatements` cut, `Harmless` speaks of
    positions.  `WordsAre` and `StatementsAre` say at which positions what they
    return begins (`Begins`, `IsStatement`), and `PassesWhen` compares rule by rule.
  - `NoSchemaWordLeaves`: each rule that rejects reports a word of the lists
    (`ReportsListedWords`).
  - `FailureKeepsItsClass`: a class rests on nothing but which lists an error
    has a phrase of (`ClassBySays`), and no list has the words that the
    rewordings add (`OwnWords`).
  - `VersionsAgree`: `Compare` goes part by part, `Rank` reads a version as one
    number.  `FirstDecides` says that the first part in which two versions
    differ decides both, since all later parts together make less than one of
    it (`HeadDecides`).
  - `OutlineIsWhole`: what is picked of the rows is described as a row is
    appended (`PickedAppend`, `KeptAppend`).  `Names` has each table once
    (`NamesAre`), sorting lists these in the one ascending way there is
    (`OneAscent`, `SortedIs`), so `Inspect` is an entry per table (`InspectIs`).
    `AllRows` finds the rows of a table where its entry is, and nowhere else;
    `SelectionIs` exchanges choosing tables with choosing rows.
  - `ShapeDropsValues`: `LeftOf` says of each symbol that `Unquoted` leaves
    which position of the text it comes from, and that all others are quoted
    (`UnquotedLeaves`).  So a token of what is left is one of the text without
    its quotes (`SameToken`, `LeftHas`, `LeftHeadless`), and a value goes in the
    one just when the reference drops it in the other (`LostIsDropped`, where
    each "=" has a key: `NoHead`).
    `RedactedCount` counts what `Redacted` keeps, run by run, and `ShapeCount`
    pairs that off with the positions that the reference keeps.

Only model-checked: every liveness property, and the fair part of
`ImplementsOneQuery`, since liveness under fairness is out of the prover's
reach.

## 5. What is not modelled

* Failures of the file system in `internal/auth`, the analytics calls, the
  wording of errors, HTTP framing, the shared-secret check of the relay.
* Durations, except as "has passed" (15 minutes of a code, 30 s of a query).
* Of the page: loading the schema and choosing tables (one await whose answer
  replaces everything), the poll for a sign-in in another tab, the update bar,
  the sheet of the tunnel, copying, layout.
* `dbinspect.Plan`, which puts a DSN and a constant query together;
  `extractCode`, a list of regular expressions.
* `SetUser` and `Track`: one critical section, then a request from a goroutine
  nobody waits for.  Nothing in the repository depends on its outcome.
* The message of a local dial that outlives its tunnel (`main.go` 615), and the
  status during backoff, which stays connected without an address (552): both
  are steps of `Connector`, but no text says what they should be.
* Libraries (yamux, the WebSocket, database/sql, the drivers) only as far as
  the code relies on them.
* The tests, the build files.

### Seen while modelling, beside the runs

* Query errors reach `Classify` after `friendly` of the executor has replaced
  them (`main.go` 390, `exec.go` 159-184): a refused connection, a rejected
  password and a timeout are "unknown" there, though the comment of `Classify`
  (`errclass.go` 13-14) says that telling the first two apart is its purpose.
  `FailureKeepsItsClass` shows that no error gets a wrong class that way.
* A SQL Server login to a missing database says both "cannot open database"
  and "login failed" and is classed as a rejected login; the phrases
  "ora-01017: invalid" and "does not exist and login failed" of the class
  `database_missing` can never decide.
* "Until either side closes, then closes both" (`proto.go` 78) needs a peer that
  reads: no write has a deadline (95).  When the client closes while the
  connector's copy waits for room at a database that stays connected and does
  not read, that copy goes on waiting and the other one goes on reading: the
  connector's `Pipe` stays.  `PipeReturns` without its condition fails so.
* `strip` reads "the way the database reads them" (`guard.go` 91-92), but it has
  one dialect and the engines have four: block comments nest on PostgreSQL and
  SQL Server, `[` quotes on SQL Server alone and is closed there by a `]` that is
  not doubled, and engines have comments and literals that `strip` does not know,
  as `#` or dollar quotes.  `StripIsOneReading` and `VerdictIsExact`, checked and
  proved, are about the dialect of `strip` and say nothing of what an engine
  makes of a text that uses these.  No run is about it, since the engines'
  rules are not in the repository.  That matters most where the guard is the
  only layer (lines 96-97): the other engines run the query in a read-only
  transaction besides (`ReadOnlyWhereSupported`).
* `Shape` "throws away every value" (`errclass.go` 99), and "the value half is
  exactly what must not travel" (111-112).  Line 114 asks for a "=" at an index
  above 0, so in `key =value` the second token is no key=value and is kept:
  `ShapeDropsValues` is about texts in which each "=" has a key before it
  (`HasKeys`), and fails without that.  In `key = value` the value is a token of
  its own, and a quote that is not closed quotes nothing: the reference takes
  both for wording, as the code does.
* "Any part that is not a number compares as zero" (`update.go` 93), but `rc1`
  counts as 1, and the dot in `1.2.0-beta.1` makes a fourth part, which makes
  it newer than `1.2.0`.
* "Only once per run of the app" (`index.html` 511): the flag is the page's, so a
  reload offers again.  `OfferIsEarned` is about one page.
* `Inspect` groups by name alone: tables of one name in two schemas become one.

## 6. Plan

Done, in this order: `Relay`, `Connector`, `System`, `Credentials`,
`OneQuery` and `QueryExec`, `DataPlane`, `Guard`, `Version`, `Schema` and
`Errors` with `Texts`, `Page`; proofs of all of them.

1. `Page` over `Credentials` in place of `signedIn`.
2. `System` with the connector restarted.
