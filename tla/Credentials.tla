---------------------------- MODULE Credentials ----------------------------
(***************************************************************************)
(* The account store (internal/auth) and those who use it: the start of    *)
(* the connector, the sign-in and sign-out handlers, and the answers of    *)
(* the API that sign the user out or refresh what is stored.               *)
(*                                                                         *)
(* A store guards its memory with a mutex but writes the file after it     *)
(* released it, and every launch of the connector has a store of its own   *)
(* over the same file.  So each action is one critical section of the      *)
(* mutex, one of the two halves of os.WriteFile (truncate, write), or one  *)
(* answer of the API.                                                      *)
(*                                                                         *)
(* An account stands for its API key, its user id, email and plan.  An     *)
(* install id is named by the launch that minted it.                       *)
(***************************************************************************)
CONSTANTS
    Account,    \* the accounts that may sign in
    Launch,     \* the launches of the connector (bounds their number)
    Op,         \* goroutines that use a store (bounds those at work at once)
    None,       \* the empty string, and no launch
    Empty,      \* a file with nothing in it, or no file
    Torn        \* the end of a longer text left over behind a shorter one

AccountOrNil == Account \cup {None}
LaunchOrNil == Launch \cup {None}
Credential == [key : AccountOrNil, user : AccountOrNil, install : LaunchOrNil]

ASSUME NoneAssumption == None \notin Account \cup Launch
ASSUME FileAssumption == Empty # Torn /\ Empty \notin Credential /\ Torn \notin Credential

VARIABLES
    file,       \* what ~/.ai2sql-connector.json holds
    creds,      \* Store.creds of each launch
    life,       \* where main is in each launch
    listening,  \* the launch that has the port of the local UI
    revoked,    \* the accounts whose key the API no longer accepts
    op,         \* what each goroutine is doing
    clean,      \* no two writes and no two launches overlapped, and no launch
                \* ended during a write (history)
    identity    \* the first install id the machine had (history)

vars == <<file, creds, life, listening, revoked, op, clean, identity>>

-----------------------------------------------------------------------------
NoCredential == [key |-> None, user |-> None, install |-> None]

\* json.Unmarshal refuses what is Empty or Torn.
File == Credential \cup {Empty, Torn}

Unwritten == {"trunc", "write"}
OpPC == {"idle", "set", "clear", "merge", "generate", "revalidate"} \cup Unwritten
Idle == [pc |-> "idle", by |-> None, key |-> None, out |-> NoCredential]

Up(p) == life[p] \in {"boot", "up"}

Become(o, pc) == op' = [op EXCEPT ![o].pc = pc]
Finish(o) == op' = [op EXCEPT ![o] = Idle]

Init ==
    /\ file = Empty
    /\ creds = [p \in Launch |-> NoCredential]
    /\ life = [p \in Launch |-> "new"]
    /\ listening = None
    /\ revoked = {}
    /\ op = [o \in Op |-> Idle]
    /\ clean = TRUE
    /\ identity = None

-----------------------------------------------------------------------------
(* main. *)

\* NewStore: a file it cannot parse means "not signed in".
Loaded == IF file \in {Empty, Torn} THEN NoCredential ELSE file

\* Reads the file; without an install id in it, mints one and stores it.
Start(p, o) ==
    /\ life[p] = "new"
    /\ op[o] = Idle
    /\ life' = [life EXCEPT ![p] = "boot"]
    /\ LET minted == [Loaded EXCEPT !.install = p]
           first == Loaded.install = None
       IN  /\ creds' = [creds EXCEPT ![p] = IF first THEN minted ELSE Loaded]
           /\ op' = IF first
                    THEN [op EXCEPT ![o] = [Idle EXCEPT !.pc = "trunc", !.by = p,
                                                        !.out = minted]]
                    ELSE op
    /\ clean' = (clean /\ \A q \in Launch : ~Up(q))
    /\ identity' = IF identity = None THEN creds'[p].install ELSE identity
    /\ UNCHANGED <<file, listening, revoked>>

\* A stored sign-in is revalidated in the background.
Boot(p, o) ==
    /\ life[p] = "boot"
    /\ \A x \in Op : op[x].by # p
    /\ op[o] = Idle
    /\ life' = [life EXCEPT ![p] = "up"]
    /\ op' = IF creds[p].key = None
             THEN op
             ELSE [op EXCEPT ![o] = [Idle EXCEPT !.pc = "revalidate", !.by = p,
                                                 !.key = creds[p].key]]
    /\ UNCHANGED <<file, creds, listening, revoked, clean, identity>>

\* A launch that finds the port taken, and one with -no-ui, has no handlers.
Listen(p) ==
    /\ life[p] = "up"
    /\ listening = None
    /\ listening' = p
    /\ UNCHANGED <<file, creds, life, revoked, op, clean, identity>>

\* The user quits, a second launch returns, or the machine goes down.
Quit(p) ==
    /\ Up(p)
    /\ life' = [life EXCEPT ![p] = "gone"]
    /\ listening' = IF listening = p THEN None ELSE listening
    /\ op' = [o \in Op |-> IF op[o].by = p THEN Idle ELSE op[o]]
    /\ clean' = (clean /\ \A o \in Op : op[o].by = p => op[o].pc \notin Unwritten)
    /\ UNCHANGED <<file, creds, revoked, identity>>

-----------------------------------------------------------------------------
(* The store. *)

\* No other goroutine has changed a memory without having written it yet.
AloneToWrite(o) == \A x \in Op \ {o} : op[x].pc \notin Unwritten

\* s.creds = c, then the mutex is released.
Store(o, p, c) ==
    /\ creds' = [creds EXCEPT ![p] = c]
    /\ op' = [op EXCEPT ![o] = [Idle EXCEPT !.pc = "trunc", !.by = p, !.out = c]]
    /\ clean' = (clean /\ AloneToWrite(o))

Set(o) ==
    /\ op[o].pc = "set"
    /\ Store(o, op[o].by, op[o].out)
    /\ UNCHANGED <<file, life, listening, revoked, identity>>

\* Store.Clear keeps only the install id.
Cleared_everything(c) == NoCredential
Cleared(c) == [NoCredential EXCEPT !.install = c.install]

Clear_memoryOnly(o) ==
    /\ op[o].pc = "clear"
    /\ creds' = [creds EXCEPT ![op[o].by] = Cleared(@)]
    /\ Finish(o)
    /\ UNCHANGED <<file, life, listening, revoked, clean, identity>>
Clear(o) ==
    /\ op[o].pc = "clear"
    /\ Store(o, op[o].by, Cleared(creds[op[o].by]))
    /\ UNCHANGED <<file, life, listening, revoked, identity>>

Truncate(o) ==
    /\ op[o].pc = "trunc"
    /\ Become(o, "write")
    /\ file' = Empty
    /\ UNCHANGED <<creds, life, listening, revoked, clean, identity>>

\* What a write at offset 0 leaves, by the lengths of the texts: a record with
\* nothing but an install id is the shortest, and two of them are as long.
Overlay(new, old) ==
    LET Blank(c) == c.key = None /\ c.user = None
    IN  CASE old \in {Empty, new}                -> {new}
          [] old \in Credential /\ Blank(old)    -> {new}
          [] old \in Credential /\ Blank(new)    -> {Torn}
          [] OTHER                               -> {new, Torn}

Write(o) ==
    /\ op[o].pc = "write"
    /\ Finish(o)
    /\ file' \in Overlay(op[o].out, file)
    /\ UNCHANGED <<creds, life, listening, revoked, clean, identity>>

-----------------------------------------------------------------------------
(* The handlers. *)

\* POST /api/auth: the install id is read before the credentials are set.
SignIn_asPosted(o, a) ==
    /\ listening # None
    /\ op[o] = Idle
    /\ op' = [op EXCEPT ![o] = [pc |-> "set", by |-> listening, key |-> None,
                                out |-> [key |-> a, user |-> a, install |-> None]]]
    /\ UNCHANGED <<file, creds, life, listening, revoked, clean, identity>>
SignIn(o, a) ==
    /\ listening # None
    /\ op[o] = Idle
    /\ op' = [op EXCEPT ![o] = [pc |-> "set", by |-> listening, key |-> None,
                                out |-> [key |-> a, user |-> a,
                                         install |-> creds[listening].install]]]
    /\ UNCHANGED <<file, creds, life, listening, revoked, clean, identity>>

\* POST /api/auth/logout.
SignOut(o) ==
    /\ listening # None
    /\ op[o] = Idle
    /\ op' = [op EXCEPT ![o] = [Idle EXCEPT !.pc = "clear", !.by = listening]]
    /\ UNCHANGED <<file, creds, life, listening, revoked, clean, identity>>

\* POST /api/generate reads the key and asks the API with it.
Generate(o) ==
    /\ listening # None
    /\ creds[listening].key # None
    /\ op[o] = Idle
    /\ op' = [op EXCEPT ![o] = [Idle EXCEPT !.pc = "generate", !.by = listening,
                                            !.key = creds[listening].key]]
    /\ UNCHANGED <<file, creds, life, listening, revoked, clean, identity>>

-----------------------------------------------------------------------------
(* The API. *)

Revoke(a) ==
    /\ a \notin revoked
    /\ revoked' = revoked \cup {a}
    /\ UNCHANGED <<file, creds, life, listening, op, clean, identity>>

\* 401 signs out; any other answer, or none, leaves the store alone.
GenerateAnswered(o) ==
    /\ op[o].pc = "generate"
    /\ \/ op[o].key \in revoked /\ Become(o, "clear")
       \/ Finish(o)
    /\ UNCHANGED <<file, creds, life, listening, revoked, clean, identity>>

\* 401 signs out, no answer keeps what is stored.
MeAnswered(o) ==
    /\ op[o].pc = "revalidate"
    /\ \/ op[o].key \in revoked /\ Become(o, "clear")
       \/ op[o].key \notin revoked /\ Become(o, "merge")
       \/ Finish(o)
    /\ UNCHANGED <<file, creds, life, listening, revoked, clean, identity>>

\* cur := creds.Get(), with the account of the answer filled in.
Merge(o) ==
    /\ op[o].pc = "merge"
    /\ op' = [op EXCEPT ![o].pc = "set",
                        ![o].out = [creds[op[o].by] EXCEPT !.user = op[o].key]]
    /\ UNCHANGED <<file, creds, life, listening, revoked, clean, identity>>

-----------------------------------------------------------------------------
Next ==
    \/ \E p \in Launch, o \in Op : Start(p, o)
    \/ \E p \in Launch, o \in Op : Boot(p, o)
    \/ \E p \in Launch : Listen(p)
    \/ \E p \in Launch : Quit(p)
    \/ \E o \in Op : Set(o)
    \/ \E o \in Op : Clear(o)
    \/ \E o \in Op : Truncate(o)
    \/ \E o \in Op : Write(o)
    \/ \E o \in Op, a \in Account : SignIn(o, a)
    \/ \E o \in Op : SignOut(o)
    \/ \E o \in Op : Generate(o)
    \/ \E a \in Account : Revoke(a)
    \/ \E o \in Op : GenerateAnswered(o)
    \/ \E o \in Op : MeAnswered(o)
    \/ \E o \in Op : Merge(o)

Spec == Init /\ [][Next]_vars

-----------------------------------------------------------------------------
TypeOK ==
    /\ file \in File
    /\ creds \in [Launch -> Credential]
    /\ life \in [Launch -> {"new", "boot", "up", "gone"}]
    /\ listening \in LaunchOrNil
    /\ listening # None => life[listening] = "up"
    /\ revoked \in SUBSET Account
    /\ op \in [Op -> [pc : OpPC, by : LaunchOrNil, key : AccountOrNil, out : Credential]]
    /\ clean \in BOOLEAN
    /\ identity \in LaunchOrNil
    /\ \A p \in Launch : life[p] # "new" => creds[p].install # None
    /\ \A o \in Op : op[o].pc # "idle" => op[o].by # None /\ Up(op[o].by)

-----------------------------------------------------------------------------
(* Properties that hold. *)

\* "never let a sign-in reset the install identity" (main.go line 253): in no
\* launch does the install id in memory change, although sign-ins and
\* revalidations read the store and set it in two critical sections.
InstallKept ==
    [][\A p \in Launch :
        creds[p].install # None => creds'[p].install = creds[p].install]_vars

\* "one machine stays one install" (auth.go line 19): while no two launches
\* and no two writes overlap and no launch ends during a write, every launch
\* has the install id of the first, through any sign-ins and sign-outs.
OneMachineOneInstall ==
    clean => \A p \in Launch : life[p] # "new" => creds[p].install = identity

\* "persisted so a restart does not ask the user to sign in again" (auth.go
\* lines 2-3): under the same conditions the file holds what the launch that
\* is up has in memory, whenever no write of it is under way.
FileFollowsMemory ==
    \A p \in Launch :
        /\ clean
        /\ Up(p)
        /\ \A o \in Op : op[o].by = p => op[o].pc \notin Unwritten
        => file = creds[p]

-----------------------------------------------------------------------------
(* What the comments say and the code does not do. *)

\* "the key was revoked server-side; force a fresh sign-in" (main.go line
\* 461), "a revoked key signs itself out" (line 122): what the API answered
\* about a key is applied while that key is the one in the store.
AnswerIsForStoredKey ==
    [][\A o \in Op :
        op[o].pc \in {"set", "clear"} /\ op[o].key # None /\ op'[o].pc = "trunc" =>
            creds[op[o].by].key = op[o].key]_vars
=============================================================================
