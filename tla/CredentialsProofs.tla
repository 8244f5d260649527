------------------------- MODULE CredentialsProofs -------------------------
(***************************************************************************)
(* Proofs about the account store, for any number of accounts, launches    *)
(* and goroutines.                                                         *)
(***************************************************************************)
EXTENDS Credentials, TLAPS

\* What is about to be stored, or was stored and is being written, carries the
\* install id of the memory it goes to.
CarriesInstall ==
    \A o \in Op :
        op[o].pc \in {"set"} \cup Unwritten => op[o].out.install = creds[op[o].by].install

\* A launch that has not started has nothing in memory, and some launch has
\* started once the machine has an install id.
NewIsBlank ==
    /\ \A p \in Launch : life[p] = "new" => creds[p] = NoCredential
    /\ identity = None => file = Empty /\ \A p \in Launch : life[p] = "new"

Writing(o) == op[o].pc \in Unwritten

\* What no overlap disturbs: one launch at a time, one writer at a time; the
\* file holds what is in memory, or the one who will write that is known.
CleanInv ==
    clean =>
        /\ \A p, q \in Launch : Up(p) /\ Up(q) => p = q
        /\ \A x, y \in Op : Writing(x) /\ Writing(y) => x = y
        /\ OneMachineOneInstall
        /\ file # Torn
        /\ file # Empty => file.install = identity
        /\ file = Empty /\ identity # None => \E o \in Op : Writing(o)
        /\ \A o \in Op : Writing(o) => op[o].out = creds[op[o].by]
        /\ \A o \in Op : op[o].pc = "write" => file = Empty
        /\ FileFollowsMemory

IInv == TypeOK /\ CarriesInstall /\ NewIsBlank /\ CleanInv

-----------------------------------------------------------------------------
LEMMA TypeInit == Init => TypeOK
  BY NoneAssumption DEF Init, TypeOK, File, Credential, NoCredential, AccountOrNil, LaunchOrNil,
     Idle, OpPC, Unwritten

OpRecord == [pc : OpPC, by : LaunchOrNil, key : AccountOrNil, out : Credential]

\* A step that changes what one goroutine does, and no launch.
LEMMA OpStep ==
  ASSUME TypeOK, NEW o \in Op, NEW r \in OpRecord, op' = [op EXCEPT ![o] = r],
         life' = life,
         r.pc # "idle" => r.by # None /\ Up(r.by)
  PROVE  /\ op' \in [Op -> OpRecord]
         /\ (\A x \in Op : op[x].pc # "idle" => op[x].by # None /\ Up(op[x].by))'
  BY DEF TypeOK, OpRecord, Up

LEMMA TypeStep == TypeOK /\ CarriesInstall /\ [Next]_vars => TypeOK'
  <1> SUFFICES ASSUME TypeOK, CarriesInstall, [Next]_vars PROVE TypeOK'
    OBVIOUS
  <1>0. Idle \in OpRecord /\ NoCredential \in Credential /\ Idle.pc = "idle"
    BY DEF Idle, OpRecord, OpPC, Unwritten, NoCredential, Credential, AccountOrNil, LaunchOrNil
  <1>a. ASSUME NEW o \in Op, NEW pc \in OpPC, op[o].pc # "idle"
        PROVE  /\ [op[o] EXCEPT !.pc = pc] \in OpRecord
               /\ [op[o] EXCEPT !.pc = pc].by # None
               /\ Up([op[o] EXCEPT !.pc = pc].by)
    BY <1>a DEF TypeOK, OpRecord
  <1> USE NoneAssumption, FileAssumption
  <1>1. ASSUME NEW p \in Launch, NEW o \in Op, Start(p, o) PROVE TypeOK'
    <2>1. Loaded \in Credential
      BY <1>0 DEF Loaded, TypeOK, File
    <2>2. creds' \in [Launch -> Credential] /\ creds'[p].install # None
      BY <1>1, <2>1 DEF Start, TypeOK, Credential, LaunchOrNil
    <2>3. op' \in [Op -> OpRecord]
      BY <1>0, <1>1, <2>1 DEF Start, TypeOK, OpRecord, Credential, LaunchOrNil, OpPC, Unwritten, Idle
    <2>4. (\A x \in Op : op[x].pc # "idle" => op[x].by # None /\ Up(op[x].by))'
      <3>1. ASSUME NEW x \in Op, x # o \/ op'[x] = op[x], op'[x].pc # "idle"
            PROVE  op'[x].by # None /\ Up(op'[x].by) /\ op'[x].by # p
        BY <1>1, <3>1 DEF Start, TypeOK, Up
      <3>2. op'[o] = op[o] \/ op'[o].by = p
        BY <1>1 DEF Start, TypeOK, Idle
      <3>3. QED
        BY <1>1, <3>1, <3>2 DEF Start, TypeOK, Up
    <2>5. \A q \in Launch : life'[q] # "new" => creds'[q].install # None
      BY <1>1, <2>2 DEF Start, TypeOK
    <2>6. identity' \in LaunchOrNil
      BY <1>1, <2>2 DEF Start, TypeOK, Credential
    <2>7. QED
      BY <1>1, <2>2, <2>3, <2>4, <2>5, <2>6 DEF Start, TypeOK, OpRecord
  <1>2. ASSUME NEW p \in Launch, NEW o \in Op, Boot(p, o) PROVE TypeOK'
    <2>1. op' \in [Op -> OpRecord]
      BY <1>0, <1>2 DEF Boot, TypeOK, OpRecord, Credential, LaunchOrNil, OpPC, Unwritten, Idle
    <2>2. (\A x \in Op : op[x].pc # "idle" => op[x].by # None /\ Up(op[x].by))'
      <3>1. op'[o] = op[o] \/ op'[o].by = p
        BY <1>2 DEF Boot, TypeOK, Idle
      <3>2. QED
        BY <1>2, <3>1 DEF Boot, TypeOK, Up
    <2>3. QED
      BY <1>2, <2>1, <2>2 DEF Boot, TypeOK, OpRecord
  <1>3. ASSUME NEW p \in Launch, Listen(p) PROVE TypeOK'
    BY <1>3 DEF Listen, TypeOK, LaunchOrNil, Up
  <1>4. ASSUME NEW p \in Launch, Quit(p) PROVE TypeOK'
    <2>1. op' \in [Op -> OpRecord]
      BY <1>0, <1>4 DEF Quit, TypeOK, OpRecord
    <2>2. (\A x \in Op : op[x].pc # "idle" => op[x].by # None /\ Up(op[x].by))'
      BY <1>0, <1>4 DEF Quit, TypeOK, Up
    <2>3. QED
      BY <1>4, <2>1, <2>2 DEF Quit, TypeOK, OpRecord, LaunchOrNil, Up
  <1>5. ASSUME NEW o \in Op, NEW c \in Credential, c.install # None, op[o].pc # "idle",
               Store(o, op[o].by, c), UNCHANGED <<file, life, listening, revoked, identity>>
        PROVE  TypeOK'
    <2> DEFINE r == [Idle EXCEPT !.pc = "trunc", !.by = op[o].by, !.out = c]
    <2>1. op[o].by \in Launch /\ Up(op[o].by)
      BY <1>5 DEF TypeOK, LaunchOrNil
    <2>2. r \in OpRecord /\ r.by = op[o].by
      BY <1>0, <1>5, <2>1 DEF OpRecord, OpPC, Unwritten, LaunchOrNil, Idle
    <2>3. op' = [op EXCEPT ![o] = r]
      BY <1>5 DEF Store
    <2> HIDE DEF r
    <2>4. /\ op' \in [Op -> OpRecord]
          /\ (\A x \in Op : op[x].pc # "idle" => op[x].by # None /\ Up(op[x].by))'
      BY <1>5, <2>1, <2>2, <2>3, OpStep
    <2>5. QED
      BY <1>5, <2>1, <2>4 DEF Store, TypeOK, OpRecord, AloneToWrite
  <1>6. ASSUME NEW o \in Op, NEW r \in OpRecord, op' = [op EXCEPT ![o] = r],
               r.pc # "idle" => r.by # None /\ Up(r.by), file' \in File,
               UNCHANGED <<creds, life, listening, revoked, clean, identity>>
        PROVE  TypeOK'
    <2>1. /\ op' \in [Op -> OpRecord]
          /\ (\A x \in Op : op[x].pc # "idle" => op[x].by # None /\ Up(op[x].by))'
      BY <1>6, OpStep
    <2>2. QED
      BY <1>6, <2>1 DEF TypeOK, OpRecord
  <1>7. ASSUME NEW o \in Op, Set(o) PROVE TypeOK'
    <2>1. op[o].by \in Launch /\ op[o].out \in Credential /\ op[o].out.install # None
      BY <1>7 DEF Set, TypeOK, LaunchOrNil, CarriesInstall, Up
    <2>2. QED
      BY <1>5, <1>7, <2>1 DEF Set
  <1>8. ASSUME NEW o \in Op, Clear(o) PROVE TypeOK'
    <2>1. op[o].by \in Launch /\ creds[op[o].by] \in Credential
                              /\ creds[op[o].by].install # None
      BY <1>8 DEF Clear, TypeOK, LaunchOrNil, Up
    <2>2. Cleared(creds[op[o].by]) \in Credential /\ Cleared(creds[op[o].by]).install # None
      BY <2>1 DEF Cleared, NoCredential, Credential, AccountOrNil
    <2>3. QED
      BY <1>5, <1>8, <2>2 DEF Clear
  <1>9. ASSUME NEW o \in Op, Truncate(o) PROVE TypeOK'
    <2>1. op' = [op EXCEPT ![o] = [op[o] EXCEPT !.pc = "write"]]
      BY <1>9 DEF Truncate, Become, TypeOK
    <2>2. QED
      BY <1>a, <1>6, <1>9, <2>1 DEF Truncate, OpPC, Unwritten, File
  <1>10. ASSUME NEW o \in Op, Write(o) PROVE TypeOK'
    <2>1. op[o].out \in Credential /\ file' \in File
      BY <1>10 DEF Write, Overlay, TypeOK, File
    <2>2. QED
      BY <1>0, <1>6, <1>10, <2>1 DEF Write, Finish
  <1>11. ASSUME NEW o \in Op, GenerateAnswered(o) \/ MeAnswered(o) PROVE TypeOK'
    <2>1. file' \in File /\ op[o].pc # "idle"
      BY <1>11 DEF GenerateAnswered, MeAnswered, TypeOK
    <2>2. CASE Finish(o)
      BY <1>0, <1>6, <1>11, <2>1, <2>2 DEF GenerateAnswered, MeAnswered, Finish
    <2>3. ASSUME NEW pc \in {"clear", "merge"}, Become(o, pc) PROVE TypeOK'
      <3>1. op' = [op EXCEPT ![o] = [op[o] EXCEPT !.pc = pc]]
        BY <2>3 DEF Become, TypeOK
      <3>2. QED
        BY <1>a, <1>6, <1>11, <2>1, <3>1 DEF GenerateAnswered, MeAnswered, OpPC
    <2>4. QED
      BY <1>11, <2>2, <2>3 DEF GenerateAnswered, MeAnswered
  <1>12. ASSUME NEW o \in Op, NEW a \in Account, SignIn(o, a) PROVE TypeOK'
    <2> DEFINE c == [key |-> a, user |-> a, install |-> creds[listening].install]
               r == [pc |-> "set", by |-> listening, key |-> None, out |-> c]
    <2>1. listening \in Launch /\ creds[listening] \in Credential
      BY <1>12 DEF SignIn, TypeOK, LaunchOrNil, Up
    <2>2. c \in Credential
      BY <2>1 DEF Credential, AccountOrNil
    <2>3. r \in OpRecord
      BY <2>1, <2>2 DEF OpRecord, OpPC, LaunchOrNil, AccountOrNil
    <2>4. file' \in File
      BY <1>12 DEF SignIn, TypeOK, Up
    <2>5. Up(listening)
      BY <1>12 DEF SignIn, TypeOK, Up
    <2>6. QED
      BY <1>6, <1>12, <2>1, <2>3, <2>4, <2>5 DEF SignIn
  <1>13. ASSUME NEW o \in Op, SignOut(o) PROVE TypeOK'
    <2> DEFINE r == [Idle EXCEPT !.pc = "clear", !.by = listening]
    <2>1. listening \in Launch /\ file' \in File /\ Up(listening)
      BY <1>13 DEF SignOut, TypeOK, LaunchOrNil, Up
    <2>2. r \in OpRecord /\ r.by = listening
      BY <1>0, <2>1 DEF OpRecord, OpPC, LaunchOrNil, Idle
    <2>3. QED
      BY <1>6, <1>13, <2>1, <2>2 DEF SignOut
  <1>14. ASSUME NEW o \in Op, Generate(o) PROVE TypeOK'
    <2> DEFINE r == [Idle EXCEPT !.pc = "generate", !.by = listening,
                                 !.key = creds[listening].key]
    <2>1. listening \in Launch /\ file' \in File /\ Up(listening)
      BY <1>14 DEF Generate, TypeOK, LaunchOrNil, Up
    <2>2. r \in OpRecord /\ r.by = listening
      BY <1>0, <2>1 DEF OpRecord, OpPC, LaunchOrNil, Idle, TypeOK, Credential
    <2>3. QED
      BY <1>6, <1>14, <2>1, <2>2 DEF Generate
  <1>15. ASSUME NEW o \in Op, Merge(o) PROVE TypeOK'
    <2> DEFINE c == [creds[op[o].by] EXCEPT !.user = op[o].key]
               r == [op[o] EXCEPT !.pc = "set", !.out = c]
    <2>1. op[o] \in OpRecord /\ op[o].by \in Launch /\ Up(op[o].by) /\ file' \in File
      BY <1>15 DEF Merge, TypeOK, OpRecord, LaunchOrNil
    <2>2. c \in Credential
      BY <2>1 DEF TypeOK, Credential, OpRecord
    <2>3. r \in OpRecord /\ r.by = op[o].by
      BY <2>1, <2>2 DEF OpRecord, OpPC
    <2>4. op' = [op EXCEPT ![o] = r]
      BY <1>15 DEF Merge, TypeOK
    <2>5. QED
      BY <1>6, <1>15, <2>1, <2>3, <2>4 DEF Merge
  <1>16. ASSUME NEW a \in Account, Revoke(a) PROVE TypeOK'
    BY <1>16 DEF Revoke, TypeOK, Up
  <1>17. CASE UNCHANGED vars
    BY <1>17 DEF vars, TypeOK, Up
  <1>18. QED
    BY <1>1, <1>2, <1>3, <1>4, <1>7, <1>8, <1>9, <1>10, <1>11, <1>12, <1>13, <1>14, <1>15,
       <1>16, <1>17 DEF Next

-----------------------------------------------------------------------------
(* The install id in memory. *)

\* Only Start, Set and Clear touch a memory: the first finds it blank, the
\* others store what carries its install id.
LEMMA InstallStep ==
  ASSUME TypeOK, CarriesInstall, NewIsBlank, [Next]_vars, NEW p \in Launch,
         creds[p].install # None
  PROVE  creds'[p].install = creds[p].install
  <1>1. ASSUME NEW q \in Launch, NEW o \in Op, Start(q, o)
        PROVE  creds'[p] = creds[p]
    <2>1. q # p
      BY <1>1 DEF Start, NewIsBlank, NoCredential
    <2>2. QED
      BY <1>1, <2>1 DEF Start, TypeOK
  <1>2. ASSUME NEW o \in Op, Set(o) PROVE creds'[p].install = creds[p].install
    BY <1>2 DEF Set, Store, CarriesInstall, TypeOK
  <1>3. ASSUME NEW o \in Op, Clear(o) PROVE creds'[p].install = creds[p].install
    <2>1. Cleared(creds[op[o].by]).install = creds[op[o].by].install
      BY DEF Cleared, NoCredential
    <2>2. QED
      BY <1>3, <2>1 DEF Clear, Store, TypeOK
  <1>4. creds' = creds => creds'[p].install = creds[p].install
    OBVIOUS
  <1>5. QED
    BY <1>1, <1>2, <1>3, <1>4 DEF Next, vars, Boot, Listen, Quit, Truncate, Write, SignIn,
       SignOut, Generate, Revoke, GenerateAnswered, MeAnswered, Merge

\* A goroutine either takes what it carries from the memory it is for, or has
\* it from before.
LEMMA CarriesStep ==
  ASSUME TypeOK, CarriesInstall, NewIsBlank, [Next]_vars
  PROVE  CarriesInstall'
  <1> DEFINE Carries(x) ==
        op[x].pc \in {"set"} \cup Unwritten => op[x].out.install = creds[op[x].by].install
  <1>0. SUFFICES ASSUME NEW x \in Op PROVE Carries(x)'
    BY DEF CarriesInstall
  <1>1. CASE op'[x] = op[x]
    <2>1. CASE op[x].pc \in {"set"} \cup Unwritten
      <3>1. op[x].by \in Launch /\ creds[op[x].by].install # None
        BY <2>1 DEF TypeOK, LaunchOrNil, Unwritten, Up
      <3>2. QED
        BY <1>1, <2>1, <3>1, InstallStep DEF CarriesInstall
    <2>2. QED
      BY <1>1, <2>1
  <1>2. CASE op'[x] = Idle
    BY <1>2 DEF Idle, Unwritten
  <1>3. ASSUME NEW p \in Launch, Start(p, x) PROVE Carries(x)'
    BY <1>1, <1>3 DEF Start, TypeOK, NoCredential, Idle, Credential
  <1>4. CASE Set(x) \/ Clear(x)
    <2>1. op[x].by \in Launch
      BY <1>4 DEF Set, Clear, TypeOK, LaunchOrNil
    <2>2. ASSUME NEW c, Store(x, op[x].by, c) PROVE Carries(x)'
      BY <2>1, <2>2 DEF Store, TypeOK, Idle
    <2>3. QED
      BY <1>4, <2>2 DEF Set, Clear
  <1>5. CASE Truncate(x)
    BY <1>5 DEF Truncate, Become, TypeOK, CarriesInstall, Unwritten
  <1>6. ASSUME NEW a \in Account, SignIn(x, a) PROVE Carries(x)'
    BY <1>6 DEF SignIn, TypeOK
  <1>7. CASE Merge(x)
    <2>1. op[x].by \in Launch /\ creds' = creds
      BY <1>7 DEF Merge, TypeOK, LaunchOrNil
    <2>2. op'[x].by = op[x].by
          /\ op'[x].out = [creds[op[x].by] EXCEPT !.user = op[x].key]
      BY <1>7 DEF Merge, TypeOK
    <2>3. op'[x].out.install = creds[op[x].by].install
      BY <2>1, <2>2 DEF TypeOK, Credential
    <2>4. QED
      BY <2>1, <2>2, <2>3
  <1>8. CASE op'[x].pc \notin {"set"} \cup Unwritten
    BY <1>8
  <1> HIDE DEF Carries
  <1>10. ASSUME NEW p \in Launch, NEW o \in Op, Start(p, o) \/ Boot(p, o)
         PROVE  Carries(x)'
    <2>1. CASE o # x
      BY <1>1, <1>10, <2>1 DEF Start, Boot, TypeOK
    <2>2. CASE Start(p, x)
      BY <1>3, <2>2
    <2>3. CASE Boot(p, x)
      BY <1>1, <1>8, <2>3 DEF Boot, TypeOK, Idle, Unwritten
    <2>4. QED
      BY <1>10, <2>1, <2>2, <2>3
  <1>11. ASSUME NEW p \in Launch, Quit(p) PROVE Carries(x)'
    BY <1>1, <1>2, <1>11 DEF Quit, TypeOK
  <1>12. ASSUME NEW o \in Op, o # x,
                \/ Set(o) \/ Clear(o) \/ Truncate(o) \/ Write(o) \/ SignOut(o) \/ Generate(o)
                \/ GenerateAnswered(o) \/ MeAnswered(o) \/ Merge(o)
                \/ \E a \in Account : SignIn(o, a)
         PROVE  Carries(x)'
    <2>1. CASE Set(o) \/ Clear(o) \/ Truncate(o) \/ Write(o) \/ Merge(o)
      BY <1>1, <1>12, <2>1 DEF Set, Clear, Store, Truncate, Write, Merge, Become, Finish, TypeOK
    <2>2. CASE SignOut(o) \/ Generate(o) \/ (\E a \in Account : SignIn(o, a))
      BY <1>1, <1>12, <2>2 DEF SignIn, SignOut, Generate, TypeOK
    <2>3. CASE GenerateAnswered(o) \/ MeAnswered(o)
      BY <1>1, <1>12, <2>3 DEF GenerateAnswered, MeAnswered, Become, Finish, TypeOK
    <2>4. QED
      BY <1>12, <2>1, <2>2, <2>3
  <1>13. CASE Write(x)
    BY <1>2, <1>13 DEF Write, Finish, TypeOK
  <1>14. CASE SignOut(x) \/ Generate(x) \/ GenerateAnswered(x) \/ MeAnswered(x)
    <2>1. CASE SignOut(x)
      BY <1>8, <2>1 DEF SignOut, TypeOK, Idle, Unwritten
    <2>2. CASE Generate(x)
      BY <1>8, <2>2 DEF Generate, TypeOK, Idle, Unwritten
    <2>3. CASE GenerateAnswered(x)
      BY <1>2, <1>8, <2>3 DEF GenerateAnswered, Become, Finish, TypeOK, Unwritten
    <2>4. CASE MeAnswered(x)
      BY <1>2, <1>8, <2>4 DEF MeAnswered, Become, Finish, TypeOK, Unwritten
    <2>5. QED
      BY <1>14, <2>1, <2>2, <2>3, <2>4
  <1>15. (\E p \in Launch : Listen(p)) \/ (\E a \in Account : Revoke(a)) \/ UNCHANGED vars
           => Carries(x)'
    BY <1>1 DEF Listen, Revoke, vars
  <1>16. QED
    BY <1>4, <1>5, <1>6, <1>7, <1>10, <1>11, <1>12, <1>13, <1>14, <1>15 DEF Next

-----------------------------------------------------------------------------
(* The file. *)

LEMMA BlankStep ==
  ASSUME TypeOK, NewIsBlank, [Next]_vars
  PROVE  NewIsBlank'
  <1> USE DEF NewIsBlank
  <1>1. ASSUME NEW p \in Launch, NEW o \in Op, Start(p, o) PROVE NewIsBlank'
    <2>1. creds'[p].install # None
      BY <1>1, NoneAssumption DEF Start, Loaded, TypeOK, File, Credential
    <2>2. identity' # None
      BY <1>1, <2>1 DEF Start
    <2>3. QED
      BY <1>1, <2>2 DEF Start, TypeOK
  <1>2. ASSUME NEW o \in Op, Set(o) \/ Clear(o) PROVE NewIsBlank'
    <2>1. op[o].by \in Launch /\ life[op[o].by] # "new"
      BY <1>2 DEF Set, Clear, TypeOK, LaunchOrNil, Up
    <2>2. QED
      BY <1>2, <2>1 DEF Set, Clear, Store, TypeOK
  <1>3. ASSUME NEW o \in Op, Truncate(o) \/ Write(o) PROVE NewIsBlank'
    <2>1. op[o].by \in Launch /\ life[op[o].by] # "new"
      BY <1>3 DEF Truncate, Write, TypeOK, LaunchOrNil, Up
    <2>2. QED
      BY <1>3, <2>1 DEF Truncate, Write, TypeOK
  <1>4. ASSUME NEW p \in Launch, (\E o \in Op : Boot(p, o)) \/ Quit(p) PROVE NewIsBlank'
    BY <1>4 DEF Boot, Quit, Up, TypeOK
  <1>5. CASE UNCHANGED <<file, creds, life, identity>>
    BY <1>5
  <1>6. QED
    BY <1>1, <1>2, <1>3, <1>4, <1>5 DEF Next, vars, Listen, SignIn, SignOut, Generate, Revoke,
       GenerateAnswered, MeAnswered, Merge

\* A step that neither starts nor ends a launch, and neither a change of a
\* memory nor a write, has no effect on CleanInv.
LEMMA QuietStep ==
  ASSUME CleanInv, UNCHANGED <<file, creds, clean, identity>>,
         \A p \in Launch : (Up(p)' <=> Up(p)) /\ (life'[p] = "new" <=> life[p] = "new"),
         \A x \in Op : Writing(x) => op'[x] = op[x],
         \A x \in Op : Writing(x)' => Writing(x)
  PROVE  CleanInv'
  <1> SUFFICES ASSUME clean PROVE CleanInv'
    BY DEF CleanInv
  <1>1. \A x \in Op : Writing(x)' <=> Writing(x)
    BY DEF Writing
  <1>2. OneMachineOneInstall'
    BY DEF CleanInv, OneMachineOneInstall
  <1>3. FileFollowsMemory'
    <2> SUFFICES ASSUME NEW p \in Launch, Up(p)',
                        \A o \in Op : op'[o].by = p => op'[o].pc \notin Unwritten
                 PROVE  file' = creds'[p]
      BY DEF FileFollowsMemory
    <2>1. \A o \in Op : op[o].by = p => op[o].pc \notin Unwritten
      BY <1>1 DEF Writing
    <2>2. QED
      BY <2>1 DEF CleanInv, FileFollowsMemory
  <1>4. \A x \in Op : op'[x].pc = "write" => op[x].pc = "write"
    BY <1>1 DEF Writing, Unwritten
  <1>5. QED
    BY <1>1, <1>2, <1>3, <1>4 DEF CleanInv

\* A launch that starts alone finds what the one before it left, or an empty
\* file if it is the first.
LEMMA StartStep ==
  ASSUME IInv, NEW p \in Launch, NEW o \in Op, Start(p, o)
  PROVE  CleanInv'
  <1> SUFFICES ASSUME clean' PROVE CleanInv'
    BY DEF CleanInv
  <1>1. clean /\ (\A q \in Launch : ~Up(q)) /\ op[o] = Idle /\ life[p] = "new" /\ file' = file
    BY DEF Start
  <1>2. \A x \in Op : ~Writing(x)
    BY <1>1 DEF IInv, TypeOK, Writing, Unwritten, LaunchOrNil
  <1>3. \A q \in Launch : Up(q)' => q = p
    BY <1>1 DEF Start, Up, IInv, TypeOK
  <1>4. CASE identity = None
    <2>1. file = Empty /\ Loaded = NoCredential /\ \A q \in Launch : life[q] = "new"
      BY <1>4 DEF IInv, NewIsBlank, Loaded
    <2> DEFINE c == [NoCredential EXCEPT !.install = p]
    <2>2. /\ creds' = [creds EXCEPT ![p] = c]
          /\ op' = [op EXCEPT ![o] = [Idle EXCEPT !.pc = "trunc", !.by = p, !.out = c]]
          /\ c.install = p
          /\ identity' = p
      BY <1>4, <2>1 DEF Start, NoCredential, IInv, TypeOK
    <2>3. creds'[p] = c /\ op'[o].pc = "trunc" /\ op'[o].by = p /\ op'[o].out = c
      BY <2>2 DEF IInv, TypeOK, Idle
    <2>4. \A x \in Op \ {o} : op'[x] = op[x] /\ ~Writing(x)'
      BY <1>2, <2>2 DEF IInv, TypeOK, Writing
    <2>5. Writing(o)'
      BY <2>3 DEF Writing, Unwritten
    <2>6. OneMachineOneInstall'
      BY <2>1, <2>2, <2>3 DEF OneMachineOneInstall, Start, IInv, TypeOK
    <2>7. FileFollowsMemory'
      BY <1>3, <2>3 DEF FileFollowsMemory, Unwritten
    <2> HIDE DEF c
    <2>8. QED
      BY <1>1, <1>3, <2>1, <2>2, <2>3, <2>4, <2>5, <2>6, <2>7, FileAssumption DEF CleanInv
  <1>5. CASE identity # None
    <2>1. file \in Credential /\ file.install = identity
      BY <1>1, <1>2, <1>5 DEF IInv, CleanInv, TypeOK, File
    <2>2. Loaded = file
      BY <2>1, FileAssumption DEF Loaded
    <2>3. creds' = [creds EXCEPT ![p] = file] /\ op' = op /\ identity' = identity
      BY <1>5, <2>1, <2>2 DEF Start
    <2>4. \A x \in Op : ~Writing(x)'
      BY <1>2, <2>3 DEF Writing
    <2>5. OneMachineOneInstall'
      BY <1>1, <2>1, <2>3 DEF OneMachineOneInstall, Start, IInv, CleanInv, TypeOK
    <2>6. FileFollowsMemory'
      BY <1>1, <1>3, <2>3 DEF FileFollowsMemory, IInv, TypeOK
    <2>7. QED
      BY <1>1, <1>3, <2>1, <2>3, <2>4, <2>5, <2>6, FileAssumption DEF CleanInv, Writing, Unwritten
  <1>6. QED
    BY <1>4, <1>5

\* A memory changed by a goroutine while no other one is writing.
LEMMA StoreStep ==
  ASSUME IInv, NEW o \in Op, NEW p \in Launch, NEW c \in Credential, Store(o, p, c), Up(p),
         c.install = creds[p].install, ~Writing(o), UNCHANGED <<file, life, identity>>
  PROVE  CleanInv'
  <1> SUFFICES ASSUME clean' PROVE CleanInv'
    BY DEF CleanInv
  <1>1. clean /\ \A x \in Op : ~Writing(x)
    BY DEF Store, AloneToWrite, Writing
  <1>2. creds'[p] = c /\ \A q \in Launch \ {p} : creds'[q] = creds[q]
    BY DEF Store, IInv, TypeOK
  <1>3. op'[o].pc = "trunc" /\ op'[o].by = p /\ op'[o].out = c
    BY DEF Store, IInv, TypeOK, Idle
  <1>4. \A x \in Op \ {o} : op'[x] = op[x] /\ ~Writing(x)'
    BY <1>1 DEF Store, IInv, TypeOK, Writing
  <1>5. Writing(o)'
    BY <1>3 DEF Writing, Unwritten
  <1>6. \A q \in Launch : Up(q)' => q = p
    BY <1>1 DEF Up, IInv, CleanInv
  <1>7. OneMachineOneInstall'
    BY <1>1, <1>2 DEF OneMachineOneInstall, IInv, CleanInv
  <1>8. FileFollowsMemory'
    BY <1>3, <1>6 DEF FileFollowsMemory, Unwritten
  <1>9. QED
    BY <1>1, <1>2, <1>3, <1>4, <1>5, <1>6, <1>7, <1>8 DEF IInv, CleanInv, Writing, Unwritten

\* Truncating the file takes nothing away that the writer does not have.
LEMMA TruncateStep ==
  ASSUME IInv, NEW o \in Op, Truncate(o)
  PROVE  CleanInv'
  <1> SUFFICES ASSUME clean PROVE CleanInv'
    BY DEF CleanInv, Truncate
  <1>1. /\ op[o].pc = "trunc" /\ Writing(o)
        /\ op'[o] = [op[o] EXCEPT !.pc = "write"]
        /\ \A x \in Op \ {o} : op'[x] = op[x]
    BY DEF Truncate, Become, IInv, TypeOK, Writing, Unwritten
  <1>2. op'[o].pc = "write" /\ op'[o].by = op[o].by /\ op'[o].out = op[o].out
    BY <1>1 DEF IInv, TypeOK
  <1>3. \A x \in Op : Writing(x)' <=> x = o
    BY <1>1, <1>2 DEF Writing, Unwritten, IInv, CleanInv
  <1>4. OneMachineOneInstall'
    BY DEF OneMachineOneInstall, Truncate, IInv, CleanInv
  <1>5. op[o].by \in Launch /\ Up(op[o].by)
    BY <1>1 DEF IInv, TypeOK, LaunchOrNil
  <1>6. FileFollowsMemory'
    BY <1>2, <1>5 DEF FileFollowsMemory, Unwritten, IInv, CleanInv, Up, Truncate
  <1>7. \A p \in Launch : Up(p)' <=> Up(p)
    BY DEF Truncate, Up
  <1>8. file' = Empty /\ UNCHANGED <<creds, identity>>
    BY DEF Truncate
  <1>9. op'[o].out = creds'[op'[o].by]
    BY <1>1, <1>2, <1>8 DEF IInv, CleanInv
  <1>10. QED
    BY <1>3, <1>4, <1>6, <1>7, <1>8, <1>9, FileAssumption
       DEF IInv, CleanInv, Unwritten, Writing

\* The write puts into the empty file what the one launch has in memory.
LEMMA WriteStep ==
  ASSUME IInv, NEW o \in Op, Write(o)
  PROVE  CleanInv'
  <1> SUFFICES ASSUME clean PROVE CleanInv'
    BY DEF CleanInv, Write
  <1>1. Writing(o) /\ op'[o] = Idle /\ \A x \in Op \ {o} : op'[x] = op[x]
    BY DEF Write, Finish, IInv, TypeOK, Writing, Unwritten
  <1>2. \A x \in Op : ~Writing(x)'
    BY <1>1 DEF Writing, Unwritten, IInv, CleanInv, Idle
  <1>3. op[o].by \in Launch /\ Up(op[o].by) /\ life[op[o].by] # "new"
    BY <1>1 DEF IInv, TypeOK, LaunchOrNil, Up, Writing, Unwritten
  <1>4. file' = op[o].out /\ op[o].out = creds[op[o].by]
    <2>1. file = Empty /\ op[o].out = creds[op[o].by]
      BY <1>1 DEF Write, IInv, CleanInv
    <2>2. Overlay(op[o].out, Empty) = {op[o].out}
      BY FileAssumption DEF Overlay
    <2>3. QED
      BY <2>1, <2>2 DEF Write
  <1>5. file' \in Credential /\ file'.install = identity
    BY <1>3, <1>4 DEF IInv, CleanInv, OneMachineOneInstall, TypeOK
  <1>6. OneMachineOneInstall'
    BY DEF OneMachineOneInstall, Write, IInv, CleanInv
  <1>7. FileFollowsMemory'
    BY <1>3, <1>4 DEF FileFollowsMemory, Write, Up, IInv, CleanInv
  <1>8. QED
    BY <1>2, <1>5, <1>6, <1>7, FileAssumption DEF IInv, CleanInv, Write, Up, Writing, Unwritten

\* A launch that ends while it writes nothing leaves its memory in the file.
LEMMA QuitStep ==
  ASSUME IInv, NEW p \in Launch, Quit(p)
  PROVE  CleanInv'
  <1> SUFFICES ASSUME clean' PROVE CleanInv'
    BY DEF CleanInv
  <1>1. clean /\ \A o \in Op : op[o].by = p => ~Writing(o)
    BY DEF Quit, Writing
  <1>2. \A q \in Launch : ~Up(q)'
    BY <1>1 DEF Quit, Up, IInv, CleanInv, TypeOK
  <1>3. \A x \in Op : ~Writing(x)
    <2>1. \A x \in Op : Writing(x) => op[x].by \in Launch /\ Up(op[x].by)
      BY DEF IInv, TypeOK, LaunchOrNil, Writing, Unwritten
    <2>2. QED
      BY <1>1, <2>1 DEF Quit, IInv, CleanInv
  <1>4. \A x \in Op : ~Writing(x)'
    BY <1>3 DEF Quit, Writing, Idle, Unwritten
  <1>5. OneMachineOneInstall'
    BY <1>1 DEF OneMachineOneInstall, Quit, Up, IInv, CleanInv, TypeOK
  <1>6. FileFollowsMemory'
    BY <1>2 DEF FileFollowsMemory
  <1>7. QED
    BY <1>1, <1>2, <1>3, <1>4, <1>5, <1>6 DEF IInv, CleanInv, Quit, Writing, Unwritten

-----------------------------------------------------------------------------
LEMMA InductiveInit == Init => IInv
  <1> SUFFICES ASSUME Init PROVE IInv
    OBVIOUS
  <1>1. TypeOK
    BY TypeInit
  <1>2. CarriesInstall /\ NewIsBlank
    BY DEF Init, CarriesInstall, NewIsBlank, Idle, Unwritten
  <1>3. CleanInv
    BY FileAssumption DEF Init, CleanInv, Up, Writing, Idle, Unwritten, OneMachineOneInstall,
       FileFollowsMemory
  <1>4. QED
    BY <1>1, <1>2, <1>3 DEF IInv

LEMMA InductiveStep == IInv /\ [Next]_vars => IInv'
  <1> SUFFICES ASSUME IInv, [Next]_vars PROVE IInv'
    OBVIOUS
  <1>0. TypeOK' /\ CarriesInstall' /\ NewIsBlank'
    BY TypeStep, CarriesStep, BlankStep DEF IInv
  <1> SUFFICES CleanInv'
    BY <1>0 DEF IInv
  <1> USE DEF IInv
  <1>1. ASSUME NEW p \in Launch, NEW o \in Op, Start(p, o) PROVE CleanInv'
    BY <1>1, StartStep
  <1>2. ASSUME NEW p \in Launch, NEW o \in Op, Boot(p, o) PROVE CleanInv'
    <2>1. \A x \in Op : Writing(x) => op'[x] = op[x]
      BY <1>2 DEF Boot, Writing, Idle, Unwritten, TypeOK
    <2>2. \A x \in Op : Writing(x)' => Writing(x)
      BY <1>2 DEF Boot, Writing, Idle, Unwritten, TypeOK
    <2>3. \A q \in Launch : (Up(q)' <=> Up(q)) /\ (life'[q] = "new" <=> life[q] = "new")
      BY <1>2 DEF Boot, Up, TypeOK
    <2>4. QED
      BY <1>2, <2>1, <2>2, <2>3, QuietStep DEF Boot
  <1>3. ASSUME NEW p \in Launch, Quit(p) PROVE CleanInv'
    BY <1>3, QuitStep
  <1>4. ASSUME NEW o \in Op, Set(o) PROVE CleanInv'
    <2>1. /\ op[o].by \in Launch /\ Up(op[o].by) /\ op[o].out \in Credential
          /\ op[o].out.install = creds[op[o].by].install /\ ~Writing(o)
      BY <1>4 DEF Set, TypeOK, LaunchOrNil, CarriesInstall, Writing, Unwritten
    <2>2. QED
      BY <1>4, <2>1, StoreStep DEF Set
  <1>5. ASSUME NEW o \in Op, Clear(o) PROVE CleanInv'
    <2>1. op[o].by \in Launch /\ Up(op[o].by) /\ ~Writing(o)
          /\ creds[op[o].by] \in Credential
      BY <1>5 DEF Clear, TypeOK, LaunchOrNil, Writing, Unwritten
    <2>2. /\ Cleared(creds[op[o].by]) \in Credential
          /\ Cleared(creds[op[o].by]).install = creds[op[o].by].install
      BY <2>1 DEF Cleared, NoCredential, Credential, AccountOrNil
    <2>3. QED
      BY <1>5, <2>1, <2>2, StoreStep DEF Clear
  <1>6. ASSUME NEW o \in Op, Truncate(o) \/ Write(o) PROVE CleanInv'
    BY <1>6, TruncateStep, WriteStep
  <1>7. ASSUME NEW o \in Op,
               \/ SignOut(o) \/ Generate(o) \/ GenerateAnswered(o) \/ MeAnswered(o)
               \/ Merge(o) \/ (\E a \in Account : SignIn(o, a))
        PROVE  CleanInv'
    <2>1. ~Writing(o) /\ ~Writing(o)' /\ \A x \in Op \ {o} : op'[x] = op[x]
      <3>1. CASE SignOut(o) \/ Generate(o) \/ \E a \in Account : SignIn(o, a)
        <4>1. op[o] = Idle
          BY <3>1 DEF SignIn, SignOut, Generate
        <4>2. ASSUME NEW a \in Account, SignIn(o, a)
              PROVE  op'[o].pc = "set" /\ \A x \in Op \ {o} : op'[x] = op[x]
          BY <4>2 DEF SignIn, TypeOK
        <4>3. SignOut(o) \/ Generate(o) =>
                 op'[o].pc \in {"clear", "generate"} /\ \A x \in Op \ {o} : op'[x] = op[x]
          BY DEF SignOut, Generate, Idle, TypeOK
        <4>4. QED
          BY <3>1, <4>1, <4>2, <4>3 DEF Writing, Unwritten, Idle
      <3>2. CASE GenerateAnswered(o) \/ MeAnswered(o)
        <4>1. op[o].pc \in {"generate", "revalidate"}
          BY <3>2 DEF GenerateAnswered, MeAnswered
        <4>2. Become(o, "clear") \/ Become(o, "merge") \/ Finish(o)
          BY <3>2 DEF GenerateAnswered, MeAnswered
        <4>3. QED
          BY <4>1, <4>2 DEF Become, Finish, Writing, Unwritten, Idle, TypeOK
      <3>3. CASE Merge(o)
        BY <3>3 DEF Merge, Writing, Unwritten, TypeOK
      <3>4. QED
        BY <1>7, <3>1, <3>2, <3>3
    <2>2. UNCHANGED <<file, creds, life, clean, identity>>
      BY <1>7 DEF SignIn, SignOut, Generate, GenerateAnswered, MeAnswered, Merge
    <2>3. \A x \in Op : (Writing(x) => op'[x] = op[x]) /\ (Writing(x)' => Writing(x))
      BY <2>1 DEF Writing
    <2>4. QED
      BY <2>2, <2>3, QuietStep DEF Up
  <1>8. CASE (\E p \in Launch : Listen(p)) \/ (\E a \in Account : Revoke(a)) \/ UNCHANGED vars
    BY <1>8, QuietStep DEF Listen, Revoke, vars, Up, Writing
  <1>9. QED
    BY <1>1, <1>2, <1>3, <1>4, <1>5, <1>6, <1>7, <1>8 DEF Next

LEMMA Inductive == Spec => []IInv
  BY InductiveInit, InductiveStep, PTL DEF Spec

\* Type correctness of the store, for any number of launches and goroutines.
THEOREM TypeCorrect == Spec => []TypeOK
  BY Inductive, PTL DEF IInv

\* No sign-in, sign-out or answer of the API changes the install id of a launch.
THEOREM InstallCorrect == Spec => InstallKept
  <1>1. IInv /\ [Next]_vars =>
          [\A p \in Launch : creds[p].install # None =>
               creds'[p].install = creds[p].install]_vars
    BY InstallStep DEF IInv
  <1>2. QED
    BY <1>1, Inductive, PTL DEF Spec, InstallKept

\* One machine stays one install as long as nothing overlaps.
THEOREM OneInstallCorrect == Spec => []OneMachineOneInstall
  <1>1. IInv => OneMachineOneInstall
    BY DEF IInv, CleanInv, OneMachineOneInstall
  <1>2. QED
    BY <1>1, Inductive, PTL

\* What a launch has in memory is what the next one will read, as long as
\* nothing overlaps.
THEOREM FileCorrect == Spec => []FileFollowsMemory
  <1>1. IInv => FileFollowsMemory
    BY DEF IInv, CleanInv, FileFollowsMemory
  <1>2. QED
    BY <1>1, Inductive, PTL
=============================================================================
