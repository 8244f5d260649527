-------------------------------- MODULE Errors --------------------------------
(***************************************************************************)
(* What becomes of a driver's error: the wording the user is shown of it   *)
(* (friendly, of internal/dbinspect and of internal/dbexec), the class     *)
(* analytics is told (Classify), and the skeleton it is told of an error   *)
(* without a class (Shape, internal/dbinspect/errclass.go).                *)
(*                                                                         *)
(* For its class, an error is the set of the phrases its text contains.    *)
(***************************************************************************)
EXTENDS Strings

\* Classify: the first list of which the error contains a phrase.
Classes == <<
    [class |-> "auth_failed",
     phrases |-> {"ora-01017", "error 1045", "error 18456", "28p01", "access denied",
                  "authentication failed", "login failed", "password authentication",
                  "invalid username", "auth failed"}],
    [class |-> "tls", phrases |-> {"tls", "ssl", "x509", "certificate"}],
    [class |-> "timeout",
     phrases |-> {"i/o timeout", "context deadline exceeded", "timeout expired",
                  "connection timed out", "handshake timeout"}],
    [class |-> "host_unreachable",
     phrases |-> {"connection refused", "no such host", "network is unreachable",
                  "host is unreachable", "no connection could be made", "dial tcp",
                  "ora-12154", "ora-12541", "server does not exist", "connectex"}],
    [class |-> "database_missing",
     phrases |-> {"unknown database", "database does not exist", "cannot open database",
                  "ora-01017: invalid", "does not exist and login failed", "error 1049",
                  "3d000"}],
    [class |-> "permission_denied",
     phrases |-> {"permission denied", "insufficient privileges", "ora-00942",
                  "not authorized", "42501", "error 1044"}],
    [class |-> "driver_unsupported", phrases |-> {"unsupported driver", "unknown driver"}]>>

Says(err, phrases) == err \cap phrases # {}

Classify(err) ==
    LET first == SelectInSeq(Classes, LAMBDA list : Says(err, list.phrases))
    IN  IF first = 0 THEN "unknown" ELSE Classes[first].class

\* friendly of the schema reader quotes the error in the sentence it makes.
Missing == {"does not exist", "unknown database", "ora-12514"}
InspectRefused == {"connection refused", "password authentication failed", "access denied",
                   "login failed", "ora-01017"}

InspectFriendly_withoutText(err) ==
    CASE Says(err, InspectRefused) -> {}
      [] Says(err, Missing) -> {"does not exist"}
      [] OTHER -> err
InspectFriendly(err) ==
    IF ~Says(err, InspectRefused) /\ Says(err, Missing)
    THEN err \cup {"does not exist"} ELSE err

\* friendly of the executor replaces some errors and keeps the others; a sentence
\* of its own has none of the phrases of a class.
ExecFriendly(err, deadline) ==
    CASE deadline -> {}
      [] Says(err, {"connection refused", "no such host", "password authentication failed",
                    "access denied", "login failed", "ora-01017"}) -> {}
      [] Says(err, {"permission denied", "must be owner", "does not exist", "unknown column",
                    "unknown table", "invalid object name", "doesn't exist",
                    "syntax error"}) -> err
      [] Says(err, {"read-only", "read only"}) -> {"read-only"}
      [] OTHER -> err

-----------------------------------------------------------------------------
(* Shape, on texts: quotes, blanks, "=", "dot" for what a host, a path or  *)
(* an address has in it, ":", digits, and words.  The cut at 160 symbols   *)
(* is left out.                                                            *)

QuoteMarks == {"'", "dquote", "backtick"}

\* The text without what stands between two quotes of one kind.
Unquoted(s) ==
    LET closing(i) == {j \in i + 1..Len(s) : s[j] = s[i]}
        from[i \in 1..Len(s) + 1] ==
            IF i > Len(s) THEN <<>>
            ELSE IF s[i] \in QuoteMarks /\ closing(i) # {}
                 THEN <<"?">> \o from[Min(closing(i)) + 1]
                 ELSE <<s[i]>> \o from[i + 1]
    IN  from[1]

\* A run of digits becomes one #.
WithoutDigits(tok) ==
    Picked([i \in DOMAIN tok |-> IF tok[i] = "digit" THEN "#" ELSE tok[i]],
           {i \in DOMAIN tok : tok[i] = "digit" => i = 1 \/ tok[i - 1] # "digit"})

RedactToken(tok) ==
    LET eqs == {i \in DOMAIN tok : tok[i] = "="}
    IN  IF eqs # {} /\ 1 \notin eqs THEN SubSeq(tok, 1, Min(eqs)) \o <<"?">>
        ELSE IF "dot" \in ToSet(tok) \/ {":", "digit"} \subseteq ToSet(tok) THEN <<"?">>
        ELSE WithoutDigits(tok)

Redacted(s) == Join([i \in DOMAIN Fields(s) |-> RedactToken(Fields(s)[i])], " ")

Shape_tokensFirst(err) == Unquoted(Redacted(err))
Shape(err) == Redacted(Unquoted(err))
=============================================================================
