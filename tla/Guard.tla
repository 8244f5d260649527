-------------------------------- MODULE Guard --------------------------------
(***************************************************************************)
(* The read-only guard on generated SQL (internal/dbexec/guard.go): what   *)
(* strip leaves of a text, how it is cut into statements and words, and    *)
(* which rule the checks report.                                           *)
(*                                                                         *)
(* A text is a sequence of symbols.  The punctuation that strip tells      *)
(* apart is itself; a symbol of a word stands for a whole word or for the  *)
(* beginning of one, and symbols next to each other make one identifier,   *)
(* as in exp_date.  Case is left out, since strip lowers it.               *)
(***************************************************************************)
EXTENDS Strings

CONSTANTS
    ReadOpeners,        \* the first words of a query that reads (line 195)
    ForbiddenAnywhere,  \* forbiddenAnywhere
    DangerousExact,     \* dangerousExact
    DangerousPrefixes,  \* dangerousPrefixes
    FirstWords,         \* firstWords
    OtherWords          \* identifiers of the user's schema

WordSymbol == UNION {ReadOpeners, ForbiddenAnywhere, DangerousExact, DangerousPrefixes,
                     FirstWords, OtherWords, {"into"}}

\* The lists have no punctuation, and the schema's identifiers are none of the
\* words the checks report.
ASSUME VocabularyAssumption ==
    /\ WordSymbol \cap (Space \cup {";"}) = {}
    /\ OtherWords \cap (ForbiddenAnywhere \cup DangerousExact \cup DangerousPrefixes
                           \cup FirstWords \cup {"other", ""}) = {}

\* The symbol that closes a literal, and whether doubling or a backslash can
\* continue one.
Quotes == {"'", "dquote", "backtick"}
Closing(c) == IF c = "[" THEN "]" ELSE c

-----------------------------------------------------------------------------
(* strip.  Positions run past the end of the text, as the indices of the   *)
(* loops do: an unclosed literal or comment swallows the rest.             *)

At(sql, i, c) == i <= Len(sql) /\ sql[i] = c

LineEnd(sql, i) ==
    CHOOSE j \in i..Len(sql) + 1 :
        /\ j > Len(sql) \/ sql[j] = "\n"
        /\ \A k \in i..j - 1 : sql[k] # "\n"

CommentEnd(sql, i) ==
    LET ends == {j \in i..Len(sql) : At(sql, j, "*") /\ At(sql, j + 1, "/")}
    IN  IF ends = {} THEN Len(sql) + 1 ELSE Min(ends) + 1

LiteralEnd_noDoubling(sql, i, backslashEscapes) ==
    LET closing == Closing(sql[i])
        end[j \in i + 1..Len(sql) + 2] ==
            CASE j > Len(sql) \/ At(sql, j, closing) -> j
              [] backslashEscapes /\ At(sql, j, "\\") /\ closing # "]" -> end[j + 2]
              [] OTHER -> end[j + 1]
    IN  end[i + 1]
LiteralEnd(sql, i, backslashEscapes) ==
    LET closing == Closing(sql[i])
        end[j \in i + 1..Len(sql) + 2] ==
            CASE j > Len(sql) -> j
              [] At(sql, j, closing) ->
                    IF closing # "]" /\ At(sql, j + 1, closing) THEN end[j + 2] ELSE j
              [] backslashEscapes /\ At(sql, j, "\\") /\ closing # "]" -> end[j + 2]
              [] OTHER -> end[j + 1]
    IN  end[i + 1]

Strip(sql, backslashEscapes) ==
    LET from[i \in 1..Len(sql) + 3] ==
            CASE i > Len(sql) -> <<>>
              [] At(sql, i, "-") /\ At(sql, i + 1, "-") ->
                    <<"\n">> \o from[LineEnd(sql, i) + 1]
              [] At(sql, i, "/") /\ At(sql, i + 1, "*") ->
                    <<" ">> \o from[CommentEnd(sql, i + 2) + 1]
              [] i <= Len(sql) /\ sql[i] \in Quotes \cup {"["} ->
                    <<" ">> \o from[LiteralEnd(sql, i, backslashEscapes) + 1]
              [] OTHER -> <<sql[i]>> \o from[i + 1]
    IN  from[1]

-----------------------------------------------------------------------------
(* The checks. *)

Blank(s) == ToSet(s) \subseteq Space

\* What stands before each ";" and after the last one, unless it is blank.
SplitStatements(stripped) ==
    LET Closed(p) == IF Blank(p.open) THEN p.stmts ELSE Append(p.stmts, p.open)
        upTo[i \in 0..Len(stripped)] ==
            IF i = 0 THEN [stmts |-> <<>>, open |-> <<>>]
            ELSE LET before == upTo[i - 1]
                 IN  IF stripped[i] = ";" THEN [stmts |-> Closed(before), open |-> <<>>]
                     ELSE [before EXCEPT !.open = Append(@, stripped[i])]
    IN  Closed(upTo[Len(stripped)])

\* The longest runs of word symbols, as FindAllString finds them.
Words(stmt) ==
    LET upTo[i \in 0..Len(stmt)] ==
            IF i = 0 THEN <<>>
            ELSE LET before == upTo[i - 1]
                 IN  IF stmt[i] \notin WordSymbol THEN before
                     ELSE IF i > 1 /\ stmt[i - 1] \in WordSymbol
                          THEN [before EXCEPT ![Len(before)] = Append(@, stmt[i])]
                          ELSE Append(before, <<stmt[i]>>)
    IN  upTo[Len(stmt)]

Ok == [rule |-> "ok", word |-> ""]
Blocked(rule, word) == [rule |-> rule, word |-> word]

KnownFirstWord_verbatim(w) == w[1]
KnownFirstWord(w) ==
    IF Len(w) = 1 /\ w[1] \in FirstWords \cup ForbiddenAnywhere THEN w[1] ELSE "other"

\* A listed word is one symbol that has no neighbour in its identifier.
IsOneOf(w, list) == Len(w) = 1 /\ w[1] \in list

ValidateStripped(stripped) ==
    LET stmts == SplitStatements(stripped)
        words == Words(stmts[1])
        Forbids(w) == IsOneOf(w, ForbiddenAnywhere)
        Reaches(w) == IsOneOf(w, DangerousExact) \/ w[1] \in DangerousPrefixes
    IN  IF Len(stmts) = 0 THEN Blocked("empty", "")
        ELSE IF Len(stmts) > 1 THEN Blocked("multi_statement", "")
        ELSE IF words = <<>> THEN Blocked("not_a_query", "")
        ELSE IF ~IsOneOf(words[1], ReadOpeners)
            THEN Blocked("first_word", KnownFirstWord(words[1]))
        ELSE IF SelectInSeq(words, Forbids) # 0
            THEN Blocked("keyword", words[SelectInSeq(words, Forbids)][1])
        ELSE IF <<"into">> \in ToSet(words) THEN Blocked("select_into", "")
        ELSE IF SelectInSeq(words, Reaches) # 0
            THEN LET w == words[SelectInSeq(words, Reaches)]
                 IN  Blocked(IF IsOneOf(w, DangerousExact) THEN "dangerous_fn"
                             ELSE "dangerous_prefix", w[1])
        ELSE Ok

Validate_oneReading(sql) ==
    IF Blank(sql) THEN Blocked("empty", "") ELSE ValidateStripped(Strip(sql, TRUE))
Validate(sql) ==
    IF Blank(sql) THEN Blocked("empty", "")
    ELSE LET plain == ValidateStripped(Strip(sql, FALSE))
         IN  IF plain # Ok THEN plain ELSE ValidateStripped(Strip(sql, TRUE))
=============================================================================
