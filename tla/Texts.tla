-------------------------------- MODULE Texts --------------------------------
(***************************************************************************)
(* The pure parts of the connector against reference definitions: the      *)
(* guard, the comparison of versions, the outline of a schema and what is  *)
(* said of errors.  The state is one input, which grows symbol by symbol,  *)
(* so that TLC visits every input up to the bounds.                        *)
(***************************************************************************)
EXTENDS Guard, Version, Schema, Errors

CONSTANTS
    MaxQuoted,      \* symbols after "select" in a text about literals and comments
    MaxWords,       \* symbols in a text about words and statements
    MaxParts,       \* parts of a version
    Tables,         \* tables of the database
    MaxRows,        \* rows of the catalogue
    MaxWordings,    \* driver messages wrapped in one error
    MaxError        \* symbols in the text of an error

ASSUME PartsAssumption == MaxParts \in Nat \ {0}
ASSUME TablesAssumption == Tables \in Nat

VARIABLE input

\* A text of punctuation is read by strip, one of words by the checks.
Families == [
    quoted |-> [start |-> <<"select">>, bound |-> MaxQuoted + 1,
                symbols |-> {"'", "[", "]", "-", "/", "*", "\\", "\n", ";", "delete"}],
    words  |-> [start |-> <<>>, bound |-> MaxWords,
                symbols |-> {"select", "delete", "into", "xp_", "lo_import", "declare",
                             "users", " ", ";"}]]

\* 1, 2, v1, x, 2x1, x2 and a number that Atoi refuses.
VersionParts == {<<1>>, <<2>>, <<V, 1>>, <<Text>>, <<2, Text, 1>>, <<Text, 2>>,
                 <<MaxInt + 1>>}

Rows == [table : 1..Tables, column : {"id", "name"}]

\* What the phrases of an error come from: messages of the four drivers.
Wordings == {
    {"dial tcp", "connection refused"}, {"dial tcp", "no such host"},
    {"dial tcp", "i/o timeout"}, {"context deadline exceeded"}, {"tls"},
    {"password authentication failed", "password authentication", "authentication failed",
     "28p01"},
    {"error 1045", "access denied"}, {"login failed"}, {"ora-01017", "invalid username"},
    {"login failed", "cannot open database"}, {"unknown database", "error 1049"},
    {"does not exist", "3d000"}, {"ora-12514"}, {"does not exist"}, {"doesn't exist"},
    {"unknown column"}, {"permission denied", "42501"}, {"syntax error"}, {"read-only"}}

ErrorSymbols == {"'", "dquote", " ", "=", "dot", ":", "digit", "value"}

Init ==
    \/ \E f \in DOMAIN Families :
          input = [kind |-> "query", family |-> f, text |-> Families[f].start]
    \/ input = [kind |-> "version", compared |-> << << <<1>> >>, <<>>, <<>> >>]
    \/ input = [kind |-> "schema", rows |-> <<>>]
    \/ input = [kind |-> "error", wrapped |-> 0, says |-> {}]
    \/ input = [kind |-> "shape", text |-> <<>>]

QueryGrows ==
    /\ input.kind = "query"
    /\ Len(input.text) < Families[input.family].bound
    /\ \E c \in Families[input.family].symbols :
          input' = [input EXCEPT !.text = Append(@, c)]

VersionGrows ==
    /\ input.kind = "version"
    /\ \E i \in 1..3, p \in VersionParts :
          /\ Len(input.compared[i]) < MaxParts
          /\ input' = [input EXCEPT !.compared[i] = Append(@, p)]

SchemaGrows ==
    /\ input.kind = "schema"
    /\ Len(input.rows) < MaxRows
    /\ \E r \in Rows : input' = [input EXCEPT !.rows = Append(@, r)]

ErrorGrows ==
    /\ input.kind = "error"
    /\ input.wrapped < MaxWordings
    /\ \E w \in Wordings :
          input' = [input EXCEPT !.wrapped = @ + 1, !.says = @ \cup w]

ShapeGrows ==
    /\ input.kind = "shape"
    /\ Len(input.text) < MaxError
    /\ \E c \in ErrorSymbols : input' = [input EXCEPT !.text = Append(@, c)]

Next == QueryGrows \/ VersionGrows \/ SchemaGrows \/ ErrorGrows \/ ShapeGrows

Spec == Init /\ [][Next]_input

-----------------------------------------------------------------------------
(* The dialect of the guard, read one symbol after the other, as code, as  *)
(* a comment or as a literal.  Its rules are those of strip (guard.go      *)
(* lines 108-146): a block comment ends at the first closing sign, and "[" *)
(* opens a literal that only "]" closes.  No engine has just these rules;  *)
(* the only difference between engines that the guard allows for is        *)
(* whether a backslash escapes.                                            *)

\* c is read as code after what s has seen.
ReadAsCode(s, c) ==
    CASE c = "-" -> [s EXCEPT !.mode = "dash"]
      [] c = "/" -> [s EXCEPT !.mode = "slash"]
      [] c \in Quotes \cup {"["} ->
            [mode |-> "literal", closing |-> Closing(c), code |-> Append(s.code, " ")]
      [] OTHER -> [s EXCEPT !.mode = "code", !.code = Append(@, c)]

ReadNext(s, c, backslashEscapes) ==
    CASE s.mode = "code" -> ReadAsCode(s, c)
      [] s.mode = "dash" ->
            IF c = "-" THEN [s EXCEPT !.mode = "line", !.code = Append(@, "\n")]
            ELSE ReadAsCode([s EXCEPT !.code = Append(@, "-")], c)
      [] s.mode = "slash" ->
            IF c = "*" THEN [s EXCEPT !.mode = "block", !.code = Append(@, " ")]
            ELSE ReadAsCode([s EXCEPT !.code = Append(@, "/")], c)
      [] s.mode = "line" -> IF c = "\n" THEN [s EXCEPT !.mode = "code"] ELSE s
      [] s.mode = "block" -> IF c = "*" THEN [s EXCEPT !.mode = "star"] ELSE s
      [] s.mode = "star" ->
            [s EXCEPT !.mode = CASE c = "/" -> "code" [] c = "*" -> "star" [] OTHER -> "block"]
      [] s.mode = "literal" ->
            [s EXCEPT !.mode = CASE c = s.closing -> IF c = "]" THEN "code" ELSE "closed"
                                 [] c = "\\" /\ backslashEscapes /\ s.closing # "]" -> "escaped"
                                 [] OTHER -> "literal"]
      [] s.mode = "escaped" -> [s EXCEPT !.mode = "literal"]
      [] s.mode = "closed" ->
            IF c = s.closing THEN [s EXCEPT !.mode = "literal"] ELSE ReadAsCode(s, c)

\* What it has seen after each number of symbols.
Reading(sql, backslashEscapes) ==
    LET after[n \in 0..Len(sql)] ==
            IF n = 0 THEN [mode |-> "code", closing |-> "", code |-> <<>>]
            ELSE ReadNext(after[n - 1], sql[n], backslashEscapes)
    IN  after

CodeOf(sql, backslashEscapes) ==
    LET s == Reading(sql, backslashEscapes)[Len(sql)]
    IN  CASE s.mode = "dash" -> Append(s.code, "-")
          [] s.mode = "slash" -> Append(s.code, "/")
          [] OTHER -> s.code

\* The identifiers of a code start at these positions; one alone is a word.
Starts(code) ==
    {i \in DOMAIN code : code[i] \in WordSymbol /\ (i > 1 => code[i - 1] \notin WordSymbol)}
Alone(code) ==
    {i \in Starts(code) : i < Len(code) => code[i + 1] \notin WordSymbol}

\* A code that is one statement, begins as a read and names nothing that
\* writes or leaves the database.
Harmless(code) ==
    LET said == {i \in DOMAIN code : code[i] \notin Space \cup {";"}}
    IN  /\ \A i, j \in said : \A k \in i..j : code[k] # ";"
        /\ Starts(code) # {}
        /\ Min(Starts(code)) \in Alone(code)
        /\ code[Min(Starts(code))] \in ReadOpeners
        /\ \A i \in Alone(code) :
              code[i] \notin ForbiddenAnywhere \cup DangerousExact \cup {"into"}
        /\ \A i \in Starts(code) : code[i] \notin DangerousPrefixes

-----------------------------------------------------------------------------
IsQuery == input.kind = "query"

\* strip reads comments and literals "in one left-to-right pass" (guard.go line
\* 91): its jumps over positions leave what reading its dialect symbol by symbol
\* leaves, also for what is unclosed, doubled or escaped at the end of the text,
\* with and without escapes.
StripIsOneReading ==
    IsQuery => \A esc \in BOOLEAN : Strip(input.text, esc) = CodeOf(input.text, esc)

\* A text is let through if and only if it is, in the dialect of the guard and
\* both with and without escapes, one statement that reads: cutting it into
\* statements and words misses no rule, and no identifier that only begins or
\* ends like a listed word is taken for one (guard.go lines 55-59, 164-231).
VerdictIsExact ==
    IsQuery => (Validate(input.text) = Ok
                <=> \A esc \in BOOLEAN : Harmless(CodeOf(input.text, esc)))

\* What is reported of a rejected text is never a name of the user's schema
\* (guard.go lines 28-29, 233-235).
NoSchemaWordLeaves ==
    IsQuery => Validate(input.text).word \notin OtherWords

-----------------------------------------------------------------------------
IsVersion == input.kind = "version"

\* A version as one number: its parts are the digits, most significant first.
\* A part is the first number in it, if that is in range, or zero.
Leading(part) ==
    {part[j] : j \in {j \in DOMAIN part : \A k \in 1..j - 1 : part[k] < 0}} \cap 0..MaxInt
Digit(version, i) ==
    IF i > Len(version) \/ Leading(version[i]) = {} THEN 0
    ELSE CHOOSE d \in Leading(version[i]) : TRUE
Rank(version) ==
    LET upTo[n \in 0..MaxParts] ==
            IF n = 0 THEN 0 ELSE upTo[n - 1] * (MaxInt + 1) + Digit(version, n)
    IN  upTo[MaxParts]

\* Comparing part by part orders versions as reading them as numbers does, so
\* that "0.2" and "0.2.0" are one version and two machines never disagree on
\* which of two is newer (update.go lines 92-112).
ComparedByRank ==
    \A a, b \in ToSet(input.compared) :
        a # <<>> /\ b # <<>> =>
            Compare(a, b) = CASE Rank(a) < Rank(b) -> -1
                              [] Rank(a) > Rank(b) -> 1
                              [] OTHER -> 0

\* A build that is told it is no longer supported is also told of the newer
\* one, as long as the API does not demand more than it offers (lines 81-89).
UnsupportedIsOutdated ==
    LET latest == input.compared[2]
        min == input.compared[3]
        status == Check(input.compared[1], latest, min)
    IN  latest # <<>> /\ min # <<>> /\ Rank(min) <= Rank(latest) =>
            (status.unsupported => status.outdated)

\* The order of versions is one order, and both answers of the check follow it.
VersionsAgree == IsVersion => ComparedByRank /\ UnsupportedIsOutdated

-----------------------------------------------------------------------------
IsSchema == input.kind = "schema"

\* The rows of some tables, in the order the database gave them.
RowsOf(rows, tables) == Picked(rows, {i \in DOMAIN rows : rows[i].table \in tables})

\* The context sent for some tables is what the outline would be if the
\* database had only those: the page and SchemaString agree on the format
\* (index.html lines 391-397, inspect.go lines 89-100).
SelectionIsOutline ==
    \A selected \in SUBSET (1..Tables) :
        SchemaOfSelection(Inspect(input.rows), selected)
            = SchemaString(Inspect(RowsOf(input.rows, selected)))

\* The outline loses and invents no column: each table comes once, in order,
\* with its rows in the order the database gave them, however the rows of
\* different tables are mixed (inspect.go lines 65-85); so does a selection.
OutlineIsWhole ==
    IsSchema =>
        LET tables == Inspect(input.rows)
            listed(t) == [i \in DOMAIN t.columns |-> [table |-> t.name, column |-> t.columns[i]]]
            all == FlattenSeq([i \in DOMAIN tables |-> listed(tables[i])])
        IN  /\ \A i, j \in DOMAIN tables : i < j => tables[i].name < tables[j].name
            /\ \A n \in 1..Tables : RowsOf(all, {n}) = RowsOf(input.rows, {n})
            /\ SelectionIsOutline

-----------------------------------------------------------------------------
\* The wording the user is shown does not mislead the class that analytics is
\* told: Classify gets the error after it was reworded (main.go lines 351, 390),
\* finds in a schema error what it would find in the driver's own text, and in a
\* query error that or nothing (inspect.go lines 196-210, exec.go lines 159-184).
FailureKeepsItsClass ==
    input.kind = "error" =>
        LET class == Classify(input.says)
        IN  /\ Classify(InspectFriendly(input.says)) = class
            /\ \A deadline \in BOOLEAN :
                  Classify(ExecFriendly(input.says, deadline)) \in {class, "unknown"}

\* Which positions of an error's text stand for values: those between quotes,
\* and those outside of them in a token that gives a value, an address or a path.
QuotedPositions(text) ==
    LET closing(i) == {j \in i + 1..Len(text) : text[j] = text[i]}
        upTo[i \in 0..Len(text)] ==
            IF i = 0 THEN {}
            ELSE LET before == upTo[i - 1]
                 IN  IF i \in before \/ text[i] \notin QuoteMarks \/ closing(i) = {}
                     THEN before ELSE before \cup i..Min(closing(i))
    IN  upTo[Len(text)]

ValuePositions(text) ==
    LET quoted == QuotedPositions(text)
        blank(i) == i \notin quoted /\ text[i] \in Space
        token(i) == {k \in DOMAIN text : \A m \in (i..k) \cup (k..i) : ~blank(m)}
        has(i, c) == \E k \in token(i) \ quoted : text[k] = c
        gives(i) == \E k \in token(i) \ quoted : text[k] = "=" /\ k < i
    IN  {i \in DOMAIN text :
            /\ ~blank(i)
            /\ \/ i \in quoted
               \/ IF has(i, "=") THEN gives(i)
                  ELSE has(i, "dot") \/ (has(i, ":") /\ has(i, "digit"))}

\* No token of a text begins with "=".
HasKeys(text) ==
    LET quoted == QuotedPositions(text)
    IN  \A i \in DOMAIN text \ quoted :
            text[i] = "=" => i > 1 /\ (i - 1 \in quoted \/ text[i - 1] \notin Space)

\* The skeleton keeps the wording and drops the values: every word between
\* quotes, after a "=" in its token or in a token with a host, a path or an
\* address is gone, and no other (errclass.go lines 99-126), in texts where each
\* "=" has its key before it.  In others it does not hold: line 114 takes a
\* token that begins with "=" for no key=value and keeps what follows, against
\* lines 99 and 111-113.
ShapeDropsValues ==
    input.kind = "shape" /\ HasKeys(input.text) =>
        LET values(text) == {i \in DOMAIN text : text[i] = "value"}
        IN  Cardinality(values(Shape(input.text)))
                = Cardinality(values(input.text) \ ValuePositions(input.text))
=============================================================================
