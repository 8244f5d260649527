------------------------------- MODULE Version -------------------------------
(***************************************************************************)
(* Which version of the connector is newer, and what the user is told      *)
(* (internal/update/update.go).                                            *)
(*                                                                         *)
(* A version is a sequence of parts, as the dots of the text cut it, and a *)
(* part a sequence of pieces: each run of digits is its number, anything   *)
(* between two of them is Text, and a leading v is V.                      *)
(***************************************************************************)
EXTENDS Integers, SequencesExt

CONSTANT
    MaxInt      \* the largest number strconv.Atoi can return

ASSUME MaxIntAssumption == MaxInt \in Nat

Text == -1
V == -2

\* The numeric head of part i of s; what Atoi refuses counts as zero, and so
\* does a part that is missing.
Part(s, i) ==
    IF i > Len(s) THEN 0
    ELSE LET first == SelectInSeq(s[i], LAMBDA piece : piece >= 0)
         IN  IF first = 0 \/ s[i][first] > MaxInt THEN 0 ELSE s[i][first]

\* strings.TrimPrefix(a, "v").
TrimV(version) ==
    IF version[1] # <<>> /\ version[1][1] = V
    THEN [version EXCEPT ![1] = Tail(@)] ELSE version

Compare_shorterIsOlder(a, b) ==
    LET as == TrimV(a)
        bs == TrimV(b)
        differ == {i \in 1..Max({Len(as), Len(bs)}) : Part(as, i) # Part(bs, i)}
    IN  IF Len(as) # Len(bs) THEN (IF Len(as) < Len(bs) THEN -1 ELSE 1)
        ELSE IF differ = {} THEN 0
        ELSE IF Part(as, Min(differ)) < Part(bs, Min(differ)) THEN -1 ELSE 1
Compare(a, b) ==
    LET as == TrimV(a)
        bs == TrimV(b)
        differ == {i \in 1..Max({Len(as), Len(bs)}) : Part(as, i) # Part(bs, i)}
    IN  IF differ = {} THEN 0
        ELSE IF Part(as, Min(differ)) < Part(bs, Min(differ)) THEN -1 ELSE 1

\* The status after a check that was answered.  The answer names the latest
\* version and the oldest one supported; one without parts is an empty text.
Unchecked == [outdated |-> FALSE, unsupported |-> FALSE, checked |-> FALSE]

Check(current, latest, minSupported) ==
    IF latest = <<>> THEN Unchecked
    ELSE [outdated |-> Compare(current, latest) < 0,
          unsupported |-> minSupported # <<>> /\ Compare(current, minSupported) < 0,
          checked |-> TRUE]
=============================================================================
