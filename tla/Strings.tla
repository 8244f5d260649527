------------------------------- MODULE Strings -------------------------------
(***************************************************************************)
(* What the pure modules take from Go's package strings, on texts that are *)
(* sequences of symbols.                                                   *)
(***************************************************************************)
EXTENDS Naturals, SequencesExt

\* The entries of s at the positions I, in their order.
Picked(s, I) ==
    LET upTo[n \in 0..Len(s)] ==
            IF n = 0 THEN <<>>
            ELSE IF n \in I THEN Append(upTo[n - 1], s[n]) ELSE upTo[n - 1]
    IN  upTo[Len(s)]

Space == {" ", "\n"}

\* strings.Fields: the runs of symbols that are no space.
Fields(s) ==
    LET end(i) == Max({j \in i - 1..Len(s) : \A m \in i..j : s[m] \notin Space})
    IN  Picked([i \in DOMAIN s |-> SubSeq(s, i, end(i))],
               {i \in DOMAIN s : s[i] \notin Space /\ (i = 1 \/ s[i - 1] \in Space)})

\* strings.Join.
Join(parts, sep) ==
    LET upTo[n \in 0..Len(parts)] ==
            IF n = 0 THEN <<>>
            ELSE IF n = 1 THEN parts[1] ELSE upTo[n - 1] \o <<sep>> \o parts[n]
    IN  upTo[Len(parts)]

\* sort.Strings: the entries of s, put in ascending order.
Sorted(s) ==
    LET orders == {p \in [DOMAIN s -> DOMAIN s] : IsInjective(p)}
    IN  CHOOSE t \in {[i \in DOMAIN s |-> s[p[i]]] : p \in orders} :
            \A i, j \in DOMAIN s : i < j => t[i] <= t[j]
=============================================================================
