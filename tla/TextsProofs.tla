----------------------------- MODULE TextsProofs -----------------------------
(***************************************************************************)
(* The guard, the rewording and the skeleton of errors, the comparison of  *)
(* versions and the outline of a schema against their references, for      *)
(* inputs of any length and any lists of words.                            *)
(*                                                                         *)
(* strip jumps over positions while the reader of its dialect goes symbol  *)
(* by symbol: Together says where the two meet, and every jump leads from  *)
(* one such place to the next.  The words and the statements of a code are *)
(* described by the positions they stand at (Begins, IsStatement), which   *)
(* is what Harmless speaks of.  Of two versions the first part in which    *)
(* they differ decides, in compare as in the numbers they read as.         *)
(* What is picked of the rows of a schema is described entry by entry, as  *)
(* a row is appended (Picked, Kept).                                       *)
(* What Unquoted leaves of an error comes from known positions of its text *)
(* (LeftOf), so that a token of the one is a token of the other, and what  *)
(* Redacted drops is counted run by run (Lost, Places).                    *)
(***************************************************************************)
EXTENDS Texts, SequenceTheorems, FiniteSetTheorems, WellFoundedInduction, TLAPS

-----------------------------------------------------------------------------
(* Numbers. *)

\* The natural numbers are well-ordered: the source of every induction below.
LEMMA LeastNatural ==
    ASSUME NEW S \in SUBSET Nat, S # {}
    PROVE  \E n \in S : \A m \in S : n <= m
<1>1. PICK k \in S : TRUE
  OBVIOUS
<1> DEFINE U == 1 .. k
           T == {1 .. n : n \in {m \in S : m <= k}}
           R == StrictSubsetOrdering(U)
<1>2. IsWellFoundedOn(R, FiniteSubsetsOf(U))
  BY FS_StrictSubsetOrderingWellFounded
<1>3. T \subseteq FiniteSubsetsOf(U) /\ T # {}
  <2>1. ASSUME NEW n \in S, n <= k PROVE 1 .. n \in SUBSET U /\ IsFiniteSet(1 .. n)
    BY <2>1, FS_Interval
  <2>2. 1 .. k \in T
    BY <1>1
  <2> QED
    BY <2>1, <2>2 DEF FiniteSubsetsOf
<1>4. PICK X \in T : \A Y \in T : <<Y, X>> \notin R
  <2> HIDE DEF T, R
  <2> QED
    BY <1>2, <1>3, WFMin
<1>5. PICK n \in S : n <= k /\ X = 1 .. n
  OBVIOUS
<1>6. ASSUME NEW m \in S, m < n PROVE FALSE
  <2>1. 1 .. m \in T
    BY <1>1, <1>5, <1>6
  <2>2. 1 .. m \subseteq X /\ n \in X /\ n \notin 1 .. m
    BY <1>5, <1>6
  <2>3. <<1 .. m, X>> \in R
    BY <1>1, <1>5, <1>6, <2>2 DEF StrictSubsetOrdering
  <2> QED
    BY <1>4, <2>1, <2>3
<1> QED
  BY <1>1, <1>5, <1>6

\* Induction over an interval, as a fact about the set of numbers that have a property.
LEMMA UpTo ==
    ASSUME NEW a \in Nat, NEW b \in Nat, a <= b, NEW S, a \in S,
           \A n \in a .. b : n \in S /\ n < b => n + 1 \in S
    PROVE  a .. b \subseteq S
<1> SUFFICES ASSUME (a .. b) \ S # {} PROVE FALSE
  OBVIOUS
<1>0. (a .. b) \ S \in SUBSET Nat
  OBVIOUS
<1>1. PICK n \in (a .. b) \ S : \A m \in (a .. b) \ S : n <= m
  BY <1>0, LeastNatural
<1>2. n - 1 \in a .. b /\ n - 1 \in S
  BY <1>1
<1> QED
  BY <1>1, <1>2

\* A walk that only goes forward has a last stop.
LEMMA Greatest ==
    ASSUME NEW a \in Nat, NEW b \in Nat, NEW S \in SUBSET (a .. b), S # {}
    PROVE  \E n \in S : \A m \in S : m <= n
<1> DEFINE T == {b - n : n \in S}
<1>1. \A n \in S : n \in Int /\ b - n \in Nat
  OBVIOUS
<1>2. T \in SUBSET Nat /\ T # {}
  BY <1>1
<1>3. PICK k \in T : \A m \in T : k <= m
  <2> HIDE DEF T
  <2> QED
    BY <1>2, LeastNatural
<1>4. PICK n \in S : k = b - n
  BY <1>3
<1>5. ASSUME NEW m \in S PROVE m <= n
  <2>1. b - m \in T
    OBVIOUS
  <2>2. b - n <= b - m
    BY <1>3, <1>4, <2>1
  <2> QED
    BY <1>1, <2>2
<1> QED
  BY <1>5

\* Induction downwards.
LEMMA DownFrom ==
    ASSUME NEW a \in Nat, NEW b \in Nat, a <= b, NEW S, b \in S,
           \A n \in a .. b : n \in S /\ n > a => n - 1 \in S
    PROVE  a .. b \subseteq S
<1> SUFFICES ASSUME (a .. b) \ S # {} PROVE FALSE
  OBVIOUS
<1>1. PICK n \in (a .. b) \ S : \A m \in (a .. b) \ S : m <= n
  BY Greatest
<1>2. n + 1 \in a .. b /\ n + 1 \in S
  BY <1>1
<1> QED
  BY <1>1, <1>2

\* What Min chooses is there, and is the least.
LEMMA LeastIsMin ==
    ASSUME NEW S \in SUBSET Nat, S # {}
    PROVE  Min(S) \in S /\ \A m \in S : Min(S) <= m
  BY LeastNatural DEF Min

-----------------------------------------------------------------------------
(* Recursion. *)

\* g is at each position what base says, or what F makes of the position and
\* of g at a later one.
Recurs(g, a, b, W, stop, base, next, F) ==
    /\ g \in [a .. b -> W]
    /\ \A j \in a .. b : g[j] = IF j \in stop THEN base[j] ELSE F[<<j, g[next[j]]>>]

\* A function that looks at later positions of its own exists.
LEMMA Recursion ==
    ASSUME NEW a \in Nat, NEW b \in Nat, a <= b, NEW W, NEW stop \in SUBSET (a .. b),
           NEW base \in [a .. b -> W], NEW next,
           \A j \in (a .. b) \ stop : next[j] \in j + 1 .. b,
           NEW F \in [(a .. b) \X W -> W]
    PROVE  \E g : Recurs(g, a, b, W, stop, base, next, F)
<1> DEFINE step(g, j) == IF j \in stop THEN base[j] ELSE F[<<j, g[next[j]]>>]
           K == {c \in a .. b : \E g \in [c .. b -> W] : \A j \in c .. b : g[j] = step(g, j)}
<1>1. b \in K
  <2> DEFINE g == [j \in b .. b |-> base[j]]
  <2>1. b \in stop
    <3>1. b \notin stop => next[b] \in b + 1 .. b
      OBVIOUS
    <3> QED
      BY <3>1
  <2>2. g \in [b .. b -> W] /\ \A j \in b .. b : j = b /\ g[j] = base[b]
    OBVIOUS
  <2>3. \A j \in b .. b : g[j] = step(g, j)
    <3> HIDE DEF g
    <3> QED
      BY <2>1, <2>2
  <2> HIDE DEF g, step
  <2> QED
    BY <2>2, <2>3
<1>2. ASSUME NEW c \in a .. b, c \in K, c > a PROVE c - 1 \in K
  <2>1. PICK g \in [c .. b -> W] : \A j \in c .. b : g[j] = step(g, j)
    BY <1>2
  <2> DEFINE h == [j \in c - 1 .. b |-> IF j = c - 1 THEN step(g, j) ELSE g[j]]
  <2>2. c - 1 \in a .. b /\ c \in a .. b /\ \A j \in (c - 1 .. b) \ stop : next[j] \in c .. b
    <3>1. c - 1 \in a .. b /\ c - 1 .. b \subseteq a .. b
      BY <1>2
    <3>2. ASSUME NEW j \in (c - 1 .. b) \ stop PROVE next[j] \in c .. b
      <4>1. next[j] \in j + 1 .. b
        BY <3>1
      <4> QED
        BY <4>1
    <3> QED
      BY <3>1, <3>2
  <2>3. \A j \in c .. b : j \in c - 1 .. b /\ j # c - 1 /\ h[j] = g[j]
    OBVIOUS
  <2>4. \A j \in c - 1 .. b : step(g, j) \in W
    BY <2>2
  <2>5. h \in [c - 1 .. b -> W] /\ \A j \in c - 1 .. b : h[j] = step(g, j)
    <3> HIDE DEF step
    <3>1. ASSUME NEW j \in c - 1 .. b PROVE h[j] = step(g, j)
      <4>1. j = c - 1 \/ j \in c .. b
        BY <2>2
      <4> QED
        BY <2>1, <2>3, <4>1
    <3> QED
      BY <2>4, <3>1
  <2>6. \A j \in c - 1 .. b : step(h, j) = step(g, j)
    <3> HIDE DEF h
    <3> QED
      BY <2>2, <2>3
  <2> HIDE DEF h, step
  <2> QED
    BY <2>2, <2>5, <2>6
<1>3. a .. b \subseteq K
  <2> HIDE DEF K
  <2> QED
    BY <1>1, <1>2, DownFrom
<1>4. a \in K
  <2>1. a \in a .. b
    OBVIOUS
  <2> HIDE DEF K
  <2> QED
    BY <1>3, <2>1
<1> QED
  BY <1>4 DEF Recurs

-----------------------------------------------------------------------------
(* Errors. *)

\* The class depends on nothing but which lists have a phrase of the error.
LEMMA ClassBySays ==
    ASSUME NEW e, NEW f, \A i \in 1 .. Len(Classes) :
                            Says(e, Classes[i].phrases) <=> Says(f, Classes[i].phrases)
    PROVE  Classify(e) = Classify(f)
<1> DEFINE I(x) == {i \in 1 .. Len(Classes) : Says(x, Classes[i].phrases)}
<1>1. I(e) = I(f)
  OBVIOUS
<1>2. ASSUME NEW x
      PROVE  Classify(x) = LET first == IF I(x) # {} THEN Min(I(x)) ELSE 0
                           IN  IF first = 0 THEN "unknown" ELSE Classes[first].class
  BY DEF Classify, SelectInSeq
<1> HIDE DEF I
<1> QED
  BY <1>1, <1>2

\* An error without a listed phrase has no class.
LEMMA Unclassed ==
    ASSUME NEW e, \A i \in 1 .. Len(Classes) : ~Says(e, Classes[i].phrases)
    PROVE  Classify(e) = "unknown"
<1>1. {i \in 1 .. Len(Classes) : Says(e, Classes[i].phrases)} = {}
  OBVIOUS
<1> QED
  BY <1>1 DEF Classify, SelectInSeq

\* The sentences of both friendly functions have no phrase of any class.
LEMMA OwnWords ==
    /\ Len(Classes) = 7
    /\ \A i \in 1 .. 7 : "does not exist" \notin Classes[i].phrases
                         /\ "read-only" \notin Classes[i].phrases
<1>1. Len(Classes) = 7
  BY DEF Classes
<1> DEFINE Free(i) == {"does not exist", "read-only"} \cap Classes[i].phrases = {}
<1>2. Free(1) /\ Free(2) /\ Free(3) /\ Free(4) /\ Free(5) /\ Free(6) /\ Free(7)
  BY DEF Classes
<1>3. \A i \in 1 .. 7 : Free(i)
  <2> HIDE DEF Free
  <2> QED
    BY <1>2
<1> QED
  BY <1>1, <1>3

\* Rewording an error, for the schema or for a query, never moves it to
\* another class, whatever phrases it has.
THEOREM FailureKeepsItsClassCorrect == Spec => []FailureKeepsItsClass
<1>1. ASSUME NEW e PROVE Classify(InspectFriendly(e)) = Classify(e)
  <2>1. \A i \in 1 .. Len(Classes) :
            Says(InspectFriendly(e), Classes[i].phrases) <=> Says(e, Classes[i].phrases)
    BY OwnWords DEF InspectFriendly, Says
  <2> QED
    BY <2>1, ClassBySays
<1>2. ASSUME NEW e, NEW deadline \in BOOLEAN
      PROVE  Classify(ExecFriendly(e, deadline)) \in {Classify(e), "unknown"}
  <2>1. ExecFriendly(e, deadline) \in {e, {}, {"read-only"}}
    BY DEF ExecFriendly
  <2>2. Classify({}) = "unknown" /\ Classify({"read-only"}) = "unknown"
    BY Unclassed, OwnWords DEF Says
  <2> QED
    BY <2>1, <2>2
<1>3. FailureKeepsItsClass
  BY <1>1, <1>2 DEF FailureKeepsItsClass
<1> QED
  BY <1>3, PTL

\* What texts are made of.
TextSymbol == UNION {Families[f].symbols : f \in DOMAIN Families}
Symbol == TextSymbol \cup {" ", "\n", "-", "/"}

-----------------------------------------------------------------------------
(* strip. *)

\* What strip and the reader write is what texts are made of.
LEMMA MarksAreSymbols == {" ", "\n", "-", "/"} \subseteq Symbol
  BY DEF Symbol

\* A line comment ends at the first newline, or past the end.
LEMMA LineEndIs ==
    ASSUME NEW sql \in Seq(Symbol), NEW i \in 1 .. Len(sql)
    PROVE  LET j == LineEnd(sql, i)
           IN  /\ j \in i .. Len(sql) + 1
               /\ j <= Len(sql) => sql[j] = "\n"
               /\ \A k \in i .. j - 1 : sql[k] # "\n"
<1> DEFINE L == {k \in i .. Len(sql) : sql[k] = "\n"}
           Q(j) == /\ j > Len(sql) \/ sql[j] = "\n"
                   /\ \A k \in i .. j - 1 : sql[k] # "\n"
<1>1. \E j \in i .. Len(sql) + 1 : Q(j)
  <2>1. CASE L = {}
    BY <2>1
  <2>2. CASE L # {}
    <3>1. PICK j \in L : \A k \in L : j <= k
      <4>1. L \in SUBSET Nat
        OBVIOUS
      <4> HIDE DEF L
      <4> QED
        BY <2>2, <4>1, LeastNatural
    <3> QED
      BY <3>1
  <2> QED
    BY <2>1, <2>2
<1>2. LineEnd(sql, i) = CHOOSE j \in i .. Len(sql) + 1 : Q(j)
  BY DEF LineEnd
<1>3. LineEnd(sql, i) \in i .. Len(sql) + 1 /\ Q(LineEnd(sql, i))
  <2> HIDE DEF Q
  <2> QED
    BY <1>1, <1>2
<1> QED
  BY <1>3

\* A block comment ends at the first star with a slash, or past the end.
LEMMA CommentEndIs ==
    ASSUME NEW sql \in Seq(Symbol), NEW i \in 1 .. Len(sql) + 1
    PROVE  LET e == CommentEnd(sql, i)
           IN  /\ e \in i .. Len(sql) + 1
               /\ e <= Len(sql) => e > i /\ sql[e - 1] = "*" /\ sql[e] = "/"
               /\ \A k \in i .. e - 2 : ~(sql[k] = "*" /\ sql[k + 1] = "/")
<1> DEFINE ends == {j \in i .. Len(sql) : At(sql, j, "*") /\ At(sql, j + 1, "/")}
<1>1. CASE ends = {}
  <2>1. CommentEnd(sql, i) = Len(sql) + 1
    BY <1>1 DEF CommentEnd
  <2>2. ASSUME NEW k \in i .. Len(sql) - 1 PROVE ~(sql[k] = "*" /\ sql[k + 1] = "/")
    <3>1. k \notin ends /\ k \in i .. Len(sql) /\ k + 1 <= Len(sql)
      BY <1>1
    <3> QED
      BY <3>1 DEF At
  <2> QED
    BY <2>1, <2>2
<1>2. CASE ends # {}
  <2>1. ends \in SUBSET Nat
    OBVIOUS
  <2>2. PICK j \in ends : j = Min(ends) /\ \A k \in ends : j <= k
    <3> HIDE DEF ends
    <3> QED
      BY <1>2, <2>1, LeastIsMin
  <2>3. CommentEnd(sql, i) = j + 1
    BY <1>2, <2>2 DEF CommentEnd
  <2>4. ASSUME NEW k \in i .. j - 1 PROVE ~(sql[k] = "*" /\ sql[k + 1] = "/")
    <3>1. k \notin ends /\ k \in i .. Len(sql) /\ k + 1 <= Len(sql)
      BY <2>2
    <3> QED
      BY <3>1 DEF At
  <2>5. j \in i .. Len(sql) /\ j + 1 <= Len(sql) /\ sql[j] = "*" /\ sql[j + 1] = "/"
    BY <2>2 DEF At
  <2> HIDE DEF ends
  <2> QED
    BY <2>3, <2>4, <2>5
<1> QED
  BY <1>1, <1>2

\* The loop over a literal: where it stops, and the position it goes on at.
LiteralStops(sql, i, j) ==
    \/ j > Len(sql)
    \/ At(sql, j, Closing(sql[i])) /\ (Closing(sql[i]) = "]" \/ ~At(sql, j + 1, Closing(sql[i])))
LiteralNext(sql, i, esc, j) ==
    IF At(sql, j, Closing(sql[i])) \/ (esc /\ At(sql, j, "\\") /\ Closing(sql[i]) # "]")
    THEN j + 2 ELSE j + 1

\* The loop over a literal goes from each position to the next until it stops.
LEMMA LiteralEndIs ==
    ASSUME NEW sql \in Seq(Symbol), NEW i \in 1 .. Len(sql), NEW esc \in BOOLEAN,
           sql[i] \in Quotes \cup {"["}
    PROVE  \E end :
              /\ LiteralEnd(sql, i, esc) = end[i + 1]
              /\ \A j \in i + 1 .. Len(sql) + 2 :
                    /\ end[j] \in j .. Len(sql) + 2
                    /\ end[j] = IF LiteralStops(sql, i, j) THEN j
                                ELSE end[LiteralNext(sql, i, esc, j)]
<1> DEFINE closing == Closing(sql[i])
           m == Len(sql) + 2
           body(g, j) ==
              CASE j > Len(sql) -> j
                [] At(sql, j, closing) ->
                      IF closing # "]" /\ At(sql, j + 1, closing) THEN g[j + 2] ELSE j
                [] esc /\ At(sql, j, "\\") /\ closing # "]" -> g[j + 2]
                [] OTHER -> g[j + 1]
           next(j) == LiteralNext(sql, i, esc, j)
           stops(j) == LiteralStops(sql, i, j)
           step(g, j) == IF stops(j) THEN j ELSE g[next(j)]
<1>0. i + 1 \in Nat /\ m \in Nat /\ i + 1 <= m
  OBVIOUS
<1>1. Len(sql) \in Nat /\ i \in Nat /\ m \in Nat /\ i + 1 <= m
  OBVIOUS
<1>2. ASSUME NEW g, NEW j \in i + 1 .. m PROVE body(g, j) = step(g, j)
  <2>1. closing # "\\"
    BY DEF Closing, Quotes
  <2>2. j > Len(sql) => ~At(sql, j, closing) /\ ~At(sql, j, "\\")
    BY <1>1 DEF At
  <2>3. ~(At(sql, j, closing) /\ At(sql, j, "\\"))
    BY <2>1 DEF At
  <2> QED
    BY <2>2, <2>3 DEF LiteralStops, LiteralNext
<1>3. ASSUME NEW j \in i + 1 .. m, ~stops(j)
      PROVE  next(j) \in j + 1 .. m
  BY <1>1, <1>3 DEF LiteralStops, LiteralNext
<1> DEFINE stop == {j \in i + 1 .. m : stops(j)}
           base == [j \in i + 1 .. m |-> j]
           follow == [j \in i + 1 .. m |-> next(j)]
           F == [p \in (i + 1 .. m) \X Nat |-> p[2]]
<1>4. PICK g : Recurs(g, i + 1, m, Nat, stop, base, follow, F)
  <2>1. stop \in SUBSET (i + 1 .. m) /\ base \in [i + 1 .. m -> Nat]
        /\ F \in [(i + 1 .. m) \X Nat -> Nat]
    BY <1>1
  <2>2. \A j \in (i + 1 .. m) \ stop : follow[j] \in j + 1 .. m
    BY <1>3
  <2> HIDE DEF stop, base, follow, F, m
  <2> QED
    BY <1>0, <2>1, <2>2, Recursion
<1>5. g = [j \in i + 1 .. m |-> body(g, j)]
  <2>1. ASSUME NEW j \in i + 1 .. m PROVE g[j] = step(g, j)
    <3> HIDE DEF next, stops, m
    <3>1. CASE stops(j)
      BY <1>4, <3>1 DEF Recurs
    <3>2. CASE ~stops(j)
      <4>1. follow[j] = next(j) /\ next(j) \in i + 1 .. m
        BY <1>0, <1>3, <3>2
      <4>2. g[follow[j]] \in Nat
        BY <1>4, <4>1 DEF Recurs
      <4>3. g[j] = F[<<j, g[follow[j]]>>]
        BY <1>4, <3>2 DEF Recurs
      <4> QED
        BY <3>2, <4>1, <4>2, <4>3
    <3> QED
      BY <3>1, <3>2
  <2>2. \A j \in i + 1 .. m : g[j] = body(g, j)
    <3> HIDE DEF body, step, m
    <3> QED
      BY <1>2, <2>1
  <2>3. g = [j \in i + 1 .. m |-> g[j]]
    BY <1>4 DEF Recurs
  <2> HIDE DEF body, m
  <2> QED
    BY <2>2, <2>3
<1> DEFINE end == CHOOSE h : h = [j \in i + 1 .. m |-> body(h, j)]
<1>6. end = [j \in i + 1 .. m |-> body(end, j)]
  <2> HIDE DEF body, m
  <2> QED
    BY <1>5
<1>7. LiteralEnd(sql, i, esc) = end[i + 1]
  BY DEF LiteralEnd
<1> HIDE DEF end
<1>8. \A j \in i + 1 .. m : end[j] = step(end, j)
  <2> HIDE DEF body, step, m
  <2> QED
    BY <1>2, <1>6
<1> HIDE DEF body, stops, next, m
<1> DEFINE K == {c \in i + 1 .. m : \A j \in c .. m : end[j] \in j .. m}
<1>9. m \in K
  <2>1. stops(m)
    BY <1>0 DEF stops, LiteralStops, m
  <2> QED
    BY <1>0, <1>8, <2>1
<1>10. ASSUME NEW c \in i + 1 .. m, c \in K, c > i + 1 PROVE c - 1 \in K
  <2>1. c - 1 \in i + 1 .. m /\ c \in Int
    BY <1>0, <1>10
  <2>2. end[c - 1] \in c - 1 .. m
    <3>1. CASE stops(c - 1)
      BY <1>0, <1>8, <2>1, <3>1
    <3>2. CASE ~stops(c - 1)
      <4>1. next(c - 1) \in c .. m
        BY <1>3, <2>1, <3>2
      <4>2. end[next(c - 1)] \in next(c - 1) .. m
        BY <1>10, <4>1
      <4> QED
        BY <1>0, <1>8, <2>1, <3>2, <4>1, <4>2
    <3> QED
      BY <3>1, <3>2
  <2>3. \A j \in c - 1 .. m : j = c - 1 \/ j \in c .. m
    BY <1>0, <2>1
  <2> QED
    BY <1>10, <2>1, <2>2, <2>3
<1>11. i + 1 .. m \subseteq K
  <2> HIDE DEF K
  <2> QED
    BY <1>0, <1>9, <1>10, DownFrom
<1>12. \A j \in i + 1 .. m : end[j] \in j .. m
  BY <1>0, <1>11
<1> QED
  BY <1>7, <1>8, <1>12 DEF stops, next, m

\* What strip puts in place of what starts at a position, and where it goes on.
Left(sql, i) ==
    IF At(sql, i, "-") /\ At(sql, i + 1, "-") THEN <<"\n">>
    ELSE IF (At(sql, i, "/") /\ At(sql, i + 1, "*")) \/ sql[i] \in Quotes \cup {"["} THEN <<" ">>
    ELSE <<sql[i]>>
After(sql, i, esc) ==
    IF At(sql, i, "-") /\ At(sql, i + 1, "-") THEN LineEnd(sql, i) + 1
    ELSE IF At(sql, i, "/") /\ At(sql, i + 1, "*") THEN CommentEnd(sql, i + 2) + 1
    ELSE IF sql[i] \in Quotes \cup {"["} THEN LiteralEnd(sql, i, esc) + 1
    ELSE i + 1

\* strip always goes forward, by at most two positions past the end.
LEMMA AfterIs ==
    ASSUME NEW sql \in Seq(Symbol), NEW i \in 1 .. Len(sql), NEW esc \in BOOLEAN
    PROVE  After(sql, i, esc) \in i + 1 .. Len(sql) + 3 /\ Left(sql, i) \in Seq(Symbol)
<1>0. Len(sql) \in Nat /\ i \in Nat /\ sql[i] \in Symbol
  OBVIOUS
<1>1. Left(sql, i) \in Seq(Symbol)
  <2>1. \A c \in Symbol : <<c>> \in Seq(Symbol)
    OBVIOUS
  <2>a. "\n" \in Symbol /\ " " \in Symbol
    BY MarksAreSymbols
  <2>2. PICK c \in Symbol : c = sql[i]
    BY <1>0
  <2> QED
    BY <2>1, <2>a, <2>2 DEF Left
<1>2. CASE At(sql, i, "-") /\ At(sql, i + 1, "-")
  <2>1. PICK j \in i .. Len(sql) + 1 : LineEnd(sql, i) = j
    BY LineEndIs
  <2> QED
    BY <1>0, <1>1, <1>2, <2>1 DEF After
<1>3. CASE ~(At(sql, i, "-") /\ At(sql, i + 1, "-")) /\ At(sql, i, "/") /\ At(sql, i + 1, "*")
  <2>1. i + 2 \in 1 .. Len(sql) + 1
    BY <1>0, <1>3 DEF At
  <2>2. PICK j \in i + 2 .. Len(sql) + 1 : CommentEnd(sql, i + 2) = j
    BY <2>1, CommentEndIs
  <2> QED
    BY <1>0, <1>1, <1>3, <2>2 DEF After
<1>4. CASE /\ ~(At(sql, i, "-") /\ At(sql, i + 1, "-"))
           /\ ~(At(sql, i, "/") /\ At(sql, i + 1, "*"))
           /\ sql[i] \in Quotes \cup {"["}
  <2>1. PICK j \in i + 1 .. Len(sql) + 2 : LiteralEnd(sql, i, esc) = j
    <3>1. PICK end :
              /\ LiteralEnd(sql, i, esc) = end[i + 1]
              /\ \A j \in i + 1 .. Len(sql) + 2 : end[j] \in j .. Len(sql) + 2
      BY <1>4, LiteralEndIs
    <3> QED
      BY <1>0, <3>1
  <2> QED
    BY <1>0, <1>1, <1>4, <2>1 DEF After
<1> QED
  BY <1>0, <1>1, <1>2, <1>3, <1>4 DEF After

\* strip is at each position what it puts there and what it makes of the rest.
LEMMA StripIs ==
    ASSUME NEW sql \in Seq(Symbol), NEW esc \in BOOLEAN
    PROVE  \E from :
              /\ Strip(sql, esc) = from[1]
              /\ \A i \in 1 .. Len(sql) + 3 :
                    /\ from[i] \in Seq(Symbol)
                    /\ from[i] = IF i > Len(sql) THEN <<>>
                                 ELSE Left(sql, i) \o from[After(sql, i, esc)]
<1> DEFINE m == Len(sql) + 3
           body(g, i) ==
              CASE i > Len(sql) -> <<>>
                [] At(sql, i, "-") /\ At(sql, i + 1, "-") ->
                    <<"\n">> \o g[LineEnd(sql, i) + 1]
                [] At(sql, i, "/") /\ At(sql, i + 1, "*") ->
                    <<" ">> \o g[CommentEnd(sql, i + 2) + 1]
                [] i <= Len(sql) /\ sql[i] \in Quotes \cup {"["} ->
                    <<" ">> \o g[LiteralEnd(sql, i, esc) + 1]
                [] OTHER -> <<sql[i]>> \o g[i + 1]
           step(g, i) == IF i > Len(sql) THEN <<>> ELSE Left(sql, i) \o g[After(sql, i, esc)]
           W == Seq(Symbol)
<1>0. Len(sql) \in Nat /\ m \in Nat /\ 1 <= m
  OBVIOUS
<1>1. ASSUME NEW g, NEW i \in 1 .. m PROVE body(g, i) = step(g, i)
  <2>1. CASE i > Len(sql)
    BY <1>0, <2>1 DEF At
  <2>2. CASE i <= Len(sql)
    <3>1. ~(i > Len(sql))
      BY <1>0, <2>2
    <3>2. ~(At(sql, i, "-") /\ At(sql, i, "/"))
      BY DEF At
    <3>3. (At(sql, i, "-") \/ At(sql, i, "/")) => sql[i] \notin Quotes \cup {"["}
      BY DEF At, Quotes
    <3>4. CASE At(sql, i, "-") /\ At(sql, i + 1, "-")
      BY <3>1, <3>2, <3>3, <3>4 DEF Left, After
    <3>5. CASE At(sql, i, "/") /\ At(sql, i + 1, "*")
      BY <3>1, <3>2, <3>3, <3>5 DEF Left, After
    <3>6. CASE sql[i] \in Quotes \cup {"["}
      <4>1. ~At(sql, i, "-") /\ ~At(sql, i, "/")
        BY <3>3, <3>6
      <4> QED
        BY <2>2, <3>1, <3>6, <4>1 DEF Left, After
    <3>7. CASE /\ ~(At(sql, i, "-") /\ At(sql, i + 1, "-"))
               /\ ~(At(sql, i, "/") /\ At(sql, i + 1, "*"))
               /\ sql[i] \notin Quotes \cup {"["}
      BY <2>2, <3>1, <3>7 DEF Left, After
    <3> QED
      BY <3>4, <3>5, <3>6, <3>7
  <2>3. i > Len(sql) \/ i <= Len(sql)
    BY <1>0
  <2> QED
    BY <2>1, <2>2, <2>3
<1> DEFINE stop == Len(sql) + 1 .. m
           base == [i \in 1 .. m |-> <<>>]
           follow == [i \in 1 .. m |-> After(sql, i, esc)]
           F == [p \in (1 .. m) \X W |-> IF p[1] \in stop THEN <<>> ELSE Left(sql, p[1]) \o p[2]]
<1>2. \A i \in (1 .. m) \ stop : /\ i \in 1 .. Len(sql)
                                 /\ After(sql, i, esc) \in i + 1 .. m
                                 /\ Left(sql, i) \in W
  <2>1. \A i \in (1 .. m) \ stop : i \in 1 .. Len(sql)
    BY <1>0
  <2> QED
    BY <2>1, AfterIs
<1>3. PICK g : Recurs(g, 1, m, W, stop, base, follow, F)
  <2>1. stop \in SUBSET (1 .. m) /\ base \in [1 .. m -> W]
    BY <1>0
  <2>2. F \in [(1 .. m) \X W -> W]
    <3>1. ASSUME NEW p \in (1 .. m) \X W
          PROVE  (IF p[1] \in stop THEN <<>> ELSE Left(sql, p[1]) \o p[2]) \in W
      <4>1. p[1] \in 1 .. m /\ p[2] \in W
        OBVIOUS
      <4>2. CASE p[1] \in stop
        BY <4>2
      <4>3. CASE p[1] \notin stop
        <5>1. PICK i \in (1 .. m) \ stop : p[1] = i
          BY <4>1, <4>3
        <5>2. Left(sql, i) \in Seq(Symbol)
          <6> HIDE DEF stop, m
          <6> QED
            BY <1>2
        <5>3. PICK l \in Seq(Symbol), o \in Seq(Symbol) : l = Left(sql, i) /\ o = p[2]
          BY <4>1, <5>2
        <5>4. l \o o \in Seq(Symbol)
          BY ConcatProperties
        <5> HIDE DEF stop, m
        <5> QED
          BY <4>3, <5>1, <5>3, <5>4
      <4> QED
        BY <4>2, <4>3
    <3> HIDE DEF stop, m
    <3> QED
      BY <3>1
  <2>3. \A i \in (1 .. m) \ stop : follow[i] \in i + 1 .. m
    BY <1>2
  <2> HIDE DEF stop, base, follow, F, m, W
  <2> QED
    BY <1>0, <2>1, <2>2, <2>3, Recursion
<1>4. \A i \in 1 .. m : g[i] = step(g, i)
  <2>1. ASSUME NEW i \in 1 .. m PROVE g[i] = step(g, i)
    <3>1. CASE i \in stop
      <4>1. g[i] = base[i]
        BY <1>3, <3>1 DEF Recurs
      <4> QED
        BY <1>0, <3>1, <4>1
    <3>2. CASE i \notin stop
      <4>1. follow[i] = After(sql, i, esc) /\ After(sql, i, esc) \in 1 .. m /\ i <= Len(sql)
        BY <1>0, <1>2, <3>2
      <4>2. g[follow[i]] \in W
        <5> HIDE DEF W, m, follow
        <5> QED
          BY <1>3, <4>1 DEF Recurs
      <4>3. g[i] = F[<<i, g[follow[i]]>>]
        <5> HIDE DEF F, follow, base, stop, W, m
        <5> QED
          BY <1>3, <3>2 DEF Recurs
      <4>4. F[<<i, g[follow[i]]>>] = Left(sql, i) \o g[follow[i]]
        <5> HIDE DEF follow, stop, W, m
        <5> QED
          BY <3>2, <4>2 DEF F
      <4> HIDE DEF F, follow, base, stop, W, m
      <4> QED
        BY <1>0, <4>1, <4>3, <4>4
    <3> QED
      BY <3>1, <3>2
  <2> QED
    BY <2>1
<1>5. g = [i \in 1 .. m |-> body(g, i)]
  <2>1. \A i \in 1 .. m : g[i] = body(g, i)
    <3> HIDE DEF body, step, m
    <3> QED
      BY <1>1, <1>4
  <2>2. g = [i \in 1 .. m |-> g[i]]
    BY <1>3 DEF Recurs
  <2> HIDE DEF body, m
  <2> QED
    BY <2>1, <2>2
<1> DEFINE from == CHOOSE h : h = [i \in 1 .. m |-> body(h, i)]
<1>6. from = [i \in 1 .. m |-> body(from, i)]
  <2> HIDE DEF body, m
  <2> QED
    BY <1>5
<1>7. Strip(sql, esc) = from[1]
  BY DEF Strip
<1> HIDE DEF from
<1>8. \A i \in 1 .. m : from[i] = step(from, i)
  <2> HIDE DEF body, step, m
  <2> QED
    BY <1>1, <1>6
<1> DEFINE K == {c \in 1 .. m : \A i \in c .. m : from[i] \in W}
<1> HIDE DEF body, m, W
<1>9. \A i \in 1 .. m : i > Len(sql) => from[i] \in W
  <2>1. <<>> \in W
    BY DEF W
  <2> QED
    BY <1>8, <2>1
<1>10. m \in K
  BY <1>0, <1>9 DEF m
<1>11. ASSUME NEW c \in 1 .. m, c \in K, c > 1 PROVE c - 1 \in K
  <2>1. c - 1 \in 1 .. m /\ c \in Int
    BY <1>0, <1>11
  <2>2. from[c - 1] \in W
    <3>1. CASE c - 1 > Len(sql)
      BY <1>9, <2>1, <3>1
    <3>2. CASE c - 1 <= Len(sql)
      <4>1. c - 1 \in 1 .. Len(sql)
        BY <1>0, <2>1, <3>2
      <4>2. After(sql, c - 1, esc) \in c .. m /\ Left(sql, c - 1) \in Seq(Symbol)
        <5>1. /\ After(sql, c - 1, esc) \in (c - 1) + 1 .. Len(sql) + 3
              /\ Left(sql, c - 1) \in Seq(Symbol)
          BY <4>1, AfterIs
        <5>2. (c - 1) + 1 = c
          BY <2>1
        <5> QED
          BY <5>1, <5>2 DEF m
      <4>3. from[After(sql, c - 1, esc)] \in W
        BY <1>11, <4>2
      <4>4. Left(sql, c - 1) \o from[After(sql, c - 1, esc)] \in Seq(Symbol)
        BY <4>2, <4>3, ConcatProperties DEF W
      <4>5. from[c - 1] = Left(sql, c - 1) \o from[After(sql, c - 1, esc)]
        <5>1. ~(c - 1 > Len(sql))
          BY <1>0, <2>1, <3>2
        <5> QED
          BY <1>8, <2>1, <5>1
      <4> QED
        BY <4>4, <4>5 DEF W
    <3> QED
      BY <1>0, <2>1, <3>1, <3>2
  <2>3. \A j \in c - 1 .. m : j = c - 1 \/ j \in c .. m
    BY <1>0, <2>1
  <2> QED
    BY <1>11, <2>1, <2>2, <2>3
<1>12. 1 .. m \subseteq K
  <2> HIDE DEF K
  <2> QED
    BY <1>0, <1>10, <1>11, DownFrom
<1>13. \A i \in 1 .. m : from[i] \in W
  BY <1>0, <1>12
<1> QED
  BY <1>7, <1>8, <1>13 DEF m, W

-----------------------------------------------------------------------------
(* The reader. *)

Modes == {"code", "dash", "slash", "line", "block", "star", "literal", "escaped", "closed"}
Seen == [mode : Modes, closing : {"", "'", "dquote", "backtick", "]"}, code : Seq(Symbol)]
NothingSeen == [mode |-> "code", closing |-> "", code |-> <<>>]

\* What a symbol is appended to.
LEMMA AppendedIsSeq ==
    ASSUME NEW S, NEW s \in Seq(S), NEW c \in S
    PROVE  Append(s, c) \in Seq(S)
  OBVIOUS

\* The reader stays in its modes and collects symbols: reading a symbol as code ...
LEMMA ReadAsCodeSeen ==
    ASSUME NEW s \in Seen, NEW c \in Symbol
    PROVE  ReadAsCode(s, c) \in Seen
<1>1. CASE c = "-"
  <2>1. c # "/" /\ c \notin Quotes \cup {"["}
    BY <1>1 DEF Quotes
  <2> QED
    BY <1>1, <2>1 DEF ReadAsCode, Seen, Modes
<1>2. CASE c = "/"
  <2>1. c # "-" /\ c \notin Quotes \cup {"["}
    BY <1>2 DEF Quotes
  <2> QED
    BY <1>2, <2>1 DEF ReadAsCode, Seen, Modes
<1>3. CASE c \in Quotes \cup {"["}
  <2>1. c # "-" /\ c # "/" /\ Closing(c) \in {"'", "dquote", "backtick", "]"}
    BY <1>3 DEF Quotes, Closing
  <2>2. Append(s.code, " ") \in Seq(Symbol)
    BY MarksAreSymbols, AppendedIsSeq DEF Seen
  <2> QED
    BY <1>3, <2>1, <2>2 DEF ReadAsCode, Seen, Modes
<1>4. CASE c # "-" /\ c # "/" /\ c \notin Quotes \cup {"["}
  <2>1. Append(s.code, c) \in Seq(Symbol)
    BY AppendedIsSeq DEF Seen
  <2> QED
    BY <1>4, <2>1 DEF ReadAsCode, Seen, Modes
<1> QED
  BY <1>1, <1>2, <1>3, <1>4

\* ... and reading one in any mode.
LEMMA ReadNextSeen ==
    ASSUME NEW s \in Seen, NEW c \in Symbol, NEW esc \in BOOLEAN
    PROVE  ReadNext(s, c, esc) \in Seen
<1>1. \A d \in {" ", "\n", "-", "/"} : [s EXCEPT !.code = Append(@, d)] \in Seen
  BY MarksAreSymbols, AppendedIsSeq DEF Seen
<1>2. CASE s.mode = "code"
  BY <1>2, ReadAsCodeSeen DEF ReadNext
<1>3. CASE s.mode = "dash"
  <2>1. [s EXCEPT !.code = Append(@, "-")] \in Seen
    BY <1>1
  <2>2. ReadAsCode([s EXCEPT !.code = Append(@, "-")], c) \in Seen
    BY <2>1, ReadAsCodeSeen
  <2>3. Append(s.code, "\n") \in Seq(Symbol)
    BY MarksAreSymbols, AppendedIsSeq DEF Seen
  <2>4. [s EXCEPT !.mode = "line", !.code = Append(@, "\n")] \in Seen
    BY <2>3 DEF Seen, Modes
  <2> QED
    BY <1>3, <2>2, <2>4 DEF ReadNext
<1>4. CASE s.mode = "slash"
  <2>1. [s EXCEPT !.code = Append(@, "/")] \in Seen
    BY <1>1
  <2>2. ReadAsCode([s EXCEPT !.code = Append(@, "/")], c) \in Seen
    BY <2>1, ReadAsCodeSeen
  <2>3. Append(s.code, " ") \in Seq(Symbol)
    BY MarksAreSymbols, AppendedIsSeq DEF Seen
  <2>4. [s EXCEPT !.mode = "block", !.code = Append(@, " ")] \in Seen
    BY <2>3 DEF Seen, Modes
  <2> QED
    BY <1>4, <2>2, <2>4 DEF ReadNext
<1>5. CASE s.mode = "closed"
  <2>1. ReadAsCode(s, c) \in Seen /\ [s EXCEPT !.mode = "literal"] \in Seen
    BY ReadAsCodeSeen DEF Seen, Modes
  <2> QED
    BY <1>5, <2>1 DEF ReadNext
<1>6. CASE s.mode \in {"line", "block", "star", "literal", "escaped"}
  <2>1. \A m \in Modes : [s EXCEPT !.mode = m] \in Seen
    BY DEF Seen
  <2>2. \E m \in Modes : ReadNext(s, c, esc) = [s EXCEPT !.mode = m]
    <3>1. s = [s EXCEPT !.mode = s.mode]
      BY DEF Seen
    <3>2. CASE s.mode = "line"
      BY <3>1, <3>2 DEF ReadNext, Modes
    <3>3. CASE s.mode = "block"
      BY <3>1, <3>3 DEF ReadNext, Modes
    <3>4. CASE s.mode = "star"
      <4>1. (CASE c = "/" -> "code" [] c = "*" -> "star" [] OTHER -> "block") \in Modes
        BY DEF Modes
      <4> QED
        BY <3>4, <4>1 DEF ReadNext
    <3>5. CASE s.mode = "literal"
      <4> DEFINE m == CASE c = s.closing -> IF c = "]" THEN "code" ELSE "closed"
                        [] c = "\\" /\ esc /\ s.closing # "]" -> "escaped"
                        [] OTHER -> "literal"
      <4>1. s.closing # "\\"
        BY DEF Seen
      <4>2. m \in Modes
        BY <4>1 DEF Modes
      <4>3. ReadNext(s, c, esc) = [s EXCEPT !.mode = m]
        BY <3>5 DEF ReadNext
      <4> QED
        BY <4>2, <4>3
    <3>6. CASE s.mode = "escaped"
      BY <3>6 DEF ReadNext, Modes
    <3> QED
      BY <1>6, <3>2, <3>3, <3>4, <3>5, <3>6
  <2> QED
    BY <2>1, <2>2
<1> QED
  BY <1>2, <1>3, <1>4, <1>5, <1>6 DEF Seen, Modes

\* r is what the reader has seen of sql after each number of symbols.
Reads(r, sql, esc) ==
    /\ r \in [0 .. Len(sql) -> Seen]
    /\ r[0] = NothingSeen
    /\ \A n \in 1 .. Len(sql) : r[n] = ReadNext(r[n - 1], sql[n], esc)

\* The recursive definition of the reader is a run of it over the text.
LEMMA ReadingReads ==
    ASSUME NEW sql \in Seq(Symbol), NEW esc \in BOOLEAN
    PROVE  Reads(Reading(sql, esc), sql, esc)
<1> DEFINE m == Len(sql)
           body(g, n) == IF n = 0 THEN NothingSeen ELSE ReadNext(g[n - 1], sql[n], esc)
           K == {c \in 0 .. m : \E g \in [0 .. c -> Seen] : \A n \in 0 .. c : g[n] = body(g, n)}
<1>0. 0 \in Nat /\ m \in Nat /\ 0 <= m /\ \A n \in 1 .. m : sql[n] \in Symbol
  OBVIOUS
<1>1. NothingSeen \in Seen
  BY DEF NothingSeen, Seen, Modes
<1>2. 0 \in K
  <2> DEFINE g == [n \in 0 .. 0 |-> NothingSeen]
  <2>1. g \in [0 .. 0 -> Seen] /\ \A n \in 0 .. 0 : n = 0 /\ g[n] = NothingSeen
    BY <1>1
  <2> HIDE DEF g
  <2> QED
    BY <1>0, <2>1
<1>3. ASSUME NEW c \in 0 .. m, c \in K, c < m PROVE c + 1 \in K
  <2>1. PICK g \in [0 .. c -> Seen] : \A n \in 0 .. c : g[n] = body(g, n)
    BY <1>3
  <2> DEFINE h == [n \in 0 .. c + 1 |-> IF n = c + 1 THEN ReadNext(g[c], sql[c + 1], esc) ELSE g[n]]
  <2>2. c + 1 \in 1 .. m /\ c \in 0 .. c /\ c \in Nat
    BY <1>0, <1>3
  <2>3. ReadNext(g[c], sql[c + 1], esc) \in Seen
    BY <1>0, <2>2, ReadNextSeen
  <2>4. h \in [0 .. c + 1 -> Seen]
    <3> HIDE DEF m
    <3>1. \A n \in 0 .. c + 1 : n = c + 1 \/ n \in 0 .. c
      BY <2>2
    <3> QED
      BY <2>1, <2>3, <3>1
  <2>5. \A n \in 0 .. c : n \in 0 .. c + 1 /\ n # c + 1 /\ h[n] = g[n]
    BY <2>2
  <2>6. h[c + 1] = ReadNext(g[c], sql[c + 1], esc) /\ c + 1 \in 0 .. c + 1
    BY <2>2
  <2> HIDE DEF h, m
  <2>7. ASSUME NEW n \in 0 .. c + 1 PROVE h[n] = body(h, n)
    <3>1. CASE n = c + 1
      <4>1. n # 0 /\ n - 1 = c /\ h[c] = g[c]
        BY <2>2, <2>5, <3>1
      <4> QED
        BY <2>6, <3>1, <4>1
    <3>2. CASE n \in 0 .. c
      <4>1. n # 0 => n - 1 \in 0 .. c
        BY <2>2, <3>2
      <4> QED
        BY <2>1, <2>5, <3>2, <4>1
    <3> QED
      BY <2>2, <3>1, <3>2
  <2> HIDE DEF body
  <2>8. c + 1 \in 0 .. m
    BY <2>2
  <2> QED
    BY <2>4, <2>7, <2>8
<1>4. 0 .. m \subseteq K
  <2> HIDE DEF K, m
  <2> QED
    BY <1>0, <1>2, <1>3, UpTo
<1>5. PICK g \in [0 .. m -> Seen] : \A n \in 0 .. m : g[n] = body(g, n)
  <2>1. m \in K
    <3>1. m \in 0 .. m
      BY <1>0
    <3> HIDE DEF K, m
    <3> QED
      BY <1>4, <3>1
  <2> QED
    BY <2>1
<1> DEFINE after == CHOOSE f : f = [n \in 0 .. m |-> body(f, n)]
<1>6. after = [n \in 0 .. m |-> body(after, n)]
  <2>1. g = [n \in 0 .. m |-> body(g, n)]
    <3>1. g = [n \in 0 .. m |-> g[n]]
      OBVIOUS
    <3> HIDE DEF body, m
    <3> QED
      BY <1>5, <3>1
  <2> HIDE DEF body, m
  <2> QED
    BY <2>1
<1>7. Reading(sql, esc) = after
  BY DEF Reading, NothingSeen
<1> HIDE DEF after
<1>8. \A n \in 0 .. m : after[n] = body(after, n)
  <2> HIDE DEF body, m
  <2> QED
    BY <1>6
<1> DEFINE S == {n \in 0 .. m : after[n] \in Seen}
<1>9. 0 \in S
  BY <1>0, <1>1, <1>8
<1>10. ASSUME NEW n \in 0 .. m, n \in S, n < m PROVE n + 1 \in S
  <2>1. n + 1 \in 1 .. m /\ n + 1 \in 0 .. m /\ n + 1 # 0 /\ n + 1 - 1 = n
    BY <1>0, <1>10
  <2>2. after[n + 1] = ReadNext(after[n], sql[n + 1], esc)
    BY <1>8, <2>1
  <2>3. ReadNext(after[n], sql[n + 1], esc) \in Seen
    BY <1>0, <1>10, <2>1, ReadNextSeen
  <2> QED
    BY <2>1, <2>2, <2>3
<1>11. 0 .. m \subseteq S
  <2> HIDE DEF S, m
  <2> QED
    BY <1>0, <1>9, <1>10, UpTo
<1>12. after \in [0 .. m -> Seen]
  <2>1. \A n \in 0 .. m : after[n] \in Seen
    BY <1>11
  <2>2. after = [n \in 0 .. m |-> after[n]]
    <3> HIDE DEF body, m
    <3> QED
      BY <1>6
  <2> HIDE DEF m
  <2> QED
    BY <2>1, <2>2
<1>13. after[0] = NothingSeen
  BY <1>0, <1>8
<1>14. \A n \in 1 .. m : after[n] = ReadNext(after[n - 1], sql[n], esc)
  <2>1. \A n \in 1 .. m : n \in 0 .. m /\ n # 0
    BY <1>0
  <2> QED
    BY <1>8, <2>1
<1> QED
  BY <1>7, <1>12, <1>13, <1>14 DEF Reads

-----------------------------------------------------------------------------
(* strip and the reader side by side. *)

\* Having seen s, the reader takes c for code that follows out.
AsCode(s, out, c) ==
    \/ s.mode = "code" /\ s.code = out
    \/ s.mode = "closed" /\ s.closing # c /\ s.code = out
    \/ s.mode = "dash" /\ c # "-" /\ out = Append(s.code, "-")
    \/ s.mode = "slash" /\ c # "*" /\ out = Append(s.code, "/")

\* The code in a text that ends here.
Said(s) ==
    CASE s.mode = "dash" -> Append(s.code, "-")
      [] s.mode = "slash" -> Append(s.code, "/")
      [] OTHER -> s.code

\* At position i the reader has read out and nothing it is still in.
Together(sql, r, i, out) ==
    IF i <= Len(sql) THEN AsCode(r[i - 1], out, sql[i]) ELSE Said(r[Len(sql)]) = out

Literal(s, closing, out) == s.mode = "literal" /\ s.closing = closing /\ s.code = out

\* Having read out and then c as code.
HasRead(t, out, c) ==
    /\ c = "-" => t.mode = "dash" /\ t.code = out
    /\ c = "/" => t.mode = "slash" /\ t.code = out
    /\ c \in Quotes \cup {"["} => Literal(t, Closing(c), Append(out, " "))
    /\ c \notin Quotes \cup {"[", "-", "/"} => t.mode = "code" /\ t.code = Append(out, c)

\* One symbol that is read as code.
LEMMA CodeIsRead ==
    ASSUME NEW s \in Seen, NEW c \in Symbol, NEW esc \in BOOLEAN,
           NEW out \in Seq(Symbol), AsCode(s, out, c), NEW t, t = ReadNext(s, c, esc)
    PROVE  HasRead(t, out, c)
<1> DEFINE Q(v) == HasRead(v, out, c)
<1>1. ASSUME NEW u \in Seen, u.code = out PROVE Q(ReadAsCode(u, c))
  <2>1. c \in Quotes \cup {"["} => c # "-" /\ c # "/"
    BY DEF Quotes
  <2>2. CASE c = "-"
    BY <1>1, <2>1, <2>2 DEF ReadAsCode, Seen, HasRead
  <2>3. CASE c = "/"
    BY <1>1, <2>1, <2>3 DEF ReadAsCode, Seen, HasRead
  <2>4. CASE c \in Quotes \cup {"["}
    BY <1>1, <2>1, <2>4 DEF ReadAsCode, Seen, Literal, HasRead
  <2>5. CASE c \notin Quotes \cup {"[", "-", "/"}
    BY <1>1, <2>5 DEF ReadAsCode, Seen, HasRead
  <2> QED
    BY <2>2, <2>3, <2>4, <2>5
<1>2. \E u \in Seen : u.code = out /\ ReadNext(s, c, esc) = ReadAsCode(u, c)
  <2>1. CASE s.mode = "code" /\ s.code = out
    BY <2>1 DEF ReadNext
  <2>2. CASE s.mode = "closed" /\ s.closing # c /\ s.code = out
    BY <2>2 DEF ReadNext
  <2>3. CASE s.mode = "dash" /\ c # "-" /\ out = Append(s.code, "-")
    <3> DEFINE u == [s EXCEPT !.code = Append(@, "-")]
    <3>1. u \in Seen /\ u.code = out
      BY <2>3 DEF Seen
    <3>2. ReadNext(s, c, esc) = ReadAsCode(u, c)
      BY <2>3 DEF ReadNext
    <3> QED
      BY <3>1, <3>2
  <2>4. CASE s.mode = "slash" /\ c # "*" /\ out = Append(s.code, "/")
    <3> DEFINE u == [s EXCEPT !.code = Append(@, "/")]
    <3>1. u \in Seen /\ u.code = out
      BY <2>4 DEF Seen
    <3>2. ReadNext(s, c, esc) = ReadAsCode(u, c)
      BY <2>4 DEF ReadNext
    <3> QED
      BY <3>1, <3>2
  <2> QED
    BY <2>1, <2>2, <2>3, <2>4 DEF AsCode
<1>3. PICK u \in Seen : u.code = out /\ ReadNext(s, c, esc) = ReadAsCode(u, c)
  BY <1>2
<1>4. Q(ReadAsCode(u, c))
  BY <1>1, <1>3
<1> QED
  BY <1>3, <1>4

\* A line comment, from the position of its first dash.
LEMMA LineIsRead ==
    ASSUME NEW sql \in Seq(Symbol), NEW esc \in BOOLEAN, NEW r, Reads(r, sql, esc),
           NEW i \in 1 .. Len(sql), NEW out \in Seq(Symbol), AsCode(r[i - 1], out, sql[i]),
           At(sql, i, "-"), At(sql, i + 1, "-")
    PROVE  Together(sql, r, LineEnd(sql, i) + 1, Append(out, "\n"))
<1> DEFINE left == Append(out, "\n")
<1> SUFFICES Together(sql, r, LineEnd(sql, i) + 1, left)
  OBVIOUS
<1>0. /\ Len(sql) \in Nat /\ i \in Nat /\ 1 <= i /\ i + 1 <= Len(sql)
      /\ sql[i] = "-" /\ sql[i + 1] = "-"
  BY DEF At
<1>a. \A n \in 1 .. Len(sql) : sql[n] \in Symbol
  OBVIOUS
<1>b. \A n \in 0 .. Len(sql) : r[n] \in Seen
  BY DEF Reads
<1>c. \A n \in 1 .. Len(sql) : r[n] = ReadNext(r[n - 1], sql[n], esc)
  BY DEF Reads
<1>1. PICK j \in i .. Len(sql) + 1 :
                             /\ j = LineEnd(sql, i)
                             /\ j <= Len(sql) => sql[j] = "\n"
                             /\ \A k \in i .. j - 1 : sql[k] # "\n"
  BY LineEndIs
<1>2. j \in i + 2 .. Len(sql) + 1
  <2>1. j # i /\ j # i + 1
    BY <1>0, <1>1
  <2> QED
    BY <1>0, <2>1
<1>3. r[i].mode = "dash" /\ r[i].code = out
  <2>0. i \in 1 .. Len(sql) /\ i - 1 \in 0 .. Len(sql)
    BY <1>0
  <2>1. r[i - 1] \in Seen /\ r[i] = ReadNext(r[i - 1], sql[i], esc) /\ sql[i] \in Symbol
    BY <1>a, <1>b, <1>c, <2>0
  <2>2. AsCode(r[i - 1], out, sql[i])
    OBVIOUS
  <2>3. HasRead(r[i], out, sql[i])
    BY <2>1, <2>2, CodeIsRead
  <2> QED
    BY <1>0, <2>3 DEF HasRead
<1> DEFINE S == {n \in i + 1 .. j - 1 : r[n].mode = "line" /\ r[n].code = left}
<1>4. i + 1 \in S
  <2>0. i + 1 \in 1 .. Len(sql) /\ i \in 0 .. Len(sql) /\ i + 1 - 1 = i
    BY <1>0
  <2>1. r[i + 1] = ReadNext(r[i], sql[i + 1], esc) /\ r[i] \in Seen
    BY <1>b, <1>c, <2>0
  <2>2. r[i + 1] = [r[i] EXCEPT !.mode = "line", !.code = Append(@, "\n")]
    BY <1>0, <1>3, <2>1 DEF ReadNext
  <2>3. r[i + 1].mode = "line" /\ r[i + 1].code = left
    BY <1>3, <2>1, <2>2 DEF Seen
  <2> QED
    BY <1>0, <1>2, <2>3
<1>5. ASSUME NEW n \in i + 1 .. j - 1, n \in S, n < j - 1 PROVE n + 1 \in S
  <2>1. n + 1 \in i + 1 .. j - 1 /\ n + 1 \in 1 .. Len(sql) /\ n + 1 \in i .. j - 1 /\ n + 1 - 1 = n
    BY <1>0, <1>2, <1>5
  <2>2. r[n + 1] = ReadNext(r[n], sql[n + 1], esc) /\ sql[n + 1] # "\n"
    BY <1>1, <1>c, <2>1
  <2>3. r[n + 1] = r[n]
    BY <1>5, <2>2 DEF ReadNext
  <2> QED
    BY <1>5, <2>1, <2>3
<1>6. i + 1 .. j - 1 \subseteq S
  <2>1. i + 1 \in Nat /\ j - 1 \in Nat /\ i + 1 <= j - 1
    BY <1>0, <1>2
  <2> HIDE DEF S
  <2> QED
    BY <1>4, <1>5, <2>1, UpTo
<1>7. r[j - 1].mode = "line" /\ r[j - 1].code = left
  <2>1. j - 1 \in i + 1 .. j - 1
    BY <1>0, <1>2
  <2> QED
    BY <1>6, <2>1
<1>8. CASE j <= Len(sql)
  <2>1. j \in 1 .. Len(sql) /\ j - 1 \in 0 .. Len(sql) /\ j + 1 - 1 = j
    BY <1>0, <1>2, <1>8
  <2>2. r[j] = ReadNext(r[j - 1], "\n", esc) /\ r[j - 1] \in Seen
    BY <1>1, <1>8, <1>b, <1>c, <2>1
  <2>3. r[j] = [r[j - 1] EXCEPT !.mode = "code"]
    BY <1>7, <2>2 DEF ReadNext
  <2>4. r[j].mode = "code" /\ r[j].code = left
    BY <1>7, <2>2, <2>3 DEF Seen
  <2>5. CASE j + 1 <= Len(sql)
    <3>1. AsCode(r[j], left, sql[j + 1])
      BY <2>4 DEF AsCode
    <3> QED
      BY <1>1, <2>1, <2>5, <3>1 DEF Together
  <2>6. CASE ~(j + 1 <= Len(sql))
    <3>1. j = Len(sql)
      BY <1>0, <1>8, <2>1, <2>6
    <3> QED
      BY <1>1, <2>4, <2>6, <3>1 DEF Together, Said
  <2> QED
    BY <2>5, <2>6
<1>9. CASE ~(j <= Len(sql))
  <2>1. j - 1 = Len(sql) /\ ~(j + 1 <= Len(sql))
    BY <1>0, <1>2, <1>9
  <2> QED
    BY <1>1, <1>7, <2>1 DEF Together, Said
<1> QED
  BY <1>8, <1>9

\* A block comment, from the position of its slash.
LEMMA BlockIsRead ==
    ASSUME NEW sql \in Seq(Symbol), NEW esc \in BOOLEAN, NEW r, Reads(r, sql, esc),
           NEW i \in 1 .. Len(sql), NEW out \in Seq(Symbol), AsCode(r[i - 1], out, sql[i]),
           At(sql, i, "/"), At(sql, i + 1, "*")
    PROVE  Together(sql, r, CommentEnd(sql, i + 2) + 1, Append(out, " "))
<1> DEFINE left == Append(out, " ")
<1> SUFFICES Together(sql, r, CommentEnd(sql, i + 2) + 1, left)
  OBVIOUS
<1> HIDE DEF left
<1>0. /\ Len(sql) \in Nat /\ i \in Nat /\ 1 <= i /\ i + 1 <= Len(sql)
      /\ sql[i] = "/" /\ sql[i + 1] = "*"
  BY DEF At
<1>a. \A n \in 1 .. Len(sql) : sql[n] \in Symbol
  OBVIOUS
<1>b. \A n \in 0 .. Len(sql) : r[n] \in Seen
  BY DEF Reads
<1>c. \A n \in 1 .. Len(sql) : r[n] = ReadNext(r[n - 1], sql[n], esc)
  BY DEF Reads
<1>1. PICK j \in i + 2 .. Len(sql) + 1 :
                             /\ j = CommentEnd(sql, i + 2)
                             /\ j <= Len(sql) => j > i + 2 /\ sql[j - 1] = "*" /\ sql[j] = "/"
                             /\ \A k \in i + 2 .. j - 2 : ~(sql[k] = "*" /\ sql[k + 1] = "/")
  <2>1. i + 2 \in 1 .. Len(sql) + 1
    BY <1>0
  <2> QED
    BY <2>1, CommentEndIs
<1>2. j \in Nat
  BY <1>0
<1>3. r[i].mode = "slash" /\ r[i].code = out
  <2>0. i \in 1 .. Len(sql) /\ i - 1 \in 0 .. Len(sql)
    BY <1>0
  <2>1. r[i - 1] \in Seen /\ r[i] = ReadNext(r[i - 1], sql[i], esc) /\ sql[i] \in Symbol
    BY <1>a, <1>b, <1>c, <2>0
  <2>2. AsCode(r[i - 1], out, sql[i])
    OBVIOUS
  <2>3. HasRead(r[i], out, sql[i])
    BY <2>1, <2>2, CodeIsRead
  <2> QED
    BY <1>0, <2>3 DEF HasRead
<1> DEFINE star(n) == n >= i + 2 /\ sql[n] = "*"
           S == {n \in i + 1 .. j - 1 : /\ r[n].mode = IF star(n) THEN "star" ELSE "block"
                                        /\ r[n].code = left}
<1>4. i + 1 \in S
  <2>0. i + 1 \in 1 .. Len(sql) /\ i \in 0 .. Len(sql) /\ i + 1 - 1 = i
    BY <1>0
  <2>1. r[i + 1] = ReadNext(r[i], sql[i + 1], esc) /\ r[i] \in Seen
    BY <1>b, <1>c, <2>0
  <2>2. r[i + 1] = [r[i] EXCEPT !.mode = "block", !.code = Append(@, " ")]
    BY <1>0, <1>3, <2>1 DEF ReadNext
  <2>3. r[i + 1].mode = "block" /\ r[i + 1].code = left
    BY <1>3, <2>1, <2>2 DEF Seen, left
  <2>4. i + 1 \in i + 1 .. j - 1 /\ ~star(i + 1)
    BY <1>0, <1>2
  <2> QED
    BY <2>3, <2>4
<1>5. ASSUME NEW n \in i + 1 .. j - 1, n \in S, n < j - 1 PROVE n + 1 \in S
  <2>1. /\ n + 1 \in i + 1 .. j - 1 /\ n + 1 \in 1 .. Len(sql) /\ n \in 0 .. Len(sql)
        /\ n + 1 - 1 = n /\ n + 1 >= i + 2
    <3> HIDE DEF S
    <3> QED
      BY <1>0, <1>2, <1>5
  <2>2. r[n + 1] = ReadNext(r[n], sql[n + 1], esc) /\ r[n] \in Seen
    BY <1>b, <1>c, <2>1
  <2>3. CASE star(n)
    <3>1. n \in i + 2 .. j - 2
      <4>1. n >= i + 2
        BY <2>3
      <4> HIDE DEF S, star
      <4> QED
        BY <1>0, <1>2, <1>5, <4>1
    <3>2. sql[n + 1] # "/"
      BY <1>1, <2>3, <3>1
    <3>3. r[n].mode = "star" /\ r[n].code = left
      BY <1>5, <2>3
    <3>4. r[n + 1] = [r[n] EXCEPT !.mode = IF sql[n + 1] = "*" THEN "star" ELSE "block"]
      BY <2>2, <3>2, <3>3 DEF ReadNext
    <3> QED
      BY <2>1, <2>2, <3>3, <3>4 DEF Seen
  <2>4. CASE ~star(n)
    <3>3. r[n].mode = "block" /\ r[n].code = left
      BY <1>5, <2>4
    <3>4. r[n + 1] = IF sql[n + 1] = "*" THEN [r[n] EXCEPT !.mode = "star"] ELSE r[n]
      BY <2>2, <3>3 DEF ReadNext
    <3> QED
      BY <2>1, <2>2, <3>3, <3>4 DEF Seen
  <2> QED
    BY <2>3, <2>4
<1>6. i + 1 .. j - 1 \subseteq S
  <2>1. i + 1 \in Nat /\ j - 1 \in Nat /\ i + 1 <= j - 1
    BY <1>0
  <2> HIDE DEF S
  <2> QED
    BY <1>4, <1>5, <2>1, UpTo
<1>7. j - 1 \in S
  <2>1. j - 1 \in i + 1 .. j - 1
    BY <1>0
  <2> QED
    BY <1>6, <2>1
<1>8. CASE j <= Len(sql)
  <2>1. j \in 1 .. Len(sql) /\ j - 1 \in 0 .. Len(sql) /\ j + 1 - 1 = j
    BY <1>0, <1>8
  <2>2. r[j] = ReadNext(r[j - 1], "/", esc) /\ r[j - 1] \in Seen
    BY <1>1, <1>8, <1>b, <1>c, <2>1
  <2>3. r[j - 1].mode = "star" /\ r[j - 1].code = left
    <3>1. star(j - 1)
      BY <1>0, <1>1, <1>8
    <3> QED
      BY <1>7, <3>1
  <2>4. r[j] = [r[j - 1] EXCEPT !.mode = "code"]
    BY <2>2, <2>3 DEF ReadNext
  <2>5. r[j].mode = "code" /\ r[j].code = left
    BY <2>2, <2>3, <2>4 DEF Seen
  <2>6. CASE j + 1 <= Len(sql)
    <3>1. AsCode(r[j], left, sql[j + 1])
      BY <2>5 DEF AsCode
    <3> QED
      <4>1. CommentEnd(sql, i + 2) = j /\ j + 1 <= Len(sql) /\ j + 1 - 1 = j
        BY <1>1, <2>1, <2>6
      <4>2. Together(sql, r, j + 1, left)
        BY <3>1, <4>1 DEF Together
      <4> QED
        BY <4>1, <4>2
  <2>7. CASE ~(j + 1 <= Len(sql))
    <3>1. j = Len(sql)
      BY <1>0, <1>8, <2>1, <2>7
    <3> QED
      BY <1>1, <2>5, <2>7, <3>1 DEF Together, Said
  <2> QED
    BY <2>6, <2>7
<1>9. CASE ~(j <= Len(sql))
  <2>1. j - 1 = Len(sql) /\ ~(j + 1 <= Len(sql))
    BY <1>0, <1>9
  <2>2. r[Len(sql)].mode \in {"star", "block"} /\ r[Len(sql)].code = left
    BY <1>7, <2>1
  <2> QED
    BY <1>1, <2>1, <2>2 DEF Together, Said
<1> QED
  BY <1>8, <1>9

\* A literal, from the position of the symbol that opens it.
LEMMA LiteralIsRead ==
    ASSUME NEW sql \in Seq(Symbol), NEW esc \in BOOLEAN, NEW r, Reads(r, sql, esc),
           NEW i \in 1 .. Len(sql), NEW out \in Seq(Symbol), AsCode(r[i - 1], out, sql[i]),
           sql[i] \in Quotes \cup {"["}
    PROVE  Together(sql, r, LiteralEnd(sql, i, esc) + 1, Append(out, " "))
<1> DEFINE left == Append(out, " ")
           closing == Closing(sql[i])
<1> SUFFICES Together(sql, r, LiteralEnd(sql, i, esc) + 1, left)
  OBVIOUS
<1> HIDE DEF left
<1>0. Len(sql) \in Nat /\ i \in Nat /\ 1 <= i /\ i <= Len(sql)
  OBVIOUS
<1>a. \A n \in 1 .. Len(sql) : sql[n] \in Symbol
  OBVIOUS
<1>b. \A n \in 0 .. Len(sql) : r[n] \in Seen
  BY DEF Reads
<1>c. \A n \in 1 .. Len(sql) : r[n] = ReadNext(r[n - 1], sql[n], esc)
  BY DEF Reads
<1>e. \A n \in 0 .. Len(sql) : n + 1 <= Len(sql) => r[n + 1] = ReadNext(r[n], sql[n + 1], esc)
  <2>1. \A n \in 0 .. Len(sql) : n + 1 <= Len(sql) => n + 1 \in 1 .. Len(sql) /\ n + 1 - 1 = n
    BY <1>0
  <2> QED
    BY <1>c, <2>1
<1>d. closing \in {"'", "dquote", "backtick", "]"}
  BY DEF Closing, Quotes
<1>1. PICK end :
         /\ LiteralEnd(sql, i, esc) = end[i + 1]
         /\ \A j \in i + 1 .. Len(sql) + 2 :
               end[j] = IF LiteralStops(sql, i, j) THEN j ELSE end[LiteralNext(sql, i, esc, j)]
  BY LiteralEndIs
<1> HIDE DEF closing
<1>2. Literal(r[i], closing, left)
  <2>0. i \in 1 .. Len(sql) /\ i - 1 \in 0 .. Len(sql)
    BY <1>0
  <2>1. r[i - 1] \in Seen /\ r[i] = ReadNext(r[i - 1], sql[i], esc) /\ sql[i] \in Symbol
    BY <1>a, <1>b, <1>c, <2>0
  <2>2. AsCode(r[i - 1], out, sql[i])
    OBVIOUS
  <2>3. HasRead(r[i], out, sql[i])
    BY <2>1, <2>2, CodeIsRead
  <2> QED
    BY <2>3 DEF HasRead, closing, left
\* The positions at which the loop looks at a symbol of the literal.
<1> DEFINE within(j) == \/ j <= Len(sql) + 1 /\ Literal(r[j - 1], closing, left)
                        \/ j > Len(sql) /\ r[Len(sql)].mode = "escaped" /\ r[Len(sql)].code = left
           P == {j \in i + 1 .. Len(sql) + 2 : LiteralEnd(sql, i, esc) = end[j] /\ within(j)}
<1> HIDE DEF within
<1>3. i + 1 \in P
  <2>1. i + 1 \in i + 1 .. Len(sql) + 2 /\ i + 1 <= Len(sql) + 1 /\ i + 1 - 1 = i
    BY <1>0
  <2> QED
    BY <1>1, <1>2, <2>1 DEF within
<1>4. ASSUME NEW j \in i + 1 .. Len(sql) + 2, j \in P, ~LiteralStops(sql, i, j)
      PROVE  LiteralNext(sql, i, esc, j) \in P /\ LiteralNext(sql, i, esc, j) > j
  <2> DEFINE k == LiteralNext(sql, i, esc, j)
  <2>1. LiteralEnd(sql, i, esc) = end[j] /\ within(j)
    BY <1>4
  <2>2. j \in 1 .. Len(sql) /\ j >= i + 1
    <3>1. ~(j > Len(sql))
      BY <1>4 DEF LiteralStops
    <3> HIDE DEF P
    <3> QED
      BY <1>0, <2>1, <3>1
  <2>3. LiteralEnd(sql, i, esc) = end[k]
    BY <1>1, <1>4, <2>1
  <2> HIDE DEF P, k
  <2>4. Literal(r[j - 1], closing, left) /\ r[j - 1] \in Seen /\ r[j] \in Seen
    <3>1. ~(j > Len(sql)) /\ j - 1 \in 0 .. Len(sql) /\ j \in 0 .. Len(sql)
      BY <1>0, <2>2
    <3> QED
      BY <1>b, <2>1, <3>1 DEF within
  <2>5. r[j] = ReadNext(r[j - 1], sql[j], esc)
    BY <1>c, <2>2
  <2>6. CASE At(sql, j, closing)
    <3>1. closing # "]" /\ At(sql, j + 1, closing)
      BY <1>4, <2>6 DEF LiteralStops, closing
    <3>2. k = j + 2
      BY <2>6 DEF LiteralNext, closing, k
    <3>3. j + 1 <= Len(sql) /\ sql[j] = closing /\ sql[j + 1] = closing
      BY <2>2, <2>6, <3>1 DEF At
    <3>4. r[j] = [r[j - 1] EXCEPT !.mode = "closed"]
      BY <1>d, <2>4, <2>5, <3>1, <3>3 DEF ReadNext, Literal
    <3>5. r[j].mode = "closed" /\ r[j].closing = closing /\ r[j].code = left
      BY <2>4, <3>4 DEF Seen, Literal
    <3>6. r[j + 1] = ReadNext(r[j], sql[j + 1], esc)
      <4>1. j \in 0 .. Len(sql)
        BY <1>0, <2>2
      <4> QED
        BY <1>e, <3>3, <4>1
    <3>7. r[j + 1] = [r[j] EXCEPT !.mode = "literal"]
      BY <3>3, <3>5, <3>6 DEF ReadNext
    <3>8. Literal(r[j + 1], closing, left)
      BY <2>4, <3>5, <3>7 DEF Seen, Literal
    <3>9. within(k) /\ k \in i + 1 .. Len(sql) + 2 /\ k > j
      <4>1. k <= Len(sql) + 1 /\ k - 1 = j + 1 /\ k \in i + 1 .. Len(sql) + 2 /\ k > j
        BY <1>0, <2>2, <3>2, <3>3
      <4>2. Literal(r[k - 1], closing, left)
        BY <3>8, <4>1
      <4> QED
        BY <4>1, <4>2 DEF within
    <3> QED
      BY <2>3, <3>9 DEF P, k
  <2>7. CASE ~At(sql, j, closing) /\ esc /\ At(sql, j, "\\") /\ closing # "]"
    <3>1. k = j + 2
      BY <2>7 DEF LiteralNext, closing, k
    <3>2. sql[j] = "\\" /\ sql[j] # closing
      BY <2>2, <2>7 DEF At
    <3>3. r[j] = [r[j - 1] EXCEPT !.mode = "escaped"]
      BY <1>d, <2>4, <2>5, <2>7, <3>2 DEF ReadNext, Literal
    <3>4. r[j].mode = "escaped" /\ r[j].code = left /\ r[j].closing = closing
      BY <2>4, <3>3 DEF Seen, Literal
    <3>5. k \in i + 1 .. Len(sql) + 2 /\ k > j
      BY <1>0, <2>2, <3>1
    <3>6. CASE j = Len(sql)
      <4>1. k > Len(sql)
        BY <1>0, <3>1, <3>6
      <4> QED
        BY <2>3, <3>4, <3>5, <3>6, <4>1 DEF P, within, k
    <3>7. CASE j # Len(sql)
      <4>1. j + 1 <= Len(sql) /\ j \in 0 .. Len(sql) /\ k - 1 = j + 1 /\ k <= Len(sql) + 1
        BY <1>0, <2>2, <3>1, <3>7
      <4>2. r[j + 1] = ReadNext(r[j], sql[j + 1], esc)
        BY <1>e, <4>1
      <4>3. r[j + 1] = [r[j] EXCEPT !.mode = "literal"]
        BY <3>4, <4>2 DEF ReadNext
      <4>4. Literal(r[j + 1], closing, left)
        BY <2>4, <3>4, <4>3 DEF Seen, Literal
      <4> QED
        BY <2>3, <3>5, <4>1, <4>4 DEF P, within, k
    <3> QED
      BY <3>6, <3>7
  <2>8. CASE ~At(sql, j, closing) /\ ~(esc /\ At(sql, j, "\\") /\ closing # "]")
    <3>1. k = j + 1
      BY <2>8 DEF LiteralNext, closing, k
    <3>2. sql[j] # closing /\ ~(sql[j] = "\\" /\ esc /\ closing # "]")
      BY <2>2, <2>8 DEF At
    <3>3. r[j] = [r[j - 1] EXCEPT !.mode = "literal"]
      BY <2>4, <2>5, <3>2 DEF ReadNext, Literal
    <3>4. Literal(r[j], closing, left)
      BY <2>4, <3>3 DEF Seen, Literal
    <3>5. k \in i + 1 .. Len(sql) + 2 /\ k > j /\ k <= Len(sql) + 1 /\ k - 1 = j
      BY <1>0, <2>2, <3>1
    <3> QED
      BY <2>3, <3>4, <3>5 DEF P, within, k
  <2> QED
    BY <2>6, <2>7, <2>8 DEF k
<1>5. PICK j \in i + 1 .. Len(sql) + 2 : j \in P /\ \A k \in P : k <= j
  <2>1. P \in SUBSET (i + 1 .. Len(sql) + 2) /\ P # {} /\ i + 1 \in Nat /\ Len(sql) + 2 \in Nat
    BY <1>0, <1>3
  <2> HIDE DEF P
  <2> QED
    BY <2>1, Greatest
<1>6. /\ LiteralStops(sql, i, j) /\ LiteralEnd(sql, i, esc) = j
      /\ within(j) /\ j \in i + 1 .. Len(sql) + 2
  <2>1. LiteralStops(sql, i, j)
    <3> SUFFICES ASSUME ~LiteralStops(sql, i, j) PROVE FALSE
      OBVIOUS
    <3>1. LiteralNext(sql, i, esc, j) \in P /\ LiteralNext(sql, i, esc, j) > j
      BY <1>4, <1>5
    <3>2. LiteralNext(sql, i, esc, j) <= j
      BY <1>5, <3>1
    <3>3. j \in Int /\ LiteralNext(sql, i, esc, j) \in Int
      <4>1. \A n \in P : n \in Int
        BY <1>0
      <4>2. j \in Int
        BY <1>0
      <4> HIDE DEF P
      <4> QED
        BY <3>1, <4>1, <4>2
    <3> HIDE DEF P
    <3> QED
      BY <3>1, <3>2, <3>3
  <2>2. LiteralEnd(sql, i, esc) = end[j] /\ within(j)
    BY <1>5
  <2> QED
    BY <1>1, <2>1, <2>2
<1> HIDE DEF P
<1>9. j \in i + 1 .. Len(sql) + 2 /\ j \in Nat
  BY <1>0, <1>6
<1>7. CASE j > Len(sql)
  <2>1. Said(r[Len(sql)]) = left
    <3>1. CASE Literal(r[j - 1], closing, left) /\ j <= Len(sql) + 1
      <4>1. j - 1 = Len(sql)
        BY <1>0, <1>7, <1>9, <3>1
      <4> QED
        BY <3>1, <4>1 DEF Said, Literal
    <3>2. CASE r[Len(sql)].mode = "escaped" /\ r[Len(sql)].code = left
      BY <3>2 DEF Said
    <3> QED
      BY <1>6, <3>1, <3>2 DEF within
  <2>2. ~(j + 1 <= Len(sql))
    BY <1>0, <1>7, <1>9
  <2> QED
    BY <1>6, <2>1, <2>2 DEF Together
<1>8. CASE ~(j > Len(sql))
  <2>1. j \in 1 .. Len(sql) /\ j - 1 \in 0 .. Len(sql) /\ j \in 0 .. Len(sql) /\ j + 1 - 1 = j
    BY <1>0, <1>8, <1>9
  <2>2. Literal(r[j - 1], closing, left) /\ r[j - 1] \in Seen
    BY <1>b, <1>6, <1>8, <2>1 DEF within
  <2>3. sql[j] = closing /\ (closing = "]" \/ ~At(sql, j + 1, closing))
    BY <1>6, <1>8 DEF LiteralStops, At, closing
  <2>4. r[j] = ReadNext(r[j - 1], sql[j], esc)
    BY <1>c, <2>1
  <2>5. r[j] = [r[j - 1] EXCEPT !.mode = IF closing = "]" THEN "code" ELSE "closed"]
    BY <1>d, <2>2, <2>3, <2>4 DEF ReadNext, Literal
  <2>6. /\ r[j].mode = IF closing = "]" THEN "code" ELSE "closed"
        /\ r[j].code = left /\ r[j].closing = closing
    BY <2>2, <2>5 DEF Seen, Literal
  <2>7. CASE j + 1 <= Len(sql)
    <3>1. AsCode(r[j], left, sql[j + 1])
      BY <2>3, <2>6, <2>7 DEF AsCode, At
    <3> QED
      BY <1>6, <2>1, <2>7, <3>1 DEF Together
  <2>8. CASE ~(j + 1 <= Len(sql))
    <3>1. j = Len(sql)
      BY <1>0, <2>1, <2>8
    <3>2. Said(r[Len(sql)]) = left
      BY <2>6, <3>1 DEF Said
    <3> QED
      BY <1>6, <2>8, <3>2 DEF Together
  <2> QED
    BY <2>7, <2>8
<1> QED
  BY <1>7, <1>8

\* From a place where both meet, a jump of strip leads to the next one.
LEMMA GoOnTogether ==
    ASSUME NEW sql \in Seq(Symbol), NEW esc \in BOOLEAN, NEW r, Reads(r, sql, esc),
           NEW i \in 1 .. Len(sql), NEW out \in Seq(Symbol), Together(sql, r, i, out)
    PROVE  Together(sql, r, After(sql, i, esc), out \o Left(sql, i))
<1>0. Len(sql) \in Nat /\ i \in Nat /\ 1 <= i /\ i <= Len(sql) /\ sql[i] \in Symbol
  OBVIOUS
<1>1. AsCode(r[i - 1], out, sql[i])
  BY <1>0 DEF Together
<1>2. \A c \in Symbol : Append(out, c) = out \o <<c>>
  BY AppendIsConcat
<1>3. "\n" \in Symbol /\ " " \in Symbol
  BY MarksAreSymbols
<1>4. CASE At(sql, i, "-") /\ At(sql, i + 1, "-")
  <2>1. Together(sql, r, LineEnd(sql, i) + 1, Append(out, "\n"))
    BY <1>1, <1>4, LineIsRead
  <2>2. After(sql, i, esc) = LineEnd(sql, i) + 1 /\ Left(sql, i) = <<"\n">>
    BY <1>4 DEF After, Left
  <2> QED
    BY <1>2, <1>3, <2>1, <2>2
<1>5. CASE At(sql, i, "/") /\ At(sql, i + 1, "*")
  <2>1. Together(sql, r, CommentEnd(sql, i + 2) + 1, Append(out, " "))
    BY <1>1, <1>5, BlockIsRead
  <2>2. ~At(sql, i, "-")
    BY <1>5 DEF At
  <2>3. After(sql, i, esc) = CommentEnd(sql, i + 2) + 1 /\ Left(sql, i) = <<" ">>
    BY <1>5, <2>2 DEF After, Left
  <2> QED
    BY <1>2, <1>3, <2>1, <2>3
<1>6. CASE sql[i] \in Quotes \cup {"["}
  <2>1. Together(sql, r, LiteralEnd(sql, i, esc) + 1, Append(out, " "))
    BY <1>1, <1>6, LiteralIsRead
  <2>2. ~At(sql, i, "-") /\ ~At(sql, i, "/")
    BY <1>6 DEF At, Quotes
  <2>3. After(sql, i, esc) = LiteralEnd(sql, i, esc) + 1 /\ Left(sql, i) = <<" ">>
    BY <1>6, <2>2 DEF After, Left
  <2> QED
    BY <1>2, <1>3, <2>1, <2>3
<1>7. CASE /\ ~(At(sql, i, "-") /\ At(sql, i + 1, "-"))
           /\ ~(At(sql, i, "/") /\ At(sql, i + 1, "*"))
           /\ sql[i] \notin Quotes \cup {"["}
  <2> DEFINE c == sql[i]
  <2>1. HasRead(r[i], out, c)
    <3>1. r[i - 1] \in Seen /\ r[i] = ReadNext(r[i - 1], sql[i], esc)
      <4>1. i - 1 \in 0 .. Len(sql)
        BY <1>0
      <4> QED
        BY <1>0, <4>1 DEF Reads
    <3> QED
      BY <1>0, <1>1, <3>1, CodeIsRead
  <2>2. \/ c = "-" /\ r[i].mode = "dash" /\ r[i].code = out
        \/ c = "/" /\ r[i].mode = "slash" /\ r[i].code = out
        \/ c # "-" /\ c # "/" /\ r[i].mode = "code" /\ r[i].code = Append(out, c)
    BY <1>7, <2>1 DEF HasRead
  <2>3. After(sql, i, esc) = i + 1
    BY <1>7 DEF After
  <2>4. Left(sql, i) = <<c>>
    BY <1>7 DEF Left
  <2>5. Together(sql, r, i + 1, Append(out, c))
    <3>1. CASE i + 1 <= Len(sql)
      <4>1. c = "-" => sql[i + 1] # "-"
        BY <1>0, <1>7, <3>1 DEF At
      <4>2. c = "/" => sql[i + 1] # "*"
        BY <1>0, <1>7, <3>1 DEF At
      <4>3. AsCode(r[i], Append(out, c), sql[i + 1])
        BY <2>2, <4>1, <4>2 DEF AsCode
      <4>4. i + 1 - 1 = i
        BY <1>0
      <4> QED
        BY <3>1, <4>3, <4>4 DEF Together
    <3>2. CASE ~(i + 1 <= Len(sql))
      <4>1. i = Len(sql)
        BY <1>0, <3>2
      <4>2. Said(r[i]) = Append(out, c)
        BY <2>2 DEF Said
      <4> QED
        BY <3>2, <4>1, <4>2 DEF Together
    <3> QED
      BY <3>1, <3>2
  <2> QED
    BY <1>0, <1>2, <2>3, <2>4, <2>5
<1> QED
  BY <1>4, <1>5, <1>6, <1>7

\* Texts are put together in any order.
LEMMA SymbolsConcat == \A s, t, u \in Seq(Symbol) : (s \o t) \o u = s \o (t \o u)
  BY ConcatAssociative

\* strip and the reader leave the same of every text.
LEMMA StripIsCode ==
    ASSUME NEW sql \in Seq(Symbol), NEW esc \in BOOLEAN
    PROVE  Strip(sql, esc) = CodeOf(sql, esc)
<1> DEFINE r == Reading(sql, esc)
<1>0. Len(sql) \in Nat
  OBVIOUS
<1>1. Reads(r, sql, esc)
  BY ReadingReads
<1>2. CodeOf(sql, esc) = Said(r[Len(sql)])
  BY DEF CodeOf, Said
<1> HIDE DEF r
<1>3. PICK from :
         /\ Strip(sql, esc) = from[1]
         /\ \A i \in 1 .. Len(sql) + 3 :
               /\ from[i] \in Seq(Symbol)
               /\ from[i] = IF i > Len(sql) THEN <<>>
                            ELSE Left(sql, i) \o from[After(sql, i, esc)]
  BY StripIs
<1> DEFINE P == {i \in 1 .. Len(sql) + 3 :
                   \E out \in Seq(Symbol) : Together(sql, r, i, out) /\ from[1] = out \o from[i]}
<1>4. 1 \in P
  <2>1. Together(sql, r, 1, <<>>)
    <3>1. r[0].mode = "code" /\ r[0].code = <<>>
      <4>1. r[0] = NothingSeen
        BY <1>1 DEF Reads
      <4>2. NothingSeen.mode = "code" /\ NothingSeen.code = <<>>
        BY DEF NothingSeen
      <4> QED
        BY <4>1, <4>2
    <3>2. AsCode(r[0], <<>>, sql[1]) /\ Said(r[0]) = <<>>
      BY <3>1 DEF AsCode, Said
    <3>3. 1 - 1 = 0 /\ (1 <= Len(sql) \/ Len(sql) = 0)
      BY <1>0
    <3> QED
      BY <3>2, <3>3 DEF Together
  <2>2. from[1] = <<>> \o from[1]
    BY <1>0, <1>3, ConcatEmptySeq
  <2>3. <<>> \in Seq(Symbol) /\ 1 \in 1 .. Len(sql) + 3
    BY <1>0
  <2> QED
    BY <2>1, <2>2, <2>3
<1>5. ASSUME NEW i \in 1 .. Len(sql) + 3, i \in P, i <= Len(sql)
      PROVE  After(sql, i, esc) \in P /\ After(sql, i, esc) \in i + 1 .. Len(sql) + 3
  <2> DEFINE k == After(sql, i, esc)
  <2>0. i \in 1 .. Len(sql) /\ ~(i > Len(sql))
    BY <1>0, <1>5
  <2>1. k \in i + 1 .. Len(sql) + 3 /\ Left(sql, i) \in Seq(Symbol)
    BY <2>0, AfterIs
  <2>2. PICK out \in Seq(Symbol) : Together(sql, r, i, out) /\ from[1] = out \o from[i]
    BY <1>5
  <2>3. Together(sql, r, k, out \o Left(sql, i)) /\ out \o Left(sql, i) \in Seq(Symbol)
    BY <1>1, <2>0, <2>1, <2>2, GoOnTogether, ConcatProperties
  <2> HIDE DEF k
  <2>4. k \in 1 .. Len(sql) + 3
    BY <1>0, <2>1
  <2>5. from[i] = Left(sql, i) \o from[k] /\ from[k] \in Seq(Symbol)
    BY <1>3, <2>0, <2>4 DEF k
  <2>6. from[1] = (out \o Left(sql, i)) \o from[k]
    <3>1. (out \o Left(sql, i)) \o from[k] = out \o (Left(sql, i) \o from[k])
      <4> HIDE DEF P
      <4> QED
        BY <2>1, <2>5, SymbolsConcat, Zenon
    <3> HIDE DEF P
    <3> QED
      BY <2>2, <2>5, <3>1
  <2> QED
    BY <2>1, <2>3, <2>4, <2>6 DEF k
<1>6. PICK i \in 1 .. Len(sql) + 3 : i \in P /\ \A k \in P : k <= i
  <2>1. P \in SUBSET (1 .. Len(sql) + 3) /\ P # {} /\ 1 \in Nat /\ Len(sql) + 3 \in Nat
    BY <1>0, <1>4
  <2> HIDE DEF P
  <2> QED
    BY <2>1, Greatest
<1>7. ~(i <= Len(sql))
  <2> SUFFICES ASSUME i <= Len(sql) PROVE FALSE
    OBVIOUS
  <2> HIDE DEF P
  <2>1. After(sql, i, esc) <= i /\ After(sql, i, esc) \in i + 1 .. Len(sql) + 3
    BY <1>5, <1>6
  <2> QED
    BY <1>0, <2>1
<1>8. PICK out \in Seq(Symbol) : Together(sql, r, i, out) /\ from[1] = out \o from[i]
  BY <1>6
<1>9. Said(r[Len(sql)]) = out
  BY <1>7, <1>8 DEF Together
<1>10. from[i] = <<>>
  BY <1>0, <1>3, <1>7
<1>11. out \o <<>> = out
  BY ConcatEmptySeq
<1> QED
  BY <1>2, <1>3, <1>8, <1>9, <1>10, <1>11

-----------------------------------------------------------------------------
(* The input. *)

QueryInput == [kind : {"query"}, family : DOMAIN Families, text : Seq(Symbol)]
VersionInput == [kind : {"version"}, compared : [1 .. 3 -> Seq(VersionParts)]]
SchemaInput == [kind : {"schema"}, rows : Seq(Rows)]
ErrorInput == [kind : {"error"}, wrapped : Nat, says : SUBSET UNION Wordings]
ShapeInput == [kind : {"shape"}, text : Seq(ErrorSymbols)]
InputInv ==
    \/ input \in QueryInput
    \/ input \in VersionInput
    \/ input \in SchemaInput
    \/ input \in ErrorInput
    \/ input \in ShapeInput

\* Queries grow by symbols.
LEMMA FamilySymbols ==
    ASSUME NEW f \in DOMAIN Families
    PROVE  Families[f].start \in Seq(Symbol) /\ Families[f].symbols \subseteq Symbol
<1>1. \A g \in DOMAIN Families : Families[g].symbols \subseteq TextSymbol
  BY DEF TextSymbol
<1>2. TextSymbol \subseteq Symbol
  BY DEF Symbol
<1>3. f \in {"quoted", "words"}
  BY DEF Families
<1>4. "words" \in DOMAIN Families /\ "select" \in Families["words"].symbols
  BY DEF Families
<1>5. "select" \in Symbol
  BY <1>1, <1>2, <1>4
<1>6. \A c \in Symbol : <<c>> \in Seq(Symbol)
  OBVIOUS
<1>7. Families["quoted"].start = <<"select">> /\ Families["words"].start = <<>>
  BY DEF Families
<1>8. <<>> \in Seq(Symbol)
  OBVIOUS
<1> QED
  BY <1>1, <1>2, <1>3, <1>5, <1>6, <1>7, <1>8

\* The inputs start, and grow, within their types.
LEMMA InitInput == Init => InputInv
<1> SUFFICES ASSUME Init PROVE InputInv
  OBVIOUS
<1>1. ASSUME NEW f \in DOMAIN Families,
             input = [kind |-> "query", family |-> f, text |-> Families[f].start]
      PROVE  input \in QueryInput
  BY <1>1, FamilySymbols DEF QueryInput
<1>2. ASSUME input = [kind |-> "version", compared |-> << << << 1 >> >>, <<>>, <<>> >>]
      PROVE  input \in VersionInput
  <2>1. << 1 >> \in VersionParts
    BY DEF VersionParts
  <2>2. \A c \in VersionParts : <<c>> \in Seq(VersionParts)
    OBVIOUS
  <2>3. <<>> \in Seq(VersionParts)
    OBVIOUS
  <2>4. \A a, b, c \in Seq(VersionParts) : <<a, b, c>> \in [1 .. 3 -> Seq(VersionParts)]
    OBVIOUS
  <2>5. << << << 1 >> >>, <<>>, <<>> >> \in [1 .. 3 -> Seq(VersionParts)]
    BY <2>1, <2>2, <2>3, <2>4
  <2> QED
    BY <1>2, <2>5 DEF VersionInput
<1>3. ASSUME input = [kind |-> "schema", rows |-> <<>>]
      PROVE  input \in SchemaInput
  BY <1>3 DEF SchemaInput
<1>4. ASSUME input = [kind |-> "error", wrapped |-> 0, says |-> {}]
      PROVE  input \in ErrorInput
  BY <1>4 DEF ErrorInput
<1>5. ASSUME input = [kind |-> "shape", text |-> <<>>]
      PROVE  input \in ShapeInput
  BY <1>5 DEF ShapeInput
<1> QED
  BY <1>1, <1>2, <1>3, <1>4, <1>5 DEF Init, InputInv

\* An input grows within its type.
LEMMA NextInput == InputInv /\ [Next]_input => InputInv'
<1> SUFFICES ASSUME InputInv, [Next]_input PROVE InputInv'
  OBVIOUS
<1>0. \E k \in {"query", "version", "schema", "error", "shape"} : input.kind = k
  BY DEF InputInv, QueryInput, VersionInput, SchemaInput, ErrorInput, ShapeInput
<1>k. /\ input.kind = "query" => input \in QueryInput
      /\ input.kind = "version" => input \in VersionInput
      /\ input.kind = "schema" => input \in SchemaInput
      /\ input.kind = "error" => input \in ErrorInput
      /\ input.kind = "shape" => input \in ShapeInput
  BY DEF InputInv, QueryInput, VersionInput, SchemaInput, ErrorInput, ShapeInput
<1>1. ASSUME QueryGrows PROVE input' \in QueryInput
  <2>1. input \in QueryInput
    BY <1>1, <1>k DEF QueryGrows
  <2>2. PICK c \in Families[input.family].symbols : input' = [input EXCEPT !.text = Append(@, c)]
    BY <1>1 DEF QueryGrows
  <2>3. input.family \in DOMAIN Families /\ input.text \in Seq(Symbol)
    BY <2>1 DEF QueryInput
  <2>4. c \in Symbol
    BY <2>3, FamilySymbols
  <2>5. Append(input.text, c) \in Seq(Symbol)
    BY <2>3, <2>4, AppendedIsSeq
  <2> QED
    BY <2>1, <2>2, <2>5 DEF QueryInput
<1>2. ASSUME VersionGrows PROVE input' \in VersionInput
  <2>1. input \in VersionInput
    BY <1>2, <1>k DEF VersionGrows
  <2>2. PICK i \in 1 .. 3, p \in VersionParts : input' = [input EXCEPT !.compared[i] = Append(@, p)]
    BY <1>2 DEF VersionGrows
  <2>3. input.compared \in [1 .. 3 -> Seq(VersionParts)]
    BY <2>1 DEF VersionInput
  <2>4. Append(input.compared[i], p) \in Seq(VersionParts)
    BY <2>3, AppendedIsSeq
  <2>5. [input.compared EXCEPT ![i] = Append(@, p)] \in [1 .. 3 -> Seq(VersionParts)]
    BY <2>3, <2>4
  <2> QED
    BY <2>1, <2>2, <2>5 DEF VersionInput
<1>3. ASSUME SchemaGrows PROVE input' \in SchemaInput
  <2>1. input \in SchemaInput
    BY <1>3, <1>k DEF SchemaGrows
  <2>2. PICK r \in Rows : input' = [input EXCEPT !.rows = Append(@, r)]
    BY <1>3 DEF SchemaGrows
  <2>3. Append(input.rows, r) \in Seq(Rows)
    BY <2>1, AppendedIsSeq DEF SchemaInput
  <2> QED
    BY <2>1, <2>2, <2>3 DEF SchemaInput
<1>4. ASSUME ErrorGrows PROVE input' \in ErrorInput
  <2>1. input \in ErrorInput
    BY <1>4, <1>k DEF ErrorGrows
  <2>2. PICK w \in Wordings : input' = [input EXCEPT !.wrapped = @ + 1, !.says = @ \cup w]
    BY <1>4 DEF ErrorGrows
  <2>3. input.says \cup w \in SUBSET UNION Wordings /\ input.wrapped + 1 \in Nat
    BY <2>1 DEF ErrorInput
  <2> QED
    BY <2>1, <2>2, <2>3 DEF ErrorInput
<1>5. ASSUME ShapeGrows PROVE input' \in ShapeInput
  <2>1. input \in ShapeInput
    BY <1>5, <1>k DEF ShapeGrows
  <2>2. PICK c \in ErrorSymbols : input' = [input EXCEPT !.text = Append(@, c)]
    BY <1>5 DEF ShapeGrows
  <2>3. Append(input.text, c) \in Seq(ErrorSymbols)
    BY <2>1, AppendedIsSeq DEF ShapeInput
  <2> QED
    BY <2>1, <2>2, <2>3 DEF ShapeInput
<1>6. ASSUME UNCHANGED input PROVE InputInv'
  BY <1>6 DEF InputInv
<1> QED
  BY <1>1, <1>2, <1>3, <1>4, <1>5, <1>6 DEF Next, InputInv

\* Whatever input TLC or anyone grows, it is of one of the five kinds, and a
\* query is a text of the symbols that strip tells apart (the type invariant).
THEOREM InputCorrect == Spec => []InputInv
<1> QED
  BY InitInput, NextInput, PTL DEF Spec

\* strip leaves of every text, however long, exactly what is code when its
\* dialect is read symbol by symbol, with escapes and without.
THEOREM StripIsOneReadingCorrect == Spec => []StripIsOneReading
<1>1. InputInv => StripIsOneReading
  <2> SUFFICES ASSUME InputInv, IsQuery, NEW esc \in BOOLEAN
               PROVE  Strip(input.text, esc) = CodeOf(input.text, esc)
    BY DEF StripIsOneReading
  <2>1. input.text \in Seq(Symbol)
    BY DEF InputInv, IsQuery, QueryInput, VersionInput, SchemaInput, ErrorInput, ShapeInput
  <2> QED
    BY <2>1, StripIsCode
<1> QED
  BY <1>1, InputCorrect, PTL

\* g starts at init and goes on as F makes of the position and of g before it.
Iterates(g, m, W, init, F) ==
    /\ g \in [0 .. m -> W]
    /\ g[0] = init
    /\ \A n \in 1 .. m : g[n] = F[<<n, g[n - 1]>>]

\* A function that looks at its own value before exists.
LEMMA Iteration ==
    ASSUME NEW m \in Nat, NEW W, NEW init \in W, NEW F \in [(1 .. m) \X W -> W]
    PROVE  \E g : Iterates(g, m, W, init, F)
<1> DEFINE K == {c \in 0 .. m : \E g : Iterates(g, c, W, init, F)}
<1>1. 0 \in K
  <2> DEFINE g == [n \in 0 .. 0 |-> init]
  <2>1. Iterates(g, 0, W, init, F)
    BY DEF Iterates
  <2> HIDE DEF g
  <2> QED
    BY <2>1
<1>2. ASSUME NEW c \in 0 .. m, c \in K, c < m PROVE c + 1 \in K
  <2>1. PICK g : Iterates(g, c, W, init, F)
    BY <1>2
  <2> DEFINE h == [n \in 0 .. c + 1 |-> IF n = c + 1 THEN F[<<c + 1, g[c]>>] ELSE g[n]]
  <2>2. c + 1 \in 1 .. m /\ c \in 0 .. c /\ c \in Nat
    BY <1>2
  <2>3. g \in [0 .. c -> W] /\ F[<<c + 1, g[c]>>] \in W
    BY <2>1, <2>2 DEF Iterates
  <2>4. \A n \in 0 .. c + 1 : n = c + 1 \/ n \in 0 .. c
    BY <2>2
  <2>5. h \in [0 .. c + 1 -> W]
    BY <2>3, <2>4
  <2>6. \A n \in 0 .. c : n \in 0 .. c + 1 /\ n # c + 1 /\ h[n] = g[n]
    BY <2>2
  <2>7. h[c + 1] = F[<<c + 1, g[c]>>]
    BY <2>2
  <2> HIDE DEF h
  <2>8. ASSUME NEW n \in 1 .. c + 1 PROVE h[n] = F[<<n, h[n - 1]>>]
    <3>1. CASE n = c + 1
      <4>1. n - 1 = c /\ h[c] = g[c]
        BY <2>2, <2>6, <3>1
      <4> QED
        BY <2>7, <3>1, <4>1
    <3>2. CASE n # c + 1
      <4>1. n \in 1 .. c /\ n \in 0 .. c /\ n - 1 \in 0 .. c
        BY <2>2, <3>2
      <4>2. g[n] = F[<<n, g[n - 1]>>]
        BY <2>1, <4>1 DEF Iterates
      <4> QED
        BY <2>6, <4>1, <4>2
    <3> QED
      BY <3>1, <3>2
  <2>9. h[0] = init
    BY <2>1, <2>2, <2>6 DEF Iterates
  <2>10. Iterates(h, c + 1, W, init, F)
    BY <2>5, <2>8, <2>9 DEF Iterates
  <2> QED
    BY <2>2, <2>10
<1>3. 0 .. m \subseteq K
  <2>1. 0 \in Nat /\ 0 <= m
    OBVIOUS
  <2> HIDE DEF K
  <2> QED
    BY <1>1, <1>2, <2>1, UpTo
<1>4. m \in K
  BY <1>3
<1> QED
  BY <1>4

-----------------------------------------------------------------------------
(* Words. *)

SymbolSeqs == Seq(Seq(Symbol))

AddToWords(s, i, before) ==
    IF s[i] \notin WordSymbol THEN before
    ELSE IF i > 1 /\ s[i - 1] \in WordSymbol
         THEN [before EXCEPT ![Len(before)] = Append(@, s[i])]
         ELSE Append(before, <<s[i]>>)

\* w is read from s up to position n: at which positions its words begin, and
\* which of them are one symbol.
Begins(s, n, w, at) ==
    /\ at \in [1 .. Len(w) -> 1 .. n]
    /\ \A k, l \in 1 .. Len(w) : k < l => at[k] < at[l]
    /\ \A k \in 1 .. Len(w) :
          /\ at[k] \in Starts(s)
          /\ Len(w[k]) > 0 /\ w[k][1] = s[at[k]]
          /\ Len(w[k]) = 1 <=> (at[k] = n \/ s[at[k] + 1] \notin WordSymbol)
    /\ \A i \in 1 .. n : i \in Starts(s) => \E k \in 1 .. Len(w) : at[k] = i
WordsUpTo(s, n, w) ==
    /\ n > 0 /\ s[n] \in WordSymbol => w # <<>>
    /\ \E at : Begins(s, n, w, at)

\* One more symbol, and the words are still those that the positions say.
LEMMA WordsGrow ==
    ASSUME NEW s \in Seq(Symbol), NEW i \in 1 .. Len(s), NEW w \in SymbolSeqs,
           WordsUpTo(s, i - 1, w)
    PROVE  AddToWords(s, i, w) \in SymbolSeqs /\ WordsUpTo(s, i, AddToWords(s, i, w))
<1> DEFINE n == i - 1
           c == s[i]
<1>0. /\ n \in Nat /\ i \in Nat /\ i = n + 1 /\ n \in 0 .. Len(s) /\ i \in DOMAIN s /\ i # n
      /\ c \in Symbol /\ Len(w) \in Nat /\ DOMAIN w = 1 .. Len(w)
      /\ \A k \in 1 .. Len(w) : w[k] \in Seq(Symbol)
  BY DEF SymbolSeqs
<1>p. PICK at : Begins(s, n, w, at)
  BY DEF WordsUpTo
<1>a. at \in [1 .. Len(w) -> 1 .. n]
  BY <1>p DEF Begins
<1>1. /\ \A k, l \in 1 .. Len(w) : k < l => at[k] < at[l]
      /\ \A k \in 1 .. Len(w) :
            /\ at[k] \in Starts(s)
            /\ Len(w[k]) > 0 /\ w[k][1] = s[at[k]]
            /\ Len(w[k]) = 1 <=> (at[k] = n \/ s[at[k] + 1] \notin WordSymbol)
      /\ \A j \in 1 .. n : j \in Starts(s) => \E k \in 1 .. Len(w) : at[k] = j
  BY <1>p DEF Begins
<1>2. n > 0 /\ s[n] \in WordSymbol => w # <<>>
  BY DEF WordsUpTo
<1>3. \A k \in 1 .. Len(w) : at[k] \in 1 .. n /\ at[k] \in 1 .. i /\ s[at[k]] \in WordSymbol
  <2> SUFFICES ASSUME NEW k \in 1 .. Len(w)
               PROVE  at[k] \in 1 .. n /\ at[k] \in 1 .. i /\ s[at[k]] \in WordSymbol
    OBVIOUS
  <2>1. at[k] \in 1 .. n
    BY <1>a
  <2>2. at[k] \in 1 .. i
    BY <1>0, <2>1
  <2>3. at[k] \in Starts(s)
    BY <1>1
  <2> QED
    BY <2>1, <2>2, <2>3 DEF Starts
<1> HIDE DEF n, c
<1>4. CASE c \notin WordSymbol
  <2>1. AddToWords(s, i, w) = w
    BY <1>4 DEF AddToWords, c
  <2>2. at \in [1 .. Len(w) -> 1 .. i]
    BY <1>3, <1>a
  <2>3. i \notin Starts(s)
    BY <1>4 DEF Starts, c
  <2>4. ASSUME NEW j \in 1 .. i, j \in Starts(s) PROVE \E k \in 1 .. Len(w) : at[k] = j
    <3>1. j # i
      BY <2>4, <2>3
    <3>2. j \in 1 .. n
      BY <1>0, <3>1
    <3> QED
      BY <1>1, <2>4, <3>2
  <2>5. ASSUME NEW k \in 1 .. Len(w)
        PROVE  Len(w[k]) = 1 <=> (at[k] = i \/ s[at[k] + 1] \notin WordSymbol)
    <3>1. at[k] \in 1 .. n
      BY <1>3, <1>a
    <3>2. at[k] # i /\ (at[k] = n => at[k] + 1 = i)
      BY <1>0, <3>1
    <3> QED
      BY <1>1, <1>4, <3>2 DEF c
  <2>6. Begins(s, i, w, at)
    BY <1>1, <2>2, <2>4, <2>5 DEF Begins
  <2>7. WordsUpTo(s, i, w)
    BY <1>4, <2>6 DEF WordsUpTo, c
  <2> QED
    BY <2>1, <2>7
<1>5. CASE c \in WordSymbol /\ i > 1 /\ s[i - 1] \in WordSymbol
  <2> DEFINE last == Len(w)
             v == [w EXCEPT ![last] = Append(@, c)]
  <2>1. AddToWords(s, i, w) = v
    BY <1>5 DEF AddToWords, c
  <2>2. last \in 1 .. Len(w) /\ last > 0
    BY <1>0, <1>2, <1>5 DEF n, SymbolSeqs
  <2>a. \A k \in 1 .. Len(w) : ~(k > last) /\ (k # last => k < last)
    BY <2>2
  <2>3. Append(w[last], c) \in Seq(Symbol) /\ Len(Append(w[last], c)) = Len(w[last]) + 1
    BY <1>0, <2>2, AppendProperties
  <2>4. v \in SymbolSeqs /\ Len(v) = Len(w)
    BY <2>2, <2>3, ExceptSeq DEF SymbolSeqs
  <2>5. v[last] = Append(w[last], c) /\ \A k \in 1 .. Len(w) : k # last => v[k] = w[k]
    BY <1>0, <2>2
  <2> HIDE DEF v, last
  <2>6. Len(w[last]) \in Nat /\ Len(w[last]) > 0
    BY <1>0, <1>1, <2>2
  <2>7. v[last][1] = w[last][1] /\ Len(v[last]) > 1
    BY <1>0, <2>2, <2>3, <2>5, <2>6, AppendProperties
  <2>8. at \in [1 .. Len(w) -> 1 .. i]
    BY <1>3, <1>a
  <2>9. i \notin Starts(s)
    BY <1>5 DEF Starts
  <2>10. ASSUME NEW j \in 1 .. i, j \in Starts(s) PROVE \E k \in 1 .. Len(w) : at[k] = j
    <3>1. j # i
      BY <2>10, <2>9
    <3>2. j \in 1 .. n
      BY <1>0, <3>1
    <3> QED
      BY <1>1, <2>10, <3>2
  <2>11. ASSUME NEW k \in 1 .. Len(w)
         PROVE  /\ Len(v[k]) > 0 /\ v[k][1] = s[at[k]]
                /\ Len(v[k]) = 1 <=> (at[k] = i \/ s[at[k] + 1] \notin WordSymbol)
    <3>1. CASE k = last
      <4>1. Len(v[k]) > 0 /\ v[k][1] = s[at[k]] /\ Len(v[k]) # 1
        <5>1. w[last][1] = s[at[last]]
          BY <1>1, <2>2
        <5>2. Len(v[last]) \in Nat
          BY <2>3, <2>5
        <5>3. Len(v[last]) > 0 /\ Len(v[last]) # 1
          <6>1. PICK m \in Nat : m = Len(v[last])
            BY <5>2
          <6>2. m > 1
            BY <2>7, <6>1
          <6>3. m > 0 /\ m # 1
            BY <6>2
          <6> QED
            BY <6>1, <6>3
        <5> QED
          BY <2>7, <3>1, <5>1, <5>3
      <4>2. at[k] # i
        BY <1>0, <1>3
      <4>3. s[at[k] + 1] \in WordSymbol
        <5>1. CASE at[k] = n
          BY <1>0, <1>5, <5>1 DEF c
        <5>2. CASE at[k] # n
          <6>1. s[at[k] + 1] \in WordSymbol \/ Len(w[k]) = 1
            BY <1>1
          <6>2. ASSUME s[at[k] + 1] \notin WordSymbol PROVE FALSE
            \* The run of n began before it, at another word than the last one.
            <7> DEFINE D == {j \in at[k] + 1 .. n : s[j] \notin WordSymbol}
            <7>1. at[k] \in 1 .. n /\ at[k] < n
              BY <1>0, <1>3, <5>2
            <7>2. at[k] + 1 \in D
              BY <1>0, <6>2, <7>1
            <7>3. PICK j \in at[k] + 1 .. n : j \in D /\ \A x \in D : x <= j
              <8>1. D \in SUBSET (at[k] + 1 .. n) /\ at[k] + 1 \in Nat
                BY <7>1
              <8> HIDE DEF D
              <8> QED
                BY <1>0, <7>2, <8>1, Greatest
            <7>4. s[n] \in WordSymbol
              BY <1>5 DEF n
            <7>5. j \in Nat /\ j < n /\ s[j] \notin WordSymbol
              BY <1>0, <7>1, <7>3, <7>4
            <7>6. s[j + 1] \in WordSymbol
              <8>1. j + 1 \in at[k] + 1 .. n /\ ~(j + 1 <= j)
                BY <1>0, <7>1, <7>5
              <8> QED
                BY <7>3, <8>1
            <7>7. j + 1 \in 1 .. n /\ j + 1 \in DOMAIN s /\ j + 1 - 1 = j /\ at[k] < j + 1
              BY <1>0, <7>1, <7>5
            <7>8. j + 1 \in Starts(s)
              BY <7>5, <7>6, <7>7 DEF Starts
            <7>9. PICK l \in 1 .. Len(w) : at[l] = j + 1
              BY <1>1, <7>7, <7>8
            <7>10. ~(l < k) /\ l # k
              BY <1>1, <1>3, <7>1, <7>5, <7>7, <7>9
            <7> QED
              <8>1. l <= last /\ last \in Nat /\ l \in Nat
                BY <1>0, <2>2, <2>a, <7>9
              <8> QED
                BY <3>1, <7>10, <8>1
          <6> QED
            BY <6>2
        <5> QED
          BY <5>1, <5>2
      <4> QED
        BY <4>1, <4>2, <4>3
    <3>2. CASE k # last
      <4>1. v[k] = w[k]
        BY <2>5, <3>2
      <4>2. k < last
        BY <2>a, <3>2
      <4>3. at[k] < at[last]
        BY <1>1, <2>2, <4>2
      <4>4. at[k] # i /\ at[k] # n
        BY <1>0, <1>3, <2>2, <4>3
      <4> QED
        BY <1>1, <4>1, <4>4
    <3> QED
      BY <3>1, <3>2
  <2>12. WordsUpTo(s, i, v)
    <3>1. v # <<>>
      BY <2>2, <2>4
    <3> QED
      <4>1. Begins(s, i, v, at)
        BY <1>1, <2>4, <2>8, <2>10, <2>11 DEF Begins
      <4> QED
        BY <3>1, <4>1 DEF WordsUpTo
  <2> QED
    BY <2>1, <2>4, <2>12
<1>6. CASE c \in WordSymbol /\ ~(i > 1 /\ s[i - 1] \in WordSymbol)
  <2> DEFINE last == Len(w) + 1
             v == Append(w, <<c>>)
             now == [k \in 1 .. last |-> IF k = last THEN i ELSE at[k]]
  <2>1. AddToWords(s, i, w) = v
    BY <1>6 DEF AddToWords, c
  <2>2. <<c>> \in Seq(Symbol) /\ Len(<<c>>) = 1 /\ <<c>>[1] = c
    BY <1>0
  <2>3. /\ v \in SymbolSeqs /\ Len(v) = last /\ v[last] = <<c>>
        /\ \A k \in 1 .. Len(w) : v[k] = w[k]
    BY <2>2, AppendProperties DEF SymbolSeqs
  <2>4. last \in Nat /\ \A k \in 1 .. last : k = last \/ k \in 1 .. Len(w)
    BY <1>0
  <2>5. /\ i \in 1 .. i /\ last \in 1 .. last
        /\ \A k \in 1 .. Len(w) : k # last /\ k \in 1 .. last /\ k < last
    BY <1>0
  <2>6. now \in [1 .. last -> 1 .. i]
    <3> HIDE DEF last
    <3> QED
      BY <1>3, <2>4, <2>5
  <2>7. now[last] = i /\ \A k \in 1 .. Len(w) : now[k] = at[k]
    BY <2>5
  <2>8. i \in Starts(s)
    BY <1>0, <1>6 DEF Starts, c
  <2>9. \A k \in 1 .. Len(w) : at[k] < i /\ at[k] # n
    <3>1. \A k \in 1 .. Len(w) : at[k] = n => i > 1 /\ s[i - 1] \in WordSymbol
      BY <1>0, <1>3 DEF n
    <3>2. \A k \in 1 .. Len(w) : at[k] < i
      BY <1>0, <1>3
    <3> QED
      BY <1>6, <3>1, <3>2
  <2> HIDE DEF v, now, last
  <2>10. ASSUME NEW k \in 1 .. last, NEW l \in 1 .. last, k < l PROVE now[k] < now[l]
    <3>1. k \in 1 .. Len(w) /\ (l \in 1 .. Len(w) \/ l = last)
      BY <1>0, <2>4, <2>10
    <3> QED
      BY <1>1, <2>7, <2>9, <2>10, <3>1
  <2>11. ASSUME NEW k \in 1 .. last
         PROVE  /\ now[k] \in Starts(s)
                /\ Len(v[k]) > 0 /\ v[k][1] = s[now[k]]
                /\ Len(v[k]) = 1 <=> (now[k] = i \/ s[now[k] + 1] \notin WordSymbol)
    <3>1. CASE k = last
      <4>1. now[k] = i /\ v[k] = <<c>> /\ c = s[i]
        BY <2>3, <2>7, <3>1 DEF c
      <4> QED
        BY <2>2, <2>8, <4>1
    <3>2. CASE k \in 1 .. Len(w)
      <4>1. now[k] = at[k] /\ v[k] = w[k] /\ at[k] # n /\ at[k] < i
        BY <2>3, <2>7, <2>9, <3>2
      <4>2. at[k] # i
        BY <1>0, <4>1
      <4> QED
        BY <1>1, <3>2, <4>1, <4>2
    <3> QED
      BY <2>4, <3>1, <3>2
  <2>12. \A j \in 1 .. i : j \in Starts(s) => \E k \in 1 .. last : now[k] = j
    <3>1. \A j \in 1 .. i : j = i \/ j \in 1 .. n
      BY <1>0
    <3> QED
      BY <1>1, <2>5, <2>7, <3>1
  <2>13. v # <<>>
    BY <2>3, <2>4, <2>5
  <2>14. WordsUpTo(s, i, v)
    <3>1. Len(v) = last
      BY <2>3
    <3>2. Begins(s, i, v, now)
      BY <2>6, <2>10, <2>11, <2>12, <3>1 DEF Begins
    <3> QED
      BY <2>13, <3>2 DEF WordsUpTo
  <2> QED
    BY <2>1, <2>3, <2>14
<1> QED
  BY <1>4, <1>5, <1>6

\* What Words computes is the words of the text, each where it begins.
LEMMA WordsAre ==
    ASSUME NEW s \in Seq(Symbol)
    PROVE  Words(s) \in SymbolSeqs /\ WordsUpTo(s, Len(s), Words(s))
<1> DEFINE m == Len(s)
           body(g, i) == IF i = 0 THEN <<>> ELSE AddToWords(s, i, g[i - 1])
           D == {p \in (1 .. m) \X SymbolSeqs : WordsUpTo(s, p[1] - 1, p[2])}
           F == [p \in (1 .. m) \X SymbolSeqs |->
                    IF p \in D THEN AddToWords(s, p[1], p[2]) ELSE <<>>]
<1>0. m \in Nat /\ 0 \in Nat /\ 0 <= m
  OBVIOUS
<1>1. <<>> \in SymbolSeqs
  BY DEF SymbolSeqs
<1>2. F \in [(1 .. m) \X SymbolSeqs -> SymbolSeqs]
  <2>1. \A p \in D : AddToWords(s, p[1], p[2]) \in SymbolSeqs
    BY WordsGrow
  <2> HIDE DEF D, m
  <2> QED
    BY <1>1, <2>1
<1>3. PICK g : Iterates(g, m, SymbolSeqs, <<>>, F)
  <2> HIDE DEF F, m
  <2> QED
    BY <1>0, <1>1, <1>2, Iteration
<1>4. WordsUpTo(s, 0, <<>>)
  <2>1. Begins(s, 0, <<>>, [k \in 1 .. 0 |-> 0])
    BY DEF Begins
  <2> QED
    BY <2>1 DEF WordsUpTo
<1> DEFINE K == {n \in 0 .. m : WordsUpTo(s, n, g[n])}
<1>5. 0 \in K
  BY <1>0, <1>3, <1>4 DEF Iterates
<1>6. ASSUME NEW n \in 0 .. m, WordsUpTo(s, n, g[n]), n < m
      PROVE  g[n + 1] = AddToWords(s, n + 1, g[n]) /\ WordsUpTo(s, n + 1, g[n + 1])
  <2>1. n + 1 \in 1 .. m /\ n + 1 - 1 = n
    BY <1>0, <1>6
  <2>2. g[n] \in SymbolSeqs
    BY <1>3 DEF Iterates
  <2>3. g[n + 1] = F[<<n + 1, g[n]>>]
    <3> HIDE DEF F, m
    <3> QED
      BY <1>3, <2>1 DEF Iterates
  <2>4. <<n + 1, g[n]>> \in D
    BY <1>6, <2>1, <2>2
  <2>5. F[<<n + 1, g[n]>>] = AddToWords(s, n + 1, g[n])
    BY <2>4
  <2>6. WordsUpTo(s, n + 1 - 1, g[n])
    BY <1>6, <2>1
  <2>7. WordsUpTo(s, n + 1, AddToWords(s, n + 1, g[n]))
    BY <2>1, <2>2, <2>6, WordsGrow
  <2> QED
    BY <2>3, <2>5, <2>7
<1>7. 0 .. m \subseteq K
  <2>1. ASSUME NEW n \in 0 .. m, n \in K, n < m PROVE n + 1 \in K
    <3>1. n + 1 \in 0 .. m
      BY <1>0, <2>1
    <3> QED
      BY <1>6, <2>1, <3>1
  <2> HIDE DEF K, m
  <2> QED
    BY <1>0, <1>5, <2>1, UpTo
<1>8. \A i \in 0 .. m : g[i] = body(g, i)
  <2>1. ASSUME NEW i \in 0 .. m, i # 0 PROVE g[i] = AddToWords(s, i, g[i - 1])
    <3>1. i - 1 \in 0 .. m /\ i - 1 < m /\ i - 1 + 1 = i
      BY <1>0, <2>1
    <3>2. WordsUpTo(s, i - 1, g[i - 1])
      BY <1>7, <3>1
    <3> HIDE DEF m, F, K
    <3> QED
      BY <1>6, <3>1, <3>2
  <2>2. g[0] = <<>>
    BY <1>3 DEF Iterates
  <2> HIDE DEF m
  <2> QED
    BY <2>1, <2>2
<1>9. g = [i \in 0 .. m |-> body(g, i)]
  <2>1. g = [i \in 0 .. m |-> g[i]]
    BY <1>3 DEF Iterates
  <2> HIDE DEF body, m
  <2> QED
    BY <1>8, <2>1
<1> DEFINE upTo == CHOOSE h : h = [i \in 0 .. m |-> body(h, i)]
<1>10. upTo = [i \in 0 .. m |-> body(upTo, i)]
  <2> HIDE DEF body, m
  <2> QED
    BY <1>9
<1>11. Words(s) = upTo[m]
  BY DEF Words, AddToWords
<1> HIDE DEF upTo
\* Whatever the recursion chose, it agrees with g.
<1>12. \A i \in 0 .. m : upTo[i] = body(upTo, i)
  <2> HIDE DEF body, m
  <2> QED
    BY <1>10
<1> DEFINE E == {n \in 0 .. m : upTo[n] = g[n]}
<1>13. 0 \in E
  BY <1>0, <1>8, <1>12
<1>14. ASSUME NEW n \in 0 .. m, n \in E, n < m PROVE n + 1 \in E
  <2>1. n + 1 \in 0 .. m /\ n + 1 # 0 /\ n + 1 - 1 = n
    BY <1>0, <1>14
  <2>2. upTo[n + 1] = AddToWords(s, n + 1, upTo[n]) /\ g[n + 1] = AddToWords(s, n + 1, g[n])
    BY <1>8, <1>12, <2>1
  <2> QED
    BY <1>14, <2>1, <2>2
<1>15. 0 .. m \subseteq E
  <2> HIDE DEF E, m
  <2> QED
    BY <1>0, <1>13, <1>14, UpTo
<1>16. m \in 0 .. m
  BY <1>0
<1>17. upTo[m] = g[m] /\ WordsUpTo(s, m, g[m]) /\ g[m] \in SymbolSeqs
  BY <1>3, <1>7, <1>15, <1>16 DEF Iterates
<1> QED
  BY <1>11, <1>17

-----------------------------------------------------------------------------
(* Statements. *)

\* What is in no statement that counts.
Void(c) == c \in Space \cup {";"}

Empty(s, n) == \A i \in 1 .. n : Void(s[i])

\* t is the only part of the first n symbols of s that is not void.
IsStatement(s, n, t, d) ==
    /\ d \in 0 .. n /\ d + Len(t) <= n
    /\ \A k \in 1 .. Len(t) : t[k] = s[d + k] /\ t[k] # ";"
    /\ \E k \in 1 .. Len(t) : t[k] \notin Space
    /\ \A i \in 1 .. n : i <= d \/ i > d + Len(t) => Void(s[i])

IsOne(s, n, t) == \E d : IsStatement(s, n, t, d)

\* A semicolon stands between two symbols that are not void.
Parted(s, n) ==
    \E i, j, k \in 1 .. n : i < k /\ k < j /\ s[k] = ";" /\ ~Void(s[i]) /\ ~Void(s[j])

\* The statements in the first n symbols of s are found.
Found(s, n, stmts) ==
    \/ Len(stmts) = 0 /\ Empty(s, n)
    \/ Len(stmts) = 1 /\ IsOne(s, n, stmts[1])
    \/ Len(stmts) > 1 /\ Parted(s, n)

Closed(p) == IF Blank(p.open) THEN p.stmts ELSE Append(p.stmts, p.open)
AddToStatements(s, i, before) ==
    IF s[i] = ";" THEN [stmts |-> Closed(before), open |-> <<>>]
    ELSE [before EXCEPT !.open = Append(@, s[i])]

Cut == [stmts : SymbolSeqs, open : Seq(Symbol)]

\* The first n symbols are cut into what is found up to q and what is open.
CutUpTo(s, n, p) ==
    /\ Len(p.open) <= n
    /\ LET q == n - Len(p.open)
       IN  /\ q > 0 => s[q] = ";"
           /\ \A k \in 1 .. Len(p.open) : p.open[k] = s[q + k] /\ p.open[k] # ";"
           /\ Found(s, q, p.stmts)

\* A statement that ends here is found.
LEMMA ClosedIsFound ==
    ASSUME NEW s \in Seq(Symbol), NEW n \in 0 .. Len(s), NEW p \in Cut, CutUpTo(s, n, p)
    PROVE  Closed(p) \in SymbolSeqs /\ Found(s, n, Closed(p))
<1> DEFINE q == n - Len(p.open)
<1>0. /\ n \in Nat /\ Len(p.open) \in Nat /\ q \in 0 .. n /\ q + Len(p.open) = n
  <2>1. Len(p.open) \in Nat
    BY DEF Cut
  <2>2. Len(p.open) <= n
    BY DEF CutUpTo
  <2> QED
    BY <2>1, <2>2
<1>a. p.stmts \in SymbolSeqs /\ p.open \in Seq(Symbol) /\ Len(p.stmts) \in Nat
  BY DEF Cut, SymbolSeqs
<1>1. Closed(p) \in SymbolSeqs
  BY <1>a, AppendedIsSeq DEF Closed, SymbolSeqs
<1> SUFFICES Found(s, n, Closed(p))
  BY <1>1
<1>2. /\ q > 0 => s[q] = ";"
      /\ \A k \in 1 .. Len(p.open) : p.open[k] = s[q + k] /\ p.open[k] # ";"
      /\ Found(s, q, p.stmts)
  BY DEF CutUpTo
<1> HIDE DEF q
<1>3. \A i \in 1 .. n : i \notin 1 .. q => /\ i - q \in 1 .. Len(p.open) /\ q + (i - q) = i
                                          /\ s[i] = p.open[i - q]
  <2>1. \A i \in 1 .. n : i \notin 1 .. q => i - q \in 1 .. Len(p.open) /\ q + (i - q) = i
    BY <1>0
  <2> QED
    BY <1>2, <2>1
<1>4. DOMAIN p.open = 1 .. Len(p.open)
  BY <1>a
<1>5. CASE Blank(p.open)
  <2>1. Closed(p) = p.stmts
    BY <1>5 DEF Closed
  <2>2. \A k \in 1 .. Len(p.open) : p.open[k] \in Space
    BY <1>4, <1>5 DEF Blank, ToSet
  <2>3. \A i \in 1 .. n : i \notin 1 .. q => Void(s[i])
    BY <1>3, <2>2 DEF Void
  <2>4. CASE Len(p.stmts) = 0 /\ Empty(s, q)
    <3>1. Empty(s, n)
      BY <2>3, <2>4 DEF Empty
    <3> QED
      BY <2>1, <2>4, <3>1 DEF Found
  <2>5. CASE Len(p.stmts) = 1 /\ IsOne(s, q, p.stmts[1])
    <3>1. PICK d : IsStatement(s, q, p.stmts[1], d)
      BY <2>5 DEF IsOne
    <3>2. d \in 0 .. n /\ d + Len(p.stmts[1]) <= n
      <4>1. p.stmts[1] \in Seq(Symbol)
        BY <1>a, <2>5 DEF SymbolSeqs
      <4>2. d \in 0 .. q /\ d + Len(p.stmts[1]) <= q
        BY <3>1 DEF IsStatement
      <4>3. Len(p.stmts[1]) \in Nat
        BY <4>1
      <4> QED
        BY <1>0, <4>2, <4>3
    <3>3. IsStatement(s, n, p.stmts[1], d)
      BY <2>3, <3>1, <3>2 DEF IsStatement
    <3>4. IsOne(s, n, p.stmts[1])
      BY <3>3 DEF IsOne
    <3> QED
      BY <2>1, <2>5, <3>4 DEF Found
  <2>6. CASE Len(p.stmts) > 1 /\ Parted(s, q)
    <3>1. 1 .. q \subseteq 1 .. n
      BY <1>0
    <3>2. Parted(s, n)
      BY <2>6, <3>1 DEF Parted
    <3> QED
      BY <2>1, <2>6, <3>2 DEF Found
  <2> QED
    BY <1>2, <2>4, <2>5, <2>6 DEF Found
<1>6. CASE ~Blank(p.open)
  <2>1. Closed(p) = Append(p.stmts, p.open)
    BY <1>6 DEF Closed
  <2>2. /\ Len(Closed(p)) = Len(p.stmts) + 1
        /\ Closed(p)[Len(p.stmts) + 1] = p.open
    BY <1>a, <2>1, AppendProperties DEF SymbolSeqs
  <2>3. PICK k \in 1 .. Len(p.open) : p.open[k] \notin Space
    BY <1>4, <1>6 DEF Blank, ToSet
  <2>4. q + k \in 1 .. n /\ q + k > q /\ ~Void(s[q + k])
    <3>1. q + k \in 1 .. n /\ q + k > q
      BY <1>0
    <3>2. s[q + k] \notin Space /\ s[q + k] # ";"
      BY <1>2, <2>3
    <3> QED
      BY <3>1, <3>2 DEF Void
  <2>5. CASE Len(p.stmts) = 0 /\ Empty(s, q)
    <3>1. IsStatement(s, n, p.open, q)
      <4>1. q \in 0 .. n /\ q + Len(p.open) <= n
        BY <1>0
      <4>2. \A i \in 1 .. n : i <= q \/ i > q + Len(p.open) => Void(s[i])
        <5>1. \A i \in 1 .. n : i <= q \/ i > q + Len(p.open) => i \in 1 .. q
          BY <1>0
        <5> QED
          BY <2>5, <5>1 DEF Empty
      <4> QED
        BY <1>2, <2>3, <4>1, <4>2 DEF IsStatement
    <3>2. Len(Closed(p)) = 1 /\ Closed(p)[1] = p.open
      BY <2>2, <2>5
    <3>3. IsOne(s, n, Closed(p)[1])
      BY <3>1, <3>2 DEF IsOne
    <3> QED
      BY <3>2, <3>3 DEF Found
  <2>6. CASE Len(p.stmts) = 1 /\ IsOne(s, q, p.stmts[1])
    <3> DEFINE t == p.stmts[1]
    <3>0. t \in Seq(Symbol) /\ Len(t) \in Nat
      BY <1>a, <2>6 DEF SymbolSeqs
    <3> HIDE DEF t
    <3>1. PICK d : IsStatement(s, q, t, d)
      BY <2>6 DEF t, IsOne
    <3>2. d \in 0 .. q /\ d \in Nat /\ d + Len(t) <= q
      <4>1. d \in 0 .. q /\ d + Len(t) <= q
        BY <3>1 DEF IsStatement
      <4> QED
        BY <1>0, <3>0, <4>1
    <3>3. PICK l \in 1 .. Len(t) : t[l] \notin Space
      BY <3>1 DEF IsStatement
    <3>4. t[l] = s[d + l] /\ t[l] # ";"
      BY <3>1 DEF IsStatement
    <3>5. d + l \in 1 .. n /\ d + l <= q /\ q \in 1 .. n /\ q > 0
      BY <1>0, <3>0, <3>2
    <3>6. s[q] = ";" /\ ~Void(s[d + l])
      BY <1>2, <3>3, <3>4, <3>5 DEF Void
    <3>7. d + l < q
      <4>1. d + l # q
        BY <3>4, <3>6
      <4> QED
        BY <1>0, <3>0, <3>2, <3>5, <4>1
    <3>8. Parted(s, n)
      BY <2>4, <3>5, <3>6, <3>7 DEF Parted
    <3>9. Len(Closed(p)) > 1
      BY <2>2, <2>6
    <3> QED
      BY <3>8, <3>9 DEF Found
  <2>7. CASE Len(p.stmts) > 1 /\ Parted(s, q)
    <3>1. 1 .. q \subseteq 1 .. n
      BY <1>0
    <3>2. Parted(s, n)
      BY <2>7, <3>1 DEF Parted
    <3>3. Len(Closed(p)) > 1
      BY <1>a, <2>2, <2>7
    <3> QED
      BY <3>2, <3>3 DEF Found
  <2> QED
    BY <1>2, <2>5, <2>6, <2>7 DEF Found
<1> QED
  BY <1>5, <1>6

\* One more symbol, and the statements are still cut where semicolons stand.
LEMMA StatementsGrow ==
    ASSUME NEW s \in Seq(Symbol), NEW i \in 1 .. Len(s), NEW p \in Cut, CutUpTo(s, i - 1, p)
    PROVE  AddToStatements(s, i, p) \in Cut /\ CutUpTo(s, i, AddToStatements(s, i, p))
<1>0. i \in Nat /\ i - 1 \in 0 .. Len(s) /\ i - 1 + 1 = i /\ s[i] \in Symbol
  OBVIOUS
<1>a. p.stmts \in SymbolSeqs /\ p.open \in Seq(Symbol) /\ Len(p.open) \in Nat
  BY DEF Cut
<1>1. CASE s[i] = ";"
  <2> DEFINE new == [stmts |-> Closed(p), open |-> <<>>]
  <2>1. Closed(p) \in SymbolSeqs /\ Found(s, i - 1, Closed(p))
    BY <1>0, ClosedIsFound
  <2>2. AddToStatements(s, i, p) = new
    BY <1>1 DEF AddToStatements
  <2>3. new \in Cut /\ new.stmts = Closed(p) /\ new.open = <<>> /\ Len(new.open) = 0
    BY <2>1 DEF Cut
  <2>4. Void(s[i])
    BY <1>1 DEF Void
  <2>5. \A j \in 1 .. i : j \in 1 .. i - 1 \/ j = i
    BY <1>0
  <2> HIDE DEF new
  <2>6. Found(s, i, Closed(p))
    <3>1. CASE Len(Closed(p)) = 0 /\ Empty(s, i - 1)
      <4>1. Empty(s, i)
        BY <2>4, <2>5, <3>1 DEF Empty
      <4> QED
        BY <3>1, <4>1 DEF Found
    <3>2. CASE Len(Closed(p)) = 1 /\ IsOne(s, i - 1, Closed(p)[1])
      <4>1. PICK d : IsStatement(s, i - 1, Closed(p)[1], d)
        BY <3>2 DEF IsOne
      <4>2. Closed(p)[1] \in Seq(Symbol)
        <5>1. 1 \in 1 .. Len(Closed(p))
          BY <3>2
        <5> QED
          BY <2>1, <5>1 DEF SymbolSeqs
      <4>3. d \in 0 .. i /\ d + Len(Closed(p)[1]) <= i
        <5>1. d \in 0 .. i - 1 /\ d + Len(Closed(p)[1]) <= i - 1
          BY <4>1 DEF IsStatement
        <5>2. Len(Closed(p)[1]) \in Nat
          BY <4>2
        <5> QED
          BY <1>0, <5>1, <5>2
      <4>4. IsStatement(s, i, Closed(p)[1], d)
        BY <2>4, <2>5, <4>1, <4>3 DEF IsStatement
      <4>5. IsOne(s, i, Closed(p)[1])
        BY <4>4 DEF IsOne
      <4> QED
        BY <3>2, <4>5 DEF Found
    <3>3. CASE Len(Closed(p)) > 1 /\ Parted(s, i - 1)
      <4>1. 1 .. i - 1 \subseteq 1 .. i
        BY <1>0
      <4>2. Parted(s, i)
        BY <3>3, <4>1 DEF Parted
      <4> QED
        BY <3>3, <4>2 DEF Found
    <3> QED
      BY <2>1, <3>1, <3>2, <3>3 DEF Found
  <2>7. CutUpTo(s, i, new)
    <3>1. i - Len(new.open) = i /\ Len(new.open) <= i /\ 1 .. Len(new.open) = {}
      BY <1>0, <2>3
    <3>2. Found(s, i, new.stmts)
      BY <2>3, <2>6
    <3> QED
      BY <1>1, <3>1, <3>2 DEF CutUpTo
  <2> QED
    BY <2>2, <2>3, <2>7
<1>2. CASE s[i] # ";"
  <2> DEFINE open == Append(p.open, s[i])
             new == [p EXCEPT !.open = open]
             q == i - 1 - Len(p.open)
  <2>1. /\ open \in Seq(Symbol) /\ Len(open) = Len(p.open) + 1 /\ open[Len(p.open) + 1] = s[i]
        /\ \A k \in 1 .. Len(p.open) : open[k] = p.open[k]
    BY <1>0, <1>a, AppendProperties
  <2>2. AddToStatements(s, i, p) = new
    BY <1>2 DEF AddToStatements
  <2>3. new \in Cut /\ new.stmts = p.stmts /\ new.open = open
    BY <2>1 DEF Cut
  <2>4. /\ Len(p.open) <= i - 1
        /\ q > 0 => s[q] = ";"
        /\ \A k \in 1 .. Len(p.open) : p.open[k] = s[q + k] /\ p.open[k] # ";"
        /\ Found(s, q, p.stmts)
    BY DEF CutUpTo
  <2> HIDE DEF new, open
  <2>5. Len(open) <= i /\ i - Len(open) = q /\ q + (Len(p.open) + 1) = i
    <3>1. Len(p.open) <= i - 1 /\ Len(open) = Len(p.open) + 1
      BY <2>1, <2>4
    <3> QED
      BY <1>0, <1>a, <3>1
  <2> HIDE DEF q
  <2>6. ASSUME NEW k \in 1 .. Len(open) PROVE open[k] = s[q + k] /\ open[k] # ";"
    <3>1. k \in 1 .. Len(p.open) \/ k = Len(p.open) + 1
      BY <1>a, <2>1
    <3> QED
      BY <1>2, <2>1, <2>4, <2>5, <3>1
  <2>7. CutUpTo(s, i, new)
    BY <2>3, <2>4, <2>5, <2>6 DEF CutUpTo
  <2> QED
    BY <2>2, <2>3, <2>7
<1> QED
  BY <1>1, <1>2

\* What SplitStatements computes is no, one or several statements of the text.
LEMMA StatementsAre ==
    ASSUME NEW s \in Seq(Symbol)
    PROVE  SplitStatements(s) \in SymbolSeqs /\ Found(s, Len(s), SplitStatements(s))
<1> DEFINE m == Len(s)
           none == [stmts |-> <<>>, open |-> <<>>]
           body(g, i) == IF i = 0 THEN none ELSE AddToStatements(s, i, g[i - 1])
           D == {p \in (1 .. m) \X Cut : CutUpTo(s, p[1] - 1, p[2])}
           F == [p \in (1 .. m) \X Cut |->
                    IF p \in D THEN AddToStatements(s, p[1], p[2]) ELSE none]
<1>0. m \in Nat /\ 0 \in Nat /\ 0 <= m
  OBVIOUS
<1>1. none \in Cut
  BY DEF Cut, SymbolSeqs
<1>2. F \in [(1 .. m) \X Cut -> Cut]
  <2>1. \A p \in D : AddToStatements(s, p[1], p[2]) \in Cut
    BY StatementsGrow
  <2> HIDE DEF D, m
  <2> QED
    BY <1>1, <2>1
<1>3. PICK g : Iterates(g, m, Cut, none, F)
  <2> HIDE DEF F, m
  <2> QED
    BY <1>0, <1>1, <1>2, Iteration
<1>4. CutUpTo(s, 0, none)
  <2>1. Empty(s, 0)
    BY DEF Empty
  <2>2. Found(s, 0, <<>>)
    BY <2>1 DEF Found
  <2> QED
    BY <2>2 DEF CutUpTo
<1> DEFINE K == {n \in 0 .. m : CutUpTo(s, n, g[n])}
<1>5. 0 \in K
  BY <1>0, <1>3, <1>4 DEF Iterates
<1>6. ASSUME NEW n \in 0 .. m, CutUpTo(s, n, g[n]), n < m
      PROVE  g[n + 1] = AddToStatements(s, n + 1, g[n]) /\ CutUpTo(s, n + 1, g[n + 1])
  <2>1. n + 1 \in 1 .. m /\ n + 1 - 1 = n
    BY <1>0, <1>6
  <2>2. g[n] \in Cut
    BY <1>3 DEF Iterates
  <2>3. g[n + 1] = F[<<n + 1, g[n]>>]
    <3> HIDE DEF F, m
    <3> QED
      BY <1>3, <2>1 DEF Iterates
  <2>4. <<n + 1, g[n]>> \in D
    BY <1>6, <2>1, <2>2
  <2>5. F[<<n + 1, g[n]>>] = AddToStatements(s, n + 1, g[n])
    BY <2>4
  <2>6. CutUpTo(s, n + 1 - 1, g[n])
    BY <1>6, <2>1
  <2>7. CutUpTo(s, n + 1, AddToStatements(s, n + 1, g[n]))
    BY <2>1, <2>2, <2>6, StatementsGrow
  <2> QED
    BY <2>3, <2>5, <2>7
<1>7. 0 .. m \subseteq K
  <2>1. ASSUME NEW n \in 0 .. m, n \in K, n < m PROVE n + 1 \in K
    <3>1. n + 1 \in 0 .. m
      BY <1>0, <2>1
    <3> QED
      BY <1>6, <2>1, <3>1
  <2> HIDE DEF K, m
  <2> QED
    BY <1>0, <1>5, <2>1, UpTo
<1>8. \A i \in 0 .. m : g[i] = body(g, i)
  <2>1. ASSUME NEW i \in 0 .. m, i # 0 PROVE g[i] = AddToStatements(s, i, g[i - 1])
    <3>1. i - 1 \in 0 .. m /\ i - 1 < m /\ i - 1 + 1 = i
      BY <1>0, <2>1
    <3>2. CutUpTo(s, i - 1, g[i - 1])
      BY <1>7, <3>1
    <3> HIDE DEF m, F, K
    <3> QED
      BY <1>6, <3>1, <3>2
  <2>2. g[0] = none
    BY <1>3 DEF Iterates
  <2> HIDE DEF m
  <2> QED
    BY <2>1, <2>2
<1>9. g = [i \in 0 .. m |-> body(g, i)]
  <2>1. g = [i \in 0 .. m |-> g[i]]
    BY <1>3 DEF Iterates
  <2> HIDE DEF body, m
  <2> QED
    BY <1>8, <2>1
<1> DEFINE upTo == CHOOSE h : h = [i \in 0 .. m |-> body(h, i)]
<1>10. upTo = [i \in 0 .. m |-> body(upTo, i)]
  <2> HIDE DEF body, m
  <2> QED
    BY <1>9
<1>11. SplitStatements(s) = Closed(upTo[m])
  BY DEF SplitStatements, Closed, AddToStatements
<1> HIDE DEF upTo
\* Whatever the recursion chose, it agrees with g.
<1>12. \A i \in 0 .. m : upTo[i] = body(upTo, i)
  <2> HIDE DEF body, m
  <2> QED
    BY <1>10
<1> DEFINE E == {n \in 0 .. m : upTo[n] = g[n]}
<1>13. 0 \in E
  BY <1>0, <1>8, <1>12
<1>14. ASSUME NEW n \in 0 .. m, n \in E, n < m PROVE n + 1 \in E
  <2>1. n + 1 \in 0 .. m /\ n + 1 # 0 /\ n + 1 - 1 = n
    BY <1>0, <1>14
  <2>2. /\ upTo[n + 1] = AddToStatements(s, n + 1, upTo[n])
        /\ g[n + 1] = AddToStatements(s, n + 1, g[n])
    BY <1>8, <1>12, <2>1
  <2> QED
    BY <1>14, <2>1, <2>2
<1>15. 0 .. m \subseteq E
  <2> HIDE DEF E, m
  <2> QED
    BY <1>0, <1>13, <1>14, UpTo
<1>16. m \in 0 .. m
  BY <1>0
<1>17. upTo[m] = g[m] /\ CutUpTo(s, m, g[m]) /\ g[m] \in Cut
  BY <1>3, <1>7, <1>15, <1>16 DEF Iterates
<1> QED
  BY <1>11, <1>16, <1>17, ClosedIsFound

\* Space and semicolons are in no word.
LEMMA NoWordIsVoid == \A c : Void(c) => c \notin WordSymbol
  BY VocabularyAssumption DEF Void

\* The words of the only statement are the words of the text.
LEMMA StatementWords ==
    ASSUME NEW s \in Seq(Symbol), NEW t \in Seq(Symbol), NEW d, IsStatement(s, Len(s), t, d),
           NEW w \in SymbolSeqs, NEW at, Begins(t, Len(t), w, at)
    PROVE  Begins(s, Len(s), w, [k \in 1 .. Len(w) |-> d + at[k]])
<1> DEFINE n == Len(s)
           m == Len(t)
<1>0. n \in Nat /\ m \in Nat /\ DOMAIN s = 1 .. n /\ DOMAIN t = 1 .. m /\ Len(w) \in Nat
  BY DEF SymbolSeqs
<1>1. /\ d \in 0 .. n /\ d + m <= n
      /\ \A k \in 1 .. m : t[k] = s[d + k]
      /\ \A i \in 1 .. n : i <= d \/ i > d + m => s[i] \notin WordSymbol
  BY NoWordIsVoid DEF IsStatement
<1>2. /\ at \in [1 .. Len(w) -> 1 .. m]
      /\ \A k, l \in 1 .. Len(w) : k < l => at[k] < at[l]
      /\ \A k \in 1 .. Len(w) :
            /\ at[k] \in Starts(t)
            /\ Len(w[k]) > 0 /\ w[k][1] = t[at[k]]
            /\ Len(w[k]) = 1 <=> (at[k] = m \/ t[at[k] + 1] \notin WordSymbol)
      /\ \A i \in 1 .. m : i \in Starts(t) => \E k \in 1 .. Len(w) : at[k] = i
  BY DEF Begins
<1> HIDE DEF n, m
<1>3. ASSUME NEW k \in 1 .. m
      PROVE  /\ d + k \in 1 .. n
             /\ k > 1 => k - 1 \in 1 .. m /\ d + k - 1 = d + (k - 1)
             /\ k = 1 => d + k - 1 = d
             /\ k # m => k + 1 \in 1 .. m /\ d + k + 1 = d + (k + 1)
  BY <1>0, <1>1
<1>4. ASSUME NEW k \in 1 .. m PROVE d + k \in Starts(s) <=> k \in Starts(t)
  <2>1. CASE k = 1
    <3>1. d + k > 1 => s[d + k - 1] \notin WordSymbol
      <4>1. d + k > 1 => d \in 1 .. n
        BY <1>0, <1>1, <2>1
      <4>2. d \in 1 .. n => s[d] \notin WordSymbol
        BY <1>0, <1>1
      <4> QED
        BY <1>3, <2>1, <4>1, <4>2
    <3>2. ~(k > 1)
      BY <2>1
    <3> QED
      BY <1>0, <1>1, <1>3, <3>1, <3>2 DEF Starts
  <2>2. CASE k # 1
    <3>1. k > 1 /\ d + k > 1
      BY <1>1, <2>2
    <3>2. t[k - 1] = s[d + k - 1]
      BY <1>1, <1>3, <3>1
    <3> QED
      BY <1>0, <1>1, <1>3, <3>1, <3>2 DEF Starts
  <2> QED
    BY <2>1, <2>2
<1>5. ASSUME NEW k \in 1 .. m
      PROVE  (k = m \/ t[k + 1] \notin WordSymbol)
                 <=> (d + k = n \/ s[d + k + 1] \notin WordSymbol)
  <2>1. CASE k = m
    <3>1. d + k = n \/ (d + k + 1 \in 1 .. n /\ d + k + 1 > d + m)
      BY <1>0, <1>1, <2>1
    <3> QED
      BY <1>1, <2>1, <3>1
  <2>2. CASE k # m
    <3>1. d + k # n
      BY <1>0, <1>1, <2>2
    <3>2. t[k + 1] = s[d + k + 1]
      BY <1>1, <1>3, <2>2
    <3> QED
      BY <2>2, <3>1, <3>2
  <2> QED
    BY <2>1, <2>2
<1> DEFINE now == [k \in 1 .. Len(w) |-> d + at[k]]
<1>6. \A k \in 1 .. Len(w) : at[k] \in 1 .. m /\ now[k] = d + at[k] /\ now[k] \in 1 .. n
  BY <1>2, <1>3
<1>7. now \in [1 .. Len(w) -> 1 .. n]
  BY <1>6
<1> HIDE DEF now
<1>8. \A k, l \in 1 .. Len(w) : k < l => now[k] < now[l]
  BY <1>0, <1>1, <1>2, <1>6
<1>9. ASSUME NEW k \in 1 .. Len(w)
      PROVE  /\ now[k] \in Starts(s)
             /\ Len(w[k]) > 0 /\ w[k][1] = s[now[k]]
             /\ Len(w[k]) = 1 <=> (now[k] = n \/ s[now[k] + 1] \notin WordSymbol)
  <2>1. at[k] \in 1 .. m /\ now[k] = d + at[k] /\ at[k] \in Starts(t)
    BY <1>2, <1>6
  <2>2. now[k] \in Starts(s) /\ t[at[k]] = s[now[k]]
    BY <1>1, <1>4, <2>1
  <2>3. (at[k] = m \/ t[at[k] + 1] \notin WordSymbol)
            <=> (now[k] = n \/ s[now[k] + 1] \notin WordSymbol)
    BY <1>5, <2>1
  <2> QED
    BY <1>2, <2>2, <2>3
<1>10. ASSUME NEW i \in 1 .. n, i \in Starts(s) PROVE \E k \in 1 .. Len(w) : now[k] = i
  <2>1. s[i] \in WordSymbol
    BY <1>10 DEF Starts
  <2>2. ~(i <= d) /\ ~(i > d + m)
    BY <1>1, <2>1
  <2>3. i - d \in 1 .. m /\ d + (i - d) = i
    BY <1>0, <1>1, <2>2
  <2>4. PICK k \in 1 .. Len(w) : at[k] = i - d
    BY <1>2, <1>4, <1>10, <2>3
  <2> QED
    BY <1>6, <2>3, <2>4
<1>11. Begins(s, n, w, now)
  BY <1>7, <1>8, <1>9, <1>10 DEF Begins
<1> QED
  BY <1>11 DEF n, now

\* What the checks ask of the words, said of the positions they begin at.
LEMMA WordsTell ==
    ASSUME NEW s \in Seq(Symbol), NEW w \in SymbolSeqs, NEW at, Begins(s, Len(s), w, at)
    PROVE  /\ w = <<>> <=> Starts(s) = {}
           /\ w # <<>> => 1 \in 1 .. Len(w) /\ at[1] = Min(Starts(s))
           /\ \A k \in 1 .. Len(w) : /\ at[k] \in Starts(s)
                                     /\ w[k][1] = s[at[k]]
                                     /\ Len(w[k]) = 1 <=> at[k] \in Alone(s)
           /\ \A i \in Starts(s) : \E k \in 1 .. Len(w) : at[k] = i
<1>0. Len(s) \in Nat /\ Len(w) \in Nat /\ DOMAIN s = 1 .. Len(s) /\ Starts(s) \subseteq 1 .. Len(s)
  BY DEF SymbolSeqs, Starts
<1>1. /\ at \in [1 .. Len(w) -> 1 .. Len(s)]
      /\ \A k, l \in 1 .. Len(w) : k < l => at[k] < at[l]
      /\ \A k \in 1 .. Len(w) :
            /\ at[k] \in Starts(s)
            /\ w[k][1] = s[at[k]]
            /\ Len(w[k]) = 1 <=> (at[k] = Len(s) \/ s[at[k] + 1] \notin WordSymbol)
      /\ \A i \in Starts(s) : \E k \in 1 .. Len(w) : at[k] = i
  BY <1>0 DEF Begins
<1>2. w = <<>> <=> Starts(s) = {}
  <2>1. w = <<>> <=> Len(w) = 0
    BY DEF SymbolSeqs
  <2>2. Len(w) = 0 <=> 1 .. Len(w) = {}
    <3>1. \A m \in Nat : m = 0 <=> 1 .. m = {}
      <4>1. \A m \in Nat : m # 0 => 1 \in 1 .. m
        OBVIOUS
      <4> QED
        BY <4>1
    <3> QED
      BY <1>0, <3>1
  <2> QED
    BY <1>1, <2>1, <2>2
<1>3. ASSUME w # <<>> PROVE 1 \in 1 .. Len(w) /\ at[1] = Min(Starts(s))
  <2>1. 1 \in 1 .. Len(w)
    BY <1>0, <1>3 DEF SymbolSeqs
  <2>2. Min(Starts(s)) \in Starts(s) /\ \A i \in Starts(s) : Min(Starts(s)) <= i
    <3>1. Starts(s) \in SUBSET Nat
      BY <1>0
    <3> QED
      BY <1>2, <1>3, <3>1, LeastIsMin
  <2>3. PICK k \in 1 .. Len(w) : at[k] = Min(Starts(s))
    BY <1>1, <2>2
  <2>4. at[1] \in Starts(s) /\ at[1] \in Nat /\ at[k] \in Nat
    <3>1. at[1] \in Starts(s)
      BY <1>1, <2>1
    <3>2. at \in [1 .. Len(w) -> 1 .. Len(s)]
      BY <1>1
    <3>3. at[1] \in 1 .. Len(s) /\ at[k] \in 1 .. Len(s)
      BY <2>1, <2>3, <3>2
    <3> QED
      BY <3>1, <3>3
  <2>5. at[k] <= at[1]
    BY <2>2, <2>3, <2>4
  <2>6. k = 1 \/ 1 < k
    OBVIOUS
  <2> QED
    BY <1>1, <2>1, <2>3, <2>4, <2>5, <2>6
<1>4. ASSUME NEW k \in 1 .. Len(w)
      PROVE  (at[k] = Len(s) \/ s[at[k] + 1] \notin WordSymbol) <=> at[k] \in Alone(s)
  <2>1. at[k] \in Starts(s) /\ at[k] \in 1 .. Len(s)
    BY <1>1
  <2>2. at[k] = Len(s) <=> ~(at[k] < Len(s))
    BY <1>0, <2>1
  <2> QED
    BY <2>1, <2>2 DEF Alone
<1> QED
  BY <1>1, <1>2, <1>3, <1>4

Forbidding(words) == {k \in 1 .. Len(words) : IsOneOf(words[k], ForbiddenAnywhere)}
Reaching(words) == {k \in 1 .. Len(words) : \/ IsOneOf(words[k], DangerousExact)
                                            \/ words[k][1] \in DangerousPrefixes}

\* The checks, with the searches in the list of words told as sets of its places.
LEMMA ChecksAre ==
    ASSUME NEW s \in Seq(Symbol)
    PROVE  LET stmts == SplitStatements(s)
               words == Words(stmts[1])
               F == Forbidding(words)
               R == Reaching(words)
           IN  /\ ValidateStripped(s) =
                      IF Len(stmts) = 0 THEN Blocked("empty", "")
                      ELSE IF Len(stmts) > 1 THEN Blocked("multi_statement", "")
                      ELSE IF words = <<>> THEN Blocked("not_a_query", "")
                      ELSE IF ~IsOneOf(words[1], ReadOpeners)
                          THEN Blocked("first_word", KnownFirstWord(words[1]))
                      ELSE IF F # {} THEN Blocked("keyword", words[Min(F)][1])
                      ELSE IF <<"into">> \in ToSet(words) THEN Blocked("select_into", "")
                      ELSE IF R # {}
                          THEN Blocked(IF IsOneOf(words[Min(R)], DangerousExact)
                                       THEN "dangerous_fn" ELSE "dangerous_prefix",
                                       words[Min(R)][1])
                      ELSE Ok
               /\ F # {} => Min(F) \in F
               /\ R # {} => Min(R) \in R
<1> DEFINE words == Words(SplitStatements(s)[1])
           F == Forbidding(words)
           R == Reaching(words)
           Forbids(w) == IsOneOf(w, ForbiddenAnywhere)
           Reaches(w) == IsOneOf(w, DangerousExact) \/ w[1] \in DangerousPrefixes
<1>1. F \in SUBSET Nat /\ R \in SUBSET Nat
  BY DEF Forbidding, Reaching
<1>2. (F # {} => Min(F) \in F /\ Min(F) # 0) /\ (R # {} => Min(R) \in R /\ Min(R) # 0)
  <2>1. F # {} => Min(F) \in F
    <3> HIDE DEF F
    <3> QED
      BY <1>1, LeastIsMin
  <2>2. R # {} => Min(R) \in R
    <3> HIDE DEF R
    <3> QED
      BY <1>1, LeastIsMin
  <2>3. 0 \notin F /\ 0 \notin R
    BY DEF Forbidding, Reaching
  <2> QED
    BY <2>1, <2>2, <2>3
<1>3. SelectInSeq(words, Forbids) = IF F # {} THEN Min(F) ELSE 0
  BY DEF SelectInSeq, Forbidding
<1>4. SelectInSeq(words, Reaches) = IF R # {} THEN Min(R) ELSE 0
  BY DEF SelectInSeq, Reaching
<1>5. /\ SelectInSeq(words, Forbids) # 0 <=> F # {}
      /\ SelectInSeq(words, Reaches) # 0 <=> R # {}
      /\ F # {} => SelectInSeq(words, Forbids) = Min(F)
      /\ R # {} => SelectInSeq(words, Reaches) = Min(R)
  BY <1>2, <1>3, <1>4
<1>6. ValidateStripped(s) =
          IF Len(SplitStatements(s)) = 0 THEN Blocked("empty", "")
          ELSE IF Len(SplitStatements(s)) > 1 THEN Blocked("multi_statement", "")
          ELSE IF words = <<>> THEN Blocked("not_a_query", "")
          ELSE IF ~IsOneOf(words[1], ReadOpeners)
              THEN Blocked("first_word", KnownFirstWord(words[1]))
          ELSE IF SelectInSeq(words, Forbids) # 0
              THEN Blocked("keyword", words[SelectInSeq(words, Forbids)][1])
          ELSE IF <<"into">> \in ToSet(words) THEN Blocked("select_into", "")
          ELSE IF SelectInSeq(words, Reaches) # 0
              THEN Blocked(IF IsOneOf(words[SelectInSeq(words, Reaches)], DangerousExact)
                           THEN "dangerous_fn" ELSE "dangerous_prefix",
                           words[SelectInSeq(words, Reaches)][1])
          ELSE Ok
  BY DEF ValidateStripped
<1> HIDE DEF words, F, R
<1>7. ValidateStripped(s) =
          IF Len(SplitStatements(s)) = 0 THEN Blocked("empty", "")
          ELSE IF Len(SplitStatements(s)) > 1 THEN Blocked("multi_statement", "")
          ELSE IF words = <<>> THEN Blocked("not_a_query", "")
          ELSE IF ~IsOneOf(words[1], ReadOpeners)
              THEN Blocked("first_word", KnownFirstWord(words[1]))
          ELSE IF F # {} THEN Blocked("keyword", words[Min(F)][1])
          ELSE IF <<"into">> \in ToSet(words) THEN Blocked("select_into", "")
          ELSE IF R # {}
              THEN Blocked(IF IsOneOf(words[Min(R)], DangerousExact)
                           THEN "dangerous_fn" ELSE "dangerous_prefix", words[Min(R)][1])
          ELSE Ok
  <2> DEFINE f == SelectInSeq(words, Forbids)
             r == SelectInSeq(words, Reaches)
  <2>1. (f # 0 <=> F # {}) /\ (r # 0 <=> R # {}) /\ (F # {} => f = Min(F)) /\ (R # {} => r = Min(R))
    BY <1>5
  <2> HIDE DEF f, r
  <2>2. /\ f # 0 => Blocked("keyword", words[f][1]) = Blocked("keyword", words[Min(F)][1])
        /\ r # 0 => Blocked(IF IsOneOf(words[r], DangerousExact)
                            THEN "dangerous_fn" ELSE "dangerous_prefix", words[r][1])
                    = Blocked(IF IsOneOf(words[Min(R)], DangerousExact)
                              THEN "dangerous_fn" ELSE "dangerous_prefix", words[Min(R)][1])
    BY <2>1
  <2> QED
    BY <1>6, <2>1, <2>2 DEF f, r
<1> QED
  BY <1>2, <1>7 DEF words, F, R

\* A rejection is no acceptance.
LEMMA BlockedIsNotOk ==
    ASSUME NEW rule, rule # "ok", NEW word PROVE Blocked(rule, word) # Ok
  BY DEF Blocked, Ok

\* A code passes if no rule rejects it.
LEMMA PassesWhen ==
    ASSUME NEW s \in Seq(Symbol)
    PROVE  LET stmts == SplitStatements(s)
               words == Words(stmts[1])
           IN  ValidateStripped(s) = Ok <=>
                   /\ Len(stmts) # 0 /\ ~(Len(stmts) > 1)
                   /\ words # <<>>
                   /\ IsOneOf(words[1], ReadOpeners)
                   /\ Forbidding(words) = {}
                   /\ <<"into">> \notin ToSet(words)
                   /\ Reaching(words) = {}
<1> DEFINE stmts == SplitStatements(s)
           words == Words(stmts[1])
           dangerous(k) == Blocked(IF IsOneOf(words[k], DangerousExact)
                                   THEN "dangerous_fn" ELSE "dangerous_prefix", words[k][1])
<1>1. \A x : /\ Blocked("empty", x) # Ok /\ Blocked("multi_statement", x) # Ok
             /\ Blocked("not_a_query", x) # Ok /\ Blocked("first_word", x) # Ok
             /\ Blocked("keyword", x) # Ok /\ Blocked("select_into", x) # Ok
             /\ Blocked("dangerous_fn", x) # Ok /\ Blocked("dangerous_prefix", x) # Ok
  BY BlockedIsNotOk
<1>2. \A k : dangerous(k) # Ok
  BY <1>1
<1>3. ValidateStripped(s) =
          IF Len(stmts) = 0 THEN Blocked("empty", "")
          ELSE IF Len(stmts) > 1 THEN Blocked("multi_statement", "")
          ELSE IF words = <<>> THEN Blocked("not_a_query", "")
          ELSE IF ~IsOneOf(words[1], ReadOpeners)
              THEN Blocked("first_word", KnownFirstWord(words[1]))
          ELSE IF Forbidding(words) # {}
              THEN Blocked("keyword", words[Min(Forbidding(words))][1])
          ELSE IF <<"into">> \in ToSet(words) THEN Blocked("select_into", "")
          ELSE IF Reaching(words) # {} THEN dangerous(Min(Reaching(words)))
          ELSE Ok
  BY ChecksAre
<1> HIDE DEF stmts, words, dangerous
<1>4. \A x : /\ Blocked("empty", x) # Ok /\ Blocked("multi_statement", x) # Ok
             /\ Blocked("not_a_query", x) # Ok /\ Blocked("first_word", x) # Ok
             /\ Blocked("keyword", x) # Ok /\ Blocked("select_into", x) # Ok
  BY <1>1
<1>5. ValidateStripped(s) = Ok <=>
          /\ Len(stmts) # 0 /\ ~(Len(stmts) > 1)
          /\ words # <<>>
          /\ IsOneOf(words[1], ReadOpeners)
          /\ Forbidding(words) = {}
          /\ <<"into">> \notin ToSet(words)
          /\ Reaching(words) = {}
  BY <1>2, <1>3, <1>4
<1> QED
  BY <1>5 DEF stmts, words

\* What Harmless asks of the statements, and what it asks of the words.
OneStatement(s) ==
    \A i, j \in {i \in DOMAIN s : s[i] \notin Space \cup {";"}} : \A k \in i .. j : s[k] # ";"
WordsAllowed(s) ==
    /\ Starts(s) # {}
    /\ Min(Starts(s)) \in Alone(s)
    /\ s[Min(Starts(s))] \in ReadOpeners
    /\ \A i \in Alone(s) : s[i] \notin ForbiddenAnywhere \cup DangerousExact \cup {"into"}
    /\ \A i \in Starts(s) : s[i] \notin DangerousPrefixes

\* The rules about words, said of the words and said of the positions.
LEMMA WordsAllowedAre ==
    ASSUME NEW s \in Seq(Symbol), NEW w \in SymbolSeqs, NEW at, Begins(s, Len(s), w, at)
    PROVE  WordsAllowed(s) <=>
               /\ w # <<>>
               /\ IsOneOf(w[1], ReadOpeners)
               /\ Forbidding(w) = {}
               /\ <<"into">> \notin ToSet(w)
               /\ Reaching(w) = {}
<1>1. /\ w = <<>> <=> Starts(s) = {}
      /\ w # <<>> => 1 \in 1 .. Len(w) /\ at[1] = Min(Starts(s))
      /\ \A k \in 1 .. Len(w) : /\ at[k] \in Starts(s)
                                /\ w[k][1] = s[at[k]]
                                /\ Len(w[k]) = 1 <=> at[k] \in Alone(s)
      /\ \A i \in Starts(s) : \E k \in 1 .. Len(w) : at[k] = i
  BY WordsTell
<1>2. \A i \in Alone(s) : i \in Starts(s)
  BY DEF Alone
<1>3. \A L : \A k \in 1 .. Len(w) :
          IsOneOf(w[k], L) <=> at[k] \in Alone(s) /\ s[at[k]] \in L
  BY <1>1 DEF IsOneOf
<1>4. w # <<>> => (IsOneOf(w[1], ReadOpeners) <=> /\ Min(Starts(s)) \in Alone(s)
                                                  /\ s[Min(Starts(s))] \in ReadOpeners)
  BY <1>1, <1>3
<1>5. Forbidding(w) = {} <=> \A i \in Alone(s) : s[i] \notin ForbiddenAnywhere
  <2>1. Forbidding(w) = {} <=> \A k \in 1 .. Len(w) : ~IsOneOf(w[k], ForbiddenAnywhere)
    BY DEF Forbidding
  <2>2. \A k \in 1 .. Len(w) : IsOneOf(w[k], ForbiddenAnywhere)
                                <=> at[k] \in Alone(s) /\ s[at[k]] \in ForbiddenAnywhere
    BY <1>3
  <2>3. \A i \in Alone(s) : \E k \in 1 .. Len(w) : at[k] = i
    BY <1>1, <1>2
  <2> QED
    BY <2>1, <2>2, <2>3
<1>6. Reaching(w) = {} <=> /\ \A i \in Alone(s) : s[i] \notin DangerousExact
                           /\ \A i \in Starts(s) : s[i] \notin DangerousPrefixes
  <2>1. Reaching(w) = {} <=> \A k \in 1 .. Len(w) : /\ ~IsOneOf(w[k], DangerousExact)
                                                    /\ w[k][1] \notin DangerousPrefixes
    BY DEF Reaching
  <2>2. \A k \in 1 .. Len(w) : IsOneOf(w[k], DangerousExact)
                                <=> at[k] \in Alone(s) /\ s[at[k]] \in DangerousExact
    BY <1>3
  <2>3. \A i \in Alone(s) : \E k \in 1 .. Len(w) : at[k] = i
    BY <1>1, <1>2
  <2>4. /\ \A k \in 1 .. Len(w) : at[k] \in Starts(s) /\ w[k][1] = s[at[k]]
        /\ \A i \in Starts(s) : \E k \in 1 .. Len(w) : at[k] = i
    BY <1>1
  <2>5. (\A k \in 1 .. Len(w) : ~IsOneOf(w[k], DangerousExact))
            <=> \A i \in Alone(s) : s[i] \notin DangerousExact
    BY <2>2, <2>3
  <2>6. (\A k \in 1 .. Len(w) : w[k][1] \notin DangerousPrefixes)
            <=> \A i \in Starts(s) : s[i] \notin DangerousPrefixes
    BY <2>4
  <2> QED
    BY <2>1, <2>5, <2>6
<1>7. <<"into">> \notin ToSet(w) <=> \A i \in Alone(s) : s[i] # "into"
  <2>0. DOMAIN w = 1 .. Len(w) /\ \A k \in 1 .. Len(w) : w[k] \in Seq(Symbol)
    BY DEF SymbolSeqs
  <2>1. \A v \in Seq(Symbol) : v = <<"into">> <=> Len(v) = 1 /\ v[1] = "into"
    OBVIOUS
  <2>2. <<"into">> \notin ToSet(w) <=> \A k \in 1 .. Len(w) : w[k] # <<"into">>
    BY <2>0 DEF ToSet
  <2>3. \A k \in 1 .. Len(w) : w[k] = <<"into">> <=> at[k] \in Alone(s) /\ s[at[k]] = "into"
    BY <1>1, <2>0, <2>1
  <2> QED
    BY <1>1, <1>2, <2>2, <2>3
<1> QED
  BY <1>1, <1>4, <1>5, <1>6, <1>7 DEF WordsAllowed

\* With one statement found, no semicolon stands between two symbols that count.
LEMMA OneStatementWhen ==
    ASSUME NEW s \in Seq(Symbol), NEW t, Len(t) \in Nat, IsOne(s, Len(s), t) PROVE OneStatement(s)
<1>1. PICK d : IsStatement(s, Len(s), t, d)
  BY DEF IsOne
<1>2. /\ d \in 0 .. Len(s)
      /\ \A k \in 1 .. Len(t) : t[k] = s[d + k] /\ t[k] # ";"
      /\ \A i \in 1 .. Len(s) : i <= d \/ i > d + Len(t) => Void(s[i])
  BY <1>1 DEF IsStatement
<1>3. ASSUME NEW i \in DOMAIN s, NEW j \in DOMAIN s, ~Void(s[i]), ~Void(s[j]), NEW k \in i .. j
      PROVE  s[k] # ";"
  <2>1. i \in 1 .. Len(s) /\ j \in 1 .. Len(s)
    OBVIOUS
  <2>2. ~(i <= d) /\ ~(j > d + Len(t))
    BY <1>2, <1>3, <2>1
  <2>b. d \in Nat /\ i \in Nat /\ j \in Nat
    <3>1. d \in 0 .. Len(s)
      BY <1>2
    <3> QED
      BY <2>1, <3>1
  <2>c. \A x, y \in Nat : \A z \in x .. y : z \in Nat /\ x <= z /\ z <= y
    OBVIOUS
  <2>a. /\ Len(s) \in Nat /\ i \in Nat /\ j \in Nat /\ k \in Nat /\ d \in Nat
        /\ i <= k /\ k <= j
    BY <2>b, <2>c
  <2>3. k - d \in 1 .. Len(t) /\ d + (k - d) = k
    BY <2>2, <2>a
  <2> QED
    BY <1>2, <2>3
<1> QED
  BY <1>3 DEF OneStatement, Void

\* The checks let a code through exactly if Harmless does.
LEMMA ChecksAreExact ==
    ASSUME NEW s \in Seq(Symbol)
    PROVE  ValidateStripped(s) = Ok <=> Harmless(s)
<1> DEFINE stmts == SplitStatements(s)
           words == Words(stmts[1])
           passes == /\ words # <<>>
                     /\ IsOneOf(words[1], ReadOpeners)
                     /\ Forbidding(words) = {}
                     /\ <<"into">> \notin ToSet(words)
                     /\ Reaching(words) = {}
<1>0. DOMAIN s = 1 .. Len(s)
  OBVIOUS
<1>1. ValidateStripped(s) = Ok <=> Len(stmts) # 0 /\ ~(Len(stmts) > 1) /\ passes
  BY PassesWhen
<1>2. Harmless(s) <=> OneStatement(s) /\ WordsAllowed(s)
  BY DEF Harmless, OneStatement, WordsAllowed
<1>3. stmts \in SymbolSeqs /\ Found(s, Len(s), stmts)
  BY StatementsAre
<1> HIDE DEF stmts, passes
<1>4. CASE Len(stmts) = 0 /\ Empty(s, Len(s))
  <2>1. Starts(s) = {}
    BY <1>0, <1>4, NoWordIsVoid DEF Empty, Starts
  <2> QED
    BY <1>1, <1>2, <1>4, <2>1 DEF WordsAllowed
<1>5. CASE Len(stmts) = 1 /\ IsOne(s, Len(s), stmts[1])
  <2> DEFINE t == stmts[1]
  <2>0. t \in Seq(Symbol) /\ Len(t) \in Nat
    <3>1. stmts \in Seq(Seq(Symbol)) /\ 1 \in 1 .. Len(stmts)
      BY <1>3, <1>5 DEF SymbolSeqs
    <3>2. t \in Seq(Symbol)
      BY <3>1, ElementOfSeq
    <3> HIDE DEF t
    <3> QED
      BY <3>2
  <2> HIDE DEF t
  <2>1. OneStatement(s)
    BY <1>5, <2>0, OneStatementWhen DEF t
  <2>2. PICK d : IsStatement(s, Len(s), t, d)
    BY <1>5 DEF t, IsOne
  <2>3. Words(t) \in SymbolSeqs /\ WordsUpTo(t, Len(t), Words(t))
    BY <2>0, WordsAre
  <2>4. PICK at : Begins(t, Len(t), Words(t), at)
    BY <2>3 DEF WordsUpTo
  <2>5. Begins(s, Len(s), Words(t), [k \in 1 .. Len(Words(t)) |-> d + at[k]])
    BY <2>0, <2>2, <2>3, <2>4, StatementWords
  <2>6. WordsAllowed(s) <=> passes
    <3>1. words = Words(t)
      BY DEF t
    <3> HIDE DEF words
    <3>2. Begins(s, Len(s), words, [k \in 1 .. Len(Words(t)) |-> d + at[k]]) /\ words \in SymbolSeqs
      BY <2>3, <2>5, <3>1
    <3> QED
      BY <3>2, WordsAllowedAre DEF passes
  <2>7. Len(stmts) # 0 /\ ~(Len(stmts) > 1)
    BY <1>5
  <2> QED
    BY <1>1, <1>2, <2>1, <2>6, <2>7
<1>6. CASE Len(stmts) > 1 /\ Parted(s, Len(s))
  <2>1. PICK i, j, k \in 1 .. Len(s) :
            i < k /\ k < j /\ s[k] = ";" /\ ~Void(s[i]) /\ ~Void(s[j])
    BY <1>6 DEF Parted
  <2>2. k \in i .. j
    <3>1. i \in Nat /\ j \in Nat /\ k \in Nat
      OBVIOUS
    <3>2. i < k /\ k < j
      BY <2>1
    <3> QED
      BY <3>1, <3>2
  <2>3. ~OneStatement(s)
    BY <1>0, <2>1, <2>2 DEF OneStatement, Void
  <2> QED
    BY <1>1, <1>2, <1>6, <2>3
<1> QED
  BY <1>3, <1>4, <1>5, <1>6 DEF Found

-----------------------------------------------------------------------------
(* The verdict. *)

\* Space is none of the marks of strip.
LEMMA SpaceIsNoMark ==
    \A c \in Space : c # "-" /\ c # "/" /\ c \notin Quotes \cup {"["}
  BY Zenon DEF Space, Quotes

\* Nothing but space is left of a blank text.
LEMMA BlankStaysBlank ==
    ASSUME NEW sql \in Seq(Symbol), Blank(sql), NEW esc \in BOOLEAN
    PROVE  Strip(sql, esc) \in Seq(Space)
<1> DEFINE m == Len(sql)
<1>1. PICK from :
          /\ Strip(sql, esc) = from[1]
          /\ \A i \in 1 .. Len(sql) + 3 :
                /\ from[i] \in Seq(Symbol)
                /\ from[i] = IF i > Len(sql) THEN <<>>
                             ELSE Left(sql, i) \o from[After(sql, i, esc)]
  BY StripIs
<1>2. \A i \in 1 .. Len(sql) : /\ sql[i] \in Space
                               /\ Left(sql, i) = <<sql[i]>> /\ After(sql, i, esc) = i + 1
  <2>1. \A i \in 1 .. Len(sql) : sql[i] \in Space
    BY DEF Blank, ToSet
  <2>2. \A i \in 1 .. Len(sql) : ~At(sql, i, "-") /\ ~At(sql, i, "/")
                                 /\ sql[i] \notin Quotes \cup {"["}
    BY <2>1, SpaceIsNoMark DEF At
  <2> QED
    BY <2>1, <2>2 DEF Left, After
<1> DEFINE K == {i \in 1 .. m + 1 : from[i] \in Seq(Space)}
<1>0. m \in Nat /\ m + 1 \in Nat /\ 1 \in Nat /\ 1 <= m + 1 /\ m + 1 > m
      /\ m + 1 \in 1 .. m + 3 /\ m + 1 \in 1 .. m + 1 /\ 1 \in 1 .. m + 1
  OBVIOUS
<1>3. m + 1 \in K
  <2>1. from[m + 1] = <<>>
    BY <1>0, <1>1
  <2>2. <<>> \in Seq(Space)
    OBVIOUS
  <2> QED
    BY <1>0, <2>1, <2>2
<1>4. ASSUME NEW n \in 1 .. m + 1, n \in K, n > 1 PROVE n - 1 \in K
  <2>1. /\ n - 1 \in 1 .. m /\ n - 1 \in 1 .. m + 3 /\ n - 1 \in 1 .. m + 1
        /\ n - 1 + 1 = n /\ ~(n - 1 > m)
    BY <1>0, <1>4
  <2>2. from[n - 1] = <<sql[n - 1]>> \o from[n] /\ sql[n - 1] \in Space
    BY <1>1, <1>2, <2>1
  <2>3. <<sql[n - 1]>> \in Seq(Space) /\ from[n] \in Seq(Space)
    BY <1>4, <2>2
  <2>4. from[n - 1] \in Seq(Space)
    BY <2>2, <2>3, ConcatProperties
  <2> QED
    BY <2>1, <2>4
<1>5. 1 .. m + 1 \subseteq K
  <2> HIDE DEF K, m
  <2> QED
    BY <1>0, <1>3, <1>4, DownFrom
<1> QED
  BY <1>0, <1>1, <1>5

\* Of space alone, Harmless finds no word that opens a read.
LEMMA BlankIsHarmful ==
    ASSUME NEW s \in Seq(Space) PROVE ~Harmless(s)
<1>1. \A i \in DOMAIN s : Void(s[i])
  <2>1. \A i \in DOMAIN s : s[i] \in Space
    OBVIOUS
  <2> QED
    BY <2>1 DEF Void
<1>2. Starts(s) = {}
  BY <1>1, NoWordIsVoid DEF Starts
<1> QED
  BY <1>2 DEF Harmless

\* What strip leaves is a text.
LEMMA StripIsText ==
    ASSUME NEW sql \in Seq(Symbol), NEW esc \in BOOLEAN
    PROVE  Strip(sql, esc) \in Seq(Symbol)
<1>1. 1 \in 1 .. Len(sql) + 3
  OBVIOUS
<1> QED
  BY <1>1, StripIs

\* Validate lets a text of any length through if and only if it is one harmless
\* statement in the dialect of strip, with escapes and without, whatever words
\* the lists have.
THEOREM VerdictIsExactCorrect == Spec => []VerdictIsExact
<1>1. ASSUME NEW sql \in Seq(Symbol)
      PROVE  Validate(sql) = Ok <=> \A esc \in BOOLEAN : Harmless(CodeOf(sql, esc))
  <2>1. ASSUME NEW esc \in BOOLEAN
        PROVE  ValidateStripped(Strip(sql, esc)) = Ok <=> Harmless(CodeOf(sql, esc))
    BY ChecksAreExact, StripIsText, StripIsCode
  <2>2. CASE Blank(sql)
    <3>1. Validate(sql) # Ok
      BY <2>2, BlockedIsNotOk DEF Validate
    <3>2. ~Harmless(CodeOf(sql, FALSE))
      BY <2>2, BlankStaysBlank, BlankIsHarmful, StripIsCode
    <3> QED
      BY <3>1, <3>2
  <2>3. CASE ~Blank(sql)
    <3>1. Validate(sql) = Ok <=> /\ ValidateStripped(Strip(sql, FALSE)) = Ok
                                 /\ ValidateStripped(Strip(sql, TRUE)) = Ok
      BY <2>3 DEF Validate
    <3> QED
      BY <2>1, <3>1
  <2> QED
    BY <2>2, <2>3
<1>2. InputInv => VerdictIsExact
  <2> SUFFICES ASSUME InputInv, IsQuery
               PROVE  Validate(input.text) = Ok
                          <=> \A esc \in BOOLEAN : Harmless(CodeOf(input.text, esc))
    BY DEF VerdictIsExact
  <2>1. input.text \in Seq(Symbol)
    BY DEF InputInv, IsQuery, QueryInput, VersionInput, SchemaInput, ErrorInput, ShapeInput
  <2> QED
    BY <1>1, <2>1
<1> QED
  BY <1>2, InputCorrect, PTL

Reportable ==
    UNION {ForbiddenAnywhere, DangerousExact, DangerousPrefixes, FirstWords, {"other", ""}}

\* The rule that rejects a code reports nothing but a word of the lists.
LEMMA ReportsListedWords ==
    ASSUME NEW s \in Seq(Symbol)
    PROVE  ValidateStripped(s).word \in Reportable
<1> DEFINE stmts == SplitStatements(s)
           words == Words(stmts[1])
           F == Forbidding(words)
           R == Reaching(words)
           f == words[Min(F)][1]
           r == words[Min(R)][1]
           rule == IF IsOneOf(words[Min(R)], DangerousExact)
                   THEN "dangerous_fn" ELSE "dangerous_prefix"
           said == ValidateStripped(s).word
<1>1. /\ ValidateStripped(s) =
             IF Len(stmts) = 0 THEN Blocked("empty", "")
             ELSE IF Len(stmts) > 1 THEN Blocked("multi_statement", "")
             ELSE IF words = <<>> THEN Blocked("not_a_query", "")
             ELSE IF ~IsOneOf(words[1], ReadOpeners)
                 THEN Blocked("first_word", KnownFirstWord(words[1]))
             ELSE IF F # {} THEN Blocked("keyword", f)
             ELSE IF <<"into">> \in ToSet(words) THEN Blocked("select_into", "")
             ELSE IF R # {} THEN Blocked(rule, r)
             ELSE Ok
      /\ F # {} => Min(F) \in F
      /\ R # {} => Min(R) \in R
  BY ChecksAre
<1>2. F # {} => f \in ForbiddenAnywhere
  BY <1>1 DEF Forbidding, IsOneOf
<1>3. R # {} => r \in DangerousExact \cup DangerousPrefixes
  BY <1>1 DEF Reaching, IsOneOf
<1>4. KnownFirstWord(words[1]) \in FirstWords \cup ForbiddenAnywhere \cup {"other"}
  BY DEF KnownFirstWord
<1>5. Ok.word = "" /\ \A x, y : Blocked(x, y).word = y
  BY DEF Ok, Blocked
<1> HIDE DEF stmts, words, F, R, f, r, rule
<1>6. \/ said = ""
      \/ said = KnownFirstWord(words[1])
      \/ F # {} /\ said = f
      \/ R # {} /\ said = r
  <2>1. \/ \E x : ValidateStripped(s) = Blocked(x, "")
        \/ ValidateStripped(s) = Blocked("first_word", KnownFirstWord(words[1]))
        \/ F # {} /\ ValidateStripped(s) = Blocked("keyword", f)
        \/ R # {} /\ ValidateStripped(s) = Blocked(rule, r)
        \/ ValidateStripped(s) = Ok
    BY <1>1
  <2>2. /\ \A x : ValidateStripped(s) = Blocked(x, "") => said = ""
        /\ ValidateStripped(s) = Ok => said = ""
    BY <1>5
  <2>3. \A x, y : ValidateStripped(s) = Blocked(x, y) => said = y
    BY <1>5
  <2> HIDE DEF said
  <2> QED
    BY <2>1, <2>2, <2>3
<1> HIDE DEF said
<1>7. said \in Reportable
  BY <1>2, <1>3, <1>4, <1>6 DEF Reportable
<1> QED
  BY <1>7 DEF said

\* The word that is reported of a rejected text is one of the lists' own or a
\* fixed one, for every text and all lists: never a name of the user's schema.
THEOREM NoSchemaWordLeavesCorrect == Spec => []NoSchemaWordLeaves
<1>1. ASSUME NEW sql \in Seq(Symbol) PROVE Validate(sql).word \notin OtherWords
  <2>1. \A esc \in BOOLEAN : ValidateStripped(Strip(sql, esc)).word \notin OtherWords
    <3>1. ASSUME NEW esc \in BOOLEAN PROVE ValidateStripped(Strip(sql, esc)).word \notin OtherWords
      <4>1. ValidateStripped(Strip(sql, esc)).word \in Reportable
        BY ReportsListedWords, StripIsText
      <4> QED
        BY <4>1, VocabularyAssumption DEF Reportable
    <3> QED
      BY <3>1
  <2>2. Blocked("empty", "").word \notin OtherWords
    BY VocabularyAssumption DEF Blocked
  <2> QED
    BY <2>1, <2>2 DEF Validate
<1>2. InputInv => NoSchemaWordLeaves
  <2> SUFFICES ASSUME InputInv, IsQuery PROVE Validate(input.text).word \notin OtherWords
    BY DEF NoSchemaWordLeaves
  <2>1. input.text \in Seq(Symbol)
    BY DEF InputInv, IsQuery, QueryInput, VersionInput, SchemaInput, ErrorInput, ShapeInput
  <2> QED
    BY <1>1, <2>1
<1> QED
  BY <1>2, InputCorrect, PTL

-----------------------------------------------------------------------------
(* Versions. *)

Versions == Seq(Seq(Int))

\* d is what a part counts for.
Counts(p, d) ==
    \/ Leading(p) = {} /\ d = 0
    \/ d \in Leading(p)

\* A part counts for one number.
LEMMA CountsOnce ==
    ASSUME NEW p \in Seq(Int), NEW d, NEW e, Counts(p, d), Counts(p, e)
    PROVE  d = e /\ d \in 0 .. MaxInt
<1>0. MaxInt \in Nat
  BY MaxIntAssumption
<1>1. CASE Leading(p) = {}
  BY <1>0, <1>1 DEF Counts
<1>2. CASE Leading(p) # {}
  <2>1. d \in Leading(p) /\ e \in Leading(p)
    BY <1>2 DEF Counts
  <2>a. \A x \in Leading(p) : \E j \in DOMAIN p :
            x = p[j] /\ x \in 0 .. MaxInt /\ \A k \in 1 .. j - 1 : p[k] < 0
    BY DEF Leading
  <2>b. DOMAIN p = 1 .. Len(p) /\ Len(p) \in Nat
    OBVIOUS
  <2>2. PICK j \in 1 .. Len(p) : /\ d = p[j] /\ d \in 0 .. MaxInt
                                 /\ \A k \in 1 .. j - 1 : p[k] < 0
    BY <2>1, <2>a, <2>b
  <2>3. PICK l \in 1 .. Len(p) : /\ e = p[l] /\ e \in 0 .. MaxInt
                                 /\ \A k \in 1 .. l - 1 : p[k] < 0
    BY <2>1, <2>a, <2>b
  <2>4. ~(p[j] < 0) /\ ~(p[l] < 0)
    BY <1>0, <2>2, <2>3
  <2>5. j \notin 1 .. l - 1 /\ l \notin 1 .. j - 1
    BY <2>2, <2>3, <2>4
  <2>6. j = l
    BY <2>5
  <2> QED
    BY <2>2, <2>3, <2>6
<1> QED
  BY <1>1, <1>2

\* What part computes of a part.
NumberOf(p) ==
    LET first == SelectInSeq(p, LAMBDA piece : piece >= 0)
    IN  IF first = 0 \/ p[first] > MaxInt THEN 0 ELSE p[first]

\* The number part finds is what the part counts for.
LEMMA NumberCounts ==
    ASSUME NEW p \in Seq(Int)
    PROVE  Counts(p, NumberOf(p))
<1> DEFINE I == {j \in 1 .. Len(p) : p[j] >= 0}
           first == IF I # {} THEN Min(I) ELSE 0
<1>0. MaxInt \in Nat /\ DOMAIN p = 1 .. Len(p) /\ Len(p) \in Nat
  BY MaxIntAssumption
<1>1. NumberOf(p) = IF first = 0 \/ p[first] > MaxInt THEN 0 ELSE p[first]
  BY DEF NumberOf, SelectInSeq
<1>2. CASE I = {}
  <2>1. \A j \in 1 .. Len(p) : p[j] \notin 0 .. MaxInt
    BY <1>2
  <2>2. Leading(p) = {}
    BY <1>0, <2>1 DEF Leading
  <2> QED
    BY <1>1, <1>2, <2>2 DEF Counts
<1>3. CASE I # {}
  <2>1. PICK m \in I : m = Min(I) /\ \A j \in I : m <= j
    <3>1. I \in SUBSET Nat
      OBVIOUS
    <3> HIDE DEF I
    <3> QED
      BY <1>3, <3>1, LeastIsMin
  <2>2. m \in 1 .. Len(p) /\ p[m] >= 0 /\ p[m] \in Int /\ first = m /\ m # 0
    BY <1>3, <2>1
  <2>3. \A k \in 1 .. m - 1 : p[k] < 0
    <3>1. ASSUME NEW k \in 1 .. m - 1 PROVE p[k] < 0
      <4>1. k \in 1 .. Len(p) /\ ~(m <= k) /\ p[k] \in Int
        BY <1>0, <2>2
      <4>2. k \notin I
        BY <2>1, <4>1
      <4> QED
        BY <4>1, <4>2
    <3> QED
      BY <3>1
  <2>4. ASSUME NEW j \in DOMAIN p, \A k \in 1 .. j - 1 : p[k] < 0, p[j] \in 0 .. MaxInt PROVE j = m
    <3>1. j \in I /\ m <= j /\ j \in Nat /\ m \in Nat
      BY <1>0, <2>1, <2>2, <2>4
    <3>2. m \notin 1 .. j - 1
      BY <2>2, <2>4
    <3> QED
      BY <2>2, <3>1, <3>2
  <2>5. CASE p[m] > MaxInt
    <3>1. p[m] \notin 0 .. MaxInt
      BY <1>0, <2>2, <2>5
    <3>2. Leading(p) = {}
      BY <2>4, <3>1 DEF Leading
    <3> QED
      BY <1>1, <2>2, <2>5, <3>2 DEF Counts
  <2>6. CASE ~(p[m] > MaxInt)
    <3>1. p[m] \in 0 .. MaxInt
      BY <1>0, <2>2, <2>6
    <3>2. p[m] \in Leading(p)
      BY <1>0, <2>2, <2>3, <3>1 DEF Leading
    <3> QED
      BY <1>1, <2>2, <2>6, <3>2 DEF Counts
  <2> QED
    BY <2>5, <2>6
<1> QED
  BY <1>2, <1>3

\* A leading v is no number.
LEMMA TailCounts ==
    ASSUME NEW p \in Seq(Int), p # <<>>, p[1] = V, NEW d, Counts(Tail(p), d)
    PROVE  Counts(p, d)
<1> DEFINE t == Tail(p)
<1>0. /\ t \in Seq(Int) /\ Len(t) = Len(p) - 1 /\ Len(p) \in Nat /\ Len(p) > 0
      /\ \A k \in 1 .. Len(t) : t[k] = p[k + 1]
  OBVIOUS
<1> HIDE DEF t
<1>1. p[1] < 0 /\ p[1] \notin 0 .. MaxInt
  BY MaxIntAssumption DEF V
<1>2. \A j \in 1 .. Len(t) : j + 1 \in 1 .. Len(p) /\ j + 1 - 1 = j
  BY <1>0
<1>3. \A j \in 1 .. Len(p) : j # 1 => j - 1 \in 1 .. Len(t) /\ j - 1 + 1 = j
  BY <1>0
<1>4. ASSUME NEW j \in 1 .. Len(t)
      PROVE  (\A k \in 1 .. j - 1 : t[k] < 0) <=> (\A k \in 1 .. j : p[k] < 0)
  <2>1. ASSUME \A k \in 1 .. j - 1 : t[k] < 0, NEW k \in 1 .. j PROVE p[k] < 0
    <3>1. CASE k = 1
      BY <1>1, <3>1
    <3>2. CASE k # 1
      <4>1. k - 1 \in 1 .. j - 1 /\ k - 1 \in 1 .. Len(t) /\ k - 1 + 1 = k
        BY <1>0, <3>2
      <4> QED
        BY <1>0, <2>1, <4>1
    <3> QED
      BY <3>1, <3>2
  <2>2. ASSUME \A k \in 1 .. j : p[k] < 0, NEW k \in 1 .. j - 1 PROVE t[k] < 0
    <3>1. k + 1 \in 1 .. j /\ k \in 1 .. Len(t)
      BY <1>0
    <3> QED
      BY <1>0, <2>2, <3>1
  <2> QED
    BY <2>1, <2>2
<1>5. DOMAIN t = 1 .. Len(t) /\ DOMAIN p = 1 .. Len(p)
  BY <1>0
<1>6. ASSUME NEW x \in Leading(t) PROVE x \in Leading(p)
  <2>1. PICK j \in 1 .. Len(t) : x = t[j] /\ x \in 0 .. MaxInt /\ \A k \in 1 .. j - 1 : t[k] < 0
    BY <1>5 DEF Leading
  <2>2. j + 1 \in 1 .. Len(p) /\ p[j + 1] = x /\ \A k \in 1 .. j + 1 - 1 : p[k] < 0
    BY <1>0, <1>2, <1>4, <2>1
  <2>3. j + 1 \in {n \in DOMAIN p : \A k \in 1 .. n - 1 : p[k] < 0}
    BY <1>5, <2>2
  <2> QED
    BY <2>1, <2>2, <2>3 DEF Leading
<1>7. ASSUME NEW x \in Leading(p) PROVE x \in Leading(t)
  <2>1. PICK j \in 1 .. Len(p) : x = p[j] /\ x \in 0 .. MaxInt /\ \A k \in 1 .. j - 1 : p[k] < 0
    BY <1>5 DEF Leading
  <2>2. j # 1
    BY <1>1, <2>1
  <2>3. j - 1 \in 1 .. Len(t) /\ t[j - 1] = x /\ \A k \in 1 .. j - 1 - 1 : t[k] < 0
    BY <1>0, <1>3, <1>4, <2>1, <2>2
  <2> QED
    BY <1>5, <2>1, <2>3 DEF Leading
<1>8. Leading(t) = Leading(p)
  BY <1>6, <1>7
<1> QED
  BY <1>8 DEF Counts, t

\* part and the reference agree, also behind a v that was cut off.
LEMMA PartIsDigit ==
    ASSUME NEW v \in Versions, v # <<>>, NEW i \in Nat \ {0}
    PROVE  /\ Part(TrimV(v), i) = Digit(v, i) /\ Digit(v, i) \in 0 .. MaxInt
           /\ Len(TrimV(v)) = Len(v)
           /\ i > Len(v) => Digit(v, i) = 0
<1> DEFINE s == TrimV(v)
<1>0. /\ MaxInt \in Nat /\ Len(v) \in Nat /\ 1 \in 1 .. Len(v)
      /\ \A k \in 1 .. Len(v) : v[k] \in Seq(Int)
  BY MaxIntAssumption DEF Versions
<1>1. /\ s \in Versions /\ Len(s) = Len(v)
      /\ \A k \in 1 .. Len(v) : \/ s[k] = v[k]
                                \/ v[k] # <<>> /\ v[k][1] = V /\ s[k] = Tail(v[k])
  <2>1. CASE v[1] # <<>> /\ v[1][1] = V
    <3>1. s = [v EXCEPT ![1] = Tail(@)]
      BY <2>1 DEF TrimV
    <3>2. Tail(v[1]) \in Seq(Int)
      BY <1>0, <2>1
    <3>3. s \in Versions /\ Len(s) = Len(v)
      BY <1>0, <3>1, <3>2, ExceptSeq DEF Versions
    <3>4. s[1] = Tail(v[1]) /\ \A k \in 1 .. Len(v) : k # 1 => s[k] = v[k]
      BY <1>0, <3>1 DEF Versions
    <3> QED
      BY <2>1, <3>3, <3>4
  <2>2. CASE ~(v[1] # <<>> /\ v[1][1] = V)
    BY <2>2 DEF TrimV
  <2> QED
    BY <2>1, <2>2
<1> HIDE DEF s
<1>2. CASE i > Len(v)
  BY <1>0, <1>1, <1>2 DEF Part, Digit, s
<1>3. CASE ~(i > Len(v))
  <2>1. i \in 1 .. Len(v)
    BY <1>0, <1>3
  <2>2. s[i] \in Seq(Int) /\ v[i] \in Seq(Int)
    BY <1>0, <1>1, <2>1 DEF Versions
  <2>3. Part(s, i) = NumberOf(s[i])
    BY <1>1, <1>3 DEF Part, NumberOf
  <2>4. Counts(s[i], NumberOf(s[i]))
    BY <2>2, NumberCounts
  <2>5. Counts(v[i], NumberOf(s[i]))
    BY <1>1, <2>1, <2>2, <2>4, TailCounts
  <2>6. Counts(v[i], Digit(v, i))
    BY <1>3 DEF Digit, Counts
  <2>7. NumberOf(s[i]) = Digit(v, i) /\ Digit(v, i) \in 0 .. MaxInt
    BY <2>2, <2>5, <2>6, CountsOnce
  <2> QED
    BY <1>1, <1>3, <2>3, <2>7 DEF s
<1> QED
  BY <1>2, <1>3

\* r[n] is what the first n parts of v are as a number.
Ranks(r, v) ==
    /\ r \in [0 .. MaxParts -> Nat]
    /\ r[0] = 0
    /\ \A n \in 1 .. MaxParts : r[n] = r[n - 1] * (MaxInt + 1) + Digit(v, n)

\* What the reference reads of a part is the number that part reads.
LEMMA DigitIs ==
    ASSUME NEW v \in Versions, v # <<>>, NEW i \in 1 .. MaxParts
    PROVE  Digit(v, i) \in 0 .. MaxInt
<1>1. i \in Nat \ {0}
  BY PartsAssumption
<1> QED
  BY <1>1, PartIsDigit

\* The number of a version is what its digits make, one after the other.
LEMMA RankIs ==
    ASSUME NEW v \in Versions, v # <<>>
    PROVE  \E r : Ranks(r, v) /\ Rank(v) = r[MaxParts]
<1> DEFINE m == MaxParts
           base == MaxInt + 1
           body(g, n) == IF n = 0 THEN 0 ELSE g[n - 1] * base + Digit(v, n)
           F == [p \in (1 .. m) \X Nat |-> p[2] * base + Digit(v, p[1])]
<1>0. m \in Nat /\ 0 \in Nat /\ 0 <= m /\ base \in Nat
  BY PartsAssumption, MaxIntAssumption
<1>1. \A x \in Nat : \A n \in 1 .. m : x * base + Digit(v, n) \in Nat
  <2>1. \A n \in 1 .. m : Digit(v, n) \in Nat
    BY DigitIs, MaxIntAssumption
  <2> HIDE DEF base, m
  <2> QED
    BY <1>0, <2>1
<1>2. F \in [(1 .. m) \X Nat -> Nat]
  <2> HIDE DEF base, m
  <2> QED
    BY <1>1
<1>3. PICK g : Iterates(g, m, Nat, 0, F)
  <2> HIDE DEF F, m
  <2> QED
    BY <1>0, <1>2, Iteration
<1>4. /\ g \in [0 .. m -> Nat] /\ g[0] = 0
      /\ \A n \in 1 .. m : g[n] = F[<<n, g[n - 1]>>]
  BY <1>3 DEF Iterates
<1>5. ASSUME NEW n \in 1 .. m PROVE g[n] = g[n - 1] * base + Digit(v, n)
  <2>1. n - 1 \in 0 .. m
    BY <1>0
  <2>2. <<n, g[n - 1]>> \in (1 .. m) \X Nat
    <3>1. g[n - 1] \in Nat
      BY <1>4, <2>1
    <3> QED
      BY <3>1
  <2>3. F[<<n, g[n - 1]>>] = g[n - 1] * base + Digit(v, n)
    <3> HIDE DEF base, m
    <3> QED
      BY <2>2
  <2> HIDE DEF F, base, m
  <2> QED
    BY <1>4, <2>3
<1> DEFINE Q(h) == h = [n \in 0 .. m |-> body(h, n)]
           upTo == CHOOSE h : Q(h)
<1>6. Q(g)
  <2>1. \A n \in 0 .. m : g[n] = body(g, n)
    <3>1. \A n \in 0 .. m : n = 0 \/ n \in 1 .. m
      BY <1>0
    <3> HIDE DEF base, m
    <3> QED
      BY <1>4, <1>5, <3>1
  <2>2. g = [n \in 0 .. m |-> g[n]]
    BY <1>4
  <2> HIDE DEF body, m
  <2> QED
    BY <2>1, <2>2
<1>7. Q(upTo)
  <2> HIDE DEF Q
  <2> QED
    BY <1>6
<1>8. Rank(v) = upTo[m]
  BY DEF Rank
<1> HIDE DEF upTo
<1>9. \A n \in 0 .. m : upTo[n] = body(upTo, n)
  <2> HIDE DEF body, m
  <2> QED
    BY <1>7
<1> DEFINE E == {n \in 0 .. m : upTo[n] = g[n]}
<1>10. 0 \in E
  BY <1>0, <1>4, <1>9
<1>11. ASSUME NEW n \in 0 .. m, n \in E, n < m PROVE n + 1 \in E
  <2>1. n + 1 \in 0 .. m /\ n + 1 \in 1 .. m /\ n + 1 # 0 /\ n + 1 - 1 = n
    BY <1>0, <1>11
  <2>2. upTo[n + 1] = upTo[n] * base + Digit(v, n + 1)
    <3> HIDE DEF base, m
    <3> QED
      BY <1>9, <2>1
  <2>3. g[n + 1] = g[n] * base + Digit(v, n + 1)
    <3> HIDE DEF base, m
    <3> QED
      BY <1>5, <2>1
  <2>4. upTo[n] = g[n]
    BY <1>11
  <2> HIDE DEF base
  <2> QED
    BY <2>1, <2>2, <2>3, <2>4
<1>12. 0 .. m \subseteq E
  <2> HIDE DEF E, m
  <2> QED
    BY <1>0, <1>10, <1>11, UpTo
<1>13. m \in 0 .. m
  BY <1>0
<1>14. upTo[m] = g[m]
  BY <1>12, <1>13
<1>15. Ranks(g, v)
  BY <1>4, <1>5 DEF Ranks
<1> QED
  BY <1>8, <1>14, <1>15

\* It is a natural number at every digit.
LEMMA RankIsNat ==
    ASSUME NEW v \in Versions, v # <<>> PROVE Rank(v) \in Nat
<1>1. PICK r : Ranks(r, v) /\ Rank(v) = r[MaxParts]
  BY RankIs
<1>2. MaxParts \in 0 .. MaxParts
  BY PartsAssumption
<1> QED
  BY <1>1, <1>2 DEF Ranks

\* A lower head is not made up for by later parts.
LEMMA HeadDecides ==
    ASSUME NEW x \in Nat, NEW y \in Nat, x < y, NEW d \in 0 .. MaxInt, NEW e \in 0 .. MaxInt
    PROVE  x * (MaxInt + 1) + d < y * (MaxInt + 1) + e
<1>0. MaxInt \in Nat
  BY MaxIntAssumption
<1> DEFINE b == MaxInt + 1
<1>1. PICK k \in Nat : y = x + 1 + k
  <2>1. y - x - 1 \in Nat /\ y = x + 1 + (y - x - 1)
    OBVIOUS
  <2> QED
    BY <2>1
<1>2. b \in Nat /\ d < b /\ d \in Nat /\ e \in Nat
  BY <1>0
<1> HIDE DEF b
<1>3. y * b = x * b + b + k * b
  BY <1>1, <1>2
<1>4. k * b \in Nat /\ x * b \in Nat
  BY <1>2
<1>5. x * b + d < y * b + e
  BY <1>2, <1>3, <1>4
<1> QED
  BY <1>5 DEF b

Agree(a, b, j) == \A i \in 1 .. j : Digit(a, i) = Digit(b, i)

\* The same digits make the same number.
LEMMA SameDigits ==
    ASSUME NEW a, NEW b, NEW r, NEW s, NEW j \in 0 .. MaxParts, Ranks(r, a), Ranks(s, b),
           Agree(a, b, j)
    PROVE  r[j] = s[j]
<1> DEFINE E == {n \in 0 .. j : r[n] = s[n]}
<1>0. j \in Nat /\ MaxParts \in Nat /\ 0 \in Nat /\ 0 <= j
  BY PartsAssumption
<1>1. 0 \in E
  BY <1>0 DEF Ranks
<1>2. ASSUME NEW n \in 0 .. j, n \in E, n < j PROVE n + 1 \in E
  <2>1. n + 1 \in 1 .. MaxParts /\ n + 1 - 1 = n /\ n + 1 \in 0 .. j /\ n + 1 \in 1 .. j
    BY <1>0, <1>2
  <2>2. Digit(a, n + 1) = Digit(b, n + 1) /\ r[n] = s[n]
    BY <1>2, <2>1 DEF Agree
  <2>3. /\ r[n + 1] = r[n] * (MaxInt + 1) + Digit(a, n + 1)
        /\ s[n + 1] = s[n] * (MaxInt + 1) + Digit(b, n + 1)
    BY <2>1 DEF Ranks
  <2> DEFINE x == r[n] * (MaxInt + 1) + Digit(a, n + 1)
  <2>4. r[n + 1] = x /\ s[n + 1] = x
    BY <2>2, <2>3
  <2> HIDE DEF x
  <2> QED
    BY <2>1, <2>4
<1>3. 0 .. j \subseteq E
  <2> HIDE DEF E
  <2> QED
    BY <1>0, <1>1, <1>2, UpTo
<1> QED
  BY <1>0, <1>3

\* The first part in which two versions differ decides.
LEMMA FirstDecides ==
    ASSUME NEW a \in Versions, a # <<>>, NEW b \in Versions, b # <<>>,
           NEW k \in 1 .. MaxParts, Agree(a, b, k - 1),
           Digit(a, k) < Digit(b, k)
    PROVE  Rank(a) < Rank(b)
<1>1. PICK r : Ranks(r, a) /\ Rank(a) = r[MaxParts]
  BY RankIs
<1>2. PICK s : Ranks(s, b) /\ Rank(b) = s[MaxParts]
  BY RankIs
<1> DEFINE m == MaxParts
           base == MaxInt + 1
<1>0. /\ m \in Nat /\ base \in Nat /\ k \in Nat /\ k - 1 \in 0 .. m
      /\ k - 1 \in Nat /\ 0 \in Nat /\ m \in k .. m
  BY PartsAssumption, MaxIntAssumption
<1>3. /\ r \in [0 .. m -> Nat] /\ r[0] = 0
      /\ \A n \in 1 .. m : r[n] = r[n - 1] * base + Digit(a, n)
      /\ s \in [0 .. m -> Nat] /\ s[0] = 0
      /\ \A n \in 1 .. m : s[n] = s[n - 1] * base + Digit(b, n)
  BY <1>1, <1>2 DEF Ranks
<1>4. r[k - 1] = s[k - 1]
  BY <1>0, <1>1, <1>2, SameDigits
<1>d. \A n \in 1 .. m : Digit(a, n) \in 0 .. MaxInt /\ Digit(b, n) \in 0 .. MaxInt
  BY DigitIs
<1> DEFINE L == {n \in k .. m : r[n] < s[n]}
<1>5. k \in L
  <2>1. r[k] = r[k - 1] * base + Digit(a, k) /\ s[k] = r[k - 1] * base + Digit(b, k)
    <3> HIDE DEF base
    <3> QED
      BY <1>3, <1>4
  <2>2. r[k - 1] * base \in Nat
    <3>1. r[k - 1] \in Nat
      BY <1>0, <1>3
    <3> HIDE DEF base
    <3> QED
      BY <1>0, <3>1
  <2>3. Digit(a, k) \in Nat /\ Digit(b, k) \in Nat
    BY <1>d, MaxIntAssumption
  <2>4. r[k] < s[k]
    <3> DEFINE x == r[k - 1] * base
    <3> HIDE DEF x
    <3> QED
      BY <2>1, <2>2, <2>3 DEF x
  <2> QED
    BY <1>0, <2>4
<1>6. ASSUME NEW n \in k .. m, n \in L, n < m PROVE n + 1 \in L
  <2>1. n + 1 \in 1 .. m /\ n + 1 - 1 = n /\ n + 1 \in k .. m /\ n \in 0 .. m
    BY <1>0, <1>6
  <2>2. r[n] \in Nat /\ s[n] \in Nat /\ r[n] < s[n]
    BY <1>3, <1>6, <2>1
  <2>3. r[n] * base + Digit(a, n + 1) < s[n] * base + Digit(b, n + 1)
    BY <1>d, <2>1, <2>2, HeadDecides
  <2>4. r[n + 1] < s[n + 1]
    <3> HIDE DEF base, m
    <3> QED
      BY <1>3, <2>1, <2>3
  <2> QED
    BY <2>1, <2>4
<1>7. k .. m \subseteq L
  <2>1. k <= m
    BY <1>0
  <2> HIDE DEF L, m
  <2> QED
    BY <1>0, <1>5, <1>6, <2>1, UpTo
<1> QED
  BY <1>0, <1>1, <1>2, <1>7

\* Versions with the same digits are the same number.
LEMMA SameDigitsSameRank ==
    ASSUME NEW a \in Versions, a # <<>>, NEW b \in Versions, b # <<>>,
           Agree(a, b, MaxParts)
    PROVE  Rank(a) = Rank(b)
<1>1. PICK r : Ranks(r, a) /\ Rank(a) = r[MaxParts]
  BY RankIs
<1>2. PICK s : Ranks(s, b) /\ Rank(b) = s[MaxParts]
  BY RankIs
<1>3. MaxParts \in 0 .. MaxParts
  BY PartsAssumption
<1>4. Ranks(r, a) /\ Ranks(s, b)
  BY <1>1, <1>2
<1>5. r[MaxParts] = s[MaxParts]
  BY <1>3, <1>4, SameDigits
<1> QED
  BY <1>1, <1>2, <1>5

\* Comparing part by part is comparing the numbers.
LEMMA CompareIsByRank ==
    ASSUME NEW a \in Versions, a # <<>>, Len(a) <= MaxParts,
           NEW b \in Versions, b # <<>>, Len(b) <= MaxParts
    PROVE  /\ Compare(a, b) = CASE Rank(a) < Rank(b) -> -1
                                 [] Rank(a) > Rank(b) -> 1
                                 [] OTHER -> 0
           /\ Compare(a, b) < 0 <=> Rank(a) < Rank(b)
<1> DEFINE n == Max({Len(a), Len(b)})
           differ == {i \in 1 .. n : Digit(a, i) # Digit(b, i)}
<1>0. MaxParts \in Nat /\ Len(a) \in Nat /\ Len(b) \in Nat
  BY PartsAssumption DEF Versions
<1>1. n \in 0 .. MaxParts /\ Len(a) <= n /\ Len(b) <= n
  <2>1. n = CHOOSE x \in {Len(a), Len(b)} : \A y \in {Len(a), Len(b)} : x >= y
    BY DEF Max
  <2>2. \E x \in {Len(a), Len(b)} : \A y \in {Len(a), Len(b)} : x >= y
    BY <1>0
  <2>3. n \in {Len(a), Len(b)} /\ \A y \in {Len(a), Len(b)} : n >= y
    <3> HIDE DEF n
    <3> QED
      BY <2>1, <2>2
  <2> HIDE DEF n
  <2> QED
    BY <1>0, <2>3
<1> HIDE DEF n
<1>2. Len(TrimV(a)) = Len(a) /\ Len(TrimV(b)) = Len(b)
  <2>1. 1 \in Nat \ {0}
    OBVIOUS
  <2> QED
    BY <2>1, PartIsDigit
<1>d. \A i \in Nat \ {0} :
          /\ Part(TrimV(a), i) = Digit(a, i)
          /\ Part(TrimV(b), i) = Digit(b, i)
          /\ i > Len(a) => Digit(a, i) = 0
          /\ i > Len(b) => Digit(b, i) = 0
          /\ Digit(a, i) \in 0 .. MaxInt /\ Digit(b, i) \in 0 .. MaxInt
  BY PartIsDigit
<1>r. Rank(a) \in Nat /\ Rank(b) \in Nat
  BY RankIsNat
<1>3. \A i \in 1 .. n : i \in Nat \ {0} /\ i \in 1 .. MaxParts
  BY <1>0, <1>1
<1>4. {i \in 1 .. n : Part(TrimV(a), i) # Part(TrimV(b), i)} = differ
  BY <1>3, <1>d
<1> HIDE DEF differ
<1>5. Compare(a, b) =
          IF differ = {} THEN 0
          ELSE IF Part(TrimV(a), Min(differ)) < Part(TrimV(b), Min(differ)) THEN -1 ELSE 1
  BY <1>2, <1>4 DEF Compare, n
<1>6. CASE differ = {}
  <2>1. ASSUME NEW i \in 1 .. MaxParts PROVE Digit(a, i) = Digit(b, i)
    <3>1. CASE i \in 1 .. n
      BY <1>6, <3>1 DEF differ
    <3>2. CASE i \notin 1 .. n
      <4>1. i \in Nat \ {0} /\ i > Len(a) /\ i > Len(b)
        BY <1>0, <1>1, <3>2
      <4> QED
        BY <1>d, <4>1
    <3> QED
      BY <3>1, <3>2
  <2>2. Rank(a) = Rank(b)
    BY <2>1, SameDigitsSameRank DEF Agree
  <2>4. ~(Rank(a) < Rank(b)) /\ ~(Rank(a) > Rank(b))
    BY <1>r, <2>2
  <2> QED
    BY <1>5, <1>6, <2>4
<1>7. CASE differ # {}
  <2> DEFINE k == Min(differ)
  <2>1. k \in differ /\ \A i \in differ : k <= i
    <3>1. differ \in SUBSET Nat
      BY DEF differ
    <3> QED
      BY <1>7, <3>1, LeastIsMin
  <2> HIDE DEF k
  <2>2. k \in 1 .. n /\ Digit(a, k) # Digit(b, k)
    BY <2>1 DEF differ
  <2>3. k \in 1 .. MaxParts /\ k \in Nat \ {0}
    BY <1>3, <2>2
  <2>4. ASSUME NEW i \in 1 .. k - 1 PROVE Digit(a, i) = Digit(b, i)
    <3>1. i \in 1 .. n /\ ~(k <= i)
      BY <1>1, <2>2
    <3> QED
      BY <2>1, <3>1 DEF differ
  <2>a. Agree(a, b, k - 1) /\ Agree(b, a, k - 1)
    BY <2>4 DEF Agree
  <2>5. Compare(a, b) = IF Digit(a, k) < Digit(b, k) THEN -1 ELSE 1
    BY <1>5, <1>7, <1>d, <2>3 DEF k
  <2>7. Digit(a, k) \in Nat /\ Digit(b, k) \in Nat
    BY <1>d, <2>3, MaxIntAssumption
  <2>8. CASE Digit(a, k) < Digit(b, k)
    <3>1. Rank(a) < Rank(b)
      BY <2>3, <2>8, <2>a, FirstDecides
    <3>2. ~(Rank(a) > Rank(b))
      BY <1>r, <3>1
    <3> QED
      BY <2>5, <2>8, <3>1, <3>2
  <2>9. CASE ~(Digit(a, k) < Digit(b, k))
    <3>1. Digit(b, k) < Digit(a, k)
      BY <2>2, <2>7, <2>9
    <3>2. Rank(b) < Rank(a)
      BY <2>3, <2>a, <3>1, FirstDecides
    <3>3. ~(Rank(a) < Rank(b)) /\ Rank(a) > Rank(b)
      BY <1>r, <3>2
    <3> QED
      BY <2>5, <2>9, <3>3
  <2> QED
    BY <2>8, <2>9
<1> QED
  BY <1>6, <1>7

\* The versions are as long as Rank reads them, and the connector has one.
VersionsInv ==
    IsVersion => /\ \A i \in 1 .. 3 : Len(input.compared[i]) <= MaxParts
                 /\ input.compared[1] # <<>>

\* Parts are sequences of pieces.
LEMMA VersionPartsAre == VersionParts \subseteq Seq(Int)
<1>1. MaxInt + 1 \in Int /\ Text \in Int /\ V \in Int
  BY MaxIntAssumption DEF Text, V
<1>2. /\ \A x \in Int : <<x>> \in Seq(Int)
      /\ \A x, y \in Int : <<x, y>> \in Seq(Int)
      /\ \A x, y, z \in Int : <<x, y, z>> \in Seq(Int)
  OBVIOUS
<1> QED
  BY <1>1, <1>2 DEF VersionParts

\* Growing a version keeps it within MaxParts and its first part in place.
LEMMA VersionsStay == InputInv /\ VersionsInv /\ [Next]_input => VersionsInv'
<1> SUFFICES ASSUME InputInv, VersionsInv, [Next]_input PROVE VersionsInv'
  OBVIOUS
<1>1. CASE VersionGrows
  <2>1. input.kind = "version" /\ input \in VersionInput
    BY <1>1 DEF VersionGrows, InputInv, QueryInput, VersionInput, SchemaInput, ErrorInput,
                ShapeInput
  <2>2. PICK i \in 1 .. 3, p \in VersionParts :
            /\ Len(input.compared[i]) < MaxParts
            /\ input' = [input EXCEPT !.compared[i] = Append(@, p)]
    BY <1>1 DEF VersionGrows
  <2>3. input.compared \in [1 .. 3 -> Seq(VersionParts)]
    BY <2>1 DEF VersionInput
  <2>4. /\ input'.compared[i] = Append(input.compared[i], p)
        /\ \A j \in 1 .. 3 : j # i => input'.compared[j] = input.compared[j]
    BY <2>1, <2>2, <2>3 DEF VersionInput
  <2>5. /\ Len(Append(input.compared[i], p)) = Len(input.compared[i]) + 1
        /\ Len(input.compared[i]) \in Nat
    BY <2>3
  <2>6. Append(input.compared[i], p) # <<>>
    <3>1. input.compared[i] \in Seq(VersionParts)
      BY <2>3
    <3> QED
      BY <2>2, <3>1, AppendProperties
  <2>7. Len(input'.compared[i]) <= MaxParts
    BY <2>2, <2>4, <2>5, PartsAssumption
  <2>8. (\A j \in 1 .. 3 : Len(input.compared[j]) <= MaxParts) /\ input.compared[1] # <<>>
    BY <2>1 DEF VersionsInv, IsVersion
  <2>9. \A j \in 1 .. 3 : Len(input'.compared[j]) <= MaxParts
    BY <2>4, <2>7, <2>8
  <2>10. input'.compared[1] # <<>>
    <3>1. 1 \in 1 .. 3
      OBVIOUS
    <3>2. CASE i = 1
      BY <2>4, <2>6, <3>2
    <3>3. CASE i # 1
      BY <2>4, <2>8, <3>1, <3>3
    <3> QED
      BY <3>2, <3>3
  <2> QED
    BY <2>9, <2>10 DEF VersionsInv
<1>2. CASE ~VersionGrows
  <2>1. input' = input \/ input'.kind # "version"
    BY <1>2 DEF Next, QueryGrows, SchemaGrows, ErrorGrows, ShapeGrows, InputInv,
       QueryInput, VersionInput, SchemaInput, ErrorInput, ShapeInput
  <2> QED
    BY <2>1 DEF VersionsInv, IsVersion
<1> QED
  BY <1>1, <1>2

\* So all versions that are compared have at most MaxParts parts.
LEMMA VersionsBounded == Spec => []VersionsInv
<1>1. Init => VersionsInv
  <2> SUFFICES ASSUME Init, IsVersion PROVE VersionsInv
    BY DEF VersionsInv
  <2>1. input.compared = << << << 1 >> >>, <<>>, <<>> >>
    BY DEF Init, IsVersion
  <2>2. /\ input.compared[1] = << << 1 >> >> /\ input.compared[2] = <<>> /\ input.compared[3] = <<>>
    BY <2>1
  <2>3. Len(<< << 1 >> >>) = 1 /\ Len(<<>>) = 0 /\ << << 1 >> >> # <<>>
    OBVIOUS
  <2>4. \A i \in 1 .. 3 : i = 1 \/ i = 2 \/ i = 3
    OBVIOUS
  <2>5. ASSUME NEW i \in 1 .. 3 PROVE Len(input.compared[i]) <= MaxParts
    <3>1. Len(input.compared[i]) = 0 \/ Len(input.compared[i]) = 1
      BY <2>2, <2>3, <2>4
    <3>2. 0 <= MaxParts /\ 1 <= MaxParts
      BY PartsAssumption
    <3> QED
      BY <3>1, <3>2
  <2>6. input.compared[1] # <<>>
    BY <2>2, <2>3
  <2> QED
    BY <2>5, <2>6 DEF VersionsInv
<1> QED
  BY <1>1, VersionsStay, InputCorrect, PTL DEF Spec

\* Versions of any number of parts are in one order, the order of the numbers
\* they read as, and a build that is not supported is told of the newer one.
THEOREM VersionsAgreeCorrect == Spec => []VersionsAgree
<1>1. InputInv /\ VersionsInv => VersionsAgree
  <2> SUFFICES ASSUME InputInv, VersionsInv, IsVersion
               PROVE  ComparedByRank /\ UnsupportedIsOutdated
    BY DEF VersionsAgree
  <2> DEFINE c == input.compared
  <2>1. c \in [1 .. 3 -> Seq(VersionParts)]
    BY DEF InputInv, IsVersion, QueryInput, VersionInput, SchemaInput, ErrorInput, ShapeInput
  <2>2. \A i \in 1 .. 3 : c[i] \in Versions /\ Len(c[i]) <= MaxParts
    <3>1. \A v \in Seq(VersionParts) : v \in Versions
      BY VersionPartsAre DEF Versions
    <3> QED
      BY <2>1, <3>1 DEF VersionsInv
  <2>3. c[1] # <<>>
    BY DEF VersionsInv
  <2>4. ComparedByRank
    <3> SUFFICES ASSUME NEW a \in ToSet(c), NEW b \in ToSet(c), a # <<>>, b # <<>>
                 PROVE  Compare(a, b) = CASE Rank(a) < Rank(b) -> -1
                                          [] Rank(a) > Rank(b) -> 1
                                          [] OTHER -> 0
      BY DEF ComparedByRank
    <3>1. DOMAIN c = 1 .. 3
      BY <2>1
    <3>2. /\ a \in Versions /\ Len(a) <= MaxParts
          /\ b \in Versions /\ Len(b) <= MaxParts
      BY <2>2, <3>1 DEF ToSet
    <3> QED
      BY <3>2, CompareIsByRank
  <2>5. UnsupportedIsOutdated
    <3> DEFINE status == Check(c[1], c[2], c[3])
    <3> SUFFICES ASSUME c[2] # <<>>, c[3] # <<>>, Rank(c[3]) <= Rank(c[2]), status.unsupported
                 PROVE  status.outdated
      BY DEF UnsupportedIsOutdated
    <3>1. Compare(c[1], c[3]) < 0 /\ (status.outdated <=> Compare(c[1], c[2]) < 0)
      BY DEF Check
    <3>2. 1 \in 1 .. 3 /\ 2 \in 1 .. 3 /\ 3 \in 1 .. 3
      OBVIOUS
    <3>3. Rank(c[1]) < Rank(c[3])
      BY <2>2, <2>3, <3>1, <3>2, CompareIsByRank
    <3>4. Rank(c[1]) \in Nat /\ Rank(c[2]) \in Nat /\ Rank(c[3]) \in Nat
      BY <2>2, <2>3, <3>2, RankIsNat
    <3>5. Rank(c[1]) < Rank(c[2])
      BY <3>3, <3>4
    <3> QED
      BY <2>2, <2>3, <3>1, <3>2, <3>5, CompareIsByRank
  <2> QED
    BY <2>4, <2>5
<1> QED
  BY <1>1, InputCorrect, VersionsBounded, PTL

-----------------------------------------------------------------------------
(* Picking entries of a sequence. *)

PickNext(s, I, n, before) == IF n \in I THEN Append(before, s[n]) ELSE before

Picks(g, s, I, S) ==
    /\ g \in [0 .. Len(s) -> Seq(S)]
    /\ g[0] = <<>>
    /\ \A n \in 1 .. Len(s) : g[n] = PickNext(s, I, n, g[n - 1])

\* What is picked is collected entry by entry.
LEMMA PickedIs ==
    ASSUME NEW S, NEW s \in Seq(S), NEW I
    PROVE  \E g : Picks(g, s, I, S) /\ Picked(s, I) = g[Len(s)]
<1> DEFINE m == Len(s)
           F == [p \in (1 .. m) \X Seq(S) |-> PickNext(s, I, p[1], p[2])]
           body(g, n) == IF n = 0 THEN <<>> ELSE PickNext(s, I, n, g[n - 1])
<1>0. m \in Nat /\ 0 \in Nat /\ 0 <= m /\ <<>> \in Seq(S)
  OBVIOUS
<1>1. ASSUME NEW n \in 1 .. m, NEW x \in Seq(S) PROVE PickNext(s, I, n, x) \in Seq(S)
  <2>1. s[n] \in S
    OBVIOUS
  <2>2. Append(x, s[n]) \in Seq(S)
    BY <2>1
  <2> QED
    BY <2>2 DEF PickNext
<1>2. F \in [(1 .. m) \X Seq(S) -> Seq(S)]
  <2>1. \A p \in (1 .. m) \X Seq(S) : PickNext(s, I, p[1], p[2]) \in Seq(S)
    <3> HIDE DEF m
    <3> QED
      BY <1>1
  <2> QED
    BY <2>1
<1>3. PICK g : Iterates(g, m, Seq(S), <<>>, F)
  <2> HIDE DEF F, m
  <2> QED
    BY <1>0, <1>2, Iteration
<1>4. /\ g \in [0 .. m -> Seq(S)] /\ g[0] = <<>>
      /\ \A n \in 1 .. m : g[n] = F[<<n, g[n - 1]>>]
  BY <1>3 DEF Iterates
<1>5. ASSUME NEW n \in 1 .. m PROVE g[n] = PickNext(s, I, n, g[n - 1])
  <2>1. n - 1 \in 0 .. m
    BY <1>0
  <2>2. <<n, g[n - 1]>> \in (1 .. m) \X Seq(S)
    <3>1. g[n - 1] \in Seq(S)
      BY <1>4, <2>1
    <3> QED
      BY <3>1
  <2>3. F[<<n, g[n - 1]>>] = PickNext(s, I, n, g[n - 1])
    <3> HIDE DEF m
    <3> QED
      BY <2>2
  <2> HIDE DEF F, m
  <2> QED
    BY <1>4, <2>3
<1>6. Picks(g, s, I, S)
  BY <1>4, <1>5 DEF Picks
<1> DEFINE Q(h) == h = [n \in 0 .. m |->
                           IF n = 0 THEN <<>>
                           ELSE IF n \in I THEN Append(h[n - 1], s[n]) ELSE h[n - 1]]
           upTo == CHOOSE h : Q(h)
<1>7. \A h : Q(h) <=> h = [n \in 0 .. m |-> body(h, n)]
  BY DEF PickNext
<1>8. Q(g)
  <2>1. \A n \in 0 .. m : g[n] = body(g, n)
    <3>1. \A n \in 0 .. m : n = 0 \/ n \in 1 .. m
      BY <1>0
    <3> HIDE DEF m
    <3> QED
      BY <1>4, <1>5, <3>1
  <2>2. g = [n \in 0 .. m |-> g[n]]
    BY <1>4
  <2>3. g = [n \in 0 .. m |-> body(g, n)]
    <3> HIDE DEF body, m
    <3> QED
      BY <2>1, <2>2
  <2> HIDE DEF Q, body, m
  <2> QED
    BY <1>7, <2>3
<1>9. Q(upTo)
  <2> HIDE DEF Q
  <2> QED
    BY <1>8
<1>10. Picked(s, I) = upTo[m]
  BY DEF Picked
<1> HIDE DEF upTo
<1>11. \A n \in 0 .. m : upTo[n] = body(upTo, n)
  <2>1. upTo = [n \in 0 .. m |-> body(upTo, n)]
    <3> HIDE DEF Q, body, m
    <3> QED
      BY <1>7, <1>9
  <2> HIDE DEF body, m
  <2> QED
    BY <2>1
<1> DEFINE E == {n \in 0 .. m : upTo[n] = g[n]}
<1>12. 0 \in E
  BY <1>0, <1>4, <1>11
<1>13. ASSUME NEW n \in 0 .. m, n \in E, n < m PROVE n + 1 \in E
  <2>1. n + 1 \in 0 .. m /\ n + 1 \in 1 .. m /\ n + 1 # 0 /\ n + 1 - 1 = n
    BY <1>0, <1>13
  <2>2. upTo[n + 1] = PickNext(s, I, n + 1, upTo[n])
    <3> HIDE DEF m
    <3> QED
      BY <1>11, <2>1
  <2>3. g[n + 1] = PickNext(s, I, n + 1, g[n])
    <3> HIDE DEF m
    <3> QED
      BY <1>5, <2>1
  <2>4. upTo[n] = g[n]
    BY <1>13
  <2> QED
    BY <2>1, <2>2, <2>3, <2>4
<1>14. 0 .. m \subseteq E
  <2> HIDE DEF E, m
  <2> QED
    BY <1>0, <1>12, <1>13, UpTo
<1>15. m \in 0 .. m
  BY <1>0
<1> QED
  BY <1>6, <1>10, <1>14, <1>15

\* There is one way to collect.
LEMMA PicksAgree ==
    ASSUME NEW S, NEW s \in Seq(S), NEW t \in Seq(S), NEW I, NEW J, Len(s) <= Len(t),
           \A i \in 1 .. Len(s) : s[i] = t[i] /\ (i \in I <=> i \in J),
           NEW g, NEW h, Picks(g, s, I, S), Picks(h, t, J, S)
    PROVE  g[Len(s)] = h[Len(s)]
<1> DEFINE m == Len(s)
           E == {n \in 0 .. m : g[n] = h[n]}
<1>0. m \in Nat /\ Len(t) \in Nat /\ 0 \in Nat /\ 0 <= m /\ 0 \in 0 .. m /\ m \in 0 .. m
  OBVIOUS
<1>1. 0 \in E
  BY <1>0 DEF Picks
<1>2. ASSUME NEW n \in 0 .. m, n \in E, n < m PROVE n + 1 \in E
  <2>1. n + 1 \in 0 .. m /\ n + 1 \in 1 .. m /\ n + 1 \in 1 .. Len(t) /\ n + 1 - 1 = n
    BY <1>0, <1>2
  <2>2. g[n + 1] = PickNext(s, I, n + 1, g[n]) /\ h[n + 1] = PickNext(t, J, n + 1, h[n])
    BY <2>1 DEF Picks
  <2>3. g[n] = h[n]
    BY <1>2
  <2>4. s[n + 1] = t[n + 1] /\ (n + 1 \in I <=> n + 1 \in J)
    BY <2>1
  <2> QED
    BY <2>1, <2>2, <2>3, <2>4 DEF PickNext
<1>3. 0 .. m \subseteq E
  <2> HIDE DEF E, m
  <2> QED
    BY <1>0, <1>1, <1>2, UpTo
<1> QED
  BY <1>0, <1>3

\* What is picked is a sequence of entries.
LEMMA PickedSeq ==
    ASSUME NEW S, NEW s \in Seq(S), NEW I
    PROVE  Picked(s, I) \in Seq(S)
<1>1. PICK g : Picks(g, s, I, S) /\ Picked(s, I) = g[Len(s)]
  BY PickedIs
<1>2. Len(s) \in 0 .. Len(s)
  OBVIOUS
<1> QED
  BY <1>1, <1>2 DEF Picks

\* It depends on nothing but which entries are picked.
LEMMA PickedSame ==
    ASSUME NEW S, NEW s \in Seq(S), NEW I, NEW J, \A i \in 1 .. Len(s) : i \in I <=> i \in J
    PROVE  Picked(s, I) = Picked(s, J)
<1>1. PICK g : Picks(g, s, I, S) /\ Picked(s, I) = g[Len(s)]
  BY PickedIs
<1>2. PICK h : Picks(h, s, J, S) /\ Picked(s, J) = h[Len(s)]
  BY PickedIs
<1>3. Len(s) <= Len(s)
  OBVIOUS
<1> QED
  BY <1>1, <1>2, <1>3, PicksAgree

\* Of nothing, nothing is picked.
LEMMA PickedNone ==
    ASSUME NEW I
    PROVE  Picked(<<>>, I) = <<>>
<1>1. <<>> \in Seq({}) /\ Len(<<>>) = 0
  OBVIOUS
<1>2. PICK g : Picks(g, <<>>, I, {}) /\ Picked(<<>>, I) = g[Len(<<>>)]
  BY <1>1, PickedIs
<1> QED
  BY <1>1, <1>2 DEF Picks

\* One more entry is picked, or not.
LEMMA PickedAppend ==
    ASSUME NEW S, NEW s \in Seq(S), NEW x \in S, NEW I
    PROVE  Picked(Append(s, x), I) =
               IF Len(s) + 1 \in I THEN Append(Picked(s, I), x) ELSE Picked(s, I)
<1> DEFINE t == Append(s, x)
<1>1. /\ t \in Seq(S) /\ Len(t) = Len(s) + 1 /\ t[Len(s) + 1] = x
      /\ \A i \in 1 .. Len(s) : s[i] = t[i]
  OBVIOUS
<1> HIDE DEF t
<1>2. PICK g : Picks(g, s, I, S) /\ Picked(s, I) = g[Len(s)]
  BY PickedIs
<1>3. PICK h : Picks(h, t, I, S) /\ Picked(t, I) = h[Len(t)]
  BY <1>1, PickedIs
<1>4. Len(s) <= Len(t) /\ Len(s) \in Nat
  BY <1>1
<1>5. g[Len(s)] = h[Len(s)]
  BY <1>1, <1>2, <1>3, <1>4, PicksAgree
<1>6. Len(t) \in 1 .. Len(t) /\ Len(t) - 1 = Len(s)
  BY <1>1, <1>4
<1>7. h[Len(t)] = PickNext(t, I, Len(t), h[Len(s)])
  BY <1>3, <1>6 DEF Picks
<1>8. Picked(t, I) = PickNext(t, I, Len(t), Picked(s, I))
  BY <1>2, <1>3, <1>5, <1>7
<1>9. Picked(t, I) = IF Len(s) + 1 \in I THEN Append(Picked(s, I), x) ELSE Picked(s, I)
  BY <1>1, <1>8 DEF PickNext
<1> QED
  BY <1>9 DEF t

\* Induction over sequences, as a fact about the set of sequences that have a property.
LEMMA ByAppending ==
    ASSUME NEW S, NEW P, <<>> \in P,
           \A s \in Seq(S) : s \in P => \A x \in S : Append(s, x) \in P
    PROVE  Seq(S) \subseteq P
<1> SUFFICES ASSUME NEW t \in Seq(S) PROVE t \in P
  OBVIOUS
<1> DEFINE K == {n \in 0 .. Len(t) : \A s \in Seq(S) : Len(s) = n => s \in P}
<1>0. Len(t) \in Nat /\ 0 \in Nat /\ 0 <= Len(t) /\ 0 \in 0 .. Len(t)
      /\ Len(t) \in 0 .. Len(t)
  OBVIOUS
<1>1. 0 \in K
  BY <1>0
<1>2. ASSUME NEW n \in 0 .. Len(t), n \in K, n < Len(t) PROVE n + 1 \in K
  <2>1. n + 1 \in 0 .. Len(t) /\ n \in Nat /\ n + 1 # 0
    BY <1>0, <1>2
  <2>2. ASSUME NEW s \in Seq(S), Len(s) = n + 1 PROVE s \in P
    <3>1. s # <<>>
      BY <2>1, <2>2
    <3>2. PICK r \in Seq(S), x \in S : s = Append(r, x)
      BY <3>1, SequenceEmptyOrAppend
    <3>3. Len(r) = n
      BY <2>1, <2>2, <3>2
    <3> QED
      BY <1>2, <3>2, <3>3
  <2> QED
    BY <2>1, <2>2
<1>3. 0 .. Len(t) \subseteq K
  <2> HIDE DEF K
  <2> QED
    BY <1>0, <1>1, <1>2, UpTo
<1> QED
  BY <1>0, <1>3

Map(h, s) == [i \in DOMAIN s |-> h[s[i]]]
Kept(s, Vals) == Picked(s, {i \in DOMAIN s : s[i] \in Vals})

\* What becomes of a sequence when an entry is appended to it.
LEMMA AppendSeen ==
    ASSUME NEW S, NEW s \in Seq(S), NEW x \in S
    PROVE  /\ Append(s, x) \in Seq(S) /\ Len(Append(s, x)) = Len(s) + 1
           /\ Append(s, x)[Len(s) + 1] = x /\ Append(s, x) # <<>>
           /\ \A i \in 1 .. Len(s) : Append(s, x)[i] = s[i]
           /\ DOMAIN Append(s, x) = 1 .. Len(s) + 1
           /\ \A i \in DOMAIN Append(s, x) : i \in DOMAIN s \/ i = Len(s) + 1
           /\ DOMAIN s = 1 .. Len(s) /\ Len(s) \in Nat
  BY AppendProperties

\* A mapped sequence is as long.
LEMMA MapIs ==
    ASSUME NEW S, NEW T, NEW s \in Seq(S), NEW h \in [S -> T]
    PROVE  Map(h, s) \in Seq(T) /\ Len(Map(h, s)) = Len(s)
  BY DEF Map

\* Mapping goes entry by entry.
LEMMA MapAppend ==
    ASSUME NEW S, NEW s \in Seq(S), NEW x \in S, NEW h
    PROVE  Map(h, Append(s, x)) = Append(Map(h, s), h[x])
<1> DEFINE T == {h[y] : y \in S}
<1>1. Append(s, x) \in Seq(S) /\ h[x] \in T
  BY AppendSeen
<1>2. /\ Map(h, s) \in Seq(T) /\ Len(Map(h, s)) = Len(s)
      /\ Map(h, Append(s, x)) \in Seq(T) /\ Len(Map(h, Append(s, x))) = Len(s) + 1
  <2>1. Len(Append(s, x)) = Len(s) + 1
    BY AppendSeen
  <2>2. \A r \in Seq(S) : Map(h, r) \in Seq(T) /\ Len(Map(h, r)) = Len(r)
    BY DEF Map
  <2> QED
    BY <1>1, <2>1, <2>2
<1> HIDE DEF T
<1>3. Append(Map(h, s), h[x]) \in Seq(T) /\ Len(Append(Map(h, s), h[x])) = Len(s) + 1
  BY <1>1, <1>2, AppendSeen
<1>4. ASSUME NEW i \in 1 .. Len(s) + 1
      PROVE  Map(h, Append(s, x))[i] = Append(Map(h, s), h[x])[i]
  <2>1. Map(h, Append(s, x))[i] = h[Append(s, x)[i]]
    BY AppendSeen DEF Map
  <2>2. CASE i = Len(s) + 1
    <3>1. Append(s, x)[i] = x
      BY <2>2, AppendSeen
    <3>2. Append(Map(h, s), h[x])[i] = h[x]
      BY <1>1, <1>2, <2>2, AppendSeen
    <3> QED
      BY <2>1, <3>1, <3>2
  <2>3. CASE i # Len(s) + 1
    <3>1. i \in 1 .. Len(s) /\ i \in DOMAIN s
      BY <2>3, AppendSeen
    <3>2. Append(s, x)[i] = s[i]
      BY <3>1, AppendSeen
    <3>3. Append(Map(h, s), h[x])[i] = Map(h, s)[i]
      BY <1>1, <1>2, <3>1, AppendSeen
    <3> QED
      BY <2>1, <3>1, <3>2, <3>3 DEF Map
  <2> QED
    BY <2>2, <2>3
<1> QED
  BY <1>2, <1>3, <1>4, SeqEqual

\* Picking commutes with mapping.
LEMMA PickedMap ==
    ASSUME NEW S, NEW h, NEW I, NEW t \in Seq(S)
    PROVE  Picked(Map(h, t), I) = Map(h, Picked(t, I))
<1> DEFINE T == {h[y] : y \in S}
           P == {s \in Seq(S) : Picked(Map(h, s), I) = Map(h, Picked(s, I))}
<1>1. <<>> \in P
  <2>1. Map(h, <<>>) = <<>>
    BY DEF Map
  <2> QED
    BY <2>1, PickedNone
<1>2. ASSUME NEW s \in Seq(S), s \in P, NEW x \in S PROVE Append(s, x) \in P
  <2>0. Picked(Map(h, s), I) = Map(h, Picked(s, I))
    BY <1>2
  <2> HIDE DEF P
  <2>9. \A r \in Seq(S), y \in S : Map(h, Append(r, y)) = Append(Map(h, r), h[y])
    BY MapAppend
  <2>1. Map(h, Append(s, x)) = Append(Map(h, s), h[x]) /\ h[x] \in T
    BY <2>9
  <2>2. Map(h, s) \in Seq(T) /\ Len(Map(h, s)) = Len(s)
    BY DEF Map
  <2> HIDE DEF T
  <2>3. Picked(Append(Map(h, s), h[x]), I) =
            IF Len(s) + 1 \in I THEN Append(Picked(Map(h, s), I), h[x]) ELSE Picked(Map(h, s), I)
    <3>1. \A m \in Seq(T), y \in T :
             Picked(Append(m, y), I) = IF Len(m) + 1 \in I THEN Append(Picked(m, I), y)
                                       ELSE Picked(m, I)
      BY PickedAppend
    <3> QED
      BY <2>1, <2>2, <3>1
  <2>4. Picked(Append(s, x), I) =
            IF Len(s) + 1 \in I THEN Append(Picked(s, I), x) ELSE Picked(s, I)
    BY PickedAppend
  <2>5. Picked(s, I) \in Seq(S)
    BY PickedSeq
  <2>6. Map(h, Append(Picked(s, I), x)) = Append(Map(h, Picked(s, I)), h[x])
    BY <2>5, <2>9
  <2>7. Append(s, x) \in Seq(S)
    BY AppendSeen
  <2> QED
    BY <2>0, <2>1, <2>3, <2>4, <2>6, <2>7 DEF P
<1>3. Seq(S) \subseteq P
  <2> HIDE DEF P
  <2> QED
    BY <1>1, <1>2, ByAppending
<1> QED
  BY <1>3

\* One more entry is one more element.
LEMMA ToSetAppend ==
    ASSUME NEW S, NEW s \in Seq(S), NEW x \in S
    PROVE  ToSet(Append(s, x)) = ToSet(s) \cup {x}
<1>1. ToSet(Append(s, x)) \subseteq ToSet(s) \cup {x}
  <2> SUFFICES ASSUME NEW i \in DOMAIN Append(s, x)
               PROVE  Append(s, x)[i] \in ToSet(s) \cup {x}
    BY DEF ToSet
  <2> QED
    BY AppendSeen DEF ToSet
<1>2. ToSet(s) \subseteq ToSet(Append(s, x))
  <2> SUFFICES ASSUME NEW i \in DOMAIN s PROVE s[i] \in ToSet(Append(s, x))
    BY DEF ToSet
  <2>1. i \in DOMAIN Append(s, x) /\ s[i] = Append(s, x)[i]
    BY AppendSeen
  <2> QED
    BY <2>1 DEF ToSet
<1>3. x \in ToSet(Append(s, x))
  <2>1. Len(s) + 1 \in DOMAIN Append(s, x) /\ x = Append(s, x)[Len(s) + 1]
    BY AppendSeen
  <2> QED
    BY <2>1 DEF ToSet
<1> QED
  BY <1>1, <1>2, <1>3

\* The entries that are kept by value, one at a time.
LEMMA KeptAppend ==
    ASSUME NEW S, NEW s \in Seq(S), NEW x \in S, NEW Vals
    PROVE  Kept(Append(s, x), Vals) = IF x \in Vals THEN Append(Kept(s, Vals), x) ELSE Kept(s, Vals)
<1> DEFINE t == Append(s, x)
           I == {i \in DOMAIN t : t[i] \in Vals}
           J == {i \in DOMAIN s : s[i] \in Vals}
<1>1. \A i \in 1 .. Len(s) : i \in I <=> i \in J
  BY AppendSeen
<1>2. Len(s) + 1 \in I <=> x \in Vals
  BY AppendSeen
<1>3. Kept(t, Vals) = Picked(t, I) /\ Kept(s, Vals) = Picked(s, J)
  BY DEF Kept
<1> HIDE DEF I, J
<1>4. Picked(s, I) = Picked(s, J)
  BY <1>1, PickedSame
<1>5. Picked(t, I) = IF Len(s) + 1 \in I THEN Append(Picked(s, I), x) ELSE Picked(s, I)
  BY PickedAppend
<1> QED
  BY <1>2, <1>3, <1>4, <1>5

\* Of nothing, nothing is kept.
LEMMA KeptNone ==
    ASSUME NEW Vals
    PROVE  Kept(<<>>, Vals) = <<>>
  BY PickedNone DEF Kept

\* What is kept is a sequence of entries.
LEMMA KeptSeq ==
    ASSUME NEW S, NEW s \in Seq(S), NEW Vals
    PROVE  Kept(s, Vals) \in Seq(S)
  BY PickedSeq DEF Kept

\* Picking some and keeping of those what has a value is one choice.
LEMMA KeptKept ==
    ASSUME NEW S, NEW U, NEW Vals, NEW t \in Seq(S)
    PROVE  Kept(Kept(t, U), Vals) = Kept(t, U \cap Vals)
<1> DEFINE P == {s \in Seq(S) : Kept(Kept(s, U), Vals) = Kept(s, U \cap Vals)}
<1>1. <<>> \in P
  BY KeptNone
<1>2. ASSUME NEW s \in Seq(S), s \in P, NEW x \in S PROVE Append(s, x) \in P
  <2>1. Kept(Append(s, x), U) = IF x \in U THEN Append(Kept(s, U), x) ELSE Kept(s, U)
    BY KeptAppend
  <2>2. Kept(s, U) \in Seq(S) /\ Append(s, x) \in Seq(S)
    BY KeptSeq, AppendSeen
  <2>3. Kept(Append(Kept(s, U), x), Vals) =
            IF x \in Vals THEN Append(Kept(Kept(s, U), Vals), x) ELSE Kept(Kept(s, U), Vals)
    BY <2>2, KeptAppend
  <2>4. Kept(Append(s, x), U \cap Vals) =
            IF x \in U \cap Vals THEN Append(Kept(s, U \cap Vals), x) ELSE Kept(s, U \cap Vals)
    BY KeptAppend
  <2>5. Kept(Kept(s, U), Vals) = Kept(s, U \cap Vals)
    BY <1>2
  <2>6. Kept(Kept(Append(s, x), U), Vals) = Kept(Append(s, x), U \cap Vals)
    <3> HIDE DEF P
    <3>1. CASE x \in U /\ x \in Vals
      BY <2>1, <2>3, <2>4, <2>5, <3>1
    <3>2. CASE x \in U /\ x \notin Vals
      BY <2>1, <2>3, <2>4, <2>5, <3>2
    <3>3. CASE x \notin U
      BY <2>1, <2>4, <2>5, <3>3
    <3> QED
      BY <3>1, <3>2, <3>3
  <2> QED
    BY <2>2, <2>6
<1>3. Seq(S) \subseteq P
  <2> HIDE DEF P
  <2> QED
    BY <1>1, <1>2, ByAppending
<1> QED
  BY <1>3

\* What is kept of two sequences is kept of the one, then of the other.
LEMMA KeptConcat ==
    ASSUME NEW S, NEW Vals, NEW r \in Seq(S), NEW t \in Seq(S)
    PROVE  Kept(r \o t, Vals) = Kept(r, Vals) \o Kept(t, Vals)
<1> DEFINE P == {s \in Seq(S) : Kept(r \o s, Vals) = Kept(r, Vals) \o Kept(s, Vals)}
<1>0. Kept(r, Vals) \in Seq(S)
  BY KeptSeq
<1>1. <<>> \in P
  <2>1. r \o <<>> = r /\ Kept(r, Vals) \o <<>> = Kept(r, Vals) /\ <<>> \in Seq(S)
    BY <1>0, ConcatEmptySeq
  <2> QED
    BY <2>1, KeptNone
<1>2. ASSUME NEW s \in Seq(S), s \in P, NEW x \in S PROVE Append(s, x) \in P
  <2>1. Kept(Append(s, x), Vals) = IF x \in Vals THEN Append(Kept(s, Vals), x) ELSE Kept(s, Vals)
    BY KeptAppend
  <2>2. Kept(s, Vals) \in Seq(S) /\ Append(s, x) \in Seq(S) /\ r \o s \in Seq(S)
    BY KeptSeq, AppendSeen
  <2>3. r \o Append(s, x) = Append(r \o s, x)
    OBVIOUS
  <2>4. Kept(r, Vals) \o Append(Kept(s, Vals), x) = Append(Kept(r, Vals) \o Kept(s, Vals), x)
    BY <1>0, <2>2
  <2>5. Kept(Append(r \o s, x), Vals) =
            IF x \in Vals THEN Append(Kept(r \o s, Vals), x) ELSE Kept(r \o s, Vals)
    BY <2>2, KeptAppend
  <2>6. Kept(r \o s, Vals) = Kept(r, Vals) \o Kept(s, Vals)
    BY <1>2
  <2> QED
    BY <2>1, <2>2, <2>3, <2>4, <2>5, <2>6
<1>3. Seq(S) \subseteq P
  <2> HIDE DEF P
  <2> QED
    BY <1>1, <1>2, ByAppending
<1> QED
  BY <1>3

\* A sequence of what is kept anyway, or of nothing that is.
LEMMA KeptAllOrNone ==
    ASSUME NEW S, NEW Vals, NEW t \in Seq(S)
    PROVE  /\ S \subseteq Vals => Kept(t, Vals) = t
           /\ S \cap Vals = {} => Kept(t, Vals) = <<>>
<1> DEFINE P == {s \in Seq(S) : /\ S \subseteq Vals => Kept(s, Vals) = s
                                /\ S \cap Vals = {} => Kept(s, Vals) = <<>>}
<1>1. <<>> \in P
  BY KeptNone
<1>2. ASSUME NEW s \in Seq(S), s \in P, NEW x \in S PROVE Append(s, x) \in P
  <2>1. Kept(Append(s, x), Vals) = IF x \in Vals THEN Append(Kept(s, Vals), x) ELSE Kept(s, Vals)
    BY KeptAppend
  <2>2. Append(s, x) \in Seq(S)
    BY AppendSeen
  <2> QED
    BY <1>2, <2>1, <2>2
<1>3. Seq(S) \subseteq P
  <2> HIDE DEF P
  <2> QED
    BY <1>1, <1>2, ByAppending
<1> QED
  BY <1>3

\* What is kept are the entries with such a value.
LEMMA KeptSet ==
    ASSUME NEW S, NEW Vals, NEW t \in Seq(S)
    PROVE  ToSet(Kept(t, Vals)) = ToSet(t) \cap Vals
<1> DEFINE P == {s \in Seq(S) : ToSet(Kept(s, Vals)) = ToSet(s) \cap Vals}
<1>1. <<>> \in P
  BY KeptNone DEF ToSet
<1>2. ASSUME NEW s \in Seq(S), s \in P, NEW x \in S PROVE Append(s, x) \in P
  <2>1. Kept(Append(s, x), Vals) = IF x \in Vals THEN Append(Kept(s, Vals), x) ELSE Kept(s, Vals)
    BY KeptAppend
  <2>2. Kept(s, Vals) \in Seq(S) /\ Append(s, x) \in Seq(S)
    BY KeptSeq, AppendSeen
  <2>3. ToSet(Append(s, x)) = ToSet(s) \cup {x}
        /\ ToSet(Append(Kept(s, Vals), x)) = ToSet(Kept(s, Vals)) \cup {x}
    BY <2>2, ToSetAppend
  <2>4. ToSet(Kept(s, Vals)) = ToSet(s) \cap Vals
    BY <1>2
  <2> QED
    BY <2>1, <2>2, <2>3, <2>4
<1>3. Seq(S) \subseteq P
  <2> HIDE DEF P
  <2> QED
    BY <1>1, <1>2, ByAppending
<1> QED
  BY <1>3

Ascends(s) == \A i, j \in 1 .. Len(s) : i < j => s[i] < s[j]

\* A sequence goes on ascending with an entry above all others.
LEMMA AscendsAppend ==
    ASSUME NEW s \in Seq(Nat), NEW x \in Nat
    PROVE  Ascends(Append(s, x)) <=> Ascends(s) /\ \A y \in ToSet(s) : y < x
<1>1. ASSUME Ascends(Append(s, x)) PROVE Ascends(s) /\ \A y \in ToSet(s) : y < x
  <2>1. ASSUME NEW i \in 1 .. Len(s), NEW j \in 1 .. Len(s), i < j PROVE s[i] < s[j]
    <3>1. /\ i \in 1 .. Len(Append(s, x)) /\ j \in 1 .. Len(Append(s, x))
          /\ Append(s, x)[i] = s[i] /\ Append(s, x)[j] = s[j]
      BY AppendSeen
    <3> QED
      BY <1>1, <2>1, <3>1 DEF Ascends
  <2>2. ASSUME NEW i \in 1 .. Len(s) PROVE s[i] < x
    <3>1. /\ i \in 1 .. Len(Append(s, x)) /\ Len(s) + 1 \in 1 .. Len(Append(s, x))
          /\ Append(s, x)[i] = s[i] /\ Append(s, x)[Len(s) + 1] = x /\ i < Len(s) + 1
      BY AppendSeen
    <3> QED
      BY <1>1, <3>1 DEF Ascends
  <2>3. DOMAIN s = 1 .. Len(s)
    OBVIOUS
  <2> QED
    BY <2>1, <2>2, <2>3 DEF Ascends, ToSet
<1>2. ASSUME Ascends(s), \A y \in ToSet(s) : y < x PROVE Ascends(Append(s, x))
  <2> SUFFICES ASSUME NEW i \in 1 .. Len(Append(s, x)), NEW j \in 1 .. Len(Append(s, x)), i < j
               PROVE  Append(s, x)[i] < Append(s, x)[j]
    BY DEF Ascends
  <2>1. i \in 1 .. Len(s) /\ Append(s, x)[i] = s[i] /\ DOMAIN s = 1 .. Len(s)
    BY AppendSeen
  <2>2. CASE j = Len(s) + 1
    <3>1. s[i] \in ToSet(s) /\ Append(s, x)[j] = x
      BY <2>1, <2>2, AppendSeen DEF ToSet
    <3> QED
      BY <1>2, <2>1, <3>1
  <2>3. CASE j # Len(s) + 1
    <3>1. j \in 1 .. Len(s) /\ Append(s, x)[j] = s[j]
      BY <2>3, AppendSeen
    <3> QED
      BY <1>2, <2>1, <3>1 DEF Ascends
  <2> QED
    BY <2>2, <2>3
<1> QED
  BY <1>1, <1>2

\* What is kept of an ascending sequence ascends.
LEMMA KeptAscends ==
    ASSUME NEW Vals, NEW t \in Seq(Nat), Ascends(t)
    PROVE  Ascends(Kept(t, Vals))
<1> DEFINE P == {s \in Seq(Nat) : Ascends(s) => Ascends(Kept(s, Vals))}
<1>1. <<>> \in P
  BY KeptNone DEF Ascends
<1>2. ASSUME NEW s \in Seq(Nat), s \in P, NEW x \in Nat PROVE Append(s, x) \in P
  <2>1. Kept(Append(s, x), Vals) = IF x \in Vals THEN Append(Kept(s, Vals), x) ELSE Kept(s, Vals)
    BY KeptAppend
  <2>2. Kept(s, Vals) \in Seq(Nat) /\ Append(s, x) \in Seq(Nat)
    BY KeptSeq, AppendSeen
  <2> SUFFICES ASSUME Ascends(Append(s, x)) PROVE Ascends(Kept(Append(s, x), Vals))
    BY <2>2
  <2>3. Ascends(s) /\ \A y \in ToSet(s) : y < x
    BY AscendsAppend
  <2>4. Ascends(Kept(s, Vals)) /\ \A y \in ToSet(Kept(s, Vals)) : y < x
    BY <1>2, <2>3, KeptSet
  <2> QED
    BY <2>1, <2>2, <2>4, AscendsAppend
<1>3. Seq(Nat) \subseteq P
  <2> HIDE DEF P
  <2> QED
    BY <1>1, <1>2, ByAppending
<1> QED
  BY <1>3

-----------------------------------------------------------------------------
(* Sorting. *)

\* An injective sequence has as many entries as its set.
LEMMA DistinctCount ==
    ASSUME NEW S, NEW s \in Seq(S), IsInjective(s)
    PROVE  IsFiniteSet(ToSet(s)) /\ Cardinality(ToSet(s)) = Len(s)
<1>1. DOMAIN s = 1 .. Len(s) /\ Len(s) \in Nat
  OBVIOUS
<1>2. s \in [1 .. Len(s) -> ToSet(s)]
  BY <1>1 DEF ToSet
<1>3. \A y \in ToSet(s) : \E i \in 1 .. Len(s) : s[i] = y
  BY <1>1 DEF ToSet
<1>4. s \in Bijection(1 .. Len(s), ToSet(s))
  BY <1>2, <1>3 DEF Bijection, Injection, Surjection
<1>5. ExistsBijection(1 .. Len(s), ToSet(s))
  BY <1>4 DEF ExistsBijection
<1>6. Cardinality(ToSet(s)) = Len(s)
  BY <1>1, <1>5, FS_CountingElements
<1>7. IsFiniteSet(1 .. Len(s))
  BY <1>1, FS_Interval
<1> QED
  BY <1>5, <1>6, <1>7, FS_Bijection

\* What ascends has nothing twice.
LEMMA AscendsIsInjective ==
    ASSUME NEW s \in Seq(Nat), Ascends(s)
    PROVE  IsInjective(s)
<1> SUFFICES ASSUME NEW i \in DOMAIN s, NEW j \in DOMAIN s, s[i] = s[j], i # j PROVE FALSE
  BY DEF IsInjective
<1>1. i \in 1 .. Len(s) /\ j \in 1 .. Len(s) /\ s[i] \in Nat /\ s[j] \in Nat
  OBVIOUS
<1>2. i < j \/ j < i
  BY <1>1
<1> QED
  BY <1>1, <1>2 DEF Ascends

\* Where one of two first falls behind the other, it has what the other has not.
LEMMA NoFirstGap ==
    ASSUME NEW a \in Seq(Nat), NEW b \in Seq(Nat), Ascends(a), Ascends(b), NEW n \in Nat,
           Len(a) = n, Len(b) = n, NEW i \in 1 .. n,
           \A j \in 1 .. n : j < i => a[j] = b[j], a[i] < b[i]
    PROVE  ToSet(a) # ToSet(b)
<1> SUFFICES ASSUME ToSet(a) = ToSet(b) PROVE FALSE
  OBVIOUS
<1>0. DOMAIN a = 1 .. n /\ DOMAIN b = 1 .. n /\ a[i] \in Nat /\ b[i] \in Nat
  OBVIOUS
<1>1. a[i] \in ToSet(b)
  <2>1. a[i] \in ToSet(a)
    BY <1>0 DEF ToSet
  <2> QED
    BY <2>1
<1>2. PICK j \in 1 .. n : b[j] = a[i]
  BY <1>0, <1>1 DEF ToSet
<1>3. j # i
  BY <1>0, <1>2
<1>4. CASE j < i
  <2>1. a[j] < a[i]
    BY <1>0, <1>4, Ascends(a) DEF Ascends
  <2>2. a[j] = b[j]
    BY <1>4
  <2> QED
    BY <1>0, <1>2, <2>1, <2>2
<1>5. CASE i < j
  <2>1. b[i] < b[j]
    BY <1>0, <1>5, Ascends(b) DEF Ascends
  <2>2. a[i] < b[i]
    OBVIOUS
  <2> QED
    BY <1>0, <1>2, <2>1, <2>2
<1>6. i \in Nat /\ j \in Nat
  OBVIOUS
<1> QED
  BY <1>3, <1>4, <1>5, <1>6

\* A set is ascended in one way.
LEMMA OneAscent ==
    ASSUME NEW s \in Seq(Nat), NEW t \in Seq(Nat), Ascends(s), Ascends(t), ToSet(s) = ToSet(t)
    PROVE  s = t
<1>0. /\ Len(s) \in Nat /\ DOMAIN s = 1 .. Len(s) /\ \A i \in 1 .. Len(s) : s[i] \in Nat
      /\ Len(t) \in Nat /\ DOMAIN t = 1 .. Len(t) /\ \A i \in 1 .. Len(t) : t[i] \in Nat
  OBVIOUS
<1>1. Len(s) = Len(t)
  BY AscendsIsInjective, DistinctCount
<1> SUFFICES ASSUME {i \in 1 .. Len(s) : s[i] # t[i]} # {} PROVE FALSE
  BY <1>1, SeqEqual
<1>2. {i \in 1 .. Len(s) : s[i] # t[i]} \in SUBSET Nat
  OBVIOUS
<1>3. PICK i \in 1 .. Len(s) : s[i] # t[i] /\ \A j \in 1 .. Len(s) : s[j] # t[j] => i <= j
  BY <1>2, LeastNatural
<1>4. \A a, b \in Seq(Nat) :
         /\ Ascends(a) /\ Ascends(b) /\ Len(a) = Len(s) /\ Len(b) = Len(s)
         /\ \A j \in 1 .. Len(s) : j < i => a[j] = b[j]
         /\ a[i] < b[i]
         => ToSet(a) # ToSet(b)
  BY <1>0, NoFirstGap
<1>5. \A j \in 1 .. Len(s) : j < i => s[j] = t[j] /\ t[j] = s[j]
  BY <1>3
<1>6. s[i] < t[i] \/ t[i] < s[i]
  BY <1>0, <1>1, <1>3
<1> QED
  BY <1>1, <1>4, <1>5, <1>6

Table == 1 .. Tables

\* The tables of A, in order.
Listed(A) == Kept([n \in Table |-> n], A)

\* A set of tables is listed whole, and ascending.
LEMMA ListedIs ==
    ASSUME NEW A \in SUBSET Table
    PROVE  Listed(A) \in Seq(A) /\ Listed(A) \in Seq(Table) /\ Listed(A) \in Seq(Nat)
           /\ Ascends(Listed(A)) /\ ToSet(Listed(A)) = A
<1> DEFINE ids == [n \in Table |-> n]
<1>1. Tables \in Nat
  BY TablesAssumption
<1>2. ids \in Seq(Table) /\ ids \in Seq(Nat) /\ Len(ids) = Tables /\ DOMAIN ids = Table
  BY <1>1 DEF Table
<1>3. Ascends(ids)
  BY <1>2 DEF Ascends, Table
<1>4. ToSet(ids) = Table
  BY DEF ToSet
<1> HIDE DEF ids
<1>5. Listed(A) = Kept(ids, A)
  BY DEF Listed, ids
<1>6. Listed(A) \in Seq(Table) /\ Listed(A) \in Seq(Nat)
  BY <1>2, <1>5, KeptSeq
<1>7. ToSet(Listed(A)) = A
  <2>1. ToSet(Listed(A)) = Table \cap A
    BY <1>2, <1>4, <1>5, KeptSet
  <2> QED
    BY <2>1
<1>8. Listed(A) \in Seq(A)
  BY <1>6, <1>7 DEF ToSet
<1> QED
  BY <1>2, <1>3, <1>5, <1>6, <1>7, <1>8, KeptAscends

\* sort.Strings lists the tables in order.
LEMMA SortedIs ==
    ASSUME NEW s \in Seq(Table), IsInjective(s)
    PROVE  Sorted(s) = Listed(ToSet(s))
<1> DEFINE A == ToSet(s)
           t == Listed(A)
           n == Len(s)
           orders == {p \in [DOMAIN s -> DOMAIN s] : IsInjective(p)}
           Rearranged == {[i \in DOMAIN s |-> s[p[i]]] : p \in orders}
           Up(x) == \A i, j \in DOMAIN s : i < j => x[i] <= x[j]
<1>0. n \in Nat /\ DOMAIN s = 1 .. n /\ A \in SUBSET Table /\ Table \in SUBSET Nat
  <2>1. n \in Nat /\ DOMAIN s = 1 .. n /\ \A i \in 1 .. n : s[i] \in Table
    OBVIOUS
  <2>2. Table \in SUBSET Nat
    BY DEF Table
  <2> QED
    BY <2>1, <2>2 DEF ToSet
<1>1. /\ t \in Seq(Nat) /\ Ascends(t) /\ ToSet(t) = A
  BY <1>0, ListedIs
<1>2. IsFiniteSet(A) /\ Cardinality(A) = n
  BY DistinctCount
<1>3. Len(t) = n
  BY <1>1, <1>2, AscendsIsInjective, DistinctCount
<1> HIDE DEF t
<1>4. DOMAIN t = 1 .. n /\ \A i \in 1 .. n : t[i] \in Nat
  BY <1>1, <1>3
<1>5. t \in Rearranged
  <2> DEFINE p == [i \in 1 .. n |-> CHOOSE j \in 1 .. n : s[j] = t[i]]
  <2>1. ASSUME NEW i \in 1 .. n PROVE p[i] \in 1 .. n /\ s[p[i]] = t[i]
    <3>1. t[i] \in A
      BY <1>1, <1>4 DEF ToSet
    <3>2. \E j \in 1 .. n : s[j] = t[i]
      BY <1>0, <3>1 DEF ToSet
    <3> QED
      BY <3>2
  <2>2. p \in [1 .. n -> 1 .. n] /\ DOMAIN p = 1 .. n
    BY <2>1
  <2> HIDE DEF p
  <2>3. IsInjective(p)
    <3>1. IsInjective(t)
      BY <1>1, AscendsIsInjective
    <3>2. \A i, j \in 1 .. n : t[i] = t[j] => i = j
      BY <1>4, <3>1 DEF IsInjective
    <3> HIDE DEF n
    <3> QED
      BY <2>1, <2>2, <3>2 DEF IsInjective
  <2>4. p \in orders
    BY <1>0, <2>2, <2>3
  <2>5. t = [i \in 1 .. n |-> s[p[i]]]
    BY <1>1, <1>4, <2>1
  <2> HIDE DEF n, orders
  <2> QED
    BY <1>0, <2>4, <2>5
<1>6. Up(t)
  <2> SUFFICES ASSUME NEW i \in 1 .. n, NEW j \in 1 .. n, i < j PROVE t[i] <= t[j]
    BY <1>0
  <2>1. t[i] < t[j]
    BY <1>1, <1>3 DEF Ascends
  <2> QED
    BY <1>4, <2>1
<1>7. Sorted(s) = CHOOSE x \in Rearranged : Up(x)
  BY DEF Sorted
<1> DEFINE u == Sorted(s)
<1>8. u \in Rearranged /\ Up(u)
  <2> HIDE DEF Rearranged, Up
  <2> QED
    BY <1>5, <1>6, <1>7
<1> HIDE DEF u
<1>9. PICK q \in orders : u = [i \in 1 .. n |-> s[q[i]]]
  BY <1>0, <1>8
<1>10. /\ q \in [1 .. n -> 1 .. n] /\ \A i, j \in 1 .. n : q[i] = q[j] => i = j
  BY <1>0 DEF IsInjective
<1>11. u \in Seq(Nat) /\ Len(u) = n /\ DOMAIN u = 1 .. n /\ \A i \in 1 .. n : u[i] = s[q[i]]
  <2>1. \A i \in 1 .. n : s[q[i]] \in Nat
    <3>1. \A i \in 1 .. n : q[i] \in 1 .. n
      BY <1>10
    <3>2. \A i \in 1 .. n : s[i] \in Nat
      <4>1. \A i \in 1 .. n : s[i] \in Table
        OBVIOUS
      <4> QED
        BY <1>0, <4>1
    <3> QED
      BY <3>1, <3>2
  <2> QED
    BY <1>0, <1>9, <2>1
<1>12. \A i, j \in 1 .. n : u[i] = u[j] => i = j
  <2>1. \A i, j \in 1 .. n : s[i] = s[j] => i = j
    BY <1>0 DEF IsInjective
  <2> SUFFICES ASSUME NEW i \in 1 .. n, NEW j \in 1 .. n, u[i] = u[j] PROVE i = j
    OBVIOUS
  <2>2. s[q[i]] = s[q[j]] /\ q[i] \in 1 .. n /\ q[j] \in 1 .. n
    BY <1>10, <1>11
  <2>3. q[i] = q[j]
    BY <2>1, <2>2
  <2> QED
    BY <1>10, <2>3
<1>13. Ascends(u)
  <2> SUFFICES ASSUME NEW i \in 1 .. n, NEW j \in 1 .. n, i < j PROVE u[i] < u[j]
    BY <1>11 DEF Ascends
  <2>1. u[i] <= u[j]
    BY <1>0, <1>8
  <2>2. u[i] # u[j]
    BY <1>0, <1>12
  <2>3. u[i] \in Nat /\ u[j] \in Nat
    BY <1>11
  <2> QED
    BY <2>1, <2>2, <2>3
<1>14. ToSet(u) \subseteq A
  BY <1>0, <1>10, <1>11 DEF ToSet
<1>15. Cardinality(ToSet(u)) = n
  BY <1>11, <1>13, AscendsIsInjective, DistinctCount
<1>16. ToSet(u) = A
  <2> HIDE DEF A, n
  <2> QED
    BY <1>2, <1>14, <1>15, FS_Subset
<1>17. u = t
  BY <1>1, <1>11, <1>13, <1>16, OneAscent
<1> QED
  BY <1>17 DEF u, t

-----------------------------------------------------------------------------
(* The outline. *)

TableOf == [r \in Rows |-> r.table]
ColumnOf == [r \in Rows |-> r.column]
Column == {"id", "name"}

\* The tables that have a row.
TablesOf(rows) == ToSet(Map(TableOf, rows))

\* A row is its table and its column.
LEMMA RowIs ==
    /\ \A r \in Rows : r.table \in Table /\ r.column \in Column
                       /\ r = [table |-> r.table, column |-> r.column]
    /\ TableOf \in [Rows -> Table] /\ ColumnOf \in [Rows -> Column]
    /\ \A r \in Rows : TableOf[r] = r.table /\ ColumnOf[r] = r.column
  BY DEF Rows, Table, Column, TableOf, ColumnOf

\* The rows that come first of their table.
Firsts(rows) == {i \in DOMAIN rows : \A j \in 1 .. i - 1 : rows[j].table # rows[i].table}

\* Names picks the tables of the rows that come first.
LEMMA NamesSeen ==
    ASSUME NEW rows \in Seq(Rows)
    PROVE  Names(rows) = Picked(Map(TableOf, rows), Firsts(rows))
<1>1. \A i \in DOMAIN rows : rows[i] \in Rows
  OBVIOUS
<1>2. [i \in DOMAIN rows |-> rows[i].table] = Map(TableOf, rows)
  BY <1>1, RowIs DEF Map
<1> QED
  BY <1>2 DEF Names, Firsts

\* A name is new with the first row of its table.
LEMMA NamesAppend ==
    ASSUME NEW rows \in Seq(Rows), NEW r \in Rows
    PROVE  Names(Append(rows, r)) = IF r.table \in TablesOf(rows) THEN Names(rows)
                                    ELSE Append(Names(rows), r.table)
<1> DEFINE new == Append(rows, r)
           n == Len(rows)
           m == Map(TableOf, rows)
<1>1. /\ new \in Seq(Rows) /\ DOMAIN new = 1 .. n + 1 /\ new[n + 1] = r
      /\ \A i \in 1 .. n : new[i] = rows[i]
      /\ DOMAIN rows = 1 .. n /\ n \in Nat
  BY AppendSeen
<1>2. m \in Seq(Table) /\ Len(m) = n /\ r.table \in Table
  BY RowIs, MapIs
<1>3. Map(TableOf, new) = Append(m, r.table)
  BY RowIs, MapAppend
<1>4. \A i \in 1 .. n : i \in Firsts(new) <=> i \in Firsts(rows)
  <2> SUFFICES ASSUME NEW i \in 1 .. n PROVE i \in Firsts(new) <=> i \in Firsts(rows)
    OBVIOUS
  <2>1. /\ i \in DOMAIN new /\ i \in DOMAIN rows /\ new[i] = rows[i]
        /\ \A j \in 1 .. i - 1 : new[j] = rows[j]
    BY <1>1
  <2> HIDE DEF new
  <2> QED
    BY <2>1 DEF Firsts
<1>5. n + 1 \in Firsts(new) <=> r.table \notin TablesOf(rows)
  <2>1. n + 1 \in DOMAIN new /\ 1 .. (n + 1) - 1 = 1 .. n
    BY <1>1
  <2>2. n + 1 \in Firsts(new) <=> \A j \in 1 .. n : new[j].table # new[n + 1].table
    <3> HIDE DEF new, n
    <3> QED
      BY <2>1 DEF Firsts
  <2>3. n + 1 \in Firsts(new) <=> \A j \in 1 .. n : rows[j].table # r.table
    <3> HIDE DEF new, n
    <3> QED
      BY <1>1, <2>2
  <2>4. \A j \in 1 .. n : rows[j] \in Rows /\ TableOf[rows[j]] = rows[j].table
    BY <1>1, RowIs
  <2>5. TablesOf(rows) = {rows[j].table : j \in 1 .. n}
    <3>1. DOMAIN m = 1 .. n /\ \A j \in 1 .. n : m[j] = rows[j].table
      BY <1>1, <2>4 DEF Map
    <3> QED
      BY <3>1 DEF TablesOf, ToSet
  <2> QED
    BY <2>3, <2>5
<1>6. Names(new) = IF n + 1 \in Firsts(new) THEN Append(Picked(m, Firsts(new)), r.table)
                   ELSE Picked(m, Firsts(new))
  <2>1. Names(new) = Picked(Append(m, r.table), Firsts(new))
    BY <1>1, <1>3, NamesSeen
  <2>2. \A I : Picked(Append(m, r.table), I) =
                  IF Len(m) + 1 \in I THEN Append(Picked(m, I), r.table) ELSE Picked(m, I)
    <3> HIDE DEF m
    <3>1. \A q \in Seq(Table), y \in Table : \A I :
             Picked(Append(q, y), I) = IF Len(q) + 1 \in I THEN Append(Picked(q, I), y)
                                       ELSE Picked(q, I)
      BY PickedAppend
    <3> QED
      BY <1>2, <3>1
  <2> HIDE DEF new, m
  <2> QED
    BY <1>2, <2>1, <2>2
<1>7. Picked(m, Firsts(new)) = Names(rows)
  <2>1. Names(rows) = Picked(m, Firsts(rows))
    BY NamesSeen
  <2> HIDE DEF new, m
  <2> QED
    BY <1>2, <1>4, <2>1, PickedSame
<1> QED
  BY <1>5, <1>6, <1>7

\* Names has each table that has a row, once.
LEMMA NamesAre ==
    ASSUME NEW rows \in Seq(Rows)
    PROVE  Names(rows) \in Seq(Table) /\ IsInjective(Names(rows))
           /\ ToSet(Names(rows)) = TablesOf(rows)
<1> DEFINE P == {s \in Seq(Rows) : /\ Names(s) \in Seq(Table) /\ IsInjective(Names(s))
                                   /\ ToSet(Names(s)) = TablesOf(s)}
<1>1. <<>> \in P
  <2>1. Map(TableOf, <<>>) = <<>>
    BY DEF Map
  <2>2. <<>> \in Seq(Rows) /\ <<>> \in Seq(Table) /\ DOMAIN <<>> = {}
    OBVIOUS
  <2>3. Names(<<>>) = <<>>
    BY <2>1, <2>2, NamesSeen, PickedNone
  <2>4. IsInjective(<<>>)
    BY <2>2 DEF IsInjective
  <2> QED
    BY <2>1, <2>2, <2>3, <2>4 DEF TablesOf
<1>2. ASSUME NEW s \in Seq(Rows), s \in P, NEW r \in Rows PROVE Append(s, r) \in P
  <2> DEFINE names == Names(s)
             m == Map(TableOf, s)
  <2>0. names \in Seq(Table) /\ IsInjective(names) /\ ToSet(names) = TablesOf(s)
    BY <1>2
  <2>1. Append(s, r) \in Seq(Rows) /\ r.table \in Table
    BY AppendSeen, RowIs
  <2>2. m \in Seq(Table) /\ Map(TableOf, Append(s, r)) = Append(m, r.table)
    BY RowIs, MapIs, MapAppend
  <2>3. TablesOf(Append(s, r)) = TablesOf(s) \cup {r.table}
    <3> HIDE DEF m
    <3>1. ToSet(Append(m, r.table)) = ToSet(m) \cup {r.table}
      BY <2>1, <2>2, ToSetAppend
    <3> QED
      BY <2>2, <3>1 DEF TablesOf, m
  <2>4. CASE r.table \in TablesOf(s)
    <3>1. Names(Append(s, r)) = names /\ TablesOf(Append(s, r)) = TablesOf(s)
      BY <2>3, <2>4, NamesAppend
    <3> QED
      BY <2>0, <2>1, <3>1
  <2>5. CASE r.table \notin TablesOf(s)
    <3>1. Names(Append(s, r)) = Append(names, r.table)
      BY <2>5, NamesAppend
    <3> HIDE DEF names, P
    <3>2. Append(names, r.table) \in Seq(Table)
          /\ ToSet(Append(names, r.table)) = ToSet(names) \cup {r.table}
      BY <2>0, <2>1, AppendSeen, ToSetAppend
    <3>3. IsInjective(Append(names, r.table))
      <4> DEFINE longer == Append(names, r.table)
      <4>1. /\ DOMAIN longer = 1 .. Len(names) + 1 /\ longer[Len(names) + 1] = r.table
            /\ \A i \in 1 .. Len(names) : longer[i] = names[i]
            /\ DOMAIN names = 1 .. Len(names) /\ Len(names) \in Nat
        BY <2>0, <2>1, AppendSeen
      <4>2. \A i \in 1 .. Len(names) : names[i] # r.table
        BY <2>0, <2>5, <4>1 DEF ToSet
      <4>3. \A i \in DOMAIN longer : i \in 1 .. Len(names) \/ i = Len(names) + 1
        BY <4>1
      <4>4. \A i, j \in 1 .. Len(names) : names[i] = names[j] => i = j
        BY <2>0, <4>1 DEF IsInjective
      <4> HIDE DEF longer
      <4>5. IsInjective(longer)
        BY <4>1, <4>2, <4>3, <4>4 DEF IsInjective
      <4> QED
        BY <4>5 DEF longer
    <3> QED
      BY <2>0, <2>1, <2>3, <3>1, <3>2, <3>3 DEF P
  <2> QED
    BY <2>4, <2>5
<1>3. Seq(Rows) \subseteq P
  <2> HIDE DEF P
  <2> QED
    BY <1>1, <1>2, ByAppending
<1> QED
  BY <1>3

\* The rows of some tables are kept by value.
LEMMA RowsOfIs ==
    ASSUME NEW rows \in Seq(Rows), NEW A
    PROVE  RowsOf(rows, A) = Kept(rows, {r \in Rows : r.table \in A})
           /\ RowsOf(rows, A) \in Seq(Rows)
<1>1. \A i \in DOMAIN rows : rows[i] \in Rows
  OBVIOUS
<1>2. {i \in DOMAIN rows : rows[i].table \in A}
          = {i \in DOMAIN rows : rows[i] \in {r \in Rows : r.table \in A}}
  BY <1>1
<1>3. RowsOf(rows, A) = Kept(rows, {r \in Rows : r.table \in A})
  BY <1>2 DEF RowsOf, Kept
<1> QED
  BY <1>3, KeptSeq

\* Each column of a table is that of a row of it.
LEMMA ColumnsAre ==
    ASSUME NEW rows \in Seq(Rows), NEW t
    PROVE  ColumnsOf(rows, t) = Map(ColumnOf, RowsOf(rows, {t}))
<1> DEFINE I == {i \in DOMAIN rows : rows[i].table = t}
<1>1. \A i \in DOMAIN rows : rows[i] \in Rows
  OBVIOUS
<1>2. [i \in DOMAIN rows |-> rows[i].column] = Map(ColumnOf, rows)
  BY <1>1, RowIs DEF Map
<1>3. ColumnsOf(rows, t) = Picked(Map(ColumnOf, rows), I)
  BY <1>2 DEF ColumnsOf
<1>4. I = {i \in DOMAIN rows : rows[i].table \in {t}}
  OBVIOUS
<1>5. RowsOf(rows, {t}) = Picked(rows, I)
  BY <1>4 DEF RowsOf
<1> HIDE DEF I
<1>6. Picked(Map(ColumnOf, rows), I) = Map(ColumnOf, Picked(rows, I))
  BY PickedMap
<1> QED
  BY <1>3, <1>5, <1>6

Entry(rows) == [t \in Table |-> [name |-> t, columns |-> ColumnsOf(rows, t)]]

\* Inspect has an entry for each table that has a row, in order.
LEMMA InspectIs ==
    ASSUME NEW rows \in Seq(Rows)
    PROVE  Inspect(rows) = Map(Entry(rows), Listed(TablesOf(rows)))
           /\ TablesOf(rows) \in SUBSET Table
<1> DEFINE L == Listed(TablesOf(rows))
<1>1. Names(rows) \in Seq(Table) /\ IsInjective(Names(rows))
      /\ ToSet(Names(rows)) = TablesOf(rows)
  BY NamesAre
<1>2. Sorted(Names(rows)) = L
  BY <1>1, SortedIs
<1>3. TablesOf(rows) \in SUBSET Table
  <2>1. \A s \in Seq(Table) : \A i \in DOMAIN s : s[i] \in Table
    OBVIOUS
  <2> QED
    BY <1>1, <2>1 DEF ToSet
<1>4. L \in Seq(Table)
  BY <1>3, ListedIs
<1> HIDE DEF L
<1>5. \A i \in DOMAIN L : L[i] \in Table
  BY <1>4
<1>6. Inspect(rows) = [i \in DOMAIN L |-> [name |-> L[i], columns |-> ColumnsOf(rows, L[i])]]
  BY <1>2 DEF Inspect
<1>7. Inspect(rows) = Map(Entry(rows), L)
  BY <1>5, <1>6 DEF Map, Entry
<1> QED
  BY <1>3, <1>7 DEF L

\* The rows of A, of those the rows of B.
LEMMA RowsOfRows ==
    ASSUME NEW rows \in Seq(Rows), NEW A, NEW B
    PROVE  RowsOf(RowsOf(rows, A), B) = RowsOf(rows, A \cap B)
<1> DEFINE U(X) == {r \in Rows : r.table \in X}
<1>1. \A X : \A s \in Seq(Rows) : RowsOf(s, X) = Kept(s, U(X)) /\ RowsOf(s, X) \in Seq(Rows)
  BY RowsOfIs
<1>2. U(A) \cap U(B) = U(A \cap B)
  OBVIOUS
<1>3. Kept(Kept(rows, U(A)), U(B)) = Kept(rows, U(A) \cap U(B))
  <2> HIDE DEF U
  <2> QED
    BY KeptKept
<1> HIDE DEF U
<1>4. RowsOf(RowsOf(rows, A), B) = Kept(Kept(rows, U(A)), U(B))
  BY <1>1
<1> QED
  BY <1>1, <1>2, <1>3, <1>4

\* The tables of the rows of A are those of A.
LEMMA TablesOfRows ==
    ASSUME NEW rows \in Seq(Rows), NEW A
    PROVE  TablesOf(RowsOf(rows, A)) = TablesOf(rows) \cap A
<1> DEFINE part == RowsOf(rows, A)
<1>1. part \in Seq(Rows) /\ part = Kept(rows, {r \in Rows : r.table \in A})
  BY RowsOfIs
<1> HIDE DEF part
<1>2. ToSet(part) = ToSet(rows) \cap {r \in Rows : r.table \in A}
  BY <1>1, KeptSet
<1>3. ASSUME NEW s \in Seq(Rows) PROVE TablesOf(s) = {r.table : r \in ToSet(s)}
  <2>1. DOMAIN Map(TableOf, s) = DOMAIN s
        /\ \A i \in DOMAIN s : Map(TableOf, s)[i] = s[i].table
    <3>1. \A i \in DOMAIN s : s[i] \in Rows
      OBVIOUS
    <3> QED
      BY <3>1, RowIs DEF Map
  <2> QED
    BY <2>1 DEF TablesOf, ToSet
<1>4. ToSet(rows) \subseteq Rows
  BY DEF ToSet
<1>5. /\ TablesOf(part) = {r.table : r \in ToSet(part)}
      /\ TablesOf(rows) = {r.table : r \in ToSet(rows)}
  BY <1>1, <1>3
<1> QED
  BY <1>2, <1>4, <1>5 DEF part

\* The page's selection of the outline is the outline of the selection.
LEMMA SelectionIs ==
    ASSUME NEW rows \in Seq(Rows), NEW A
    PROVE  SchemaOfSelection(Inspect(rows), A) = SchemaString(Inspect(RowsOf(rows, A)))
<1> DEFINE T == TablesOf(rows)
           L == Listed(T)
           part == RowsOf(rows, A)
           I == {i \in DOMAIN L : L[i] \in A}
           M == Listed(T \cap A)
<1>1. T \in SUBSET Table /\ Inspect(rows) = Map(Entry(rows), L)
  BY InspectIs
<1>2. part \in Seq(Rows) /\ TablesOf(part) = T \cap A
  BY RowsOfIs, TablesOfRows
<1>3. Inspect(part) = Map(Entry(part), M)
  BY <1>2, InspectIs
<1>4. L \in Seq(Table) /\ DOMAIN L = 1 .. Len(L) /\ \A i \in DOMAIN L : L[i] \in Table
  BY <1>1, ListedIs
<1>5. M \in Seq(T \cap A)
  <2>1. T \cap A \in SUBSET Table
    BY <1>1
  <2> QED
    BY <2>1, ListedIs
<1> HIDE DEF T, L, part
<1>6. {i \in DOMAIN Inspect(rows) : Inspect(rows)[i].name \in A} = I
  <2>1. DOMAIN Inspect(rows) = DOMAIN L /\ \A i \in DOMAIN L : Inspect(rows)[i].name = L[i]
    BY <1>1, <1>4 DEF Map, Entry
  <2> QED
    BY <2>1
<1>7. Picked(Inspect(rows), I) = Map(Entry(rows), Picked(L, I))
  <2> HIDE DEF I
  <2> QED
    BY <1>1, <1>4, PickedMap
<1>8. Picked(L, I) = M
  <2>1. Picked(L, I) = Kept(L, A)
    BY DEF Kept
  <2>2. L = Kept([n \in Table |-> n], T) /\ M = Kept([n \in Table |-> n], T \cap A)
    BY DEF Listed, L
  <2>3. [n \in Table |-> n] \in Seq(Table)
    BY TablesAssumption DEF Table
  <2> HIDE DEF M, I
  <2> QED
    BY <2>1, <2>2, <2>3, KeptKept
<1>9. ASSUME NEW t \in T \cap A PROVE Entry(part)[t] = Entry(rows)[t]
  <2>1. RowsOf(part, {t}) = RowsOf(rows, {t})
    <3>1. RowsOf(part, {t}) = RowsOf(rows, A \cap {t})
      BY RowsOfRows DEF part
    <3>2. A \cap {t} = {t}
      OBVIOUS
    <3> QED
      BY <3>1, <3>2
  <2>2. ColumnsOf(part, t) = ColumnsOf(rows, t)
    BY <1>2, <2>1, ColumnsAre
  <2>3. t \in Table
    BY <1>1
  <2> QED
    BY <2>2, <2>3 DEF Entry
<1>10. Map(Entry(part), M) = Map(Entry(rows), M)
  <2>1. \A i \in DOMAIN M : M[i] \in T \cap A
    BY <1>5
  <2>2. \A i \in DOMAIN M : Entry(part)[M[i]] = Entry(rows)[M[i]]
    BY <1>9, <2>1
  <2> HIDE DEF M
  <2> QED
    BY <2>2 DEF Map
<1>11. Picked(Inspect(rows), {i \in DOMAIN Inspect(rows) : Inspect(rows)[i].name \in A})
           = Inspect(part)
  BY <1>3, <1>6, <1>7, <1>8, <1>10
<1> QED
  BY <1>11 DEF SchemaOfSelection, part

-----------------------------------------------------------------------------
(* The rows, table by table. *)

Joins(g, seqs, S) ==
    /\ g \in [0 .. Len(seqs) -> Seq(S)]
    /\ g[0] = <<>>
    /\ \A n \in 1 .. Len(seqs) : g[n] = g[n - 1] \o seqs[n]

\* FlattenSeq joins one sequence after the other.
LEMMA FlattenIs ==
    ASSUME NEW S, NEW seqs \in Seq(Seq(S))
    PROVE  \E g : Joins(g, seqs, S) /\ FlattenSeq(seqs) = g[Len(seqs)]
<1> DEFINE m == Len(seqs)
           F == [p \in (1 .. m) \X Seq(S) |-> p[2] \o seqs[p[1]]]
           body(g, n) == IF n = 1 THEN seqs[n] ELSE g[n - 1] \o seqs[n]
<1>0. /\ m \in Nat /\ 0 \in Nat /\ 0 <= m /\ <<>> \in Seq(S) /\ m \in 0 .. m /\ 0 \in 0 .. m
      /\ \A n \in 1 .. m : seqs[n] \in Seq(S)
  OBVIOUS
<1>1. F \in [(1 .. m) \X Seq(S) -> Seq(S)]
  <2>1. \A n \in 1 .. m, x \in Seq(S) : x \o seqs[n] \in Seq(S)
    BY <1>0, ConcatProperties
  <2> HIDE DEF m
  <2> QED
    BY <2>1
<1>2. PICK g : Iterates(g, m, Seq(S), <<>>, F)
  <2> HIDE DEF F, m
  <2> QED
    BY <1>0, <1>1, Iteration
<1>3. /\ g \in [0 .. m -> Seq(S)] /\ g[0] = <<>>
      /\ \A n \in 1 .. m : g[n] = F[<<n, g[n - 1]>>]
  BY <1>2 DEF Iterates
<1>4. ASSUME NEW n \in 1 .. m PROVE g[n] = g[n - 1] \o seqs[n]
  <2>1. n - 1 \in 0 .. m
    BY <1>0
  <2>2. <<n, g[n - 1]>> \in (1 .. m) \X Seq(S)
    <3>1. g[n - 1] \in Seq(S)
      BY <1>3, <2>1
    <3> QED
      BY <3>1
  <2>3. F[<<n, g[n - 1]>>] = g[n - 1] \o seqs[n]
    <3> HIDE DEF m
    <3> QED
      BY <2>2
  <2> HIDE DEF F, m
  <2> QED
    BY <1>3, <2>3
<1>5. Joins(g, seqs, S)
  BY <1>3, <1>4 DEF Joins
<1>6. CASE m = 0
  <2>1. seqs = <<>> /\ FlattenSeq(seqs) = seqs
    BY <1>6 DEF FlattenSeq
  <2> QED
    BY <1>3, <1>5, <1>6, <2>1
<1>7. CASE m # 0
  <2> DEFINE Q(h) == h = [n \in 1 .. m |-> body(h, n)]
             flatten == CHOOSE h : Q(h)
             f == [n \in 1 .. m |-> g[n]]
  <2>1. \A n \in 1 .. m : f[n] = body(f, n)
    <3> SUFFICES ASSUME NEW n \in 1 .. m PROVE f[n] = body(f, n)
      OBVIOUS
    <3>1. f[n] = g[n - 1] \o seqs[n] /\ seqs[n] \in Seq(S)
      BY <1>0, <1>4
    <3>2. CASE n = 1
      <4>1. g[n - 1] = <<>>
        BY <1>3, <3>2
      <4>2. <<>> \o seqs[n] = seqs[n]
        BY <3>1, ConcatEmptySeq
      <4> HIDE DEF f, m
      <4> QED
        BY <3>1, <3>2, <4>1, <4>2
    <3>3. CASE n # 1
      <4>1. n - 1 \in 1 .. m
        BY <1>0, <3>3
      <4>2. f[n - 1] = g[n - 1]
        BY <4>1
      <4> HIDE DEF f, m
      <4> QED
        BY <3>1, <3>3, <4>2
    <3> QED
      BY <3>2, <3>3
  <2>2. Q(f)
    <3>1. f = [n \in 1 .. m |-> f[n]]
      OBVIOUS
    <3> HIDE DEF f, body, m
    <3> QED
      BY <2>1, <3>1
  <2>3. Q(flatten)
    <3> HIDE DEF Q
    <3> QED
      BY <2>2
  <2>4. FlattenSeq(seqs) = flatten[m]
    BY <1>7 DEF FlattenSeq
  <2> HIDE DEF flatten
  <2>5. \A n \in 1 .. m : flatten[n] = body(flatten, n)
    <3> HIDE DEF body, m
    <3> QED
      BY <2>3
  <2> DEFINE E == {n \in 1 .. m : flatten[n] = f[n]}
  <2>6. 1 \in 1 .. m /\ 1 \in Nat /\ 1 <= m /\ m \in 1 .. m
    BY <1>0, <1>7
  <2>7. 1 \in E
    <3> HIDE DEF f, m
    <3> QED
      BY <2>1, <2>5, <2>6
  <2>8. ASSUME NEW n \in 1 .. m, n \in E, n < m PROVE n + 1 \in E
    <3>1. n + 1 \in 1 .. m /\ n + 1 # 1 /\ n + 1 - 1 = n
      BY <1>0, <2>8
    <3> HIDE DEF f, m
    <3> QED
      BY <2>1, <2>5, <2>8, <3>1
  <2>9. 1 .. m \subseteq E
    <3> HIDE DEF E, m
    <3> QED
      BY <1>0, <2>6, <2>7, <2>8, UpTo
  <2>10. flatten[m] = f[m] /\ f[m] = g[m]
    BY <2>6, <2>9
  <2> QED
    BY <1>5, <2>4, <2>10
<1> QED
  BY <1>6, <1>7

\* An entry of the outline lists the rows of its table.
LEMMA ListedRows ==
    ASSUME NEW rows \in Seq(Rows), NEW t \in Table
    PROVE  [i \in DOMAIN ColumnsOf(rows, t) |->
               [table |-> t, column |-> ColumnsOf(rows, t)[i]]] = RowsOf(rows, {t})
<1> DEFINE own == RowsOf(rows, {t})
<1>1. own \in Seq(Rows) /\ ToSet(own) \subseteq {r \in Rows : r.table \in {t}}
  <2> DEFINE U == {r \in Rows : r.table \in {t}}
  <2>1. own = Kept(rows, U) /\ own \in Seq(Rows)
    BY RowsOfIs
  <2> HIDE DEF own, U
  <2>2. ToSet(Kept(rows, U)) = ToSet(rows) \cap U
    BY KeptSet
  <2>3. ToSet(own) \subseteq U
    BY <2>1, <2>2
  <2> QED
    BY <2>1, <2>3 DEF U
<1>2. ColumnsOf(rows, t) = Map(ColumnOf, own)
  BY ColumnsAre
<1> HIDE DEF own
<1>3. \A i \in DOMAIN own : own[i] \in Rows /\ own[i].table = t
  BY <1>1 DEF ToSet
<1>4. DOMAIN Map(ColumnOf, own) = DOMAIN own
      /\ \A i \in DOMAIN own : Map(ColumnOf, own)[i] = own[i].column
  BY <1>3, RowIs DEF Map
<1>5. \A i \in DOMAIN own : [table |-> t, column |-> own[i].column] = own[i]
  BY <1>3, RowIs
<1>6. own = [i \in DOMAIN own |-> own[i]]
  BY <1>1
<1>7. [i \in DOMAIN own |-> [table |-> t, column |-> Map(ColumnOf, own)[i]]] = own
  BY <1>4, <1>5, <1>6
<1> QED
  BY <1>2, <1>4, <1>7 DEF own

\* A table without a row has no rows.
LEMMA NoRows ==
    ASSUME NEW rows \in Seq(Rows)
    PROVE  /\ RowsOf(rows, {}) = <<>>
           /\ \A n : n \notin TablesOf(rows) => RowsOf(rows, {n}) = <<>>
<1>1. RowsOf(rows, {}) = <<>>
  <2>1. RowsOf(rows, {}) = Kept(rows, {r \in Rows : r.table \in {}})
    BY RowsOfIs
  <2>2. {r \in Rows : r.table \in {}} = {}
    OBVIOUS
  <2>3. Kept(rows, {}) = <<>>
    BY KeptAllOrNone
  <2> QED
    BY <2>1, <2>2, <2>3
<1>2. ASSUME NEW n, n \notin TablesOf(rows), RowsOf(rows, {n}) # <<>> PROVE FALSE
  <2> DEFINE part == RowsOf(rows, {n})
  <2>1. part \in Seq(Rows) /\ TablesOf(part) = TablesOf(rows) \cap {n}
    BY RowsOfIs, TablesOfRows
  <2> HIDE DEF part
  <2>2. 1 \in DOMAIN part
    <3>1. part # <<>>
      BY <1>2 DEF part
    <3> QED
      BY <2>1, <3>1
  <2>3. Map(TableOf, part)[1] \in TablesOf(part)
    BY <2>2 DEF Map, TablesOf, ToSet
  <2> QED
    BY <1>2, <2>1, <2>3
<1> QED
  BY <1>1, <1>2

\* The rows of each table of L.
ByTable(rows, L) == [i \in DOMAIN L |-> RowsOf(rows, {L[i]})]

\* Listing the tables one after the other lists every row of each, and no other.
LEMMA AllRows ==
    ASSUME NEW rows \in Seq(Rows), NEW L, L = Listed(TablesOf(rows)), NEW n \in Table
    PROVE  RowsOf(FlattenSeq(ByTable(rows, L)), {n}) = RowsOf(rows, {n})
<1> DEFINE T == TablesOf(rows)
           seqs == ByTable(rows, L)
           m == Len(seqs)
           own == RowsOf(rows, {n})
           Listing(k) == \E i \in 1 .. k : L[i] = n
<1>1. T \in SUBSET Table
  BY InspectIs
<1>2. L \in Seq(Table) /\ L \in Seq(Nat) /\ Ascends(L) /\ ToSet(L) = T
  BY <1>1, ListedIs
<1>3. \A i \in DOMAIN L : RowsOf(rows, {L[i]}) \in Seq(Rows)
  BY RowsOfIs
<1>4. /\ seqs \in Seq(Seq(Rows)) /\ m = Len(L) /\ m \in Nat /\ DOMAIN L = 1 .. m
      /\ \A i \in 1 .. m : seqs[i] = RowsOf(rows, {L[i]}) /\ seqs[i] \in Seq(Rows)
  <2>1. DOMAIN L = 1 .. Len(L) /\ Len(L) \in Nat
    BY <1>2
  <2>2. seqs \in Seq(Seq(Rows)) /\ m = Len(L)
    BY <1>3, <2>1 DEF ByTable
  <2> QED
    BY <1>3, <2>1, <2>2 DEF ByTable
<1>5. \A i, j \in 1 .. m : L[i] = L[j] => i = j
  <2>1. IsInjective(L)
    BY <1>2, AscendsIsInjective
  <2> QED
    BY <1>4, <2>1 DEF IsInjective
<1> HIDE DEF seqs
<1>6. PICK g : Joins(g, seqs, Rows) /\ FlattenSeq(seqs) = g[m]
  BY <1>4, FlattenIs
<1>7. /\ g \in [0 .. m -> Seq(Rows)] /\ g[0] = <<>>
      /\ \A k \in 1 .. m : g[k] = g[k - 1] \o seqs[k]
  BY <1>6 DEF Joins
<1> HIDE DEF m
<1> DEFINE K == {k \in 0 .. m : RowsOf(g[k], {n}) = IF Listing(k) THEN own ELSE <<>>}
<1>8. 0 \in K
  <2>1. <<>> \in Seq(Rows)
    OBVIOUS
  <2>2. RowsOf(<<>>, {n}) = <<>>
    <3>1. RowsOf(<<>>, {n}) = Kept(<<>>, {r \in Rows : r.table \in {n}})
      BY <2>1, RowsOfIs
    <3> QED
      BY <3>1, KeptNone
  <2>3. ~Listing(0)
    OBVIOUS
  <2>4. 0 \in 0 .. m
    BY <1>4
  <2> HIDE DEF Listing, own
  <2> QED
    BY <1>7, <2>2, <2>3, <2>4
<1>9. ASSUME NEW k \in 0 .. m, k \in K, k < m PROVE k + 1 \in K
  <2>1. k + 1 \in 0 .. m /\ k + 1 \in 1 .. m /\ k + 1 - 1 = k /\ k \in Nat
    BY <1>4, <1>9
  <2>2. g[k + 1] = g[k] \o seqs[k + 1] /\ g[k] \in Seq(Rows) /\ seqs[k + 1] \in Seq(Rows)
    <3>1. g[k + 1] = g[k] \o seqs[k + 1]
      <4>1. PICK j \in 1 .. m : j = k + 1 /\ j - 1 = k
        BY <2>1
      <4>2. g[j] = g[j - 1] \o seqs[j]
        BY <1>7
      <4> QED
        BY <4>1, <4>2
    <3>2. g[k] \in Seq(Rows)
      BY <1>7, <1>9
    <3> QED
      BY <1>4, <2>1, <3>1, <3>2
  <2> DEFINE t == L[k + 1]
             U == {r \in Rows : r.table \in {n}}
  <2>3. RowsOf(g[k + 1], {n}) = RowsOf(g[k], {n}) \o RowsOf(seqs[k + 1], {n})
    <3>1. g[k] \o seqs[k + 1] \in Seq(Rows)
      BY <2>2, ConcatProperties
    <3>2. \A s \in Seq(Rows) : RowsOf(s, {n}) = Kept(s, U)
      BY RowsOfIs
    <3> HIDE DEF U
    <3>3. \A r, s \in Seq(Rows) : Kept(r \o s, U) = Kept(r, U) \o Kept(s, U)
      BY KeptConcat
    <3>4. /\ RowsOf(g[k] \o seqs[k + 1], {n}) = Kept(g[k] \o seqs[k + 1], U)
          /\ RowsOf(g[k], {n}) = Kept(g[k], U)
          /\ RowsOf(seqs[k + 1], {n}) = Kept(seqs[k + 1], U)
      BY <2>2, <3>1, <3>2
    <3>5. Kept(g[k] \o seqs[k + 1], U) = Kept(g[k], U) \o Kept(seqs[k + 1], U)
      BY <2>2, <3>3
    <3>6. g[k + 1] = g[k] \o seqs[k + 1]
      BY <2>2
    <3> HIDE DEF m, K
    <3> QED
      BY <3>4, <3>5, <3>6
  <2>4. RowsOf(seqs[k + 1], {n}) = RowsOf(rows, {t} \cap {n})
    <3>1. seqs[k + 1] = RowsOf(rows, {t})
      BY <1>4, <2>1
    <3>2. \A A, B : RowsOf(RowsOf(rows, A), B) = RowsOf(rows, A \cap B)
      BY RowsOfRows
    <3> QED
      BY <3>1, <3>2
  <2>5. own \in Seq(Rows)
    BY RowsOfIs
  <2>6. own \o <<>> = own /\ <<>> \o own = own /\ <<>> \o <<>> = <<>>
    <3> HIDE DEF own
    <3> QED
      BY <2>5, ConcatEmptySeq
  <2>7. RowsOf(g[k], {n}) = IF Listing(k) THEN own ELSE <<>>
    BY <1>9
  <2>8. Listing(k + 1) <=> Listing(k) \/ t = n
    <3>1. \A i \in 1 .. k + 1 : i \in 1 .. k \/ i = k + 1
      BY <2>1
    <3>2. k + 1 \in 1 .. k + 1 /\ \A i \in 1 .. k : i \in 1 .. k + 1
      BY <2>1
    <3> QED
      BY <3>1, <3>2
  <2>9. t = n => ~Listing(k)
    <3> SUFFICES ASSUME NEW i \in 1 .. k, L[i] = L[k + 1] PROVE FALSE
      OBVIOUS
    <3>1. i \in 1 .. m /\ i # k + 1
      BY <1>4, <1>9, <2>1
    <3> QED
      BY <1>5, <2>1, <3>1
  <2>10. RowsOf(rows, {}) = <<>>
    BY NoRows
  <2>11. CASE t = n
    <3>1. RowsOf(seqs[k + 1], {n}) = own
      <4>1. {t} \cap {n} = {n}
        BY <2>11
      <4> QED
        BY <2>4, <4>1
    <3> HIDE DEF own, Listing
    <3> QED
      BY <2>1, <2>3, <2>6, <2>7, <2>8, <2>9, <2>11, <3>1
  <2>12. CASE t # n
    <3>1. RowsOf(seqs[k + 1], {n}) = <<>>
      <4>1. {t} \cap {n} = {}
        BY <2>12
      <4> QED
        BY <2>4, <2>10, <4>1
    <3> HIDE DEF own, Listing
    <3> QED
      BY <2>1, <2>3, <2>6, <2>7, <2>8, <2>12, <3>1
  <2> QED
    BY <2>11, <2>12
<1>10. 0 .. m \subseteq K
  <2>1. 0 \in Nat /\ 0 <= m
    BY <1>4
  <2> HIDE DEF K
  <2> QED
    BY <1>4, <1>8, <1>9, <2>1, UpTo
<1>11. RowsOf(g[m], {n}) = IF Listing(m) THEN own ELSE <<>>
  <2>1. m \in 0 .. m
    BY <1>4
  <2> HIDE DEF Listing, own
  <2> QED
    BY <1>10, <2>1
<1>12. Listing(m) <=> n \in T
  <2>1. T = {L[i] : i \in 1 .. m}
    BY <1>2, <1>4 DEF ToSet
  <2> HIDE DEF T
  <2> QED
    BY <2>1
<1>13. n \notin T => own = <<>>
  BY NoRows
<1>14. RowsOf(FlattenSeq(seqs), {n}) = own
  <2> HIDE DEF Listing, own, T
  <2> QED
    BY <1>6, <1>11, <1>12, <1>13 DEF m
<1> QED
  BY <1>14 DEF seqs

\* However many rows the catalogue has, and however those of different tables
\* are mixed, the outline has each table once, in order, with its own rows, and
\* what is sent of a selection is the outline of the selected tables.
THEOREM OutlineIsWholeCorrect == Spec => []OutlineIsWhole
<1>1. ASSUME NEW rows \in Seq(Rows), NEW L, L = Listed(TablesOf(rows))
      PROVE  LET tables == Inspect(rows)
                 listed(t) == [i \in DOMAIN t.columns |->
                                  [table |-> t.name, column |-> t.columns[i]]]
                 all == FlattenSeq([i \in DOMAIN tables |-> listed(tables[i])])
             IN  /\ \A i, j \in DOMAIN tables : i < j => tables[i].name < tables[j].name
                 /\ \A n \in 1 .. Tables : RowsOf(all, {n}) = RowsOf(rows, {n})
  <2> DEFINE tables == Inspect(rows)
             listed(t) == [i \in DOMAIN t.columns |->
                              [table |-> t.name, column |-> t.columns[i]]]
  <2>1. tables = Map(Entry(rows), L) /\ TablesOf(rows) \in SUBSET Table
    BY <1>1, InspectIs
  <2>2. L \in Seq(Table) /\ Ascends(L) /\ DOMAIN L = 1 .. Len(L)
    BY <1>1, <2>1, ListedIs
  <2> HIDE DEF tables
  <2>3. /\ DOMAIN tables = DOMAIN L
        /\ \A i \in DOMAIN L : L[i] \in Table /\ tables[i].name = L[i]
                               /\ tables[i].columns = ColumnsOf(rows, L[i])
    <3>1. \A i \in DOMAIN L : L[i] \in Table
      BY <2>2
    <3> QED
      BY <2>1, <3>1 DEF Map, Entry
  <2>4. \A i, j \in DOMAIN tables : i < j => tables[i].name < tables[j].name
    BY <2>2, <2>3 DEF Ascends
  <2>5. \A i \in DOMAIN L : listed(tables[i]) = RowsOf(rows, {L[i]})
    <3> SUFFICES ASSUME NEW i \in DOMAIN L PROVE listed(tables[i]) = RowsOf(rows, {L[i]})
      OBVIOUS
    <3>1. L[i] \in Table /\ tables[i].name = L[i] /\ tables[i].columns = ColumnsOf(rows, L[i])
      BY <2>3
    <3>2. listed(tables[i]) = [k \in DOMAIN ColumnsOf(rows, L[i]) |->
                                  [table |-> L[i], column |-> ColumnsOf(rows, L[i])[k]]]
      BY <3>1
    <3> HIDE DEF listed
    <3> QED
      BY <3>1, <3>2, ListedRows
  <2>6. [i \in DOMAIN tables |-> listed(tables[i])] = ByTable(rows, L)
    <3> HIDE DEF listed
    <3> QED
      BY <2>3, <2>5 DEF ByTable
  <2>7. ASSUME NEW n \in 1 .. Tables
        PROVE  RowsOf(FlattenSeq([i \in DOMAIN tables |-> listed(tables[i])]), {n})
                   = RowsOf(rows, {n})
    <3>1. n \in Table
      BY DEF Table
    <3>2. RowsOf(FlattenSeq(ByTable(rows, L)), {n}) = RowsOf(rows, {n})
      <4> HIDE DEF listed
      <4> QED
        BY <1>1, <3>1, AllRows
    <3> HIDE DEF listed
    <3> QED
      BY <2>6, <3>2
  <2> QED
    BY <2>4, <2>7 DEF tables
<1>2. InputInv => OutlineIsWhole
  <2> SUFFICES ASSUME InputInv, IsSchema PROVE OutlineIsWhole
    BY DEF OutlineIsWhole
  <2>1. input.rows \in Seq(Rows)
    BY DEF InputInv, IsSchema, QueryInput, VersionInput, SchemaInput, ErrorInput, ShapeInput
  <2>2. SelectionIsOutline
    BY <2>1, SelectionIs DEF SelectionIsOutline
  <2> QED
    BY <1>1, <2>1, <2>2 DEF OutlineIsWhole
<1> QED
  BY <1>2, InputCorrect, PTL

-----------------------------------------------------------------------------
(* Counting the values in a text. *)

\* Where the values are that Shape is to drop.
Values(s) == {i \in DOMAIN s : s[i] = "value"}
Count(s) == Cardinality(Values(s))

\* A set that a function pairs off with another has as many members.
LEMMA PairedOff ==
    ASSUME NEW A, NEW B, IsFiniteSet(A), NEW f \in [A -> B],
           \A x, y \in A : f[x] = f[y] => x = y,
           \A z \in B : \E x \in A : f[x] = z
    PROVE  IsFiniteSet(B) /\ Cardinality(B) = Cardinality(A)
<1>1. f \in Bijection(A, B)
  BY DEF Bijection, Injection, Surjection, IsInjective
<1>2. ExistsBijection(A, B)
  BY <1>1 DEF ExistsBijection
<1> QED
  BY <1>2, FS_Bijection

\* A text has finitely many values, and positions.
LEMMA CountIs ==
    ASSUME NEW S, NEW s \in Seq(S)
    PROVE  /\ IsFiniteSet(DOMAIN s) /\ IsFiniteSet(Values(s)) /\ Count(s) \in Nat
           /\ Values(s) \subseteq DOMAIN s
<1>1. DOMAIN s = 1 .. Len(s) /\ Len(s) \in Nat
  OBVIOUS
<1>2. IsFiniteSet(DOMAIN s)
  BY <1>1, FS_Interval
<1>3. Values(s) \in SUBSET (DOMAIN s)
  BY DEF Values
<1>4. IsFiniteSet(Values(s))
  BY <1>2, <1>3, FS_Subset
<1> QED
  BY <1>2, <1>3, <1>4, FS_CardinalityType DEF Count

\* Nothing has no values.
LEMMA CountNone == Count(<<>>) = 0
<1>1. Values(<<>>) = {}
  BY DEF Values
<1> QED
  BY <1>1, FS_EmptySet DEF Count

\* One more symbol is one more value, or none.
LEMMA CountAppend ==
    ASSUME NEW S, NEW s \in Seq(S), NEW x \in S
    PROVE  /\ Values(Append(s, x)) = IF x = "value" THEN Values(s) \cup {Len(s) + 1} ELSE Values(s)
           /\ Count(Append(s, x)) = Count(s) + (IF x = "value" THEN 1 ELSE 0)
<1> DEFINE t == Append(s, x)
<1>1. /\ DOMAIN t = 1 .. Len(s) + 1 /\ t[Len(s) + 1] = x
      /\ \A i \in 1 .. Len(s) : t[i] = s[i]
      /\ DOMAIN s = 1 .. Len(s) /\ Len(s) \in Nat
  BY AppendSeen
<1>2. IsFiniteSet(Values(s)) /\ Count(s) \in Nat
  BY CountIs
<1> HIDE DEF t
<1>3. Values(t) = IF x = "value" THEN Values(s) \cup {Len(s) + 1} ELSE Values(s)
  BY <1>1 DEF Values
<1>4. Len(s) + 1 \notin Values(s)
  BY <1>1 DEF Values
<1>5. CASE x = "value"
  BY <1>2, <1>3, <1>4, <1>5, FS_AddElement DEF Count, t
<1>6. CASE x # "value"
  BY <1>2, <1>3, <1>6 DEF Count, t
<1> QED
  BY <1>5, <1>6

\* The values of two texts, one after the other.
LEMMA CountConcat ==
    ASSUME NEW S, NEW r \in Seq(S), NEW t \in Seq(S)
    PROVE  Count(r \o t) = Count(r) + Count(t)
<1> DEFINE P == {s \in Seq(S) : Count(r \o s) = Count(r) + Count(s)}
<1>0. Count(r) \in Nat
  BY CountIs
<1>1. <<>> \in P
  <2>1. r \o <<>> = r /\ <<>> \in Seq(S)
    BY ConcatEmptySeq
  <2> QED
    BY <1>0, <2>1, CountNone
<1>2. ASSUME NEW s \in Seq(S), s \in P, NEW x \in S PROVE Append(s, x) \in P
  <2>1. r \o Append(s, x) = Append(r \o s, x) /\ r \o s \in Seq(S) /\ Append(s, x) \in Seq(S)
    BY AppendSeen
  <2>2. Count(Append(s, x)) = Count(s) + (IF x = "value" THEN 1 ELSE 0)
    BY CountAppend
  <2>3. Count(Append(r \o s, x)) = Count(r \o s) + (IF x = "value" THEN 1 ELSE 0)
    BY <2>1, CountAppend
  <2>4. Count(r \o s) = Count(r) + Count(s) /\ Count(s) \in Nat
    BY <1>2, CountIs
  <2>5. Count(r \o Append(s, x)) = Count(r) + Count(Append(s, x))
    <3>1. Count(r \o Append(s, x)) = Count(r \o s) + (IF x = "value" THEN 1 ELSE 0)
      BY <2>1, <2>3
    <3> QED
      BY <1>0, <2>2, <2>4, <3>1
  <2> QED
    BY <2>1, <2>5
<1>3. Seq(S) \subseteq P
  <2> HIDE DEF P
  <2> QED
    BY <1>1, <1>2, ByAppending
<1> QED
  BY <1>3

\* The values that are picked.
LEMMA CountPicked ==
    ASSUME NEW S, NEW I, NEW t \in Seq(S)
    PROVE  Count(Picked(t, I)) = Cardinality(Values(t) \cap I)
<1> DEFINE P == {s \in Seq(S) : Count(Picked(s, I)) = Cardinality(Values(s) \cap I)}
<1>1. <<>> \in P
  <2>1. Values(<<>>) \cap I = {} /\ <<>> \in Seq(S)
    BY DEF Values
  <2> QED
    BY <2>1, CountNone, PickedNone, FS_EmptySet
<1>2. ASSUME NEW s \in Seq(S), s \in P, NEW x \in S PROVE Append(s, x) \in P
  <2> DEFINE n == Len(s) + 1
             A == Values(s) \cap I
  <2>1. Picked(Append(s, x), I) = IF n \in I THEN Append(Picked(s, I), x) ELSE Picked(s, I)
    BY PickedAppend
  <2>2. Values(Append(s, x)) = IF x = "value" THEN Values(s) \cup {n} ELSE Values(s)
    BY CountAppend
  <2>3. Picked(s, I) \in Seq(S) /\ Append(s, x) \in Seq(S)
    BY PickedSeq, AppendSeen
  <2>4. Count(Append(Picked(s, I), x)) = Count(Picked(s, I)) + (IF x = "value" THEN 1 ELSE 0)
    BY <2>3, CountAppend
  <2>5. Count(Picked(s, I)) = Cardinality(A) /\ Count(Picked(s, I)) \in Nat
    BY <1>2, <2>3, CountIs
  <2>6. n \notin Values(s)
    <3>1. Values(s) \subseteq 1 .. Len(s) /\ Len(s) \in Nat
      BY CountIs
    <3> QED
      BY <3>1
  <2>7. IsFiniteSet(A)
    BY CountIs, FS_Intersection
  <2> HIDE DEF P, n
  <2>8. Count(Picked(Append(s, x), I)) = Cardinality(Values(Append(s, x)) \cap I)
    <3>1. CASE x = "value" /\ n \in I
      <4>1. Values(Append(s, x)) \cap I = A \cup {n} /\ n \notin A
        BY <2>2, <2>6, <3>1
      <4>2. Cardinality(A \cup {n}) = Cardinality(A) + 1
        <5> HIDE DEF A
        <5> QED
          BY <2>7, <4>1, FS_AddElement
      <4> HIDE DEF A
      <4> QED
        BY <2>1, <2>4, <2>5, <3>1, <4>1, <4>2
    <3>2. CASE ~(x = "value" /\ n \in I)
      <4>1. Values(Append(s, x)) \cap I = A
        BY <2>2, <2>6, <3>2
      <4>2. Count(Picked(Append(s, x), I)) = Count(Picked(s, I))
        <5>1. CASE n \notin I
          BY <2>1, <5>1
        <5>2. CASE x # "value"
          BY <2>1, <2>4, <2>5, <5>2
        <5> QED
          BY <3>2, <5>1, <5>2
      <4> HIDE DEF A
      <4> QED
        BY <2>5, <4>1, <4>2
    <3> QED
      BY <3>1, <3>2
  <2> QED
    BY <2>3, <2>8 DEF P
<1>3. Seq(S) \subseteq P
  <2> HIDE DEF P
  <2> QED
    BY <1>1, <1>2, ByAppending
<1> QED
  BY <1>3

-----------------------------------------------------------------------------
(* What becomes of a token. *)

\* The symbols of an error's text, and of its skeleton.
Mark == ErrorSymbols \cup {"?", "#"}

\* The value at i of the token that is at a .. b of u goes.
Goes(u, a, b, i) ==
    IF (\E l \in a .. b : u[l] = "=") /\ u[a] # "=" THEN \E l \in a .. i - 1 : u[l] = "="
    ELSE \/ \E l \in a .. b : u[l] = "dot"
         \/ (\E l \in a .. b : u[l] = ":") /\ (\E l \in a .. b : u[l] = "digit")

\* A run of digits hides no value.
LEMMA DigitsCount ==
    ASSUME NEW tok \in Seq(Mark)
    PROVE  WithoutDigits(tok) \in Seq(Mark) /\ Count(WithoutDigits(tok)) = Count(tok)
<1> DEFINE hashed == [i \in DOMAIN tok |-> IF tok[i] = "digit" THEN "#" ELSE tok[i]]
           I == {i \in DOMAIN tok : tok[i] = "digit" => i = 1 \/ tok[i - 1] # "digit"}
<1>1. "#" \in Mark
  BY DEF Mark
<1>2. hashed \in Seq(Mark) /\ DOMAIN hashed = DOMAIN tok
  BY <1>1
<1>3. Values(hashed) \cap I = Values(tok)
  BY DEF Values
<1>4. WithoutDigits(tok) = Picked(hashed, I)
  BY DEF WithoutDigits
<1> HIDE DEF hashed, I
<1> QED
  BY <1>2, <1>3, <1>4, CountPicked, PickedSeq DEF Count

\* The values that are left of a token.
LEMMA TokenCount ==
    ASSUME NEW tok \in Seq(Mark), tok # <<>>
    PROVE  /\ RedactToken(tok) \in Seq(Mark)
           /\ Count(RedactToken(tok)) =
                  Cardinality({i \in Values(tok) : ~Goes(tok, 1, Len(tok), i)})
<1> DEFINE n == Len(tok)
           eqs == {i \in DOMAIN tok : tok[i] = "="}
           Left1 == {i \in Values(tok) : ~Goes(tok, 1, n, i)}
<1>1. DOMAIN tok = 1 .. n /\ n \in Nat /\ 1 \in 1 .. n /\ \A i \in 1 .. n : tok[i] \in Mark
  OBVIOUS
<1>2. <<"?">> \in Seq(Mark) /\ Count(<<"?">>) = 0
  <2>1. "?" \in Mark /\ \A c \in Mark : <<c>> \in Seq(Mark)
    BY DEF Mark
  <2>2. Values(<<"?">>) = {}
    BY DEF Values
  <2> QED
    BY <2>1, <2>2, FS_EmptySet DEF Count
<1>3. CASE eqs # {} /\ 1 \notin eqs
  <2>0. eqs \in SUBSET Nat
    BY <1>1
  <2>1. PICK e \in eqs : e = Min(eqs) /\ \A l \in eqs : e <= l
    <3> HIDE DEF eqs
    <3> QED
      BY <1>3, <2>0, LeastIsMin
  <2>2. e \in 1 .. n /\ tok[e] = "=" /\ tok[1] # "="
    BY <1>1, <1>3, <2>1
  <2> DEFINE head == SubSeq(tok, 1, e)
  <2>3. head \in Seq(Mark) /\ DOMAIN head = 1 .. e /\ \A i \in 1 .. e : head[i] = tok[i]
    <3>1. \A i \in 1 .. e : tok[i] \in Mark /\ 1 + i - 1 = i
      BY <1>1, <2>2
    <3>2. e \in Int /\ 1 \in Int /\ 1 <= e /\ e - 1 + 1 = e
      BY <1>1, <2>2
    <3>3. head \in Seq(Mark) /\ Len(head) = e /\ \A i \in 1 .. e : head[i] = tok[1 + i - 1]
      BY <3>1, <3>2, SubSeqProperties
    <3>4. DOMAIN head = 1 .. Len(head)
      BY <3>3
    <3> QED
      BY <3>1, <3>3, <3>4
  <2>4. RedactToken(tok) = head \o <<"?">>
    BY <1>3, <2>1 DEF RedactToken
  <2> HIDE DEF head
  <2>5. Values(head) = Left1
    <3>1. \A i \in 1 .. n : Goes(tok, 1, n, i) <=> \E l \in 1 .. i - 1 : tok[l] = "="
      BY <2>2 DEF Goes
    <3>2. \A i \in 1 .. n : (\E l \in 1 .. i - 1 : tok[l] = "=") <=> e < i
      <4> SUFFICES ASSUME NEW i \in 1 .. n
                   PROVE  (\E l \in 1 .. i - 1 : tok[l] = "=") <=> e < i
        OBVIOUS
      <4>1. ASSUME NEW l \in 1 .. i - 1, tok[l] = "=" PROVE e < i
        <5>1. l \in eqs /\ l < i /\ l \in Nat
          BY <1>1, <4>1
        <5>2. e <= l /\ e \in Nat
          BY <2>1, <2>2, <5>1
        <5> QED
          BY <5>1, <5>2
      <4>2. ASSUME e < i PROVE e \in 1 .. i - 1
        BY <1>1, <2>2, <4>2
      <4> QED
        BY <2>2, <4>1, <4>2
    <3>3. Values(tok) \subseteq 1 .. n
      BY <1>1 DEF Values
    <3>4. \A i \in 1 .. n : i \in 1 .. e <=> ~(e < i)
      BY <1>1, <2>2
    <3>5. 1 .. e \subseteq 1 .. n
      BY <1>1, <2>2
    <3>6. Left1 = {i \in Values(tok) : i \in 1 .. e}
      BY <3>1, <3>2, <3>3, <3>4
    <3>7. Values(head) = {i \in 1 .. e : tok[i] = "value"}
      BY <2>3 DEF Values
    <3>8. Values(tok) = {i \in 1 .. n : tok[i] = "value"}
      BY <1>1 DEF Values
    <3> HIDE DEF Left1
    <3> QED
      BY <3>5, <3>6, <3>7, <3>8
  <2>6. Count(RedactToken(tok)) = Count(head)
    <3>1. Count(head \o <<"?">>) = Count(head) + Count(<<"?">>) /\ Count(head) \in Nat
      BY <1>2, <2>3, CountConcat, CountIs
    <3> QED
      BY <1>2, <2>4, <3>1
  <2>7. RedactToken(tok) \in Seq(Mark)
    BY <1>2, <2>3, <2>4, ConcatProperties
  <2> HIDE DEF Left1
  <2>8. Count(RedactToken(tok)) = Cardinality(Left1)
    BY <2>5, <2>6 DEF Count
  <2> QED
    BY <2>7, <2>8 DEF Left1
<1>4. CASE ~(eqs # {} /\ 1 \notin eqs)
  <2> DEFINE Given == "dot" \in ToSet(tok) \/ {":", "digit"} \subseteq ToSet(tok)
  <2>1. \A i : Goes(tok, 1, n, i) <=> Given
    <3>1. ~((\E l \in 1 .. n : tok[l] = "=") /\ tok[1] # "=")
      BY <1>1, <1>4
    <3>2. \A c : c \in ToSet(tok) <=> \E l \in 1 .. n : tok[l] = c
      BY <1>1 DEF ToSet
    <3> QED
      BY <3>1, <3>2 DEF Goes
  <2>2. CASE Given
    <3>1. RedactToken(tok) = <<"?">>
      BY <1>4, <2>2 DEF RedactToken
    <3>2. Left1 = {}
      BY <2>1, <2>2
    <3> HIDE DEF Left1
    <3>3. Count(RedactToken(tok)) = Cardinality(Left1)
      BY <1>2, <3>1, <3>2, FS_EmptySet
    <3> QED
      BY <1>2, <3>1, <3>3 DEF Left1
  <2>3. CASE ~Given
    <3>1. RedactToken(tok) = WithoutDigits(tok)
      BY <1>4, <2>3 DEF RedactToken
    <3>2. Left1 = Values(tok)
      BY <2>1, <2>3
    <3> HIDE DEF Left1
    <3>3. Count(RedactToken(tok)) = Cardinality(Left1)
      BY <3>1, <3>2, DigitsCount DEF Count
    <3> QED
      BY <3>1, <3>3, DigitsCount DEF Left1
  <2> QED
    BY <2>2, <2>3
<1> QED
  BY <1>3, <1>4

\* The same, of the token at a .. b of a text.
LEMMA TokenAt ==
    ASSUME NEW u \in Seq(Mark), NEW a \in 1 .. Len(u), NEW b \in a .. Len(u)
    PROVE  /\ RedactToken(SubSeq(u, a, b)) \in Seq(Mark)
           /\ Count(RedactToken(SubSeq(u, a, b))) =
                  Cardinality({i \in a .. b : u[i] = "value" /\ ~Goes(u, a, b, i)})
<1> DEFINE tok == SubSeq(u, a, b)
           n == b - a + 1
           A == {i \in Values(tok) : ~Goes(tok, 1, Len(tok), i)}
           B == {i \in a .. b : u[i] = "value" /\ ~Goes(u, a, b, i)}
<1>0. /\ Len(u) \in Nat /\ a \in Nat /\ b \in Nat /\ a <= b /\ n \in Nat /\ 1 \in 1 .. n
      /\ \A i \in a .. b : u[i] \in Mark
  OBVIOUS
<1>1. tok \in Seq(Mark) /\ Len(tok) = n /\ \A i \in 1 .. n : tok[i] = u[a + i - 1]
  BY <1>0, SubSeqProperties
<1>2. tok # <<>> /\ DOMAIN tok = 1 .. n
  BY <1>0, <1>1
<1>3. RedactToken(tok) \in Seq(Mark) /\ Count(RedactToken(tok)) = Cardinality(A)
  <2> HIDE DEF tok
  <2> QED
    BY <1>1, <1>2, TokenCount
<1> HIDE DEF tok
<1>4. \A i \in 1 .. n : a + i - 1 \in a .. b /\ (a + i - 1) - a + 1 = i
  BY <1>0
<1>5. \A i \in a .. b : i - a + 1 \in 1 .. n /\ a + (i - a + 1) - 1 = i
  BY <1>0
<1>6. \A c : (\E l \in 1 .. n : tok[l] = c) <=> (\E l \in a .. b : u[l] = c)
  <2>1. ASSUME NEW c, NEW l \in 1 .. n, tok[l] = c PROVE \E k \in a .. b : u[k] = c
    BY <1>1, <1>4, <2>1
  <2>2. ASSUME NEW c, NEW l \in a .. b, u[l] = c PROVE \E k \in 1 .. n : tok[k] = c
    <3>1. PICK k \in 1 .. n : k = l - a + 1 /\ a + k - 1 = l
      BY <1>5
    <3> QED
      BY <1>1, <2>2, <3>1
  <2> QED
    BY <2>1, <2>2
<1>7. tok[1] = u[a]
  BY <1>0, <1>1
<1>8. ASSUME NEW i \in 1 .. n
      PROVE  (\E l \in 1 .. i - 1 : tok[l] = "=") <=> (\E l \in a .. (a + i - 1) - 1 : u[l] = "=")
  <2>1. ASSUME NEW l \in 1 .. i - 1, tok[l] = "="
        PROVE  \E k \in a .. (a + i - 1) - 1 : u[k] = "="
    <3>1. PICK k \in a .. (a + i - 1) - 1 : k = a + l - 1
      BY <1>0
    <3>2. l \in 1 .. n
      BY <1>0
    <3> QED
      BY <1>1, <2>1, <3>1, <3>2
  <2>2. ASSUME NEW l \in a .. (a + i - 1) - 1, u[l] = "="
        PROVE  \E k \in 1 .. i - 1 : tok[k] = "="
    <3>1. PICK k \in 1 .. i - 1 : k = l - a + 1 /\ a + k - 1 = l
      BY <1>0
    <3>2. k \in 1 .. n
      BY <1>0
    <3> QED
      BY <1>1, <2>2, <3>1, <3>2
  <2> QED
    BY <2>1, <2>2
<1>9. \A i \in 1 .. n : Goes(tok, 1, n, i) <=> Goes(u, a, b, a + i - 1)
  <2> HIDE DEF n
  <2> QED
    BY <1>6, <1>7, <1>8 DEF Goes
<1> DEFINE f == [i \in A |-> a + i - 1]
<1>10. A = {i \in 1 .. n : tok[i] = "value" /\ ~Goes(tok, 1, n, i)}
  BY <1>1, <1>2 DEF Values
<1> HIDE DEF A
<1>11. \A i \in 1 .. n : i \in A <=> a + i - 1 \in B
  <2> HIDE DEF n
  <2> QED
    BY <1>1, <1>4, <1>9, <1>10
<1>12. B \subseteq a .. b /\ A \subseteq 1 .. n
  BY <1>10
<1> HIDE DEF B
<1>13. f \in [A -> B]
  BY <1>11, <1>12
<1>14. \A x, y \in A : f[x] = f[y] => x = y
  BY <1>0, <1>12
<1>15. ASSUME NEW z \in B PROVE \E x \in A : f[x] = z
  <2>1. PICK x \in 1 .. n : x = z - a + 1 /\ a + x - 1 = z
    BY <1>5, <1>12
  <2>2. x \in A
    BY <1>11, <2>1
  <2> QED
    BY <2>1, <2>2
<1>16. IsFiniteSet(A)
  <2>1. IsFiniteSet(1 .. n)
    BY <1>0, FS_Interval
  <2> QED
    BY <1>12, <2>1, FS_Subset
<1> HIDE DEF f
<1>17. Cardinality(B) = Cardinality(A)
  BY <1>13, <1>14, <1>15, <1>16, PairedOff
<1> QED
  BY <1>3, <1>17 DEF tok, B

-----------------------------------------------------------------------------
(* Joining texts. *)

JoinNext(parts, sep, n, before) ==
    IF n = 1 THEN parts[1] ELSE before \o <<sep>> \o parts[n]

JoinsUp(g, parts, sep, S) ==
    /\ g \in [0 .. Len(parts) -> Seq(S)]
    /\ g[0] = <<>>
    /\ \A n \in 1 .. Len(parts) : g[n] = JoinNext(parts, sep, n, g[n - 1])

\* Texts are joined one after the other.
LEMMA JoinIs ==
    ASSUME NEW S, NEW parts \in Seq(Seq(S)), NEW sep \in S
    PROVE  \E g : JoinsUp(g, parts, sep, S) /\ Join(parts, sep) = g[Len(parts)]
<1> DEFINE m == Len(parts)
           F == [p \in (1 .. m) \X Seq(S) |-> JoinNext(parts, sep, p[1], p[2])]
           body(g, n) == IF n = 0 THEN <<>> ELSE JoinNext(parts, sep, n, g[n - 1])
<1>0. m \in Nat /\ 0 \in Nat /\ 0 <= m /\ <<>> \in Seq(S) /\ 0 \in 0 .. m
  OBVIOUS
<1>1. ASSUME NEW n \in 1 .. m, NEW x \in Seq(S) PROVE JoinNext(parts, sep, n, x) \in Seq(S)
  <2>1. parts[n] \in Seq(S) /\ (n = 1 => parts[1] \in Seq(S)) /\ <<sep>> \in Seq(S)
    OBVIOUS
  <2>2. x \o <<sep>> \in Seq(S)
    BY <2>1, ConcatProperties
  <2>3. (x \o <<sep>>) \o parts[n] \in Seq(S)
    BY <2>1, <2>2, ConcatProperties
  <2> QED
    BY <2>1, <2>3 DEF JoinNext
<1>2. F \in [(1 .. m) \X Seq(S) -> Seq(S)]
  <2>1. \A p \in (1 .. m) \X Seq(S) : JoinNext(parts, sep, p[1], p[2]) \in Seq(S)
    <3> HIDE DEF m
    <3> QED
      BY <1>1
  <2> QED
    BY <2>1
<1>3. PICK g : Iterates(g, m, Seq(S), <<>>, F)
  <2> HIDE DEF F, m
  <2> QED
    BY <1>0, <1>2, Iteration
<1>4. /\ g \in [0 .. m -> Seq(S)] /\ g[0] = <<>>
      /\ \A n \in 1 .. m : g[n] = F[<<n, g[n - 1]>>]
  BY <1>3 DEF Iterates
<1>5. ASSUME NEW n \in 1 .. m PROVE g[n] = JoinNext(parts, sep, n, g[n - 1])
  <2>1. n - 1 \in 0 .. m
    BY <1>0
  <2>2. <<n, g[n - 1]>> \in (1 .. m) \X Seq(S)
    <3>1. g[n - 1] \in Seq(S)
      BY <1>4, <2>1
    <3> QED
      BY <3>1
  <2>3. F[<<n, g[n - 1]>>] = JoinNext(parts, sep, n, g[n - 1])
    <3> HIDE DEF m
    <3> QED
      BY <2>2
  <2> HIDE DEF F, m
  <2> QED
    BY <1>4, <2>3
<1> DEFINE Q(h) == h = [n \in 0 .. m |->
                           IF n = 0 THEN <<>>
                           ELSE IF n = 1 THEN parts[1] ELSE h[n - 1] \o <<sep>> \o parts[n]]
           upTo == CHOOSE h : Q(h)
<1>7. \A h : Q(h) <=> h = [n \in 0 .. m |-> body(h, n)]
  BY DEF JoinNext
<1>8. Q(g)
  <2>1. \A n \in 0 .. m : g[n] = body(g, n)
    <3>1. \A n \in 0 .. m : n = 0 \/ n \in 1 .. m
      BY <1>0
    <3> HIDE DEF m
    <3> QED
      BY <1>4, <1>5, <3>1
  <2>2. g = [n \in 0 .. m |-> g[n]]
    BY <1>4
  <2>3. g = [n \in 0 .. m |-> body(g, n)]
    <3> HIDE DEF body, m
    <3> QED
      BY <2>1, <2>2
  <2> HIDE DEF Q, body, m
  <2> QED
    BY <1>7, <2>3
<1>9. Q(upTo)
  <2> HIDE DEF Q
  <2> QED
    BY <1>8
<1>10. Join(parts, sep) = upTo[m]
  BY DEF Join
<1> HIDE DEF upTo
<1>11. upTo = [n \in 0 .. m |-> body(upTo, n)]
  <2> HIDE DEF Q, body, m
  <2> QED
    BY <1>7, <1>9
<1>12. \A n \in 0 .. m : upTo[n] = body(upTo, n)
  <2> HIDE DEF body, m
  <2> QED
    BY <1>11
<1>13. upTo[0] = <<>>
  BY <1>0, <1>12
<1>14. \A n \in 1 .. m : upTo[n] = JoinNext(parts, sep, n, upTo[n - 1])
  <2>1. \A n \in 1 .. m : n \in 0 .. m /\ n # 0
    BY <1>0
  <2> HIDE DEF m
  <2> QED
    BY <1>12, <2>1
<1> DEFINE E == {n \in 0 .. m : upTo[n] \in Seq(S)}
<1>15. 0 \in E
  BY <1>0, <1>13
<1>16. ASSUME NEW n \in 0 .. m, n \in E, n < m PROVE n + 1 \in E
  <2>1. n + 1 \in 0 .. m
    BY <1>0, <1>16
  <2>2. PICK k \in 1 .. m : k = n + 1 /\ k - 1 = n
    BY <1>0, <1>16
  <2>3. upTo[k] = JoinNext(parts, sep, k, upTo[k - 1])
    <3> HIDE DEF m
    <3> QED
      BY <1>14
  <2>4. upTo[n] \in Seq(S)
    BY <1>16
  <2>5. JoinNext(parts, sep, k, upTo[n]) \in Seq(S)
    <3> HIDE DEF m
    <3> QED
      BY <1>1, <2>4
  <2> QED
    BY <2>1, <2>2, <2>3, <2>5
<1>17. 0 .. m \subseteq E
  <2> HIDE DEF E, m
  <2> QED
    BY <1>0, <1>15, <1>16, UpTo
<1>18. upTo \in [0 .. m -> Seq(S)]
  <2> HIDE DEF body, m
  <2> QED
    BY <1>11, <1>17
<1>19. JoinsUp(upTo, parts, sep, S)
  BY <1>13, <1>14, <1>18 DEF JoinsUp
<1> QED
  BY <1>10, <1>19

\* One more text is joined to the rest.
JoinsOn(s, x, sep) ==
    Join(Append(s, x), sep) = IF s = <<>> THEN x ELSE Join(s, sep) \o <<sep>> \o x

\* It is to every sequence of texts.
LEMMA JoinAppend ==
    ASSUME NEW S, NEW s \in Seq(Seq(S)), NEW x \in Seq(S), NEW sep \in S
    PROVE  Join(s, sep) \in Seq(S) /\ JoinsOn(s, x, sep)
<1> DEFINE t == Append(s, x)
           m == Len(s)
<1>1. /\ t \in Seq(Seq(S)) /\ Len(t) = m + 1 /\ t[m + 1] = x
      /\ \A i \in 1 .. m : t[i] = s[i]
      /\ m \in Nat /\ 0 \in Nat /\ 0 <= m /\ m \in 0 .. m /\ 0 \in 0 .. m
      /\ (s = <<>> <=> m = 0)
  BY AppendSeen
<1> HIDE DEF t
<1>2. PICK g : JoinsUp(g, s, sep, S) /\ Join(s, sep) = g[m]
  BY JoinIs
<1>3. PICK h : JoinsUp(h, t, sep, S) /\ Join(t, sep) = h[m + 1]
  BY <1>1, JoinIs
<1>4. /\ g \in [0 .. m -> Seq(S)] /\ g[0] = <<>>
      /\ \A n \in 1 .. m : g[n] = JoinNext(s, sep, n, g[n - 1])
  BY <1>2 DEF JoinsUp
<1>5. /\ h[0] = <<>>
      /\ \A n \in 1 .. m + 1 : h[n] = JoinNext(t, sep, n, h[n - 1])
  BY <1>1, <1>3 DEF JoinsUp
<1> HIDE DEF m
<1> DEFINE E == {n \in 0 .. m : g[n] = h[n]}
<1>6. 0 \in E
  BY <1>1, <1>4, <1>5
<1>7. ASSUME NEW n \in 0 .. m, n \in E, n < m PROVE n + 1 \in E
  <2>1. n + 1 \in 0 .. m
    BY <1>1, <1>7
  <2>2. PICK k \in 1 .. m : k = n + 1 /\ k - 1 = n /\ k \in 1 .. m + 1 /\ 1 \in 1 .. m
    BY <1>1, <1>7
  <2>3. g[k] = JoinNext(s, sep, k, g[n]) /\ h[k] = JoinNext(t, sep, k, h[n])
    BY <1>4, <1>5, <2>2
  <2>4. t[k] = s[k] /\ t[1] = s[1]
    BY <1>1, <2>2
  <2>5. g[n] = h[n]
    BY <1>7
  <2> QED
    BY <2>1, <2>2, <2>3, <2>4, <2>5 DEF JoinNext
<1>8. 0 .. m \subseteq E
  <2> HIDE DEF E
  <2> QED
    BY <1>1, <1>6, <1>7, UpTo
<1>9. g[m] = h[m] /\ g[m] \in Seq(S)
  BY <1>1, <1>4, <1>8
<1>10. h[m + 1] = JoinNext(t, sep, m + 1, h[m])
  <2>1. PICK k \in 1 .. m + 1 : k = m + 1 /\ k - 1 = m
    BY <1>1
  <2> QED
    BY <1>5, <2>1
<1>11. (m + 1 = 1 <=> s = <<>>) /\ (s = <<>> => t[1] = x)
  BY <1>1
<1>12. Join(t, sep) = IF s = <<>> THEN x ELSE Join(s, sep) \o <<sep>> \o x
  BY <1>1, <1>2, <1>3, <1>9, <1>10, <1>11 DEF JoinNext
<1> QED
  BY <1>2, <1>9, <1>12 DEF t, JoinsOn

\* Nothing is joined of nothing.
LEMMA JoinNone == \A sep : Join(<<>>, sep) = <<>>
<1> SUFFICES ASSUME NEW sep PROVE Join(<<>>, sep) = <<>>
  OBVIOUS
<1>1. <<>> \in Seq(Seq({sep})) /\ Len(<<>>) = 0 /\ sep \in {sep}
  OBVIOUS
<1>2. PICK g : JoinsUp(g, <<>>, sep, {sep}) /\ Join(<<>>, sep) = g[Len(<<>>)]
  BY <1>1, JoinIs
<1> QED
  BY <1>1, <1>2 DEF JoinsUp

\* A separator that is no value adds none.
LEMMA JoinCount ==
    ASSUME NEW S, NEW s \in Seq(Seq(S)), NEW x \in Seq(S), NEW sep \in S, sep # "value"
    PROVE  /\ Count(Join(s, sep)) \in Nat
           /\ Count(Join(Append(s, x), sep)) = Count(Join(s, sep)) + Count(x)
<1> DEFINE J == Join(s, sep)
<1>1. J \in Seq(S) /\ Join(Append(s, x), sep) = IF s = <<>> THEN x ELSE J \o <<sep>> \o x
  <2>1. Join(s, sep) \in Seq(S) /\ JoinsOn(s, x, sep)
    BY JoinAppend
  <2> QED
    BY Zenon, <2>1 DEF JoinsOn
<1>2. Count(x) \in Nat /\ Count(J) \in Nat
  BY <1>1, CountIs
<1>3. CASE s = <<>>
  <2>1. J = <<>>
    BY <1>3, JoinNone
  <2> QED
    BY <1>1, <1>2, <1>3, <2>1, CountNone
<1>4. CASE s # <<>>
  <2>1. <<sep>> \in Seq(S) /\ Count(<<sep>>) = 0
    <3>1. Values(<<sep>>) = {}
      BY DEF Values
    <3>2. Count(<<sep>>) = 0
      BY <3>1, FS_EmptySet DEF Count
    <3> QED
      BY <3>2
  <2> HIDE DEF J
  <2>2. J \o <<sep>> \in Seq(S) /\ Count(J \o <<sep>>) = Count(J) + Count(<<sep>>)
    BY <1>1, <2>1, CountConcat, ConcatProperties
  <2>3. Count((J \o <<sep>>) \o x) = Count(J \o <<sep>>) + Count(x)
    BY <2>2, CountConcat
  <2>4. Count((J \o <<sep>>) \o x) = Count(J) + Count(x)
    BY <1>2, <2>1, <2>2, <2>3
  <2> QED
    BY <1>1, <1>2, <1>4, <2>4 DEF J
<1> QED
  BY <1>3, <1>4

-----------------------------------------------------------------------------
(* Joining what is picked. *)

\* The places of all parts.
Places(own, I) == UNION {own[i] : i \in I}

\* Each of the parts I has as many places as values, and no place is of two.
Owns(own, parts, I) ==
    /\ \A i \in I : IsFiniteSet(own[i]) /\ Cardinality(own[i]) = Count(parts[i])
    /\ \A i, j \in I : i # j => own[i] \cap own[j] = {}

\* The values of a text put together of picked parts are those of the parts:
\* own[i] are the places, apart from all others, where those of part i come from.
LEMMA JoinedCount ==
    ASSUME NEW S, NEW R \in Seq(Seq(S)), NEW I \in SUBSET (DOMAIN R), NEW sep \in S,
           sep # "value", NEW own, Owns(own, R, I)
    PROVE  Count(Join(Picked(R, I), sep)) = Cardinality(Places(own, I))
<1> DEFINE m == Len(R)
           All(n) == UNION {own[i] : i \in {k \in I : k <= n}}
<1>0. m \in Nat /\ 0 \in Nat /\ 0 <= m /\ 0 \in 0 .. m /\ m \in 0 .. m /\ DOMAIN R = 1 .. m
  OBVIOUS
<1>a. /\ \A i \in I : IsFiniteSet(own[i]) /\ Cardinality(own[i]) = Count(R[i])
      /\ \A i, j \in I : i # j => own[i] \cap own[j] = {}
  BY DEF Owns
<1>1. PICK g : Picks(g, R, I, Seq(S)) /\ Picked(R, I) = g[m]
  BY PickedIs
<1>2. /\ g \in [0 .. m -> Seq(Seq(S))] /\ g[0] = <<>>
      /\ \A n \in 1 .. m : g[n] = PickNext(R, I, n, g[n - 1])
  BY <1>1 DEF Picks
<1>3. \A n \in 1 .. m : R[n] \in Seq(S) /\ Count(R[n]) \in Nat
  BY CountIs
<1>b. \A n \in 0 .. m : n < m => n + 1 \in 1 .. m /\ n + 1 \in 0 .. m /\ (n + 1) - 1 = n
  BY <1>0
<1> HIDE DEF m
<1> DEFINE E == {n \in 0 .. m : IsFiniteSet(All(n))
                                /\ Count(Join(g[n], sep)) = Cardinality(All(n))}
<1>4. 0 \in E
  <2>1. All(0) = {}
    BY <1>0
  <2> HIDE DEF All
  <2> QED
    BY Zenon, <1>0, <1>2, <2>1, JoinNone, CountNone, FS_EmptySet
<1>5. ASSUME NEW n \in 0 .. m, n \in E, n < m PROVE n + 1 \in E
  <2>1. PICK k \in 1 .. m : k = n + 1 /\ k - 1 = n /\ k \in 0 .. m
    <3>1. n + 1 \in 1 .. m /\ n + 1 \in 0 .. m /\ (n + 1) - 1 = n
      BY <1>b, <1>5
    <3> HIDE DEF E, All
    <3> QED
      BY <3>1
  <2>2. g[k] = PickNext(R, I, k, g[n]) /\ g[n] \in Seq(Seq(S))
    BY <1>2, <2>1
  <2>3. IsFiniteSet(All(n)) /\ Count(Join(g[n], sep)) = Cardinality(All(n))
    BY <1>5
  <2>4. \A i \in I : i <= k <=> i <= n \/ i = k
    BY <1>0, <2>1
  <2>5. \A i \in I : i <= n => i # k
    BY <1>0, <2>1
  <2>6. CASE k \in I
    <3>1. All(k) = All(n) \cup own[k]
      BY <2>1, <2>4, <2>6
    <3>2. All(n) \cap own[k] = {}
      BY <1>a, <2>5, <2>6
    <3>3. IsFiniteSet(own[k]) /\ Cardinality(own[k]) = Count(R[k])
      BY <1>a, <2>6
    <3>4. g[k] = Append(g[n], R[k])
      BY <2>2, <2>6 DEF PickNext
    <3> HIDE DEF All
    <3>5. Count(Join(Append(g[n], R[k]), sep)) = Count(Join(g[n], sep)) + Count(R[k])
          /\ Count(Join(g[n], sep)) \in Nat
      BY <1>3, <2>2, JoinCount
    <3>6. IsFiniteSet(All(n) \cup own[k])
          /\ Cardinality(All(n) \cup own[k]) = Cardinality(All(n)) + Cardinality(own[k])
      <4>1. \A A, B : IsFiniteSet(A) /\ IsFiniteSet(B) /\ A \cap B = {}
                 => IsFiniteSet(A \cup B) /\ Cardinality(A \cup B) = Cardinality(A) + Cardinality(B)
        <5> SUFFICES ASSUME NEW A, NEW B, IsFiniteSet(A), IsFiniteSet(B), A \cap B = {}
                     PROVE  /\ IsFiniteSet(A \cup B)
                            /\ Cardinality(A \cup B) = Cardinality(A) + Cardinality(B)
          OBVIOUS
        <5>1. Cardinality(A) \in Nat /\ Cardinality(B) \in Nat
          BY FS_CardinalityType
        <5>2. IsFiniteSet(A \cup B)
              /\ Cardinality(A \cup B) = Cardinality(A) + Cardinality(B) - Cardinality(A \cap B)
          BY FS_Union
        <5>3. Cardinality(A \cap B) = 0
          BY FS_EmptySet
        <5> QED
          BY <5>1, <5>2, <5>3
      <4> QED
        BY <2>3, <3>2, <3>3, <4>1
    <3>7. Count(Join(g[k], sep)) = Cardinality(All(k)) /\ IsFiniteSet(All(k))
      BY <2>3, <3>1, <3>3, <3>4, <3>5, <3>6
    <3> QED
      BY <2>1, <3>7
  <2>7. CASE k \notin I
    <3>1. All(k) = All(n)
      BY <2>4, <2>7
    <3>2. g[k] = g[n]
      BY <2>2, <2>7 DEF PickNext
    <3> HIDE DEF All
    <3> QED
      BY <2>1, <2>3, <3>1, <3>2
  <2> QED
    BY <2>6, <2>7
<1>6. 0 .. m \subseteq E
  <2> HIDE DEF E
  <2> QED
    BY <1>0, <1>4, <1>5, UpTo
<1>7. All(m) = Places(own, I)
  BY <1>0 DEF Places
<1> QED
  BY <1>0, <1>1, <1>6, <1>7

-----------------------------------------------------------------------------
(* Tokens. *)

\* Where the run of symbols that begins at i ends, and where runs begin.
RunEnd(u, i) == Max({j \in i - 1 .. Len(u) : \A m \in i .. j : u[m] \notin Space})
Begun(u) == {i \in DOMAIN u : u[i] \notin Space /\ (i = 1 \/ u[i - 1] \in Space)}

\* The token of the symbol at k: what no space parts from it.
Token(u, k) == {l \in DOMAIN u : \A m \in (k .. l) \cup (l .. k) : u[m] \notin Space}

\* A value, a space and the mark of a quote are told apart.
LEMMA MarksAre ==
    "value" \notin Space /\ " " # "value" /\ " " \in Mark /\ "?" \notin Space /\ "?" # "value"
<1>1. "value" \notin Space
  BY Zenon DEF Space
<1>2. " " # "value"
  BY Zenon
<1>3. " " \in Mark
  BY Zenon DEF Mark, ErrorSymbols
<1>4. "?" \notin Space
  BY Zenon DEF Space
<1>5. "?" # "value"
  OBVIOUS
<1> QED
  BY <1>1, <1>2, <1>3, <1>4, <1>5

\* A run goes on as far as it can.
LEMMA RunEndIs ==
    ASSUME NEW u \in Seq(Mark), NEW i \in DOMAIN u
    PROVE  /\ RunEnd(u, i) \in i - 1 .. Len(u)
           /\ \A m \in i .. RunEnd(u, i) : u[m] \notin Space
           /\ \A k \in i .. Len(u) : (\A m \in i .. k : u[m] \notin Space) => k <= RunEnd(u, i)
           /\ RunEnd(u, i) < Len(u) => u[RunEnd(u, i) + 1] \in Space
<1> DEFINE ends == {j \in i - 1 .. Len(u) : \A m \in i .. j : u[m] \notin Space}
<1>1. Len(u) \in Nat /\ i \in 1 .. Len(u) /\ i - 1 \in Nat /\ i \in Nat
  OBVIOUS
<1>2. i - 1 \in ends
  <2>1. i - 1 \in i - 1 .. Len(u) /\ i .. i - 1 = {}
    BY <1>1
  <2> QED
    BY <2>1
<1>3. ends \in SUBSET (i - 1 .. Len(u))
  OBVIOUS
<1>4. ends # {}
  BY <1>2
<1> HIDE DEF ends
<1>5. \E x \in ends : \A y \in ends : y <= x
  BY <1>1, <1>3, <1>4, Greatest
<1>6. \A x, y \in ends : y <= x <=> x >= y
  BY <1>1, <1>3
<1>7. Max(ends) \in ends /\ \A y \in ends : y <= Max(ends)
  <2>1. \E x \in ends : \A y \in ends : x >= y
    BY <1>5, <1>6
  <2> QED
    BY <1>6, <2>1 DEF Max
<1>8. RunEnd(u, i) = Max(ends)
  BY DEF RunEnd, ends
<1> DEFINE e == RunEnd(u, i)
<1>9. e \in ends /\ \A y \in ends : y <= e
  BY <1>7, <1>8
<1> HIDE DEF e
<1>10. e \in i - 1 .. Len(u) /\ \A m \in i .. e : u[m] \notin Space
  BY <1>9 DEF ends
<1>11. \A k \in i .. Len(u) : (\A m \in i .. k : u[m] \notin Space) => k <= e
  <2>1. \A k \in i .. Len(u) : k \in i - 1 .. Len(u)
    BY <1>1
  <2> QED
    BY <1>9, <2>1 DEF ends
<1>12. ASSUME e < Len(u), u[e + 1] \notin Space PROVE FALSE
  <2>1. e + 1 \in i .. Len(u) /\ ~(e + 1 <= e)
    BY <1>1, <1>10, <1>12
  <2>2. \A m \in i .. e + 1 : m \in i .. e \/ m = e + 1
    BY <1>1, <1>10
  <2>3. \A m \in i .. e + 1 : u[m] \notin Space
    BY <1>10, <1>12, <2>2
  <2> QED
    BY <1>11, <2>1, <2>3
<1> QED
  BY <1>10, <1>11, <1>12 DEF e

\* Every symbol that is no space is in a run.
LEMMA InRun ==
    ASSUME NEW u \in Seq(Mark), NEW k \in DOMAIN u, u[k] \notin Space
    PROVE  \E i \in Begun(u) : k \in i .. RunEnd(u, i)
<1> DEFINE S == {i \in 1 .. k : \A m \in i .. k : u[m] \notin Space}
<1>1. Len(u) \in Nat /\ DOMAIN u = 1 .. Len(u) /\ k \in 1 .. Len(u) /\ k \in Nat
  OBVIOUS
<1>2. k \in S
  <2>1. k \in 1 .. k /\ \A m \in k .. k : m = k
    BY <1>1
  <2> QED
    BY <2>1
<1>3. S \in SUBSET Nat
  OBVIOUS
<1>4. PICK i \in S : \A j \in S : i <= j
  <2> HIDE DEF S
  <2> QED
    BY <1>2, <1>3, LeastNatural
<1>5. i \in 1 .. k /\ i \in DOMAIN u /\ \A m \in i .. k : u[m] \notin Space
  BY <1>1, <1>4
<1>6. i \in i .. k /\ u[i] \notin Space
  BY <1>1, <1>5
<1>7. ASSUME i # 1, u[i - 1] \notin Space PROVE FALSE
  <2>1. i - 1 \in 1 .. k /\ ~(i <= i - 1)
    BY <1>1, <1>5, <1>7
  <2>2. \A m \in i - 1 .. k : m \in i .. k \/ m = i - 1
    BY <1>1, <1>5
  <2>3. i - 1 \in S
    BY <1>5, <1>7, <2>1, <2>2
  <2> QED
    BY <1>4, <2>1, <2>3
<1>8. i \in Begun(u)
  BY <1>5, <1>6, <1>7 DEF Begun
<1>9. k \in i .. Len(u)
  BY <1>1, <1>5
<1>10. k <= RunEnd(u, i) /\ RunEnd(u, i) \in i - 1 .. Len(u)
  BY <1>5, <1>9, RunEndIs
<1> QED
  BY <1>1, <1>5, <1>8, <1>10

\* The token of a symbol is its run.
LEMMA TokenIsRun ==
    ASSUME NEW u \in Seq(Mark), NEW i \in Begun(u), NEW k \in i .. RunEnd(u, i)
    PROVE  Token(u, k) = i .. RunEnd(u, i)
<1> DEFINE e == RunEnd(u, i)
<1>1. Len(u) \in Nat /\ DOMAIN u = 1 .. Len(u) /\ i \in 1 .. Len(u) /\ i \in DOMAIN u
      /\ (i = 1 \/ u[i - 1] \in Space)
  BY DEF Begun
<1>2. /\ e \in i - 1 .. Len(u) /\ \A m \in i .. e : u[m] \notin Space
      /\ e < Len(u) => u[e + 1] \in Space
  BY <1>1, RunEndIs
<1> HIDE DEF e
<1>3. k \in i .. e /\ k \in Nat /\ e \in Nat
  BY <1>1, <1>2 DEF e
<1>4. ASSUME NEW l \in i .. e PROVE l \in Token(u, k)
  <2>1. l \in DOMAIN u
    BY <1>1, <1>2
  <2>2. (k .. l) \cup (l .. k) \subseteq i .. e
    BY <1>1, <1>2, <1>3
  <2> QED
    BY <1>2, <2>1, <2>2 DEF Token
<1>5. ASSUME NEW l \in Token(u, k), l \notin i .. e PROVE FALSE
  <2>1. l \in 1 .. Len(u) /\ \A m \in (k .. l) \cup (l .. k) : u[m] \notin Space
    BY <1>1 DEF Token
  <2>2. CASE l < i
    <3>1. i # 1 /\ i - 1 \in l .. k
      BY <1>1, <1>3, <2>1, <2>2
    <3> QED
      BY <1>1, <2>1, <3>1
  <2>3. CASE e < l
    <3>1. e < Len(u) /\ e + 1 \in k .. l
      BY <1>1, <1>2, <1>3, <2>1, <2>3
    <3> QED
      BY <1>2, <2>1, <3>1
  <2> QED
    BY <1>1, <1>2, <1>3, <1>5, <2>1, <2>2, <2>3
<1> QED
  BY <1>4, <1>5 DEF e

\* Runs are apart.
LEMMA RunsApart ==
    ASSUME NEW u \in Seq(Mark), NEW i \in Begun(u), NEW j \in Begun(u), i # j
    PROVE  (i .. RunEnd(u, i)) \cap (j .. RunEnd(u, j)) = {}
<1> SUFFICES ASSUME NEW k \in i .. RunEnd(u, i), k \in j .. RunEnd(u, j) PROVE FALSE
  OBVIOUS
<1>1. i .. RunEnd(u, i) = j .. RunEnd(u, j)
  BY TokenIsRun
<1>2. i \in DOMAIN u /\ j \in DOMAIN u
  BY DEF Begun
<1>3. /\ i \in Nat /\ j \in Nat /\ RunEnd(u, i) \in Int /\ RunEnd(u, j) \in Int
  BY <1>2, RunEndIs
<1>4. i \in i .. RunEnd(u, i) /\ j \in j .. RunEnd(u, j)
  BY <1>3
<1>5. j <= i /\ i <= j
  BY <1>1, <1>3, <1>4
<1> QED
  BY <1>3, <1>5

-----------------------------------------------------------------------------
(* What is left of all tokens. *)

\* The value at k goes for what its token has.
Lost(u, k) ==
    IF /\ \E l \in Token(u, k) : u[l] = "="
       /\ ~\E f \in Token(u, k) : u[f] = "=" /\ \A l \in Token(u, k) : f <= l
    THEN \E l \in Token(u, k) : u[l] = "=" /\ l < k
    ELSE \/ \E l \in Token(u, k) : u[l] = "dot"
         \/ (\E l \in Token(u, k) : u[l] = ":") /\ (\E l \in Token(u, k) : u[l] = "digit")

\* What a redacted run loses, its token loses.
LEMMA GoesIsLost ==
    ASSUME NEW u \in Seq(Mark), NEW i \in Begun(u), NEW k \in i .. RunEnd(u, i)
    PROVE  Goes(u, i, RunEnd(u, i), k) <=> Lost(u, k)
<1> DEFINE e == RunEnd(u, i)
<1>1. i \in DOMAIN u /\ i \in Nat
  BY DEF Begun
<1>2. e \in Int /\ k \in Int /\ i <= k /\ k <= e
  BY <1>1, RunEndIs
<1>3. Token(u, k) = i .. e
  BY TokenIsRun
<1> HIDE DEF e
<1>4. i \in i .. e /\ \A l \in i .. e : i <= l
  BY <1>1, <1>2
<1>5. u[i] = "=" <=> \E f \in i .. e : u[f] = "=" /\ \A l \in i .. e : f <= l
  <2>1. ASSUME NEW f \in i .. e, \A l \in i .. e : f <= l PROVE f = i
    <3>1. f <= i /\ i <= f
      BY <1>4, <2>1
    <3> QED
      BY <1>1, <1>2, <3>1
  <2> QED
    BY <1>4, <2>1
<1>6. (\E l \in i .. k - 1 : u[l] = "=") <=> (\E l \in i .. e : u[l] = "=" /\ l < k)
  <2>1. \A l \in i .. k - 1 : l \in i .. e /\ l < k
    BY <1>1, <1>2
  <2>2. \A l \in i .. e : l < k => l \in i .. k - 1
    BY <1>1, <1>2
  <2> QED
    BY <2>1, <2>2
<1>7. Goes(u, i, e, k) <=> Lost(u, k)
  BY <1>3, <1>5, <1>6 DEF Goes, Lost
<1> QED
  BY <1>7 DEF e

\* A token that is redacted is a text.
LEMMA RedactedIsText ==
    ASSUME NEW tok \in Seq(Mark)
    PROVE  RedactToken(tok) \in Seq(Mark)
<1>1. CASE tok = <<>>
  <2>1. DOMAIN tok = {} /\ ToSet(tok) = {}
    BY <1>1 DEF ToSet
  <2>2. RedactToken(tok) = WithoutDigits(tok)
    BY <2>1 DEF RedactToken
  <2> QED
    BY <2>2, DigitsCount
<1>2. CASE tok # <<>>
  BY <1>2, TokenCount
<1> QED
  BY <1>1, <1>2

\* The values that are left of a text.
LEMMA RedactedCount ==
    ASSUME NEW u \in Seq(Mark)
    PROVE  Count(Redacted(u)) = Cardinality({k \in Values(u) : ~Lost(u, k)})
<1> DEFINE I == Begun(u)
           cut == [i \in DOMAIN u |-> SubSeq(u, i, RunEnd(u, i))]
           h == [t \in Seq(Mark) |-> RedactToken(t)]
           R == Map(h, cut)
           kept(i) == {k \in i .. RunEnd(u, i) : u[k] = "value" /\ ~Goes(u, i, RunEnd(u, i), k)}
           own == [i \in I |-> kept(i)]
<1>0. /\ DOMAIN u = 1 .. Len(u) /\ Len(u) \in Nat
      /\ \A i \in DOMAIN u : i \in 1 .. Len(u) /\ RunEnd(u, i) \in i - 1 .. Len(u)
  BY RunEndIs
<1>1. \A i \in I : i \in DOMAIN u /\ RunEnd(u, i) \in i .. Len(u)
  <2> SUFFICES ASSUME NEW i \in I PROVE i \in DOMAIN u /\ RunEnd(u, i) \in i .. Len(u)
    OBVIOUS
  <2>1. i \in 1 .. Len(u) /\ i \in DOMAIN u /\ u[i] \notin Space
    BY <1>0 DEF Begun
  <2>2. PICK j \in I : i \in j .. RunEnd(u, j)
    BY <2>1, InRun
  <2>3. RunEnd(u, i) \in i - 1 .. Len(u)
    BY <1>0, <2>1
  <2>4. i \in i .. Len(u) /\ \A m \in i .. i : u[m] \notin Space
    BY <1>0, <2>1
  <2>5. i <= RunEnd(u, i)
    BY <2>1, <2>4, RunEndIs
  <2> QED
    BY <1>0, <2>1, <2>3, <2>5
<1>2. cut \in Seq(Seq(Mark)) /\ DOMAIN cut = DOMAIN u
  <2>1. ASSUME NEW i \in DOMAIN u PROVE SubSeq(u, i, RunEnd(u, i)) \in Seq(Mark)
    <3>1. i \in 1 .. Len(u) /\ RunEnd(u, i) \in i - 1 .. Len(u)
      BY <1>0
    <3>2. \A m \in i .. RunEnd(u, i) : u[m] \in Mark
      BY <1>0, <3>1
    <3>3. i \in Int /\ RunEnd(u, i) \in Int
      BY <1>0, <3>1
    <3> QED
      BY <3>2, <3>3, SubSeqProperties
  <2> QED
    BY <1>0, <2>1
<1>3. h \in [Seq(Mark) -> Seq(Mark)]
  BY RedactedIsText
<1>4. R \in Seq(Seq(Mark)) /\ DOMAIN R = DOMAIN u
      /\ \A i \in DOMAIN u : R[i] = RedactToken(SubSeq(u, i, RunEnd(u, i)))
  <2>1. \A i \in DOMAIN u : cut[i] = SubSeq(u, i, RunEnd(u, i)) /\ cut[i] \in Seq(Mark)
    <3>1. \A i \in DOMAIN u : cut[i] = SubSeq(u, i, RunEnd(u, i))
      OBVIOUS
    <3> HIDE DEF cut
    <3> QED
      BY <1>2, <3>1
  <2> HIDE DEF cut, h
  <2>2. R \in Seq(Seq(Mark)) /\ Len(R) = Len(cut)
    BY <1>2, <1>3, MapIs
  <2>3. DOMAIN R = DOMAIN u /\ \A i \in DOMAIN u : R[i] = h[cut[i]]
    BY <1>2 DEF Map
  <2>4. \A i \in DOMAIN u : h[cut[i]] = RedactToken(cut[i])
    BY <2>1 DEF h
  <2> QED
    BY <2>1, <2>2, <2>3, <2>4
<1>5. Redacted(u) = Join(Picked(R, I), " ")
  <2>1. Fields(u) = Picked(cut, I)
    BY DEF Fields, RunEnd, Begun
  <2>2. Picked(R, I) = Map(h, Picked(cut, I))
    <3> HIDE DEF cut, h, I
    <3> QED
      BY <1>2, PickedMap
  <2>3. Picked(cut, I) \in Seq(Seq(Mark))
    <3> HIDE DEF cut, I
    <3> QED
      BY <1>2, PickedSeq
  <2>4. \A i \in DOMAIN Fields(u) : Fields(u)[i] \in Seq(Mark)
    <3> HIDE DEF cut, I
    <3> QED
      BY <2>1, <2>3
  <2>5. [i \in DOMAIN Fields(u) |-> RedactToken(Fields(u)[i])] = Map(h, Fields(u))
    BY <2>4 DEF Map
  <2> HIDE DEF cut, h, I, R
  <2> QED
    BY Zenon, <2>1, <2>2, <2>5 DEF Redacted
<1> HIDE DEF cut, h, R
<1>6. I \in SUBSET (DOMAIN R)
  BY <1>1, <1>4
<1>7. \A i \in I : IsFiniteSet(own[i]) /\ Cardinality(own[i]) = Count(R[i])
  <2> SUFFICES ASSUME NEW i \in I
               PROVE  IsFiniteSet(own[i]) /\ Cardinality(own[i]) = Count(R[i])
    OBVIOUS
  <2>1. i \in 1 .. Len(u) /\ RunEnd(u, i) \in i .. Len(u) /\ i \in DOMAIN u
    BY <1>0, <1>1
  <2>2. own[i] = kept(i)
    OBVIOUS
  <2>3. IsFiniteSet(kept(i))
    <3>1. i \in Int /\ RunEnd(u, i) \in Int
      BY <1>0, <2>1
    <3>2. IsFiniteSet(i .. RunEnd(u, i))
      BY <3>1, FS_Interval
    <3>3. kept(i) \in SUBSET (i .. RunEnd(u, i))
      OBVIOUS
    <3> HIDE DEF kept
    <3> QED
      BY <3>2, <3>3, FS_Subset
  <2>4. Count(RedactToken(SubSeq(u, i, RunEnd(u, i)))) = Cardinality(kept(i))
    BY <2>1, TokenAt
  <2> HIDE DEF kept, own
  <2> QED
    BY <1>4, <2>1, <2>2, <2>3, <2>4
<1>8. \A i, j \in I : i # j => own[i] \cap own[j] = {}
  BY RunsApart
<1>9. Places(own, I) = {k \in Values(u) : ~Lost(u, k)}
  <2>1. ASSUME NEW i \in I, NEW k \in own[i] PROVE k \in Values(u) /\ ~Lost(u, k)
    <3>1. k \in i .. RunEnd(u, i) /\ u[k] = "value" /\ ~Goes(u, i, RunEnd(u, i), k)
      BY <2>1
    <3>2. k \in DOMAIN u
      BY <1>0, <1>1, <3>1
    <3> QED
      BY <3>1, <3>2, GoesIsLost DEF Values
  <2>2. ASSUME NEW k \in Values(u), ~Lost(u, k) PROVE \E i \in I : k \in own[i]
    <3>1. k \in DOMAIN u /\ u[k] = "value" /\ u[k] \notin Space
      BY MarksAre DEF Values
    <3>2. PICK i \in I : k \in i .. RunEnd(u, i)
      BY <3>1, InRun
    <3>3. ~Goes(u, i, RunEnd(u, i), k)
      BY <2>2, <3>2, GoesIsLost
    <3> QED
      BY <3>1, <3>2, <3>3
  <2> HIDE DEF own, I
  <2> QED
    BY <2>1, <2>2 DEF Places
<1> HIDE DEF own, I
<1>10. Count(Join(Picked(R, I), " ")) = Cardinality(Places(own, I))
  <2>1. ASSUME NEW sep \in Mark, sep # "value"
        PROVE  Count(Join(Picked(R, I), sep)) = Cardinality(Places(own, I))
    <3>1. R \in Seq(Seq(Mark))
      BY <1>4
    <3>2. Owns(own, R, I)
      BY <1>7, <1>8 DEF Owns
    <3> QED
      BY <2>1, <3>1, <3>2, <1>6, JoinedCount
  <2> QED
    BY Zenon, <2>1, MarksAre
<1> QED
  BY Zenon, <1>5, <1>9, <1>10

-----------------------------------------------------------------------------
(* Quotes. *)

\* The positions that can close the quote at i, whether it is one, and where
\* the text goes on after what begins at i.
Ends(s, i) == {j \in i + 1 .. Len(s) : s[j] = s[i]}
Opens(s, i) == s[i] \in QuoteMarks /\ Ends(s, i) # {}
Beyond(s, i) == IF Opens(s, i) THEN Min(Ends(s, i)) + 1 ELSE i + 1
Lead(s, i) == IF Opens(s, i) THEN <<"?">> ELSE <<s[i]>>

\* A quote or a symbol leaves one symbol, and is gone past.
LEMMA BeyondIs ==
    ASSUME NEW s \in Seq(ErrorSymbols), NEW i \in 1 .. Len(s)
    PROVE  /\ Beyond(s, i) \in i + 1 .. Len(s) + 1
           /\ Opens(s, i) => Min(Ends(s, i)) \in i + 1 .. Len(s)
           /\ Lead(s, i) \in Seq(Mark) /\ Len(Lead(s, i)) = 1
           /\ Lead(s, i)[1] = IF Opens(s, i) THEN "?" ELSE s[i]
<1>0. Len(s) \in Nat /\ i \in Nat /\ s[i] \in ErrorSymbols
  OBVIOUS
<1>1. Ends(s, i) \in SUBSET Nat /\ Ends(s, i) \subseteq i + 1 .. Len(s)
  BY <1>0 DEF Ends
<1>2. Opens(s, i) => Min(Ends(s, i)) \in i + 1 .. Len(s)
  BY <1>1, LeastIsMin DEF Opens
<1>3. Beyond(s, i) \in i + 1 .. Len(s) + 1
  BY <1>0, <1>2 DEF Beyond
<1>4. "?" \in Mark /\ s[i] \in Mark
  BY <1>0 DEF Mark
<1>5. \A c \in Mark : <<c>> \in Seq(Mark) /\ Len(<<c>>) = 1 /\ <<c>>[1] = c
  OBVIOUS
<1>6. CASE Opens(s, i)
  BY <1>2, <1>3, <1>4, <1>5, <1>6 DEF Lead
<1>7. CASE ~Opens(s, i)
  BY <1>2, <1>3, <1>4, <1>5, <1>7 DEF Lead
<1> QED
  BY <1>6, <1>7

\* Unquoted is at each position what it puts there and what it makes of the rest.
LEMMA UnquotedIs ==
    ASSUME NEW s \in Seq(ErrorSymbols)
    PROVE  \E from :
              /\ Unquoted(s) = from[1]
              /\ \A i \in 1 .. Len(s) + 1 :
                    /\ from[i] \in Seq(Mark)
                    /\ from[i] = IF i > Len(s) THEN <<>>
                                 ELSE Lead(s, i) \o from[Beyond(s, i)]
<1> DEFINE m == Len(s) + 1
           body(g, i) ==
              IF i > Len(s) THEN <<>>
              ELSE IF s[i] \in QuoteMarks /\ {j \in i + 1 .. Len(s) : s[j] = s[i]} # {}
                   THEN <<"?">> \o g[Min({j \in i + 1 .. Len(s) : s[j] = s[i]}) + 1]
                   ELSE <<s[i]>> \o g[i + 1]
           step(g, i) == IF i > Len(s) THEN <<>> ELSE Lead(s, i) \o g[Beyond(s, i)]
           W == Seq(Mark)
<1>0. Len(s) \in Nat /\ m \in Nat /\ 1 <= m /\ 1 \in Nat /\ m \in 1 .. m /\ m > Len(s)
  OBVIOUS
<1>1. ASSUME NEW g, NEW i \in 1 .. m PROVE body(g, i) = step(g, i)
  <2>1. CASE Opens(s, i)
    BY <2>1 DEF Opens, Lead, Beyond, Ends
  <2>2. CASE ~Opens(s, i)
    BY <2>2 DEF Opens, Lead, Beyond, Ends
  <2> QED
    BY <2>1, <2>2
<1> DEFINE stop == {m}
           base == [i \in 1 .. m |-> <<>>]
           follow == [i \in 1 .. m |-> Beyond(s, i)]
           F == [p \in (1 .. m) \X W |-> IF p[1] \in stop THEN <<>> ELSE Lead(s, p[1]) \o p[2]]
<1>2. \A i \in (1 .. m) \ stop : /\ i \in 1 .. Len(s)
                                 /\ Beyond(s, i) \in i + 1 .. m
                                 /\ Lead(s, i) \in W
  <2>1. \A i \in (1 .. m) \ stop : i \in 1 .. Len(s)
    BY <1>0
  <2> QED
    BY <2>1, BeyondIs
<1>3. PICK g : Recurs(g, 1, m, W, stop, base, follow, F)
  <2>1. stop \in SUBSET (1 .. m) /\ base \in [1 .. m -> W]
    BY <1>0
  <2>2. F \in [(1 .. m) \X W -> W]
    <3>1. ASSUME NEW p \in (1 .. m) \X W
          PROVE  (IF p[1] \in stop THEN <<>> ELSE Lead(s, p[1]) \o p[2]) \in W
      <4>1. p[1] \in 1 .. m /\ p[2] \in W
        OBVIOUS
      <4>2. CASE p[1] \in stop
        BY <4>2
      <4>3. CASE p[1] \notin stop
        <5>1. PICK i \in (1 .. m) \ stop : p[1] = i
          BY <4>1, <4>3
        <5>2. Lead(s, i) \in Seq(Mark)
          <6> HIDE DEF stop, m
          <6> QED
            BY <1>2
        <5>3. PICK l \in Seq(Mark), o \in Seq(Mark) : l = Lead(s, i) /\ o = p[2]
          BY <4>1, <5>2
        <5>4. l \o o \in Seq(Mark)
          BY ConcatProperties
        <5> HIDE DEF stop, m
        <5> QED
          BY <4>3, <5>1, <5>3, <5>4
      <4> QED
        BY <4>2, <4>3
    <3> HIDE DEF stop, m
    <3> QED
      BY <3>1
  <2>3. \A i \in (1 .. m) \ stop : follow[i] \in i + 1 .. m
    BY <1>2
  <2> HIDE DEF stop, base, follow, F, m, W
  <2> QED
    BY <1>0, <2>1, <2>2, <2>3, Recursion
<1>4. \A i \in 1 .. m : g[i] = step(g, i)
  <2>1. ASSUME NEW i \in 1 .. m PROVE g[i] = step(g, i)
    <3>1. CASE i \in stop
      <4>1. g[i] = base[i]
        BY <1>3, <3>1 DEF Recurs
      <4> QED
        BY <1>0, <3>1, <4>1
    <3>2. CASE i \notin stop
      <4>1. follow[i] = Beyond(s, i) /\ Beyond(s, i) \in 1 .. m /\ i <= Len(s) /\ ~(i > Len(s))
        BY <1>0, <1>2, <3>2
      <4>2. g[follow[i]] \in W
        <5> HIDE DEF W, m, follow
        <5> QED
          BY <1>3, <4>1 DEF Recurs
      <4>3. g[i] = F[<<i, g[follow[i]]>>]
        <5> HIDE DEF F, follow, base, stop, W, m
        <5> QED
          BY <1>3, <3>2 DEF Recurs
      <4>4. F[<<i, g[follow[i]]>>] = Lead(s, i) \o g[follow[i]]
        <5> HIDE DEF follow, stop, W, m
        <5> QED
          BY <3>2, <4>2 DEF F
      <4> HIDE DEF F, follow, base, stop, W, m
      <4> QED
        BY <1>0, <4>1, <4>3, <4>4
    <3> QED
      BY <3>1, <3>2
  <2> QED
    BY <2>1
<1>5. g = [i \in 1 .. m |-> body(g, i)]
  <2>1. \A i \in 1 .. m : g[i] = body(g, i)
    <3> HIDE DEF body, step, m
    <3> QED
      BY <1>1, <1>4
  <2>2. g = [i \in 1 .. m |-> g[i]]
    BY <1>3 DEF Recurs
  <2> HIDE DEF body, m
  <2> QED
    BY <2>1, <2>2
<1> DEFINE from == CHOOSE h : h = [i \in 1 .. m |-> body(h, i)]
<1>6. from = [i \in 1 .. m |-> body(from, i)]
  <2> HIDE DEF body, m
  <2> QED
    BY <1>5
<1>7. Unquoted(s) = from[1]
  BY DEF Unquoted
<1> HIDE DEF from
<1>8. \A i \in 1 .. m : from[i] = step(from, i)
  <2> HIDE DEF body, step, m
  <2> QED
    BY <1>1, <1>6
<1> DEFINE K == {c \in 1 .. m : \A i \in c .. m : from[i] \in W}
<1> HIDE DEF body, m, W
<1>9. from[m] \in W
  <2>1. <<>> \in W
    BY DEF W
  <2> QED
    BY <1>0, <1>8, <2>1
<1>10. m \in K
  BY <1>0, <1>9
<1>11. ASSUME NEW c \in 1 .. m, c \in K, c > 1 PROVE c - 1 \in K
  <2>1. PICK i \in 1 .. m : i = c - 1 /\ i + 1 = c /\ i \in 1 .. Len(s) /\ ~(i > Len(s))
    BY <1>0, <1>11 DEF m
  <2>2. Beyond(s, i) \in c .. m /\ Lead(s, i) \in Seq(Mark)
    BY <2>1, BeyondIs DEF m
  <2>3. from[Beyond(s, i)] \in W
    BY <1>11, <2>2
  <2>4. Lead(s, i) \o from[Beyond(s, i)] \in Seq(Mark)
    BY <2>2, <2>3, ConcatProperties DEF W
  <2>5. from[i] \in W
    BY <1>8, <2>1, <2>4 DEF W
  <2>6. \A j \in c - 1 .. m : j = i \/ j \in c .. m
    BY <1>0, <2>1
  <2> QED
    BY <1>11, <2>1, <2>5, <2>6
<1>12. 1 .. m \subseteq K
  <2> HIDE DEF K
  <2> QED
    BY <1>0, <1>10, <1>11, DownFrom
<1>13. \A i \in 1 .. m : from[i] \in W
  BY <1>0, <1>12
<1> QED
  BY <1>7, <1>8, <1>13 DEF m, W

\* What the reference takes for quoted up to i, and after.
QuoteNext(s, i, before) ==
    IF i \in before \/ ~Opens(s, i) THEN before ELSE before \cup (i .. Min(Ends(s, i)))

QuotesUp(up, s) ==
    /\ up \in [0 .. Len(s) -> SUBSET (1 .. Len(s))]
    /\ up[0] = {}
    /\ \A i \in 1 .. Len(s) : up[i] = QuoteNext(s, i, up[i - 1])

\* Nothing that was quoted reaches i.
Outside(up, i) == \A x \in up[i - 1] : x < i

\* The quoted positions are the last of the steps that find them.
LEMMA QuotedIs ==
    ASSUME NEW s \in Seq(ErrorSymbols)
    PROVE  \E up : QuotesUp(up, s) /\ QuotedPositions(s) = up[Len(s)]
<1> DEFINE m == Len(s)
           W == SUBSET (1 .. m)
           F == [p \in (1 .. m) \X W |-> QuoteNext(s, p[1], p[2])]
           body(g, n) == IF n = 0 THEN {} ELSE QuoteNext(s, n, g[n - 1])
<1>0. m \in Nat /\ 0 \in Nat /\ 0 <= m /\ {} \in W /\ 0 \in 0 .. m
  OBVIOUS
<1>1. ASSUME NEW n \in 1 .. m, NEW x \in W PROVE QuoteNext(s, n, x) \in W
  <2>1. CASE n \in x \/ ~Opens(s, n)
    BY <2>1 DEF QuoteNext
  <2>2. CASE ~(n \in x \/ ~Opens(s, n))
    <3>1. Min(Ends(s, n)) \in n + 1 .. m
      BY <2>2, BeyondIs
    <3>2. n .. Min(Ends(s, n)) \subseteq 1 .. m
      BY <3>1
    <3> QED
      BY <2>2, <3>2 DEF QuoteNext
  <2> QED
    BY <2>1, <2>2
<1>2. F \in [(1 .. m) \X W -> W]
  <2>1. \A p \in (1 .. m) \X W : QuoteNext(s, p[1], p[2]) \in W
    <3> HIDE DEF m, W
    <3> QED
      BY <1>1
  <2> QED
    BY <2>1
<1>3. PICK g : Iterates(g, m, W, {}, F)
  <2> HIDE DEF F, m, W
  <2> QED
    BY <1>0, <1>2, Iteration
<1>4. /\ g \in [0 .. m -> W] /\ g[0] = {}
      /\ \A n \in 1 .. m : g[n] = F[<<n, g[n - 1]>>]
  <2> HIDE DEF F, m, W
  <2> QED
    BY <1>3 DEF Iterates
<1>5. ASSUME NEW n \in 1 .. m PROVE g[n] = QuoteNext(s, n, g[n - 1])
  <2>1. n - 1 \in 0 .. m
    BY <1>0
  <2>2. <<n, g[n - 1]>> \in (1 .. m) \X W
    <3>1. g[n - 1] \in W
      <4> HIDE DEF m, W
      <4> QED
        BY <1>4, <2>1
    <3> QED
      BY <3>1
  <2>3. F[<<n, g[n - 1]>>] = QuoteNext(s, n, g[n - 1])
    <3> HIDE DEF m, W
    <3> QED
      BY <2>2
  <2> HIDE DEF F, m
  <2> QED
    BY <1>4, <2>3
<1> DEFINE Q(h) == h = [i \in 0 .. m |->
                           IF i = 0 THEN {}
                           ELSE LET before == h[i - 1]
                                IN  IF \/ i \in before \/ s[i] \notin QuoteMarks
                                       \/ {j \in i + 1 .. m : s[j] = s[i]} = {}
                                    THEN before
                                    ELSE before \cup (i .. Min({j \in i + 1 .. m : s[j] = s[i]}))]
           upTo == CHOOSE h : Q(h)
<1>7. \A h : Q(h) <=> h = [n \in 0 .. m |-> body(h, n)]
  BY DEF QuoteNext, Opens, Ends
<1>8. Q(g)
  <2>1. \A n \in 0 .. m : g[n] = body(g, n)
    <3>1. \A n \in 0 .. m : n = 0 \/ n \in 1 .. m
      BY <1>0
    <3> HIDE DEF m, W
    <3> QED
      BY <1>4, <1>5, <3>1
  <2>2. g = [n \in 0 .. m |-> g[n]]
    BY <1>4
  <2>3. g = [n \in 0 .. m |-> body(g, n)]
    <3> HIDE DEF body, m
    <3> QED
      BY <2>1, <2>2
  <2> HIDE DEF Q, body, m
  <2> QED
    BY <1>7, <2>3
<1>9. Q(upTo)
  <2> HIDE DEF Q
  <2> QED
    BY <1>8
<1>10. QuotedPositions(s) = upTo[m]
  BY DEF QuotedPositions
<1> HIDE DEF upTo
<1>11. upTo = [n \in 0 .. m |-> body(upTo, n)]
  <2> HIDE DEF Q, body, m
  <2> QED
    BY <1>7, <1>9
<1> HIDE DEF Q
<1>12. \A n \in 0 .. m : upTo[n] = body(upTo, n)
  <2> HIDE DEF body, m
  <2> QED
    BY <1>11
<1>13. upTo[0] = {}
  BY <1>0, <1>12
<1>14. \A n \in 1 .. m : upTo[n] = QuoteNext(s, n, upTo[n - 1])
  <2>1. \A n \in 1 .. m : n \in 0 .. m /\ n # 0
    BY <1>0
  <2> HIDE DEF m
  <2> QED
    BY <1>12, <2>1
<1> DEFINE E == {n \in 0 .. m : upTo[n] \in W}
<1>15. 0 \in E
  BY <1>0, <1>13
<1>16. ASSUME NEW n \in 0 .. m, n \in E, n < m PROVE n + 1 \in E
  <2>1. PICK k \in 1 .. m : k = n + 1 /\ k - 1 = n /\ k \in 0 .. m
    BY <1>0, <1>16
  <2>2. upTo[k] = QuoteNext(s, k, upTo[n])
    <3> HIDE DEF m
    <3> QED
      BY <1>14, <2>1
  <2>3. upTo[n] \in W
    BY <1>16
  <2>4. QuoteNext(s, k, upTo[n]) \in W
    <3> HIDE DEF m, W
    <3> QED
      BY <1>1, <2>3
  <2> HIDE DEF W, m
  <2> QED
    BY <2>1, <2>2, <2>4
<1>17. 0 .. m \subseteq E
  <2> HIDE DEF E, m
  <2> QED
    BY <1>0, <1>15, <1>16, UpTo
<1>18. upTo \in [0 .. m -> W]
  <2> HIDE DEF body, m, W
  <2> QED
    BY <1>11, <1>17
<1>19. QuotesUp(upTo, s)
  BY <1>13, <1>14, <1>18 DEF QuotesUp
<1> QED
  BY <1>10, <1>19

\* What is quoted stays so, and what was passed over is not quoted later.
LEMMA QuotesStay ==
    ASSUME NEW s \in Seq(ErrorSymbols), NEW up, QuotesUp(up, s), NEW i \in 0 .. Len(s),
           NEW j \in i .. Len(s)
    PROVE  up[i] \subseteq up[j] /\ \A x \in 1 .. i : x \in up[j] => x \in up[i]
<1> DEFINE K == {k \in i .. Len(s) : /\ up[i] \subseteq up[k]
                                     /\ \A x \in 1 .. i : x \in up[k] => x \in up[i]}
<1>0. Len(s) \in Nat /\ i \in Nat /\ i <= Len(s) /\ i \in i .. Len(s)
  OBVIOUS
<1>1. i \in K
  BY <1>0
<1>2. ASSUME NEW k \in i .. Len(s), k \in K, k < Len(s) PROVE k + 1 \in K
  <2>1. PICK l \in i .. Len(s) : l = k + 1 /\ l - 1 = k /\ l \in 1 .. Len(s) /\ i < l
    BY <1>0, <1>2
  <2>2. up[l] = QuoteNext(s, l, up[k])
    BY <2>1 DEF QuotesUp
  <2>3. up[i] \subseteq up[k] /\ \A x \in 1 .. i : x \in up[k] => x \in up[i]
    BY <1>2
  <2>4. \A x \in 1 .. i : x \notin l .. Min(Ends(s, l))
    BY <1>0, <2>1
  <2>5. up[k] \subseteq up[l] /\ \A x \in 1 .. i : x \in up[l] => x \in up[k]
    BY <2>2, <2>4 DEF QuoteNext
  <2> QED
    BY <2>1, <2>3, <2>5
<1>3. i .. Len(s) \subseteq K
  <2> HIDE DEF K
  <2> QED
    BY <1>0, <1>1, <1>2, UpTo
<1> QED
  BY <1>3

\* Reference and code go on from the same position, and agree on what is before it.
LEMMA GoOnOutside ==
    ASSUME NEW s \in Seq(ErrorSymbols), NEW up, QuotesUp(up, s), NEW i \in 1 .. Len(s),
           Outside(up, i)
    PROVE  /\ Outside(up, Beyond(s, i))
           /\ Opens(s, i) => i .. Beyond(s, i) - 1 \subseteq up[Len(s)]
           /\ ~Opens(s, i) => i \notin up[Len(s)]
<1> DEFINE n == Len(s)
           c == Min(Ends(s, i))
<1>0. n \in Nat /\ i \in 1 .. n /\ i \in Nat /\ i \in 0 .. n /\ i - 1 \in 0 .. n /\ n \in i .. n
  OBVIOUS
<1>1. up[i] = QuoteNext(s, i, up[i - 1]) /\ i \notin up[i - 1]
  <2>1. up[i - 1] \in SUBSET (1 .. n)
    BY <1>0 DEF QuotesUp
  <2> QED
    BY <1>0, <2>1 DEF QuotesUp, Outside
<1>2. up[i] \subseteq up[n] /\ \A x \in 1 .. i : x \in up[n] => x \in up[i]
  BY <1>0, QuotesStay
<1>3. CASE Opens(s, i)
  <2>1. c \in i + 1 .. n /\ Beyond(s, i) = c + 1 /\ (c + 1) - 1 = c
    BY <1>3, BeyondIs DEF Beyond
  <2>2. up[i] = up[i - 1] \cup (i .. c)
    BY <1>1, <1>3 DEF QuoteNext
  <2> HIDE DEF c
  <2> DEFINE K == {k \in i .. c : up[k] = up[i]}
  <2>3. i \in Nat /\ c \in Nat /\ i <= c /\ i \in i .. c /\ c \in i .. c
    BY <1>0, <2>1
  <2>4. i \in K
    BY <2>3
  <2>5. ASSUME NEW k \in i .. c, k \in K, k < c PROVE k + 1 \in K
    <3>1. PICK l \in i .. c : l = k + 1 /\ l - 1 = k /\ l \in 1 .. n
      BY <1>0, <2>1, <2>3, <2>5
    <3>2. up[l] = QuoteNext(s, l, up[k])
      BY <3>1 DEF QuotesUp
    <3>3. l \in up[k]
      BY <2>2, <2>5
    <3>4. up[l] = up[k]
      BY <3>2, <3>3 DEF QuoteNext
    <3> QED
      BY <2>5, <3>1, <3>4
  <2>6. i .. c \subseteq K
    <3> HIDE DEF K
    <3> QED
      BY <2>3, <2>4, <2>5, UpTo
  <2>7. up[c] = up[i]
    BY <2>3, <2>6
  <2>8. ASSUME NEW x \in up[c] PROVE x < c + 1
    <3>1. CASE x \in up[i - 1]
      <4>1. x < i
        BY <3>1 DEF Outside
      <4>2. x \in Nat
        <5>1. up[i - 1] \in SUBSET (1 .. n)
          BY <1>0 DEF QuotesUp
        <5> QED
          BY <3>1, <5>1
      <4> QED
        BY <2>3, <4>1, <4>2
    <3>2. CASE x \in i .. c
      BY <2>3, <3>2
    <3> QED
      BY <2>2, <2>7, <2>8, <3>1, <3>2
  <2>9. Outside(up, c + 1)
    BY <2>1, <2>8 DEF Outside
  <2>10. i .. c \subseteq up[n]
    BY <1>2, <2>2
  <2> QED
    BY <1>3, <2>1, <2>9, <2>10
<1>4. CASE ~Opens(s, i)
  <2>1. up[i] = up[i - 1] /\ Beyond(s, i) = i + 1 /\ (i + 1) - 1 = i
    BY <1>0, <1>1, <1>4 DEF QuoteNext, Beyond
  <2>2. \A x \in up[i - 1] : x < i /\ x \in Nat
    <3>1. up[i - 1] \in SUBSET (1 .. n)
      BY <1>0 DEF QuotesUp
    <3> QED
      BY <3>1 DEF Outside
  <2>3. Outside(up, i + 1)
    BY <1>0, <2>1, <2>2 DEF Outside
  <2>4. i \notin up[n]
    BY <1>0, <1>1, <1>2, <2>1
  <2> QED
    BY <1>4, <2>1, <2>3, <2>4
<1> QED
  BY <1>3, <1>4

-----------------------------------------------------------------------------
(* The text without quotes. *)

\* t is what is left of s from i on, and at says where its symbols come from:
\* what is outside of Q is left as it is, and what is quoted leaves a mark.
LeftOf(s, Q, i, t, at) ==
    /\ at \in [1 .. Len(t) -> i .. Len(s)]
    /\ \A k, l \in 1 .. Len(t) : k < l => at[k] < at[l]
    /\ \A k \in 1 .. Len(t) : t[k] = IF at[k] \in Q THEN "?" ELSE s[at[k]]
    /\ \A j \in i .. Len(s) : \E k \in 1 .. Len(t) :
          at[k] <= j /\ (at[k] = j \/ at[k] .. j \subseteq Q)

\* One more symbol or quote in front.
LEMMA LeftBefore ==
    ASSUME NEW s \in Seq(ErrorSymbols), NEW Q, NEW i \in 1 .. Len(s), NEW t \in Seq(Mark), NEW at,
           LeftOf(s, Q, Beyond(s, i), t, at),
           Opens(s, i) => i .. Beyond(s, i) - 1 \subseteq Q, ~Opens(s, i) => i \notin Q
    PROVE  \E ag : LeftOf(s, Q, i, Lead(s, i) \o t, ag)
<1> DEFINE b == Beyond(s, i)
           n == Len(t)
           w == Lead(s, i) \o t
           ag == [k \in 1 .. n + 1 |-> IF k = 1 THEN i ELSE at[k - 1]]
<1>1. /\ b \in i + 1 .. Len(s) + 1 /\ Lead(s, i) \in Seq(Mark) /\ Len(Lead(s, i)) = 1
      /\ Lead(s, i)[1] = IF Opens(s, i) THEN "?" ELSE s[i]
  BY BeyondIs
<1>2. Opens(s, i) => i .. b - 1 \subseteq Q
  OBVIOUS
<1>3. ~Opens(s, i) => b = i + 1
  BY DEF Beyond
<1> HIDE DEF b
<1>4. /\ at \in [1 .. n -> b .. Len(s)]
      /\ \A k, l \in 1 .. n : k < l => at[k] < at[l]
      /\ \A k \in 1 .. n : t[k] = IF at[k] \in Q THEN "?" ELSE s[at[k]]
      /\ \A j \in b .. Len(s) : \E k \in 1 .. n :
            at[k] <= j /\ (at[k] = j \/ at[k] .. j \subseteq Q)
  BY DEF LeftOf, b
<1>5. Len(s) \in Nat /\ n \in Nat /\ i \in Nat /\ b \in Nat /\ i < b
  BY <1>1
<1>6. /\ Len(w) = n + 1 /\ w[1] = Lead(s, i)[1]
      /\ \A k \in 1 .. n : w[k + 1] = t[k]
  <2> DEFINE d == Lead(s, i)
  <2>1. d \in Seq(Mark) /\ Len(d) = 1
    BY <1>1
  <2> HIDE DEF d
  <2>2. Len(d \o t) = 1 + n /\ \A k \in 1 .. 1 + n : (d \o t)[k] = IF k <= 1 THEN d[k] ELSE t[k - 1]
    <3>1. /\ Len(d \o t) = Len(d) + Len(t)
          /\ \A k \in 1 .. Len(d) + Len(t) :
                (d \o t)[k] = IF k <= Len(d) THEN d[k] ELSE t[k - Len(d)]
      BY <2>1, ConcatProperties
    <3> QED
      BY <2>1, <3>1
  <2>3. ASSUME NEW k \in 1 .. n PROVE (d \o t)[k + 1] = t[k]
    <3>1. PICK l \in 1 .. 1 + n : l = k + 1 /\ ~(l <= 1) /\ l - 1 = k
      BY <1>5
    <3> QED
      BY <2>2, <3>1
  <2>4. 1 \in 1 .. 1 + n /\ 1 <= 1 /\ 1 + n = n + 1
    BY <1>5
  <2>5. (d \o t)[1] = d[1]
    BY <2>2, <2>4
  <2> QED
    BY <2>2, <2>3, <2>4, <2>5 DEF d
<1> HIDE DEF w, n
<1>7. \A k \in 1 .. n + 1 : k = 1 \/ \E l \in 1 .. n : k = l + 1
  <2> SUFFICES ASSUME NEW k \in 1 .. n + 1, k # 1 PROVE \E l \in 1 .. n : k = l + 1
    OBVIOUS
  <2>1. k - 1 \in 1 .. n /\ k = (k - 1) + 1
    BY <1>5
  <2> QED
    BY <2>1
<1>8. 1 \in 1 .. n + 1 /\ \A k \in 1 .. n : k + 1 \in 1 .. n + 1 /\ k + 1 # 1 /\ (k + 1) - 1 = k
  BY <1>5
<1>9. ag[1] = i /\ \A k \in 1 .. n : ag[k + 1] = at[k]
  BY <1>8
<1>10. ag \in [1 .. n + 1 -> i .. Len(s)]
  <2>1. ASSUME NEW k \in 1 .. n + 1 PROVE (IF k = 1 THEN i ELSE at[k - 1]) \in i .. Len(s)
    <3>1. i \in i .. Len(s) /\ b .. Len(s) \subseteq i .. Len(s)
      BY <1>5
    <3>2. k # 1 => k - 1 \in 1 .. n
      BY <1>5
    <3> QED
      BY <1>4, <3>1, <3>2
  <2> QED
    BY <2>1
<1> HIDE DEF ag
<1>11. ASSUME NEW k \in 1 .. n + 1, NEW l \in 1 .. n + 1, k < l PROVE ag[k] < ag[l]
  <2>1. PICK y \in 1 .. n : l = y + 1
    BY <1>5, <1>7, <1>11
  <2>2. CASE k = 1
    <3>1. at[y] \in b .. Len(s)
      BY <1>4
    <3> QED
      BY <1>5, <1>9, <2>1, <2>2, <3>1
  <2>3. CASE k # 1
    <3>1. PICK x \in 1 .. n : k = x + 1
      BY <1>7, <2>3
    <3>2. x < y
      BY <1>5, <1>11, <2>1, <3>1
    <3> QED
      BY <1>4, <1>9, <2>1, <3>1, <3>2
  <2> QED
    BY <2>2, <2>3
<1>12. ASSUME NEW k \in 1 .. n + 1 PROVE w[k] = IF ag[k] \in Q THEN "?" ELSE s[ag[k]]
  <2>1. CASE k = 1
    <3>1. Opens(s, i) <=> i \in Q
      <4>1. i \in i .. b - 1
        BY <1>5
      <4> QED
        BY <1>2, <4>1
    <3> QED
      BY <1>1, <1>6, <1>9, <2>1, <3>1
  <2>2. CASE k # 1
    <3>1. PICK x \in 1 .. n : k = x + 1
      BY <1>7, <2>2
    <3> QED
      BY <1>4, <1>6, <1>9, <3>1
  <2> QED
    BY <2>1, <2>2
<1>13. ASSUME NEW j \in i .. Len(s)
       PROVE  \E k \in 1 .. n + 1 : ag[k] <= j /\ (ag[k] = j \/ ag[k] .. j \subseteq Q)
  <2>1. CASE j < b
    <3>1. i <= j /\ (i = j \/ i .. j \subseteq Q)
      <4>1. CASE Opens(s, i)
        <5>1. i .. j \subseteq i .. b - 1
          BY <1>5, <2>1
        <5> QED
          BY <1>2, <1>5, <4>1, <5>1
      <4>2. CASE ~Opens(s, i)
        BY <1>3, <1>5, <2>1, <4>2
      <4> QED
        BY <4>1, <4>2
    <3> QED
      BY <1>8, <1>9, <3>1
  <2>2. CASE ~(j < b)
    <3>1. j \in b .. Len(s)
      BY <1>5, <2>2
    <3>2. PICK k \in 1 .. n : at[k] <= j /\ (at[k] = j \/ at[k] .. j \subseteq Q)
      BY <1>4, <3>1
    <3>3. k + 1 \in 1 .. n + 1 /\ ag[k + 1] = at[k]
      BY <1>8, <1>9
    <3> QED
      BY <3>2, <3>3
  <2> QED
    BY <2>1, <2>2
<1>14. LeftOf(s, Q, i, w, ag)
  BY <1>6, <1>10, <1>11, <1>12, <1>13 DEF LeftOf
<1> QED
  BY <1>14 DEF w

\* What Unquoted leaves is what the reference does not take for quoted.
LEMMA UnquotedLeaves ==
    ASSUME NEW s \in Seq(ErrorSymbols)
    PROVE  /\ Unquoted(s) \in Seq(Mark)
           /\ \E at : LeftOf(s, QuotedPositions(s), 1, Unquoted(s), at)
<1> DEFINE m == Len(s) + 1
           Q == QuotedPositions(s)
<1>0. Len(s) \in Nat /\ 1 \in Nat /\ m \in Nat /\ 1 <= m /\ 1 \in 1 .. m /\ m \in 1 .. m
  OBVIOUS
<1>1. PICK up : QuotesUp(up, s) /\ Q = up[Len(s)]
  BY QuotedIs
<1>2. PICK from : /\ Unquoted(s) = from[1]
                  /\ \A i \in 1 .. m :
                        /\ from[i] \in Seq(Mark)
                        /\ from[i] = IF i > Len(s) THEN <<>>
                                     ELSE Lead(s, i) \o from[Beyond(s, i)]
  BY UnquotedIs
<1> HIDE DEF Q
<1> DEFINE Good(i) == Outside(up, i) => \E at : LeftOf(s, Q, i, from[i], at)
           K == {c \in 1 .. m : \A i \in c .. m : Good(i)}
<1>3. m \in K
  <2>1. from[m] = <<>> /\ Len(from[m]) = 0
    BY <1>0, <1>2
  <2>2. 1 .. 0 = {} /\ m .. Len(s) = {}
    BY <1>0
  <2> DEFINE none == [k \in 1 .. 0 |-> m]
  <2>3. none \in [1 .. 0 -> m .. Len(s)]
    BY <2>2
  <2>4. LeftOf(s, Q, m, from[m], none)
    BY <2>1, <2>2, <2>3 DEF LeftOf
  <2>5. \A i \in m .. m : i = m
    BY <1>0
  <2> HIDE DEF m, none
  <2> QED
    BY <1>0, <2>4, <2>5
<1>4. ASSUME NEW c \in 1 .. m, c \in K, c > 1 PROVE c - 1 \in K
  <2>1. PICK i \in 1 .. Len(s) : i = c - 1 /\ i + 1 = c /\ ~(i > Len(s)) /\ i \in 1 .. m
    BY <1>0, <1>4
  <2>2. ASSUME Outside(up, i) PROVE \E at : LeftOf(s, Q, i, from[i], at)
    <3>1. /\ Outside(up, Beyond(s, i))
          /\ Opens(s, i) => i .. Beyond(s, i) - 1 \subseteq Q
          /\ ~Opens(s, i) => i \notin Q
      BY <1>1, <2>2, GoOnOutside
    <3>2. Beyond(s, i) \in c .. m /\ Beyond(s, i) \in 1 .. m
      BY <1>0, <2>1, BeyondIs
    <3>3. PICK at : LeftOf(s, Q, Beyond(s, i), from[Beyond(s, i)], at)
      BY <1>4, <3>1, <3>2
    <3>4. from[Beyond(s, i)] \in Seq(Mark)
      BY <1>2, <3>2
    <3>5. from[i] = Lead(s, i) \o from[Beyond(s, i)]
      BY <1>2, <2>1
    <3> HIDE DEF m, K
    <3>6. \E ag : LeftOf(s, Q, i, Lead(s, i) \o from[Beyond(s, i)], ag)
      BY <3>1, <3>3, <3>4, LeftBefore
    <3> QED
      BY <3>5, <3>6
  <2>3. \A j \in c - 1 .. m : j = i \/ j \in c .. m
    BY <1>0, <2>1
  <2>4. Good(i)
    BY <2>2
  <2> HIDE DEF Good
  <2> QED
    BY <1>4, <2>1, <2>3, <2>4
<1>5. 1 .. m \subseteq K
  <2> HIDE DEF K, m
  <2> QED
    BY <1>0, <1>3, <1>4, DownFrom
<1>6. Outside(up, 1)
  <2>1. up[1 - 1] = {}
    BY <1>1 DEF QuotesUp
  <2> QED
    BY <2>1 DEF Outside
<1>7. 1 \in K
  BY <1>0, <1>5
<1>8. \E at : LeftOf(s, Q, 1, from[1], at)
  BY <1>0, <1>6, <1>7
<1> QED
  BY <1>0, <1>2, <1>8 DEF Q

-----------------------------------------------------------------------------
(* Tokens of the text and of what is left of it. *)

\* What no space outside of Q parts from i.
Around(s, Q, i) ==
    {k \in DOMAIN s : \A m \in (i .. k) \cup (k .. i) : ~(m \notin Q /\ s[m] \in Space)}

\* What is left keeps its order, what it was, and before all it has not has a mark.
InOrderOf(s, Q, u, at) ==
    /\ \A k \in 1 .. Len(u) : at[k] \in 1 .. Len(s)
    /\ \A k, l \in 1 .. Len(u) : k < l <=> at[k] < at[l]
    /\ \A k, l \in 1 .. Len(u) : k <= l <=> at[k] <= at[l]
    /\ \A k, l \in 1 .. Len(u) : k = l <=> at[k] = at[l]
    /\ \A k \in 1 .. Len(u) : u[k] = IF at[k] \in Q THEN "?" ELSE s[at[k]]
    /\ \A j \in 1 .. Len(s) : \E k \in 1 .. Len(u) :
          at[k] <= j /\ (at[k] = j \/ at[k] .. j \subseteq Q)

\* What is left comes from the text in its order.
LEMMA LeftOrder ==
    ASSUME NEW s \in Seq(ErrorSymbols), NEW Q, NEW u \in Seq(Mark), NEW at,
           LeftOf(s, Q, 1, u, at)
    PROVE  InOrderOf(s, Q, u, at)
<1>1. /\ at \in [1 .. Len(u) -> 1 .. Len(s)]
      /\ \A k, l \in 1 .. Len(u) : k < l => at[k] < at[l]
      /\ \A k \in 1 .. Len(u) : u[k] = IF at[k] \in Q THEN "?" ELSE s[at[k]]
      /\ \A j \in 1 .. Len(s) : \E k \in 1 .. Len(u) :
            at[k] <= j /\ (at[k] = j \/ at[k] .. j \subseteq Q)
  BY DEF LeftOf
<1>2. Len(s) \in Nat /\ Len(u) \in Nat
  OBVIOUS
<1>3. \A k \in 1 .. Len(u) : at[k] \in 1 .. Len(s) /\ at[k] \in Nat /\ k \in Nat
  <2>1. \A k \in 1 .. Len(u) : at[k] \in 1 .. Len(s)
    BY <1>1
  <2>2. (1 .. Len(u)) \subseteq Nat /\ (1 .. Len(s)) \subseteq Nat
    BY <1>2
  <2> QED
    BY <2>1, <2>2
<1>4. ASSUME NEW k \in 1 .. Len(u), NEW l \in 1 .. Len(u)
      PROVE  (k < l <=> at[k] < at[l]) /\ (k <= l <=> at[k] <= at[l]) /\ (k = l <=> at[k] = at[l])
  <2>1. /\ k < l => at[k] < at[l]
        /\ l < k => at[l] < at[k]
        /\ k \in Nat /\ l \in Nat /\ at[k] \in Nat /\ at[l] \in Nat
    BY <1>1, <1>3
  <2>2. k < l \/ l < k \/ k = l
    BY <2>1
  <2>3. CASE k = l
    BY <2>1, <2>3
  <2>4. CASE k < l
    BY <2>1, <2>4
  <2>5. CASE l < k
    BY <2>1, <2>5
  <2> QED
    BY <2>2, <2>3, <2>4, <2>5
<1> QED
  BY <1>1, <1>3, <1>4 DEF InOrderOf

\* Two symbols that are left are of one token just when they were.
LEMMA SameToken ==
    ASSUME NEW s \in Seq(ErrorSymbols), NEW Q, NEW u \in Seq(Mark), NEW at,
           LeftOf(s, Q, 1, u, at), NEW k \in 1 .. Len(u), NEW l \in 1 .. Len(u)
    PROVE  l \in Token(u, k) <=> at[l] \in Around(s, Q, at[k])
<1>0. Len(s) \in Nat /\ Len(u) \in Nat /\ DOMAIN s = 1 .. Len(s) /\ DOMAIN u = 1 .. Len(u)
  OBVIOUS
<1>1. /\ \A x \in 1 .. Len(u) : at[x] \in 1 .. Len(s)
      /\ \A x, y \in 1 .. Len(u) : x <= y <=> at[x] <= at[y]
      /\ \A x \in 1 .. Len(u) : u[x] = IF at[x] \in Q THEN "?" ELSE s[at[x]]
  <2>1. InOrderOf(s, Q, u, at)
    BY LeftOrder
  <2> QED
    BY <2>1 DEF InOrderOf
<1>2. \A j \in 1 .. Len(s) : j \notin Q => \E x \in 1 .. Len(u) : at[x] = j
  <2> SUFFICES ASSUME NEW j \in 1 .. Len(s), j \notin Q PROVE \E x \in 1 .. Len(u) : at[x] = j
    OBVIOUS
  <2>1. PICK x \in 1 .. Len(u) : at[x] <= j /\ (at[x] = j \/ at[x] .. j \subseteq Q)
    <3>1. InOrderOf(s, Q, u, at)
      BY LeftOrder
    <3> QED
      BY <3>1 DEF InOrderOf
  <2>2. j \in at[x] .. j
    BY <1>1, <2>1
  <2> QED
    BY <2>1, <2>2
<1>3. ASSUME l \notin Token(u, k) PROVE at[l] \notin Around(s, Q, at[k])
  <2>1. PICK m \in (k .. l) \cup (l .. k) : u[m] \in Space
    BY <1>0, <1>3 DEF Token
  <2>2. m \in 1 .. Len(u) /\ ((k <= m /\ m <= l) \/ (l <= m /\ m <= k))
    BY <1>0
  <2>3. at[m] \in (at[k] .. at[l]) \cup (at[l] .. at[k])
    BY <1>0, <1>1, <2>2
  <2>4. at[m] \notin Q /\ s[at[m]] \in Space
    BY <1>1, <2>1, <2>2, MarksAre
  <2> QED
    BY <2>3, <2>4 DEF Around
<1>4. ASSUME at[l] \notin Around(s, Q, at[k]) PROVE l \notin Token(u, k)
  <2>1. PICK j \in (at[k] .. at[l]) \cup (at[l] .. at[k]) : j \notin Q /\ s[j] \in Space
    BY <1>0, <1>1, <1>4 DEF Around
  <2>2. j \in 1 .. Len(s) /\ ((at[k] <= j /\ j <= at[l]) \/ (at[l] <= j /\ j <= at[k]))
    BY <1>0, <1>1
  <2>3. PICK m \in 1 .. Len(u) : at[m] = j
    BY <1>2, <2>1, <2>2
  <2>4. (k <= m /\ m <= l) \/ (l <= m /\ m <= k)
    BY <1>1, <2>2, <2>3
  <2>5. m \in (k .. l) \cup (l .. k)
    BY <1>0, <2>4
  <2>6. u[m] \in Space
    BY <1>1, <2>1, <2>3
  <2> QED
    BY <2>5, <2>6 DEF Token
<1> QED
  BY <1>3, <1>4

\* What is around a symbol in the text is around it in what is left, but for the
\* quotes, of which the mark comes first.
LEMMA AroundLeft ==
    ASSUME NEW s \in Seq(ErrorSymbols), NEW Q, NEW u \in Seq(Mark), NEW at,
           LeftOf(s, Q, 1, u, at), NEW k \in 1 .. Len(u), NEW j \in Around(s, Q, at[k])
    PROVE  \E l \in Token(u, k) : l \in 1 .. Len(u) /\ at[l] <= j /\ (j \notin Q => at[l] = j)
<1>0. Len(s) \in Nat /\ Len(u) \in Nat /\ DOMAIN s = 1 .. Len(s)
  OBVIOUS
<1>a. InOrderOf(s, Q, u, at)
  BY LeftOrder
<1>1. /\ \A x \in 1 .. Len(u) : at[x] \in 1 .. Len(s)
      /\ j \in 1 .. Len(s) /\ j \in Nat
      /\ \A m \in (at[k] .. j) \cup (j .. at[k]) : ~(m \notin Q /\ s[m] \in Space)
  <2>1. \A x \in 1 .. Len(u) : at[x] \in 1 .. Len(s)
    BY <1>a DEF InOrderOf
  <2>2. /\ j \in 1 .. Len(s)
        /\ \A m \in (at[k] .. j) \cup (j .. at[k]) : ~(m \notin Q /\ s[m] \in Space)
    BY <1>0 DEF Around
  <2> QED
    BY <1>0, <2>1, <2>2
<1>2. PICK l \in 1 .. Len(u) : at[l] <= j /\ (at[l] = j \/ at[l] .. j \subseteq Q)
  BY <1>1, <1>a DEF InOrderOf
<1>3. at[l] \in 1 .. Len(s) /\ at[k] \in 1 .. Len(s)
  BY <1>1
<1>4. j \notin Q => at[l] = j
  <2>1. j \in at[l] .. j
    BY <1>1, <1>2, <1>3
  <2> QED
    BY <1>2, <2>1
<1>5. ASSUME NEW m \in (at[k] .. at[l]) \cup (at[l] .. at[k])
      PROVE  ~(m \notin Q /\ s[m] \in Space)
  <2>1. m \in (at[k] .. j) \cup (j .. at[k]) \/ m \in at[l] .. j
    BY <1>0, <1>1, <1>2, <1>3
  <2>2. CASE m \in (at[k] .. j) \cup (j .. at[k])
    BY <1>1, <2>2
  <2>3. CASE m \in at[l] .. j
    <3>1. CASE at[l] = j
      <4>1. m = j
        BY <1>1, <2>3, <3>1
      <4>2. j \in (at[k] .. j) \cup (j .. at[k])
        BY <1>1, <1>3
      <4> QED
        BY <1>1, <4>1, <4>2
    <3>2. CASE at[l] .. j \subseteq Q
      BY <2>3, <3>2
    <3> QED
      BY <1>2, <3>1, <3>2
  <2> QED
    BY <2>1, <2>2, <2>3
<1>6. at[l] \in Around(s, Q, at[k])
  BY <1>0, <1>3, <1>5 DEF Around
<1>7. l \in Token(u, k)
  BY <1>6, SameToken
<1> QED
  BY <1>2, <1>4, <1>7

\* A token that is left has c where the token of the text has it outside of Q.
SameHas(s, Q, u, at, k, c) ==
    /\ (\E l \in Token(u, k) : u[l] = c)
           <=> (\E j \in Around(s, Q, at[k]) \ Q : s[j] = c)
    /\ (\E l \in Token(u, k) : u[l] = c /\ l < k)
           <=> (\E j \in Around(s, Q, at[k]) \ Q : s[j] = c /\ j < at[k])

\* A token that is left has what the token of the text has outside of Q.
LEMMA LeftHas ==
    ASSUME NEW s \in Seq(ErrorSymbols), NEW Q, NEW u \in Seq(Mark), NEW at,
           LeftOf(s, Q, 1, u, at), NEW k \in 1 .. Len(u), NEW c, c # "?"
    PROVE  SameHas(s, Q, u, at, k, c)
<1>0. \A l \in Token(u, k) : l \in 1 .. Len(u)
  BY DEF Token
<1>1. /\ \A x, y \in 1 .. Len(u) : x < y <=> at[x] < at[y]
      /\ \A x \in 1 .. Len(u) : u[x] = IF at[x] \in Q THEN "?" ELSE s[at[x]]
  <2>1. InOrderOf(s, Q, u, at)
    BY LeftOrder
  <2> QED
    BY <2>1 DEF InOrderOf
<1>2. ASSUME NEW l \in Token(u, k), u[l] = c
      PROVE  at[l] \in Around(s, Q, at[k]) \ Q /\ s[at[l]] = c /\ (l < k => at[l] < at[k])
  <2>1. l \in 1 .. Len(u) /\ at[l] \notin Q /\ s[at[l]] = c
    BY <1>0, <1>1, <1>2
  <2>2. at[l] \in Around(s, Q, at[k])
    BY <2>1, SameToken
  <2> QED
    BY <1>1, <2>1, <2>2
<1>3. ASSUME NEW j \in Around(s, Q, at[k]) \ Q, s[j] = c
      PROVE  \E l \in Token(u, k) : u[l] = c /\ (j < at[k] => l < k)
  <2>1. PICK l \in Token(u, k) : l \in 1 .. Len(u) /\ at[l] = j
    <3>1. j \in Around(s, Q, at[k]) /\ j \notin Q
      OBVIOUS
    <3> QED
      BY <3>1, AroundLeft
  <2>2. u[l] = c
    BY <1>1, <1>3, <2>1
  <2> QED
    BY <1>1, <2>1, <2>2
<1> QED
  BY <1>2, <1>3 DEF SameHas

\* A token that is left begins with "=" just when that of the text does.
LEMMA LeftHeadless ==
    ASSUME NEW s \in Seq(ErrorSymbols), NEW Q, NEW u \in Seq(Mark), NEW at,
           LeftOf(s, Q, 1, u, at), NEW k \in 1 .. Len(u), at[k] \in Around(s, Q, at[k])
    PROVE  (\E f \in Token(u, k) : u[f] = "=" /\ \A l \in Token(u, k) : f <= l)
               <=> /\ Min(Around(s, Q, at[k])) \notin Q
                   /\ s[Min(Around(s, Q, at[k]))] = "="
<1> DEFINE T == Around(s, Q, at[k])
           first == Min(T)
<1>0. Len(s) \in Nat /\ \A l \in Token(u, k) : l \in 1 .. Len(u)
  BY DEF Token
<1>1. /\ \A x \in 1 .. Len(u) : at[x] \in 1 .. Len(s)
      /\ \A x, y \in 1 .. Len(u) : x <= y <=> at[x] <= at[y]
      /\ \A x \in 1 .. Len(u) : u[x] = IF at[x] \in Q THEN "?" ELSE s[at[x]]
  <2>1. InOrderOf(s, Q, u, at)
    BY LeftOrder
  <2> QED
    BY <2>1 DEF InOrderOf
<1>2. T \in SUBSET Nat /\ T # {}
  BY DEF Around
<1>3. \A l \in 1 .. Len(u) : l \in Token(u, k) <=> at[l] \in T
  BY SameToken
<1>4. \A j \in T : \E l \in Token(u, k) :
          l \in 1 .. Len(u) /\ at[l] <= j /\ (j \notin Q => at[l] = j)
  BY AroundLeft
<1> HIDE DEF T
<1>5. first \in T /\ \A j \in T : first <= j
  BY <1>2, LeastIsMin
<1> HIDE DEF first
<1>6. ASSUME NEW f \in Token(u, k), u[f] = "=", \A l \in Token(u, k) : f <= l
      PROVE  first \notin Q /\ s[first] = "="
  <2>1. f \in 1 .. Len(u) /\ at[f] \in T /\ at[f] \notin Q /\ s[at[f]] = "="
    BY <1>0, <1>1, <1>3, <1>6
  <2>2. PICK l \in Token(u, k) : l \in 1 .. Len(u) /\ at[l] <= first
    BY <1>4, <1>5
  <2>3. at[f] <= at[l]
    BY <1>1, <1>6, <2>1, <2>2
  <2>4. first <= at[f]
    BY <1>5, <2>1
  <2>5. first \in Nat /\ at[f] \in Nat /\ at[l] \in Nat
    BY <1>1, <1>2, <1>5, <2>1, <2>2
  <2>6. first = at[f]
    BY <2>2, <2>3, <2>4, <2>5
  <2> QED
    BY <2>1, <2>6
<1>7. ASSUME first \notin Q, s[first] = "="
      PROVE  \E f \in Token(u, k) : u[f] = "=" /\ \A l \in Token(u, k) : f <= l
  <2>1. PICK f \in Token(u, k) : f \in 1 .. Len(u) /\ at[f] = first
    BY <1>4, <1>5, <1>7
  <2>2. u[f] = "="
    BY <1>1, <1>7, <2>1
  <2>3. ASSUME NEW l \in Token(u, k) PROVE f <= l
    <3>1. l \in 1 .. Len(u) /\ at[l] \in T
      BY <1>0, <1>3
    <3> QED
      BY <1>1, <1>5, <2>1, <3>1
  <2> QED
    BY <2>2, <2>3
<1>8. (\E f \in Token(u, k) : u[f] = "=" /\ \A l \in Token(u, k) : f <= l)
          <=> first \notin Q /\ s[first] = "="
  BY <1>6, <1>7
<1> QED
  BY <1>8 DEF first, T

-----------------------------------------------------------------------------
(* What Shape drops are the positions that stand for values. *)

\* A value outside of Q at i goes for what is around it.
Dropped(s, Q, i) ==
    IF \E k \in Around(s, Q, i) \ Q : s[k] = "="
    THEN \E k \in Around(s, Q, i) \ Q : s[k] = "=" /\ k < i
    ELSE \/ \E k \in Around(s, Q, i) \ Q : s[k] = "dot"
         \/ /\ \E k \in Around(s, Q, i) \ Q : s[k] = ":"
            /\ \E k \in Around(s, Q, i) \ Q : s[k] = "digit"

\* A value is in a place for values when it is quoted or dropped.
LEMMA ValuePositionsAre ==
    ASSUME NEW s, NEW i \in DOMAIN s, s[i] = "value"
    PROVE  i \in ValuePositions(s)
               <=> i \in QuotedPositions(s) \/ Dropped(s, QuotedPositions(s), i)
<1> DEFINE Q == QuotedPositions(s)
<1>1. s[i] \notin Space
  BY MarksAre
<1>2. Around(s, Q, i)
          = {k \in DOMAIN s : \A m \in (i .. k) \cup (k .. i) : ~(m \notin Q /\ s[m] \in Space)}
  BY DEF Around
<1>3. i \in ValuePositions(s)
          <=> /\ ~(i \notin Q /\ s[i] \in Space)
              /\ i \in Q \/ Dropped(s, Q, i)
  <2> HIDE DEF Q
  <2> QED
    BY <1>2 DEF ValuePositions, Dropped, Q
<1> QED
  BY <1>1, <1>3

\* Every "=" outside of Q has a key.
KeyedOutside(s, Q) ==
    \A i \in DOMAIN s \ Q : s[i] = "=" => i > 1 /\ (i - 1 \in Q \/ s[i - 1] \notin Space)

\* What is around a symbol does not begin with "=" where each "=" has a key.
LEMMA NoHead ==
    ASSUME NEW s \in Seq(ErrorSymbols), NEW Q, KeyedOutside(s, Q),
           NEW i \in DOMAIN s, i \in Around(s, Q, i)
    PROVE  ~(Min(Around(s, Q, i)) \notin Q /\ s[Min(Around(s, Q, i))] = "=")
<1> DEFINE T == Around(s, Q, i)
           first == Min(T)
<1>1. DOMAIN s = 1 .. Len(s) /\ Len(s) \in Nat
  OBVIOUS
<1>2. T \in SUBSET Nat /\ T # {} /\ i \in T
  BY <1>1 DEF Around
<1>3. \A k \in T : k \in 1 .. Len(s) /\ \A m \in (i .. k) \cup (k .. i) :
                                           ~(m \notin Q /\ s[m] \in Space)
  BY <1>1 DEF Around
<1>4. \A k \in 1 .. Len(s) : (\A m \in (i .. k) \cup (k .. i) : ~(m \notin Q /\ s[m] \in Space))
          => k \in T
  BY <1>1 DEF Around
<1> HIDE DEF T
<1>5. first \in T /\ \A k \in T : first <= k
  BY <1>2, LeastIsMin
<1> HIDE DEF first
<1>6. ASSUME first \notin Q, s[first] = "=" PROVE FALSE
  <2>1. first \in 1 .. Len(s) /\ first \in DOMAIN s \ Q
    BY <1>1, <1>3, <1>5, <1>6
  <2>2. first > 1 /\ (first - 1 \in Q \/ s[first - 1] \notin Space)
    BY <1>6, <2>1 DEF KeyedOutside
  <2>3. PICK h \in 1 .. Len(s) : h = first - 1 /\ h < first
    BY <1>1, <2>1, <2>2
  <2>4. first <= i /\ i \in 1 .. Len(s)
    BY <1>1, <1>2, <1>5
  <2>5. ASSUME NEW m \in (i .. h) \cup (h .. i) PROVE ~(m \notin Q /\ s[m] \in Space)
    <3>1. m = h \/ m \in (i .. first) \cup (first .. i)
      BY <1>1, <2>1, <2>3, <2>4
    <3>2. CASE m = h
      BY <2>2, <2>3, <3>2
    <3>3. CASE m \in (i .. first) \cup (first .. i)
      BY <1>3, <1>5, <3>3
    <3> QED
      BY <3>1, <3>2, <3>3
  <2>6. h \in T
    BY <1>4, <2>5
  <2>7. first <= h
    BY <1>5, <2>6
  <2> QED
    BY <1>1, <2>1, <2>3, <2>7
<1> QED
  BY <1>6 DEF first, T

\* A value that is left goes just when the text has it in a place for values.
LEMMA LostIsDropped ==
    ASSUME NEW s \in Seq(ErrorSymbols), NEW Q, KeyedOutside(s, Q), NEW u \in Seq(Mark), NEW at,
           LeftOf(s, Q, 1, u, at), NEW k \in 1 .. Len(u), u[k] = "value"
    PROVE  at[k] \notin Q /\ s[at[k]] = "value" /\ (Lost(u, k) <=> Dropped(s, Q, at[k]))
<1>0. DOMAIN s = 1 .. Len(s) /\ Len(s) \in Nat
  OBVIOUS
<1>1. /\ \A x \in 1 .. Len(u) : at[x] \in 1 .. Len(s)
      /\ \A x \in 1 .. Len(u) : u[x] = IF at[x] \in Q THEN "?" ELSE s[at[x]]
  <2>1. InOrderOf(s, Q, u, at)
    BY LeftOrder
  <2> QED
    BY <2>1 DEF InOrderOf
<1>2. at[k] \notin Q /\ s[at[k]] = "value" /\ at[k] \in 1 .. Len(s)
  BY <1>1, MarksAre
<1>3. at[k] \in Around(s, Q, at[k])
  <2>1. \A m \in (at[k] .. at[k]) \cup (at[k] .. at[k]) : m = at[k]
    BY <1>0, <1>2
  <2>2. s[at[k]] \notin Space
    BY <1>2, MarksAre
  <2> QED
    BY <1>0, <1>2, <2>1, <2>2 DEF Around
<1>4. ASSUME NEW c, c # "?" PROVE SameHas(s, Q, u, at, k, c)
  BY <1>4, LeftHas
<1>5. (\E f \in Token(u, k) : u[f] = "=" /\ \A l \in Token(u, k) : f <= l)
          <=> Min(Around(s, Q, at[k])) \notin Q /\ s[Min(Around(s, Q, at[k]))] = "="
  BY <1>3, LeftHeadless
<1>h. ~\E f \in Token(u, k) : u[f] = "=" /\ \A l \in Token(u, k) : f <= l
  <2>1. at[k] \in DOMAIN s
    BY <1>0, <1>2
  <2>2. ~(Min(Around(s, Q, at[k])) \notin Q /\ s[Min(Around(s, Q, at[k]))] = "=")
    BY <1>3, <2>1, NoHead
  <2> QED
    BY <1>5, <2>2
<1>6. "=" # "?" /\ "dot" # "?" /\ ":" # "?" /\ "digit" # "?"
  OBVIOUS
<1>7. Lost(u, k) <=> Dropped(s, Q, at[k])
  <2>1. /\ (\E l \in Token(u, k) : u[l] = "=")
               <=> (\E j \in Around(s, Q, at[k]) \ Q : s[j] = "=")
        /\ (\E l \in Token(u, k) : u[l] = "=" /\ l < k)
               <=> (\E j \in Around(s, Q, at[k]) \ Q : s[j] = "=" /\ j < at[k])
    BY <1>4, <1>6 DEF SameHas
  <2>2. (\E l \in Token(u, k) : u[l] = "dot")
            <=> (\E j \in Around(s, Q, at[k]) \ Q : s[j] = "dot")
    BY <1>4, <1>6 DEF SameHas
  <2>3. (\E l \in Token(u, k) : u[l] = ":")
            <=> (\E j \in Around(s, Q, at[k]) \ Q : s[j] = ":")
    BY <1>4, <1>6 DEF SameHas
  <2>4. (\E l \in Token(u, k) : u[l] = "digit")
            <=> (\E j \in Around(s, Q, at[k]) \ Q : s[j] = "digit")
    BY <1>4, <1>6 DEF SameHas
  <2> QED
    BY <1>h, <2>1, <2>2, <2>3, <2>4 DEF Lost, Dropped
<1> QED
  BY <1>2, <1>7

\* As many values are left of a text as it has outside of the places for values.
LEMMA ShapeCount ==
    ASSUME NEW s \in Seq(ErrorSymbols), HasKeys(s)
    PROVE  Count(Shape(s)) = Cardinality(Values(s) \ ValuePositions(s))
<1> DEFINE Q == QuotedPositions(s)
           u == Unquoted(s)
           A == {k \in Values(u) : ~Lost(u, k)}
           B == Values(s) \ ValuePositions(s)
<1>1. u \in Seq(Mark) /\ \E at : LeftOf(s, Q, 1, u, at)
  BY UnquotedLeaves
<1>2. PICK at : LeftOf(s, Q, 1, u, at)
  BY <1>1
<1>k. KeyedOutside(s, Q)
  BY DEF HasKeys, KeyedOutside
<1>3. Count(Shape(s)) = Cardinality(A)
  BY <1>1, RedactedCount DEF Shape
<1>4. IsFiniteSet(A)
  <2>1. IsFiniteSet(Values(u))
    BY <1>1, CountIs
  <2>2. A \in SUBSET Values(u)
    OBVIOUS
  <2> HIDE DEF A, u
  <2> QED
    BY <2>1, <2>2, FS_Subset
<1>5. /\ Values(u) = {k \in 1 .. Len(u) : u[k] = "value"}
      /\ Values(s) = {i \in 1 .. Len(s) : s[i] = "value"}
      /\ DOMAIN s = 1 .. Len(s)
  <2> HIDE DEF u
  <2> QED
    BY <1>1 DEF Values
<1>6. \A i \in Values(s) : i \in ValuePositions(s) <=> i \in Q \/ Dropped(s, Q, i)
  <2> SUFFICES ASSUME NEW i \in Values(s)
               PROVE  i \in ValuePositions(s) <=> i \in Q \/ Dropped(s, Q, i)
    OBVIOUS
  <2>1. i \in DOMAIN s /\ s[i] = "value"
    BY DEF Values
  <2> QED
    BY <2>1, ValuePositionsAre
<1>7. \A k \in Values(u) : /\ at[k] \notin Q /\ s[at[k]] = "value"
                           /\ Lost(u, k) <=> Dropped(s, Q, at[k])
  <2> SUFFICES ASSUME NEW k \in Values(u)
               PROVE  /\ at[k] \notin Q /\ s[at[k]] = "value"
                      /\ Lost(u, k) <=> Dropped(s, Q, at[k])
    OBVIOUS
  <2>1. k \in 1 .. Len(u) /\ u[k] = "value"
    BY <1>5
  <2> HIDE DEF u, Q
  <2> QED
    BY <1>1, <1>2, <1>k, <2>1, LostIsDropped
<1>8. /\ \A x \in 1 .. Len(u) : at[x] \in 1 .. Len(s)
      /\ \A x, y \in 1 .. Len(u) : x = y <=> at[x] = at[y]
      /\ \A x \in 1 .. Len(u) : u[x] = IF at[x] \in Q THEN "?" ELSE s[at[x]]
      /\ \A j \in 1 .. Len(s) : \E x \in 1 .. Len(u) :
            at[x] <= j /\ (at[x] = j \/ at[x] .. j \subseteq Q)
  <2> HIDE DEF u, Q
  <2>1. InOrderOf(s, Q, u, at)
    BY <1>1, <1>2, LeftOrder
  <2> QED
    BY <2>1 DEF InOrderOf
<1> DEFINE f == [k \in A |-> at[k]]
<1> HIDE DEF Q, u
<1>9. f \in [A -> B]
  <2>1. ASSUME NEW k \in A PROVE at[k] \in B
    <3>1. k \in Values(u) /\ ~Lost(u, k) /\ k \in 1 .. Len(u)
      BY <1>5
    <3>2. at[k] \in Values(s)
      BY <1>5, <1>7, <1>8, <3>1
    <3> QED
      BY <1>6, <1>7, <3>1, <3>2
  <2> HIDE DEF A, B
  <2> QED
    BY <2>1
<1>10. \A x, y \in A : f[x] = f[y] => x = y
  BY <1>5, <1>8
<1>11. ASSUME NEW z \in B PROVE \E x \in A : f[x] = z
  <2>1. z \in Values(s) /\ z \in 1 .. Len(s) /\ s[z] = "value" /\ z \notin Q /\ ~Dropped(s, Q, z)
    BY <1>5, <1>6
  <2>2. PICK x \in 1 .. Len(u) : at[x] <= z /\ (at[x] = z \/ at[x] .. z \subseteq Q)
    BY <1>8, <2>1
  <2>3. at[x] = z
    <3>1. at[x] \in Nat /\ z \in Nat
      BY <1>8, <2>1
    <3>2. z \in at[x] .. z
      BY <2>2, <3>1
    <3> QED
      BY <2>1, <2>2, <3>2
  <2>4. x \in Values(u)
    BY <1>5, <1>8, <2>1, <2>3
  <2>5. x \in A
    BY <1>7, <2>1, <2>3, <2>4
  <2> QED
    BY <2>3, <2>5
<1> HIDE DEF A, B, f
<1>12. Cardinality(B) = Cardinality(A)
  BY <1>4, <1>9, <1>10, <1>11, PairedOff
<1> QED
  BY <1>3, <1>12 DEF B

\* Where each "=" of an error has a key before it, the skeleton drops the words
\* that stand for values and keeps all others, however long the text and however
\* its quotes, tokens and signs mix.
THEOREM ShapeDropsValuesCorrect == Spec => []ShapeDropsValues
<1>1. InputInv => ShapeDropsValues
  <2> SUFFICES ASSUME InputInv, input.kind = "shape", HasKeys(input.text)
               PROVE  ShapeDropsValues
    BY DEF ShapeDropsValues
  <2>1. input.text \in Seq(ErrorSymbols)
    BY DEF InputInv, QueryInput, VersionInput, SchemaInput, ErrorInput, ShapeInput
  <2>2. Count(Shape(input.text)) = Cardinality(Values(input.text) \ ValuePositions(input.text))
    BY <2>1, ShapeCount
  <2> QED
    BY <2>2 DEF ShapeDropsValues, Count, Values
<1> QED
  BY <1>1, InputCorrect, PTL
=============================================================================
