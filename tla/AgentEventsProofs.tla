------------------------- MODULE AgentEventsProofs -------------------------
(***************************************************************************)
(* What processAgentEvents (agent_runner.go) makes of every stream of      *)
(* events, whatever the token counts and the length.                       *)
(*                                                                         *)
(* Both folds in the statement, FoldLeft of the model and MapThenSumSet of *)
(* the property, are recursive functions on sets of positions.  Instead of *)
(* following the recursion, each is shown equal to an explicit function of *)
(* the set: the sum is the number of elements of a set with one element    *)
(* per token, and the fold is Folded below.  SetInduction is what makes    *)
(* the recursion determine one function.                                   *)
(***************************************************************************)
EXTENDS AgentEvents, FiniteSetTheorems, TLAPS

\* What holds of a set as soon as it holds of the set without any one of its
\* elements holds of every subset of a finite set.
LEMMA SetInduction ==
  ASSUME NEW D, IsFiniteSet(D), NEW Good,
         \A S \in SUBSET D : (\A x \in S : S \ {x} \in Good) => S \in Good
  PROVE  \A S \in SUBSET D : S \in Good
<1> DEFINE Bad == (SUBSET D) \ Good
<1> SUFFICES ASSUME Bad # {} PROVE FALSE
  OBVIOUS
<1>1. IsWellFoundedOn(StrictSubsetOrdering(D), SUBSET D)
  <2>1. IsWellFoundedOn(StrictSubsetOrdering(D), FiniteSubsetsOf(D))
    BY FS_StrictSubsetOrderingWellFounded
  <2> QED
    BY <2>1, FS_FiniteSubsetsOfFinite
<1>2. PICK S \in Bad : \A U \in Bad : <<U, S>> \notin StrictSubsetOrdering(D)
  <2>1. Bad \subseteq SUBSET D
    OBVIOUS
  <2> HIDE DEF Bad
  <2> QED
    BY <1>1, <2>1, WFMin
<1>3. \A x \in S : S \ {x} \in Good
  <2> TAKE x \in S
  <2>1. <<S \ {x}, S>> \in StrictSubsetOrdering(D)
    BY DEF StrictSubsetOrdering
  <2> QED
    BY <1>2, <2>1
<1> QED
  BY <1>3

\* One element for each token that the events at the positions S report.
Units(S, s) == UNION {{i} \X (1..s[i].tokens) : i \in S}

\* The tokens of one event set apart from those of the others.
LEMMA UnitsSplit ==
  ASSUME NEW S, NEW s, NEW x \in S
  PROVE  /\ Units(S, s) = Units(S \ {x}, s) \cup ({x} \X (1..s[x].tokens))
         /\ Units(S \ {x}, s) \cap ({x} \X (1..s[x].tokens)) = {}
BY DEF Units

\* The tokens of one event.
LEMMA Block ==
  ASSUME NEW x, NEW n \in Nat
  PROVE  IsFiniteSet({x} \X (1..n)) /\ Cardinality({x} \X (1..n)) = n
<1>1. IsFiniteSet(1..n) /\ Cardinality(1..n) = n
  BY FS_Interval
<1>2. IsFiniteSet({x}) /\ Cardinality({x}) = 1
  BY FS_Singleton
<1>3. IsFiniteSet({x} \X (1..n)) /\ Cardinality({x} \X (1..n)) = Cardinality({x}) * Cardinality(1..n)
  BY <1>1, <1>2, FS_Product
<1> QED
  BY <1>1, <1>2, <1>3

\* Finitely many events report finitely many tokens.
LEMMA UnitsFinite ==
  ASSUME NEW D, IsFiniteSet(D), NEW s, \A i \in D : s[i].tokens \in Nat
  PROVE  \A S \in SUBSET D : IsFiniteSet(Units(S, s))
<1> DEFINE Good == {S \in SUBSET D : IsFiniteSet(Units(S, s))}
<1>1. \A S \in SUBSET D : (\A x \in S : S \ {x} \in Good) => S \in Good
  <2> SUFFICES ASSUME NEW S \in SUBSET D, \A x \in S : S \ {x} \in Good
               PROVE  IsFiniteSet(Units(S, s))
    OBVIOUS
  <2>1. CASE S = {}
    BY <2>1, FS_EmptySet DEF Units
  <2>2. CASE S # {}
    <3> PICK x \in S : TRUE
      BY <2>2
    <3> DEFINE A == Units(S \ {x}, s)
               B == {x} \X (1..s[x].tokens)
    <3>1. IsFiniteSet(A)
      OBVIOUS
    <3>2. IsFiniteSet(B)
      BY Block
    <3>3. Units(S, s) = A \cup B
      BY UnitsSplit
    <3> HIDE DEF A, B
    <3> QED
      <4>1. IsFiniteSet(A \cup B)
        BY <3>1, <3>2, FS_Union
      <4> QED
        BY <3>3, <4>1
  <2> QED
    BY <2>1, <2>2
<1> HIDE DEF Good
<1>2. \A S \in SUBSET D : S \in Good
  BY <1>1, SetInduction
<1> QED
  BY <1>2 DEF Good

\* Counting the tokens, one event adds what it reports.
LEMMA UnitsCount ==
  ASSUME NEW S, IsFiniteSet(S), NEW s, \A i \in S : s[i].tokens \in Nat
  PROVE  /\ Cardinality(Units(S, s)) \in Nat
         /\ S = {} => Cardinality(Units(S, s)) = 0
         /\ \A x \in S : Cardinality(Units(S, s)) = s[x].tokens + Cardinality(Units(S \ {x}, s))
<1>1. \A T \in SUBSET S : IsFiniteSet(Units(T, s))
  BY UnitsFinite
<1>2. Units({}, s) = {}
  BY DEF Units
<1>3. ASSUME NEW x \in S
      PROVE  Cardinality(Units(S, s)) = s[x].tokens + Cardinality(Units(S \ {x}, s))
  <2> DEFINE A == Units(S \ {x}, s)
             B == {x} \X (1..s[x].tokens)
  <2>1. IsFiniteSet(A) /\ Cardinality(A) \in Nat
    BY <1>1, FS_CardinalityType
  <2>2. IsFiniteSet(B) /\ Cardinality(B) = s[x].tokens
    BY Block
  <2>3. Units(S, s) = A \cup B /\ A \cap B = {}
    BY UnitsSplit
  <2>4. s[x].tokens \in Nat
    OBVIOUS
  <2> HIDE DEF A, B
  <2>5. Cardinality(A \cup B) = Cardinality(A) + Cardinality(B) - Cardinality(A \cap B)
    BY <2>1, <2>2, FS_Union
  <2>6. Cardinality(A \cap B) = 0
    BY <2>3, FS_EmptySet
  <2>7. Cardinality(Units(S, s)) = s[x].tokens + Cardinality(A)
    BY <2>1, <2>2, <2>3, <2>4, <2>5, <2>6
  <2> QED
    BY <2>7 DEF A
<1> QED
  BY <1>1, <1>2, <1>3, FS_EmptySet, FS_CardinalityType

\* The types of an event's fields.
LEMMA EventTokens ==
  ASSUME NEW e \in Event
  PROVE  e.tokens \in Nat /\ e.error \in BOOLEAN /\ e.calls \in BOOLEAN /\ e.fails \in BOOLEAN
<1>1. \A t \in TokenCounts \cup {0} : t \in Nat
  BY EventsAssumption
<1>2. CASE e \in [error: {FALSE}, tokens: TokenCounts \cup {0}, calls: BOOLEAN, fails: BOOLEAN]
  BY <1>1, <1>2
<1>3. CASE e = [error |-> TRUE, tokens |-> 0, calls |-> FALSE, fails |-> FALSE]
  BY <1>3
<1> QED
  BY <1>2, <1>3 DEF Event

\* The reference sum of a stream's tokens is the number of its tokens.
LEMMA SumIsCount ==
  ASSUME NEW n \in Nat, NEW s \in [1..n -> Event]
  PROVE  MapThenSumSet(LAMBDA i : s[i].tokens, DOMAIN s) = Cardinality(Units(DOMAIN s, s))
<1> DEFINE D == 1..n
           any(S) == CHOOSE x \in S : TRUE
           Sums(it) == it = [S \in SUBSET D |-> IF S = {} THEN 0
                                               ELSE s[any(S)].tokens + it[S \ {any(S)}]]
           iter == CHOOSE it : Sums(it)
           count == [S \in SUBSET D |-> Cardinality(Units(S, s))]
<1>1. IsFiniteSet(D) /\ DOMAIN s = D
  BY FS_Interval
<1>2. \A i \in D : s[i].tokens \in Nat
  BY EventTokens
<1>3. \A S \in SUBSET D : IsFiniteSet(S)
  BY <1>1, FS_Subset
<1>4. \A S \in SUBSET D : count[S] = IF S = {} THEN 0
                                     ELSE s[any(S)].tokens + count[S \ {any(S)}]
  <2> TAKE S \in SUBSET D
  <2>1. S # {} => any(S) \in S
    OBVIOUS
  <2> QED
    BY <1>2, <1>3, <2>1, UnitsCount
<1>5. Sums(iter)
  <2>1. Sums(count)
    BY <1>4
  <2> HIDE DEF Sums
  <2> QED
    BY <2>1
<1>6. \A S \in SUBSET D : iter[S] = count[S]
  <2> DEFINE Good == {S \in SUBSET D : iter[S] = count[S]}
  <2>1. \A S \in SUBSET D : (\A x \in S : S \ {x} \in Good) => S \in Good
    <3> SUFFICES ASSUME NEW S \in SUBSET D, \A x \in S : S \ {x} \in Good
                 PROVE  iter[S] = count[S]
      OBVIOUS
    <3> HIDE DEF iter, count
    <3>1. S # {} => any(S) \in S
      OBVIOUS
    <3> QED
      BY <1>4, <1>5, <3>1
  <2> HIDE DEF Good
  <2>2. \A S \in SUBSET D : S \in Good
    BY <1>1, <2>1, SetInduction
  <2> QED
    BY <2>2 DEF Good
<1>7. MapThenSumSet(LAMBDA i : s[i].tokens, D) = iter[D]
  BY DEF MapThenSumSet, MapThenFoldSet
<1> QED
  BY <1>1, <1>6, <1>7

\* What the events at the positions S come to, whatever their order.
Folded(S, s) ==
  IF \E i \in S : s[i].error THEN NoResult
  ELSE [tokens |-> Cardinality(Units(S, s)),
        advisoryCreated |-> \E i \in S : s[i].calls,
        toolErrors |-> \E i \in S : s[i].fails]

\* One round of the loop over the events adds one event to what the others
\* come to; an error, there or earlier, leaves nothing.
LEMMA FoldStep ==
  ASSUME NEW S, IsFiniteSet(S), NEW s, \A i \in S : s[i] \in Event, NEW x \in S
  PROVE  Folded(S, s) = addEvent(Folded(S \ {x}, s), s[x])
<1>1. \A i \in S : s[i].tokens \in Nat
  BY EventTokens
<1>2. /\ Cardinality(Units(S, s)) = s[x].tokens + Cardinality(Units(S \ {x}, s))
      /\ Cardinality(Units(S \ {x}, s)) \in Nat
  <2>1. IsFiniteSet(S \ {x})
    BY FS_RemoveElement
  <2> QED
    BY <1>1, <2>1, UnitsCount
<1>3. CASE \E i \in S : s[i].error
  <2>1. CASE s[x].error
    BY <1>3, <2>1 DEF Folded, addEvent
  <2>2. CASE ~s[x].error
    <3>1. \E i \in S \ {x} : s[i].error
      BY <1>3, <2>2
    <3> QED
      BY <1>3, <3>1 DEF Folded, addEvent
  <2> QED
    BY <2>1, <2>2
<1>4. CASE ~\E i \in S : s[i].error
  <2> DEFINE r == [tokens |-> Cardinality(Units(S \ {x}, s)),
                   advisoryCreated |-> \E i \in S \ {x} : s[i].calls,
                   toolErrors |-> \E i \in S \ {x} : s[i].fails]
  <2>1. Folded(S \ {x}, s) = r
    BY <1>4 DEF Folded
  <2>2. r \in Result
    BY <1>2 DEF Result
  <2>3. r # NoResult
    BY <2>2, NoResultAssumption
  <2>4. ~s[x].error
    BY <1>4
  <2>5. addEvent(r, s[x]) = [tokens |-> Cardinality(Units(S \ {x}, s)) + s[x].tokens,
                             advisoryCreated |-> (\E i \in S \ {x} : s[i].calls) \/ s[x].calls,
                             toolErrors |-> (\E i \in S \ {x} : s[i].fails) \/ s[x].fails]
    BY <2>3, <2>4 DEF addEvent
  <2>6. /\ (\E i \in S : s[i].calls) = ((\E i \in S \ {x} : s[i].calls) \/ s[x].calls)
        /\ (\E i \in S : s[i].fails) = ((\E i \in S \ {x} : s[i].fails) \/ s[x].fails)
    <3>1. s[x].calls \in BOOLEAN /\ s[x].fails \in BOOLEAN
      BY EventTokens
    <3> QED
      BY <3>1
  <2>7. Folded(S, s) = [tokens |-> Cardinality(Units(S, s)),
                        advisoryCreated |-> \E i \in S : s[i].calls,
                        toolErrors |-> \E i \in S : s[i].fails]
    BY <1>4 DEF Folded
  <2>8. Cardinality(Units(S, s)) = Cardinality(Units(S \ {x}, s)) + s[x].tokens
    BY <1>1, <1>2
  <2> QED
    BY <2>1, <2>5, <2>6, <2>7, <2>8
<1> QED
  BY <1>3, <1>4

\* A set of positions has a last one: the event the fold takes last.
LEMMA LastIndex ==
  ASSUME NEW n \in Nat, NEW S \in SUBSET (1..n), S # {}
  PROVE  Max(S) \in S
<1> DEFINE Good == {T \in SUBSET (1..n) : T # {} => \E x \in T : \A y \in T : x >= y}
<1>1. \A T \in SUBSET (1..n) : (\A x \in T : T \ {x} \in Good) => T \in Good
  <2> SUFFICES ASSUME NEW T \in SUBSET (1..n), \A x \in T : T \ {x} \in Good, NEW x \in T
               PROVE  \E m \in T : \A y \in T : m >= y
    OBVIOUS
  <2>1. CASE T \ {x} = {}
    BY <2>1
  <2>2. CASE T \ {x} # {}
    <3> PICK m \in T \ {x} : \A y \in T \ {x} : m >= y
      BY <2>2
    <3>1. m >= x \/ x >= m
      OBVIOUS
    <3>2. CASE m >= x
      BY <3>2
    <3>3. CASE x >= m
      BY <3>3
    <3> QED
      BY <3>1, <3>2, <3>3
  <2> QED
    BY <2>1, <2>2
<1>2. S \in Good
  <2> HIDE DEF Good
  <2>1. IsFiniteSet(1..n)
    BY FS_Interval
  <2> QED
    BY <1>1, <2>1, SetInduction
<1>3. \E x \in S : \A y \in S : x >= y
  BY <1>2
<1> QED
  BY <1>3 DEF Max

\* processAgentEvents comes to what its events come to.
LEMMA FoldIsFolded ==
  ASSUME NEW n \in Nat, NEW s \in [1..n -> Event]
  PROVE  processAgentEvents(s) = Folded(DOMAIN s, s)
<1> DEFINE D == 1..n
           base == [tokens |-> 0, advisoryCreated |-> FALSE, toolErrors |-> FALSE]
           Folds(it) == it = [S \in SUBSET D |-> IF S = {} THEN base
                                                ELSE addEvent(it[S \ {Max(S)}], s[Max(S)])]
           iter == CHOOSE it : Folds(it)
           fold == [S \in SUBSET D |-> Folded(S, s)]
<1>1. IsFiniteSet(D) /\ DOMAIN s = D
  BY FS_Interval
<1>2. \A S \in SUBSET D : S # {} => Max(S) \in S
  BY LastIndex
<1>3. \A S \in SUBSET D : IsFiniteSet(S)
  BY <1>1, FS_Subset
<1>4. \A S \in SUBSET D : fold[S] = IF S = {} THEN base
                                    ELSE addEvent(fold[S \ {Max(S)}], s[Max(S)])
  <2> TAKE S \in SUBSET D
  <2>1. CASE S = {}
    <3>1. Cardinality(Units({}, s)) = 0
      BY FS_EmptySet, UnitsCount
    <3> QED
      BY <2>1, <3>1 DEF Folded
  <2>2. CASE S # {}
    <3>1. Max(S) \in S /\ \A i \in S : s[i] \in Event
      BY <1>2, <2>2
    <3>2. Folded(S, s) = addEvent(Folded(S \ {Max(S)}, s), s[Max(S)])
      BY <1>3, <3>1, FoldStep
    <3> QED
      BY <2>2, <3>1, <3>2
  <2> QED
    BY <2>1, <2>2
<1>5. Folds(iter)
  <2>1. Folds(fold)
    BY <1>4
  <2> HIDE DEF Folds
  <2> QED
    BY <2>1
<1>6. \A S \in SUBSET D : iter[S] = fold[S]
  <2> DEFINE Good == {S \in SUBSET D : iter[S] = fold[S]}
  <2>1. \A S \in SUBSET D : (\A x \in S : S \ {x} \in Good) => S \in Good
    <3> SUFFICES ASSUME NEW S \in SUBSET D, \A x \in S : S \ {x} \in Good
                 PROVE  iter[S] = fold[S]
      OBVIOUS
    <3> HIDE DEF iter, fold
    <3> QED
      BY <1>2, <1>4, <1>5
  <2> HIDE DEF Good
  <2>2. \A S \in SUBSET D : S \in Good
    BY <1>1, <2>1, SetInduction
  <2> QED
    BY <2>2 DEF Good
<1>7. processAgentEvents(s) = iter[DOMAIN s]
  BY DEF processAgentEvents, FoldLeft, MapThenFoldSet
<1> QED
  BY <1>1, <1>6, <1>7

\* The tokens of a stream are a number.
LEMMA ContentsType ==
  ASSUME NEW n \in Nat, NEW s \in [1..n -> Event]
  PROVE  /\ Contents(s).tokens = Cardinality(Units(DOMAIN s, s))
         /\ Contents(s).tokens \in Nat
         /\ Contents(s).error \in BOOLEAN
<1>1. MapThenSumSet(LAMBDA i : s[i].tokens, DOMAIN s) = Cardinality(Units(DOMAIN s, s))
  BY SumIsCount
<1>2. Cardinality(Units(DOMAIN s, s)) \in Nat
  <2>1. IsFiniteSet(DOMAIN s)
    BY FS_Interval
  <2>2. \A i \in DOMAIN s : s[i].tokens \in Nat
    BY EventTokens
  <2> QED
    BY <2>1, <2>2, UnitsCount
<1> QED
  BY <1>1, <1>2 DEF Contents

\* A stream comes to what its events come to as a whole.
LEMMA StreamFoldsRight ==
  ASSUME NEW n \in Nat, NEW s \in [1..n -> Event]
  PROVE  IF Contents(s).error
           THEN processAgentEvents(s) = NoResult
           ELSE /\ processAgentEvents(s) \in Result
                /\ processAgentEvents(s).tokens = Contents(s).tokens
                /\ FallbackDue(processAgentEvents(s)) <=> Contents(s).unreported
<1>1. processAgentEvents(s) = Folded(DOMAIN s, s)
  BY FoldIsFolded
<1>2. /\ Contents(s).error = \E i \in DOMAIN s : s[i].error
      /\ Contents(s).unreported = /\ \E i \in DOMAIN s : s[i].fails
                                  /\ \A i \in DOMAIN s : ~s[i].calls
  BY DEF Contents
<1> QED
  BY <1>1, <1>2, ContentsType DEF Folded, FallbackDue, Result

\* processAgentEvents drops a run whose stream holds an error, wherever it is,
\* and of every other run counts each event's tokens once and leaves a failed
\* tool to the fallback exactly when create_advisory was called nowhere.
THEOREM EventsFoldRight == FoldsRight
<1> SUFFICES ASSUME NEW s \in Streams
             PROVE  IF Contents(s).error
                      THEN processAgentEvents(s) = NoResult
                      ELSE /\ processAgentEvents(s) \in Result
                           /\ processAgentEvents(s).tokens = Contents(s).tokens
                           /\ FallbackDue(processAgentEvents(s)) <=> Contents(s).unreported
  BY DEF FoldsRight, Outcomes
<1>1. PICK n \in Nat : s \in [1..n -> Event]
  BY EventsAssumption DEF Streams, BoundedSeq, SeqOf
<1> QED
  BY <1>1, StreamFoldsRight

\* What a run may find in its stream.
LEMMA OutcomeType ==
  ASSUME NEW o \in Outcomes
  PROVE  o.contents.tokens \in Nat /\ o.contents.error \in BOOLEAN
<1>1. PICK s \in Streams : o.contents = Contents(s)
  BY DEF Outcomes
<1>2. PICK n \in Nat : s \in [1..n -> Event]
  BY EventsAssumption DEF Streams, BoundedSeq, SeqOf
<1> QED
  BY <1>1, <1>2, ContentsType
=============================================================================
