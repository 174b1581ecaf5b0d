---------------------------- MODULE AgentEvents ----------------------------
(***************************************************************************)
(* processAgentEvents (agent_runner.go): the event stream of an agent run  *)
(* folded into what the loop needs to know of it.  Texts are left out, and *)
(* so is the 32-bit width of the token counts, which one run does not      *)
(* reach.                                                                  *)
(***************************************************************************)
EXTENDS Naturals, SequencesExt

CONSTANTS
  TokenCounts,  \* what one event may report
  NoResult,     \* the stream ended with an error
  MaxEvents     \* bound: events of one run

ASSUME EventsAssumption == TokenCounts \subseteq Nat /\ MaxEvents \in Nat

\* An event reports tokens and may carry a call of create_advisory and a
\* tool's answer with an exit code other than 0; an error comes without.
Event == [error: {FALSE}, tokens: TokenCounts \cup {0}, calls: BOOLEAN, fails: BOOLEAN]
           \cup {[error |-> TRUE, tokens |-> 0, calls |-> FALSE, fails |-> FALSE]}

Result == [tokens: Nat, advisoryCreated: BOOLEAN, toolErrors: BOOLEAN]

ASSUME NoResultAssumption == NoResult \notin Result

Streams == BoundedSeq(Event, MaxEvents)

\* Mutant: what was collected before the error is returned with it.
addEventKeeping(r, e) ==
  IF e.error THEN r
  ELSE [tokens |-> r.tokens + e.tokens,
        advisoryCreated |-> r.advisoryCreated \/ e.calls,
        toolErrors |-> r.toolErrors \/ e.fails]

\* One round of the loop over the events; an error ends it.
addEvent(r, e) ==
  IF r = NoResult \/ e.error THEN NoResult
  ELSE [tokens |-> r.tokens + e.tokens,
        advisoryCreated |-> r.advisoryCreated \/ e.calls,
        toolErrors |-> r.toolErrors \/ e.fails]

processAgentEvents(events) ==
  FoldLeft(addEvent, [tokens |-> 0, advisoryCreated |-> FALSE, toolErrors |-> FALSE], events)

\* The loop reports the failure of a tool itself.
FallbackDue(r) == r.toolErrors /\ ~r.advisoryCreated

\* What a run that ends without an error may come to.
Results == {processAgentEvents(s) : s \in Streams} \ {NoResult}

\* The events of a run looked at as a whole: whether one is an error, all their
\* tokens, and whether a tool failed with create_advisory called nowhere.
Contents(s) ==
  [error |-> \E i \in DOMAIN s : s[i].error,
   tokens |-> MapThenSumSet(LAMBDA i : s[i].tokens, DOMAIN s),
   unreported |-> /\ \E i \in DOMAIN s : s[i].fails
                  /\ \A i \in DOMAIN s : ~s[i].calls]

\* Streams as the loop takes them and as they are.
Outcomes == {[result |-> processAgentEvents(s), contents |-> Contents(s)] : s \in Streams}

\* An error anywhere drops the whole run; otherwise every event's tokens are
\* counted, and the fallback is due if a failure went unreported.
FoldsRight ==
  \A o \in Outcomes :
    IF o.contents.error
      THEN o.result = NoResult
      ELSE /\ o.result \in Result
           /\ o.result.tokens = o.contents.tokens
           /\ FallbackDue(o.result) <=> o.contents.unreported
=============================================================================
