----------------------------- MODULE Scheduler -----------------------------
(***************************************************************************)
(* Whose turn it is: the selection of WorldRunner, on the little of the    *)
(* World that it depends on.  Versions, entries and line keys are gone; of *)
(* a dispatch count only the order remains, of a wait threshold only       *)
(* whether an entry has been visible since, and ties that the code breaks  *)
(* by identifier are broken anyhow.  Its behaviours are infinite and its   *)
(* states are few, so that liveness can be checked; WorldRuntime, with the *)
(* rows, implements it.                                                    *)
(***************************************************************************)
EXTENDS Naturals, FiniteSets

CONSTANTS
  Agent,
  TurnLimit,   \* consecutive dialogue turns a character may take
  Broken       \* characters whose model calls may all fail

ASSUME AgentAssumption == IsFiniteSet(Agent) /\ Broken \subseteq Agent
ASSUME LimitAssumption == TurnLimit \in Nat

VARIABLES
  blocks,    \* who is in one story line with whom
  last,      \* rank of each character's last dispatch, 0 before the first
  waiting,   \* the characters that wait for an entry they can see
  turns,     \* consecutive dialogue turns of each character
  asked,     \* pending requests whose recipient had no priority dispatch yet
  active     \* {} or the singleton of the character that is deciding

vars == <<blocks, last, waiting, turns, asked, active>>

Lines == INSTANCE SessionBlocks WITH Session <- Agent

BlockOf(a) == Lines!BlockOf(a)

Init ==
  /\ Lines!Init
  /\ last = [a \in Agent |-> 0]
  /\ waiting = {}
  /\ turns = [a \in Agent |-> 0]
  /\ asked = {}
  /\ active = {}

-----------------------------------------------------------------------------
(* next_dispatch                                                           *)

Runnable == Agent \ waiting

\* Of the characters of S, those dispatched least recently.
Oldest(S) == {a \in S : \A b \in S : last[a] <= last[b]}

\* The recipients that are runnable come before everybody else.
Prioritised == {q.to : q \in asked} \cap Runnable

\* A line is as recent as its most recent member, who may well be waiting.
Frontier(b) == CHOOSE n \in {last[a] : a \in b} : \A a \in b : last[a] <= n

\* Faulty: within the line the most recent speaker goes on.
MostRecentFirst(S) == {a \in S : \A b \in S : last[a] >= last[b]}
NewestChoice ==
  IF Prioritised # {}
    THEN Oldest(Prioritised)
    ELSE LET runnable == {b \in blocks : b \cap Runnable # {}}
             next == {b \in runnable : \A c \in runnable : Frontier(b) <= Frontier(c)}
         IN UNION {MostRecentFirst(b \cap Runnable) : b \in next}

Choice ==
  IF Prioritised # {}
    THEN Oldest(Prioritised)
    ELSE LET runnable == {b \in blocks : b \cap Runnable # {}}
             next == {b \in runnable : \A c \in runnable : Frontier(b) <= Frontier(c)}
         IN UNION {Oldest(b \cap Runnable) : b \in next}

\* claim_dispatch gives a the highest count; the ranks close up behind it.
Bump(a) ==
  [b \in Agent |->
     IF b = a THEN Cardinality({c \in Agent : last[c] > 0} \cup {a})
     ELSE IF last[a] > 0 /\ last[b] > last[a] THEN last[b] - 1
     ELSE last[b]]

Claim(a) ==
  /\ active = {}
  /\ a \in Choice
  /\ active' = {a}
  /\ last' = Bump(a)
  /\ waiting' = waiting \ {a}
  /\ UNCHANGED <<blocks, turns, asked>>

-----------------------------------------------------------------------------
(* The outcome of an attempt.                                              *)

\* No outcome: the call failed, or a pause or a crash overtook it.  The
\* request that gave the priority keeps it.
Abandon(a) ==
  /\ active = {a}
  /\ active' = {}
  /\ UNCHANGED <<blocks, last, waiting, turns, asked>>

\* Faulty: a character that does nothing keeps its priority.
DeclineKeepsPriority(a) ==
  /\ waiting' = waiting \cup {a}
  /\ UNCHANGED <<blocks, turns, asked>>

Unserved(a) == {q \in asked : q.to # a}

\* wait or no-op.
Decline(a) ==
  /\ waiting' = waiting \cup {a}
  /\ asked' = Unserved(a)
  /\ UNCHANGED <<blocks, turns>>

\* A behaviour or an object operation, seen by the whole line.
Behave(a) ==
  /\ waiting' = waiting \ BlockOf(a)
  /\ turns' = [turns EXCEPT ![a] = 0]
  /\ asked' = Unserved(a)
  /\ UNCHANGED blocks

\* Faulty: talking has no end.
SpeakForever(a, t, to, new) ==
  /\ t \in BlockOf(a) \ {a}
  /\ waiting' = waiting \ to
  /\ asked' = Unserved(a) \cup new
  /\ UNCHANGED <<blocks, turns>>

\* An utterance or a response to t, with the request it may create.
Speak(a, t, to, new) ==
  /\ turns[a] < TurnLimit
  /\ t \in BlockOf(a) \ {a}
  /\ waiting' = waiting \ to
  /\ turns' = [turns EXCEPT ![a] = @ + 1]
  /\ asked' = Unserved(a) \cup new
  /\ UNCHANGED blocks

\* Whoever is affected sees it; requests across the new lines are cancelled.
Move(a) ==
  /\ \/ Lines!Leave(a) /\ waiting' = waiting \ BlockOf(a)
     \/ \E t \in Agent : Lines!Join(a, t) /\ waiting' = waiting \ (BlockOf(a) \cup BlockOf(t))
  /\ turns' = [turns EXCEPT ![a] = 0]
  /\ asked' = {q \in Unserved(a) : \E b \in blocks' : {q.from, q.to} \subseteq b}

Commit(a) ==
  /\ active = {a}
  /\ \/ Decline(a)
     \/ Behave(a)
     \/ \E t \in Agent : \E to \in {BlockOf(a), {a, t}} :
          \E new \in {{}, {[from |-> a, to |-> t]}} :
            Speak(a, t, to, new)
     \/ Move(a)
  /\ active' = {}
  /\ UNCHANGED last

Next == \E a \in Agent : Claim(a) \/ Abandon(a) \/ Commit(a)

Spec == Init /\ [][Next]_vars

\* Runs go on as long as somebody is runnable, every attempt ends, and the
\* calls of a character that is not broken do not all fail.
FairSpec ==
  /\ Spec
  /\ WF_vars(\E a \in Agent : Claim(a))
  /\ \A a \in Agent : WF_vars(Abandon(a) \/ Commit(a))
  /\ \A a \in Agent \ Broken : SF_vars(Commit(a))

-----------------------------------------------------------------------------
(* Properties.                                                             *)

Request == [from : Agent, to : Agent]

TypeOK ==
  /\ blocks \subseteq SUBSET Agent
  /\ last \in [Agent -> Nat]
  /\ waiting \subseteq Agent
  /\ turns \in [Agent -> 0..TurnLimit]
  /\ asked \subseteq Request
  /\ active \subseteq Agent

\* At most one request awaits its priority dispatch.  Its recipient is in the
\* line of the one who asks and does not wait, so the next choice is certain
\* and the World never goes idle on it.
OneChance ==
  /\ TypeOK
  /\ Cardinality(asked) <= 1
  /\ \A q \in asked :
       /\ q.to \notin waiting
       /\ q.from # q.to
       /\ \E b \in blocks : {q.from, q.to} \subseteq b

\* A request whose recipient is broken waits for its dispatch.
BrokenIsAsked == \E q \in asked : q.to \in Broken

\* A runnable character gets its turn, however the others talk, ask each
\* other, join and leave and however often the broken ones fail, unless in the
\* end a broken one is asked for a response that it never gives.
NobodyStarves ==
  \/ \A a \in Agent : a \notin waiting ~> active = {a}
  \/ <>[]BrokenIsAsked

\* Requests cannot follow each other for ever: again and again there is a
\* moment when each recipient has had its dispatch and others can be chosen.
RequestChainsEnd == (asked # {} ~> asked = {}) \/ <>[]BrokenIsAsked

\* M4_dev_log.md: since the dispatch counts before the call, a character that
\* always fails cannot hold the head of the queue for ever.
BrokenDoNotBlock == \A a \in Agent \ Broken : a \notin waiting ~> active = {a}
=============================================================================
