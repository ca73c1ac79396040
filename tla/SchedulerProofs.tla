-------------------------- MODULE SchedulerProofs ---------------------------
(***************************************************************************)
(* Proofs about Scheduler for any finite set of characters and any limit   *)
(* of turns.                                                               *)
(*                                                                         *)
(* OneChance is not inductive: a character that speaks while another one's *)
(* request waits would leave two.  What rules that out is the priority:    *)
(* whoever is deciding while a request waits is its recipient, and every   *)
(* outcome serves it before it may create the next.                        *)
(*                                                                         *)
(* The last part is the safety half of NobodyStarves: while somebody is    *)
(* runnable somebody is chosen, and a dispatch goes to the end of the      *)
(* queue.                                                                  *)
(***************************************************************************)
EXTENDS Scheduler, FiniteSetTheorems, WellFoundedInduction, TLAPS

Covered == \A s \in Agent : \E b \in blocks : s \in b

\* The one request, if any: served next, and never by anybody else.
Single == \A p, q \in asked : p = q
Served == \A q \in asked : \A a \in active : q.to = a
Heard  == \A q \in asked :
            /\ q.to \notin waiting
            /\ q.from # q.to
            /\ \E b \in blocks : {q.from, q.to} \subseteq b

Inv == TypeOK /\ Covered /\ Single /\ Served /\ Heard

\* A set whose members are all equal has at most one.
LEMMA AtMostOne ==
  ASSUME NEW S, \A x, y \in S : x = y
  PROVE  Cardinality(S) <= 1
<1>1. CASE S = {}
  BY <1>1, FS_EmptySet
<1>2. CASE S # {}
  <2>1. PICK x \in S : TRUE
    BY <1>2
  <2>2. S = {x}
    BY <2>1
  <2>. QED  BY <2>2, FS_Singleton
<1>. QED  BY <1>1, <1>2

\* The ranks stay natural numbers.
LEMMA BumpRanks ==
  ASSUME TypeOK, NEW a \in Agent
  PROVE  Bump(a) \in [Agent -> Nat]
<1> DEFINE ranked == {c \in Agent : last[c] > 0} \cup {a}
<1>1. Cardinality(ranked) \in Nat
  <2>1. ranked \subseteq Agent
    OBVIOUS
  <2>. QED  BY <2>1, AgentAssumption, FS_Subset, FS_CardinalityType
<1>. HIDE DEF ranked
<1>2. \A b \in Agent : last[a] > 0 /\ last[b] > last[a] => last[b] - 1 \in Nat
  BY DEF TypeOK
<1>3. \A b \in Agent : last[b] \in Nat
  BY DEF TypeOK
<1>4. Bump(a) = [b \in Agent |-> IF b = a THEN Cardinality(ranked)
                                 ELSE IF last[a] > 0 /\ last[b] > last[a] THEN last[b] - 1
                                 ELSE last[b]]
  BY DEF Bump, ranked
<1>. QED  BY <1>1, <1>2, <1>3, <1>4

\* Everybody is in a line, and stays in one.
LEMMA OwnBlock ==
  ASSUME Covered, NEW a \in Agent
  PROVE  BlockOf(a) \in blocks /\ a \in BlockOf(a)
  BY DEF Covered, BlockOf, Lines!BlockOf

LEMMA MoveCovers ==
  ASSUME TypeOK, Covered, NEW a \in Agent,
         Lines!Leave(a) \/ \E t \in Agent : Lines!Join(a, t)
  PROVE  /\ blocks' \subseteq SUBSET Agent
         /\ Covered'
<1>1. \A s \in Agent : Lines!BlockOf(s) \in blocks /\ s \in Lines!BlockOf(s)
  BY OwnBlock DEF BlockOf
<1>2. /\ Lines!Separate(a) \subseteq SUBSET Agent
      /\ \A s \in Agent \ {a} : \A b \in blocks : s \in b => b \ {a} \in Lines!Separate(a)
  BY DEF Lines!Separate, TypeOK
<1>3. CASE Lines!Leave(a)
  <2>1. blocks' = Lines!Separate(a) \cup {{a}}
    BY <1>3 DEF Lines!Leave
  <2>2. blocks' \subseteq SUBSET Agent
    BY <1>2, <2>1
  <2>3. ASSUME NEW s \in Agent PROVE \E b \in blocks' : s \in b
    <3>1. CASE s = a
      BY <2>1, <3>1
    <3>2. CASE s # a
      <4>1. PICK b \in blocks : s \in b
        BY DEF Covered
      <4>2. b \ {a} \in Lines!Separate(a) /\ s \in b \ {a}
        BY <1>2, <3>2, <4>1
      <4>. QED  BY <2>1, <4>2
    <3>. QED  BY <3>1, <3>2
  <2>. QED  BY <2>2, <2>3 DEF Covered
<1>4. ASSUME NEW t \in Agent, Lines!Join(a, t)
      PROVE  blocks' \subseteq SUBSET Agent /\ Covered'
  <2> DEFINE B == Lines!BlockOf(t)
  <2>1. blocks' = (Lines!Separate(a) \ {B}) \cup {B \cup {a}}
    BY <1>4 DEF Lines!Join
  <2>2. B \in blocks
    BY <1>1
  <2>. HIDE DEF B
  <2>3. blocks' \subseteq SUBSET Agent
    BY <1>2, <2>1, <2>2 DEF TypeOK
  <2>4. ASSUME NEW s \in Agent PROVE \E b \in blocks' : s \in b
    <3>1. CASE s \in B \cup {a}
      BY <2>1, <3>1
    <3>2. CASE s \notin B \cup {a}
      <4>1. PICK b \in blocks : s \in b
        BY DEF Covered
      <4>2. b \ {a} \in Lines!Separate(a) /\ s \in b \ {a} /\ b \ {a} # B
        BY <1>2, <3>2, <4>1
      <4>. QED  BY <2>1, <4>2
    <3>. QED  BY <3>1, <3>2
  <2>. QED  BY <2>3, <2>4 DEF Covered
<1>. QED  BY <1>3, <1>4

LEMMA InitInv == Init => Inv
<1> SUFFICES ASSUME Init PROVE Inv
  OBVIOUS
<1>1. blocks \subseteq SUBSET Agent /\ Covered
  BY DEF Init, Lines!Init, Covered
<1>. QED  BY <1>1, LimitAssumption DEF Init, Inv, TypeOK, Single, Served, Heard

\* A claim while a request waits is its recipient's.
LEMMA ClaimStep ==
  ASSUME Inv, NEW a \in Agent, Claim(a)
  PROVE  Inv'
<1>1. /\ active' = {a} /\ last' = Bump(a) /\ waiting' = waiting \ {a}
      /\ blocks' = blocks /\ turns' = turns /\ asked' = asked
      /\ a \in Choice
  BY DEF Claim
<1>2. TypeOK'
  <2>1. last' \in [Agent -> Nat]
    BY <1>1, BumpRanks DEF Inv
  <2>. QED  BY <1>1, <2>1 DEF Inv, TypeOK
<1>3. \A q \in asked : q.to = a
  <2> SUFFICES ASSUME NEW q \in asked PROVE q.to = a
    OBVIOUS
  <2>1. Prioritised = {q.to}
    BY DEF Inv, Single, Heard, Prioritised, Runnable, TypeOK, Request
  <2>2. Choice \subseteq Prioritised
    BY <2>1 DEF Choice, Oldest
  <2>. QED  BY <1>1, <2>1, <2>2
<1>. QED  BY <1>1, <1>2, <1>3 DEF Inv, Covered, Single, Served, Heard

\* An outcome leaves only the request it creates.
LEMMA CommitStep ==
  ASSUME Inv, NEW a \in Agent, Commit(a)
  PROVE  Inv'
<1>1. active = {a} /\ active' = {} /\ last' = last
  BY DEF Commit
<1>2. Unserved(a) = {}
  BY <1>1 DEF Inv, Served, Unserved
<1>3. Served'
  BY <1>1 DEF Served
<1>4. CASE Decline(a)
  BY <1>1, <1>2, <1>3, <1>4 DEF Decline, Inv, TypeOK, Covered, Single, Heard
<1>5. CASE Behave(a)
  BY <1>1, <1>2, <1>3, <1>5, LimitAssumption DEF Behave, Inv, TypeOK, Covered, Single, Heard
<1>6. ASSUME NEW t \in Agent, NEW to \in {BlockOf(a), {a, t}},
             NEW new \in {{}, {[from |-> a, to |-> t]}}, Speak(a, t, to, new)
      PROVE  Inv'
  <2>1. /\ turns[a] < TurnLimit /\ t \in BlockOf(a) \ {a} /\ waiting' = waiting \ to
        /\ turns' = [turns EXCEPT ![a] = @ + 1] /\ asked' = new /\ blocks' = blocks
    BY <1>2, <1>6 DEF Speak
  <2>2. BlockOf(a) \in blocks /\ a \in BlockOf(a)
    BY OwnBlock DEF Inv
  <2>3. turns' \in [Agent -> 0..TurnLimit]
    <3>1. turns[a] + 1 \in 0..TurnLimit
      BY <2>1, LimitAssumption DEF Inv, TypeOK
    <3>. QED  BY <2>1, <3>1 DEF Inv, TypeOK
  <2>4. TypeOK'
    BY <1>1, <2>1, <2>3 DEF Inv, TypeOK, Request
  <2>5. t \in to /\ {a, t} \subseteq BlockOf(a)
    BY <2>1, <2>2
  <2>6. Heard'
    BY <2>1, <2>2, <2>5 DEF Heard
  <2>. QED  BY <1>3, <2>1, <2>4, <2>6 DEF Inv, Covered, Single
<1>7. CASE Move(a)
  <2>1. asked' = {} /\ turns' = [turns EXCEPT ![a] = 0] /\ waiting' \subseteq waiting
    BY <1>2, <1>7 DEF Move
  <2>2. blocks' \subseteq SUBSET Agent /\ Covered'
    BY <1>7, MoveCovers DEF Move, Inv
  <2>3. turns' \in [Agent -> 0..TurnLimit]
    BY <2>1, LimitAssumption DEF Inv, TypeOK
  <2>. QED  BY <1>1, <1>3, <2>1, <2>2, <2>3 DEF Inv, TypeOK, Single, Heard
<1>. QED  BY <1>4, <1>5, <1>6, <1>7 DEF Commit

LEMMA StepInv == Inv /\ [Next]_vars => Inv'
<1> SUFFICES ASSUME Inv, [Next]_vars PROVE Inv'
  OBVIOUS
<1>1. ASSUME NEW a \in Agent, Claim(a) PROVE Inv'
  BY <1>1, ClaimStep
<1>2. ASSUME NEW a \in Agent, Abandon(a) PROVE Inv'
  BY <1>2 DEF Abandon, Inv, TypeOK, Covered, Single, Served, Heard
<1>3. ASSUME NEW a \in Agent, Commit(a) PROVE Inv'
  BY <1>3, CommitStep
<1>4. CASE UNCHANGED vars
  BY <1>4 DEF vars, Inv, TypeOK, Covered, Single, Served, Heard
<1>. QED  BY <1>1, <1>2, <1>3, <1>4 DEF Next

\* At most one request waits for its dispatch, and the next choice serves it.
THEOREM RequestsGetOneChance == Spec => []OneChance
<1>1. Inv => OneChance
  BY AtMostOne DEF Inv, Single, Heard, OneChance
<1>. QED  BY <1>1, InitInv, StepInv, PTL DEF Spec

-----------------------------------------------------------------------------
(* The queue.  NobodyStarves rests on two facts that need no fairness.     *)

Dispatched == {c \in Agent : last[c] > 0}

\* Ranks are distinct, and none is above the number of those who have one.
Ranked ==
  /\ \A a \in Agent : last[a] <= Cardinality(Dispatched)
  /\ \A a, b \in Agent : last[a] = last[b] /\ last[a] > 0 => a = b

\* Whoever is runnable, somebody runnable is chosen: the runner reports an idle
\* World only when everybody waits.
SomebodyIsChosen ==
  /\ Choice \subseteq Runnable
  /\ Runnable # {} => Choice # {}

\* A dispatch sends its character to the end of the queue, whatever comes of
\* it.  Nothing else changes the order of the characters, and nobody falls back.
QueueMovesUp ==
  [][last' # last =>
       \E a \in Agent :
         /\ active' = {a}
         /\ \A b \in Agent \ {a} :
              /\ last'[b] < last'[a] /\ last'[b] <= last[b]
              /\ \A c \in Agent \ {a} : last'[b] < last'[c] <=> last[b] < last[c]]_vars

\* A set of ranks has a least one.
LEMMA LeastRank ==
  ASSUME NEW S, S \subseteq Nat, S # {}
  PROVE  \E x \in S : \A y \in S : x <= y
<1> DEFINE R == {ss \in Nat \X Nat : ss[1] < ss[2]}
<1>1. IsWellFoundedOn(R, Nat)
  BY NatLessThanWellFounded DEF OpToRel
<1>. HIDE DEF R
<1>2. PICK x \in S : \A y \in S : <<y, x>> \notin R
  BY <1>1, WFMin
<1>3. \A y \in S : x \in Nat /\ y \in Nat /\ ~(y < x)
  BY <1>2 DEF R
<1>4. \A y \in S : x <= y
  BY <1>3
<1>. QED  BY <1>4

\* A bounded one has a greatest.
LEMMA GreatestRank ==
  ASSUME NEW n \in Nat, NEW S, S \subseteq 0..n, S # {}
  PROVE  \E x \in S : \A y \in S : y <= x
<1> DEFINE T == {n - y : y \in S}
<1>0. \A y \in S : n - y \in Nat
  OBVIOUS
<1>1. T \subseteq Nat /\ T # {}
  BY <1>0
<1>2. PICK t \in T : \A u \in T : t <= u
  BY <1>1, LeastRank
<1>3. PICK x \in S : t = n - x
  BY <1>2
<1>4. ASSUME NEW y \in S PROVE y <= x
  <2>1. n - y \in T
    OBVIOUS
  <2>2. n - x <= n - y
    BY <1>2, <1>3, <2>1
  <2>. QED  BY <2>2
<1>. QED  BY <1>4

\* How many have had a dispatch.
LEMMA DispatchedCount ==
  /\ IsFiniteSet(Dispatched) /\ Cardinality(Dispatched) \in Nat
  /\ \A a \in Agent : /\ Cardinality(Dispatched \cup {a}) \in Nat \ {0}
                      /\ a \notin Dispatched =>
                           Cardinality(Dispatched \cup {a}) = Cardinality(Dispatched) + 1
<1>1. IsFiniteSet(Dispatched)
  BY AgentAssumption, FS_Subset DEF Dispatched
<1>2. Cardinality(Dispatched) \in Nat
  BY <1>1, FS_CardinalityType
<1>3. ASSUME NEW a \in Agent
      PROVE  /\ Cardinality(Dispatched \cup {a}) \in Nat \ {0}
             /\ a \notin Dispatched =>
                  Cardinality(Dispatched \cup {a}) = Cardinality(Dispatched) + 1
  <2>1. /\ IsFiniteSet(Dispatched \cup {a})
        /\ Cardinality(Dispatched \cup {a}) =
             IF a \in Dispatched THEN Cardinality(Dispatched) ELSE Cardinality(Dispatched) + 1
    BY <1>1, FS_AddElement
  <2>2. Cardinality(Dispatched \cup {a}) \in Nat /\ Cardinality(Dispatched \cup {a}) # 0
    BY <2>1, FS_CardinalityType, FS_EmptySet
  <2>. QED  BY <2>1, <2>2
<1>. QED  BY <1>1, <1>2, <1>3

\* A claim closes the gap that a leaves and puts it last.
LEMMA BumpMovesUp ==
  ASSUME TypeOK, Ranked, NEW a \in Agent, last' = Bump(a)
  PROVE  /\ Ranked'
         /\ \A b \in Agent \ {a} :
              /\ last'[b] < last'[a] /\ last'[b] <= last[b]
              /\ \A c \in Agent \ {a} : last'[b] < last'[c] <=> last[b] < last[c]
<1> DEFINE n == Cardinality(Dispatched \cup {a})
<1>1. /\ n \in Nat \ {0} /\ Cardinality(Dispatched) \in Nat
      /\ last[a] = 0 => n = Cardinality(Dispatched) + 1
      /\ last[a] > 0 => n = Cardinality(Dispatched)
  <2>1. last[a] > 0 => Dispatched \cup {a} = Dispatched
    BY DEF Dispatched
  <2>2. last[a] = 0 => a \notin Dispatched
    BY DEF Dispatched
  <2>. QED  BY <2>1, <2>2, DispatchedCount
<1>2. /\ last'[a] = n
      /\ \A b \in Agent \ {a} :
           last'[b] = IF last[a] > 0 /\ last[b] > last[a] THEN last[b] - 1 ELSE last[b]
  BY DEF Bump, Dispatched
<1>. HIDE DEF n
<1>3. /\ \A b \in Agent : last[b] \in Nat /\ last[b] <= Cardinality(Dispatched)
      /\ \A b \in Agent \ {a} : last[a] > 0 => last[b] # last[a]
  BY DEF TypeOK, Ranked
<1>4. ASSUME NEW b \in Agent \ {a}
      PROVE  /\ last'[b] < n /\ last'[b] <= last[b] /\ last'[b] \in Nat
             /\ last'[b] > 0 <=> last[b] > 0
  BY <1>1, <1>2, <1>3
<1>5. ASSUME NEW b \in Agent \ {a}, NEW c \in Agent \ {a}
      PROVE  /\ last'[b] < last'[c] <=> last[b] < last[c]
             /\ last'[b] = last'[c] <=> last[b] = last[c]
  BY <1>2, <1>3
<1>6. Dispatched' = Dispatched \cup {a}
  BY <1>1, <1>2, <1>4 DEF Dispatched
<1>7. \A b \in Agent : last'[b] <= n
  BY <1>1, <1>2, <1>4
<1>8. ASSUME NEW b \in Agent, NEW c \in Agent, last'[b] = last'[c], last'[b] > 0 PROVE b = c
  <2>1. CASE b = a \/ c = a
    BY <1>1, <1>2, <1>4, <1>8, <2>1
  <2>2. CASE b # a /\ c # a
    <3>1. last[b] = last[c] /\ last[b] > 0
      BY <1>4, <1>5, <1>8, <2>2
    <3>. QED  BY <3>1 DEF Ranked
  <2>. QED  BY <2>1, <2>2
<1>9. Cardinality(Dispatched') = n
  BY <1>6 DEF n
<1>10. Ranked'
  BY <1>7, <1>8, <1>9 DEF Ranked
<1>. QED  BY <1>2, <1>4, <1>5, <1>10

\* Nobody has a rank at first.
LEMMA InitRanked == Init => Ranked
  BY DispatchedCount DEF Init, Ranked

\* Only a claim changes ranks.
LEMMA StepRanked ==
  ASSUME TypeOK, Ranked, [Next]_vars
  PROVE  Ranked' /\ (last' = last \/ \E a \in Agent : active' = {a} /\ last' = Bump(a))
<1>1. ASSUME NEW a \in Agent, Claim(a) PROVE active' = {a} /\ last' = Bump(a)
  BY <1>1 DEF Claim
<1>2. (\E a \in Agent : Abandon(a) \/ Commit(a)) \/ UNCHANGED vars => last' = last
  BY DEF Abandon, Commit, vars
<1>3. last' = last \/ \E a \in Agent : active' = {a} /\ last' = Bump(a)
  BY <1>1, <1>2 DEF Next
<1>4. last' = last => Ranked'
  BY DEF Ranked, Dispatched
<1>. QED  BY <1>3, <1>4, BumpMovesUp

\* Of some characters there is one that was dispatched least recently.
LEMMA OldestExists ==
  ASSUME TypeOK, NEW S, S \subseteq Agent, S # {}
  PROVE  Oldest(S) # {}
<1>1. {last[a] : a \in S} \subseteq Nat /\ {last[a] : a \in S} # {}
  BY DEF TypeOK
<1>2. PICK n \in {last[a] : a \in S} : \A m \in {last[a] : a \in S} : n <= m
  BY <1>1, LeastRank
<1>3. PICK a \in S : last[a] = n
  BY <1>2
<1>4. \A b \in S : last[a] <= last[b]
  BY <1>2, <1>3
<1>. QED  BY <1>3, <1>4 DEF Oldest

\* Every line with somebody in it has a rank.
LEMMA FrontierRank ==
  ASSUME TypeOK, Ranked, NEW b \in blocks, b # {}
  PROVE  Frontier(b) \in Nat
<1> DEFINE ranks == {last[a] : a \in b}
<1>1. Cardinality(Dispatched) \in Nat
  BY DispatchedCount
<1>2. ranks \subseteq 0..Cardinality(Dispatched) /\ ranks # {}
  BY <1>1 DEF TypeOK, Ranked
<1>3. PICK n \in ranks : \A m \in ranks : m <= n
  BY <1>1, <1>2, GreatestRank
<1>4. \E m \in ranks : \A a \in b : last[a] <= m
  BY <1>3
<1>5. Frontier(b) \in ranks
  BY <1>4 DEF Frontier
<1>. QED  BY <1>2, <1>5

\* A line with somebody runnable that is as old as any of them exists.
LEMMA ChosenExists ==
  ASSUME Inv, Ranked
  PROVE  SomebodyIsChosen
<1> DEFINE runnable == {b \in blocks : b \cap Runnable # {}}
           next == {b \in runnable : \A c \in runnable : Frontier(b) <= Frontier(c)}
<1>0. TypeOK /\ Runnable \subseteq Agent
  BY DEF Inv, Runnable
<1>1. CASE Prioritised # {}
  <2>1. Choice = Oldest(Prioritised) /\ Prioritised \subseteq Runnable
    BY <1>1 DEF Choice, Prioritised
  <2>2. Oldest(Prioritised) # {}
    BY <1>0, <1>1, <2>1, OldestExists
  <2>. QED  BY <2>1, <2>2 DEF SomebodyIsChosen, Oldest
<1>2. CASE Prioritised = {}
  <2>1. Choice = UNION {Oldest(b \cap Runnable) : b \in next}
    BY <1>2 DEF Choice
  <2>2. Choice \subseteq Runnable
    BY <2>1 DEF Oldest
  <2>3. ASSUME Runnable # {} PROVE Choice # {}
    <3>1. PICK a \in Runnable : TRUE
      BY <2>3
    <3>2. runnable # {}
      BY <1>0, <3>1 DEF Inv, Covered
    <3>3. {Frontier(b) : b \in runnable} \subseteq Nat /\ {Frontier(b) : b \in runnable} # {}
      BY <1>0, <3>2, FrontierRank
    <3>4. PICK n \in {Frontier(b) : b \in runnable} : \A m \in {Frontier(b) : b \in runnable} : n <= m
      BY <3>3, LeastRank
    <3>5. PICK b \in runnable : Frontier(b) = n
      BY <3>4
    <3>6. b \in next
      BY <3>4, <3>5
    <3>7. Oldest(b \cap Runnable) # {}
      BY <1>0, OldestExists
    <3>. QED  BY <2>1, <3>6, <3>7
  <2>. QED  BY <2>2, <2>3 DEF SomebodyIsChosen
<1>. QED  BY <1>1, <1>2

\* The runner finds somebody to dispatch whenever somebody is runnable.
THEOREM NeverIdleTooEarly == Spec => []SomebodyIsChosen
<1>1. Init => Inv /\ Ranked
  BY InitInv, InitRanked
<1>2. Inv /\ Ranked /\ [Next]_vars => (Inv /\ Ranked)'
  BY StepInv, StepRanked DEF Inv
<1>. QED  BY <1>1, <1>2, ChosenExists, PTL DEF Spec

\* Each dispatch moves its character to the end of the queue and everybody
\* else forward or nowhere, in the same order.
THEOREM DispatchedGoesLast == Spec => QueueMovesUp
<1>1. Init => Inv /\ Ranked
  BY InitInv, InitRanked
<1>2. Inv /\ Ranked /\ [Next]_vars => (Inv /\ Ranked)'
  BY StepInv, StepRanked DEF Inv
<1>3. ASSUME Inv, Ranked, [Next]_vars
      PROVE  [last' # last =>
                \E a \in Agent :
                  /\ active' = {a}
                  /\ \A b \in Agent \ {a} :
                       /\ last'[b] < last'[a] /\ last'[b] <= last[b]
                       /\ \A c \in Agent \ {a} : last'[b] < last'[c] <=> last[b] < last[c]]_vars
  <2>1. CASE last' = last
    BY <2>1
  <2>2. ASSUME NEW a \in Agent, active' = {a}, last' = Bump(a)
        PROVE  \A b \in Agent \ {a} :
                 /\ last'[b] < last'[a] /\ last'[b] <= last[b]
                 /\ \A c \in Agent \ {a} : last'[b] < last'[c] <=> last[b] < last[c]
    BY <1>3, <2>2, BumpMovesUp DEF Inv
  <2>. QED  BY <1>3, <2>1, <2>2, StepRanked DEF Inv
<1>. QED  BY <1>1, <1>2, <1>3, PTL DEF Spec, QueueMovesUp

=============================================================================
