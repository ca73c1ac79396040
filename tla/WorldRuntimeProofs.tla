------------------------- MODULE WorldRuntimeProofs -------------------------
(***************************************************************************)
(* Proofs about WorldRuntime for every finite set of characters, every     *)
(* placement and every bound.                                              *)
(*                                                                         *)
(* The seven kinds of decision write in three ways only (Quiet, Tells and  *)
(* Moved): nothing, an entry on the actor's line, an entry on its new line *)
(* for everybody that a transition affects.  WorldInv is kept by the three *)
(* and by the steps of the runner.  Its heart is CurrentLines: whoever is  *)
(* on a line now is who its entries were for.  TurnInv adds that at most   *)
(* one request is open and that its recipient is the one chosen; with it   *)
(* every step of the rows is one of EventSession and one of Scheduler.     *)
(***************************************************************************)
EXTENDS WorldRuntime, FiniteSetTheorems, WellFoundedInduction, TLAPS

\* The proofs about the topology, on the rows of this World.
Rows == INSTANCE EventSessionProofs WITH Session <- Agent

-----------------------------------------------------------------------------
(* Orders: what the selection and the view take the least or the last of.  *)

\* A set of natural numbers has a least element.
LEMMA LeastNatural ==
  ASSUME NEW S, S \subseteq Nat, S # {}
  PROVE  \E x \in S : \A y \in S : x <= y
<1> DEFINE R == {ss \in Nat \X Nat : ss[1] < ss[2]}
<1>1. IsWellFoundedOn(R, Nat)
  BY NatLessThanWellFounded DEF OpToRel
<1>. HIDE DEF R
<1>2. PICK x \in S : \A y \in S : <<y, x>> \notin R
  BY <1>1, WFMin
<1>3. \A y \in S : x \in Nat /\ y \in Nat /\ ~(y < x)
  BY <1>2 DEF R
<1>4. \A y \in S : x <= y
  BY <1>3
<1>. QED  BY <1>4

\* A bounded one has a greatest element.
LEMMA GreatestNatural ==
  ASSUME NEW n \in Nat, NEW S, S \subseteq 0..n, S # {}
  PROVE  \E x \in S : \A y \in S : y <= x
<1> DEFINE T == {n - y : y \in S}
<1>0. \A y \in S : n - y \in Nat
  OBVIOUS
<1>1. T \subseteq Nat /\ T # {}
  BY <1>0
<1>2. PICK t \in T : \A u \in T : t <= u
  BY <1>1, LeastNatural
<1>3. PICK x \in S : t = n - x
  BY <1>2
<1>4. ASSUME NEW y \in S PROVE y <= x
  <2>1. n - y \in T
    OBVIOUS
  <2>2. n - x <= n - y
    BY <1>2, <1>3, <2>1
  <2>. QED  BY <2>2
<1>. QED  BY <1>4

\* A set of characters has a least element.
LEMMA LeastAgent ==
  ASSUME NEW S \in SUBSET Agent, S # {}
  PROVE  \E x \in S : \A y \in S : x <= y
<1> DEFINE Least(B) == \E x \in B : \A y \in B : x <= y
           Bad == {B \in SUBSET Agent : B # {} /\ ~Least(B)}
<1>1. SUFFICES ASSUME Bad # {} PROVE FALSE
  OBVIOUS
<1>2. IsWellFoundedOn(StrictSubsetOrdering(Agent), SUBSET Agent)
  BY AgentAssumption, FS_StrictSubsetOrderingWellFounded, FS_FiniteSubsetsOfFinite
<1>3. PICK B \in Bad : \A C \in Bad : <<C, B>> \notin StrictSubsetOrdering(Agent)
  BY <1>1, <1>2, WFMin
<1>4. PICK x \in B : TRUE
  BY <1>3
<1> DEFINE C == B \ {x}
<1>5. C \in SUBSET Agent /\ C \subseteq B /\ C # B
  BY <1>3, <1>4
<1>6. <<C, B>> \in StrictSubsetOrdering(Agent)
  BY <1>3, <1>5 DEF StrictSubsetOrdering
<1>7. C \notin Bad
  BY <1>3, <1>6
<1>8. CASE C = {}
  <2>1. B = {x}
    BY <1>4, <1>8
  <2>2. Least(B)
    BY <1>3, <2>1, AgentAssumption
  <2>. QED  BY <1>3, <2>2
<1>9. CASE C # {}
  <2>1. PICK y \in C : \A z \in C : y <= z
    BY <1>5, <1>7, <1>9
  <2>2. x \in Int /\ y \in Int /\ B \subseteq Int /\ y \in B
    BY <1>3, <1>4, <2>1, AgentAssumption
  <2>3. \A z \in B : z = x \/ y <= z
    BY <2>1
  <2>4. CASE x <= y
    <3>1. \A z \in B : x <= z
      BY <2>2, <2>3, <2>4
    <3>. QED  BY <1>3, <1>4, <3>1
  <2>5. CASE ~(x <= y)
    <3>1. \A z \in B : y <= z
      BY <2>2, <2>3, <2>5
    <3>. QED  BY <1>3, <2>2, <3>1
  <2>. QED  BY <2>4, <2>5
<1>. QED  BY <1>8, <1>9

\* What EventSession assumes of its sessions holds of the characters.
LEMMA RowsAssumptions == Rows!SessionAssumption /\ Rows!VersionAssumption
BY LeastAgent, AgentAssumption, BoundAssumption DEF Rows!SessionAssumption, Rows!VersionAssumption

\* Sets whose subsets have least elements: of characters and of versions.
WellOrdered(S) == S \subseteq Int /\ \A T \in SUBSET S : T # {} => \E x \in T : \A y \in T : x <= y

\* The characters and the versions are such sets, and so are their subsets.
LEMMA OrderedSets ==
  /\ \A S \in SUBSET Agent : WellOrdered(S)
  /\ \A S \in SUBSET Nat : WellOrdered(S)
<1>1. \A S \in SUBSET Agent : WellOrdered(S)
  BY LeastAgent, AgentAssumption DEF WellOrdered
<1>2. ASSUME NEW S \in SUBSET Nat PROVE WellOrdered(S)
  <2>1. S \subseteq Int
    OBVIOUS
  <2>2. ASSUME NEW T \in SUBSET S, T # {} PROVE \E x \in T : \A y \in T : x <= y
    BY <2>2, LeastNatural
  <2>. QED  BY <2>1, <2>2 DEF WellOrdered
<1>. QED  BY <1>1, <1>2

\* There is a first element by a number and then by itself.
LEMMA FirstExists ==
  ASSUME NEW S, WellOrdered(S), S # {}, NEW f \in [S -> Nat]
  PROVE  \E x \in S : \A y \in S : Before(<<f[x], x>>, <<f[y], y>>)
<1>1. PICK n \in {f[x] : x \in S} : \A m \in {f[x] : x \in S} : n <= m
  <2>1. {f[x] : x \in S} \subseteq Nat /\ {f[x] : x \in S} # {}
    OBVIOUS
  <2>. QED  BY <2>1, LeastNatural
<1> DEFINE T == {x \in S : f[x] = n}
<1>2. T \in SUBSET S /\ T # {}
  BY <1>1
<1>3. PICK x \in T : \A y \in T : x <= y
  BY <1>2 DEF WellOrdered
<1>4. ASSUME NEW y \in S PROVE Before(<<f[x], x>>, <<f[y], y>>)
  <2>1. f[x] = n /\ n \in Nat /\ f[y] \in Nat /\ n <= f[y] /\ x \in Int /\ y \in Int
    BY <1>1, <1>3 DEF WellOrdered
  <2>2. CASE f[y] = n
    <3>1. x <= y
      BY <1>3, <2>2
    <3>. QED  BY <2>1, <2>2, <3>1 DEF Before
  <2>3. CASE f[y] # n
    BY <2>1, <2>3 DEF Before
  <2>. QED  BY <2>2, <2>3
<1>. QED  BY <1>3, <1>4

-----------------------------------------------------------------------------
(* The topology rows.                                                      *)

\* The two instances of EventSession say the same.
LEMMA SameRows ==
  /\ Rows!TypeOK <=> Topology!TypeOK
  /\ Rows!TopologyInv <=> Topology!TopologyInv
  /\ \A a : Rows!Members(a) = Members(a)
  /\ \A a, b : Rows!Join(a, b) <=> Topology!Join(a, b)
  /\ \A a : Rows!Leave(a) <=> Topology!Leave(a)
<1>1. /\ Rows!TypeOK <=> Topology!TypeOK
      /\ Rows!TopologyInv <=> Topology!TopologyInv
  BY DEF Rows!TypeOK, Topology!TypeOK, Rows!TopologyInv, Topology!TopologyInv
<1>2. \A a : Rows!Members(a) = Topology!Members(a)
  BY DEF Rows!Members, Topology!Members
<1>3. \A a, b : Rows!JoinPartition(a, b) = Topology!JoinPartition(a, b)
  BY DEF Rows!JoinPartition, Topology!JoinPartition, Rows!Members, Topology!Members,
         Rows!PartitionOf, Topology!PartitionOf, Rows!Merge, Topology!Merge,
         Rows!Split, Topology!Split, Rows!SplitOff, Topology!SplitOff,
         Rows!RemainingRoot, Topology!RemainingRoot, Rows!Least, Topology!Least
<1>4. \A a : Rows!LeavePartition(a) = Topology!LeavePartition(a)
  BY DEF Rows!LeavePartition, Topology!LeavePartition, Rows!Members, Topology!Members,
         Rows!PartitionOf, Topology!PartitionOf, Rows!Split, Topology!Split,
         Rows!SplitOff, Topology!SplitOff, Rows!RemainingRoot, Topology!RemainingRoot,
         Rows!Least, Topology!Least
<1>5. \A A, f : Rows!ApplyTransition(A, f) <=> Topology!ApplyTransition(A, f)
  BY DEF Rows!ApplyTransition, Topology!ApplyTransition
<1>6. \A a, b : Rows!Join(a, b) <=> Topology!Join(a, b)
  BY <1>2, <1>3, <1>5 DEF Rows!Join, Topology!Join, Rows!CanJoin, Topology!CanJoin,
                          Rows!JoinAffected, Topology!JoinAffected
<1>7. \A a : Rows!Leave(a) <=> Topology!Leave(a)
  BY <1>2, <1>4, <1>5 DEF Rows!Leave, Topology!Leave, Rows!CanLeave, Topology!CanLeave,
                          Rows!LeaveAffected, Topology!LeaveAffected
<1>. QED  BY <1>1, <1>2, <1>6, <1>7 DEF Members

\* The topology is one that can be loaded.
Loadable == Topology!TypeOK /\ Topology!TopologyInv

\* A transition of a, and the characters that it affects.
Moves(a, affected) ==
  \/ Topology!Leave(a) /\ affected = Topology!LeaveAffected(a)
  \/ \E t \in Agent : Topology!Join(a, t) /\ affected = Topology!JoinAffected(a, t)

\* What a transition does to the rows: whole companies are affected, get the
\* version of the commit and stay among themselves, and the others keep their
\* line and their company.
LEMMA MoveRows ==
  ASSUME Loadable, NEW a \in Agent, NEW affected, Moves(a, affected)
  PROVE  /\ Loadable' /\ version' = version + 1
         /\ affected \subseteq Agent /\ a \in affected
         /\ \A u \in affected : Members(u) \subseteq affected /\ topo'[u] = version + 1
         /\ \A u \in affected : Members(u)' \subseteq affected
         /\ \A u \in Agent \ affected :
              root'[u] = root[u] /\ topo'[u] = topo[u] /\ Members(u)' = Members(u)
<1>1. Rows!TypeOK /\ Rows!TopologyInv /\ Rows!SessionAssumption /\ Rows!VersionAssumption
  BY SameRows, RowsAssumptions DEF Loadable
<1>2. Rows!Leave(a) \/ \E t \in Agent : Rows!Join(a, t)
  BY SameRows DEF Moves
<1>3. Rows!Next
  BY <1>2 DEF Rows!Next
<1>4. Loadable'
  <2>1. Rows!TypeOK' /\ Rows!TopologyInv'
    BY <1>1, <1>3, Rows!RowsStep
  <2>. QED  BY <2>1 DEF Loadable, Rows!TypeOK, Topology!TypeOK,
                        Rows!TopologyInv, Topology!TopologyInv
<1>5. /\ version' = version + 1
      /\ topo' = [s \in Agent |-> IF s \in affected THEN version + 1 ELSE topo[s]]
      /\ \A u \in Agent \ affected : root'[u] = root[u]
  BY DEF Moves, Topology!Leave, Topology!Join, Topology!ApplyTransition
<1>6. affected \subseteq Agent /\ a \in affected /\ \A u \in affected : Members(u) \subseteq affected
  BY DEF Moves, Members, Topology!Members, Topology!LeaveAffected, Topology!JoinAffected
<1>7. \A u \in Agent : IF Members(u)' = Members(u)
                         THEN root'[u] = root[u] /\ topo'[u] = topo[u]
                         ELSE topo'[u] = version'
  <2>1. Rows!LineChange \/ UNCHANGED Rows!vars
    BY <1>1, <1>3, Rows!LineStep
  <2>2. ~ UNCHANGED Rows!vars
    BY <1>1, <1>5 DEF Rows!vars, Rows!TypeOK
  <2>. QED  BY <2>1, <2>2 DEF Rows!LineChange, Rows!Members, Members, Topology!Members
<1>8. \A u \in Agent : topo[u] <= version /\ version \in Nat
  BY DEF Loadable, Topology!TypeOK, Topology!TopologyInv
<1>9. \A u \in Agent \ affected : topo'[u] = topo[u] /\ Members(u)' = Members(u)
  BY <1>5, <1>7, <1>8
<1>10. ASSUME NEW u \in affected PROVE Members(u)' \subseteq affected
  <2> SUFFICES ASSUME NEW v \in Members(u)', v \notin affected PROVE FALSE
    OBVIOUS
  <2>1. v \in Agent /\ root'[v] = root'[u]
    BY DEF Members, Topology!Members
  <2>2. u \in Members(v)'
    BY <1>6, <2>1 DEF Members, Topology!Members
  <2>3. u \in Members(v)
    BY <1>9, <2>1, <2>2
  <2>4. v \in Members(u)
    BY <2>1, <2>3 DEF Members, Topology!Members
  <2>. QED  BY <1>6, <2>4
<1>. QED  BY <1>4, <1>5, <1>6, <1>9, <1>10

-----------------------------------------------------------------------------
(* The operators of the view, the entries, the requests and the selection. *)

\* The rows have their types, and version 1 is the one of the bootstrap.
Sound == TypeOK /\ Loadable /\ version >= 1

\* The entries are numbered from 2 to the World version.
LEMMA Versions ==
  ASSUME Sound
  PROVE  /\ version \in Nat /\ version >= 1
         /\ DOMAIN entries = 2..version
         /\ \A v \in DOMAIN entries : v \in Nat /\ v >= 2 /\ v <= version /\ entries[v] \in Entry
         /\ version + 1 \notin DOMAIN entries
<1>1. version \in Nat /\ version >= 1
  BY DEF Sound, Loadable, Topology!TypeOK
<1>2. DOMAIN entries = 2..version /\ \A v \in 2..version : entries[v] \in Entry
  BY DEF Sound, TypeOK
<1>. QED  BY <1>1, <1>2

\* A commit appends one entry and leaves the others as they are.
LEMMA Appended ==
  ASSUME Sound, NEW e, AppendEntry(e), version' = version + 1
  PROVE  /\ DOMAIN entries' = DOMAIN entries \cup {version + 1}
         /\ DOMAIN entries' = 2..version'
         /\ entries' = [v \in 2..version' |-> entries'[v]]
         /\ entries'[version + 1] = e
         /\ \A v \in DOMAIN entries : entries'[v] = entries[v]
<1>1. entries' = [w \in DOMAIN entries \cup {version + 1} |->
                    IF w \in DOMAIN entries THEN entries[w] ELSE e]
  BY DEF AppendEntry, Inserted
<1>2. DOMAIN entries \cup {version + 1} = 2..(version + 1)
  BY Versions
<1>3. version + 1 \notin DOMAIN entries
  BY Versions
<1>. QED  BY <1>1, <1>2, <1>3

\* A set of versions has a last one, unless it is empty.
LEMMA LatestExists ==
  ASSUME Sound, NEW V, V \subseteq DOMAIN entries
  PROVE  /\ Latest(V) \subseteq V
         /\ V # {} => \E x \in V : Latest(V) = {x} /\ \A w \in V : w <= x
<1>1. Latest(V) \subseteq V
  BY DEF Latest
<1>2. ASSUME V # {} PROVE \E x \in V : Latest(V) = {x} /\ \A w \in V : w <= x
  <2>1. V \subseteq 0..version /\ V \subseteq Nat /\ version \in Nat
    BY Versions
  <2>2. PICK x \in V : \A w \in V : w <= x
    BY <1>2, <2>1, GreatestNatural
  <2>3. \A y \in V : (\A w \in V : w <= y) => y = x
    BY <2>1, <2>2
  <2>4. Latest(V) = {x}
    BY <2>2, <2>3 DEF Latest
  <2>. QED  BY <2>2, <2>4
<1>. QED  BY <1>1, <1>2

\* The view ends at the last entry that the character can see.
LEMMA ObservedLast ==
  ASSUME Sound, NEW a \in Agent
  PROVE  /\ Observed(a) \in 0..version
         /\ Observed(a) # 0 => Observed(a) \in Visible(a)
         /\ \A v \in Visible(a) : v <= Observed(a)
<1>1. Visible(a) \subseteq DOMAIN entries
  BY DEF Visible
<1>2. CASE Visible(a) = {}
  <2>1. Observed(a) = 0
    BY <1>2 DEF Observed
  <2>. QED  BY <1>2, <2>1, Versions
<1>3. CASE Visible(a) # {}
  <2>1. PICK x \in Visible(a) : Latest(Visible(a)) = {x} /\ \A w \in Visible(a) : w <= x
    BY <1>1, <1>3, LatestExists
  <2>2. Observed(a) = x
    BY <1>3, <2>1 DEF Observed
  <2>3. x \in 0..version
    BY <1>1, Versions
  <2>. QED  BY <2>1, <2>2, <2>3
<1>. QED  BY <1>2, <1>3

\* The request of a dispatch, if it has one, loses its priority.
LEMMA ConsumedRows ==
  ASSUME Sound, NEW d \in active
  PROVE  /\ DOMAIN Consumed(d) = DOMAIN requests
         /\ \A r \in DOMAIN requests :
              Consumed(d)[r] = IF r = d.request THEN [requests[r] EXCEPT !.chance = count]
                                                ELSE requests[r]
<1>1. 0 \notin DOMAIN requests
  BY Versions DEF Sound, TypeOK
<1>. QED  BY <1>1 DEF Consumed

\* An agent without request, or with one it may answer: what was selected.
Selected(d) ==
  /\ d \in [agent : Agent, request : {0} \cup DOMAIN requests]
  /\ Runnable(d.agent)
  /\ IF Prioritised # {}
       THEN /\ d.request \in Prioritised /\ requests[d.request].to = d.agent
            /\ \A q \in Prioritised : last[d.agent] <= last[requests[q].to]
       ELSE /\ d.request = 0
            /\ \A b \in Agent : Runnable(b) =>
                 /\ root[b] = root[d.agent] => last[d.agent] <= last[b]
                 /\ MostRecent({u \in Agent : root[u] = root[d.agent]})
                      <= MostRecent({u \in Agent : root[u] = root[b]})

\* The order of the keys is first the order of their numbers.
LEMMA BeforeIsFirst ==
  ASSUME NEW m \in Nat, NEW n \in Nat, NEW x, NEW y, Before(<<m, x>>, <<n, y>>)
  PROVE  m <= n
  BY DEF Before

\* The most recent dispatch of some characters is the one of one of them.
LEMMA MostRecentIs ==
  ASSUME Sound, NEW S, S \subseteq Agent, S # {}
  PROVE  /\ MostRecent(S) \in Nat
         /\ MostRecent(S) \in {last[a] : a \in S}
         /\ \A a \in S : last[a] <= MostRecent(S)
<1>1. last \in [Agent -> 0..count] /\ count \in Nat
  BY DEF Sound, TypeOK
<1>2. {last[a] : a \in S} \subseteq 0..count /\ {last[a] : a \in S} # {}
  BY <1>1
<1>3. \E n \in {last[a] : a \in S} : \A m \in {last[a] : a \in S} : m <= n
  BY <1>1, <1>2, GreatestNatural
<1>4. \E n \in {last[a] : a \in S} : \A a \in S : last[a] <= n
  BY <1>3
<1>5. MostRecent(S) \in {last[a] : a \in S} /\ \A a \in S : last[a] <= MostRecent(S)
  BY <1>4 DEF MostRecent
<1>. QED  BY <1>1, <1>2, <1>5

\* The selection is defined whenever somebody is runnable, and is fair.
LEMMA SelectIs ==
  ASSUME Sound, \E a \in Agent : Runnable(a)
  PROVE  Selected(Select)
<1>1. last \in [Agent -> Nat] /\ root \in [Agent -> Agent]
  BY DEF Sound, TypeOK, Loadable, Topology!TypeOK
<1>2. CASE Prioritised # {}
  <2> DEFINE f == [r \in Prioritised |-> last[requests[r].to]]
  <2>1. /\ Prioritised \subseteq DOMAIN requests
        /\ \A r \in Prioritised : requests[r].to \in Agent /\ Runnable(requests[r].to)
    BY DEF Prioritised, Unconsumed, Pending, Sound, TypeOK
  <2>2. Prioritised \in SUBSET Nat
    BY <2>1, Versions DEF Sound, TypeOK
  <2>3. f \in [Prioritised -> Nat]
    BY <1>1, <2>1
  <2>4. \E x \in Prioritised : \A y \in Prioritised : Before(<<f[x], x>>, <<f[y], y>>)
    BY <1>2, <2>2, <2>3, FirstExists, OrderedSets
  <2>5. \A x \in Prioritised : RequestKey(x) = <<f[x], x>>
    BY DEF RequestKey
  <2> DEFINE r == First(Prioritised, RequestKey)
  <2>6. r \in Prioritised /\ \A y \in Prioritised : Before(RequestKey(r), RequestKey(y))
    BY <2>4, <2>5 DEF First
  <2>7. Select = [agent |-> requests[r].to, request |-> r]
    BY <1>2 DEF Select
  <2>8. \A q \in Prioritised : last[requests[r].to] <= last[requests[q].to]
    <3>1. \A q \in Prioritised : last[requests[q].to] \in Nat
      BY <1>1, <2>1
    <3>2. \A q \in Prioritised : Before(<<last[requests[r].to], r>>, <<last[requests[q].to], q>>)
      BY <2>6 DEF RequestKey
    <3>. HIDE DEF r
    <3>. QED  BY <2>6, <3>1, <3>2, BeforeIsFirst
  <2>. QED  BY <1>2, <2>1, <2>6, <2>7, <2>8 DEF Selected
<1>3. CASE Prioritised = {}
  <2> DEFINE able == {a \in Agent : Runnable(a)}
             roots == {root[a] : a \in able}
             next == First(roots, RootKey)
             mine == {a \in able : root[a] = next}
             a1 == First(mine, AgentKey)
             f == [r \in roots |-> MostRecent({u \in Agent : root[u] = r})]
             g == [a \in mine |-> last[a]]
  <2>1. roots \in SUBSET Agent /\ roots # {}
    BY <1>1
  <2>2. \A r \in roots : MostRecent({u \in Agent : root[u] = r}) \in Nat
    <3> TAKE r \in roots
    <3>1. {u \in Agent : root[u] = r} # {}
      OBVIOUS
    <3>. QED  BY <3>1, MostRecentIs
  <2>3. \E x \in roots : \A y \in roots : Before(<<f[x], x>>, <<f[y], y>>)
    <3>1. f \in [roots -> Nat]
      BY <2>2
    <3>. HIDE DEF f, roots
    <3>. QED  BY <2>1, <3>1, FirstExists, OrderedSets
  <2>4. \A x \in roots : RootKey(x) = <<f[x], x>>
    BY DEF RootKey
  <2>5. next \in roots /\ \A y \in roots : Before(RootKey(next), RootKey(y))
    <3>. HIDE DEF f, roots
    <3>. QED  BY <2>3, <2>4 DEF First
  <2>6. mine \in SUBSET Agent /\ mine # {} /\ g \in [mine -> Nat]
    BY <1>1, <2>5
  <2>7. \E x \in mine : \A y \in mine : Before(<<g[x], x>>, <<g[y], y>>)
    <3>. HIDE DEF g, mine
    <3>. QED  BY <2>6, FirstExists, OrderedSets
  <2>8. \A x \in mine : AgentKey(x) = <<g[x], x>>
    BY DEF AgentKey
  <2>9. a1 \in mine /\ \A y \in mine : Before(AgentKey(a1), AgentKey(y))
    <3>. HIDE DEF g, mine
    <3>. QED  BY <2>7, <2>8 DEF First
  <2>10. Select = [agent |-> a1, request |-> 0]
    BY <1>3 DEF Select
  <2>11. \A b \in Agent : Runnable(b) /\ root[b] = next => last[a1] <= last[b]
    <3>1. \A y \in mine : last[a1] <= last[y]
      <4>1. \A y \in mine : last[y] \in Nat
        BY <1>1, <2>6
      <4>2. \A y \in mine : Before(<<last[a1], a1>>, <<last[y], y>>)
        BY <2>9 DEF AgentKey
      <4>. HIDE DEF mine, a1
      <4>. QED  BY <2>9, <4>1, <4>2, BeforeIsFirst
    <3>. QED  BY <3>1
  <2>12. \A b \in Agent : Runnable(b) =>
           MostRecent({u \in Agent : root[u] = next}) <= MostRecent({u \in Agent : root[u] = root[b]})
    <3>1. \A y \in roots : MostRecent({u \in Agent : root[u] = next})
                             <= MostRecent({u \in Agent : root[u] = y})
      <4>1. \A y \in roots : Before(<<MostRecent({u \in Agent : root[u] = next}), next>>,
                                   <<MostRecent({u \in Agent : root[u] = y}), y>>)
        BY <2>5 DEF RootKey
      <4>. HIDE DEF roots, next
      <4>. QED  BY <2>2, <2>5, <4>1, BeforeIsFirst
    <3>. QED  BY <3>1
  <2>13. a1 \in Agent /\ Runnable(a1) /\ root[a1] = next
    BY <2>9
  <2>. HIDE DEF a1, next
  <2>. QED  BY <1>3, <2>10, <2>11, <2>12, <2>13 DEF Selected
<1>. QED  BY <1>2, <1>3

-----------------------------------------------------------------------------
(* The invariant.                                                          *)

\* No line key is newer than the World: the next commit can make a new one.
OldLines == \A v \in DOMAIN entries : entries[v].line[2] <= version

\* Whoever is on a line now is who its entries were for.
CurrentLines ==
  \A a \in Agent : \A v \in DOMAIN entries : entries[v].line = LineOf(a) =>
    CASE entries[v].kind = "transition" -> Members(a) \subseteq entries[v].to
      [] entries[v].channel = "whisper" -> entries[v].to \subseteq Members(a)
      [] OTHER -> entries[v].to = Members(a)

\* A response is given on the channel of the dialogue that asks for it.
AsksAreSpoken == \A r \in DOMAIN requests : entries[r].channel \in Channel

\* What a waiting character can see up to its threshold, it has observed.
HasRead == \A a \in Agent : \A v \in Visible(a) : wait[a] # 0 /\ v <= wait[a] => v <= cursor[a]

\* All of it: what is proved of every reachable state.
WorldInv ==
  /\ Sound
  /\ OldLines
  /\ CurrentLines
  /\ AsksAreSpoken
  /\ HasRead
  /\ DispatchesServable
  /\ LinesAreSound

-----------------------------------------------------------------------------
(* What the outcomes of a dispatch do to the rows.                         *)

\* A row of the response requests.
RequestRow == [from : Agent, to : Agent, chance : 0..count,
               status : {"pending", "resolved", "cancelled"}]

\* The requests stay, none becomes pending again, and d's has had its chance.
RequestsGo(d, new) ==
  /\ DOMAIN requests' = DOMAIN requests \cup new
  /\ \A r \in DOMAIN requests :
       /\ requests'[r] \in RequestRow
       /\ requests'[r].from = requests[r].from /\ requests'[r].to = requests[r].to
       /\ requests'[r].status = "pending" => requests[r].status = "pending"
       /\ requests'[r].chance = IF r = d.request THEN count ELSE requests[r].chance

\* Nothing is written but the dispatch itself.
Quiet(d) ==
  /\ Finish(d)
  /\ wait' = [wait EXCEPT ![d.agent] = version]
  /\ UNCHANGED <<topology, turns, entries>>
  /\ RequestsGo(d, {})

\* An entry e on the line of d's character, and perhaps a request.
Tells(d, e, new) ==
  /\ Finish(d)
  /\ UNCHANGED <<root, topo>> /\ version' = version + 1
  /\ AppendEntry(e)
  /\ \E kind \in {"behavior", "dialogue"} : \E channel \in Channel \cup {"none"} :
     \E to \in SUBSET Members(d.agent) : \E reply \in Nat :
       /\ e = LineEntry(d.agent, kind, channel, to, reply)
       /\ d.agent \in to /\ (channel # "whisper" => to = Members(d.agent))
       /\ new # {} => channel \in Channel
  /\ wait' = [wait EXCEPT ![d.agent] = 0]
  /\ turns' \in [Agent -> 0..TurnLimit]
  /\ RequestsGo(d, new)
  /\ \/ new = {}
     \/ /\ new = {version + 1}
        /\ \E t \in e.to \ {d.agent} :
             requests'[version + 1] =
               [from |-> d.agent, to |-> t, status |-> "pending", chance |-> 0]

\* An entry e for everybody that a transition affects, on the actor's new line.
Moved(d, e, affected) ==
  /\ Finish(d)
  /\ Moves(d.agent, affected)
  /\ AppendEntry(e)
  /\ e \in Entry'
  /\ e.kind = "transition" /\ e.line = <<root'[d.agent], version + 1>> /\ e.to = affected
  /\ e.channel = "none"
  /\ wait' = [s \in Agent |-> IF s \in affected THEN 0 ELSE wait[s]]
  /\ turns' = [turns EXCEPT ![d.agent] = 0]
  /\ RequestsGo(d, {})
  /\ \A r \in DOMAIN requests :
       requests'[r].status = "pending" /\ {requests[r].from, requests[r].to} \subseteq affected
         => root'[requests[r].from] = root'[requests[r].to]

\* The dispatch of an outcome is one of a character.
LEMMA ActiveTyped ==
  ASSUME Sound, NEW d \in active
  PROVE  /\ d \in [agent : Agent, request : {0} \cup DOMAIN requests]
         /\ d.agent \in Agent /\ d.agent \in Members(d.agent)
         /\ count \in Nat /\ Members(d.agent) \subseteq Agent
         /\ \A r \in DOMAIN requests : requests[r] \in RequestRow
  BY DEF Sound, TypeOK, RequestRow, Members, Topology!Members

\* Consuming the priority is what every outcome does to the requests.
LEMMA ConsumedGoes ==
  ASSUME Sound, NEW d \in active
  PROVE  /\ DOMAIN Consumed(d) = DOMAIN requests
         /\ \A r \in DOMAIN requests :
              /\ Consumed(d)[r] \in RequestRow
              /\ Consumed(d)[r].from = requests[r].from /\ Consumed(d)[r].to = requests[r].to
              /\ Consumed(d)[r].status = requests[r].status
              /\ Consumed(d)[r].chance = IF r = d.request THEN count ELSE requests[r].chance
<1>1. DOMAIN Consumed(d) = DOMAIN requests
  BY ConsumedRows
<1>2. ASSUME NEW r \in DOMAIN requests
      PROVE  /\ Consumed(d)[r] \in RequestRow
             /\ Consumed(d)[r].from = requests[r].from /\ Consumed(d)[r].to = requests[r].to
             /\ Consumed(d)[r].status = requests[r].status
             /\ Consumed(d)[r].chance = IF r = d.request THEN count ELSE requests[r].chance
  <2>1. requests[r] \in RequestRow /\ count \in 0..count
    BY ActiveTyped
  <2>2. CASE r = d.request
    <3>1. Consumed(d)[r] = [requests[r] EXCEPT !.chance = count]
      BY <2>2, ConsumedRows
    <3>. QED  BY <2>1, <2>2, <3>1 DEF RequestRow
  <2>3. CASE r # d.request
    <3>1. Consumed(d)[r] = requests[r]
      BY <2>3, ConsumedRows
    <3>. QED  BY <2>1, <2>3, <3>1
  <2>. QED  BY <2>2, <2>3
<1>. QED  BY <1>1, <1>2

\* An outcome without a request of its own does no more than that.
LEMMA ConsumedIsGo ==
  ASSUME Sound, NEW d \in active, requests' = Consumed(d)
  PROVE  RequestsGo(d, {})
  BY ConsumedGoes DEF RequestsGo

\* wait and no_op.
LEMMA DeclineIs ==
  ASSUME WorldInv, NEW d \in active, Decline(d)
  PROVE  Quiet(d)
  BY ConsumedIsGo DEF Decline, Quiet, WorldInv

\* A behaviour is told to the whole company.
LEMMA BehaveIs ==
  ASSUME WorldInv, NEW d \in active, Behave(d)
  PROVE  \E e : Tells(d, e, {})
<1> DEFINE e == LineEntry(d.agent, "behavior", "none", Members(d.agent), 0)
<1>1. Sound /\ Finish(d) /\ AppendEntry(e) /\ UNCHANGED <<root, topo>> /\ version' = version + 1
  BY DEF Behave, WorldInv, Topology!OtherEntry
<1>2. wait' = [wait EXCEPT ![d.agent] = 0] /\ RequestsGo(d, {})
  BY <1>1, ConsumedIsGo DEF Behave
<1>3. turns' \in [Agent -> 0..TurnLimit]
  BY <1>1, BoundAssumption DEF Behave, Sound, TypeOK
<1>4. \E kind \in {"behavior", "dialogue"} : \E channel \in Channel \cup {"none"} :
      \E to \in SUBSET Members(d.agent) : \E reply \in Nat :
        /\ e = LineEntry(d.agent, kind, channel, to, reply)
        /\ d.agent \in to /\ (channel # "whisper" => to = Members(d.agent))
        /\ {} # {} => channel \in Channel
  <2>1. d.agent \in Members(d.agent)
    BY <1>1, ActiveTyped
  <2>. QED  BY <2>1
<1>. HIDE DEF e
<1>. QED  BY <1>1, <1>2, <1>3, <1>4 DEF Tells

\* A dialogue is told to its audience.
LEMMA DialogueIs ==
  ASSUME WorldInv, NEW d \in active, NEW t, NEW channel \in Channel, NEW reply \in Nat,
         Dialogue(d, t, channel, reply), NEW new, RequestsGo(d, new),
         \/ new = {}
         \/ /\ new = {version + 1}
            /\ requests'[version + 1] =
                 [from |-> d.agent, to |-> t, status |-> "pending", chance |-> 0]
  PROVE  \E e : Tells(d, e, new)
<1> DEFINE audience == Audience(d.agent, t, channel)
           e == LineEntry(d.agent, "dialogue", channel, audience, reply)
<1>1. Sound /\ Finish(d) /\ AppendEntry(e) /\ UNCHANGED <<root, topo>> /\ version' = version + 1
  BY DEF Dialogue, WorldInv, Topology!OtherEntry
<1>2. wait' = [wait EXCEPT ![d.agent] = 0]
  BY DEF Dialogue
<1>3. turns' \in [Agent -> 0..TurnLimit]
  <2>1. turns[d.agent] < TurnLimit /\ turns' = [turns EXCEPT ![d.agent] = turns[d.agent] + 1]
    BY DEF Dialogue
  <2>2. turns \in [Agent -> 0..TurnLimit] /\ d.agent \in Agent /\ TurnLimit \in Nat
    BY <1>1, ActiveTyped, BoundAssumption DEF Sound, TypeOK
  <2>3. turns[d.agent] + 1 \in 0..TurnLimit
    BY <2>1, <2>2
  <2>. QED  BY <2>1, <2>2, <2>3
<1>4. t \in Members(d.agent) \ {d.agent} /\ d.agent \in Members(d.agent)
  BY <1>1, ActiveTyped DEF Dialogue
<1>5. /\ audience \subseteq Members(d.agent) /\ d.agent \in audience /\ t \in audience \ {d.agent}
      /\ channel # "whisper" => audience = Members(d.agent)
  BY <1>4 DEF Audience, Channel
<1>6. \E kind \in {"behavior", "dialogue"} : \E ch \in Channel \cup {"none"} :
      \E to \in SUBSET Members(d.agent) : \E rep \in Nat :
        /\ e = LineEntry(d.agent, kind, ch, to, rep)
        /\ d.agent \in to /\ (ch # "whisper" => to = Members(d.agent))
        /\ new # {} => ch \in Channel
  <2>. HIDE DEF audience
  <2>. QED  BY <1>5
<1>7. e.to = audience
  BY DEF LineEntry
<1>. HIDE DEF e, audience
<1>. QED  BY <1>1, <1>2, <1>3, <1>5, <1>6, <1>7 DEF Tells

\* An utterance that asks for nothing makes no request.
LEMMA UtterIs ==
  ASSUME WorldInv, NEW d \in active, NEW t, NEW channel \in Channel, Utter(d, t, channel)
  PROVE  \E e : Tells(d, e, {})
<1>1. RequestsGo(d, {}) /\ Dialogue(d, t, channel, 0)
  BY ConsumedIsGo DEF Utter, WorldInv
<1>. QED  BY <1>1, DialogueIs

\* What asking writes into the requests.
LEMMA AskRow ==
  ASSUME WorldInv, NEW d \in active, NEW t, NEW channel, Ask(d, t, channel)
  PROVE  /\ RequestsGo(d, {version + 1})
         /\ requests'[version + 1] =
              [from |-> d.agent, to |-> t, status |-> "pending", chance |-> 0]
<1> DEFINE row == [from |-> d.agent, to |-> t, status |-> "pending", chance |-> 0]
<1>1. Sound
  BY DEF WorldInv
<1>2. requests' = [r \in DOMAIN Consumed(d) \cup {version + 1} |->
                     IF r \in DOMAIN Consumed(d) THEN Consumed(d)[r] ELSE row]
  BY DEF Ask, Inserted
<1>3. version + 1 \notin DOMAIN requests
  BY <1>1, Versions DEF Sound, TypeOK
<1>4. /\ DOMAIN requests' = DOMAIN requests \cup {version + 1}
      /\ \A r \in DOMAIN requests : requests'[r] = Consumed(d)[r]
      /\ requests'[version + 1] = row
  BY <1>1, <1>2, <1>3, ConsumedGoes
<1>5. RequestsGo(d, {version + 1})
  BY <1>1, <1>4, ConsumedGoes DEF RequestsGo
<1>. QED  BY <1>4, <1>5

\* An utterance that asks makes one.
LEMMA AskIs ==
  ASSUME WorldInv, NEW d \in active, NEW t, NEW channel \in Channel, Ask(d, t, channel)
  PROVE  \E e : Tells(d, e, {version + 1})
<1>1. Dialogue(d, t, channel, 0)
  BY DEF Ask
<1>. QED  BY <1>1, AskRow, DialogueIs

\* A response resolves the request it answers.
LEMMA RespondIs ==
  ASSUME WorldInv, NEW d \in active, NEW r, Respond(d, r)
  PROVE  \E e : Tells(d, e, {})
<1>1. /\ Sound /\ r \in DOMAIN requests
      /\ Dialogue(d, requests[r].from, entries[r].channel, r)
      /\ requests' = [Consumed(d) EXCEPT ![r].status = "resolved"]
  BY DEF Respond, WorldInv, Pending
<1>2. entries[r].channel \in Channel /\ r \in Nat
  BY <1>1, Versions DEF WorldInv, AsksAreSpoken, Sound, TypeOK
<1>3. /\ DOMAIN requests' = DOMAIN requests
      /\ \A q \in DOMAIN requests \ {r} : requests'[q] = Consumed(d)[q]
      /\ requests'[r] = [Consumed(d)[r] EXCEPT !.status = "resolved"]
  BY <1>1, ConsumedGoes
<1>4. /\ requests'[r] \in RequestRow /\ requests'[r].status = "resolved"
      /\ requests'[r].from = Consumed(d)[r].from /\ requests'[r].to = Consumed(d)[r].to
      /\ requests'[r].chance = Consumed(d)[r].chance
  <2>1. Consumed(d)[r] \in RequestRow
    BY <1>1, ConsumedGoes
  <2>. QED  BY <1>3, <2>1 DEF RequestRow
<1>5. RequestsGo(d, {})
  BY <1>1, <1>3, <1>4, ConsumedGoes DEF RequestsGo
<1>. QED  BY <1>1, <1>2, <1>5, DialogueIs

\* Cancelling only takes pending requests away.
LEMMA CancelGoes ==
  ASSUME Sound, NEW d \in active, NEW affected, NEW rootOf,
         requests' = Cancel(Consumed(d), affected, rootOf)
  PROVE  /\ RequestsGo(d, {})
         /\ \A r \in DOMAIN requests :
              requests'[r].status = "pending" /\ {requests[r].from, requests[r].to} \subseteq affected
                => rootOf[requests[r].from] = rootOf[requests[r].to]
<1> DEFINE Cut(r) == /\ Consumed(d)[r].status = "pending"
                     /\ {Consumed(d)[r].from, Consumed(d)[r].to} \subseteq affected
                     /\ rootOf[Consumed(d)[r].from] # rootOf[Consumed(d)[r].to]
<1>1. requests' = [r \in DOMAIN Consumed(d) |->
                     IF Cut(r) THEN [Consumed(d)[r] EXCEPT !.status = "cancelled"] ELSE Consumed(d)[r]]
  BY DEF Cancel
<1>. HIDE DEF Cut
<1>2. DOMAIN requests' = DOMAIN requests
  BY <1>1, ConsumedGoes
<1>3. ASSUME NEW r \in DOMAIN requests
      PROVE  /\ requests'[r] \in RequestRow
             /\ requests'[r].from = requests[r].from /\ requests'[r].to = requests[r].to
             /\ requests'[r].status = "pending" => requests[r].status = "pending" /\ ~Cut(r)
             /\ requests'[r].chance = IF r = d.request THEN count ELSE requests[r].chance
  <2>1. Consumed(d)[r] \in RequestRow
    BY ConsumedGoes
  <2>2. CASE Cut(r)
    <3>1. requests'[r] = [Consumed(d)[r] EXCEPT !.status = "cancelled"]
      BY <1>1, <2>2, ConsumedGoes
    <3>2. /\ requests'[r] \in RequestRow /\ requests'[r].status = "cancelled"
          /\ requests'[r].from = Consumed(d)[r].from /\ requests'[r].to = Consumed(d)[r].to
          /\ requests'[r].chance = Consumed(d)[r].chance
      BY <2>1, <3>1 DEF RequestRow
    <3>. QED  BY <3>2, ConsumedGoes
  <2>3. CASE ~Cut(r)
    <3>1. requests'[r] = Consumed(d)[r]
      BY <1>1, <2>3, ConsumedGoes
    <3>. QED  BY <2>1, <2>3, <3>1, ConsumedGoes
  <2>. QED  BY <2>2, <2>3
<1>4. RequestsGo(d, {})
  BY <1>2, <1>3 DEF RequestsGo
<1>5. ASSUME NEW r \in DOMAIN requests, requests'[r].status = "pending",
             {requests[r].from, requests[r].to} \subseteq affected
      PROVE  rootOf[requests[r].from] = rootOf[requests[r].to]
  <2>1. ~Cut(r) /\ requests[r].status = "pending"
    BY <1>3, <1>5
  <2>. QED  BY <1>5, <2>1, ConsumedGoes DEF Cut
<1>. QED  BY <1>4, <1>5

\* A transition is told to everybody whom it affects.
LEMMA TransitionIs ==
  ASSUME WorldInv, NEW d \in active, NEW affected, NEW rootOf,
         Transition(d, affected, rootOf), Moves(d.agent, affected)
  PROVE  \E e : Moved(d, e, affected)
<1> DEFINE e == TransitionEntry(d.agent, affected, rootOf)
<1>1. Sound /\ Loadable /\ d.agent \in Agent
  BY ActiveTyped DEF WorldInv, Sound
<1>2. /\ Finish(d) /\ AppendEntry(e)
      /\ root' = [s \in Agent |-> IF s \in affected THEN rootOf[s] ELSE root[s]]
      /\ requests' = Cancel(Consumed(d), affected, rootOf)
      /\ turns' = [turns EXCEPT ![d.agent] = 0]
      /\ wait' = [s \in Agent |-> IF s \in affected THEN 0 ELSE wait[s]]
  BY DEF Transition, Topology!ApplyTransition
<1>3. /\ Loadable' /\ version' = version + 1 /\ affected \subseteq Agent /\ d.agent \in affected
  BY <1>1, MoveRows
<1>4. \A s \in affected : rootOf[s] = root'[s] /\ root'[s] \in Agent
  BY <1>2, <1>3 DEF Loadable, Topology!TypeOK
<1>5. version + 1 \in Nat
  BY <1>1, Versions
<1>6. e \in Entry'
  <2> DEFINE pv == UNION {FrontierOf(LineOf(s)) : s \in affected}
             bf == {[line |-> LineOf(s), members |-> Members(s)] : s \in affected}
             af == {[line    |-> <<rootOf[s], version + 1>>,
                     members |-> {u \in affected : rootOf[u] = rootOf[s]}] : s \in affected}
  <2>1. pv \subseteq DOMAIN entries'
    <3>1. pv \subseteq DOMAIN entries
      BY DEF FrontierOf, Latest
    <3>. HIDE DEF pv, e
    <3>2. DOMAIN entries' = DOMAIN entries \cup {version + 1}
      BY <1>1, <1>2, <1>3, Appended
    <3>. QED  BY <3>1, <3>2
  <2>2. bf \subseteq Part
    <3>1. \A s \in affected : LineOf(s) \in Line /\ Members(s) \in SUBSET Agent
      BY <1>1, <1>3 DEF LineOf, Line, Members, Topology!Members, Loadable, Topology!TypeOK
    <3>. QED  BY <3>1 DEF Part
  <2>3. af \subseteq Part
    <3>1. \A s \in affected : /\ <<rootOf[s], version + 1>> \in Line
                              /\ {u \in affected : rootOf[u] = rootOf[s]} \in SUBSET Agent
      BY <1>3, <1>4, <1>5 DEF Line
    <3>. QED  BY <3>1 DEF Part
  <2>4. e = [kind |-> "transition", actor |-> d.agent, line |-> <<rootOf[d.agent], version + 1>>,
             channel |-> "none", to |-> affected, previous |-> pv, reply |-> 0,
             before |-> bf, after |-> af]
    BY DEF TransitionEntry
  <2>5. <<rootOf[d.agent], version + 1>> \in Line
    BY <1>3, <1>4, <1>5 DEF Line
  <2>6. Entry' = [kind : {"behavior", "dialogue", "transition"}, actor : Agent, line : Line,
                  channel : Channel \cup {"none"}, to : SUBSET Agent,
                  previous : SUBSET DOMAIN entries', reply : Nat,
                  before : SUBSET Part, after : SUBSET Part]
    BY DEF Entry
  <2>. HIDE DEF e, pv, bf, af
  <2>. QED  BY <1>1, <1>3, <2>1, <2>2, <2>3, <2>4, <2>5, <2>6
<1>7. /\ e.kind = "transition" /\ e.line = <<root'[d.agent], version + 1>> /\ e.to = affected
      /\ e.channel = "none"
  BY <1>3, <1>4 DEF TransitionEntry
<1>8. /\ RequestsGo(d, {})
      /\ \A r \in DOMAIN requests :
           requests'[r].status = "pending" /\ {requests[r].from, requests[r].to} \subseteq affected
             => rootOf[requests[r].from] = rootOf[requests[r].to]
  BY <1>1, <1>2, CancelGoes
<1>. HIDE DEF e
<1>9. \A r \in DOMAIN requests :
        requests'[r].status = "pending" /\ {requests[r].from, requests[r].to} \subseteq affected
          => root'[requests[r].from] = root'[requests[r].to]
  BY <1>4, <1>8
<1>. QED  BY <1>2, <1>6, <1>7, <1>8, <1>9 DEF Moved

\* A leave is a transition of the topology.
LEMMA LeaveIs ==
  ASSUME WorldInv, NEW d \in active, Leave(d)
  PROVE  \E e : \E affected : Moved(d, e, affected)
<1>1. /\ Topology!Leave(d.agent)
      /\ Transition(d, Topology!LeaveAffected(d.agent), Topology!LeavePartition(d.agent).rootOf)
  BY DEF Leave, Topology!Leave, Transition
<1>2. Moves(d.agent, Topology!LeaveAffected(d.agent))
  BY <1>1 DEF Moves
<1>. QED  BY <1>1, <1>2, TransitionIs

\* The same for a join.
LEMMA JoinIs ==
  ASSUME WorldInv, NEW d \in active, NEW t \in Agent, Join(d, t)
  PROVE  \E e : \E affected : Moved(d, e, affected)
<1>1. /\ Topology!Join(d.agent, t)
      /\ Transition(d, Topology!JoinAffected(d.agent, t), Topology!JoinPartition(d.agent, t).rootOf)
  BY DEF Join, Topology!Join, Transition
<1>2. Moves(d.agent, Topology!JoinAffected(d.agent, t))
  BY <1>1 DEF Moves
<1>. QED  BY <1>1, <1>2, TransitionIs

\* An outcome is one of these three.
LEMMA Outcomes ==
  ASSUME WorldInv, NEW d \in active, Commit(d)
  PROVE  \/ Quiet(d)
         \/ \E e : \E new : Tells(d, e, new)
         \/ \E e : \E affected : Moved(d, e, affected)
<1>1. CASE Decline(d)
  BY <1>1, DeclineIs
<1>2. CASE Behave(d)
  BY <1>2, BehaveIs
<1>3. ASSUME NEW t \in Agent, NEW channel \in Channel, Utter(d, t, channel)
      PROVE  \E e : \E new : Tells(d, e, new)
  BY <1>3, UtterIs
<1>4. ASSUME NEW t \in Agent, NEW channel \in Channel, Ask(d, t, channel)
      PROVE  \E e : \E new : Tells(d, e, new)
  BY <1>4, AskIs
<1>5. ASSUME NEW r \in Pending, Respond(d, r)
      PROVE  \E e : \E new : Tells(d, e, new)
  BY <1>5, RespondIs
<1>6. CASE Leave(d)
  BY <1>6, LeaveIs
<1>7. ASSUME NEW t \in Agent, Join(d, t)
      PROVE  \E e : \E affected : Moved(d, e, affected)
  BY <1>7, JoinIs
<1>. QED  BY <1>1, <1>2, <1>3, <1>4, <1>5, <1>6, <1>7 DEF Commit

-----------------------------------------------------------------------------
(* Every step keeps the invariant.                                         *)

\* What all outcomes have in common.
LEMMA FinishIs ==
  ASSUME Sound, NEW d \in active, Finish(d), version' \in {version, version + 1}
  PROVE  /\ running' \in BOOLEAN /\ count' = count /\ count' \in Nat /\ limit' \in Nat
         /\ active' = {} /\ last' \in [Agent -> 0..count']
         /\ cursor' \in [Agent -> 0..version']
         /\ \A a \in Agent : cursor'[a] = IF a = d.agent THEN Observed(a) ELSE cursor[a]
<1>1. /\ running' \in BOOLEAN /\ count' = count /\ count' \in Nat /\ limit' \in Nat
      /\ active' = {} /\ last' \in [Agent -> 0..count']
  BY DEF Finish, Sound, TypeOK
<1>2. cursor' = [cursor EXCEPT ![d.agent] = Observed(d.agent)] /\ cursor \in [Agent -> 0..version]
  BY DEF Finish, Sound, TypeOK
<1>3. Observed(d.agent) \in 0..version /\ d.agent \in Agent /\ version \in Nat
  BY ActiveTyped, ObservedLast, Versions
<1>4. 0..version \subseteq 0..version'
  BY <1>3
<1>5. cursor' \in [Agent -> 0..version']
  BY <1>2, <1>3, <1>4
<1>. QED  BY <1>1, <1>2, <1>3, <1>5

\* The requests of an outcome have their types.
LEMMA RequestsTyped ==
  ASSUME Sound, NEW d \in active, NEW new, RequestsGo(d, new), count' = count,
         DOMAIN requests \cup new \subseteq DOMAIN entries',
         \A r \in new : requests'[r] \in RequestRow
  PROVE  /\ DOMAIN requests' \subseteq DOMAIN entries'
         /\ \A r \in DOMAIN requests' :
              requests'[r] \in [from : Agent, to : Agent, chance : 0..count',
                                status : {"pending", "resolved", "cancelled"}]
  BY DEF RequestsGo, RequestRow

\* No outcome opens the request of an earlier one again.
LEMMA PendingGoes ==
  ASSUME Sound, NEW d \in active, NEW new, RequestsGo(d, new)
  PROVE  \A r \in Pending' :
           \/ r \in new
           \/ /\ r \in Pending
              /\ requests'[r].from = requests[r].from /\ requests'[r].to = requests[r].to
  BY DEF RequestsGo, Pending

\* What a character can see, it can see for ever.
LEMMA Remembers ==
  ASSUME Sound, NEW e, AppendEntry(e), version' = version + 1, NEW a
  PROVE  /\ Visible(a) \subseteq Visible(a)'
         /\ \A v \in Visible(a)' : v \in Visible(a) \/ (v = version + 1 /\ a \in e.to)
         /\ a \in e.to => version + 1 \in Visible(a)'
<1>1. /\ DOMAIN entries' = DOMAIN entries \cup {version + 1} /\ entries'[version + 1] = e
      /\ \A v \in DOMAIN entries : entries'[v] = entries[v]
  BY Appended
<1>. QED  BY <1>1 DEF Visible

\* An outcome that only ends the dispatch: what the character has observed is
\* all it can see, so that it may wait until the next entry.
LEMMA QuietStep ==
  ASSUME WorldInv, NEW d \in active, Quiet(d)
  PROVE  WorldInv'
<1>1. /\ Sound /\ OldLines /\ CurrentLines /\ AsksAreSpoken /\ HasRead
      /\ DispatchesServable /\ LinesAreSound
  BY DEF WorldInv
<1>2. /\ UNCHANGED <<root, topo, version, turns, entries>> /\ Finish(d) /\ RequestsGo(d, {})
      /\ wait' = [wait EXCEPT ![d.agent] = version]
  BY DEF Quiet, topology
<1>3. d.agent \in Agent /\ version \in Nat /\ wait \in [Agent -> 0..version]
  BY <1>1, ActiveTyped, Versions DEF Sound, TypeOK
<1>4. /\ running' \in BOOLEAN /\ count' = count /\ count' \in Nat /\ limit' \in Nat
      /\ active' = {} /\ last' \in [Agent -> 0..count']
      /\ cursor' \in [Agent -> 0..version']
      /\ \A a \in Agent : cursor'[a] = IF a = d.agent THEN Observed(a) ELSE cursor[a]
  BY <1>1, <1>2, FinishIs
<1>5. Loadable' /\ (version >= 1)' /\ Topology!TypeOK'
  BY <1>1, <1>2 DEF Sound, Loadable, Topology!TypeOK, Topology!TopologyInv
<1>6. DOMAIN requests' \subseteq DOMAIN entries' /\ DOMAIN requests' = DOMAIN requests
  BY <1>1, <1>2 DEF RequestsGo, Sound, TypeOK
<1>7. TypeOK'
  <2>1. wait' \in [Agent -> 0..version'] /\ turns' \in [Agent -> 0..TurnLimit]
    BY <1>1, <1>2, <1>3 DEF Sound, TypeOK
  <2>2. \A r \in DOMAIN requests' :
          requests'[r] \in [from : Agent, to : Agent, chance : 0..count',
                            status : {"pending", "resolved", "cancelled"}]
    BY <1>2, <1>4, <1>6 DEF RequestsGo, RequestRow
  <2>3. entries' \in [2..version' -> Entry']
    BY <1>1, <1>2 DEF Sound, TypeOK, Entry
  <2>. QED  BY <1>4, <1>5, <1>6, <2>1, <2>2, <2>3 DEF TypeOK
<1>8. \A a : Visible(a)' = Visible(a) /\ Members(a)' = Members(a) /\ LineOf(a)' = LineOf(a)
  BY <1>2 DEF Visible, Members, Topology!Members, LineOf
<1>9. OldLines' /\ CurrentLines' /\ AsksAreSpoken'
  BY <1>1, <1>2, <1>6, <1>8 DEF OldLines, CurrentLines, AsksAreSpoken
<1>10. HasRead'
  <2> SUFFICES ASSUME NEW a \in Agent, NEW v \in Visible(a), wait'[a] # 0, v <= wait'[a]
               PROVE  v <= cursor'[a]
    BY <1>8 DEF HasRead
  <2>1. CASE a = d.agent
    BY <1>1, <1>4, <2>1, ObservedLast
  <2>2. CASE a # d.agent
    BY <1>1, <1>2, <1>3, <1>4, <2>2 DEF HasRead
  <2>. QED  BY <2>1, <2>2
<1>11. DispatchesServable'
  <2>1. ASSUME NEW a \in Agent, cursor'[a] # 0 PROVE cursor'[a] \in Visible(a)'
    BY <1>1, <1>4, <1>8, <2>1, ObservedLast DEF DispatchesServable
  <2>2. ASSUME NEW r \in Pending'
        PROVE  (r \in Visible(requests[r].to) /\ root[requests[r].from] = root[requests[r].to])'
    <3>1. r \in Pending /\ requests'[r].from = requests[r].from /\ requests'[r].to = requests[r].to
      BY <1>1, <1>2, <2>2, PendingGoes
    <3>2. r \in Visible(requests[r].to) /\ root[requests[r].from] = root[requests[r].to]
      BY <1>1, <3>1 DEF DispatchesServable
    <3>. QED  BY <1>2, <1>8, <3>1, <3>2
  <2>. QED  BY <1>4, <2>1, <2>2 DEF DispatchesServable
<1>12. LinesAreSound'
  BY <1>1, <1>2 DEF LinesAreSound, LinesAreChains, OneAudiencePerLine, Latest
<1>. QED  BY <1>5, <1>7, <1>9, <1>10, <1>11, <1>12 DEF WorldInv, Sound

\* The entry of an outcome that is told to a line.
LEMMA ToldEntry ==
  ASSUME Sound, NEW d \in active, NEW e, NEW new, Tells(d, e, new)
  PROVE  /\ e \in Entry' /\ e.kind # "transition" /\ e.line = LineOf(d.agent)
         /\ e.previous = FrontierOf(LineOf(d.agent))
         /\ e.to \subseteq Members(d.agent) /\ d.agent \in e.to
         /\ e.channel # "whisper" => e.to = Members(d.agent)
         /\ new # {} => e.channel \in Channel
<1>1. PICK kind \in {"behavior", "dialogue"}, channel \in Channel \cup {"none"},
           to \in SUBSET Members(d.agent), reply \in Nat :
        /\ e = LineEntry(d.agent, kind, channel, to, reply)
        /\ d.agent \in to /\ (channel # "whisper" => to = Members(d.agent))
        /\ new # {} => channel \in Channel
  BY DEF Tells
<1>2. e = [kind |-> kind, actor |-> d.agent, line |-> LineOf(d.agent), channel |-> channel,
           to |-> to, previous |-> FrontierOf(LineOf(d.agent)), reply |-> reply,
           before |-> {}, after |-> {}]
  BY <1>1 DEF LineEntry
<1>3. FrontierOf(LineOf(d.agent)) \subseteq DOMAIN entries'
  <2>1. DOMAIN entries' = DOMAIN entries \cup {version + 1}
    BY Appended DEF Tells
  <2>. QED  BY <2>1 DEF FrontierOf, Latest
<1>4. LineOf(d.agent) \in Line
  BY ActiveTyped DEF LineOf, Line, Sound, Loadable, Topology!TypeOK
<1>5. Entry' = [kind : {"behavior", "dialogue", "transition"}, actor : Agent, line : Line,
                channel : Channel \cup {"none"}, to : SUBSET Agent,
                previous : SUBSET DOMAIN entries', reply : Nat,
                before : SUBSET Part, after : SUBSET Part]
  BY DEF Entry
<1>6. e \in Entry'
  BY <1>1, <1>2, <1>3, <1>4, <1>5, ActiveTyped
<1>. QED  BY <1>1, <1>2, <1>6

\* The entries keep their types when one is appended.
LEMMA EntriesTyped ==
  ASSUME Sound, NEW e, AppendEntry(e), version' = version + 1, e \in Entry'
  PROVE  entries' \in [2..version' -> Entry']
<1>1. /\ DOMAIN entries' = DOMAIN entries \cup {version + 1} /\ DOMAIN entries' = 2..version'
      /\ entries' = [v \in 2..version' |-> entries'[v]] /\ entries'[version + 1] = e
      /\ \A v \in DOMAIN entries : entries'[v] = entries[v]
  BY Appended
<1>2. Entry \subseteq Entry'
  BY <1>1 DEF Entry
<1>3. \A v \in DOMAIN entries' : entries'[v] \in Entry'
  BY <1>1, <1>2, Versions
<1>. QED  BY <1>1, <1>3

\* An entry that continues the line of its actor keeps the chains.
LEMMA ChainsContinue ==
  ASSUME WorldInv, NEW e, AppendEntry(e), version' = version + 1,
         \/ e.previous = FrontierOf(e.line)
         \/ /\ e.kind = "transition"
            /\ \A v \in DOMAIN entries : entries[v].line # e.line
  PROVE  LinesAreChains'
<1> DEFINE earlier(v) == {w \in DOMAIN entries : w < v /\ entries[w].line = entries[v].line}
<1>1. /\ DOMAIN entries' = DOMAIN entries \cup {version + 1} /\ entries'[version + 1] = e
      /\ \A v \in DOMAIN entries : entries'[v] = entries[v]
  BY Appended DEF WorldInv
<1>2. version \in Nat /\ \A v \in DOMAIN entries : v \in Nat /\ v <= version
  BY Versions DEF WorldInv
<1>3. \A v \in DOMAIN entries :
        IF earlier(v) = {} THEN entries[v].previous # {} => entries[v].kind = "transition"
                           ELSE entries[v].previous = Latest(earlier(v))
  BY DEF WorldInv, LinesAreSound, LinesAreChains
<1>4. \A v \in DOMAIN entries : earlier(v)' = earlier(v)
  <2> TAKE v \in DOMAIN entries
  <2>1. \A w \in DOMAIN entries' : w < v => w \in DOMAIN entries
    BY <1>1, <1>2
  <2>2. \A w \in DOMAIN entries : entries'[w].line = entries[w].line
    BY <1>1
  <2>. QED  BY <1>1, <2>1, <2>2
<1>5. ASSUME NEW v, v = version + 1
      PROVE  earlier(v)' = {w \in DOMAIN entries : entries[w].line = e.line}
  <2>1. \A w \in DOMAIN entries' : w < v <=> w \in DOMAIN entries
    BY <1>1, <1>2, <1>5
  <2>2. \A w \in DOMAIN entries : entries'[w].line = entries[w].line
    BY <1>1
  <2>. QED  BY <1>1, <1>5, <2>1, <2>2
<1>6. \A V : Latest(V)' = Latest(V)
  BY DEF Latest
<1>7. ASSUME NEW v \in DOMAIN entries'
      PROVE  IF earlier(v)' = {} THEN entries'[v].previous # {} => entries'[v].kind = "transition"
                                 ELSE entries'[v].previous = Latest(earlier(v)')
  <2>1. CASE v \in DOMAIN entries
    <3>1. earlier(v)' = earlier(v) /\ entries'[v] = entries[v]
      BY <1>1, <1>4, <2>1
    <3>. HIDE DEF earlier
    <3>. QED  BY <1>3, <2>1, <3>1
  <2>2. CASE v = version + 1
    <3>1. CASE e.previous = FrontierOf(e.line)
      <4>1. FrontierOf(e.line) = Latest(earlier(v)')
        BY <1>5, <2>2 DEF FrontierOf
      <4>2. earlier(v)' = {} => Latest(earlier(v)') = {}
        BY DEF Latest
      <4>. HIDE DEF earlier
      <4>. QED  BY <1>1, <2>2, <3>1, <4>1, <4>2
    <3>2. CASE e.kind = "transition" /\ \A w \in DOMAIN entries : entries[w].line # e.line
      <4>1. earlier(v)' = {}
        BY <1>5, <2>2, <3>2
      <4>. HIDE DEF earlier
      <4>. QED  BY <1>1, <2>2, <3>2, <4>1
    <3>. QED  BY <3>1, <3>2
  <2>. QED  BY <1>1, <2>1, <2>2
<1>. QED  BY <1>6, <1>7 DEF LinesAreChains

\* An outcome that is told to a line: the entry continues the line, and its
\* request is visible to the one it asks.
LEMMA ToldStep ==
  ASSUME WorldInv, NEW d \in active, NEW e, NEW new, Tells(d, e, new)
  PROVE  WorldInv'
<1>1. /\ Sound /\ OldLines /\ CurrentLines /\ AsksAreSpoken /\ HasRead
      /\ DispatchesServable /\ LinesAreSound
  BY DEF WorldInv
<1>2. /\ UNCHANGED <<root, topo>> /\ version' = version + 1 /\ Finish(d) /\ RequestsGo(d, new)
      /\ AppendEntry(e) /\ wait' = [wait EXCEPT ![d.agent] = 0]
      /\ turns' \in [Agent -> 0..TurnLimit]
  BY DEF Tells
<1>3. /\ d.agent \in Agent /\ d.agent \in Members(d.agent) /\ count \in Nat
      /\ version \in Nat /\ wait \in [Agent -> 0..version]
  BY <1>1, ActiveTyped, Versions DEF Sound, TypeOK
<1>4. /\ running' \in BOOLEAN /\ count' = count /\ count' \in Nat /\ limit' \in Nat
      /\ active' = {} /\ last' \in [Agent -> 0..count']
      /\ cursor' \in [Agent -> 0..version']
      /\ \A a \in Agent : cursor'[a] = IF a = d.agent THEN Observed(a) ELSE cursor[a]
  BY <1>1, <1>2, FinishIs
<1>5. /\ DOMAIN entries' = DOMAIN entries \cup {version + 1} /\ entries'[version + 1] = e
      /\ \A v \in DOMAIN entries : entries'[v] = entries[v]
  BY <1>1, <1>2, Appended
<1>6. /\ e \in Entry' /\ e.kind # "transition" /\ e.line = LineOf(d.agent)
      /\ e.previous = FrontierOf(LineOf(d.agent))
      /\ e.to \subseteq Members(d.agent) /\ d.agent \in e.to
      /\ e.channel # "whisper" => e.to = Members(d.agent)
      /\ new # {} => e.channel \in Channel
  BY <1>1, ToldEntry
<1>7. \/ new = {}
      \/ /\ new = {version + 1}
         /\ \E t \in e.to \ {d.agent} :
              requests'[version + 1] =
                [from |-> d.agent, to |-> t, status |-> "pending", chance |-> 0]
  BY DEF Tells
<1>8. \A a : Members(a)' = Members(a) /\ LineOf(a)' = LineOf(a)
  BY <1>2 DEF Members, Topology!Members, LineOf
<1>9. Loadable' /\ (version >= 1)' /\ Topology!TypeOK'
  <2>1. root' \in [Agent -> Agent] /\ topo' \in [Agent -> Nat] /\ version' \in Nat
    BY <1>1, <1>2, <1>3 DEF Sound, Loadable, Topology!TypeOK
  <2>2. version' >= 1 /\ \A s \in Agent : topo[s] \in Nat /\ topo[s] <= version => topo[s] <= version + 1
    BY <1>1, <1>2, <1>3 DEF Sound
  <2>3. Topology!TopologyInv'
    BY <1>1, <1>2, <2>1, <2>2 DEF Sound, Loadable, Topology!TypeOK, Topology!TopologyInv
  <2>. QED  BY <2>1, <2>2, <2>3 DEF Loadable, Topology!TypeOK
<1>10. /\ DOMAIN requests' \subseteq DOMAIN entries'
       /\ \A r \in DOMAIN requests' :
            requests'[r] \in [from : Agent, to : Agent, chance : 0..count',
                              status : {"pending", "resolved", "cancelled"}]
  <2>1. DOMAIN requests \cup new \subseteq DOMAIN entries'
    BY <1>1, <1>5, <1>7 DEF Sound, TypeOK
  <2>2. \A r \in new : requests'[r] \in RequestRow
    <3> SUFFICES ASSUME NEW r \in new PROVE requests'[r] \in RequestRow
      OBVIOUS
    <3>1. PICK t \in e.to : requests'[version + 1] =
                               [from |-> d.agent, to |-> t, status |-> "pending", chance |-> 0]
      BY <1>7
    <3>2. r = version + 1
      BY <1>7
    <3>3. t \in Agent
      BY <1>6 DEF Members, Topology!Members
    <3>4. 0 \in 0..count
      BY <1>3
    <3>5. [from |-> d.agent, to |-> t, status |-> "pending", chance |-> 0] \in RequestRow
      BY <1>3, <3>3, <3>4 DEF RequestRow
    <3>. QED  BY <3>1, <3>2, <3>5
  <2>. QED  BY <1>1, <1>2, <1>4, <2>1, <2>2, RequestsTyped
<1>11. TypeOK'
  <2>1. wait' \in [Agent -> 0..version']
    <3>1. 0..version \subseteq 0..version' /\ 0 \in 0..version'
      BY <1>2, <1>3
    <3>. QED  BY <1>2, <1>3, <3>1
  <2>2. entries' \in [2..version' -> Entry']
    BY <1>1, <1>2, <1>6, EntriesTyped
  <2>. QED  BY <1>2, <1>4, <1>9, <1>10, <2>1, <2>2 DEF TypeOK
<1>12. OldLines'
  <2>1. \A v \in DOMAIN entries : entries[v].line[2] \in Nat /\ entries[v].line[2] <= version
    BY <1>1, Versions DEF OldLines, Entry, Line
  <2>2. e.line[2] \in Nat /\ e.line[2] <= version
    BY <1>1, <1>3, <1>6 DEF LineOf, Sound, Loadable, Topology!TypeOK, Topology!TopologyInv
  <2>3. \A v \in DOMAIN entries' : entries'[v].line[2] \in Nat /\ entries'[v].line[2] <= version
    BY <1>5, <2>1, <2>2
  <2>. QED  BY <1>2, <1>3, <2>3 DEF OldLines
<1>13. CurrentLines'
  <2> SUFFICES ASSUME NEW a \in Agent, NEW v \in DOMAIN entries', entries'[v].line = LineOf(a)
               PROVE  CASE entries'[v].kind = "transition" -> Members(a) \subseteq entries'[v].to
                        [] entries'[v].channel = "whisper" -> entries'[v].to \subseteq Members(a)
                        [] OTHER -> entries'[v].to = Members(a)
    BY <1>8 DEF CurrentLines
  <2>1. CASE v \in DOMAIN entries
    BY <1>1, <1>5, <2>1 DEF CurrentLines
  <2>2. CASE v = version + 1
    <3>1. Members(a) = Members(d.agent)
      BY <1>3, <1>5, <1>6, <2>2 DEF LineOf, Members, Topology!Members
    <3>. QED  BY <1>5, <1>6, <2>2, <3>1
  <2>. QED  BY <1>5, <2>1, <2>2
<1>14. AsksAreSpoken'
  <2>1. DOMAIN requests \subseteq DOMAIN entries
    BY <1>1 DEF Sound, TypeOK
  <2>. QED  BY <1>1, <1>2, <1>5, <1>6, <1>7, <2>1 DEF AsksAreSpoken, RequestsGo
<1>15. HasRead'
  <2> SUFFICES ASSUME NEW a \in Agent, NEW v \in Visible(a)', wait'[a] # 0, v <= wait'[a]
               PROVE  v <= cursor'[a]
    BY DEF HasRead
  <2>1. a # d.agent
    BY <1>2, <1>3
  <2>2. wait'[a] = wait[a] /\ cursor'[a] = cursor[a] /\ wait[a] \in 0..version
    BY <1>2, <1>3, <1>4, <2>1
  <2>3. v \in Visible(a)
    BY <1>1, <1>2, <1>3, <2>2, Remembers
  <2>. QED  BY <1>1, <2>2, <2>3 DEF HasRead
<1>16. DispatchesServable'
  <2>0. \A a : Visible(a) \subseteq Visible(a)' /\ (a \in e.to => version + 1 \in Visible(a)')
    BY <1>1, <1>2, Remembers
  <2>1. ASSUME NEW a \in Agent, cursor'[a] # 0 PROVE cursor'[a] \in Visible(a)'
    BY <1>1, <1>4, <2>0, <2>1, ObservedLast DEF DispatchesServable
  <2>2. ASSUME NEW r \in Pending'
        PROVE  (r \in Visible(requests[r].to) /\ root[requests[r].from] = root[requests[r].to])'
    <3>1. CASE r \in new
      <4>0. r = version + 1
        BY <1>7, <3>1
      <4>1. PICK t \in e.to : requests'[r].from = d.agent /\ requests'[r].to = t
        <5>1. PICK t \in e.to : requests'[version + 1] =
                                 [from |-> d.agent, to |-> t, status |-> "pending", chance |-> 0]
          BY <1>7, <3>1
        <5>2. requests'[r] = requests'[version + 1]
          BY <4>0
        <5>3. requests'[r].from = d.agent /\ requests'[r].to = t
          BY <5>1, <5>2
        <5>. QED  BY <5>3
      <4>2. root[t] = root[d.agent]
        BY <1>6, <4>1 DEF Members, Topology!Members
      <4>. QED  BY <1>2, <2>0, <4>0, <4>1, <4>2
    <3>2. CASE r \in Pending /\ requests'[r].from = requests[r].from /\ requests'[r].to = requests[r].to
      <4>1. r \in Visible(requests[r].to) /\ root[requests[r].from] = root[requests[r].to]
        BY <1>1, <3>2 DEF DispatchesServable
      <4>2. r \in Visible(requests[r].to)'
        BY <2>0, <3>2, <4>1 DEF Visible
      <4>. QED  BY <1>2, <2>0, <3>2, <4>1
    <3>. QED  BY <1>1, <1>2, <3>1, <3>2, PendingGoes
  <2>. QED  BY <1>4, <2>1, <2>2 DEF DispatchesServable
<1>17. LinesAreChains'
  BY <1>2, <1>6, ChainsContinue
<1>18. OneAudiencePerLine'
  <2> SUFFICES ASSUME NEW v \in DOMAIN entries', NEW w \in DOMAIN entries',
                      entries'[v].line = entries'[w].line, entries'[v].kind # "transition",
                      entries'[v].channel # "whisper"
               PROVE  CASE entries'[w].kind = "transition" -> entries'[v].to \subseteq entries'[w].to
                        [] entries'[w].channel = "whisper" -> entries'[w].to \subseteq entries'[v].to
                        [] OTHER -> entries'[w].to = entries'[v].to
    BY DEF OneAudiencePerLine
  <2>1. CASE v \in DOMAIN entries /\ w \in DOMAIN entries
    BY <1>1, <1>5, <2>1 DEF LinesAreSound, OneAudiencePerLine
  <2>2. CASE v = version + 1
    <3>1. entries'[v].to = Members(d.agent) /\ entries'[w].line = LineOf(d.agent)
      BY <1>5, <1>6, <2>2
    <3>2. CASE w = version + 1
      BY <1>5, <1>6, <2>2, <3>1, <3>2
    <3>3. CASE w \in DOMAIN entries
      BY <1>1, <1>3, <1>5, <3>1, <3>3 DEF CurrentLines
    <3>. QED  BY <1>5, <3>2, <3>3
  <2>3. CASE v \in DOMAIN entries /\ w = version + 1
    <3>1. entries'[v].to = Members(d.agent)
      <4>1. entries[v].line = LineOf(d.agent) /\ entries[v].kind # "transition"
            /\ entries[v].channel # "whisper"
        BY <1>5, <1>6, <2>3
      <4>. QED  BY <1>1, <1>3, <1>5, <2>3, <4>1 DEF CurrentLines
    <3>. QED  BY <1>5, <1>6, <2>3, <3>1
  <2>. QED  BY <1>5, <2>1, <2>2, <2>3
<1>. QED  BY <1>9, <1>11, <1>12, <1>13, <1>14, <1>15, <1>16, <1>17, <1>18
          DEF WorldInv, Sound, LinesAreSound

\* A transition: the new lines are newer than every entry, and a request whose
\* sides stay together stays.
LEMMA MovedStep ==
  ASSUME WorldInv, NEW d \in active, NEW e, NEW affected, Moved(d, e, affected)
  PROVE  WorldInv'
<1>1. /\ Sound /\ Loadable /\ OldLines /\ CurrentLines /\ AsksAreSpoken /\ HasRead
      /\ DispatchesServable /\ LinesAreSound
  BY DEF WorldInv, Sound
<1>2. /\ Finish(d) /\ Moves(d.agent, affected) /\ RequestsGo(d, {}) /\ AppendEntry(e)
      /\ wait' = [s \in Agent |-> IF s \in affected THEN 0 ELSE wait[s]]
      /\ turns' = [turns EXCEPT ![d.agent] = 0]
  BY DEF Moved
<1>3. /\ d.agent \in Agent /\ count \in Nat /\ version \in Nat /\ version >= 1
      /\ wait \in [Agent -> 0..version] /\ turns \in [Agent -> 0..TurnLimit] /\ TurnLimit \in Nat
  BY <1>1, ActiveTyped, Versions, BoundAssumption DEF Sound, TypeOK
<1>4. /\ Loadable' /\ version' = version + 1
      /\ affected \subseteq Agent /\ d.agent \in affected
      /\ \A u \in affected : Members(u) \subseteq affected /\ topo'[u] = version + 1
      /\ \A u \in affected : Members(u)' \subseteq affected
      /\ \A u \in Agent \ affected :
           root'[u] = root[u] /\ topo'[u] = topo[u] /\ Members(u)' = Members(u)
  BY <1>1, <1>2, <1>3, MoveRows
<1>5. /\ running' \in BOOLEAN /\ count' = count /\ count' \in Nat /\ limit' \in Nat
      /\ active' = {} /\ last' \in [Agent -> 0..count']
      /\ cursor' \in [Agent -> 0..version']
      /\ \A a \in Agent : cursor'[a] = IF a = d.agent THEN Observed(a) ELSE cursor[a]
  BY <1>1, <1>2, <1>4, FinishIs
<1>6. /\ DOMAIN entries' = DOMAIN entries \cup {version + 1} /\ entries'[version + 1] = e
      /\ \A v \in DOMAIN entries : entries'[v] = entries[v]
  BY <1>1, <1>2, <1>4, Appended
<1>7. /\ e \in Entry' /\ e.kind = "transition" /\ e.line = <<root'[d.agent], version + 1>>
      /\ e.to = affected /\ e.channel = "none"
  BY DEF Moved
<1>8. \A v \in DOMAIN entries : entries[v].line[2] \in Nat /\ entries[v].line[2] <= version
  BY <1>1, Versions DEF OldLines, Entry, Line
<1>9. \A a \in Agent : topo[a] \in Nat /\ topo[a] <= version
  BY <1>1 DEF Loadable, Topology!TypeOK, Topology!TopologyInv
<1>10. TypeOK'
  <2>1. DOMAIN requests' \subseteq DOMAIN entries'
    BY <1>1, <1>2, <1>6 DEF RequestsGo, Sound, TypeOK
  <2>2. \A r \in DOMAIN requests' :
          requests'[r] \in [from : Agent, to : Agent, chance : 0..count',
                            status : {"pending", "resolved", "cancelled"}]
    BY <1>2, <1>5 DEF RequestsGo, RequestRow
  <2>3. wait' \in [Agent -> 0..version'] /\ turns' \in [Agent -> 0..TurnLimit]
    <3>1. 0..version \subseteq 0..version' /\ 0 \in 0..version' /\ 0 \in 0..TurnLimit
      BY <1>3, <1>4
    <3>. QED  BY <1>2, <1>3, <3>1
  <2>4. entries' \in [2..version' -> Entry']
    BY <1>1, <1>2, <1>4, <1>7, EntriesTyped
  <2>. QED  BY <1>4, <1>5, <2>1, <2>2, <2>3, <2>4 DEF TypeOK, Loadable
<1>11. OldLines'
  <2>1. e.line[2] = version + 1
    BY <1>7
  <2>2. \A v \in DOMAIN entries' : entries'[v].line[2] <= version + 1
    BY <1>3, <1>6, <1>8, <2>1
  <2>. QED  BY <1>4, <2>2 DEF OldLines
<1>12. CurrentLines'
  <2> SUFFICES ASSUME NEW a \in Agent, NEW v \in DOMAIN entries',
                      entries'[v].line = <<root'[a], topo'[a]>>
               PROVE  CASE entries'[v].kind = "transition" -> Members(a)' \subseteq entries'[v].to
                        [] entries'[v].channel = "whisper" -> entries'[v].to \subseteq Members(a)'
                        [] OTHER -> entries'[v].to = Members(a)'
    BY DEF CurrentLines, LineOf
  <2>1. entries'[v].line[2] = topo'[a]
    OBVIOUS
  <2>2. CASE v \in DOMAIN entries
    <3>1. a \notin affected
      BY <1>3, <1>4, <1>6, <1>8, <2>1, <2>2
    <3>2. entries[v].line = LineOf(a) /\ Members(a)' = Members(a) /\ entries'[v] = entries[v]
      BY <1>4, <1>6, <2>2, <3>1 DEF LineOf
    <3>. QED  BY <1>1, <2>2, <3>2 DEF CurrentLines
  <2>3. CASE v = version + 1
    <3>1. topo'[a] = version + 1
      BY <1>6, <1>7, <2>1, <2>3
    <3>2. a \in affected
      BY <1>3, <1>4, <1>9, <3>1
    <3>3. entries'[v] = e
      BY <1>6, <2>3
    <3>4. Members(a)' \subseteq e.to
      BY <1>4, <1>7, <3>2
    <3>. QED  BY <1>7, <3>3, <3>4
  <2>. QED  BY <1>6, <2>2, <2>3
<1>13. AsksAreSpoken'
  <2>1. DOMAIN requests \subseteq DOMAIN entries
    BY <1>1 DEF Sound, TypeOK
  <2>. QED  BY <1>1, <1>2, <1>6, <2>1 DEF AsksAreSpoken, RequestsGo
<1>14. HasRead'
  <2> SUFFICES ASSUME NEW a \in Agent, NEW v \in Visible(a)', wait'[a] # 0, v <= wait'[a]
               PROVE  v <= cursor'[a]
    BY DEF HasRead
  <2>1. a \notin affected /\ a # d.agent
    BY <1>2, <1>4
  <2>2. wait'[a] = wait[a] /\ cursor'[a] = cursor[a] /\ wait[a] \in 0..version
    BY <1>2, <1>3, <1>5, <2>1
  <2>3. v \in Visible(a)
    BY <1>1, <1>2, <1>3, <1>4, <2>2, Remembers
  <2>. QED  BY <1>1, <2>2, <2>3 DEF HasRead
<1>15. DispatchesServable'
  <2>0. \A a : Visible(a) \subseteq Visible(a)'
    BY <1>1, <1>2, <1>4, Remembers
  <2>1. ASSUME NEW a \in Agent, cursor'[a] # 0 PROVE cursor'[a] \in Visible(a)'
    BY <1>1, <1>5, <2>0, <2>1, ObservedLast DEF DispatchesServable
  <2>2. ASSUME NEW r \in Pending'
        PROVE  (r \in Visible(requests[r].to) /\ root[requests[r].from] = root[requests[r].to])'
    <3>1. r \in Pending /\ requests'[r].from = requests[r].from /\ requests'[r].to = requests[r].to
      BY <1>1, <1>2, PendingGoes
    <3>2. r \in Visible(requests[r].to) /\ root[requests[r].from] = root[requests[r].to]
      BY <1>1, <3>1 DEF DispatchesServable
    <3>3. (r \in Visible(requests[r].to))'
      BY <2>0, <3>1, <3>2 DEF Visible
    <3>4. /\ r \in DOMAIN requests /\ requests'[r].status = "pending"
          /\ requests[r].from \in Agent /\ requests[r].to \in Agent
      BY <1>1, <3>1 DEF Pending, Sound, TypeOK
    <3>5. requests[r].from \in Members(requests[r].to) /\ requests[r].to \in Members(requests[r].from)
      BY <3>2, <3>4 DEF Members, Topology!Members
    <3>6. CASE {requests[r].from, requests[r].to} \subseteq affected
      BY <3>1, <3>3, <3>4, <3>6 DEF Moved
    <3>7. CASE ~({requests[r].from, requests[r].to} \subseteq affected)
      <4>1. requests[r].from \in Agent \ affected /\ requests[r].to \in Agent \ affected
        BY <1>4, <3>4, <3>5, <3>7
      <4>. QED  BY <1>4, <3>1, <3>2, <3>3, <4>1
    <3>. QED  BY <3>6, <3>7
  <2>. QED  BY <1>5, <2>1, <2>2 DEF DispatchesServable
<1>16. LinesAreChains'
  <2>1. \A v \in DOMAIN entries : entries[v].line # e.line
    BY <1>3, <1>7, <1>8
  <2>. QED  BY <1>2, <1>4, <1>7, <2>1, ChainsContinue
<1>17. OneAudiencePerLine'
  <2> SUFFICES ASSUME NEW v \in DOMAIN entries', NEW w \in DOMAIN entries',
                      entries'[v].line = entries'[w].line, entries'[v].kind # "transition",
                      entries'[v].channel # "whisper"
               PROVE  CASE entries'[w].kind = "transition" -> entries'[v].to \subseteq entries'[w].to
                        [] entries'[w].channel = "whisper" -> entries'[w].to \subseteq entries'[v].to
                        [] OTHER -> entries'[w].to = entries'[v].to
    BY DEF OneAudiencePerLine
  <2>1. v \in DOMAIN entries
    BY <1>6, <1>7
  <2>2. w \in DOMAIN entries
    BY <1>3, <1>6, <1>7, <1>8, <2>1
  <2>. QED  BY <1>1, <1>6, <2>1, <2>2 DEF LinesAreSound, OneAudiencePerLine
<1>18. (version >= 1)'
  BY <1>3, <1>4
<1>. QED  BY <1>4, <1>10, <1>11, <1>12, <1>13, <1>14, <1>15, <1>16, <1>17, <1>18
          DEF WorldInv, Sound, LinesAreSound

\* What a claim writes.
LEMMA ClaimIs ==
  ASSUME Sound, Claim
  PROVE  /\ Selected(Select) /\ count' = count + 1 /\ active' = {Select}
         /\ last' = [last EXCEPT ![Select.agent] = count + 1]
         /\ wait' = [wait EXCEPT ![Select.agent] = 0]
<1>1. \E a \in Agent : Runnable(a)
  BY DEF Claim
<1>2. Selected(Select)
  BY <1>1, SelectIs
<1>. HIDE DEF Select
<1>. QED  BY <1>2 DEF Claim

\* The steps of the runner write no entry, request or topology row.
LEMMA ScheduleStep ==
  ASSUME WorldInv,
         \/ \E n \in Quota : Resume(n)
         \/ Pause
         \/ Claim
         \/ \E d \in active : Fail(d)
  PROVE  WorldInv'
<1>1. /\ Sound /\ OldLines /\ CurrentLines /\ AsksAreSpoken /\ HasRead
      /\ DispatchesServable /\ LinesAreSound
  BY DEF WorldInv
<1>2. UNCHANGED <<topology, turns, entries, requests, cursor>>
  <2>1. CASE \E n \in Quota : Resume(n)
    BY <2>1 DEF Resume, Unscheduled, topology
  <2>2. CASE Pause
    BY <2>2 DEF Pause, Unscheduled, topology
  <2>3. CASE Claim
    BY <2>3 DEF Claim, topology
  <2>4. CASE \E d \in active : Fail(d)
    BY <2>4 DEF Fail, Unscheduled, topology
  <2>. QED  BY <2>1, <2>2, <2>3, <2>4
<1>3. UNCHANGED <<root, topo, version>>
  BY <1>2 DEF topology
<1>4. /\ running' \in BOOLEAN /\ count' \in Nat /\ count' >= count /\ limit' \in Nat
      /\ last' \in [Agent -> 0..count']
      /\ \A a \in Agent : wait'[a] = wait[a] \/ wait'[a] = 0
      /\ wait' \in [Agent -> 0..version']
      /\ \/ active' = {}
         \/ active' = {Select} /\ Selected(Select)
  <2>0. /\ running \in BOOLEAN /\ count \in Nat /\ limit \in Nat /\ version \in Nat
        /\ last \in [Agent -> 0..count] /\ wait \in [Agent -> 0..version]
    BY <1>1, Versions DEF Sound, TypeOK
  <2>1. CASE \E n \in Quota : Resume(n)
    BY <1>3, <2>0, <2>1, BoundAssumption DEF Resume, Unscheduled
  <2>2. CASE Pause
    <3>1. active' = {} /\ running' = FALSE /\ UNCHANGED <<count, limit, last, wait>>
      BY <2>2 DEF Pause, Unscheduled
    <3>2. count' \in Nat /\ count' >= count
      BY <2>0, <3>1
    <3>. QED  BY <1>3, <2>0, <3>1, <3>2
  <2>3. CASE Claim
    <3>1. /\ Selected(Select) /\ count' = count + 1 /\ active' = {Select}
          /\ last' = [last EXCEPT ![Select.agent] = count + 1]
          /\ wait' = [wait EXCEPT ![Select.agent] = 0]
      BY <1>1, <2>3, ClaimIs
    <3>2. running' = running /\ limit' = limit
      BY <2>3 DEF Claim
    <3>. HIDE DEF Select
    <3>3. 0..count \subseteq 0..count' /\ count + 1 \in 0..count' /\ 0 \in 0..version
      BY <2>0, <3>1
    <3>4. last' \in [Agent -> 0..count'] /\ wait' \in [Agent -> 0..version']
      BY <1>3, <2>0, <3>1, <3>3
    <3>5. \A a \in Agent : wait'[a] = wait[a] \/ wait'[a] = 0
      BY <2>0, <3>1
    <3>6. count' \in Nat /\ count' >= count
      BY <2>0, <3>1
    <3>. QED  BY <2>0, <3>1, <3>2, <3>4, <3>5, <3>6
  <2>4. CASE \E d \in active : Fail(d)
    BY <1>3, <2>0, <2>4 DEF Fail, Unscheduled
  <2>. QED  BY <2>1, <2>2, <2>3, <2>4
<1>5. Loadable' /\ (version >= 1)' /\ Topology!TypeOK'
  BY <1>1, <1>3 DEF Sound, Loadable, Topology!TypeOK, Topology!TopologyInv
<1>6. TypeOK'
  <2>1. active' \subseteq [agent : Agent, request : {0} \cup DOMAIN requests']
    <3>. HIDE DEF Select
    <3>. QED  BY <1>2, <1>4 DEF Selected
  <2>2. \A r \in DOMAIN requests' :
          requests'[r] \in [from : Agent, to : Agent, chance : 0..count',
                            status : {"pending", "resolved", "cancelled"}]
    <3>1. count \in Nat /\ 0..count \subseteq 0..count'
      BY <1>1, <1>4 DEF Sound, TypeOK
    <3>. QED  BY <1>1, <1>2, <3>1 DEF Sound, TypeOK
  <2>. QED  BY <1>1, <1>2, <1>3, <1>4, <1>5, <2>1, <2>2 DEF Sound, TypeOK, Entry
<1>7. \A a : Visible(a)' = Visible(a) /\ Members(a)' = Members(a) /\ LineOf(a)' = LineOf(a)
  BY <1>2, <1>3 DEF Visible, Members, Topology!Members, LineOf
<1>8. OldLines' /\ CurrentLines' /\ AsksAreSpoken' /\ LinesAreSound'
  BY <1>1, <1>2, <1>3, <1>7 DEF OldLines, CurrentLines, AsksAreSpoken,
     LinesAreSound, LinesAreChains, OneAudiencePerLine, Latest
<1>9. HasRead'
  BY <1>1, <1>2, <1>4, <1>7 DEF HasRead
<1>10. DispatchesServable'
  <2>1. Pending' = Pending
    BY <1>2 DEF Pending
  <2>2. ASSUME NEW d \in active', d.request # 0
        PROVE  (d.request \in Pending /\ requests[d.request].to = d.agent /\ requests[d.request].chance = 0)'
    <3>. HIDE DEF Select
    <3>1. d = Select /\ Selected(Select)
      BY <1>4
    <3>2. d.request \in Prioritised /\ requests[d.request].to = d.agent
      BY <2>2, <3>1 DEF Selected
    <3>3. d.request \in Pending /\ requests[d.request].chance = 0
      BY <3>2 DEF Prioritised, Unconsumed
    <3>. QED  BY <1>2, <2>1, <3>2, <3>3
  <2>. QED  BY <1>1, <1>2, <1>3, <1>7, <2>1, <2>2 DEF DispatchesServable
<1>. QED  BY <1>5, <1>6, <1>8, <1>9, <1>10 DEF WorldInv, Sound

-----------------------------------------------------------------------------
(* The invariant always holds, and so does what it says.                   *)

\* A World begins with every character alone or in company, and no entry.
LEMMA InitWorld == Init => WorldInv
<1> SUFFICES ASSUME Init PROVE WorldInv
  OBVIOUS
<1>1. /\ root \in [Agent -> Agent] /\ topo = [s \in Agent |-> 1] /\ version = 1
      /\ \A s \in Agent : root[root[s]] = root[s]
  BY DEF Init, Topology!Init
<1>2. Loadable /\ Topology!TypeOK
  BY <1>1 DEF Loadable, Topology!TypeOK, Topology!TopologyInv
<1>3. DOMAIN entries = {} /\ DOMAIN requests = {} /\ 2..version = {}
  <2>1. entries = <<>> /\ requests = <<>> /\ 2..version = {}
    BY <1>1 DEF Init
  <2>. QED  BY <2>1
<1>4. entries \in [2..version -> Entry]
  BY <1>1, <1>3 DEF Init
<1>5. /\ last \in [Agent -> 0..count] /\ wait \in [Agent -> 0..version]
      /\ turns \in [Agent -> 0..TurnLimit] /\ cursor \in [Agent -> 0..version]
      /\ running \in BOOLEAN /\ count \in Nat /\ limit \in Nat /\ active = {}
  <2>1. 0 \in 0..0 /\ 0 \in 0..1 /\ 0 \in 0..TurnLimit
    BY BoundAssumption
  <2>2. /\ last = [a \in Agent |-> 0] /\ wait = [a \in Agent |-> 0] /\ count = 0 /\ limit = 0
        /\ turns = [a \in Agent |-> 0] /\ cursor = [a \in Agent |-> 0] /\ running = FALSE
        /\ active = {} /\ version = 1
    BY <1>1 DEF Init
  <2>. QED  BY <2>1, <2>2
<1>6. TypeOK
  BY <1>2, <1>3, <1>4, <1>5 DEF TypeOK
<1>7. OldLines /\ CurrentLines /\ AsksAreSpoken /\ HasRead /\ LinesAreSound
  BY <1>3 DEF OldLines, CurrentLines, AsksAreSpoken, HasRead, LinesAreSound,
              LinesAreChains, OneAudiencePerLine, Visible
<1>8. DispatchesServable
  BY <1>3, <1>5 DEF DispatchesServable, Pending, Init
<1>. QED  BY <1>1, <1>2, <1>6, <1>7, <1>8 DEF WorldInv, Sound

\* The three kinds of outcome and the steps of the runner are all there is.
LEMMA NextWorld == WorldInv /\ [Next]_vars => WorldInv'
<1> SUFFICES ASSUME WorldInv, [Next]_vars PROVE WorldInv'
  OBVIOUS
<1>1. ASSUME NEW d \in active, Commit(d) PROVE WorldInv'
  BY <1>1, Outcomes, QuietStep, ToldStep, MovedStep
<1>2. CASE \/ \E n \in Quota : Resume(n)
           \/ Pause
           \/ Claim
           \/ \E d \in active : Fail(d)
  BY <1>2, ScheduleStep
<1>3. CASE UNCHANGED vars
  <2>1. UNCHANGED <<root, topo, version, running, count, limit, active, last, wait, turns,
                    entries, requests, cursor>>
    BY <1>3 DEF vars, topology
  <2>2. Sound'
    BY <2>1 DEF WorldInv, Sound, Loadable, TypeOK, Entry, Topology!TypeOK, Topology!TopologyInv
  <2>3. \A a : Visible(a)' = Visible(a) /\ Members(a)' = Members(a) /\ LineOf(a)' = LineOf(a)
    BY <2>1 DEF Visible, Members, Topology!Members, LineOf
  <2>4. OldLines' /\ CurrentLines' /\ AsksAreSpoken' /\ HasRead' /\ LinesAreSound'
    BY <2>1, <2>3 DEF WorldInv, OldLines, CurrentLines, AsksAreSpoken, HasRead, LinesAreSound,
                      LinesAreChains, OneAudiencePerLine, Latest
  <2>5. DispatchesServable'
    BY <2>1, <2>3 DEF WorldInv, DispatchesServable, Pending
  <2>. QED  BY <2>2, <2>4, <2>5 DEF WorldInv
<1>. QED  BY <1>1, <1>2, <1>3 DEF Next

\* The invariant holds always.
THEOREM WorldAlways == Spec => []WorldInv
  BY InitWorld, NextWorld, PTL DEF Spec

\* A character that waits has observed everything it can see.
LEMMA ReadingIsEnough == WorldInv => WaitersHaveRead
<1> SUFFICES ASSUME WorldInv, NEW a \in Agent, ~Runnable(a), NEW v \in Visible(a)
             PROVE  v <= cursor[a]
  BY DEF WaitersHaveRead
<1>1. v \in Nat /\ wait[a] \in Nat
  BY Versions DEF Visible, WorldInv, Sound, TypeOK
<1>2. wait[a] # 0 /\ v <= wait[a]
  BY <1>1 DEF Runnable
<1>. QED  BY <1>2 DEF WorldInv, HasRead

\* The rows of a World keep their types: the entries are numbered without a
\* gap, a request belongs to an entry, and what the columns name exists.
THEOREM TypeCorrect == Spec => []TypeOK
<1>1. WorldInv => TypeOK
  BY DEF WorldInv, Sound
<1>. QED  BY <1>1, WorldAlways, PTL

\* No row that commits can leave makes a later read or commit fail.
THEOREM AlwaysServable == Spec => []DispatchesServable
<1>1. WorldInv => DispatchesServable
  BY DEF WorldInv
<1>. QED  BY <1>1, WorldAlways, PTL

\* Waiting is safe: nothing that a waiting character can see is unread.
THEOREM WaitingIsSafe == Spec => []WaitersHaveRead
  BY ReadingIsEnough, WorldAlways, PTL

\* Every story line is one chain of entries, told to those who are on it.
THEOREM LinesAlwaysSound == Spec => []LinesAreSound
<1>1. WorldInv => LinesAreSound
  BY DEF WorldInv
<1>. QED  BY <1>1, WorldAlways, PTL

-----------------------------------------------------------------------------
(* The refinement of the topology.                                         *)

\* The steps of a World are the topology's, or leave it alone.
LEMMA TopologyStep == WorldInv /\ [Next]_vars => [Topology!Next]_(Topology!vars)
<1> SUFFICES ASSUME WorldInv, [Next]_vars PROVE [Topology!Next]_(Topology!vars)
  OBVIOUS
<1>1. ASSUME NEW d \in active, Commit(d) PROVE Topology!Next \/ UNCHANGED <<root, topo, version>>
  <2>0. d.agent \in Agent
    BY ActiveTyped DEF WorldInv
  <2>1. CASE Decline(d)
    BY <2>1 DEF Decline, topology
  <2>2. CASE Behave(d)
    BY <2>2 DEF Behave, Topology!Next
  <2>3. ASSUME NEW t, NEW channel, NEW reply, Dialogue(d, t, channel, reply) PROVE Topology!Next
    BY <2>3 DEF Dialogue, Topology!Next
  <2>4. CASE \E t \in Agent, channel \in Channel : Utter(d, t, channel) \/ Ask(d, t, channel)
    BY <2>3, <2>4 DEF Utter, Ask
  <2>5. CASE \E r \in Pending : Respond(d, r)
    BY <2>3, <2>5 DEF Respond
  <2>6. CASE Leave(d)
    BY <2>0, <2>6 DEF Leave, Transition, Topology!Leave, Topology!Next
  <2>7. CASE \E t \in Agent : Join(d, t)
    BY <2>0, <2>7 DEF Join, Transition, Topology!Join, Topology!Next
  <2>. QED  BY <1>1, <2>1, <2>2, <2>4, <2>5, <2>6, <2>7 DEF Commit
<1>2. CASE \E n \in Quota : Resume(n)
  BY <1>2 DEF Resume, Unscheduled, topology, Topology!vars
<1>3. CASE Pause
  BY <1>3 DEF Pause, Unscheduled, topology, Topology!vars
<1>4. CASE Claim
  BY <1>4 DEF Claim, topology, Topology!vars
<1>5. CASE \E d \in active : Fail(d)
  BY <1>5 DEF Fail, Unscheduled, topology, Topology!vars
<1>6. CASE UNCHANGED vars
  BY <1>6 DEF vars, topology, Topology!vars
<1>. QED  BY <1>1, <1>2, <1>3, <1>4, <1>5, <1>6 DEF Next, Topology!vars

-----------------------------------------------------------------------------
(* The turns: what the refinement of the Scheduler rests on.               *)

\* The requests that can still give priority.
Open == {r \in Pending : requests[r].chance = 0}

\* One dispatch at a time, and at most one request without its dispatch: whose
\* recipient is runnable, and is chosen before anybody else.  No two characters
\* have had the same dispatch.
TurnInv ==
  /\ \A d, e \in active : d = e
  /\ \A d \in active : count > 0
  /\ \A q, r \in Open : q = r
  /\ \A r \in Open : Runnable(requests[r].to) /\ requests[r].from # requests[r].to
  /\ \A r \in Open : \A d \in active : d.request = r
  /\ \A a, b \in Agent : last[a] = last[b] /\ last[a] > 0 => a = b

\* Whoever has a turn uses up the open request.
LEMMA OpenGoes ==
  ASSUME Sound, TurnInv, NEW d \in active, NEW new, RequestsGo(d, new)
  PROVE  Open' \subseteq new
<1> SUFFICES ASSUME NEW r \in Open', r \notin new PROVE FALSE
  OBVIOUS
<1>1. r \in DOMAIN requests /\ requests'[r].status = "pending" /\ requests'[r].chance = 0
  BY DEF Open, Pending, RequestsGo
<1>2. requests[r].status = "pending" /\ 0 = IF r = d.request THEN count ELSE requests[r].chance
  BY <1>1 DEF RequestsGo
<1>3. CASE r = d.request
  BY <1>2, <1>3 DEF TurnInv, Sound, TypeOK
<1>4. CASE r # d.request
  <2>1. r \in Open
    BY <1>1, <1>2, <1>4 DEF Open, Pending
  <2>. QED  BY <1>4, <2>1 DEF TurnInv
<1>. QED  BY <1>3, <1>4

\* While a request is open its recipient is selected.
LEMMA SelectsOpen ==
  ASSUME Sound, TurnInv, NEW r \in Open, NEW d, Selected(d)
  PROVE  d.request = r /\ d.agent = requests[r].to
<1>1. r \in Nat
  BY Versions DEF Open, Pending, Sound, TypeOK
<1>2. \A q \in Open : q = r
  BY DEF TurnInv
<1>3. r \in Unconsumed
  <2>1. Unconsumed = {x \in Open : \A q \in Open : requests[q].to = requests[x].to => x <= q}
    BY DEF Unconsumed, Open
  <2>2. \A q \in Open : r <= q
    BY <1>1, <1>2
  <2>. QED  BY <2>1, <2>2
<1>4. r \in Prioritised
  BY <1>3 DEF Prioritised, TurnInv
<1>5. d.request \in Prioritised /\ requests[d.request].to = d.agent
  BY <1>4 DEF Selected
<1>6. d.request \in Open
  BY <1>5 DEF Prioritised, Unconsumed, Open
<1>. QED  BY <1>2, <1>5, <1>6

\* Nothing is active and nothing is asked in the beginning.
LEMMA InitTurns == Init => TurnInv
  BY DEF Init, TurnInv, Open, Pending

\* The three kinds of outcome leave nothing active and what new requests open.
LEMMA OutcomeTurns ==
  ASSUME WorldInv, TurnInv, NEW d \in active, Commit(d)
  PROVE  TurnInv'
<1>1. Sound /\ \A a, b \in Agent : last[a] = last[b] /\ last[a] > 0 => a = b
  BY DEF WorldInv, TurnInv
<1>2. CASE Quiet(d)
  <2>1. Open' = {} /\ active' = {} /\ last' = last
    BY <1>1, <1>2, OpenGoes DEF Quiet, Finish
  <2>. QED  BY <1>1, <2>1 DEF TurnInv
<1>3. ASSUME NEW e, NEW new, Tells(d, e, new) PROVE TurnInv'
  <2>1. active' = {} /\ last' = last /\ RequestsGo(d, new) /\ version' = version + 1 /\ AppendEntry(e)
    BY <1>3 DEF Tells, Finish
  <2>2. Open' \subseteq new
    BY <1>1, <2>1, OpenGoes
  <2>3. new = {} \/ new = {version + 1}
    BY <1>3 DEF Tells
  <2>4. ASSUME NEW r \in Open' PROVE (Runnable(requests[r].to) /\ requests[r].from # requests[r].to)'
    <3>1. r = version + 1
      BY <2>2, <2>3
    <3>2. PICK t \in e.to \ {d.agent} :
            requests'[version + 1] =
              [from |-> d.agent, to |-> t, status |-> "pending", chance |-> 0]
      BY <1>3, <2>2 DEF Tells
    <3>3. requests'[r].from = d.agent /\ requests'[r].to = t /\ t # d.agent
      <4>1. requests'[r] = requests'[version + 1]
        BY <3>1
      <4>. QED  BY <3>2, <4>1
    <3>4. version + 1 \in Visible(t)'
      BY <1>1, <2>1, <3>2, Remembers
    <3>5. wait'[t] < version + 1
      <4>1. e.to \subseteq Members(d.agent)
        BY <1>1, <1>3, ToldEntry
      <4>2. t \in Agent /\ wait \in [Agent -> 0..version] /\ version \in Nat
        BY <1>1, <4>1, Versions DEF Members, Topology!Members, Sound, TypeOK
      <4>3. wait' = [wait EXCEPT ![d.agent] = 0]
        BY <1>3 DEF Tells
      <4>. QED  BY <4>2, <4>3
    <3>6. Runnable(t)'
      <4>1. \E v \in Visible(t)' : v > wait'[t]
        BY <3>4, <3>5, <1>1, Versions
      <4>. QED  BY <4>1 DEF Runnable
    <3>. QED  BY <3>3, <3>6 DEF Runnable, Visible
  <2>. QED  BY <1>1, <2>1, <2>2, <2>3, <2>4 DEF TurnInv
<1>4. ASSUME NEW e, NEW affected, Moved(d, e, affected) PROVE TurnInv'
  <2>1. Open' = {} /\ active' = {} /\ last' = last
    BY <1>1, <1>4, OpenGoes DEF Moved, Finish
  <2>. QED  BY <1>1, <2>1 DEF TurnInv
<1>. QED  BY <1>2, <1>3, <1>4, Outcomes

\* A claim selects the recipient of the open request.
LEMMA ClaimTurns ==
  ASSUME WorldInv, TurnInv, Claim
  PROVE  TurnInv'
<1>1. /\ Sound /\ \A a, b \in Agent : last[a] = last[b] /\ last[a] > 0 => a = b
      /\ count \in Nat /\ last \in [Agent -> 0..count]
  BY DEF WorldInv, TurnInv, Sound, TypeOK
<1>2. /\ Selected(Select) /\ count' = count + 1 /\ active' = {Select}
      /\ last' = [last EXCEPT ![Select.agent] = count + 1]
      /\ wait' = [wait EXCEPT ![Select.agent] = 0]
  BY <1>1, ClaimIs
<1>3. UNCHANGED <<requests, entries>>
  BY DEF Claim
<1>. HIDE DEF Select
<1>4. Open' = Open /\ \A a : Visible(a)' = Visible(a)
  BY <1>3 DEF Open, Pending, Visible
<1>5. \A a \in Agent : wait'[a] = wait[a] \/ wait'[a] = 0
  BY <1>1, <1>2 DEF Sound, TypeOK
<1>6. \A a \in Agent : Runnable(a) => Runnable(a)'
  BY <1>4, <1>5 DEF Runnable
<1>7. \A r \in Open : requests[r].to \in Agent
  BY <1>1 DEF Open, Pending, Sound, TypeOK
<1>8. \A r \in Open' : (Runnable(requests[r].to) /\ requests[r].from # requests[r].to)'
  BY <1>3, <1>4, <1>6, <1>7 DEF TurnInv, Runnable, Visible
<1>9. \A r \in Open' : \A d \in active' : d.request = r
  BY <1>1, <1>2, <1>4, SelectsOpen
<1>10. \A a, b \in Agent : last'[a] = last'[b] /\ last'[a] > 0 => a = b
  <2>1. \A a \in Agent : last[a] \in Nat /\ last[a] <= count
    BY <1>1
  <2>2. \A a \in Agent : last'[a] = IF a = Select.agent THEN count + 1 ELSE last[a]
    BY <1>1, <1>2
  <2>. QED  BY <1>1, <2>1, <2>2
<1>11. /\ \A d, e \in active' : d = e
       /\ \A d \in active' : count' > 0
       /\ \A q, r \in Open' : q = r
  BY <1>1, <1>2, <1>4 DEF TurnInv
<1>. QED  BY <1>8, <1>9, <1>10, <1>11 DEF TurnInv

\* Only a claim makes a dispatch active, and only its outcome asks.
LEMMA NextTurns == WorldInv /\ TurnInv /\ [Next]_vars => TurnInv'
<1> SUFFICES ASSUME WorldInv, TurnInv, [Next]_vars PROVE TurnInv'
  OBVIOUS
<1>1. ASSUME NEW d \in active, Commit(d) PROVE TurnInv'
  BY <1>1, OutcomeTurns
<1>2. CASE Claim
  BY <1>2, ClaimTurns
<1>3. CASE UNCHANGED <<count, last, wait, entries, requests>> /\ active' \in {active, {}}
  <2>1. Open' = Open /\ \A a : Runnable(a)' = Runnable(a)
    BY <1>3 DEF Open, Pending, Runnable, Visible
  <2>. QED  BY <1>3, <2>1 DEF TurnInv
<1>4. CASE \E n \in Quota : Resume(n)
  BY <1>3, <1>4 DEF Resume, Unscheduled
<1>5. CASE Pause
  BY <1>3, <1>5 DEF Pause, Unscheduled
<1>6. CASE \E d \in active : Fail(d)
  BY <1>3, <1>6 DEF Fail, Unscheduled
<1>7. CASE UNCHANGED vars
  BY <1>3, <1>7 DEF vars
<1>. QED  BY <1>1, <1>2, <1>4, <1>5, <1>6, <1>7 DEF Next

-----------------------------------------------------------------------------
(* What the Scheduler sees of the rows.                                    *)

\* The characters that have been dispatched, and not after a.
UpTo(a) == {b \in Agent : 0 < last[b] /\ last[b] <= last[a]}

\* The order of the dispatches, without their numbers.
Rank(a) == Cardinality(UpTo(a))

\* The ranks of all characters.
Ranks == [a \in Agent |-> Rank(a)]

\* The lines, those who wait, what is asked and who decides.
Companies == {Members(a) : a \in Agent}
Waiting   == {a \in Agent : ~Runnable(a)}
Asked     == {[from |-> requests[r].from, to |-> requests[r].to] : r \in Open}
Deciding  == {d.agent : d \in active}

\* A step that changes nothing of it is no step of the Scheduler.
LEMMA SchedulerVars ==
  UNCHANGED <<Companies, Ranks, Waiting, turns, Asked, Deciding>> => UNCHANGED Turns!vars
  BY DEF Turns!vars, Companies, Ranks, Rank, UpTo, Waiting, Asked, Deciding, Open

\* The Scheduler counts as this module does.
LEMMA SameCount == \A S : Turns!Cardinality(S) = Cardinality(S)
  BY DEF Turns!Cardinality, Cardinality

\* The ranks are finite.
LEMMA RankTyped ==
  ASSUME Sound, NEW a
  PROVE  IsFiniteSet(UpTo(a)) /\ Rank(a) \in Nat
<1>1. UpTo(a) \in SUBSET Agent
  BY DEF UpTo
<1>2. IsFiniteSet(UpTo(a))
  BY <1>1, AgentAssumption, FS_Subset
<1>. QED  BY <1>2, FS_CardinalityType DEF Rank

\* Ranks compare like the dispatches.
LEMMA RankOrder ==
  ASSUME Sound, NEW a \in Agent, NEW b \in Agent
  PROVE  /\ Rank(a) <= Rank(b) <=> last[a] <= last[b]
         /\ Rank(a) > 0 <=> last[a] > 0
<1>1. \A c \in Agent : last[c] \in Nat
  BY DEF Sound, TypeOK
<1>2. ASSUME NEW x \in Agent, NEW y \in Agent, last[x] <= last[y] PROVE Rank(x) <= Rank(y)
  <2>1. UpTo(x) \in SUBSET UpTo(y)
    BY <1>1, <1>2 DEF UpTo
  <2>. QED  BY <2>1, RankTyped, FS_Subset DEF Rank
<1>3. ASSUME NEW x \in Agent, NEW y \in Agent, last[x] < last[y] PROVE Rank(x) < Rank(y)
  <2>1. UpTo(x) \in SUBSET UpTo(y) /\ UpTo(x) # UpTo(y)
    <3>1. y \in UpTo(y) /\ y \notin UpTo(x)
      BY <1>1, <1>3 DEF UpTo
    <3>. QED  BY <1>1, <1>3, <3>1 DEF UpTo
  <2>2. Rank(x) <= Rank(y) /\ Rank(x) # Rank(y)
    BY <2>1, RankTyped, FS_Subset DEF Rank
  <2>. QED  BY <2>2, RankTyped
<1>4. Rank(a) <= Rank(b) <=> last[a] <= last[b]
  <2>1. CASE last[a] <= last[b]
    BY <1>2, <2>1
  <2>2. CASE ~(last[a] <= last[b])
    <3>1. last[b] < last[a]
      BY <1>1, <2>2
    <3>2. Rank(b) < Rank(a)
      BY <1>3, <3>1
    <3>. QED  BY <2>2, <3>2, RankTyped
  <2>. QED  BY <2>1, <2>2
<1>5. Rank(a) > 0 <=> last[a] > 0
  <2>1. UpTo(a) = {} <=> ~(last[a] > 0)
    BY <1>1 DEF UpTo
  <2>2. Rank(a) = 0 <=> UpTo(a) = {}
    BY RankTyped, FS_EmptySet DEF Rank
  <2>. QED  BY <2>1, <2>2, RankTyped
<1>. QED  BY <1>4, <1>5

\* A claim makes a's dispatch the newest, and the ranks close up behind it.
LEMMA RanksBump ==
  ASSUME Sound, TurnInv, NEW a \in Agent, last' = [last EXCEPT ![a] = count + 1]
  PROVE  Ranks' = Turns!Bump(a)
<1>1. \A c \in Agent : last[c] \in Nat /\ last[c] <= count
  BY DEF Sound, TypeOK
<1>2. count \in Nat /\ \A c \in Agent : last'[c] = IF c = a THEN count + 1 ELSE last[c]
  BY DEF Sound, TypeOK
<1>3. Turns!Bump(a) =
        [b \in Agent |->
           IF b = a THEN Cardinality({c \in Agent : Ranks[c] > 0} \cup {a})
           ELSE IF Ranks[a] > 0 /\ Ranks[b] > Ranks[a] THEN Ranks[b] - 1
           ELSE Ranks[b]]
  BY SameCount DEF Turns!Bump, Ranks, Rank, UpTo
<1>4. Ranks' = [b \in Agent |-> Cardinality({c \in Agent : 0 < last'[c] /\ last'[c] <= last'[b]})]
  BY DEF Ranks, Rank, UpTo
<1>5. \A b \in Agent : Ranks[b] = Rank(b)
  BY DEF Ranks
<1>6. {c \in Agent : 0 < last'[c] /\ last'[c] <= last'[a]} = {c \in Agent : Ranks[c] > 0} \cup {a}
  <2>1. \A c \in Agent : Ranks[c] > 0 <=> last[c] > 0
    BY <1>5, RankOrder
  <2>2. last'[a] = count + 1
    BY <1>2
  <2>3. \A c \in Agent : 0 < last'[c] /\ last'[c] <= count + 1 <=> c = a \/ last[c] > 0
    BY <1>1, <1>2
  <2>. QED  BY <2>1, <2>2, <2>3
<1>7. ASSUME NEW b \in Agent, b # a
      PROVE  Cardinality({c \in Agent : 0 < last'[c] /\ last'[c] <= last'[b]})
               = IF Ranks[a] > 0 /\ Ranks[b] > Ranks[a] THEN Ranks[b] - 1 ELSE Ranks[b]
  <2>1. {c \in Agent : 0 < last'[c] /\ last'[c] <= last'[b]} = UpTo(b) \ {a}
    <3>1. last'[b] = last[b] /\ last[b] < count + 1 /\ last'[a] = count + 1
      BY <1>1, <1>2, <1>7
    <3>2. \A c \in Agent : 0 < last'[c] /\ last'[c] <= last'[b]
                             <=> c # a /\ 0 < last[c] /\ last[c] <= last[b]
      BY <1>1, <1>2, <3>1
    <3>. QED  BY <3>2 DEF UpTo
  <2>2. Cardinality(UpTo(b) \ {a}) = IF a \in UpTo(b) THEN Rank(b) - 1 ELSE Rank(b)
    BY RankTyped, FS_RemoveElement DEF Rank
  <2>3. a \in UpTo(b) <=> Rank(a) > 0 /\ Rank(b) > Rank(a)
    <3>1. Rank(a) > 0 <=> last[a] > 0
      BY RankOrder
    <3>2. Rank(b) > Rank(a) <=> last[b] > last[a]
      <4>1. Rank(b) <= Rank(a) <=> last[b] <= last[a]
        BY RankOrder
      <4>2. Rank(a) \in Nat /\ Rank(b) \in Nat
        BY RankTyped
      <4>. QED  BY <1>1, <4>1, <4>2
    <3>3. last[a] > 0 => last[a] # last[b]
      BY <1>7 DEF TurnInv
    <3>. QED  BY <1>1, <3>1, <3>2, <3>3 DEF UpTo
  <2>. QED  BY <1>5, <2>1, <2>2, <2>3
<1>. HIDE DEF Ranks
<1>8. \A b \in Agent :
        Cardinality({c \in Agent : 0 < last'[c] /\ last'[c] <= last'[b]})
          = IF b = a THEN Cardinality({c \in Agent : Ranks[c] > 0} \cup {a})
            ELSE IF Ranks[a] > 0 /\ Ranks[b] > Ranks[a] THEN Ranks[b] - 1
            ELSE Ranks[b]
  <2> TAKE b \in Agent
  <2>1. CASE b = a
    BY <1>6, <2>1
  <2>2. CASE b # a
    BY <1>7, <2>2
  <2>. QED  BY <2>1, <2>2
<1>. QED  BY <1>3, <1>4, <1>8

-----------------------------------------------------------------------------
(* Every step is a turn.                                                   *)

\* The Scheduler's choice, on the same lines and in the same order.
Able == Agent \ Waiting
Oldest(S) == {a \in S : \A b \in S : Ranks[a] <= Ranks[b]}
Recency(b) == CHOOSE n \in {Ranks[a] : a \in b} : \A a \in b : Ranks[a] <= n
AskedAble == {q.to : q \in Asked} \cap Able
AbleLines == {b \in Companies : b \cap Able # {}}
NextLines == {b \in AbleLines : \A c \in AbleLines : Recency(b) <= Recency(c)}

\* It is Choice, written out.
LEMMA ChoiceMeans ==
  Turns!Choice = IF AskedAble # {} THEN Oldest(AskedAble)
                                   ELSE UNION {Oldest(b \cap Able) : b \in NextLines}
  BY DEF Turns!Choice, Turns!Prioritised, Turns!Runnable, Turns!Oldest, Turns!Frontier,
         Able, Oldest, Recency, AskedAble, AbleLines, NextLines,
         Companies, Ranks, Rank, UpTo, Waiting, Asked, Open

\* A line is as recent as its most recent member, also by rank.
LEMMA RecencyIs ==
  ASSUME Sound, NEW a \in Agent
  PROVE  \E m \in Members(a) : /\ Recency(Members(a)) = Rank(m)
                               /\ last[m] = MostRecent({u \in Agent : root[u] = root[a]})
<1>1. Members(a) = {u \in Agent : root[u] = root[a]} /\ a \in Members(a) /\ Members(a) \subseteq Agent
  BY DEF Members, Topology!Members
<1>2. PICK m \in Members(a) : last[m] = MostRecent(Members(a)) /\ \A u \in Members(a) : last[u] <= last[m]
  BY <1>1, MostRecentIs
<1>3. \A u \in Members(a) : Ranks[u] = Rank(u) /\ Rank(u) \in Nat
  BY <1>1, RankTyped DEF Ranks
<1>4. \A u \in Members(a) : Rank(u) <= Rank(m)
  BY <1>1, <1>2, RankOrder
<1> DEFINE ranked == {Ranks[u] : u \in Members(a)}
<1>5. Rank(m) \in ranked /\ \A u \in Members(a) : Ranks[u] <= Rank(m)
  BY <1>3, <1>4
<1>6. \A n \in ranked : (\A u \in Members(a) : Ranks[u] <= n) => n = Rank(m)
  <2> TAKE n \in ranked
  <2> HAVE \A u \in Members(a) : Ranks[u] <= n
  <2>1. PICK u \in Members(a) : n = Rank(u)
    BY <1>3
  <2>2. Rank(m) <= Rank(u)
    BY <1>3, <2>1
  <2>. QED  BY <1>3, <1>4, <2>1, <2>2
<1>7. Recency(Members(a)) = CHOOSE n \in ranked : \A u \in Members(a) : Ranks[u] <= n
  BY DEF Recency
<1>. HIDE DEF ranked
<1>8. Recency(Members(a)) = Rank(m)
  BY <1>5, <1>6, <1>7
<1>. QED  BY <1>1, <1>2, <1>8

\* Whom the rows select, the Scheduler may choose.
LEMMA SelectIsChosen ==
  ASSUME Sound, TurnInv, NEW d, Selected(d)
  PROVE  d.agent \in Turns!Choice
<1>0. d.agent \in Agent /\ Runnable(d.agent) /\ d.agent \in Able
  BY DEF Selected, Able, Waiting
<1>1. \A a \in Agent : a \in Able <=> Runnable(a)
  BY DEF Able, Waiting
<1>2. \A a \in Agent : Ranks[a] = Rank(a) /\ Rank(a) \in Nat
  BY RankTyped DEF Ranks
<1>3. CASE Open # {}
  <2>1. PICK r \in Open : TRUE
    BY <1>3
  <2>2. d.request = r /\ d.agent = requests[r].to
    BY SelectsOpen
  <2>3. \A q \in Open : q = r
    BY DEF TurnInv
  <2>4. Asked = {[from |-> requests[r].from, to |-> requests[r].to]}
    BY <2>3 DEF Asked
  <2>5. AskedAble = {d.agent}
    BY <1>0, <2>2, <2>4 DEF AskedAble
  <2>6. Oldest(AskedAble) = {d.agent}
    BY <1>0, <1>2, <2>5 DEF Oldest
  <2>. QED  BY <2>5, <2>6, ChoiceMeans
<1>4. CASE Open = {}
  <2>1. Prioritised = {} /\ AskedAble = {}
    BY <1>4 DEF Prioritised, Unconsumed, Open, AskedAble, Asked
  <2>2. \A b \in Agent : Runnable(b) =>
          /\ root[b] = root[d.agent] => last[d.agent] <= last[b]
          /\ MostRecent({u \in Agent : root[u] = root[d.agent]})
               <= MostRecent({u \in Agent : root[u] = root[b]})
    BY <2>1 DEF Selected
  <2> DEFINE mine == Members(d.agent)
  <2>3. mine \in Companies /\ d.agent \in mine /\ mine \subseteq Agent
    BY <1>0 DEF Companies, Members, Topology!Members
  <2>4. mine \in AbleLines
    BY <1>0, <2>3 DEF AbleLines
  <2>5. d.agent \in Oldest(mine \cap Able)
    <3>1. ASSUME NEW b \in mine \cap Able PROVE Ranks[d.agent] <= Ranks[b]
      <4>1. b \in Agent /\ Runnable(b) /\ root[b] = root[d.agent]
        BY <1>1, <2>3 DEF Members, Topology!Members
      <4>2. last[d.agent] <= last[b]
        BY <2>2, <4>1
      <4>. QED  BY <1>0, <1>2, <4>1, <4>2, RankOrder
    <3>. QED  BY <1>0, <2>3, <3>1 DEF Oldest
  <2>6. ASSUME NEW c \in AbleLines PROVE Recency(mine) <= Recency(c)
    <3>1. PICK u \in Agent : c = Members(u)
      BY DEF AbleLines, Companies
    <3>2. PICK b \in c \cap Able : TRUE
      BY DEF AbleLines
    <3>3. b \in Agent /\ Runnable(b) /\ c = Members(b)
      BY <1>1, <3>1, <3>2 DEF Members, Topology!Members
    <3>4. PICK m \in mine : /\ Recency(mine) = Rank(m)
                            /\ last[m] = MostRecent({v \in Agent : root[v] = root[d.agent]})
      BY <1>0, RecencyIs
    <3>5. PICK n \in c : /\ Recency(c) = Rank(n)
                         /\ last[n] = MostRecent({v \in Agent : root[v] = root[b]})
      BY <3>3, RecencyIs
    <3>6. last[m] <= last[n]
      BY <2>2, <3>3, <3>4, <3>5
    <3>7. m \in Agent /\ n \in Agent
      BY <2>3, <3>3, <3>4, <3>5 DEF Members, Topology!Members
    <3>. QED  BY <3>4, <3>5, <3>6, <3>7, RankOrder
  <2>7. mine \in NextLines
    BY <2>4, <2>6 DEF NextLines
  <2>. HIDE DEF mine
  <2>. QED  BY <2>1, <2>5, <2>7, ChoiceMeans
<1>. QED  BY <1>3, <1>4

\* The requests to others than a.
Unserved(a) == {q \in Asked : q.to # a}

\* A claim, an abandoned attempt and an outcome, written out.
LEMMA TurnsMean ==
  ASSUME NEW a
  PROVE  /\ Turns!Claim(a) <=>
              /\ Deciding = {} /\ a \in Turns!Choice /\ Deciding' = {a}
              /\ Ranks' = Turns!Bump(a) /\ Waiting' = Waiting \ {a}
              /\ UNCHANGED <<Companies, turns, Asked>>
         /\ Turns!Abandon(a) <=>
              /\ Deciding = {a} /\ Deciding' = {}
              /\ UNCHANGED <<Companies, Ranks, Waiting, turns, Asked>>
         /\ Turns!Commit(a) <=>
              /\ Deciding = {a} /\ Deciding' = {} /\ UNCHANGED Ranks
              /\ \/ Turns!Decline(a)
                 \/ Turns!Behave(a)
                 \/ \E t \in Agent : \E to \in {Turns!BlockOf(a), {a, t}} :
                    \E new \in {{}, {[from |-> a, to |-> t]}} : Turns!Speak(a, t, to, new)
                 \/ Turns!Move(a)
  BY DEF Turns!Claim, Turns!Abandon, Turns!Commit,
         Companies, Ranks, Rank, UpTo, Waiting, Asked, Deciding, Open

\* The outcomes, written out.
LEMMA OutcomesMean ==
  ASSUME NEW a
  PROVE  /\ Turns!Decline(a) <=>
              Waiting' = Waiting \cup {a} /\ Asked' = Unserved(a) /\ UNCHANGED <<Companies, turns>>
         /\ Turns!Behave(a) <=>
              /\ Waiting' = Waiting \ Turns!BlockOf(a) /\ turns' = [turns EXCEPT ![a] = 0]
              /\ Asked' = Unserved(a) /\ UNCHANGED Companies
         /\ \A t, to, new : Turns!Speak(a, t, to, new) <=>
              /\ turns[a] < TurnLimit /\ t \in Turns!BlockOf(a) \ {a}
              /\ Waiting' = Waiting \ to /\ turns' = [turns EXCEPT ![a] = @ + 1]
              /\ Asked' = Unserved(a) \cup new /\ UNCHANGED Companies
         /\ Turns!Move(a) <=>
              /\ \/ Turns!Lines!Leave(a) /\ Waiting' = Waiting \ Turns!BlockOf(a)
                 \/ \E t \in Agent : /\ Turns!Lines!Join(a, t)
                                     /\ Waiting' = Waiting \ (Turns!BlockOf(a) \cup Turns!BlockOf(t))
              /\ turns' = [turns EXCEPT ![a] = 0]
              /\ Asked' = {q \in Unserved(a) : \E b \in Companies' : {q.from, q.to} \subseteq b}
  BY DEF Turns!Decline, Turns!Behave, Turns!Speak, Turns!Move, Turns!Unserved, Unserved,
         Companies, Waiting, Asked, Open

\* The Scheduler's lines are the companies, and they move like its blocks.
LEMMA LinesMean ==
  ASSUME Sound
  PROVE  /\ \A a \in Agent : Turns!BlockOf(a) = Members(a)
         /\ \A a \in Agent : Topology!Leave(a) => Turns!Lines!Leave(a)
         /\ \A a, t \in Agent : Topology!Join(a, t) => Turns!Lines!Join(a, t)
<1>1. Rows!TypeOK /\ Rows!TopologyInv /\ Rows!SessionAssumption /\ Rows!VersionAssumption
  BY SameRows, RowsAssumptions DEF Sound, Loadable
<1>2. /\ \A a, t \in Agent : Topology!Join(a, t) => Rows!Blocks!Join(a, t)
      /\ \A a \in Agent : Topology!Leave(a) => Rows!Blocks!Leave(a)
  BY <1>1, SameRows, Rows!BlocksMove
<1>3. \A a \in Agent : Turns!Lines!BlockOf(a) = Members(a)
  <2> TAKE a \in Agent
  <2>1. Turns!Lines!BlockOf(a) = CHOOSE b \in {Members(x) : x \in Agent} : a \in b
    BY DEF Turns!Lines!BlockOf
  <2>. QED  BY <2>1 DEF Members, Topology!Members
<1>4. \A a \in Agent : Turns!BlockOf(a) = Members(a)
  BY <1>3 DEF Turns!BlockOf, Turns!Lines!BlockOf
<1>. QED  BY <1>2, <1>4, SameRows
          DEF Rows!Blocks!Leave, Turns!Lines!Leave, Rows!Blocks!Join, Turns!Lines!Join,
              Rows!Blocks!BlockOf, Turns!Lines!BlockOf, Rows!Blocks!Separate,
              Turns!Lines!Separate, Members, Rows!Members, Topology!Members

\* The dispatch of an outcome is the only one, and serves whatever is open.
LEMMA OutcomeMeans ==
  ASSUME WorldInv, TurnInv, NEW d \in active, Finish(d)
  PROVE  /\ Deciding = {d.agent} /\ Deciding' = {} /\ Ranks' = Ranks
         /\ Unserved(d.agent) = {}
<1>1. active = {d}
  BY DEF TurnInv
<1>2. Deciding = {d.agent} /\ Deciding' = {}
  BY <1>1 DEF Deciding, Finish
<1>3. Ranks' = Ranks
  BY DEF Finish, Ranks, Rank, UpTo
<1>4. ASSUME NEW r \in Open PROVE requests[r].to = d.agent
  <2>1. d.request = r
    BY DEF TurnInv
  <2>2. r \in DOMAIN entries
    BY DEF Open, Pending, WorldInv, Sound, TypeOK
  <2>3. r # 0
    BY <2>2, Versions DEF WorldInv
  <2>. QED  BY <2>1, <2>3 DEF WorldInv, DispatchesServable
<1>5. Unserved(d.agent) = {}
  BY <1>4 DEF Unserved, Asked
<1>. QED  BY <1>2, <1>3, <1>5

\* A commit is the entry it appends.
LEMMA OneEntry ==
  ASSUME Sound, NEW e, NEW f, AppendEntry(e), AppendEntry(f), version' = version + 1
  PROVE  e = f
<1>1. entries'[version + 1] = e
  BY Appended
<1>2. entries'[version + 1] = f
  BY Appended
<1>. QED  BY <1>1, <1>2

\* An entry wakes those who can see it, and nobody else.
LEMMA EntryWakes ==
  ASSUME Sound, NEW e, AppendEntry(e), version' = version + 1, e.to \subseteq Agent,
         \A a \in Agent : wait'[a] = IF a \in e.to THEN wait'[a] ELSE wait[a],
         \A a \in e.to : wait'[a] \in 0..version
  PROVE  Waiting' = Waiting \ e.to
<1>1. ASSUME NEW a \in e.to PROVE Runnable(a)'
  <2>1. version + 1 \in Visible(a)' /\ version \in Nat
    BY <1>1, Remembers, Versions
  <2>2. version + 1 > wait'[a]
    BY <1>1, <2>1
  <2>. QED  BY <2>1, <2>2 DEF Runnable
<1>2. ASSUME NEW a \in Agent \ e.to PROVE Runnable(a)' <=> Runnable(a)
  <2>1. Visible(a)' = Visible(a)
    BY <1>2, Remembers
  <2>2. wait'[a] = wait[a]
    BY <1>2
  <2>. QED  BY <2>1, <2>2 DEF Runnable
<1>. QED  BY <1>1, <1>2 DEF Waiting

\* What an entry of a line does to the turns.
LEMMA TellingMeans ==
  ASSUME WorldInv, TurnInv, NEW d \in active, NEW e, NEW new, Tells(d, e, new)
  PROVE  /\ Deciding = {d.agent} /\ Deciding' = {} /\ Ranks' = Ranks /\ Unserved(d.agent) = {}
         /\ Waiting' = Waiting \ e.to /\ Companies' = Companies
         /\ Open' \subseteq new
<1>1. Sound
  BY DEF WorldInv
<1>2. /\ Finish(d) /\ AppendEntry(e) /\ UNCHANGED <<root, topo>> /\ version' = version + 1
      /\ RequestsGo(d, new) /\ wait' = [wait EXCEPT ![d.agent] = 0]
  BY DEF Tells
<1>3. e.to \subseteq Agent /\ d.agent \in e.to
  BY <1>1, ToldEntry DEF Members, Topology!Members
<1>4. \A a \in Agent : wait[a] \in 0..version /\ wait'[a] = IF a = d.agent THEN 0 ELSE wait[a]
  BY <1>1, <1>2 DEF Sound, TypeOK
<1>5. \A a \in e.to : wait'[a] \in 0..version
  BY <1>1, <1>3, <1>4, Versions
<1>6. \A a \in Agent : wait'[a] = IF a \in e.to THEN wait'[a] ELSE wait[a]
  BY <1>3, <1>4
<1>7. Waiting' = Waiting \ e.to
  BY <1>1, <1>2, <1>3, <1>5, <1>6, EntryWakes
<1>8. Companies' = Companies
  BY <1>2 DEF Companies, Members, Topology!Members
<1>. QED  BY <1>1, <1>2, <1>7, <1>8, OutcomeMeans, OpenGoes

\* wait and no_op: the character has seen everything, so it waits.
LEMMA DeclineTurn ==
  ASSUME WorldInv, TurnInv, NEW d \in active, Decline(d)
  PROVE  Turns!Commit(d.agent)
<1>1. Quiet(d) /\ Finish(d) /\ Sound /\ d.agent \in Agent
  BY DeclineIs, ActiveTyped DEF Quiet, WorldInv
<1>2. Open' = {}
  BY <1>1, OpenGoes DEF Quiet
<1>3. Asked' = {}
  BY <1>2 DEF Asked
<1>4. UNCHANGED <<Companies, turns>>
  BY <1>1 DEF Quiet, topology, Companies, Members, Topology!Members
<1>5. Waiting' = Waiting \cup {d.agent}
  <2>1. wait' = [wait EXCEPT ![d.agent] = version] /\ wait \in [Agent -> 0..version]
    BY <1>1 DEF Quiet, Sound, TypeOK
  <2>2. \A a : Visible(a)' = Visible(a)
    BY <1>1 DEF Quiet, Visible
  <2>3. version # 0 /\ \A v \in Visible(d.agent) : ~(v > version)
    BY <1>1, Versions DEF Visible
  <2>4. ~Runnable(d.agent)'
    BY <1>1, <2>1, <2>2, <2>3 DEF Runnable
  <2>5. \A a \in Agent \ {d.agent} : Runnable(a)' <=> Runnable(a)
    BY <2>1, <2>2 DEF Runnable
  <2>. QED  BY <1>1, <2>4, <2>5 DEF Waiting
<1>6. Turns!Decline(d.agent)
  BY <1>1, <1>3, <1>4, <1>5, OutcomeMeans, OutcomesMean
<1>. QED  BY <1>1, <1>6, OutcomeMeans, TurnsMean

\* A behaviour wakes the whole line.
LEMMA BehaveTurn ==
  ASSUME WorldInv, TurnInv, NEW d \in active, Behave(d)
  PROVE  Turns!Commit(d.agent)
<1> DEFINE f == LineEntry(d.agent, "behavior", "none", Members(d.agent), 0)
<1>1. Sound /\ d.agent \in Agent
  BY ActiveTyped DEF WorldInv
<1>2. PICK e : Tells(d, e, {})
  BY BehaveIs
<1>3. AppendEntry(f) /\ turns' = [turns EXCEPT ![d.agent] = 0]
  BY DEF Behave
<1>4. e = f
  <2>. HIDE DEF f
  <2>. QED  BY <1>1, <1>2, <1>3, OneEntry DEF Tells
<1>5. e.to = Members(d.agent)
  BY <1>4 DEF LineEntry
<1>6. /\ Deciding = {d.agent} /\ Deciding' = {} /\ Ranks' = Ranks /\ Unserved(d.agent) = {}
      /\ Waiting' = Waiting \ e.to /\ Companies' = Companies /\ Asked' = {}
  BY <1>2, TellingMeans DEF Asked
<1>7. Turns!BlockOf(d.agent) = Members(d.agent)
  BY <1>1, LinesMean
<1>8. Turns!Behave(d.agent)
  BY <1>3, <1>5, <1>6, <1>7, OutcomesMean
<1>. QED  BY <1>6, <1>8, TurnsMean

\* A dialogue, with the request it makes if it makes one.
LEMMA DialogueTurn ==
  ASSUME WorldInv, TurnInv, NEW d \in active, NEW t, NEW channel \in Channel, NEW reply,
         Dialogue(d, t, channel, reply), NEW e, NEW new, Tells(d, e, new),
         Asked' \in {{}, {[from |-> d.agent, to |-> t]}}
  PROVE  Turns!Commit(d.agent)
<1> DEFINE f == LineEntry(d.agent, "dialogue", channel, Audience(d.agent, t, channel), reply)
<1>1. Sound /\ d.agent \in Agent
  BY ActiveTyped DEF WorldInv
<1>2. /\ AppendEntry(f) /\ turns' = [turns EXCEPT ![d.agent] = @ + 1]
      /\ turns[d.agent] < TurnLimit /\ t \in Members(d.agent) \ {d.agent}
  BY DEF Dialogue
<1>3. e = f
  <2>. HIDE DEF f
  <2>. QED  BY <1>1, <1>2, OneEntry DEF Tells
<1>4. e.to \in {Members(d.agent), {d.agent, t}}
  BY <1>3 DEF LineEntry, Audience
<1>5. /\ Deciding = {d.agent} /\ Deciding' = {} /\ Ranks' = Ranks /\ Unserved(d.agent) = {}
      /\ Waiting' = Waiting \ e.to /\ Companies' = Companies
  BY TellingMeans
<1>6. Turns!BlockOf(d.agent) = Members(d.agent) /\ t \in Agent
  BY <1>1, <1>2, LinesMean DEF Members, Topology!Members
<1>7. PICK asked \in {{}, {[from |-> d.agent, to |-> t]}} : Asked' = asked
  OBVIOUS
<1>. HIDE DEF f
<1>. PICK to : to = e.to
  OBVIOUS
<1>8. /\ turns[d.agent] < TurnLimit /\ t \in Turns!BlockOf(d.agent) \ {d.agent}
      /\ Waiting' = Waiting \ to /\ turns' = [turns EXCEPT ![d.agent] = @ + 1]
      /\ Asked' = Unserved(d.agent) \cup asked /\ UNCHANGED Companies
  BY <1>2, <1>5, <1>6, <1>7
<1>9. Turns!Speak(d.agent, t, to, asked)
  BY <1>8, OutcomesMean
<1>10. to \in {Turns!BlockOf(d.agent), {d.agent, t}}
  BY <1>4, <1>6
<1>11. \E u \in Agent : \E heard \in {Turns!BlockOf(d.agent), {d.agent, u}} :
       \E added \in {{}, {[from |-> d.agent, to |-> u]}} : Turns!Speak(d.agent, u, heard, added)
  BY <1>6, <1>9, <1>10
<1>. QED  BY <1>5, <1>11, TurnsMean

\* An utterance asks nothing.
LEMMA UtterTurn ==
  ASSUME WorldInv, TurnInv, NEW d \in active, NEW t, NEW channel \in Channel,
         Utter(d, t, channel)
  PROVE  Turns!Commit(d.agent)
<1>1. PICK e : Tells(d, e, {})
  BY UtterIs
<1>2. Asked' = {}
  BY <1>1, TellingMeans DEF Asked
<1>3. Dialogue(d, t, channel, 0)
  BY DEF Utter
<1>. QED  BY <1>1, <1>2, <1>3, DialogueTurn

\* An utterance that asks leaves one open request.
LEMMA AskTurn ==
  ASSUME WorldInv, TurnInv, NEW d \in active, NEW t, NEW channel \in Channel,
         Ask(d, t, channel)
  PROVE  Turns!Commit(d.agent)
<1>1. PICK e : Tells(d, e, {version + 1})
  BY AskIs
<1>2. Open' \subseteq {version + 1}
  BY <1>1, TellingMeans
<1>3. requests'[version + 1] = [from |-> d.agent, to |-> t, status |-> "pending", chance |-> 0]
  BY AskRow
<1>4. \A r \in Open' : /\ r = version + 1 /\ requests'[r] = requests'[version + 1]
                       /\ requests'[r].from = d.agent /\ requests'[r].to = t
  BY <1>2, <1>3
<1>5. Asked' = {[from |-> requests'[r].from, to |-> requests'[r].to] : r \in Open'}
  BY DEF Asked
<1>6. Asked' \in {{}, {[from |-> d.agent, to |-> t]}}
  <2>1. \A q \in Asked' : q = [from |-> d.agent, to |-> t]
    BY <1>4, <1>5
  <2>. QED  BY <2>1
<1>7. Dialogue(d, t, channel, 0)
  BY DEF Ask
<1>. QED  BY <1>1, <1>6, <1>7, DialogueTurn

\* A response leaves none.
LEMMA RespondTurn ==
  ASSUME WorldInv, TurnInv, NEW d \in active, NEW r, Respond(d, r)
  PROVE  Turns!Commit(d.agent)
<1>1. PICK e : Tells(d, e, {})
  BY RespondIs
<1>2. Asked' = {}
  BY <1>1, TellingMeans DEF Asked
<1>3. Dialogue(d, requests[r].from, entries[r].channel, r) /\ entries[r].channel \in Channel
  BY DEF Respond, Pending, WorldInv, AsksAreSpoken
<1>. QED  BY <1>1, <1>2, <1>3, DialogueTurn

\* A transition wakes everybody that it affects, and leaves no open request.
LEMMA MoveTurn ==
  ASSUME WorldInv, TurnInv, NEW d \in active, NEW e, NEW affected, Moved(d, e, affected)
  PROVE  Turns!Commit(d.agent)
<1>1. Sound /\ Loadable /\ d.agent \in Agent
  BY ActiveTyped DEF WorldInv, Sound
<1>2. /\ Finish(d) /\ Moves(d.agent, affected) /\ AppendEntry(e) /\ e.to = affected
      /\ wait' = [s \in Agent |-> IF s \in affected THEN 0 ELSE wait[s]]
      /\ turns' = [turns EXCEPT ![d.agent] = 0] /\ RequestsGo(d, {})
  BY DEF Moved
<1>3. version' = version + 1 /\ affected \subseteq Agent
  BY <1>1, <1>2, MoveRows
<1>4. Waiting' = Waiting \ affected
  <2>1. \A a \in affected : wait'[a] \in 0..version
    BY <1>1, <1>2, <1>3, Versions
  <2>2. \A a \in Agent : wait'[a] = IF a \in e.to THEN wait'[a] ELSE wait[a]
    BY <1>2
  <2>. QED  BY <1>1, <1>2, <1>3, <2>1, <2>2, EntryWakes
<1>5. Asked' = {}
  <2>1. Open' = {}
    BY <1>1, <1>2, OpenGoes
  <2>. QED  BY <2>1 DEF Asked
<1>6. /\ Deciding = {d.agent} /\ Deciding' = {} /\ Ranks' = Ranks /\ Unserved(d.agent) = {}
  BY <1>2, OutcomeMeans
<1>7. \/ Turns!Lines!Leave(d.agent) /\ affected = Turns!BlockOf(d.agent)
      \/ \E t \in Agent : /\ Turns!Lines!Join(d.agent, t)
                          /\ affected = Turns!BlockOf(d.agent) \cup Turns!BlockOf(t)
  BY <1>1, <1>2, LinesMean DEF Moves, Members, Topology!LeaveAffected, Topology!JoinAffected
<1>8. Turns!Move(d.agent)
  <2>1. Asked' = {q \in Unserved(d.agent) : \E b \in Companies' : {q.from, q.to} \subseteq b}
    BY <1>5, <1>6
  <2>. QED  BY <1>2, <1>4, <1>7, <2>1, OutcomesMean
<1>. QED  BY <1>6, <1>8, TurnsMean

\* Every step of the rows is a turn of the Scheduler, or leaves it alone.
LEMMA TurnStep == WorldInv /\ TurnInv /\ [Next]_vars => [Turns!Next]_(Turns!vars)
<1> SUFFICES ASSUME WorldInv, TurnInv, [Next]_vars PROVE [Turns!Next]_(Turns!vars)
  OBVIOUS
<1>0. Sound
  BY DEF WorldInv
<1>1. ASSUME NEW d \in active, Commit(d) PROVE Turns!Next
  <2>0. d.agent \in Agent
    BY <1>0, ActiveTyped
  <2>1. CASE Decline(d)
    BY <2>1, DeclineTurn, <2>0 DEF Turns!Next
  <2>2. CASE Behave(d)
    BY <2>2, BehaveTurn, <2>0 DEF Turns!Next
  <2>3. CASE \E t \in Agent, channel \in Channel : Utter(d, t, channel) \/ Ask(d, t, channel)
    BY <2>3, UtterTurn, AskTurn, <2>0 DEF Turns!Next
  <2>4. CASE \E r \in Pending : Respond(d, r)
    BY <2>4, RespondTurn, <2>0 DEF Turns!Next
  <2>5. CASE Leave(d) \/ \E t \in Agent : Join(d, t)
    <3>1. \E e : \E affected : Moved(d, e, affected)
      BY <2>5, LeaveIs, JoinIs
    <3>. QED  BY <3>1, MoveTurn, <2>0 DEF Turns!Next
  <2>. QED  BY <1>1, <2>1, <2>2, <2>3, <2>4, <2>5 DEF Commit
<1>2. CASE Claim
  <2>1. /\ Selected(Select) /\ count' = count + 1 /\ active' = {Select}
        /\ last' = [last EXCEPT ![Select.agent] = count + 1]
        /\ wait' = [wait EXCEPT ![Select.agent] = 0]
    BY <1>0, <1>2, ClaimIs
  <2>2. /\ active = {} /\ UNCHANGED <<root, topo, version, turns, entries, requests>>
    BY <1>2 DEF Claim, topology
  <2>3. PICK d : d = Select
    OBVIOUS
  <2>4. Selected(d) /\ active' = {d} /\ d.agent \in Agent /\ Runnable(d.agent)
    BY <2>1, <2>3 DEF Selected
  <2>5. d.agent \in Turns!Choice /\ Ranks' = Turns!Bump(d.agent)
    BY <1>0, <2>1, <2>3, <2>4, SelectIsChosen, RanksBump
  <2>6. Deciding = {} /\ Deciding' = {d.agent}
    BY <2>2, <2>4 DEF Deciding
  <2>7. UNCHANGED <<Companies, turns, Asked>>
    BY <2>2 DEF Companies, Members, Topology!Members, Asked, Open, Pending
  <2>8. Waiting' = Waiting \ {d.agent}
    <3>1. \A a : Visible(a)' = Visible(a)
      BY <2>2 DEF Visible
    <3>2. wait' = [wait EXCEPT ![d.agent] = 0] /\ wait \in [Agent -> 0..version]
      BY <1>0, <2>1, <2>3 DEF Sound, TypeOK
    <3>3. Runnable(d.agent)' /\ \A a \in Agent \ {d.agent} : Runnable(a)' <=> Runnable(a)
      BY <2>4, <3>1, <3>2 DEF Runnable
    <3>. QED  BY <2>4, <3>3 DEF Waiting
  <2>9. Turns!Claim(d.agent)
    BY <2>5, <2>6, <2>7, <2>8, TurnsMean
  <2>. QED  BY <2>4, <2>9 DEF Turns!Next
<1>3. CASE /\ UNCHANGED <<root, topo, version, last, wait, turns, entries, requests>>
           /\ active' = {}
  <2>1. UNCHANGED <<Companies, Ranks, Waiting, turns, Asked>> /\ Deciding' = {}
    BY <1>3 DEF Companies, Members, Topology!Members, Ranks, Rank, UpTo, Waiting, Runnable,
                Visible, Asked, Open, Pending, Deciding
  <2>2. CASE active = {}
    <3>1. Deciding = {}
      BY <2>2 DEF Deciding
    <3>. QED  BY <2>1, <3>1, SchedulerVars
  <2>3. CASE active # {}
    <3>1. PICK d \in active : TRUE
      BY <2>3
    <3>2. d.agent \in Agent /\ Deciding = {d.agent}
      BY <1>0, <3>1, ActiveTyped DEF TurnInv, Deciding
    <3>3. Turns!Abandon(d.agent)
      BY <2>1, <3>2, TurnsMean
    <3>. QED  BY <3>2, <3>3 DEF Turns!Next
  <2>. QED  BY <2>2, <2>3
<1>4. CASE \E n \in Quota : Resume(n)
  BY <1>3, <1>4 DEF Resume, Unscheduled, topology
<1>5. CASE Pause
  BY <1>3, <1>5 DEF Pause, Unscheduled, topology
<1>6. CASE \E d \in active : Fail(d)
  BY <1>3, <1>6 DEF Fail, Unscheduled, topology
<1>7. CASE UNCHANGED vars
  <2>1. UNCHANGED <<Companies, Ranks, Waiting, turns, Asked, Deciding>>
    BY <1>7 DEF vars, topology, Companies, Members, Topology!Members, Ranks, Rank, UpTo,
                Waiting, Runnable, Visible, Asked, Open, Pending, Deciding
  <2>. QED  BY <2>1, SchedulerVars
<1>. QED  BY <1>1, <1>2, <1>4, <1>5, <1>6, <1>7 DEF Next

\* Nobody has been dispatched, waits or is asked when a World begins.
LEMMA TurnInit == Init => Turns!Init
<1> SUFFICES ASSUME Init PROVE Turns!Init
  OBVIOUS
<1>1. /\ last = [a \in Agent |-> 0] /\ wait = [a \in Agent |-> 0] /\ turns = [a \in Agent |-> 0]
      /\ active = {} /\ requests = <<>>
  BY DEF Init
<1>2. Ranks = [a \in Agent |-> 0]
  <2>1. \A a \in Agent : UpTo(a) = {}
    BY <1>1 DEF UpTo
  <2>2. \A a \in Agent : Rank(a) = 0
    BY <2>1, FS_EmptySet DEF Rank
  <2>. QED  BY <2>2 DEF Ranks
<1>3. Waiting = {} /\ Asked = {} /\ Deciding = {}
  <2>1. Open = {}
    BY <1>1 DEF Open, Pending
  <2>. QED  BY <1>1, <2>1 DEF Waiting, Runnable, Asked, Deciding
<1>4. /\ Companies \in SUBSET ((SUBSET Agent) \ {{}})
      /\ \A s \in Agent : \E b \in Companies : s \in b
      /\ \A b, c \in Companies : b # c => b \cap c = {}
  <2>1. \A s \in Agent : Members(s) \subseteq Agent /\ s \in Members(s)
    BY DEF Members, Topology!Members
  <2>2. \A s, u \in Agent : Members(s) # Members(u) => Members(s) \cap Members(u) = {}
    BY DEF Members, Topology!Members
  <2>. QED  BY <2>1, <2>2 DEF Companies
<1>5. Turns!Init <=> /\ Companies \in SUBSET ((SUBSET Agent) \ {{}})
                     /\ \A s \in Agent : \E b \in Companies : s \in b
                     /\ \A b, c \in Companies : b # c => b \cap c = {}
                     /\ Ranks = [a \in Agent |-> 0] /\ Waiting = {}
                     /\ turns = [a \in Agent |-> 0] /\ Asked = {} /\ Deciding = {}
  BY DEF Turns!Init, Turns!Lines!Init, Companies, Ranks, Rank, UpTo, Waiting, Asked, Deciding, Open
<1>. QED  BY <1>1, <1>2, <1>3, <1>4, <1>5

\* The runner works on one thing at a time, and never on two requests.
THEOREM TurnsAlways == Spec => []TurnInv
  BY InitTurns, NextTurns, WorldAlways, PTL DEF Spec

\* The rows implement both abstractions: the topology moves as EventSession
\* says and the turns are taken as the Scheduler says, in the same steps.
THEOREM PartsImplemented == Spec => ImplementsParts
<1>1. Init => Topology!Init
  BY DEF Init
<1>2. Spec => Topology!Spec
  BY <1>1, TopologyStep, WorldAlways, PTL DEF Spec, Topology!Spec
<1>3. Spec => Turns!Spec
  BY TurnInit, TurnStep, WorldAlways, TurnsAlways, PTL DEF Spec, Turns!Spec
<1>. QED  BY <1>2, <1>3 DEF ImplementsParts
=============================================================================
