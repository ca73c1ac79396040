---------------------------- MODULE EventSession ----------------------------
(***************************************************************************)
(* The EventSession topology: every character owns one stable session node *)
(* and the nodes are partitioned into story lines.  A partition is kept    *)
(* twice by common/union_part.py, as a root per item and as the members of *)
(* a root, and event/session.py plans a join or a leave with its merge and *)
(* split; world/storage.py writes the plan to the node rows.               *)
(*                                                                         *)
(* Session identifiers are integers: the code only compares them for       *)
(* equality and takes the least one of a set.                              *)
(***************************************************************************)
EXTENDS Integers

CONSTANTS
  Session,      \* the stable session nodes, one per character
  LocationOf,   \* LocationOf[s]: where the character of s is; nobody moves
  MaxVersion    \* bound of the model: no step past this World version

ASSUME SessionAssumption ==
  /\ Session \subseteq Int
  /\ \A S \in SUBSET Session : S # {} => \E x \in S : \A y \in S : x <= y

ASSUME VersionAssumption == MaxVersion \in Nat

VARIABLES
  root,     \* root[s]: event_sessions.root_session_id of node s
  topo,     \* topo[s]: event_sessions.topology_version of node s
  version   \* worlds.current_version

vars == <<root, topo, version>>

-----------------------------------------------------------------------------
(* UnionPart: a partition is its two indices, rootOf and membersOf.        *)

Least(S) == CHOOSE x \in S : \A y \in S : x <= y

\* What merge checks before it changes either index: current roots, all
\* different from each other and from keep.
CanMerge(part, keep, merged) ==
  /\ part.rootOf[keep] = keep
  /\ keep \notin merged
  /\ \A r \in merged : part.rootOf[r] = r

Merge(part, keep, merged) ==
  LET combined == UNION {part.membersOf[r] : r \in merged \cup {keep}} IN
  [rootOf    |-> [s \in DOMAIN part.rootOf |->
                    IF s \in combined THEN keep ELSE part.rootOf[s]],
   membersOf |-> [r \in DOMAIN part.membersOf \ merged |->
                    IF r = keep THEN combined ELSE part.membersOf[r]]]

\* What split checks: the parts are rooted in themselves, disjoint, and
\* cover exactly the members of the partition they replace.
CanSplit(part, r, parts) ==
  /\ part.rootOf[r] = r
  /\ \A p \in DOMAIN parts : p \in parts[p]
  /\ \A p, q \in DOMAIN parts : p # q => parts[p] \cap parts[q] = {}
  /\ UNION {parts[p] : p \in DOMAIN parts} = part.membersOf[r]

Split(part, r, parts) ==
  [rootOf    |-> [s \in DOMAIN part.rootOf |->
                    IF s \in part.membersOf[r]
                      THEN CHOOSE p \in DOMAIN parts : s \in parts[p]
                      ELSE part.rootOf[s]],
   membersOf |-> [p \in (DOMAIN part.membersOf \ {r}) \cup DOMAIN parts |->
                    IF p \in DOMAIN parts THEN parts[p] ELSE part.membersOf[p]]]

\* _partition: both indices rebuilt from the node rows.
PartitionOf(rt) ==
  [rootOf    |-> rt,
   membersOf |-> [r \in {rt[s] : s \in DOMAIN rt} |-> {s \in DOMAIN rt : rt[s] = r}]]

-----------------------------------------------------------------------------
(* plan_join and plan_leave.                                               *)

Members(s) == {u \in Session : root[u] = root[s]}

\* Faulty: the others get a fresh root that is no node.
FreshRemainingRoot(s) == IF s = root[s] THEN -s ELSE root[s]

\* The root the others keep when s moves out: theirs, unless s was it.
RemainingRoot(s) ==
  IF s = root[s] THEN Least(Members(s) \ {s}) ELSE root[s]

\* Faulty: the leaver is also left among the members it leaves.
OverlappingSplitOff(s) ==
  [p \in {RemainingRoot(s), s} |-> IF p = s THEN {s} ELSE Members(s)]

SplitOff(s) ==
  [p \in {RemainingRoot(s), s} |-> IF p = s THEN {s} ELSE Members(s) \ {s}]

CanJoin(s, t) == s # t /\ root[s] # root[t]

\* Faulty: a transfer takes the whole part of the actor along.
WholesaleJoinPartition(s, t) == Merge(PartitionOf(root), root[t], {root[s]})

JoinPartition(s, t) ==
  LET part == PartitionOf(root) IN
  IF Members(s) = {s}
    THEN Merge(part, root[t], {root[s]})
    ELSE Merge(Split(part, root[s], SplitOff(s)), root[t], {s})

CanLeave(s) == Members(s) # {s}

LeavePartition(s) == Split(PartitionOf(root), root[s], SplitOff(s))

\* The members of the before parts, which are those of the after parts.
\* Faulty: the part that the actor leaves behind is not written.
ActorOnlyAffected(s, t) == {s} \cup Members(t)

JoinAffected(s, t) == Members(s) \cup Members(t)
LeaveAffected(s)   == Members(s)

\* Faulty: the new lines keep their old topology version.
ApplyWithoutNewVersion(affected, rootOf) ==
  /\ root' = [s \in Session |-> IF s \in affected THEN rootOf[s] ELSE root[s]]
  /\ version' = version + 1
  /\ UNCHANGED topo

\* apply_session_transition: every affected node gets its new root and the
\* version of this commit; the other rows are not written.
ApplyTransition(affected, rootOf) ==
  /\ root' = [s \in Session |-> IF s \in affected THEN rootOf[s] ELSE root[s]]
  /\ topo' = [s \in Session |-> IF s \in affected THEN version + 1 ELSE topo[s]]
  /\ version' = version + 1

-----------------------------------------------------------------------------
(* The topology as a state machine: what committed decisions do to it.     *)

\* bootstrap: any partition of the nodes that the scenario lists, each part
\* rooted in one of its members, at version 1.
Init ==
  /\ root \in {r \in [Session -> Session] : \A s \in Session : r[r[s]] = r[s]}
  /\ topo = [s \in Session |-> 1]
  /\ version = 1

\* Faulty: the view offers a join with anybody.
JoinAnywhere(s, t) ==
  /\ version < MaxVersion
  /\ CanJoin(s, t)
  /\ ApplyTransition(JoinAffected(s, t), JoinPartition(s, t).rootOf)

\* A committed join: the view offers it for a character at the same place.
Join(s, t) ==
  /\ version < MaxVersion
  /\ CanJoin(s, t)
  /\ LocationOf[s] = LocationOf[t]
  /\ ApplyTransition(JoinAffected(s, t), JoinPartition(s, t).rootOf)

Leave(s) ==
  /\ version < MaxVersion
  /\ CanLeave(s)
  /\ ApplyTransition(LeaveAffected(s), LeavePartition(s).rootOf)

\* Any other committed entry advances the World and leaves the nodes alone.
OtherEntry ==
  /\ version < MaxVersion
  /\ version' = version + 1
  /\ UNCHANGED <<root, topo>>

Next ==
  \/ \E s, t \in Session : Join(s, t)
  \/ \E s \in Session : Leave(s)
  \/ OtherEntry

Spec == Init /\ [][Next]_vars

-----------------------------------------------------------------------------
(* Properties.                                                             *)

TypeOK ==
  /\ root \in [Session -> Session]
  /\ topo \in [Session -> Nat]
  /\ version \in Nat

\* Every committed topology can be loaded again: PublicWorldState rejects a
\* root that does not point to itself, a partition whose nodes disagree on
\* the topology version, and a topology newer than the World.
TopologyInv ==
  /\ \A s \in Session : root[root[s]] = root[s]
  /\ \A s, t \in Session : root[s] = root[t] => topo[s] = topo[t]
  /\ \A s \in Session : topo[s] <= version

\* merge and split accept every plan the planners build from a committed
\* topology, and leave their two indices in agreement.
PlansAccepted ==
  /\ \A s, t \in Session : CanJoin(s, t) =>
       /\ IF Members(s) = {s}
            THEN CanMerge(PartitionOf(root), root[t], {root[s]})
            ELSE /\ CanSplit(PartitionOf(root), root[s], SplitOff(s))
                 /\ CanMerge(Split(PartitionOf(root), root[s], SplitOff(s)), root[t], {s})
       /\ JoinPartition(s, t) = PartitionOf(JoinPartition(s, t).rootOf)
  /\ \A s \in Session : CanLeave(s) =>
       /\ CanSplit(PartitionOf(root), root[s], SplitOff(s))
       /\ LeavePartition(s) = PartitionOf(LeavePartition(s).rootOf)

\* A node's story line, the pair of its root and topology version, changes
\* when its company changes and only then, and then it gets the version of
\* the commit: entries of different companies never share a line key.
LineFollowsCompany ==
  [][\A s \in Session :
       IF Members(s)' = Members(s)
         THEN root'[s] = root[s] /\ topo'[s] = topo[s]
         ELSE topo'[s] = version']_vars

\* Two characters at different places are never brought into one story line:
\* only the view checks the place, and only when the join is offered.
Colocated == \A s, t \in Session : root[s] = root[t] => LocationOf[s] = LocationOf[t]
StaysColocated == [][Colocated => Colocated']_vars

\* The node rows implement the abstract blocks: each step moves one session
\* between blocks, or changes no block.
Blocks == INSTANCE SessionBlocks WITH blocks <- {Members(s) : s \in Session}
ImplementsBlocks == Blocks!Spec
=============================================================================
