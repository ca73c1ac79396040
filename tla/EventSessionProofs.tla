------------------------- MODULE EventSessionProofs -------------------------
(***************************************************************************)
(* Proofs about EventSession for every set of sessions, every placement    *)
(* and every version bound.  The two lemmas that say what plan_join and    *)
(* plan_leave compute carry everything else.                               *)
(***************************************************************************)
EXTENDS EventSession, TLAPS

\* The root that stays behind is one of the members that stay behind.
LEMMA RemainingRootStays ==
  ASSUME TypeOK, TopologyInv, NEW s \in Session, CanLeave(s)
  PROVE  RemainingRoot(s) \in Members(s) \ {s}
<1>1. s \in Members(s) /\ root[s] \in Members(s)
  BY DEF TypeOK, TopologyInv, Members
<1>2. CASE s = root[s]
  <2>1. Members(s) \ {s} # {}
    BY <1>1 DEF CanLeave
  <2>2. \E x \in Members(s) \ {s} : \A y \in Members(s) \ {s} : x <= y
    BY <2>1, SessionAssumption DEF Members
  <2>3. Least(Members(s) \ {s}) \in Members(s) \ {s}
    BY <2>2 DEF Least
  <2>. QED  BY <1>2, <2>3 DEF RemainingRoot
<1>3. CASE s # root[s]
  BY <1>1, <1>3 DEF RemainingRoot
<1>. QED  BY <1>2, <1>3

\* plan_leave: the leaver is its own root, the others share the root that
\* stays, and nobody else is touched.
LEMMA LeaveRoots ==
  ASSUME TypeOK, TopologyInv, NEW s \in Session, CanLeave(s)
  PROVE  LeavePartition(s).rootOf =
           [u \in Session |-> IF u = s THEN s
                              ELSE IF u \in Members(s) THEN RemainingRoot(s)
                              ELSE root[u]]
<1> DEFINE parts == SplitOff(s)
<1>1. RemainingRoot(s) \in Members(s) \ {s}
  BY RemainingRootStays
<1>2. /\ DOMAIN parts = {RemainingRoot(s), s}
      /\ parts[s] = {s}
      /\ parts[RemainingRoot(s)] = Members(s) \ {s}
  BY <1>1 DEF SplitOff
<1>3. DOMAIN root = Session /\ s \in Members(s)
  BY DEF TypeOK, Members
<1>4. {u \in Session : root[u] = root[s]} = Members(s)
  BY DEF Members
<1>5. PartitionOf(root).rootOf = root /\ PartitionOf(root).membersOf[root[s]] = Members(s)
  BY <1>3, <1>4 DEF PartitionOf
<1>6. ASSUME NEW u \in Members(s)
      PROVE  (CHOOSE p \in DOMAIN parts : u \in parts[p])
               = IF u = s THEN s ELSE RemainingRoot(s)
  <2>1. CASE u = s
    <3>1. \A p \in DOMAIN parts : s \in parts[p] <=> p = s
      BY <1>1, <1>2
    <3>. QED  BY <2>1, <3>1, <1>2
  <2>2. CASE u # s
    <3>1. \A p \in DOMAIN parts : u \in parts[p] <=> p = RemainingRoot(s)
      BY <1>1, <1>2, <1>6, <2>2
    <3>. QED  BY <2>2, <3>1, <1>2
  <2>. QED  BY <2>1, <2>2
<1>7. LeavePartition(s).rootOf =
        [u \in Session |-> IF u \in Members(s)
                             THEN CHOOSE p \in DOMAIN parts : u \in parts[p]
                             ELSE root[u]]
  BY <1>3, <1>5 DEF LeavePartition, Split
<1> DEFINE first(u) == CHOOSE p \in DOMAIN parts : u \in parts[p]
<1>8. \A u \in Session : (IF u \in Members(s) THEN first(u) ELSE root[u])
                          = IF u = s THEN s
                            ELSE IF u \in Members(s) THEN RemainingRoot(s) ELSE root[u]
  <2>1. \A u \in Members(s) : first(u) = IF u = s THEN s ELSE RemainingRoot(s)
    BY <1>6
  <2>. HIDE DEF first
  <2>. QED  BY <1>3, <2>1
<1>9. LeavePartition(s).rootOf = [u \in Session |-> IF u \in Members(s) THEN first(u) ELSE root[u]]
  BY <1>7
<1>. HIDE DEF parts, first
<1>. QED  BY <1>8, <1>9

\* plan_join: the actor and the target's part share the target's root, the
\* part the actor leaves shares the root that stays, nobody else is touched.
LEMMA JoinRoots ==
  ASSUME TypeOK, TopologyInv, NEW s \in Session, NEW t \in Session, CanJoin(s, t)
  PROVE  JoinPartition(s, t).rootOf =
           [u \in Session |-> IF u = s \/ u \in Members(t) THEN root[t]
                              ELSE IF u \in Members(s) THEN RemainingRoot(s)
                              ELSE root[u]]
<1> DEFINE P == PartitionOf(root)
<1>1. /\ DOMAIN root = Session
      /\ s \in Members(s) /\ root[s] \in Members(s)
      /\ t \in Members(t) /\ root[t] \in Members(t)
      /\ Members(s) \cap Members(t) = {}
  BY DEF TypeOK, TopologyInv, Members, CanJoin
<1>2. /\ P.rootOf = root
      /\ DOMAIN P.membersOf = {root[u] : u \in Session}
      /\ P.membersOf[root[s]] = Members(s)
      /\ P.membersOf[root[t]] = Members(t)
  BY <1>1 DEF PartitionOf, Members
<1>. HIDE DEF P
<1>3. CASE Members(s) = {s}
  <2>1. JoinPartition(s, t) = Merge(P, root[t], {root[s]})
    BY <1>3 DEF JoinPartition, P
  <2>2. UNION {P.membersOf[r] : r \in {root[s]} \cup {root[t]}} = {s} \cup Members(t)
    BY <1>2, <1>3
  <2>. QED  BY <1>1, <1>2, <1>3, <2>1, <2>2 DEF Merge, Members
<1>4. CASE Members(s) # {s}
  <2> DEFINE Q == Split(P, root[s], SplitOff(s))
  <2>1. CanLeave(s)
    BY <1>4 DEF CanLeave
  <2>2. RemainingRoot(s) \in Members(s) \ {s}
    BY <2>1, RemainingRootStays
  <2>3. /\ DOMAIN SplitOff(s) = {RemainingRoot(s), s}
        /\ SplitOff(s)[s] = {s}
    BY <2>2 DEF SplitOff
  <2>4. /\ Q.rootOf = LeavePartition(s).rootOf
        /\ Q.membersOf[s] = {s}
        /\ Q.membersOf[root[t]] = Members(t)
    <3>1. Q.rootOf = LeavePartition(s).rootOf
      BY DEF LeavePartition, P
    <3>2. root[t] \in DOMAIN P.membersOf \ {root[s]}
      BY <1>2 DEF CanJoin
    <3>3. root[t] \notin DOMAIN SplitOff(s) /\ s \in DOMAIN SplitOff(s)
      BY <1>1, <2>2, <2>3
    <3>. QED  BY <1>2, <2>3, <3>1, <3>2, <3>3 DEF Split
  <2>5. Q.rootOf =
          [u \in Session |-> IF u = s THEN s
                             ELSE IF u \in Members(s) THEN RemainingRoot(s)
                             ELSE root[u]]
    BY <2>1, <2>4, LeaveRoots
  <2>6. JoinPartition(s, t) = Merge(Q, root[t], {s})
    BY <1>4 DEF JoinPartition, P
  <2>. HIDE DEF Q
  <2>7. UNION {Q.membersOf[r] : r \in {s} \cup {root[t]}} = {s} \cup Members(t)
    BY <2>4
  <2>. QED  BY <1>1, <2>5, <2>6, <2>7 DEF Merge, Members
<1>. QED  BY <1>3, <1>4

-----------------------------------------------------------------------------
(* The steps, with the partitions they write spelled out.                  *)

\* A committed join writes the actor's and the target's parts and no other.
LEMMA JoinStep ==
  ASSUME TypeOK, TopologyInv, NEW s \in Session, NEW t \in Session, Join(s, t)
  PROVE  /\ CanJoin(s, t)
         /\ LocationOf[s] = LocationOf[t]
         /\ Members(s) # {s} => RemainingRoot(s) \in Members(s) \ {s}
         /\ root' = [u \in Session |-> IF u = s \/ u \in Members(t) THEN root[t]
                                       ELSE IF u \in Members(s) THEN RemainingRoot(s)
                                       ELSE root[u]]
         /\ topo' = [u \in Session |-> IF u \in Members(s) \cup Members(t)
                                         THEN version + 1 ELSE topo[u]]
         /\ version' = version + 1
<1>1. /\ CanJoin(s, t)
      /\ LocationOf[s] = LocationOf[t]
      /\ root' = [u \in Session |-> IF u \in JoinAffected(s, t)
                                      THEN JoinPartition(s, t).rootOf[u] ELSE root[u]]
      /\ topo' = [u \in Session |-> IF u \in JoinAffected(s, t)
                                      THEN version + 1 ELSE topo[u]]
      /\ version' = version + 1
  BY DEF Join, ApplyTransition
<1>2. Members(s) # {s} => RemainingRoot(s) \in Members(s) \ {s}
  BY RemainingRootStays DEF CanLeave
<1>3. root' = [u \in Session |-> IF u = s \/ u \in Members(t) THEN root[t]
                                 ELSE IF u \in Members(s) THEN RemainingRoot(s)
                                 ELSE root[u]]
  BY <1>1, JoinRoots DEF JoinAffected, Members
<1>. QED  BY <1>1, <1>2, <1>3 DEF JoinAffected

\* A committed leave writes the actor's part and no other.
LEMMA LeaveStep ==
  ASSUME TypeOK, TopologyInv, NEW s \in Session, Leave(s)
  PROVE  /\ RemainingRoot(s) \in Members(s) \ {s}
         /\ root' = [u \in Session |-> IF u = s THEN s
                                       ELSE IF u \in Members(s) THEN RemainingRoot(s)
                                       ELSE root[u]]
         /\ topo' = [u \in Session |-> IF u \in Members(s) THEN version + 1 ELSE topo[u]]
         /\ version' = version + 1
<1>1. /\ CanLeave(s)
      /\ root' = [u \in Session |-> IF u \in LeaveAffected(s)
                                      THEN LeavePartition(s).rootOf[u] ELSE root[u]]
      /\ topo' = [u \in Session |-> IF u \in LeaveAffected(s) THEN version + 1 ELSE topo[u]]
      /\ version' = version + 1
  BY DEF Leave, ApplyTransition
<1>2. RemainingRoot(s) \in Members(s) \ {s}
  BY <1>1, RemainingRootStays
<1>3. root' = [u \in Session |-> IF u = s THEN s
                                 ELSE IF u \in Members(s) THEN RemainingRoot(s)
                                 ELSE root[u]]
  BY <1>1, LeaveRoots DEF LeaveAffected, Members
<1>. QED  BY <1>1, <1>2, <1>3 DEF LeaveAffected

-----------------------------------------------------------------------------

\* A step keeps the types of the rows and the three facts.
LEMMA RowsStep == TypeOK /\ TopologyInv /\ [Next]_vars => TypeOK' /\ TopologyInv'
<1> USE VersionAssumption
<1> SUFFICES ASSUME TypeOK, TopologyInv, [Next]_vars
             PROVE  TypeOK' /\ TopologyInv'
  OBVIOUS
<1>1. ASSUME NEW s \in Session, NEW t \in Session, Join(s, t)
      PROVE  TypeOK' /\ TopologyInv'
  <2>0. /\ CanJoin(s, t)
        /\ Members(s) # {s} => RemainingRoot(s) \in Members(s) \ {s}
        /\ root' = [u \in Session |-> IF u = s \/ u \in Members(t) THEN root[t]
                                      ELSE IF u \in Members(s) THEN RemainingRoot(s)
                                      ELSE root[u]]
        /\ topo' = [u \in Session |-> IF u \in Members(s) \cup Members(t)
                                        THEN version + 1 ELSE topo[u]]
        /\ version' = version + 1
    BY <1>1, JoinStep
  <2>1. TypeOK'
    <3>1. \A u \in Members(s) : u # s => RemainingRoot(s) \in Session
      BY <2>0 DEF Members
    <3>. QED  BY <2>0, <3>1 DEF TypeOK
  <2>2. \A u \in Session : root'[root'[u]] = root'[u]
    <3>1. root[t] \in Members(t) /\ Members(s) \cap Members(t) = {}
      BY <2>0 DEF TypeOK, TopologyInv, Members, CanJoin
    <3>2. root'[root[t]] = root[t]
      BY <2>0, <3>1 DEF Members
    <3>3. Members(s) # {s} => root'[RemainingRoot(s)] = RemainingRoot(s)
      BY <2>0, <3>1 DEF Members
    <3>4. \A u \in Session : u \notin Members(s) \cup Members(t) =>
                             root'[root[u]] = root[u]
      BY <2>0 DEF TypeOK, TopologyInv, Members, CanJoin
    <3>. QED  BY <2>0, <3>2, <3>3, <3>4
  <2>3. \A u, v \in Session : root'[u] = root'[v] => topo'[u] = topo'[v]
    BY <1>1, JoinStep DEF TypeOK, TopologyInv, Members, CanJoin
  <2>4. \A u \in Session : topo'[u] <= version'
    BY <1>1, JoinStep DEF TypeOK, TopologyInv
  <2>. QED  BY <2>1, <2>2, <2>3, <2>4 DEF TopologyInv
<1>2. ASSUME NEW s \in Session, Leave(s)
      PROVE  TypeOK' /\ TopologyInv'
  <2>1. TypeOK'
    BY <1>2, LeaveStep DEF TypeOK, Members
  <2>2. \A u \in Session : root'[root'[u]] = root'[u]
    BY <1>2, LeaveStep DEF TypeOK, TopologyInv, Members
  <2>3. \A u, v \in Session : root'[u] = root'[v] => topo'[u] = topo'[v]
    BY <1>2, LeaveStep DEF TypeOK, TopologyInv, Members
  <2>4. \A u \in Session : topo'[u] <= version'
    BY <1>2, LeaveStep DEF TypeOK, TopologyInv
  <2>. QED  BY <2>1, <2>2, <2>3, <2>4 DEF TopologyInv
<1>3. CASE OtherEntry
  BY <1>3 DEF OtherEntry, TypeOK, TopologyInv
<1>4. CASE UNCHANGED vars
  BY <1>4 DEF vars, TypeOK, TopologyInv
<1>. QED  BY <1>1, <1>2, <1>3, <1>4 DEF Next

\* The rows keep their types, and the three facts PublicWorldState insists on.
THEOREM TypeCorrect == Spec => [](TypeOK /\ TopologyInv)
<1>1. Init => TypeOK /\ TopologyInv
  BY DEF Init, TypeOK, TopologyInv
<1>. QED  BY <1>1, RowsStep, PTL DEF Spec

\* Every committed topology can be loaded again.
THEOREM TopologyAlwaysLoads == Spec => []TopologyInv
BY TypeCorrect, PTL

\* No sequence of joins and leaves brings two places into one story line.
THEOREM ColocationPreserved == Spec => StaysColocated
<1>1. TypeOK /\ TopologyInv /\ [Next]_vars => [Colocated => Colocated']_vars
  <2> SUFFICES ASSUME TypeOK, TopologyInv, Next, Colocated
               PROVE  Colocated'
    BY DEF vars
  <2>1. ASSUME NEW s \in Session, NEW t \in Session, Join(s, t)
        PROVE  Colocated'
    BY <2>1, JoinStep DEF TypeOK, TopologyInv, Members, CanJoin, Colocated
  <2>2. ASSUME NEW s \in Session, Leave(s)
        PROVE  Colocated'
    BY <2>2, LeaveStep DEF TypeOK, TopologyInv, Members, Colocated
  <2>3. CASE OtherEntry
    BY <2>3 DEF OtherEntry, Colocated
  <2>. QED  BY <2>1, <2>2, <2>3 DEF Next
<1>. QED  BY <1>1, TypeCorrect, PTL DEF Spec, StaysColocated

\* What LineFollowsCompany says of a step.
LineChange == \A s \in Session :
                IF Members(s)' = Members(s)
                  THEN root'[s] = root[s] /\ topo'[s] = topo[s]
                  ELSE topo'[s] = version'

\* A step that moves a session gives its lines the version of the commit.
LEMMA LineStep == TypeOK /\ TopologyInv /\ [Next]_vars => [LineChange]_vars
<1> SUFFICES ASSUME TypeOK, TopologyInv, Next, NEW u \in Session
             PROVE  IF Members(u)' = Members(u)
                      THEN root'[u] = root[u] /\ topo'[u] = topo[u]
                      ELSE topo'[u] = version'
  BY DEF vars, LineChange
<1>1. ASSUME NEW s \in Session, NEW t \in Session, Join(s, t)
      PROVE  IF Members(u)' = Members(u)
               THEN root'[u] = root[u] /\ topo'[u] = topo[u]
               ELSE topo'[u] = version'
  <2>1. CASE u \in Members(s) \cup Members(t)
    <3>1. topo'[u] = version'
      BY <1>1, <2>1, JoinStep
    <3>2. Members(u)' # Members(u)
      <4>1. s \in Members(u) <=> u \in Members(s)
        BY DEF Members
      <4>2. CASE u = s
        BY <1>1, <4>2, JoinStep DEF TypeOK, TopologyInv, Members, CanJoin
      <4>3. CASE u # s /\ u \in Members(s)
        <5>1. s \notin Members(u)'
          BY <1>1, <4>3, JoinStep DEF TypeOK, TopologyInv, Members, CanJoin
        <5>. QED  BY <4>1, <4>3, <5>1
      <4>4. CASE u \in Members(t)
        <5>1. s \in Members(u)' /\ s \notin Members(u)
          BY <1>1, <4>4, JoinStep DEF TypeOK, TopologyInv, Members, CanJoin
        <5>. QED  BY <5>1
      <4>. QED  BY <2>1, <4>2, <4>3, <4>4
    <3>. QED  BY <3>1, <3>2
  <2>2. CASE u \notin Members(s) \cup Members(t)
    <3>1. root'[u] = root[u] /\ topo'[u] = topo[u]
      BY <1>1, <2>2, JoinStep DEF Members
    <3>2. Members(u)' = Members(u)
      <4>1. \A v \in Session : v \in Members(s) \cup Members(t) => root'[v] # root[u]
        <5>1. Members(s) # {s} => root[RemainingRoot(s)] = root[s]
          BY <1>1, JoinStep DEF Members
        <5>2. root[root[u]] = root[u] /\ root[root[t]] = root[t]
          BY DEF TopologyInv
        <5>3. root[u] # root[s] /\ root[u] # root[t]
          BY <2>2 DEF Members
        <5>4. \A v \in Session : v \in Members(s) \cup Members(t) =>
                root'[v] = root[t] \/ (Members(s) # {s} /\ root'[v] = RemainingRoot(s))
          BY <1>1, JoinStep
        <5>. QED  BY <5>1, <5>2, <5>3, <5>4
      <4>2. \A v \in Session : v \notin Members(s) \cup Members(t) => root'[v] = root[v]
        BY <1>1, JoinStep DEF Members
      <4>3. \A v \in Members(u) : v \notin Members(s) \cup Members(t)
        BY <2>2 DEF Members
      <4>. QED  BY <3>1, <4>1, <4>2, <4>3 DEF Members
    <3>. QED  BY <3>1, <3>2
  <2>. QED  BY <2>1, <2>2
<1>2. ASSUME NEW s \in Session, Leave(s)
      PROVE  IF Members(u)' = Members(u)
               THEN root'[u] = root[u] /\ topo'[u] = topo[u]
               ELSE topo'[u] = version'
  <2>1. CASE u \in Members(s)
    <3>1. topo'[u] = version'
      BY <1>2, <2>1, LeaveStep
    <3>2. Members(u)' # Members(u)
      <4>1. PICK v \in Members(s) \ {s} : TRUE
        BY <1>2, LeaveStep
      <4>2. s \in Members(u) /\ v \in Members(u)
        BY <2>1, <4>1 DEF Members
      <4>3. ~(s \in Members(u)' /\ v \in Members(u)')
        BY <1>2, <2>1, <4>1, LeaveStep DEF TypeOK, TopologyInv, Members
      <4>. QED  BY <4>2, <4>3
    <3>. QED  BY <3>1, <3>2
  <2>2. CASE u \notin Members(s)
    <3>1. root'[u] = root[u] /\ topo'[u] = topo[u]
      BY <1>2, <2>2, LeaveStep DEF Members
    <3>2. Members(u)' = Members(u)
      BY <1>2, <2>2, LeaveStep DEF TypeOK, TopologyInv, Members
    <3>. QED  BY <3>1, <3>2
  <2>. QED  BY <2>1, <2>2
<1>3. CASE OtherEntry
  BY <1>3 DEF OtherEntry, Members
<1>. QED  BY <1>1, <1>2, <1>3 DEF Next

\* A line key changes exactly when the company changes, and never back to an
\* old one: it carries the version of the commit.
THEOREM LinesFollowCompany == Spec => LineFollowsCompany
BY LineStep, TypeCorrect, PTL DEF Spec, LineFollowsCompany, LineChange

-----------------------------------------------------------------------------
(* The checks of merge and split.                                          *)

\* The indices rebuilt from the roots.
LEMMA Indices ==
  ASSUME NEW rt \in [Session -> Session]
  PROVE  /\ PartitionOf(rt).rootOf = rt
         /\ DOMAIN PartitionOf(rt).membersOf = {rt[u] : u \in Session}
         /\ \A r \in {rt[u] : u \in Session} :
              PartitionOf(rt).membersOf[r] = {u \in Session : rt[u] = r}
  BY DEF PartitionOf

\* A merge of two roots is accepted and keeps the indices in agreement.
LEMMA MergeAgrees ==
  ASSUME NEW rt \in [Session -> Session],
         NEW keep \in Session, NEW k \in Session, k # keep, rt[keep] = keep, rt[k] = k
  PROVE  /\ CanMerge(PartitionOf(rt), keep, {k})
         /\ Merge(PartitionOf(rt), keep, {k})
              = PartitionOf(Merge(PartitionOf(rt), keep, {k}).rootOf)
<1> DEFINE P == PartitionOf(rt)
           both == {u \in Session : rt[u] = k \/ rt[u] = keep}
           new == [u \in Session |-> IF u \in both THEN keep ELSE rt[u]]
           index == [r \in {rt[u] : u \in Session} \ {k} |->
                       IF r = keep THEN both ELSE {u \in Session : rt[u] = r}]
<1>1. /\ P.rootOf = rt /\ DOMAIN P.membersOf = {rt[u] : u \in Session}
      /\ \A r \in {rt[u] : u \in Session} : P.membersOf[r] = {u \in Session : rt[u] = r}
  BY Indices
<1>2. UNION {P.membersOf[r] : r \in {k} \cup {keep}} = both
  <2>1. P.membersOf[k] = {u \in Session : rt[u] = k}
    BY <1>1
  <2>2. P.membersOf[keep] = {u \in Session : rt[u] = keep}
    BY <1>1
  <2> HIDE DEF P
  <2> QED  BY <2>1, <2>2
<1>3. Merge(P, keep, {k}) = [rootOf |-> new, membersOf |-> index]
  <2> HIDE DEF P
  <2>1. DOMAIN P.rootOf = Session  BY <1>1
  <2>2. [u \in DOMAIN P.rootOf |-> IF u \in both THEN keep ELSE P.rootOf[u]] = new
    BY <1>1, <2>1
  <2>3. [r \in DOMAIN P.membersOf \ {k} |-> IF r = keep THEN both ELSE P.membersOf[r]] = index
    BY <1>1
  <2> QED  BY <1>2, <2>2, <2>3 DEF Merge
<1>4. new \in [Session -> Session]
  OBVIOUS
<1>5. {new[u] : u \in Session} = {rt[u] : u \in Session} \ {k}
  <2>1. \A u \in Session : new[u] \in {rt[v] : v \in Session} \ {k}
    <3>1. keep \in {rt[v] : v \in Session} \ {k}
      OBVIOUS
    <3>2. \A u \in Session : u \notin both => new[u] = rt[u] /\ rt[u] # k
      OBVIOUS
    <3>3. \A u \in Session : u \in both => new[u] = keep
      OBVIOUS
    <3> HIDE DEF new, both
    <3> QED  BY <3>1, <3>2, <3>3
  <2>2. ASSUME NEW u \in Session, rt[u] # k PROVE new[u] = rt[u]
    BY <2>2
  <2> QED  BY <2>1, <2>2
<1>6. \A r \in {new[u] : u \in Session} : {u \in Session : new[u] = r} = index[r]
  <2> SUFFICES ASSUME NEW r \in {rt[u] : u \in Session} \ {k}
               PROVE  {u \in Session : new[u] = r} = index[r]
    BY <1>5
  <2>1. CASE r = keep   BY <2>1
  <2>2. CASE r # keep   BY <2>2
  <2> QED  BY <2>1, <2>2
<1>7. PartitionOf(new).membersOf = index
  <2> HIDE DEF new, index
  <2>1. DOMAIN index = {rt[u] : u \in Session} \ {k}  BY DEF index
  <2>2. PartitionOf(new).membersOf
          = [r \in {new[u] : u \in Session} |-> {u \in Session : new[u] = r}]
    BY <1>4 DEF PartitionOf
  <2>3. index = [r \in {new[u] : u \in Session} |-> index[r]]  BY <1>5 DEF index
  <2> QED  BY <1>6, <2>2, <2>3
<1>8. PartitionOf(new) = [rootOf |-> new, membersOf |-> index]
  <2> HIDE DEF new, index
  <2> QED  BY <1>7 DEF PartitionOf
<1>9. CanMerge(P, keep, {k})
  <2> HIDE DEF P
  <2> QED  BY <1>1 DEF CanMerge
<1> HIDE DEF P, new, index
<1> QED  BY <1>3, <1>8, <1>9 DEF P

\* The split of a leave is accepted and keeps the indices in agreement.
LEMMA SplitAgrees ==
  ASSUME TypeOK, TopologyInv, NEW s \in Session, CanLeave(s)
  PROVE  /\ CanSplit(PartitionOf(root), root[s], SplitOff(s))
         /\ LeavePartition(s) = PartitionOf(LeavePartition(s).rootOf)
         /\ LeavePartition(s).rootOf \in [Session -> Session]
<1> DEFINE P == PartitionOf(root)
           R == RemainingRoot(s)
           M == Members(s)
           new == LeavePartition(s).rootOf
           index == LeavePartition(s).membersOf
           parts == SplitOff(s)
<1>1. R \in M \ {s} /\ s \in M /\ root[s] \in M /\ M \subseteq Session
  BY RemainingRootStays DEF TypeOK, TopologyInv, Members
<1>2. /\ DOMAIN parts = {R, s} /\ parts[s] = {s} /\ parts[R] = M \ {s}
  BY <1>1 DEF SplitOff
<1>3. /\ P.rootOf = root /\ DOMAIN P.membersOf = {root[u] : u \in Session}
      /\ \A r \in {root[u] : u \in Session} : P.membersOf[r] = {u \in Session : root[u] = r}
  BY Indices DEF TypeOK
<1>4. P.membersOf[root[s]] = M
  BY <1>3 DEF Members
<1>5. new = [u \in Session |-> IF u = s THEN s ELSE IF u \in M THEN R ELSE root[u]]
  BY LeaveRoots
<1>6. index = [p \in ({root[u] : u \in Session} \ {root[s]}) \cup {R, s} |->
                 IF p \in {R, s} THEN parts[p] ELSE {u \in Session : root[u] = p}]
  <2>1. index = [p \in (DOMAIN P.membersOf \ {root[s]}) \cup DOMAIN parts |->
                   IF p \in DOMAIN parts THEN parts[p] ELSE P.membersOf[p]]
    BY DEF LeavePartition, Split
  <2> HIDE DEF P, parts, index, R
  <2> QED  BY <1>2, <1>3, <2>1
<1>7. LeavePartition(s) = [rootOf |-> new, membersOf |-> index]
  BY DEF LeavePartition, Split
<1> HIDE DEF P, R, M, new, index, parts
<1>8. new \in [Session -> Session]
  BY <1>1, <1>5 DEF TypeOK
<1>9. CanSplit(P, root[s], parts)
  <2>1. P.rootOf[root[s]] = root[s]  BY <1>3 DEF TopologyInv
  <2>2. \A p \in DOMAIN parts : p \in parts[p]  BY <1>1, <1>2
  <2>3. \A p, q \in DOMAIN parts : p # q => parts[p] \cap parts[q] = {}  BY <1>1, <1>2
  <2>4. UNION {parts[p] : p \in DOMAIN parts} = M  BY <1>1, <1>2
  <2> QED  BY <1>4, <2>1, <2>2, <2>3, <2>4 DEF CanSplit
<1>10. \A u \in Session : u \in M <=> root[u] = root[s]
  BY DEF M, Members
<1>11. {new[u] : u \in Session} = ({root[u] : u \in Session} \ {root[s]}) \cup {R, s}
  <2>1. \A u \in Session : new[u] \in ({root[v] : v \in Session} \ {root[s]}) \cup {R, s}
    BY <1>5, <1>10
  <2>2. new[s] = s /\ new[R] = R
    BY <1>1, <1>5
  <2>3. ASSUME NEW u \in Session, root[u] # root[s] PROVE new[u] = root[u]
    BY <1>1, <1>5, <1>10, <2>3
  <2>4. R \in Session  BY <1>1
  <2> QED  BY <2>1, <2>2, <2>3, <2>4
<1>12. \A p \in {new[u] : u \in Session} : {u \in Session : new[u] = p} = index[p]
  <2> SUFFICES ASSUME NEW p \in ({root[u] : u \in Session} \ {root[s]}) \cup {R, s}
               PROVE  {u \in Session : new[u] = p} = index[p]
    BY <1>11
  <2>0. \A u \in Session : u \notin M => root[u] \notin M
    BY <1>10 DEF TypeOK, TopologyInv
  <2>1. CASE p = s
    <3>1. \A u \in Session : new[u] = s <=> u = s  BY <1>1, <1>5, <2>0
    <3> QED  BY <1>2, <1>6, <2>1, <3>1
  <2>2. CASE p = R
    <3>1. \A u \in Session : new[u] = R <=> u \in M \ {s}  BY <1>1, <1>5, <2>0
    <3>2. index[R] = M \ {s}  BY <1>2, <1>6
    <3> QED  BY <1>1, <2>2, <3>1, <3>2
  <2>3. CASE p \notin {R, s}
    <3>1. index[p] = {u \in Session : root[u] = p}  BY <1>6, <2>3
    <3>2. p # root[s]  BY <2>3
    <3>3. \A u \in Session : new[u] = p <=> root[u] = p  BY <1>5, <1>10, <2>3, <3>2
    <3> QED  BY <3>1, <3>3
  <2> QED  BY <2>1, <2>2, <2>3
<1>13. PartitionOf(new) = [rootOf |-> new, membersOf |-> index]
  <2>1. PartitionOf(new)
          = [rootOf |-> new,
             membersOf |-> [r \in {new[u] : u \in Session} |-> {u \in Session : new[u] = r}]]
    BY <1>8 DEF PartitionOf
  <2>2. index = [r \in {new[u] : u \in Session} |-> index[r]]  BY <1>6, <1>11
  <2> QED  BY <1>12, <2>1, <2>2
<1> QED  BY <1>7, <1>8, <1>9, <1>13 DEF P, new, parts

\* merge and split accept what the planners build, from every topology.
THEOREM PlannersAgree == Spec => []PlansAccepted
<1>1. TypeOK /\ TopologyInv => PlansAccepted
  <2> SUFFICES ASSUME TypeOK, TopologyInv PROVE PlansAccepted
    OBVIOUS
  <2>1. ASSUME NEW s \in Session, NEW t \in Session, CanJoin(s, t)
        PROVE  /\ IF Members(s) = {s}
                    THEN CanMerge(PartitionOf(root), root[t], {root[s]})
                    ELSE /\ CanSplit(PartitionOf(root), root[s], SplitOff(s))
                         /\ CanMerge(Split(PartitionOf(root), root[s], SplitOff(s)), root[t], {s})
               /\ JoinPartition(s, t) = PartitionOf(JoinPartition(s, t).rootOf)
    <3>1. /\ root \in [Session -> Session] /\ root[s] \in Session /\ root[t] \in Session
          /\ root[s] # root[t] /\ root[root[s]] = root[s] /\ root[root[t]] = root[t]
      BY <2>1 DEF TypeOK, TopologyInv, CanJoin
    <3>2. CASE Members(s) = {s}
      BY <3>1, <3>2, MergeAgrees DEF JoinPartition
    <3>3. CASE Members(s) # {s}
      <4> DEFINE new == LeavePartition(s).rootOf
                 Q == Split(PartitionOf(root), root[s], SplitOff(s))
      <4>1. CanLeave(s)  BY <3>3 DEF CanLeave
      <4>2. /\ CanSplit(PartitionOf(root), root[s], SplitOff(s))
            /\ LeavePartition(s) = PartitionOf(new) /\ new \in [Session -> Session]
        BY <4>1, SplitAgrees
      <4>3. Q = PartitionOf(new)  BY <4>2 DEF LeavePartition
      <4>4. new = [u \in Session |-> IF u = s THEN s
                                     ELSE IF u \in Members(s) THEN RemainingRoot(s)
                                     ELSE root[u]]
        BY <4>1, LeaveRoots
      <4>5. root[t] \notin Members(s) /\ s \in Members(s)
        BY <3>1 DEF Members
      <4>6. new[s] = s /\ new[root[t]] = root[t] /\ s # root[t]
        BY <3>1, <4>4, <4>5
      <4> HIDE DEF new, Q
      <4>7. CanMerge(Q, root[t], {s})
            /\ Merge(Q, root[t], {s}) = PartitionOf(Merge(Q, root[t], {s}).rootOf)
        BY <3>1, <4>2, <4>3, <4>6, MergeAgrees
      <4>8. JoinPartition(s, t) = Merge(Q, root[t], {s})
        BY <3>3 DEF JoinPartition, Q
      <4> QED  BY <3>3, <4>2, <4>7, <4>8 DEF Q
    <3> QED  BY <3>2, <3>3
  <2>2. ASSUME NEW s \in Session, CanLeave(s)
        PROVE  /\ CanSplit(PartitionOf(root), root[s], SplitOff(s))
               /\ LeavePartition(s) = PartitionOf(LeavePartition(s).rootOf)
    BY <2>2, SplitAgrees
  <2> QED  BY <2>1, <2>2 DEF PlansAccepted
<1> QED  BY <1>1, TypeCorrect, PTL

-----------------------------------------------------------------------------
(* The refinement.                                                         *)

AllBlocks == {Members(s) : s \in Session}

\* What the blocks of a topology are: the companies, one per session.
LEMMA BlocksOf ==
  ASSUME TypeOK, NEW s \in Session
  PROVE  Blocks!BlockOf(s) = Members(s)
<1>1. Members(s) \in AllBlocks /\ s \in Members(s)
  BY DEF AllBlocks, Members
<1>2. \A b \in AllBlocks : s \in b => b = Members(s)
  BY DEF AllBlocks, Members
<1> QED  BY <1>1, <1>2 DEF Blocks!BlockOf, AllBlocks

LEMMA BlocksInit == Init => Blocks!Init
<1> SUFFICES ASSUME Init PROVE Blocks!Init
  OBVIOUS
<1>1. \A s \in Session : Members(s) \subseteq Session /\ s \in Members(s)
  BY DEF Init, Members
<1>2. \A s, t \in Session : Members(s) # Members(t) => Members(s) \cap Members(t) = {}
  BY DEF Members
<1> QED  BY <1>1, <1>2 DEF Blocks!Init

\* A join moves the actor into the target's block, a leave makes it alone.
LEMMA BlocksMove ==
  ASSUME TypeOK, TopologyInv
  PROVE  /\ \A s, t \in Session : Join(s, t) => Blocks!Join(s, t)
         /\ \A s \in Session : Leave(s) => Blocks!Leave(s)
<1>0. \A u \in Session : u \in Members(u) /\ \A v \in Members(u) : Members(v) = Members(u)
  BY DEF Members
<1>1. ASSUME NEW s \in Session, NEW t \in Session, Join(s, t) PROVE Blocks!Join(s, t)
  <2>1. CanJoin(s, t) /\ s # t /\ t \in Members(t) /\ s \notin Members(t)
    BY <1>1, JoinStep DEF CanJoin, Members
  <2>2. \A u \in Session : Members(u)' = IF u = s \/ u \in Members(t) THEN Members(t) \cup {s}
                                         ELSE Members(u) \ {s}
    <3> SUFFICES ASSUME NEW u \in Session
                 PROVE  Members(u)' = IF u = s \/ u \in Members(t) THEN Members(t) \cup {s}
                                      ELSE Members(u) \ {s}
      OBVIOUS
    <3> DEFINE R == RemainingRoot(s)
    <3>1. /\ Members(s) # {s} => R \in Members(s) \ {s}
          /\ root' = [v \in Session |-> IF v = s \/ v \in Members(t) THEN root[t]
                                        ELSE IF v \in Members(s) THEN R
                                        ELSE root[v]]
      BY <1>1, JoinStep
    <3> HIDE DEF R
    <3>2. root[t] \in Members(t) /\ Members(s) \cap Members(t) = {}
      BY <2>1 DEF CanJoin, Members, TopologyInv, TypeOK
    <3>3. \A v \in Session : root'[v] = root[t] <=> v = s \/ v \in Members(t)
      BY <2>1, <3>1, <3>2 DEF Members
    <3>4. CASE u = s \/ u \in Members(t)
      BY <3>1, <3>3, <3>4 DEF Members
    <3>5. CASE u # s /\ u \in Members(s)
      <4>1. R \in Members(s) \ {s} /\ root'[u] = R  BY <3>1, <3>2, <3>5
      <4>2. \A v \in Session : root'[v] = R <=> v \in Members(s) \ {s}
        BY <3>1, <3>2, <4>1 DEF Members, TypeOK, TopologyInv
      <4>3. Members(u)' = Members(s) \ {s}  BY <4>1, <4>2 DEF Members
      <4> QED  BY <1>0, <3>2, <3>5, <4>3
    <3>6. CASE u \notin Members(s) /\ u \notin Members(t)
      <4>1. u # s /\ root'[u] = root[u]  BY <1>0, <3>1, <3>6
      <4>2. \A v \in Session : root'[v] = root[u] <=> root[v] = root[u]
        BY <3>1, <3>2, <3>6, <4>1 DEF Members, TypeOK, TopologyInv
      <4>3. Members(u)' = Members(u)  BY <4>1, <4>2 DEF Members
      <4>4. s \notin Members(u)  BY <3>6 DEF Members
      <4> QED  BY <3>6, <4>1, <4>3, <4>4
    <3> QED  BY <3>4, <3>5, <3>6
  <2>3. AllBlocks' = (({b \ {s} : b \in AllBlocks} \ {{}}) \ {Members(t)}) \cup {Members(t) \cup {s}}
    <3>1. AllBlocks' = {Members(u)' : u \in Session}  BY DEF AllBlocks
    <3>2. \A u \in Session :
            Members(u)' \in (({b \ {s} : b \in AllBlocks} \ {{}}) \ {Members(t)}) \cup {Members(t) \cup {s}}
      <4> SUFFICES ASSUME NEW u \in Session, u # s, u \notin Members(t)
                   PROVE  /\ Members(u) \ {s} \in {b \ {s} : b \in AllBlocks}
                          /\ Members(u) \ {s} # {} /\ Members(u) \ {s} # Members(t)
        BY <2>2
      <4> QED  BY <1>0 DEF AllBlocks
    <3>3. Members(s)' = Members(t) \cup {s}  BY <2>2
    <3>4. ASSUME NEW w \in Session, Members(w) \ {s} # {}, Members(w) \ {s} # Members(t)
          PROVE  \E u \in Session : Members(u)' = Members(w) \ {s}
      <4>1. PICK u \in Members(w) \ {s} : TRUE  BY <3>4
      <4>2. u \in Session /\ u # s /\ Members(u) = Members(w)  BY <1>0, <4>1 DEF Members
      <4>3. u \notin Members(t)
        <5>1. ASSUME u \in Members(t) PROVE FALSE
          <6>1. Members(u) = Members(t)  BY <1>0, <5>1
          <6> QED  BY <2>1, <3>4, <4>2, <6>1
        <5> QED  BY <5>1
      <4> QED  BY <2>2, <4>2, <4>3
    <3>5. ASSUME NEW c \in ({b \ {s} : b \in AllBlocks} \ {{}}) \ {Members(t)}
          PROVE  \E u \in Session : Members(u)' = c
      <4>1. PICK w \in Session : c = Members(w) \ {s}  BY DEF AllBlocks
      <4>2. Members(w) \ {s} # {} /\ Members(w) \ {s} # Members(t)  BY <4>1
      <4>3. \E u \in Session : Members(u)' = Members(w) \ {s}  BY <3>4, <4>2
      <4> QED  BY <4>1, <4>3
    <3> DEFINE target == (({b \ {s} : b \in AllBlocks} \ {{}}) \ {Members(t)}) \cup {Members(t) \cup {s}}
    <3>6. \A c \in AllBlocks' : c \in target  BY <3>1, <3>2
    <3>7. \A c \in target : c \in AllBlocks'
      <4>1. \A c \in ({b \ {s} : b \in AllBlocks} \ {{}}) \ {Members(t)} : c \in AllBlocks'
        BY <3>1, <3>5
      <4>2. Members(t) \cup {s} \in AllBlocks'  BY <3>1, <3>3
      <4> QED  BY <4>1, <4>2
    <3> HIDE DEF target
    <3>8. AllBlocks' = target  BY <3>6, <3>7
    <3> QED  BY <3>8 DEF target
  <2>4. Blocks!BlockOf(s) = Members(s) /\ Blocks!BlockOf(t) = Members(t)  BY BlocksOf
  <2>5. Blocks!Separate(s) = {b \ {s} : b \in AllBlocks} \ {{}}
    BY DEF Blocks!Separate, AllBlocks
  <2>6. Members(s) # Members(t)  BY <1>0, <2>1
  <2> QED  BY <2>3, <2>4, <2>5, <2>6 DEF Blocks!Join, AllBlocks
<1>2. ASSUME NEW s \in Session, Leave(s) PROVE Blocks!Leave(s)
  <2> DEFINE R == RemainingRoot(s)
  <2>1. /\ R \in Members(s) \ {s}
        /\ root' = [u \in Session |-> IF u = s THEN s ELSE IF u \in Members(s) THEN R ELSE root[u]]
    BY <1>2, LeaveStep
  <2> HIDE DEF R
  <2>2. \A u \in Session : Members(u)' = IF u = s THEN {s} ELSE Members(u) \ {s}
    <3> SUFFICES ASSUME NEW u \in Session
                 PROVE  Members(u)' = IF u = s THEN {s} ELSE Members(u) \ {s}
      OBVIOUS
    <3>1. \A v \in Session : v \notin Members(s) => root[v] \notin Members(s)
      BY DEF Members, TypeOK, TopologyInv
    <3>2. CASE u = s
      <4>1. \A v \in Session : root'[v] = s <=> v = s  BY <1>0, <2>1, <3>1
      <4> QED  BY <2>1, <3>2, <4>1 DEF Members
    <3>3. CASE u # s /\ u \in Members(s)
      <4>1. \A v \in Session : root'[v] = R <=> v \in Members(s) \ {s}  BY <1>0, <2>1, <3>1
      <4>2. Members(u)' = Members(s) \ {s}  BY <2>1, <3>3, <4>1 DEF Members
      <4> QED  BY <1>0, <3>3, <4>2
    <3>4. CASE u \notin Members(s)
      <4>1. u # s /\ root'[u] = root[u] /\ s \notin Members(u)
        BY <1>0, <2>1, <3>4 DEF Members
      <4>2. \A v \in Session : root'[v] = root[u] <=> root[v] = root[u]
        BY <1>0, <2>1, <3>1, <3>4 DEF Members
      <4> QED  BY <4>1, <4>2 DEF Members
    <3> QED  BY <3>2, <3>3, <3>4
  <2>3. AllBlocks' = ({b \ {s} : b \in AllBlocks} \ {{}}) \cup {{s}}
    <3>1. AllBlocks' = {Members(u)' : u \in Session}  BY DEF AllBlocks
    <3>2. \A u \in Session : Members(u)' \in ({b \ {s} : b \in AllBlocks} \ {{}}) \cup {{s}}
      BY <1>0, <2>2 DEF AllBlocks
    <3>3. Members(s)' = {s}  BY <2>2
    <3>4. ASSUME NEW c \in {b \ {s} : b \in AllBlocks} \ {{}}
          PROVE  \E u \in Session : Members(u)' = c
      <4>1. PICK w \in Session : c = Members(w) \ {s}  BY DEF AllBlocks
      <4>2. PICK u \in c : TRUE  BY <3>4
      <4>3. u \in Session /\ u # s /\ Members(u) = Members(w)  BY <1>0, <4>1, <4>2 DEF Members
      <4> QED  BY <2>2, <4>1, <4>3
    <3> DEFINE target == ({b \ {s} : b \in AllBlocks} \ {{}}) \cup {{s}}
    <3>5. \A c \in AllBlocks' : c \in target  BY <3>1, <3>2
    <3>6. \A c \in target : c \in AllBlocks'
      <4>1. \A c \in {b \ {s} : b \in AllBlocks} \ {{}} : c \in AllBlocks'  BY <3>1, <3>4
      <4>2. {s} \in AllBlocks'  BY <3>1, <3>3
      <4> QED  BY <4>1, <4>2
    <3> HIDE DEF target
    <3>7. AllBlocks' = target  BY <3>5, <3>6
    <3> QED  BY <3>7 DEF target
  <2>4. Blocks!BlockOf(s) = Members(s)  BY BlocksOf
  <2>5. Members(s) # {s}  BY <2>1
  <2> QED  BY <2>3, <2>4, <2>5 DEF Blocks!Leave, Blocks!Separate, AllBlocks
<1> QED  BY <1>1, <1>2

LEMMA BlocksStep == TypeOK /\ TopologyInv /\ [Next]_vars => [Blocks!Next]_AllBlocks
<1> SUFFICES ASSUME TypeOK, TopologyInv, [Next]_vars PROVE [Blocks!Next]_AllBlocks
  OBVIOUS
<1>1. CASE \/ \E s, t \in Session : Join(s, t)
           \/ \E s \in Session : Leave(s)
  BY <1>1, BlocksMove DEF Blocks!Next
<1>2. CASE OtherEntry
  BY <1>2 DEF OtherEntry, AllBlocks, Members
<1>3. CASE UNCHANGED vars
  BY <1>3 DEF vars, AllBlocks, Members
<1> QED  BY <1>1, <1>2, <1>3 DEF Next

\* The node rows implement abstract blocks.
THEOREM RowsAreBlocks == Spec => ImplementsBlocks
  BY BlocksInit, BlocksStep, TypeCorrect, PTL DEF Spec, ImplementsBlocks, Blocks!Spec, AllBlocks
=============================================================================
