-------------------------- MODULE StoryLineProofs --------------------------
(***************************************************************************)
(* Proofs about StoryLine for every finite set of characters, every        *)
(* placement and every bound.                                              *)
(*                                                                         *)
(* The rows keep no past, so the invariant says that there is one: a       *)
(* chronicle h gives every version the line of every character, ends with  *)
(* the current lines, and agrees with what each committed entry tells.  An *)
(* outcome extends it by one version.  The builder's rewind is the         *)
(* chronicle (RewoundIs), so its checks follow from it, and what it builds *)
(* at an earlier cut never changes.                                        *)
(***************************************************************************)
EXTENDS StoryLine, WorldRuntimeProofs

-----------------------------------------------------------------------------
(* The invariant.                                                          *)

\* Who is on a's line, by the lines f of all characters.
Company(f, a) == {b \in Agent : f[b] = f[a]}

\* a's line with its members.
LinePart(f, a) == [line |-> f[a], members |-> Company(f, a)]

\* The numbers of before and after parts of a merge, a split and a transfer.
Shapes == {<<2, 1>>, <<1, 2>>, <<2, 2>>}

\* The transition e of version v tells how the lines f became the lines g.
MovesLines(e, v, f, g) ==
  /\ e.actor \in e.to /\ e.line = g[e.actor]
  /\ e.before = {LinePart(f, a) : a \in e.to}
  /\ e.after = {LinePart(g, a) : a \in e.to}
  /\ \A a \in e.to : /\ Company(f, a) \subseteq e.to
                     /\ Company(g, a) \subseteq e.to
                     /\ g[a][2] = v
  /\ \A a \in Agent \ e.to : g[a] = f[a]
  /\ <<Cardinality(e.before), Cardinality(e.after)>> \in Shapes
  /\ {p.members : p \in e.before} # {p.members : p \in e.after}

\* Another entry e is told on one of the lines f, to those who are on it.
ToldOnLine(e, f) ==
  /\ e.actor \in e.to /\ e.line = f[e.actor]
  /\ IF e.channel = "whisper"
       THEN e.to \subseteq Company(f, e.actor) /\ Cardinality(e.to) = 2
       ELSE e.to = Company(f, e.actor)

\* Of every version the lines of all characters; the last ones are current.
IsHistory(h) ==
  /\ h = [v \in 1..version |-> h[v]]
  /\ \A v \in 1..version : h[v] \in [Agent -> Line]
  /\ h[version] = [a \in Agent |-> LineOf(a)]

\* A line is not newer than its version, and nobody returns to an older one.
LinesAge(h) ==
  \A a \in Agent : \A w \in 1..version :
    h[w][a][2] <= w /\ \A v \in 1..w : h[v][a][2] <= h[w][a][2]

\* A line has the same members at all times.
CompaniesLast(h) ==
  \A v, w \in 1..version : \A a, b \in Agent :
    h[v][a] = h[w][b] => Company(h[v], a) = Company(h[w], b)

\* Each entry tells what happened between its version and the one before.
EntriesTell(h) ==
  \A v \in DOMAIN entries :
    IF IsTransition(v)
      THEN MovesLines(entries[v], v, h[v - 1], h[v])
      ELSE h[v] = h[v - 1] /\ ToldOnLine(entries[v], h[v])

\* An entry refers to earlier ones only.
LinksBack ==
  \A v \in DOMAIN entries :
    entries[v].previous \cup ({entries[v].reply} \ {0}) \subseteq {w \in DOMAIN entries : w < v}

Chronicle(h) == IsHistory(h) /\ LinesAge(h) /\ CompaniesLast(h) /\ EntriesTell(h)

StoryInv == LinksBack /\ \E h : Chronicle(h)

-----------------------------------------------------------------------------
(* What a step does to the lines and to the entries.                       *)

\* Two different things are two.
LEMMA PairCount ==
  ASSUME NEW x, NEW y
  PROVE  Cardinality({x, y}) = IF x = y THEN 1 ELSE 2
<1>1. CASE x = y
  <2>1. {x, y} = {x}
    BY <1>1
  <2>. QED  BY <1>1, <2>1, FS_Singleton
<1>2. CASE x # y
  <2>1. IsFiniteSet({y}) /\ Cardinality({y}) = 1
    BY FS_Singleton
  <2>2. {x, y} = {y} \cup {x} /\ x \notin {y}
    BY <1>2
  <2>3. Cardinality({y} \cup {x}) = Cardinality({y}) + 1
    BY <2>1, <2>2, FS_AddElement
  <2>. QED  BY <1>2, <2>1, <2>2, <2>3
<1>. QED  BY <1>1, <1>2

\* The line of a character is the one of those in its company, and theirs only.
LEMMA LineIsCompany ==
  ASSUME Loadable
  PROVE  /\ \A a, b \in Agent : LineOf(a) = LineOf(b) <=> root[a] = root[b]
         /\ \A a \in Agent : /\ LineOf(a) \in Line
                             /\ Company([b \in Agent |-> LineOf(b)], a) = Members(a)
<1>1. \A a, b \in Agent : LineOf(a) = LineOf(b) <=> root[a] = root[b]
  BY DEF LineOf, Loadable, Topology!TopologyInv
<1>2. ASSUME NEW a \in Agent PROVE LineOf(a) \in Line
  BY DEF LineOf, Line, Loadable, Topology!TypeOK
<1>3. ASSUME NEW a \in Agent PROVE Company([b \in Agent |-> LineOf(b)], a) = Members(a)
  BY <1>1 DEF Company, Members, Topology!Members
<1>. QED  BY <1>1, <1>2, <1>3

\* Which companies a transition takes apart and which it makes: one or two
\* each, not one of both, and not the same.
LEMMA MoveShape ==
  ASSUME Loadable, NEW a \in Agent, NEW affected, Moves(a, affected)
  PROVE  \E p \in affected, q \in affected, x \in affected, y \in affected :
           /\ \A s \in affected : root[s] \in {root[p], root[q]}
           /\ \A s \in affected : root'[s] \in {root'[x], root'[y]}
           /\ root[p] # root[q] \/ root'[x] # root'[y]
           /\ \A s \in affected : Members(s) # Members(x)'
<1>1. Rows!TypeOK /\ Rows!TopologyInv /\ Rows!SessionAssumption /\ Rows!VersionAssumption
  BY SameRows, RowsAssumptions DEF Loadable
<1>2. /\ root \in [Agent -> Agent] /\ \A s \in Agent : root[root[s]] = root[s]
      /\ \A s \in Agent : Rows!Members(s) = Members(s)
      /\ \A s \in Agent : Members(s) = {u \in Agent : root[u] = root[s]}
      /\ \A s \in Agent : Members(s)' = {u \in Agent : root'[u] = root'[s]}
  BY SameRows DEF Loadable, Topology!TypeOK, Topology!TopologyInv, Members, Topology!Members
<1> DEFINE r == Rows!RemainingRoot(a)
<1>3. CASE Topology!Leave(a) /\ affected = Topology!LeaveAffected(a)
  <2>1. Rows!Leave(a)
    BY <1>3, SameRows
  <2>2. affected = Members(a)
    BY <1>3 DEF Topology!LeaveAffected, Members
  <2>3. /\ r \in Members(a) \ {a}
        /\ root' = [u \in Agent |-> IF u = a THEN a ELSE IF u \in Members(a) THEN r ELSE root[u]]
    BY <1>1, <1>2, <2>1, Rows!LeaveStep
  <2>. HIDE DEF r
  <2>4. a \in affected /\ r \in affected /\ r # a /\ r \in Agent
    BY <1>2, <2>2, <2>3
  <2>5. root'[a] = a /\ root'[r] = r /\ \A s \in affected : root'[s] \in {a, r}
    BY <1>2, <2>2, <2>3, <2>4
  <2>6. \A s \in affected : root[s] = root[a] /\ r \in Members(s)
    BY <1>2, <2>2, <2>4
  <2>7. r \notin Members(a)'
    BY <1>2, <2>4, <2>5
  <2>8. \A s \in affected : Members(s) # Members(a)'
    BY <2>6, <2>7
  <2>. QED  BY <2>4, <2>5, <2>6, <2>8
<1>4. ASSUME NEW t \in Agent, Topology!Join(a, t), affected = Topology!JoinAffected(a, t)
      PROVE  \E p \in affected, q \in affected, x \in affected, y \in affected :
               /\ \A s \in affected : root[s] \in {root[p], root[q]}
               /\ \A s \in affected : root'[s] \in {root'[x], root'[y]}
               /\ root[p] # root[q] \/ root'[x] # root'[y]
               /\ \A s \in affected : Members(s) # Members(x)'
  <2>1. Rows!Join(a, t)
    BY <1>4, SameRows
  <2>2. affected = Members(a) \cup Members(t)
    BY <1>4 DEF Topology!JoinAffected, Members
  <2>3. /\ root[a] # root[t]
        /\ Members(a) # {a} => r \in Members(a) \ {a}
        /\ root' = [u \in Agent |-> IF u = a \/ u \in Members(t) THEN root[t]
                                    ELSE IF u \in Members(a) THEN r ELSE root[u]]
    BY <1>1, <1>2, <1>4, <2>1, Rows!JoinStep DEF Rows!CanJoin
  <2>. HIDE DEF r
  <2>4. a \in affected /\ t \in affected /\ a \in Members(a) /\ t \in Members(t)
    BY <1>2, <2>2
  <2>5. \A s \in affected : root[s] \in {root[a], root[t]}
    BY <1>2, <2>2
  <2>6. root'[a] = root[t] /\ root'[t] = root[t]
    BY <2>3, <2>4
  <2>7. a \in Members(t)' /\ t \in Members(t)'
    BY <1>2, <2>6
  <2>8. \A s \in affected : ~(a \in Members(s) /\ t \in Members(s))
    BY <1>2, <2>2, <2>3
  <2>9. \A s \in affected : Members(s) # Members(t)'
    BY <2>7, <2>8
  <2>10. PICK y \in affected : \A s \in affected : root'[s] \in {root'[t], root'[y]}
    <3>1. CASE Members(a) = {a}
      <4>1. \A s \in affected : root'[s] = root'[t]
        BY <1>2, <2>2, <2>3, <2>6, <3>1
      <4>. QED  BY <2>4, <4>1
    <3>2. CASE Members(a) # {a}
      <4>1. r \in affected /\ r \in Members(a) /\ r # a /\ r \notin Members(t)
        BY <1>2, <2>2, <2>3, <3>2
      <4>2. root'[r] = r
        BY <1>2, <2>3, <4>1
      <4>3. \A s \in affected : root'[s] \in {root'[t], root'[r]}
        BY <1>2, <2>2, <2>3, <2>6, <4>2
      <4>. QED  BY <4>1, <4>3
    <3>. QED  BY <3>1, <3>2
  <2>11. /\ \A s \in affected : root[s] \in {root[a], root[t]}
         /\ \A s \in affected : root'[s] \in {root'[t], root'[y]}
         /\ root[a] # root[t] \/ root'[t] # root'[y]
         /\ \A s \in affected : Members(s) # Members(t)'
    BY <2>3, <2>5, <2>9, <2>10
  <2>. QED  BY <2>4, <2>11
<1>. QED  BY <1>3, <1>4 DEF Moves

-----------------------------------------------------------------------------
(* What an outcome writes.                                                 *)

\* An entry on the line of d's character.
TellsStory(d) ==
  /\ UNCHANGED <<root, topo>> /\ version' = version + 1
  /\ \E kind \in {"behavior", "dialogue"} : \E channel \in Channel \cup {"none"} :
     \E to \in SUBSET Agent : \E reply \in {0} \cup DOMAIN entries :
       /\ AppendEntry(LineEntry(d.agent, kind, channel, to, reply))
       /\ IF channel = "whisper"
            THEN \E t \in Members(d.agent) \ {d.agent} : to = {d.agent, t}
            ELSE to = Members(d.agent)

\* The entry of a transition, by the new roots.
MovesStory(d) ==
  \E affected :
    /\ Moves(d.agent, affected)
    /\ AppendEntry(TransitionEntry(d.agent, affected, root'))

\* A dialogue tells the story.
LEMMA DialogueTells ==
  ASSUME Sound, NEW d \in active, NEW t, NEW channel \in Channel,
         NEW reply \in {0} \cup DOMAIN entries, Dialogue(d, t, channel, reply)
  PROVE  TellsStory(d)
<1> DEFINE to == Audience(d.agent, t, channel)
<1>1. /\ UNCHANGED <<root, topo>> /\ version' = version + 1
      /\ AppendEntry(LineEntry(d.agent, "dialogue", channel, to, reply))
      /\ t \in Members(d.agent) \ {d.agent}
  BY DEF Dialogue, Topology!OtherEntry
<1>2. d.agent \in Agent /\ d.agent \in Members(d.agent) /\ Members(d.agent) \subseteq Agent
  BY ActiveTyped
<1>3. IF channel = "whisper" THEN to = {d.agent, t} ELSE to = Members(d.agent)
  BY DEF Audience, Channel
<1>4. to \in SUBSET Agent
  BY <1>1, <1>2 DEF Audience
<1>5. /\ AppendEntry(LineEntry(d.agent, "dialogue", channel, to, reply))
      /\ IF channel = "whisper"
           THEN \E s \in Members(d.agent) \ {d.agent} : to = {d.agent, s}
           ELSE to = Members(d.agent)
  BY <1>1, <1>3
<1>. HIDE DEF to
<1>. QED  BY <1>1, <1>4, <1>5 DEF TellsStory

\* A transition tells it by the roots that it writes.
LEMMA TransitionMoves ==
  ASSUME Sound, NEW d \in active, NEW affected, NEW rootOf,
         Transition(d, affected, rootOf), Moves(d.agent, affected)
  PROVE  MovesStory(d)
<1>1. affected \subseteq Agent /\ d.agent \in affected
  BY ActiveTyped, MoveRows DEF Sound
<1>2. \A s \in affected : root'[s] = rootOf[s]
  BY <1>1 DEF Transition, Topology!ApplyTransition
<1>3. {[line    |-> <<rootOf[s], version + 1>>,
        members |-> {u \in affected : rootOf[u] = rootOf[s]}] : s \in affected}
        = {[line    |-> <<root'[s], version + 1>>,
            members |-> {u \in affected : root'[u] = root'[s]}] : s \in affected}
  <2>1. \A s \in affected : {u \in affected : rootOf[u] = rootOf[s]}
                            = {u \in affected : root'[u] = root'[s]}
    BY <1>2
  <2>. QED  BY <1>2, <2>1
<1>4. TransitionEntry(d.agent, affected, rootOf) = TransitionEntry(d.agent, affected, root')
  BY <1>1, <1>2, <1>3 DEF TransitionEntry
<1>. QED  BY <1>4 DEF Transition, MovesStory

\* Every step leaves lines and entries alone or does one of these.
LEMMA StorySteps ==
  ASSUME WorldInv, [Next]_vars
  PROVE  \/ UNCHANGED <<root, topo, version, entries>>
         \/ \E d \in active : TellsStory(d) \/ MovesStory(d)
<1>0. Sound
  BY DEF WorldInv
<1>1. CASE \/ \E n \in Quota : Resume(n)
           \/ Pause
           \/ Claim
           \/ \E d \in active : Fail(d)
           \/ UNCHANGED vars
  BY <1>1 DEF Resume, Pause, Claim, Fail, Unscheduled, vars, topology
<1>2. ASSUME NEW d \in active, Decline(d) PROVE UNCHANGED <<root, topo, version, entries>>
  BY <1>2 DEF Decline, topology
<1>3. ASSUME NEW d \in active, Behave(d) PROVE TellsStory(d)
  <2>1. /\ UNCHANGED <<root, topo>> /\ version' = version + 1
        /\ AppendEntry(LineEntry(d.agent, "behavior", "none", Members(d.agent), 0))
    BY <1>3 DEF Behave, Topology!OtherEntry
  <2>2. Members(d.agent) \in SUBSET Agent
    BY <1>0, ActiveTyped
  <2>. QED  BY <2>1, <2>2 DEF TellsStory
<1>4. ASSUME NEW d \in active, NEW t \in Agent, NEW channel \in Channel,
             Utter(d, t, channel) \/ Ask(d, t, channel)
      PROVE  TellsStory(d)
  BY <1>0, <1>4, DialogueTells DEF Utter, Ask
<1>5. ASSUME NEW d \in active, NEW r \in Pending, Respond(d, r) PROVE TellsStory(d)
  <2>1. r \in {0} \cup DOMAIN entries /\ entries[r].channel \in Channel
    BY DEF Pending, WorldInv, Sound, TypeOK, AsksAreSpoken
  <2>2. Dialogue(d, requests[r].from, entries[r].channel, r)
    BY <1>5 DEF Respond
  <2>. QED  BY <1>0, <2>1, <2>2, DialogueTells
<1>6. ASSUME NEW d \in active, Leave(d) PROVE MovesStory(d)
  <2>1. /\ Topology!Leave(d.agent)
        /\ Transition(d, Topology!LeaveAffected(d.agent), Topology!LeavePartition(d.agent).rootOf)
    BY <1>6 DEF Leave, Topology!Leave, Transition
  <2>2. Moves(d.agent, Topology!LeaveAffected(d.agent))
    BY <2>1 DEF Moves
  <2>. QED  BY <1>0, <2>1, <2>2, TransitionMoves
<1>7. ASSUME NEW d \in active, NEW t \in Agent, Join(d, t) PROVE MovesStory(d)
  <2>1. /\ Topology!Join(d.agent, t)
        /\ Transition(d, Topology!JoinAffected(d.agent, t), Topology!JoinPartition(d.agent, t).rootOf)
    BY <1>7 DEF Join, Topology!Join, Transition
  <2>2. Moves(d.agent, Topology!JoinAffected(d.agent, t))
    BY <2>1 DEF Moves
  <2>. QED  BY <1>0, <2>1, <2>2, TransitionMoves
<1>. QED  BY <1>1, <1>2, <1>3, <1>4, <1>5, <1>6, <1>7 DEF Next, Commit

-----------------------------------------------------------------------------
(* The chronicle goes on.                                                  *)

\* h, and then the lines after this step.
Continues(g, h) ==
  g = [v \in 1..(version + 1) |-> IF v = version + 1 THEN [a \in Agent |-> LineOf(a)'] ELSE h[v]]

\* A step that gives some characters lines of its own version, and leaves the
\* others and their companies alone, adds a version to the history.
LEMMA HistoryGoesOn ==
  ASSUME Sound, Loadable', version' = version + 1,
         NEW h, IsHistory(h), LinesAge(h), CompaniesLast(h),
         NEW g, Continues(g, h),
         NEW moved, moved \subseteq Agent,
         \A a \in moved : topo'[a] = version + 1,
         \A a \in Agent \ moved : LineOf(a)' = LineOf(a) /\ Members(a)' = Members(a)
  PROVE  /\ IsHistory(g)' /\ LinesAge(g)' /\ CompaniesLast(g)'
         /\ \A v \in 1..version : g[v] = h[v]
         /\ g[version] = [a \in Agent |-> LineOf(a)]
         /\ g[version + 1] = [a \in Agent |-> LineOf(a)']
         /\ \A a \in Agent : /\ Company(g[version], a) = Members(a)
                             /\ Company(g[version + 1], a) = Members(a)'
<1>1. /\ version \in Nat /\ version >= 1 /\ Loadable
      /\ 1..(version + 1) = 1..version \cup {version + 1} /\ version + 1 \notin 1..version
      /\ version \in 1..version /\ version + 1 \in Nat
  BY Versions DEF Sound
<1>2. /\ \A v \in 1..version : g[v] = h[v]
      /\ g[version + 1] = [a \in Agent |-> LineOf(a)']
      /\ g = [v \in 1..(version + 1) |-> g[v]]
  BY <1>1 DEF Continues
<1>3. /\ g[version] = [a \in Agent |-> LineOf(a)]
      /\ \A v \in 1..version : g[v] \in [Agent -> Line]
  BY <1>1, <1>2 DEF IsHistory
<1>4. /\ \A a \in Agent : Company(g[version], a) = Members(a)
      /\ \A a \in Agent : LineOf(a) \in Line
  BY <1>1, <1>3, LineIsCompany
<1>5. ASSUME NEW a \in Agent
      PROVE  /\ Company(g[version + 1], a) = Members(a)'
             /\ LineOf(a)' \in Line
  <2>1. \A b \in Agent : LineOf(b)' = LineOf(a)' <=> root'[b] = root'[a]
    BY DEF LineOf, Loadable, Topology!TopologyInv
  <2>2. Company(g[version + 1], a) = Members(a)'
    BY <1>2, <2>1 DEF Company, Members, Topology!Members
  <2>3. LineOf(a)' \in Line
    BY DEF LineOf, Line, Loadable, Topology!TypeOK
  <2>. QED  BY <2>2, <2>3
<1>6. g[version + 1] \in [Agent -> Line]
  BY <1>2, <1>5
<1>7. IsHistory(g)'
  BY <1>1, <1>2, <1>3, <1>6 DEF IsHistory
<1>8. \A a \in Agent : \A v \in 1..version : g[v][a][2] \in Nat /\ g[v][a][2] <= v
  BY <1>2, <1>3 DEF LinesAge, Line
<1>9. ASSUME NEW a \in Agent
      PROVE  /\ g[version + 1][a][2] \in Nat /\ g[version + 1][a][2] <= version + 1
             /\ \A v \in 1..version : g[v][a][2] <= g[version + 1][a][2]
  <2>0. g[version + 1][a] = LineOf(a)' /\ LineOf(a)'[2] = topo'[a] /\ topo'[a] \in Nat
    BY <1>2 DEF LineOf, Loadable, Topology!TypeOK
  <2>1. CASE a \in moved
    <3>1. g[version + 1][a][2] = version + 1
      BY <2>0, <2>1
    <3>2. \A v \in 1..version : g[v][a][2] \in Nat /\ g[v][a][2] <= v
      BY <1>8
    <3>. QED  BY <1>1, <3>1, <3>2
  <2>2. CASE a \notin moved
    <3>1. g[version + 1][a] = g[version][a]
      BY <1>3, <2>0, <2>2
    <3>2. \A v \in 1..version : g[v][a][2] <= g[version][a][2]
      BY <1>1, <1>2 DEF LinesAge
    <3>3. g[version][a][2] \in Nat /\ g[version][a][2] <= version
      BY <1>1, <1>8
    <3>. QED  BY <1>1, <3>1, <3>2, <3>3
  <2>. QED  BY <2>1, <2>2
<1>10. LinesAge(g)'
  <2> SUFFICES ASSUME NEW a \in Agent, NEW w \in 1..(version + 1)
               PROVE  g[w][a][2] <= w /\ \A v \in 1..w : g[v][a][2] <= g[w][a][2]
    BY DEF LinesAge
  <2>1. CASE w \in 1..version
    <3>1. \A v \in 1..w : v \in 1..version
      BY <1>1, <2>1
    <3>. QED  BY <1>2, <2>1, <3>1 DEF LinesAge
  <2>2. CASE w = version + 1
    BY <1>1, <1>9, <2>2
  <2>. QED  BY <1>1, <2>1, <2>2
<1>11. \A v, w \in 1..version : \A a, b \in Agent :
         g[v][a] = g[w][b] => Company(g[v], a) = Company(g[w], b)
  BY <1>2 DEF CompaniesLast
<1>12. ASSUME NEW w \in 1..version, NEW a \in Agent, NEW b \in Agent,
              g[version + 1][a] = g[w][b]
       PROVE  Company(g[version + 1], a) = Company(g[w], b)
  <2>1. a \notin moved
    <3>1. g[w][b][2] \in Nat /\ g[w][b][2] <= w
      BY <1>8
    <3>2. g[version + 1][a] = LineOf(a)' /\ LineOf(a)'[2] = topo'[a]
      BY <1>2 DEF LineOf
    <3>. QED  BY <1>1, <1>12, <3>1, <3>2
  <2>2. g[version][a] = g[w][b]
    BY <1>2, <1>3, <1>12, <2>1
  <2>3. Company(g[version], a) = Company(g[w], b)
    BY <1>1, <1>11, <2>2
  <2>. QED  BY <1>4, <1>5, <2>1, <2>3
<1>13. CompaniesLast(g)'
  <2> SUFFICES ASSUME NEW v \in 1..(version + 1), NEW w \in 1..(version + 1),
                      NEW a \in Agent, NEW b \in Agent, g[v][a] = g[w][b]
               PROVE  Company(g[v], a) = Company(g[w], b)
    BY DEF CompaniesLast
  <2>1. CASE v \in 1..version /\ w \in 1..version
    BY <1>11, <2>1
  <2>2. CASE v = version + 1 /\ w \in 1..version
    BY <1>12, <2>2
  <2>3. CASE v \in 1..version /\ w = version + 1
    BY <1>12, <2>3
  <2>4. CASE v = version + 1 /\ w = version + 1
    BY <2>4 DEF Company
  <2>. QED  BY <1>1, <2>1, <2>2, <2>3, <2>4
<1>. QED  BY <1>2, <1>3, <1>4, <1>5, <1>7, <1>10, <1>13

\* The earlier entries tell what they told.
LEMMA EntriesGoOn ==
  ASSUME Sound, version' = version + 1, NEW e, AppendEntry(e),
         NEW h, EntriesTell(h), NEW g, \A v \in 1..version : g[v] = h[v],
         IF e.kind = "transition"
           THEN MovesLines(e, version + 1, g[version], g[version + 1])
           ELSE g[version + 1] = g[version] /\ ToldOnLine(e, g[version + 1])
  PROVE  EntriesTell(g)'
<1>1. /\ DOMAIN entries' = DOMAIN entries \cup {version + 1}
      /\ entries'[version + 1] = e
      /\ \A v \in DOMAIN entries : entries'[v] = entries[v]
  BY Appended
<1>2. \A v \in DOMAIN entries : v \in 1..version /\ v - 1 \in 1..version
  BY Versions
<1>3. version \in Nat /\ (version + 1) - 1 = version
  BY Versions
<1> SUFFICES ASSUME NEW v \in DOMAIN entries'
             PROVE  IF entries'[v].kind = "transition"
                      THEN MovesLines(entries'[v], v, g[v - 1], g[v])
                      ELSE g[v] = g[v - 1] /\ ToldOnLine(entries'[v], g[v])
  BY DEF EntriesTell, IsTransition
<1>4. CASE v \in DOMAIN entries
  <2>1. entries'[v] = entries[v] /\ g[v] = h[v] /\ g[v - 1] = h[v - 1]
    BY <1>1, <1>2, <1>4
  <2>. QED  BY <1>4, <2>1 DEF EntriesTell, IsTransition
<1>5. CASE v = version + 1
  BY <1>1, <1>3, <1>5
<1>. QED  BY <1>1, <1>4, <1>5

\* Links to rows that exist lead back.
LEMMA LinksGoOn ==
  ASSUME Sound, version' = version + 1, LinksBack, NEW e, AppendEntry(e),
         e.previous \subseteq DOMAIN entries, e.reply \in {0} \cup DOMAIN entries
  PROVE  LinksBack'
<1>1. /\ DOMAIN entries' = DOMAIN entries \cup {version + 1}
      /\ entries'[version + 1] = e
      /\ \A v \in DOMAIN entries : entries'[v] = entries[v]
  BY Appended
<1>2. \A w \in DOMAIN entries : w < version + 1
  BY Versions
<1> SUFFICES ASSUME NEW v \in DOMAIN entries'
             PROVE  entries'[v].previous \cup ({entries'[v].reply} \ {0})
                      \subseteq {w \in DOMAIN entries' : w < v}
  BY DEF LinksBack
<1>3. CASE v \in DOMAIN entries
  <2>1. entries[v].previous \cup ({entries[v].reply} \ {0}) \subseteq {w \in DOMAIN entries : w < v}
    BY <1>3 DEF LinksBack
  <2>2. {w \in DOMAIN entries : w < v} \subseteq {w \in DOMAIN entries' : w < v}
    BY <1>1
  <2>. QED  BY <1>1, <1>3, <2>1, <2>2
<1>4. CASE v = version + 1
  <2>1. DOMAIN entries \subseteq {w \in DOMAIN entries' : w < version + 1}
    BY <1>1, <1>2
  <2>2. entries'[v] = e
    BY <1>1, <1>4
  <2>. QED  BY <1>4, <2>1, <2>2
<1>. QED  BY <1>1, <1>3, <1>4

\* What a line has as its frontier are entries.
LEMMA FrontierRows == \A line : FrontierOf(line) \subseteq DOMAIN entries
  BY DEF FrontierOf, Latest

\* A told entry goes on with it.
LEMMA TellingGoesOn ==
  ASSUME Sound, Loadable', LinksBack, NEW h, Chronicle(h), NEW d \in active, TellsStory(d)
  PROVE  LinksBack' /\ \E g : Continues(g, h) /\ Chronicle(g)'
<1>1. /\ UNCHANGED <<root, topo>> /\ version' = version + 1
      /\ d.agent \in Agent /\ d.agent \in Members(d.agent)
  BY ActiveTyped DEF TellsStory
<1>2. PICK kind \in {"behavior", "dialogue"}, channel \in Channel \cup {"none"},
           to \in SUBSET Agent, reply \in {0} \cup DOMAIN entries :
             /\ AppendEntry(LineEntry(d.agent, kind, channel, to, reply))
             /\ IF channel = "whisper"
                  THEN \E t \in Members(d.agent) \ {d.agent} : to = {d.agent, t}
                  ELSE to = Members(d.agent)
  BY DEF TellsStory
<1> DEFINE e == LineEntry(d.agent, kind, channel, to, reply)
<1>3. /\ e.kind # "transition" /\ e.actor = d.agent /\ e.line = LineOf(d.agent)
      /\ e.channel = channel /\ e.to = to /\ e.reply = reply
      /\ e.previous = FrontierOf(LineOf(d.agent))
  BY DEF LineEntry
<1>4. AppendEntry(e)
  BY <1>2
<1>. HIDE DEF e
<1>5. PICK g : Continues(g, h)
  BY DEF Continues
<1>6. \A a \in Agent : LineOf(a)' = LineOf(a) /\ Members(a)' = Members(a)
  BY <1>1 DEF LineOf, Members, Topology!Members
<1>7. /\ IsHistory(g)' /\ LinesAge(g)' /\ CompaniesLast(g)'
      /\ \A v \in 1..version : g[v] = h[v]
      /\ g[version] = [a \in Agent |-> LineOf(a)]
      /\ g[version + 1] = [a \in Agent |-> LineOf(a)']
      /\ \A a \in Agent : /\ Company(g[version], a) = Members(a)
                          /\ Company(g[version + 1], a) = Members(a)'
  <2>1. PICK moved : moved = {}
    OBVIOUS
  <2>2. /\ moved \subseteq Agent /\ \A a \in moved : topo'[a] = version + 1
        /\ \A a \in Agent \ moved : LineOf(a)' = LineOf(a) /\ Members(a)' = Members(a)
    BY <1>6, <2>1
  <2>3. IsHistory(h) /\ LinesAge(h) /\ CompaniesLast(h)
    BY DEF Chronicle
  <2>. QED  BY <1>1, <1>5, <2>2, <2>3, HistoryGoesOn
<1>8. g[version + 1] = g[version]
  BY <1>6, <1>7
<1>9. ToldOnLine(e, g[version + 1])
  <2>1. Company(g[version + 1], e.actor) = Members(d.agent)
    BY <1>1, <1>3, <1>6, <1>7
  <2>2. e.line = g[version + 1][e.actor]
    BY <1>1, <1>3, <1>6, <1>7
  <2>3. CASE channel = "whisper"
    <3>1. PICK t \in Members(d.agent) \ {d.agent} : to = {d.agent, t}
      BY <1>2, <2>3
    <3>2. Cardinality(to) = 2
      BY <3>1, PairCount
    <3>. QED  BY <1>1, <1>3, <2>1, <2>2, <2>3, <3>1, <3>2 DEF ToldOnLine
  <2>4. CASE channel # "whisper"
    <3>1. to = Members(d.agent)
      BY <1>2, <2>4
    <3>. QED  BY <1>1, <1>3, <2>1, <2>2, <2>4, <3>1 DEF ToldOnLine
  <2>. QED  BY <2>3, <2>4
<1>10. EntriesTell(g)'
  BY <1>1, <1>3, <1>4, <1>7, <1>8, <1>9, EntriesGoOn DEF Chronicle
<1>11. LinksBack'
  BY <1>1, <1>3, <1>4, FrontierRows, LinksGoOn
<1>. QED  BY <1>5, <1>7, <1>10, <1>11 DEF Chronicle

\* The parts of a transition are the companies before and after it.
LEMMA MoveTold ==
  ASSUME Sound, NEW a \in Agent, NEW affected, Moves(a, affected), NEW f, NEW g,
         f = [u \in Agent |-> LineOf(u)], g = [u \in Agent |-> LineOf(u)'],
         \A u \in Agent : Company(f, u) = Members(u) /\ Company(g, u) = Members(u)'
  PROVE  MovesLines(TransitionEntry(a, affected, root'), version + 1, f, g)
<1> DEFINE e == TransitionEntry(a, affected, root')
<1>1. /\ Loadable /\ Loadable' /\ affected \subseteq Agent /\ a \in affected
      /\ \A u \in affected : Members(u) \subseteq affected /\ topo'[u] = version + 1
      /\ \A u \in affected : Members(u)' \subseteq affected
      /\ \A u \in Agent \ affected : root'[u] = root[u] /\ topo'[u] = topo[u]
  BY MoveRows DEF Sound
<1>2. \A u \in affected : /\ f[u] = LineOf(u) /\ g[u] = LineOf(u)'
                          /\ LineOf(u)' = <<root'[u], version + 1>>
  BY <1>1 DEF LineOf
<1>3. \A u \in affected : {w \in affected : root'[w] = root'[u]} = Members(u)'
  BY <1>1 DEF Members, Topology!Members
<1>4. {[line |-> LineOf(s), members |-> Members(s)] : s \in affected}
        = {LinePart(f, s) : s \in affected}
  <2>1. \A s \in affected : LinePart(f, s) = [line |-> LineOf(s), members |-> Members(s)]
    BY <1>1, <1>2 DEF LinePart
  <2>. QED  BY <2>1
<1>5. {[line    |-> <<root'[s], version + 1>>,
        members |-> {w \in affected : root'[w] = root'[s]}] : s \in affected}
        = {LinePart(g, s) : s \in affected}
  <2>1. \A s \in affected : LinePart(g, s) = [line |-> <<root'[s], version + 1>>,
                                            members |-> {w \in affected : root'[w] = root'[s]}]
    BY <1>1, <1>2, <1>3 DEF LinePart
  <2>. QED  BY <2>1
<1>6. /\ e.actor = a /\ e.line = g[a] /\ e.to = affected
      /\ e.before = {LinePart(f, s) : s \in affected}
      /\ e.after = {LinePart(g, s) : s \in affected}
  <2>1. /\ e.actor = a /\ e.line = <<root'[a], version + 1>> /\ e.to = affected
        /\ e.before = {[line |-> LineOf(s), members |-> Members(s)] : s \in affected}
        /\ e.after = {[line    |-> <<root'[s], version + 1>>,
                       members |-> {w \in affected : root'[w] = root'[s]}] : s \in affected}
    BY DEF TransitionEntry
  <2>. HIDE DEF e
  <2>. QED  BY <1>1, <1>2, <1>4, <1>5, <2>1
<1>. HIDE DEF e
<1>7. \A s \in affected : /\ Company(f, s) \subseteq affected
                          /\ Company(g, s) \subseteq affected
                          /\ g[s][2] = version + 1
  <2> SUFFICES ASSUME NEW s \in affected
               PROVE  /\ Company(f, s) \subseteq affected
                      /\ Company(g, s) \subseteq affected
                      /\ g[s][2] = version + 1
    OBVIOUS
  <2>1. Company(f, s) = Members(s) /\ Company(g, s) = Members(s)'
    BY <1>1
  <2>2. g[s] = <<root'[s], version + 1>>
    BY <1>2
  <2>. QED  BY <1>1, <2>1, <2>2
<1>8. \A s \in Agent \ affected : g[s] = f[s]
  BY <1>1 DEF LineOf
<1>9. PICK p \in affected, q \in affected, x \in affected, y \in affected :
        /\ \A s \in affected : root[s] \in {root[p], root[q]}
        /\ \A s \in affected : root'[s] \in {root'[x], root'[y]}
        /\ root[p] # root[q] \/ root'[x] # root'[y]
        /\ \A s \in affected : Members(s) # Members(x)'
  BY <1>1, MoveShape DEF Members, Topology!Members
<1>10. \A s, t \in affected : /\ LinePart(f, s) = LinePart(f, t) <=> root[s] = root[t]
                              /\ LinePart(g, s) = LinePart(g, t) <=> root'[s] = root'[t]
  <2> SUFFICES ASSUME NEW s \in affected, NEW t \in affected
               PROVE  /\ LinePart(f, s) = LinePart(f, t) <=> root[s] = root[t]
                      /\ LinePart(g, s) = LinePart(g, t) <=> root'[s] = root'[t]
    OBVIOUS
  <2>1. /\ f[s] = f[t] <=> root[s] = root[t]
        /\ g[s] = g[t] <=> root'[s] = root'[t]
    BY <1>1, <1>2, LineIsCompany
  <2>2. /\ f[s] = f[t] => Company(f, s) = Company(f, t)
        /\ g[s] = g[t] => Company(g, s) = Company(g, t)
    BY DEF Company
  <2>. QED  BY <2>1, <2>2 DEF LinePart
<1>11. /\ e.before = {LinePart(f, p), LinePart(f, q)}
       /\ e.after = {LinePart(g, x), LinePart(g, y)}
  <2>1. \A s \in affected : LinePart(f, s) \in {LinePart(f, p), LinePart(f, q)}
    BY <1>9, <1>10
  <2>2. \A s \in affected : LinePart(g, s) \in {LinePart(g, x), LinePart(g, y)}
    BY <1>9, <1>10
  <2>. QED  BY <1>6, <2>1, <2>2
<1>12. /\ Cardinality(e.before) = IF root[p] = root[q] THEN 1 ELSE 2
       /\ Cardinality(e.after) = IF root'[x] = root'[y] THEN 1 ELSE 2
  <2>1. Cardinality({LinePart(f, p), LinePart(f, q)}) = IF LinePart(f, p) = LinePart(f, q) THEN 1 ELSE 2
    BY PairCount
  <2>2. Cardinality({LinePart(g, x), LinePart(g, y)}) = IF LinePart(g, x) = LinePart(g, y) THEN 1 ELSE 2
    BY PairCount
  <2>. QED  BY <1>10, <1>11, <2>1, <2>2
<1>13. <<Cardinality(e.before), Cardinality(e.after)>> \in Shapes
  BY <1>9, <1>12 DEF Shapes
<1>14. {m.members : m \in e.before} # {m.members : m \in e.after}
  <2>1. Members(x)' \in {m.members : m \in e.after}
    <3>1. LinePart(g, x) \in e.after /\ LinePart(g, x).members = Members(x)'
      BY <1>1, <1>11 DEF LinePart
    <3>. QED  BY <3>1
  <2>2. \A m \in e.before : m.members # Members(x)'
    <3>1. \A s \in affected : LinePart(f, s).members = Members(s)
      BY <1>1 DEF LinePart
    <3>. QED  BY <1>6, <1>9, <3>1
  <2>. QED  BY <2>1, <2>2
<1>15. MovesLines(e, version + 1, f, g)
  BY <1>1, <1>6, <1>7, <1>8, <1>13, <1>14 DEF MovesLines
<1>. QED  BY <1>15 DEF e

\* A transition goes on with it.
LEMMA MovingGoesOn ==
  ASSUME Sound, LinksBack, NEW h, Chronicle(h), NEW d \in active, MovesStory(d)
  PROVE  LinksBack' /\ \E g : Continues(g, h) /\ Chronicle(g)'
<1>1. PICK affected : /\ Moves(d.agent, affected)
                      /\ AppendEntry(TransitionEntry(d.agent, affected, root'))
  BY DEF MovesStory
<1> DEFINE e == TransitionEntry(d.agent, affected, root')
<1>2. AppendEntry(e) /\ d.agent \in Agent /\ Loadable
  BY <1>1, ActiveTyped DEF Sound
<1>3. /\ Loadable' /\ version' = version + 1 /\ affected \subseteq Agent
      /\ \A u \in affected : topo'[u] = version + 1
      /\ \A u \in Agent \ affected :
           root'[u] = root[u] /\ topo'[u] = topo[u] /\ Members(u)' = Members(u)
  BY <1>1, <1>2, MoveRows
<1>4. PICK g : Continues(g, h)
  BY DEF Continues
<1>5. \A a \in Agent \ affected : LineOf(a)' = LineOf(a) /\ Members(a)' = Members(a)
  BY <1>3 DEF LineOf
<1>6. /\ IsHistory(g)' /\ LinesAge(g)' /\ CompaniesLast(g)'
      /\ \A v \in 1..version : g[v] = h[v]
      /\ g[version] = [a \in Agent |-> LineOf(a)]
      /\ g[version + 1] = [a \in Agent |-> LineOf(a)']
      /\ \A a \in Agent : /\ Company(g[version], a) = Members(a)
                          /\ Company(g[version + 1], a) = Members(a)'
  BY <1>3, <1>4, <1>5, HistoryGoesOn DEF Chronicle
<1>7. MovesLines(e, version + 1, g[version], g[version + 1])
  BY <1>1, <1>2, <1>6, MoveTold
<1>8. /\ e.kind = "transition" /\ e.reply = 0
      /\ e.previous = UNION {FrontierOf(LineOf(s)) : s \in affected}
  BY DEF TransitionEntry
<1>. HIDE DEF e
<1>9. EntriesTell(g)'
  BY <1>2, <1>3, <1>6, <1>7, <1>8, EntriesGoOn DEF Chronicle
<1>10. LinksBack'
  BY <1>2, <1>3, <1>8, FrontierRows, LinksGoOn
<1>. QED  BY <1>4, <1>6, <1>9, <1>10 DEF Chronicle

\* The story begins with the lines of the bootstrap.
LEMMA InitStory == Init => StoryInv
<1> SUFFICES ASSUME Init PROVE StoryInv
  OBVIOUS
<1>1. Sound /\ Loadable /\ version = 1 /\ topo = [s \in Agent |-> 1] /\ 1..version = {1}
  BY InitWorld DEF WorldInv, Sound, Init, Topology!Init
<1>2. DOMAIN entries = {}
  BY <1>1, Versions
<1> DEFINE h == [v \in 1..version |-> [a \in Agent |-> LineOf(a)]]
<1>3. h[1] = [a \in Agent |-> LineOf(a)]
  BY <1>1
<1>4. IsHistory(h)
  BY <1>1, <1>3, LineIsCompany DEF IsHistory
<1>5. LinesAge(h)
  <2>1. \A a \in Agent : h[1][a][2] = 1
    BY <1>1, <1>3 DEF LineOf
  <2>. HIDE DEF h
  <2>. QED  BY <1>1, <2>1 DEF LinesAge
<1>6. CompaniesLast(h)
  <2>. HIDE DEF h
  <2>. QED  BY <1>1 DEF CompaniesLast, Company
<1>7. EntriesTell(h) /\ LinksBack
  BY <1>2 DEF EntriesTell, LinksBack
<1>. QED  BY <1>4, <1>5, <1>6, <1>7 DEF StoryInv, Chronicle

\* Every step keeps the story.
LEMMA NextStory == WorldInv /\ StoryInv /\ [Next]_vars => StoryInv'
<1> SUFFICES ASSUME WorldInv, StoryInv, [Next]_vars PROVE StoryInv'
  OBVIOUS
<1>1. Sound /\ Loadable'
  BY NextWorld DEF WorldInv, Sound
<1>2. CASE UNCHANGED <<root, topo, version, entries>>
  <2>1. PICK h : Chronicle(h)
    BY DEF StoryInv
  <2>2. Chronicle(h)'
    BY <1>2, <2>1 DEF Chronicle, IsHistory, LinesAge, CompaniesLast, EntriesTell,
                      IsTransition, LineOf
  <2>3. LinksBack'
    BY <1>2 DEF StoryInv, LinksBack
  <2>. QED  BY <2>2, <2>3 DEF StoryInv
<1>3. CASE \E d \in active : TellsStory(d) \/ MovesStory(d)
  <2>1. PICK h : Chronicle(h)
    BY DEF StoryInv
  <2>. QED  BY <1>1, <1>3, <2>1, TellingGoesOn, MovingGoesOn DEF StoryInv
<1>. QED  BY <1>2, <1>3, StorySteps

\* There always is a chronicle.
THEOREM StoryAlways == Spec => [](WorldInv /\ StoryInv)
  BY InitWorld, NextWorld, InitStory, NextStory, PTL DEF Spec

-----------------------------------------------------------------------------
(* What the builder makes of it.                                           *)

\* What the chronicle says of a transition.
LEMMA TransitionTold ==
  ASSUME Sound, NEW h, Chronicle(h), NEW v \in DOMAIN entries, IsTransition(v)
  PROVE  /\ MovesLines(entries[v], v, h[v - 1], h[v]) /\ entries[v].to \subseteq Agent
         /\ v \in 1..version /\ v - 1 \in 1..version /\ v \in Nat /\ v >= 2
         /\ h[v] \in [Agent -> Line] /\ h[v - 1] \in [Agent -> Line]
<1>1. MovesLines(entries[v], v, h[v - 1], h[v])
  BY DEF Chronicle, EntriesTell
<1>2. v \in Nat /\ v >= 2 /\ v <= version /\ version \in Nat /\ entries[v].to \subseteq Agent
  BY Versions DEF Entry
<1>. QED  BY <1>1, <1>2 DEF Chronicle, IsHistory

\* Putting the before parts of a transition back gives the lines before it.
LEMMA PutBack ==
  ASSUME Sound, NEW h, Chronicle(h), NEW v \in DOMAIN entries, IsTransition(v), NEW a \in Agent
  PROVE  h[v - 1][a] = IF \E p \in entries[v].before : a \in p.members
                         THEN PartOf(entries[v].before, a).line
                         ELSE h[v][a]
<1>0. MovesLines(entries[v], v, h[v - 1], h[v])
  BY TransitionTold
<1>1. /\ entries[v].before = {LinePart(h[v - 1], s) : s \in entries[v].to}
      /\ \A s \in Agent \ entries[v].to : h[v][s] = h[v - 1][s]
  BY <1>0 DEF MovesLines
<1>2. \A p \in entries[v].before : a \in p.members => p.line = h[v - 1][a]
  BY <1>1 DEF LinePart, Company
<1>3. CASE \E p \in entries[v].before : a \in p.members
  <2>1. /\ PartOf(entries[v].before, a) \in entries[v].before
        /\ a \in PartOf(entries[v].before, a).members
    BY <1>3 DEF PartOf
  <2>. QED  BY <1>2, <1>3, <2>1
<1>4. CASE ~ \E p \in entries[v].before : a \in p.members
  <2>1. a \in LinePart(h[v - 1], a).members
    BY DEF LinePart, Company
  <2>2. a \notin entries[v].to
    BY <1>1, <1>4, <2>1
  <2>3. h[v][a] = h[v - 1][a]
    BY <1>1, <2>2
  <2>. QED  BY <1>4, <2>3
<1>. QED  BY <1>3, <1>4

\* The rewind of the builder is the chronicle.
LEMMA RewoundIs ==
  ASSUME Sound, NEW h, Chronicle(h), NEW cut \in 1..version
  PROVE  Rewound(cut) = [v \in cut..version |-> h[v]]
<1> DEFINE Row(at, v) ==
      IF v = version THEN [a \in Agent |-> LineOf(a)]
      ELSE IF ~IsTransition(v + 1) THEN at[v + 1]
      ELSE [a \in Agent |->
              IF \E p \in entries[v + 1].before : a \in p.members
                THEN PartOf(entries[v + 1].before, a).line
                ELSE at[v + 1][a]]
<1>1. /\ version \in Nat /\ cut \in Nat /\ cut >= 1
      /\ \A v \in cut..version : v \in 1..version
      /\ h[version] = [a \in Agent |-> LineOf(a)]
  BY Versions DEF Chronicle, IsHistory
<1>2. ASSUME NEW at, NEW v \in cut..version, v # version => at[v + 1] = h[v + 1]
      PROVE  Row(at, v) = h[v]
  <2>1. CASE v = version
    BY <1>1, <2>1
  <2>2. CASE v # version
    <3>1. v + 1 \in DOMAIN entries /\ (v + 1) - 1 = v
      BY <1>1, <2>2, Versions
    <3>2. at[v + 1] = h[v + 1]
      BY <1>2, <2>2
    <3>3. CASE IsTransition(v + 1)
      <4>1. h[v] = [a \in Agent |-> h[v][a]]
        BY <1>1 DEF Chronicle, IsHistory
      <4>2. \A a \in Agent : h[v][a] = IF \E p \in entries[v + 1].before : a \in p.members
                                       THEN PartOf(entries[v + 1].before, a).line
                                       ELSE h[v + 1][a]
        BY <3>1, <3>3, PutBack
      <4>. QED  BY <2>2, <3>2, <3>3, <4>1, <4>2
    <3>4. CASE ~IsTransition(v + 1)
      <4>1. h[v + 1] = h[v]
        BY <3>1, <3>4 DEF Chronicle, EntriesTell
      <4>. QED  BY <2>2, <3>2, <3>4, <4>1
    <3>. QED  BY <3>3, <3>4
  <2>. QED  BY <2>1, <2>2
<1>3. Rewound(cut) = CHOOSE at : at = [v \in cut..version |-> Row(at, v)]
  BY DEF Rewound
<1>. HIDE DEF Row
<1> DEFINE f == [v \in cut..version |-> h[v]]
<1>4. f = [v \in cut..version |-> Row(f, v)]
  <2>1. ASSUME NEW v \in cut..version PROVE Row(f, v) = h[v]
    <3>1. v # version => v + 1 \in cut..version
      BY <1>1
    <3>2. v # version => f[v + 1] = h[v + 1]
      BY <3>1
    <3>. HIDE DEF f
    <3>. QED  BY <1>2, <3>2
  <2>. QED  BY <2>1
<1>5. ASSUME NEW at, at = [v \in cut..version |-> Row(at, v)] PROVE at = f
  <2> DEFINE wrong == {v \in cut..version : at[v] # h[v]}
  <2>1. ASSUME wrong # {} PROVE FALSE
    <3>1. wrong \subseteq 0..version
      BY <1>1
    <3>2. PICK v \in wrong : \A w \in wrong : w <= v
      BY <1>1, <2>1, <3>1, GreatestNatural
    <3>3. v # version => v + 1 \in cut..version /\ ~(v + 1 <= v)
      BY <1>1
    <3>4. v # version => at[v + 1] = h[v + 1]
      BY <3>2, <3>3
    <3>5. Row(at, v) = h[v]
      BY <1>2, <3>4
    <3>6. at[v] = Row(at, v)
      BY <1>5
    <3>. QED  BY <3>5, <3>6
  <2>2. \A v \in cut..version : at[v] = h[v]
    BY <2>1
  <2>3. at = [v \in cut..version |-> at[v]]
    BY <1>5
  <2>. QED  BY <2>2, <2>3
<1>. HIDE DEF f
<1>6. (CHOOSE at : at = [v \in cut..version |-> Row(at, v)]) = f
  BY <1>4, <1>5
<1>. QED  BY <1>3, <1>6 DEF f

\* The lines at a cut are those of its version.
LEMMA FrontierIs ==
  ASSUME Sound, NEW h, Chronicle(h), NEW cut \in 1..version
  PROVE  /\ Rewound(cut)[cut] = h[cut]
         /\ Frontier(cut) = {LinePart(h[cut], a) : a \in Agent}
<1>1. Rewound(cut)[cut] = h[cut]
  <2>1. cut \in cut..version
    BY Versions
  <2>. QED  BY <2>1, RewoundIs
<1>. QED  BY <1>1 DEF Frontier, LinePart, Company

\* All lines until a cut are those of the versions until then.
LEMMA LinesUntilAre ==
  ASSUME Sound, NEW h, Chronicle(h), NEW cut \in 1..version
  PROVE  /\ \A v \in 1..cut : \A a \in Agent : LinePart(h[v], a) \in LinesUntil(cut)
         /\ \A l \in LinesUntil(cut) : \E v \in 1..cut : \E a \in Agent : l = LinePart(h[v], a)
<1>0. /\ version \in Nat /\ cut \in Nat /\ cut >= 1 /\ cut <= version
      /\ \A v \in 1..cut : v \in 1..version
  BY Versions
<1> DEFINE parts(v) == entries[v].before \cup entries[v].after
<1>1. LinesUntil(cut) = Frontier(cut) \cup UNION {parts(v) : v \in TransitionsUntil(cut)}
  BY DEF LinesUntil
<1>2. ASSUME NEW v \in TransitionsUntil(cut)
      PROVE  /\ v \in DOMAIN entries /\ IsTransition(v) /\ v \in 1..cut /\ v - 1 \in 1..cut
             /\ entries[v].before = {LinePart(h[v - 1], a) : a \in entries[v].to}
             /\ entries[v].after = {LinePart(h[v], a) : a \in entries[v].to}
             /\ entries[v].to \subseteq Agent
  <2>1. v \in DOMAIN entries /\ v <= cut /\ IsTransition(v)
    BY DEF TransitionsUntil, Until
  <2>2. MovesLines(entries[v], v, h[v - 1], h[v]) /\ entries[v].to \subseteq Agent /\ v \in Nat /\ v >= 2
    BY <2>1, TransitionTold
  <2>. QED  BY <1>0, <2>1, <2>2 DEF MovesLines
<1>. HIDE DEF parts
<1>3. ASSUME NEW l \in LinesUntil(cut)
      PROVE  \E v \in 1..cut : \E a \in Agent : l = LinePart(h[v], a)
  <2>1. CASE l \in Frontier(cut)
    <3>1. cut \in 1..cut
      BY <1>0
    <3>. QED  BY <2>1, <3>1, FrontierIs
  <2>2. ASSUME NEW v \in TransitionsUntil(cut), l \in parts(v)
        PROVE  \E w \in 1..cut : \E a \in Agent : l = LinePart(h[w], a)
    BY <1>2, <2>2 DEF parts
  <2>. QED  BY <1>1, <2>1, <2>2
<1> DEFINE missed == {v \in 1..cut : \E a \in Agent : LinePart(h[v], a) \notin LinesUntil(cut)}
<1>4. ASSUME missed # {} PROVE FALSE
  <2>1. missed \subseteq 0..cut
    BY <1>0
  <2>2. PICK v \in missed : \A w \in missed : w <= v
    BY <1>0, <1>4, <2>1, GreatestNatural
  <2>3. PICK a \in Agent : LinePart(h[v], a) \notin LinesUntil(cut)
    BY <2>2
  <2>4. v # cut
    BY <1>1, <2>3, FrontierIs
  <2>5. /\ v \in Nat /\ v + 1 \in 1..cut /\ v + 1 \notin missed /\ v + 1 \in DOMAIN entries
        /\ (v + 1) - 1 = v /\ v \in 1..version /\ v + 1 \in 1..version
    BY <1>0, <2>2, <2>4, Versions
  <2>6. LinePart(h[v + 1], a) \in LinesUntil(cut)
    BY <2>5
  <2>7. h[v + 1][a] # h[v][a]
    <3>1. h[v + 1][a] = h[v][a] => LinePart(h[v + 1], a) = LinePart(h[v], a)
      BY <2>5 DEF Chronicle, CompaniesLast, LinePart
    <3>. QED  BY <2>3, <2>6, <3>1
  <2>8. IsTransition(v + 1)
    <3>1. ~IsTransition(v + 1) => h[v + 1] = h[v]
      BY <2>5 DEF Chronicle, EntriesTell
    <3>. QED  BY <2>7, <3>1
  <2>9. MovesLines(entries[v + 1], v + 1, h[v], h[v + 1])
    BY <2>5, <2>8 DEF Chronicle, EntriesTell
  <2>10. a \in entries[v + 1].to
    BY <2>7, <2>9 DEF MovesLines
  <2>11. v + 1 \in TransitionsUntil(cut)
    BY <1>0, <2>5, <2>8 DEF TransitionsUntil, Until
  <2>12. LinePart(h[v], a) \in entries[v + 1].before
    BY <2>9, <2>10 DEF MovesLines
  <2>13. LinePart(h[v], a) \in parts(v + 1)
    BY <2>12 DEF parts
  <2>. QED  BY <1>1, <2>3, <2>11, <2>13
<1>. QED  BY <1>3, <1>4

\* Parent and child are the lines of one character before and after a
\* transition that affects it.
LEMMA LineageIs ==
  ASSUME Sound, NEW h, Chronicle(h), NEW cut \in 1..version
  PROVE  /\ \A edge \in Lineage(cut) : \E v \in TransitionsUntil(cut) : \E a \in entries[v].to :
              edge = <<h[v - 1][a], h[v][a]>>
         /\ \A v \in TransitionsUntil(cut) : \A a \in entries[v].to :
              <<h[v - 1][a], h[v][a]>> \in Lineage(cut)
<1> DEFINE edges(v) == {<<pair[1].line, pair[2].line>> : pair \in Shared(v)}
<1>1. Lineage(cut) = UNION {edges(v) : v \in TransitionsUntil(cut)}
  BY DEF Lineage
<1>2. ASSUME NEW v \in TransitionsUntil(cut)
      PROVE  /\ \A edge \in edges(v) : \E a \in entries[v].to : edge = <<h[v - 1][a], h[v][a]>>
             /\ \A a \in entries[v].to : <<h[v - 1][a], h[v][a]>> \in edges(v)
  <2>1. v \in DOMAIN entries /\ IsTransition(v)
    BY DEF TransitionsUntil, Until
  <2>2. /\ entries[v].before = {LinePart(h[v - 1], a) : a \in entries[v].to}
        /\ entries[v].after = {LinePart(h[v], a) : a \in entries[v].to}
        /\ entries[v].to \subseteq Agent
        /\ \A a \in entries[v].to : Company(h[v - 1], a) \subseteq entries[v].to
    <3>1. MovesLines(entries[v], v, h[v - 1], h[v]) /\ entries[v].to \subseteq Agent
      BY <2>1, TransitionTold
    <3>. QED  BY <3>1 DEF MovesLines
  <2>3. ASSUME NEW edge \in edges(v)
        PROVE  \E a \in entries[v].to : edge = <<h[v - 1][a], h[v][a]>>
    <3>1. PICK pair \in Shared(v) : edge = <<pair[1].line, pair[2].line>>
      OBVIOUS
    <3>2. /\ pair \in entries[v].before \X entries[v].after
          /\ pair[1].members \cap pair[2].members # {}
      BY DEF Shared
    <3>3. PICK b \in entries[v].to, c \in entries[v].to :
            pair[1] = LinePart(h[v - 1], b) /\ pair[2] = LinePart(h[v], c)
      BY <2>2, <3>2
    <3>4. PICK a \in Company(h[v - 1], b) : a \in Company(h[v], c)
      BY <3>2, <3>3 DEF LinePart
    <3>5. a \in entries[v].to
      BY <2>2, <3>4
    <3>6. pair[1].line = h[v - 1][a] /\ pair[2].line = h[v][a]
      BY <3>3, <3>4 DEF LinePart, Company
    <3>. QED  BY <3>1, <3>5, <3>6
  <2>4. ASSUME NEW a \in entries[v].to
        PROVE  <<h[v - 1][a], h[v][a]>> \in edges(v)
    <3> DEFINE pair == <<LinePart(h[v - 1], a), LinePart(h[v], a)>>
    <3>1. a \in pair[1].members /\ a \in pair[2].members
      BY <2>2 DEF LinePart, Company
    <3>2. pair \in entries[v].before \X entries[v].after
      BY <2>2
    <3>3. pair \in Shared(v)
      BY <3>1, <3>2 DEF Shared
    <3>4. <<pair[1].line, pair[2].line>> = <<h[v - 1][a], h[v][a]>>
      BY DEF LinePart
    <3>. HIDE DEF pair
    <3>. QED  BY <3>3, <3>4
  <2>. QED  BY <2>3, <2>4
<1>. HIDE DEF edges
<1>. QED  BY <1>1, <1>2

-----------------------------------------------------------------------------
(* The story builds.                                                       *)

\* Different lines of one version have nobody in common.
LEMMA PartsDisjoint ==
  ASSUME NEW f, NEW p, NEW q, NEW parts, NEW S,
         parts = {LinePart(f, a) : a \in S}, p \in parts, q \in parts, p # q
  PROVE  p.members \cap q.members = {}
<1>1. PICK a \in S : p = LinePart(f, a)
  OBVIOUS
<1>2. PICK b \in S : q = LinePart(f, b)
  OBVIOUS
<1>3. f[a] # f[b]
  BY <1>1, <1>2 DEF LinePart, Company
<1>. QED  BY <1>1, <1>2, <1>3 DEF LinePart, Company

\* A transition after the cut made the lines that the builder rewinds.
LEMMA RewindsMatch ==
  ASSUME Sound, NEW h, Chronicle(h), NEW cut \in 1..version
  PROVE  RewindMatches(cut)
<1> SUFFICES ASSUME NEW v \in DOMAIN entries, v > cut, IsTransition(v), NEW p \in entries[v].after
             PROVE  {a \in Agent : Rewound(cut)[v][a] = p.line} = p.members
  BY DEF RewindMatches
<1>1. v \in cut..version
  BY Versions
<1>2. Rewound(cut)[v] = h[v]
  BY <1>1, RewoundIs
<1>3. MovesLines(entries[v], v, h[v - 1], h[v])
  BY TransitionTold
<1>4. PICK s \in entries[v].to : p = LinePart(h[v], s)
  BY <1>3 DEF MovesLines
<1>. QED  BY <1>2, <1>4 DEF LinePart, Company

\* The row of a transition is valid.
LEMMA TransitionValid ==
  ASSUME Sound, NEW h, Chronicle(h), NEW cut \in 1..version,
         NEW v \in TransitionsUntil(cut)
  PROVE  ValidTransition(v, LinesUntil(cut))
<1>1. v \in DOMAIN entries /\ v <= cut /\ IsTransition(v)
  BY DEF TransitionsUntil, Until
<1>2. /\ MovesLines(entries[v], v, h[v - 1], h[v]) /\ entries[v].to \subseteq Agent
      /\ v - 1 \in 1..version /\ v \in Nat /\ v >= 2
      /\ h[v] \in [Agent -> Line] /\ h[v - 1] \in [Agent -> Line]
  BY <1>1, TransitionTold
<1> DEFINE to == entries[v].to
           before == entries[v].before
           after == entries[v].after
           actor == entries[v].actor
<1>3. /\ actor \in to /\ entries[v].line = h[v][actor]
      /\ before = {LinePart(h[v - 1], a) : a \in to}
      /\ after = {LinePart(h[v], a) : a \in to}
      /\ \A a \in to : /\ Company(h[v - 1], a) \subseteq to
                       /\ Company(h[v], a) \subseteq to
                       /\ h[v][a][2] = v
      /\ <<Cardinality(before), Cardinality(after)>> \in {<<2, 1>>, <<1, 2>>, <<2, 2>>}
      /\ {p.members : p \in before} # {p.members : p \in after}
  BY <1>2 DEF MovesLines, Shapes
<1>4. before \cup after \subseteq LinesUntil(cut)
  BY DEF LinesUntil
<1>5. \E p \in after : p.line = entries[v].line /\ actor \in p.members
  <2>1. LinePart(h[v], actor) \in after
    BY <1>3
  <2>2. LinePart(h[v], actor).line = entries[v].line /\ actor \in LinePart(h[v], actor).members
    BY <1>2, <1>3 DEF LinePart, Company
  <2>. QED  BY <2>1, <2>2
<1>6. \A p \in after : p.line[2] = v
  BY <1>3 DEF LinePart
<1>7. \A p \in before : p.line[2] < v
  <2>1. \A a \in to : h[v - 1][a][2] \in Nat /\ h[v - 1][a][2] <= v - 1
    BY <1>2 DEF Chronicle, LinesAge, Line
  <2>2. \A a \in to : h[v - 1][a][2] < v
    BY <1>2, <2>1
  <2>. QED  BY <1>3, <2>2 DEF LinePart
<1>8. to \subseteq Agent
  BY <1>2
<1>. HIDE DEF to, before, after, actor
<1>9. to = UNION {p.members : p \in before}
  <2>1. \A a \in to : LET p == LinePart(h[v - 1], a) IN a \in p.members /\ p.members \subseteq to
    BY <1>3, <1>8 DEF LinePart, Company
  <2>2. /\ \A p \in before : p.members \subseteq to
        /\ \A a \in to : \E p \in before : a \in p.members
    BY <1>3, <2>1
  <2>. QED  BY <2>2
<1>10. to = UNION {p.members : p \in after}
  <2>1. \A a \in to : LET p == LinePart(h[v], a) IN a \in p.members /\ p.members \subseteq to
    BY <1>3, <1>8 DEF LinePart, Company
  <2>2. /\ \A p \in after : p.members \subseteq to
        /\ \A a \in to : \E p \in after : a \in p.members
    BY <1>3, <2>1
  <2>. QED  BY <2>2
<1>11. \A p, q \in after : p # q => p.members \cap q.members = {}
  BY <1>3, PartsDisjoint
<1>12. \A p, q \in before : p # q => p.members \cap q.members = {}
  BY <1>3, PartsDisjoint
<1>13. /\ before \cup after \subseteq LinesUntil(cut)
       /\ \E p \in after : p.line = entries[v].line /\ actor \in p.members
       /\ \A p \in after : p.line[2] = v
       /\ \A p \in before : p.line[2] < v
       /\ \A p, q \in after : p # q => p.members \cap q.members = {}
       /\ \A p, q \in before : p # q => p.members \cap q.members = {}
       /\ to = UNION {p.members : p \in before}
       /\ to = UNION {p.members : p \in after}
       /\ <<Cardinality(before), Cardinality(after)>> \in {<<2, 1>>, <<1, 2>>, <<2, 2>>}
       /\ {p.members : p \in before} # {p.members : p \in after}
  BY <1>3, <1>4, <1>5, <1>6, <1>7, <1>9, <1>10, <1>11, <1>12
<1>. QED  BY <1>13 DEF ValidTransition, to, before, after, actor

\* Every entry is valid on the line that its version gave its actor.
LEMMA EntryValid ==
  ASSUME Sound, NEW h, Chronicle(h), NEW v \in DOMAIN entries
  PROVE  /\ entries[v].actor \in Agent
         /\ LinePart(h[v], entries[v].actor).line = entries[v].line
         /\ ValidEntry(v, LinePart(h[v], entries[v].actor).members)
<1> DEFINE actor == entries[v].actor
<1>1. v \in 1..version /\ entries[v].to \subseteq Agent /\ v \in Nat
  BY Versions DEF Entry
<1>2. \A a \in Agent : h[v][a][2] <= v
  BY <1>1 DEF Chronicle, LinesAge
<1>3. actor \in Agent => actor \in Company(h[v], actor)
  BY DEF Company
<1>4. LinePart(h[v], actor).line = h[v][actor] /\ LinePart(h[v], actor).members = Company(h[v], actor)
  BY DEF LinePart
<1>. HIDE DEF actor
<1>5. CASE IsTransition(v)
  <2>1. MovesLines(entries[v], v, h[v - 1], h[v])
    BY <1>5, TransitionTold
  <2>2. actor \in entries[v].to /\ entries[v].line = h[v][actor]
    BY <2>1 DEF MovesLines, actor
  <2>. QED  BY <1>1, <1>2, <1>3, <1>4, <1>5, <2>2 DEF ValidEntry, actor
<1>6. CASE ~IsTransition(v)
  <2>1. ToldOnLine(entries[v], h[v])
    BY <1>6 DEF Chronicle, EntriesTell
  <2>2. /\ actor \in entries[v].to /\ entries[v].line = h[v][actor]
        /\ IF entries[v].channel = "whisper"
             THEN entries[v].to \subseteq Company(h[v], actor) /\ Cardinality(entries[v].to) = 2
             ELSE entries[v].to = Company(h[v], actor)
    BY <2>1 DEF ToldOnLine, actor
  <2>. QED  BY <1>1, <1>2, <1>3, <1>4, <1>6, <2>2 DEF ValidEntry, actor
<1>. QED  BY <1>5, <1>6

\* What the builder makes at a cut passes the validation.
LEMMA StageValid ==
  ASSUME Sound, LinksBack, NEW h, Chronicle(h), NEW cut \in 1..version
  PROVE  ValidStage(cut)
<1> DEFINE lines == LinesUntil(cut)
<1>0. /\ version \in Nat /\ cut \in Nat /\ cut <= version
      /\ \A v \in 1..cut : v \in 1..version
  BY Versions
<1>1. \A k, l \in lines : k.line = l.line => k = l
  <2> SUFFICES ASSUME NEW k \in lines, NEW l \in lines, k.line = l.line PROVE k = l
    OBVIOUS
  <2>1. PICK v \in 1..cut, a \in Agent : k = LinePart(h[v], a)
    BY LinesUntilAre
  <2>2. PICK w \in 1..cut, b \in Agent : l = LinePart(h[w], b)
    BY LinesUntilAre
  <2>3. h[v][a] = h[w][b]
    BY <2>1, <2>2 DEF LinePart
  <2>4. Company(h[v], a) = Company(h[w], b)
    BY <1>0, <2>3 DEF Chronicle, CompaniesLast
  <2>. QED  BY <2>1, <2>2, <2>3, <2>4 DEF LinePart
<1>2. ASSUME NEW v \in Until(cut)
      PROVE  /\ \E l \in lines : l.line = entries[v].line /\ ValidEntry(v, l.members)
             /\ ValidLinks(v, cut)
             /\ IsTransition(v) => ValidTransition(v, lines)
  <2>1. v \in DOMAIN entries /\ v \in 1..cut /\ v <= cut /\ v \in Nat
    BY <1>0, Versions DEF Until
  <2> DEFINE l == LinePart(h[v], entries[v].actor)
  <2>2. entries[v].actor \in Agent /\ l.line = entries[v].line /\ ValidEntry(v, l.members)
    BY <2>1, EntryValid
  <2>3. l \in lines
    BY <2>1, <2>2, LinesUntilAre
  <2>4. ValidLinks(v, cut)
    <3>1. entries[v].previous \cup ({entries[v].reply} \ {0}) \subseteq {w \in DOMAIN entries : w < v}
      BY <2>1 DEF LinksBack
    <3>2. \A w \in DOMAIN entries : w < v => w <= cut
      BY <1>0, <2>1, Versions
    <3>3. {w \in DOMAIN entries : w < v} \subseteq {w \in Until(cut) : w < v}
      BY <3>2 DEF Until
    <3>. QED  BY <3>1, <3>3 DEF ValidLinks
  <2>5. IsTransition(v) => ValidTransition(v, lines)
    BY TransitionValid DEF TransitionsUntil
  <2>. HIDE DEF l, lines
  <2>. QED  BY <2>2, <2>3, <2>4, <2>5
<1>3. ASSUME NEW edge \in Lineage(cut) PROVE edge[1][2] < edge[2][2]
  <2>0. PICK v \in TransitionsUntil(cut) : \E a \in entries[v].to : edge = <<h[v - 1][a], h[v][a]>>
    BY LineageIs
  <2>1. PICK a \in entries[v].to : edge = <<h[v - 1][a], h[v][a]>>
    BY <2>0
  <2>2. v \in DOMAIN entries /\ IsTransition(v)
    BY DEF TransitionsUntil, Until
  <2>3. /\ MovesLines(entries[v], v, h[v - 1], h[v]) /\ entries[v].to \subseteq Agent
        /\ v - 1 \in 1..version /\ v \in Nat /\ h[v - 1] \in [Agent -> Line]
    BY <2>2, TransitionTold
  <2>4. h[v][a][2] = v
    BY <2>3 DEF MovesLines
  <2>5. h[v - 1][a][2] \in Nat /\ h[v - 1][a][2] <= v - 1
    BY <2>3 DEF Chronicle, LinesAge, Line
  <2>. QED  BY <2>1, <2>3, <2>4, <2>5
<1>. HIDE DEF lines
<1>4. /\ \A k, l \in lines : k.line = l.line => k = l
      /\ \A v \in Until(cut) :
           /\ \E l \in lines : l.line = entries[v].line /\ ValidEntry(v, l.members)
           /\ ValidLinks(v, cut)
           /\ IsTransition(v) => ValidTransition(v, lines)
      /\ \A edge \in Lineage(cut) : edge[1][2] < edge[2][2]
  BY <1>1, <1>2, <1>3
<1>. QED  BY <1>4 DEF ValidStage, lines

\* Whatever was committed, the builder and the validation of what it builds
\* raise nothing, now and at every earlier cut.
THEOREM StoryAlwaysBuilds == Spec => []StoryBuilds
<1>1. WorldInv /\ StoryInv => StoryBuilds
  <2> SUFFICES ASSUME WorldInv, StoryInv, NEW cut \in 1..version
               PROVE  RewindMatches(cut) /\ ValidStage(cut)
    BY DEF StoryBuilds
  <2>1. Sound /\ LinksBack
    BY DEF WorldInv, StoryInv
  <2>2. PICK h : Chronicle(h)
    BY DEF StoryInv
  <2>. QED  BY <2>1, <2>2, RewindsMatch, StageValid
<1>. QED  BY <1>1, StoryAlways, PTL

-----------------------------------------------------------------------------
(* The story does not change.                                              *)

\* Which chronicle there is says what the lines at a cut are.
FrontierTold ==
  Sound => \A h : Chronicle(h) =>
             \A cut \in 1..version : Frontier(cut) = {LinePart(h[cut], a) : a \in Agent}

\* It does, in every state.
LEMMA FrontierAlwaysTold == FrontierTold
  BY FrontierIs DEF FrontierTold

\* A step leaves the chronicle and the entries until now as they are.
LEMMA StoryGoesOn ==
  ASSUME WorldInv, StoryInv, [Next]_vars, Sound'
  PROVE  \E h, g : /\ Chronicle(h) /\ Chronicle(g)'
                   /\ \A v \in 1..version : v \in 1..version' /\ g[v] = h[v]
                   /\ \A v \in DOMAIN entries : v \in DOMAIN entries' /\ entries'[v] = entries[v]
                   /\ \A v \in DOMAIN entries' : v <= version => v \in DOMAIN entries
<1>1. Sound /\ Loadable' /\ LinksBack
  BY DEF WorldInv, StoryInv, Sound
<1>2. PICK h : Chronicle(h)
  BY DEF StoryInv
<1>3. CASE UNCHANGED <<root, topo, version, entries>>
  <2>1. Chronicle(h)'
    BY <1>2, <1>3 DEF Chronicle, IsHistory, LinesAge, CompaniesLast, EntriesTell,
                      IsTransition, LineOf
  <2>2. /\ \A v \in 1..version : v \in 1..version' /\ h[v] = h[v]
        /\ \A v \in DOMAIN entries : v \in DOMAIN entries' /\ entries'[v] = entries[v]
        /\ \A v \in DOMAIN entries' : v <= version => v \in DOMAIN entries
    BY <1>3
  <2>. QED  BY <1>2, <2>1, <2>2
<1>4. ASSUME NEW d \in active, TellsStory(d) \/ MovesStory(d)
      PROVE  \E g : /\ Chronicle(g)'
                    /\ \A v \in 1..version : v \in 1..version' /\ g[v] = h[v]
                    /\ \A v \in DOMAIN entries : v \in DOMAIN entries' /\ entries'[v] = entries[v]
                    /\ \A v \in DOMAIN entries' : v <= version => v \in DOMAIN entries
  <2>1. PICK g : Continues(g, h) /\ Chronicle(g)'
    BY <1>1, <1>2, <1>4, TellingGoesOn, MovingGoesOn
  <2>2. version' = version + 1 /\ \E e : AppendEntry(e)
    <3>1. CASE TellsStory(d)
      BY <3>1 DEF TellsStory
    <3>2. CASE MovesStory(d)
      <4>1. PICK affected : /\ Moves(d.agent, affected)
                            /\ AppendEntry(TransitionEntry(d.agent, affected, root'))
        BY <3>2 DEF MovesStory
      <4>2. version' = version + 1
        BY <1>1, <4>1, ActiveTyped, MoveRows DEF Sound
      <4>. QED  BY <4>1, <4>2
    <3>. QED  BY <1>4, <3>1, <3>2
  <2>3. PICK e : AppendEntry(e)
    BY <2>2
  <2>4. /\ DOMAIN entries' = DOMAIN entries \cup {version + 1}
        /\ \A v \in DOMAIN entries : entries'[v] = entries[v]
    BY <1>1, <2>2, <2>3, Appended
  <2>5. version \in Nat /\ ~(version + 1 <= version)
    BY <1>1, Versions
  <2>6. \A v \in 1..version : v \in 1..version' /\ g[v] = h[v]
    BY <2>1, <2>2, <2>5 DEF Continues
  <2>. QED  BY <2>1, <2>4, <2>5, <2>6
<1>. QED  BY <1>2, <1>3, <1>4, StorySteps

\* It leaves the stage at every cut.
LEMMA StageStays ==
  ASSUME WorldInv, StoryInv, [Next]_vars, Sound', FrontierTold', NEW cut \in 1..version
  PROVE  Stage(cut)' = Stage(cut)
<1>1. PICK h, g : /\ Chronicle(h) /\ Chronicle(g)'
                  /\ \A v \in 1..version : v \in 1..version' /\ g[v] = h[v]
                  /\ \A v \in DOMAIN entries : v \in DOMAIN entries' /\ entries'[v] = entries[v]
                  /\ \A v \in DOMAIN entries' : v <= version => v \in DOMAIN entries
  BY StoryGoesOn
<1>2. Sound /\ version \in Nat /\ cut \in Nat /\ cut <= version
  BY Versions DEF WorldInv
<1>3. Frontier(cut)' = Frontier(cut)
  <2>1. Frontier(cut) = {LinePart(h[cut], a) : a \in Agent}
    BY <1>1, <1>2, FrontierIs
  <2>2. Frontier(cut)' = {LinePart(g[cut], a) : a \in Agent}
    BY <1>1 DEF FrontierTold
  <2>. QED  BY <1>1, <2>1, <2>2
<1>4. Until(cut)' = Until(cut)
  <2>1. ASSUME NEW v \in DOMAIN entries', v <= cut PROVE v \in DOMAIN entries
    <3>1. v \in Int
      BY DEF Sound, TypeOK
    <3>2. v <= version
      BY <1>2, <2>1, <3>1
    <3>. QED  BY <1>1, <3>2
  <2>2. {v \in DOMAIN entries' : v <= cut} = {v \in DOMAIN entries : v <= cut}
    BY <1>1, <2>1
  <2>. QED  BY <2>2 DEF Until
<1>5. \A v \in Until(cut) : entries'[v] = entries[v]
  BY <1>1 DEF Until
<1>6. TransitionsUntil(cut)' = TransitionsUntil(cut)
  BY <1>4, <1>5 DEF TransitionsUntil, IsTransition
<1>7. \A v \in TransitionsUntil(cut) : entries'[v] = entries[v]
  BY <1>5 DEF TransitionsUntil
<1>8. LinesUntil(cut)' = LinesUntil(cut)
  BY <1>3, <1>6, <1>7 DEF LinesUntil
<1>9. Lineage(cut)' = Lineage(cut)
  <2>1. \A v \in TransitionsUntil(cut) : Shared(v)' = Shared(v)
    BY <1>7 DEF Shared
  <2>. QED  BY <1>6, <2>1 DEF Lineage
<1>10. [v \in Until(cut) |-> entries[v]]' = [v \in Until(cut) |-> entries[v]]
  BY <1>4, <1>5
<1>. QED  BY <1>8, <1>9, <1>10 DEF Stage

\* Whatever is committed later, the story up to an earlier cut stays the same,
\* although it is built from node rows that have moved on.
THEOREM StoryStaysFixed == Spec => HistoryIsFixed
<1>1. FrontierTold'
  BY FrontierAlwaysTold, PTL
<1>2. ASSUME WorldInv, StoryInv, [Next]_vars, WorldInv'
      PROVE  [\A cut \in 1..version : Stage(cut)' = Stage(cut)]_vars
  <2>1. Sound'
    BY <1>2 DEF WorldInv
  <2>. QED  BY <1>1, <1>2, <2>1, StageStays
<1>. QED  BY <1>2, StoryAlways, PTL DEF Spec, HistoryIsFixed

-----------------------------------------------------------------------------
(* The path of one character.                                              *)

\* The lines that have a, and the lineage between them.
OwnLines(cut, a) == {l.line : l \in {k \in LinesUntil(cut) : a \in k.members}}
OwnEdges(cut, a) == {e \in Lineage(cut) : e[1] \in OwnLines(cut, a) /\ e[2] \in OwnLines(cut, a)}

\* The transitions that affect a.
Affecting(cut, a) == {v \in TransitionsUntil(cut) : a \in entries[v].to}

\* A character has the lines that the chronicle gives it.
LEMMA OwnLinesAre ==
  ASSUME Sound, NEW h, Chronicle(h), NEW cut \in 1..version, NEW a \in Agent
  PROVE  OwnLines(cut, a) = {h[v][a] : v \in 1..cut}
<1>1. ASSUME NEW v \in 1..cut PROVE h[v][a] \in OwnLines(cut, a)
  <2>1. LinePart(h[v], a) \in LinesUntil(cut)
    BY LinesUntilAre
  <2>2. a \in LinePart(h[v], a).members /\ LinePart(h[v], a).line = h[v][a]
    BY DEF LinePart, Company
  <2>. QED  BY <2>1, <2>2 DEF OwnLines
<1>2. ASSUME NEW k \in LinesUntil(cut), a \in k.members PROVE \E v \in 1..cut : k.line = h[v][a]
  <2>1. PICK v \in 1..cut, b \in Agent : k = LinePart(h[v], b)
    BY LinesUntilAre
  <2>2. k.line = h[v][b] /\ h[v][a] = h[v][b]
    BY <1>2, <2>1 DEF LinePart, Company
  <2>. QED  BY <2>2
<1>3. OwnLines(cut, a) \subseteq {h[v][a] : v \in 1..cut}
  BY <1>2 DEF OwnLines
<1>. QED  BY <1>1, <1>3

\* A transition that affects a gives it a line of its version; at other
\* versions a stays where it is.
LEMMA AffectingTold ==
  ASSUME Sound, NEW h, Chronicle(h), NEW cut \in 1..version, NEW a \in Agent
  PROVE  /\ \A v \in Affecting(cut, a) : /\ v \in 1..cut /\ v - 1 \in 1..cut /\ h[v][a][2] = v
                                     /\ h[v - 1][a][2] \in Nat /\ h[v - 1][a][2] <= v - 1
                                     /\ h[1][a][2] \in Nat /\ h[1][a][2] < v
         /\ \A v \in 2..cut : v \notin Affecting(cut, a) => h[v][a] = h[v - 1][a]
<1>0. version \in Nat /\ cut \in Nat /\ cut >= 1 /\ cut <= version /\ 1 \in 1..version
  BY Versions
<1>1. ASSUME NEW v \in Affecting(cut, a)
      PROVE  /\ v \in 1..cut /\ v - 1 \in 1..cut /\ h[v][a][2] = v
             /\ h[v - 1][a][2] \in Nat /\ h[v - 1][a][2] <= v - 1
             /\ h[1][a][2] \in Nat /\ h[1][a][2] < v
  <2>1. v \in DOMAIN entries /\ v <= cut /\ IsTransition(v) /\ a \in entries[v].to
    BY DEF Affecting, TransitionsUntil, Until
  <2>2. /\ MovesLines(entries[v], v, h[v - 1], h[v])
        /\ v - 1 \in 1..version /\ v \in Nat /\ v >= 2
    BY <2>1, TransitionTold
  <2>3. h[v][a][2] = v
    BY <2>1, <2>2 DEF MovesLines
  <2>4. /\ h[v - 1][a][2] \in Nat /\ h[v - 1][a][2] <= v - 1
        /\ h[1][a][2] \in Nat /\ h[1][a][2] <= 1
    BY <1>0, <2>2 DEF Chronicle, IsHistory, LinesAge, Line
  <2>. QED  BY <1>0, <2>1, <2>2, <2>3, <2>4
<1>2. ASSUME NEW v \in 2..cut, v \notin Affecting(cut, a) PROVE h[v][a] = h[v - 1][a]
  <2>1. v \in DOMAIN entries /\ v \in Until(cut)
    BY <1>0, Versions DEF Until
  <2>2. CASE IsTransition(v)
    <3>1. a \notin entries[v].to
      BY <1>2, <2>1, <2>2 DEF Affecting, TransitionsUntil
    <3>2. MovesLines(entries[v], v, h[v - 1], h[v])
      BY <2>1, <2>2, TransitionTold
    <3>. QED  BY <3>1, <3>2 DEF MovesLines
  <2>3. CASE ~IsTransition(v)
    <3>1. h[v] = h[v - 1]
      BY <2>1, <2>3 DEF Chronicle, EntriesTell
    <3>. QED  BY <3>1
  <2>. QED  BY <2>2, <2>3
<1>. QED  BY <1>1, <1>2

\* The lineage between a's lines is that of the transitions that affect a.
LEMMA OwnEdgesAre ==
  ASSUME Sound, NEW h, Chronicle(h), NEW cut \in 1..version, NEW a \in Agent
  PROVE  /\ \A e \in OwnEdges(cut, a) : \E v \in Affecting(cut, a) : e = <<h[v - 1][a], h[v][a]>>
         /\ \A v \in Affecting(cut, a) : <<h[v - 1][a], h[v][a]>> \in OwnEdges(cut, a)
<1>0. version \in Nat /\ cut \in Nat /\ cut <= version /\ \A v \in 1..cut : v \in 1..version
  BY Versions
<1>1. ASSUME NEW v \in 1..version, NEW w \in 1..version, NEW b \in Agent, h[v][b] = h[w][a]
      PROVE  a \in Company(h[v], b)
  <2>1. Company(h[v], b) = Company(h[w], a)
    BY <1>1 DEF Chronicle, CompaniesLast
  <2>. QED  BY <2>1 DEF Company
<1>2. ASSUME NEW e \in OwnEdges(cut, a)
      PROVE  \E v \in Affecting(cut, a) : e = <<h[v - 1][a], h[v][a]>>
  <2>1. PICK v \in TransitionsUntil(cut) : \E b \in entries[v].to : e = <<h[v - 1][b], h[v][b]>>
    BY LineageIs DEF OwnEdges
  <2>2. PICK b \in entries[v].to : e = <<h[v - 1][b], h[v][b]>>
    BY <2>1
  <2>3. v \in DOMAIN entries /\ IsTransition(v)
    BY DEF TransitionsUntil, Until
  <2>4. /\ MovesLines(entries[v], v, h[v - 1], h[v]) /\ b \in Agent
        /\ v \in 1..version /\ v - 1 \in 1..version
    BY <2>3, TransitionTold
  <2>5. PICK w \in 1..cut : h[v - 1][b] = h[w][a]
    BY <2>2, OwnLinesAre DEF OwnEdges
  <2>6. PICK x \in 1..cut : h[v][b] = h[x][a]
    BY <2>2, OwnLinesAre DEF OwnEdges
  <2>7. a \in Company(h[v - 1], b) /\ a \in Company(h[v], b)
    BY <1>0, <1>1, <2>4, <2>5, <2>6
  <2>8. a \in entries[v].to
    BY <2>4, <2>7 DEF MovesLines
  <2>9. h[v - 1][a] = h[v - 1][b] /\ h[v][a] = h[v][b]
    BY <2>7 DEF Company
  <2>. QED  BY <2>2, <2>8, <2>9 DEF Affecting
<1>3. ASSUME NEW v \in Affecting(cut, a) PROVE <<h[v - 1][a], h[v][a]>> \in OwnEdges(cut, a)
  <2>1. <<h[v - 1][a], h[v][a]>> \in Lineage(cut)
    BY LineageIs DEF Affecting
  <2>2. v \in 1..cut /\ v - 1 \in 1..cut
    BY AffectingTold
  <2>3. h[v - 1][a] \in OwnLines(cut, a) /\ h[v][a] \in OwnLines(cut, a)
    BY <2>2, OwnLinesAre
  <2>. QED  BY <2>1, <2>3 DEF OwnEdges
<1>. QED  BY <1>2, <1>3

\* It does not branch, and ends at the current line.
LEMMA PathIsSingle ==
  ASSUME Sound, NEW h, Chronicle(h), NEW cut \in 1..version, NEW a \in Agent
  PROVE  /\ \A e, f \in OwnEdges(cut, a) : (e[1] = f[1] \/ e[2] = f[2]) => e = f
         /\ \A e \in OwnEdges(cut, a) : e[1] # h[cut][a]
<1>0. /\ version \in Nat /\ cut \in Nat /\ cut <= version
      /\ \A v \in 1..cut : v \in 1..version /\ v \in Nat
  BY Versions
<1>1. ASSUME NEW v \in Affecting(cut, a), NEW w \in 1..cut, v <= w PROVE h[v - 1][a] # h[w][a]
  <2>1. /\ v \in 1..cut /\ h[v][a][2] = v
        /\ h[v - 1][a][2] \in Nat /\ h[v - 1][a][2] <= v - 1
    BY AffectingTold
  <2>2. v \in 1..w /\ w \in 1..version
    BY <1>0, <1>1, <2>1
  <2>3. h[v][a][2] <= h[w][a][2]
    BY <2>2 DEF Chronicle, LinesAge
  <2>. QED  BY <1>0, <2>1, <2>3
<1>2. ASSUME NEW v \in Affecting(cut, a), NEW w \in Affecting(cut, a), h[v - 1][a] = h[w - 1][a]
      PROVE  v = w
  <2>1. v \in Nat /\ w \in Nat /\ v - 1 \in 1..cut /\ w - 1 \in 1..cut
    BY <1>0, AffectingTold
  <2>2. ~(v <= w - 1) /\ ~(w <= v - 1)
    BY <1>1, <1>2, <2>1
  <2>. QED  BY <2>1, <2>2
<1>3. ASSUME NEW e \in OwnEdges(cut, a), NEW f \in OwnEdges(cut, a), e[1] = f[1] \/ e[2] = f[2]
      PROVE  e = f
  <2>1. PICK v \in Affecting(cut, a) : e = <<h[v - 1][a], h[v][a]>>
    BY OwnEdgesAre
  <2>2. PICK w \in Affecting(cut, a) : f = <<h[w - 1][a], h[w][a]>>
    BY OwnEdgesAre
  <2>3. h[v][a][2] = v /\ h[w][a][2] = w
    BY AffectingTold
  <2>4. v = w
    BY <1>2, <1>3, <2>1, <2>2, <2>3
  <2>. QED  BY <2>1, <2>2, <2>4
<1>4. ASSUME NEW e \in OwnEdges(cut, a) PROVE e[1] # h[cut][a]
  <2>1. PICK v \in Affecting(cut, a) : e = <<h[v - 1][a], h[v][a]>>
    BY OwnEdgesAre
  <2>2. v <= cut /\ cut \in 1..cut
    BY <1>0, AffectingTold
  <2>. QED  BY <1>1, <2>1, <2>2
<1>. QED  BY <1>3, <1>4

\* Every line of a but the first has a parent, and the first has none.
LEMMA ParentExists ==
  ASSUME Sound, NEW h, Chronicle(h), NEW cut \in 1..version, NEW a \in Agent
  PROVE  /\ \A e \in OwnEdges(cut, a) : e[2] \in OwnLines(cut, a) \ {h[1][a]}
         /\ \A o \in OwnLines(cut, a) \ {h[1][a]} : \E e \in OwnEdges(cut, a) : e[2] = o
<1>0. cut \in Nat
  BY Versions
<1>1. ASSUME NEW e \in OwnEdges(cut, a) PROVE e[2] \in OwnLines(cut, a) \ {h[1][a]}
  <2>1. PICK v \in Affecting(cut, a) : e = <<h[v - 1][a], h[v][a]>>
    BY OwnEdgesAre
  <2>2. v \in 1..cut /\ h[v][a][2] = v /\ h[1][a][2] \in Nat /\ h[1][a][2] < v
    BY AffectingTold
  <2>3. h[v][a] # h[1][a]
    BY <2>2
  <2>. QED  BY <2>1, <2>3 DEF OwnEdges
<1>2. ASSUME NEW o \in OwnLines(cut, a) \ {h[1][a]} PROVE \E e \in OwnEdges(cut, a) : e[2] = o
  <2> DEFINE at == {v \in 1..cut : h[v][a] = o}
  <2>1. at \subseteq Nat /\ at # {}
    BY OwnLinesAre
  <2>2. PICK v \in at : \A w \in at : v <= w
    BY <2>1, LeastNatural
  <2>3. v \in 2..cut /\ v - 1 \in 1..cut /\ ~(v <= v - 1)
    BY <1>0, <2>2
  <2>4. h[v - 1][a] # o /\ h[v][a] = o
    BY <2>2, <2>3
  <2>5. v \in Affecting(cut, a)
    BY <2>3, <2>4, AffectingTold
  <2>6. <<h[v - 1][a], h[v][a]>> \in OwnEdges(cut, a)
    BY <2>5, OwnEdgesAre
  <2>7. <<h[v - 1][a], h[v][a]>>[2] = o
    BY <2>4
  <2>. QED  BY <2>6, <2>7
<1>. QED  BY <1>1, <1>2

\* So it has one parent less than lines.
LEMMA PathLength ==
  ASSUME Sound, NEW h, Chronicle(h), NEW cut \in 1..version, NEW a \in Agent
  PROVE  Cardinality(OwnEdges(cut, a)) = Cardinality(OwnLines(cut, a)) - 1
<1> DEFINE own == OwnLines(cut, a)
           edges == OwnEdges(cut, a)
           line == [v \in 1..cut |-> h[v][a]]
           child == [e \in edges |-> e[2]]
<1>1. cut \in Nat /\ 1 \in 1..cut /\ own = {h[v][a] : v \in 1..cut}
  BY OwnLinesAre, Versions
<1>2. IsFiniteSet(own)
  <2>1. line \in Surjection(1..cut, own)
    BY <1>1 DEF Surjection
  <2>2. IsFiniteSet(1..cut)
    BY <1>1, FS_Interval
  <2>. QED  BY <2>1, <2>2, FS_Surjection
<1>3. h[1][a] \in own
  BY <1>1
<1>4. /\ IsFiniteSet(own \ {h[1][a]})
      /\ Cardinality(own \ {h[1][a]}) = Cardinality(own) - 1
  BY <1>2, <1>3, FS_RemoveElement
<1>5. /\ \A e \in edges : e[2] \in own \ {h[1][a]}
      /\ \A o \in own \ {h[1][a]} : \E e \in edges : e[2] = o
  BY ParentExists
<1>6. \A e, f \in edges : e[2] = f[2] => e = f
  BY PathIsSingle
<1>. HIDE DEF own, edges
<1>7. child \in Injection(edges, own \ {h[1][a]})
  BY <1>5, <1>6 DEF Injection, IsInjective
<1>8. child \in Surjection(edges, own \ {h[1][a]})
  BY <1>5 DEF Surjection
<1>9. Cardinality(edges) = Cardinality(own \ {h[1][a]})
  BY <1>4, <1>7, <1>8, FS_Injection
<1>10. Cardinality(edges) = Cardinality(own) - 1
  BY <1>4, <1>9
<1>. QED  BY <1>10 DEF own, edges

\* Of the lines that have a character all but the first have exactly one parent
\* with it, none has two children with it, and the current one has none: a
\* viewer who follows it walks one path.
THEOREM CharactersAlwaysOnePath == Spec => []OnePathPerCharacter
<1>1. ASSUME WorldInv, StoryInv, NEW cut \in 1..version, NEW a \in Agent
      PROVE  /\ Cardinality(OwnEdges(cut, a)) = Cardinality(OwnLines(cut, a)) - 1
             /\ \A e, f \in OwnEdges(cut, a) : (e[1] = f[1] \/ e[2] = f[2]) => e = f
             /\ Rewound(cut)[cut][a] \notin {e[1] : e \in OwnEdges(cut, a)}
  <2>1. Sound
    BY <1>1 DEF WorldInv
  <2>2. PICK h : Chronicle(h)
    BY <1>1 DEF StoryInv
  <2>3. Cardinality(OwnEdges(cut, a)) = Cardinality(OwnLines(cut, a)) - 1
    BY <2>1, <2>2, PathLength
  <2>4. /\ \A e, f \in OwnEdges(cut, a) : (e[1] = f[1] \/ e[2] = f[2]) => e = f
        /\ \A e \in OwnEdges(cut, a) : e[1] # h[cut][a]
    BY <2>1, <2>2, PathIsSingle
  <2>5. Rewound(cut)[cut] = h[cut]
    BY <2>1, <2>2, FrontierIs
  <2>. QED  BY <2>3, <2>4, <2>5
<1>2. WorldInv /\ StoryInv => OnePathPerCharacter
  BY <1>1 DEF OnePathPerCharacter, OwnEdges, OwnLines
<1>. QED  BY <1>2, StoryAlways, PTL

=============================================================================
