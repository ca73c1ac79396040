----------------------------- MODULE StoryLine -----------------------------
(***************************************************************************)
(* The story of a World: event/story_line.py builds, from the committed    *)
(* entries up to a cut, the graph of story lines that the viewer shows.    *)
(* The rows it reads are those of WorldRuntime, in one read transaction.   *)
(* A cut is a World version; the node rows are current, so the builder     *)
(* rewinds them past the transitions after the cut.  A failing check of    *)
(* the builder or of StageView raises, and nothing is exported.            *)
(*                                                                         *)
(* Texts, times and identifiers are not modelled, nor the targets of       *)
(* entries but for whispers, whose recipients name them.                   *)
(***************************************************************************)
EXTENDS WorldRuntime

IsTransition(v) == entries[v].kind = "transition"

Until(cut) == {v \in DOMAIN entries : v <= cut}

TransitionsUntil(cut) == {v \in Until(cut) : IsTransition(v)}

PartOf(parts, a) == CHOOSE p \in parts : a \in p.members

\* The line of every character at the cut and after each later version: the
\* current rows, with the before parts of later transitions put back.
Rewound(cut) ==
  LET at[v \in cut..version] ==
        IF v = version THEN [a \in Agent |-> LineOf(a)]
        ELSE IF ~IsTransition(v + 1) THEN at[v + 1]
        ELSE [a \in Agent |->
                IF \E p \in entries[v + 1].before : a \in p.members
                  THEN PartOf(entries[v + 1].before, a).line
                  ELSE at[v + 1][a]]
  IN at

\* The builder's check on the way: a transition made the lines it rewinds.
RewindMatches(cut) ==
  \A v \in {w \in DOMAIN entries : w > cut /\ IsTransition(w)} :
    \A p \in entries[v].after : {a \in Agent : Rewound(cut)[v][a] = p.line} = p.members

\* Faulty: the lines at the cut are the current ones.
CurrentFrontier(cut) ==
  {[line |-> LineOf(a), members |-> Members(a)] : a \in Agent}

\* The lines at the cut, with their members.
Frontier(cut) ==
  LET at == Rewound(cut)[cut] IN
  {[line |-> at[a], members |-> {b \in Agent : at[b] = at[a]}] : a \in Agent}

\* members_by_line: every line there was until the cut.
LinesUntil(cut) ==
  Frontier(cut)
    \cup UNION {entries[v].before \cup entries[v].after : v \in TransitionsUntil(cut)}

\* Faulty: a transition leads to the actor's new line only.
ActorLineage(cut) ==
  UNION {{<<b.line, entries[v].line>> : b \in entries[v].before} : v \in TransitionsUntil(cut)}

\* The parts of a transition with a common character.
Shared(v) ==
  {pair \in entries[v].before \X entries[v].after : pair[1].members \cap pair[2].members # {}}

\* Parent and child: such a before and after part.
Lineage(cut) ==
  UNION {{<<pair[1].line, pair[2].line>> : pair \in Shared(v)} : v \in TransitionsUntil(cut)}

Stage(cut) ==
  [lines |-> LinesUntil(cut), lineage |-> Lineage(cut),
   entries |-> [v \in Until(cut) |-> entries[v]]]

-----------------------------------------------------------------------------
(* What StoryLine and StageView validate.                                  *)

\* An entry on a line with these members.
ValidEntry(v, members) ==
  /\ entries[v].actor \in entries[v].to \cap members
  /\ entries[v].line[2] <= v
  /\ ~IsTransition(v) =>
       IF entries[v].channel = "whisper"
         THEN entries[v].to \subseteq members /\ Cardinality(entries[v].to) = 2
         ELSE entries[v].to = members

ValidLinks(v, cut) ==
  entries[v].previous \cup ({entries[v].reply} \ {0}) \subseteq {w \in Until(cut) : w < v}

ValidTransition(v, lines) ==
  /\ entries[v].before \cup entries[v].after \subseteq lines
  /\ \E p \in entries[v].after : p.line = entries[v].line /\ entries[v].actor \in p.members
  /\ \A p \in entries[v].after : p.line[2] = v
  /\ \A p \in entries[v].before : p.line[2] < v
  /\ \A p, q \in entries[v].after : p # q => p.members \cap q.members = {}
  /\ \A p, q \in entries[v].before : p # q => p.members \cap q.members = {}
  /\ entries[v].to = UNION {p.members : p \in entries[v].before}
  /\ entries[v].to = UNION {p.members : p \in entries[v].after}
  /\ <<Cardinality(entries[v].before), Cardinality(entries[v].after)>>
       \in {<<2, 1>>, <<1, 2>>, <<2, 2>>}
  /\ {p.members : p \in entries[v].before} # {p.members : p \in entries[v].after}

ValidStage(cut) ==
  LET lines == LinesUntil(cut) IN
  /\ \A k, l \in lines : k.line = l.line => k = l
  /\ \A v \in Until(cut) :
       /\ \E l \in lines : l.line = entries[v].line /\ ValidEntry(v, l.members)
       /\ ValidLinks(v, cut)
       /\ IsTransition(v) => ValidTransition(v, lines)
  /\ \A edge \in Lineage(cut) : edge[1][2] < edge[2][2]

-----------------------------------------------------------------------------
(* Properties.                                                             *)

\* Whatever was committed, the story builds, now and at every earlier cut: no
\* reachable row makes the builder or the validation of its result raise.
StoryBuilds == \A cut \in 1..version : RewindMatches(cut) /\ ValidStage(cut)

\* What was told stays told: later commits never change the story up to an
\* earlier cut, although the node rows that it is built from have moved on.
HistoryIsFixed == [][\A cut \in 1..version : Stage(cut)' = Stage(cut)]_vars

\* A viewer who follows one character walks one path: of the lines that have
\* the character, all but the first have exactly one parent with it, none has
\* two children with it, and the one without a child is the current line.
OnePathPerCharacter ==
  \A cut \in 1..version : \A a \in Agent :
    LET own == {l.line : l \in {k \in LinesUntil(cut) : a \in k.members}}
        edges == {e \in Lineage(cut) : e[1] \in own /\ e[2] \in own}
    IN /\ Cardinality(edges) = Cardinality(own) - 1
       /\ \A e, f \in edges : (e[1] = f[1] \/ e[2] = f[2]) => e = f
       /\ Rewound(cut)[cut][a] \notin {e[1] : e \in edges}
=============================================================================
