--------------------------- MODULE DynamicRender ---------------------------
(***************************************************************************)
(* The Dynamic Render extension: DynamicTimelineRuntime, the controller    *)
(* around it, the timeline file that it reloads, and the WebGAL pages that *)
(* play its renders.  Node runs one handler at a time, so a handler is one *)
(* step; what interleaves are the messages of the pages, connections that  *)
(* replace each other, the viewer's choices and the reloads, which read    *)
(* and compile asynchronously.                                             *)
(*                                                                         *)
(* A page is a renderer with one connection.  How it plays a script is the *)
(* bundle's and external: a new script replaces the one it plays, and each *)
(* of its messages carries its two marker variables.                       *)
(***************************************************************************)
EXTENDS Naturals, Sequences

CONSTANTS
  Page,          \* renderer pages; each connects once
  Timeline,      \* the timelines that the file can hold
  FirstTimeline, \* the one that the server starts with
  NoPage,
  MaxSelect,     \* bound of the model: selections by viewers
  MaxEdit        \* bound of the model: edits of the file

\* A timeline: the event it opens with, and the render keys (event, render
\* and content hash in one) of each of its events, in order.
KeysOf(t) == UNION {{t.renders[e][i] : i \in 1..Len(t.renders[e])} : e \in DOMAIN t.renders}

ASSUME TimelineAssumption ==
  /\ FirstTimeline \in Timeline
  /\ \A t \in Timeline :
       /\ t.first \in DOMAIN t.renders
       /\ \A e \in DOMAIN t.renders : \A i \in 1..Len(t.renders[e]) : t.renders[e][i][1] = e
ASSUME PageAssumption == NoPage \notin Page
ASSUME BoundsAssumption == MaxSelect \in Nat /\ MaxEdit \in Nat

VARIABLES
  rt,        \* the DynamicTimelineRuntime
  socket,    \* rendererSocket, or NoPage
  ready,     \* rendererReady
  sequence,  \* dispatches begun so far; the code's ids have gaps
  hosts,     \* the last snapshot broadcast to the host pages
  conn,      \* the connection of each page
  toPage,    \* scripts on their way to a page
  toServer,  \* SYNCFC messages on their way to the server
  markers,   \* __dynamic_render_active and __dynamic_render_done of a page
  playing,   \* the dispatch that a page plays, 0 for none
  file,      \* the timeline in the file
  timer,     \* whether the debounce timer of a reload runs
  loads,     \* unfinished reloads, oldest first
  selects, edits,  \* counters for the bounds
  finished,  \* history: the dispatches that some page played to their end
  decided    \* history: the timeline of the last reload that ended

server == <<rt, socket, ready, sequence, hosts>>
pages  == <<conn, toPage, toServer, markers, playing, finished>>
disk   == <<file, timer, loads, edits, decided>>
vars   == <<server, pages, disk, selects>>

-----------------------------------------------------------------------------
(* DynamicTimelineRuntime, as functions of its state.                      *)

Runtime(t) == [timeline |-> t, selected |-> t.first, played |-> {}, active |-> {},
               connected |-> FALSE]

\* Faulty: the renders in use are not compared.
AcceptsAnything(s, t) == TRUE

\* replaceTimeline refuses a timeline without the played and active renders.
Accepts(s, t) == s.played \cup {a.key : a \in s.active} \subseteq KeysOf(t)

Replaced(s, t) ==
  [s EXCEPT !.timeline = t,
            !.selected = IF s.selected \in DOMAIN t.renders THEN s.selected ELSE t.first]

Connected(s, c) == [s EXCEPT !.connected = c, !.active = IF c THEN s.active ELSE {}]

Cancelled(s) == [s EXCEPT !.active = {}]

Selected(s, e) ==
  IF e = s.selected THEN s ELSE [s EXCEPT !.selected = e, !.active = {}]

\* The first render of the selected event that was not played.
NextRender(s) ==
  LET renders == s.timeline.renders[s.selected]
      open == {i \in 1..Len(renders) : renders[i] \notin s.played}
  IN {renders[i] : i \in {j \in open : \A k \in open : j <= k}}

CanBegin(s) == s.active = {} /\ NextRender(s) # {}

\* Faulty: the snapshot's status of a render that waits.
BegunReady(s, id) ==
  [s EXCEPT !.active = {[id |-> id, key |-> k, status |-> "ready"] : k \in NextRender(s)}]

Begun(s, id) ==
  [s EXCEPT !.active = {[id |-> id, key |-> k, status |-> "loading"] : k \in NextRender(s)}]

\* Faulty: any marker starts the active render.
AnyMarkerPlays(s, id) ==
  [s EXCEPT !.active = {IF id # 0 THEN [a EXCEPT !.status = "playing"] ELSE a : a \in s.active}]

MarkedPlaying(s, id) ==
  [s EXCEPT !.active = {IF a.id = id THEN [a EXCEPT !.status = "playing"] ELSE a : a \in s.active}]

IsActive(s, id) == \E a \in s.active : a.id = id

\* Faulty: any end completes the active render.
AnyEndCompletes(s, id) == id # 0 /\ s.active # {}

Completes(s, id) == IsActive(s, id)

Completed(s) == [s EXCEPT !.played = @ \cup {a.key : a \in s.active}, !.active = {}]

Snapshot(s) ==
  [revision |-> s.timeline, selected |-> s.selected, played |-> s.played, active |-> s.active,
   mode |-> IF s.connected /\ s.active # {} THEN {a.status : a \in s.active} ELSE {"black"}]

-----------------------------------------------------------------------------
(* DynamicRenderController.                                                *)

\* broadcastSnapshot, then sendNextRender, which broadcasts again if it may
\* send, and begins the next render if there is one.
BroadcastAndSendNext(s, isReady) ==
  IF isReady /\ socket # NoPage /\ conn[socket] = "open" /\ CanBegin(s)
    THEN /\ rt' = Begun(s, sequence + 1)
         /\ sequence' = sequence + 1
         /\ toPage' = [toPage EXCEPT ![socket] = Append(@, sequence + 1)]
         /\ hosts' = Snapshot(rt')
    ELSE /\ rt' = s
         /\ hosts' = Snapshot(s)
         /\ UNCHANGED <<sequence, toPage>>

\* Faulty: the new page inherits the render of the page it replaces.
ConnectKeepsActive(p) ==
  /\ conn[p] = "new"
  /\ conn' = [q \in Page |-> IF q = p THEN "open"
                             ELSE IF q = socket /\ conn[q] = "open" THEN "closing" ELSE conn[q]]
  /\ socket' = p
  /\ ready' = FALSE
  /\ rt' = Connected(rt, TRUE)
  /\ hosts' = Snapshot(rt')
  /\ UNCHANGED <<sequence, toPage, toServer, markers, playing, finished, disk, selects>>

\* handleRendererConnection: the older connection is asked to close.
Connect(p) ==
  /\ conn[p] = "new"
  /\ conn' = [q \in Page |-> IF q = p THEN "open"
                             ELSE IF q = socket /\ conn[q] = "open" THEN "closing" ELSE conn[q]]
  /\ socket' = p
  /\ ready' = FALSE
  /\ rt' = Cancelled(Connected(rt, TRUE))
  /\ hosts' = Snapshot(rt')
  /\ UNCHANGED <<sequence, toPage, toServer, markers, playing, finished, disk, selects>>

\* The close event: what was on its way is lost.
Closed(p) ==
  /\ conn[p] \in {"open", "closing"}
  /\ conn' = [conn EXCEPT ![p] = "closed"]
  /\ toServer' = [toServer EXCEPT ![p] = <<>>]
  /\ toPage' = [toPage EXCEPT ![p] = <<>>]
  /\ IF socket = p
       THEN /\ socket' = NoPage /\ ready' = FALSE
            /\ rt' = Connected(rt, FALSE)
            /\ hosts' = Snapshot(rt')
       ELSE UNCHANGED <<socket, ready, rt, hosts>>
  /\ UNCHANGED <<sequence, markers, playing, finished, disk, selects>>

\* handleRendererMessage: of any page, also of one that was replaced.
Sync(p) ==
  /\ conn[p] \in {"open", "closing"}
  /\ toServer[p] # <<>>
  /\ LET m == Head(toServer[p])
         s == MarkedPlaying(rt, m.active)
     IN BroadcastAndSendNext(IF Completes(s, m.done) THEN Completed(s) ELSE s, TRUE)
  /\ ready' = TRUE
  /\ toServer' = [toServer EXCEPT ![p] = Tail(@)]
  /\ UNCHANGED <<socket, conn, markers, playing, finished, disk, selects>>

\* A host selects an event; an unknown one is only reported to it.
Select(e) ==
  /\ selects < MaxSelect
  /\ selects' = selects + 1
  /\ e \in DOMAIN rt.timeline.renders
  /\ BroadcastAndSendNext(Selected(rt, e), ready)
  /\ UNCHANGED <<socket, ready, conn, toServer, markers, playing, finished, disk>>

-----------------------------------------------------------------------------
(* The timeline file and its reloads.                                      *)

Unread == [read |-> FALSE, timeline |-> FirstTimeline]

\* Somebody saves the file; the watcher restarts the debounce timer.
Edit(t) ==
  /\ edits < MaxEdit
  /\ edits' = edits + 1
  /\ file' = t
  /\ timer' = TRUE
  /\ UNCHANGED <<server, pages, loads, decided, selects>>

StartReload ==
  /\ timer
  /\ timer' = FALSE
  /\ loads' = Append(loads, Unread)
  /\ UNCHANGED <<server, pages, file, edits, decided, selects>>

ReadFile(i) ==
  /\ i \in 1..Len(loads) /\ ~loads[i].read
  /\ loads' = [loads EXCEPT ![i] = [read |-> TRUE, timeline |-> file]]
  /\ UNCHANGED <<server, pages, file, timer, edits, decided, selects>>

\* The compilation ends, in any order; a refused timeline is reported.
FinishReload(i) ==
  /\ i \in 1..Len(loads) /\ loads[i].read
  /\ decided' = loads[i].timeline
  /\ loads' = SubSeq(loads, 1, i - 1) \o SubSeq(loads, i + 1, Len(loads))
  /\ IF Accepts(rt, loads[i].timeline)
       THEN BroadcastAndSendNext(Replaced(rt, loads[i].timeline), ready)
       ELSE UNCHANGED <<rt, sequence, toPage, hosts>>
  /\ UNCHANGED <<socket, ready, conn, toServer, markers, playing, finished, file, timer, edits,
                 selects>>

-----------------------------------------------------------------------------
(* The pages: WebGAL, external.                                            *)

Report(p, m) ==
  /\ markers' = [markers EXCEPT ![p] = m]
  /\ toServer' = [toServer EXCEPT ![p] = Append(@, m)]
  /\ UNCHANGED <<server, conn, disk, selects>>

Room(p) == conn[p] = "open" /\ Len(toServer[p]) < 2

\* The first message of a page, and one for every sentence it shows.
Show(p) ==
  /\ Room(p)
  /\ toServer[p] = <<>>
  /\ Report(p, markers[p])
  /\ UNCHANGED <<toPage, playing, finished>>

\* The script's first command sets the active marker.
PlayScript(p) ==
  /\ Room(p)
  /\ toPage[p] # <<>>
  /\ playing' = [playing EXCEPT ![p] = Head(toPage[p])]
  /\ toPage' = [toPage EXCEPT ![p] = Tail(@)]
  /\ Report(p, [markers[p] EXCEPT !.active = Head(toPage[p])])
  /\ UNCHANGED finished

\* Its last command sets the done marker.
EndScript(p) ==
  /\ Room(p)
  /\ playing[p] # 0
  /\ playing' = [playing EXCEPT ![p] = 0]
  /\ finished' = finished \cup {playing[p]}
  /\ Report(p, [markers[p] EXCEPT !.done = playing[p]])
  /\ UNCHANGED toPage

-----------------------------------------------------------------------------

Init ==
  /\ rt = Runtime(FirstTimeline)
  /\ socket = NoPage /\ ready = FALSE /\ sequence = 0
  /\ hosts = Snapshot(Runtime(FirstTimeline))
  /\ conn = [p \in Page |-> "new"]
  /\ toPage = [p \in Page |-> <<>>]
  /\ toServer = [p \in Page |-> <<>>]
  /\ markers = [p \in Page |-> [active |-> 0, done |-> 0]]
  /\ playing = [p \in Page |-> 0]
  /\ finished = {}
  /\ file = FirstTimeline /\ timer = FALSE /\ loads = <<>> /\ decided = FirstTimeline
  /\ selects = 0 /\ edits = 0

Play(p) == PlayScript(p) \/ EndScript(p)

Reload == StartReload \/ \E i \in 1..Len(loads) : ReadFile(i) \/ FinishReload(i)

Next ==
  \/ \E p \in Page : Connect(p) \/ Closed(p) \/ Sync(p) \/ Play(p) \/ Show(p)
  \/ \E e \in DOMAIN rt.timeline.renders : Select(e)
  \/ \E t \in Timeline : Edit(t)
  \/ Reload

Spec == Init /\ [][Next]_vars

\* Messages arrive, a page that is open shows something and plays what it
\* got, and reloads end.  Nobody has to connect, select or edit.
FairSpec ==
  /\ Spec
  /\ \A p \in Page : WF_vars(Sync(p)) /\ WF_vars(Play(p)) /\ WF_vars(Show(p))
  /\ WF_vars(Reload)

-----------------------------------------------------------------------------
(* Properties.                                                             *)

Key == UNION {KeysOf(t) : t \in Timeline}

TypeOK ==
  /\ rt.timeline \in Timeline /\ rt.connected \in BOOLEAN
  /\ rt.active \subseteq [id : 1..sequence, key : Key, status : {"loading", "playing"}]
  /\ socket \in Page \cup {NoPage} /\ ready \in BOOLEAN /\ sequence \in Nat
  /\ conn \in [Page -> {"new", "open", "closing", "closed"}]
  /\ playing \in [Page -> 0..sequence]
  /\ markers \in [Page -> [active : 0..sequence, done : 0..sequence]]
  /\ file \in Timeline /\ decided \in Timeline /\ timer \in BOOLEAN

\* The loaded timeline always has the selected event and every render that
\* was played or is active, whatever reloads, choices and completions meet.
TimelineKeepsHistory ==
  /\ rt.selected \in DOMAIN rt.timeline.renders
  /\ rt.played \cup {a.key : a \in rt.active} \subseteq KeysOf(rt.timeline)

\* The viewer sees the stage only while the current page plays the active
\* render: "playing" is never the echo of another dispatch or another page.
PlayingIsOnStage ==
  \A a \in rt.active : a.status = "playing" =>
    /\ socket # NoPage
    /\ markers[socket].active = a.id
    /\ playing[socket] = a.id \/ a.id \in finished

\* A render counts as played only after a page has played it to the end: the
\* server never has more renders played than dispatches have finished.
PlayedWasShown ==
  [][\A a \in rt.active : a.key \in rt'.played \ rt.played => a.id \in finished]_vars

\* Every handler leaves the hosts with the snapshot of the state it leaves.
HostsAreCurrent == hosts = Snapshot(rt)

\* What is said to play plays, and everybody is told.
StageIsCurrent == PlayingIsOnStage /\ HostsAreCurrent

\* With a renderer connected, all renders of the selected event get played, in
\* spite of choices and edits, unless the renderer goes away.
SelectedEventPlays ==
  socket # NoPage ~>
    \/ socket = NoPage
    \/ LET renders == rt.timeline.renders[rt.selected] IN
       \A i \in 1..Len(renders) : renders[i] \in rt.played

\* extensions/dynamic-render/README.md: valid timeline edits are reloaded.
\* Once nobody edits any more, the last timeline that the server loaded, or
\* refused and reported, is the one in the file.
EditsAreReloaded == <>[](decided = file)
=============================================================================
