------------------------ MODULE DynamicRenderProofs ------------------------
(***************************************************************************)
(* Proofs about DynamicRender for every set of pages and timelines and     *)
(* every bound: the runtime keeps its history through every reload, the    *)
(* hosts are told what is on the stage and nothing else, and no render     *)
(* counts as played that no page has played.                               *)
(*                                                                         *)
(* The argument is about the newest dispatch, the only one that can be     *)
(* active: where its number may turn up among the pages, on the way to     *)
(* them and on the way back.                                               *)
(***************************************************************************)
EXTENDS DynamicRender, SequenceTheorems, TLAPS

\* The markers of a page, and the messages that carry them.
Marker == [active : Nat, done : Nat]

\* A reload that has not ended.
Load == [read : BOOLEAN, timeline : Timeline]

\* The renders that a runtime state may call active.
Active == [id : Nat, key : Key, status : {"loading", "playing"}]

\* A DynamicTimelineRuntime.
State == [timeline : Timeline, selected : UNION {DOMAIN t.renders : t \in Timeline},
          played : SUBSET Key, active : SUBSET Active, connected : BOOLEAN]

\* The variables around the runtime, without the range of the dispatch numbers.
Typed ==
  /\ socket \in Page \cup {NoPage} /\ ready \in BOOLEAN /\ sequence \in Nat
  /\ conn \in [Page -> {"new", "open", "closing", "closed"}]
  /\ toPage \in [Page -> Seq(Nat)] /\ toServer \in [Page -> Seq(Marker)]
  /\ markers \in [Page -> Marker] /\ playing \in [Page -> Nat]
  /\ loads \in Seq(Load)
  /\ file \in Timeline /\ decided \in Timeline /\ timer \in BOOLEAN

\* The dispatches that have begun.
Dispatches == 1..sequence

\* No other dispatch turns up anywhere.
Numbered ==
  /\ finished \subseteq Dispatches
  /\ \A p \in Page :
       /\ playing[p] <= sequence /\ markers[p].active <= sequence
       /\ \A i \in 1..Len(toPage[p]) : toPage[p][i] \in Dispatches
       /\ \A i \in 1..Len(toServer[p]) : toServer[p][i].active <= sequence

\* The loaded timeline has the selected event and all renders in use.
RuntimeSound(s) ==
  /\ s \in State
  /\ s.selected \in DOMAIN s.timeline.renders
  /\ s.played \cup {a.key : a \in s.active} \subseteq KeysOf(s.timeline)

\* Nobody but the current page has heard of the newest dispatch.
NewestIsCurrent ==
  \A p \in Page \ {socket} :
    /\ markers[p].active # sequence
    /\ \A i \in 1..Len(toPage[p]) : toPage[p][i] # sequence

\* Only the newest dispatch can be active, only while a page is connected, and
\* it is said to play only when the page has said so.
ActiveSound(s) ==
  /\ \A a \in s.active :
       /\ a.id = sequence
       /\ a.status = "playing" => markers[socket].active = sequence
  /\ s.active # {} => socket # NoPage /\ sequence > 0 /\ NewestIsCurrent

\* The newest dispatch waits last in a queue, if it waits at all; a page that
\* has taken it has nothing else to take, plays it or has played it.
NewestComesLast ==
  \A p \in Page :
    /\ \A i \in 1..Len(toPage[p]) : toPage[p][i] = sequence => i = Len(toPage[p])
    /\ markers[p].active = sequence /\ sequence > 0 =>
         /\ toPage[p] = <<>>
         /\ playing[p] = sequence \/ sequence \in finished

\* A message that names the newest dispatch is not ahead of its page.
NoMessageAhead ==
  \A p \in Page : \A i \in 1..Len(toServer[p]) :
    toServer[p][i].active = sequence => markers[p].active = sequence

\* An end that a page has reported, or is about to report again, is the end of
\* a script that some page has played.
EndsAreReal ==
  \A p \in Page :
    /\ markers[p].done \in finished \cup {0}
    /\ \A i \in 1..Len(toServer[p]) : toServer[p][i].done \in finished \cup {0}

\* What holds of the pages and of the queues between them and the server.
PagesSound == NewestComesLast /\ NoMessageAhead /\ EndsAreReal

\* The inductive invariant.
RenderInv ==
  /\ Typed /\ Numbered
  /\ RuntimeSound(rt) /\ ActiveSound(rt) /\ HostsAreCurrent
  /\ PagesSound

-----------------------------------------------------------------------------
(* What the inductive invariant says of the properties.                    *)

\* The inductive invariant has the types in it.
LEMMA TypesFromInv == RenderInv => TypeOK
<1> SUFFICES ASSUME RenderInv PROVE TypeOK
  OBVIOUS
<1>. USE DEF RenderInv
<1>1. rt.timeline \in Timeline /\ rt.connected \in BOOLEAN /\ rt.active \subseteq Active
  BY DEF RuntimeSound, State
<1>2. ASSUME NEW a \in rt.active
      PROVE  a \in [id : 1..sequence, key : Key, status : {"loading", "playing"}]
  <2>1. a.id = sequence /\ sequence > 0 /\ sequence \in Nat
    BY DEF ActiveSound, Typed
  <2>. QED  BY <1>1, <2>1 DEF Active
<1>3. playing \in [Page -> 0..sequence]
  BY DEF Typed, Numbered
<1>4. ASSUME NEW p \in Page
      PROVE  markers[p] \in [active : 0..sequence, done : 0..sequence]
  BY DEF Typed, Numbered, Dispatches, PagesSound, EndsAreReal, Marker
<1>5. markers \in [Page -> [active : 0..sequence, done : 0..sequence]]
  BY <1>4 DEF Typed
<1>. QED  BY <1>1, <1>2, <1>3, <1>5 DEF TypeOK, Typed

\* What is said to play is on the stage of the current page.
LEMMA StageFromInv == RenderInv => StageIsCurrent
<1> SUFFICES ASSUME RenderInv, NEW a \in rt.active, a.status = "playing"
             PROVE  /\ socket # NoPage
                    /\ markers[socket].active = a.id
                    /\ playing[socket] = a.id \/ a.id \in finished
  BY DEF StageIsCurrent, PlayingIsOnStage, RenderInv
<1>1. /\ socket # NoPage /\ sequence > 0 /\ a.id = sequence
      /\ markers[socket].active = sequence
  BY DEF RenderInv, ActiveSound
<1>2. socket \in Page
  BY <1>1 DEF RenderInv, Typed
<1>. QED  BY <1>1, <1>2 DEF RenderInv, PagesSound, NewestComesLast

\* The history of the runtime stays in its timeline.
LEMMA HistoryFromInv == RenderInv => TimelineKeepsHistory
BY DEF RenderInv, RuntimeSound, TimelineKeepsHistory

-----------------------------------------------------------------------------
(* The methods of DynamicTimelineRuntime.                                  *)

\* A runtime method that activates nothing keeps the active render sound.
LEMMA LessIsActive ==
  ASSUME NEW s, NEW u, ActiveSound(s), u.active \subseteq s.active
  PROVE  ActiveSound(u)
BY DEF ActiveSound

\* cancelActive, setRendererConnected and completeActive.
LEMMA DroppedSound ==
  ASSUME NEW s, RuntimeSound(s), NEW c \in BOOLEAN
  PROVE  /\ RuntimeSound(Connected(s, c)) /\ Connected(s, c).active \subseteq s.active
         /\ RuntimeSound(Cancelled(Connected(s, c)))
         /\ Cancelled(Connected(s, c)).active = {} /\ Connected(s, FALSE).active = {}
BY DEF RuntimeSound, Connected, Cancelled, State

\* completeActive: the keys of the active renders were in the timeline.
LEMMA CompletedSound ==
  ASSUME NEW s, RuntimeSound(s)
  PROVE  RuntimeSound(Completed(s)) /\ Completed(s).active = {}
<1>1. {a.key : a \in s.active} \subseteq Key
  BY DEF RuntimeSound, State, Active
<1> DEFINE keys == {a.key : a \in s.active}
<1>2. Completed(s) = [s EXCEPT !.played = @ \cup keys, !.active = {}]
  BY DEF Completed
<1>3. s \in State /\ s.played \cup keys \subseteq KeysOf(s.timeline)
      /\ s.selected \in DOMAIN s.timeline.renders
  BY DEF RuntimeSound
<1>4. keys \subseteq Key
  BY <1>1
<1>. HIDE DEF keys
<1>5. /\ Completed(s) \in State
      /\ Completed(s).played = s.played \cup keys /\ Completed(s).active = {}
      /\ Completed(s).timeline = s.timeline /\ Completed(s).selected = s.selected
  BY <1>2, <1>3, <1>4 DEF State
<1>. QED  BY <1>3, <1>5 DEF RuntimeSound

\* selectEvent, for an event that the timeline has.
LEMMA SelectedSound ==
  ASSUME NEW s, RuntimeSound(s), NEW e \in DOMAIN s.timeline.renders
  PROVE  RuntimeSound(Selected(s, e)) /\ Selected(s, e).active \subseteq s.active
<1>1. e \in UNION {DOMAIN t.renders : t \in Timeline}
  BY DEF RuntimeSound, State
<1>. QED  BY <1>1 DEF RuntimeSound, Selected, State

\* replaceTimeline, once the timeline is accepted.
LEMMA ReplacedSound ==
  ASSUME NEW s, RuntimeSound(s), NEW t \in Timeline, Accepts(s, t)
  PROVE  RuntimeSound(Replaced(s, t)) /\ Replaced(s, t).active = s.active
<1> DEFINE e == IF s.selected \in DOMAIN t.renders THEN s.selected ELSE t.first
<1>1. e \in DOMAIN t.renders
  BY TimelineAssumption
<1>2. Replaced(s, t) = [s EXCEPT !.timeline = t, !.selected = e]
  BY DEF Replaced
<1>3. e \in UNION {DOMAIN u.renders : u \in Timeline}
  BY <1>1
<1>. HIDE DEF e
<1>4. /\ Replaced(s, t) \in State
      /\ Replaced(s, t).timeline = t /\ Replaced(s, t).selected = e
      /\ Replaced(s, t).played = s.played /\ Replaced(s, t).active = s.active
  BY <1>2, <1>3 DEF RuntimeSound, State
<1>. QED  BY <1>1, <1>4 DEF RuntimeSound, Accepts

\* markPlaying by a message of page p that is not ahead of p.
LEMMA MarkedSound ==
  ASSUME Typed, NewestComesLast, RuntimeSound(rt), ActiveSound(rt),
         NEW p \in Page, NEW id \in Nat, id = sequence => markers[p].active = sequence
  PROVE  RuntimeSound(MarkedPlaying(rt, id)) /\ ActiveSound(MarkedPlaying(rt, id))
<1> DEFINE s == MarkedPlaying(rt, id)
           mark(a) == IF a.id = id THEN [a EXCEPT !.status = "playing"] ELSE a
<1>1. s = [rt EXCEPT !.active = {mark(a) : a \in rt.active}]
  BY DEF MarkedPlaying
<1>2. rt \in State /\ rt.active \subseteq Active
  BY DEF RuntimeSound, State
<1>3. ASSUME NEW a \in rt.active
      PROVE  /\ mark(a) \in Active /\ mark(a).id = a.id /\ mark(a).key = a.key
             /\ mark(a).status = "playing" => a.status = "playing" \/ a.id = id
  BY <1>2 DEF Active
<1>. HIDE DEF mark
<1>4. {mark(a) : a \in rt.active} \subseteq Active
  BY <1>3
<1>5. /\ s \in State /\ s.active = {mark(a) : a \in rt.active}
      /\ s.timeline = rt.timeline /\ s.selected = rt.selected /\ s.played = rt.played
  BY <1>1, <1>2, <1>4 DEF State
<1>. HIDE DEF s
<1>6. {b.key : b \in s.active} \subseteq {a.key : a \in rt.active}
  BY <1>3, <1>5
<1>7. RuntimeSound(s)
  BY <1>5, <1>6 DEF RuntimeSound
<1>8. ASSUME NEW b \in s.active
      PROVE  b.id = sequence /\ (b.status = "playing" => markers[socket].active = sequence)
  <2>1. PICK a \in rt.active : b = mark(a)
    BY <1>5
  <2>2. a.id = sequence /\ b.id = sequence
    BY <1>3, <2>1 DEF ActiveSound
  <2>3. CASE a.status = "playing"
    BY <2>2, <2>3 DEF ActiveSound
  <2>4. CASE a.status # "playing" /\ b.status = "playing"
    <3>1. id = sequence
      BY <1>3, <2>1, <2>2, <2>4
    <3>2. p = socket
      BY <3>1 DEF ActiveSound, NewestIsCurrent
    <3>. QED  BY <2>2, <3>1, <3>2
  <2>. QED  BY <2>2, <2>3, <2>4
<1>9. s.active # {} => rt.active # {}
  BY <1>5
<1>10. ActiveSound(s)
  BY <1>8, <1>9 DEF ActiveSound
<1>. QED  BY <1>7, <1>10 DEF s

\* getNextRender: a render of the selected event, hence of the timeline.
LEMMA NextIsKey ==
  ASSUME NEW s, RuntimeSound(s)
  PROVE  NextRender(s) \subseteq KeysOf(s.timeline)
BY DEF RuntimeSound, NextRender, KeysOf

\* beginActive: the render that begins waits for its page.
LEMMA BegunSound ==
  ASSUME NEW s, RuntimeSound(s), NEW id \in Nat
  PROVE  /\ RuntimeSound(Begun(s, id))
         /\ \A a \in Begun(s, id).active : a.id = id /\ a.status = "loading"
<1> DEFINE renders == {[id |-> id, key |-> k, status |-> "loading"] : k \in NextRender(s)}
<1>1. Begun(s, id) = [s EXCEPT !.active = renders]
  BY DEF Begun
<1>2. NextRender(s) \subseteq KeysOf(s.timeline) /\ s \in State
  BY NextIsKey DEF RuntimeSound
<1>3. KeysOf(s.timeline) \subseteq Key
  BY <1>2 DEF State, Key
<1>4. ASSUME NEW a \in renders
      PROVE  /\ a \in Active /\ a.key \in KeysOf(s.timeline)
             /\ a.id = id /\ a.status = "loading"
  <2>1. PICK k \in NextRender(s) : a = [id |-> id, key |-> k, status |-> "loading"]
    OBVIOUS
  <2>. QED  BY <2>1, <1>2, <1>3 DEF Active
<1>. HIDE DEF renders
<1>5. renders \subseteq Active
  BY <1>4
<1>6. /\ Begun(s, id) \in State /\ Begun(s, id).active = renders
      /\ Begun(s, id).timeline = s.timeline /\ Begun(s, id).selected = s.selected
      /\ Begun(s, id).played = s.played
  BY <1>1, <1>2, <1>5 DEF State
<1>. QED  BY <1>4, <1>6 DEF RuntimeSound

-----------------------------------------------------------------------------
(* The queues.                                                             *)

\* A queue that is taken from.
LEMMA TailShrinks ==
  ASSUME NEW S, NEW q \in Seq(S), q # <<>>
  PROVE  /\ Head(q) \in S /\ Head(q) = q[1] /\ 1 \in 1..Len(q)
         /\ Tail(q) \in Seq(S) /\ Len(Tail(q)) = Len(q) - 1
         /\ \A i \in 1..Len(Tail(q)) : i + 1 \in 1..Len(q) /\ Tail(q)[i] = q[i + 1]
OBVIOUS

\* A queue that is added to.
LEMMA AppendGrows ==
  ASSUME NEW S, NEW q \in Seq(S), NEW x \in S
  PROVE  /\ Append(q, x) \in Seq(S) /\ Len(Append(q, x)) = Len(q) + 1
         /\ \A i \in 1..Len(Append(q, x)) :
              Append(q, x)[i] = IF i = Len(q) + 1 THEN x ELSE q[i]
OBVIOUS

\* The messages on their way are not new ones.
OnlyOlderMessages ==
  /\ toServer' \in [Page -> Seq(Marker)]
  /\ \A p \in Page : \A i \in 1..Len(toServer'[p]) :
       \E j \in 1..Len(toServer[p]) : toServer'[p][i] = toServer[p][j]

\* What the invariant says of a step of the server that takes messages only
\* from the queues of the pages, and leaves the pages alone otherwise.
LEMMA SentSound ==
  ASSUME RenderInv, NEW s, RuntimeSound(s), ActiveSound(s), NEW r,
         BroadcastAndSendNext(s, r), OnlyOlderMessages,
         UNCHANGED <<socket, markers, playing, finished>>
  PROVE  /\ sequence' \in Nat /\ toPage' \in [Page -> Seq(Nat)]
         /\ Numbered' /\ RuntimeSound(rt)' /\ ActiveSound(rt)' /\ HostsAreCurrent'
         /\ PagesSound'
<1>. USE DEF RenderInv
<1>0. /\ sequence \in Nat /\ sequence + 1 \in Nat /\ toPage \in [Page -> Seq(Nat)]
      /\ toServer \in [Page -> Seq(Marker)] /\ markers \in [Page -> Marker]
      /\ playing \in [Page -> Nat]
  BY DEF Typed
<1>1. CASE rt' = s /\ hosts' = Snapshot(s) /\ UNCHANGED <<sequence, toPage>>
  <2>1. Numbered'
    BY <1>1, <1>0 DEF Numbered, Dispatches, OnlyOlderMessages
  <2>2. RuntimeSound(rt)'
    BY <1>1 DEF RuntimeSound
  <2>3. ActiveSound(rt)'
    BY <1>1 DEF ActiveSound, NewestIsCurrent
  <2>4. HostsAreCurrent'
    BY <1>1 DEF HostsAreCurrent
  <2>5. NewestComesLast'
    BY <1>1 DEF PagesSound, NewestComesLast
  <2>6. NoMessageAhead' /\ EndsAreReal'
    BY <1>1 DEF PagesSound, NoMessageAhead, EndsAreReal, OnlyOlderMessages
  <2>. QED  BY <1>0, <1>1, <2>1, <2>2, <2>3, <2>4, <2>5, <2>6 DEF PagesSound
<1>2. CASE /\ socket # NoPage
           /\ rt' = Begun(s, sequence + 1)
           /\ sequence' = sequence + 1
           /\ toPage' = [toPage EXCEPT ![socket] = Append(@, sequence + 1)]
           /\ hosts' = Snapshot(rt')
  <2> DEFINE q == toPage[socket]
  <2>1. socket \in Page /\ q \in Seq(Nat)
    BY <1>0, <1>2 DEF Typed
  <2>2. toPage' \in [Page -> Seq(Nat)] /\ toPage'[socket] = Append(q, sequence + 1)
        /\ \A p \in Page \ {socket} : toPage'[p] = toPage[p]
    BY <1>0, <1>2, <2>1
  <2>3. /\ Len(Append(q, sequence + 1)) = Len(q) + 1
        /\ \A i \in 1..Len(Append(q, sequence + 1)) :
             Append(q, sequence + 1)[i] = IF i = Len(q) + 1 THEN sequence + 1 ELSE q[i]
    BY <1>0, <2>1, AppendGrows
  <2>. HIDE DEF q
  <2>4. ASSUME NEW p \in Page, NEW i \in 1..Len(toPage'[p])
        PROVE  toPage'[p][i] \in 1..sequence + 1
                 /\ (toPage'[p][i] = sequence + 1 => p = socket /\ i = Len(toPage'[p]))
    <3>1. \A j \in 1..Len(toPage[p]) : toPage[p][j] \in 1..sequence
      BY DEF Numbered, Dispatches
    <3>2. CASE p = socket
      <4>1. Len(q) \in Nat
        BY <2>1
      <4>2. CASE i = Len(q) + 1
        BY <1>0, <2>2, <2>3, <3>2, <4>2
      <4>3. CASE i # Len(q) + 1
        <5>1. i \in 1..Len(q) /\ toPage'[p][i] = q[i]
          BY <2>2, <2>3, <3>2, <4>1, <4>3
        <5>2. q[i] \in 1..sequence
          BY <3>1, <3>2, <5>1 DEF q
        <5>. QED  BY <1>0, <5>1, <5>2
      <4>. QED  BY <4>2, <4>3
    <3>3. CASE p # socket
      BY <1>0, <2>2, <3>1, <3>3
    <3>. QED  BY <3>2, <3>3
  <2>5. Numbered'
    <3>1. finished' \subseteq 1..sequence'
      BY <1>0, <1>2 DEF Numbered, Dispatches
    <3>2. ASSUME NEW p \in Page
          PROVE  playing'[p] <= sequence' /\ markers'[p].active <= sequence'
      BY <1>0, <1>2 DEF Numbered, Marker
    <3>3. ASSUME NEW p \in Page, NEW i \in 1..Len(toServer'[p])
          PROVE  toServer'[p][i].active <= sequence'
      <4>1. PICK j \in 1..Len(toServer[p]) : toServer'[p][i] = toServer[p][j]
        BY DEF OnlyOlderMessages
      <4>2. toServer[p][j] \in Marker
        BY <1>0
      <4>. QED  BY <1>0, <1>2, <4>1, <4>2 DEF Numbered, Marker
    <3>. QED  BY <1>2, <2>4, <3>1, <3>2, <3>3 DEF Numbered, Dispatches
  <2>6. RuntimeSound(rt)' /\ \A a \in rt'.active : a.id = sequence' /\ a.status = "loading"
    <3>1. /\ RuntimeSound(Begun(s, sequence + 1))
          /\ \A a \in Begun(s, sequence + 1).active : a.id = sequence + 1 /\ a.status = "loading"
      BY <1>0, BegunSound
    <3>2. RuntimeSound(rt')
      BY <1>2, <3>1
    <3>. QED  BY <1>2, <3>1, <3>2 DEF RuntimeSound
  <2>7. NewestIsCurrent'
    <3>1. ASSUME NEW p \in Page PROVE markers[p].active # sequence + 1
      BY <1>0 DEF Numbered, Marker
    <3>. QED  BY <1>2, <2>4, <3>1 DEF NewestIsCurrent
  <2>8. ActiveSound(rt)'
    BY <1>0, <1>2, <2>6, <2>7 DEF ActiveSound
  <2>9. NewestComesLast'
    <3>1. ASSUME NEW p \in Page PROVE markers[p].active # sequence + 1
      BY <1>0 DEF Numbered, Marker
    <3>. QED  BY <1>2, <2>4, <3>1 DEF NewestComesLast
  <2>10. NoMessageAhead'
    <3>1. ASSUME NEW p \in Page, NEW i \in 1..Len(toServer'[p])
          PROVE  toServer'[p][i].active # sequence'
      <4>1. PICK j \in 1..Len(toServer[p]) : toServer'[p][i] = toServer[p][j]
        BY DEF OnlyOlderMessages
      <4>2. toServer[p][j] \in Marker
        BY <1>0
      <4>. QED  BY <1>0, <1>2, <4>1, <4>2 DEF Numbered, Marker
    <3>. QED  BY <3>1 DEF NoMessageAhead
  <2>11. EndsAreReal'
    BY DEF PagesSound, EndsAreReal, OnlyOlderMessages
  <2>12. HostsAreCurrent'
    BY <1>2 DEF HostsAreCurrent
  <2>. QED  BY <1>0, <1>2, <2>2, <2>5, <2>6, <2>8, <2>9, <2>10, <2>11, <2>12 DEF PagesSound
<1>. QED  BY <1>1, <1>2 DEF BroadcastAndSendNext

-----------------------------------------------------------------------------
(* The steps.                                                              *)

\* Before anybody connects there is nothing to be said.
LEMMA InitInv == Init => RenderInv
<1> SUFFICES ASSUME Init PROVE RenderInv
  OBVIOUS
<1>. USE DEF Init
<1>1. Typed
  <2>1. loads \in Seq(Load) /\ <<>> \in Seq(Nat) /\ <<>> \in Seq(Marker)
    OBVIOUS
  <2>2. [active |-> 0, done |-> 0] \in Marker
    BY DEF Marker
  <2>. QED  BY <2>1, <2>2, TimelineAssumption DEF Typed
<1>2. Numbered
  BY DEF Numbered, Dispatches
<1>3. RuntimeSound(rt)
  BY TimelineAssumption DEF RuntimeSound, Runtime, State
<1>4. ActiveSound(rt)
  BY DEF ActiveSound, Runtime
<1>5. HostsAreCurrent
  BY DEF HostsAreCurrent
<1>6. PagesSound
  BY DEF PagesSound, NewestComesLast, NoMessageAhead, EndsAreReal
<1>. QED  BY <1>1, <1>2, <1>3, <1>4, <1>5, <1>6 DEF RenderInv

\* A step that leaves the pages and the dispatches alone.
LEMMA PagesUntouched ==
  ASSUME RenderInv, UNCHANGED <<sequence, toPage, toServer, markers, playing, finished>>
  PROVE  Numbered' /\ PagesSound'
BY DEF RenderInv, Numbered, Dispatches, PagesSound, NewestComesLast, NoMessageAhead, EndsAreReal

\* A step that leaves the runtime and what it depends on alone.
LEMMA RuntimeUntouched ==
  ASSUME RenderInv, UNCHANGED <<rt, hosts, socket, sequence, toPage, markers>>
  PROVE  RuntimeSound(rt)' /\ ActiveSound(rt)' /\ HostsAreCurrent'
BY DEF RenderInv, RuntimeSound, ActiveSound, NewestIsCurrent, HostsAreCurrent

\* A new connection: what was active is cancelled.
LEMMA ConnectInv == ASSUME RenderInv, NEW p \in Page, Connect(p) PROVE RenderInv'
<1>. USE DEF RenderInv, Connect
<1>1. Typed'
  BY DEF Typed, disk
<1>2. Numbered' /\ PagesSound'
  BY PagesUntouched
<1>3. RuntimeSound(rt') /\ rt'.active = {}
  <2>1. /\ RuntimeSound(Cancelled(Connected(rt, TRUE)))
        /\ Cancelled(Connected(rt, TRUE)).active = {}
    BY DroppedSound
  <2>. QED  BY <2>1
<1>4. RuntimeSound(rt)' /\ ActiveSound(rt)'
  BY <1>3 DEF RuntimeSound, ActiveSound
<1>5. HostsAreCurrent'
  BY DEF HostsAreCurrent
<1>. QED  BY <1>1, <1>2, <1>4, <1>5

\* A connection that closes, the current one or a replaced one.
LEMMA ClosedInv == ASSUME RenderInv, NEW p \in Page, Closed(p) PROVE RenderInv'
<1>. USE DEF RenderInv, Closed
<1>1. /\ toPage' \in [Page -> Seq(Nat)] /\ toServer' \in [Page -> Seq(Marker)]
      /\ toPage'[p] = <<>> /\ toServer'[p] = <<>>
      /\ \A q \in Page \ {p} : toPage'[q] = toPage[q] /\ toServer'[q] = toServer[q]
  <2>1. <<>> \in Seq(Nat) /\ <<>> \in Seq(Marker)
    OBVIOUS
  <2>. QED  BY <2>1 DEF Typed
<1>2. Typed'
  BY <1>1 DEF Typed, disk
<1>3. Len(<<>>) = 0
  OBVIOUS
<1>4. Numbered'
  BY <1>1, <1>3 DEF Numbered, Dispatches
<1>5. NewestComesLast' /\ NoMessageAhead' /\ EndsAreReal'
  BY <1>1, <1>3 DEF PagesSound, NewestComesLast, NoMessageAhead, EndsAreReal
<1>6. CASE socket = p
  <2>0. RuntimeSound(Connected(rt, FALSE)) /\ Connected(rt, FALSE).active = {}
    BY DroppedSound
  <2>1. RuntimeSound(rt') /\ rt'.active = {}
    BY <1>6, <2>0
  <2>2. RuntimeSound(rt)' /\ ActiveSound(rt)' /\ HostsAreCurrent'
    BY <1>6, <2>1 DEF RuntimeSound, ActiveSound, HostsAreCurrent
  <2>. QED  BY <1>2, <1>4, <1>5, <2>2 DEF PagesSound
<1>7. CASE socket # p
  <2>1. ActiveSound(rt)'
    BY <1>1, <1>3, <1>7 DEF ActiveSound, NewestIsCurrent
  <2>2. RuntimeSound(rt)' /\ HostsAreCurrent'
    BY <1>7 DEF RuntimeSound, HostsAreCurrent
  <2>. QED  BY <1>2, <1>4, <1>5, <2>1, <2>2 DEF PagesSound
<1>. QED  BY <1>6, <1>7

\* A step of the server that begins what can begin.
LEMMA ServerStep ==
  ASSUME RenderInv, NEW s, RuntimeSound(s), ActiveSound(s), NEW r,
         BroadcastAndSendNext(s, r), OnlyOlderMessages,
         UNCHANGED <<socket, markers, playing, finished, conn>>, ready' \in BOOLEAN,
         loads' \in Seq(Load), file' \in Timeline, decided' \in Timeline, timer' \in BOOLEAN
  PROVE  RenderInv'
<1>1. /\ sequence' \in Nat /\ toPage' \in [Page -> Seq(Nat)]
      /\ Numbered' /\ RuntimeSound(rt)' /\ ActiveSound(rt)' /\ HostsAreCurrent'
      /\ PagesSound'
  BY SentSound
<1>2. Typed'
  BY <1>1 DEF RenderInv, Typed, OnlyOlderMessages
<1>. QED  BY <1>1, <1>2 DEF RenderInv

\* The messages stay where they are.
LEMMA NoMessageTaken == ASSUME RenderInv, UNCHANGED toServer PROVE OnlyOlderMessages
BY DEF RenderInv, Typed, OnlyOlderMessages

\* The state that a message of page p makes of the runtime, before it sends.
LEMMA SyncSound ==
  ASSUME RenderInv, NEW p \in Page, toServer[p] # <<>>
  PROVE  LET m == Head(toServer[p])
             s == MarkedPlaying(rt, m.active)
             u == IF Completes(s, m.done) THEN Completed(s) ELSE s
         IN RuntimeSound(u) /\ ActiveSound(u)
<1> DEFINE m == Head(toServer[p])
           s == MarkedPlaying(rt, m.active)
<1>. USE DEF RenderInv
<1>1. toServer[p] \in Seq(Marker)
  BY DEF Typed
<1>2. m \in Marker /\ m = toServer[p][1] /\ 1 \in 1..Len(toServer[p])
  BY <1>1, TailShrinks
<1>3. m.active = sequence => markers[p].active = sequence
  BY <1>2 DEF PagesSound, NoMessageAhead
<1>4. m.active \in Nat
  BY <1>2 DEF Marker
<1>. HIDE DEF m
<1>5. RuntimeSound(s) /\ ActiveSound(s)
  BY <1>3, <1>4, MarkedSound DEF PagesSound
<1>. HIDE DEF s
<1>6. RuntimeSound(Completed(s)) /\ ActiveSound(Completed(s))
  BY <1>5, CompletedSound DEF ActiveSound
<1>. QED  BY <1>5, <1>6 DEF m, s

\* A message of a page is taken.
LEMMA SyncInv == ASSUME RenderInv, NEW p \in Page, Sync(p) PROVE RenderInv'
<1> DEFINE m == Head(toServer[p])
           s == MarkedPlaying(rt, m.active)
           u == IF Completes(s, m.done) THEN Completed(s) ELSE s
<1>1. BroadcastAndSendNext(u, TRUE)
  BY DEF Sync
<1>2. toServer[p] # <<>> /\ toServer[p] \in Seq(Marker)
  BY DEF Sync, RenderInv, Typed
<1>3. RuntimeSound(u) /\ ActiveSound(u)
  BY <1>2, SyncSound
<1>. HIDE DEF u
<1>4. OnlyOlderMessages
  <2>1. toServer' = [toServer EXCEPT ![p] = Tail(@)]
    BY DEF Sync
  <2>2. toServer \in [Page -> Seq(Marker)]
    BY DEF RenderInv, Typed
  <2>3. /\ Tail(toServer[p]) \in Seq(Marker)
        /\ \A i \in 1..Len(Tail(toServer[p])) :
             i + 1 \in 1..Len(toServer[p]) /\ Tail(toServer[p])[i] = toServer[p][i + 1]
    BY <1>2, TailShrinks
  <2>. QED  BY <2>1, <2>2, <2>3 DEF OnlyOlderMessages
<1>5. /\ UNCHANGED <<socket, markers, playing, finished, conn>> /\ ready' \in BOOLEAN
      /\ UNCHANGED <<loads, file, decided, timer>>
  BY DEF Sync, disk
<1>6. /\ loads \in Seq(Load) /\ file \in Timeline /\ decided \in Timeline
      /\ timer \in BOOLEAN
  BY DEF RenderInv, Typed
<1>. QED  BY <1>1, <1>3, <1>4, <1>5, <1>6, ServerStep

\* A host selects an event.
LEMMA SelectInv ==
  ASSUME RenderInv, NEW e \in DOMAIN rt.timeline.renders, Select(e) PROVE RenderInv'
<1>1. RuntimeSound(Selected(rt, e)) /\ ActiveSound(Selected(rt, e))
  BY SelectedSound, LessIsActive DEF RenderInv
<1>2. BroadcastAndSendNext(Selected(rt, e), ready) /\ OnlyOlderMessages
  BY NoMessageTaken DEF Select
<1>3. UNCHANGED <<socket, markers, playing, finished, conn, ready, loads, file, decided, timer>>
  BY DEF Select, disk
<1>4. /\ ready \in BOOLEAN /\ loads \in Seq(Load) /\ file \in Timeline
      /\ decided \in Timeline /\ timer \in BOOLEAN
  BY DEF RenderInv, Typed
<1>. QED  BY <1>1, <1>2, <1>3, <1>4, ServerStep

\* A reload ends: its timeline is taken, or refused.
LEMMA FinishReloadInv == ASSUME RenderInv, NEW i, FinishReload(i) PROVE RenderInv'
<1> DEFINE t == loads[i].timeline
<1>1. loads \in Seq(Load) /\ i \in 1..Len(loads)
  BY DEF FinishReload, RenderInv, Typed
<1>2. t \in Timeline
  <2>1. loads[i] \in Load
    BY <1>1
  <2>. QED  BY <2>1 DEF Load
<1>3. loads' \in Seq(Load)
  <2>1. i - 1 \in Nat /\ i - 1 <= Len(loads) /\ i + 1 \in Nat \ {0}
    BY <1>1
  <2>2. SubSeq(loads, 1, i - 1) \in Seq(Load) /\ SubSeq(loads, i + 1, Len(loads)) \in Seq(Load)
    BY <1>1, <2>1
  <2>. QED  BY <2>2 DEF FinishReload
<1>4. decided' \in Timeline /\ file' \in Timeline /\ timer' \in BOOLEAN /\ ready' \in BOOLEAN
  BY <1>2 DEF FinishReload, RenderInv, Typed
<1>5. UNCHANGED <<socket, markers, playing, finished, conn, toServer>>
  BY DEF FinishReload
<1>6. CASE Accepts(rt, t)
  <2>1. RuntimeSound(Replaced(rt, t)) /\ ActiveSound(Replaced(rt, t))
    BY <1>2, <1>6, ReplacedSound, LessIsActive DEF RenderInv
  <2>2. BroadcastAndSendNext(Replaced(rt, t), ready)
    BY <1>6 DEF FinishReload
  <2>3. OnlyOlderMessages
    BY <1>5, NoMessageTaken
  <2>. QED  BY <1>3, <1>4, <1>5, <2>1, <2>2, <2>3, ServerStep
<1>7. CASE ~Accepts(rt, t)
  <2>1. UNCHANGED <<rt, sequence, toPage, hosts>>
    BY <1>7 DEF FinishReload
  <2>2. Numbered' /\ PagesSound' /\ RuntimeSound(rt)' /\ ActiveSound(rt)' /\ HostsAreCurrent'
    BY <1>5, <2>1, PagesUntouched, RuntimeUntouched
  <2>3. Typed'
    BY <1>3, <1>4, <1>5, <2>1 DEF RenderInv, Typed
  <2>. QED  BY <2>2, <2>3 DEF RenderInv
<1>. QED  BY <1>6, <1>7

\* An edit of the file, and the steps of a reload before its end.
LEMMA DiskInv ==
  ASSUME RenderInv, UNCHANGED <<server, pages>>,
         loads' \in Seq(Load), file' \in Timeline, timer' \in BOOLEAN, UNCHANGED decided
  PROVE  RenderInv'
<1>1. Numbered' /\ PagesSound' /\ RuntimeSound(rt)' /\ ActiveSound(rt)' /\ HostsAreCurrent'
  BY PagesUntouched, RuntimeUntouched DEF server, pages
<1>2. Typed'
  BY DEF RenderInv, Typed, server, pages
<1>. QED  BY <1>1, <1>2 DEF RenderInv

-----------------------------------------------------------------------------
(* The steps of a page.                                                    *)

\* A page whose markers change, its message being added to its queue.
LEMMA ReportedSound ==
  ASSUME RenderInv, NEW p \in Page, NEW m \in Marker, Report(p, m)
  PROVE  /\ markers' \in [Page -> Marker] /\ toServer' \in [Page -> Seq(Marker)]
         /\ markers'[p] = m
         /\ \A q \in Page \ {p} : markers'[q] = markers[q] /\ toServer'[q] = toServer[q]
         /\ \A i \in 1..Len(toServer'[p]) :
              \/ toServer'[p][i] = m
              \/ i \in 1..Len(toServer[p]) /\ toServer'[p][i] = toServer[p][i]
<1>1. markers \in [Page -> Marker] /\ toServer \in [Page -> Seq(Marker)]
  BY DEF RenderInv, Typed
<1>2. /\ markers' = [markers EXCEPT ![p] = m]
      /\ toServer' = [toServer EXCEPT ![p] = Append(toServer[p], m)]
  BY DEF Report
<1> DEFINE q == toServer[p]
<1>3. q \in Seq(Marker) /\ Len(q) \in Nat
  BY <1>1
<1>4. /\ Append(q, m) \in Seq(Marker)
      /\ \A i \in 1..Len(Append(q, m)) :
           \/ Append(q, m)[i] = m
           \/ i \in 1..Len(q) /\ Append(q, m)[i] = q[i]
  BY <1>3, AppendGrows
<1>5. toServer' \in [Page -> Seq(Marker)] /\ toServer'[p] = Append(q, m)
      /\ \A r \in Page \ {p} : toServer'[r] = toServer[r]
  BY <1>1, <1>2, <1>4
<1>6. markers' \in [Page -> Marker] /\ markers'[p] = m
      /\ \A r \in Page \ {p} : markers'[r] = markers[r]
  BY <1>1, <1>2
<1>. QED  BY <1>4, <1>5, <1>6

\* The first message of a page, or another one.
LEMMA ShowInv == ASSUME RenderInv, NEW p \in Page, Show(p) PROVE RenderInv'
<1>1. markers[p] \in Marker /\ markers \in [Page -> Marker]
  BY DEF RenderInv, Typed
<1>2. UNCHANGED <<toPage, playing, finished, conn>> /\ UNCHANGED <<server, disk>>
  BY DEF Show, Report
<1>3. UNCHANGED markers
  BY <1>1 DEF Show, Report
<1>4. /\ toServer' \in [Page -> Seq(Marker)]
      /\ \A q \in Page : \A i \in 1..Len(toServer'[q]) :
           \/ toServer'[q][i] = markers[q]
           \/ i \in 1..Len(toServer[q]) /\ toServer'[q][i] = toServer[q][i]
  BY <1>1, ReportedSound DEF Show
<1>5. Typed'
  BY <1>2, <1>3, <1>4 DEF RenderInv, Typed, server, disk
<1>6. Numbered'
  BY <1>2, <1>3, <1>4 DEF RenderInv, Numbered, Dispatches, server
<1>7. RuntimeSound(rt)' /\ ActiveSound(rt)' /\ HostsAreCurrent'
  BY <1>2, <1>3, RuntimeUntouched DEF server
<1>8. NewestComesLast'
  BY <1>2, <1>3 DEF RenderInv, PagesSound, NewestComesLast, server
<1>9. NoMessageAhead'
  BY <1>2, <1>3, <1>4 DEF RenderInv, PagesSound, NoMessageAhead, server
<1>10. EndsAreReal'
  BY <1>2, <1>3, <1>4 DEF RenderInv, PagesSound, EndsAreReal
<1>. QED  BY <1>5, <1>6, <1>7, <1>8, <1>9, <1>10 DEF RenderInv, PagesSound

\* A page takes the next script from its queue: the newest one is the last.
LEMMA PlayScriptInv == ASSUME RenderInv, NEW p \in Page, PlayScript(p) PROVE RenderInv'
<1> DEFINE id == Head(toPage[p])
           m == [markers[p] EXCEPT !.active = id]
<1>1. /\ markers \in [Page -> Marker] /\ toPage \in [Page -> Seq(Nat)]
      /\ playing \in [Page -> Nat] /\ toPage[p] # <<>> /\ sequence \in Nat
      /\ toServer \in [Page -> Seq(Marker)]
  BY DEF RenderInv, Typed, PlayScript
<1>2. /\ toPage' = [toPage EXCEPT ![p] = Tail(toPage[p])]
      /\ playing' = [playing EXCEPT ![p] = id] /\ Report(p, m) /\ UNCHANGED finished
      /\ UNCHANGED <<server, conn, disk>>
  BY DEF PlayScript, Report
<1>3. /\ id \in Nat /\ id = toPage[p][1] /\ 1 \in 1..Len(toPage[p])
      /\ Tail(toPage[p]) \in Seq(Nat) /\ Len(Tail(toPage[p])) = Len(toPage[p]) - 1
      /\ \A i \in 1..Len(Tail(toPage[p])) :
           i + 1 \in 1..Len(toPage[p]) /\ Tail(toPage[p])[i] = toPage[p][i + 1]
  BY <1>1, TailShrinks
<1>4. /\ toPage' \in [Page -> Seq(Nat)] /\ toPage'[p] = Tail(toPage[p])
      /\ playing' \in [Page -> Nat] /\ playing'[p] = id
      /\ \A q \in Page \ {p} : toPage'[q] = toPage[q] /\ playing'[q] = playing[q]
  BY <1>1, <1>2, <1>3
<1>5. id \in 1..sequence
  BY <1>3 DEF RenderInv, Numbered, Dispatches
<1>6. m \in Marker /\ m.active = id /\ m.done = markers[p].done
  BY <1>1, <1>3 DEF Marker
<1>. HIDE DEF m, id
<1>7. /\ markers' \in [Page -> Marker] /\ toServer' \in [Page -> Seq(Marker)]
      /\ markers'[p] = m
      /\ \A q \in Page \ {p} : markers'[q] = markers[q] /\ toServer'[q] = toServer[q]
      /\ \A i \in 1..Len(toServer'[p]) :
           \/ toServer'[p][i] = m
           \/ i \in 1..Len(toServer[p]) /\ toServer'[p][i] = toServer[p][i]
  BY <1>2, <1>6, ReportedSound
<1>8. Typed'
  BY <1>2, <1>4, <1>7 DEF RenderInv, Typed, server, disk
<1>9. UNCHANGED <<rt, hosts, socket, sequence>>
  BY <1>2 DEF server
<1>10. Numbered'
  <2>1. ASSUME NEW q \in Page
        PROVE  /\ playing'[q] <= sequence' /\ markers'[q].active <= sequence'
               /\ \A i \in 1..Len(toServer'[q]) : toServer'[q][i].active <= sequence'
    <3>1. /\ playing[q] <= sequence /\ markers[q].active <= sequence
          /\ \A i \in 1..Len(toServer[q]) : toServer[q][i].active <= sequence
      BY DEF RenderInv, Numbered
    <3>2. id <= sequence
      BY <1>1, <1>5
    <3>3. CASE q = p
      BY <1>4, <1>6, <1>7, <1>9, <3>1, <3>2, <3>3
    <3>4. CASE q # p
      BY <1>4, <1>7, <1>9, <3>1, <3>4
    <3>. QED  BY <3>3, <3>4
  <2>2. ASSUME NEW q \in Page, NEW i \in 1..Len(toPage'[q])
        PROVE  toPage'[q][i] \in 1..sequence
    <3>1. \A x \in Page : \A j \in 1..Len(toPage[x]) : toPage[x][j] \in 1..sequence
      BY DEF RenderInv, Numbered, Dispatches
    <3>2. CASE q = p
      <4>1. i \in 1..Len(Tail(toPage[p])) /\ toPage'[q][i] = Tail(toPage[p])[i]
        BY <1>4, <3>2
      <4>2. i + 1 \in 1..Len(toPage[p]) /\ toPage'[q][i] = toPage[p][i + 1]
        BY <1>3, <4>1
      <4>. QED  BY <3>1, <4>2
    <3>3. CASE q # p
      <4>1. toPage'[q] = toPage[q]
        BY <1>4, <3>3
      <4>. QED  BY <3>1, <4>1
    <3>. QED  BY <3>2, <3>3
  <2>. QED  BY <1>2, <1>9, <2>1, <2>2 DEF RenderInv, Numbered, Dispatches
<1>11. NewestComesLast'
  <2>1. ASSUME NEW q \in Page, NEW i \in 1..Len(toPage'[q]), toPage'[q][i] = sequence
        PROVE  i = Len(toPage'[q])
    <3>1. CASE q = p
      <4>1. i \in 1..Len(Tail(toPage[p])) /\ Tail(toPage[p])[i] = sequence
        BY <1>4, <2>1, <3>1
      <4>2. i + 1 \in 1..Len(toPage[p]) /\ toPage[p][i + 1] = sequence
        BY <1>3, <4>1
      <4>3. i + 1 = Len(toPage[p])
        BY <4>2 DEF RenderInv, PagesSound, NewestComesLast
      <4>4. i = Len(toPage[p]) - 1
        BY <4>1, <4>3
      <4>. QED  BY <1>3, <1>4, <3>1, <4>4
    <3>2. CASE q # p
      BY <1>4, <2>1, <3>2 DEF RenderInv, PagesSound, NewestComesLast
    <3>. QED  BY <3>1, <3>2
  <2>2. ASSUME NEW q \in Page, markers'[q].active = sequence, sequence > 0
        PROVE  toPage'[q] = <<>> /\ (playing'[q] = sequence \/ sequence \in finished')
    <3>1. CASE q = p
      <4>1. id = sequence
        BY <1>6, <1>7, <2>2, <3>1
      <4>2. Len(toPage[p]) = 1
        BY <1>3, <4>1 DEF RenderInv, PagesSound, NewestComesLast
      <4>3. Len(Tail(toPage[p])) = 0
        BY <1>3, <4>2
      <4>4. Tail(toPage[p]) = <<>>
        BY <1>3, <4>3, EmptySeq
      <4>. QED  BY <1>4, <3>1, <4>1, <4>4
    <3>2. CASE q # p
      BY <1>2, <1>4, <1>7, <2>2, <3>2 DEF RenderInv, PagesSound, NewestComesLast
    <3>. QED  BY <3>1, <3>2
  <2>. QED  BY <1>9, <2>1, <2>2 DEF NewestComesLast
<1>12. NoMessageAhead'
  <2>1. ASSUME NEW i \in 1..Len(toServer'[p]), toServer'[p][i].active = sequence
        PROVE  m.active = sequence
    <3>1. CASE toServer'[p][i] # m
      <4>1. markers[p].active = sequence
        BY <1>7, <2>1, <3>1 DEF RenderInv, PagesSound, NoMessageAhead
      <4>2. sequence > 0
        BY <1>1, <1>5
      <4>. QED  BY <1>1, <4>1, <4>2 DEF RenderInv, PagesSound, NewestComesLast
    <3>. QED  BY <2>1, <3>1
  <2>. QED  BY <1>7, <1>9, <2>1 DEF RenderInv, PagesSound, NoMessageAhead
<1>13. EndsAreReal'
  BY <1>2, <1>6, <1>7 DEF RenderInv, PagesSound, EndsAreReal
<1>14. ActiveSound(rt)'
  <2>1. ASSUME rt.active # {}
        PROVE  \A q \in Page \ {socket} :
                 /\ markers'[q].active # sequence
                 /\ \A i \in 1..Len(toPage'[q]) : toPage'[q][i] # sequence
    <3>1. NewestIsCurrent
      BY <2>1 DEF RenderInv, ActiveSound
    <3>2. ASSUME p # socket
          PROVE  id # sequence /\ \A i \in 1..Len(toPage'[p]) : toPage'[p][i] # sequence
      <4>1. \A i \in 1..Len(toPage[p]) : toPage[p][i] # sequence
        BY <3>1, <3>2 DEF NewestIsCurrent
      <4>. QED  BY <1>3, <1>4, <4>1
    <3>3. ASSUME NEW q \in Page \ {socket}
          PROVE  /\ markers'[q].active # sequence
                 /\ \A i \in 1..Len(toPage'[q]) : toPage'[q][i] # sequence
      <4>1. CASE q = p
        BY <1>6, <1>7, <3>2, <4>1
      <4>2. CASE q # p
        BY <1>4, <1>7, <3>1, <4>2 DEF NewestIsCurrent
      <4>. QED  BY <4>1, <4>2
    <3>. QED  BY <3>3
  <2>2. ASSUME NEW a \in rt.active, a.status = "playing"
        PROVE  markers'[socket].active = sequence
    <3>1. markers[socket].active = sequence /\ sequence > 0 /\ socket \in Page
      BY <2>2 DEF RenderInv, ActiveSound, Typed
    <3>2. toPage[socket] = <<>>
      BY <3>1 DEF RenderInv, PagesSound, NewestComesLast
    <3>3. socket # p
      BY <1>1, <3>2
    <3>. QED  BY <1>7, <3>1, <3>3
  <2>. QED  BY <1>9, <2>1, <2>2 DEF RenderInv, ActiveSound, NewestIsCurrent
<1>15. RuntimeSound(rt)' /\ HostsAreCurrent'
  BY <1>9 DEF RenderInv, RuntimeSound, HostsAreCurrent
<1>. QED  BY <1>8, <1>10, <1>11, <1>12, <1>13, <1>14, <1>15 DEF RenderInv, PagesSound

\* A page has played its script to the end.
LEMMA EndScriptInv == ASSUME RenderInv, NEW p \in Page, EndScript(p) PROVE RenderInv'
<1> DEFINE id == playing[p]
           m == [markers[p] EXCEPT !.done = id]
<1>1. /\ markers \in [Page -> Marker] /\ playing \in [Page -> Nat] /\ id # 0
      /\ sequence \in Nat
  BY DEF RenderInv, Typed, EndScript
<1>2. /\ playing' = [playing EXCEPT ![p] = 0] /\ finished' = finished \cup {id}
      /\ Report(p, m) /\ UNCHANGED toPage
      /\ UNCHANGED <<server, conn, disk>>
  BY DEF EndScript, Report
<1>3. playing' \in [Page -> Nat] /\ playing'[p] = 0
      /\ \A q \in Page \ {p} : playing'[q] = playing[q]
  BY <1>1, <1>2
<1>4. id \in 1..sequence
  BY <1>1 DEF RenderInv, Numbered
<1>5. m \in Marker /\ m.active = markers[p].active /\ m.done = id
  BY <1>1 DEF Marker
<1>. HIDE DEF m, id
<1>6. /\ markers' \in [Page -> Marker] /\ toServer' \in [Page -> Seq(Marker)]
      /\ markers'[p] = m
      /\ \A q \in Page \ {p} : markers'[q] = markers[q] /\ toServer'[q] = toServer[q]
      /\ \A i \in 1..Len(toServer'[p]) :
           \/ toServer'[p][i] = m
           \/ i \in 1..Len(toServer[p]) /\ toServer'[p][i] = toServer[p][i]
  BY <1>2, <1>5, ReportedSound
<1>7. UNCHANGED <<rt, hosts, socket, sequence, toPage>>
  BY <1>2 DEF server
<1>8. \A q \in Page : markers'[q].active = markers[q].active
  BY <1>5, <1>6
<1>9. Typed'
  BY <1>2, <1>3, <1>6, <1>7 DEF RenderInv, Typed, server, disk
<1>10. Numbered'
  <2>1. ASSUME NEW q \in Page
        PROVE  playing'[q] <= sequence /\ markers'[q].active <= sequence
    BY <1>1, <1>3, <1>8 DEF RenderInv, Numbered
  <2>2. ASSUME NEW q \in Page, NEW i \in 1..Len(toServer'[q])
        PROVE  toServer'[q][i].active <= sequence
    BY <1>5, <1>6 DEF RenderInv, Numbered
  <2>3. finished' \subseteq 1..sequence
    BY <1>2, <1>4 DEF RenderInv, Numbered, Dispatches
  <2>. QED  BY <1>7, <2>1, <2>2, <2>3 DEF RenderInv, Numbered, Dispatches
<1>11. NewestComesLast'
  <2>1. ASSUME NEW q \in Page, markers'[q].active = sequence, sequence > 0
        PROVE  toPage'[q] = <<>> /\ (playing'[q] = sequence \/ sequence \in finished')
    <3>1. toPage[q] = <<>> /\ (playing[q] = sequence \/ sequence \in finished)
      BY <1>8, <2>1 DEF RenderInv, PagesSound, NewestComesLast
    <3>. QED  BY <1>2, <1>3, <1>7, <3>1 DEF id
  <2>. QED  BY <1>7, <2>1 DEF RenderInv, PagesSound, NewestComesLast
<1>12. NoMessageAhead'
  <2>1. ASSUME NEW q \in Page, NEW i \in 1..Len(toServer'[q]), toServer'[q][i].active = sequence
        PROVE  markers[q].active = sequence
    <3>1. CASE q = p
      BY <1>5, <1>6, <2>1, <3>1 DEF RenderInv, PagesSound, NoMessageAhead
    <3>2. CASE q # p
      BY <1>6, <2>1, <3>2 DEF RenderInv, PagesSound, NoMessageAhead
    <3>. QED  BY <3>1, <3>2
  <2>. QED  BY <1>7, <1>8, <2>1 DEF NoMessageAhead
<1>13. EndsAreReal'
  BY <1>2, <1>5, <1>6 DEF RenderInv, PagesSound, EndsAreReal
<1>14. ActiveSound(rt)'
  <2>1. ASSUME rt.active # {} PROVE socket \in Page
    BY <2>1 DEF RenderInv, ActiveSound, Typed
  <2>. QED  BY <1>7, <1>8, <2>1 DEF RenderInv, ActiveSound, NewestIsCurrent
<1>15. RuntimeSound(rt)' /\ HostsAreCurrent'
  BY <1>7 DEF RenderInv, RuntimeSound, HostsAreCurrent
<1>. QED  BY <1>9, <1>10, <1>11, <1>12, <1>13, <1>14, <1>15 DEF RenderInv, PagesSound

\* Every step keeps the invariant.
LEMMA NextInv == RenderInv /\ [Next]_vars => RenderInv'
<1> SUFFICES ASSUME RenderInv, [Next]_vars PROVE RenderInv'
  OBVIOUS
<1>0. /\ loads \in Seq(Load) /\ file \in Timeline /\ timer \in BOOLEAN
  BY DEF RenderInv, Typed
<1>1. ASSUME NEW p \in Page, Connect(p) \/ Closed(p) \/ Sync(p) \/ Play(p) \/ Show(p)
      PROVE  RenderInv'
  BY <1>1, ConnectInv, ClosedInv, SyncInv, PlayScriptInv, EndScriptInv, ShowInv DEF Play
<1>2. ASSUME NEW e \in DOMAIN rt.timeline.renders, Select(e) PROVE RenderInv'
  BY <1>2, SelectInv
<1>3. ASSUME NEW t \in Timeline, Edit(t) PROVE RenderInv'
  BY <1>0, <1>3, DiskInv DEF Edit
<1>4. CASE StartReload
  <2>1. Unread \in Load
    BY TimelineAssumption DEF Unread, Load
  <2>2. Append(loads, Unread) \in Seq(Load)
    BY <1>0, <2>1
  <2>. QED  BY <1>0, <1>4, <2>2, DiskInv DEF StartReload
<1>5. ASSUME NEW i \in 1..Len(loads), ReadFile(i) PROVE RenderInv'
  <2>1. [read |-> TRUE, timeline |-> file] \in Load
    BY <1>0 DEF Load
  <2>2. [loads EXCEPT ![i] = [read |-> TRUE, timeline |-> file]] \in Seq(Load)
    BY <1>0, <2>1, ExceptSeq
  <2>. QED  BY <1>0, <1>5, <2>2, DiskInv DEF ReadFile
<1>6. ASSUME NEW i \in 1..Len(loads), FinishReload(i) PROVE RenderInv'
  BY <1>6, FinishReloadInv
<1>7. CASE UNCHANGED vars
  BY <1>0, <1>7, DiskInv DEF vars, disk
<1>. QED  BY <1>1, <1>2, <1>3, <1>4, <1>5, <1>6, <1>7 DEF Next, Reload

-----------------------------------------------------------------------------
(* Theorems.                                                               *)

\* The inductive invariant is one.
THEOREM InvAlways == Spec => []RenderInv
BY InitInv, NextInv, PTL DEF Spec

\* The records, queues and connections of the server and of the pages keep
\* their types, and every dispatch number that turns up has been given out.
THEOREM TypeCorrect == Spec => []TypeOK
BY InvAlways, TypesFromInv, PTL

\* replaceTimeline, selectEvent and completeActive, in any order with reloads
\* that read the file at any time: the runtime's timeline always has the
\* selected event and every render that was played or is active.
THEOREM HistoryIsKept == Spec => []TimelineKeepsHistory
BY InvAlways, HistoryFromInv, PTL

\* What the hosts are told to be playing is what the page of the current
\* connection plays or has just played, never the echo of a replaced page or
\* of an older dispatch, and they are told after every handler.
THEOREM StageIsTold == Spec => []StageIsCurrent
BY InvAlways, StageFromInv, PTL

\* A step that adds the active render to the played ones comes after a page
\* has played that very dispatch to its end.
LEMMA PlayedStep ==
  RenderInv /\ [Next]_vars =>
    [\A a \in rt.active : a.key \in rt'.played \ rt.played => a.id \in finished]_vars
<1> SUFFICES ASSUME RenderInv, Next, NEW a \in rt.active, a.key \in rt'.played \ rt.played
             PROVE  a.id \in finished
  OBVIOUS
<1>1. ASSUME NEW s, s \in State, NEW r, BroadcastAndSendNext(s, r)
      PROVE  rt'.played = s.played
  <2>1. Begun(s, sequence + 1).played = s.played
    BY <1>1 DEF Begun, State
  <2>. QED  BY <1>1, <2>1 DEF BroadcastAndSendNext
<1>2. rt \in State /\ RuntimeSound(rt)
  BY DEF RenderInv, RuntimeSound
<1>3. ASSUME NEW p \in Page, Connect(p) \/ Closed(p) PROVE rt'.played = rt.played
  BY <1>2, <1>3 DEF Connect, Closed, Connected, Cancelled, State
<1>4. ASSUME NEW p \in Page, Sync(p) PROVE a.id \in finished
  <2> DEFINE m == Head(toServer[p])
             s == MarkedPlaying(rt, m.active)
             u == IF Completes(s, m.done) THEN Completed(s) ELSE s
  <2>1. BroadcastAndSendNext(u, TRUE) /\ toServer[p] # <<>>
    BY <1>4 DEF Sync
  <2>2. u \in State
    BY <2>1, SyncSound DEF RuntimeSound
  <2>. HIDE DEF u
  <2>3. rt'.played = u.played
    BY <1>1, <2>1, <2>2
  <2>4. s.played = rt.played
    BY <1>2 DEF MarkedPlaying, State
  <2>5. Completes(s, m.done)
    BY <2>3, <2>4 DEF u
  <2>6. PICK b \in s.active : b.id = m.done
    BY <2>5 DEF Completes, IsActive
  <2>7. ASSUME NEW c \in rt.active PROVE c.id = sequence /\ sequence > 0
    BY DEF RenderInv, ActiveSound
  <2>8. toServer[p] \in Seq(Marker)
    BY DEF RenderInv, Typed
  <2>9. m = toServer[p][1] /\ 1 \in 1..Len(toServer[p]) /\ m \in Marker
    BY <2>1, <2>8, TailShrinks
  <2>10. m.done \in finished \cup {0}
    BY <2>9 DEF RenderInv, PagesSound, EndsAreReal
  <2>11. m.active = sequence => markers[p].active = sequence
    BY <2>9 DEF RenderInv, PagesSound, NoMessageAhead
  <2>12. m.active \in Nat
    BY <2>9 DEF Marker
  <2>. HIDE DEF m
  <2>13. ActiveSound(s)
    BY <2>11, <2>12, MarkedSound DEF RenderInv, PagesSound
  <2>14. b.id = sequence
    BY <2>6, <2>13 DEF ActiveSound
  <2>. QED  BY <2>6, <2>7, <2>10, <2>14
<1>5. ASSUME NEW e \in DOMAIN rt.timeline.renders, Select(e) PROVE rt'.played = rt.played
  <2>1. Selected(rt, e) \in State
    BY <1>2, SelectedSound DEF RuntimeSound
  <2>2. Selected(rt, e).played = rt.played
    BY <1>2 DEF Selected, State
  <2>. QED  BY <1>1, <1>5, <2>1, <2>2 DEF Select
<1>6. ASSUME NEW i \in 1..Len(loads), FinishReload(i) PROVE rt'.played = rt.played
  <2> DEFINE t == loads[i].timeline
  <2>1. t \in Timeline
    <3>1. loads[i] \in Load
      BY DEF RenderInv, Typed
    <3>. QED  BY <3>1 DEF Load
  <2>2. CASE Accepts(rt, t)
    <3>1. Replaced(rt, t) \in State
      BY <1>2, <2>1, <2>2, ReplacedSound DEF RuntimeSound
    <3>2. Replaced(rt, t).played = rt.played
      BY <1>2 DEF Replaced, State
    <3>. QED  BY <1>1, <1>6, <2>2, <3>1, <3>2 DEF FinishReload
  <2>3. CASE ~Accepts(rt, t)
    BY <1>6, <2>3 DEF FinishReload
  <2>. QED  BY <2>2, <2>3
<1>7. ASSUME UNCHANGED server PROVE rt'.played = rt.played
  BY <1>7 DEF server
<1>8. ASSUME NEW p \in Page, Play(p) \/ Show(p) PROVE UNCHANGED server
  BY <1>8 DEF Play, PlayScript, EndScript, Show, Report
<1>9. ASSUME NEW t \in Timeline, Edit(t) PROVE UNCHANGED server
  BY <1>9 DEF Edit
<1>10. CASE StartReload \/ \E i \in 1..Len(loads) : ReadFile(i)
  BY <1>7, <1>10 DEF StartReload, ReadFile
<1>. QED  BY <1>3, <1>4, <1>5, <1>6, <1>7, <1>8, <1>9, <1>10 DEF Next, Reload

\* _completeActive: a render is counted as played only when the dispatch that
\* is active has been played to its end by a page; no end of another dispatch
\* and no message of a replaced page completes it early.
THEOREM OnlyPlayedCounts == Spec => PlayedWasShown
BY InvAlways, PlayedStep, PTL DEF Spec, PlayedWasShown
=============================================================================
