------------------------- MODULE PublicationProofs --------------------------
(***************************************************************************)
(* The safety properties of a run and of what it publishes, for any number *)
(* of runs, any budget, any judgements and any number of attempts.         *)
(*                                                                         *)
(* Each run's pc tells how far its work is; the inductive invariant says   *)
(* so: only a run in its loop decides and holds the lock, a run past its   *)
(* loop was refused no call, and what it has written agrees with its pc.   *)
(***************************************************************************)
EXTENDS Publication, TLAPS

Early   == {"new", "creating", "building", "linked", "opened", "loaded"}
Later   == {"ran", "exported", "published", "attested"}
States  == {"idle", "asking", "sent", "decided", "failed"}
Kinds   == {"score_poignancy", "plan", "plan_action"}
Builder == Run \cup {"found"}

File == [by : Builder, revision : Nat, identified : BOOLEAN]

Decision == [state : States, todo : Seq(Kinds), round : 1..2, tries : 0..MaxTransportAttempts]

Ledger == [used : Nat, exhausted : {"no", "fenced", "unfenced"}, results : Nat, silent : Nat]

Database ==
  /\ pc \in [Run -> Where]
  /\ file \in File \cup {None}
  /\ temp \in [Run -> File \cup {None}]
  /\ opened \in [Run -> Builder \cup {None}]
  /\ version \in Nat
  /\ loaded \in [Run -> 0..version]
  /\ \A r \in Run :
       /\ pc[r] = "building" => temp[r] \in File
       /\ pc[r] = "opened" => opened[r] # None

Calls ==
  /\ paused \in BOOLEAN
  /\ decision \in [Run -> Decision]
  /\ ledger \in [Run -> Ledger]
  /\ \A r \in Run : decision[r].state \in {"asking", "sent"} => decision[r].todo # <<>>

Files ==
  /\ lock \in Run \cup {None}
  /\ final \in [Run -> 0..version]
  /\ candidate \in [Run -> 0..version]
  /\ story \in [version : 0..version, by : Run \cup {None}]
  /\ reading \in 0..version
  /\ outcome \in [Run -> [result : {"none", "completed", "failed"}, calls : Nat]]
  /\ canonical \in Run \cup {None}

Shaped == Database /\ Calls /\ Files

\* What the pc of a run says of the rest.
Placed(r) ==
  /\ decision[r].state # "idle" => pc[r] = "running"
  /\ lock = r => pc[r] = "running"
  /\ ledger[r].exhausted # "no" => pc[r] \in {"running", "failing", "done", "stopped"}
  /\ pc[r] \in {"loaded", "running"} \cup Later => version > 0
  /\ pc[r] \in Later => final[r] > 0
  /\ pc[r] = "exported" => candidate[r] >= final[r]
  /\ outcome[r].result # "none" => pc[r] \in {"attested", "done", "stopped"}
  /\ pc[r] = "attested" => outcome[r].result = "completed"

\* What the files that a run has written say of it.
Written(r) ==
  /\ outcome[r].result = "completed" => ledger[r].exhausted = "no"
  /\ canonical = r => pc[r] = "done" /\ outcome[r].result = "completed"
  /\ story.by = r =>
       /\ pc[r] \in {"published", "attested", "done", "stopped"}
       /\ ledger[r].exhausted = "no"
       /\ outcome[r].result # "failed"
       /\ story.version >= final[r] /\ final[r] > 0
  /\ ledger[r].exhausted = "fenced" /\ lock = r => paused

IInv ==
  /\ Shaped /\ DatabaseIsWhole /\ CallsAccounted
  /\ \A r \in Run : Placed(r) /\ Written(r)

-----------------------------------------------------------------------------

\* One run's number of calls that have ended, and the calls it has in flight.
Ended(l)    == l.results + l.silent
InFlight(d) == IF d.state = "sent" THEN 1 ELSE 0

\* The bounds are numbers.
LEMMA Bounds == /\ CallLimit \in Nat /\ MaxTransportAttempts \in Nat
                /\ 1 \in 0..MaxTransportAttempts /\ 0 \in 0..MaxTransportAttempts
                /\ 0 <= CallLimit
                /\ HeadRevision \in Nat /\ HeadRevision - 1 \in Nat
  BY CallAssumption, HeadAssumption

\* The initial states satisfy the invariant.
LEMMA InitInv == Init => IInv
<1> USE RunAssumption, HeadAssumption, FoundAssumption, Bounds
<1> SUFFICES ASSUME Init PROVE IInv
  OBVIOUS
<1>1. Database
  <2>1. \A n \in Nat : Found(n) \in File  BY DEF Found, File, Builder
  <2> QED  BY <2>1 DEF Init, DatabaseInit, Database, Where
<1>2. Calls
  BY DEF Init, CallsInit, Calls, NoDecision, EmptyLedger, Decision, Ledger, States
<1>3. Files
  BY DEF Init, DatabaseInit, Files, Manifest
<1>4. DatabaseIsWhole
  BY DEF Init, DatabaseInit, DatabaseIsWhole, Found, Valid
<1>5. \A r \in Run : Placed(r)
  BY DEF Init, DatabaseInit, CallsInit, Placed, NoDecision, EmptyLedger, Later, Manifest
<1>6. CallsAccounted
  <2>1. \A r \in Run : /\ ledger[r].used = 0 /\ ledger[r].results = 0 /\ ledger[r].silent = 0
                       /\ decision[r].state = "idle"
                       /\ outcome[r].result = "none"
    BY DEF Init, CallsInit, NoDecision, EmptyLedger, Manifest
  <2>2. \A r \in Run : /\ ledger[r].used = Ended(ledger[r]) + InFlight(decision[r])
                       /\ ledger[r].used <= CallLimit
                       /\ outcome[r].result # "none" => outcome[r].calls = Ended(ledger[r])
    <3> TAKE r \in Run
    <3>1. Ended(ledger[r]) = 0 /\ InFlight(decision[r]) = 0
      BY <2>1 DEF Ended, InFlight
    <3>2. 0 <= CallLimit  BY Bounds
    <3> QED  BY <2>1, <3>1, <3>2
  <2> QED  BY <2>2 DEF CallsAccounted, Ended, InFlight
<1>7. \A r \in Run : Written(r)
  BY DEF Init, CallsInit, Written, NoDecision, EmptyLedger, Manifest
<1> QED  BY <1>1, <1>2, <1>3, <1>4, <1>5, <1>6, <1>7 DEF IInv, Shaped

-----------------------------------------------------------------------------
(* Finding the World.                                                      *)

\* A step to find the World stays before the loop, and ends with a World.
LEMMA OpenFacts ==
  ASSUME Database, NEW r \in Run, OpenWorld(r)
  PROVE  /\ pc[r] \in Early
         /\ \E where \in Early \cup {"stopped"} :
              /\ pc' = [pc EXCEPT ![r] = where]
              /\ where = "loaded" => version' > 0
         /\ version' \in Nat /\ version' >= version
<1> USE DEF Database, Early, Goto
<1>1. CASE LoadWorld(r)   BY <1>1 DEF LoadWorld
<1>2. CASE MissWorld(r)   BY <1>2 DEF MissWorld
<1>3. CASE RefuseFile(r)  BY <1>3 DEF RefuseFile
<1>4. CASE OpenFile(r)    BY <1>4 DEF OpenFile
<1>5. CASE InsertWorld(r) BY <1>5 DEF InsertWorld
<1>6. CASE WorldExists(r) BY <1>6 DEF WorldExists
<1>7. CASE MakeTemp(r)    BY <1>7 DEF MakeTemp
<1>8. CASE Migrate(r)
  <2>1. pc' = [pc EXCEPT ![r] = "building"]  BY <1>8 DEF Migrate
  <2> QED  BY <1>8, <2>1 DEF Migrate
<1>9. CASE Identify(r)
  <2>1. pc' = [pc EXCEPT ![r] = "building"]  BY <1>9 DEF Identify
  <2> QED  BY <1>9, <2>1 DEF Identify
<1>10. CASE Link(r)       BY <1>10 DEF Link
<1>11. CASE RemoveTemp(r)
  <2>1. pc' = [pc EXCEPT ![r] = "linked"]  BY <1>11 DEF RemoveTemp
  <2> QED  BY <1>11, <2>1 DEF RemoveTemp
<1> QED  BY <1>1, <1>2, <1>3, <1>4, <1>5, <1>6, <1>7, <1>8, <1>9, <1>10, <1>11 DEF OpenWorld

\* It keeps the database whole.
LEMMA OpenKeeps ==
  ASSUME Database, DatabaseIsWhole, NEW r \in Run, OpenWorld(r)
  PROVE  Database' /\ DatabaseIsWhole'
<1> USE RunAssumption, HeadAssumption, FoundAssumption
        DEF Database, DatabaseIsWhole, Goto, Where, Builder
<1>1. CASE LoadWorld(r)
  <2>1. file.by \in Builder /\ file.by # None  BY <1>1 DEF LoadWorld, File
  <2> QED  BY <1>1, <2>1 DEF LoadWorld
<1>2. CASE MissWorld(r)   BY <1>2 DEF MissWorld
<1>3. CASE RefuseFile(r)  BY <1>3 DEF RefuseFile
<1>4. CASE OpenFile(r)
  <2>1. file.by \in Builder /\ file.by # None  BY <1>4 DEF OpenFile, File
  <2> QED  BY <1>4, <2>1 DEF OpenFile
<1>5. CASE InsertWorld(r) BY <1>5 DEF InsertWorld
<1>6. CASE WorldExists(r) BY <1>6 DEF WorldExists
<1>7. CASE MakeTemp(r)
  <2>1. [by |-> r, revision |-> 0, identified |-> FALSE] \in File  BY DEF File
  <2> QED  BY <1>7, <2>1 DEF MakeTemp
<1>8. CASE Migrate(r)
  <2>1. temp'[r] \in File  BY <1>8 DEF Migrate, File
  <2>2. temp' = [temp EXCEPT ![r] = temp'[r]]  BY <1>8 DEF Migrate
  <2> QED  BY <1>8, <2>1, <2>2 DEF Migrate
<1>9. CASE Identify(r)
  <2>1. temp'[r] \in File  BY <1>9 DEF Identify, File
  <2>2. temp' = [temp EXCEPT ![r] = temp'[r]]  BY <1>9 DEF Identify
  <2> QED  BY <1>9, <2>1, <2>2 DEF Identify
<1>10. CASE Link(r)       BY <1>10 DEF Link
<1>11. CASE RemoveTemp(r) BY <1>11 DEF RemoveTemp
<1> QED  BY <1>1, <1>2, <1>3, <1>4, <1>5, <1>6, <1>7, <1>8, <1>9, <1>10, <1>11 DEF OpenWorld

-----------------------------------------------------------------------------
(* Calls.                                                                  *)

\* A decision with its judgements still to make.
LEMMA Fresh ==
  ASSUME NEW x \in States, NEW q \in Seq(Kinds)
  PROVE  LET d == [NoDecision EXCEPT !.state = x, !.todo = q] IN
         d \in Decision /\ d.state = x /\ d.todo = q
<1>1. NoDecision \in Decision  BY Bounds DEF NoDecision, Decision, States
<1> QED  BY <1>1 DEF Decision

\* What a call or its end may make of a run's decision and ledger.
Judged(r, d, l) ==
  /\ decision' = [decision EXCEPT ![r] = d] /\ d \in Decision
  /\ d.state \in {"asking", "sent"} => d.todo # <<>>
  /\ ledger' = [ledger EXCEPT ![r] = l] /\ l \in Ledger
  /\ l.used = Ended(l) + InFlight(d) /\ l.used <= CallLimit

\* A call keeps the account, and refuses no one without a trace.
LEMMA CallKeeps ==
  ASSUME Calls, NEW r \in Run, Call(r),
         ledger[r].used = Ended(ledger[r]) + InFlight(decision[r]), ledger[r].used <= CallLimit
  PROVE  /\ decision[r].state # "idle"
         /\ paused' \in BOOLEAN /\ (paused => paused')
         /\ \E d \in Decision, l \in Ledger :
              /\ Judged(r, d, l)
              /\ l.exhausted = "fenced" => ledger[r].exhausted = "fenced" \/ paused'
<1> DEFINE D == decision[r]
           L == ledger[r]
<1>0. /\ D \in Decision /\ L \in Ledger /\ decision \in [Run -> Decision]
      /\ D.state \in {"asking", "sent"} => D.todo # <<>>
      /\ ledger \in [Run -> Ledger] /\ paused \in BOOLEAN
      /\ L.used = Ended(L) + InFlight(D) /\ L.used <= CallLimit
  BY DEF Calls
<1>1. CASE Generate(r)
  <2> DEFINE d == [D EXCEPT !.state = "sent", !.tries = 1]
             l == [L EXCEPT !.used = @ + 1]
  <2>1. d \in Decision /\ d.state = "sent" /\ d.todo = D.todo
    BY <1>0, Bounds DEF Decision, States
  <2>2. l \in Ledger /\ l.used = L.used + 1 /\ Ended(l) = Ended(L) /\ l.exhausted = L.exhausted
    BY <1>0 DEF Ledger, Ended
  <2>3. D.state = "asking" /\ L.used < CallLimit /\ paused' = paused
    BY <1>1 DEF Generate
  <2>4. decision' = [decision EXCEPT ![r] = d] /\ ledger' = [ledger EXCEPT ![r] = l]
    BY <1>1 DEF Generate
  <2>5. l.used = Ended(l) + InFlight(d) /\ l.used <= CallLimit
    BY <1>0, <2>1, <2>2, <2>3, Bounds DEF InFlight, Ledger, Ended
  <2>6. Judged(r, d, l)  BY <1>0, <2>1, <2>2, <2>3, <2>4, <2>5 DEF Judged
  <2> QED  BY <1>0, <2>1, <2>2, <2>3, <2>6
<1>2. CASE Exhaust(r)
  <2> DEFINE d == [D EXCEPT !.state = "failed"]
  <2>1. d \in Decision /\ d.state = "failed"
    BY <1>0 DEF Decision, States
  <2>2. D.state = "asking" /\ decision' = [decision EXCEPT ![r] = d]
    BY <1>2 DEF Exhaust, Becomes
  <2>3. CASE L.exhausted = "no"
    <3>1. PICK fenced \in BOOLEAN :
            /\ ledger' = [ledger EXCEPT ![r].exhausted = IF fenced THEN "fenced" ELSE "unfenced"]
            /\ paused' = (paused \/ fenced)
      BY <1>2, <2>3 DEF Exhaust
    <3> DEFINE l == [L EXCEPT !.exhausted = IF fenced THEN "fenced" ELSE "unfenced"]
    <3>2. l \in Ledger /\ l.used = L.used /\ Ended(l) = Ended(L) /\ ledger' = [ledger EXCEPT ![r] = l]
      BY <1>0, <3>1 DEF Ledger, Ended
    <3>3. l.exhausted = "fenced" => paused'
      BY <1>0, <3>1 DEF Ledger
    <3>4. Judged(r, d, l)  BY <1>0, <2>1, <2>2, <3>2 DEF Judged, InFlight
    <3> QED  BY <1>0, <2>1, <2>2, <3>1, <3>2, <3>3, <3>4
  <2>4. CASE L.exhausted # "no"
    <3>1. ledger' = [ledger EXCEPT ![r] = L] /\ paused' = paused
      BY <1>0, <1>2, <2>4 DEF Exhaust
    <3>2. Judged(r, d, L)  BY <1>0, <2>1, <2>2, <3>1 DEF Judged, InFlight
    <3> QED  BY <1>0, <2>1, <2>2, <3>1, <3>2
  <2> QED  BY <2>3, <2>4
<1>3. ASSUME Answer(r) \/ Repair(r) \/ TransportFails(r)
      PROVE  \E d \in Decision, l \in Ledger : Judged(r, d, l) /\ l.exhausted = L.exhausted
  <2> DEFINE l == [L EXCEPT !.results = @ + 1]
  <2>1. /\ l \in Ledger /\ l.used = L.used /\ Ended(l) = Ended(L) + 1
        /\ l.exhausted = L.exhausted
    BY <1>0 DEF Ledger, Ended
  <2>2. D.state = "sent" /\ ledger' = [ledger EXCEPT ![r] = l]
    BY <1>3 DEF Answer, Repair, TransportFails
  <2>3. PICK d \in Decision : /\ decision' = [decision EXCEPT ![r] = d] /\ d.state # "sent"
                              /\ d.state = "asking" => d.todo # <<>>
    <3>1. CASE Answer(r)
      <4> DEFINE rest == Tail(D.todo)
                 x == IF rest = <<>> THEN "decided" ELSE "asking"
                 d == [NoDecision EXCEPT !.state = x, !.todo = rest]
      <4>1. D.todo \in Seq(Kinds) /\ D.todo # <<>>  BY <1>0, <2>2 DEF Decision
      <4>2. rest \in Seq(Kinds) /\ x \in States     BY <4>1 DEF States
      <4>3. d \in Decision /\ d.state = x /\ d.todo = rest
        <5> HIDE DEF rest, x
        <5> QED  BY <4>2, Fresh
      <4>4. decision' = [decision EXCEPT ![r] = d]  BY <3>1 DEF Answer
      <4>5. x # "sent" /\ (x = "asking" => rest # <<>>)
        <5> HIDE DEF rest
        <5> QED  OBVIOUS
      <4> HIDE DEF d, x, rest
      <4> QED  BY <4>3, <4>4, <4>5
    <3>2. CASE Repair(r) /\ D.round = 1
      <4> DEFINE d == [state |-> "asking", todo |-> D.todo, round |-> 2, tries |-> 0]
      <4>1. d \in Decision  BY <1>0, Bounds DEF Decision, States
      <4>2. decision' = [decision EXCEPT ![r] = d]  BY <3>2 DEF Repair
      <4>3. d.state = "asking" /\ d.todo # <<>>  BY <1>0, <2>2
      <4> HIDE DEF d
      <4> QED  BY <4>1, <4>2, <4>3
    <3>3. CASE (Repair(r) /\ D.round # 1) \/ TransportFails(r)
      <4> DEFINE d == [D EXCEPT !.state = "failed"]
      <4>1. d \in Decision /\ d.state = "failed"    BY <1>0 DEF Decision, States
      <4>2. decision' = [decision EXCEPT ![r] = d]  BY <3>3 DEF Repair, TransportFails, Becomes
      <4> QED  BY <4>1, <4>2
    <3> QED  BY <1>3, <3>1, <3>2, <3>3
  <2>4. Judged(r, d, l)
    BY <1>0, <2>1, <2>2, <2>3 DEF Judged, InFlight, Ledger, Ended
  <2> QED  BY <2>1, <2>4
<1>4. CASE Retry(r)
  <2> DEFINE d == [D EXCEPT !.tries = @ + 1]
  <2>1. D.state = "sent" /\ D.tries < MaxTransportAttempts /\ ledger' = [ledger EXCEPT ![r] = L]
    BY <1>0, <1>4 DEF Retry
  <2>2. d \in Decision /\ d.state = "sent" /\ d.todo = D.todo
    <3>1. D.tries + 1 \in 0..MaxTransportAttempts
      BY <1>0, <2>1, Bounds DEF Decision
    <3> QED  BY <1>0, <2>1, <3>1 DEF Decision
  <2>3. decision' = [decision EXCEPT ![r] = d] /\ paused' = paused  BY <1>4 DEF Retry
  <2>4. Judged(r, d, L)  BY <1>0, <2>1, <2>2, <2>3 DEF Judged, InFlight
  <2> QED  BY <1>0, <2>1, <2>2, <2>3, <2>4
<1>5. CASE Refuse(r)
  <2> DEFINE d == [D EXCEPT !.state = "failed"]
             l == [L EXCEPT !.silent = @ + 1]
  <2>1. d \in Decision /\ d.state = "failed"  BY <1>0 DEF Decision, States
  <2>2. /\ l \in Ledger /\ l.used = L.used /\ Ended(l) = Ended(L) + 1
        /\ l.exhausted = L.exhausted
    BY <1>0 DEF Ledger, Ended
  <2>3. /\ D.state = "sent" /\ paused' = paused
        /\ decision' = [decision EXCEPT ![r] = d] /\ ledger' = [ledger EXCEPT ![r] = l]
    BY <1>5 DEF Refuse, Becomes
  <2>4. Judged(r, d, l)  BY <1>0, <2>1, <2>2, <2>3 DEF Judged, InFlight, Ledger, Ended
  <2> QED  BY <1>0, <2>1, <2>2, <2>3, <2>4
<1>6. Answer(r) \/ Repair(r) \/ TransportFails(r) => D.state = "sent" /\ paused' = paused
  BY DEF Answer, Repair, TransportFails
<1> QED  BY <1>0, <1>1, <1>2, <1>3, <1>4, <1>5, <1>6 DEF Call

\* Abandoning a decision keeps the account: a call in flight has raised.
LEMMA AbandonKeeps ==
  ASSUME Calls, NEW r \in Run, Abandon(r),
         ledger[r].used = Ended(ledger[r]) + InFlight(decision[r]), ledger[r].used <= CallLimit
  PROVE  \E d \in Decision, l \in Ledger :
           /\ Judged(r, d, l)
           /\ d.state = "idle"
           /\ l.exhausted = ledger[r].exhausted
           /\ decision[r].state = "idle" => l = ledger[r]
<1> DEFINE L == ledger[r]
<1>1. NoDecision \in Decision /\ NoDecision.state = "idle"
  BY Bounds DEF NoDecision, Decision, States
<1>2. decision' = [decision EXCEPT ![r] = NoDecision]  BY DEF Abandon
<1>3. L \in Ledger /\ ledger \in [Run -> Ledger]       BY DEF Calls
<1>4. CASE decision[r].state = "sent"
  <2> DEFINE l == [L EXCEPT !.silent = @ + 1]
  <2>1. /\ l \in Ledger /\ l.used = L.used /\ Ended(l) = Ended(L) + 1
        /\ l.exhausted = L.exhausted
    BY <1>3 DEF Ledger, Ended
  <2>2. ledger' = [ledger EXCEPT ![r] = l]  BY <1>4 DEF Abandon
  <2>3. Judged(r, NoDecision, l)
    BY <1>1, <1>2, <1>3, <1>4, <2>1, <2>2 DEF Judged, InFlight, Ledger, Ended
  <2> QED  BY <1>1, <1>4, <2>1, <2>3
<1>5. CASE decision[r].state # "sent"
  <2>1. ledger' = [ledger EXCEPT ![r] = L]  BY <1>3, <1>5 DEF Abandon
  <2>2. Judged(r, NoDecision, L)
    BY <1>1, <1>2, <1>3, <1>5, <2>1 DEF Judged, InFlight
  <2> QED  BY <1>1, <1>3, <2>2
<1> QED  BY <1>4, <1>5

\* Then the decisions and the ledgers keep their shape, and the account its
\* balance.
LEMMA JudgedKeeps ==
  ASSUME Calls, NEW r \in Run, NEW d \in Decision, NEW l \in Ledger, Judged(r, d, l),
         paused' \in BOOLEAN
  PROVE  /\ Calls'
         /\ decision'[r] = d /\ ledger'[r] = l
         /\ \A s \in Run \ {r} : decision'[s] = decision[s] /\ ledger'[s] = ledger[s]
<1>1. decision' \in [Run -> Decision] /\ decision'[r] = d
  BY DEF Calls, Judged
<1>2. ledger' \in [Run -> Ledger] /\ ledger'[r] = l
  BY DEF Calls, Judged
<1>3. \A s \in Run \ {r} : decision'[s] = decision[s] /\ ledger'[s] = ledger[s]
  BY DEF Calls, Judged
<1>4. \A s \in Run : decision'[s].state \in {"asking", "sent"} => decision'[s].todo # <<>>
  BY <1>1, <1>3 DEF Calls, Judged
<1> QED  BY <1>1, <1>2, <1>3, <1>4 DEF Calls

-----------------------------------------------------------------------------
(* Every step keeps the invariant.                                         *)


\* The files keep their shape while the version grows.
LEMMA FilesGrow ==
  ASSUME Files, version \in Nat, version' \in Nat, version' >= version,
         UNCHANGED <<lock, final, candidate, reading, files>>
  PROVE  Files'
<1>1. \A n \in 0..version : n \in 0..version'  OBVIOUS
<1>2. final' \in [Run -> 0..version'] /\ candidate' \in [Run -> 0..version']
  BY <1>1 DEF Files
<1>3. story' \in [version : 0..version', by : Run \cup {None}]
  BY <1>1 DEF Files, files
<1> QED  BY <1>1, <1>2, <1>3 DEF Files, files

\* Every action keeps the shape, the account and what the pc says.
LEMMA StepInv == IInv /\ [Next]_vars => IInv'
<1> SUFFICES ASSUME IInv, [Next]_vars PROVE IInv'
  OBVIOUS
<1> USE RunAssumption DEF IInv, Shaped
<1>0. \A r \in Run : /\ ledger[r].used = Ended(ledger[r]) + InFlight(decision[r])
                     /\ ledger[r].used <= CallLimit
                     /\ outcome[r].result # "none" => outcome[r].calls = Ended(ledger[r])
  BY DEF CallsAccounted, Ended, InFlight
<1>a. CallsAccounted' <=>
        \A r \in Run : /\ ledger'[r].used = Ended(ledger'[r]) + InFlight(decision'[r])
                       /\ ledger'[r].used <= CallLimit
                       /\ outcome'[r].result # "none" => outcome'[r].calls = Ended(ledger'[r])
  BY DEF CallsAccounted, Ended, InFlight
<1>1. ASSUME NEW r \in Run, Open(r) PROVE IInv'
  <2> USE <1>1 DEF Open, callVars, files
  <2>1. Database' /\ DatabaseIsWhole'  BY OpenKeeps
  <2>2. PICK where \in Early \cup {"stopped"} :
          /\ pc' = [pc EXCEPT ![r] = where] /\ pc[r] \in Early
          /\ where = "loaded" => version' > 0
          /\ version' \in Nat /\ version' >= version
    BY OpenFacts
  <2>3. Calls'  BY DEF Calls
  <2>4. Files'  BY <2>2, FilesGrow DEF Database
  <2>5. \A s \in Run : Placed(s)'
    BY <2>2 DEF Placed, Database, Early, Later
  <2>6. CallsAccounted'   BY DEF CallsAccounted
  <2>7. \A s \in Run : Written(s)'
    BY <2>2 DEF Written, Placed, Database, Early
  <2> QED  BY <2>1, <2>3, <2>4, <2>5, <2>6, <2>7
<1>2. ASSUME NEW r \in Run, Resume(r) PROVE IInv'
  <2> USE <1>2 DEF Resume, disk, files, Goto
  <2>1. Shaped'           BY DEF Database, Calls, Files, Where
  <2>2. DatabaseIsWhole'  BY DEF DatabaseIsWhole
  <2>3. \A s \in Run : Placed(s)'   BY DEF Placed, Database, Later
  <2>4. CallsAccounted'   BY DEF CallsAccounted
  <2>5. \A s \in Run : Written(s)'  BY DEF Written, Placed, Database
  <2> QED  BY <2>1, <2>2, <2>3, <2>4, <2>5
<1>3. ASSUME NEW r \in Run, Dispatch(r) PROVE IInv'
  <2> USE <1>3 DEF Dispatch, databaseVars, files
  <2>1. PICK todo \in Judgements :
          decision' = [decision EXCEPT ![r] = [NoDecision EXCEPT !.state = "asking", !.todo = todo]]
    BY DEF Begin
  <2>2. todo \in Seq(Kinds) /\ todo # <<>>  BY CallAssumption DEF Kinds
  <2>3. [NoDecision EXCEPT !.state = "asking", !.todo = todo] \in Decision
    BY <2>2, Fresh DEF States
  <2>4. ledger' = ledger /\ decision[r].state = "idle"  BY DEF Begin
  <2>5. Shaped'           BY <2>1, <2>2, <2>3, <2>4 DEF Database, Calls, Files, NoDecision
  <2>6. DatabaseIsWhole'  BY DEF DatabaseIsWhole
  <2>7. \A s \in Run : Placed(s)'   BY <2>1, <2>4 DEF Placed, Calls
  <2>8. CallsAccounted'   BY <1>0, <1>a, <2>1, <2>4 DEF Calls, NoDecision, InFlight
  <2>9. \A s \in Run : Written(s)'  BY <2>4 DEF Written
  <2> QED  BY <2>5, <2>6, <2>7, <2>8, <2>9
<1>4. ASSUME NEW r \in Run, Judge(r) PROVE IInv'
  <2> USE <1>4 DEF Judge, databaseVars, files
  <2>1. decision[r].state # "idle" /\ paused' \in BOOLEAN /\ (paused => paused')
    BY <1>0, CallKeeps
  <2>2. PICK d \in Decision, l \in Ledger :
          /\ Judged(r, d, l)
          /\ l.exhausted = "fenced" => ledger[r].exhausted = "fenced" \/ paused'
    BY <1>0, CallKeeps
  <2>3. /\ Calls'
        /\ decision'[r] = d /\ ledger'[r] = l
        /\ \A s \in Run \ {r} : decision'[s] = decision[s] /\ ledger'[s] = ledger[s]
    BY <2>1, <2>2, JudgedKeeps
  <2>4. Shaped'           BY <2>3 DEF Database, Files
  <2>5. DatabaseIsWhole'  BY DEF DatabaseIsWhole
  <2>6. \A s \in Run : Placed(s)'   BY <2>1, <2>3 DEF Placed, Later
  <2>7. CallsAccounted'   BY <1>0, <1>a, <2>1, <2>2, <2>3 DEF Placed, Judged
  <2>8. \A s \in Run : Written(s)'  BY <2>1, <2>2, <2>3 DEF Written, Placed
  <2> QED  BY <2>4, <2>5, <2>6, <2>7, <2>8
<1>5. ASSUME NEW r \in Run, Commit(r) PROVE IInv'
  <2> USE <1>5 DEF Commit, disk, files
  <2>1. PICK d \in Decision, l \in Ledger :
          /\ Judged(r, d, l)
          /\ d.state = "idle"
          /\ l.exhausted = ledger[r].exhausted
          /\ decision[r].state = "idle" => l = ledger[r]
    BY <1>0, AbandonKeeps
  <2>2. paused' \in BOOLEAN  BY DEF Calls
  <2>3. /\ Calls'
        /\ decision'[r] = d /\ ledger'[r] = l
        /\ \A s \in Run \ {r} : decision'[s] = decision[s] /\ ledger'[s] = ledger[s]
    BY <2>1, <2>2, JudgedKeeps
  <2>4. pc' = pc /\ version' \in Nat /\ version' >= version
    BY DEF Database, Files
  <2>5. Database'         BY DEF Database, Where
  <2>6. Files'            BY <2>4, FilesGrow DEF Database
  <2>7. DatabaseIsWhole'  BY DEF DatabaseIsWhole, Database
  <2>8. \A s \in Run \ {r} :
          /\ pc'[s] = pc[s] /\ final'[s] = final[s] /\ candidate'[s] = candidate[s]
          /\ outcome'[s] = outcome[s] /\ (lock' = s => lock = s)
    BY DEF Database, Files
  <2>9. \A s \in Run : Placed(s)'
    <3>1. Placed(r)'                        BY <2>1, <2>3, <2>4 DEF Placed, Files, Database, Later
    <3>2. ASSUME NEW s \in Run \ {r} PROVE Placed(s)'  BY <2>3, <2>8 DEF Placed, Files, Database
    <3> QED  BY <3>1, <3>2
  <2>10. \A s \in Run : Written(s)'
    <3>1. Written(r)'                        BY <2>1, <2>3, <2>4 DEF Written, Placed, Files
    <3>2. ASSUME NEW s \in Run \ {r} PROVE Written(s)'
      BY <2>3, <2>4, <2>8 DEF Written, Files
    <3> QED  BY <3>1, <3>2
  <2>11. CallsAccounted'   BY <1>0, <1>a, <2>1, <2>3, <2>4 DEF Placed, Judged, InFlight
  <2> QED  BY <2>3, <2>5, <2>6, <2>7, <2>9, <2>10, <2>11
<1>6. ASSUME NEW r \in Run, FailDispatch(r) PROVE IInv'
  <2> USE <1>6 DEF FailDispatch, databaseVars, files
  <2>1. PICK d \in Decision, l \in Ledger :
          /\ Judged(r, d, l)
          /\ d.state = "idle"
          /\ l.exhausted = ledger[r].exhausted
          /\ decision[r].state = "idle" => l = ledger[r]
    BY <1>0, AbandonKeeps
  <2>2. paused' \in BOOLEAN  BY DEF Calls
  <2>3. /\ Calls'
        /\ decision'[r] = d /\ ledger'[r] = l
        /\ \A s \in Run \ {r} : decision'[s] = decision[s] /\ ledger'[s] = ledger[s]
    BY <2>1, <2>2, JudgedKeeps
  <2>4. pc' = pc
    BY DEF Database, Files
  <2>5. Database'         BY DEF Database, Where
  <2>6. Files'            BY DEF Files, Database
  <2>7. DatabaseIsWhole'  BY DEF DatabaseIsWhole
  <2>8. \A s \in Run \ {r} :
          /\ pc'[s] = pc[s] /\ final'[s] = final[s] /\ candidate'[s] = candidate[s]
          /\ outcome'[s] = outcome[s] /\ (lock' = s => lock = s)
    BY DEF Database, Files
  <2>9. \A s \in Run : Placed(s)'
    <3>1. Placed(r)'                        BY <2>1, <2>3, <2>4 DEF Placed, Files, Database, Later
    <3>2. ASSUME NEW s \in Run \ {r} PROVE Placed(s)'  BY <2>3, <2>8 DEF Placed, Files, Database
    <3> QED  BY <3>1, <3>2
  <2>10. \A s \in Run : Written(s)'
    <3>1. Written(r)'                        BY <2>1, <2>3, <2>4 DEF Written, Placed, Files
    <3>2. ASSUME NEW s \in Run \ {r} PROVE Written(s)'
      BY <2>3, <2>4, <2>8 DEF Written, Files
    <3> QED  BY <3>1, <3>2
  <2>11. CallsAccounted'   BY <1>0, <1>a, <2>1, <2>3, <2>4 DEF Placed, Judged, InFlight
  <2> QED  BY <2>3, <2>5, <2>6, <2>7, <2>9, <2>10, <2>11
<1>7. ASSUME NEW r \in Run, Returns(r) PROVE IInv'
  <2> USE <1>7 DEF Returns, Release, Goto, disk, files
  <2>1. PICK d \in Decision, l \in Ledger :
          /\ Judged(r, d, l)
          /\ d.state = "idle"
          /\ l.exhausted = ledger[r].exhausted
          /\ decision[r].state = "idle" => l = ledger[r]
    BY <1>0, AbandonKeeps
  <2>2. paused' \in BOOLEAN  BY DEF Calls
  <2>3. /\ Calls'
        /\ decision'[r] = d /\ ledger'[r] = l
        /\ \A s \in Run \ {r} : decision'[s] = decision[s] /\ ledger'[s] = ledger[s]
    BY <2>1, <2>2, JudgedKeeps
  <2>4. /\ pc'[r] = "ran" /\ final'[r] = version /\ outcome'[r] = outcome[r]
        /\ lock' # r /\ (lock = r \/ lock' = lock)
    BY DEF Database, Files
  <2>5. Database'         BY DEF Database, Where
  <2>6. Files'            BY DEF Files, Database
  <2>7. DatabaseIsWhole'  BY DEF DatabaseIsWhole
  <2>8. \A s \in Run \ {r} :
          /\ pc'[s] = pc[s] /\ final'[s] = final[s] /\ candidate'[s] = candidate[s]
          /\ outcome'[s] = outcome[s] /\ (lock' = s => lock = s)
    BY DEF Database, Files
  <2>9. \A s \in Run : Placed(s)'
    <3>1. Placed(r)'                        BY <2>1, <2>3, <2>4 DEF Placed, Files, Database, Later
    <3>2. ASSUME NEW s \in Run \ {r} PROVE Placed(s)'  BY <2>3, <2>8 DEF Placed, Files, Database
    <3> QED  BY <3>1, <3>2
  <2>10. \A s \in Run : Written(s)'
    <3>1. Written(r)'                        BY <2>1, <2>3, <2>4 DEF Written, Placed, Files
    <3>2. ASSUME NEW s \in Run \ {r} PROVE Written(s)'
      BY <2>3, <2>4, <2>8 DEF Written, Files
    <3> QED  BY <3>1, <3>2
  <2>11. CallsAccounted'   BY <1>0, <1>a, <2>1, <2>3, <2>4 DEF Placed, Judged, InFlight
  <2> QED  BY <2>3, <2>5, <2>6, <2>7, <2>9, <2>10, <2>11
<1>8. ASSUME NEW r \in Run, Fail(r) PROVE IInv'
  <2> USE <1>8 DEF Fail, Release, Goto, disk, files
  <2>1. PICK d \in Decision, l \in Ledger :
          /\ Judged(r, d, l)
          /\ d.state = "idle"
          /\ l.exhausted = ledger[r].exhausted
          /\ decision[r].state = "idle" => l = ledger[r]
    BY <1>0, AbandonKeeps
  <2>2. paused' \in BOOLEAN  BY DEF Calls
  <2>3. /\ Calls'
        /\ decision'[r] = d /\ ledger'[r] = l
        /\ \A s \in Run \ {r} : decision'[s] = decision[s] /\ ledger'[s] = ledger[s]
    BY <2>1, <2>2, JudgedKeeps
  <2>4. /\ paused => paused'
        /\ pc'[r] = "failing" /\ final' = final /\ outcome'[r] = outcome[r]
        /\ lock' # r /\ (lock = r \/ lock' = lock)
    BY DEF Database, Files
  <2>5. Database'         BY DEF Database, Where
  <2>6. Files'            BY DEF Files, Database
  <2>7. DatabaseIsWhole'  BY DEF DatabaseIsWhole
  <2>8. \A s \in Run \ {r} :
          /\ pc'[s] = pc[s] /\ final'[s] = final[s] /\ candidate'[s] = candidate[s]
          /\ outcome'[s] = outcome[s] /\ (lock' = s => lock = s)
    BY DEF Database, Files
  <2>9. \A s \in Run : Placed(s)'
    <3>1. Placed(r)'                        BY <2>1, <2>3, <2>4 DEF Placed, Files, Database, Later
    <3>2. ASSUME NEW s \in Run \ {r} PROVE Placed(s)'  BY <2>3, <2>8 DEF Placed, Files, Database
    <3> QED  BY <3>1, <3>2
  <2>10. \A s \in Run : Written(s)'
    <3>1. Written(r)'                        BY <2>1, <2>3, <2>4 DEF Written, Placed, Files
    <3>2. ASSUME NEW s \in Run \ {r} PROVE Written(s)'
      BY <2>3, <2>4, <2>8 DEF Written, Files
    <3> QED  BY <3>1, <3>2
  <2>11. CallsAccounted'   BY <1>0, <1>a, <2>1, <2>3, <2>4 DEF Placed, Judged, InFlight
  <2> QED  BY <2>3, <2>5, <2>6, <2>7, <2>9, <2>10, <2>11
<1>9. ASSUME NEW r \in Run, Stop(r) PROVE IInv'
  <2> USE <1>9 DEF Stop, Release, Goto, files
  <2>1. PICK d \in Decision, l \in Ledger :
          /\ Judged(r, d, l)
          /\ d.state = "idle"
          /\ l.exhausted = ledger[r].exhausted
          /\ decision[r].state = "idle" => l = ledger[r]
    BY <1>0, AbandonKeeps
  <2>2. paused' \in BOOLEAN  BY DEF Calls
  <2>3. /\ Calls'
        /\ decision'[r] = d /\ ledger'[r] = l
        /\ \A s \in Run \ {r} : decision'[s] = decision[s] /\ ledger'[s] = ledger[s]
    BY <2>1, <2>2, JudgedKeeps
  <2>4. /\ pc'[r] = "stopped" /\ final' = final /\ outcome'[r] = outcome[r]
        /\ lock' # r /\ (lock = r \/ lock' = lock)
    BY DEF Database, Files
  <2>5. Database'         BY DEF Database, Where, Forget
  <2>6. Files'            BY DEF Files, Database
  <2>7. DatabaseIsWhole'  BY DEF DatabaseIsWhole, Database, Forget
  <2>8. \A s \in Run \ {r} :
          /\ pc'[s] = pc[s] /\ final'[s] = final[s] /\ candidate'[s] = candidate[s]
          /\ outcome'[s] = outcome[s] /\ (lock' = s => lock = s)
    BY DEF Database, Files
  <2>9. \A s \in Run : Placed(s)'
    <3>1. Placed(r)'                        BY <2>1, <2>3, <2>4 DEF Placed, Files, Database, Later
    <3>2. ASSUME NEW s \in Run \ {r} PROVE Placed(s)'  BY <2>3, <2>8 DEF Placed, Files, Database
    <3> QED  BY <3>1, <3>2
  <2>10. \A s \in Run : Written(s)'
    <3>1. Written(r)'                        BY <2>1, <2>3, <2>4 DEF Written, Placed, Files
    <3>2. ASSUME NEW s \in Run \ {r} PROVE Written(s)'
      BY <2>3, <2>4, <2>8 DEF Written, Files
    <3> QED  BY <3>1, <3>2
  <2>11. CallsAccounted'   BY <1>0, <1>a, <2>1, <2>3, <2>4 DEF Placed, Judged, InFlight
  <2> QED  BY <2>3, <2>5, <2>6, <2>7, <2>9, <2>10, <2>11
<1>10. ASSUME NEW r \in Run, Export(r) PROVE IInv'
  <2> USE <1>10 DEF Export, disk, callVars, run, files, Goto
  <2>1. Database' /\ Calls'  BY DEF Database, Calls, Where
  <2>2. Files'
    <3>1. version' = version /\ version \in Nat  BY DEF Database
    <3>2. candidate' \in [Run -> 0..version]     BY <3>1 DEF Files
    <3>3. story' \in [version : 0..version, by : Run \cup {None}]
      BY DEF Files
    <3>4. outcome' \in [Run -> [result : {"none", "completed", "failed"}, calls : Nat]]
      BY DEF Files, Calls, Ledger
    <3> QED  BY <3>1, <3>2, <3>3, <3>4 DEF Files
  <2>3. DatabaseIsWhole'     BY DEF DatabaseIsWhole
  <2>4. pc'[r] = "exported" /\ candidate'[r] = version /\ final'[r] \in 0..version
    BY DEF Database, Files
  <2>5. \A s \in Run \ {r} :
          /\ pc'[s] = pc[s] /\ final'[s] = final[s] /\ candidate'[s] = candidate[s]
          /\ outcome'[s] = outcome[s] /\ (lock' = s => lock = s)
    BY DEF Database, Files
  <2>6. \A s \in Run : Placed(s)'
    <3>1. Placed(r)'                        BY <2>4 DEF Placed, Files, Later
    <3>2. ASSUME NEW s \in Run \ {r} PROVE Placed(s)'  BY <2>5 DEF Placed, Files
    <3> QED  BY <3>1, <3>2
  <2>7. \A s \in Run : Written(s)'
    <3>1. Written(r)'                        BY <2>4 DEF Written, Placed, Files, Later
    <3>2. ASSUME NEW s \in Run \ {r} PROVE Written(s)'  BY <2>5 DEF Written, Files
    <3> QED  BY <3>1, <3>2
  <2>8. CallsAccounted'
    <3>1. decision[r].state = "idle"  BY DEF Placed
    <3>2. Ended(ledger[r]) \in Nat    BY DEF Ended, Calls, Ledger
    <3>3. InFlight(decision[r]) = 0   BY <3>1 DEF InFlight
    <3>4. ledger[r].used = Ended(ledger[r])  BY <1>0, <3>2, <3>3
    <3> QED  BY <1>0, <1>a, <2>4, <2>5, <3>4
  <2> QED  BY <2>1, <2>2, <2>3, <2>6, <2>7, <2>8
<1>11. ASSUME NEW r \in Run, PublishStory(r) PROVE IInv'
  <2> USE <1>11 DEF PublishStory, disk, callVars, run, Goto
  <2>1. Database' /\ Calls'  BY DEF Database, Calls, Where
  <2>2. Files'
    <3>1. version' = version /\ version \in Nat  BY DEF Database
    <3>2. candidate' \in [Run -> 0..version]     BY <3>1 DEF Files
    <3>3. story' \in [version : 0..version, by : Run \cup {None}]
      BY DEF Files
    <3>4. outcome' \in [Run -> [result : {"none", "completed", "failed"}, calls : Nat]]
      BY DEF Files, Calls, Ledger
    <3> QED  BY <3>1, <3>2, <3>3, <3>4 DEF Files
  <2>3. DatabaseIsWhole'     BY DEF DatabaseIsWhole
  <2>4. /\ pc'[r] = "published" /\ outcome'[r] = outcome[r]
        /\ story'.version = candidate[r] /\ story'.by = r
        /\ candidate[r] \in Nat /\ final[r] \in Nat
    BY DEF Database, Files
  <2>5. \A s \in Run \ {r} :
          /\ pc'[s] = pc[s] /\ final'[s] = final[s] /\ candidate'[s] = candidate[s]
          /\ outcome'[s] = outcome[s] /\ (lock' = s => lock = s)
    BY DEF Database, Files
  <2>6. \A s \in Run : Placed(s)'
    <3>1. Placed(r)'                        BY <2>4 DEF Placed, Files, Later
    <3>2. ASSUME NEW s \in Run \ {r} PROVE Placed(s)'  BY <2>5 DEF Placed, Files
    <3> QED  BY <3>1, <3>2
  <2>7. \A s \in Run : Written(s)'
    <3>1. Written(r)'                        BY <2>4 DEF Written, Placed, Files, Later
    <3>2. ASSUME NEW s \in Run \ {r} PROVE Written(s)'  BY <2>5 DEF Written, Files
    <3> QED  BY <3>1, <3>2
  <2>8. CallsAccounted'
    <3>1. decision[r].state = "idle"  BY DEF Placed
    <3>2. Ended(ledger[r]) \in Nat    BY DEF Ended, Calls, Ledger
    <3>3. InFlight(decision[r]) = 0   BY <3>1 DEF InFlight
    <3>4. ledger[r].used = Ended(ledger[r])  BY <1>0, <3>2, <3>3
    <3> QED  BY <1>0, <1>a, <2>4, <2>5, <3>4
  <2> QED  BY <2>1, <2>2, <2>3, <2>6, <2>7, <2>8
<1>12. ASSUME NEW r \in Run, WriteAttempt(r) PROVE IInv'
  <2> USE <1>12 DEF WriteAttempt, Manifest, disk, callVars, run, Goto
  <2>1. Database' /\ Calls'  BY DEF Database, Calls, Where
  <2>2. Files'
    <3>1. version' = version /\ version \in Nat  BY DEF Database
    <3>2. candidate' \in [Run -> 0..version]     BY <3>1 DEF Files
    <3>3. story' \in [version : 0..version, by : Run \cup {None}]
      BY DEF Files
    <3>4. outcome' \in [Run -> [result : {"none", "completed", "failed"}, calls : Nat]]
      BY DEF Files, Calls, Ledger
    <3> QED  BY <3>1, <3>2, <3>3, <3>4 DEF Files
  <2>3. DatabaseIsWhole'     BY DEF DatabaseIsWhole
  <2>4. /\ pc'[r] = "attested"
        /\ outcome'[r].result = "completed" /\ outcome'[r].calls = ledger[r].used
    BY DEF Database, Files
  <2>5. \A s \in Run \ {r} :
          /\ pc'[s] = pc[s] /\ final'[s] = final[s] /\ candidate'[s] = candidate[s]
          /\ outcome'[s] = outcome[s] /\ (lock' = s => lock = s)
    BY DEF Database, Files
  <2>6. \A s \in Run : Placed(s)'
    <3>1. Placed(r)'                        BY <2>4 DEF Placed, Files, Later
    <3>2. ASSUME NEW s \in Run \ {r} PROVE Placed(s)'  BY <2>5 DEF Placed, Files
    <3> QED  BY <3>1, <3>2
  <2>7. \A s \in Run : Written(s)'
    <3>1. Written(r)'                        BY <2>4 DEF Written, Placed, Files, Later
    <3>2. ASSUME NEW s \in Run \ {r} PROVE Written(s)'  BY <2>5 DEF Written, Files
    <3> QED  BY <3>1, <3>2
  <2>8. CallsAccounted'
    <3>1. decision[r].state = "idle"  BY DEF Placed
    <3>2. Ended(ledger[r]) \in Nat    BY DEF Ended, Calls, Ledger
    <3>3. InFlight(decision[r]) = 0   BY <3>1 DEF InFlight
    <3>4. ledger[r].used = Ended(ledger[r])  BY <1>0, <3>2, <3>3
    <3> QED  BY <1>0, <1>a, <2>4, <2>5, <3>4
  <2> QED  BY <2>1, <2>2, <2>3, <2>6, <2>7, <2>8
<1>13. ASSUME NEW r \in Run, WriteCanonical(r) PROVE IInv'
  <2> USE <1>13 DEF WriteCanonical, Forget, callVars, Goto
  <2>1. Database' /\ Calls'  BY DEF Database, Calls, Where
  <2>2. Files'
    <3>1. version' = version /\ version \in Nat  BY DEF Database
    <3>2. candidate' \in [Run -> 0..version]     BY <3>1 DEF Files
    <3>3. story' \in [version : 0..version, by : Run \cup {None}]
      BY DEF Files
    <3>4. outcome' \in [Run -> [result : {"none", "completed", "failed"}, calls : Nat]]
      BY DEF Files, Calls, Ledger
    <3> QED  BY <3>1, <3>2, <3>3, <3>4 DEF Files
  <2>3. DatabaseIsWhole'     BY DEF DatabaseIsWhole, Database
  <2>4. pc'[r] = "done" /\ outcome'[r] = outcome[r]
    BY DEF Database, Files
  <2>5. \A s \in Run \ {r} :
          /\ pc'[s] = pc[s] /\ final'[s] = final[s] /\ candidate'[s] = candidate[s]
          /\ outcome'[s] = outcome[s] /\ (lock' = s => lock = s)
    BY DEF Database, Files
  <2>6. \A s \in Run : Placed(s)'
    <3>1. Placed(r)'                        BY <2>4 DEF Placed, Files, Later
    <3>2. ASSUME NEW s \in Run \ {r} PROVE Placed(s)'  BY <2>5 DEF Placed, Files
    <3> QED  BY <3>1, <3>2
  <2>7. \A s \in Run : Written(s)'
    <3>1. Written(r)'                        BY <2>4 DEF Written, Placed, Files, Later
    <3>2. ASSUME NEW s \in Run \ {r} PROVE Written(s)'  BY <2>5 DEF Written, Files
    <3> QED  BY <3>1, <3>2
  <2>8. CallsAccounted'
    <3>1. decision[r].state = "idle"  BY DEF Placed
    <3>2. Ended(ledger[r]) \in Nat    BY DEF Ended, Calls, Ledger
    <3>3. InFlight(decision[r]) = 0   BY <3>1 DEF InFlight
    <3>4. ledger[r].used = Ended(ledger[r])  BY <1>0, <3>2, <3>3
    <3> QED  BY <1>0, <1>a, <2>4, <2>5, <3>4
  <2> QED  BY <2>1, <2>2, <2>3, <2>6, <2>7, <2>8
<1>14. ASSUME NEW r \in Run, WriteFailure(r) PROVE IInv'
  <2> USE <1>14 DEF WriteFailure, Manifest, Forget, callVars, Goto
  <2>1. Database' /\ Calls'  BY DEF Database, Calls, Where
  <2>2. Files'
    <3>1. version' = version /\ version \in Nat  BY DEF Database
    <3>2. candidate' \in [Run -> 0..version]     BY <3>1 DEF Files
    <3>3. story' \in [version : 0..version, by : Run \cup {None}]
      BY DEF Files
    <3>4. outcome' \in [Run -> [result : {"none", "completed", "failed"}, calls : Nat]]
      BY DEF Files, Calls, Ledger
    <3> QED  BY <3>1, <3>2, <3>3, <3>4 DEF Files
  <2>3. DatabaseIsWhole'     BY DEF DatabaseIsWhole, Database
  <2>4. /\ pc'[r] = "done"
        /\ outcome'[r].result = "failed" /\ outcome'[r].calls = ledger[r].used
    BY DEF Database, Files
  <2>5. \A s \in Run \ {r} :
          /\ pc'[s] = pc[s] /\ final'[s] = final[s] /\ candidate'[s] = candidate[s]
          /\ outcome'[s] = outcome[s] /\ (lock' = s => lock = s)
    BY DEF Database, Files
  <2>6. \A s \in Run : Placed(s)'
    <3>1. Placed(r)'                        BY <2>4 DEF Placed, Files, Later
    <3>2. ASSUME NEW s \in Run \ {r} PROVE Placed(s)'  BY <2>5 DEF Placed, Files
    <3> QED  BY <3>1, <3>2
  <2>7. \A s \in Run : Written(s)'
    <3>1. Written(r)'                        BY <2>4 DEF Written, Placed, Files, Later
    <3>2. ASSUME NEW s \in Run \ {r} PROVE Written(s)'  BY <2>5 DEF Written, Files
    <3> QED  BY <3>1, <3>2
  <2>8. CallsAccounted'
    <3>1. decision[r].state = "idle"  BY DEF Placed
    <3>2. Ended(ledger[r]) \in Nat    BY DEF Ended, Calls, Ledger
    <3>3. InFlight(decision[r]) = 0   BY <3>1 DEF InFlight
    <3>4. ledger[r].used = Ended(ledger[r])  BY <1>0, <3>2, <3>3
    <3> QED  BY <1>0, <1>a, <2>4, <2>5, <3>4
  <2> QED  BY <2>1, <2>2, <2>3, <2>6, <2>7, <2>8
<1>15. ASSUME ExternalPause PROVE IInv'
  <2> USE <1>15 DEF ExternalPause, databaseVars, files
  <2>1. Database' /\ Calls'  BY DEF Database, Calls
  <2>2. Files'
    <3>1. version' = version /\ version \in Nat  BY DEF Database
    <3>2. story' \in [version : 0..version, by : Run \cup {None}] /\ reading' \in 0..version
      BY <3>1 DEF Files
    <3> QED  BY <3>1, <3>2 DEF Files
  <2>3. DatabaseIsWhole'  BY DEF DatabaseIsWhole
  <2>4. \A s \in Run : Placed(s)'   BY DEF Placed
  <2>5. CallsAccounted'   BY DEF CallsAccounted
  <2>6. \A s \in Run : Written(s)'  BY DEF Written
  <2> QED  BY <2>1, <2>2, <2>3, <2>4, <2>5, <2>6
<1>16. ASSUME ReadStory PROVE IInv'
  <2> USE <1>16 DEF ReadStory, databaseVars, callVars, files
  <2>1. Database' /\ Calls'  BY DEF Database, Calls
  <2>2. Files'
    <3>1. version' = version /\ version \in Nat  BY DEF Database
    <3>2. story' \in [version : 0..version, by : Run \cup {None}] /\ reading' \in 0..version
      BY <3>1 DEF Files
    <3> QED  BY <3>1, <3>2 DEF Files
  <2>3. DatabaseIsWhole'  BY DEF DatabaseIsWhole
  <2>4. \A s \in Run : Placed(s)'   BY DEF Placed
  <2>5. CallsAccounted'   BY DEF CallsAccounted
  <2>6. \A s \in Run : Written(s)'  BY DEF Written
  <2> QED  BY <2>1, <2>2, <2>3, <2>4, <2>5, <2>6
<1>17. ASSUME WriteStory PROVE IInv'
  <2> USE <1>17 DEF WriteStory, databaseVars, callVars
  <2>1. Database' /\ Calls'  BY DEF Database, Calls
  <2>2. Files'
    <3>1. version' = version /\ version \in Nat  BY DEF Database
    <3>2. story' \in [version : 0..version, by : Run \cup {None}] /\ reading' \in 0..version
      BY <3>1 DEF Files
    <3> QED  BY <3>1, <3>2 DEF Files
  <2>3. DatabaseIsWhole'  BY DEF DatabaseIsWhole
  <2>4. \A s \in Run : Placed(s)'   BY DEF Placed
  <2>5. CallsAccounted'   BY DEF CallsAccounted
  <2>6. \A s \in Run : Written(s)'  BY DEF Written
  <2> QED  BY <2>1, <2>2, <2>3, <2>4, <2>5, <2>6
<1>18. CASE UNCHANGED vars
  <2> USE <1>18 DEF vars, databaseVars, callVars, files
  <2>1. Shaped'           BY DEF Database, Calls, Files
  <2>2. DatabaseIsWhole'  BY DEF DatabaseIsWhole
  <2>3. \A s \in Run : Placed(s)'   BY DEF Placed
  <2>4. CallsAccounted'   BY DEF CallsAccounted
  <2>5. \A s \in Run : Written(s)'  BY DEF Written
  <2> QED  BY <2>1, <2>2, <2>3, <2>4, <2>5
<1> QED
  BY <1>1, <1>2, <1>3, <1>4, <1>5, <1>6, <1>7, <1>8, <1>9, <1>10, <1>11, <1>12, <1>13, <1>14, <1>15, <1>16, <1>17, <1>18 DEF Next

\* The invariant is one of the specification.
LEMMA Inductive == Spec => []IInv
  BY InitInv, StepInv, PTL DEF Spec

-----------------------------------------------------------------------------

\* The run_manifest.json of any run repeats a completed attempt on disk.
THEOREM CanonicalAttested == Spec => []CanonicalIsAttested
<1>1. IInv => CanonicalIsAttested
  BY RunAssumption DEF IInv, Shaped, Files, Written, CanonicalIsAttested
<1> QED  BY <1>1, Inductive, PTL

\* A published story shows its whole run, and no failed run has one.
THEOREM StoryWhole == Spec => []StoryShowsItsRun
<1>1. IInv => StoryShowsItsRun
  BY RunAssumption DEF IInv, Shaped, Files, Written, StoryShowsItsRun
<1> QED  BY <1>1, Inductive, PTL

\* The provider calls of every run add up to its manifest.
THEOREM CallsAddUp == Spec => []CallsAccounted
<1>1. IInv => CallsAccounted
  BY DEF IInv
<1> QED  BY <1>1, Inductive, PTL

\* A run that was refused a call publishes nothing and, fenced, does no more.
THEOREM RefusedRunsFail == Spec => []ExhaustedRunsFail
<1>1. IInv => ExhaustedRunsFail
  BY DEF IInv, Written, ExhaustedRunsFail
<1> QED  BY <1>1, Inductive, PTL

\* The database at the path is complete and is never exchanged.
THEOREM DatabaseWhole == Spec => []DatabaseIsWhole
<1>1. IInv => DatabaseIsWhole
  BY DEF IInv
<1> QED  BY <1>1, Inductive, PTL

\* The variables keep their types.
THEOREM TypesKept == Spec => []TypeOK
<1>1. IInv => TypeOK
  BY DEF IInv, Shaped, Database, Calls, Files, TypeOK, CallsTypeOK, Decision, Ledger, States
<1> QED  BY <1>1, Inductive, PTL
=============================================================================
