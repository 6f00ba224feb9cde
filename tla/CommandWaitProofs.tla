--------------------------- MODULE CommandWaitProofs ---------------------------
(***************************************************************************)
(* Proofs about CommandWait, for any number of goroutines, commands,       *)
(* changes and kept messages.                                              *)
(*                                                                         *)
(* A refusal is followed from the handler over the wire into the messages  *)
(* of the CLI.  The order of snapshots rests on dapMu: who took one under  *)
(* the lock sends it before anybody else takes the next.                   *)
(***************************************************************************)
EXTENDS CommandWait, SequenceTheorems, TLAPS

\* Commands have numbers from 1 on, and nothing is sent that is not a message.
ShapeInv ==
    /\ \A i \in 1..Len(requests) :
          requests[i].what # "hello" => requests[i].id \in 1..MaxCommands
    /\ \A g \in Goroutines : carrying[g] # Nothing => carrying[g].kind # "none"
    /\ \A i \in 1..Len(wire) : wire[i].kind # "none"

\* An error, wherever it is on its way, is the refusal of its request.
RefusalInv ==
    /\ \A g \in Goroutines : carrying[g].kind = "error" => carrying[g].id \in refused
    /\ \A i \in 1..Len(wire) : wire[i].kind = "error" => wire[i].id \in refused
    /\ \A i \in 1..Len(messages) : messages[i].kind = "error" => messages[i].id \in refused

\* Nothing that was or will be sent in dapMu and did not arrive is older than v.
Ahead(v) ==
    /\ v <= session.version
    /\ \A g \in Goroutines : carrying[g].in_dapMu => v <= carrying[g].snap.version
    /\ \A i \in 1..Len(wire) : wire[i].in_dapMu => v <= wire[i].snap.version

\* What is sent in dapMu is sent in the order of its versions.
OrderInv ==
    /\ \A g \in Goroutines :
          carrying[g].in_dapMu => dapMu = g /\ carrying[g].snap.version <= session.version
    /\ \A i \in 1..Len(wire) :
          wire[i].in_dapMu =>
              /\ wire[i].snap.version <= session.version
              /\ \A g \in Goroutines :
                    carrying[g].in_dapMu => wire[i].snap.version <= carrying[g].snap.version
              /\ \A j \in (i + 1)..Len(wire) :
                    wire[j].in_dapMu => wire[i].snap.version <= wire[j].snap.version
    /\ view.in_dapMu => Ahead(view.snap.version)
    /\ wait.baseline.in_dapMu =>
          /\ Ahead(wait.baseline.snap.version)
          /\ view.in_dapMu => wait.baseline.snap.version <= view.snap.version

IInv ==
    /\ TypeOK /\ ShapeInv /\ RefusalInv /\ OrderInv
    /\ RefusedForItsOwn /\ NewerThanBaseline

-----------------------------------------------------------------------------
(* Types *)

LEMMA NothingType == Nothing \in EnvelopeType /\ NoView \in ViewType /\ NotRun.view \in ViewType
  BY LimitsAssumption DEF Nothing, EnvelopeType, NoSnapshot, SnapshotType, NoView, ViewType, NotRun

\* A changed session is a snapshot, one version on.
LEMMA ChangedType ==
    ASSUME TypeOK, NEW l \in Lifecycles \cup {"none"}
    PROVE  Changed(l) \in SnapshotType /\ Changed(l).version = session.version + 1
  BY DEF TypeOK, DaemonOK, Changed, SnapshotType

\* What a goroutine takes up is an envelope.
LEMMA CarryType ==
    ASSUME TypeOK, NEW g \in Goroutines, NEW kind \in MessageKinds,
           NEW id \in 0..MaxCommands, NEW snap \in SnapshotType, Carry(g, kind, id, snap)
    PROVE  /\ carrying' \in [Goroutines -> EnvelopeType]
           /\ carrying'[g] = [kind |-> kind, id |-> id, snap |-> snap,
                              in_dapMu |-> kind = "event" /\ g \notin Touchers]
           /\ \A o \in Goroutines \ {g} : carrying'[o] = carrying[o]
<1> DEFINE e == [kind |-> kind, id |-> id, snap |-> snap,
                 in_dapMu |-> kind = "event" /\ g \notin Touchers]
<1>1. e \in EnvelopeType
  <2>1. (kind = "event" /\ g \notin Touchers) \in BOOLEAN
    OBVIOUS
  <2> HIDE DEF EnvelopeType
  <2>2. QED
    BY <2>1 DEF EnvelopeType
<1>2. carrying' = [carrying EXCEPT ![g] = e]
  BY DEF Carry
<1> HIDE DEF e
<1>3. QED
  BY <1>1, <1>2 DEF TypeOK, DaemonOK, e

\* Versions are numbers, wherever they are.
LEMMA VersionType ==
    ASSUME TypeOK
    PROVE  /\ session.version \in Nat
           /\ \A o \in Goroutines : carrying[o].snap.version \in Nat
           /\ \A i \in 1..Len(wire) : wire[i].snap.version \in Nat
           /\ view.snap.version \in Nat /\ wait.baseline.snap.version \in Nat
<1>1. session.version \in Nat
  BY DEF TypeOK, DaemonOK, SnapshotType
<1>2. ASSUME NEW o \in Goroutines PROVE carrying[o].snap.version \in Nat
  <2>1. carrying[o] \in EnvelopeType
    BY DEF TypeOK, DaemonOK
  <2>2. QED
    BY <2>1 DEF EnvelopeType, SnapshotType
<1>3. ASSUME NEW i \in 1..Len(wire) PROVE wire[i].snap.version \in Nat
  <2>1. wire[i] \in EnvelopeType
    BY ElementOfSeq DEF TypeOK, WireOK
  <2>2. QED
    BY <2>1 DEF EnvelopeType, SnapshotType
<1>4. view.snap.version \in Nat
  BY DEF TypeOK, CliOK, ViewType, SnapshotType
<1>5. wait.baseline.snap.version \in Nat
  <2>1. wait.baseline \in ViewType
    BY DEF TypeOK, CliOK
  <2>2. QED
    BY <2>1 DEF ViewType, SnapshotType
<1>6. QED
  BY <1>1, <1>2, <1>3, <1>4, <1>5

\* A part of the state that a step leaves alone stays well-formed.
LEMMA CliSame == CliOK /\ UNCHANGED cliVars => CliOK'
  BY DEF CliOK, cliVars

LEMMA WireSame == WireOK /\ UNCHANGED <<requests, wire, link>> => WireOK'
  BY DEF WireOK

-----------------------------------------------------------------------------
(* Goroutines of the daemon *)

\* Whoever takes up a message -- one in dapMu with the newest snapshot -- breaks
\* neither the order nor the record of refusals.
LEMMA CarryKeeps ==
    ASSUME IInv, NEW g \in Goroutines, NEW kind \in MessageKinds,
           NEW id \in 0..MaxCommands, NEW snap \in SnapshotType, Carry(g, kind, id, snap),
           session' \in SnapshotType, session'.version >= session.version,
           refused \subseteq refused', kind = "error" => id \in refused',
           IF kind = "event" /\ g \notin Touchers
           THEN dapMu = Free /\ dapMu' = g /\ snap = session'
           ELSE dapMu' = dapMu,
           carrying[g] = Nothing,
           UNCHANGED <<wire, cliVars>>
    PROVE  /\ carrying' \in [Goroutines -> EnvelopeType]
           /\ \A o \in Goroutines : carrying'[o] # Nothing => carrying'[o].kind # "none"
           /\ RefusalInv' /\ OrderInv' /\ RefusedForItsOwn' /\ NewerThanBaseline'
<1>1. /\ carrying' \in [Goroutines -> EnvelopeType]
      /\ carrying'[g].kind = kind /\ carrying'[g].id = id /\ carrying'[g].snap = snap
      /\ carrying'[g].in_dapMu = (kind = "event" /\ g \notin Touchers)
      /\ \A o \in Goroutines \ {g} : carrying'[o] = carrying[o]
  <2> DEFINE locked == kind = "event" /\ g \notin Touchers
             e == [kind |-> kind, id |-> id, snap |-> snap, in_dapMu |-> locked]
  <2>1. /\ carrying' \in [Goroutines -> EnvelopeType] /\ carrying'[g] = e
        /\ \A o \in Goroutines \ {g} : carrying'[o] = carrying[o]
    BY CarryType DEF IInv
  <2>2. e.kind = kind /\ e.id = id /\ e.snap = snap
    BY DEF locked
  <2>3. e.in_dapMu = locked
    <3> HIDE DEF locked
    <3>1. QED
      OBVIOUS
  <2>4. QED
    BY <2>1, <2>2, <2>3
<1>2. \A o \in Goroutines : carrying'[o] # Nothing => carrying'[o].kind # "none"
  BY <1>1 DEF IInv, ShapeInv, MessageKinds
<1>3. UNCHANGED <<wire, view, messages, wait, timer, outcome>>
  BY DEF cliVars
<1>4. RefusalInv'
  BY <1>1, <1>3 DEF IInv, RefusalInv
<1>5. RefusedForItsOwn' /\ NewerThanBaseline'
  BY <1>3 DEF IInv, RefusedForItsOwn, NewerThanBaseline
<1>6. /\ session.version \in Nat /\ session'.version \in Nat
      /\ \A i \in 1..Len(wire) : wire[i].snap.version \in Nat
      /\ view.snap.version \in Nat /\ wait.baseline.snap.version \in Nat
      /\ \A o \in Goroutines : carrying[o].snap.version \in Nat
  BY VersionType DEF IInv, SnapshotType
<1>7. \A o \in Goroutines :
         carrying'[o].in_dapMu =>
            \/ o = g /\ dapMu' = g /\ carrying'[o].snap = session'
            \/ o # g /\ carrying[o].in_dapMu /\ carrying'[o] = carrying[o] /\ dapMu' = o
  BY <1>1, ActorsAssumption DEF IInv, OrderInv
<1>8. \A v \in Nat : Ahead(v) => Ahead(v)'
  BY <1>3, <1>6, <1>7 DEF Ahead
<1>9. OrderInv'
  <2>1. ASSUME NEW o \in Goroutines, carrying'[o].in_dapMu
        PROVE  dapMu' = o /\ carrying'[o].snap.version <= session'.version
    BY <1>6, <1>7, <2>1 DEF IInv, OrderInv
  <2>2. ASSUME NEW i \in 1..Len(wire), wire[i].in_dapMu
        PROVE  /\ wire[i].snap.version <= session'.version
               /\ \A o \in Goroutines :
                     carrying'[o].in_dapMu => wire[i].snap.version <= carrying'[o].snap.version
               /\ \A j \in (i + 1)..Len(wire) :
                     wire[j].in_dapMu => wire[i].snap.version <= wire[j].snap.version
    BY <1>6, <1>7, <2>2 DEF IInv, OrderInv
  <2>3. QED
    BY <1>3, <1>6, <1>8, <2>1, <2>2 DEF IInv, OrderInv
<1>10. QED
  BY <1>1, <1>2, <1>4, <1>5, <1>9

LEMMA LockerKeeps == ASSUME IInv, NEW g \in Lockers, LockerChanges(g) PROVE IInv'
<1>1. PICK l \in Seen : session' = Changed(l)
  BY DEF LockerChanges
<1>2. /\ session' \in SnapshotType /\ session'.version = session.version + 1
      /\ session'.version >= session.version
  BY <1>1, ChangedType, ActorsAssumption DEF IInv, TypeOK, DaemonOK, SnapshotType
<1>3. /\ g \in Goroutines /\ g \notin Touchers /\ 0 \in 0..MaxCommands
      /\ "event" \in MessageKinds /\ "event" # "error"
  BY ActorsAssumption, LimitsAssumption DEF Goroutines, MessageKinds
<1>4. /\ dapMu = Free /\ dapMu' = g /\ carrying[g] = Nothing
      /\ Carry(g, "event", 0, session')
      /\ changes < MaxChanges /\ changes' = changes + 1
      /\ UNCHANGED <<handling, requests, wire, link, cliVars, refused>>
      /\ refused \subseteq refused'
  BY DEF LockerChanges
<1>5. /\ carrying' \in [Goroutines -> EnvelopeType]
      /\ \A o \in Goroutines : carrying'[o] # Nothing => carrying'[o].kind # "none"
      /\ RefusalInv' /\ OrderInv' /\ RefusedForItsOwn' /\ NewerThanBaseline'
  BY <1>2, <1>3, <1>4, CarryKeeps
<1>6. DaemonOK'
  BY <1>2, <1>3, <1>4, <1>5, LimitsAssumption DEF IInv, TypeOK, DaemonOK
<1>7. TypeOK'
  BY <1>4, <1>6, CliSame, WireSame DEF IInv, TypeOK
<1>8. ShapeInv'
  BY <1>4, <1>5 DEF IInv, ShapeInv
<1>9. QED
  BY <1>5, <1>7, <1>8 DEF IInv

LEMMA TouchKeeps == ASSUME IInv, NEW g \in Touchers, Touches(g) PROVE IInv'
<1>1. session.lifecycle \in Lifecycles \cup {"none"}
  BY DEF IInv, TypeOK, DaemonOK, SnapshotType
<1>2. /\ session' \in SnapshotType /\ session'.version = session.version + 1
      /\ session'.version >= session.version
  BY <1>1, ChangedType DEF IInv, TypeOK, DaemonOK, SnapshotType, Touches
<1>3. /\ g \in Goroutines /\ 0 \in 0..MaxCommands
      /\ "event" \in MessageKinds /\ "event" # "error"
  BY LimitsAssumption DEF Goroutines, MessageKinds
<1>4. /\ carrying[g] = Nothing /\ Carry(g, "event", 0, session')
      /\ changes < MaxChanges /\ changes' = changes + 1
      /\ UNCHANGED <<dapMu, handling, requests, wire, link, cliVars, refused>>
  BY DEF Touches
<1>5. /\ carrying' \in [Goroutines -> EnvelopeType]
      /\ \A o \in Goroutines : carrying'[o] # Nothing => carrying'[o].kind # "none"
      /\ RefusalInv' /\ OrderInv' /\ RefusedForItsOwn' /\ NewerThanBaseline'
  BY <1>2, <1>3, <1>4, CarryKeeps
<1>6. DaemonOK'
  BY <1>2, <1>3, <1>4, <1>5, LimitsAssumption DEF IInv, TypeOK, DaemonOK
<1>7. TypeOK'
  BY <1>4, <1>6, CliSame, WireSame DEF IInv, TypeOK
<1>8. ShapeInv'
  BY <1>4, <1>5 DEF IInv, ShapeInv
<1>9. QED
  BY <1>5, <1>7, <1>8 DEF IInv

\* The handler takes the first request, and the rest stay as they are.
LEMMA TakeType ==
    ASSUME IInv, NEW what, HandlerTakes(what)
    PROVE  /\ Head(requests) \in RequestType /\ Head(requests).what = what
           /\ what # "hello" => Head(requests).id \in 1..MaxCommands
           /\ requests' \in Seq(RequestType)
           /\ \A i \in 1..Len(requests') :
                 requests'[i].what # "hello" => requests'[i].id \in 1..MaxCommands
<1>1. requests \in Seq(RequestType) /\ requests # <<>> /\ requests' = Tail(requests)
  BY DEF IInv, TypeOK, WireOK, HandlerTakes
<1>2. /\ Len(requests) \in Nat /\ Len(requests) > 0 /\ Head(requests) = requests[1]
      /\ Len(requests') = Len(requests) - 1
      /\ \A i \in 1..Len(requests') : requests'[i] = requests[i + 1]
      /\ requests' \in Seq(RequestType) /\ Head(requests) \in RequestType
  BY <1>1, HeadTailProperties, EmptySeq
<1>3. QED
  BY <1>1, <1>2 DEF IInv, ShapeInv, HandlerTakes

\* A handler that takes a request and carries its answer keeps the invariant.
LEMMA HandlerKeeps ==
    ASSUME IInv, NEW what, HandlerTakes(what),
           NEW kind \in MessageKinds, NEW id \in 0..MaxCommands, NEW snap \in SnapshotType,
           Carry(Handler, kind, id, snap),
           session' \in SnapshotType, session'.version >= session.version,
           refused \subseteq refused', kind = "error" => id \in refused',
           IF kind = "event" THEN dapMu = Free /\ dapMu' = Handler /\ snap = session'
                             ELSE dapMu' = dapMu,
           refused' \subseteq 1..MaxCommands, handling' \in RequestType,
           UNCHANGED <<wire, link, cliVars, changes>>
    PROVE  IInv'
<1>1. Handler \in Goroutines /\ Handler \notin Touchers
  BY ActorsAssumption DEF Goroutines
<1>2. carrying[Handler] = Nothing
  BY DEF HandlerTakes
<1>3. /\ carrying' \in [Goroutines -> EnvelopeType]
      /\ \A o \in Goroutines : carrying'[o] # Nothing => carrying'[o].kind # "none"
      /\ RefusalInv' /\ OrderInv' /\ RefusedForItsOwn' /\ NewerThanBaseline'
  BY <1>1, <1>2, CarryKeeps
<1>4. /\ requests' \in Seq(RequestType)
      /\ \A i \in 1..Len(requests') :
            requests'[i].what # "hello" => requests'[i].id \in 1..MaxCommands
  BY TakeType
<1>5. dapMu' \in Goroutines \cup {Free}
  BY <1>1 DEF IInv, TypeOK, DaemonOK
<1>6. DaemonOK' /\ WireOK' /\ CliOK'
  BY <1>3, <1>4, <1>5, CliSame DEF IInv, TypeOK, DaemonOK, WireOK
<1>7. QED
  BY <1>3, <1>4, <1>6 DEF IInv, TypeOK, ShapeInv

LEMMA HelloKeeps == ASSUME IInv, HandlesHello PROVE IInv'
<1>1. session.lifecycle \in Lifecycles \cup {"none"} /\ session.version \in Nat
  BY DEF IInv, TypeOK, DaemonOK, SnapshotType
<1>2. session' \in SnapshotType /\ session'.version >= session.version
  BY <1>1, ChangedType DEF IInv, HandlesHello
<1>3. 0 \in 0..MaxCommands /\ "hello" \in MessageKinds
  BY LimitsAssumption DEF MessageKinds
<1>4. /\ HandlerTakes("hello") /\ Carry(Handler, "hello", 0, session')
      /\ UNCHANGED <<dapMu, handling, wire, link, cliVars, refused, changes>>
  BY DEF HandlesHello
<1>5. refused' \subseteq 1..MaxCommands /\ handling' \in RequestType
  BY <1>4 DEF IInv, TypeOK, DaemonOK
<1>6. QED
  BY <1>2, <1>3, <1>4, <1>5, HandlerKeeps

LEMMA QueryKeeps == ASSUME IInv, HandlesQuery PROVE IInv'
<1>1. PICK what \in {"status", "continue", "pause"} : HandlerTakes(what)
  BY DEF HandlesQuery
<1>2. /\ Carry(Handler, "response", Head(requests).id, session)
      /\ UNCHANGED <<session, dapMu, handling, wire, link, cliVars, refused, changes>>
  BY DEF HandlesQuery
<1>3. Head(requests).id \in 0..MaxCommands /\ "response" \in MessageKinds
  BY <1>1, TakeType DEF RequestType, MessageKinds
<1>4. /\ session \in SnapshotType /\ session.version \in Nat
      /\ refused \subseteq 1..MaxCommands /\ handling \in RequestType
  BY DEF IInv, TypeOK, DaemonOK, SnapshotType
<1>5. session' \in SnapshotType /\ session'.version >= session.version
  BY <1>2, <1>4
<1>6. QED
  BY <1>1, <1>2, <1>3, <1>4, <1>5, HandlerKeeps

LEMMA ChangeKeeps == ASSUME IInv, HandlesChange PROVE IInv'
<1>1. PICK what \in {"attach", "stop"}, l \in Lifecycles :
          HandlerTakes(what) /\ session' = Changed(l)
  BY DEF HandlesChange, Lifecycles
<1>2. /\ dapMu = Free /\ dapMu' = Handler
      /\ Carry(Handler, "event", 0, session') /\ handling' = Head(requests)
      /\ UNCHANGED <<wire, link, cliVars, refused, changes>>
  BY DEF HandlesChange
<1>3. 0 \in 0..MaxCommands /\ "event" \in MessageKinds
  BY LimitsAssumption DEF MessageKinds
<1>4. session.version \in Nat /\ refused \subseteq 1..MaxCommands
  BY DEF IInv, TypeOK, DaemonOK, SnapshotType
<1>5. session' \in SnapshotType /\ session'.version >= session.version
  BY <1>1, <1>4, ChangedType DEF IInv
<1>6. handling' \in RequestType
  BY <1>1, <1>2, TakeType
<1>7. QED
  BY <1>1, <1>2, <1>3, <1>4, <1>5, <1>6, HandlerKeeps

LEMMA RefusingKeeps == ASSUME IInv, HandlesRefusing PROVE IInv'
<1>1. PICK what \in {"continue", "pause", "attach"} :
          /\ HandlerTakes(what)
          /\ session' = session \/ session' = Changed("initializing")
  BY DEF HandlesRefusing
<1>2. /\ Carry(Handler, "error", Head(requests).id, NoSnapshot)
      /\ refused' = refused \cup {Head(requests).id}
      /\ UNCHANGED <<dapMu, handling, wire, link, cliVars, changes>>
  BY DEF HandlesRefusing
<1>3. /\ Head(requests).id \in 0..MaxCommands /\ Head(requests).id \in 1..MaxCommands
      /\ "error" \in MessageKinds /\ "error" # "event"
  BY <1>1, TakeType DEF RequestType, MessageKinds
<1>4. /\ session \in SnapshotType /\ session.version \in Nat
      /\ refused \subseteq 1..MaxCommands /\ handling \in RequestType
      /\ NoSnapshot \in SnapshotType /\ "initializing" \in Lifecycles \cup {"none"}
  BY DEF IInv, TypeOK, DaemonOK, SnapshotType, NoSnapshot, Lifecycles
<1>5. session' \in SnapshotType /\ session'.version >= session.version
  BY <1>1, <1>4, ChangedType DEF IInv
<1>6. /\ refused' \subseteq 1..MaxCommands /\ refused \subseteq refused'
      /\ Head(requests).id \in refused'
  BY <1>2, <1>3, <1>4
<1>7. QED
  BY <1>1, <1>2, <1>3, <1>4, <1>5, <1>6, HandlerKeeps

LEMMA RespondKeeps == ASSUME IInv, Responds PROVE IInv'
<1>1. /\ carrying[Handler] = Nothing
      /\ Carry(Handler, "response", handling.id, session)
      /\ handling' = NoRequest
      /\ UNCHANGED <<session, dapMu, requests, wire, link, cliVars, refused, changes>>
  BY DEF Responds
<1>2. /\ Handler \in Goroutines /\ "response" \in MessageKinds
      /\ "response" # "event" /\ "response" # "error"
  BY DEF Goroutines, MessageKinds
<1>3. /\ session \in SnapshotType /\ session.version \in Nat /\ handling.id \in 0..MaxCommands
      /\ NoRequest \in RequestType
  BY LimitsAssumption DEF IInv, TypeOK, DaemonOK, SnapshotType, RequestType, NoRequest
<1>4. /\ session' \in SnapshotType /\ session'.version >= session.version
      /\ refused \subseteq refused'
  BY <1>1, <1>3
<1>5. /\ carrying' \in [Goroutines -> EnvelopeType]
      /\ \A o \in Goroutines : carrying'[o] # Nothing => carrying'[o].kind # "none"
      /\ RefusalInv' /\ OrderInv' /\ RefusedForItsOwn' /\ NewerThanBaseline'
  BY <1>1, <1>2, <1>3, <1>4, CarryKeeps
<1>6. TypeOK'
  BY <1>1, <1>3, <1>5, CliSame, WireSame DEF IInv, TypeOK, DaemonOK
<1>7. ShapeInv'
  BY <1>1, <1>5 DEF IInv, ShapeInv
<1>8. QED
  BY <1>5, <1>6, <1>7 DEF IInv

-----------------------------------------------------------------------------
(* The wire *)

LEMMA SendKeeps == ASSUME IInv, NEW g \in Goroutines, Sends(g) PROVE IInv'
<1>1. /\ carrying[g] # Nothing
      /\ wire' = IF link = "up" THEN Append(wire, carrying[g]) ELSE wire
      /\ carrying' = [carrying EXCEPT ![g] = Nothing]
      /\ dapMu' = IF dapMu = g THEN Free ELSE dapMu
      /\ UNCHANGED <<session, handling, requests, link, cliVars, refused, changes>>
  BY DEF Sends
<1>2. /\ carrying \in [Goroutines -> EnvelopeType] /\ carrying[g] \in EnvelopeType
      /\ wire \in Seq(EnvelopeType) /\ Len(wire) \in Nat
  BY LenProperties DEF IInv, TypeOK, DaemonOK, WireOK
<1>3. /\ carrying' \in [Goroutines -> EnvelopeType] /\ carrying'[g] = Nothing
      /\ ~Nothing.in_dapMu /\ Nothing.kind = "none"
      /\ \A o \in Goroutines \ {g} : carrying'[o] = carrying[o]
  BY <1>1, <1>2, NothingType DEF Nothing
<1>4. /\ wire' \in Seq(EnvelopeType) /\ Len(wire) <= Len(wire') /\ Len(wire') <= Len(wire) + 1
      /\ Len(wire') \in Nat
      /\ \A i \in 1..Len(wire) : wire'[i] = wire[i]
      /\ Len(wire') = Len(wire) + 1 => wire'[Len(wire')] = carrying[g]
  BY <1>1, <1>2, AppendProperties
<1>5. \A i \in 1..Len(wire') : i \in 1..Len(wire) \/ (i = Len(wire) + 1 /\ wire'[i] = carrying[g])
  BY <1>2, <1>4
<1>6. TypeOK'
  BY <1>1, <1>3, <1>4, CliSame DEF IInv, TypeOK, DaemonOK, WireOK
<1>7. ShapeInv'
  BY <1>1, <1>3, <1>4, <1>5 DEF IInv, ShapeInv
<1>8. RefusalInv'
  BY <1>1, <1>3, <1>4, <1>5 DEF IInv, RefusalInv, cliVars
<1>9. \A o \in Goroutines :
         carrying'[o].in_dapMu =>
             /\ o # g /\ carrying'[o] = carrying[o] /\ carrying[o].in_dapMu
             /\ dapMu = o /\ dapMu' = o /\ ~carrying[g].in_dapMu
  BY <1>1, <1>3 DEF IInv, OrderInv
<1>10. \A v \in Nat : Ahead(v) => Ahead(v)'
  BY <1>1, <1>4, <1>5, <1>9 DEF Ahead
<1>11. /\ session.version \in Nat /\ view.snap.version \in Nat
       /\ wait.baseline.snap.version \in Nat /\ carrying[g].snap.version \in Nat
  BY VersionType DEF IInv
<1>12. OrderInv'
  <2>1. \A o \in Goroutines :
           carrying'[o].in_dapMu => dapMu' = o /\ carrying'[o].snap.version <= session.version
    BY <1>9 DEF IInv, OrderInv
  <2>2. ASSUME NEW i \in 1..Len(wire'), wire'[i].in_dapMu
        PROVE  /\ wire'[i].snap.version <= session.version
               /\ \A o \in Goroutines :
                     carrying'[o].in_dapMu => wire'[i].snap.version <= carrying'[o].snap.version
               /\ \A j \in (i + 1)..Len(wire') :
                     wire'[j].in_dapMu => wire'[i].snap.version <= wire'[j].snap.version
    <3>1. CASE i \in 1..Len(wire)
      <4>1. /\ wire'[i] = wire[i] /\ wire[i].in_dapMu
            /\ \A j \in (i + 1)..Len(wire') :
                   j \in (i + 1)..Len(wire) \/ wire'[j] = carrying[g]
        BY <1>2, <1>4, <1>5, <2>2, <3>1
      <4>2. QED
        BY <1>2, <1>4, <1>9, <3>1, <4>1 DEF IInv, OrderInv
    <3>2. CASE i = Len(wire) + 1 /\ wire'[i] = carrying[g]
      BY <1>2, <1>4, <1>9, <2>2, <3>2 DEF IInv, OrderInv
    <3>3. QED
      BY <1>5, <3>1, <3>2
  <2>3. QED
    BY <1>1, <1>10, <1>11, <2>1, <2>2 DEF IInv, OrderInv, cliVars
<1>13. RefusedForItsOwn' /\ NewerThanBaseline'
  BY <1>1 DEF IInv, RefusedForItsOwn, NewerThanBaseline, cliVars
<1>14. QED
  BY <1>6, <1>7, <1>8, <1>12, <1>13 DEF IInv

\* Steps that leave the daemon and the wire, the messages and what is seen alone.
LEMMA RestSame ==
    ASSUME IInv, UNCHANGED <<daemonVars, wire, view, messages>>
    PROVE  DaemonOK' /\ RefusalInv'
<1>1. UNCHANGED <<session, dapMu, carrying, handling, refused, changes>>
  BY DEF daemonVars
<1>2. DaemonOK'
  BY <1>1 DEF IInv, TypeOK, DaemonOK
<1>3. RefusalInv'
  BY <1>1 DEF IInv, RefusalInv
<1>4. QED
  BY <1>2, <1>3

LEMMA OrderSame ==
    ASSUME OrderInv, UNCHANGED <<session, dapMu, carrying, wire, view>>,
           wait'.baseline = wait.baseline
    PROVE  OrderInv'
<1>1. \A v : Ahead(v) <=> Ahead(v)'
  BY DEF Ahead
<1>2. QED
  BY <1>1 DEF OrderInv

LEMMA BreakKeeps == ASSUME IInv, LinkBreaks PROVE IInv'
<1>1. UNCHANGED <<daemonVars, requests, wire, cliVars>> /\ link' = "down"
  BY DEF LinkBreaks
<1>2. DaemonOK' /\ RefusalInv' /\ CliOK'
  BY <1>1, RestSame, CliSame DEF IInv, TypeOK, cliVars
<1>3. WireOK' /\ ShapeInv'
  BY <1>1 DEF IInv, TypeOK, WireOK, ShapeInv, daemonVars
<1>4. OrderInv'
  BY <1>1, OrderSame DEF IInv, daemonVars, cliVars
<1>5. RefusedForItsOwn' /\ NewerThanBaseline'
  BY <1>1 DEF IInv, RefusedForItsOwn, NewerThanBaseline, daemonVars, cliVars
<1>6. QED
  BY <1>2, <1>3, <1>4, <1>5 DEF IInv, TypeOK

-----------------------------------------------------------------------------
(* The CLI *)

\* The messages a CLI keeps are among those it had and the one that came.
LEMMA LastType ==
    ASSUME NEW S, NEW seq \in Seq(S), NEW n \in Nat \ {0}
    PROVE  /\ Last(seq, n) \in Seq(S) /\ Len(Last(seq, n)) <= n
           /\ \A i \in 1..Len(Last(seq, n)) : \E j \in 1..Len(seq) : Last(seq, n)[i] = seq[j]
<1> DEFINE m == IF Len(seq) > n THEN Len(seq) - n + 1 ELSE 1
<1>1. Len(seq) \in Nat /\ \A i \in 1..Len(seq) : seq[i] \in S
  BY LenProperties, ElementOfSeq
<1>2. m \in Int /\ m >= 1 /\ Len(seq) - m + 1 <= n /\ Len(seq) \in Int
  BY <1>1
<1>3. \A i \in m..Len(seq) : seq[i] \in S
  BY <1>1, <1>2
<1>4. Last(seq, n) = SubSeq(seq, m, Len(seq))
  BY DEF Last
<1> HIDE DEF m
<1>5. /\ SubSeq(seq, m, Len(seq)) \in Seq(S)
      /\ Len(SubSeq(seq, m, Len(seq))) = IF m <= Len(seq) THEN Len(seq) - m + 1 ELSE 0
      /\ \A i \in 1..(Len(seq) - m + 1) : SubSeq(seq, m, Len(seq))[i] = seq[m + i - 1]
  BY <1>2, <1>3, SubSeqProperties
<1>6. ASSUME NEW i \in 1..Len(Last(seq, n))
      PROVE  \E j \in 1..Len(seq) : Last(seq, n)[i] = seq[j]
  <2>1. m + i - 1 \in 1..Len(seq) /\ i \in 1..(Len(seq) - m + 1)
    BY <1>1, <1>2, <1>4, <1>5
  <2>2. QED
    BY <1>4, <1>5, <2>1
<1>7. QED
  BY <1>1, <1>2, <1>4, <1>5, <1>6

LEMMA ReceiveKeeps == ASSUME IInv, Receives PROVE IInv'
<1> DEFINE m == Head(wire)
           note == [kind |-> m.kind, id |-> m.id]
<1>1. /\ wire # <<>> /\ wire \in Seq(EnvelopeType) /\ wire' = Tail(wire)
      /\ view' = IF m.kind = "error" THEN view ELSE [snap |-> m.snap, in_dapMu |-> m.in_dapMu]
      /\ messages' = Last(Append(messages, note), MessageLimit)
      /\ wait' = Woken
      /\ UNCHANGED <<daemonVars, requests, link, timer, outcome>>
  BY DEF IInv, TypeOK, WireOK, Receives
<1>2. /\ m = wire[1] /\ m \in EnvelopeType /\ Tail(wire) \in Seq(EnvelopeType)
      /\ Len(wire) \in Nat /\ Len(wire) > 0 /\ Len(wire') = Len(wire) - 1
      /\ \A i \in 1..Len(wire') : wire'[i] = wire[i + 1]
  BY <1>1, HeadTailProperties, EmptySeq
<1>3. m.kind \in MessageKinds /\ m.id \in 0..MaxCommands /\ m.snap \in SnapshotType
      /\ m.in_dapMu \in BOOLEAN
  <2>1. m.kind # "none"
    BY <1>2 DEF IInv, ShapeInv
  <2>2. /\ m.kind \in MessageKinds \cup {"none"} /\ m.id \in 0..MaxCommands
        /\ m.snap \in SnapshotType /\ m.in_dapMu \in BOOLEAN
    BY <1>2 DEF EnvelopeType
  <2>3. QED
    BY <2>1, <2>2
<1> HIDE DEF m
<1>4. note \in [kind : MessageKinds, id : 0..MaxCommands] /\ note.kind = m.kind /\ note.id = m.id
  BY <1>3
<1> HIDE DEF note
<1> DEFINE Notes == [kind : MessageKinds, id : 0..MaxCommands]
           all == Append(messages, note)
<1>5. /\ messages \in Seq(Notes) /\ Len(messages) \in Nat /\ note \in Notes
      /\ MessageLimit \in Nat \ {0}
  BY <1>4, LenProperties, LimitsAssumption DEF IInv, TypeOK, CliOK
<1>6. /\ messages' \in Seq(Notes) /\ Len(messages') <= MessageLimit
      /\ \A i \in 1..Len(messages') :
            messages'[i] = note \/ \E j \in 1..Len(messages) : messages'[i] = messages[j]
  <2> HIDE DEF Notes
  <2>1. /\ all \in Seq(Notes) /\ Len(all) = Len(messages) + 1
        /\ \A i \in 1..Len(messages) : all[i] = messages[i]
        /\ all[Len(messages) + 1] = note
    BY <1>5, AppendProperties
  <2>2. messages' = Last(all, MessageLimit)
    BY <1>1 DEF note
  <2> HIDE DEF all
  <2>3. /\ Last(all, MessageLimit) \in Seq(Notes) /\ Len(Last(all, MessageLimit)) <= MessageLimit
        /\ \A i \in 1..Len(Last(all, MessageLimit)) :
              \E j \in 1..Len(all) : Last(all, MessageLimit)[i] = all[j]
    BY <1>5, <2>1, LastType
  <2>4. \A j \in 1..Len(all) : j \in 1..Len(messages) \/ j = Len(messages) + 1
    BY <1>5, <2>1
  <2>5. QED
    BY <2>1, <2>2, <2>3, <2>4
<1>9. /\ view' \in ViewType
      /\ view' = view \/ (view'.snap = m.snap /\ view'.in_dapMu = m.in_dapMu)
  <2>1. [snap |-> m.snap, in_dapMu |-> m.in_dapMu] \in ViewType
    BY <1>3 DEF ViewType
  <2>2. view \in ViewType
    BY DEF IInv, TypeOK, CliOK
  <2>3. QED
    BY <1>1, <2>1, <2>2
<1>10. /\ wait' \in [pc : {"awake", "asleep", "idle", "hung up"}, id : 0..MaxCommands,
                      what : CommandKinds \cup {"hello"}, baseline : ViewType]
       /\ wait'.what = wait.what /\ wait'.id = wait.id /\ wait'.baseline = wait.baseline
  BY <1>1 DEF IInv, TypeOK, CliOK, Woken
<1>11. UNCHANGED <<session, dapMu, carrying, handling, refused, changes>>
  BY <1>1 DEF daemonVars
<1>12. TypeOK'
  <2>1. DaemonOK'
    BY <1>11 DEF IInv, TypeOK, DaemonOK
  <2>2. WireOK'
    BY <1>1, <1>2 DEF IInv, TypeOK, WireOK
  <2>3. CliOK'
    BY <1>1, <1>6, <1>9, <1>10 DEF IInv, TypeOK, CliOK
  <2>4. QED
    BY <2>1, <2>2, <2>3 DEF TypeOK
<1>13. ShapeInv'
  BY <1>1, <1>2, <1>11 DEF IInv, ShapeInv
<1>14. RefusalInv'
  <2>1. m.kind = "error" => m.id \in refused
    BY <1>2 DEF IInv, RefusalInv
  <2>2. \A i \in 1..Len(messages') : messages'[i].kind = "error" => messages'[i].id \in refused
    BY <1>4, <1>6, <2>1 DEF IInv, RefusalInv
  <2>3. QED
    BY <1>2, <1>11, <2>2 DEF IInv, RefusalInv
<1>15. \A v \in Nat : Ahead(v) => Ahead(v)'
  BY <1>2, <1>11 DEF Ahead
<1>16. /\ session.version \in Nat /\ view.snap.version \in Nat
       /\ wait.baseline.snap.version \in Nat /\ m.snap.version \in Nat
  BY <1>2, VersionType DEF IInv
<1>17. OrderInv'
  <2> PICK new \in Nat : new = m.snap.version
    BY <1>16
  <2>0. /\ 1 \in 1..Len(wire) /\ wire[1] = m
        /\ \A i \in 1..Len(wire') : i + 1 \in (1 + 1)..Len(wire) /\ i + 1 \in 1..Len(wire)
        /\ \A i \in 1..Len(wire') : \A j \in (i + 1)..Len(wire') :
              j \in 1..Len(wire') /\ j + 1 \in ((i + 1) + 1)..Len(wire)
    BY <1>2
  <2>1. m.in_dapMu => Ahead(new)'
    <3>1. m.in_dapMu =>
             /\ new <= session.version
             /\ \A g \in Goroutines : carrying[g].in_dapMu => new <= carrying[g].snap.version
             /\ \A j \in (1 + 1)..Len(wire) : wire[j].in_dapMu => new <= wire[j].snap.version
      BY <2>0 DEF IInv, OrderInv
    <3>2. m.in_dapMu => \A i \in 1..Len(wire') :
                            wire'[i].in_dapMu => new <= wire'[i].snap.version
      BY <1>2, <2>0, <3>1
    <3>3. QED
      BY <1>11, <3>1, <3>2 DEF Ahead
  <2>2. view'.in_dapMu => Ahead(view.snap.version)'
    <3>1. CASE view' = view
      BY <1>15, <1>16, <3>1 DEF IInv, OrderInv
    <3>2. CASE view'.snap = m.snap /\ view'.in_dapMu = m.in_dapMu
      BY <2>1, <3>2 DEF Ahead
    <3>3. QED
      BY <1>9, <3>1, <3>2
  <2>3. wait.baseline.in_dapMu =>
           /\ Ahead(wait.baseline.snap.version)
           /\ view'.in_dapMu => wait.baseline.snap.version <= view'.snap.version
    BY <1>9, <2>0 DEF IInv, OrderInv, Ahead
  <2>4. wait'.baseline.in_dapMu =>
           /\ Ahead(wait.baseline.snap.version)'
           /\ view'.in_dapMu => wait'.baseline.snap.version <= view'.snap.version
    BY <1>10, <1>15, <1>16, <2>3 DEF Ahead
  <2>5. \A i \in 1..Len(wire') :
           wire'[i].in_dapMu =>
              /\ wire'[i].snap.version <= session'.version
              /\ \A g \in Goroutines :
                    carrying'[g].in_dapMu => wire'[i].snap.version <= carrying'[g].snap.version
              /\ \A j \in (i + 1)..Len(wire') :
                    wire'[j].in_dapMu => wire'[i].snap.version <= wire'[j].snap.version
    <3>1. ASSUME NEW i \in 1..Len(wire'), wire'[i].in_dapMu
          PROVE  /\ wire'[i].snap.version <= session'.version
                 /\ \A g \in Goroutines :
                       carrying'[g].in_dapMu => wire'[i].snap.version <= carrying'[g].snap.version
                 /\ \A j \in ((i + 1) + 1)..Len(wire) :
                       wire[j].in_dapMu => wire'[i].snap.version <= wire[j].snap.version
      BY <1>2, <1>11, <2>0, <3>1 DEF IInv, OrderInv
    <3>2. QED
      BY <1>2, <2>0, <3>1
  <2>6. \A g \in Goroutines :
           carrying'[g].in_dapMu => dapMu' = g /\ carrying'[g].snap.version <= session'.version
    BY <1>11 DEF IInv, OrderInv
  <2>7. QED
    BY <2>2, <2>4, <2>5, <2>6 DEF OrderInv
<1>18. RefusedForItsOwn' /\ NewerThanBaseline'
  BY <1>1, <1>10, <1>11 DEF IInv, RefusedForItsOwn, NewerThanBaseline
<1>19. QED
  BY <1>12, <1>13, <1>14, <1>17, <1>18 DEF IInv

\* A waking alters where the command stands, not what it waits for.
LEMMA WokenType ==
    ASSUME TypeOK
    PROVE  /\ Woken \in [pc : {"awake", "asleep", "idle", "hung up"}, id : 0..MaxCommands,
                         what : CommandKinds \cup {"hello"}, baseline : ViewType]
           /\ Woken.what = wait.what /\ Woken.id = wait.id /\ Woken.baseline = wait.baseline
  BY DEF TypeOK, CliOK, Woken

\* A step that leaves what the CLI was sent alone.
LEMMA CliStep ==
    ASSUME CliOK, UNCHANGED <<view, messages>>,
           wait' \in [pc : {"awake", "asleep", "idle", "hung up"}, id : 0..MaxCommands,
                      what : CommandKinds \cup {"hello"}, baseline : ViewType],
           timer' \in {"off", "set", "expired"},
           outcome' \in [id : 0..MaxCommands, view : ViewType,
                         result : {"none", "ok", "refused", "timed out", "send failed"}]
    PROVE  CliOK'
<1> DEFINE Waits == [pc : {"awake", "asleep", "idle", "hung up"}, id : 0..MaxCommands,
                     what : CommandKinds \cup {"hello"}, baseline : ViewType]
           Outcomes == [id : 0..MaxCommands, view : ViewType,
                        result : {"none", "ok", "refused", "timed out", "send failed"}]
           Notes == Seq([kind : MessageKinds, id : 0..MaxCommands])
<1>1. wait' \in Waits /\ outcome' \in Outcomes /\ messages \in Notes
      /\ Len(messages) <= MessageLimit /\ view \in ViewType
  BY DEF CliOK
<1>2. messages' \in Notes /\ Len(messages') <= MessageLimit /\ view' \in ViewType
  <2> HIDE DEF Notes
  <2>1. QED
    BY <1>1
<1>3. QED
  <2> HIDE DEF Waits, Outcomes, Notes
  <2>1. CliOK' <=> /\ view' \in ViewType /\ messages' \in Notes
                   /\ Len(messages') <= MessageLimit /\ wait' \in Waits
                   /\ timer' \in {"off", "set", "expired"} /\ outcome' \in Outcomes
    BY ZenonT(30) DEF CliOK, Waits, Outcomes, Notes
  <2>2. QED
    BY <1>1, <1>2, <2>1

LEMMA ExpiresKeeps == ASSUME IInv, Expires PROVE IInv'
<1>1. /\ timer' = "expired" /\ wait' = Woken
      /\ UNCHANGED <<daemonVars, requests, wire, link, view, messages, outcome>>
  BY DEF Expires
<1>2. DaemonOK' /\ RefusalInv'
  BY <1>1, RestSame
<1>3. CliOK'
  BY <1>1, WokenType DEF IInv, TypeOK, CliOK
<1>4. WireOK' /\ ShapeInv'
  BY <1>1 DEF IInv, TypeOK, WireOK, ShapeInv, daemonVars
<1>5. wait'.baseline = wait.baseline /\ wait'.what = wait.what
  BY <1>1, WokenType DEF IInv
<1>6. OrderInv'
  BY <1>1, <1>5, OrderSame DEF IInv, daemonVars
<1>7. RefusedForItsOwn' /\ NewerThanBaseline'
  BY <1>1, <1>5 DEF IInv, RefusedForItsOwn, NewerThanBaseline, daemonVars
<1>8. QED
  BY <1>2, <1>3, <1>4, <1>6, <1>7 DEF IInv, TypeOK

\* The command begins with what its CLI sees, and has no outcome yet.
LEMMA RunKeeps == ASSUME IInv, NEW what \in Commands, Runs(what) PROVE IInv'
<1>1. /\ wait.id < MaxCommands /\ wait.id \in 0..MaxCommands /\ MaxCommands \in Nat
      /\ what \in CommandKinds /\ what # "hello"
      /\ UNCHANGED <<daemonVars, wire, link, view, messages>>
  BY ActorsAssumption, LimitsAssumption DEF IInv, TypeOK, CliOK, Runs, CommandKinds
<1>2. /\ outcome' \in [id : 0..MaxCommands, view : ViewType,
                       result : {"none", "ok", "refused", "timed out", "send failed"}]
      /\ outcome'.result \in {"none", "send failed"}
  <2>1. /\ NotRun \in [id : 0..MaxCommands, view : ViewType,
                       result : {"none", "ok", "refused", "timed out", "send failed"}]
        /\ NotRun.result = "none"
    BY <1>1, NothingType DEF NotRun
  <2>2. wait.id + 1 \in 0..MaxCommands
    BY <1>1
  <2>3. outcome' = NotRun \/ outcome' = [NotRun EXCEPT !.id = wait.id + 1, !.result = "send failed"]
    BY DEF Runs
  <2>4. QED
    BY <2>1, <2>2, <2>3
<1>3. RefusedForItsOwn' /\ NewerThanBaseline'
  BY <1>2 DEF RefusedForItsOwn, NewerThanBaseline
<1>4. DaemonOK' /\ RefusalInv'
  BY <1>1, RestSame
<1>5. CASE link = "up"
  <2>1. /\ requests' = Append(requests, [id |-> wait.id + 1, what |-> what])
        /\ wait' = [pc |-> "awake", id |-> wait.id + 1, what |-> what, baseline |-> view]
        /\ timer' = "set"
    BY <1>5 DEF Runs
  <2>2. /\ [id |-> wait.id + 1, what |-> what] \in RequestType
        /\ wait.id + 1 \in 1..MaxCommands /\ wait.id + 1 \in 0..MaxCommands
    BY <1>1 DEF RequestType
  <2>3. view \in ViewType
    BY DEF IInv, TypeOK, CliOK
  <2>4. /\ requests \in Seq(RequestType) /\ Len(requests) \in Nat
        /\ requests' \in Seq(RequestType) /\ Len(requests') = Len(requests) + 1
        /\ \A i \in 1..Len(requests) : requests'[i] = requests[i]
        /\ requests'[Len(requests) + 1] = [id |-> wait.id + 1, what |-> what]
    BY <2>1, <2>2, AppendProperties, LenProperties DEF IInv, TypeOK, WireOK
  <2>5. WireOK'
    BY <1>1, <2>4 DEF IInv, TypeOK, WireOK
  <2>6. ShapeInv'
    <3>1. \A i \in 1..Len(requests') :
             i \in 1..Len(requests) \/ i = Len(requests) + 1
      BY <2>4
    <3>2. \A i \in 1..Len(requests') :
             requests'[i].what # "hello" => requests'[i].id \in 1..MaxCommands
      BY <2>2, <2>4, <3>1 DEF IInv, ShapeInv
    <3>3. QED
      BY <1>1, <3>2 DEF IInv, ShapeInv, daemonVars
  <2>7. CliOK'
    BY <1>1, <1>2, <2>1, <2>2, <2>3 DEF IInv, TypeOK, CliOK
  <2>8. OrderInv'
    <3>1. UNCHANGED <<session, dapMu, carrying, wire, view>> /\ wait'.baseline = view
      BY <1>1, <2>1 DEF daemonVars
    <3>2. \A v : Ahead(v) <=> Ahead(v)'
      BY <3>1 DEF Ahead
    <3>3. view.snap.version \in Nat
      BY VersionType DEF IInv
    <3>4. view.in_dapMu =>
             Ahead(wait.baseline.snap.version)' /\ wait'.baseline.snap.version <= view'.snap.version
      BY <3>1, <3>2, <3>3 DEF IInv, OrderInv, Ahead
    <3>5. QED
      BY <3>1, <3>2, <3>4 DEF IInv, OrderInv
  <2>9. QED
    BY <1>3, <1>4, <2>5, <2>6, <2>7, <2>8 DEF IInv, TypeOK
<1>6. CASE link # "up"
  <2>1. wait' = [wait EXCEPT !.id = @ + 1] /\ UNCHANGED <<requests, timer>>
    BY <1>6 DEF Runs
  <2>2. /\ wait' \in [pc : {"awake", "asleep", "idle", "hung up"}, id : 0..MaxCommands,
                      what : CommandKinds \cup {"hello"}, baseline : ViewType]
        /\ wait'.baseline = wait.baseline /\ timer' \in {"off", "set", "expired"}
    <3>1. /\ wait \in [pc : {"awake", "asleep", "idle", "hung up"}, id : 0..MaxCommands,
                       what : CommandKinds \cup {"hello"}, baseline : ViewType]
          /\ timer \in {"off", "set", "expired"}
      BY DEF IInv, TypeOK, CliOK
    <3>2. wait.id + 1 \in 0..MaxCommands
      BY <1>1
    <3>3. QED
      BY <2>1, <3>1, <3>2
  <2>3. CliOK'
    BY <1>1, <1>2, <2>2, CliStep DEF IInv, TypeOK
  <2>4. WireOK' /\ ShapeInv'
    BY <1>1, <2>1 DEF IInv, TypeOK, WireOK, ShapeInv, daemonVars
  <2>5. OrderInv'
    BY <1>1, <2>2, OrderSame DEF IInv, daemonVars
  <2>6. QED
    BY <1>3, <1>4, <2>3, <2>4, <2>5 DEF IInv, TypeOK
<1>7. QED
  BY <1>5, <1>6

\* A look ends with "refused" only for an own error, which is a refusal, and
\* with "ok" on a version that is not the one it began with, nor before it.
LEMMA LookKeeps == ASSUME IInv, Looks PROVE IInv'
<1>1. /\ UNCHANGED <<daemonVars, requests, wire, link, view, messages>>
      /\ UNCHANGED <<session, carrying, refused, dapMu>>
  BY DEF Looks, daemonVars
<1>2. DaemonOK' /\ RefusalInv'
  BY <1>1, RestSame
<1>3. WireOK' /\ ShapeInv'
  BY <1>1 DEF IInv, TypeOK, WireOK, ShapeInv
<1>4. /\ wait \in [pc : {"awake", "asleep", "idle", "hung up"}, id : 0..MaxCommands,
                   what : CommandKinds \cup {"hello"}, baseline : ViewType]
      /\ view \in ViewType
  BY DEF IInv, TypeOK, CliOK
<1>5. /\ wait' \in [pc : {"awake", "asleep", "idle", "hung up"}, id : 0..MaxCommands,
                    what : CommandKinds \cup {"hello"}, baseline : ViewType]
      /\ wait'.baseline = wait.baseline /\ wait'.what = wait.what
  <2>1. \E pc \in {"awake", "asleep", "idle", "hung up"} : wait' = [wait EXCEPT !.pc = pc]
    BY DEF Looks, Ends
  <2>2. QED
    BY <1>4, <2>1
<1>6. OrderInv'
  BY <1>1, <1>5, OrderSame DEF IInv
<1>7. ASSUME ~UNCHANGED <<timer, outcome>>
      PROVE  /\ timer' = "off"
             /\ \E result \in {"refused", "ok", "timed out"} :
                   /\ outcome' = [id |-> wait.id, result |-> result, view |-> view]
                   /\ result = "refused" => OwnRefusal
                   /\ result = "ok" => Satisfied
  BY <1>7 DEF Looks, Ends
<1>8. ASSUME Satisfied, wait.what \notin {"hello", "status"},
             view.in_dapMu, wait.baseline.in_dapMu
      PROVE  view.snap.version > wait.baseline.snap.version
  <2>1. view.snap.version # wait.baseline.snap.version
    BY <1>8 DEF Satisfied
  <2>2. wait.baseline.snap.version <= view.snap.version
    BY <1>8 DEF IInv, OrderInv
  <2>3. view.snap.version \in Nat /\ wait.baseline.snap.version \in Nat
    BY VersionType DEF IInv
  <2>4. QED
    BY <2>1, <2>2, <2>3
<1>9. CASE UNCHANGED <<timer, outcome>>
  <2>1. CliOK'
    BY <1>1, <1>5, <1>9, CliStep DEF IInv, TypeOK, CliOK
  <2>2. RefusedForItsOwn' /\ NewerThanBaseline'
    BY <1>1, <1>5, <1>9 DEF IInv, RefusedForItsOwn, NewerThanBaseline
  <2>3. QED
    BY <1>2, <1>3, <1>6, <2>1, <2>2 DEF IInv, TypeOK
<1>10. CASE ~UNCHANGED <<timer, outcome>>
  <2>1. PICK result \in {"refused", "ok", "timed out"} :
         /\ outcome' = [id |-> wait.id, result |-> result, view |-> view]
         /\ result = "refused" => OwnRefusal
         /\ result = "ok" => Satisfied
    BY <1>7, <1>10
  <2>2. outcome'.id = wait.id /\ outcome'.result = result /\ outcome'.view = view
    BY <2>1
  <2>3. outcome' \in [id : 0..MaxCommands, view : ViewType,
                      result : {"none", "ok", "refused", "timed out", "send failed"}]
    BY <1>4, <2>1
  <2>4. CliOK'
    BY <1>1, <1>5, <1>7, <1>10, <2>3, CliStep DEF IInv, TypeOK
  <2>5. RefusedForItsOwn'
    <3>1. OwnRefusal => wait.id \in refused
      BY DEF OwnRefusal, IInv, RefusalInv
    <3>2. QED
      BY <1>1, <2>1, <2>2, <3>1 DEF RefusedForItsOwn
  <2>6. NewerThanBaseline'
    <3>1. /\ outcome'.view.in_dapMu = view.in_dapMu
          /\ outcome'.view.snap.version = view.snap.version
          /\ wait'.baseline.in_dapMu = wait.baseline.in_dapMu
          /\ wait'.baseline.snap.version = wait.baseline.snap.version
      BY <1>5, <2>2
    <3>2. QED
      BY <1>5, <1>8, <2>1, <2>2, <3>1 DEF NewerThanBaseline
  <2>7. QED
    BY <1>2, <1>3, <1>6, <2>4, <2>5, <2>6 DEF IInv, TypeOK
<1>11. QED
  BY <1>9, <1>10

-----------------------------------------------------------------------------
(* The theorems *)

LEMMA InitInvariant == Init => IInv
<1> SUFFICES ASSUME Init PROVE IInv
  OBVIOUS
<1>1. PICK l \in Seen : session = [version |-> 1, lifecycle |-> l]
  BY DEF Init
<1>2. session \in SnapshotType
  BY <1>1, ActorsAssumption DEF SnapshotType
<1>3. DaemonOK
  <2>1. NoRequest \in RequestType
    BY LimitsAssumption DEF RequestType, NoRequest
  <2>2. QED
    BY <1>2, <2>1, NothingType, LimitsAssumption DEF Init, DaemonOK
<1>4. WireOK /\ wire = <<>> /\ Len(wire) = 0 /\ Len(messages) = 0
  <2>1. [id |-> 0, what |-> "hello"] \in RequestType
    BY LimitsAssumption DEF RequestType
  <2>2. QED
    BY <2>1 DEF Init, WireOK
<1>5. CliOK
  <2>1. /\ NotRun \in [id : 0..MaxCommands, view : ViewType,
                       result : {"none", "ok", "refused", "timed out", "send failed"}]
    BY NothingType, LimitsAssumption DEF NotRun
  <2>2. wait \in [pc : {"awake", "asleep", "idle", "hung up"}, id : 0..MaxCommands,
                  what : CommandKinds \cup {"hello"}, baseline : ViewType]
    BY NothingType, LimitsAssumption DEF Init
  <2>3. QED
    <3>1. messages = <<>> /\ view = NoView /\ timer = "set" /\ outcome = NotRun
      BY DEF Init
    <3>2. /\ messages \in Seq([kind : MessageKinds, id : 0..MaxCommands])
          /\ Len(messages) <= MessageLimit
      <4> DEFINE Notes == [kind : MessageKinds, id : 0..MaxCommands]
      <4> HIDE DEF Notes
      <4>1. messages \in Seq(Notes) /\ Len(messages) <= MessageLimit
        BY <3>1, LimitsAssumption
      <4>2. QED
        BY <4>1 DEF Notes
    <3>3. outcome \in [id : 0..MaxCommands, view : ViewType,
                       result : {"none", "ok", "refused", "timed out", "send failed"}]
      <4>1. outcome = NotRun
        BY <3>1
      <4>2. QED
        BY <2>1, <4>1, Zenon
    <3>4. view \in ViewType /\ timer \in {"off", "set", "expired"}
      BY <3>1, NothingType
    <3>5. QED
      BY <2>2, <3>2, <3>3, <3>4, Zenon DEF CliOK
<1>6. ShapeInv
  <2>1. \A i \in 1..Len(requests) : requests[i].what = "hello"
    BY DEF Init
  <2>2. QED
    BY <1>4, <2>1 DEF Init, ShapeInv
<1>7. RefusalInv
  BY <1>4 DEF Init, RefusalInv, Nothing
<1>8. OrderInv
  BY <1>4 DEF Init, OrderInv, Nothing, NoView
<1>9. RefusedForItsOwn /\ NewerThanBaseline
  BY DEF Init, RefusedForItsOwn, NewerThanBaseline, NotRun
<1>10. QED
  BY <1>3, <1>4, <1>5, <1>6, <1>7, <1>8, <1>9 DEF IInv, TypeOK

LEMMA StutterKeeps == IInv /\ UNCHANGED vars => IInv'
<1> SUFFICES ASSUME IInv, UNCHANGED vars PROVE IInv'
  OBVIOUS
<1>1. UNCHANGED <<daemonVars, cliVars, requests, wire, link>>
  BY DEF vars, daemonVars, cliVars
<1>2. DaemonOK' /\ RefusalInv' /\ CliOK' /\ WireOK'
  BY <1>1, RestSame, CliSame, WireSame DEF IInv, TypeOK, cliVars
<1>3. ShapeInv' /\ RefusedForItsOwn' /\ NewerThanBaseline'
  BY <1>1 DEF IInv, ShapeInv, RefusedForItsOwn, NewerThanBaseline, daemonVars, cliVars
<1>4. OrderInv'
  BY <1>1, OrderSame DEF IInv, daemonVars, cliVars
<1>5. QED
  BY <1>2, <1>3, <1>4 DEF IInv, TypeOK

LEMMA NextInvariant == IInv /\ [Next]_vars => IInv'
<1> SUFFICES ASSUME IInv, [Next]_vars PROVE IInv'
  OBVIOUS
<1>1. CASE \E g \in Lockers : LockerChanges(g)
  BY <1>1, LockerKeeps
<1>2. CASE \E g \in Touchers : Touches(g)
  BY <1>2, TouchKeeps
<1>3. CASE \E g \in Goroutines : Sends(g)
  BY <1>3, SendKeeps
<1>4. CASE HandlerStep
  BY <1>4, HelloKeeps, QueryKeeps, ChangeKeeps, RefusingKeeps, RespondKeeps DEF HandlerStep
<1>5. CASE LinkBreaks \/ Receives \/ Expires \/ Looks
  BY <1>5, BreakKeeps, ReceiveKeeps, ExpiresKeeps, LookKeeps
<1>6. CASE \E what \in Commands : Runs(what)
  BY <1>6, RunKeeps
<1>7. CASE UNCHANGED vars
  BY <1>7, StutterKeeps
<1>8. QED
  BY <1>1, <1>2, <1>3, <1>4, <1>5, <1>6, <1>7 DEF Next

\* The inductive invariant holds for any number of goroutines and commands.
THEOREM Invariance == Spec => []IInv
  BY InitInvariant, NextInvariant, PTL DEF Spec

\* Every variable keeps its shape; above all readerLoop's messages stay within
\* MessageLimit, whatever arrives.
THEOREM TypeCorrect == Spec => []TypeOK
<1>1. IInv => TypeOK
  BY DEF IInv
<1>2. QED
  BY <1>1, Invariance, PTL

\* A command of a shell that fails with the daemon's error had its own request
\* refused, although errors of earlier commands may be among the messages.
THEOREM Refusals == Spec => []RefusedForItsOwn
<1>1. IInv => RefusedForItsOwn
  BY DEF IInv
<1>2. QED
  BY <1>1, Invariance, PTL

\* The state that a command reports was made after the one it began with, when
\* both were broadcast under dapMu, however sends and other goroutines interleave.
THEOREM Newer == Spec => []NewerThanBaseline
<1>1. IInv => NewerThanBaseline
  BY DEF IInv
<1>2. QED
  BY <1>1, Invariance, PTL

=============================================================================
