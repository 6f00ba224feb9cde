------------------------ MODULE DebugSessionCommands ------------------------
(***************************************************************************)
(* Proofs of what the daemon of DebugSession sends: no pause nobody asked  *)
(* for, and to each adapter its handshake in order.                        *)
(***************************************************************************)
EXTENDS DebugSessionProofs, SequenceTheorems

-----------------------------------------------------------------------------
(* What is written to an adapter *)

\* Writing counts each command once, with the adapter it goes to alone, and
\* nothing at all on a stream that is not open.
LEMMA WrittenPending ==
    ASSUME WireOK, NEW k, NEW cmds, NEW g \in Sessions, NEW c \in Commands
    PROVE  /\ Written(k, cmds)[g].pending[c] \in
                {adapter[g].pending[c], adapter[g].pending[c] + 1}
           /\ c \notin cmds =>
                Written(k, cmds)[g].pending[c] = adapter[g].pending[c]
           /\ Written(k, cmds)[g].announced = adapter[g].announced
           /\ g # k \/ link[g] # "open" => Written(k, cmds)[g] = adapter[g]
  BY DEF Written, WireOK, AdapterType

\* Commands that are no part of the handshake leave what was asked alone.
LEMMA WrittenAsked ==
    ASSUME WireOK, NEW k, NEW cmds, NEW g \in Sessions,
           cmds \cap HandshakeCommands = {}
    PROVE  Written(k, cmds)[g].asked = adapter[g].asked
  BY DEF Written, WireOK, AdapterType

\* The one command of the handshake that is among them comes last.
LEMMA WrittenTurn ==
    ASSUME WireOK, NEW g \in Sessions, link[g] = "open", NEW cmds, NEW h,
           cmds \cap HandshakeCommands = {h}
    PROVE  Written(g, cmds)[g].asked = Append(adapter[g].asked, h)
<1>1. /\ adapter \in [Sessions -> AdapterType] /\ adapter[g] \in AdapterType
      /\ cmds \cap HandshakeCommands # {}
  BY DEF WireOK
<1>2. (CHOOSE c \in cmds : c \in HandshakeCommands) = h
  OBVIOUS
<1>3. QED
  BY <1>1, <1>2 DEF Written, AdapterType

-----------------------------------------------------------------------------
(* Pauses *)

Armed == IF app.pauseAfterThreads THEN 1 ELSE 0

\* What may still become a pause: the requests on their way, and the flag.
Outstanding == Cardinality(PausesUnderWay) + Armed

\* What the requests for session g account for.
Owed(g) == pauses.sent[g] + (IF g = Upcoming THEN Outstanding ELSE 0)

PauseInv == \A g \in Sessions : Owed(g) <= pauses.asked[g]

\* Nothing arms the flag but SelectThread: what leaves it alone, finalizes or
\* severs does not.
LEMMA ArmedMoves ==
    ASSUME AppOK
    PROVE  /\ Armed \in {0, 1} /\ Armed' \in {0, 1}
           /\ app' = app => Armed' = Armed
           /\ app' = Detached \/ app' = [Detached EXCEPT !.dap = app.dap] =>
                Armed' = 0
           /\ app' = [app EXCEPT !.conn = Nil, !.cmd = Nil, !.waitDone = Nil] =>
                Armed' = Armed
<1>1. ~Detached.pauseAfterThreads
  BY DEF Detached
<1>2. QED
  BY <1>1 DEF Armed, AppOK, AppType, Detached

\* One handler more, or one less, has a pause on its way.
LEMMA UnderWayCount ==
    ASSUME NEW p, PausesUnderWay' \subseteq PausesUnderWay \cup {p}
    PROVE  /\ Cardinality(PausesUnderWay) \in Nat
           /\ Cardinality(PausesUnderWay') \in Nat
           /\ Cardinality(PausesUnderWay') <= Cardinality(PausesUnderWay) + 1
           /\ PausesUnderWay' \subseteq PausesUnderWay =>
                Cardinality(PausesUnderWay') <= Cardinality(PausesUnderWay)
           /\ p \in PausesUnderWay /\ p \notin PausesUnderWay' =>
                Cardinality(PausesUnderWay') + 1 <= Cardinality(PausesUnderWay)
<1>1. IsFiniteSet(PausesUnderWay)
  <2>1. PausesUnderWay \subseteq Handlers
    BY DEF PausesUnderWay
  <2>2. QED
    BY <2>1, HandlersAssumption, FS_Subset
<1>2. /\ IsFiniteSet(PausesUnderWay \cup {p})
      /\ Cardinality(PausesUnderWay \cup {p}) <= Cardinality(PausesUnderWay) + 1
      /\ Cardinality(PausesUnderWay) \in Nat
  <2>1. Cardinality(PausesUnderWay) \in Nat
    BY <1>1, FS_CardinalityType
  <2>2. /\ IsFiniteSet(PausesUnderWay \cup {p})
        /\ \/ Cardinality(PausesUnderWay \cup {p}) = Cardinality(PausesUnderWay)
           \/ Cardinality(PausesUnderWay \cup {p}) = Cardinality(PausesUnderWay) + 1
    BY <1>1, FS_AddElement
  <2>3. QED
    BY <2>1, <2>2
<1>3. /\ Cardinality(PausesUnderWay') <= Cardinality(PausesUnderWay \cup {p})
      /\ Cardinality(PausesUnderWay') \in Nat
      /\ Cardinality(PausesUnderWay \cup {p}) \in Nat
  BY <1>2, FS_Subset, FS_CardinalityType
<1>4. PausesUnderWay' \subseteq PausesUnderWay =>
        Cardinality(PausesUnderWay') <= Cardinality(PausesUnderWay)
  BY <1>1, FS_Subset
<1>5. ASSUME p \in PausesUnderWay, p \notin PausesUnderWay'
      PROVE  Cardinality(PausesUnderWay') + 1 <= Cardinality(PausesUnderWay)
  <2>1. /\ IsFiniteSet(PausesUnderWay \ {p})
        /\ Cardinality(PausesUnderWay \ {p}) = Cardinality(PausesUnderWay) - 1
    BY <1>1, <1>5, FS_RemoveElement
  <2>2. Cardinality(PausesUnderWay') <= Cardinality(PausesUnderWay \ {p})
    BY <1>5, <2>1, FS_Subset
  <2>3. QED
    BY <1>2, <1>3, <2>1, <2>2
<1>6. QED
  BY <1>2, <1>3, <1>4, <1>5

\* The terms of the inequality are numbers, before the step and after it.
LEMMA PauseNumbers ==
    ASSUME IInv, PausesOK'
    PROVE  /\ Armed \in {0, 1} /\ Armed' \in {0, 1}
           /\ Cardinality(PausesUnderWay) \in Nat
           /\ Outstanding \in Nat /\ session.id \in Nat
           /\ \A g \in Sessions :
                /\ pauses.sent[g] \in Nat /\ pauses'.sent[g] \in Nat
                /\ pauses.asked[g] \in Int /\ pauses'.asked[g] \in Int
<1>1. Armed \in {0, 1} /\ Armed' \in {0, 1} /\ session.id \in Nat
  BY Basics, ArmedMoves
<1>2. Cardinality(PausesUnderWay) \in Nat
  <2>1. PausesUnderWay \subseteq Handlers
    BY DEF PausesUnderWay
  <2>2. QED
    BY <2>1, HandlersAssumption, FS_Subset, FS_CardinalityType
<1>3. PausesOK
  BY Basics
<1>4. QED
  BY <1>1, <1>2, <1>3 DEF PausesOK, Outstanding

\* A step of handler p changes what p has on its way, and nobody else.
LEMMA UnderWayMoves ==
    ASSUME HandlersOK, NEW p \in Goroutines, NEW label, NEW what,
           Goto(p, label, what)
    PROVE  /\ PausesUnderWay' \subseteq PausesUnderWay \cup {p}
           /\ what # "pause" => PausesUnderWay' \subseteq PausesUnderWay \ {p}
           /\ what = call[p] => PausesUnderWay' \subseteq PausesUnderWay
  BY DEF HandlersOK, PausesUnderWay, Goto, Goroutines

\* Who is not in a reset before or after the step does not change which session
\* comes next.
LEMMA UpcomingFrame ==
    ASSUME session'.id = session.id,
           \A p \in Handlers : pc'[p] = "reaping" <=> pc[p] = "reaping"
    PROVE  Upcoming' = Upcoming
  BY DEF Upcoming

\* While an attach waits in its reset, no stream is open: the adapter before
\* was severed.  So an open stream of a.dap is that of the upcoming session.
LEMMA OpenIsUpcoming ==
    ASSUME IInv, HeldInv, NEW g \in Sessions, g = app.dap, link[g] = "open"
    PROVE  g = Upcoming
<1>1. /\ ClientInv /\ Nil \notin Sessions /\ \A p \in Handlers : p \in Goroutines
      /\ {app.dap, app.conn, app.cmd} \subseteq {Nil} \cup Sessions
  BY Basics
<1>2. ASSUME NEW p \in Handlers, pc[p] = "reaping"
      PROVE  FALSE
  <2>1. app.conn = Nil /\ app.cmd = Nil
    BY <1>1, <1>2 DEF HeldInv
  <2>2. QED
    BY <1>1, <2>1 DEF HeldInv
<1>3. QED
  BY <1>1, <1>2 DEF ClientInv, Upcoming

\* A step that leaves the counts alone and makes nobody ask for a pause.
LEMMA PauseFrame ==
    ASSUME IInv, PauseInv, AppOK', Upcoming' = Upcoming, UNCHANGED pauses,
           Armed' <= Armed, PausesUnderWay' \subseteq PausesUnderWay
    PROVE  PauseInv'
<1>1. PausesOK'
  BY Basics DEF PausesOK
<1>2. /\ Cardinality(PausesUnderWay') <= Cardinality(PausesUnderWay)
      /\ Cardinality(PausesUnderWay') \in Nat
  BY UnderWayCount
<1>3. Outstanding' <= Outstanding /\ Outstanding' \in Nat
  BY <1>1, <1>2, PauseNumbers DEF Outstanding
<1>4. QED
  BY <1>1, <1>3, PauseNumbers DEF PauseInv, Owed

\* A command goes out to a.dap: at most one pause, paid for by what was
\* outstanding, and only with the session that is upcoming.
LEMMA PauseGoes ==
    ASSUME IInv, HeldInv, PauseInv, PausesOK', Upcoming' = Upcoming,
           NEW cmds, pauses' = PauseSent(app.dap, cmds),
           Outstanding' \in Nat,
           Outstanding' <= Outstanding,
           "pause" \in cmds => Outstanding' + 1 <= Outstanding
    PROVE  PauseInv'
<1>1. PausesOK
  BY Basics
<1>2. SUFFICES ASSUME NEW g \in Sessions
               PROVE  Owed(g)' <= pauses'.asked[g]
  BY DEF PauseInv
<1>3. Owed(g) <= pauses.asked[g] /\ pauses'.asked[g] = pauses.asked[g]
  BY <1>1 DEF PauseInv, PauseSent, PausesOK
<1>4. CASE g = app.dap /\ link[g] = "open" /\ "pause" \in cmds
  <2>1. g = Upcoming
    BY <1>4, OpenIsUpcoming
  <2>2. pauses'.sent[g] = pauses.sent[g] + 1
    BY <1>1, <1>4 DEF PauseSent, PausesOK
  <2>3. QED
    BY <1>3, <1>4, <2>1, <2>2, PauseNumbers DEF Owed
<1>5. CASE ~(g = app.dap /\ link[g] = "open" /\ "pause" \in cmds)
  <2>1. pauses'.sent[g] = pauses.sent[g]
    BY <1>1, <1>5 DEF PauseSent, PausesOK
  <2>2. QED
    BY <1>3, <2>1, PauseNumbers DEF Owed
<1>6. QED
  BY <1>4, <1>5

\* A pause that is let through is counted for the upcoming session.
LEMMA PauseLetThrough ==
    ASSUME IInv, IInv', PauseInv, NEW p \in Handlers, NEW r \in Requests,
           EnsureActiveAdapter(p, r)
    PROVE  PauseInv'
<1>1. /\ p \in Goroutines /\ HandlersOK /\ AppOK /\ AppOK' /\ PausesOK /\ PausesOK'
  BY Basics DEF IInv, TypeOK, ProgramOK
<1>2. /\ Goto(p, "checked", r) /\ pc[p] = "idle" /\ UNCHANGED <<app, session>>
  BY DEF EnsureActiveAdapter, Begins, codeVars
<1>3. Upcoming' = Upcoming
  BY <1>1, <1>2, UpcomingFrame DEF Goto, HandlersOK
<1>4. Armed' = Armed
  BY <1>1, <1>2, ArmedMoves
<1>5. CASE r = "pause"
  <2>1. PausesUnderWay' \subseteq PausesUnderWay \cup {p}
    BY <1>1, <1>2, UnderWayMoves
  <2>2. /\ Cardinality(PausesUnderWay') <= Cardinality(PausesUnderWay) + 1
        /\ Cardinality(PausesUnderWay') \in Nat
    BY <2>1, UnderWayCount
  <2>3. Outstanding' <= Outstanding + 1 /\ Outstanding' \in Nat
    BY <1>1, <1>4, <2>2, PauseNumbers DEF Outstanding
  <2>4. \A g \in Sessions :
            /\ pauses'.sent[g] = pauses.sent[g]
            /\ pauses'.asked[g] = pauses.asked[g] + (IF g = Upcoming THEN 1 ELSE 0)
    BY <1>1, <1>5 DEF EnsureActiveAdapter, PauseAsked, PausesOK
  <2>5. QED
    BY <1>1, <1>3, <2>3, <2>4, PauseNumbers DEF PauseInv, Owed
<1>6. CASE r # "pause"
  <2>1. PausesUnderWay' \subseteq PausesUnderWay
    BY <1>1, <1>2, <1>6, UnderWayMoves
  <2>2. UNCHANGED pauses
    BY <1>6 DEF EnsureActiveAdapter
  <2>3. QED
    BY <1>1, <1>3, <1>4, <2>1, <2>2, PauseFrame, PauseNumbers
<1>7. QED
  BY <1>5, <1>6

\* With no thread known a pause is put off; it is sent, or put off, once.
LEMMA PauseCommands ==
    ASSUME IInv, IInv', HeldInv, PauseInv, NEW p \in Handlers, CommandStep(p)
    PROVE  PauseInv'
<1>1. /\ p \in Goroutines /\ HandlersOK /\ AppOK /\ AppOK' /\ PausesOK /\ PausesOK'
  BY Basics DEF IInv, TypeOK, ProgramOK
<1>2. CASE SelectThread(p)
  <2>1. UNCHANGED <<session, pauses>> /\ pc[p] = "checked"
    BY <1>2 DEF SelectThread
  <2>2. \E label \in {"sending", "idle"} : \E what : Goto(p, label, what)
    BY <1>2 DEF SelectThread, Return
  <2>3. Upcoming' = Upcoming
    BY <1>1, <2>1, <2>2, UpcomingFrame DEF Goto, HandlersOK
  <2>4. CASE UNCHANGED app
    <3>1. Goto(p, "sending", call[p]) \/ Goto(p, "sending", "threads")
          \/ Goto(p, "idle", "none")
      BY <1>2 DEF SelectThread, Return
    <3>2. PausesUnderWay' \subseteq PausesUnderWay
      BY <1>1, <3>1, UnderWayMoves
    <3>3. Armed' = Armed
      BY <1>1, <2>4, ArmedMoves
    <3>4. QED
      BY <1>1, <2>1, <2>3, <3>2, <3>3, PauseFrame, PauseNumbers
  <2>5. CASE ~UNCHANGED app
    <3>1. Goto(p, "sending", "threads") /\ call[p] = "pause"
      BY <1>2, <2>5 DEF SelectThread
    <3>2. PausesUnderWay' \subseteq PausesUnderWay \ {p} /\ p \in PausesUnderWay
      BY <1>1, <3>1, UnderWayMoves DEF PausesUnderWay
    <3>3. /\ Cardinality(PausesUnderWay') + 1 <= Cardinality(PausesUnderWay)
          /\ Cardinality(PausesUnderWay') \in Nat
      BY <3>2, UnderWayCount
    <3>4. Outstanding' <= Outstanding /\ Outstanding' \in Nat
      BY <1>1, <3>3, PauseNumbers DEF Outstanding, Armed
    <3>5. QED
      BY <1>1, <2>1, <2>3, <3>4, PauseNumbers DEF PauseInv, Owed
  <2>6. QED
    BY <2>4, <2>5
<1>3. CASE SendCommand(p)
  <2>1. /\ UNCHANGED <<app, session>> /\ pc[p] = "sending"
        /\ Goto(p, "idle", "none") /\ pauses' = PauseSent(app.dap, {call[p]})
    BY <1>3 DEF SendCommand, Return, codeVars
  <2>2. Upcoming' = Upcoming
    BY <1>1, <2>1, UpcomingFrame DEF Goto, HandlersOK
  <2>3. Armed' = Armed
    BY <1>1, <2>1, ArmedMoves
  <2>4. PausesUnderWay' \subseteq PausesUnderWay \ {p}
    BY <1>1, <2>1, UnderWayMoves
  <2>5. call[p] = "pause" => p \in PausesUnderWay
    BY DEF PausesUnderWay
  <2>6. /\ Cardinality(PausesUnderWay') \in Nat
        /\ Cardinality(PausesUnderWay') <= Cardinality(PausesUnderWay)
        /\ call[p] = "pause" =>
             Cardinality(PausesUnderWay') + 1 <= Cardinality(PausesUnderWay)
    BY <2>4, <2>5, UnderWayCount
  <2>7. /\ Outstanding' \in Nat /\ Outstanding' <= Outstanding
        /\ "pause" \in {call[p]} => Outstanding' + 1 <= Outstanding
    BY <1>1, <2>3, <2>6, PauseNumbers DEF Outstanding
  <2>8. QED
    BY <1>1, <2>1, <2>2, <2>7, PauseGoes
<1>4. CASE SendOnNil(p)
  <2>1. UNCHANGED <<session, app, pauses, pc, call>>
    BY <1>4 DEF SendOnNil, Panic, codeVars, handlerVars
  <2>2. Upcoming' = Upcoming
    BY <2>1, UpcomingFrame
  <2>3. PausesUnderWay' = PausesUnderWay /\ Armed' = Armed
    BY <2>1 DEF PausesUnderWay, Armed
  <2>4. QED
    BY <1>1, <2>1, <2>2, <2>3, PauseFrame, PauseNumbers
<1>5. QED
  BY <1>2, <1>3, <1>4 DEF CommandStep

\* The reset takes the flag down and moves what is on its way to the session that
\* comes next; then that session is the current one.
LEMMA PauseAttaches ==
    ASSUME IInv, IInv', PauseInv, NEW p \in Handlers,
           (\E r \in Requests : AttachResets(p, r)) \/ AttachStep(p)
    PROVE  PauseInv'
<1>1. /\ p \in Goroutines /\ HandlersOK /\ HandlersOK' /\ AppOK /\ AppOK'
      /\ PausesOK /\ PausesOK' /\ LockInv /\ LockInv'
      /\ \A q \in Handlers : q \in Goroutines
  BY Basics DEF IInv, TypeOK, ProgramOK
<1>2. ASSUME NEW r \in Requests, AttachResets(p, r)
      PROVE  PauseInv'
  <2>1. /\ Goto(p, "reaping", r) /\ r # "pause" /\ dapMu = Free
        /\ UNCHANGED session /\ app' = [Detached EXCEPT !.dap = app.dap]
        /\ pauses' = PausesMove
    BY <1>2 DEF AttachResets, AttachModes
  <2>2. Upcoming = session.id
    BY <1>1, <2>1, Exclusion, HandlersAssumption DEF Upcoming, Holding
  <2>3. Upcoming' = session.id + 1
    BY <1>1, <2>1 DEF Upcoming, Goto, HandlersOK
  <2>4. Armed' = 0
    BY <1>1, <2>1, ArmedMoves
  <2>5. /\ Cardinality(PausesUnderWay') <= Cardinality(PausesUnderWay)
        /\ Cardinality(PausesUnderWay') \in Nat
    <3>1. PausesUnderWay' \subseteq PausesUnderWay
      BY <1>1, <2>1, UnderWayMoves
    <3>2. QED
      BY <3>1, UnderWayCount
  <2>6. SUFFICES ASSUME NEW g \in Sessions
                 PROVE  Owed(g)' <= pauses'.asked[g]
    BY DEF PauseInv
  <2>7. /\ pauses'.sent[g] = pauses.sent[g] /\ Owed(g) <= pauses.asked[g]
        /\ pauses'.asked[g] =
             CASE g = session.id -> pauses.asked[g] - Cardinality(PausesUnderWay)
               [] g = session.id + 1 ->
                    pauses.asked[g] + Cardinality(PausesUnderWay)
               [] OTHER -> pauses.asked[g]
    BY <1>1, <2>1 DEF PausesMove, PausesOK, PauseInv
  <2>8. CASE g = session.id
    BY <1>1, <2>2, <2>3, <2>4, <2>7, <2>8, PauseNumbers DEF Owed, Outstanding
  <2>9. CASE g = session.id + 1
    BY <1>1, <2>2, <2>3, <2>4, <2>5, <2>7, <2>9, PauseNumbers DEF Owed, Outstanding
  <2>10. CASE g \notin {session.id, session.id + 1}
    BY <2>2, <2>3, <2>7, <2>10 DEF Owed
  <2>11. QED
    BY <2>8, <2>9, <2>10
<1>3. CASE AttachBegins(p)
  <2>1. /\ Goto(p, "attaching", call[p]) /\ pc[p] = "reaping"
        /\ session'.id = session.id + 1 /\ UNCHANGED pauses
    BY <1>3 DEF AttachBegins
  <2>2. Upcoming = session.id + 1
    BY <2>1 DEF Upcoming
  <2>3. \A q \in Handlers : pc'[q] # "reaping"
    <3>1. \A q \in Handlers : pc[q] = "reaping" => q = p
      BY <1>1, <2>1, Exclusion, HandlersAssumption DEF Holding
    <3>2. QED
      BY <1>1, <2>1, <3>1 DEF Goto, HandlersOK
  <2>4. Upcoming' = Upcoming
    BY <2>1, <2>2, <2>3 DEF Upcoming
  <2>5. Armed' = Armed
    BY <1>1, <1>3 DEF AttachBegins, Armed, AppOK, AppType
  <2>6. PausesUnderWay' \subseteq PausesUnderWay
    BY <1>1, <2>1, UnderWayMoves
  <2>7. QED
    BY <1>1, <2>1, <2>4, <2>5, <2>6, PauseFrame, PauseNumbers
<1>4. CASE AttachFails(p) \/ \E ok \in BOOLEAN : AttachSucceeds(p, ok)
  <2>1. /\ UNCHANGED <<session, pauses>> /\ pc[p] = "attaching"
        /\ Goto(p, "idle", "none")
    BY <1>4 DEF AttachFails, AttachSucceeds, Return, codeVars
  <2>2. Armed' = Armed
    BY <1>1, <1>4 DEF AttachFails, AttachSucceeds, codeVars, Armed, AppOK, AppType
  <2>3. Upcoming' = Upcoming
    BY <1>1, <2>1, UpcomingFrame DEF Goto, HandlersOK
  <2>4. PausesUnderWay' \subseteq PausesUnderWay
    BY <1>1, <2>1, UnderWayMoves
  <2>5. QED
    BY <1>1, <2>1, <2>2, <2>3, <2>4, PauseFrame, PauseNumbers
<1>5. QED
  BY <1>2, <1>3, <1>4 DEF AttachStep

\* A stop, a shutdown and the end of Serve ask for no pause.
LEMMA PauseStops ==
    ASSUME IInv, IInv', PauseInv, NEW p \in Goroutines,
           \/ p \in Handlers /\ \E r \in Requests : StopRequested(p, r)
           \/ StopStep(p)
           \/ p = Serve /\ ServeEnds
           \/ p = Serve /\ ServeReturns
    PROVE  PauseInv'
<1>1. HandlersOK /\ AppOK /\ AppOK' /\ PausesOK'
  BY Basics DEF IInv, TypeOK, ProgramOK
<1>2. CASE ServeReturns
  <2>1. UNCHANGED <<session, app, pauses, pc, call>>
    BY <1>2 DEF ServeReturns, codeVars, handlerVars
  <2>2. Upcoming' = Upcoming
    BY <2>1, UpcomingFrame
  <2>3. PausesUnderWay' = PausesUnderWay /\ Armed' = Armed
    BY <2>1 DEF PausesUnderWay, Armed
  <2>4. QED
    BY <1>1, <2>1, <2>2, <2>3, PauseFrame, PauseNumbers
<1>3. CASE \/ p \in Handlers /\ \E r \in Requests : StopRequested(p, r)
           \/ StopStep(p) \/ (p = Serve /\ ServeEnds)
  <2>1. PICK label \in {"stopping", "idle", "closing", "leaving", "disconnecting"} :
           \E what \in {"none", "stop", "shutdown", call[p]} : Goto(p, label, what)
    BY <1>3
    DEF StopRequested, StopStep, StopSevers, StopFinishes, CloseServer, ServeEnds,
        Return
  <2>2. PausesUnderWay' \subseteq PausesUnderWay
    BY <1>1, <2>1, UnderWayMoves
  <2>3. session'.id = session.id /\ UNCHANGED pauses /\ pc[p] # "reaping"
    BY <1>1, <1>3
    DEF StopRequested, Begins, StopStep, StopSevers, StopFinishes, Finalize,
        CloseServer, ServeEnds, StopLocks, codeVars, AppOK, SessionType
  <2>4. Upcoming' = Upcoming
    BY <1>1, <2>1, <2>3, UpcomingFrame DEF Goto, HandlersOK, Goroutines
  <2>5. Armed' <= Armed
    <3>1. \/ app' = app
          \/ app' = [app EXCEPT !.conn = Nil, !.cmd = Nil, !.waitDone = Nil]
          \/ app' = Detached
      BY <1>3
      DEF StopRequested, StopStep, StopSevers, StopFinishes, Finalize, CloseServer,
          ServeEnds, StopLocks, codeVars
    <3>2. QED
      BY <1>1, <3>1, ArmedMoves, PauseNumbers
  <2>6. QED
    BY <1>1, <2>2, <2>3, <2>4, <2>5, PauseFrame
<1>4. QED
  BY <1>2, <1>3

\* Only the response that lists the threads turns the flag into a pause, and
\* takes it down.
LEMMA PauseStreams ==
    ASSUME IInv, IInv', HeldInv, PauseInv, NEW g \in Sessions,
           ReaderStep(g) \/ WaiterStep(g) \/ AdapterStep(g)
    PROVE  PauseInv'
<1>1. HandlersOK /\ AppOK /\ AppOK' /\ PausesOK'
  BY Basics DEF IInv, TypeOK, ProgramOK
<1>2. UNCHANGED <<pc, call>> /\ session'.id = session.id
  <2>1. UNCHANGED <<pc, call>>
    BY <1>1
    DEF ReaderStep, ReaderLoads, ReaderFindsNil, ReaderReceives, ReaderTears,
        ReaderEnds, ReaderApplies, ReaderSendsOnNil, ReaderStale, ReaderFinalizes,
        WaiterStep, WaiterReaps, WaiterCloses, WaiterClosesNil, WaiterClosesTwice,
        WaiterFinalizes, AdapterStep, AdapterAnswers, AdapterInitialized,
        AdapterEmits, AdapterEnds, Emit, Panic, handlerVars
  <2>2. QED
    BY <2>1, StreamFrame
<1>3. Upcoming' = Upcoming /\ PausesUnderWay' = PausesUnderWay
  BY <1>2, UpcomingFrame DEF PausesUnderWay
<1>4. CASE ReaderApplies(g)
  <2> DEFINE m == reader[g].msg
  <2>1. pauses' = PauseSent(app.dap, Replies(m)) /\ app' = AppAfter(m)
    BY <1>4 DEF ReaderApplies
  <2>2. "pause" \in Replies(m) => m = "threads" /\ app.pauseAfterThreads
    BY DEF Replies
  <2>3. Armed' = Armed \/ Armed' = 0
    BY <1>1, <2>1 DEF Armed, AppAfter, AppOK, AppType
  <2>4. "pause" \in Replies(m) => Armed = 1 /\ Armed' = 0
    BY <1>1, <2>1, <2>2 DEF Armed, AppAfter, AppOK, AppType
  <2>5. /\ Outstanding' \in Nat /\ Outstanding' <= Outstanding
        /\ "pause" \in Replies(m) => Outstanding' + 1 <= Outstanding
    BY <1>1, <1>3, <2>3, <2>4, PauseNumbers DEF Outstanding
  <2>6. QED
    BY <1>1, <1>3, <2>1, <2>5, PauseGoes
<1>5. CASE ~ReaderApplies(g)
  <2>1. app' = app \/ app' = Detached
    BY <1>5
    DEF ReaderStep, ReaderLoads, ReaderFindsNil, ReaderReceives, ReaderTears,
        ReaderEnds, ReaderSendsOnNil, ReaderStale, ReaderFinalizes, Finalize,
        WaiterStep, WaiterReaps, WaiterCloses, WaiterClosesNil,
        WaiterClosesTwice, WaiterFinalizes, AdapterStep, AdapterAnswers,
        AdapterInitialized, AdapterEmits, AdapterEnds, Emit, Panic, codeVars
  <2>2. UNCHANGED pauses
    BY <1>5
    DEF ReaderStep, ReaderLoads, ReaderFindsNil, ReaderReceives, ReaderTears,
        ReaderEnds, ReaderSendsOnNil, ReaderStale, ReaderFinalizes,
        WaiterStep, WaiterReaps, WaiterCloses, WaiterClosesNil,
        WaiterClosesTwice, WaiterFinalizes, AdapterStep, AdapterAnswers,
        AdapterInitialized, AdapterEmits, AdapterEnds, Emit, Panic
  <2>3. Armed' <= Armed
    BY <1>1, <2>1, ArmedMoves
  <2>4. QED
    BY <1>1, <1>3, <2>2, <2>3, PauseFrame
<1>6. QED
  BY <1>4, <1>5

\* However often pauseAfterThreads is set, and whichever threads response comes
\* to see it, no session is sent more pauses than were asked for it.
THEOREM OnlyAskedPauses == Spec => []PausesAreAsked
<1>1. Init => PauseInv
  <2> SUFFICES ASSUME Init PROVE PauseInv
    OBVIOUS
  <2>1. PausesUnderWay = {}
    BY DEF Init, PausesUnderWay, Goroutines
  <2>2. Outstanding = 0
    <3>1. Cardinality(PausesUnderWay) = 0
      BY <2>1, FS_EmptySet
    <3>2. Armed = 0
      BY DEF Armed, Init, Detached
    <3>3. QED
      BY <3>1, <3>2 DEF Outstanding
  <2>3. \A g \in Sessions : pauses.sent[g] = 0 /\ pauses.asked[g] = 0
    BY DEF Init
  <2>4. QED
    BY <2>2, <2>3 DEF PauseInv, Owed
<1>2. IInv /\ SafetyInv /\ PauseInv /\ [Next]_vars => PauseInv'
  <2> SUFFICES ASSUME IInv, SafetyInv, PauseInv, [Next]_vars PROVE PauseInv'
    OBVIOUS
  <2>1. IInv' /\ HeldInv
    BY NextInvariant DEF SafetyInv
  <2>2. CASE UNCHANGED vars
    <3>1. UNCHANGED <<session, app, pauses, pc, call>>
      BY <2>2 DEF vars
    <3>2. Upcoming' = Upcoming
      BY <3>1, UpcomingFrame
    <3>3. PausesUnderWay' = PausesUnderWay /\ Armed' = Armed /\ AppOK'
      BY <2>1, <3>1 DEF PausesUnderWay, Armed, IInv, TypeOK, ProgramOK
    <3>4. PausesOK'
      BY <2>1 DEF IInv, TypeOK
    <3>5. QED
      BY <3>1, <3>2, <3>3, <3>4, PauseFrame, PauseNumbers
  <2>3. Serve \in Goroutines /\ \A p \in Handlers : p \in Goroutines
    BY DEF Goroutines
  <2>4. QED
    BY <2>1, <2>2, <2>3, PauseLetThrough, PauseCommands, PauseAttaches, PauseStops,
       PauseStreams
    DEF Next, RequestArrives
<1>3. IInv /\ PauseInv => PausesAreAsked
  <2> SUFFICES ASSUME IInv, PauseInv, NEW g \in Sessions
               PROVE  pauses.sent[g] <= pauses.asked[g]
    BY DEF PausesAreAsked
  <2>1. PausesOK /\ Cardinality(PausesUnderWay) \in Nat
    <3>1. PausesUnderWay \subseteq Handlers
      BY DEF PausesUnderWay
    <3>2. QED
      BY <3>1, Basics, HandlersAssumption, FS_Subset, FS_CardinalityType
  <2>2. Outstanding \in Nat
    BY <2>1 DEF Outstanding, Armed
  <2>3. QED
    BY <2>1, <2>2 DEF PauseInv, Owed, PausesOK
<1>4. QED
  BY <1>1, <1>2, <1>3, Safety, PTL DEF Spec

-----------------------------------------------------------------------------
(* The handshake *)

\* The messages that move the handshake on.
Turns == {"initialize", "initialized"}

A1 == <<"initialize">>
A2 == <<"initialize", "attach">>
A3 == <<"initialize", "attach", "configurationDone">>
Skipped == <<"initialize", "configurationDone">>

\* What a stream holds: no such message, the response to initialize, and that
\* response before any other of them.
Still(s) == \A i \in 1..Len(s) : s[i] \notin Turns
Carries(s) == \E i \in 1..Len(s) : s[i] = "initialize"
InTurn(s) ==
    \A i \in 1..Len(s) :
        s[i] = "initialize" => \A k \in 1..(i - 1) : s[k] \notin Turns

\* The reader of session g is about to apply message m of its own adapter.
Holds(g, m) ==
    reader[g].pc = "got" /\ reader[g].client = g /\ reader[g].msg = m

\* The response to initialize is still to be applied.
Waiting(g) ==
    \/ adapter[g].pending["initialize"] # 0
    \/ Carries(inbox[g])
    \/ Holds(g, "initialize")

\* The reader of an earlier session took that response, or tore it.
Taken(g) ==
    \E r \in Sessions :
        /\ r < g
        /\ reader[r].client = g
        /\ reader[r].pc \in {"got", "broken", "done"}
        /\ reader[r].msg \in {"initialize", "garbage"}

\* Until the response to initialize is applied, no other message of the
\* handshake is, and the adapter was asked for nothing else.
Order(g) ==
    link[g] = "open" =>
        /\ adapter[g].pending["initialize"] # 0 =>
             /\ adapter[g].pending["initialize"] = 1
             /\ Still(inbox[g])
        /\ InTurn(inbox[g])
        /\ adapter[g].pending["initialize"] # 0 \/ Carries(inbox[g]) =>
             \A m \in Turns : ~Holds(g, m)
        /\ Waiting(g) => adapter[g].asked = A1

\* What the fields of App say the adapter was asked.
Stage(g) ==
    link[g] = "open" /\ app.dap = g =>
        /\ app.pendingAttach /\ app.startupPhase = "" =>
             adapter[g].asked \in {A1, Skipped}
        /\ app.pendingAttach /\ app.startupPhase # "" => adapter[g].asked = A1
        /\ ~app.pendingAttach /\ app.startupPhase # "" => adapter[g].asked = A2
        /\ ~app.pendingAttach /\ app.startupPhase = "" => adapter[g].asked = A3
        /\ app.pendingAttach =>
             Taken(g) \/ reader[g].pc \in {"broken", "done"} \/ Waiting(g)

\* What was asked at all, and that a stream which is gone forgets it.
Said(g) ==
    /\ \/ adapter[g].asked \in {<<>>, A1, A2, A3}
       \/ adapter[g].asked = Skipped /\ Taken(g)
    /\ link[g] # "open" => adapter[g].asked = <<>>
    /\ link[g] = "none" => inbox[g] = <<>>

Shake(g) == Order(g) /\ Stage(g) /\ Said(g)

\* The fields StartAttach set are there when the adapter is reached.
ReadyInv ==
    \A p \in Goroutines :
        /\ pc[p] = "reaping" => app.startupPhase = ""
        /\ pc[p] = "attaching" => app.pendingAttach /\ app.startupPhase = ""

ShakeInv == ReadyInv /\ \A g \in Sessions : Shake(g)

\* The commands asked grow by one, and in order; all but Skipped are how the
\* whole handshake begins.
LEMMA AskedNext ==
    /\ Append(A1, "attach") = A2
    /\ Append(A2, "configurationDone") = A3
    /\ Append(A1, "configurationDone") = Skipped
    /\ \A asked \in {<<>>, A1, A2, A3} : asked = SubSeq(A3, 1, Len(asked))
<1> DEFINE HC == HandshakeCommands
<1>1. /\ A1 \in Seq(HC) /\ A2 \in Seq(HC) /\ A3 \in Seq(HC) /\ Skipped \in Seq(HC)
      /\ "attach" \in HC /\ "configurationDone" \in HC
  BY DEF A1, A2, A3, Skipped, HandshakeCommands
<1>2. /\ Len(A1) = 1 /\ Len(A2) = 2 /\ Len(A3) = 3 /\ Len(Skipped) = 2
      /\ A1[1] = "initialize"
      /\ A2[1] = "initialize" /\ A2[2] = "attach"
      /\ A3[1] = "initialize" /\ A3[2] = "attach" /\ A3[3] = "configurationDone"
      /\ Skipped[1] = "initialize" /\ Skipped[2] = "configurationDone"
  BY DEF A1, A2, A3, Skipped
<1> HIDE DEF HC
<1>3. ASSUME NEW s \in Seq(HC), NEW h \in HC, NEW t \in Seq(HC),
             Len(t) = Len(s) + 1, t[Len(t)] = h,
             \A i \in 1..Len(s) : t[i] = s[i]
      PROVE  Append(s, h) = t
  <2>1. /\ Append(s, h) \in Seq(HC) /\ Len(Append(s, h)) = Len(t)
        /\ \A i \in 1..Len(t) : Append(s, h)[i] = t[i]
    BY <1>3
  <2>2. QED
    BY <2>1, SeqEqual
<1>4. /\ Append(A1, "attach") = A2
      /\ Append(A2, "configurationDone") = A3
      /\ Append(A1, "configurationDone") = Skipped
  <2>1. /\ Len(A2) = Len(A1) + 1 /\ A2[Len(A2)] = "attach"
        /\ \A i \in 1..Len(A1) : A2[i] = A1[i]
    BY <1>2
  <2>2. /\ Len(A3) = Len(A2) + 1 /\ A3[Len(A3)] = "configurationDone"
        /\ \A i \in 1..Len(A2) : A3[i] = A2[i]
    BY <1>2
  <2>3. /\ Len(Skipped) = Len(A1) + 1 /\ Skipped[Len(Skipped)] = "configurationDone"
        /\ \A i \in 1..Len(A1) : Skipped[i] = A1[i]
    BY <1>2
  <2>4. Append(A1, "attach") = A2
    BY <1>1, <1>3, <2>1
  <2>5. Append(A2, "configurationDone") = A3
    BY <1>1, <1>3, <2>2
  <2>6. Append(A1, "configurationDone") = Skipped
    BY <1>1, <1>3, <2>3
  <2>7. QED
    BY <2>4, <2>5, <2>6
<1>5. ASSUME NEW s \in Seq(HC), Len(s) <= 3, \A i \in 1..Len(s) : s[i] = A3[i]
      PROVE  s = SubSeq(A3, 1, Len(s))
  <2>1. /\ SubSeq(A3, 1, Len(s)) \in Seq(HC) /\ Len(SubSeq(A3, 1, Len(s))) = Len(s)
        /\ \A i \in 1..Len(s) : SubSeq(A3, 1, Len(s))[i] = s[i]
    BY <1>1, <1>2, <1>5
  <2>2. QED
    BY <1>5, <2>1, SeqEqual
<1>6. \A asked \in {<<>>, A1, A2, A3} : asked = SubSeq(A3, 1, Len(asked))
  <2>1. <<>> \in Seq(HC) /\ Len(<<>>) = 0
    OBVIOUS
  <2>2. <<>> = SubSeq(A3, 1, Len(<<>>))
    BY <1>5, <2>1
  <2>3. A1 = SubSeq(A3, 1, Len(A1))
    BY <1>1, <1>2, <1>5
  <2>4. A2 = SubSeq(A3, 1, Len(A2))
    BY <1>1, <1>2, <1>5
  <2>5. A3 = SubSeq(A3, 1, Len(A3))
    BY <1>1, <1>2, <1>5
  <2>6. QED
    BY <2>2, <2>3, <2>4, <2>5
<1>7. QED
  BY <1>4, <1>6

\* What a stream still holds once its first message was read, ...
LEMMA ReadTurns ==
    ASSUME NEW s \in Seq(Messages), s # <<>>
    PROVE  /\ Still(s) => Still(Tail(s)) /\ Head(s) \notin Turns
           /\ InTurn(s) => InTurn(Tail(s))
           /\ InTurn(s) /\ Head(s) \in Turns => ~Carries(Tail(s))
           /\ Carries(s) <=> Carries(Tail(s)) \/ Head(s) = "initialize"
<1>1. /\ Len(s) \in Nat /\ Len(s) > 0 /\ Len(Tail(s)) = Len(s) - 1
      /\ Head(s) = s[1]
      /\ \A i \in 1..Len(Tail(s)) : Tail(s)[i] = s[i + 1]
  OBVIOUS
<1>2. /\ Still(s) => Still(Tail(s)) /\ Head(s) \notin Turns
      /\ InTurn(s) => InTurn(Tail(s))
  BY <1>1 DEF Still, InTurn
<1>3. InTurn(s) /\ Head(s) \in Turns => ~Carries(Tail(s))
  BY <1>1 DEF InTurn, Carries
<1>4. Carries(s) <=> Carries(Tail(s)) \/ Head(s) = "initialize"
  <2>1. ASSUME NEW i \in 1..Len(s), s[i] = "initialize", i # 1
        PROVE  Carries(Tail(s))
    <3>1. i - 1 \in 1..Len(Tail(s)) /\ Tail(s)[i - 1] = "initialize"
      BY <1>1, <2>1
    <3>2. QED
      BY <3>1 DEF Carries
  <2>2. QED
    BY <1>1, <2>1 DEF Carries
<1>5. QED
  BY <1>2, <1>3, <1>4

\* ... once that message was torn, ...
LEMMA TornTurns ==
    ASSUME NEW s \in Seq(Messages), s # <<>>
    PROVE  LET t == <<"garbage">> \o Tail(s)
           IN  /\ Still(s) => Still(t)
               /\ InTurn(s) => InTurn(t)
               /\ Carries(t) => Carries(s)
               /\ Carries(s) <=> Carries(t) \/ Head(s) = "initialize"
<1> DEFINE t == <<"garbage">> \o Tail(s)
<1>1. /\ Len(s) \in Nat /\ Len(s) > 0 /\ Len(t) = Len(s)
      /\ Head(s) = s[1] /\ t[1] = "garbage"
      /\ \A i \in 2..Len(s) : t[i] = s[i]
  OBVIOUS
<1> HIDE DEF t
<1>2. (Still(s) => Still(t)) /\ (InTurn(s) => InTurn(t))
  BY <1>1 DEF Still, InTurn, Turns
<1>3. Carries(s) <=> Carries(t) \/ Head(s) = "initialize"
  BY <1>1 DEF Carries
<1>4. QED
  BY <1>2, <1>3 DEF t

\* ... and once one more message arrived.
LEMMA SentTurns ==
    ASSUME NEW s \in Seq(Messages), NEW m \in Messages
    PROVE  /\ Still(s) /\ m \notin Turns => Still(Append(s, m))
           /\ InTurn(s) /\ (m = "initialize" => Still(s)) => InTurn(Append(s, m))
           /\ Carries(Append(s, m)) <=> Carries(s) \/ m = "initialize"
<1>1. /\ Len(s) \in Nat /\ Len(Append(s, m)) = Len(s) + 1
      /\ Append(s, m)[Len(s) + 1] = m
      /\ \A i \in 1..Len(s) : Append(s, m)[i] = s[i]
  OBVIOUS
<1>2. QED
  BY <1>1 DEF Still, InTurn, Carries

\* What an earlier reader took stays taken: no SessionID check lets it apply it.
LEMMA TakenForward ==
    ASSUME IInv, [Next]_vars, NEW g \in Sessions, Taken(g)
    PROVE  Taken(g)'
<1>1. /\ HandlersOK /\ ReadersOK /\ FutureInv /\ ReaderInv
      /\ session.id \in Nat /\ \A r \in Sessions : r \in Nat
      /\ \A p \in Handlers : p \in Goroutines
  BY Basics
<1>2. PICK r \in Sessions : /\ r < g
                            /\ reader[r].client = g
                            /\ reader[r].pc \in {"got", "broken", "done"}
                            /\ reader[r].msg \in {"initialize", "garbage"}
  BY DEF Taken
<1>3. SUFFICES /\ reader'[r].client = g /\ reader'[r].msg = reader[r].msg
               /\ reader'[r].pc \in {"got", "broken", "done"}
  BY <1>2 DEF Taken
<1>4. ASSUME NEW p \in Handlers, NEW ok \in BOOLEAN, AttachSucceeds(p, ok)
      PROVE  reader'[r] = reader[r]
  <2>1. reader[session.id].pc = "none" /\ session.id \in Sessions
    BY <1>1, <1>4 DEF AttachSucceeds, FutureInv
  <2>2. QED
    BY <1>1, <1>2, <1>4, <2>1 DEF AttachSucceeds, ReadersOK
<1>5. ASSUME NEW q \in Sessions, ReaderMoves(q), q = r
      PROVE  /\ reader'[r].client = g /\ reader'[r].msg = reader[r].msg
             /\ reader'[r].pc \in {"got", "broken", "done"}
  <2>1. ~ReaderApplies(r)
    BY <1>1, <1>2 DEF ReaderApplies, IsCurrent, ReaderInv
  <2>2. ReaderStale(r) \/ ReaderFinalizes(r)
    BY <1>2, <1>5, <2>1
    DEF ReaderMoves, ReaderLoads, ReaderReceives, ReaderTears, ReaderEnds
  <2>3. QED
    BY <1>1, <1>2, <2>2 DEF ReaderStale, ReaderFinalizes, ReadersOK, ReaderType
<1>6. ASSUME NEW q \in Sessions, ReaderMoves(q), q # r
      PROVE  reader'[r] = reader[r]
  BY <1>1, <1>6
  DEF ReaderMoves, ReaderLoads, ReaderReceives, ReaderTears, ReaderEnds,
      ReaderApplies, ReaderStale, ReaderFinalizes, ReadersOK
<1>7. \/ UNCHANGED reader
      \/ \E p \in Handlers, ok \in BOOLEAN : AttachSucceeds(p, ok)
      \/ \E q \in Sessions : ReaderMoves(q)
  BY <1>1, Moves
  DEF Rest, QuietStep, HandlerMoves, LinkMoves, SelectThread, AttachResets,
      AttachBegins, StopSevers, StopFinishes, WaiterReaps, WaiterCloses,
      WaiterFinalizes, AdapterEnds
<1>8. QED
  BY <1>2, <1>4, <1>5, <1>6, <1>7

\* A step that leaves the stream to adapter g and what was asked of it alone,
\* applies no message of it, and either does not touch the fields of its
\* handshake or lets go of it.
LEMMA ShakeFrame ==
    ASSUME NEW g \in Sessions, Shake(g), Taken(g) => Taken(g)',
           link'[g] = link[g], inbox'[g] = inbox[g],
           adapter'[g].asked = adapter[g].asked,
           adapter'[g].pending["initialize"] = adapter[g].pending["initialize"],
           \A m : Holds(g, m)' => Holds(g, m),
           \/ app'.dap # g
           \/ /\ app'.dap = app.dap
              /\ app'.pendingAttach = app.pendingAttach
              /\ app'.startupPhase = app.startupPhase
              /\ Holds(g, "initialize") => Holds(g, "initialize")'
              /\ reader[g].pc \in {"broken", "done"} =>
                   reader'[g].pc \in {"broken", "done"}
    PROVE  Shake(g)'
<1>1. Order(g)'
  BY DEF Shake, Order, Waiting
<1>2. Stage(g)'
  BY DEF Shake, Stage, Waiting
<1>3. Said(g)'
  BY DEF Shake, Said
<1>4. QED
  BY <1>1, <1>2, <1>3 DEF Shake

\* An adapter whose stream ended has forgotten what it was asked.
LEMMA ShakeClosed ==
    ASSUME NEW g \in Sessions, link'[g] \notin {"none", "open"},
           adapter'[g].asked = <<>>
    PROVE  Shake(g)'
  BY DEF Shake, Order, Stage, Said

\* Closing the connection and killing the process end the handshake.
LEMMA ShakeSevered ==
    ASSUME IInv, HeldInv, Sever, UNCHANGED reader, app'.dap = app.dap,
           NEW g \in Sessions, Shake(g)
    PROVE  Shake(g)'
<1>1. CASE g \in {app.conn, app.cmd}
  <2>1. g = session.id /\ link[g] # "none" /\ app.dap = g
    BY <1>1, HeldIsCurrent, Basics DEF ClientInv
  <2>2. link'[g] \notin {"none", "open"} /\ adapter'[g] = Blank
    BY <1>1, <2>1 DEF Sever
  <2>3. QED
    BY <2>2, ShakeClosed DEF Blank
<1>2. CASE g \notin {app.conn, app.cmd}
  <2>1. /\ link'[g] = link[g] /\ inbox'[g] = inbox[g] /\ adapter'[g] = adapter[g]
    BY <1>2 DEF Sever
  <2>2. link[g] = "open" => app.dap # g
    BY <1>2 DEF HeldInv
  <2>3. Order(g)' /\ Said(g)' /\ Stage(g)'
    BY <2>1, <2>2 DEF Shake, Order, Stage, Said, Waiting, Holds, Taken
  <2>4. QED
    BY <2>3 DEF Shake
<1>3. QED
  BY <1>1, <1>2

\* A step that sends no command of the handshake and touches nothing else.
LEMMA ShakeAside ==
    ASSUME IInv, [Next]_vars, NEW g \in Sessions, Shake(g),
           UNCHANGED <<link, inbox, reader>>,
           app'.dap = app.dap, app'.pendingAttach = app.pendingAttach,
           app'.startupPhase = app.startupPhase,
           \/ UNCHANGED adapter
           \/ \E k, cmds : /\ cmds \cap HandshakeCommands = {}
                           /\ adapter' = Written(k, cmds)
    PROVE  Shake(g)'
<1>1. WireOK /\ "initialize" \in Commands /\ "initialize" \in HandshakeCommands
  BY Basics DEF Commands, HandshakeCommands
<1>2. /\ adapter'[g].asked = adapter[g].asked
      /\ adapter'[g].pending["initialize"] = adapter[g].pending["initialize"]
  <2>1. ASSUME NEW k, NEW cmds, cmds \cap HandshakeCommands = {},
               adapter' = Written(k, cmds)
        PROVE  /\ adapter'[g].asked = adapter[g].asked
               /\ adapter'[g].pending["initialize"] =
                    adapter[g].pending["initialize"]
    <3>1. "initialize" \notin cmds
      BY <1>1, <2>1
    <3>2. QED
      BY <1>1, <2>1, <3>1, WrittenAsked, WrittenPending
  <2>2. QED
    BY <2>1
<1>3. \A m : Holds(g, m)' <=> Holds(g, m)
  BY DEF Holds
<1>4. Taken(g) => Taken(g)'
  BY TakenForward
<1>5. QED
  BY <1>2, <1>3, <1>4, ShakeFrame

\* Requests, and the commands they send.
LEMMA ShakeCommands ==
    ASSUME IInv, HeldInv, [Next]_vars, NEW g \in Sessions, Shake(g),
           NEW p \in Handlers, RequestArrives(p) \/ CommandStep(p)
    PROVE  Shake(g)'
<1>1. p \in Goroutines /\ AppOK /\ HandlersOK
  BY Basics
<1>2. ASSUME NEW r \in Requests, AttachResets(p, r)
      PROVE  Shake(g)'
  <2>1. Sever /\ UNCHANGED reader /\ app'.dap = app.dap
    BY <1>1, <1>2 DEF AttachResets, Detached
  <2>2. QED
    BY <2>1, ShakeSevered
<1>3. CASE \/ \E r \in Requests : EnsureActiveAdapter(p, r) \/ StopRequested(p, r)
           \/ CommandStep(p)
  <2>1. /\ UNCHANGED <<link, inbox, reader>>
        /\ app'.dap = app.dap /\ app'.pendingAttach = app.pendingAttach
        /\ app'.startupPhase = app.startupPhase
    BY <1>1, <1>3
    DEF EnsureActiveAdapter, StopRequested, StopLocks, CommandStep, SelectThread,
        SendCommand, SendOnNil, Panic, codeVars, wireVars, AppOK, AppType
  <2>2. \/ UNCHANGED adapter
        \/ \E cmds \in {{"disconnect"}, {call[p]}} : adapter' = Written(app.dap, cmds)
    BY <1>3
    DEF EnsureActiveAdapter, StopRequested, StopLocks, CommandStep, SelectThread,
        SendCommand, SendOnNil, Panic, wireVars
  <2>3. call[p] \notin HandshakeCommands /\ "disconnect" \notin HandshakeCommands
    BY <1>1
    DEF HandlersOK, RequestKinds, AttachModes, DebugCommands, HandshakeCommands
  <2>4. \A cmds \in {{"disconnect"}, {call[p]}} : cmds \cap HandshakeCommands = {}
    BY <2>3
  <2>5. QED
    BY <2>1, <2>2, <2>4, ShakeAside
<1>4. QED
  BY <1>2, <1>3 DEF RequestArrives

\* An attach lets go of the old adapter, and greets the new one.
LEMMA ShakeAttaches ==
    ASSUME IInv, ReadyInv, [Next]_vars, NEW g \in Sessions, Shake(g),
           NEW p \in Handlers, AttachStep(p)
    PROVE  Shake(g)'
<1>1. /\ p \in Goroutines /\ AppOK /\ HandlersOK /\ ReadersOK /\ WireOK /\ FutureInv
      /\ Nil \notin Sessions /\ (Taken(g) => Taken(g)')
  BY Basics, TakenForward
<1>2. CASE AttachBegins(p)
  <2>1. app'.dap = Nil /\ UNCHANGED <<link, inbox, adapter, reader>>
    BY <1>1, <1>2 DEF AttachBegins, AppOK, AppType, wireVars
  <2>2. \A m : Holds(g, m)' <=> Holds(g, m)
    BY <2>1 DEF Holds
  <2>3. app'.dap # g
    BY <1>1, <2>1
  <2>4. QED
    BY <1>1, <2>1, <2>2, <2>3, ShakeFrame
<1>3. CASE AttachFails(p)
  BY <1>3, ShakeAside DEF AttachFails, codeVars, wireVars
<1>4. ASSUME NEW ok \in BOOLEAN, AttachSucceeds(p, ok)
      PROVE  Shake(g)'
  <2>1. /\ session.id \in Sessions /\ link[session.id] = "none"
        /\ pc[p] = "attaching" /\ app.pendingAttach /\ app.startupPhase = ""
    BY <1>1, <1>4 DEF AttachSucceeds, FutureInv, ReadyInv
  <2>2. app'.dap = session.id /\ app'.pendingAttach
    BY <1>1, <1>4, <2>1 DEF AttachSucceeds, AppOK, AppType
  <2>3. CASE g # session.id
    <3>1. /\ link'[g] = link[g] /\ inbox'[g] = inbox[g] /\ adapter'[g] = adapter[g]
          /\ reader'[g] = reader[g] /\ app'.dap # g
      BY <1>1, <1>4, <2>2, <2>3 DEF AttachSucceeds, WireOK, ReadersOK
    <3>2. \A m : Holds(g, m)' <=> Holds(g, m)
      BY <3>1 DEF Holds
    <3>3. QED
      BY <1>1, <3>1, <3>2, ShakeFrame
  <2>4. CASE g = session.id
    <3>1. adapter[g].asked = <<>> /\ inbox[g] = <<>>
      BY <2>1, <2>4 DEF Shake, Said
    <3>2. CASE ~ok
      <4>1. link'[g] = "finished" /\ adapter'[g] = adapter[g]
        BY <1>1, <1>4, <2>4, <3>2 DEF AttachSucceeds, WireOK
      <4>2. QED
        BY <3>1, <4>1, ShakeClosed
    <3>3. CASE ok
      <4>1. /\ link'[g] = "open" /\ adapter'[g] = Greeted /\ inbox'[g] = <<>>
            /\ reader'[g].pc = "top"
        BY <1>1, <1>4, <2>4, <3>1, <3>3 DEF AttachSucceeds, WireOK, ReadersOK, ReaderType
      <4>2. Greeted.asked = A1 /\ Greeted.pending["initialize"] = 1
        BY DEF Greeted, A1, Commands, HandshakeCommands
      <4>3. \A m : ~Holds(g, m)'
        BY <4>1 DEF Holds
      <4>4. Still(inbox'[g]) /\ InTurn(inbox'[g])
        <5>1. Still(<<>>) /\ InTurn(<<>>)
          BY DEF Still, InTurn
        <5>2. QED
          BY <4>1, <5>1
      <4>5. Order(g)'
        BY <4>1, <4>2, <4>3, <4>4 DEF Order
      <4>6. Stage(g)' /\ Said(g)'
        BY <2>2, <4>1, <4>2 DEF Stage, Said, Waiting
      <4>7. QED
        BY <4>5, <4>6 DEF Shake
    <3>4. QED
      BY <3>2, <3>3
  <2>5. QED
    BY <2>3, <2>4
<1>5. QED
  BY <1>2, <1>3, <1>4 DEF AttachStep

\* A stop lets go of the adapter it severed; of the handshake it says nothing.
LEMMA ShakeStops ==
    ASSUME IInv, HeldInv, [Next]_vars, NEW g \in Sessions, Shake(g),
           NEW p \in Goroutines, StopStep(p) \/ ServeEnds \/ ServeReturns
    PROVE  Shake(g)'
<1>1. AppOK /\ Nil \notin Sessions /\ (Taken(g) => Taken(g)')
  BY Basics, TakenForward
<1>2. CASE StopSevers(p)
  <2>1. Sever /\ UNCHANGED reader /\ app'.dap = app.dap
    BY <1>1, <1>2 DEF StopSevers, AppOK, AppType
  <2>2. QED
    BY <2>1, ShakeSevered
<1>3. CASE StopFinishes(p)
  <2>1. app' = Detached /\ UNCHANGED <<link, inbox, adapter, reader>>
    BY <1>3 DEF StopFinishes, Finalize, wireVars
  <2>2. \A m : Holds(g, m)' <=> Holds(g, m)
    BY <2>1 DEF Holds
  <2>3. app'.dap # g
    BY <1>1, <2>1 DEF Detached
  <2>4. QED
    BY <1>1, <2>1, <2>2, <2>3, ShakeFrame
<1>4. CASE CloseServer(p) \/ ServeEnds \/ ServeReturns
  <2>1. /\ UNCHANGED <<app, link, inbox, reader>>
        /\ UNCHANGED adapter \/ adapter' = Written(app.dap, {"disconnect"})
    BY <1>4 DEF CloseServer, ServeEnds, ServeReturns, StopLocks, codeVars, wireVars
  <2>2. {"disconnect"} \cap HandshakeCommands = {}
    BY DEF HandshakeCommands
  <2>3. QED
    BY <2>1, <2>2, ShakeAside
<1>5. QED
  BY <1>2, <1>3, <1>4 DEF StopStep

\* What a reader takes from a stream is the next message, its own reader's or an
\* earlier one's; a torn one is lost to both.
LEMMA ShakeReads ==
    ASSUME IInv, [Next]_vars, NEW g \in Sessions, Shake(g),
           NEW r \in Sessions, ReaderReceives(r) \/ ReaderTears(r)
    PROVE  Shake(g)'
<1> DEFINE c == reader[r].client
<1>1. /\ ReadersOK /\ WireOK /\ ReaderInv /\ (Taken(g) => Taken(g)')
      /\ \A h \in Sessions : h \in Nat
  BY Basics, TakenForward
<1>2. /\ reader[r].pc = "reading" /\ inbox[c] # <<>>
      /\ UNCHANGED <<app, link, adapter>>
      /\ \A h \in Sessions : /\ h # r => reader'[h] = reader[h]
                             /\ h # c => inbox'[h] = inbox[h]
  BY <1>1 DEF ReaderReceives, ReaderTears, ReadersOK, WireOK, codeVars
<1>3. reader'[r].client = c /\ reader'[r].pc \in {"got", "broken"}
  BY <1>1 DEF ReaderReceives, ReaderTears, ReadersOK, ReaderType
<1>4. CASE g # c
  <2>1. \A m : Holds(g, m)' <=> Holds(g, m)
    <3>1. CASE g = r
      BY <1>2, <1>3, <1>4, <3>1 DEF Holds
    <3>2. CASE g # r
      BY <1>2, <3>2 DEF Holds
    <3>3. QED
      BY <3>1, <3>2
  <2>2. reader[g].pc \in {"broken", "done"} => reader'[g] = reader[g]
    BY <1>2
  <2>3. QED
    BY <1>1, <1>2, <1>4, <2>1, <2>2, ShakeFrame
<1>5. CASE g = c
  <2>1. inbox[g] \in Seq(Messages) /\ inbox[g] # <<>>
    BY <1>1, <1>2, <1>5 DEF WireOK
  <2>2. r <= g
    BY <1>1, <1>2, <1>5 DEF ReaderInv
  <2>3. /\ Still(inbox[g]) => Still(inbox'[g])
        /\ InTurn(inbox[g]) => InTurn(inbox'[g])
        /\ Carries(inbox[g]) <=> Carries(inbox'[g]) \/ Head(inbox[g]) = "initialize"
    <3>1. CASE ReaderReceives(r)
      <4>1. inbox'[g] = Tail(inbox[g])
        BY <1>1, <1>5, <3>1 DEF ReaderReceives, WireOK
      <4>2. QED
        BY <2>1, <4>1, ReadTurns
    <3>2. CASE ReaderTears(r)
      <4>1. inbox'[g] = <<"garbage">> \o Tail(inbox[g])
        BY <1>1, <1>5, <3>2 DEF ReaderTears, WireOK
      <4>2. QED
        BY <2>1, <4>1, TornTurns
    <3>3. QED
      BY <3>1, <3>2
  <2>4. \/ reader'[r].pc = "broken" /\ reader'[r].msg = "garbage"
        \/ /\ reader'[r].pc = "got" /\ reader'[r].msg = Head(inbox[g])
           /\ inbox'[g] = Tail(inbox[g])
    BY <1>1, <1>5 DEF ReaderReceives, ReaderTears, ReadersOK, ReaderType, WireOK
  <2>5. ASSUME Head(inbox[g]) = "initialize"
        PROVE  \/ Taken(g)' \/ reader'[g].pc = "broken" \/ Holds(g, "initialize")'
    <3>1. CASE r = g
      BY <1>3, <1>5, <2>4, <2>5, <3>1 DEF Holds
    <3>2. CASE r # g
      <4>1. r < g
        BY <1>1, <2>2, <3>2
      <4>2. QED
        BY <1>3, <1>5, <2>4, <2>5, <4>1 DEF Taken
    <3>3. QED
      BY <3>1, <3>2
  <2>6. ~Holds(g, "initialize") \/ Holds(g, "initialize")'
    BY <1>2 DEF Holds
  <2>7. ASSUME NEW m, Holds(g, m)'
        PROVE  \/ Holds(g, m)
               \/ m = Head(inbox[g]) /\ inbox'[g] = Tail(inbox[g])
    BY <1>2, <2>4, <2>7 DEF Holds
  <2>8. Order(g)'
    <3> SUFFICES ASSUME link[g] = "open"
                 PROVE  Order(g)'
      BY <1>2 DEF Order
    <3>1. /\ adapter[g].pending["initialize"] # 0 =>
               /\ adapter[g].pending["initialize"] = 1
               /\ Still(inbox[g])
          /\ InTurn(inbox[g])
          /\ adapter[g].pending["initialize"] # 0 \/ Carries(inbox[g]) =>
               \A m \in Turns : ~Holds(g, m)
          /\ Waiting(g) => adapter[g].asked = A1
      BY DEF Shake, Order
    <3>2. ASSUME adapter[g].pending["initialize"] # 0 \/ Carries(inbox'[g]),
                 NEW m \in Turns, Holds(g, m)'
          PROVE  FALSE
      <4>1. m = Head(inbox[g]) /\ inbox'[g] = Tail(inbox[g])
        BY <2>3, <2>7, <3>1, <3>2
      <4>2. QED
        BY <2>1, <3>1, <3>2, <4>1, ReadTurns
    <3>3. Waiting(g)' => Waiting(g)
      BY <1>2, <2>3, <2>7 DEF Waiting
    <3>4. QED
      BY <1>2, <2>3, <3>1, <3>2, <3>3 DEF Order
  <2>9. Stage(g)'
    <3>1. Waiting(g) =>
             Taken(g)' \/ reader'[g].pc \in {"broken", "done"} \/ Waiting(g)'
      BY <1>2, <2>3, <2>5, <2>6 DEF Waiting
    <3>2. reader[g].pc \in {"broken", "done"} => reader'[g] = reader[g]
      BY <1>2
    <3>3. QED
      BY <1>1, <1>2, <3>1, <3>2 DEF Shake, Stage
  <2>10. Said(g)'
    BY <1>1, <1>2, <2>1 DEF Shake, Said
  <2>11. QED
    BY <2>8, <2>9, <2>10 DEF Shake
<1>6. QED
  BY <1>4, <1>5

\* The response to initialize has the daemon attach, the event that follows has
\* it configure; without that response in between, somebody else took it.
LEMMA ShakeApplies ==
    ASSUME IInv, [Next]_vars, NEW g \in Sessions, Shake(g),
           NEW r \in Sessions, ReaderApplies(r)
    PROVE  Shake(g)'
<1> DEFINE m == reader[r].msg
<1>1. /\ AppOK /\ ReadersOK /\ WireOK /\ ReaderInv /\ ClientInv
      /\ (Taken(g) => Taken(g)')
      /\ Nil \notin Sessions /\ \A h \in Sessions : h \in Nat
  BY Basics, TakenForward
<1>2. /\ r = session.id /\ reader[r].pc = "got"
      /\ UNCHANGED <<link, inbox>>
      /\ adapter' = Written(app.dap, Replies(m))
      /\ app' = AppAfter(m) /\ app'.dap = app.dap
      /\ reader'[r].pc = "top"
      /\ \A h \in Sessions : h # r => reader'[h] = reader[h]
  BY <1>1, AfterType DEF ReaderApplies, IsCurrent, ReadersOK, ReaderType, NoReader
<1>3. reader[r].client = r /\ app.dap \in {Nil, r}
  <2>1. r <= reader[r].client /\ reader[r].client <= session.id
    BY <1>1, <1>2 DEF ReaderInv
  <2>2. reader[r].client \in Nat
    BY <1>1 DEF ReadersOK, ReaderType, Nil
  <2>3. QED
    BY <1>1, <1>2, <2>1, <2>2 DEF ClientInv
<1>4. \A k : Holds(g, k)' => Holds(g, k)
  BY <1>2 DEF Holds
<1>5. CASE g # r \/ app.dap # g \/ link[g] # "open"
  <2>1. adapter'[g] = adapter[g]
    <3>1. g # app.dap \/ link[g] # "open"
      BY <1>1, <1>3, <1>5
    <3>2. "initialize" \in Commands
      BY DEF Commands, HandshakeCommands
    <3>3. QED
      BY <1>1, <1>2, <3>1, <3>2, WrittenPending
  <2>2. CASE app.dap # g
    BY <1>1, <1>2, <1>4, <2>1, <2>2, ShakeFrame
  <2>3. CASE app.dap = g
    <3>1. link[g] # "open"
      BY <1>1, <1>3, <1>5, <2>3
    <3>2. QED
      BY <1>1, <1>2, <2>1, <3>1 DEF Shake, Order, Stage, Said
  <2>4. QED
    BY <2>2, <2>3
<1>6. CASE g = r /\ app.dap = g /\ link[g] = "open"
  <2>1. Order(g) /\ Stage(g) /\ Said(g) /\ Holds(g, m)
    BY <1>2, <1>3, <1>6 DEF Shake, Holds
  <2>2. /\ adapter'[g].pending["initialize"] = adapter[g].pending["initialize"]
    <3>1. "initialize" \in Commands /\ "initialize" \notin Replies(m)
      BY DEF Commands, HandshakeCommands, Replies
    <3>2. QED
      BY <1>1, <1>2, <3>1, WrittenPending
  <2>3. \A k : ~Holds(g, k)'
    BY <1>2, <1>6 DEF Holds
  <2>4. adapter[g].asked \in Seq(HandshakeCommands)
    BY <1>1 DEF WireOK, AdapterType
  <2>5. CASE m = "initialize" /\ app.pendingAttach
    <3>1. /\ adapter[g].pending["initialize"] = 0 /\ ~Carries(inbox[g])
          /\ InTurn(inbox[g]) /\ adapter[g].asked = A1
      BY <1>6, <2>1, <2>5 DEF Order, Waiting, Turns
    <3>2. Replies(m) = {"attach"}
      BY <2>5 DEF Replies
    <3>3. adapter'[g].asked = A2
      <4>1. Replies(m) \cap HandshakeCommands = {"attach"}
        BY <3>2 DEF HandshakeCommands
      <4>2. Written(g, Replies(m))[g].asked = Append(adapter[g].asked, "attach")
        BY <1>1, <1>6, <4>1, WrittenTurn
      <4>3. adapter'[g].asked = Append(adapter[g].asked, "attach")
        BY <1>2, <1>6, <4>2
      <4>4. QED
        BY <3>1, <4>3, AskedNext
    <3>4. ~app'.pendingAttach /\ app'.startupPhase # ""
      BY <1>1, <1>2, <2>5 DEF AppAfter, AppOK, AppType
    <3>5. QED
      BY <1>2, <1>6, <2>2, <2>3, <3>1, <3>3, <3>4
      DEF Shake, Order, Stage, Said, Waiting
  <2>6. CASE m = "initialized" /\ app.startupPhase # ""
    <3>1. adapter[g].pending["initialize"] = 0 /\ ~Carries(inbox[g])
          /\ InTurn(inbox[g])
      BY <1>6, <2>1, <2>6 DEF Order, Turns
    <3>2. ~Waiting(g)
      BY <1>6, <2>6, <3>1 DEF Waiting, Holds
    <3>3. app.pendingAttach => Taken(g)
      BY <1>2, <1>6, <2>1, <3>2 DEF Stage
    <3>4. adapter[g].asked = (IF app.pendingAttach THEN A1 ELSE A2)
      BY <1>6, <2>1, <2>6 DEF Stage
    <3>5. Replies(m) = {"configurationDone", "threads"}
      BY <2>6 DEF Replies
    <3>6. adapter'[g].asked = (IF app.pendingAttach THEN Skipped ELSE A3)
      <4>1. Replies(m) \cap HandshakeCommands = {"configurationDone"}
        BY <3>5 DEF HandshakeCommands
      <4>2. Written(g, Replies(m))[g].asked = Append(adapter[g].asked, "configurationDone")
        BY <1>1, <1>6, <4>1, WrittenTurn
      <4>3. adapter'[g].asked = Append(adapter[g].asked, "configurationDone")
        BY <1>2, <1>6, <4>2
      <4>4. QED
        BY <3>4, <4>3, AskedNext
    <3>7. app'.pendingAttach = app.pendingAttach /\ app'.startupPhase = ""
      BY <1>1, <1>2, <2>6 DEF AppAfter, AppOK, AppType
    <3>8. Order(g)'
      BY <1>2, <2>2, <2>3, <3>1 DEF Order, Waiting
    <3>9. Stage(g)' /\ Said(g)'
      BY <1>1, <1>2, <1>6, <3>3, <3>6, <3>7 DEF Stage, Said
    <3>10. QED
      BY <3>8, <3>9 DEF Shake
  <2>7. CASE ~(m = "initialize" /\ app.pendingAttach)
             /\ ~(m = "initialized" /\ app.startupPhase # "")
    <3>1. Replies(m) \cap HandshakeCommands = {}
      BY <2>7 DEF Replies, HandshakeCommands
    <3>2. adapter'[g].asked = adapter[g].asked
      BY <1>1, <1>2, <3>1, WrittenAsked
    <3>3. /\ app'.pendingAttach = app.pendingAttach
          /\ app'.startupPhase = app.startupPhase
      BY <1>1, <1>2, <2>7 DEF AppAfter, AppOK, AppType
    <3>4. Waiting(g) => ~app.pendingAttach \/ Waiting(g)'
      BY <1>2, <2>1, <2>2, <2>7 DEF Waiting, Holds
    <3>5. Waiting(g)' => Waiting(g)
      BY <1>2, <1>4, <2>2 DEF Waiting
    <3>6. Order(g)'
      BY <1>2, <1>4, <2>1, <2>2, <3>2, <3>5 DEF Order
    <3>7. Stage(g)' /\ Said(g)'
      BY <1>1, <1>2, <1>6, <2>1, <3>2, <3>3, <3>4 DEF Stage, Said
    <3>8. QED
      BY <3>6, <3>7 DEF Shake
  <2>8. QED
    BY <2>5, <2>6, <2>7
<1>7. QED
  BY <1>5, <1>6

\* The other steps of a reader apply nothing.
LEMMA ShakeReaders ==
    ASSUME IInv, [Next]_vars, NEW g \in Sessions, Shake(g),
           NEW r \in Sessions, ReaderStep(r)
    PROVE  Shake(g)'
<1>1. /\ ReadersOK /\ ClientInv /\ Nil \notin Sessions /\ (Taken(g) => Taken(g)')
  BY Basics, TakenForward
<1>2. CASE ReaderFindsNil(r) \/ ReaderSendsOnNil(r)
  BY <1>2, ShakeAside
  DEF ReaderFindsNil, ReaderSendsOnNil, Panic, codeVars, wireVars
<1>3. CASE ReaderLoads(r) \/ ReaderEnds(r) \/ ReaderStale(r) \/ ReaderFinalizes(r)
  <2>1. /\ UNCHANGED <<link, inbox, adapter>>
        /\ reader'[r].pc # "got"
        /\ \A h \in Sessions : h # r => reader'[h] = reader[h]
        /\ reader[r].pc \in {"broken", "done"} => reader'[r].pc = "done"
    BY <1>1, <1>3
    DEF ReaderLoads, ReaderEnds, ReaderStale, ReaderFinalizes, ReadersOK, ReaderType,
        wireVars
  <2>2. \A m : Holds(g, m)' => Holds(g, m)
    BY <2>1 DEF Holds
  <2>3. \/ app' = app
        \/ app' = Detached
    BY <1>3 DEF ReaderLoads, ReaderEnds, ReaderStale, ReaderFinalizes, Finalize, codeVars
  <2>4. CASE app' = Detached
    <3>1. app'.dap # g
      BY <1>1, <2>4 DEF Detached
    <3>2. QED
      BY <1>1, <2>1, <2>2, <3>1, ShakeFrame
  <2>5. CASE app' = app
    <3>1. CASE app.dap # g
      BY <1>1, <2>1, <2>2, <2>5, <3>1, ShakeFrame
    <3>2. CASE app.dap = g
      <4>1. g # r \/ reader[r].pc # "got"
        BY <1>1, <1>3, <3>2
        DEF ReaderLoads, ReaderEnds, ReaderStale, ReaderFinalizes, IsCurrent, ClientInv
      <4>2. Holds(g, "initialize") => Holds(g, "initialize")'
        BY <2>1, <4>1 DEF Holds
      <4>3. reader[g].pc \in {"broken", "done"} => reader'[g].pc \in {"broken", "done"}
        BY <2>1
      <4>4. QED
        BY <1>1, <2>1, <2>2, <2>5, <4>2, <4>3, ShakeFrame
    <3>3. QED
      BY <3>1, <3>2
  <2>6. QED
    BY <2>3, <2>4, <2>5
<1>4. QED
  BY <1>2, <1>3, ShakeReads, ShakeApplies DEF ReaderStep

\* A waiter lets go of its adapter or closes a stream that ended.
LEMMA ShakeWaiters ==
    ASSUME IInv, [Next]_vars, NEW g \in Sessions, Shake(g),
           NEW w \in Sessions, WaiterStep(w)
    PROVE  Shake(g)'
<1>1. WireOK /\ Nil \notin Sessions /\ (Taken(g) => Taken(g)')
  BY Basics, TakenForward
<1>2. CASE WaiterReaps(w)
  <2>1. /\ UNCHANGED <<app, reader, adapter>> /\ link[w] = "finished"
        /\ link'[w] = "cut"
        /\ g # w => link'[g] = link[g] /\ inbox'[g] = inbox[g]
    BY <1>1, <1>2 DEF WaiterReaps, WireOK, codeVars
  <2>2. \A m : Holds(g, m)' <=> Holds(g, m)
    BY <2>1 DEF Holds
  <2>3. CASE g # w
    BY <1>1, <2>1, <2>2, <2>3, ShakeFrame
  <2>4. CASE g = w
    BY <2>1, <2>4, ShakeClosed DEF Shake, Said
  <2>5. QED
    BY <2>3, <2>4
<1>3. CASE WaiterCloses(w) \/ WaiterClosesNil(w) \/ WaiterClosesTwice(w)
           \/ (WaiterFinalizes(w) /\ UNCHANGED app)
  BY <1>3, ShakeAside
  DEF WaiterCloses, WaiterClosesNil, WaiterClosesTwice, WaiterFinalizes, Panic,
      codeVars, wireVars
<1>4. CASE WaiterFinalizes(w) /\ ~UNCHANGED app
  <2>1. app' = Detached /\ UNCHANGED <<link, inbox, adapter, reader>>
    BY <1>4 DEF WaiterFinalizes, Finalize, wireVars
  <2>2. \A m : Holds(g, m)' <=> Holds(g, m)
    BY <2>1 DEF Holds
  <2>3. app'.dap # g
    BY <1>1, <2>1 DEF Detached
  <2>4. QED
    BY <1>1, <2>1, <2>2, <2>3, ShakeFrame
<1>5. QED
  BY <1>2, <1>3, <1>4 DEF WaiterStep

\* An adapter answers initialize once, and first; what it says of its own accord
\* is no part of the handshake.
LEMMA ShakeAdapters ==
    ASSUME IInv, [Next]_vars, NEW g \in Sessions, Shake(g),
           NEW a \in Sessions, AdapterStep(a)
    PROVE  Shake(g)'
<1>1. WireOK /\ (Taken(g) => Taken(g)') /\ "initialize" \in Commands
  BY Basics, TakenForward DEF Commands, HandshakeCommands
<1>2. UNCHANGED <<app, reader>> /\ \A m : Holds(g, m)' <=> Holds(g, m)
  <2>1. UNCHANGED <<app, reader>>
    BY DEF AdapterStep, AdapterAnswers, AdapterInitialized, AdapterEmits, AdapterEnds,
       Emit, codeVars
  <2>2. QED
    BY <2>1 DEF Holds
<1>3. CASE g # a
  <2>1. link'[g] = link[g] /\ inbox'[g] = inbox[g] /\ adapter'[g] = adapter[g]
    BY <1>1, <1>3
    DEF AdapterStep, AdapterAnswers, AdapterInitialized, AdapterEmits, AdapterEnds,
        Emit, WireOK
  <2>2. QED
    BY <1>1, <1>2, <2>1, ShakeFrame
<1>4. CASE g = a /\ AdapterEnds(a)
  <2>1. link'[g] = "finished" /\ adapter'[g] = Blank
    BY <1>1, <1>4 DEF AdapterEnds, WireOK
  <2>2. QED
    BY <2>1, ShakeClosed DEF Blank
<1>5. ASSUME g = a, ~AdapterEnds(a)
      PROVE  Shake(g)'
  <2> DEFINE old == adapter[g].pending["initialize"]
             new == adapter'[g].pending["initialize"]
  <2>1. PICK m \in Messages :
          /\ Emit(g, m)
          /\ adapter'[g].asked = adapter[g].asked
          /\ m = "initialize" => old > 0 /\ new = old - 1
          /\ m # "initialize" => new = old
          /\ m = "initialized" => old = 0
    <3>1. adapter[g] \in AdapterType
      BY <1>1 DEF WireOK
    <3>2. ASSUME NEW c \in Commands, AdapterAnswers(a, c)
          PROVE  /\ \E m \in {c, "noThreads"} :
                      Emit(g, m) /\ (m = "noThreads" => c = "threads")
                 /\ adapter'[g].asked = adapter[g].asked
                 /\ c = "initialize" => old > 0 /\ new = old - 1
                 /\ c # "initialize" => new = old
      <4>1. \E m \in {c, "noThreads"} :
                Emit(g, m) /\ (m = "noThreads" => c = "threads")
        BY <1>5, <3>2 DEF AdapterAnswers, Commands, HandshakeCommands
      <4>2. /\ adapter[g].pending[c] > 0
            /\ adapter' = [adapter EXCEPT ![g].pending[c] = @ - 1]
        BY <1>5, <3>2 DEF AdapterAnswers
      <4>3. /\ adapter'[g].asked = adapter[g].asked
            /\ adapter'[g].pending = [adapter[g].pending EXCEPT ![c] = @ - 1]
        BY <1>1, <3>1, <4>2 DEF WireOK, AdapterType
      <4>4. QED
        BY <1>1, <3>1, <4>1, <4>2, <4>3 DEF AdapterType
    <3>3. CASE AdapterInitialized(a)
      <4>1. /\ Emit(g, "initialized") /\ new = old /\ old = 0
            /\ adapter'[g].asked = adapter[g].asked
        BY <1>1, <1>5, <3>1, <3>3 DEF AdapterInitialized, WireOK, AdapterType
      <4>2. QED
        BY <4>1 DEF Messages
    <3>4. ASSUME NEW m, AdapterEmits(a, m)
          PROVE  Emit(g, m) /\ UNCHANGED adapter /\ m \in EventKinds \cup {"garbage"}
      BY <1>5, <3>4, InputsAssumption DEF AdapterEmits
    <3>5. /\ Commands \cup EventKinds \cup {"noThreads", "initialized", "garbage"}
                = Messages
          /\ "initialize" \notin EventKinds /\ "initialized" \notin EventKinds
          /\ "initialized" \notin Commands
      BY DEF Messages, EventKinds, Commands, HandshakeCommands
    <3>6. QED
      <4>1. CASE \E c \in Commands : AdapterAnswers(a, c)
        BY <3>2, <3>5, <4>1
      <4>2. CASE AdapterInitialized(a)
        BY <3>3, <3>5, <4>2
      <4>3. CASE \E m \in Messages : AdapterEmits(a, m)
        BY <3>4, <3>5, <4>3
      <4>4. QED
        BY <1>5, <4>1, <4>2, <4>3 DEF AdapterStep
  <2>2. /\ link[g] = "open" /\ link'[g] = "open"
        /\ inbox'[g] = Append(inbox[g], m) /\ inbox[g] \in Seq(Messages)
    BY <1>1, <2>1 DEF Emit, WireOK
  <2>3. old \in Nat
    BY <1>1 DEF WireOK, AdapterType
  <2>4. /\ Still(inbox[g]) /\ m \notin Turns => Still(inbox'[g])
        /\ InTurn(inbox[g]) /\ (m = "initialize" => Still(inbox[g])) => InTurn(inbox'[g])
        /\ Carries(inbox'[g]) <=> Carries(inbox[g]) \/ m = "initialize"
    BY <2>2, SentTurns
  <2>5. /\ old # 0 => old = 1 /\ Still(inbox[g])
        /\ InTurn(inbox[g])
        /\ old # 0 \/ Carries(inbox[g]) => \A k \in Turns : ~Holds(g, k)
        /\ Waiting(g) => adapter[g].asked = A1
    BY <2>2 DEF Shake, Order
  <2>6. /\ m = "initialize" => old = 1 /\ new = 0
        /\ new # 0 => old # 0 /\ m \notin Turns
    BY <2>1, <2>3, <2>5 DEF Turns
  <2>7. Waiting(g)' <=> Waiting(g)
    BY <1>2, <2>1, <2>4, <2>6 DEF Waiting
  <2>8. Order(g)'
    BY <1>2, <2>1, <2>4, <2>5, <2>6, <2>7 DEF Order
  <2>9. Stage(g)' /\ Said(g)'
    BY <1>1, <1>2, <2>1, <2>2, <2>7 DEF Shake, Stage, Said
  <2>10. QED
    BY <2>8, <2>9 DEF Shake
<1>6. QED
  BY <1>3, <1>4, <1>5

\* While an attach is under way nothing else touches the fields it set.
LEMMA ReadyNext ==
    ASSUME IInv, ReadyInv, [Next]_vars
    PROVE  ReadyInv'
<1>1. /\ AppOK /\ HandlersOK /\ LockInv /\ \A p \in Handlers : p \in Goroutines
  BY Basics
<1>2. ASSUME NEW p \in Goroutines, pc'[p] \in {"reaping", "attaching"},
             pc'[p] = pc[p], app'.pendingAttach = app.pendingAttach,
             app'.startupPhase = app.startupPhase
      PROVE  /\ pc'[p] = "reaping" => app'.startupPhase = ""
             /\ pc'[p] = "attaching" => app'.pendingAttach /\ app'.startupPhase = ""
  BY <1>2 DEF ReadyInv
<1>3. CASE /\ app'.pendingAttach = app.pendingAttach
           /\ app'.startupPhase = app.startupPhase
           /\ \A p \in Goroutines :
                pc'[p] \in {"reaping", "attaching"} => pc'[p] = pc[p]
  BY <1>2, <1>3 DEF ReadyInv
<1>4. ASSUME dapMu = Free, \A p \in Goroutines : pc'[p] = pc[p]
      PROVE  ReadyInv'
  BY <1>1, <1>4, Exclusion, HandlersAssumption DEF ReadyInv, Holding
<1>5. ASSUME NEW p \in Goroutines, NEW label, NEW what, Goto(p, label, what),
             dapMu = Free \/ pc[p] \in Holding
      PROVE  \A q \in Goroutines :
                 /\ q # p => pc'[q] \notin {"reaping", "attaching"}
                 /\ q = p => pc'[q] = label
  <2>1. \A q \in Goroutines : q # p => pc[q] \notin Holding
    BY <1>1, <1>5, Exclusion, HandlersAssumption
  <2>2. QED
    BY <1>1, <1>5, <2>1 DEF Goto, HandlersOK, Holding
<1>6. ASSUME NEW p \in Handlers, \E r \in Requests : AttachResets(p, r)
      PROVE  ReadyInv'
  <2>1. app'.startupPhase = "" /\ dapMu = Free
        /\ \E what : Goto(p, "reaping", what)
    BY <1>6 DEF AttachResets, Detached
  <2>2. QED
    BY <1>1, <1>5, <2>1 DEF ReadyInv
<1>7. ASSUME NEW p \in Handlers, AttachBegins(p)
      PROVE  ReadyInv'
  <2>1. /\ app'.startupPhase = "" /\ app'.pendingAttach /\ pc[p] \in Holding
        /\ \E what : Goto(p, "attaching", what)
    BY <1>1, <1>7 DEF AttachBegins, ReadyInv, AppOK, AppType, Holding
  <2>2. QED
    BY <1>1, <1>5, <2>1 DEF ReadyInv
<1>8. ASSUME NEW p \in Goroutines,
             \/ AttachFails(p) \/ (\E ok \in BOOLEAN : AttachSucceeds(p, ok))
             \/ StopSevers(p) \/ StopFinishes(p)
      PROVE  ReadyInv'
  <2>1. /\ pc[p] \in Holding
        /\ \E label \in {"idle", "stopping", "closing", "leaving"} : \E what :
             Goto(p, label, what)
    BY <1>8
    DEF AttachFails, AttachSucceeds, StopSevers, StopFinishes, Return, Holding
  <2>2. QED
    BY <1>5, <2>1 DEF ReadyInv
<1>9. ASSUME NEW p \in Goroutines, dapMu = Free,
             \E what, label : /\ label \notin {"reaping", "attaching"}
                             /\ Goto(p, label, what)
      PROVE  ReadyInv'
  BY <1>5, <1>9 DEF ReadyInv
<1>10. ASSUME NEW g \in Sessions, ReaderMoves(g) \/ LinkMoves(g)
       PROVE  ReadyInv'
  <2>1. UNCHANGED pc
    BY <1>10
    DEF ReaderMoves, LinkMoves, ReaderLoads, ReaderReceives, ReaderTears, ReaderEnds,
        ReaderApplies, ReaderStale, ReaderFinalizes, WaiterReaps, WaiterCloses,
        WaiterFinalizes, AdapterEnds, handlerVars
  <2>2. dapMu = Free \/ UNCHANGED app
    BY <1>10
    DEF ReaderMoves, LinkMoves, ReaderLoads, ReaderReceives, ReaderTears, ReaderEnds,
        ReaderApplies, ReaderStale, ReaderFinalizes, WaiterReaps, WaiterCloses,
        WaiterFinalizes, AdapterEnds, codeVars
  <2>3. QED
    BY <1>3, <1>4, <2>1, <2>2
<1>11. ASSUME NEW p \in Handlers, SelectThread(p)
       PROVE  ReadyInv'
  <2>1. /\ app'.pendingAttach = app.pendingAttach
        /\ app'.startupPhase = app.startupPhase
        /\ \E label \in {"sending", "idle"} : \E what : Goto(p, label, what)
    BY <1>1, <1>11 DEF SelectThread, Return, AppOK, AppType
  <2>2. \A q \in Goroutines : pc'[q] \in {"reaping", "attaching"} => pc'[q] = pc[q]
    BY <1>1, <2>1 DEF Goto, HandlersOK
  <2>3. QED
    BY <1>3, <2>1, <2>2
<1>12. CASE Rest
  BY <1>3, <1>12 DEF Rest, QuietStep
<1>13. QED
  BY <1>1, <1>6, <1>7, <1>8, <1>10, <1>11, <1>12, Moves DEF HandlerMoves

LEMMA ShakeNext ==
    ASSUME IInv, HeldInv, ShakeInv, [Next]_vars
    PROVE  ShakeInv'
<1>1. ReadyInv'
  BY ReadyNext DEF ShakeInv
<1>2. ASSUME NEW g \in Sessions
      PROVE  Shake(g)'
  <2>1. Shake(g) /\ ReadyInv /\ Serve \in Goroutines
    BY DEF ShakeInv, Goroutines
  <2>2. CASE UNCHANGED vars
    BY <2>1, <2>2, ShakeAside DEF vars
  <2>3. CASE \E p \in Handlers : RequestArrives(p) \/ CommandStep(p) \/ AttachStep(p)
    BY <2>1, <2>3, ShakeCommands, ShakeAttaches
  <2>4. CASE (\E p \in Goroutines : StopStep(p)) \/ ServeEnds \/ ServeReturns
    BY <2>1, <2>4, ShakeStops
  <2>5. CASE \E h \in Sessions : ReaderStep(h) \/ WaiterStep(h) \/ AdapterStep(h)
    BY <2>1, <2>5, ShakeReaders, ShakeWaiters, ShakeAdapters
  <2>6. QED
    BY <2>2, <2>3, <2>4, <2>5 DEF Next
<1>3. QED
  BY <1>1, <1>2 DEF ShakeInv

\* However the sessions before it ended and whatever their readers still do,
\* an adapter is sent initialize, attach and configurationDone in that order --
\* or, where such a reader took its response to initialize, no attach at all.
THEOREM HandshakeOrder == Spec => []HandshakeInOrder
<1>1. Init => ShakeInv
  <2> SUFFICES ASSUME Init PROVE ShakeInv
    OBVIOUS
  <2>1. ReadyInv
    BY DEF Init, ReadyInv
  <2>2. ASSUME NEW g \in Sessions
        PROVE  Shake(g)
    BY DEF Init, Shake, Order, Stage, Said, Blank
  <2>3. QED
    BY <2>1, <2>2 DEF ShakeInv
<1>2. IInv /\ SafetyInv /\ ShakeInv /\ [Next]_vars => ShakeInv'
  BY ShakeNext DEF SafetyInv
<1>3. IInv /\ ShakeInv => HandshakeInOrder
  <2> SUFFICES ASSUME IInv, ShakeInv, NEW g \in Sessions
               PROVE  \/ adapter[g].asked = SubSeq(A3, 1, Len(adapter[g].asked))
                      \/ /\ adapter[g].asked = Skipped
                         /\ \E r \in 1..(g - 1) :
                              /\ reader[r].client = g
                              /\ reader[r].msg \in {"initialize", "garbage"}
    BY DEF HandshakeInOrder, A3, Skipped
  <2>1. Said(g)
    BY DEF ShakeInv, Shake
  <2>2. CASE adapter[g].asked \in {<<>>, A1, A2, A3}
    BY <2>2, AskedNext
  <2>3. CASE adapter[g].asked = Skipped /\ Taken(g)
    <3>1. PICK r \in Sessions : /\ r < g
                                /\ reader[r].client = g
                                /\ reader[r].msg \in {"initialize", "garbage"}
      BY <2>3 DEF Taken
    <3>2. r \in 1..(g - 1)
      BY <3>1, BoundsAssumption DEF Sessions
    <3>3. QED
      BY <2>3, <3>1, <3>2
  <2>4. QED
    BY <2>1, <2>2, <2>3 DEF Said
<1>4. QED
  BY <1>1, <1>2, <1>3, Safety, PTL DEF Spec
=============================================================================
