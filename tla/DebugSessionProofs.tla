------------------------- MODULE DebugSessionProofs -------------------------
(***************************************************************************)
(* Proofs about DebugSession, for every set of handlers and every bound.   *)
(*                                                                         *)
(* The inductive invariant says what dapMu protects although half of the   *)
(* accesses go around it: who holds it, that a.dap is nil or of the        *)
(* current session, and that a reader's client is never older than its     *)
(* session.  The second half adds what becomes of the adapters.            *)
(***************************************************************************)
EXTENDS DebugSession, FiniteSetTheorems, TLAPS

\* The places where a goroutine is inside StartAttach or StopSession.
Holding == {"reaping", "attaching", "disconnecting", "stopping"}

LockInv == \A p \in Goroutines : pc[p] \in Holding => dapMu = p

\* a.dap and a.adapterConn are nil or of the current session, and the adapter
\* they denote was reached.
ClientInv ==
    /\ app.dap \in {Nil, session.id}
    /\ app.dap # Nil => link[app.dap] # "none"
    /\ app.conn # Nil => app.conn = app.dap

\* Sessions that are not open yet have no reader and no link, and neither has
\* the one that StartAttach is just reaching an adapter for.
FutureInv ==
    /\ \A g \in Sessions :
         g > session.id => reader[g].pc = "none" /\ link[g] = "none"
    /\ \A p \in Goroutines : pc[p] = "reaping" =>
         session.id < MaxSessions /\ app.conn = Nil
    /\ \A p \in Goroutines : pc[p] = "attaching" =>
         /\ session.id \in Sessions
         /\ reader[session.id].pc = "none"
         /\ link[session.id] = "none"
         /\ app.dap = Nil

\* A reader reads from its own client or a newer one.
ReaderInv ==
    \A r \in Sessions : reader[r].pc \in {"reading", "got"} =>
        r <= reader[r].client /\ reader[r].client <= session.id

IInv == TypeOK /\ LockInv /\ ClientInv /\ FutureInv /\ ReaderInv
-----------------------------------------------------------------------------
(* What the helpers return *)

\* A part of the state that a step leaves alone stays well-formed.
LEMMA AppSame == AppOK /\ UNCHANGED <<daemon, dapMu, codeVars>> => AppOK'
  BY DEF AppOK, codeVars

LEMMA HandlersSame == HandlersOK /\ UNCHANGED <<handlerVars, spent>> => HandlersOK'
  BY DEF HandlersOK, handlerVars

LEMMA ReadersSame == ReadersOK /\ UNCHANGED <<reader, waiter>> => ReadersOK'
  BY DEF ReadersOK

LEMMA WireSame == WireOK /\ UNCHANGED wireVars => WireOK'
  BY DEF WireOK, wireVars

\* Writing commands to an adapter leaves a well-formed adapter.
LEMMA WrittenType ==
    ASSUME WireOK, NEW g, NEW cmds
    PROVE  Written(g, cmds) \in [Sessions -> AdapterType]
<1>1. CASE g \in Sessions /\ link[g] = "open"
  <2> DEFINE pending == [c \in Commands |->
                 IF c \in cmds THEN adapter[g].pending[c] + 1
                               ELSE adapter[g].pending[c]]
             h == CHOOSE c \in cmds : c \in HandshakeCommands
             asked == IF cmds \cap HandshakeCommands = {} THEN adapter[g].asked
                      ELSE Append(adapter[g].asked, h)
  <2>1. adapter[g] \in AdapterType
    BY <1>1 DEF WireOK
  <2>2. pending \in [Commands -> Nat]
    BY <2>1 DEF AdapterType
  <2>3. asked \in Seq(HandshakeCommands)
    <3>1. CASE cmds \cap HandshakeCommands = {}
      BY <2>1, <3>1 DEF AdapterType
    <3>2. CASE cmds \cap HandshakeCommands # {}
      <4>1. h \in HandshakeCommands
        BY <3>2
      <4>2. QED
        BY <2>1, <3>2, <4>1 DEF AdapterType
    <3>3. QED
      BY <3>1, <3>2
  <2>4. Written(g, cmds) = [adapter EXCEPT ![g].pending = pending,
                                           ![g].asked = asked]
    BY <1>1 DEF Written
  <2> HIDE DEF pending, asked
  <2>5. [adapter[g] EXCEPT !.pending = pending, !.asked = asked] \in AdapterType
    BY <2>1, <2>2, <2>3 DEF AdapterType
  <2>6. Written(g, cmds) =
            [adapter EXCEPT ![g] = [adapter[g] EXCEPT !.pending = pending,
                                                      !.asked = asked]]
    BY <1>1, <2>4 DEF WireOK
  <2>7. QED
    BY <1>1, <2>5, <2>6 DEF WireOK
<1>2. CASE ~(g \in Sessions /\ link[g] = "open")
  BY <1>2 DEF Written, WireOK
<1>3. QED
  BY <1>1, <1>2

LEMMA BlankType == Blank \in AdapterType
  BY DEF Blank, Quiet, AdapterType

\* Closing and killing leave well-formed streams.
LEMMA SeverType == WireOK /\ Sever => WireOK'
  BY BlankType DEF WireOK, Sever

LEMMA DetachedType == Detached \in AppType
  BY DEF Detached, AppType

\* No message takes the fields of App or the session out of their types, nor
\* touches a.dap, a.adapterConn or the SessionID.
LEMMA AfterType ==
    ASSUME AppOK, NEW m
    PROVE  /\ AppAfter(m) \in AppType
           /\ AppAfter(m).dap = app.dap
           /\ AppAfter(m).conn = app.conn
           /\ SessionAfter(m) \in SessionType
           /\ SessionAfter(m).id = session.id
<1>1. LifecycleAfter(m) \in Lifecycles
  BY DEF AppOK, SessionType, LifecycleAfter, Lifecycles, Terminal
<1>2. /\ SessionAfter(m) \in SessionType
      /\ SessionAfter(m).id = session.id
  BY <1>1 DEF AppOK, SessionType, SessionAfter
<1>3. QED
  BY <1>2 DEF AppOK, AppType, AppAfter

\* Finalization keeps the types and the SessionID, and detaches.
LEMMA FinalizeType ==
    ASSUME AppOK, NEW l \in Lifecycles, Finalize(l)
    PROVE  /\ app' = Detached
           /\ app' \in AppType
           /\ session' \in SessionType
           /\ session'.id = session.id
  BY DetachedType DEF AppOK, Finalize, SessionType

\* Goto moves p alone, to the given place.
LEMMA GotoType ==
    ASSUME HandlersOK, NEW p \in Goroutines, NEW label \in Places,
           NEW what \in RequestKinds \cup {"none"}, Goto(p, label, what)
    PROVE  /\ pc' \in [Goroutines -> Places]
           /\ call' \in [Goroutines -> RequestKinds \cup {"none"}]
           /\ pc'[p] = label
           /\ \A q \in Goroutines : q # p => pc'[q] = pc[q]
  BY DEF HandlersOK, Goto

-----------------------------------------------------------------------------
(* Every step keeps the types *)

\* An accepted request is counted within its bound.
LEMMA BeginsType ==
    ASSUME HandlersOK, NEW p, NEW r, Begins(p, r)
    PROVE  /\ spent' \in [requests : 0..MaxRequests, events : 0..MaxEvents]
           /\ r \in RequestKinds
  BY InputsAssumption, BoundsAssumption DEF HandlersOK, Begins

\* A panic leaves everything else as it was.
LEMMA PanicType ==
    ASSUME ProgramOK, NEW what \in Panics, Panic(what)
    PROVE  ProgramOK'
<1>1. AppOK'
  BY DEF ProgramOK, AppOK, Panic, codeVars
<1>2. HandlersOK' /\ ReadersOK' /\ WireOK'
  BY HandlersSame, ReadersSame, WireSame DEF ProgramOK, Panic
<1>3. QED
  BY <1>1, <1>2 DEF ProgramOK

\* The requests that send a command keep the types.
LEMMA CommandTypes ==
    ASSUME ProgramOK, NEW p \in Handlers,
           (\E r \in Requests : EnsureActiveAdapter(p, r)) \/ CommandStep(p)
    PROVE  ProgramOK'
<1> USE DEF ProgramOK
<1>1. p \in Goroutines
  BY DEF Goroutines
<1>2. ASSUME NEW r \in Requests, EnsureActiveAdapter(p, r) PROVE ProgramOK'
  <2>1. HandlersOK'
    BY <1>1, <1>2, GotoType, BeginsType
    DEF HandlersOK, EnsureActiveAdapter, Places
  <2>2. QED
    BY <2>1, <1>2, AppSame, ReadersSame, WireSame DEF EnsureActiveAdapter
<1>3. CASE SelectThread(p)
  <2>1. AppOK'
    BY <1>3 DEF AppOK, AppType, SelectThread, Return
  <2>2. HandlersOK'
    <3>1. call[p] \in RequestKinds \cup {"none"}
      BY <1>1 DEF HandlersOK
    <3>2. \/ Goto(p, "sending", call[p])
          \/ Goto(p, "sending", "threads")
          \/ Goto(p, "idle", "none")
      BY <1>3 DEF SelectThread, Return
    <3>3. QED
      BY <1>1, <1>3, <3>1, <3>2, GotoType
      DEF HandlersOK, SelectThread, Places, RequestKinds, DebugCommands
  <2>3. QED
    BY <2>1, <2>2, <1>3, ReadersSame, WireSame DEF SelectThread
<1>4. CASE SendCommand(p)
  <2>1. HandlersOK'
    BY <1>1, <1>4, GotoType DEF HandlersOK, SendCommand, Return, Places
  <2>2. WireOK'
    BY <1>4, WrittenType DEF WireOK, SendCommand
  <2>3. QED
    BY <2>1, <2>2, <1>4, AppSame, ReadersSame DEF SendCommand
<1>5. CASE SendOnNil(p)
  BY <1>5, PanicType DEF SendOnNil, Panics
<1>6. QED
  BY <1>2, <1>3, <1>4, <1>5 DEF CommandStep

\* StartAttach keeps the types: there is room for one more session because the
\* lock was held since that was checked.
LEMMA AttachTypes ==
    ASSUME ProgramOK, FutureInv, NEW p \in Handlers,
           (\E r \in Requests : AttachResets(p, r)) \/ AttachStep(p)
    PROVE  ProgramOK'
<1> USE DEF ProgramOK
<1>1. p \in Goroutines
  BY DEF Goroutines
<1>2. ASSUME NEW r \in Requests, AttachResets(p, r) PROVE ProgramOK'
  <2>1. AppOK'
    BY <1>1, <1>2 DEF AppOK, AppType, AttachResets, Detached
  <2>2. HandlersOK'
    BY <1>1, <1>2, GotoType, BeginsType DEF HandlersOK, AttachResets, Places
  <2>3. QED
    BY <2>1, <2>2, <1>2, SeverType, ReadersSame DEF AttachResets
<1>3. CASE AttachBegins(p)
  <2>1. session.id + 1 \in Sessions
    BY <1>1, <1>3, BoundsAssumption
    DEF FutureInv, AttachBegins, AppOK, SessionType, Sessions
  <2>2. AppOK'
    BY <2>1, <1>3
    DEF AppOK, AppType, SessionType, AttachBegins, Lifecycles
  <2>3. HandlersOK'
    <3>1. call[p] \in RequestKinds \cup {"none"}
      BY <1>1 DEF HandlersOK
    <3>2. QED
      BY <3>1, <1>1, <1>3, GotoType DEF HandlersOK, AttachBegins, Places
  <2>4. QED
    BY <2>2, <2>3, <1>3, ReadersSame, WireSame DEF AttachBegins
<1>4. CASE AttachFails(p)
  <2>1. AppOK'
    BY <1>4 DEF AppOK, AttachFails, codeVars
  <2>2. HandlersOK'
    BY <1>1, <1>4, GotoType DEF HandlersOK, AttachFails, Return, Places
  <2>3. QED
    BY <2>1, <2>2, <1>4, ReadersSame, WireSame DEF AttachFails
<1>5. ASSUME NEW ok \in BOOLEAN, AttachSucceeds(p, ok) PROVE ProgramOK'
  <2>1. session.id \in Sessions
    BY <1>1, <1>5 DEF FutureInv, AttachSucceeds
  <2>2. AppOK'
    BY <2>1, <1>5 DEF AppOK, AppType, AttachSucceeds
  <2>3. HandlersOK'
    BY <1>1, <1>5, GotoType DEF HandlersOK, AttachSucceeds, Return, Places
  <2>4. ReadersOK'
    BY <2>1, <1>5 DEF ReadersOK, ReaderType, AttachSucceeds
  <2>5. WireOK'
    <3>1. Greeted \in AdapterType
      BY DEF Greeted, AdapterType, HandshakeCommands
    <3>2. QED
      BY <2>1, <3>1, <1>5 DEF WireOK, AttachSucceeds
  <2>6. QED
    BY <2>2, <2>3, <2>4, <2>5
<1>6. QED
  BY <1>2, <1>3, <1>4, <1>5 DEF AttachStep

\* Taking the lock for a stop keeps the types.
LEMMA StopLocksType ==
    ASSUME ProgramOK, NEW p \in Goroutines, StopLocks(p)
    PROVE  AppOK' /\ ReadersOK' /\ WireOK'
<1>1. AppOK'
  BY DEF ProgramOK, AppOK, StopLocks, codeVars
<1>2. WireOK'
  BY WrittenType DEF ProgramOK, WireOK, StopLocks
<1>3. QED
  BY <1>1, <1>2, ReadersSame DEF ProgramOK, StopLocks

\* The way of a stop, and of Serve, to its end keeps the types.
LEMMA StopTypes ==
    ASSUME ProgramOK,
           \/ \E p \in Handlers, r \in Requests : StopRequested(p, r)
           \/ \E p \in Goroutines : StopStep(p)
           \/ ServeEnds
           \/ ServeReturns
    PROVE  ProgramOK'
<1> USE DEF ProgramOK
<1>1. ASSUME NEW p \in Handlers, NEW r \in Requests, StopRequested(p, r)
      PROVE  ProgramOK'
  <2>1. p \in Goroutines
    BY DEF Goroutines
  <2>2. HandlersOK'
    BY <2>1, <1>1, GotoType, BeginsType DEF HandlersOK, StopRequested, Places
  <2>3. QED
    BY <2>1, <2>2, <1>1, StopLocksType DEF StopRequested
<1>2. ASSUME NEW p \in Goroutines, StopSevers(p) PROVE ProgramOK'
  <2>1. AppOK'
    BY <1>2 DEF AppOK, AppType, StopSevers
  <2>2. HandlersOK'
    <3>1. call[p] \in RequestKinds \cup {"none"}
      BY DEF HandlersOK
    <3>2. QED
      BY <3>1, <1>2, GotoType DEF HandlersOK, StopSevers, Places
  <2>3. QED
    BY <2>1, <2>2, <1>2, SeverType, ReadersSame DEF StopSevers
<1>3. ASSUME NEW p \in Goroutines, StopFinishes(p) PROVE ProgramOK'
  <2>1. AppOK'
    BY <1>3, FinalizeType DEF AppOK, StopFinishes, Lifecycles, Terminal
  <2>2. HandlersOK'
    <3>1. \/ Goto(p, "idle", "none")
          \/ Goto(p, "closing", "shutdown")
          \/ Goto(p, "leaving", "none")
      BY <1>3 DEF StopFinishes, Return
    <3>2. QED
      BY <3>1, <1>3, GotoType DEF HandlersOK, StopFinishes, Places, RequestKinds
  <2>3. QED
    BY <2>1, <2>2, <1>3, ReadersSame, WireSame DEF StopFinishes
<1>4. ASSUME NEW p \in Goroutines, CloseServer(p) PROVE ProgramOK'
  <2>1. AppOK'
    BY <1>4 DEF AppOK, CloseServer
  <2>2. HandlersOK'
    BY <1>4, GotoType DEF HandlersOK, CloseServer, Return, Places
  <2>3. QED
    BY <2>1, <2>2, <1>4, ReadersSame, WireSame DEF CloseServer
<1>5. CASE ServeEnds
  <2>1. Serve \in Goroutines
    BY DEF Goroutines
  <2>2. HandlersOK'
    BY <2>1, <1>5, GotoType DEF HandlersOK, ServeEnds, Places
  <2>3. QED
    BY <2>1, <2>2, <1>5, StopLocksType DEF ServeEnds
<1>6. CASE ServeReturns
  <2>1. AppOK'
    BY <1>6 DEF AppOK, ServeReturns, codeVars
  <2>2. QED
    BY <2>1, <1>6, HandlersSame, ReadersSame, WireSame DEF ServeReturns
<1>7. QED
  BY <1>1, <1>2, <1>3, <1>4, <1>5, <1>6 DEF StopStep

\* The readers: what they hold is a message, from a client that exists.
LEMMA ReaderTypes ==
    ASSUME ProgramOK, ReaderInv, NEW r \in Sessions, ReaderStep(r)
    PROVE  ProgramOK'
<1> USE DEF ProgramOK
<1>1. CASE ReaderLoads(r)
  <2>1. app.dap \in {Nil} \cup Sessions
    BY DEF AppOK, AppType
  <2>2. ReadersOK'
    BY <2>1, <1>1 DEF ReadersOK, ReaderType, ReaderLoads
  <2>3. QED
    BY <2>2, <1>1, AppSame, HandlersSame, WireSame DEF ReaderLoads
<1>2. CASE ReaderFindsNil(r) \/ ReaderSendsOnNil(r)
  BY <1>2, PanicType DEF ReaderFindsNil, ReaderSendsOnNil, Panics
<1>3. CASE ReaderReceives(r) \/ ReaderTears(r)
  <2> DEFINE c == reader[r].client
  <2>1. c \in Sessions
    BY <1>3
    DEF ReaderInv, ReadersOK, ReaderType, ReaderReceives, ReaderTears, Sessions, Nil
  <2>2. inbox[c] \in Seq(Messages) /\ inbox[c] # <<>>
    BY <2>1, <1>3 DEF WireOK, ReaderReceives, ReaderTears
  <2>3. Head(inbox[c]) \in Messages /\ Tail(inbox[c]) \in Seq(Messages)
    BY <2>2
  <2>4. <<"garbage">> \o Tail(inbox[c]) \in Seq(Messages)
    BY <2>3 DEF Messages
  <2>5. ReadersOK'
    BY <2>3, <1>3
    DEF ReadersOK, ReaderType, ReaderReceives, ReaderTears, Messages
  <2>6. WireOK'
    BY <2>3, <2>4, <1>3 DEF WireOK, ReaderReceives, ReaderTears
  <2>7. QED
    BY <2>5, <2>6, <1>3, AppSame, HandlersSame DEF ReaderReceives, ReaderTears
<1>4. CASE ReaderEnds(r) \/ ReaderStale(r)
  <2>1. ReadersOK'
    BY <1>4 DEF ReadersOK, ReaderType, ReaderEnds, ReaderStale
  <2>2. QED
    BY <2>1, <1>4, AppSame, HandlersSame, WireSame DEF ReaderEnds, ReaderStale
<1>5. CASE ReaderApplies(r)
  <2>1. AppOK'
    BY <1>5, AfterType DEF AppOK, ReaderApplies
  <2>2. ReadersOK'
    BY <1>5 DEF ReadersOK, ReaderType, ReaderApplies, NoReader
  <2>3. WireOK'
    BY <1>5, WrittenType DEF WireOK, ReaderApplies
  <2>4. QED
    BY <2>1, <2>2, <2>3, <1>5, HandlersSame DEF ReaderApplies
<1>6. CASE ReaderFinalizes(r)
  <2>1. Finalize("exited") \/ UNCHANGED <<app, session>>
    BY <1>6 DEF ReaderFinalizes
  <2>2. AppOK'
    BY <2>1, <1>6, FinalizeType DEF AppOK, ReaderFinalizes, Lifecycles, Terminal
  <2>3. ReadersOK'
    BY <1>6 DEF ReadersOK, ReaderType, ReaderFinalizes
  <2>4. QED
    BY <2>2, <2>3, <1>6, HandlersSame, WireSame DEF ReaderFinalizes
<1>7. QED
  BY <1>1, <1>2, <1>3, <1>4, <1>5, <1>6 DEF ReaderStep

\* The waiters.
LEMMA WaiterTypes ==
    ASSUME ProgramOK, NEW g \in Sessions, WaiterStep(g)
    PROVE  ProgramOK'
<1> USE DEF ProgramOK
<1>1. CASE WaiterReaps(g)
  <2>1. ReadersOK' /\ WireOK'
    BY <1>1 DEF ReadersOK, WireOK, WaiterReaps
  <2>2. QED
    BY <2>1, <1>1, AppSame, HandlersSame DEF WaiterReaps
<1>2. CASE WaiterCloses(g)
  <2>1. AppOK'
    BY <1>2 DEF AppOK, AppType, WaiterCloses
  <2>2. ReadersOK'
    BY <1>2 DEF ReadersOK, WaiterCloses
  <2>3. QED
    BY <2>1, <2>2, <1>2, HandlersSame, WireSame DEF WaiterCloses
<1>3. CASE WaiterClosesNil(g) \/ WaiterClosesTwice(g)
  BY <1>3, PanicType DEF WaiterClosesNil, WaiterClosesTwice, Panics
<1>4. CASE WaiterFinalizes(g)
  <2>1. Finalize("exited") \/ UNCHANGED <<app, session>>
    BY <1>4 DEF WaiterFinalizes
  <2>2. AppOK'
    BY <2>1, <1>4, FinalizeType DEF AppOK, WaiterFinalizes, Lifecycles, Terminal
  <2>3. ReadersOK'
    BY <1>4 DEF ReadersOK, WaiterFinalizes
  <2>4. QED
    BY <2>2, <2>3, <1>4, HandlersSame, WireSame DEF WaiterFinalizes
<1>5. QED
  BY <1>1, <1>2, <1>3, <1>4 DEF WaiterStep

\* The adapters put messages into their streams and hang up.
LEMMA AdapterTypes ==
    ASSUME ProgramOK, NEW g \in Sessions, AdapterStep(g)
    PROVE  ProgramOK'
<1> USE DEF ProgramOK
<1>1. ASSUME NEW m \in Messages, Emit(g, m)
      PROVE  /\ AppOK' /\ ReadersOK'
             /\ UNCHANGED <<pc, call, link>>
             /\ inbox' \in [Sessions -> Seq(Messages)]
  BY <1>1, AppSame, ReadersSame DEF Emit, WireOK, handlerVars
<1>2. ASSUME NEW c \in Commands, AdapterAnswers(g, c) PROVE ProgramOK'
  <2>1. PICK m \in Messages : Emit(g, m)
    BY <1>2 DEF AdapterAnswers, Messages
  <2>2. adapter' \in [Sessions -> AdapterType]
    <3> DEFINE pending == [adapter[g].pending EXCEPT ![c] = @ - 1]
    <3>1. adapter[g] \in AdapterType
      BY DEF WireOK
    <3>2. pending \in [Commands -> Nat]
      BY <3>1, <1>2 DEF AdapterType, AdapterAnswers
    <3>3. adapter' = [adapter EXCEPT ![g].pending = pending]
      BY <3>1, <1>2 DEF AdapterAnswers, WireOK, AdapterType
    <3> HIDE DEF pending
    <3>4. QED
      BY <3>1, <3>2, <3>3 DEF WireOK, AdapterType
  <2>3. QED
    BY <2>1, <2>2, <1>1, <1>2 DEF HandlersOK, WireOK, AdapterAnswers
<1>3. CASE AdapterInitialized(g)
  <2>1. "initialized" \in Messages /\ Emit(g, "initialized")
    BY <1>3 DEF AdapterInitialized, Messages
  <2>2. adapter' \in [Sessions -> AdapterType]
    BY <1>3 DEF WireOK, AdapterType, AdapterInitialized
  <2>3. QED
    BY <2>1, <2>2, <1>1, <1>3 DEF HandlersOK, WireOK, AdapterInitialized
<1>4. ASSUME NEW m \in Messages, AdapterEmits(g, m) PROVE ProgramOK'
  <2>1. Emit(g, m)
    BY <1>4 DEF AdapterEmits
  <2>2. spent' \in [requests : 0..MaxRequests, events : 0..MaxEvents]
    BY <1>4, BoundsAssumption DEF HandlersOK, AdapterEmits
  <2>3. QED
    BY <2>1, <2>2, <1>1, <1>4 DEF HandlersOK, WireOK, AdapterEmits
<1>5. CASE AdapterEnds(g)
  <2>1. WireOK'
    BY <1>5, BlankType DEF WireOK, AdapterEnds
  <2>2. QED
    BY <2>1, <1>5, AppSame, HandlersSame, ReadersSame DEF AdapterEnds
<1>6. QED
  BY <1>2, <1>3, <1>4, <1>5 DEF AdapterStep

\* The history of the pauses: counts go up, and those of the requests on their
\* way, which are finitely many, move on to the next session.
LEMMA PausesType ==
    ASSUME PausesOK, [Next]_vars
    PROVE  PausesOK'
<1>1. \/ pauses' = pauses
      \/ pauses' = PauseAsked(Upcoming)
      \/ pauses' = PausesMove
      \/ \E g, cmds : pauses' = PauseSent(g, cmds)
  BY DEF Next, vars, RequestArrives, EnsureActiveAdapter, AttachResets, StopRequested,
         StopLocks, CommandStep, SelectThread, SendCommand, SendOnNil, Panic,
         AttachStep, AttachBegins, AttachFails, AttachSucceeds, StopStep, StopSevers,
         StopFinishes, CloseServer, ServeEnds, ServeReturns, ReaderStep, ReaderLoads,
         ReaderFindsNil, ReaderReceives, ReaderTears, ReaderEnds, ReaderApplies,
         ReaderSendsOnNil, ReaderStale, ReaderFinalizes, WaiterStep, WaiterReaps,
         WaiterCloses, WaiterClosesNil, WaiterClosesTwice, WaiterFinalizes,
         AdapterStep, AdapterAnswers, AdapterInitialized, AdapterEmits, AdapterEnds
<1>2. Cardinality(PausesUnderWay) \in Nat
  <2>1. PausesUnderWay \subseteq Handlers
    BY DEF PausesUnderWay
  <2>2. QED
    BY <2>1, HandlersAssumption, FS_Subset, FS_CardinalityType
<1>3. QED
  BY <1>1, <1>2 DEF PausesOK, PauseAsked, PausesMove, PauseSent

-----------------------------------------------------------------------------
(* Every step keeps the lock and the client *)

\* p takes dapMu when it is free, keeps it, or lets it go.
LEMMA LockMoves ==
    ASSUME LockInv, HandlersOK, HandlersAssumption, NEW p \in Goroutines,
           NEW label \in Places, NEW what, Goto(p, label, what),
           \/ dapMu = Free /\ dapMu' = p
           \/ pc[p] \in Holding /\ dapMu' = dapMu
           \/ pc[p] \in Holding /\ dapMu' = Free /\ label \notin Holding
           \/ dapMu' = dapMu /\ label \notin Holding
    PROVE  LockInv'
<1>1. pc'[p] = label /\ \A q \in Goroutines : q # p => pc'[q] = pc[q]
  BY DEF HandlersOK, Goto
<1>2. QED
  BY <1>1, HandlersAssumption DEF LockInv

\* Two goroutines are never both inside StartAttach or StopSession, and nobody
\* is there while dapMu is free.
LEMMA Exclusion ==
    ASSUME LockInv, HandlersAssumption
    PROVE  /\ \A p, q \in Goroutines :
                pc[p] \in Holding /\ pc[q] \in Holding => p = q
           /\ dapMu = Free => \A p \in Goroutines : pc[p] \notin Holding
  BY HandlersAssumption DEF LockInv

\* A step that opens no session and reaches no adapter, though it may lose one.
LEMMA Frame ==
    ASSUME ClientInv, FutureInv,
           session'.id = session.id,
           \A g \in Sessions : /\ link[g] = "none" <=> link'[g] = "none"
                               /\ reader[g].pc = "none" => reader'[g].pc = "none",
           \/ app'.dap = app.dap /\ app'.conn \in {app.conn, Nil}
           \/ app'.dap = Nil /\ app'.conn = Nil,
           app.dap \in {Nil} \cup Sessions,
           \A p \in Goroutines : pc'[p] \in {"reaping", "attaching"} => pc'[p] = pc[p]
    PROVE  ClientInv' /\ FutureInv'
  BY DEF ClientInv, FutureInv

\* A step that moves no reader into or inside its stream.
LEMMA ReaderFrame ==
    ASSUME ReaderInv, session'.id = session.id, UNCHANGED reader
    PROVE  ReaderInv'
  BY DEF ReaderInv

\* Severing drops no link and invents none: what is severed is attached.
LEMMA SeverLinks ==
    ASSUME TypeOK, ClientInv, Sever
    PROVE  \A g \in Sessions : link[g] = "none" <=> link'[g] = "none"
  BY DEF TypeOK, ProgramOK, WireOK, ClientInv, Sever, Sessions, Nil

LEMMA CommandControl ==
    ASSUME IInv, NEW p \in Handlers,
           (\E r \in Requests : EnsureActiveAdapter(p, r)) \/ CommandStep(p)
    PROVE  LockInv' /\ ClientInv' /\ FutureInv' /\ ReaderInv'
<1>1. p \in Goroutines
  BY DEF Goroutines
<1>2. CASE SendOnNil(p)
  BY <1>2
  DEF IInv, LockInv, ClientInv, FutureInv, ReaderInv, SendOnNil, Panic, codeVars,
      handlerVars, wireVars
<1>3. CASE (\E r \in Requests : EnsureActiveAdapter(p, r)) \/ SelectThread(p)
           \/ SendCommand(p)
  <2>0. PICK label \in {"checked", "sending", "idle"} : \E what : Goto(p, label, what)
    BY <1>3 DEF EnsureActiveAdapter, SelectThread, SendCommand, Return
  <2>1. PICK what : Goto(p, label, what)
    BY <2>0
  <2>2. UNCHANGED <<dapMu, session, reader, link>>
    BY <1>3 DEF EnsureActiveAdapter, SelectThread, SendCommand, codeVars, wireVars
  <2>3. app'.dap = app.dap /\ app'.conn = app.conn
    BY <1>3
    DEF IInv, TypeOK, ProgramOK, AppOK, AppType, EnsureActiveAdapter,
        SelectThread, SendCommand, codeVars
  <2>4. LockInv'
    BY <1>1, <2>1, <2>2, LockMoves, HandlersAssumption
    DEF IInv, TypeOK, ProgramOK, Places, Holding
  <2>5. \A q \in Goroutines : pc'[q] \in {"reaping", "attaching"} => pc'[q] = pc[q]
    BY <1>1, <2>1 DEF IInv, TypeOK, ProgramOK, HandlersOK, Goto
  <2>6. ClientInv' /\ FutureInv'
    BY <2>2, <2>3, <2>5, Frame DEF IInv, TypeOK, ProgramOK, AppOK, AppType
  <2>7. QED
    BY <2>2, <2>4, <2>6, ReaderFrame DEF IInv
<1>4. QED
  BY <1>2, <1>3 DEF CommandStep

LEMMA AttachControl ==
    ASSUME IInv, NEW p \in Handlers,
           (\E r \in Requests : AttachResets(p, r)) \/ AttachStep(p)
    PROVE  LockInv' /\ ClientInv' /\ FutureInv' /\ ReaderInv'
<1>1. /\ p \in Goroutines
      /\ TypeOK /\ AppOK /\ HandlersOK /\ ReadersOK /\ WireOK
      /\ LockInv /\ ClientInv /\ FutureInv /\ ReaderInv
      /\ session.id \in Int /\ Nil \notin Sessions
      /\ \A g \in Sessions : g \in Int
  BY BoundsAssumption
  DEF Goroutines, IInv, TypeOK, ProgramOK, AppOK, SessionType, Sessions, Nil
<1>2. ASSUME NEW r \in Requests, AttachResets(p, r)
      PROVE  LockInv' /\ ClientInv' /\ FutureInv' /\ ReaderInv'
  <2>1. /\ pc'[p] = "reaping"
        /\ \A q \in Goroutines : q # p => pc'[q] = pc[q]
        /\ LockInv'
    BY <1>1, <1>2, LockMoves, HandlersAssumption
    DEF AttachResets, Goto, HandlersOK, Places
  <2>2. \A q \in Goroutines : pc[q] \notin Holding
    BY <1>1, <1>2, Exclusion, HandlersAssumption DEF AttachResets
  <2>3. \A g \in Sessions : link[g] = "none" <=> link'[g] = "none"
    BY <1>1, <1>2, SeverLinks DEF AttachResets
  <2>4. app'.dap = app.dap /\ app'.conn = Nil
    BY <1>2 DEF AttachResets, Detached
  <2>5. UNCHANGED <<session, reader>>
    BY <1>2 DEF AttachResets
  <2>6. ClientInv'
    BY <1>1, <2>3, <2>4, <2>5 DEF ClientInv, AppOK, AppType
  <2>7. FutureInv'
    BY <1>1, <1>2, <2>1, <2>2, <2>3, <2>4, <2>5
    DEF FutureInv, AttachResets, Holding
  <2>8. QED
    BY <1>1, <2>1, <2>5, <2>6, <2>7, ReaderFrame
<1>3. CASE AttachBegins(p)
  <2>1. /\ pc'[p] = "attaching"
        /\ \A q \in Goroutines : q # p => pc'[q] = pc[q]
        /\ LockInv'
    BY <1>1, <1>3, LockMoves, HandlersAssumption
    DEF AttachBegins, Goto, HandlersOK, Places, Holding
  <2>2. \A q \in Goroutines : q # p => pc[q] \notin Holding
    BY <1>1, <1>3, Exclusion, HandlersAssumption DEF AttachBegins, Holding
  <2>3. session'.id = session.id + 1 /\ session'.id \in Sessions
    BY <1>1, <1>3, BoundsAssumption
    DEF FutureInv, AttachBegins, AppOK, SessionType, Sessions
  <2>4. app'.dap = Nil /\ app'.conn = Nil
    BY <1>1, <1>3 DEF AttachBegins, AppOK, AppType, FutureInv
  <2>5. UNCHANGED <<reader, link>>
    BY <1>3 DEF AttachBegins, wireVars
  <2>6. ClientInv'
    BY <2>4 DEF ClientInv
  <2>7. FutureInv'
    BY <1>1, <2>1, <2>2, <2>3, <2>4, <2>5 DEF FutureInv, Holding
  <2>8. ReaderInv'
    <3>1. \A r \in Sessions : reader[r].client \in Int
      BY <1>1 DEF ReadersOK, ReaderType, Nil
    <3>2. QED
      BY <1>1, <2>3, <2>5, <3>1 DEF ReaderInv
  <2>9. QED
    BY <2>1, <2>6, <2>7, <2>8
<1>4. CASE AttachFails(p)
  <2>1. /\ pc'[p] = "idle"
        /\ \A q \in Goroutines : q # p => pc'[q] = pc[q]
        /\ LockInv'
    BY <1>1, <1>4, LockMoves, HandlersAssumption
    DEF AttachFails, Return, Goto, HandlersOK, Places, Holding
  <2>2. UNCHANGED <<session, reader, link, app>>
    BY <1>4 DEF AttachFails, codeVars, wireVars
  <2>3. ClientInv' /\ FutureInv'
    BY <1>1, <2>1, <2>2, Frame DEF AppOK, AppType
  <2>4. QED
    BY <1>1, <2>1, <2>2, <2>3, ReaderFrame
<1>5. ASSUME NEW ok \in BOOLEAN, AttachSucceeds(p, ok)
      PROVE  LockInv' /\ ClientInv' /\ FutureInv' /\ ReaderInv'
  <2>1. /\ pc'[p] = "idle"
        /\ \A q \in Goroutines : q # p => pc'[q] = pc[q]
        /\ LockInv'
    BY <1>1, <1>5, LockMoves, HandlersAssumption
    DEF AttachSucceeds, Return, Goto, HandlersOK, Places, Holding
  <2>2. \A q \in Goroutines : q # p => pc[q] \notin Holding
    BY <1>1, <1>5, Exclusion, HandlersAssumption DEF AttachSucceeds, Holding
  <2>3. session.id \in Sessions /\ session' = session
    BY <1>1, <1>5 DEF FutureInv, AttachSucceeds
  <2>4. app'.dap = session.id /\ app'.conn \in {Nil, app.conn, session.id}
    BY <1>1, <1>5 DEF AttachSucceeds, AppOK, AppType
  <2>5. app.conn = Nil
    BY <1>1, <1>5 DEF AttachSucceeds, FutureInv, ClientInv
  <2>6. /\ link'[session.id] # "none"
        /\ reader'[session.id].pc = "top"
        /\ \A g \in Sessions : g # session.id =>
              link'[g] = link[g] /\ reader'[g] = reader[g]
    BY <1>1, <1>5, <2>3 DEF AttachSucceeds, WireOK, ReadersOK, ReaderType
  <2>7. ClientInv'
    BY <2>3, <2>4, <2>5, <2>6 DEF ClientInv
  <2>8. FutureInv'
    BY <1>1, <2>1, <2>2, <2>3, <2>6 DEF FutureInv, Holding
  <2>9. ReaderInv'
    BY <1>1, <2>3, <2>6 DEF ReaderInv
  <2>10. QED
    BY <2>1, <2>7, <2>8, <2>9
<1>6. QED
  BY <1>2, <1>3, <1>4, <1>5 DEF AttachStep

LEMMA StopControl ==
    ASSUME IInv,
           \/ \E p \in Handlers, r \in Requests : StopRequested(p, r)
           \/ \E p \in Goroutines : StopStep(p)
           \/ ServeEnds
           \/ ServeReturns
    PROVE  LockInv' /\ ClientInv' /\ FutureInv' /\ ReaderInv'
<1>1. /\ TypeOK /\ AppOK /\ HandlersOK /\ ReadersOK /\ WireOK
      /\ LockInv /\ ClientInv /\ FutureInv /\ ReaderInv
      /\ app.dap \in {Nil} \cup Sessions
  BY DEF IInv, TypeOK, ProgramOK, AppOK, AppType
<1>2. CASE ServeReturns
  BY <1>1, <1>2
  DEF LockInv, ClientInv, FutureInv, ReaderInv, ServeReturns, codeVars, handlerVars,
      wireVars
<1>3. ASSUME NEW p \in Goroutines, StopLocks(p), NEW what,
             Goto(p, "disconnecting", what)
      PROVE  LockInv' /\ ClientInv' /\ FutureInv' /\ ReaderInv'
  <2>1. LockInv'
    BY <1>1, <1>3, LockMoves, HandlersAssumption DEF StopLocks, Places
  <2>2. \A q \in Goroutines : pc'[q] \in {"reaping", "attaching"} => pc'[q] = pc[q]
    BY <1>1, <1>3 DEF HandlersOK, Goto
  <2>3. UNCHANGED <<app, session, reader, link>>
    BY <1>3 DEF StopLocks, codeVars
  <2>4. ClientInv' /\ FutureInv'
    BY <1>1, <2>2, <2>3, Frame
  <2>5. QED
    BY <1>1, <2>1, <2>3, <2>4, ReaderFrame
<1>4. ASSUME NEW p \in Goroutines, StopSevers(p)
      PROVE  LockInv' /\ ClientInv' /\ FutureInv' /\ ReaderInv'
  <2>1. LockInv'
    BY <1>1, <1>4, LockMoves, HandlersAssumption DEF StopSevers, Places, Holding
  <2>2. \A q \in Goroutines : pc'[q] \in {"reaping", "attaching"} => pc'[q] = pc[q]
    BY <1>1, <1>4 DEF HandlersOK, StopSevers, Goto
  <2>3. \A g \in Sessions : link[g] = "none" <=> link'[g] = "none"
    BY <1>1, <1>4, SeverLinks DEF StopSevers
  <2>4. app'.dap = app.dap /\ app'.conn = Nil
    BY <1>1, <1>4 DEF StopSevers, AppOK, AppType
  <2>5. UNCHANGED <<session, reader>>
    BY <1>4 DEF StopSevers
  <2>6. ClientInv' /\ FutureInv'
    BY <1>1, <2>2, <2>3, <2>4, <2>5, Frame
  <2>7. QED
    BY <1>1, <2>1, <2>5, <2>6, ReaderFrame
<1>5. ASSUME NEW p \in Goroutines, StopFinishes(p)
      PROVE  LockInv' /\ ClientInv' /\ FutureInv' /\ ReaderInv'
  <2>0. PICK label \in {"idle", "closing", "leaving"} : \E what : Goto(p, label, what)
    BY <1>5 DEF StopFinishes, Return
  <2>1. PICK what : Goto(p, label, what)
    BY <2>0
  <2>2. LockInv'
    BY <1>1, <1>5, <2>1, LockMoves, HandlersAssumption
    DEF StopFinishes, Places, Holding
  <2>3. \A q \in Goroutines : pc'[q] \in {"reaping", "attaching"} => pc'[q] = pc[q]
    BY <1>1, <2>1 DEF HandlersOK, Goto
  <2>4. app'.dap = Nil /\ app'.conn = Nil /\ session'.id = session.id
    BY <1>1, <1>5 DEF StopFinishes, Finalize, Detached, AppOK, SessionType
  <2>5. UNCHANGED <<reader, link>>
    BY <1>5 DEF StopFinishes, wireVars
  <2>6. ClientInv' /\ FutureInv'
    BY <1>1, <2>3, <2>4, <2>5, Frame
  <2>7. QED
    BY <1>1, <2>2, <2>4, <2>5, <2>6, ReaderFrame
<1>6. ASSUME NEW p \in Goroutines, CloseServer(p)
      PROVE  LockInv' /\ ClientInv' /\ FutureInv' /\ ReaderInv'
  <2>1. LockInv'
    BY <1>1, <1>6, LockMoves, HandlersAssumption
    DEF CloseServer, Return, Places, Holding
  <2>2. \A q \in Goroutines : pc'[q] \in {"reaping", "attaching"} => pc'[q] = pc[q]
    BY <1>1, <1>6 DEF HandlersOK, CloseServer, Return, Goto
  <2>3. UNCHANGED <<app, session, reader, link>>
    BY <1>6 DEF CloseServer, wireVars
  <2>4. ClientInv' /\ FutureInv'
    BY <1>1, <2>2, <2>3, Frame
  <2>5. QED
    BY <1>1, <2>1, <2>3, <2>4, ReaderFrame
<1>7. QED
  BY <1>2, <1>3, <1>4, <1>5, <1>6
  DEF StopRequested, StopStep, ServeEnds, Goroutines

\* Readers, waiters and adapters leave the lock alone, open no session and
\* reach no adapter.
LEMMA StreamFrame ==
    ASSUME IInv, NEW g \in Sessions,
           ReaderStep(g) \/ WaiterStep(g) \/ AdapterStep(g)
    PROVE  /\ UNCHANGED <<dapMu, pc>>
           /\ session'.id = session.id
           /\ \/ app'.dap = app.dap /\ app'.conn = app.conn
              \/ app'.dap = Nil /\ app'.conn = Nil
           /\ \A r \in Sessions : link[r] = "none" <=> link'[r] = "none"
<1>1. /\ TypeOK /\ AppOK /\ HandlersOK /\ ReadersOK /\ WireOK
      /\ LockInv /\ ClientInv /\ FutureInv /\ ReaderInv
      /\ app.dap \in {Nil} \cup Sessions
  BY DEF IInv, TypeOK, ProgramOK, AppOK, AppType
<1>2. UNCHANGED <<dapMu, pc>>
  BY DEF ReaderStep, ReaderLoads, ReaderFindsNil, ReaderReceives, ReaderTears,
     ReaderEnds, ReaderApplies, ReaderSendsOnNil, ReaderStale, ReaderFinalizes,
     WaiterStep, WaiterReaps, WaiterCloses, WaiterClosesNil, WaiterClosesTwice,
     WaiterFinalizes, AdapterStep, AdapterAnswers, AdapterInitialized, AdapterEmits,
     AdapterEnds, Emit, Panic, handlerVars
<1>3. /\ session'.id = session.id
      /\ \/ app'.dap = app.dap /\ app'.conn = app.conn
         \/ app'.dap = Nil /\ app'.conn = Nil
  <2>1. CASE ReaderApplies(g)
    BY <1>1, <2>1, AfterType DEF ReaderApplies
  <2>2. CASE ReaderFinalizes(g) \/ WaiterFinalizes(g)
    <3>1. Finalize("exited") \/ UNCHANGED <<app, session>>
      BY <2>2 DEF ReaderFinalizes, WaiterFinalizes
    <3>2. "exited" \in Lifecycles
      BY DEF Lifecycles, Terminal
    <3>3. CASE Finalize("exited")
      <4>1. app' = Detached /\ session'.id = session.id
        BY <1>1, <3>2, <3>3, FinalizeType
      <4>2. QED
        BY <4>1 DEF Detached
    <3>4. QED
      BY <3>1, <3>3
  <2>3. CASE UNCHANGED <<app, session>>
    BY <2>3
  <2>4. ReaderApplies(g) \/ ReaderFinalizes(g) \/ WaiterFinalizes(g)
        \/ UNCHANGED <<app, session>>
    BY DEF ReaderStep, ReaderLoads, ReaderFindsNil, ReaderReceives, ReaderTears,
       ReaderEnds, ReaderSendsOnNil, ReaderStale, WaiterStep, WaiterReaps,
       WaiterCloses, WaiterClosesNil, WaiterClosesTwice, AdapterStep,
       AdapterAnswers, AdapterInitialized, AdapterEmits, AdapterEnds, Emit, Panic,
       codeVars
  <2>5. QED
    BY <2>1, <2>2, <2>3, <2>4
<1>4. \A r \in Sessions : link[r] = "none" <=> link'[r] = "none"
  <2>1. CASE WaiterReaps(g) \/ AdapterEnds(g)
    BY <1>1, <2>1 DEF WaiterReaps, AdapterEnds, WireOK
  <2>2. WaiterReaps(g) \/ AdapterEnds(g) \/ UNCHANGED link
    BY DEF ReaderStep, ReaderLoads, ReaderFindsNil, ReaderReceives, ReaderTears,
       ReaderEnds, ReaderApplies, ReaderSendsOnNil, ReaderStale, ReaderFinalizes,
       WaiterStep, WaiterCloses, WaiterClosesNil, WaiterClosesTwice,
       WaiterFinalizes, AdapterStep, AdapterAnswers, AdapterInitialized,
       AdapterEmits, Emit, Panic, wireVars
  <2>3. QED
    BY <2>1, <2>2
<1>5. QED
  BY <1>2, <1>3, <1>4

\* A reader takes up the current client, which is its own or a newer one.
LEMMA StreamControl ==
    ASSUME IInv, NEW g \in Sessions,
           ReaderStep(g) \/ WaiterStep(g) \/ AdapterStep(g)
    PROVE  LockInv' /\ ClientInv' /\ FutureInv' /\ ReaderInv'
<1>1. /\ TypeOK /\ AppOK /\ HandlersOK /\ ReadersOK /\ WireOK
      /\ LockInv /\ ClientInv /\ FutureInv /\ ReaderInv
      /\ app.dap \in {Nil} \cup Sessions
  BY DEF IInv, TypeOK, ProgramOK, AppOK, AppType
<1>2. session.id \in Int /\ \A r \in Sessions : r \in Int
  BY <1>1, BoundsAssumption DEF AppOK, SessionType, Sessions
<1>3. /\ UNCHANGED <<dapMu, pc>>
      /\ session'.id = session.id
      /\ \/ app'.dap = app.dap /\ app'.conn = app.conn
         \/ app'.dap = Nil /\ app'.conn = Nil
      /\ \A r \in Sessions : link[r] = "none" <=> link'[r] = "none"
  BY StreamFrame
<1>4. LockInv'
  BY <1>1, <1>3 DEF LockInv
<1>5. /\ \A r \in Sessions : reader[r].pc = "none" => reader'[r].pc = "none"
      /\ ReaderInv'
  <2>1. CASE UNCHANGED reader
    BY <1>1, <1>3, <2>1, ReaderFrame
  <2>2. CASE ReaderLoads(g)
    <3>1. /\ g <= session.id
          /\ app.dap = session.id
      BY <1>2, <1>1, <2>2 DEF ReaderLoads, FutureInv, ClientInv
    <3>2. QED
      BY <1>2, <1>1, <1>3, <2>2, <3>1 DEF ReaderLoads, ReaderInv, ReadersOK, ReaderType
  <2>3. CASE ReaderReceives(g) \/ ReaderTears(g) \/ ReaderEnds(g) \/ ReaderStale(g)
             \/ ReaderFinalizes(g)
    <3>1. /\ \A r \in Sessions : r # g => reader'[r] = reader[r]
          /\ reader[g].pc # "none"
          /\ \/ reader'[g].pc \in {"broken", "done"}
             \/ /\ reader[g].pc = "reading"
                /\ reader'[g].client = reader[g].client
      BY <1>1, <2>3
      DEF ReaderReceives, ReaderTears, ReaderEnds, ReaderStale, ReaderFinalizes,
          ReadersOK, ReaderType
    <3>2. QED
      BY <1>1, <1>3, <3>1 DEF ReaderInv
  <2>4. CASE ReaderApplies(g)
    BY <1>1, <1>3, <2>4
    DEF ReaderApplies, ReaderInv, ReadersOK, ReaderType, NoReader
  <2>5. \/ UNCHANGED reader
        \/ ReaderLoads(g) \/ ReaderReceives(g) \/ ReaderTears(g) \/ ReaderEnds(g)
        \/ ReaderStale(g) \/ ReaderFinalizes(g) \/ ReaderApplies(g)
    BY DEF ReaderStep, ReaderFindsNil, ReaderSendsOnNil, WaiterStep, WaiterReaps,
       WaiterCloses, WaiterClosesNil, WaiterClosesTwice, WaiterFinalizes,
       AdapterStep, AdapterAnswers, AdapterInitialized, AdapterEmits, AdapterEnds,
       Emit, Panic
  <2>6. QED
    BY <2>1, <2>2, <2>3, <2>4, <2>5
<1>6. ClientInv' /\ FutureInv'
  BY <1>1, <1>3, <1>5, Frame
<1>7. QED
  BY <1>4, <1>5, <1>6

-----------------------------------------------------------------------------
(* The theorems *)

\* The inductive invariant holds initially.
LEMMA InitInvariant == Init => IInv
<1> SUFFICES ASSUME Init PROVE IInv
  OBVIOUS
<1>1. AppOK
  BY DetachedType DEF Init, AppOK, SessionType, Lifecycles
<1>2. HandlersOK
  BY BoundsAssumption DEF Init, HandlersOK, Places
<1>3. ReadersOK
  BY DEF Init, ReadersOK, ReaderType, NoReader
<1>4. WireOK
  BY BlankType DEF Init, WireOK
<1>4a. PausesOK
  BY DEF Init, PausesOK
<1>5. LockInv /\ ClientInv
  BY DEF Init, LockInv, ClientInv, Holding, Detached
<1>6. FutureInv /\ ReaderInv
  BY DEF Init, FutureInv, ReaderInv, NoReader
<1>7. QED
  BY <1>1, <1>2, <1>3, <1>4, <1>4a, <1>5, <1>6 DEF IInv, TypeOK, ProgramOK

\* Every step keeps the inductive invariant.
LEMMA NextInvariant == IInv /\ [Next]_vars => IInv'
<1> SUFFICES ASSUME IInv, [Next]_vars PROVE IInv'
  OBVIOUS
<1>1. /\ ProgramOK /\ FutureInv /\ ReaderInv
      /\ PausesOK' /\ (ProgramOK' => TypeOK')
  BY PausesType DEF IInv, TypeOK
<1>2. ASSUME NEW p \in Handlers,
             (\E r \in Requests : EnsureActiveAdapter(p, r)) \/ CommandStep(p)
      PROVE  IInv'
  BY <1>1, <1>2, CommandTypes, CommandControl DEF IInv
<1>3. ASSUME NEW p \in Handlers,
             (\E r \in Requests : AttachResets(p, r)) \/ AttachStep(p)
      PROVE  IInv'
  BY <1>1, <1>3, AttachTypes, AttachControl DEF IInv
<1>4. CASE \/ \E p \in Handlers, r \in Requests : StopRequested(p, r)
           \/ \E p \in Goroutines : StopStep(p)
           \/ ServeEnds
           \/ ServeReturns
  BY <1>1, <1>4, StopTypes, StopControl DEF IInv
<1>5. ASSUME NEW g \in Sessions, ReaderStep(g) \/ WaiterStep(g) \/ AdapterStep(g)
      PROVE  IInv'
  BY <1>1, <1>5, ReaderTypes, WaiterTypes, AdapterTypes, StreamControl DEF IInv
<1>6. CASE UNCHANGED vars
  BY <1>6
  DEF vars, IInv, TypeOK, ProgramOK, AppOK, HandlersOK, ReadersOK, WireOK, PausesOK,
      LockInv, ClientInv, FutureInv, ReaderInv
<1>7. QED
  BY <1>2, <1>3, <1>4, <1>5, <1>6 DEF Next, RequestArrives

THEOREM Invariance == Spec => []IInv
<1>1. QED
  BY InitInvariant, NextInvariant, PTL DEF Spec

\* A message that a reader handles came from the adapter of the reader's own
\* session, although the reader may have been reading a newer session's client.
THEOREM OwnMessages == Spec => OwnMessagesOnly
<1> DEFINE Own == \A r \in Sessions :
             reader[r].pc = "got" /\ reader'[r].pc = "top" => reader[r].client = r
<1>1. ASSUME IInv, Next, NEW r \in Sessions,
             reader[r].pc = "got", reader'[r].pc = "top"
      PROVE  reader[r].client = r
  <2>1. /\ ReadersOK /\ FutureInv /\ ReaderInv
        /\ session.id \in Int /\ r \in Int
        /\ reader[r].client \in Int
    BY <1>1, BoundsAssumption
    DEF IInv, TypeOK, ProgramOK, AppOK, SessionType, ReadersOK, ReaderType, Sessions,
        Nil
  <2>2. reader' # reader
    BY <1>1
  <2>3. CASE \E p \in Handlers : RequestArrives(p) \/ CommandStep(p) \/ AttachStep(p)
    <3>1. PICK p \in Handlers, ok \in BOOLEAN : AttachSucceeds(p, ok)
      BY <2>2, <2>3
      DEF RequestArrives, EnsureActiveAdapter, AttachResets, StopRequested, StopLocks,
          CommandStep, SelectThread, SendCommand, SendOnNil, AttachStep, AttachBegins,
          AttachFails, Panic
    <3>2. p \in Goroutines /\ pc[p] = "attaching"
      BY <3>1 DEF AttachSucceeds, Goroutines
    <3>3. reader[session.id].pc = "none" /\ reader'[r] = reader[r]
      BY <1>1, <2>1, <3>1, <3>2 DEF FutureInv, AttachSucceeds, ReadersOK, ReaderType
    <3>4. QED
      BY <1>1, <3>3
  <2>4. CASE \E g \in Sessions : ReaderStep(g)
    <3>1. PICK g \in Sessions : ReaderStep(g)
      BY <2>4
    <3>2. g = r
      BY <1>1, <2>1, <3>1
      DEF ReaderStep, ReaderLoads, ReaderFindsNil, ReaderReceives, ReaderTears,
          ReaderEnds, ReaderApplies, ReaderSendsOnNil, ReaderStale, ReaderFinalizes,
          Panic, ReadersOK, ReaderType
    <3>3. ReaderApplies(r)
      <4>1. ReaderStep(r)
        BY <3>1, <3>2
      <4>2. reader[r] \in ReaderType
        BY <2>1 DEF ReadersOK
      <4>3. ~ReaderSendsOnNil(r) /\ ~ReaderStale(r)
        <5>1. ~ReaderSendsOnNil(r)
          BY <2>2 DEF ReaderSendsOnNil, Panic
        <5>2. ReaderStale(r) => reader'[r].pc = "done"
          BY <2>1, <4>2 DEF ReaderStale, ReadersOK, ReaderType
        <5>3. QED
          BY <1>1, <5>1, <5>2
      <4>4. QED
        BY <1>1, <4>1, <4>3
        DEF ReaderStep, ReaderLoads, ReaderFindsNil, ReaderReceives, ReaderTears,
            ReaderEnds, ReaderFinalizes
    <3>4. QED
      BY <1>1, <2>1, <3>3 DEF ReaderApplies, IsCurrent, ReaderInv
  <2>5. \/ \E p \in Handlers : RequestArrives(p) \/ CommandStep(p) \/ AttachStep(p)
        \/ \E g \in Sessions : ReaderStep(g)
    BY <1>1, <2>2
    DEF Next, StopStep, StopSevers, StopFinishes, CloseServer, ServeEnds, StopLocks,
        ServeReturns, WaiterStep, WaiterReaps, WaiterCloses, WaiterClosesNil,
        WaiterClosesTwice, WaiterFinalizes, AdapterStep, AdapterAnswers,
        AdapterInitialized, AdapterEmits, AdapterEnds, Emit, Panic
  <2>6. QED
    BY <2>3, <2>4, <2>5
<1>2. IInv /\ [Next]_vars => [Own]_vars
  BY <1>1
<1>3. QED
  BY <1>2, Invariance, PTL DEF Spec, OwnMessagesOnly

\* A step that neither opens a session nor reaches an adapter is a stutter of
\* SessionEpochs, or loses the adapter.
LEMMA PhaseFrame ==
    ASSUME IInv, session'.id = session.id,
           app'.dap \in {app.dap, Nil},
           \A g \in Sessions : link[g] = "none" <=> link'[g] = "none"
    PROVE  UNCHANGED <<session.id, Phase>> \/ Epochs!Lose
<1>1. app.dap # Nil => app.dap = session.id /\ session.id \in Sessions
                       /\ link[session.id] # "none"
  BY DEF IInv, TypeOK, ProgramOK, AppOK, AppType, ClientInv
<1>2. CASE app'.dap = app.dap
  BY <1>2 DEF Phase
<1>3. CASE app'.dap = Nil
  BY <1>1, <1>3 DEF Phase, Epochs!Lose
<1>4. QED
  BY <1>2, <1>3

\* DebugSession implements SessionEpochs.
THEOREM Refinement == Spec => FollowsEpochs
<1>1. Init => Epochs!Init
  <2> SUFFICES ASSUME Init PROVE Epochs!Init
    OBVIOUS
  <2>1. session.id = 0 /\ app.dap = Nil
    BY DEF Init, Detached
  <2>2. 0 \notin Sessions
    BY BoundsAssumption DEF Sessions
  <2>3. QED
    BY <2>1, <2>2 DEF Epochs!Init, Phase
<1>2. ASSUME IInv, [Next]_vars
      PROVE  [Epochs!Next]_<<session.id, Phase>>
  <2>1. TypeOK /\ LockInv /\ ClientInv /\ FutureInv
    BY <1>2 DEF IInv
  <2>2. \A p \in Handlers : p \in Goroutines
    BY DEF Goroutines
  <2>3. ASSUME NEW p \in Handlers, AttachBegins(p)
        PROVE  Epochs!Renew
    <3>1. session'.id = session.id + 1 /\ link' = link
      BY <2>3 DEF AttachBegins, wireVars
    <3>2. session.id < session'.id
      BY <2>1, <3>1, BoundsAssumption
      DEF TypeOK, ProgramOK, AppOK, SessionType, Sessions
    <3>3. app'.dap = Nil
      BY <2>1, <2>3 DEF AttachBegins, TypeOK, ProgramOK, AppOK, AppType
    <3>4. Phase' = "fresh"
      BY <2>1, <3>1, <3>2, <3>3 DEF Phase, FutureInv
    <3>5. QED
      BY <3>1, <3>4 DEF Epochs!Renew
  <2>4. ASSUME NEW p \in Handlers, NEW ok \in BOOLEAN, AttachSucceeds(p, ok)
        PROVE  Epochs!Attach
    <3>1. /\ session.id \in Sessions /\ link[session.id] = "none" /\ app.dap = Nil
          /\ session' = session
      BY <2>1, <2>2, <2>4 DEF AttachSucceeds, FutureInv
    <3>2. app'.dap = session.id
      BY <2>1, <2>4 DEF AttachSucceeds, TypeOK, ProgramOK, AppOK, AppType
    <3>3. session.id # Nil
      BY <3>1, BoundsAssumption DEF Sessions, Nil
    <3>4. Phase = "fresh" /\ Phase' = "attached"
      BY <3>1, <3>2, <3>3 DEF Phase
    <3>5. QED
      BY <3>1, <3>4 DEF Epochs!Attach
  <2>5. ASSUME \A p \in Handlers :
                 ~AttachBegins(p) /\ \A ok \in BOOLEAN : ~AttachSucceeds(p, ok)
        PROVE  UNCHANGED <<session.id, Phase>> \/ Epochs!Lose
    <3>1. CASE \E g \in Sessions : ReaderStep(g) \/ WaiterStep(g) \/ AdapterStep(g)
      BY <1>2, <3>1, StreamFrame, PhaseFrame
    <3>2. CASE \/ \E p \in Handlers, r \in Requests :
                    EnsureActiveAdapter(p, r) \/ StopRequested(p, r)
               \/ \E p \in Handlers : CommandStep(p) \/ AttachFails(p)
               \/ \E p \in Goroutines : CloseServer(p)
               \/ ServeEnds \/ ServeReturns \/ UNCHANGED vars
      <4>1. UNCHANGED <<session, link>> /\ app'.dap = app.dap
        BY <2>1, <3>2
        DEF EnsureActiveAdapter, StopRequested, StopLocks, CommandStep, SelectThread,
            SendCommand, SendOnNil, AttachFails, CloseServer, ServeEnds,
            ServeReturns, Panic, vars, codeVars, wireVars, TypeOK, ProgramOK, AppOK,
            AppType
      <4>2. QED
        BY <1>2, <4>1, PhaseFrame
    <3>3. CASE \/ \E p \in Handlers, r \in Requests : AttachResets(p, r)
               \/ \E p \in Goroutines : StopSevers(p)
      <4>1. session' = session /\ app'.dap = app.dap /\ Sever
        BY <2>1, <3>3
        DEF AttachResets, StopSevers, Detached, TypeOK, ProgramOK, AppOK, AppType
      <4>2. QED
        BY <1>2, <2>1, <4>1, SeverLinks, PhaseFrame
    <3>4. CASE \E p \in Goroutines : StopFinishes(p)
      <4>1. session'.id = session.id /\ app' = Detached /\ link' = link
        BY <2>1, <3>4
        DEF StopFinishes, Finalize, wireVars, TypeOK, ProgramOK, AppOK, SessionType
      <4>2. QED
        BY <1>2, <4>1, PhaseFrame DEF Detached
    <3>5. QED
      BY <1>2, <2>5, <3>1, <3>2, <3>3, <3>4
      DEF Next, RequestArrives, AttachStep, StopStep
  <2>6. QED
    BY <2>3, <2>4, <2>5 DEF Epochs!Next
<1>3. QED
  BY <1>1, <1>2, Invariance, PTL DEF Spec, FollowsEpochs, Epochs!Spec

\* The variables of the daemon keep their shape, however many clients, sessions
\* and messages there are.
THEOREM TypeCorrect == Spec => []TypeOK
<1>1. IInv => TypeOK
  BY DEF IInv
<1>2. QED
  BY <1>1, Invariance, PTL

-----------------------------------------------------------------------------
(* What becomes of the adapters: none is lost hold of, none is declared gone *)
(* that is not, and a daemon without an adapter says so.  The invariants so  *)
(* far are not enough: they say which session the client belongs to, not     *)
(* what a broken reader, a waiter past cmd.Wait or an open stream imply.     *)

\* Only a session that was reached has a reader; one that gave up has an older
\* session, a malformed message or a stream that ended to show for it, and a
\* waiter past cmd.Wait the end of the process.
GoneInv ==
    /\ \A r \in Sessions : reader[r].pc # "none" => link[r] # "none"
    /\ \A r \in Sessions : reader[r].pc = "broken" =>
         \/ r < session.id
         \/ reader[r].msg = "garbage"
         \/ link[r] \in {"finished", "cut"}
    /\ \A g \in Sessions :
         waiter[g] \in {"closing", "locking", "done"} => link[g] = "cut"

\* The process is that of a.dap, the fields are nil once what they held is closed
\* or killed, and what is still connected or running is in
\* a.adapterConn or a.adapterCmd -- or was dropped after a malformed message.
HeldInv ==
    /\ app.cmd # Nil => app.cmd = app.dap
    /\ \A p \in Goroutines :
         pc[p] \in {"reaping", "stopping"} => app.conn = Nil /\ app.cmd = Nil
    /\ \A g \in Sessions : link[g] = "open" =>
         \/ g \in {app.conn, app.cmd}
         \/ /\ app.dap # g
            /\ reader[g].pc = "done"
            /\ reader[g].msg = "garbage"

\* A session without an adapter is over or about to attach, dapMu or not.
OverInv ==
    daemon = "up" /\ app.dap = Nil =>
        \/ session.lifecycle \in {"idle"} \cup Terminal
        \/ \E g \in Sessions :
             /\ g = session.id
             /\ \/ session.lifecycle = "initializing" /\ link[g] = "none"
                \/ reader[g].pc = "top"

SafetyInv == GoneInv /\ HeldInv /\ OverInv

-----------------------------------------------------------------------------
(* Which steps matter *)

\* The steps that touch none of what the invariants relate: commands, panics,
\* locks taken, and messages put into streams.
QuietStep == UNCHANGED <<app, session, reader, waiter, link>>

\* Every other step.
HandlerMoves(p) ==
    \/ SelectThread(p) \/ (\E r \in Requests : AttachResets(p, r))
    \/ AttachBegins(p) \/ (\E ok \in BOOLEAN : AttachSucceeds(p, ok))

ReaderMoves(r) ==
    \/ ReaderLoads(r) \/ ReaderReceives(r) \/ ReaderTears(r) \/ ReaderEnds(r)
    \/ ReaderApplies(r) \/ ReaderStale(r) \/ ReaderFinalizes(r)

LinkMoves(g) ==
    WaiterReaps(g) \/ WaiterCloses(g) \/ WaiterFinalizes(g) \/ AdapterEnds(g)

\* What a quiet step leaves alone.
Rest ==
    /\ QuietStep
    /\ \A p \in Goroutines :
         pc'[p] \in {"reaping", "attaching", "stopping"} => pc'[p] = pc[p]
    /\ daemon' = "up" => daemon = "up"

LEMMA Moves ==
    ASSUME HandlersOK, [Next]_vars
    PROVE  \/ Rest
           \/ \E p \in Handlers : HandlerMoves(p)
           \/ \E p \in Goroutines : StopSevers(p) \/ StopFinishes(p)
           \/ \E g \in Sessions : ReaderMoves(g) \/ LinkMoves(g)
<1>1. ASSUME NEW p \in Handlers,
             \/ \E r \in Requests : EnsureActiveAdapter(p, r) \/ StopRequested(p, r)
             \/ SendCommand(p) \/ AttachFails(p)
      PROVE  Rest
  <2>1. \E label \in {"checked", "disconnecting", "idle"} : \E what : Goto(p, label, what)
    BY <1>1 DEF EnsureActiveAdapter, StopRequested, SendCommand, AttachFails, Return
  <2>2. QuietStep /\ daemon' = daemon
    BY <1>1
    DEF EnsureActiveAdapter, StopRequested, StopLocks, SendCommand, AttachFails,
        QuietStep, codeVars, wireVars
  <2>3. QED
    BY <2>1, <2>2 DEF Rest, Goto, HandlersOK, Goroutines
<1>2. ASSUME NEW p \in Goroutines, CloseServer(p) \/ (p = Serve /\ ServeEnds)
      PROVE  Rest
  <2>1. \E label \in {"disconnecting", "idle"} : \E what : Goto(p, label, what)
    BY <1>2 DEF CloseServer, ServeEnds, Return
  <2>2. QuietStep /\ daemon' = daemon
    BY <1>2 DEF CloseServer, ServeEnds, StopLocks, QuietStep, codeVars, wireVars
  <2>3. QED
    BY <2>1, <2>2 DEF Rest, Goto, HandlersOK
<1>3. CASE \/ \E p \in Handlers : SendOnNil(p)
           \/ \E g \in Sessions : \/ ReaderFindsNil(g) \/ ReaderSendsOnNil(g)
                                  \/ WaiterClosesNil(g) \/ WaiterClosesTwice(g)
  <2>1. PICK what \in Panics : Panic(what)
    BY <1>3
    DEF SendOnNil, ReaderFindsNil, ReaderSendsOnNil, WaiterClosesNil,
        WaiterClosesTwice, Panics
  <2>2. QED
    BY <2>1 DEF Panic, Panics, Rest, QuietStep, codeVars, handlerVars, wireVars
<1>4. CASE ServeReturns \/ UNCHANGED vars
  BY <1>4 DEF ServeReturns, Rest, QuietStep, vars, codeVars, handlerVars, wireVars
<1>5. ASSUME NEW g \in Sessions, AdapterStep(g), ~AdapterEnds(g)
      PROVE  Rest
  <2>1. \E m : Emit(g, m)
    BY <1>5 DEF AdapterStep, AdapterAnswers, AdapterInitialized, AdapterEmits
  <2>2. QED
    BY <2>1 DEF Emit, Rest, QuietStep, codeVars, handlerVars
<1>6. QED
  BY <1>1, <1>2, <1>3, <1>4, <1>5
  DEF Next, RequestArrives, CommandStep, AttachStep, StopStep, ReaderStep, WaiterStep,
      AdapterStep, HandlerMoves, ReaderMoves, LinkMoves, Goroutines

\* The parts of the invariant of DebugSessionProofs, and what they say of numbers.
LEMMA Basics ==
    ASSUME IInv
    PROVE  /\ TypeOK /\ AppOK /\ HandlersOK /\ ReadersOK /\ WireOK /\ PausesOK
           /\ LockInv /\ ClientInv /\ FutureInv /\ ReaderInv
           /\ {app.dap, app.conn, app.cmd} \subseteq {Nil} \cup Sessions
           /\ session.id \in Nat /\ Nil \notin Sessions
           /\ \A g \in Sessions : g \in Nat
           /\ \A p \in Handlers : p \in Goroutines
<1>1. /\ TypeOK /\ AppOK /\ HandlersOK /\ ReadersOK /\ WireOK /\ PausesOK
      /\ LockInv /\ ClientInv /\ FutureInv /\ ReaderInv
  BY DEF IInv, TypeOK, ProgramOK
<1>2. {app.dap, app.conn, app.cmd} \subseteq {Nil} \cup Sessions
  BY <1>1 DEF AppOK, AppType
<1>3. /\ \A g \in Sessions : g \in Nat
      /\ 0 \in Nat /\ Nil \notin Sessions
  BY BoundsAssumption DEF Sessions, Nil
<1>4. session.id \in Nat
  <2>1. session.id \in {0} \cup Sessions
    BY <1>1 DEF AppOK, SessionType
  <2>2. QED
    BY <1>3, <2>1
<1>5. QED
  BY <1>1, <1>2, <1>3, <1>4 DEF Goroutines

\* A stream that was opened stays so until it ends, and then stays ended.
LEMMA LinkForward ==
    ASSUME IInv, [Next]_vars, NEW g \in Sessions
    PROVE  /\ link[g] # "none" => link'[g] # "none"
           /\ link[g] = "cut" => link'[g] = "cut"
           /\ link[g] = "finished" => link'[g] \in {"finished", "cut"}
<1>1. WireOK /\ HandlersOK /\ FutureInv /\ \A p \in Handlers : p \in Goroutines
  BY Basics
<1>2. ASSUME NEW p \in Handlers, NEW ok \in BOOLEAN, AttachSucceeds(p, ok)
      PROVE  g = session.id \/ link'[g] = link[g]
  BY <1>1, <1>2 DEF AttachSucceeds, WireOK
<1>3. ASSUME NEW p \in Handlers, NEW ok \in BOOLEAN, AttachSucceeds(p, ok)
      PROVE  link[session.id] = "none"
  BY <1>1, <1>3 DEF AttachSucceeds, FutureInv
<1>4. ASSUME Sever
      PROVE  link'[g] = IF g = app.conn THEN "cut"
                        ELSE IF g = app.cmd /\ link[g] = "open" THEN "finished"
                        ELSE link[g]
  BY <1>4 DEF Sever
<1>5. ASSUME NEW h \in Sessions, WaiterReaps(h) \/ AdapterEnds(h)
      PROVE  \/ link'[g] = link[g]
             \/ link[g] = "finished" /\ link'[g] = "cut"
             \/ link[g] = "open" /\ link'[g] = "finished"
  BY <1>1, <1>5 DEF WaiterReaps, AdapterEnds, WireOK
<1>6. \/ UNCHANGED link
      \/ Sever
      \/ \E p \in Handlers, ok \in BOOLEAN : AttachSucceeds(p, ok)
      \/ \E h \in Sessions : WaiterReaps(h) \/ AdapterEnds(h)
  BY <1>1, Moves
  DEF Rest, QuietStep, HandlerMoves, ReaderMoves, LinkMoves, SelectThread,
      AttachResets, AttachBegins, StopSevers, StopFinishes, ReaderLoads,
      ReaderReceives, ReaderTears, ReaderEnds, ReaderApplies, ReaderStale,
      ReaderFinalizes, WaiterCloses, WaiterFinalizes, wireVars
<1>7. QED
  BY <1>2, <1>3, <1>4, <1>5, <1>6

\* SessionIDs only grow.
LEMMA SessionForward ==
    ASSUME IInv, [Next]_vars
    PROVE  session'.id \in Nat /\ session.id <= session'.id
<1>1. /\ HandlersOK /\ AppOK /\ session.id \in Nat
      /\ \A p \in Handlers : p \in Goroutines
  BY Basics
<1>2. ASSUME NEW p \in Handlers, AttachBegins(p)
      PROVE  session'.id = session.id + 1
  BY <1>2 DEF AttachBegins
<1>3. ASSUME NEW l, Finalize(l)
      PROVE  session'.id = session.id
  BY <1>1, <1>3 DEF Finalize, AppOK, SessionType
<1>4. ASSUME NEW r, ReaderApplies(r)
      PROVE  session'.id = session.id
  BY <1>1, <1>4, AfterType DEF ReaderApplies
<1>5. \/ UNCHANGED session
      \/ \E p \in Handlers : AttachBegins(p)
      \/ \E l : Finalize(l)
      \/ \E r \in Sessions : ReaderApplies(r)
  BY <1>1, Moves
  DEF Rest, QuietStep, HandlerMoves, ReaderMoves, LinkMoves, SelectThread,
      AttachResets, AttachSucceeds, StopSevers, StopFinishes, ReaderLoads,
      ReaderReceives, ReaderTears, ReaderEnds, ReaderStale, ReaderFinalizes,
      WaiterReaps, WaiterCloses, WaiterFinalizes, AdapterEnds, codeVars
<1>6. QED
  BY <1>1, <1>2, <1>3, <1>4, <1>5

-----------------------------------------------------------------------------
(* Who ends a session *)

LEMMA GoneNext ==
    ASSUME IInv, GoneInv, [Next]_vars
    PROVE  GoneInv'
<1>1. /\ HandlersOK /\ ReadersOK /\ WireOK /\ FutureInv /\ ReaderInv /\ ClientInv
      /\ session.id \in Nat /\ \A g \in Sessions : g \in Nat
      /\ \A p \in Handlers : p \in Goroutines
  BY Basics
<1>2. /\ session'.id \in Nat /\ session.id <= session'.id
      /\ \A g \in Sessions :
           /\ link[g] # "none" => link'[g] # "none"
           /\ link[g] = "cut" => link'[g] = "cut"
           /\ link[g] = "finished" => link'[g] \in {"finished", "cut"}
  BY LinkForward, SessionForward
<1>3. CASE UNCHANGED <<reader, waiter>>
  BY <1>1, <1>2, <1>3 DEF GoneInv
<1>4. ASSUME NEW p \in Handlers, NEW ok \in BOOLEAN, AttachSucceeds(p, ok)
      PROVE  GoneInv'
  <2>1. /\ session.id \in Sessions /\ link[session.id] = "none"
        /\ link'[session.id] # "none"
    BY <1>1, <1>4 DEF FutureInv, AttachSucceeds, WireOK
  <2>2. reader'[session.id].pc = "top" /\ waiter'[session.id] \in
                                             {waiter[session.id], "waiting"}
    BY <1>1, <1>4, <2>1 DEF AttachSucceeds, ReadersOK, ReaderType
  <2>3. \A g \in Sessions : g # session.id =>
            reader'[g] = reader[g] /\ waiter'[g] = waiter[g]
    BY <1>1, <1>4 DEF AttachSucceeds, ReadersOK
  <2>4. QED
    BY <1>1, <1>2, <2>1, <2>2, <2>3 DEF GoneInv
<1>5. ASSUME NEW r \in Sessions, ReaderMoves(r)
      PROVE  GoneInv'
  <2>1. /\ UNCHANGED <<link, waiter>> /\ reader[r].pc # "none"
        /\ \A g \in Sessions : g # r => reader'[g] = reader[g]
    BY <1>1, <1>5
    DEF ReaderMoves, ReaderLoads, ReaderReceives, ReaderTears, ReaderEnds,
        ReaderApplies, ReaderStale, ReaderFinalizes, wireVars, ReadersOK
  <2>2. CASE ReaderEnds(r)
    <3>1. r <= reader[r].client /\ reader[r].client <= session.id
          /\ link[reader[r].client] # "open"
      BY <1>1, <2>2 DEF ReaderEnds, ReaderInv
    <3>2. reader[r].client \in Nat
      BY <1>1 DEF ReadersOK, ReaderType, Nil
    <3>3. ~(r < session.id) => r = session.id /\ reader[r].client = r
      BY <1>1, <3>1, <3>2
    <3>4. link[r] # "none"
      BY <1>1, <2>2 DEF ReaderEnds, GoneInv
    <3>5. link[r] \in {"none", "open", "finished", "cut"}
      BY <1>1 DEF WireOK
    <3>6. r < session'.id \/ link'[r] \in {"finished", "cut"}
      BY <1>1, <1>2, <2>1, <3>1, <3>3, <3>4, <3>5
    <3>7. QED
      BY <1>1, <1>2, <2>1, <3>4, <3>6 DEF GoneInv
  <2>3. CASE ~ReaderEnds(r)
    <3>1. reader'[r].pc = "broken" => reader'[r].msg = "garbage"
      BY <1>1, <1>5, <2>3
      DEF ReaderMoves, ReaderLoads, ReaderReceives, ReaderTears, ReaderApplies,
          ReaderStale, ReaderFinalizes, ReadersOK, ReaderType, NoReader
    <3>2. QED
      BY <1>1, <1>2, <2>1, <3>1 DEF GoneInv
  <2>4. QED
    BY <2>2, <2>3
<1>6. ASSUME NEW g \in Sessions, LinkMoves(g), ~UNCHANGED waiter
      PROVE  GoneInv'
  <2>1. /\ UNCHANGED reader
        /\ \A h \in Sessions : h # g => waiter'[h] = waiter[h]
        /\ \/ waiter[g] \in {"closing", "locking"}
           \/ link'[g] = "cut"
    BY <1>1, <1>6
    DEF LinkMoves, WaiterReaps, WaiterCloses, WaiterFinalizes, AdapterEnds, WireOK,
        ReadersOK
  <2>2. QED
    BY <1>1, <1>2, <2>1 DEF GoneInv
<1>7. QED
  BY <1>1, <1>3, <1>4, <1>5, <1>6, Moves
  DEF Rest, QuietStep, HandlerMoves, LinkMoves, SelectThread, AttachResets,
      AttachBegins, StopSevers, StopFinishes, WaiterReaps, WaiterCloses,
      WaiterFinalizes, AdapterEnds

-----------------------------------------------------------------------------
(* Who holds an adapter *)

\* A step that keeps the adapter's fields, opens no stream, starts no attach and
\* moves no reader that is done.
LEMMA HeldFrame ==
    ASSUME HeldInv,
           app'.dap = app.dap, app'.conn = app.conn, app'.cmd = app.cmd,
           \A g \in Sessions : /\ link'[g] = "open" => link[g] = "open"
                               /\ reader[g].pc = "done" => reader'[g] = reader[g],
           \A p \in Goroutines :
               pc'[p] \in {"reaping", "stopping"} => pc'[p] = pc[p]
    PROVE  HeldInv'
  BY DEF HeldInv

\* An open stream that the fields of App denote is that of the session.
LEMMA HeldIsCurrent ==
    ASSUME IInv, HeldInv, NEW g \in Sessions, g \in {app.conn, app.cmd}
    PROVE  g = app.dap /\ g = session.id
  BY Basics DEF HeldInv, ClientInv

\* After the reset or the stop severed it, nothing in the fields is left open.
LEMMA SeveredIsClosed ==
    ASSUME IInv, HeldInv, Sever, NEW g \in Sessions, link'[g] = "open"
    PROVE  link[g] = "open" /\ g \notin {app.conn, app.cmd}
  BY DEF Sever

LEMMA HeldNext ==
    ASSUME IInv, GoneInv, HeldInv, [Next]_vars
    PROVE  HeldInv'
<1>1. /\ AppOK /\ HandlersOK /\ ReadersOK /\ WireOK
      /\ LockInv /\ FutureInv /\ ClientInv
      /\ {app.dap, app.conn, app.cmd} \subseteq {Nil} \cup Sessions
      /\ Nil \notin Sessions /\ \A g \in Sessions : g \in Nat
      /\ \A p \in Handlers : p \in Goroutines
  BY Basics
<1>2. CASE Rest
  BY <1>2, HeldFrame DEF Rest, QuietStep
<1>3. ASSUME NEW p \in Handlers, SelectThread(p)
      PROVE  HeldInv'
  <2>1. /\ app'.dap = app.dap /\ app'.conn = app.conn /\ app'.cmd = app.cmd
        /\ UNCHANGED <<link, reader>>
    BY <1>1, <1>3 DEF SelectThread, AppOK, AppType, wireVars
  <2>2. \E label \in {"sending", "idle"} : \E what : Goto(p, label, what)
    BY <1>3 DEF SelectThread, Return
  <2>3. \A q \in Goroutines : pc'[q] \in {"reaping", "stopping"} => pc'[q] = pc[q]
    BY <1>1, <2>2 DEF Goto, HandlersOK
  <2>4. QED
    BY <2>1, <2>3, HeldFrame
<1>4. ASSUME \/ \E p \in Handlers, r \in Requests : AttachResets(p, r)
             \/ \E p \in Goroutines : StopSevers(p)
      PROVE  HeldInv'
  <2>1. /\ app'.dap = app.dap /\ app'.conn = Nil /\ app'.cmd = Nil
        /\ Sever /\ UNCHANGED reader
    BY <1>1, <1>4 DEF AttachResets, StopSevers, Detached, AppOK, AppType
  <2>2. QED
    BY <2>1, SeveredIsClosed DEF HeldInv
<1>5. ASSUME NEW p \in Handlers, AttachBegins(p)
      PROVE  HeldInv'
  <2>1. app.conn = Nil /\ app.cmd = Nil
    BY <1>1, <1>5 DEF AttachBegins, HeldInv
  <2>2. /\ app'.dap = Nil /\ app'.conn = Nil /\ app'.cmd = Nil
        /\ UNCHANGED <<link, reader>>
    BY <1>1, <1>5, <2>1 DEF AttachBegins, AppOK, AppType, wireVars
  <2>3. QED
    BY <1>1, <2>1, <2>2 DEF HeldInv
<1>6. ASSUME NEW p \in Handlers, NEW ok \in BOOLEAN, AttachSucceeds(p, ok)
      PROVE  HeldInv'
  <2>1. /\ session.id \in Sessions /\ link[session.id] = "none"
        /\ app.dap = Nil /\ app.conn = Nil /\ app.cmd = Nil
    BY <1>1, <1>6 DEF AttachSucceeds, FutureInv, ClientInv, HeldInv
  <2>2. /\ app'.dap = session.id
        /\ app'.conn \in {Nil, session.id} /\ app'.cmd \in {Nil, session.id}
        /\ session.id \in {app'.conn, app'.cmd}
    BY <1>1, <1>6, <2>1 DEF AttachSucceeds, AppOK, AppType
  <2>3. \A g \in Sessions : g # session.id =>
            link'[g] = link[g] /\ reader'[g] = reader[g]
    BY <1>1, <1>6 DEF AttachSucceeds, WireOK, ReadersOK
  <2>4. \A q \in Goroutines : pc'[q] \notin {"reaping", "stopping"}
    <3>1. \A q \in Goroutines : q # p => pc[q] \notin Holding
      BY <1>1, <1>6, Exclusion, HandlersAssumption DEF AttachSucceeds, Holding
    <3>2. QED
      BY <1>1, <1>6, <3>1 DEF AttachSucceeds, Return, Goto, HandlersOK, Holding
  <2>5. QED
    BY <1>1, <2>1, <2>2, <2>3, <2>4 DEF HeldInv
<1>7. ASSUME NEW p \in Goroutines, StopFinishes(p)
      PROVE  HeldInv'
  <2>1. app.conn = Nil /\ app.cmd = Nil
    BY <1>7 DEF StopFinishes, HeldInv
  <2>2. app' = Detached /\ UNCHANGED <<link, reader>>
    BY <1>7 DEF StopFinishes, Finalize, wireVars
  <2>3. QED
    BY <1>1, <2>1, <2>2 DEF HeldInv, Detached
<1>8. ASSUME NEW g \in Sessions,
             \/ (ReaderMoves(g) /\ ~ReaderFinalizes(g))
             \/ (LinkMoves(g) /\ ~WaiterFinalizes(g))
      PROVE  HeldInv'
  <2>1. app'.dap = app.dap /\ app'.conn = app.conn /\ app'.cmd = app.cmd
    BY <1>1, <1>8
    DEF ReaderMoves, LinkMoves, ReaderLoads, ReaderReceives, ReaderTears, ReaderEnds,
        ReaderApplies, ReaderStale, WaiterReaps, WaiterCloses, AdapterEnds,
        AppAfter, AppOK, AppType, codeVars
  <2>2. \A h \in Sessions : link'[h] = "open" => link[h] = "open"
    BY <1>1, <1>8
    DEF ReaderMoves, LinkMoves, ReaderLoads, ReaderReceives, ReaderTears, ReaderEnds,
        ReaderApplies, ReaderStale, WaiterReaps, WaiterCloses, AdapterEnds,
        WireOK, wireVars
  <2>3. \A h \in Sessions : reader[h].pc = "done" => reader'[h] = reader[h]
    BY <1>1, <1>8
    DEF ReaderMoves, LinkMoves, ReaderLoads, ReaderReceives, ReaderTears, ReaderEnds,
        ReaderApplies, ReaderStale, WaiterReaps, WaiterCloses, AdapterEnds,
        ReadersOK
  <2>4. UNCHANGED pc
    BY <1>8
    DEF ReaderMoves, LinkMoves, ReaderLoads, ReaderReceives, ReaderTears, ReaderEnds,
        ReaderApplies, ReaderStale, WaiterReaps, WaiterCloses, AdapterEnds,
        handlerVars
  <2>5. QED
    BY <2>1, <2>2, <2>3, <2>4, HeldFrame
<1>9. ASSUME NEW r \in Sessions, ReaderFinalizes(r)
      PROVE  HeldInv'
  <2>1. /\ UNCHANGED <<link, pc>>
        /\ reader'[r] = [reader[r] EXCEPT !.pc = "done"]
        /\ \A g \in Sessions : g # r => reader'[g] = reader[g]
        /\ reader[r].pc = "broken"
    BY <1>1, <1>9 DEF ReaderFinalizes, handlerVars, wireVars, ReadersOK
  <2>2. CASE IsCurrent(r)
    <3>1. app' = Detached /\ r = session.id
      BY <1>9, <2>2 DEF ReaderFinalizes, Finalize, IsCurrent
    <3>2. \A g \in Sessions : g \in {app.conn, app.cmd} => g = r
      BY <3>1, HeldIsCurrent
    <3>3. link[r] = "open" => reader[r].msg = "garbage"
      BY <1>1, <2>1, <3>1 DEF GoneInv
    <3>4. reader'[r].pc = "done" /\ reader'[r].msg = reader[r].msg
      BY <1>1, <2>1 DEF ReadersOK, ReaderType
    <3>5. app'.dap = Nil /\ app'.conn = Nil /\ app'.cmd = Nil
      BY <3>1 DEF Detached
    <3>6. ASSUME NEW g \in Sessions, link[g] = "open"
          PROVE  app'.dap # g /\ reader'[g].pc = "done" /\ reader'[g].msg = "garbage"
      <4>1. CASE g = r
        BY <1>1, <3>3, <3>4, <3>5, <3>6, <4>1
      <4>2. CASE g # r
        BY <1>1, <2>1, <3>2, <3>5, <3>6, <4>2 DEF HeldInv
      <4>3. QED
        BY <4>1, <4>2
    <3>7. QED
      BY <2>1, <3>5, <3>6 DEF HeldInv
  <2>3. CASE ~IsCurrent(r)
    <3>1. UNCHANGED app
      BY <1>9, <2>3 DEF ReaderFinalizes
    <3>2. QED
      BY <2>1, <3>1, HeldFrame
  <2>4. QED
    BY <2>2, <2>3
<1>10. ASSUME NEW g \in Sessions, WaiterFinalizes(g)
       PROVE  HeldInv'
  <2>1. UNCHANGED <<link, pc, reader>> /\ link[g] = "cut"
    BY <1>10 DEF WaiterFinalizes, handlerVars, wireVars, GoneInv
  <2>2. CASE IsCurrent(g) /\ app.cmd = g
    <3>1. app' = Detached /\ g = session.id
      BY <1>10, <2>2 DEF WaiterFinalizes, Finalize, IsCurrent
    <3>2. \A h \in Sessions : h \in {app.conn, app.cmd} => link[h] # "open"
      BY <2>1, <3>1, HeldIsCurrent
    <3>3. QED
      BY <1>1, <2>1, <3>1, <3>2 DEF HeldInv, Detached
  <2>3. CASE ~(IsCurrent(g) /\ app.cmd = g)
    <3>1. UNCHANGED app
      BY <1>10, <2>3 DEF WaiterFinalizes
    <3>2. QED
      BY <2>1, <3>1, HeldFrame
  <2>4. QED
    BY <2>2, <2>3
<1>11. QED
  BY <1>1, <1>2, <1>3, <1>4, <1>5, <1>6, <1>7, <1>8, <1>9, <1>10, Moves
  DEF HandlerMoves, ReaderMoves, LinkMoves

-----------------------------------------------------------------------------
(* What the lifecycle says of a session without an adapter *)

\* A step that keeps the session, a.dap and the readers at the top of the loop,
\* and reaches no adapter.
LEMMA OverFrame ==
    ASSUME OverInv, UNCHANGED session, app'.dap = app.dap,
           daemon' = "up" => daemon = "up",
           \A g \in Sessions : /\ link[g] = "none" => link'[g] = "none"
                               /\ reader[g].pc = "top" => reader'[g].pc = "top"
    PROVE  OverInv'
  BY DEF OverInv

LEMMA OverNext ==
    ASSUME IInv, OverInv, [Next]_vars
    PROVE  OverInv'
<1>1. /\ TypeOK /\ AppOK /\ HandlersOK /\ ReadersOK /\ WireOK
      /\ FutureInv /\ ClientInv
      /\ session.id \in Nat /\ \A p \in Handlers : p \in Goroutines
  BY Basics
<1>2. CASE Rest
  BY <1>2, OverFrame DEF Rest, QuietStep
<1>3. ASSUME NEW p \in Handlers, SelectThread(p)
      PROVE  OverInv'
  <2>1. app'.dap = app.dap /\ UNCHANGED <<daemon, session, link, reader>>
    BY <1>1, <1>3 DEF SelectThread, AppOK, AppType, wireVars
  <2>2. QED
    BY <2>1, OverFrame
<1>4. ASSUME \/ \E p \in Handlers, r \in Requests : AttachResets(p, r)
             \/ \E p \in Goroutines : StopSevers(p)
      PROVE  OverInv'
  <2>1. /\ app'.dap = app.dap /\ Sever
        /\ UNCHANGED <<daemon, session, reader>>
    BY <1>1, <1>4 DEF AttachResets, StopSevers, Detached, AppOK, AppType
  <2>2. \A g \in Sessions : link[g] = "none" <=> link'[g] = "none"
    BY <1>1, <2>1, SeverLinks
  <2>3. QED
    BY <2>1, <2>2, OverFrame
<1>5. ASSUME NEW p \in Handlers, AttachBegins(p)
      PROVE  OverInv'
  <2>1. session'.id = session.id + 1 /\ session'.lifecycle = "initializing"
        /\ UNCHANGED link
    BY <1>5 DEF AttachBegins, wireVars
  <2>2. session'.id \in Sessions
    BY <1>1, <1>5, <2>1, BoundsAssumption DEF FutureInv, AttachBegins, Sessions
  <2>3. link'[session'.id] = "none"
    BY <1>1, <2>1, <2>2 DEF FutureInv
  <2>4. QED
    BY <2>1, <2>2, <2>3 DEF OverInv
<1>6. ASSUME NEW p \in Handlers, NEW ok \in BOOLEAN, AttachSucceeds(p, ok)
      PROVE  OverInv'
  <2>1. session.id \in Sessions
    BY <1>1, <1>6 DEF FutureInv, AttachSucceeds
  <2>2. app'.dap = session.id /\ session.id # Nil
    BY <1>1, <1>6, <2>1, Basics DEF AttachSucceeds, AppOK, AppType
  <2>3. QED
    BY <2>2 DEF OverInv
<1>7. ASSUME NEW l \in Terminal, Finalize(l)
      PROVE  OverInv'
  <2>1. session'.lifecycle = l
    BY <1>1, <1>7 DEF Finalize, AppOK, SessionType
  <2>2. QED
    BY <2>1 DEF OverInv
<1>8. ASSUME NEW r \in Sessions, ReaderApplies(r)
      PROVE  OverInv'
  <2>1. reader'[r].pc = "top"
    BY <1>1, <1>8 DEF ReaderApplies, ReadersOK, ReaderType, NoReader
  <2>2. session'.id = r
    BY <1>1, <1>8, AfterType DEF ReaderApplies, IsCurrent
  <2>3. QED
    BY <2>1, <2>2 DEF OverInv
<1>9. CASE \E r \in Sessions : ReaderLoads(r)
  BY <1>1, <1>9 DEF ReaderLoads, OverInv, codeVars
<1>10. ASSUME NEW g \in Sessions,
              \/ ReaderReceives(g) \/ ReaderTears(g) \/ ReaderEnds(g) \/ ReaderStale(g)
              \/ (ReaderFinalizes(g) /\ ~IsCurrent(g))
              \/ WaiterReaps(g) \/ WaiterCloses(g) \/ AdapterEnds(g)
              \/ (WaiterFinalizes(g) /\ ~(IsCurrent(g) /\ app.cmd = g))
       PROVE  OverInv'
  <2>1. UNCHANGED <<daemon, app, session>>
    BY <1>10
    DEF ReaderReceives, ReaderTears, ReaderEnds, ReaderStale, ReaderFinalizes,
        WaiterReaps, WaiterCloses, WaiterFinalizes, AdapterEnds, codeVars
  <2>2. \A h \in Sessions : link[h] = "none" => link'[h] = "none"
    BY <1>1, <1>10
    DEF ReaderReceives, ReaderTears, ReaderEnds, ReaderStale, ReaderFinalizes,
        WaiterReaps, WaiterCloses, WaiterFinalizes, AdapterEnds, WireOK, wireVars
  <2>3. \A h \in Sessions : reader[h].pc = "top" => reader'[h].pc = "top"
    BY <1>1, <1>10
    DEF ReaderReceives, ReaderTears, ReaderEnds, ReaderStale, ReaderFinalizes,
        WaiterReaps, WaiterCloses, WaiterFinalizes, AdapterEnds, ReadersOK
  <2>4. QED
    BY <2>1, <2>2, <2>3, OverFrame
<1>11. QED
  BY <1>1, <1>2, <1>3, <1>4, <1>5, <1>6, <1>7, <1>8, <1>9, <1>10, Moves
  DEF HandlerMoves, ReaderMoves, LinkMoves, StopFinishes, ReaderFinalizes,
      WaiterFinalizes, Terminal

-----------------------------------------------------------------------------
(* The theorems *)

\* In every reachable state the three invariants hold with that of
\* DebugSessionProofs.
THEOREM Safety == Spec => [](IInv /\ SafetyInv)
<1>1. Init => IInv /\ SafetyInv
  <2> SUFFICES ASSUME Init PROVE SafetyInv
    BY InitInvariant
  <2>1. GoneInv
    BY DEF Init, GoneInv, NoReader
  <2>2. HeldInv
    BY DEF Init, HeldInv, Detached
  <2>3. OverInv
    BY DEF Init, OverInv
  <2>4. QED
    BY <2>1, <2>2, <2>3 DEF SafetyInv
<1>2. IInv /\ SafetyInv /\ [Next]_vars => (IInv /\ SafetyInv)'
  BY NextInvariant, GoneNext, HeldNext, OverNext DEF SafetyInv
<1>3. QED
  BY <1>1, <1>2, PTL DEF Spec

\* No path of attach, stop or finalization loses hold of an adapter that is
\* still connected or running, unless a malformed message made it do so.
THEOREM NothingAbandoned == Spec => []NoAbandonedAdapter
<1>1. IInv /\ SafetyInv => NoAbandonedAdapter
  BY HeldIsCurrent DEF SafetyInv, HeldInv, NoAbandonedAdapter
<1>2. QED
  BY <1>1, Safety, PTL

\* A daemon without an adapter reports no session as running or stopped, but for
\* the one whose message was applied after the stop.
THEOREM DetachedOver == Spec => []DetachedIsOver
<1>1. SafetyInv => DetachedIsOver
  BY DEF SafetyInv, OverInv, DetachedIsOver
<1>2. QED
  BY <1>1, Safety, PTL

\* Only the end of its own adapter, or what that adapter said, makes a session
\* "exited", whatever readers and waiters of older sessions are still around.
THEOREM OnlyWhenGone == Spec => ExitedOnlyWhenGone
<1> DEFINE Gone == /\ session'.id = session.id
                   /\ \E g \in Sessions :
                        /\ g = session.id
                        /\ \/ link[g] \in {"finished", "cut"}
                           \/ reader[g].msg \in {"exited", "garbage"}
           Exits == session'.lifecycle = "exited" /\ session.lifecycle # "exited"
<1>1. ASSUME IInv, SafetyInv, [Next]_vars, Exits
      PROVE  Gone
  <2>1. /\ AppOK /\ HandlersOK /\ GoneInv /\ \A g \in Sessions : g \in Nat
        /\ \A p \in Handlers : p \in Goroutines
    BY <1>1, Basics DEF SafetyInv
  <2>2. ASSUME NEW p, StopFinishes(p) \/ AttachBegins(p)
        PROVE  FALSE
    BY <1>1, <2>1, <2>2 DEF StopFinishes, AttachBegins, Finalize, AppOK, SessionType
  <2>3. ASSUME NEW r \in Sessions, ReaderApplies(r)
        PROVE  Gone
    <3>1. session'.id = session.id /\ r = session.id
      BY <2>1, <2>3, AfterType DEF ReaderApplies, IsCurrent
    <3>2. LifecycleAfter(reader[r].msg) = "exited"
      BY <1>1, <2>1, <2>3 DEF ReaderApplies, SessionAfter, AppOK, SessionType
    <3>3. reader[r].msg = "exited"
      BY <1>1, <3>2 DEF LifecycleAfter
    <3>4. QED
      BY <3>1, <3>3
  <2>4. ASSUME NEW r \in Sessions, ReaderFinalizes(r)
        PROVE  Gone
    <3>1. IsCurrent(r) /\ Finalize("exited") /\ reader[r].pc = "broken"
      BY <1>1, <2>4 DEF ReaderFinalizes
    <3>2. session'.id = session.id /\ r = session.id
      BY <2>1, <3>1 DEF Finalize, IsCurrent, AppOK, SessionType
    <3>3. QED
      BY <2>1, <3>1, <3>2 DEF GoneInv
  <2>5. ASSUME NEW g \in Sessions, WaiterFinalizes(g)
        PROVE  Gone
    <3>1. IsCurrent(g) /\ Finalize("exited") /\ waiter[g] = "locking"
      BY <1>1, <2>5 DEF WaiterFinalizes
    <3>2. session'.id = session.id /\ g = session.id
      BY <2>1, <3>1 DEF Finalize, IsCurrent, AppOK, SessionType
    <3>3. QED
      BY <2>1, <3>1, <3>2 DEF GoneInv
  <2>6. \/ \E p \in Handlers : AttachBegins(p)
        \/ \E p \in Goroutines : StopFinishes(p)
        \/ \E g \in Sessions :
             ReaderApplies(g) \/ ReaderFinalizes(g) \/ WaiterFinalizes(g)
    <3>1. session' # session
      BY <1>1
    <3>2. QED
      BY <1>1, <2>1, <3>1, Moves
      DEF Rest, QuietStep, HandlerMoves, ReaderMoves, LinkMoves, SelectThread,
          AttachResets, AttachSucceeds, StopSevers, ReaderLoads, ReaderReceives,
          ReaderTears, ReaderEnds, ReaderStale, WaiterReaps, WaiterCloses,
          AdapterEnds, codeVars
  <2>7. QED
    BY <2>2, <2>3, <2>4, <2>5, <2>6
<1>2. IInv /\ SafetyInv /\ [Next]_vars => [Exits => Gone]_vars
  BY <1>1
<1>3. QED
  BY <1>2, Safety, PTL DEF Spec, ExitedOnlyWhenGone

=============================================================================
