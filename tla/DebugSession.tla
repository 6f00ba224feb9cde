---------------------------- MODULE DebugSession ----------------------------
(***************************************************************************)
(* The debug session of the daemon: internal/daemon/app.go, with the parts *)
(* of session.go and dapclient/client.go its control depends on.           *)
(*                                                                         *)
(* Goroutines: one handler per connected CLI (Handlers), the accept loop   *)
(* (Serve), and for each session a DAP reader and, in listen mode, a       *)
(* waiter that reaps the adapter process.  They share the fields of App    *)
(* under dapMu -- except that ensureActiveAdapter, knownThreadID, the send *)
(* of a command, the read of a.dap by the reader and the read of           *)
(* a.adapterWaitDone by the waiter happen without that lock.               *)
(*                                                                         *)
(* Sessions are numbered: session.Reset draws a fresh SessionID, here the  *)
(* next number.  The *dapclient.Client, the connection, the process and    *)
(* the channel adapterWaitDone made for session g are all denoted by g,    *)
(* and nil is 0.                                                           *)
(***************************************************************************)
EXTENDS Integers, Sequences, FiniteSets

CONSTANTS
    Handlers,      \* the goroutines that serve CLI connections
    Serve,         \* the goroutine of the accept loop
    Free,          \* dapMu is unlocked
    Requests,      \* the IPC requests the CLIs issue, a subset of RequestKinds
    Events,        \* the DAP events the adapters emit, a subset of EventKinds
    Answered,      \* the commands the adapters answer, a subset of Commands
    MaxSessions,   \* bound: attach requests that get as far as a new session
    MaxRequests,   \* bound: IPC requests begun
    MaxEvents,     \* bound: spontaneous messages of the adapters
    MaxInbox       \* bound: messages waiting in one adapter's stream

AttachModes == {"connect", "listen"}
DebugCommands == {"continue", "pause", "threads", "query"}
RequestKinds == AttachModes \cup DebugCommands \cup {"stop", "shutdown"}

EventKinds ==
    {"thread", "process", "stopped", "continued", "exited", "terminated"}

\* Commands whose response the daemon acts on, or that the handshake orders.
\* "continue" also stands for next, stepIn and stepOut; "query" for the
\* commands whose response leaves the session's life alone (stackTrace,
\* scopes, variables, evaluate, setBreakpoints): it is sent, never tracked.
HandshakeCommands == {"initialize", "attach", "configurationDone"}
Commands ==
    HandshakeCommands \cup {"threads", "pause", "continue", "disconnect"}

\* What a reader finds in an adapter's stream: a response bears the name of
\* its command ("noThreads" is a threads response that lists none).
Messages ==
    Commands \cup EventKinds \cup {"initialized", "noThreads", "garbage"}

Sessions == 1..MaxSessions
Nil == 0
Goroutines == Handlers \cup {Serve}

ASSUME HandlersAssumption ==
    /\ IsFiniteSet(Handlers) /\ Serve \notin Handlers
    /\ Free \notin Goroutines
ASSUME InputsAssumption ==
    /\ Requests \subseteq RequestKinds
    /\ Events \subseteq EventKinds
    /\ Answered \subseteq Commands
ASSUME BoundsAssumption ==
    /\ MaxSessions \in Nat
    /\ MaxRequests \in Nat
    /\ MaxEvents \in Nat
    /\ MaxInbox \in Nat

VARIABLES
    daemon,     \* "up", "exited", or the panic that ended the process
    dapMu,      \* the goroutine that holds App.dapMu, or Free
    app,        \* the fields of App guarded by dapMu
    session,    \* SessionID, Lifecycle and "a thread is known" of Session
    listening,  \* App.server accepts connections
    pc,         \* where each handler and the accept loop stand
    call,       \* the request a handler serves, then the command it sends
    reader,     \* the dapReader goroutine of each session
    waiter,     \* the cmd.Wait goroutine of each session
    closed,     \* the adapterWaitDone channels that were closed
    link,       \* the stream between the daemon and each adapter
    inbox,      \* messages of the adapter not read yet
    adapter,    \* what each adapter was sent and still has to answer
    spent,      \* how much of MaxRequests and MaxEvents is used
    pauses      \* history: the pauses asked for and sent, session by session

codeVars == <<app, session, listening, closed>>
handlerVars == <<pc, call>>
wireVars == <<link, inbox, adapter>>
vars == <<daemon, dapMu, app, session, listening, pc, call, reader, waiter,
          closed, link, inbox, adapter, spent, pauses>>

Terminal == {"terminated", "exited"}
Lifecycles == {"idle", "initializing", "running", "stopped"} \cup Terminal
Panics == {"nil client", "nil channel", "closed channel"}

-----------------------------------------------------------------------------
(* Helpers *)

\* finalizeAdapterExit and NewApp leave every adapter field at its zero value.
Detached ==
    [dap |-> Nil, conn |-> Nil, cmd |-> Nil, waitDone |-> Nil,
     pendingAttach |-> FALSE, startupPhase |-> "", pauseAfterThreads |-> FALSE]

NoReader == [pc |-> "none", client |-> Nil, msg |-> "none"]
Quiet == [c \in Commands |-> 0]
Blank == [asked |-> <<>>, pending |-> Quiet, announced |-> FALSE]
Greeted ==
    [asked |-> <<"initialize">>, announced |-> FALSE,
     pending |-> [c \in Commands |-> IF c = "initialize" THEN 1 ELSE 0]]

\* What adapter g knows once the commands cmds, at most one of them of the
\* handshake, were written to its stream; a write to a stream that is not open
\* fails and reaches nobody.
Written(g, cmds) ==
    IF g \in Sessions /\ link[g] = "open"
    THEN [adapter EXCEPT
            ![g].pending = [c \in Commands |->
                IF c \in cmds THEN @[c] + 1 ELSE @[c]],
            ![g].asked = IF cmds \cap HandshakeCommands = {} THEN @
                ELSE Append(@, CHOOSE c \in cmds : c \in HandshakeCommands)]
    ELSE adapter

\* The pause requests on their way: let through, not sent or put off yet.
PausesUnderWay == {p \in Handlers : call[p] = "pause"}

\* The session a pause that is let through now is for: while an attach request
\* waits in its reset, the one that request is about to open.
Upcoming ==
    IF \E p \in Handlers : pc[p] = "reaping" THEN session.id + 1 ELSE session.id

PauseAsked(g) ==
    [pauses EXCEPT !.asked =
        [h \in Sessions |-> IF h = g THEN @[h] + 1 ELSE @[h]]]

\* A reset takes back the pauses put off; those on their way are for the session
\* that is opened next.
PausesMove ==
    LET moved == Cardinality(PausesUnderWay)
    IN  [pauses EXCEPT !.asked =
            [h \in Sessions |->
                CASE h = session.id -> @[h] - moved
                  [] h = session.id + 1 -> @[h] + moved
                  [] OTHER -> @[h]]]

\* The commands cmds are written to adapter g: as in Written.
PauseSent(g, cmds) ==
    [pauses EXCEPT !.sent =
        [h \in Sessions |->
            IF h = g /\ link[h] = "open" /\ "pause" \in cmds
            THEN @[h] + 1 ELSE @[h]]]

\* Mutant: the fields are cleared, nothing is closed or killed.
SeverNothing == UNCHANGED wireVars

\* The connection is closed by this process, or the adapter process is killed.
\* Closing drops what is not read yet: what a reader has buffered it returns at
\* once, so that such a read may as well be counted before the close.
Sever ==
    /\ link' = [g \in Sessions |->
                  IF g = app.conn THEN "cut"
                  ELSE IF g = app.cmd /\ link[g] = "open" THEN "finished"
                  ELSE link[g]]
    /\ inbox' = [g \in Sessions |-> IF g = app.conn THEN <<>> ELSE inbox[g]]
    /\ adapter' = [g \in Sessions |->
                     IF g \in {app.conn, app.cmd} THEN Blank ELSE adapter[g]]

\* Mutant: the lifecycle is left as it was.
FinalizeSilently(lifecycle) == app' = Detached /\ UNCHANGED session

Finalize(lifecycle) ==
    /\ app' = Detached
    /\ session' = [session EXCEPT !.lifecycle = lifecycle]

\* The check against session.SessionID() that readers and waiters make under
\* dapMu before they touch anything.
NeverStale(g) == TRUE       \* mutant: the check is missing

IsCurrent(g) == g = session.id

Panic(what) ==
    /\ daemon' = what
    /\ UNCHANGED <<dapMu, codeVars, handlerVars, reader, waiter, wireVars,
                   spent, pauses>>

Goto(p, label, what) ==
    /\ pc' = [pc EXCEPT ![p] = label]
    /\ call' = [call EXCEPT ![p] = what]

Return(p) == Goto(p, "idle", "none")

-----------------------------------------------------------------------------
(* Requests that send one command to the adapter *)

Begins(p, r) ==
    /\ daemon = "up"
    /\ pc[p] = "idle"
    /\ r \in Requests
    /\ spent.requests < MaxRequests
    /\ spent' = [spent EXCEPT !.requests = @ + 1]

\* ensureActiveAdapter: reads a.dap without dapMu and lets it go again.  When
\* there is no client the request fails and nothing changes.
EnsureActiveAdapter(p, r) ==
    /\ Begins(p, r)
    /\ r \in DebugCommands
    /\ app.dap # Nil
    /\ Goto(p, "checked", r)
    /\ pauses' = IF r = "pause" THEN PauseAsked(Upcoming) ELSE pauses
    /\ UNCHANGED <<daemon, dapMu, codeVars, reader, waiter, wireVars>>

\* knownThreadID, again without dapMu.  With no thread known, a pause arms
\* pauseAfterThreads and asks for the threads; a continue fails.
SelectThread(p) ==
    /\ daemon = "up"
    /\ pc[p] = "checked"
    /\ \/ /\ session.thread \/ call[p] \in {"threads", "query"}
          /\ Goto(p, "sending", call[p])
          /\ UNCHANGED app
       \/ /\ ~session.thread
          /\ call[p] = "pause"
          /\ app' = [app EXCEPT !.pauseAfterThreads = TRUE]
          /\ Goto(p, "sending", "threads")
       \/ /\ ~session.thread
          /\ call[p] = "continue"
          /\ Return(p)
          /\ UNCHANGED app
    /\ UNCHANGED <<daemon, dapMu, session, listening, closed, reader, waiter,
                   wireVars, spent, pauses>>

\* The command goes to whatever a.dap holds by now.
SendCommand(p) ==
    /\ daemon = "up"
    /\ pc[p] = "sending"
    /\ app.dap # Nil
    /\ adapter' = Written(app.dap, {call[p]})
    /\ pauses' = PauseSent(app.dap, {call[p]})
    /\ Return(p)
    /\ UNCHANGED <<daemon, dapMu, codeVars, reader, waiter, link, inbox, spent>>

\* ... and a method of a nil client dereferences it (no goroutine recovers).
SendOnNil(p) ==
    /\ daemon = "up"
    /\ pc[p] = "sending"
    /\ app.dap = Nil
    /\ Panic("nil client")

-----------------------------------------------------------------------------
(* StartAttach.  It holds dapMu from the reset to the end; the steps are the *)
(* points where another goroutine can see the difference.                    *)

\* Mutant: a pause that was put off survives the reset.
AttachResetsStillArmed(p, mode) ==
    /\ Begins(p, mode)
    /\ mode \in AttachModes
    /\ dapMu = Free
    /\ session.id < MaxSessions
    /\ dapMu' = p
    /\ app' = [Detached EXCEPT !.dap = app.dap,
                  !.pauseAfterThreads = app.pauseAfterThreads]
    /\ Sever
    /\ pauses' = PausesMove
    /\ Goto(p, "reaping", mode)
    /\ UNCHANGED <<daemon, session, listening, closed, reader, waiter>>

\* resetForNewSession up to the wait in terminateAdapterProcess.
AttachResets(p, mode) ==
    /\ Begins(p, mode)
    /\ mode \in AttachModes
    /\ dapMu = Free
    /\ session.id < MaxSessions
    /\ dapMu' = p
    /\ app' = [Detached EXCEPT !.dap = app.dap]
    /\ Sever
    /\ pauses' = PausesMove
    /\ Goto(p, "reaping", mode)
    /\ UNCHANGED <<daemon, session, listening, closed, reader, waiter>>

\* Mutant: pendingAttach is set before the reset that clears it.
AttachBeginsTooEarly(p) ==
    /\ daemon = "up"
    /\ pc[p] = "reaping"
    /\ app' = [app EXCEPT !.dap = Nil]
    /\ session' = [id |-> session.id + 1, lifecycle |-> "initializing",
                   thread |-> FALSE]
    /\ Goto(p, "attaching", call[p])
    /\ UNCHANGED <<daemon, dapMu, listening, closed, reader, waiter, wireVars,
                   spent, pauses>>

\* Mutant: only the first session gets a SessionID of its own.
AttachBeginsSameID(p) ==
    /\ daemon = "up"
    /\ pc[p] = "reaping"
    /\ app' = [app EXCEPT !.dap = Nil, !.pendingAttach = TRUE]
    /\ session' = [id |-> 1, lifecycle |-> "initializing", thread |-> FALSE]
    /\ Goto(p, "attaching", call[p])
    /\ UNCHANGED <<daemon, dapMu, listening, closed, reader, waiter, wireVars,
                   spent, pauses>>

\* Mutant: the reset and the attach both count SessionID up.
AttachBeginsTwice(p) ==
    /\ daemon = "up"
    /\ pc[p] = "reaping"
    /\ app' = [app EXCEPT !.dap = Nil, !.pendingAttach = TRUE]
    /\ session' = [id |-> session.id + 2, lifecycle |-> "initializing",
                   thread |-> FALSE]
    /\ Goto(p, "attaching", call[p])
    /\ UNCHANGED <<daemon, dapMu, listening, closed, reader, waiter, wireVars,
                   spent, pauses>>

\* terminateAdapterProcess returns when the waiter closed the channel or after
\* 5 seconds, so at any moment; then the session is reset.
AttachBegins(p) ==
    /\ daemon = "up"
    /\ pc[p] = "reaping"
    /\ app' = [app EXCEPT !.dap = Nil, !.pendingAttach = TRUE]
    /\ session' = [id |-> session.id + 1, lifecycle |-> "initializing",
                   thread |-> FALSE]
    /\ Goto(p, "attaching", call[p])
    /\ UNCHANGED <<daemon, dapMu, listening, closed, reader, waiter, wireVars,
                   spent, pauses>>

\* Mutant: the early return keeps the lock.
AttachFailsLocked(p) ==
    /\ daemon = "up"
    /\ pc[p] = "attaching"
    /\ Return(p)
    /\ UNCHANGED <<daemon, dapMu, codeVars, reader, waiter, wireVars, spent,
                   pauses>>

\* No port, no connection, no process: the error is returned as things stand.
AttachFails(p) ==
    /\ daemon = "up"
    /\ pc[p] = "attaching"
    /\ dapMu' = Free
    /\ Return(p)
    /\ UNCHANGED <<daemon, codeVars, reader, waiter, wireVars, spent, pauses>>

\* The adapter is reached: its reader starts and initialize is written, unless
\* the adapter is gone already (ok is FALSE) and the write fails.
AttachSucceeds(p, ok) ==
    LET g == session.id
        opened == [app EXCEPT !.dap = g]
    IN  /\ daemon = "up"
        /\ pc[p] = "attaching"
        /\ dapMu' = Free
        /\ Return(p)
        /\ reader' = [reader EXCEPT ![g].pc = "top"]
        /\ link' = [link EXCEPT ![g] = IF ok THEN "open" ELSE "finished"]
        /\ adapter' = IF ok THEN [adapter EXCEPT ![g] = Greeted] ELSE adapter
        /\ \/ /\ call[p] = "connect"
              /\ app' = [opened EXCEPT !.conn = g,
                    !.startupPhase = IF ok THEN "attach_wait_initialized" ELSE ""]
              /\ UNCHANGED waiter
           \/ /\ call[p] = "listen"
              /\ app' = [opened EXCEPT !.cmd = g, !.waitDone = g]
              /\ waiter' = [waiter EXCEPT ![g] = "waiting"]
        /\ UNCHANGED <<daemon, session, listening, closed, inbox, spent,
                       pauses>>

-----------------------------------------------------------------------------
(* StopSession, Shutdown and the end of Serve *)

\* StopSession takes dapMu; with an adapter of its own it says disconnect.
StopLocks(p) ==
    /\ dapMu = Free
    /\ dapMu' = p
    /\ adapter' = IF app.dap # Nil /\ app.conn = Nil
                  THEN Written(app.dap, {"disconnect"})
                  ELSE adapter
    /\ UNCHANGED <<daemon, codeVars, reader, waiter, link, inbox, pauses>>

StopRequested(p, r) ==
    /\ Begins(p, r)
    /\ r \in {"stop", "shutdown"}
    /\ StopLocks(p)
    /\ Goto(p, "disconnecting", r)

\* The connection is closed, the process killed (the wait is as in attach).
StopSevers(p) ==
    /\ daemon = "up"
    /\ pc[p] = "disconnecting"
    /\ app' = [app EXCEPT !.conn = Nil, !.cmd = Nil, !.waitDone = Nil]
    /\ Sever
    /\ Goto(p, "stopping", call[p])
    /\ UNCHANGED <<daemon, dapMu, session, listening, closed, reader, waiter,
                   spent, pauses>>

StopFinishes(p) ==
    /\ daemon = "up"
    /\ pc[p] = "stopping"
    /\ Finalize("terminated")
    /\ dapMu' = Free
    /\ CASE call[p] = "stop" -> Return(p)
         [] call[p] = "shutdown" -> Goto(p, "closing", "shutdown")
         [] OTHER -> Goto(p, "leaving", "none")
    /\ UNCHANGED <<daemon, listening, closed, reader, waiter, wireVars, spent,
                   pauses>>

\* Shutdown closes the listener once StopSession is through.
CloseServer(p) ==
    /\ daemon = "up"
    /\ pc[p] = "closing"
    /\ listening' = FALSE
    /\ Return(p)
    /\ UNCHANGED <<daemon, dapMu, app, session, closed, reader, waiter,
                   wireVars, spent, pauses>>

\* Accept fails, and Serve's deferred StopSession begins.
ServeEnds ==
    /\ daemon = "up"
    /\ pc[Serve] = "accepting"
    /\ ~listening
    /\ StopLocks(Serve)
    /\ Goto(Serve, "disconnecting", "none")
    /\ UNCHANGED spent

ServeReturns ==
    /\ daemon = "up"
    /\ pc[Serve] = "leaving"
    /\ daemon' = "exited"
    /\ UNCHANGED <<dapMu, codeVars, handlerVars, reader, waiter, wireVars,
                   spent, pauses>>
-----------------------------------------------------------------------------
(* dapReader *)

\* The loop evaluates a.dap without dapMu: the client of a newer session if
\* one was opened meanwhile, nil if the session was finalized.
ReaderLoads(r) ==
    /\ daemon = "up"
    /\ reader[r].pc = "top"
    /\ app.dap # Nil
    /\ reader' = [reader EXCEPT ![r].pc = "reading", ![r].client = app.dap]
    /\ UNCHANGED <<daemon, dapMu, codeVars, handlerVars, waiter, wireVars,
                   spent, pauses>>

ReaderFindsNil(r) ==
    /\ daemon = "up"
    /\ reader[r].pc = "top"
    /\ app.dap = Nil
    /\ Panic("nil client")

\* A frame that is not a DAP message is an error, like the end of the stream.
ReaderReceives(r) ==
    LET c == reader[r].client
    IN  /\ daemon = "up"
        /\ reader[r].pc = "reading"
        /\ inbox[c] # <<>>
        /\ inbox' = [inbox EXCEPT ![c] = Tail(@)]
        /\ reader' = [reader EXCEPT ![r].msg = Head(inbox[c]),
              ![r].pc = IF Head(inbox[c]) = "garbage" THEN "broken" ELSE "got"]
        /\ UNCHANGED <<daemon, dapMu, codeVars, handlerVars, waiter, link,
                       adapter, spent, pauses>>

\* Two readers inside one unsynchronized bufio.Reader (a data race): a frame
\* may be torn between them, and what is left of it is no frame either.
ReaderTears(r) ==
    LET c == reader[r].client
    IN  /\ daemon = "up"
        /\ reader[r].pc = "reading"
        /\ \E other \in Sessions \ {r} :
              reader[other].pc = "reading" /\ reader[other].client = c
        /\ inbox[c] # <<>>
        /\ inbox' = [inbox EXCEPT ![c] = <<"garbage">> \o Tail(@)]
        /\ reader' = [reader EXCEPT ![r].msg = "garbage", ![r].pc = "broken"]
        /\ UNCHANGED <<daemon, dapMu, codeVars, handlerVars, waiter, link,
                       adapter, spent, pauses>>

\* The end of the stream, or the error of a stream closed on this side.
ReaderEnds(r) ==
    LET c == reader[r].client
    IN  /\ daemon = "up"
        /\ reader[r].pc = "reading"
        /\ link[c] # "open" /\ inbox[c] = <<>>
        /\ reader' = [reader EXCEPT ![r].pc = "broken"]
        /\ UNCHANGED <<daemon, dapMu, codeVars, handlerVars, waiter, wireVars,
                       spent, pauses>>

\* The commands the handling of message m sends.
Replies(m) ==
    CASE m = "initialize" /\ app.pendingAttach -> {"attach"}
      [] m = "initialized" /\ app.startupPhase # "" ->
            {"configurationDone", "threads"}
      [] m \in {"process", "stopped"} -> {"threads"}
      [] m = "threads" /\ app.pauseAfterThreads -> {"pause"}
      [] OTHER -> {}

\* Mutant: the response to initialize does not move the startup on.
AppAfterNoPhase(m) ==
    CASE m = "initialize" /\ app.pendingAttach ->
            [app EXCEPT !.pendingAttach = FALSE]
      [] m = "initialized" -> [app EXCEPT !.startupPhase = ""]
      [] m = "threads" -> [app EXCEPT !.pauseAfterThreads = FALSE]
      [] OTHER -> app

\* Mutant: the flag stays up when the threads are known.
AppAfterStillArmed(m) ==
    CASE m = "initialize" /\ app.pendingAttach ->
            [app EXCEPT !.pendingAttach = FALSE,
                        !.startupPhase = "attach_wait_initialized"]
      [] m = "initialized" -> [app EXCEPT !.startupPhase = ""]
      [] OTHER -> app

AppAfter(m) ==
    CASE m = "initialize" /\ app.pendingAttach ->
            [app EXCEPT !.pendingAttach = FALSE,
                        !.startupPhase = "attach_wait_initialized"]
      [] m = "initialized" -> [app EXCEPT !.startupPhase = ""]
      [] m = "threads" -> [app EXCEPT !.pauseAfterThreads = FALSE]
      [] OTHER -> app

\* The success flag of a response is not looked at.
LifecycleAfter(m) ==
    CASE m = "initialized" /\ app.startupPhase # "" -> "running"
      [] m \in {"attach", "configurationDone"}
            /\ session.lifecycle = "initializing" -> "running"
      [] m \in {"continue", "continued"} -> "running"
      [] m = "stopped" -> "stopped"
      [] m = "exited" -> "exited"
      [] m \in {"terminated", "disconnect"} -> "terminated"
      [] OTHER -> session.lifecycle

SessionAfter(m) ==
    [session EXCEPT !.lifecycle = LifecycleAfter(m),
                    !.thread = @ \/ m \in {"thread", "threads", "stopped"}]

\* The message is handled under dapMu, provided it is of the current session.
ReaderApplies(r) ==
    LET m == reader[r].msg
    IN  /\ daemon = "up"
        /\ reader[r].pc = "got"
        /\ dapMu = Free
        /\ IsCurrent(r)
        /\ app.dap # Nil \/ Replies(m) = {}
        /\ adapter' = Written(app.dap, Replies(m))
        /\ pauses' = PauseSent(app.dap, Replies(m))
        /\ app' = AppAfter(m)
        /\ session' = SessionAfter(m)
        /\ reader' = [reader EXCEPT ![r] = [NoReader EXCEPT !.pc = "top"]]
        /\ UNCHANGED <<daemon, dapMu, listening, closed, handlerVars, waiter,
                       link, inbox, spent>>

ReaderSendsOnNil(r) ==
    /\ daemon = "up"
    /\ reader[r].pc = "got"
    /\ dapMu = Free
    /\ IsCurrent(r)
    /\ app.dap = Nil /\ Replies(reader[r].msg) # {}
    /\ Panic("nil client")

\* A reader that outlived its session drops the message, whoever sent it.
ReaderStale(r) ==
    /\ daemon = "up"
    /\ reader[r].pc = "got"
    /\ dapMu = Free
    /\ ~IsCurrent(r)
    /\ reader' = [reader EXCEPT ![r].pc = "done"]
    /\ UNCHANGED <<daemon, dapMu, codeVars, handlerVars, waiter, wireVars,
                   spent, pauses>>

ReaderFinalizes(r) ==
    /\ daemon = "up"
    /\ reader[r].pc = "broken"
    /\ dapMu = Free
    /\ IF IsCurrent(r) THEN Finalize("exited") ELSE UNCHANGED <<app, session>>
    /\ reader' = [reader EXCEPT ![r].pc = "done"]
    /\ UNCHANGED <<daemon, dapMu, listening, closed, handlerVars, waiter,
                   wireVars, spent, pauses>>

-----------------------------------------------------------------------------
(* The goroutine around cmd.Wait *)

\* Wait returns after the process ended, and closes the pipe the reader is on:
\* what was not read by then is lost.
WaiterReaps(g) ==
    /\ daemon = "up"
    /\ waiter[g] = "waiting"
    /\ link[g] = "finished"
    /\ link' = [link EXCEPT ![g] = "cut"]
    /\ inbox' = [inbox EXCEPT ![g] = <<>>]
    /\ waiter' = [waiter EXCEPT ![g] = "closing"]
    /\ UNCHANGED <<daemon, dapMu, codeVars, handlerVars, reader, adapter,
                   spent, pauses>>

\* close(a.adapterWaitDone) reads the field, without dapMu, only now.
WaiterCloses(g) ==
    /\ daemon = "up"
    /\ waiter[g] = "closing"
    /\ app.waitDone \notin closed \cup {Nil}
    /\ closed' = closed \cup {app.waitDone}
    /\ waiter' = [waiter EXCEPT ![g] = "locking"]
    /\ UNCHANGED <<daemon, dapMu, app, session, listening, handlerVars, reader,
                   wireVars, spent, pauses>>

WaiterClosesNil(g) ==
    /\ daemon = "up"
    /\ waiter[g] = "closing"
    /\ app.waitDone = Nil
    /\ Panic("nil channel")

WaiterClosesTwice(g) ==
    /\ daemon = "up"
    /\ waiter[g] = "closing"
    /\ app.waitDone \in closed
    /\ Panic("closed channel")

WaiterFinalizes(g) ==
    /\ daemon = "up"
    /\ waiter[g] = "locking"
    /\ dapMu = Free
    /\ IF IsCurrent(g) /\ app.cmd = g
       THEN Finalize("exited")
       ELSE UNCHANGED <<app, session>>
    /\ waiter' = [waiter EXCEPT ![g] = "done"]
    /\ UNCHANGED <<daemon, dapMu, listening, closed, handlerVars, reader,
                   wireVars, spent, pauses>>

-----------------------------------------------------------------------------
(* The debug adapters, outside this program *)

Emit(g, m) ==
    /\ daemon = "up"
    /\ link[g] = "open"
    /\ Len(inbox[g]) < MaxInbox
    /\ inbox' = [inbox EXCEPT ![g] = Append(@, m)]
    /\ UNCHANGED <<daemon, dapMu, codeVars, handlerVars, reader, waiter, link>>

\* Responses come in any order (an adapter may defer one, as debugpy does with
\* the response to attach).
AdapterAnswers(g, c) ==
    /\ c \in Answered
    /\ adapter[g].pending[c] > 0
    /\ adapter' = [adapter EXCEPT ![g].pending[c] = @ - 1]
    /\ \E m \in {c} \cup (IF c = "threads" THEN {"noThreads"} ELSE {}) : Emit(g, m)
    /\ UNCHANGED <<spent, pauses>>

\* Once, after it answered initialize, an adapter says that it takes
\* configuration requests.
AdapterInitialized(g) ==
    /\ adapter[g].asked # <<>>
    /\ adapter[g].pending["initialize"] = 0
    /\ ~adapter[g].announced
    /\ adapter' = [adapter EXCEPT ![g].announced = TRUE]
    /\ Emit(g, "initialized")
    /\ UNCHANGED <<spent, pauses>>

AdapterEmits(g, m) ==
    /\ spent.events < MaxEvents
    /\ spent' = [spent EXCEPT !.events = @ + 1]
    /\ m \in Events \cup {"garbage"}
    /\ Emit(g, m)
    /\ UNCHANGED <<adapter, pauses>>

\* The adapter hangs up or its process ends.
AdapterEnds(g) ==
    /\ daemon = "up"
    /\ link[g] = "open"
    /\ link' = [link EXCEPT ![g] = "finished"]
    /\ adapter' = [adapter EXCEPT ![g] = Blank]
    /\ UNCHANGED <<daemon, dapMu, codeVars, handlerVars, reader, waiter, inbox,
                   spent, pauses>>

-----------------------------------------------------------------------------
(* The specification *)

Init ==
    /\ daemon = "up"
    /\ dapMu = Free
    /\ app = Detached
    /\ session = [id |-> 0, lifecycle |-> "idle", thread |-> FALSE]
    /\ listening = TRUE
    /\ pc = [p \in Goroutines |-> IF p = Serve THEN "accepting" ELSE "idle"]
    /\ call = [p \in Goroutines |-> "none"]
    /\ reader = [g \in Sessions |-> NoReader]
    /\ waiter = [g \in Sessions |-> "none"]
    /\ closed = {}
    /\ link = [g \in Sessions |-> "none"]
    /\ inbox = [g \in Sessions |-> <<>>]
    /\ adapter = [g \in Sessions |-> Blank]
    /\ spent = [requests |-> 0, events |-> 0]
    /\ pauses = [asked |-> [g \in Sessions |-> 0],
                 sent |-> [g \in Sessions |-> 0]]

CommandStep(p) ==
    \/ SelectThread(p) \/ SendCommand(p) \/ SendOnNil(p)

AttachStep(p) ==
    \/ AttachBegins(p) \/ AttachFails(p) \/ \E ok \in BOOLEAN : AttachSucceeds(p, ok)

StopStep(p) == StopSevers(p) \/ StopFinishes(p) \/ CloseServer(p)

RequestArrives(p) ==
    \E r \in Requests :
        EnsureActiveAdapter(p, r) \/ AttachResets(p, r) \/ StopRequested(p, r)

ReaderStep(r) ==
    \/ ReaderLoads(r) \/ ReaderFindsNil(r)
    \/ ReaderReceives(r) \/ ReaderTears(r) \/ ReaderEnds(r)
    \/ ReaderApplies(r) \/ ReaderSendsOnNil(r) \/ ReaderStale(r)
    \/ ReaderFinalizes(r)

WaiterStep(g) ==
    \/ WaiterReaps(g) \/ WaiterCloses(g) \/ WaiterClosesNil(g)
    \/ WaiterClosesTwice(g) \/ WaiterFinalizes(g)

AdapterStep(g) ==
    \/ \E c \in Commands : AdapterAnswers(g, c)
    \/ AdapterInitialized(g)
    \/ \E m \in Messages : AdapterEmits(g, m)
    \/ AdapterEnds(g)

Next ==
    \/ \E p \in Handlers : RequestArrives(p) \/ CommandStep(p) \/ AttachStep(p)
    \/ \E p \in Goroutines : StopStep(p)
    \/ ServeEnds \/ ServeReturns
    \/ \E g \in Sessions : ReaderStep(g) \/ WaiterStep(g) \/ AdapterStep(g)

Spec == Init /\ [][Next]_vars

\* The Go scheduler runs every goroutine that can run, a mutex that is free
\* again is given to someone, and an adapter that is alive answers what it was
\* asked and announces itself.  Nobody has to issue a request, emit an event,
\* or end.
FairSpec ==
    /\ Spec
    /\ \A p \in Handlers : WF_vars(CommandStep(p)) /\ WF_vars(AttachStep(p))
    /\ \A p \in Goroutines : WF_vars(StopStep(p))
    /\ WF_vars(ServeEnds) /\ WF_vars(ServeReturns)
    /\ \A g \in Sessions :
          /\ WF_vars(ReaderStep(g)) /\ WF_vars(WaiterStep(g))
          /\ WF_vars(AdapterInitialized(g))
          /\ \A c \in Commands : WF_vars(AdapterAnswers(g, c))

-----------------------------------------------------------------------------
(* Properties *)

AppType ==
    [dap : {Nil} \cup Sessions, conn : {Nil} \cup Sessions,
     cmd : {Nil} \cup Sessions, waitDone : {Nil} \cup Sessions,
     pendingAttach : BOOLEAN, startupPhase : {"", "attach_wait_initialized"},
     pauseAfterThreads : BOOLEAN]

SessionType == [id : {0} \cup Sessions, lifecycle : Lifecycles, thread : BOOLEAN]

Places ==
    {"idle", "checked", "sending", "reaping", "attaching", "disconnecting",
     "stopping", "closing", "accepting", "leaving"}

ReaderType ==
    [pc : {"none", "top", "reading", "got", "broken", "done"},
     client : {Nil} \cup Sessions, msg : Messages \cup {"none"}]

AdapterType ==
    [asked : Seq(HandshakeCommands), pending : [Commands -> Nat],
     announced : BOOLEAN]

AppOK ==
    /\ daemon \in {"up", "exited"} \cup Panics
    /\ dapMu \in Goroutines \cup {Free}
    /\ app \in AppType
    /\ session \in SessionType
    /\ listening \in BOOLEAN
    /\ closed \subseteq Sessions

HandlersOK ==
    /\ pc \in [Goroutines -> Places]
    /\ call \in [Goroutines -> RequestKinds \cup {"none"}]
    /\ spent \in [requests : 0..MaxRequests, events : 0..MaxEvents]

ReadersOK ==
    /\ reader \in [Sessions -> ReaderType]
    /\ waiter \in [Sessions -> {"none", "waiting", "closing", "locking", "done"}]

WireOK ==
    /\ link \in [Sessions -> {"none", "open", "finished", "cut"}]
    /\ inbox \in [Sessions -> Seq(Messages)]
    /\ adapter \in [Sessions -> AdapterType]

ProgramOK == AppOK /\ HandlersOK /\ ReadersOK /\ WireOK

PausesOK == pauses \in [asked : [Sessions -> Int], sent : [Sessions -> Nat]]

\* Every variable keeps its shape; in particular no step draws a SessionID out
\* of turn or leaves a goroutine at a place it never reaches.
TypeOK == ProgramOK /\ PausesOK

\* A message changes the session only if it came from that session's own
\* adapter: dapReader may hold a message of a newer session's client, read
\* while a.dap changed under it, and only the SessionID check stops it.
OwnMessagesOnly ==
    [][\A r \in Sessions :
         reader[r].pc = "got" /\ reader'[r].pc = "top" => reader[r].client = r]_vars

\* A session turns "exited" only when its own adapter hung up, said so, or
\* sent garbage: neither the reader nor the waiter of an older session may end
\* it (the checks before finalizeAdapterExit in dapReader and cmd.Wait).
ExitedOnlyWhenGone ==
    [][session'.lifecycle = "exited" /\ session.lifecycle # "exited" =>
         /\ session'.id = session.id
         /\ \E g \in Sessions :
              /\ g = session.id
              /\ \/ link[g] \in {"finished", "cut"}
                 \/ reader[g].msg \in {"exited", "garbage"}]_vars

\* Each adapter is sent initialize, attach and configurationDone, each at most
\* once and in that order, however the sessions before it ended (pendingAttach
\* and startupPhase drive the handshake across three messages).  Only where the
\* reader of an earlier session took the response to initialize, or tore it, can
\* configurationDone go out without attach.
HandshakeInOrder ==
    \A g \in Sessions :
        LET asked == adapter[g].asked
        IN  \/ asked = SubSeq(<<"initialize", "attach", "configurationDone">>,
                              1, Len(asked))
           \/ /\ asked = <<"initialize", "configurationDone">>
              /\ \E r \in 1..(g - 1) :
                   /\ reader[r].client = g
                   /\ reader[r].msg \in {"initialize", "garbage"}

\* Once dapMu is released, an adapter that is still connected or running is the
\* one in a.dap: no path of attach, stop or finalization loses hold of one --
\* except after a malformed message, where finalizeAdapterExit drops the
\* connection and the process without closing them.
NoAbandonedAdapter ==
    dapMu = Free /\ daemon \in {"up", "exited"} =>
        \A g \in Sessions :
            link[g] = "open" => app.dap = g \/ reader[g].msg = "garbage"

\* Without an adapter the lifecycle says so, but for a failed attach, which
\* leaves "initializing" (StartAttach returns its error after the reset), and
\* for a message applied after the session was stopped, whose reader is about
\* to read from a nil client.
DetachedIsOver ==
    dapMu = Free /\ daemon = "up" /\ app.dap = Nil =>
        \/ session.lifecycle \in {"idle"} \cup Terminal
        \/ \E g \in Sessions :
             /\ g = session.id
             /\ \/ session.lifecycle = "initializing" /\ link[g] = "none"
                \/ reader[g].pc = "top"

\* Each session is paused only when somebody asked for a pause of it, and at most
\* once for each time: pauseAfterThreads is set without dapMu, survives a threads
\* response that lists none, makes whichever threads response comes later pause
\* the program, and has to be down when the next session begins.  (A pause
\* let through while the next session was being opened, or still on its way then,
\* is a pause of that session: the command is sent to whatever a.dap holds.)
PausesAreAsked == \A g \in Sessions : pauses.sent[g] <= pauses.asked[g]

\* The daemon outlives its debug sessions: nobody uses the client of a session
\* that was finalized, and a.adapterWaitDone is an open channel when the waiter of
\* an adapter process closes it.
DaemonSurvives == daemon \in {"up", "exited"}

Phase ==
    IF app.dap # Nil THEN "attached"
    ELSE IF \E g \in Sessions : g = session.id /\ link[g] # "none" THEN "over"
    ELSE "fresh"

Epochs == INSTANCE SessionEpochs WITH epoch <- session.id, phase <- Phase

\* The SessionID and a.dap behave like SessionEpochs, under every interleaving
\* of the handlers with the readers and waiters of old sessions.
FollowsEpochs == Epochs!Spec

\* dapMu is always released: StartAttach and StopSession, which hold it across
\* waits, come to their end on every path, early returns included, so that no
\* goroutine waits for it forever.  The broadcasts and the commands to the adapter
\* that are written under it are taken to return: they have no deadline, and a
\* CLI or an adapter that never reads can hold them up.
LockReleased == dapMu # Free /\ daemon = "up" ~> dapMu = Free \/ daemon # "up"

Attached(g) == daemon = "up" /\ app.dap = g /\ link[g] = "open"

\* While a session stays attached, its handshake goes through, unless the reader
\* of an earlier session got at its client: that reader may take the response to
\* initialize and drop it at the SessionID check.
HandshakeCompletes ==
    \A g \in Sessions :
        Attached(g) ~> \/ ~Attached(g) \/ Len(adapter[g].asked) = 3
                       \/ \E r \in 1..(g - 1) : reader[r].client = g

\* When its adapter is gone, the session ends up in a terminal lifecycle unless
\* a newer session or the end of the daemon comes first.
EndIsNoticed ==
    \A g \in Sessions :
        link[g] \in {"finished", "cut"} ~>
            \/ session.id # g
            \/ session.lifecycle \in Terminal
            \/ daemon # "up"

=============================================================================
