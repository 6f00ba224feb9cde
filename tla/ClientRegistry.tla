---------------------------- MODULE ClientRegistry ----------------------------
(***************************************************************************)
(* The CLIs a daemon knows: register, unregister, the hello of Handle and  *)
(* Broadcast (internal/daemon/app.go), ClientHandler (handler.go), and     *)
(* AttachClient and DetachClient (session.go).                             *)
(*                                                                         *)
(* A CLI is known in two places: App.clients holds the handlers broadcasts *)
(* go to, Session.clients the ones that said hello and are shown to users. *)
(* A broadcast is sent by whichever goroutine changed the session, often   *)
(* in dapMu; a send that fails unregisters the CLI, which broadcasts       *)
(* again, from within the first broadcast.  The CLI's own handler          *)
(* unregisters it too, on its way out.                                     *)
(*                                                                         *)
(* A connection holds Buffer envelopes that its CLI has not read.  Send    *)
(* waits for room without a deadline.  sendMu is not modelled: who waits   *)
(* for it waits for the same room.                                         *)
(***************************************************************************)
EXTENDS Integers, Sequences, FiniteSets

CONSTANTS
    Clients,      \* the CLIs, and the goroutines of their handlers
    Reader,       \* a goroutine that broadcasts in dapMu (the DAP reader)
    Free,         \* dapMu is unlocked; also: no CLI
    Requests,     \* the requests made, a subset of RequestKinds
    Buffer,       \* envelopes that fit into a connection
    MaxRequests,  \* bound: requests of all CLIs
    MaxEvents     \* bound: broadcasts the reader begins

RequestKinds == {"status", "breakpoint", "stop"}
Goroutines == Clients \cup {Reader}

ASSUME ActorsAssumption ==
    /\ Reader \notin Clients
    /\ Free \notin Goroutines
    /\ Requests \subseteq RequestKinds
ASSUME SizesAssumption ==
    /\ IsFiniteSet(Clients)
    /\ Buffer \in Nat \ {0}
    /\ MaxRequests \in Nat /\ MaxEvents \in Nat

VARIABLES
    cli,         \* what each CLI does
    requests,    \* what it sent and its handler has not decoded
    unread,      \* how many envelopes its connection holds
    registered,  \* App.clients
    listed,      \* Session.clients, as every snapshot shows them
    named,       \* whose handler has a clientID
    pc,          \* where each goroutine stands
    frames,      \* the broadcasts each goroutine is in, the innermost last
    dapMu,       \* the goroutine that holds it, or Free
    spent        \* how much of the bounds is used

netVars == <<requests, unread>>
registryVars == <<registered, listed, named>>
vars == <<cli, requests, unread, registered, listed, named, pc, frames, dapMu, spent>>

-----------------------------------------------------------------------------
(* Helpers *)

Goto(g, label) == pc' = [pc EXCEPT ![g] = label]

\* Broadcast copies App.clients and then sends to one after the other, in the
\* order of a Go map: any.  "to" is the CLI whose turn it is.
Frames(clients) ==
    IF clients = {} THEN {[todo |-> {}, to |-> Free]}
    ELSE {[todo |-> clients \ {c}, to |-> c] : c \in clients}

Outer(stack) == SubSeq(stack, 1, Len(stack) - 1)
Innermost(stack) == stack[Len(stack)]

\* The innermost broadcast goes on with the next CLI.
Resumed(stack) ==
    IF stack = <<>> THEN {<<>>}
    ELSE {Append(Outer(stack), f) : f \in Frames(Innermost(stack).todo)}

Broadcasts(g) == \E f \in Frames(registered) : frames' = [frames EXCEPT ![g] = <<f>>]

\* Mutant: there is always room.
DeliveredAlways(c) == unread' = [unread EXCEPT ![c] = @ + 1]

\* Encode writes to the connection and waits for room.  When the CLI has closed
\* it, a write may still succeed, if the system has not noticed yet.
Delivered(c) ==
    \/ /\ cli[c] # "gone" /\ unread[c] < Buffer
       /\ unread' = [unread EXCEPT ![c] = @ + 1]
    \/ /\ cli[c] = "gone" /\ pc[c] # "done"
       /\ UNCHANGED unread

\* Mutant: nothing is done for a handler that is not registered any more.
UnregisterOnce(g, c, stack) ==
    LET others == registered \ {c}
        known == c \in named /\ c \in registered
    IN  /\ registered' = others
        /\ listed' = IF known THEN listed \ {c} ELSE listed
        /\ \E next \in IF known THEN {Append(stack, f) : f \in Frames(others)}
                       ELSE Resumed(stack) :
              frames' = [frames EXCEPT ![g] = next]

\* Mutant: the handler is removed only after the others were told.
UnregisterLate(g, c, stack) ==
    /\ registered' = IF c \in named THEN registered ELSE registered \ {c}
    /\ listed' = IF c \in named THEN listed \ {c} ELSE listed
    /\ \E next \in IF c \in named THEN {Append(stack, f) : f \in Frames(registered)}
                   ELSE Resumed(stack) :
          frames' = [frames EXCEPT ![g] = next]

\* unregister: the handler is deleted from App.clients and, if it has a
\* clientID, detached from the session, which the others are told: a broadcast
\* within those that g is in.
Unregister(g, c, stack) ==
    LET others == registered \ {c}
    IN  /\ registered' = others
        /\ listed' = IF c \in named THEN listed \ {c} ELSE listed
        /\ \E next \in IF c \in named THEN {Append(stack, f) : f \in Frames(others)}
                       ELSE Resumed(stack) :
              frames' = [frames EXCEPT ![g] = next]

-----------------------------------------------------------------------------
(* CLIs *)

\* NewClientApp connects and says hello; Serve accepts, registers and starts the
\* handler.
Connects(c) ==
    /\ cli[c] = "off"
    /\ cli' = [cli EXCEPT ![c] = "reading"]
    /\ requests' = [requests EXCEPT ![c] = <<"hello">>]
    /\ registered' = registered \cup {c}
    /\ Goto(c, "decoding")
    /\ UNCHANGED <<unread, listed, named, frames, dapMu, spent>>

Asks(c, what) ==
    /\ cli[c] = "reading"
    /\ spent.requests < MaxRequests
    /\ spent' = [spent EXCEPT !.requests = @ + 1]
    /\ requests' = [requests EXCEPT ![c] = Append(@, what)]
    /\ UNCHANGED <<cli, unread, registryVars, pc, frames, dapMu>>

\* readerLoop, which may wait for whoever takes the command's output.
Reads(c) ==
    /\ cli[c] = "reading" /\ unread[c] > 0
    /\ unread' = [unread EXCEPT ![c] = @ - 1]
    /\ UNCHANGED <<cli, requests, registryVars, pc, frames, dapMu, spent>>

\* The command is done, or the process is killed.
HangsUp(c) ==
    /\ cli[c] = "reading"
    /\ cli' = [cli EXCEPT ![c] = "gone"]
    /\ UNCHANGED <<netVars, registryVars, pc, frames, dapMu, spent>>

-----------------------------------------------------------------------------
(* Handlers *)

Decodes(c, what) ==
    /\ pc[c] = "decoding" /\ requests[c] # <<>>
    /\ Head(requests[c]) = what
    /\ requests' = [requests EXCEPT ![c] = Tail(@)]

\* The end of the stream, or the reset that a close with unread data causes.
DecodeFails(c) ==
    /\ pc[c] = "decoding" /\ cli[c] = "gone"
    /\ Goto(c, "leaving")
    /\ UNCHANGED <<cli, netVars, registryVars, frames, dapMu, spent>>

\* AttachClient comes before the handler notes the clientID.
HandlesHello(c) ==
    /\ Decodes(c, "hello")
    /\ listed' = listed \cup {c}
    /\ Goto(c, "naming")
    /\ UNCHANGED <<cli, unread, registered, named, frames, dapMu, spent>>

TakesName(c) ==
    /\ pc[c] = "naming"
    /\ named' = named \cup {c}
    /\ Goto(c, "replying")
    /\ UNCHANGED <<cli, netVars, registered, listed, frames, dapMu, spent>>

HandlesStatus(c) ==
    /\ Decodes(c, "status")
    /\ Goto(c, "replying")
    /\ UNCHANGED <<cli, unread, registryVars, frames, dapMu, spent>>

\* breakpoint.set and breakpoint.clear broadcast without dapMu.
HandlesBreakpoint(c) ==
    /\ Decodes(c, "breakpoint")
    /\ Broadcasts(c)
    /\ Goto(c, "broadcasting")
    /\ UNCHANGED <<cli, unread, registryVars, dapMu, spent>>

\* attach and stop take dapMu ...
HandlesStop(c) ==
    /\ Decodes(c, "stop")
    /\ Goto(c, "locking")
    /\ UNCHANGED <<cli, unread, registryVars, frames, dapMu, spent>>

\* ... and broadcast while they hold it.
LocksForStop(c) ==
    /\ pc[c] = "locking" /\ dapMu = Free
    /\ dapMu' = c
    /\ Broadcasts(c)
    /\ Goto(c, "broadcasting")
    /\ UNCHANGED <<cli, netVars, registryVars, spent>>

\* Mutant: dapMu is kept until the handler leaves.
KeepsLock(c) ==
    /\ pc[c] = "broadcasting" /\ frames[c] = <<>>
    /\ Goto(c, "replying")
    /\ UNCHANGED <<cli, netVars, registryVars, frames, dapMu, spent>>

BroadcastDone(c) ==
    /\ pc[c] = "broadcasting" /\ frames[c] = <<>>
    /\ dapMu' = IF dapMu = c THEN Free ELSE dapMu
    /\ Goto(c, "replying")
    /\ UNCHANGED <<cli, netVars, registryVars, frames, spent>>

Replies(c) ==
    /\ pc[c] = "replying"
    /\ Delivered(c)
    /\ Goto(c, "decoding")
    /\ UNCHANGED <<cli, requests, registryVars, frames, dapMu, spent>>

ReplyFails(c) ==
    /\ pc[c] = "replying" /\ cli[c] = "gone"
    /\ Goto(c, "leaving")
    /\ UNCHANGED <<cli, netVars, registryVars, frames, dapMu, spent>>

\* Mutant: the connection is closed, the handler not unregistered.
LeavesRegistered(c) ==
    /\ pc[c] = "leaving"
    /\ Goto(c, "closing")
    /\ UNCHANGED <<cli, netVars, registryVars, frames, dapMu, spent>>

\* The deferred function of Run.
Leaves(c) ==
    /\ pc[c] = "leaving"
    /\ Unregister(c, c, <<>>)
    /\ Goto(c, "closing")
    /\ UNCHANGED <<cli, netVars, named, dapMu, spent>>

Closes(c) ==
    /\ pc[c] = "closing" /\ frames[c] = <<>>
    /\ Goto(c, "done")
    /\ UNCHANGED <<cli, netVars, registryVars, frames, dapMu, spent>>

-----------------------------------------------------------------------------
(* The DAP reader, and broadcasts *)

ReaderChanges ==
    /\ pc[Reader] = "idle" /\ dapMu = Free
    /\ spent.events < MaxEvents
    /\ spent' = [spent EXCEPT !.events = @ + 1]
    /\ dapMu' = Reader
    /\ Broadcasts(Reader)
    /\ Goto(Reader, "broadcasting")
    /\ UNCHANGED <<cli, netVars, registryVars>>

\* Mutant: the reader returns early and keeps dapMu.
ReaderKeepsLock ==
    /\ pc[Reader] = "broadcasting" /\ frames[Reader] = <<>>
    /\ Goto(Reader, "idle")
    /\ UNCHANGED <<cli, netVars, registryVars, frames, dapMu, spent>>

ReaderUnlocks ==
    /\ pc[Reader] = "broadcasting" /\ frames[Reader] = <<>>
    /\ dapMu' = Free
    /\ Goto(Reader, "idle")
    /\ UNCHANGED <<cli, netVars, registryVars, frames, spent>>

Sends(g) ==
    /\ frames[g] # <<>> /\ Innermost(frames[g]).to # Free
    /\ Delivered(Innermost(frames[g]).to)
    /\ \E next \in Resumed(frames[g]) : frames' = [frames EXCEPT ![g] = next]
    /\ UNCHANGED <<cli, requests, registryVars, pc, dapMu, spent>>

SendFails(g) ==
    LET c == Innermost(frames[g]).to
    IN  /\ frames[g] # <<>> /\ c # Free
        /\ cli[c] = "gone"
        /\ Unregister(g, c, frames[g])
        /\ UNCHANGED <<cli, netVars, named, pc, dapMu, spent>>

\* A broadcast is over; the one it is nested in goes on.
Returns(g) ==
    /\ frames[g] # <<>> /\ Innermost(frames[g]).to = Free
    /\ \E next \in Resumed(Outer(frames[g])) : frames' = [frames EXCEPT ![g] = next]
    /\ UNCHANGED <<cli, netVars, registryVars, pc, dapMu, spent>>

-----------------------------------------------------------------------------
(* The specification *)

Init ==
    /\ cli = [c \in Clients |-> "off"]
    /\ requests = [c \in Clients |-> <<>>]
    /\ unread = [c \in Clients |-> 0]
    /\ registered = {} /\ listed = {} /\ named = {}
    /\ pc = [g \in Goroutines |-> IF g = Reader THEN "idle" ELSE "none"]
    /\ frames = [g \in Goroutines |-> <<>>]
    /\ dapMu = Free
    /\ spent = [requests |-> 0, events |-> 0]

CLIStep(c) == Connects(c) \/ (\E what \in Requests : Asks(c, what)) \/ HangsUp(c)

\* What a handler does once there is something to do.
HandlerStep(c) ==
    \/ HandlesHello(c) \/ TakesName(c) \/ HandlesStatus(c) \/ HandlesBreakpoint(c)
    \/ HandlesStop(c) \/ LocksForStop(c) \/ BroadcastDone(c)
    \/ Replies(c) \/ ReplyFails(c) \/ DecodeFails(c) \/ Leaves(c) \/ Closes(c)

BroadcastStep(g) == Sends(g) \/ SendFails(g) \/ Returns(g)

\* A goroutine that has begun something goes on with it.
Runs(g) == BroadcastStep(g) \/ (g \in Clients /\ HandlerStep(g)) \/ (g = Reader /\ ReaderUnlocks)

Next ==
    \/ \E c \in Clients : CLIStep(c) \/ Reads(c)
    \/ \E g \in Goroutines : Runs(g)
    \/ ReaderChanges

Spec == Init /\ [][Next]_vars

\* Goroutines run, and a CLI takes what it is sent: Send has no deadline, and one
\* connected CLI that does not read holds up whoever broadcasts, dapMu included.
\* Nobody has to connect, to ask or to hang up, and no DAP message has to come.
FairSpec ==
    /\ Spec
    /\ \A g \in Goroutines : WF_vars(Runs(g))
    /\ \A c \in Clients : WF_vars(Reads(c))

-----------------------------------------------------------------------------
(* Properties *)

\* The types of the variables.
TypeOK ==
    /\ cli \in [Clients -> {"off", "reading", "gone"}]
    /\ requests \in [Clients -> Seq({"hello"} \cup RequestKinds)]
    /\ unread \in [Clients -> 0 .. Buffer]
    /\ registered \subseteq Clients /\ listed \subseteq Clients /\ named \subseteq Clients
    /\ pc \in [Goroutines -> {"none", "idle", "decoding", "naming", "locking",
                              "broadcasting", "replying", "leaving", "closing", "done"}]
    /\ frames \in [Goroutines -> Seq([todo : SUBSET Clients, to : Clients \cup {Free}])]
    /\ dapMu \in Goroutines \cup {Free}
    /\ spent \in [requests : 0 .. MaxRequests, events : 0 .. MaxEvents]

\* The CLIs that users see in the session are those whose handler still runs.  A
\* broadcast may unregister a CLI before its hello is handled or its clientID
\* noted, so that the handler must unregister it once more (app.go:129).
ListedHasHandler == \A c \in listed : pc[c] \notin {"none", "closing", "done"}

\* A broadcast to CLIs that are gone nests at most once for each of them: each
\* one is out of App.clients before the others are told (Broadcast, unregister).
RecursionBounded == \A g \in Goroutines : Len(frames[g]) <= Cardinality(Clients) + 1

\* Whoever broadcasts in dapMu gets out of it, however many CLIs are leaving at
\* the time, and whoever unregisters them.
LockReturns == (dapMu # Free) ~> (dapMu = Free)

\* CLIs that went away are forgotten, by the daemon and by the session, although
\* their handlers and every broadcast to them unregister them at the same time.
Forgotten == \A c \in Clients : cli[c] = "gone" => c \notin listed \cup registered
Departed == ~Forgotten ~> Forgotten

\* Every request of a CLI that stays is handled and answered, also while others
\* hold dapMu or leave.
Served == \A c \in Clients :
    cli[c] = "reading" => requests[c] = <<>> /\ pc[c] = "decoding"
RequestsServed == ~Served ~> Served

=============================================================================
