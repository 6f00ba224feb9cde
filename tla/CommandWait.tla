---------------------------- MODULE CommandWait ----------------------------
(***************************************************************************)
(* One CLI connection, from the request of a command to its return:        *)
(* requestWait, waitForSnapshot and readerLoop (internal/cli/client.go)    *)
(* against ClientHandler.Run (internal/daemon/handler.go) and Broadcast    *)
(* (internal/daemon/app.go).                                               *)
(*                                                                         *)
(* A command does not wait for its response but for a session snapshot     *)
(* that differs from the one it began with and satisfies a predicate.      *)
(* Snapshots reach the CLI from three kinds of daemon goroutines: its own  *)
(* handler, goroutines that change the session under dapMu (the DAP        *)
(* reader and waiter, other handlers in attach or stop), and goroutines    *)
(* that touch it without dapMu (other CLIs coming and going, breakpoints). *)
(* Each first takes the snapshot and then sends it.                        *)
(*                                                                         *)
(* A snapshot is [version, lifecycle]: updated_at is drawn anew by every   *)
(* change, and denoted by the number of changes.                           *)
(***************************************************************************)
EXTENDS Integers, Sequences

CONSTANTS
    Handler,       \* the goroutine that serves this connection
    Lockers,       \* goroutines that change the session and broadcast in dapMu
    Touchers,      \* goroutines that touch the session and broadcast without
    Free,          \* dapMu is unlocked
    Commands,      \* the commands run on this connection, of CommandKinds
    Seen,          \* the lifecycles a session begins with or is moved to
    MessageLimit,  \* messages a CLI keeps (500 in readerLoop)
    MaxChanges,    \* bound: changes of the session by others
    MaxCommands    \* bound: commands run (the shell runs many)

CommandKinds == {"status", "attach", "continue", "pause", "stop"}
Lifecycles ==
    {"idle", "initializing", "running", "stopped", "terminated", "exited"}
Goroutines == {Handler} \cup Lockers \cup Touchers

ASSUME ActorsAssumption ==
    /\ Handler \notin Lockers \cup Touchers
    /\ Lockers \cap Touchers = {}
    /\ Free \notin Goroutines
    /\ Commands \subseteq CommandKinds
    /\ Seen \subseteq Lifecycles
ASSUME LimitsAssumption ==
    MessageLimit \in Nat \ {0} /\ MaxChanges \in Nat /\ MaxCommands \in Nat

VARIABLES
    session,    \* the snapshot a reader of the Session would take now
    dapMu,      \* the goroutine that holds App.dapMu, or Free
    carrying,   \* the envelope each daemon goroutine is about to send; in_dapMu
                \* records whether its snapshot was taken and is sent in dapMu
    handling,   \* the request the handler is working on
    requests,   \* envelopes on their way from the CLI
    wire,       \* envelopes on their way to the CLI
    link,       \* the connection: "up" or "down"
    view,       \* ClientApp.snapshot
    messages,   \* ClientApp.messages
    wait,       \* where the command stands, and what it waits for
    timer,      \* the AfterFunc timer of the wait
    outcome,    \* how the last command ended
    refused,    \* history: the requests the daemon answered with an error
    changes     \* how much of MaxChanges is used

daemonVars == <<session, dapMu, carrying, handling, refused, changes>>
cliVars == <<view, messages, wait, timer, outcome>>
vars == <<session, dapMu, carrying, handling, requests, wire, link, view,
          messages, wait, timer, outcome, refused, changes>>

NoSnapshot == [version |-> 0, lifecycle |-> "none"]
Nothing == [kind |-> "none", id |-> 0, snap |-> NoSnapshot, in_dapMu |-> FALSE]
NoRequest == [id |-> 0, what |-> "none"]
NoView == [snap |-> NoSnapshot, in_dapMu |-> FALSE]
NotRun == [id |-> 0, result |-> "none", view |-> NoView]

-----------------------------------------------------------------------------
(* The daemon *)

Changed(lifecycle) ==
    [version |-> session.version + 1, lifecycle |-> lifecycle]

Carry(g, kind, id, snap) ==
    carrying' = [carrying EXCEPT ![g] =
        [kind |-> kind, id |-> id, snap |-> snap,
         in_dapMu |-> kind = "event" /\ g \notin Touchers]]

\* A locker changes the session and, still holding dapMu, broadcasts it.
LockerChanges(g) ==
    /\ link = "up" /\ changes < MaxChanges
    /\ dapMu = Free /\ carrying[g] = Nothing
    /\ dapMu' = g
    /\ \E lifecycle \in Seen : session' = Changed(lifecycle)
    /\ Carry(g, "event", 0, session')
    /\ changes' = changes + 1
    /\ UNCHANGED <<handling, requests, wire, link, cliVars, refused>>

\* AttachClient, DetachClient and the breakpoint requests leave the lifecycle.
Touches(g) ==
    /\ link = "up" /\ changes < MaxChanges
    /\ carrying[g] = Nothing
    /\ session' = Changed(session.lifecycle)
    /\ Carry(g, "event", 0, session')
    /\ changes' = changes + 1
    /\ UNCHANGED <<dapMu, handling, requests, wire, link, cliVars, refused>>

\* Mutant: the session is changed under dapMu, but broadcast after it.
UnlocksFirst(g) ==
    /\ carrying[g] # Nothing
    /\ \/ dapMu = g /\ dapMu' = Free /\ UNCHANGED <<carrying, wire>>
       \/ /\ dapMu # g /\ UNCHANGED dapMu
          /\ wire' = IF link = "up" THEN Append(wire, carrying[g]) ELSE wire
          /\ carrying' = [carrying EXCEPT ![g] = Nothing]
    /\ UNCHANGED <<session, handling, requests, link, cliVars, refused, changes>>

\* ClientHandler.Send, then the unlock of whoever holds dapMu.
Sends(g) ==
    /\ carrying[g] # Nothing
    /\ wire' = IF link = "up" THEN Append(wire, carrying[g]) ELSE wire
    /\ carrying' = [carrying EXCEPT ![g] = Nothing]
    /\ dapMu' = IF dapMu = g THEN Free ELSE dapMu
    /\ UNCHANGED <<session, handling, requests, link, cliVars, refused, changes>>

HandlerTakes(what) ==
    /\ link = "up"
    /\ handling = NoRequest /\ carrying[Handler] = Nothing
    /\ requests # <<>>
    /\ Head(requests).what = what
    /\ requests' = Tail(requests)

\* hello: AttachClient, and the snapshot that it returns.
HandlesHello ==
    /\ HandlerTakes("hello")
    /\ session' = Changed(session.lifecycle)
    /\ Carry(Handler, "hello", 0, session')
    /\ UNCHANGED <<dapMu, handling, wire, link, cliVars, refused, changes>>

\* A request that leaves the session to the adapter's later answers.
HandlesQuery ==
    /\ \E what \in {"status", "continue", "pause"} : HandlerTakes(what)
    /\ Carry(Handler, "response", Head(requests).id, session)
    /\ UNCHANGED <<session, dapMu, handling, wire, link, cliVars, refused, changes>>

\* attach and stop change the session under dapMu, broadcast, and answer later.
HandlesChange ==
    /\ \/ HandlerTakes("attach") /\ session' = Changed("initializing")
       \/ HandlerTakes("stop") /\ session' = Changed("terminated")
    /\ dapMu = Free
    /\ dapMu' = Handler
    /\ Carry(Handler, "event", 0, session')
    /\ handling' = Head(requests)
    /\ UNCHANGED <<wire, link, cliVars, refused, changes>>

\* No adapter, no thread; or, after the session was reset, no connection, when
\* the error leaves without a broadcast.
HandlesRefusing ==
    /\ \/ /\ \E what \in {"continue", "pause"} : HandlerTakes(what)
          /\ UNCHANGED session
       \/ /\ HandlerTakes("attach")
          /\ dapMu = Free
          /\ session' = Changed("initializing")
    /\ Carry(Handler, "error", Head(requests).id, NoSnapshot)
    /\ refused' = refused \cup {Head(requests).id}
    /\ UNCHANGED <<dapMu, handling, wire, link, cliVars, changes>>

\* The response carries the session as it is by now.
Responds ==
    /\ link = "up"
    /\ handling # NoRequest /\ carrying[Handler] = Nothing
    /\ Carry(Handler, "response", handling.id, session)
    /\ handling' = NoRequest
    /\ UNCHANGED <<session, dapMu, requests, wire, link, cliVars, refused, changes>>

\* The daemon exits or dies.
LinkBreaks ==
    /\ link = "up"
    /\ link' = "down"
    /\ UNCHANGED <<daemonVars, requests, wire, cliVars>>

-----------------------------------------------------------------------------
(* The CLI *)

Woken == IF wait.pc = "asleep" THEN [wait EXCEPT !.pc = "awake"] ELSE wait

\* Mutant: one message too many is kept.
LastAndOneMore(seq, n) ==
    SubSeq(seq, IF Len(seq) > n THEN Len(seq) - n ELSE 1, Len(seq))

Last(seq, n) ==
    SubSeq(seq, IF Len(seq) > n THEN Len(seq) - n + 1 ELSE 1, Len(seq))

\* readerLoop: the newest snapshot replaces the one before, whoever sent it.
\* When the connection ends the loop ends too, and wakes nobody.
Receives ==
    /\ wire # <<>>
    /\ wire' = Tail(wire)
    /\ LET m == Head(wire)
       IN  /\ view' = IF m.kind = "error" THEN view
                      ELSE [snap |-> m.snap, in_dapMu |-> m.in_dapMu]
           /\ messages' = Last(Append(messages, [kind |-> m.kind, id |-> m.id]),
                               MessageLimit)
    /\ wait' = Woken
    /\ UNCHANGED <<daemonVars, requests, link, timer, outcome>>

\* Mutant: the timer expires, but nobody is woken.
ExpiresSilently ==
    /\ timer = "set"
    /\ timer' = "expired"
    /\ UNCHANGED <<daemonVars, requests, wire, link, view, messages, wait, outcome>>

\* The timer's function broadcasts on the condition variable.
Expires ==
    /\ timer = "set"
    /\ timer' = "expired"
    /\ wait' = Woken
    /\ UNCHANGED <<daemonVars, requests, wire, link, view, messages, outcome>>

\* RunCommand notes updated_at, sends its request and starts to wait.
Runs(what) ==
    /\ wait.pc = "idle"
    /\ wait.id < MaxCommands
    /\ IF link = "up"
       THEN /\ requests' = Append(requests, [id |-> wait.id + 1, what |-> what])
            /\ wait' = [pc |-> "awake", id |-> wait.id + 1, what |-> what,
                        baseline |-> view]
            /\ timer' = "set"
            /\ outcome' = NotRun
       ELSE /\ wait' = [wait EXCEPT !.id = @ + 1]
            /\ outcome' = [NotRun EXCEPT !.id = wait.id + 1, !.result = "send failed"]
            /\ UNCHANGED <<requests, timer>>
    /\ UNCHANGED <<daemonVars, wire, link, view, messages>>

Allowed ==
    [attach |-> {"running", "stopped", "terminated", "exited"},
     continue |-> {"running", "stopped", "terminated", "exited"},
     pause |-> {"stopped", "terminated", "exited"},
     stop |-> {"terminated"},
     status |-> Lifecycles,
     hello |-> Lifecycles]

\* Mutant: the first error among the messages is taken for the own one.
AnyRefusal == \E i \in 1..Len(messages) : messages[i].kind = "error"

OwnRefusal ==
    \E i \in 1..Len(messages) :
        messages[i].kind = "error" /\ messages[i].id = wait.id

Satisfied ==
    /\ view.snap # NoSnapshot
    /\ view.snap.lifecycle \in Allowed[wait.what]
    /\ wait.what \in {"status", "hello"} \/ view.snap.version # wait.baseline.snap.version

Ends(result) ==
    /\ outcome' = [id |-> wait.id, result |-> result, view |-> view]
    /\ wait' = [wait EXCEPT !.pc =
                   IF wait.what = "hello" /\ result # "ok" THEN "hung up" ELSE "idle"]
    /\ timer' = "off"

\* One round of the loop in requestWait: the own error comes first, then the
\* predicate, then the deadline; otherwise cond.Wait.  (waitForSnapshot is the
\* same loop without the look for an error: hello has no request ID.)
Looks ==
    /\ wait.pc = "awake"
    /\ IF wait.what # "hello" /\ OwnRefusal THEN Ends("refused")
       ELSE IF Satisfied THEN Ends("ok")
       ELSE IF timer = "expired" THEN Ends("timed out")
       ELSE /\ wait' = [wait EXCEPT !.pc = "asleep"]
            /\ UNCHANGED <<timer, outcome>>
    /\ UNCHANGED <<daemonVars, requests, wire, link, view, messages>>

-----------------------------------------------------------------------------
(* The specification *)

\* NewClientApp said hello and waits for a first snapshot; its handler gets all
\* broadcasts from the moment it is registered.
Init ==
    /\ \E lifecycle \in Seen :
          session = [version |-> 1, lifecycle |-> lifecycle]
    /\ dapMu = Free
    /\ carrying = [g \in Goroutines |-> Nothing]
    /\ handling = NoRequest
    /\ requests = <<[id |-> 0, what |-> "hello"]>>
    /\ wire = <<>>
    /\ link = "up"
    /\ view = NoView
    /\ messages = <<>>
    /\ wait = [pc |-> "awake", id |-> 0, what |-> "hello", baseline |-> NoView]
    /\ timer = "set"
    /\ outcome = NotRun
    /\ refused = {}
    /\ changes = 0

HandlerStep ==
    \/ HandlesHello \/ HandlesQuery \/ HandlesChange \/ HandlesRefusing
    \/ Responds

Next ==
    \/ \E g \in Lockers : LockerChanges(g)
    \/ \E g \in Touchers : Touches(g)
    \/ \E g \in Goroutines : Sends(g)
    \/ HandlerStep \/ LinkBreaks
    \/ Receives \/ Expires \/ Looks
    \/ \E what \in Commands : Runs(what)

Spec == Init /\ [][Next]_vars

\* A command that is awake runs, and time passes.
FairSpec == Spec /\ WF_vars(Looks) /\ WF_vars(Expires)

-----------------------------------------------------------------------------
(* Properties *)

SnapshotType == [version : Nat, lifecycle : Lifecycles \cup {"none"}]
ViewType == [snap : SnapshotType, in_dapMu : BOOLEAN]
RequestType == [id : 0..MaxCommands, what : CommandKinds \cup {"hello", "none"}]
MessageKinds == {"event", "hello", "response", "error"}
EnvelopeType ==
    [kind : MessageKinds \cup {"none"}, id : 0..MaxCommands, snap : SnapshotType,
     in_dapMu : BOOLEAN]

DaemonOK ==
    /\ session \in SnapshotType
    /\ dapMu \in Goroutines \cup {Free}
    /\ carrying \in [Goroutines -> EnvelopeType]
    /\ handling \in RequestType
    /\ refused \subseteq 1..MaxCommands
    /\ changes \in 0..MaxChanges

WireOK ==
    /\ requests \in Seq(RequestType)
    /\ wire \in Seq(EnvelopeType)
    /\ link \in {"up", "down"}

CliOK ==
    /\ view \in ViewType
    /\ messages \in Seq([kind : MessageKinds, id : 0..MaxCommands])
    /\ Len(messages) <= MessageLimit
    /\ wait \in [pc : {"awake", "asleep", "idle", "hung up"}, id : 0..MaxCommands,
                 what : CommandKinds \cup {"hello"}, baseline : ViewType]
    /\ timer \in {"off", "set", "expired"}
    /\ outcome \in [id : 0..MaxCommands, view : ViewType,
          result : {"none", "ok", "refused", "timed out", "send failed"}]

\* Every variable keeps its shape, and a CLI that follows a session for hours
\* keeps no more than MessageLimit messages.
TypeOK == DaemonOK /\ WireOK /\ CliOK

\* A command fails with an error of the daemon only if its own request was
\* refused: the error of an earlier command of the same shell, which returned
\* on some broadcast before its error came, is still among the messages.
RefusedForItsOwn == outcome.result = "refused" => outcome.id \in refused

\* The state a command reports is newer than the one it began with -- if both
\* came in broadcasts sent under dapMu.  "changed" only compares for
\* difference, and what is sent without dapMu (the answers to hello and to
\* requests, the broadcasts for CLIs coming and going) may overtake.
NewerThanBaseline ==
    outcome.result = "ok" /\ wait.what \notin {"hello", "status"}
        /\ outcome.view.in_dapMu /\ wait.baseline.in_dapMu
    => outcome.view.snap.version > wait.baseline.snap.version

\* Every command returns, also when the daemon is gone and the ended readerLoop
\* wakes nobody.
CommandReturns ==
    wait.pc \in {"awake", "asleep"} ~> wait.pc \in {"idle", "hung up"}

=============================================================================
