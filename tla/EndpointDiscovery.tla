------------------------- MODULE EndpointDiscovery -------------------------
(***************************************************************************)
(* How CLIs find the daemon of a project, or start it: EnsureDaemon,       *)
(* verifyEndpoint and connectApp (internal/cli/client.go, root.go), the    *)
(* endpoint file (internal/endpoint/endpoint.go), and the part of Serve    *)
(* (internal/daemon/app.go) that publishes and withdraws it.               *)
(*                                                                         *)
(* CLIs and daemons are processes of their own, which share only the file  *)
(* and TCP ports.  The endpoint that daemon d publishes (host, port, PID   *)
(* and a fresh token) is denoted by d; its port is port[d].                *)
(* Ports are used again, by daemons of this project or of others.          *)
(***************************************************************************)
EXTENDS Integers, FiniteSets

CONSTANTS
    Clients,       \* terminals, each running one dap command at a time
    Ports,         \* the TCP ports the system hands out
    ShutdownUsed,  \* whether dap shutdown is among the commands
    Strangers,     \* whether daemons of other projects are about
    MaxDaemons,    \* bound: daemons ever started
    MaxCommands,   \* bound: dap commands run
    MaxCrashes,    \* bound: daemons killed, or failing to start
    MaxTimeouts    \* bound: attempts given up although they would succeed

ASSUME DiscoveryAssumption ==
    /\ ShutdownUsed \in BOOLEAN /\ Strangers \in BOOLEAN
    /\ MaxDaemons \in Nat
    /\ MaxCommands \in Nat
    /\ MaxCrashes \in Nat
    /\ MaxTimeouts \in Nat

Daemons == 1..MaxDaemons
Nobody == 0
Empty == 0          \* the text of a file just created or truncated
Garbled == -1       \* text that json.Unmarshal rejects
NoPort == "no port"

VARIABLES
    daemon,   \* where each daemon process stands
    port,     \* the port each daemon got from net.Listen
    opened,   \* the inode a daemon's os.WriteFile holds open
    file,     \* the endpoint file: its inode (0: no file) and its text
    pc,       \* where each dap command stands
    ep,       \* the endpoint a command read
    peer,     \* the daemon a command is connected to
    visited,  \* the daemons that took in a CLI, and broadcast since
    spent     \* how much of the bounds is used

daemonVars == <<daemon, port, opened>>
clientVars == <<pc, ep, peer, visited>>
vars == <<daemon, port, opened, file, pc, ep, peer, visited, spent>>

Starting == {"starting", "listening", "writing"}
Bound == {"listening", "writing", "serving", "stopping"}
Alive == Starting \cup {"serving", "stopping", "closing", "leaving"}
Looking == {"reading", "checking", "spawning", "polling", "rechecking", "found"}

Spend(what) == spent' = [spent EXCEPT ![what] = @ + 1]

-----------------------------------------------------------------------------
(* The daemon process *)

To(d, place) == daemon' = [daemon EXCEPT ![d] = place]

Listen(d) ==
    /\ daemon[d] = "starting"
    /\ To(d, "listening")
    /\ \E p \in Ports :
          /\ \A other \in Daemons : daemon[other] \in Bound => port[other] # p
          /\ port' = [port EXCEPT ![d] = p]
    /\ UNCHANGED <<opened, file, clientVars, spent>>

\* Mutant: Serve accepts connections before it writes the endpoint.
OpenEndpointLate(d) ==
    LET inode == IF file.inode = Nobody THEN d ELSE file.inode
    IN  /\ daemon[d] = "listening"
        /\ To(d, "serving")
        /\ file' = [inode |-> inode, text |-> Empty]
        /\ opened' = [opened EXCEPT ![d] = inode]
        /\ UNCHANGED <<port, clientVars, spent>>

\* os.WriteFile creates the file or truncates the one that is there, ...
OpenEndpoint(d) ==
    LET inode == IF file.inode = Nobody THEN d ELSE file.inode
    IN  /\ daemon[d] = "listening"
        /\ To(d, "writing")
        /\ file' = [inode |-> inode, text |-> Empty]
        /\ opened' = [opened EXCEPT ![d] = inode]
        /\ UNCHANGED <<port, clientVars, spent>>

\* ... then writes from its start.  When the file was removed meanwhile nobody
\* sees the text; over the text of another daemon, a longer one leaves its tail.
WriteEndpoint(d) ==
    /\ daemon[d] = "writing"
    /\ To(d, "serving")
    /\ IF opened[d] = file.inode
       THEN \E text \in {d} \cup (IF file.text = Empty THEN {} ELSE {Garbled}) :
               file' = [file EXCEPT !.text = text]
       ELSE UNCHANGED file
    /\ UNCHANGED <<port, opened, clientVars, spent>>

\* Shutdown: StopSession is through, the listener closes and Accept fails.
CloseListener(d) ==
    /\ daemon[d] = "stopping"
    /\ To(d, "closing")
    /\ UNCHANGED <<port, opened, file, clientVars, spent>>

\* Mutant: Serve returns without its deferred function.
RemoveNothing(d) ==
    /\ daemon[d] = "closing"
    /\ To(d, "leaving")
    /\ UNCHANGED <<port, opened, file, clientVars, spent>>

\* The deferred endpoint.Remove takes whatever file is there.
RemoveEndpoint(d) ==
    /\ daemon[d] = "closing"
    /\ To(d, "leaving")
    /\ file' = [inode |-> Nobody, text |-> Empty]
    /\ UNCHANGED <<port, opened, clientVars, spent>>

Exit(d) ==
    /\ daemon[d] = "leaving"
    /\ To(d, "gone")
    /\ UNCHANGED <<port, opened, file, clientVars, spent>>

\* Killed, or Serve returned an error; the file stays as it is.
Crash(d) ==
    /\ spent.crashes < MaxCrashes
    /\ daemon[d] \in Alive
    /\ To(d, "gone")
    /\ Spend("crashes")
    /\ UNCHANGED <<port, opened, file, clientVars>>

-----------------------------------------------------------------------------
(* The dap command *)

Goto(c, place) == pc' = [pc EXCEPT ![c] = place]

\* The listener is open until Shutdown closes it.
Accepts(d) == daemon[d] \in {"serving", "stopping"}

\* A dial to the port in endpoint e reaches daemon d.
Dials(d, e) == port[d] = port[e] /\ Accepts(d)

\* App.Handle accepts the token that the hello takes from e if it is d's own,
\* and answers with a snapshot.
Answers(d, e) == d = e /\ Dials(d, e)

\* A connection is registered before its token is looked at, and a CLI takes any
\* snapshot for the answer: also one that the daemon at this port, of this project
\* or (Nobody) of another, broadcasts to the CLIs it knows.
Overheard(d, e) ==
    \/ d \in visited /\ Dials(d, e)
    \/ /\ Strangers /\ d = Nobody
       /\ \A own \in Daemons : daemon[own] \in Bound => port[own] # port[e]

\* NewClientApp: connect, say hello, see a snapshot of d.
Reaches(c, d) ==
    \/ Answers(d, ep[c]) /\ visited' = visited \cup {d}
    \/ Overheard(d, ep[c]) /\ UNCHANGED visited

Begin(c) ==
    /\ pc[c] = "idle"
    /\ spent.commands < MaxCommands
    /\ Spend("commands")
    /\ Goto(c, "reading")
    /\ UNCHANGED <<daemonVars, file, ep, peer, visited>>

Readable == file.inode # Nobody /\ file.text \in Daemons

\* Mutant: an endpoint that can be read is taken at its word.
ReadEndpointUnverified(c) ==
    /\ pc[c] \in {"reading", "polling"}
    /\ IF Readable
       THEN Goto(c, "found") /\ ep' = [ep EXCEPT ![c] = file.text]
       ELSE pc[c] = "reading" /\ Goto(c, "spawning") /\ UNCHANGED ep
    /\ UNCHANGED <<daemonVars, file, peer, visited, spent>>

\* Mutant: the JSON error of a truncated or garbled file is ignored.
ReadEndpointTorn(c) ==
    /\ pc[c] \in {"reading", "polling"}
    /\ IF file.inode # Nobody
       THEN /\ Goto(c, IF pc[c] = "reading" THEN "checking" ELSE "rechecking")
            /\ ep' = [ep EXCEPT ![c] = file.text]
       ELSE pc[c] = "reading" /\ Goto(c, "spawning") /\ UNCHANGED ep
    /\ UNCHANGED <<daemonVars, file, peer, visited, spent>>

\* endpoint.Read; a poll that finds no endpoint sleeps and reads again.
ReadEndpoint(c) ==
    /\ pc[c] \in {"reading", "polling"}
    /\ IF Readable
       THEN /\ Goto(c, IF pc[c] = "reading" THEN "checking" ELSE "rechecking")
            /\ ep' = [ep EXCEPT ![c] = file.text]
       ELSE pc[c] = "reading" /\ Goto(c, "spawning") /\ UNCHANGED ep
    /\ UNCHANGED <<daemonVars, file, peer, visited, spent>>

\* verifyEndpoint: connect and hang up again.
Verified(c) ==
    /\ pc[c] \in {"checking", "rechecking"}
    /\ \E d \in Daemons \cup {Nobody} : Reaches(c, d)
    /\ Goto(c, "found")
    /\ UNCHANGED <<daemonVars, file, ep, peer, spent>>

\* An attempt fails when nobody answers, as nothing need be overheard in the 3
\* seconds it lasts; a timeout may fail any attempt.
AttemptFails(c) ==
    IF \E d \in Daemons : Answers(d, ep[c])
    THEN spent.timeouts < MaxTimeouts /\ Spend("timeouts")
    ELSE UNCHANGED spent

NotVerified(c) ==
    /\ \/ pc[c] = "checking" /\ Goto(c, "spawning")
       \/ pc[c] = "rechecking" /\ Goto(c, "polling")
    /\ AttemptFails(c)
    /\ UNCHANGED <<daemonVars, file, ep, peer, visited>>

\* Mutant: each round of the loop starts a daemon.
SpawnAgain(c) ==
    /\ pc[c] \in {"spawning", "polling"}
    /\ \E d \in Daemons :
          /\ daemon[d] = "none"
          /\ \A older \in 1..(d - 1) : daemon[older] # "none"
          /\ To(d, "starting")
    /\ Goto(c, "polling")
    /\ UNCHANGED <<port, opened, file, ep, peer, visited, spent>>

\* cmd.Start: the next daemon process.
Spawn(c) ==
    /\ pc[c] = "spawning"
    /\ \E d \in Daemons :
          /\ daemon[d] = "none"
          /\ \A older \in 1..(d - 1) : daemon[older] # "none"
          /\ To(d, "starting")
    /\ Goto(c, "polling")
    /\ UNCHANGED <<port, opened, file, ep, peer, visited, spent>>

\* The 8 seconds are over: by then a daemon that can start has started, unless
\* a timeout is spent.
GiveUp(c) ==
    /\ pc[c] = "polling"
    /\ IF \/ \E d \in Daemons : daemon[d] \in Starting
          \/ Readable /\ Accepts(file.text)
       THEN spent.timeouts < MaxTimeouts /\ Spend("timeouts")
       ELSE UNCHANGED spent
    /\ Goto(c, "failed")
    /\ UNCHANGED <<daemonVars, file, ep, peer, visited>>

\* connectApp connects once more, to run the command.
Connect(c) ==
    /\ pc[c] = "found"
    /\ \E d \in Daemons \cup {Nobody} :
          Reaches(c, d) /\ peer' = [peer EXCEPT ![c] = d]
    /\ Goto(c, "connected")
    /\ UNCHANGED <<daemonVars, file, ep, spent>>

ConnectFails(c) ==
    /\ pc[c] = "found"
    /\ AttemptFails(c)
    /\ Goto(c, "failed")
    /\ UNCHANGED <<daemonVars, file, ep, peer, visited>>

\* dap shutdown: the command sees the terminated snapshot at the end of
\* StopSession, when the listener is still open, and may return from then on.  A
\* daemon whose token the command does not have refuses it.
RequestShutdown(c) ==
    /\ ShutdownUsed
    /\ pc[c] = "connected" /\ peer[c] = ep[c]
    /\ daemon[peer[c]] = "serving"
    /\ To(peer[c], "stopping")
    /\ UNCHANGED <<port, opened, file, clientVars, spent>>

\* The command returns, whatever became of the daemon.
Return(c) ==
    /\ pc[c] \in {"connected", "failed"}
    /\ Goto(c, "idle")
    /\ ep' = [ep EXCEPT ![c] = Nobody]
    /\ peer' = [peer EXCEPT ![c] = Nobody]
    /\ UNCHANGED <<daemonVars, file, visited, spent>>

-----------------------------------------------------------------------------
(* The specification *)

Init ==
    /\ daemon = [d \in Daemons |-> "none"]
    /\ port = [d \in Daemons |-> NoPort]
    /\ opened = [d \in Daemons |-> Nobody]
    /\ file = [inode |-> Nobody, text |-> Empty]
    /\ pc = [c \in Clients |-> "idle"]
    /\ ep = [c \in Clients |-> Nobody]
    /\ peer = [c \in Clients |-> Nobody]
    /\ visited = {}
    /\ spent = [commands |-> 0, crashes |-> 0, timeouts |-> 0]

DaemonStep(d) ==
    \/ Listen(d) \/ OpenEndpoint(d) \/ WriteEndpoint(d)
    \/ CloseListener(d) \/ RemoveEndpoint(d) \/ Exit(d)

EnsureDaemon(c) ==
    \/ ReadEndpoint(c) \/ Verified(c) \/ NotVerified(c) \/ Spawn(c) \/ GiveUp(c)
    \/ Connect(c) \/ ConnectFails(c)

Next ==
    \/ \E d \in Daemons : DaemonStep(d) \/ Crash(d)
    \/ \E c \in Clients :
          Begin(c) \/ EnsureDaemon(c) \/ RequestShutdown(c) \/ Return(c)

Spec == Init /\ [][Next]_vars

\* Processes run; nobody has to begin a command, to shut down or to crash.
FairSpec ==
    /\ Spec
    /\ \A d \in Daemons : WF_vars(DaemonStep(d))
    /\ \A c \in Clients : WF_vars(EnsureDaemon(c))

-----------------------------------------------------------------------------
(* Properties *)

DaemonsOK ==
    /\ daemon \in [Daemons -> Alive \cup {"none", "gone"}]
    /\ port \in [Daemons -> Ports \cup {NoPort}]
    /\ opened \in [Daemons -> Daemons \cup {Nobody}]
    /\ file \in [inode : Daemons \cup {Nobody},
                 text : Daemons \cup {Empty, Garbled}]

CommandsOK ==
    /\ pc \in [Clients -> Looking \cup {"idle", "connected", "failed"}]
    /\ ep \in [Clients -> Daemons \cup {Nobody}]
    /\ peer \in [Clients -> Daemons \cup {Nobody}]
    /\ visited \subseteq Daemons
    /\ spent \in [commands : 0..MaxCommands, crashes : 0..MaxCrashes,
                  timeouts : 0..MaxTimeouts]
    /\ \A c \in Clients :
          pc[c] \in {"checking", "rechecking", "found"} => ep[c] # Nobody

\* Every variable keeps its shape, and a command that dials has an endpoint:
\* text that a daemon is still writing is never taken for one.
TypeOK == DaemonsOK /\ CommandsOK

\* A daemon that serves is the one the endpoint file names, unless another
\* daemon of the project came as far as to open that file or to remove it:
\* nothing else in EnsureDaemon or Serve cuts a daemon off from its CLIs.
CutOffOnlyByAnother ==
    \A d \in Daemons :
        daemon[d] = "serving" =>
            \/ file = [inode |-> opened[d], text |-> d]
            \/ \E other \in Daemons \ {d} : opened[other] # Nobody

\* The file names a daemon that is gone only after a crash: one that leaves in
\* order takes its endpoint along, however it races with its successor.
StaleOnlyByCrash ==
    \A d \in Daemons :
        file.text = d /\ daemon[d] = "gone" => spent.crashes > 0

\* Commands that follow one another, with no shutdown among them and no timeout
\* too short, share one daemon, also when a daemon is killed at any point of
\* its start and leaves a stale or half-written file behind.
OneDaemon == Cardinality({d \in Daemons : daemon[d] \in Alive}) <= 1

\* Once daemons no longer crash, a command that looks for one gets connected to
\* the one that wrote the endpoint it read: no stale, missing or half-written
\* endpoint file is in its way.
Connects ==
    \A c \in Clients :
        pc[c] = "reading" /\ spent.crashes = MaxCrashes ~>
            pc[c] = "connected" /\ peer[c] = ep[c]

InMotion ==
    \/ \E d \in Daemons : daemon[d] \in Alive \ {"serving"}
    \/ \E c \in Clients : pc[c] \in Looking

\* The daemon is persistent and can be discovered: when nobody is starting or
\* stopping one, the endpoint file leads to every daemon that serves.
Discoverable ==
    ~InMotion =>
        \A d \in Daemons : daemon[d] = "serving" => file.text = d

=============================================================================
