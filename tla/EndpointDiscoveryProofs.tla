----------------------- MODULE EndpointDiscoveryProofs -----------------------
(***************************************************************************)
(* Proofs about EndpointDiscovery, for any number of terminals, daemons,   *)
(* commands, crashes and timeouts.                                         *)
(*                                                                         *)
(* The invariant follows a daemon from the moment it opens the endpoint    *)
(* file: from then on it holds an inode, until it writes nobody else must  *)
(* have touched the file, and its text outlives it only by a crash.        *)
(***************************************************************************)
EXTENDS EndpointDiscovery, FiniteSetTheorems, TLAPS

\* A daemon that came as far as to open the endpoint file holds an inode.
OpenedInv ==
    \A d \in Daemons :
        daemon[d] \in {"writing", "serving", "stopping", "closing"} => opened[d] # Nobody

\* Another daemon of the project opened the endpoint file at some time.
Disturbed(d) == \E other \in Daemons \ {d} : opened[other] # Nobody

\* Between opening the file and writing it, it is empty.
WritingInv ==
    \A d \in Daemons :
        daemon[d] = "writing" =>
            file = [inode |-> opened[d], text |-> Empty] \/ Disturbed(d)

\* Who the file names has not withdrawn it yet.
NamedInv ==
    \A d \in Daemons :
        file.text = d =>
            daemon[d] \in {"serving", "stopping", "closing"} \/ spent.crashes > 0

IInv == TypeOK /\ OpenedInv /\ WritingInv /\ NamedInv /\ CutOffOnlyByAnother

-----------------------------------------------------------------------------
(* Daemons *)

LEMMA ListenKeeps == ASSUME IInv, NEW d \in Daemons, Listen(d) PROVE IInv'
  BY DEF IInv, TypeOK, DaemonsOK, CommandsOK, OpenedInv, WritingInv, NamedInv, Disturbed,
         CutOffOnlyByAnother, Listen, To, clientVars, Starting, Alive

LEMMA OpenKeeps == ASSUME IInv, NEW d \in Daemons, OpenEndpoint(d) PROVE IInv'
<1> DEFINE inode == IF file.inode = Nobody THEN d ELSE file.inode
<1>1. /\ inode \in Daemons /\ inode # Nobody
      /\ daemon' = [daemon EXCEPT ![d] = "writing"]
      /\ file' = [inode |-> inode, text |-> Empty]
      /\ opened' = [opened EXCEPT ![d] = inode]
      /\ UNCHANGED <<port, pc, ep, peer, visited, spent>>
  BY DiscoveryAssumption
  DEF IInv, TypeOK, DaemonsOK, OpenEndpoint, To, clientVars, Daemons, Nobody
<1> HIDE DEF inode
<1>2. opened'[d] # Nobody /\ \A o \in Daemons \ {d} : opened'[o] = opened[o]
  BY <1>1 DEF IInv, TypeOK, DaemonsOK
<1>3. TypeOK'
  BY <1>1 DEF IInv, TypeOK, DaemonsOK, CommandsOK, Starting, Alive
<1>4. OpenedInv'
  BY <1>1, <1>2 DEF IInv, TypeOK, DaemonsOK, OpenedInv
<1>5. WritingInv' /\ CutOffOnlyByAnother'
  BY <1>1, <1>2
  DEF IInv, TypeOK, DaemonsOK, WritingInv, Disturbed, CutOffOnlyByAnother
<1>6. NamedInv'
  BY <1>1 DEF NamedInv, Daemons, Empty
<1>7. QED
  BY <1>3, <1>4, <1>5, <1>6 DEF IInv

LEMMA WriteKeeps == ASSUME IInv, NEW d \in Daemons, WriteEndpoint(d) PROVE IInv'
<1>1. /\ daemon[d] = "writing" /\ opened[d] # Nobody
      /\ daemon' = [daemon EXCEPT ![d] = "serving"]
      /\ UNCHANGED <<port, opened, pc, ep, peer, visited, spent>>
  BY DEF IInv, OpenedInv, WriteEndpoint, To, clientVars
<1>2. CASE opened[d] = file.inode
  <2>1. PICK text \in {d} \cup (IF file.text = Empty THEN {} ELSE {Garbled}) :
            file' = [file EXCEPT !.text = text]
    BY <1>2 DEF WriteEndpoint
  <2>2. TypeOK'
    BY <1>1, <2>1 DEF IInv, TypeOK, DaemonsOK, CommandsOK, Alive
  <2>3. OpenedInv' /\ WritingInv' /\ NamedInv'
    BY <1>1, <2>1
    DEF IInv, TypeOK, DaemonsOK, OpenedInv, WritingInv, NamedInv, Disturbed, Garbled,
        Daemons
  <2>4. CutOffOnlyByAnother'
    BY <1>1, <2>1
    DEF IInv, TypeOK, DaemonsOK, WritingInv, Disturbed, CutOffOnlyByAnother
  <2>5. QED
    BY <2>2, <2>3, <2>4 DEF IInv
<1>3. CASE opened[d] # file.inode
  <2>1. file' = file
    BY <1>3 DEF WriteEndpoint
  <2>2. QED
    BY <1>1, <1>3, <2>1
    DEF IInv, TypeOK, DaemonsOK, CommandsOK, OpenedInv, WritingInv, NamedInv, Disturbed,
        CutOffOnlyByAnother, Alive
<1>4. QED
  BY <1>2, <1>3

LEMMA CloseKeeps == ASSUME IInv, NEW d \in Daemons, CloseListener(d) PROVE IInv'
  BY DEF IInv, TypeOK, DaemonsOK, CommandsOK, OpenedInv, WritingInv, NamedInv, Disturbed,
         CutOffOnlyByAnother, CloseListener, To, clientVars, Alive

LEMMA RemoveKeeps == ASSUME IInv, NEW d \in Daemons, RemoveEndpoint(d) PROVE IInv'
<1>1. /\ daemon[d] = "closing" /\ opened[d] # Nobody
      /\ daemon' = [daemon EXCEPT ![d] = "leaving"]
      /\ file' = [inode |-> Nobody, text |-> Empty]
      /\ UNCHANGED <<port, opened, pc, ep, peer, visited, spent>>
  BY DEF IInv, OpenedInv, RemoveEndpoint, To, clientVars
<1>2. TypeOK'
  BY <1>1 DEF IInv, TypeOK, DaemonsOK, CommandsOK, Alive
<1>3. OpenedInv' /\ WritingInv' /\ CutOffOnlyByAnother'
  BY <1>1 DEF IInv, TypeOK, DaemonsOK, OpenedInv, WritingInv, Disturbed, CutOffOnlyByAnother
<1>4. NamedInv'
  BY <1>1 DEF NamedInv, Daemons, Empty
<1>5. QED
  BY <1>2, <1>3, <1>4 DEF IInv

LEMMA ExitKeeps == ASSUME IInv, NEW d \in Daemons, Exit(d) PROVE IInv'
  BY DEF IInv, TypeOK, DaemonsOK, CommandsOK, OpenedInv, WritingInv, NamedInv, Disturbed,
         CutOffOnlyByAnother, Exit, To, clientVars, Alive

LEMMA CrashKeeps == ASSUME IInv, NEW d \in Daemons, Crash(d) PROVE IInv'
<1>1. /\ daemon' = [daemon EXCEPT ![d] = "gone"]
      /\ spent' = [spent EXCEPT !.crashes = @ + 1]
      /\ spent.crashes < MaxCrashes
      /\ UNCHANGED <<port, opened, file, pc, ep, peer, visited>>
  BY DEF Crash, To, Spend, clientVars
<1>2. spent' \in [commands : 0..MaxCommands, crashes : 0..MaxCrashes,
                  timeouts : 0..MaxTimeouts]
      /\ spent'.crashes > 0
  BY <1>1, DiscoveryAssumption DEF IInv, TypeOK, CommandsOK
<1>3. QED
  BY <1>1, <1>2
  DEF IInv, TypeOK, DaemonsOK, CommandsOK, OpenedInv, WritingInv, NamedInv, Disturbed,
      CutOffOnlyByAnother, Alive

-----------------------------------------------------------------------------
(* Commands *)

\* What a command does without a daemon changes no more than its own place, its
\* endpoint and the bounds.
LEMMA CommandFrame ==
    ASSUME IInv, CommandsOK', UNCHANGED <<daemonVars, file>>, spent'.crashes = spent.crashes
    PROVE  IInv'
  BY DEF IInv, TypeOK, DaemonsOK, OpenedInv, WritingInv, NamedInv, Disturbed,
         CutOffOnlyByAnother, daemonVars

\* Spending a part of a bound leaves the others.
LEMMA SpendType ==
    ASSUME CommandsOK, NEW what \in {"commands", "timeouts"}, Spend(what),
           what = "commands" => spent.commands < MaxCommands,
           what = "timeouts" => spent.timeouts < MaxTimeouts
    PROVE  /\ spent' \in [commands : 0..MaxCommands, crashes : 0..MaxCrashes,
                          timeouts : 0..MaxTimeouts]
           /\ spent'.crashes = spent.crashes
  BY DiscoveryAssumption DEF CommandsOK, Spend

LEMMA BeginKeeps == ASSUME IInv, NEW c \in Clients, Begin(c) PROVE IInv'
<1>1. CommandsOK' /\ spent'.crashes = spent.crashes
  BY SpendType DEF IInv, TypeOK, CommandsOK, Begin, Goto, Looking
<1>2. QED
  BY <1>1, CommandFrame DEF Begin

LEMMA ReadKeeps == ASSUME IInv, NEW c \in Clients, ReadEndpoint(c) PROVE IInv'
<1>1. CommandsOK'
  BY DiscoveryAssumption
  DEF IInv, TypeOK, CommandsOK, ReadEndpoint, Readable, Goto, Looking, Daemons, Nobody
<1>2. QED
  BY <1>1, CommandFrame DEF ReadEndpoint

\* Whoever is reached is remembered if it is a daemon of this project.
LEMMA ReachedType ==
    ASSUME CommandsOK, NEW c \in Clients, NEW d \in Daemons \cup {Nobody}, Reaches(c, d),
           pc[c] \in {"checking", "rechecking", "found"}
    PROVE  visited' \subseteq Daemons
<1>1. ep[c] \in Daemons
  BY DEF CommandsOK
<1>2. QED
  BY <1>1 DEF CommandsOK, Reaches, Answers

LEMMA VerifiedKeeps == ASSUME IInv, NEW c \in Clients, Verified(c) PROVE IInv'
<1>1. visited' \subseteq Daemons
  BY ReachedType DEF IInv, TypeOK, Verified
<1>2. CommandsOK'
  BY <1>1 DEF IInv, TypeOK, CommandsOK, Verified, Goto, Looking
<1>3. QED
  BY <1>2, CommandFrame DEF Verified

LEMMA AttemptType ==
    ASSUME CommandsOK, NEW c \in Clients, AttemptFails(c)
    PROVE  /\ spent' \in [commands : 0..MaxCommands, crashes : 0..MaxCrashes,
                          timeouts : 0..MaxTimeouts]
           /\ spent'.crashes = spent.crashes
<1>1. CASE UNCHANGED spent
  BY <1>1 DEF CommandsOK
<1>2. CASE spent.timeouts < MaxTimeouts /\ Spend("timeouts")
  BY <1>2, SpendType
<1>3. QED
  BY <1>1, <1>2 DEF AttemptFails

LEMMA NotVerifiedKeeps == ASSUME IInv, NEW c \in Clients, NotVerified(c) PROVE IInv'
<1>1. CommandsOK' /\ spent'.crashes = spent.crashes
  BY AttemptType DEF IInv, TypeOK, CommandsOK, NotVerified, Goto, Looking
<1>2. QED
  BY <1>1, CommandFrame DEF NotVerified

LEMMA GiveUpKeeps == ASSUME IInv, NEW c \in Clients, GiveUp(c) PROVE IInv'
<1>1. /\ spent' \in [commands : 0..MaxCommands, crashes : 0..MaxCrashes,
                     timeouts : 0..MaxTimeouts]
      /\ spent'.crashes = spent.crashes
  <2>1. CASE UNCHANGED spent
    BY <2>1 DEF IInv, TypeOK, CommandsOK
  <2>2. CASE spent.timeouts < MaxTimeouts /\ Spend("timeouts")
    BY <2>2, SpendType DEF IInv, TypeOK
  <2>3. QED
    BY <2>1, <2>2 DEF GiveUp
<1>2. CommandsOK'
  BY <1>1 DEF IInv, TypeOK, CommandsOK, GiveUp, Goto
<1>3. QED
  BY <1>1, <1>2, CommandFrame DEF GiveUp

LEMMA ConnectKeeps == ASSUME IInv, NEW c \in Clients, Connect(c) PROVE IInv'
<1>1. visited' \subseteq Daemons
  BY ReachedType DEF IInv, TypeOK, Connect
<1>2. CommandsOK'
  BY <1>1 DEF IInv, TypeOK, CommandsOK, Connect, Goto
<1>3. QED
  BY <1>2, CommandFrame DEF Connect

LEMMA ConnectFailsKeeps == ASSUME IInv, NEW c \in Clients, ConnectFails(c) PROVE IInv'
<1>1. CommandsOK' /\ spent'.crashes = spent.crashes
  BY AttemptType DEF IInv, TypeOK, CommandsOK, ConnectFails, Goto
<1>2. QED
  BY <1>1, CommandFrame DEF ConnectFails

LEMMA ReturnKeeps == ASSUME IInv, NEW c \in Clients, Return(c) PROVE IInv'
<1>1. CommandsOK'
  BY DEF IInv, TypeOK, CommandsOK, Return, Goto
<1>2. QED
  BY <1>1, CommandFrame DEF Return

\* Two steps of a command change a daemon: it is started, and told to shut down.
LEMMA SpawnKeeps == ASSUME IInv, NEW c \in Clients, Spawn(c) PROVE IInv'
<1>1. PICK d \in Daemons : daemon[d] = "none" /\ daemon' = [daemon EXCEPT ![d] = "starting"]
  BY DEF Spawn, To
<1>2. /\ pc' = [pc EXCEPT ![c] = "polling"]
      /\ UNCHANGED <<port, opened, file, ep, peer, visited, spent>>
  BY DEF Spawn, Goto
<1>3. QED
  BY <1>1, <1>2
  DEF IInv, TypeOK, DaemonsOK, CommandsOK, OpenedInv, WritingInv, NamedInv, Disturbed,
      CutOffOnlyByAnother, Starting, Alive, Looking

LEMMA ShutdownKeeps == ASSUME IInv, NEW c \in Clients, RequestShutdown(c) PROVE IInv'
<1> DEFINE d == peer[c]
<1>1. /\ daemon[d] = "serving" /\ daemon' = [daemon EXCEPT ![d] = "stopping"]
      /\ UNCHANGED <<port, opened, file, pc, ep, peer, visited, spent>>
  BY DEF RequestShutdown, To, clientVars
<1> HIDE DEF d
<1>2. daemon' \in [Daemons -> Alive \cup {"none", "gone"}]
  BY <1>1 DEF IInv, TypeOK, DaemonsOK, Alive
<1>3. TypeOK'
  BY <1>1, <1>2 DEF IInv, TypeOK, DaemonsOK, CommandsOK
<1>4. \A o \in Daemons :
         daemon'[o] = daemon[o] \/ (daemon[o] = "serving" /\ daemon'[o] = "stopping")
  BY <1>1 DEF IInv, TypeOK, DaemonsOK
<1>5. OpenedInv' /\ WritingInv' /\ NamedInv' /\ CutOffOnlyByAnother'
  BY <1>1, <1>4
  DEF IInv, OpenedInv, WritingInv, NamedInv, Disturbed, CutOffOnlyByAnother
<1>6. QED
  BY <1>3, <1>5 DEF IInv

-----------------------------------------------------------------------------
(* The theorems *)

LEMMA InitInvariant == Init => IInv
  BY DiscoveryAssumption
  DEF Init, IInv, TypeOK, DaemonsOK, CommandsOK, OpenedInv, WritingInv, NamedInv,
      CutOffOnlyByAnother, Daemons, Nobody, Empty

LEMMA NextInvariant == IInv /\ [Next]_vars => IInv'
<1> SUFFICES ASSUME IInv, [Next]_vars PROVE IInv'
  OBVIOUS
<1>1. ASSUME NEW d \in Daemons, DaemonStep(d) \/ Crash(d) PROVE IInv'
  BY <1>1, ListenKeeps, OpenKeeps, WriteKeeps, CloseKeeps, RemoveKeeps, ExitKeeps, CrashKeeps
  DEF DaemonStep
<1>2. ASSUME NEW c \in Clients,
             Begin(c) \/ EnsureDaemon(c) \/ RequestShutdown(c) \/ Return(c)
      PROVE  IInv'
  BY <1>2, BeginKeeps, ReadKeeps, VerifiedKeeps, NotVerifiedKeeps, SpawnKeeps, GiveUpKeeps,
     ConnectKeeps, ConnectFailsKeeps, ShutdownKeeps, ReturnKeeps
  DEF EnsureDaemon
<1>3. CASE UNCHANGED vars
  BY <1>3
  DEF IInv, TypeOK, DaemonsOK, CommandsOK, OpenedInv, WritingInv, NamedInv, Disturbed,
      CutOffOnlyByAnother, vars
<1>4. QED
  BY <1>1, <1>2, <1>3 DEF Next

THEOREM Invariance == Spec => []IInv
  BY InitInvariant, NextInvariant, PTL DEF Spec

\* The variables keep their shape, and a command only dials endpoints that a
\* daemon wrote completely (Read, Write).
THEOREM TypeCorrect == Spec => []TypeOK
<1>1. IInv => TypeOK
  BY DEF IInv
<1>2. QED
  BY <1>1, Invariance, PTL

\* However many commands and daemons race, only a daemon that opened the endpoint
\* file can cut another one off from it (EnsureDaemon, Write, Remove).
THEOREM CutOff == Spec => []CutOffOnlyByAnother
<1>1. IInv => CutOffOnlyByAnother
  BY DEF IInv
<1>2. QED
  BY <1>1, Invariance, PTL

\* However they race, a daemon that leaves without a crash is not named by the
\* endpoint file afterwards (the deferred Remove of Serve).
THEOREM Stale == Spec => []StaleOnlyByCrash
<1>1. IInv => StaleOnlyByCrash
  BY DEF IInv, NamedInv, StaleOnlyByCrash
<1>2. QED
  BY <1>1, Invariance, PTL

-----------------------------------------------------------------------------
(* Commands that follow one another *)

\* One terminal, no shutdown, no timeout that is too short, and no other project
\* whose daemon could be taken for this one's.
Sequential(c) == Clients = {c} /\ ~ShutdownUsed /\ ~Strangers /\ MaxTimeouts = 0

NobodyAlive == \A d \in Daemons : daemon[d] \notin Alive
AliveServes == \A d \in Daemons : daemon[d] \in Alive => daemon[d] = "serving"

\* There is one daemon, which did not begin to leave and which nobody disturbed.
AloneInv ==
    /\ \A d, e \in Daemons : daemon[d] \in Alive /\ daemon[e] \in Alive => d = e
    /\ \A d \in Daemons : daemon[d] \notin {"stopping", "closing", "leaving"}
    /\ \A d \in Daemons :
          daemon[d] = "writing" => file = [inode |-> opened[d], text |-> Empty]
    /\ \A d \in Daemons :
          daemon[d] = "serving" => file = [inode |-> opened[d], text |-> d]

\* What the terminal knows of it: only a command that saw no daemon starts one,
\* and it waits until that daemon serves or died.
KnowsInv(c) ==
    /\ pc[c] = "spawning" => NobodyAlive
    /\ pc[c] \notin {"spawning", "polling", "rechecking"} => AliveServes
    /\ pc[c] = "checking" => \A d \in Daemons : daemon[d] \in Alive => ep[c] = d

SInv(c) == IInv /\ AloneInv /\ KnowsInv(c)

LEMMA AloneDaemon ==
    ASSUME NEW c, Sequential(c), SInv(c), NEW d \in Daemons, DaemonStep(d) \/ Crash(d)
    PROVE  AloneInv' /\ KnowsInv(c)'
<1>1. /\ daemon \in [Daemons -> Alive \cup {"none", "gone"}]
      /\ opened \in [Daemons -> Daemons \cup {Nobody}]
      /\ UNCHANGED <<pc, ep>>
  BY DEF SInv, IInv, TypeOK, DaemonsOK, DaemonStep, Listen, OpenEndpoint, WriteEndpoint,
         CloseListener, RemoveEndpoint, Exit, Crash, clientVars
<1>2. CASE Listen(d)
  BY <1>1, <1>2
  DEF SInv, AloneInv, KnowsInv, NobodyAlive, AliveServes, Listen, To, Starting, Alive
<1>3. CASE OpenEndpoint(d)
  <2> DEFINE inode == IF file.inode = Nobody THEN d ELSE file.inode
  <2>1. /\ daemon[d] = "listening" /\ daemon' = [daemon EXCEPT ![d] = "writing"]
        /\ file' = [inode |-> inode, text |-> Empty]
        /\ opened' = [opened EXCEPT ![d] = inode]
    BY <1>3 DEF OpenEndpoint, To
  <2> HIDE DEF inode
  <2>2. QED
    BY <1>1, <2>1
    DEF SInv, AloneInv, KnowsInv, NobodyAlive, AliveServes, Starting, Alive
<1>4. CASE WriteEndpoint(d)
  <2>1. /\ daemon[d] = "writing" /\ daemon' = [daemon EXCEPT ![d] = "serving"]
        /\ opened' = opened
        /\ file = [inode |-> opened[d], text |-> Empty]
    BY <1>4 DEF WriteEndpoint, To, SInv, AloneInv
  <2>2. file' = [inode |-> opened[d], text |-> d]
    BY <1>4, <2>1 DEF WriteEndpoint
  <2>3. QED
    BY <1>1, <2>1, <2>2
    DEF SInv, AloneInv, KnowsInv, NobodyAlive, AliveServes, Starting, Alive
<1>5. CASE Crash(d)
  BY <1>1, <1>5
  DEF SInv, AloneInv, KnowsInv, NobodyAlive, AliveServes, Crash, To, Alive, Starting
<1>6. CASE CloseListener(d) \/ RemoveEndpoint(d) \/ Exit(d)
  BY <1>6 DEF SInv, AloneInv, CloseListener, RemoveEndpoint, Exit
<1>7. QED
  BY <1>2, <1>3, <1>4, <1>5, <1>6 DEF DaemonStep

\* With MaxTimeouts = 0 nothing fails that could succeed.
LEMMA NoTimeout ==
    ASSUME NEW c, Sequential(c), SInv(c)
    PROVE  ~(spent.timeouts < MaxTimeouts)
  BY DEF Sequential, SInv, IInv, TypeOK, CommandsOK

LEMMA AloneCommand ==
    ASSUME NEW c, Sequential(c), SInv(c), Begin(c) \/ EnsureDaemon(c) \/ Return(c)
    PROVE  AloneInv' /\ KnowsInv(c)'
<1>1. /\ c \in Clients
      /\ daemon \in [Daemons -> Alive \cup {"none", "gone"}]
      /\ pc \in [Clients -> Looking \cup {"idle", "connected", "failed"}]
      /\ ep \in [Clients -> Daemons \cup {Nobody}]
  BY DEF Sequential, SInv, IInv, TypeOK, DaemonsOK, CommandsOK
<1>2. CASE Spawn(c)
  <2>1. PICK d \in Daemons :
            daemon[d] = "none" /\ daemon' = [daemon EXCEPT ![d] = "starting"]
    BY <1>2 DEF Spawn, To
  <2>2. pc[c] = "spawning" /\ pc' = [pc EXCEPT ![c] = "polling"] /\ UNCHANGED <<opened, file>>
    BY <1>2 DEF Spawn, Goto
  <2>3. QED
    BY <1>1, <2>1, <2>2
    DEF SInv, AloneInv, KnowsInv, NobodyAlive, AliveServes, Alive, Starting
<1>3. ASSUME UNCHANGED <<daemon, opened, file>> PROVE AloneInv'
  BY <1>3 DEF SInv, AloneInv
<1>4. CASE ReadEndpoint(c)
  <2>1. UNCHANGED <<daemon, port, opened, file>>
    BY <1>4 DEF ReadEndpoint, daemonVars
  <2>2. ASSUME NEW d \in Daemons, daemon[d] = "serving" PROVE Readable /\ file.text = d
    BY <2>2 DEF SInv, IInv, OpenedInv, AloneInv, Readable
  <2>3. pc[c] = "reading" => AliveServes
    BY DEF SInv, KnowsInv
  <2>4. CASE pc[c] = "reading" /\ Readable
    <3>1. pc' = [pc EXCEPT ![c] = "checking"] /\ ep' = [ep EXCEPT ![c] = file.text]
      BY <1>4, <2>4 DEF ReadEndpoint, Goto
    <3>2. pc'[c] = "checking" /\ ep'[c] = file.text /\ AliveServes'
      BY <1>1, <2>1, <2>3, <2>4, <3>1 DEF AliveServes
    <3>3. \A d \in Daemons : daemon[d] \in Alive => file.text = d
      BY <2>2, <2>3, <2>4 DEF AliveServes
    <3>4. QED
      BY <1>3, <2>1, <3>2, <3>3 DEF KnowsInv
  <2>5. CASE pc[c] = "reading" /\ ~Readable
    <3>1. pc'[c] = "spawning"
      BY <1>1, <1>4, <2>5 DEF ReadEndpoint, Goto
    <3>2. NobodyAlive'
      BY <2>1, <2>2, <2>3, <2>5 DEF AliveServes, NobodyAlive
    <3>3. QED
      BY <1>3, <2>1, <3>1, <3>2 DEF KnowsInv
  <2>6. CASE pc[c] = "polling"
    <3>1. pc'[c] = "rechecking"
      BY <1>1, <1>4, <2>6 DEF ReadEndpoint, Goto
    <3>2. QED
      BY <1>3, <2>1, <3>1 DEF KnowsInv
  <2>7. QED
    BY <1>3, <1>4, <2>1, <2>4, <2>5, <2>6 DEF ReadEndpoint
<1>5. CASE Verified(c)
  <2>1. PICK d \in Daemons \cup {Nobody} : Answers(d, ep[c]) \/ Overheard(d, ep[c])
    BY <1>5 DEF Verified, Reaches
  <2>2. d \in Daemons /\ daemon[d] = "serving"
    <3>1. ep[c] \in Daemons /\ visited \subseteq Daemons
      BY <1>1, <1>5 DEF Verified, SInv, IInv, TypeOK, CommandsOK
    <3>2. d \in Daemons /\ Accepts(d)
      BY <2>1, <3>1 DEF Answers, Overheard, Dials, Sequential
    <3>3. QED
      BY <3>2 DEF Accepts, SInv, AloneInv
  <2>3. AliveServes
    BY <2>2 DEF SInv, AloneInv, AliveServes, Alive
  <2>4. QED
    BY <1>1, <1>3, <1>5, <2>3
    DEF KnowsInv, AliveServes, Verified, Goto, daemonVars
<1>6. CASE NotVerified(c)
  <2>1. ~\E d \in Daemons : Answers(d, ep[c])
    BY <1>6, NoTimeout DEF NotVerified, AttemptFails
  <2>2. pc[c] = "checking" => NobodyAlive
    BY <2>1 DEF SInv, KnowsInv, AliveServes, NobodyAlive, Answers, Dials, Accepts
  <2>3. QED
    BY <1>1, <1>3, <1>6, <2>2
    DEF KnowsInv, NobodyAlive, AliveServes, NotVerified, Goto, daemonVars
<1>7. CASE GiveUp(c)
  <2>1. \A d \in Daemons : daemon[d] \notin Starting
    BY <1>7, NoTimeout DEF GiveUp
  <2>2. AliveServes
    BY <2>1 DEF SInv, AloneInv, AliveServes, Alive
  <2>3. QED
    BY <1>1, <1>3, <1>7, <2>2 DEF KnowsInv, AliveServes, GiveUp, Goto, daemonVars
<1>8. CASE Begin(c) \/ Connect(c) \/ ConnectFails(c) \/ Return(c)
  <2>1. /\ UNCHANGED <<daemon, opened, file>>
        /\ pc[c] \in {"idle", "found", "connected", "failed"}
        /\ pc'[c] \in {"idle", "reading", "connected", "failed"}
    BY <1>1, <1>8 DEF Begin, Connect, ConnectFails, Return, Goto, daemonVars
  <2>2. QED
    BY <1>3, <2>1 DEF SInv, KnowsInv, AliveServes
<1>9. QED
  BY <1>2, <1>4, <1>5, <1>6, <1>7, <1>8 DEF EnsureDaemon

\* Commands run one after the other share one daemon, whatever dies at whatever
\* point: none of them starts a daemon while one is alive (EnsureDaemon).
THEOREM SequentialCommands ==
    ASSUME NEW c, Sequential(c)
    PROVE  Spec => []OneDaemon
<1>1. Init => SInv(c)
  <2>1. Init => AloneInv /\ KnowsInv(c)
    BY DEF Init, AloneInv, KnowsInv, AliveServes, Sequential, Alive, Starting
  <2>2. QED
    BY <2>1, InitInvariant DEF SInv
<1>2. SInv(c) /\ [Next]_vars => SInv(c)'
  <2> SUFFICES ASSUME SInv(c), [Next]_vars PROVE SInv(c)'
    OBVIOUS
  <2>1. IInv'
    BY NextInvariant DEF SInv
  <2>2. AloneInv' /\ KnowsInv(c)'
    <3>1. CASE \E d \in Daemons : DaemonStep(d) \/ Crash(d)
      BY <3>1, AloneDaemon
    <3>2. CASE Begin(c) \/ EnsureDaemon(c) \/ Return(c)
      BY <3>2, AloneCommand
    <3>3. CASE UNCHANGED vars
      BY <3>3 DEF vars, SInv, AloneInv, KnowsInv, NobodyAlive, AliveServes
    <3>4. \A k \in Clients : k = c /\ ~RequestShutdown(k)
      BY DEF Sequential, RequestShutdown
    <3>5. QED
      BY <3>1, <3>2, <3>3, <3>4 DEF Next
  <2>3. QED
    BY <2>1, <2>2 DEF SInv
<1>3. SInv(c) => OneDaemon
  <2> SUFFICES ASSUME SInv(c) PROVE OneDaemon
    OBVIOUS
  <2> DEFINE alive == {d \in Daemons : daemon[d] \in Alive}
  <2>1. CASE alive = {}
    BY <2>1, FS_EmptySet DEF OneDaemon
  <2>2. CASE alive # {}
    <3>1. PICK d : alive = {d}
      BY <2>2 DEF SInv, AloneInv
    <3>2. QED
      BY <3>1, FS_Singleton DEF OneDaemon
  <2>3. QED
    BY <2>1, <2>2
<1>4. QED
  BY <1>1, <1>2, <1>3, PTL DEF Spec

=============================================================================
