------------------------------ MODULE ProjectRoot ------------------------------
(***************************************************************************)
(* Which project a command belongs to, and which endpoint file that means: *)
(* FindProjectRoot, EndpointPath and ProjectKey (internal/endpoint), the   *)
(* roots that connectApp, EnsureDaemon and daemonCommand (internal/cli)    *)
(* hand to one another, and Write and Remove as Serve calls them.          *)
(*                                                                         *)
(* A root is resolved again at each use: twice by the CLI, once by the     *)
(* daemon, which runs in the directory the CLI found, and once more when   *)
(* the daemon removes its endpoint.  Commands are run one after the other  *)
(* (EndpointDiscovery has the races of concurrent ones).                   *)
(*                                                                         *)
(* A path is a sequence of names, a name the sequence of its words: "a_b"  *)
(* has two.                                                                *)
(***************************************************************************)
EXTENDS Integers, FiniteSets, Sequences

CONSTANTS
    Dirs,         \* the directories, as real absolute paths
    Files,        \* the regular files
    Links,        \* symbolic links to directories: their paths and (absolute) targets
    Roots,        \* the --root options given; relative <<>> is "."
    Places,       \* where commands are run: $PWD, which may lead through links
    MaxCommands,  \* bound: commands run
    MaxMarks      \* bound: markers in the beginning; one more appears later

Names == Seq(STRING) \ {<<>>, <<"..">>}
Up == <<"..">>
Missing == <<Up>>     \* no such file or directory

Parent(path) == SubSeq(path, 1, Len(path) - 1)
Prefix(path, i) == SubSeq(path, 1, i)

ASSUME TreeAssumption ==
    /\ Dirs \cup Files \cup DOMAIN Links \subseteq Seq(Names)
    /\ <<>> \in Dirs /\ \A d \in Dirs \ {<<>>} : Parent(d) \in Dirs
    /\ \A p \in Files \cup DOMAIN Links : p \notin Dirs /\ Parent(p) \in Dirs
    /\ \A p \in DOMAIN Links : p \notin Files /\ Links[p] \in Dirs
    /\ Roots \subseteq [abs : BOOLEAN, names : Seq(Names \cup {Up})]
ASSUME BoundsAssumption == MaxCommands \in Nat /\ MaxMarks \in Nat

Commands == 1..MaxCommands

VARIABLES
    marked,     \* the directories with a pyproject.toml or .git
    later,      \* those marked after commands had been run
    command,    \* each command: its directory, its root, where it stands
    daemon,     \* the daemon that each command may have started
    endpoints   \* the endpoint files, and the daemon each one names

vars == <<marked, later, command, daemon, endpoints>>

-----------------------------------------------------------------------------
(* The file system *)

Step(dir, name) ==
    LET path == Append(dir, name)
    IN  IF dir = Missing \/ dir \in Files THEN Missing
        ELSE IF name = Up THEN (IF dir = <<>> THEN <<>> ELSE Parent(dir))
        ELSE IF path \in DOMAIN Links THEN Links[path]
        ELSE IF path \in Dirs \cup Files THEN path ELSE Missing

Walk(dir, names) ==
    LET at[i \in 0..Len(names)] == IF i = 0 THEN dir ELSE Step(at[i - 1], names[i])
    IN  at[Len(names)]
Real(path) == Walk(<<>>, path)

ASSUME PlacesAssumption == Places \subseteq {p \in Seq(Names) : Real(p) \in Dirs}

-----------------------------------------------------------------------------
(* internal/endpoint *)

Absolute(path) == [abs |-> TRUE, names |-> path]
Relative(names) == [abs |-> FALSE, names |-> names]

\* What a path means to a process in cwd.
Meant(p, cwd) == IF p.abs THEN Real(p.names) ELSE Walk(Real(cwd), p.names)

\* filepath.Clean goes by the text of a path, whatever the links in it: a name
\* and the ".." behind it go, and so does ".." in "/".
Cleaned(abs, path, name) ==
    IF name # Up THEN Append(path, name)
    ELSE IF path = <<>> THEN (IF abs THEN path ELSE <<Up>>)
    ELSE IF path[Len(path)] = Up THEN Append(path, Up) ELSE Parent(path)

Clean(abs, path, names) ==
    LET upTo[i \in 0..Len(names)] ==
            IF i = 0 THEN path ELSE Cleaned(abs, upTo[i - 1], names[i])
    IN  upTo[Len(names)]

Abs(p, cwd) == Clean(TRUE, IF p.abs THEN <<>> ELSE cwd, p.names)

\* filepath.EvalSymlinks leaves a relative path relative, unless there is a link
\* in it.
EvalSymlinks(p, cwd) ==
    LET linked == \E i \in DOMAIN p.names :
            Append(Walk(Real(cwd), Prefix(p.names, i - 1)), p.names[i]) \in DOMAIN Links
    IN  IF p.abs \/ linked \/ Meant(p, cwd) = Missing THEN Absolute(Meant(p, cwd))
        ELSE Relative(Clean(FALSE, <<>>, p.names))

\* Where the search for a marker starts, and where it finds one: at an index of
\* the path.
Directory(path) == IF Real(path) \in Files THEN Parent(path) ELSE path

Markers(path) == {i \in 0..Len(path) : Real(Prefix(path, i)) \in marked}

Last(indices) == CHOOSE i \in indices : \A j \in indices : j <= i

\* Mutant: a marker only says that the search is over.
FindProjectRootOfStart(p, cwd) == EvalSymlinks(p, cwd)

\* The search starts at the path given, or its directory if it is a file, and
\* goes up by the text of the path, whether that path exists or not.  The result of
\* a search that finds no marker is the path given, relative if it was; if there is
\* no such path, EvalSymlinks fails.
FindProjectRoot(p, cwd) ==
    LET from == Directory(Abs(p, cwd))
    IN  IF Markers(from) # {} THEN Absolute(Real(Prefix(from, Last(Markers(from)))))
        ELSE EvalSymlinks(p, cwd)

\* Mutant: the key is the name of the directory.
ProjectKeyOfName(p, cwd) ==
    LET abs == Abs(p, cwd) IN IF abs = <<>> THEN abs ELSE abs[Len(abs)]

\* Separators become underscores: what is left is a sequence of words.
Words(path) ==
    LET upTo[i \in 0..Len(path)] == IF i = 0 THEN <<>> ELSE upTo[i - 1] \o path[i]
    IN  upTo[Len(path)]

ProjectKey(p, cwd) == Words(Abs(p, cwd))

\* Mutant: the root is taken as it is.
EndpointPathAsIs(root, cwd) == ProjectKey(root, cwd)

\* Discover, Read and Remove resolve the root they are given once more.
EndpointPath(root, cwd) == ProjectKey(FindProjectRoot(root, cwd), cwd)

-----------------------------------------------------------------------------
(* Commands *)

NoCommand == [at |-> "none", cwd |-> <<>>, start |-> Absolute(<<>>), root |-> Absolute(<<>>),
              daemon |-> 0]
NoDaemon == [at |-> "none", cwd |-> <<>>, root |-> Absolute(<<>>), file |-> <<>>]

\* The daemon that answers where c looks for its endpoint.
Answering(c) ==
    {e.daemon : e \in {e \in endpoints :
        /\ e.path = EndpointPath(command[c].root, command[c].cwd)
        /\ daemon[e.daemon].at = "serving"}}

InProgress == {c \in Commands : command[c].at \in {"resolved", "polling"}}

\* connectApp: the root is --root or, without it, where the command is run.
Resolves(c, cwd, start) ==
    LET root == FindProjectRoot(start, cwd)
    IN  /\ command[c].at = "none" /\ InProgress = {}
        /\ \A earlier \in 1..(c - 1) : command[earlier].at # "none"
        /\ command' = [command EXCEPT ![c] =
              [at |-> IF root = Absolute(Missing) THEN "failed" ELSE "resolved",
               cwd |-> cwd, start |-> start, root |-> root, daemon |-> 0]]
        /\ UNCHANGED <<marked, later, daemon, endpoints>>

\* EnsureDaemon reads the endpoint of the root and finds a daemon there.
Connects(c) ==
    /\ command[c].at \in {"resolved", "polling"}
    /\ \E d \in Answering(c) :
          command' = [command EXCEPT ![c].at = "connected", ![c].daemon = d]
    /\ UNCHANGED <<marked, later, daemon, endpoints>>

\* Mutant: the daemon is given the --root of the command.
SpawnsForStart(c) ==
    LET k == command[c]
        dir == Meant(k.root, k.cwd)
    IN  /\ k.at = "resolved" /\ Answering(c) = {} /\ dir \in Dirs
        /\ command' = [command EXCEPT ![c].at = "polling"]
        /\ daemon' = [daemon EXCEPT ![c] =
              [at |-> "starting", root |-> k.start, file |-> EndpointPath(k.root, k.cwd),
               cwd |-> dir]]
        /\ UNCHANGED <<marked, later, endpoints>>

\* Or it starts one, in the directory that is the root, with that same root as
\* --root.  os/exec sets $PWD to filepath.Abs of the directory, and Getwd takes it
\* if it is right.
Spawns(c) ==
    LET k == command[c]
        dir == Meant(k.root, k.cwd)
        pwd == Abs(k.root, k.cwd)
    IN  /\ k.at = "resolved" /\ Answering(c) = {} /\ dir \in Dirs
        /\ command' = [command EXCEPT ![c].at = "polling"]
        /\ daemon' = [daemon EXCEPT ![c] =
              [at |-> "starting", root |-> k.root, file |-> EndpointPath(k.root, k.cwd),
               cwd |-> IF Real(pwd) = dir THEN pwd ELSE dir]]
        /\ UNCHANGED <<marked, later, endpoints>>

\* The root is no directory, or what was started does not get found.
Fails(c) ==
    LET k == command[c]
    IN  /\ k.at \in {"resolved", "polling"} /\ Answering(c) = {}
        /\ k.at = "resolved" => Meant(k.root, k.cwd) \notin Dirs
        /\ k.at = "polling" => daemon[c].at # "starting"
        /\ command' = [command EXCEPT ![c].at = "failed"]
        /\ UNCHANGED <<marked, later, daemon, endpoints>>

-----------------------------------------------------------------------------
(* Daemons *)

\* daemonCommand resolves its --root, Serve writes the file that --endpoint names.
DaemonStarts(d) ==
    LET root == FindProjectRoot(daemon[d].root, daemon[d].cwd)
        file == daemon[d].file
    IN  /\ daemon[d].at = "starting"
        /\ IF root = Absolute(Missing)
           THEN /\ daemon' = [daemon EXCEPT ![d].at = "failed"]
                /\ UNCHANGED endpoints
           ELSE /\ daemon' = [daemon EXCEPT ![d].at = "serving", ![d].root = root]
                /\ endpoints' = {e \in endpoints : e.path # file} \cup
                                {[path |-> file, daemon |-> d]}
        /\ UNCHANGED <<marked, later, command>>

\* Serve removes the endpoint of its root.
DaemonStops(d) ==
    /\ daemon[d].at = "serving" /\ InProgress = {}
    /\ daemon' = [daemon EXCEPT ![d].at = "ended"]
    /\ endpoints' = {e \in endpoints : e.path # EndpointPath(daemon[d].root, daemon[d].cwd)}
    /\ UNCHANGED <<marked, later, command>>

\* git init, or a new pyproject.toml.
Marks(dir) ==
    /\ later = {} /\ dir \notin marked /\ command[1].at # "none"
    /\ marked' = marked \cup {dir}
    /\ later' = {dir}
    /\ UNCHANGED <<command, daemon, endpoints>>

-----------------------------------------------------------------------------
(* The specification *)

Init ==
    /\ marked \in {dirs \in SUBSET Dirs : Cardinality(dirs) <= MaxMarks}
    /\ later = {}
    /\ command = [c \in Commands |-> NoCommand]
    /\ daemon = [d \in Commands |-> NoDaemon]
    /\ endpoints = {}

Next ==
    \/ \E c \in Commands :
          \/ \E cwd \in Places : \E start \in Roots \cup {Absolute(cwd)} : Resolves(c, cwd, start)
          \/ Connects(c) \/ Spawns(c) \/ Fails(c)
    \/ \E d \in Commands : DaemonStarts(d) \/ DaemonStops(d)
    \/ \E dir \in Dirs : Marks(dir)

Spec == Init /\ [][Next]_vars

-----------------------------------------------------------------------------
(* Properties *)

\* The path a command is given, or as much of it as exists, the directory it is about,
\* and the project of that: the nearest directory above it that has a marker, or the
\* directory itself.
Exists(k) == Meant(k.start, k.cwd) # Missing

ThatExist(path) == {i \in 0..Len(path) : Real(Prefix(path, i)) # Missing}
Path(k) ==
    LET path == Abs(k.start, k.cwd)
    IN  IF Exists(k) THEN path ELSE Prefix(path, Last(ThatExist(path)))

Target(k) == IF Exists(k) THEN Meant(k.start, k.cwd) ELSE Real(Path(k))
Subject(k) == IF Target(k) \in Files THEN Parent(Target(k)) ELSE Target(k)

Above(dir) == {i \in 0..Len(dir) : Prefix(dir, i) \in marked}
Project(dir) == IF Above(dir) = {} THEN dir ELSE Prefix(dir, Last(Above(dir)))

\* Where the text of a path leads elsewhere than the directories do: --root in a
\* directory reached through a link, a marker above a link, or ".." behind one.
ThroughLink(k) ==
    LET path == Path(k)
    IN  \/ ~k.start.abs /\ Real(k.cwd) # k.cwd
        \/ Real(path) # Target(k)
        \/ \E i \in Markers(path) :
              Real(path) # Real(Prefix(path, i)) \o SubSeq(path, i + 1, Len(path))

\* A root that stayed relative means another directory to the daemon.
Shifted(k) == ~k.root.abs /\ k.root.names # <<>>

\* The path or the directory belongs to another project since a marker appeared.
Overtaken(k) ==
    LET path == Path(k)
    IN  \E m \in later :
          \/ \E i \in 0..Len(Subject(k)) : Prefix(Subject(k), i) = m
          \/ \E i \in 0..Len(path) : Real(Prefix(path, i)) = m

HasUnderscore(path) == \E i \in DOMAIN path : Len(path[i]) > 1

\* A command talks to a daemon that works in its project, however the command got
\* there.  The exceptions are behaviours of the code: paths that differ in "/" and
\* "_" share an endpoint, and a root is found by the text of a path.
FindsItsProject == \A c \in Commands :
    LET d == command[c].daemon
        two == {command[c], command[d]}
    IN  /\ command[c].at = "connected" /\ ~Shifted(command[d])
        /\ \A k \in two : ~ThroughLink(k) /\ ~Overtaken(k) /\ ~HasUnderscore(Target(k))
        => Meant(daemon[d].root, daemon[d].cwd) = Project(Subject(command[c]))

\* A project has one daemon, as long as the roots of all commands mean the same to
\* everybody: the end of a daemon with another root may remove a third one's file.
OneDaemonPerProject == \A c, d \in Commands :
    c # d /\ daemon[c].at = "serving" /\ daemon[d].at = "serving"
        /\ Project(Subject(command[c])) = Project(Subject(command[d]))
    => \E e \in Commands :
          ThroughLink(command[e]) \/ Shifted(command[e]) \/ Overtaken(command[e])

\* The endpoint file that a daemon wrote is there as long as it serves, and no
\* longer, as long as no root is resolved to another one when a daemon ends.
EndpointWhileServing == \A d \in Commands :
    \/ daemon[d].at = "serving" <=> \E e \in endpoints : e.daemon = d
    \/ \E e \in Commands : Shifted(command[e]) \/ Overtaken(command[e])

\* A command gets a daemon, even for a path that does not exist, unless no marker is
\* above that path and it does not exist, is a file or is relative and not ".".
FailsWithReason == \A c \in Commands :
    LET k == command[c]
    IN  k.at = "failed" =>
            \/ Overtaken(k)
            \/ /\ Markers(Path(k)) = {}
               /\ ~Exists(k) \/ Target(k) \in Files \/ Shifted(k)

=============================================================================
