----------------------------- MODULE SessionData -----------------------------
(***************************************************************************)
(* What a session knows: the SessionSnapshot of internal/daemon/session.go *)
(* under the goroutines that change it (internal/daemon/app.go).           *)
(*                                                                         *)
(* Every method of Session is atomic under Session.mu, but Go maps are     *)
(* references.  Snapshot().Extra is the session's own map, handlers write  *)
(* to it outside the lock, Reset replaces it, and snapshots on their way   *)
(* to a CLI share the map under "last_evaluate".  The maps are therefore   *)
(* objects here: extra[g] is the Extra made for session g, and evals[r]    *)
(* the map that the evaluate request r put under "last_evaluate".          *)
(*                                                                         *)
(* Three kinds of goroutines meet: handlers, without dapMu; the DAP reader *)
(* of the current session, in dapMu, so that no attach comes between its   *)
(* steps; and the stderrReader of each session, with Session.mu only.  An  *)
(* attach is one step here; its own steps are those of DebugSession.       *)
(***************************************************************************)
EXTENDS Integers, Sequences, FiniteSets

CONSTANTS
    Handlers,      \* the goroutines that serve CLI connections
    Requests,      \* the requests the CLIs issue, a subset of RequestKinds
    Sources,       \* the source files breakpoints are set in
    HistoryLimit,  \* model.HistoryLimit, 50 in the code
    MaxSessions,   \* bound: sessions
    MaxRequests,   \* bound: queries and breakpoint requests begun
    MaxOutputs,    \* bound: chunks of output
    MaxEvents      \* bound: stopped and debugpyWaitingForServer events, and
                   \* breakpoint requests that the adapter refuses

Queries == {"evaluate", "stackTrace"}
BreakpointKinds == {"set", "clear"}
RequestKinds == Queries \cup BreakpointKinds \cup {"attach"}

Sessions == 1..MaxSessions
Nil == 0

ASSUME KindsAssumption == Requests \subseteq RequestKinds
ASSUME SizesAssumption ==
    /\ HistoryLimit \in Nat \ {0}
    /\ MaxSessions \in Nat \ {0}
    /\ MaxRequests \in Nat /\ MaxOutputs \in Nat /\ MaxEvents \in Nat

VARIABLES
    daemon,       \* "up", or "map fault": the Go runtime ended the process
    session,      \* the SessionID
    extra,        \* the Extra maps
    evals,        \* the maps under "last_evaluate"
    output,       \* RecentOutput
    breakpoints,  \* Breakpoints: none, or those of one source
    pc, request,  \* where each handler stands, and with what
    reader,       \* the DAP reader between its look at the session and Update
    stderr,       \* the stderrReader of each session
    asked,        \* what the current adapter still has to answer
    armed,        \* the sources in which the current adapter has a breakpoint
    past,         \* what happened in this session, for the properties
    spent         \* how much of the bounds is used

dataVars == <<session, extra, evals, output, breakpoints>>
adapterVars == <<asked, armed>>
vars == <<daemon, session, extra, evals, output, breakpoints, pc, request,
          reader, stderr, asked, armed, past, spent>>

\* Beyond the requests' own maps there is one per session, which the reader
\* makes when the session it has an answer for holds none.
EvalMaps == 1..(MaxRequests + MaxSessions)
Unanswered == [done |-> FALSE, answer |-> Nil]
NoStack == [of |-> Nil, done |-> FALSE, answer |-> Nil]
NoBreakpoints == [in |-> {}, verified |-> FALSE]

FreshExtra(g) ==
    [launch |-> g, waiting |-> Nil, stackTrace |-> NoStack, evaluate |-> Nil]

NoRequest == [id |-> Nil, kind |-> "none", source |-> "none", ref |-> Nil, held |-> Nil]
IdleReader == [at |-> "idle", answer |-> Nil, output |-> <<>>, breakpoints |-> NoBreakpoints]

\* The two stackTrace requests the daemon makes by itself after "stopped".
OwnRequests == {-1, 0}

-----------------------------------------------------------------------------
(* Helpers *)

\* Mutant: the oldest items are kept.
LimitedToOldest(items) ==
    SubSeq(items, 1, IF Len(items) > HistoryLimit THEN HistoryLimit ELSE Len(items))

\* AppendLimited, and the same cut after an evaluation.
Limited(items) ==
    SubSeq(items, IF Len(items) > HistoryLimit THEN Len(items) - HistoryLimit + 1 ELSE 1,
           Len(items))

RecordOutput(chunk) ==
    /\ output' = Limited(Append(output, chunk))
    /\ past' = [past EXCEPT !.printed = Append(@, chunk)]

\* The items of other categories, in their order: the k-th is the one up to
\* which there are k of them.
Without(items, category) ==
    LET kept == {i \in DOMAIN items : items[i].category # category}
    IN  [k \in 1..Cardinality(kept) |->
           items[CHOOSE i \in kept : Cardinality(kept \cap 1..i) = k]]

\* A new evaluation replaces the ones before.
WithEvaluation(items, chunk) == Append(Without(items, "eval"), chunk)

\* The handlers on their way to send a query, or to send and store breakpoints.
Preparing(kinds) ==
    {h \in Handlers : /\ request[h].kind \in kinds
                      /\ pc[h] \in {"writing", "updating", "sending", "storing"}}

Underway(kinds) == Preparing(kinds) # {} \/ \E a \in asked : a.kind \in kinds

\* What a request competes with: others of its kind.
Rivals(kind) == IF kind \in Queries THEN {kind} ELSE BreakpointKinds

Goto(h, label) == pc' = [pc EXCEPT ![h] = label]

-----------------------------------------------------------------------------
(* Requests *)

\* Mutant: an evaluation or stack trace is not noted before it is sent.
BeginsUnnoted(h, kind, source) ==
    /\ pc[h] = "idle"
    /\ spent.requests < MaxRequests
    /\ spent' = [spent EXCEPT !.requests = @ + 1]
    /\ request' = [request EXCEPT ![h] = [id |-> spent.requests + 1, kind |-> kind,
                      source |-> source, ref |-> session, held |-> Nil]]
    /\ Goto(h, "sending")
    /\ past' = [past EXCEPT !.mixed =
          IF Underway(Rivals(kind)) THEN @ \cup Rivals(kind) ELSE @]
    /\ UNCHANGED <<daemon, dataVars, reader, stderr, adapterVars>>

\* The request passed ensureActiveAdapter; a query takes Snapshot().Extra,
\* which is the map of the session and no copy.
Begins(h, kind, source) ==
    /\ pc[h] = "idle"
    /\ spent.requests < MaxRequests
    /\ spent' = [spent EXCEPT !.requests = @ + 1]
    /\ request' = [request EXCEPT ![h] = [id |-> spent.requests + 1, kind |-> kind,
                      source |-> source, ref |-> session, held |-> Nil]]
    /\ Goto(h, IF kind \in Queries THEN "writing" ELSE "sending")
    /\ past' = [past EXCEPT !.mixed =
          IF Underway(Rivals(kind)) THEN @ \cup Rivals(kind) ELSE @]
    /\ UNCHANGED <<daemon, dataVars, reader, stderr, adapterVars>>

\* extra["last_evaluate"] or extra["last_stack_trace"] = ..., without a lock.
Writes(h) ==
    LET r == request[h]
    IN  /\ pc[h] = "writing"
        /\ extra' = IF r.kind = "evaluate"
              THEN [extra EXCEPT ![r.ref].evaluate = r.id]
              ELSE [extra EXCEPT ![r.ref].stackTrace = [NoStack EXCEPT !.of = r.id]]
        /\ Goto(h, "updating")
        /\ UNCHANGED <<daemon, session, evals, output, breakpoints, request, reader,
                       stderr, adapterVars, past, spent>>

\* Update copies every key of the map into the one of the session: the same
\* map, unless an attach came between.
Updates(h) ==
    LET old == extra[request[h].ref]
        empty == FreshExtra(Nil)
    IN  /\ pc[h] = "updating"
        /\ extra' = [extra EXCEPT ![session] =
              [key \in DOMAIN @ |-> IF old[key] # empty[key] THEN old[key] ELSE @[key]]]
        /\ Goto(h, "sending")
        /\ UNCHANGED <<daemon, session, evals, output, breakpoints, request, reader,
                       stderr, adapterVars, past, spent>>

Sends(h) ==
    LET r == request[h]
    IN  /\ pc[h] = "sending"
        /\ asked' = asked \cup {[id |-> r.id, kind |-> r.kind, source |-> r.source]}
        /\ Goto(h, IF r.kind \in Queries THEN "answering" ELSE "storing")
        /\ UNCHANGED <<daemon, dataVars, request, reader, stderr, armed, past, spent>>

\* Mutant: breakpoint.clear leaves the list as it is.
StoresSetOnly(h) ==
    LET r == request[h]
        overtaken == r.kind = "set" /\ \A a \in asked : a.id # r.id
    IN  /\ pc[h] = "storing"
        /\ breakpoints' = IF r.kind = "set" THEN [in |-> {r.source}, verified |-> FALSE]
                          ELSE breakpoints
        /\ past' = [past EXCEPT !.lost = IF overtaken THEN @ \cup {"breakpoints"} ELSE @]
        /\ Goto(h, "answering")
        /\ UNCHANGED <<daemon, session, extra, evals, output, request, reader, stderr,
                       adapterVars, spent>>

\* Only after the send does breakpoint.set store what it asked for, and
\* breakpoint.clear an empty list: over the adapter's answer, if that was faster.
StoresBreakpoints(h) ==
    LET r == request[h]
        overtaken == r.kind = "set" /\ \A a \in asked : a.id # r.id
    IN  /\ pc[h] = "storing"
        /\ breakpoints' = IF r.kind = "set" THEN [in |-> {r.source}, verified |-> FALSE]
                          ELSE NoBreakpoints
        /\ past' = [past EXCEPT !.lost = IF overtaken THEN @ \cup {"breakpoints"} ELSE @]
        /\ Goto(h, "answering")
        /\ UNCHANGED <<daemon, session, extra, evals, output, request, reader, stderr,
                       adapterVars, spent>>

\* SnapshotMap copies the keys; the map under "last_evaluate" stays shared
\* while the response is encoded.
Answers(h) ==
    /\ pc[h] = "answering"
    /\ request' = [request EXCEPT ![h] = [NoRequest EXCEPT !.held = extra[session].evaluate]]
    /\ Goto(h, "encoding")
    /\ UNCHANGED <<daemon, dataVars, reader, stderr, adapterVars, past, spent>>

Encoded(h) ==
    /\ pc[h] = "encoding"
    /\ request' = [request EXCEPT ![h] = NoRequest]
    /\ Goto(h, "idle")
    /\ UNCHANGED <<daemon, dataVars, reader, stderr, adapterVars, past, spent>>

\* Mutant: Reset empties the histories only, SetLaunch renews its own key.
ResetKeepsExtra ==
    /\ session' = session + 1
    /\ extra' = [extra EXCEPT ![session + 1] = [extra[session] EXCEPT !.launch = session + 1]]
    /\ output' = <<>> /\ breakpoints' = NoBreakpoints

\* Reset makes a new snapshot, SetLaunch notes in it what was launched.
Reset ==
    /\ session' = session + 1
    /\ extra' = [extra EXCEPT ![session + 1] = FreshExtra(session + 1)]
    /\ output' = <<>> /\ breakpoints' = NoBreakpoints

\* StartAttach, which no step of the reader interrupts.
Attaches(h) ==
    /\ pc[h] = "idle" /\ reader.at = "idle"
    /\ session < MaxSessions
    /\ Reset
    /\ stderr' = [stderr EXCEPT ![session + 1] = "reading"]
    /\ asked' = {} /\ armed' = {}
    /\ past' = [printed |-> <<>>, lost |-> {},
                mixed |-> UNION {Rivals(request[g].kind) : g \in Preparing(RequestKinds)},
                spanned |-> Preparing(Queries) # {},
                refused |-> FALSE, source |-> "none"]
    /\ UNCHANGED <<daemon, evals, pc, request, reader, spent>>

-----------------------------------------------------------------------------
(* The DAP reader of the current session, in dapMu *)

\* An output event.
Outputs ==
    /\ reader.at = "idle" /\ spent.outputs < MaxOutputs
    /\ RecordOutput([owner |-> session, category |-> "stdout"])
    /\ spent' = [spent EXCEPT !.outputs = @ + 1]
    /\ UNCHANGED <<daemon, session, extra, evals, breakpoints, pc, request, reader,
                   stderr, adapterVars>>

\* debugpyWaitingForServer, an event that becomes a key of Extra.
WaitsForServer ==
    /\ reader.at = "idle" /\ spent.events < MaxEvents
    /\ extra' = [extra EXCEPT ![session].waiting = session]
    /\ spent' = [spent EXCEPT !.events = @ + 1]
    /\ UNCHANGED <<daemon, session, evals, output, breakpoints, pc, request, reader,
                   stderr, adapterVars, past>>

\* A stopped event makes the daemon ask for the stack twice.
Stops ==
    /\ reader.at = "idle" /\ spent.events < MaxEvents
    /\ asked' = asked \cup {[id |-> i, kind |-> "stackTrace", source |-> "none"] : i \in OwnRequests}
    /\ past' = [past EXCEPT !.mixed =
          IF Underway({"stackTrace"}) THEN @ \cup {"stackTrace"} ELSE @]
    /\ spent' = [spent EXCEPT !.events = @ + 1]
    /\ UNCHANGED <<daemon, dataVars, pc, request, reader, stderr, armed>>

\* The reader has a response to a; nothing but its command tells what it is for.
Response(a, kind) ==
    /\ reader.at = "idle"
    /\ a \in asked /\ a.kind = kind
    /\ asked' = asked \ {a}

StackArrives(a) ==
    /\ Response(a, "stackTrace")
    /\ extra' = [extra EXCEPT ![session].stackTrace =
          [of |-> @.of, done |-> TRUE, answer |-> a.id]]
    /\ UNCHANGED <<daemon, session, evals, output, breakpoints, pc, request, reader,
                   stderr, armed, past, spent>>

\* The map of the latest evaluate request is filled in, and the output is read
\* for the Update that follows.
EvaluationArrives(a) ==
    LET e == IF extra[session].evaluate # Nil THEN extra[session].evaluate
             ELSE MaxRequests + session
    IN  /\ Response(a, "evaluate")
        /\ evals' = [evals EXCEPT ![e] = [done |-> TRUE, answer |-> a.id]]
        /\ extra' = [extra EXCEPT ![session].evaluate = e]
        /\ reader' = [IdleReader EXCEPT !.at = "evaluated", !.answer = a.id, !.output = output]
        /\ UNCHANGED <<daemon, session, output, breakpoints, pc, request, stderr, armed,
                       past, spent>>

\* Update replaces RecentOutput by what was made of the one read before.
StoresEvaluation ==
    LET chunk == [owner |-> session, category |-> "eval"]
    IN  /\ reader.at = "evaluated"
        /\ output' = Limited(WithEvaluation(reader.output, chunk))
        /\ past' = [past EXCEPT !.printed = WithEvaluation(@, chunk),
                !.lost = IF output # reader.output THEN @ \cup {"output"} ELSE @]
        /\ reader' = IdleReader
        /\ UNCHANGED <<daemon, session, extra, evals, breakpoints, pc, request, stderr,
                       adapterVars, spent>>

\* Whether the adapter did what the latest breakpoint request asked for.
Outcome(a, refused) ==
    /\ refused => spent.events < MaxEvents
    /\ past' = [past EXCEPT !.refused = refused, !.source = a.source]
    /\ spent' = [spent EXCEPT !.events = IF refused THEN @ + 1 ELSE @]

\* The answer to setBreakpoints that lists breakpoints is stored as it is, those
\* the adapter did not set included.
BreakpointsArrive(a) ==
    /\ Response(a, "set")
    /\ \E verified \in BOOLEAN :
          /\ breakpoints' = [in |-> {a.source}, verified |-> verified]
          /\ armed' = IF verified THEN armed \cup {a.source} ELSE armed \ {a.source}
          /\ Outcome(a, ~verified)
    /\ UNCHANGED <<daemon, session, extra, evals, output, pc, request, reader, stderr>>

\* When the answer lists none -- to a clear, or because the request failed, which
\* is not looked at -- the session keeps the breakpoints it has, as the adapter
\* may those of the source: they are read ...
EmptyArrives(a) ==
    /\ Response(a, "clear") \/ Response(a, "set")
    /\ \E kept \in BOOLEAN :
          /\ armed' = IF kept THEN armed ELSE armed \ {a.source}
          /\ Outcome(a, a.kind = "set" \/ a.source \in armed')
    /\ reader' = [IdleReader EXCEPT !.at = "cleared", !.breakpoints = breakpoints]
    /\ UNCHANGED <<daemon, dataVars, pc, request, stderr>>

\* ... and then written back.
StoresClearing ==
    /\ reader.at = "cleared"
    /\ breakpoints' = reader.breakpoints
    /\ past' = [past EXCEPT !.lost =
          IF breakpoints # reader.breakpoints THEN @ \cup {"breakpoints"} ELSE @]
    /\ reader' = IdleReader
    /\ UNCHANGED <<daemon, session, extra, evals, output, pc, request, stderr,
                   adapterVars, spent>>

-----------------------------------------------------------------------------
(* stderrReader *)

NeverStale(g) == TRUE       \* mutant: the SessionID is not compared

IsCurrent(g) == g = session

\* A chunk was read; the SessionID is compared ...
StderrReads(g) ==
    /\ stderr[g] = "reading" /\ spent.outputs < MaxOutputs
    /\ stderr' = [stderr EXCEPT ![g] = IF IsCurrent(g) THEN "checked" ELSE "gone"]
    /\ spent' = [spent EXCEPT !.outputs = @ + 1]
    /\ UNCHANGED <<daemon, dataVars, pc, request, reader, adapterVars, past>>

\* ... and the chunk recorded in whatever session it is by then.
StderrRecords(g) ==
    /\ stderr[g] = "checked"
    /\ RecordOutput([owner |-> g, category |-> "stderr"])
    /\ stderr' = [stderr EXCEPT ![g] = "reading"]
    /\ UNCHANGED <<daemon, session, extra, evals, breakpoints, pc, request, reader,
                   adapterVars, spent>>

-----------------------------------------------------------------------------
(* Unsynchronized maps *)

\* The goroutine's next step reads or writes the Extra map of session g.
HandlerUses(h, g) ==
    \/ pc[h] \in {"writing", "updating"} /\ request[h].ref = g
    \/ pc[h] \in {"updating", "storing", "answering"} /\ session = g

\* The readers take a snapshot of the session for each thing they broadcast.
ReadersUse(g) ==
    /\ session = g
    /\ asked # {} \/ reader.at # "idle" \/ \E old \in Sessions : stderr[old] = "checked"

\* Two goroutines in one map, one of them writing: a handler in the middle of
\* its assignment, or the reader that fills in the map a handler is encoding.
Racing ==
    \E h \in Handlers :
        \/ /\ pc[h] = "writing"
           /\ LET g == request[h].ref
              IN  \/ ReadersUse(g)
                  \/ \E other \in Handlers \ {h} : HandlerUses(other, g)
        \/ /\ pc[h] = "encoding" /\ request[h].held # Nil
           /\ request[h].held = extra[session].evaluate
           /\ reader.at = "idle" /\ \E a \in asked : a.kind = "evaluate"

\* The Go runtime may notice ("concurrent map iteration and map write"), which
\* no goroutine can recover from.
MapFault ==
    /\ Racing
    /\ daemon' = "map fault"
    /\ UNCHANGED <<dataVars, pc, request, reader, stderr, adapterVars, past, spent>>

-----------------------------------------------------------------------------
(* The specification *)

\* A first session is attached.
Init ==
    /\ daemon = "up"
    /\ session = 1
    /\ extra = [g \in Sessions |-> FreshExtra(g)]
    /\ evals = [e \in EvalMaps |-> Unanswered]
    /\ output = <<>>
    /\ breakpoints = NoBreakpoints
    /\ pc = [h \in Handlers |-> "idle"]
    /\ request = [h \in Handlers |-> NoRequest]
    /\ reader = IdleReader
    /\ stderr = [g \in Sessions |-> IF g = 1 THEN "reading" ELSE "none"]
    /\ asked = {}
    /\ armed = {}
    /\ past = [printed |-> <<>>, mixed |-> {}, lost |-> {}, spanned |-> FALSE,
               refused |-> FALSE, source |-> "none"]
    /\ spent = [requests |-> 0, outputs |-> 0, events |-> 0]

HandlerStep(h) ==
    \/ \E kind \in Requests \cap Queries : Begins(h, kind, "none")
    \/ \E kind \in Requests \cap BreakpointKinds, s \in Sources : Begins(h, kind, s)
    \/ "attach" \in Requests /\ Attaches(h)
    \/ Writes(h) \/ Updates(h) \/ Sends(h) \/ StoresBreakpoints(h)
    \/ Answers(h) \/ Encoded(h)

ReaderStep ==
    \/ Outputs \/ WaitsForServer \/ Stops
    \/ \E a \in asked :
          StackArrives(a) \/ EvaluationArrives(a) \/ BreakpointsArrive(a) \/ EmptyArrives(a)
    \/ StoresEvaluation \/ StoresClearing

Next ==
    /\ daemon = "up"
    /\ \/ \E h \in Handlers : HandlerStep(h)
       \/ ReaderStep
       \/ \E g \in Sessions : StderrReads(g) \/ StderrRecords(g)
       \/ MapFault

Spec == Init /\ [][Next]_vars

-----------------------------------------------------------------------------
(* Properties *)

IsSuffix(s, t) == Len(s) <= Len(t) /\ s = SubSeq(t, Len(t) - Len(s) + 1, Len(t))

\* What "dap eval" and "dap stack" show as completed answers the request they
\* were noted for.  Responses are matched by command name only (applyDAPResponse),
\* so this holds as long as no second request of the kind was underway, one
\* given up by its CLI or made by the daemon for a "stopped" included, and no
\* query begun in an older session wrote that session's keys over the new ones.
AnswersItsRequest ==
    LET stack == extra[session].stackTrace
        e == extra[session].evaluate
    IN  ~past.spanned =>
          /\ "evaluate" \notin past.mixed /\ e # Nil /\ evals[e].done => evals[e].answer = e
          /\ "stackTrace" \notin past.mixed /\ stack.done =>
                stack.answer = stack.of \/ stack.answer \in OwnRequests

\* The Extra of a session -- what was launched, who waits for a server -- is its
\* own: Reset leaves nothing of the session before, except that a query begun in
\* that session and noted after the attach brings all its keys along.
ExtraIsOwn ==
    ~past.spanned =>
        /\ extra[session].launch = session
        /\ extra[session].waiting \in {Nil, session}

\* RecentOutput holds the newest chunks in the order they were recorded, an
\* evaluation replacing the one before.  Only the output of stderrReader can get
\* lost, while the reader is between reading RecentOutput and replacing it.
OutputKept ==
    /\ Len(output) <= HistoryLimit
    /\ IsSuffix(Without(output, "stderr"), Without(past.printed, "stderr"))
    /\ "output" \in past.lost \/ IsSuffix(output, past.printed)

\* A stderrReader that outlived its session files at most one chunk under a
\* newer one: the one it held when the SessionID changed.
OneStrayChunk ==
    \A g \in Sessions \ {session} :
        Cardinality({i \in DOMAIN past.printed : past.printed[i].owner = g}) <= 1

\* When all is quiet a breakpoint shown as verified is set in the adapter, and
\* after a request that the adapter carried out the list is what is set in the
\* source it was for, verified -- unless requests of several CLIs overlapped or
\* one of two updates was lost: the adapter's answer came before the request was
\* stored, or the list was changed while the reader was about to write it back.
\* A refused "set" does leave what it asked for in the list, unverified, and a
\* refused "clear" leaves set what is listed no longer.
BreakpointsAgree ==
    Preparing(BreakpointKinds) = {} /\ ~Underway(BreakpointKinds) /\ reader.at = "idle"
        /\ past.mixed \cap BreakpointKinds = {} /\ "breakpoints" \notin past.lost
    => /\ breakpoints.verified => breakpoints.in # {} /\ breakpoints.in \subseteq armed
       /\ ~past.refused =>
             /\ breakpoints.in = armed \cap {past.source}
             /\ breakpoints.in # {} => breakpoints.verified

=============================================================================
