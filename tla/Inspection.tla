------------------------------ MODULE Inspection ------------------------------
(***************************************************************************)
(* What the commands that look at the program print: "dap threads", stack, *)
(* scopes, vars, eval and break, from RunCommand and LatestEvalResult      *)
(* (internal/cli/client.go, root.go) through the requests and the answers  *)
(* of the adapter (handleRequest and applyDAPResponse in                   *)
(* internal/daemon/app.go) to the snapshots that come back.                *)
(*                                                                         *)
(* A command waits for a snapshot that "changed" and satisfies a predicate *)
(* over its data; nothing in a snapshot says whose question it answers.    *)
(* The data are therefore modelled by whose answer they are: each CLI runs *)
(* one command, and the CLI stands for its request.  The Reader, which     *)
(* applies what the adapter sends and holds dapMu, stands for requests of  *)
(* the daemon itself.                                                      *)
(*                                                                         *)
(* Snapshots are taken first and encoded when they are sent.  Two maps in  *)
(* them are shared with the session until then: the one under              *)
(* "last_evaluate" and "variables".  One session is attached all the time; *)
(* broadcasts to a CLI that is gone are lost (ClientRegistry has what else *)
(* they cause), and so are attach, stop (DebugSession) and the overlap of  *)
(* a query with them (SessionData).                                        *)
(***************************************************************************)
EXTENDS Integers, Sequences

CONSTANTS
    CLIs,       \* the dap processes, each with its handler in the daemon
    Reader,     \* the goroutine of the DAP reader
    Kinds,      \* the commands run, of CommandKinds
    Events,     \* the events the adapter sends, of EventKinds
    Pasts,      \* whether the program has been stopped before, the cases considered
    MaxEvents   \* bound: events

CommandKinds == {"threads", "stack", "scopes", "vars", "eval", "break"}
EventKinds == {"output", "stopped", "terminated"}
Goroutines == CLIs \cup {Reader}

\* Those that note in Extra that an answer is awaited.
Noted == {"stack", "eval"}

ASSUME ActorsAssumption == Reader \notin CLIs
ASSUME KindsAssumption == Kinds \subseteq CommandKinds /\ Events \subseteq EventKinds
ASSUME BoundsAssumption == MaxEvents \in Nat /\ Pasts \subseteq BOOLEAN

VARIABLES
    session,    \* the SessionSnapshot
    completed,  \* the maps under "last_evaluate" that were filled in
    asked,      \* what the adapter still has to answer
    reader,     \* what the reader is applying
    pc,         \* where each handler stands
    carrying,   \* the snapshot each goroutine is sending, and to whom
    cli,        \* what each CLI does, and with which command
    view,       \* ClientApp.snapshot
    ended,      \* history: the snapshot the wait of a command ended with
    printed,    \* whose answers each command printed
    answered,   \* history: the version that shows each answer
    disturbed,  \* history: whether others changed the session since the baseline
    events      \* how much of MaxEvents is used

adapterVars == <<asked, events>>
cliVars == <<cli, view, ended, printed>>
vars == <<session, completed, asked, reader, pc, carrying, cli, view,
          ended, printed, answered, disturbed, events>>

Fresh == [of |-> {}, empty |-> TRUE]
NoSnapshot == [version |-> 0]
Unanswered == [version |-> 0, empty |-> FALSE]
Nothing == [snap |-> NoSnapshot, to |-> {}]
Idle == [at |-> "idle", what |-> [by |-> Reader, kind |-> "none"], held |-> Fresh]

-----------------------------------------------------------------------------
(* The session *)

\* The session becomes s, for the sake of a request of c.
Becomes(s, c) ==
    /\ session' = s
    /\ disturbed' = [d \in CLIs |-> disturbed[d] \/ d # c]

\* Every method of Session ends with touchLocked: a new updated_at.
Changes(s, c) == Becomes([s EXCEPT !.version = session.version + 1], c)

Show(s, kind, datum) == [s EXCEPT !.data[kind] = datum]

\* App.clients: from the accept, which is before the hello.
Registered == {c \in CLIs : pc[c] \notin {"none", "leaving", "gone"}}

Carry(g, to, snap) == carrying' = [carrying EXCEPT ![g] = [snap |-> snap, to |-> to]]

\* The envelope as it leaves.
Encoded(snap, by) ==
    [version |-> snap.version,
     data |-> [snap.data EXCEPT !["vars"] = session.data["vars"]],
     terminal |-> snap.terminal,
     stack |-> snap.stack,
     eval |-> snap.evaluate \in completed,
     by |-> by]

\* ClientHandler.Send, by a handler that answers or by anyone who broadcasts, and
\* readerLoop, which keeps the latest snapshot.  Nothing is in flight in between:
\* what a CLI does before it reads an envelope is as if done before it was sent.
Sends(g, c) ==
    /\ c \in carrying[g].to
    /\ carrying' = [carrying EXCEPT ![g] =
          IF @.to = {c} THEN Nothing ELSE [snap |-> @.snap, to |-> @.to \ {c}]]
    /\ view' = IF cli[c].pc = "done" THEN view
               ELSE [view EXCEPT ![c] = Encoded(carrying[g].snap, g)]
    /\ UNCHANGED <<session, disturbed, completed, adapterVars, reader, pc, cli, ended, printed,
                   answered>>

Sent(g) == carrying[g].to = {}

-----------------------------------------------------------------------------
(* Handlers *)

Goto(c, label) == pc' = [pc EXCEPT ![c] = label]

\* client.hello: AttachClient, and the snapshot it returns.
HandlesHello(c) ==
    /\ pc[c] = "hello"
    /\ Changes(session, Reader)
    /\ Carry(c, {c}, session')
    /\ Goto(c, "decoding")
    /\ UNCHANGED <<completed, adapterVars, reader, cliVars, answered>>

\* "No thread selected", "No frame selected".
Refused(kind) ==
    \/ kind = "stack" /\ ~session.thread
    \/ kind = "scopes" /\ ~session.frame

Takes(c) == pc[c] = "decoding" /\ Sent(c) /\ cli[c].asked

HandlesRefusing(c) ==
    /\ Takes(c) /\ Refused(cli[c].kind)
    /\ cli' = [cli EXCEPT ![c].error = TRUE]
    /\ Goto(c, "served")
    /\ UNCHANGED <<session, disturbed, completed, adapterVars, reader, carrying, view, ended,
                   printed, answered>>

\* What is sent to the adapter can be answered at once.
SendsRequest(c, label) ==
    /\ asked' = asked \cup {[by |-> c, kind |-> cli[c].kind]}
    /\ Goto(c, label)
    /\ UNCHANGED <<completed, events, reader, carrying, cliVars, answered>>

\* extra["last_evaluate"] = ..., in the map of the session ...
HandlesNoted(c) ==
    /\ Takes(c) /\ ~Refused(cli[c].kind) /\ cli[c].kind \in Noted
    /\ Becomes(IF cli[c].kind = "eval" THEN [session EXCEPT !.evaluate = c]
               ELSE [session EXCEPT !.stack = FALSE], c)
    /\ Goto(c, "updating")
    /\ UNCHANGED <<completed, adapterVars, reader, carrying, cliVars, answered>>

\* ... then Update, and the request.
Updates(c) ==
    /\ pc[c] = "updating"
    /\ Changes(session, c)
    /\ SendsRequest(c, "answering")

\* The others are sent as they are.
HandlesRequest(c) ==
    /\ Takes(c) /\ ~Refused(cli[c].kind) /\ cli[c].kind \notin Noted
    /\ SendsRequest(c, IF cli[c].kind = "break" THEN "storing" ELSE "answering")
    /\ UNCHANGED <<session, disturbed>>

\* breakpoint.set notes what it asked for ...
StoresBreakpoints(c) ==
    /\ pc[c] = "storing"
    /\ Changes(Show(session, "break", [of |-> {c}, empty |-> FALSE]), c)
    /\ Goto(c, "broadcasting")
    /\ UNCHANGED <<completed, adapterVars, reader, carrying, cliVars, answered>>

\* ... and broadcasts it, without dapMu.
Broadcasts(c) ==
    /\ pc[c] = "broadcasting"
    /\ Carry(c, Registered, session)
    /\ Goto(c, "answering")
    /\ UNCHANGED <<session, disturbed, completed, adapterVars, reader, cliVars, answered>>

\* The response takes one more snapshot.
Answers(c) ==
    /\ pc[c] = "answering" /\ Sent(c)
    /\ Carry(c, {c}, session)
    /\ Goto(c, "served")
    /\ UNCHANGED <<session, disturbed, completed, adapterVars, reader, cliVars, answered>>

\* The CLI is gone: unregister detaches it ...
Leaves(c) ==
    /\ pc[c] \in {"decoding", "served"} /\ Sent(c)
    /\ cli[c].pc = "done"
    /\ Changes(session, Reader)
    /\ Goto(c, "leaving")
    /\ UNCHANGED <<completed, adapterVars, reader, carrying, cliVars, answered>>

\* ... and tells the others.
TellsOthers(c) ==
    /\ pc[c] = "leaving"
    /\ Carry(c, Registered, session)
    /\ Goto(c, "gone")
    /\ UNCHANGED <<session, disturbed, completed, adapterVars, reader, cliVars, answered>>

-----------------------------------------------------------------------------
(* The DAP reader *)

\* RecordEvent comes first, for events and for responses.
Records(what) ==
    /\ reader.at = "idle" /\ Sent(Reader)
    /\ reader' = [at |-> "recorded", what |-> what, held |-> session.data["break"]]
    /\ Changes(session, what.by)
    /\ UNCHANGED <<completed, pc, carrying, cliVars, answered>>

ReceivesResponse(a) ==
    /\ a \in asked
    /\ asked' = asked \ {a}
    /\ Records(a)
    /\ UNCHANGED events

ReceivesEvent(event) ==
    /\ events < MaxEvents
    /\ events' = events + 1
    /\ Records([by |-> Reader, kind |-> event])
    /\ UNCHANGED asked

\* Mutant: the record of the evaluation is not marked.
FillsNothing ==
    /\ reader.at = "recorded"
    /\ reader' = [reader EXCEPT !.at = "filled"]
    /\ UNCHANGED <<session, disturbed, completed, adapterVars, pc, carrying, cliVars, answered>>

\* The maps are filled in before Update stores what belongs to them: the record
\* of the latest evaluation, whoever asked for it, the record of the latest stack
\* trace, the variables.
Fills ==
    LET by == reader.what.by
        kind == reader.what.kind
    IN  /\ reader.at = "recorded"
        /\ completed' = IF kind = "eval" THEN completed \cup {session.evaluate} ELSE completed
        /\ Becomes(IF kind = "stack" THEN [session EXCEPT !.stack = TRUE]
                   ELSE IF kind = "vars"
                   THEN Show(session, "vars",
                             [of |-> session.data["vars"].of \cup {by}, empty |-> FALSE])
                   ELSE session, by)
        /\ reader' = [reader EXCEPT !.at = "filled"]
        /\ UNCHANGED <<adapterVars, pc, carrying, cliVars, answered>>

\* The session after the reader's Update.  A failed or an empty answer empties
\* the list, except that breakpoints stay as they were read.  (In Stores, the two
\* stack traces that follow a "stopped" count as one.)
Applied(what, empty) ==
    LET datum == [of |-> {what.by}, empty |-> empty]
    IN  CASE what.kind = "threads" ->
                [Show(session, "threads", datum) EXCEPT !.thread = @ \/ ~empty]
          [] what.kind = "stack" ->
                [Show(session, "stack", datum) EXCEPT !.frame = @ \/ ~empty]
          [] what.kind \in {"scopes", "eval"} -> Show(session, what.kind, datum)
          [] what.kind = "break" ->
                Show(session, "break", IF empty THEN reader.held ELSE datum)
          [] what.kind = "stopped" -> [session EXCEPT !.thread = TRUE]
          [] what.kind = "terminated" -> [session EXCEPT !.terminal = TRUE]
          [] OTHER -> session

\* After Update the reader broadcasts, with the event's own name ...
Stores(empty) ==
    LET what == reader.what
    IN  /\ reader.at = "filled"
        /\ Changes(Applied(what, empty), what.by)
        /\ Carry(Reader, Registered, session')
        /\ reader' = [reader EXCEPT !.at = "told"]
        /\ asked' = IF what.kind = "stopped"
              THEN asked \cup [by : {Reader}, kind : {"threads", "stack"}] ELSE asked
        /\ answered' = IF what.by \in CLIs /\ cli[what.by].pc # "done"
              THEN [answered EXCEPT ![what.by] = [version |-> session.version + 1,
                                                  empty |-> empty]]
              ELSE answered
        /\ UNCHANGED <<completed, events, pc, cliVars>>

\* ... and once more as session.state, with a snapshot of its own.
TellsAgain ==
    /\ reader.at = "told" /\ Sent(Reader)
    /\ Carry(Reader, Registered, session)
    /\ reader' = Idle
    /\ UNCHANGED <<session, disturbed, completed, adapterVars, pc, cliVars, answered>>

-----------------------------------------------------------------------------
(* CLIs *)

\* NewClientApp connects; Serve accepts, and registers the handler.
Starts(c) ==
    /\ pc[c] = "none"
    /\ Goto(c, "hello")
    /\ UNCHANGED <<session, disturbed, completed, adapterVars, reader, carrying, cliVars, answered>>

\* RunCommand, after the first snapshot, be it the answer to hello or a broadcast:
\* its updated_at is what changes are measured by.
Asks(c) ==
    /\ cli[c].pc = "greeting" /\ view[c] # NoSnapshot
    /\ cli' = [cli EXCEPT ![c].pc = "waiting", ![c].asked = TRUE,
                          ![c].baseline = view[c].version]
    /\ disturbed' = [disturbed EXCEPT ![c] = session.version # view[c].version]
    /\ UNCHANGED <<session, completed, adapterVars, reader, pc, carrying, view,
                   ended, printed, answered>>

\* Mutant: a command does not look whether the session changed.
SatisfiedUnchanged(kind, v, baseline) ==
    CASE kind \in {"threads", "scopes"} -> ~v.data[kind].empty \/ v.terminal
      [] kind = "stack" -> v.stack \/ v.terminal
      [] kind = "eval" -> v.eval \/ v.terminal
      [] kind = "break" -> ~v.data["break"].empty
      [] OTHER -> TRUE

\* The predicates of RunCommand.  (All breakpoints are set at the same line, which
\* is all that "break" looks at.)
Satisfied(kind, v, baseline) ==
    /\ v.version # baseline
    /\ CASE kind \in {"threads", "scopes"} -> ~v.data[kind].empty \/ v.terminal
         [] kind = "stack" -> v.stack \/ v.terminal
         [] kind = "eval" -> v.eval \/ v.terminal
         [] kind = "break" -> ~v.data["break"].empty
         [] OTHER -> TRUE

\* The command returns and prints what it got from whom; the connection is closed.
Ends(c, result, of) ==
    /\ cli' = [cli EXCEPT ![c].pc = "done", ![c].result = result, ![c].baseline = 0]
    /\ printed' = [printed EXCEPT ![c] = of]
    /\ view' = [view EXCEPT ![c] = NoSnapshot]
    /\ ended' = [ended EXCEPT ![c] = NoSnapshot]
    /\ disturbed' = [disturbed EXCEPT ![c] = TRUE]
    /\ answered' = [answered EXCEPT ![c] = Unanswered]
    /\ UNCHANGED <<session, completed, adapterVars, reader, pc, carrying>>

\* threads, stack and break print the snapshot that satisfied them ...
Returns(c) ==
    /\ cli[c].pc = "waiting" /\ ~cli[c].error
    /\ Satisfied(cli[c].kind, view[c], cli[c].baseline)
    /\ IF cli[c].kind \in {"threads", "stack", "break"}
       THEN Ends(c, "ok", view[c].data[cli[c].kind].of)
       ELSE /\ cli' = [cli EXCEPT ![c].pc = "printing"]
            /\ ended' = [ended EXCEPT ![c] = view[c]]
            /\ UNCHANGED <<session, disturbed, completed, adapterVars, reader, pc, carrying,
                           view, printed, answered>>

\* ... scopes, vars and eval look once more, at the latest one: LatestScopes,
\* LatestVariables (of any one request) and LatestEvalResult.
Prints(c) ==
    LET of == view[c].data[cli[c].kind].of
    IN  /\ cli[c].pc = "printing"
        /\ IF cli[c].kind = "vars" /\ of # {}
           THEN \E r \in of : Ends(c, "ok", {r})
           ELSE Ends(c, "ok", of)

\* The own error, or the deadline, which comes after the predicate.
Fails(c) ==
    /\ cli[c].pc = "waiting"
    /\ cli[c].error \/ ~Satisfied(cli[c].kind, view[c], cli[c].baseline)
    /\ Ends(c, IF cli[c].error THEN "refused" ELSE "timed out", {})

-----------------------------------------------------------------------------
(* The specification *)

\* A session is attached; a thread may be known, and the program have been
\* stopped, since before.
Init ==
    /\ \E seen \in Pasts :
          session = [version |-> 1, terminal |-> FALSE, thread |-> seen, frame |-> seen,
                     evaluate |-> Reader, stack |-> seen,
                     data |-> [k \in CommandKinds |->
                         IF seen /\ k \in {"threads", "stack"}
                         THEN [of |-> {Reader}, empty |-> FALSE] ELSE Fresh]]
    /\ completed = {}
    /\ asked = {}
    /\ reader = Idle
    /\ pc = [c \in CLIs |-> "none"]
    /\ carrying = [g \in Goroutines |-> Nothing]
    /\ \E kind \in [CLIs -> Kinds] :
          cli = [c \in CLIs |-> [pc |-> "greeting", kind |-> kind[c], asked |-> FALSE,
                                 error |-> FALSE, baseline |-> 0, result |-> "none"]]
    /\ view = [c \in CLIs |-> NoSnapshot]
    /\ ended = view
    /\ printed = [c \in CLIs |-> {}]
    /\ answered = [c \in CLIs |-> Unanswered]
    /\ disturbed = [c \in CLIs |-> TRUE]
    /\ events = 0

HandlerStep(c) ==
    \/ HandlesHello(c) \/ HandlesRefusing(c) \/ HandlesRequest(c)
    \/ HandlesNoted(c) \/ Updates(c) \/ StoresBreakpoints(c) \/ Broadcasts(c)
    \/ Answers(c) \/ Leaves(c) \/ TellsOthers(c)

ReaderStep ==
    \/ \E a \in asked : ReceivesResponse(a)
    \/ \E event \in Events : ReceivesEvent(event)
    \/ Fills \/ (\E empty \in BOOLEAN : Stores(empty)) \/ TellsAgain

CLIStep(c) ==
    \/ Starts(c) \/ Asks(c) \/ Returns(c) \/ Prints(c) \/ Fails(c)

Next ==
    \/ \E c \in CLIs : HandlerStep(c) \/ CLIStep(c)
    \/ ReaderStep
    \/ \E g \in Goroutines, c \in CLIs : Sends(g, c)

Spec == Init /\ [][Next]_vars

-----------------------------------------------------------------------------
(* Properties *)

\* The snapshot v is not older than the command's baseline, and since then only its
\* own request changed the session.
Undisturbed(c, v) == v.version >= cli[c].baseline /\ ~disturbed[c]

\* Whose snapshots hold the answer: the reader's, sent after Update.  The response
\* to the request may be taken, or encoded, while the reader is in the middle of
\* applying the answer.  What "break" sets is broadcast by its handler too.
Informed(c) == IF cli[c].kind = "break" THEN {c, Reader} ELSE {Reader}

\* A command that ends well prints the answer to its own request, if the snapshots it
\* looked at are such, and nobody else changed the session meanwhile.  Otherwise it may
\* print an older answer, since any change satisfies "changed", and the end of the
\* program everything else.  "vars" prints any one of the answers so far, its own
\* among them; "break" prints an older list if the adapter rejects the new one.
PrintsItsAnswer == [][\A c \in CLIs :
    (/\ cli[c].pc # "done" /\ cli'[c].pc = "done" /\ cli'[c].result = "ok"
     /\ \A v \in {ended[c], view[c]} \ {NoSnapshot} :
           Undisturbed(c, v) /\ v.by \in Informed(c) /\ ~v.terminal
     /\ ~(cli[c].kind = "break" /\ answered[c].empty))
    => c \in IF cli[c].kind = "vars" THEN view[c].data["vars"].of ELSE printed'[c]]_vars

\* A command never runs into its timeout when the answer has reached it, unless
\* others changed the session meanwhile or the answer is an empty list: a failed
\* threads or scopes request is reported as a timeout.
TimesOutUnanswered == [][\A c \in CLIs :
    (/\ cli[c].pc # "done" /\ cli'[c].pc = "done" /\ cli'[c].result = "timed out"
     /\ Undisturbed(c, view[c])
     /\ answered[c] # Unanswered /\ view[c].version >= answered[c].version)
    => answered[c].empty /\ cli[c].kind \in {"threads", "scopes", "break"}]_vars

=============================================================================
