--------------------------- MODULE InspectionProofs ---------------------------
(***************************************************************************)
(* Proofs about Inspection, for any number of dap processes: what a        *)
(* command prints is the answer to its own request, and it does not time   *)
(* out on an answer that has reached it, as long as nobody else changes    *)
(* the session.                                                            *)
(*                                                                         *)
(* A command recognizes its answer by what the latest snapshot shows.  So  *)
(* the invariants follow its request from the handler over the adapter to  *)
(* the reader, and say for every snapshot, by its version, what it shows   *)
(* of the request: those in the session, those that are being sent and the *)
(* one the CLI holds.                                                      *)
(***************************************************************************)
EXTENDS Inspection, TLAPS

DatumType == [of : SUBSET Goroutines, empty : BOOLEAN]

DataType == [CommandKinds -> DatumType]

SnapshotType ==
    [version : Nat \ {0}, terminal : BOOLEAN, thread : BOOLEAN, frame : BOOLEAN,
     evaluate : Goroutines, stack : BOOLEAN, data : DataType]

ViewType ==
    [version : Nat \ {0}, data : DataType, terminal : BOOLEAN, stack : BOOLEAN,
     eval : BOOLEAN, by : Goroutines]

AskType == [by : Goroutines, kind : CommandKinds]

Places ==
    {"none", "hello", "decoding", "updating", "storing", "broadcasting", "answering",
     "served", "leaving", "gone"}

CLIType ==
    [pc : {"greeting", "waiting", "printing", "done"}, kind : CommandKinds, asked : BOOLEAN,
     error : BOOLEAN, baseline : Nat, result : {"none", "ok", "refused", "timed out"}]

SessionOK == session \in SnapshotType /\ completed \subseteq Goroutines

AdapterOK ==
    /\ asked \subseteq AskType
    /\ reader \in [at : {"idle", "recorded", "filled", "told"},
                   what : [by : Goroutines, kind : CommandKinds \cup EventKinds \cup {"none"}],
                   held : DatumType]

HandlersOK ==
    /\ pc \in [CLIs -> Places]
    /\ carrying \in [Goroutines -> [snap : SnapshotType \cup {NoSnapshot}, to : SUBSET CLIs]]
    /\ \A g \in Goroutines : carrying[g].to # {} => carrying[g].snap \in SnapshotType

CLIsOK ==
    /\ cli \in [CLIs -> CLIType]
    /\ view \in [CLIs -> ViewType \cup {NoSnapshot}]
    /\ ended \in [CLIs -> ViewType \cup {NoSnapshot}]
    /\ answered \in [CLIs -> [version : Nat, empty : BOOLEAN]]
    /\ disturbed \in [CLIs -> BOOLEAN]
    /\ printed \in [CLIs -> SUBSET Goroutines]

Types == SessionOK /\ AdapterOK /\ HandlersOK /\ CLIsOK

\* The request of c was sent to the adapter.
Submitted(c) ==
    pc[c] \in {"storing", "broadcasting", "answering", "served", "leaving", "gone"}
        /\ ~cli[c].error

\* The reader is in the middle of the answer to c.
Applying(c) == reader.at \in {"recorded", "filled"} /\ reader.what.by = c

Answered(c) == answered[c] # Unanswered

\* A request is sent once, answered once, and applied once.
RequestInv(c) ==
    /\ cli[c].asked <=> cli[c].pc # "greeting"
    /\ ~cli[c].asked => pc[c] \in {"none", "hello", "decoding"}
    /\ cli[c].error => pc[c] \in {"served", "leaving", "gone"}
    /\ pc[c] = "updating" => cli[c].kind \in Noted
    /\ pc[c] \in {"storing", "broadcasting"} => cli[c].kind = "break"
    /\ pc[c] \in {"leaving", "gone"} => cli[c].pc = "done"
    /\ \A a \in asked : a.by = c =>
         a.kind = cli[c].kind /\ Submitted(c) /\ ~Applying(c) /\ ~Answered(c)
    /\ Applying(c) => reader.what.kind = cli[c].kind /\ Submitted(c) /\ ~Answered(c)
    /\ Answered(c) => Submitted(c)

\* What is being sent or was received is not newer than the session.
VersionsInv ==
    /\ \A g \in Goroutines : carrying[g].snap.version <= session.version
    /\ \A c \in CLIs : view[c].version <= session.version
                       /\ answered[c].version <= session.version
                       /\ (Answered(c) => answered[c].version > 0)
    /\ reader.at \in {"recorded", "filled"} => carrying[Reader].to = {}

\* The record of an evaluation is that of a request that was noted, and variables
\* stay in the map.
RecordInv(c) ==
    /\ session.evaluate = c \/ c \in completed =>
         cli[c].kind = "eval" /\ pc[c] \notin {"none", "hello", "decoding"}
    /\ cli[c].kind = "vars" /\ ((Applying(c) /\ reader.at = "filled") \/ Answered(c)) =>
         c \in session.data["vars"].of

\* Since its baseline only the request of c changed the session.
Following(c) == cli[c].pc \in {"waiting", "printing"} /\ ~disturbed[c]

\* The handler of c noted the request, with a new version.
Moved(c) ==
    /\ Submitted(c)
    /\ cli[c].kind \in Noted \cup {"break"} /\ pc[c] # "storing"

Mine(c) == [of |-> {c}, empty |-> FALSE]

\* The snapshot s shows the answer to c.
Holds(c, s) ==
    LET kind == cli[c].kind
    IN  /\ kind \in {"threads", "scopes"} => s.data[kind] = [of |-> {c}, empty |-> answered[c].empty]
        /\ kind = "stack" => s.stack /\ s.data["stack"].of = {c}
        /\ kind = "eval" => s.data["eval"].of = {c}
        /\ kind = "break" => answered[c].empty \/ s.data["break"] = Mine(c)

\* It is newer than the baseline of c, but older than the answer.
Early(c, s) ==
    LET kind == cli[c].kind
    IN  /\ kind \in Noted \cup {"break"}
        /\ kind = "stack" => ~s.stack
        /\ kind = "break" => s.data["break"] = Mine(c)

\* The session, as far as c changed it.
SessionInv(c) == Following(c) =>
    LET kind == cli[c].kind
    IN  /\ cli[c].baseline <= session.version
        /\ session.version > cli[c].baseline => Moved(c) \/ Applying(c) \/ Answered(c)
        /\ kind = "stack" /\ (pc[c] = "updating" \/ Submitted(c)) /\ ~Answered(c) =>
             ~session.stack \/ (Applying(c) /\ reader.at = "filled")
        /\ kind = "eval" /\ (pc[c] = "updating" \/ Submitted(c)) => session.evaluate = c
        /\ kind = "eval" /\ c \in completed =>
             Answered(c) \/ (Applying(c) /\ reader.at = "filled")
        /\ kind = "break" /\ Moved(c) => answered[c].empty \/ session.data["break"] = Mine(c)
        /\ Applying(c) /\ reader.at = "filled" =>
             /\ kind = "stack" => session.stack
             /\ kind = "eval" => c \in completed
        /\ Answered(c) =>
             /\ answered[c].version > cli[c].baseline
             /\ Holds(c, session)
             /\ kind = "eval" => c \in completed

\* The snapshots that are on their way.
CarryingInv(c) == Following(c) =>
    /\ \A g \in Goroutines :
         LET s == carrying[g].snap
         IN  carrying[g].to # {} /\ Answered(c) /\ s.version >= answered[c].version =>
                Holds(c, s) /\ (cli[c].kind = "eval" => s.evaluate = c)
    /\ LET s == carrying[Reader].snap
       IN  carrying[Reader].to # {} =>
             /\ Answered(c) => s.version >= answered[c].version
             /\ ~Answered(c) /\ s.version > cli[c].baseline =>
                   Early(c, s) /\ (cli[c].kind = "eval" => s.evaluate = c)
    /\ LET s == carrying[c].snap
       IN  carrying[c].to # {} /\ s.version > cli[c].baseline /\ cli[c].kind = "break" =>
             answered[c].empty \/ s.data["break"] = Mine(c)

\* The one that c has received.
ViewInv(c) == Following(c) =>
    LET v == view[c]
        kind == cli[c].kind
    IN  v # NoSnapshot =>
          /\ Answered(c) /\ v.version >= answered[c].version =>
               Holds(c, v) /\ (kind = "eval" => v.eval)
          /\ v.version > cli[c].baseline /\ (Answered(c) => v.version < answered[c].version) =>
               /\ v.by = Reader => Early(c, v) /\ (kind = "eval" => ~v.eval)
          /\ v.version > cli[c].baseline /\ v.by \in {c, Reader} /\ kind = "break" =>
               answered[c].empty \/ v.data["break"] = Mine(c)
          /\ v.version > cli[c].baseline /\ v.by = Reader /\ kind = "vars" =>
               c \in v.data["vars"].of

\* After its wait was satisfied by the reader's snapshot it looks at that or a later one.
EndedInv(c) ==
    /\ cli[c].pc = "printing" => cli[c].kind \in {"scopes", "vars", "eval"} /\ ended[c] # NoSnapshot
    /\ cli[c].pc # "printing" => ended[c] = NoSnapshot
    /\ cli[c].pc \in {"waiting", "printing"} => view[c] # NoSnapshot
    /\ /\ cli[c].pc = "printing" /\ ~disturbed[c]
       /\ ended[c].by = Reader /\ ~ended[c].terminal /\ ended[c].version >= cli[c].baseline
       => /\ Answered(c)
          /\ view[c].by = Reader => view[c].version >= answered[c].version

IInv ==
    /\ Types /\ VersionsInv
    /\ \A c \in CLIs :
         /\ RequestInv(c) /\ RecordInv(c)
         /\ SessionInv(c) /\ CarryingInv(c) /\ ViewInv(c) /\ EndedInv(c)

-----------------------------------------------------------------------------
(* Types *)

LEMMA FreshType == Fresh \in DatumType
BY DEF Fresh, DatumType

LEMMA ShowType ==
    ASSUME NEW s \in SnapshotType, NEW kind \in CommandKinds, NEW datum \in DatumType
    PROVE  /\ Show(s, kind, datum) \in SnapshotType
           /\ Show(s, kind, datum) = [s EXCEPT !.data = [s.data EXCEPT ![kind] = datum]]
<1>1. s.data \in DataType
    BY DEF SnapshotType
<1>2. [s.data EXCEPT ![kind] = datum] \in DataType
    BY <1>1 DEF DataType
<1>3. Show(s, kind, datum) = [s EXCEPT !.data = [s.data EXCEPT ![kind] = datum]]
    BY DEF Show, SnapshotType
<1> QED
    BY <1>2, <1>3 DEF SnapshotType

LEMMA ChangesType ==
    ASSUME session \in SnapshotType, NEW s \in SnapshotType, NEW c, Changes(s, c)
    PROVE  /\ session' \in SnapshotType
           /\ session' = [s EXCEPT !.version = session.version + 1]
           /\ session'.version = session.version + 1
           /\ disturbed' = [d \in CLIs |-> disturbed[d] \/ d # c]
BY DEF Changes, Becomes, SnapshotType

LEMMA EncodedType ==
    ASSUME session \in SnapshotType, NEW snap \in SnapshotType, NEW by \in Goroutines
    PROVE  Encoded(snap, by) \in ViewType
<1>1. snap.data \in DataType /\ session.data \in DataType /\ "vars" \in CommandKinds
    BY DEF SnapshotType, CommandKinds
<1>2. [snap.data EXCEPT !["vars"] = session.data["vars"]] \in DataType
    BY <1>1 DEF DataType
<1> QED
    BY <1>2 DEF Encoded, ViewType, SnapshotType

LEMMA AppliedType ==
    ASSUME Types, NEW empty \in BOOLEAN
    PROVE  Applied(reader.what, empty) \in SnapshotType
<1> DEFINE what == reader.what
           datum == [of |-> {what.by}, empty |-> empty]
<1>1. datum \in DatumType /\ reader.held \in DatumType /\ session \in SnapshotType
    BY DEF Types, AdapterOK, SessionOK, DatumType
<1>2. \A k \in CommandKinds, d \in DatumType :
          /\ Show(session, k, d) \in SnapshotType
          /\ [Show(session, k, d) EXCEPT !.thread = @ \/ ~empty] \in SnapshotType
          /\ [Show(session, k, d) EXCEPT !.frame = @ \/ ~empty] \in SnapshotType
    BY <1>1, ShowType DEF SnapshotType
<1>3. {"threads", "stack", "scopes", "eval", "break"} \subseteq CommandKinds
    BY DEF CommandKinds
<1>4. [session EXCEPT !.thread = TRUE] \in SnapshotType
      /\ [session EXCEPT !.terminal = TRUE] \in SnapshotType
    BY <1>1 DEF SnapshotType
<1> HIDE DEF datum
<1>5. CASE what.kind = "threads"
    BY <1>1, <1>2, <1>3, <1>5 DEF Applied, datum
<1>6. CASE what.kind = "stack"
    BY <1>1, <1>2, <1>3, <1>6 DEF Applied, datum
<1>7. CASE what.kind \in {"scopes", "eval"}
    BY <1>1, <1>2, <1>3, <1>7 DEF Applied, datum
<1>8. CASE what.kind = "break"
    BY <1>1, <1>2, <1>3, <1>8 DEF Applied, datum
<1>9. CASE what.kind = "stopped"
    BY <1>4, <1>9 DEF Applied
<1>10. CASE what.kind = "terminated"
    BY <1>4, <1>10 DEF Applied
<1>11. CASE what.kind \notin {"threads", "stack", "scopes", "eval", "break", "stopped", "terminated"}
    BY <1>1, <1>11 DEF Applied
<1> QED
    BY <1>5, <1>6, <1>7, <1>8, <1>9, <1>10, <1>11

LEMMA CarryType ==
    ASSUME HandlersOK, NEW g \in Goroutines, NEW to \in SUBSET CLIs, NEW snap \in SnapshotType,
           carrying' = [carrying EXCEPT ![g] = [snap |-> snap, to |-> to]]
    PROVE  /\ carrying' \in [Goroutines -> [snap : SnapshotType \cup {NoSnapshot}, to : SUBSET CLIs]]
           /\ \A f \in Goroutines : carrying'[f].to # {} => carrying'[f].snap \in SnapshotType
BY DEF HandlersOK

LEMMA TypesInit == Init => Types
<1> SUFFICES ASSUME Init PROVE Types
    OBVIOUS
<1>1. SessionOK
  <2> PICK seen \in Pasts :
          session = [version |-> 1, terminal |-> FALSE, thread |-> seen, frame |-> seen,
                     evaluate |-> Reader, stack |-> seen,
                     data |-> [k \in CommandKinds |->
                         IF seen /\ k \in {"threads", "stack"}
                         THEN [of |-> {Reader}, empty |-> FALSE] ELSE Fresh]]
      BY DEF Init
  <2>1. session.data \in DataType
      BY FreshType DEF DataType, DatumType, Goroutines
  <2> QED
      BY <2>1, BoundsAssumption DEF Init, SessionOK, SnapshotType, Goroutines
<1>2. AdapterOK
    BY FreshType DEF Init, AdapterOK, Idle, Goroutines
<1>3. HandlersOK
    BY DEF Init, HandlersOK, Places, Nothing
<1>4. CLIsOK
  <2>1. PICK kind \in [CLIs -> Kinds] :
          cli = [c \in CLIs |-> [pc |-> "greeting", kind |-> kind[c], asked |-> FALSE,
                                 error |-> FALSE, baseline |-> 0, result |-> "none"]]
      BY DEF Init
  <2>2. cli \in [CLIs -> CLIType]
      BY <2>1, KindsAssumption DEF CLIType
  <2> QED
      BY <2>2 DEF Init, CLIsOK, Unanswered
<1> QED
    BY <1>1, <1>2, <1>3, <1>4 DEF Types

LEMMA TypesHandler ==
    ASSUME Types, NEW c \in CLIs, HandlerStep(c)
    PROVE  Types'
<1> USE DEF Types
<1>0. /\ c \in Goroutines /\ Reader \in Goroutines /\ Registered \subseteq CLIs
      /\ session \in SnapshotType /\ cli[c].kind \in CommandKinds
    BY DEF Goroutines, Registered, SessionOK, CLIsOK, CLIType
<1>1. CASE HandlesHello(c)
  <2>1. session' \in SnapshotType /\ disturbed' \in [CLIs -> BOOLEAN]
      BY <1>0, <1>1, ChangesType DEF HandlesHello, CLIsOK
  <2>2. HandlersOK'
      BY <1>0, <1>1, <2>1, CarryType DEF HandlesHello, Carry, HandlersOK, Goto, Places
  <2> QED
      BY <1>1, <2>1, <2>2
      DEF HandlesHello, SessionOK, AdapterOK, adapterVars, cliVars, CLIsOK
<1>2. CASE HandlesRefusing(c)
  <2>1. cli' \in [CLIs -> CLIType]
    <3>1. [cli[c] EXCEPT !.error = TRUE] \in CLIType
        BY DEF CLIsOK, CLIType
    <3>2. cli' = [cli EXCEPT ![c] = [cli[c] EXCEPT !.error = TRUE]]
        BY <1>2 DEF HandlesRefusing
    <3> QED
        BY <3>1, <3>2 DEF CLIsOK
  <2> QED
      BY <1>2, <2>1
      DEF HandlesRefusing, SessionOK, AdapterOK, adapterVars, CLIsOK, HandlersOK, Goto, Places
<1>3. CASE HandlesNoted(c)
  <2>1. session' \in SnapshotType /\ disturbed' \in [CLIs -> BOOLEAN]
      BY <1>0, <1>3 DEF HandlesNoted, Becomes, SnapshotType, CLIsOK
  <2> QED
      BY <1>3, <2>1
      DEF HandlesNoted, SessionOK, AdapterOK, adapterVars, cliVars, CLIsOK, HandlersOK, Goto, Places
<1>4. CASE Updates(c)
  <2>1. session' \in SnapshotType /\ disturbed' \in [CLIs -> BOOLEAN]
      BY <1>0, <1>4, ChangesType DEF Updates, CLIsOK
  <2>2. asked' \subseteq AskType
      BY <1>0, <1>4 DEF Updates, SendsRequest, AdapterOK, AskType
  <2> QED
      BY <1>4, <2>1, <2>2
      DEF Updates, SendsRequest, SessionOK, AdapterOK, cliVars, CLIsOK, HandlersOK, Goto, Places
<1>5. CASE HandlesRequest(c)
  <2>1. asked' \subseteq AskType
      BY <1>0, <1>5 DEF HandlesRequest, SendsRequest, AdapterOK, AskType
  <2> QED
      BY <1>5, <2>1
      DEF HandlesRequest, SendsRequest, SessionOK, AdapterOK, cliVars, CLIsOK, HandlersOK, Goto, Places
<1>6. CASE StoresBreakpoints(c)
  <2>1. [of |-> {c}, empty |-> FALSE] \in DatumType /\ "break" \in CommandKinds
      BY <1>0 DEF DatumType, CommandKinds
  <2>2. Show(session, "break", [of |-> {c}, empty |-> FALSE]) \in SnapshotType
      BY <1>0, <2>1, ShowType
  <2>3. session' \in SnapshotType /\ disturbed' \in [CLIs -> BOOLEAN]
      BY <1>0, <1>6, <2>2, ChangesType DEF StoresBreakpoints, CLIsOK
  <2> QED
      BY <1>6, <2>3
      DEF StoresBreakpoints, SessionOK, AdapterOK, adapterVars, cliVars, CLIsOK, HandlersOK, Goto, Places
<1>7. CASE Broadcasts(c) \/ Answers(c) \/ TellsOthers(c)
  <2>1. HandlersOK'
    <3>1. pc' \in [CLIs -> Places]
        BY <1>7 DEF Broadcasts, Answers, TellsOthers, HandlersOK, Goto, Places
    <3>2. \E to \in SUBSET CLIs : carrying' = [carrying EXCEPT ![c] = [snap |-> session, to |-> to]]
        BY <1>0, <1>7 DEF Broadcasts, Answers, TellsOthers, Carry
    <3> QED
        BY <1>0, <3>1, <3>2, CarryType DEF HandlersOK
  <2> QED
      BY <1>7, <2>1
      DEF Broadcasts, Answers, TellsOthers, SessionOK, AdapterOK, adapterVars, cliVars, CLIsOK
<1>8. CASE Leaves(c)
  <2>1. session' \in SnapshotType /\ disturbed' \in [CLIs -> BOOLEAN]
      BY <1>0, <1>8, ChangesType DEF Leaves, CLIsOK
  <2> QED
      BY <1>8, <2>1
      DEF Leaves, SessionOK, AdapterOK, adapterVars, cliVars, CLIsOK, HandlersOK, Goto, Places
<1> QED
    BY <1>1, <1>2, <1>3, <1>4, <1>5, <1>6, <1>7, <1>8 DEF HandlerStep

LEMMA TypesReader ==
    ASSUME Types, ReaderStep
    PROVE  Types'
<1> USE DEF Types
<1>0. /\ Reader \in Goroutines /\ Registered \subseteq CLIs /\ session \in SnapshotType
      /\ reader.what \in [by : Goroutines, kind : CommandKinds \cup EventKinds \cup {"none"}]
      /\ "vars" \in CommandKinds /\ "break" \in CommandKinds
    BY DEF Goroutines, Registered, SessionOK, AdapterOK, CommandKinds
<1>1. ASSUME NEW what \in [by : Goroutines, kind : CommandKinds \cup EventKinds \cup {"none"}],
             Records(what), asked' \subseteq asked
      PROVE  Types'
  <2>0. Changes(session, what.by)
      BY <1>1 DEF Records
  <2>1. session' \in SnapshotType /\ disturbed' \in [CLIs -> BOOLEAN]
      BY <1>0, <2>0, ChangesType DEF CLIsOK
  <2>2. reader' = [at |-> "recorded", what |-> what, held |-> session.data["break"]]
        /\ session.data["break"] \in DatumType
      BY <1>0, <1>1 DEF Records, SnapshotType, DataType
  <2>3. AdapterOK'
      BY <1>1, <2>2 DEF AdapterOK
  <2> QED
      BY <1>1, <2>1, <2>3 DEF Records, SessionOK, cliVars, CLIsOK, HandlersOK
<1>2. ASSUME NEW a \in asked, ReceivesResponse(a) PROVE Types'
    BY <1>1, <1>2 DEF ReceivesResponse, AdapterOK, AskType
<1>3. ASSUME NEW event \in Events, ReceivesEvent(event) PROVE Types'
    BY <1>0, <1>1, <1>3, KindsAssumption DEF ReceivesEvent
<1>4. CASE Fills
  <2> DEFINE datum == [of |-> session.data["vars"].of \cup {reader.what.by}, empty |-> FALSE]
  <2>1. datum \in DatumType
      BY <1>0 DEF SnapshotType, DataType, DatumType
  <2>2. Show(session, "vars", datum) \in SnapshotType /\ [session EXCEPT !.stack = TRUE] \in SnapshotType
      BY <1>0, <2>1, ShowType DEF SnapshotType
  <2>3. session' \in SnapshotType /\ disturbed' \in [CLIs -> BOOLEAN]
      BY <1>0, <1>4, <2>2 DEF Fills, Becomes, CLIsOK
  <2>4. completed' \subseteq Goroutines
      BY <1>0, <1>4 DEF Fills, SessionOK, SnapshotType
  <2>5. AdapterOK'
      BY <1>4 DEF Fills, AdapterOK, adapterVars
  <2> QED
      BY <1>4, <2>3, <2>4, <2>5 DEF Fills, SessionOK, cliVars, CLIsOK, HandlersOK
<1>5. ASSUME NEW empty \in BOOLEAN, Stores(empty) PROVE Types'
  <2>0. Changes(Applied(reader.what, empty), reader.what.by)
      BY <1>5 DEF Stores
  <2>1. session' \in SnapshotType /\ disturbed' \in [CLIs -> BOOLEAN]
      BY <1>0, <2>0, AppliedType, ChangesType DEF CLIsOK
  <2>2. HandlersOK'
      BY <1>0, <1>5, <2>1, CarryType DEF Stores, Carry, HandlersOK
  <2>3. AdapterOK'
    <3>1. [by : {Reader}, kind : {"threads", "stack"}] \subseteq AskType
        BY <1>0 DEF AskType, CommandKinds
    <3>2. asked' \subseteq AskType
        BY <1>5, <3>1 DEF Stores, AdapterOK
    <3> QED
        BY <1>5, <3>2 DEF Stores, AdapterOK
  <2>4. answered' \in [CLIs -> [version : Nat, empty : BOOLEAN]]
    <3>1. session.version + 1 \in Nat
        BY <1>0 DEF SnapshotType
    <3> QED
        BY <1>5, <3>1 DEF Stores, CLIsOK
  <2>5. /\ completed' = completed /\ cli' = cli /\ view' = view /\ ended' = ended
        /\ printed' = printed
      BY <1>5 DEF Stores, cliVars
  <2> QED
      BY <2>1, <2>2, <2>3, <2>4, <2>5 DEF SessionOK, CLIsOK
<1>6. CASE TellsAgain
  <2>1. HandlersOK'
      BY <1>0, <1>6, CarryType DEF TellsAgain, Carry, HandlersOK
  <2>2. AdapterOK'
      BY <1>0, <1>6, FreshType DEF TellsAgain, AdapterOK, adapterVars, Idle
  <2> QED
      BY <1>6, <2>1, <2>2 DEF TellsAgain, SessionOK, cliVars, CLIsOK
<1> QED
    BY <1>2, <1>3, <1>4, <1>5, <1>6 DEF ReaderStep

LEMMA TypesCLI ==
    ASSUME Types, NEW c \in CLIs, EndedInv(c), CLIStep(c)
    PROVE  Types'
<1> USE DEF Types
<1>0. cli[c] \in CLIType /\ cli[c].kind \in CommandKinds
    BY DEF CLIsOK, CLIType
<1>1. ASSUME NEW result \in {"ok", "refused", "timed out"}, NEW of \in SUBSET Goroutines,
             Ends(c, result, of)
      PROVE  Types'
  <2>1. cli' \in [CLIs -> CLIType]
      BY <1>0, <1>1 DEF Ends, CLIsOK, CLIType
  <2>2. answered' \in [CLIs -> [version : Nat, empty : BOOLEAN]]
      BY <1>1 DEF Ends, CLIsOK, Unanswered
  <2> QED
      BY <1>1, <2>1, <2>2 DEF Ends, SessionOK, AdapterOK, adapterVars, HandlersOK, CLIsOK
<1>2. view[c] # NoSnapshot => view[c] \in ViewType /\ view[c].data[cli[c].kind].of \in SUBSET Goroutines
    BY <1>0 DEF CLIsOK, ViewType, DataType, DatumType
<1>3. CASE Starts(c)
    BY <1>3 DEF Starts, SessionOK, AdapterOK, adapterVars, cliVars, HandlersOK, CLIsOK, Goto, Places
<1>4. CASE Asks(c)
  <2>1. view[c].version \in Nat
      BY <1>4, <1>2 DEF Asks, ViewType
  <2>2. cli' \in [CLIs -> CLIType]
      BY <1>0, <1>4, <2>1 DEF Asks, CLIsOK, CLIType
  <2>3. disturbed' \in [CLIs -> BOOLEAN]
      BY <1>4 DEF Asks, CLIsOK
  <2> QED
      BY <1>4, <2>2, <2>3 DEF Asks, SessionOK, AdapterOK, adapterVars, HandlersOK, CLIsOK
<1>5. CASE Returns(c)
  <2>1. CASE cli[c].kind \in {"threads", "stack", "break"}
      BY <1>1, <1>2, <1>5, <2>1 DEF Returns, EndedInv
  <2>2. CASE cli[c].kind \notin {"threads", "stack", "break"}
    <3>1. cli' \in [CLIs -> CLIType]
      <4>1. [cli[c] EXCEPT !.pc = "printing"] \in CLIType
          BY <1>0 DEF CLIType
      <4>2. cli' = [cli EXCEPT ![c] = [cli[c] EXCEPT !.pc = "printing"]]
          BY <1>5, <2>2 DEF Returns
      <4> QED
          BY <4>1, <4>2 DEF CLIsOK
    <3> QED
        BY <1>5, <2>2, <3>1 DEF Returns, SessionOK, AdapterOK, adapterVars, HandlersOK, CLIsOK
  <2> QED
      BY <2>1, <2>2
<1>6. CASE Prints(c)
  <2>1. view[c].data[cli[c].kind].of \in SUBSET Goroutines
      BY <1>2, <1>6 DEF Prints, EndedInv
  <2> QED
      BY <1>1, <1>6, <2>1 DEF Prints
<1>7. CASE Fails(c)
  <2>1. Ends(c, "refused", {}) \/ Ends(c, "timed out", {})
      BY <1>7 DEF Fails
  <2>2. {} \in SUBSET Goroutines
      OBVIOUS
  <2>3. CASE Ends(c, "refused", {})
      BY <1>1, <2>2, <2>3
  <2>4. CASE Ends(c, "timed out", {})
      BY <1>1, <2>2, <2>4
  <2> QED
      BY <2>1, <2>3, <2>4
<1> QED
    BY <1>3, <1>4, <1>5, <1>6, <1>7 DEF CLIStep

LEMMA TypesSends ==
    ASSUME Types, NEW g \in Goroutines, NEW c \in CLIs, Sends(g, c)
    PROVE  Types'
<1> USE DEF Types
<1>1. carrying[g].snap \in SnapshotType /\ session \in SnapshotType
    BY DEF Sends, HandlersOK, SessionOK
<1>2. Encoded(carrying[g].snap, g) \in ViewType
    BY <1>1, EncodedType
<1>3. view' \in [CLIs -> ViewType \cup {NoSnapshot}]
    BY <1>2 DEF Sends, CLIsOK
<1>4. HandlersOK'
  <2>1. CASE carrying[g].to = {c}
    <3>1. carrying' = [carrying EXCEPT ![g] = Nothing] /\ pc' = pc
        BY <2>1 DEF Sends
    <3> QED
        BY <3>1 DEF HandlersOK, Nothing
  <2>2. CASE carrying[g].to # {c}
    <3>1. /\ carrying' = [carrying EXCEPT ![g] =
                [snap |-> carrying[g].snap, to |-> carrying[g].to \ {c}]]
          /\ pc' = pc
        BY <2>2 DEF Sends
    <3> QED
        BY <1>1, <3>1, CarryType DEF HandlersOK
  <2> QED
      BY <2>1, <2>2
<1> QED
    BY <1>3, <1>4 DEF Sends, SessionOK, AdapterOK, adapterVars, CLIsOK

LEMMA TypesNext ==
    ASSUME Types, \A c \in CLIs : EndedInv(c), Next
    PROVE  Types'
BY TypesHandler, TypesReader, TypesCLI, TypesSends DEF Next

-----------------------------------------------------------------------------
(* The course of a request *)

LEMMA RequestInit ==
    ASSUME Init, NEW c \in CLIs
    PROVE  RequestInv(c)
BY DEF Init, RequestInv, Applying, Answered, Idle

\* Steps of the handler and the CLI of another command, and those that no part of
\* the request is about.
LEMMA RequestKept ==
    ASSUME NEW c \in CLIs, RequestInv(c),
           cli'[c] = cli[c], pc'[c] = pc[c], answered'[c] = answered[c],
           \A a \in asked' : a.by = c => a \in asked,
           Applying(c)' => Applying(c) /\ reader'.what = reader.what
    PROVE  RequestInv(c)'
BY DEF RequestInv, Submitted, Answered

LEMMA RequestHandler ==
    ASSUME Types, NEW c \in CLIs, RequestInv(c), NEW d \in CLIs, HandlerStep(d)
    PROVE  RequestInv(c)'
<1>0. /\ pc \in [CLIs -> Places] /\ cli \in [CLIs -> CLIType] /\ asked \subseteq AskType
    BY DEF Types, HandlersOK, CLIsOK, AdapterOK
<1>1. answered' = answered /\ reader' = reader
    BY DEF HandlerStep, HandlesHello, HandlesRefusing, HandlesNoted, Updates, HandlesRequest,
           SendsRequest, StoresBreakpoints, Broadcasts, Answers, Leaves, TellsOthers
<1>2. Applying(c)' <=> Applying(c)
    BY <1>1 DEF Applying
<1>3. CASE c # d
  <2>1. cli'[c] = cli[c] /\ pc'[c] = pc[c]
      BY <1>0, <1>3
      DEF HandlerStep, HandlesHello, HandlesRefusing, HandlesNoted, Updates, HandlesRequest,
          SendsRequest, StoresBreakpoints, Broadcasts, Answers, Leaves, TellsOthers, Goto, cliVars
  <2>2. \A a \in asked' : a.by = c => a \in asked
      BY <1>3
      DEF HandlerStep, HandlesHello, HandlesRefusing, HandlesNoted, Updates, HandlesRequest,
          SendsRequest, StoresBreakpoints, Broadcasts, Answers, Leaves, TellsOthers, adapterVars
  <2> QED
      BY <1>1, <1>2, <2>1, <2>2, RequestKept
<1>4. CASE c = d /\ (Updates(d) \/ HandlesRequest(d))
  <2>1. /\ asked' = asked \cup {[by |-> c, kind |-> cli[c].kind]} /\ cli' = cli
        /\ pc[c] \in {"decoding", "updating"} /\ cli[c].asked
        /\ pc'[c] = IF cli[c].kind = "break" THEN "storing" ELSE "answering"
      BY <1>0, <1>4 DEF Updates, HandlesRequest, SendsRequest, Goto, Takes, cliVars, RequestInv, Noted
  <2>2. ~cli[c].error /\ ~Applying(c) /\ ~Answered(c) /\ \A a \in asked : a.by # c
      BY <2>1 DEF RequestInv, Submitted
  <2>3. Submitted(c)' /\ ~Answered(c)'
      BY <1>1, <2>1, <2>2 DEF Submitted, Answered
  <2>4. \A a \in asked' : a.by = c => a.kind = cli[c].kind
      BY <2>1, <2>2
  <2> QED
      BY <1>2, <2>1, <2>2, <2>3, <2>4 DEF RequestInv
<1>5. CASE c = d /\ HandlesRefusing(d)
  <2>1. /\ asked' = asked /\ cli[c].asked /\ pc[c] = "decoding" /\ pc'[c] = "served"
        /\ cli'[c] = [cli[c] EXCEPT !.error = TRUE]
      BY <1>0, <1>5 DEF HandlesRefusing, Takes, Goto, adapterVars
  <2>2. ~Applying(c) /\ ~Answered(c) /\ \A a \in asked : a.by # c
      BY <2>1 DEF RequestInv, Submitted
  <2>3. cli'[c].pc = cli[c].pc /\ cli'[c].asked = cli[c].asked /\ cli'[c].kind = cli[c].kind
      BY <1>0, <2>1 DEF CLIType
  <2> QED
      BY <1>1, <1>2, <2>1, <2>2, <2>3 DEF RequestInv, Answered
<1>6. CASE c = d /\ (HandlesHello(d) \/ HandlesNoted(d))
  <2>1. /\ asked' = asked /\ cli' = cli
        /\ pc[c] \in {"hello", "decoding"}
        /\ \/ pc'[c] = "decoding"
           \/ pc'[c] = "updating" /\ cli[c].kind \in Noted /\ cli[c].asked
      BY <1>0, <1>6 DEF HandlesHello, HandlesNoted, Takes, Goto, adapterVars, cliVars
  <2>2. ~cli[c].error /\ ~Applying(c) /\ ~Answered(c) /\ \A a \in asked : a.by # c
      BY <2>1 DEF RequestInv, Submitted
  <2> QED
      BY <1>1, <1>2, <2>1, <2>2 DEF RequestInv, Answered
<1>7. CASE c = d /\ (StoresBreakpoints(d) \/ Broadcasts(d) \/ Answers(d) \/ Leaves(d) \/ TellsOthers(d))
  <2>1. /\ asked' = asked /\ cli' = cli
        /\ pc[c] \in {"decoding", "storing", "broadcasting", "answering", "served", "leaving"}
        /\ pc'[c] \in {"broadcasting", "answering", "served", "leaving", "gone"}
        /\ pc'[c] = "broadcasting" => pc[c] = "storing"
        /\ pc[c] \in {"decoding", "served"} => pc'[c] = "leaving" /\ cli[c].pc = "done"
        /\ pc[c] = "leaving" => pc'[c] = "gone"
        /\ pc[c] = "broadcasting" => pc'[c] = "answering"
        /\ pc'[c] = "leaving" => cli[c].pc = "done"
        /\ pc'[c] = "gone" => pc[c] = "leaving"
        /\ pc[c] = "answering" => pc'[c] = "served"
      BY <1>0, <1>7
      DEF StoresBreakpoints, Broadcasts, Answers, Leaves, TellsOthers, Goto, adapterVars, cliVars
  <2>2. Submitted(c) => Submitted(c)'
      BY <2>1 DEF Submitted
  <2> QED
      BY <1>1, <1>2, <2>1, <2>2 DEF RequestInv, Answered
<1> QED
    BY <1>3, <1>4, <1>5, <1>6, <1>7 DEF HandlerStep

LEMMA RequestReader ==
    ASSUME Types, NEW c \in CLIs, RequestInv(c), ReaderStep
    PROVE  RequestInv(c)'
<1>0. asked \subseteq AskType /\ c # Reader /\ cli' = cli /\ pc' = pc
    BY ActorsAssumption
    DEF Types, AdapterOK, ReaderStep, ReceivesResponse, ReceivesEvent, Records, Fills, Stores,
        TellsAgain, cliVars
<1>1. ASSUME NEW a \in asked, ReceivesResponse(a) PROVE RequestInv(c)'
  <2>1. /\ asked' = asked \ {a} /\ reader.at = "idle" /\ answered' = answered
        /\ reader'.at = "recorded" /\ reader'.what = a
      BY <1>1 DEF ReceivesResponse, Records
  <2>2. CASE a.by = c
    <3>1. \A b \in asked : b.by = c => b = a
        BY <1>0, <2>2 DEF RequestInv, AskType
    <3>2. Applying(c)' /\ (Submitted(c)' <=> Submitted(c)) /\ (Answered(c)' <=> Answered(c))
        BY <1>0, <2>1, <2>2 DEF Applying, Submitted, Answered
    <3> QED
        BY <1>0, <2>1, <2>2, <3>1, <3>2 DEF RequestInv
  <2>3. CASE a.by # c
      BY <1>0, <2>1, <2>3, RequestKept DEF Applying
  <2> QED
      BY <2>2, <2>3
<1>2. ASSUME NEW event \in Events, ReceivesEvent(event) PROVE RequestInv(c)'
    BY <1>0, <1>2, RequestKept DEF ReceivesEvent, Records, Applying
<1>3. CASE Fills
  <2>1. /\ asked' = asked /\ answered' = answered /\ reader'.what = reader.what
        /\ reader.at = "recorded" /\ reader'.at = "filled"
      BY <1>3 DEF Fills, adapterVars, Types, AdapterOK
  <2> QED
      BY <1>0, <2>1, RequestKept DEF Applying
<1>4. ASSUME NEW empty \in BOOLEAN, Stores(empty) PROVE RequestInv(c)'
  <2>1. /\ \A a \in asked' : a.by = c => a \in asked
        /\ reader.at = "filled" /\ reader'.at = "told"
        /\ reader.what.by # c => answered'[c] = answered[c]
      BY <1>0, <1>4 DEF Stores, Types, AdapterOK, CLIsOK
  <2>2. ~Applying(c)'
      BY <2>1 DEF Applying
  <2>3. CASE reader.what.by # c
      BY <1>0, <2>1, <2>2, <2>3, RequestKept
  <2>4. CASE reader.what.by = c
    <3>1. Applying(c)
        BY <2>1, <2>4 DEF Applying
    <3>2. Submitted(c) /\ \A a \in asked : a.by # c
        BY <3>1 DEF RequestInv
    <3>3. Submitted(c)'
        BY <1>0, <3>2 DEF Submitted
    <3> QED
        BY <1>0, <2>1, <2>2, <3>2, <3>3 DEF RequestInv
  <2> QED
      BY <2>3, <2>4
<1>5. CASE TellsAgain
    BY <1>0, <1>5, RequestKept DEF TellsAgain, adapterVars, Applying, Idle
<1> QED
    BY <1>1, <1>2, <1>3, <1>4, <1>5 DEF ReaderStep

LEMMA RequestCLI ==
    ASSUME Types, NEW c \in CLIs, RequestInv(c), NEW d \in CLIs, CLIStep(d)
    PROVE  RequestInv(c)'
<1>0. /\ pc \in [CLIs -> Places] /\ cli \in [CLIs -> CLIType]
      /\ answered \in [CLIs -> [version : Nat, empty : BOOLEAN]]
    BY DEF Types, HandlersOK, CLIsOK
<1>1. asked' = asked /\ reader' = reader
    BY DEF CLIStep, Starts, Asks, Returns, Prints, Fails, Ends, adapterVars
<1>2. Applying(c)' <=> Applying(c)
    BY <1>1 DEF Applying
<1>3. CASE c # d
  <2>1. cli'[c] = cli[c] /\ pc'[c] = pc[c] /\ answered'[c] = answered[c]
      BY <1>0, <1>3 DEF CLIStep, Starts, Asks, Returns, Prints, Fails, Ends, Goto, cliVars
  <2> QED
      BY <1>1, <1>2, <2>1, RequestKept
<1>4. CASE c = d /\ Starts(d)
  <2>1. pc[c] = "none" /\ pc'[c] = "hello" /\ cli' = cli /\ answered' = answered
      BY <1>0, <1>4 DEF Starts, Goto, cliVars
  <2> QED
      BY <1>1, <1>2, <2>1 DEF RequestInv, Submitted, Answered
<1>5. CASE c = d /\ ~Starts(d)
  <2>0. cli[c] \in CLIType
      BY <1>0
  <2>1. /\ pc' = pc
        /\ cli'[c].kind = cli[c].kind /\ cli'[c].error = cli[c].error
        /\ Answered(c)' => Answered(c)
        /\ cli'[c].asked /\ cli'[c].pc # "greeting" /\ cli[c].pc # "done"
    <3>1. CASE Asks(c)
        BY <1>0, <2>0, <3>1 DEF Asks, Answered, CLIType
    <3>2. ASSUME NEW result, NEW of, Ends(c, result, of), cli[c].pc \in {"waiting", "printing"}
          PROVE  /\ pc' = pc
                 /\ cli'[c].kind = cli[c].kind /\ cli'[c].error = cli[c].error
                 /\ Answered(c)' => Answered(c)
                 /\ cli'[c].asked /\ cli'[c].pc # "greeting" /\ cli[c].pc # "done"
      <4>1. cli'[c] = [cli[c] EXCEPT !.pc = "done", !.result = result, !.baseline = 0]
          BY <1>0, <3>2 DEF Ends
      <4>2. answered'[c] = Unanswered
          BY <1>0, <3>2 DEF Ends
      <4>3. /\ cli'[c].kind = cli[c].kind /\ cli'[c].error = cli[c].error
            /\ cli'[c].asked = cli[c].asked /\ cli'[c].pc = "done"
          BY <2>0, <4>1 DEF CLIType
      <4>4. cli[c].asked
          BY <3>2 DEF RequestInv
      <4>5. pc' = pc
          BY <3>2 DEF Ends
      <4> QED
          BY <3>2, <4>2, <4>3, <4>4, <4>5 DEF Answered
    <3>3. CASE Returns(c)
      <4>1. cli[c].pc = "waiting" /\ cli[c].asked
          BY <3>3 DEF Returns, RequestInv
      <4>2. CASE cli[c].kind \in {"threads", "stack", "break"}
          BY <3>2, <3>3, <4>1, <4>2 DEF Returns
      <4>3. CASE cli[c].kind \notin {"threads", "stack", "break"}
        <5>1. /\ cli'[c] = [cli[c] EXCEPT !.pc = "printing"]
              /\ pc' = pc /\ answered' = answered
            BY <1>0, <3>3, <4>3 DEF Returns
        <5>2. /\ cli'[c].kind = cli[c].kind /\ cli'[c].error = cli[c].error
              /\ cli'[c].asked = cli[c].asked /\ cli'[c].pc = "printing"
            BY <2>0, <5>1 DEF CLIType
        <5> QED
            BY <4>1, <5>1, <5>2 DEF Answered
      <4> QED
          BY <4>2, <4>3
    <3>4. CASE Prints(c) \/ Fails(c)
        BY <3>2, <3>4 DEF Prints, Fails
    <3> QED
        BY <1>5, <3>1, <3>3, <3>4 DEF CLIStep
  <2>2. Submitted(c)' <=> Submitted(c)
      BY <2>1 DEF Submitted
  <2>3. cli'[c].pc = "done" \/ pc[c] \notin {"leaving", "gone"}
      BY <2>1 DEF RequestInv
  <2> QED
      BY <1>1, <1>2, <2>1, <2>2, <2>3 DEF RequestInv
<1> QED
    BY <1>3, <1>4, <1>5

LEMMA RequestNext ==
    ASSUME Types, NEW c \in CLIs, RequestInv(c), Next
    PROVE  RequestInv(c)'
<1>1. ASSUME NEW g \in Goroutines, NEW d \in CLIs, Sends(g, d) PROVE RequestInv(c)'
    BY <1>1, RequestKept DEF Sends, adapterVars, Applying
<1> QED
    BY <1>1, RequestHandler, RequestReader, RequestCLI DEF Next

-----------------------------------------------------------------------------
(* Versions *)

\* The session's version never goes back.
LEMMA VersionGrows ==
    ASSUME Types, Next
    PROVE  session.version \in Nat /\ session'.version \in Nat /\ session'.version >= session.version
<1>0. session \in SnapshotType /\ session.version \in Nat
    BY DEF Types, SessionOK, SnapshotType
<1>1. ASSUME NEW s \in SnapshotType, NEW c, Changes(s, c)
      PROVE  session'.version = session.version + 1
    BY <1>0, <1>1, ChangesType
<1>2. ASSUME NEW c \in CLIs, HandlerStep(c)
      PROVE  session'.version \in {session.version, session.version + 1}
  <2>1. CASE HandlesHello(c) \/ Leaves(c) \/ Updates(c)
      BY <1>0, <1>1, <2>1 DEF HandlesHello, Leaves, Updates
  <2>2. CASE HandlesNoted(c)
      BY <1>0, <2>2 DEF HandlesNoted, Becomes, SnapshotType
  <2>3. CASE StoresBreakpoints(c)
    <3>1. Show(session, "break", [of |-> {c}, empty |-> FALSE]) \in SnapshotType
        BY <1>0, ShowType DEF DatumType, CommandKinds, Goroutines
    <3> QED
        BY <1>1, <2>3, <3>1 DEF StoresBreakpoints
  <2>4. CASE session' = session
      BY <2>4
  <2> QED
      BY <1>2, <2>1, <2>2, <2>3, <2>4
      DEF HandlerStep, HandlesRefusing, HandlesRequest, Broadcasts, Answers, TellsOthers
<1>3. ASSUME ReaderStep PROVE session'.version \in {session.version, session.version + 1}
  <2>1. ASSUME NEW what, Records(what) PROVE session'.version = session.version + 1
      BY <1>0, <1>1, <2>1 DEF Records
  <2>2. ASSUME NEW empty \in BOOLEAN, Stores(empty) PROVE session'.version = session.version + 1
      BY <1>1, <2>2, AppliedType DEF Stores
  <2>3. CASE Fills
    <3>1. Show(session, "vars", [of |-> session.data["vars"].of \cup {reader.what.by},
                                 empty |-> FALSE]).version = session.version
        BY <1>0 DEF Show, SnapshotType
    <3>2. [session EXCEPT !.stack = TRUE].version = session.version
        BY <1>0 DEF SnapshotType
    <3> QED
        BY <2>3, <3>1, <3>2 DEF Fills, Becomes
  <2> QED
      BY <1>3, <2>1, <2>2, <2>3 DEF ReaderStep, ReceivesResponse, ReceivesEvent, TellsAgain
<1>4. ASSUME NEW c \in CLIs, CLIStep(c) PROVE session' = session
    BY <1>4 DEF CLIStep, Starts, Asks, Returns, Prints, Fails, Ends
<1>5. ASSUME NEW g \in Goroutines, NEW c \in CLIs, Sends(g, c) PROVE session' = session
    BY <1>5 DEF Sends
<1> QED
    BY <1>0, <1>2, <1>3, <1>4, <1>5 DEF Next

LEMMA VersionsInit == Init => VersionsInv
<1> SUFFICES ASSUME Init PROVE VersionsInv
    OBVIOUS
<1>1. session.version = 1
    BY DEF Init
<1> QED
    BY <1>1 DEF Init, VersionsInv, Nothing, NoSnapshot, Unanswered, Answered, Idle

\* The goroutine g alone takes a snapshot, that of the session.
CarriedBy(g) ==
    /\ \A f \in Goroutines \ {g} : carrying'[f] = carrying[f]
    /\ carrying'[g].snap \in {session, session'}

LEMMA VersionsCarried ==
    ASSUME Types, VersionsInv, Next, view' = view, answered' = answered,
           NEW g \in Goroutines, CarriedBy(g),
           reader'.at \in {"recorded", "filled"} => reader' = reader /\ g # Reader
    PROVE  VersionsInv'
<1>1. session.version \in Nat /\ session'.version \in Nat /\ session'.version >= session.version
    BY VersionGrows
<1>2. \A f \in Goroutines : carrying[f].snap.version \in Nat
    BY DEF Types, HandlersOK, SnapshotType, NoSnapshot
<1>3. \A c \in CLIs : view[c].version \in Nat /\ answered[c].version \in Nat
    BY DEF Types, CLIsOK, ViewType, NoSnapshot
<1>4. \A f \in Goroutines : carrying'[f].snap.version <= session'.version
    BY <1>1, <1>2 DEF CarriedBy, VersionsInv
<1>5. \A c \in CLIs : /\ view'[c].version <= session'.version
                      /\ answered'[c].version <= session'.version
                      /\ (Answered(c)' => answered'[c].version > 0)
    BY <1>1, <1>3 DEF VersionsInv, Answered
<1>6. reader'.at \in {"recorded", "filled"} => carrying'[Reader].to = {}
    BY DEF CarriedBy, VersionsInv, Goroutines
<1> QED
    BY <1>4, <1>5, <1>6 DEF VersionsInv

LEMMA VersionsNext ==
    ASSUME Types, VersionsInv, Next
    PROVE  VersionsInv'
<1>0. /\ session.version \in Nat /\ session'.version \in Nat /\ session'.version >= session.version
      /\ \A f \in Goroutines : carrying[f].snap.version \in Nat
      /\ \A c \in CLIs : view[c].version \in Nat /\ answered[c].version \in Nat
      /\ carrying \in [Goroutines -> [snap : SnapshotType \cup {NoSnapshot}, to : SUBSET CLIs]]
      /\ Reader \in Goroutines /\ Reader \notin CLIs /\ CLIs \subseteq Goroutines
    BY VersionGrows, ActorsAssumption
    DEF Types, HandlersOK, CLIsOK, SnapshotType, ViewType, NoSnapshot, Goroutines
<1>1. ASSUME NEW c \in CLIs,
             HandlesHello(c) \/ Broadcasts(c) \/ Answers(c) \/ TellsOthers(c)
      PROVE  VersionsInv'
  <2>1. /\ CarriedBy(c) /\ view' = view /\ answered' = answered /\ reader' = reader
      BY <1>0, <1>1 DEF HandlesHello, Broadcasts, Answers, TellsOthers, Carry, CarriedBy, cliVars
  <2> QED
      BY <1>0, <2>1, VersionsCarried
<1>2. ASSUME TellsAgain PROVE VersionsInv'
  <2>1. /\ CarriedBy(Reader) /\ view' = view /\ answered' = answered
        /\ reader'.at \notin {"recorded", "filled"}
      BY <1>0, <1>2 DEF TellsAgain, Carry, CarriedBy, cliVars, Idle
  <2> QED
      BY <1>0, <2>1, VersionsCarried
<1>3. ASSUME carrying' = carrying,
             \A c \in CLIs : view'[c] \in {view[c], NoSnapshot}
                             /\ answered'[c] \in {answered[c], Unanswered},
             reader'.at \in {"recorded", "filled"} =>
                 reader.at \in {"recorded", "filled"} \/ Sent(Reader)
      PROVE  VersionsInv'
  <2>1. \A c \in CLIs : /\ view'[c].version <= session'.version
                        /\ answered'[c].version <= session'.version
                        /\ (Answered(c)' => answered'[c].version > 0)
    <3> SUFFICES ASSUME NEW c \in CLIs
                 PROVE  /\ view'[c].version <= session'.version
                        /\ answered'[c].version <= session'.version
                        /\ (Answered(c)' => answered'[c].version > 0)
        OBVIOUS
    <3>1. view[c].version <= session.version /\ answered[c].version <= session.version
        BY DEF VersionsInv
    <3>2. NoSnapshot.version = 0 /\ Unanswered.version = 0
        BY DEF NoSnapshot, Unanswered
    <3>3. view'[c].version <= session'.version
        BY <1>0, <1>3, <3>1, <3>2
    <3>4. answered'[c].version <= session'.version
        BY <1>0, <1>3, <3>1, <3>2
    <3>5. Answered(c)' => answered'[c].version > 0
        BY <1>3 DEF VersionsInv, Answered
    <3> QED
        BY <3>3, <3>4, <3>5
  <2>2. \A f \in Goroutines : carrying'[f].snap.version <= session'.version
      BY <1>0, <1>3 DEF VersionsInv
  <2> QED
      BY <1>3, <2>1, <2>2 DEF VersionsInv, Sent
<1>4. ASSUME NEW c \in CLIs,
             HandlesRefusing(c) \/ HandlesNoted(c) \/ Updates(c) \/ HandlesRequest(c)
             \/ StoresBreakpoints(c) \/ Leaves(c)
      PROVE  VersionsInv'
    BY <1>3, <1>4
    DEF HandlesRefusing, HandlesNoted, Updates, HandlesRequest, SendsRequest, StoresBreakpoints,
        Leaves, cliVars
<1>5. ASSUME (\E a \in asked : ReceivesResponse(a)) \/ (\E event \in Events : ReceivesEvent(event))
      PROVE  VersionsInv'
    BY <1>3, <1>5 DEF ReceivesResponse, ReceivesEvent, Records, cliVars
<1>6. ASSUME Fills PROVE VersionsInv'
    BY <1>3, <1>6 DEF Fills, cliVars
<1>7. ASSUME NEW empty \in BOOLEAN, Stores(empty) PROVE VersionsInv'
  <2>1. session'.version = session.version + 1
      BY <1>7, AppliedType, ChangesType DEF Stores, Types, SessionOK
  <2>2. CarriedBy(Reader) /\ view' = view /\ reader'.at = "told"
      BY <1>0, <1>7 DEF Stores, Carry, CarriedBy, cliVars, Types, AdapterOK
  <2>3. \A c \in CLIs : \/ answered'[c] = answered[c]
                        \/ answered'[c].version = session.version + 1
      BY <1>7 DEF Stores, Types, CLIsOK
  <2>4. \A f \in Goroutines : carrying'[f].snap.version <= session'.version
      BY <1>0, <2>2 DEF CarriedBy, VersionsInv
  <2>5. \A c \in CLIs : /\ view'[c].version <= session'.version
                        /\ answered'[c].version <= session'.version
                        /\ (Answered(c)' => answered'[c].version > 0)
      BY <1>0, <2>1, <2>2, <2>3 DEF VersionsInv, Answered
  <2> QED
      BY <2>2, <2>4, <2>5 DEF VersionsInv
<1>8. ASSUME NEW c \in CLIs, CLIStep(c) PROVE VersionsInv'
  <2>1. /\ carrying' = carrying /\ reader' = reader
        /\ \A d \in CLIs : view'[d] \in {view[d], NoSnapshot}
                           /\ answered'[d] \in {answered[d], Unanswered}
      BY <1>8 DEF CLIStep, Starts, Asks, Returns, Prints, Fails, Ends, cliVars, Types, CLIsOK
  <2> QED
      BY <1>3, <2>1
<1>9. ASSUME NEW g \in Goroutines, NEW c \in CLIs, Sends(g, c) PROVE VersionsInv'
  <2>1. /\ session' = session /\ answered' = answered /\ reader' = reader
        /\ c \in carrying[g].to
      BY <1>9 DEF Sends
  <2>2. \A f \in Goroutines :
            carrying'[f].snap \in {carrying[f].snap, NoSnapshot}
      BY <1>0, <1>9 DEF Sends, Nothing
  <2>3. \A f \in Goroutines : carrying[f].to = {} => carrying'[f] = carrying[f]
      BY <1>0, <1>9, <2>1 DEF Sends
  <2>4. Encoded(carrying[g].snap, g).version = carrying[g].snap.version
      BY DEF Encoded
  <2>5. \A d \in CLIs : view'[d] \in {view[d], Encoded(carrying[g].snap, g)}
      BY <1>9 DEF Sends, Types, CLIsOK
  <2>6. \A f \in Goroutines : carrying'[f].snap.version <= session'.version
      BY <1>0, <2>1, <2>2 DEF VersionsInv, NoSnapshot
  <2>7. \A d \in CLIs : /\ view'[d].version <= session'.version
                        /\ answered'[d].version <= session'.version
                        /\ (Answered(d)' => answered'[d].version > 0)
      BY <1>0, <2>1, <2>4, <2>5 DEF VersionsInv, Answered
  <2>8. reader'.at \in {"recorded", "filled"} => carrying'[Reader].to = {}
      BY <1>0, <2>1, <2>3 DEF VersionsInv
  <2> QED
      BY <2>6, <2>7, <2>8 DEF VersionsInv
<1> QED
    BY <1>1, <1>2, <1>4, <1>5, <1>6, <1>7, <1>8, <1>9 DEF Next, HandlerStep, ReaderStep

-----------------------------------------------------------------------------
(* What becomes of the session *)

LEMMA ShowShows ==
    ASSUME NEW s \in SnapshotType, NEW kind \in CommandKinds, NEW datum \in DatumType
    PROVE  LET t == Show(s, kind, datum)
           IN  /\ t.version = s.version /\ t.evaluate = s.evaluate /\ t.stack = s.stack
               /\ \A k \in CommandKinds : t.data[k] = IF k = kind THEN datum ELSE s.data[k]
BY ShowType DEF SnapshotType, DataType

LEMMA AppliedShows ==
    ASSUME Types, NEW empty \in BOOLEAN
    PROVE  LET what == reader.what
               t == Applied(what, empty)
               datum == [of |-> {what.by}, empty |-> empty]
           IN  /\ t.evaluate = session.evaluate /\ t.stack = session.stack
               /\ what.kind \in {"threads", "stack", "scopes", "eval"} => t.data[what.kind] = datum
               /\ what.kind = "break" =>
                     t.data["break"] = IF empty THEN reader.held ELSE datum
               /\ t.data["vars"] = session.data["vars"]
<1> DEFINE what == reader.what
           t == Applied(what, empty)
           datum == [of |-> {what.by}, empty |-> empty]
           list == IF empty THEN reader.held ELSE datum
<1>1. datum \in DatumType /\ list \in DatumType /\ session \in SnapshotType
    BY DEF Types, AdapterOK, SessionOK, DatumType
<1>2. {"threads", "stack", "scopes", "eval", "break", "vars"} \subseteq CommandKinds
    BY DEF CommandKinds
<1>3. \A k \in CommandKinds, d \in DatumType :
        /\ Show(session, k, d) \in SnapshotType
        /\ Show(session, k, d).evaluate = session.evaluate
        /\ Show(session, k, d).stack = session.stack
        /\ Show(session, k, d).data[k] = d
        /\ k # "vars" => Show(session, k, d).data["vars"] = session.data["vars"]
  <2> SUFFICES ASSUME NEW k \in CommandKinds, NEW d \in DatumType
               PROVE  /\ Show(session, k, d) \in SnapshotType
                      /\ Show(session, k, d).evaluate = session.evaluate
                      /\ Show(session, k, d).stack = session.stack
                      /\ Show(session, k, d).data[k] = d
                      /\ k # "vars" => Show(session, k, d).data["vars"] = session.data["vars"]
      OBVIOUS
  <2>1. Show(session, k, d) \in SnapshotType
      BY <1>1, ShowType
  <2> QED
      BY <1>1, <1>2, <2>1, ShowShows
<1> HIDE DEF datum, list
<1>4. CASE what.kind \in {"threads", "stack"}
  <2>1. t = [Show(session, what.kind, datum) EXCEPT !.thread = @ \/ ~empty]
        \/ t = [Show(session, what.kind, datum) EXCEPT !.frame = @ \/ ~empty]
      BY <1>4 DEF Applied, datum
  <2>2. /\ t.evaluate = Show(session, what.kind, datum).evaluate
        /\ t.stack = Show(session, what.kind, datum).stack
        /\ t.data = Show(session, what.kind, datum).data
      BY <1>1, <1>2, <1>3, <1>4, <2>1 DEF SnapshotType
  <2>3. what.kind \in CommandKinds /\ what.kind \notin {"vars", "break"}
      BY <1>2, <1>4
  <2>4. t.data[what.kind] = datum /\ t.data["vars"] = session.data["vars"]
        /\ t.evaluate = session.evaluate /\ t.stack = session.stack
      BY <1>1, <1>3, <2>2, <2>3
  <2> QED
      BY <2>3, <2>4 DEF datum
<1>5. CASE what.kind \in {"scopes", "eval"}
  <2>1. t = Show(session, what.kind, datum)
      BY <1>5 DEF Applied, datum
  <2>2. what.kind \in CommandKinds /\ what.kind \notin {"vars", "break"}
      BY <1>2, <1>5
  <2>3. t.data[what.kind] = datum /\ t.data["vars"] = session.data["vars"]
        /\ t.evaluate = session.evaluate /\ t.stack = session.stack
      BY <1>1, <1>3, <2>1, <2>2
  <2> QED
      BY <2>2, <2>3 DEF datum
<1>6. CASE what.kind = "break"
  <2>1. t = Show(session, "break", list)
      BY <1>6 DEF Applied, datum, list
  <2> QED
      BY <1>1, <1>2, <1>3, <1>6, <2>1 DEF datum, list
<1>7. CASE what.kind \notin {"threads", "stack", "scopes", "eval", "break"}
  <2>1. /\ t.evaluate = session.evaluate /\ t.stack = session.stack
        /\ t.data = session.data
      BY <1>1, <1>7 DEF Applied, SnapshotType
  <2> QED
      BY <1>7, <2>1
<1> QED
    BY <1>4, <1>5, <1>6, <1>7

\* The parts that a request of another command or a notice leaves alone.
LEMMA SessionMoves ==
    ASSUME Types, Next
    PROVE  /\ session.data["vars"].of \subseteq session'.data["vars"].of
           /\ \/ session'.evaluate = session.evaluate
              \/ \E d \in CLIs : HandlesNoted(d) /\ cli[d].kind = "eval" /\ session'.evaluate = d
<1>0. session \in SnapshotType /\ "vars" \in CommandKinds /\ "break" \in CommandKinds
      /\ CLIs \subseteq Goroutines
    BY DEF Types, SessionOK, CommandKinds, Goroutines
<1>1. ASSUME NEW c, Changes(session, c)
      PROVE  session'.data = session.data /\ session'.evaluate = session.evaluate
  <2>1. session' = [session EXCEPT !.version = session.version + 1]
      BY <1>0, <1>1, ChangesType
  <2> QED
      BY <1>0, <2>1 DEF SnapshotType
<1>2. ASSUME NEW c \in CLIs, HandlesNoted(c)
      PROVE  /\ session'.data = session.data
             /\ session'.evaluate = IF cli[c].kind = "eval" THEN c ELSE session.evaluate
    BY <1>0, <1>2 DEF HandlesNoted, Becomes, SnapshotType
<1>3. ASSUME NEW c \in CLIs, StoresBreakpoints(c)
      PROVE  /\ session'.data["vars"] = session.data["vars"]
             /\ session'.evaluate = session.evaluate
  <2> DEFINE datum == [of |-> {c}, empty |-> FALSE]
             t == Show(session, "break", datum)
  <2>1. datum \in DatumType
      BY <1>0 DEF DatumType
  <2> HIDE DEF datum
  <2>2. t \in SnapshotType /\ t.evaluate = session.evaluate
        /\ t.data["vars"] = session.data["vars"]
      BY <1>0, <2>1, ShowType, ShowShows
  <2>3. session' = [t EXCEPT !.version = session.version + 1]
      BY <1>0, <1>3, <2>2, ChangesType DEF StoresBreakpoints, datum
  <2> QED
      BY <2>2, <2>3 DEF SnapshotType
<1>4. ASSUME Fills
      PROVE  /\ session.data["vars"].of \subseteq session'.data["vars"].of
             /\ session'.evaluate = session.evaluate
  <2> DEFINE datum == [of |-> session.data["vars"].of \cup {reader.what.by}, empty |-> FALSE]
             t == Show(session, "vars", datum)
  <2>1. datum \in DatumType
      BY <1>0 DEF DatumType, SnapshotType, DataType, Types, AdapterOK
  <2>2. session.data["vars"].of \subseteq datum.of
      OBVIOUS
  <2>3. session' \in {session, t, [session EXCEPT !.stack = TRUE]}
      BY <1>4 DEF Fills, Becomes
  <2> HIDE DEF datum
  <2>4. t.evaluate = session.evaluate /\ t.data["vars"] = datum
      BY <1>0, <2>1, ShowShows
  <2>5. [session EXCEPT !.stack = TRUE].evaluate = session.evaluate
        /\ [session EXCEPT !.stack = TRUE].data = session.data
      BY <1>0 DEF SnapshotType
  <2> QED
      BY <2>2, <2>3, <2>4, <2>5
<1>5. ASSUME NEW empty \in BOOLEAN, Stores(empty)
      PROVE  /\ session'.data["vars"] = session.data["vars"]
             /\ session'.evaluate = session.evaluate
  <2> DEFINE t == Applied(reader.what, empty)
  <2>1. t \in SnapshotType /\ t.evaluate = session.evaluate
        /\ t.data["vars"] = session.data["vars"]
      BY AppliedType, AppliedShows
  <2>2. session' = [t EXCEPT !.version = session.version + 1]
      BY <1>0, <1>5, <2>1, ChangesType DEF Stores
  <2> QED
      BY <2>1, <2>2 DEF SnapshotType
<1>6. ASSUME NEW c \in CLIs, HandlerStep(c), session' # session, ~HandlesNoted(c),
             ~StoresBreakpoints(c)
      PROVE  Changes(session, Reader) \/ Changes(session, c)
    BY <1>6 DEF HandlerStep, HandlesHello, HandlesRefusing, HandlesRequest, Updates, Broadcasts,
                Answers, Leaves, TellsOthers
<1>7. ASSUME NEW c \in CLIs, HandlerStep(c)
      PROVE  /\ session.data["vars"].of \subseteq session'.data["vars"].of
             /\ \/ session'.evaluate = session.evaluate
                \/ HandlesNoted(c) /\ cli[c].kind = "eval" /\ session'.evaluate = c
    BY <1>1, <1>2, <1>3, <1>6, <1>7
<1>8. ASSUME ReaderStep
      PROVE  /\ session.data["vars"].of \subseteq session'.data["vars"].of
             /\ session'.evaluate = session.evaluate
  <2>1. ASSUME NEW what, Records(what)
        PROVE  /\ session'.data = session.data
               /\ session'.evaluate = session.evaluate
      BY <1>1, <2>1 DEF Records
  <2> QED
      BY <1>4, <1>5, <1>8, <2>1 DEF ReaderStep, ReceivesResponse, ReceivesEvent, TellsAgain
<1>9. ASSUME (\E c \in CLIs : CLIStep(c)) \/ \E g \in Goroutines, c \in CLIs : Sends(g, c)
      PROVE  session' = session
    BY <1>9 DEF CLIStep, Starts, Asks, Returns, Prints, Fails, Ends, Sends
<1> QED
    BY <1>7, <1>8, <1>9 DEF Next

-----------------------------------------------------------------------------
(* Records of evaluations, and the variables *)

LEMMA RecordInit ==
    ASSUME Init, NEW c \in CLIs
    PROVE  RecordInv(c)
BY ActorsAssumption DEF Init, RecordInv, Applying, Answered, Idle

LEMMA RecordNext ==
    ASSUME Types, NEW c \in CLIs, RequestInv(c), RecordInv(c), Next
    PROVE  RecordInv(c)'
<1>0. /\ pc \in [CLIs -> Places] /\ cli \in [CLIs -> CLIType] /\ session \in SnapshotType
      /\ c # Reader /\ c \in Goroutines /\ "vars" \in CommandKinds
      /\ answered \in [CLIs -> [version : Nat, empty : BOOLEAN]]
      /\ reader \in [at : {"idle", "recorded", "filled", "told"},
                     what : [by : Goroutines, kind : CommandKinds \cup EventKinds \cup {"none"}],
                     held : DatumType]
    BY ActorsAssumption DEF Types, HandlersOK, CLIsOK, SessionOK, AdapterOK, Goroutines, CommandKinds
<1>1. /\ session.data["vars"].of \subseteq session'.data["vars"].of
      /\ \/ session'.evaluate = session.evaluate
         \/ \E d \in CLIs : HandlesNoted(d) /\ cli[d].kind = "eval" /\ session'.evaluate = d
    BY SessionMoves
<1>2. cli'[c].kind = cli[c].kind
  <2>1. cli[c] \in CLIType
      BY <1>0
  <2>2. CASE cli'[c] = cli[c]
      BY <2>2
  <2>3. ASSUME NEW f, cli'[c] = [cli[c] EXCEPT !.pc = f] PROVE cli'[c].kind = cli[c].kind
      BY <2>1, <2>3 DEF CLIType
  <2>4. ASSUME NEW d \in CLIs, NEW result, NEW of, Ends(d, result, of)
        PROVE  cli'[c].kind = cli[c].kind
      BY <1>0, <2>1, <2>4 DEF Ends, CLIType
  <2>5. ASSUME NEW d \in CLIs, CLIStep(d) PROVE cli'[c].kind = cli[c].kind
    <3>1. CASE Starts(d)
        BY <3>1 DEF Starts, cliVars
    <3>2. CASE Asks(d)
        BY <1>0, <2>1, <3>2 DEF Asks, CLIType
    <3>3. CASE Returns(d)
      <4>1. \/ \E result, of : Ends(d, result, of)
            \/ cli' = [cli EXCEPT ![d].pc = "printing"]
          BY <3>3 DEF Returns
      <4>2. CASE cli' = [cli EXCEPT ![d].pc = "printing"]
          BY <1>0, <2>1, <4>2 DEF CLIType
      <4> QED
          BY <2>4, <4>1, <4>2
    <3>4. CASE Prints(d) \/ Fails(d)
        BY <2>4, <3>4 DEF Prints, Fails
    <3> QED
        BY <2>5, <3>1, <3>2, <3>3, <3>4 DEF CLIStep
  <2>6. ASSUME NEW d \in CLIs, HandlerStep(d) PROVE cli'[c].kind = cli[c].kind
    <3>1. CASE HandlesRefusing(d)
        BY <1>0, <2>1, <3>1 DEF HandlesRefusing, CLIType
    <3>2. CASE cli' = cli
        BY <3>2
    <3> QED
        BY <2>6, <3>1, <3>2
        DEF HandlerStep, HandlesHello, HandlesRequest, HandlesNoted, Updates, SendsRequest,
            StoresBreakpoints, Broadcasts, Answers, Leaves, TellsOthers, cliVars
  <2>7. ASSUME ReaderStep PROVE cli' = cli
      BY <2>7 DEF ReaderStep, ReceivesResponse, ReceivesEvent, Records, Fills, Stores, TellsAgain,
                  cliVars
  <2>8. ASSUME NEW g \in Goroutines, NEW d \in CLIs, Sends(g, d) PROVE cli' = cli
      BY <2>8 DEF Sends
  <2> QED
      BY <2>5, <2>6, <2>7, <2>8 DEF Next
<1>3. pc[c] \notin {"none", "hello", "decoding"} => pc'[c] \notin {"none", "hello", "decoding"}
  <2>1. ASSUME NEW d \in CLIs, HandlerStep(d)
        PROVE  pc[c] \notin {"none", "hello", "decoding"} => pc'[c] \notin {"none", "hello", "decoding"}
      BY <1>0, <2>1
      DEF HandlerStep, HandlesHello, HandlesRefusing, HandlesRequest, HandlesNoted, Updates,
          SendsRequest, StoresBreakpoints, Broadcasts, Answers, Leaves, TellsOthers, Goto, Takes
  <2>2. ASSUME NEW d \in CLIs, CLIStep(d)
        PROVE  pc[c] \notin {"none", "hello", "decoding"} => pc'[c] = pc[c]
      BY <1>0, <2>2 DEF CLIStep, Starts, Asks, Returns, Prints, Fails, Ends, Goto
  <2>3. CASE pc' = pc
      BY <2>3
  <2> QED
      BY <2>1, <2>2, <2>3
      DEF Next, ReaderStep, ReceivesResponse, ReceivesEvent, Records, Fills, Stores, TellsAgain, Sends
<1>4. completed' = completed \/ completed' = completed \cup {session.evaluate}
    BY DEF Next, HandlerStep, CLIStep, ReaderStep, Starts, Asks, Returns, Prints, Fails, Ends,
        HandlesHello, HandlesRefusing, HandlesRequest, HandlesNoted, Updates, SendsRequest,
        StoresBreakpoints, Broadcasts, Answers, Leaves, TellsOthers, ReceivesResponse,
        ReceivesEvent, Records, Fills, Stores, TellsAgain, Sends
<1>5. session'.evaluate = c \/ c \in completed' =>
        cli'[c].kind = "eval" /\ pc'[c] \notin {"none", "hello", "decoding"}
  <2>1. CASE session.evaluate = c \/ c \in completed
      BY <1>2, <1>3, <2>1 DEF RecordInv
  <2>2. CASE session'.evaluate = c /\ session.evaluate # c
    <3>1. HandlesNoted(c) /\ cli[c].kind = "eval"
        BY <1>1, <2>2
    <3> QED
        BY <1>0, <1>2, <3>1 DEF HandlesNoted, Goto
  <2> QED
      BY <1>4, <2>1, <2>2
<1>6. ASSUME cli[c].kind = "vars", (Applying(c)' /\ reader'.at = "filled") \/ Answered(c)'
      PROVE  c \in session'.data["vars"].of
  <2>1. CASE (Applying(c) /\ reader.at = "filled") \/ Answered(c)
      BY <1>1, <1>6, <2>1 DEF RecordInv
  <2>2. CASE Fills /\ reader.what.by = c /\ Applying(c)
    <3>1. reader.what.kind = "vars"
        BY <1>6, <2>2 DEF RequestInv
    <3> DEFINE datum == [of |-> session.data["vars"].of \cup {c}, empty |-> FALSE]
    <3>2. session' = Show(session, "vars", datum)
        BY <2>2, <3>1 DEF Fills, Becomes
    <3>3. datum \in DatumType
        BY <1>0 DEF SnapshotType, DataType, DatumType
    <3>4. c \in datum.of
        OBVIOUS
    <3> HIDE DEF datum
    <3> QED
        BY <1>0, <3>2, <3>3, <3>4, ShowShows
  <2>3. CASE ~((Applying(c) /\ reader.at = "filled") \/ Answered(c))
             /\ ~(Fills /\ reader.what.by = c /\ Applying(c))
    <3>1. ASSUME reader' = reader, answered'[c] \in {answered[c], Unanswered} PROVE FALSE
        BY <1>6, <2>3, <3>1 DEF Applying, Answered
    <3>2. ASSUME NEW d \in CLIs, HandlerStep(d) PROVE FALSE
        BY <3>1, <3>2
        DEF HandlerStep, HandlesHello, HandlesRefusing, HandlesRequest, HandlesNoted, Updates,
            SendsRequest, StoresBreakpoints, Broadcasts, Answers, Leaves, TellsOthers
    <3>3. ASSUME NEW d \in CLIs, CLIStep(d) PROVE FALSE
        BY <1>0, <3>1, <3>3 DEF CLIStep, Starts, Asks, Returns, Prints, Fails, Ends
    <3>4. ASSUME NEW g \in Goroutines, NEW d \in CLIs, Sends(g, d) PROVE FALSE
        BY <3>1, <3>4 DEF Sends
    <3>5. ASSUME answered' = answered, reader'.at # "filled" PROVE FALSE
        BY <1>6, <2>3, <3>5 DEF Answered
    <3>6. ASSUME NEW empty \in BOOLEAN, Stores(empty) PROVE FALSE
      <4>1. reader.at = "filled" /\ reader'.at = "told"
          BY <1>0, <3>6 DEF Stores
      <4>2. reader.what.by # c
          BY <2>3, <4>1 DEF Applying
      <4>3. answered'[c] = answered[c]
          BY <1>0, <3>6, <4>2 DEF Stores
      <4> QED
          BY <1>6, <2>3, <4>1, <4>3 DEF Answered
    <3>7. ASSUME Fills PROVE FALSE
      <4>1. reader.at = "recorded" /\ reader'.what = reader.what /\ answered' = answered
          BY <1>0, <3>7 DEF Fills
      <4> QED
          BY <1>6, <2>3, <3>7, <4>1 DEF Applying, Answered
    <3>8. ASSUME ReaderStep PROVE FALSE
        BY <3>5, <3>6, <3>7, <3>8
        DEF ReaderStep, ReceivesResponse, ReceivesEvent, Records, TellsAgain, Idle
    <3> QED
        BY <3>2, <3>3, <3>4, <3>8 DEF Next
  <2> QED
      BY <2>1, <2>2, <2>3
<1> QED
    BY <1>2, <1>5, <1>6 DEF RecordInv

-----------------------------------------------------------------------------
(* What a command is still following *)

\* The request of c was noted, or sent.
Sought(c) == pc[c] = "updating" \/ Submitted(c)

\* The steps that the request of c takes.
Course(c) ==
    \/ HandlesNoted(c) \/ Updates(c) \/ StoresBreakpoints(c)
    \/ \E a \in asked : a.by = c /\ ReceivesResponse(a)
    \/ reader.what.by = c /\ Fills
    \/ reader.what.by = c /\ \E empty \in BOOLEAN : Stores(empty)

\* The other steps leave alone what the invariants say of it ...
Unmoved(c) ==
    /\ session' = session /\ completed' = completed
    /\ cli'[c].kind = cli[c].kind /\ cli'[c].baseline = cli[c].baseline
    /\ answered'[c] = answered[c]
    /\ Moved(c)' <=> Moved(c)
    /\ Applying(c)' <=> Applying(c)
    /\ Applying(c) => reader'.at = reader.at
    /\ cli[c].kind \in Noted => (Sought(c)' <=> Sought(c))

\* ... but can take, or convey, a snapshot.
Conveys(c) ==
    \/ carrying' = carrying /\ view'[c] = view[c]
    \/ /\ view'[c] = view[c]
       /\ \E g \in Goroutines :
            /\ \A f \in Goroutines \ {g} : carrying'[f] = carrying[f]
            /\ carrying'[g].snap = session
            /\ g = c => Submitted(c) /\ pc[c] # "storing"
            /\ g = Reader => reader.at = "told"
    \/ \E g \in Goroutines, d \in CLIs : Sends(g, d)

\* Any other change of the session disturbs the command.
LEMMA Traced ==
    ASSUME Types, NEW c \in CLIs, RequestInv(c), Next, Following(c)'
    PROVE  Asks(c) \/ (Following(c) /\ (Course(c) \/ (Unmoved(c) /\ Conveys(c))))
<1> DEFINE Goal == Asks(c) \/ (Following(c) /\ (Course(c) \/ (Unmoved(c) /\ Conveys(c))))
<1>0. /\ pc \in [CLIs -> Places] /\ cli \in [CLIs -> CLIType] /\ cli[c] \in CLIType
      /\ disturbed \in [CLIs -> BOOLEAN]
      /\ view \in [CLIs -> ViewType \cup {NoSnapshot}]
      /\ answered \in [CLIs -> [version : Nat, empty : BOOLEAN]]
      /\ carrying \in [Goroutines -> [snap : SnapshotType \cup {NoSnapshot}, to : SUBSET CLIs]]
      /\ c # Reader /\ CLIs \subseteq Goroutines /\ Reader \in Goroutines /\ Reader \notin CLIs
    BY ActorsAssumption DEF Types, HandlersOK, CLIsOK, Goroutines
<1>1. cli'[c].pc \in {"waiting", "printing"} /\ ~disturbed'[c]
    BY DEF Following
<1>2. ASSUME NEW s, NEW by, Becomes(s, by) PROVE by = c /\ disturbed'[c] = disturbed[c]
  <2>1. disturbed'[c] = (disturbed[c] \/ c # by)
      BY <1>2 DEF Becomes
  <2>2. disturbed[c] \in BOOLEAN
      BY <1>0
  <2>3. ~(c # by)
      BY <1>1, <2>1
  <2> QED
      BY <2>1, <2>2, <2>3
<1>3. ASSUME NEW s, NEW by, Changes(s, by) PROVE by = c /\ disturbed'[c] = disturbed[c]
    BY <1>2, <1>3 DEF Changes
<1>4. ASSUME cli'[c] = cli[c], disturbed'[c] = disturbed[c] PROVE Following(c)
    BY <1>1, <1>4 DEF Following
<1>5. ASSUME cli'[c] = cli[c], pc'[c] = pc[c], answered'[c] = answered[c],
             Applying(c)' <=> Applying(c), Applying(c) => reader'.at = reader.at,
             session' = session, completed' = completed
      PROVE  Unmoved(c)
    BY <1>5 DEF Unmoved, Moved, Submitted, Sought
<1>6. ASSUME NEW d \in CLIs, HandlerStep(d), d # c PROVE Goal
  <2>1. HandlesRefusing(d) \/ HandlesRequest(d) \/ Broadcasts(d) \/ Answers(d) \/ TellsOthers(d)
      BY <1>0, <1>2, <1>3, <1>6
      DEF HandlerStep, HandlesHello, HandlesNoted, Updates, StoresBreakpoints, Leaves
  <2>2. /\ cli'[c] = cli[c] /\ pc'[c] = pc[c] /\ answered' = answered /\ reader' = reader
        /\ session' = session /\ completed' = completed /\ disturbed' = disturbed
        /\ view' = view
      BY <1>0, <1>6, <2>1
      DEF HandlesRefusing, HandlesRequest, SendsRequest, Broadcasts, Answers, TellsOthers, Goto, cliVars
  <2>3. Applying(c)' <=> Applying(c)
      BY <2>2 DEF Applying
  <2>4. Following(c) /\ Unmoved(c)
      BY <1>4, <1>5, <2>2, <2>3
  <2>5. CASE HandlesRefusing(d) \/ HandlesRequest(d)
    <3>1. carrying' = carrying
        BY <2>5 DEF HandlesRefusing, HandlesRequest, SendsRequest
    <3> QED
        BY <2>2, <2>4, <3>1 DEF Conveys
  <2>6. CASE Broadcasts(d) \/ Answers(d) \/ TellsOthers(d)
    <3>1. /\ \A f \in Goroutines \ {d} : carrying'[f] = carrying[f]
          /\ carrying'[d].snap = session
        BY <1>0, <2>6 DEF Broadcasts, Answers, TellsOthers, Carry
    <3> QED
        BY <1>0, <1>6, <2>2, <2>4, <3>1 DEF Conveys
  <2> QED
      BY <2>1, <2>5, <2>6
<1>7. ASSUME HandlerStep(c) PROVE Goal
  <2>1. CASE HandlesHello(c) \/ Leaves(c)
      BY <1>0, <1>3, <2>1 DEF HandlesHello, Leaves
  <2>2. CASE HandlesNoted(c)
      BY <1>2, <1>4, <2>2 DEF HandlesNoted, Course, cliVars
  <2>3. CASE Updates(c)
      BY <1>3, <1>4, <2>3 DEF Updates, SendsRequest, Course, cliVars
  <2>4. CASE StoresBreakpoints(c)
      BY <1>3, <1>4, <2>4 DEF StoresBreakpoints, Course, cliVars
  <2>5. CASE HandlesRefusing(c) \/ HandlesRequest(c)
    <3>1. /\ answered' = answered /\ reader' = reader /\ carrying' = carrying
          /\ session' = session /\ completed' = completed /\ disturbed' = disturbed
          /\ view' = view
        BY <2>5 DEF HandlesRefusing, HandlesRequest, SendsRequest, cliVars
    <3>2. Applying(c)' <=> Applying(c)
        BY <3>1 DEF Applying
    <3>3. CASE HandlesRefusing(c)
      <4>1. /\ cli'[c] = [cli[c] EXCEPT !.error = TRUE]
            /\ pc[c] = "decoding" /\ pc'[c] = "served"
          BY <1>0, <3>3 DEF HandlesRefusing, Takes, Goto
      <4>2. cli'[c].pc = cli[c].pc /\ cli'[c].kind = cli[c].kind
            /\ cli'[c].baseline = cli[c].baseline /\ cli'[c].error
          BY <1>0, <4>1 DEF CLIType
      <4>3. ~Submitted(c) /\ ~Submitted(c)' /\ ~Sought(c) /\ ~Sought(c)'
          BY <4>1, <4>2 DEF Submitted, Sought
      <4>4. Following(c)
          BY <1>1, <3>1, <4>2 DEF Following
      <4> QED
          BY <3>1, <3>2, <4>2, <4>3, <4>4 DEF Unmoved, Conveys, Moved
    <3>4. CASE HandlesRequest(c)
      <4>1. /\ cli' = cli /\ pc[c] = "decoding" /\ cli[c].kind \notin Noted
            /\ cli[c].kind = "break" => pc'[c] = "storing"
          BY <1>0, <3>4 DEF HandlesRequest, SendsRequest, Takes, Goto, cliVars
      <4>2. ~Moved(c) /\ ~Moved(c)'
          BY <4>1 DEF Moved, Submitted
      <4>3. Following(c)
          BY <1>4, <3>1, <4>1
      <4> QED
          BY <3>1, <3>2, <4>1, <4>2, <4>3 DEF Unmoved, Conveys
    <3> QED
        BY <2>5, <3>3, <3>4
  <2>6. CASE Broadcasts(c) \/ Answers(c)
    <3>1. /\ answered' = answered /\ reader' = reader /\ cli' = cli
          /\ session' = session /\ completed' = completed /\ disturbed' = disturbed
          /\ view' = view
          /\ pc[c] \in {"broadcasting", "answering"} /\ pc'[c] \in {"answering", "served"}
          /\ \A f \in Goroutines \ {c} : carrying'[f] = carrying[f]
          /\ carrying'[c].snap = session
        BY <1>0, <2>6 DEF Broadcasts, Answers, Carry, Goto, cliVars
    <3>2. Applying(c)' <=> Applying(c)
        BY <3>1 DEF Applying
    <3>3. ~cli[c].error
        BY <3>1 DEF RequestInv
    <3>4. Submitted(c) /\ Submitted(c)'
        BY <3>1, <3>3 DEF Submitted
    <3>5. Unmoved(c)
        BY <3>1, <3>2, <3>4 DEF Unmoved, Moved, Sought
    <3>6. Following(c)
        BY <1>4, <3>1
    <3> QED
        BY <1>0, <3>1, <3>4, <3>5, <3>6 DEF Conveys
  <2>7. CASE TellsOthers(c)
      BY <1>1, <2>7 DEF TellsOthers, RequestInv, cliVars
  <2> QED
      BY <1>7, <2>1, <2>2, <2>3, <2>4, <2>5, <2>6, <2>7 DEF HandlerStep
<1>8. ASSUME ReaderStep PROVE Goal
  <2>1. cli' = cli /\ pc' = pc /\ view' = view
      BY <1>8 DEF ReaderStep, ReceivesResponse, ReceivesEvent, Records, Fills, Stores, TellsAgain,
                  cliVars
  <2>2. ASSUME NEW what, Records(what) PROVE what.by = c /\ Following(c)
      BY <1>3, <1>4, <2>1, <2>2 DEF Records
  <2>3. ASSUME NEW a \in asked, ReceivesResponse(a) PROVE Goal
      BY <2>2, <2>3 DEF ReceivesResponse, Course
  <2>4. ASSUME NEW event \in Events, ReceivesEvent(event) PROVE Goal
      BY <1>0, <2>2, <2>4 DEF ReceivesEvent
  <2>5. ASSUME Fills PROVE Goal
    <3>1. reader.what.by = c /\ Following(c)
        BY <1>2, <1>4, <2>1, <2>5 DEF Fills
    <3> QED
        BY <2>5, <3>1 DEF Course
  <2>6. ASSUME NEW empty \in BOOLEAN, Stores(empty) PROVE Goal
    <3>1. reader.what.by = c /\ Following(c)
        BY <1>3, <1>4, <2>1, <2>6 DEF Stores
    <3> QED
        BY <2>6, <3>1 DEF Course
  <2>7. ASSUME TellsAgain PROVE Goal
    <3>1. /\ answered' = answered /\ session' = session /\ completed' = completed
          /\ disturbed' = disturbed
          /\ reader.at = "told" /\ reader'.at = "idle"
          /\ \A f \in Goroutines \ {Reader} : carrying'[f] = carrying[f]
          /\ carrying'[Reader].snap = session
        BY <1>0, <2>7 DEF TellsAgain, Carry, Idle
    <3>2. ~Applying(c) /\ ~Applying(c)'
        BY <3>1 DEF Applying
    <3>3. Following(c) /\ Unmoved(c)
        BY <1>4, <1>5, <2>1, <3>1, <3>2
    <3> QED
        BY <1>0, <2>1, <3>1, <3>3 DEF Conveys
  <2> QED
      BY <1>8, <2>3, <2>4, <2>5, <2>6, <2>7 DEF ReaderStep
<1>9. ASSUME NEW d \in CLIs, CLIStep(d) PROVE Goal
  <2>1. session' = session /\ completed' = completed /\ reader' = reader /\ carrying' = carrying
      BY <1>9 DEF CLIStep, Starts, Asks, Returns, Prints, Fails, Ends
  <2>2. Applying(c)' <=> Applying(c)
      BY <2>1 DEF Applying
  <2>3. CASE d # c
    <3>1. /\ cli'[c] = cli[c] /\ pc'[c] = pc[c] /\ answered'[c] = answered[c]
          /\ view'[c] = view[c] /\ disturbed'[c] = disturbed[c]
        BY <1>0, <1>9, <2>3 DEF CLIStep, Starts, Asks, Returns, Prints, Fails, Ends, Goto, cliVars
    <3> QED
        BY <1>4, <1>5, <2>1, <2>2, <3>1 DEF Conveys
  <2>4. CASE Starts(c)
    <3>1. /\ cli' = cli /\ pc[c] = "none" /\ pc'[c] = "hello" /\ answered' = answered
          /\ view' = view /\ disturbed' = disturbed
        BY <1>0, <2>4 DEF Starts, Goto, cliVars
    <3>2. ~Submitted(c) /\ ~Submitted(c)' /\ ~Sought(c) /\ ~Sought(c)'
        BY <3>1 DEF Submitted, Sought
    <3> QED
        BY <1>4, <2>1, <2>2, <3>1, <3>2 DEF Conveys, Unmoved, Moved
  <2>5. CASE Asks(c)
      BY <2>5
  <2>6. ASSUME NEW result, NEW of, Ends(c, result, of) PROVE FALSE
      BY <1>0, <1>1, <2>6 DEF Ends
  <2>7. CASE Returns(c)
    <3>1. /\ cli[c].pc = "waiting" /\ cli' = [cli EXCEPT ![c].pc = "printing"]
          /\ pc' = pc /\ answered' = answered /\ view' = view /\ disturbed' = disturbed
        BY <2>6, <2>7 DEF Returns
    <3>2. cli'[c].kind = cli[c].kind /\ cli'[c].baseline = cli[c].baseline
          /\ cli'[c].error = cli[c].error
        BY <1>0, <3>1 DEF CLIType
    <3>3. (Submitted(c)' <=> Submitted(c)) /\ (Sought(c)' <=> Sought(c))
        BY <3>1, <3>2 DEF Submitted, Sought
    <3>4. Following(c)
        BY <1>1, <3>1 DEF Following
    <3> QED
        BY <2>1, <2>2, <3>1, <3>2, <3>3, <3>4 DEF Conveys, Unmoved, Moved
  <2>8. CASE Prints(c) \/ Fails(c)
      BY <2>6, <2>8 DEF Prints, Fails
  <2> QED
      BY <1>9, <2>3, <2>4, <2>5, <2>7, <2>8 DEF CLIStep
<1>10. ASSUME NEW g \in Goroutines, NEW d \in CLIs, Sends(g, d) PROVE Goal
  <2>1. /\ cli' = cli /\ pc' = pc /\ answered' = answered /\ session' = session
        /\ completed' = completed /\ disturbed' = disturbed /\ reader' = reader
      BY <1>10 DEF Sends
  <2>2. Applying(c)' <=> Applying(c)
      BY <2>1 DEF Applying
  <2> QED
      BY <1>4, <1>5, <1>10, <2>1, <2>2 DEF Conveys
<1> QED
    BY <1>6, <1>7, <1>8, <1>9, <1>10 DEF Next

\* When a command asks, nothing of its request exists.
LEMMA AsksFirst ==
    ASSUME Types, VersionsInv, NEW c \in CLIs, RequestInv(c), RecordInv(c), Asks(c),
           Following(c)'
    PROVE  /\ session' = session /\ carrying' = carrying /\ view' = view
           /\ cli'[c].baseline = session.version /\ cli'[c].kind = cli[c].kind
           /\ pc' = pc
           /\ ~Submitted(c)' /\ ~Sought(c)' /\ ~Moved(c)' /\ ~Applying(c)' /\ ~Answered(c)'
           /\ c \notin completed'
<1>0. cli \in [CLIs -> CLIType] /\ cli[c] \in CLIType /\ disturbed \in [CLIs -> BOOLEAN]
    BY DEF Types, CLIsOK
<1>1. /\ session' = session /\ carrying' = carrying /\ view' = view /\ pc' = pc
      /\ answered' = answered /\ reader' = reader /\ completed' = completed
    BY DEF Asks
<1>2. pc[c] \in {"none", "hello", "decoding"}
    BY DEF Asks, RequestInv
<1>3. cli'[c].baseline = session.version /\ cli'[c].kind = cli[c].kind
  <2>1. cli'[c].baseline = view[c].version /\ cli'[c].kind = cli[c].kind
      BY <1>0 DEF Asks, CLIType
  <2>2. disturbed'[c] = (session.version # view[c].version)
      BY <1>0 DEF Asks
  <2>3. ~disturbed'[c]
      BY DEF Following
  <2> QED
      BY <2>1, <2>2, <2>3
<1>4. ~Submitted(c) /\ ~Submitted(c)' /\ ~Sought(c)'
    BY <1>1, <1>2 DEF Submitted, Sought
<1>5. ~Applying(c)' /\ ~Answered(c)' /\ ~Moved(c)'
    BY <1>1, <1>4 DEF RequestInv, Applying, Answered, Moved
<1>6. c \notin completed'
    BY <1>1, <1>2 DEF RecordInv
<1> QED
    BY <1>1, <1>3, <1>4, <1>5, <1>6

\* The steps of its request but the last change only the session and where it stands.
LEMMA CourseKeeps ==
    ASSUME NEW c \in CLIs, Course(c),
           ~(reader.what.by = c /\ \E empty \in BOOLEAN : Stores(empty))
    PROVE  /\ cli' = cli /\ view' = view /\ ended' = ended /\ carrying' = carrying
           /\ answered' = answered
BY DEF Course, HandlesNoted, Updates, SendsRequest, StoresBreakpoints, ReceivesResponse, Records,
       Fills, cliVars

\* The answer is stored, shown and broadcast in one step.
LEMMA StoresAnswer ==
    ASSUME Types, VersionsInv, NEW c \in CLIs, RequestInv(c), Following(c), SessionInv(c),
           NEW empty \in BOOLEAN, Stores(empty), reader.what.by = c
    PROVE  /\ ~Answered(c) /\ Answered(c)' /\ answered'[c].empty = empty
           /\ answered'[c].version = session.version + 1
           /\ session' \in SnapshotType /\ session'.version = session.version + 1
           /\ session'.evaluate = session.evaluate
           /\ Holds(c, session)'
           /\ \A f \in Goroutines \ {Reader} : carrying'[f] = carrying[f]
           /\ carrying'[Reader].snap = session'
           /\ cli' = cli /\ view' = view /\ ended' = ended /\ pc' = pc /\ completed' = completed
           /\ Applying(c) /\ reader.at = "filled" /\ ~Applying(c)'
<1> DEFINE t == Applied(reader.what, empty)
<1>0. /\ session \in SnapshotType /\ cli[c] \in CLIType /\ c # Reader /\ c \in Goroutines
      /\ answered \in [CLIs -> [version : Nat, empty : BOOLEAN]]
      /\ carrying \in [Goroutines -> [snap : SnapshotType \cup {NoSnapshot}, to : SUBSET CLIs]]
      /\ reader \in [at : {"idle", "recorded", "filled", "told"},
                     what : [by : Goroutines, kind : CommandKinds \cup EventKinds \cup {"none"}],
                     held : DatumType]
      /\ Reader \in Goroutines
    BY ActorsAssumption DEF Types, SessionOK, HandlersOK, CLIsOK, AdapterOK, Goroutines
<1>1. /\ reader.at = "filled" /\ reader'.at = "told"
      /\ cli' = cli /\ view' = view /\ ended' = ended /\ pc' = pc /\ completed' = completed
    BY <1>0 DEF Stores, cliVars
<1>2. Applying(c) /\ ~Applying(c)'
    BY <1>1 DEF Applying
<1>3. ~Answered(c) /\ reader.what.kind = cli[c].kind
    BY <1>2 DEF RequestInv
<1>4. answered'[c] = [version |-> session.version + 1, empty |-> empty]
    BY <1>0 DEF Stores, Following
<1>5. answered'[c].version = session.version + 1 /\ answered'[c].empty = empty
    BY <1>4
<1>6. Answered(c)'
  <2>1. session.version + 1 # 0
      BY <1>0 DEF SnapshotType
  <2>2. Unanswered.version = 0
      BY DEF Unanswered
  <2> QED
      BY <1>5, <2>1, <2>2 DEF Answered
<1>7. t \in SnapshotType /\ session' = [t EXCEPT !.version = session.version + 1]
      /\ session' \in SnapshotType /\ session'.version = session.version + 1
  <2>1. t \in SnapshotType
      BY AppliedType
  <2>2. Changes(t, reader.what.by)
      BY DEF Stores
  <2> QED
      BY <1>0, <2>1, <2>2, ChangesType
<1>8. session'.evaluate = t.evaluate /\ session'.stack = t.stack /\ session'.data = t.data
    BY <1>7 DEF SnapshotType
<1>9. /\ t.evaluate = session.evaluate /\ t.stack = session.stack
      /\ cli[c].kind \in {"threads", "stack", "scopes", "eval"} =>
            t.data[cli[c].kind] = [of |-> {c}, empty |-> empty]
      /\ cli[c].kind = "break" =>
            t.data["break"] = IF empty THEN reader.held ELSE [of |-> {c}, empty |-> empty]
    BY <1>3, AppliedShows
<1> HIDE DEF t
<1>10. cli[c].kind = "stack" => session.stack
    BY <1>1, <1>2 DEF SessionInv
<1>11. Holds(c, session)'
  <2>1. cli[c].kind \in {"threads", "scopes"} =>
          session'.data[cli[c].kind] = [of |-> {c}, empty |-> empty]
      BY <1>8, <1>9
  <2>2. cli[c].kind = "stack" => session'.stack /\ session'.data["stack"].of = {c}
      BY <1>8, <1>9, <1>10
  <2>3. cli[c].kind = "eval" => session'.data["eval"].of = {c}
      BY <1>8, <1>9
  <2>4. cli[c].kind = "break" => empty \/ session'.data["break"] = Mine(c)
      BY <1>8, <1>9 DEF Mine
  <2> QED
      BY <1>1, <1>5, <2>1, <2>2, <2>3, <2>4 DEF Holds, Mine
<1>12. /\ \A f \in Goroutines \ {Reader} : carrying'[f] = carrying[f]
       /\ carrying'[Reader].snap = session'
    BY <1>0 DEF Stores, Carry
<1> QED
    BY <1>1, <1>2, <1>3, <1>5, <1>6, <1>7, <1>8, <1>9, <1>11, <1>12

LEMMA SessionInit ==
    ASSUME Init, NEW c \in CLIs
    PROVE  SessionInv(c) /\ CarryingInv(c) /\ ViewInv(c) /\ EndedInv(c)
<1>1. cli[c].pc = "greeting"
    BY DEF Init
<1>2. ended[c] = NoSnapshot
    BY DEF Init
<1> QED
    BY <1>1, <1>2 DEF SessionInv, CarryingInv, ViewInv, EndedInv, Following

\* Of its own steps.
LEMMA SessionCourse ==
    ASSUME Types, VersionsInv, NEW c \in CLIs, RequestInv(c), RecordInv(c), SessionInv(c),
           Following(c), Following(c)', Course(c)
    PROVE  SessionInv(c)'
<1>0. /\ session \in SnapshotType /\ session.version \in Nat /\ cli[c] \in CLIType
      /\ cli[c].baseline \in Nat /\ c # Reader /\ c \in Goroutines
      /\ pc \in [CLIs -> Places]
      /\ reader \in [at : {"idle", "recorded", "filled", "told"},
                     what : [by : Goroutines, kind : CommandKinds \cup EventKinds \cup {"none"}],
                     held : DatumType]
      /\ "break" \in CommandKinds /\ "vars" \in CommandKinds
    BY ActorsAssumption
    DEF Types, SessionOK, HandlersOK, CLIsOK, AdapterOK, Goroutines, SnapshotType, CLIType, CommandKinds
<1>1. /\ cli[c].baseline <= session.version
      /\ session.version > cli[c].baseline => Moved(c) \/ Applying(c) \/ Answered(c)
    BY DEF SessionInv
<1>2. CASE HandlesNoted(c)
  <2>1. /\ pc[c] = "decoding" /\ pc'[c] = "updating" /\ cli' = cli /\ answered' = answered
        /\ reader' = reader /\ completed' = completed
      BY <1>0, <1>2 DEF HandlesNoted, Takes, Goto, adapterVars, cliVars
  <2>2. ~Submitted(c) /\ ~Submitted(c)'
      BY <2>1 DEF Submitted
  <2>3. ~Moved(c)' /\ ~Applying(c)' /\ ~Answered(c)' /\ c \notin completed'
      BY <2>1, <2>2 DEF Moved, RequestInv, RecordInv, Applying, Answered
  <2>4. session.version = cli[c].baseline
      BY <1>0, <1>1, <2>1, <2>2 DEF Moved, RequestInv
  <2>5. /\ session'.version = session.version
        /\ cli[c].kind = "eval" => session'.evaluate = c
        /\ cli[c].kind = "stack" => ~session'.stack
      BY <1>0, <1>2 DEF HandlesNoted, Becomes, SnapshotType, Noted
  <2> QED
      BY <1>0, <2>1, <2>2, <2>3, <2>4, <2>5 DEF SessionInv
<1>3. CASE Updates(c)
  <2>1. /\ pc[c] = "updating" /\ pc'[c] = "answering" /\ cli' = cli /\ answered' = answered
        /\ reader' = reader /\ completed' = completed
        /\ session' = [session EXCEPT !.version = session.version + 1]
      BY <1>0, <1>3, ChangesType DEF Updates, SendsRequest, Goto, cliVars
  <2>2. ~Submitted(c) /\ cli[c].kind \in Noted /\ ~cli[c].error
      BY <2>1 DEF Submitted, RequestInv
  <2>3. ~Applying(c) /\ ~Applying(c)' /\ ~Answered(c) /\ ~Answered(c)'
      BY <2>1, <2>2 DEF RequestInv, Applying, Answered
  <2>4. Moved(c)'
      BY <2>1, <2>2 DEF Moved, Submitted
  <2>5. /\ session'.version = session.version + 1 /\ session'.evaluate = session.evaluate
        /\ session'.stack = session.stack
      BY <1>0, <2>1 DEF SnapshotType
  <2>6. /\ cli[c].kind = "stack" => ~session.stack
        /\ cli[c].kind = "eval" => session.evaluate = c /\ c \notin completed
      BY <2>1, <2>3 DEF SessionInv
  <2>7. cli[c].kind # "break"
      BY <2>2 DEF Noted
  <2>8. cli'[c].baseline <= session'.version
      BY <1>0, <1>1, <2>1, <2>5
  <2> QED
      BY <2>1, <2>3, <2>4, <2>5, <2>6, <2>7, <2>8 DEF SessionInv
<1>4. CASE StoresBreakpoints(c)
  <2> DEFINE t == Show(session, "break", [of |-> {c}, empty |-> FALSE])
  <2>1. t \in SnapshotType /\ t.data["break"] = Mine(c)
    <3>1. Mine(c) \in DatumType
        BY <1>0 DEF DatumType, Mine
    <3>2. t = Show(session, "break", Mine(c))
        BY DEF Mine
    <3> HIDE DEF t
    <3>3. t \in SnapshotType
        BY <1>0, <3>1, <3>2, ShowType
    <3>4. t.data["break"] = Mine(c)
        BY <1>0, <3>1, <3>2, ShowShows
    <3> QED
        BY <3>3, <3>4
  <2>2. /\ pc[c] = "storing" /\ pc'[c] = "broadcasting" /\ cli' = cli /\ answered' = answered
        /\ reader' = reader /\ completed' = completed
        /\ Changes(t, c)
      BY <1>0, <1>4 DEF StoresBreakpoints, Goto, adapterVars, cliVars
  <2>3. session' = [t EXCEPT !.version = session.version + 1]
      BY <1>0, <2>1, <2>2, ChangesType
  <2>4. session'.version = session.version + 1 /\ session'.data["break"] = Mine(c)
      BY <2>1, <2>3 DEF SnapshotType
  <2>5. cli[c].kind = "break" /\ ~cli[c].error
      BY <2>2 DEF RequestInv
  <2>6. Moved(c)'
      BY <2>2, <2>5 DEF Moved, Submitted
  <2>7. (Applying(c)' <=> Applying(c)) /\ (Answered(c)' <=> Answered(c))
      BY <2>2 DEF Applying, Answered
  <2>8. cli'[c].baseline <= session'.version
      BY <1>0, <1>1, <2>2, <2>4
  <2>9. Holds(c, session)'
      BY <2>2, <2>4, <2>5 DEF Holds, Mine
  <2>10. Answered(c)' => answered'[c].version > cli'[c].baseline
      BY <2>2, <2>7 DEF SessionInv
  <2> QED
      BY <2>2, <2>4, <2>5, <2>6, <2>8, <2>9, <2>10 DEF SessionInv, Mine
<1>5. ASSUME NEW a \in asked, a.by = c, ReceivesResponse(a) PROVE SessionInv(c)'
  <2>1. /\ pc' = pc /\ cli' = cli /\ answered' = answered /\ completed' = completed
        /\ reader'.at = "recorded" /\ reader'.what = a
        /\ session' = [session EXCEPT !.version = session.version + 1]
      BY <1>0, <1>5, ChangesType DEF ReceivesResponse, Records, cliVars
  <2>2. ~Applying(c) /\ ~Answered(c) /\ ~Answered(c)' /\ Applying(c)'
      BY <1>5, <2>1 DEF RequestInv, Applying, Answered
  <2>3. (Submitted(c)' <=> Submitted(c)) /\ (Moved(c)' <=> Moved(c))
      BY <2>1 DEF Submitted, Moved
  <2>4. /\ session'.version = session.version + 1 /\ session'.evaluate = session.evaluate
        /\ session'.stack = session.stack /\ session'.data = session.data
      BY <1>0, <2>1 DEF SnapshotType
  <2>5. cli'[c].baseline <= session'.version
      BY <1>0, <1>1, <2>1, <2>4
  <2> QED
      BY <2>1, <2>2, <2>3, <2>4, <2>5 DEF SessionInv
<1>6. CASE reader.what.by = c /\ Fills
  <2>1. /\ pc' = pc /\ cli' = cli /\ answered' = answered
        /\ reader.at = "recorded" /\ reader'.at = "filled" /\ reader'.what = reader.what
      BY <1>0, <1>6 DEF Fills, cliVars
  <2>2. Applying(c) /\ Applying(c)'
      BY <1>6, <2>1 DEF Applying
  <2>3. ~Answered(c) /\ ~Answered(c)' /\ Submitted(c) /\ reader.what.kind = cli[c].kind
      BY <2>1, <2>2 DEF RequestInv, Answered
  <2>4. (Submitted(c)' <=> Submitted(c)) /\ (Moved(c)' <=> Moved(c))
      BY <2>1 DEF Submitted, Moved
  <2>5. CASE cli[c].kind = "vars"
    <3> DEFINE datum == [of |-> session.data["vars"].of \cup {c}, empty |-> FALSE]
    <3>1. datum \in DatumType
        BY <1>0 DEF SnapshotType, DataType, DatumType
    <3>2. session' = Show(session, "vars", datum)
        BY <1>6, <2>3, <2>5 DEF Fills, Becomes
    <3> HIDE DEF datum
    <3>3. session'.version = session.version
        BY <1>0, <3>1, <3>2, ShowShows
    <3> QED
        BY <1>1, <2>1, <2>2, <2>3, <2>5, <3>3 DEF SessionInv
  <2>6. CASE cli[c].kind = "stack"
    <3>1. session' = [session EXCEPT !.stack = TRUE]
        BY <1>6, <2>3, <2>6 DEF Fills, Becomes
    <3>2. session'.version = session.version /\ session'.stack
        BY <1>0, <3>1 DEF SnapshotType
    <3> QED
        BY <1>1, <2>1, <2>2, <2>3, <2>6, <3>2 DEF SessionInv
  <2>7. CASE cli[c].kind \notin {"vars", "stack"}
    <3>1. session' = session
        BY <1>6, <2>3, <2>7 DEF Fills, Becomes
    <3>2. cli[c].kind = "eval" => c \in completed'
      <4>1. cli[c].kind = "eval" => session.evaluate = c
          BY <2>3 DEF SessionInv
      <4> QED
          BY <1>6, <2>3, <4>1 DEF Fills
    <3> QED
        BY <1>1, <2>1, <2>2, <2>3, <2>4, <2>7, <3>1, <3>2 DEF SessionInv
  <2> QED
      BY <2>5, <2>6, <2>7
<1>7. ASSUME NEW empty \in BOOLEAN, Stores(empty), reader.what.by = c PROVE SessionInv(c)'
  <2>1. /\ Answered(c)' /\ answered'[c].empty = empty
        /\ answered'[c].version = session.version + 1
        /\ session'.version = session.version + 1
        /\ session'.evaluate = session.evaluate
        /\ Holds(c, session)'
        /\ cli' = cli /\ pc' = pc /\ completed' = completed
        /\ Applying(c) /\ reader.at = "filled" /\ ~Applying(c)'
      BY <1>7, StoresAnswer
  <2>2. Submitted(c)
      BY <2>1 DEF RequestInv
  <2>3. (Submitted(c)' <=> Submitted(c)) /\ (Moved(c)' <=> Moved(c))
      BY <2>1 DEF Submitted, Moved
  <2>4. cli'[c].baseline <= session'.version /\ answered'[c].version > cli'[c].baseline
      BY <1>0, <1>1, <2>1
  <2>5. cli[c].kind = "eval" => session.evaluate = c /\ c \in completed
      BY <2>1, <2>2 DEF SessionInv
  <2>6. cli[c].kind = "break" => empty \/ session'.data["break"] = Mine(c)
      BY <2>1 DEF Holds, Mine
  <2> QED
      BY <2>1, <2>4, <2>5, <2>6 DEF SessionInv, Mine
<1> QED
    BY <1>2, <1>3, <1>4, <1>5, <1>6, <1>7 DEF Course

LEMMA SessionNext ==
    ASSUME Types, VersionsInv, NEW c \in CLIs, RequestInv(c), RecordInv(c), SessionInv(c), Next
    PROVE  SessionInv(c)'
<1> SUFFICES ASSUME Following(c)' PROVE SessionInv(c)'
    BY DEF SessionInv
<1>1. CASE Asks(c)
  <2>1. session.version \in Nat
      BY DEF Types, SessionOK, SnapshotType
  <2> QED
      BY <1>1, <2>1, AsksFirst DEF SessionInv, Sought
<1>2. CASE Following(c) /\ Course(c)
    BY <1>2, SessionCourse
<1>3. CASE Following(c) /\ Unmoved(c)
  <2>1. Answered(c)' <=> Answered(c)
      BY <1>3 DEF Unmoved, Answered
  <2>2. Holds(c, session)' <=> Holds(c, session)
      BY <1>3 DEF Unmoved, Holds, Mine
  <2>3. {"stack", "eval"} \subseteq Noted
      BY DEF Noted
  <2> QED
      BY <1>3, <2>1, <2>2, <2>3 DEF SessionInv, Unmoved, Sought, Mine
<1> QED
    BY <1>1, <1>2, <1>3, Traced

\* The snapshots that are taken at a step, and those already on their way.
LEMMA CarryingNext ==
    ASSUME Types, VersionsInv, NEW c \in CLIs, RequestInv(c), RecordInv(c), SessionInv(c),
           CarryingInv(c), Next
    PROVE  CarryingInv(c)'
<1> SUFFICES ASSUME Following(c)' PROVE CarryingInv(c)'
    BY DEF CarryingInv
<1>0. /\ session.version \in Nat /\ c # Reader /\ c \in Goroutines /\ Reader \in Goroutines
      /\ carrying \in [Goroutines -> [snap : SnapshotType \cup {NoSnapshot}, to : SUBSET CLIs]]
      /\ \A g \in Goroutines : carrying[g].snap.version \in Nat
                               /\ carrying[g].snap.version <= session.version
      /\ answered[c].version \in Nat /\ answered[c].version <= session.version
      /\ cli[c].baseline \in Nat
  <2>1. \A s \in SnapshotType \cup {NoSnapshot} : s.version \in Nat
      BY DEF SnapshotType, NoSnapshot
  <2>2. session \in SnapshotType
        /\ carrying \in [Goroutines -> [snap : SnapshotType \cup {NoSnapshot}, to : SUBSET CLIs]]
      BY DEF Types, SessionOK, HandlersOK
  <2>3. answered[c].version \in Nat /\ cli[c].baseline \in Nat
      BY DEF Types, CLIsOK, CLIType
  <2> QED
      BY <2>1, <2>2, <2>3, ActorsAssumption DEF Goroutines, VersionsInv
<1>1. CASE Asks(c)
  <2>1. \A g \in Goroutines : ~(carrying'[g].snap.version > cli'[c].baseline)
      BY <1>0, <1>1, AsksFirst
  <2> QED
      BY <1>0, <1>1, <2>1, AsksFirst DEF CarryingInv
<1>2. ASSUME Following(c), carrying' = carrying, cli'[c].kind = cli[c].kind,
             cli'[c].baseline = cli[c].baseline, answered'[c] = answered[c]
      PROVE  CarryingInv(c)'
    BY <1>2 DEF CarryingInv, Answered, Holds, Early, Mine
<1>3. CASE /\ Following(c) /\ Course(c)
           /\ ~(reader.what.by = c /\ \E empty \in BOOLEAN : Stores(empty))
    BY <1>2, <1>3, CourseKeeps
<1>4. ASSUME Following(c), NEW empty \in BOOLEAN, Stores(empty), reader.what.by = c
      PROVE  CarryingInv(c)'
  <2>1. /\ Answered(c)' /\ answered'[c].version = session.version + 1
        /\ ~Answered(c) /\ Submitted(c)
        /\ session'.version = session.version + 1 /\ session'.evaluate = session.evaluate
        /\ Holds(c, session)'
        /\ \A f \in Goroutines \ {Reader} : carrying'[f] = carrying[f]
        /\ carrying'[Reader].snap = session'
        /\ cli' = cli
      BY <1>4, StoresAnswer DEF RequestInv
  <2>2. cli[c].kind = "eval" => session'.evaluate = c
      BY <1>4, <2>1 DEF SessionInv
  <2>3. \A g \in Goroutines : carrying'[g].snap.version >= answered'[c].version => g = Reader
      BY <1>0, <2>1
  <2>4. ~answered[c].empty
      BY <2>1 DEF Answered, Unanswered
  <2>5. Holds(c, carrying[Reader].snap)'
      BY <2>1 DEF Holds, Mine
  <2>6. \A g \in Goroutines : carrying'[g].snap.version >= answered'[c].version =>
            Holds(c, carrying[g].snap)' /\ (cli'[c].kind = "eval" => carrying'[g].snap.evaluate = c)
      BY <2>1, <2>2, <2>3, <2>5 DEF Holds, Mine
  <2>7. carrying'[Reader].snap.version >= answered'[c].version
      BY <1>0, <2>1
  <2>8. carrying'[c] = carrying[c]
      BY <1>0, <2>1
  <2>9. carrying'[c].to # {} /\ carrying'[c].snap.version > cli'[c].baseline /\ cli'[c].kind = "break" =>
            carrying'[c].snap.data["break"] = Mine(c)
      BY <1>4, <2>1, <2>4, <2>8 DEF CarryingInv, Mine
  <2> QED
      BY <2>1, <2>6, <2>7, <2>9 DEF CarryingInv, Mine
<1>5. CASE Following(c) /\ Unmoved(c) /\ Conveys(c)
  <2>1. /\ cli'[c].kind = cli[c].kind /\ cli'[c].baseline = cli[c].baseline
        /\ answered'[c] = answered[c]
      BY <1>5 DEF Unmoved
  <2>2. CASE carrying' = carrying
      BY <1>2, <1>5, <2>1, <2>2
  <2>3. ASSUME NEW g \in Goroutines,
               \A f \in Goroutines \ {g} : carrying'[f] = carrying[f],
               carrying'[g].snap = session,
               g = c => Submitted(c) /\ pc[c] # "storing",
               g = Reader => reader.at = "told"
        PROVE  CarryingInv(c)'
    <3>1. Answered(c) => Holds(c, session) /\ (cli[c].kind = "eval" => session.evaluate = c)
        BY <1>5 DEF SessionInv, RequestInv
    <3>2. g = Reader /\ ~Answered(c) /\ session.version > cli[c].baseline =>
            Early(c, session) /\ (cli[c].kind = "eval" => session.evaluate = c)
      <4> SUFFICES ASSUME g = Reader, ~Answered(c), session.version > cli[c].baseline
                   PROVE  Early(c, session) /\ (cli[c].kind = "eval" => session.evaluate = c)
          OBVIOUS
      <4>1. ~Applying(c)
          BY <2>3 DEF Applying
      <4>2. Moved(c)
          BY <1>5, <4>1 DEF SessionInv
      <4>3. Submitted(c) /\ cli[c].kind \in Noted \cup {"break"}
          BY <4>2 DEF Moved
      <4>4. ~answered[c].empty
          BY DEF Answered, Unanswered
      <4>5. cli[c].kind = "stack" => ~session.stack
          BY <1>5, <4>1, <4>3 DEF SessionInv
      <4>6. cli[c].kind = "break" => session.data["break"] = Mine(c)
          BY <1>5, <4>2, <4>4 DEF SessionInv
      <4>7. cli[c].kind = "eval" => session.evaluate = c
          BY <1>5, <4>3 DEF SessionInv
      <4> QED
          BY <4>3, <4>5, <4>6, <4>7 DEF Early
    <3>3. g = c /\ session.version > cli[c].baseline /\ cli[c].kind = "break" =>
            answered[c].empty \/ session.data["break"] = Mine(c)
        BY <1>5, <2>3 DEF SessionInv, Moved
    <3>4. Answered(c)' <=> Answered(c)
        BY <2>1 DEF Answered
    <3>5. \A f \in Goroutines : Answered(c)' /\ carrying'[f].to # {}
                                /\ carrying'[f].snap.version >= answered'[c].version =>
            /\ Holds(c, carrying[f].snap)'
            /\ cli'[c].kind = "eval" => carrying'[f].snap.evaluate = c
      <4> SUFFICES ASSUME NEW f \in Goroutines, Answered(c), carrying'[f].to # {},
                          carrying'[f].snap.version >= answered[c].version
                   PROVE  /\ Holds(c, carrying[f].snap)'
                          /\ cli[c].kind = "eval" => carrying'[f].snap.evaluate = c
          BY <2>1, <3>4
      <4>1. CASE f = g
          BY <2>1, <2>3, <3>1, <4>1 DEF Holds, Mine
      <4>2. CASE f # g
        <5>1. carrying'[f] = carrying[f]
            BY <2>3, <4>2
        <5>2. Holds(c, carrying[f].snap) /\ (cli[c].kind = "eval" => carrying[f].snap.evaluate = c)
            BY <1>5, <5>1 DEF CarryingInv
        <5> QED
            BY <2>1, <5>1, <5>2 DEF Holds, Mine
      <4> QED
          BY <4>1, <4>2
    <3>6. carrying'[Reader].to # {} =>
            /\ Answered(c)' => carrying'[Reader].snap.version >= answered'[c].version
            /\ ~Answered(c)' /\ carrying'[Reader].snap.version > cli'[c].baseline =>
                  /\ Early(c, carrying[Reader].snap)'
                  /\ cli'[c].kind = "eval" => carrying'[Reader].snap.evaluate = c
      <4>1. CASE g = Reader
          BY <1>0, <2>1, <2>3, <3>2, <3>4, <4>1 DEF Early, Mine
      <4>2. CASE g # Reader
        <5>1. carrying'[Reader] = carrying[Reader]
            BY <1>0, <2>3, <4>2
        <5> QED
            BY <1>5, <2>1, <3>4, <5>1 DEF CarryingInv, Early, Mine
      <4> QED
          BY <4>1, <4>2
    <3>7. carrying'[c].to # {} /\ carrying'[c].snap.version > cli'[c].baseline /\ cli'[c].kind = "break" =>
            answered'[c].empty \/ carrying'[c].snap.data["break"] = Mine(c)
      <4>1. CASE g = c
          BY <2>1, <2>3, <3>3, <4>1
      <4>2. CASE g # c
        <5>1. carrying'[c] = carrying[c]
            BY <1>0, <2>3, <4>2
        <5> QED
            BY <1>5, <2>1, <5>1 DEF CarryingInv
      <4> QED
          BY <4>1, <4>2
    <3> QED
        BY <3>5, <3>6, <3>7 DEF CarryingInv, Mine
  <2>4. ASSUME NEW g \in Goroutines, NEW d \in CLIs, Sends(g, d)
        PROVE  CarryingInv(c)'
    <3>1. \A f \in Goroutines : carrying'[f].to # {} =>
            carrying'[f].snap = carrying[f].snap /\ carrying[f].to # {}
        BY <1>0, <2>4 DEF Sends, Nothing
    <3>2. Answered(c)' <=> Answered(c)
        BY <2>1 DEF Answered
    <3> QED
        BY <1>0, <1>5, <2>1, <3>1, <3>2 DEF CarryingInv, Holds, Early, Mine
  <2> QED
      BY <1>5, <2>2, <2>3, <2>4 DEF Conveys
<1> QED
    BY <1>1, <1>3, <1>4, <1>5, Traced

-----------------------------------------------------------------------------
(* What the CLI holds *)

\* Who changes what the CLI of c does and holds: itself, and who sends to it.
LEMMA CLIMoves ==
    ASSUME Types, NEW c \in CLIs, Next
    PROVE  \/ Asks(c) \/ Returns(c) \/ Prints(c) \/ Fails(c)
           \/ /\ cli'[c].pc = cli[c].pc /\ cli'[c].kind = cli[c].kind
              /\ cli'[c].baseline = cli[c].baseline /\ ended'[c] = ended[c]
              /\ \/ view'[c] = view[c]
                 \/ \E g \in Goroutines : Sends(g, c) /\ view'[c] = Encoded(carrying[g].snap, g)
<1> DEFINE Still == /\ cli'[c].pc = cli[c].pc /\ cli'[c].kind = cli[c].kind
                    /\ cli'[c].baseline = cli[c].baseline /\ ended'[c] = ended[c]
<1>0. cli \in [CLIs -> CLIType] /\ cli[c] \in CLIType
      /\ view \in [CLIs -> ViewType \cup {NoSnapshot}]
      /\ ended \in [CLIs -> ViewType \cup {NoSnapshot}]
    BY DEF Types, CLIsOK
<1>1. ASSUME NEW d \in CLIs, HandlerStep(d) PROVE Still /\ view'[c] = view[c]
  <2>1. CASE HandlesRefusing(d)
    <3>1. cli'[c] = cli[c] \/ cli'[c] = [cli[c] EXCEPT !.error = TRUE]
        BY <1>0, <2>1 DEF HandlesRefusing
    <3> QED
        BY <1>0, <2>1, <3>1 DEF HandlesRefusing, CLIType
  <2>2. CASE cli' = cli /\ view' = view /\ ended' = ended
      BY <2>2
  <2> QED
      BY <1>1, <2>1, <2>2
      DEF HandlerStep, HandlesHello, HandlesRequest, HandlesNoted, Updates, SendsRequest,
          StoresBreakpoints, Broadcasts, Answers, Leaves, TellsOthers, cliVars
<1>2. ASSUME ReaderStep PROVE Still /\ view'[c] = view[c]
    BY <1>2 DEF ReaderStep, ReceivesResponse, ReceivesEvent, Records, Fills, Stores, TellsAgain,
                cliVars
<1>3. ASSUME NEW d \in CLIs, CLIStep(d), d # c \/ Starts(d) PROVE Still /\ view'[c] = view[c]
  <2>1. CASE Starts(d)
      BY <2>1 DEF Starts, cliVars
  <2>2. CASE d # c
      BY <1>0, <1>3, <2>2 DEF CLIStep, Starts, Asks, Returns, Prints, Fails, Ends, cliVars
  <2> QED
      BY <1>3, <2>1, <2>2
<1>4. ASSUME NEW g \in Goroutines, NEW d \in CLIs, Sends(g, d)
      PROVE  Still /\ (view'[c] = view[c]
                       \/ (d = c /\ view'[c] = Encoded(carrying[g].snap, g)))
    BY <1>0, <1>4 DEF Sends
<1> QED
    BY <1>1, <1>2, <1>3, <1>4 DEF Next, CLIStep

\* What a snapshot shows when it is encoded.
LEMMA EncodedShows ==
    ASSUME Types, NEW g \in Goroutines, NEW c \in CLIs, Sends(g, c)
    PROVE  LET s == carrying[g].snap
               v == Encoded(s, g)
           IN  /\ s \in SnapshotType /\ carrying[g].to # {}
               /\ v # NoSnapshot /\ v.version = s.version /\ v.version # 0 /\ v.by = g
               /\ v.stack = s.stack /\ v.terminal = s.terminal
               /\ v.eval = (s.evaluate \in completed)
               /\ v.data["vars"] = session.data["vars"]
               /\ \A k \in CommandKinds \ {"vars"} : v.data[k] = s.data[k]
<1> DEFINE s == carrying[g].snap
           v == Encoded(s, g)
<1>1. carrying[g].to # {} /\ s \in SnapshotType
    BY DEF Sends, Types, HandlersOK
<1>2. v.version = s.version /\ s.version # 0
    BY <1>1 DEF Encoded, SnapshotType
<1>3. v # NoSnapshot
    BY <1>2 DEF NoSnapshot
<1>4. /\ v.by = g /\ v.stack = s.stack /\ v.terminal = s.terminal
      /\ v.eval = (s.evaluate \in completed)
      /\ v.data = [s.data EXCEPT !["vars"] = session.data["vars"]]
    BY DEF Encoded
<1>5. s.data \in DataType /\ "vars" \in CommandKinds
    BY <1>1 DEF SnapshotType, CommandKinds
<1>6. v.data["vars"] = session.data["vars"]
      /\ \A k \in CommandKinds \ {"vars"} : v.data[k] = s.data[k]
    BY <1>4, <1>5 DEF DataType
<1> QED
    BY <1>1, <1>2, <1>3, <1>4, <1>6

LEMMA ViewNext ==
    ASSUME Types, VersionsInv, NEW c \in CLIs, RequestInv(c), RecordInv(c), SessionInv(c),
           CarryingInv(c), ViewInv(c), Next
    PROVE  ViewInv(c)'
<1> SUFFICES ASSUME Following(c)' PROVE ViewInv(c)'
    BY DEF ViewInv
<1>0. /\ session.version \in Nat /\ c # Reader /\ c \in Goroutines /\ Reader \in Goroutines
      /\ view[c].version \in Nat /\ view[c].version <= session.version
      /\ answered[c].version \in Nat /\ answered[c].version <= session.version
      /\ cli[c] \in CLIType /\ cli[c].baseline \in Nat
      /\ cli[c].kind \in CommandKinds
  <2>1. \A v \in ViewType \cup {NoSnapshot} : v.version \in Nat
      BY DEF ViewType, NoSnapshot
  <2>2. session.version \in Nat /\ view[c] \in ViewType \cup {NoSnapshot}
      BY DEF Types, SessionOK, SnapshotType, CLIsOK
  <2>3. answered[c].version \in Nat /\ cli[c] \in CLIType
      BY DEF Types, CLIsOK
  <2> QED
      BY <2>1, <2>2, <2>3, ActorsAssumption DEF Goroutines, VersionsInv, CLIType
<1>1. CASE Asks(c)
  <2>1. ~(view'[c].version > cli'[c].baseline) /\ ~Answered(c)'
      BY <1>0, <1>1, AsksFirst
  <2> QED
      BY <2>1 DEF ViewInv, Early, Mine
<1>2. ASSUME Following(c), view'[c] = view[c], cli'[c].kind = cli[c].kind,
             cli'[c].baseline = cli[c].baseline, answered'[c] = answered[c]
      PROVE  ViewInv(c)'
    BY <1>2 DEF ViewInv, Answered, Holds, Early, Mine
<1>3. CASE /\ Following(c) /\ Course(c)
           /\ ~(reader.what.by = c /\ \E empty \in BOOLEAN : Stores(empty))
    BY <1>2, <1>3, CourseKeeps
<1>4. ASSUME Following(c), NEW empty \in BOOLEAN, Stores(empty), reader.what.by = c
      PROVE  ViewInv(c)'
  <2>1. /\ Answered(c)' /\ answered'[c].version = session.version + 1
        /\ ~Answered(c) /\ cli' = cli /\ view' = view
      BY <1>4, StoresAnswer
  <2>2. view'[c].version < answered'[c].version
      BY <1>0, <2>1
  <2>3. ~answered[c].empty
      BY <2>1 DEF Answered, Unanswered
  <2>4. ~(view'[c].version >= answered'[c].version)
      BY <1>0, <2>1
  <2> QED
      BY <1>4, <2>1, <2>2, <2>3, <2>4 DEF ViewInv, Early, Mine
<1>5. CASE Following(c) /\ Unmoved(c) /\ Conveys(c)
  <2>1. /\ cli'[c].kind = cli[c].kind /\ cli'[c].baseline = cli[c].baseline
        /\ answered'[c] = answered[c] /\ session' = session /\ completed' = completed
      BY <1>5 DEF Unmoved
  <2>2. CASE view'[c] = view[c]
      BY <1>2, <1>5, <2>1, <2>2
  <2>3. ASSUME NEW g \in Goroutines, Sends(g, c), view'[c] = Encoded(carrying[g].snap, g)
        PROVE  ViewInv(c)'
    <3> DEFINE s == carrying[g].snap
               v == Encoded(s, g)
               kind == cli[c].kind
    <3>1. /\ s \in SnapshotType /\ carrying[g].to # {}
          /\ v.version = s.version /\ v.by = g /\ v.stack = s.stack
          /\ v.eval = (s.evaluate \in completed)
          /\ v.data["vars"] = session.data["vars"]
          /\ \A k \in CommandKinds \ {"vars"} : v.data[k] = s.data[k]
        BY <2>3, EncodedShows
    <3>2. s.version \in Nat
        BY <3>1 DEF SnapshotType
    <3> HIDE DEF v, s
    <3>3. {"threads", "stack", "scopes", "eval", "break"} \subseteq CommandKinds
        BY DEF CommandKinds
    <3>4. Holds(c, v) <=> Holds(c, s)
      <4>1. \A k \in {"threads", "stack", "scopes", "eval", "break"} : v.data[k] = s.data[k]
          BY <3>1, <3>3
      <4> QED
          BY <3>1, <4>1 DEF Holds
    <3>5. Early(c, v) <=> Early(c, s)
        BY <3>1, <3>3 DEF Early
    <3>6. Answered(c) /\ s.version >= answered[c].version =>
            Holds(c, s) /\ (kind = "eval" => s.evaluate = c)
        BY <1>5, <3>1 DEF CarryingInv, s
    <3>7. Answered(c) /\ v.version >= answered[c].version => Holds(c, v) /\ (kind = "eval" => v.eval)
      <4>1. Answered(c) /\ kind = "eval" => c \in completed
          BY <1>5 DEF SessionInv
      <4> QED
          BY <3>1, <3>4, <3>6, <4>1
    <3>8. g = Reader /\ Answered(c) => s.version >= answered[c].version
        BY <1>5, <3>1 DEF CarryingInv, s
    <3>9. g = Reader /\ ~Answered(c) /\ s.version > cli[c].baseline =>
            Early(c, s) /\ (kind = "eval" => s.evaluate = c)
        BY <1>5, <3>1 DEF CarryingInv, s
    <3>10. g = Reader /\ ~Answered(c) /\ kind = "eval" => c \notin completed
      <4>1. g = Reader => ~Applying(c)
          BY <3>1 DEF VersionsInv, Applying
      <4> QED
          BY <1>5, <4>1 DEF SessionInv
    <3>11. v.version > cli[c].baseline /\ (Answered(c) => v.version < answered[c].version) =>
             (v.by = Reader => Early(c, v) /\ (kind = "eval" => ~v.eval))
      <4> SUFFICES ASSUME v.version > cli[c].baseline, v.by = Reader,
                          Answered(c) => v.version < answered[c].version
                   PROVE  Early(c, v) /\ (kind = "eval" => ~v.eval)
          OBVIOUS
      <4>1. g = Reader /\ ~Answered(c)
          BY <1>0, <3>1, <3>2, <3>8
      <4> QED
          BY <3>1, <3>5, <3>9, <3>10, <4>1
    <3>12. v.version > cli[c].baseline /\ v.by \in {c, Reader} /\ kind = "break" =>
            answered[c].empty \/ v.data["break"] = Mine(c)
      <4> SUFFICES ASSUME v.version > cli[c].baseline, v.by \in {c, Reader}, kind = "break"
                   PROVE  answered[c].empty \/ s.data["break"] = Mine(c)
          BY <3>1, <3>3
      <4>1. CASE g = c
          BY <1>5, <3>1, <4>1 DEF CarryingInv, s
      <4>2. CASE g = Reader /\ Answered(c)
          BY <3>6, <3>8, <4>2 DEF Holds
      <4>3. CASE g = Reader /\ ~Answered(c)
          BY <3>1, <3>9, <4>3 DEF Early
      <4> QED
          BY <3>1, <4>1, <4>2, <4>3
    <3>13. v.version > cli[c].baseline /\ v.by = Reader /\ kind = "vars" => c \in v.data["vars"].of
      <4> SUFFICES ASSUME v.version > cli[c].baseline, g = Reader, kind = "vars"
                   PROVE  c \in session.data["vars"].of
          BY <3>1
      <4>1. Answered(c)
          BY <3>1, <3>9 DEF Early, Noted
      <4> QED
          BY <4>1 DEF RecordInv
    <3>14. Answered(c)' <=> Answered(c)
        BY <2>1 DEF Answered
    <3>15. view'[c] = v
        BY <2>3 DEF v, s
    <3> QED
        BY <2>1, <3>7, <3>11, <3>12, <3>13, <3>14, <3>15 DEF ViewInv, Holds, Early, Mine
  <2>4. view'[c] = view[c]
        \/ \E g \in Goroutines : Sends(g, c) /\ view'[c] = Encoded(carrying[g].snap, g)
    <3>1. ASSUME NEW g \in Goroutines, NEW d \in CLIs, Sends(g, d)
          PROVE  view'[c] = view[c] \/ (d = c /\ view'[c] = Encoded(carrying[g].snap, g))
        BY <3>1 DEF Sends, Types, CLIsOK
    <3> QED
        BY <1>5, <3>1 DEF Conveys
  <2> QED
      BY <2>2, <2>3, <2>4
<1> QED
    BY <1>1, <1>3, <1>4, <1>5, Traced

\* What a satisfied command that nobody disturbs sees in a snapshot of the reader.
LEMMA SatisfiedByAnswer ==
    ASSUME Types, NEW c \in CLIs, ViewInv(c), EndedInv(c), Following(c), cli[c].pc = "waiting",
           Satisfied(cli[c].kind, view[c], cli[c].baseline),
           view[c].version >= cli[c].baseline, view[c].by = Reader, ~view[c].terminal,
           cli[c].kind # "break"
    PROVE  Answered(c) /\ view[c].version >= answered[c].version
<1>0. /\ view[c] # NoSnapshot /\ view[c].version \in Nat /\ cli[c].baseline \in Nat
      /\ answered[c].version \in Nat
    BY DEF EndedInv, Types, CLIsOK, ViewType, CLIType
<1>1. view[c].version > cli[c].baseline
    BY <1>0 DEF Satisfied
<1> SUFFICES ASSUME Answered(c) => view[c].version < answered[c].version PROVE FALSE
    BY <1>0
<1>2. Early(c, view[c]) /\ (cli[c].kind = "eval" => ~view[c].eval)
    BY <1>0, <1>1 DEF ViewInv
<1>3. cli[c].kind \in {"stack", "eval"}
    BY <1>2 DEF Early, Noted
<1>4. cli[c].kind = "stack" => view[c].stack
    BY DEF Satisfied
<1>5. cli[c].kind = "eval" => view[c].eval
    BY DEF Satisfied
<1> QED
    BY <1>2, <1>3, <1>4, <1>5 DEF Early

LEMMA EndedNext ==
    ASSUME Types, VersionsInv, NEW c \in CLIs, RequestInv(c), RecordInv(c), SessionInv(c),
           CarryingInv(c), ViewInv(c), EndedInv(c), Next
    PROVE  EndedInv(c)'
<1>0. /\ cli \in [CLIs -> CLIType] /\ cli[c] \in CLIType /\ c # Reader /\ Reader \in Goroutines
      /\ view \in [CLIs -> ViewType \cup {NoSnapshot}]
      /\ ended \in [CLIs -> ViewType \cup {NoSnapshot}]
    BY ActorsAssumption DEF Types, CLIsOK, Goroutines
<1>1. CASE Asks(c)
  <2>1. cli'[c].pc = "waiting" /\ view'[c] # NoSnapshot /\ ended'[c] = ended[c]
        /\ cli[c].pc = "greeting"
      BY <1>0, <1>1 DEF Asks
  <2> QED
      BY <2>1 DEF EndedInv
<1>2. ASSUME NEW result, NEW of, Ends(c, result, of) PROVE EndedInv(c)'
  <2>1. cli'[c].pc = "done" /\ ended'[c] = NoSnapshot
      BY <1>0, <1>2 DEF Ends
  <2> QED
      BY <2>1 DEF EndedInv
<1>3. CASE Prints(c) \/ Fails(c)
    BY <1>2, <1>3 DEF Prints, Fails
<1>4. CASE Returns(c)
  <2>1. CASE cli[c].kind \in {"threads", "stack", "break"}
      BY <1>2, <1>4, <2>1 DEF Returns
  <2>2. CASE cli[c].kind \notin {"threads", "stack", "break"}
    <3>1. /\ cli[c].pc = "waiting" /\ view[c] # NoSnapshot
          /\ Satisfied(cli[c].kind, view[c], cli[c].baseline)
          /\ cli'[c] = [cli[c] EXCEPT !.pc = "printing"]
          /\ ended'[c] = view[c] /\ view'[c] = view[c] /\ answered' = answered
          /\ disturbed' = disturbed
        BY <1>0, <1>4, <2>2 DEF Returns, EndedInv
    <3>2. cli'[c].pc = "printing" /\ cli'[c].kind = cli[c].kind
          /\ cli'[c].baseline = cli[c].baseline
        BY <1>0, <3>1 DEF CLIType
    <3>3. cli[c].kind \in {"scopes", "vars", "eval"}
        BY <1>0, <2>2 DEF CLIType, CommandKinds
    <3>4. ASSUME ~disturbed[c], view[c].by = Reader, ~view[c].terminal,
                 view[c].version >= cli[c].baseline
          PROVE  Answered(c) /\ view[c].version >= answered[c].version
      <4>1. Following(c) /\ cli[c].kind # "break"
          BY <3>1, <3>3, <3>4 DEF Following
      <4> QED
          BY <3>1, <3>4, <4>1, SatisfiedByAnswer
    <3>5. Answered(c)' <=> Answered(c)
        BY <3>1 DEF Answered
    <3> QED
        BY <3>1, <3>2, <3>3, <3>4, <3>5 DEF EndedInv
  <2> QED
      BY <2>1, <2>2
<1>5. ASSUME cli'[c].pc = cli[c].pc, cli'[c].kind = cli[c].kind,
             cli'[c].baseline = cli[c].baseline, ended'[c] = ended[c],
             \/ view'[c] = view[c]
             \/ \E g \in Goroutines : Sends(g, c) /\ view'[c] = Encoded(carrying[g].snap, g)
      PROVE  EndedInv(c)'
  <2>1. view'[c] # view[c] => view'[c] # NoSnapshot
    <3>1. ASSUME NEW g \in Goroutines, Sends(g, c), view'[c] = Encoded(carrying[g].snap, g)
          PROVE  view'[c] # NoSnapshot
        BY <3>1, EncodedShows
    <3> QED
        BY <1>5, <3>1
  <2>2. ASSUME cli[c].pc = "printing", ~disturbed'[c], ended[c].by = Reader, ~ended[c].terminal,
               ended[c].version >= cli[c].baseline
        PROVE  Answered(c)' /\ (view'[c].by = Reader => view'[c].version >= answered'[c].version)
    <3>1. Following(c)'
        BY <1>5, <2>2 DEF Following
    <3>2. Following(c) /\ (Course(c) \/ (Unmoved(c) /\ Conveys(c)))
        BY <2>2, <3>1, Traced DEF Asks
    <3>3. Answered(c) /\ (view[c].by = Reader => view[c].version >= answered[c].version)
        BY <2>2, <3>2 DEF EndedInv, Following
    <3>4. ~(reader.what.by = c /\ \E empty \in BOOLEAN : Stores(empty))
        BY <3>2, <3>3, StoresAnswer
    <3>5. answered'[c] = answered[c]
        BY <3>2, <3>4, CourseKeeps DEF Unmoved
    <3>6. Answered(c)'
        BY <3>3, <3>5 DEF Answered
    <3>7. CASE view'[c] = view[c]
        BY <3>3, <3>5, <3>6, <3>7
    <3>8. ASSUME NEW g \in Goroutines, Sends(g, c), view'[c] = Encoded(carrying[g].snap, g)
          PROVE  view'[c].by = Reader => view'[c].version >= answered'[c].version
      <4>1. /\ view'[c].version = carrying[g].snap.version /\ view'[c].by = g
            /\ carrying[g].to # {}
          BY <3>8, EncodedShows
      <4>2. g = Reader => carrying[Reader].snap.version >= answered[c].version
          BY <3>2, <3>3, <4>1 DEF CarryingInv
      <4> QED
          BY <3>5, <4>1, <4>2
    <3> QED
        BY <1>5, <3>6, <3>7, <3>8
  <2> QED
      BY <1>5, <2>1, <2>2 DEF EndedInv
<1> QED
    BY <1>1, <1>3, <1>4, <1>5, CLIMoves

-----------------------------------------------------------------------------
(* The inductive invariant *)

LEMMA IInvInit == Init => IInv
BY TypesInit, VersionsInit, RequestInit, RecordInit, SessionInit DEF IInv

LEMMA IInvNext ==
    ASSUME IInv, Next
    PROVE  IInv'
<1>1. Types /\ VersionsInv
    BY DEF IInv
<1>2. Types' /\ VersionsInv'
    BY <1>1, TypesNext, VersionsNext DEF IInv
<1>3. ASSUME NEW c \in CLIs
      PROVE  /\ RequestInv(c)' /\ RecordInv(c)'
             /\ SessionInv(c)' /\ CarryingInv(c)' /\ ViewInv(c)' /\ EndedInv(c)'
  <2>1. /\ RequestInv(c) /\ RecordInv(c)
        /\ SessionInv(c) /\ CarryingInv(c) /\ ViewInv(c) /\ EndedInv(c)
      BY DEF IInv
  <2> QED
      BY <1>1, <2>1, RequestNext, RecordNext, SessionNext, CarryingNext, ViewNext, EndedNext
<1> QED
    BY <1>2, <1>3 DEF IInv

LEMMA IInvStutters ==
    ASSUME IInv, UNCHANGED vars
    PROVE  IInv'
<1>1. /\ session' = session /\ completed' = completed /\ asked' = asked /\ reader' = reader
      /\ pc' = pc /\ carrying' = carrying /\ cli' = cli /\ view' = view /\ ended' = ended
      /\ printed' = printed /\ answered' = answered /\ disturbed' = disturbed
    BY DEF vars, cliVars
<1>2. Types' <=> Types
    BY <1>1 DEF Types, SessionOK, AdapterOK, HandlersOK, CLIsOK
<1>3. VersionsInv' <=> VersionsInv
    BY <1>1 DEF VersionsInv, Answered
<1>4. ASSUME NEW c \in CLIs
      PROVE  /\ RequestInv(c)' <=> RequestInv(c)
             /\ RecordInv(c)' <=> RecordInv(c)
             /\ EndedInv(c)' <=> EndedInv(c)
    BY <1>1 DEF RequestInv, RecordInv, EndedInv, Submitted, Applying, Answered
<1>5. ASSUME NEW c \in CLIs PROVE SessionInv(c)' <=> SessionInv(c)
    BY <1>1 DEF SessionInv, Following, Moved, Submitted, Applying, Answered, Holds, Mine
<1>6. ASSUME NEW c \in CLIs PROVE CarryingInv(c)' <=> CarryingInv(c)
    BY <1>1 DEF CarryingInv, Following, Answered, Holds, Early, Mine
<1>7. ASSUME NEW c \in CLIs PROVE ViewInv(c)' <=> ViewInv(c)
    BY <1>1 DEF ViewInv, Following, Answered, Holds, Early, Mine
<1> QED
    BY <1>2, <1>3, <1>4, <1>5, <1>6, <1>7 DEF IInv

\* Every snapshot, in the session, under way or received, shows of a command that
\* nobody disturbed what its request has come to.
THEOREM Invariance == Spec => []IInv
<1>1. IInv /\ [Next]_vars => IInv'
    BY IInvNext, IInvStutters
<1> QED
    BY <1>1, IInvInit, PTL DEF Spec

-----------------------------------------------------------------------------
(* The properties *)

\* A step by which a command ends well is that of its return or its print.
LEMMA EndsWell ==
    ASSUME Types, NEW c \in CLIs, EndedInv(c), Next, cli[c].pc # "done", cli'[c].pc = "done"
    PROVE  \/ /\ Returns(c) /\ cli[c].pc = "waiting" /\ cli'[c].result = "ok"
              /\ cli[c].kind \in {"threads", "stack", "break"}
              /\ Satisfied(cli[c].kind, view[c], cli[c].baseline)
              /\ printed'[c] = view[c].data[cli[c].kind].of
           \/ /\ Prints(c) /\ cli[c].pc = "printing" /\ cli'[c].result = "ok"
              /\ cli[c].kind # "vars" => printed'[c] = view[c].data[cli[c].kind].of
           \/ /\ Fails(c) /\ cli[c].pc = "waiting" /\ cli'[c].result # "ok"
              /\ cli'[c].result = "timed out" => ~Satisfied(cli[c].kind, view[c], cli[c].baseline)
<1>0. cli \in [CLIs -> CLIType] /\ cli[c] \in CLIType
      /\ printed \in [CLIs -> SUBSET Goroutines]
    BY DEF Types, CLIsOK
<1>1. ASSUME NEW result, NEW of, Ends(c, result, of)
      PROVE  cli'[c].result = result /\ printed'[c] = of
  <2>1. cli'[c] = [cli[c] EXCEPT !.pc = "done", !.result = result, !.baseline = 0]
      BY <1>0, <1>1 DEF Ends
  <2> QED
      BY <1>0, <1>1, <2>1 DEF Ends, CLIType
<1>2. CASE Asks(c)
    BY <1>0, <1>2 DEF Asks, CLIType
<1>3. CASE Returns(c)
  <2>1. CASE cli[c].kind \in {"threads", "stack", "break"}
      BY <1>1, <1>3, <2>1 DEF Returns
  <2>2. CASE cli[c].kind \notin {"threads", "stack", "break"}
    <3>1. cli'[c] = [cli[c] EXCEPT !.pc = "printing"]
        BY <1>0, <1>3, <2>2 DEF Returns
    <3> QED
        BY <1>0, <3>1 DEF CLIType
  <2> QED
      BY <2>1, <2>2
<1>4. CASE Prints(c)
    BY <1>1, <1>4 DEF Prints
<1>5. CASE Fails(c)
  <2>1. cli'[c].result = IF cli[c].error THEN "refused" ELSE "timed out"
      BY <1>1, <1>5 DEF Fails
  <2> QED
      BY <1>5, <2>1 DEF Fails
<1> QED
    BY <1>2, <1>3, <1>4, <1>5, CLIMoves

\* A command that ends well prints the answer to its own request, when what it
\* looked at was sent by the reader and nobody else changed the session since the
\* snapshot it measures changes by (RunCommand, LatestEvalResult): what was sent
\* before the answer was stored never satisfies its predicate.
THEOREM OwnAnswer == Spec => PrintsItsAnswer
<1> DEFINE Informative(c) ==
             \A v \in {ended[c], view[c]} \ {NoSnapshot} :
                Undisturbed(c, v) /\ v.by \in Informed(c) /\ ~v.terminal
           Printed(c) == c \in IF cli[c].kind = "vars" THEN view[c].data["vars"].of ELSE printed'[c]
<1>1. ASSUME IInv, Next, NEW c \in CLIs, cli[c].pc # "done", cli'[c].pc = "done",
             cli'[c].result = "ok", Informative(c), ~(cli[c].kind = "break" /\ answered[c].empty)
      PROVE  Printed(c)
  <2>0. /\ Types /\ RequestInv(c) /\ RecordInv(c) /\ SessionInv(c) /\ ViewInv(c) /\ EndedInv(c)
        /\ cli[c] \in CLIType /\ cli[c].baseline \in Nat
        /\ answered[c].version \in Nat
      BY <1>1 DEF IInv, Types, CLIsOK, CLIType
  <2>1. ASSUME Answered(c), view[c] # NoSnapshot, view[c].version >= answered[c].version, Following(c)
        PROVE  Holds(c, view[c]) /\ view[c].version > cli[c].baseline
    <3>1. view[c].version \in Nat
        BY <2>0, <2>1 DEF Types, CLIsOK, ViewType
    <3>2. answered[c].version > cli[c].baseline
        BY <2>0, <2>1 DEF SessionInv
    <3> QED
        BY <2>0, <2>1, <3>1, <3>2 DEF ViewInv
  <2>2. CASE Returns(c) /\ cli[c].pc = "waiting" /\ cli[c].kind \in {"threads", "stack", "break"}
             /\ Satisfied(cli[c].kind, view[c], cli[c].baseline)
             /\ printed'[c] = view[c].data[cli[c].kind].of
    <3>1. view[c] # NoSnapshot /\ view[c].version >= cli[c].baseline /\ ~disturbed[c]
          /\ view[c].by \in Informed(c) /\ ~view[c].terminal
        BY <1>1, <2>0, <2>2 DEF EndedInv, Undisturbed
    <3>2. Following(c)
        BY <2>2, <3>1 DEF Following
    <3>3. CASE cli[c].kind = "break"
      <4>1. view[c].version > cli[c].baseline
        <5>1. view[c].version \in Nat /\ view[c].version # cli[c].baseline
            BY <2>0, <2>2, <3>1 DEF Types, CLIsOK, ViewType, Satisfied
        <5> QED
            BY <2>0, <3>1, <5>1
      <4>2. view[c].by \in {c, Reader}
          BY <3>1, <3>3 DEF Informed
      <4>3. view[c].data["break"] = Mine(c)
          BY <1>1, <2>0, <3>1, <3>2, <3>3, <4>1, <4>2 DEF ViewInv
      <4> QED
          BY <2>2, <3>3, <4>3 DEF Mine
    <3>4. CASE cli[c].kind \in {"threads", "stack"}
      <4>1. view[c].by = Reader
          BY <3>1, <3>4 DEF Informed
      <4>2. Answered(c) /\ view[c].version >= answered[c].version
          BY <2>0, <2>2, <3>1, <3>2, <3>4, <4>1, SatisfiedByAnswer
      <4>3. Holds(c, view[c])
          BY <2>1, <3>1, <3>2, <4>2
      <4>4. view[c].data[cli[c].kind].of = {c}
          BY <3>4, <4>3 DEF Holds
      <4> QED
          BY <2>2, <3>4, <4>4
    <3> QED
        BY <2>2, <3>3, <3>4
  <2>3. CASE Prints(c) /\ cli[c].pc = "printing"
             /\ (cli[c].kind # "vars" => printed'[c] = view[c].data[cli[c].kind].of)
    <3>1. /\ cli[c].kind \in {"scopes", "vars", "eval"}
          /\ ended[c] # NoSnapshot /\ view[c] # NoSnapshot
        BY <2>0, <2>3 DEF EndedInv
    <3>2. ~disturbed[c] /\ ended[c].by = Reader /\ ~ended[c].terminal
          /\ ended[c].version >= cli[c].baseline /\ view[c].by = Reader
        BY <1>1, <3>1 DEF Undisturbed, Informed
    <3>3. Following(c)
        BY <2>3, <3>2 DEF Following
    <3>4. Answered(c) /\ view[c].version >= answered[c].version
        BY <2>0, <2>3, <3>2 DEF EndedInv
    <3>5. Holds(c, view[c]) /\ view[c].version > cli[c].baseline
        BY <2>1, <3>1, <3>3, <3>4
    <3>6. cli[c].kind = "vars" => c \in view[c].data["vars"].of
        BY <2>0, <3>1, <3>2, <3>3, <3>5 DEF ViewInv
    <3>7. cli[c].kind \in {"scopes", "eval"} => view[c].data[cli[c].kind].of = {c}
        BY <3>5 DEF Holds
    <3> QED
        BY <2>3, <3>1, <3>6, <3>7
  <2> QED
      BY <1>1, <2>0, <2>2, <2>3, EndsWell
<1>2. IInv /\ [Next]_vars => [\A c \in CLIs :
        (/\ cli[c].pc # "done" /\ cli'[c].pc = "done" /\ cli'[c].result = "ok"
         /\ Informative(c)
         /\ ~(cli[c].kind = "break" /\ answered[c].empty))
        => Printed(c)]_vars
    BY <1>1
<1> QED
    BY <1>2, Invariance, PTL DEF Spec, PrintsItsAnswer

\* A command never runs into its deadline when a snapshot that shows its answer has
\* reached it and nobody else changed the session (RunCommand's predicates), unless
\* the answer is empty and the predicate asks for a list.
THEOREM NoNeedlessTimeout == Spec => TimesOutUnanswered
<1>1. ASSUME IInv, Next, NEW c \in CLIs, cli[c].pc # "done", cli'[c].pc = "done",
             cli'[c].result = "timed out", Undisturbed(c, view[c]),
             answered[c] # Unanswered, view[c].version >= answered[c].version
      PROVE  answered[c].empty /\ cli[c].kind \in {"threads", "scopes", "break"}
  <2>0. /\ Types /\ SessionInv(c) /\ ViewInv(c) /\ EndedInv(c)
        /\ cli[c] \in CLIType /\ cli[c].baseline \in Nat
        /\ answered[c].version \in Nat
      BY <1>1 DEF IInv, Types, CLIsOK, CLIType
  <2>1. Fails(c) /\ cli[c].pc = "waiting" /\ ~Satisfied(cli[c].kind, view[c], cli[c].baseline)
      BY <1>1, <2>0, EndsWell
  <2>2. Following(c) /\ Answered(c)
      BY <1>1, <2>1 DEF Following, Undisturbed, Answered
  <2>3. view[c] # NoSnapshot /\ view[c].version \in Nat
      BY <2>0, <2>1 DEF EndedInv, Types, CLIsOK, ViewType
  <2>4. view[c].version # cli[c].baseline
    <3>1. answered[c].version > cli[c].baseline
        BY <2>0, <2>2 DEF SessionInv
    <3>2. view[c].version >= answered[c].version
        BY <1>1
    <3> QED
        BY <2>0, <2>3, <3>1, <3>2
  <2>5. Holds(c, view[c]) /\ (cli[c].kind = "eval" => view[c].eval)
      BY <1>1, <2>0, <2>2, <2>3 DEF ViewInv
  <2>6. cli[c].kind \in {"threads", "scopes", "stack", "eval", "break"}
      BY <2>1, <2>4 DEF Satisfied
  <2>7. cli[c].kind \notin {"stack", "eval"}
      BY <2>1, <2>4, <2>5 DEF Satisfied, Holds
  <2>8. CASE cli[c].kind \in {"threads", "scopes"}
    <3>1. view[c].data[cli[c].kind].empty
        BY <2>1, <2>4, <2>8 DEF Satisfied
    <3> QED
        BY <2>5, <2>8, <3>1 DEF Holds
  <2>9. CASE cli[c].kind = "break"
    <3>1. view[c].data["break"].empty
        BY <2>1, <2>4, <2>9 DEF Satisfied
    <3> QED
        BY <2>5, <2>9, <3>1 DEF Holds, Mine
  <2> QED
      BY <2>6, <2>7, <2>8, <2>9
<1>2. IInv /\ [Next]_vars => [\A c \in CLIs :
        (/\ cli[c].pc # "done" /\ cli'[c].pc = "done" /\ cli'[c].result = "timed out"
         /\ Undisturbed(c, view[c])
         /\ answered[c] # Unanswered /\ view[c].version >= answered[c].version)
        => answered[c].empty /\ cli[c].kind \in {"threads", "scopes", "break"}]_vars
    BY <1>1
<1> QED
    BY <1>2, Invariance, PTL DEF Spec, TimesOutUnanswered

=============================================================================
