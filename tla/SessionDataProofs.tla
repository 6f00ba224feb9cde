-------------------------- MODULE SessionDataProofs --------------------------
(***************************************************************************)
(* Proofs about SessionData, for any number of handlers, requests and      *)
(* sessions: what a session shows as the answer to a query answers it, its *)
(* Extra is its own, the breakpoints it lists are set, and its output is   *)
(* the newest of what was printed, with at most one stray chunk per older  *)
(* session.                                                                *)
(*                                                                         *)
(* The first three are true because, as long as nothing overlapped, one    *)
(* query or breakpoint request is followed from the handler that noted it  *)
(* over the adapter to the reader; IInv says where it is.  HistoryInv, in  *)
(* the second part, is about the output.                                   *)
(***************************************************************************)
EXTENDS SessionData, SequenceTheorems, FiniteSetTheorems, WellFoundedInduction, TLAPS

Places ==
    {"idle", "writing", "updating", "sending", "storing", "answering", "encoding"}

ExtraType ==
    [launch : {Nil} \cup Sessions, waiting : {Nil} \cup Sessions,
     stackTrace : [of : Int, done : BOOLEAN, answer : Int],
     evaluate : {Nil} \cup EvalMaps]

EvalType == [done : BOOLEAN, answer : Int]

BreakpointsType == [in : SUBSET Sources, verified : BOOLEAN]

RequestType ==
    [id : Nat, kind : RequestKinds \cup {"none"}, source : Sources \cup {"none"},
     ref : {Nil} \cup Sessions, held : {Nil} \cup EvalMaps]

AskType ==
    [id : Int, kind : Queries \cup BreakpointKinds, source : Sources \cup {"none"}]

DataOK ==
    /\ session \in Sessions
    /\ extra \in [Sessions -> ExtraType]
    /\ evals \in [EvalMaps -> EvalType]
    /\ breakpoints \in BreakpointsType

HandlersOK ==
    /\ pc \in [Handlers -> Places]
    /\ request \in [Handlers -> RequestType]
    /\ \A h \in Handlers :
         request[h].kind \in BreakpointKinds => request[h].source \in Sources
    /\ spent.requests \in 0..MaxRequests
    /\ spent \in [requests : {spent.requests}, outputs : {spent.outputs},
                  events : {spent.events}]

AdapterOK ==
    /\ asked \subseteq AskType
    /\ \A a \in asked : a.kind \in BreakpointKinds => a.source \in Sources
    /\ armed \subseteq Sources
    /\ reader.breakpoints \in BreakpointsType

\* (What was printed, and how much of the other bounds is used, is left open.)
PastOK ==
    past \in [printed : {past.printed}, mixed : SUBSET RequestKinds,
              lost : SUBSET {"output", "breakpoints"}, spanned : BOOLEAN,
              refused : BOOLEAN, source : Sources \cup {"none"}]
Types == DataOK /\ HandlersOK /\ AdapterOK /\ PastOK

\* The request a handler is in the middle of.
Serves(h) == pc[h] \notin {"idle", "encoding"}

\* Requests have numbers of their own.
RequestsInv ==
    \A h \in Handlers :
        /\ ~Serves(h) => request[h].id = Nil /\ request[h].kind = "none"
        /\ Serves(h) => /\ request[h].id \in 1..spent.requests
                        /\ request[h].ref \in 1..session
                        /\ request[h].kind \in Queries \cup BreakpointKinds
        /\ pc[h] \in {"writing", "updating"} => request[h].kind \in Queries
        /\ pc[h] = "storing" => request[h].kind \in BreakpointKinds
        /\ \A k \in Handlers \ {h} :
             request[h].id # Nil => request[h].id # request[k].id

\* What is asked under a number is what the handler sent that has it.
AsksInv ==
    \A a \in asked :
        /\ a.id <= spent.requests
        /\ a.id <= 0 => a.kind = "stackTrace" /\ a.id \in OwnRequests
        /\ \A h \in Handlers : a.id = request[h].id /\ a.id # Nil =>
             /\ pc[h] \in {"storing", "answering"}
             /\ pc[h] = "storing" => a.kind = request[h].kind

IdsInv == RequestsInv /\ AsksInv

\* The Extra of sessions to come is untouched; while no query of an older session
\* is under way, that of this session is written by its own requests.
KeysInv ==
    /\ \A g \in Sessions : g > session => extra[g] = FreshExtra(g)
    /\ ~past.spanned =>
         \A h \in Handlers : pc[h] \in {"writing", "updating"} => request[h].ref = session
    /\ ExtraIsOwn

\* Nothing was put into the map of evaluate request i.
Unused(i) ==
    evals[i] = Unanswered /\ \A g \in Sessions : extra[g].evaluate # i

FreshInv ==
    /\ \A i \in (spent.requests + 1)..MaxRequests : Unused(i)
    /\ \A h \in Handlers :
         pc[h] = "writing" /\ request[h].kind = "evaluate" => Unused(request[h].id)

\* The session shows query id as the last one of its kind.
Noted(kind, id) ==
    /\ kind = "evaluate" => extra[session].evaluate = id
    /\ kind = "stackTrace" => extra[session].stackTrace.of = id

\* One query of the kind is on its way to the adapter or with it; of those the
\* daemon makes by itself there may be two.
Lone(kind) ==
    /\ \A h, k \in Preparing({kind}) : h = k
    /\ \A h \in Preparing({kind}) : \A a \in asked : a.kind # kind
    /\ \A a, b \in asked : a.kind = kind /\ b.kind = kind =>
         a = b \/ (a.id \in OwnRequests /\ b.id \in OwnRequests)

\* It is noted from the handler's write on.
Followed(kind) ==
    /\ \A h \in Handlers : pc[h] \in {"updating", "sending"} /\ request[h].kind = kind =>
         Noted(kind, request[h].id)
    /\ \A a \in asked : a.kind = kind /\ a.id \notin OwnRequests => Noted(kind, a.id)

NotedInv ==
    \A kind \in Queries : kind \notin past.mixed =>
        Lone(kind) /\ (~past.spanned => Followed(kind))

\* The breakpoint requests the adapter has to answer, and one at a time.
BreakpointAsks == {a \in asked : a.kind \in BreakpointKinds}

LoneBreakpoint ==
    /\ \A h, k \in Preparing(BreakpointKinds) : h = k
    /\ \A a, b \in BreakpointAsks : a = b
    /\ \A h \in Preparing(BreakpointKinds), a \in BreakpointAsks :
         a = [id |-> request[h].id, kind |-> request[h].kind, source |-> request[h].source]

\* What is stored for a request until its answer.
Requested(a) ==
    IF a.kind = "set" THEN [in |-> {a.source}, verified |-> FALSE] ELSE NoBreakpoints

\* The list is what the adapter did, if it did what it was asked.
Agree ==
    /\ breakpoints.verified => breakpoints.in # {} /\ breakpoints.in \subseteq armed
    /\ ~past.refused =>
         /\ breakpoints.in = armed \cap {past.source}
         /\ breakpoints.in # {} => breakpoints.verified

\* A clear that is answered before it is stored left nothing set, unless refused.
ClearedEarly ==
    \A h \in Preparing(BreakpointKinds) :
        pc[h] = "storing" /\ request[h].kind = "clear" /\ BreakpointAsks = {} /\ ~past.refused
            => past.source \notin armed

\* A request that is stored but not answered is what is listed; with no request
\* under way the list agrees with the adapter.
ListedInv ==
    past.mixed \cap BreakpointKinds = {} =>
        /\ LoneBreakpoint
        /\ "breakpoints" \notin past.lost =>
             /\ Preparing(BreakpointKinds) = {} =>
                  /\ \A a \in BreakpointAsks : breakpoints = Requested(a)
                  /\ BreakpointAsks = {} => Agree
             /\ ClearedEarly

IInv ==
    /\ Types /\ IdsInv /\ KeysInv /\ FreshInv /\ NotedInv /\ ListedInv
    /\ AnswersItsRequest

-----------------------------------------------------------------------------
(* Types *)

LEMMA Numbers ==
    /\ Sessions \subseteq Nat \ {0}
    /\ \A g \in Sessions : MaxRequests + g \in EvalMaps /\ MaxRequests + g # Nil
    /\ 1..MaxRequests \subseteq EvalMaps
    /\ \A e \in EvalMaps : e \in Nat /\ e # Nil
BY SizesAssumption DEF Sessions, EvalMaps, Nil

LEMMA FreshType ==
    ASSUME NEW g \in {Nil} \cup Sessions
    PROVE  FreshExtra(g) \in ExtraType
BY DEF FreshExtra, ExtraType, NoStack, Nil

\* The first state is well typed.
LEMMA TypesInit == Init => Types
<1> SUFFICES ASSUME Init PROVE Types
    OBVIOUS
<1>1. DataOK
    BY SizesAssumption, FreshType
    DEF Init, DataOK, Sessions, EvalType, Unanswered, NoBreakpoints, BreakpointsType, Nil
<1>2. HandlersOK
    BY SizesAssumption
    DEF Init, HandlersOK, Places, RequestType, NoRequest, BreakpointKinds, Nil
<1>3. AdapterOK
    BY DEF Init, AdapterOK, AskType, IdleReader, NoBreakpoints, BreakpointsType
<1>4. PastOK
    BY DEF Init, PastOK
<1> QED
    BY <1>1, <1>2, <1>3, <1>4 DEF Types

\* A handler that serves has a request that the types allow.
LEMMA Served ==
    ASSUME Types, IdsInv, NEW h \in Handlers, Serves(h)
    PROVE  /\ request[h] \in RequestType
           /\ request[h].id \in 1..MaxRequests
           /\ request[h].id \in EvalMaps
           /\ request[h].id # Nil
           /\ request[h].ref \in Sessions
           /\ request[h].kind \in Queries \cup BreakpointKinds
<1>1. request[h].id \in 1..spent.requests /\ request[h].ref \in 1..session
    BY DEF IdsInv, RequestsInv
<1>2. spent.requests \in 0..MaxRequests /\ session \in Sessions
    BY DEF Types, HandlersOK, DataOK
<1>3. request[h].id \in 1..MaxRequests /\ request[h].ref \in Sessions
    BY <1>1, <1>2, SizesAssumption DEF Sessions
<1> QED
    BY <1>3, Numbers DEF Types, HandlersOK, IdsInv, RequestsInv, Nil

LEMMA TypesNext ==
    ASSUME Types, IdsInv, Next
    PROVE  Types'
<1> USE DEF Types
<1>1. CASE \E h \in Handlers : HandlerStep(h)
  <2> PICK h \in Handlers : HandlerStep(h)
      BY <1>1
  <2>1. ASSUME NEW kind \in Requests \cap (Queries \cup BreakpointKinds),
               NEW s \in Sources \cup {"none"},
               kind \in BreakpointKinds => s \in Sources, Begins(h, kind, s)
        PROVE  Types'
    <3>1. DataOK' /\ AdapterOK'
        BY <2>1 DEF Begins, DataOK, AdapterOK, dataVars, adapterVars
    <3>2. HandlersOK'
      <4>1. spent'.requests = spent.requests + 1 /\ spent.requests \in 0..MaxRequests
            /\ spent.requests < MaxRequests
          BY <2>1 DEF Begins, HandlersOK
      <4>2. spent'.requests \in 0..MaxRequests
          BY <4>1, SizesAssumption
      <4>3. spent' \in [requests : {spent'.requests}, outputs : {spent'.outputs},
                        events : {spent'.events}]
          BY <2>1 DEF Begins, HandlersOK
      <4>4. pc' \in [Handlers -> Places]
          BY <2>1 DEF Begins, HandlersOK, Goto, Places
      <4>5. request' \in [Handlers -> RequestType]
          BY <2>1, <4>1, KindsAssumption DEF Begins, HandlersOK, RequestType, DataOK, Nil, RequestKinds
      <4>6. \A k \in Handlers : request'[k].kind \in BreakpointKinds => request'[k].source \in Sources
        <5>1. kind \in BreakpointKinds => s \in Sources
            BY <2>1
        <5> QED
            BY <2>1, <5>1 DEF Begins, HandlersOK
      <4> QED
          BY <4>2, <4>3, <4>4, <4>5, <4>6 DEF HandlersOK
    <3>3. PastOK'
      <4>1. Rivals(kind) \subseteq RequestKinds
          BY DEF Rivals, RequestKinds, Queries, BreakpointKinds
      <4>2. past' = [past EXCEPT !.mixed = past.mixed \cup Rivals(kind)] \/ past' = past
          BY <2>1 DEF Begins, PastOK
      <4> QED
          BY <4>1, <4>2 DEF PastOK
    <3> QED
        BY <3>1, <3>2, <3>3
  <2>2. ASSUME Attaches(h) PROVE Types'
    <3>1. session + 1 \in Sessions /\ session' = session + 1
        BY <2>2, SizesAssumption DEF Attaches, Reset, DataOK, Sessions
    <3>2. DataOK'
        BY <2>2, <3>1, FreshType
        DEF Attaches, Reset, DataOK, NoBreakpoints, BreakpointsType
    <3>3. HandlersOK' /\ AdapterOK'
        BY <2>2 DEF Attaches, HandlersOK, AdapterOK
    <3>4. \A g \in Preparing(RequestKinds) : Rivals(request[g].kind) \subseteq RequestKinds
        BY DEF Preparing, Rivals, RequestKinds, Queries, BreakpointKinds
    <3>5. PastOK'
        BY <2>2, <3>4 DEF Attaches, PastOK
    <3> QED
        BY <3>2, <3>3, <3>5
  <2>3. ASSUME Writes(h) PROVE Types'
    <3>1. request[h].ref \in Sessions /\ request[h].id \in EvalMaps /\ request[h].id \in Int
        BY <2>3, Served, Numbers DEF Writes, Serves
    <3>2. extra' \in [Sessions -> ExtraType]
      <4>1. CASE request[h].kind = "evaluate"
          BY <2>3, <3>1, <4>1 DEF Writes, DataOK, ExtraType
      <4>2. CASE request[h].kind # "evaluate"
        <5>1. [NoStack EXCEPT !.of = request[h].id] \in [of : Int, done : BOOLEAN, answer : Int]
          <6>1. NoStack \in [of : Int, done : BOOLEAN, answer : Int]
              BY DEF NoStack, Nil
          <6> QED
              BY <3>1, <6>1
        <5>2. extra' = [extra EXCEPT ![request[h].ref].stackTrace =
                                        [NoStack EXCEPT !.of = request[h].id]]
            BY <2>3, <4>2 DEF Writes
        <5> QED
            BY <3>1, <5>1, <5>2 DEF DataOK, ExtraType
      <4> QED
          BY <4>1, <4>2
    <3> QED
        BY <2>3, <3>2 DEF Writes, DataOK, HandlersOK, AdapterOK, PastOK, adapterVars, Goto, Places
  <2>4. ASSUME Updates(h) PROVE Types'
    <3>1. request[h].ref \in Sessions
        BY <2>4, Served DEF Updates, Serves
    <3>2. extra' \in [Sessions -> ExtraType]
      <4> DEFINE old == extra[request[h].ref]
                 empty == FreshExtra(Nil)
                 copy == [key \in DOMAIN extra[session] |->
                             IF old[key] # empty[key] THEN old[key] ELSE extra[session][key]]
      <4>1. extra' = [extra EXCEPT ![session] = copy]
          BY <2>4 DEF Updates, DataOK
      <4>2. old \in ExtraType /\ extra[session] \in ExtraType
          BY <3>1 DEF DataOK
      <4>3. copy \in ExtraType
        <5> HIDE DEF old, empty
        <5>1. DOMAIN extra[session] = {"launch", "waiting", "stackTrace", "evaluate"}
            BY <4>2 DEF ExtraType
        <5>2. copy = [launch |-> copy.launch, waiting |-> copy.waiting,
                      stackTrace |-> copy.stackTrace, evaluate |-> copy.evaluate]
            BY <5>1
        <5>3. /\ copy.launch \in {Nil} \cup Sessions
              /\ copy.waiting \in {Nil} \cup Sessions
              /\ copy.stackTrace \in [of : Int, done : BOOLEAN, answer : Int]
              /\ copy.evaluate \in {Nil} \cup EvalMaps
            BY <4>2, <5>1 DEF ExtraType
        <5> QED
            BY <5>2, <5>3 DEF ExtraType
      <4> QED
          BY <4>1, <4>3 DEF DataOK
    <3> QED
        BY <2>4, <3>2 DEF Updates, DataOK, HandlersOK, AdapterOK, PastOK, adapterVars, Goto, Places
  <2>5. ASSUME Sends(h) PROVE Types'
    <3>1. asked' \subseteq AskType
        BY <2>5, Served, Numbers DEF Sends, AdapterOK, AskType, RequestType, Serves
    <3> QED
        BY <2>5, <3>1 DEF Sends, dataVars, DataOK, HandlersOK, AdapterOK, PastOK, Goto, Places
  <2>6. ASSUME StoresBreakpoints(h) PROVE Types'
    <3>1. breakpoints' \in BreakpointsType
      <4>1. CASE request[h].kind = "set"
        <5>1. request[h].source \in Sources
            BY <4>1 DEF HandlersOK, BreakpointKinds
        <5> QED
            BY <2>6, <4>1, <5>1 DEF StoresBreakpoints, BreakpointsType
      <4>2. CASE request[h].kind # "set"
          BY <2>6, <4>2 DEF StoresBreakpoints, BreakpointsType, NoBreakpoints
      <4> QED
          BY <4>1, <4>2
    <3> QED
        BY <2>6, <3>1
        DEF StoresBreakpoints, DataOK, HandlersOK, AdapterOK, PastOK, adapterVars, Goto, Places
  <2>7. ASSUME Answers(h) \/ Encoded(h) PROVE Types'
    <3>1. request' \in [Handlers -> RequestType]
        BY <2>7 DEF Answers, Encoded, HandlersOK, DataOK, ExtraType, RequestType, NoRequest, Nil
    <3>2. \A k \in Handlers : request'[k].kind \in BreakpointKinds => request'[k].source \in Sources
        BY <2>7 DEF Answers, Encoded, HandlersOK, NoRequest, BreakpointKinds
    <3> QED
        BY <2>7, <3>1, <3>2
        DEF Answers, Encoded, dataVars, adapterVars, DataOK, HandlersOK, AdapterOK, PastOK,
            Goto, Places
  <2>8. ASSUME NEW kind \in Requests \cap Queries, Begins(h, kind, "none") PROVE Types'
      BY <2>1, <2>8 DEF Queries, BreakpointKinds
  <2>9. ASSUME NEW kind \in Requests \cap BreakpointKinds, NEW s \in Sources, Begins(h, kind, s)
        PROVE  Types'
      BY <2>1, <2>9
  <2> QED
      BY <2>2, <2>3, <2>4, <2>5, <2>6, <2>7, <2>8, <2>9 DEF HandlerStep
<1>2. ASSUME NEW a \in asked, StackArrives(a) PROVE Types'
  <2>1. a.id \in Int /\ asked' \subseteq asked
      BY <1>2 DEF StackArrives, Response, AdapterOK, AskType
  <2> DEFINE stack == [of |-> extra[session].stackTrace.of, done |-> TRUE, answer |-> a.id]
  <2>2. extra' \in [Sessions -> ExtraType]
    <3>1. stack \in [of : Int, done : BOOLEAN, answer : Int]
        BY <2>1 DEF DataOK, ExtraType
    <3>2. extra' = [extra EXCEPT ![session].stackTrace = stack]
        BY <1>2 DEF StackArrives, DataOK, ExtraType
    <3> HIDE DEF stack
    <3> QED
        BY <3>1, <3>2 DEF DataOK, ExtraType
  <2> QED
      BY <1>2, <2>1, <2>2 DEF StackArrives, DataOK, HandlersOK, AdapterOK, PastOK
<1>3. ASSUME NEW a \in asked, EvaluationArrives(a) PROVE Types'
  <2> DEFINE e == IF extra[session].evaluate # Nil THEN extra[session].evaluate
                  ELSE MaxRequests + session
  <2>1. a.id \in Int /\ asked' \subseteq asked
      BY <1>3 DEF EvaluationArrives, Response, AdapterOK, AskType
  <2>2. e \in EvalMaps
      BY Numbers DEF DataOK, ExtraType
  <2>3. extra' = [extra EXCEPT ![session].evaluate = e]
        /\ evals' = [evals EXCEPT ![e] = [done |-> TRUE, answer |-> a.id]]
        /\ reader'.breakpoints = NoBreakpoints
      BY <1>3 DEF EvaluationArrives, IdleReader
  <2> HIDE DEF e
  <2>4. extra' \in [Sessions -> ExtraType] /\ evals' \in [EvalMaps -> EvalType]
      BY <2>1, <2>2, <2>3 DEF DataOK, ExtraType, EvalType
  <2>5. DataOK' /\ HandlersOK' /\ PastOK'
      BY <1>3, <2>4 DEF EvaluationArrives, DataOK, HandlersOK, PastOK
  <2>6. AdapterOK'
    <3>1. armed' = armed
        BY <1>3 DEF EvaluationArrives
    <3> QED
        BY <2>1, <2>3, <3>1 DEF AdapterOK, NoBreakpoints, BreakpointsType
  <2> QED
      BY <2>5, <2>6
<1>4. ASSUME NEW a \in asked, BreakpointsArrive(a) \/ EmptyArrives(a) PROVE Types'
  <2>1. a.source \in Sources /\ asked' \subseteq asked
      BY <1>4 DEF BreakpointsArrive, EmptyArrives, Response, AdapterOK, BreakpointKinds
  <2>2. /\ breakpoints' \in BreakpointsType /\ armed' \subseteq Sources
        /\ \E refused \in BOOLEAN : Outcome(a, refused)
    <3>1. CASE BreakpointsArrive(a)
      <4>1. PICK verified \in BOOLEAN :
              /\ breakpoints' = [in |-> {a.source}, verified |-> verified]
              /\ armed' = IF verified THEN armed \cup {a.source} ELSE armed \ {a.source}
              /\ Outcome(a, ~verified)
          BY <3>1 DEF BreakpointsArrive
      <4>2. (~verified) \in BOOLEAN
          OBVIOUS
      <4>3. armed' \subseteq Sources
          BY <2>1, <4>1 DEF AdapterOK
      <4> QED
          BY <2>1, <4>1, <4>2, <4>3 DEF BreakpointsType
    <3>2. CASE EmptyArrives(a)
      <4>1. PICK kept \in BOOLEAN :
              /\ armed' = IF kept THEN armed ELSE armed \ {a.source}
              /\ Outcome(a, a.kind = "set" \/ a.source \in armed')
          BY <3>2 DEF EmptyArrives
      <4>2. (a.kind = "set" \/ a.source \in armed') \in BOOLEAN
          OBVIOUS
      <4>3. breakpoints' = breakpoints /\ armed' \subseteq Sources
          BY <3>2, <4>1 DEF EmptyArrives, dataVars, AdapterOK
      <4> QED
          BY <4>1, <4>2, <4>3 DEF DataOK
    <3> QED
        BY <1>4, <3>1, <3>2
  <2>3. reader'.breakpoints \in BreakpointsType
      BY <1>4 DEF BreakpointsArrive, EmptyArrives, DataOK, AdapterOK, IdleReader
  <2>4. PastOK'
      BY <2>1, <2>2 DEF Outcome, PastOK
  <2>5. HandlersOK'
    <3>1. pc' = pc /\ request' = request
        BY <1>4 DEF BreakpointsArrive, EmptyArrives
    <3> QED
        BY <2>2, <3>1 DEF Outcome, HandlersOK
  <2>6. DataOK'
      BY <1>4, <2>2 DEF BreakpointsArrive, EmptyArrives, dataVars, DataOK
  <2> QED
      BY <2>1, <2>2, <2>3, <2>4, <2>5, <2>6 DEF AdapterOK
<1>5. ASSUME Outputs \/ WaitsForServer PROVE Types'
  <2>1. DataOK'
    <3>1. CASE Outputs
        BY <3>1 DEF Outputs, DataOK
    <3>2. CASE WaitsForServer
        BY <3>2 DEF WaitsForServer, DataOK, ExtraType
    <3> QED
        BY <1>5, <3>1, <3>2
  <2>2. HandlersOK'
      BY <1>5 DEF Outputs, WaitsForServer, HandlersOK
  <2>3. AdapterOK'
      BY <1>5 DEF Outputs, WaitsForServer, AdapterOK, adapterVars
  <2>4. PastOK'
      BY <1>5 DEF Outputs, WaitsForServer, RecordOutput, PastOK
  <2> QED
      BY <2>1, <2>2, <2>3, <2>4
<1>6. ASSUME Stops PROVE Types'
  <2>1. asked' \subseteq AskType
        /\ \A a \in asked' : a.kind \in BreakpointKinds => a.source \in Sources
      BY <1>6 DEF Stops, AdapterOK, AskType, OwnRequests, Queries, BreakpointKinds
  <2>2. PastOK'
      BY <1>6 DEF Stops, PastOK, RequestKinds, Queries
  <2> QED
      BY <1>6, <2>1, <2>2 DEF Stops, dataVars, DataOK, HandlersOK, AdapterOK
<1>7. ASSUME StoresEvaluation \/ StoresClearing PROVE Types'
  <2>1. DataOK' /\ HandlersOK'
    <3>1. CASE StoresEvaluation
        BY <3>1 DEF StoresEvaluation, DataOK, HandlersOK
    <3>2. CASE StoresClearing
        BY <3>2 DEF StoresClearing, DataOK, HandlersOK, AdapterOK
    <3> QED
        BY <1>7, <3>1, <3>2
  <2>2. AdapterOK'
    <3>1. reader' = IdleReader /\ asked' = asked /\ armed' = armed
        BY <1>7 DEF StoresEvaluation, StoresClearing, adapterVars
    <3>2. reader'.breakpoints \in BreakpointsType
        BY <3>1 DEF IdleReader, NoBreakpoints, BreakpointsType
    <3> QED
        BY <3>1, <3>2 DEF AdapterOK
  <2>3. PastOK'
    <3>1. CASE StoresEvaluation
        BY <3>1 DEF StoresEvaluation, PastOK
    <3>2. CASE StoresClearing
        BY <3>2 DEF StoresClearing, PastOK
    <3> QED
        BY <1>7, <3>1, <3>2
  <2> QED
      BY <2>1, <2>2, <2>3
<1>8. ASSUME NEW g \in Sessions, StderrReads(g) \/ StderrRecords(g) PROVE Types'
  <2>1. DataOK' /\ AdapterOK'
      BY <1>8 DEF StderrReads, StderrRecords, RecordOutput, dataVars, adapterVars, DataOK, AdapterOK
  <2>2. HandlersOK'
      BY <1>8 DEF StderrReads, StderrRecords, HandlersOK
  <2>3. PastOK'
      BY <1>8 DEF StderrReads, StderrRecords, RecordOutput, PastOK
  <2> QED
      BY <2>1, <2>2, <2>3
<1>9. ASSUME MapFault PROVE Types'
    BY <1>9 DEF MapFault, dataVars, adapterVars, DataOK, HandlersOK, AdapterOK, PastOK
<1> QED
    BY <1>1, <1>2, <1>3, <1>4, <1>5, <1>6, <1>7, <1>8, <1>9 DEF Next, ReaderStep

-----------------------------------------------------------------------------
(* The numbers of the requests *)

\* What the reader, the stderrReaders and a fault leave to the handlers.
Elsewhere ==
    /\ pc' = pc /\ request' = request /\ session' = session
    /\ spent'.requests = spent.requests

Aside ==
    \/ ReaderStep
    \/ \E g \in Sessions : StderrReads(g) \/ StderrRecords(g)
    \/ MapFault

LEMMA AsideFrame ==
    ASSUME Types, Aside
    PROVE  /\ Elsewhere
           /\ \A a \in asked' : \/ a \in asked
                                \/ a.kind = "stackTrace" /\ a.id \in OwnRequests
<1> USE DEF Elsewhere
<1>0. spent \in [requests : {spent.requests}, outputs : {spent.outputs},
                 events : {spent.events}]
    BY DEF Types, HandlersOK
<1>1. CASE \E a \in asked :
             StackArrives(a) \/ EvaluationArrives(a) \/ BreakpointsArrive(a) \/ EmptyArrives(a)
    BY <1>0, <1>1 DEF StackArrives, EvaluationArrives, BreakpointsArrive, EmptyArrives, Outcome,
                      Response, dataVars
<1>2. CASE Outputs \/ WaitsForServer
    BY <1>2, <1>0 DEF Outputs, WaitsForServer, adapterVars
<1>3. CASE Stops
    BY <1>3, <1>0 DEF Stops, dataVars
<1>4. CASE StoresEvaluation \/ StoresClearing
    BY <1>4 DEF StoresEvaluation, StoresClearing, adapterVars
<1>5. CASE \E g \in Sessions : StderrReads(g) \/ StderrRecords(g)
    BY <1>5, <1>0 DEF StderrReads, StderrRecords, dataVars, adapterVars
<1>6. CASE MapFault
    BY <1>6 DEF MapFault, dataVars, adapterVars
<1> QED
    BY <1>1, <1>2, <1>3, <1>4, <1>5, <1>6 DEF Aside, ReaderStep

LEMMA IdsInit == Init => IdsInv
<1> SUFFICES ASSUME Init PROVE IdsInv
    OBVIOUS
<1> QED
    BY DEF Init, IdsInv, RequestsInv, AsksInv, NoRequest, Serves, Nil

LEMMA IdsNext ==
    ASSUME Types, IdsInv, Next
    PROVE  IdsInv'
<1> USE DEF IdsInv
<1>0. spent.requests \in Nat /\ session \in Nat
      /\ request \in [Handlers -> RequestType] /\ pc \in [Handlers -> Places]
    BY Numbers DEF Types, HandlersOK, DataOK
<1>1. ASSUME Aside PROVE IdsInv'
  <2>1. RequestsInv'
      BY <1>1, AsideFrame DEF Elsewhere, RequestsInv, Serves
  <2>2. AsksInv'
    <3> SUFFICES ASSUME NEW a \in asked'
                 PROVE  /\ a.id <= spent'.requests
                        /\ a.id <= 0 => a.kind = "stackTrace" /\ a.id \in OwnRequests
                        /\ \A h \in Handlers : a.id = request'[h].id /\ a.id # Nil =>
                             /\ pc'[h] \in {"storing", "answering"}
                             /\ pc'[h] = "storing" => a.kind = request'[h].kind
        BY DEF AsksInv
    <3>1. CASE a \in asked
        BY <3>1, <1>1, AsideFrame DEF Elsewhere, AsksInv
    <3>2. CASE a.kind = "stackTrace" /\ a.id \in OwnRequests
        BY <3>2, <1>0, <1>1, AsideFrame DEF Elsewhere, OwnRequests, RequestType, Nil
    <3> QED
        BY <3>1, <3>2, <1>1, AsideFrame
  <2> QED
      BY <2>1, <2>2
<1>2. ASSUME NEW h \in Handlers, NEW kind \in Queries \cup BreakpointKinds,
             NEW s \in Sources \cup {"none"}, Begins(h, kind, s)
      PROVE  IdsInv'
  <2>1. /\ spent'.requests = spent.requests + 1 /\ session' = session /\ asked' = asked
        /\ pc[h] = "idle"
        /\ pc'[h] = IF kind \in Queries THEN "writing" ELSE "sending"
        /\ \A k \in Handlers \ {h} : pc'[k] = pc[k] /\ request'[k] = request[k]
        /\ request'[h].id = spent.requests + 1 /\ request'[h].kind = kind
        /\ request'[h].ref = session
      BY <1>2, <1>0 DEF Begins, Goto, dataVars, adapterVars, Types, HandlersOK
  <2>2. session \in 1..session
      BY Numbers DEF Types, DataOK
  <2>3. \A k \in Handlers : request[k].id \in 0..spent.requests
      BY <1>0 DEF RequestsInv, Nil
  <2>4. RequestsInv'
    <3> SUFFICES ASSUME NEW k \in Handlers
                 PROVE  /\ ~Serves(k)' => request'[k].id = Nil /\ request'[k].kind = "none"
                        /\ Serves(k)' => /\ request'[k].id \in 1..spent'.requests
                                         /\ request'[k].ref \in 1..session'
                                         /\ request'[k].kind \in Queries \cup BreakpointKinds
                        /\ pc'[k] \in {"writing", "updating"} => request'[k].kind \in Queries
                        /\ pc'[k] = "storing" => request'[k].kind \in BreakpointKinds
                        /\ \A l \in Handlers \ {k} :
                             request'[k].id # Nil => request'[k].id # request'[l].id
        BY DEF RequestsInv
    <3>1. CASE k = h
        BY <3>1, <2>1, <2>2, <2>3, <1>0 DEF Serves, Nil
    <3>2. CASE k # h
        BY <3>2, <2>1, <2>2, <2>3, <1>0 DEF Serves, RequestsInv, Nil
    <3> QED
        BY <3>1, <3>2
  <2>5. AsksInv'
    <3>1. \A a \in asked : a.id # spent.requests + 1 /\ a.id <= spent.requests + 1
        BY <1>0 DEF AsksInv, Types, AdapterOK, AskType
    <3> QED
        BY <3>1, <2>1 DEF AsksInv
  <2> QED
      BY <2>4, <2>5
<1>3. ASSUME NEW h \in Handlers, Attaches(h) PROVE IdsInv'
  <2>1. session' = session + 1 /\ pc' = pc /\ request' = request /\ asked' = {}
        /\ spent' = spent
      BY <1>3 DEF Attaches, Reset
  <2>2. \A k \in Handlers : request[k].ref \in 1..session => request[k].ref \in 1..(session + 1)
      BY <1>0
  <2> QED
      BY <2>1, <2>2 DEF RequestsInv, AsksInv, Serves
<1>4. ASSUME NEW h \in Handlers, Writes(h) \/ Updates(h) \/ StoresBreakpoints(h)
      PROVE  IdsInv'
  <2>1. /\ session' = session /\ request' = request /\ asked' = asked /\ spent' = spent
        /\ pc' = [pc EXCEPT ![h] = IF pc[h] = "writing" THEN "updating"
                                   ELSE IF pc[h] = "updating" THEN "sending" ELSE "answering"]
        /\ pc[h] \in {"writing", "updating", "storing"}
      BY <1>4 DEF Writes, Updates, StoresBreakpoints, Goto, adapterVars
  <2>2. RequestsInv'
      BY <2>1, <1>0 DEF RequestsInv, Serves
  <2>3. AsksInv'
      BY <2>1, <1>0 DEF AsksInv
  <2> QED
      BY <2>2, <2>3
<1>5. ASSUME NEW h \in Handlers, Sends(h) PROVE IdsInv'
  <2>1. /\ session' = session /\ request' = request /\ spent' = spent
        /\ pc[h] = "sending"
        /\ pc' = [pc EXCEPT ![h] = IF request[h].kind \in Queries THEN "answering" ELSE "storing"]
        /\ asked' = asked \cup {[id |-> request[h].id, kind |-> request[h].kind,
                                 source |-> request[h].source]}
      BY <1>5 DEF Sends, Goto, dataVars
  <2>2. request[h].kind \in Queries \cup BreakpointKinds /\ request[h].id \in 1..spent.requests
      BY <2>1 DEF RequestsInv, Serves
  <2>3. RequestsInv'
      BY <2>1, <2>2, <1>0 DEF RequestsInv, Serves
  <2>4. AsksInv'
    <3> SUFFICES ASSUME NEW a \in asked'
                 PROVE  /\ a.id <= spent'.requests
                        /\ a.id <= 0 => a.kind = "stackTrace" /\ a.id \in OwnRequests
                        /\ \A k \in Handlers : a.id = request'[k].id /\ a.id # Nil =>
                             /\ pc'[k] \in {"storing", "answering"}
                             /\ pc'[k] = "storing" => a.kind = request'[k].kind
        BY DEF AsksInv
    <3>1. CASE a \in asked
        BY <3>1, <2>1, <1>0 DEF AsksInv
    <3>2. CASE a.id = request[h].id /\ a.kind = request[h].kind
      <4>1. \A k \in Handlers : a.id = request[k].id => k = h
        <5>1. request[h].id # Nil
            BY <2>2, <1>0 DEF Nil
        <5> QED
            BY <5>1, <3>2 DEF RequestsInv
      <4> QED
          BY <3>2, <4>1, <2>1, <2>2, <1>0
    <3> QED
        BY <3>1, <3>2, <2>1
  <2> QED
      BY <2>3, <2>4
<1>6. ASSUME NEW h \in Handlers, Answers(h) \/ Encoded(h) PROVE IdsInv'
  <2>1. /\ session' = session /\ asked' = asked /\ spent' = spent
        /\ pc'[h] \in {"encoding", "idle"}
        /\ request'[h].id = Nil /\ request'[h].kind = "none"
        /\ \A k \in Handlers \ {h} : pc'[k] = pc[k] /\ request'[k] = request[k]
      BY <1>6, <1>0 DEF Answers, Encoded, Goto, dataVars, adapterVars, NoRequest
  <2>2. RequestsInv'
      BY <2>1 DEF RequestsInv, Serves
  <2>3. AsksInv'
      BY <2>1 DEF AsksInv
  <2> QED
      BY <2>2, <2>3
<1>7. ASSUME NEW h \in Handlers, HandlerStep(h) PROVE IdsInv'
    BY <1>2, <1>3, <1>4, <1>5, <1>6, <1>7 DEF HandlerStep
<1> QED
    BY <1>1, <1>7 DEF Next, Aside

-----------------------------------------------------------------------------
(* The keys of a session's own Extra *)

\* Only an attach ends what is remembered of a session's history.
LEMMA HistoryFrame ==
    ASSUME Types, Next, ~\E h \in Handlers : Attaches(h)
    PROVE  /\ past'.spanned = past.spanned /\ session' = session
           /\ past.mixed \subseteq past'.mixed /\ past.lost \subseteq past'.lost
           /\ \/ past'.refused = past.refused /\ past'.source = past.source
              \/ \E a \in asked : BreakpointsArrive(a) \/ EmptyArrives(a)
<1>1. past \in [printed : {past.printed}, mixed : SUBSET RequestKinds,
                lost : SUBSET {"output", "breakpoints"}, spanned : BOOLEAN,
                refused : BOOLEAN, source : Sources \cup {"none"}]
    BY DEF Types, PastOK
<1>2. CASE \E h \in Handlers : HandlerStep(h)
    BY <1>1, <1>2 DEF HandlerStep, Begins, Writes, Updates, Sends, StoresBreakpoints, Answers,
                      Encoded, dataVars
<1>3. CASE \E a \in asked :
             StackArrives(a) \/ EvaluationArrives(a) \/ BreakpointsArrive(a) \/ EmptyArrives(a)
    BY <1>1, <1>3 DEF StackArrives, EvaluationArrives, BreakpointsArrive, EmptyArrives, Outcome,
                      dataVars
<1>4. CASE Outputs \/ WaitsForServer \/ Stops
    BY <1>1, <1>4 DEF Outputs, WaitsForServer, Stops, RecordOutput, dataVars
<1>5. CASE StoresEvaluation \/ StoresClearing
  <2>1. CASE StoresEvaluation
      BY <1>1, <2>1 DEF StoresEvaluation
  <2>2. CASE StoresClearing
      BY <1>1, <2>2 DEF StoresClearing
  <2> QED
      BY <1>5, <2>1, <2>2
<1>6. CASE \E g \in Sessions : StderrReads(g) \/ StderrRecords(g)
    BY <1>1, <1>6 DEF StderrReads, StderrRecords, RecordOutput, dataVars
<1>7. CASE MapFault
    BY <1>7 DEF MapFault, dataVars
<1> QED
    BY <1>2, <1>3, <1>4, <1>5, <1>6, <1>7 DEF Next, ReaderStep

\* Without a query from an older session, Update copies the map onto itself.
LEMMA UpdatesNothing ==
    ASSUME Types, IdsInv, KeysInv, ~past.spanned, NEW h \in Handlers, Updates(h)
    PROVE  extra' = extra
<1>1. request[h].ref = session
    BY DEF KeysInv, Updates
<1> DEFINE empty == FreshExtra(Nil)
           copy == [key \in DOMAIN extra[session] |->
                       IF extra[session][key] # empty[key] THEN extra[session][key]
                       ELSE extra[session][key]]
<1>2. extra' = [extra EXCEPT ![session] = copy]
    BY <1>1 DEF Updates, Types, DataOK
<1>3. extra[session] \in ExtraType
    BY DEF Types, DataOK
<1>4. copy = extra[session]
    BY <1>3 DEF ExtraType
<1> QED
    BY <1>2, <1>4 DEF Types, DataOK

LEMMA KeysInit == Init => KeysInv
<1> SUFFICES ASSUME Init PROVE KeysInv
    OBVIOUS
<1>1. session \in Sessions
    BY SizesAssumption DEF Init, Sessions
<1> QED
    BY <1>1 DEF Init, KeysInv, ExtraIsOwn, FreshExtra

LEMMA KeysNext ==
    ASSUME Types, IdsInv, KeysInv, Next
    PROVE  KeysInv'
<1>0. /\ session \in Sessions /\ session \in Nat /\ extra \in [Sessions -> ExtraType]
      /\ \A g \in Sessions : g \in Nat
      /\ pc \in [Handlers -> Places] /\ request \in [Handlers -> RequestType]
    BY Numbers DEF Types, DataOK, HandlersOK
<1>1. ASSUME NEW h \in Handlers, Attaches(h) PROVE KeysInv'
  <2>1. /\ session' = session + 1 /\ session + 1 \in Sessions
        /\ extra' = [extra EXCEPT ![session + 1] = FreshExtra(session + 1)]
        /\ past'.spanned = (Preparing(Queries) # {})
        /\ pc' = pc /\ request' = request
      BY <1>0, <1>1, SizesAssumption DEF Attaches, Reset, Sessions
  <2>2. \A g \in Sessions : g > session' => extra'[g] = FreshExtra(g)
      BY <1>0, <2>1 DEF KeysInv
  <2>3. ~past'.spanned => \A k \in Handlers : pc'[k] \notin {"writing", "updating"}
      BY <2>1 DEF Preparing, IdsInv, RequestsInv
  <2>4. extra'[session'] = FreshExtra(session')
      BY <1>0, <2>1
  <2>5. ExtraIsOwn'
      BY <2>4 DEF ExtraIsOwn, FreshExtra
  <2> QED
      BY <2>2, <2>3, <2>5 DEF KeysInv
<1>2. ASSUME ~\E h \in Handlers : Attaches(h) PROVE KeysInv'
  <2>1. past'.spanned = past.spanned /\ session' = session
      BY <1>2, HistoryFrame
  <2>2. \A g \in Sessions : g > session => extra'[g] = extra[g]
    <3>1. ASSUME NEW h \in Handlers, Writes(h)
          PROVE  \A g \in Sessions : g > session => extra'[g] = extra[g]
      <4>1. request[h].ref \in 1..session
          BY <3>1 DEF Writes, IdsInv, RequestsInv, Serves
      <4>2. \A g \in Sessions : g # request[h].ref => extra'[g] = extra[g]
          BY <3>1, <1>0 DEF Writes
      <4> QED
          BY <4>1, <4>2, <1>0
    <3>2. ASSUME NEW h \in Handlers, Updates(h)
          PROVE  \A g \in Sessions : g # session => extra'[g] = extra[g]
        BY <3>2, <1>0 DEF Updates
    <3>3. ASSUME NEW h \in Handlers, HandlerStep(h), ~Writes(h), ~Updates(h)
          PROVE  extra' = extra
        BY <3>3, <1>2 DEF HandlerStep, Begins, Sends, StoresBreakpoints, Answers, Encoded, dataVars
    <3>4. ASSUME ReaderStep PROVE \A g \in Sessions : g # session => extra'[g] = extra[g]
        BY <3>4, <1>0
        DEF ReaderStep, Outputs, WaitsForServer, Stops, StackArrives, EvaluationArrives,
            BreakpointsArrive, EmptyArrives, StoresEvaluation, StoresClearing, dataVars
    <3>5. ASSUME (\E g \in Sessions : StderrReads(g) \/ StderrRecords(g)) \/ MapFault
          PROVE  extra' = extra
        BY <3>5 DEF StderrReads, StderrRecords, MapFault, dataVars
    <3> QED
        BY <3>1, <3>2, <3>3, <3>4, <3>5, <1>0 DEF Next
  <2>3. ~past.spanned =>
          \A k \in Handlers : pc'[k] \in {"writing", "updating"} => request'[k].ref = session
    <3> SUFFICES ASSUME ~past.spanned, NEW k \in Handlers, pc'[k] \in {"writing", "updating"}
                 PROVE  request'[k].ref = session
        OBVIOUS
    <3>1. CASE Aside
        BY <3>1, AsideFrame DEF Elsewhere, KeysInv
    <3>2. ASSUME NEW h \in Handlers, NEW kind, NEW s, Begins(h, kind, s)
          PROVE  request'[k].ref = session
        BY <3>2, <1>0 DEF Begins, Goto, KeysInv
    <3>3. ASSUME NEW h \in Handlers,
                 Writes(h) \/ Updates(h) \/ Sends(h) \/ StoresBreakpoints(h) \/ Answers(h) \/ Encoded(h)
          PROVE  request'[k].ref = session
        BY <3>3, <1>0
        DEF Writes, Updates, Sends, StoresBreakpoints, Answers, Encoded, Goto, KeysInv
    <3> QED
        BY <3>1, <3>2, <3>3, <1>2 DEF Next, Aside, HandlerStep
  <2>4. ExtraIsOwn'
    <3> SUFFICES ASSUME ~past.spanned
                 PROVE  /\ extra'[session].launch = extra[session].launch
                        /\ extra'[session].waiting \in {extra[session].waiting, session}
        BY <2>1 DEF ExtraIsOwn, KeysInv
    <3>1. ASSUME NEW h \in Handlers, Writes(h)
          PROVE  /\ extra'[session].launch = extra[session].launch
                 /\ extra'[session].waiting = extra[session].waiting
      <4>1. request[h].ref \in Sessions
          BY <3>1, Served DEF Writes, Serves
      <4>2. extra[session] \in ExtraType
          BY <1>0
      <4> QED
          BY <3>1, <4>1, <4>2, <1>0 DEF Writes, ExtraType
    <3>2. ASSUME NEW h \in Handlers, Updates(h) PROVE extra' = extra
        BY <3>2, UpdatesNothing
    <3>3. ASSUME NEW h \in Handlers, HandlerStep(h), ~Writes(h), ~Updates(h)
          PROVE  extra' = extra
        BY <3>3, <1>2 DEF HandlerStep, Begins, Sends, StoresBreakpoints, Answers, Encoded, dataVars
    <3>4. ASSUME ReaderStep
          PROVE  /\ extra'[session].launch = extra[session].launch
                 /\ extra'[session].waiting \in {extra[session].waiting, session}
      <4>1. extra[session] \in ExtraType
          BY <1>0
      <4>2. CASE WaitsForServer
          BY <4>1, <4>2, <1>0 DEF WaitsForServer, ExtraType
      <4>3. CASE \E a \in asked : StackArrives(a)
          BY <4>1, <4>3, <1>0 DEF StackArrives, ExtraType
      <4>4. CASE \E a \in asked : EvaluationArrives(a)
          BY <4>1, <4>4, <1>0 DEF EvaluationArrives, ExtraType
      <4>5. CASE extra' = extra
          BY <4>5
      <4> QED
          BY <3>4, <4>2, <4>3, <4>4, <4>5
          DEF ReaderStep, Outputs, Stops, BreakpointsArrive, EmptyArrives, StoresEvaluation,
              StoresClearing, dataVars
    <3>5. ASSUME (\E g \in Sessions : StderrReads(g) \/ StderrRecords(g)) \/ MapFault
          PROVE  extra' = extra
        BY <3>5 DEF StderrReads, StderrRecords, MapFault, dataVars
    <3> QED
        BY <3>1, <3>2, <3>3, <3>4, <3>5 DEF Next
  <2> QED
      BY <2>1, <2>2, <2>3, <2>4 DEF KeysInv
<1> QED
    BY <1>1, <1>2

-----------------------------------------------------------------------------
(* The maps of evaluate requests *)

\* A map that nothing was put into stays so but for the request it belongs to.
LEMMA UnusedKept ==
    ASSUME Types, IdsInv, Next, NEW i \in 1..MaxRequests, Unused(i),
           \A h \in Handlers :
               Writes(h) /\ request[h].kind = "evaluate" => request[h].id # i
    PROVE  Unused(i)'
<1>0. /\ session \in Sessions /\ extra \in [Sessions -> ExtraType]
      /\ evals \in [EvalMaps -> EvalType] /\ i \in EvalMaps
      /\ i # Nil /\ i # MaxRequests + session
      /\ extra[session] \in ExtraType /\ extra[session].evaluate # i
      /\ \A g \in Sessions : extra[g] \in ExtraType
    BY Numbers, SizesAssumption DEF Types, DataOK, Unused, Nil
<1>1. ASSUME extra' = extra, evals' = evals PROVE Unused(i)'
    BY <1>1 DEF Unused
<1>2. ASSUME evals' = evals, NEW g \in Sessions, extra'[g].evaluate # i,
             \A k \in Sessions \ {g} : extra'[k] = extra[k]
      PROVE  Unused(i)'
    BY <1>2 DEF Unused
<1>3. ASSUME NEW h \in Handlers, Attaches(h) PROVE Unused(i)'
  <2>1. session + 1 \in Sessions
      BY <1>0, <1>3, SizesAssumption DEF Attaches, Sessions
  <2>2. extra'[session + 1] = FreshExtra(session + 1)
      BY <1>0, <1>3, <2>1 DEF Attaches, Reset
  <2>3. extra'[session + 1].evaluate # i
      BY <2>2, <1>0 DEF FreshExtra
  <2> QED
      BY <1>0, <1>3, <2>1, <2>3, <1>2 DEF Attaches, Reset
<1>4. ASSUME NEW h \in Handlers, Writes(h) PROVE Unused(i)'
  <2>1. request[h].ref \in Sessions /\ extra[request[h].ref].evaluate # i
      BY <1>4, Served DEF Writes, Serves, Unused
  <2>2. extra'[request[h].ref].evaluate # i
      BY <1>0, <1>4, <2>1 DEF Writes, ExtraType
  <2> QED
      BY <1>0, <1>4, <2>1, <2>2, <1>2 DEF Writes
<1>5. ASSUME NEW h \in Handlers, Updates(h) PROVE Unused(i)'
  <2>1. request[h].ref \in Sessions
      BY <1>5, Served DEF Updates, Serves
  <2>2. extra[request[h].ref].evaluate # i
      BY <2>1 DEF Unused
  <2>3. extra'[session].evaluate \in {extra[request[h].ref].evaluate, extra[session].evaluate}
      BY <1>0, <1>5 DEF Updates, ExtraType
  <2> QED
      BY <1>0, <1>5, <2>2, <2>3, <1>2 DEF Updates
<1>6. ASSUME NEW a \in asked, EvaluationArrives(a) PROVE Unused(i)'
  <2> DEFINE e == IF extra[session].evaluate # Nil THEN extra[session].evaluate
                  ELSE MaxRequests + session
  <2>1. e # i /\ e \in EvalMaps
      BY <1>0, Numbers DEF ExtraType
  <2>2. /\ extra' = [extra EXCEPT ![session].evaluate = e]
        /\ evals' = [evals EXCEPT ![e] = [done |-> TRUE, answer |-> a.id]]
      BY <1>6 DEF EvaluationArrives
  <2> HIDE DEF e
  <2>3. evals'[i] = evals[i] /\ extra'[session].evaluate = e
      BY <1>0, <2>1, <2>2 DEF ExtraType
  <2>4. \A g \in Sessions \ {session} : extra'[g] = extra[g]
      BY <1>0, <2>2
  <2> QED
      BY <2>1, <2>3, <2>4 DEF Unused
<1>7. ASSUME WaitsForServer \/ \E a \in asked : StackArrives(a) PROVE Unused(i)'
  <2>1. extra'[session].evaluate = extra[session].evaluate
      BY <1>0, <1>7 DEF WaitsForServer, StackArrives, ExtraType
  <2> QED
      BY <1>0, <1>7, <2>1, <1>2 DEF WaitsForServer, StackArrives
<1>8. ASSUME NEW h \in Handlers, HandlerStep(h), ~Attaches(h), ~Writes(h), ~Updates(h)
      PROVE  Unused(i)'
    BY <1>8, <1>1
    DEF HandlerStep, Begins, Sends, StoresBreakpoints, Answers, Encoded, dataVars
<1>9. ASSUME Outputs \/ Stops \/ StoresEvaluation \/ StoresClearing
             \/ (\E a \in asked : BreakpointsArrive(a) \/ EmptyArrives(a))
             \/ (\E g \in Sessions : StderrReads(g) \/ StderrRecords(g)) \/ MapFault
      PROVE  Unused(i)'
  <2>1. extra' = extra /\ evals' = evals
      BY <1>9
      DEF Outputs, Stops, StoresEvaluation, StoresClearing, BreakpointsArrive, EmptyArrives,
          StderrReads, StderrRecords, MapFault, dataVars
  <2> QED
      BY <1>1, <2>1
<1> QED
    BY <1>3, <1>4, <1>5, <1>6, <1>7, <1>8, <1>9 DEF Next, ReaderStep

LEMMA FreshInit == Init => FreshInv
<1> SUFFICES ASSUME Init PROVE FreshInv
    OBVIOUS
<1>1. \A i \in 1..MaxRequests : Unused(i)
    BY Numbers DEF Init, Unused, FreshExtra, Nil
<1> QED
    BY <1>1 DEF Init, FreshInv

\* Of a handler that begins or goes on to write: which request it has.
LEMMA WritesItsOwn ==
    ASSUME Types, IdsInv, Next
    PROVE  /\ spent.requests \in Nat /\ spent'.requests \in Nat
           /\ spent'.requests >= spent.requests
           /\ \A h \in Handlers : pc'[h] = "writing" =>
                \/ pc[h] = "writing" /\ request'[h] = request[h] /\ ~Writes(h)
                \/ request'[h].id = spent.requests + 1 /\ spent.requests < MaxRequests
<1>0. /\ pc \in [Handlers -> Places] /\ request \in [Handlers -> RequestType]
      /\ spent.requests \in Nat
      /\ spent \in [requests : {spent.requests}, outputs : {spent.outputs},
                    events : {spent.events}]
    BY DEF Types, HandlersOK
<1>1. CASE Aside
  <2>1. \A h \in Handlers : pc[h] = "writing" => ~Writes(h)
      BY <1>0, <1>1, AsideFrame DEF Elsewhere, Writes, Goto
  <2> QED
      BY <1>0, <1>1, <2>1, AsideFrame DEF Elsewhere
<1>2. ASSUME NEW h \in Handlers, NEW kind, NEW s, Begins(h, kind, s)
      PROVE  /\ spent'.requests = spent.requests + 1
             /\ \A k \in Handlers : pc'[k] = "writing" =>
                \/ pc[k] = "writing" /\ request'[k] = request[k] /\ ~Writes(k)
                \/ request'[k].id = spent.requests + 1 /\ spent.requests < MaxRequests
  <2>1. \A k \in Handlers : ~Writes(k)
      BY <1>0, <1>2 DEF Begins, Writes
  <2> QED
      BY <1>0, <1>2, <2>1 DEF Begins, Goto
<1>3. ASSUME NEW h \in Handlers, Attaches(h)
      PROVE  /\ spent' = spent
             /\ \A k \in Handlers : pc'[k] = "writing" =>
                pc[k] = "writing" /\ request'[k] = request[k] /\ ~Writes(k)
    BY <1>0, <1>3 DEF Attaches, Writes, Goto
<1>4. ASSUME NEW h \in Handlers,
             Writes(h) \/ Updates(h) \/ Sends(h) \/ StoresBreakpoints(h) \/ Answers(h) \/ Encoded(h)
      PROVE  /\ spent' = spent
             /\ \A k \in Handlers : pc'[k] = "writing" =>
                pc[k] = "writing" /\ request'[k] = request[k] /\ ~Writes(k)
    BY <1>0, <1>4 DEF Writes, Updates, Sends, StoresBreakpoints, Answers, Encoded, Goto
<1> QED
    BY <1>0, <1>1, <1>2, <1>3, <1>4 DEF Next, HandlerStep, Aside

LEMMA FreshNext ==
    ASSUME Types, IdsInv, FreshInv, Next
    PROVE  FreshInv'
<1>1. \A h \in Handlers : Writes(h) => request[h].id \in 1..spent.requests /\ pc[h] = "writing"
    BY DEF IdsInv, RequestsInv, Writes, Serves
<1>2. ASSUME NEW i \in (spent'.requests + 1)..MaxRequests PROVE Unused(i)'
  <2>1. i \in (spent.requests + 1)..MaxRequests /\ i \in 1..MaxRequests /\ i \notin 1..spent.requests
      BY WritesItsOwn, SizesAssumption
  <2> QED
      BY <1>1, <2>1, UnusedKept DEF FreshInv
<1>3. ASSUME NEW h \in Handlers, pc'[h] = "writing", request'[h].kind = "evaluate"
      PROVE  Unused(request[h].id)'
  <2> SUFFICES ASSUME NEW i, i = request'[h].id PROVE Unused(i)'
      BY DEF Unused
  <2>1. CASE pc[h] = "writing" /\ request'[h] = request[h] /\ ~Writes(h)
    <3>1. i = request[h].id /\ i \in 1..MaxRequests /\ i # Nil
        BY <2>1, Served DEF Serves
    <3>2. \A k \in Handlers : Writes(k) => request[k].id # i
        BY <2>1, <3>1 DEF IdsInv, RequestsInv
    <3>3. Unused(i)
        BY <1>3, <2>1, <3>1 DEF FreshInv, Unused
    <3> QED
        BY <2>1, <3>1, <3>2, <3>3, UnusedKept
  <2>2. CASE request'[h].id = spent.requests + 1 /\ spent.requests < MaxRequests
    <3>1. i \in (spent.requests + 1)..MaxRequests /\ i \in 1..MaxRequests /\ i \notin 1..spent.requests
        BY <2>2, WritesItsOwn, SizesAssumption
    <3>2. Unused(i)
        BY <3>1 DEF FreshInv
    <3> QED
        BY <1>1, <2>2, <3>1, <3>2, UnusedKept
  <2> QED
      BY <1>3, <2>1, <2>2, WritesItsOwn
<1> QED
    BY <1>2, <1>3 DEF FreshInv

-----------------------------------------------------------------------------
(* One query of a kind at a time *)

\* Nothing new of the kind is prepared or asked.
LEMMA LoneKept ==
    ASSUME NEW kind \in Queries, Lone(kind),
           Preparing({kind})' \subseteq Preparing({kind}),
           \A a \in asked' : a.kind = kind => a \in asked
    PROVE  Lone(kind)'
BY DEF Lone

LEMMA LoneNext ==
    ASSUME Types, IdsInv, Next, NEW kind \in Queries, kind \notin past'.mixed,
           kind \notin past.mixed => Lone(kind)
    PROVE  Lone(kind)'
<1>0. /\ pc \in [Handlers -> Places] /\ request \in [Handlers -> RequestType]
      /\ past \in [printed : {past.printed}, mixed : SUBSET RequestKinds,
                   lost : SUBSET {"output", "breakpoints"}, spanned : BOOLEAN,
                   refused : BOOLEAN, source : Sources \cup {"none"}]
      /\ kind \notin BreakpointKinds
    BY DEF Types, HandlersOK, PastOK, Queries, BreakpointKinds
<1>1. ASSUME NEW h \in Handlers, Attaches(h) PROVE Lone(kind)'
  <2>1. asked' = {} /\ pc' = pc /\ request' = request
        /\ past'.mixed = UNION {Rivals(request[g].kind) : g \in Preparing(RequestKinds)}
      BY <1>1 DEF Attaches
  <2>2. \A g \in Preparing({kind}) : g \in Preparing(RequestKinds) /\ Rivals(request[g].kind) = {kind}
      BY DEF Preparing, RequestKinds, Rivals
  <2>3. Preparing({kind}) = {}
      BY <2>1, <2>2
  <2>4. Preparing({kind})' = {}
      BY <2>1, <2>3 DEF Preparing
  <2> QED
      BY <2>1, <2>4 DEF Lone
<1>2. ASSUME ~\E h \in Handlers : Attaches(h) PROVE Lone(kind)'
  <2>0. Lone(kind)
      BY <1>2, HistoryFrame
  <2>1. ASSUME NEW h \in Handlers, NEW k \in Queries \cup BreakpointKinds, NEW s, Begins(h, k, s)
        PROVE  Lone(kind)'
    <3>1. /\ asked' = asked /\ pc[h] = "idle"
          /\ \A g \in Handlers \ {h} : pc'[g] = pc[g] /\ request'[g] = request[g]
          /\ request'[h].kind = k
        BY <1>0, <2>1 DEF Begins, Goto, adapterVars
    <3>2. Preparing({kind})' \subseteq Preparing({kind}) \cup {h}
        BY <3>1 DEF Preparing
    <3>3. CASE k # kind
      <4>1. h \notin Preparing({kind})'
          BY <3>1, <3>3 DEF Preparing
      <4> QED
          BY <2>0, <3>1, <3>2, <4>1, LoneKept
    <3>4. CASE k = kind
      <4>1. ~Underway({kind})
          BY <1>0, <2>1, <3>4 DEF Begins, Rivals
      <4>2. Preparing({kind})' \subseteq {h} /\ \A a \in asked' : a.kind # kind
          BY <3>1, <3>2, <4>1 DEF Underway
      <4> QED
          BY <4>2 DEF Lone
    <3> QED
        BY <3>3, <3>4
  <2>2. ASSUME NEW h \in Handlers,
               Writes(h) \/ Updates(h) \/ StoresBreakpoints(h) \/ Answers(h) \/ Encoded(h)
        PROVE  Lone(kind)'
    <3>1. asked' = asked
        BY <2>2 DEF Writes, Updates, StoresBreakpoints, Answers, Encoded, adapterVars
    <3>2. Preparing({kind})' \subseteq Preparing({kind})
      <4>1. CASE Writes(h) \/ Updates(h)
          BY <1>0, <4>1 DEF Writes, Updates, Goto, Preparing
      <4>2. CASE StoresBreakpoints(h) \/ Answers(h) \/ Encoded(h)
          BY <1>0, <4>2 DEF StoresBreakpoints, Answers, Encoded, Goto, Preparing
      <4> QED
          BY <2>2, <4>1, <4>2
    <3> QED
        BY <2>0, <3>1, <3>2, LoneKept
  <2>3. ASSUME NEW h \in Handlers, Sends(h) PROVE Lone(kind)'
    <3>1. /\ asked' = asked \cup {[id |-> request[h].id, kind |-> request[h].kind,
                                   source |-> request[h].source]}
          /\ request' = request /\ pc[h] = "sending"
          /\ pc' = [pc EXCEPT ![h] = IF request[h].kind \in Queries THEN "answering" ELSE "storing"]
        BY <2>3 DEF Sends, Goto, dataVars
    <3>2. Preparing({kind})' \subseteq Preparing({kind})
        BY <1>0, <3>1 DEF Preparing
    <3>3. CASE request[h].kind # kind
        BY <2>0, <3>1, <3>2, <3>3, LoneKept
    <3>4. CASE request[h].kind = kind
      <4>1. h \in Preparing({kind}) /\ h \notin Preparing({kind})'
          BY <1>0, <3>1, <3>4 DEF Preparing
      <4>2. Preparing({kind})' = {}
          BY <2>0, <3>2, <4>1 DEF Lone
      <4>3. \A a \in asked : a.kind # kind
          BY <2>0, <4>1 DEF Lone
      <4> QED
          BY <3>1, <4>2, <4>3 DEF Lone
    <3> QED
        BY <3>3, <3>4
  <2>4. ASSUME Stops PROVE Lone(kind)'
    <3>1. Preparing({kind})' = Preparing({kind})
        BY <2>4 DEF Stops, Preparing
    <3>2. CASE kind = "stackTrace"
      <4>1. ~Underway({kind})
          BY <1>0, <2>4, <3>2 DEF Stops
      <4>2. \A a \in asked' : a.kind = kind => a.id \in OwnRequests
          BY <2>4, <4>1 DEF Stops, Underway
      <4> QED
          BY <2>4, <3>1, <4>1, <4>2 DEF Lone, Underway
    <3>3. CASE kind # "stackTrace"
        BY <2>0, <2>4, <3>1, <3>3, LoneKept DEF Stops
    <3> QED
        BY <3>2, <3>3
  <2>5. ASSUME Aside, ~Stops PROVE Lone(kind)'
    <3>1. asked' \subseteq asked
        BY <2>5
        DEF Aside, ReaderStep, Outputs, WaitsForServer, StackArrives, EvaluationArrives,
            BreakpointsArrive, EmptyArrives, Response, StoresEvaluation, StoresClearing,
            StderrReads, StderrRecords, MapFault, adapterVars
    <3>2. Preparing({kind})' = Preparing({kind})
        BY <2>5, AsideFrame DEF Elsewhere, Preparing
    <3> QED
        BY <2>0, <3>1, <3>2, LoneKept
  <2> QED
      BY <1>2, <2>1, <2>2, <2>3, <2>4, <2>5 DEF Next, HandlerStep, Aside
<1> QED
    BY <1>1, <1>2

-----------------------------------------------------------------------------
(* The query that is noted *)

\* The map of an evaluation is the one of the request that is answered.
LEMMA EvaluationOfAnswered ==
    ASSUME Types, IdsInv, NotedInv, ~past.spanned, "evaluate" \notin past.mixed,
           NEW a \in asked, EvaluationArrives(a)
    PROVE  /\ extra' = extra /\ extra[session].evaluate = a.id
           /\ a.id \in EvalMaps /\ a.id # Nil
           /\ evals' = [evals EXCEPT ![a.id] = [done |-> TRUE, answer |-> a.id]]
<1>0. /\ session \in Sessions /\ extra \in [Sessions -> ExtraType]
      /\ extra[session] \in ExtraType
    BY DEF Types, DataOK
<1>1. a.kind = "evaluate"
    BY DEF EvaluationArrives, Response
<1>2. a.id \notin OwnRequests /\ a.id # Nil
    BY <1>1 DEF IdsInv, AsksInv, OwnRequests, Nil
<1>3. extra[session].evaluate = a.id
    BY <1>1, <1>2 DEF NotedInv, Followed, Noted, Queries
<1>4. a.id \in EvalMaps
    BY <1>0, <1>2, <1>3 DEF ExtraType
<1>5. /\ evals' = [evals EXCEPT ![a.id] = [done |-> TRUE, answer |-> a.id]]
      /\ extra' = [extra EXCEPT ![session].evaluate = a.id]
    BY <1>2, <1>3 DEF EvaluationArrives
<1>6. extra' = extra
    BY <1>0, <1>3, <1>5 DEF ExtraType
<1> QED
    BY <1>2, <1>3, <1>4, <1>5, <1>6

\* The reader changes neither which evaluation nor which stack is asked for.
LEMMA ReaderNotes ==
    ASSUME Types, IdsInv, NotedInv, ~past.spanned, Aside, NEW kind \in Queries,
           kind \notin past.mixed
    PROVE  /\ kind = "evaluate" => extra'[session].evaluate = extra[session].evaluate
           /\ kind = "stackTrace" => extra'[session].stackTrace.of = extra[session].stackTrace.of
<1>0. /\ session \in Sessions /\ extra \in [Sessions -> ExtraType]
      /\ extra[session] \in ExtraType
    BY DEF Types, DataOK
<1>1. CASE \E a \in asked : EvaluationArrives(a)
  <2> PICK a \in asked : EvaluationArrives(a)
      BY <1>1
  <2>1. CASE kind = "evaluate"
      BY <2>1, EvaluationOfAnswered
  <2>2. CASE kind = "stackTrace"
      BY <2>2, <1>0 DEF EvaluationArrives, ExtraType
  <2> QED
      BY <2>1, <2>2 DEF Queries
<1>2. CASE \E a \in asked : StackArrives(a)
    BY <1>0, <1>2 DEF StackArrives, ExtraType
<1>3. CASE WaitsForServer
    BY <1>0, <1>3 DEF WaitsForServer, ExtraType
<1>4. CASE extra' = extra
    BY <1>4
<1> QED
    BY <1>1, <1>2, <1>3, <1>4
    DEF Aside, ReaderStep, Outputs, Stops, BreakpointsArrive, EmptyArrives,
        StoresEvaluation, StoresClearing, StderrReads, StderrRecords, MapFault, dataVars

LEMMA FollowedNext ==
    ASSUME Types, IdsInv, KeysInv, NotedInv, Next, NEW kind \in Queries,
           kind \notin past'.mixed, ~past'.spanned
    PROVE  Followed(kind)'
<1>0. /\ pc \in [Handlers -> Places] /\ request \in [Handlers -> RequestType]
      /\ session \in Sessions /\ extra \in [Sessions -> ExtraType]
      /\ \A g \in Sessions : extra[g] \in ExtraType
      /\ kind \notin BreakpointKinds
    BY DEF Types, HandlersOK, DataOK, Queries, BreakpointKinds
<1>1. ASSUME NEW h \in Handlers, Attaches(h) PROVE Followed(kind)'
  <2>1. asked' = {} /\ pc' = pc /\ request' = request
        /\ past'.mixed = UNION {Rivals(request[g].kind) : g \in Preparing(RequestKinds)}
      BY <1>1 DEF Attaches
  <2>2. \A g \in Preparing({kind}) : g \in Preparing(RequestKinds) /\ Rivals(request[g].kind) = {kind}
      BY DEF Preparing, RequestKinds, Rivals
  <2>3. Preparing({kind}) = {}
      BY <2>1, <2>2
  <2>4. \A k \in Handlers : pc'[k] \in {"updating", "sending"} => request'[k].kind # kind
      BY <2>1, <2>3 DEF Preparing
  <2> QED
      BY <2>1, <2>4 DEF Followed
<1>2. ASSUME ~\E h \in Handlers : Attaches(h) PROVE Followed(kind)'
  <2>0. /\ kind \notin past.mixed /\ ~past.spanned /\ session' = session
        /\ Lone(kind) /\ Followed(kind)
      BY <1>2, HistoryFrame DEF NotedInv
  <2>1. ASSUME NEW h \in Handlers, NEW k \in Queries \cup BreakpointKinds, NEW s, Begins(h, k, s)
        PROVE  Followed(kind)'
    <3>1. /\ asked' = asked /\ extra' = extra
          /\ \A g \in Handlers : pc'[g] \in {"updating", "sending"} /\ request'[g].kind = kind =>
               pc[g] = pc'[g] /\ request[g] = request'[g]
        BY <1>0, <2>1 DEF Begins, Goto, adapterVars, dataVars
    <3> QED
        BY <2>0, <3>1 DEF Followed, Noted
  <2>2. ASSUME NEW h \in Handlers, Writes(h) PROVE Followed(kind)'
    <3>1. /\ asked' = asked /\ request' = request /\ pc' = [pc EXCEPT ![h] = "updating"]
          /\ pc[h] = "writing" /\ request[h].ref = session /\ request[h].kind \in Queries
          /\ request[h].id \in EvalMaps /\ request[h].id \in Int
        BY <2>0, <2>2, Served, Numbers
        DEF Writes, Goto, KeysInv, IdsInv, RequestsInv, Serves, adapterVars
    <3>2. CASE request[h].kind = kind
      <4>1. \A k \in Handlers : pc'[k] \in {"updating", "sending"} /\ request'[k].kind = kind => k = h
          BY <1>0, <2>0, <3>1, <3>2 DEF Lone, Preparing
      <4>2. \A a \in asked : a.kind # kind
          BY <2>0, <3>1, <3>2 DEF Lone, Preparing
      <4>3. kind = "evaluate" => extra'[session].evaluate = request[h].id
          BY <1>0, <2>2, <3>1, <3>2 DEF Writes, ExtraType
      <4>4. kind = "stackTrace" => extra'[session].stackTrace.of = request[h].id
        <5>1. [NoStack EXCEPT !.of = request[h].id].of = request[h].id
          <6>1. NoStack \in [of : Int, done : BOOLEAN, answer : Int]
              BY DEF NoStack, Nil
          <6> QED
              BY <6>1
        <5> QED
            BY <1>0, <2>2, <3>1, <3>2, <5>1 DEF Writes, ExtraType
      <4> QED
          BY <2>0, <3>1, <4>1, <4>2, <4>3, <4>4 DEF Followed, Noted
    <3>3. CASE request[h].kind # kind
      <4>1. kind = "evaluate" => extra'[session].evaluate = extra[session].evaluate
          BY <1>0, <2>2, <3>1, <3>3 DEF Writes, ExtraType, Queries
      <4>2. kind = "stackTrace" => extra'[session].stackTrace.of = extra[session].stackTrace.of
          BY <1>0, <2>2, <3>1, <3>3 DEF Writes, ExtraType, Queries
      <4>3. \A k \in Handlers : pc'[k] \in {"updating", "sending"} /\ request'[k].kind = kind =>
                pc[k] \in {"updating", "sending"}
          BY <1>0, <3>1, <3>3
      <4> QED
          BY <2>0, <3>1, <4>1, <4>2, <4>3 DEF Followed, Noted
    <3> QED
        BY <3>2, <3>3
  <2>3. ASSUME NEW h \in Handlers, Updates(h) PROVE Followed(kind)'
    <3>1. extra' = extra
        BY <2>0, <2>3, UpdatesNothing
    <3>2. /\ asked' = asked /\ request' = request
          /\ \A k \in Handlers : pc'[k] \in {"updating", "sending"} =>
                pc[k] \in {"updating", "sending"}
        BY <1>0, <2>3 DEF Updates, Goto, adapterVars
    <3> QED
        BY <2>0, <3>1, <3>2 DEF Followed, Noted
  <2>4. ASSUME NEW h \in Handlers, Sends(h) PROVE Followed(kind)'
    <3>1. /\ extra' = extra /\ request' = request /\ pc[h] = "sending"
          /\ asked' = asked \cup {[id |-> request[h].id, kind |-> request[h].kind,
                                   source |-> request[h].source]}
          /\ \A k \in Handlers : pc'[k] \in {"updating", "sending"} => pc[k] = pc'[k]
        BY <1>0, <2>4 DEF Sends, Goto, dataVars
    <3>2. \A a \in asked' : a.kind = kind /\ a.id \notin OwnRequests => Noted(kind, a.id)
        BY <2>0, <3>1 DEF Followed
    <3> QED
        BY <2>0, <3>1, <3>2 DEF Followed, Noted
  <2>5. ASSUME NEW h \in Handlers, StoresBreakpoints(h) \/ Answers(h) \/ Encoded(h)
        PROVE  Followed(kind)'
    <3>1. /\ extra' = extra /\ asked' = asked
          /\ \A k \in Handlers : pc'[k] \in {"updating", "sending"} =>
                pc[k] = pc'[k] /\ request[k] = request'[k]
        BY <1>0, <2>5 DEF StoresBreakpoints, Answers, Encoded, Goto, adapterVars, dataVars
    <3> QED
        BY <2>0, <3>1 DEF Followed, Noted
  <2>6. ASSUME Aside PROVE Followed(kind)'
    <3>1. /\ pc' = pc /\ request' = request
          /\ \A a \in asked' : a.kind = kind /\ a.id \notin OwnRequests => a \in asked
        BY <2>6, AsideFrame DEF Elsewhere
    <3>2. /\ kind = "evaluate" => extra'[session].evaluate = extra[session].evaluate
          /\ kind = "stackTrace" => extra'[session].stackTrace.of = extra[session].stackTrace.of
        BY <2>0, <2>6, ReaderNotes
    <3> QED
        BY <2>0, <3>1, <3>2 DEF Followed, Noted
  <2> QED
      BY <1>2, <2>1, <2>2, <2>3, <2>4, <2>5, <2>6 DEF Next, HandlerStep, Aside
<1> QED
    BY <1>1, <1>2

LEMMA NotedInit == Init => NotedInv
BY DEF Init, NotedInv, Lone, Followed, Preparing

LEMMA NotedNext ==
    ASSUME Types, IdsInv, KeysInv, NotedInv, Next
    PROVE  NotedInv'
BY LoneNext, FollowedNext DEF NotedInv

-----------------------------------------------------------------------------
(* The answer that is shown *)

EvaluationAnswers ==
    LET e == extra[session].evaluate
    IN  ~past.spanned /\ "evaluate" \notin past.mixed /\ e # Nil /\ evals[e].done =>
            evals[e].answer = e

StackAnswers ==
    LET stack == extra[session].stackTrace
    IN  ~past.spanned /\ "stackTrace" \notin past.mixed /\ stack.done =>
            stack.answer = stack.of \/ stack.answer \in OwnRequests

LEMMA BothAnswer == AnswersItsRequest <=> EvaluationAnswers /\ StackAnswers
BY DEF AnswersItsRequest, EvaluationAnswers, StackAnswers

LEMMA AnswersInit == Init => AnswersItsRequest
<1> SUFFICES ASSUME Init PROVE AnswersItsRequest
    OBVIOUS
<1>1. session \in Sessions
    BY SizesAssumption DEF Init, Sessions
<1> QED
    BY <1>1 DEF Init, AnswersItsRequest, FreshExtra, NoStack

LEMMA AnswersNext ==
    ASSUME Types, IdsInv, KeysInv, FreshInv, NotedInv, AnswersItsRequest, Next
    PROVE  AnswersItsRequest'
<1>0. /\ session \in Sessions /\ extra \in [Sessions -> ExtraType]
      /\ extra[session] \in ExtraType
      /\ evals \in [EvalMaps -> EvalType]
    BY DEF Types, DataOK
<1>1. ASSUME NEW h \in Handlers, Attaches(h) PROVE AnswersItsRequest'
  <2>1. session' = session + 1 /\ session + 1 \in Sessions
      BY <1>0, <1>1, SizesAssumption DEF Attaches, Reset, Sessions
  <2>2. extra'[session + 1] = FreshExtra(session + 1)
      BY <1>0, <1>1, <2>1 DEF Attaches, Reset
  <2> QED
      BY <2>1, <2>2 DEF AnswersItsRequest, FreshExtra, NoStack
<1>2. ASSUME ~(\E h \in Handlers : Attaches(h)), extra' = extra, evals' = evals
      PROVE  AnswersItsRequest'
    BY <1>2, HistoryFrame DEF AnswersItsRequest
<1>3. ASSUME ~(\E h \in Handlers : Attaches(h)), ~past.spanned PROVE AnswersItsRequest'
  <2>0. /\ past'.spanned = past.spanned /\ session' = session
        /\ past.mixed \subseteq past'.mixed
        /\ EvaluationAnswers /\ StackAnswers
      BY <1>3, HistoryFrame, BothAnswer
  <2>1. ASSUME NEW h \in Handlers, Writes(h)
        PROVE  EvaluationAnswers' /\ StackAnswers'
    <3>1. /\ request[h].ref = session /\ request[h].kind \in Queries
          /\ evals' = evals /\ pc[h] = "writing"
        BY <1>3, <2>1 DEF Writes, KeysInv, IdsInv, RequestsInv
    <3>2. CASE request[h].kind = "evaluate"
      <4>1. /\ extra'[session].evaluate = request[h].id
            /\ extra'[session].stackTrace = extra[session].stackTrace
          BY <1>0, <2>1, <3>1, <3>2 DEF Writes, ExtraType
      <4>2. ~evals[request[h].id].done
          BY <3>1, <3>2 DEF FreshInv, Unused, Unanswered
      <4> QED
          BY <2>0, <3>1, <4>1, <4>2 DEF EvaluationAnswers, StackAnswers
    <3>3. CASE request[h].kind = "stackTrace"
      <4>1. [NoStack EXCEPT !.of = request[h].id].done = FALSE
        <5>1. NoStack \in [of : Int, done : BOOLEAN, answer : Int] /\ NoStack.done = FALSE
            BY DEF NoStack, Nil
        <5> QED
            BY <5>1
      <4>2. /\ extra'[session].evaluate = extra[session].evaluate
            /\ extra'[session].stackTrace = [NoStack EXCEPT !.of = request[h].id]
          BY <1>0, <2>1, <3>1, <3>3 DEF Writes, ExtraType
      <4>3. ~extra'[session].stackTrace.done
          BY <4>1, <4>2
      <4> QED
          BY <2>0, <3>1, <4>2, <4>3 DEF EvaluationAnswers, StackAnswers
    <3> QED
        BY <3>1, <3>2, <3>3 DEF Queries
  <2>2. ASSUME NEW h \in Handlers, Updates(h) PROVE extra' = extra /\ evals' = evals
      BY <1>3, <2>2, UpdatesNothing DEF Updates
  <2>3. ASSUME NEW h \in Handlers, HandlerStep(h), ~Writes(h), ~Updates(h)
        PROVE  extra' = extra /\ evals' = evals
      BY <1>3, <2>3 DEF HandlerStep, Begins, Sends, StoresBreakpoints, Answers, Encoded, dataVars
  <2>4. ASSUME NEW a \in asked, StackArrives(a) PROVE EvaluationAnswers' /\ StackAnswers'
    <3>1. /\ evals' = evals /\ a.kind = "stackTrace"
          /\ extra'[session].evaluate = extra[session].evaluate
          /\ extra'[session].stackTrace.of = extra[session].stackTrace.of
          /\ extra'[session].stackTrace.answer = a.id
        BY <1>0, <2>4 DEF StackArrives, Response, ExtraType
    <3>2. "stackTrace" \notin past.mixed =>
              a.id \in OwnRequests \/ extra[session].stackTrace.of = a.id
        BY <1>3, <3>1 DEF NotedInv, Followed, Noted, Queries
    <3> QED
        BY <2>0, <3>1, <3>2 DEF EvaluationAnswers, StackAnswers
  <2>5. ASSUME NEW a \in asked, EvaluationArrives(a) PROVE EvaluationAnswers' /\ StackAnswers'
    <3>1. EvaluationAnswers'
      <4>1. CASE "evaluate" \notin past.mixed
        <5>1. /\ extra' = extra /\ extra[session].evaluate = a.id /\ a.id \in EvalMaps
              /\ evals' = [evals EXCEPT ![a.id] = [done |-> TRUE, answer |-> a.id]]
            BY <1>3, <2>5, <4>1, EvaluationOfAnswered
        <5>2. evals'[a.id].answer = a.id
            BY <1>0, <5>1
        <5> QED
            BY <2>0, <5>1, <5>2 DEF EvaluationAnswers
      <4>2. CASE "evaluate" \in past.mixed
          BY <2>0, <4>2 DEF EvaluationAnswers
      <4> QED
          BY <4>1, <4>2
    <3>2. extra'[session].stackTrace = extra[session].stackTrace
        BY <1>0, <2>5 DEF EvaluationArrives, ExtraType
    <3> QED
        BY <2>0, <3>1, <3>2 DEF StackAnswers
  <2>6. ASSUME WaitsForServer PROVE EvaluationAnswers' /\ StackAnswers'
    <3>1. /\ evals' = evals
          /\ extra'[session].evaluate = extra[session].evaluate
          /\ extra'[session].stackTrace = extra[session].stackTrace
        BY <1>0, <2>6 DEF WaitsForServer, ExtraType
    <3> QED
        BY <2>0, <3>1 DEF EvaluationAnswers, StackAnswers
  <2>7. ASSUME Aside, ~WaitsForServer,
               ~\E a \in asked : StackArrives(a) \/ EvaluationArrives(a)
        PROVE  extra' = extra /\ evals' = evals
      BY <2>7
      DEF Aside, ReaderStep, Outputs, Stops, BreakpointsArrive, EmptyArrives,
          StoresEvaluation, StoresClearing, StderrReads, StderrRecords, MapFault, dataVars
  <2>8. (EvaluationAnswers' /\ StackAnswers') => AnswersItsRequest'
      BY DEF AnswersItsRequest, EvaluationAnswers, StackAnswers
  <2> QED
      BY <1>2, <1>3, <2>1, <2>2, <2>3, <2>4, <2>5, <2>6, <2>7, <2>8 DEF Next, Aside
<1>4. ASSUME ~(\E h \in Handlers : Attaches(h)), past.spanned PROVE AnswersItsRequest'
    BY <1>4, HistoryFrame DEF AnswersItsRequest
<1> QED
    BY <1>1, <1>3, <1>4

-----------------------------------------------------------------------------
(* The breakpoints that are listed *)

LEMMA ListedInit == Init => ListedInv
BY DEF Init, ListedInv, LoneBreakpoint, BreakpointAsks, Agree, ClearedEarly, NoBreakpoints, Preparing

\* Steps that are about something else.
LEMMA ListedKept ==
    ASSUME ListedInv,
           Preparing(BreakpointKinds)' = Preparing(BreakpointKinds),
           \A h \in Preparing(BreakpointKinds) :
               request'[h] = request[h] /\ (pc'[h] = "storing" => pc[h] = "storing"),
           BreakpointAsks' = BreakpointAsks, armed' = armed,
           past.mixed \subseteq past'.mixed, past.lost \subseteq past'.lost,
           past'.refused = past.refused, past'.source = past.source,
           "breakpoints" \notin past'.lost => breakpoints' = breakpoints
    PROVE  ListedInv'
<1>1. CASE past'.mixed \cap BreakpointKinds = {}
  <2>1. past.mixed \cap BreakpointKinds = {}
      BY <1>1
  <2>2. LoneBreakpoint'
      BY <2>1 DEF ListedInv, LoneBreakpoint
  <2>3. "breakpoints" \notin past'.lost =>
            breakpoints' = breakpoints /\ "breakpoints" \notin past.lost
      OBVIOUS
  <2>4. "breakpoints" \notin past'.lost => ClearedEarly'
      BY <2>1, <2>3 DEF ListedInv, ClearedEarly
  <2> QED
      BY <2>1, <2>2, <2>3, <2>4 DEF ListedInv, Agree, Requested
<1>2. CASE past'.mixed \cap BreakpointKinds # {}
    BY <1>2 DEF ListedInv
<1> QED
    BY <1>1, <1>2

LEMMA ListedNext ==
    ASSUME Types, IdsInv, ListedInv, Next
    PROVE  ListedInv'
<1>0. /\ pc \in [Handlers -> Places] /\ request \in [Handlers -> RequestType]
      /\ past \in [printed : {past.printed}, mixed : SUBSET RequestKinds,
                   lost : SUBSET {"output", "breakpoints"}, spanned : BOOLEAN,
                   refused : BOOLEAN, source : Sources \cup {"none"}]
      /\ Queries \cap BreakpointKinds = {}
    BY DEF Types, HandlersOK, PastOK, Queries, BreakpointKinds
<1>1. ASSUME NEW h \in Handlers, Attaches(h) PROVE ListedInv'
  <2>1. /\ asked' = {} /\ pc' = pc /\ request' = request
        /\ past'.mixed = UNION {Rivals(request[g].kind) : g \in Preparing(RequestKinds)}
        /\ breakpoints' = NoBreakpoints /\ armed' = {}
      BY <1>1 DEF Attaches, Reset
  <2>2. \A g \in Preparing(BreakpointKinds) :
            g \in Preparing(RequestKinds) /\ Rivals(request[g].kind) = BreakpointKinds
      BY <1>0 DEF Preparing, RequestKinds, Rivals
  <2>3. past'.mixed \cap BreakpointKinds = {} => Preparing(BreakpointKinds) = {}
    <3> SUFFICES ASSUME NEW g \in Preparing(BreakpointKinds)
                 PROVE  past'.mixed \cap BreakpointKinds # {}
        OBVIOUS
    <3>1. BreakpointKinds \subseteq past'.mixed
        BY <2>1, <2>2
    <3>2. "set" \in BreakpointKinds
        BY DEF BreakpointKinds
    <3> QED
        BY <3>1, <3>2
  <2>4. Preparing(BreakpointKinds)' = Preparing(BreakpointKinds) /\ BreakpointAsks' = {}
      BY <2>1 DEF Preparing, BreakpointAsks
  <2> QED
      BY <2>1, <2>3, <2>4 DEF ListedInv, LoneBreakpoint, Agree, ClearedEarly, NoBreakpoints
<1>2. ASSUME ~\E h \in Handlers : Attaches(h) PROVE ListedInv'
  <2>0. /\ past.mixed \subseteq past'.mixed /\ past.lost \subseteq past'.lost
        /\ (\A a \in asked : ~BreakpointsArrive(a) /\ ~EmptyArrives(a)) =>
              past'.refused = past.refused /\ past'.source = past.source
      BY <1>2, HistoryFrame
  <2>1. ASSUME NEW h \in Handlers, NEW k \in Queries \cup BreakpointKinds, NEW s, Begins(h, k, s)
        PROVE  ListedInv'
    <3>1. /\ asked' = asked /\ pc[h] = "idle" /\ breakpoints' = breakpoints /\ armed' = armed
          /\ \A g \in Handlers \ {h} : pc'[g] = pc[g] /\ request'[g] = request[g]
          /\ request'[h].kind = k
          /\ past'.refused = past.refused /\ past'.source = past.source
        BY <1>0, <2>1 DEF Begins, Goto, adapterVars, dataVars
    <3>2. h \notin Preparing(BreakpointKinds)
          /\ \A g \in Handlers \ {h} :
                g \in Preparing(BreakpointKinds)' <=> g \in Preparing(BreakpointKinds)
        BY <3>1 DEF Preparing
    <3>3. BreakpointAsks' = BreakpointAsks
        BY <3>1 DEF BreakpointAsks
    <3>4. CASE k \in Queries
      <4>1. h \notin Preparing(BreakpointKinds)'
          BY <1>0, <3>1, <3>4 DEF Preparing
      <4>2. Preparing(BreakpointKinds)' = Preparing(BreakpointKinds)
          BY <3>2, <4>1 DEF Preparing
      <4>3. \A g \in Preparing(BreakpointKinds) : request'[g] = request[g] /\ pc'[g] = pc[g]
          BY <3>1, <3>2 DEF Preparing
      <4> QED
          BY <2>0, <3>1, <3>3, <4>2, <4>3, ListedKept
    <3>5. CASE k \in BreakpointKinds
      <4>1. Rivals(k) = BreakpointKinds
          BY <1>0, <3>5 DEF Rivals
      <4>2. CASE Underway(BreakpointKinds)
        <5>1. past'.mixed = past.mixed \cup BreakpointKinds
            BY <1>0, <2>1, <4>1, <4>2 DEF Begins
        <5>2. k \in past'.mixed \cap BreakpointKinds
            BY <3>5, <5>1
        <5> QED
            BY <5>2 DEF ListedInv
      <4>3. CASE ~Underway(BreakpointKinds)
        <5>1. Preparing(BreakpointKinds) = {} /\ BreakpointAsks = {}
            BY <4>3 DEF Underway, BreakpointAsks
        <5>2. Preparing(BreakpointKinds)' \subseteq {h}
            BY <3>2, <5>1 DEF Preparing
        <5>3. Preparing(BreakpointKinds)' # {}
          <6>1. pc'[h] = "sending"
              BY <1>0, <2>1, <3>5 DEF Begins, Goto
          <6> QED
              BY <3>1, <3>5, <6>1 DEF Preparing
        <5>4. ClearedEarly'
          <6>1. pc'[h] = "sending"
              BY <1>0, <2>1, <3>5 DEF Begins, Goto
          <6> QED
              BY <5>2, <6>1 DEF ClearedEarly
        <5> QED
            BY <3>3, <5>1, <5>2, <5>3, <5>4 DEF ListedInv, LoneBreakpoint
      <4> QED
          BY <4>2, <4>3
    <3> QED
        BY <3>4, <3>5
  <2>2. ASSUME NEW h \in Handlers, Writes(h) \/ Updates(h) \/ Answers(h) \/ Encoded(h)
        PROVE  ListedInv'
    <3>1. asked' = asked /\ breakpoints' = breakpoints /\ armed' = armed /\ past' = past
        BY <2>2 DEF Writes, Updates, Answers, Encoded, adapterVars, dataVars
    <3>2. BreakpointAsks' = BreakpointAsks
        BY <3>1 DEF BreakpointAsks
    <3>3. /\ Preparing(BreakpointKinds)' = Preparing(BreakpointKinds)
          /\ \A g \in Preparing(BreakpointKinds) :
                request'[g] = request[g] /\ (pc'[g] = "storing" => pc[g] = "storing")
      <4>1. CASE Writes(h) \/ Updates(h)
          BY <1>0, <4>1 DEF Writes, Updates, Goto, Preparing
      <4>2. CASE Answers(h) \/ Encoded(h)
        <5>1. /\ pc[h] \in {"answering", "encoding"} /\ pc'[h] \in {"encoding", "idle"}
              /\ \A g \in Handlers \ {h} : pc'[g] = pc[g] /\ request'[g] = request[g]
            BY <1>0, <4>2 DEF Answers, Encoded, Goto
        <5> QED
            BY <5>1 DEF Preparing
      <4> QED
          BY <2>2, <4>1, <4>2
    <3> QED
        BY <2>0, <3>1, <3>2, <3>3, ListedKept
  <2>3. ASSUME NEW h \in Handlers, Sends(h) PROVE ListedInv'
    <3>1. /\ asked' = asked \cup {[id |-> request[h].id, kind |-> request[h].kind,
                                   source |-> request[h].source]}
          /\ request' = request /\ pc[h] = "sending" /\ breakpoints' = breakpoints
          /\ armed' = armed /\ past' = past
          /\ pc' = [pc EXCEPT ![h] = IF request[h].kind \in Queries THEN "answering" ELSE "storing"]
        BY <2>3 DEF Sends, Goto, dataVars
    <3>2. Preparing(BreakpointKinds)' = Preparing(BreakpointKinds)
        BY <1>0, <3>1 DEF Preparing
    <3>3. CASE request[h].kind \notin BreakpointKinds
      <4>1. BreakpointAsks' = BreakpointAsks
          BY <3>1, <3>3 DEF BreakpointAsks
      <4>2. \A g \in Preparing(BreakpointKinds) : request'[g] = request[g] /\ pc'[g] = pc[g]
          BY <1>0, <3>1, <3>3 DEF Preparing
      <4> QED
          BY <2>0, <3>1, <3>2, <4>1, <4>2, ListedKept
    <3>4. CASE request[h].kind \in BreakpointKinds /\ past'.mixed \cap BreakpointKinds = {}
      <4>1. h \in Preparing(BreakpointKinds) /\ request[h].id # Nil
          BY <3>1, <3>4, Served DEF Preparing, Serves
      <4>2. LoneBreakpoint
          BY <2>0, <3>4 DEF ListedInv
      <4>3. BreakpointAsks = {}
        <5> SUFFICES ASSUME NEW a \in BreakpointAsks PROVE FALSE
            OBVIOUS
        <5>1. a.id = request[h].id /\ a \in asked
            BY <4>1, <4>2 DEF LoneBreakpoint, BreakpointAsks
        <5> QED
            BY <3>1, <4>1, <5>1 DEF IdsInv, AsksInv
      <4>4. \A a \in BreakpointAsks' :
                a = [id |-> request[h].id, kind |-> request[h].kind, source |-> request[h].source]
          BY <3>1, <4>3 DEF BreakpointAsks
      <4>5. LoneBreakpoint'
        <5>1. \A g \in Preparing(BreakpointKinds) : g = h
            BY <4>1, <4>2 DEF LoneBreakpoint
        <5> QED
            BY <3>1, <3>2, <4>4, <5>1 DEF LoneBreakpoint
      <4>6. BreakpointAsks' # {}
        <5> DEFINE ask == [id |-> request[h].id, kind |-> request[h].kind,
                           source |-> request[h].source]
        <5>1. ask \in asked' /\ ask.kind \in BreakpointKinds
            BY <3>1, <3>4
        <5> QED
            BY <5>1 DEF BreakpointAsks
      <4> QED
          BY <3>2, <4>1, <4>5, <4>6 DEF ListedInv, ClearedEarly
    <3>5. CASE past'.mixed \cap BreakpointKinds # {}
        BY <3>5 DEF ListedInv
    <3> QED
        BY <3>3, <3>4, <3>5
  <2>4. ASSUME NEW h \in Handlers, StoresBreakpoints(h), past'.mixed \cap BreakpointKinds = {}
        PROVE  ListedInv'
    <3> DEFINE r == request[h]
               overtaken == r.kind = "set" /\ \A a \in asked : a.id # r.id
    <3>1. /\ asked' = asked /\ request' = request /\ pc[h] = "storing"
          /\ pc' = [pc EXCEPT ![h] = "answering"]
          /\ breakpoints' = IF r.kind = "set" THEN [in |-> {r.source}, verified |-> FALSE]
                            ELSE NoBreakpoints
          /\ overtaken => "breakpoints" \in past'.lost
          /\ armed' = armed /\ past'.refused = past.refused /\ past'.source = past.source
        BY <1>0, <2>4 DEF StoresBreakpoints, Goto, adapterVars
    <3>2. r.kind \in BreakpointKinds /\ r.id # Nil
        BY <3>1, Served DEF IdsInv, RequestsInv, Serves
    <3>3. LoneBreakpoint
        BY <2>0, <2>4 DEF ListedInv
    <3>4. h \in Preparing(BreakpointKinds)
        BY <3>1, <3>2 DEF Preparing
    <3>5. Preparing(BreakpointKinds)' = {}
      <4>1. h \notin Preparing(BreakpointKinds)'
          BY <1>0, <3>1 DEF Preparing
      <4>2. Preparing(BreakpointKinds)' \subseteq Preparing(BreakpointKinds)
          BY <1>0, <3>1 DEF Preparing
      <4>3. \A g \in Preparing(BreakpointKinds) : g = h
          BY <3>3, <3>4 DEF LoneBreakpoint
      <4> QED
          BY <4>1, <4>2, <4>3
    <3>6. BreakpointAsks' = BreakpointAsks
        BY <3>1 DEF BreakpointAsks
    <3>7. LoneBreakpoint'
        BY <3>3, <3>5, <3>6 DEF LoneBreakpoint
    <3>8. ClearedEarly'
        BY <3>5 DEF ClearedEarly
    <3>9. CASE r.kind = "clear" /\ "breakpoints" \notin past'.lost
      <4>1. breakpoints' = NoBreakpoints
          BY <3>1, <3>9
      <4>2. \A a \in BreakpointAsks : a.kind = "clear"
          BY <3>3, <3>4, <3>9 DEF LoneBreakpoint
      <4>3. BreakpointAsks = {} /\ ~past.refused => past.source \notin armed
          BY <2>0, <2>4, <3>1, <3>4, <3>9 DEF ListedInv, ClearedEarly
      <4>4. BreakpointAsks' = {} => Agree'
          BY <3>1, <3>6, <4>1, <4>3 DEF Agree, NoBreakpoints
      <4> QED
          BY <3>6, <3>7, <3>8, <4>1, <4>2, <4>4 DEF ListedInv, Requested
    <3>10. CASE r.kind = "set" /\ "breakpoints" \notin past'.lost
      <4>1. PICK a \in asked : a.id = r.id
          BY <3>1, <3>10
      <4>2. a.kind = "set"
          BY <3>1, <3>2, <3>10, <4>1 DEF IdsInv, AsksInv
      <4>3. a \in BreakpointAsks
          BY <4>2 DEF BreakpointAsks, BreakpointKinds
      <4>4. \A b \in BreakpointAsks : b = a
          BY <3>3, <4>3 DEF LoneBreakpoint
      <4>5. a.source = r.source
          BY <3>3, <3>4, <4>3 DEF LoneBreakpoint
      <4>6. breakpoints' = Requested(a)
          BY <3>1, <3>10, <4>2, <4>5 DEF Requested
      <4> QED
          BY <3>6, <3>7, <3>8, <4>3, <4>4, <4>6 DEF ListedInv, Requested
    <3>11. CASE "breakpoints" \in past'.lost
        BY <3>7, <3>11 DEF ListedInv
    <3>12. r.kind = "set" \/ r.kind = "clear"
        BY <3>2 DEF BreakpointKinds
    <3> QED
        BY <3>9, <3>10, <3>11, <3>12
  <2>5. ASSUME NEW a \in asked, BreakpointsArrive(a) \/ EmptyArrives(a),
               past'.mixed \cap BreakpointKinds = {}
        PROVE  ListedInv'
    <3>1. /\ asked' = asked \ {a} /\ pc' = pc /\ request' = request
          /\ past'.mixed = past.mixed /\ past'.lost = past.lost /\ past'.source = a.source
          /\ a \in BreakpointAsks
        BY <1>0, <2>5
        DEF BreakpointsArrive, EmptyArrives, Outcome, Response, BreakpointAsks, BreakpointKinds
    <3>2. Preparing(BreakpointKinds)' = Preparing(BreakpointKinds)
        BY <3>1 DEF Preparing
    <3>3. LoneBreakpoint
        BY <2>0, <2>5 DEF ListedInv
    <3>4. BreakpointAsks' = {}
      <4>1. BreakpointAsks' \subseteq BreakpointAsks /\ a \notin BreakpointAsks'
          BY <3>1 DEF BreakpointAsks
      <4>2. \A b \in BreakpointAsks : b = a
          BY <3>1, <3>3 DEF LoneBreakpoint
      <4> QED
          BY <4>1, <4>2
    <3>5. LoneBreakpoint'
        BY <3>1, <3>2, <3>3, <3>4 DEF LoneBreakpoint
    <3>6. a.kind = "clear" => past'.refused \/ a.source \notin armed'
      <4>1. CASE BreakpointsArrive(a)
          BY <4>1 DEF BreakpointsArrive, Response
      <4>2. CASE EmptyArrives(a)
          BY <1>0, <4>2 DEF EmptyArrives, Outcome
      <4> QED
          BY <2>5, <4>1, <4>2
    <3>7. ClearedEarly'
        BY <3>1, <3>2, <3>3, <3>6 DEF ClearedEarly, LoneBreakpoint
    <3>8. "breakpoints" \notin past'.lost /\ Preparing(BreakpointKinds)' = {} => Agree'
      <4>1. CASE BreakpointsArrive(a)
        <5>1. PICK verified \in BOOLEAN :
                /\ breakpoints' = [in |-> {a.source}, verified |-> verified]
                /\ armed' = IF verified THEN armed \cup {a.source} ELSE armed \ {a.source}
                /\ past'.refused = ~verified
            BY <1>0, <4>1 DEF BreakpointsArrive, Outcome
        <5> QED
            BY <3>1, <5>1 DEF Agree
      <4>2. CASE EmptyArrives(a)
        <5>1. breakpoints' = breakpoints /\ (a.kind = "set" => past'.refused)
            BY <1>0, <4>2 DEF EmptyArrives, Outcome, dataVars
        <5>2. "breakpoints" \notin past'.lost /\ Preparing(BreakpointKinds)' = {} =>
                  breakpoints' = Requested(a)
            BY <2>0, <2>5, <3>1, <3>2, <5>1 DEF ListedInv
        <5>3. a.kind = "set" \/ a.kind = "clear"
            BY <3>1 DEF BreakpointAsks, BreakpointKinds
        <5> QED
            BY <3>1, <3>6, <5>1, <5>2, <5>3 DEF Agree, Requested, NoBreakpoints
      <4> QED
          BY <2>5, <4>1, <4>2
    <3> QED
        BY <3>4, <3>5, <3>7, <3>8 DEF ListedInv
  <2>6. ASSUME StoresClearing PROVE ListedInv'
    <3>1. /\ asked' = asked /\ pc' = pc /\ request' = request /\ armed' = armed
          /\ past'.refused = past.refused /\ past'.source = past.source
          /\ "breakpoints" \notin past'.lost => breakpoints' = breakpoints
        BY <1>0, <2>6 DEF StoresClearing, adapterVars
    <3>2. /\ Preparing(BreakpointKinds)' = Preparing(BreakpointKinds)
          /\ BreakpointAsks' = BreakpointAsks
        BY <3>1 DEF Preparing, BreakpointAsks
    <3> QED
        BY <2>0, <3>1, <3>2, ListedKept
  <2>7. ASSUME Aside, ~StoresClearing,
               ~\E a \in asked : BreakpointsArrive(a) \/ EmptyArrives(a)
        PROVE  ListedInv'
    <3>1. breakpoints' = breakpoints /\ armed' = armed
        BY <2>7
        DEF Aside, ReaderStep, Outputs, WaitsForServer, Stops, StackArrives, EvaluationArrives,
            StoresEvaluation, StderrReads, StderrRecords, MapFault, dataVars, adapterVars
    <3>2. BreakpointAsks' = BreakpointAsks
      <4>1. CASE Stops
          BY <4>1 DEF Stops, BreakpointAsks, BreakpointKinds
      <4>2. CASE \E a \in asked : StackArrives(a) \/ EvaluationArrives(a)
          BY <4>2 DEF StackArrives, EvaluationArrives, Response, BreakpointAsks, BreakpointKinds
      <4>3. CASE asked' = asked
          BY <4>3 DEF BreakpointAsks
      <4> QED
          BY <2>7, <4>1, <4>2, <4>3
          DEF Aside, ReaderStep, Outputs, WaitsForServer, StoresEvaluation, StderrReads,
              StderrRecords, MapFault, adapterVars
    <3>3. /\ Preparing(BreakpointKinds)' = Preparing(BreakpointKinds)
          /\ \A g \in Preparing(BreakpointKinds) : request'[g] = request[g] /\ pc'[g] = pc[g]
        BY <2>7, AsideFrame DEF Elsewhere, Preparing
    <3> QED
        BY <2>0, <2>7, <3>1, <3>2, <3>3, ListedKept
  <2>8. ASSUME past'.mixed \cap BreakpointKinds # {} PROVE ListedInv'
      BY <2>8 DEF ListedInv
  <2> QED
      BY <1>2, <2>1, <2>2, <2>3, <2>4, <2>5, <2>6, <2>7, <2>8 DEF Next, HandlerStep, Aside
<1> QED
    BY <1>1, <1>2

-----------------------------------------------------------------------------
(* The theorems *)

LEMMA IInvStutters ==
    ASSUME IInv, UNCHANGED vars
    PROVE  IInv'
<1> USE DEF vars, dataVars, adapterVars
<1>1. Types'
    BY DEF IInv, Types, DataOK, HandlersOK, AdapterOK, PastOK
<1>2. IdsInv'
    BY DEF IInv, IdsInv, RequestsInv, AsksInv, Serves
<1>3. KeysInv' /\ FreshInv'
    BY DEF IInv, KeysInv, ExtraIsOwn, FreshInv, Unused
<1>4. NotedInv'
    BY DEF IInv, NotedInv, Lone, Followed, Noted, Preparing
<1>5. ListedInv'
    BY DEF IInv, ListedInv, LoneBreakpoint, BreakpointAsks, Agree, Requested, ClearedEarly, Preparing
<1>6. AnswersItsRequest'
    BY DEF IInv, AnswersItsRequest
<1> QED
    BY <1>1, <1>2, <1>3, <1>4, <1>5, <1>6 DEF IInv

\* In every reachable state the types are right, and each query and breakpoint
\* request is where the invariants above say.
THEOREM Invariance == Spec => []IInv
<1>1. Init => IInv
    BY TypesInit, IdsInit, KeysInit, FreshInit, NotedInit, ListedInit, AnswersInit DEF IInv
<1>2. IInv /\ [Next]_vars => IInv'
  <2> SUFFICES ASSUME IInv, [Next]_vars PROVE IInv'
      OBVIOUS
  <2>1. CASE Next
      BY <2>1, TypesNext, IdsNext, KeysNext, FreshNext, NotedNext, ListedNext, AnswersNext DEF IInv
  <2>2. CASE UNCHANGED vars
      BY <2>2, IInvStutters
  <2> QED
      BY <2>1, <2>2
<1> QED
    BY <1>1, <1>2, PTL DEF Spec

\* What the session shows as the answer to an evaluation or as the stack answers
\* the request it was noted for, although applyDAPResponse matches by command only:
\* unless two queries of the kind were underway or one came from an older session.
THEOREM ShowsItsAnswer == Spec => []AnswersItsRequest
<1>1. IInv => AnswersItsRequest
    BY DEF IInv
<1> QED
    BY <1>1, Invariance, PTL

\* Reset leaves a new session nothing of the one before in its Extra, unless a
\* query of that session is still to be noted.
THEOREM OwnExtra == Spec => []ExtraIsOwn
<1>1. IInv => ExtraIsOwn
    BY DEF IInv, KeysInv
<1> QED
    BY <1>1, Invariance, PTL

\* With no request under way, if the requests of the CLIs never overlapped and no
\* update of the list was lost, the breakpoints shown as verified are set, and
\* after a request that was carried out those of its source are listed.
THEOREM ListsWhatIsSet == Spec => []BreakpointsAgree
<1>1. IInv => BreakpointsAgree
  <2> SUFFICES ASSUME ListedInv PROVE BreakpointsAgree
      BY DEF IInv
  <2>1. ~Underway(BreakpointKinds) => BreakpointAsks = {}
      BY DEF Underway, BreakpointAsks
  <2> QED
      BY <2>1 DEF ListedInv, BreakpointsAgree, Agree
<1> QED
    BY <1>1, Invariance, PTL

-----------------------------------------------------------------------------
(* What is kept of a list, and suffixes of lists *)

\* A set of numbers that is not empty has a least one: what induction is done with.
LEMMA Least ==
    ASSUME NEW T, T \subseteq Nat, T # {}
    PROVE  \E x \in T : \A y \in T : x <= y
<1> DEFINE R == OpToRel(<, Nat)
<1>1. IsWellFoundedOn(R, Nat)
  BY NatLessThanWellFounded
<1>2. R = {ss \in Nat \X Nat : ss[1] < ss[2]}
  BY DEF OpToRel
<1> HIDE DEF R
<1>3. PICK x \in T : \A y \in T : ~ (<<y, x>> \in R)
  BY <1>1, WFMin, Zenon
<1>4. ASSUME NEW y \in T, y < x PROVE FALSE
  <2>1. <<y, x>> \in Nat \X Nat /\ <<y, x>>[1] < <<y, x>>[2]
    BY <1>4
  <2>2. <<y, x>> \in R
    BY <2>1, <1>2
  <2> QED
    BY <2>2, <1>3
<1>5. \A y \in T : x <= y
  BY <1>4
<1> QED
  BY <1>5

\* The places of the items that stay, and the place of the k-th of them.
Kept(items, category) == {i \in DOMAIN items : items[i].category # category}
Rank(kept, i) == Cardinality(kept \cap 1..i)
Place(kept, k) == CHOOSE i \in kept : Rank(kept, i) = k

\* The rank counts the kept places up to i.
LEMMA Ranks ==
    ASSUME NEW n \in Nat, NEW kept, kept \subseteq 1..n, NEW i \in Nat
    PROVE  /\ Rank(kept, i) \in Nat
           /\ i + 1 \in kept => Rank(kept, i + 1) = Rank(kept, i) + 1
           /\ i + 1 \notin kept => Rank(kept, i + 1) = Rank(kept, i)
<1> DEFINE below(j) == kept \cap 1..j
<1>1. IsFiniteSet(below(i)) /\ Cardinality(below(i)) \in Nat
  <2>1. IsFiniteSet(1..i)
    BY FS_Interval
  <2>2. below(i) \subseteq 1..i
    OBVIOUS
  <2> QED
    BY <2>1, <2>2, FS_Subset, FS_CardinalityType
<1>2. i + 1 \notin below(i)
  OBVIOUS
<1>3. CASE i + 1 \in kept
  <2>1. below(i + 1) = below(i) \cup {i + 1}
    BY <1>3
  <2> QED
    BY <1>1, <1>2, <1>3, <2>1, FS_AddElement DEF Rank
<1>4. CASE i + 1 \notin kept
  <2>1. below(i + 1) = below(i)
    BY <1>4
  <2> QED
    BY <1>1, <1>4, <2>1 DEF Rank
<1> QED
  BY <1>1, <1>3, <1>4 DEF Rank

\* Later places that are kept have higher ranks.
LEMMA RanksGrow ==
    ASSUME NEW n \in Nat, NEW kept, kept \subseteq 1..n,
           NEW i \in Nat, NEW j \in kept, i < j
    PROVE  Rank(kept, i) < Rank(kept, j)
<1>1. PICK m \in Nat : j = m + 1
  <2>1. j - 1 \in Nat /\ j = (j - 1) + 1
    OBVIOUS
  <2> QED
    BY <2>1
<1>2. Rank(kept, j) = Rank(kept, m) + 1 /\ Rank(kept, m) \in Nat
  BY <1>1, Ranks
<1>3. Rank(kept, i) <= Rank(kept, m)
  <2>1. IsFiniteSet(1..m)
    BY FS_Interval
  <2>2. kept \cap 1..i \subseteq kept \cap 1..m
    BY <1>1
  <2>3. IsFiniteSet(kept \cap 1..m)
    BY <2>1, FS_Subset
  <2> QED
    BY <2>2, <2>3, FS_Subset DEF Rank
<1>4. Rank(kept, i) \in Nat
  BY Ranks
<1> QED
  BY <1>2, <1>3, <1>4

\* Every rank belongs to exactly one place that is kept.
LEMMA PlaceOfRank ==
    ASSUME NEW n \in Nat, NEW kept, kept \subseteq 1..n,
           NEW k \in 1..Cardinality(kept)
    PROVE  /\ Place(kept, k) \in kept
           /\ Rank(kept, Place(kept, k)) = k
           /\ \A i \in kept : Rank(kept, i) = k => i = Place(kept, k)
<1> DEFINE T == {i \in 0..n : Rank(kept, i) >= k}
<1>0. Cardinality(kept) \in Nat /\ k \in 1..Cardinality(kept)
  <2>1. IsFiniteSet(1..n)
    BY FS_Interval
  <2> QED
    BY <2>1, FS_Subset, FS_CardinalityType
<1>1. n \in T
  <2>1. kept \cap 1..n = kept
    OBVIOUS
  <2>2. Rank(kept, n) = Cardinality(kept) /\ Rank(kept, n) \in Nat
    BY <2>1, Ranks DEF Rank
  <2> QED
    BY <2>2, <1>0
<1>2. PICK x \in T : \A y \in T : x <= y
  <2>1. T \subseteq Nat /\ T # {}
    BY <1>1
  <2> HIDE DEF T
  <2> QED
    BY <2>1, Least
<1>3. x # 0
  <2>1. kept \cap 1..0 = {}
    OBVIOUS
  <2>2. Rank(kept, 0) = 0
    BY <2>1, FS_EmptySet DEF Rank
  <2> QED
    BY <2>2, <1>0
<1>4. PICK m \in Nat : x = m + 1
  <2>1. x - 1 \in Nat /\ x = (x - 1) + 1
    BY <1>3
  <2> QED
    BY <2>1
<1>5. Rank(kept, m) < k /\ Rank(kept, m) \in Nat
  <2>1. m \in 0..n /\ m \notin T
    BY <1>2, <1>4
  <2>2. Rank(kept, m) \in Nat
    BY Ranks
  <2> QED
    BY <2>1, <2>2
<1>6. Rank(kept, x) >= k
  OBVIOUS
<1>7. x \in kept /\ Rank(kept, x) = k
  <2>0. k \in Nat
    BY <1>0
  <2>1. ASSUME x \notin kept PROVE FALSE
    <3>1. Rank(kept, x) = Rank(kept, m)
      BY <1>4, <2>1, Ranks
    <3> QED
      BY <3>1, <2>0, <1>5, <1>6
  <2>2. Rank(kept, x) = Rank(kept, m) + 1
    BY <2>1, <1>4, Ranks
  <2> QED
    BY <1>5, <1>6, <2>0, <2>1, <2>2
<1>8. Place(kept, k) \in kept /\ Rank(kept, Place(kept, k)) = k
  BY <1>7 DEF Place
<1>9. ASSUME NEW i \in kept, NEW j \in kept, Rank(kept, i) = Rank(kept, j), i < j
      PROVE  FALSE
  <2>1. i \in Nat /\ j \in Nat
    OBVIOUS
  <2>2. Rank(kept, i) \in Nat /\ Rank(kept, j) \in Nat
    BY <2>1, Ranks
  <2>3. Rank(kept, i) < Rank(kept, j)
    BY <1>9, <2>1, RanksGrow
  <2> QED
    BY <1>9, <2>2, <2>3
<1>10. ASSUME NEW i \in kept, Rank(kept, i) = k PROVE i = Place(kept, k)
  <2> DEFINE p == Place(kept, k)
  <2>1. p \in kept /\ Rank(kept, i) = Rank(kept, p)
    BY <1>8, <1>10
  <2> HIDE DEF p
  <2>2. i < p \/ p < i \/ i = p
    BY <2>1
  <2>3. i = p
    BY <2>1, <2>2, <1>9
  <2> QED
    BY <2>3 DEF p
<1> QED
  BY <1>8, <1>10

\* What is kept, and where each item kept comes from.
LEMMA WithoutItems ==
    ASSUME NEW S, NEW items \in Seq(S), NEW category
    PROVE  LET kept == Kept(items, category)
           IN  /\ kept \subseteq 1..Len(items)
               /\ Cardinality(kept) \in Nat
               /\ Without(items, category) \in Seq(S)
               /\ Len(Without(items, category)) = Cardinality(kept)
               /\ \A k \in 1..Cardinality(kept) :
                    Without(items, category)[k] = items[Place(kept, k)]
<1> DEFINE kept == Kept(items, category)
           n == Cardinality(kept)
           from == [k \in 1..n |-> items[Place(kept, k)]]
<1>1. kept \subseteq 1..Len(items) /\ Len(items) \in Nat
  BY LenProperties DEF Kept
<1>2. n \in Nat
  <2>1. IsFiniteSet(1..Len(items))
    BY <1>1, FS_Interval
  <2> QED
    BY <1>1, <2>1, FS_Subset, FS_CardinalityType
<1>3. Without(items, category) = from
  BY DEF Without, Kept, Place, Rank
<1>4. \A k \in 1..n : items[Place(kept, k)] \in S
  <2> TAKE k \in 1..n
  <2> HIDE DEF kept
  <2>1. Place(kept, k) \in 1..Len(items)
    BY <1>1, PlaceOfRank
  <2> QED
    BY <2>1
<1>5. from \in Seq(S) /\ Len(from) = n
  <2> HIDE DEF kept, n
  <2> QED
    BY <1>2, <1>4
<1> QED
  BY <1>1, <1>2, <1>3, <1>5

\* Of nothing nothing is kept.
LEMMA WithoutNothing ==
    ASSUME NEW category
    PROVE  Without(<<>>, category) = <<>>
<1>1. Kept(<<>>, category) = {}
  BY DEF Kept
<1>2. <<>> \in Seq({})
  OBVIOUS
<1>3. Without(<<>>, category) \in Seq({}) /\ Len(Without(<<>>, category)) = 0
  BY <1>1, <1>2, WithoutItems, FS_EmptySet
<1> QED
  BY <1>3

\* The filter goes through the items one by one.
LEMMA WithoutAppend ==
    ASSUME NEW S, NEW items \in Seq(S), NEW c \in S, NEW category
    PROVE  Without(Append(items, c), category) =
             IF c.category # category THEN Append(Without(items, category), c)
             ELSE Without(items, category)
<1> DEFINE longer == Append(items, c)
           old == Kept(items, category)
           new == Kept(longer, category)
           n == Len(items)
           before == Without(items, category)
           after == Without(longer, category)
<1>1. /\ longer \in Seq(S) /\ n \in Nat /\ Len(longer) = n + 1
      /\ DOMAIN items = 1..n /\ DOMAIN longer = 1..(n + 1)
      /\ longer[n + 1] = c
      /\ \A i \in 1..n : longer[i] = items[i]
  OBVIOUS
<1>2. new = IF c.category # category THEN old \cup {n + 1} ELSE old
  BY <1>1 DEF Kept
<1>3. /\ old \subseteq 1..n /\ Cardinality(old) \in Nat
      /\ before \in Seq(S) /\ Len(before) = Cardinality(old)
      /\ \A k \in 1..Cardinality(old) : before[k] = items[Place(old, k)]
  BY WithoutItems
<1>4. /\ new \subseteq 1..(n + 1) /\ Cardinality(new) \in Nat
      /\ after \in Seq(S) /\ Len(after) = Cardinality(new)
      /\ \A k \in 1..Cardinality(new) : after[k] = longer[Place(new, k)]
  <2> HIDE DEF longer
  <2>1. /\ new \subseteq 1..Len(longer) /\ Cardinality(new) \in Nat
        /\ after \in Seq(S) /\ Len(after) = Cardinality(new)
        /\ \A k \in 1..Cardinality(new) : after[k] = longer[Place(new, k)]
    BY <1>1, WithoutItems
  <2> QED
    BY <1>1, <2>1
<1> HIDE DEF old, new, before, after
<1>5. CASE c.category = category
  <2>1. \A k \in 1..Cardinality(old) : Place(old, k) \in 1..n
    BY <1>1, <1>3, PlaceOfRank
  <2>2. \A k \in 1..Cardinality(old) : before[k] = after[k]
    BY <1>1, <1>2, <1>3, <1>4, <1>5, <2>1
  <2>3. before = after
    BY <1>2, <1>3, <1>4, <1>5, <2>2, SeqEqual
  <2> QED
    BY <1>5, <2>3 DEF before, after
<1>6. CASE c.category # category
  <2>1. IsFiniteSet(old) /\ n + 1 \notin old
    <3>1. IsFiniteSet(1..n)
      BY <1>1, FS_Interval
    <3>2. IsFiniteSet(old)
      BY <1>3, <3>1, FS_Subset
    <3> QED
      BY <1>1, <1>3, <3>2
  <2>2. new = old \cup {n + 1} /\ Cardinality(new) = Cardinality(old) + 1
    BY <1>2, <1>6, <2>1, FS_AddElement
  <2>3. \A i \in 1..n : Rank(new, i) = Rank(old, i)
    <3>1. ASSUME NEW i \in 1..n PROVE new \cap 1..i = old \cap 1..i
      BY <1>1, <2>2
    <3> QED
      BY <3>1 DEF Rank
  <2>4. Rank(new, n + 1) = Cardinality(new)
    <3>1. new \cap 1..(n + 1) = new
      BY <1>4
    <3> QED
      BY <3>1 DEF Rank
  <2>5. ASSUME NEW k \in 1..Cardinality(old)
        PROVE  before[k] = after[k]
    <3>1. Place(old, k) \in old /\ Rank(old, Place(old, k)) = k
      BY <1>1, <1>3, PlaceOfRank
    <3>2. Place(old, k) \in new /\ Rank(new, Place(old, k)) = k
      BY <1>1, <1>3, <2>2, <2>3, <3>1
    <3>3. k \in 1..Cardinality(new) /\ n + 1 \in Nat
      BY <1>1, <1>3, <2>2
    <3>4. Place(new, k) = Place(old, k)
      BY <1>4, <3>2, <3>3, PlaceOfRank
    <3> QED
      BY <1>1, <1>3, <1>4, <3>1, <3>3, <3>4
  <2>6. after[Cardinality(new)] = c
    <3>1. Cardinality(new) \in 1..Cardinality(new) /\ n + 1 \in new /\ n + 1 \in Nat
      BY <1>1, <1>3, <2>2
    <3>2. Place(new, Cardinality(new)) = n + 1
      BY <1>4, <2>4, <3>1, PlaceOfRank
    <3> QED
      BY <1>1, <1>4, <3>1, <3>2
  <2>7. after = Append(before, c)
    <3>1. Append(before, c) \in Seq(S) /\ Len(Append(before, c)) = Len(after)
      BY <1>3, <1>4, <2>2
    <3>2. \A k \in 1..Len(after) : after[k] = Append(before, c)[k]
      <4>1. /\ Append(before, c)[Cardinality(old) + 1] = c
            /\ \A k \in 1..Cardinality(old) : Append(before, c)[k] = before[k]
        BY <1>3
      <4>2. ASSUME NEW k \in 1..(Cardinality(old) + 1)
            PROVE  k \in 1..Cardinality(old) \/ k = Cardinality(old) + 1
        BY <1>3
      <4>3. Len(after) = Cardinality(old) + 1 /\ after[Cardinality(old) + 1] = c
        BY <1>4, <2>2, <2>6
      <4> QED
        BY <4>1, <4>2, <4>3, <2>5
    <3> QED
      BY <1>4, <3>1, <3>2, SeqEqual
  <2> QED
    BY <1>6, <2>7 DEF before, after
<1> QED
  BY <1>5, <1>6

\* Two filters may be applied in any order.
LEMMA WithoutCommutes ==
    ASSUME NEW S, NEW a, NEW b
    PROVE  \A items \in Seq(S) :
             Without(Without(items, a), b) = Without(Without(items, b), a)
<1> DEFINE Same(items) == Without(Without(items, a), b) = Without(Without(items, b), a)
           T == {n \in Nat : \E items \in Seq(S) : Len(items) = n /\ ~Same(items)}
<1>1. SUFFICES ASSUME T # {} PROVE FALSE
  OBVIOUS
<1>2. PICK n \in T : \A m \in T : n <= m
  <2>1. T \subseteq Nat
    OBVIOUS
  <2> HIDE DEF T
  <2> QED
    BY <1>1, <2>1, Least
<1>3. PICK items \in Seq(S) : Len(items) = n /\ ~Same(items)
  OBVIOUS
<1>4. items # <<>>
  BY <1>3, WithoutNothing
<1>5. PICK s \in Seq(S), c \in S : items = Append(s, c)
  BY <1>4, SequenceEmptyOrAppend
<1>6. Same(s)
  <2>1. Len(s) \in Nat /\ Len(s) + 1 = n
    BY <1>3, <1>5
  <2>2. Len(s) \notin T
    BY <1>2, <2>1
  <2> QED
    BY <2>1, <2>2
<1>7. Without(s, a) \in Seq(S) /\ Without(s, b) \in Seq(S)
  BY WithoutItems
<1>8. /\ Without(items, a) =
           IF c.category # a THEN Append(Without(s, a), c) ELSE Without(s, a)
      /\ Without(items, b) =
           IF c.category # b THEN Append(Without(s, b), c) ELSE Without(s, b)
  BY <1>5, WithoutAppend
<1>9. /\ Without(Append(Without(s, a), c), b) =
           IF c.category # b THEN Append(Without(Without(s, a), b), c)
           ELSE Without(Without(s, a), b)
      /\ Without(Append(Without(s, b), c), a) =
           IF c.category # a THEN Append(Without(Without(s, b), a), c)
           ELSE Without(Without(s, b), a)
  BY <1>7, WithoutAppend
<1>10. Same(items)
  BY <1>6, <1>8, <1>9
<1> QED
  BY <1>3, <1>10

\* A suffix, item by item.
LEMMA SuffixItems ==
    ASSUME NEW S, NEW s \in Seq(S), NEW t \in Seq(S)
    PROVE  IsSuffix(s, t) <=>
             /\ Len(s) <= Len(t)
             /\ \A i \in 1..Len(s) : s[i] = t[Len(t) - Len(s) + i]
<1> DEFINE end == SubSeq(t, Len(t) - Len(s) + 1, Len(t))
<1>1. ASSUME Len(s) <= Len(t)
      PROVE  /\ end \in Seq(S) /\ Len(end) = Len(s)
             /\ \A i \in 1..Len(s) : end[i] = t[Len(t) - Len(s) + i]
  BY <1>1
<1>2. ASSUME Len(s) <= Len(t), \A i \in 1..Len(s) : s[i] = t[Len(t) - Len(s) + i]
      PROVE  s = end
  <2> HIDE DEF end
  <2> QED
    BY <1>1, <1>2, SeqEqual
<1> QED
  BY <1>1, <1>2 DEF IsSuffix

\* A suffix of a suffix is one.
LEMMA SuffixTransitive ==
    ASSUME NEW S, NEW s \in Seq(S), NEW t \in Seq(S), NEW u \in Seq(S),
           IsSuffix(s, t), IsSuffix(t, u)
    PROVE  IsSuffix(s, u)
<1>1. /\ Len(s) \in Nat /\ Len(t) \in Nat /\ Len(u) \in Nat
      /\ Len(s) <= Len(t) /\ Len(t) <= Len(u)
      /\ \A i \in 1..Len(s) : s[i] = t[Len(t) - Len(s) + i]
      /\ \A i \in 1..Len(t) : t[i] = u[Len(u) - Len(t) + i]
  BY SuffixItems
<1>2. ASSUME NEW i \in 1..Len(s) PROVE s[i] = u[Len(u) - Len(s) + i]
  <2> DEFINE j == Len(t) - Len(s) + i
  <2>1. j \in 1..Len(t) /\ Len(u) - Len(t) + j = Len(u) - Len(s) + i
    BY <1>1
  <2>2. s[i] = t[j]
    BY <1>1
  <2> HIDE DEF j
  <2>3. t[j] = u[Len(u) - Len(t) + j]
    BY <1>1, <2>1
  <2> QED
    BY <2>1, <2>2, <2>3
<1>3. Len(s) <= Len(u)
  BY <1>1
<1> QED
  BY <1>2, <1>3, SuffixItems

\* Suffixes grow by the same item.
LEMMA SuffixAppend ==
    ASSUME NEW S, NEW s \in Seq(S), NEW t \in Seq(S), NEW c \in S, NEW d \in S
    PROVE  IsSuffix(Append(s, c), Append(t, d)) <=> c = d /\ IsSuffix(s, t)
<1> DEFINE n == Len(s)
           m == Len(t)
           longS == Append(s, c)
           longT == Append(t, d)
<1>1. /\ n \in Nat /\ m \in Nat
      /\ longS \in Seq(S) /\ Len(longS) = n + 1
      /\ longS[n + 1] = c /\ \A i \in 1..n : longS[i] = s[i]
      /\ longT \in Seq(S) /\ Len(longT) = m + 1
      /\ longT[m + 1] = d /\ \A i \in 1..m : longT[i] = t[i]
  OBVIOUS
<1>2. IsSuffix(s, t) <=> n <= m /\ \A i \in 1..n : s[i] = t[m - n + i]
  BY SuffixItems
<1>3. IsSuffix(longS, longT) <=>
        n <= m /\ \A i \in 1..(n + 1) : longS[i] = longT[m - n + i]
  <2> HIDE DEF longS, longT, n, m
  <2>1. IsSuffix(longS, longT) <=>
          /\ Len(longS) <= Len(longT)
          /\ \A i \in 1..Len(longS) : longS[i] = longT[Len(longT) - Len(longS) + i]
    BY <1>1, SuffixItems
  <2>2. (m + 1) - (n + 1) = m - n /\ (n + 1 <= m + 1 <=> n <= m)
    BY <1>1
  <2> QED
    BY <1>1, <2>1, <2>2
<1> HIDE DEF longS, longT, n, m
<1>4. ASSUME n <= m
      PROVE  (\A i \in 1..(n + 1) : longS[i] = longT[m - n + i]) <=>
               c = d /\ \A i \in 1..n : s[i] = t[m - n + i]
  <2>1. \A i \in 1..n : m - n + i \in 1..m
    BY <1>1, <1>4
  <2>2. \A i \in 1..n : longS[i] = s[i] /\ longT[m - n + i] = t[m - n + i]
    BY <1>1, <2>1
  <2>3. m - n + (n + 1) = m + 1 /\ n + 1 \in 1..(n + 1) /\ 1..n \subseteq 1..(n + 1)
    BY <1>1
  <2>4. \A i \in 1..(n + 1) : i \in 1..n \/ i = n + 1
    BY <1>1
  <2> QED
    BY <1>1, <2>2, <2>3, <2>4
<1> QED
  BY <1>2, <1>3, <1>4 DEF longS, longT

\* What is kept of a suffix is a suffix of what is kept.
LEMMA WithoutOfSuffix ==
    ASSUME NEW S, NEW category
    PROVE  \A s, t \in Seq(S) : IsSuffix(s, t) =>
             IsSuffix(Without(s, category), Without(t, category))
<1> DEFINE Rest(s) == Without(s, category)
           Holds(s) == \A t \in Seq(S) : IsSuffix(s, t) => IsSuffix(Rest(s), Rest(t))
           T == {n \in Nat : \E s \in Seq(S) : Len(s) = n /\ ~Holds(s)}
<1>1. SUFFICES ASSUME T # {} PROVE FALSE
  OBVIOUS
<1>2. PICK n \in T : \A m \in T : n <= m
  <2>1. T \subseteq Nat
    OBVIOUS
  <2> HIDE DEF T
  <2> QED
    BY <1>1, <2>1, Least
<1>3. PICK s \in Seq(S) : Len(s) = n /\ ~Holds(s)
  OBVIOUS
<1>4. PICK t \in Seq(S) : IsSuffix(s, t) /\ ~IsSuffix(Rest(s), Rest(t))
  BY <1>3
<1>5. Rest(s) \in Seq(S) /\ Rest(t) \in Seq(S)
  BY WithoutItems
<1>6. s # <<>>
  <2>1. ASSUME s = <<>> PROVE FALSE
    <3>1. Len(Rest(s)) = 0 /\ Len(Rest(t)) \in Nat
      BY <2>1, <1>5, WithoutNothing
    <3> HIDE DEF Rest
    <3>2. Len(Rest(s)) <= Len(Rest(t)) /\ 1..Len(Rest(s)) = {}
      BY <3>1
    <3>3. IsSuffix(Rest(s), Rest(t))
      BY <1>5, <3>2, SuffixItems
    <3> QED
      BY <1>4, <3>3
  <2> QED
    BY <2>1
<1>7. t # <<>>
  BY <1>4, <1>6 DEF IsSuffix
<1>8. PICK s1 \in Seq(S), c \in S : s = Append(s1, c)
  BY <1>6, SequenceEmptyOrAppend
<1>9. PICK t1 \in Seq(S), d \in S : t = Append(t1, d)
  BY <1>7, SequenceEmptyOrAppend
<1>10. c = d /\ IsSuffix(s1, t1)
  BY <1>4, <1>8, <1>9, SuffixAppend
<1>11. Holds(s1)
  <2>1. Len(s1) \in Nat /\ Len(s1) + 1 = n
    BY <1>3, <1>8
  <2>2. Len(s1) \notin T
    BY <1>2, <2>1
  <2> QED
    BY <2>1, <2>2
<1>12. IsSuffix(Rest(s1), Rest(t1))
  BY <1>10, <1>11
<1>13. /\ Rest(s) = IF c.category # category THEN Append(Rest(s1), c) ELSE Rest(s1)
       /\ Rest(t) = IF c.category # category THEN Append(Rest(t1), c) ELSE Rest(t1)
  BY <1>8, <1>9, <1>10, WithoutAppend
<1>14. Rest(s1) \in Seq(S) /\ Rest(t1) \in Seq(S)
  BY WithoutItems
<1>15. IsSuffix(Rest(s), Rest(t))
  <2> HIDE DEF Rest
  <2> QED
    BY <1>12, <1>13, <1>14, SuffixAppend
<1> QED
  BY <1>4, <1>15

\* The newest items, at most HistoryLimit.
LEMMA LimitedItems ==
    ASSUME NEW S, NEW s \in Seq(S)
    PROVE  /\ Limited(s) \in Seq(S)
           /\ Len(Limited(s)) <= HistoryLimit
           /\ IsSuffix(Limited(s), s)
<1>1. HistoryLimit \in Nat /\ HistoryLimit # 0 /\ Len(s) \in Nat
  BY SizesAssumption
<1>2. CASE Len(s) <= HistoryLimit
  <2>0. (IF Len(s) > HistoryLimit THEN Len(s) - HistoryLimit + 1 ELSE 1) = 1
    BY <1>1, <1>2
  <2>1. Limited(s) = SubSeq(s, 1, Len(s))
    BY <2>0, Zenon DEF Limited
  <2>2. SubSeq(s, 1, Len(s)) = s
    OBVIOUS
  <2>3. Limited(s) = s
    BY <2>1, <2>2
  <2>4. IsSuffix(s, s)
    <3>1. Len(s) - Len(s) + 1 = 1
      BY <1>1
    <3> QED
      BY <1>1, <2>2, <3>1 DEF IsSuffix
  <2> QED
    BY <1>2, <2>3, <2>4
<1>3. CASE Len(s) > HistoryLimit
  <2>1. Limited(s) = SubSeq(s, Len(s) - HistoryLimit + 1, Len(s))
    BY <1>1, <1>3 DEF Limited
  <2>2. Limited(s) \in Seq(S) /\ Len(Limited(s)) = HistoryLimit
    BY <1>1, <1>3, <2>1
  <2>3. IsSuffix(Limited(s), s)
    BY <1>1, <1>3, <2>1, <2>2 DEF IsSuffix
  <2> QED
    BY <1>1, <2>2, <2>3
<1> QED
  BY <1>1, <1>2, <1>3

-----------------------------------------------------------------------------
(* The output of a session *)

Chunk == [owner : Sessions, category : {"stdout", "stderr", "eval"}]

ChunksOK ==
    /\ output \in Seq(Chunk) /\ past.printed \in Seq(Chunk) /\ reader.output \in Seq(Chunk)
    /\ stderr \in [Sessions -> {"none", "reading", "checked", "gone"}]

\* Between reading RecentOutput and replacing it the reader holds what has at
\* most lost the output of a stderrReader.
KeptInv ==
    /\ OutputKept
    /\ reader.at = "evaluated" =>
         IsSuffix(Without(reader.output, "stderr"), Without(past.printed, "stderr"))

\* A stderrReader of another session holds a chunk only while none of that
\* session is filed here.
StrayInv ==
    \A g \in Sessions \ {session} :
        /\ \A i, j \in DOMAIN past.printed :
             past.printed[i].owner = g /\ past.printed[j].owner = g => i = j
        /\ stderr[g] = "checked" => \A i \in DOMAIN past.printed : past.printed[i].owner # g

HistoryInv == ChunksOK /\ KeptInv /\ StrayInv

\* Recording a chunk keeps the newest of what was printed.
LEMMA NewestKept ==
    ASSUME NEW S, NEW old \in Seq(S), NEW all \in Seq(S), NEW c \in S
    PROVE  /\ Limited(Append(old, c)) \in Seq(S) /\ Append(all, c) \in Seq(S)
           /\ Len(Limited(Append(old, c))) <= HistoryLimit
           /\ IsSuffix(old, all) => IsSuffix(Limited(Append(old, c)), Append(all, c))
           /\ \A category :
                IsSuffix(Without(old, category), Without(all, category)) =>
                  IsSuffix(Without(Limited(Append(old, c)), category),
                           Without(Append(all, c), category))
<1> DEFINE x == Append(old, c)
           y == Append(all, c)
           z == Limited(x)
<1>1. x \in Seq(S) /\ y \in Seq(S)
  OBVIOUS
<1>2. z \in Seq(S) /\ Len(z) <= HistoryLimit /\ IsSuffix(z, x)
  <2> HIDE DEF x
  <2> QED
    BY <1>1, LimitedItems
<1>3. IsSuffix(old, all) => IsSuffix(x, y)
  BY SuffixAppend
<1>4. ASSUME IsSuffix(old, all) PROVE IsSuffix(z, y)
  <2>1. IsSuffix(x, y)
    BY <1>3, <1>4
  <2> HIDE DEF x, y, z
  <2> QED
    BY <1>1, <1>2, <2>1, SuffixTransitive
<1>5. ASSUME NEW category, IsSuffix(Without(old, category), Without(all, category))
      PROVE  IsSuffix(Without(z, category), Without(y, category))
  <2> DEFINE wx == Without(x, category)
             wy == Without(y, category)
             wz == Without(z, category)
             wold == Without(old, category)
             wall == Without(all, category)
  <2>1. wold \in Seq(S) /\ wall \in Seq(S)
    BY WithoutItems
  <2>2. wx \in Seq(S) /\ wy \in Seq(S) /\ wz \in Seq(S)
    <3> HIDE DEF x, y, z
    <3> QED
      BY <1>1, <1>2, WithoutItems
  <2>3. /\ wx = IF c.category # category THEN Append(wold, c) ELSE wold
        /\ wy = IF c.category # category THEN Append(wall, c) ELSE wall
    BY WithoutAppend
  <2>4. IsSuffix(wx, wy)
    <3> HIDE DEF wx, wy, wold, wall
    <3>1. IsSuffix(wold, wall)
      BY <1>5 DEF wold, wall
    <3> QED
      BY <2>1, <2>3, <3>1, SuffixAppend
  <2>5. IsSuffix(wz, wx)
    <3> HIDE DEF x, z
    <3> QED
      BY <1>1, <1>2, WithoutOfSuffix
  <2> HIDE DEF wx, wy, wz
  <2>6. IsSuffix(wz, wy)
    BY <2>2, <2>4, <2>5, SuffixTransitive
  <2> QED
    BY <2>6 DEF wz, wy
<1> QED
  BY <1>1, <1>2, <1>4, <1>5

\* What is printed of g: at most one chunk, or none.
AtMostOne(items, g) ==
    \A i, j \in DOMAIN items : items[i].owner = g /\ items[j].owner = g => i = j

NoneOf(items, g) == \A i \in DOMAIN items : items[i].owner # g

\* A chunk of another owner adds nothing of g.
LEMMA NothingOfOthers ==
    ASSUME NEW S, NEW items \in Seq(S), NEW c \in S, NEW g, c.owner # g
    PROVE  /\ AtMostOne(items, g) => AtMostOne(Append(items, c), g)
           /\ NoneOf(items, g) => NoneOf(Append(items, c), g)
<1> DEFINE longer == Append(items, c)
           n == Len(items)
<1>1. /\ n \in Nat /\ DOMAIN items = 1..n /\ DOMAIN longer = 1..(n + 1)
      /\ longer[n + 1] = c /\ \A i \in 1..n : longer[i] = items[i]
  OBVIOUS
<1>2. \A i \in 1..(n + 1) : longer[i].owner = g => i \in 1..n /\ items[i].owner = g
  BY <1>1
<1> HIDE DEF longer, n
<1>3. /\ AtMostOne(items, g) => AtMostOne(longer, g)
      /\ NoneOf(items, g) => NoneOf(longer, g)
  BY <1>1, <1>2 DEF AtMostOne, NoneOf
<1> QED
  BY <1>3 DEF longer

\* The first chunk of g is one.
LEMMA FirstOfOwner ==
    ASSUME NEW S, NEW items \in Seq(S), NEW c \in S, NEW g, NoneOf(items, g)
    PROVE  AtMostOne(Append(items, c), g)
<1> DEFINE longer == Append(items, c)
           n == Len(items)
<1>1. /\ n \in Nat /\ DOMAIN items = 1..n /\ DOMAIN longer = 1..(n + 1)
      /\ longer[n + 1] = c /\ \A i \in 1..n : longer[i] = items[i]
  OBVIOUS
<1>2. \A i \in 1..(n + 1) : longer[i].owner = g => i = n + 1
  BY <1>1 DEF NoneOf
<1> HIDE DEF longer, n
<1>3. AtMostOne(longer, g)
  BY <1>1, <1>2 DEF AtMostOne
<1> QED
  BY <1>3 DEF longer

\* A filter adds nothing of g.
LEMMA WithoutOwners ==
    ASSUME NEW S, NEW items \in Seq(S), NEW category, NEW g
    PROVE  /\ AtMostOne(items, g) => AtMostOne(Without(items, category), g)
           /\ NoneOf(items, g) => NoneOf(Without(items, category), g)
<1> DEFINE kept == Kept(items, category)
           n == Cardinality(kept)
           less == Without(items, category)
<1>1. /\ kept \subseteq 1..Len(items) /\ n \in Nat /\ less \in Seq(S) /\ Len(less) = n
      /\ \A k \in 1..n : less[k] = items[Place(kept, k)]
  BY WithoutItems
<1>2. DOMAIN less = 1..n /\ Len(items) \in Nat /\ DOMAIN items = 1..Len(items)
  BY <1>1
<1> HIDE DEF kept, less
<1>3. \A k \in 1..n : Place(kept, k) \in DOMAIN items /\ Rank(kept, Place(kept, k)) = k
  BY <1>1, <1>2, PlaceOfRank
<1> HIDE DEF n
<1>4. ASSUME AtMostOne(items, g), NEW k \in 1..n, NEW l \in 1..n,
             less[k].owner = g, less[l].owner = g
      PROVE  k = l
  <2>1. Place(kept, k) = Place(kept, l)
    BY <1>1, <1>3, <1>4 DEF AtMostOne
  <2> QED
    BY <1>3, <2>1
<1>5. ASSUME NoneOf(items, g), NEW k \in 1..n PROVE less[k].owner # g
  BY <1>1, <1>3, <1>5 DEF NoneOf
<1>6. /\ AtMostOne(items, g) => AtMostOne(less, g)
      /\ NoneOf(items, g) => NoneOf(less, g)
  BY <1>2, <1>4, <1>5 DEF AtMostOne, NoneOf
<1> QED
  BY <1>6 DEF less

\* The output of a session that was just attached.
LEMMA NothingIsSuffix == IsSuffix(<<>>, <<>>)
<1>1. Len(<<>>) = 0 /\ SubSeq(<<>>, 1, 0) = <<>>
  BY SubSeqEmpty
<1> QED
  BY <1>1 DEF IsSuffix

\* Nothing was printed yet.
LEMMA HistoryInit == Init => HistoryInv
<1> SUFFICES ASSUME Init PROVE HistoryInv
  OBVIOUS
<1>1. output = <<>> /\ past.printed = <<>> /\ reader.output = <<>> /\ reader.at = "idle"
  BY DEF Init, IdleReader
<1>2. ChunksOK
  BY <1>1 DEF Init, ChunksOK
<1>3. <<>> \in Seq(Chunk) /\ Len(<<>>) = 0 /\ HistoryLimit \in Nat /\ DOMAIN <<>> = {}
  BY SizesAssumption
<1>4. IsSuffix(<<>>, <<>>)
  BY NothingIsSuffix
<1>5. KeptInv
  <2>1. Without(output, "stderr") = <<>> /\ Without(past.printed, "stderr") = <<>>
    BY <1>1, WithoutNothing, Zenon
  <2>2. /\ Len(output) <= HistoryLimit
        /\ IsSuffix(Without(output, "stderr"), Without(past.printed, "stderr"))
        /\ IsSuffix(output, past.printed)
    BY <1>1, <1>3, <1>4, <2>1
  <2> QED
    BY <1>1, <2>2 DEF KeptInv, OutputKept
<1>6. StrayInv
  BY <1>1, <1>3 DEF StrayInv
<1> QED
  BY <1>2, <1>5, <1>6 DEF HistoryInv

\* Steps that record nothing.
LEMMA HistoryKept ==
    ASSUME HistoryInv,
           output' = output, past'.printed = past.printed, stderr' = stderr,
           session' = session, "output" \in past.lost => "output" \in past'.lost,
           reader' = reader \/ (reader'.at # "evaluated" /\ reader'.output = <<>>)
    PROVE  HistoryInv'
<1>1. ChunksOK'
  <2>1. <<>> \in Seq(Chunk)
    OBVIOUS
  <2>2. reader'.output \in Seq(Chunk)
    BY <2>1, Zenon DEF HistoryInv, ChunksOK
  <2>3. output' \in Seq(Chunk) /\ past'.printed \in Seq(Chunk)
    BY Zenon DEF HistoryInv, ChunksOK
  <2>4. stderr' \in [Sessions -> {"none", "reading", "checked", "gone"}]
    BY DEF HistoryInv, ChunksOK
  <2> QED
    BY <2>2, <2>3, <2>4 DEF ChunksOK
<1>2. KeptInv'
  <2>1. /\ Len(output') <= HistoryLimit
        /\ IsSuffix(Without(output', "stderr"), Without(past'.printed, "stderr"))
        /\ "output" \in past.lost \/ IsSuffix(output', past'.printed)
    BY Zenon DEF HistoryInv, KeptInv, OutputKept
  <2>2. ASSUME reader'.at = "evaluated"
        PROVE  IsSuffix(Without(reader'.output, "stderr"), Without(past'.printed, "stderr"))
    BY <2>2, Zenon DEF HistoryInv, KeptInv
  <2> QED
    BY <2>1, <2>2 DEF KeptInv, OutputKept
<1>3. StrayInv'
  BY DEF HistoryInv, StrayInv
<1> QED
  BY <1>1, <1>2, <1>3 DEF HistoryInv

\* An attach starts afresh, the other steps of handlers record nothing.
LEMMA HistoryHandler ==
    ASSUME Types, HistoryInv, NEW h \in Handlers, HandlerStep(h)
    PROVE  HistoryInv'
<1>1. CASE Attaches(h)
  <2>1. /\ session \in Sessions /\ session + 1 \in Sessions
        /\ session' = session + 1 /\ output' = <<>> /\ past'.printed = <<>>
        /\ reader' = reader /\ reader.at = "idle" /\ DOMAIN <<>> = {}
        /\ stderr' = [stderr EXCEPT ![session + 1] = "reading"]
    BY <1>1, SizesAssumption DEF Attaches, Reset, Types, DataOK, Sessions
  <2>2. ChunksOK'
    BY <2>1 DEF HistoryInv, ChunksOK
  <2>3. <<>> \in Seq(Chunk) /\ Len(<<>>) = 0 /\ HistoryLimit \in Nat
    BY SizesAssumption
  <2>4. IsSuffix(<<>>, <<>>)
    BY NothingIsSuffix
  <2>5. KeptInv'
    <3>1. Without(output', "stderr") = <<>> /\ Without(past'.printed, "stderr") = <<>>
      BY <2>1, WithoutNothing, Zenon
    <3>2. /\ Len(output') <= HistoryLimit
          /\ IsSuffix(Without(output', "stderr"), Without(past'.printed, "stderr"))
          /\ IsSuffix(output', past'.printed)
      BY <2>1, <2>3, <2>4, <3>1
    <3> QED
      BY <2>1, <3>2 DEF KeptInv, OutputKept
  <2>6. StrayInv'
    BY <2>1 DEF StrayInv
  <2> QED
    BY <2>2, <2>5, <2>6 DEF HistoryInv
<1>2. CASE ~Attaches(h)
  <2>1. /\ output' = output /\ past'.printed = past.printed /\ stderr' = stderr
        /\ session' = session /\ reader' = reader
        /\ "output" \in past.lost => "output" \in past'.lost
    BY <1>2 DEF Types, DataOK, PastOK, HandlerStep, Begins, Writes, Updates, Sends, StoresBreakpoints,
                Answers, Encoded, dataVars
  <2> QED
    BY <2>1, HistoryKept
<1> QED
  BY <1>1, <1>2

\* A chunk recorded by the reader, or by a stderrReader.
LEMMA RecordedKept ==
    ASSUME Types, HistoryInv, NEW c \in Chunk, RecordOutput(c), reader' = reader,
           reader.at = "evaluated" => c.category = "stderr"
    PROVE  KeptInv' /\ output' \in Seq(Chunk) /\ past'.printed \in Seq(Chunk)
<1> DEFINE printed == past.printed
           more == Append(printed, c)
           limited == Limited(Append(output, c))
<1>1. past'.printed = more /\ past'.lost = past.lost /\ output' = limited
  BY DEF RecordOutput, Types
<1>2. /\ output \in Seq(Chunk) /\ printed \in Seq(Chunk)
      /\ reader.output \in Seq(Chunk) /\ HistoryInv
  BY DEF HistoryInv, ChunksOK
<1>3. /\ IsSuffix(Without(output, "stderr"), Without(printed, "stderr"))
      /\ "output" \in past.lost \/ IsSuffix(output, printed)
      /\ reader.at = "evaluated" =>
           IsSuffix(Without(reader.output, "stderr"), Without(printed, "stderr"))
  BY DEF HistoryInv, KeptInv, OutputKept
<1>4. /\ limited \in Seq(Chunk) /\ more \in Seq(Chunk) /\ Len(limited) <= HistoryLimit
      /\ IsSuffix(output, printed) => IsSuffix(limited, more)
      /\ IsSuffix(Without(limited, "stderr"), Without(more, "stderr"))
  BY <1>2, <1>3, NewestKept
<1>5. ASSUME reader.at = "evaluated", c.category = "stderr"
      PROVE  IsSuffix(Without(reader.output, "stderr"), Without(more, "stderr"))
  <2>1. Without(more, "stderr") = Without(printed, "stderr")
    BY <1>2, <1>5, WithoutAppend
  <2> QED
    BY <1>3, <1>5, <2>1
<1> QED
  BY <1>1, <1>3, <1>4, <1>5 DEF KeptInv, OutputKept

\* An output event, and a chunk of a stderrReader.
LEMMA HistoryRecords ==
    ASSUME Types, HistoryInv,
           Outputs \/ \E g \in Sessions : StderrRecords(g)
    PROVE  HistoryInv'
<1>2. ASSUME Outputs PROVE HistoryInv'
  <2> DEFINE c == [owner |-> session, category |-> "stdout"]
  <2>1. /\ c \in Chunk /\ c.owner = session /\ session' = session
        /\ RecordOutput(c) /\ reader' = reader /\ reader.at = "idle" /\ stderr' = stderr
        /\ past'.printed = Append(past.printed, c)
    BY <1>2 DEF Outputs, Types, DataOK, PastOK, Chunk, RecordOutput
  <2> HIDE DEF c
  <2>2. KeptInv' /\ output' \in Seq(Chunk) /\ past'.printed \in Seq(Chunk)
    BY <2>1, RecordedKept
  <2>3. ChunksOK'
    BY <2>1, <2>2 DEF HistoryInv, ChunksOK
  <2>4. StrayInv'
    <3> SUFFICES ASSUME NEW g \in Sessions \ {session}
                 PROVE  /\ AtMostOne(past'.printed, g)
                        /\ stderr[g] = "checked" => NoneOf(past'.printed, g)
      BY <2>1 DEF StrayInv, AtMostOne, NoneOf
    <3>1. /\ AtMostOne(past.printed, g)
          /\ stderr[g] = "checked" => NoneOf(past.printed, g)
      BY DEF HistoryInv, StrayInv, AtMostOne, NoneOf
    <3> QED
      BY <2>1, <3>1, NothingOfOthers DEF HistoryInv, ChunksOK
  <2> QED
    BY <2>2, <2>3, <2>4 DEF HistoryInv
<1>3. ASSUME NEW o \in Sessions, StderrRecords(o) PROVE HistoryInv'
  <2> DEFINE c == [owner |-> o, category |-> "stderr"]
  <2>1. /\ c \in Chunk /\ c.owner = o /\ c.category = "stderr" /\ session' = session
        /\ RecordOutput(c) /\ reader' = reader
        /\ stderr[o] = "checked" /\ stderr' = [stderr EXCEPT ![o] = "reading"]
        /\ past'.printed = Append(past.printed, c)
    BY <1>3 DEF StderrRecords, Types, DataOK, PastOK, Chunk, RecordOutput
  <2> HIDE DEF c
  <2>2. KeptInv' /\ output' \in Seq(Chunk) /\ past'.printed \in Seq(Chunk)
    BY <2>1, RecordedKept
  <2>3. ChunksOK'
    BY <2>1, <2>2 DEF HistoryInv, ChunksOK
  <2>4. StrayInv'
    <3> SUFFICES ASSUME NEW g \in Sessions \ {session}
                 PROVE  /\ AtMostOne(past'.printed, g)
                        /\ stderr'[g] = "checked" => NoneOf(past'.printed, g)
      BY <2>1 DEF StrayInv, AtMostOne, NoneOf
    <3>1. /\ AtMostOne(past.printed, g)
          /\ stderr[g] = "checked" => NoneOf(past.printed, g)
          /\ past.printed \in Seq(Chunk)
          /\ stderr \in [Sessions -> {"none", "reading", "checked", "gone"}]
      BY DEF HistoryInv, ChunksOK, StrayInv, AtMostOne, NoneOf
    <3>2. CASE g = o
      <4>1. AtMostOne(past'.printed, g)
        BY <2>1, <3>1, <3>2, FirstOfOwner
      <4>2. stderr'[g] # "checked"
        BY <2>1, <3>1, <3>2
      <4> QED
        BY <4>1, <4>2
    <3>3. CASE g # o
      BY <2>1, <3>1, <3>3, NothingOfOthers
    <3> QED
      BY <3>2, <3>3
  <2> QED
    BY <2>2, <2>3, <2>4 DEF HistoryInv
<1> QED
  BY <1>2, <1>3

\* The evaluation replaces the one before in what the reader had read as well as
\* in what was printed; of the chunks printed meanwhile only those of
\* stderrReaders are lost.
LEMMA HistoryEvaluates ==
    ASSUME Types, HistoryInv, StoresEvaluation
    PROVE  HistoryInv'
<1> DEFINE c == [owner |-> session, category |-> "eval"]
           held == reader.output
           printed == past.printed
           W(items) == Without(items, "stderr")
           E(items) == Without(items, "eval")
<1>1. /\ c \in Chunk /\ c.owner = session /\ c.category = "eval"
      /\ session' = session /\ stderr' = stderr /\ reader.at = "evaluated"
      /\ reader'.at = "idle" /\ reader'.output = <<>>
      /\ output' = Limited(Append(E(held), c))
      /\ past'.printed = Append(E(printed), c)
      /\ "output" \in past'.lost <=> "output" \in past.lost \/ output # held
  BY DEF StoresEvaluation, WithEvaluation, IdleReader, Types, DataOK, PastOK, Chunk
<1>2. held \in Seq(Chunk) /\ printed \in Seq(Chunk) /\ output \in Seq(Chunk)
  BY DEF HistoryInv, ChunksOK
<1>3. /\ IsSuffix(W(held), W(printed))
      /\ "output" \in past.lost \/ IsSuffix(output, printed)
  BY <1>1 DEF HistoryInv, KeptInv, OutputKept
<1>4. /\ E(held) \in Seq(Chunk) /\ E(printed) \in Seq(Chunk)
      /\ W(held) \in Seq(Chunk) /\ W(printed) \in Seq(Chunk)
  BY <1>2, WithoutItems
<1>5. IsSuffix(W(E(held)), W(E(printed)))
  <2>1. IsSuffix(E(W(held)), E(W(printed)))
    BY <1>3, <1>4, WithoutOfSuffix
  <2>2. E(W(held)) = W(E(held)) /\ E(W(printed)) = W(E(printed))
    BY <1>2, WithoutCommutes
  <2> QED
    BY <2>1, <2>2
<1>6. "output" \in past'.lost \/ IsSuffix(E(held), E(printed))
  <2>1. ASSUME "output" \notin past'.lost PROVE IsSuffix(E(held), E(printed))
    <3>1. output = held /\ IsSuffix(output, printed)
      BY <1>1, <1>3, <2>1
    <3>2. IsSuffix(held, printed)
      BY <3>1
    <3> QED
      BY <1>2, <3>2, WithoutOfSuffix
  <2> QED
    BY <2>1
<1> DEFINE eHeld == E(held)
           ePrinted == E(printed)
<1>7. /\ eHeld \in Seq(Chunk) /\ ePrinted \in Seq(Chunk)
      /\ IsSuffix(W(eHeld), W(ePrinted))
      /\ "output" \in past'.lost \/ IsSuffix(eHeld, ePrinted)
      /\ output' = Limited(Append(eHeld, c)) /\ past'.printed = Append(ePrinted, c)
  BY <1>1, <1>4, <1>5, <1>6
<1>8. StrayInv'
  <2> SUFFICES ASSUME NEW g \in Sessions \ {session}
               PROVE  /\ AtMostOne(past'.printed, g)
                      /\ stderr[g] = "checked" => NoneOf(past'.printed, g)
    BY <1>1 DEF StrayInv, AtMostOne, NoneOf
  <2>1. /\ AtMostOne(printed, g)
        /\ stderr[g] = "checked" => NoneOf(printed, g)
    BY DEF HistoryInv, StrayInv, AtMostOne, NoneOf
  <2>2. /\ AtMostOne(ePrinted, g)
        /\ stderr[g] = "checked" => NoneOf(ePrinted, g)
    BY <1>2, <2>1, WithoutOwners
  <2> HIDE DEF ePrinted, c
  <2>3. /\ AtMostOne(Append(ePrinted, c), g)
        /\ stderr[g] = "checked" => NoneOf(Append(ePrinted, c), g)
    <3>1. c \in Chunk /\ c.owner # g /\ ePrinted \in Seq(Chunk)
      BY <1>1, <1>7
    <3> QED
      BY <3>1, <2>2, NothingOfOthers
  <2> QED
    BY <1>7, <2>3
<1> HIDE DEF c, eHeld, ePrinted
<1> HIDE DEF W
<1>9. /\ output' \in Seq(Chunk) /\ past'.printed \in Seq(Chunk)
      /\ Len(output') <= HistoryLimit
      /\ "output" \in past'.lost \/ IsSuffix(output', past'.printed)
      /\ IsSuffix(W(output'), W(past'.printed))
  <2> DEFINE after == Limited(Append(eHeld, c))
             more == Append(ePrinted, c)
  <2>1. /\ after \in Seq(Chunk) /\ more \in Seq(Chunk) /\ Len(after) <= HistoryLimit
        /\ IsSuffix(eHeld, ePrinted) => IsSuffix(after, more)
        /\ IsSuffix(Without(eHeld, "stderr"), Without(ePrinted, "stderr")) =>
             IsSuffix(Without(after, "stderr"), Without(more, "stderr"))
    BY <1>1, <1>7, NewestKept
  <2> HIDE DEF after, more
  <2>2. output' = after /\ past'.printed = more
    BY <1>7 DEF after, more
  <2> QED
    BY <1>7, <2>1, <2>2 DEF W
<1>10. ChunksOK'
  <2>1. <<>> \in Seq(Chunk)
    OBVIOUS
  <2> QED
    BY <1>1, <1>9, <2>1, Zenon DEF HistoryInv, ChunksOK
<1>11. KeptInv'
  <2>1. OutputKept'
    BY <1>9, Zenon DEF OutputKept, W
  <2> QED
    BY <1>1, <2>1 DEF KeptInv
<1> QED
  BY <1>8, <1>10, <1>11 DEF HistoryInv

\* Every step keeps what is known of the output.
LEMMA HistoryNext ==
    ASSUME Types, HistoryInv, Next
    PROVE  HistoryInv'
<1>1. CASE \E h \in Handlers : HandlerStep(h)
  BY <1>1, HistoryHandler
<1>2. CASE Outputs \/ \E g \in Sessions : StderrRecords(g)
  BY <1>2, HistoryRecords
<1>3. CASE StoresEvaluation
  BY <1>3, HistoryEvaluates
<1>4. ASSUME NEW a \in asked, EvaluationArrives(a) PROVE HistoryInv'
  <2>1. /\ output' = output /\ past' = past /\ stderr' = stderr /\ session' = session
        /\ reader'.output = output
    BY <1>4 DEF EvaluationArrives, IdleReader
  <2>2. ChunksOK'
    BY <2>1 DEF HistoryInv, ChunksOK
  <2>3. KeptInv'
    BY <2>1 DEF HistoryInv, KeptInv, OutputKept
  <2>4. StrayInv'
    BY <2>1 DEF HistoryInv, StrayInv
  <2> QED
    BY <2>2, <2>3, <2>4 DEF HistoryInv
<1>5. ASSUME NEW a \in asked, StackArrives(a) \/ BreakpointsArrive(a) \/ EmptyArrives(a)
      PROVE  HistoryInv'
  <2>1. /\ output' = output /\ stderr' = stderr /\ session' = session
        /\ past'.printed = past.printed /\ past'.lost = past.lost
        /\ reader' = reader \/ (reader'.at # "evaluated" /\ reader'.output = <<>>)
    BY <1>5 DEF Types, PastOK, StackArrives, BreakpointsArrive, EmptyArrives, Outcome, IdleReader,
                dataVars
  <2> QED
    BY <2>1, HistoryKept
<1>6. CASE WaitsForServer \/ Stops \/ StoresClearing \/ MapFault
  <2>1. /\ output' = output /\ past'.printed = past.printed /\ stderr' = stderr
        /\ session' = session
        /\ "output" \in past.lost => "output" \in past'.lost
        /\ reader' = reader \/ (reader'.at # "evaluated" /\ reader'.output = <<>>)
    <3>1. CASE WaitsForServer \/ MapFault
      BY <3>1 DEF WaitsForServer, MapFault, dataVars
    <3>2. CASE Stops
      BY <3>2 DEF Types, DataOK, PastOK, Stops, dataVars
    <3>3. CASE StoresClearing
      BY <3>3 DEF Types, DataOK, PastOK, StoresClearing, IdleReader
    <3> QED
      BY <1>6, <3>1, <3>2, <3>3
  <2> QED
    BY <2>1, HistoryKept
<1>7. ASSUME NEW g \in Sessions, StderrReads(g) PROVE HistoryInv'
  <2>1. /\ output' = output /\ past' = past /\ session' = session /\ reader' = reader
        /\ stderr' = [stderr EXCEPT ![g] = IF g = session THEN "checked" ELSE "gone"]
    BY <1>7 DEF StderrReads, IsCurrent, dataVars
  <2>2. ChunksOK'
    BY <2>1 DEF HistoryInv, ChunksOK
  <2>3. KeptInv'
    <3>1. OutputKept'
      BY <2>1, Zenon DEF HistoryInv, KeptInv, OutputKept
    <3> QED
      BY <2>1, <3>1, Zenon DEF HistoryInv, KeptInv
  <2>4. \A o \in Sessions \ {session} : stderr'[o] = "checked" => stderr[o] = "checked"
    BY <2>1 DEF HistoryInv, ChunksOK
  <2>5. StrayInv'
    BY <2>1, <2>4 DEF HistoryInv, StrayInv
  <2> QED
    BY <2>2, <2>3, <2>5 DEF HistoryInv
<1> QED
  BY <1>1, <1>2, <1>3, <1>4, <1>5, <1>6, <1>7 DEF Next, ReaderStep

LEMMA HistoryStutters ==
    ASSUME HistoryInv, UNCHANGED vars
    PROVE  HistoryInv'
<1>1. /\ output' = output /\ past' = past /\ stderr' = stderr /\ session' = session
      /\ reader' = reader
  BY DEF vars
<1> QED
  BY <1>1, HistoryKept

\* In every reachable state the output is what is left of what was printed.
THEOREM HistoryInvariance == Spec => []HistoryInv
<1>1. Init => HistoryInv
  BY HistoryInit
<1>2. Types /\ HistoryInv /\ [Next]_vars => HistoryInv'
  BY HistoryNext, HistoryStutters
<1>3. IInv => Types
  BY DEF IInv
<1> QED
  BY <1>1, <1>2, <1>3, Invariance, PTL DEF Spec

\* RecentOutput holds the newest chunks in the order they were recorded; only the
\* output of a stderrReader gets lost, between the read and the Update of an
\* evaluation.
THEOREM KeepsOutput == Spec => []OutputKept
<1>1. HistoryInv => OutputKept
  BY DEF HistoryInv, KeptInv
<1> QED
  BY <1>1, HistoryInvariance, PTL

\* A stderrReader that outlived its session files at most one chunk under a newer
\* one, as the SessionID is compared for every chunk that is read.
THEOREM OneChunkAstray == Spec => []OneStrayChunk
<1>1. HistoryInv => OneStrayChunk
  <2> SUFFICES ASSUME HistoryInv, NEW g \in Sessions \ {session}
               PROVE  Cardinality({i \in DOMAIN past.printed : past.printed[i].owner = g}) <= 1
    BY DEF OneStrayChunk
  <2> DEFINE own == {i \in DOMAIN past.printed : past.printed[i].owner = g}
  <2>1. \A i, j \in own : i = j
    BY DEF HistoryInv, StrayInv
  <2> HIDE DEF own
  <2>2. CASE own = {}
    BY <2>2, FS_EmptySet DEF own
  <2>3. CASE own # {}
    <3>1. PICK i : own = {i}
      BY <2>1, <2>3
    <3>2. Cardinality(own) = 1
      BY <3>1, FS_Singleton
    <3> QED
      BY <3>2 DEF own
  <2> QED
    BY <2>2, <2>3
<1> QED
  BY <1>1, HistoryInvariance, PTL

=============================================================================
