-------------------------- MODULE ClientRegistryProofs --------------------------
(***************************************************************************)
(* Proofs about ClientRegistry, for any number of CLIs, room in their      *)
(* connections, requests and events.                                       *)
(*                                                                         *)
(* Broadcasts nest because a send that fails begins another broadcast.     *)
(* Each of the nested ones, but the innermost, is held up at a CLI that    *)
(* was taken out of App.clients before the next began.  No CLI comes back  *)
(* under the same handler, so these CLIs are different ones.               *)
(***************************************************************************)
EXTENDS ClientRegistry, SequenceTheorems, FiniteSetTheorems, TLAPS

FrameType == [todo : SUBSET Clients, to : Clients \cup {Free}]

Began == {c \in Clients : cli[c] # "off"}

\* A stack of broadcasts: those below the innermost wait at CLIs that are not
\* registered, and that no later one goes to.
StackOK(stack, began, known) ==
    /\ stack \in Seq(FrameType)
    /\ \A i \in 1..Len(stack) :
          /\ stack[i].todo \subseteq began
          /\ stack[i].to \in began \cup {Free}
          /\ i < Len(stack) => stack[i].to # Free /\ stack[i].to \notin known
          /\ \A j \in 1..Len(stack) :
                i < j => /\ stack[j].to # stack[i].to
                         /\ stack[i].to \notin stack[j].todo

StacksOK == \A g \in Goroutines : StackOK(frames[g], Began, registered)

\* A CLI that the session lists is one that its handler will detach.
NamedInv == \A c \in listed : c \in named \/ pc[c] = "naming"

\* A CLI that did not come yet has no handler.
OffInv == \A c \in Clients : cli[c] = "off" => pc[c] = "none"

IInv ==
    /\ TypeOK /\ registered \subseteq Began
    /\ StacksOK /\ NamedInv /\ OffInv /\ ListedHasHandler

-----------------------------------------------------------------------------
(* Stacks of broadcasts *)

\* A broadcast goes to the CLIs that it copied.
LEMMA FramesType ==
    ASSUME NEW some \in SUBSET Clients, NEW f \in Frames(some)
    PROVE  /\ f \in FrameType /\ f.todo \subseteq some
           /\ f.to \in some \cup {Free} /\ f.to \notin f.todo
<1>1. CASE some = {}
  <2>1. f = [todo |-> {}, to |-> Free]
    BY <1>1 DEF Frames
  <2>2. QED
    BY <2>1, ActorsAssumption DEF FrameType
<1>2. CASE some # {}
  <2>1. PICK c \in some : f = [todo |-> some \ {c}, to |-> c]
    BY <1>2 DEF Frames
  <2>2. QED
    BY <2>1 DEF FrameType
<1>3. QED
  BY <1>1, <1>2

\* What is below the innermost broadcast.
LEMMA OuterType ==
    ASSUME NEW stack \in Seq(FrameType), stack # <<>>
    PROVE  /\ Outer(stack) \in Seq(FrameType)
           /\ Len(stack) \in Nat /\ Len(stack) > 0
           /\ Len(Outer(stack)) = Len(stack) - 1
           /\ \A i \in 1..(Len(stack) - 1) : Outer(stack)[i] = stack[i]
           /\ Innermost(stack) \in FrameType
<1> HIDE DEF FrameType
<1>1. Len(stack) \in Nat /\ Len(stack) > 0 /\ Len(stack) \in 1..Len(stack)
  BY EmptySeq, LenProperties
<1>2. \A i \in 1..Len(stack) : stack[i] \in FrameType
  BY ElementOfSeq
<1> DEFINE n == Len(stack) - 1
<1>3. n \in Int /\ n >= 0 /\ \A i \in 1..n : stack[i] \in FrameType
  BY <1>1, <1>2
<1>4. Outer(stack) = SubSeq(stack, 1, n) /\ Innermost(stack) = stack[Len(stack)]
  BY DEF Outer, Innermost
<1> HIDE DEF n
<1>5. /\ Outer(stack) \in Seq(FrameType)
      /\ Len(Outer(stack)) = IF 1 <= n THEN n - 1 + 1 ELSE 0
      /\ \A i \in 1..(n - 1 + 1) : Outer(stack)[i] = stack[1 + i - 1]
  BY <1>3, <1>4, SubSeqProperties
<1>6. Len(Outer(stack)) = Len(stack) - 1
  <2>1. Len(Outer(stack)) = n
    BY <1>3, <1>5
  <2>2. QED
    BY <2>1 DEF n
<1>7. ASSUME NEW i \in 1..(Len(stack) - 1) PROVE Outer(stack)[i] = stack[i]
  <2>1. i \in 1..(n - 1 + 1) /\ 1 + i - 1 = i
    BY <1>3 DEF n
  <2>2. QED
    BY <1>5, <2>1
<1>8. Outer(stack) \in Seq(FrameType) /\ Innermost(stack) \in FrameType
  BY <1>1, <1>2, <1>5, <1>4
<1>9. QED
  BY <1>1, <1>6, <1>7, <1>8

LEMMA OuterOK ==
    ASSUME NEW began, NEW known, NEW stack, StackOK(stack, began, known), stack # <<>>
    PROVE  StackOK(Outer(stack), began, known)
<1>1. stack \in Seq(FrameType)
  BY DEF StackOK
<1> HIDE DEF FrameType
<1>2. /\ Outer(stack) \in Seq(FrameType)
      /\ Len(stack) \in Nat /\ Len(stack) > 0
      /\ Len(Outer(stack)) = Len(stack) - 1
      /\ \A i \in 1..(Len(stack) - 1) : Outer(stack)[i] = stack[i]
  BY <1>1, OuterType
<1>3. \A i \in 1..Len(Outer(stack)) :
         i \in 1..Len(stack) /\ i < Len(stack) /\ Outer(stack)[i] = stack[i]
  BY <1>2
<1>4. QED
  BY <1>2, <1>3 DEF StackOK

\* The innermost broadcast may go on with any of the CLIs that it still has.
LEMMA ResumedOK ==
    ASSUME NEW began \in SUBSET Clients, NEW known, NEW stack,
           StackOK(stack, began, known), NEW next \in Resumed(stack)
    PROVE  StackOK(next, began, known)
<1>1. CASE stack = <<>>
  BY <1>1 DEF Resumed
<1>2. CASE stack # <<>>
  <2>1. stack \in Seq(FrameType)
    BY DEF StackOK
  <2>2. /\ Outer(stack) \in Seq(FrameType)
        /\ Len(stack) \in Nat /\ Len(stack) > 0
        /\ Len(Outer(stack)) = Len(stack) - 1
        /\ \A i \in 1..(Len(stack) - 1) : Outer(stack)[i] = stack[i]
        /\ stack[Len(stack)].todo \in SUBSET Clients
        /\ stack[Len(stack)].todo \subseteq began
    <3>1. Len(stack) \in 1..Len(stack)
      BY <1>2, <2>1, OuterType
    <3>2. QED
      BY <1>2, <2>1, <3>1, OuterType DEF StackOK
  <2>3. PICK f \in Frames(stack[Len(stack)].todo) : next = Append(Outer(stack), f)
    BY <1>2 DEF Resumed, Innermost
  <2>4. /\ f \in FrameType /\ f.todo \subseteq stack[Len(stack)].todo
        /\ f.to \in stack[Len(stack)].todo \cup {Free}
    BY <2>2, FramesType
  <2> HIDE DEF FrameType
  <2>5. /\ next \in Seq(FrameType) /\ Len(next) = Len(stack)
        /\ next[Len(stack)] = f
        /\ \A i \in 1..Len(stack) : i < Len(stack) => next[i] = stack[i]
    <3>1. /\ Append(Outer(stack), f) \in Seq(FrameType)
          /\ Len(Append(Outer(stack), f)) = Len(Outer(stack)) + 1
          /\ \A i \in 1..Len(Outer(stack)) : Append(Outer(stack), f)[i] = Outer(stack)[i]
          /\ Append(Outer(stack), f)[Len(Outer(stack)) + 1] = f
      BY <2>2, <2>4, AppendProperties
    <3>2. QED
      BY <2>2, <2>3, <3>1
  <2>6. ASSUME NEW i \in 1..Len(next), i < Len(next)
        PROVE  /\ next[i] = stack[i] /\ i \in 1..Len(stack) /\ Len(stack) \in 1..Len(stack)
               /\ stack[i].to # Free /\ stack[i].to \notin stack[Len(stack)].todo
    BY <2>2, <2>5, <2>6 DEF StackOK
  <2>7. \A i \in 1..Len(next) :
           /\ next[i].todo \subseteq began
           /\ next[i].to \in began \cup {Free}
           /\ i < Len(next) => next[i].to # Free /\ next[i].to \notin known
    BY <2>2, <2>4, <2>5 DEF StackOK
  <2>8. ASSUME NEW i \in 1..Len(next), NEW j \in 1..Len(next), i < j
        PROVE  next[j].to # next[i].to /\ next[i].to \notin next[j].todo
    <3>1. CASE j < Len(next)
      BY <2>2, <2>5, <2>8, <3>1 DEF StackOK
    <3>2. CASE j = Len(next)
      BY <2>2, <2>4, <2>5, <2>6, <2>8, <3>2
    <3>3. QED
      BY <2>2, <2>5, <3>1, <3>2
  <2>9. QED
    BY <2>5, <2>7, <2>8 DEF StackOK
<1>3. QED
  BY <1>1, <1>2

\* A broadcast may begin within one whose current CLI is not registered any more.
LEMMA PushedOK ==
    ASSUME NEW began \in SUBSET Clients, NEW known \in SUBSET began, NEW stack,
           StackOK(stack, began, known), NEW f \in Frames(known),
           stack # <<>> => Innermost(stack).to # Free /\ Innermost(stack).to \notin known
    PROVE  StackOK(Append(stack, f), began, known)
<1> DEFINE next == Append(stack, f)
<1>1. f \in FrameType /\ f.todo \subseteq known /\ f.to \in known \cup {Free}
  BY FramesType
<1>2. stack \in Seq(FrameType) /\ Len(stack) \in Nat
  BY LenProperties DEF StackOK
<1>3. Len(stack) # 0 => stack # <<>>
  OBVIOUS
<1> HIDE DEF FrameType
<1>4. /\ next \in Seq(FrameType) /\ Len(next) = Len(stack) + 1
      /\ \A i \in 1..Len(stack) : next[i] = stack[i]
      /\ next[Len(stack) + 1] = f
  BY <1>1, <1>2, AppendProperties
<1> HIDE DEF next
<1>5. \A i \in 1..Len(stack) : stack[i].to # Free /\ stack[i].to \notin known
  BY <1>2, <1>3 DEF StackOK, Innermost
<1>6. \A i \in 1..Len(next) : i \in 1..Len(stack) \/ i = Len(stack) + 1
  BY <1>2, <1>4
<1>7. \A i \in 1..Len(next) :
         /\ next[i].todo \subseteq began
         /\ next[i].to \in began \cup {Free}
         /\ i < Len(next) => next[i].to # Free /\ next[i].to \notin known
  BY <1>1, <1>2, <1>4, <1>5, <1>6 DEF StackOK
<1>8. ASSUME NEW i \in 1..Len(next), NEW j \in 1..Len(next), i < j
      PROVE  next[j].to # next[i].to /\ next[i].to \notin next[j].todo
  <2>1. i \in 1..Len(stack)
    BY <1>2, <1>4, <1>8
  <2>2. CASE j \in 1..Len(stack)
    BY <1>4, <1>8, <2>1, <2>2 DEF StackOK
  <2>3. CASE j = Len(stack) + 1
    BY <1>1, <1>4, <1>5, <2>1, <2>3
  <2>4. QED
    BY <1>6, <2>2, <2>3
<1>9. StackOK(next, began, known)
  BY <1>4, <1>7, <1>8 DEF StackOK
<1>10. QED
  BY <1>9 DEF next

LEMMA EmptyOK == ASSUME NEW began, NEW known PROVE StackOK(<<>>, began, known)
  BY DEF StackOK

\* Stacks do not mind CLIs that leave App.clients, nor those that just came.
LEMMA MonotonicOK ==
    ASSUME NEW began, NEW known, NEW stack, StackOK(stack, began, known),
           NEW more, NEW others, began \subseteq more, others \cap began \subseteq known
    PROVE  StackOK(stack, more, others)
<1>1. \A i \in 1..Len(stack) : stack[i].to # Free => stack[i].to \in began
  BY DEF StackOK
<1>2. QED
  BY <1>1 DEF StackOK

\* The CLIs that the broadcasts wait at are different.
LEMMA BoundedStack ==
    ASSUME NEW began \in SUBSET Clients, NEW known, NEW stack, StackOK(stack, began, known)
    PROVE  Len(stack) <= Cardinality(Clients) + 1
<1>1. Len(stack) \in Nat
  BY LenProperties DEF StackOK
<1>2. IsFiniteSet(Clients) /\ Cardinality(Clients) \in Nat
  BY SizesAssumption, FS_CardinalityType
<1>3. CASE Len(stack) = 0
  BY <1>2, <1>3
<1>4. CASE Len(stack) > 0
  <2> DEFINE S == 1..(Len(stack) - 1)
             f == [i \in S |-> stack[i].to]
  <2>1. \A i \in S : i \in 1..Len(stack) /\ i < Len(stack)
    BY <1>1
  <2>2. \A i \in S : stack[i].to \in Clients
    BY <2>1 DEF StackOK
  <2>3. \A i, j \in S : i # j => stack[i].to # stack[j].to
    <3>1. \A i, j \in S : i # j => i < j \/ j < i
      BY <1>1
    <3>2. QED
      BY <2>1, <3>1 DEF StackOK
  <2>4. f \in Injection(S, Clients)
    BY <2>2, <2>3 DEF Injection, IsInjective
  <2>5. Cardinality(S) <= Cardinality(Clients)
    BY <1>2, <2>4, FS_Injection
  <2>6. Cardinality(S) = Len(stack) - 1
    BY <1>1, <1>4, FS_Interval
  <2>7. QED
    BY <1>1, <1>2, <2>5, <2>6
<1>5. QED
  BY <1>1, <1>3, <1>4

-----------------------------------------------------------------------------
(* Steps: types *)

\* A goroutine moves on, within the labels there are.
LEMMA GotoType ==
    ASSUME TypeOK, NEW g \in Goroutines,
           NEW l \in {"none", "idle", "decoding", "naming", "locking", "broadcasting",
                      "replying", "leaving", "closing", "done"}, Goto(g, l)
    PROVE  /\ pc' \in [Goroutines -> {"none", "idle", "decoding", "naming", "locking",
                              "broadcasting", "replying", "leaving", "closing", "done"}]
           /\ pc'[g] = l /\ \A o \in Goroutines \ {g} : pc'[o] = pc[o]
  BY DEF TypeOK, Goto

\* What unregister does to the registry and to the broadcasts of g.
LEMMA UnregisterStep ==
    ASSUME IInv, NEW g \in Goroutines, NEW c \in Clients, NEW stack,
           StackOK(stack, Began, registered),
           stack # <<>> => Innermost(stack).to = c,
           Unregister(g, c, stack), UNCHANGED cli
    PROVE  /\ registered' = registered \ {c} /\ registered' \subseteq registered
           /\ listed' = IF c \in named THEN listed \ {c} ELSE listed
           /\ frames' \in [Goroutines -> Seq(FrameType)] /\ StacksOK'
<1>1. /\ registered' = registered \ {c}
      /\ listed' = IF c \in named THEN listed \ {c} ELSE listed
      /\ UNCHANGED Began
  BY DEF Unregister, Began
<1>2. PICK next \in IF c \in named THEN {Append(stack, f) : f \in Frames(registered \ {c})}
                    ELSE Resumed(stack) :
         frames' = [frames EXCEPT ![g] = next]
  BY DEF Unregister
<1>3. Began \in SUBSET Clients /\ registered \subseteq Began /\ c # Free
  BY ActorsAssumption DEF IInv, Began, Goroutines
<1>4. StackOK(next, Began, registered \ {c})
  <2>1. StackOK(stack, Began, registered \ {c})
    BY MonotonicOK
  <2>2. CASE c \in named
    <3>1. PICK f \in Frames(registered \ {c}) : next = Append(stack, f)
      BY <1>2, <2>2
    <3>2. registered \ {c} \in SUBSET Began
      BY <1>3
    <3>3. QED
      BY <1>3, <2>1, <3>1, <3>2, PushedOK
  <2>3. CASE c \notin named
    BY <1>2, <1>3, <2>1, <2>3, ResumedOK
  <2>4. QED
    BY <2>2, <2>3
<1>5. next \in Seq(FrameType)
  BY <1>4 DEF StackOK
<1>6. frames \in [Goroutines -> Seq(FrameType)]
  BY DEF IInv, TypeOK, FrameType
<1> HIDE DEF FrameType
<1>7. /\ frames' \in [Goroutines -> Seq(FrameType)] /\ frames'[g] = next
      /\ \A o \in Goroutines \ {g} : frames'[o] = frames[o]
  BY <1>2, <1>5, <1>6
<1>8. \A o \in Goroutines : StackOK(frames[o], Began, registered \ {c})
  <2>1. \A o \in Goroutines : StackOK(frames[o], Began, registered)
    BY DEF IInv, StacksOK
  <2>2. (registered \ {c}) \cap Began \subseteq registered
    OBVIOUS
  <2>3. QED
    BY <2>1, <2>2, MonotonicOK
<1>9. \A o \in Goroutines : StackOK(frames'[o], Began', registered')
  BY <1>1, <1>4, <1>7, <1>8
<1>10. QED
  BY <1>1, <1>7, <1>9 DEF StacksOK

\* A goroutine begins, goes on with or ends broadcasts while the registry stays.
LEMMA BroadcastSame ==
    ASSUME IInv, NEW g \in Goroutines, NEW next, StackOK(next, Began, registered),
           frames' = [frames EXCEPT ![g] = next], UNCHANGED <<cli, registered>>
    PROVE  frames' \in [Goroutines -> Seq(FrameType)] /\ StacksOK'
<1>1. next \in Seq(FrameType) /\ UNCHANGED Began
  BY DEF StackOK, Began
<1>2. frames \in [Goroutines -> Seq(FrameType)]
  BY DEF IInv, TypeOK, FrameType
<1> HIDE DEF FrameType
<1>3. /\ frames' \in [Goroutines -> Seq(FrameType)] /\ frames'[g] = next
      /\ \A o \in Goroutines \ {g} : frames'[o] = frames[o]
  BY <1>1, <1>2
<1>4. \A o \in Goroutines : StackOK(frames'[o], Began', registered')
  BY <1>1, <1>3 DEF IInv, StacksOK
<1>5. QED
  BY <1>3, <1>4 DEF StacksOK

LEMMA BroadcastBegins ==
    ASSUME IInv, NEW g \in Goroutines, Broadcasts(g), UNCHANGED <<cli, registered>>
    PROVE  frames' \in [Goroutines -> Seq(FrameType)] /\ StacksOK'
<1>1. PICK f \in Frames(registered) : frames' = [frames EXCEPT ![g] = <<f>>]
  BY DEF Broadcasts
<1>2. Began \in SUBSET Clients /\ registered \in SUBSET Began /\ <<f>> = Append(<<>>, f)
  BY DEF IInv, Began
<1>3. StackOK(<<f>>, Began, registered)
  BY <1>2, EmptyOK, PushedOK
<1>4. QED
  BY <1>1, <1>3, BroadcastSame

-----------------------------------------------------------------------------
(* Steps: who is listed *)

\* Where a goroutine may go without being forgotten by the session.
LEMMA ListedSame ==
    ASSUME IInv, UNCHANGED <<listed, named>>, NEW g \in Goroutines,
           \A o \in Goroutines \ {g} : pc'[o] = pc[o],
           pc'[g] \notin {"none", "closing", "done"} \/ g \notin listed,
           pc[g] # "naming" \/ pc'[g] = "naming" \/ g \in named
    PROVE  NamedInv' /\ ListedHasHandler'
<1>1. listed \subseteq Goroutines
  BY DEF IInv, TypeOK, Goroutines
<1>2. QED
  BY <1>1 DEF IInv, NamedInv, ListedHasHandler

-----------------------------------------------------------------------------
(* Steps: one lemma for each action, or for several of a kind *)

Labels == {"none", "idle", "decoding", "naming", "locking", "broadcasting", "replying",
           "leaving", "closing", "done"}

\* The parts of the type invariant that steps of one goroutine change.
NetOK ==
    /\ requests \in [Clients -> Seq({"hello"} \cup RequestKinds)]
    /\ unread \in [Clients -> 0 .. Buffer]
    /\ dapMu \in Goroutines \cup {Free}
    /\ spent \in [requests : 0 .. MaxRequests, events : 0 .. MaxEvents]

LEMMA DeliveryType ==
    ASSUME TypeOK, NEW c \in Clients, Delivered(c)
    PROVE  unread' \in [Clients -> 0 .. Buffer]
<1>1. CASE unread[c] < Buffer /\ unread' = [unread EXCEPT ![c] = @ + 1]
  <2>1. unread[c] + 1 \in 0 .. Buffer
    BY <1>1, SizesAssumption DEF TypeOK
  <2>2. QED
    BY <1>1, <2>1 DEF TypeOK
<1>2. CASE UNCHANGED unread
  BY <1>2 DEF TypeOK
<1>3. QED
  BY <1>1, <1>2 DEF Delivered

LEMMA DecodeType ==
    ASSUME TypeOK, NEW c \in Clients, NEW what, Decodes(c, what)
    PROVE  requests' \in [Clients -> Seq({"hello"} \cup RequestKinds)]
<1> DEFINE R == {"hello"} \cup RequestKinds
<1>1. requests[c] \in Seq(R) /\ requests[c] # <<>> /\ requests' = [requests EXCEPT ![c] = Tail(@)]
  BY DEF TypeOK, Decodes
<1> HIDE DEF R
<1>2. Tail(requests[c]) \in Seq(R)
  BY <1>1, HeadTailProperties
<1>3. requests \in [Clients -> Seq(R)]
  BY DEF TypeOK, R
<1>4. requests' \in [Clients -> Seq(R)]
  BY <1>1, <1>2, <1>3
<1>5. QED
  BY <1>4 DEF R

LEMMA SameStacks ==
    ASSUME IInv, UNCHANGED <<cli, registered, frames>>
    PROVE  frames' \in [Goroutines -> Seq(FrameType)] /\ StacksOK'
<1>1. frames' \in [Goroutines -> Seq(FrameType)]
  BY DEF IInv, TypeOK, FrameType
<1>2. UNCHANGED Began
  BY DEF Began
<1>3. QED
  BY <1>1, <1>2 DEF IInv, StacksOK

\* A goroutine moves on, without a change of who is known.
LEMMA MoveKeeps ==
    ASSUME IInv, NEW g \in Goroutines, NEW l \in Labels \ {"none", "closing"}, Goto(g, l),
           l = "done" => g \notin listed, pc[g] \notin {"none", "naming"},
           frames' \in [Goroutines -> Seq(FrameType)], StacksOK', NetOK',
           UNCHANGED <<cli, registryVars>>
    PROVE  IInv'
<1>1. /\ pc' \in [Goroutines -> Labels] /\ pc'[g] = l
      /\ \A o \in Goroutines \ {g} : pc'[o] = pc[o]
  BY GotoType DEF IInv, Labels
<1>2. UNCHANGED <<cli, registered, listed, named>> /\ UNCHANGED Began
  BY DEF registryVars, Began
<1>3. TypeOK'
  BY <1>1, <1>2 DEF IInv, TypeOK, NetOK, Labels, FrameType
<1>4. NamedInv' /\ ListedHasHandler'
  BY <1>1, <1>2, ListedSame
<1>5. OffInv'
  BY <1>1, <1>2 DEF IInv, OffInv, Goroutines
<1>6. QED
  BY <1>2, <1>3, <1>4, <1>5 DEF IInv

\* Nobody moves on, and the same CLIs are known.
LEMMA StayKeeps ==
    ASSUME IInv, frames' \in [Goroutines -> Seq(FrameType)], StacksOK', NetOK',
           cli' \in [Clients -> {"off", "reading", "gone"}], Began \subseteq Began',
           UNCHANGED <<pc, registryVars>>
    PROVE  IInv'
<1>1. UNCHANGED <<registered, listed, named>>
  BY DEF registryVars
<1>2. TypeOK'
  BY <1>1 DEF IInv, TypeOK, NetOK, FrameType
<1>3. NamedInv' /\ ListedHasHandler' /\ registered' \subseteq Began'
  BY <1>1 DEF IInv, NamedInv, ListedHasHandler
<1>4. OffInv'
  BY DEF IInv, OffInv, Began
<1>5. QED
  BY <1>2, <1>3, <1>4 DEF IInv

LEMMA ConnectKeeps == ASSUME IInv, NEW c \in Clients, Connects(c) PROVE IInv'
<1>1. /\ cli[c] = "off" /\ cli' = [cli EXCEPT ![c] = "reading"]
      /\ requests' = [requests EXCEPT ![c] = <<"hello">>]
      /\ registered' = registered \cup {c} /\ Goto(c, "decoding")
      /\ UNCHANGED <<unread, listed, named, frames, dapMu, spent>>
  BY DEF Connects
<1>2. c \in Goroutines
  BY DEF Goroutines
<1>3. /\ pc' \in [Goroutines -> Labels] /\ pc'[c] = "decoding"
      /\ \A o \in Goroutines \ {c} : pc'[o] = pc[o]
  BY <1>1, <1>2, GotoType DEF IInv, Labels
<1>4. /\ cli' \in [Clients -> {"off", "reading", "gone"}]
      /\ Began' = Began \cup {c} /\ c \notin Began
  BY <1>1 DEF IInv, TypeOK, Began
<1>5. requests' \in [Clients -> Seq({"hello"} \cup RequestKinds)]
  <2>1. <<"hello">> \in Seq({"hello"} \cup RequestKinds)
    OBVIOUS
  <2> DEFINE R == Seq({"hello"} \cup RequestKinds)
  <2>2. requests \in [Clients -> R] /\ <<"hello">> \in R
    BY <2>1 DEF IInv, TypeOK
  <2> HIDE DEF R
  <2>3. requests' \in [Clients -> R]
    BY <1>1, <2>2
  <2>4. QED
    BY <2>3 DEF R
<1>6. TypeOK'
  BY <1>1, <1>3, <1>4, <1>5 DEF IInv, TypeOK, Labels
<1>7. StacksOK'
  <2>1. registered' \cap Began \subseteq registered /\ Began \subseteq Began' /\ UNCHANGED frames
    BY <1>1, <1>4
  <2>2. QED
    BY <2>1, MonotonicOK DEF IInv, StacksOK
<1>8. NamedInv' /\ ListedHasHandler'
  <2>1. pc'[c] = "decoding" /\ UNCHANGED <<listed, named>>
    BY <1>1, <1>3
  <2>2. pc[c] = "none"
    BY <1>1 DEF IInv, OffInv
  <2>3. QED
    BY <1>2, <1>3, <2>1, <2>2, ListedSame
<1>9. registered' \subseteq Began'
  BY <1>1, <1>4 DEF IInv
<1>10. OffInv'
  BY <1>1, <1>2, <1>3 DEF IInv, OffInv, TypeOK, Goroutines
<1>11. QED
  BY <1>6, <1>7, <1>8, <1>9, <1>10 DEF IInv

LEMMA CLIKeeps ==
    ASSUME IInv, NEW c \in Clients,
           (\E what \in Requests : Asks(c, what)) \/ Reads(c) \/ HangsUp(c)
    PROVE  IInv'
<1>1. NetOK
  BY DEF IInv, TypeOK, NetOK
<1>2. UNCHANGED <<pc, frames, dapMu>> /\ UNCHANGED registryVars
  BY DEF Asks, Reads, HangsUp
<1>3. cli' \in [Clients -> {"off", "reading", "gone"}] /\ Began' = Began
  BY DEF Asks, Reads, HangsUp, IInv, TypeOK, Began
<1>4. unread' \in [Clients -> 0 .. Buffer]
  <2>1. CASE Reads(c)
    <3>1. unread[c] - 1 \in 0 .. Buffer
      BY <2>1, SizesAssumption DEF Reads, IInv, TypeOK
    <3>2. QED
      BY <2>1, <3>1 DEF Reads, IInv, TypeOK
  <2>2. CASE UNCHANGED unread
    BY <2>2 DEF IInv, TypeOK
  <2>3. QED
    BY <2>1, <2>2 DEF Asks, HangsUp, netVars
<1>5. requests' \in [Clients -> Seq({"hello"} \cup RequestKinds)]
  <2>1. CASE \E what \in Requests : Asks(c, what)
    <3>1. PICK what \in RequestKinds : requests' = [requests EXCEPT ![c] = Append(@, what)]
      BY <2>1, ActorsAssumption DEF Asks
    <3> DEFINE R == {"hello"} \cup RequestKinds
    <3>2. requests \in [Clients -> Seq(R)] /\ what \in R
      BY DEF IInv, TypeOK
    <3> HIDE DEF R
    <3>3. Append(requests[c], what) \in Seq(R)
      BY <3>2, AppendProperties
    <3>4. requests' \in [Clients -> Seq(R)]
      BY <3>1, <3>2, <3>3
    <3>5. QED
      BY <3>4 DEF R
  <2>2. CASE UNCHANGED requests
    BY <1>1, <2>2 DEF NetOK
  <2>3. QED
    BY <2>1, <2>2 DEF Reads, HangsUp, netVars
<1>6. spent' \in [requests : 0 .. MaxRequests, events : 0 .. MaxEvents]
  <2>1. CASE spent.requests < MaxRequests /\ spent' = [spent EXCEPT !.requests = @ + 1]
    <3>1. spent.requests + 1 \in 0 .. MaxRequests
      BY <2>1, SizesAssumption DEF IInv, TypeOK
    <3>2. QED
      BY <2>1, <3>1 DEF IInv, TypeOK
  <2>2. CASE UNCHANGED spent
    BY <2>2 DEF IInv, TypeOK
  <2>3. QED
    BY <2>1, <2>2 DEF Asks, Reads, HangsUp
<1>7. NetOK'
  BY <1>1, <1>2, <1>4, <1>5, <1>6 DEF NetOK
<1>8. StacksOK' /\ frames' \in [Goroutines -> Seq(FrameType)]
  <2>1. frames \in [Goroutines -> Seq(FrameType)]
    BY DEF IInv, TypeOK, FrameType
  <2>2. StacksOK'
    BY <1>2, <1>3 DEF IInv, StacksOK, registryVars
  <2>3. QED
    BY <1>2, <2>1, <2>2
<1>9. QED
  BY <1>2, <1>3, <1>7, <1>8, StayKeeps

\* Steps of a handler that concern only itself and its connection.
LEMMA HandlerKeeps ==
    ASSUME IInv, NEW c \in Clients,
           \/ HandlesStatus(c) \/ HandlesStop(c) \/ Replies(c) \/ ReplyFails(c)
           \/ DecodeFails(c) \/ BroadcastDone(c) \/ Closes(c)
    PROVE  IInv'
<1>1. c \in Goroutines /\ TypeOK /\ NetOK
  BY DEF Goroutines, IInv, TypeOK, NetOK
<1>2. /\ UNCHANGED <<cli, registryVars, frames, spent>>
      /\ frames' \in [Goroutines -> Seq(FrameType)] /\ StacksOK'
  <2>1. UNCHANGED <<cli, registryVars, frames, spent>> /\ UNCHANGED registered
    BY DEF HandlesStatus, HandlesStop, Replies, ReplyFails, DecodeFails, BroadcastDone,
           Closes, registryVars
  <2>2. QED
    BY <2>1, SameStacks
<1>3. NetOK'
  <2>1. requests' \in [Clients -> Seq({"hello"} \cup RequestKinds)]
    <3>1. CASE UNCHANGED requests
      BY <1>1, <3>1 DEF NetOK
    <3>2. CASE HandlesStatus(c) \/ HandlesStop(c)
      BY <1>1, <3>2, DecodeType DEF HandlesStatus, HandlesStop
    <3>3. QED
      BY <3>1, <3>2 DEF Replies, ReplyFails, DecodeFails, BroadcastDone, Closes, netVars
  <2>2. unread' \in [Clients -> 0 .. Buffer]
    <3>1. CASE UNCHANGED unread
      BY <1>1, <3>1 DEF NetOK
    <3>2. CASE Replies(c)
      BY <1>1, <3>2, DeliveryType DEF Replies
    <3>3. QED
      BY <3>1, <3>2 DEF HandlesStatus, HandlesStop, ReplyFails, DecodeFails, BroadcastDone,
                        Closes, netVars
  <2>3. dapMu' \in Goroutines \cup {Free}
    BY <1>1 DEF NetOK, HandlesStatus, HandlesStop, Replies, ReplyFails, DecodeFails,
                BroadcastDone, Closes
  <2>4. QED
    BY <1>1, <1>2, <2>1, <2>2, <2>3 DEF NetOK
<1>4. /\ pc[c] \notin {"none", "naming"}
      /\ \E l \in Labels \ {"none", "closing"} :
            Goto(c, l) /\ (l = "done" => pc[c] = "closing")
  BY DEF HandlesStatus, HandlesStop, Replies, ReplyFails, DecodeFails, BroadcastDone, Closes,
         Decodes, Labels
<1>5. pc[c] = "closing" => c \notin listed
  BY DEF IInv, ListedHasHandler
<1>6. QED
  BY <1>1, <1>2, <1>3, <1>4, <1>5, MoveKeeps

\* hello makes the CLI listed before the handler has its clientID.
LEMMA HelloKeeps ==
    ASSUME IInv, NEW c \in Clients, HandlesHello(c) \/ TakesName(c)
    PROVE  IInv'
<1>1. c \in Goroutines /\ TypeOK /\ NetOK
  BY DEF Goroutines, IInv, TypeOK, NetOK
<1>2. /\ UNCHANGED <<cli, unread, registered, frames, dapMu, spent>> /\ UNCHANGED Began
      /\ frames' \in [Goroutines -> Seq(FrameType)] /\ StacksOK'
  <2>1. UNCHANGED <<cli, unread, registered, frames, dapMu, spent>>
    BY DEF HandlesHello, TakesName, netVars
  <2>2. QED
    BY <2>1, SameStacks DEF Began
<1>3. NetOK'
  <2>1. requests' \in [Clients -> Seq({"hello"} \cup RequestKinds)]
    <3>1. CASE UNCHANGED requests
      BY <1>1, <3>1 DEF NetOK
    <3>2. CASE HandlesHello(c)
      BY <1>1, <3>2, DecodeType DEF HandlesHello
    <3>3. QED
      BY <3>1, <3>2 DEF TakesName, netVars
  <2>2. QED
    BY <1>1, <1>2, <2>1 DEF NetOK
<1>4. PICK l \in Labels : Goto(c, l) /\ l \in {"naming", "replying"}
  BY DEF HandlesHello, TakesName, Labels
<1>5. /\ pc' \in [Goroutines -> Labels] /\ pc'[c] = l
      /\ \A o \in Goroutines \ {c} : pc'[o] = pc[o]
  BY <1>1, <1>4, GotoType DEF Labels
<1>6. listed' \subseteq Clients /\ named' \subseteq Clients
  BY <1>1 DEF TypeOK, HandlesHello, TakesName
<1>7. TypeOK'
  BY <1>1, <1>2, <1>3, <1>5, <1>6 DEF TypeOK, NetOK, Labels, FrameType
<1>8. NamedInv' /\ ListedHasHandler'
  <2>1. CASE HandlesHello(c)
    <3>1. listed' = listed \cup {c} /\ UNCHANGED named /\ pc'[c] = "naming"
      BY <1>1, <1>5, <2>1 DEF HandlesHello, Goto, TypeOK
    <3>2. QED
      BY <1>1, <1>5, <3>1 DEF IInv, TypeOK, NamedInv, ListedHasHandler, Goroutines
  <2>2. CASE TakesName(c)
    <3>1. named' = named \cup {c} /\ UNCHANGED listed /\ pc'[c] = "replying"
      BY <1>1, <1>5, <2>2 DEF TakesName, Goto, TypeOK
    <3>2. QED
      BY <1>1, <1>5, <3>1 DEF IInv, TypeOK, NamedInv, ListedHasHandler, Goroutines
  <2>3. QED
    BY <2>1, <2>2
<1>9. OffInv'
  <2>1. pc[c] # "none"
    BY DEF HandlesHello, TakesName, Decodes
  <2>2. QED
    BY <1>1, <1>2, <1>5, <2>1 DEF IInv, OffInv, Goroutines
<1>10. QED
  BY <1>2, <1>7, <1>8, <1>9 DEF IInv

\* Whoever changes the session broadcasts it, with dapMu or without.
LEMMA ChangeKeeps ==
    ASSUME IInv, NEW g \in Goroutines,
           \/ g \in Clients /\ (HandlesBreakpoint(g) \/ LocksForStop(g))
           \/ g = Reader /\ ReaderChanges
    PROVE  IInv'
<1>1. TypeOK /\ NetOK
  BY DEF IInv, TypeOK, NetOK
<1>2. Broadcasts(g) /\ UNCHANGED <<cli, registryVars, unread>> /\ UNCHANGED registered
  BY DEF HandlesBreakpoint, LocksForStop, ReaderChanges, registryVars, netVars
<1>3. frames' \in [Goroutines -> Seq(FrameType)] /\ StacksOK'
  BY <1>2, BroadcastBegins
<1>4. Goto(g, "broadcasting") /\ pc[g] \notin {"none", "naming"}
  BY DEF HandlesBreakpoint, LocksForStop, ReaderChanges, Decodes
<1>5. requests' \in [Clients -> Seq({"hello"} \cup RequestKinds)]
  <2>1. CASE UNCHANGED requests
    BY <1>1, <2>1 DEF NetOK
  <2>2. CASE g \in Clients /\ HandlesBreakpoint(g)
    BY <1>1, <2>2, DecodeType DEF HandlesBreakpoint
  <2>3. QED
    BY <2>1, <2>2 DEF LocksForStop, ReaderChanges, netVars
<1>6. spent' \in [requests : 0 .. MaxRequests, events : 0 .. MaxEvents]
  <2>1. CASE spent.events < MaxEvents /\ spent' = [spent EXCEPT !.events = @ + 1]
    <3>1. spent.events + 1 \in 0 .. MaxEvents
      BY <2>1, SizesAssumption DEF IInv, TypeOK
    <3>2. QED
      BY <2>1, <3>1 DEF IInv, TypeOK
  <2>2. CASE UNCHANGED spent
    BY <2>2 DEF IInv, TypeOK
  <2>3. QED
    BY <2>1, <2>2 DEF HandlesBreakpoint, LocksForStop, ReaderChanges
<1>7. dapMu' \in Goroutines \cup {Free}
  BY <1>1 DEF NetOK, HandlesBreakpoint, LocksForStop, ReaderChanges
<1>8. NetOK'
  BY <1>1, <1>2, <1>5, <1>6, <1>7 DEF NetOK
<1>9. "broadcasting" \in Labels \ {"none", "closing"}
  BY DEF Labels
<1>10. QED
  BY <1>2, <1>3, <1>4, <1>8, <1>9, MoveKeeps

LEMMA UnlockKeeps == ASSUME IInv, ReaderUnlocks PROVE IInv'
<1>1. Reader \in Goroutines /\ "idle" \in Labels \ {"none", "closing"} /\ NetOK
  BY DEF Goroutines, Labels, IInv, TypeOK, NetOK
<1>2. /\ pc[Reader] \notin {"none", "naming"} /\ dapMu' = Free /\ Goto(Reader, "idle")
      /\ UNCHANGED <<cli, netVars, registryVars, frames, spent>>
  BY DEF ReaderUnlocks
<1>3. frames' \in [Goroutines -> Seq(FrameType)] /\ StacksOK'
  BY <1>2, SameStacks DEF registryVars
<1>4. NetOK'
  BY <1>1, <1>2 DEF NetOK, netVars
<1>5. QED
  BY <1>1, <1>2, <1>3, <1>4, MoveKeeps

\* The CLI that a broadcast waits at is one that came.
LEMMA InnermostType ==
    ASSUME IInv, NEW g \in Goroutines, frames[g] # <<>>
    PROVE  /\ StackOK(frames[g], Began, registered) /\ Began \in SUBSET Clients
           /\ Innermost(frames[g]).to \in Clients \cup {Free}
<1>1. StackOK(frames[g], Began, registered) /\ Began \in SUBSET Clients
  BY DEF IInv, StacksOK, Began
<1>2. Len(frames[g]) \in 1..Len(frames[g])
  BY <1>1, OuterType DEF StackOK
<1>3. QED
  BY <1>1, <1>2 DEF StackOK, Innermost

\* A broadcast goes on with the next CLI, or returns to the one around it.
LEMMA SendKeeps == ASSUME IInv, NEW g \in Goroutines, Sends(g) \/ Returns(g) PROVE IInv'
<1>1. /\ frames[g] # <<>>
      /\ UNCHANGED <<cli, requests, registryVars, pc, dapMu, spent>> /\ UNCHANGED registered
  BY DEF Sends, Returns, registryVars, netVars
<1>2. /\ StackOK(frames[g], Began, registered) /\ Began \in SUBSET Clients
      /\ Innermost(frames[g]).to \in Clients \cup {Free}
  BY <1>1, InnermostType
<1>3. StackOK(Outer(frames[g]), Began, registered)
  BY <1>1, <1>2, OuterOK
<1>4. \E next \in Resumed(frames[g]) \cup Resumed(Outer(frames[g])) :
         frames' = [frames EXCEPT ![g] = next]
  BY DEF Sends, Returns
<1>5. \A next \in Resumed(frames[g]) \cup Resumed(Outer(frames[g])) :
         StackOK(next, Began, registered)
  BY <1>2, <1>3, ResumedOK
<1>6. frames' \in [Goroutines -> Seq(FrameType)] /\ StacksOK'
  BY <1>1, <1>4, <1>5, BroadcastSame
<1>7. TypeOK /\ NetOK
  BY DEF IInv, TypeOK, NetOK
<1>8. unread' \in [Clients -> 0 .. Buffer]
  <2>1. CASE Sends(g)
    BY <1>2, <1>7, <2>1, DeliveryType DEF Sends
  <2>2. CASE Returns(g)
    BY <1>7, <2>2 DEF NetOK, Returns, netVars
  <2>3. QED
    BY <2>1, <2>2
<1>9. NetOK' /\ cli' \in [Clients -> {"off", "reading", "gone"}] /\ Began' = Began
  BY <1>1, <1>7, <1>8 DEF NetOK, TypeOK, Began
<1>10. QED
  BY <1>1, <1>6, <1>9, StayKeeps

\* The handler that leaves, and the broadcast that could not be sent, detach a
\* CLI if it has its clientID by then.
LEMMA UnregisterKeeps ==
    ASSUME IInv, NEW g \in Goroutines,
           \/ g \in Clients /\ Leaves(g)
           \/ SendFails(g)
    PROVE  IInv'
<1>1. TypeOK /\ NetOK /\ UNCHANGED <<cli, netVars, named, dapMu, spent>> /\ UNCHANGED Began
  BY DEF IInv, TypeOK, NetOK, Leaves, SendFails, Began
<1>2. PICK c \in Clients :
         /\ registered' = registered \ {c} /\ registered' \subseteq registered
         /\ listed' = IF c \in named THEN listed \ {c} ELSE listed
         /\ frames' \in [Goroutines -> Seq(FrameType)] /\ StacksOK'
         /\ (Leaves(g) /\ c = g) \/ UNCHANGED pc
  <2>1. CASE g \in Clients /\ Leaves(g)
    <3>1. Unregister(g, g, <<>>) /\ UNCHANGED cli
      BY <2>1 DEF Leaves
    <3>2. QED
      BY <2>1, <3>1, EmptyOK, UnregisterStep
  <2>2. CASE SendFails(g)
    <3>1. /\ frames[g] # <<>> /\ Innermost(frames[g]).to # Free
          /\ Unregister(g, Innermost(frames[g]).to, frames[g]) /\ UNCHANGED <<cli, pc>>
      BY <2>2 DEF SendFails
    <3>2. /\ StackOK(frames[g], Began, registered)
          /\ Innermost(frames[g]).to \in Clients
      BY <3>1, InnermostType
    <3>3. QED
      BY <3>1, <3>2, UnregisterStep
  <2>3. QED
    BY <2>1, <2>2
<1>3. /\ pc' \in [Goroutines -> Labels]
      /\ \A o \in Goroutines : pc'[o] = pc[o] \/ (o = c /\ pc[o] = "leaving" /\ pc'[o] = "closing")
  <2>1. CASE Leaves(g) /\ c = g
    <3>1. Goto(g, "closing") /\ pc[g] = "leaving" /\ "closing" \in Labels
      BY <2>1 DEF Leaves, Labels
    <3>2. QED
      BY <1>1, <2>1, <3>1, GotoType DEF Labels
  <2>2. CASE UNCHANGED pc
    BY <1>1, <2>2 DEF TypeOK, Labels
  <2>3. QED
    BY <1>2, <2>1, <2>2
<1>4. TypeOK'
  BY <1>1, <1>2, <1>3 DEF TypeOK, NetOK, netVars, Labels, FrameType
<1>5. NamedInv' /\ ListedHasHandler'
  <2>1. listed \subseteq Goroutines /\ listed' \subseteq listed
    BY <1>1, <1>2 DEF TypeOK, Goroutines
  <2>2. \A o \in listed' : pc'[o] = pc[o]
    <3>1. ASSUME c \in listed', pc[c] = "leaving" PROVE FALSE
      BY <1>2, <2>1, <3>1 DEF IInv, NamedInv
    <3>2. QED
      BY <1>3, <2>1, <3>1
  <2>3. QED
    BY <1>1, <2>1, <2>2 DEF IInv, NamedInv, ListedHasHandler
<1>6. OffInv'
  BY <1>1, <1>3 DEF IInv, OffInv, Goroutines
<1>7. registered' \subseteq Began'
  BY <1>1, <1>2 DEF IInv
<1>8. QED
  BY <1>2, <1>4, <1>5, <1>6, <1>7 DEF IInv

-----------------------------------------------------------------------------
(* The theorems *)

LEMMA InitInvariant == Init => IInv
<1> SUFFICES ASSUME Init PROVE IInv
  OBVIOUS
<1>1. TypeOK
  <2>1. <<>> \in Seq({"hello"} \cup RequestKinds)
    OBVIOUS
  <2>2. <<>> \in Seq([todo : SUBSET Clients, to : Clients \cup {Free}])
    OBVIOUS
  <2>3. 0 \in 0 .. Buffer /\ 0 \in 0 .. MaxRequests /\ 0 \in 0 .. MaxEvents
    BY SizesAssumption
  <2>4. frames \in [Goroutines -> Seq([todo : SUBSET Clients, to : Clients \cup {Free}])]
    BY <2>2 DEF Init
  <2>5. requests \in [Clients -> Seq({"hello"} \cup RequestKinds)]
    BY <2>1 DEF Init
  <2>6. spent \in [requests : 0 .. MaxRequests, events : 0 .. MaxEvents]
    BY <2>3 DEF Init
  <2>7. QED
    BY <2>3, <2>4, <2>5, <2>6 DEF Init, TypeOK
<1>2. StacksOK
  BY EmptyOK DEF Init, StacksOK
<1>3. NamedInv /\ ListedHasHandler /\ OffInv /\ registered \subseteq Began
  BY ActorsAssumption DEF Init, NamedInv, ListedHasHandler, OffInv, Goroutines
<1>4. QED
  BY <1>1, <1>2, <1>3 DEF IInv

LEMMA StutterKeeps == ASSUME IInv, UNCHANGED vars PROVE IInv'
<1>1. /\ NetOK' /\ UNCHANGED <<pc, registryVars, cli, registered, frames>>
      /\ cli' \in [Clients -> {"off", "reading", "gone"}] /\ Began' = Began
  BY DEF IInv, TypeOK, NetOK, vars, registryVars, Began
<1>2. QED
  BY <1>1, SameStacks, StayKeeps

LEMMA NextInvariant == IInv /\ [Next]_vars => IInv'
<1> SUFFICES ASSUME IInv, [Next]_vars PROVE IInv'
  OBVIOUS
<1>1. CASE \E c \in Clients : CLIStep(c) \/ Reads(c)
  BY <1>1, ConnectKeeps, CLIKeeps DEF CLIStep
<1>2. CASE \E c \in Clients : HandlerStep(c)
  <2>1. PICK c \in Clients : HandlerStep(c)
    BY <1>2
  <2>2. c \in Goroutines
    BY DEF Goroutines
  <2>3. CASE HandlesHello(c) \/ TakesName(c)
    BY <2>3, HelloKeeps
  <2>4. CASE HandlesBreakpoint(c) \/ LocksForStop(c)
    BY <2>2, <2>4, ChangeKeeps
  <2>5. CASE Leaves(c)
    BY <2>2, <2>5, UnregisterKeeps
  <2>6. CASE \/ HandlesStatus(c) \/ HandlesStop(c) \/ Replies(c) \/ ReplyFails(c)
             \/ DecodeFails(c) \/ BroadcastDone(c) \/ Closes(c)
    BY <2>6, HandlerKeeps
  <2>7. QED
    BY <2>1, <2>3, <2>4, <2>5, <2>6 DEF HandlerStep
<1>3. CASE \E g \in Goroutines : BroadcastStep(g)
  BY <1>3, SendKeeps, UnregisterKeeps DEF BroadcastStep
<1>4. CASE ReaderUnlocks
  BY <1>4, UnlockKeeps
<1>5. CASE ReaderChanges
  BY <1>5, ChangeKeeps DEF Goroutines
<1>6. CASE UNCHANGED vars
  BY <1>6, StutterKeeps
<1>7. QED
  BY <1>1, <1>2, <1>3, <1>4, <1>5, <1>6 DEF Next, Runs

\* The inductive invariant holds for any number of CLIs.
THEOREM Invariance == Spec => []IInv
  BY InitInvariant, NextInvariant, PTL DEF Spec

\* Every variable keeps its shape; no connection holds more than it has room for
\* (Send), and broadcasts only go to CLIs (Broadcast).
THEOREM TypeCorrect == Spec => []TypeOK
<1>1. IInv => TypeOK
  BY DEF IInv
<1>2. QED
  BY <1>1, Invariance, PTL

\* Broadcast calls unregister, which calls Broadcast: they nest no deeper than
\* there are CLIs, whoever else registers and unregisters at the same time.
THEOREM Nesting == Spec => []RecursionBounded
<1>1. IInv => RecursionBounded
  <2>1. Began \in SUBSET Clients
    BY DEF Began
  <2>2. QED
    BY <2>1, BoundedStack DEF IInv, StacksOK, RecursionBounded
<1>2. QED
  BY <1>1, Invariance, PTL

\* No snapshot lists a CLI whose handler is gone, although other goroutines may
\* have unregistered it before its hello was handled (Handle, unregister).
THEOREM Listed == Spec => []ListedHasHandler
<1>1. IInv => ListedHasHandler
  BY DEF IInv
<1>2. QED
  BY <1>1, Invariance, PTL

=============================================================================
