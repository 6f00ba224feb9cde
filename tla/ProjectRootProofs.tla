--------------------------- MODULE ProjectRootProofs ---------------------------
(***************************************************************************)
(* Proofs about ProjectRoot, for every tree of directories, files and      *)
(* links, and every bound.                                                 *)
(*                                                                         *)
(* What the functions of a path compute is proved by induction over the    *)
(* path (Induct): where a walk leads, what filepath.Clean and EvalSymlinks *)
(* leave of it, and where the text of a path goes by directories.  From    *)
(* this follow the facts about FindProjectRoot: what the CLI finds when it *)
(* resolves its root once more, the daemon finds in the directory where it *)
(* runs, and finds again whenever it looks (Settled, Served); where nothing *)
(* misleads the search, it is the project of the command (FoundRoot).  The *)
(* inductive invariant relates each command, its daemon and its endpoint   *)
(* file through the root and its key.                                      *)
(***************************************************************************)
EXTENDS ProjectRoot, SequenceTheorems, WellFoundedInduction, TLAPS

Texts == Seq(Names \cup {Up})
Found == Dirs \cup Files \cup {Missing}

-----------------------------------------------------------------------------
(* Recursion over 0..n *)

\* What holds of 0, and of i + 1 if it holds of i, holds up to n.
LEMMA Induct ==
    ASSUME NEW n \in Nat, NEW S, 0 \in S, \A i \in 0..(n - 1) : i \in S => i + 1 \in S
    PROVE  \A i \in 0..n : i \in S
<1> DEFINE R == OpToRel(<, Nat)
           T == {i \in 0..n : i \notin S}
<1>1. IsWellFoundedOn(R, Nat)
  BY NatLessThanWellFounded
<1>2. R = {ss \in Nat \X Nat : ss[1] < ss[2]}
  BY DEF OpToRel
<1> SUFFICES ASSUME T # {} PROVE FALSE
  OBVIOUS
<1>3. T \subseteq Nat /\ T # {}
  OBVIOUS
<1> HIDE DEF R
<1>4. PICK x \in T : \A y \in T : ~ (<<y, x>> \in R)
  BY <1>1, <1>3, WFMin, Zenon
<1>5. x # 0 /\ x \in 1..n /\ x - 1 \in 0..(n - 1)
  BY <1>4
<1>6. x - 1 \in T
  BY <1>4, <1>5
<1>7. <<x - 1, x>> \in R
  <2>1. <<x - 1, x>> \in Nat \X Nat /\ <<x - 1, x>>[1] < <<x - 1, x>>[2]
    BY <1>5
  <2> QED
    BY <2>1, <1>2
<1> QED
  BY <1>4, <1>6, <1>7

\* A recursive function has a solution.
Recursive(f, n, T, a, s) ==
    f \in [0..n -> T] /\ f[0] = a /\ \A i \in 1..n : f[i] = s[<<f[i - 1], i>>]

LEMMA Recursion ==
    ASSUME NEW n \in Nat, NEW T, NEW a \in T, NEW s,
           \A i \in 1..n, t \in T : s[<<t, i>>] \in T
    PROVE  \E f : Recursive(f, n, T, a, s)
<1> DEFINE Solves(f, k) == f[0] = a /\ \A i \in 1..k : f[i] = s[<<f[i - 1], i>>]
           S == {k \in 0..n : \E f \in [0..k -> T] : Solves(f, k)}
<1>1. 0 \in S
  <2> DEFINE g == [i \in 0..0 |-> a]
  <2>1. g \in [0..0 -> T] /\ g[0] = a
    OBVIOUS
  <2> HIDE DEF g
  <2>2. Solves(g, 0)
    BY <2>1
  <2> QED
    BY <2>1, <2>2
<1>2. ASSUME NEW k \in 0..(n - 1), k \in S PROVE k + 1 \in S
  <2>1. PICK f \in [0..k -> T] : Solves(f, k)
    BY <1>2
  <2> DEFINE g == [i \in 0..(k + 1) |-> IF i = k + 1 THEN s[<<f[k], k + 1>>] ELSE f[i]]
  <2>2. f[k] \in T /\ k + 1 \in 1..n
    BY <2>1
  <2>3. s[<<f[k], k + 1>>] \in T
    BY <2>2
  <2>4. g \in [0..(k + 1) -> T]
    BY <2>1, <2>3
  <2>5. g[0] = a
    BY <2>1
  <2>6. ASSUME NEW i \in 1..(k + 1) PROVE g[i] = s[<<g[i - 1], i>>]
    <3>1. CASE i = k + 1
      <4>1. g[i - 1] = f[k] /\ g[i] = s[<<f[k], k + 1>>]
        BY <3>1
      <4> QED
        BY <4>1, <3>1
    <3>2. CASE i # k + 1
      <4>1. i \in 1..k /\ g[i] = f[i] /\ g[i - 1] = f[i - 1]
        BY <3>2
      <4> QED
        BY <4>1, <2>1
    <3> QED
      BY <3>1, <3>2
  <2>7. Solves(g, k + 1)
    BY <2>5, <2>6
  <2> HIDE DEF g
  <2> QED
    BY <2>2, <2>4, <2>7
<1>3. n \in S
  <2>1. \A i \in 0..n : i \in S
    <3> HIDE DEF S
    <3> QED
      BY <1>1, <1>2, Induct, Zenon
  <2> QED
    BY <2>1
<1> QED
  BY <1>3 DEF Recursive

\* And only one.
SameSteps(f, g, n) == f[0] = g[0] /\ \A i \in 1..n : f[i - 1] = g[i - 1] => f[i] = g[i]
Same(f, g, n) == \A i \in 0..n : f[i] = g[i]

LEMMA Agree ==
    ASSUME NEW n \in Nat, NEW f, NEW g, SameSteps(f, g, n)
    PROVE  Same(f, g, n)
<1> DEFINE S == {i \in 0..n : f[i] = g[i]}
<1>1. 0 \in S
  BY DEF SameSteps
<1>2. \A i \in 0..(n - 1) : i \in S => i + 1 \in S
  <2> SUFFICES ASSUME NEW i \in 0..(n - 1), i \in S PROVE i + 1 \in S
    OBVIOUS
  <2>1. i + 1 \in 1..n /\ (i + 1) - 1 = i /\ f[i] = g[i]
    OBVIOUS
  <2>2. f[i + 1] = g[i + 1]
    BY <2>1 DEF SameSteps
  <2> QED
    BY <2>1, <2>2
<1>3. \A i \in 0..n : i \in S
  <2> HIDE DEF S
  <2> QED
    BY <1>1, <1>2, Induct, Zenon
<1> QED
  BY <1>3 DEF Same

-----------------------------------------------------------------------------
(* Prefixes *)

LEMMA PrefixFacts ==
    ASSUME NEW S, NEW s \in Seq(S), NEW i \in 0..Len(s)
    PROVE  /\ Prefix(s, i) \in Seq(S) /\ Len(Prefix(s, i)) = i
           /\ DOMAIN Prefix(s, i) = 1..i
           /\ \A j \in 1..i : Prefix(s, i)[j] = s[j]
BY DEF Prefix

LEMMA PrefixEnds ==
    ASSUME NEW S, NEW s \in Seq(S)
    PROVE  Prefix(s, 0) = <<>> /\ Prefix(s, Len(s)) = s
<1>1. Len(s) \in Nat
  OBVIOUS
<1>2. Len(Prefix(s, 0)) = 0 /\ Prefix(s, 0) \in Seq(S)
  BY <1>1, PrefixFacts
<1> QED
  BY <1>1, <1>2, SubSeqFull DEF Prefix

LEMMA PrefixStep ==
    ASSUME NEW S, NEW s \in Seq(S), NEW i \in 1..Len(s)
    PROVE  s[i] \in S /\ Prefix(s, i) = Append(Prefix(s, i - 1), s[i])
<1>1. i \in 0..Len(s) /\ i - 1 \in 0..Len(s) /\ s[i] \in S
  OBVIOUS
<1> DEFINE p == Prefix(s, i - 1)
<1>2. /\ p \in Seq(S) /\ Len(p) = i - 1
      /\ \A j \in 1..(i - 1) : p[j] = s[j]
  BY <1>1, PrefixFacts
<1>3. /\ Prefix(s, i) \in Seq(S) /\ Len(Prefix(s, i)) = i
      /\ \A j \in 1..i : Prefix(s, i)[j] = s[j]
  BY <1>1, PrefixFacts
<1> HIDE DEF p
<1>4. /\ Append(p, s[i]) \in Seq(S) /\ Len(Append(p, s[i])) = i
      /\ \A j \in 1..i : Append(p, s[i])[j] = s[j]
  BY <1>1, <1>2
<1>5. Prefix(s, i) = Append(p, s[i])
  BY <1>3, <1>4, SeqEqual
<1> QED
  BY <1>1, <1>5 DEF p

LEMMA PrefixPrefix ==
    ASSUME NEW S, NEW s \in Seq(S), NEW i \in 0..Len(s), NEW j \in 0..i
    PROVE  Prefix(Prefix(s, i), j) = Prefix(s, j)
<1>1. j \in 0..Len(s) /\ Prefix(s, i) \in Seq(S) /\ j \in 0..Len(Prefix(s, i))
  BY PrefixFacts
<1>2. /\ Prefix(s, j) \in Seq(S) /\ Len(Prefix(s, j)) = j
      /\ \A l \in 1..j : Prefix(s, j)[l] = s[l]
  BY <1>1, PrefixFacts
<1>3. /\ Prefix(Prefix(s, i), j) \in Seq(S) /\ Len(Prefix(Prefix(s, i), j)) = j
      /\ \A l \in 1..j : Prefix(Prefix(s, i), j)[l] = Prefix(s, i)[l]
  BY <1>1, PrefixFacts
<1>4. \A l \in 1..j : Prefix(s, i)[l] = s[l]
  BY PrefixFacts
<1> QED
  BY <1>2, <1>3, <1>4, SeqEqual

LEMMA ParentFacts ==
    ASSUME NEW S, NEW s \in Seq(S), s # <<>>
    PROVE  /\ Len(s) \in Nat \ {0} /\ s[Len(s)] \in S
           /\ Parent(s) \in Seq(S) /\ Parent(s) = Prefix(s, Len(s) - 1)
           /\ Len(Parent(s)) = Len(s) - 1
           /\ s = Append(Parent(s), s[Len(s)])
<1>1. Len(s) \in Nat \ {0}
  BY EmptySeq
<1>2. Parent(s) = Prefix(s, Len(s) - 1)
  BY DEF Parent, Prefix
<1>3. Len(s) - 1 \in 0..Len(s) /\ Len(s) \in 1..Len(s)
  BY <1>1
<1>4. Parent(s) \in Seq(S) /\ Len(Parent(s)) = Len(s) - 1
  BY <1>2, <1>3, PrefixFacts
<1>5. Prefix(s, Len(s)) = s
  BY PrefixEnds
<1>6. s[Len(s)] \in S /\ Prefix(s, Len(s)) = Append(Prefix(s, Len(s) - 1), s[Len(s)])
  BY <1>3, PrefixStep
<1> QED
  BY <1>1, <1>2, <1>4, <1>5, <1>6

LEMMA AppendFacts ==
    ASSUME NEW S, NEW s \in Seq(S), NEW e \in S
    PROVE  /\ Append(s, e) \in Seq(S) /\ Append(s, e) # <<>>
           /\ Len(Append(s, e)) = Len(s) + 1
           /\ Append(s, e)[Len(Append(s, e))] = e
           /\ Prefix(Append(s, e), Len(s)) = s
           /\ Parent(Append(s, e)) = s
           /\ \A i \in 0..Len(s) : Prefix(Append(s, e), i) = Prefix(s, i)
<1> DEFINE a == Append(s, e)
<1>1. /\ a \in Seq(S) /\ a # <<>> /\ Len(a) = Len(s) + 1 /\ a[Len(a)] = e
      /\ Len(s) \in Nat /\ \A i \in 1..Len(s) : a[i] = s[i]
  BY AppendProperties
<1> HIDE DEF a
<1>2. ASSUME NEW i \in 0..Len(s) PROVE Prefix(a, i) = Prefix(s, i)
  <2>1. i \in 0..Len(a)
    BY <1>1
  <2>2. /\ Prefix(a, i) \in Seq(S) /\ Len(Prefix(a, i)) = i
        /\ \A j \in 1..i : Prefix(a, i)[j] = a[j]
    BY <1>1, <2>1, PrefixFacts
  <2>3. /\ Prefix(s, i) \in Seq(S) /\ Len(Prefix(s, i)) = i
        /\ \A j \in 1..i : Prefix(s, i)[j] = s[j]
    BY PrefixFacts
  <2>4. \A j \in 1..i : a[j] = s[j]
    BY <1>1
  <2> QED
    BY <2>2, <2>3, <2>4, SeqEqual
<1>3. Prefix(a, Len(s)) = s
  BY <1>1, <1>2, PrefixEnds
<1>4. Parent(a) = Prefix(a, Len(s))
  BY <1>1 DEF Parent, Prefix
<1> QED
  BY <1>1, <1>2, <1>3, <1>4 DEF a

-----------------------------------------------------------------------------
(* The file system *)

LEMMA NamesFacts ==
    /\ Up \notin Names /\ Missing \notin Seq(Names) /\ <<>> \notin Names
    /\ Dirs \subseteq Seq(Names) /\ Files \subseteq Seq(Names)
    /\ Missing \notin Dirs /\ Missing \notin Files
<1>1. Up \notin Names /\ <<>> \notin Names
  BY DEF Names, Up
<1>2. Missing \notin Seq(Names)
  <2>1. Len(Missing) = 1 /\ Missing[1] = Up
    BY DEF Missing
  <2>2. ASSUME Missing \in Seq(Names) PROVE FALSE
    <3>1. Missing[1] \in Names
      BY <2>1, <2>2, ElementOfSeq
    <3> QED
      BY <3>1, <2>1, <1>1
  <2> QED
    BY <2>2
<1>3. Dirs \subseteq Seq(Names) /\ Files \subseteq Seq(Names)
  BY TreeAssumption
<1> QED
  BY <1>1, <1>2, <1>3

LEMMA StepFound ==
    ASSUME NEW dir \in Found, NEW name
    PROVE  Step(dir, name) \in Found
<1>1. CASE dir = Missing \/ dir \in Files
  BY <1>1 DEF Step, Found
<1>2. CASE dir \in Dirs /\ dir # Missing /\ dir \notin Files
  <2>1. <<>> \in Dirs /\ (dir # <<>> => Parent(dir) \in Dirs)
    BY <1>2, TreeAssumption
  <2>2. \A p \in DOMAIN Links : Links[p] \in Dirs
    BY TreeAssumption
  <2> QED
    BY <1>2, <2>1, <2>2 DEF Step, Found
<1> QED
  BY <1>1, <1>2 DEF Found

\* The walk along a path, name by name.
LEMMA WalkDef ==
    ASSUME NEW dir \in Found, NEW names \in Texts
    PROVE  \E at : /\ \A i \in 0..Len(names) : at[i] \in Found
                   /\ at[0] = dir
                   /\ \A i \in 1..Len(names) : at[i] = Step(at[i - 1], names[i])
                   /\ Walk(dir, names) = at[Len(names)]
<1> DEFINE Solution(f) ==
        f = [i \in 0..Len(names) |-> IF i = 0 THEN dir ELSE Step(f[i - 1], names[i])]
<1>1. PICK n \in Nat : n = Len(names)
  BY DEF Texts
<1>2. PICK s : s = [d \in Found \X (1..n) |-> Step(d[1], names[d[2]])]
  OBVIOUS
<1>3. ASSUME NEW i \in 1..n, NEW t \in Found
      PROVE  s[<<t, i>>] = Step(t, names[i]) /\ s[<<t, i>>] \in Found
  <2>1. <<t, i>> \in Found \X (1..n)
    OBVIOUS
  <2> QED
    BY <1>2, <2>1, StepFound
<1>4. PICK f : Recursive(f, n, Found, dir, s)
  <2>1. \A i \in 1..n, t \in Found : s[<<t, i>>] \in Found
    BY <1>3
  <2> QED
    BY <2>1, Recursion
<1>5. /\ f \in [0..n -> Found] /\ f[0] = dir
      /\ \A i \in 1..n : f[i] = Step(f[i - 1], names[i])
  <2>1. /\ f \in [0..n -> Found] /\ f[0] = dir
        /\ \A i \in 1..n : f[i] = s[<<f[i - 1], i>>]
    BY <1>4 DEF Recursive
  <2>2. ASSUME NEW i \in 1..n PROVE f[i] = Step(f[i - 1], names[i])
    <3>1. f[i - 1] \in Found
      BY <2>1
    <3> QED
      BY <3>1, <2>1, <1>3
  <2> QED
    BY <2>1, <2>2
<1>6. Solution(f)
  <2>1. \A i \in 0..n : f[i] = IF i = 0 THEN dir ELSE Step(f[i - 1], names[i])
    BY <1>5
  <2> QED
    BY <2>1, <1>1, <1>5
<1>7. PICK at : Solution(at) /\ Walk(dir, names) = at[Len(names)]
  <2> DEFINE chosen == CHOOSE f1 : Solution(f1)
  <2>1. Solution(chosen)
    <3> HIDE DEF Solution
    <3> QED
      BY <1>6, Zenon
  <2>2. Walk(dir, names) = chosen[Len(names)]
    BY DEF Walk
  <2> HIDE DEF chosen, Solution
  <2> QED
    BY <2>1, <2>2
<1>8. at = [i \in 0..n |-> IF i = 0 THEN dir ELSE Step(at[i - 1], names[i])]
  BY <1>1, <1>7
<1> HIDE DEF Solution
<1>9. at[0] = dir /\ \A i \in 1..n : at[i] = Step(at[i - 1], names[i])
  <2>1. \A i \in 0..n : at[i] = IF i = 0 THEN dir ELSE Step(at[i - 1], names[i])
    BY <1>8
  <2> QED
    BY <2>1
<1>10. Same(at, f, n)
  <2>1. SameSteps(at, f, n)
    BY <1>5, <1>9 DEF SameSteps
  <2> QED
    BY <2>1, Agree
<1>11. \A i \in 0..n : at[i] \in Found
  BY <1>10, <1>5 DEF Same
<1> QED
  BY <1>1, <1>7, <1>9, <1>11

LEMMA WalkFacts ==
    ASSUME NEW dir \in Found, NEW names \in Texts
    PROVE  /\ Walk(dir, names) \in Found
           /\ Walk(dir, <<>>) = dir
           /\ \A i \in 0..Len(names) : Walk(dir, Prefix(names, i)) \in Found
           /\ \A i \in 1..Len(names) :
                 Walk(dir, Prefix(names, i)) = Step(Walk(dir, Prefix(names, i - 1)), names[i])
<1> DEFINE S == Names \cup {Up}
<1>0. names \in Seq(S) /\ Len(names) \in Nat
  BY DEF Texts
<1>1. PICK at : /\ \A i \in 0..Len(names) : at[i] \in Found
                /\ at[0] = dir
                /\ \A i \in 1..Len(names) : at[i] = Step(at[i - 1], names[i])
                /\ Walk(dir, names) = at[Len(names)]
  BY WalkDef
<1>2. ASSUME NEW i \in 0..Len(names) PROVE Walk(dir, Prefix(names, i)) = at[i]
  <2> DEFINE p == Prefix(names, i)
  <2>1. p \in Seq(S) /\ Len(p) = i /\ \A j \in 1..i : p[j] = names[j]
    BY <1>0, PrefixFacts
  <2> HIDE DEF p
  <2>2. p \in Texts
    BY <2>1 DEF Texts
  <2>3. PICK on : /\ on[0] = dir
                  /\ \A j \in 1..Len(p) : on[j] = Step(on[j - 1], p[j])
                  /\ Walk(dir, p) = on[Len(p)]
    BY <2>2, WalkDef
  <2>4. SameSteps(on, at, i) /\ i \in Nat
    <3>1. ASSUME NEW j \in 1..i, on[j - 1] = at[j - 1] PROVE on[j] = at[j]
      <4>1. j \in 1..Len(names) /\ j \in 1..Len(p) /\ p[j] = names[j]
        BY <2>1, <1>0
      <4>2. on[j] = Step(on[j - 1], p[j]) /\ at[j] = Step(at[j - 1], names[j])
        BY <4>1, <2>3, <1>1
      <4> QED
        BY <4>1, <4>2, <3>1
    <3> QED
      BY <3>1, <2>3, <1>1, <1>0 DEF SameSteps
  <2>5. Same(on, at, i)
    BY <2>4, Agree
  <2>6. Walk(dir, p) = at[i]
    BY <2>1, <2>3, <2>4, <2>5 DEF Same
  <2> QED
    BY <2>6 DEF p
<1>3. Walk(dir, <<>>) = dir
  BY <1>0, <1>1, <1>2, PrefixEnds
<1>4. ASSUME NEW i \in 1..Len(names)
      PROVE  Walk(dir, Prefix(names, i)) = Step(Walk(dir, Prefix(names, i - 1)), names[i])
  <2>1. i \in 0..Len(names) /\ i - 1 \in 0..Len(names)
    BY <1>0
  <2> QED
    BY <2>1, <1>1, <1>2
<1> QED
  BY <1>0, <1>1, <1>2, <1>3, <1>4

LEMMA WalkAppend ==
    ASSUME NEW dir \in Found, NEW names \in Texts, NEW name \in Names \cup {Up}
    PROVE  Walk(dir, Append(names, name)) = Step(Walk(dir, names), name)
<1> DEFINE a == Append(names, name)
           n == Len(a)
           S == Names \cup {Up}
<1>0. names \in Seq(S) /\ Len(names) \in Nat
  BY DEF Texts
<1>4. /\ a \in Seq(S) /\ n = Len(names) + 1
      /\ a[n] = name /\ Prefix(a, Len(names)) = names
  BY <1>0, AppendFacts
<1>5. Prefix(a, n) = a
  BY <1>4, PrefixEnds
<1>1. /\ a \in Texts /\ n = Len(names) + 1 /\ Len(names) \in Nat
      /\ a[n] = name /\ Prefix(a, n - 1) = names /\ Prefix(a, n) = a
  <2>1. n - 1 = Len(names)
    BY <1>0, <1>4
  <2> QED
    BY <1>0, <1>4, <1>5, <2>1 DEF Texts
<1> HIDE DEF a
<1>2. n \in 1..n
  BY <1>1
<1>3. Walk(dir, Prefix(a, n)) = Step(Walk(dir, Prefix(a, n - 1)), a[n])
  BY <1>1, <1>2, WalkFacts
<1> QED
  BY <1>1, <1>3 DEF a

\* What filepath.Clean makes of a path, name by name.
Cleans(abs) == IF abs THEN Seq(Names) ELSE Texts

LEMMA CleanedType ==
    ASSUME NEW abs \in BOOLEAN, NEW path \in Cleans(abs), NEW name \in Names \cup {Up}
    PROVE  Cleaned(abs, path, name) \in Cleans(abs)
<1> DEFINE S == IF abs THEN Names ELSE Names \cup {Up}
<1>1. Cleans(abs) = Seq(S)
  BY DEF Cleans, Texts
<1>2. path \in Seq(S)
  BY <1>1
<1>3. CASE name # Up
  <2>1. name \in S
    BY <1>3
  <2> QED
    BY <1>1, <1>2, <1>3, <2>1, AppendProperties DEF Cleaned
<1>4. CASE name = Up /\ path = <<>>
  <2>1. ~abs => <<Up>> \in Seq(S)
    OBVIOUS
  <2> QED
    BY <1>1, <1>2, <1>4, <2>1 DEF Cleaned
<1>5. CASE name = Up /\ path # <<>> /\ path[Len(path)] = Up
  <2>1. path[Len(path)] \in S
    BY <1>2, <1>5, ParentFacts
  <2> QED
    BY <1>1, <1>2, <1>5, <2>1, AppendProperties DEF Cleaned
<1>6. CASE name = Up /\ path # <<>> /\ path[Len(path)] # Up
  <2>1. Parent(path) \in Seq(S)
    BY <1>2, <1>6, ParentFacts
  <2> QED
    BY <1>1, <1>6, <2>1 DEF Cleaned
<1> QED
  BY <1>3, <1>4, <1>5, <1>6

LEMMA CleanDef ==
    ASSUME NEW abs \in BOOLEAN, NEW path \in Cleans(abs), NEW names \in Texts
    PROVE  \E at : /\ \A i \in 0..Len(names) : at[i] \in Cleans(abs)
                   /\ at[0] = path
                   /\ \A i \in 1..Len(names) : at[i] = Cleaned(abs, at[i - 1], names[i])
                   /\ Clean(abs, path, names) = at[Len(names)]
<1> DEFINE Solution(f) ==
        f = [i \in 0..Len(names) |-> IF i = 0 THEN path ELSE Cleaned(abs, f[i - 1], names[i])]
<1>1. PICK n \in Nat : n = Len(names)
  BY DEF Texts
<1>2. PICK s : s = [d \in Cleans(abs) \X (1..n) |-> Cleaned(abs, d[1], names[d[2]])]
  OBVIOUS
<1>3. ASSUME NEW i \in 1..n, NEW t \in Cleans(abs)
      PROVE  s[<<t, i>>] = Cleaned(abs, t, names[i]) /\ s[<<t, i>>] \in Cleans(abs)
  <2>1. <<t, i>> \in Cleans(abs) \X (1..n)
    OBVIOUS
  <2>2. i \in 1..Len(names) /\ names[i] \in Names \cup {Up}
    BY <1>1 DEF Texts
  <2> QED
    BY <1>2, <2>1, <2>2, CleanedType
<1>4. PICK f : Recursive(f, n, Cleans(abs), path, s)
  <2>1. \A i \in 1..n, t \in Cleans(abs) : s[<<t, i>>] \in Cleans(abs)
    BY <1>3
  <2> QED
    BY <2>1, Recursion
<1>5. /\ f \in [0..n -> Cleans(abs)] /\ f[0] = path
      /\ \A i \in 1..n : f[i] = Cleaned(abs, f[i - 1], names[i])
  <2>1. /\ f \in [0..n -> Cleans(abs)] /\ f[0] = path
        /\ \A i \in 1..n : f[i] = s[<<f[i - 1], i>>]
    BY <1>4 DEF Recursive
  <2>2. ASSUME NEW i \in 1..n PROVE f[i] = Cleaned(abs, f[i - 1], names[i])
    <3>1. f[i - 1] \in Cleans(abs)
      BY <2>1
    <3> QED
      BY <3>1, <2>1, <1>3
  <2> QED
    BY <2>1, <2>2
<1>6. Solution(f)
  <2>1. \A i \in 0..n : f[i] = IF i = 0 THEN path ELSE Cleaned(abs, f[i - 1], names[i])
    BY <1>5
  <2> QED
    BY <2>1, <1>1, <1>5
<1>7. PICK at : Solution(at) /\ Clean(abs, path, names) = at[Len(names)]
  <2> DEFINE chosen == CHOOSE f1 : Solution(f1)
  <2>1. Solution(chosen)
    <3> HIDE DEF Solution
    <3> QED
      BY <1>6, Zenon
  <2>2. Clean(abs, path, names) = chosen[Len(names)]
    BY DEF Clean
  <2> HIDE DEF chosen, Solution
  <2> QED
    BY <2>1, <2>2
<1>8. at = [i \in 0..n |-> IF i = 0 THEN path ELSE Cleaned(abs, at[i - 1], names[i])]
  BY <1>1, <1>7
<1> HIDE DEF Solution
<1>9. at[0] = path /\ \A i \in 1..n : at[i] = Cleaned(abs, at[i - 1], names[i])
  <2>1. \A i \in 0..n : at[i] = IF i = 0 THEN path ELSE Cleaned(abs, at[i - 1], names[i])
    BY <1>8
  <2> QED
    BY <2>1
<1>10. Same(at, f, n)
  <2>1. SameSteps(at, f, n)
    BY <1>5, <1>9 DEF SameSteps
  <2> QED
    BY <2>1, Agree
<1>11. \A i \in 0..n : at[i] \in Cleans(abs)
  BY <1>10, <1>5 DEF Same
<1> QED
  BY <1>1, <1>7, <1>9, <1>11

LEMMA CleanFacts ==
    ASSUME NEW abs \in BOOLEAN, NEW path \in Cleans(abs), NEW names \in Texts
    PROVE  /\ Clean(abs, path, names) \in Cleans(abs)
           /\ Clean(abs, path, <<>>) = path
           /\ \A i \in 0..Len(names) : Clean(abs, path, Prefix(names, i)) \in Cleans(abs)
           /\ \A i \in 1..Len(names) :
                 Clean(abs, path, Prefix(names, i)) = Cleaned(abs, Clean(abs, path, Prefix(names, i - 1)), names[i])
<1> DEFINE S == Names \cup {Up}
<1>0. names \in Seq(S) /\ Len(names) \in Nat
  BY DEF Texts
<1>1. PICK at : /\ \A i \in 0..Len(names) : at[i] \in Cleans(abs)
                /\ at[0] = path
                /\ \A i \in 1..Len(names) : at[i] = Cleaned(abs, at[i - 1], names[i])
                /\ Clean(abs, path, names) = at[Len(names)]
  BY CleanDef
<1>2. ASSUME NEW i \in 0..Len(names) PROVE Clean(abs, path, Prefix(names, i)) = at[i]
  <2> DEFINE p == Prefix(names, i)
  <2>1. p \in Seq(S) /\ Len(p) = i /\ \A j \in 1..i : p[j] = names[j]
    BY <1>0, PrefixFacts
  <2> HIDE DEF p
  <2>2. p \in Texts
    BY <2>1 DEF Texts
  <2>3. PICK on : /\ on[0] = path
                  /\ \A j \in 1..Len(p) : on[j] = Cleaned(abs, on[j - 1], p[j])
                  /\ Clean(abs, path, p) = on[Len(p)]
    BY <2>2, CleanDef
  <2>4. SameSteps(on, at, i) /\ i \in Nat
    <3>1. ASSUME NEW j \in 1..i, on[j - 1] = at[j - 1] PROVE on[j] = at[j]
      <4>1. j \in 1..Len(names) /\ j \in 1..Len(p) /\ p[j] = names[j]
        BY <2>1, <1>0
      <4>2. on[j] = Cleaned(abs, on[j - 1], p[j]) /\ at[j] = Cleaned(abs, at[j - 1], names[j])
        BY <4>1, <2>3, <1>1
      <4> QED
        BY <4>1, <4>2, <3>1
    <3> QED
      BY <3>1, <2>3, <1>1, <1>0 DEF SameSteps
  <2>5. Same(on, at, i)
    BY <2>4, Agree
  <2>6. Clean(abs, path, p) = at[i]
    BY <2>1, <2>3, <2>4, <2>5 DEF Same
  <2> QED
    BY <2>6 DEF p
<1>3. Clean(abs, path, <<>>) = path
  BY <1>0, <1>1, <1>2, PrefixEnds
<1>4. ASSUME NEW i \in 1..Len(names)
      PROVE  Clean(abs, path, Prefix(names, i)) = Cleaned(abs, Clean(abs, path, Prefix(names, i - 1)), names[i])
  <2>1. i \in 0..Len(names) /\ i - 1 \in 0..Len(names)
    BY <1>0
  <2> QED
    BY <2>1, <1>1, <1>2
<1> QED
  BY <1>0, <1>1, <1>2, <1>3, <1>4

LEMMA CleanAppend ==
    ASSUME NEW abs \in BOOLEAN, NEW path \in Cleans(abs), NEW names \in Texts, NEW name \in Names \cup {Up}
    PROVE  Clean(abs, path, Append(names, name)) = Cleaned(abs, Clean(abs, path, names), name)
<1> DEFINE a == Append(names, name)
           n == Len(a)
           S == Names \cup {Up}
<1>0. names \in Seq(S) /\ Len(names) \in Nat
  BY DEF Texts
<1>4. /\ a \in Seq(S) /\ n = Len(names) + 1
      /\ a[n] = name /\ Prefix(a, Len(names)) = names
  BY <1>0, AppendFacts
<1>5. Prefix(a, n) = a
  BY <1>4, PrefixEnds
<1>1. /\ a \in Texts /\ n = Len(names) + 1 /\ Len(names) \in Nat
      /\ a[n] = name /\ Prefix(a, n - 1) = names /\ Prefix(a, n) = a
  <2>1. n - 1 = Len(names)
    BY <1>0, <1>4
  <2> QED
    BY <1>0, <1>4, <1>5, <2>1 DEF Texts
<1> HIDE DEF a
<1>2. n \in 1..n
  BY <1>1
<1>3. Clean(abs, path, Prefix(a, n)) = Cleaned(abs, Clean(abs, path, Prefix(a, n - 1)), a[n])
  BY <1>1, <1>2, CleanFacts
<1> QED
  BY <1>1, <1>3 DEF a

-----------------------------------------------------------------------------
(* Keys *)

\* The words of a path without underscores are its names.
LEMMA WordsOfPlain ==
    ASSUME NEW path \in Seq(Names), ~HasUnderscore(path)
    PROVE  /\ \A i \in 1..Len(path) : path[i] = <<path[i][1]>>
           /\ Words(path) = [i \in 1..Len(path) |-> path[i][1]]
<1> DEFINE Solution(f) ==
        f = [i \in 0..Len(path) |-> IF i = 0 THEN <<>> ELSE f[i - 1] \o path[i]]
<1>1. PICK n \in Nat : n = Len(path)
  OBVIOUS
<1>2. ASSUME NEW i \in 1..n PROVE path[i] = <<path[i][1]>> /\ path[i][1] \in STRING
  <2>1. path[i] \in Names /\ i \in DOMAIN path
    BY <1>1, ElementOfSeq
  <2>2. path[i] \in Seq(STRING) /\ path[i] # <<>>
    BY <2>1 DEF Names
  <2>3. ~(Len(path[i]) > 1)
    BY <2>1 DEF HasUnderscore
  <2>4. Len(path[i]) = 1
    <3>1. Len(path[i]) \in Nat \ {0}
      BY <2>2, EmptySeq, Zenon
    <3>2. \A l \in Nat \ {0} : ~(l > 1) => l = 1
      OBVIOUS
    <3> QED
      BY <2>3, <3>1, <3>2, Zenon
  <2>5. path[i] = <<path[i][1]>> /\ path[i][1] \in STRING
    BY <2>2, <2>4
  <2> QED
    BY <2>5
<1> DEFINE word == [i \in 1..n |-> path[i][1]]
<1>3. word \in Seq(STRING) /\ Len(word) = n /\ \A i \in 1..n : path[i] = <<word[i]>>
  BY <1>2
<1> HIDE DEF word
<1>4. PICK f : f = [i \in 0..n |-> Prefix(word, i)]
  OBVIOUS
<1>5. f[0] = <<>> /\ \A i \in 1..n : f[i] = f[i - 1] \o path[i]
  <2>1. f[0] = <<>>
    BY <1>3, <1>4, PrefixEnds
  <2>2. ASSUME NEW i \in 1..n PROVE f[i] = f[i - 1] \o path[i]
    <3>1. word[i] \in STRING /\ Prefix(word, i) = Append(Prefix(word, i - 1), word[i])
      BY <1>3, PrefixStep
    <3>2. Prefix(word, i - 1) \in Seq(STRING)
      BY <1>3, PrefixFacts
    <3>3. Prefix(word, i) = Prefix(word, i - 1) \o <<word[i]>>
      BY <3>1, <3>2, AppendIsConcat
    <3>4. f[i] = Prefix(word, i) /\ f[i - 1] = Prefix(word, i - 1)
      BY <1>4
    <3> QED
      BY <3>3, <3>4, <1>3
  <2> QED
    BY <2>1, <2>2
<1>6. Solution(f)
  <2>1. ASSUME NEW i \in 0..n PROVE f[i] = IF i = 0 THEN <<>> ELSE f[i - 1] \o path[i]
    <3>1. CASE i = 0
      BY <1>5, <3>1
    <3>2. CASE i # 0
      <4>1. i \in 1..n
        BY <3>2
      <4> QED
        BY <4>1, <3>2, <1>5
    <3> QED
      BY <3>1, <3>2
  <2> QED
    BY <2>1, <1>1, <1>4
<1>7. PICK at : Solution(at) /\ Words(path) = at[Len(path)]
  <2> DEFINE chosen == CHOOSE f1 : Solution(f1)
  <2>1. Solution(chosen)
    <3> HIDE DEF Solution
    <3> QED
      BY <1>6, Zenon
  <2>2. Words(path) = chosen[Len(path)]
    BY DEF Words
  <2> HIDE DEF chosen, Solution
  <2> QED
    BY <2>1, <2>2
<1>8. at = [i \in 0..n |-> IF i = 0 THEN <<>> ELSE at[i - 1] \o path[i]]
  BY <1>1, <1>7
<1> HIDE DEF Solution
<1>9. at[0] = <<>> /\ \A i \in 1..n : at[i] = at[i - 1] \o path[i]
  <2>1. \A i \in 0..n : at[i] = IF i = 0 THEN <<>> ELSE at[i - 1] \o path[i]
    BY <1>8
  <2>2. at[0] = <<>>
    BY <2>1
  <2>3. ASSUME NEW i \in 1..n PROVE at[i] = at[i - 1] \o path[i]
    <3>1. i \in 0..n /\ i # 0
      OBVIOUS
    <3>2. at[i] = IF i = 0 THEN <<>> ELSE at[i - 1] \o path[i]
      BY <2>1, <3>1
    <3> QED
      BY <3>1, <3>2
  <2> QED
    BY <2>2, <2>3
<1>10. Same(at, f, n)
  <2>1. SameSteps(at, f, n)
    BY <1>5, <1>9 DEF SameSteps
  <2> QED
    BY <2>1, Agree
<1>11. at[n] = word
  <2>1. at[n] = f[n] /\ f[n] = Prefix(word, n)
    BY <1>10, <1>4 DEF Same
  <2> QED
    BY <2>1, <1>3, PrefixEnds
<1> QED
  BY <1>1, <1>2, <1>7, <1>11 DEF word

LEMMA WordsInjective ==
    ASSUME NEW p \in Seq(Names), NEW q \in Seq(Names),
           ~HasUnderscore(p), ~HasUnderscore(q), Words(p) = Words(q)
    PROVE  p = q
<1>1. /\ \A i \in 1..Len(p) : p[i] = <<p[i][1]>>
      /\ Words(p) = [i \in 1..Len(p) |-> p[i][1]]
  BY WordsOfPlain
<1>2. /\ \A i \in 1..Len(q) : q[i] = <<q[i][1]>>
      /\ Words(q) = [i \in 1..Len(q) |-> q[i][1]]
  BY WordsOfPlain
<1>3. Len(p) \in Nat /\ Len(q) \in Nat
  OBVIOUS
<1>4. 1..Len(p) = 1..Len(q)
  <2>1. DOMAIN Words(p) = 1..Len(p) /\ DOMAIN Words(q) = 1..Len(q)
    BY <1>1, <1>2
  <2> QED
    BY <2>1
<1>5. Len(p) = Len(q)
  BY <1>3, <1>4
<1>6. \A i \in 1..Len(p) : p[i] = q[i]
  <2> TAKE i \in 1..Len(p)
  <2>1. Words(p)[i] = p[i][1] /\ Words(q)[i] = q[i][1]
    BY <1>1, <1>2, <1>5
  <2> QED
    BY <2>1, <1>1, <1>2, <1>5
<1> QED
  BY <1>5, <1>6, SeqEqual

LEMMA PlainPrefix ==
    ASSUME NEW p \in Seq(Names), ~HasUnderscore(p), NEW i \in 0..Len(p)
    PROVE  ~HasUnderscore(Prefix(p, i))
<1>1. DOMAIN Prefix(p, i) = 1..i /\ \A j \in 1..i : Prefix(p, i)[j] = p[j]
  BY PrefixFacts
<1>2. 1..i \subseteq DOMAIN p
  OBVIOUS
<1> QED
  BY <1>1, <1>2 DEF HasUnderscore

-----------------------------------------------------------------------------
(* Real paths *)

LEMMA PathFacts ==
    /\ Seq(Names) \subseteq Texts
    /\ <<>> \in Seq(Names) /\ <<>> \in Texts /\ <<>> \in Dirs /\ <<>> \in Found
    /\ Dirs \subseteq Found /\ Files \subseteq Found
    /\ \A f \in Files : f \notin Dirs /\ f # <<>> /\ Parent(f) \in Dirs
<1>1. Seq(Names) \subseteq Texts
  BY DEF Texts
<1>2. <<>> \in Seq(Names)
  OBVIOUS
<1>3. <<>> \in Dirs /\ \A f \in Files : f \notin Dirs /\ Parent(f) \in Dirs
  BY TreeAssumption
<1> QED
  BY <1>1, <1>2, <1>3 DEF Found

\* What is above a directory or a file is a directory.
LEMMA PrefixDirs ==
    ASSUME NEW p \in Dirs \cup Files, NEW j \in 0..Len(p), j < Len(p) \/ p \in Dirs
    PROVE  Prefix(p, j) \in Dirs
<1> DEFINE n == Len(p)
           S == {k \in 0..n : (k > 0 \/ p \in Dirs) => Prefix(p, n - k) \in Dirs}
<1>1. p \in Seq(Names) /\ n \in Nat
  BY NamesFacts
<1>2. 0 \in S
  <2>1. Prefix(p, n - 0) = p
    <3>1. n - 0 = n
      BY <1>1
    <3> QED
      BY <1>1, <3>1, PrefixEnds
  <2> QED
    BY <1>1, <2>1
<1>3. ASSUME NEW k \in 0..(n - 1), k \in S PROVE k + 1 \in S
  <2> DEFINE q == Prefix(p, n - k)
  <2>1. n - k \in 1..n /\ n - k \in 0..n /\ n - (k + 1) = (n - k) - 1
        /\ n - (k + 1) \in 0..(n - k)
    BY <1>1
  <2>2. q \in Seq(Names) /\ Len(q) = n - k
    BY <1>1, <2>1, PrefixFacts
  <2>3. q # <<>>
    BY <2>1, <2>2
  <2>4. Parent(q) = Prefix(q, n - (k + 1))
    BY <2>2, <2>3, <2>1, ParentFacts
  <2>5. Parent(q) = Prefix(p, n - (k + 1))
    BY <2>4, <2>1, <1>1, PrefixPrefix
  <2>6. q \in Dirs \/ q \in Files
    <3>1. CASE k = 0
      <4>1. n - k = n
        BY <1>1, <3>1
      <4> QED
        BY <1>1, <4>1, PrefixEnds
    <3>2. CASE k # 0
      BY <1>3, <3>2
    <3> QED
      BY <3>1, <3>2
  <2>7. Parent(q) \in Dirs
    BY <2>3, <2>6, TreeAssumption
  <2> QED
    BY <2>5, <2>7
<1>4. \A k \in 0..n : k \in S
  <2> HIDE DEF S
  <2> QED
    BY <1>1, <1>2, <1>3, Induct, Zenon
<1>5. n - j \in 0..n /\ n - (n - j) = j /\ (n - j > 0 \/ p \in Dirs)
  BY <1>1
<1> QED
  BY <1>4, <1>5

LEMMA StepNowhere ==
    ASSUME NEW dir \in {Missing} \cup Files, NEW name
    PROVE  Step(dir, name) = Missing
BY DEF Step

LEMMA StepUp ==
    ASSUME NEW dir \in Dirs
    PROVE  /\ Step(dir, Up) = IF dir = <<>> THEN <<>> ELSE Parent(dir)
           /\ Step(dir, Up) \in Dirs
<1>1. dir # Missing /\ dir \notin Files
  BY NamesFacts, TreeAssumption
<1>2. <<>> \in Dirs /\ (dir # <<>> => Parent(dir) \in Dirs)
  BY TreeAssumption
<1> QED
  BY <1>1, <1>2 DEF Step

LEMMA StepDown ==
    ASSUME NEW dir \in Dirs, NEW name \in Names
    PROVE  LET path == Append(dir, name)
           IN  Step(dir, name) = IF path \in DOMAIN Links THEN Links[path]
                                 ELSE IF path \in Dirs \cup Files THEN path ELSE Missing
<1>1. dir # Missing /\ dir \notin Files /\ name # Up
  BY NamesFacts, TreeAssumption
<1> QED
  BY <1>1 DEF Step

LEMMA StepInto ==
    ASSUME NEW dir \in Dirs, NEW name \in Names, Append(dir, name) \in Dirs \cup Files
    PROVE  Step(dir, name) = Append(dir, name)
<1>1. Append(dir, name) \notin DOMAIN Links
  BY TreeAssumption
<1> QED
  BY <1>1, StepDown

LEMMA ConcatFacts ==
    ASSUME NEW S, NEW s \in Seq(S), NEW t \in Seq(S)
    PROVE  /\ s \o t \in Seq(S) /\ Len(s) \in Nat /\ Len(t) \in Nat
           /\ Len(s \o t) = Len(s) + Len(t)
           /\ \A i \in 1..Len(s) : (s \o t)[i] = s[i]
           /\ \A i \in 1..Len(t) : (s \o t)[Len(s) + i] = t[i]
<1>1. Len(s) \in Nat /\ Len(t) \in Nat
  OBVIOUS
<1> DEFINE c == s \o t
<1>2. /\ c \in Seq(S) /\ Len(c) = Len(s) + Len(t)
      /\ \A i \in 1..Len(s) + Len(t) : c[i] = IF i <= Len(s) THEN s[i] ELSE t[i - Len(s)]
  BY ConcatProperties
<1> HIDE DEF c
<1>3. ASSUME NEW i \in 1..Len(t) PROVE c[Len(s) + i] = t[i]
  <2>1. /\ Len(s) + i \in 1..Len(s) + Len(t) /\ ~(Len(s) + i <= Len(s))
        /\ (Len(s) + i) - Len(s) = i
    BY <1>1
  <2> QED
    BY <1>2, <2>1
<1>4. ASSUME NEW i \in 1..Len(s) PROVE c[i] = s[i]
  <2>1. i \in 1..Len(s) + Len(t) /\ i <= Len(s)
    BY <1>1
  <2> QED
    BY <1>2, <2>1
<1> QED
  BY <1>1, <1>2, <1>3, <1>4 DEF c

LEMMA RealFound ==
    ASSUME NEW path \in Seq(Names)
    PROVE  /\ Real(<<>>) = <<>> /\ Real(path) \in Found
           /\ \A i \in 0..Len(path) : Real(Prefix(path, i)) \in Found
           /\ \A i \in 1..Len(path) :
                 /\ path[i] \in Names
                 /\ Real(Prefix(path, i)) = Step(Real(Prefix(path, i - 1)), path[i])
<1>1. path \in Texts /\ <<>> \in Found
  BY PathFacts
<1>2. \A i \in 1..Len(path) : path[i] \in Names
  BY ElementOfSeq
<1> QED
  BY <1>1, <1>2, WalkFacts DEF Real

\* The rest of a path, where the directories are as the text says.
Rejoined(path, i) == Real(Prefix(path, i)) \o SubSeq(path, i + 1, Len(path))

LEMMA Climb ==
    ASSUME NEW path \in Seq(Names), NEW i \in 0..Len(path), NEW full \in Dirs \cup Files,
           full = Rejoined(path, i)
    PROVE  /\ Len(full) = Len(Real(Prefix(path, i))) + (Len(path) - i)
           /\ Real(Prefix(path, i)) \in Seq(Names)
           /\ \A j \in i..Len(path) :
                 Real(Prefix(path, j)) = Prefix(full, Len(full) - (Len(path) - j))
<1>0. PICK n \in Nat : n = Len(path)
  OBVIOUS
<1> DEFINE base == Real(Prefix(path, i))
           rest == SubSeq(path, i + 1, n)
<1>1. /\ path \in Texts /\ full \in Seq(Names) /\ i \in 0..n /\ n = Len(path)
      /\ n \in Nat /\ i \in Nat
  <2>1. path \in Texts
    BY PathFacts
  <2>2. full \in Seq(Names)
    BY NamesFacts
  <2> QED
    BY <1>0, <2>1, <2>2
<1>2. rest \in Seq(Names) /\ Len(rest) = n - i /\ \A k \in 1..(n - i) : rest[k] = path[i + k]
  BY <1>1
<1>3. base \in Found
  BY <1>1, WalkFacts, PathFacts DEF Real
<1>4. base \in Seq(Names)
  <2>1. CASE base = Missing
    <3>1. base \in Seq({Up} \cup Names) /\ Len(base) = 1 /\ base[1] = Up
      BY <2>1 DEF Missing
    <3>2. rest \in Seq({Up} \cup Names)
      BY <1>2
    <3>3. full = base \o rest
      BY <1>1 DEF Rejoined
    <3> HIDE DEF base, rest
    <3>6. /\ Len(full) = Len(base) + Len(rest) /\ Len(rest) \in Nat
          /\ \A k \in 1..Len(base) : full[k] = base[k]
      BY <3>1, <3>2, <3>3, ConcatFacts
    <3>4. 1 \in 1..Len(full) /\ full[1] = Up
      BY <3>1, <3>6
    <3>5. full[1] \in Names
      BY <3>4, <1>1, ElementOfSeq
    <3> QED
      BY <3>4, <3>5, NamesFacts
  <2>2. CASE base # Missing
    BY <2>2, <1>3, NamesFacts DEF Found
  <2> QED
    BY <2>1, <2>2
<1>5. full = base \o rest
  BY <1>1 DEF Rejoined
<1> HIDE DEF base, rest
<1>6. /\ Len(full) = Len(base) + (n - i) /\ Len(base) \in Nat
      /\ \A k \in 1..Len(base) : full[k] = base[k]
      /\ \A k \in 1..(n - i) : full[Len(base) + k] = path[i + k]
  <2>1. /\ Len(full) = Len(base) + Len(rest) /\ Len(base) \in Nat
        /\ \A k \in 1..Len(base) : full[k] = base[k]
        /\ \A k \in 1..Len(rest) : full[Len(base) + k] = rest[k]
    <3>1. /\ Len(base \o rest) = Len(base) + Len(rest) /\ Len(base) \in Nat
          /\ \A k \in 1..Len(base) : (base \o rest)[k] = base[k]
          /\ \A k \in 1..Len(rest) : (base \o rest)[Len(base) + k] = rest[k]
      <4>1. base \in Seq(Names) /\ rest \in Seq(Names)
        BY <1>2, <1>4
      <4>2. Len(base) \in Nat /\ Len(base \o rest) = Len(base) + Len(rest)
        BY <4>1, ConcatFacts
      <4>3. \A k \in 1..Len(base) : (base \o rest)[k] = base[k]
        BY <4>1, ConcatFacts
      <4>4. \A k \in 1..Len(rest) : (base \o rest)[Len(base) + k] = rest[k]
        BY <4>1, ConcatFacts
      <4> QED
        BY <4>2, <4>3, <4>4
    <3> QED
      BY <3>1, <1>5, Zenon
  <2> QED
    BY <1>2, <2>1
<1> DEFINE S == {k \in 0..(n - i) : Real(Prefix(path, i + k)) = Prefix(full, Len(base) + k)}
<1>7. 0 \in S
  <2>1. Prefix(full, Len(base)) = base
    <3>1. Len(base) \in 0..Len(full)
      BY <1>1, <1>6
    <3>2. /\ Prefix(full, Len(base)) \in Seq(Names)
          /\ Len(Prefix(full, Len(base))) = Len(base)
          /\ \A k \in 1..Len(base) : Prefix(full, Len(base))[k] = full[k]
      BY <1>1, <3>1, PrefixFacts
    <3> QED
      BY <3>2, <1>4, <1>6, SeqEqual
  <2>2. Real(Prefix(path, i)) = base
    BY DEF base
  <2>3. Len(base) + 0 = Len(base) /\ i + 0 = i
    BY <1>6
  <2>4. Real(Prefix(path, i + 0)) = Prefix(full, Len(base) + 0)
    BY <2>1, <2>2, <2>3
  <2> QED
    BY <2>4, <1>1
<1>8. ASSUME NEW k \in 0..((n - i) - 1), k \in S PROVE k + 1 \in S
  <2>1. /\ i + (k + 1) \in 1..n /\ (i + (k + 1)) - 1 = i + k
        /\ Len(base) + (k + 1) \in 1..Len(full)
        /\ (Len(base) + (k + 1)) - 1 = Len(base) + k
        /\ Len(base) + k \in 0..Len(full) /\ Len(base) + k < Len(full)
        /\ Len(base) + (k + 1) \in 0..Len(full)
        /\ k + 1 \in 1..(n - i)
    BY <1>1, <1>6
  <2> DEFINE dir == Prefix(full, Len(base) + k)
             name == path[i + (k + 1)]
             next == Prefix(full, Len(base) + (k + 1))
  <2>2. Real(Prefix(path, i + k)) = dir
    BY <1>8
  <2>3. Real(Prefix(path, i + (k + 1))) = Step(Real(Prefix(path, i + k)), name)
    BY <2>1, <1>1, RealFound
  <2>4. name = full[Len(base) + (k + 1)] /\ name \in Names
    BY <2>1, <1>6, <1>1, ElementOfSeq
  <2>5. next = Append(dir, name)
    BY <2>1, <2>4, <1>1, PrefixStep
  <2>6. dir \in Dirs
    BY <2>1, PrefixDirs
  <2>7. next \in Dirs \cup Files
    <3>1. CASE Len(base) + (k + 1) < Len(full)
      BY <3>1, <2>1, PrefixDirs
    <3>2. CASE ~(Len(base) + (k + 1) < Len(full))
      <4>1. Len(base) + (k + 1) = Len(full)
        BY <3>2, <2>1
      <4> QED
        BY <4>1, <1>1, PrefixEnds
    <3> QED
      BY <3>1, <3>2
  <2> HIDE DEF dir, name, next
  <2>8. Step(dir, name) = next
    BY <2>4, <2>5, <2>6, <2>7, StepInto
  <2>9. Real(Prefix(path, i + (k + 1))) = next
    BY <2>2, <2>3, <2>8
  <2>10. k + 1 \in 0..(n - i)
    BY <2>1
  <2> QED
    BY <2>9, <2>10 DEF next
<1>9. n - i \in Nat
  BY <1>1
<1>10. \A k \in 0..(n - i) : k \in S
  <2> HIDE DEF S
  <2> QED
    BY <1>7, <1>8, <1>9, Induct, Zenon
<1>11. ASSUME NEW j \in i..n
       PROVE  Real(Prefix(path, j)) = Prefix(full, Len(full) - (n - j))
  <2>1. j - i \in 0..(n - i) /\ i + (j - i) = j /\ Len(base) + (j - i) = Len(full) - (n - j)
    BY <1>1, <1>6
  <2>2. Real(Prefix(path, i + (j - i))) = Prefix(full, Len(base) + (j - i))
    BY <1>10, <2>1
  <2> QED
    BY <2>1, <2>2
<1> QED
  BY <1>1, <1>4, <1>6, <1>11 DEF base

\* A path without links in it.
LEMMA RealOfReal ==
    ASSUME NEW p \in Dirs \cup Files
    PROVE  Real(p) = p /\ \A j \in 0..Len(p) : Real(Prefix(p, j)) = Prefix(p, j)
<1>1. p \in Seq(Names) /\ Len(p) \in Nat
  BY NamesFacts
<1>2. Prefix(p, 0) = <<>> /\ Prefix(p, Len(p)) = p
  BY <1>1, PrefixEnds
<1>3. Real(<<>>) = <<>>
  BY <1>1, RealFound
<1>4. p = Rejoined(p, 0)
  <2>1. SubSeq(p, 0 + 1, Len(p)) = p
    BY <1>2 DEF Prefix
  <2> QED
    BY <2>1, <1>1, <1>2, <1>3, ConcatEmptySeq DEF Rejoined
<1>5. 0 \in 0..Len(p)
  BY <1>1
<1>6. \A j \in 0..Len(p) : Real(Prefix(p, j)) = Prefix(p, Len(p) - (Len(p) - j))
  BY <1>1, <1>4, <1>5, Climb
<1>7. \A j \in 0..Len(p) : Len(p) - (Len(p) - j) = j
  BY <1>1
<1>8. \A j \in 0..Len(p) : Real(Prefix(p, j)) = Prefix(p, j)
  BY <1>6, <1>7
<1> QED
  BY <1>1, <1>2, <1>8

LEMMA RealOfFile ==
    ASSUME NEW path \in Seq(Names), Real(path) \in Files
    PROVE  /\ path # <<>> /\ Parent(path) \in Seq(Names)
           /\ Real(Parent(path)) = Parent(Real(path)) /\ Parent(Real(path)) \in Dirs
<1>1. Real(<<>>) = <<>> /\ <<>> \notin Files
  BY WalkFacts, PathFacts DEF Real
<1>2. path # <<>>
  BY <1>1
<1> DEFINE name == path[Len(path)]
           up == Parent(path)
<1>3. /\ name \in Names /\ up \in Seq(Names) /\ path = Append(up, name)
  BY <1>2, ParentFacts
<1> HIDE DEF name, up
<1>4. Real(path) = Step(Real(up), name)
  BY <1>3, WalkAppend, PathFacts DEF Real
<1>5. Real(up) \in Found
  BY <1>3, RealFound
<1>6. Real(up) \in Dirs
  <2>1. Missing \notin Files
    BY NamesFacts
  <2> QED
    BY <1>4, <1>5, <2>1, StepNowhere DEF Found
<1>7. Real(path) = Append(Real(up), name)
  <2>1. \A p \in DOMAIN Links : Links[p] \notin Files
    BY TreeAssumption
  <2>2. Missing \notin Files
    BY NamesFacts
  <2> QED
    BY <1>3, <1>4, <1>6, <2>1, <2>2, StepDown
<1>8. Real(up) \in Seq(Names)
  BY <1>6, NamesFacts
<1>9. Parent(Real(path)) = Real(up)
  BY <1>3, <1>7, <1>8, AppendFacts
<1> QED
  BY <1>2, <1>3, <1>6, <1>9 DEF up

-----------------------------------------------------------------------------
(* Relative paths *)

Linked(dir, names) ==
    \E i \in DOMAIN names :
        Append(Walk(dir, Prefix(names, i - 1)), names[i]) \in DOMAIN Links

LEMMA TextFacts ==
    ASSUME NEW names \in Texts
    PROVE  /\ Len(names) \in Nat /\ DOMAIN names = 1..Len(names)
           /\ Prefix(names, 0) = <<>> /\ Prefix(names, Len(names)) = names
           /\ \A i \in 0..Len(names) : Prefix(names, i) \in Texts
           /\ \A i \in 1..Len(names) :
                 /\ names[i] \in Names \cup {Up}
                 /\ Prefix(names, i) = Append(Prefix(names, i - 1), names[i])
           /\ names # <<>> =>
                 /\ Parent(names) \in Texts /\ names[Len(names)] \in Names \cup {Up}
                 /\ names = Append(Parent(names), names[Len(names)])
<1> DEFINE S == Names \cup {Up}
<1>1. names \in Seq(S)
  BY DEF Texts
<1>2. Len(names) \in Nat /\ DOMAIN names = 1..Len(names)
  BY <1>1
<1>3. Prefix(names, 0) = <<>> /\ Prefix(names, Len(names)) = names
  BY <1>1, PrefixEnds
<1>4. \A i \in 0..Len(names) : Prefix(names, i) \in Texts
  BY <1>1, PrefixFacts DEF Texts
<1>5. \A i \in 1..Len(names) :
         names[i] \in S /\ Prefix(names, i) = Append(Prefix(names, i - 1), names[i])
  BY <1>1, PrefixStep
<1>6. names # <<>> =>
         /\ Parent(names) \in Seq(S) /\ names[Len(names)] \in S
         /\ names = Append(Parent(names), names[Len(names)])
  BY <1>1, ParentFacts
<1> QED
  BY <1>2, <1>3, <1>4, <1>5, <1>6 DEF Texts

LEMMA LinkedAppend ==
    ASSUME NEW dir \in Found, NEW names \in Texts, NEW name \in Names \cup {Up}
    PROVE  Linked(dir, Append(names, name)) <=>
               \/ Linked(dir, names)
               \/ Append(Walk(dir, names), name) \in DOMAIN Links
<1> DEFINE S == Names \cup {Up}
           a == Append(names, name)
           n == Len(names)
<1>1. names \in Seq(S) /\ n \in Nat /\ DOMAIN names = 1..n
  BY TextFacts DEF Texts
<1>2. /\ a \in Seq(S) /\ Len(a) = n + 1 /\ a[n + 1] = name
      /\ \A i \in 1..n : a[i] = names[i]
  BY <1>1, AppendProperties
<1>3. \A i \in 0..n : Prefix(a, i) = Prefix(names, i)
  BY <1>1, AppendFacts
<1>4. DOMAIN a = 1..(n + 1)
  BY <1>2
<1>5. Prefix(a, n) = names
  BY <1>1, <1>3, PrefixEnds
<1> HIDE DEF a
<1>6. \A i \in 1..n : i - 1 \in 0..n /\ i \in 1..(n + 1)
  BY <1>1
<1>7. n + 1 \in 1..(n + 1) /\ (n + 1) - 1 = n
      /\ \A i \in 1..(n + 1) : i = n + 1 \/ i \in 1..n
  BY <1>1
<1> HIDE DEF n
<1>8. ASSUME NEW i \in 1..n
      PROVE  Append(Walk(dir, Prefix(a, i - 1)), a[i])
                = Append(Walk(dir, Prefix(names, i - 1)), names[i])
  BY <1>2, <1>3, <1>6
<1>9. Append(Walk(dir, Prefix(a, (n + 1) - 1)), a[n + 1]) = Append(Walk(dir, names), name)
  BY <1>2, <1>5, <1>7
<1>10. Linked(dir, a) <=>
          \/ \E i \in 1..n : Append(Walk(dir, Prefix(names, i - 1)), names[i]) \in DOMAIN Links
          \/ Append(Walk(dir, names), name) \in DOMAIN Links
  BY <1>4, <1>6, <1>7, <1>8, <1>9 DEF Linked
<1> QED
  BY <1>1, <1>10 DEF Linked, a

LEMMA LinkedPrefix ==
    ASSUME NEW dir \in Found, NEW names \in Texts, ~Linked(dir, names)
    PROVE  \A i \in 1..Len(names) :
              Append(Walk(dir, Prefix(names, i - 1)), names[i]) \notin DOMAIN Links
BY TextFacts DEF Linked

\* A walk that arrives somewhere goes through directories.
LEMMA WalkDirs ==
    ASSUME NEW dir \in Found, NEW names \in Texts, Walk(dir, names) # Missing
    PROVE  /\ \A i \in 0..Len(names) : Walk(dir, Prefix(names, i)) # Missing
           /\ \A i \in 1..Len(names) : Walk(dir, Prefix(names, i - 1)) \in Dirs
<1> DEFINE n == Len(names)
           S == {k \in 0..n : Walk(dir, Prefix(names, n - k)) # Missing}
<1>1. n \in Nat /\ Prefix(names, n) = names
  BY TextFacts
<1>2. \A i \in 1..n :
         /\ Walk(dir, Prefix(names, i)) = Step(Walk(dir, Prefix(names, i - 1)), names[i])
         /\ Walk(dir, Prefix(names, i - 1)) \in Found
  <2>1. \A i \in 1..n : i - 1 \in 0..n
    BY <1>1
  <2> QED
    BY <2>1, WalkFacts
<1>3. \A i \in 1..n : Walk(dir, Prefix(names, i)) # Missing
                         => Walk(dir, Prefix(names, i - 1)) \in Dirs
  BY <1>2, StepNowhere DEF Found
<1> HIDE DEF n
<1>4. 0 \in S
  <2>1. n - 0 = n
    BY <1>1
  <2> QED
    BY <1>1, <2>1
<1>5. ASSUME NEW k \in 0..(n - 1), k \in S PROVE k + 1 \in S
  <2>1. n - k \in 1..n /\ (n - k) - 1 = n - (k + 1) /\ k + 1 \in 0..n
    BY <1>1
  <2>2. Walk(dir, Prefix(names, n - k)) # Missing
    BY <1>5
  <2>3. Walk(dir, Prefix(names, (n - k) - 1)) \in Dirs
    BY <1>3, <2>1, <2>2
  <2>4. Walk(dir, Prefix(names, n - (k + 1))) # Missing
    BY <2>1, <2>3, NamesFacts
  <2> QED
    BY <2>1, <2>4
<1>6. \A k \in 0..n : k \in S
  <2> HIDE DEF S
  <2> QED
    BY <1>1, <1>4, <1>5, Induct, Zenon
<1>7. ASSUME NEW i \in 0..n PROVE Walk(dir, Prefix(names, i)) # Missing
  <2>1. n - i \in 0..n /\ n - (n - i) = i
    BY <1>1
  <2> QED
    BY <2>1, <1>6
<1>8. \A i \in 1..n : i \in 0..n
  BY <1>1
<1> QED
  BY <1>3, <1>7, <1>8 DEF n

LEMMA CleanText ==
    ASSUME NEW names \in Texts
    PROVE  /\ Clean(FALSE, <<>>, <<>>) = <<>>
           /\ Clean(FALSE, <<>>, names) \in Texts
           /\ \A i \in 0..Len(names) : Clean(FALSE, <<>>, Prefix(names, i)) \in Texts
<1>1. <<>> \in Cleans(FALSE) /\ Cleans(FALSE) = Texts
  BY PathFacts DEF Cleans
<1> QED
  BY <1>1, CleanFacts

LEMMA CleanPath ==
    ASSUME NEW path \in Seq(Names), NEW names \in Texts
    PROVE  /\ Clean(TRUE, path, <<>>) = path
           /\ Clean(TRUE, path, names) \in Seq(Names)
           /\ \A i \in 0..Len(names) : Clean(TRUE, path, Prefix(names, i)) \in Seq(Names)
<1>1. path \in Cleans(TRUE) /\ Cleans(TRUE) = Seq(Names)
  BY DEF Cleans
<1> QED
  BY <1>1, CleanFacts

LEMMA CleanPathAppend ==
    ASSUME NEW path \in Seq(Names), NEW names \in Texts, NEW name \in Names \cup {Up}
    PROVE  Clean(TRUE, path, Append(names, name)) = Cleaned(TRUE, Clean(TRUE, path, names), name)
<1>1. path \in Cleans(TRUE)
  BY DEF Cleans
<1> QED
  BY <1>1, CleanAppend

\* The next name of a path.
LEMMA NextName ==
    ASSUME NEW names \in Texts, NEW i \in 0..(Len(names) - 1)
    PROVE  /\ i \in 0..Len(names) /\ i + 1 \in 0..Len(names) /\ i + 1 \in 1..Len(names)
           /\ (i + 1) - 1 = i
           /\ names[i + 1] \in Names \cup {Up} /\ Prefix(names, i) \in Texts
           /\ Prefix(names, i + 1) = Append(Prefix(names, i), names[i + 1])
<1>1. Len(names) \in Nat
  BY TextFacts
<1>2. /\ i \in 0..Len(names) /\ i + 1 \in 0..Len(names) /\ i + 1 \in 1..Len(names)
      /\ (i + 1) - 1 = i
  BY <1>1
<1> QED
  BY <1>2, TextFacts

LEMMA CleanPathNext ==
    ASSUME NEW path \in Seq(Names), NEW names \in Texts, NEW i \in 0..(Len(names) - 1)
    PROVE  Clean(TRUE, path, Prefix(names, i + 1))
              = Cleaned(TRUE, Clean(TRUE, path, Prefix(names, i)), names[i + 1])
<1>1. /\ names[i + 1] \in Names \cup {Up} /\ Prefix(names, i) \in Texts
      /\ Prefix(names, i + 1) = Append(Prefix(names, i), names[i + 1])
  BY NextName, Zenon
<1>2. Clean(TRUE, path, Append(Prefix(names, i), names[i + 1]))
         = Cleaned(TRUE, Clean(TRUE, path, Prefix(names, i)), names[i + 1])
  BY <1>1, CleanPathAppend, Zenon
<1> QED
  BY <1>1, <1>2, Zenon

\* A path without ".." is clean.
LEMMA CleanPlain ==
    ASSUME NEW path \in Seq(Names)
    PROVE  Clean(TRUE, <<>>, path) = path
<1> DEFINE S == {i \in 0..Len(path) : Clean(TRUE, <<>>, Prefix(path, i)) = Prefix(path, i)}
<1>1. path \in Texts /\ <<>> \in Seq(Names)
  BY PathFacts
<1>2. /\ Len(path) \in Nat /\ Prefix(path, 0) = <<>> /\ Prefix(path, Len(path)) = path
  BY <1>1, TextFacts
<1>3. 0 \in S
  <2>1. Clean(TRUE, <<>>, <<>>) = <<>>
    BY <1>1, CleanPath, Zenon
  <2>2. 0 \in 0..Len(path)
    BY <1>2
  <2>3. Clean(TRUE, <<>>, Prefix(path, 0)) = Prefix(path, 0)
    BY <1>2, <2>1, Zenon
  <2> QED
    BY <2>2, <2>3
<1>4. ASSUME NEW i \in 0..(Len(path) - 1), i \in S PROVE i + 1 \in S
  <2>1. i + 1 \in 0..Len(path) /\ i + 1 \in 1..Len(path)
    BY <1>1, NextName
  <2>2. path[i + 1] # Up
    <3>1. path[i + 1] \in Names
      BY <2>1, ElementOfSeq
    <3> QED
      BY <3>1, NamesFacts
  <2>3. Clean(TRUE, <<>>, Prefix(path, i + 1))
           = Cleaned(TRUE, Clean(TRUE, <<>>, Prefix(path, i)), path[i + 1])
    BY <1>1, CleanPathNext
  <2>4. Prefix(path, i + 1) = Append(Prefix(path, i), path[i + 1])
    BY <1>1, NextName
  <2> QED
    BY <1>4, <2>1, <2>2, <2>3, <2>4 DEF Cleaned
<1>5. \A i \in 0..Len(path) : i \in S
  <2> HIDE DEF S
  <2> QED
    BY <1>2, <1>3, <1>4, Induct, Zenon
<1>6. Clean(TRUE, <<>>, Prefix(path, Len(path))) = Prefix(path, Len(path))
  <2>1. Len(path) \in 0..Len(path)
    BY <1>2
  <2> QED
    BY <1>5, <2>1
<1> QED
  BY <1>2, <1>6, Zenon

LEMMA CleanTextNext ==
    ASSUME NEW names \in Texts, NEW i \in 0..(Len(names) - 1)
    PROVE  Clean(FALSE, <<>>, Prefix(names, i + 1))
              = Cleaned(FALSE, Clean(FALSE, <<>>, Prefix(names, i)), names[i + 1])
<1>1. <<>> \in Cleans(FALSE)
  BY PathFacts DEF Cleans
<1>2. /\ names[i + 1] \in Names \cup {Up} /\ Prefix(names, i) \in Texts
      /\ Prefix(names, i + 1) = Append(Prefix(names, i), names[i + 1])
  BY NextName, Zenon
<1>3. Clean(FALSE, <<>>, Append(Prefix(names, i), names[i + 1]))
         = Cleaned(FALSE, Clean(FALSE, <<>>, Prefix(names, i)), names[i + 1])
  BY <1>1, <1>2, CleanAppend, Zenon
<1> QED
  BY <1>2, <1>3, Zenon

\* Where no link is met, the text of a path says where it leads.
LEMMA TextWalk ==
    ASSUME NEW dir \in Dirs, NEW names \in Texts, ~Linked(dir, names),
           Walk(dir, names) # Missing
    PROVE  Clean(TRUE, dir, names) = Walk(dir, names)
<1> DEFINE S == {i \in 0..Len(names) :
                    Clean(TRUE, dir, Prefix(names, i)) = Walk(dir, Prefix(names, i))}
<1>1. PICK n \in Nat : n = Len(names)
  BY TextFacts
<1>2. dir \in Seq(Names) /\ dir \in Found
  BY NamesFacts, PathFacts
<1>3. Prefix(names, 0) = <<>> /\ Prefix(names, n) = names
  BY <1>1, TextFacts
<1>4. 0 \in S
  <2>1. Clean(TRUE, dir, <<>>) = dir /\ Walk(dir, <<>>) = dir
    BY <1>2, CleanPath, WalkFacts
  <2>2. 0 \in 0..Len(names)
    BY <1>1
  <2>3. Clean(TRUE, dir, Prefix(names, 0)) = Walk(dir, Prefix(names, 0))
    BY <2>1, <1>3, Zenon
  <2> QED
    BY <2>2, <2>3
<1>5. ASSUME NEW i \in 0..(n - 1), i \in S PROVE i + 1 \in S
  <2>1. i + 1 \in 1..Len(names) /\ (i + 1) - 1 = i /\ i \in 0..(Len(names) - 1)
    BY <1>1
  <2> DEFINE here == Walk(dir, Prefix(names, i))
             name == names[i + 1]
             there == Walk(dir, Prefix(names, i + 1))
  <2>2. Clean(TRUE, dir, Prefix(names, i)) = here
    BY <1>5
  <2>3. Clean(TRUE, dir, Prefix(names, i + 1)) = Cleaned(TRUE, here, name)
    BY <2>1, <2>2, <1>2, CleanPathNext
  <2>4. there = Step(here, name)
    BY <2>1, <1>2, WalkFacts
  <2>5. here \in Dirs
    BY <2>1, <1>2, WalkDirs
  <2>11. i + 1 \in 0..Len(names)
    BY <1>1
  <2>6. there # Missing
    BY <2>11, <1>2, WalkDirs
  <2>7. name \in Names \cup {Up}
    BY <2>1, TextFacts
  <2>8. Append(here, name) \notin DOMAIN Links
    BY <2>1, <1>2, LinkedPrefix
  <2>9. here \in Seq(Names)
    BY <2>5, NamesFacts
  <2> HIDE DEF here, name, there
  <2>10. Cleaned(TRUE, here, name) = there
    <3>1. CASE name = Up /\ here = <<>>
      BY <3>1, <2>4, <2>5, StepUp DEF Cleaned
    <3>2. CASE name = Up /\ here # <<>>
      <4>1. here[Len(here)] # Up
        BY <3>2, <2>9, ParentFacts, NamesFacts
      <4> QED
        BY <3>2, <4>1, <2>4, <2>5, StepUp DEF Cleaned
    <3>3. CASE name # Up
      <4>1. name \in Names
        BY <3>3, <2>7
      <4>2. there = Append(here, name)
        BY <4>1, <2>4, <2>5, <2>6, <2>8, StepDown
      <4> QED
        BY <3>3, <4>2 DEF Cleaned
    <3> QED
      BY <3>1, <3>2, <3>3
  <2>12. Clean(TRUE, dir, Prefix(names, i + 1)) = Walk(dir, Prefix(names, i + 1))
    BY <2>3, <2>10 DEF there
  <2> QED
    BY <2>11, <2>12
<1>6. \A i \in 0..n : i \in S
  <2> HIDE DEF S
  <2> QED
    BY <1>4, <1>5, Induct, Zenon
<1>7. n \in S
  <2> HIDE DEF S
  <2> QED
    BY <1>6
<1>8. Clean(TRUE, dir, Prefix(names, n)) = Walk(dir, Prefix(names, n))
  BY <1>7
<1> QED
  BY <1>3, <1>8

\* What EvalSymlinks leaves of a relative path says the same as the path.
LEMMA CleanClean ==
    ASSUME NEW path \in Seq(Names), NEW names \in Texts
    PROVE  Clean(TRUE, path, Clean(FALSE, <<>>, names)) = Clean(TRUE, path, names)
<1> DEFINE Left(i) == Clean(FALSE, <<>>, Prefix(names, i))
           S == {i \in 0..Len(names) :
                    Clean(TRUE, path, Left(i)) = Clean(TRUE, path, Prefix(names, i))}
<1>1. PICK n \in Nat : n = Len(names)
  BY TextFacts
<1>2. Prefix(names, 0) = <<>> /\ Prefix(names, n) = names
  BY <1>1, TextFacts
<1>3. 0 \in S
  <2>1. Left(0) = <<>>
    BY <1>2, CleanText
  <2> HIDE DEF Left
  <2>2. 0 \in 0..Len(names)
    BY <1>1
  <2>3. Clean(TRUE, path, Left(0)) = Clean(TRUE, path, Prefix(names, 0))
    BY <1>2, <2>1, Zenon
  <2> QED
    BY <2>2, <2>3
<1>4. ASSUME NEW i \in 0..(n - 1), i \in S PROVE i + 1 \in S
  <2>1. i + 1 \in 1..Len(names) /\ (i + 1) - 1 = i /\ i \in 0..Len(names)
        /\ i + 1 \in 0..Len(names) /\ i \in 0..(Len(names) - 1)
    BY <1>1
  <2> DEFINE left == Left(i)
             name == names[i + 1]
             old == Clean(TRUE, path, Prefix(names, i))
  <2>2. Clean(TRUE, path, left) = old /\ old \in Seq(Names)
    BY <1>4, <2>1, CleanPath
  <2>3. Left(i + 1) = Cleaned(FALSE, left, name) /\ left \in Texts
    BY <2>1, CleanText, CleanTextNext
  <2>4. Clean(TRUE, path, Prefix(names, i + 1)) = Cleaned(TRUE, old, name)
    BY <2>1, CleanPathNext
  <2>5. name \in Names \cup {Up}
    BY <2>1, TextFacts
  <2> HIDE DEF left, name, old, Left
  <2>6. Clean(TRUE, path, Cleaned(FALSE, left, name)) = Cleaned(TRUE, old, name)
    <3>1. CASE Cleaned(FALSE, left, name) = Append(left, name)
      BY <3>1, <2>2, <2>3, <2>5, CleanPathAppend
    <3>2. CASE name = Up /\ left # <<>> /\ left[Len(left)] # Up
      <4> DEFINE last == left[Len(left)]
                 up == Clean(TRUE, path, Parent(left))
      <4>1. /\ Parent(left) \in Texts /\ last \in Names \cup {Up}
            /\ left = Append(Parent(left), last)
        BY <2>3, <3>2, TextFacts
      <4>2. up \in Seq(Names)
        BY <4>1, CleanPath
      <4>3. old = Cleaned(TRUE, up, last)
        BY <2>2, <4>1, CleanPathAppend
      <4>4. last \in Names
        BY <3>2, <4>1
      <4>8. last # Up
        BY <3>2
      <4>9. Cleaned(FALSE, left, name) = Parent(left)
        BY <3>2 DEF Cleaned
      <4> HIDE DEF last
      <4>5. old = Append(up, last)
        BY <4>3, <4>8 DEF Cleaned
      <4> HIDE DEF up
      <4>6. old # <<>> /\ old[Len(old)] = last /\ Parent(old) = up
        BY <4>2, <4>4, <4>5, AppendFacts
      <4>7. Cleaned(TRUE, old, name) = up
        BY <3>2, <4>6, <4>8 DEF Cleaned
      <4> QED
        BY <4>7, <4>9 DEF up
    <3>3. CASE name # Up \/ left = <<>> \/ left[Len(left)] = Up
      <4>1. name # Up \/ left = <<>> \/ left[Len(left)] = Up
            => Cleaned(FALSE, left, name) = Append(left, name)
        <5>1. Append(<<>>, Up) = <<Up>>
          OBVIOUS
        <5> QED
          BY <2>5, <5>1 DEF Cleaned
      <4> QED
        BY <3>1, <3>3, <4>1
    <3> QED
      BY <3>2, <3>3, <2>5
  <2> QED
    BY <2>1, <2>3, <2>4, <2>6
<1>5. \A i \in 0..n : i \in S
  <2> HIDE DEF S
  <2> QED
    BY <1>3, <1>4, Induct, Zenon
<1>6. n \in S
  <2> HIDE DEF S
  <2> QED
    BY <1>5
<1>7. Clean(TRUE, path, Left(n)) = Clean(TRUE, path, Prefix(names, n))
  BY <1>6
<1> QED
  BY <1>2, <1>7

\* And leads to the same place, still without a link.
LEMMA WalkClean ==
    ASSUME NEW dir \in Dirs, NEW names \in Texts, ~Linked(dir, names),
           Walk(dir, names) # Missing
    PROVE  /\ ~Linked(dir, Clean(FALSE, <<>>, names))
           /\ Walk(dir, Clean(FALSE, <<>>, names)) = Walk(dir, names)
<1> DEFINE Left(i) == Clean(FALSE, <<>>, Prefix(names, i))
           S == {i \in 0..Len(names) :
                    /\ ~Linked(dir, Left(i))
                    /\ Walk(dir, Left(i)) = Walk(dir, Prefix(names, i))}
<1>0. dir \in Found
  BY PathFacts
<1>1. PICK n \in Nat : n = Len(names)
  BY TextFacts
<1>2. Prefix(names, 0) = <<>> /\ Prefix(names, n) = names
  BY <1>1, TextFacts
<1>3. 0 \in S
  <2>1. ~Linked(dir, <<>>)
    BY DEF Linked
  <2>2. Left(0) = <<>>
    BY <1>2, CleanText
  <2> HIDE DEF Left
  <2> QED
    BY <1>1, <1>2, <2>1, <2>2
<1>4. ASSUME NEW i \in 0..(n - 1), i \in S PROVE i + 1 \in S
  <2>1. i + 1 \in 1..Len(names) /\ (i + 1) - 1 = i /\ i \in 0..Len(names)
        /\ i + 1 \in 0..Len(names) /\ i \in 0..(Len(names) - 1)
    BY <1>1
  <2> DEFINE left == Left(i)
             name == names[i + 1]
             here == Walk(dir, Prefix(names, i))
             there == Walk(dir, Prefix(names, i + 1))
  <2>2. ~Linked(dir, left) /\ Walk(dir, left) = here
    BY <1>4
  <2>3. Left(i + 1) = Cleaned(FALSE, left, name) /\ left \in Texts
    BY <2>1, CleanText, CleanTextNext
  <2>4. there = Step(here, name)
    BY <2>1, <1>0, WalkFacts
  <2>5. here \in Dirs
    BY <2>1, <1>0, WalkDirs
  <2>6. name \in Names \cup {Up}
    BY <2>1, TextFacts
  <2>7. Append(here, name) \notin DOMAIN Links
    BY <2>1, <1>0, LinkedPrefix
  <2> HIDE DEF left, name, here, there, Left
  <2>8. /\ ~Linked(dir, Cleaned(FALSE, left, name))
        /\ Walk(dir, Cleaned(FALSE, left, name)) = there
    <3>1. CASE Cleaned(FALSE, left, name) = Append(left, name)
      <4>1. ~Linked(dir, Append(left, name))
        BY <1>0, <2>2, <2>3, <2>6, <2>7, LinkedAppend
      <4>2. Walk(dir, Append(left, name)) = there
        BY <1>0, <2>2, <2>3, <2>4, <2>6, WalkAppend
      <4> QED
        BY <3>1, <4>1, <4>2
    <3>2. CASE name = Up /\ left # <<>> /\ left[Len(left)] # Up
      <4> DEFINE last == left[Len(left)]
                 up == Walk(dir, Parent(left))
      <4>1. /\ Parent(left) \in Texts /\ last \in Names \cup {Up}
            /\ left = Append(Parent(left), last)
        BY <2>3, <3>2, TextFacts
      <4>2. last \in Names /\ last # Up
        BY <3>2, <4>1
      <4>3. Cleaned(FALSE, left, name) = Parent(left)
        BY <3>2 DEF Cleaned
      <4> HIDE DEF last
      <4>4. up \in Found
        BY <1>0, <4>1, WalkFacts
      <4>5. here = Step(up, last)
        BY <1>0, <2>2, <4>1, WalkAppend
      <4>6. ~Linked(dir, Parent(left)) /\ Append(up, last) \notin DOMAIN Links
        BY <1>0, <2>2, <4>1, LinkedAppend
      <4> HIDE DEF up
      <4>7. up \in Dirs
        <5>1. here # Missing
          BY <2>5, NamesFacts
        <5> QED
          BY <5>1, <4>4, <4>5, StepNowhere DEF Found
      <4>8. here = Append(up, last)
        BY <2>5, <4>2, <4>5, <4>6, <4>7, StepDown, NamesFacts
      <4>9. up \in Seq(Names)
        BY <4>7, NamesFacts
      <4>10. here # <<>> /\ Parent(here) = up
        BY <4>2, <4>8, <4>9, AppendFacts
      <4>11. there = up
        BY <3>2, <2>4, <2>5, <4>10, StepUp
      <4> QED
        BY <4>3, <4>6, <4>11 DEF up
    <3>3. CASE name # Up \/ left = <<>> \/ left[Len(left)] = Up
      <4>1. name # Up \/ left = <<>> \/ left[Len(left)] = Up
            => Cleaned(FALSE, left, name) = Append(left, name)
        <5>1. Append(<<>>, Up) = <<Up>>
          OBVIOUS
        <5> QED
          BY <2>6, <5>1 DEF Cleaned
      <4> QED
        BY <3>1, <3>3, <4>1
    <3> QED
      BY <3>2, <3>3, <2>6
  <2> QED
    BY <2>1, <2>3, <2>8 DEF there
<1>5. \A i \in 0..n : i \in S
  <2> HIDE DEF S
  <2> QED
    BY <1>3, <1>4, Induct, Zenon
<1>6. n \in S
  <2> HIDE DEF S
  <2> QED
    BY <1>5
<1>7. ~Linked(dir, Left(n)) /\ Walk(dir, Left(n)) = Walk(dir, Prefix(names, n))
  BY <1>6
<1> QED
  BY <1>2, <1>7

-----------------------------------------------------------------------------
(* Marked directories *)

\* The operators of ProjectRoot that read the marks, for any set of them.
MarksOn(M, path) == {i \in 0..Len(path) : Real(Prefix(path, i)) \in M}
AboveIn(M, dir) == {i \in 0..Len(dir) : Prefix(dir, i) \in M}
ProjectIn(M, dir) == IF AboveIn(M, dir) = {} THEN dir ELSE Prefix(dir, Last(AboveIn(M, dir)))

FindIn(M, p, cwd) ==
    LET from == Directory(Abs(p, cwd))
    IN  IF MarksOn(M, from) # {} THEN Absolute(Real(Prefix(from, Last(MarksOn(M, from)))))
        ELSE EvalSymlinks(p, cwd)
KeyIn(M, root, cwd) == ProjectKey(FindIn(M, root, cwd), cwd)

LEMMA LastOf ==
    ASSUME NEW n \in Nat, NEW indices, indices \subseteq 0..n, indices # {}
    PROVE  Last(indices) \in indices /\ \A j \in indices : j <= Last(indices)
<1> DEFINE Greatest(i) == i \in indices /\ \A j \in indices : j <= i
           Done == \E i : Greatest(i)
           S == {k \in 0..n : (\A j \in indices : j <= n - k) \/ Done}
<1>1. 0 \in S
  OBVIOUS
<1>2. ASSUME NEW k \in 0..(n - 1), k \in S PROVE k + 1 \in S
  <2>1. k + 1 \in 0..n
    OBVIOUS
  <2>2. CASE Done
    BY <2>1, <2>2
  <2>3. CASE ~Done
    <3>1. \A j \in indices : j <= n - k
      BY <1>2, <2>3
    <3>2. n - k \notin indices
      BY <2>3, <3>1
    <3>3. \A j \in indices : j <= n - (k + 1)
      <4> SUFFICES ASSUME NEW j \in indices PROVE j <= n - (k + 1)
        OBVIOUS
      <4>1. j <= n - k /\ j # n - k /\ j \in 0..n
        BY <3>1, <3>2
      <4> QED
        BY <4>1
    <3> QED
      BY <2>1, <3>3
  <2> QED
    BY <2>2, <2>3
<1>3. n \in S
  <2> HIDE DEF S
  <2>1. \A k \in 0..n : k \in S
    BY <1>1, <1>2, Induct, Zenon
  <2> QED
    BY <2>1
<1>4. Done
  <2> SUFFICES ASSUME ~Done PROVE FALSE
    OBVIOUS
  <2>1. \A j \in indices : j <= n - n
    BY <1>3
  <2>2. \A j \in indices : j = 0
    BY <2>1
  <2>3. PICK i : i \in indices
    OBVIOUS
  <2>4. Greatest(i)
    BY <2>2, <2>3
  <2> QED
    BY <2>4
<1>5. PICK i \in indices : \A j \in indices : j <= i
  BY <1>4
<1> QED
  BY <1>5 DEF Last

\* In a directory, the search for a marker meets the directories above it.
LEMMA DirMarks ==
    ASSUME NEW M, NEW d \in Dirs
    PROVE  MarksOn(M, d) = AboveIn(M, d)
BY RealOfReal DEF MarksOn, AboveIn

LEMMA ProjectFacts ==
    ASSUME NEW M, M \subseteq Dirs, NEW d \in Dirs
    PROVE  /\ ProjectIn(M, d) \in Dirs
           /\ \E j \in 0..Len(d) : ProjectIn(M, d) = Prefix(d, j)
           /\ AboveIn(M, d) # {} =>
                 /\ ProjectIn(M, d) \in M
                 /\ Last(AboveIn(M, d)) \in AboveIn(M, d)
                 /\ \A j \in AboveIn(M, d) : j <= Last(AboveIn(M, d))
                 /\ ProjectIn(M, d) = Prefix(d, Last(AboveIn(M, d)))
           /\ AboveIn(M, d) = {} => ProjectIn(M, d) = d
           /\ d \in M => ProjectIn(M, d) = d
<1>1. d \in Seq(Names) /\ Len(d) \in Nat /\ Prefix(d, Len(d)) = d
  <2>1. d \in Seq(Names)
    BY NamesFacts
  <2> QED
    BY <2>1, PrefixEnds
<1>2. AboveIn(M, d) \subseteq 0..Len(d)
  BY DEF AboveIn
<1>3. CASE AboveIn(M, d) = {}
  <2>1. ProjectIn(M, d) = d
    BY <1>3 DEF ProjectIn
  <2>2. d \notin M
    BY <1>1, <1>3 DEF AboveIn
  <2>3. Len(d) \in 0..Len(d)
    BY <1>1
  <2> QED
    BY <1>1, <1>3, <2>1, <2>2, <2>3
<1>4. CASE AboveIn(M, d) # {}
  <2> DEFINE i == Last(AboveIn(M, d))
  <2>1. i \in AboveIn(M, d) /\ \A j \in AboveIn(M, d) : j <= i
    BY <1>1, <1>2, <1>4, LastOf
  <2>2. ProjectIn(M, d) = Prefix(d, i)
    BY <1>4 DEF ProjectIn
  <2> HIDE DEF i
  <2>3. i \in 0..Len(d) /\ Prefix(d, i) \in M
    BY <2>1 DEF AboveIn
  <2>4. d \in M => Prefix(d, i) = d
    <3>1. ASSUME d \in M PROVE i = Len(d)
      <4>1. Len(d) \in AboveIn(M, d)
        BY <1>1, <3>1 DEF AboveIn
      <4> QED
        BY <4>1, <2>1, <2>3, <1>1
    <3> QED
      BY <3>1, <1>1
  <2> QED
    BY <1>4, <2>1, <2>2, <2>3, <2>4 DEF i
<1> QED
  BY <1>3, <1>4

LEMMA ProjectTwice ==
    ASSUME NEW M, M \subseteq Dirs, NEW d \in Dirs
    PROVE  ProjectIn(M, ProjectIn(M, d)) = ProjectIn(M, d)
<1>1. CASE AboveIn(M, d) = {}
  <2>1. ProjectIn(M, d) = d
    BY <1>1, ProjectFacts
  <2> QED
    BY <2>1
<1>2. CASE AboveIn(M, d) # {}
  <2>1. ProjectIn(M, d) \in M /\ ProjectIn(M, d) \in Dirs
    BY <1>2, ProjectFacts
  <2> QED
    BY <2>1, ProjectFacts
<1> QED
  BY <1>1, <1>2

LEMMA MarksFacts ==
    ASSUME NEW M, M \subseteq Dirs, NEW path \in Seq(Names)
    PROVE  /\ MarksOn(M, path) \subseteq 0..Len(path)
           /\ MarksOn(M, path) # {} =>
                 /\ Last(MarksOn(M, path)) \in MarksOn(M, path)
                 /\ \A j \in MarksOn(M, path) : j <= Last(MarksOn(M, path))
                 /\ Real(Prefix(path, Last(MarksOn(M, path)))) \in M
<1>1. MarksOn(M, path) \subseteq 0..Len(path) /\ Len(path) \in Nat
  BY DEF MarksOn
<1>2. ASSUME MarksOn(M, path) # {}
      PROVE  /\ Last(MarksOn(M, path)) \in MarksOn(M, path)
             /\ \A j \in MarksOn(M, path) : j <= Last(MarksOn(M, path))
  BY <1>1, <1>2, LastOf
<1>3. \A i \in MarksOn(M, path) : Real(Prefix(path, i)) \in M
  BY DEF MarksOn
<1> QED
  BY <1>1, <1>2, <1>3

\* Leaving the file that a path names changes nothing.
LEMMA DirectoryMarks ==
    ASSUME NEW M, M \subseteq Dirs, NEW path \in Seq(Names)
    PROVE  /\ MarksOn(M, Directory(path)) = MarksOn(M, path)
           /\ \A i \in MarksOn(M, path) : Prefix(Directory(path), i) = Prefix(path, i)
<1>1. CASE Real(path) \notin Files
  BY <1>1 DEF Directory
<1>2. CASE Real(path) \in Files
  <2> DEFINE up == Parent(path)
             n == Len(path)
  <2>1. path # <<>>
    BY <1>2, RealOfFile
  <2>2. n \in Nat \ {0} /\ Len(up) = n - 1 /\ up = Prefix(path, n - 1)
    BY <2>1, ParentFacts
  <2>3. Directory(path) = up
    BY <1>2 DEF Directory
  <2>4. Prefix(path, n) = path
    BY PrefixEnds
  <2> HIDE DEF up, n
  <2>5. Real(Prefix(path, n)) \notin M
    BY <1>2, <2>4, PathFacts
  <2>6. n = Len(path) /\ n - 1 \in 0..Len(path)
    BY <2>2 DEF n
  <2>7. ASSUME NEW i \in 0..(n - 1) PROVE Prefix(up, i) = Prefix(path, i)
    BY <2>2, <2>6, PrefixPrefix
  <2>8. MarksOn(M, path) = {i \in 0..(n - 1) : Real(Prefix(path, i)) \in M}
    <3>1. \A i \in 0..n : i = n \/ i \in 0..(n - 1)
      BY <2>2
    <3>2. 0..(n - 1) \subseteq 0..n
      BY <2>2
    <3> QED
      BY <2>5, <2>6, <3>1, <3>2 DEF MarksOn
  <2>9. MarksOn(M, up) = {i \in 0..(n - 1) : Real(Prefix(path, i)) \in M}
    BY <2>2, <2>7 DEF MarksOn
  <2> QED
    BY <2>3, <2>7, <2>8, <2>9
<1> QED
  BY <1>1, <1>2

\* FindProjectRoot, by the text of the path.
LEMMA FindByText ==
    ASSUME NEW M, M \subseteq Dirs, NEW p, NEW cwd, NEW path \in Seq(Names),
           path = Abs(p, cwd)
    PROVE  FindIn(M, p, cwd) =
              IF MarksOn(M, path) = {} THEN EvalSymlinks(p, cwd)
              ELSE Absolute(Real(Prefix(path, Last(MarksOn(M, path)))))
<1>1. CASE MarksOn(M, path) = {}
  BY <1>1, DirectoryMarks DEF FindIn
<1>2. CASE MarksOn(M, path) # {}
  <2>1. Last(MarksOn(M, path)) \in MarksOn(M, path)
    BY <1>2, MarksFacts
  <2>2. /\ MarksOn(M, Directory(path)) = MarksOn(M, path)
        /\ Prefix(Directory(path), Last(MarksOn(M, path)))
              = Prefix(path, Last(MarksOn(M, path)))
    BY <2>1, DirectoryMarks
  <2> QED
    BY <1>2, <2>2 DEF FindIn
<1> QED
  BY <1>1, <1>2

LEMMA Paths ==
    /\ \A x : Absolute(x).abs = TRUE /\ Absolute(x).names = x
    /\ \A x : Relative(x).abs = FALSE /\ Relative(x).names = x
    /\ \A cwd : \A x \in Seq(Names) : Abs(Absolute(x), cwd) = x
    /\ \A x, cwd : /\ Abs(Absolute(x), cwd) = Clean(TRUE, <<>>, x)
                   /\ Meant(Absolute(x), cwd) = Real(x)
                   /\ EvalSymlinks(Absolute(x), cwd) = Absolute(Real(x))
    /\ \A x, cwd : /\ Abs(Relative(x), cwd) = Clean(TRUE, cwd, x)
                   /\ Meant(Relative(x), cwd) = Walk(Real(cwd), x)
    /\ \A x, cwd : EvalSymlinks(Relative(x), cwd) =
                      IF Linked(Real(cwd), x) \/ Walk(Real(cwd), x) = Missing
                      THEN Absolute(Walk(Real(cwd), x)) ELSE Relative(Clean(FALSE, <<>>, x))
<1>1. \A x, cwd : Abs(Absolute(x), cwd) = Clean(TRUE, <<>>, x)
  BY DEF Absolute, Abs
<1>2. \A cwd : \A x \in Seq(Names) : Abs(Absolute(x), cwd) = x
  BY <1>1, CleanPlain
<1> QED
  BY <1>1, <1>2 DEF Absolute, Relative, Abs, Meant, EvalSymlinks, Linked

LEMMA FindDir ==
    ASSUME NEW M, M \subseteq Dirs, NEW d \in Dirs, NEW cwd
    PROVE  FindIn(M, Absolute(d), cwd) = Absolute(ProjectIn(M, d))
<1>1. d \in Seq(Names) /\ d = Abs(Absolute(d), cwd)
  BY NamesFacts, Paths
<1>2. Real(d) = d /\ \A i \in 0..Len(d) : Real(Prefix(d, i)) = Prefix(d, i)
  BY RealOfReal
<1>3. MarksOn(M, d) = AboveIn(M, d)
  BY DirMarks
<1>4. CASE AboveIn(M, d) = {}
  <2>1. FindIn(M, Absolute(d), cwd) = EvalSymlinks(Absolute(d), cwd)
    BY <1>1, <1>3, <1>4, FindByText
  <2>2. EvalSymlinks(Absolute(d), cwd) = Absolute(d)
    BY <1>2, Paths
  <2> QED
    BY <1>4, <2>1, <2>2, ProjectFacts
<1>5. CASE AboveIn(M, d) # {}
  <2> DEFINE i == Last(AboveIn(M, d))
  <2>1. FindIn(M, Absolute(d), cwd) = Absolute(Real(Prefix(d, i)))
    BY <1>1, <1>3, <1>5, FindByText
  <2>2. i \in AboveIn(M, d) /\ ProjectIn(M, d) = Prefix(d, i)
    BY <1>5, ProjectFacts
  <2> HIDE DEF i
  <2>3. Real(Prefix(d, i)) = Prefix(d, i)
    BY <1>2, <2>2 DEF AboveIn
  <2> QED
    BY <2>1, <2>2, <2>3
<1> QED
  BY <1>4, <1>5

LEMMA FindFile ==
    ASSUME NEW M, M \subseteq Dirs, NEW f \in Files, NEW cwd
    PROVE  FindIn(M, Absolute(f), cwd) =
              Absolute(IF AboveIn(M, Parent(f)) = {} THEN f ELSE ProjectIn(M, Parent(f)))
<1> DEFINE up == Parent(f)
<1>1. f \in Seq(Names) /\ f = Abs(Absolute(f), cwd)
  BY NamesFacts, Paths
<1>2. Real(f) = f
  BY RealOfReal
<1>3. up \in Dirs /\ Directory(f) = up
  BY <1>2, PathFacts DEF Directory
<1> HIDE DEF up
<1>4. \A i \in 0..Len(up) : Real(Prefix(up, i)) = Prefix(up, i)
  BY <1>3, RealOfReal
<1>5. MarksOn(M, up) = AboveIn(M, up)
  BY <1>3, DirMarks
<1>6. CASE AboveIn(M, up) = {}
  <2>1. FindIn(M, Absolute(f), cwd) = EvalSymlinks(Absolute(f), cwd)
    BY <1>1, <1>3, <1>5, <1>6 DEF FindIn
  <2>2. EvalSymlinks(Absolute(f), cwd) = Absolute(f)
    BY <1>2, Paths
  <2> QED
    BY <1>6, <2>1, <2>2 DEF up
<1>7. CASE AboveIn(M, up) # {}
  <2> DEFINE i == Last(AboveIn(M, up))
  <2>1. FindIn(M, Absolute(f), cwd) = Absolute(Real(Prefix(up, i)))
    BY <1>1, <1>3, <1>5, <1>7 DEF FindIn
  <2>2. i \in AboveIn(M, up) /\ ProjectIn(M, up) = Prefix(up, i)
    BY <1>3, <1>7, ProjectFacts
  <2> HIDE DEF i
  <2>3. Real(Prefix(up, i)) = Prefix(up, i)
    BY <1>4, <2>2 DEF AboveIn
  <2> QED
    BY <1>7, <2>1, <2>2, <2>3 DEF up
<1> QED
  BY <1>6, <1>7

-----------------------------------------------------------------------------
(* Commands and their daemons *)

RootType == {Absolute(p) : p \in Dirs \cup Files} \cup {Relative(names) : names \in Texts}
StartType == [abs : BOOLEAN, names : Texts]
Keys == {ProjectKey(p, cwd) : p \in RootType \cup {Absolute(Missing)}, cwd \in Seq(Names)} \cup {<<>>}

\* What Resolves is given, and what it lets through.
Given(k) == k.cwd \in Seq(Names) /\ Real(k.cwd) \in Dirs /\ k.start \in StartType
Resolvable(k) == Given(k) /\ k.root # Absolute(Missing)

\* The operators that tell where the text of a path leads elsewhere, for any marks.
ThroughIn(M, k) ==
    LET path == Path(k)
    IN  \/ ~k.start.abs /\ Real(k.cwd) # k.cwd
        \/ Real(path) # Target(k)
        \/ \E i \in MarksOn(M, path) : Real(path) # Rejoined(path, i)
OvertakenBy(L, k) ==
    LET path == Path(k)
    IN  \E m \in L :
          \/ \E i \in 0..Len(Subject(k)) : Prefix(Subject(k), i) = m
          \/ \E i \in 0..Len(path) : Real(Prefix(path, i)) = m

\* The directory in which the daemon of a command runs.
Home(k) == IF Real(Abs(k.root, k.cwd)) = Meant(k.root, k.cwd)
           THEN Abs(k.root, k.cwd) ELSE Meant(k.root, k.cwd)
Key(M, k) == KeyIn(M, k.root, k.cwd)

CommandType == [at: {"none", "resolved", "polling", "connected", "failed"}, cwd: Seq(Names),
                start: StartType, root: RootType \cup {Absolute(Missing)},
                daemon: Commands \cup {0}]
DaemonType == [at: {"none", "starting", "serving", "ended", "failed"}, cwd: Seq(Names),
               root: RootType, file: Keys]
EndpointType == [path: Keys, daemon: Commands]

TypeInv ==
    /\ marked \subseteq Dirs /\ later \subseteq Dirs
    /\ command \in [Commands -> CommandType] /\ daemon \in [Commands -> DaemonType]
    /\ endpoints \subseteq EndpointType

OneInv == \A c, d \in InProgress : c = d

\* A root is that of its --root as long as no marker overtakes it; without one the
\* command has failed.
CommandInv == \A c \in Commands :
    LET k == command[c]
    IN  k.at # "none" =>
            \/ k.at = "failed" /\ k.root = Absolute(Missing)
            \/ /\ Resolvable(k)
               /\ ~OvertakenBy(later, k) => k.root = FindIn(marked, k.start, k.cwd)

\* A daemon has the root of its command, and a file for its key.
DaemonOf(M, L, k, d) ==
    /\ k.at \notin {"none", "resolved"} /\ k.root # Absolute(Missing)
    /\ Meant(k.root, k.cwd) \in Dirs /\ d.cwd = Home(k)
    /\ d.at = "starting" => d.root = k.root
    /\ ~OvertakenBy(L, k) => d.file = Key(M, k)
    /\ d.at \in {"serving", "ended"} /\ ~OvertakenBy(L, k) /\ ~Shifted(k)
          => d.root = FindIn(M, k.root, d.cwd)
DaemonInv == \A c \in Commands :
    daemon[c].at # "none" => DaemonOf(marked, later, command[c], daemon[c])

EndpointInv ==
    /\ \A e \in endpoints : /\ e.path = daemon[e.daemon].file
                            /\ daemon[e.daemon].at \in {"serving", "ended"}
    /\ \A e, f \in endpoints : e.path = f.path => e = f

\* No root means something else to a daemon than to its command.
AllMeanTheSame == \A c \in Commands :
    command[c].at # "none" => ~Shifted(command[c]) /\ ~OvertakenBy(later, command[c])

ServingInv == AllMeanTheSame =>
    /\ \A e \in endpoints : daemon[e.daemon].at = "serving"
    /\ \A d \in Commands : daemon[d].at = "serving" => \E e \in endpoints : e.daemon = d
    /\ \A d \in Commands : daemon[d].at = "starting" =>
          command[d].at = "polling" /\ \A e \in endpoints : e.path # daemon[d].file

\* The daemon that a command waits for is on its way, or there.
PollInv == \A c \in Commands :
    LET k == command[c]
    IN  k.at = "polling" /\ ~Shifted(k) /\ ~OvertakenBy(later, k) =>
            \/ daemon[c].at = "starting"
            \/ \E e \in endpoints : e.path = Key(marked, k) /\ daemon[e.daemon].at = "serving"

FailInv == \A c \in Commands :
    LET k == command[c]
    IN  k.at = "failed" /\ ~OvertakenBy(later, k) =>
            MarksOn(marked, Path(k)) = {} /\ (~Exists(k) \/ Target(k) \in Files \/ Shifted(k))

\* A command has found the daemon by its key.
ConnectedInv == \A c \in Commands :
    LET k == command[c]
    IN  k.at = "connected" =>
            /\ k.daemon \in Commands /\ daemon[k.daemon].at \in {"serving", "ended"}
            /\ ~OvertakenBy(later, k) => daemon[k.daemon].file = Key(marked, k)

IInv ==
    /\ TypeInv /\ OneInv /\ CommandInv /\ DaemonInv /\ EndpointInv
    /\ ServingInv /\ PollInv /\ FailInv /\ ConnectedInv

-----------------------------------------------------------------------------
(* How a root is resolved *)

LEMMA StartCases ==
    ASSUME NEW start \in StartType
    PROVE  \E names \in Texts : \/ start = Absolute(names) /\ start.abs
                                \/ start = Relative(names) /\ ~start.abs
BY DEF StartType, Absolute, Relative

\* What exists of a path.
LEMMA Existing ==
    ASSUME NEW path \in Seq(Names)
    PROVE  LET l == Last(ThatExist(path))
           IN  /\ l \in 0..Len(path) /\ Real(Prefix(path, l)) \in Dirs \cup Files
               /\ \A i \in 0..Len(path) : Real(Prefix(path, i)) # Missing => i <= l
<1> DEFINE l == Last(ThatExist(path))
<1>1. Len(path) \in Nat /\ Prefix(path, 0) = <<>>
  BY PrefixEnds
<1>2. 0 \in ThatExist(path)
  <2>1. Real(Prefix(path, 0)) # Missing
    BY <1>1, RealFound, PathFacts, NamesFacts
  <2> QED
    BY <1>1, <2>1 DEF ThatExist
<1>3. ThatExist(path) \subseteq 0..Len(path)
  BY DEF ThatExist
<1>4. l \in ThatExist(path) /\ \A i \in ThatExist(path) : i <= l
  BY <1>1, <1>2, <1>3, LastOf
<1> HIDE DEF l
<1>5. l \in 0..Len(path) /\ Real(Prefix(path, l)) # Missing
  BY <1>4 DEF ThatExist
<1>6. Real(Prefix(path, l)) \in Dirs \cup Files
  BY <1>5, RealFound DEF Found
<1>7. \A i \in 0..Len(path) : Real(Prefix(path, i)) # Missing => i <= l
  BY <1>4 DEF ThatExist
<1> QED
  BY <1>5, <1>6, <1>7 DEF l

LEMMA StartFacts ==
    ASSUME NEW k, Given(k)
    PROVE  /\ k.cwd \in Seq(Names) /\ Real(k.cwd) \in Dirs
           /\ Abs(k.start, k.cwd) \in Seq(Names) /\ Path(k) \in Seq(Names)
           /\ Target(k) \in Dirs \cup Files /\ Subject(k) \in Dirs
           /\ Exists(k) => Path(k) = Abs(k.start, k.cwd)
           /\ Exists(k) =>
                 \/ EvalSymlinks(k.start, k.cwd) = Absolute(Target(k))
                 \/ \E names \in Texts :
                       /\ k.start = Relative(names)
                       /\ Path(k) = Clean(TRUE, k.cwd, names)
                       /\ Target(k) = Walk(Real(k.cwd), names)
<1>1. k.cwd \in Seq(Names) /\ Real(k.cwd) \in Dirs /\ k.start \in StartType
  BY DEF Given
<1>2. PICK names \in Texts : k.start = Absolute(names) \/ k.start = Relative(names)
  BY <1>1, StartCases
<1>3. /\ Abs(k.start, k.cwd) \in Seq(Names) /\ Meant(k.start, k.cwd) \in Found
      /\ \/ EvalSymlinks(k.start, k.cwd) = Absolute(Meant(k.start, k.cwd))
         \/ /\ k.start = Relative(names) /\ Abs(k.start, k.cwd) = Clean(TRUE, k.cwd, names)
            /\ Meant(k.start, k.cwd) = Walk(Real(k.cwd), names)
  <2>1. CASE k.start = Absolute(names)
    <3>1. /\ Abs(k.start, k.cwd) = Clean(TRUE, <<>>, names) /\ Meant(k.start, k.cwd) = Real(names)
          /\ EvalSymlinks(k.start, k.cwd) = Absolute(Real(names))
      BY <2>1, Paths
    <3>2. Clean(TRUE, <<>>, names) \in Seq(Names)
      BY PathFacts, CleanPath
    <3>3. Real(names) \in Found
      BY PathFacts, WalkFacts DEF Real
    <3> QED
      BY <3>1, <3>2, <3>3
  <2>2. CASE k.start = Relative(names)
    <3>1. /\ Abs(k.start, k.cwd) = Clean(TRUE, k.cwd, names)
          /\ Meant(k.start, k.cwd) = Walk(Real(k.cwd), names)
      BY <2>2, Paths
    <3>2. Clean(TRUE, k.cwd, names) \in Seq(Names)
      BY <1>1, CleanPath
    <3>3. Walk(Real(k.cwd), names) \in Found
      BY <1>1, WalkFacts, PathFacts
    <3> QED
      BY <2>2, <3>1, <3>2, <3>3
  <2> QED
    BY <1>2, <2>1, <2>2
<1>4. CASE Exists(k)
  <2>1. Path(k) = Abs(k.start, k.cwd) /\ Target(k) = Meant(k.start, k.cwd)
    BY <1>4 DEF Path, Target
  <2>2. Target(k) \in Dirs \cup Files
    BY <1>3, <1>4, <2>1 DEF Exists, Found
  <2> QED
    BY <1>1, <1>3, <2>1, <2>2, PathFacts DEF Subject
<1>5. CASE ~Exists(k)
  <2>1. PICK path \in Seq(Names) : path = Abs(k.start, k.cwd)
    BY <1>3
  <2>2. PICK l : l = Last(ThatExist(path))
    OBVIOUS
  <2>3. Path(k) = Prefix(path, l) /\ Target(k) = Real(Path(k))
    BY <1>5, <2>1, <2>2 DEF Path, Target
  <2>4. l \in 0..Len(path) /\ Real(Prefix(path, l)) \in Dirs \cup Files
    BY <2>2, Existing
  <2>5. Path(k) \in Seq(Names) /\ Target(k) \in Dirs \cup Files
    BY <2>3, <2>4, PrefixFacts
  <2> QED
    BY <1>1, <1>3, <1>5, <2>5, PathFacts DEF Subject
<1> QED
  BY <1>4, <1>5

\* The search for a marker does not mind that the rest of a path does not exist.
LEMMA PathMarks ==
    ASSUME NEW M, M \subseteq Dirs, NEW k, Given(k)
    PROVE  /\ MarksOn(M, Path(k)) = MarksOn(M, Abs(k.start, k.cwd))
           /\ \A i \in MarksOn(M, Path(k)) :
                 Prefix(Path(k), i) = Prefix(Abs(k.start, k.cwd), i)
<1>1. CASE Exists(k)
  BY <1>1, StartFacts
<1>2. CASE ~Exists(k)
  <2>1. PICK path \in Seq(Names) : path = Abs(k.start, k.cwd)
    BY StartFacts
  <2>2. PICK l : l = Last(ThatExist(path))
    OBVIOUS
  <2>3. Path(k) = Prefix(path, l)
    BY <1>2, <2>1, <2>2 DEF Path
  <2>4. /\ l \in 0..Len(path)
        /\ \A i \in 0..Len(path) : Real(Prefix(path, i)) # Missing => i <= l
    BY <2>2, Existing
  <2>5. Len(Path(k)) = l /\ \A i \in 0..l : Prefix(Path(k), i) = Prefix(path, i)
    BY <2>3, <2>4, PrefixFacts, PrefixPrefix
  <2>6. \A i \in 0..Len(path) : Real(Prefix(path, i)) \in M => i \in 0..l
    <3>1. Missing \notin M
      BY NamesFacts
    <3>2. ASSUME NEW i \in 0..Len(path), Real(Prefix(path, i)) \in M PROVE i \in 0..l
      <4>1. i <= l
        BY <2>4, <3>1, <3>2
      <4> QED
        BY <2>4, <4>1
    <3> QED
      BY <3>2
  <2>7. 0..l \subseteq 0..Len(path)
    BY <2>4
  <2>8. MarksOn(M, Path(k)) = MarksOn(M, path)
    BY <2>5, <2>6, <2>7 DEF MarksOn
  <2>9. \A i \in MarksOn(M, Path(k)) : Prefix(Path(k), i) = Prefix(path, i)
    BY <2>5 DEF MarksOn
  <2> QED
    BY <2>1, <2>8, <2>9
<1> QED
  BY <1>1, <1>2

\* FindProjectRoot, by what exists of the path.
LEMMA FindByPath ==
    ASSUME NEW M, M \subseteq Dirs, NEW k, Given(k)
    PROVE  FindIn(M, k.start, k.cwd) =
              IF MarksOn(M, Path(k)) = {} THEN EvalSymlinks(k.start, k.cwd)
              ELSE Absolute(Real(Prefix(Path(k), Last(MarksOn(M, Path(k))))))
<1>1. PICK path \in Seq(Names) : path = Abs(k.start, k.cwd)
  BY StartFacts
<1>2. FindIn(M, k.start, k.cwd) =
         IF MarksOn(M, path) = {} THEN EvalSymlinks(k.start, k.cwd)
         ELSE Absolute(Real(Prefix(path, Last(MarksOn(M, path)))))
  BY <1>1, FindByText
<1>3. MarksOn(M, Path(k)) = MarksOn(M, path)
  BY <1>1, PathMarks
<1>4. CASE MarksOn(M, path) = {}
  BY <1>2, <1>3, <1>4
<1>5. CASE MarksOn(M, path) # {}
  <2>1. PICK i \in MarksOn(M, path) : i = Last(MarksOn(M, path))
    BY <1>5, MarksFacts
  <2>2. Prefix(Path(k), i) = Prefix(path, i)
    BY <1>1, <1>3, PathMarks
  <2> QED
    BY <1>2, <1>3, <1>5, <2>1, <2>2
<1> QED
  BY <1>4, <1>5

\* Without a root, there is no marker, nor the path.
LEMMA NoRoot ==
    ASSUME NEW M, M \subseteq Dirs, NEW k, Given(k), FindIn(M, k.start, k.cwd) = Absolute(Missing)
    PROVE  MarksOn(M, Path(k)) = {} /\ ~Exists(k)
<1>1. /\ \A p, q : Absolute(p) = Absolute(q) => p = q
      /\ \A p, names : Absolute(p) # Relative(names)
  BY DEF Absolute, Relative
<1>2. MarksOn(M, Path(k)) = {}
  <2>1. MarksOn(M, Path(k)) # {} => Real(Prefix(Path(k), Last(MarksOn(M, Path(k))))) \in M
    BY StartFacts, MarksFacts
  <2> QED
    BY <1>1, <2>1, FindByPath, NamesFacts
<1>3. EvalSymlinks(k.start, k.cwd) = Absolute(Missing)
  BY <1>2, FindByPath
<1>4. \/ EvalSymlinks(k.start, k.cwd) = Absolute(Meant(k.start, k.cwd))
      \/ EvalSymlinks(k.start, k.cwd) = Relative(Clean(FALSE, <<>>, k.start.names))
  BY DEF EvalSymlinks
<1> QED
  BY <1>1, <1>2, <1>3, <1>4 DEF Exists

\* A root is a marked directory, or what the path means, or that path.
LEMMA RootCases ==
    ASSUME NEW M, M \subseteq Dirs, NEW k, Resolvable(k), k.root = FindIn(M, k.start, k.cwd)
    PROVE  LET path == Path(k)
           IN  \/ /\ MarksOn(M, path) # {}
                  /\ k.root = Absolute(Real(Prefix(path, Last(MarksOn(M, path)))))
                  /\ Last(MarksOn(M, path)) \in MarksOn(M, path)
                  /\ Real(Prefix(path, Last(MarksOn(M, path)))) \in M
               \/ MarksOn(M, path) = {} /\ k.root = Absolute(Target(k))
               \/ /\ MarksOn(M, path) = {} /\ Exists(k)
                  /\ \E names \in Texts :
                        /\ k.start = Relative(names) /\ ~Linked(Real(k.cwd), names)
                        /\ path = Clean(TRUE, k.cwd, names)
                        /\ Target(k) = Walk(Real(k.cwd), names)
                        /\ k.root = Relative(Clean(FALSE, <<>>, names))
<1> DEFINE path == Path(k)
<1>1. path \in Seq(Names) /\ Given(k) /\ k.root # Absolute(Missing)
  BY StartFacts DEF Resolvable
<1>2. k.root = IF MarksOn(M, path) = {} THEN EvalSymlinks(k.start, k.cwd)
               ELSE Absolute(Real(Prefix(path, Last(MarksOn(M, path)))))
  BY <1>1, FindByPath
<1> HIDE DEF path
<1>3. CASE MarksOn(M, path) # {}
  BY <1>1, <1>2, <1>3, MarksFacts DEF path
<1>4. CASE MarksOn(M, path) = {}
  <2>1. Exists(k)
    <3>1. \/ EvalSymlinks(k.start, k.cwd) = Absolute(Missing)
          \/ Exists(k)
      BY DEF Exists, EvalSymlinks
    <3> QED
      BY <1>1, <1>2, <1>4, <3>1
  <2>2. ASSUME NEW names \in Texts, k.start = Relative(names),
               path = Clean(TRUE, k.cwd, names), Target(k) = Walk(Real(k.cwd), names)
        PROVE  \/ k.root = Absolute(Target(k))
               \/ ~Linked(Real(k.cwd), names) /\ k.root = Relative(Clean(FALSE, <<>>, names))
    <3>1. EvalSymlinks(Relative(names), k.cwd) =
             IF Linked(Real(k.cwd), names) \/ Walk(Real(k.cwd), names) = Missing
             THEN Absolute(Walk(Real(k.cwd), names)) ELSE Relative(Clean(FALSE, <<>>, names))
      BY Paths
    <3> QED
      BY <1>1, <1>2, <1>4, <2>2, <3>1
  <2>3. \/ EvalSymlinks(k.start, k.cwd) = Absolute(Target(k))
        \/ \E names \in Texts : /\ k.start = Relative(names)
                                /\ path = Clean(TRUE, k.cwd, names)
                                /\ Target(k) = Walk(Real(k.cwd), names)
    BY <1>1, <2>1, StartFacts DEF path
  <2> QED
    BY <1>2, <1>4, <2>1, <2>2, <2>3 DEF path
<1> QED
  BY <1>3, <1>4

\* A root that stays relative has the same text and the same meaning as --root.
LEMMA RelativeRoot ==
    ASSUME NEW k, Resolvable(k), Exists(k), NEW names \in Texts, k.start = Relative(names),
           ~Linked(Real(k.cwd), names), k.root = Relative(Clean(FALSE, <<>>, names))
    PROVE  /\ Abs(k.root, k.cwd) = Path(k) /\ Abs(k.start, k.cwd) = Path(k)
           /\ Meant(k.root, k.cwd) = Target(k)
           /\ k.root.abs = FALSE /\ k.root \in RootType
<1>1. /\ k.cwd \in Seq(Names) /\ Real(k.cwd) \in Dirs /\ Abs(k.start, k.cwd) = Path(k)
      /\ Target(k) = Meant(k.start, k.cwd) /\ Target(k) # Missing
  BY StartFacts, NamesFacts DEF Resolvable, Target, Exists
<1>2. Abs(k.start, k.cwd) = Clean(TRUE, k.cwd, names) /\ Target(k) = Walk(Real(k.cwd), names)
  BY <1>1, Paths
<1>3. PICK clean \in Texts : clean = Clean(FALSE, <<>>, names)
  BY CleanText
<1>4. Clean(TRUE, k.cwd, clean) = Clean(TRUE, k.cwd, names)
  BY <1>1, <1>3, CleanClean
<1>5. Walk(Real(k.cwd), clean) = Walk(Real(k.cwd), names)
  BY <1>1, <1>2, <1>3, WalkClean
<1>6. k.root = Relative(clean)
  BY <1>3
<1>7. k.root \in RootType
  BY <1>6 DEF RootType
<1>8. /\ Abs(Relative(clean), k.cwd) = Clean(TRUE, k.cwd, clean)
      /\ Meant(Relative(clean), k.cwd) = Walk(Real(k.cwd), clean)
      /\ Relative(clean).abs = FALSE
  BY Paths
<1> QED
  BY <1>1, <1>2, <1>4, <1>5, <1>6, <1>7, <1>8

LEMMA RootFacts ==
    ASSUME NEW M, M \subseteq Dirs, NEW k, Resolvable(k), k.root = FindIn(M, k.start, k.cwd)
    PROVE  /\ k.root \in RootType
           /\ Shifted(k) => MarksOn(M, Path(k)) = {}
           /\ \/ Meant(k.root, k.cwd) \in Dirs
              \/ MarksOn(M, Path(k)) = {} /\ Target(k) \in Files
<1> DEFINE path == Path(k)
           R == Real(Prefix(path, Last(MarksOn(M, path))))
<1>1. Target(k) \in Dirs \cup Files /\ path \in Seq(Names)
  BY StartFacts DEF Resolvable
<1>2. \A p \in Dirs \cup Files :
         Meant(Absolute(p), k.cwd) = p /\ Absolute(p) \in RootType /\ Absolute(p).abs
  BY RealOfReal, Paths DEF RootType
<1> HIDE DEF path
<1>3. CASE MarksOn(M, path) # {} /\ k.root = Absolute(R) /\ R \in M
  <2> HIDE DEF R
  <2>1. R \in Dirs
    BY <1>3
  <2> QED
    BY <1>2, <1>3, <2>1 DEF Shifted
<1>4. CASE MarksOn(M, path) = {} /\ k.root = Absolute(Target(k))
  BY <1>1, <1>2, <1>4 DEF path, Shifted
<1>5. ASSUME MarksOn(M, path) = {}, Exists(k), NEW names \in Texts, k.start = Relative(names),
             ~Linked(Real(k.cwd), names), k.root = Relative(Clean(FALSE, <<>>, names))
      PROVE  Meant(k.root, k.cwd) = Target(k) /\ k.root \in RootType
  BY <1>5, RelativeRoot
<1>6. \/ MarksOn(M, path) # {} /\ k.root = Absolute(R) /\ R \in M
      \/ MarksOn(M, path) = {} /\ k.root = Absolute(Target(k))
      \/ /\ MarksOn(M, path) = {} /\ Exists(k)
         /\ \E names \in Texts : /\ k.start = Relative(names) /\ ~Linked(Real(k.cwd), names)
                                 /\ k.root = Relative(Clean(FALSE, <<>>, names))
  BY RootCases DEF path
<1>7. CASE /\ MarksOn(M, path) = {} /\ Exists(k)
           /\ \E names \in Texts : /\ k.start = Relative(names) /\ ~Linked(Real(k.cwd), names)
                                   /\ k.root = Relative(Clean(FALSE, <<>>, names))
  BY <1>1, <1>5, <1>7 DEF path
<1> QED
  BY <1>3, <1>4, <1>6, <1>7

LEMMA FindType ==
    ASSUME NEW M, M \subseteq Dirs, NEW p \in StartType, NEW cwd \in Seq(Names), Real(cwd) \in Found
    PROVE  FindIn(M, p, cwd) \in RootType \cup {Absolute(Missing)}
<1> DEFINE path == Abs(p, cwd)
<1>1. path \in Seq(Names) /\ EvalSymlinks(p, cwd) \in RootType \cup {Absolute(Missing)}
  <2>1. CASE \E names \in Texts : p = Absolute(names)
    <3>1. PICK names \in Texts : p = Absolute(names)
      BY <2>1
    <3>2. Abs(p, cwd) = Clean(TRUE, <<>>, names) /\ EvalSymlinks(p, cwd) = Absolute(Real(names))
      BY <3>1, Paths
    <3>3. Real(names) \in Found
      BY PathFacts, WalkFacts DEF Real
    <3>4. Clean(TRUE, <<>>, names) \in Seq(Names)
      BY PathFacts, CleanPath
    <3> QED
      BY <3>2, <3>3, <3>4 DEF Found, RootType
  <2>2. CASE \E names \in Texts : p = Relative(names)
    <3>1. PICK names \in Texts : p = Relative(names)
      BY <2>2
    <3>2. /\ Abs(p, cwd) = Clean(TRUE, cwd, names)
          /\ \/ EvalSymlinks(p, cwd) = Absolute(Walk(Real(cwd), names))
             \/ EvalSymlinks(p, cwd) = Relative(Clean(FALSE, <<>>, names))
      BY <3>1, Paths
    <3>3. Clean(TRUE, cwd, names) \in Seq(Names)
      BY CleanPath
    <3>4. Clean(FALSE, <<>>, names) \in Texts
      BY CleanText
    <3>5. Walk(Real(cwd), names) \in Found
      BY WalkFacts
    <3> QED
      BY <3>2, <3>3, <3>4, <3>5 DEF Found, RootType
  <2> QED
    BY <2>1, <2>2, StartCases
<1>2. FindIn(M, p, cwd) = IF MarksOn(M, path) = {} THEN EvalSymlinks(p, cwd)
                          ELSE Absolute(Real(Prefix(path, Last(MarksOn(M, path)))))
  BY <1>1, FindByText
<1>3. MarksOn(M, path) # {} => Real(Prefix(path, Last(MarksOn(M, path)))) \in Dirs
  BY <1>1, MarksFacts
<1> HIDE DEF path
<1> QED
  BY <1>1, <1>2, <1>3 DEF RootType

\* New marks that do not overtake a command leave its root alone.
LEMMA Stable ==
    ASSUME NEW M, M \subseteq Dirs, NEW L, L \subseteq Dirs, NEW M2, M \subseteq M2, M2 \subseteq M \cup L,
           NEW k, Resolvable(k), k.root = FindIn(M, k.start, k.cwd), ~OvertakenBy(L, k)
    PROVE  /\ FindIn(M2, k.start, k.cwd) = FindIn(M, k.start, k.cwd)
           /\ FindIn(M2, k.root, k.cwd) = FindIn(M, k.root, k.cwd)
           /\ MarksOn(M2, Path(k)) = MarksOn(M, Path(k))
           /\ AboveIn(M2, Subject(k)) = AboveIn(M, Subject(k))
<1>1. Target(k) \in Dirs \cup Files /\ Subject(k) \in Dirs
  BY StartFacts DEF Resolvable
<1>0. PICK path \in Seq(Names) : path = Abs(k.start, k.cwd)
  BY StartFacts DEF Resolvable
<1>2. M2 \subseteq Dirs /\ M \subseteq M2
  OBVIOUS
<1>3. MarksOn(M2, path) = MarksOn(M, path)
  <2>1. MarksOn(M2, Path(k)) = MarksOn(M, Path(k))
    BY DEF MarksOn, OvertakenBy
  <2> QED
    BY <1>0, <1>2, <2>1, PathMarks DEF Resolvable
<1>4. AboveIn(M2, Subject(k)) = AboveIn(M, Subject(k))
  BY DEF AboveIn, OvertakenBy
<1>5. ProjectIn(M2, Subject(k)) = ProjectIn(M, Subject(k))
  BY <1>4 DEF ProjectIn
<1>6. ASSUME NEW p, path = Abs(p, k.cwd)
      PROVE  FindIn(M2, p, k.cwd) = FindIn(M, p, k.cwd)
  <2>1. FindIn(M, p, k.cwd) = IF MarksOn(M, path) = {} THEN EvalSymlinks(p, k.cwd)
                              ELSE Absolute(Real(Prefix(path, Last(MarksOn(M, path)))))
    BY <1>6, FindByText
  <2>2. FindIn(M2, p, k.cwd) = IF MarksOn(M2, path) = {} THEN EvalSymlinks(p, k.cwd)
                               ELSE Absolute(Real(Prefix(path, Last(MarksOn(M2, path)))))
    BY <1>2, <1>6, FindByText
  <2> QED
    BY <1>3, <2>1, <2>2
<1>7. FindIn(M2, k.start, k.cwd) = FindIn(M, k.start, k.cwd)
  BY <1>6, <1>0
<1>8. FindIn(M2, k.root, k.cwd) = FindIn(M, k.root, k.cwd)
  <2>1. ASSUME NEW R \in M, k.root = Absolute(R)
        PROVE  FindIn(M2, k.root, k.cwd) = FindIn(M, k.root, k.cwd)
    <3>1. R \in Dirs /\ R \in M2
      BY <1>2, <2>1
    <3>2. FindIn(M, Absolute(R), k.cwd) = Absolute(ProjectIn(M, R))
      BY <3>1, FindDir
    <3>3. FindIn(M2, Absolute(R), k.cwd) = Absolute(ProjectIn(M2, R))
      BY <1>2, <3>1, FindDir
    <3>4. ProjectIn(M, R) = R /\ ProjectIn(M2, R) = R
      BY <1>2, <2>1, <3>1, ProjectFacts
    <3> QED
      BY <2>1, <3>2, <3>3, <3>4
  <2>2. CASE k.root = Absolute(Target(k)) /\ Target(k) \in Dirs
    <3>1. Subject(k) = Target(k)
      BY <2>2, PathFacts DEF Subject
    <3>2. FindIn(M, Absolute(Target(k)), k.cwd) = Absolute(ProjectIn(M, Target(k)))
      BY <2>2, FindDir
    <3>3. FindIn(M2, Absolute(Target(k)), k.cwd) = Absolute(ProjectIn(M2, Target(k)))
      BY <1>2, <2>2, FindDir
    <3> QED
      BY <1>5, <2>2, <3>1, <3>2, <3>3
  <2>3. CASE k.root = Absolute(Target(k)) /\ Target(k) \in Files
    <3>1. Subject(k) = Parent(Target(k))
      BY <2>3 DEF Subject
    <3>2. FindIn(M, Absolute(Target(k)), k.cwd) =
             Absolute(IF AboveIn(M, Parent(Target(k))) = {} THEN Target(k)
                      ELSE ProjectIn(M, Parent(Target(k))))
      BY <2>3, FindFile
    <3>3. FindIn(M2, Absolute(Target(k)), k.cwd) =
             Absolute(IF AboveIn(M2, Parent(Target(k))) = {} THEN Target(k)
                      ELSE ProjectIn(M2, Parent(Target(k))))
      BY <1>2, <2>3, FindFile
    <3> QED
      BY <1>4, <1>5, <2>3, <3>1, <3>2, <3>3
  <2>4. CASE /\ Exists(k)
             /\ \E names \in Texts : /\ k.start = Relative(names) /\ ~Linked(Real(k.cwd), names)
                                     /\ k.root = Relative(Clean(FALSE, <<>>, names))
    <3>1. Abs(k.root, k.cwd) = path
      BY <1>0, <2>4, RelativeRoot
    <3> QED
      BY <1>6, <3>1
  <2>5. \/ \E R \in M : k.root = Absolute(R)
        \/ k.root = Absolute(Target(k))
        \/ /\ Exists(k)
           /\ \E names \in Texts : /\ k.start = Relative(names) /\ ~Linked(Real(k.cwd), names)
                                   /\ k.root = Relative(Clean(FALSE, <<>>, names))
    BY RootCases
  <2> QED
    BY <1>1, <2>1, <2>2, <2>3, <2>4, <2>5
<1>9. MarksOn(M2, Path(k)) = MarksOn(M, Path(k))
  BY <1>0, <1>2, <1>3, PathMarks DEF Resolvable
<1> QED
  BY <1>4, <1>7, <1>8, <1>9

\* A root that does not shift means the same in the home of the daemon.
LEMMA HomeFacts ==
    ASSUME NEW k, Resolvable(k), k.root \in RootType, ~Shifted(k)
    PROVE  /\ \/ \E p \in Dirs \cup Files : k.root = Absolute(p)
              \/ k.root = Relative(<<>>) /\ Home(k) = k.cwd
           /\ \A M : FindIn(M, k.root, Home(k)) = FindIn(M, k.root, k.cwd)
<1>1. CASE \E p \in Dirs \cup Files : k.root = Absolute(p)
  <2>1. PICK p \in Dirs \cup Files : k.root = Absolute(p)
    BY <1>1
  <2>2. \A cwd : Abs(k.root, cwd) = p /\ EvalSymlinks(k.root, cwd) = Absolute(Real(p))
    BY <2>1, Paths, NamesFacts
  <2>3. \A M : FindIn(M, k.root, Home(k)) = FindIn(M, k.root, k.cwd)
    BY <2>2 DEF FindIn
  <2> QED
    BY <1>1, <2>3
<1>2. CASE \E names \in Texts : k.root = Relative(names)
  <2>1. PICK names \in Texts : k.root = Relative(names)
    BY <1>2
  <2>2. names = <<>>
    BY <2>1, Paths DEF Shifted
  <2>3. /\ Abs(Relative(<<>>), k.cwd) = Clean(TRUE, k.cwd, <<>>)
        /\ Meant(Relative(<<>>), k.cwd) = Walk(Real(k.cwd), <<>>)
    BY Paths
  <2>4. k.cwd \in Seq(Names) /\ Real(k.cwd) \in Dirs
    BY StartFacts DEF Resolvable
  <2>5. Clean(TRUE, k.cwd, <<>>) = k.cwd
    BY <2>4, CleanPath, PathFacts
  <2>6. Walk(Real(k.cwd), <<>>) = Real(k.cwd)
    BY <2>4, WalkFacts, PathFacts
  <2>7. Home(k) = k.cwd
    BY <2>1, <2>2, <2>3, <2>5, <2>6 DEF Home
  <2> QED
    BY <2>1, <2>2, <2>7
<1> QED
  BY <1>1, <1>2 DEF RootType

\* What a daemon finds, it would find again.
LEMMA Settled ==
    ASSUME NEW M, M \subseteq Dirs, NEW k, Resolvable(k), k.root = FindIn(M, k.start, k.cwd),
           ~Shifted(k), NEW r, r = FindIn(M, k.root, k.cwd)
    PROVE  \/ /\ k.root.abs /\ \E p \in Dirs \cup Files : r = Absolute(p)
              /\ \A cwd : FindIn(M, r, cwd) = r
           \/ k.root = Relative(<<>>) /\ r = k.root /\ Home(k) = k.cwd
<1>1. k.root \in RootType
  BY RootFacts
<1>2. ASSUME NEW d \in Dirs, k.root = Absolute(d)
      PROVE  (\E p \in Dirs \cup Files : r = Absolute(p)) /\ \A cwd : FindIn(M, r, cwd) = r
  <2>1. r = Absolute(ProjectIn(M, d))
    BY <1>2, FindDir
  <2>2. ProjectIn(M, d) \in Dirs /\ ProjectIn(M, ProjectIn(M, d)) = ProjectIn(M, d)
    BY ProjectFacts, ProjectTwice
  <2>3. ASSUME NEW cwd PROVE FindIn(M, r, cwd) = r
    BY <2>1, <2>2, FindDir
  <2> QED
    BY <2>1, <2>2, <2>3
<1>3. ASSUME NEW f \in Files, k.root = Absolute(f)
      PROVE  (\E p \in Dirs \cup Files : r = Absolute(p)) /\ \A cwd : FindIn(M, r, cwd) = r
  <2>1. \A cwd : FindIn(M, Absolute(f), cwd) =
                    Absolute(IF AboveIn(M, Parent(f)) = {} THEN f ELSE ProjectIn(M, Parent(f)))
    BY FindFile
  <2>2. CASE AboveIn(M, Parent(f)) = {}
    BY <1>3, <2>1, <2>2
  <2>3. CASE AboveIn(M, Parent(f)) # {}
    <3>1. r = Absolute(ProjectIn(M, Parent(f)))
      BY <1>3, <2>1, <2>3
    <3>2. Parent(f) \in Dirs
      BY PathFacts
    <3>3. /\ ProjectIn(M, Parent(f)) \in Dirs
          /\ ProjectIn(M, ProjectIn(M, Parent(f))) = ProjectIn(M, Parent(f))
      BY <3>2, ProjectFacts, ProjectTwice
    <3>4. ASSUME NEW cwd PROVE FindIn(M, r, cwd) = r
      BY <3>1, <3>3, FindDir
    <3> QED
      BY <3>1, <3>3, <3>4
  <2> QED
    BY <2>2, <2>3
<1>4. CASE k.root = Relative(<<>>) /\ Home(k) = k.cwd
  <2>1. k.root.abs = FALSE /\ \A p : Absolute(p).abs
    BY <1>4, Paths
  <2>2. PICK names \in Texts :
           /\ k.start = Relative(names) /\ ~Linked(Real(k.cwd), names)
           /\ k.root = Relative(Clean(FALSE, <<>>, names))
           /\ MarksOn(M, Path(k)) = {} /\ Exists(k)
    BY <2>1, RootCases
  <2>3. Abs(k.root, k.cwd) = Path(k)
    BY <2>2, RelativeRoot
  <2>4. k.cwd \in Seq(Names) /\ Real(k.cwd) \in Dirs /\ Path(k) \in Seq(Names)
    BY StartFacts DEF Resolvable
  <2>5. /\ Abs(k.root, k.cwd) = Clean(TRUE, k.cwd, <<>>)
        /\ Meant(k.root, k.cwd) = Walk(Real(k.cwd), <<>>)
        /\ EvalSymlinks(k.root, k.cwd) =
              IF Linked(Real(k.cwd), <<>>) \/ Walk(Real(k.cwd), <<>>) = Missing
              THEN Absolute(Walk(Real(k.cwd), <<>>)) ELSE Relative(Clean(FALSE, <<>>, <<>>))
    BY <1>4, Paths
  <2>6. Clean(TRUE, k.cwd, <<>>) = k.cwd /\ Clean(FALSE, <<>>, <<>>) = <<>>
    BY <2>4, CleanPath, CleanText, PathFacts
  <2>7. Walk(Real(k.cwd), <<>>) = Real(k.cwd) /\ Real(k.cwd) # Missing
    BY <2>4, WalkFacts, PathFacts, NamesFacts
  <2>8. ~Linked(Real(k.cwd), <<>>)
    BY DEF Linked
  <2>9. EvalSymlinks(k.root, k.cwd) = k.root
    BY <1>4, <2>5, <2>6, <2>7, <2>8
  <2>10. r = k.root
    <3>1. PICK path \in Seq(Names) : path = Abs(k.root, k.cwd) /\ MarksOn(M, path) = {}
      BY <2>2, <2>3, <2>4
    <3>2. FindIn(M, k.root, k.cwd) = EvalSymlinks(k.root, k.cwd)
      BY <3>1, FindByText
    <3> QED
      BY <2>9, <3>2
  <2> QED
    BY <1>4, <2>10
<1> QED
  BY <1>1, <1>2, <1>3, <1>4, HomeFacts, Paths

LEMMA Served ==
    ASSUME NEW M, M \subseteq Dirs, NEW k, Resolvable(k), k.root = FindIn(M, k.start, k.cwd),
           ~Shifted(k), NEW r, r = FindIn(M, k.root, Home(k))
    PROVE  /\ r \in RootType /\ r # Absolute(Missing)
           /\ KeyIn(M, r, Home(k)) = Key(M, k)
<1>1. k.root \in RootType
  BY RootFacts
<1>2. r = FindIn(M, k.root, k.cwd)
  BY <1>1, HomeFacts
<1>3. CASE /\ \E p \in Dirs \cup Files : r = Absolute(p)
           /\ \A cwd : FindIn(M, r, cwd) = r
  <2>1. PICK p \in Dirs \cup Files : r = Absolute(p)
    BY <1>3
  <2>2. r \in RootType /\ p # Missing
    BY <2>1, NamesFacts DEF RootType
  <2>3. r # Absolute(Missing)
    BY <2>1, <2>2 DEF Absolute
  <2>4. Abs(r, k.cwd) = p /\ Abs(r, Home(k)) = p
    BY <2>1, Paths, NamesFacts
  <2>5. KeyIn(M, r, Home(k)) = Words(p) /\ Key(M, k) = Words(p)
    BY <1>2, <1>3, <2>4 DEF KeyIn, Key, ProjectKey
  <2> QED
    BY <2>2, <2>3, <2>5
<1>4. CASE k.root = Relative(<<>>) /\ r = k.root /\ Home(k) = k.cwd
  <2>1. r # Absolute(Missing)
    BY <1>4, Paths
  <2> QED
    BY <1>1, <1>4, <2>1 DEF Key
<1> QED
  BY <1>2, <1>3, <1>4, Settled

\* Where the text of a path goes by directories, the last mark that the search meets
\* is the project.
LEMMA NearestMark ==
    ASSUME NEW M, M \subseteq Dirs, NEW path \in Seq(Names), NEW full \in Dirs \cup Files,
           full = Real(path), NEW i \in MarksOn(M, path), \A j \in MarksOn(M, path) : j <= i,
           full = Rejoined(path, i)
    PROVE  LET subject == IF full \in Files THEN Parent(full) ELSE full
           IN  Real(Prefix(path, i)) = ProjectIn(M, subject)
<1>1. PICK n : n = Len(path)
  OBVIOUS
<1>2. PICK m : m = Len(full)
  OBVIOUS
<1>3. n \in Nat /\ m \in Nat /\ Prefix(path, n) = path /\ Prefix(full, m) = full
      /\ full \in Seq(Names)
  <2>1. full \in Seq(Names)
    BY NamesFacts
  <2> QED
    BY <1>1, <1>2, <2>1, PrefixEnds
<1>4. i \in 0..n /\ Real(Prefix(path, i)) \in M
  BY <1>1 DEF MarksOn
<1>5. PICK R \in M : R = Real(Prefix(path, i))
  BY <1>4
<1>6. /\ m = Len(R) + (n - i) /\ R \in Seq(Names)
      /\ \A j \in i..n : Real(Prefix(path, j)) = Prefix(full, m - (n - j))
  BY <1>1, <1>2, <1>4, <1>5, Climb
<1>7. PICK l \in Nat : l = Len(R) /\ m = l + (n - i) /\ l <= m
  <2>1. Len(R) \in Nat /\ i \in 0..n
    BY <1>4, <1>6
  <2>2. m = Len(R) + (n - i)
    BY <1>6
  <2>3. Len(R) <= m
    BY <1>3, <2>1, <2>2
  <2> QED
    BY <2>1, <2>2, <2>3
<1>8. R = Prefix(full, l)
  <2>1. i \in i..n /\ m - (n - i) = l
    BY <1>3, <1>4, <1>6, <1>7
  <2> QED
    BY <1>5, <1>6, <2>1
<1>9. PICK subject \in Dirs : subject = IF full \in Files THEN Parent(full) ELSE full
  BY PathFacts
<1>10. \E s \in Nat : /\ s = Len(subject) /\ l <= s /\ s <= m
                      /\ \A a \in 0..s : Prefix(subject, a) = Prefix(full, a)
  <2>1. CASE full \in Files
    <3>1. full # <<>> /\ full \notin Dirs
      BY <2>1, PathFacts
    <3>2. subject = Prefix(full, m - 1) /\ Len(subject) = m - 1 /\ m - 1 \in Nat
      BY <1>2, <1>3, <1>9, <2>1, <3>1, ParentFacts
    <3>3. l # m
      <4>1. R \in Dirs
        OBVIOUS
      <4> QED
        BY <1>3, <1>8, <3>1, <4>1
    <3>4. l <= m - 1
      BY <1>3, <1>7, <3>3
    <3>5. PICK s \in Nat : s = m - 1
      BY <3>2
    <3>6. s \in 0..Len(full) /\ s <= m
      BY <1>2, <1>3, <3>5
    <3>7. \A a \in 0..s : Prefix(Prefix(full, s), a) = Prefix(full, a)
      BY <1>3, <3>6, PrefixPrefix
    <3>8. subject = Prefix(full, s) /\ s = Len(subject) /\ l <= s
      BY <3>2, <3>4, <3>5
    <3> QED
      BY <3>6, <3>7, <3>8
  <2>2. CASE full \notin Files
    <3>1. subject = full /\ m = Len(subject) /\ m <= m
      BY <1>2, <1>3, <1>9, <2>2
    <3> QED
      BY <1>3, <1>7, <3>1
  <2> QED
    BY <2>1, <2>2
<1>11. PICK s \in Nat : /\ s = Len(subject) /\ l <= s /\ s <= m
                        /\ \A a \in 0..s : Prefix(subject, a) = Prefix(full, a)
  BY <1>10
<1>12. l \in AboveIn(M, subject)
  <2>1. l \in 0..s
    BY <1>7, <1>11
  <2> QED
    BY <1>5, <1>8, <1>11, <2>1 DEF AboveIn
<1>13. ASSUME NEW a \in AboveIn(M, subject), l < a PROVE FALSE
  <2>1. a \in 0..s /\ Prefix(full, a) \in M
    BY <1>11 DEF AboveIn
  <2>2. PICK j : j = n - (m - a)
    OBVIOUS
  <2>3. j \in i..n /\ m - (n - j) = a /\ j > i /\ j \in 0..n
    BY <1>3, <1>4, <1>6, <1>7, <1>11, <1>13, <2>1, <2>2
  <2>4. Real(Prefix(path, j)) = Prefix(full, a)
    BY <1>6, <2>3
  <2>5. j \in MarksOn(M, path)
    BY <1>1, <2>1, <2>3, <2>4 DEF MarksOn
  <2> QED
    BY <1>4, <2>3, <2>5
<1>14. ProjectIn(M, subject) = Prefix(subject, l)
  <2>1. PICK a : a = Last(AboveIn(M, subject))
    OBVIOUS
  <2>2. a \in AboveIn(M, subject) /\ l <= a /\ ProjectIn(M, subject) = Prefix(subject, a)
    BY <1>12, <2>1, ProjectFacts
  <2>3. a \in 0..s
    BY <1>11, <2>2 DEF AboveIn
  <2>4. a = l
    BY <1>7, <1>13, <2>2, <2>3
  <2> QED
    BY <2>2, <2>4
<1>15. l \in 0..s
  BY <1>7, <1>11
<1> QED
  BY <1>5, <1>8, <1>9, <1>11, <1>14, <1>15

\* What a second resolution of the root gives.
LEMMA FoundRoot ==
    ASSUME NEW M, M \subseteq Dirs, NEW k, Resolvable(k), k.root = FindIn(M, k.start, k.cwd),
           ~ThroughIn(M, k), NEW r, r = FindIn(M, k.root, k.cwd)
    PROVE  \/ r = Absolute(ProjectIn(M, Subject(k)))
           \/ Target(k) \in Files /\ r = Absolute(Target(k)) /\ Meant(k.root, k.cwd) = Target(k)
           \/ /\ ~k.root.abs /\ Abs(r, k.cwd) = Target(k) /\ Meant(k.root, k.cwd) = Target(k)
              /\ k.cwd = Real(k.cwd)
              /\ Target(k) \in Dirs => ProjectIn(M, Target(k)) = Target(k)
<1>1. /\ Target(k) \in Dirs \cup Files /\ Subject(k) \in Dirs
      /\ k.cwd \in Seq(Names) /\ Real(k.cwd) \in Dirs
  BY StartFacts DEF Resolvable
<1>2. PICK path \in Seq(Names) : path = Path(k)
  BY StartFacts DEF Resolvable
<1>3. /\ ~k.start.abs => Real(k.cwd) = k.cwd
      /\ Real(path) = Target(k)
      /\ \A i \in MarksOn(M, path) : Real(path) = Rejoined(path, i)
  BY <1>2 DEF ThroughIn
<1>4. CASE MarksOn(M, path) # {}
  <2>1. PICK i \in MarksOn(M, path) :
           /\ \A j \in MarksOn(M, path) : j <= i
           /\ k.root = Absolute(Real(Prefix(path, i))) /\ Real(Prefix(path, i)) \in M
    <3>1. Last(MarksOn(M, path)) \in MarksOn(M, path)
          /\ \A j \in MarksOn(M, path) : j <= Last(MarksOn(M, path))
      BY <1>4, MarksFacts
    <3>2. k.root = Absolute(Real(Prefix(path, Last(MarksOn(M, path)))))
          /\ Real(Prefix(path, Last(MarksOn(M, path)))) \in M
      BY <1>2, <1>4, RootCases
    <3> QED
      BY <3>1, <3>2
  <2>2. Real(Prefix(path, i)) = ProjectIn(M, Subject(k))
    <3>1. Target(k) = Rejoined(path, i)
      BY <1>3
    <3> QED
      BY <1>1, <1>3, <2>1, <3>1, NearestMark DEF Subject
  <2>3. PICK R \in M : R = ProjectIn(M, Subject(k)) /\ k.root = Absolute(R)
    <3>1. ProjectIn(M, Subject(k)) \in M
      BY <2>1, <2>2
    <3>2. k.root = Absolute(ProjectIn(M, Subject(k)))
      BY <2>1, <2>2
    <3> QED
      BY <3>1, <3>2
  <2>4. FindIn(M, Absolute(R), k.cwd) = Absolute(ProjectIn(M, R)) /\ ProjectIn(M, R) = R
    <3>1. R \in Dirs
      OBVIOUS
    <3>2. FindIn(M, Absolute(R), k.cwd) = Absolute(ProjectIn(M, R))
      BY <3>1, FindDir
    <3>3. ProjectIn(M, R) = R
      BY <3>1, ProjectFacts
    <3> QED
      BY <3>2, <3>3
  <2> QED
    BY <2>3, <2>4
<1>5. CASE k.root = Absolute(Target(k)) /\ Target(k) \in Dirs
  <2>1. Subject(k) = Target(k)
    BY <1>5, PathFacts DEF Subject
  <2>2. FindIn(M, Absolute(Target(k)), k.cwd) = Absolute(ProjectIn(M, Target(k)))
    BY <1>5, FindDir
  <2> QED
    BY <1>5, <2>1, <2>2
<1>6. CASE k.root = Absolute(Target(k)) /\ Target(k) \in Files
  <2>1. Subject(k) = Parent(Target(k))
    BY <1>6 DEF Subject
  <2>2. FindIn(M, Absolute(Target(k)), k.cwd) =
           Absolute(IF AboveIn(M, Parent(Target(k))) = {} THEN Target(k)
                    ELSE ProjectIn(M, Parent(Target(k))))
    BY <1>6, FindFile
  <2>3. Meant(Absolute(Target(k)), k.cwd) = Real(Target(k))
    BY Paths
  <2>4. Real(Target(k)) = Target(k)
    BY <1>6, RealOfReal
  <2> QED
    BY <1>6, <2>1, <2>2, <2>3, <2>4
<1>7. ASSUME MarksOn(M, path) = {}, Exists(k), NEW names \in Texts, k.start = Relative(names),
             ~Linked(Real(k.cwd), names), k.root = Relative(Clean(FALSE, <<>>, names))
      PROVE  /\ ~k.root.abs /\ Abs(r, k.cwd) = Target(k) /\ Meant(k.root, k.cwd) = Target(k)
             /\ k.cwd = Real(k.cwd)
             /\ Target(k) \in Dirs => ProjectIn(M, Target(k)) = Target(k)
  <2>1. Abs(k.root, k.cwd) = path /\ Meant(k.root, k.cwd) = Target(k) /\ ~k.root.abs
    BY <1>2, <1>7, RelativeRoot
  <2>2. PICK clean \in Texts : clean = Clean(FALSE, <<>>, names)
    BY CleanText
  <2>3. /\ path = Clean(TRUE, k.cwd, names) /\ Target(k) = Walk(Real(k.cwd), names)
        /\ ~k.start.abs /\ Target(k) # Missing
    <3>1. Abs(k.start, k.cwd) = path /\ Target(k) = Meant(k.start, k.cwd)
      BY <1>2, <1>7, RelativeRoot DEF Target
    <3> QED
      BY <1>1, <1>7, <3>1, Paths, NamesFacts
  <2>4. ~Linked(Real(k.cwd), clean) /\ Walk(Real(k.cwd), clean) = Target(k)
    BY <1>1, <1>7, <2>2, <2>3, WalkClean
  <2>5. Clean(TRUE, k.cwd, clean) = path
    BY <1>1, <2>2, <2>3, CleanClean
  <2>6. r = EvalSymlinks(k.root, k.cwd)
    BY <1>7, <2>1, FindByText
  <2>7. r = Relative(Clean(FALSE, <<>>, clean))
    <3>1. EvalSymlinks(Relative(clean), k.cwd) =
             IF Linked(Real(k.cwd), clean) \/ Walk(Real(k.cwd), clean) = Missing
             THEN Absolute(Walk(Real(k.cwd), clean)) ELSE Relative(Clean(FALSE, <<>>, clean))
      BY Paths
    <3> QED
      BY <1>7, <2>2, <2>3, <2>4, <2>6, <3>1
  <2>8. Abs(r, k.cwd) = path
    <3>1. Abs(Relative(Clean(FALSE, <<>>, clean)), k.cwd)
             = Clean(TRUE, k.cwd, Clean(FALSE, <<>>, clean))
      BY Paths
    <3>2. Clean(TRUE, k.cwd, Clean(FALSE, <<>>, clean)) = Clean(TRUE, k.cwd, clean)
      BY <1>1, CleanClean
    <3> QED
      BY <2>5, <2>7, <3>1, <3>2
  <2>9. k.cwd = Real(k.cwd)
    BY <1>3, <2>3
  <2>10. path = Target(k)
    <3>1. Clean(TRUE, Real(k.cwd), names) = Walk(Real(k.cwd), names)
      BY <1>1, <1>7, <2>3, TextWalk
    <3> QED
      BY <2>3, <2>9, <3>1
  <2>11. ASSUME Target(k) \in Dirs PROVE ProjectIn(M, Target(k)) = Target(k)
    <3>1. AboveIn(M, Target(k)) = {}
      BY <1>7, <2>10, <2>11, DirMarks
    <3> QED
      BY <3>1 DEF ProjectIn
  <2> QED
    BY <2>1, <2>8, <2>9, <2>10, <2>11
<1>8. \/ MarksOn(M, path) # {}
      \/ k.root = Absolute(Target(k))
      \/ /\ MarksOn(M, path) = {} /\ Exists(k)
         /\ \E names \in Texts : /\ k.start = Relative(names) /\ ~Linked(Real(k.cwd), names)
                                 /\ k.root = Relative(Clean(FALSE, <<>>, names))
  BY <1>2, RootCases
<1>9. CASE /\ MarksOn(M, path) = {} /\ Exists(k)
           /\ \E names \in Texts : /\ k.start = Relative(names) /\ ~Linked(Real(k.cwd), names)
                                   /\ k.root = Relative(Clean(FALSE, <<>>, names))
  BY <1>7, <1>9
<1> QED
  BY <1>1, <1>4, <1>5, <1>6, <1>8, <1>9

\* The key of a command is that of its project, or of a file that is no root.
LEMMA KeyOfProject ==
    ASSUME NEW M, M \subseteq Dirs, NEW k, Resolvable(k), k.root = FindIn(M, k.start, k.cwd),
           ~ThroughIn(M, k)
    PROVE  \E P \in Dirs \cup Files :
              /\ Key(M, k) = Words(P)
              /\ P \in Dirs => P = ProjectIn(M, Subject(k))
              /\ Meant(k.root, k.cwd) \in Dirs => P \in Dirs
              /\ \E j \in 0..Len(Target(k)) : P = Prefix(Target(k), j)
<1>1. Target(k) \in Dirs \cup Files /\ Subject(k) \in Dirs
  BY StartFacts DEF Resolvable
<1>2. Target(k) \in Seq(Names) /\ Target(k) \in Dirs => Subject(k) = Target(k)
  BY <1>1, NamesFacts, PathFacts DEF Subject
<1>3. PICK r : r = FindIn(M, k.root, k.cwd)
  OBVIOUS
<1>4. Key(M, k) = Words(Abs(r, k.cwd))
  BY <1>3 DEF Key, KeyIn, ProjectKey
<1>5. Target(k) \in Seq(Names) /\ Len(Target(k)) \in Nat /\ Prefix(Target(k), Len(Target(k))) = Target(k)
  <2>1. Target(k) \in Seq(Names)
    BY <1>1, NamesFacts
  <2> QED
    BY <2>1, PrefixEnds
<1>6. CASE r = Absolute(ProjectIn(M, Subject(k)))
  <2>1. Abs(r, k.cwd) = ProjectIn(M, Subject(k))
    <3>1. ProjectIn(M, Subject(k)) \in Dirs
      BY <1>1, ProjectFacts
    <3>2. Abs(Absolute(ProjectIn(M, Subject(k))), k.cwd) = ProjectIn(M, Subject(k))
      BY <3>1, Paths, NamesFacts
    <3> QED
      BY <1>6, <3>2
  <2>2. ProjectIn(M, Subject(k)) \in Dirs
        /\ \E j \in 0..Len(Subject(k)) : ProjectIn(M, Subject(k)) = Prefix(Subject(k), j)
    <3>1. PICK d \in Dirs : d = Subject(k)
      BY <1>1
    <3>2. ProjectIn(M, d) \in Dirs /\ \E j \in 0..Len(d) : ProjectIn(M, d) = Prefix(d, j)
      BY ProjectFacts
    <3> QED
      BY <3>1, <3>2
  <2>3. \A j \in 0..Len(Subject(k)) :
           j \in 0..Len(Target(k)) /\ Prefix(Subject(k), j) = Prefix(Target(k), j)
    <3>1. CASE Target(k) \notin Files
      BY <3>1 DEF Subject
    <3>2. CASE Target(k) \in Files
      <4>1. PICK m \in Nat \ {0} : m = Len(Target(k))
        BY <1>5, <3>2, PathFacts, ParentFacts
      <4>2. Subject(k) = Prefix(Target(k), m - 1) /\ Len(Subject(k)) = m - 1
        BY <1>5, <3>2, <4>1, PathFacts, ParentFacts DEF Subject
      <4>3. m - 1 \in 0..Len(Target(k)) /\ \A j \in 0..(m - 1) : j \in 0..m
        BY <4>1
      <4>4. \A j \in 0..(m - 1) : Prefix(Prefix(Target(k), m - 1), j) = Prefix(Target(k), j)
        BY <1>5, <4>3, PrefixPrefix
      <4> QED
        BY <4>1, <4>2, <4>3, <4>4
    <3> QED
      BY <3>1, <3>2
  <2> QED
    BY <1>4, <2>1, <2>2, <2>3
<1>7. CASE Target(k) \in Files /\ r = Absolute(Target(k)) /\ Meant(k.root, k.cwd) = Target(k)
  <2>1. Abs(r, k.cwd) = Target(k) /\ Target(k) \notin Dirs
    BY <1>7, Paths, PathFacts, NamesFacts
  <2> QED
    BY <1>4, <1>5, <1>7, <2>1
<1>8. CASE /\ Abs(r, k.cwd) = Target(k) /\ Meant(k.root, k.cwd) = Target(k)
           /\ Target(k) \in Dirs => ProjectIn(M, Target(k)) = Target(k)
  BY <1>1, <1>2, <1>4, <1>5, <1>8
<1> QED
  BY <1>3, <1>6, <1>7, <1>8, FoundRoot

\* The daemon of a command works in the command's project.
LEMMA WorksInProject ==
    ASSUME NEW M, M \subseteq Dirs, NEW k, Resolvable(k), k.root = FindIn(M, k.start, k.cwd),
           ~ThroughIn(M, k), ~Shifted(k), Meant(k.root, k.cwd) \in Dirs,
           NEW r, r = FindIn(M, k.root, Home(k))
    PROVE  Meant(r, Home(k)) = ProjectIn(M, Subject(k))
<1>1. Subject(k) \in Dirs /\ (Target(k) \in Dirs => Subject(k) = Target(k))
  BY StartFacts, PathFacts DEF Subject, Resolvable
<1>2. k.root \in RootType
  BY RootFacts
<1>3. r = FindIn(M, k.root, k.cwd)
  BY <1>2, HomeFacts
<1>4. CASE r = Absolute(ProjectIn(M, Subject(k)))
  <2>1. Meant(r, Home(k)) = Real(ProjectIn(M, Subject(k)))
    BY <1>4, Paths
  <2>2. ProjectIn(M, Subject(k)) \in Dirs
    BY <1>1, ProjectFacts
  <2> QED
    BY <2>1, <2>2, RealOfReal
<1>5. CASE Target(k) \in Files /\ Meant(k.root, k.cwd) = Target(k)
  BY <1>5, PathFacts
<1>6. CASE /\ ~k.root.abs /\ Meant(k.root, k.cwd) = Target(k)
           /\ Target(k) \in Dirs => ProjectIn(M, Target(k)) = Target(k)
  <2>1. \A p : Absolute(p).abs
    BY Paths
  <2>2. k.root = Relative(<<>>) /\ Home(k) = k.cwd
    BY <1>2, <1>6, <2>1, HomeFacts
  <2>4. r = k.root
    BY <1>3, <1>6, Settled
  <2> QED
    BY <1>1, <1>6, <2>2, <2>4
<1> QED
  BY <1>3, <1>4, <1>5, <1>6, FoundRoot

-----------------------------------------------------------------------------
(* The invariant is inductive *)

LEMMA Operators ==
    /\ \A p, cwd : FindProjectRoot(p, cwd) = FindIn(marked, p, cwd)
    /\ \A p, cwd : EndpointPath(p, cwd) = KeyIn(marked, p, cwd)
    /\ \A path : Markers(path) = MarksOn(marked, path)
    /\ \A dir : Project(dir) = ProjectIn(marked, dir)
    /\ \A k : ThroughLink(k) <=> ThroughIn(marked, k)
    /\ \A k : Overtaken(k) <=> OvertakenBy(later, k)
<1>1. \A path : Markers(path) = MarksOn(marked, path)
  BY DEF Markers, MarksOn
<1>2. \A p, cwd : FindProjectRoot(p, cwd) = FindIn(marked, p, cwd)
  BY <1>1 DEF FindProjectRoot, FindIn
<1>3. \A p, cwd : EndpointPath(p, cwd) = KeyIn(marked, p, cwd)
  BY <1>2 DEF EndpointPath, KeyIn
<1>4. \A dir : Project(dir) = ProjectIn(marked, dir)
  BY DEF Project, ProjectIn, Above, AboveIn
<1>5. \A k : ThroughLink(k) <=> ThroughIn(marked, k)
  BY <1>1 DEF ThroughLink, ThroughIn, Rejoined
<1>6. \A k : Overtaken(k) <=> OvertakenBy(later, k)
  BY DEF Overtaken, OvertakenBy
<1> QED
  BY <1>1, <1>2, <1>3, <1>4, <1>5, <1>6

LEMMA AnsweringFacts ==
    ASSUME NEW c
    PROVE  /\ \A d \in Answering(c) : \E e \in endpoints :
                 e.daemon = d /\ e.path = Key(marked, command[c]) /\ daemon[d].at = "serving"
           /\ Answering(c) = {} => \A e \in endpoints :
                 ~(e.path = Key(marked, command[c]) /\ daemon[e.daemon].at = "serving")
<1>1. EndpointPath(command[c].root, command[c].cwd) = Key(marked, command[c])
  BY Operators DEF Key
<1> QED
  BY <1>1 DEF Answering

\* What the invariant says of a command depends on three of its fields.
Alike(k, l) == k.cwd = l.cwd /\ k.start = l.start /\ k.root = l.root

LEMMA AlikeFacts ==
    ASSUME NEW k, NEW l, Alike(k, l)
    PROVE  /\ Resolvable(k) <=> Resolvable(l)
           /\ Shifted(k) <=> Shifted(l)
           /\ \A L : OvertakenBy(L, k) <=> OvertakenBy(L, l)
           /\ \A M : Key(M, k) = Key(M, l)
           /\ Home(k) = Home(l) /\ Target(k) = Target(l) /\ Path(k) = Path(l)
           /\ Exists(k) <=> Exists(l)
<1>1. (Exists(k) <=> Exists(l)) /\ Path(k) = Path(l) /\ Target(k) = Target(l)
  BY DEF Alike, Exists, Path, Target
<1>2. Subject(k) = Subject(l)
  BY <1>1 DEF Subject
<1> QED
  BY <1>1, <1>2 DEF Alike, Given, Resolvable, Shifted, OvertakenBy, Key, Home

LEMMA DaemonOfAlike ==
    ASSUME NEW M, NEW L, NEW k, NEW l, Alike(k, l), k.at \notin {"none", "resolved"},
           NEW d, DaemonOf(M, L, l, d)
    PROVE  DaemonOf(M, L, k, d)
<1>1. /\ \A N : OvertakenBy(N, k) <=> OvertakenBy(N, l)
      /\ Key(M, k) = Key(M, l) /\ Home(k) = Home(l) /\ (Shifted(k) <=> Shifted(l))
  BY AlikeFacts
<1> QED
  BY <1>1 DEF DaemonOf, Alike

LEMMA HomeType ==
    ASSUME NEW k, k.cwd \in Seq(Names), k.root \in RootType, Meant(k.root, k.cwd) \in Dirs
    PROVE  Home(k) \in Seq(Names)
<1>1. Abs(k.root, k.cwd) \in Seq(Names)
  <2>1. CASE \E p \in Dirs \cup Files : k.root = Absolute(p)
    <3>1. PICK p \in Dirs \cup Files : k.root = Absolute(p)
      BY <2>1
    <3>2. Abs(Absolute(p), k.cwd) = p
      BY Paths, NamesFacts
    <3> QED
      BY <3>1, <3>2, NamesFacts
  <2>2. CASE \E names \in Texts : k.root = Relative(names)
    <3>1. PICK names \in Texts : k.root = Relative(names)
      BY <2>2
    <3>2. Abs(Relative(names), k.cwd) = Clean(TRUE, k.cwd, names)
      BY Paths
    <3> QED
      BY <3>1, <3>2, CleanPath
  <2> QED
    BY <2>1, <2>2 DEF RootType
<1> QED
  BY <1>1, NamesFacts DEF Home

LEMMA RootsAreStarts == RootType \subseteq StartType
<1>1. Dirs \cup Files \subseteq Texts
  BY NamesFacts, PathFacts
<1>2. \A names \in Texts : Absolute(names) \in StartType /\ Relative(names) \in StartType
  BY DEF StartType, Absolute, Relative
<1> QED
  BY <1>1, <1>2 DEF RootType

LEMMA InitInv == ASSUME Init PROVE IInv
<1>1. Absolute(<<>>) \in RootType /\ Absolute(<<>>) \in StartType
  BY PathFacts, RootsAreStarts DEF RootType
<1>2. NoCommand \in CommandType
  BY <1>1, PathFacts DEF NoCommand, CommandType
<1>3. NoDaemon \in DaemonType
  BY <1>1, PathFacts DEF NoDaemon, DaemonType, Keys
<1>4. TypeInv
  BY <1>2, <1>3 DEF Init, TypeInv
<1>5. \A c \in Commands : command[c].at = "none" /\ daemon[c].at = "none"
  BY DEF Init, NoCommand, NoDaemon
<1>6. endpoints = {}
  BY DEF Init
<1>7. OneInv
  BY <1>5 DEF OneInv, InProgress
<1>8. CommandInv /\ DaemonInv
  BY <1>5 DEF CommandInv, DaemonInv
<1>9. EndpointInv
  BY <1>6 DEF EndpointInv
<1>10. ServingInv
  BY <1>5, <1>6 DEF ServingInv
<1>11. PollInv /\ FailInv /\ ConnectedInv
  BY <1>5 DEF PollInv, FailInv, ConnectedInv
<1> QED
  BY <1>4, <1>7, <1>8, <1>9, <1>10, <1>11 DEF IInv

LEMMA ResolvesInv ==
    ASSUME IInv, NEW c \in Commands, NEW cwd \in Places, NEW start \in Roots \cup {Absolute(cwd)},
           Resolves(c, cwd, start)
    PROVE  IInv'
<1> USE DEF IInv
<1>1. PICK root : root = FindIn(marked, start, cwd)
  OBVIOUS
<1>2. PICK k : k = [at |-> IF root = Absolute(Missing) THEN "failed" ELSE "resolved",
                    cwd |-> cwd, start |-> start, root |-> root, daemon |-> 0]
  OBVIOUS
<1>3. /\ command[c].at = "none" /\ InProgress = {}
      /\ command' = [command EXCEPT ![c] = k]
      /\ UNCHANGED <<marked, later, daemon, endpoints>>
  BY <1>1, <1>2, Operators DEF Resolves
<1>4. /\ command \in [Commands -> CommandType]
      /\ command'[c] = k /\ \A d \in Commands \ {c} : command'[d] = command[d]
  BY <1>3 DEF TypeInv
<1>5. cwd \in Seq(Names) /\ Real(cwd) \in Dirs /\ marked \subseteq Dirs
  BY PlacesAssumption DEF TypeInv
<1>6. start \in StartType
  <2>1. Absolute(cwd) \in StartType
    BY <1>5, PathFacts DEF Absolute, StartType
  <2> QED
    BY <2>1, TreeAssumption DEF StartType, Texts
<1>7. /\ Given(k) /\ k.at \in {"failed", "resolved"}
      /\ k.at = "failed" <=> k.root = Absolute(Missing)
      /\ k.at = "resolved" => Resolvable(k)
      /\ k.root = FindIn(marked, k.start, k.cwd)
  BY <1>1, <1>2, <1>5, <1>6 DEF Given, Resolvable
<1>8. k.root \in RootType \cup {Absolute(Missing)}
  BY <1>1, <1>2, <1>5, <1>6, PathFacts, FindType
<1>9. k \in CommandType
  BY <1>2, <1>5, <1>6, <1>8 DEF CommandType
<1>10. TypeInv'
  BY <1>3, <1>9 DEF TypeInv
<1>11. OneInv'
  BY <1>3, <1>4 DEF OneInv, InProgress
<1>12. CommandInv'
  BY <1>3, <1>4, <1>7 DEF CommandInv
<1>13. daemon[c].at = "none"
  BY <1>3 DEF DaemonInv, DaemonOf
<1>14. DaemonInv'
  BY <1>3, <1>4, <1>13 DEF DaemonInv
<1>15. EndpointInv'
  BY <1>3 DEF EndpointInv
<1>16. ServingInv'
  <2>1. AllMeanTheSame' => AllMeanTheSame
    BY <1>3, <1>4 DEF AllMeanTheSame
  <2> QED
    BY <1>3, <1>4, <1>13, <2>1 DEF ServingInv
<1>17. PollInv'
  BY <1>3, <1>4, <1>7 DEF PollInv
<1>18. FailInv'
  BY <1>3, <1>4, <1>5, <1>7, NoRoot DEF FailInv
<1>19. ConnectedInv'
  BY <1>3, <1>4, <1>7 DEF ConnectedInv
<1> QED
  BY <1>10, <1>11, <1>12, <1>14, <1>15, <1>16, <1>17, <1>18, <1>19

\* A command goes on: what it is about stays.
LEMMA GoesOn ==
    ASSUME TypeInv, OneInv, CommandInv, NEW c \in Commands, c \in InProgress,
           NEW k \in CommandType, Alike(k, command[c]), k.at # "none",
           command' = [command EXCEPT ![c] = k], UNCHANGED <<marked, later>>
    PROVE  /\ command' \in [Commands -> CommandType] /\ command'[c] = k
           /\ \A d \in Commands \ {c} : command'[d] = command[d]
           /\ \A d \in Commands : Alike(command'[d], command[d])
           /\ \A d \in Commands \ {c} : d \notin InProgress
           /\ OneInv' /\ CommandInv' /\ (AllMeanTheSame' <=> AllMeanTheSame)
<1>1. /\ command' \in [Commands -> CommandType] /\ command'[c] = k
      /\ \A d \in Commands \ {c} : command'[d] = command[d]
  BY DEF TypeInv
<1>2. \A d \in Commands : Alike(command'[d], command[d])
  BY <1>1 DEF Alike
<1>3. \A d \in Commands \ {c} : d \notin InProgress
  BY DEF OneInv
<1>4. OneInv'
  BY <1>1, <1>3 DEF OneInv, InProgress
<1>5. command[c].at # "none"
  BY DEF InProgress
<1>6. CommandInv'
  <2> SUFFICES ASSUME NEW d \in Commands, command'[d].at # "none"
               PROVE  \/ command'[d].at = "failed" /\ command'[d].root = Absolute(Missing)
                      \/ /\ Resolvable(command'[d])
                         /\ ~OvertakenBy(later, command'[d]) =>
                               command'[d].root = FindIn(marked, command'[d].start, command'[d].cwd)
    BY DEF CommandInv
  <2>1. command[d].at # "none"
    BY <1>1, <1>5
  <2>2. \/ command[d].at = "failed" /\ command[d].root = Absolute(Missing)
        \/ /\ Resolvable(command[d])
           /\ ~OvertakenBy(later, command[d]) =>
                 command[d].root = FindIn(marked, command[d].start, command[d].cwd)
    BY <2>1 DEF CommandInv
  <2>3. CASE command[d].at = "failed" /\ command[d].root = Absolute(Missing)
    <3>1. d # c
      BY <2>3 DEF InProgress
    <3> QED
      BY <1>1, <2>3, <3>1
  <2>4. CASE /\ Resolvable(command[d])
             /\ ~OvertakenBy(later, command[d]) =>
                   command[d].root = FindIn(marked, command[d].start, command[d].cwd)
    BY <1>2, <2>4, AlikeFacts DEF Alike
  <2> QED
    BY <2>2, <2>3, <2>4
<1>7. AllMeanTheSame' <=> AllMeanTheSame
  <2>1. \A d \in Commands : command'[d].at # "none" <=> command[d].at # "none"
    BY <1>1, <1>5
  <2>2. \A d \in Commands : /\ Shifted(command'[d]) <=> Shifted(command[d])
                            /\ OvertakenBy(later, command'[d]) <=> OvertakenBy(later, command[d])
    BY <1>2, AlikeFacts
  <2> QED
    BY <2>1, <2>2 DEF AllMeanTheSame
<1> QED
  BY <1>1, <1>2, <1>3, <1>4, <1>6, <1>7

LEMMA ConnectsInv ==
    ASSUME IInv, NEW c \in Commands, Connects(c)
    PROVE  IInv'
<1> USE DEF IInv
<1>1. PICK d \in Answering(c) :
         command' = [command EXCEPT ![c].at = "connected", ![c].daemon = d]
  BY DEF Connects
<1>2. PICK e \in endpoints : /\ e.daemon = d /\ e.path = Key(marked, command[c])
                             /\ daemon[d].at = "serving"
  BY <1>1, AnsweringFacts
<1>3. d \in Commands /\ e.path = daemon[d].file
  BY <1>2 DEF TypeInv, EndpointType, EndpointInv
<1>4. command[c] \in CommandType /\ c \in InProgress /\ UNCHANGED <<marked, later, daemon, endpoints>>
  BY DEF TypeInv, Connects, InProgress
<1>5. PICK k : k = [command[c] EXCEPT !.at = "connected", !.daemon = d]
  OBVIOUS
<1>6. /\ k \in CommandType /\ Alike(k, command[c]) /\ k.at = "connected" /\ k.daemon = d
      /\ command' = [command EXCEPT ![c] = k]
  BY <1>1, <1>3, <1>4, <1>5 DEF CommandType, Alike
<1>7. /\ command' \in [Commands -> CommandType] /\ command'[c] = k
      /\ \A i \in Commands \ {c} : command'[i] = command[i]
      /\ \A i \in Commands : Alike(command'[i], command[i])
      /\ OneInv' /\ CommandInv' /\ (AllMeanTheSame' <=> AllMeanTheSame)
  BY <1>4, <1>6, GoesOn
<1>8. TypeInv'
  BY <1>4, <1>7 DEF TypeInv
<1>9. DaemonInv'
  <2> SUFFICES ASSUME NEW i \in Commands, daemon[i].at # "none"
               PROVE  DaemonOf(marked, later, command'[i], daemon[i])
    BY <1>4 DEF DaemonInv
  <2>1. DaemonOf(marked, later, command[i], daemon[i])
    BY DEF DaemonInv
  <2>2. command'[i].at \notin {"none", "resolved"}
    BY <1>6, <1>7, <2>1 DEF DaemonOf
  <2> QED
    BY <1>7, <2>1, <2>2, DaemonOfAlike
<1>10. EndpointInv'
  BY <1>4 DEF EndpointInv
<1>11. ServingInv'
  <2> SUFFICES ASSUME AllMeanTheSame, NEW i \in Commands, daemon[i].at = "starting"
               PROVE  command'[i].at = "polling"
    BY <1>4, <1>7 DEF ServingInv
  <2>1. command[i].at = "polling" /\ \A f \in endpoints : f.path # daemon[i].file
    BY DEF ServingInv
  <2>2. i # c
    <3> SUFFICES ASSUME i = c PROVE FALSE
      OBVIOUS
    <3>1. ~OvertakenBy(later, command[c])
      BY <2>1 DEF AllMeanTheSame
    <3>2. daemon[c].file = Key(marked, command[c])
      BY <3>1 DEF DaemonInv, DaemonOf
    <3> QED
      BY <1>2, <2>1, <3>2
  <2> QED
    BY <1>7, <2>1, <2>2
<1>12. PollInv'
  BY <1>4, <1>6, <1>7 DEF PollInv
<1>13. FailInv'
  BY <1>4, <1>6, <1>7 DEF FailInv
<1>14. ConnectedInv'
  <2> SUFFICES ASSUME NEW i \in Commands, command'[i].at = "connected"
               PROVE  /\ command'[i].daemon \in Commands
                      /\ daemon[command'[i].daemon].at \in {"serving", "ended"}
                      /\ ~OvertakenBy(later, command'[i]) =>
                            daemon[command'[i].daemon].file = Key(marked, command'[i])
    BY <1>4 DEF ConnectedInv
  <2>1. CASE i = c
    <3>1. Key(marked, k) = Key(marked, command[c])
      BY <1>6, AlikeFacts
    <3> QED
      BY <1>2, <1>3, <1>6, <1>7, <2>1, <3>1
  <2>2. CASE i # c
    BY <1>7, <2>2 DEF ConnectedInv
  <2> QED
    BY <2>1, <2>2
<1> QED
  BY <1>7, <1>8, <1>9, <1>10, <1>11, <1>12, <1>13, <1>14

LEMMA SpawnsInv ==
    ASSUME IInv, NEW c \in Commands, Spawns(c)
    PROVE  IInv'
<1> USE DEF IInv
<1>1. /\ command[c].at = "resolved" /\ Answering(c) = {}
      /\ Meant(command[c].root, command[c].cwd) \in Dirs
      /\ UNCHANGED <<marked, later, endpoints>>
  BY DEF Spawns
<1>2. PICK k : k = [command[c] EXCEPT !.at = "polling"]
  OBVIOUS
<1>3. /\ command[c] \in CommandType /\ c \in InProgress /\ marked \subseteq Dirs
      /\ Resolvable(command[c])
  BY <1>1 DEF TypeInv, InProgress, CommandInv
<1>4. /\ k \in CommandType /\ Alike(k, command[c]) /\ k.at = "polling"
      /\ command' = [command EXCEPT ![c] = k]
  BY <1>2, <1>3 DEF CommandType, Alike, Spawns
<1>5. /\ command' \in [Commands -> CommandType] /\ command'[c] = k
      /\ \A i \in Commands \ {c} : command'[i] = command[i]
      /\ \A i \in Commands : Alike(command'[i], command[i])
      /\ \A d \in Commands \ {c} : d \notin InProgress
      /\ OneInv' /\ CommandInv' /\ (AllMeanTheSame' <=> AllMeanTheSame)
  BY <1>1, <1>3, <1>4, GoesOn
<1>6. PICK d : d = [at |-> "starting", root |-> command[c].root, file |-> Key(marked, command[c]),
                    cwd |-> Home(command[c])]
  OBVIOUS
<1>7. daemon' = [daemon EXCEPT ![c] = d]
  <2>1. EndpointPath(command[c].root, command[c].cwd) = Key(marked, command[c])
    BY Operators DEF Key
  <2> QED
    BY <1>6, <2>1 DEF Spawns, Home
<1>8. d \in DaemonType
  <2>1. command[c].root \in RootType /\ command[c].cwd \in Seq(Names)
    BY <1>3 DEF CommandType, Resolvable
  <2>2. Home(command[c]) \in Seq(Names)
    BY <1>1, <2>1, HomeType
  <2>3. FindIn(marked, command[c].root, command[c].cwd) \in RootType \cup {Absolute(Missing)}
    BY <1>3, <2>1, RealFound, RootsAreStarts, FindType
  <2>4. Key(marked, command[c]) \in Keys
    BY <2>1, <2>3 DEF Key, KeyIn, Keys
  <2> QED
    BY <1>6, <2>1, <2>2, <2>4 DEF DaemonType
<1>9. /\ daemon' \in [Commands -> DaemonType] /\ daemon'[c] = d
      /\ \A i \in Commands \ {c} : daemon'[i] = daemon[i]
  BY <1>7, <1>8 DEF TypeInv
<1>10. daemon[c].at = "none"
  BY <1>1 DEF DaemonInv, DaemonOf
<1>11. TypeInv'
  BY <1>1, <1>5, <1>9 DEF TypeInv
<1>12. \A e \in endpoints : e.daemon \in Commands /\ e.daemon # c
  BY <1>10 DEF EndpointInv, TypeInv, EndpointType
<1>13. DaemonInv'
  <2> SUFFICES ASSUME NEW i \in Commands, daemon'[i].at # "none"
               PROVE  DaemonOf(marked, later, command'[i], daemon'[i])
    BY <1>1 DEF DaemonInv
  <2>1. CASE i = c
    <3>1. Key(marked, k) = Key(marked, command[c]) /\ Home(k) = Home(command[c])
      BY <1>4, AlikeFacts
    <3> QED
      BY <1>1, <1>3, <1>4, <1>5, <1>6, <1>9, <2>1, <3>1 DEF DaemonOf, Alike, Resolvable
  <2>2. CASE i # c
    BY <1>5, <1>9, <2>2 DEF DaemonInv
  <2> QED
    BY <2>1, <2>2
<1>14. EndpointInv'
  BY <1>1, <1>9, <1>12 DEF EndpointInv
<1>15. ServingInv'
  <2> SUFFICES ASSUME AllMeanTheSame
               PROVE  /\ \A e \in endpoints : daemon'[e.daemon].at = "serving"
                      /\ \A i \in Commands : daemon'[i].at = "serving" =>
                            \E e \in endpoints : e.daemon = i
                      /\ \A i \in Commands : daemon'[i].at = "starting" =>
                            command'[i].at = "polling" /\ \A e \in endpoints : e.path # daemon'[i].file
    BY <1>1, <1>5 DEF ServingInv
  <2>1. \A e \in endpoints : daemon[e.daemon].at = "serving"
    BY DEF ServingInv
  <2>2. \A e \in endpoints : e.path # Key(marked, command[c])
    BY <1>1, <2>1, AnsweringFacts
  <2>3. \A e \in endpoints : daemon'[e.daemon].at = "serving"
    BY <1>9, <1>12, <2>1
  <2>4. \A i \in Commands : daemon'[i].at = "serving" => \E e \in endpoints : e.daemon = i
    BY <1>6, <1>9 DEF ServingInv
  <2>5. ASSUME NEW i \in Commands, daemon'[i].at = "starting"
        PROVE  command'[i].at = "polling" /\ \A e \in endpoints : e.path # daemon'[i].file
    <3>1. CASE i = c
      BY <1>4, <1>5, <1>6, <1>9, <2>2, <3>1
    <3>2. CASE i # c
      BY <1>5, <1>9, <2>5, <3>2 DEF ServingInv
    <3> QED
      BY <3>1, <3>2
  <2> QED
    BY <2>3, <2>4, <2>5
<1>16. PollInv'
  <2> SUFFICES ASSUME NEW i \in Commands, command'[i].at = "polling"
               PROVE  daemon'[i].at = "starting"
    BY DEF PollInv
  <2>1. i = c
    BY <1>5 DEF InProgress
  <2> QED
    BY <1>6, <1>9, <2>1
<1>17. FailInv'
  BY <1>1, <1>4, <1>5 DEF FailInv
<1>18. ConnectedInv'
  <2> SUFFICES ASSUME NEW i \in Commands, command'[i].at = "connected"
               PROVE  /\ command'[i].daemon \in Commands
                      /\ daemon'[command'[i].daemon].at \in {"serving", "ended"}
                      /\ ~OvertakenBy(later, command'[i]) =>
                            daemon'[command'[i].daemon].file = Key(marked, command'[i])
    BY <1>1 DEF ConnectedInv
  <2>1. command'[i] = command[i]
    BY <1>4, <1>5
  <2>2. command[i].daemon # c
    BY <1>10, <2>1 DEF ConnectedInv
  <2> QED
    BY <1>9, <2>1, <2>2 DEF ConnectedInv
<1> QED
  BY <1>5, <1>11, <1>13, <1>14, <1>15, <1>16, <1>17, <1>18

LEMMA FailsInv ==
    ASSUME IInv, NEW c \in Commands, Fails(c)
    PROVE  IInv'
<1> USE DEF IInv
<1>1. /\ command[c].at \in {"resolved", "polling"} /\ Answering(c) = {}
      /\ command[c].at = "resolved" => Meant(command[c].root, command[c].cwd) \notin Dirs
      /\ command[c].at = "polling" => daemon[c].at # "starting"
      /\ UNCHANGED <<marked, later, daemon, endpoints>>
  BY DEF Fails
<1>2. PICK k : k = [command[c] EXCEPT !.at = "failed"]
  OBVIOUS
<1>3. /\ command[c] \in CommandType /\ c \in InProgress /\ marked \subseteq Dirs
      /\ Resolvable(command[c])
  BY <1>1 DEF TypeInv, InProgress, CommandInv
<1>4. /\ k \in CommandType /\ Alike(k, command[c]) /\ k.at = "failed"
      /\ command' = [command EXCEPT ![c] = k]
  BY <1>2, <1>3 DEF CommandType, Alike, Fails
<1>5. /\ command' \in [Commands -> CommandType] /\ command'[c] = k
      /\ \A i \in Commands \ {c} : command'[i] = command[i]
      /\ \A i \in Commands : Alike(command'[i], command[i])
      /\ \A d \in Commands \ {c} : d \notin InProgress
      /\ OneInv' /\ CommandInv' /\ (AllMeanTheSame' <=> AllMeanTheSame)
  BY <1>1, <1>3, <1>4, GoesOn
<1>6. TypeInv'
  BY <1>1, <1>5 DEF TypeInv
<1>7. DaemonInv'
  <2> SUFFICES ASSUME NEW i \in Commands, daemon[i].at # "none"
               PROVE  DaemonOf(marked, later, command'[i], daemon[i])
    BY <1>1 DEF DaemonInv
  <2>1. DaemonOf(marked, later, command[i], daemon[i])
    BY DEF DaemonInv
  <2>2. command'[i].at \notin {"none", "resolved"}
    BY <1>4, <1>5, <2>1 DEF DaemonOf
  <2> QED
    BY <1>5, <2>1, <2>2, DaemonOfAlike
<1>8. EndpointInv'
  BY <1>1 DEF EndpointInv
<1>9. ServingInv'
  <2> SUFFICES ASSUME AllMeanTheSame, NEW i \in Commands, daemon[i].at = "starting"
               PROVE  command'[i].at = "polling"
    BY <1>1, <1>5 DEF ServingInv
  <2>1. i # c
    BY <1>1 DEF DaemonInv, DaemonOf
  <2> QED
    BY <1>5, <2>1 DEF ServingInv
<1>10. PollInv'
  BY <1>1, <1>4, <1>5 DEF PollInv
<1>11. FailInv'
  <2> SUFFICES ASSUME NEW i \in Commands, command'[i].at = "failed", ~OvertakenBy(later, command'[i])
               PROVE  LET l == command'[i]
                      IN  /\ MarksOn(marked, Path(l)) = {}
                          /\ ~Exists(l) \/ Target(l) \in Files \/ Shifted(l)
    BY <1>1 DEF FailInv
  <2>1. CASE i # c
    BY <1>5, <2>1 DEF FailInv
  <2>2. CASE i = c
    <3>1. /\ ~OvertakenBy(later, command[c])
          /\ Target(k) = Target(command[c]) /\ (Shifted(k) <=> Shifted(command[c]))
          /\ Path(k) = Path(command[c])
      BY <1>4, <1>5, <2>2, AlikeFacts
    <3>2. command[c].root = FindIn(marked, command[c].start, command[c].cwd)
      BY <1>1, <3>1 DEF CommandInv
    <3>3. /\ Shifted(command[c]) => MarksOn(marked, Path(command[c])) = {}
          /\ \/ Meant(command[c].root, command[c].cwd) \in Dirs
             \/ MarksOn(marked, Path(command[c])) = {} /\ Target(command[c]) \in Files
      BY <1>3, <3>2, RootFacts
    <3>4. ASSUME command[c].at = "polling", ~Shifted(command[c]) PROVE FALSE
      <4>1. \E e \in endpoints : /\ e.path = Key(marked, command[c])
                                 /\ daemon[e.daemon].at = "serving"
        BY <1>1, <3>1, <3>4 DEF PollInv
      <4> QED
        BY <1>1, <4>1, AnsweringFacts
    <3>5. /\ MarksOn(marked, Path(command[c])) = {}
          /\ Target(command[c]) \in Files \/ Shifted(command[c])
      BY <1>1, <3>3, <3>4
    <3> QED
      BY <1>5, <2>2, <3>1, <3>5
  <2> QED
    BY <2>1, <2>2
<1>12. ConnectedInv'
  BY <1>1, <1>4, <1>5 DEF ConnectedInv
<1> QED
  BY <1>5, <1>6, <1>7, <1>8, <1>9, <1>10, <1>11, <1>12

LEMMA DaemonStartsInv ==
    ASSUME IInv, NEW d \in Commands, DaemonStarts(d)
    PROVE  IInv'
<1> USE DEF IInv
<1>1. PICK k \in CommandType : k = command[d]
  BY DEF TypeInv
<1>2. PICK root : root = FindIn(marked, k.root, Home(k))
  OBVIOUS
<1>3. /\ daemon[d].at = "starting" /\ daemon[d].root = k.root /\ daemon[d].cwd = Home(k)
      /\ UNCHANGED <<marked, later, command>> /\ k.at \notin {"none", "resolved"}
      /\ marked \subseteq Dirs /\ daemon[d] \in DaemonType /\ k.root # Absolute(Missing)
  BY <1>1 DEF DaemonStarts, DaemonInv, DaemonOf, TypeInv
<1>4. Resolvable(k)
  BY <1>1, <1>3 DEF CommandInv
<1>5. \A e \in endpoints : e.daemon \in Commands /\ e.daemon # d
  BY <1>3 DEF EndpointInv, TypeInv, EndpointType
<1>6. ~OvertakenBy(later, k) /\ ~Shifted(k) => root # Absolute(Missing)
  <2> SUFFICES ASSUME ~OvertakenBy(later, k), ~Shifted(k) PROVE root # Absolute(Missing)
    OBVIOUS
  <2>1. k.root = FindIn(marked, k.start, k.cwd)
    BY <1>1, <1>3 DEF CommandInv
  <2> QED
    BY <1>2, <1>3, <1>4, <2>1, Served
<1>7. FindProjectRoot(daemon[d].root, daemon[d].cwd) = root
  BY <1>2, <1>3, Operators
<1>8. CommandInv' /\ OneInv' /\ FailInv' /\ (AllMeanTheSame' <=> AllMeanTheSame)
  BY <1>3 DEF CommandInv, OneInv, InProgress, FailInv, AllMeanTheSame
<1>9. CASE root = Absolute(Missing)
  <2>1. daemon' = [daemon EXCEPT ![d].at = "failed"] /\ UNCHANGED endpoints
    BY <1>7, <1>9 DEF DaemonStarts
  <2>2. PICK f : f = [daemon[d] EXCEPT !.at = "failed"]
    OBVIOUS
  <2>3. /\ f \in DaemonType /\ f.at = "failed" /\ f.file = daemon[d].file /\ f.cwd = daemon[d].cwd
        /\ daemon' = [daemon EXCEPT ![d] = f]
    BY <1>3, <2>1, <2>2 DEF DaemonType
  <2>4. /\ daemon' \in [Commands -> DaemonType] /\ daemon'[d] = f
        /\ \A i \in Commands \ {d} : daemon'[i] = daemon[i]
    BY <2>3 DEF TypeInv
  <2>5. TypeInv'
    BY <1>3, <2>1, <2>4 DEF TypeInv
  <2>6. DaemonInv'
    BY <1>3, <2>3, <2>4 DEF DaemonInv, DaemonOf
  <2>7. EndpointInv'
    BY <1>5, <2>1, <2>4 DEF EndpointInv
  <2>8. ServingInv'
    BY <1>3, <1>5, <1>8, <2>1, <2>3, <2>4 DEF ServingInv
  <2>9. PollInv'
    <3> SUFFICES ASSUME NEW i \in Commands, command[i].at = "polling", ~Shifted(command[i]),
                        ~OvertakenBy(later, command[i])
                 PROVE  \/ daemon'[i].at = "starting"
                        \/ \E e \in endpoints : /\ e.path = Key(marked, command[i])
                                                /\ daemon'[e.daemon].at = "serving"
      BY <1>3, <2>1 DEF PollInv
    <3>1. i # d
      BY <1>1, <1>6, <1>9
    <3> QED
      BY <1>5, <2>4, <3>1 DEF PollInv
  <2>10. ConnectedInv'
    BY <1>3, <2>4 DEF ConnectedInv
  <2> QED
    BY <1>8, <2>5, <2>6, <2>7, <2>8, <2>9, <2>10
<1>10. CASE root # Absolute(Missing)
  <2>1. PICK new : new = [path |-> daemon[d].file, daemon |-> d]
    OBVIOUS
  <2>2. /\ daemon' = [daemon EXCEPT ![d].at = "serving", ![d].root = root]
        /\ endpoints' = {e \in endpoints : e.path # daemon[d].file} \cup {new}
    BY <1>7, <1>10, <2>1 DEF DaemonStarts
  <2>3. root \in RootType
    <3>1. k.root \in StartType /\ Home(k) \in Seq(Names)
      BY <1>3, RootsAreStarts DEF CommandType, DaemonType
    <3>2. FindIn(marked, k.root, Home(k)) \in RootType \cup {Absolute(Missing)}
      BY <1>3, <3>1, RealFound, FindType
    <3> QED
      BY <1>2, <1>10, <3>2
  <2>4. PICK f : f = [daemon[d] EXCEPT !.at = "serving", !.root = root]
    OBVIOUS
  <2>5. /\ f \in DaemonType /\ f.at = "serving" /\ f.file = daemon[d].file /\ f.cwd = daemon[d].cwd
        /\ f.root = root /\ daemon' = [daemon EXCEPT ![d] = f]
    BY <1>3, <2>2, <2>3, <2>4 DEF DaemonType
  <2>6. /\ daemon' \in [Commands -> DaemonType] /\ daemon'[d] = f
        /\ \A i \in Commands \ {d} : daemon'[i] = daemon[i]
    BY <2>5 DEF TypeInv
  <2>7. new \in EndpointType /\ new.path = f.file /\ new.daemon = d
    BY <1>3, <2>1, <2>5 DEF EndpointType, DaemonType
  <2>8. \A e \in endpoints' : e = new \/ (e \in endpoints /\ e.path # f.file)
    BY <2>2, <2>5
  <2>9. new \in endpoints' /\ \A e \in endpoints : e.path # f.file => e \in endpoints'
    BY <2>2, <2>5
  <2>10. TypeInv'
    BY <1>3, <2>6, <2>7, <2>8 DEF TypeInv
  <2>11. DaemonInv'
    <3> SUFFICES ASSUME NEW i \in Commands, daemon'[i].at # "none"
                 PROVE  DaemonOf(marked, later, command[i], daemon'[i])
      BY <1>3 DEF DaemonInv
    <3>1. CASE i = d
      BY <1>1, <1>2, <1>3, <2>5, <2>6, <3>1 DEF DaemonInv, DaemonOf
    <3>2. CASE i # d
      BY <2>6, <3>2 DEF DaemonInv
    <3> QED
      BY <3>1, <3>2
  <2>12. EndpointInv'
    <3>1. \A e \in endpoints' : /\ e.path = daemon'[e.daemon].file
                                /\ daemon'[e.daemon].at \in {"serving", "ended"}
      BY <1>5, <2>5, <2>6, <2>7, <2>8 DEF EndpointInv
    <3>2. \A e, g \in endpoints' : e.path = g.path => e = g
      BY <2>7, <2>8 DEF EndpointInv
    <3> QED
      BY <3>1, <3>2 DEF EndpointInv
  <2>13. ServingInv'
    <3> SUFFICES ASSUME AllMeanTheSame
                 PROVE  /\ \A e \in endpoints' : daemon'[e.daemon].at = "serving"
                        /\ \A i \in Commands : daemon'[i].at = "serving" =>
                              \E e \in endpoints' : e.daemon = i
                        /\ \A i \in Commands : daemon'[i].at = "starting" =>
                              /\ command[i].at = "polling"
                              /\ \A e \in endpoints' : e.path # daemon'[i].file
      BY <1>3, <1>8 DEF ServingInv
    <3>1. \A e \in endpoints' : daemon'[e.daemon].at = "serving"
      BY <1>5, <2>5, <2>6, <2>7, <2>8 DEF ServingInv
    <3>2. command[d].at = "polling" /\ \A e \in endpoints : e.path # f.file
      BY <1>3, <2>5 DEF ServingInv
    <3>3. ASSUME NEW i \in Commands, daemon'[i].at = "serving"
          PROVE  \E e \in endpoints' : e.daemon = i
      <4>1. CASE i = d
        BY <2>7, <2>9, <4>1
      <4>2. CASE i # d
        <5>1. \E e \in endpoints : e.daemon = i
          BY <2>6, <3>3, <4>2 DEF ServingInv
        <5> QED
          BY <2>9, <3>2, <5>1
      <4> QED
        BY <4>1, <4>2
    <3>4. ASSUME NEW i \in Commands, daemon'[i].at = "starting" PROVE FALSE
      <4>1. i # d /\ daemon[i].at = "starting"
        BY <2>5, <2>6, <3>4
      <4>2. command[i].at = "polling"
        BY <4>1 DEF ServingInv
      <4> QED
        BY <3>2, <4>1, <4>2 DEF OneInv, InProgress
    <3> QED
      BY <3>1, <3>3, <3>4
  <2>14. PollInv'
    <3> SUFFICES ASSUME NEW i \in Commands, command[i].at = "polling", ~Shifted(command[i]),
                        ~OvertakenBy(later, command[i])
                 PROVE  \/ daemon'[i].at = "starting"
                        \/ \E e \in endpoints' : /\ e.path = Key(marked, command[i])
                                                 /\ daemon'[e.daemon].at = "serving"
      BY <1>3 DEF PollInv
    <3>1. new.path = daemon[d].file /\ daemon'[new.daemon].at = "serving"
      BY <2>5, <2>6, <2>7
    <3>2. CASE i = d
      <4>1. daemon[d].file = Key(marked, command[d])
        BY <1>3, <3>2 DEF DaemonInv, DaemonOf
      <4> QED
        BY <2>9, <3>1, <3>2, <4>1
    <3>3. CASE i # d /\ daemon[i].at = "starting"
      BY <2>6, <3>3
    <3>4. ASSUME NEW e \in endpoints, e.path = Key(marked, command[i]),
                 daemon[e.daemon].at = "serving"
          PROVE  \E g \in endpoints' : /\ g.path = Key(marked, command[i])
                                       /\ daemon'[g.daemon].at = "serving"
      <4>1. CASE e.path = f.file
        BY <2>5, <2>9, <3>1, <3>4, <4>1
      <4>2. CASE e.path # f.file
        BY <1>5, <2>6, <2>9, <3>4, <4>2
      <4> QED
        BY <4>1, <4>2
    <3> QED
      BY <3>2, <3>3, <3>4 DEF PollInv
  <2>15. ConnectedInv'
    BY <1>3, <2>6 DEF ConnectedInv
  <2> QED
    BY <1>8, <2>10, <2>11, <2>12, <2>13, <2>14, <2>15
<1> QED
  BY <1>9, <1>10

LEMMA DaemonStopsInv ==
    ASSUME IInv, NEW d \in Commands, DaemonStops(d)
    PROVE  IInv'
<1> USE DEF IInv
<1>1. PICK k : k = command[d]
  OBVIOUS
<1>2. PICK removed : removed = EndpointPath(daemon[d].root, daemon[d].cwd)
  OBVIOUS
<1>3. /\ daemon[d].at = "serving" /\ InProgress = {} /\ marked \subseteq Dirs
      /\ UNCHANGED <<marked, later, command>> /\ daemon[d] \in DaemonType
      /\ daemon' = [daemon EXCEPT ![d].at = "ended"]
      /\ endpoints' = {e \in endpoints : e.path # removed}
  BY <1>2 DEF DaemonStops, TypeInv
<1>4. PICK f : f = [daemon[d] EXCEPT !.at = "ended"]
  OBVIOUS
<1>5. /\ f \in DaemonType /\ f.at = "ended" /\ f.file = daemon[d].file /\ f.cwd = daemon[d].cwd
      /\ f.root = daemon[d].root /\ daemon' = [daemon EXCEPT ![d] = f]
  BY <1>3, <1>4 DEF DaemonType
<1>6. /\ daemon' \in [Commands -> DaemonType] /\ daemon'[d] = f
      /\ \A i \in Commands \ {d} : daemon'[i] = daemon[i]
  BY <1>5 DEF TypeInv
<1>7. CommandInv' /\ OneInv' /\ FailInv' /\ (AllMeanTheSame' <=> AllMeanTheSame)
  BY <1>3 DEF CommandInv, OneInv, InProgress, FailInv, AllMeanTheSame
<1>8. TypeInv'
  BY <1>3, <1>6 DEF TypeInv
<1>9. DaemonInv'
  <2> SUFFICES ASSUME NEW i \in Commands, daemon'[i].at # "none"
               PROVE  DaemonOf(marked, later, command[i], daemon'[i])
    BY <1>3 DEF DaemonInv
  <2>1. CASE i = d
    BY <1>3, <1>5, <1>6, <2>1 DEF DaemonInv, DaemonOf
  <2>2. CASE i # d
    BY <1>6, <2>2 DEF DaemonInv
  <2> QED
    BY <2>1, <2>2
<1>10. EndpointInv'
  BY <1>3, <1>5, <1>6 DEF EndpointInv
<1>11. \A i \in Commands : command[i].at # "polling"
  BY <1>3 DEF InProgress
<1>12. ServingInv'
  <2> SUFFICES ASSUME AllMeanTheSame
               PROVE  /\ \A e \in endpoints' : daemon'[e.daemon].at = "serving"
                      /\ \A i \in Commands : daemon'[i].at = "serving" =>
                            \E e \in endpoints' : e.daemon = i
                      /\ \A i \in Commands : daemon'[i].at # "starting"
    BY <1>3, <1>7 DEF ServingInv
  <2>1. removed = daemon[d].file
    <3>1. /\ k.at # "none" /\ Resolvable(k) /\ ~Shifted(k) /\ ~OvertakenBy(later, k)
          /\ daemon[d].cwd = Home(k) /\ daemon[d].file = Key(marked, k)
          /\ daemon[d].root = FindIn(marked, k.root, Home(k))
          /\ k.root = FindIn(marked, k.start, k.cwd)
      BY <1>1, <1>3 DEF AllMeanTheSame, DaemonInv, DaemonOf, CommandInv
    <3>2. KeyIn(marked, daemon[d].root, Home(k)) = Key(marked, k)
      BY <1>3, <3>1, Served
    <3> QED
      BY <1>2, <3>1, <3>2, Operators
  <2>2. ASSUME NEW e \in endpoints' PROVE daemon'[e.daemon].at = "serving"
    <3>1. e \in endpoints /\ e.path # daemon[d].file /\ e.daemon \in Commands
      BY <1>3, <2>1 DEF TypeInv, EndpointType
    <3>2. e.daemon # d
      BY <3>1 DEF EndpointInv
    <3> QED
      BY <1>6, <3>1, <3>2 DEF ServingInv
  <2>3. ASSUME NEW i \in Commands, daemon'[i].at = "serving"
        PROVE  \E e \in endpoints' : e.daemon = i
    <3>1. i # d /\ daemon[i].at = "serving"
      BY <1>5, <1>6, <2>3
    <3>2. PICK e \in endpoints : e.daemon = i
      BY <3>1 DEF ServingInv
    <3>3. PICK g \in endpoints : g.daemon = d
      BY <1>3 DEF ServingInv
    <3>4. e.path # removed
      BY <2>1, <3>1, <3>2, <3>3 DEF EndpointInv
    <3> QED
      BY <1>3, <3>2, <3>4
  <2>4. \A i \in Commands : daemon'[i].at # "starting"
    BY <1>5, <1>6, <1>11 DEF ServingInv
  <2> QED
    BY <2>2, <2>3, <2>4
<1>13. PollInv'
  BY <1>3, <1>11 DEF PollInv
<1>14. ConnectedInv'
  BY <1>3, <1>5, <1>6 DEF ConnectedInv
<1> QED
  BY <1>7, <1>8, <1>9, <1>10, <1>12, <1>13, <1>14

LEMMA MarksInv ==
    ASSUME IInv, NEW dir \in Dirs, Marks(dir)
    PROVE  IInv'
<1> USE DEF IInv
<1>1. /\ later = {} /\ marked' = marked \cup {dir} /\ later' = {dir}
      /\ UNCHANGED <<command, daemon, endpoints>> /\ marked \subseteq Dirs
      /\ marked' \subseteq Dirs
  BY DEF Marks, TypeInv
<1>2. \A k : ~OvertakenBy(later, k)
  BY <1>1 DEF OvertakenBy
<1>3. ASSUME NEW c \in Commands, command[c].at # "none", ~OvertakenBy(later', command[c]),
             command[c].root # Absolute(Missing)
      PROVE  LET k == command[c]
             IN  /\ Resolvable(k) /\ k.root \in RootType
                 /\ k.root = FindIn(marked, k.start, k.cwd)
                 /\ k.root = FindIn(marked', k.start, k.cwd)
                 /\ FindIn(marked', k.root, k.cwd) = FindIn(marked, k.root, k.cwd)
                 /\ Key(marked', k) = Key(marked, k)
  <2>1. PICK k \in CommandType : k = command[c]
    BY DEF TypeInv
  <2>2. Resolvable(k) /\ k.root = FindIn(marked, k.start, k.cwd)
    BY <1>2, <1>3, <2>1 DEF CommandInv
  <2>3. PICK M : M = marked
    OBVIOUS
  <2>4. PICK M2 : M2 = marked'
    OBVIOUS
  <2>5. /\ M \subseteq Dirs /\ {dir} \subseteq Dirs /\ M \subseteq M2 /\ M2 \subseteq M \cup {dir}
        /\ ~OvertakenBy({dir}, k) /\ k.root = FindIn(M, k.start, k.cwd)
    BY <1>1, <1>3, <2>1, <2>2, <2>3, <2>4
  <2>6. /\ FindIn(M2, k.start, k.cwd) = FindIn(M, k.start, k.cwd)
        /\ FindIn(M2, k.root, k.cwd) = FindIn(M, k.root, k.cwd)
    BY <2>2, <2>5, Stable
  <2>7. Key(M2, k) = Key(M, k)
    BY <2>6 DEF Key, KeyIn
  <2>8. k.root \in RootType
    BY <1>3, <2>1 DEF CommandType
  <2> QED
    BY <2>1, <2>2, <2>3, <2>4, <2>6, <2>7, <2>8
<1>4. TypeInv'
  BY <1>1 DEF TypeInv
<1>5. OneInv'
  BY <1>1 DEF OneInv, InProgress
<1>6. CommandInv'
  BY <1>1, <1>3 DEF CommandInv, Resolvable
<1>7. DaemonInv'
  <2> SUFFICES ASSUME NEW c \in Commands, daemon[c].at # "none"
               PROVE  DaemonOf(marked', later', command[c], daemon[c])
    BY <1>1 DEF DaemonInv
  <2>1. PICK k : k = command[c]
    OBVIOUS
  <2>2. DaemonOf(marked, later, k, daemon[c]) /\ k.at # "none" /\ k.root # Absolute(Missing)
    BY <2>1 DEF DaemonInv, DaemonOf
  <2>3. CASE OvertakenBy(later', k)
    BY <2>1, <2>2, <2>3 DEF DaemonOf
  <2>4. CASE ~OvertakenBy(later', k)
    <3>1. /\ Resolvable(k) /\ k.root \in RootType /\ Key(marked', k) = Key(marked, k)
          /\ FindIn(marked', k.root, k.cwd) = FindIn(marked, k.root, k.cwd)
      BY <1>3, <2>1, <2>2, <2>4
    <3>2. ~Shifted(k) => FindIn(marked', k.root, Home(k)) = FindIn(marked, k.root, Home(k))
      BY <3>1, HomeFacts
    <3> QED
      BY <1>2, <2>1, <2>2, <3>1, <3>2 DEF DaemonOf
  <2> QED
    BY <2>3, <2>4
<1>8. EndpointInv'
  BY <1>1 DEF EndpointInv
<1>9. ServingInv'
  <2>1. AllMeanTheSame' => AllMeanTheSame
    BY <1>1, <1>2 DEF AllMeanTheSame
  <2> QED
    BY <1>1, <2>1 DEF ServingInv
<1>10. \A c \in Commands : command[c].at \notin {"none", "failed"} =>
          command[c].root # Absolute(Missing)
  BY DEF CommandInv, Resolvable
<1>11. PollInv'
  BY <1>1, <1>2, <1>3, <1>10 DEF PollInv
<1>12. FailInv'
  <2>1. \A k : ~OvertakenBy(later', k) => MarksOn(marked', Path(k)) = MarksOn(marked, Path(k))
    BY <1>1 DEF OvertakenBy, MarksOn
  <2> QED
    BY <1>1, <1>2, <2>1 DEF FailInv
<1>13. ConnectedInv'
  BY <1>1, <1>2, <1>3, <1>10 DEF ConnectedInv
<1> QED
  BY <1>4, <1>5, <1>6, <1>7, <1>8, <1>9, <1>11, <1>12, <1>13

LEMMA NextInv == IInv /\ [Next]_vars => IInv'
<1> SUFFICES ASSUME IInv, [Next]_vars PROVE IInv'
  OBVIOUS
<1>1. CASE UNCHANGED vars
  <2>1. UNCHANGED <<marked, later, command, daemon, endpoints>>
    BY <1>1 DEF vars
  <2>2. TypeInv' /\ OneInv' /\ CommandInv' /\ DaemonInv' /\ EndpointInv'
    BY <2>1 DEF IInv, TypeInv, OneInv, InProgress, CommandInv, DaemonInv, EndpointInv
  <2>3. ServingInv' /\ PollInv' /\ FailInv' /\ ConnectedInv'
    BY <2>1 DEF IInv, ServingInv, AllMeanTheSame, PollInv, FailInv, ConnectedInv
  <2> QED
    BY <2>2, <2>3 DEF IInv
<1>2. ASSUME NEW c \in Commands, NEW cwd \in Places, NEW start \in Roots \cup {Absolute(cwd)},
             Resolves(c, cwd, start)
      PROVE  IInv'
  BY <1>2, ResolvesInv
<1>3. ASSUME NEW c \in Commands, Connects(c) \/ Spawns(c) \/ Fails(c) PROVE IInv'
  BY <1>3, ConnectsInv, SpawnsInv, FailsInv
<1>4. ASSUME NEW d \in Commands, DaemonStarts(d) \/ DaemonStops(d) PROVE IInv'
  BY <1>4, DaemonStartsInv, DaemonStopsInv
<1>5. ASSUME NEW dir \in Dirs, Marks(dir) PROVE IInv'
  BY <1>5, MarksInv
<1> QED
  BY <1>1, <1>2, <1>3, <1>4, <1>5 DEF Next

\* What connectApp, EnsureDaemon, Serve and daemonCommand keep true of roots, daemons
\* and endpoint files, whatever marker appears between two of them.
THEOREM Invariant == Spec => []IInv
<1>1. Init => IInv
  BY InitInv
<1> QED
  BY <1>1, NextInv, PTL DEF Spec

-----------------------------------------------------------------------------
(* The properties *)

LEMMA ServingKey ==
    ASSUME IInv, NEW d \in Commands, daemon[d].at \in {"serving", "ended"},
           ~Overtaken(command[d]), ~ThroughLink(command[d])
    PROVE  LET k == command[d]
           IN  /\ daemon[d].file = Key(marked, k) /\ daemon[d].file = Words(Project(Subject(k)))
               /\ Project(Subject(k)) \in Dirs
               /\ \E j \in 0..Len(Target(k)) : Project(Subject(k)) = Prefix(Target(k), j)
               /\ ~Shifted(k) => Meant(daemon[d].root, daemon[d].cwd) = Project(Subject(k))
<1>1. PICK k : k = command[d]
  OBVIOUS
<1>2. ~OvertakenBy(later, k) /\ ~ThroughIn(marked, k) /\ marked \subseteq Dirs
  BY <1>1, Operators DEF IInv, TypeInv
<1>3. /\ k.at # "none" /\ k.root # Absolute(Missing)
      /\ Meant(k.root, k.cwd) \in Dirs /\ daemon[d].cwd = Home(k)
      /\ daemon[d].file = Key(marked, k)
      /\ ~Shifted(k) => daemon[d].root = FindIn(marked, k.root, Home(k))
  BY <1>1, <1>2 DEF IInv, DaemonInv, DaemonOf
<1>4. Resolvable(k) /\ k.root = FindIn(marked, k.start, k.cwd)
  BY <1>1, <1>2, <1>3 DEF IInv, CommandInv
<1>5. PICK P \in Dirs \cup Files :
         /\ Key(marked, k) = Words(P)
         /\ P \in Dirs => P = ProjectIn(marked, Subject(k))
         /\ Meant(k.root, k.cwd) \in Dirs => P \in Dirs
         /\ \E j \in 0..Len(Target(k)) : P = Prefix(Target(k), j)
  BY <1>2, <1>4, KeyOfProject
<1>6. P = Project(Subject(k)) /\ P \in Dirs
  BY <1>3, <1>5, Operators
<1>7. ~Shifted(k) => Meant(daemon[d].root, daemon[d].cwd) = ProjectIn(marked, Subject(k))
  BY <1>2, <1>3, <1>4, WorksInProject
<1> QED
  BY <1>1, <1>3, <1>5, <1>6, <1>7, Operators

LEMMA ProjectFound ==
    ASSUME IInv
    PROVE  FindsItsProject
<1> SUFFICES ASSUME NEW c \in Commands, command[c].at = "connected",
                    ~Shifted(command[command[c].daemon]),
                    \A k \in {command[c], command[command[c].daemon]} :
                       ~ThroughLink(k) /\ ~Overtaken(k) /\ ~HasUnderscore(Target(k))
             PROVE  Meant(daemon[command[c].daemon].root, daemon[command[c].daemon].cwd)
                       = Project(Subject(command[c]))
  BY DEF FindsItsProject
<1>1. PICK k : k = command[c]
  OBVIOUS
<1>2. PICK d \in Commands : /\ d = k.daemon /\ daemon[d].at \in {"serving", "ended"}
                            /\ ~OvertakenBy(later, k) => daemon[d].file = Key(marked, k)
  BY <1>1 DEF IInv, ConnectedInv
<1>3. PICK l : l = command[d]
  OBVIOUS
<1>4. /\ ~ThroughLink(k) /\ ~Overtaken(k) /\ ~HasUnderscore(Target(k))
      /\ ~ThroughLink(l) /\ ~Overtaken(l) /\ ~HasUnderscore(Target(l)) /\ ~Shifted(l)
  BY <1>1, <1>2, <1>3
<1>5. ~OvertakenBy(later, k) /\ ~ThroughIn(marked, k) /\ marked \subseteq Dirs
  BY <1>4, Operators DEF IInv, TypeInv
<1>6. Resolvable(k) /\ k.root = FindIn(marked, k.start, k.cwd)
  BY <1>1, <1>5 DEF IInv, CommandInv
<1>7. PICK P \in Dirs \cup Files :
         /\ Key(marked, k) = Words(P)
         /\ P \in Dirs => P = ProjectIn(marked, Subject(k))
         /\ \E j \in 0..Len(Target(k)) : P = Prefix(Target(k), j)
  BY <1>5, <1>6, KeyOfProject
<1>8. PICK Q \in Dirs :
         /\ Q = Project(Subject(l)) /\ daemon[d].file = Words(Q)
         /\ \E j \in 0..Len(Target(l)) : Q = Prefix(Target(l), j)
         /\ Meant(daemon[d].root, daemon[d].cwd) = Q
  BY <1>2, <1>3, <1>4, ServingKey
<1>9. Words(P) = Words(Q)
  BY <1>2, <1>5, <1>7, <1>8
<1>10. ~HasUnderscore(P) /\ ~HasUnderscore(Q)
  <2>1. Resolvable(l)
    BY <1>2, <1>3 DEF IInv, DaemonInv, DaemonOf, CommandInv
  <2>2. Target(k) \in Seq(Names) /\ Target(l) \in Seq(Names)
    BY <1>6, <2>1, StartFacts, NamesFacts DEF Resolvable
  <2> QED
    BY <1>4, <1>7, <1>8, <2>2, PlainPrefix
<1>11. P = Q
  BY <1>9, <1>10, NamesFacts, WordsInjective
<1> QED
  BY <1>1, <1>2, <1>7, <1>8, <1>11, Operators

LEMMA OneDaemon ==
    ASSUME IInv
    PROVE  OneDaemonPerProject
<1> SUFFICES ASSUME NEW c \in Commands, NEW d \in Commands, c # d,
                    daemon[c].at = "serving", daemon[d].at = "serving",
                    Project(Subject(command[c])) = Project(Subject(command[d])),
                    \A e \in Commands : /\ ~ThroughLink(command[e]) /\ ~Shifted(command[e])
                                        /\ ~Overtaken(command[e])
             PROVE  FALSE
  BY DEF OneDaemonPerProject
<1>1. daemon[c].file = daemon[d].file
  BY ServingKey
<1>2. AllMeanTheSame
  BY Operators DEF AllMeanTheSame
<1>3. PICK e \in endpoints : e.daemon = c
  BY <1>2 DEF IInv, ServingInv
<1>4. PICK f \in endpoints : f.daemon = d
  BY <1>2 DEF IInv, ServingInv
<1>5. e = f
  BY <1>1, <1>3, <1>4 DEF IInv, EndpointInv
<1> QED
  BY <1>3, <1>4, <1>5

LEMMA EndpointThere ==
    ASSUME IInv
    PROVE  EndpointWhileServing
<1> SUFFICES ASSUME NEW d \in Commands,
                    \A e \in Commands : ~Shifted(command[e]) /\ ~Overtaken(command[e])
             PROVE  daemon[d].at = "serving" <=> \E e \in endpoints : e.daemon = d
  BY DEF EndpointWhileServing
<1>1. AllMeanTheSame
  BY Operators DEF AllMeanTheSame
<1> QED
  BY <1>1 DEF IInv, ServingInv

\* A command talks to a daemon that works in its project, unless a link, "/" and "_"
\* or a new marker has misled one of the two: the roots that connectApp, EnsureDaemon
\* and daemonCommand resolve one after the other are the same.
THEOREM CommandFindsItsProject == Spec => []FindsItsProject
BY Invariant, ProjectFound, PTL

\* Two daemons that serve are about two projects, as long as the roots of all commands
\* mean the same to everybody.
THEOREM ProjectHasOneDaemon == Spec => []OneDaemonPerProject
BY Invariant, OneDaemon, PTL

\* Remove, in Serve, deletes the file that Write has written, and nobody else's.
THEOREM EndpointIsThere == Spec => []EndpointWhileServing
BY Invariant, EndpointThere, PTL

\* connectApp and EnsureDaemon fail only where FindProjectRoot finds no marker, for a path
\* that does not exist, is a file, or is relative.
THEOREM FailureHasReason == Spec => []FailsWithReason
<1>1. IInv => FailsWithReason
  BY Operators DEF IInv, FailInv, FailsWithReason
<1> QED
  BY <1>1, Invariant, PTL

=============================================================================
