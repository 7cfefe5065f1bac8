------------------------ MODULE BrokerObjects_proofs ------------------------
(***************************************************************************)
(* Proofs about BrokerObjects, for any number of callers and any objects,  *)
(* whatever blocks they share.                                             *)
(***************************************************************************)
EXTENDS BrokerObjects, TLAPS

Elems(s) == {s[i] : i \in 1..Len(s)}
Below(b) == Elems(Children[b])

\* r is the last element of s, and no other one.
OnlyLast(s, r) == /\ Len(s) >= 1 /\ s[Len(s)] = r
                  /\ \A i \in 1..(Len(s) - 1) : s[i] # r

\* What load_tree is at: the object, or the list of its dependencies.
Target(c) == IF c.phase = "list" THEN DepListRef[c.of] ELSE c.of

\* load_tree has found what it has found, and will find the rest of object o: unless
\* a block was missing.  The root came first, and is the last of `found'.
LoadOK(c, o) ==
  /\ Elems(c.found) \cup Elems(c.queue) \subseteq Parts(o)
  /\ ~ c.missing =>
       /\ Root(o) \in Elems(c.found) \cup Elems(c.queue)
       /\ \A b \in Elems(c.found) : Below(b) \subseteq Elems(c.found) \cup Elems(c.queue)
       /\ \/ c.found = << >> /\ c.queue = <<Root(o)>>
          \/ OnlyLast(c.found, Root(o)) /\ Root(o) \notin Elems(c.queue)

\* What get_object streams.
StreamOK(c) == Elems(c.todo) = Parts(c.of) /\ OnlyLast(c.todo, Root(c.of))

\* put_object has the end of the blocks before it, and has put the others.
PutOK(c, kept) ==
  LET all == BlocksOf[c.of]
      done == Len(all) - Len(c.todo)
  IN /\ done \in 0..Len(all)
     /\ \A j \in 1..Len(c.todo) : c.todo[j] = all[done + j]
     /\ \A j \in 1..done : all[j] \in kept
     /\ c.deduplicated \subseteq kept

CallOK(c, kept) ==
  /\ c.op = "put" => c.phase = "work" /\ PutOK(c, kept)
  /\ c.phase = "list" => c.of \in DOMAIN DepListRef /\ StreamOK(c)
  /\ c.phase \in {"load", "list"} => LoadOK(c, Target(c))
  /\ c.phase = "work" => Elems(c.todo) \subseteq Parts(c.of)
  /\ c.phase = "work" /\ c.op = "get" => StreamOK(c)

\* What was put stays, unless it is deleted.
Kept == store \cup removed

CallsOK ==
  \A t \in Tasks : call[t] # NoCall => CallOK(call[t], Kept) /\ got[t] = NoCall

\* A block's children are stored before it.
ChildrenKept == \A b \in store : Below(b) \subseteq Kept

Inv == TypeOK /\ CallsOK /\ ChildrenKept /\ GetFaithful /\ DeleteEffective

-----------------------------------------------------------------------------
(***************************************************************************)
(* The elements of sequences.                                              *)
(***************************************************************************)

LEMMA TailFacts ==
  ASSUME NEW S, NEW s \in Seq(S), s # << >>
  PROVE  /\ Head(s) \in S /\ Head(s) = s[1] /\ Head(s) \in Elems(s)
         /\ Tail(s) \in Seq(S) /\ Len(s) \in Nat \ {0} /\ Len(Tail(s)) = Len(s) - 1
         /\ \A j \in 1..(Len(s) - 1) : Tail(s)[j] = s[j + 1]
BY DEF Elems

LEMMA ElemsTail ==
  ASSUME NEW S, NEW s \in Seq(S), s # << >>
  PROVE  Elems(s) = {Head(s)} \cup Elems(Tail(s))
<1>1. /\ Head(s) = s[1] /\ Len(s) \in Nat \ {0} /\ Len(Tail(s)) = Len(s) - 1
      /\ \A j \in 1..(Len(s) - 1) : Tail(s)[j] = s[j + 1]
  BY TailFacts
<1>2. ASSUME NEW i \in 1..Len(s) PROVE s[i] \in {Head(s)} \cup Elems(Tail(s))
  <2>1. CASE i = 1
    BY <1>1, <2>1
  <2>2. CASE i # 1
    <3>1. i - 1 \in 1..Len(Tail(s)) /\ Tail(s)[i - 1] = s[i]
      BY <1>1, <2>2
    <3> QED BY <3>1 DEF Elems
  <2> QED BY <2>1, <2>2
<1>3. ASSUME NEW j \in 1..Len(Tail(s)) PROVE Tail(s)[j] \in Elems(s)
  <2>1. j + 1 \in 1..Len(s) /\ Tail(s)[j] = s[j + 1]
    BY <1>1
  <2> QED BY <2>1 DEF Elems
<1>4. Head(s) \in Elems(s)
  BY <1>1 DEF Elems
<1> QED BY <1>2, <1>3, <1>4 DEF Elems

LEMMA ElemsConcat ==
  ASSUME NEW S, NEW s \in Seq(S), NEW r \in Seq(S)
  PROVE  s \o r \in Seq(S) /\ Elems(s \o r) = Elems(s) \cup Elems(r)
<1>1. /\ s \o r \in Seq(S) /\ Len(s) \in Nat /\ Len(r) \in Nat
      /\ Len(s \o r) = Len(s) + Len(r)
      /\ \A i \in 1..Len(s) : (s \o r)[i] = s[i]
      /\ \A i \in 1..Len(r) : (s \o r)[Len(s) + i] = r[i]
  OBVIOUS
<1>2. PICK q \in Seq(S) : q = s \o r
  BY <1>1
<1>3. ASSUME NEW i \in 1..Len(q) PROVE q[i] \in Elems(s) \cup Elems(r)
  <2>1. CASE i <= Len(s)
    BY <1>1, <1>2, <2>1 DEF Elems
  <2>2. CASE ~ (i <= Len(s))
    <3>1. i - Len(s) \in 1..Len(r) /\ q[i] = r[i - Len(s)]
      BY <1>1, <1>2, <2>2
    <3> QED BY <3>1 DEF Elems
  <2> QED BY <2>1, <2>2
<1>4. \A i \in 1..Len(s) : s[i] \in Elems(q)
  BY <1>1, <1>2 DEF Elems
<1>5. ASSUME NEW i \in 1..Len(r) PROVE r[i] \in Elems(q)
  <2>1. Len(s) + i \in 1..Len(q) /\ q[Len(s) + i] = r[i]
    BY <1>1, <1>2
  <2> QED BY <2>1 DEF Elems
<1>6. Elems(q) \subseteq Elems(s) \cup Elems(r)
  <2> SUFFICES ASSUME NEW e \in Elems(q) PROVE e \in Elems(s) \cup Elems(r)
    OBVIOUS
  <2>1. PICK i \in 1..Len(q) : e = q[i]
    BY DEF Elems
  <2> QED BY <1>3, <2>1
<1>7. Elems(s) \subseteq Elems(q) /\ Elems(r) \subseteq Elems(q)
  <2>1. ASSUME NEW e \in Elems(s) PROVE e \in Elems(q)
    BY <1>4 DEF Elems
  <2>2. ASSUME NEW e \in Elems(r) PROVE e \in Elems(q)
    <3>1. PICK i \in 1..Len(r) : e = r[i]
      BY DEF Elems
    <3> QED BY <1>5, <3>1
  <2> QED BY <2>1, <2>2
<1> QED BY <1>2, <1>6, <1>7

LEMMA ElemsReverse ==
  ASSUME NEW S, NEW s \in Seq(S)
  PROVE  Reverse(s) \in Seq(S) /\ Elems(Reverse(s)) = Elems(s)
<1>1. Len(s) \in Nat
  OBVIOUS
<1>2. /\ Reverse(s) \in Seq(S) /\ Len(Reverse(s)) = Len(s)
      /\ \A i \in 1..Len(s) : Reverse(s)[i] = s[(Len(s) - i) + 1]
  BY <1>1 DEF Reverse
<1>3. ASSUME NEW i \in 1..Len(s)
      PROVE  /\ (Len(s) - i) + 1 \in 1..Len(s)
             /\ Reverse(s)[i] = s[(Len(s) - i) + 1]
             /\ s[i] = Reverse(s)[(Len(s) - i) + 1]
  BY <1>1, <1>2
<1>4. PICK q \in Seq(S) : q = Reverse(s) /\ Len(q) = Len(s)
  BY <1>2
<1>5. ASSUME NEW e \in Elems(q) PROVE e \in Elems(s)
  <2>1. PICK i \in 1..Len(s) : e = q[i]
    BY <1>4 DEF Elems
  <2>2. (Len(s) - i) + 1 \in 1..Len(s) /\ e = s[(Len(s) - i) + 1]
    BY <1>3, <1>4, <2>1
  <2> QED BY <2>2 DEF Elems
<1>6. ASSUME NEW e \in Elems(s) PROVE e \in Elems(q)
  <2>1. PICK i \in 1..Len(s) : e = s[i]
    BY DEF Elems
  <2>2. (Len(s) - i) + 1 \in 1..Len(q) /\ e = q[(Len(s) - i) + 1]
    BY <1>3, <1>4, <2>1
  <2> QED BY <2>2 DEF Elems
<1> QED BY <1>4, <1>5, <1>6

LEMMA ConsFacts ==
  ASSUME NEW S, NEW b \in S, NEW s \in Seq(S)
  PROVE  /\ <<b>> \o s \in Seq(S) /\ Elems(<<b>> \o s) = {b} \cup Elems(s)
         /\ \A r : OnlyLast(s, r) /\ b # r => OnlyLast(<<b>> \o s, r)
         /\ s = << >> => OnlyLast(<<b>> \o s, b)
<1>1. <<b>> \in Seq(S) /\ Elems(<<b>>) = {b}
  BY DEF Elems
<1>2. PICK q \in Seq(S) : q = <<b>> \o s
  BY <1>1, ElemsConcat
<1>3. Len(s) \in Nat /\ Len(q) = Len(s) + 1 /\ q[1] = b
      /\ \A i \in 1..Len(s) : q[i + 1] = s[i]
  BY <1>2
<1>4. ASSUME NEW r, OnlyLast(s, r), b # r PROVE OnlyLast(q, r)
  <2>1. Len(q) >= 1 /\ q[Len(q)] = r
    BY <1>3, <1>4 DEF OnlyLast
  <2>2. ASSUME NEW i \in 1..(Len(q) - 1) PROVE q[i] # r
    <3>1. CASE i = 1
      BY <1>3, <1>4, <3>1
    <3>2. CASE i # 1
      <4>1. i - 1 \in 1..(Len(s) - 1) /\ q[i] = s[i - 1]
        BY <1>3, <3>2
      <4> QED BY <1>4, <4>1 DEF OnlyLast
    <3> QED BY <3>1, <3>2
  <2> QED BY <2>1, <2>2 DEF OnlyLast
<1>5. s = << >> => OnlyLast(q, b)
  <2> SUFFICES ASSUME s = << >> PROVE OnlyLast(q, b)
    OBVIOUS
  <2>1. Len(q) = 1 /\ q[1] = b
    BY <1>3
  <2> QED BY <2>1 DEF OnlyLast
<1>6. Elems(q) = {b} \cup Elems(s)
  <2>1. PICK p \in Seq(S) : p = <<b>> /\ Elems(p) = {b}
    BY <1>1
  <2>2. Elems(p \o s) = Elems(p) \cup Elems(s)
    BY ElemsConcat
  <2> QED BY <1>2, <2>1, <2>2
<1> QED BY <1>2, <1>4, <1>5, <1>6

-----------------------------------------------------------------------------
(***************************************************************************)
(* Objects and calls.                                                      *)
(***************************************************************************)

LEMMA ChildTypes ==
  ASSUME NEW b \in Blocks
  PROVE  Children[b] \in Seq(Blocks) /\ Below(b) \subseteq Blocks
BY BlocksAssumption DEF Below, Elems

LEMMA ObjectFacts ==
  ASSUME NEW o \in Objects
  PROVE  /\ BlocksOf[o] \in Seq(Blocks) /\ Len(BlocksOf[o]) \in Nat \ {0}
         /\ Parts(o) = Elems(BlocksOf[o]) /\ Parts(o) \subseteq Blocks
         /\ Root(o) \in Parts(o)
<1>1. BlocksOf[o] \in Seq(Blocks) /\ BlocksOf[o] # << >>
  BY BlocksAssumption
<1>2. Len(BlocksOf[o]) \in Nat \ {0}
  BY <1>1
<1> QED BY <1>1, <1>2 DEF Parts, Root, Elems

\* The children of a block of an object come before it.
LEMMA ChildrenBefore ==
  ASSUME NEW o \in Objects, NEW i \in 1..Len(BlocksOf[o]), NEW c \in Below(BlocksOf[o][i])
  PROVE  \E k \in 1..(i - 1) : BlocksOf[o][k] = c
<1> DEFINE b == BlocksOf[o][i]
<1>1. PICK j \in 1..Len(Children[b]) : c = Children[b][j]
  BY DEF Below, Elems
<1>2. \E k \in 1..(i - 1) : BlocksOf[o][k] = Children[b][j]
  BY <1>1, BlocksAssumption
<1> QED BY <1>1, <1>2

LEMMA ChildrenInside ==
  ASSUME NEW o \in Objects, NEW b \in Parts(o)
  PROVE  Below(b) \subseteq Parts(o) /\ Root(o) \notin Below(b)
<1>1. PICK i \in 1..Len(BlocksOf[o]) : b = BlocksOf[o][i]
  BY ObjectFacts DEF Elems
<1>2. ASSUME NEW c \in Below(b) PROVE c \in Parts(o) /\ c # Root(o)
  <2>1. PICK k \in 1..(i - 1) : BlocksOf[o][k] = c
    BY <1>1, <1>2, ChildrenBefore
  <2>2. k \in 1..Len(BlocksOf[o]) /\ k # Len(BlocksOf[o])
    BY ObjectFacts
  <2>3. c = Root(o) => k = Len(BlocksOf[o])
    BY <2>1, <2>2, BlocksAssumption
  <2> QED BY <2>1, <2>2, <2>3, ObjectFacts DEF Elems
<1> QED BY <1>2

\* Blocks of an object that have the root and, with a block, its children, are
\* all of them.
LEMMA ClosedIsWhole ==
  ASSUME NEW o \in Objects, NEW S, S \subseteq Parts(o), Root(o) \in S,
         \A b \in S : Below(b) \subseteq S
  PROVE  S = Parts(o)
<1>1. \A b \in S : \A i \in 1..Len(Children[b]) : Children[b][i] \in S
  BY DEF Below, Elems
<1> QED BY <1>1, BlocksAssumption

LEMMA CallTypes ==
  ASSUME NEW c \in Call
  PROVE  /\ c # NoCall /\ c.op \in Ops /\ c.of \in Objects /\ c.phase \in {"load", "list", "work"}
         /\ c.queue \in Seq(Blocks) /\ c.missing \in BOOLEAN /\ c.found \in Seq(Blocks)
         /\ c.todo \in Seq(Blocks) /\ c.deduplicated \subseteq Blocks
<1>1. c.op \in Ops
  BY DEF Call
<1>2. NoCall.op = "none" /\ "none" \notin Ops
  BY DEF NoCall, Ops
<1> QED BY <1>1, <1>2 DEF Call

\* A call that another task does not touch is as good as before.
LEMMA CallMonotone ==
  ASSUME NEW c \in Call, NEW k1, NEW k2, k1 \subseteq k2, CallOK(c, k1)
  PROVE  CallOK(c, k2)
BY DEF CallOK, PutOK

\* An operation goes on with the next block.
LEMMA AdvanceOK ==
  ASSUME NEW c \in Call, NEW k1, NEW k2, k1 \subseteq k2, CallOK(c, k1),
         c.phase = "work", c.op # "get", c.todo # << >>,
         c.op = "put" => Head(c.todo) \in k2,
         NEW d, d = [c EXCEPT !.todo = Tail(c.todo),
                              !.deduplicated = c.deduplicated \cup {Head(c.todo)}]
  PROVE  d \in Call /\ CallOK(d, k2)
<1>1. /\ c.op \in Ops /\ c.of \in Objects /\ c.phase \in {"load", "list", "work"}
      /\ c.queue \in Seq(Blocks) /\ c.missing \in BOOLEAN /\ c.found \in Seq(Blocks)
      /\ c.todo \in Seq(Blocks) /\ c.deduplicated \subseteq Blocks
  BY CallTypes
<1>2. /\ Head(c.todo) \in Blocks /\ Head(c.todo) = c.todo[1]
      /\ Tail(c.todo) \in Seq(Blocks) /\ Len(c.todo) \in Nat \ {0}
      /\ Len(Tail(c.todo)) = Len(c.todo) - 1
      /\ \A j \in 1..(Len(c.todo) - 1) : Tail(c.todo)[j] = c.todo[j + 1]
      /\ Elems(c.todo) = {Head(c.todo)} \cup Elems(Tail(c.todo))
  BY <1>1, TailFacts, ElemsTail
<1>3. /\ d.op = c.op /\ d.of = c.of /\ d.phase = c.phase /\ d.todo = Tail(c.todo)
      /\ d.deduplicated = c.deduplicated \cup {Head(c.todo)}
      /\ d \in Call
  BY <1>1, <1>2 DEF Call
<1>4. c.op = "put" => PutOK(d, k2)
  <2> SUFFICES ASSUME c.op = "put" PROVE PutOK(d, k2)
    OBVIOUS
  <2> DEFINE all == BlocksOf[c.of]
             n == Len(c.todo)
             done == Len(all) - n
  <2>1. Len(all) \in Nat /\ n \in Nat \ {0}
    BY <1>1, <1>2, ObjectFacts
  <2>2. /\ done \in 0..Len(all)
        /\ \A j \in 1..n : c.todo[j] = all[done + j]
        /\ \A j \in 1..done : all[j] \in k1
        /\ c.deduplicated \subseteq k1
    BY DEF CallOK, PutOK
  <2> HIDE DEF all, n
  <2>3. done \in Nat /\ done + 1 \in 0..Len(all) /\ Len(all) - (n - 1) = done + 1
    BY <2>1, <2>2
  <2>4. Len(d.todo) = n - 1 /\ \A j \in 1..(n - 1) : d.todo[j] = c.todo[j + 1]
    BY <1>2, <1>3 DEF n
  <2> HIDE DEF done
  <2>5. all[done + 1] = Head(c.todo) /\ Head(c.todo) \in k2
    BY <1>2, <2>1, <2>2
  <2>6. ASSUME NEW j \in 1..(n - 1) PROVE d.todo[j] = all[done + 1 + j]
    <3>1. j + 1 \in 1..n /\ done + (j + 1) = done + 1 + j
      BY <2>1, <2>3
    <3> QED BY <2>2, <2>4, <3>1
  <2>7. ASSUME NEW j \in 1..(done + 1) PROVE all[j] \in k2
    <3>1. j \in 1..done \/ j = done + 1
      BY <2>3
    <3> QED BY <2>2, <2>5, <3>1
  <2>8. d.deduplicated \subseteq k2
    BY <1>3, <2>2, <2>5
  <2>9. Len(all) - Len(d.todo) = done + 1
    BY <2>3, <2>4
  <2> QED BY <1>3, <2>3, <2>4, <2>6, <2>7, <2>8, <2>9 DEF PutOK, all
<1> QED BY <1>2, <1>3, <1>4 DEF CallOK

-----------------------------------------------------------------------------
(***************************************************************************)
(* The invariant holds at the beginning and is kept by every step.         *)
(***************************************************************************)

LEMMA InitInv == Init => Inv
<1> SUFFICES ASSUME Init PROVE Inv
  OBVIOUS
<1>1. PICK os \in SUBSET Objects : store = UNION {Parts(o) : o \in os}
  BY DEF Init
<1>2. store \subseteq Blocks
  BY <1>1, ObjectFacts
<1>3. TypeOK
  BY <1>2, BlocksAssumption DEF Init, TypeOK
<1>4. ChildrenKept
  BY <1>1, ChildrenInside DEF ChildrenKept, Kept
<1>5. CallsOK /\ GetFaithful /\ DeleteEffective
  BY DEF Init, CallsOK, GetFaithful, DeleteEffective
<1> QED BY <1>3, <1>4, <1>5 DEF Inv

\* A step of one task leaves the calls of the others as good as they were.
LEMMA StepOK ==
  ASSUME Inv, NEW t \in Tasks, Kept \subseteq Kept',
         \A u \in Tasks \ {t} :
           call'[u] = call[u] /\ result'[u] = result[u] /\ got'[u] = got[u],
         call'[t] # NoCall => CallOK(call'[t], Kept') /\ got'[t] = NoCall,
         got'[t] # NoCall =>
           /\ result'[t] = "ok" <=> ~ got'[t].cut /\ SelfContained(got'[t].of)
           /\ result'[t] = "ok" => got'[t].blocks = Parts(got'[t].of)
  PROVE  CallsOK' /\ GetFaithful'
<1>1. ASSUME NEW u \in Tasks \ {t}, call[u] # NoCall
      PROVE  CallOK(call[u], Kept') /\ got[u] = NoCall
  <2>1. call[u] \in Call /\ CallOK(call[u], Kept) /\ got[u] = NoCall
    BY <1>1 DEF Inv, TypeOK, CallsOK
  <2> QED BY <2>1, CallMonotone
<1>2. CallsOK'
  BY <1>1 DEF CallsOK
<1>3. GetFaithful'
  BY DEF Inv, GetFaithful
<1> QED BY <1>2, <1>3

\* A task that is in the middle of a call.
LEMMA InCall ==
  ASSUME Inv, NEW t \in Tasks, call[t] # NoCall
  PROVE  call[t] \in Call /\ CallOK(call[t], Kept) /\ got[t] = NoCall
BY DEF Inv, TypeOK, CallsOK

\* A call goes on, or ends, and the store is as before.
LEMMA OneCallInv ==
  ASSUME Inv, NEW t \in Tasks, call[t] # NoCall, NEW d \in Call, CallOK(d, Kept),
         call' = [call EXCEPT ![t] = d],
         UNCHANGED <<store, pinned, result, got, calls, removed, gone>>
  PROVE  Inv'
<1>1. TypeOK'
  BY DEF Inv, TypeOK
<1>2. /\ call'[t] = d /\ got'[t] = NoCall /\ Kept' = Kept
      /\ \A u \in Tasks \ {t} :
           call'[u] = call[u] /\ result'[u] = result[u] /\ got'[u] = got[u]
  BY InCall DEF Inv, TypeOK, Kept
<1>3. CallsOK' /\ GetFaithful'
  BY <1>2, StepOK
<1>4. ChildrenKept' /\ DeleteEffective'
  BY <1>2 DEF Inv, ChildrenKept, DeleteEffective, Whole
<1> QED BY <1>1, <1>3, <1>4 DEF Inv

LEMMA EndInv ==
  ASSUME Inv, NEW t \in Tasks, call[t] # NoCall,
         NEW r \in {"ok", "NotFound", "MissingBlocks", "lost"}, End(t, r),
         UNCHANGED <<store, pinned, got, calls, removed, gone>>
  PROVE  Inv'
<1>1. TypeOK'
  BY DEF Inv, TypeOK, End
<1>2. /\ call'[t] = NoCall /\ got'[t] = NoCall /\ Kept' = Kept
      /\ \A u \in Tasks \ {t} :
           call'[u] = call[u] /\ result'[u] = result[u] /\ got'[u] = got[u]
  BY InCall DEF Inv, TypeOK, Kept, End
<1>3. CallsOK' /\ GetFaithful'
  BY <1>2, StepOK
<1>4. ChildrenKept' /\ DeleteEffective'
  BY <1>2 DEF Inv, ChildrenKept, DeleteEffective, Whole
<1> QED BY <1>1, <1>3, <1>4 DEF Inv

LEMMA BeginStep ==
  ASSUME Inv, NEW t \in Tasks, NEW op \in Ops, NEW o \in Objects, begin(t, op, o)
  PROVE  Inv'
<1> DEFINE c == [op |-> op, of |-> o,
                 phase |-> IF op = "put" THEN "work" ELSE "load",
                 queue |-> IF op = "put" THEN << >> ELSE <<Root(o)>>,
                 missing |-> FALSE, found |-> << >>,
                 todo |-> IF op = "put" THEN BlocksOf[o] ELSE << >>,
                 deduplicated |-> {}]
<1>1. /\ call' = [call EXCEPT ![t] = c] /\ calls < MaxCalls /\ calls' = calls + 1
      /\ result' = [result EXCEPT ![t] = "none"] /\ got' = [got EXCEPT ![t] = NoCall]
      /\ UNCHANGED <<store, pinned, removed, gone>>
  BY DEF begin
<1>2. /\ BlocksOf[o] \in Seq(Blocks) /\ Len(BlocksOf[o]) \in Nat \ {0}
      /\ Parts(o) = Elems(BlocksOf[o]) /\ Root(o) \in Blocks /\ Root(o) \in Parts(o)
  BY ObjectFacts
<1>3. c.queue \in Seq(Blocks) /\ c.todo \in Seq(Blocks) /\ c.found \in Seq(Blocks)
  BY <1>2
<1>4. c \in Call
  BY <1>3 DEF Call
<1>5. CallOK(c, Kept')
  <2>1. CASE op = "put"
    <3>1. PutOK(c, Kept')
      BY <1>2, <2>1 DEF PutOK
    <3> QED BY <1>2, <2>1, <3>1 DEF CallOK
  <2>2. CASE op # "put"
    <3>1. Elems(c.queue) = {Root(o)} /\ Elems(c.found) = {} /\ c.queue = <<Root(o)>>
      BY <2>2 DEF Elems
    <3>2. LoadOK(c, o) /\ c.phase = "load" /\ Target(c) = o
      BY <1>2, <2>2, <3>1 DEF LoadOK, Target
    <3> QED BY <2>2, <3>2 DEF CallOK
  <2> QED BY <2>1, <2>2
<1> HIDE DEF c
<1>6. TypeOK'
  BY <1>1, <1>4, BlocksAssumption DEF Inv, TypeOK
<1>7. call'[t] = c /\ got'[t] = NoCall /\ Kept' = Kept
      /\ \A u \in Tasks \ {t} :
           call'[u] = call[u] /\ result'[u] = result[u] /\ got'[u] = got[u]
  BY <1>1 DEF Inv, TypeOK, Kept
<1>8. CallsOK' /\ GetFaithful'
  BY <1>5, <1>7, StepOK
<1>9. ChildrenKept' /\ DeleteEffective'
  BY <1>1, <1>7 DEF Inv, ChildrenKept, DeleteEffective, Whole
<1> QED BY <1>6, <1>8, <1>9 DEF Inv

LEMMA GetBlockStep ==
  ASSUME Inv, NEW t \in Tasks, NEW b \in Blocks, get_block(t, b)
  PROVE  Inv'
<1>1. TypeOK'
  BY BlocksAssumption DEF get_block, Inv, TypeOK
<1>2. /\ got'[t] = NoCall /\ call'[t] = NoCall /\ Kept' = Kept
      /\ \A u \in Tasks \ {t} :
           call'[u] = call[u] /\ result'[u] = result[u] /\ got'[u] = got[u]
  BY DEF get_block, Inv, TypeOK, Kept
<1>3. CallsOK' /\ GetFaithful'
  BY <1>2, StepOK
<1>4. ChildrenKept' /\ DeleteEffective'
  BY <1>2 DEF get_block, Inv, ChildrenKept, DeleteEffective, Whole
<1> QED BY <1>1, <1>3, <1>4 DEF Inv

\* load_tree takes a block from the queue, and finds it or not.
LEMMA LoadTreeStep ==
  ASSUME Inv, NEW t \in Tasks, load_tree(t)
  PROVE  Inv'
<1> DEFINE c == call[t]
           b == Head(c.queue)
<1>1. /\ c # NoCall /\ c.phase \in {"load", "list"} /\ c.queue # << >>
      /\ UNCHANGED <<store, pinned, result, got, calls, removed, gone>>
      /\ call' = [call EXCEPT ![t] =
                   IF b \in store
                   THEN [c EXCEPT !.found = <<b>> \o c.found,
                                  !.queue = Tail(c.queue) \o Reverse(Children[b])]
                   ELSE [c EXCEPT !.missing = TRUE, !.queue = Tail(c.queue)]]
  BY DEF load_tree, Loading
<1>2. c \in Call /\ CallOK(c, Kept) /\ got[t] = NoCall
  BY <1>1, InCall
<1>3. /\ c.op \in Ops /\ c.of \in Objects /\ c.missing \in BOOLEAN
      /\ c.queue \in Seq(Blocks) /\ c.found \in Seq(Blocks)
      /\ c.todo \in Seq(Blocks) /\ c.deduplicated \subseteq Blocks
  BY <1>2, CallTypes
<1>4. PICK o \in Objects : o = Target(c) /\ LoadOK(c, o)
  BY <1>1, <1>2, <1>3, BlocksAssumption DEF CallOK, Target
<1>5. /\ b \in Blocks /\ b \in Elems(c.queue) /\ Tail(c.queue) \in Seq(Blocks)
      /\ Elems(c.queue) = {b} \cup Elems(Tail(c.queue))
  BY <1>1, <1>3, TailFacts, ElemsTail
<1>6. b \in Parts(o) /\ Below(b) \subseteq Parts(o) /\ Root(o) \notin Below(b)
  BY <1>3, <1>4, <1>5, ChildrenInside DEF LoadOK
<1>7. PICK r \in Seq(Blocks) : r = Reverse(Children[b]) /\ Elems(r) = Below(b)
  BY <1>5, ChildTypes, ElemsReverse DEF Below
<1> HIDE DEF c, b
<1>8. PICK root \in Blocks, tail \in Seq(Blocks), got_before \in Seq(Blocks) :
         root = Root(o) /\ tail = Tail(c.queue) /\ got_before = c.found
  BY <1>3, <1>5, ObjectFacts
<1>9. CASE b \in store
  <2>1. PICK q \in Seq(Blocks) : /\ q = Tail(c.queue) \o r
                                 /\ Elems(q) = Elems(Tail(c.queue)) \cup Below(b)
    <3>1. tail \o r \in Seq(Blocks) /\ Elems(tail \o r) = Elems(tail) \cup Elems(r)
      BY ElemsConcat
    <3> QED BY <1>7, <1>8, <3>1
  <2>2. PICK f \in Seq(Blocks) : /\ f = <<b>> \o c.found
                                 /\ Elems(f) = {b} \cup Elems(c.found)
                                 /\ OnlyLast(c.found, root) /\ b # root => OnlyLast(f, root)
                                 /\ c.found = << >> => OnlyLast(f, b)
    <3>1. /\ <<b>> \o got_before \in Seq(Blocks)
          /\ Elems(<<b>> \o got_before) = {b} \cup Elems(got_before)
          /\ \A x : OnlyLast(got_before, x) /\ b # x => OnlyLast(<<b>> \o got_before, x)
          /\ got_before = << >> => OnlyLast(<<b>> \o got_before, b)
      BY <1>5, ConsFacts
    <3> QED BY <1>8, <3>1
  <2>3. PICK d : d = [c EXCEPT !.found = f, !.queue = q] /\ call' = [call EXCEPT ![t] = d]
    <3>1. call' = [call EXCEPT ![t] =
                     [c EXCEPT !.found = <<b>> \o c.found,
                               !.queue = Tail(c.queue) \o Reverse(Children[b])]]
      BY <1>1, <1>9, Zenon
    <3>2. <<b>> \o c.found = f /\ Tail(c.queue) \o Reverse(Children[b]) = q
      <4>1. f = <<b>> \o c.found
        BY <2>2
      <4>2. q = Tail(c.queue) \o r /\ r = Reverse(Children[b])
        BY <1>7, <2>1
      <4> QED BY <4>1, <4>2
    <3>3. call' = [call EXCEPT ![t] = [c EXCEPT !.found = f, !.queue = q]]
      BY <3>1, <3>2, Zenon
    <3> QED BY <3>3, Zenon
  <2>4. /\ d \in Call /\ d.op = c.op /\ d.phase = c.phase /\ d.of = c.of
        /\ d.found = f /\ d.queue = q /\ d.missing = c.missing /\ d.todo = c.todo
    BY <1>1, <1>2, <2>3 DEF Call
  <2>5. c.found = << >> /\ c.queue = <<Root(o)>> =>
          b = Root(o) /\ Elems(Tail(c.queue)) = {}
    BY DEF b, Elems
  <2>6. Elems(q) = Elems(Tail(c.queue)) \cup Below(b)
    BY <2>1, Zenon
  <2>7. /\ Elems(f) = {b} \cup Elems(c.found)
        /\ OnlyLast(c.found, root) /\ b # root => OnlyLast(f, root)
        /\ c.found = << >> => OnlyLast(f, b)
    BY <2>2
  <2>8. LoadOK(d, o)
    <3>1. Elems(d.found) \cup Elems(d.queue) \subseteq Parts(o)
      BY <1>4, <1>5, <1>6, <2>4, <2>6, <2>7 DEF LoadOK
    <3>2. ASSUME ~ c.missing
          PROVE  /\ Root(o) \in Elems(f) \cup Elems(q)
                 /\ \A x \in Elems(f) : Below(x) \subseteq Elems(f) \cup Elems(q)
      BY <1>4, <1>5, <2>6, <2>7, <3>2 DEF LoadOK
    <3>3. ASSUME ~ c.missing
          PROVE  OnlyLast(f, Root(o)) /\ Root(o) \notin Elems(q)
      <4>1. CASE c.found = << >> /\ c.queue = <<Root(o)>>
        BY <1>6, <1>8, <2>5, <2>6, <2>7, <4>1
      <4>2. CASE OnlyLast(c.found, Root(o)) /\ Root(o) \notin Elems(c.queue)
        BY <1>5, <1>6, <1>8, <2>6, <2>7, <4>2
      <4> QED BY <1>4, <3>3, <4>1, <4>2 DEF LoadOK
    <3> QED BY <2>4, <3>1, <3>2, <3>3 DEF LoadOK
  <2>9. CallOK(d, Kept)
    BY <1>1, <1>2, <1>4, <2>4, <2>8 DEF CallOK, StreamOK, Target
  <2> QED BY <1>1, <1>2, <2>3, <2>4, <2>9, OneCallInv DEF c
<1>10. CASE b \notin store
  <2>1. PICK d : /\ d = [c EXCEPT !.missing = TRUE, !.queue = Tail(c.queue)]
                 /\ call' = [call EXCEPT ![t] = d]
    BY <1>1, <1>10
  <2>2. /\ d \in Call /\ d.op = c.op /\ d.phase = c.phase /\ d.of = c.of
        /\ d.found = c.found /\ d.queue = Tail(c.queue) /\ d.missing
        /\ d.todo = c.todo
    BY <1>1, <1>2, <1>5, <2>1 DEF Call
  <2>3. LoadOK(d, o)
    BY <1>4, <1>5, <2>2 DEF LoadOK
  <2>4. CallOK(d, Kept)
    BY <1>1, <1>2, <1>4, <2>2, <2>3 DEF CallOK, StreamOK, Target
  <2> QED BY <1>1, <1>2, <2>1, <2>2, <2>4, OneCallInv DEF c
<1> QED BY <1>9, <1>10

\* load_tree is over, and nothing was missing: all of the object was found.
LEMMA TreeFound ==
  ASSUME NEW c \in Call, NEW o \in Objects, LoadOK(c, o), c.queue = << >>, ~ c.missing
  PROVE  Elems(c.found) = Parts(o) /\ OnlyLast(c.found, Root(o))
<1>1. Elems(c.queue) = {} /\ c.queue # <<Root(o)>>
  BY DEF Elems
<1> QED BY <1>1, ClosedIsWhole DEF LoadOK

LEMMA LoadListStep ==
  ASSUME Inv, NEW t \in Tasks, load_list(t)
  PROVE  Inv'
<1> DEFINE c == call[t]
<1>1. /\ c # NoCall /\ c.phase = "load" /\ c.queue = << >> /\ ~ c.missing
      /\ c.of \in DOMAIN DepListRef
      /\ UNCHANGED <<store, pinned, result, got, calls, removed, gone>>
  BY DEF load_list, Loading
<1>2. c \in Call /\ CallOK(c, Kept) /\ got[t] = NoCall
  BY <1>1, InCall
<1>3. PICK l \in Objects : l = DepListRef[c.of]
  BY <1>1, BlocksAssumption
<1>4. PICK d : /\ d = [c EXCEPT !.phase = "list", !.queue = <<Root(l)>>,
                                !.todo = c.found, !.found = << >>]
               /\ call' = [call EXCEPT ![t] = d]
  BY <1>3 DEF load_list
<1>5. c.of \in Objects /\ c.found \in Seq(Blocks) /\ c.op # "put" /\ LoadOK(c, c.of)
  BY <1>1, <1>2, CallTypes DEF CallOK, Target
<1>6. Elems(c.found) = Parts(c.of) /\ OnlyLast(c.found, Root(c.of))
  BY <1>1, <1>2, <1>5, TreeFound
<1> HIDE DEF c
<1>7. Root(l) \in Blocks /\ Root(l) \in Parts(l) /\ <<Root(l)>> \in Seq(Blocks)
  BY ObjectFacts
<1>8. /\ d \in Call /\ d.op = c.op /\ d.phase = "list" /\ d.of = c.of
      /\ d.todo = c.found /\ d.found = << >> /\ d.queue = <<Root(l)>> /\ d.missing = c.missing
  <2>1. PICK none \in Seq(Blocks) : none = << >>
    <3>1. << >> \in Seq(Blocks)
      OBVIOUS
    <3> QED BY <3>1, Zenon
  <2>2. PICK q \in Seq(Blocks) : q = <<Root(l)>>
    BY <1>7
  <2>3. d = [c EXCEPT !.phase = "list", !.queue = q, !.todo = c.found, !.found = none]
    BY <1>4, <2>1, <2>2, Zenon
  <2>4. /\ d \in Call /\ d.op = c.op /\ d.phase = "list" /\ d.of = c.of
        /\ d.todo = c.found /\ d.found = none /\ d.queue = q /\ d.missing = c.missing
    BY <1>2, <1>5, <2>3 DEF Call
  <2> QED BY <2>1, <2>2, <2>4
<1>9. LoadOK(d, l)
  <2>1. Elems(d.queue) = {Root(l)} /\ Elems(d.found) = {}
    BY <1>8 DEF Elems
  <2> QED BY <1>7, <1>8, <2>1 DEF LoadOK
<1>10. CallOK(d, Kept)
  BY <1>1, <1>3, <1>5, <1>6, <1>8, <1>9 DEF CallOK, StreamOK, Target
<1> QED BY <1>1, <1>4, <1>8, <1>10, OneCallInv DEF c

\* The load is over.
LEMMA LoadedStep ==
  ASSUME Inv, NEW t \in Tasks, loaded(t)
  PROVE  Inv'
<1> DEFINE c == call[t]
<1>1. /\ c # NoCall /\ c.phase \in {"load", "list"} /\ c.queue = << >>
      /\ UNCHANGED <<store, pinned, got, calls, removed, gone>>
  BY DEF loaded, Loading
<1>2. c \in Call /\ CallOK(c, Kept) /\ got[t] = NoCall
  BY <1>1, InCall
<1>3. c.of \in Objects /\ c.found \in Seq(Blocks) /\ c.todo \in Seq(Blocks) /\ c.op # "put"
  BY <1>1, <1>2, CallTypes DEF CallOK
<1>4. CASE c.missing
  BY <1>1, <1>2, <1>4, EndInv DEF loaded
<1>5. CASE ~ c.missing
  <2>1. PICK d : /\ d = [c EXCEPT !.phase = "work", !.todo = LoadedBlocks(c)]
                 /\ call' = [call EXCEPT ![t] = d] /\ result' = result
    BY <1>5 DEF loaded
  <2>2. PICK s \in Seq(Blocks) : /\ s = LoadedBlocks(c)
                                 /\ Elems(s) = Parts(c.of) /\ OnlyLast(s, Root(c.of))
    <3>1. CASE c.phase = "load"
      <4>1. LoadOK(c, c.of) /\ LoadedBlocks(c) = c.found
        BY <1>1, <1>2, <3>1 DEF CallOK, Target, LoadedBlocks
      <4> QED BY <1>1, <1>2, <1>3, <1>5, <4>1, TreeFound
    <3>2. CASE c.phase = "list"
      BY <1>2, <1>3, <3>2 DEF CallOK, StreamOK, LoadedBlocks
    <3> QED BY <1>1, <3>1, <3>2
  <2> HIDE DEF c
  <2>3. /\ d \in Call /\ d.op = c.op /\ d.phase = "work" /\ d.of = c.of
        /\ d.todo = s
    BY <1>2, <1>3, <2>1, <2>2 DEF Call
  <2>4. CallOK(d, Kept)
    BY <1>3, <2>2, <2>3 DEF CallOK, StreamOK
  <2> QED BY <1>1, <1>2, <2>1, <2>3, <2>4, OneCallInv DEF c
<1> QED BY <1>4, <1>5

\* An operation goes on with the next block, or ends after the last one.
LEMMA AdvanceStep ==
  ASSUME Inv, NEW t \in Tasks, NEW op \in Ops \ {"get"}, Looking(t, op), Advance(t),
         op = "put" => Current(t) \in Kept', Kept \subseteq Kept',
         store' \subseteq Blocks, pinned' \subseteq Blocks, removed' \subseteq Blocks,
         gone' \subseteq Objects, UNCHANGED <<got, calls>>
  PROVE  TypeOK' /\ CallsOK' /\ GetFaithful'
<1> DEFINE c == call[t]
<1>1. c # NoCall /\ c.op = op /\ c.phase = "work" /\ c.todo # << >>
  BY DEF Looking, Working
<1>2. c \in Call /\ CallOK(c, Kept) /\ got[t] = NoCall
  BY <1>1, InCall
<1>3. CASE Tail(c.todo) = << >>
  <2>1. End(t, "ok")
    BY <1>3 DEF Advance
  <2>2. TypeOK'
    BY <2>1 DEF Inv, TypeOK, End
  <2>3. /\ call'[t] = NoCall /\ got'[t] = NoCall
        /\ \A u \in Tasks \ {t} :
             call'[u] = call[u] /\ result'[u] = result[u] /\ got'[u] = got[u]
    BY <1>2, <2>1 DEF Inv, TypeOK, End
  <2> QED BY <2>2, <2>3, StepOK
<1>4. CASE Tail(c.todo) # << >>
  <2>1. PICK d : /\ d = [c EXCEPT !.todo = Tail(c.todo),
                                  !.deduplicated = c.deduplicated \cup {Head(c.todo)}]
                 /\ call' = [call EXCEPT ![t] = d] /\ result' = result
    BY <1>4, Zenon DEF Advance, Current
  <2>2. d \in Call /\ CallOK(d, Kept')
    <3>1. c.op # "get" /\ (c.op = "put" => Head(c.todo) \in Kept')
      BY <1>1 DEF Current
    <3> HIDE DEF c
    <3> QED BY <1>1, <1>2, <2>1, <3>1, AdvanceOK
  <2>3. TypeOK'
    BY <2>1, <2>2 DEF Inv, TypeOK
  <2>4. /\ call'[t] = d /\ got'[t] = NoCall
        /\ \A u \in Tasks \ {t} :
             call'[u] = call[u] /\ result'[u] = result[u] /\ got'[u] = got[u]
    BY <1>2, <2>1 DEF Inv, TypeOK
  <2> QED BY <2>2, <2>3, <2>4, StepOK
<1> QED BY <1>3, <1>4

\* The block an operation looks at.
LEMMA CurrentFacts ==
  ASSUME Inv, NEW t \in Tasks, NEW op \in Ops, Looking(t, op)
  PROVE  /\ call[t] \in Call /\ CallOK(call[t], Kept) /\ call[t].of \in Objects
         /\ Current(t) \in Blocks /\ Current(t) \in Parts(call[t].of)
<1> DEFINE c == call[t]
<1>1. c # NoCall /\ c.phase = "work" /\ c.todo # << >>
  BY DEF Looking, Working
<1>2. c \in Call /\ CallOK(c, Kept) /\ c.of \in Objects /\ c.todo \in Seq(Blocks)
  BY <1>1, InCall, CallTypes
<1>3. Head(c.todo) \in Blocks /\ Head(c.todo) \in Elems(c.todo)
  BY <1>1, <1>2, TailFacts
<1>4. Elems(c.todo) \subseteq Parts(c.of)
  BY <1>1, <1>2 DEF CallOK
<1> QED BY <1>2, <1>3, <1>4 DEF Current

LEMMA SkipStep ==
  ASSUME Inv, NEW t \in Tasks, skip(t)
  PROVE  Inv'
<1>1. PICK op \in Ops \ {"get"} : Looking(t, op)
  BY DEF skip
<1>2. Kept' = Kept /\ UNCHANGED <<store, pinned, got, calls, removed, gone>> /\ Advance(t)
  BY DEF skip, Kept
<1>3. op = "put" => Current(t) \in Kept'
  <2>1. CallOK(call[t], Kept) /\ call[t].op = op
    BY <1>1, CurrentFacts DEF Looking, Working
  <2> QED BY <1>2, <2>1 DEF CallOK, PutOK, skip, New
<1>4. TypeOK' /\ CallsOK' /\ GetFaithful'
  <2>1. /\ store' \subseteq Blocks /\ pinned' \subseteq Blocks /\ removed' \subseteq Blocks
        /\ gone' \subseteq Objects
    BY <1>2 DEF Inv, TypeOK
  <2> QED BY <1>1, <1>2, <1>3, <2>1, AdvanceStep
<1>5. ChildrenKept' /\ DeleteEffective'
  BY <1>2 DEF Inv, ChildrenKept, DeleteEffective, Whole
<1> QED BY <1>4, <1>5 DEF Inv

\* A block is put after its children.
LEMMA PutBlockStep ==
  ASSUME Inv, NEW t \in Tasks, put_block(t)
  PROVE  Inv'
<1> DEFINE c == call[t]
           b == Current(t)
<1>1. /\ Looking(t, "put") /\ store' = store \cup {b} /\ Advance(t)
      /\ gone' = {o \in gone : b \notin Parts(o)}
      /\ UNCHANGED <<pinned, got, calls, removed>>
  BY DEF put_block
<1>2. c \in Call /\ CallOK(c, Kept) /\ c.of \in Objects /\ b \in Blocks /\ "put" \in Ops \ {"get"}
  BY <1>1, CurrentFacts DEF Ops
<1>3. Kept' = Kept \cup {b}
  BY <1>1 DEF Kept
<1>4. TypeOK' /\ CallsOK' /\ GetFaithful'
  <2>1. /\ store' \subseteq Blocks /\ pinned' \subseteq Blocks /\ removed' \subseteq Blocks
        /\ gone' \subseteq Objects
    BY <1>1, <1>2 DEF Inv, TypeOK
  <2>2. Kept \subseteq Kept' /\ b \in Kept' /\ UNCHANGED <<got, calls>>
    BY <1>1, <1>3
  <2> QED BY <1>1, <1>2, <2>1, <2>2, AdvanceStep
<1>5. Below(b) \subseteq Kept
  <2> SUFFICES ASSUME NEW x \in Below(b) PROVE x \in Kept
    OBVIOUS
  <2> DEFINE all == BlocksOf[c.of]
             done == Len(all) - Len(c.todo)
  <2>1. c.op = "put" /\ c.todo # << >> /\ c.todo \in Seq(Blocks)
    BY <1>1, <1>2, CallTypes DEF Looking, Working
  <2>2. /\ done \in 0..Len(all) /\ \A j \in 1..Len(c.todo) : c.todo[j] = all[done + j]
        /\ \A j \in 1..done : all[j] \in Kept
    BY <1>2, <2>1 DEF CallOK, PutOK
  <2>3. Len(c.todo) \in Nat \ {0} /\ b = c.todo[1] /\ Len(all) \in Nat
    BY <1>2, <2>1, TailFacts, ObjectFacts DEF Current
  <2> HIDE DEF b, c, all
  <2>4. done + 1 \in 1..Len(all) /\ done \in Nat
    BY <2>2, <2>3
  <2> HIDE DEF done
  <2>5. b = all[done + 1]
    BY <2>2, <2>3
  <2>6. PICK k \in 1..((done + 1) - 1) : all[k] = x
    BY <1>2, <2>4, <2>5, ChildrenBefore DEF all
  <2>7. k \in 1..done
    BY <2>4
  <2> QED BY <2>2, <2>6, <2>7
<1>6. ChildrenKept'
  BY <1>1, <1>3, <1>5 DEF Inv, ChildrenKept
<1>7. DeleteEffective'
  BY <1>1 DEF Inv, DeleteEffective, Whole
<1> QED BY <1>4, <1>6, <1>7 DEF Inv

LEMMA LosePutStep ==
  ASSUME Inv, NEW t \in Tasks, lose_put(t)
  PROVE  Inv'
<1>1. call[t] # NoCall /\ End(t, "lost") /\ UNCHANGED <<store, pinned, got, calls, removed, gone>>
  BY DEF lose_put, Looking, Working
<1> QED BY <1>1, EndInv

\* A block is deleted, or was deleted by another call meanwhile.  When the call
\* is over, the block it looked at last is not there.
LEMMA DelObjectStep ==
  ASSUME Inv, NEW t \in Tasks, del_object(t)
  PROVE  Inv'
<1> DEFINE b == Current(t)
<1>1. /\ Looking(t, "del") /\ UNCHANGED <<got, calls>>
      /\ gone' = IF call'[t] = NoCall THEN gone \cup {call[t].of} ELSE gone
  BY DEF del_object
<1>2. /\ call[t].of \in Objects /\ b \in Blocks /\ b \in Parts(call[t].of)
      /\ "del" \in Ops \ {"get"} /\ call[t] # NoCall
  BY <1>1, CurrentFacts DEF Ops, Looking, Working
<1>3. gone' \subseteq gone \cup {call[t].of} /\ gone' \subseteq Objects
  BY <1>1, <1>2 DEF Inv, TypeOK
<1>4. CASE /\ b \in store /\ store' = store \ {b} /\ pinned' = pinned \ {b}
           /\ removed' = removed \cup {b} /\ Advance(t)
  <2>1. Kept' = Kept
    BY <1>4 DEF Kept
  <2>2. TypeOK' /\ CallsOK' /\ GetFaithful'
    <3>1. store' \subseteq Blocks /\ pinned' \subseteq Blocks /\ removed' \subseteq Blocks
      BY <1>2, <1>4 DEF Inv, TypeOK
    <3>2. Kept \subseteq Kept' /\ "del" # "put"
      BY <2>1
    <3> QED BY <1>1, <1>2, <1>3, <1>4, <3>1, <3>2, AdvanceStep
  <2>3. ChildrenKept' /\ DeleteEffective'
    BY <1>2, <1>3, <1>4, <2>1 DEF Inv, ChildrenKept, DeleteEffective, Whole
  <2> QED BY <2>2, <2>3 DEF Inv
<1>5. CASE b \notin store /\ End(t, "NotFound") /\ UNCHANGED <<store, pinned, removed>>
  <2>1. TypeOK'
    BY <1>1, <1>3, <1>5 DEF Inv, TypeOK, End
  <2>2. /\ call'[t] = NoCall /\ got'[t] = NoCall /\ Kept' = Kept
        /\ \A u \in Tasks \ {t} :
             call'[u] = call[u] /\ result'[u] = result[u] /\ got'[u] = got[u]
    BY <1>1, <1>2, <1>5, InCall DEF Inv, TypeOK, Kept, End
  <2>3. CallsOK' /\ GetFaithful'
    BY <2>2, StepOK
  <2>4. ChildrenKept' /\ DeleteEffective'
    BY <1>2, <1>3, <1>5, <2>2 DEF Inv, ChildrenKept, DeleteEffective, Whole
  <2> QED BY <2>1, <2>3, <2>4 DEF Inv
<1> QED BY <1>4, <1>5 DEF del_object

LEMMA SetPinStep ==
  ASSUME Inv, NEW t \in Tasks, set_pin(t)
  PROVE  Inv'
<1>1. PICK op \in {"pin", "unpin"} : Looking(t, op)
  BY DEF set_pin
<1>2. /\ Kept' = Kept /\ UNCHANGED <<store, got, calls, removed, gone>> /\ Advance(t)
      /\ op \in Ops \ {"get"} /\ op # "put"
  BY DEF set_pin, Kept, Ops
<1>3. Current(t) \in Blocks
  BY <1>1, <1>2, CurrentFacts
<1>4. TypeOK' /\ CallsOK' /\ GetFaithful'
  <2>1. /\ store' \subseteq Blocks /\ pinned' \subseteq Blocks /\ removed' \subseteq Blocks
        /\ gone' \subseteq Objects
    BY <1>2, <1>3 DEF Inv, TypeOK, set_pin
  <2> QED BY <1>1, <1>2, <2>1, AdvanceStep
<1>5. ChildrenKept' /\ DeleteEffective'
  BY <1>2 DEF Inv, ChildrenKept, DeleteEffective, Whole
<1> QED BY <1>4, <1>5 DEF Inv

\* load_tree finds an object in a set of blocks exactly if it has all of its blocks.
LEMMA TreeLoads ==
  ASSUME NEW o \in Objects, NEW X
  PROVE  LoadsTree(o, X) <=> Parts(o) \subseteq X
<1>1. ASSUME Parts(o) \subseteq X PROVE LoadsTree(o, X)
  <2>1. Root(o) \in Parts(o) /\ \A b \in Parts(o) : Below(b) \subseteq Parts(o)
    BY ObjectFacts, ChildrenInside
  <2>2. \A b \in Parts(o) : \A i \in 1..Len(Children[b]) : Children[b][i] \in Parts(o)
    BY <2>1 DEF Below, Elems
  <2> QED BY <1>1, <2>1, <2>2 DEF LoadsTree
<1>2. ASSUME LoadsTree(o, X) PROVE Parts(o) \subseteq X
  <2>1. PICK S \in SUBSET X :
          /\ Root(o) \in S
          /\ \A b \in S : \A i \in 1..Len(Children[b]) : Children[b][i] \in S
    BY <1>2 DEF LoadsTree
  <2>2. PICK T : T = S \cap Parts(o)
    OBVIOUS
  <2>3. T \subseteq Parts(o) /\ Root(o) \in T
    BY <2>1, <2>2, ObjectFacts
  <2>4. \A b \in S : Below(b) \subseteq S
    BY <2>1 DEF Below, Elems
  <2>5. \A b \in T : Below(b) \subseteq T
    BY <2>2, <2>4, ChildrenInside
  <2>6. T = Parts(o)
    BY <2>3, <2>5, ClosedIsWhole
  <2> QED BY <2>2, <2>6
<1> QED BY <1>1, <1>2

\* The root is streamed last: a stream that was cut short does not have it.
LEMMA GetObjectStep ==
  ASSUME Inv, NEW t \in Tasks, get_object(t)
  PROVE  Inv'
<1> DEFINE c == call[t]
<1>1. /\ c # NoCall /\ c.op = "get" /\ c.phase = "work"
      /\ UNCHANGED <<store, pinned, calls, removed, gone>>
  BY DEF get_object, Working
<1>2. c \in Call /\ c.of \in Objects /\ c.todo \in Seq(Blocks) /\ StreamOK(c)
  BY <1>1, InCall, CallTypes DEF CallOK
<1> DEFINE First(n) == {c.todo[i] : i \in 1..n}
<1>3. PICK n \in 0..Len(c.todo) :
        /\ got' = [got EXCEPT ![t] = [of |-> c.of, blocks |-> First(n),
                                      cut |-> n < Len(c.todo)]]
        /\ \/ Loads(c.of, First(n)) /\ End(t, "ok")
           \/ ~ Loads(c.of, First(n)) /\ End(t, "MissingBlocks")
  BY DEF get_object
<1> DEFINE received == First(n)
<1> HIDE DEF c
<1>4. PICK r \in {"ok", "MissingBlocks"} : End(t, r) /\ (r = "ok" <=> Loads(c.of, received))
  BY <1>3
<1>5. received \subseteq Blocks /\ Len(c.todo) \in Nat
  BY <1>2, <1>3
<1>6. ASSUME n = Len(c.todo)
      PROVE  received = Parts(c.of) /\ (Loads(c.of, received) <=> SelfContained(c.of))
  <2>1. received = Parts(c.of)
    BY <1>2, <1>3, <1>6 DEF StreamOK, Elems
  <2>2. LoadsTree(c.of, Parts(c.of))
    BY <1>2, TreeLoads
  <2>3. ASSUME c.of \in DOMAIN DepListRef
        PROVE  LoadsTree(DepListRef[c.of], Parts(c.of)) <=> Parts(DepListRef[c.of]) \subseteq Parts(c.of)
    BY <2>3, BlocksAssumption, TreeLoads
  <2> QED BY <2>1, <2>2, <2>3 DEF Loads, SelfContained
<1>7. ASSUME n # Len(c.todo) PROVE ~ Loads(c.of, received)
  <2>1. n \in 0..(Len(c.todo) - 1)
    BY <1>5, <1>7
  <2>2. Root(c.of) \notin received
    BY <1>2, <1>3, <1>5, <2>1 DEF StreamOK, OnlyLast
  <2> QED BY <2>2 DEF Loads, LoadsTree
<1>8. PICK g \in [of : Objects, blocks : SUBSET Blocks, cut : BOOLEAN] :
        /\ got' = [got EXCEPT ![t] = g]
        /\ g.of = c.of /\ g.blocks = received /\ (g.cut <=> n # Len(c.todo))
  <2>1. (n < Len(c.todo)) \in BOOLEAN /\ (n < Len(c.todo) <=> n # Len(c.todo))
    BY <1>5
  <2>2. PICK cut \in BOOLEAN : cut <=> n < Len(c.todo)
    OBVIOUS
  <2>3. got' = [got EXCEPT ![t] = [of |-> c.of, blocks |-> received, cut |-> n < Len(c.todo)]]
    BY <1>3
  <2>4. (n < Len(c.todo)) = cut
    BY <2>1, <2>2
  <2>5. got' = [got EXCEPT ![t] = [of |-> c.of, blocks |-> received, cut |-> cut]]
    BY <2>3, <2>4, Zenon
  <2>6. PICK g : g = [of |-> c.of, blocks |-> received, cut |-> cut]
    OBVIOUS
  <2>7. /\ g \in [of : Objects, blocks : SUBSET Blocks, cut : BOOLEAN]
        /\ g.of = c.of /\ g.blocks = received /\ g.cut = cut
    BY <1>2, <1>5, <2>6
  <2>8. g.cut <=> n # Len(c.todo)
    BY <2>1, <2>2, <2>7
  <2>9. got' = [got EXCEPT ![t] = g]
    BY <2>5, <2>6, Zenon
  <2> QED BY <2>7, <2>8, <2>9, Zenon
<1>9. TypeOK'
  BY <1>1, <1>4, <1>8 DEF Inv, TypeOK, End
<1>10. /\ call'[t] = NoCall /\ got'[t] = g /\ result'[t] = r /\ Kept' = Kept
       /\ \A u \in Tasks \ {t} :
            call'[u] = call[u] /\ result'[u] = result[u] /\ got'[u] = got[u]
  BY <1>1, <1>4, <1>8 DEF Inv, TypeOK, Kept, End
<1>11. /\ r = "ok" <=> ~ g.cut /\ SelfContained(g.of)
       /\ r = "ok" => g.blocks = Parts(g.of)
  BY <1>4, <1>6, <1>7, <1>8
<1>12. CallsOK' /\ GetFaithful'
  BY <1>10, <1>11, StepOK
<1>13. ChildrenKept' /\ DeleteEffective'
  BY <1>1, <1>10 DEF Inv, ChildrenKept, DeleteEffective, Whole
<1> QED BY <1>9, <1>12, <1>13 DEF Inv

LEMMA NextInv == Inv /\ [Next]_vars => Inv'
<1> SUFFICES ASSUME Inv, [Next]_vars PROVE Inv'
  OBVIOUS
<1>1. CASE UNCHANGED vars
  BY <1>1 DEF vars, Inv, TypeOK, CallsOK, Kept, ChildrenKept, GetFaithful, DeleteEffective, Whole
<1>2. CASE Next
  <2>1. PICK t \in Tasks :
          \/ \E op \in Ops, o \in Objects : begin(t, op, o)
          \/ \E b \in Blocks : get_block(t, b)
          \/ load_tree(t) \/ load_list(t) \/ loaded(t) \/ skip(t)
          \/ put_block(t) \/ lose_put(t) \/ del_object(t) \/ set_pin(t) \/ get_object(t)
    BY <1>2 DEF Next
  <2> QED BY <2>1, BeginStep, GetBlockStep, LoadTreeStep, LoadListStep, LoadedStep,
             SkipStep, PutBlockStep, LosePutStep, DelObjectStep, SetPinStep, GetObjectStep
<1> QED BY <1>1, <1>2

LEMMA InvHolds == Spec => []Inv
BY InitInv, NextInv, PTL DEF Spec

-----------------------------------------------------------------------------
(***************************************************************************)
(* The results.                                                            *)
(***************************************************************************)

\* The state of the store and of every call in progress has its type: the queue
\* of load_tree holds blocks, the calls stay within their bound.
THEOREM TypeCorrect == Spec => []TypeOK
<1>1. Inv => TypeOK
  BY DEF Inv
<1> QED BY <1>1, InvHolds, PTL

\* get_object returns an object exactly when its stream was not cut short and
\* Object::load needs no block but its own, and then a complete one, for any number
\* of callers that put and delete blocks of it between the transactions that load
\* it.  An object with more than eight dependencies, listed in an object whose
\* blocks get_block does not stream, is always refused.
THEOREM GetIsFaithful == Spec => []GetFaithful
<1>1. Inv => GetFaithful
  BY DEF Inv
<1> QED BY <1>1, InvHolds, PTL

\* After delete_object the object is not whole until a block of it is put again,
\* even when other calls made the deletion stop halfway.
THEOREM DeleteIsEffective == Spec => []DeleteEffective
<1>1. Inv => DeleteEffective
  BY DEF Inv
<1> QED BY <1>1, InvHolds, PTL

\* An object whose root is stored is stored as a whole, unless a block of it was
\* deleted: what put_object leaves behind when it is cut off is never found.
THEOREM RootFindsWhole == Spec => []RootMeansWhole
<1>1. Inv => RootMeansWhole
  <2> SUFFICES ASSUME Inv, NEW o \in Objects, Root(o) \in store,
                      Parts(o) \cap removed = {}
               PROVE  Whole(o)
    BY DEF RootMeansWhole
  <2>1. PICK S : S = Parts(o) \cap store
    OBVIOUS
  <2>2. S \subseteq Parts(o) /\ Root(o) \in S
    BY <2>1, ObjectFacts
  <2>3. \A b \in S : Below(b) \subseteq S
    BY <2>1, ChildrenInside DEF Inv, ChildrenKept, Kept
  <2>4. S = Parts(o)
    BY <2>2, <2>3, ClosedIsWhole
  <2> QED BY <2>1, <2>4 DEF Whole
<1> QED BY <1>1, InvHolds, PTL
=============================================================================
