-------------------------- MODULE BranchSync_proofs --------------------------
(***************************************************************************)
(* Proofs about BranchSync, for every graph of commits, every request and  *)
(* every interleaving of the two walks with the changes of the stores.     *)
(*                                                                         *)
(* Past is the smallest set with a closure property, so a walk is compared *)
(* with it without induction: what a walk has visited is in Past because   *)
(* Past is closed, and Past is in what it has visited, once no dependency  *)
(* is left to look at, because that set is closed too.                     *)
(***************************************************************************)
EXTENDS BranchSync, TLAPS

-----------------------------------------------------------------------------
(***************************************************************************)
(* The inductive invariant.                                                *)
(***************************************************************************)

\* What the walks from the heads asked for, and from the known ones, have visited.
OurWalk == IF step = "ours" THEN ours \cup Range(visited) ELSE ours
TheirWalk == IF step = "theirs" THEN theirs \cup Range(visited) ELSE theirs

\* Nothing is left of a request that is over, nor of a walk.
SyncClean ==
  /\ step \notin {"ours", "theirs"} => visited = << >> /\ todo = {}
  /\ step = "ours" => left \subseteq heads
  /\ step = "theirs" => left \subseteq known
  /\ step \in {"idle", "send"} => left = {}
  /\ step = "idle" => ours = {} /\ theirs = {} /\ sent = {} /\ heads = {} /\ known = {}
  /\ step = "ours" => theirs = {} /\ sent = {}
  /\ step = "theirs" => sent = {}

\* What the broker has lies between what it kept and what it held.
History == step # "idle" => kept \subseteq broker /\ broker \subseteq held

\* Dependencies to look at are those of visited commits.
TodoFrom == \A e \in todo : e[1] \in Range(visited) /\ e[2] \in dep[e[1]]

\* The walks stay in the past of their heads, and never take in a root.
WalkFrom ==
  /\ OurWalk \subseteq Past(dep, heads, held) \ Roots
  /\ TheirWalk \subseteq Past(dep, known, held)

\* A head that has been taken was entered, unless its walk stops at once.
HeadsTaken ==
  /\ step = "ours" => heads \subseteq left \cup OurWalk \cup Roots \cup known
  /\ step \in {"theirs", "send"} => heads \subseteq OurWalk \cup Roots \cup known
  /\ step = "theirs" => known \subseteq left \cup TheirWalk \cup Roots
  /\ step = "send" => known \subseteq TheirWalk \cup Roots

\* A dependency of a visited commit has yet to be looked at, or was not in the
\* broker's store, or was entered, unless the walk stops there.
WalkClosed ==
  /\ \A c \in OurWalk : \A d \in dep[c] :
       \/ step = "ours" /\ <<c, d>> \in todo
       \/ d \notin kept
       \/ d \in OurWalk \cup Roots \cup known
  /\ \A c \in TheirWalk : \A d \in dep[c] :
       \/ step = "theirs" /\ <<c, d>> \in todo
       \/ d \notin kept
       \/ d \in TheirWalk \cup Roots

SyncInv == SyncClean /\ History /\ TodoFrom /\ WalkFrom /\ HeadsTaken /\ WalkClosed

\* Nothing is left of a check that is over.
CheckClean == checking = {} => seen = << >> /\ wait = {} /\ missing = {}

\* The walk of verify_deps is in the past of the commit, within the store; it went
\* past a Branch commit only if the body came later.
SeenFrom ==
  /\ checking \subseteq Range(seen)
  /\ Range(seen) \subseteq Past(Followed(hadBodies), checking, local)
  /\ \A e \in wait : e[1] \in Range(seen) /\ e[2] \in Followed(hadBodies)[e[1]]

\* Of a visited commit, what was not found has been named.
SeenClosed ==
  /\ \A c \in Range(seen) : c \in bodies \/ Body(c) \in missing
  /\ \A c \in Range(seen) : \A d \in Followed(bodies)[c] :
       <<c, d>> \in wait \/ d \in Range(seen) \/ (Object(d) \in missing /\ d \notin had)

\* What has been named belongs to a visited commit and was not there at first.
MissingFrom ==
  \A m \in missing :
    \/ \E c \in Range(seen) : m = Body(c) /\ c \notin hadBodies
    \/ \E c \in Range(seen) : \E d \in Followed(hadBodies)[c] : m = Object(d) /\ d \notin had

CheckInv == CheckClean /\ SeenFrom /\ SeenClosed /\ MissingFrom /\ AcceptedWhole

IInv == TypeOK /\ SyncInv /\ CheckInv

-----------------------------------------------------------------------------
(***************************************************************************)
(* Sequences of commits, and the past of a set of commits.                 *)
(***************************************************************************)

LEMMA RangeEmpty == Range(<< >>) = {}
BY DEF Range

LEMMA RangeIn ==
  ASSUME NEW X, NEW s \in Seq(X)
  PROVE  Range(s) \subseteq X
BY DEF Range

LEMMA RangeAppend ==
  ASSUME NEW X, NEW s \in Seq(X), NEW c \in X
  PROVE  Append(s, c) \in Seq(X) /\ Range(Append(s, c)) = Range(s) \cup {c}
<1>1. Append(s, c) \in Seq(X)
  OBVIOUS
<1>2. ASSUME NEW x \in Range(Append(s, c)) PROVE x \in Range(s) \cup {c}
  <2>1. PICK i \in 1..(Len(s) + 1) : x = Append(s, c)[i]
    BY <1>2 DEF Range
  <2>2. i = Len(s) + 1 \/ i \in DOMAIN s
    BY <2>1
  <2> QED BY <2>1, <2>2 DEF Range
<1>3. ASSUME NEW x \in Range(s) \cup {c} PROVE x \in Range(Append(s, c))
  <2>1. CASE x = c
    <3>1. Len(s) + 1 \in DOMAIN Append(s, c) /\ Append(s, c)[Len(s) + 1] = c
      OBVIOUS
    <3> QED BY <3>1, <2>1 DEF Range
  <2>2. CASE x \in Range(s)
    <3>1. PICK i \in DOMAIN s : x = s[i]
      BY <2>2 DEF Range
    <3>2. i \in DOMAIN Append(s, c) /\ Append(s, c)[i] = s[i]
      BY <3>1
    <3> QED BY <3>1, <3>2 DEF Range
  <2> QED BY <1>3, <2>1, <2>2
<1> QED BY <1>1, <1>2, <1>3

LEMMA SeqWiden ==
  ASSUME NEW X, NEW Y, X \subseteq Y, NEW s \in Seq(X)
  PROVE  s \in Seq(Y)
OBVIOUS

\* Past has what it starts from.
LEMMA PastHas ==
  ASSUME NEW g, NEW S \in SUBSET Commits, NEW W
  PROVE  S \subseteq Past(g, S, W)
BY DEF Past

\* Past is closed.
LEMMA PastStep ==
  ASSUME NEW g, NEW S, NEW W, NEW c \in Past(g, S, W),
         NEW d \in Commits, d \in g[c], d \in W
  PROVE  d \in Past(g, S, W)
BY DEF Past

\* Past is in every closed set.
LEMMA PastLeast ==
  ASSUME NEW g, NEW S, NEW W, NEW T \in SUBSET Commits, S \subseteq T,
         \A c \in T : \A d \in g[c] : d \in W => d \in T
  PROVE  Past(g, S, W) \subseteq T
BY DEF Past

LEMMA PastIn ==
  ASSUME NEW g, NEW S, NEW W
  PROVE  Past(g, S, W) \subseteq Commits
BY DEF Past

\* Past grows with the set it stays within.
LEMMA PastWiden ==
  ASSUME NEW g, NEW S, NEW V, NEW W, V \subseteq W
  PROVE  Past(g, S, V) \subseteq Past(g, S, W)
BY DEF Past

\* The past of two sets is that of the one and that of the other.
LEMMA PastUnion ==
  ASSUME NEW g, NEW S \in SUBSET Commits, NEW T \in SUBSET Commits, NEW W,
         \A c \in Commits : g[c] \subseteq Commits
  PROVE  Past(g, S \cup T, W) \subseteq Past(g, S, W) \cup Past(g, T, W)
<1>1. PICK U : U = Past(g, S, W) \cup Past(g, T, W)
  OBVIOUS
<1>2. U \in SUBSET Commits
  BY <1>1, PastIn
<1>3. S \cup T \subseteq U
  BY <1>1, PastHas
<1>4. \A c \in U : \A d \in g[c] : d \in W => d \in U
  BY <1>1, <1>2, PastStep
<1>5. Past(g, S \cup T, W) \subseteq U
  BY <1>2, <1>3, <1>4, PastLeast
<1> QED BY <1>1, <1>5

LEMMA DepIn ==
  ASSUME TypeOK
  PROVE  /\ dep \in [Commits -> SUBSET Commits]
         /\ \A c \in Commits : dep[c] \subseteq Commits
BY GraphsAssumption DEF TypeOK

\* The dependencies that the walk of verify_deps follows.
LEMMA FollowedPair ==
  ASSUME NEW W, NEW c \in Commits, NEW d
  PROVE  d \in Followed(W)[c] <=> d \in dep[c] /\ ~ (c \in W /\ to_type(c) = "Branch")
BY DEF Followed

\* With more bodies at hand, less is followed.
LEMMA FollowedLess ==
  ASSUME NEW V, NEW W, V \subseteq W, NEW c \in Commits
  PROVE  Followed(W)[c] \subseteq Followed(V)[c]
BY FollowedPair

LEMMA FollowedIn ==
  ASSUME TypeOK, NEW W
  PROVE  \A c \in Commits : Followed(W)[c] \subseteq Commits
BY DepIn, FollowedPair

-----------------------------------------------------------------------------
(***************************************************************************)
(* What the invariant says of the properties.                              *)
(***************************************************************************)

LEMMA RootsIn ==
  ASSUME NEW c \in Roots
  PROVE  c \in Commits /\ dep[c] = {}
BY DEF Roots

LEMMA InvMinimal ==
  ASSUME TypeOK, SyncInv
  PROVE  SyncMinimal
<1> SUFFICES ASSUME step = "send" PROVE SyncMinimal
  BY DEF SyncMinimal
<1>1. OurWalk = ours /\ TheirWalk = theirs
  BY DEF OurWalk, TheirWalk
<1>2. sync_req \subseteq Past(dep, heads, held)
  BY <1>1 DEF SyncInv, WalkFrom, sync_req
<1>3. PICK T : T = theirs \cup Roots
  OBVIOUS
<1>4. T \in SUBSET Commits /\ known \subseteq T
  BY <1>1, <1>3 DEF TypeOK, SyncInv, HeadsTaken, Roots
<1>5. \A c \in T : \A d \in dep[c] : d \in kept => d \in T
  BY <1>1, <1>3, RootsIn DEF SyncInv, WalkClosed
<1>6. Past(dep, known, kept) \subseteq T
  BY <1>4, <1>5, PastLeast
<1>7. sync_req \cap T = {}
  BY <1>1, <1>3 DEF SyncInv, WalkFrom, sync_req
<1>8. sync_req \cap filter = {}
  BY DEF sync_req
<1> QED BY <1>2, <1>6, <1>7, <1>8 DEF SyncMinimal

LEMMA InvComplete ==
  ASSUME TypeOK, SyncInv
  PROVE  SyncComplete
<1> SUFFICES ASSUME step = "send", sent = sync_req, Closed(local), filter \subseteq local,
                    Past(dep, heads, Commits) \cup known \subseteq kept
             PROVE  /\ Closed(local \cup sent)
                    /\ Past(dep, heads, Commits) \ Roots \subseteq local \cup sent
  BY DEF SyncComplete
<1>1. OurWalk = ours /\ TheirWalk = theirs
  BY DEF OurWalk, TheirWalk
<1>2. PICK P : P = Past(dep, heads, Commits)
  OBVIOUS
<1>3. P \subseteq Commits /\ P \subseteq kept
  BY <1>2, PastIn
<1>4. ours \subseteq P
  <2>1. held \subseteq Commits /\ heads \subseteq Commits
    BY DEF TypeOK
  <2>2. Past(dep, heads, held) \subseteq P
    BY <1>2, <2>1, PastWiden
  <2> QED BY <1>1, <2>2 DEF SyncInv, WalkFrom
<1>5. \A c \in P : \A d \in dep[c] : d \in P
  BY <1>2, <1>3, DepIn, PastStep
\* What the client's heads stand on, it has: it has no gaps.
<1>6. Past(dep, known, Commits) \subseteq local \cup Roots
  <2>1. PICK L : L = local \cup Roots
    OBVIOUS
  <2>2. L \in SUBSET Commits /\ known \subseteq L
    BY <2>1 DEF TypeOK, Roots
  <2>3. \A c \in L : \A d \in dep[c] : d \in Commits => d \in L
    BY <2>1, RootsIn DEF Closed
  <2>4. Past(dep, known, Commits) \subseteq L
    BY <2>2, <2>3, PastLeast
  <2> QED BY <2>1, <2>4
\* The two walks have all that the heads stand on.
<1>7. P \subseteq ours \cup local \cup Roots
  <2>1. PICK K : K = Past(dep, known, Commits)
    OBVIOUS
  <2>2. K \subseteq Commits /\ known \subseteq K
    BY <2>1, PastIn, PastHas DEF TypeOK
  <2>3. \A c \in K : \A d \in dep[c] : d \in K
    BY <2>1, <2>2, DepIn, PastStep
  <2>4. PICK T : T = ours \cup K \cup Roots
    OBVIOUS
  <2>5. T \in SUBSET Commits
    BY <2>2, <2>4 DEF TypeOK, Roots
  <2>6. heads \subseteq T
    BY <1>1, <2>2, <2>4 DEF SyncInv, HeadsTaken
  <2>7. \A c \in T : \A d \in dep[c] : d \in Commits => d \in T
    <3> SUFFICES ASSUME NEW c \in T, NEW d \in dep[c] PROVE d \in T
      OBVIOUS
    <3>1. CASE c \in ours
      <4>1. d \in kept
        BY <3>1, <1>3, <1>4, <1>5
      <4>2. d \in ours \cup Roots \cup known
        BY <3>1, <4>1, <1>1 DEF SyncInv, WalkClosed
      <4> QED BY <4>2, <2>2, <2>4
    <3>2. CASE c \in K
      BY <3>2, <2>3, <2>4
    <3>3. CASE c \in Roots
      BY <3>3, RootsIn
    <3> QED BY <2>4, <3>1, <3>2, <3>3
  <2>8. P \subseteq T
    BY <1>2, <2>5, <2>6, <2>7, PastLeast
  <2> QED BY <2>1, <2>4, <2>8, <1>6
<1>8. theirs \subseteq local \cup Roots
  <2>1. Past(dep, known, held) \subseteq Past(dep, known, Commits)
    BY PastWiden DEF TypeOK
  <2> QED BY <2>1, <1>1, <1>6 DEF SyncInv, WalkFrom
<1>9. P \ Roots \subseteq local \cup sent
  BY <1>7, <1>8 DEF sync_req
<1>10. Closed(local \cup sent)
  <2> SUFFICES ASSUME NEW c \in local \cup sent, NEW d \in dep[c], d \notin Roots
               PROVE  d \in local \cup sent
    BY DEF Closed
  <2>1. CASE c \in local
    BY <2>1 DEF Closed
  <2>2. CASE c \in sent
    <3>1. c \in P
      BY <2>2, <1>4 DEF sync_req
    <3> QED BY <3>1, <1>5, <1>9
  <2> QED BY <2>1, <2>2
<1> QED BY <1>2, <1>9, <1>10

LEMMA InvMissing ==
  ASSUME TypeOK, CheckInv
  PROVE  MissingNamed
<1> SUFFICES ASSUME checking # {}, wait = {} PROVE MissingNamed
  BY DEF MissingNamed
<1>1. PICK R : R = Range(seen)
  OBVIOUS
<1>2. R \in SUBSET Commits /\ R \subseteq local /\ checking \subseteq R
  BY <1>1, RangeIn DEF TypeOK, CheckInv, SeenFrom
<1>3. Past(Followed(bodies), checking, had) \subseteq R
  <2>1. \A c \in R : \A d \in Followed(bodies)[c] : d \in had => d \in R
    BY <1>1 DEF CheckInv, SeenClosed
  <2> QED BY <1>2, <2>1, PastLeast
<1>4. PICK A : A = Past(Followed(bodies), checking, had)
  OBVIOUS
<1>5. PICK B : B = Past(Followed(hadBodies), checking, local)
  OBVIOUS
<1>6. R \subseteq B
  BY <1>1, <1>5 DEF CheckInv, SeenFrom
<1>7. Lacking(A, bodies, local) \subseteq missing
  <2>1. ASSUME NEW c \in A \ bodies PROVE Body(c) \in missing
    BY <1>1, <1>3, <1>4, <2>1 DEF CheckInv, SeenClosed
  <2>2. ASSUME NEW d \in A, NEW c \in Followed(bodies)[d], c \notin local PROVE Object(c) \in missing
    BY <1>1, <1>2, <1>3, <1>4, <2>2 DEF CheckInv, SeenClosed
  <2> QED BY <2>1, <2>2 DEF Lacking
<1>8. missing \subseteq Lacking(B, hadBodies, had)
  <2> SUFFICES ASSUME NEW m \in missing PROVE m \in Lacking(B, hadBodies, had)
    OBVIOUS
  <2>1. ASSUME NEW c \in R, m = Body(c), c \notin hadBodies PROVE m \in Lacking(B, hadBodies, had)
    BY <2>1, <1>6 DEF Lacking
  <2>2. ASSUME NEW c \in R, NEW d \in Followed(hadBodies)[c], m = Object(d), d \notin had
        PROVE  m \in Lacking(B, hadBodies, had)
    BY <2>2, <1>6 DEF Lacking
  <2> QED BY <1>1, <2>1, <2>2 DEF CheckInv, MissingFrom
<1> QED BY <1>4, <1>5, <1>7, <1>8 DEF MissingNamed

-----------------------------------------------------------------------------
(***************************************************************************)
(* Types.                                                                  *)
(***************************************************************************)

LEMMA EmptySeq == \A X : << >> \in Seq(X)
OBVIOUS

LEMMA InitType == Init => TypeOK
<1> SUFFICES ASSUME Init PROVE TypeOK
  OBVIOUS
<1>1. visited \in Seq(Commits) /\ seen \in Seq(local)
  BY EmptySeq DEF Init
<1>2. local \subseteq Commits
  BY DEF Init, Roots
<1> QED BY <1>1, <1>2, BoundsAssumption DEF Init, TypeOK

\* What enter does to the walk, once a commit is loaded.
LEMMA EnterType ==
  ASSUME TypeOK, NEW c \in Commits, NEW order \in Seq(Commits),
         NEW rest \in SUBSET (Commits \X Commits), enter(c, order, rest)
  PROVE  visited' \in Seq(Commits) /\ todo' \subseteq Commits \X Commits
<1>1. visited' \in Seq(Commits)
  BY RangeAppend DEF enter
<1>2. Dependencies(c) \subseteq Commits \X Commits
  BY DepIn DEF Dependencies
<1>3. todo' \subseteq Commits \X Commits
  BY <1>2 DEF enter
<1> QED BY <1>1, <1>3

LEMMA EdgeIn ==
  ASSUME NEW X, NEW Y, NEW e \in X \X Y
  PROVE  e[1] \in X /\ e[2] \in Y /\ e = <<e[1], e[2]>>
OBVIOUS

LEMMA VisitType ==
  ASSUME TypeOK, NEW c \in local, NEW rest \in SUBSET (Commits \X Commits), visit(c, rest)
  PROVE  seen' \in Seq(local) /\ wait' \subseteq Commits \X Commits /\ missing' \subseteq Objects
<1>1. seen' \in Seq(local)
  BY RangeAppend DEF visit, TypeOK
<1>2. Dependencies(c) \subseteq Commits \X Commits
  BY DepIn DEF Dependencies, TypeOK
<1>3. wait' \subseteq Commits \X Commits
  BY <1>2 DEF visit
<1>4. Body(c) \in Objects
  BY DEF Body, Objects, TypeOK
<1>5. missing' \subseteq Objects
  BY <1>4 DEF visit, TypeOK
<1> QED BY <1>1, <1>3, <1>5

\* What the request and its walk keep, whatever the client does meanwhile.
SyncType ==
  /\ step \in {"idle", "ours", "theirs", "send"}
  /\ heads \subseteq Commits /\ known \subseteq local /\ filter \subseteq Commits
  /\ left \subseteq heads \cup known
  /\ visited \in Seq(Commits) /\ todo \subseteq Commits \X Commits
  /\ ours \subseteq Commits /\ theirs \subseteq Commits /\ sent \subseteq ours
  /\ kept \subseteq broker /\ held \subseteq Commits

CheckType ==
  /\ checking \subseteq local
  /\ seen \in Seq(local) /\ wait \subseteq Commits \X Commits
  /\ missing \subseteq Objects
  /\ had \subseteq local /\ hadBodies \subseteq bodies
  /\ accepted \subseteq local

StoreType ==
  /\ dep \in Graphs /\ detail \in Details
  /\ broker \subseteq Commits /\ local \subseteq Commits
  /\ bodies \subseteq local
  /\ changes \in 0..MaxChanges

LEMMA TypeParts == TypeOK <=> StoreType /\ SyncType /\ CheckType
BY DEF TypeOK, StoreType, SyncType, CheckType

\* The client's stores grow under a check that waits.
Grows == local \subseteq local' /\ bodies \subseteq bodies'

LEMMA CheckTypeFrame ==
  ASSUME TypeOK, Grows, UNCHANGED check
  PROVE  CheckType'
<1>1. seen' \in Seq(local')
  BY SeqWiden DEF TypeOK, Grows, check
<1> QED BY <1>1 DEF TypeOK, Grows, check, CheckType

LEMMA SyncTypeFrame ==
  ASSUME TypeOK, Grows, UNCHANGED <<broker, request, walk, history>>
  PROVE  SyncType'
BY DEF TypeOK, Grows, SyncType, request, walk, history

LEMMA WalkType ==
  ASSUME TypeOK
  PROVE  Range(visited) \subseteq Commits /\ Range(seen) \subseteq local
BY RangeIn DEF TypeOK

LEMMA HeadsIn ==
  ASSUME NEW S
  PROVE  Heads(S) \subseteq S
BY DEF Heads

LEMMA FilterIn ==
  ASSUME TypeOK, NEW f \in Filters
  PROVE  f \subseteq Commits
BY RequestsAssumption DEF TypeOK, Filters

\* Steps of the request that leave the stores and the check alone.
LEMMA RequestType ==
  ASSUME TypeOK, SyncType', UNCHANGED <<branch, broker, local, bodies, changes, check>>
  PROVE  TypeOK'
<1>1. StoreType'
  BY DEF TypeOK, StoreType, branch
<1>2. CheckType'
  BY CheckTypeFrame DEF Grows
<1> QED BY <1>1, <1>2, TypeParts, PTL

LEMMA OverType ==
  ASSUME over
  PROVE  SyncType'
<1>1. visited' \in Seq(Commits)
  BY EmptySeq DEF over
<1> QED BY <1>1 DEF over, SyncType

LEMMA SyncBranchType ==
  ASSUME TypeOK, NEW hs \in HeadSets, NEW f \in Filters, sync_branch(hs, f)
  PROVE  TypeOK'
<1>1. hs \subseteq Commits /\ f \subseteq Commits /\ Heads(local) \subseteq local
  BY RequestsAssumption, FilterIn, HeadsIn
<1>2. SyncType'
  BY <1>1 DEF TypeOK, SyncType, sync_branch
<1> QED BY <1>2, RequestType DEF sync_branch

LEMMA TakeHeadType ==
  ASSUME TypeOK, NEW h \in left, take_head(h)
  PROVE  TypeOK'
<1>1. h \in Commits
  BY DEF TypeOK
<1>2. visited' \in Seq(Commits) /\ todo' \subseteq Commits \X Commits
  <2>1. << >> \in Seq(Commits) /\ {} \in SUBSET (Commits \X Commits)
    BY EmptySeq
  <2> QED BY <1>1, <2>1, EnterType DEF take_head
<1>3. ours' \subseteq Commits /\ ours \subseteq ours' /\ theirs' \subseteq Commits
  BY WalkType DEF TypeOK, take_head, extend
<1>4. SyncType'
  BY <1>2, <1>3 DEF TypeOK, SyncType, take_head, request, history
<1> QED BY <1>4, RequestType DEF take_head

LEMMA LoadBranchType ==
  ASSUME TypeOK, NEW e \in todo, load_branch(e)
  PROVE  TypeOK'
<1>1. e[2] \in Commits
  BY EdgeIn DEF TypeOK
<1>2. visited' \in Seq(Commits) /\ todo' \subseteq Commits \X Commits
  <2>1. visited \in Seq(Commits) /\ todo \ {e} \in SUBSET (Commits \X Commits)
    BY DEF TypeOK
  <2>2. CASE enter(e[2], visited, todo \ {e})
    BY <1>1, <2>1, <2>2, EnterType
  <2>3. CASE todo' = todo \ {e} /\ UNCHANGED visited
    BY <2>1, <2>3
  <2> QED BY <2>2, <2>3 DEF load_branch
<1>3. SyncType'
  BY <1>2 DEF TypeOK, SyncType, load_branch, request, history
<1> QED BY <1>3, RequestType DEF load_branch

LEMMA AllHeadsType ==
  ASSUME TypeOK, all_heads
  PROVE  TypeOK'
<1>1. visited' \in Seq(Commits)
  BY EmptySeq DEF all_heads
<1>2. ours' \subseteq Commits /\ ours \subseteq ours' /\ theirs' \subseteq Commits
  BY WalkType DEF TypeOK, all_heads, extend
<1>3. SyncType'
  BY <1>1, <1>2 DEF TypeOK, SyncType, all_heads, history
<1> QED BY <1>3, RequestType DEF all_heads

LEMMA SendType ==
  ASSUME TypeOK, NEW c \in sync_req, send(c)
  PROVE  TypeOK'
<1>1. SyncType'
  BY DEF TypeOK, SyncType, send, sync_req, request, history
<1> QED BY <1>1, RequestType DEF send

LEMMA ErrorType ==
  ASSUME TypeOK, sync_error
  PROVE  TypeOK'
BY OverType, RequestType DEF sync_error

LEMMA ReplyType ==
  ASSUME TypeOK, reply
  PROVE  TypeOK'
<1>1. Grows
  BY DEF Grows, reply
<1>2. StoreType'
  BY DEF TypeOK, StoreType, reply, branch
<1>3. CheckType'
  BY <1>1, CheckTypeFrame DEF reply
<1>4. SyncType'
  BY OverType DEF reply
<1> QED BY <1>2, <1>3, <1>4, TypeParts, PTL

\* Steps of the check that leave the stores and the request alone.
LEMMA VerifyingType ==
  ASSUME TypeOK, CheckType',
         UNCHANGED <<branch, broker, local, bodies, changes, request, walk, history>>
  PROVE  TypeOK'
<1>1. StoreType'
  BY DEF TypeOK, StoreType, branch
<1>2. SyncType'
  BY SyncTypeFrame DEF Grows
<1> QED BY <1>1, <1>2, TypeParts, PTL

LEMMA VerifyType ==
  ASSUME TypeOK, NEW c \in Commits, verify(c)
  PROVE  TypeOK'
<1>1. {} \in SUBSET (Commits \X Commits)
  OBVIOUS
<1>2. seen' \in Seq(local) /\ wait' \subseteq Commits \X Commits /\ missing' \subseteq Objects
  BY <1>1, VisitType DEF verify
<1>3. CheckType'
  BY <1>2 DEF TypeOK, CheckType, verify
<1> QED BY <1>3, VerifyingType DEF verify

LEMMA LoadDepType ==
  ASSUME TypeOK, NEW e \in wait, load_dep(e)
  PROVE  TypeOK'
<1>1. e[2] \in Commits
  BY EdgeIn DEF TypeOK
<1>2. wait \ {e} \in SUBSET (Commits \X Commits)
  BY DEF TypeOK
<1>3. seen' \in Seq(local) /\ wait' \subseteq Commits \X Commits /\ missing' \subseteq Objects
  <2>1. CASE e[2] \in local \ Range(seen) /\ visit(e[2], wait \ {e})
    BY <1>2, <2>1, VisitType
  <2>2. CASE wait' = wait \ {e} /\ UNCHANGED <<seen, missing>>
    BY <1>2, <2>2 DEF TypeOK
  <2>3. CASE /\ missing' = missing \cup {Object(e[2])}
             /\ wait' = wait \ {e} /\ UNCHANGED seen
    BY <1>1, <1>2, <2>3 DEF TypeOK, Object, Objects
  <2> QED BY <2>1, <2>2, <2>3 DEF load_dep
<1>4. CheckType'
  BY <1>3 DEF TypeOK, CheckType, load_dep
<1> QED BY <1>4, VerifyingType DEF load_dep

LEMMA VerifyDepsType ==
  ASSUME TypeOK, verify_deps
  PROVE  TypeOK'
<1>1. seen' \in Seq(local')
  BY EmptySeq DEF verify_deps
<1>2. CheckType'
  BY <1>1 DEF TypeOK, CheckType, verify_deps
<1> QED BY <1>2, VerifyingType DEF verify_deps

LEMMA StoresType ==
  ASSUME TypeOK, NEW c \in Commits, create(c) \/ upload(c) \/ remove(c) \/ fetch_body(c)
  PROVE  TypeOK'
<1>1. Grows /\ UNCHANGED check
  BY DEF Grows, create, upload, remove, fetch_body
<1>2. CheckType'
  BY <1>1, CheckTypeFrame
<1>3. SyncType'
  <2>1. CASE create(c) \/ fetch_body(c)
    BY <2>1, <1>1, SyncTypeFrame DEF create, fetch_body
  <2>2. CASE upload(c)
    BY <2>2 DEF TypeOK, SyncType, upload, request, walk
  <2>3. CASE remove(c)
    BY <2>3 DEF TypeOK, SyncType, remove, request, walk
  <2> QED BY <2>1, <2>2, <2>3
<1>4. StoreType'
  <2>1. changes' \in 0..MaxChanges
    BY BoundsAssumption DEF TypeOK, create, upload, remove, fetch_body
  <2> QED BY <2>1 DEF TypeOK, StoreType, create, upload, remove, fetch_body, branch
<1> QED BY <1>2, <1>3, <1>4, TypeParts, PTL

LEMMA NextType ==
  ASSUME TypeOK, [Next]_vars
  PROVE  TypeOK'
<1>1. CASE Next
  BY <1>1, SyncBranchType, TakeHeadType, LoadBranchType, AllHeadsType, SendType, ErrorType,
     ReplyType, VerifyType, LoadDepType, VerifyDepsType, StoresType DEF Next
<1>2. CASE UNCHANGED vars
  <2>1. Grows /\ UNCHANGED <<branch, broker, local, bodies, changes, request, walk, history, check>>
    BY <1>2 DEF vars, Grows
  <2>2. CheckType'
    BY <2>1, CheckTypeFrame
  <2> QED BY <2>1, <2>2, VerifyingType
<1> QED BY <1>1, <1>2

\* The types of the stores, of the request and of the check, whatever the two
\* walks meet (load_branch in branch.rs and in commit.rs).
THEOREM TypeCorrect == Spec => []TypeOK
<1>1. Init => TypeOK
  BY InitType
<1>2. TypeOK /\ [Next]_vars => TypeOK'
  BY NextType
<1> QED BY <1>1, <1>2, PTL DEF Spec

-----------------------------------------------------------------------------
(***************************************************************************)
(* The request: what the two walks of sync_req have visited.               *)
(***************************************************************************)

LEMMA InitSync == Init => SyncInv
BY RangeEmpty DEF Init, SyncInv, SyncClean, History, TodoFrom, WalkFrom, HeadsTaken, WalkClosed,
   OurWalk, TheirWalk

\* The stores change under the walks.
LEMMA BrokerFrame ==
  ASSUME TypeOK, SyncInv, UNCHANGED <<branch, request, walk>>,
         kept' \subseteq kept, held \subseteq held',
         step # "idle" => kept' \subseteq broker' /\ broker' \subseteq held'
  PROVE  SyncInv'
<1>1. OurWalk' = OurWalk /\ TheirWalk' = TheirWalk /\ Roots' = Roots
  BY DEF OurWalk, TheirWalk, Roots, branch, request, walk
<1>2. SyncClean' /\ TodoFrom' /\ HeadsTaken' /\ History'
  BY <1>1 DEF SyncInv, SyncClean, TodoFrom, HeadsTaken, History, branch, request, walk
<1>3. WalkFrom'
  <2>1. Past(dep, heads, held) \subseteq Past(dep, heads, held')
    BY PastWiden
  <2>2. Past(dep, known, held) \subseteq Past(dep, known, held')
    BY PastWiden
  <2> QED BY <1>1, <2>1, <2>2 DEF SyncInv, WalkFrom, branch, request
<1>4. WalkClosed'
  BY <1>1 DEF SyncInv, WalkClosed, branch, request, walk
<1> QED BY <1>2, <1>3, <1>4 DEF SyncInv

LEMMA SyncFrame ==
  ASSUME TypeOK, SyncInv, UNCHANGED <<branch, broker, request, walk, history>>
  PROVE  SyncInv'
<1>1. step # "idle" => kept \subseteq broker /\ broker \subseteq held
  BY DEF SyncInv, History
<1> QED BY <1>1, BrokerFrame DEF history

LEMMA OverSync ==
  ASSUME over
  PROVE  SyncInv'
<1>1. OurWalk' = {} /\ TheirWalk' = {}
  BY DEF over, OurWalk, TheirWalk
<1> QED BY <1>1 DEF over, SyncInv, SyncClean, History, TodoFrom, WalkFrom, HeadsTaken, WalkClosed

LEMMA SyncBranchSync ==
  ASSUME TypeOK, SyncInv, NEW hs \in HeadSets, NEW f \in Filters, sync_branch(hs, f)
  PROVE  SyncInv'
<1>1. visited = << >> /\ todo = {} /\ ours = {} /\ theirs = {} /\ sent = {}
  BY DEF SyncInv, SyncClean, sync_branch
<1>2. OurWalk' = {} /\ TheirWalk' = {}
  BY <1>1, RangeEmpty DEF sync_branch, OurWalk, TheirWalk
<1> QED BY <1>1, <1>2 DEF sync_branch, SyncInv, SyncClean, History, TodoFrom, WalkFrom,
           HeadsTaken, WalkClosed

LEMMA SendSync ==
  ASSUME TypeOK, SyncInv, NEW c \in sync_req, send(c)
  PROVE  SyncInv'
<1>1. OurWalk' = OurWalk /\ TheirWalk' = TheirWalk /\ Roots' = Roots
  BY DEF OurWalk, TheirWalk, Roots, branch, request, send
<1> QED BY <1>1 DEF send, SyncInv, SyncClean, History, TodoFrom, WalkFrom, HeadsTaken,
           WalkClosed, branch, request, history

LEMMA AllHeadsSync ==
  ASSUME TypeOK, SyncInv, all_heads
  PROVE  SyncInv'
<1>1. Range(visited') = {} /\ Roots' = Roots
  BY RangeEmpty DEF all_heads, Roots, branch
<1>2. OurWalk' = OurWalk /\ TheirWalk' = TheirWalk
  <2>1. CASE step = "ours"
    BY <1>1, <2>1 DEF all_heads, OurWalk, TheirWalk, extend
  <2>2. CASE step = "theirs"
    BY <1>1, <2>2 DEF all_heads, OurWalk, TheirWalk, extend
  <2> QED BY <2>1, <2>2 DEF all_heads
<1>3. SyncClean' /\ History' /\ TodoFrom'
  BY DEF SyncInv, SyncClean, History, TodoFrom, all_heads, history
<1>4. WalkFrom'
  BY <1>1, <1>2 DEF SyncInv, WalkFrom, all_heads, branch, history
<1>5. HeadsTaken'
  BY <1>1, <1>2 DEF SyncInv, HeadsTaken, all_heads, branch
<1>6. WalkClosed'
  BY <1>1, <1>2 DEF SyncInv, WalkClosed, all_heads, branch, history
<1> QED BY <1>3, <1>4, <1>5, <1>6 DEF SyncInv

\* Entering a commit: it joins the walk with its dependencies to look at, unless
\* the walk stops there.
LEMMA EnterWalk ==
  ASSUME TypeOK, NEW c \in Commits, NEW order \in Seq(Commits), NEW rest, enter(c, order, rest)
  PROVE  \/ Stops(c) /\ Range(visited') = Range(order) /\ todo' = rest
         \/ /\ ~ Stops(c) /\ Range(visited') = Range(order) \cup {c}
            /\ todo' = rest \cup Dependencies(c)
BY RangeAppend DEF enter

LEMMA DependencyPair ==
  ASSUME NEW c
  PROVE  /\ \A e \in Dependencies(c) : e[1] = c /\ e[2] \in dep[c]
         /\ \A d \in dep[c] : <<c, d>> \in Dependencies(c)
BY DEF Dependencies

LEMMA TakeHeadSync ==
  ASSUME TypeOK, SyncInv, NEW h \in left, take_head(h)
  PROVE  SyncInv'
<1>1. h \in Commits /\ h \in broker /\ todo = {}
  BY DEF TypeOK, take_head
<1>2. Roots' = Roots /\ dep' = dep /\ step' = step /\ heads' = heads /\ known' = known
  BY DEF take_head, Roots, branch, request
<1>3. \/ Stops(h) /\ Range(visited') = {} /\ todo' = {}
      \/ ~ Stops(h) /\ Range(visited') = {h} /\ todo' = Dependencies(h)
  <2>1. PICK s : s = << >>
    OBVIOUS
  <2>2. s \in Seq(Commits) /\ Range(s) = {}
    BY <2>1, EmptySeq, RangeEmpty
  <2>3. Range(Append(s, h)) = {h}
    BY <1>1, <2>2, RangeAppend
  <2> QED BY <2>1, <2>2, <2>3 DEF take_head, enter
<1>4. TodoFrom'
  BY <1>2, <1>3, DependencyPair DEF TodoFrom
<1>5. History'
  BY DEF SyncInv, History, take_head, request, history
<1>6. CASE step = "ours"
  <2>1. OurWalk' = OurWalk \cup Range(visited') /\ TheirWalk' = TheirWalk
    BY <1>2, <1>6 DEF OurWalk, TheirWalk, take_head, extend
  <2>2. Stops(h) <=> h \in Roots \cup known
    BY <1>1, <1>6 DEF Stops, their_heads, Roots
  <2>3. h \in heads /\ heads \subseteq Commits
    BY <1>6 DEF SyncInv, SyncClean, TypeOK
  <2>4. SyncClean'
    BY <1>2, <1>6 DEF SyncInv, SyncClean, take_head
  <2>5. WalkFrom'
    <3>1. h \in Past(dep, heads, held)
      BY <2>3, PastHas
    <3> QED BY <1>2, <1>3, <2>1, <2>2, <3>1 DEF SyncInv, WalkFrom, take_head, history
  <2>6. HeadsTaken'
    BY <1>2, <1>3, <1>6, <2>1, <2>2 DEF SyncInv, HeadsTaken, take_head
  <2>7. WalkClosed'
    BY <1>1, <1>2, <1>3, <1>6, <2>1, DependencyPair
    DEF SyncInv, WalkClosed, take_head, history
  <2> QED BY <1>4, <1>5, <2>4, <2>5, <2>6, <2>7 DEF SyncInv
<1>7. CASE step = "theirs"
  <2>1. OurWalk' = OurWalk /\ TheirWalk' = TheirWalk \cup Range(visited')
    BY <1>2, <1>7 DEF OurWalk, TheirWalk, take_head, extend
  <2>2. Stops(h) <=> h \in Roots
    BY <1>1, <1>7 DEF Stops, their_heads, Roots
  <2>3. h \in known /\ known \subseteq Commits
    BY <1>7 DEF SyncInv, SyncClean, TypeOK
  <2>4. SyncClean'
    BY <1>2, <1>7 DEF SyncInv, SyncClean, take_head
  <2>5. WalkFrom'
    <3>1. h \in Past(dep, known, held)
      BY <2>3, PastHas
    <3> QED BY <1>2, <1>3, <2>1, <3>1 DEF SyncInv, WalkFrom, take_head, history
  <2>6. HeadsTaken'
    BY <1>2, <1>3, <1>7, <2>1, <2>2 DEF SyncInv, HeadsTaken, take_head
  <2>7. WalkClosed'
    BY <1>1, <1>2, <1>3, <1>7, <2>1, DependencyPair
    DEF SyncInv, WalkClosed, take_head, history
  <2> QED BY <1>4, <1>5, <2>4, <2>5, <2>6, <2>7 DEF SyncInv
<1> QED BY <1>6, <1>7 DEF take_head

LEMMA LoadBranchSync ==
  ASSUME TypeOK, SyncInv, NEW e \in todo, load_branch(e)
  PROVE  SyncInv'
<1>1. PICK c, d : e = <<c, d>> /\ e[1] = c /\ e[2] = d
  BY EdgeIn DEF TypeOK
<1>2. c \in Commits /\ d \in Commits /\ c \in Range(visited) /\ d \in dep[c]
  BY <1>1, EdgeIn DEF TypeOK, SyncInv, TodoFrom
<1>3. step \in {"ours", "theirs"}
  BY DEF SyncInv, SyncClean
<1>4. /\ Roots' = Roots /\ dep' = dep /\ step' = step /\ heads' = heads /\ known' = known
      /\ kept' = kept /\ held' = held /\ broker' = broker
      /\ left' = left /\ ours' = ours /\ theirs' = theirs /\ sent' = sent
  BY DEF load_branch, Roots, branch, request, history
<1>5. kept \subseteq broker /\ broker \subseteq held
  BY <1>3 DEF SyncInv, History
<1>6. \/ /\ d \in broker /\ Stops(d)
         /\ Range(visited') = Range(visited) /\ todo' = todo \ {e}
      \/ /\ d \in broker /\ ~ Stops(d)
         /\ Range(visited') = Range(visited) \cup {d}
         /\ todo' = (todo \ {e}) \cup Dependencies(d)
      \/ /\ d \notin broker \/ d \in Range(visited)
         /\ Range(visited') = Range(visited) /\ todo' = todo \ {e}
  <2>1. CASE d \in broker /\ enter(d, visited, todo \ {e})
    <3>1. visited \in Seq(Commits)
      BY DEF TypeOK
    <3> QED BY <1>2, <2>1, <3>1, EnterWalk
  <2>2. CASE d \notin broker \ Range(visited) /\ todo' = todo \ {e} /\ UNCHANGED visited
    BY <2>2
  <2> QED BY <1>1, <2>1, <2>2 DEF load_branch
<1>7. TodoFrom'
  BY <1>4, <1>6, DependencyPair DEF SyncInv, TodoFrom
<1>8. SyncClean' /\ History'
  BY <1>3, <1>4, <1>5 DEF SyncInv, SyncClean, History
<1>9. CASE step = "ours"
  <2>1. /\ OurWalk = ours \cup Range(visited) /\ OurWalk' = ours \cup Range(visited')
        /\ TheirWalk' = TheirWalk
    BY <1>4, <1>9 DEF OurWalk, TheirWalk
  <2>2. Stops(d) <=> d \in Roots \cup known
    BY <1>2, <1>9 DEF Stops, their_heads, Roots
  <2>3. OurWalk \subseteq OurWalk'
    BY <1>6, <2>1
  <2>4. WalkFrom'
    <3>1. d \in broker => d \in Past(dep, heads, held)
      BY <1>2, <1>5, <2>1, PastStep DEF SyncInv, WalkFrom
    <3> QED BY <1>4, <1>6, <2>1, <2>2, <3>1 DEF SyncInv, WalkFrom
  <2>5. HeadsTaken'
    BY <1>4, <1>9, <2>1, <2>3 DEF SyncInv, HeadsTaken
  <2>6. WalkClosed'
    <3>1. ASSUME NEW x \in OurWalk', NEW y \in dep[x]
          PROVE  <<x, y>> \in todo' \/ y \notin kept \/ y \in OurWalk' \cup Roots \cup known
      <4>1. CASE x \in OurWalk /\ <<x, y>> # e
        <5>1. <<x, y>> \in todo \/ y \notin kept \/ y \in OurWalk \cup Roots \cup known
          BY <4>1 DEF SyncInv, WalkClosed
        <5> QED BY <1>6, <2>3, <4>1, <5>1
      <4>2. CASE <<x, y>> = e
        <5>1. y = d
          BY <1>1, <4>2
        <5> QED BY <1>5, <1>6, <2>1, <2>2, <5>1
      <4>3. CASE x \notin OurWalk
        BY <1>6, <2>1, <4>3, DependencyPair
      <4> QED BY <4>1, <4>2, <4>3
    <3>2. \A x \in TheirWalk : \A y \in dep[x] : y \notin kept \/ y \in TheirWalk \cup Roots
      BY <1>9 DEF SyncInv, WalkClosed
    <3> QED BY <1>4, <1>9, <2>1, <3>1, <3>2 DEF WalkClosed
  <2> QED BY <1>7, <1>8, <2>4, <2>5, <2>6 DEF SyncInv
<1>10. CASE step = "theirs"
  <2>1. /\ TheirWalk = theirs \cup Range(visited) /\ TheirWalk' = theirs \cup Range(visited')
        /\ OurWalk' = OurWalk
    BY <1>4, <1>10 DEF OurWalk, TheirWalk
  <2>2. Stops(d) <=> d \in Roots
    BY <1>2, <1>10 DEF Stops, their_heads, Roots
  <2>3. TheirWalk \subseteq TheirWalk'
    BY <1>6, <2>1
  <2>4. WalkFrom'
    <3>1. d \in broker => d \in Past(dep, known, held)
      BY <1>2, <1>5, <2>1, PastStep DEF SyncInv, WalkFrom
    <3> QED BY <1>4, <1>6, <2>1, <3>1 DEF SyncInv, WalkFrom
  <2>5. HeadsTaken'
    BY <1>4, <1>10, <2>1, <2>3 DEF SyncInv, HeadsTaken
  <2>6. WalkClosed'
    <3>1. ASSUME NEW x \in TheirWalk', NEW y \in dep[x]
          PROVE  <<x, y>> \in todo' \/ y \notin kept \/ y \in TheirWalk' \cup Roots
      <4>1. CASE x \in TheirWalk /\ <<x, y>> # e
        <5>1. <<x, y>> \in todo \/ y \notin kept \/ y \in TheirWalk \cup Roots
          BY <4>1 DEF SyncInv, WalkClosed
        <5> QED BY <1>6, <2>3, <4>1, <5>1
      <4>2. CASE <<x, y>> = e
        <5>1. y = d
          BY <1>1, <4>2
        <5> QED BY <1>5, <1>6, <2>1, <2>2, <5>1
      <4>3. CASE x \notin TheirWalk
        BY <1>6, <2>1, <4>3, DependencyPair
      <4> QED BY <4>1, <4>2, <4>3
    <3>2. \A x \in OurWalk : \A y \in dep[x] :
            y \notin kept \/ y \in OurWalk \cup Roots \cup known
      BY <1>10 DEF SyncInv, WalkClosed
    <3> QED BY <1>4, <1>10, <2>1, <3>1, <3>2 DEF WalkClosed
  <2> QED BY <1>7, <1>8, <2>4, <2>5, <2>6 DEF SyncInv
<1> QED BY <1>3, <1>9, <1>10

\* Steps that leave the request and its walk alone.
LEMMA ClientSync ==
  ASSUME TypeOK, SyncInv,
         NEW c \in Commits, verify(c) \/ create(c) \/ fetch_body(c)
  PROVE  SyncInv'
BY SyncFrame DEF verify, create, fetch_body

LEMMA StoreSync ==
  ASSUME TypeOK, SyncInv, NEW c \in Commits, upload(c) \/ remove(c)
  PROVE  SyncInv'
<1>1. step # "idle" => kept \subseteq broker /\ broker \subseteq held
  BY DEF SyncInv, History
<1>2. CASE upload(c)
  BY <1>1, <1>2, BrokerFrame DEF upload
<1>3. CASE remove(c)
  BY <1>1, <1>3, BrokerFrame DEF remove
<1> QED BY <1>2, <1>3

LEMMA NextSync ==
  ASSUME TypeOK, SyncInv, [Next]_vars
  PROVE  SyncInv'
<1>1. CASE sync_error \/ reply
  BY <1>1, OverSync DEF sync_error, reply
<1>2. CASE verify_deps \/ \E e \in wait : load_dep(e)
  BY <1>2, SyncFrame DEF verify_deps, load_dep
<1>3. CASE UNCHANGED vars
  BY <1>3, SyncFrame DEF vars
<1> QED BY <1>1, <1>2, <1>3, SyncBranchSync, TakeHeadSync, LoadBranchSync, AllHeadsSync,
           SendSync, ClientSync, StoreSync DEF Next

-----------------------------------------------------------------------------
(***************************************************************************)
(* The check: what the walk of verify_deps has visited and named.          *)
(***************************************************************************)

LEMMA InitCheck == Init => CheckInv
<1> SUFFICES ASSUME Init PROVE CheckInv
  OBVIOUS
<1>1. CheckClean /\ SeenClosed /\ MissingFrom /\ SeenFrom
  BY RangeEmpty DEF Init, CheckClean, SeenClosed, MissingFrom, SeenFrom
<1>2. accepted \in SUBSET {} /\ {} \in SUBSET Commits
  BY DEF Init
<1>3. Past(Followed(Commits), accepted, Commits) \subseteq {}
  BY <1>2, PastLeast
<1> QED BY <1>1, <1>3 DEF CheckInv, AcceptedWhole

\* The graph of the branch does not change.
LEMMA FollowedSame ==
  ASSUME UNCHANGED <<dep, detail>>
  PROVE  /\ Followed(Commits)' = Followed(Commits)
         /\ bodies' = bodies => Followed(bodies)' = Followed(bodies)
         /\ hadBodies' = hadBodies => Followed(hadBodies)' = Followed(hadBodies)
         /\ hadBodies' = bodies => Followed(hadBodies)' = Followed(bodies)
BY DEF Followed, to_type

\* The client's stores grow under the walk.
LEMMA CheckFrame ==
  ASSUME TypeOK, CheckInv, Grows, UNCHANGED <<branch, check>>
  PROVE  CheckInv'
<1>1. Range(seen') = Range(seen)
  BY DEF check
<1>2. CheckClean' /\ SeenClosed' /\ MissingFrom'
  <2>1. Range(seen) \subseteq Commits
    BY WalkType DEF TypeOK
  <2>2. \A c \in Range(seen) : Followed(bodies)'[c] \subseteq Followed(bodies)[c]
    BY <2>1 DEF Followed, to_type, Grows, branch
  <2>3. Followed(hadBodies)' = Followed(hadBodies)
    BY DEF Followed, to_type, branch, check
  <2>4. CheckClean' /\ MissingFrom'
    BY <1>1, <2>3 DEF CheckInv, CheckClean, MissingFrom, branch, check, Body, Object
  <2>5. SeenClosed'
    BY <1>1, <2>2 DEF CheckInv, SeenClosed, Grows, branch, check, Body, Object
  <2> QED BY <2>4, <2>5
<1>3. SeenFrom'
  <2>1. PICK g : g = Followed(hadBodies)
    OBVIOUS
  <2>2. g = Followed(hadBodies)'
    BY <2>1 DEF Followed, to_type, branch, check
  <2>3. Past(g, checking, local) \subseteq Past(g, checking, local')
    BY PastWiden DEF Grows
  <2> QED BY <1>1, <2>1, <2>2, <2>3 DEF CheckInv, SeenFrom, branch, check
<1>4. AcceptedWhole'
  BY FollowedSame DEF CheckInv, AcceptedWhole, Grows, branch, check
<1> QED BY <1>2, <1>3, <1>4 DEF CheckInv

\* Visiting a commit: its body is there or named, its dependencies are to be looked at.
LEMMA VisitWalk ==
  ASSUME TypeOK, NEW c \in local, NEW rest, visit(c, rest)
  PROVE  /\ Range(seen') = Range(seen) \cup {c}
         /\ c \in bodies \/ Body(c) \in missing'
         /\ missing \subseteq missing'
         /\ \A m \in missing' : m \in missing \/ (m = Body(c) /\ c \notin bodies)
         /\ rest \subseteq wait'
         /\ \A d \in Followed(bodies)[c] : <<c, d>> \in wait'
         /\ \A e \in wait' : e \in rest \/ (e[1] = c /\ e[2] \in Followed(bodies)[c])
<1>1. Range(seen') = Range(seen) \cup {c}
  BY RangeAppend DEF visit, TypeOK
<1>2. c \in Commits
  BY DEF TypeOK
<1>3. \A d : d \in Followed(bodies)[c] <=> d \in dep[c] /\ ~ (c \in bodies /\ to_type(c) = "Branch")
  BY <1>2, FollowedPair
<1>4. \/ wait' = rest \cup Dependencies(c) /\ Followed(bodies)[c] = dep[c]
      \/ wait' = rest /\ Followed(bodies)[c] = {}
  BY <1>3 DEF visit
<1>5. /\ c \in bodies \/ Body(c) \in missing'
      /\ missing \subseteq missing'
      /\ \A m \in missing' : m \in missing \/ (m = Body(c) /\ c \notin bodies)
  BY DEF visit
<1> QED BY <1>1, <1>4, <1>5, DependencyPair

LEMMA VerifyCheck ==
  ASSUME TypeOK, CheckInv, NEW c \in Commits, verify(c)
  PROVE  CheckInv'
<1>1. seen = << >> /\ missing = {} /\ c \in local /\ c \in bodies
  BY DEF CheckInv, CheckClean, verify
<1>2. Range(seen) = {}
  BY <1>1, RangeEmpty
<1>3. PICK F : F = Followed(bodies)
  OBVIOUS
<1>4. /\ Range(seen') = {c} /\ missing' = {}
      /\ \A d \in F[c] : <<c, d>> \in wait'
      /\ \A e \in wait' : e[1] = c /\ e[2] \in F[c]
  <2>1. visit(c, {})
    BY DEF verify
  <2>2. /\ Range(seen') = Range(seen) \cup {c}
        /\ \A m \in missing' : m \in missing \/ (m = Body(c) /\ c \notin bodies)
        /\ \A d \in F[c] : <<c, d>> \in wait'
        /\ \A e \in wait' : e \in {} \/ (e[1] = c /\ e[2] \in F[c])
    BY <1>1, <1>3, <2>1, VisitWalk
  <2> QED BY <1>1, <1>2, <2>2
<1>5. /\ checking' = {c} /\ dep' = dep /\ detail' = detail /\ local' = local
      /\ bodies' = bodies /\ accepted' = accepted /\ hadBodies' = bodies
  BY DEF verify, branch
<1>6. F = Followed(bodies)' /\ F = Followed(hadBodies)' /\ Followed(Commits)' = Followed(Commits)
  BY <1>3, <1>5, FollowedSame
<1>7. CheckClean' /\ SeenClosed' /\ MissingFrom'
  BY <1>1, <1>4, <1>5, <1>6 DEF CheckClean, SeenClosed, MissingFrom
<1>8. SeenFrom'
  <2>1. {c} \subseteq Past(F, {c}, local)
    BY PastHas
  <2> QED BY <1>4, <1>5, <1>6, <2>1 DEF SeenFrom
<1>9. AcceptedWhole'
  BY <1>5, <1>6 DEF CheckInv, AcceptedWhole
<1> QED BY <1>7, <1>8, <1>9 DEF CheckInv

LEMMA LoadDepCheck ==
  ASSUME TypeOK, CheckInv, NEW e \in wait, load_dep(e)
  PROVE  CheckInv'
<1>1. PICK c, d : e = <<c, d>> /\ e[1] = c /\ e[2] = d
  BY EdgeIn DEF TypeOK
\* What is followed with the bodies that are there now, and with those of the start.
<1>2. PICK F : F = Followed(bodies)
  OBVIOUS
<1>3. PICK H : H = Followed(hadBodies)
  OBVIOUS
<1>4. /\ checking' = checking /\ dep' = dep /\ detail' = detail /\ local' = local
      /\ bodies' = bodies /\ accepted' = accepted /\ had' = had /\ hadBodies' = hadBodies
  BY DEF load_dep, branch
<1>5. F = Followed(bodies)' /\ H = Followed(hadBodies)' /\ Followed(Commits)' = Followed(Commits)
  BY <1>2, <1>3, <1>4, FollowedSame
<1>6. had \subseteq local /\ hadBodies \subseteq bodies
  BY DEF TypeOK
<1>7. c \in Commits /\ d \in Commits /\ c \in Range(seen) /\ d \in H[c]
  BY <1>1, <1>3, EdgeIn DEF TypeOK, CheckInv, SeenFrom
<1>8. \A x \in Commits : F[x] \subseteq H[x]
  BY <1>2, <1>3, <1>6, FollowedLess
<1>9. PICK R : R = Range(seen)
  OBVIOUS
<1>10. /\ checking \subseteq R /\ R \subseteq Past(H, checking, local)
       /\ \A f \in wait : f[1] \in R /\ f[2] \in H[f[1]]
  BY <1>3, <1>9 DEF CheckInv, SeenFrom
<1>11. /\ \A x \in R : x \in bodies \/ Body(x) \in missing
       /\ \A x \in R : \A y \in F[x] :
            <<x, y>> \in wait \/ y \in R \/ (Object(y) \in missing /\ y \notin had)
  BY <1>2, <1>9 DEF CheckInv, SeenClosed
<1>12. \A m \in missing :
         \/ \E x \in R : m = Body(x) /\ x \notin hadBodies
         \/ \E x \in R : \E y \in H[x] : m = Object(y) /\ y \notin had
  BY <1>3, <1>9 DEF CheckInv, MissingFrom
<1>13. AcceptedWhole' /\ CheckClean'
  <2>1. checking # {}
    BY DEF CheckInv, CheckClean
  <2> QED BY <1>4, <1>5, <2>1 DEF CheckInv, AcceptedWhole, CheckClean
<1>14. CASE d \in local /\ visit(d, wait \ {e})
  <2>1. PICK Q : Q = Range(seen')
    OBVIOUS
  <2>2. /\ Q = R \cup {d}
        /\ d \in bodies \/ Body(d) \in missing'
        /\ missing \subseteq missing'
        /\ \A m \in missing' : m \in missing \/ (m = Body(d) /\ d \notin bodies)
        /\ wait \ {e} \subseteq wait'
        /\ \A x \in F[d] : <<d, x>> \in wait'
        /\ \A f \in wait' : f \in wait \ {e} \/ (f[1] = d /\ f[2] \in F[d])
    BY <1>2, <1>9, <1>14, <2>1, VisitWalk
  <2>3. SeenFrom'
    <3>1. d \in Past(H, checking, local)
      BY <1>7, <1>9, <1>10, <1>14, PastStep
    <3>2. \A f \in wait' : f[1] \in Q /\ f[2] \in H[f[1]]
      BY <1>7, <1>8, <1>10, <2>2
    <3> QED BY <1>4, <1>5, <1>10, <2>1, <2>2, <3>1, <3>2 DEF SeenFrom
  <2>4. SeenClosed'
    <3>1. \A x \in Q : x \in bodies \/ Body(x) \in missing'
      BY <1>11, <2>2
    <3>2. ASSUME NEW x \in Q, NEW y \in F[x]
          PROVE  <<x, y>> \in wait' \/ y \in Q \/ (Object(y) \in missing' /\ y \notin had)
      <4>1. CASE x = d
        BY <2>2, <4>1
      <4>2. CASE x \in R /\ <<x, y>> = e
        BY <1>1, <2>2, <4>2
      <4>3. CASE x \in R /\ <<x, y>> # e
        BY <1>11, <2>2, <4>3
      <4> QED BY <2>2, <4>1, <4>2, <4>3
    <3> QED BY <1>4, <1>5, <2>1, <3>1, <3>2 DEF SeenClosed, Body, Object
  <2>5. MissingFrom'
    <3>1. \A m \in missing' :
            \/ \E x \in Q : m = Body(x) /\ x \notin hadBodies
            \/ \E x \in Q : \E y \in H[x] : m = Object(y) /\ y \notin had
      BY <1>6, <1>12, <2>2
    <3> QED BY <1>4, <1>5, <2>1, <3>1 DEF MissingFrom, Body, Object
  <2> QED BY <1>13, <2>3, <2>4, <2>5 DEF CheckInv
<1>15. CASE d \in Range(seen) /\ wait' = wait \ {e} /\ UNCHANGED <<seen, missing>>
  <2>1. R = Range(seen')
    BY <1>9, <1>15
  <2>2. SeenFrom' /\ MissingFrom'
    BY <1>4, <1>5, <1>10, <1>12, <1>15, <2>1 DEF SeenFrom, MissingFrom, Body, Object
  <2>3. SeenClosed'
    <3>1. \A x \in R : \A y \in F[x] :
            <<x, y>> \in wait' \/ y \in R \/ (Object(y) \in missing /\ y \notin had)
      BY <1>1, <1>9, <1>11, <1>15
    <3> QED BY <1>4, <1>5, <1>11, <1>15, <2>1, <3>1 DEF SeenClosed, Body, Object
  <2> QED BY <1>13, <2>2, <2>3 DEF CheckInv
<1>16. CASE d \notin local /\ missing' = missing \cup {Object(d)} /\ wait' = wait \ {e} /\ UNCHANGED seen
  <2>1. R = Range(seen') /\ d \notin had
    BY <1>6, <1>9, <1>16
  <2>2. SeenFrom'
    BY <1>4, <1>5, <1>10, <1>16, <2>1 DEF SeenFrom
  <2>3. MissingFrom'
    BY <1>4, <1>5, <1>7, <1>9, <1>12, <1>16, <2>1 DEF MissingFrom, Body, Object
  <2>4. SeenClosed'
    <3>1. \A x \in R : \A y \in F[x] :
            <<x, y>> \in wait' \/ y \in R \/ (Object(y) \in missing' /\ y \notin had)
      BY <1>1, <1>11, <1>16, <2>1
    <3> QED BY <1>4, <1>5, <1>11, <1>16, <2>1, <3>1 DEF SeenClosed, Body, Object
  <2> QED BY <1>13, <2>2, <2>3, <2>4 DEF CheckInv
<1> QED BY <1>1, <1>14, <1>15, <1>16 DEF load_dep

\* A walk that is over and has named nothing has the past of its commit in the
\* branch: every body was there, so it stopped at Branch commits only.
LEMMA WalkWhole ==
  ASSUME TypeOK, CheckInv, wait = {}, missing = {}
  PROVE  Past(Followed(Commits), checking, Commits) \subseteq local \cap bodies
<1>1. PICK R : R = Range(seen)
  OBVIOUS
<1>2. R \in SUBSET Commits /\ R \subseteq local
  BY <1>1, WalkType DEF TypeOK
<1>3. checking \subseteq R /\ R \subseteq bodies
  BY <1>1 DEF CheckInv, SeenFrom, SeenClosed
<1>4. PICK g : g = Followed(Commits)
  OBVIOUS
<1>5. \A c \in R : \A d \in g[c] : d \in Followed(bodies)[c]
  BY <1>2, <1>3, <1>4, FollowedPair
<1>6. \A c \in R : \A d \in g[c] : d \in Commits => d \in R
  BY <1>1, <1>5 DEF CheckInv, SeenClosed
<1>7. Past(g, checking, Commits) \subseteq R
  BY <1>2, <1>3, <1>6, PastLeast
<1> QED BY <1>2, <1>3, <1>4, <1>7

LEMMA VerifyDepsCheck ==
  ASSUME TypeOK, CheckInv, verify_deps
  PROVE  CheckInv'
<1>1. /\ checking' = {} /\ seen' = << >> /\ missing' = {} /\ wait' = {}
      /\ dep' = dep /\ detail' = detail /\ local' = local /\ bodies' = bodies
  BY DEF verify_deps, branch
<1>2. CheckClean' /\ SeenFrom' /\ SeenClosed' /\ MissingFrom'
  <2>1. Range(seen') = {}
    BY <1>1, RangeEmpty
  <2> QED BY <1>1, <2>1 DEF CheckClean, SeenFrom, SeenClosed, MissingFrom
<1>3. PICK g : g = Followed(Commits) /\ g = Followed(Commits)'
  BY <1>1, FollowedSame
<1>4. Past(g, accepted, Commits) \subseteq local \cap bodies
  BY <1>3 DEF CheckInv, AcceptedWhole
<1>5. Past(g, accepted', Commits) \subseteq local \cap bodies
  <2>1. CASE missing = {}
    <3>1. Past(g, checking, Commits) \subseteq local \cap bodies
      BY <1>3, <2>1, WalkWhole DEF verify_deps
    <3>2. checking \in SUBSET Commits /\ accepted \in SUBSET Commits
      BY DEF TypeOK
    <3>3. \A c \in Commits : g[c] \subseteq Commits
      BY <1>3, FollowedIn
    <3>4. Past(g, accepted \cup checking, Commits)
            \subseteq Past(g, accepted, Commits) \cup Past(g, checking, Commits)
      BY <3>2, <3>3, PastUnion
    <3>5. accepted' = accepted \cup checking
      BY <2>1 DEF verify_deps
    <3> QED BY <1>4, <3>1, <3>4, <3>5
  <2>2. CASE missing # {}
    BY <1>4, <2>2 DEF verify_deps
  <2> QED BY <2>1, <2>2
<1>6. AcceptedWhole'
  BY <1>1, <1>3, <1>5 DEF AcceptedWhole
<1> QED BY <1>2, <1>6 DEF CheckInv

LEMMA NextCheck ==
  ASSUME TypeOK, CheckInv, [Next]_vars
  PROVE  CheckInv'
<1>1. CASE \/ \E hs \in HeadSets, f \in Filters : sync_branch(hs, f)
           \/ \E h \in left : take_head(h)
           \/ \E e \in todo : load_branch(e)
           \/ all_heads \/ sync_error
           \/ \E c \in sync_req : send(c)
  BY <1>1, CheckFrame DEF Grows, sync_branch, take_head, load_branch, all_heads, sync_error, send
<1>2. CASE reply
  BY <1>2, CheckFrame DEF Grows, reply
<1>3. CASE \E c \in Commits : create(c) \/ upload(c) \/ remove(c) \/ fetch_body(c)
  BY <1>3, CheckFrame DEF Grows, create, upload, remove, fetch_body
<1>4. CASE UNCHANGED vars
  BY <1>4, CheckFrame DEF Grows, vars
<1> QED BY <1>1, <1>2, <1>3, <1>4, VerifyCheck, LoadDepCheck, VerifyDepsCheck DEF Next

-----------------------------------------------------------------------------
LEMMA InvHolds == Spec => []IInv
<1>1. Init => IInv
  BY InitType, InitSync, InitCheck DEF IInv
<1>2. IInv /\ [Next]_vars => IInv'
  BY NextType, NextSync, NextCheck DEF IInv
<1> QED BY <1>1, <1>2, PTL DEF Spec

\* A reply has nothing that the client said it has, and nothing that the heads it
\* asked for never stood on (Branch::sync_req), whatever the broker gains and
\* loses between two loads of the walks.
THEOREM SyncsMinimal == Spec => []SyncMinimal
<1>1. IInv => SyncMinimal
  BY InvMinimal DEF IInv
<1> QED BY <1>1, InvHolds, PTL

\* A reply leaves a client without gaps without gaps, and with all that the heads
\* it asked for stand on, if the broker has it as long as the request takes
\* (Branch::sync_req, sync_branch in server.rs).
THEOREM SyncsComplete == Spec => []SyncComplete
<1>1. IInv => SyncComplete
  BY InvComplete DEF IInv
<1> QED BY <1>1, InvHolds, PTL

\* Commit::verify accepts a commit only with its past in the branch, down to the
\* Branch commits at which verify_deps stops, and all the bodies in the client's
\* store; nothing is assumed of the dependencies of a Branch commit.
THEOREM AcceptedIsWhole == Spec => []AcceptedWhole
<1>1. IInv => AcceptedWhole
  BY DEF IInv, CheckInv
<1> QED BY <1>1, InvHolds, PTL

\* Commit::verify_deps names all that is lacking of what it could reach when it
\* began without going past a Branch commit, and nothing else, though commits and
\* bodies arrive while it walks.
THEOREM MissingIsNamed == Spec => []MissingNamed
<1>1. IInv => MissingNamed
  BY InvMissing DEF IInv
<1> QED BY <1>1, InvHolds, PTL
=============================================================================
