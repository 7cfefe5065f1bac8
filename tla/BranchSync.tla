----------------------------- MODULE BranchSync -----------------------------
(***************************************************************************)
(* A branch is a graph of commits.  A client keeps some of them, a broker  *)
(* others, in any order of arrival; the client asks the broker for what    *)
(* lies between the heads it heard of and its own (Branch::sync_req in     *)
(* lofire branch.rs, sync_branch in lofire-broker server.rs and            *)
(* connection.rs), then checks the commits it got (Commit::verify in       *)
(* commit.rs).                                                             *)
(*                                                                         *)
(* An object is in a store or not: Object::load answers MissingBlocks      *)
(* unless all of it is there (LoadExact of ObjectSave).  The dependencies  *)
(* of a commit's object are the deps and acks of the commit; its body is   *)
(* an object of its own, which the broker cannot see from the commit.      *)
(*                                                                         *)
(* Both walks of the graph load one object at a time, each in a            *)
(* transaction of its own.  The broker serves other requests meanwhile     *)
(* (sync_branch holds read locks only), so commits come and go between two *)
(* steps of a walk; the client's store only grows.                         *)
(***************************************************************************)
EXTENDS Naturals, Sequences, FiniteSetsExt

CONSTANTS
  Commits,      \* the commits of the branch
  Graphs,       \* the graphs they may form: the deps and acks of each
  Details,      \* what the commits may be: author, type and signature of each
  Members,      \* members of the branch, in order
  HeadSets,     \* the heads a client may ask for
  Unlucky,      \* commits its filter may say yes for without having them
  MaxGaps,      \* bound on the commits the broker lacks at first
  MaxChanges    \* bound on what the broker gains and loses and on the bodies fetched

ASSUME GraphsAssumption == Graphs \subseteq [Commits -> SUBSET Commits]

ASSUME RequestsAssumption == HeadSets \subseteq SUBSET Commits /\ Unlucky \subseteq Commits

ASSUME BoundsAssumption == MaxGaps \in Nat /\ MaxChanges \in Nat

VARIABLES
  dep,         \* deps and acks of each commit
  detail,      \* author, type and signature of each commit
  broker,      \* commits in the broker's store
  local,       \* commits in the client's store
  bodies,      \* commits whose body is in the client's store
  changes,     \* number of uploads, removals and bodies fetched
  step,        \* what sync_branch is at
  heads,       \* the request: heads asked for,
  known,       \* heads the client has,
  filter,      \* and commits its filter says yes for
  left,        \* heads sync_req has not taken yet
  visited,     \* commits of the current head's walk, in the order entered
  todo,        \* dependencies the walk has not looked at
  ours,        \* commits collected from the heads asked for
  theirs,      \* commits collected from the known heads
  sent,        \* commits put in the reply
  kept,        \* history: commits the broker has had since the request,
  held,        \* and those it has had at some time since
  checking,    \* the commit under verify, if any
  seen,        \* commits of its walk, in the order entered
  wait,        \* dependencies the walk has not looked at
  missing,     \* objects it did not find
  had,         \* history: the client's commits and bodies when verify began
  hadBodies,
  accepted     \* commits that verify has accepted

branch == <<dep, detail>>
request == <<step, heads, known, filter>>
walk == <<left, visited, todo, ours, theirs, sent>>
history == <<kept, held>>
check == <<checking, seen, wait, missing, had, hadBodies, accepted>>
vars == <<branch, broker, local, bodies, changes, request, walk, history, check>>

\* The commits that no other commit of the set depends on.
Heads(S) == {c \in S : \A d \in S : c \notin dep[d]}

\* The filter of a request has the commits of the client, or none, and may say
\* yes for another one.
Filters == {{}, local} \cup {local \cup {c} : c \in Unlucky}

Roots == {c \in Commits : dep[c] = {}}
Dependencies(c) == {c} \X dep[c]

Body(c) == <<"body", c>>
Object(c) == <<"commit", c>>
Objects == {"body", "commit"} \X Commits

TypeOK ==
  /\ dep \in Graphs /\ detail \in Details
  /\ broker \subseteq Commits /\ local \subseteq Commits
  /\ bodies \subseteq local
  /\ changes \in 0..MaxChanges
  /\ step \in {"idle", "ours", "theirs", "send"}
  /\ heads \subseteq Commits /\ known \subseteq local /\ filter \subseteq Commits
  /\ left \subseteq heads \cup known
  /\ visited \in Seq(Commits) /\ todo \subseteq Commits \X Commits
  /\ ours \subseteq Commits /\ theirs \subseteq Commits /\ sent \subseteq ours
  /\ kept \subseteq broker /\ held \subseteq Commits
  /\ checking \subseteq local
  /\ seen \in Seq(local) /\ wait \subseteq Commits \X Commits
  /\ missing \subseteq Objects
  /\ had \subseteq local /\ hadBodies \subseteq bodies
  /\ accepted \subseteq local

Init ==
  /\ dep \in Graphs /\ detail \in Details
  /\ broker \in {S \in SUBSET Commits : Cardinality(Commits \ S) <= MaxGaps}
  /\ local \in SUBSET Roots /\ bodies = {}
  /\ changes = 0
  /\ step = "idle" /\ heads = {} /\ known = {} /\ filter = {}
  /\ left = {} /\ visited = << >> /\ todo = {}
  /\ ours = {} /\ theirs = {} /\ sent = {}
  /\ kept = {} /\ held = {}
  /\ checking = {} /\ seen = << >> /\ wait = {} /\ missing = {}
  /\ had = {} /\ hadBodies = {} /\ accepted = {}

\* A depth-first walk goes on with the commit entered last that has
\* dependencies not looked at.
Deepest(e, order, edges) ==
  /\ e \in edges
  /\ \A f \in edges, i, j \in DOMAIN order :
       order[i] = e[1] /\ order[j] = f[1] => j <= i

-----------------------------------------------------------------------------
(***************************************************************************)
(* Branch::sync_req on the broker.                                         *)
(***************************************************************************)

\* The client names its own heads.
sync_branch(hs, f) ==
  /\ step = "idle"
  /\ step' = "ours" /\ heads' = hs /\ known' = Heads(local) /\ filter' = f
  /\ left' = hs
  /\ kept' = broker /\ held' = broker
  /\ UNCHANGED <<branch, broker, local, bodies, changes, visited, todo, ours, theirs, sent, check>>

\* The walk from the heads asked for stops at their heads.
their_heads == IF step = "ours" THEN known ELSE {}
Stops(c) == dep[c] = {} \/ c \in their_heads

\* Mutant: only what the last head led to is collected.
extend_last(found) == Range(visited)

\* What the walk from one head visited is added to what was found before.
extend(found) == found \cup Range(visited)

\* load_branch on a commit that was loaded, in a walk that has visited order.
enter(c, order, rest) ==
  /\ visited' = IF Stops(c) THEN order ELSE Append(order, c)
  /\ todo' = IF Stops(c) THEN rest ELSE rest \cup Dependencies(c)

\* Once a head's walk is over, the next head is loaded, and walked from anew.
take_head(h) ==
  /\ step \in {"ours", "theirs"} /\ todo = {} /\ h \in left \cap broker
  /\ left' = left \ {h}
  /\ ours' = IF step = "ours" THEN extend(ours) ELSE ours
  /\ theirs' = IF step = "theirs" THEN extend(theirs) ELSE theirs
  /\ enter(h, << >>, {})
  /\ UNCHANGED <<branch, broker, local, bodies, changes, request, sent, history, check>>

\* The next dependency: one that is missing is passed over, one that has been
\* visited is not entered again.
load_branch(e) ==
  /\ Deepest(e, visited, todo)
  /\ \/ /\ e[2] \in broker \ Range(visited)
        /\ enter(e[2], visited, todo \ {e})
     \/ /\ e[2] \notin broker \ Range(visited)
        /\ todo' = todo \ {e} /\ UNCHANGED visited
  /\ UNCHANGED <<branch, broker, local, bodies, changes, request,
                 left, ours, theirs, sent, history, check>>

\* All heads of one side are done: on to theirs, then to the reply.
all_heads ==
  /\ step \in {"ours", "theirs"} /\ todo = {} /\ left = {}
  /\ \/ /\ step = "ours"
        /\ step' = "theirs" /\ left' = known
        /\ ours' = extend(ours) /\ UNCHANGED theirs
     \/ /\ step = "theirs"
        /\ step' = "send" /\ left' = {}
        /\ theirs' = extend(theirs) /\ UNCHANGED ours
  /\ visited' = << >>
  /\ UNCHANGED <<branch, broker, local, bodies, changes, heads, known, filter,
                 todo, sent, history, check>>

\* Mutant: what their heads stand on is not taken off.
sync_req_ours == ours \ filter

\* The filter answers yes for its members, and maybe for others.
sync_req == (ours \ theirs) \ filter

\* sync_branch loads each commit that sync_req found and puts it in the reply.
send(c) ==
  /\ step = "send" /\ c \in (sync_req \ sent) \cap broker
  /\ sent' = sent \cup {c}
  /\ UNCHANGED <<branch, broker, local, bodies, changes, request,
                 left, visited, todo, ours, theirs, history, check>>

over ==
  /\ step' = "idle" /\ heads' = {} /\ known' = {} /\ filter' = {}
  /\ left' = {} /\ visited' = << >> /\ todo' = {}
  /\ ours' = {} /\ theirs' = {} /\ sent' = {}
  /\ kept' = {} /\ held' = {}

\* A head that is missing, or a commit that has gone since sync_req found it,
\* is an error, and the client receives nothing.
sync_error ==
  /\ \/ step \in {"ours", "theirs"} /\ todo = {} /\ ~ (left \subseteq broker)
     \/ step = "send" /\ ~ (sync_req \ sent \subseteq broker)
  /\ over
  /\ UNCHANGED <<branch, broker, local, bodies, changes, check>>

\* The client stores what it receives.
reply ==
  /\ step = "send" /\ sent = sync_req
  /\ local' = local \cup sent
  /\ over
  /\ UNCHANGED <<branch, broker, bodies, changes, check>>

-----------------------------------------------------------------------------
(***************************************************************************)
(* Commit::verify on the client.                                           *)
(***************************************************************************)

to_type(c) == detail[c].type

verify_sig(c) == detail[c].signed

\* The first member with the key.
is_member(key) == \E i \in DOMAIN Members : Members[i].id = key
get_member(key) == Members[Min({i \in DOMAIN Members : Members[i].id = key})]

has_perm(member, commit_type) == commit_type \in member.commit_types

verify_perm(c) ==
  /\ is_member(detail[c].author)
  /\ has_perm(get_member(detail[c].author), to_type(c))

\* Mutant: a commit whose body is missing is not walked past.
visit_stop(c, rest) ==
  /\ seen' = Append(seen, c)
  /\ missing' = missing \cup (IF c \in bodies THEN {} ELSE {Body(c)})
  /\ wait' = rest \cup (IF c \notin bodies THEN {} ELSE Dependencies(c))

\* load_branch of verify_deps on a commit not visited before: one whose body is
\* missing is not known to be the root, and its dependencies are looked for too.
visit(c, rest) ==
  /\ seen' = Append(seen, c)
  /\ missing' = missing \cup (IF c \in bodies THEN {} ELSE {Body(c)})
  /\ wait' = rest \cup (IF c \in bodies /\ to_type(c) = "Branch" THEN {} ELSE Dependencies(c))

\* verify looks at the commit itself, then walks what it stands on.
verify(c) ==
  /\ checking = {} /\ c \in local
  /\ verify_sig(c) /\ c \in bodies /\ verify_perm(c)
  /\ checking' = {c}
  /\ visit(c, {})
  /\ had' = local /\ hadBodies' = bodies
  /\ UNCHANGED <<branch, broker, local, bodies, changes, request, walk, history, accepted>>

\* The next dependency.
load_dep(e) ==
  /\ Deepest(e, seen, wait)
  /\ \/ e[2] \in local \ Range(seen) /\ visit(e[2], wait \ {e})
     \/ /\ e[2] \in Range(seen)
        /\ wait' = wait \ {e} /\ UNCHANGED <<seen, missing>>
     \/ /\ e[2] \notin local
        /\ missing' = missing \cup {Object(e[2])}
        /\ wait' = wait \ {e} /\ UNCHANGED seen
  /\ UNCHANGED <<branch, broker, local, bodies, changes, request, walk, history,
                 checking, had, hadBodies, accepted>>

\* Mutant: what verify_deps did not find is no error of verify.
verify_deps_quiet ==
  /\ checking # {} /\ wait = {}
  /\ accepted' = accepted \cup checking
  /\ checking' = {} /\ seen' = << >> /\ missing' = {} /\ had' = {} /\ hadBodies' = {}
  /\ UNCHANGED <<branch, broker, local, bodies, changes, request, walk, history, wait>>

\* verify_deps answers with the objects it did not find; without any, the commit
\* is accepted.
verify_deps ==
  /\ checking # {} /\ wait = {}
  /\ accepted' = IF missing = {} THEN accepted \cup checking ELSE accepted
  /\ checking' = {} /\ seen' = << >> /\ missing' = {} /\ had' = {} /\ hadBodies' = {}
  /\ UNCHANGED <<branch, broker, local, bodies, changes, request, walk, history, wait>>

-----------------------------------------------------------------------------
\* Mutant: the body is saved and the commit is not.
create_body(c) ==
  /\ c \notin local /\ dep[c] \subseteq local
  /\ bodies' = bodies \cup {c}
  /\ UNCHANGED <<branch, broker, local, changes, request, walk, history, check>>

\* The client makes a commit on top of those it has (Commit::new, Object::save).
create(c) ==
  /\ c \notin local /\ dep[c] \subseteq local
  /\ local' = local \cup {c}
  /\ bodies' = bodies \cup {c}
  /\ UNCHANGED <<branch, broker, changes, request, walk, history, check>>

\* A commit reaches the broker, from this client or from another one.
upload(c) ==
  /\ c \notin broker /\ changes < MaxChanges
  /\ broker' = broker \cup {c}
  /\ changes' = changes + 1
  /\ held' = IF step = "idle" THEN held ELSE held \cup {c}
  /\ UNCHANGED <<branch, local, bodies, request, walk, kept, check>>

\* The broker deletes a commit, or it expires.
remove(c) ==
  /\ c \in broker /\ changes < MaxChanges
  /\ broker' = broker \ {c}
  /\ changes' = changes + 1
  /\ kept' = kept \ {c}
  /\ UNCHANGED <<branch, local, bodies, request, walk, held, check>>

\* The client gets the body of a commit with get_object.
fetch_body(c) ==
  /\ c \in local \ bodies /\ changes < MaxChanges
  /\ bodies' = bodies \cup {c}
  /\ changes' = changes + 1
  /\ UNCHANGED <<branch, broker, local, request, walk, history, check>>

Next ==
  \/ \E hs \in HeadSets, f \in Filters : sync_branch(hs, f)
  \/ \E h \in left : take_head(h)
  \/ \E e \in todo : load_branch(e)
  \/ all_heads \/ sync_error \/ reply
  \/ \E c \in sync_req : send(c)
  \/ \E e \in wait : load_dep(e)
  \/ verify_deps
  \/ \E c \in Commits : verify(c) \/ create(c) \/ upload(c) \/ remove(c) \/ fetch_body(c)

Spec == Init /\ [][Next]_vars

-----------------------------------------------------------------------------
\* What a set of commits of a graph stands on, itself included, within a set of
\* commits: the smallest set that has it and what its members depend on there.
Past(g, S, within) ==
  {c \in Commits : \A T \in SUBSET Commits :
     S \subseteq T /\ (\A d \in T : g[d] \cap within \subseteq T) => c \in T}

\* Every commit's dependencies are there, but for a root.
Closed(S) == \A c \in S : dep[c] \ Roots \subseteq S

\* A reply never sends what the client said it has: the commits its heads stand
\* on, as far as the broker had them all along, and those of the filter; nor what
\* the heads asked for never stood on in the broker's store.
SyncMinimal ==
  step = "send" => /\ sync_req \cap (filter \cup Past(dep, known, kept)) = {}
                   /\ sync_req \subseteq Past(dep, heads, held)

\* A client without gaps that asks for heads whose past the broker has all along
\* has none after the reply, whatever the shape of the graph and whatever else
\* comes and goes, unless the filter says yes for a commit it does not have; only
\* the root is never sent.
SyncComplete ==
  /\ step = "send" /\ sent = sync_req
  /\ Closed(local) /\ filter \subseteq local
  /\ Past(dep, heads, Commits) \cup known \subseteq kept
  => /\ Closed(local \cup sent)
     /\ Past(dep, heads, Commits) \ Roots \subseteq local \cup sent

\* The graph of a branch: the Branch commit begins it.  The dependencies of one
\* that has some are the heads of the branch it forks from, which are not looked
\* for; but without its body a commit is not known to be a Branch commit.
Followed(withBody) ==
  [c \in Commits |-> IF c \in withBody /\ to_type(c) = "Branch" THEN {} ELSE dep[c]]

\* A commit that verify has accepted has its past in the branch, down to the Branch
\* commits, with all the bodies in the client's store, though replies may have had
\* gaps and though the branch may be a fork of one that the client does not have.
AcceptedWhole == Past(Followed(Commits), accepted, Commits) \subseteq local \cap bodies

\* The bodies of a set of commits that are not among some, and the commits they
\* depend on that are not among others.
Lacking(reached, withBody, present) ==
  {Body(c) : c \in reached \ withBody}
    \cup {Object(c) : c \in (UNION {Followed(withBody)[d] : d \in reached}) \ present}

\* verify_deps names what must be fetched next: all that what it reached when it
\* began still lacks, and nothing that was there when it began.  What lies beyond a
\* Branch commit is named if the body was not there to tell, and not if it was.
MissingNamed ==
  checking # {} /\ wait = {} =>
    /\ Lacking(Past(Followed(bodies), checking, had), bodies, local) \subseteq missing
    /\ missing \subseteq Lacking(Past(Followed(hadBodies), checking, local), hadBodies, had)
=============================================================================
