-------------------------- MODULE RetentionPolicy --------------------------
(***************************************************************************)
(* What the block store promises about the blocks it keeps, without its    *)
(* indexes: which blocks may leave the store, when, and in which order.    *)
(* A block leaves because it is deleted, because it has expired, or        *)
(* because room is made; then it is one that was synced, is not pinned,    *)
(* and has not been used for the longest time.                             *)
(***************************************************************************)
EXTENDS Naturals

CONSTANTS Blocks, Expiry, NoMeta

VARIABLES
  blocks,    \* blocks in the store
  meta,      \* pin, synced and last use of each block, or NoMeta
  now,       \* current minute
  activity,  \* the call in progress: "idle", "get", "expire" or "evict"
  answer     \* how the last call ended: "ok", "notfound" or "panic"

vars == <<blocks, meta, now, activity, answer>>

Init ==
  /\ blocks = {}
  /\ meta = [b \in Blocks |-> NoMeta]
  /\ now = 1
  /\ activity = "idle"
  /\ answer = "ok"

Known(b) == meta[b] # NoMeta

Pinned(b) == Known(b) /\ meta[b].pin

Evictable(b) == Known(b) /\ meta[b].synced /\ ~ meta[b].pin

\* b was last used before c; ties go by identifier.
UsedBefore(b, c) ==
  \/ meta[b].last_used < meta[c].last_used
  \/ meta[b].last_used = meta[c].last_used /\ b < c

LeastUsed(b) ==
  Evictable(b) /\ \A c \in Blocks \ {b} : Evictable(c) => UsedBefore(b, c)

Leave(b) ==
  /\ b \in blocks
  /\ blocks' = blocks \ {b}
  /\ meta' = [meta EXCEPT ![b] = NoMeta]

Store(b) ==
  /\ activity = "idle"
  /\ blocks' = blocks \cup {b}
  /\ UNCHANGED meta

Delete(b) == activity = "idle" /\ Leave(b)

Expire(b) ==
  /\ activity = "expire"
  /\ b \in DOMAIN Expiry /\ Expiry[b] <= now
  /\ Leave(b)

Evict(b) == activity = "evict" /\ LeastUsed(b) /\ Leave(b)

Pin(b, m) ==
  /\ ~ Pinned(b)
  /\ m.pin
  /\ m.synced = (Known(b) /\ meta[b].synced)
  /\ m.last_used = IF Known(b) THEN meta[b].last_used ELSE 0

Unpin(b, m) ==
  /\ Pinned(b)
  /\ m = [meta[b] EXCEPT !.pin = FALSE]

Sync(b, m) ==
  /\ ~ (Known(b) /\ meta[b].synced)
  /\ m.pin = Pinned(b)
  /\ m.synced

\* A use is recorded for synced blocks in the store only.
Use(b, m) ==
  /\ activity = "get"
  /\ b \in blocks /\ Known(b) /\ meta[b].synced
  /\ m = [meta[b] EXCEPT !.last_used = now]

Mark(b) ==
  /\ UNCHANGED blocks
  /\ meta' = [meta EXCEPT ![b] = meta'[b]]
  /\ meta'[b] # NoMeta
  /\ \/ /\ activity = "idle"
        /\ Pin(b, meta'[b]) \/ Unpin(b, meta'[b]) \/ Sync(b, meta'[b])
     \/ Use(b, meta'[b])

\* A call begins, or ends without effect on the blocks.
Turn ==
  /\ answer' \in {answer, "ok"}
  /\ UNCHANGED <<blocks, meta, now>>

\* A call that fails leaves everything as it was.
Fail ==
  /\ answer' = "panic" \/ (answer' = "notfound" /\ blocks # Blocks)
  /\ UNCHANGED <<blocks, meta, now>>

Pass ==
  /\ now' = now + 1
  /\ UNCHANGED <<blocks, meta, activity, answer>>

Next ==
  \/ /\ \E b \in Blocks :
           Store(b) \/ Delete(b) \/ Expire(b) \/ Evict(b) \/ Mark(b)
     /\ answer' = "ok"
     /\ UNCHANGED now
  \/ Turn
  \/ Fail
  \/ Pass

Spec == Init /\ [][Next]_vars
=============================================================================
