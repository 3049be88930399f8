---------------------------- MODULE TaperExpand -----------------------------
(***************************************************************************)
(* The table's state and TaperHashMap::expand, the doubling of the table    *)
(* with its iterative rehash.  The modules of the insertion paths extend    *)
(* this one and interleave nothing with it: while pc is "rehash" only the   *)
(* actions below are enabled, and then control goes on at `after'.          *)
(***************************************************************************)
EXTENDS TaperTable

VARIABLES
    num_chunks,     \* a power of two; mask = num_chunks - 1
    chunks,         \* [0 .. num_chunks - 1 -> [Slots -> Slot]]
    size,           \* slots in use, as the code counts them
    entries,        \* expand's entries, by the old location they were read at
    positions,      \* the chunk each entry is tried at next
    todo,           \* active_indices not yet visited in this round
    collided,       \* collision_indices of this round
    rehash_batch,   \* expand's collision_batch
    pc,             \* where the program is
    after           \* where expand returns to

tableVars == <<num_chunks, chunks, size>>
rehashVars == <<entries, positions, todo, collided, rehash_batch, after>>

NoEntries == [l \in {} |-> EmptySlot]

ExpandInit(n) ==
    /\ num_chunks = n
    /\ chunks = AllocChunks(n)
    /\ size = 0
    /\ entries = NoEntries /\ positions = NoEntries
    /\ todo = {} /\ collided = {}
    /\ rehash_batch = 1
    /\ after = "idle"

(* Mutant: the mask of the old table is still in use. *)
EntryHome_stale(n, l) == ChunkPos(n \div 2, At(chunks, l).key)

(* Where the entry at the old location l is first tried in n chunks. *)
EntryHome(n, l) == ChunkPos(n, At(chunks, l).key)

(***************************************************************************)
(* The call of expand: the new chunks, the entries of the old ones and the  *)
(* home position of each in the new ones.                                   *)
(***************************************************************************)
StartExpand(return) ==
    LET n == 2 * num_chunks
        old == Occupied(chunks) IN
    /\ num_chunks' = n
    /\ chunks' = AllocChunks(n)
    /\ size' = 0
    /\ entries' = [l \in old |-> At(chunks, l)]
    /\ positions' = [l \in old |-> EntryHome(n, l)]
    /\ todo' = old
    /\ collided' = {}
    /\ rehash_batch' = 1
    /\ pc' = "rehash"
    /\ after' = return

(***************************************************************************)
(* Entries are collected chunk by chunk and slot by slot, and every round   *)
(* keeps that order.                                                        *)
(***************************************************************************)
Before(l, m) == l[1] < m[1] \/ (l[1] = m[1] /\ l[2] < m[2])
IsNext(l) == l \in todo /\ \A m \in todo \ {l} : Before(l, m)

(* No key is compared: the entry goes to the first empty slot. *)
RehashPlace ==
    /\ pc = "rehash"
    /\ \E l \in todo :
         /\ IsNext(l)
         /\ \E s \in Slots :
              /\ IsLowest(s, MatchEmpty(chunks[positions[l]]))
              /\ chunks' = Fill(chunks, positions[l], s, entries[l].key, entries[l].value)
         /\ todo' = todo \ {l}
    /\ size' = size + 1
    /\ UNCHANGED <<num_chunks, entries, positions, collided, rehash_batch, pc, after>>

RehashCollide ==
    /\ pc = "rehash"
    /\ \E l \in todo :
         /\ IsNext(l)
         /\ IsFull(chunks[positions[l]])
         /\ positions' = [positions EXCEPT ![l] = RehashPos(num_chunks, rehash_batch, @)]
         /\ collided' = collided \cup {l}
         /\ todo' = todo \ {l}
    /\ UNCHANGED <<tableVars, entries, rehash_batch, pc, after>>

RehashRound ==
    /\ pc = "rehash" /\ todo = {} /\ collided # {}
    /\ todo' = collided
    /\ collided' = {}
    /\ rehash_batch' = rehash_batch + 1
    /\ UNCHANGED <<tableVars, entries, positions, pc, after>>

(* Mutant: a single round, whatever has collided in it. *)
RehashDone_early ==
    /\ pc = "rehash" /\ todo = {}
    /\ entries' = NoEntries /\ positions' = NoEntries
    /\ rehash_batch' = 1
    /\ pc' = after
    /\ after' = "idle"
    /\ collided' = {}
    /\ UNCHANGED <<tableVars, todo>>

(* expand returns: its locals are gone. *)
RehashDone ==
    /\ pc = "rehash" /\ todo = {} /\ collided = {}
    /\ entries' = NoEntries /\ positions' = NoEntries
    /\ rehash_batch' = 1
    /\ pc' = after
    /\ after' = "idle"
    /\ UNCHANGED <<tableVars, todo, collided>>

ExpandStep == RehashPlace \/ RehashCollide \/ RehashRound \/ RehashDone

(***************************************************************************)
(* What the program still holds: the slots of the table and, during a       *)
(* rehash, the entries not yet placed.                                      *)
(***************************************************************************)
Pending == todo \cup collided
Held == {At(chunks, l) : l \in Occupied(chunks)} \cup {entries[l] : l \in Pending}
=============================================================================
