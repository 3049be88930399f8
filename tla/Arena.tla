------------------------------- MODULE Arena -------------------------------
(***************************************************************************)
(* The bump allocator below the rows and the varchar bytes:                 *)
(* SimpleArenaAllocator of rust/src/row_container.rs, and what the C++      *)
(* class of that name shares with it.  An address is a chunk's number and a *)
(* byte offset in it.                                                       *)
(***************************************************************************)
EXTENDS Naturals, Sequences, FiniteSets

CONSTANTS
    MIN_CHUNK_SIZE,            \* 4096 in the code
    GROWTH_FACTOR,             \* 2
    LINEAR_GROWTH_THRESHOLD    \* 512 * 1024

ASSUME ArenaAssumption ==
    /\ MIN_CHUNK_SIZE \in Nat \ {0}
    /\ GROWTH_FACTOR \in Nat \ {0}
    /\ LINEAR_GROWTH_THRESHOLD \in Nat \ {0}

VARIABLES
    chunk_sizes,    \* the chunks, oldest first
    avail_buf       \* offset of the free bytes of the last chunk

arenaVars == <<chunk_sizes, avail_buf>>

ArenaInit == chunk_sizes = <<>> /\ avail_buf = 0

(* An arena as a value; a row and its varchars are two requests of one step. *)
Current == [sizes |-> chunk_sizes, at |-> avail_buf]
BecomeArena(arena) == chunk_sizes' = arena.sizes /\ avail_buf' = arena.at

NumChunks == Len(chunk_sizes)
Available(arena) ==
    IF arena.sizes = <<>> THEN 0 ELSE arena.sizes[Len(arena.sizes)] - arena.at

MaxOf(a, b) == IF a > b THEN a ELSE b

(* Mutant: past the threshold a chunk has the threshold's size. *)
NextChunkSize_threshold(sizes, size) ==
    IF sizes = <<>> THEN MaxOf(size, MIN_CHUNK_SIZE)
    ELSE LET last == sizes[Len(sizes)] IN
         IF last < LINEAR_GROWTH_THRESHOLD THEN MaxOf(size, last * GROWTH_FACTOR)
         ELSE LINEAR_GROWTH_THRESHOLD

(* Exponential growth up to the threshold, then multiples of it. *)
NextChunkSize(sizes, size) ==
    IF sizes = <<>> THEN MaxOf(size, MIN_CHUNK_SIZE)
    ELSE LET last == sizes[Len(sizes)] IN
         IF last < LINEAR_GROWTH_THRESHOLD THEN MaxOf(size, last * GROWTH_FACTOR)
         ELSE ((size + LINEAR_GROWTH_THRESHOLD - 1) \div LINEAR_GROWTH_THRESHOLD)
                 * LINEAR_GROWTH_THRESHOLD

(* Where the next `size' bytes of an arena are, for a size above 0. *)
PlacedIn(arena, size) ==
    IF Available(arena) < size THEN [chunk |-> Len(arena.sizes) + 1, at |-> 0]
                               ELSE [chunk |-> Len(arena.sizes), at |-> arena.at]
Placed(size) == PlacedIn(Current, size)

(* The arena after handing them out. *)
Allocated(arena, size) ==
    LET a == PlacedIn(arena, size) IN
    [sizes |-> IF a.chunk > Len(arena.sizes)
                 THEN Append(arena.sizes, NextChunkSize(arena.sizes, size)) ELSE arena.sizes,
     at |-> a.at + size]
=============================================================================
