------------------------------- MODULE Zmalloc -------------------------------
(***************************************************************************)
(* redis-3.0-network/src/zmalloc.c, built without a malloc_size of the     *)
(* library: every allocation has its size in front of it and used_memory   *)
(* is updated after or before the call of the allocator, atomically once   *)
(* zmalloc_enable_thread_safeness was called.  Running out of memory       *)
(* aborts the program and is left out.                                     *)
(***************************************************************************)
EXTENDS Integers, Sequences, FiniteSetsExt, Functions

CONSTANTS
  Allocators,   \* the threads
  MainThread,   \* the one that runs first
  Blocks,       \* bound: allocations alive at the same time
  Sizes,        \* the sizes asked for
  Word,         \* sizeof(long)
  SizeT         \* 2^w: the number of values of size_t

ASSUME ZmallocAssumption ==
  /\ MainThread \in Allocators /\ Sizes \subseteq Nat /\ Word \in Nat \ {0} /\ SizeT \in Nat \ {0}
  /\ IsFiniteSet(Allocators) /\ IsFiniteSet(Blocks)

VARIABLES
  used_memory,
  zmalloc_thread_safe,
  started,      \* the threads that run
  header,       \* the size stored in front of each block, None if it is free
  todo,         \* each thread: updates of used_memory its call still makes
  loaded,       \* each thread: used_memory as it read it, None between updates
  using,        \* each thread: the block of the call in progress, or None
  frees         \* each thread: whether that call ends by freeing the block

zmallocVars == <<used_memory, zmalloc_thread_safe, started, header, todo, loaded, using, frees>>

None == -1
PREFIX_SIZE == Word
RoundUp(n) == IF n % Word = 0 THEN n ELSE n + (Word - (n % Word))
zmalloc_size(b) == RoundUp(header[b]) + PREFIX_SIZE

(* Blocks that are alive at the same time fit into the address space, and  *)
(* None is not the address of one.                                         *)
ASSUME SpaceAssumption ==
  /\ None \notin Blocks
  /\ \E m \in 0..SizeT : /\ \A n \in Sizes : RoundUp(n) + PREFIX_SIZE <= m
                         /\ Cardinality(Blocks) * m < SizeT

Ready(t) == t \in started /\ using[t] = None
(* A block is used by one thread at a time: that is up to the caller.      *)
Usable(b) == header[b] # None /\ \A t \in Allocators : using[t] # b
Uses(t, b, f) == using' = [using EXCEPT ![t] = b] /\ frees' = [frees EXCEPT ![t] = f]

-----------------------------------------------------------------------------
(* zmalloc, zcalloc and zstrdup.                                           *)
zmalloc(t, b, size) ==
  /\ Ready(t) /\ header[b] = None
  /\ header' = [header EXCEPT ![b] = size]
  /\ todo' = [todo EXCEPT ![t] = <<RoundUp(size + PREFIX_SIZE)>>]
  /\ Uses(t, b, FALSE)
  /\ UNCHANGED <<used_memory, zmalloc_thread_safe, started, loaded>>
(* Mutant: the new size is read back for both updates.                     *)
zreallocNewSizeTwice(t, b, size) ==
  /\ Ready(t) /\ Usable(b)
  /\ header' = [header EXCEPT ![b] = size]
  /\ todo' = [todo EXCEPT ![t] = <<-RoundUp(size), RoundUp(size)>>]
  /\ Uses(t, b, FALSE)
  /\ UNCHANGED <<used_memory, zmalloc_thread_safe, started, loaded>>
(* zrealloc of a block that is there: the prefix is not counted again.     *)
zrealloc(t, b, size) ==
  /\ Ready(t) /\ Usable(b)
  /\ header' = [header EXCEPT ![b] = size]
  /\ todo' = [todo EXCEPT ![t] = <<-RoundUp(header[b]), RoundUp(size)>>]
  /\ Uses(t, b, FALSE)
  /\ UNCHANGED <<used_memory, zmalloc_thread_safe, started, loaded>>
(* zfree counts before it frees.                                           *)
zfree(t, b) ==
  /\ Ready(t) /\ Usable(b)
  /\ todo' = [todo EXCEPT ![t] = <<-RoundUp(header[b] + PREFIX_SIZE)>>]
  /\ Uses(t, b, TRUE)
  /\ UNCHANGED <<used_memory, zmalloc_thread_safe, started, header, loaded>>
(* The call returns, zfree after free(realptr).                            *)
CallReturns(t) ==
  /\ using[t] # None /\ todo[t] = << >>
  /\ header' = IF frees[t] THEN [header EXCEPT ![using[t]] = None] ELSE header
  /\ Uses(t, None, FALSE)
  /\ UNCHANGED <<used_memory, zmalloc_thread_safe, started, todo, loaded>>

(* update_zmalloc_stat_alloc and _free: one atomic step with thread safety, *)
(* a read and a write without.                                             *)
AtomicUpdate(t) ==
  /\ zmalloc_thread_safe /\ todo[t] # << >>
  /\ used_memory' = (used_memory + Head(todo[t])) % SizeT
  /\ todo' = [todo EXCEPT ![t] = Tail(@)]
  /\ UNCHANGED <<zmalloc_thread_safe, started, header, loaded, using, frees>>
Load(t) ==
  /\ ~zmalloc_thread_safe /\ todo[t] # << >> /\ loaded[t] = None
  /\ loaded' = [loaded EXCEPT ![t] = used_memory]
  /\ UNCHANGED <<used_memory, zmalloc_thread_safe, started, header, todo, using, frees>>
Store(t) ==
  /\ loaded[t] # None
  /\ used_memory' = (loaded[t] + Head(todo[t])) % SizeT
  /\ loaded' = [loaded EXCEPT ![t] = None]
  /\ todo' = [todo EXCEPT ![t] = Tail(@)]
  /\ UNCHANGED <<zmalloc_thread_safe, started, header, using, frees>>

(* The main thread calls zmalloc_enable_thread_safeness, between two of    *)
(* its calls, and starts the others.                                       *)
zmalloc_enable_thread_safeness ==
  /\ Ready(MainThread) /\ ~zmalloc_thread_safe
  /\ zmalloc_thread_safe' = TRUE /\ started' = Allocators
  /\ UNCHANGED <<used_memory, header, todo, loaded, using, frees>>

-----------------------------------------------------------------------------
ZmallocInit ==
  /\ used_memory = 0 /\ zmalloc_thread_safe = FALSE /\ started = {MainThread}
  /\ header = [b \in Blocks |-> None] /\ todo = [t \in Allocators |-> << >>]
  /\ loaded = [t \in Allocators |-> None] /\ using = [t \in Allocators |-> None]
  /\ frees = [t \in Allocators |-> FALSE]
ZmallocNext ==
  \/ zmalloc_enable_thread_safeness
  \/ \E t \in Allocators :
       \/ \E b \in Blocks : \/ \E n \in Sizes : zmalloc(t, b, n) \/ zrealloc(t, b, n)
                            \/ zfree(t, b)
       \/ CallReturns(t) \/ AtomicUpdate(t) \/ Load(t) \/ Store(t)
ZmallocSpec == ZmallocInit /\ [][ZmallocNext]_zmallocVars

-----------------------------------------------------------------------------
Pending(t) == FoldFunction(+, 0, todo[t])
InUse == {b \in Blocks : header[b] # None /\ \A t \in Allocators : ~(using[t] = b /\ frees[t])}
(* used_memory, with the updates that calls in progress still make, is the *)
(* sum of zmalloc_size over the blocks that are in use: no interleaving    *)
(* loses an update, no reallocation counts a prefix or a rounding twice,   *)
(* and a subtraction never wraps around.                                   *)
UsedMemoryIsExact ==
  used_memory + MapThenSumSet(Pending, Allocators) = MapThenSumSet(zmalloc_size, InUse)
=============================================================================
