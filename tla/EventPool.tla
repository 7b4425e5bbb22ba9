----------------------------- MODULE EventPool -----------------------------
(***************************************************************************)
(* The event pools of edf_pool.c and the choice of a pool by               *)
(* EDF_event_initMutable. A pool is its caller's storage, cut into blocks  *)
(* of a whole number of pointers; the first word of a free block links to  *)
(* the next free block. A client overwrites that word as soon as it owns   *)
(* the block. Every operation is one critical section.                     *)
(*                                                                         *)
(* A block is named by its offset, in pointers, from its pool's start.     *)
(***************************************************************************)
EXTENDS Integers, Sequences, FiniteSets

CONSTANTS
  PtrSize,    \* the size of a pointer, in bytes
  MaxPool,    \* EDF_MAX_POOL
  SizeMod,    \* one more than the largest EDF_pool_blockSize_t
  BlockCntMod, \* one more than the largest EDF_pool_blockCnt_t
  Request,    \* what the application may initialise: <<pool_size, block_size>>
  EventSize,  \* the sizes of the events it allocates
  NoBlock,    \* the null pointer
  Data        \* what the first word of a block holds in a client's hands

ASSUME PoolAssumption ==
  /\ PtrSize \in Nat \ {0} /\ MaxPool \in 0 .. 15
  /\ SizeMod \in Nat \ {0, 1} /\ BlockCntMod \in Nat \ {0, 1}
  /\ Request \subseteq Nat \X (1 .. SizeMod - 1)
  /\ EventSize \subseteq Nat
  /\ NoBlock \notin 0 .. SizeMod * BlockCntMod /\ Data \notin 0 .. SizeMod * BlockCntMod
  /\ NoBlock # Data

VARIABLES
  pools,   \* the pool registry, a sequence of at most MaxPool pools
  word,    \* for each pool, what the first word of each block holds
  owned,   \* the blocks in the hands of clients: <<pool, block, event size>>
  pools_failed   \* the check that stopped the program, "hang", or "no"

pools_vars == <<pools, word, owned, pools_failed>>

PoolsInit == pools = <<>> /\ word = <<>> /\ owned = {} /\ pools_failed = "no"

Fail(why) == pools_failed' = why /\ UNCHANGED <<pools, word, owned>>

-----------------------------------------------------------------------------
(* Faulty forms: one block too many is chained; a released block is made   *)
(* the head without a link to the old one; acquire does not follow the     *)
(* link.                                                                   *)
BugNewPool(pool_size, block_size) ==
  LET total == pool_size \div block_size + 1 IN
  [block_size |-> block_size, free_head |-> 0, n_total |-> total,
   n_free |-> total, n_min |-> total, start |-> 0,
   end |-> (total - 1) * (block_size \div PtrSize), size |-> pool_size]
BugLink(p, b) == word
BugNextFree(p) == pools[p].free_head

(* The while loop adds the size of a pointer to a block size that starts   *)
(* at 0.                                                                   *)
Rounded(size) == ((size + PtrSize - 1) \div PtrSize) * PtrSize

(* A sum that leaves the type wraps around, and the loop goes on for ever. *)
LoopEnds(size) == Rounded(size) < SizeMod

Blocks(pool) == {i * (pool.block_size \div PtrSize) : i \in 0 .. pool.n_total - 1}

(* The chain of as many blocks as fit; size is kept for the properties.    *)
NewPool(pool_size, block_size) ==
  LET total == pool_size \div block_size IN
  [block_size |-> block_size, free_head |-> 0, n_total |-> total,
   n_free |-> total, n_min |-> total, start |-> 0,
   end |-> (total - 1) * (block_size \div PtrSize), size |-> pool_size]

(* EDF_pool_init. Pools come in ascending order of block size.             *)
PoolInit(pool_size, block_size) ==
  /\ pools_failed = "no"
  /\ IF \/ Len(pools) = MaxPool
        \/ block_size < PtrSize \/ pool_size < block_size
        \/ pools # <<>> /\ pools[Len(pools)].block_size >= block_size
     THEN Fail("init")
     ELSE IF ~LoopEnds(block_size) THEN Fail("hang")
     ELSE LET new == NewPool(pool_size, Rounded(block_size)) IN
          IF pool_size < Rounded(block_size) \/ new.n_total >= BlockCntMod - 1
          THEN Fail("init")
          ELSE /\ pools' = Append(pools, new)
               /\ word' = Append(word, [b \in Blocks(new) |->
                            IF b = new.end THEN NoBlock
                            ELSE b + new.block_size \div PtrSize])
               /\ UNCHANGED <<owned, pools_failed>>

(* The pool that EDF_event_initMutable takes for an event of e_size bytes. *)
Fitting(e_size) == {p \in DOMAIN pools : e_size <= pools[p].block_size}
BestPool(e_size) ==
  CHOOSE p \in Fitting(e_size) : \A q \in Fitting(e_size) : p <= q

Lowest(p) ==
  IF pools[p].n_min > pools[p].n_free - 1 THEN pools[p].n_free - 1 ELSE pools[p].n_min

NextFree(p) == word[p][pools[p].free_head]

(* EDF_pool_acquire, and the initialisation of the block as an event.      *)
Acquire(e_size) ==
  /\ pools_failed = "no"
  /\ \/ Fitting(e_size) = {} /\ Fail("no_pool")
     \/ /\ Fitting(e_size) # {}
        /\ LET p == BestPool(e_size)
               pool == pools[p]
           IN \/ pool.n_free = 0 /\ Fail("exhausted")
              \/ /\ pool.n_free > 0
                 /\ IF IF pool.n_free = 1 THEN NextFree(p) # NoBlock
                       ELSE NextFree(p) \notin pool.start .. pool.end
                    THEN Fail("chain")
                    ELSE /\ pools' = [pools EXCEPT ![p] =
                              [pool EXCEPT !.free_head = NextFree(p),
                                           !.n_free = pool.n_free - 1,
                                           !.n_min = Lowest(p)]]
                         /\ word' = [word EXCEPT ![p][pool.free_head] = Data]
                         /\ owned' = owned \cup {<<p, pool.free_head, e_size>>}
                         /\ UNCHANGED pools_failed

Link(p, b) == [word EXCEPT ![p][b] = pools[p].free_head]

(* EDF_pool_release of a block that the client owns.                       *)
Release(p, b, e_size) ==
  /\ pools_failed = "no" /\ <<p, b, e_size>> \in owned
  /\ IF pools[p].n_free >= pools[p].n_total \/ b \notin pools[p].start .. pools[p].end
     THEN Fail("release")
     ELSE /\ word' = Link(p, b)
          /\ pools' = [pools EXCEPT ![p].free_head = b, ![p].n_free = @ + 1]
          /\ owned' = owned \ {<<p, b, e_size>>}
          /\ UNCHANGED pools_failed

PoolsStopped == pools_failed # "no" /\ UNCHANGED pools_vars

PoolsNext ==
  \/ \E r \in Request : PoolInit(r[1], r[2])
  \/ \E s \in EventSize : Acquire(s)
  \/ \E o \in owned : Release(o[1], o[2], o[3])
  \/ PoolsStopped

PoolsSpec == PoolsInit /\ [][PoolsNext]_pools_vars

-----------------------------------------------------------------------------
(* The free list of pool p: chain[k] is its k-th link from the head.       *)
Chain(p) ==
  LET chain[k \in 0 .. pools[p].n_total] ==
        IF k = 0 THEN pools[p].free_head
        ELSE IF chain[k - 1] \in Blocks(pools[p]) THEN word[p][chain[k - 1]]
        ELSE chain[k - 1]
  IN  chain

FreeBlocks(p) == {Chain(p)[k] : k \in 0 .. pools[p].n_free - 1}
OwnedBlocks(p) == {o[2] : o \in {x \in owned : x[1] = p}}

PoolsTypeOK ==
  /\ Len(pools) <= MaxPool /\ Len(word) = Len(pools)
  /\ \A p \in DOMAIN pools :
       /\ pools[p].block_size \in 1 .. SizeMod - 1
       /\ pools[p].n_total \in 1 .. BlockCntMod - 2
       /\ pools[p].n_min \in 0 .. pools[p].n_free
       /\ pools[p].n_free \in 0 .. pools[p].n_total
       /\ pools[p].free_head \in Blocks(pools[p]) \cup {NoBlock}
       /\ word[p] \in [Blocks(pools[p]) -> Blocks(pools[p]) \cup {NoBlock, Data}]
  /\ owned \subseteq (DOMAIN pools) \X Nat \X EventSize
  /\ pools_failed \in {"no", "init", "hang", "no_pool", "exhausted", "chain", "release"}

(* Whatever the clients write into their blocks, n_free links lead from    *)
(* the head through n_free different blocks that no client owns, to NULL;  *)
(* the range assertions of EDF_pool_acquire and of EDF_pool_release never  *)
(* fail for clients that release what they own.                            *)
FreeListSound ==
  /\ PoolsTypeOK
  /\ pools_failed \notin {"chain", "release"}
  /\ \A p \in DOMAIN pools :
       /\ Chain(p)[pools[p].n_free] = NoBlock
       /\ FreeBlocks(p) \subseteq Blocks(pools[p]) \ OwnedBlocks(p)
       /\ Cardinality(FreeBlocks(p)) = pools[p].n_free
       /\ pools[p].n_free + Cardinality(OwnedBlocks(p)) = pools[p].n_total

(* An event lies inside its block and inside the storage its pool was      *)
(* given, its block is a whole number of pointers long, so that all blocks *)
(* are aligned and apart, and no smaller pool would have done.             *)
EventFits ==
  \A o \in owned :
    /\ o[3] <= pools[o[1]].block_size
    /\ o[2] * PtrSize + pools[o[1]].block_size <= pools[o[1]].size
    /\ pools[o[1]].block_size % PtrSize = 0
    /\ \A p \in 1 .. o[1] - 1 : pools[p].block_size < o[3]

(* The pools implement the block store: a block is never given to two      *)
(* clients, and none is lost.                                              *)
Store == INSTANCE BlockStore WITH
  available <- UNION {{p} \X FreeBlocks(p) : p \in DOMAIN pools},
  held <- {<<o[1], o[2]>> : o \in owned}

ImplementsStore == Store!Spec

(* EDF_pool_init returns or fails, for every block size that the type      *)
(* holds: "Max pool block size (Bytes): 1 = 2^8, 2 = 2^16, 4 = 2^32."      *)
(* (edf_config.h.in:101).                                                  *)
InitEnds == pools_failed # "hang"
=============================================================================
