------------------------------ MODULE MCBuffers ------------------------------
(***************************************************************************)
(* What hands out and passes on memory, explored side by side: the event   *)
(* queue, the FIFO of bytes, the FIFO of slots, the standard output of the *)
(* STM32 with its interrupt, and the event pools; and the registry of      *)
(* subscribers. None of them uses another one; a behaviour is one of the   *)
(* one that part names.                                                    *)
(***************************************************************************)
EXTENDS EventQueue, ByteFifo, ArrayFifo, Stdio, EventPool, PubSub

VARIABLE part

(* Pool storages and block sizes in bytes, of pointers of two bytes: block *)
(* sizes that are and are not multiples of a pointer, storages that leave  *)
(* a rest, that hold a single block, and that hold none after rounding.    *)
SmallRequests == {<<9, 2>>, <<8, 3>>, <<7, 4>>, <<13, 6>>, <<5, 5>>}

(* What is free to choose in a part that does not take place has one value. *)
AllInit ==
  /\ part \in {"events", "bytes", "slots", "stdio", "pools", "subscribers"}
  /\ Init /\ (part # "events" => \A i \in DOMAIN ring : ring[i] = NULL)
  /\ ByteInit /\ (part # "bytes" => \A s \in Sizes : size <= s)
  /\ ArrayInit /\ (part # "slots" => \A s \in SlotCounts : n_slots <= s)
  /\ StdioInit /\ PoolsInit /\ PubSubInit

buffers == <<vars, b_vars, a_vars, stdio_vars>>
registries == <<pools_vars, pubsub_vars>>

(* A failed assertion stops the program; nothing else may.                 *)
AllNext ==
  \/ /\ UNCHANGED <<registries, part>>
     /\ \/ part = "events" /\ Next /\ UNCHANGED <<b_vars, a_vars, stdio_vars>>
        \/ part = "bytes" /\ ByteNext /\ UNCHANGED <<vars, a_vars, stdio_vars>>
        \/ part = "slots" /\ ArrayNext /\ UNCHANGED <<vars, b_vars, stdio_vars>>
        \/ part = "stdio" /\ StdioNext /\ UNCHANGED <<vars, b_vars, a_vars>>
  \/ /\ UNCHANGED <<buffers, part>>
     /\ \/ part = "pools" /\ PoolsNext /\ UNCHANGED pubsub_vars
        \/ part = "subscribers" /\ PubSubNext /\ UNCHANGED pools_vars
        \/ part = "subscribers" /\ pubsub_failed /\ UNCHANGED registries

(* Of the standard output: the interrupt comes while it is enabled and     *)
(* pending, its handler and the listener return, and the USART sends.      *)
AllSpec ==
  /\ AllInit /\ [][AllNext]_<<buffers, registries, part>>
  /\ WF_stdio_vars(part = "stdio" /\ Irq)
  /\ WF_stdio_vars(part = "stdio" /\ ByteSent)
=============================================================================
