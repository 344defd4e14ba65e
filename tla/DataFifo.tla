------------------------------- MODULE DataFifo -------------------------------
(***************************************************************************)
(* utils/data_fifo.c as operators on struct data_fifo: a slab of blocks and *)
(* a queue of pointers to the ones that are filled.  A block is taken from  *)
(* the slab, filled, queued ("locked"), fetched and given back.  Each       *)
(* operation comes with the condition under which it returns no error.      *)
(***************************************************************************)
EXTENDS Integers, Sequences, FiniteSets

CONSTANT Blocks            \* the slab, elements_max blocks

\* CONFIG_BUF_BLE_RX_PACKET_NUM is 2 to 5.
ASSUME DataFifoAssumption == IsFiniteSet(Blocks) /\ Cardinality(Blocks) >= 2

\* The allocated blocks of mem_slab, the pointers in msgq.
Fifo == [slab : SUBSET Blocks, msgq : Seq(Blocks)]

elements_max == Cardinality(Blocks)

data_fifo_init == [slab |-> {}, msgq |-> <<>>]

blocks_alloced_num(fifo) == Cardinality(fifo.slab)
blocks_locked_num(fifo) == Len(fifo.msgq)

\* msgq_slab_legal_used_elements, else -EACCES.
legal_used_elements(fifo) == blocks_alloced_num(fifo) >= blocks_locked_num(fifo)

\* data_fifo_pointer_first_vacant_get gives one of these, or -ENOMEM.
Vacant(fifo) == Blocks \ fifo.slab
first_vacant_get(fifo, block) == [fifo EXCEPT !.slab = @ \cup {block}]

\* data_fifo_block_lock, -ESPIPE without room in the queue.
CanLock(fifo) == blocks_locked_num(fifo) < elements_max
block_lock_Front(fifo, block) == [fifo EXCEPT !.msgq = <<block>> \o @]
block_lock(fifo, block) == [fifo EXCEPT !.msgq = Append(@, block)]

\* data_fifo_pointer_last_filled_get, -ENOMSG on an empty queue: despite its
\* name the one that was filled first.
CanFetch(fifo) == fifo.msgq # <<>>
last_filled(fifo) == Head(fifo.msgq)
last_filled_get(fifo) == [fifo EXCEPT !.msgq = Tail(@)]

block_free(fifo, block) == [fifo EXCEPT !.slab = @ \ {block}]
=============================================================================
