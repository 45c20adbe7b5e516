------------------------------ MODULE MMClient ------------------------------
(***************************************************************************)
(* mm.c and memlib.c under any caller that obeys the C contract: it frees  *)
(* and reallocates only blocks it holds, and writes only inside their      *)
(* payloads, in any order and with any size_t.  blocks is the caller's own *)
(* record of what it holds (trace->blocks and trace->block_sizes in        *)
(* mdriver.c).                                                             *)
(*                                                                         *)
(* The properties hold where RequestsFit does: newsize wraps for larger    *)
(* requests, and the block handed out is none (MMProofs!HugeRequestsWrap). *)
(***************************************************************************)
EXTENDS MM

CONSTANTS
  Ids, Sizes, Bytes,
  Junk            \* what a heap cell holds that was never written

ASSUME MMClientAssumption ==
  /\ Sizes \subseteq 0 .. WordMod - 1
  /\ Bytes \subseteq Nat
  /\ Junk \in Nat

VARIABLES
  blocks,  \* Ids -> [ptr, size]
  ret      \* what the last mm_malloc or mm_realloc returned

vars == <<mem_brk, mem, blocks, ret>>

NoBlock == [ptr |-> NULL, size |-> 0]
Live(i) == blocks[i].ptr # NULL

\* The caller receives r from mm_malloc or mm_realloc and keeps it as block i;
\* on NULL it keeps what it had.
Receive(i, size, r) ==
  /\ mem_brk' = r.brk
  /\ mem' = r.mem
  /\ ret' = r.ptr
  /\ blocks' = IF r.ptr = NULL THEN blocks
               ELSE [blocks EXCEPT ![i] = [ptr |-> r.ptr, size |-> size]]

Malloc(i, size) == ~Live(i) /\ Receive(i, size, mm_malloc(size))

Realloc(i, size) == Live(i) /\ Receive(i, size, mm_realloc(blocks[i].ptr, size))

Free(i) ==
  /\ Live(i)
  /\ blocks' = [blocks EXCEPT ![i] = NoBlock]
  /\ UNCHANGED <<mem_brk, mem, ret>>

\* The caller fills a payload (memset in eval_mm_valid).
Fill(i, b) ==
  /\ Live(i)
  /\ mem' = memset(mem, blocks[i].ptr, b, blocks[i].size)
  /\ UNCHANGED <<mem_brk, blocks, ret>>

\* The caller starts over: mem_reset_brk, then mm_init.  The heap keeps its
\* old contents.
Reset ==
  /\ mem_reset_brk
  /\ blocks' = [i \in Ids |-> NoBlock]
  /\ UNCHANGED <<mem, ret>>

Init ==
  /\ mem_init
  /\ mem = [a \in HeapAddr |-> Junk]
  /\ blocks = [i \in Ids |-> NoBlock]
  /\ ret = NULL

Next ==
  \/ \E i \in Ids, size \in Sizes : Malloc(i, size) \/ Realloc(i, size)
  \/ \E i \in Ids, b \in Bytes : Fill(i, b)
  \/ \E i \in Ids : Free(i)
  \/ Reset

Spec == Init /\ [][Next]_vars

-----------------------------------------------------------------------------
(* Properties *)

\* No sum that mm_malloc forms of a request, its header and the rounding wraps.
\* Requests within 15 bytes of 4 GB are left out by it, and no others.
RequestsFit == \A size \in Sizes : size + SIZE_T_SIZE + (ALIGNMENT - 1) < WordMod

TypeOK ==
  /\ mem_brk \in mem_start_brk .. mem_max_addr
  /\ mem \in [HeapAddr -> Nat]
  /\ blocks \in [Ids -> [ptr : Nat, size : Sizes \cup {0}]]
  /\ ret \in 0 .. mem_max_addr

\* A held block, header and payload, lies inside the part of the heap that
\* mem_sbrk has handed out, and its payload is aligned.
InHeap ==
  \A i \in Ids : Live(i) =>
    /\ mem_heap_lo <= blocks[i].ptr - SIZE_T_SIZE
    /\ blocks[i].ptr + blocks[i].size <= mem_brk
    /\ blocks[i].ptr % ALIGNMENT = 0

\* Two held blocks, each with its header, share no byte: whatever sequence of
\* calls led here, no payload reaches into another block's payload or header.
Disjoint ==
  \A i, j \in Ids : i # j /\ Live(i) /\ Live(j) =>
    \/ blocks[i].ptr + blocks[i].size <= blocks[j].ptr - SIZE_T_SIZE
    \/ blocks[j].ptr + blocks[j].size <= blocks[i].ptr - SIZE_T_SIZE

\* The header that a later mm_realloc will read still holds the block's size,
\* whatever was written to payloads and allocated in between.  (mm.c:4-5 says
\* "A block is pure payload.  There are no headers or footers": that is not so.)
HeadersIntact ==
  \A i \in Ids : Live(i) => mem[blocks[i].ptr - SIZE_T_SIZE] = blocks[i].size

\* "In this model, the heap cannot be shrunk" (memlib.c:55): until the driver
\* resets it, mem_brk never moves down, whatever sizes are asked for.
HeapNeverShrinks == [][mem_brk' >= mem_brk \/ Reset]_vars

\* mm_malloc and mm_realloc return NULL only for a request that does not fit
\* above mem_brk with its header and rounded up to a multiple of 8, also for
\* sizes where the conversion of size_t to int goes negative.
NoSpuriousFailure ==
  [][\A i \in Ids, size \in Sizes :
       (Malloc(i, size) \/ Realloc(i, size)) /\ ret' = NULL
         => mem_brk + ((SIZE_T_SIZE + size + 7) \div 8) * 8 > mem_max_addr]_vars

\* The contents of the held payloads
data ==
  [i \in Ids |-> IF Live(i)
                THEN [k \in 0 .. blocks[i].size - 1 |-> mem[blocks[i].ptr + k]]
                ELSE <<>>]

Contract == INSTANCE Allocator WITH Addr <- HeapAddr

\* The package keeps the contract of module Allocator: in particular headers,
\* copies and failed calls leave the contents of every other payload alone,
\* and mm_realloc carries the old contents over.
KeepsContract == Contract!Spec
=============================================================================
