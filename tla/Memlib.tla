------------------------------- MODULE Memlib -------------------------------
(***************************************************************************)
(* memlib.c: the simulated memory system under the malloc package.  The    *)
(* heap is one libc block of MAX_HEAP bytes; mem_brk is the address of the *)
(* first byte beyond the part handed out so far.                           *)
(*                                                                         *)
(* The Makefile builds with -m32: int, size_t and char* all have the same  *)
(* width.  WordMod is the number of values of that width (2^32 there, a    *)
(* small number for TLC), and every sum the C code forms is taken modulo   *)
(* WordMod.                                                                *)
(***************************************************************************)
EXTENDS Config

CONSTANTS
  mem_start_brk,  \* address of the first heap byte, where malloc put the block
  WordMod         \* number of values of an int, a size_t and a char*

ASSUME MemlibAssumption ==
  /\ WordMod \in Nat /\ WordMod >= 64 /\ WordMod % 16 = 0
  /\ mem_start_brk \in Nat /\ mem_start_brk > 0 /\ mem_start_brk % 8 = 0
  /\ MAX_HEAP < WordMod \div 2
  /\ mem_start_brk + MAX_HEAP < WordMod

VARIABLE mem_brk

NULL == 0
MaxInt == WordMod \div 2 - 1
mem_max_addr == mem_start_brk + MAX_HEAP
HeapAddr == mem_start_brk .. mem_max_addr - 1

\* size_t to int: the same bits read as a signed number
ToInt(u) == IF u <= MaxInt THEN u ELSE u - WordMod

mem_heap_lo == mem_start_brk
mem_heap_hi == mem_brk - 1
mem_heapsize == mem_brk - mem_start_brk

mem_init == mem_brk = mem_start_brk
mem_reset_brk == mem_brk' = mem_start_brk

\* The test of mem_sbrk: the sum is a pointer sum and wraps.
SbrkFails_NoSignTest(incr) == (mem_brk + incr) % WordMod > mem_max_addr
SbrkFails_OffByOne(incr) == incr < 0 \/ (mem_brk + incr) % WordMod >= mem_max_addr
SbrkFails(incr) == incr < 0 \/ (mem_brk + incr) % WordMod > mem_max_addr

\* Where a successful mem_sbrk leaves mem_brk; it returns the old one.
SbrkTo(incr) == (mem_brk + incr) % WordMod

\* No pointer sum that mem_sbrk forms from a heap pointer and an int wraps.
\* It holds when the heap block lies low enough in the address space.
RoomAbove == mem_max_addr + MaxInt < WordMod
=============================================================================
