--------------------------------- MODULE MM ---------------------------------
(***************************************************************************)
(* mm.c on top of memlib.c: the naive malloc package.  A block is a header *)
(* of SIZE_T_SIZE bytes holding the requested size, then the payload;      *)
(* blocks are carved off at mem_brk and never reused.                      *)
(*                                                                         *)
(* mm_malloc and mm_realloc give the pointer they return together with the *)
(* heap they leave: [ptr, brk, mem].  mm_init and mm_free do nothing in    *)
(* the code and have no operator here.                                     *)
(*                                                                         *)
(* Memory is one cell per address.  A header is one word at the block's    *)
(* first address; payloads start and end their writes on payload bounds,   *)
(* so a write that reaches into a header reaches that cell or none that    *)
(* anyone reads.                                                           *)
(***************************************************************************)
EXTENDS Memlib

CONSTANT sizeof_size_t   \* 4 in the -m32 build

ASSUME MMAssumption == sizeof_size_t \in {4, 8}

VARIABLE mem

\* The macro ALIGN: add ALIGNMENT-1, clear the low three bits.
ALIGN_Truncating(size) == size - (size % 8)
ALIGN(size) ==
  LET sum == (size + (ALIGNMENT - 1)) % WordMod
  IN  sum - (sum % 8)

SIZE_T_SIZE == ALIGN(sizeof_size_t)

\* int newsize = ALIGN(size + SIZE_T_SIZE)
newsize_NoHeader(size) == ToInt(ALIGN(size))
newsize(size) == ToInt(ALIGN((size + SIZE_T_SIZE) % WordMod))

\* memset and memcpy of string.h on memory m
memset(m, dst, byte, n) ==
  [x \in DOMAIN m |-> IF dst <= x /\ x < dst + n THEN byte ELSE m[x]]
memcpy(m, dst, src, n) ==
  [x \in DOMAIN m |-> IF dst <= x /\ x < dst + n THEN m[src + (x - dst)] ELSE m[x]]

Failed == [ptr |-> NULL, brk |-> mem_brk, mem |-> mem]

mm_malloc_RoundedHeader(size) ==
  IF SbrkFails(newsize(size)) THEN Failed
  ELSE [ptr |-> mem_brk + SIZE_T_SIZE,
        brk |-> SbrkTo(newsize(size)),
        mem |-> [mem EXCEPT ![mem_brk] = newsize(size)]]

mm_malloc(size) ==
  IF SbrkFails(newsize(size)) THEN Failed
  ELSE [ptr |-> mem_brk + SIZE_T_SIZE,
        brk |-> SbrkTo(newsize(size)),
        mem |-> [mem EXCEPT ![mem_brk] = size]]

\* How much mm_realloc copies out of oldptr: the size it finds in the header
\* there, but no more than the new size.
copySize_LastByteLost(m, oldptr, size) ==
  LET old == m[oldptr - SIZE_T_SIZE] IN (IF size < old THEN size ELSE old) - 1
copySize(m, oldptr, size) ==
  LET old == m[oldptr - SIZE_T_SIZE] IN IF size < old THEN size ELSE old

mm_realloc(oldptr, size) ==
  LET new == mm_malloc(size)
  IN  IF new.ptr = NULL THEN Failed
      ELSE [new EXCEPT !.mem =
              memcpy(new.mem, new.ptr, oldptr, copySize(new.mem, oldptr, size))]
=============================================================================
