------------------------------ MODULE EvalValid ------------------------------
(***************************************************************************)
(* eval_mm_valid of mdriver.c: one action per kind of request, given what  *)
(* the package under test answered.  The call into the package itself,     *)
(* which moves mem_brk and writes the heap, is the business of the modules *)
(* that use these actions: AnyPackage (any package at all) and MDriver     *)
(* (mm.c).                                                                 *)
(*                                                                         *)
(* index & 0xFF is index % CharMod; payload bytes are read through a char* *)
(* and char is signed on the platform of the Makefile.                     *)
(***************************************************************************)
EXTENDS RangeList

CONSTANTS
  Ids,       \* indices of blocks, 0 .. num_ids-1 of the trace
  CharMod    \* number of values of a char: 256

ASSUME EvalValidAssumption ==
  /\ Ids \subseteq Nat
  /\ CharMod \in Nat /\ CharMod > 0 /\ CharMod % 2 = 0

VARIABLES
  ranges,       \* the range list
  blocks,       \* trace->blocks
  block_sizes,  \* trace->block_sizes
  errors,       \* the global count of malloc_error
  verdict       \* "running", or how eval_mm_valid ended: "valid" (returns 1),
                \* "invalid" (returns 0), "aborted" (assert in add_range)

evalVars == <<ranges, blocks, block_sizes, errors, verdict>>

LowByte(index) == index % CharMod
SChar(byte) == IF byte < CharMod \div 2 THEN byte ELSE byte - CharMod

\* newp[j] != (index & 0xFF) is false for a byte that memset wrote
SeesOwnFill(byte, index) == SChar(byte) = LowByte(index)

malloc_error_Uncounted(rs) ==
  /\ errors' = errors
  /\ verdict' = "invalid"
  /\ ranges' = rs
  /\ UNCHANGED <<blocks, block_sizes>>

\* malloc_error and return 0, with range list rs
malloc_error(rs) ==
  /\ errors' = errors + 1
  /\ verdict' = "invalid"
  /\ ranges' = rs
  /\ UNCHANGED <<blocks, block_sizes>>

assert_fails(rs) ==
  /\ verdict' = "aborted"
  /\ ranges' = rs
  /\ UNCHANGED <<blocks, block_sizes, errors>>

Remember(index, p, size, rs) ==
  /\ ranges' = add_range(rs, range(p, size))
  /\ blocks' = [blocks EXCEPT ![index] = p]
  /\ block_sizes' = [block_sizes EXCEPT ![index] = size]
  /\ UNCHANGED <<errors, verdict>>

Examine_NoDataCheck(index, p, size, rs, preserved) ==
  \/ size <= 0 /\ assert_fails(rs)
  \/ size > 0 /\ ~Acceptable(rs, range(p, size)) /\ malloc_error(rs)
  \/ size > 0 /\ Acceptable(rs, range(p, size)) /\ Remember(index, p, size, rs)
\* add_range, and for a realloc the comparison with the old data, which
\* succeeds if preserved
Examine(index, p, size, rs, preserved) ==
  \/ size <= 0 /\ assert_fails(rs)
  \/ size > 0 /\ ~Acceptable(rs, range(p, size)) /\ malloc_error(rs)
  \/ /\ size > 0 /\ Acceptable(rs, range(p, size))
     /\ ~preserved /\ malloc_error(add_range(rs, range(p, size)))
  \/ /\ size > 0 /\ Acceptable(rs, range(p, size))
     /\ preserved /\ Remember(index, p, size, rs)

valid_begin_KeepRanges(mm_init_fails) ==
  /\ mem_reset_brk
  /\ IF mm_init_fails THEN malloc_error(ranges)
     ELSE verdict' = "running" /\ UNCHANGED <<ranges, blocks, block_sizes, errors>>
valid_begin(mm_init_fails) ==
  /\ mem_reset_brk
  /\ IF mm_init_fails THEN malloc_error(clear_ranges)
     ELSE /\ verdict' = "running"
          /\ ranges' = clear_ranges
          /\ UNCHANGED <<blocks, block_sizes, errors>>

valid_ALLOC(index, size, p) ==
  \/ p = NULL /\ malloc_error(ranges)
  \/ p # NULL /\ Examine(index, p, size, ranges, TRUE)

valid_REALLOC_KeepOldRange(index, size, newp, preserved) ==
  \/ newp = NULL /\ malloc_error(ranges)
  \/ newp # NULL /\ Examine(index, newp, size, ranges, preserved)
valid_REALLOC(index, size, newp, preserved) ==
  \/ newp = NULL /\ malloc_error(ranges)
  \/ /\ newp # NULL
     /\ Examine(index, newp, size, remove_range(ranges, blocks[index]), preserved)

valid_FREE(index) ==
  /\ ranges' = remove_range(ranges, blocks[index])
  /\ UNCHANGED <<blocks, block_sizes, errors, verdict>>

valid_return ==
  /\ verdict' = "valid"
  /\ UNCHANGED <<ranges, blocks, block_sizes, errors>>

\* The low byte of every index survives the trip through a signed char.
LowIndices == \A i \in Ids : LowByte(i) < CharMod \div 2
=============================================================================
