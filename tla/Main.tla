-------------------------------- MODULE Main --------------------------------
(***************************************************************************)
(* main of mdriver.c from the end of the options on: with option -l first  *)
(* the traces on libc (LibcDriver), then, with or without it, the traces   *)
(* on mm.c (MDriver).  Both halves are one process: they use the same      *)
(* variables i and errors, and take one trace record after the other from  *)
(* the same files.                                                         *)
(***************************************************************************)
EXTENDS MDriver

CONSTANT Cells      \* the blocks of libc

ASSUME MainAssumption == NULL \notin Cells

VARIABLES
  half,             \* "libc" or "mm"
  heap, libc_stats  \* as in LibcDriver

Libc == INSTANCE LibcDriver

libcVars == <<heap, libc_stats>>
mainVars == <<vars, libcVars, half>>

\* LibcDriver does not have the heap of mm.c, its statistics, the range list, or the
\* sizes in the trace record.
LibcHalf ==
  /\ half = "libc"
  /\ Libc!Next
  /\ UNCHANGED <<half, mmVars, statVars, ranges, block_sizes, verdict>>

\* main goes on to the mm package.  The record of the last trace has been freed,
\* blocks is the next one's.
TestMM ==
  /\ half = "libc" /\ phase = "mm"
  /\ half' = "mm"
  /\ phase' = "read" /\ tracenum' = 0
  /\ blocks' = [i \in Ids |-> NULL]
  /\ UNCHANGED <<libcVars, mmVars, statVars, ranges, block_sizes, errors, verdict>>
  /\ UNCHANGED <<tracefiles, opnum, runs>>

MMHalf == half = "mm" /\ Next /\ UNCHANGED <<half, libcVars>>

MainInit ==
  /\ Init
  /\ half \in {"libc", "mm"}
  /\ heap = {} /\ libc_stats = [t \in DOMAIN tracefiles |-> [valid |-> FALSE, secs |-> 0]]

MainNext == LibcHalf \/ TestMM \/ MMHalf

MainSpec == MainInit /\ [][MainNext]_mainVars

-----------------------------------------------------------------------------
(* Properties *)

\* For every index that the trace has allocated at this point of a pass over
\* libc, the driver holds a block of its own that libc has not freed.  So no
\* pass frees or reallocates a block twice or one of an earlier pass, of which
\* blocks still holds the pointers.
HoldsLiveBlocks == half = "libc" => Libc!HoldsLiveBlocks

\* What is allocated in libc is what this pass holds and what each pass so far
\* has left: a trace that does not free everything is charged once for
\* eval_libc_valid and once for every call that was timed.
HeapIsWhatPassesLeft == half = "libc" => Libc!HeapIsWhatPassesLeft
=============================================================================
