------------------------------ MODULE LibcDriver ------------------------------
(***************************************************************************)
(* The first half of main in mdriver.c, taken with option -l: every trace  *)
(* is played to the allocator of libc, once in eval_libc_valid and then as *)
(* often as fsecs calls eval_libc_speed.  There is no heap to reset: what  *)
(* a pass leaves allocated stays allocated.                                *)
(*                                                                         *)
(* The allocator is external.  It hands out Cells, of any size, until none *)
(* is left; realloc moves a block or not, and with size 0 frees it and     *)
(* answers NULL, as in glibc.                                              *)
(*                                                                         *)
(* Main puts this half before the other one, and makes the assumptions on  *)
(* the constants for both.                                                 *)
(***************************************************************************)
EXTENDS Traces

CONSTANTS
  Ids,
  Workloads,     \* as in MDriver: of well-formed traces
  MaxRuns,
  Cells, NULL    \* what malloc answers; in blocks, NULL is "never written"

VARIABLES
  tracefiles, tracenum, phase, opnum,
  heap,          \* the blocks of libc that are allocated
  blocks, errors,
  runs,          \* calls of eval_libc_speed that have returned
  libc_stats     \* per trace: valid, and secs as the number of calls timed

loopVars == <<tracefiles, tracenum>>
vars == <<loopVars, phase, opnum, heap, blocks, errors, runs, libc_stats>>

ops == tracefiles[tracenum + 1]
op == ops[opnum + 1]
MoreOps == opnum < Len(ops)
InPass == phase \in {"valid", "speed"}

-----------------------------------------------------------------------------
(* libc *)

malloc(p) == IF heap = Cells THEN p = NULL ELSE p \in Cells \ heap

realloc(old, size, p) ==
  IF size = 0 THEN p = NULL ELSE p \in (Cells \ heap) \cup {old}

-----------------------------------------------------------------------------
(* The requests, the same in both passes *)

\* A failed call ends the program, from eval_libc_valid by way of malloc_error.
Keep(p) ==
  IF p = NULL
  THEN /\ phase' = "exit1"
       /\ errors' = IF phase = "valid" THEN errors + 1 ELSE errors
       /\ UNCHANGED <<blocks, opnum>>
  ELSE /\ blocks' = [blocks EXCEPT ![op.index] = p]
       /\ opnum' = opnum + 1
       /\ UNCHANGED <<phase, errors>>

Alloc ==
  /\ InPass /\ MoreOps /\ op.type = "ALLOC"
  /\ \E p \in Cells \cup {NULL} :
       malloc(p) /\ heap' = heap \cup ({p} \ {NULL}) /\ Keep(p)
  /\ UNCHANGED <<loopVars, runs, libc_stats>>

Realloc_InPlace ==
  /\ InPass /\ MoreOps /\ op.type = "REALLOC"
  /\ LET old == blocks[op.index]
     IN  \E p \in Cells \cup {NULL} :
           /\ realloc(old, op.size, p)
           /\ heap' = (heap \ {old}) \cup ({p} \ {NULL})
           /\ IF p = NULL THEN Keep(p) ELSE opnum' = opnum + 1 /\ UNCHANGED <<phase, errors, blocks>>
  /\ UNCHANGED <<loopVars, runs, libc_stats>>
Realloc ==
  /\ InPass /\ MoreOps /\ op.type = "REALLOC"
  /\ LET old == blocks[op.index]
     IN  \E p \in Cells \cup {NULL} :
           /\ realloc(old, op.size, p)
           /\ heap' = (heap \ {old}) \cup ({p} \ {NULL})
           /\ Keep(p)
  /\ UNCHANGED <<loopVars, runs, libc_stats>>

Release_InValidOnly(p) == heap' = IF phase = "valid" THEN heap \ {p} ELSE heap
Release(p) == heap' = heap \ {p}

Free ==
  /\ InPass /\ MoreOps /\ op.type = "FREE"
  /\ Release(blocks[op.index])
  /\ opnum' = opnum + 1
  /\ UNCHANGED <<loopVars, phase, blocks, errors, runs, libc_stats>>

-----------------------------------------------------------------------------
(* The loop of main *)

\* read_trace does not initialise blocks.
ReadTrace ==
  /\ phase = "read" /\ tracenum < Len(tracefiles)
  /\ phase' = "valid" /\ opnum' = 0
  /\ blocks' = [i \in Ids |-> NULL]
  /\ UNCHANGED <<loopVars, heap, errors, runs, libc_stats>>

\* return 1, and the call of fsecs
EndValid ==
  /\ phase = "valid" /\ ~MoreOps
  /\ libc_stats' = [libc_stats EXCEPT ![tracenum + 1].valid = TRUE]
  /\ phase' = "timing" /\ runs' = 0
  /\ UNCHANGED <<loopVars, opnum, heap, blocks, errors>>

BeginSpeed ==
  /\ phase = "timing" /\ runs < MaxRuns
  /\ phase' = "speed" /\ opnum' = 0
  /\ UNCHANGED <<loopVars, heap, blocks, errors, runs, libc_stats>>

EndSpeed ==
  /\ phase = "speed" /\ ~MoreOps
  /\ phase' = "timing" /\ runs' = runs + 1
  /\ UNCHANGED <<loopVars, opnum, heap, blocks, errors, libc_stats>>

\* fsecs returns; free_trace frees the record and none of the blocks in it.
NextTrace ==
  /\ phase = "timing" /\ runs > 0
  /\ libc_stats' = [libc_stats EXCEPT ![tracenum + 1].secs = runs]
  /\ phase' = "read" /\ tracenum' = tracenum + 1
  /\ UNCHANGED <<tracefiles, opnum, heap, blocks, errors, runs>>

\* main goes on to the mm package.
Done ==
  /\ phase = "read" /\ tracenum = Len(tracefiles)
  /\ phase' = "mm"
  /\ UNCHANGED <<loopVars, opnum, heap, blocks, errors, runs, libc_stats>>

Over == phase \in {"mm", "exit1"} /\ UNCHANGED vars

Init ==
  /\ tracefiles \in Workloads
  /\ tracenum = 0 /\ phase = "read" /\ opnum = 0
  /\ heap = {} /\ blocks = [i \in Ids |-> NULL]
  /\ errors = 0 /\ runs = 0
  /\ libc_stats = [t \in DOMAIN tracefiles |-> [valid |-> FALSE, secs |-> 0]]

Next ==
  \/ ReadTrace
  \/ Alloc \/ Realloc \/ Free
  \/ EndValid \/ BeginSpeed \/ EndSpeed
  \/ NextTrace \/ Done \/ Over

Spec == Init /\ [][Next]_vars

-----------------------------------------------------------------------------
(* Properties *)

\* For every index that the trace has allocated at this point, the driver holds
\* a block of its own that libc has not freed.  So no pass frees or reallocates
\* a block twice or one of an earlier pass, of which blocks still holds the
\* pointers.
HoldsLiveBlocks ==
  InPass =>
    LET L == LiveAfter(ops, opnum)
    IN  /\ \A i \in L : blocks[i] \in heap
        /\ \A i, j \in L : i # j => blocks[i] # blocks[j]

Left(t) == Cardinality(LiveAfter(tracefiles[t], Len(tracefiles[t])))

\* What is allocated is what this pass holds and what each pass so far has left:
\* a trace that does not free everything is charged once for eval_libc_valid and
\* once for every call that was timed.
HeapIsWhatPassesLeft ==
  phase # "exit1" =>
    LET ended == [t \in DOMAIN tracefiles |->
                    IF t <= tracenum THEN 1 + libc_stats[t].secs
                    ELSE IF t = tracenum + 1 /\ phase \in {"timing", "speed"} THEN 1 + runs
                    ELSE 0]
    IN  Cardinality(heap) =
          (IF InPass THEN Cardinality(LiveAfter(ops, opnum)) ELSE 0)
            + MapThenSumSet(LAMBDA t : ended[t] * Left(t), DOMAIN tracefiles)

=============================================================================
