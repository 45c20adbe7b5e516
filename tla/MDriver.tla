------------------------------- MODULE MDriver -------------------------------
(***************************************************************************)
(* mdriver.c with the mm.c of the handout: the loop of main over the trace *)
(* files.  Each trace is played once to judge the package (eval_mm_valid), *)
(* and if that succeeds once to measure space (eval_mm_util) and then      *)
(* several times to measure time (eval_mm_speed, which fsecs calls as      *)
(* often as its timer wants).  All passes share one heap, one trace record *)
(* with its blocks and block_sizes, and one range list.                    *)
(*                                                                         *)
(* One step is one request with everything the pass does about it.  verdict *)
(* is the result of the eval_mm_valid call of the current trace.           *)
(***************************************************************************)
EXTENDS MM, EvalValid, Traces

CONSTANTS
  Workloads,   \* each a sequence of traces, the trace files of one run
  MaxRuns,     \* bound on how often fsecs calls eval_mm_speed for a trace
  Junk         \* what a heap cell holds that was never written

VARIABLES
  tracefiles,      \* the workload of this run
  tracenum,        \* i of main's loop, from 0
  phase,           \* where main is
  opnum,           \* requests of the pass that are done
  runs,            \* calls of eval_mm_speed that have returned
  total_size, max_total_size,
  mm_stats         \* per trace: valid, and util as <<max_total_size, mem_heapsize>>

mmVars == <<mem_brk, mem>>
statVars == <<total_size, max_total_size, mm_stats>>
vars == <<mmVars, evalVars, statVars, tracefiles, tracenum, phase, opnum, runs>>

Exits == {"exit0", "exit1", "aborted"}

ops == tracefiles[tracenum + 1]
op == ops[opnum + 1]
MoreOps == opnum < Len(ops)
Advance == opnum' = opnum + 1

traceop_t == [type : {"ALLOC", "REALLOC", "FREE"}, index : Ids, size : 0 .. MaxInt]

\* The traces of the handout.  The driver relies on this and does not check.
WellFormed(trace) == trace \in Seq(traceop_t) /\ Sound(trace)

ASSUME MDriverAssumption ==
  /\ \A w \in Workloads : /\ w \in Seq(Seq(traceop_t)) /\ w # <<>>
                          /\ \A t \in DOMAIN w : WellFormed(w[t])
  /\ MaxRuns \in Nat \ {0}
  /\ Junk \in Nat

\* The heap after a call of the package that answered r.
Leaves(r) == mem_brk' = r.brk /\ mem' = r.mem

-----------------------------------------------------------------------------
(* Reading a trace and judging the package *)

\* read_trace; the arrays it allocates are not initialised.
ReadTrace ==
  /\ phase = "read" /\ tracenum < Len(tracefiles)
  /\ phase' = "begin_valid"
  /\ blocks' = [i \in Ids |-> NULL]
  /\ block_sizes' = [i \in Ids |-> 0]
  /\ UNCHANGED <<mmVars, statVars, ranges, errors, verdict, tracefiles, tracenum, opnum, runs>>

\* mm_init returns 0.
BeginValid ==
  /\ phase = "begin_valid"
  /\ valid_begin(FALSE)
  /\ phase' = "valid" /\ opnum' = 0
  /\ UNCHANGED <<mem, statVars, tracefiles, tracenum, runs>>

\* eval_mm_valid goes on after a request, or has failed, and then main goes on
\* to the next trace; a failed assertion ends the program.
AfterValidOp ==
  /\ CASE verdict' = "running" -> phase' = "valid" /\ Advance /\ UNCHANGED tracenum
       [] verdict' = "invalid" -> phase' = "read" /\ tracenum' = tracenum + 1 /\ UNCHANGED opnum
       [] verdict' = "aborted" -> phase' = "aborted" /\ UNCHANGED <<tracenum, opnum>>
  /\ UNCHANGED <<statVars, tracefiles, runs>>

\* The payload is filled if all checks passed.
Filled(r) ==
  mem' = IF verdict' = "running"
         THEN memset(r.mem, r.ptr, LowByte(op.index), op.size)
         ELSE r.mem

ValidAlloc ==
  /\ phase = "valid" /\ MoreOps /\ op.type = "ALLOC"
  /\ \E r \in {mm_malloc(op.size)} :
         /\ mem_brk' = r.brk
         /\ valid_ALLOC(op.index, op.size, r.ptr)
         /\ Filled(r)
  /\ AfterValidOp

\* The comparison loop of REALLOC: the new block starts with the fill of the
\* old one, as far as both reach.
DataPreserved(r) ==
  \A j \in 0 .. op.size - 1 : j < block_sizes[op.index] =>
    SeesOwnFill(r.mem[r.ptr + j], op.index)

ValidRealloc ==
  /\ phase = "valid" /\ MoreOps /\ op.type = "REALLOC"
  /\ \E r \in {mm_realloc(blocks[op.index], op.size)} :
         /\ mem_brk' = r.brk
         /\ valid_REALLOC(op.index, op.size, r.ptr, DataPreserved(r))
         /\ Filled(r)
  /\ AfterValidOp

\* mm_free does nothing.
ValidFree ==
  /\ phase = "valid" /\ MoreOps /\ op.type = "FREE"
  /\ valid_FREE(op.index)
  /\ AfterValidOp
  /\ UNCHANGED mmVars

EndValid ==
  /\ phase = "valid" /\ ~MoreOps
  /\ valid_return
  /\ mm_stats' = [mm_stats EXCEPT ![tracenum + 1].valid = TRUE]
  /\ phase' = "begin_util"
  /\ UNCHANGED <<mmVars, total_size, max_total_size, tracefiles, tracenum, opnum, runs>>

-----------------------------------------------------------------------------
(* eval_mm_util *)

BeginUtil ==
  /\ phase = "begin_util"
  /\ mem_reset_brk
  /\ total_size' = 0 /\ max_total_size' = 0
  /\ phase' = "util" /\ opnum' = 0
  /\ UNCHANGED <<mem, evalVars, mm_stats, tracefiles, tracenum, runs>>

\* app_error: exit(1)
app_error ==
  /\ phase' = "exit1"
  /\ UNCHANGED <<blocks, block_sizes, total_size, max_total_size, opnum>>

UtilGain_StaleSize(p, size, gain) ==
  /\ blocks' = [blocks EXCEPT ![op.index] = p]
  /\ UNCHANGED block_sizes
  /\ total_size' = total_size + gain
  /\ max_total_size' = Max({total_size + gain, max_total_size})
  /\ Advance /\ UNCHANGED phase
\* Remember region and size, and update the statistics.
UtilGain(p, size, gain) ==
  /\ blocks' = [blocks EXCEPT ![op.index] = p]
  /\ block_sizes' = [block_sizes EXCEPT ![op.index] = size]
  /\ total_size' = total_size + gain
  /\ max_total_size' = Max({total_size + gain, max_total_size})
  /\ Advance /\ UNCHANGED phase

UtilAlloc ==
  /\ phase = "util" /\ MoreOps /\ op.type = "ALLOC"
  /\ \E r \in {mm_malloc(op.size)} :
         /\ Leaves(r)
         /\ \/ r.ptr = NULL /\ app_error
            \/ r.ptr # NULL /\ UtilGain(r.ptr, op.size, op.size)
  /\ UNCHANGED <<ranges, errors, verdict, mm_stats, tracefiles, tracenum, runs>>

UtilRealloc ==
  /\ phase = "util" /\ MoreOps /\ op.type = "REALLOC"
  /\ \E r \in {mm_realloc(blocks[op.index], op.size)} :
         /\ Leaves(r)
         /\ \/ r.ptr = NULL /\ app_error
            \/ r.ptr # NULL /\ UtilGain(r.ptr, op.size, op.size - block_sizes[op.index])
  /\ UNCHANGED <<ranges, errors, verdict, mm_stats, tracefiles, tracenum, runs>>

UtilFree ==
  /\ phase = "util" /\ MoreOps /\ op.type = "FREE"
  /\ total_size' = total_size - block_sizes[op.index]
  /\ Advance
  /\ UNCHANGED <<mmVars, evalVars, max_total_size, mm_stats, phase, tracefiles, tracenum, runs>>

EndUtil ==
  /\ phase = "util" /\ ~MoreOps
  /\ mm_stats' = [mm_stats EXCEPT ![tracenum + 1].util = <<max_total_size, mem_heapsize>>]
  /\ phase' = "begin_speed" /\ runs' = 0
  /\ UNCHANGED <<mmVars, evalVars, total_size, max_total_size, tracefiles, tracenum, opnum>>

-----------------------------------------------------------------------------
(* eval_mm_speed, called by fsecs *)

BeginSpeed_KeepHeap ==
  /\ phase = "begin_speed" /\ runs < MaxRuns
  /\ phase' = "speed" /\ opnum' = 0
  /\ UNCHANGED <<mmVars, evalVars, statVars, tracefiles, tracenum, runs>>
BeginSpeed ==
  /\ phase = "begin_speed" /\ runs < MaxRuns
  /\ mem_reset_brk
  /\ phase' = "speed" /\ opnum' = 0
  /\ UNCHANGED <<mem, evalVars, statVars, tracefiles, tracenum, runs>>

SpeedKeep_Forgotten(p) == UNCHANGED <<blocks, phase>> /\ Advance
SpeedKeep(p) ==
  /\ blocks' = [blocks EXCEPT ![op.index] = p]
  /\ Advance /\ UNCHANGED phase

SpeedCall(r) ==
  /\ Leaves(r)
  /\ \/ r.ptr = NULL /\ phase' = "exit1" /\ UNCHANGED <<blocks, opnum>>
     \/ r.ptr # NULL /\ SpeedKeep(r.ptr)
  /\ UNCHANGED <<ranges, block_sizes, errors, verdict, statVars, tracefiles, tracenum, runs>>

SpeedAlloc ==
  /\ phase = "speed" /\ MoreOps /\ op.type = "ALLOC"
  /\ SpeedCall(mm_malloc(op.size))

SpeedRealloc ==
  /\ phase = "speed" /\ MoreOps /\ op.type = "REALLOC"
  /\ SpeedCall(mm_realloc(blocks[op.index], op.size))

SpeedFree ==
  /\ phase = "speed" /\ MoreOps /\ op.type = "FREE"
  /\ Advance
  /\ UNCHANGED <<mmVars, evalVars, statVars, phase, tracefiles, tracenum, runs>>

EndSpeed_Uncounted ==
  /\ phase = "speed" /\ ~MoreOps
  /\ phase' = "begin_speed"
  /\ UNCHANGED <<mmVars, evalVars, statVars, tracefiles, tracenum, opnum, runs>>
EndSpeed ==
  /\ phase = "speed" /\ ~MoreOps
  /\ runs' = runs + 1
  /\ phase' = "begin_speed"
  /\ UNCHANGED <<mmVars, evalVars, statVars, tracefiles, tracenum, opnum>>

\* fsecs has timed enough calls; free_trace and the next round of main's loop.
\* The range list still holds what the trace left allocated.
NextTrace ==
  /\ phase = "begin_speed" /\ runs > 0
  /\ phase' = "read" /\ tracenum' = tracenum + 1
  /\ UNCHANGED <<mmVars, evalVars, statVars, tracefiles, opnum, runs>>

\* The report, and exit(0).
Report ==
  /\ phase = "read" /\ tracenum = Len(tracefiles)
  /\ phase' = "exit0"
  /\ UNCHANGED <<mmVars, evalVars, statVars, tracefiles, tracenum, opnum, runs>>

Exited == phase \in Exits /\ UNCHANGED vars

\* main before its loop: mem_init, calloc of the statistics
Init ==
  /\ tracefiles \in Workloads
  /\ tracenum = 0 /\ phase = "read" /\ opnum = 0 /\ runs = 0
  /\ mem_init
  /\ mem = [a \in HeapAddr |-> Junk]
  /\ ranges = {} /\ errors = 0 /\ verdict = "running"
  /\ blocks = [i \in Ids |-> NULL]
  /\ block_sizes = [i \in Ids |-> 0]
  /\ total_size = 0 /\ max_total_size = 0
  /\ mm_stats = [t \in DOMAIN tracefiles |-> [valid |-> FALSE, util |-> <<0, 0>>]]

Next ==
  \/ ReadTrace
  \/ BeginValid \/ ValidAlloc \/ ValidRealloc \/ ValidFree \/ EndValid
  \/ BeginUtil \/ UtilAlloc \/ UtilRealloc \/ UtilFree \/ EndUtil
  \/ BeginSpeed \/ SpeedAlloc \/ SpeedRealloc \/ SpeedFree \/ EndSpeed
  \/ NextTrace \/ Report \/ Exited

\* The driver is one process that nothing blocks.
Spec == Init /\ [][Next]_vars /\ WF_vars(Next)

-----------------------------------------------------------------------------
(* Properties *)

InPass == phase \in {"valid", "util", "speed"}

\* In every pass, the pointer that the driver holds for an allocated index is
\* one that this pass has received and still owns: its header, which the next
\* mm_realloc will trust, holds the size the trace last asked for, and it is
\* apart from the other blocks.  blocks is shared by all passes, and mm.c hands
\* out the same heap again in each.
PointersAreOfThisPass ==
  InPass =>
    LET L == LiveAfter(ops, opnum)
        Size(i) == SizeAfter(ops, opnum, i)
    IN  /\ \A i \in L :
             /\ mem_heap_lo <= blocks[i] - SIZE_T_SIZE
             /\ blocks[i] + Size(i) <= mem_brk
             /\ mem[blocks[i] - SIZE_T_SIZE] = Size(i)
        /\ \A i, j \in L : i # j =>
             \/ blocks[i] + Size(i) <= blocks[j] - SIZE_T_SIZE
             \/ blocks[j] + Size(j) <= blocks[i] - SIZE_T_SIZE

\* The layout that eval_mm_valid judged is the one that is measured: when
\* eval_mm_util or eval_mm_speed reaches the end of the trace, the blocks it
\* holds are the ranges that eval_mm_valid left in the range list.
LayoutReproduced ==
  phase \in {"util", "speed"} /\ ~MoreOps =>
    ranges = {range(blocks[i], SizeAfter(ops, opnum, i)) : i \in LiveAfter(ops, opnum)}

LiveBytes(n) == MapThenSumSet(LAMBDA i : SizeAfter(ops, n, i), LiveAfter(ops, n))

\* total_size is the number of payload bytes allocated at this point of the
\* trace, through any mixture of allocations, reallocations and frees, and
\* max_total_size the most that there ever were of them in this trace.  That
\* peak, which the utilization divides by the heap, is no larger than the heap.
TotalIsLiveBytes ==
  /\ phase = "util" =>
       /\ total_size = LiveBytes(opnum)
       /\ max_total_size = Max({LiveBytes(n) : n \in 0 .. opnum})
  /\ \A t \in DOMAIN mm_stats : mm_stats[t].util[1] <= mm_stats[t].util[2]

\* Which of the first n requests ask for a block
Asked(trace, n) == {k \in 1 .. n : trace[k].type # "FREE"}

\* What a trace takes of a heap in which nothing is reused.
Footprint(trace) ==
  MapThenSumSet(LAMBDA k : newsize(trace[k].size), Asked(trace, Len(trace)))

\* No size is so large that mm_malloc's int overflows, and the heap has room.
FitsHeap(trace) ==
  /\ \A k \in Asked(trace, Len(trace)) : newsize(trace[k].size) >= 0
  /\ Footprint(trace) <= MAX_HEAP

\* The verdict on mm.c depends on the trace alone and not on the traces before
\* it: it is "valid" if the trace's blocks fit into the heap one after the
\* other, and "invalid" if they do not, which counts as exactly one error.
\* (For indices below 128: see the run of AnyPackage on high indices.)
VerdictMatchesFootprint ==
  /\ phase = "begin_util" => FitsHeap(ops)
  /\ \A t \in 1 .. tracenum : mm_stats[t].valid <=> FitsHeap(tracefiles[t])
  /\ phase \in {"read", "exit0"} =>
       errors = Cardinality({t \in 1 .. tracenum : ~mm_stats[t].valid})

\* A package that passed eval_mm_valid on a trace never fails in the later
\* passes over it: the driver does not exit through app_error.
NoAppError == phase # "exit1"

\* Every run of the driver ends.
Termination == <>(phase \in Exits)
=============================================================================
