----------------------------- MODULE AnyPackage -----------------------------
(***************************************************************************)
(* eval_mm_valid against an arbitrary malloc package: what does its        *)
(* verdict say?  The package may answer every request with any address,    *)
(* extend the heap or not, and lose data in a realloc.  The trace is any   *)
(* well-formed one: it allocates an index that is free, reallocates and    *)
(* frees indices that are allocated.  main's loop runs up to MaxTraces     *)
(* traces with one range list and one error count.                         *)
(*                                                                         *)
(* live and misdeeds are not in the code.  They record the truth that the  *)
(* verdict is about: the payloads handed out, and what the package has     *)
(* done wrong in this trace.                                               *)
(***************************************************************************)
EXTENDS EvalValid, FiniteSets

CONSTANTS
  Sizes,      \* sizes in the traces
  Answers,    \* addresses the package may answer with
  Incrs,      \* what it may pass to mem_sbrk
  MaxTraces   \* bound on the traces of one run of main

ASSUME AnyPackageAssumption ==
  /\ Sizes \subseteq 0 .. MaxInt
  /\ Answers \subseteq 0 .. WordMod - 1
  /\ NULL \notin Answers
  /\ Incrs \subseteq Nat
  /\ MaxTraces \in Nat \ {0}

VARIABLES
  tracenum,  \* traces begun
  live,      \* Ids -> extent of the payload held, or NoRange
  misdeeds   \* what the package did wrong in this trace

vars == <<mem_brk, ranges, blocks, block_sizes, errors, verdict, tracenum, live, misdeeds>>

NoRange == [lo |-> NULL, hi |-> NULL]
Held(i) == live[i] # NoRange
LiveRanges == {live[i] : i \in {j \in Ids : Held(j)}}

Payload(r) == r.lo .. r.hi
Encloses(r, q) == r.lo < q.lo /\ q.hi < r.hi

\* What is wrong with giving r to index i
PlacingFaults(i, r) ==
  LET hit == {j \in Ids \ {i} : Held(j) /\ Payload(r) \cap Payload(live[j]) # {}}
  IN  UNION {
        IF r.lo % ALIGNMENT # 0 THEN {"misaligned"} ELSE {},
        IF Payload(r) \subseteq mem_start_brk .. mem_brk' - 1 THEN {} ELSE {"outside"},
        IF \E j \in hit : Encloses(r, live[j]) THEN {"enclosure"} ELSE {},
        IF \E j \in hit : ~Encloses(r, live[j]) THEN {"overlap"} ELSE {} }

\* The package may call mem_sbrk while it serves a request.
ExtendHeap ==
  \/ UNCHANGED mem_brk
  \/ \E incr \in Incrs : ~SbrkFails(incr) /\ mem_brk' = SbrkTo(incr)

\* The package answers p to a request for size bytes for index i; lost says
\* that it did not carry over the data it should have.
Answer(i, p, size, lost) ==
  LET r == [lo |-> p, hi |-> p + size - 1]
  IN  \/ /\ p = NULL
         /\ misdeeds' = misdeeds \cup {"refused"}
         /\ UNCHANGED live
      \/ /\ p # NULL
         /\ misdeeds' = misdeeds \cup PlacingFaults(i, r) \cup (IF lost THEN {"lost"} ELSE {})
         /\ live' = [live EXCEPT ![i] = r]

Begin ==
  /\ verdict \in {"valid", "invalid"} /\ tracenum < MaxTraces
  /\ tracenum' = tracenum + 1
  /\ live' = [i \in Ids |-> NoRange]
  /\ \E fails \in BOOLEAN :
       /\ misdeeds' = IF fails THEN {"init"} ELSE {}
       /\ valid_begin(fails)

Alloc(i, size, p) ==
  /\ verdict = "running" /\ ~Held(i)
  /\ ExtendHeap
  /\ Answer(i, p, size, FALSE)
  /\ valid_ALLOC(i, size, p)
  /\ UNCHANGED tracenum

\* kept: the new block starts with the old block's data
Realloc(i, size, p, kept) ==
  /\ verdict = "running" /\ Held(i)
  /\ ExtendHeap
  /\ Answer(i, p, size, ~kept)
  /\ valid_REALLOC(i, size, p, kept /\ SeesOwnFill(LowByte(i), i))
  /\ UNCHANGED tracenum

Free(i) ==
  /\ verdict = "running" /\ Held(i)
  /\ live' = [live EXCEPT ![i] = NoRange]
  /\ valid_FREE(i)
  /\ UNCHANGED <<mem_brk, tracenum, misdeeds>>

\* The trace is at its end.
EndOfTrace ==
  /\ verdict = "running"
  /\ valid_return
  /\ UNCHANGED <<mem_brk, tracenum, live, misdeeds>>

\* main has left its loop, or assert has killed it.
Stopped ==
  /\ verdict = "aborted" \/ (verdict # "running" /\ tracenum = MaxTraces)
  /\ UNCHANGED vars

\* main before its loop; the verdict of no trace is not "running" yet.
Init ==
  /\ mem_init
  /\ ranges = {}
  /\ blocks = [i \in Ids |-> NULL]
  /\ block_sizes = [i \in Ids |-> 0]
  /\ errors = 0
  /\ verdict = "valid"
  /\ tracenum = 0
  /\ live = [i \in Ids |-> NoRange]
  /\ misdeeds = {}

Next ==
  \/ Begin
  \/ \E i \in Ids, size \in Sizes, p \in Answers \cup {NULL} :
       \/ Alloc(i, size, p)
       \/ \E kept \in BOOLEAN : Realloc(i, size, p, kept)
  \/ \E i \in Ids : Free(i)
  \/ EndOfTrace
  \/ Stopped

Spec == Init /\ [][Next]_vars

-----------------------------------------------------------------------------
(* Properties *)

\* While a trace runs, the range list is exactly the payloads that are
\* allocated: nothing stale stays in it after frees, reallocs and earlier
\* traces, and nothing is missing, so a new payload is compared with the truth.
RangesMirrorLive == verdict = "running" => ranges = LiveRanges

\* A trace that is judged valid had every answer non-NULL, aligned, inside the
\* heap and apart from the other payloads, and no data lost in a realloc, with
\* one exception: a payload that encloses another one slips through.
OnlyEnclosureSlips == verdict = "valid" => misdeeds \subseteq {"enclosure"}

\* A package that does nothing wrong in a trace is not rejected, whatever
\* other traces did before.  (It is rejected when indices from 128 on are
\* reallocated: see the run on high indices.)
HonestPackagePasses == verdict = "invalid" => misdeeds # {}

\* "The payload must not overlap any other payloads" (mdriver.c:407): as long
\* as nothing has been rejected, the payloads held are disjoint.
AcceptedPayloadsDisjoint ==
  verdict = "running" =>
    \A i, j \in Ids : i # j /\ Held(i) /\ Held(j) =>
      Payload(live[i]) \cap Payload(live[j]) = {}
=============================================================================
