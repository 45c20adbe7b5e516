--------------------------- MODULE AnyPackageProofs ---------------------------
(***************************************************************************)
(* What the verdict of eval_mm_valid is worth, for every malloc package,   *)
(* every trace, every set of sizes and answers, every heap and every       *)
(* number of traces.                                                       *)
(*                                                                         *)
(* HonestPackagePasses needs the hypothesis LowIndices: without it the     *)
(* driver rejects honest packages, as the run on high indices shows.       *)
(***************************************************************************)
EXTENDS AnyPackage, TLAPS

USE DEF NULL

\* The extents of the payloads that indices other than i hold
OtherRanges(i) == {live[j] : j \in {k \in Ids \ {i} : Held(k)}}

TypeOK ==
  /\ mem_brk \in 0 .. mem_max_addr
  /\ blocks \in [Ids -> Nat]
  /\ live \in [Ids -> [lo : Nat, hi : Nat]]

\* What trace->blocks and the range list say of the payloads while a trace runs.
Booked ==
  /\ ranges = LiveRanges
  /\ \A i \in Ids : Held(i) => /\ blocks[i] = live[i].lo
                               /\ live[i].lo <= live[i].hi
  /\ \A i, j \in Ids : Held(i) /\ Held(j) /\ i # j => live[i].lo # live[j].lo

IInv ==
  /\ TypeOK
  /\ verdict = "running" => Booked
  /\ verdict \in {"running", "valid"} => misdeeds \subseteq {"enclosure"}

-----------------------------------------------------------------------------
(* The range list's tests and the truth *)

LEMMA ConstFacts ==
  /\ mem_start_brk \in Nat /\ mem_start_brk > 0
  /\ mem_max_addr \in Nat /\ mem_max_addr < WordMod
  /\ WordMod \in Nat /\ MaxInt \in Nat /\ 2 * MaxInt + 2 = WordMod
  /\ mem_max_addr <= mem_start_brk + MaxInt
  BY MemlibAssumption, ConfigAssumption DEF mem_max_addr, MaxInt

\* An end of a payload that wraps around the address space lands below the
\* heap: both ends are inside the heap only if nothing wrapped.
LEMMA InsideIsUnwrapped ==
  ASSUME NEW p \in Nat, NEW size \in 1 .. MaxInt, mem_brk' \in 0 .. mem_max_addr,
         WithinHeap(p), WithinHeap((p + size - 1) % WordMod)
  PROVE  /\ (p + size - 1) % WordMod = p + size - 1
         /\ p + size - 1 <= mem_brk' - 1
<1>1. PICK b \in Nat : b = mem_brk' /\ b <= mem_max_addr
  BY ConstFacts
<1>2. p <= b - 1 /\ p >= mem_start_brk
  BY <1>1 DEF WithinHeap, mem_heap_lo, mem_heap_hi
<1>3. p < mem_max_addr /\ p + size - 1 \in Nat
  <2>1. b <= mem_max_addr
    BY <1>1
  <2> QED
    BY <1>2, <2>1, ConstFacts
<1>4. CASE p + size - 1 < WordMod
  <2>1. (p + size - 1) % WordMod = p + size - 1
    BY <1>3, <1>4, ConstFacts
  <2> QED
    BY <1>1, <2>1 DEF WithinHeap, mem_heap_hi
<1>5. CASE p + size - 1 >= WordMod
  <2>1. p + size - 1 - WordMod \in 0 .. WordMod - 1
    BY <1>3, <1>5, ConstFacts
  <2>2. (p + size - 1) % WordMod = p + size - 1 - WordMod
    BY <1>3, <2>1, ConstFacts
  <2>3. p + size - 1 - WordMod < mem_start_brk
    BY <1>3, ConstFacts
  <2> QED
    BY <2>2, <2>3, ConstFacts DEF WithinHeap, mem_heap_lo
<1>6. p + size - 1 < WordMod \/ p + size - 1 >= WordMod
  BY <1>3, ConstFacts
<1> QED
  BY <1>4, <1>5, <1>6, Zenon

\* The overlap test sees every common byte but for a payload that encloses
\* the one it is compared with.
LEMMA OverlapTest ==
  ASSUME NEW r \in [lo : Nat, hi : Nat], NEW q \in [lo : Nat, hi : Nat], q.lo <= q.hi
  PROVE  /\ r.lo <= r.hi /\ Overlaps(r, q) => Payload(r) \cap Payload(q) # {}
         /\ Payload(r) \cap Payload(q) # {} /\ ~Overlaps(r, q) => Encloses(r, q)
<1>1. ASSUME r.lo <= r.hi, Overlaps(r, q)
      PROVE  Payload(r) \cap Payload(q) # {}
  <2>1. r.lo \in Payload(r) /\ r.hi \in Payload(r)
    BY <1>1 DEF Payload
  <2>2. r.lo \in Payload(q) \/ r.hi \in Payload(q)
    BY <1>1 DEF Payload, Overlaps
  <2> QED
    BY <2>1, <2>2
<1>2. ASSUME NEW x \in Payload(r) \cap Payload(q), ~Overlaps(r, q)
      PROVE  Encloses(r, q)
  BY <1>2 DEF Payload, Overlaps, Encloses
<1> QED
  BY <1>1, <1>2

\* A payload that add_range accepts can have one fault only.
LEMMA AcceptedIsFaultless ==
  ASSUME TypeOK, Booked, mem_brk' \in 0 .. mem_max_addr,
         NEW i \in Ids, NEW p \in Nat, NEW size \in 1 .. MaxInt,
         Acceptable(OtherRanges(i), range(p, size))
  PROVE  /\ range(p, size) = [lo |-> p, hi |-> p + size - 1]
         /\ PlacingFaults(i, [lo |-> p, hi |-> p + size - 1]) \subseteq {"enclosure"}
         /\ p >= mem_start_brk
         /\ \A j \in Ids \ {i} : Held(j) => live[j].lo # p
<1> DEFINE r == [lo |-> p, hi |-> p + size - 1]
<1>0. PICK b \in Nat : b = mem_brk' /\ b <= mem_max_addr
  BY ConstFacts
<1>1. /\ IS_ALIGNED(p)
      /\ WithinHeap(p) /\ WithinHeap((p + size - 1) % WordMod)
      /\ \A q \in OtherRanges(i) : ~Overlaps(range(p, size), q)
  BY DEF Acceptable, range
<1>2. (p + size - 1) % WordMod = p + size - 1 /\ p + size - 1 <= mem_brk' - 1
  BY <1>1, InsideIsUnwrapped
<1>3. range(p, size) = r
  BY <1>2 DEF range
<1>4. r \in [lo : Nat, hi : Nat] /\ r.lo = p /\ r.hi = p + size - 1 /\ r.lo <= r.hi
  BY ConstFacts
<1>5. p >= mem_start_brk
  BY <1>1 DEF WithinHeap, mem_heap_lo
<1>6. r.lo % ALIGNMENT = 0
  BY <1>1 DEF IS_ALIGNED
<1>7. Payload(r) \subseteq mem_start_brk .. mem_brk' - 1
  <2>1. p + size - 1 <= b - 1
    BY <1>0, <1>2
  <2>2. Payload(r) \subseteq mem_start_brk .. b - 1
    BY <1>4, <1>5, <2>1, ConstFacts DEF Payload
  <2> QED
    BY <1>0, <2>2
<1>8. ASSUME NEW j \in Ids \ {i}, Held(j)
      PROVE  /\ live[j] \in [lo : Nat, hi : Nat] /\ live[j].lo <= live[j].hi
             /\ ~Overlaps(r, live[j])
  BY <1>1, <1>3, <1>8 DEF TypeOK, Booked, OtherRanges
<1>9. ASSUME NEW j \in Ids \ {i}, Held(j)
      PROVE  live[j].lo # p
  BY <1>4, <1>8, <1>9 DEF Overlaps
<1>10. ASSUME NEW j \in Ids \ {i}, Held(j), Payload(r) \cap Payload(live[j]) # {}
       PROVE  Encloses(r, live[j])
  BY <1>4, <1>8, <1>10, OverlapTest
<1> HIDE DEF r
<1>11. PlacingFaults(i, r) \subseteq {"enclosure"}
  BY <1>6, <1>7, <1>10, Zenon DEF PlacingFaults
<1> QED
  BY <1>3, <1>5, <1>9, <1>11 DEF r

\* A payload that add_range rejects has a fault.
LEMMA RejectedIsFaulty ==
  ASSUME TypeOK, Booked, mem_brk' \in 0 .. mem_max_addr,
         NEW i \in Ids, NEW p \in 0 .. WordMod - 1, NEW size \in 1 .. MaxInt,
         ~Acceptable(OtherRanges(i), range(p, size))
  PROVE  PlacingFaults(i, [lo |-> p, hi |-> p + size - 1]) # {}
<1> DEFINE r == [lo |-> p, hi |-> p + size - 1]
<1>0. PICK b \in Nat : b = mem_brk' /\ b <= mem_max_addr
  BY ConstFacts
<1>1. r \in [lo : Nat, hi : Nat] /\ r.lo = p /\ r.hi = p + size - 1 /\ r.lo <= r.hi
  BY ConstFacts
<1>2. CASE ~IS_ALIGNED(p)
  <2>1. "misaligned" \in PlacingFaults(i, r)
    BY <1>1, <1>2 DEF PlacingFaults, IS_ALIGNED
  <2> QED
    BY <2>1
<1>3. CASE ~(Payload(r) \subseteq mem_start_brk .. mem_brk' - 1)
  <2>1. "outside" \in PlacingFaults(i, r)
    BY <1>3 DEF PlacingFaults
  <2> QED
    BY <2>1
<1>4. CASE IS_ALIGNED(p) /\ Payload(r) \subseteq mem_start_brk .. mem_brk' - 1
  <2>1. Payload(r) \subseteq mem_start_brk .. b - 1 /\ b <= mem_max_addr
    BY <1>0, <1>4
  <2>2. /\ mem_start_brk <= r.lo /\ r.lo <= b - 1
        /\ mem_start_brk <= r.hi /\ r.hi <= b - 1
    BY <1>1, <2>1, ConstFacts DEF Payload
  <2>3. (p + size - 1) % WordMod = p + size - 1
    BY <1>1, <2>1, <2>2, ConstFacts
  <2>4. range(p, size) = r
    BY <2>3 DEF range
  <2>5. WithinHeap(r.lo) /\ WithinHeap(r.hi)
    BY <1>0, <2>2, ConstFacts DEF WithinHeap, mem_heap_lo, mem_heap_hi
  <2>6. PICK q \in OtherRanges(i) : Overlaps(r, q)
    BY <1>1, <1>4, <2>4, <2>5 DEF Acceptable
  <2>7. PICK j \in Ids \ {i} : Held(j) /\ live[j] = q
    BY DEF OtherRanges
  <2>8. Payload(r) \cap Payload(live[j]) # {}
    BY <1>1, <2>6, <2>7, OverlapTest DEF TypeOK, Booked
  <2>9. "enclosure" \in PlacingFaults(i, r) \/ "overlap" \in PlacingFaults(i, r)
    <3> HIDE DEF r
    <3> QED
      BY <2>7, <2>8 DEF PlacingFaults
  <2> QED
    BY <2>9
<1> QED
  BY <1>2, <1>3, <1>4

-----------------------------------------------------------------------------
(* The actions *)

LEMMA ExtendHeapStays ==
  ASSUME mem_brk \in 0 .. mem_max_addr, ExtendHeap
  PROVE  mem_brk' \in 0 .. mem_max_addr
<1>1. CASE UNCHANGED mem_brk
  BY <1>1
<1>2. ASSUME NEW incr \in Incrs, ~SbrkFails(incr), mem_brk' = SbrkTo(incr)
      PROVE  mem_brk' \in 0 .. mem_max_addr
  <2>1. mem_brk + incr \in Nat
    BY AnyPackageAssumption, ConstFacts
  <2>2. (mem_brk + incr) % WordMod \in Nat
    BY <2>1, ConstFacts
  <2> QED
    BY <1>2, <2>2, ConstFacts DEF SbrkFails, SbrkTo
<1> QED
  BY <1>1, <1>2 DEF ExtendHeap

\* The list that a new payload for i is compared with is the truth about the
\* other indices: at once when i is free, and after remove_range when i holds
\* the block that realloc may have moved.
LEMMA ComparedWithOthers ==
  ASSUME TypeOK, Booked, NEW i \in Ids
  PROVE  /\ ~Held(i) => ranges = OtherRanges(i)
         /\ Held(i) => remove_range(ranges, blocks[i]) = OtherRanges(i)
<1>1. ASSUME ~Held(i)
      PROVE  ranges = OtherRanges(i)
  BY <1>1 DEF Booked, LiveRanges, OtherRanges
<1>2. ASSUME Held(i)
      PROVE  remove_range(ranges, blocks[i]) = OtherRanges(i)
  <2>1. ASSUME NEW q \in ranges, q.lo # blocks[i]
        PROVE  q \in OtherRanges(i)
    BY <1>2, <2>1 DEF Booked, LiveRanges, OtherRanges
  <2>2. ASSUME NEW q \in OtherRanges(i)
        PROVE  q \in ranges /\ q.lo # blocks[i]
    BY <1>2, <2>2 DEF Booked, LiveRanges, OtherRanges
  <2> QED
    BY <2>1, <2>2 DEF remove_range
<1> QED
  BY <1>1, <1>2

\* The package's answer p is booked for i: the range list and trace->blocks say
\* again what is held.
LEMMA RememberBooks ==
  ASSUME IInv, verdict = "running", mem_brk' \in 0 .. mem_max_addr,
         NEW i \in Ids, NEW p \in Nat, NEW size \in 1 .. MaxInt,
         Acceptable(OtherRanges(i), range(p, size)),
         Remember(i, p, size, OtherRanges(i)),
         live' = [live EXCEPT ![i] = [lo |-> p, hi |-> p + size - 1]]
  PROVE  TypeOK' /\ Booked'
<1> DEFINE r == [lo |-> p, hi |-> p + size - 1]
<1>0. TypeOK /\ Booked
  BY DEF IInv
<1>1. range(p, size) = r /\ p >= mem_start_brk /\ \A j \in Ids \ {i} : Held(j) => live[j].lo # p
  BY <1>0, AcceptedIsFaultless
<1>2. r \in [lo : Nat, hi : Nat] /\ r.lo = p /\ r.lo <= r.hi /\ r # NoRange
  BY <1>1, ConstFacts DEF NoRange
<1>3. live' = [live EXCEPT ![i] = r] /\ live \in [Ids -> [lo : Nat, hi : Nat]]
  BY <1>0 DEF TypeOK
<1>4. blocks' = [blocks EXCEPT ![i] = p] /\ ranges' = OtherRanges(i) \cup {r}
  BY <1>1 DEF Remember, add_range
<1> HIDE DEF r
<1>5. TypeOK'
  BY <1>0, <1>2, <1>3, <1>4 DEF TypeOK
<1>6. Held(i)' /\ live'[i] = r /\ blocks'[i] = p
  BY <1>0, <1>2, <1>3, <1>4 DEF Held, TypeOK, NoRange
<1>7. ASSUME NEW j \in Ids \ {i}
      PROVE  live'[j] = live[j] /\ blocks'[j] = blocks[j] /\ (Held(j)' <=> Held(j))
  BY <1>0, <1>3, <1>4 DEF Held, TypeOK, NoRange
<1>8. ranges' = LiveRanges'
  BY <1>4, <1>6, <1>7 DEF LiveRanges, OtherRanges
<1>9. ASSUME NEW j \in Ids, Held(j)'
      PROVE  blocks'[j] = live'[j].lo /\ live'[j].lo <= live'[j].hi
  BY <1>0, <1>2, <1>6, <1>7, <1>9 DEF Booked
<1>10. ASSUME NEW j \in Ids, NEW k \in Ids, Held(j)', Held(k)', j # k
       PROVE  live'[j].lo # live'[k].lo
  BY <1>0, <1>1, <1>2, <1>6, <1>7, <1>10 DEF Booked
<1> QED
  BY <1>5, <1>8, <1>9, <1>10 DEF Booked

\* One call of malloc or realloc, whatever the package answers: the list that
\* Examine works on holds the other indices' payloads.
Call(i, size, p, lost, preserved) ==
  /\ verdict = "running"
  /\ mem_brk' \in 0 .. mem_max_addr
  /\ Answer(i, p, size, lost)
  /\ \/ p = NULL /\ verdict' = "invalid" /\ UNCHANGED blocks
     \/ p # NULL /\ Examine(i, p, size, OtherRanges(i), preserved)
  /\ lost => ~preserved

LEMMA AllocIsCall ==
  ASSUME IInv, NEW i \in Ids, NEW size \in Sizes, NEW p \in Answers \cup {NULL},
         Alloc(i, size, p)
  PROVE  Call(i, size, p, FALSE, TRUE)
<1>1. TypeOK /\ Booked /\ ~Held(i) /\ verdict = "running"
  BY DEF IInv, Alloc
<1>2. mem_brk' \in 0 .. mem_max_addr
  BY <1>1, ExtendHeapStays DEF Alloc, TypeOK
<1>3. ranges = OtherRanges(i)
  BY <1>1, ComparedWithOthers
<1> QED
  BY <1>1, <1>2, <1>3 DEF Alloc, Call, valid_ALLOC, malloc_error

LEMMA ReallocIsCall ==
  ASSUME IInv, NEW i \in Ids, NEW size \in Sizes, NEW p \in Answers \cup {NULL},
         NEW kept \in BOOLEAN, Realloc(i, size, p, kept)
  PROVE  Call(i, size, p, ~kept, kept /\ SeesOwnFill(LowByte(i), i))
<1>1. TypeOK /\ Booked /\ Held(i) /\ verdict = "running"
  BY DEF IInv, Realloc
<1>2. mem_brk' \in 0 .. mem_max_addr
  BY <1>1, ExtendHeapStays DEF Realloc, TypeOK
<1>3. remove_range(ranges, blocks[i]) = OtherRanges(i)
  BY <1>1, ComparedWithOthers
<1> QED
  BY <1>1, <1>2, <1>3 DEF Realloc, Call, valid_REALLOC, malloc_error

LEMMA CallKeepsIInv ==
  ASSUME IInv, NEW i \in Ids, NEW size \in Sizes, NEW p \in Answers \cup {NULL},
         NEW lost \in BOOLEAN, NEW preserved \in BOOLEAN,
         Call(i, size, p, lost, preserved)
  PROVE  IInv'
<1> DEFINE r == [lo |-> p, hi |-> p + size - 1]
<1>0. /\ TypeOK /\ Booked /\ misdeeds \subseteq {"enclosure"}
      /\ mem_brk' \in 0 .. mem_max_addr
      /\ p \in Nat /\ size \in 0 .. MaxInt
  BY AnyPackageAssumption, ConstFacts DEF IInv, Call
<1>1. CASE p = NULL
  <2>1. verdict' = "invalid" /\ UNCHANGED <<blocks, live>>
    BY <1>1 DEF Call, Answer
  <2> QED
    BY <1>0, <2>1 DEF IInv, TypeOK
<1>2. CASE p # NULL /\ verdict' \notin {"running", "valid"}
  <2>1. r \in [lo : Nat, hi : Nat]
    BY <1>0, <1>2, ConstFacts
  <2>2. live' = [live EXCEPT ![i] = r]
    BY <1>2 DEF Call, Answer
  <2>3. UNCHANGED blocks
    BY <1>2 DEF Call, Examine, Remember, malloc_error, assert_fails
  <2> QED
    BY <1>0, <1>2, <2>1, <2>2, <2>3 DEF IInv, TypeOK
<1>3. CASE p # NULL /\ verdict' \in {"running", "valid"}
  <2>1. /\ size > 0 /\ Acceptable(OtherRanges(i), range(p, size)) /\ preserved
        /\ Remember(i, p, size, OtherRanges(i))
    BY <1>3 DEF Call, Examine, malloc_error, assert_fails
  <2>2. /\ live' = [live EXCEPT ![i] = r]
        /\ misdeeds' = misdeeds \cup PlacingFaults(i, r)
    BY <1>3, <2>1 DEF Call, Answer
  <2>3. size \in 1 .. MaxInt
    BY <1>0, <2>1
  <2>4. PlacingFaults(i, r) \subseteq {"enclosure"}
    BY <1>0, <2>1, <2>3, AcceptedIsFaultless
  <2>5. TypeOK' /\ Booked'
    BY <1>0, <2>1, <2>2, <2>3, RememberBooks DEF Call
  <2> QED
    BY <1>0, <2>2, <2>4, <2>5 DEF IInv
<1> QED
  BY <1>1, <1>2, <1>3

LEMMA FreeKeepsIInv ==
  ASSUME IInv, NEW i \in Ids, Free(i)
  PROVE  IInv'
<1>1. TypeOK /\ Booked /\ Held(i) /\ misdeeds \subseteq {"enclosure"}
  BY DEF IInv, Free
<1>2. /\ ranges' = OtherRanges(i)
      /\ live' = [live EXCEPT ![i] = NoRange]
      /\ UNCHANGED <<mem_brk, blocks, misdeeds, verdict>>
  BY <1>1, ComparedWithOthers DEF Free, valid_FREE
<1>3. TypeOK'
  BY <1>1, <1>2 DEF TypeOK, NoRange
<1>4. ~Held(i)' /\ \A j \in Ids \ {i} : live'[j] = live[j] /\ (Held(j)' <=> Held(j))
  BY <1>1, <1>2 DEF Held, TypeOK, NoRange
<1>5. ranges' = LiveRanges'
  BY <1>2, <1>4 DEF LiveRanges, OtherRanges
<1>6. Booked'
  BY <1>1, <1>2, <1>4, <1>5 DEF Booked
<1> QED
  BY <1>1, <1>2, <1>3, <1>6 DEF IInv

LEMMA BeginKeepsIInv == ASSUME IInv, Begin PROVE IInv'
<1>1. /\ blocks' = blocks /\ live' = [i \in Ids |-> NoRange] /\ mem_brk' = mem_start_brk
      /\ ranges' = {}
      /\ (verdict' = "running" /\ misdeeds' = {}) \/ verdict' = "invalid"
  BY DEF Begin, valid_begin, malloc_error, clear_ranges, mem_reset_brk
<1>2. TypeOK'
  BY <1>1, MemlibAssumption, ConfigAssumption DEF IInv, TypeOK, NoRange, mem_max_addr
<1>3. \A i \in Ids : ~Held(i)'
  BY <1>1 DEF Held
<1>4. Booked'
  BY <1>1, <1>3 DEF Booked, LiveRanges
<1> QED
  BY <1>1, <1>2, <1>4 DEF IInv

LEMMA InitIInv == Init => IInv
  BY MemlibAssumption, ConfigAssumption
     DEF Init, IInv, TypeOK, mem_init, NoRange, mem_max_addr

LEMMA NextKeepsIInv == ASSUME IInv, [Next]_vars PROVE IInv'
<1>1. ASSUME NEW i \in Ids, NEW size \in Sizes, NEW p \in Answers \cup {NULL},
             Alloc(i, size, p)
      PROVE  IInv'
  BY <1>1, AllocIsCall, CallKeepsIInv
<1>2. ASSUME NEW i \in Ids, NEW size \in Sizes, NEW p \in Answers \cup {NULL},
             NEW kept \in BOOLEAN, Realloc(i, size, p, kept)
      PROVE  IInv'
  <2>1. (kept /\ SeesOwnFill(LowByte(i), i)) \in BOOLEAN /\ (~kept) \in BOOLEAN
    OBVIOUS
  <2> QED
    BY <1>2, <2>1, ReallocIsCall, CallKeepsIInv
<1>3. CASE EndOfTrace
  BY <1>3 DEF EndOfTrace, valid_return, IInv, TypeOK
<1>4. CASE UNCHANGED vars
  BY <1>4 DEF vars, IInv, TypeOK, Booked, LiveRanges, Held
<1> QED
  BY <1>1, <1>2, <1>3, <1>4, FreeKeepsIInv, BeginKeepsIInv DEF Next, Stopped

-----------------------------------------------------------------------------
(* The theorems *)

LEMMA SpecIInv == Spec => []IInv
  BY InitIInv, NextKeepsIInv, PTL DEF Spec

\* While a trace runs the range list is exactly the payloads that are
\* allocated: add_range, remove_range and clear_ranges leave nothing stale
\* behind and lose nothing, whatever the package answers.
THEOREM RangeListIsTheTruth == Spec => []RangesMirrorLive
<1>1. IInv => RangesMirrorLive
  BY DEF IInv, Booked, RangesMirrorLive
<1> QED
  BY <1>1, SpecIInv, PTL

\* The only fault of a package that eval_mm_valid lets pass is a payload that
\* encloses another one.
THEOREM VerdictMissesOnlyEnclosure == Spec => []OnlyEnclosureSlips
<1>1. IInv => OnlyEnclosureSlips
  BY DEF IInv, OnlyEnclosureSlips
<1> QED
  BY <1>1, SpecIInv, PTL

\* A call that makes the driver give up was answered wrongly.
LEMMA CallRejectsFault ==
  ASSUME IInv, NEW i \in Ids, NEW size \in Sizes, NEW p \in Answers \cup {NULL},
         NEW lost \in BOOLEAN, NEW preserved \in BOOLEAN,
         Call(i, size, p, lost, preserved), ~preserved => lost, verdict' = "invalid"
  PROVE  misdeeds' # {}
<1> DEFINE r == [lo |-> p, hi |-> p + size - 1]
<1>0. /\ TypeOK /\ Booked /\ mem_brk' \in 0 .. mem_max_addr
      /\ p \in 0 .. WordMod - 1 /\ size \in 0 .. MaxInt
  BY AnyPackageAssumption, ConstFacts DEF IInv, Call
<1>1. CASE p = NULL
  <2>1. "refused" \in misdeeds'
    BY <1>1 DEF Call, Answer
  <2> QED
    BY <2>1
<1>2. CASE p # NULL
  <2>1. misdeeds' = misdeeds \cup PlacingFaults(i, r) \cup (IF lost THEN {"lost"} ELSE {})
    BY <1>2 DEF Call, Answer
  <2>2. size > 0 /\ (~Acceptable(OtherRanges(i), range(p, size)) \/ ~preserved)
    BY <1>2 DEF Call, Examine, Remember, assert_fails
  <2>3. CASE ~Acceptable(OtherRanges(i), range(p, size))
    <3>1. size \in 1 .. MaxInt
      BY <1>0, <2>2
    <3>2. PlacingFaults(i, r) # {}
      BY <1>0, <2>3, <3>1, RejectedIsFaulty
    <3> QED
      BY <2>1, <3>2
  <2>4. CASE ~preserved
    <3>1. "lost" \in misdeeds'
      BY <2>1, <2>4
    <3> QED
      BY <3>1
  <2> QED
    BY <2>2, <2>3, <2>4
<1> QED
  BY <1>1, <1>2

LEMMA NextKeepsHonest ==
  ASSUME LowIndices, IInv, HonestPackagePasses, [Next]_vars
  PROVE  HonestPackagePasses'
<1> SUFFICES ASSUME verdict' = "invalid"
             PROVE  misdeeds' # {}
  BY DEF HonestPackagePasses
<1>1. CASE Begin
  BY <1>1 DEF Begin, valid_begin
<1>2. ASSUME NEW i \in Ids, NEW size \in Sizes, NEW p \in Answers \cup {NULL},
             Alloc(i, size, p)
      PROVE  misdeeds' # {}
  BY <1>2, AllocIsCall, CallRejectsFault
<1>3. ASSUME NEW i \in Ids, NEW size \in Sizes, NEW p \in Answers \cup {NULL},
             NEW kept \in BOOLEAN, Realloc(i, size, p, kept)
      PROVE  misdeeds' # {}
  <2>1. SeesOwnFill(LowByte(i), i)
    BY DEF LowIndices, SeesOwnFill, SChar
  <2>2. Call(i, size, p, ~kept, kept)
    BY <1>3, <2>1, ReallocIsCall
  <2> QED
    BY <2>2, CallRejectsFault
<1>4. CASE \E i \in Ids : Free(i)
  BY <1>4 DEF Free, valid_FREE
<1>5. CASE EndOfTrace
  BY <1>5 DEF EndOfTrace, valid_return
<1>6. CASE UNCHANGED vars
  BY <1>6 DEF vars, HonestPackagePasses
<1> QED
  BY <1>1, <1>2, <1>3, <1>4, <1>5, <1>6 DEF Next, Stopped

\* A package that does nothing wrong is never rejected, as long as the low
\* bytes of the indices are not negative as signed chars.
THEOREM HonestPackageIsAccepted ==
  ASSUME LowIndices
  PROVE  Spec => []HonestPackagePasses
<1>1. Init => HonestPackagePasses
  BY DEF Init, HonestPackagePasses
<1>2. IInv /\ HonestPackagePasses /\ [Next]_vars => HonestPackagePasses'
  BY NextKeepsHonest
<1> QED
  BY <1>1, <1>2, SpecIInv, PTL DEF Spec

\* What is left of AcceptedPayloadsDisjoint, which the enclosure run refutes:
\* the payloads of an accepted trace are disjoint unless one was placed around
\* another.
DisjointUnlessEnclosed ==
  verdict = "running" /\ misdeeds = {} =>
    \A i, j \in Ids : i # j /\ Held(i) /\ Held(j) => Payload(live[i]) \cap Payload(live[j]) = {}

LEMMA CallKeepsDisjoint ==
  ASSUME IInv, DisjointUnlessEnclosed,
         NEW i \in Ids, NEW size \in Sizes, NEW p \in Answers \cup {NULL},
         NEW lost \in BOOLEAN, NEW preserved \in BOOLEAN,
         Call(i, size, p, lost, preserved)
  PROVE  DisjointUnlessEnclosed'
<1> SUFFICES ASSUME verdict' = "running", misdeeds' = {},
                    NEW j \in Ids, NEW k \in Ids, j # k, Held(j)', Held(k)'
             PROVE  Payload(live'[j]) \cap Payload(live'[k]) = {}
  BY DEF DisjointUnlessEnclosed, Payload
<1> DEFINE r == [lo |-> p, hi |-> p + size - 1]
<1>1. verdict = "running" /\ p # NULL /\ TypeOK
  BY DEF Call, IInv
<1>2. /\ live' = [live EXCEPT ![i] = r]
      /\ misdeeds = {} /\ PlacingFaults(i, r) = {}
  BY <1>1 DEF Call, Answer
<1> HIDE DEF r
<1>3. ASSUME NEW l \in Ids \ {i}, Held(l)
      PROVE  Payload(r) \cap Payload(live[l]) = {}
  BY <1>2, <1>3 DEF PlacingFaults
<1>4. live'[i] = r /\ \A l \in Ids \ {i} : live'[l] = live[l] /\ (Held(l)' <=> Held(l))
  BY <1>1, <1>2 DEF TypeOK, Held, NoRange
<1>5. CASE j = i
  BY <1>3, <1>4, <1>5
<1>6. CASE k = i
  <2>1. Payload(r) \cap Payload(live[j]) = {}
    BY <1>3, <1>4, <1>6
  <2> QED
    BY <2>1, <1>4, <1>6
<1>7. CASE j # i /\ k # i
  BY <1>1, <1>2, <1>4, <1>7 DEF DisjointUnlessEnclosed
<1> QED
  BY <1>5, <1>6, <1>7

LEMMA NextKeepsDisjoint ==
  ASSUME IInv, DisjointUnlessEnclosed, [Next]_vars
  PROVE  DisjointUnlessEnclosed'
<1>1. CASE Begin
  <2>1. \A i \in Ids : ~Held(i)'
    BY <1>1 DEF Begin, Held
  <2> QED
    BY <2>1 DEF DisjointUnlessEnclosed
<1>2. ASSUME NEW i \in Ids, NEW size \in Sizes, NEW p \in Answers \cup {NULL},
             Alloc(i, size, p)
      PROVE  DisjointUnlessEnclosed'
  BY <1>2, AllocIsCall, CallKeepsDisjoint
<1>3. ASSUME NEW i \in Ids, NEW size \in Sizes, NEW p \in Answers \cup {NULL},
             NEW kept \in BOOLEAN, Realloc(i, size, p, kept)
      PROVE  DisjointUnlessEnclosed'
  <2>1. (kept /\ SeesOwnFill(LowByte(i), i)) \in BOOLEAN /\ (~kept) \in BOOLEAN
    OBVIOUS
  <2> QED
    BY <1>3, <2>1, ReallocIsCall, CallKeepsDisjoint
<1>4. ASSUME NEW i \in Ids, Free(i)
      PROVE  DisjointUnlessEnclosed'
  <2>1. live' = [live EXCEPT ![i] = NoRange] /\ TypeOK /\ UNCHANGED <<misdeeds, verdict>>
    BY <1>4 DEF Free, valid_FREE, IInv
  <2>2. ~Held(i)' /\ \A j \in Ids \ {i} : live'[j] = live[j] /\ (Held(j)' <=> Held(j))
    BY <2>1 DEF Held, TypeOK, NoRange
  <2> QED
    BY <2>1, <2>2 DEF DisjointUnlessEnclosed
<1>5. CASE EndOfTrace
  BY <1>5 DEF EndOfTrace, valid_return, DisjointUnlessEnclosed
<1>6. CASE UNCHANGED vars
  BY <1>6 DEF vars, DisjointUnlessEnclosed, Held
<1> QED
  BY <1>1, <1>2, <1>3, <1>4, <1>5, <1>6 DEF Next, Stopped

\* "The payload must not overlap any other payloads" (mdriver.c, add_range) holds
\* but for enclosure: in a trace that has not been rejected, and in which no
\* payload was placed around another, the payloads held are disjoint.
THEOREM AcceptedDisjointUnlessEnclosed == Spec => []DisjointUnlessEnclosed
<1>1. Init => DisjointUnlessEnclosed
  BY DEF Init, DisjointUnlessEnclosed, Held
<1>2. IInv /\ DisjointUnlessEnclosed /\ [Next]_vars => DisjointUnlessEnclosed'
  BY NextKeepsDisjoint
<1> QED
  BY <1>1, <1>2, SpecIInv, PTL DEF Spec
=============================================================================
