------------------------------ MODULE MMProofs ------------------------------
(***************************************************************************)
(* mm.c and memlib.c keep the blocks of any well-behaved client apart, for *)
(* every heap, every set of block names and every set of sizes that fit.   *)
(*                                                                         *)
(* Three facts about the constants are hypotheses of the theorems:         *)
(*   ALIGNMENT = 8  the value mm.c is written for (ALIGN's mask is ~0x7);  *)
(*   RoomAbove      the heap lies low enough in the address space that     *)
(*                  mem_sbrk's pointer sum cannot wrap;                    *)
(*   RequestsFit    no request is so large that newsize wraps.             *)
(* Without any of them the conclusions are false: ALIGN rounds down, the   *)
(* wrapped sum moves mem_brk out of the heap, and a request that wraps     *)
(* gets a block without room for it (HugeRequestsWrap).                    *)
(***************************************************************************)
EXTENDS MMClient, TLAPS

USE DEF NULL

\* A number below the modulus is its own remainder.
LEMMA ModSmall ==
  ASSUME NEW x \in Nat, NEW m \in Nat, x < m
  PROVE  x % m = x
  OBVIOUS

\* One between the modulus and twice the modulus has the rest as its remainder.
LEMMA ModWrapped ==
  ASSUME NEW x \in Nat, NEW m \in Nat, m <= x, x < 2 * m
  PROVE  x % m = x - m
  OBVIOUS

\* ALIGN rounds up to a multiple of 8, by less than 8, as long as the sum does
\* not wrap.
LEMMA AlignUp ==
  ASSUME ALIGNMENT = 8, NEW size \in Nat, size + 7 < WordMod
  PROVE  /\ ALIGN(size) \in Nat
         /\ size <= ALIGN(size) /\ ALIGN(size) <= size + 7
         /\ ALIGN(size) % 8 = 0
<1>1. (size + (ALIGNMENT - 1)) % WordMod = size + 7
  BY ModSmall, MemlibAssumption
<1>2. ALIGN(size) = (size + 7) - ((size + 7) % 8)
  BY <1>1 DEF ALIGN
<1> QED
  BY <1>2

\* The header takes 8 bytes, with a size_t of 4 bytes or 8.
LEMMA HeaderSize ==
  ASSUME ALIGNMENT = 8
  PROVE  SIZE_T_SIZE = 8
<1>1. sizeof_size_t \in {4, 8} /\ sizeof_size_t + 7 < WordMod
  BY MMAssumption, MemlibAssumption
<1>2. /\ SIZE_T_SIZE \in Nat /\ SIZE_T_SIZE % 8 = 0
      /\ sizeof_size_t <= SIZE_T_SIZE /\ SIZE_T_SIZE <= sizeof_size_t + 7
  BY <1>1, AlignUp DEF SIZE_T_SIZE
<1> QED
  BY <1>1, <1>2

LEMMA MaxIntFacts == MaxInt \in Nat /\ MaxInt + 15 < WordMod /\ 2 * MaxInt + 2 = WordMod
  BY MemlibAssumption DEF MaxInt

\* A request for which newsize does not wrap
Fits(size) == size \in Nat /\ size + 15 < WordMod

LEMMA SizesFit ==
  ASSUME ALIGNMENT = 8, RequestsFit, NEW size \in Sizes
  PROVE  Fits(size)
<1>1. size \in Nat
  BY MMClientAssumption, MemlibAssumption
<1>2. size + 8 + 7 < WordMod
  BY HeaderSize DEF RequestsFit
<1> QED
  BY <1>1, <1>2, MemlibAssumption DEF Fits

\* newsize is negative when the conversion to int overflows; otherwise it is a
\* multiple of 8 with room for the header and the payload.
LEMMA NewsizeBounds ==
  ASSUME ALIGNMENT = 8, NEW size, Fits(size)
  PROVE  /\ newsize(size) \in Int
         /\ newsize(size) >= 0 => /\ size + 8 <= newsize(size)
                                  /\ newsize(size) <= MaxInt
                                  /\ newsize(size) % 8 = 0
<1>1. (size + SIZE_T_SIZE) % WordMod = size + 8
  BY HeaderSize, ModSmall, MaxIntFacts, MemlibAssumption DEF Fits
<1> DEFINE u == ALIGN(size + 8)
<1>2. u \in Nat /\ size + 8 <= u /\ u <= size + 15 /\ u % 8 = 0
  BY AlignUp, MaxIntFacts, MemlibAssumption DEF Fits
<1>3. newsize(size) = ToInt(u)
  BY <1>1 DEF newsize
<1> HIDE DEF u
<1> QED
  BY <1>2, <1>3, MaxIntFacts, MemlibAssumption DEF Fits, ToInt

\* The requests that Fits leaves out: newsize is the little that is left over
\* after the wrap.
LEMMA WrappedNewsize ==
  ASSUME ALIGNMENT = 8, NEW size \in Nat, size < WordMod, size + 15 >= WordMod
  PROVE  newsize(size) \in {0, 8}
<1>0. WordMod \in Nat /\ WordMod >= 64
  BY MemlibAssumption
<1>1. PICK w \in Nat : w = (size + SIZE_T_SIZE) % WordMod
                     /\ ((w = size + 8 /\ w < WordMod) \/ w = size + 8 - WordMod)
  <2>1. CASE size + 8 < WordMod
    <3>1. (size + 8) % WordMod = size + 8
      BY <1>0, <2>1, ModSmall
    <3> QED
      BY <2>1, <3>1, HeaderSize
  <2>2. CASE size + 8 >= WordMod
    <3>a. size + 8 \in Nat /\ size + 8 < 2 * WordMod
      BY <1>0
    <3>b. \A x \in Nat : WordMod <= x /\ x < 2 * WordMod => x % WordMod = x - WordMod
      BY <1>0, ModWrapped
    <3>1. (size + 8) % WordMod = size + 8 - WordMod
      BY <1>0, <2>2, <3>a, <3>b
    <3> QED
      BY <1>0, <2>2, <3>1, HeaderSize
  <2> QED
    BY <1>0, <2>1, <2>2
<1>2. PICK v \in 0 .. 14 : v = (w + 7) % WordMod
  <2>1. CASE w + 7 < WordMod
    <3>1. (w + 7) % WordMod = w + 7
      BY <1>0, <2>1, ModSmall
    <3> QED
      BY <1>0, <1>1, <2>1, <3>1
  <2>2. CASE w + 7 >= WordMod
    <3>1. w + 7 < 2 * WordMod
      BY <1>0, <1>1
    <3>2. (w + 7) % WordMod = w + 7 - WordMod
      BY <1>0, <2>2, <3>1, ModWrapped
    <3> QED
      BY <1>0, <1>1, <2>2, <3>2
  <2> QED
    BY <1>0, <2>1, <2>2
<1>3. ALIGN(w) = v - (v % 8)
  BY <1>2 DEF ALIGN
<1>4. v - (v % 8) \in {0, 8}
  OBVIOUS
<1>5. newsize(size) = ToInt(v - (v % 8))
  BY <1>1, <1>3 DEF newsize
<1> QED
  BY <1>4, <1>5, MaxIntFacts, <1>0 DEF ToInt

-----------------------------------------------------------------------------
(* One call *)

\* What a client knows about mem_brk and mem before a call.
HeapOK ==
  /\ mem_brk \in mem_start_brk .. mem_max_addr
  /\ mem_brk % 8 = 0
  /\ mem \in [HeapAddr -> Nat]

\* r carves a block off at mem_brk, with room for its header and size bytes of
\* payload, and leaves everything below it alone.
Carves(r, size) ==
  /\ r.ptr = mem_brk + 8
  /\ r.brk \in mem_start_brk .. mem_max_addr
  /\ r.brk % 8 = 0
  /\ mem_brk + 8 + size <= r.brk
  /\ r.mem \in [HeapAddr -> Nat]
  /\ r.mem[mem_brk] = size
  /\ \A x \in HeapAddr : x < mem_brk => r.mem[x] = mem[x]

LEMMA HeapFacts ==
  ASSUME HeapOK
  PROVE  /\ mem_start_brk \in Nat /\ mem_start_brk > 0 /\ mem_max_addr \in Nat
         /\ mem_start_brk <= mem_max_addr
         /\ HeapAddr = mem_start_brk .. mem_max_addr - 1
         /\ mem_brk \in Nat /\ mem_start_brk <= mem_brk /\ mem_brk <= mem_max_addr
  BY MemlibAssumption, ConfigAssumption DEF mem_max_addr, HeapAddr, HeapOK

\* mm_malloc fails and leaves the heap as it is, or carves off a block.
LEMMA MallocEffect ==
  ASSUME ALIGNMENT = 8, RoomAbove, HeapOK, NEW size, Fits(size)
  PROVE  \/ mm_malloc(size) = Failed
         \/ /\ Carves(mm_malloc(size), size)
            /\ mm_malloc(size).mem = [mem EXCEPT ![mem_brk] = size]
<1> DEFINE n == newsize(size)
<1>1. /\ n \in Int
      /\ n >= 0 => size + 8 <= n /\ n <= MaxInt /\ n % 8 = 0
  BY NewsizeBounds
<1>2. CASE SbrkFails(n)
  BY <1>2 DEF mm_malloc
<1>3. CASE ~SbrkFails(n)
  <2>1. n \in Nat /\ mem_brk \in Nat /\ mem_brk + n < WordMod
    BY <1>1, <1>3, MaxIntFacts, MemlibAssumption, ConfigAssumption
       DEF SbrkFails, RoomAbove, HeapOK, mem_max_addr
  <2>2. (mem_brk + n) % WordMod = mem_brk + n
    BY <2>1, ModSmall, MemlibAssumption
  <2>3. mem_brk + n <= mem_max_addr
    BY <1>3, <2>1, <2>2, MemlibAssumption, ConfigAssumption DEF SbrkFails, mem_max_addr
  <2>4. mm_malloc(size) = [ptr |-> mem_brk + 8, brk |-> mem_brk + n,
                           mem |-> [mem EXCEPT ![mem_brk] = size]]
    BY <1>3, <2>2, HeaderSize DEF mm_malloc, SbrkTo
  <2> HIDE DEF n
  <2>5. /\ mem_brk + n \in mem_start_brk .. mem_max_addr
        /\ (mem_brk + n) % 8 = 0
        /\ mem_brk + 8 + size <= mem_brk + n
    BY <1>1, <2>1, <2>3, MemlibAssumption, ConfigAssumption DEF Fits, HeapOK, mem_max_addr
  <2>6. mem_brk \in HeapAddr
    BY <1>1, <2>1, <2>5, HeapFacts, MaxIntFacts DEF Fits
  <2>7. /\ [mem EXCEPT ![mem_brk] = size] \in [HeapAddr -> Nat]
        /\ [mem EXCEPT ![mem_brk] = size][mem_brk] = size
        /\ \A x \in HeapAddr : x < mem_brk => [mem EXCEPT ![mem_brk] = size][x] = mem[x]
    BY <2>1, <2>6, MaxIntFacts DEF Fits, HeapOK
  <2> QED
    BY <2>4, <2>5, <2>7 DEF Carves
<1> QED
  BY <1>2, <1>3

\* mm_realloc fails and leaves the heap as it is, or carves off a block and
\* copies the old payload into it.  The header at oldptr, which it trusts, must
\* still hold oldsize.
LEMMA ReallocEffect ==
  ASSUME ALIGNMENT = 8, RoomAbove, HeapOK, NEW size, Fits(size),
         NEW oldptr \in Nat, NEW oldsize \in Nat,
         mem_start_brk + 8 <= oldptr, oldptr + oldsize <= mem_brk,
         mem[oldptr - 8] = oldsize
  PROVE  \/ mm_realloc(oldptr, size) = Failed
         \/ /\ Carves(mm_realloc(oldptr, size), size)
            /\ \A k \in 0 .. size - 1 : k < oldsize =>
                 mm_realloc(oldptr, size).mem[mem_brk + 8 + k] = mem[oldptr + k]
<1> DEFINE new == mm_malloc(size)
           c == IF size < oldsize THEN size ELSE oldsize
<1>0. /\ mem_start_brk \in Nat /\ mem_start_brk > 0 /\ mem_max_addr \in Nat
      /\ mem_start_brk <= mem_max_addr
      /\ HeapAddr = mem_start_brk .. mem_max_addr - 1
      /\ mem_brk \in Nat /\ size \in Nat
  BY HeapFacts, MaxIntFacts DEF Fits
<1>1. CASE new = Failed
  BY <1>1 DEF mm_realloc, Failed
<1>2. CASE new # Failed
  <2>1. /\ new.ptr = mem_brk + 8
        /\ new.brk \in mem_start_brk .. mem_max_addr
        /\ new.brk % 8 = 0
        /\ mem_brk + 8 + size <= new.brk
        /\ new.mem = [mem EXCEPT ![mem_brk] = size]
    BY <1>2, MallocEffect DEF Carves
  <2>2. new = [ptr |-> new.ptr, brk |-> new.brk, mem |-> new.mem]
    BY DEF mm_malloc, Failed
  <2>3. /\ new.mem \in [HeapAddr -> Nat]
        /\ new.mem[mem_brk] = size
        /\ \A x \in HeapAddr : x # mem_brk => new.mem[x] = mem[x]
    BY <1>0, <2>1 DEF HeapOK
  <2>4. copySize(new.mem, oldptr, size) = c
    <3>1. oldptr - 8 \in HeapAddr /\ oldptr - 8 # mem_brk
      BY <1>0 DEF HeapOK
    <3>2. new.mem[oldptr - 8] = oldsize
      BY <2>3, <3>1
    <3> QED
      BY <3>2, HeaderSize DEF copySize
  <2> DEFINE m == memcpy(new.mem, new.ptr, oldptr, copySize(new.mem, oldptr, size))
  <2>5. mm_realloc(oldptr, size) = [new EXCEPT !.mem = m]
    BY <1>0, <2>1 DEF mm_realloc
  <2>6. /\ mm_realloc(oldptr, size).ptr = mem_brk + 8
        /\ mm_realloc(oldptr, size).brk = new.brk
        /\ mm_realloc(oldptr, size).mem = m
    BY <2>1, <2>2, <2>5
  <2>7. m = [x \in HeapAddr |-> IF mem_brk + 8 <= x /\ x < mem_brk + 8 + c
                                THEN new.mem[oldptr + (x - (mem_brk + 8))]
                                ELSE new.mem[x]]
    BY <2>1, <2>3, <2>4 DEF memcpy
  <2> HIDE DEF m, new
  <2>c. c \in Nat /\ c <= size /\ c <= oldsize
    BY <1>0
  <2> HIDE DEF c
  <2>8. ASSUME NEW x \in HeapAddr, mem_brk + 8 <= x, x < mem_brk + 8 + c
        PROVE  /\ oldptr + (x - (mem_brk + 8)) \in HeapAddr
               /\ new.mem[oldptr + (x - (mem_brk + 8))] = mem[oldptr + (x - (mem_brk + 8))]
    <3>1. x - (mem_brk + 8) \in Nat /\ x - (mem_brk + 8) < oldsize
      BY <1>0, <2>8, <2>c
    <3>2. /\ oldptr + (x - (mem_brk + 8)) \in HeapAddr
          /\ oldptr + (x - (mem_brk + 8)) # mem_brk
      <4> DEFINE y == x - (mem_brk + 8)
      <4>1. mem_brk <= mem_max_addr
        BY <1>0 DEF HeapOK
      <4>2. y \in Nat /\ y < oldsize
        BY <3>1
      <4> HIDE DEF y
      <4>3. oldptr + y \in HeapAddr /\ oldptr + y # mem_brk
        BY <1>0, <4>1, <4>2
      <4> QED
        BY <4>3 DEF y
    <3> QED
      BY <2>3, <3>2
  <2>9. m \in [HeapAddr -> Nat]
    BY <2>3, <2>7, <2>8
  <2>10. m[mem_brk] = size /\ \A x \in HeapAddr : x < mem_brk => m[x] = mem[x]
    BY <1>0, <2>1, <2>3, <2>7
  <2>11. ASSUME NEW k \in 0 .. size - 1, k < oldsize
         PROVE  m[mem_brk + 8 + k] = mem[oldptr + k]
    <3>1. mem_brk + 8 + k \in HeapAddr /\ k \in Nat /\ k < c
      BY <1>0, <2>1, <2>11 DEF c
    <3>2. /\ mem_brk + 8 <= mem_brk + 8 + k
          /\ mem_brk + 8 + k < mem_brk + 8 + c
          /\ (mem_brk + 8 + k) - (mem_brk + 8) = k
      BY <1>0, <2>c, <3>1
    <3>3. m[mem_brk + 8 + k] = new.mem[oldptr + ((mem_brk + 8 + k) - (mem_brk + 8))]
      BY <2>7, <3>1, <3>2
    <3> QED
      BY <2>8, <3>1, <3>2, <3>3
  <2> QED
    BY <2>1, <2>6, <2>9, <2>10, <2>11 DEF Carves
<1> QED
  BY <1>1, <1>2

\* Where mm_malloc fails, the block rounded up does not fit above mem_brk.
LEMMA FailsOnlyIfFull ==
  ASSUME ALIGNMENT = 8, HeapOK, NEW size, Fits(size), mm_malloc(size).ptr = NULL
  PROVE  mem_brk + ((SIZE_T_SIZE + size + 7) \div 8) * 8 > mem_max_addr
<1>1. PICK u \in Nat : u = ALIGN(size + 8) /\ u = ((8 + size + 7) \div 8) * 8
  <2>1. size + 8 \in Nat /\ size + 8 + 7 < WordMod
    BY MaxIntFacts, MemlibAssumption DEF Fits
  <2>2. (size + 8 + (ALIGNMENT - 1)) % WordMod = size + 8 + 7
    BY <2>1, ModSmall, MemlibAssumption
  <2>3. ALIGN(size + 8) = (size + 8 + 7) - ((size + 8 + 7) % 8)
    BY <2>2 DEF ALIGN
  <2>4. \A y \in Nat : y - (y % 8) = (y \div 8) * 8
    OBVIOUS
  <2>5. size + 8 + 7 = 8 + size + 7 /\ size + 8 + 7 \in Nat
    BY MaxIntFacts DEF Fits
  <2> QED
    BY <2>1, <2>3, <2>4, <2>5, AlignUp
<1>2. newsize(size) = ToInt(u)
  <2>1. (size + SIZE_T_SIZE) % WordMod = size + 8
    BY HeaderSize, ModSmall, MaxIntFacts, MemlibAssumption DEF Fits
  <2> QED
    BY <1>1, <2>1 DEF newsize
<1>3. SbrkFails(newsize(size))
  <2>1. SIZE_T_SIZE = 8 /\ mem_brk \in Nat /\ mem_brk + 8 # 0
    BY HeaderSize, HeapFacts
  <2> QED
    BY <2>1 DEF mm_malloc
<1>4. CASE u <= MaxInt
  <2>1. (mem_brk + u) % WordMod > mem_max_addr
    BY <1>2, <1>3, <1>4 DEF SbrkFails, ToInt
  <2>2. \A y \in Nat : y % WordMod <= y
    BY MemlibAssumption
  <2> QED
    BY <1>1, <2>1, <2>2, HeaderSize, HeapFacts, MemlibAssumption, SMTT(30)
<1>5. CASE u > MaxInt
  <2>1. mem_max_addr <= mem_start_brk + MaxInt
    BY MaxIntFacts, MemlibAssumption, ConfigAssumption DEF mem_max_addr, MaxInt
  <2>2. mem_start_brk + MaxInt < mem_brk + u
    BY <1>5, HeapFacts, MaxIntFacts
  <2> QED
    BY <1>1, <2>1, <2>2, HeaderSize, HeapFacts, MaxIntFacts
<1> QED
  BY <1>4, <1>5, MaxIntFacts

\* mm_realloc fails exactly if the mm_malloc in it does.
LEMMA ReallocFailsWithMalloc ==
  ASSUME NEW size, NEW oldptr, mm_realloc(oldptr, size).ptr = NULL
  PROVE  mm_malloc(size).ptr = NULL
<1>1. mm_malloc(size) = [ptr |-> mm_malloc(size).ptr, brk |-> mm_malloc(size).brk,
                         mem |-> mm_malloc(size).mem]
  BY DEF mm_malloc, Failed
<1> QED
  BY <1>1 DEF mm_realloc

-----------------------------------------------------------------------------
(* The inductive invariant *)

\* The four checked invariants need each other: Disjoint needs that held blocks
\* end below mem_brk (InHeap), HeadersIntact needs that no payload reaches a
\* header (Disjoint), the bounds of the copy in mm_realloc need the header
\* (HeadersIntact), and alignment needs that mem_brk itself stays aligned.
IInv == TypeOK /\ mem_brk % 8 = 0 /\ InHeap /\ Disjoint /\ HeadersIntact

LEMMA IInvHeapOK == IInv => HeapOK
  BY DEF IInv, TypeOK, HeapOK

\* What the invariant says of one held block, and of two, in plain numbers.
LEMMA HeldBlock ==
  ASSUME ALIGNMENT = 8, IInv, NEW i \in Ids, Live(i)
  PROVE  /\ blocks[i].ptr \in Nat /\ blocks[i].size \in Nat
         /\ mem_start_brk + 8 <= blocks[i].ptr
         /\ blocks[i].ptr + blocks[i].size <= mem_brk
         /\ blocks[i].ptr % 8 = 0
         /\ mem[blocks[i].ptr - 8] = blocks[i].size
         /\ blocks[i].ptr - 8 \in HeapAddr
         /\ \A j \in Ids : i # j /\ Live(j) =>
              \/ blocks[i].ptr + blocks[i].size <= blocks[j].ptr - 8
              \/ blocks[j].ptr + blocks[j].size <= blocks[i].ptr - 8
<1>1. blocks[i] \in [ptr : Nat, size : Sizes \cup {0}]
  BY DEF IInv, TypeOK
<1>2. blocks[i].ptr \in Nat /\ blocks[i].size \in Nat
  <2>1. Sizes \cup {0} \subseteq Nat
    BY MMClientAssumption, MemlibAssumption
  <2> QED
    BY <1>1, <2>1
<1>3. /\ mem_start_brk <= blocks[i].ptr - 8
      /\ blocks[i].ptr + blocks[i].size <= mem_brk
      /\ blocks[i].ptr % 8 = 0
  BY HeaderSize DEF IInv, InHeap, mem_heap_lo
<1>4. mem[blocks[i].ptr - 8] = blocks[i].size
  BY HeaderSize DEF IInv, HeadersIntact
<1>5. \A j \in Ids : i # j /\ Live(j) =>
        \/ blocks[i].ptr + blocks[i].size <= blocks[j].ptr - 8
        \/ blocks[j].ptr + blocks[j].size <= blocks[i].ptr - 8
  BY HeaderSize DEF IInv, Disjoint
<1>6. mem_start_brk + 8 <= blocks[i].ptr /\ blocks[i].ptr - 8 \in HeapAddr
  BY <1>2, <1>3, HeapFacts, IInvHeapOK, SMTT(30)
<1> QED
  BY <1>2, <1>3, <1>4, <1>5, <1>6

\* Receiving a block that was carved off, or a failure, keeps the invariant.
LEMMA ReceiveKeepsIInv ==
  ASSUME ALIGNMENT = 8, IInv, NEW i \in Ids, NEW size \in Sizes, NEW r,
         r = Failed \/ Carves(r, size),
         Receive(i, size, r)
  PROVE  IInv'
<1>0. /\ size \in Nat /\ SIZE_T_SIZE = 8 /\ HeapOK
      /\ mem_start_brk \in Nat /\ mem_start_brk > 0
      /\ mem_brk \in Nat /\ mem_start_brk <= mem_brk /\ mem_brk <= mem_max_addr
      /\ mem_max_addr \in Nat /\ HeapAddr = mem_start_brk .. mem_max_addr - 1
  BY MMClientAssumption, MemlibAssumption, HeaderSize, HeapFacts, IInvHeapOK
<1>1. CASE r = Failed
  <2>1. UNCHANGED <<mem_brk, mem, blocks>> /\ ret' = 0
    BY <1>1 DEF Receive, Failed
  <2> QED
    BY <1>0, <2>1 DEF IInv, TypeOK, InHeap, Disjoint, HeadersIntact, Live, mem_heap_lo
<1>2. CASE Carves(r, size)
  <2>1. /\ mem_brk' \in mem_start_brk .. mem_max_addr
        /\ mem_brk' % 8 = 0
        /\ mem_brk + 8 + size <= mem_brk'
        /\ mem' \in [HeapAddr -> Nat]
        /\ mem'[mem_brk] = size
        /\ \A x \in HeapAddr : x < mem_brk => mem'[x] = mem[x]
        /\ ret' = mem_brk + 8
    BY <1>2 DEF Carves, Receive
  <2>2. blocks' = [blocks EXCEPT ![i] = [ptr |-> mem_brk + 8, size |-> size]]
    BY <1>0, <1>2 DEF Carves, Receive
  <2>3. blocks \in [Ids -> [ptr : Nat, size : Sizes \cup {0}]]
    BY DEF IInv, TypeOK
  <2>4. /\ blocks'[i] = [ptr |-> mem_brk + 8, size |-> size]
        /\ \A j \in Ids \ {i} : blocks'[j] = blocks[j]
    BY <2>2, <2>3
  <2>5. ASSUME NEW j \in Ids, j # i, Live(j)'
        PROVE  /\ blocks'[j] = blocks[j]
               /\ blocks[j].ptr \in Nat /\ blocks[j].size \in Nat
               /\ mem_start_brk + 8 <= blocks[j].ptr
               /\ blocks[j].ptr + blocks[j].size <= mem_brk
               /\ blocks[j].ptr % 8 = 0
               /\ mem'[blocks[j].ptr - 8] = blocks[j].size
    <3>1. blocks'[j] = blocks[j] /\ Live(j)
      BY <2>4, <2>5 DEF Live
    <3>2. /\ blocks[j].ptr \in Nat /\ blocks[j].size \in Nat
          /\ mem_start_brk + 8 <= blocks[j].ptr
          /\ blocks[j].ptr + blocks[j].size <= mem_brk
          /\ blocks[j].ptr % 8 = 0
          /\ mem[blocks[j].ptr - 8] = blocks[j].size
          /\ blocks[j].ptr - 8 \in HeapAddr
      BY <3>1, HeldBlock
    <3>3. blocks[j].ptr - 8 < mem_brk
      BY <1>0, <3>2
    <3> QED
      BY <2>1, <3>1, <3>2, <3>3
  <2>6. TypeOK'
    <3>1. ret' \in 0 .. mem_max_addr
      BY <1>0, <2>1
    <3>2. blocks' \in [Ids -> [ptr : Nat, size : Sizes \cup {0}]]
      BY <1>0, <2>2, <2>3
    <3> QED
      BY <2>1, <3>1, <3>2 DEF TypeOK
  <2>7. InHeap'
    <3> SUFFICES ASSUME NEW j \in Ids, Live(j)'
                 PROVE  /\ mem_start_brk <= blocks'[j].ptr - 8
                        /\ blocks'[j].ptr + blocks'[j].size <= mem_brk'
                        /\ blocks'[j].ptr % 8 = 0
      BY <1>0 DEF InHeap, mem_heap_lo
    <3>1. CASE j = i
      <4>1. (mem_brk + 8) % 8 = 0
        BY <1>0 DEF HeapOK
      <4>2. blocks'[j].ptr = mem_brk + 8 /\ blocks'[j].size = size
        BY <2>4, <3>1
      <4>3. mem_start_brk <= (mem_brk + 8) - 8 /\ (mem_brk + 8) + size <= mem_brk'
        BY <1>0, <2>1
      <4> QED
        BY <4>1, <4>2, <4>3
    <3>2. CASE j # i
      <4>1. /\ blocks'[j] = blocks[j]
            /\ blocks[j].ptr \in Nat /\ blocks[j].size \in Nat
            /\ mem_start_brk + 8 <= blocks[j].ptr
            /\ blocks[j].ptr + blocks[j].size <= mem_brk
            /\ blocks[j].ptr % 8 = 0
        BY <2>5, <3>2
      <4>2. mem_brk' \in Nat /\ mem_brk <= mem_brk'
        BY <1>0, <2>1
      <4>3. /\ mem_start_brk <= blocks[j].ptr - 8
            /\ blocks[j].ptr + blocks[j].size <= mem_brk'
        BY <1>0, <4>1, <4>2, SMTT(30)
      <4> QED
        BY <4>1, <4>3
    <3> QED
      BY <3>1, <3>2
  <2>8. Disjoint'
    <3> SUFFICES ASSUME NEW j \in Ids, NEW k \in Ids, j # k, Live(j)', Live(k)'
                 PROVE  \/ blocks'[j].ptr + blocks'[j].size <= blocks'[k].ptr - 8
                        \/ blocks'[k].ptr + blocks'[k].size <= blocks'[j].ptr - 8
      BY <1>0 DEF Disjoint
    <3>1. CASE j # i /\ k # i
      <4>1. Live(j) /\ Live(k) /\ blocks'[j] = blocks[j] /\ blocks'[k] = blocks[k]
        BY <2>5, <3>1 DEF Live
      <4> QED
        BY <4>1, HeldBlock
    <3>2. CASE j = i
      BY <1>0, <2>4, <2>5, <3>2
    <3>3. CASE k = i
      BY <1>0, <2>4, <2>5, <3>3
    <3> QED
      BY <3>1, <3>2, <3>3
  <2>9. HeadersIntact'
    <3> SUFFICES ASSUME NEW j \in Ids, Live(j)'
                 PROVE  mem'[blocks'[j].ptr - 8] = blocks'[j].size
      BY <1>0 DEF HeadersIntact
    <3>1. CASE j = i
      BY <1>0, <2>1, <2>4, <3>1
    <3>2. CASE j # i
      BY <2>5, <3>2
    <3> QED
      BY <3>1, <3>2
  <2> QED
    BY <2>1, <2>6, <2>7, <2>8, <2>9 DEF IInv
<1> QED
  BY <1>1, <1>2

\* The caller's writes to a payload reach no header.
LEMMA FillKeepsIInv ==
  ASSUME ALIGNMENT = 8, IInv, NEW i \in Ids, NEW b \in Bytes, Fill(i, b)
  PROVE  IInv'
<1>0. /\ SIZE_T_SIZE = 8 /\ b \in Nat
      /\ mem \in [HeapAddr -> Nat] /\ HeapAddr \subseteq Nat
  BY HeaderSize, HeapFacts, IInvHeapOK, MMClientAssumption DEF HeapOK
<1>1. Live(i) /\ UNCHANGED <<mem_brk, blocks, ret>>
  BY DEF Fill
<1>2. mem' = [x \in HeapAddr |-> IF blocks[i].ptr <= x /\ x < blocks[i].ptr + blocks[i].size
                                THEN b ELSE mem[x]]
  BY <1>0 DEF Fill, memset
<1>3. mem' \in [HeapAddr -> Nat]
  BY <1>0, <1>2
<1>4. ASSUME NEW j \in Ids, Live(j)
      PROVE  mem'[blocks[j].ptr - 8] = blocks[j].size
  <2>1. /\ blocks[j].ptr \in Nat /\ blocks[j].size \in Nat
        /\ blocks[j].ptr - 8 \in HeapAddr
        /\ mem[blocks[j].ptr - 8] = blocks[j].size
    BY <1>4, HeldBlock
  <2>2. /\ blocks[i].ptr \in Nat /\ blocks[i].size \in Nat
        /\ i # j => \/ blocks[i].ptr + blocks[i].size <= blocks[j].ptr - 8
                    \/ blocks[j].ptr + blocks[j].size <= blocks[i].ptr - 8
    BY <1>1, <1>4, HeldBlock
  <2>3. ~ (blocks[i].ptr <= blocks[j].ptr - 8 /\
           blocks[j].ptr - 8 < blocks[i].ptr + blocks[i].size)
    BY <2>1, <2>2
  <2> QED
    BY <1>2, <2>1, <2>3
<1>5. TypeOK' /\ mem_brk' % 8 = 0 /\ InHeap' /\ Disjoint'
  BY <1>1, <1>3 DEF IInv, TypeOK, InHeap, Disjoint, Live, mem_heap_lo
<1>6. HeadersIntact'
  BY <1>0, <1>1, <1>4 DEF HeadersIntact, Live
<1> QED
  BY <1>5, <1>6 DEF IInv

LEMMA FreeKeepsIInv ==
  ASSUME ALIGNMENT = 8, IInv, NEW i \in Ids, Free(i)
  PROVE  IInv'
<1>1. UNCHANGED <<mem_brk, mem, ret>> /\ blocks' = [blocks EXCEPT ![i] = NoBlock]
  BY DEF Free
<1>2. blocks \in [Ids -> [ptr : Nat, size : Sizes \cup {0}]]
  BY DEF IInv, TypeOK
<1>3. /\ blocks' \in [Ids -> [ptr : Nat, size : Sizes \cup {0}]]
      /\ \A j \in Ids : Live(j)' => Live(j) /\ blocks'[j] = blocks[j]
  BY <1>1, <1>2 DEF NoBlock, Live
<1> QED
  BY <1>1, <1>3 DEF IInv, TypeOK, InHeap, Disjoint, HeadersIntact, mem_heap_lo

LEMMA ResetKeepsIInv ==
  ASSUME ALIGNMENT = 8, IInv, Reset
  PROVE  IInv'
<1>1. /\ mem_brk' = mem_start_brk /\ UNCHANGED <<mem, ret>>
      /\ blocks' = [i \in Ids |-> [ptr |-> 0, size |-> 0]]
  BY DEF Reset, mem_reset_brk, NoBlock
<1>2. \A i \in Ids : ~Live(i)'
  BY <1>1 DEF Live
<1>3. TypeOK'
  BY <1>1, HeapFacts, IInvHeapOK DEF IInv, TypeOK
<1>4. mem_brk' % 8 = 0
  BY <1>1, MemlibAssumption
<1> QED
  BY <1>2, <1>3, <1>4 DEF IInv, InHeap, Disjoint, HeadersIntact

\* What mm_malloc and mm_realloc answer to a client in a good state.
LEMMA CallsCarve ==
  ASSUME ALIGNMENT = 8, RoomAbove, RequestsFit, IInv, NEW size \in Sizes
  PROVE  /\ mm_malloc(size) = Failed \/ Carves(mm_malloc(size), size)
         /\ \A i \in Ids : Live(i) =>
              \/ mm_realloc(blocks[i].ptr, size) = Failed
              \/ Carves(mm_realloc(blocks[i].ptr, size), size)
<1>1. HeapOK /\ Fits(size)
  BY IInvHeapOK, SizesFit
<1>2. ASSUME NEW i \in Ids, Live(i)
      PROVE  \/ mm_realloc(blocks[i].ptr, size) = Failed
             \/ Carves(mm_realloc(blocks[i].ptr, size), size)
  BY <1>1, <1>2, HeldBlock, ReallocEffect
<1> QED
  BY <1>1, <1>2, MallocEffect

LEMMA InitIInv == Init => IInv
<1> SUFFICES ASSUME Init PROVE IInv
  OBVIOUS
<1>1. /\ mem_brk = mem_start_brk
      /\ mem = [a \in HeapAddr |-> Junk]
      /\ blocks = [i \in Ids |-> [ptr |-> 0, size |-> 0]]
      /\ ret = 0
  BY DEF Init, mem_init, NoBlock
<1>2. \A i \in Ids : ~Live(i)
  BY <1>1 DEF Live
<1>3. /\ mem_start_brk \in Nat /\ mem_max_addr \in Nat /\ mem_start_brk <= mem_max_addr
  BY MemlibAssumption, ConfigAssumption DEF mem_max_addr
<1>4. TypeOK
  BY <1>1, <1>3, MMClientAssumption DEF TypeOK
<1>5. mem_brk % 8 = 0
  BY <1>1, MemlibAssumption
<1> QED
  BY <1>2, <1>4, <1>5 DEF IInv, InHeap, Disjoint, HeadersIntact

LEMMA NextKeepsIInv ==
  ASSUME ALIGNMENT = 8, RoomAbove, RequestsFit
  PROVE  IInv /\ [Next]_vars => IInv'
<1> SUFFICES ASSUME IInv, [Next]_vars PROVE IInv'
  OBVIOUS
<1>1. ASSUME NEW i \in Ids, NEW size \in Sizes, Malloc(i, size) PROVE IInv'
  BY <1>1, CallsCarve, ReceiveKeepsIInv DEF Malloc
<1>2. ASSUME NEW i \in Ids, NEW size \in Sizes, Realloc(i, size) PROVE IInv'
  BY <1>2, CallsCarve, ReceiveKeepsIInv DEF Realloc
<1>3. ASSUME NEW i \in Ids, NEW b \in Bytes, Fill(i, b) PROVE IInv'
  BY <1>3, FillKeepsIInv
<1>4. ASSUME NEW i \in Ids, Free(i) PROVE IInv'
  BY <1>4, FreeKeepsIInv
<1>5. CASE Reset
  BY <1>5, ResetKeepsIInv
<1>6. CASE UNCHANGED vars
  BY <1>6 DEF vars, IInv, TypeOK, InHeap, Disjoint, HeadersIntact, Live, mem_heap_lo
<1> QED
  BY <1>1, <1>2, <1>3, <1>4, <1>5, <1>6 DEF Next

-----------------------------------------------------------------------------
(* The theorems *)

\* The inductive invariant holds in every reachable state.
THEOREM Invariance ==
  ASSUME ALIGNMENT = 8, RoomAbove, RequestsFit
  PROVE  Spec => []IInv
<1>1. Init => IInv
  BY InitIInv
<1>2. IInv /\ [Next]_vars => IInv'
  BY NextKeepsIInv
<1> QED
  BY <1>1, <1>2, PTL DEF Spec

\* mem_brk stays between the ends of the simulated heap, every heap cell holds
\* a value, and the pointers returned by mm_malloc and mm_realloc are NULL or
\* heap addresses (mem_sbrk in memlib.c, mm_malloc in mm.c).
THEOREM TypeCorrect ==
  ASSUME ALIGNMENT = 8, RoomAbove, RequestsFit
  PROVE  Spec => []TypeOK
<1>1. IInv => TypeOK
  BY DEF IInv
<1> QED
  BY <1>1, Invariance, PTL

\* The blocks of mm.c lie inside the heap that mem_sbrk handed out, and their
\* payloads are aligned.
THEOREM BlocksInHeap ==
  ASSUME ALIGNMENT = 8, RoomAbove, RequestsFit
  PROVE  Spec => []InHeap
<1>1. IInv => InHeap
  BY DEF IInv
<1> QED
  BY <1>1, Invariance, PTL

\* No two blocks held by the client share a byte, headers included: mm_malloc
\* and mm_realloc never hand out memory twice between two resets.
THEOREM BlocksDisjoint ==
  ASSUME ALIGNMENT = 8, RoomAbove, RequestsFit
  PROVE  Spec => []Disjoint
<1>1. IInv => Disjoint
  BY DEF IInv
<1> QED
  BY <1>1, Invariance, PTL

\* The size that mm_realloc reads in front of a block is the block's size.
THEOREM HeadersKept ==
  ASSUME ALIGNMENT = 8, RoomAbove, RequestsFit
  PROVE  Spec => []HeadersIntact
<1>1. IInv => HeadersIntact
  BY DEF IInv
<1> QED
  BY <1>1, Invariance, PTL

\* mem_brk moves down only when the driver resets it: "In this model, the heap
\* cannot be shrunk" (memlib.c).
THEOREM BrkMonotone ==
  ASSUME ALIGNMENT = 8, RoomAbove, RequestsFit
  PROVE  Spec => HeapNeverShrinks
<1>1. ASSUME IInv, [Next]_vars PROVE [mem_brk' >= mem_brk \/ Reset]_vars
  <2>0. mem_brk \in Nat
    BY <1>1, IInvHeapOK, HeapFacts
  <2>1. ASSUME NEW i, NEW size, NEW r, r = Failed \/ Carves(r, size), size \in Nat,
               Receive(i, size, r)
        PROVE  mem_brk' >= mem_brk
    <3>1. CASE r = Failed
      BY <2>0, <2>1, <3>1 DEF Receive, Failed
    <3>2. CASE Carves(r, size)
      <4>1. mem_brk' = r.brk /\ r.brk \in mem_start_brk .. mem_max_addr
            /\ mem_brk + 8 + size <= r.brk
        BY <2>1, <3>2 DEF Receive, Carves
      <4>2. mem_start_brk \in Nat /\ mem_max_addr \in Nat
        BY <1>1, IInvHeapOK, HeapFacts
      <4> QED
        BY <2>0, <2>1, <4>1, <4>2
    <3> QED
      BY <2>1, <3>1, <3>2
  <2>2. \A size \in Sizes : size \in Nat
    BY MMClientAssumption, MemlibAssumption
  <2>3. ASSUME NEW i \in Ids, NEW size \in Sizes, Malloc(i, size) PROVE mem_brk' >= mem_brk
    BY <1>1, <2>1, <2>2, <2>3, CallsCarve DEF Malloc
  <2>4. ASSUME NEW i \in Ids, NEW size \in Sizes, Realloc(i, size) PROVE mem_brk' >= mem_brk
    BY <1>1, <2>1, <2>2, <2>4, CallsCarve DEF Realloc
  <2>5. ASSUME NEW i \in Ids, NEW b \in Bytes, Fill(i, b) PROVE mem_brk' >= mem_brk
    BY <2>0, <2>5 DEF Fill
  <2>6. ASSUME NEW i \in Ids, Free(i) PROVE mem_brk' >= mem_brk
    BY <2>0, <2>6 DEF Free
  <2> QED
    BY <1>1, <2>3, <2>4, <2>5, <2>6 DEF Next
<1>2. IInv /\ [Next]_vars => [mem_brk' >= mem_brk \/ Reset]_vars
  BY <1>1
<1> QED
  BY <1>2, Invariance, PTL DEF Spec, HeapNeverShrinks

\* mm_malloc and mm_realloc return NULL only where the block, with its header
\* and rounded up, does not fit into what is left of the heap, also for sizes
\* that overflow the int newsize (mm.c and mem_sbrk in memlib.c).
THEOREM FailuresAreReal ==
  ASSUME ALIGNMENT = 8, RoomAbove, RequestsFit
  PROVE  Spec => NoSpuriousFailure
<1> DEFINE Full(size) == mem_brk + ((SIZE_T_SIZE + size + 7) \div 8) * 8 > mem_max_addr
<1>1. ASSUME IInv, NEW i \in Ids, NEW size \in Sizes, Malloc(i, size) \/ Realloc(i, size), ret' = NULL
      PROVE  Full(size)
  <2>1. HeapOK /\ Fits(size)
    BY <1>1, IInvHeapOK, SizesFit
  <2>2. mm_malloc(size).ptr = NULL
    BY <1>1, ReallocFailsWithMalloc DEF Malloc, Realloc, Receive
  <2> QED
    BY <2>1, <2>2, FailsOnlyIfFull
<1>2. IInv => [\A i \in Ids, size \in Sizes :
                (Malloc(i, size) \/ Realloc(i, size)) /\ ret' = NULL => Full(size)]_vars
  BY <1>1
<1>3. Spec => [][\A i \in Ids, size \in Sizes :
                  (Malloc(i, size) \/ Realloc(i, size)) /\ ret' = NULL => Full(size)]_vars
  BY <1>2, Invariance, PTL
<1> QED
  BY <1>3 DEF NoSpuriousFailure

\* A request that does not fit is served all the same, as long as 8 bytes are
\* free: mm_malloc hands out a pointer to where the heap ends, or beyond, and not
\* one byte of the payload lies inside it.  So RequestsFit is no stronger than
\* the other theorems need ("The payload must lie within the extent of the heap",
\* mdriver.c:398, against the size_t sum in mm.c:61).
THEOREM HugeRequestsWrap ==
  ASSUME ALIGNMENT = 8, HeapOK, mem_brk + 8 <= mem_max_addr,
         NEW size \in Nat, size < WordMod, size + 15 >= WordMod
  PROVE  /\ mm_malloc(size).ptr # NULL
         /\ mm_malloc(size).brk <= mm_malloc(size).ptr
<1> DEFINE n == newsize(size)
<1>1. n \in {0, 8}
  BY WrappedNewsize
<1>2. /\ mem_brk \in Nat /\ mem_max_addr \in Nat /\ mem_max_addr < WordMod /\ WordMod \in Nat
  BY HeapFacts, MemlibAssumption, ConfigAssumption DEF mem_max_addr
<1> HIDE DEF n
<1>3. mem_brk + n \in Nat /\ mem_brk + n <= mem_max_addr /\ mem_brk + n < WordMod
  BY <1>1, <1>2
<1>4. (mem_brk + n) % WordMod = mem_brk + n
  BY <1>2, <1>3, ModSmall
<1>5. ~SbrkFails(n)
  BY <1>1, <1>2, <1>3, <1>4 DEF SbrkFails
<1>6. mm_malloc(size).ptr = mem_brk + 8 /\ mm_malloc(size).brk = mem_brk + n
  BY <1>4, <1>5, HeaderSize DEF mm_malloc, SbrkTo, n
<1> QED
  BY <1>1, <1>2, <1>6

-----------------------------------------------------------------------------
(***************************************************************************)
(* mm.c implements the contract of module Allocator: every step of a       *)
(* client of mm.c is, with the contents of the payloads read off the heap, *)
(* a step that the contract allows.                                        *)
(***************************************************************************)

LEMMA DataFacts ==
  /\ DOMAIN data = Ids
  /\ \A i \in Ids : Live(i) =>
       data[i] = [k \in 0 .. blocks[i].size - 1 |-> mem[blocks[i].ptr + k]]
  /\ \A i \in Ids : ~Live(i) => data[i] = <<>>
  BY DEF data

LEMMA DataFactsNext ==
  /\ DOMAIN data' = Ids
  /\ \A i \in Ids : Live(i)' =>
       data'[i] = [k \in 0 .. blocks'[i].size - 1 |-> mem'[blocks'[i].ptr + k]]
  /\ \A i \in Ids : ~Live(i)' => data'[i] = <<>>
  BY DEF data

\* The cells of a held payload are heap cells below mem_brk.
LEMMA PayloadCells ==
  ASSUME ALIGNMENT = 8, IInv, NEW i \in Ids, Live(i),
         NEW k \in 0 .. blocks[i].size - 1
  PROVE  blocks[i].ptr + k \in HeapAddr /\ blocks[i].ptr + k < mem_brk
<1>1. /\ blocks[i].ptr \in Nat /\ blocks[i].size \in Nat
      /\ mem_start_brk + 8 <= blocks[i].ptr
      /\ blocks[i].ptr + blocks[i].size <= mem_brk
  BY HeldBlock
<1>2. k \in Nat /\ k < blocks[i].size
  BY <1>1
<1>3. /\ mem_start_brk \in Nat /\ mem_brk \in Nat /\ mem_max_addr \in Nat
      /\ mem_brk <= mem_max_addr /\ HeapAddr = mem_start_brk .. mem_max_addr - 1
  BY HeapFacts, IInvHeapOK
<1> QED
  BY <1>1, <1>2, <1>3, SMTT(30)

\* Receiving a block that was carved off gives it to the caller as the contract
\* says.
LEMMA ReceiveGives ==
  ASSUME ALIGNMENT = 8, IInv, IInv', NEW i \in Ids, NEW size \in Sizes, NEW r,
         Carves(r, size), Receive(i, size, r)
  PROVE  /\ Contract!Give(i, size)
         /\ \A k \in 0 .. size - 1 : data'[i][k] = r.mem[mem_brk + 8 + k]
<1>0. /\ size \in Nat /\ SIZE_T_SIZE = 8
      /\ mem_start_brk \in Nat /\ mem_start_brk > 0
      /\ mem_brk \in Nat /\ mem_start_brk <= mem_brk /\ mem_brk <= mem_max_addr
      /\ mem_max_addr \in Nat /\ HeapAddr = mem_start_brk .. mem_max_addr - 1
  BY MMClientAssumption, MemlibAssumption, HeaderSize, HeapFacts, IInvHeapOK
<1>1. /\ ret' = mem_brk + 8 /\ ret' # 0
      /\ mem' = r.mem
      /\ blocks' = [blocks EXCEPT ![i] = [ptr |-> mem_brk + 8, size |-> size]]
  BY <1>0 DEF Carves, Receive
<1>2. blocks \in [Ids -> [ptr : Nat, size : Sizes \cup {0}]]
  BY DEF IInv, TypeOK
<1>3. /\ blocks'[i] = [ptr |-> mem_brk + 8, size |-> size]
      /\ Live(i)'
      /\ \A j \in Ids \ {i} : blocks'[j] = blocks[j] /\ (Live(j)' <=> Live(j))
  BY <1>0, <1>1, <1>2 DEF Live
<1>4. data'[i] = [k \in 0 .. size - 1 |-> mem'[mem_brk + 8 + k]]
  BY <1>3, DataFactsNext
<1>5. ASSUME NEW j \in Ids \ {i} PROVE data'[j] = data[j]
  <2>1. CASE ~Live(j)
    BY <1>3, <2>1, DataFacts, DataFactsNext
  <2>2. CASE Live(j)
    <3>1. ASSUME NEW k \in 0 .. blocks[j].size - 1
          PROVE  mem'[blocks[j].ptr + k] = mem[blocks[j].ptr + k]
      BY <1>1, <2>2, PayloadCells DEF Carves
    <3>2. data'[j] = [k \in 0 .. blocks[j].size - 1 |-> mem'[blocks[j].ptr + k]]
      BY <1>3, <2>2, DataFactsNext
    <3>3. data[j] = [k \in 0 .. blocks[j].size - 1 |-> mem[blocks[j].ptr + k]]
      BY <2>2, DataFacts
    <3> QED
      BY <3>1, <3>2, <3>3
  <2> QED
    BY <2>1, <2>2
<1>6. Contract!Placed(i, [ptr |-> ret', size |-> size])
  <2>1. (mem_brk + 8) % ALIGNMENT = 0
    BY <1>0, IInvHeapOK DEF HeapOK
  <2>2. mem_brk + 8 .. mem_brk + 8 + size - 1 \subseteq HeapAddr
    BY <1>0 DEF Carves
  <2>3. ASSUME NEW j \in Ids \ {i}, Live(j)
        PROVE  (mem_brk + 8 .. mem_brk + 8 + size - 1)
                 \cap (blocks[j].ptr .. blocks[j].ptr + blocks[j].size - 1) = {}
    <3>1. /\ blocks[j].ptr \in Nat /\ blocks[j].size \in Nat
          /\ blocks[j].ptr + blocks[j].size <= mem_brk
      BY <2>3, HeldBlock
    <3> QED
      BY <1>0, <3>1, SMTT(30)
  <2> QED
    BY <1>1, <2>1, <2>2, <2>3 DEF Contract!Placed, Contract!Payload, Contract!Live, Live
<1> QED
  <2>1. Contract!Give(i, size)
    BY <1>1, <1>4, <1>5, <1>6, DataFactsNext DEF Contract!Give, Contract!OthersKept
  <2>2. \A k \in 0 .. size - 1 : data'[i][k] = r.mem[mem_brk + 8 + k]
    BY <1>1, <1>4
  <2> QED
    BY <2>1, <2>2

\* A failed call leaves everything the contract speaks of alone.
LEMMA ReceiveRefuses ==
  ASSUME NEW i \in Ids, NEW size \in Sizes, Receive(i, size, Failed)
  PROVE  Contract!Refuse
<1>1. ret' = 0 /\ UNCHANGED <<blocks, mem>>
  BY DEF Receive, Failed
<1> QED
  BY <1>1 DEF Contract!Refuse, data, Live

LEMMA MallocImplements ==
  ASSUME ALIGNMENT = 8, RoomAbove, RequestsFit, IInv, IInv',
         NEW i \in Ids, NEW size \in Sizes, Malloc(i, size)
  PROVE  Contract!Malloc(i, size)
<1>1. ~Contract!Live(i)
  BY DEF Malloc, Live, Contract!Live
<1>2. Contract!Give(i, size) \/ Contract!Refuse
  BY CallsCarve, ReceiveGives, ReceiveRefuses DEF Malloc
<1> QED
  BY <1>1, <1>2 DEF Contract!Malloc

\* Here the copy in mm_realloc matters: the payload given starts with the old one.
LEMMA ReallocImplements ==
  ASSUME ALIGNMENT = 8, RoomAbove, RequestsFit, IInv, IInv',
         NEW i \in Ids, NEW size \in Sizes, Realloc(i, size)
  PROVE  Contract!Realloc(i, size)
<1> DEFINE r == mm_realloc(blocks[i].ptr, size)
<1>1. Live(i) /\ Receive(i, size, r)
  BY DEF Realloc
<1>2. HeapOK /\ Fits(size) /\ size \in Nat
  BY IInvHeapOK, SizesFit DEF Fits
<1>3. /\ blocks[i].ptr \in Nat /\ blocks[i].size \in Nat
      /\ mem_start_brk + 8 <= blocks[i].ptr
      /\ blocks[i].ptr + blocks[i].size <= mem_brk
      /\ mem[blocks[i].ptr - 8] = blocks[i].size
  BY <1>1, HeldBlock
<1>4. \/ r = Failed
      \/ /\ Carves(r, size)
         /\ \A k \in 0 .. size - 1 : k < blocks[i].size =>
              r.mem[mem_brk + 8 + k] = mem[blocks[i].ptr + k]
  BY <1>2, <1>3, ReallocEffect
<1> HIDE DEF r
<1>5. CASE r = Failed
  BY <1>1, <1>5, ReceiveRefuses DEF Contract!Realloc, Contract!Live, Live
<1>6. CASE r # Failed
  <2>1. Carves(r, size)
    BY <1>4, <1>6
  <2>2. /\ Contract!Give(i, size)
        /\ \A k \in 0 .. size - 1 : data'[i][k] = r.mem[mem_brk + 8 + k]
    BY <1>1, <2>1, ReceiveGives
  <2>3. ASSUME NEW k \in 0 .. size - 1, k < blocks[i].size
        PROVE  data'[i][k] = data[i][k]
    <3>1. k \in 0 .. blocks[i].size - 1
      BY <1>2, <1>3, <2>3
    <3>2. data[i][k] = mem[blocks[i].ptr + k]
      <4>1. data[i] = [x \in 0 .. blocks[i].size - 1 |-> mem[blocks[i].ptr + x]]
        BY <1>1, DataFacts
      <4> QED
        BY <3>1, <4>1
    <3> QED
      BY <1>4, <1>6, <2>2, <2>3, <3>2
  <2> QED
    BY <1>1, <2>2, <2>3 DEF Contract!Realloc, Contract!Live, Live
<1> QED
  BY <1>5, <1>6

LEMMA FreeImplements ==
  ASSUME IInv, NEW i \in Ids, Free(i)
  PROVE  Contract!Free(i)
<1>1. /\ Live(i) /\ UNCHANGED <<mem, ret>>
      /\ blocks' = [blocks EXCEPT ![i] = [ptr |-> 0, size |-> 0]]
  BY DEF Free, NoBlock
<1>2. blocks \in [Ids -> [ptr : Nat, size : Sizes \cup {0}]]
  BY DEF IInv, TypeOK
<1>3. /\ ~Live(i)'
      /\ \A j \in Ids \ {i} : blocks'[j] = blocks[j] /\ (Live(j)' <=> Live(j))
  BY <1>1, <1>2 DEF Live
<1>4. data' = [data EXCEPT ![i] = <<>>]
  <2>1. data'[i] = <<>>
    BY <1>3, DataFactsNext
  <2>2. ASSUME NEW j \in Ids \ {i} PROVE data'[j] = data[j]
    <3>1. CASE ~Live(j)
      BY <1>3, <3>1, DataFacts, DataFactsNext
    <3>2. CASE Live(j)
      <4>1. data[j] = [k \in 0 .. blocks[j].size - 1 |-> mem[blocks[j].ptr + k]]
        BY <3>2, DataFacts
      <4>2. data'[j] = [k \in 0 .. blocks'[j].size - 1 |-> mem'[blocks'[j].ptr + k]]
        BY <1>3, <3>2, DataFactsNext
      <4> QED
        BY <1>1, <1>3, <4>1, <4>2
    <3> QED
      BY <3>1, <3>2
  <2>3. data = [j \in Ids |-> data[j]] /\ data' = [j \in Ids |-> data'[j]]
    BY DEF data
  <2> QED
    BY <2>1, <2>2, <2>3
<1> QED
  BY <1>1, <1>4 DEF Contract!Free, Contract!Live, Contract!NoBlock, Live

LEMMA FillImplements ==
  ASSUME ALIGNMENT = 8, IInv, NEW i \in Ids, NEW b \in Bytes, Fill(i, b)
  PROVE  Contract!Fill(i, b)
<1>0. mem \in [HeapAddr -> Nat]
  BY DEF IInv, TypeOK
<1>1. /\ Live(i) /\ UNCHANGED <<blocks, ret>>
      /\ mem' = [x \in HeapAddr |->
                   IF blocks[i].ptr <= x /\ x < blocks[i].ptr + blocks[i].size
                   THEN b ELSE mem[x]]
  BY <1>0 DEF Fill, memset
<1>2. \A j \in Ids : Live(j)' <=> Live(j)
  BY <1>1 DEF Live
<1>3. blocks[i].ptr \in Nat /\ blocks[i].size \in Nat
  BY <1>1, HeldBlock
<1>4. data'[i] = [k \in 0 .. blocks[i].size - 1 |-> b]
  <2>1. ASSUME NEW k \in 0 .. blocks[i].size - 1 PROVE mem'[blocks[i].ptr + k] = b
    <3>1. blocks[i].ptr + k \in HeapAddr
      BY <1>1, PayloadCells
    <3>2. blocks[i].ptr <= blocks[i].ptr + k
          /\ blocks[i].ptr + k < blocks[i].ptr + blocks[i].size
      BY <1>3
    <3> QED
      BY <1>1, <3>1, <3>2
  <2>2. data'[i] = [k \in 0 .. blocks[i].size - 1 |-> mem'[blocks[i].ptr + k]]
    BY <1>1, <1>2, DataFactsNext
  <2> QED
    BY <2>1, <2>2
<1>5. ASSUME NEW j \in Ids \ {i} PROVE data'[j] = data[j]
  <2>1. CASE ~Live(j)
    BY <1>2, <2>1, DataFacts, DataFactsNext
  <2>2. CASE Live(j)
    <3>1. /\ blocks[j].ptr \in Nat /\ blocks[j].size \in Nat
          /\ \/ blocks[i].ptr + blocks[i].size <= blocks[j].ptr - 8
             \/ blocks[j].ptr + blocks[j].size <= blocks[i].ptr - 8
      BY <1>1, <2>2, HeldBlock
    <3>2. ASSUME NEW k \in 0 .. blocks[j].size - 1
          PROVE  mem'[blocks[j].ptr + k] = mem[blocks[j].ptr + k]
      <4>1. blocks[j].ptr + k \in HeapAddr
        BY <2>2, PayloadCells
      <4>2. ~ (blocks[i].ptr <= blocks[j].ptr + k
               /\ blocks[j].ptr + k < blocks[i].ptr + blocks[i].size)
        BY <1>3, <3>1
      <4> QED
        BY <1>1, <4>1, <4>2
    <3>3. data'[j] = [k \in 0 .. blocks[j].size - 1 |-> mem'[blocks[j].ptr + k]]
      BY <1>1, <1>2, <2>2, DataFactsNext
    <3>4. data[j] = [k \in 0 .. blocks[j].size - 1 |-> mem[blocks[j].ptr + k]]
      BY <2>2, DataFacts
    <3> QED
      BY <3>2, <3>3, <3>4
  <2> QED
    BY <2>1, <2>2
<1>6. data' = [data EXCEPT ![i] = [k \in 0 .. blocks[i].size - 1 |-> b]]
  <2>1. data = [j \in Ids |-> data[j]] /\ data' = [j \in Ids |-> data'[j]]
    BY DEF data
  <2> QED
    BY <1>4, <1>5, <2>1
<1> QED
  BY <1>1, <1>6 DEF Contract!Fill, Contract!Live, Live

LEMMA ResetImplements ==
  ASSUME Reset
  PROVE  Contract!Reset
<1>1. UNCHANGED ret /\ blocks' = [i \in Ids |-> [ptr |-> 0, size |-> 0]]
  BY DEF Reset, NoBlock
<1>2. data' = [i \in Ids |-> <<>>]
  BY <1>1 DEF data, Live
<1> QED
  BY <1>1, <1>2 DEF Contract!Reset, Contract!NoBlock

LEMMA InitImplements == Init => Contract!Init
<1> SUFFICES ASSUME Init PROVE Contract!Init
  OBVIOUS
<1>1. ret = 0 /\ blocks = [i \in Ids |-> [ptr |-> 0, size |-> 0]]
  BY DEF Init, NoBlock
<1>2. data = [i \in Ids |-> <<>>]
  BY <1>1 DEF data, Live
<1> QED
  BY <1>1, <1>2 DEF Contract!Init, Contract!NoBlock

\* Every behaviour of mm.c under a client that obeys the rules is one that the
\* contract of module Allocator allows.
THEOREM Implements ==
  ASSUME ALIGNMENT = 8, RoomAbove, RequestsFit
  PROVE  Spec => KeepsContract
<1>1. ASSUME IInv, IInv', [Next]_vars PROVE [Contract!Next]_(Contract!vars)
  <2>1. ASSUME NEW i \in Ids, NEW size \in Sizes, Malloc(i, size) PROVE Contract!Next
    BY <1>1, <2>1, MallocImplements DEF Contract!Next
  <2>2. ASSUME NEW i \in Ids, NEW size \in Sizes, Realloc(i, size) PROVE Contract!Next
    BY <1>1, <2>2, ReallocImplements DEF Contract!Next
  <2>3. ASSUME NEW i \in Ids, NEW b \in Bytes, Fill(i, b) PROVE Contract!Next
    BY <1>1, <2>3, FillImplements DEF Contract!Next
  <2>4. ASSUME NEW i \in Ids, Free(i) PROVE Contract!Next
    BY <1>1, <2>4, FreeImplements DEF Contract!Next
  <2>5. CASE Reset
    BY <2>5, ResetImplements DEF Contract!Next
  <2>6. CASE UNCHANGED vars
    BY <2>6 DEF vars, Contract!vars, data, Live
  <2> QED
    BY <1>1, <2>1, <2>2, <2>3, <2>4, <2>5, <2>6 DEF Next
<1>2. IInv /\ IInv' /\ [Next]_vars => [Contract!Next]_(Contract!vars)
  BY <1>1
<1>3. Spec => Contract!Init /\ [][Contract!Next]_(Contract!vars)
  BY <1>2, InitImplements, Invariance, PTL DEF Spec
<1> QED
  BY <1>3 DEF KeepsContract, Contract!Spec
=============================================================================
