--------------------------- MODULE TraceFileProofs ---------------------------
(***************************************************************************)
(* read_trace, and main's choice of what it reads, for every set of files  *)
(* and every command line.  A record that is returned matches the header   *)
(* of its file, whatever is in the file; a well-formed listing is returned *)
(* as it stands or refused, and which of the two is for its header to say. *)
(***************************************************************************)
EXTENDS ReadTraces, FiniteSetTheorems, TLAPS

Types ==
  /\ file \in Files /\ pos \in Nat
  /\ index \in Nat /\ size \in Nat /\ max_index \in Nat /\ op_index \in Nat
  /\ ops \in [0 .. file.num_ops - 1 -> Requests \cup {Unwritten}]

\* Requests are stored from 0 on, without a gap.
Stored ==
  \A k \in 0 .. file.num_ops - 1 :
    IF k < op_index THEN ops[k] \in Requests ELSE ops[k] = Unwritten

Sized(k) == ops[k].type \in {"ALLOC", "REALLOC"}

\* max_index is the largest index of a stored a or r, unless requests were
\* written behind the array.
IsMax ==
  /\ \A k \in 0 .. file.num_ops - 1 : Sized(k) => ops[k].index <= max_index
  /\ max_index > 0 /\ op_index <= file.num_ops =>
       \E k \in 0 .. file.num_ops - 1 : Sized(k) /\ ops[k].index = max_index

IInv == Types /\ Stored /\ IsMax /\ (pc = "returned" => Agrees)

Letters == {"a", "r", "f", "x"}

LEMMA FileTypes ==
  ASSUME Types
  PROVE  /\ file.num_ids \in Nat \ {0} /\ file.num_ops \in Nat
         /\ Len(file.tokens) \in Nat /\ DOMAIN file.tokens = 1 .. Len(file.tokens)
         /\ \A i \in DOMAIN file.tokens :
              IF IsNum(file.tokens[i]) THEN file.tokens[i][2] \in Nat
              ELSE file.tokens[i][2] \in Letters /\ file.tokens[i] = word(file.tokens[i][2])
         /\ \A n \in Nat : AtNum(n) => NumAt(n) \in Nat
<1>1. /\ file.num_ids \in Nat \ {0} /\ file.num_ops \in Nat
      /\ file.tokens \in Seq(({"num"} \X Nat) \cup ({"word"} \X Letters))
  BY TraceFileAssumption DEF Types, Letters
<1>2. Len(file.tokens) \in Nat /\ DOMAIN file.tokens = 1 .. Len(file.tokens)
  BY <1>1
<1>3. ASSUME NEW i \in 1 .. Len(file.tokens)
      PROVE  IF IsNum(file.tokens[i]) THEN file.tokens[i][2] \in Nat
             ELSE file.tokens[i][2] \in Letters /\ file.tokens[i] = word(file.tokens[i][2])
  <2>1. PICK t \in ({"num"} \X Nat) \cup ({"word"} \X Letters) : t = file.tokens[i]
    BY <1>1, <1>3
  <2>2. CASE t \in {"num"} \X Nat
    <3>1. t[1] = "num" /\ t[2] \in Nat
      BY <2>2
    <3> QED
      BY <2>1, <3>1 DEF IsNum
  <2>3. CASE t \in {"word"} \X Letters
    <3>1. t[1] = "word" /\ t[2] \in Letters /\ t = <<"word", t[2]>>
      BY <2>3
    <3> QED
      BY <2>1, <3>1 DEF IsNum, word
  <2> QED
    BY <2>2, <2>3
<1>4. ASSUME NEW n \in Nat, AtNum(n) PROVE NumAt(n) \in Nat
  <2>1. n + 1 \in 1 .. Len(file.tokens)
    BY <1>2, <1>4 DEF AtNum
  <2> QED
    BY <1>3, <1>4, <2>1 DEF AtNum, NumAt
<1> QED
  BY <1>1, <1>2, <1>3, <1>4

LEMMA InitIInv == Init => IInv
  BY TraceFileAssumption DEF Init, IInv, Types, Stored, IsMax, Sized, Unwritten, Requests

\* What is scanned is a natural number.
LEMMA ScanTypes ==
  ASSUME Types, ScanIndexAndSize \/ ScanIndex
  PROVE  index' \in Nat /\ size' \in Nat /\ pos' \in Nat
<1>1. /\ AtNum(pos + 1) => NumAt(pos + 1) \in Nat
      /\ AtNum(pos + 2) => NumAt(pos + 2) \in Nat
      /\ index \in Nat /\ size \in Nat /\ pos \in Nat
  <2>1. pos + 1 \in Nat /\ pos + 2 \in Nat
    BY DEF Types
  <2> QED
    BY <2>1, FileTypes DEF Types
<1>2. CASE ScanIndexAndSize
  <2>1. CASE AtNum(pos + 1) /\ AtNum(pos + 2)
    BY <1>1, <1>2, <2>1 DEF ScanIndexAndSize
  <2>2. CASE AtNum(pos + 1) /\ ~AtNum(pos + 2)
    BY <1>1, <1>2, <2>2 DEF ScanIndexAndSize
  <2>3. CASE ~AtNum(pos + 1)
    BY <1>1, <1>2, <2>3 DEF ScanIndexAndSize
  <2> QED
    BY <2>1, <2>2, <2>3
<1>3. CASE ScanIndex
  BY <1>1, <1>3 DEF ScanIndex
<1> QED
  BY <1>2, <1>3

\* A request is written to its own place and nowhere else.
LEMMA StoreEffect ==
  ASSUME Types, Stored, NEW o \in Requests, Store(o), UNCHANGED file, pc = "reading"
  PROVE  /\ op_index' = op_index + 1 /\ pc' # "returned"
         /\ ops' \in [0 .. file.num_ops - 1 -> Requests \cup {Unwritten}]
         /\ \A k \in 0 .. file.num_ops - 1 : ops'[k] = IF k = op_index THEN o ELSE ops[k]
         /\ Stored'
<1>1. op_index' = op_index + 1 /\ pc' # "returned"
  BY DEF Store
<1>2. op_index \in Nat /\ file.num_ops \in Nat
  BY FileTypes DEF Types
<1>3. /\ ops' \in [0 .. file.num_ops - 1 -> Requests \cup {Unwritten}]
      /\ \A k \in 0 .. file.num_ops - 1 : ops'[k] = IF k = op_index THEN o ELSE ops[k]
  <2>1. CASE op_index < file.num_ops
    BY <1>2, <2>1 DEF Store, Types
  <2>2. CASE ~(op_index < file.num_ops)
    BY <1>2, <2>2 DEF Store, Types
  <2> QED
    BY <2>1, <2>2
<1>4. Stored'
  BY <1>1, <1>2, <1>3 DEF Stored
<1> QED
  BY <1>1, <1>3, <1>4

LEMMA SizedStep ==
  ASSUME IInv, NEW c, NEW type \in {"ALLOC", "REALLOC"}, ReadSized(c, type)
  PROVE  IInv'
<1> DEFINE o == [type |-> type, index |-> index', size |-> size']
<1>1. /\ pc = "reading" /\ Types /\ Stored /\ IsMax
      /\ ScanIndexAndSize /\ Store(o) /\ Raise /\ UNCHANGED file
  BY DEF IInv, ReadSized
<1>2. index' \in Nat /\ size' \in Nat /\ pos' \in Nat
  BY <1>1, ScanTypes
<1>3. o \in Requests /\ o.type = type /\ o.index = index'
  BY <1>2 DEF Requests
<1> HIDE DEF o
<1>4. /\ op_index' = op_index + 1 /\ pc' # "returned"
      /\ ops' \in [0 .. file.num_ops - 1 -> Requests \cup {Unwritten}]
      /\ \A k \in 0 .. file.num_ops - 1 : ops'[k] = IF k = op_index THEN o ELSE ops[k]
      /\ Stored'
  BY <1>1, <1>3, StoreEffect
<1>5. /\ max_index \in Nat /\ op_index \in Nat /\ file.num_ops \in Nat
      /\ max_index' = IF index' > max_index THEN index' ELSE max_index
  BY <1>1, FileTypes DEF Types, Raise, MaxOf
<1>6. Types'
  BY <1>1, <1>2, <1>4, <1>5 DEF Types
<1>7. \A k \in 0 .. file.num_ops - 1 : Sized(k)' => ops'[k].index <= max_index'
  <2> SUFFICES ASSUME NEW k \in 0 .. file.num_ops - 1, Sized(k)'
               PROVE  ops'[k].index <= max_index'
    OBVIOUS
  <2>1. CASE k = op_index
    BY <1>2, <1>3, <1>4, <1>5, <2>1
  <2>2. CASE k # op_index
    <3>1. ops'[k] = ops[k] /\ Sized(k)
      BY <1>4, <2>2 DEF Sized
    <3>2. ops[k].index <= max_index /\ ops[k].index \in Nat
      BY <1>1, <3>1 DEF IsMax, Types, Requests, Sized, Unwritten
    <3> QED
      BY <1>2, <1>5, <3>1, <3>2
  <2> QED
    BY <2>1, <2>2
<1>8. ASSUME max_index' > 0, op_index' <= file.num_ops
      PROVE  \E k \in 0 .. file.num_ops - 1 : Sized(k)' /\ ops'[k].index = max_index'
  <2>1. PICK j \in 0 .. file.num_ops - 1 : j = op_index
    BY <1>4, <1>5, <1>8
  <2>2. CASE index' > max_index
    <3>1. ops'[j] = o
      BY <1>4, <2>1
    <3>2. Sized(j)'
      BY <1>3, <3>1 DEF Sized
    <3>3. ops'[j].index = max_index'
      BY <1>3, <1>5, <2>2, <3>1
    <3> QED
      BY <3>2, <3>3
  <2>3. CASE ~(index' > max_index)
    <3>1. max_index' = max_index /\ max_index > 0 /\ op_index <= file.num_ops
      BY <1>4, <1>5, <1>8, <2>3
    <3>2. PICK k \in 0 .. file.num_ops - 1 : Sized(k) /\ ops[k].index = max_index
      BY <1>1, <3>1 DEF IsMax
    <3>3. CASE k # op_index
      BY <1>4, <3>1, <3>2, <3>3 DEF Sized
    <3>4. CASE k = op_index
      BY <1>1, <1>5, <3>2, <3>4 DEF Stored, Sized, Unwritten
    <3> QED
      BY <3>3, <3>4
  <2> QED
    BY <2>2, <2>3
<1> QED
  BY <1>1, <1>4, <1>6, <1>7, <1>8 DEF IInv, IsMax

LEMMA FreeStep ==
  ASSUME IInv, ReadFree
  PROVE  IInv'
<1> DEFINE o == [type |-> "FREE", index |-> index', size |-> 0]
<1>1. /\ pc = "reading" /\ Types /\ Stored /\ IsMax
      /\ ScanIndex /\ Store(o) /\ UNCHANGED <<file, max_index>>
  BY DEF IInv, ReadFree
<1>2. index' \in Nat /\ size' \in Nat /\ pos' \in Nat
  BY <1>1, ScanTypes
<1>3. o \in Requests /\ o.type = "FREE"
  BY <1>2 DEF Requests
<1> HIDE DEF o
<1>4. /\ op_index' = op_index + 1 /\ pc' # "returned"
      /\ ops' \in [0 .. file.num_ops - 1 -> Requests \cup {Unwritten}]
      /\ \A k \in 0 .. file.num_ops - 1 : ops'[k] = IF k = op_index THEN o ELSE ops[k]
      /\ Stored'
  BY <1>1, <1>3, StoreEffect
<1>5. max_index \in Nat /\ op_index \in Nat /\ file.num_ops \in Nat
  BY <1>1, FileTypes DEF Types
<1>6. Types'
  BY <1>1, <1>2, <1>4, <1>5 DEF Types
<1>7. \A k \in 0 .. file.num_ops - 1 : Sized(k)' <=> Sized(k)
  BY <1>1, <1>3, <1>4, <1>5 DEF Sized, Stored, Unwritten
<1>8. \A k \in 0 .. file.num_ops - 1 : Sized(k) => ops'[k] = ops[k]
  BY <1>1, <1>4, <1>5 DEF Sized, Stored, Unwritten
<1>9. IsMax'
  BY <1>1, <1>4, <1>5, <1>7, <1>8 DEF IsMax
<1> QED
  BY <1>4, <1>6, <1>9 DEF IInv

LEMMA StepIInv == IInv /\ [Next]_vars => IInv'
<1> SUFFICES ASSUME IInv, [Next]_vars PROVE IInv'
  OBVIOUS
<1>1. CASE ReadAlloc \/ ReadRealloc
  BY <1>1, SizedStep DEF ReadAlloc, ReadRealloc
<1>2. CASE ReadFree
  BY <1>2, FreeStep
<1>3. CASE Bogus
  BY <1>3 DEF Bogus, IInv, Types, Stored, IsMax, Sized, Agrees
<1>4. CASE EndOfFile
  BY <1>4 DEF EndOfFile, IInv, Types, Stored, IsMax, Sized, Agrees
<1>5. CASE UNCHANGED vars
  BY <1>5 DEF vars, IInv, Types, Stored, IsMax, Sized, Agrees
<1> QED
  BY <1>1, <1>2, <1>3, <1>4, <1>5 DEF Next, Ended

\* Of every file, however malformed, read_trace returns only a record whose
\* requests are all read, with the indices that its header announces
\* (mdriver.c, read_trace and its two assertions).
THEOREM HeaderHolds == Spec => []ReturnedMatchesHeader
<1>1. IInv => ReturnedMatchesHeader
  <2> SUFFICES ASSUME IInv, pc = "returned"
               PROVE  /\ \A k \in DOMAIN ops : ops[k] # Unwritten
                      /\ \A k \in DOMAIN ops : ops[k].type # "FREE" => ops[k].index < file.num_ids
                      /\ file.num_ids > 1 =>
                           \E k \in DOMAIN ops :
                             ops[k].type # "FREE" /\ ops[k].index = file.num_ids - 1
    BY DEF ReturnedMatchesHeader
  <2>1. /\ Types /\ Stored /\ IsMax
        /\ max_index = file.num_ids - 1 /\ op_index = file.num_ops
        /\ DOMAIN ops = 0 .. file.num_ops - 1
        /\ file.num_ids \in Nat \ {0} /\ file.num_ops \in Nat
    BY FileTypes DEF IInv, Agrees, Types
  <2>2. \A k \in 0 .. file.num_ops - 1 : ops[k] \in Requests
    BY <2>1 DEF Stored
  <2>3. \A k \in 0 .. file.num_ops - 1 : ops[k] # Unwritten
    BY <2>2 DEF Requests, Unwritten
  <2>4. \A k \in 0 .. file.num_ops - 1 : Sized(k) <=> ops[k].type # "FREE"
    BY <2>2 DEF Requests, Sized
  <2>5. \A k \in 0 .. file.num_ops - 1 : ops[k].index \in Nat
    BY <2>2 DEF Requests
  <2>6. \A k \in 0 .. file.num_ops - 1 : Sized(k) => ops[k].index < file.num_ids
    BY <2>1, <2>5 DEF IsMax
  <2>7. file.num_ids > 1 =>
          \E k \in 0 .. file.num_ops - 1 : Sized(k) /\ ops[k].index = file.num_ids - 1
    BY <2>1 DEF IsMax
  <2> QED
    BY <2>1, <2>3, <2>4, <2>6, <2>7
<1> QED
  BY <1>1, InitIInv, StepIInv, PTL DEF Spec

-----------------------------------------------------------------------------
(* Listings *)

Passed == {j \in Words : j <= pos}
SizedPassed == {w \in Passed : file.tokens[w][2] # "f"}

\* How far a listing is read: up to a word or to the end, with the requests
\* before it in their places.
Boundary == pos <= Len(file.tokens) /\ (pos < Len(file.tokens) => pos + 1 \in Words)

InPlace ==
  /\ op_index = Cardinality(Passed)
  /\ \A i \in Passed : Place(i) < file.num_ops => ops[Place(i)] = Request(i)

MaxPassed ==
  /\ max_index \in {Request(i).index : i \in SizedPassed} \cup {0}
  /\ \A i \in SizedPassed : Request(i).index <= max_index

Outcome ==
  /\ pc \in {"reading", "returned", "aborted", "crashed"}
  /\ pc = "returned" => pos = Len(file.tokens) /\ Agrees
  /\ pc = "aborted" => pos = Len(file.tokens) /\ ~Agrees
  /\ pc = "crashed" => op_index > file.num_ops

ListingInv == IsListing => Boundary /\ InPlace /\ MaxPassed /\ Outcome

LEMMA WordsFacts ==
  ASSUME Types
  PROVE  /\ Words \subseteq 1 .. Len(file.tokens)
         /\ \A i \in Words : /\ i \in Nat /\ Numbers(i) \in 1 .. 2
                             /\ file.tokens[i] = word(file.tokens[i][2])
                             /\ file.tokens[i][2] \in Letters
         /\ IsFiniteSet(Words)
         /\ \A S \in SUBSET Words : IsFiniteSet(S) /\ Cardinality(S) \in Nat
<1>1. /\ Words \subseteq 1 .. Len(file.tokens)
      /\ \A i \in Words : /\ i \in Nat /\ Numbers(i) \in 1 .. 2
                          /\ file.tokens[i] = word(file.tokens[i][2])
                          /\ file.tokens[i][2] \in Letters
  BY FileTypes DEF Words, Numbers
<1>2. IsFiniteSet(1 .. Len(file.tokens))
  BY FileTypes, FS_Interval
<1>3. IsFiniteSet(Words)
  BY <1>1, <1>2, FS_Subset
<1>4. \A S \in SUBSET Words : IsFiniteSet(S) /\ Cardinality(S) \in Nat
  BY <1>3, FS_Subset, FS_CardinalityType
<1> QED
  BY <1>1, <1>3, <1>4

\* Between the word w of a listing and the place behind its numbers there are
\* numbers only, and behind them comes a word or the end.
LEMMA ListingLayout ==
  ASSUME Types, IsListing, NEW w \in Words
  PROVE  /\ w + Numbers(w) <= Len(file.tokens)
         /\ \A j \in 1 .. Numbers(w) : w + j \in 1 .. Len(file.tokens) /\ w + j \notin Words
         /\ w + Numbers(w) < Len(file.tokens) => w + Numbers(w) + 1 \in Words
<1>1. \A i \in Words : \A j \in 1 .. Numbers(i) :
        i + j \in 1 .. Len(file.tokens) /\ i + j \notin Words
  BY FileTypes DEF IsListing
<1>2. \A i \in Words : i \in Nat /\ Numbers(i) \in 1 .. 2
  BY WordsFacts
<1>3. w + Numbers(w) <= Len(file.tokens)
  BY <1>1, <1>2, FileTypes
<1>4. ASSUME w + Numbers(w) < Len(file.tokens)
      PROVE  w + Numbers(w) + 1 \in Words
  <2> DEFINE e == w + Numbers(w) + 1
  <2>1. e \in 1 .. Len(file.tokens)
    BY <1>2, <1>4, FileTypes
  <2>2. PICK i \in Words : e \in i .. i + Numbers(i)
    BY <2>1, FileTypes DEF IsListing
  <2>3. CASE e = i
    BY <2>3
  <2>4. CASE e # i
    <3>1. i < e
      BY <1>2, <2>2, <2>4
    <3>2. CASE i = w
      BY <1>2, <2>2, <3>2
    <3>3. CASE i > w
      <4>1. i - w \in 1 .. Numbers(w) /\ w + (i - w) = i
        BY <1>2, <3>1, <3>3
      <4> QED
        BY <1>1, <4>1
    <3>4. CASE i < w
      <4>1. w - i \in 1 .. Numbers(i) /\ i + (w - i) = w
        BY <1>2, <2>2, <3>4
      <4> QED
        BY <1>1, <4>1
    <3> QED
      BY <1>2, <3>2, <3>3, <3>4
  <2> QED
    BY <2>3, <2>4
<1> QED
  BY <1>1, <1>3, <1>4

LEMMA SameFile ==
  ASSUME file' = file
  PROVE  /\ Words' = Words /\ IsListing' = IsListing
         /\ \A i : Place(i)' = Place(i) /\ Request(i)' = Request(i) /\ Numbers(i)' = Numbers(i)
  BY DEF Words, IsListing, Place, Request, Numbers

\* One request further: its word is the only one that is passed, and its place
\* is the number of those passed before.
LEMMA PassedStep ==
  ASSUME Types, IsListing, Boundary, NEW w \in Words, w = pos + 1,
         file' = file, pos' = w + Numbers(w)
  PROVE  /\ Boundary'
         /\ Passed' = Passed \cup {w} /\ w \notin Passed
         /\ Cardinality(Passed') = Cardinality(Passed) + 1
         /\ Place(w) = Cardinality(Passed)
         /\ \A i \in Passed : Place(i) # Place(w)
<1>1. pos \in Nat /\ \A i \in Words : i \in Nat /\ Numbers(i) \in 1 .. 2
  BY WordsFacts DEF Types
<1>2. Words' = Words
  BY SameFile
<1>3. Boundary'
  BY <1>1, <1>2, ListingLayout DEF Boundary
<1>4. ASSUME NEW j \in Words, j <= w + Numbers(w), j > w
      PROVE  FALSE
  <2>1. j - w \in 1 .. Numbers(w) /\ w + (j - w) = j
    BY <1>1, <1>4
  <2> QED
    BY <2>1, ListingLayout
<1>5. \A j \in Words : j <= w + Numbers(w) <=> j <= pos \/ j = w
  BY <1>1, <1>4
<1>6. Passed' = Passed \cup {w} /\ w \notin Passed
  <2>1. Passed' = {j \in Words : j <= w + Numbers(w)}
    BY <1>2 DEF Passed
  <2>2. w \notin Passed
    BY <1>1 DEF Passed
  <2> QED
    BY <1>5, <2>1, <2>2 DEF Passed
<1>7. Passed \in SUBSET Words /\ IsFiniteSet(Passed) /\ Cardinality(Passed) \in Nat
  BY WordsFacts DEF Passed
<1>8. Cardinality(Passed') = Cardinality(Passed) + 1
  BY <1>6, <1>7, FS_AddElement
<1>9. Place(w) = Cardinality(Passed)
  <2>1. \A j \in Words : j < w <=> j <= pos
    BY <1>1
  <2>2. {j \in Words : j < w} = Passed
    BY <2>1 DEF Passed
  <2> QED
    BY <2>2 DEF Place
<1>10. ASSUME NEW i \in Passed
       PROVE  Place(i) # Place(w)
  <2> DEFINE S == {j \in Words : j < i}
  <2>1. i \in Words /\ i <= pos
    BY DEF Passed
  <2>2. ~(i < i) /\ \A j \in Words : j < i => j <= pos
    BY <1>1, <2>1
  <2>3. S \in SUBSET Passed /\ i \notin S
    BY <2>2 DEF Passed
  <2>4. S # Passed
    BY <2>3
  <2>5. Cardinality(S) # Cardinality(Passed)
    BY <1>7, <2>3, <2>4, FS_Subset
  <2> QED
    BY <1>9, <2>5 DEF Place
<1> QED
  BY <1>3, <1>6, <1>8, <1>9, <1>10

\* The request is stored in its place, and the others stay in theirs.
LEMMA StoreInPlace ==
  ASSUME Types, IsListing, Boundary, InPlace, Outcome, NEW w \in Words, w = pos + 1,
         file' = file, pos' = w + Numbers(w), pc = "reading", Store(Request(w))
  PROVE  InPlace' /\ Outcome'
<1>1. /\ op_index = Cardinality(Passed) /\ op_index' = op_index + 1
      /\ op_index \in Nat /\ file.num_ops \in Nat
  BY FileTypes DEF InPlace, Store, Types
<1>2. /\ Passed' = Passed \cup {w} /\ w \notin Passed /\ Place(w) = op_index
      /\ Cardinality(Passed') = op_index'
      /\ \A i \in Passed : Place(i) # op_index
  BY <1>1, PassedStep
<1>3. \A i \in Passed' : Place(i) \in Nat
  <2>1. Passed' \subseteq Words
    BY <1>2 DEF Passed
  <2>2. ASSUME NEW i \in Words
        PROVE  Place(i) \in Nat
    <3>1. {j \in Words : j < i} \in SUBSET Words
      OBVIOUS
    <3> QED
      BY <3>1, WordsFacts DEF Place
  <2> QED
    BY <2>1, <2>2
<1>4. ASSUME NEW i \in Passed', Place(i) < file.num_ops
      PROVE  ops'[Place(i)] = Request(i)
  <2>1. Place(i) \in 0 .. file.num_ops - 1 /\ DOMAIN ops = 0 .. file.num_ops - 1
    BY <1>1, <1>3, <1>4 DEF Types
  <2>2. CASE i = w
    BY <1>1, <1>2, <1>4, <2>1, <2>2 DEF Store
  <2>3. CASE i # w
    <3>1. i \in Passed /\ Place(i) # op_index /\ ops[Place(i)] = Request(i)
      BY <1>2, <1>4, <2>3 DEF InPlace
    <3> QED
      BY <1>1, <2>1, <3>1 DEF Store
  <2> QED
    BY <2>2, <2>3
<1>5. InPlace'
  BY <1>1, <1>2, <1>4, SameFile DEF InPlace
<1>6. Outcome'
  BY <1>1 DEF Outcome, Store
<1> QED
  BY <1>5, <1>6

\* fscanf finds the numbers behind the word of a listing.
LEMMA ScanListing ==
  ASSUME Types, IsListing, NEW w \in Words, w = pos + 1
  PROVE  /\ AtNum(pos + 1) /\ NumAt(pos + 1) = file.tokens[w + 1][2]
         /\ file.tokens[w][2] # "f" => AtNum(pos + 2) /\ NumAt(pos + 2) = file.tokens[w + 2][2]
<1>1. pos \in Nat /\ w \in Nat /\ Numbers(w) \in 1 .. 2
  BY WordsFacts DEF Types
<1>2. \A j \in 1 .. Numbers(w) : w + j \in 1 .. Len(file.tokens) /\ IsNum(file.tokens[w + j])
  BY ListingLayout, FileTypes DEF Words
<1>3. 1 \in 1 .. Numbers(w) /\ pos + 1 + 1 = w + 1 /\ pos + 2 + 1 = w + 2
  BY <1>1
<1>4. AtNum(pos + 1) /\ NumAt(pos + 1) = file.tokens[w + 1][2]
  <2>1. w + 1 \in 1 .. Len(file.tokens) /\ IsNum(file.tokens[w + 1])
    BY <1>2, <1>3
  <2>2. pos + 1 < Len(file.tokens)
    BY <1>1, <2>1, FileTypes
  <2> QED
    BY <1>3, <2>1, <2>2 DEF AtNum, NumAt
<1>5. ASSUME file.tokens[w][2] # "f"
      PROVE  AtNum(pos + 2) /\ NumAt(pos + 2) = file.tokens[w + 2][2]
  <2>1. 2 \in 1 .. Numbers(w)
    BY <1>5 DEF Numbers
  <2>2. w + 2 \in 1 .. Len(file.tokens) /\ IsNum(file.tokens[w + 2])
    BY <1>2, <2>1
  <2>3. pos + 2 < Len(file.tokens)
    BY <1>1, <2>2, FileTypes
  <2> QED
    BY <1>3, <2>2, <2>3 DEF AtNum, NumAt
<1> QED
  BY <1>4, <1>5

LEMMA RequestIndex ==
  ASSUME Types, IsListing, NEW w \in Words
  PROVE  Request(w).index \in Nat
<1>1. w \in Nat /\ 1 \in 1 .. Numbers(w)
  BY WordsFacts
<1>2. w + 1 \in 1 .. Len(file.tokens) /\ IsNum(file.tokens[w + 1])
  BY <1>1, ListingLayout, FileTypes DEF Words
<1> QED
  BY <1>2, FileTypes DEF Request

LEMMA SizedListing ==
  ASSUME IInv, IsListing, ListingInv,
         NEW c, NEW type, <<c, type>> \in {<<"a", "ALLOC">>, <<"r", "REALLOC">>},
         ReadSized(c, type)
  PROVE  ListingInv'
<1>1. /\ Types /\ Boundary /\ InPlace /\ MaxPassed /\ Outcome
      /\ pc = "reading" /\ AtWord(c) /\ ScanIndexAndSize /\ Raise /\ file' = file
      /\ Store([type |-> type, index |-> index', size |-> size'])
  BY DEF IInv, ListingInv, ReadSized
<1>2. PICK w \in Words : w = pos + 1
  BY <1>1 DEF Boundary, AtWord
<1>3. w \in Nat /\ file.tokens[w][2] = c /\ c # "f" /\ Numbers(w) = 2 /\ pos + 3 = w + 2
  BY <1>1, <1>2, WordsFacts DEF AtWord, word, Numbers, Types
<1>4. /\ index' = file.tokens[w + 1][2] /\ size' = file.tokens[w + 2][2]
      /\ pos' = w + Numbers(w)
  <2>1. /\ AtNum(pos + 1) /\ NumAt(pos + 1) = file.tokens[w + 1][2]
        /\ AtNum(pos + 2) /\ NumAt(pos + 2) = file.tokens[w + 2][2]
    BY <1>1, <1>2, <1>3, ScanListing
  <2> QED
    BY <1>1, <1>3, <2>1 DEF ScanIndexAndSize
<1>5. [type |-> type, index |-> index', size |-> size'] = Request(w)
  BY <1>3, <1>4 DEF Request
<1>6. Store(Request(w))
  BY <1>1, <1>5
<1>7. Boundary' /\ Passed' = Passed \cup {w}
  BY <1>1, <1>2, <1>4, PassedStep
<1>8. InPlace' /\ Outcome'
  BY <1>1, <1>2, <1>4, <1>6, StoreInPlace
<1>9. MaxPassed'
  <2>1. SizedPassed' = SizedPassed \cup {w}
    BY <1>1, <1>3, <1>7 DEF SizedPassed
  <2>2. Request(w).index = index' /\ index' \in Nat /\ max_index \in Nat
    BY <1>1, <1>4, ScanTypes DEF Request, Types
  <2>3. \A i \in Words : Request(i)' = Request(i)
    BY <1>1, SameFile
  <2>4. \A i \in SizedPassed : i \in Words /\ Request(i).index <= max_index
    BY <1>1 DEF MaxPassed, SizedPassed, Passed
  <2>5. max_index' = IF index' > max_index THEN index' ELSE max_index
    BY <1>1 DEF Raise, MaxOf
  <2>6. max_index' \in {Request(i).index : i \in SizedPassed'} \cup {0}
    BY <1>1, <2>1, <2>2, <2>5 DEF MaxPassed
  <2>7. ASSUME NEW i \in SizedPassed'
        PROVE  Request(i).index <= max_index'
    <3>1. CASE i = w
      BY <2>2, <2>5, <3>1
    <3>2. CASE i # w
      <4>1. Request(i).index <= max_index /\ Request(i).index \in Nat
        BY <1>1, <2>1, <2>4, <3>2, RequestIndex
      <4> QED
        BY <2>2, <2>5, <4>1
    <3> QED
      BY <3>1, <3>2
  <2>8. \A i \in SizedPassed' : i \in Words
    BY <2>1, <2>4
  <2> QED
    BY <2>3, <2>6, <2>7, <2>8 DEF MaxPassed
<1> QED
  BY <1>1, <1>7, <1>8, <1>9 DEF ListingInv

LEMMA FreeListing ==
  ASSUME IInv, IsListing, ListingInv, ReadFree
  PROVE  ListingInv'
<1>1. /\ Types /\ Boundary /\ InPlace /\ MaxPassed /\ Outcome
      /\ pc = "reading" /\ AtWord("f") /\ ScanIndex /\ UNCHANGED <<file, max_index>>
      /\ Store([type |-> "FREE", index |-> index', size |-> 0])
  BY DEF IInv, ListingInv, ReadFree
<1>2. PICK w \in Words : w = pos + 1
  BY <1>1 DEF Boundary, AtWord
<1>3. w \in Nat /\ file.tokens[w][2] = "f" /\ Numbers(w) = 1 /\ pos + 2 = w + 1
  BY <1>1, <1>2, WordsFacts DEF AtWord, word, Numbers, Types
<1>4. index' = file.tokens[w + 1][2] /\ pos' = w + Numbers(w)
  <2>1. AtNum(pos + 1) /\ NumAt(pos + 1) = file.tokens[w + 1][2]
    BY <1>1, <1>2, ScanListing
  <2> QED
    BY <1>1, <1>3, <2>1 DEF ScanIndex
<1>5. [type |-> "FREE", index |-> index', size |-> 0] = Request(w)
  BY <1>3, <1>4 DEF Request
<1>6. Store(Request(w))
  BY <1>1, <1>5
<1>7. Boundary' /\ Passed' = Passed \cup {w}
  BY <1>1, <1>2, <1>4, PassedStep
<1>8. InPlace' /\ Outcome'
  BY <1>1, <1>2, <1>4, <1>6, StoreInPlace
<1>9. SizedPassed' = SizedPassed
  BY <1>1, <1>3, <1>7 DEF SizedPassed
<1>10. MaxPassed'
  <2>1. \A i : Request(i)' = Request(i)
    BY <1>1, SameFile
  <2> QED
    BY <1>1, <1>9, <2>1 DEF MaxPassed
<1> QED
  BY <1>1, <1>7, <1>8, <1>10 DEF ListingInv

LEMMA StepListing ==
  ASSUME IInv, ListingInv, [Next]_vars
  PROVE  ListingInv'
<1>1. IsListing' = IsListing
  <2>1. file' = file
    BY DEF Next, ReadAlloc, ReadRealloc, ReadSized, ReadFree, Bogus, EndOfFile, Ended, vars
  <2> QED
    BY <2>1, SameFile
<1>2. CASE ~IsListing
  BY <1>1, <1>2 DEF ListingInv
<1>3. CASE IsListing
  <2>0. Types /\ Boundary /\ InPlace /\ MaxPassed /\ Outcome
    BY <1>3 DEF IInv, ListingInv
  <2>1. CASE ReadAlloc
    BY <1>3, <2>1, SizedListing DEF ReadAlloc
  <2>2. CASE ReadRealloc
    BY <1>3, <2>2, SizedListing DEF ReadRealloc
  <2>3. CASE ReadFree
    BY <1>3, <2>3, FreeListing
  <2>4. CASE Bogus
    <3>1. PICK w \in Words : w = pos + 1
      BY <2>0, <2>4 DEF Bogus, Boundary
    <3>2. /\ file.tokens[w] = word(file.tokens[w][2])
          /\ file.tokens[w][2] \in {"a", "r", "f"}
      BY <1>3, <2>0, WordsFacts DEF IsListing, Letters
    <3>3. pos < Len(file.tokens)
      BY <2>4 DEF Bogus
    <3> QED
      BY <2>4, <3>1, <3>2, <3>3 DEF Bogus, AtWord
  <2>5. CASE EndOfFile \/ UNCHANGED vars
    <3>1. UNCHANGED <<file, pos, op_index, max_index, ops>>
      BY <2>5 DEF EndOfFile, vars
    <3>2. Passed' = Passed /\ SizedPassed' = SizedPassed
      BY <3>1, SameFile DEF Passed, SizedPassed
    <3>3. Boundary' /\ InPlace' /\ MaxPassed'
      BY <2>0, <3>1, <3>2, SameFile DEF Boundary, InPlace, MaxPassed
    <3>4. Outcome'
      BY <2>0, <2>5, <3>1 DEF Outcome, EndOfFile, vars, Agrees
    <3> QED
      BY <3>3, <3>4 DEF ListingInv
  <2> QED
    BY <2>1, <2>2, <2>3, <2>4, <2>5 DEF Next, Ended
<1> QED
  BY <1>2, <1>3

LEMMA InitListing == Init => ListingInv
<1> SUFFICES ASSUME Init, IsListing
             PROVE  Boundary /\ InPlace /\ MaxPassed /\ Outcome
  BY DEF ListingInv
<1>1. Types /\ pos = 0 /\ op_index = 0 /\ max_index = 0 /\ pc = "reading"
  BY InitIInv DEF IInv, Init
<1>2. \A i \in Words : i \in Nat /\ i >= 1 /\ Numbers(i) \in 1 .. 2
  BY <1>1, WordsFacts, FileTypes
<1>3. Passed = {}
  BY <1>1, <1>2 DEF Passed
<1>4. Boundary
  <2>1. ASSUME 0 < Len(file.tokens)
        PROVE  1 \in Words
    <3>1. 1 \in DOMAIN file.tokens
      BY <1>1, <2>1, FileTypes
    <3>2. PICK i \in Words : 1 \in i .. i + Numbers(i)
      BY <3>1 DEF IsListing
    <3>3. i = 1
      BY <1>2, <3>2
    <3> QED
      BY <3>2, <3>3
  <2> QED
    BY <1>1, <2>1, FileTypes DEF Boundary
<1> QED
  BY <1>1, <1>3, <1>4, FS_EmptySet DEF InPlace, MaxPassed, SizedPassed, Outcome

\* At the end of a listing the two assertions of read_trace say exactly that its
\* header is right.
LEMMA AgreesIsHeaderRight ==
  ASSUME IInv, IsListing, ListingInv, pos = Len(file.tokens)
  PROVE  Passed = Words /\ (Agrees <=> HeaderRight)
<1>1. Types /\ InPlace /\ MaxPassed
  BY DEF IInv, ListingInv
<1>2. Passed = Words
  BY <1>1, WordsFacts DEF Passed
<1>3. SizedIndices = {Request(i).index : i \in SizedPassed}
  BY <1>2 DEF SizedIndices, SizedPassed
<1>4. \A x \in SizedIndices : x \in Nat /\ x <= max_index
  <2>1. ASSUME NEW i \in SizedPassed
        PROVE  Request(i).index \in Nat /\ Request(i).index <= max_index
    BY <1>1, RequestIndex DEF MaxPassed, SizedPassed, Passed
  <2> QED
    BY <1>3, <2>1
<1>5. max_index \in SizedIndices \cup {0}
  BY <1>1, <1>3 DEF MaxPassed
<1>6. op_index = Cardinality(Words)
  BY <1>1, <1>2 DEF InPlace
<1>7. file.num_ids \in Nat \ {0} /\ max_index \in Nat
  BY <1>1, FileTypes DEF Types
<1>8. max_index = file.num_ids - 1
      <=> file.num_ids - 1 \in SizedIndices \cup {0} /\ \A x \in SizedIndices : x < file.num_ids
  <2>1. ASSUME max_index = file.num_ids - 1
        PROVE  /\ file.num_ids - 1 \in SizedIndices \cup {0}
               /\ \A x \in SizedIndices : x < file.num_ids
    BY <1>4, <1>5, <1>7, <2>1
  <2>2. ASSUME file.num_ids - 1 \in SizedIndices \cup {0}, \A x \in SizedIndices : x < file.num_ids
        PROVE  max_index = file.num_ids - 1
    <3>1. file.num_ids - 1 <= max_index
      BY <1>4, <1>7, <2>2
    <3>2. max_index < file.num_ids
      BY <1>5, <1>7, <2>2
    <3> QED
      BY <1>7, <3>1, <3>2
  <2> QED
    BY <2>1, <2>2
<1> QED
  BY <1>2, <1>6, <1>8 DEF Agrees, HeaderRight

LEMMA ListingInvDecides ==
  ASSUME IInv, ListingInv
  PROVE  ListingReadOrRefused
<1> SUFFICES ASSUME IsListing
             PROVE  /\ pc = "returned" => HeaderRight /\ \A i \in Words : ops[Place(i)] = Request(i)
                    /\ pc \in {"exit1", "aborted", "crashed"} => ~HeaderRight
  BY DEF ListingReadOrRefused
<1>1. Types /\ InPlace /\ Outcome
  BY DEF IInv, ListingInv
<1>2. ASSUME pc = "returned"
      PROVE  HeaderRight /\ \A i \in Words : ops[Place(i)] = Request(i)
  <2>1. pos = Len(file.tokens) /\ Agrees
    BY <1>1, <1>2 DEF Outcome
  <2>2. HeaderRight /\ Passed = Words
    BY <2>1, AgreesIsHeaderRight
  <2>3. ASSUME NEW i \in Words
        PROVE  Place(i) < file.num_ops
    <3> DEFINE S == {j \in Words : j < i}
    <3>1. i \in Nat
      BY <1>1, WordsFacts
    <3>2. S \in SUBSET Words /\ i \notin S
      BY <3>1
    <3>3. S # Words
      BY <3>2
    <3>4. /\ Cardinality(S) \in Nat /\ Cardinality(Words) \in Nat
          /\ Cardinality(S) <= Cardinality(Words) /\ Cardinality(S) # Cardinality(Words)
      BY <1>1, <3>2, <3>3, WordsFacts, FS_Subset
    <3> HIDE DEF S
    <3>5. Cardinality(S) < Cardinality(Words)
      BY <3>4
    <3> QED
      BY <2>2, <3>5 DEF HeaderRight, Place, S
  <2> QED
    BY <1>1, <2>2, <2>3 DEF InPlace
<1>3. ASSUME pc \in {"exit1", "aborted", "crashed"}
      PROVE  ~HeaderRight
  <2>1. CASE pc = "aborted"
    BY <1>1, <2>1, AgreesIsHeaderRight DEF Outcome
  <2>2. CASE pc = "crashed"
    <3>1. op_index > file.num_ops /\ op_index = Cardinality(Passed)
      BY <1>1, <2>2 DEF Outcome, InPlace
    <3>2. Passed \in SUBSET Words
      BY DEF Passed
    <3>3. /\ Cardinality(Passed) <= Cardinality(Words)
          /\ Cardinality(Passed) \in Nat /\ Cardinality(Words) \in Nat
      BY <1>1, <3>2, WordsFacts, FS_Subset
    <3>4. file.num_ops \in Nat
      BY <1>1, FileTypes
    <3> QED
      BY <3>1, <3>3, <3>4 DEF HeaderRight
  <2> QED
    BY <1>1, <1>3, <2>1, <2>2 DEF Outcome
<1> QED
  BY <1>2, <1>3

\* Of every listing, of any length and with any header, read_trace returns the
\* requests as they stand if the header is right, and refuses it otherwise: also
\* when the requests written behind the array went unnoticed so far.
THEOREM ListingsAreDecided == Spec => []ListingReadOrRefused
<1>1. IInv /\ ListingInv => ListingReadOrRefused
  BY ListingInvDecides
<1>2. IInv /\ ListingInv /\ [Next]_vars => ListingInv'
  BY StepListing
<1> QED
  BY <1>1, <1>2, InitListing, InitIInv, StepIInv, PTL DEF Spec

-----------------------------------------------------------------------------
(* main up to a trace record *)

\* What main does around it leaves read_trace as it is: whatever holds of
\* read_trace alone holds in the program.
THEOREM ProgramReadsAsSpecified == ReadTracesSpec => Spec
<1>1. ReadTracesInit => Init
  BY DEF ReadTracesInit
<1>2. [ReadTracesNext]_<<vars, main_vars>> => [Next]_vars
  BY DEF ReadTracesNext, Parse, OpenFails, Read, Gone
<1> QED
  BY <1>1, <1>2, PTL DEF ReadTracesSpec, Spec

\* In the program, too, a record that read_trace returns matches its header.
THEOREM ReadTracesHeaderHolds == ReadTracesSpec => []ReturnedMatchesHeader
  BY ProgramReadsAsSpecified, HeaderHolds

\* In the program, too, a listing is read as it stands or refused.
THEOREM ReadTracesDecidesListings == ReadTracesSpec => []ListingReadOrRefused
  BY ProgramReadsAsSpecified, ListingsAreDecided

\* The choice of the trace files while the options are read, and after
Chosen ==
  IF asked_file # ""
  THEN tracefiles = asked_file /\ tracedir = "./" /\ num_tracefiles = 1
  ELSE /\ tracedir = IF asked_dir # "" THEN asked_dir ELSE TRACEDIR
       /\ main_pc \in {"options", "team"} => tracefiles = "" /\ num_tracefiles = 0
       /\ main_pc = "loop" => tracefiles = DEFAULT_TRACEFILES

LEMMA OptionKeepsChosen ==
  ASSUME Chosen, Option
  PROVE  Chosen'
<1>1. main_pc = "options"
  BY DEF Option
<1>2. ASSUME NEW name \in Names, opt_f(name)
      PROVE  Chosen'
  <2>1. name # ""
    BY ReadTracesAssumption
  <2> QED
    BY <1>2, <2>1 DEF opt_f, Chosen
<1>3. ASSUME NEW dir \in Dirs, opt_t(dir)
      PROVE  Chosen'
  <2>1. dir # ""
    BY ReadTracesAssumption
  <2>2. /\ UNCHANGED <<tracefiles, num_tracefiles, main_pc, asked_file>>
        /\ asked_dir' = dir /\ tracedir' = IF num_tracefiles = 1 THEN tracedir ELSE dir
    BY <1>3 DEF opt_t
  <2>3. CASE asked_file # ""
    BY <2>2, <2>3 DEF Chosen
  <2>4. CASE asked_file = ""
    <3>1. tracefiles = "" /\ num_tracefiles = 0
      BY <1>1, <2>4 DEF Chosen
    <3>2. num_tracefiles # 1
      <4>1. 0 # 1
        OBVIOUS
      <4> QED
        BY <3>1, <4>1, Zenon
    <3>3. tracedir' = dir
      BY <2>2, <3>2
    <3>4. /\ tracefiles' = "" /\ num_tracefiles' = 0
          /\ main_pc' = "options" /\ asked_file' = "" /\ asked_dir' = dir
      BY <1>1, <2>2, <2>4, <3>1
    <3> QED
      BY <2>1, <3>3, <3>4 DEF Chosen
  <2> QED
    BY <2>3, <2>4
<1>4. CASE opt_a \/ opt_l \/ opt_gvV
  BY <1>4 DEF opt_a, opt_l, opt_gvV, Chosen, files, asked
<1>5. CASE usage
  BY <1>5 DEF usage, Chosen, files, asked
<1> QED
  BY <1>2, <1>3, <1>4, <1>5 DEF Option

LEMMA StepChosen == Chosen /\ [ReadTracesNext]_<<vars, main_vars>> => Chosen'
<1> SUFFICES ASSUME Chosen, [ReadTracesNext]_<<vars, main_vars>>
             PROVE  Chosen'
  OBVIOUS
<1>1. CASE Option
  BY <1>1, OptionKeepsChosen
<1>2. CASE NoMoreOptions
  BY <1>2 DEF NoMoreOptions, Chosen, files, asked
<1>3. CASE Setup
  BY <1>3 DEF Setup, Chosen, files, asked
<1>4. CASE OpenFails
  BY <1>4 DEF OpenFails, Chosen, files, asked
<1>5. CASE UNCHANGED main_vars
  BY <1>5 DEF main_vars, Chosen, files, asked
<1> QED
  BY <1>1, <1>2, <1>3, <1>4, <1>5 DEF ReadTracesNext, Parse, MainNext, Read, Gone

\* The trace files that main reads are those that the options ask for, whatever
\* their order and number (mdriver.c, the cases f and t of main's switch).
THEOREM OptionsAreObeyed == ReadTracesSpec => []AskedIsRead
<1>1. ReadTracesInit => Chosen
  BY DEF ReadTracesInit, MainInit, Chosen
<1>2. Chosen => AskedIsRead
  BY DEF Chosen, AskedIsRead
<1> QED
  BY <1>1, <1>2, StepChosen, PTL DEF ReadTracesSpec
=============================================================================
