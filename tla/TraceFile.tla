------------------------------ MODULE TraceFile ------------------------------
(***************************************************************************)
(* read_trace of mdriver.c: how the text of a trace file becomes a trace   *)
(* record, and which files it refuses.                                     *)
(*                                                                         *)
(* A file is the two numbers of its header that are used and the tokens    *)
(* after it: a word (only its first character counts) or a number.         *)
(* Conversions of fscanf skip white space, so lines mean nothing: a number *)
(* that is missing leaves index or size as it was, and one too many is     *)
(* taken for the next request.                                             *)
(***************************************************************************)
EXTENDS Integers, Sequences, FiniteSets

CONSTANTS
  Files,    \* the files that may be read
  Garbage   \* what an uninitialised variable may hold

num(n) == <<"num", n>>
word(c) == <<"word", c>>
IsNum(t) == t[1] = "num"

ASSUME TraceFileAssumption ==
  /\ \A f \in Files :
       /\ f.num_ids \in Nat \ {0} /\ f.num_ops \in Nat
       /\ f.tokens \in Seq(({"num"} \X Nat) \cup ({"word"} \X {"a", "r", "f", "x"}))
  /\ Garbage \subseteq Nat

VARIABLES
  file,                 \* the file that is read
  pos,                  \* tokens consumed
  index, size, max_index, op_index,   \* locals of read_trace
  ops,                  \* trace->ops, from 0
  pc                    \* "reading"; "returned"; "exit1", "aborted", "crashed"

vars == <<file, pos, index, size, max_index, op_index, ops, pc>>

MaxOf(a, b) == IF a > b THEN a ELSE b

Unwritten == [type |-> "none", index |-> 0, size |-> 0]

-----------------------------------------------------------------------------
(* Scanning.  n is the number of tokens consumed so far. *)

AtNum(n) == n < Len(file.tokens) /\ IsNum(file.tokens[n + 1])
NumAt(n) == file.tokens[n + 1][2]

AtWord(c) == pos < Len(file.tokens) /\ file.tokens[pos + 1] = word(c)

\* fscanf(tracefile, "%u %u", &index, &size): the second conversion is not tried
\* when the first one fails.
ScanIndexAndSize ==
  CASE AtNum(pos + 1) /\ AtNum(pos + 2) ->
         index' = NumAt(pos + 1) /\ size' = NumAt(pos + 2) /\ pos' = pos + 3
    [] AtNum(pos + 1) /\ ~AtNum(pos + 2) ->
         index' = NumAt(pos + 1) /\ size' = size /\ pos' = pos + 2
    [] OTHER -> UNCHANGED <<index, size>> /\ pos' = pos + 1

ScanIndex_IntoSize ==
  /\ IF AtNum(pos + 1)
     THEN size' = NumAt(pos + 1) /\ pos' = pos + 2
     ELSE UNCHANGED size /\ pos' = pos + 1
  /\ UNCHANGED index
\* fscanf(tracefile, "%ud", &index)
ScanIndex ==
  /\ IF AtNum(pos + 1)
     THEN index' = NumAt(pos + 1) /\ pos' = pos + 2
     ELSE UNCHANGED index /\ pos' = pos + 1
  /\ UNCHANGED size

-----------------------------------------------------------------------------
(* read_trace *)

\* Write the request to ops[op_index].  Behind the end of the array this may go
\* unnoticed or end the process.
Store(o) ==
  /\ op_index' = op_index + 1
  /\ IF op_index < file.num_ops
     THEN ops' = [ops EXCEPT ![op_index] = o] /\ UNCHANGED pc
     ELSE UNCHANGED ops /\ pc' \in {pc, "crashed"}

Raise_ToLast == max_index' = index'
Raise == max_index' = MaxOf(index', max_index)

\* a and r
ReadSized(c, type) ==
  /\ pc = "reading" /\ AtWord(c)
  /\ ScanIndexAndSize
  /\ Store([type |-> type, index |-> index', size |-> size'])
  /\ Raise
  /\ UNCHANGED file
ReadAlloc == ReadSized("a", "ALLOC")
ReadRealloc == ReadSized("r", "REALLOC")

\* f: neither the size of the request nor max_index is set.
ReadFree ==
  /\ pc = "reading" /\ AtWord("f")
  /\ ScanIndex
  /\ Store([type |-> "FREE", index |-> index', size |-> 0])
  /\ UNCHANGED <<file, max_index>>

\* Any other character, also a digit: exit(1)
Bogus ==
  /\ pc = "reading" /\ pos < Len(file.tokens)
  /\ ~(AtWord("a") \/ AtWord("r") \/ AtWord("f"))
  /\ pc' = "exit1"
  /\ UNCHANGED <<file, pos, index, size, max_index, op_index, ops>>

\* The assertions after the loop
Agrees_AtMost == max_index = file.num_ids - 1 /\ op_index <= file.num_ops
Agrees == max_index = file.num_ids - 1 /\ file.num_ops = op_index

EndOfFile ==
  /\ pc = "reading" /\ pos = Len(file.tokens)
  /\ pc' = IF Agrees THEN "returned" ELSE "aborted"
  /\ UNCHANGED <<file, pos, index, size, max_index, op_index, ops>>

Ended == pc # "reading" /\ UNCHANGED vars

Init ==
  /\ file \in Files
  /\ pos = 0 /\ index = 0 /\ size \in Garbage
  /\ max_index = 0 /\ op_index = 0
  /\ ops = [k \in 0 .. file.num_ops - 1 |-> Unwritten]
  /\ pc = "reading"

Next == ReadAlloc \/ ReadRealloc \/ ReadFree \/ Bogus \/ EndOfFile \/ Ended

Spec == Init /\ [][Next]_vars

-----------------------------------------------------------------------------
(* Properties *)

Requests == [type : {"ALLOC", "REALLOC", "FREE"}, index : Nat, size : Nat]

\* A record that read_trace returns is full and as large as its header says, and
\* the largest index that a request with a size has is num_ids - 1, so that
\* blocks and block_sizes have a place for each: whatever was in the file.
ReturnedMatchesHeader ==
  pc = "returned" =>
    /\ \A k \in DOMAIN ops : ops[k] # Unwritten
    /\ \A k \in DOMAIN ops : ops[k].type # "FREE" => ops[k].index < file.num_ids
    /\ file.num_ids > 1 =>
         \E k \in DOMAIN ops : ops[k].type # "FREE" /\ ops[k].index = file.num_ids - 1

\* A listing: every a and r has two numbers, every f has one, and nothing else.
Words == {i \in DOMAIN file.tokens : ~IsNum(file.tokens[i])}
Numbers(i) == IF file.tokens[i][2] = "f" THEN 1 ELSE 2
IsListing ==
  /\ \A i \in Words : file.tokens[i][2] # "x"
  /\ \A i \in Words : \A j \in 1 .. Numbers(i) :
       i + j \in DOMAIN file.tokens \ Words
  /\ DOMAIN file.tokens = UNION {i .. i + Numbers(i) : i \in Words}

\* The request that the word at i begins, and its place in the listing
Request(i) ==
  [type |-> CASE file.tokens[i][2] = "a" -> "ALLOC"
              [] file.tokens[i][2] = "r" -> "REALLOC"
              [] OTHER -> "FREE",
   index |-> file.tokens[i + 1][2],
   size |-> IF file.tokens[i][2] = "f" THEN 0 ELSE file.tokens[i + 2][2]]
Place(i) == Cardinality({j \in Words : j < i})

SizedIndices == {Request(i).index : i \in {w \in Words : file.tokens[w][2] # "f"}}

HeaderRight ==
  /\ file.num_ops = Cardinality(Words)
  /\ file.num_ids - 1 \in SizedIndices \cup {0}
  /\ \A x \in SizedIndices : x < file.num_ids

\* A listing is returned, read as it stands, request by request, if its header is
\* right, and refused if it is not: in particular one with more requests than
\* num_ops never gets past the reader.
ListingReadOrRefused ==
  IsListing =>
    /\ pc = "returned" => HeaderRight /\ \A i \in Words : ops[Place(i)] = Request(i)
    /\ pc \in {"exit1", "aborted", "crashed"} => ~HeaderRight
=============================================================================
