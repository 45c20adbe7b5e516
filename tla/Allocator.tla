------------------------------ MODULE Allocator ------------------------------
(***************************************************************************)
(* What a malloc package promises to its caller, whatever its heap looks   *)
(* like inside: the contract that mm.h's four functions implement and that *)
(* mdriver.c tests.  A block is a payload range with contents.  The        *)
(* package places payloads where it likes, but aligned, inside the heap    *)
(* and apart from each other; it never touches the contents of a payload   *)
(* it has handed out; and realloc carries over as much of the old contents *)
(* as fits.  The contents of a fresh payload are arbitrary.                *)
(*                                                                         *)
(* The actions constrain blocks', data' and ret' rather than enumerate     *)
(* them: the module is an obligation for implementations.                  *)
(***************************************************************************)
EXTENDS Integers

CONSTANTS
  Ids,        \* the caller's names for its blocks
  Sizes,      \* the sizes it asks for
  Bytes,      \* what it writes into payloads
  Addr,       \* addresses of the heap
  ALIGNMENT,
  NULL

VARIABLES
  blocks,     \* Ids -> [ptr, size], ptr = NULL for a name that holds no block
  data,       \* Ids -> contents of the payload, indexed from 0
  ret         \* what the last malloc or realloc returned

vars == <<blocks, data, ret>>

NoBlock == [ptr |-> NULL, size |-> 0]
Live(i) == blocks[i].ptr # NULL
Payload(b) == b.ptr .. b.ptr + b.size - 1

Init ==
  /\ blocks = [i \in Ids |-> NoBlock]
  /\ data = [i \in Ids |-> <<>>]
  /\ ret = NULL

\* The payload b may be given to i: it is apart from every other live one.
Placed(i, b) ==
  /\ b.ptr % ALIGNMENT = 0
  /\ Payload(b) \subseteq Addr
  /\ \A j \in Ids \ {i} : Live(j) => Payload(b) \cap Payload(blocks[j]) = {}

OthersKept(i) == \A j \in Ids \ {i} : data'[j] = data[j]

Give(i, size) ==
  /\ ret' # NULL
  /\ blocks' = [blocks EXCEPT ![i] = [ptr |-> ret', size |-> size]]
  /\ Placed(i, [ptr |-> ret', size |-> size])
  /\ DOMAIN data' = Ids
  /\ DOMAIN data'[i] = 0 .. size - 1
  /\ OthersKept(i)

Refuse == ret' = NULL /\ UNCHANGED <<blocks, data>>

Malloc(i, size) ==
  /\ ~Live(i)
  /\ Give(i, size) \/ Refuse

Realloc(i, size) ==
  /\ Live(i)
  /\ \/ /\ Give(i, size)
        /\ \A k \in 0 .. size - 1 : k < blocks[i].size => data'[i][k] = data[i][k]
     \/ Refuse

Free(i) ==
  /\ Live(i)
  /\ blocks' = [blocks EXCEPT ![i] = NoBlock]
  /\ data' = [data EXCEPT ![i] = <<>>]
  /\ UNCHANGED ret

\* The caller fills its payload.
Fill(i, b) ==
  /\ Live(i)
  /\ data' = [data EXCEPT ![i] = [k \in 0 .. blocks[i].size - 1 |-> b]]
  /\ UNCHANGED <<blocks, ret>>

\* The package is initialised again and all blocks are gone.
Reset ==
  /\ blocks' = [i \in Ids |-> NoBlock]
  /\ data' = [i \in Ids |-> <<>>]
  /\ UNCHANGED ret

Next ==
  \/ \E i \in Ids, size \in Sizes : Malloc(i, size) \/ Realloc(i, size)
  \/ \E i \in Ids, b \in Bytes : Fill(i, b)
  \/ \E i \in Ids : Free(i)
  \/ Reset

Spec == Init /\ [][Next]_vars
=============================================================================
