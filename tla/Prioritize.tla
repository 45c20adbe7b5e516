------------------------------ MODULE Prioritize ------------------------------
(***************************************************************************)
(* $.prioritize of util.js: moves elements to the top of their parent, and *)
(* back.  For the way back each moved element remembers the element that   *)
(* stood before it.                                                        *)
(*                                                                         *)
(* The page names the elements by a selector, and then they are stepped    *)
(* through in the order they have in the document at the time of the call, *)
(* or by a jQuery object made once, and then in the order of that object.  *)
(* The elements have one parent; several parents do not interact.          *)
(***************************************************************************)
EXTENDS Integers, Sequences, SequencesExt

CONSTANTS
  Elements,     \* the children of one parent
  Selected,     \* those that the page prioritizes
  Unmarked      \* no data: not moved

ASSUME PrioritizeAssumption ==
  IsFiniteSet(Elements) /\ Selected \subseteq Elements /\ Unmarked \notin Elements

VARIABLES
  children,     \* of the parent, in the order of the document
  key,          \* the data "__prioritize": the element remembered, or Unmarked
  named,        \* how the page names Selected: "selector" or "object"
  original      \* history: children when the page was loaded

order_vars == <<children, key, named, original>>

Position(cs, x) == CHOOSE i \in DOMAIN cs : cs[i] = x

prependTo(cs, x) == <<x>> \o RemoveAt(cs, Position(cs, x))

insertAfter(cs, x, p) ==
  LET rest == RemoveAt(cs, Position(cs, x)) IN InsertAt(rest, Position(rest, p) + 1, x)

-----------------------------------------------------------------------------
\* The body of each() for x, in the state s = [children, key]
MoveUp_NotSecond(s, x) ==
  IF s.children[1] = x THEN s
  ELSE [children |-> <<s.children[1], x>> \o Remove(Tail(s.children), x),
        key |-> [s.key EXCEPT ![x] = s.children[Position(s.children, x) - 1]]]
MoveUp(s, x) ==
  IF s.children[1] = x THEN s
  ELSE [children |-> prependTo(s.children, x),
        key |-> [s.key EXCEPT ![x] = s.children[Position(s.children, x) - 1]]]

MoveBack_Before(s, x) ==
  LET rest == Remove(s.children, x)
  IN  [children |-> InsertAt(rest, Position(rest, s.key[x]), x),
       key |-> [s.key EXCEPT ![x] = Unmarked]]
MoveBack(s, x) ==
  [children |-> insertAfter(s.children, x, s.key[x]),
   key |-> [s.key EXCEPT ![x] = Unmarked]]

Step(s, x, condition) ==
  IF (s.key[x] = Unmarked) # condition THEN s
  ELSE IF condition THEN MoveUp(s, x) ELSE MoveBack(s, x)

\* The elements of the parent in the order in which each() comes to those that
\* are selected
order == IF named = "object" THEN original ELSE children

prioritize(condition) ==
  LET after[n \in 0 .. Len(order)] ==
        IF n = 0 THEN [children |-> children, key |-> key]
        ELSE IF order[n] \in Selected THEN Step(after[n - 1], order[n], condition)
        ELSE after[n - 1]
      s == after[Len(order)]
  IN  /\ children' = s.children /\ key' = s.key
      /\ UNCHANGED <<named, original>>

PrioritizeInit ==
  /\ children \in SetToSeqs(Elements) /\ original = children
  /\ key = [x \in Elements |-> Unmarked]
  /\ named \in {"selector", "object"}

PrioritizeNext == \E condition \in BOOLEAN : prioritize(condition)

PrioritizeSpec == PrioritizeInit /\ [][PrioritizeNext]_order_vars

-----------------------------------------------------------------------------
(* Properties *)

Marked == {x \in Elements : key[x] # Unmarked}

\* Whatever the order of the calls and of the elements in them, the elements that
\* are marked as moved are the first ones, and an element that no call names
\* never changes its place among the other such elements.  None is lost.
MovedOnTop ==
  /\ children \in SetToSeqs(Elements)
  /\ \A i, j \in DOMAIN children : i < j /\ children[j] \in Marked => children[i] \in Marked
  /\ \A x, y \in Elements \ Selected :
       Position(children, x) < Position(children, y) <=> Position(original, x) < Position(original, y)

\* When nothing is marked any more every element is back at its original location
\* (util.js:522-524).
BackRestores == Marked = {} => children = original

\* That holds when the elements are named by a selector: then the way back steps
\* through them in the reverse order of the way up.
SelectorBackRestores == named = "selector" => BackRestores
=============================================================================
