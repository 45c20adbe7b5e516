----------------------------- MODULE Placeholder -----------------------------
(***************************************************************************)
(* $.placeholder of util.js, for browsers without placeholders: the hint   *)
(* of a field is put into the field itself as its value.                   *)
(*                                                                         *)
(* The form has a text field, whose class polyfill-placeholder marks that  *)
(* its value is the hint, and a password field, for which a twin of type   *)
(* text stands in while it is empty.  Of the other fields a select and a   *)
(* hidden one show what a reset does to them.  A submission may be         *)
(* prevented, or open in another window: the form stays on the page.       *)
(***************************************************************************)

CONSTANT FirstOptionOffered   \* the select has the first option of the document

ASSUME PlaceholderAssumption == FirstOptionOffered \in BOOLEAN

VARIABLES
  entry,        \* values of the fields "text" and "pwd"
  marked,       \* the text field has the class
  shown,        \* those of "pwd" and "twin" that are not hidden
  twin_named,   \* the twin has its name <name>-polyfill-field
  label,        \* value of the twin
  focus,        \* field that has the focus, or "none"
  others,       \* values of "select" and "hidden"
  meant,        \* history: what the user entered into "text" and "pwd"
  caught,       \* history: the last reset came while the text field had the focus
  submitted     \* history: the form has been submitted

form == <<entry, marked, shown, twin_named, label, focus, others, meant, caught, submitted>>

\* Values: the hint of a field, a word, and a word appended to the hint.
Empty == ""
Fields == {"text", "pwd"}

hint_if_empty(v) == IF v = Empty THEN "hint" ELSE v
empty_if_hint(v) == IF v = "hint" THEN Empty ELSE v

\* The password field is hidden and, if its name finds it, the twin is shown.
swap_NotShown == shown \ {"pwd"}
swap == (shown \ {"pwd"}) \cup (IF twin_named THEN {"twin"} ELSE {})

-----------------------------------------------------------------------------
(* Events of the fields *)

blur ==
  /\ focus # "none" /\ focus' = "none"
  /\ IF focus = "text" /\ entry["text"] = Empty
     THEN marked' = TRUE /\ entry' = [entry EXCEPT !["text"] = "hint"]
     ELSE UNCHANGED <<marked, entry>>
  /\ shown' = IF focus = "pwd" /\ entry["pwd"] = Empty THEN swap ELSE shown
  /\ UNCHANGED <<twin_named, label, others, meant, caught, submitted>>

focus_text ==
  /\ focus = "none" /\ focus' = "text"
  /\ marked' = (marked /\ entry["text"] # "hint")
  /\ entry' = [entry EXCEPT !["text"] = empty_if_hint(@)]
  /\ UNCHANGED <<shown, twin_named, label, others, meant, caught, submitted>>

focus_pwd ==
  /\ focus = "none" /\ "pwd" \in shown /\ focus' = "pwd"
  /\ UNCHANGED <<entry, marked, shown, twin_named, label, others, meant, caught, submitted>>

\* The twin hands the focus on to the password field, which it finds by its own
\* name; without a name the selector is an error and the focus stays.
focus_twin ==
  /\ focus = "none" /\ "twin" \in shown
  /\ IF twin_named THEN shown' = {"pwd"} /\ focus' = "pwd"
     ELSE focus' = "twin" /\ UNCHANGED shown
  /\ UNCHANGED <<entry, marked, twin_named, label, others, meant, caught, submitted>>

\* A key pressed in the twin is dropped, and its label with it.
keypress_twin ==
  /\ focus = "twin" /\ label' = Empty
  /\ UNCHANGED <<entry, marked, shown, twin_named, focus, others, meant, caught, submitted>>

\* The user replaces the value of a field, or appends to the hint it shows.
Edit ==
  /\ focus \in {"text"} \cup (shown \cap {"pwd"})
  /\ \E v \in {Empty, "word", "hint"} :
       /\ meant' = [meant EXCEPT ![focus] = v]
       /\ \/ entry' = [entry EXCEPT ![focus] = v]
          \/ /\ v = "word" /\ focus = "text" /\ marked /\ entry["text"] = "hint"
             /\ entry' = [entry EXCEPT !["text"] = "hint+word"]
  /\ UNCHANGED <<marked, shown, twin_named, label, focus, others, caught, submitted>>

-----------------------------------------------------------------------------
(* Events of the form *)

\* What a submission sends; fields without a name are not sent.
sends_Hints == entry
sends == [f \in Fields |-> empty_if_hint(entry[f])]

submit ==
  /\ entry' = sends
  /\ marked' = (marked /\ entry["text"] # "hint")
  /\ label' = empty_if_hint(label) /\ twin_named' = FALSE
  /\ submitted' = TRUE
  /\ UNCHANGED <<shown, focus, others, meant, caught>>

\* The handler takes the place of the browser's reset.  There is no attribute
\* defaultValue: val(undefined) empties a field, attr("checked", undefined)
\* leaves a checkbox alone.
reset_Unmarked ==
  /\ entry' = [f \in Fields |-> Empty] /\ marked' = TRUE
  /\ label' = "hint" /\ shown' = swap
  /\ others' = [select |-> IF FirstOptionOffered THEN "first" ELSE Empty, hidden |-> Empty]
  /\ meant' = [f \in Fields |-> Empty] /\ caught' = (focus = "text")
  /\ UNCHANGED <<twin_named, focus, submitted>>
reset ==
  /\ entry' = [text |-> hint_if_empty(Empty), pwd |-> Empty] /\ marked' = TRUE
  /\ label' = hint_if_empty(Empty) /\ shown' = swap
  /\ others' = [select |-> IF FirstOptionOffered THEN "first" ELSE Empty, hidden |-> Empty]
  /\ meant' = [f \in Fields |-> Empty] /\ caught' = (focus = "text")
  /\ UNCHANGED <<twin_named, focus, submitted>>

\* The fields may come with values, the text field also with its hint.
FormInit ==
  /\ \E t \in {Empty, "hint", "word"}, p \in {Empty, "word"} :
       /\ entry = [text |-> hint_if_empty(t), pwd |-> p]
       /\ marked = (t # "word")
       /\ shown = IF p = Empty THEN {"twin"} ELSE {"pwd"}
       /\ meant = [text |-> empty_if_hint(t), pwd |-> p]
  /\ twin_named = TRUE /\ label = "hint" /\ focus = "none"
  /\ others = [select |-> "chosen", hidden |-> "word"]
  /\ caught = FALSE /\ submitted = FALSE

FormNext ==
  \/ blur \/ focus_text \/ focus_pwd \/ focus_twin \/ keypress_twin \/ Edit
  \/ submit \/ reset

-----------------------------------------------------------------------------
(* Properties *)

\* Whenever the form is submitted it sends what the user entered, through any
\* sequence of focus changes, resets and earlier submissions: never a hint, at
\* the cost of an entry that is the same as the hint.  Only a reset that comes
\* while the user is in the text field leaves a hint behind that he may append to.
SendsWhatIsMeant ==
  \A f \in Fields :
    \/ sends[f] = empty_if_hint(meant[f])
    \/ f = "text" /\ caught /\ sends[f] = "hint+word"

\* A hidden password field is empty, and its twin is there in its place: until
\* the form has been submitted.  (The handler of submit takes the twin's name
\* away, by which the others find it.)
TwinStandsIn ==
  /\ "pwd" \notin shown => entry["pwd"] = Empty
  /\ shown # {"pwd", "twin"}
  /\ shown = {} => submitted
=============================================================================
