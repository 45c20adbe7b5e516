----------------------------- MODULE Breakpoints -----------------------------
(***************************************************************************)
(* breakpoints.min.js: handlers that run when a media query on the width   *)
(* of the window becomes true.  This module holds the list of events; what *)
(* the handlers do belongs to the module that registers them.              *)
(*                                                                         *)
(* Widths are counted in parts of a pixel: a window that is zoomed has a   *)
(* width between two whole pixels.                                         *)
(***************************************************************************)
EXTENDS Naturals, Sequences

CONSTANTS
  Pixel   \* parts of a pixel

ASSUME BreakpointsAssumption == Pixel \in Nat \ {0}

VARIABLES
  events   \* t.events: sequence of [query, state], in the order of on()

\* The media queries of the site, from the bounds that main.js gives to
\* breakpoints(): medium is 737 to 980 px, small is 481 to 736 px.
active(query, width) ==
  CASE query = "<=medium" -> width <= 980 * Pixel
    [] query = ">medium" -> width >= 981 * Pixel
    [] query = "<=small" -> width <= 736 * Pixel

\* on: what is pushed is not yet true, also if the handler is run at once.
on(queries) == events' = [i \in DOMAIN queries |-> [query |-> queries[i], state |-> FALSE]]

\* poll: the handlers of these events run, in their order.
Rising(width) ==
  {i \in DOMAIN events : active(events[i].query, width) /\ ~events[i].state}

poll_Sticky(width) ==
  events' = [i \in DOMAIN events |->
               [events[i] EXCEPT !.state = @ \/ active(events[i].query, width)]]
poll(width) ==
  events' = [i \in DOMAIN events |->
               [events[i] EXCEPT !.state = active(events[i].query, width)]]
=============================================================================
