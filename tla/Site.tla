--------------------------------- MODULE Site ---------------------------------
(***************************************************************************)
(* main.js: what the page does when it is loaded, resized and scrolled.    *)
(* The footer moves with the width of the window, and while the window is  *)
(* wide a scroll handler shifts the background of the header.              *)
(*                                                                         *)
(* The browser runs one handler at a time, to its end.  A change of width  *)
(* takes effect at once for media queries; the resize event that tells the *)
(* page of it comes later, and one event may stand for several changes.    *)
(***************************************************************************)
EXTENDS Breakpoints, Integers

CONSTANTS
  Widths,      \* widths that the window takes
  MaxScroll    \* bound on the scroll position

ASSUME SiteAssumption == Widths \subseteq Nat /\ MaxScroll \in Nat

VARIABLES
  width, resized,      \* the window; a resize event is due
  scroll, scrolled,    \* scroll position; a scroll event is due
  loaded,              \* "parsing", "script" (main.js has run), "load" (load event)
  mobile, parallax,    \* browser.mobile; settings.parallax
  preload,             \* the body has class is-preload
  timers,              \* timeouts that are due: "preload", "touch"
  footer,              \* "main" (after it) or "header" (in it)
  scroll_handlers,     \* number of scroll.strata_parallax handlers
  background,          \* background-position of the header: a scroll position or ""
  window_margin        \* of the lightbox, or -1

window == <<width, resized, scroll, scrolled, mobile>>
page == <<footer, scroll_handlers, background>>
vars == <<window, page, events, loaded, parallax, preload, timers, window_margin>>

Unset == -1

Queries == IF parallax' THEN <<"<=medium", ">medium", "<=medium", ">medium">>
                        ELSE <<"<=medium", ">medium">>

-----------------------------------------------------------------------------
(* The handlers of main.js, by their place in events.  No two of those that  *)
(* run together (run) touch the same state.                                 *)

InsertFooter(run) ==
  footer' = IF 1 \in run THEN "main" ELSE IF 2 \in run THEN "header" ELSE footer

\* Narrow: take all scroll handlers away.  Wide: add one.
BindScroll_KeepBound(run) ==
  scroll_handlers' = IF 4 \in run THEN scroll_handlers + 1 ELSE scroll_handlers
BindScroll(run) ==
  scroll_handlers' = IF 3 \in run THEN 0
                     ELSE IF 4 \in run THEN scroll_handlers + 1 ELSE scroll_handlers

Placed(run) == IF 3 \in run THEN Unset ELSE IF 4 \in run THEN 0 ELSE background

\* A scroll event: each of n handlers writes the same.
OnScroll(n, bg) == IF n > 0 THEN scroll ELSE bg

-----------------------------------------------------------------------------
(* Events of the page *)

\* main.js runs at the end of the body, before load.
Script ==
  /\ loaded = "parsing"
  /\ loaded' = "script"
  /\ parallax' \in IF mobile THEN {FALSE} ELSE BOOLEAN   \* FALSE also in IE
  /\ timers' = IF mobile THEN timers \cup {"touch"} ELSE timers
  /\ on(Queries)
  /\ LET run == {i \in DOMAIN Queries : active(Queries[i], width)}
     IN  InsertFooter(run) /\ BindScroll(run) /\ background' = Placed(run)
  /\ UNCHANGED <<window, preload, window_margin>>

\* The handlers of load: poll; the timer; the scroll handlers; the lightbox.
Load ==
  /\ loaded = "script"
  /\ loaded' = "load"
  /\ poll(width)
  /\ InsertFooter(Rising(width)) /\ BindScroll(Rising(width))
  /\ background' = OnScroll(scroll_handlers', Placed(Rising(width)))
  /\ timers' = timers \cup {"preload"}
  /\ window_margin' = IF active("<=small", width) THEN 0 ELSE 50
  /\ UNCHANGED <<window, parallax, preload>>

\* resize (also orientationchange and fullscreenchange)
PollEvent ==
  /\ resized /\ loaded # "parsing"
  /\ resized' = FALSE
  /\ poll(width)
  /\ InsertFooter(Rising(width)) /\ BindScroll(Rising(width))
  /\ background' = Placed(Rising(width))
  /\ UNCHANGED <<width, scroll, scrolled, mobile, loaded, parallax, preload, timers, window_margin>>

ScrollEvent ==
  /\ scrolled /\ loaded # "parsing"
  /\ scrolled' = FALSE
  /\ background' = OnScroll(scroll_handlers, background)
  /\ UNCHANGED <<width, resized, scroll, mobile, footer, scroll_handlers, events, loaded,
                 parallax, preload, timers, window_margin>>

\* An event before the script has run finds no handler.
Unheard ==
  /\ loaded = "parsing" /\ (resized \/ scrolled)
  /\ resized' = FALSE /\ scrolled' = FALSE
  /\ UNCHANGED <<width, scroll, mobile, page, events, loaded, parallax, preload, timers,
                 window_margin>>

PreloadTimer ==
  /\ "preload" \in timers
  /\ preload' = FALSE /\ timers' = timers \ {"preload"}
  /\ UNCHANGED <<window, page, events, loaded, parallax, window_margin>>

ScrollTo(s) ==
  /\ scroll' = s
  /\ scrolled' = (scrolled \/ s # scroll)

\* The height fix for touch devices
TouchTimer ==
  /\ "touch" \in timers
  /\ ScrollTo(IF scroll < MaxScroll THEN scroll + 1 ELSE scroll)
  /\ timers' = timers \ {"touch"}
  /\ UNCHANGED <<width, resized, mobile, page, events, loaded, parallax, preload, window_margin>>

-----------------------------------------------------------------------------
(* The reader *)

Resize ==
  /\ width' \in Widths \ {width}
  /\ resized' = TRUE
  /\ UNCHANGED <<scroll, scrolled, mobile, page, events, loaded, parallax, preload, timers,
                 window_margin>>

Scroll ==
  /\ \E s \in 0 .. MaxScroll : s # scroll /\ ScrollTo(s)
  /\ UNCHANGED <<width, resized, mobile, page, events, loaded, parallax, preload, timers,
                 window_margin>>

Init ==
  /\ width \in Widths /\ mobile \in BOOLEAN
  /\ resized = FALSE /\ scroll = 0 /\ scrolled = FALSE
  /\ loaded = "parsing" /\ parallax = TRUE /\ preload = TRUE /\ timers = {}
  /\ events = <<>>
  /\ footer = "main" /\ scroll_handlers = 0 /\ background = Unset
  /\ window_margin = Unset

Browser == Script \/ Load \/ PollEvent \/ ScrollEvent \/ Unheard \/ PreloadTimer \/ TouchTimer
Next == Browser \/ Resize \/ Scroll

Spec == Init /\ [][Next]_vars

\* The browser delivers what is due.
FairSpec ==
  /\ Spec
  /\ WF_vars(Script) /\ WF_vars(Load) /\ WF_vars(PollEvent)
  /\ WF_vars(ScrollEvent) /\ WF_vars(PreloadTimer)

-----------------------------------------------------------------------------
(* Properties *)

\* The script has run and no resize event is due.
Settled == loaded # "parsing" /\ ~resized

\* When the page has caught up with the window, the footer is where the width
\* wants it.
FooterFollowsWidth ==
  Settled =>
    /\ active("<=medium", width) => footer = "main"
    /\ active(">medium", width) => footer = "header"

\* Narrow windows have no scroll handler and no background position left over.
\* Wide ones (that are not mobile) have a handler, and handlers do not pile up over
\* any number of resizes: there may be two, since on() runs the handler when main.js
\* registers it, without noting that it did, and poll() runs it again on load.
\* (For windows of whole pixels.)
ParallaxOnlyWhenWide ==
  Settled =>
    /\ active("<=medium", width) => scroll_handlers = 0 /\ background = Unset
    /\ active(">medium", width) /\ parallax => scroll_handlers \in 1 .. 2

\* Resizing that stops is always followed by a footer in the right place.
FooterSettles ==
  \A f \in {"main", "header"} :
    <>[](active(IF f = "main" THEN "<=medium" ELSE ">medium", width)) => <>[](footer = f)
=============================================================================
