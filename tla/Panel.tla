-------------------------------- MODULE Panel --------------------------------
(***************************************************************************)
(* $.panel of util.js: a panel that a link opens and closes, and that most *)
(* other events hide.  What follows a hide, the reset of the panel's       *)
(* scroll position and of its form (Placeholder), and the redirect to a    *)
(* link clicked in the panel, is left to timers that nothing cancels.      *)
(*                                                                         *)
(* The browser runs one handler at a time.  Time passes in units, of which *)
(* the 10 ms between reset and redirect are one; a timeout of 0 also takes *)
(* a moment, and counts as one unit.  Timers fire when they are due; of    *)
(* two that are due, one that was set earlier with no longer a timeout     *)
(* fires first.                                                            *)
(*                                                                         *)
(* A redirect only tells the window what to load.  The page stays, and its *)
(* timers with it, until what is loaded replaces it.                       *)
(*                                                                         *)
(* What is not modelled: links to places in this page, and the cancelling  *)
(* of touchmove at the ends of the panel's scroll range.                   *)
(***************************************************************************)
EXTENDS Placeholder, Integers, Sequences, SequencesExt

CONSTANTS
  Configs,       \* records with the fields of config
  Links,         \* href # of the links in the panel, all to other pages
  BlankLinks,    \* those with target _blank
  Moves,         \* <<dx, dy>>: how far a finger is from where it touched, in pixels
  NoLink,
  MaxTimers      \* bound on the timers pending

ASSUME PanelAssumption ==
  /\ BlankLinks \subseteq Links /\ NoLink \notin Links
  /\ \A c \in Configs : c.delay \in Nat \ {0}
  /\ Moves \subseteq Int \X Int /\ MaxTimers \in Nat

VARIABLES
  config,        \* of the panel
  visible,       \* the panel has visibleClass
  scrolled,      \* it is not at the top
  touching,      \* touchPosX and touchPosY are set
  timers,        \* pending, in the order in which they were set
  tap,           \* where a click is due that follows a tap outside the panel
  loading,       \* the link that the window is loading, or NoLink
  location,      \* the link whose page has replaced this one, or NoLink
  windows,       \* the links opened in windows of their own
  \* history:
  shown_for,     \* units of time since the panel became visible, up to delay + 1
  hidden_by,     \* what hid it last: "_hide" or "link"
  last_link      \* the last link clicked in the panel, of those not blank

panel == <<config, visible, scrolled, touching, timers>>
browser == <<loading, windows>>
history == <<shown_for, hidden_by, last_link>>
vars == <<form, panel, tap, browser, location, history>>

\* Nothing happens on a page that has been replaced.
PageStays == location = NoLink /\ UNCHANGED location

Clock(passed) ==
  shown_for' = IF ~(visible /\ visible') THEN 0
               ELSE IF shown_for + passed > config.delay THEN config.delay + 1
               ELSE shown_for + passed

-----------------------------------------------------------------------------
(* Timers *)

Timer(what, timeout, link) == [what |-> what, left |-> timeout, link |-> link]
Pending(what) == {i \in DOMAIN timers : timers[i].what = what}

due(i) ==
  /\ timers[i].left = 0
  /\ \A j \in 1 .. i - 1 : timers[j].what = "redirect" /\ timers[i].what = "hide"

Tick ==
  /\ PageStays
  /\ \A i \in DOMAIN timers : timers[i].left > 0
  /\ timers' = [i \in DOMAIN timers |-> [timers[i] EXCEPT !.left = @ - 1]]
  /\ UNCHANGED <<form, config, visible, scrolled, touching, tap, browser, hidden_by, last_link>>
  /\ Clock(1)

\* The post-hide timer.  It does not look whether the panel is still hidden.
post_hide(i) ==
  /\ PageStays
  /\ timers[i].what = "hide" /\ due(i)
  /\ timers' = RemoveAt(timers, i)
  /\ scrolled' = (scrolled /\ ~config.resetScroll)
  /\ IF config.resetForms THEN reset ELSE UNCHANGED form
  /\ UNCHANGED <<config, visible, touching, tap, browser, hidden_by, last_link>>
  /\ Clock(0)

\* window.open, or window.location.href, which ends what the window was loading.
goto_SameWindow(l) == loading' = l /\ UNCHANGED windows
goto(l) ==
  IF l \in BlankLinks THEN windows' = windows \cup {l} /\ UNCHANGED loading
                      ELSE loading' = l /\ UNCHANGED windows

redirect(i) ==
  /\ PageStays
  /\ timers[i].what = "redirect" /\ due(i)
  /\ timers' = RemoveAt(timers, i)
  /\ goto(timers[i].link)
  /\ UNCHANGED <<form, config, visible, scrolled, touching, tap, hidden_by, last_link>>
  /\ Clock(0)

\* What was loading has arrived.  The page goes, and what it had pending with it.
Unload ==
  /\ location = NoLink /\ loading # NoLink
  /\ location' = loading /\ loading' = NoLink
  /\ timers' = <<>>
  /\ UNCHANGED <<form, config, visible, scrolled, touching, tap, windows, history>>

PostHide == \E i \in DOMAIN timers : post_hide(i)
Redirect == \E i \in DOMAIN timers : redirect(i)

-----------------------------------------------------------------------------
(* _hide, and the events that call it *)

hide_timers_Late ==
  IF visible THEN <<Timer("hide", config.delay + 1, NoLink)>> ELSE <<>>
hide_timers_None == <<>>
hide_timers == IF visible THEN <<Timer("hide", config.delay, NoLink)>> ELSE <<>>

\* The panel is hidden, and the timers follow those of _hide.
_hide(more) ==
  /\ visible' = FALSE
  /\ timers' = timers \o hide_timers \o more
  /\ Len(timers') <= MaxTimers
  /\ hidden_by' = IF visible THEN "_hide" ELSE hidden_by
  /\ Clock(0)

\* hideOnClick.  The handler asks for nothing but the link.
redirects_OneAtATime(l) ==
  IF Pending("redirect") = {} THEN <<Timer("redirect", config.delay + 1, l)>> ELSE <<>>
redirects(l) == <<Timer("redirect", config.delay + 1, l)>>

click_link(l) ==
  /\ PageStays
  /\ config.hideOnClick
  /\ _hide(redirects(l))
  /\ last_link' = IF l \in BlankLinks THEN last_link ELSE l
  /\ UNCHANGED <<form, config, scrolled, touching, tap, browser>>

touchstart ==
  /\ PageStays
  /\ config.hideOnSwipe /\ touching' = TRUE
  /\ UNCHANGED <<form, config, visible, scrolled, timers, tap, browser, history>>

swiped(m) ==
  LET boundary == 20  delta == 50
      Along(d) == -boundary < d /\ d < boundary
  IN  CASE config.side = "left"   -> Along(m[2]) /\ -m[1] > delta
        [] config.side = "right"  -> Along(m[2]) /\ -m[1] < -delta
        [] config.side = "top"    -> Along(m[1]) /\ -m[2] > delta
        [] config.side = "bottom" -> Along(m[1]) /\ -m[2] < -delta
        [] OTHER -> FALSE

touchmove(m) ==
  /\ PageStays
  /\ config.hideOnSwipe /\ touching /\ swiped(m)
  /\ touching' = FALSE
  /\ _hide(<<>>)
  /\ UNCHANGED <<form, config, scrolled, tap, browser, last_link>>

keydown_escape ==
  /\ PageStays
  /\ config.hideOnEscape
  /\ _hide(<<>>)
  /\ UNCHANGED <<form, config, scrolled, touching, tap, browser, last_link>>

-----------------------------------------------------------------------------
(* Links to the panel *)

\* Inside the panel they take the class away, and that is all.
click_self ==
  /\ PageStays
  /\ visible' = FALSE
  /\ hidden_by' = IF visible THEN "link" ELSE hidden_by
  /\ Clock(0)
  /\ UNCHANGED <<form, config, scrolled, touching, timers, tap, browser, last_link>>

toggle ==
  /\ visible' = ~visible
  /\ hidden_by' = IF visible THEN "link" ELSE hidden_by
  /\ Clock(0)
  /\ UNCHANGED timers

-----------------------------------------------------------------------------
(* Clicks and taps outside the panel *)

\* On the link that toggles, the delegated handler keeps the event from the one
\* that hides.
click(where) == IF where = "toggle" THEN toggle ELSE _hide(<<>>)

click_outside ==
  /\ PageStays
  /\ tap = "none" /\ \E where \in {"toggle", "body"} : click(where)
  /\ UNCHANGED <<form, config, scrolled, touching, tap, browser, last_link>>

\* A tap is a touchend and then, if _hide has not cancelled it, a click.
after_touchend(where) == IF visible THEN "none" ELSE where

touchend(where) ==
  /\ PageStays
  /\ tap = "none" /\ tap' = after_touchend(where)
  /\ _hide(<<>>)
  /\ UNCHANGED <<form, config, scrolled, touching, browser, last_link>>

click_of_tap ==
  /\ PageStays
  /\ tap # "none" /\ tap' = "none"
  /\ click(tap)
  /\ UNCHANGED <<form, config, scrolled, touching, browser, last_link>>

-----------------------------------------------------------------------------
\* The user scrolls the panel and fills in its form while he sees it: until the
\* post-hide timer fires, to which end delay is the time the panel takes to go.
Seen == visible \/ Pending("hide") # {}

Use ==
  /\ PageStays
  /\ Seen
  /\ \/ scrolled' = TRUE /\ UNCHANGED form
     \/ config.resetForms /\ FormNext /\ UNCHANGED scrolled
  /\ UNCHANGED <<config, visible, touching, timers, tap, browser, history>>

\* The form has a part in what happens if resetForms is set, and is at rest if not.
Init ==
  /\ FormInit
  /\ config \in Configs
  /\ config.resetForms \/ meant = [f \in Fields |-> Empty]
  /\ visible \in BOOLEAN /\ scrolled = FALSE
  /\ touching = FALSE /\ timers = <<>> /\ tap = "none"
  /\ loading = NoLink /\ windows = {} /\ location = NoLink
  /\ shown_for = 0 /\ hidden_by = "link" /\ last_link = NoLink

Replaced == location # NoLink /\ UNCHANGED vars

Next ==
  \/ Tick \/ PostHide \/ Redirect \/ Unload \/ Replaced \/ Use
  \/ \E l \in Links : click_link(l)
  \/ touchstart \/ \E m \in Moves : touchmove(m)
  \/ keydown_escape \/ click_self \/ click_outside \/ click_of_tap
  \/ \E where \in {"toggle", "body"} : touchend(where)

\* Timers that are due fire, also while others become due, and time goes on.  That
\* anything ever arrives is not assumed.
Fairness == WF_vars(Tick) /\ WF_vars(PostHide) /\ WF_vars(Redirect)
Spec == Init /\ [][Next]_vars /\ Fairness

-----------------------------------------------------------------------------
(* Properties *)

\* A panel that _hide has hidden is back at the top and its form is empty as soon
\* as no post-hide timer is pending, whatever it was used for while it was going.
\* (One hidden by a link to it stays as it was left.)
HiddenIsReset ==
  /\ location = NoLink
  /\ ~visible /\ hidden_by = "_hide" /\ Pending("hide") = {}
  => /\ config.resetScroll => ~scrolled
     /\ config.resetForms => \A f \in Fields : meant[f] = Empty

\* A post-hide timer may reset a panel that has been opened again, but never one
\* that the user has had before him for longer than delay.
ResetSparesSettledPanel ==
  visible => \A i \in Pending("hide") : shown_for + timers[i].left <= config.delay

\* Redirects of this window that are still to come
Sends == {i \in Pending("redirect") : timers[i].link \notin BlankLinks}

\* Where the window will be sent to last
Coming(l) ==
  IF Sends = {} THEN loading = l
  ELSE \E i \in Sends : timers[i].link = l /\ \A j \in Sends : j <= i

\* The last link clicked in the panel is where the window is being sent, or it
\* will be by the last of the timers pending: no earlier click overrides a later
\* one, and none gets lost in a timer that was already running.  (The page of an
\* earlier link may arrive before that timer fires, and the last link is lost
\* with the page.)
LastLinkIsNext == location = NoLink /\ last_link # NoLink => Coming(last_link)

\* As long as nothing arrives, the window ends up loading the last link clicked in
\* the panel, though others may still be on their way when it is clicked, and the
\* panel may be opened and hidden before the timers fire.
LastLinkWins ==
  \A l \in Links \ BlankLinks :
    <>[](location = NoLink /\ last_link = l) => <>[](loading = l)
=============================================================================
