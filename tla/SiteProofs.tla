------------------------------ MODULE SiteProofs ------------------------------
(***************************************************************************)
(* What main.js keeps true of the page, for every set of window widths and *)
(* any number of resizes and scrolls.                                      *)
(***************************************************************************)
EXTENDS Site, TLAPS

\* The window is not zoomed: every width is a number of whole pixels.  Between
\* two pixels neither query is true, and handlers would pile up.
WholePixels == \A w \in Widths : \E n \in Nat : w = n * Pixel

Narrow == active("<=medium", width)
Wide == active(">medium", width)

\* The queries that are registered, and whether each was true at the last poll
Registered(p) == IF p THEN <<"<=medium", ">medium", "<=medium", ">medium">>
                      ELSE <<"<=medium", ">medium">>

TypeOK ==
  /\ width \in Widths /\ parallax \in BOOLEAN /\ resized \in BOOLEAN
  /\ loaded \in {"parsing", "script", "load"}
  /\ scroll_handlers \in Nat

EventsInv ==
  loaded # "parsing" =>
    /\ DOMAIN events = DOMAIN Registered(parallax)
    /\ \A i \in DOMAIN events :
         events[i] \in [query : {Registered(parallax)[i]}, state : BOOLEAN]

\* What the last poll saw is what the footer shows, also while the window has
\* moved on.
FooterPolled ==
  loaded # "parsing" => /\ events[1].state => footer = "main"
                        /\ events[2].state => footer = "header"

FooterInv == TypeOK /\ EventsInv /\ FooterPolled /\ FooterFollowsWidth

-----------------------------------------------------------------------------
(* Media queries *)

LEMMA NotBoth ==
  ASSUME NEW w \in Nat
  PROVE  /\ active("<=medium", w) <=> w <= 980 * Pixel
         /\ active(">medium", w) <=> w >= 981 * Pixel
         /\ ~(active("<=medium", w) /\ active(">medium", w))
  BY BreakpointsAssumption DEF active

LEMMA OneOfTwo ==
  ASSUME WholePixels, NEW w \in Widths
  PROVE  active("<=medium", w) \/ active(">medium", w)
<1>1. PICK n \in Nat : w = n * Pixel
  BY DEF WholePixels
<1>2. PICK p \in Nat \ {0} : p = Pixel
  BY BreakpointsAssumption
<1>3. CASE n <= 980
  <2>1. (980 - n) * p \in Nat /\ (980 - n) * p = 980 * p - n * p
    BY <1>2, <1>3
  <2>2. n * p <= 980 * p
    BY <1>2, <2>1
  <2> QED BY <1>1, <1>2, <2>2, NotBoth, SiteAssumption
<1>4. CASE n >= 981
  <2>1. (n - 981) * p \in Nat /\ (n - 981) * p = n * p - 981 * p
    BY <1>2, <1>4
  <2>2. n * p >= 981 * p
    BY <1>2, <2>1
  <2> QED BY <1>1, <1>2, <2>2, NotBoth, SiteAssumption
<1> QED BY <1>3, <1>4

\* What registering and polling do to events
LEMMA OnFacts ==
  ASSUME parallax' \in BOOLEAN, on(Queries)
  PROVE  /\ DOMAIN events' = DOMAIN Registered(parallax')
         /\ DOMAIN Queries = DOMAIN events'
         /\ \A i \in DOMAIN events' :
              /\ Queries[i] = Registered(parallax')[i]
              /\ events'[i] \in [query : {Registered(parallax')[i]}, state : BOOLEAN]
              /\ ~events'[i].state
<1>1. Queries = Registered(parallax')
  BY DEF Queries, Registered
<1>2. events' = [i \in DOMAIN Queries |-> [query |-> Queries[i], state |-> FALSE]]
  BY DEF on
<1> QED BY <1>1, <1>2

LEMMA PollFacts ==
  ASSUME EventsInv, loaded # "parsing", poll(width), width \in Nat
  PROVE  /\ DOMAIN events' = DOMAIN events
         /\ \A i \in DOMAIN events :
              /\ events'[i] \in [query : {Registered(parallax)[i]}, state : BOOLEAN]
              /\ events'[i].state <=> active(Registered(parallax)[i], width)
              /\ i \in Rising(width) <=>
                   active(Registered(parallax)[i], width) /\ ~events[i].state
<1>1. events' = [i \in DOMAIN events |->
                   [events[i] EXCEPT !.state = active(events[i].query, width)]]
  BY DEF poll
<1>2. ASSUME NEW i \in DOMAIN events
      PROVE  /\ events'[i] \in [query : {Registered(parallax)[i]}, state : BOOLEAN]
             /\ events'[i].state <=> active(Registered(parallax)[i], width)
             /\ i \in Rising(width) <=>
                   active(Registered(parallax)[i], width) /\ ~events[i].state
  <2>1. events[i] \in [query : {Registered(parallax)[i]}, state : BOOLEAN]
    BY DEF EventsInv
  <2>2. events[i].query = Registered(parallax)[i]
    BY <2>1
  <2>3. events'[i] = [events[i] EXCEPT !.state = active(Registered(parallax)[i], width)]
    BY <1>1, <2>2
  <2>4. Registered(parallax)[i] \in {"<=medium", ">medium"}
    BY DEF EventsInv, Registered
  <2>5. active(Registered(parallax)[i], width) \in BOOLEAN
    <3>1. active("<=medium", width) \in BOOLEAN
      BY DEF active
    <3>2. active(">medium", width) \in BOOLEAN
      BY DEF active
    <3> QED BY <2>4, <3>1, <3>2
  <2>6. i \in Rising(width) <=> active(Registered(parallax)[i], width) /\ ~events[i].state
    BY <2>2 DEF Rising
  <2> QED BY <2>1, <2>3, <2>5, <2>6
<1> QED BY <1>1, <1>2

-----------------------------------------------------------------------------
(* The footer *)

\* What inserting the footer does, whichever handlers run
LEMMA FooterScript == FooterInv /\ Script => FooterInv'
<1> SUFFICES ASSUME FooterInv, Script PROVE FooterInv'
  OBVIOUS
<1> DEFINE run == {i \in DOMAIN Queries : active(Queries[i], width)}
<1>1. /\ width' = width /\ resized' = resized /\ loaded' = "script" /\ parallax' \in BOOLEAN
      /\ on(Queries) /\ InsertFooter(run) /\ BindScroll(run) /\ width \in Widths /\ width \in Nat
  BY SiteAssumption DEF FooterInv, TypeOK, Script, window
<1>2. /\ 1 \in DOMAIN events' /\ Registered(parallax')[1] = "<=medium"
      /\ 2 \in DOMAIN events' /\ Registered(parallax')[2] = ">medium"
  BY <1>1, OnFacts DEF Registered
<1>3. (1 \in run <=> Narrow) /\ (2 \in run <=> Wide)
  BY <1>1, <1>2, OnFacts DEF Narrow, Wide
<1> HIDE DEF run
<1>4. /\ Narrow => footer' = "main"
      /\ Wide => footer' = "header"
  BY <1>1, <1>3, NotBoth DEF InsertFooter, Narrow, Wide
<1>5. scroll_handlers' \in Nat
  BY <1>1 DEF BindScroll, FooterInv, TypeOK
<1>6. EventsInv'
  BY <1>1, OnFacts DEF EventsInv
<1>7. FooterPolled'
  BY <1>1, <1>2, OnFacts DEF FooterPolled
<1>8. FooterFollowsWidth'
  BY <1>1, <1>4 DEF FooterFollowsWidth, Narrow, Wide
<1> QED BY <1>1, <1>5, <1>6, <1>7, <1>8 DEF FooterInv, TypeOK

\* A poll with its handlers catches up with the width.
LEMMA FooterPoll ==
  ASSUME FooterInv, loaded # "parsing", poll(width),
         InsertFooter(Rising(width)), BindScroll(Rising(width)),
         UNCHANGED <<width, parallax>>, loaded' \in {"script", "load"}, resized' \in BOOLEAN
  PROVE  FooterInv'
<1> USE DEF FooterInv
<1>1. width \in Widths /\ width \in Nat
  BY SiteAssumption DEF TypeOK
<1>2. /\ 1 \in DOMAIN events /\ Registered(parallax)[1] = "<=medium"
      /\ 2 \in DOMAIN events /\ Registered(parallax)[2] = ">medium"
  BY DEF EventsInv, Registered
<1>3. /\ 1 \in Rising(width) <=> Narrow /\ ~events[1].state
      /\ 2 \in Rising(width) <=> Wide /\ ~events[2].state
      /\ events'[1].state <=> Narrow
      /\ events'[2].state <=> Wide
  BY <1>1, <1>2, PollFacts DEF Narrow, Wide
<1>4. ~(Narrow /\ Wide)
  BY <1>1, NotBoth DEF Narrow, Wide
<1>5. /\ Narrow => footer' = "main"
      /\ Wide => footer' = "header"
  BY <1>3, <1>4 DEF InsertFooter, FooterPolled
<1>6. TypeOK'
  BY <1>1 DEF TypeOK, BindScroll
<1>7. EventsInv'
  BY <1>1, PollFacts DEF EventsInv
<1>8. FooterPolled'
  BY <1>3, <1>5 DEF FooterPolled
<1>9. FooterFollowsWidth'
  BY <1>5 DEF FooterFollowsWidth, Narrow, Wide
<1> QED BY <1>6, <1>7, <1>8, <1>9

\* Nothing else moves the footer, and a resize leaves an event due.
LEMMA FooterRest ==
  ASSUME FooterInv, UNCHANGED <<events, loaded, parallax, footer, scroll_handlers>>,
         \/ UNCHANGED <<width, resized>>
         \/ loaded = "parsing" /\ width' = width /\ resized' \in BOOLEAN
         \/ width' \in Widths /\ resized' = TRUE
  PROVE  FooterInv'
  BY DEF FooterInv, TypeOK, EventsInv, FooterPolled, FooterFollowsWidth, Settled

LEMMA FooterStep == FooterInv /\ [Next]_vars => FooterInv'
<1> SUFFICES ASSUME FooterInv, [Next]_vars PROVE FooterInv'
  OBVIOUS
<1>1. CASE Script
  BY <1>1, FooterScript
<1>2. CASE Load
  BY <1>2, FooterPoll DEF Load, window, FooterInv, TypeOK
<1>3. CASE PollEvent
  BY <1>3, FooterPoll DEF PollEvent, FooterInv, TypeOK
<1>4. CASE ScrollEvent
  BY <1>4, FooterRest DEF ScrollEvent
<1>5. CASE Unheard
  BY <1>5, FooterRest DEF Unheard, page
<1>6. CASE PreloadTimer
  BY <1>6, FooterRest DEF PreloadTimer, window, page
<1>7. CASE TouchTimer
  BY <1>7, FooterRest DEF TouchTimer, page
<1>8. CASE Resize
  BY <1>8, FooterRest DEF Resize, page
<1>9. CASE Scroll
  BY <1>9, FooterRest DEF Scroll, page
<1>10. CASE UNCHANGED vars
  BY <1>10, FooterRest DEF vars, window, page
<1> QED
  BY <1>1, <1>2, <1>3, <1>4, <1>5, <1>6, <1>7, <1>8, <1>9, <1>10 DEF Next, Browser

LEMMA FooterInit == Init => FooterInv
<1> SUFFICES ASSUME Init PROVE FooterInv
  OBVIOUS
<1>1. loaded = "parsing" /\ width \in Widths /\ resized = FALSE /\ parallax = TRUE /\ scroll_handlers = 0
  BY DEF Init
<1>2. parallax \in BOOLEAN /\ resized \in BOOLEAN
  BY <1>1, Zenon
<1>3. TypeOK
  BY <1>1, <1>2 DEF TypeOK
<1> QED BY <1>1, <1>3 DEF FooterInv, EventsInv, FooterPolled, FooterFollowsWidth, Settled

\* Whenever no resize event is due the footer is where the width of the window
\* wants it, however the widths came and went.
THEOREM FooterIsWhereItBelongs == Spec => []FooterFollowsWidth
<1>1. FooterInv => FooterFollowsWidth
  BY DEF FooterInv
<1> QED BY <1>1, FooterInit, FooterStep, PTL DEF Spec

-----------------------------------------------------------------------------
(* The scroll handlers *)

\* Before the script has run, or without parallax, nothing is bound; an event
\* whose query was true at the last poll has left its handlers behind; and
\* before the first poll there may be the one that on() bound.
HandlersBound ==
  /\ loaded = "parsing" \/ ~parallax => scroll_handlers = 0 /\ background = Unset
  /\ loaded # "parsing" /\ parallax =>
       /\ events[3].state => scroll_handlers = 0 /\ background = Unset
       /\ events[4].state => scroll_handlers \in 1 .. 2
       /\ ~events[3].state /\ ~events[4].state => scroll_handlers \in 0 .. 1

ParallaxInv == FooterInv /\ HandlersBound /\ ParallaxOnlyWhenWide

LEMMA ParallaxInit == Init => ParallaxInv
<1> SUFFICES ASSUME Init PROVE ParallaxInv
  OBVIOUS
<1> QED
  BY FooterInit DEF Init, ParallaxInv, HandlersBound, ParallaxOnlyWhenWide, Settled

LEMMA ParallaxScript == ParallaxInv /\ Script => ParallaxInv'
<1> SUFFICES ASSUME ParallaxInv, Script PROVE ParallaxInv'
  OBVIOUS
<1> DEFINE run == {i \in DOMAIN Queries : active(Queries[i], width)}
<1>1. /\ width' = width /\ resized' = resized /\ loaded' = "script" /\ parallax' \in BOOLEAN
      /\ on(Queries) /\ BindScroll(run) /\ background' = Placed(run) /\ width \in Nat
      /\ scroll_handlers = 0 /\ background = Unset
  BY SiteAssumption DEF ParallaxInv, HandlersBound, FooterInv, TypeOK, Script, window
<1>2. DOMAIN Queries = IF parallax' THEN 1 .. 4 ELSE 1 .. 2
  BY DEF Queries
<1>3. parallax' => /\ 3 \in DOMAIN Queries /\ Queries[3] = "<=medium"
                   /\ 4 \in DOMAIN Queries /\ Queries[4] = ">medium"
  BY DEF Queries
<1>4. /\ parallax' => (3 \in run <=> Narrow) /\ (4 \in run <=> Wide)
      /\ ~parallax' => 3 \notin run /\ 4 \notin run
  BY <1>2, <1>3 DEF Narrow, Wide
<1> HIDE DEF run
<1>5. ~(Narrow /\ Wide)
  BY <1>1, NotBoth DEF Narrow, Wide
<1>6. /\ scroll_handlers' = IF 3 \in run THEN 0 ELSE IF 4 \in run THEN 1 ELSE 0
      /\ background' = IF 3 \in run THEN Unset ELSE IF 4 \in run THEN 0 ELSE Unset
  BY <1>1 DEF BindScroll, Placed
<1>7. FooterInv'
  BY FooterScript DEF ParallaxInv
<1>8. parallax' => ~events'[3].state /\ ~events'[4].state
  BY <1>1, <1>3, OnFacts
<1>9. HandlersBound'
  BY <1>1, <1>4, <1>6, <1>8 DEF HandlersBound
<1>10. ParallaxOnlyWhenWide'
  BY <1>1, <1>4, <1>5, <1>6 DEF ParallaxOnlyWhenWide, Narrow, Wide
<1> QED BY <1>7, <1>9, <1>10 DEF ParallaxInv

\* A poll: the handlers of a query that has become true run, and one of the two
\* queries is true.  (On load the scroll handlers that are bound then run too.)
LEMMA ParallaxPoll ==
  ASSUME WholePixels, ParallaxInv, loaded # "parsing", poll(width),
         BindScroll(Rising(width)),
         \/ background' = Placed(Rising(width))
         \/ background' = OnScroll(scroll_handlers', Placed(Rising(width))),
         UNCHANGED <<width, parallax>>, loaded' \in {"script", "load"}
  PROVE  HandlersBound' /\ ParallaxOnlyWhenWide'
<1>1. width \in Widths /\ width \in Nat /\ EventsInv /\ parallax \in BOOLEAN
  BY SiteAssumption DEF ParallaxInv, FooterInv, TypeOK
<1>2. ~(Narrow /\ Wide) /\ (Narrow \/ Wide)
  BY <1>1, NotBoth, OneOfTwo DEF Narrow, Wide
<1>3. scroll_handlers' = IF 3 \in Rising(width) THEN 0
                         ELSE IF 4 \in Rising(width) THEN scroll_handlers + 1 ELSE scroll_handlers
  BY DEF BindScroll
<1>4. scroll_handlers' = 0 => background' = Placed(Rising(width))
  BY DEF OnScroll
<1>5. CASE parallax
  <2>1. /\ 3 \in DOMAIN events /\ Registered(parallax)[3] = "<=medium"
        /\ 4 \in DOMAIN events /\ Registered(parallax)[4] = ">medium"
    BY <1>1, <1>5 DEF EventsInv, Registered
  <2>2. /\ 3 \in Rising(width) <=> Narrow /\ ~events[3].state
        /\ 4 \in Rising(width) <=> Wide /\ ~events[4].state
        /\ events'[3].state <=> Narrow
        /\ events'[4].state <=> Wide
    BY <1>1, <2>1, PollFacts DEF Narrow, Wide
  <2>3. /\ events[3].state => scroll_handlers = 0 /\ background = Unset
        /\ events[4].state => scroll_handlers \in 1 .. 2
        /\ ~events[3].state /\ ~events[4].state => scroll_handlers \in 0 .. 1
    BY <1>5 DEF ParallaxInv, HandlersBound
  <2>4. Narrow => scroll_handlers' = 0 /\ background' = Unset
    BY <1>2, <1>3, <1>4, <2>2, <2>3 DEF Placed
  <2>5. Wide => scroll_handlers' \in 1 .. 2
    BY <1>2, <1>3, <2>2, <2>3
  <2> QED
    BY <1>2, <1>5, <2>2, <2>4, <2>5 DEF HandlersBound, ParallaxOnlyWhenWide, Narrow, Wide
<1>6. CASE ~parallax
  <2>1. 3 \notin Rising(width) /\ 4 \notin Rising(width)
    BY <1>1, <1>6 DEF EventsInv, Registered, Rising
  <2>2. scroll_handlers' = 0 /\ background' = Unset
    BY <1>3, <1>4, <1>6, <2>1 DEF Placed, ParallaxInv, HandlersBound
  <2> QED BY <1>6, <2>2 DEF HandlersBound, ParallaxOnlyWhenWide
<1> QED BY <1>1, <1>5, <1>6

\* Scrolling writes a position only where a handler is bound.
LEMMA ParallaxRest ==
  ASSUME ParallaxInv, UNCHANGED <<events, loaded, parallax, scroll_handlers>>,
         background' = background \/ (loaded # "parsing" /\ background' = OnScroll(scroll_handlers, background)),
         \/ UNCHANGED <<width, resized>>
         \/ loaded = "parsing" /\ width' = width
         \/ resized' = TRUE
  PROVE  HandlersBound' /\ ParallaxOnlyWhenWide'
<1>1. scroll_handlers = 0 => background' = background
  BY DEF OnScroll
<1>2. HandlersBound'
  BY <1>1 DEF ParallaxInv, HandlersBound
<1>3. ParallaxOnlyWhenWide'
  BY <1>1 DEF ParallaxInv, ParallaxOnlyWhenWide, Settled
<1> QED BY <1>2, <1>3

LEMMA ParallaxStep ==
  ASSUME WholePixels PROVE ParallaxInv /\ [Next]_vars => ParallaxInv'
<1> SUFFICES ASSUME ParallaxInv, [Next]_vars PROVE ParallaxInv'
  OBVIOUS
<1>0. FooterInv'
  BY FooterStep DEF ParallaxInv
<1> SUFFICES HandlersBound' /\ ParallaxOnlyWhenWide'
  BY <1>0 DEF ParallaxInv
<1>1. CASE Script
  BY <1>1, ParallaxScript DEF ParallaxInv
<1>2. CASE Load
  BY <1>2, ParallaxPoll DEF Load, window
<1>3. CASE PollEvent
  BY <1>3, ParallaxPoll DEF PollEvent, ParallaxInv, FooterInv, TypeOK
<1>4. CASE ScrollEvent
  BY <1>4, ParallaxRest DEF ScrollEvent
<1>5. CASE Unheard
  BY <1>5, ParallaxRest DEF Unheard, page
<1>6. CASE PreloadTimer
  BY <1>6, ParallaxRest DEF PreloadTimer, window, page
<1>7. CASE TouchTimer
  BY <1>7, ParallaxRest DEF TouchTimer, page
<1>8. CASE Resize
  BY <1>8, ParallaxRest DEF Resize, page
<1>9. CASE Scroll
  BY <1>9, ParallaxRest DEF Scroll, page
<1>10. CASE UNCHANGED vars
  BY <1>10, ParallaxRest DEF vars, window, page
<1> QED
  BY <1>1, <1>2, <1>3, <1>4, <1>5, <1>6, <1>7, <1>8, <1>9, <1>10 DEF Next, Browser

\* In a window of whole pixels no scroll handler and no background position is
\* left over when it is narrow, and when it is wide there are never more than the
\* two handlers of the first load, after any number of resizes.
THEOREM HandlersDoNotPileUp ==
  ASSUME WholePixels PROVE Spec => []ParallaxOnlyWhenWide
<1>1. ParallaxInv => ParallaxOnlyWhenWide
  BY DEF ParallaxInv
<1> QED BY <1>1, ParallaxInit, ParallaxStep, PTL DEF Spec
=============================================================================
