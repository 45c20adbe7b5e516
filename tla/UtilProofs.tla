----------------------------- MODULE UtilProofs -----------------------------
(***************************************************************************)
(* What util.js promises: a panel and the form in it, for every set of    *)
(* configurations, links and finger moves and any number of timers; and    *)
(* the elements that are moved to the top and back, however many.          *)
(***************************************************************************)
EXTENDS Panel, Prioritize, FiniteSetTheorems, SequenceTheorems, WellFoundedInduction, TLAPS

Words == {Empty, "hint", "word", "hint+word"}

FormTypeOK ==
  /\ entry \in [Fields -> Words] /\ meant \in [Fields -> Words]
  /\ marked \in BOOLEAN /\ caught \in BOOLEAN /\ submitted \in BOOLEAN
  /\ twin_named \in BOOLEAN
  /\ shown \subseteq {"pwd", "twin"}

\* The class polyfill-placeholder tells the truth about the text field, unless a
\* reset put the hint under the user's hands.
Marks == marked /\ (focus = "text" \/ entry["text"] # "hint") => caught

FormInv ==
  /\ FormTypeOK /\ Marks
  /\ SendsWhatIsMeant /\ TwinStandsIn
  /\ twin_named \/ submitted

TimerSet == [what : {"hide", "redirect"}, left : Nat, link : Links \cup {NoLink}]

PanelTypeOK ==
  /\ config \in Configs /\ visible \in BOOLEAN /\ shown_for \in Nat
  /\ timers \in Seq(TimerSet)

\* No post-hide timer has longer to go than the configured delay.
HideInTime == \A i \in Pending("hide") : timers[i].left <= config.delay

PanelInv == PanelTypeOK /\ HideInTime /\ ResetSparesSettledPanel /\ HiddenIsReset

-----------------------------------------------------------------------------
(* The form *)

LEMMA TextPwd ==
  ASSUME NEW t \in Words, NEW p \in Words
  PROVE  /\ [text |-> t, pwd |-> p] \in [Fields -> Words]
         /\ [text |-> t, pwd |-> p]["text"] = t
         /\ [text |-> t, pwd |-> p]["pwd"] = p
<1> DEFINE r == [text |-> t, pwd |-> p]
<1>1. DOMAIN r = Fields
  BY Zenon DEF Fields
<1>2. r["text"] = t /\ r["pwd"] = p
  OBVIOUS
<1>3. r = [f \in Fields |-> IF f = "text" THEN t ELSE p]
  BY DEF Fields
<1> QED BY <1>2, <1>3

LEMMA FormInitInv == FormInit => FormInv
<1> SUFFICES ASSUME FormInit PROVE FormInv
  OBVIOUS
<1>1. PICK t \in {Empty, "hint", "word"}, p \in {Empty, "word"} :
        /\ entry = [text |-> hint_if_empty(t), pwd |-> p]
        /\ marked = (t # "word")
        /\ shown = IF p = Empty THEN {"twin"} ELSE {"pwd"}
        /\ meant = [text |-> empty_if_hint(t), pwd |-> p]
  BY DEF FormInit
<1>2. hint_if_empty(t) \in Words /\ empty_if_hint(t) \in Words /\ p \in Words
  BY DEF hint_if_empty, empty_if_hint, Words, Empty
<1>3. /\ entry \in [Fields -> Words] /\ entry["text"] = hint_if_empty(t) /\ entry["pwd"] = p
  BY <1>1, <1>2, TextPwd
<1>4. /\ meant \in [Fields -> Words] /\ meant["text"] = empty_if_hint(t) /\ meant["pwd"] = p
  BY <1>1, <1>2, TextPwd
<1>5. caught = FALSE /\ submitted = FALSE /\ twin_named = TRUE /\ focus = "none"
  BY DEF FormInit
<1>6. FormTypeOK
  <2>1. marked \in BOOLEAN /\ caught \in BOOLEAN /\ submitted \in BOOLEAN /\ twin_named \in BOOLEAN
    BY <1>1, <1>5, Zenon
  <2> QED BY <1>1, <1>3, <1>4, <2>1 DEF FormTypeOK
<1>7. Marks
  <2>1. marked => t # "word"
    BY <1>1
  <2>2. t # "word" => entry["text"] = "hint"
    BY <1>3 DEF hint_if_empty, Empty
  <2> QED BY <1>5, <2>1, <2>2 DEF Marks
<1>8. SendsWhatIsMeant
  BY <1>3, <1>4 DEF SendsWhatIsMeant, sends, Fields, hint_if_empty, empty_if_hint, Empty
<1>9. TwinStandsIn
  <2>1. (shown = {"twin"} /\ p = Empty) \/ shown = {"pwd"}
    BY <1>1
  <2> QED BY <1>3, <2>1 DEF TwinStandsIn
<1> QED BY <1>5, <1>6, <1>7, <1>8, <1>9, Zenon DEF FormInv

\* Every event of the form keeps its invariant.
LEMMA FormStep == FormInv /\ FormNext => FormInv'
<1> SUFFICES ASSUME FormInv, FormNext PROVE FormInv'
  OBVIOUS
<1> USE DEF FormInv, FormTypeOK, Marks, SendsWhatIsMeant, TwinStandsIn, Words, Fields, Empty,
            empty_if_hint, sends
<1>1. CASE blur
  BY <1>1, ZenonT(60) DEF blur, swap
<1>2. CASE focus_text
  BY <1>2 DEF focus_text
<1>3. CASE focus_pwd
  BY <1>3 DEF focus_pwd
<1>4. CASE focus_twin
  BY <1>4 DEF focus_twin
<1>5. CASE keypress_twin
  BY <1>5 DEF keypress_twin
<1>6. CASE Edit
  <2>1. PICK v \in {Empty, "word", "hint"} :
          /\ meant' = [meant EXCEPT ![focus] = v]
          /\ \/ entry' = [entry EXCEPT ![focus] = v]
             \/ /\ v = "word" /\ focus = "text" /\ marked /\ entry["text"] = "hint"
                /\ entry' = [entry EXCEPT !["text"] = "hint+word"]
    BY <1>6 DEF Edit
  <2>2. /\ focus = "text" \/ (focus = "pwd" /\ "pwd" \in shown)
        /\ UNCHANGED <<marked, shown, twin_named, label, focus, others, caught, submitted>>
    BY <1>6 DEF Edit
  <2>3. CASE entry' = [entry EXCEPT ![focus] = v]
    BY <2>1, <2>2, <2>3
  <2>4. CASE /\ v = "word" /\ focus = "text" /\ marked /\ entry["text"] = "hint"
             /\ entry' = [entry EXCEPT !["text"] = "hint+word"]
    BY <2>1, <2>2, <2>4
  <2> QED BY <2>1, <2>3, <2>4
<1>7. CASE submit
  BY <1>7 DEF submit
<1>8. CASE reset
  <2>1. Empty \in Words /\ hint_if_empty(Empty) = "hint" /\ "hint" \in Words
    BY DEF hint_if_empty
  <2>2. /\ entry' \in [Fields -> Words] /\ entry'["text"] = "hint" /\ entry'["pwd"] = Empty
    BY <1>8, <2>1, TextPwd DEF reset
  <2> QED BY <1>8, <2>2 DEF reset, swap
<1> QED BY <1>1, <1>2, <1>3, <1>4, <1>5, <1>6, <1>7, <1>8 DEF FormNext

LEMMA FormStutter == FormInv /\ UNCHANGED form => FormInv'
<1> SUFFICES ASSUME FormInv, UNCHANGED form PROVE FormInv'
  OBVIOUS
<1>1. /\ UNCHANGED <<entry, marked, shown, twin_named, label>>
      /\ UNCHANGED <<focus, others, meant, caught, submitted>>
  BY DEF form
<1>2. FormTypeOK' /\ Marks'
  BY <1>1 DEF FormInv, FormTypeOK, Marks
<1>3. SendsWhatIsMeant'
  BY <1>1 DEF FormInv, SendsWhatIsMeant, sends
<1>4. TwinStandsIn'
  BY <1>1 DEF FormInv, TwinStandsIn
<1> QED BY <1>1, <1>2, <1>3, <1>4 DEF FormInv

-----------------------------------------------------------------------------
(* Timers *)

\* What RemoveAt returns.
LEMMA RemoveAtIs ==
  ASSUME NEW S, NEW s \in Seq(S), NEW i \in DOMAIN s
  PROVE  /\ RemoveAt(s, i) \in Seq(S) /\ Len(RemoveAt(s, i)) = Len(s) - 1
         /\ \A j \in 1 .. Len(s) - 1 : RemoveAt(s, i)[j] = IF j < i THEN s[j] ELSE s[j + 1]
<1> DEFINE r == RemoveAt(s, i)
<1>1. i \in 1 .. Len(s) /\ Len(s) \in Nat
  OBVIOUS
<1>2. r = SubSeq(s, 1, i - 1) \o SubSeq(s, i + 1, Len(s))
  BY DEF RemoveAt
<1> DEFINE f == SubSeq(s, 1, i - 1)
           b == SubSeq(s, i + 1, Len(s))
<1>a. /\ f \in Seq(S) /\ Len(f) = i - 1
      /\ \A j \in 1 .. i - 1 : f[j] = s[j]
  <2>1. \A j \in 1 .. i - 1 : s[j] \in S
    BY <1>1
  <2>2. /\ f \in Seq(S) /\ Len(f) = IF 1 <= i - 1 THEN i - 1 - 1 + 1 ELSE 0
        /\ \A j \in 1 .. i - 1 - 1 + 1 : f[j] = s[1 + j - 1]
    BY <1>1, <2>1, SubSeqProperties
  <2> QED BY <1>1, <2>2
<1>b. /\ b \in Seq(S) /\ Len(b) = Len(s) - i
      /\ \A j \in 1 .. Len(s) - i : b[j] = s[i + j]
  <2>1. \A j \in i + 1 .. Len(s) : s[j] \in S
    BY <1>1
  <2>2. /\ b \in Seq(S) /\ Len(b) = IF i + 1 <= Len(s) THEN Len(s) - (i + 1) + 1 ELSE 0
        /\ \A j \in 1 .. Len(s) - (i + 1) + 1 : b[j] = s[(i + 1) + j - 1]
    BY <1>1, <2>1, SubSeqProperties
  <2> QED BY <1>1, <2>2
<1> HIDE DEF f, b
<1>c. /\ r \in Seq(S) /\ Len(r) = Len(f) + Len(b)
      /\ \A j \in 1 .. Len(f) + Len(b) : r[j] = IF j <= Len(f) THEN f[j] ELSE b[j - Len(f)]
  <2>1. r = f \o b
    BY <1>2 DEF f, b
  <2>2. /\ f \o b \in Seq(S) /\ Len(f \o b) = Len(f) + Len(b)
        /\ \A j \in 1 .. Len(f) + Len(b) :
             (f \o b)[j] = IF j <= Len(f) THEN f[j] ELSE b[j - Len(f)]
    BY <1>a, <1>b, ConcatProperties, Zenon
  <2> QED BY <2>1, <2>2, Zenon
<1> HIDE DEF r
<1>3. r \in Seq(S) /\ Len(r) = Len(s) - 1
  BY <1>1, <1>a, <1>b, <1>c
<1>4. \A j \in 1 .. Len(r) : r[j] = IF j < i THEN s[j] ELSE s[j + 1]
  <2> SUFFICES ASSUME NEW j \in 1 .. Len(r) PROVE r[j] = IF j < i THEN s[j] ELSE s[j + 1]
    OBVIOUS
  <2>1. r[j] = IF j <= i - 1 THEN f[j] ELSE b[j - (i - 1)]
    BY <1>1, <1>a, <1>b, <1>c
  <2>2. CASE j < i
    BY <1>1, <1>a, <2>1, <2>2
  <2>3. CASE ~(j < i)
    <3>1. j - (i - 1) \in 1 .. Len(s) - i /\ i + (j - (i - 1)) = j + 1
      BY <1>1, <1>3, <2>3
    <3>2. r[j] = b[j - (i - 1)]
      BY <1>1, <2>1, <2>3
    <3> QED BY <1>b, <2>3, <3>1, <3>2
  <2> QED BY <2>2, <2>3
<1> QED BY <1>3, <1>4 DEF r

LEMMA RemoveAtFacts ==
  ASSUME NEW S, NEW s \in Seq(S), NEW i \in DOMAIN s
  PROVE  /\ RemoveAt(s, i) \in Seq(S)
         /\ \A j \in DOMAIN RemoveAt(s, i) :
              \E k \in DOMAIN s \ {i} : RemoveAt(s, i)[j] = s[k]
         /\ \A k \in DOMAIN s \ {i} :
              \E j \in DOMAIN RemoveAt(s, i) : RemoveAt(s, i)[j] = s[k]
<1> DEFINE r == RemoveAt(s, i)
<1>1. i \in 1 .. Len(s) /\ Len(s) \in Nat
  OBVIOUS
<1>2. /\ r \in Seq(S) /\ Len(r) = Len(s) - 1
      /\ \A j \in 1 .. Len(s) - 1 : r[j] = IF j < i THEN s[j] ELSE s[j + 1]
  BY RemoveAtIs
<1> HIDE DEF r
<1>3. r \in Seq(S) /\ Len(r) = Len(s) - 1
  BY <1>2
<1>4. \A j \in 1 .. Len(r) : r[j] = IF j < i THEN s[j] ELSE s[j + 1]
  BY <1>2
<1>5. ASSUME NEW j \in DOMAIN r PROVE \E k \in DOMAIN s \ {i} : r[j] = s[k]
  <2>1. CASE j < i
    BY <1>1, <1>3, <1>4, <2>1
  <2>2. CASE ~(j < i)
    <3>1. j \in 1 .. Len(r) /\ r[j] = s[j + 1] /\ j + 1 # i /\ j + 1 \in DOMAIN s
      BY <1>1, <1>3, <1>4, <2>2
    <3> QED BY <3>1
  <2> QED BY <2>1, <2>2
<1>6. ASSUME NEW k \in DOMAIN s \ {i} PROVE \E j \in DOMAIN r : r[j] = s[k]
  <2>1. CASE k < i
    <3>1. k \in DOMAIN r /\ r[k] = s[k]
      BY <1>1, <1>3, <1>4, <2>1
    <3> QED BY <3>1
  <2>2. CASE ~(k < i)
    <3>1. k - 1 \in DOMAIN r /\ ~(k - 1 < i) /\ (k - 1) + 1 = k
      BY <1>1, <1>3, <2>2
    <3>2. r[k - 1] = s[k]
      BY <1>3, <1>4, <3>1
    <3> QED BY <3>1, <3>2
  <2> QED BY <2>1, <2>2
<1> QED BY <1>3, <1>5, <1>6 DEF r

\* The indices of the second of two sequences, in their concatenation
LEMMA ConcatFacts ==
  ASSUME NEW S, NEW s \in Seq(S), NEW t \in Seq(S)
  PROVE  /\ s \o t \in Seq(S)
         /\ \A i \in DOMAIN (s \o t) : \/ (i \in DOMAIN s /\ (s \o t)[i] = s[i])
                                      \/ \E j \in DOMAIN t : (s \o t)[i] = t[j]
         /\ \A i \in DOMAIN s : i \in DOMAIN (s \o t) /\ (s \o t)[i] = s[i]
         /\ \A j \in DOMAIN t : \E i \in DOMAIN (s \o t) : (s \o t)[i] = t[j]
<1> DEFINE r == s \o t
<1>1. r \in Seq(S) /\ Len(r) = Len(s) + Len(t) /\ Len(s) \in Nat /\ Len(t) \in Nat
  OBVIOUS
<1>2. ASSUME NEW i \in DOMAIN r
      PROVE  (i \in DOMAIN s /\ r[i] = s[i]) \/ \E j \in DOMAIN t : r[i] = t[j]
  <2>1. CASE i <= Len(s)
    BY <2>1
  <2>2. CASE ~(i <= Len(s))
    <3>1. i - Len(s) \in DOMAIN t /\ r[i] = t[i - Len(s)]
      BY <1>1, <2>2
    <3> QED BY <3>1
  <2> QED BY <2>1, <2>2
<1>3. \A i \in DOMAIN s : i \in DOMAIN r /\ r[i] = s[i]
  BY <1>1
<1>4. ASSUME NEW j \in DOMAIN t PROVE \E i \in DOMAIN r : r[i] = t[j]
  <2>1. Len(s) + j \in DOMAIN r /\ r[Len(s) + j] = t[j]
    BY <1>1
  <2> QED BY <2>1
<1> QED BY <1>1, <1>2, <1>3, <1>4

\* What is pending, when timers are added
LEMMA Added ==
  ASSUME timers \in Seq(TimerSet), NEW t \in Seq(TimerSet), timers' = timers \o t
  PROVE  /\ timers' \in Seq(TimerSet)
         /\ \A i \in Pending("hide")' :
              \/ i \in Pending("hide") /\ timers'[i] = timers[i]
              \/ \E j \in DOMAIN t : t[j].what = "hide" /\ timers'[i] = t[j]
         /\ Pending("hide") # {} => Pending("hide")' # {}
         /\ (\E j \in DOMAIN t : t[j].what = "hide") => Pending("hide")' # {}
<1>1. /\ timers' \in Seq(TimerSet)
      /\ \A i \in DOMAIN timers' : \/ (i \in DOMAIN timers /\ timers'[i] = timers[i])
                                  \/ \E j \in DOMAIN t : timers'[i] = t[j]
      /\ \A i \in DOMAIN timers : i \in DOMAIN timers' /\ timers'[i] = timers[i]
      /\ \A j \in DOMAIN t : \E i \in DOMAIN timers' : timers'[i] = t[j]
  BY ConcatFacts
<1>2. \A i : /\ i \in Pending("hide") <=> i \in DOMAIN timers /\ timers[i].what = "hide"
             /\ i \in Pending("hide")' <=> i \in DOMAIN timers' /\ timers'[i].what = "hide"
  BY DEF Pending
<1>3. ASSUME NEW i \in Pending("hide")'
      PROVE  \/ i \in Pending("hide") /\ timers'[i] = timers[i]
             \/ \E j \in DOMAIN t : t[j].what = "hide" /\ timers'[i] = t[j]
  BY <1>1, <1>2
<1>4. ASSUME NEW i \in Pending("hide") PROVE i \in Pending("hide")'
  BY <1>1, <1>2
<1>5. ASSUME NEW j \in DOMAIN t, t[j].what = "hide" PROVE Pending("hide")' # {}
  <2>1. PICK i \in DOMAIN timers' : timers'[i] = t[j]
    BY <1>1
  <2> QED BY <1>2, <1>5, <2>1
<1> QED BY <1>1, <1>3, <1>4, <1>5

\* A timer that fires leaves the others as they are.
LEMMA Removed ==
  ASSUME timers \in Seq(TimerSet), NEW i \in DOMAIN timers, timers' = RemoveAt(timers, i)
  PROVE  /\ timers' \in Seq(TimerSet)
         /\ \A j \in Pending("hide")' : \E k \in Pending("hide") : timers'[j] = timers[k]
         /\ timers[i].what # "hide" /\ Pending("hide") # {} => Pending("hide")' # {}
<1>1. /\ RemoveAt(timers, i) \in Seq(TimerSet)
      /\ \A j \in DOMAIN RemoveAt(timers, i) :
           \E k \in DOMAIN timers \ {i} : RemoveAt(timers, i)[j] = timers[k]
      /\ \A k \in DOMAIN timers \ {i} :
           \E j \in DOMAIN RemoveAt(timers, i) : RemoveAt(timers, i)[j] = timers[k]
  BY RemoveAtFacts
<1>2. \A j \in Pending("hide")' : \E k \in Pending("hide") : timers'[j] = timers[k]
  BY <1>1 DEF Pending
<1>3. ASSUME timers[i].what # "hide", NEW k \in Pending("hide") PROVE Pending("hide")' # {}
  <2>1. k \in DOMAIN timers \ {i} /\ timers[k].what = "hide"
    BY <1>3 DEF Pending
  <2>2. PICK j \in DOMAIN timers' : timers'[j] = timers[k]
    BY <1>1, <2>1
  <2> QED BY <2>1, <2>2 DEF Pending
<1> QED BY <1>1, <1>2, <1>3

-----------------------------------------------------------------------------
(* Steps of the panel *)

\* _hide, by whichever event, keeps the invariant: a panel that was visible has a
\* post-hide timer pending afterwards.
LEMMA HideStep ==
  ASSUME PanelInv, NEW t \in Seq(TimerSet), \A j \in DOMAIN t : t[j].what # "hide",
         _hide(t), UNCHANGED <<config, scrolled, meant, location>>
  PROVE  PanelInv'
<1> DEFINE more == hide_timers \o t
<1> USE DEF PanelInv, PanelTypeOK
<1>1. config.delay \in Nat
  BY PanelAssumption
<1>2. /\ hide_timers \in Seq(TimerSet)
      /\ \A j \in DOMAIN hide_timers : hide_timers[j].left <= config.delay
      /\ visible => \E j \in DOMAIN hide_timers : hide_timers[j].what = "hide"
  <2>1. CASE visible
    <3>1. Timer("hide", config.delay, NoLink) \in TimerSet
      BY <1>1 DEF Timer, TimerSet
    <3>2. hide_timers = <<Timer("hide", config.delay, NoLink)>>
      BY <2>1 DEF hide_timers
    <3> QED BY <1>1, <3>1, <3>2 DEF Timer
  <2>2. CASE ~visible
    BY <2>2 DEF hide_timers
  <2> QED BY <2>1, <2>2
<1>3. /\ more \in Seq(TimerSet)
      /\ \A j \in DOMAIN more : more[j].what = "hide" => more[j].left <= config.delay
      /\ visible => \E j \in DOMAIN more : more[j].what = "hide"
  BY <1>2, ConcatFacts, SMTT(30)
<1>4. timers' = timers \o more
  <2>1. timers' = timers \o hide_timers \o t
    BY DEF _hide
  <2>2. (timers \o hide_timers) \o t = timers \o (hide_timers \o t)
    BY <1>2, ConcatAssociative
  <2> QED BY <2>1, <2>2
<1> HIDE DEF more
<1>5. visible' = FALSE /\ shown_for' = 0 /\ hidden_by' = IF visible THEN "_hide" ELSE hidden_by
  BY DEF _hide, Clock
<1>6. HideInTime'
  BY <1>3, <1>4, Added DEF HideInTime
<1>7. HiddenIsReset'
  <2>1. CASE visible
    BY <1>3, <1>4, <2>1, Added DEF HiddenIsReset
  <2>2. CASE ~visible
    <3>1. Pending("hide")' = {} => Pending("hide") = {}
      BY <1>3, <1>4, Added
    <3> QED BY <1>5, <2>2, <3>1 DEF HiddenIsReset
  <2> QED BY <2>1, <2>2
<1>8. timers' \in Seq(TimerSet)
  BY <1>3, <1>4, Added
<1>9. ResetSparesSettledPanel'
  BY <1>5 DEF ResetSparesSettledPanel
<1> QED BY <1>5, <1>6, <1>7, <1>8, <1>9

\* A link to the panel starts the time anew for which the panel is visible.
LEMMA LinkStep ==
  ASSUME PanelInv, visible' \in BOOLEAN, visible => ~visible', Clock(0), UNCHANGED timers,
         hidden_by' = IF visible THEN "link" ELSE hidden_by,
         UNCHANGED <<config, scrolled, meant, location>>
  PROVE  PanelInv'
<1> USE DEF PanelInv
<1>1. shown_for' = 0
  BY DEF Clock
<1>2. config.delay \in Nat
  BY PanelAssumption DEF PanelTypeOK
<1>3. PanelTypeOK' /\ HideInTime'
  BY <1>1 DEF PanelTypeOK, HideInTime, Pending
<1>4. ResetSparesSettledPanel'
  <2> SUFFICES ASSUME visible', NEW i \in Pending("hide")'
               PROVE  shown_for' + timers'[i].left <= config'.delay
    BY DEF ResetSparesSettledPanel
  <2>1. i \in Pending("hide") /\ timers[i] \in TimerSet
    BY DEF Pending, PanelTypeOK
  <2>2. timers[i].left <= config.delay /\ timers[i].left \in Nat
    BY <2>1 DEF HideInTime, TimerSet
  <2> QED BY <1>1, <1>2, <2>2
<1>5. HiddenIsReset'
  BY DEF HiddenIsReset, Pending
<1> QED BY <1>3, <1>4, <1>5

\* The steps that are not of these kinds, one by one
LEMMA TickStep == PanelInv /\ Tick => PanelInv'
<1> SUFFICES ASSUME PanelInv, Tick PROVE PanelInv'
  OBVIOUS
<1> USE DEF PanelInv
<1>1. /\ config.delay \in Nat /\ timers \in Seq(TimerSet) /\ shown_for \in Nat
      /\ \A i \in DOMAIN timers : timers[i].left > 0
      /\ timers' = [i \in DOMAIN timers |-> [timers[i] EXCEPT !.left = @ - 1]]
      /\ UNCHANGED <<config, visible, scrolled, hidden_by, form, location>>
  BY PanelAssumption DEF PanelTypeOK, Tick, PageStays
<1>2. meant' = meant
  BY <1>1 DEF form
<1>3. \A i \in DOMAIN timers :
        /\ timers'[i] \in TimerSet /\ timers'[i].what = timers[i].what
        /\ timers[i].left \in Nat /\ timers'[i].left = timers[i].left - 1
  <2> TAKE i \in DOMAIN timers
  <2>1. timers[i] \in TimerSet /\ timers[i].left > 0
    BY <1>1
  <2>2. PICK l \in Nat : l = timers[i].left /\ l > 0
    BY <2>1 DEF TimerSet
  <2>3. timers'[i] = [timers[i] EXCEPT !.left = l - 1]
    BY <1>1, <2>2
  <2>4. l - 1 \in Nat
    BY <2>2
  <2> QED BY <2>1, <2>2, <2>3, <2>4 DEF TimerSet
<1>4. DOMAIN timers' = DOMAIN timers /\ timers' \in Seq(TimerSet)
  <2>1. DOMAIN timers' = 1 .. Len(timers) /\ Len(timers) \in Nat
    BY <1>1
  <2>2. timers' = [i \in 1 .. Len(timers) |-> timers'[i]]
    BY <1>1, <2>1
  <2>3. \A i \in 1 .. Len(timers) : timers'[i] \in TimerSet
    BY <1>3, <2>1
  <2>4. timers' \in [1 .. Len(timers) -> TimerSet]
    BY <2>2, <2>3, Zenon
  <2> QED BY <2>1, <2>4, SeqDef
<1>5. Pending("hide")' = Pending("hide")
  BY <1>3, <1>4 DEF Pending
<1>6. \A i \in Pending("hide") :
        timers[i].left \in Nat /\ timers[i].left > 0 /\ timers'[i].left = timers[i].left - 1
  BY <1>1, <1>3 DEF Pending
<1>7. shown_for' = IF ~visible THEN 0
                   ELSE IF shown_for + 1 > config.delay THEN config.delay + 1 ELSE shown_for + 1
  BY <1>1 DEF Tick, Clock
<1>8. PanelTypeOK'
  BY <1>1, <1>4, <1>7 DEF PanelTypeOK
<1>9. HideInTime'
  <2> SUFFICES ASSUME NEW i \in Pending("hide") PROVE timers'[i].left <= config.delay
    BY <1>1, <1>5 DEF HideInTime
  <2>1. PICK l \in Nat : l = timers[i].left /\ timers'[i].left = l - 1 /\ l <= config.delay
    BY <1>6 DEF HideInTime
  <2> QED BY <1>1, <2>1
<1>10. ResetSparesSettledPanel'
  <2> SUFFICES ASSUME visible', NEW i \in Pending("hide")'
               PROVE  shown_for' + timers'[i].left <= config'.delay
    BY DEF ResetSparesSettledPanel
  <2>1. shown_for + timers[i].left <= config.delay
    BY <1>1, <1>5 DEF ResetSparesSettledPanel
  <2>2. PICK l \in Nat : l = timers[i].left /\ l > 0 /\ timers'[i].left = l - 1
    BY <1>5, <1>6
  <2>3. PICK s \in Nat : s = shown_for /\ s + l <= config.delay
    BY <1>1, <2>1, <2>2
  <2>4. ~(s + 1 > config.delay)
    BY <1>1, <2>2, <2>3
  <2>5. shown_for' = s + 1
    BY <1>1, <1>7, <2>3, <2>4
  <2> QED BY <1>1, <2>2, <2>3, <2>5
<1>11. HiddenIsReset'
  BY <1>1, <1>2, <1>5 DEF HiddenIsReset
<1> QED BY <1>8, <1>9, <1>10, <1>11

\* A timer that fires takes no time, and whatever else it does, a post-hide timer
\* leaves the panel reset.
LEMMA FireStep ==
  ASSUME PanelInv, NEW i \in DOMAIN timers, timers' = RemoveAt(timers, i), Clock(0),
         UNCHANGED <<config, visible, hidden_by, location>>,
         \/ timers[i].what # "hide" /\ UNCHANGED <<scrolled, meant>>
         \/ /\ config.resetScroll => ~scrolled'
            /\ config.resetForms => \A f \in Fields : meant'[f] = Empty
  PROVE  PanelInv'
<1> USE DEF PanelInv
<1>1. config.delay \in Nat /\ timers \in Seq(TimerSet) /\ shown_for \in Nat
  BY PanelAssumption DEF PanelTypeOK
<1>2. /\ timers' \in Seq(TimerSet)
      /\ \A j \in Pending("hide")' : \E k \in Pending("hide") : timers'[j] = timers[k]
      /\ timers[i].what # "hide" /\ Pending("hide") # {} => Pending("hide")' # {}
  BY <1>1, Removed
<1>3. shown_for' = IF ~visible THEN 0
                   ELSE IF shown_for > config.delay THEN config.delay + 1 ELSE shown_for
  BY <1>1 DEF Clock
<1>4. PanelTypeOK'
  BY <1>1, <1>2, <1>3 DEF PanelTypeOK
<1>5. HideInTime'
  BY <1>2 DEF HideInTime
<1>6. ResetSparesSettledPanel'
  <2> SUFFICES ASSUME visible', NEW j \in Pending("hide")'
               PROVE  shown_for' + timers'[j].left <= config'.delay
    BY DEF ResetSparesSettledPanel
  <2>1. PICK k \in Pending("hide") : timers'[j] = timers[k]
    BY <1>2
  <2>2. shown_for + timers[k].left <= config.delay
    BY DEF ResetSparesSettledPanel
  <2>3. timers[k] \in TimerSet
    BY <1>1 DEF Pending
  <2>4. PICK l \in Nat : l = timers[k].left
    BY <2>3 DEF TimerSet
  <2>5. ~(shown_for > config.delay)
    BY <1>1, <2>2, <2>4
  <2>6. shown_for' = shown_for
    BY <1>3, <2>5
  <2> QED BY <2>1, <2>2, <2>6
<1>7. HiddenIsReset'
  BY <1>2 DEF HiddenIsReset
<1> QED BY <1>4, <1>5, <1>6, <1>7

LEMMA ResetEmpties == reset => \A f \in Fields : meant'[f] = Empty
  BY DEF reset

\* Nobody uses a hidden panel when its post-hide timer has fired.
LEMMA UseStep == PanelInv /\ Use => PanelInv'
<1> SUFFICES ASSUME PanelInv, Use PROVE PanelInv'
  OBVIOUS
<1>1. UNCHANGED <<config, visible, timers, shown_for, hidden_by, location>>
  BY DEF Use, PageStays, history
<1>2. visible \/ Pending("hide") # {}
  BY DEF Use, Seen
<1> QED
  BY <1>1, <1>2 DEF PanelInv, PanelTypeOK, HideInTime, ResetSparesSettledPanel, HiddenIsReset, Pending

-----------------------------------------------------------------------------
(* The invariants of the specification *)

LEMMA PanelInitInv == Init => PanelInv
<1> SUFFICES ASSUME Init PROVE PanelInv
  OBVIOUS
<1>1. timers = <<>> /\ shown_for = 0 /\ config \in Configs /\ visible \in BOOLEAN /\ hidden_by = "link"
  BY DEF Init
<1>2. Pending("hide") = {}
  BY <1>1 DEF Pending
<1> QED
  BY <1>1, <1>2 DEF PanelInv, PanelTypeOK, HideInTime, ResetSparesSettledPanel, HiddenIsReset

LEMMA RedirectTimers ==
  ASSUME PanelInv, NEW l \in Links
  PROVE  redirects(l) \in Seq(TimerSet) /\ \A j \in DOMAIN redirects(l) : redirects(l)[j].what # "hide"
<1>1. config.delay + 1 \in Nat
  BY PanelAssumption DEF PanelInv, PanelTypeOK
<1>2. Timer("redirect", config.delay + 1, l) \in TimerSet
  BY <1>1 DEF Timer, TimerSet
<1> QED BY <1>2 DEF redirects, Timer

LEMMA NoMoreTimers == <<>> \in Seq(TimerSet) /\ \A j \in DOMAIN <<>> : <<>>[j].what # "hide"
  OBVIOUS

\* A click outside the panel is a click on a link to it or one that hides it.
LEMMA ClickStep ==
  ASSUME PanelInv, NEW where, click(where), UNCHANGED <<form, config, scrolled, location>>
  PROVE  PanelInv'
<1>1. UNCHANGED <<config, scrolled, meant, location>>
  BY DEF form
<1>2. CASE where = "toggle"
  <2>1. toggle
    BY <1>2 DEF click
  <2>2. visible' \in BOOLEAN /\ (visible => ~visible')
    BY <2>1, Zenon DEF toggle, PanelInv, PanelTypeOK
  <2> QED BY <1>1, <2>1, <2>2, LinkStep DEF toggle
<1>3. CASE where # "toggle"
  BY <1>1, <1>3, HideStep, NoMoreTimers DEF click
<1> QED BY <1>2, <1>3

LEMMA PanelStutter == PanelInv /\ UNCHANGED vars => PanelInv'
  BY DEF vars, form, panel, history, PanelInv, PanelTypeOK, HideInTime, ResetSparesSettledPanel,
         HiddenIsReset, Pending

LEMMA PanelStep == PanelInv /\ Next => PanelInv'
<1> SUFFICES ASSUME PanelInv, Next PROVE PanelInv'
  OBVIOUS
<1>1. CASE Tick
  BY <1>1, TickStep
<1>2. CASE PostHide
  <2>1. PICK i \in DOMAIN timers : post_hide(i)
    BY <1>2 DEF PostHide
  <2>2. config.resetScroll => ~scrolled'
    BY <2>1, Zenon DEF post_hide
  <2>3. config.resetForms => \A f \in Fields : meant'[f] = Empty
    BY <2>1, ResetEmpties DEF post_hide
  <2> QED BY <2>1, <2>2, <2>3, FireStep DEF post_hide, PageStays
<1>3. CASE Redirect
  <2>1. PICK i \in DOMAIN timers : redirect(i)
    BY <1>3 DEF Redirect
  <2> QED BY <2>1, FireStep DEF redirect, PageStays, form
<1>4. CASE Use
  BY <1>4, UseStep
<1>5. ASSUME NEW l \in Links, click_link(l) PROVE PanelInv'
  BY <1>5, HideStep, RedirectTimers DEF click_link, PageStays, form
<1>6. CASE touchstart
  BY <1>6 DEF touchstart, PageStays, form, history, PanelInv, PanelTypeOK, HideInTime,
         ResetSparesSettledPanel, HiddenIsReset, Pending
<1>7. ASSUME NEW m \in Moves, touchmove(m) PROVE PanelInv'
  BY <1>7, HideStep, NoMoreTimers DEF touchmove, PageStays, form
<1>8. CASE keydown_escape
  BY <1>8, HideStep, NoMoreTimers DEF keydown_escape, PageStays, form
<1>9. CASE click_self
  BY <1>9, LinkStep DEF click_self, PageStays, form
<1>10. CASE click_outside
  BY <1>10, ClickStep DEF click_outside, PageStays
<1>11. CASE click_of_tap
  BY <1>11, ClickStep DEF click_of_tap, PageStays
<1>12. ASSUME NEW where \in {"toggle", "body"}, touchend(where) PROVE PanelInv'
  BY <1>12, HideStep, NoMoreTimers DEF touchend, PageStays, form
<1>13. CASE Unload
  <2>1. /\ UNCHANGED <<config, visible, shown_for>> /\ timers' = <<>>
        /\ location' # NoLink
    BY <1>13 DEF Unload, history
  <2>2. Pending("hide")' = {}
    BY <2>1 DEF Pending
  <2> QED
    BY <2>1, <2>2 DEF PanelInv, PanelTypeOK, HideInTime, ResetSparesSettledPanel, HiddenIsReset
<1>14. CASE Replaced
  BY <1>14, PanelStutter DEF Replaced
<1> QED
  BY <1>1, <1>2, <1>3, <1>4, <1>5, <1>6, <1>7, <1>8, <1>9, <1>10, <1>11, <1>12, <1>13, <1>14
     DEF Next

\* The panel touches its form in Use and, to reset it, in the post-hide timer.
LEMMA FormMoves == Next => FormNext \/ UNCHANGED form
<1> SUFFICES ASSUME Next PROVE FormNext \/ UNCHANGED form
  OBVIOUS
<1>1. CASE PostHide
  BY <1>1 DEF PostHide, post_hide, FormNext
<1>2. CASE Use
  BY <1>2 DEF Use
<1> QED
  BY <1>1, <1>2 DEF Next, Tick, Redirect, redirect, click_link, touchstart, touchmove,
         keydown_escape, click_self, click_outside, click_of_tap, touchend, Unload, Replaced, vars

-----------------------------------------------------------------------------
(* Theorems *)

\* At every moment a submission would send what the user entered, never a hint;
\* the one exception is text appended to a hint that a reset put under his hands.
THEOREM SubmissionsSendWhatIsMeant == Spec => []SendsWhatIsMeant
<1>1. Init => FormInv
  BY FormInitInv DEF Init
<1>2. FormInv /\ [Next]_vars => FormInv'
  BY FormStep, FormStutter, FormMoves DEF vars
<1>3. FormInv => SendsWhatIsMeant
  BY DEF FormInv
<1> QED BY <1>1, <1>2, <1>3, PTL DEF Spec

\* A hidden password field is empty, and its twin stands in for it until the form
\* has been submitted.
THEOREM TwinAlwaysStandsIn == Spec => []TwinStandsIn
<1>1. Init => FormInv
  BY FormInitInv DEF Init
<1>2. FormInv /\ [Next]_vars => FormInv'
  BY FormStep, FormStutter, FormMoves DEF vars
<1>3. FormInv => TwinStandsIn
  BY DEF FormInv
<1> QED BY <1>1, <1>2, <1>3, PTL DEF Spec

LEMMA PanelInvHolds == Spec => []PanelInv
  BY PanelInitInv, PanelStep, PanelStutter, PTL DEF Spec

\* No post-hide timer resets a panel that has been visible for longer than delay,
\* however often it was opened and hidden before.
THEOREM SettledPanelsAreSpared == Spec => []ResetSparesSettledPanel
<1>1. PanelInv => ResetSparesSettledPanel
  BY DEF PanelInv
<1> QED BY <1>1, PanelInvHolds, PTL

\* A panel that _hide has hidden is reset once no post-hide timer is pending.
THEOREM HiddenPanelsAreReset == Spec => []HiddenIsReset
<1>1. PanelInv => HiddenIsReset
  BY DEF PanelInv
<1> QED BY <1>1, PanelInvHolds, PTL

-----------------------------------------------------------------------------
(* The redirects *)

\* Nothing is added to the redirects of this window, and none fires.
LEMMA SameSends ==
  ASSUME Sends' = Sends, \A i \in Sends : timers'[i].link = timers[i].link,
         UNCHANGED <<loading, last_link, location>>, LastLinkIsNext
  PROVE  LastLinkIsNext'
<1> DEFINE l == last_link
<1>1. Coming(l) => Coming(l)'
  BY DEF Coming
<1> QED BY <1>1 DEF LastLinkIsNext

LEMMA LastIsComing ==
  ASSUME NEW l
  PROVE  /\ Sends' = {} /\ loading' = l => Coming(l)'
         /\ \A i \in Sends' : timers'[i].link = l /\ (\A j \in Sends' : j <= i) => Coming(l)'
  BY DEF Coming

LEMMA SendsDef ==
  /\ \A i : i \in Sends <=> /\ i \in DOMAIN timers /\ timers[i].what = "redirect"
                            /\ timers[i].link \notin BlankLinks
  /\ \A i : i \in Sends' <=> /\ i \in DOMAIN timers' /\ timers'[i].what = "redirect"
                             /\ timers'[i].link \notin BlankLinks
  BY DEF Sends, Pending

\* What _hide adds, and redirects to windows of their own, come after.
LEMMA OthersAdded ==
  ASSUME timers \in Seq(TimerSet), NEW t \in Seq(TimerSet), timers' = timers \o t,
         \A j \in DOMAIN t : t[j].what = "hide" \/ t[j].link \in BlankLinks
  PROVE  Sends' = Sends /\ \A i \in Sends : timers'[i].link = timers[i].link
<1>1. /\ \A i \in DOMAIN timers' : \/ (i \in DOMAIN timers /\ timers'[i] = timers[i])
                                  \/ \E j \in DOMAIN t : timers'[i] = t[j]
      /\ \A i \in DOMAIN timers : i \in DOMAIN timers' /\ timers'[i] = timers[i]
  BY ConcatFacts
<1>2. ASSUME NEW i \in Sends' PROVE i \in Sends
  BY <1>1, SendsDef
<1>3. ASSUME NEW i \in Sends PROVE i \in Sends' /\ timers'[i] = timers[i]
  BY <1>1, SendsDef
<1> QED BY <1>2, <1>3

\* The timers of _hide are for hiding.
LEMMA HideTimers ==
  ASSUME PanelTypeOK
  PROVE  hide_timers \in Seq(TimerSet) /\ \A j \in DOMAIN hide_timers : hide_timers[j].what = "hide"
<1>1. Timer("hide", config.delay, NoLink) \in TimerSet
  BY PanelAssumption DEF Timer, TimerSet, PanelTypeOK
<1>2. CASE visible
  BY <1>1, <1>2 DEF hide_timers, Timer
<1>3. CASE ~visible
  BY <1>3 DEF hide_timers
<1> QED BY <1>2, <1>3

\* _hide without a link leaves the redirects as they are.
LEMMA HideSends ==
  ASSUME PanelTypeOK, _hide(<<>>)
  PROVE  Sends' = Sends /\ \A i \in Sends : timers'[i].link = timers[i].link
<1>1. timers' = timers \o hide_timers
  <2>1. timers' = timers \o hide_timers \o <<>>
    BY DEF _hide
  <2>2. timers \o hide_timers \in Seq(TimerSet)
    BY HideTimers, ConcatFacts DEF PanelTypeOK
  <2> QED BY <2>1, <2>2, ConcatEmptySeq
<1> QED BY <1>1, HideTimers, OthersAdded DEF PanelTypeOK

\* A timer that fires changes the places of those behind it, but not their order.
LEMMA SendsRemoved ==
  ASSUME timers \in Seq(TimerSet), NEW i \in DOMAIN timers, timers' = RemoveAt(timers, i)
  PROVE  /\ Sends \subseteq {i} => Sends' = {}
         /\ \A k \in Sends : k # i /\ (\A m \in Sends : m <= k) =>
              \E j \in Sends' : timers'[j].link = timers[k].link /\ \A m \in Sends' : m <= j
<1>1. i \in 1 .. Len(timers) /\ Len(timers) \in Nat /\ DOMAIN timers = 1 .. Len(timers)
  OBVIOUS
<1>2. /\ timers' \in Seq(TimerSet) /\ Len(timers') = Len(timers) - 1
      /\ \A j \in 1 .. Len(timers) - 1 : timers'[j] = IF j < i THEN timers[j] ELSE timers[j + 1]
  BY RemoveAtIs
<1>3. DOMAIN timers' = 1 .. Len(timers) - 1
  BY <1>1, <1>2
<1>4. ASSUME NEW m \in Sends'
      PROVE  \/ m \in Nat /\ m < i /\ m \in Sends
             \/ m \in Nat /\ m >= i /\ m + 1 \in Sends
  <2>1. m \in 1 .. Len(timers) - 1
    BY <1>3, SendsDef
  <2>2. CASE m < i
    <3>1. timers'[m] = timers[m] /\ m \in DOMAIN timers
      BY <1>1, <1>2, <2>1, <2>2
    <3> QED BY <2>1, <2>2, <3>1, SendsDef
  <2>3. CASE ~(m < i)
    <3>1. timers'[m] = timers[m + 1] /\ m + 1 \in DOMAIN timers
      BY <1>1, <1>2, <2>1, <2>3
    <3>2. m + 1 \in Sends
      BY <3>1, SendsDef
    <3> QED BY <1>1, <2>1, <2>3, <3>2
  <2> QED BY <2>2, <2>3
<1>5. ASSUME Sends \subseteq {i}, NEW m \in Sends' PROVE FALSE
  BY <1>1, <1>4, <1>5
<1>6. ASSUME NEW k \in Sends, k # i, \A m \in Sends : m <= k
      PROVE  \E j \in Sends' : timers'[j].link = timers[k].link /\ \A m \in Sends' : m <= j
  <2>1. k \in 1 .. Len(timers)
    BY <1>1, SendsDef
  <2>2. CASE k < i
    <3>1. k \in DOMAIN timers' /\ timers'[k] = timers[k]
      BY <1>1, <1>2, <1>3, <2>1, <2>2
    <3>2. k \in Sends'
      BY <3>1, SendsDef
    <3>3. ASSUME NEW m \in Sends' PROVE m <= k
      BY <1>1, <1>4, <1>6, <2>1, <2>2
    <3> QED BY <3>1, <3>2, <3>3
  <2>3. CASE ~(k < i)
    <3>1. k - 1 \in 1 .. Len(timers) - 1 /\ ~(k - 1 < i) /\ (k - 1) + 1 = k
      BY <1>1, <1>6, <2>1, <2>3
    <3>2. k - 1 \in DOMAIN timers' /\ timers'[k - 1] = timers[k]
      BY <1>2, <1>3, <3>1
    <3>3. k - 1 \in Sends'
      BY <3>2, SendsDef
    <3>4. ASSUME NEW m \in Sends' PROVE m <= k - 1
      BY <1>1, <1>4, <1>6, <2>1, <2>3
    <3> QED BY <3>2, <3>3, <3>4
  <2> QED BY <2>2, <2>3
<1> QED BY <1>5, <1>6

\* A post-hide timer is none of the redirects.
LEMMA PostHideSends ==
  ASSUME PanelTypeOK, LastLinkIsNext, NEW i \in DOMAIN timers, post_hide(i)
  PROVE  LastLinkIsNext'
<1> DEFINE l == last_link
<1>1. i \notin Sends
  BY SendsDef DEF post_hide
<1>2. UNCHANGED <<loading, last_link, location>> /\ timers' = RemoveAt(timers, i)
  BY DEF post_hide, browser, PageStays
<1>3. /\ Sends \subseteq {i} => Sends' = {}
      /\ \A k \in Sends : k # i /\ (\A m \in Sends : m <= k) =>
           \E j \in Sends' : timers'[j].link = timers[k].link /\ \A m \in Sends' : m <= j
  BY <1>2, SendsRemoved DEF PanelTypeOK
<1>4. Coming(l) => Coming(l)'
  BY <1>1, <1>2, <1>3 DEF Coming
<1> QED BY <1>2, <1>4 DEF LastLinkIsNext

\* The redirect that fires is the first one pending.
LEMMA RedirectSends ==
  ASSUME PanelTypeOK, LastLinkIsNext, NEW i \in DOMAIN timers, redirect(i)
  PROVE  LastLinkIsNext'
<1>0. PICK l : l = last_link
  OBVIOUS
<1>1. /\ UNCHANGED <<last_link, location>> /\ timers' = RemoveAt(timers, i)
      /\ timers[i].what = "redirect"
      /\ timers[i].link \in BlankLinks => loading' = loading
      /\ timers[i].link \notin BlankLinks => loading' = timers[i].link
  BY DEF redirect, goto, PageStays
<1>2. \A j \in DOMAIN timers : i <= j
  <2>1. \A j \in 1 .. i - 1 : FALSE
    BY <1>1 DEF redirect, due
  <2>2. DOMAIN timers = 1 .. Len(timers) /\ i \in Nat
    BY DEF PanelTypeOK
  <2> SUFFICES ASSUME NEW j \in DOMAIN timers, ~(i <= j) PROVE FALSE
    OBVIOUS
  <2>3. j \in 1 .. i - 1
    BY <2>2
  <2> QED BY <2>1, <2>3
<1>3. /\ Sends \subseteq {i} => Sends' = {}
      /\ \A k \in Sends : k # i /\ (\A m \in Sends : m <= k) =>
           \E j \in Sends' : timers'[j].link = timers[k].link /\ \A m \in Sends' : m <= j
  BY <1>1, SendsRemoved DEF PanelTypeOK
<1>4. i \in Sends <=> timers[i].link \notin BlankLinks
  BY <1>1, SendsDef
<1>5. ASSUME Coming(l) PROVE Coming(l)'
  <2>1. CASE Sends = {}
    BY <1>1, <1>3, <1>4, <1>5, <2>1 DEF Coming
  <2>2. CASE Sends # {}
    <3>1. PICK k \in Sends : timers[k].link = l /\ \A m \in Sends : m <= k
      BY <1>5, <2>2 DEF Coming
    <3>2. CASE k # i
      <4>1. PICK j \in Sends' : timers'[j].link = timers[k].link /\ \A m \in Sends' : m <= j
        BY <1>3, <3>1, <3>2
      <4>2. timers'[j].link = l
        BY <3>1, <4>1
      <4> QED BY <4>1, <4>2, LastIsComing
    <3>3. CASE k = i
      <4>1. Sends \subseteq {i}
        <5> SUFFICES ASSUME NEW m \in Sends PROVE m = i
          OBVIOUS
        <5>1. m \in DOMAIN timers /\ m <= i /\ i <= m
          BY <1>2, <3>1, <3>3, SendsDef
        <5>2. m \in Nat /\ i \in Nat
          BY <5>1 DEF PanelTypeOK
        <5> QED BY <5>1, <5>2
      <4>2. Sends' = {} /\ loading' = l
        BY <1>1, <1>3, <1>4, <3>1, <3>3, <4>1
      <4> QED BY <4>2, LastIsComing
    <3> QED BY <3>2, <3>3
  <2> QED BY <2>1, <2>2
<1> QED BY <1>0, <1>1, <1>5 DEF LastLinkIsNext

\* A click on a link puts its redirect behind all others.
LEMMA ClickSends ==
  ASSUME PanelTypeOK, LastLinkIsNext, NEW l \in Links, click_link(l)
  PROVE  LastLinkIsNext'
<1> DEFINE t == hide_timers \o redirects(l)
<1>1. /\ UNCHANGED <<loading, location>>
      /\ last_link' = IF l \in BlankLinks THEN last_link ELSE l
  BY DEF click_link, browser, PageStays
<1>2. redirects(l) \in Seq(TimerSet) /\ redirects(l) = <<Timer("redirect", config.delay + 1, l)>>
  <2>1. config.delay + 1 \in Nat
    BY PanelAssumption DEF PanelTypeOK
  <2>2. Timer("redirect", config.delay + 1, l) \in TimerSet
    BY <2>1 DEF Timer, TimerSet
  <2> QED BY <2>2 DEF redirects
<1>3. /\ t \in Seq(TimerSet)
      /\ \A j \in DOMAIN t : t[j].what = "hide" \/ t[j].link = l
  <2>1. \A j \in DOMAIN redirects(l) : redirects(l)[j].link = l
    BY <1>2 DEF Timer
  <2> QED BY <1>2, <2>1, HideTimers, ConcatFacts
<1>4. timers' = timers \o t
  <2>1. timers' = timers \o hide_timers \o redirects(l)
    BY DEF click_link, _hide
  <2>2. (timers \o hide_timers) \o redirects(l) = timers \o (hide_timers \o redirects(l))
    BY <1>2, HideTimers, ConcatAssociative DEF PanelTypeOK
  <2> QED BY <2>1, <2>2
<1>5. CASE l \in BlankLinks
  <2>1. Sends' = Sends /\ \A i \in Sends : timers'[i].link = timers[i].link
    BY <1>3, <1>4, <1>5, OthersAdded DEF PanelTypeOK
  <2> QED BY <1>1, <1>5, <2>1, SameSends
<1>6. CASE l \notin BlankLinks
  <2>1. PICK n \in Nat \ {0} : /\ DOMAIN timers' = 1 .. n
                              /\ timers'[n] = Timer("redirect", config.delay + 1, l)
    <3>1. /\ timers \o hide_timers \in Seq(TimerSet)
          /\ timers' = Append(timers \o hide_timers, Timer("redirect", config.delay + 1, l))
      <4>1. timers \o hide_timers \in Seq(TimerSet)
        BY HideTimers, ConcatFacts DEF PanelTypeOK
      <4>2. timers' = (timers \o hide_timers) \o <<Timer("redirect", config.delay + 1, l)>>
        BY <1>2 DEF click_link, _hide
      <4> QED BY <4>1, <4>2
    <3> DEFINE s == timers \o hide_timers
               e == Timer("redirect", config.delay + 1, l)
    <3>2. s \in Seq(TimerSet) /\ timers' = Append(s, e)
      BY <3>1
    <3> HIDE DEF s, e
    <3>3. Len(s) + 1 \in Nat \ {0} /\ DOMAIN timers' = 1 .. Len(s) + 1 /\ timers'[Len(s) + 1] = e
      BY <3>2
    <3> QED BY <3>3 DEF e
  <2>2. n \in Sends' /\ timers'[n].link = l
    BY <1>6, <2>1, SendsDef DEF Timer
  <2>3. \A m \in Sends' : m <= n
    BY <2>1, SendsDef
  <2>4. Coming(l)'
    BY <2>2, <2>3 DEF Coming
  <2>5. last_link' = l
    BY <1>1, <1>6
  <2> QED BY <2>4, <2>5 DEF LastLinkIsNext
<1> QED BY <1>5, <1>6

LEMMA SendsStep == PanelTypeOK /\ LastLinkIsNext /\ [Next]_vars => LastLinkIsNext'
<1> SUFFICES ASSUME PanelTypeOK, LastLinkIsNext, [Next]_vars PROVE LastLinkIsNext'
  OBVIOUS
<1> DEFINE Same == /\ Sends' = Sends /\ \A i \in Sends : timers'[i].link = timers[i].link
                   /\ UNCHANGED <<loading, last_link, location>>
<1>0. UNCHANGED timers => Sends' = Sends
  BY SendsDef
<1>1. CASE Tick
  <2>1. /\ UNCHANGED <<loading, last_link, location>>
        /\ timers' = [i \in DOMAIN timers |-> [timers[i] EXCEPT !.left = @ - 1]]
    BY <1>1 DEF Tick, PageStays, browser
  <2>2. \A i \in DOMAIN timers : timers[i] \in TimerSet
    BY DEF PanelTypeOK
  <2>3. /\ DOMAIN timers' = DOMAIN timers
        /\ \A i \in DOMAIN timers : /\ timers'[i].what = timers[i].what
                                    /\ timers'[i].link = timers[i].link
    BY <2>1, <2>2 DEF TimerSet
  <2>4. Sends' = Sends /\ \A i \in Sends : timers'[i].link = timers[i].link
    BY <2>3, SendsDef
  <2> QED BY <2>1, <2>4, SameSends
<1>2. CASE PostHide
  BY <1>2, PostHideSends DEF PostHide
<1>3. CASE Redirect
  BY <1>3, RedirectSends DEF Redirect
<1>4. CASE Unload
  BY <1>4 DEF Unload, LastLinkIsNext
<1>5. CASE Replaced \/ UNCHANGED vars
  BY <1>0, <1>5, SameSends DEF Replaced, vars, panel, browser, history
<1>6. CASE Use
  BY <1>0, <1>6, SameSends DEF Use, PageStays, browser, history
<1>7. ASSUME NEW l \in Links, click_link(l) PROVE LastLinkIsNext'
  BY <1>7, ClickSends
<1>8. CASE touchstart
  BY <1>0, <1>8, SameSends DEF touchstart, PageStays, browser, history
<1>9. ASSUME NEW m \in Moves, touchmove(m) PROVE LastLinkIsNext'
  BY <1>9, HideSends, SameSends DEF touchmove, PageStays, browser
<1>10. CASE keydown_escape
  BY <1>10, HideSends, SameSends DEF keydown_escape, PageStays, browser
<1>11. CASE click_self
  BY <1>0, <1>11, SameSends DEF click_self, PageStays, browser
<1>12. ASSUME NEW where, click(where), UNCHANGED <<browser, last_link, location>>
       PROVE  LastLinkIsNext'
  <2>1. CASE where = "toggle"
    BY <1>0, <1>12, <2>1, SameSends DEF click, toggle, browser
  <2>2. CASE where # "toggle"
    BY <1>12, <2>2, HideSends, SameSends DEF click, browser
  <2> QED BY <2>1, <2>2
<1>13. CASE click_outside
  BY <1>12, <1>13 DEF click_outside, PageStays
<1>14. CASE click_of_tap
  BY <1>12, <1>14 DEF click_of_tap, PageStays
<1>15. ASSUME NEW where \in {"toggle", "body"}, touchend(where) PROVE LastLinkIsNext'
  BY <1>15, HideSends, SameSends DEF touchend, PageStays, browser
<1> QED
  BY <1>1, <1>2, <1>3, <1>4, <1>5, <1>6, <1>7, <1>8, <1>9, <1>10, <1>11, <1>13, <1>14, <1>15
     DEF Next

\* The last link clicked in the panel is where the window is being sent, or will be
\* by the last redirect pending, however many clicks and hides there were.
THEOREM LastLinkNeverOverridden == Spec => []LastLinkIsNext
<1>1. Init => LastLinkIsNext
  BY DEF Init, LastLinkIsNext
<1>2. PanelInv => PanelTypeOK
  BY DEF PanelInv
<1> QED BY <1>1, <1>2, SendsStep, PanelInvHolds, PTL DEF Spec

-----------------------------------------------------------------------------
(* Moved elements: induction on the elements of a call *)

\* Every nonempty set of natural numbers has a least one.
LEMMA NatMin ==
  ASSUME NEW T \in SUBSET Nat, T # {}
  PROVE  \E x \in T : \A y \in T : x <= y
<1> DEFINE R == {ss \in Nat \X Nat : ss[1] < ss[2]}
<1>1. IsWellFoundedOn(R, Nat)
  BY NatLessThanWellFounded DEF OpToRel
<1> HIDE DEF R
<1>2. PICK x \in T : \A y \in T : ~ (<<y, x>> \in R)
  BY <1>1, WFMin
<1>3. ASSUME NEW y \in T PROVE x <= y
  <2>1. x \in Nat /\ y \in Nat
    OBVIOUS
  <2>2. ~ (y < x)
    BY <1>2, <2>1 DEF R
  <2> QED BY <2>1, <2>2
<1> QED BY <1>3

\* What holds at 0 and is passed on holds up to n.
LEMMA Climb ==
  ASSUME NEW n \in Nat, NEW S, 0 \in S, \A m \in S : m \in Nat /\ m < n => m + 1 \in S
  PROVE  \A m \in 0 .. n : m \in S
<1> DEFINE B == {m \in 0 .. n : m \notin S}
<1> SUFFICES ASSUME B # {} PROVE FALSE
  OBVIOUS
<1>1. PICK m \in B : \A k \in B : m <= k
  <2>1. B \in SUBSET Nat
    OBVIOUS
  <2> HIDE DEF B
  <2> QED BY <2>1, NatMin
<1>2. m \in 0 .. n /\ m \notin S /\ m # 0
  BY <1>1
<1>3. m - 1 \in 0 .. n /\ m - 1 < m
  BY <1>2
<1>4. m - 1 \notin B
  BY <1>1, <1>2, <1>3
<1>5. m - 1 \in S
  BY <1>3, <1>4
<1>6. m - 1 \in Nat /\ m - 1 < n /\ (m - 1) + 1 = m
  BY <1>2
<1> QED BY <1>2, <1>5, <1>6

-----------------------------------------------------------------------------
(* Arrangements of the elements *)

N == Cardinality(Elements)

Listing(cs) ==
  /\ cs \in [1 .. N -> Elements]
  /\ \A i, j \in 1 .. N : cs[i] = cs[j] => i = j
  /\ \A x \in Elements : \E i \in 1 .. N : cs[i] = x

\* The number of elements is finite.
LEMMA NType == N \in Nat
  BY PrioritizeAssumption, FS_CardinalityType DEF N

\* An arrangement is a sequence of N elements.
LEMMA ListingSeq ==
  ASSUME NEW cs, Listing(cs)
  PROVE  cs \in Seq(Elements) /\ Len(cs) = N /\ DOMAIN cs = 1 .. N
<1>1. cs \in [1 .. N -> Elements] /\ N \in Nat
  BY NType DEF Listing
<1> HIDE DEF N
<1> QED BY <1>1

\* The arrangements are the sequences in which each element is once.
LEMMA ListingsAreSeqs == \A cs : Listing(cs) <=> cs \in SetToSeqs(Elements)
<1> SUFFICES ASSUME NEW cs PROVE Listing(cs) <=> cs \in SetToSeqs(Elements)
  OBVIOUS
<1>1. Listing(cs) => cs \in SetToSeqs(Elements)
  BY DEF Listing, SetToSeqs, N
<1>2. ASSUME cs \in SetToSeqs(Elements) PROVE Listing(cs)
  <2>1. /\ cs \in [1 .. N -> Elements] /\ N \in Nat
        /\ \A i, j \in 1 .. N : cs[i] = cs[j] => i = j
    BY <1>2, NType DEF SetToSeqs, N
  <2>2. cs \in Injection(1 .. N, Elements)
    BY <2>1 DEF Injection, IsInjective
  <2>3. Cardinality(1 .. N) = Cardinality(Elements)
    BY <2>1, FS_Interval DEF N
  <2>4. cs \in Surjection(1 .. N, Elements)
    BY <2>2, <2>3, PrioritizeAssumption, FS_Injection
  <2> QED BY <2>1, <2>4 DEF Surjection, Listing
<1> QED BY <1>1, <1>2

\* The position of the element at i is i.
LEMMA PositionIs ==
  ASSUME NEW cs, Listing(cs), NEW i \in 1 .. N
  PROVE  Position(cs, cs[i]) = i
<1>1. DOMAIN cs = 1 .. N /\ \A j \in 1 .. N : cs[j] = cs[i] => j = i
  BY DEF Listing
<1> QED BY <1>1 DEF Position

\* At the position of x there is x.
LEMMA AtPosition ==
  ASSUME NEW cs, Listing(cs), NEW x \in Elements
  PROVE  Position(cs, x) \in 1 .. N /\ cs[Position(cs, x)] = x
<1>1. PICK i \in 1 .. N : cs[i] = x
  BY DEF Listing
<1> QED BY <1>1, PositionIs

\* One element is taken out.
LEMMA Without ==
  ASSUME NEW cs, Listing(cs), NEW a \in 1 .. N
  PROVE  LET rest == RemoveAt(cs, Position(cs, cs[a]))
         IN  /\ rest \in Seq(Elements) /\ Len(rest) = N - 1
             /\ \A j \in 1 .. N - 1 : rest[j] = IF j < a THEN cs[j] ELSE cs[j + 1]
             /\ \A j \in 1 .. N - 1 : Position(rest, rest[j]) = j
<1> DEFINE rest == RemoveAt(cs, a)
<1>1. Position(cs, cs[a]) = a
  BY PositionIs
<1>2. cs \in Seq(Elements) /\ Len(cs) = N /\ a \in DOMAIN cs /\ N \in Nat
  BY ListingSeq, NType
<1>3. /\ rest \in Seq(Elements) /\ Len(rest) = N - 1
      /\ \A j \in 1 .. N - 1 : rest[j] = IF j < a THEN cs[j] ELSE cs[j + 1]
  BY <1>2, RemoveAtIs
<1> HIDE DEF rest
<1>4. ASSUME NEW j \in 1 .. N - 1 PROVE Position(rest, rest[j]) = j
  <2>1. DOMAIN rest = 1 .. N - 1
    BY <1>2, <1>3
  <2>2. ASSUME NEW i \in 1 .. N - 1, rest[i] = rest[j] PROVE i = j
    <3> DEFINE At(k) == IF k < a THEN k ELSE k + 1
    <3>1. At(i) \in 1 .. N /\ At(j) \in 1 .. N
      BY <1>2
    <3>2. rest[i] = cs[At(i)] /\ rest[j] = cs[At(j)]
      BY <1>3
    <3>3. At(i) = At(j)
      BY <2>2, <3>1, <3>2 DEF Listing
    <3> QED BY <1>2, <3>3
  <2> QED BY <2>1, <2>2 DEF Position
<1> QED BY <1>1, <1>3, <1>4 DEF rest

\* t is s with the element e at position i, and those that were there behind it.
Inserts(t, s, i, e) ==
  /\ Len(t) = Len(s) + 1
  /\ \A j \in 1 .. Len(s) + 1 :
       t[j] = IF j < i THEN s[j] ELSE IF j = i THEN e ELSE s[j - 1]

\* What InsertAt returns.
LEMMA InsertAtIs ==
  ASSUME NEW S, NEW s \in Seq(S), NEW i \in 1 .. Len(s) + 1, NEW e \in S
  PROVE  InsertAt(s, i, e) \in Seq(S) /\ Inserts(InsertAt(s, i, e), s, i, e)
<1> DEFINE f == SubSeq(s, 1, i - 1)
           b == SubSeq(s, i, Len(s))
           n == Len(s)
<1>1. n \in Nat /\ i \in Int /\ 1 <= i /\ i <= n + 1 /\ \A j \in 1 .. n : s[j] \in S
  OBVIOUS
<1>2. /\ f \in Seq(S) /\ Len(f) = i - 1
      /\ \A j \in 1 .. i - 1 : f[j] = s[j]
  <2>1. \A j \in 1 .. i - 1 : s[j] \in S
    BY <1>1
  <2>2. /\ f \in Seq(S) /\ Len(f) = IF 1 <= i - 1 THEN i - 1 - 1 + 1 ELSE 0
        /\ \A j \in 1 .. i - 1 - 1 + 1 : f[j] = s[1 + j - 1]
    BY <1>1, <2>1, SubSeqProperties
  <2> QED BY <1>1, <2>2
<1>3. /\ b \in Seq(S) /\ Len(b) = n - i + 1
      /\ \A j \in 1 .. n - i + 1 : b[j] = s[i + j - 1]
  <2>1. \A j \in i .. n : s[j] \in S
    BY <1>1
  <2>2. /\ b \in Seq(S) /\ Len(b) = IF i <= n THEN n - i + 1 ELSE 0
        /\ \A j \in 1 .. n - i + 1 : b[j] = s[i + j - 1]
    BY <1>1, <2>1, SubSeqProperties
  <2> QED BY <1>1, <2>2
<1> DEFINE g == f \o <<e>>
<1> HIDE DEF f, b, n
<1>4. /\ g \in Seq(S) /\ Len(g) = i
      /\ \A j \in 1 .. i : g[j] = IF j < i THEN s[j] ELSE e
  <2>1. <<e>> \in Seq(S) /\ Len(<<e>>) = 1 /\ <<e>>[1] = e
    OBVIOUS
  <2>2. /\ g \in Seq(S) /\ Len(g) = (i - 1) + 1
        /\ \A j \in 1 .. (i - 1) + 1 : g[j] = IF j <= i - 1 THEN f[j] ELSE <<e>>[j - (i - 1)]
    <3> HIDE DEF g
    <3>1. /\ f \o <<e>> \in Seq(S) /\ Len(f \o <<e>>) = Len(f) + Len(<<e>>)
          /\ \A j \in 1 .. Len(f) + Len(<<e>>) :
               (f \o <<e>>)[j] = IF j <= Len(f) THEN f[j] ELSE <<e>>[j - Len(f)]
      BY <1>2, <2>1, ConcatProperties, Zenon
    <3> QED BY <1>2, <2>1, <3>1 DEF g
  <2> HIDE DEF g
  <2>3. ASSUME NEW j \in 1 .. i PROVE g[j] = IF j < i THEN s[j] ELSE e
    <3>1. CASE j < i
      BY <1>1, <1>2, <2>2, <3>1
    <3>2. CASE ~(j < i)
      <4>1. j = i /\ j - (i - 1) = 1 /\ ~(j <= i - 1) /\ j \in 1 .. (i - 1) + 1
        BY <1>1, <3>2
      <4> QED BY <2>1, <2>2, <3>2, <4>1
    <3> QED BY <3>1, <3>2
  <2> QED BY <1>1, <2>2, <2>3
<1> DEFINE r == g \o b
<1>5. InsertAt(s, i, e) = r
  BY DEF InsertAt, f, b, n
<1> HIDE DEF g
<1>6. /\ r \in Seq(S) /\ Len(r) = Len(g) + Len(b)
      /\ \A j \in 1 .. Len(g) + Len(b) : r[j] = IF j <= Len(g) THEN g[j] ELSE b[j - Len(g)]
  BY <1>3, <1>4, ConcatProperties, Zenon
<1> HIDE DEF r
<1>7. r \in Seq(S) /\ Len(r) = n + 1
  BY <1>1, <1>3, <1>4, <1>6
<1>8. ASSUME NEW j \in 1 .. n + 1
      PROVE  r[j] = IF j < i THEN s[j] ELSE IF j = i THEN e ELSE s[j - 1]
  <2>1. r[j] = IF j <= i THEN g[j] ELSE b[j - i]
    BY <1>1, <1>3, <1>4, <1>6
  <2>2. CASE j <= i
    BY <1>1, <1>4, <2>1, <2>2
  <2>3. CASE ~(j <= i)
    <3>1. j - i \in 1 .. n - i + 1 /\ i + (j - i) - 1 = j - 1 /\ ~(j < i) /\ j # i
      BY <1>1, <2>3
    <3> QED BY <1>3, <2>1, <2>3, <3>1
  <2> QED BY <2>2, <2>3
<1> QED BY <1>5, <1>7, <1>8 DEF n, Inserts

-----------------------------------------------------------------------------
(* Moves *)

\* The elements that no call names are in the same order.
SameOrder(cs, ds) ==
  \A x, y \in Elements \ Selected : Position(cs, x) < Position(cs, y) <=> Position(ds, x) < Position(ds, y)

\* ds has the elements of cs, of which m says where they were, and only x has
\* passed others.
LEMMA Rearranged ==
  ASSUME NEW cs, Listing(cs), NEW ds \in Seq(Elements), Len(ds) = N, NEW x \in Selected,
         NEW m \in [1 .. N -> 1 .. N],
         \A j \in 1 .. N : ds[j] = cs[m[j]],
         \A i, j \in 1 .. N : m[i] = m[j] => i = j,
         \A i \in 1 .. N : \E j \in 1 .. N : m[j] = i,
         \A i, j \in 1 .. N : i < j /\ ds[i] # x /\ ds[j] # x => m[i] < m[j]
  PROVE  Listing(ds) /\ SameOrder(cs, ds)
<1>0. N \in Nat
  BY NType
<1> HIDE DEF N
<1>1. ds \in [1 .. N -> Elements]
  BY <1>0
<1>2. \A j \in 1 .. N : m[j] \in 1 .. N /\ Position(cs, ds[j]) = m[j]
  <2> SUFFICES ASSUME NEW j \in 1 .. N PROVE m[j] \in 1 .. N /\ Position(cs, ds[j]) = m[j]
    OBVIOUS
  <2>1. m[j] \in 1 .. N
    OBVIOUS
  <2>2. Position(cs, cs[m[j]]) = m[j]
    BY <2>1, PositionIs
  <2> QED BY <2>1, <2>2
<1>3. ASSUME NEW i \in 1 .. N, NEW j \in 1 .. N, ds[i] = ds[j] PROVE i = j
  <2>1. m[i] = m[j]
    BY <1>2, <1>3
  <2> QED BY <2>1
<1>4. ASSUME NEW y \in Elements PROVE \E j \in 1 .. N : ds[j] = y
  <2>1. PICK i \in 1 .. N : cs[i] = y
    BY DEF Listing
  <2>2. PICK j \in 1 .. N : m[j] = i
    BY <2>1
  <2>3. ds[j] = cs[m[j]]
    BY <2>2
  <2> QED BY <2>1, <2>2, <2>3
<1>5. Listing(ds)
  BY <1>1, <1>3, <1>4 DEF Listing
<1>6. ASSUME NEW y \in Elements \ Selected, NEW z \in Elements \ Selected
      PROVE  Position(cs, y) < Position(cs, z) <=> Position(ds, y) < Position(ds, z)
  <2>1. PICK i \in 1 .. N : ds[i] = y
    BY <1>4
  <2>2. PICK j \in 1 .. N : ds[j] = z
    BY <1>4
  <2>3. Position(ds, y) = i /\ Position(ds, z) = j
    BY <1>5, <2>1, <2>2, PositionIs
  <2>4. Position(cs, y) = m[i] /\ Position(cs, z) = m[j]
    BY <1>2, <2>1, <2>2
  <2>5. ds[i] # x /\ ds[j] # x
    BY <2>1, <2>2
  <2>6. i < j => m[i] < m[j]
    BY <2>5
  <2>7. j < i => m[j] < m[i]
    BY <2>5
  <2>8. i \in Nat /\ j \in Nat /\ m[i] \in Nat /\ m[j] \in Nat
    <3>1. m[i] \in 1 .. N
      BY <1>2
    <3>2. m[j] \in 1 .. N
      BY <1>2
    <3>3. \A p \in 1 .. N : p \in Nat
      BY <1>0
    <3> QED BY <3>1, <3>2, <3>3
  <2>9. CASE i = j
    BY <2>3, <2>4, <2>8, <2>9
  <2>10. CASE i < j
    BY <2>3, <2>4, <2>6, <2>8, <2>10
  <2>11. CASE j < i
    BY <2>3, <2>4, <2>7, <2>8, <2>11
  <2> QED BY <2>8, <2>9, <2>10, <2>11
<1> QED BY <1>5, <1>6 DEF SameOrder

\* What is where after prependTo of the element at a.
LEMMA Prepended ==
  ASSUME NEW cs, Listing(cs), NEW a \in 1 .. N
  PROVE  LET ds == prependTo(cs, cs[a])
         IN  /\ ds \in Seq(Elements) /\ Len(ds) = N
             /\ \A j \in 1 .. N : ds[j] = IF j = 1 THEN cs[a] ELSE IF j <= a THEN cs[j - 1] ELSE cs[j]
<1> DEFINE rest == RemoveAt(cs, Position(cs, cs[a]))
           x == cs[a]
           ds == <<x>> \o rest
<1>1. N \in Nat /\ x \in Elements
  <2>1. cs \in [1 .. N -> Elements]
    BY DEF Listing
  <2> QED BY <2>1, NType
<1>2. /\ rest \in Seq(Elements) /\ Len(rest) = N - 1
      /\ \A j \in 1 .. N - 1 : rest[j] = IF j < a THEN cs[j] ELSE cs[j + 1]
  BY Without
<1>3. prependTo(cs, cs[a]) = ds
  BY DEF prependTo
<1> HIDE DEF rest, x, N
<1>4. <<x>> \in Seq(Elements) /\ Len(<<x>>) = 1 /\ <<x>>[1] = x
  BY <1>1
<1>5. /\ ds \in Seq(Elements) /\ Len(ds) = 1 + (N - 1)
      /\ \A j \in 1 .. 1 + (N - 1) : ds[j] = IF j <= 1 THEN <<x>>[j] ELSE rest[j - 1]
  <2> DEFINE top == <<x>>
  <2> HIDE DEF top
  <2>1. /\ top \o rest \in Seq(Elements) /\ Len(top \o rest) = Len(top) + Len(rest)
        /\ \A j \in 1 .. Len(top) + Len(rest) :
             (top \o rest)[j] = IF j <= Len(top) THEN top[j] ELSE rest[j - Len(top)]
    <3>1. top \in Seq(Elements) /\ rest \in Seq(Elements)
      BY <1>2, <1>4 DEF top
    <3> QED BY <3>1, ConcatProperties, Zenon
  <2>2. Len(top) = 1
    BY <1>4 DEF top
  <2>3. ds = top \o rest
    BY DEF ds, top
  <2> QED BY <1>1, <1>2, <2>1, <2>2, <2>3 DEF top
<1> HIDE DEF ds
<1>6. ASSUME NEW j \in 1 .. N
      PROVE  ds[j] = IF j = 1 THEN x ELSE IF j <= a THEN cs[j - 1] ELSE cs[j]
  <2>1. CASE j = 1
    BY <1>1, <1>4, <1>5, <2>1
  <2>2. CASE j # 1
    <3>1. j - 1 \in 1 .. N - 1 /\ (j - 1) + 1 = j /\ ~(j <= 1) /\ j \in 1 .. 1 + (N - 1)
      BY <1>1, <2>2
    <3>2. ds[j] = rest[j - 1]
      BY <1>5, <3>1
    <3>3. rest[j - 1] = IF j - 1 < a THEN cs[j - 1] ELSE cs[j]
      BY <1>2, <3>1
    <3> QED BY <2>2, <3>1, <3>2, <3>3
  <2> QED BY <2>1, <2>2
<1>7. ds \in Seq(Elements) /\ Len(ds) = N
  BY <1>1, <1>5
<1> QED BY <1>3, <1>6, <1>7, Zenon DEF x

\* prependTo of an element of Selected moves only that element.
LEMMA PrependMoves ==
  ASSUME NEW cs, Listing(cs), NEW a \in 1 .. N, cs[a] \in Selected
  PROVE  Listing(prependTo(cs, cs[a])) /\ SameOrder(cs, prependTo(cs, cs[a]))
<1> DEFINE ds == prependTo(cs, cs[a])
           m == [j \in 1 .. N |-> IF j = 1 THEN a ELSE IF j <= a THEN j - 1 ELSE j]
<1>0. N \in Nat
  BY NType
<1>1. /\ ds \in Seq(Elements) /\ Len(ds) = N
      /\ \A j \in 1 .. N : ds[j] = IF j = 1 THEN cs[a] ELSE IF j <= a THEN cs[j - 1] ELSE cs[j]
  BY Prepended
<1> HIDE DEF ds
<1>2. m \in [1 .. N -> 1 .. N]
  BY <1>0
<1>3. \A j \in 1 .. N : m[j] = IF j = 1 THEN a ELSE IF j <= a THEN j - 1 ELSE j
  OBVIOUS
<1> HIDE DEF m, N
<1>4. \A j \in 1 .. N : ds[j] = cs[m[j]]
  BY <1>1, <1>3
<1>5. \A i, j \in 1 .. N : m[i] = m[j] => i = j
  BY <1>0, <1>3
<1>6. ASSUME NEW i \in 1 .. N PROVE \E j \in 1 .. N : m[j] = i
  <2> DEFINE j == IF i = a THEN 1 ELSE IF i < a THEN i + 1 ELSE i
  <2>1. j \in 1 .. N /\ m[j] = i
    BY <1>0, <1>3
  <2> QED BY <2>1
<1>7. \A i, j \in 1 .. N : i < j /\ ds[i] # cs[a] /\ ds[j] # cs[a] => m[i] < m[j]
  <2> SUFFICES ASSUME NEW i \in 1 .. N, NEW j \in 1 .. N, i < j, ds[i] # cs[a] PROVE m[i] < m[j]
    OBVIOUS
  <2>1. i # 1
    BY <1>1
  <2> QED BY <1>0, <1>3, <2>1
<1> QED BY <1>1, <1>2, <1>4, <1>5, <1>6, <1>7, Rearranged DEF ds

\* What is where after insertAfter of the element at a, behind the one at b.
LEMMA Inserted ==
  ASSUME NEW cs, Listing(cs), NEW a \in 1 .. N, NEW b \in 1 .. N, a # b
  PROVE  LET ds == insertAfter(cs, cs[a], cs[b])
             i == IF b < a THEN b + 1 ELSE b
         IN  /\ ds \in Seq(Elements) /\ Len(ds) = N
             /\ \A j \in 1 .. N :
                  ds[j] = IF j = i THEN cs[a]
                          ELSE IF j < i THEN (IF j < a THEN cs[j] ELSE cs[j + 1])
                          ELSE (IF j - 1 < a THEN cs[j - 1] ELSE cs[j])
<1> DEFINE rest == RemoveAt(cs, Position(cs, cs[a]))
           q == IF b < a THEN b ELSE b - 1
           i == IF b < a THEN b + 1 ELSE b
           ds == InsertAt(rest, i, cs[a])
<1>1. N \in Nat /\ cs[a] \in Elements
  BY NType DEF Listing
<1>2. /\ rest \in Seq(Elements) /\ Len(rest) = N - 1
      /\ \A j \in 1 .. N - 1 : rest[j] = IF j < a THEN cs[j] ELSE cs[j + 1]
      /\ \A j \in 1 .. N - 1 : Position(rest, rest[j]) = j
  BY Without
<1> HIDE DEF rest
<1>3. q \in 1 .. N - 1 /\ i = q + 1 /\ i \in 1 .. N
  BY <1>1
<1>4. rest[q] = cs[b]
  BY <1>1, <1>2, <1>3
<1>5. Position(rest, cs[b]) + 1 = i
  BY <1>2, <1>3, <1>4
<1>6. insertAfter(cs, cs[a], cs[b]) = ds
  BY <1>5 DEF insertAfter, rest
<1> HIDE DEF q
<1>7. /\ ds \in Seq(Elements) /\ Len(ds) = N
      /\ \A j \in 1 .. N : ds[j] = IF j < i THEN rest[j] ELSE IF j = i THEN cs[a] ELSE rest[j - 1]
  <2>1. i \in 1 .. Len(rest) + 1 /\ Len(rest) + 1 = N
    BY <1>1, <1>2, <1>3
  <2> DEFINE e == cs[a]
  <2>2. e \in Elements /\ rest \in Seq(Elements) /\ ds = InsertAt(rest, i, e)
    BY <1>1, <1>2
  <2> HIDE DEF i, ds, e
  <2>3. InsertAt(rest, i, e) \in Seq(Elements) /\ Inserts(InsertAt(rest, i, e), rest, i, e)
    <3>1. rest \in Seq(Elements)
      BY <2>2
    <3>2. i \in 1 .. Len(rest) + 1
      BY <2>1
    <3>3. e \in Elements
      BY <2>2
    <3> QED BY ONLY <3>1, <3>2, <3>3, InsertAtIs
  <2> QED BY <2>1, <2>2, <2>3 DEF e, Inserts
<1> HIDE DEF ds
<1>8. ASSUME NEW j \in 1 .. N
      PROVE  ds[j] = IF j = i THEN cs[a]
                     ELSE IF j < i THEN (IF j < a THEN cs[j] ELSE cs[j + 1])
                     ELSE (IF j - 1 < a THEN cs[j - 1] ELSE cs[j])
  <2>1. i \in 1 .. N
    BY <1>3
  <2> HIDE DEF i
  <2>2. CASE j < i
    <3>1. j \in 1 .. N - 1
      BY <1>1, <2>1, <2>2
    <3> QED BY <1>2, <1>7, <2>1, <2>2, <3>1
  <2>3. CASE j = i
    BY <1>7, <2>1, <2>3
  <2>4. CASE i < j
    <3>1. j - 1 \in 1 .. N - 1 /\ (j - 1) + 1 = j /\ ~(j < i) /\ j # i
      BY <1>1, <2>1, <2>4
    <3>2. ds[j] = rest[j - 1]
      BY <1>7, <3>1
    <3>3. rest[j - 1] = IF j - 1 < a THEN cs[j - 1] ELSE cs[j]
      BY <1>2, <3>1
    <3> QED BY <3>1, <3>2, <3>3
  <2> QED BY <1>1, <2>1, <2>2, <2>3, <2>4
<1> QED BY <1>6, <1>7, <1>8

\* insertAfter of an element of Selected moves only that element.
LEMMA InsertMoves ==
  ASSUME NEW cs, Listing(cs), NEW a \in 1 .. N, NEW b \in 1 .. N, a # b, cs[a] \in Selected
  PROVE  Listing(insertAfter(cs, cs[a], cs[b])) /\ SameOrder(cs, insertAfter(cs, cs[a], cs[b]))
<1> DEFINE ds == insertAfter(cs, cs[a], cs[b])
           i == IF b < a THEN b + 1 ELSE b
           back(j) == IF j < i THEN j ELSE j - 1
           m == [j \in 1 .. N |-> IF j = i THEN a ELSE IF back(j) < a THEN back(j) ELSE back(j) + 1]
<1>0. N \in Nat /\ i \in 1 .. N
  BY NType
<1>1. /\ ds \in Seq(Elements) /\ Len(ds) = N
      /\ \A j \in 1 .. N :
           ds[j] = IF j = i THEN cs[a]
                   ELSE IF j < i THEN (IF j < a THEN cs[j] ELSE cs[j + 1])
                   ELSE (IF j - 1 < a THEN cs[j - 1] ELSE cs[j])
  BY Inserted
<1> HIDE DEF ds, i
<1>2. m \in [1 .. N -> 1 .. N]
  BY <1>0
<1>3. \A j \in 1 .. N : m[j] = IF j = i THEN a ELSE IF back(j) < a THEN back(j) ELSE back(j) + 1
  OBVIOUS
<1> HIDE DEF m, N
<1>4. ASSUME NEW j \in 1 .. N PROVE ds[j] = cs[m[j]]
  <2>1. (j - 1) + 1 = j
    BY <1>0
  <2> QED BY <1>0, <1>1, <1>3, <2>1
<1>5. \A k, j \in 1 .. N : m[k] = m[j] => k = j
  BY <1>0, <1>3
<1>6. ASSUME NEW k \in 1 .. N PROVE \E j \in 1 .. N : m[j] = k
  <2> DEFINE l == IF k < a THEN k ELSE k - 1
             j == IF k = a THEN i ELSE IF l < i THEN l ELSE l + 1
  <2>1. j \in 1 .. N /\ m[j] = k
    BY <1>0, <1>3
  <2> QED BY <2>1
<1>7. \A k, j \in 1 .. N : k < j /\ ds[k] # cs[a] /\ ds[j] # cs[a] => m[k] < m[j]
  <2> SUFFICES ASSUME NEW k \in 1 .. N, NEW j \in 1 .. N, k < j, ds[k] # cs[a], ds[j] # cs[a]
               PROVE  m[k] < m[j]
    OBVIOUS
  <2>1. k # i /\ j # i
    BY <1>1
  <2> QED BY <1>0, <1>3, <2>1
<1> QED BY <1>1, <1>2, <1>4, <1>5, <1>6, <1>7, Rearranged DEF ds

\* The move to the top, and the move back behind the element that stood before
LEMMA BackAgain ==
  ASSUME NEW cs, Listing(cs), NEW a \in 2 .. N, cs[a] \in Selected
  PROVE  insertAfter(prependTo(cs, cs[a]), cs[a], cs[a - 1]) = cs
<1> DEFINE us == prependTo(cs, cs[a])
           ds == insertAfter(us, us[1], us[a])
<1>0. N \in Nat /\ 1 \in 1 .. N /\ a \in 1 .. N /\ a # 1
  BY NType
<1>1. \A j \in 1 .. N : us[j] = IF j = 1 THEN cs[a] ELSE IF j <= a THEN cs[j - 1] ELSE cs[j]
  BY <1>0, Prepended
<1>2. Listing(us)
  BY <1>0, PrependMoves
<1>3. us[1] = cs[a] /\ us[a] = cs[a - 1]
  BY <1>0, <1>1
<1> HIDE DEF us
<1>4. /\ ds \in Seq(Elements) /\ Len(ds) = N
      /\ \A j \in 1 .. N :
           ds[j] = IF j = a THEN us[1]
                   ELSE IF j < a THEN (IF j < 1 THEN us[j] ELSE us[j + 1])
                   ELSE (IF j - 1 < 1 THEN us[j - 1] ELSE us[j])
  <2>1. ~(a < 1)
    BY <1>0
  <2> QED BY <1>0, <1>2, <2>1, Inserted
<1> HIDE DEF ds
<1>5. ASSUME NEW j \in 1 .. N PROVE ds[j] = cs[j]
  <2>1. CASE j = a
    BY <1>3, <1>4, <2>1
  <2>2. CASE j < a
    <3>1. j + 1 \in 1 .. N /\ j + 1 # 1 /\ j + 1 <= a /\ (j + 1) - 1 = j /\ ~(j < 1) /\ j # a
      BY <1>0, <2>2
    <3> QED BY <1>1, <1>4, <2>2, <3>1
  <2>3. CASE a < j
    <3>1. ~(j <= a) /\ j # 1 /\ ~(j - 1 < 1) /\ ~(j < a) /\ j # a
      BY <1>0, <2>3
    <3> QED BY <1>1, <1>4, <3>1
  <2> QED BY <1>0, <2>1, <2>2, <2>3
<1>6. ds = cs
  BY <1>4, <1>5, ListingSeq, SeqEqual
<1> QED BY <1>3, <1>6 DEF ds, us
-----------------------------------------------------------------------------
(* One element *)

StateOK(s) ==
  /\ Listing(s.children)
  /\ s.key \in [Elements -> Elements \cup {Unmarked}]
  /\ \A x \in Elements : s.key[x] # x
  /\ \A x \in Elements \ Selected : s.key[x] = Unmarked

\* The marked elements are the first ones.
OnTop(s) ==
  \A i, j \in 1 .. N :
    i < j /\ s.key[s.children[j]] # Unmarked => s.key[s.children[i]] # Unmarked

\* The early returns of each(): the mark agrees with the condition, or there is no
\* previous element.
LEMMA Stays ==
  ASSUME NEW s, NEW x, NEW c \in BOOLEAN,
         (s.key[x] = Unmarked) # c \/ (c /\ s.children[1] = x)
  PROVE  Step(s, x, c) = s
<1>1. CASE (s.key[x] = Unmarked) # c
  BY <1>1 DEF Step
<1>2. CASE c /\ s.children[1] = x
  BY <1>2 DEF Step, MoveUp
<1> QED BY <1>1, <1>2

\* t is s after the a-th element, x, has moved to the top.
Raised(s, t, x, a) ==
  /\ s.children[a] = x
  /\ Position(s.children, x) = a
  /\ t.children = prependTo(s.children, x)
  /\ \A j \in 1 .. N :
       t.children[j] = IF j = 1 THEN x ELSE IF j <= a THEN s.children[j - 1] ELSE s.children[j]
  /\ t.key = [s.key EXCEPT ![x] = s.children[a - 1]]
  /\ StateOK(t) /\ SameOrder(s.children, t.children)

\* An unmarked element that is not the first one moves to the top.
LEMMA Up ==
  ASSUME NEW s, StateOK(s), NEW x \in Selected, s.key[x] = Unmarked, s.children[1] # x
  PROVE  \E a \in 2 .. N : Raised(s, Step(s, x, TRUE), x, a)
<1> DEFINE t == Step(s, x, TRUE)
<1> DEFINE cs == s.children
           a == Position(cs, x)
<1>1. Listing(cs) /\ x \in Elements /\ N \in Nat
  BY PrioritizeAssumption, NType DEF StateOK
<1>2. a \in 1 .. N /\ cs[a] = x
  BY <1>1, AtPosition
<1>3. t = [children |-> prependTo(cs, x), key |-> [s.key EXCEPT ![x] = cs[a - 1]]]
  BY DEF Step, MoveUp
<1> HIDE DEF t
<1>4. t.children = prependTo(cs, x) /\ t.key = [s.key EXCEPT ![x] = cs[a - 1]]
  <2> DEFINE p == prependTo(cs, x)
             q == [s.key EXCEPT ![x] = cs[a - 1]]
  <2>1. t = [children |-> p, key |-> q]
    BY <1>3
  <2> HIDE DEF p, q
  <2>2. t.children = p /\ t.key = q
    BY ONLY <2>1
  <2> QED BY <2>2 DEF p, q
<1>5. a # 1
  BY <1>2
<1> HIDE DEF a, N
<1>6. a \in 2 .. N /\ a - 1 \in 1 .. N /\ a - 1 # a
  BY <1>1, <1>2, <1>5
<1>7. \A j \in 1 .. N : t.children[j] = IF j = 1 THEN x ELSE IF j <= a THEN cs[j - 1] ELSE cs[j]
  <2>1. LET ds == prependTo(cs, cs[a])
        IN  \A j \in 1 .. N : ds[j] = IF j = 1 THEN cs[a] ELSE IF j <= a THEN cs[j - 1] ELSE cs[j]
    BY <1>1, <1>2, Prepended
  <2> QED BY <1>2, <1>4, <2>1
<1>8. Listing(t.children) /\ SameOrder(cs, t.children)
  <2>1. a \in 1 .. N /\ cs[a] \in Selected
    BY <1>2
  <2>2. Listing(prependTo(cs, cs[a])) /\ SameOrder(cs, prependTo(cs, cs[a]))
    BY <1>1, <2>1, PrependMoves
  <2> QED BY <1>2, <1>4, <2>2
<1>9. cs[a - 1] \in Elements /\ cs[a - 1] # x
  BY <1>1, <1>2, <1>6 DEF Listing
<1>10. StateOK(t)
  BY <1>1, <1>4, <1>8, <1>9 DEF StateOK
<1>11. Raised(s, t, x, a)
  BY <1>2, <1>4, <1>7, <1>8, <1>10 DEF a, Raised
<1> QED BY <1>6, <1>11 DEF t

\* t is s after the element x has gone back.
Lowered(s, t, x) ==
  /\ t.children = insertAfter(s.children, x, s.key[x])
  /\ t.key = [s.key EXCEPT ![x] = Unmarked]
  /\ StateOK(t) /\ SameOrder(s.children, t.children)

\* A marked element goes back.
LEMMA Back ==
  ASSUME NEW s, StateOK(s), NEW x \in Selected, s.key[x] # Unmarked
  PROVE  Lowered(s, Step(s, x, FALSE), x)
<1> DEFINE t == Step(s, x, FALSE)
<1> DEFINE cs == s.children
           a == Position(cs, x)
           b == Position(cs, s.key[x])
<1>1. Listing(cs) /\ x \in Elements /\ s.key[x] \in Elements /\ s.key[x] # x
  BY PrioritizeAssumption DEF StateOK
<1>2. a \in 1 .. N /\ cs[a] = x /\ b \in 1 .. N /\ cs[b] = s.key[x]
  BY <1>1, AtPosition
<1>3. t = [children |-> insertAfter(cs, x, s.key[x]), key |-> [s.key EXCEPT ![x] = Unmarked]]
  BY DEF Step, MoveBack
<1> HIDE DEF t
<1>4. t.children = insertAfter(cs, x, s.key[x]) /\ t.key = [s.key EXCEPT ![x] = Unmarked]
  <2> DEFINE p == insertAfter(cs, x, s.key[x])
             q == [s.key EXCEPT ![x] = Unmarked]
  <2>1. t = [children |-> p, key |-> q]
    BY <1>3
  <2> HIDE DEF p, q
  <2>2. t.children = p /\ t.key = q
    BY ONLY <2>1
  <2> QED BY <2>2 DEF p, q
<1> HIDE DEF a, b, N
<1>5. Listing(t.children) /\ SameOrder(cs, t.children)
  <2>1. Listing(insertAfter(cs, cs[a], cs[b])) /\ SameOrder(cs, insertAfter(cs, cs[a], cs[b]))
    BY <1>1, <1>2, InsertMoves
  <2> QED BY <1>2, <1>4, <2>1
<1>6. StateOK(t)
  <2>1. t.key \in [Elements -> Elements \cup {Unmarked}]
    BY <1>1, <1>4 DEF StateOK
  <2>2. \A y \in Elements : t.key[y] = IF y = x THEN Unmarked ELSE s.key[y]
    BY <1>1, <1>4 DEF StateOK
  <2>3. x # Unmarked
    BY <1>1, PrioritizeAssumption
  <2> QED BY <1>5, <2>1, <2>2, <2>3 DEF StateOK
<1>7. Lowered(s, t, x)
  BY <1>4, <1>5, <1>6 DEF Lowered
<1> QED BY <1>7 DEF t

\* Whatever each() does for an element, the others keep their order.
LEMMA StepKeeps ==
  ASSUME NEW s, StateOK(s), NEW x \in Selected, NEW c \in BOOLEAN
  PROVE  StateOK(Step(s, x, c)) /\ SameOrder(s.children, Step(s, x, c).children)
<1>1. SameOrder(s.children, s.children)
  BY DEF SameOrder
<1>2. CASE (s.key[x] = Unmarked) # c \/ (c /\ s.children[1] = x)
  BY <1>1, <1>2, Stays
<1>3. CASE c = TRUE /\ s.key[x] = Unmarked /\ s.children[1] # x
  BY <1>3, Up DEF Raised
<1>4. CASE c = FALSE /\ s.key[x] # Unmarked
  BY <1>4, Back DEF Lowered
<1> QED BY <1>2, <1>3, <1>4

\* A move to the top leaves the marked elements on top.
LEMMA UpOnTop ==
  ASSUME NEW s, StateOK(s), OnTop(s), NEW x \in Selected
  PROVE  OnTop(Step(s, x, TRUE))
<1> DEFINE t == Step(s, x, TRUE)
<1>1. CASE s.key[x] # Unmarked \/ s.children[1] = x
  <2>1. t = s
    BY <1>1, Stays
  <2> QED BY <2>1
<1>2. CASE s.key[x] = Unmarked /\ s.children[1] # x
  <2>a. PICK a \in 2 .. N : Raised(s, t, x, a)
    BY <1>2, Up
  <2> HIDE DEF t
  <2>1. /\ s.children[a] = x
        /\ \A j \in 1 .. N :
             t.children[j] = IF j = 1 THEN x ELSE IF j <= a THEN s.children[j - 1] ELSE s.children[j]
        /\ t.key = [s.key EXCEPT ![x] = s.children[a - 1]]
        /\ StateOK(t)
    BY <2>a DEF Raised
  <2>2. N \in Nat /\ x \in Elements
    BY NType, PrioritizeAssumption
  <2> HIDE DEF N
  <2>3. t.key[x] # Unmarked /\ \A y \in Elements : y # x => t.key[y] = s.key[y]
    <3>1. s.children[a - 1] \in Elements
      <4>1. a - 1 \in 1 .. N
        BY <2>2
      <4> QED BY <4>1 DEF StateOK, Listing
    <3> QED BY <2>1, <2>2, <3>1, PrioritizeAssumption DEF StateOK
  <2>4. ASSUME NEW i \in 1 .. N, NEW j \in 1 .. N, i < j, t.key[t.children[j]] # Unmarked
        PROVE  t.key[t.children[i]] # Unmarked
    <3>1. /\ t.children[j] = IF j <= a THEN s.children[j - 1] ELSE s.children[j]
          /\ t.children[j] # x
      <4>1. t.children[1] = x /\ j # 1 /\ 1 \in 1 .. N
        BY <2>1, <2>2, <2>4
      <4>2. t.children[j] # t.children[1]
        BY <2>1, <4>1 DEF StateOK, Listing
      <4> QED BY <2>1, <4>1, <4>2
    <3> DEFINE q == IF j <= a THEN j - 1 ELSE j
    <3>2. q \in 1 .. N /\ t.children[j] = s.children[q]
      BY <2>2, <2>4, <3>1
    <3>3. s.key[s.children[q]] # Unmarked
      <4>1. s.children[q] \in Elements
        BY <3>2 DEF StateOK, Listing
      <4> QED BY <2>3, <2>4, <3>1, <3>2, <4>1
    <3>4. q < a
      <4>1. a < q => s.key[s.children[a]] # Unmarked
        <5>1. a \in 1 .. N
          BY <2>2
        <5> QED BY <3>2, <3>3, <5>1 DEF OnTop
      <4>2. q # a
        BY <2>1, <3>1, <3>2
      <4> QED BY <1>2, <2>1, <2>2, <3>2, <4>1, <4>2
    <3>5. CASE i = 1
      BY <2>1, <2>3, <3>5
    <3>6. CASE i # 1
      <4>1. /\ i <= a /\ i - 1 \in 1 .. N /\ i - 1 < q
            /\ t.children[i] = s.children[i - 1]
        BY <2>1, <2>2, <2>4, <3>2, <3>4, <3>6
      <4>2. s.key[s.children[i - 1]] # Unmarked
        BY <3>2, <3>3, <4>1 DEF OnTop
      <4>3. s.children[i - 1] \in Elements /\ s.children[i - 1] # x
        BY <1>2, <4>1, <4>2 DEF StateOK, Listing
      <4> QED BY <2>3, <4>1, <4>2, <4>3
    <3> QED BY <3>5, <3>6
  <2>5. OnTop(t)
    BY <2>4 DEF OnTop
  <2> QED BY <2>5 DEF t
<1> QED BY <1>1, <1>2

-----------------------------------------------------------------------------
(* A pass over the elements *)

\* f has the states of a call that steps through o from the state s.
Pass(f, o, s, c) ==
  /\ f[0] = s
  /\ \A n \in 1 .. Len(o) :
       f[n] = IF o[n] \in Selected THEN Step(f[n - 1], o[n], c) ELSE f[n - 1]

\* The same, as a function of the number of elements that the call has come to
PassUpTo(f, L, o, s, c) ==
  f = [n \in 0 .. L |-> IF n = 0 THEN s
                        ELSE IF o[n] \in Selected THEN Step(f[n - 1], o[n], c)
                        ELSE f[n - 1]]

\* The recursion has a solution: for each prefix of the elements from the one before.
LEMMA PassExists ==
  ASSUME NEW L \in Nat, NEW o, NEW s, NEW c
  PROVE  \E f : PassUpTo(f, L, o, s, c)
<1> DEFINE G(f, n) == IF n = 0 THEN s
                      ELSE IF o[n] \in Selected THEN Step(f[n - 1], o[n], c) ELSE f[n - 1]
           Good(f, m) == f = [n \in 0 .. m |-> G(f, n)]
           S == {m \in 0 .. L : \E f : Good(f, m)}
<1>1. 0 \in S
  <2> DEFINE f == [n \in 0 .. 0 |-> s]
  <2>1. \A n \in 0 .. 0 : n = 0
    OBVIOUS
  <2>2. f = [n \in 0 .. 0 |-> G(f, n)]
    BY <2>1
  <2>3. Good(f, 0)
    BY <2>2
  <2> HIDE DEF Good
  <2> QED BY <2>3
<1>2. ASSUME NEW m \in S, m < L PROVE m + 1 \in S
  <2>1. PICK h : Good(h, m)
    OBVIOUS
  <2> DEFINE f == [n \in 0 .. m + 1 |-> G(h, n)]
  <2>2. m \in Nat /\ m + 1 \in 0 .. L
    BY <1>2
  <2>3. \A n \in 0 .. m : f[n] = h[n]
    <3> SUFFICES ASSUME NEW n \in 0 .. m PROVE f[n] = h[n]
      OBVIOUS
    <3>1. n \in 0 .. m + 1
      BY <2>2
    <3>2. f[n] = G(h, n)
      <4> HIDE DEF G
      <4> QED BY <3>1
    <3>3. h[n] = G(h, n)
      <4> HIDE DEF G
      <4> QED BY <2>1
    <3> QED BY <3>2, <3>3
  <2>4. \A n \in 0 .. m + 1 : G(f, n) = G(h, n)
    <3> SUFFICES ASSUME NEW n \in 0 .. m + 1 PROVE G(f, n) = G(h, n)
      OBVIOUS
    <3> HIDE DEF f
    <3>1. CASE n = 0
      BY <3>1
    <3>2. CASE n # 0
      <4>1. n - 1 \in 0 .. m
        BY <2>2, <3>2
      <4>2. f[n - 1] = h[n - 1]
        BY <2>3, <4>1
      <4> QED BY <4>2
    <3> QED BY <3>1, <3>2
  <2>5. f = [n \in 0 .. m + 1 |-> G(f, n)]
    <3>1. f = [n \in 0 .. m + 1 |-> G(h, n)]
      <4> HIDE DEF G
      <4> QED OBVIOUS
    <3> HIDE DEF f, G
    <3> QED BY <2>4, <3>1
  <2>6. Good(f, m + 1)
    BY <2>5
  <2> HIDE DEF f, Good
  <2> QED BY <2>2, <2>6
<1> HIDE DEF Good
<1>3. \A m \in 0 .. L : m \in S
  <2>1. \A m \in S : m \in Nat /\ m < L => m + 1 \in S
    BY <1>2
  <2> HIDE DEF S
  <2> QED BY <1>1, <2>1, Climb
<1>4. PICK f : Good(f, L)
  <2>1. L \in S
    BY <1>3
  <2> QED BY <2>1
<1> QED BY <1>4 DEF Good, PassUpTo

Now == [children |-> children, key |-> key]

\* A call leaves what its last step leaves.
LEMMA PrioritizeIsPass ==
  ASSUME NEW c, prioritize(c), Len(order) \in Nat
  PROVE  \E f : /\ Pass(f, order, Now, c)
                /\ children' = f[Len(order)].children /\ key' = f[Len(order)].key
<1> DEFINE L == Len(order)
           g == CHOOSE f : PassUpTo(f, L, order, Now, c)
<1>1. PassUpTo(g, L, order, Now, c)
  <2>1. \E f : PassUpTo(f, L, order, Now, c)
    <3>1. L \in Nat
      OBVIOUS
    <3> HIDE DEF L
    <3> QED BY ONLY <3>1, PassExists
  <2> QED BY <2>1
<1>2. children' = g[L].children /\ key' = g[L].key
  BY DEF prioritize, Now, PassUpTo
<1> HIDE DEF g
<1>3. Pass(g, order, Now, c)
  <2>1. g[0] = Now
    <3>1. 0 \in 0 .. L
      OBVIOUS
    <3> QED BY <1>1, <3>1 DEF PassUpTo
  <2>2. ASSUME NEW n \in 1 .. L
        PROVE  g[n] = IF order[n] \in Selected THEN Step(g[n - 1], order[n], c) ELSE g[n - 1]
    <3>1. n \in 0 .. L /\ n # 0
      OBVIOUS
    <3> QED BY <1>1, <3>1 DEF PassUpTo
  <2> QED BY <2>1, <2>2 DEF Pass
<1> QED BY <1>2, <1>3

\* In a pass, up or back, the unselected elements keep their order.
LEMMA PassKeeps ==
  ASSUME NEW o, Listing(o), NEW s, StateOK(s), NEW c \in BOOLEAN, NEW f, Pass(f, o, s, c)
  PROVE  \A n \in 0 .. N : StateOK(f[n]) /\ SameOrder(s.children, f[n].children)
<1> DEFINE S == {n \in 0 .. N : StateOK(f[n]) /\ SameOrder(s.children, f[n].children)}
<1>1. N \in Nat /\ Len(o) = N
  BY NType, ListingSeq
<1>2. 0 \in S
  BY <1>1 DEF Pass, SameOrder
<1>3. ASSUME NEW n \in S, n < N PROVE n + 1 \in S
  <2>1. n \in Nat /\ n + 1 \in 1 .. N /\ (n + 1) - 1 = n /\ n + 1 \in 0 .. N
    BY <1>1, <1>3
  <2>2. f[n + 1] = IF o[n + 1] \in Selected THEN Step(f[n], o[n + 1], c) ELSE f[n]
    BY <1>1, <2>1 DEF Pass
  <2>3. StateOK(f[n + 1]) /\ SameOrder(f[n].children, f[n + 1].children)
    <3>1. CASE o[n + 1] \in Selected
      BY <2>2, <3>1, StepKeeps
    <3>2. CASE o[n + 1] \notin Selected
      BY <2>2, <3>2 DEF SameOrder
    <3> QED BY <3>1, <3>2
  <2>4. SameOrder(s.children, f[n + 1].children)
    BY <2>3 DEF SameOrder
  <2> QED BY <2>1, <2>3, <2>4
<1> HIDE DEF S
<1>4. \A n \in 0 .. N : n \in S
  BY <1>1, <1>2, <1>3, Climb
<1> QED BY <1>4 DEF S

\* After a pass to the top the marked elements are on top.
LEMMA UpPass ==
  ASSUME NEW o, Listing(o), NEW s, StateOK(s), OnTop(s), NEW f, Pass(f, o, s, TRUE)
  PROVE  OnTop(f[N])
<1> DEFINE S == {n \in 0 .. N : OnTop(f[n])}
<1>1. N \in Nat /\ Len(o) = N
  BY NType, ListingSeq
<1>2. 0 \in S
  BY <1>1 DEF Pass
<1>3. ASSUME NEW n \in S, n < N PROVE n + 1 \in S
  <2>1. n \in Nat /\ n + 1 \in 1 .. N /\ (n + 1) - 1 = n /\ n + 1 \in 0 .. N
    BY <1>1, <1>3
  <2>2. f[n + 1] = IF o[n + 1] \in Selected THEN Step(f[n], o[n + 1], TRUE) ELSE f[n]
    BY <1>1, <2>1 DEF Pass
  <2>3. StateOK(f[n])
    BY PassKeeps
  <2>4. OnTop(f[n + 1])
    BY <2>2, <2>3, UpOnTop
  <2> QED BY <2>1, <2>4
<1> HIDE DEF S
<1>4. \A n \in 0 .. N : n \in S
  BY <1>1, <1>2, <1>3, Climb
<1>5. N \in S
  BY <1>1, <1>4
<1> QED BY <1>5 DEF S

\* After a pass back no element is marked: each has had its turn.
LEMMA BackPass ==
  ASSUME NEW o, Listing(o), NEW s, StateOK(s), NEW f, Pass(f, o, s, FALSE)
  PROVE  \A x \in Elements : f[N].key[x] = Unmarked
<1> DEFINE S == {n \in 0 .. N : \A j \in 1 .. n : f[n].key[o[j]] = Unmarked}
<1>1. N \in Nat /\ Len(o) = N
  BY NType, ListingSeq
<1>2. 0 \in S
  BY <1>1
<1>3. ASSUME NEW n \in S, n < N PROVE n + 1 \in S
  <2>1. n \in Nat /\ n + 1 \in 1 .. N /\ (n + 1) - 1 = n /\ n + 1 \in 0 .. N
    BY <1>1, <1>3
  <2> DEFINE x == o[n + 1]
  <2>2. x \in Elements
    BY <2>1 DEF Listing
  <2> HIDE DEF x
  <2>3. f[n + 1] = IF x \in Selected THEN Step(f[n], x, FALSE) ELSE f[n]
    BY <1>1, <2>1 DEF Pass, x
  <2>4. StateOK(f[n])
    BY PassKeeps
  <2>5. /\ f[n + 1].key[x] = Unmarked
        /\ \A y \in Elements : f[n].key[y] = Unmarked => f[n + 1].key[y] = Unmarked
    <3>1. CASE x \in Selected /\ f[n].key[x] # Unmarked
      <4>1. f[n + 1].key = [f[n].key EXCEPT ![x] = Unmarked]
        BY <2>3, <2>4, <3>1, Back DEF Lowered
      <4> QED BY <2>2, <2>4, <4>1 DEF StateOK
    <3>2. CASE x \in Selected /\ f[n].key[x] = Unmarked
      <4>1. Step(f[n], x, FALSE) = f[n]
        BY <3>2, Stays
      <4> QED BY <2>3, <3>2, <4>1
    <3>3. CASE x \notin Selected
      BY <2>2, <2>3, <2>4, <3>3 DEF StateOK
    <3> QED BY <3>1, <3>2, <3>3
  <2>6. ASSUME NEW j \in 1 .. n + 1 PROVE f[n + 1].key[o[j]] = Unmarked
    <3>1. CASE j = n + 1
      BY <2>5, <3>1 DEF x
    <3>2. CASE j # n + 1
      <4>1. j \in 1 .. n /\ j \in 1 .. N
        BY <1>1, <2>1, <3>2
      <4>2. f[n].key[o[j]] = Unmarked /\ o[j] \in Elements
        BY <4>1 DEF Listing
      <4> QED BY <2>5, <4>2
    <3> QED BY <3>1, <3>2
  <2> QED BY <2>1, <2>6
<1> HIDE DEF S
<1>4. \A n \in 0 .. N : n \in S
  BY <1>1, <1>2, <1>3, Climb
<1>5. \A j \in 1 .. N : f[N].key[o[j]] = Unmarked
  <2>1. N \in S
    BY <1>1, <1>4
  <2> QED BY <2>1 DEF S
<1> QED BY <1>5 DEF Listing

-----------------------------------------------------------------------------
(* The way up, and the way back along it *)

\* The m-th element that moved to the top had been at place a of h[m - 1].
Link(s, h, k, m) ==
  \E a \in 2 .. N :
    LET x == s.children[k + 1 - m]
    IN  /\ h[m - 1][a] = x /\ h[m] = prependTo(h[m - 1], x)
        /\ s.key[x] = h[m - 1][a - 1]

\* k elements have moved, and h has what the arrangement was before each move.
Chain(s, h, k) ==
  /\ k \in 0 .. N /\ s.children = h[k]
  /\ \A j \in 1 .. N : s.key[s.children[j]] # Unmarked <=> j <= k
  /\ \A m \in 0 .. k : Listing(h[m])
  /\ \A m \in 1 .. k : Link(s, h, k, m)

\* The elements can go back, one by one, to the arrangement cs.
LeadsBack(s, cs) == \E h, k : Chain(s, h, k) /\ h[0] = cs

\* A move to the top is one more link.
LEMMA UpChain ==
  ASSUME NEW s, StateOK(s), NEW h, NEW k, Chain(s, h, k), NEW x \in Selected
  PROVE  \E g, l : Chain(Step(s, x, TRUE), g, l) /\ g[0] = h[0]
<1> DEFINE t == Step(s, x, TRUE)
<1>1. CASE s.key[x] # Unmarked \/ s.children[1] = x
  <2>1. t = s
    BY <1>1, Stays
  <2> QED BY <2>1
<1>2. CASE s.key[x] = Unmarked /\ s.children[1] # x
  <2>a. PICK a \in 2 .. N : Raised(s, t, x, a)
    BY <1>2, Up
  <2> HIDE DEF t
  <2>1. /\ s.children[a] = x /\ t.children = prependTo(s.children, x)
        /\ \A j \in 1 .. N :
             t.children[j] = IF j = 1 THEN x ELSE IF j <= a THEN s.children[j - 1] ELSE s.children[j]
        /\ t.key = [s.key EXCEPT ![x] = s.children[a - 1]]
        /\ StateOK(t)
    BY <2>a DEF Raised
  <2>2. N \in Nat /\ x \in Elements /\ k \in Nat /\ k <= N
    <3>1. N \in Nat
      BY NType
    <3> HIDE DEF N
    <3> QED BY <3>1, PrioritizeAssumption DEF Chain
  <2> HIDE DEF N
  <2>3. a \in 1 .. N /\ a - 1 \in 1 .. N /\ 1 \in 1 .. N
    BY <2>2
  <2>4. k < a
    BY <1>2, <2>1, <2>2, <2>3 DEF Chain
  <2>5. /\ s.children[a - 1] \in Elements /\ s.children[a - 1] # Unmarked
        /\ t.key[x] = s.children[a - 1]
        /\ \A y \in Elements : y # x => t.key[y] = s.key[y]
    <3>1. s.children[a - 1] \in Elements
      BY <2>3 DEF StateOK, Listing
    <3> QED BY <2>1, <2>2, <3>1, PrioritizeAssumption DEF StateOK
  <2> DEFINE l == k + 1
             g == [m \in 0 .. l |-> IF m = l THEN t.children ELSE h[m]]
  <2>6. l \in 0 .. N /\ g[l] = t.children /\ \A m \in 0 .. k : g[m] = h[m]
    BY <2>2, <2>4
  <2> HIDE DEF g, l
  <2>7. l = k + 1
    BY DEF l
  <2>8. \A j \in 1 .. N : t.children[j] \in Elements /\ s.children[j] \in Elements
    BY <2>1 DEF StateOK, Listing
  <2>9. t.children[1] = x
    BY <2>1, <2>3
  <2>10. ASSUME NEW j \in 2 .. N PROVE t.children[j] # x
    <3>1. j \in 1 .. N /\ j # 1
      BY <2>2
    <3> QED BY <2>1, <2>3, <2>9, <3>1 DEF StateOK, Listing
  \* The elements that were marked are one place further down, before the others.
  <2>11. ASSUME NEW j \in 1 .. N PROVE t.key[t.children[j]] # Unmarked <=> j <= l
    <3>1. CASE j = 1
      BY <2>2, <2>5, <2>7, <2>9, <3>1
    <3>2. CASE j # 1
      <4>1. j \in 2 .. N /\ j - 1 \in 1 .. N
        BY <2>2, <3>2
      <4>2. t.children[j] # x /\ t.key[t.children[j]] = s.key[t.children[j]]
        BY <2>5, <2>8, <2>10, <4>1
      <4>3. CASE j <= a
        <5>1. t.children[j] = s.children[j - 1]
          BY <2>1, <3>2, <4>3
        <5>2. s.key[s.children[j - 1]] # Unmarked <=> j - 1 <= k
          BY <4>1 DEF Chain
        <5>3. j - 1 <= k <=> j <= l
          BY <2>2, <2>7
        <5> QED BY <4>2, <5>1, <5>2, <5>3
      <4>4. CASE ~(j <= a)
        <5>1. t.children[j] = s.children[j]
          BY <2>1, <3>2, <4>4
        <5>2. s.key[s.children[j]] # Unmarked <=> j <= k
          BY DEF Chain
        <5>3. ~(j <= k) /\ ~(j <= l)
          BY <2>2, <2>4, <2>7, <4>4
        <5> QED BY <4>2, <5>1, <5>2, <5>3
      <4> QED BY <4>3, <4>4
    <3> QED BY <3>1, <3>2
  <2>12. ASSUME NEW m \in 0 .. l PROVE Listing(g[m])
    <3>1. CASE m = l
      BY <2>1, <2>6, <3>1 DEF StateOK
    <3>2. CASE m # l
      <4>1. m \in 0 .. k
        BY <2>2, <2>7, <3>2
      <4> QED BY <2>6, <4>1 DEF Chain
    <3> QED BY <3>1, <3>2
  <2>13. ASSUME NEW m \in 1 .. l PROVE Link(t, g, l, m)
    <3>1. CASE m = l
      <4>1. l + 1 - m = 1 /\ m - 1 = k /\ k \in 0 .. k
        BY <2>2, <2>7, <3>1
      <4>2. g[m - 1] = s.children
        BY <2>6, <4>1 DEF Chain
      <4>3. /\ g[m - 1][a] = t.children[l + 1 - m]
            /\ g[m] = prependTo(g[m - 1], t.children[l + 1 - m])
            /\ t.key[t.children[l + 1 - m]] = g[m - 1][a - 1]
        BY <2>1, <2>5, <2>6, <2>9, <3>1, <4>1, <4>2
      <4> QED BY <4>3 DEF Link
    <3>2. CASE m # l
      <4>1. /\ m \in 1 .. k /\ m \in 0 .. k /\ m - 1 \in 0 .. k
            /\ l + 1 - m \in 2 .. N /\ l + 1 - m \in 1 .. N
            /\ (l + 1 - m) - 1 = k + 1 - m /\ l + 1 - m <= a /\ l + 1 - m # 1
        BY <2>2, <2>4, <2>6, <2>7, <3>2
      <4> DEFINE j == l + 1 - m
                 y == t.children[j]
      <4> HIDE DEF j
      <4>2. y = s.children[k + 1 - m]
        BY <2>1, <4>1 DEF j
      <4>3. y # x /\ y \in Elements
        BY <2>8, <2>10, <4>1 DEF j
      <4>4. t.key[y] = s.key[y]
        BY <2>5, <4>3
      <4>5. g[m] = h[m] /\ g[m - 1] = h[m - 1]
        BY <2>6, <4>1
      <4> HIDE DEF y
      <4>6. PICK b \in 2 .. N : /\ h[m - 1][b] = y /\ h[m] = prependTo(h[m - 1], y)
                                /\ s.key[y] = h[m - 1][b - 1]
        BY <4>1, <4>2 DEF Chain, Link
      <4>7. g[m - 1][b] = y /\ g[m] = prependTo(g[m - 1], y) /\ t.key[y] = g[m - 1][b - 1]
        BY <4>4, <4>5, <4>6
      <4> QED BY <4>7 DEF Link, y, j
    <3> QED BY <3>1, <3>2
  <2>14. Chain(t, g, l)
    BY <2>6, <2>11, <2>12, <2>13 DEF Chain
  <2>15. g[0] = h[0]
    BY <2>2, <2>6
  <2> QED BY <2>14, <2>15 DEF t
<1> QED BY <1>1, <1>2

\* After a pass to the top the elements can still go back.
LEMMA UpPassChain ==
  ASSUME NEW o, Listing(o), NEW s, StateOK(s), NEW f, Pass(f, o, s, TRUE),
         NEW cs, LeadsBack(s, cs)
  PROVE  LeadsBack(f[N], cs)
<1> DEFINE S == {n \in 0 .. N : LeadsBack(f[n], cs)}
<1>1. N \in Nat /\ Len(o) = N
  BY NType, ListingSeq
<1>2. 0 \in S
  <2>1. f[0] = s
    BY DEF Pass
  <2> QED BY <1>1, <2>1
<1>3. ASSUME NEW n \in S, n < N PROVE n + 1 \in S
  <2>1. n \in Nat /\ n + 1 \in 1 .. N /\ (n + 1) - 1 = n /\ n + 1 \in 0 .. N
    BY <1>1, <1>3
  <2>2. f[n + 1] = IF o[n + 1] \in Selected THEN Step(f[n], o[n + 1], TRUE) ELSE f[n]
    BY <1>1, <2>1 DEF Pass
  <2>3. StateOK(f[n])
    BY PassKeeps
  <2>4. PICK h, k : Chain(f[n], h, k) /\ h[0] = cs
    BY DEF LeadsBack
  <2>5. LeadsBack(f[n + 1], cs)
    <3>1. CASE o[n + 1] \in Selected
      <4>1. \E g, l : Chain(Step(f[n], o[n + 1], TRUE), g, l) /\ g[0] = h[0]
        BY <2>3, <2>4, <3>1, UpChain
      <4> QED BY <2>2, <2>4, <3>1, <4>1 DEF LeadsBack
    <3>2. CASE o[n + 1] \notin Selected
      BY <2>2, <3>2
    <3> QED BY <3>1, <3>2
  <2> QED BY <2>1, <2>5
<1> HIDE DEF S
<1>4. \A n \in 0 .. N : n \in S
  BY <1>1, <1>2, <1>3, Climb
<1>5. N \in S
  BY <1>1, <1>4
<1> QED BY <1>5 DEF S

\* On the way back the elements come in the order in which they are now: the last
\* that moved is the first to go back.
LEMMA BackPassChain ==
  ASSUME NEW s, StateOK(s), NEW f, Pass(f, s.children, s, FALSE), NEW h, NEW k, Chain(s, h, k)
  PROVE  f[N].children = h[0]
<1> DEFINE o == s.children
           At(n) == IF n <= k THEN k - n ELSE 0
           Done(n) == /\ f[n].children = h[At(n)]
                      /\ \A j \in 1 .. N :
                           f[n].key[o[j]] = IF j <= n THEN Unmarked ELSE s.key[o[j]]
           S == {n \in 0 .. N : Done(n)}
<1>0. Listing(o)
  BY DEF StateOK
<1>1. N \in Nat /\ Len(o) = N
  BY <1>0, NType, ListingSeq
<1> HIDE DEF N
<1>2. k \in Nat /\ k <= N /\ o = h[k]
  BY <1>1 DEF Chain
<1>3. Done(0)
  <2>1. f[0] = s
    BY DEF Pass
  <2>2. At(0) = k
    BY <1>2
  <2>3. \A j \in 1 .. N : ~(j <= 0)
    BY <1>1
  <2> QED BY <1>2, <2>1, <2>2, <2>3
<1>4. ASSUME NEW n \in S, n < N PROVE n + 1 \in S
  <2>1. n \in Nat /\ n \in 0 .. N /\ n + 1 \in 1 .. N /\ (n + 1) - 1 = n /\ n + 1 \in 0 .. N
    BY <1>1, <1>4
  <2>d. Done(n)
    OBVIOUS
  <2> DEFINE x == o[n + 1]
  <2>2. x \in Elements
    BY <1>0, <2>1 DEF Listing
  <2>3. f[n + 1] = IF x \in Selected THEN Step(f[n], x, FALSE) ELSE f[n]
    BY <1>1, <2>1 DEF Pass
  <2>4. StateOK(f[n])
    BY <1>0, <2>1, PassKeeps
  <2>5. f[n].key[x] = s.key[x]
    <3>1. ~(n + 1 <= n)
      BY <2>1
    <3> QED BY <2>1, <2>d, <3>1
  <2>6. s.key[x] # Unmarked <=> n + 1 <= k
    BY <2>1 DEF Chain
  <2>7. CASE n + 1 <= k
    <3> DEFINE m == k - n
    <3>1. m \in 1 .. k /\ m - 1 \in 0 .. k /\ k + 1 - m = n + 1 /\ At(n) = m /\ At(n + 1) = m - 1
      BY <1>2, <2>1, <2>7
    <3> HIDE DEF m, At
    <3>2. PICK a \in 2 .. N : /\ h[m - 1][a] = x /\ h[m] = prependTo(h[m - 1], x)
                              /\ s.key[x] = h[m - 1][a - 1]
      BY <3>1 DEF Chain, Link
    <3>3. Listing(h[m - 1])
      BY <3>1 DEF Chain
    <3>4. x \in Selected /\ f[n].key[x] # Unmarked
      BY <2>2, <2>5, <2>6, <2>7 DEF StateOK
    <3>5. /\ f[n + 1].children = insertAfter(f[n].children, x, f[n].key[x])
          /\ f[n + 1].key = [f[n].key EXCEPT ![x] = Unmarked]
      <4>1. f[n + 1] = Step(f[n], x, FALSE)
        BY <2>3, <3>4
      <4>2. Lowered(f[n], Step(f[n], x, FALSE), x)
        BY <2>4, <3>4, Back
      <4> QED BY <4>1, <4>2 DEF Lowered
    <3>6. insertAfter(prependTo(h[m - 1], h[m - 1][a]), h[m - 1][a], h[m - 1][a - 1]) = h[m - 1]
      BY <3>2, <3>3, <3>4, BackAgain
    <3>7. f[n + 1].children = h[At(n + 1)]
      BY <2>5, <2>d, <3>1, <3>2, <3>5, <3>6
    <3>8. ASSUME NEW j \in 1 .. N
          PROVE  f[n + 1].key[o[j]] = IF j <= n + 1 THEN Unmarked ELSE s.key[o[j]]
      <4>1. o[j] \in Elements /\ (o[j] = x <=> j = n + 1)
        BY <1>0, <2>1 DEF Listing
      <4>2. f[n + 1].key[o[j]] = IF o[j] = x THEN Unmarked ELSE f[n].key[o[j]]
        BY <2>4, <3>5, <4>1 DEF StateOK
      <4>3. f[n].key[o[j]] = IF j <= n THEN Unmarked ELSE s.key[o[j]]
        BY <2>d
      <4>4. j # n + 1 => (j <= n <=> j <= n + 1)
        BY <1>1, <2>1
      <4> QED BY <2>1, <4>1, <4>2, <4>3, <4>4
    <3> QED BY <2>1, <3>7, <3>8
  <2>8. CASE ~(n + 1 <= k)
    <3>1. f[n].key[x] = Unmarked
      BY <2>5, <2>6, <2>8
    <3>2. f[n + 1] = f[n]
      <4>1. Step(f[n], x, FALSE) = f[n]
        BY <3>1, Stays
      <4> QED BY <2>3, <4>1
    <3>3. At(n + 1) = At(n)
      BY <1>2, <2>1, <2>8
    <3>4. ASSUME NEW j \in 1 .. N
          PROVE  f[n + 1].key[o[j]] = IF j <= n + 1 THEN Unmarked ELSE s.key[o[j]]
      <4>1. f[n].key[o[j]] = IF j <= n THEN Unmarked ELSE s.key[o[j]]
        BY <2>d
      <4>2. CASE j = n + 1
        BY <2>1, <3>1, <3>2, <4>2
      <4>3. CASE j # n + 1
        <5>1. j <= n <=> j <= n + 1
          BY <1>1, <2>1, <4>3
        <5> QED BY <3>2, <4>1, <5>1
      <4> QED BY <4>2, <4>3
    <3> QED BY <2>1, <2>d, <3>2, <3>3, <3>4
  <2> QED BY <2>7, <2>8
<1> HIDE DEF Done
<1>5. 0 \in S
  BY <1>1, <1>3
<1> HIDE DEF S
<1>6. \A n \in 0 .. N : n \in S
  BY <1>1, <1>4, <1>5, Climb
<1>7. Done(N)
  <2>1. N \in S
    BY <1>1, <1>6
  <2> QED BY <2>1 DEF S
<1>8. At(N) = 0
  BY <1>1, <1>2
<1> QED BY <1>7, <1>8 DEF Done

-----------------------------------------------------------------------------
(* Every call keeps the elements in order *)

OrderInv ==
  /\ StateOK(Now) /\ OnTop(Now)
  /\ Listing(original) /\ SameOrder(original, children)
  /\ named \in {"selector", "object"}
  /\ named = "selector" => LeadsBack(Now, original)

\* A page that was just loaded satisfies the invariant.
LEMMA PrioritizeInitInv == PrioritizeInit => OrderInv
<1> SUFFICES ASSUME PrioritizeInit PROVE OrderInv
  OBVIOUS
<1>1. /\ Listing(children) /\ original = children
      /\ key = [x \in Elements |-> Unmarked]
      /\ named \in {"selector", "object"}
  BY ListingsAreSeqs DEF PrioritizeInit
<1>2. Now.children = children /\ Now.key = key
  BY DEF Now
<1>3. \A x \in Elements : key[x] = Unmarked /\ x # Unmarked
  BY <1>1, PrioritizeAssumption
<1>4. StateOK(Now) /\ OnTop(Now)
  <2>1. key \in [Elements -> Elements \cup {Unmarked}]
    BY <1>1
  <2>2. \A j \in 1 .. N : children[j] \in Elements
    BY <1>1 DEF Listing
  <2> QED BY <1>1, <1>2, <1>3, <2>1, <2>2 DEF StateOK, OnTop
<1>5. SameOrder(original, children)
  BY <1>1 DEF SameOrder
<1>6. LeadsBack(Now, original)
  <2> DEFINE h == [m \in {0} |-> children]
  <2>1. h[0] = children
    OBVIOUS
  <2> HIDE DEF h
  <2>2. N \in Nat
    BY NType
  <2> HIDE DEF N
  <2>3. \A j \in 1 .. N : children[j] \in Elements /\ ~(j <= 0)
    BY <1>1, <2>2 DEF Listing
  <2>4. Chain(Now, h, 0)
    BY <1>1, <1>2, <1>3, <2>1, <2>2, <2>3 DEF Chain
  <2> QED BY <1>1, <2>1, <2>4 DEF LeadsBack
<1> QED BY <1>1, <1>4, <1>5, <1>6 DEF OrderInv

\* Each call keeps it.
LEMMA PrioritizeStep ==
  ASSUME OrderInv, NEW c \in BOOLEAN, prioritize(c)
  PROVE  OrderInv'
<1>1. /\ StateOK(Now) /\ OnTop(Now) /\ Listing(original) /\ SameOrder(original, children)
      /\ named \in {"selector", "object"} /\ Now.children = children /\ Now.key = key
  BY DEF OrderInv, Now
<1>2. Listing(order)
  BY <1>1 DEF order, StateOK
<1>3. N \in Nat /\ Len(order) = N
  BY <1>2, NType, ListingSeq
<1>4. PICK f : /\ Pass(f, order, Now, c)
               /\ children' = f[Len(order)].children /\ key' = f[Len(order)].key
  BY <1>3, PrioritizeIsPass
<1>5. UNCHANGED <<named, original>>
  BY DEF prioritize
<1> DEFINE s == f[N]
<1> HIDE DEF N
<1>6. Now'.children = s.children /\ Now'.key = s.key
  BY <1>3, <1>4 DEF Now
<1>7. StateOK(s) /\ SameOrder(Now.children, s.children)
  <2>1. N \in 0 .. N
    BY <1>3
  <2> QED BY <1>1, <1>2, <1>4, <2>1, PassKeeps
<1>8. SameOrder(original, s.children)
  BY <1>1, <1>7 DEF SameOrder
<1>9. OnTop(s)
  <2>1. CASE c = TRUE
    BY <1>1, <1>2, <1>4, <2>1, UpPass
  <2>2. CASE c = FALSE
    <3>1. \A x \in Elements : s.key[x] = Unmarked
      BY <1>1, <1>2, <1>4, <2>2, BackPass
    <3>2. \A j \in 1 .. N : s.children[j] \in Elements
      BY <1>7 DEF StateOK, Listing
    <3> QED BY <3>1, <3>2 DEF OnTop
  <2> QED BY <2>1, <2>2
<1>10. ASSUME named = "selector" PROVE LeadsBack(s, original)
  <2>1. LeadsBack(Now, original)
    BY <1>10 DEF OrderInv
  <2>2. CASE c = TRUE
    BY <1>1, <1>2, <1>4, <2>1, <2>2, UpPassChain
  <2>3. CASE c = FALSE
    <3>1. order = Now.children
      BY <1>1, <1>10 DEF order
    <3>h. PICK h, k : Chain(Now, h, k) /\ h[0] = original
      BY <2>1 DEF LeadsBack
    <3>2. s.children = h[0]
      BY <1>1, <1>4, <2>3, <3>h, <3>1, BackPassChain
    <3>3. \A x \in Elements : s.key[x] = Unmarked
      BY <1>1, <1>2, <1>4, <2>3, BackPass
    <3> DEFINE g == [m \in {0} |-> original]
    <3>4. g[0] = original
      OBVIOUS
    <3> HIDE DEF g, s
    <3>5. \A j \in 1 .. N : s.children[j] \in Elements /\ ~(j <= 0)
      BY <1>3, <1>7 DEF StateOK, Listing
    <3>6. Chain(s, g, 0)
      BY <1>1, <1>3, <3>h, <3>2, <3>3, <3>4, <3>5 DEF Chain
    <3> QED BY <3>4, <3>6 DEF LeadsBack
  <2> QED BY <2>2, <2>3
<1> HIDE DEF s
<1>11. StateOK(Now)' /\ OnTop(Now)'
  BY <1>6, <1>7, <1>9 DEF StateOK, OnTop
<1>12. named' = "selector" => LeadsBack(Now', original')
  BY <1>5, <1>6, <1>10 DEF LeadsBack, Chain, Link
<1>13. Listing(original)' /\ SameOrder(original, children)'
  BY <1>1, <1>5, <1>6, <1>8 DEF Now
<1> QED BY <1>1, <1>5, <1>11, <1>12, <1>13 DEF OrderInv

\* The invariant holds throughout.
LEMMA PrioritizeInvHolds == PrioritizeSpec => []OrderInv
<1>1. OrderInv /\ [PrioritizeNext]_order_vars => OrderInv'
  <2> SUFFICES ASSUME OrderInv, [PrioritizeNext]_order_vars PROVE OrderInv'
    OBVIOUS
  <2>1. CASE PrioritizeNext
    BY <2>1, PrioritizeStep DEF PrioritizeNext
  <2>2. CASE UNCHANGED order_vars
    <3>1. /\ UNCHANGED <<children, key, named, original>>
          /\ Now' = Now
      BY <2>2 DEF order_vars, Now
    <3> QED BY <3>1 DEF OrderInv
  <2> QED BY <2>1, <2>2
<1> QED BY <1>1, PrioritizeInitInv, PTL DEF PrioritizeSpec

\* Whatever calls come in whatever order, naming the elements either way: none is lost,
\* the moved ones are the first ones, and the others keep their order.
THEOREM MovedAreOnTop == PrioritizeSpec => []MovedOnTop
<1>1. OrderInv => MovedOnTop
  <2> SUFFICES ASSUME OrderInv PROVE MovedOnTop
    OBVIOUS
  <2>1. /\ Listing(children) /\ SameOrder(original, children)
        /\ \A i, j \in 1 .. N :
             i < j /\ key[children[j]] # Unmarked => key[children[i]] # Unmarked
    BY DEF OrderInv, StateOK, OnTop, Now
  <2>2. children \in SetToSeqs(Elements) /\ DOMAIN children = 1 .. N
    BY <2>1, ListingsAreSeqs, ListingSeq
  <2>3. \A j \in 1 .. N : children[j] \in Elements
    BY <2>1 DEF Listing
  <2> QED BY <2>1, <2>2, <2>3 DEF MovedOnTop, Marked, SameOrder
<1> QED BY <1>1, PrioritizeInvHolds, PTL

\* Elements that are named by a selector are back at their original places when none is
\* marked any more, however many elements, calls and repeated calls there were.
THEOREM SelectorRestores == PrioritizeSpec => []SelectorBackRestores
<1>1. OrderInv => SelectorBackRestores
  <2> SUFFICES ASSUME OrderInv, named = "selector", Marked = {} PROVE children = original
    BY DEF SelectorBackRestores, BackRestores
  <2>1. PICK h, k : Chain(Now, h, k) /\ h[0] = original
    BY DEF OrderInv, LeadsBack
  <2>2. k \in 0 .. N /\ children = h[k] /\ Listing(children)
        /\ \A j \in 1 .. N : key[children[j]] # Unmarked <=> j <= k
    BY <2>1 DEF Chain, OrderInv, StateOK, Now
  <2>3. k = 0
    <3>1. N \in Nat
      BY NType
    <3> HIDE DEF N
    <3>2. ASSUME k # 0 PROVE FALSE
      <4>1. 1 \in 1 .. N /\ 1 <= k
        BY <2>2, <3>1, <3>2
      <4>2. children[1] \in Elements /\ key[children[1]] # Unmarked
        BY <2>2, <4>1 DEF Listing
      <4> QED BY <4>2 DEF Marked
    <3> QED BY <3>2
  <2> QED BY <2>1, <2>2, <2>3
<1> QED BY <1>1, PrioritizeInvHolds, PTL
=============================================================================
