------------------------------- MODULE MC_Panel -------------------------------
(* util.js: a panel with links, one with a form, and panels at other sides. *)
EXTENDS Panel

MCConfig == [delay |-> 2, hideOnClick |-> TRUE, hideOnEscape |-> TRUE, hideOnSwipe |-> TRUE,
             side |-> "left", resetScroll |-> TRUE, resetForms |-> FALSE]
MCConfigs ==
  {MCConfig,
   [MCConfig EXCEPT !.delay = 1, !.hideOnClick = FALSE, !.hideOnSwipe = FALSE,
                    !.resetForms = TRUE]}
  \cup {[MCConfig EXCEPT !.delay = 1, !.hideOnClick = FALSE, !.side = s] :
         s \in {"right", "top", "bottom"}}

\* Just far enough to the left, too far down, and to the other sides.
MCMoves == {<<-51, 19>>, <<-51, 20>>, <<51, 0>>, <<0, -51>>, <<0, 51>>}
=============================================================================
