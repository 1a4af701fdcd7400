---------------------------- MODULE MCSettings -----------------------------
(* Two supported keys and one with two sides, two languages after a file that is
   refused, numbers at and beyond the limits. *)
EXTENDS Settings
MCResources == <<[valid |-> TRUE, id |-> 60, locale |-> "en", texts |-> {"menu", "version"}],
                 [valid |-> FALSE, id |-> 60, locale |-> "none", texts |-> {}],
                 [valid |-> TRUE, id |-> 400, locale |-> "zh", texts |-> {"menu"}]>>
MCSided == [g \in {"shift"} |-> <<"k1", "k2">>]
MCNotches == {-200, 1, 250}
MCEditedInts == {0, 2, 400}
=============================================================================
