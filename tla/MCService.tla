------------------------------ MODULE MCService ------------------------------
(* Files that differ in a few switches from the example configuration.      *)
EXTENDS Service

Off(name) == [enabled |-> "off", cert |-> name \in Secure]

Plain ==
  [readable |-> TRUE, listeners |-> [l \in Listener |-> [Off(l) EXCEPT !.enabled = "unset"]],
   store |-> "unset", topic |-> <<>>, web |-> "unset"]

Topics == {<<"#">>, <<"a", "+", "#">>, <<"#", "a">>, <<"a#">>, <<"a+", "b">>}

MCFiles ==
  {Plain, [Plain EXCEPT !.readable = FALSE],
   [Plain EXCEPT !.listeners["tcp"].enabled = "off"],
   [Plain EXCEPT !.listeners["tcp"].enabled = "off", !.listeners["wss"].enabled = "on", !.web = "off"],
   [Plain EXCEPT !.listeners["wss"] = [enabled |-> "on", cert |-> FALSE],
                 !.listeners["tls"] = [enabled |-> "on", cert |-> FALSE]],
   [Plain EXCEPT !.listeners = [l \in Listener |-> [enabled |-> "on", cert |-> TRUE]],
                 !.store = "off", !.web = "off"]}
  \cup {[Plain EXCEPT !.topic = t, !.web = "off"] : t \in Topics}
=============================================================================
