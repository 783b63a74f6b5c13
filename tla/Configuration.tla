---------------------------- MODULE Configuration ----------------------------
(***************************************************************************)
(* What mkrab makes of its configuration file (internal/config/config.go). *)
(*                                                                         *)
(* A file is a record of what it says: a switch is "unset", "on" or "off", *)
(* a listener also tells whether it names both certificate files, a filter *)
(* is the sequence of its levels, <<>> if it is unset or empty.  Addresses *)
(* and the database path have defaults that no property depends on.        *)
(***************************************************************************)
EXTENDS Naturals, Sequences

CONSTANTS
  Word,     \* levels of a filter that are plain
  WithHash, \* levels that contain "#"
  WithPlus  \* levels that contain "+"

ASSUME WildcardsAssumption ==
  /\ "x" \in Word /\ "#" \in WithHash /\ "+" \in WithPlus
  /\ Word \cap (WithHash \cup WithPlus) = {}

Level == Word \cup WithHash \cup WithPlus

Listener == {"tcp", "tls", "websocket", "wss"}
Secure == {"tls", "wss"}

Switch == {"unset", "on", "off"}

File ==
  [readable : BOOLEAN, listeners : [Listener -> [enabled : Switch, cert : BOOLEAN]],
   store : Switch, topic : Seq(Level), web : Switch]

-----------------------------------------------------------------------------
(* Plausible bugs, one per property: variants of the definitions below that *)
(* no definition of the model uses.                                         *)

\* A switch that is off is taken to be missing.
DefaultUnlessOn(switch, default) == switch = "on" \/ default

-----------------------------------------------------------------------------
\* applyListenerDefaults, and the same for the store and the web interface: a
\* nil pointer is replaced, one that points to false is not.
Default(switch, default) == IF switch = "unset" THEN default ELSE switch = "on"

Enabled(file) ==
  {l \in Listener : Default(file.listeners[l].enabled, l = "tcp")}

\* "#" is the whole of the last level, "+" the whole of a level.
validateFilter(levels) ==
  \A k \in DOMAIN levels :
    /\ levels[k] \in WithHash => levels[k] = "#" /\ k = Len(levels)
    /\ levels[k] \in WithPlus => levels[k] = "+"

Topic(file) == IF file.topic = <<>> THEN <<"#">> ELSE file.topic

\* What is wrong with a file: the map of the two secure listeners is ranged over
\* in any order, so either may be named.
Errors(file) ==
  LET bare == {l \in Secure \cap Enabled(file) : ~file.listeners[l].cert} IN
  CASE ~file.readable -> {"file"}
    [] file.readable /\ Enabled(file) = {} -> {"listeners"}
    [] file.readable /\ Enabled(file) # {} /\ bare # {} -> bare
    [] file.readable /\ Enabled(file) # {} /\ bare = {} ->
         IF Default(file.store, TRUE) /\ ~validateFilter(Topic(file)) THEN {"topic"} ELSE {}

\* The configuration of a file without errors.
Config(file) ==
  [listeners |-> Enabled(file), store |-> Default(file.store, TRUE),
   topic |-> Topic(file), web |-> Default(file.web, TRUE)]
=============================================================================
