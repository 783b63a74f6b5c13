------------------------------ MODULE RowLedger ------------------------------
(***************************************************************************)
(* What the connection audit promises, without the library, the SQL        *)
(* statements and the sync.Map: opening a row obliges the connection to    *)
(* close it, and only a lost obligation may leave a row open for ever.     *)
(***************************************************************************)
EXTENDS Naturals, Sequences

CONSTANT Conn   \* the connections

VARIABLES
  status,       \* the rows, in the order of their ids
  owed,         \* <<c, id>>: connection c still has to close row id
  lost          \* rows whose closing was lost and not made up for

vars == <<status, owed, lost>>

TypeOK ==
  /\ status \in Seq({"connected", "disconnected"})
  /\ owed \subseteq Conn \X DOMAIN status
  /\ lost \subseteq DOMAIN status

Init == status = <<>> /\ owed = {} /\ lost = {}

OwesNothing(c) == \A id \in DOMAIN status : <<c, id>> \notin owed

OpenNew(c) ==
  /\ OwesNothing(c)
  /\ status' = Append(status, "connected")
  /\ owed' = owed \cup {<<c, Len(status) + 1>>}
  /\ UNCHANGED lost

OpenAgain(c, id) ==
  /\ OwesNothing(c)
  /\ status' = [status EXCEPT ![id] = "connected"]
  /\ owed' = owed \cup {<<c, id>>}
  /\ UNCHANGED lost

Close(c, id) ==
  /\ <<c, id>> \in owed
  /\ status' = [status EXCEPT ![id] = "disconnected"]
  /\ owed' = owed \ {<<c, id>>}
  /\ lost' = lost \ {id}

\* A failing statement loses one obligation, a crash all of them.
Lose(some) ==
  /\ owed' = owed \ some
  /\ lost' = lost \cup {debt[2] : debt \in some}
  /\ UNCHANGED status

Next ==
  \/ \E c \in Conn : OpenNew(c)
  \/ \E c \in Conn, id \in DOMAIN status : OpenAgain(c, id) \/ Close(c, id)
  \/ \E debt \in owed : Lose({debt})
  \/ Lose(owed)

Spec == Init /\ [][Next]_vars

\* An open row is owed by a connection or its closing was lost.
NoForgottenRow ==
  \A id \in DOMAIN status :
    status[id] = "connected" => id \in lost \/ \E c \in Conn : <<c, id>> \in owed
=============================================================================
