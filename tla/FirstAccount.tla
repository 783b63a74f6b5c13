---------------------------- MODULE FirstAccount ----------------------------
(***************************************************************************)
(* What the start of the broker promises about its first account, without  *)
(* statements, snapshot, lock and rollback: the account is made in one     *)
(* step of the tables that are there, or not at all, and otherwise only an *)
(* operator changes tables, who may commit anything at any moment.         *)
(***************************************************************************)
EXTENDS AccountTables

VARIABLES
  db,      \* the tables
  broker,  \* what the broker is doing
  starts,  \* starts so far, and the password the last one may generate
  shown,   \* passwords written to the log
  edits    \* commits of the operator so far

vars == <<db, broker, starts, shown, edits>>

TypeOK ==
  /\ db \in Database
  /\ broker \in {"down", "starting", "created", "serving", "failed"}
  /\ starts \in Nat
  /\ shown \subseteq Nat
  /\ edits \in Nat

Init ==
  /\ db = Empty
  /\ broker = "down"
  /\ starts = 0
  /\ shown = {}
  /\ edits = 0

Start ==
  /\ broker = "down"
  /\ broker' = "starting"
  /\ starts' = starts + 1
  /\ UNCHANGED <<db, shown, edits>>

Moves(from, to) == broker = from /\ broker' = to /\ UNCHANGED <<db, starts, edits>>

\* A user is there: nothing is done.
Skip ==
  /\ \E u \in User : db.users[u] = "live"
  /\ Moves("starting", "serving")
  /\ UNCHANGED shown

Fail == Moves("starting", "failed") /\ UNCHANGED shown

\* Every operation is allowed, but for what an operator has forbidden by
\* deleting the rule.
FullAccess(rules) ==
  \A o \in Operation : rules[o] = "live" \/ (rules[o] = "deleted" /\ db.rules[o] = "deleted")

\* The account is added to what is there, and nothing else is touched.
Create ==
  /\ broker = "starting"
  /\ \A u \in User : db.users[u] # "live"
  /\ db.users[Root] = "absent" /\ db.role # "deleted"
  /\ \E rules \in [Operation -> Row] :
       /\ FullAccess(rules)
       /\ db' = [users |-> [db.users EXCEPT ![Root] = "live"], hash |-> starts,
                 role |-> "live", rules |-> rules, link |-> "live"]
  /\ broker' = "created"
  /\ UNCHANGED <<starts, shown, edits>>

Show == Moves("created", "serving") /\ shown' = shown \cup {starts}

Stop ==
  /\ broker # "down"
  /\ broker' = "down"
  /\ UNCHANGED <<db, starts, shown, edits>>

\* The operator's, and counted as such: no step of the broker is one.
Edit ==
  /\ db' \in Database
  /\ edits' = edits + 1
  /\ UNCHANGED <<broker, starts, shown>>

Next == Start \/ Skip \/ Fail \/ Create \/ Show \/ Stop \/ Edit

Spec == Init /\ [][Next]_vars
=============================================================================
