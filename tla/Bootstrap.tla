------------------------------ MODULE Bootstrap ------------------------------
(***************************************************************************)
(* The first account of the mkrab broker: Database.EnsureInitialRoot       *)
(* (mkrab/internal/data/bootstrap.go), run by Application.Run at every     *)
(* start, over a database that an operator edits and that outlives crashes.*)
(*                                                                         *)
(* The transaction is SQLite's in WAL mode, begun with the first SELECT:   *)
(* it reads a snapshot, takes the write lock at its first INSERT, and that *)
(* INSERT fails if anybody has committed since the snapshot.               *)
(***************************************************************************)
EXTENDS AccountTables

CONSTANTS
  MaxStarts, \* bound: starts of the broker
  MaxEdits   \* bound: edits by the operator

ASSUME BoundsAssumption == MaxStarts \in Nat /\ MaxEdits \in Nat

VARIABLES
  db,       \* the tables: what is committed
  version,  \* commits so far
  pc,       \* what the broker does next
  draft,    \* the tables as its transaction sees them
  base,     \* the version of its snapshot
  locked,   \* its transaction holds the write lock
  starts,   \* starts so far; the n-th start may generate password n
  shown,    \* passwords written to the log
  set,      \* history: passwords root has had
  edits     \* edits so far

vars == <<db, version, pc, draft, base, locked, starts, shown, set, edits>>

Transacting == {"role", "rules", "user", "link", "commit"}

TypeOK ==
  /\ db \in Database
  /\ version \in Nat
  /\ pc \in Transacting \cup {"down", "count", "log", "serving", "failed"}
  /\ draft \in Database
  /\ base \in Nat
  /\ locked \in BOOLEAN
  /\ locked => pc \in Transacting
  /\ starts \in Nat
  /\ shown \subseteq Nat
  /\ set \subseteq Nat
  /\ edits \in Nat

-----------------------------------------------------------------------------
Init ==
  /\ db = Empty
  /\ version = 0
  /\ pc = "down"
  /\ draft = Empty
  /\ base = 0
  /\ locked = FALSE
  /\ starts = 0
  /\ shown = {}
  /\ set = {}
  /\ edits = 0

Start ==
  /\ pc = "down" /\ starts < MaxStarts
  /\ starts' = starts + 1
  /\ pc' = "count"
  /\ UNCHANGED <<db, version, draft, base, locked, shown, set, edits>>

\* SELECT count(*), the snapshot of the transaction; then the random password
\* and its hash.
Count ==
  /\ pc = "count"
  /\ \/ /\ \E u \in User : db.users[u] = "live"
        /\ pc' = "serving"
        /\ UNCHANGED <<draft, base>>
     \/ /\ \A u \in User : db.users[u] # "live"
        /\ pc' = "role"
        /\ draft' = db /\ base' = version
  /\ UNCHANGED <<db, version, locked, starts, shown, set, edits>>

\* A plausible bug: the INSERTs run outside the transaction of the count.
MayAlwaysWrite == TRUE

\* The first write must find the snapshot current.
MayWrite == locked \/ base = version

\* A plausible bug: the repositories of the callback are not the transaction's,
\* and each INSERT commits on its own.
WriteOutside(next, tables) ==
  /\ MayWrite
  /\ db' = tables /\ version' = version + 1
  /\ draft' = tables /\ base' = version + 1
  /\ pc' = next
  /\ UNCHANGED <<locked, starts, shown, set, edits>>

\* An INSERT of the transaction.
Write(next, tables) ==
  /\ MayWrite
  /\ draft' = tables
  /\ locked' = TRUE
  /\ pc' = next
  /\ UNCHANGED <<db, version, base, starts, shown, set, edits>>

\* FindByName, and Create where nothing was found.
EnsureRole ==
  /\ pc = "role"
  /\ \/ /\ draft.role = "live"
        /\ pc' = "rules"
        /\ UNCHANGED <<db, version, draft, base, locked, starts, shown, set, edits>>
     \/ draft.role = "absent" /\ Write("rules", [draft EXCEPT !.role = "live"])

\* A plausible bug: the INSERT of two rules stops at the first conflict.
GrantUnlessConflict(rules) ==
  IF \E o \in Operation : rules[o] # "absent" THEN rules ELSE [o \in Operation |-> "live"]

\* CreateIgnoreConflicts: a deleted rule conflicts too, and stays deleted.
Granted(rules) == [o \in Operation |-> IF rules[o] = "absent" THEN "live" ELSE rules[o]]

EnsureRules ==
  /\ pc = "rules"
  /\ Write("user", [draft EXCEPT !.rules = Granted(@)])

CreateRoot ==
  /\ pc = "user"
  /\ draft.users[Root] = "absent"
  /\ Write("link", [draft EXCEPT !.users = [@ EXCEPT ![Root] = "live"], !.hash = starts])

AddRole ==
  /\ pc = "link"
  /\ Write("commit", [draft EXCEPT !.link = "live"])

Commit ==
  /\ pc = "commit"
  /\ db' = draft
  /\ version' = version + 1
  /\ locked' = FALSE
  /\ set' = set \cup {starts}
  /\ pc' = "log"
  /\ UNCHANGED <<draft, base, starts, shown, edits>>

\* Run logs the password of a created root, and the broker serves.
LogPassword ==
  /\ pc = "log"
  /\ shown' = shown \cup {starts}
  /\ pc' = "serving"
  /\ UNCHANGED <<db, version, draft, base, locked, starts, set, edits>>

\* A plausible bug: an early return that leaves the transaction open.
NoRollback ==
  /\ pc' = "failed"
  /\ UNCHANGED <<db, version, draft, base, locked, starts, shown, set, edits>>

\* A plausible bug: the error of an INSERT is not returned to Transaction, which
\* commits what there is.
CommitOnError ==
  /\ IF locked THEN db' = draft /\ version' = version + 1 ELSE UNCHANGED <<db, version>>
  /\ locked' = FALSE
  /\ pc' = "failed"
  /\ UNCHANGED <<draft, base, starts, shown, set, edits>>

Rollback ==
  /\ locked' = FALSE
  /\ pc' = "failed"
  /\ UNCHANGED <<db, version, draft, base, starts, shown, set, edits>>

\* A deleted role or root still holds its unique name.
Conflict ==
  /\ \/ pc = "role" /\ draft.role = "deleted"
     \/ pc = "user" /\ draft.users[Root] = "deleted"
  /\ Rollback

\* SQLITE_BUSY: the snapshot is stale at the first INSERT.
Stale ==
  /\ (pc = "role" /\ draft.role # "live") \/ pc = "rules"
  /\ ~MayWrite
  /\ Rollback

\* A plausible bug: the error of COMMIT is dropped.
FaultBeforeCommit ==
  \/ pc \in Transacting \cup {"count"} /\ Rollback
  \/ /\ pc = "commit"
     /\ locked' = FALSE
     /\ pc' = "log"
     /\ UNCHANGED <<db, version, draft, base, starts, shown, set, edits>>

\* Any statement fails, COMMIT included, or the random source or bcrypt does.
Fault == pc \in Transacting \cup {"count"} /\ Rollback

\* The broker ends, of itself or by a crash, wherever it is; an open
\* transaction is rolled back.
Stop ==
  /\ pc # "down"
  /\ pc' = "down"
  /\ locked' = FALSE
  /\ UNCHANGED <<db, version, draft, base, starts, shown, set, edits>>

-----------------------------------------------------------------------------
(* The operator's side: one transaction, which waits for the write lock.    *)

Change(tables) ==
  /\ edits < MaxEdits /\ ~locked
  /\ db' = tables
  /\ version' = version + 1
  /\ edits' = edits + 1
  /\ UNCHANGED <<pc, draft, base, locked, starts, shown, set>>

\* A user by SQL: root comes with a link if the role is there.
AddUser(u) ==
  /\ db.users[u] = "absent"
  /\ Change([db EXCEPT !.users = [@ EXCEPT ![u] = "live"],
                       !.hash = IF u = Root THEN 0 ELSE @,
                       !.link = IF u = Root /\ db.role # "absent" THEN "live" ELSE @])

DeleteUser(u) ==
  db.users[u] = "live" /\ Change([db EXCEPT !.users = [@ EXCEPT ![u] = "deleted"]])

\* DELETE, with the links of the user.
RemoveUser(u) ==
  /\ db.users[u] # "absent"
  /\ Change([db EXCEPT !.users = [@ EXCEPT ![u] = "absent"],
                       !.link = IF u = Root THEN "absent" ELSE @])

ChangePassword == db.users[Root] = "live" /\ Change([db EXCEPT !.hash = 0])

InsertRole == db.role = "absent" /\ Change([db EXCEPT !.role = "live"])

DeleteRole == db.role = "live" /\ Change([db EXCEPT !.role = "deleted"])

AddRule(o) ==
  /\ db.role # "absent" /\ db.rules[o] = "absent"
  /\ Change([db EXCEPT !.rules = [@ EXCEPT ![o] = "live"]])

RemoveRule(o) ==
  db.rules[o] # "absent" /\ Change([db EXCEPT !.rules = [@ EXCEPT ![o] = "absent"]])

DeleteRule(o) ==
  db.rules[o] = "live" /\ Change([db EXCEPT !.rules = [@ EXCEPT ![o] = "deleted"]])

Edit ==
  \/ \E u \in User : AddUser(u) \/ DeleteUser(u) \/ RemoveUser(u)
  \/ ChangePassword
  \/ InsertRole \/ DeleteRole
  \/ \E o \in Operation : AddRule(o) \/ DeleteRule(o) \/ RemoveRule(o)

-----------------------------------------------------------------------------
EnsureInitialRoot ==
  \/ Count \/ EnsureRole \/ EnsureRules \/ CreateRoot \/ AddRole \/ Commit
  \/ Conflict \/ Stale \/ Fault

Next == Start \/ EnsureInitialRoot \/ LogPassword \/ Stop \/ Edit

Spec == Init /\ [][Next]_vars

-----------------------------------------------------------------------------
\* The log shows no password that was never root's: a start that fails at
\* whatever statement, COMMIT included, shows none (bootstrap.go:61, app.go:37).
ShownWasSet == shown \subseteq set

\* EnsureInitialRoot is one step: statements, snapshot and lock leave nothing of
\* themselves to be seen.  But for the operator's edits, which are counted, the
\* tables change in one way only: the whole account is added to them as they are
\* at that moment, so no edit made meanwhile is undone; every other step of a
\* start, and every start that fails, leaves them alone.  An operation is not
\* allowed to the role only if an operator has deleted its rule
\* (bootstrap.go:17-65; app.go:32-40).
Broker ==
  CASE pc \in Transacting \cup {"count"} -> "starting"
    [] pc = "log" -> "created"
    [] OTHER -> pc

Account == INSTANCE FirstAccount WITH broker <- Broker

ImplementsFirstAccount == Account!Spec

\* A root is created "with an ACL of full access" (bootstrap.go:16).  This does not
\* hold: the row of a rule that was soft-deleted is a conflict of the INSERT, which
\* is ignored, and the new root is created without the rule (repo/auth.go:55).
CreatedWithFullAccess ==
  [][pc = "commit" /\ pc' = "log" => \A o \in Operation : db'.rules[o] = "live"]_vars

\* A root created by the broker has had its password shown by the time the
\* broker serves: "the random initial password is shown once, in the log of the
\* first start" (mkrab/README.md:31).  This does not hold: a crash may come
\* between the commit and the log line.
InitialPasswordShown ==
  pc = "serving" /\ db.users[Root] = "live" /\ db.hash # 0 => db.hash \in shown
=============================================================================
