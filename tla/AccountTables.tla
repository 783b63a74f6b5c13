---------------------------- MODULE AccountTables ----------------------------
(* The rows EnsureInitialRoot reads or writes (mkrab/internal/data).        *)
EXTENDS Naturals

CONSTANTS
  User,  \* user names
  Root   \* "root"

ASSUME RootAssumption == Root \in User

\* A row is soft-deleted by DeletedAt, and keeps its unique key.
Row == {"absent", "live", "deleted"}
Operation == {"publish", "subscribe"}

\* Users, root's password (0: the operator's), the role admin, its rules for
\* "#", root's link to it.
Database ==
  [users : [User -> Row], hash : Nat, role : Row, rules : [Operation -> Row], link : Row]

Empty == [users |-> [u \in User |-> "absent"], hash |-> 0, role |-> "absent",
          rules |-> [o \in Operation |-> "absent"], link |-> "absent"]
=============================================================================
