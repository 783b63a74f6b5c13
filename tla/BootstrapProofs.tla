--------------------------- MODULE BootstrapProofs ---------------------------
(***************************************************************************)
(* What the start of the broker guarantees for its first account, for any  *)
(* set of users and any number of starts, edits, faults and crashes.       *)
(***************************************************************************)
EXTENDS Bootstrap, TLAPS

(* A transaction with the write lock reads what is committed.              *)
SnapshotCurrent ==
  /\ pc \in Transacting => base <= version
  /\ locked => base = version
  /\ pc \in {"user", "link", "commit"} => locked
  /\ pc \in Transacting /\ base = version => \A u \in User : db.users[u] # "live"

(* What each statement has added to the draft.                             *)
DraftGrows ==
  /\ pc \in {"rules", "user", "link", "commit"} => draft.role = "live"
  /\ pc \in {"link", "commit"} => draft.users[Root] = "live" /\ draft.hash = starts
  /\ pc = "commit" => draft.link = "live"
  /\ pc \in {"user", "link", "commit"} => \A o \in Operation : draft.rules[o] # "absent"

LoggedIsSet == pc = "log" => starts \in set

IInv == TypeOK /\ SnapshotCurrent /\ DraftGrows /\ LoggedIsSet /\ ShownWasSet

-----------------------------------------------------------------------------
LEMMA InitIInv == Init => IInv
<1> SUFFICES ASSUME Init PROVE IInv
  OBVIOUS
<1>1. Empty \in Database
  BY DEF Empty, Database, Row
<1>2. TypeOK
  BY <1>1 DEF Init, TypeOK
<1>3. SnapshotCurrent /\ DraftGrows /\ LoggedIsSet /\ ShownWasSet
  BY DEF Init, SnapshotCurrent, DraftGrows, LoggedIsSet, ShownWasSet, Transacting
<1> QED
  BY <1>2, <1>3 DEF IInv

LEMMA DatabaseRows ==
  ASSUME NEW d \in Database
  PROVE  /\ d.users \in [User -> Row] /\ d.hash \in Nat /\ d.role \in Row
         /\ d.rules \in [Operation -> Row] /\ d.link \in Row
         /\ \A x \in Row : [d EXCEPT !.role = x] \in Database
         /\ \A x \in Row : [d EXCEPT !.link = x] \in Database
         /\ \A f \in [Operation -> Row] : [d EXCEPT !.rules = f] \in Database
         /\ \A f \in [User -> Row], n \in Nat :
              [d EXCEPT !.users = f, !.hash = n] \in Database
BY DEF Database

LEMMA CountStep ==
  ASSUME IInv, Count
  PROVE  IInv'
BY DEF Count, IInv, TypeOK, SnapshotCurrent, DraftGrows, LoggedIsSet, ShownWasSet, Transacting

LEMMA WriteStep ==
  ASSUME IInv, NEW next \in Transacting, NEW d \in Database, Write(next, d),
         pc \in Transacting,
         next \in {"rules", "user", "link", "commit"} => d.role = "live",
         next \in {"link", "commit"} => d.users[Root] = "live" /\ d.hash = starts,
         next = "commit" => d.link = "live",
         next \in {"user", "link", "commit"} => \A o \in Operation : d.rules[o] # "absent"
  PROVE  IInv'
<1>1. /\ draft' = d /\ locked' = TRUE /\ pc' = next
      /\ UNCHANGED <<db, version, base, starts, shown, set, edits>>
      /\ base = version
  BY DEF Write, MayWrite, IInv, SnapshotCurrent
<1>2. TypeOK'
  BY <1>1 DEF IInv, TypeOK
<1>3. SnapshotCurrent'
  BY <1>1 DEF IInv, SnapshotCurrent, TypeOK
<1>4. DraftGrows'
  BY <1>1 DEF DraftGrows
<1>5. LoggedIsSet' /\ ShownWasSet'
  BY <1>1 DEF IInv, LoggedIsSet, ShownWasSet, Transacting
<1> QED
  BY <1>2, <1>3, <1>4, <1>5 DEF IInv

LEMMA EnsureRoleStep ==
  ASSUME IInv, EnsureRole
  PROVE  IInv'
<1>1. CASE draft.role = "live" /\ pc' = "rules"
           /\ UNCHANGED <<db, version, draft, base, locked, starts, shown, set, edits>>
  BY <1>1 DEF EnsureRole, IInv, TypeOK, SnapshotCurrent, DraftGrows, LoggedIsSet, ShownWasSet,
              Transacting
<1>2. CASE Write("rules", [draft EXCEPT !.role = "live"])
  <2>1. [draft EXCEPT !.role = "live"] \in Database
    BY DatabaseRows DEF IInv, TypeOK, Row
  <2>2. [draft EXCEPT !.role = "live"].role = "live"
    BY DEF IInv, TypeOK, Database
  <2> QED
    BY <1>2, <2>1, <2>2, WriteStep DEF EnsureRole, Transacting
<1> QED
  BY <1>1, <1>2 DEF EnsureRole

LEMMA EnsureRulesStep ==
  ASSUME IInv, EnsureRules
  PROVE  IInv'
<1> DEFINE f == Granted(draft.rules)
           d == [draft EXCEPT !.rules = f]
<1>1. pc = "rules" /\ Write("user", d)
  BY DEF EnsureRules
<1>2. f \in [Operation -> Row] /\ \A o \in Operation : f[o] # "absent"
  BY DatabaseRows DEF IInv, TypeOK, Row, Granted
<1>3. d \in Database /\ d.role = draft.role /\ d.rules = f
  BY <1>2, DatabaseRows DEF IInv, TypeOK, Database
<1>4. d.role = "live"
  BY <1>1, <1>3 DEF IInv, DraftGrows
<1>5. \A o \in Operation : d.rules[o] # "absent"
  BY <1>2, <1>3
<1> HIDE DEF d, f
<1> QED
  BY <1>1, <1>3, <1>4, <1>5, WriteStep DEF Transacting

LEMMA CreateRootStep ==
  ASSUME IInv, CreateRoot
  PROVE  IInv'
<1> DEFINE f == [draft.users EXCEPT ![Root] = "live"]
           d == [draft EXCEPT !.users = f, !.hash = starts]
<1>1. pc = "user" /\ Write("link", d)
  BY DEF CreateRoot
<1>2. draft \in Database /\ starts \in Nat
  BY DEF IInv, TypeOK
<1>3. f \in [User -> Row] /\ f[Root] = "live"
  BY <1>2, DatabaseRows, RootAssumption DEF Row
<1>4. d \in Database
  BY <1>2, <1>3, DatabaseRows
<1>5. d.users = f /\ d.hash = starts /\ d.role = draft.role /\ d.rules = draft.rules
  BY <1>2 DEF Database
<1>6. d.role = "live" /\ d.users[Root] = "live" /\ \A o \in Operation : d.rules[o] # "absent"
  BY <1>1, <1>3, <1>5 DEF IInv, DraftGrows
<1> HIDE DEF d
<1> QED
  BY <1>1, <1>4, <1>5, <1>6, WriteStep DEF Transacting

LEMMA AddRoleStep ==
  ASSUME IInv, AddRole
  PROVE  IInv'
<1> DEFINE d == [draft EXCEPT !.link = "live"]
<1>1. pc = "link" /\ Write("commit", d)
  BY DEF AddRole
<1>2. d \in Database
  BY DatabaseRows DEF IInv, TypeOK, Row
<1>3. /\ d.link = "live" /\ d.role = draft.role /\ d.rules = draft.rules
      /\ d.users = draft.users /\ d.hash = draft.hash
  BY DEF IInv, TypeOK, Database
<1>4. /\ d.role = "live" /\ d.users[Root] = "live" /\ d.hash = starts
      /\ \A o \in Operation : d.rules[o] # "absent"
  BY <1>1, <1>3 DEF IInv, DraftGrows
<1> HIDE DEF d
<1> QED
  BY <1>1, <1>2, <1>3, <1>4, WriteStep DEF Transacting

LEMMA CommitStep ==
  ASSUME IInv, Commit
  PROVE  IInv'
<1>1. /\ db' = draft /\ version' = version + 1 /\ locked' = FALSE /\ pc' = "log"
      /\ set' = set \cup {starts}
      /\ UNCHANGED <<draft, base, starts, shown, edits>>
  BY DEF Commit
<1>2. TypeOK'
  <2>1. set' \subseteq Nat
    BY <1>1 DEF IInv, TypeOK
  <2>2. version' \in Nat /\ pc' = "log" /\ ~locked'
    BY <1>1 DEF IInv, TypeOK
  <2> QED
    BY <1>1, <2>1, <2>2 DEF IInv, TypeOK
<1>3. SnapshotCurrent' /\ DraftGrows'
  BY <1>1 DEF SnapshotCurrent, DraftGrows, Transacting
<1>4. LoggedIsSet' /\ ShownWasSet'
  BY <1>1 DEF IInv, LoggedIsSet, ShownWasSet
<1> QED
  BY <1>2, <1>3, <1>4 DEF IInv

LEMMA RollbackStep ==
  ASSUME IInv, Rollback
  PROVE  IInv'
BY DEF Rollback, IInv, TypeOK, SnapshotCurrent, DraftGrows, LoggedIsSet, ShownWasSet, Transacting

LEMMA OtherSteps ==
  ASSUME IInv, Start \/ LogPassword \/ Stop
  PROVE  IInv'
<1>1. CASE Start
  BY <1>1 DEF Start, IInv, TypeOK, SnapshotCurrent, DraftGrows, LoggedIsSet, ShownWasSet,
              Transacting
<1>2. CASE LogPassword
  BY <1>2 DEF LogPassword, IInv, TypeOK, SnapshotCurrent, DraftGrows, LoggedIsSet, ShownWasSet,
              Transacting
<1>3. CASE Stop
  BY <1>3 DEF Stop, IInv, TypeOK, SnapshotCurrent, DraftGrows, LoggedIsSet, ShownWasSet,
              Transacting
<1> QED
  BY <1>1, <1>2, <1>3

\* The operator commits while the broker may hold a snapshot, never its lock.
LEMMA ChangeStep ==
  ASSUME IInv, NEW d \in Database, Change(d)
  PROVE  IInv'
BY DEF Change, IInv, TypeOK, SnapshotCurrent, DraftGrows, LoggedIsSet, ShownWasSet, Transacting

LEMMA EditStep ==
  ASSUME IInv, Edit
  PROVE  IInv'
<1>0. db \in Database
  BY DEF IInv, TypeOK
<1>1. ASSUME NEW u \in User, AddUser(u) PROVE IInv'
  <2> DEFINE f == [db.users EXCEPT ![u] = "live"]
             n == IF u = Root THEN 0 ELSE db.hash
             x == IF u = Root /\ db.role # "absent" THEN "live" ELSE db.link
             d == [db EXCEPT !.users = f, !.hash = n, !.link = x]
  <2>1. f \in [User -> Row] /\ n \in Nat /\ x \in Row
    BY <1>0, DatabaseRows DEF Row
  <2>2. d \in Database
    BY <1>0, <2>1 DEF Database
  <2>3. Change(d)
    BY <1>1 DEF AddUser
  <2> QED
    BY <2>2, <2>3, ChangeStep
<1>2. ASSUME NEW u \in User, DeleteUser(u) PROVE IInv'
  <2> DEFINE f == [db.users EXCEPT ![u] = "deleted"]
             d == [db EXCEPT !.users = f]
  <2>1. f \in [User -> Row]
    BY <1>0, DatabaseRows DEF Row
  <2>2. d \in Database
    BY <1>0, <2>1 DEF Database
  <2>3. Change(d)
    BY <1>2 DEF DeleteUser
  <2> QED
    BY <2>2, <2>3, ChangeStep
<1>3. ASSUME NEW u \in User, RemoveUser(u) PROVE IInv'
  <2> DEFINE f == [db.users EXCEPT ![u] = "absent"]
             x == IF u = Root THEN "absent" ELSE db.link
             d == [db EXCEPT !.users = f, !.link = x]
  <2>1. f \in [User -> Row] /\ x \in Row
    BY <1>0, DatabaseRows DEF Row
  <2>2. d \in Database
    BY <1>0, <2>1 DEF Database
  <2>3. Change(d)
    BY <1>3 DEF RemoveUser
  <2> QED
    BY <2>2, <2>3, ChangeStep
<1>4. CASE ChangePassword
  <2>1. [db EXCEPT !.hash = 0] \in Database
    BY <1>0 DEF Database
  <2> QED
    BY <1>4, <2>1, ChangeStep DEF ChangePassword
<1>5. CASE DeleteRole
  <2>1. [db EXCEPT !.role = "deleted"] \in Database
    BY <1>0, DatabaseRows DEF Row
  <2> QED
    BY <1>5, <2>1, ChangeStep DEF DeleteRole
<1>6. ASSUME NEW o \in Operation, DeleteRule(o) PROVE IInv'
  <2> DEFINE f == [db.rules EXCEPT ![o] = "deleted"]
             d == [db EXCEPT !.rules = f]
  <2>1. f \in [Operation -> Row]
    BY <1>0, DatabaseRows DEF Row
  <2>2. d \in Database
    BY <1>0, <2>1, DatabaseRows
  <2>3. Change(d)
    BY <1>6 DEF DeleteRule
  <2> QED
    BY <2>2, <2>3, ChangeStep
<1>7. ASSUME NEW o \in Operation, RemoveRule(o) PROVE IInv'
  <2> DEFINE f == [db.rules EXCEPT ![o] = "absent"]
             d == [db EXCEPT !.rules = f]
  <2>1. f \in [Operation -> Row]
    BY <1>0, DatabaseRows DEF Row
  <2>2. d \in Database
    BY <1>0, <2>1, DatabaseRows
  <2>3. Change(d)
    BY <1>7 DEF RemoveRule
  <2> QED
    BY <2>2, <2>3, ChangeStep
<1>8. ASSUME NEW o \in Operation, AddRule(o) PROVE IInv'
  <2> DEFINE f == [db.rules EXCEPT ![o] = "live"]
             d == [db EXCEPT !.rules = f]
  <2>1. f \in [Operation -> Row]
    BY <1>0, DatabaseRows DEF Row
  <2>2. d \in Database
    BY <1>0, <2>1, DatabaseRows
  <2>3. Change(d)
    BY <1>8 DEF AddRule
  <2> QED
    BY <2>2, <2>3, ChangeStep
<1>9. CASE InsertRole
  <2>1. [db EXCEPT !.role = "live"] \in Database
    BY <1>0, DatabaseRows DEF Row
  <2> QED
    BY <1>9, <2>1, ChangeStep DEF InsertRole
<1> QED
  BY <1>1, <1>2, <1>3, <1>4, <1>5, <1>6, <1>7, <1>8, <1>9 DEF Edit

LEMMA NextIInv == IInv /\ [Next]_vars => IInv'
<1> SUFFICES ASSUME IInv, [Next]_vars PROVE IInv'
  OBVIOUS
<1>1. CASE EnsureInitialRoot
  BY <1>1, CountStep, EnsureRoleStep, EnsureRulesStep, CreateRootStep, AddRoleStep, CommitStep,
     RollbackStep DEF EnsureInitialRoot, Conflict, Stale, Fault
<1>2. CASE Start \/ LogPassword \/ Stop
  BY <1>2, OtherSteps
<1>3. CASE Edit
  BY <1>3, EditStep
<1>4. CASE UNCHANGED vars
  BY <1>4 DEF vars, IInv, TypeOK, SnapshotCurrent, DraftGrows, LoggedIsSet, ShownWasSet
<1> QED
  BY <1>1, <1>2, <1>3, <1>4 DEF Next

LEMMA IInvHolds == Spec => []IInv
BY InitIInv, NextIInv, PTL DEF Spec

-----------------------------------------------------------------------------
\* Types, and the write lock never outlives its transaction.
THEOREM TypeCorrect == Spec => []TypeOK
<1>1. IInv => TypeOK
  BY DEF IInv
<1> QED
  BY <1>1, IInvHolds, PTL

\* The log shows no password that was never root's (bootstrap.go:61).
THEOREM OnlySetPasswordsShown == Spec => []ShownWasSet
<1>1. IInv => ShownWasSet
  BY DEF IInv
<1> QED
  BY <1>1, IInvHolds, PTL

Creates == pc = "commit" /\ pc' = "log"

\* Root is created only in a table without a visible user, also when the
\* operator adds one while the transaction runs (bootstrap.go:16, 21).
OnlyWhenEmpty ==
  [][Creates => \A u \in User : db.users[u] # "live"]_vars

\* A root that is created can log in with the password generated for it, has
\* the role, and the role has a row for each rule (which the operator may have
\* soft-deleted before): no fault, crash or edit leaves half of the account
\* (bootstrap.go:44-58).
RootIsComplete ==
  [][Creates => /\ db'.users[Root] = "live" /\ db'.hash = starts
                /\ db'.role = "live" /\ db'.link = "live"
                /\ \A o \in Operation : db'.rules[o] # "absent"]_vars

\* Creating is what COMMIT does, and only it.
LEMMA CreatingCommits ==
  ASSUME IInv, [Next]_vars, Creates
  PROVE  pc = "commit" /\ Commit
BY DEF Next, vars, Creates, EnsureInitialRoot, Start, Count, EnsureRole, EnsureRules, CreateRoot,
       AddRole, Conflict, Stale, Fault, Rollback, LogPassword, Stop, Write, Edit, AddUser,
       DeleteUser, RemoveUser, ChangePassword, InsertRole, DeleteRole, AddRule, DeleteRule,
       RemoveRule, Change

\* Root is created only where no user is visible, for every interleaving with
\* the operator (bootstrap.go:16, 21).
THEOREM CreatedWhenEmpty == Spec => OnlyWhenEmpty
<1>1. IInv /\ [Next]_vars => [Creates => \A u \in User : db.users[u] # "live"]_vars
  <2> SUFFICES ASSUME IInv, [Next]_vars, Creates
      PROVE  \A u \in User : db.users[u] # "live"
    OBVIOUS
  <2>1. pc = "commit"
    BY DEF Creates
  <2> QED
    BY <2>1 DEF IInv, SnapshotCurrent, Transacting
<1> QED
  BY <1>1, IInvHolds, PTL DEF Spec, OnlyWhenEmpty

\* A created root is complete: password, role and link (bootstrap.go:51-58).
THEOREM CreatedComplete == Spec => RootIsComplete
<1>1. IInv /\ [Next]_vars =>
        [Creates => /\ db'.users[Root] = "live" /\ db'.hash = starts
                    /\ db'.role = "live" /\ db'.link = "live"
                    /\ \A o \in Operation : db'.rules[o] # "absent"]_vars
  <2> SUFFICES ASSUME IInv, [Next]_vars, Creates
      PROVE  /\ db'.users[Root] = "live" /\ db'.hash = starts
             /\ db'.role = "live" /\ db'.link = "live"
             /\ \A o \in Operation : db'.rules[o] # "absent"
    OBVIOUS
  <2>1. pc = "commit" /\ db' = draft
    BY CreatingCommits DEF Commit
  <2> QED
    BY <2>1 DEF IInv, DraftGrows
<1> QED
  BY <1>1, IInvHolds, PTL DEF Spec, RootIsComplete

-----------------------------------------------------------------------------
(* EnsureInitialRoot is one step (FirstAccount).                            *)

(* While nobody has committed since the snapshot, the draft is what is      *)
(* committed with the statements of the transaction so far.                 *)
DraftFollows ==
  pc \in Transacting /\ base = version =>
    /\ pc # "role" => db.role # "deleted"
    /\ pc \in {"link", "commit"} => db.users[Root] = "absent"
    /\ draft.users = IF pc \in {"link", "commit"}
                       THEN [db.users EXCEPT ![Root] = "live"] ELSE db.users
    /\ draft.role = IF pc = "role" THEN db.role ELSE "live"
    /\ draft.rules = IF pc \in {"role", "rules"} THEN db.rules ELSE Granted(db.rules)
    /\ draft.link = IF pc = "commit" THEN "live" ELSE db.link

LEMMA DraftFields ==
  ASSUME NEW d \in Database
  PROVE  /\ \A x : [d EXCEPT !.role = x].users = d.users /\ [d EXCEPT !.role = x].role = x
                   /\ [d EXCEPT !.role = x].rules = d.rules
                   /\ [d EXCEPT !.role = x].link = d.link
         /\ \A x : [d EXCEPT !.link = x].users = d.users /\ [d EXCEPT !.link = x].role = d.role
                   /\ [d EXCEPT !.link = x].rules = d.rules
                   /\ [d EXCEPT !.link = x].link = x
         /\ \A x : [d EXCEPT !.rules = x].users = d.users /\ [d EXCEPT !.rules = x].role = d.role
                   /\ [d EXCEPT !.rules = x].rules = x
                   /\ [d EXCEPT !.rules = x].link = d.link
         /\ \A x, n : LET e == [d EXCEPT !.users = x, !.hash = n]
                      IN e.users = x /\ e.role = d.role /\ e.rules = d.rules /\ e.link = d.link
BY DEF Database

LEMMA CountFollows ==
  ASSUME IInv, Count
  PROVE  DraftFollows'
BY DEF Count, DraftFollows, Transacting

LEMMA EnsureRoleFollows ==
  ASSUME IInv, DraftFollows, EnsureRole
  PROVE  DraftFollows'
<1>1. pc = "role" /\ pc' = "rules" /\ UNCHANGED <<db, version, base>>
  BY DEF EnsureRole, Write
<1>2. CASE draft.role = "live" /\ draft' = draft
  BY <1>1, <1>2 DEF DraftFollows, Transacting
<1>3. CASE draft.role = "absent" /\ draft' = [draft EXCEPT !.role = "live"]
  <2>1. /\ draft'.users = draft.users /\ draft'.role = "live"
        /\ draft'.rules = draft.rules /\ draft'.link = draft.link
    BY <1>3, DraftFields DEF IInv, TypeOK
  <2> QED
    BY <1>1, <1>3, <2>1 DEF DraftFollows, Transacting
<1> QED
  BY <1>2, <1>3 DEF EnsureRole, Write

LEMMA EnsureRulesFollows ==
  ASSUME IInv, DraftFollows, EnsureRules
  PROVE  DraftFollows'
<1>1. /\ pc = "rules" /\ pc' = "user" /\ UNCHANGED <<db, version, base>>
      /\ draft' = [draft EXCEPT !.rules = Granted(draft.rules)]
  BY DEF EnsureRules, Write
<1>2. /\ draft'.users = draft.users /\ draft'.role = draft.role
      /\ draft'.rules = Granted(draft.rules) /\ draft'.link = draft.link
  BY <1>1, DraftFields DEF IInv, TypeOK
<1> QED
  BY <1>1, <1>2 DEF DraftFollows, Transacting

LEMMA CreateRootFollows ==
  ASSUME IInv, DraftFollows, CreateRoot
  PROVE  DraftFollows'
<1>1. /\ pc = "user" /\ pc' = "link" /\ UNCHANGED <<db, version, base>>
      /\ draft.users[Root] = "absent"
      /\ draft' = [draft EXCEPT !.users = [draft.users EXCEPT ![Root] = "live"], !.hash = starts]
  BY DEF CreateRoot, Write
<1>2. /\ draft'.users = [draft.users EXCEPT ![Root] = "live"] /\ draft'.role = draft.role
      /\ draft'.rules = draft.rules /\ draft'.link = draft.link
  BY <1>1, DraftFields DEF IInv, TypeOK
<1> QED
  BY <1>1, <1>2 DEF DraftFollows, Transacting

LEMMA AddRoleFollows ==
  ASSUME IInv, DraftFollows, AddRole
  PROVE  DraftFollows'
<1>1. /\ pc = "link" /\ pc' = "commit" /\ UNCHANGED <<db, version, base>>
      /\ draft' = [draft EXCEPT !.link = "live"]
  BY DEF AddRole, Write
<1>2. /\ draft'.users = draft.users /\ draft'.role = draft.role
      /\ draft'.rules = draft.rules /\ draft'.link = "live"
  BY <1>1, DraftFields DEF IInv, TypeOK
<1> QED
  BY <1>1, <1>2 DEF DraftFollows, Transacting

(* Every edit is a commit of the operator's, beside the broker.             *)
LEMMA EditChanges ==
  ASSUME Edit
  PROVE  /\ version' = version + 1 /\ edits' = edits + 1
         /\ UNCHANGED <<pc, draft, base, starts, shown>>
BY DEF Edit, AddUser, DeleteUser, RemoveUser, ChangePassword, InsertRole, DeleteRole, AddRule,
       DeleteRule, RemoveRule, Change

LEMMA StepFollows == IInv /\ DraftFollows /\ [Next]_vars => DraftFollows'
<1> SUFFICES ASSUME IInv, DraftFollows, [Next]_vars PROVE DraftFollows'
  OBVIOUS
<1>1. CASE Count \/ EnsureRole \/ EnsureRules \/ CreateRoot \/ AddRole
  BY <1>1, CountFollows, EnsureRoleFollows, EnsureRulesFollows, CreateRootFollows, AddRoleFollows
<1>2. CASE pc' \notin Transacting
  BY <1>2 DEF DraftFollows
<1>3. CASE Edit
  <2>1. pc \in Transacting => base <= version /\ base \in Nat /\ version \in Nat
    BY DEF IInv, TypeOK, SnapshotCurrent
  <2> QED
    BY <1>3, <2>1, EditChanges DEF DraftFollows
<1>4. CASE UNCHANGED vars
  BY <1>4 DEF vars, DraftFollows
<1>5. Commit \/ Conflict \/ Stale \/ Fault \/ Start \/ LogPassword \/ Stop => pc' \notin Transacting
  BY DEF Commit, Conflict, Stale, Fault, Rollback, Start, LogPassword, Stop, Transacting
<1> QED
  BY <1>1, <1>2, <1>3, <1>4, <1>5 DEF Next, EnsureInitialRoot

LEMMA InitFollows == Init => DraftFollows
BY DEF Init, DraftFollows, Transacting

LEMMA AccountInit == Init => Account!Init
BY DEF Init, Account!Init, Account!Empty, Empty, Account!Operation, Operation, Broker, Transacting

(* The COMMIT is the one step.                                              *)
LEMMA CommitCreates ==
  ASSUME IInv, DraftFollows, Commit
  PROVE  Account!Create
<1>1. /\ pc = "commit" /\ pc' = "log" /\ db' = draft /\ UNCHANGED <<starts, shown, edits>>
  BY DEF Commit
<1>2. base = version /\ draft.hash = starts /\ draft \in Database
      /\ \A u \in User : db.users[u] # "live"
  BY <1>1 DEF IInv, TypeOK, SnapshotCurrent, DraftGrows, Transacting
<1>3. /\ db.role # "deleted" /\ db.users[Root] = "absent"
      /\ draft.users = [db.users EXCEPT ![Root] = "live"]
      /\ draft.role = "live" /\ draft.rules = Granted(db.rules) /\ draft.link = "live"
  BY <1>1, <1>2 DEF DraftFollows, Transacting
<1>4. draft = [users |-> draft.users, hash |-> draft.hash, role |-> draft.role,
               rules |-> draft.rules, link |-> draft.link]
  BY <1>2 DEF Database
<1>5. /\ draft.rules \in [Account!Operation -> Account!Row]
      /\ Account!FullAccess(draft.rules)
  <2>1. draft.rules \in [Account!Operation -> Account!Row]
    BY <1>2, DatabaseRows DEF Operation, Account!Operation, Row, Account!Row
  <2>2. db.rules \in [Operation -> Row] /\ draft.rules = Granted(db.rules)
    BY <1>3, DatabaseRows DEF IInv, TypeOK
  <2>3. ASSUME NEW o \in Operation
        PROVE  \/ draft.rules[o] = "live"
               \/ draft.rules[o] = "deleted" /\ db.rules[o] = "deleted"
    BY <2>2 DEF Granted, Row
  <2> QED
    BY <2>1, <2>3 DEF Account!FullAccess, Operation, Account!Operation
<1>6. Broker = "starting" /\ Broker' = "created"
  BY <1>1 DEF Broker, Transacting
<1> QED
  BY <1>1, <1>2, <1>3, <1>4, <1>5, <1>6 DEF Account!Create

LEMMA StepImplements == IInv /\ IInv' /\ DraftFollows /\ [Next]_vars => [Account!Next]_(Account!vars)
<1> SUFFICES ASSUME IInv, IInv', DraftFollows, [Next]_vars
             PROVE  Account!Next \/ UNCHANGED Account!vars
  OBVIOUS
<1> USE DEF Account!Next
<1>1. CASE Start
  BY <1>1 DEF Start, Account!Start, Broker, Transacting
<1>2. CASE Count
  BY <1>2 DEF Count, Account!Skip, Account!Moves, Account!vars, Broker, Transacting
<1>3. CASE EnsureRole \/ EnsureRules \/ CreateRoot \/ AddRole
  BY <1>3
  DEF EnsureRole, EnsureRules, CreateRoot, AddRole, Write, Account!vars, Broker, Transacting
<1>4. CASE Commit
  BY <1>4, CommitCreates
<1>5. CASE Conflict \/ Stale \/ Fault
  BY <1>5 DEF Conflict, Stale, Fault, Rollback, Account!Fail, Account!Moves, Broker, Transacting
<1>6. CASE LogPassword
  BY <1>6 DEF LogPassword, Account!Show, Account!Moves, Broker, Transacting
<1>7. CASE Stop
  BY <1>7 DEF Stop, Account!Stop, Broker, Transacting, IInv, TypeOK
<1>8. CASE Edit
  <2>1. db' \in Account!Database
    BY DEF IInv, TypeOK, Database, Account!Database, Row, Account!Row, Operation, Account!Operation
  <2> QED
    BY <1>8, <2>1, EditChanges DEF Account!Edit, Broker
<1>9. CASE UNCHANGED vars
  BY <1>9 DEF vars, Account!vars, Broker
<1> QED
  BY <1>1, <1>2, <1>3, <1>4, <1>5, <1>6, <1>7, <1>8, <1>9 DEF Next, EnsureInitialRoot

(* EnsureInitialRoot is one step of the database, or none, for any number   *)
(* of users, starts, edits, faults and crashes (bootstrap.go:17-65).        *)
THEOREM OneStep == Spec => ImplementsFirstAccount
<1>1. Spec => [](IInv /\ DraftFollows)
  BY InitIInv, NextIInv, InitFollows, StepFollows, PTL DEF Spec
<1> QED
  BY <1>1, AccountInit, StepImplements, PTL DEF Spec, ImplementsFirstAccount, Account!Spec
=============================================================================
