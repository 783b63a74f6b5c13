---------------------------- MODULE QueryHandles ----------------------------
(***************************************************************************)
(* The generated queries (internal/data/query) as the repositories use     *)
(* them: one Query, made at start, whose data access objects all           *)
(* goroutines share, a copy of it for every transaction, and statements    *)
(* built up call by call from either.  A caller is one call of a           *)
(* repository or of FindByPage, on a goroutine of its own; it ends at its  *)
(* first error.                                                            *)
(*                                                                         *)
(* From SQLite: a write takes the write lock, till the end of its          *)
(* transaction, or gives up if another holds it for too long; what a       *)
(* transaction has written is seen by others after its commit.             *)
(***************************************************************************)
EXTENDS Integers, Sequences, FiniteSets

CONSTANTS
  Callers,  \* goroutines
  Programs, \* what a caller may run
  NoOne     \* no caller: the pool of the database itself

ASSUME CallersAssumption == NoOne \notin Callers

\* The tables, as the columns their objects are made with.
Row == {"id", "created_at", "updated_at", "deleted_at"}

newUser == Row \cup {"username", "password_hash", "enabled"}
newRole == Row \cup {"name"}
newACLRule == Row \cup {"role_id", "operation", "effect", "topic_filter"}
newUserRole == (Row \ {"id"}) \cup {"user_id", "role_id"}
newReceivedMessage ==
  Row \cup {"received_at", "client_id", "username", "topic", "payload", "qo_s", "retained", "duplicate"}
newTopic == Row \cup {"topic"}
newClientConnection ==
  Row \cup {"client_id", "status", "username", "remote_address", "listener", "protocol_version",
            "clean_session", "connected_at", "disconnected_at", "last_disconnected_ip",
            "disconnect_reason", "session_expired"}

Columns ==
  [user |-> newUser, role |-> newRole, acl_rule |-> newACLRule, user_role |-> newUserRole,
   message |-> newReceivedMessage, topic |-> newTopic, connection |-> newClientConnection]

Table == DOMAIN Columns
Association == {"user.Roles", "role.ACLRules"}
Dao == Table \cup Association

Kind == {"first", "count", "page", "update", "create", "append"}
Write == {"update", "create", "append"}

\* The table that a write goes to; an association's is the join table.
Target(d) == CASE d = "user.Roles" -> "user_role" [] d = "role.ACLRules" -> "acl_rule" [] OTHER -> d

\* A page is one of all messages.
Operation ==
  [kind : Kind \ {"page"}, dao : Dao, where : SUBSET STRING] \cup
  [kind : {"page"}, dao : {"message"}, where : {{}}, offset : Nat, limit : Int]

\* A condition is on columns of the statement's table, and a call makes one page.
ASSUME ProgramsAssumption ==
  \A p \in Programs :
    /\ p.transaction \in BOOLEAN
    /\ p.ops \in Seq(Operation)
    /\ \A k \in DOMAIN p.ops : p.ops[k].where \subseteq Columns[Target(p.ops[k].dao)]
    /\ \A j, k \in DOMAIN p.ops : p.ops[j].kind = "page" /\ p.ops[k].kind = "page" => j = k

VARIABLES
  rows,    \* the rows that are committed: [dao, id, by]
  shared,  \* shared[d]: conditions in the shared object d
  program, \* program[c]: what c runs
  handle,  \* handle[c]: the pools of the objects c uses
  at,      \* at[c]: the operation c is at, 0 before and past the last one after
  stmt,    \* stmt[c]: the statement c has built: [pool, where], or none
  work,    \* work[c]: rows its transaction has written
  lock,    \* whose transaction has the write lock
  met,     \* met[c]: the lock that made a statement of c give up
  page,    \* page[c]: what FindByPage has got: [size, count]
  seen     \* history: seen[c]: numbers of messages since FindByPage began

handleVars == <<rows, shared, program, handle, at, stmt, work, lock, met, page, seen>>

None == [pool |-> NoOne, where |-> {"none"}]
NoPage == [size |-> -1, count |-> -1]

Statement == [pool : Callers \cup {NoOne}, where : SUBSET ((UNION {Columns[t] : t \in Table}) \cup {"none"})]

-----------------------------------------------------------------------------
(* Plausible bugs, one per property: variants of the definitions below that *)
(* no definition of the model uses.                                         *)

\* The association keeps the pool it was made with.
userCloneOfDo(pool) == [d \in {"user", "user.Roles"} |-> IF d = "user" THEN pool ELSE NoOne]

\* The error is returned without a rollback, and the connection goes back to the
\* pool.
AbortWithoutRollback(c) ==
  /\ at' = [at EXCEPT ![c] = Len(program[c].ops) + 2]
  /\ stmt' = [stmt EXCEPT ![c] = None]
  /\ lock' = IF lock = c THEN NoOne ELSE lock
  /\ UNCHANGED <<rows, shared, program, handle, work, page, seen>>

\* A full page is taken for the last one.
LastPageIfFull(size, limit) == 0 < limit /\ 0 < size /\ size <= limit

\* The receivers are pointers.
BuildOnShared(c) ==
  LET op == program[c].ops[at[c]] IN
  /\ at[c] \in DOMAIN program[c].ops /\ stmt[c] = None
  /\ stmt' = [stmt EXCEPT ![c] = [pool |-> handle[c][op.dao], where |-> shared[op.dao] \cup op.where]]
  /\ shared' = [shared EXCEPT ![op.dao] = @ \cup op.where]
  /\ UNCHANGED <<rows, program, handle, at, work, lock, met, page, seen>>

-----------------------------------------------------------------------------
(* The objects.                                                             *)

\* user.clone and role.clone replace the pools of their associations too; the
\* other objects have none.
userClone(pool) == [d \in {"user", "user.Roles"} |-> pool]
roleClone(pool) == [d \in {"role", "role.ACLRules"} |-> pool]

\* The Query that Use makes, and the one that clone makes for a transaction.
Use == [d \in Dao |-> NoOne]
clone(pool) ==
  [d \in Dao |->
     IF d \in DOMAIN userClone(pool) THEN userClone(pool)[d]
     ELSE IF d \in DOMAIN roleClone(pool) THEN roleClone(pool)[d] ELSE pool]

\* WithContext, Where, Clauses and Preload: the receivers are values, so each
\* call changes a copy of the object it is called on.
Chain(pool, inherited, where) == [pool |-> pool, where |-> inherited \cup where]

-----------------------------------------------------------------------------
(* A caller.                                                                *)

HandlesInit ==
  /\ rows = {}
  /\ shared = [d \in Dao |-> {}]
  /\ program \in [Callers -> Programs]
  /\ handle = [c \in Callers |-> Use]
  /\ at = [c \in Callers |-> 0]
  /\ stmt = [c \in Callers |-> None]
  /\ work = [c \in Callers |-> {}]
  /\ lock = NoOne
  /\ met = [c \in Callers |-> NoOne]
  /\ page = [c \in Callers |-> NoPage]
  /\ seen = [c \in Callers |-> {}]

Op(c) == program[c].ops[at[c]]
Running(c) == at[c] \in DOMAIN program[c].ops
Over(c) == Len(program[c].ops) + 1
Failed(c) == Len(program[c].ops) + 2

Messages(set) == Cardinality({r \in set : r.dao = "message"})

NewRow(c, d, set) ==
  [dao |-> Target(d), id |-> Cardinality({r \in set : r.dao = Target(d)}) + 1, by |-> c]

\* Repositories.Transaction gives the function repositories over the clone.
Begin(c) ==
  /\ at[c] = 0
  /\ at' = [at EXCEPT ![c] = 1]
  /\ handle' = [handle EXCEPT ![c] = IF program[c].transaction THEN clone(c) ELSE Use]
  /\ UNCHANGED <<rows, shared, program, stmt, work, lock, met, page, seen>>

Build(c) ==
  /\ Running(c) /\ stmt[c] = None
  /\ stmt' = [stmt EXCEPT ![c] = Chain(handle[c][Op(c).dao], shared[Op(c).dao], Op(c).where)]
  /\ UNCHANGED <<rows, shared, program, handle, at, work, lock, met, page, seen>>

Finished(c) == stmt' = [stmt EXCEPT ![c] = None] /\ at' = [at EXCEPT ![c] = @ + 1]

\* First and Count.
Read(c) ==
  /\ Running(c) /\ stmt[c] # None /\ Op(c).kind \in {"first", "count"}
  /\ Finished(c)
  /\ UNCHANGED <<rows, shared, program, handle, work, lock, met, page, seen>>

\* The numbers of messages that those who are paging could have seen.
Witnessed(set) ==
  seen' = [c \in Callers |->
    IF Running(c) /\ Op(c).kind = "page" THEN seen[c] \cup {Messages(set)} ELSE seen[c]]

\* A statement outside of a transaction is one of its own.
Execute(c) ==
  LET d == Op(c).dao
      pool == stmt[c].pool
      new == IF Op(c).kind = "update" THEN {} ELSE {NewRow(c, d, rows \cup work[c])}
  IN /\ Running(c) /\ stmt[c] # None /\ Op(c).kind \in Write
     /\ lock \in {NoOne, pool}
     /\ Finished(c)
     /\ IF pool = NoOne
          THEN rows' = rows \cup new /\ Witnessed(rows') /\ UNCHANGED <<work, lock>>
          ELSE /\ work' = [work EXCEPT ![c] = @ \cup new]
               /\ lock' = pool
               /\ UNCHANGED <<rows, seen>>
     /\ UNCHANGED <<shared, program, handle, met, page>>

\* The end of a call that fails, with its transaction if it has one.
Abort(c) ==
  /\ at' = [at EXCEPT ![c] = Failed(c)]
  /\ stmt' = [stmt EXCEPT ![c] = None]
  /\ work' = [work EXCEPT ![c] = {}]
  /\ lock' = IF lock = c THEN NoOne ELSE lock
  /\ UNCHANGED <<rows, shared, program, handle, page, seen>>

\* The busy time-out.
GiveUp(c) ==
  /\ Running(c) /\ stmt[c] # None /\ Op(c).kind \in Write
  /\ lock \notin {NoOne, stmt[c].pool}
  /\ met' = [met EXCEPT ![c] = lock]
  /\ Abort(c)

\* Any statement may fail, and so may COMMIT.
Fail(c) ==
  /\ (Running(c) /\ stmt[c] # None) \/ (at[c] = Over(c) /\ lock = c)
  /\ Abort(c)
  /\ UNCHANGED met

\* The function has returned nil.
Commit(c) ==
  /\ at[c] = Over(c) /\ lock = c
  /\ rows' = rows \cup work[c]
  /\ Witnessed(rows')
  /\ work' = [work EXCEPT ![c] = {}]
  /\ lock' = NoOne
  /\ UNCHANGED <<shared, program, handle, at, stmt, met, page>>

-----------------------------------------------------------------------------
(* FindByPage.                                                              *)

LastPage(size, limit) == 0 < limit /\ 0 < size /\ size < limit

\* Rows of a page: a limit of -1 lifts the clause.
SizeOf(n, offset, limit) ==
  LET rest == IF offset < n THEN n - offset ELSE 0
  IN IF limit >= 0 /\ limit < rest THEN limit ELSE rest

\* The rows, and the count made up from them if that can be done.
FindPage(c) ==
  LET n == Messages(rows)
      size == SizeOf(n, Op(c).offset, Op(c).limit)
  IN /\ Running(c) /\ stmt[c] # None /\ Op(c).kind = "page" /\ page[c] = NoPage
     /\ seen' = [seen EXCEPT ![c] = {n}]
     /\ IF LastPage(size, Op(c).limit)
          THEN /\ page' = [page EXCEPT ![c] = [size |-> size, count |-> size + Op(c).offset]]
               /\ Finished(c)
          ELSE /\ page' = [page EXCEPT ![c] = [size |-> size, count |-> -1]]
               /\ UNCHANGED <<stmt, at>>
     /\ UNCHANGED <<rows, shared, program, handle, work, lock, met>>

CountPage(c) ==
  /\ Running(c) /\ stmt[c] # None /\ Op(c).kind = "page" /\ page[c] # NoPage
  /\ page' = [page EXCEPT ![c] = [@ EXCEPT !.count = Messages(rows)]]
  /\ Finished(c)
  /\ UNCHANGED <<rows, shared, program, handle, work, lock, met, seen>>

Call(c) ==
  \/ Begin(c) \/ Build(c) \/ Read(c) \/ Execute(c) \/ GiveUp(c) \/ Fail(c) \/ Commit(c)
  \/ FindPage(c) \/ CountPage(c)

-----------------------------------------------------------------------------
\* The types of the state; a condition is on columns of the statement's table.
HandlesTypeOK ==
  /\ \A r \in rows : r.dao \in Table /\ r.id \in Nat \ {0} /\ r.by \in Callers
  /\ \A r, q \in rows : r.dao = q.dao /\ r.id = q.id => r = q
  /\ shared \in [Dao -> SUBSET STRING]
  /\ program \in [Callers -> Programs]
  /\ handle \in [Callers -> [Dao -> Callers \cup {NoOne}]]
  /\ \A c \in Callers : at[c] \in 0 .. Len(program[c].ops) + 2
  /\ stmt \in [Callers -> Statement]
  /\ \A c \in Callers : stmt[c] = None \/ stmt[c].where \subseteq Columns[Target(Op(c).dao)]
  /\ \A c \in Callers : \A r \in work[c] : r.by = c
  /\ lock \in Callers \cup {NoOne}
  /\ \A c \in Callers : work[c] # {} => lock = c
  /\ met \in [Callers -> Callers \cup {NoOne}]
  /\ \A c \in Callers : page[c] = NoPage \/ (page[c].size \in Nat /\ page[c].count \in Nat \cup {-1})
=============================================================================
