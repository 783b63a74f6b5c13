----------------------------- MODULE DataAccess -----------------------------
(***************************************************************************)
(* Everything that reads and writes the database while mkrab runs: calls   *)
(* of the repositories, which go through the generated queries, and the    *)
(* lists of the web interface, which go to GORM directly.                  *)
(***************************************************************************)
EXTENDS QueryHandles, AdminLists

vars == <<handleVars, listVars>>

TypeOK == HandlesTypeOK /\ ListsTypeOK

Init == HandlesInit /\ ListsInit

Next ==
  \/ \E c \in Callers : Call(c) /\ UNCHANGED listVars
  \/ \E q \in Requests : List(q, Messages(rows)) /\ UNCHANGED handleVars

Spec == Init /\ [][Next]_vars

-----------------------------------------------------------------------------
Home(c) == IF program[c].transaction THEN c ELSE NoOne

\* A statement is its caller's alone: it has the conditions of its own operation
\* and no left-over of another one on the same shared object, and goes to its
\* caller's transaction or to the database (gen.go:40-51, 69-80; audit.go:35-52).
StatementIsOwn ==
  \A c \in Callers : stmt[c] # None =>
    stmt[c].where = Op(c).where /\ stmt[c].pool = Home(c)

Written(c) == {Target(program[c].ops[k].dao) :
  k \in {j \in DOMAIN program[c].ops : program[c].ops[j].kind \in {"create", "append"}}}

\* What a transaction writes is there as a whole or not at all, at every moment,
\* and no statement of it waits for the lock of its own transaction, which would
\* fail every first start (repository.go:27, bootstrap.go:18-60).
TransactionWhole ==
  /\ \A c \in Callers : met[c] # c
  /\ \A c \in Callers : program[c].transaction =>
       {r.dao : r \in {q \in rows : q.by = c}} \in {{}, Written(c)}

\* The total that FindByPage returns was the number of rows at some moment of
\* the call, also if it is made up from the page (received_message.gen.go:403-416).
PageTotalSeen == \A c \in Callers : at[c] = Over(c) /\ page[c] # NoPage => page[c].count \in seen[c]

\* A request that is alone on its route answers exactly what its SELECT returned,
\* whatever earlier requests have left in the slice, or an error without rows
\* (admin/server.go:51-59).
LoneAnswerExact ==
  \A q \in Requests : request[q] = "done" /\ alone[q] =>
    answer[q] = [status |-> 200, list |-> read[q]] \/ answer[q] = [status |-> 500, list |-> <<>>]

\* Calls that run at the same time do not mix, neither in the statements they
\* build on shared objects nor in what they write (gen.go:40-127).
CallsDoNotMix == StatementIsOwn /\ TransactionWhole

=============================================================================
