---------------------------- MODULE Repositories ----------------------------
(***************************************************************************)
(* The calls of internal/data/repo as the statements they make, one after  *)
(* the other, and the functions of the broker that make several of them.   *)
(* A function that decides on what it has read is the set of its runs.     *)
(***************************************************************************)
EXTENDS Integers, Sequences

Do(kind, dao, where) == [kind |-> kind, dao |-> dao, where |-> where]
Alone(ops) == [transaction |-> FALSE, ops |-> ops]
InTransaction(ops) == [transaction |-> TRUE, ops |-> ops]

-----------------------------------------------------------------------------
(* repo/auth.go                                                             *)

FindEnabled == Do("first", "user", {"username", "enabled"})

\* The preload of roles and rules.
FindEnabledWithRoles ==
  <<FindEnabled, Do("first", "user_role", {"user_id"}), Do("first", "role", {"id"}),
    Do("first", "acl_rule", {"role_id"})>>

UserCount == Do("count", "user", {})
UserCreate == Do("create", "user", {})
AddRole == Do("append", "user.Roles", {})
FindByName == Do("first", "role", {"name"})
RoleCreate == Do("create", "role", {})
CreateIgnoreConflicts == Do("create", "acl_rule", {})

-----------------------------------------------------------------------------
(* repo/audit.go                                                            *)

MessageCreate == Do("create", "message", {})
CreateIgnoreConflict == Do("create", "topic", {})

\* The row is created if there is none, and else refreshed.
CreateOrUpdate ==
  {<<Do("first", "connection", {"client_id"}), write>> :
     write \in {Do("create", "connection", {}), Do("update", "connection", {"id"})}}

MarkDisconnected == <<Do("update", "connection", {"id"})>>

-----------------------------------------------------------------------------
(* What the broker makes of them.                                           *)

\* Nothing to do, or an account with a role that is there or is made.
EnsureInitialRoot ==
  {InTransaction(<<UserCount>>)} \cup
  {InTransaction(<<UserCount, FindByName>> \o role \o <<CreateIgnoreConflicts, UserCreate, AddRole>>) :
     role \in {<<>>, <<RoleCreate>>}}

OnACLCheck == {Alone(FindEnabledWithRoles)}
OnSessionEstablished == {Alone(ops) : ops \in CreateOrUpdate}
OnDisconnect == {Alone(MarkDisconnected)}
Save == <<CreateIgnoreConflict, MessageCreate>>

\* A page of messages.
FindByPage(offset, limit) ==
  Alone(<<[kind |-> "page", dao |-> "message", where |-> {}, offset |-> offset, limit |-> limit]>>)
=============================================================================
