--------------------------- MODULE MCAccessControl ---------------------------
(* Instances of AccessControl for TLC. *)
EXTENDS AccessControl, TLC

CONSTANTS r1, r2, allowAll, denyOne, allowSub, denySub, alice

\* One role that allows, one that denies, for publishers and subscribers.
MCRuleOf ==
  allowAll :> [role |-> r1, operation |-> "publish", effect |-> "allow",
               filter |-> <<"a", "#">>] @@
  denyOne  :> [role |-> r2, operation |-> "publish", effect |-> "deny",
               filter |-> <<"a", "b">>] @@
  allowSub :> [role |-> r2, operation |-> "subscribe", effect |-> "allow",
               filter |-> <<"a", "+">>] @@
  denySub  :> [role |-> r1, operation |-> "subscribe", effect |-> "deny",
               filter |-> <<"+", "b">>]

MCRequest ==
  {[operation |-> "publish", filter |-> <<"a", "b">>],
   [operation |-> "publish", filter |-> <<"a">>],
   [operation |-> "subscribe", filter |-> <<"a", "+">>],
   [operation |-> "subscribe", filter |-> <<"a", "a">>]}

MCProbeTopic == {<<x>> : x \in Name} \cup {<<x, y>> : x, y \in Name}
=============================================================================
