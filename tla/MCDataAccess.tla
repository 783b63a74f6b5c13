---------------------------- MODULE MCDataAccess ----------------------------
(* The calls of the repositories, and pages around every boundary.          *)
EXTENDS DataAccess, Repositories

MCPrograms ==
  EnsureInitialRoot \cup OnACLCheck \cup OnSessionEstablished \cup OnDisconnect
  \cup {Alone(Save \o Save)}
  \cup {FindByPage(p[1], p[2]) : p \in {<<0, 1>>, <<0, 2>>, <<1, 2>>, <<2, 1>>, <<0, -1>>, <<0, 0>>}}
=============================================================================
