-------------------------- MODULE MCConnectionAudit --------------------------
(* Instances of ConnectionAudit for TLC. *)
EXTENDS ConnectionAudit, TLC

CONSTANTS c1, c2, c3, c4, kA, kB

\* Three connections of one device and one of another.
MCClientOf == c1 :> kA @@ c2 :> kA @@ c3 :> kA @@ c4 :> kB

\* Three connections of one device.
MCClientOfOne == c1 :> kA @@ c2 :> kA @@ c3 :> kA

\* Two connections of one device and one of another.
MCClientOfSmall == c1 :> kA @@ c2 :> kA @@ c3 :> kB

\* Connections of one client are interchangeable.
MCSymmetry == Permutations({c1, c2, c3})
=============================================================================
