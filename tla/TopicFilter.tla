----------------------------- MODULE TopicFilter -----------------------------
(***************************************************************************)
(* The two comparisons of MQTT topic filters that decide access and        *)
(* storage in mkrab (mkrab/internal/broker/topic.go), over filters already *)
(* split at "/" into a sequence of levels.  Overlap and CoveredBy say in   *)
(* closed form what the two loops compute; OverlapLoop and CoveredLoop are *)
(* the loops, index by index, to compare with.                             *)
(*                                                                         *)
(* Nothing here requires "#" to be the last level: the filters in the acl  *)
(* table are not validated.                                                *)
(***************************************************************************)
EXTENDS Naturals, Sequences

CONSTANT Level   \* topic levels, the two wildcards included

ASSUME WildcardsAreLevels == {"+", "#"} \subseteq Level

Name == Level \ {"+", "#"}

\* strings.Split never returns an empty slice.
Filter == Seq(Level) \ {<<>>}
Topic == Seq(Name) \ {<<>>}

-----------------------------------------------------------------------------
\* Two levels are compatible: neither rules the other out.
Agree(x, y) == x = "+" \/ y = "+" \/ x = y

HashAt(f, k) == k \in DOMAIN f /\ f[k] = "#"

(* Plausible bugs, one per property: variants of the definitions below that *)
(* no definition of the model uses.                                         *)

\* "#" no longer stands for the level above it as well.
OverlapWithoutParent(left, right) ==
  \/ \E k \in DOMAIN left \cap DOMAIN right :
       /\ HashAt(left, k) \/ HashAt(right, k)
       /\ \A j \in 1 .. k - 1 : Agree(left[j], right[j])
  \/ /\ Len(left) = Len(right)
     /\ \A j \in DOMAIN left : Agree(left[j], right[j])

\* A "#" anywhere overlaps with everything.
OverlapAtAnyHash(left, right) ==
  \/ \E k \in DOMAIN left \cup DOMAIN right : HashAt(left, k) \/ HashAt(right, k)
  \/ /\ Len(left) = Len(right)
     /\ \A j \in DOMAIN left : Agree(left[j], right[j])

\* "+" takes in a requested "#".
LevelCoversHash(allowed, requested, j) ==
  /\ j <= Len(requested)
  /\ \/ allowed[j] = "+"
     \/ requested[j] \notin {"+", "#"} /\ allowed[j] = requested[j]

\* "+" takes in no other name.
LevelCoversItself(allowed, requested, j) ==
  j <= Len(requested) /\ requested[j] # "#" /\ allowed[j] = requested[j]

\* Levels past the end of the allowed filter are not looked at.
CoveredByPrefix(allowed, requested) ==
  \A j \in DOMAIN allowed :
    allowed[j] = "#" \/ (j <= Len(requested) /\ (allowed[j] = "+" \/ allowed[j] = requested[j]))

\* The loop leaves out the comparison of the lengths after it.
CoveredLoopPrefix(allowed, requested) ==
  LET n == Len(allowed)  m == Len(requested)
      from[i \in 1 .. n + 1] ==
        IF i = n + 1 THEN TRUE
        ELSE IF allowed[i] = "#" THEN TRUE
        ELSE IF i > m THEN FALSE
        ELSE IF allowed[i] = "+" THEN requested[i] # "#" /\ from[i + 1]
        ELSE /\ ~(requested[i] = "+" \/ requested[i] = "#" \/ allowed[i] # requested[i])
             /\ from[i + 1]
  IN from[1]

-----------------------------------------------------------------------------
\* topicFiltersOverlap(left, right)
Overlap(left, right) ==
  \/ \E k \in DOMAIN left \cup DOMAIN right :
       /\ HashAt(left, k) \/ HashAt(right, k)
       /\ k <= Len(left) + 1 /\ k <= Len(right) + 1
       /\ \A j \in 1 .. k - 1 : Agree(left[j], right[j])
  \/ /\ Len(left) = Len(right)
     /\ \A j \in DOMAIN left : Agree(left[j], right[j])

\* One level of the allowed filter takes in everything the requested one does.
LevelCovers(allowed, requested, j) ==
  /\ j <= Len(requested)
  /\ \/ allowed[j] = "+" /\ requested[j] # "#"
     \/ requested[j] \notin {"+", "#"} /\ allowed[j] = requested[j]

\* topicCoveredBy(allowed, requested)
CoveredBy(allowed, requested) ==
  \/ \E k \in DOMAIN allowed :
       /\ allowed[k] = "#"
       /\ \A j \in 1 .. k - 1 : LevelCovers(allowed, requested, j)
  \/ /\ Len(allowed) = Len(requested)
     /\ \A j \in DOMAIN allowed : LevelCovers(allowed, requested, j)

-----------------------------------------------------------------------------
(* The loops as the code runs them; i is one more than the Go index.        *)

OverlapLoop(left, right) ==
  LET n == Len(left)  m == Len(right)
      last == IF n < m THEN n + 1 ELSE m + 1
      from[i \in 1 .. last] ==
        IF HashAt(left, i) \/ HashAt(right, i) THEN TRUE
        ELSE IF i = n + 1 \/ i = m + 1 THEN i = n + 1 /\ i = m + 1
        ELSE IF left[i] # "+" /\ right[i] # "+" /\ left[i] # right[i] THEN FALSE
        ELSE from[i + 1]
  IN from[1]

CoveredLoop(allowed, requested) ==
  LET n == Len(allowed)  m == Len(requested)
      from[i \in 1 .. n + 1] ==
        IF i = n + 1 THEN n = m
        ELSE IF allowed[i] = "#" THEN TRUE
        ELSE IF i > m THEN FALSE
        ELSE IF allowed[i] = "+" THEN requested[i] # "#" /\ from[i + 1]
        ELSE /\ ~(requested[i] = "+" \/ requested[i] = "#" \/ allowed[i] # requested[i])
             /\ from[i + 1]
  IN from[1]

-----------------------------------------------------------------------------
\* What the filters are for: filter f selects topic t.  "#" stands for any
\* number of levels, also none, "+" for exactly one.  (MQTT's exception for
\* topics that start with "$" is the broker library's business, not topic.go's.)
Matches(f, t) ==
  \/ \E k \in DOMAIN f :
       /\ f[k] = "#"
       /\ k <= Len(t) + 1
       /\ \A j \in 1 .. k - 1 : f[j] = "+" \/ f[j] = t[j]
  \/ /\ Len(f) = Len(t)
     /\ \A j \in DOMAIN f : f[j] = "+" \/ f[j] = t[j]

\* MQTT allows "#" as the last level only.
WellFormed(f) == \A k \in DOMAIN f : f[k] = "#" => k = Len(f)
=============================================================================
