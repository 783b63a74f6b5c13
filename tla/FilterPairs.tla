----------------------------- MODULE FilterPairs -----------------------------
(***************************************************************************)
(* All pairs of filters and all topics, grown level by level, and what the *)
(* comparisons of TopicFilter owe to the meaning of the filters: an access *)
(* rule must never grant more, or forbid less, than its filter selects.    *)
(***************************************************************************)
EXTENDS TopicFilter

CONSTANTS
  MaxFilter,  \* bound: levels of a filter
  MaxTopic    \* bound: levels of a topic

ASSUME PairBoundsAssumption == MaxFilter \in Nat \ {0} /\ MaxTopic \in Nat \ {0}

\* Levels are strings: there is always another name.
ASSUME TwoNames == \E x, y \in Name : x # y

VARIABLES
  left,       \* the filter of a rule
  right,      \* the filter a client asks for
  topic       \* a topic somebody may publish to

pairVars == <<left, right, topic>>

PairTypeOK == left \in Filter /\ right \in Filter /\ topic \in Topic

PairInit ==
  /\ left \in {<<l>> : l \in Level}
  /\ right \in {<<l>> : l \in Level}
  /\ topic \in {<<l>> : l \in Name}

GrowLeft ==
  /\ Len(left) < MaxFilter
  /\ \E l \in Level : left' = Append(left, l)
  /\ UNCHANGED <<right, topic>>

GrowRight ==
  /\ Len(right) < MaxFilter
  /\ \E l \in Level : right' = Append(right, l)
  /\ UNCHANGED <<left, topic>>

GrowTopic ==
  /\ Len(topic) < MaxTopic
  /\ \E l \in Name : topic' = Append(topic, l)
  /\ UNCHANGED <<left, right>>

PairNext == GrowLeft \/ GrowRight \/ GrowTopic

PairSpec == PairInit /\ [][PairNext]_pairVars

-----------------------------------------------------------------------------
\* What a rule covers it selects: when topicCoveredBy grants a request, every
\* topic the request reaches is one the allow rule selects (topic.go:20).
CoverSound ==
  CoveredBy(left, right) /\ Matches(right, topic) => Matches(left, topic)

\* No topic slips past a deny rule: if rule and request have a topic in
\* common, topicFiltersOverlap sees it (topic.go:5).
OverlapComplete ==
  Matches(left, topic) /\ Matches(right, topic) => Overlap(left, right)

\* For the request of a publisher, a plain topic, both comparisons are exact.
ExactOnTopics ==
  /\ CoveredBy(left, topic) <=> Matches(left, topic)
  /\ Overlap(left, topic) <=> Matches(left, topic)

\* The two loops of topic.go return what the closed forms say, on whatever
\* strings the acl table holds.
LoopsAgree ==
  /\ OverlapLoop(left, right) <=> Overlap(left, right)
  /\ CoveredLoop(left, right) <=> CoveredBy(left, right)

Topics(max) == UNION {[1 .. n -> Name] : n \in 1 .. max}

\* A deny rule blocks nothing it need not: on well-formed filters an overlap is
\* witnessed by a common topic (topic.go:5).
OverlapTight ==
  WellFormed(left) /\ WellFormed(right) /\ Overlap(left, right) =>
    \E t \in Topics(MaxFilter) : Matches(left, t) /\ Matches(right, t)

\* An allow rule grants all it can: a well-formed request that is not covered
\* reaches a topic outside the rule.  The one exception is "#", which "+/#"
\* equals and topicCoveredBy does not see (topic.go:30).
CoverTight ==
  WellFormed(left) /\ WellFormed(right) /\ right # <<"#">> /\ ~CoveredBy(left, right) =>
    \E t \in Topics(MaxFilter + 1) : Matches(right, t) /\ ~Matches(left, t)

\* Neither comparison is stricter than it has to be: what a deny rule blocks and
\* what an allow rule fails to cover has a witness (topic.go:5-40).
Tight == OverlapTight /\ CoverTight

=============================================================================
