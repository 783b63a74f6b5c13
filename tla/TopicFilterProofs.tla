-------------------------- MODULE TopicFilterProofs --------------------------
(***************************************************************************)
(* Lemmas about the comparisons of topic.go, for filters and topics of     *)
(* every length over every set of levels, and with them the properties of  *)
(* FilterPairs.  The proofs about the modules that use the comparisons     *)
(* take the lemmas from here; FilterPairs' variables play no part there.   *)
(***************************************************************************)
EXTENDS FilterPairs, WellFoundedInduction, TLAPS

\* f selects t through the "#" at level k.
SelectsAt(f, t, k) ==
  /\ f[k] = "#"
  /\ k <= Len(t) + 1
  /\ \A j \in 1 .. k - 1 : f[j] = "+" \/ f[j] = t[j]

\* f selects t level by level.
SelectsAll(f, t) ==
  /\ Len(f) = Len(t)
  /\ \A j \in DOMAIN f : f[j] = "+" \/ f[j] = t[j]

LEMMA MatchesCases ==
  \A f, t : Matches(f, t) <=> SelectsAll(f, t) \/ \E k \in DOMAIN f : SelectsAt(f, t, k)
BY DEF Matches, SelectsAt, SelectsAll

LEMMA Levels ==
  ASSUME NEW f \in Seq(Level)
  PROVE  Len(f) \in Nat /\ DOMAIN f = 1 .. Len(f) /\ \A k \in DOMAIN f : f[k] \in Level
OBVIOUS

LEMMA Names ==
  ASSUME NEW t \in Topic
  PROVE  /\ t \in Seq(Level) /\ t \in Filter
         /\ Len(t) \in Nat /\ DOMAIN t = 1 .. Len(t)
         /\ \A k \in DOMAIN t : t[k] \notin {"+", "#"}
<1>1. t \in Seq(Name) /\ t # <<>>
  BY DEF Topic
<1>2. \A k \in DOMAIN t : t[k] \in Name
  BY <1>1
<1>3. Len(t) \in Nat /\ DOMAIN t = 1 .. Len(t)
  BY <1>1
<1>4. t \in Seq(Level)
  BY <1>1, SMT DEF Name
<1> QED
  BY <1>1, <1>2, <1>3, <1>4 DEF Name, Filter

-----------------------------------------------------------------------------
(* topicCoveredBy is sound.                                                *)

\* If the first n levels of a cover those of r, then whatever r selects has at
\* least n levels that a selects too.
LEMMA CoveredPrefix ==
  ASSUME NEW a \in Seq(Level), NEW r \in Seq(Level), NEW t \in Seq(Level), NEW n \in Nat,
         n <= Len(a),
         \A j \in 1 .. n : LevelCovers(a, r, j),
         Matches(r, t)
  PROVE  n <= Len(t) /\ \A j \in 1 .. n : a[j] = "+" \/ a[j] = t[j]
<1> USE Levels
<1>1. \A j \in 1 .. n : j \in DOMAIN r /\ r[j] # "#"
  BY DEF LevelCovers
<1>2. n <= Len(r)
  BY <1>1
<1>3. CASE SelectsAll(r, t)
  BY <1>1, <1>2, <1>3 DEF SelectsAll, LevelCovers
<1>4. ASSUME NEW k \in DOMAIN r, SelectsAt(r, t, k)
      PROVE  n <= Len(t) /\ \A j \in 1 .. n : a[j] = "+" \/ a[j] = t[j]
  <2>1. n < k
    BY <1>1, <1>4 DEF SelectsAt
  <2> QED
    BY <1>4, <2>1 DEF SelectsAt, LevelCovers
<1> QED
  BY <1>3, <1>4, MatchesCases

LEMMA CoverIsSound ==
  ASSUME NEW a \in Seq(Level), NEW r \in Seq(Level), NEW t \in Seq(Level),
         CoveredBy(a, r), Matches(r, t)
  PROVE  Matches(a, t)
<1> USE Levels
<1>1. ASSUME NEW k \in DOMAIN a, a[k] = "#",
             \A j \in 1 .. k - 1 : LevelCovers(a, r, j)
      PROVE  Matches(a, t)
  <2> PICK n \in Nat : n = k - 1 /\ n <= Len(a)
    OBVIOUS
  <2>1. n <= Len(t) /\ \A j \in 1 .. n : a[j] = "+" \/ a[j] = t[j]
    BY <1>1, CoveredPrefix
  <2>2. SelectsAt(a, t, k)
    BY <1>1, <2>1 DEF SelectsAt
  <2> QED
    BY <2>2, MatchesCases
<1>2. CASE Len(a) = Len(r) /\ \A j \in DOMAIN a : LevelCovers(a, r, j)
  <2>1. Len(a) <= Len(t) /\ \A j \in 1 .. Len(a) : a[j] = "+" \/ a[j] = t[j]
    BY <1>2, CoveredPrefix
  <2>2. \A k \in DOMAIN r : r[k] # "#"
    BY <1>2 DEF LevelCovers
  <2>3. SelectsAll(r, t)
    BY <2>2, MatchesCases DEF SelectsAt
  <2>4. SelectsAll(a, t)
    BY <1>2, <2>1, <2>3 DEF SelectsAll
  <2> QED
    BY <2>4, MatchesCases
<1> QED
  BY <1>1, <1>2 DEF CoveredBy

-----------------------------------------------------------------------------
(* topicFiltersOverlap is complete.                                        *)

LEMMA OverlapAt ==
  ASSUME NEW l \in Seq(Level), NEW r \in Seq(Level),
         NEW k \in DOMAIN l \cup DOMAIN r, HashAt(l, k) \/ HashAt(r, k),
         k <= Len(l) + 1, k <= Len(r) + 1,
         \A j \in 1 .. k - 1 : Agree(l[j], r[j])
  PROVE  Overlap(l, r)
BY DEF Overlap

LEMMA OverlapIsComplete ==
  ASSUME NEW l \in Seq(Level), NEW r \in Seq(Level), NEW t \in Topic,
         Matches(l, t), Matches(r, t)
  PROVE  Overlap(l, r)
<1> USE Levels, Names
<1>1. CASE SelectsAll(l, t) /\ SelectsAll(r, t)
  BY <1>1 DEF SelectsAll, Overlap, Agree
<1>2. ASSUME NEW k \in DOMAIN l, SelectsAt(l, t, k), SelectsAll(r, t)
      PROVE  Overlap(l, r)
  <2>1. HashAt(l, k) /\ k <= Len(l) + 1 /\ k <= Len(r) + 1
    BY <1>2 DEF SelectsAt, SelectsAll, HashAt
  <2>2. \A j \in 1 .. k - 1 : Agree(l[j], r[j])
    BY <1>2 DEF SelectsAt, SelectsAll, Agree
  <2> QED
    BY <2>1, <2>2, OverlapAt
<1>3. ASSUME NEW k \in DOMAIN r, SelectsAt(r, t, k), SelectsAll(l, t)
      PROVE  Overlap(l, r)
  <2>1. HashAt(r, k) /\ k <= Len(l) + 1 /\ k <= Len(r) + 1
    BY <1>3 DEF SelectsAt, SelectsAll, HashAt
  <2>2. \A j \in 1 .. k - 1 : Agree(l[j], r[j])
    BY <1>3 DEF SelectsAt, SelectsAll, Agree
  <2> QED
    BY <2>1, <2>2, OverlapAt
<1>4. ASSUME NEW k \in DOMAIN l, SelectsAt(l, t, k),
             NEW m \in DOMAIN r, SelectsAt(r, t, m)
      PROVE  Overlap(l, r)
  <2>1. CASE k <= m
    <3>1. HashAt(l, k) /\ k <= Len(l) + 1 /\ k <= Len(r) + 1
      BY <1>4, <2>1 DEF SelectsAt, HashAt
    <3>2. \A j \in 1 .. k - 1 : Agree(l[j], r[j])
      BY <1>4, <2>1 DEF SelectsAt, Agree
    <3> QED
      BY <3>1, <3>2, OverlapAt
  <2>2. CASE m < k
    <3>1. HashAt(r, m) /\ m <= Len(l) + 1 /\ m <= Len(r) + 1
      BY <1>4, <2>2 DEF SelectsAt, HashAt
    <3>2. \A j \in 1 .. m - 1 : Agree(l[j], r[j])
      BY <1>4, <2>2 DEF SelectsAt, Agree
    <3> QED
      BY <3>1, <3>2, OverlapAt
  <2> QED
    BY <2>1, <2>2
<1> QED
  BY <1>1, <1>2, <1>3, <1>4, MatchesCases

-----------------------------------------------------------------------------
(* Both comparisons are exact when the request is a topic.                 *)

LEMMA CoverExact ==
  ASSUME NEW a \in Seq(Level), NEW t \in Topic
  PROVE  CoveredBy(a, t) <=> Matches(a, t)
<1> USE Levels, Names
<1>1. \A j \in DOMAIN a :
        LevelCovers(a, t, j) <=> j <= Len(t) /\ (a[j] = "+" \/ a[j] = t[j])
  BY DEF LevelCovers
<1>2. ASSUME NEW k \in DOMAIN a, a[k] = "#"
      PROVE  (\A j \in 1 .. k - 1 : LevelCovers(a, t, j)) <=> SelectsAt(a, t, k)
  BY <1>1, <1>2 DEF SelectsAt
<1>3. ASSUME Len(a) = Len(t)
      PROVE  (\A j \in DOMAIN a : LevelCovers(a, t, j)) <=> SelectsAll(a, t)
  BY <1>1, <1>3 DEF SelectsAll
<1> QED
  BY <1>2, <1>3, MatchesCases DEF CoveredBy, SelectsAt, SelectsAll

LEMMA TopicMatchesItself ==
  ASSUME NEW t \in Topic
  PROVE  Matches(t, t)
BY DEF Matches

LEMMA OverlapExact ==
  ASSUME NEW l \in Seq(Level), NEW t \in Topic
  PROVE  Overlap(l, t) <=> Matches(l, t)
<1> USE Levels, Names
<1>1. ASSUME Matches(l, t) PROVE Overlap(l, t)
  BY <1>1, OverlapIsComplete, TopicMatchesItself
<1>2. ASSUME NEW k \in DOMAIN l \cup DOMAIN t, HashAt(l, k) \/ HashAt(t, k),
             k <= Len(t) + 1, \A j \in 1 .. k - 1 : Agree(l[j], t[j])
      PROVE  Matches(l, t)
  <2>1. k \in DOMAIN l /\ l[k] = "#"
    BY <1>2 DEF HashAt
  <2>2. SelectsAt(l, t, k)
    BY <1>2, <2>1 DEF SelectsAt, Agree
  <2> QED
    BY <2>1, <2>2, MatchesCases
<1>3. ASSUME Len(l) = Len(t), \A j \in DOMAIN l : Agree(l[j], t[j])
      PROVE  Matches(l, t)
  <2>1. SelectsAll(l, t)
    BY <1>3 DEF SelectsAll, Agree
  <2> QED
    BY <2>1, MatchesCases
<1> QED
  BY <1>1, <1>2, <1>3 DEF Overlap

-----------------------------------------------------------------------------
(* Neither comparison is stricter than it has to be: topics that show it.   *)

Fresh(x) == CHOOSE y \in Name : y # x

LEMMA FreshName == \A x : Fresh(x) \in Name /\ Fresh(x) # x
BY TwoNames DEF Fresh

\* A topic in which both filters find their names, as far as they have any.
Common(l, r, len) ==
  [j \in 1 .. len |->
     IF j \in DOMAIN l /\ l[j] \in Name THEN l[j]
     ELSE IF j \in DOMAIN r /\ r[j] \in Name THEN r[j] ELSE Fresh("+")]

\* A topic in which r finds its names, and l only where r insists.
Beyond(l, r, len) ==
  [j \in 1 .. len |->
     IF j \in DOMAIN r /\ r[j] \in Name THEN r[j]
     ELSE IF j \in DOMAIN l THEN Fresh(l[j]) ELSE Fresh("+")]

LEMMA TopicOfLength ==
  ASSUME NEW len \in Nat \ {0}, NEW t \in [1 .. len -> Name]
  PROVE  /\ Len(t) = len /\ DOMAIN t = 1 .. len
         /\ \A j \in 1 .. len : t[j] \in Name
         /\ \A max \in Nat : len <= max => t \in Topics(max)
BY DEF Topics

LEMMA NameIsPlain == \A x \in Level : x \in Name <=> x # "+" /\ x # "#"
BY DEF Name

LEMMA Shape ==
  ASSUME NEW f \in Filter
  PROVE  /\ Len(f) \in Nat \ {0} /\ DOMAIN f = 1 .. Len(f)
         /\ \A j \in 1 .. Len(f) : f[j] \in Level
BY DEF Filter

LEMMA HashIsLast ==
  ASSUME NEW f \in Filter, WellFormed(f)
  PROVE  \A j \in 1 .. Len(f) : j < Len(f) => f[j] # "#"
BY Shape DEF WellFormed

\* A topic gives a filter what it asks for in the first n levels.
Fits(f, t, n) == \A j \in 1 .. n : j <= Len(f) /\ f[j] # "#" => f[j] = "+" \/ f[j] = t[j]

\* How a well-formed filter selects a topic: it agrees level by level, and has
\* as many levels unless it ends with "#".
LEMMA SelectsHow ==
  ASSUME NEW f \in Filter, WellFormed(f), NEW len \in Nat \ {0}, NEW t \in [1 .. len -> Name]
  PROVE  Matches(f, t) <=>
           /\ Fits(f, t, len)
           /\ IF f[Len(f)] = "#" THEN Len(f) <= len + 1 ELSE Len(f) = len
<1> DEFINE Ends == f[Len(f)] = "#"
<1>1. /\ Len(f) \in Nat \ {0} /\ DOMAIN f = 1 .. Len(f)
      /\ Len(t) = len
  BY Shape, TopicOfLength
<1>2. \A j \in 1 .. Len(f) : j < Len(f) => f[j] # "#"
  BY HashIsLast
<1>3. ASSUME NEW k \in DOMAIN f, SelectsAt(f, t, k)
      PROVE  Ends /\ Len(f) <= len + 1 /\ Fits(f, t, len)
  <2>1. k = Len(f)
    BY <1>3 DEF SelectsAt, WellFormed
  <2>2. \A j \in 1 .. Len(f) - 1 : f[j] = "+" \/ f[j] = t[j]
    BY <1>3, <2>1 DEF SelectsAt
  <2>3. Ends /\ Len(f) <= len + 1
    BY <1>1, <1>3, <2>1 DEF SelectsAt
  <2>4. Fits(f, t, len)
    BY <1>1, <2>2, <2>3 DEF Fits
  <2> QED
    BY <2>3, <2>4
<1>4. ASSUME SelectsAll(f, t)
      PROVE  ~Ends /\ Len(f) = len /\ Fits(f, t, len)
  <2>1. Len(f) = len /\ \A j \in 1 .. len : f[j] = "+" \/ f[j] = t[j]
    BY <1>1, <1>4 DEF SelectsAll
  <2>2. t[len] \in Name
    BY TopicOfLength
  <2> QED
    BY <2>1, <2>2 DEF Fits, Name
<1>5. ASSUME Fits(f, t, len), Ends, Len(f) <= len + 1
      PROVE  SelectsAt(f, t, Len(f))
  BY <1>1, <1>2, <1>5 DEF Fits, SelectsAt
<1>6. ASSUME Fits(f, t, len), ~Ends, Len(f) = len
      PROVE  SelectsAll(f, t)
  <2>1. \A j \in 1 .. len : f[j] # "#"
    BY <1>1, <1>2, <1>6
  <2> QED
    BY <1>1, <1>6, <2>1 DEF Fits, SelectsAll
<1>7. Len(f) \in DOMAIN f
  BY <1>1
<1> HIDE DEF Ends
<1> QED
  <2>1. Matches(f, t) => SelectsAll(f, t) \/ \E k \in DOMAIN f : SelectsAt(f, t, k)
    BY MatchesCases
  <2>2. SelectsAt(f, t, Len(f)) \/ SelectsAll(f, t) => Matches(f, t)
    BY <1>7, MatchesCases
  <2>3. Matches(f, t) => Fits(f, t, len) /\ IF Ends THEN Len(f) <= len + 1 ELSE Len(f) = len
    BY <1>3, <1>4, <2>1
  <2>4. Fits(f, t, len) /\ (IF Ends THEN Len(f) <= len + 1 ELSE Len(f) = len) => Matches(f, t)
    BY <1>5, <1>6, <2>2
  <2> QED
    BY <2>3, <2>4 DEF Ends

\* Filters that agree on n levels, none of them "#" on the left, have a topic
\* that fits both.
LEMMA CommonFits ==
  ASSUME NEW l \in Filter, NEW r \in Filter, NEW len \in Nat \ {0}, NEW n \in Nat,
         \A j \in 1 .. n : Agree(l[j], r[j]),
         \A j \in 1 .. len : n < j /\ j <= Len(l) => l[j] = "#"
  PROVE  /\ Common(l, r, len) \in [1 .. len -> Name]
         /\ Fits(l, Common(l, r, len), len) /\ Fits(r, Common(l, r, len), len)
<1> DEFINE t == Common(l, r, len)
<1>1. t \in [1 .. len -> Name]
  BY FreshName DEF Common
<1>2. ASSUME NEW j \in 1 .. len
      PROVE  /\ j <= Len(l) /\ l[j] # "#" => l[j] = "+" \/ l[j] = t[j]
             /\ j <= Len(r) /\ r[j] # "#" => r[j] = "+" \/ r[j] = t[j]
  <2>1. t[j] = IF j \in DOMAIN l /\ l[j] \in Name THEN l[j]
               ELSE IF j \in DOMAIN r /\ r[j] \in Name THEN r[j] ELSE Fresh("+")
    BY DEF Common
  <2> HIDE DEF t
  <2>2. /\ j \in DOMAIN l <=> j <= Len(l)
        /\ j \in DOMAIN r <=> j <= Len(r)
        /\ j <= Len(l) => l[j] \in Level
        /\ j <= Len(r) => r[j] \in Level
    BY Shape
  <2>3. CASE j <= Len(l) /\ l[j] \in Name
    <3>1. j <= n
      BY <2>3 DEF Name
    <3>2. l[j] = r[j] \/ r[j] = "+"
      BY <2>3, <3>1 DEF Agree, Name
    <3> QED
      BY <2>1, <2>2, <2>3, <3>2
  <2>4. CASE ~(j <= Len(l) /\ l[j] \in Name)
    BY <2>1, <2>2, <2>4, NameIsPlain
  <2> QED
    BY <2>3, <2>4
<1> HIDE DEF t
<1>3. Fits(l, t, len) /\ Fits(r, t, len)
  BY <1>2 DEF Fits
<1> QED
  BY <1>1, <1>3 DEF t

\* An overlap through the "#" of l.
LEMMA HashWitness ==
  ASSUME NEW l \in Filter, NEW r \in Filter, WellFormed(l), WellFormed(r),
         NEW k \in DOMAIN l, l[k] = "#", k <= Len(r) + 1,
         \A j \in 1 .. k - 1 : Agree(l[j], r[j]),
         NEW max \in Nat, Len(r) <= max
  PROVE  \E t \in Topics(max) : Matches(l, t) /\ Matches(r, t)
<1> DEFINE t == Common(l, r, Len(r))
<1>1. /\ k = Len(l) /\ k \in Nat \ {0} /\ Len(r) \in Nat \ {0}
  BY Shape DEF WellFormed
<1>2. PICK n \in Nat : n = k - 1
  BY <1>1
<1>3. /\ \A j \in 1 .. n : Agree(l[j], r[j])
      /\ \A j \in 1 .. Len(r) : n < j /\ j <= Len(l) => l[j] = "#"
  <2>1. \A j \in 1 .. n : Agree(l[j], r[j])
    BY <1>2
  <2>2. \A j \in Nat : n < j /\ j <= Len(l) => j = k
    BY <1>1, <1>2
  <2>3. \A j \in 1 .. Len(r) : j \in Nat
    BY <1>1
  <2> QED
    BY <2>1, <2>2, <2>3
<1>4. t \in [1 .. Len(r) -> Name] /\ Fits(l, t, Len(r)) /\ Fits(r, t, Len(r))
  BY <1>1, <1>3, CommonFits
<1> HIDE DEF t
<1>5. Matches(l, t)
  BY <1>1, <1>4, SelectsHow
<1>6. Matches(r, t)
  BY <1>1, <1>4, SelectsHow
<1> QED
  BY <1>1, <1>4, <1>5, <1>6, TopicOfLength

\* An overlap level by level, without a "#".
LEMMA PlainWitness ==
  ASSUME NEW l \in Filter, NEW r \in Filter, WellFormed(l), WellFormed(r), Len(l) = Len(r),
         \A j \in DOMAIN l : Agree(l[j], r[j]) /\ l[j] # "#" /\ r[j] # "#",
         NEW max \in Nat, Len(r) <= max
  PROVE  \E t \in Topics(max) : Matches(l, t) /\ Matches(r, t)
<1> DEFINE t == Common(l, r, Len(r))
<1>1. Len(r) \in Nat \ {0} /\ DOMAIN l = 1 .. Len(r)
  BY Shape
<1>2. /\ \A j \in 1 .. Len(r) : Agree(l[j], r[j])
      /\ \A j \in 1 .. Len(r) : Len(r) < j /\ j <= Len(l) => l[j] = "#"
  BY <1>1
<1>3. t \in [1 .. Len(r) -> Name] /\ Fits(l, t, Len(r)) /\ Fits(r, t, Len(r))
  BY <1>1, <1>2, CommonFits
<1>4. l[Len(l)] # "#" /\ r[Len(r)] # "#"
  BY <1>1
<1> HIDE DEF t
<1>5. Matches(l, t)
  BY <1>1, <1>3, <1>4, SelectsHow
<1>6. Matches(r, t)
  BY <1>1, <1>3, <1>4, SelectsHow
<1> QED
  BY <1>1, <1>3, <1>5, <1>6, TopicOfLength

LEMMA OverlapHasWitness ==
  ASSUME NEW l \in Filter, NEW r \in Filter, WellFormed(l), WellFormed(r), Overlap(l, r),
         NEW max \in Nat, Len(l) <= max, Len(r) <= max
  PROVE  \E t \in Topics(max) : Matches(l, t) /\ Matches(r, t)
<1>1. /\ Len(l) \in Nat \ {0} /\ Len(r) \in Nat \ {0}
      /\ DOMAIN l = 1 .. Len(l) /\ DOMAIN r = 1 .. Len(r)
  BY Shape
<1>2. \A x, y : Agree(x, y) <=> Agree(y, x)
  BY DEF Agree
<1>3. ASSUME NEW k \in DOMAIN l, l[k] = "#", k <= Len(r) + 1,
             \A j \in 1 .. k - 1 : Agree(l[j], r[j])
      PROVE  \E t \in Topics(max) : Matches(l, t) /\ Matches(r, t)
  BY <1>3, HashWitness
<1>4. ASSUME NEW k \in DOMAIN r, r[k] = "#", k <= Len(l) + 1,
             \A j \in 1 .. k - 1 : Agree(l[j], r[j])
      PROVE  \E t \in Topics(max) : Matches(l, t) /\ Matches(r, t)
  <2>1. \A j \in 1 .. k - 1 : Agree(r[j], l[j])
    BY <1>2, <1>4
  <2>2. \E t \in Topics(max) : Matches(r, t) /\ Matches(l, t)
    BY <1>4, <2>1, HashWitness
  <2> QED
    BY <2>2
<1>5. CASE Len(l) = Len(r) /\ \A j \in DOMAIN l : Agree(l[j], r[j])
  <2>1. CASE \E k \in DOMAIN l : l[k] = "#"
    BY <1>1, <1>3, <1>5, <2>1
  <2>2. CASE \E k \in DOMAIN r : r[k] = "#"
    BY <1>1, <1>4, <1>5, <2>2
  <2>3. CASE \A k \in DOMAIN l : l[k] # "#" /\ r[k] # "#"
    BY <1>5, <2>3, PlainWitness
  <2> QED
    BY <1>1, <1>5, <2>1, <2>2, <2>3
<1> QED
  BY <1>3, <1>4, <1>5 DEF Overlap, HashAt

\* Beyond(l, r, len) gives r what it asks for, ...
LEMMA BeyondFits ==
  ASSUME NEW l \in Filter, NEW r \in Filter, NEW len \in Nat \ {0}
  PROVE  /\ Beyond(l, r, len) \in [1 .. len -> Name]
         /\ Fits(r, Beyond(l, r, len), len)
<1> DEFINE t == Beyond(l, r, len)
<1>1. t \in [1 .. len -> Name]
  BY FreshName DEF Beyond
<1>2. ASSUME NEW j \in 1 .. len, j <= Len(r), r[j] # "#"
      PROVE  r[j] = "+" \/ r[j] = t[j]
  <2>1. j \in DOMAIN r /\ r[j] \in Level
    BY <1>2, Shape
  <2>2. t[j] = IF j \in DOMAIN r /\ r[j] \in Name THEN r[j]
               ELSE IF j \in DOMAIN l THEN Fresh(l[j]) ELSE Fresh("+")
    BY DEF Beyond
  <2> HIDE DEF t
  <2> QED
    BY <1>2, <2>1, <2>2, NameIsPlain
<1> HIDE DEF t
<1> QED
  BY <1>1, <1>2 DEF Fits, t

\* ... and at a level that l does not cover it is not what l asks for.
LEMMA BeyondMisses ==
  ASSUME NEW l \in Filter, NEW r \in Filter, NEW len \in Nat \ {0},
         NEW j \in 1 .. len, j <= Len(l), j <= Len(r), l[j] # "#", r[j] # "#",
         ~LevelCovers(l, r, j)
  PROVE  ~Fits(l, Beyond(l, r, len), len)
<1>1. j \in DOMAIN l /\ r[j] \in Level /\ j \in DOMAIN r
  BY Shape
<1>2. l[j] # "+" /\ (r[j] \in Name => r[j] # l[j])
  BY <1>1, NameIsPlain DEF LevelCovers
<1>3. Beyond(l, r, len)[j] = IF r[j] \in Name THEN r[j] ELSE Fresh(l[j])
  BY <1>1 DEF Beyond
<1>4. l[j] # Beyond(l, r, len)[j]
  BY <1>2, <1>3, FreshName
<1> QED
  BY <1>2, <1>4 DEF Fits

LEMMA UncoveredHasWitness ==
  ASSUME NEW l \in Filter, NEW r \in Filter, WellFormed(l), WellFormed(r),
         r # <<"#">>, ~CoveredBy(l, r), NEW max \in Nat, Len(r) < max
  PROVE  \E t \in Topics(max) : Matches(r, t) /\ ~Matches(l, t)
<1> DEFINE Suits(f, len) == IF f[Len(f)] = "#" THEN Len(f) <= len + 1 ELSE Len(f) = len
<1>1. /\ Len(l) \in Nat \ {0} /\ DOMAIN l = 1 .. Len(l)
      /\ Len(r) \in Nat \ {0} /\ DOMAIN r = 1 .. Len(r)
  BY Shape
<1>2. /\ \A j \in 1 .. Len(l) : j < Len(l) => l[j] # "#"
      /\ \A j \in 1 .. Len(r) : j < Len(r) => r[j] # "#"
  BY HashIsLast
<1>3. ASSUME NEW f \in Filter, WellFormed(f), NEW len \in Nat \ {0}
      PROVE  Matches(f, Beyond(l, r, len)) <=> Fits(f, Beyond(l, r, len), len) /\ Suits(f, len)
  BY <1>3, BeyondFits, SelectsHow
<1> HIDE DEF Suits
<1>4. ASSUME NEW len \in 1 .. max, Suits(r, len), Suits(l, len) => ~Fits(l, Beyond(l, r, len), len)
      PROVE  \E t \in Topics(max) : Matches(r, t) /\ ~Matches(l, t)
  <2>1. len \in Nat \ {0} /\ len <= max
    OBVIOUS
  <2>2. Beyond(l, r, len) \in Topics(max)
    BY <2>1, BeyondFits, TopicOfLength
  <2>3. Matches(r, Beyond(l, r, len))
    BY <1>3, <1>4, <2>1, BeyondFits
  <2>4. ~Matches(l, Beyond(l, r, len))
    BY <1>3, <1>4, <2>1
  <2> QED
    BY <2>2, <2>3, <2>4
<1>5. CASE l[Len(l)] = "#"
  <2>1. PICK j \in 1 .. Len(l) : j < Len(l) /\ ~LevelCovers(l, r, j)
    <3>1. Len(l) \in DOMAIN l /\ \A i \in 1 .. Len(l) - 1 : i \in 1 .. Len(l) /\ i < Len(l)
      BY <1>1
    <3> QED
      BY <1>5, <3>1 DEF CoveredBy
  <2>2. CASE r[Len(r)] = "#"
    <3>1. PICK len \in 1 .. max : len = Len(r) - 1
      <4>1. Len(r) # 1
        <5> SUFFICES ASSUME Len(r) = 1 PROVE FALSE
          OBVIOUS
        <5>1. r \in Seq(Level)
          BY DEF Filter
        <5> QED
          BY <2>2, <5>1
      <4>2. Len(r) - 1 \in 1 .. max
        BY <1>1, <4>1
      <4> QED
        BY <4>2
    <3>2. Suits(r, len)
      BY <1>1, <2>2, <3>1 DEF Suits
    <3>3. ASSUME Suits(l, len) PROVE ~Fits(l, Beyond(l, r, len), len)
      <4>1. Len(l) <= len + 1
        BY <1>5, <3>3 DEF Suits
      <4>2. j \in 1 .. len /\ j <= Len(l) /\ j <= Len(r) /\ j < Len(r) /\ j \in 1 .. Len(r)
        BY <1>1, <2>1, <3>1, <4>1
      <4>3. l[j] # "#" /\ r[j] # "#"
        BY <1>2, <2>1, <4>2
      <4> QED
        BY <2>1, <4>2, <4>3, BeyondMisses
    <3> QED
      BY <1>4, <3>2, <3>3
  <2>3. CASE r[Len(r)] # "#"
    <3>1. Len(r) \in 1 .. max
      BY <1>1
    <3>2. Suits(r, Len(r))
      BY <2>3 DEF Suits
    <3>3. ASSUME Suits(l, Len(r)) PROVE ~Fits(l, Beyond(l, r, Len(r)), Len(r))
      <4>1. Len(l) <= Len(r) + 1
        BY <1>5, <3>3 DEF Suits
      <4>2. j \in 1 .. Len(r) /\ j <= Len(l) /\ j <= Len(r)
        BY <1>1, <2>1, <4>1
      <4>3. l[j] # "#" /\ r[j] # "#"
        BY <1>1, <1>2, <2>1, <2>3, <4>2
      <4> QED
        BY <1>1, <2>1, <4>2, <4>3, BeyondMisses
    <3> QED
      BY <1>4, <3>1, <3>2, <3>3
  <2> QED
    BY <2>2, <2>3
<1>6. CASE l[Len(l)] # "#"
  <2>1. \A len : Suits(l, len) => Len(l) = len
    BY <1>6 DEF Suits
  <2>2. Suits(r, Len(r))
    BY <1>1 DEF Suits
  <2>3. Len(r) \in 1 .. max /\ Len(r) + 1 \in 1 .. max
    BY <1>1
  <2>4. CASE Len(l) # Len(r)
    BY <1>4, <2>1, <2>2, <2>3, <2>4
  <2>5. CASE Len(l) = Len(r) /\ r[Len(r)] = "#"
    <3>1. Len(r) <= Len(r) + 1 + 1 /\ Len(l) # Len(r) + 1
      <4>1. \A k \in Nat : k <= k + 1 + 1 /\ k # k + 1
        OBVIOUS
      <4> QED
        BY <1>1, <2>5, <4>1
    <3>2. Suits(r, Len(r) + 1)
      BY <2>5, <3>1 DEF Suits
    <3> QED
      BY <1>4, <2>1, <2>3, <3>1, <3>2
  <2>6. CASE Len(l) = Len(r) /\ r[Len(r)] # "#"
    <3>1. PICK j \in 1 .. Len(l) : ~LevelCovers(l, r, j)
      BY <1>1, <2>6 DEF CoveredBy
    <3>2. l[j] # "#" /\ r[j] # "#" /\ j \in 1 .. Len(r) /\ j <= Len(l) /\ j <= Len(r)
      BY <1>1, <1>2, <1>6, <2>6
    <3>3. ~Fits(l, Beyond(l, r, Len(r)), Len(r))
      BY <1>1, <3>1, <3>2, BeyondMisses
    <3> QED
      BY <1>4, <2>2, <2>3, <3>3
  <2> QED
    BY <2>4, <2>5, <2>6
<1> QED
  BY <1>5, <1>6

-----------------------------------------------------------------------------
(* The loops of topic.go return what the closed forms say.                  *)

LEMMA NatMin ==
  ASSUME NEW T, T \subseteq Nat, T # {}
  PROVE  \E x \in T : \A y \in T : x <= y
<1> DEFINE R == {ss \in Nat \X Nat : ss[1] < ss[2]}
<1>1. IsWellFoundedOn(R, Nat)
  BY NatLessThanWellFounded, Zenon DEF OpToRel
<1>2. \A x, y \in Nat : <<y, x>> \in R <=> y < x
  OBVIOUS
<1> HIDE DEF R
<1>3. PICK x \in T : \A y \in T : ~(<<y, x>> \in R)
  BY <1>1, WFMin
<1>4. \A y \in T : x <= y
  <2> TAKE y \in T
  <2>1. x \in Nat /\ y \in Nat
    OBVIOUS
  <2>2. ~(y < x)
    BY <1>2, <1>3, <2>1, Zenon
  <2> QED
    BY <2>1, <2>2
<1> QED
  BY <1>4

\* A set that holds an index whenever it holds the next one, and so the last
\* one, holds them all: how a loop's result is known from its end.
LEMMA DownTo ==
  ASSUME NEW last \in Nat, NEW S, \A i \in 1 .. last : (i < last => i + 1 \in S) => i \in S
  PROVE  \A i \in 1 .. last : i \in S
<1> SUFFICES ASSUME NEW i0 \in 1 .. last, i0 \notin S PROVE FALSE
  OBVIOUS
<1> DEFINE T == {x \in 0 .. last - 1 : last - x \notin S}
<1>1. T \subseteq Nat /\ T # {}
  <2>1. last - i0 \in 0 .. last - 1 /\ last - (last - i0) = i0
    OBVIOUS
  <2>2. last - i0 \in T
    BY <2>1
  <2>3. 0 .. last - 1 \subseteq Nat
    OBVIOUS
  <2> QED
    BY <2>2, <2>3
<1>2. PICK x \in T : \A y \in T : x <= y
  BY <1>1, NatMin
<1>3. last - x \in 1 .. last /\ last - x \notin S
  OBVIOUS
<1>4. last - x < last /\ last - x + 1 \notin S
  BY <1>3
<1>5. x - 1 \in 0 .. last - 1 /\ last - (x - 1) = last - x + 1
  BY <1>4
<1>6. x - 1 \in T
  BY <1>4, <1>5
<1> QED
  BY <1>2, <1>5, <1>6

\* What is left of Overlap when the loop has come to index i.
OverlapFrom(l, r, last, i) ==
  \/ \E k \in i .. last :
       /\ HashAt(l, k) \/ HashAt(r, k)
       /\ \A j \in i .. k - 1 : Agree(l[j], r[j])
  \/ Len(l) = Len(r) /\ \A j \in i .. Len(l) : Agree(l[j], r[j])

\* One round of the loop, with next for the result of the rest.
OverlapRound(l, r, i, next) ==
  IF HashAt(l, i) \/ HashAt(r, i) THEN TRUE
  ELSE IF i = Len(l) + 1 \/ i = Len(r) + 1 THEN i = Len(l) + 1 /\ i = Len(r) + 1
  ELSE IF l[i] # "+" /\ r[i] # "+" /\ l[i] # r[i] THEN FALSE
  ELSE next

LEMMA OverlapStep ==
  ASSUME NEW l \in Filter, NEW r \in Filter, NEW last \in Nat,
         last = IF Len(l) < Len(r) THEN Len(l) + 1 ELSE Len(r) + 1,
         NEW i \in 1 .. last
  PROVE  OverlapFrom(l, r, last, i) = OverlapRound(l, r, i, OverlapFrom(l, r, last, i + 1))
<1>1. /\ Len(l) \in Nat \ {0} /\ DOMAIN l = 1 .. Len(l)
      /\ Len(r) \in Nat \ {0} /\ DOMAIN r = 1 .. Len(r)
  BY Shape
<1>2. CASE HashAt(l, i) \/ HashAt(r, i)
  <2>1. i \in i .. last /\ \A j \in i .. i - 1 : FALSE
    BY <1>1
  <2>2. OverlapFrom(l, r, last, i)
    BY <1>2, <2>1 DEF OverlapFrom
  <2> QED
    BY <1>2, <2>2 DEF OverlapRound, OverlapFrom
<1>3. CASE ~HashAt(l, i) /\ ~HashAt(r, i) /\ i = last
  <2>1. \A k \in i .. last : k = i
    BY <1>1, <1>3
  <2>2. i = Len(l) + 1 \/ i = Len(r) + 1
    BY <1>1, <1>3
  <2>3. i = Len(l) + 1 /\ i = Len(r) + 1 <=> Len(l) = Len(r)
    <3>1. ASSUME NEW n \in Nat, NEW m \in Nat
          PROVE  LET min == IF n < m THEN n + 1 ELSE m + 1
                 IN  min = n + 1 /\ min = m + 1 <=> n = m
      OBVIOUS
    <3> QED
      BY <1>1, <1>3, <3>1
  <2>4. Len(l) = Len(r) => \A j \in i .. Len(l) : FALSE
    BY <1>1, <2>3
  <2>5. OverlapFrom(l, r, last, i) <=> Len(l) = Len(r)
    BY <1>3, <2>1, <2>4 DEF OverlapFrom
  <2>6. CASE Len(l) = Len(r)
    BY <1>3, <2>2, <2>3, <2>5, <2>6 DEF OverlapRound, OverlapFrom
  <2>7. CASE Len(l) # Len(r)
    BY <1>3, <2>2, <2>3, <2>5, <2>7 DEF OverlapRound, OverlapFrom
  <2> QED
    BY <2>6, <2>7
<1>4. CASE ~HashAt(l, i) /\ ~HashAt(r, i) /\ i # last
  <2>1. i + 1 \in 1 .. last /\ i # Len(l) + 1 /\ i # Len(r) + 1 /\ i <= Len(l)
    BY <1>1, <1>4
  <2>2. OverlapRound(l, r, i, OverlapFrom(l, r, last, i + 1)) = (Agree(l[i], r[i]) /\ OverlapFrom(l, r, last, i + 1))
    BY <1>4, <2>1 DEF OverlapRound, OverlapFrom, Agree
  <2>3. ASSUME OverlapFrom(l, r, last, i) PROVE Agree(l[i], r[i]) /\ OverlapFrom(l, r, last, i + 1)
    <3>1. CASE Len(l) = Len(r) /\ \A j \in i .. Len(l) : Agree(l[j], r[j])
      BY <1>1, <2>1, <3>1 DEF OverlapFrom
    <3>2. ASSUME NEW k \in i .. last, HashAt(l, k) \/ HashAt(r, k),
                 \A j \in i .. k - 1 : Agree(l[j], r[j])
          PROVE  Agree(l[i], r[i]) /\ OverlapFrom(l, r, last, i + 1)
      <4>1. k # i
        BY <1>4, <3>2
      <4>2. k \in i + 1 .. last /\ i \in i .. k - 1 /\ \A j \in i + 1 .. k - 1 : j \in i .. k - 1
        BY <4>1
      <4> QED
        BY <3>2, <4>2 DEF OverlapFrom
    <3> QED
      BY <2>3, <3>1, <3>2 DEF OverlapFrom
  <2>4. ASSUME Agree(l[i], r[i]), OverlapFrom(l, r, last, i + 1) PROVE OverlapFrom(l, r, last, i)
    <3>1. \A k : \A j \in i .. k : j = i \/ j \in i + 1 .. k
      OBVIOUS
    <3>2. \A k \in i + 1 .. last : k \in i .. last
      OBVIOUS
    <3> QED
      BY <2>4, <3>1, <3>2 DEF OverlapFrom
  <2>5. OverlapFrom(l, r, last, i) \in BOOLEAN /\ OverlapFrom(l, r, last, i + 1) \in BOOLEAN
    BY DEF OverlapFrom
  <2> QED
    BY <2>2, <2>3, <2>4, <2>5
<1> QED
  BY <1>2, <1>3, <1>4

LEMMA OverlapLoopIs ==
  ASSUME NEW l \in Filter, NEW r \in Filter
  PROVE  OverlapLoop(l, r) <=> Overlap(l, r)
<1> DEFINE last == IF Len(l) < Len(r) THEN Len(l) + 1 ELSE Len(r) + 1
           Is(f) == f = [i \in 1 .. last |-> OverlapRound(l, r, i, f[i + 1])]
           closed == [i \in 1 .. last |-> OverlapFrom(l, r, last, i)]
           from == CHOOSE f : Is(f)
<1>1. /\ Len(l) \in Nat \ {0} /\ DOMAIN l = 1 .. Len(l)
      /\ Len(r) \in Nat \ {0} /\ DOMAIN r = 1 .. Len(r)
      /\ last \in Nat \ {0}
  BY Shape
<1>2. OverlapLoop(l, r) = from[1]
  BY DEF OverlapLoop, OverlapRound
<1>3. \A i \in 1 .. last : i < last \/ \A x : OverlapRound(l, r, i, x) = OverlapRound(l, r, i, TRUE)
  <2> SUFFICES ASSUME NEW i \in 1 .. last, i = last
               PROVE  \A x : OverlapRound(l, r, i, x) = OverlapRound(l, r, i, TRUE)
    <3>1. \A i \in 1 .. last : i < last \/ i = last
      BY <1>1
    <3> QED
      BY <3>1
  <2>1. i = Len(l) + 1 \/ i = Len(r) + 1
    BY <1>1
  <2> QED
    BY <2>1 DEF OverlapRound
<1>4. \A i \in 1 .. last :
        OverlapFrom(l, r, last, i) = OverlapRound(l, r, i, OverlapFrom(l, r, last, i + 1))
  BY <1>1, OverlapStep
<1> HIDE DEF last
<1>5. \A i \in 1 .. last : i < last => i + 1 \in 1 .. last
  BY <1>1
<1>6. Is(closed)
  <2>1. ASSUME NEW i \in 1 .. last
        PROVE  OverlapFrom(l, r, last, i) = OverlapRound(l, r, i, closed[i + 1])
    <3>1. CASE i < last
      BY <1>4, <1>5, <3>1
    <3>2. CASE ~(i < last)
      BY <1>3, <1>4, <3>2
    <3> QED
      BY <3>1, <3>2
  <2> QED
    BY <2>1
<1>7. Is(from)
  BY <1>6
<1> HIDE DEF from
<1>8. \A i \in 1 .. last : from[i] = OverlapRound(l, r, i, from[i + 1])
  BY <1>7
<1> DEFINE S == {i \in 1 .. last : from[i] = OverlapFrom(l, r, last, i)}
<1>9. ASSUME NEW i \in 1 .. last, i < last => i + 1 \in S PROVE i \in S
  <2>1. CASE i < last
    BY <1>4, <1>8, <1>9, <2>1
  <2>2. CASE ~(i < last)
    BY <1>3, <1>4, <1>8, <2>2
  <2> QED
    BY <2>1, <2>2
<1>10. \A i \in 1 .. last : i \in S
  <2> HIDE DEF S
  <2> QED
    BY <1>1, <1>9, DownTo
<1>11. from[1] = OverlapFrom(l, r, last, 1)
  BY <1>1, <1>10
<1>12. OverlapFrom(l, r, last, 1) <=> Overlap(l, r)
  <2>1. \A k : k \in 1 .. last <=> k \in DOMAIN l \cup DOMAIN r \cup {last} /\ k <= Len(l) + 1 /\ k <= Len(r) + 1
    BY <1>1 DEF last
  <2> QED
    BY <1>1, <2>1 DEF OverlapFrom, Overlap, HashAt
<1> QED
  BY <1>2, <1>11, <1>12

\* What is left of CoveredBy when the loop has come to index i.
CoveredFrom(a, r, i) ==
  \/ \E k \in i .. Len(a) :
       a[k] = "#" /\ \A j \in i .. k - 1 : LevelCovers(a, r, j)
  \/ Len(a) = Len(r) /\ \A j \in i .. Len(a) : LevelCovers(a, r, j)

\* One round of the loop, with next for the result of the rest.
CoveredRound(a, r, i, next) ==
  IF i = Len(a) + 1 THEN Len(a) = Len(r)
  ELSE IF a[i] = "#" THEN TRUE
  ELSE IF i > Len(r) THEN FALSE
  ELSE IF a[i] = "+" THEN r[i] # "#" /\ next
  ELSE ~(r[i] = "+" \/ r[i] = "#" \/ a[i] # r[i]) /\ next

LEMMA CoveredStep ==
  ASSUME NEW a \in Filter, NEW r \in Filter, NEW i \in 1 .. Len(a) + 1
  PROVE  CoveredFrom(a, r, i) = CoveredRound(a, r, i, CoveredFrom(a, r, i + 1))
<1>1. /\ Len(a) \in Nat \ {0} /\ DOMAIN a = 1 .. Len(a)
      /\ Len(r) \in Nat \ {0} /\ DOMAIN r = 1 .. Len(r)
  BY Shape
<1>2. CASE i = Len(a) + 1
  <2>1. \A k \in i .. Len(a) : FALSE
    BY <1>1, <1>2
  <2> QED
    BY <1>2, <2>1 DEF CoveredFrom, CoveredRound
<1>3. CASE i # Len(a) + 1 /\ a[i] = "#"
  <2>1. i \in i .. Len(a) /\ \A j \in i .. i - 1 : FALSE
    BY <1>1, <1>3
  <2>2. CoveredFrom(a, r, i)
    BY <1>3, <2>1 DEF CoveredFrom
  <2> QED
    BY <1>3, <2>2 DEF CoveredFrom, CoveredRound
<1>4. CASE i # Len(a) + 1 /\ a[i] # "#"
  <2>1. i + 1 \in 1 .. Len(a) + 1 /\ i <= Len(a)
    BY <1>1, <1>4
  <2>2. LevelCovers(a, r, i) <=>
          ~(i > Len(r)) /\ IF a[i] = "+" THEN r[i] # "#"
                           ELSE ~(r[i] = "+" \/ r[i] = "#" \/ a[i] # r[i])
    BY <1>1, <1>4 DEF LevelCovers
  <2>3. CoveredRound(a, r, i, CoveredFrom(a, r, i + 1)) = (LevelCovers(a, r, i) /\ CoveredFrom(a, r, i + 1))
    BY <1>4, <2>2 DEF CoveredRound, CoveredFrom
  <2>4. ASSUME CoveredFrom(a, r, i) PROVE LevelCovers(a, r, i) /\ CoveredFrom(a, r, i + 1)
    <3>1. CASE Len(a) = Len(r) /\ \A j \in i .. Len(a) : LevelCovers(a, r, j)
      BY <1>1, <2>1, <3>1 DEF CoveredFrom
    <3>2. ASSUME NEW k \in i .. Len(a), a[k] = "#", \A j \in i .. k - 1 : LevelCovers(a, r, j)
          PROVE  LevelCovers(a, r, i) /\ CoveredFrom(a, r, i + 1)
      <4>1. k # i
        BY <1>4, <3>2
      <4>2. k \in i + 1 .. Len(a) /\ i \in i .. k - 1 /\ \A j \in i + 1 .. k - 1 : j \in i .. k - 1
        BY <1>1, <4>1
      <4> QED
        BY <3>2, <4>2 DEF CoveredFrom
    <3> QED
      BY <2>4, <3>1, <3>2 DEF CoveredFrom
  <2>5. ASSUME LevelCovers(a, r, i), CoveredFrom(a, r, i + 1) PROVE CoveredFrom(a, r, i)
    <3>1. \A k : \A j \in i .. k : j = i \/ j \in i + 1 .. k
      OBVIOUS
    <3>2. \A k \in i + 1 .. Len(a) : k \in i .. Len(a)
      BY <1>1
    <3> QED
      BY <2>5, <3>1, <3>2 DEF CoveredFrom
  <2>6. CoveredFrom(a, r, i) \in BOOLEAN /\ CoveredFrom(a, r, i + 1) \in BOOLEAN
    BY DEF CoveredFrom
  <2> QED
    BY <2>3, <2>4, <2>5, <2>6
<1> QED
  BY <1>2, <1>3, <1>4

LEMMA CoveredLoopIs ==
  ASSUME NEW a \in Filter, NEW r \in Filter
  PROVE  CoveredLoop(a, r) <=> CoveredBy(a, r)
<1> DEFINE last == Len(a) + 1
           Is(f) == f = [i \in 1 .. last |-> CoveredRound(a, r, i, f[i + 1])]
           closed == [i \in 1 .. last |-> CoveredFrom(a, r, i)]
           from == CHOOSE f : Is(f)
<1>1. /\ Len(a) \in Nat \ {0} /\ DOMAIN a = 1 .. Len(a)
      /\ last \in Nat \ {0}
  BY Shape
<1>2. CoveredLoop(a, r) = from[1]
  BY DEF CoveredLoop, CoveredRound
<1>3. \A i \in 1 .. last : i < last \/ \A x : CoveredRound(a, r, i, x) = CoveredRound(a, r, i, TRUE)
  <2>1. \A i \in 1 .. last : i < last \/ i = Len(a) + 1
    BY <1>1
  <2> QED
    BY <2>1 DEF CoveredRound
<1>4. \A i \in 1 .. last : CoveredFrom(a, r, i) = CoveredRound(a, r, i, CoveredFrom(a, r, i + 1))
  BY CoveredStep
<1>5. CoveredFrom(a, r, 1) <=> CoveredBy(a, r)
  BY <1>1 DEF CoveredFrom, CoveredBy
<1> HIDE DEF last
<1>6. \A i \in 1 .. last : i < last => i + 1 \in 1 .. last
  BY <1>1
<1>7. Is(closed)
  <2>1. ASSUME NEW i \in 1 .. last
        PROVE  CoveredFrom(a, r, i) = CoveredRound(a, r, i, closed[i + 1])
    <3>1. CASE i < last
      BY <1>4, <1>6, <3>1
    <3>2. CASE ~(i < last)
      BY <1>3, <1>4, <3>2
    <3> QED
      BY <3>1, <3>2
  <2> QED
    BY <2>1
<1>8. Is(from)
  BY <1>7
<1> HIDE DEF from
<1>9. \A i \in 1 .. last : from[i] = CoveredRound(a, r, i, from[i + 1])
  BY <1>8
<1> DEFINE S == {i \in 1 .. last : from[i] = CoveredFrom(a, r, i)}
<1>10. ASSUME NEW i \in 1 .. last, i < last => i + 1 \in S PROVE i \in S
  <2>1. CASE i < last
    BY <1>4, <1>9, <1>10, <2>1
  <2>2. CASE ~(i < last)
    BY <1>3, <1>4, <1>9, <2>2
  <2> QED
    BY <2>1, <2>2
<1>11. \A i \in 1 .. last : i \in S
  <2> HIDE DEF S
  <2> QED
    BY <1>1, <1>10, DownTo
<1>12. from[1] = CoveredFrom(a, r, 1)
  BY <1>1, <1>11
<1> QED
  BY <1>2, <1>5, <1>12

-----------------------------------------------------------------------------
(* The properties of FilterPairs, whatever its bounds.                      *)

\* Filters and topics stay filters and topics as they grow.
THEOREM PairTypeCorrect == PairSpec => []PairTypeOK
<1>1. \A S, l : l \in S => <<l>> \in Seq(S) \ {<<>>}
  OBVIOUS
<1>2. \A S, l : \A s \in Seq(S) \ {<<>>} : l \in S => Append(s, l) \in Seq(S) \ {<<>>}
  OBVIOUS
<1>3. PairInit => PairTypeOK
  BY <1>1 DEF PairInit, PairTypeOK, Filter, Topic
<1>4. PairTypeOK /\ [PairNext]_pairVars => PairTypeOK'
  <2> SUFFICES ASSUME PairTypeOK, [PairNext]_pairVars PROVE PairTypeOK'
    OBVIOUS
  <2>1. CASE GrowLeft
    BY <2>1, <1>2 DEF PairTypeOK, GrowLeft, Filter
  <2>2. CASE GrowRight
    BY <2>2, <1>2 DEF PairTypeOK, GrowRight, Filter
  <2>3. CASE GrowTopic
    BY <2>3, <1>2 DEF PairTypeOK, GrowTopic, Topic
  <2>4. CASE UNCHANGED pairVars
    BY <2>4 DEF PairTypeOK, pairVars
  <2> QED
    BY <2>1, <2>2, <2>3, <2>4 DEF PairNext
<1> QED
  BY <1>3, <1>4, PTL DEF PairSpec

\* A granted request reaches only topics the allow rule selects.
THEOREM CoverIsAlwaysSound == PairSpec => []CoverSound
<1>1. PairTypeOK => CoverSound
  BY CoverIsSound, Names DEF PairTypeOK, CoverSound, Filter
<1> QED
  BY <1>1, PairTypeCorrect, PTL

\* A deny rule sees every request that shares a topic with it.
THEOREM OverlapIsAlwaysComplete == PairSpec => []OverlapComplete
<1>1. PairTypeOK => OverlapComplete
  BY OverlapIsComplete DEF PairTypeOK, OverlapComplete, Filter
<1> QED
  BY <1>1, PairTypeCorrect, PTL

\* For a plain topic both comparisons decide exactly what the filter selects.
THEOREM ComparisonsAreExact == PairSpec => []ExactOnTopics
<1>1. PairTypeOK => ExactOnTopics
  BY CoverExact, OverlapExact DEF PairTypeOK, ExactOnTopics, Filter
<1> QED
  BY <1>1, PairTypeCorrect, PTL

\* The loops of topicFiltersOverlap and topicCoveredBy return what the closed
\* forms say, on whatever filters the acl table holds (topic.go:5-40).
THEOREM LoopsAlwaysAgree == PairSpec => []LoopsAgree
<1>1. PairTypeOK => LoopsAgree
  BY OverlapLoopIs, CoveredLoopIs DEF PairTypeOK, LoopsAgree
<1> QED
  BY <1>1, PairTypeCorrect, PTL

\* Filters do not outgrow their bound.
Short == Len(left) <= MaxFilter /\ Len(right) <= MaxFilter

LEMMA AlwaysShort == PairSpec => []Short
<1>1. PairInit => Short
  <2>1. \A x : Len(<<x>>) = 1
    OBVIOUS
  <2>2. 1 <= MaxFilter
    BY PairBoundsAssumption
  <2>3. PairInit => Len(left) = 1 /\ Len(right) = 1
    BY <2>1, Zenon DEF PairInit
  <2> QED
    BY <2>2, <2>3 DEF Short
<1>2. PairTypeOK /\ Short /\ [PairNext]_pairVars => Short'
  BY PairBoundsAssumption
  DEF Short, PairTypeOK, Filter, PairNext, GrowLeft, GrowRight, GrowTopic, pairVars
<1> QED
  BY <1>1, <1>2, PairTypeCorrect, PTL DEF PairSpec

\* What a deny rule blocks and what an allow rule fails to cover has a witness:
\* on well-formed filters neither comparison is stricter than it has to be, but
\* for a request of "#" (topic.go:5-40).
THEOREM AlwaysTight == PairSpec => []Tight
<1>1. PairTypeOK /\ Short => OverlapTight
  BY OverlapHasWitness, PairBoundsAssumption DEF Short, PairTypeOK, OverlapTight
<1>2. PairTypeOK /\ Short => CoverTight
  <2> SUFFICES ASSUME PairTypeOK, Short, WellFormed(left), WellFormed(right), right # <<"#">>, ~CoveredBy(left, right)
               PROVE  \E t \in Topics(MaxFilter + 1) : Matches(right, t) /\ ~Matches(left, t)
    BY DEF CoverTight
  <2>1. Len(right) < MaxFilter + 1 /\ MaxFilter + 1 \in Nat
    BY PairBoundsAssumption DEF Short, PairTypeOK, Filter
  <2> QED
    BY <2>1, UncoveredHasWitness DEF Short, PairTypeOK
<1> QED
  BY <1>1, <1>2, AlwaysShort, PairTypeCorrect, PTL DEF Tight
=============================================================================
