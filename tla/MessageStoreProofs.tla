------------------------- MODULE MessageStoreProofs -------------------------
(***************************************************************************)
(* What the message store keeps, for every number of connections, every    *)
(* filter, and any interleaving of INSERTs, faults and crashes.            *)
(***************************************************************************)
EXTENDS MessageStore, TopicFilterProofs

(* What a running hook relies on.                                          *)
HookInv ==
  \A c \in Connection : hook[c] # "idle" =>
    /\ Kept(TopicOf(Current(c)))
    /\ hook[c] = "message" => topics[TopicOf(Current(c))] # "absent"
    /\ \A i \in DOMAIN rows : rows[i].conn = c => rows[i].number < Len(stream[c])
    /\ Current(c) \notin lost

(* Each kept publication, one by one.                                      *)
PointwiseAccounted ==
  /\ \A i \in DOMAIN rows : Kept(TopicOf(rows[i])) /\ rows[i] \notin lost
  /\ \A p \in lost : p.number \in DOMAIN stream[p.conn] /\ Kept(TopicOf(p))
  /\ \A p \in Publication :
       p.number \in DOMAIN stream[p.conn] /\ Kept(TopicOf(p)) =>
         \/ \E i \in DOMAIN rows : rows[i] = p
         \/ p \in lost
         \/ hook[p.conn] # "idle" /\ p.number = Len(stream[p.conn])

KeptTopicRows ==
  \A t \in Published : topics[t] # "absent" => Kept(t)

IInv ==
  /\ TypeOK /\ HookInv /\ PointwiseAccounted
  /\ KeptTopicRows /\ TopicRowFirst /\ OrderKept

-----------------------------------------------------------------------------
\* What the test of Save keeps, the filter selects.
LEMMA KeptIsSelected ==
  \A t \in Published : Kept(t) => t[1] \notin SysName /\ Matches(StoreFilter, t)
BY CoverExact, PublishedAssumption, StoreFilterAssumption DEF Kept, Filter

LEMMA CurrentTyped ==
  ASSUME TypeOK, NEW c \in Connection, hook[c] # "idle"
  PROVE  /\ Current(c) \in Publication
         /\ Current(c).conn = c /\ Current(c).number = Len(stream[c])
         /\ Len(stream[c]) \in DOMAIN stream[c]
         /\ TopicOf(Current(c)) = stream[c][Len(stream[c])]
         /\ TopicOf(Current(c)) \in Published
<1>1. stream[c] \in Seq(Published) /\ stream[c] # <<>> /\ Len(stream[c]) <= MaxPublished
  <2>1. stream \in [Connection -> Seq(Published)]
    BY DEF TypeOK
  <2>2. Len(stream[c]) <= MaxPublished /\ (hook[c] # "idle" => stream[c] # <<>>)
    BY DEF TypeOK
  <2> QED
    BY <2>1, <2>2
<1>2. Len(stream[c]) \in 1 .. MaxPublished /\ Len(stream[c]) \in DOMAIN stream[c]
  BY <1>1, BoundsAssumption
<1> QED
  BY <1>1, <1>2 DEF Current, Publication, TopicOf

LEMMA RowTopics ==
  ASSUME TypeOK
  PROVE  \A i \in DOMAIN rows : TopicOf(rows[i]) \in Published
<1> SUFFICES ASSUME NEW i \in DOMAIN rows PROVE TopicOf(rows[i]) \in Published
  OBVIOUS
<1>1. rows[i] \in Publication /\ rows[i].number \in DOMAIN stream[rows[i].conn]
  BY DEF TypeOK
<1>2. rows[i].conn \in Connection
  BY <1>1 DEF Publication
<1>3. stream[rows[i].conn] \in Seq(Published)
  BY <1>2 DEF TypeOK
<1> QED
  BY <1>1, <1>3 DEF TopicOf

LEMMA InitIInv == Init => IInv
<1> SUFFICES ASSUME Init PROVE IInv
  OBVIOUS
<1>1. TypeOK
  BY BoundsAssumption DEF Init, TypeOK
<1>2. HookInv
  BY DEF Init, HookInv
<1>4. PointwiseAccounted
  <2>1. rows = <<>> /\ lost = {} /\ DOMAIN rows = {}
    BY DEF Init
  <2>2. \A p \in Publication : stream[p.conn] = <<>>
    BY DEF Init, Publication
  <2> QED
    BY <2>1, <2>2 DEF PointwiseAccounted
<1>3. KeptTopicRows /\ TopicRowFirst /\ OrderKept
  BY DEF Init, KeptTopicRows, TopicRowFirst, OrderKept
<1> QED
  BY <1>1, <1>2, <1>3, <1>4 DEF IInv

LEMMA PublishStep ==
  ASSUME IInv, NEW c \in Connection, NEW t \in Published, Publish(c, t)
  PROVE  IInv'
<1> USE DEF IInv
<1>1. /\ hook[c] = "idle" /\ Len(stream[c]) < MaxPublished
      /\ stream' = [stream EXCEPT ![c] = Append(stream[c], t)]
      /\ hook' = [hook EXCEPT ![c] = IF Kept(t) THEN "topic" ELSE "idle"]
      /\ UNCHANGED <<topics, rows, lost, faults>>
  BY DEF Publish
<1>2. /\ stream'[c] = Append(stream[c], t)
      /\ Len(stream'[c]) = Len(stream[c]) + 1
      /\ stream'[c][Len(stream[c]) + 1] = t
      /\ DOMAIN stream'[c] = 1 .. Len(stream[c]) + 1
      /\ \A n \in DOMAIN stream[c] : n \in DOMAIN stream'[c] /\ stream'[c][n] = stream[c][n]
      /\ DOMAIN stream[c] = 1 .. Len(stream[c]) /\ Len(stream[c]) \in Nat
      /\ hook'[c] = IF Kept(t) THEN "topic" ELSE "idle"
      /\ \A d \in Connection \ {c} : stream'[d] = stream[d] /\ hook'[d] = hook[d]
  BY <1>1 DEF TypeOK
<1>3. TypeOK'
  <2>1. stream' \in [Connection -> Seq(Published)] /\ hook' \in [Connection -> {"idle", "topic", "message"}]
    BY <1>1 DEF TypeOK
  <2>2. \A d \in Connection : Len(stream'[d]) <= MaxPublished /\ (hook'[d] # "idle" => stream'[d] # <<>>)
    <3>1. Len(stream'[c]) <= MaxPublished /\ stream'[c] # <<>>
      BY <1>1, <1>2, BoundsAssumption
    <3>2. \A d \in Connection : Len(stream[d]) <= MaxPublished /\ (hook[d] # "idle" => stream[d] # <<>>)
      BY DEF TypeOK
    <3> QED
      BY <1>2, <3>1, <3>2
  <2>3. \A i \in DOMAIN rows : rows[i].number \in DOMAIN stream'[rows[i].conn]
    <3>1. \A i \in DOMAIN rows : rows[i] \in Publication
      BY DEF TypeOK
    <3>2. \A i \in DOMAIN rows : rows[i].number \in DOMAIN stream[rows[i].conn]
      BY DEF TypeOK
    <3> QED
      BY <1>2, <3>1, <3>2 DEF Publication
  <2> QED
    BY <1>1, <2>1, <2>2, <2>3 DEF TypeOK
<1>4. \A p \in Publication : p.number \in DOMAIN stream[p.conn] =>
        p.number \in DOMAIN stream'[p.conn] /\ TopicOf(p)' = TopicOf(p)
  BY <1>2 DEF Publication, TopicOf
<1>5. \A i \in DOMAIN rows : /\ rows[i] \in Publication
                             /\ rows[i].number \in DOMAIN stream[rows[i].conn]
  BY DEF TypeOK
<1>6. \A d \in Connection \ {c} : /\ Current(d)' = Current(d)
                                  /\ TopicOf(Current(d))' = TopicOf(Current(d))
  BY <1>2 DEF Current, TopicOf
<1>7. /\ Current(c)' = [conn |-> c, number |-> Len(stream[c]) + 1]
      /\ TopicOf(Current(c))' = t
  BY <1>2 DEF Current, TopicOf
<1>8. HookInv'
  <2>1. ASSUME NEW d \in Connection, d # c, hook'[d] # "idle"
        PROVE  /\ Kept(TopicOf(Current(d))')
               /\ hook'[d] = "message" => topics'[TopicOf(Current(d))'] # "absent"
               /\ \A i \in DOMAIN rows' : rows'[i].conn = d => rows'[i].number < Len(stream'[d])
               /\ Current(d)' \notin lost'
    BY <1>1, <1>2, <1>6, <2>1 DEF HookInv
  <2>2. hook'[c] # "idle" => hook'[c] = "topic" /\ Kept(t)
    BY <1>2
  <2>3. \A i \in DOMAIN rows' : rows'[i].conn = c => rows'[i].number < Len(stream'[c])
    BY <1>1, <1>2, <1>5
  <2>4. Current(c)' \notin lost'
    BY <1>1, <1>2, <1>7 DEF PointwiseAccounted
  <2> QED
    BY <1>7, <2>1, <2>2, <2>3, <2>4 DEF HookInv, Kept
<1>9. PointwiseAccounted'
  <2>1. \A i \in DOMAIN rows' : Kept(TopicOf(rows[i])') /\ rows'[i] \notin lost'
    BY <1>1, <1>4, <1>5 DEF PointwiseAccounted
  <2>2. \A p \in lost' : p.number \in DOMAIN stream'[p.conn] /\ Kept(TopicOf(p)')
    BY <1>1, <1>4 DEF PointwiseAccounted, TypeOK
  <2>3. ASSUME NEW p \in Publication, p.number \in DOMAIN stream'[p.conn], Kept(TopicOf(p)')
        PROVE  \/ \E i \in DOMAIN rows' : rows'[i] = p
               \/ p \in lost'
               \/ hook'[p.conn] # "idle" /\ p.number = Len(stream'[p.conn])
    <3>1. CASE p.number \in DOMAIN stream[p.conn]
      <4>1. \/ \E i \in DOMAIN rows : rows[i] = p
            \/ p \in lost
            \/ hook[p.conn] # "idle" /\ p.number = Len(stream[p.conn])
        BY <2>3, <3>1, <1>4 DEF PointwiseAccounted
      <4> QED
        BY <4>1, <1>1, <1>2 DEF Publication
    <3>2. CASE p.number \notin DOMAIN stream[p.conn]
      <4>1. p.conn = c /\ p.number = Len(stream[c]) + 1
        BY <3>2, <2>3, <1>2 DEF Publication
      <4>2. TopicOf(p)' = t
        BY <4>1, <1>2 DEF TopicOf
      <4> QED
        BY <4>1, <4>2, <2>3, <1>2
    <3> QED
      BY <3>1, <3>2
  <2> QED
    BY <2>1, <2>2, <2>3, <1>1 DEF PointwiseAccounted, TopicOf, Kept
<1>10. KeptTopicRows' /\ OrderKept'
  BY <1>1 DEF KeptTopicRows, OrderKept, Kept
<1>11. TopicRowFirst'
  BY <1>1, <1>4, <1>5 DEF TopicRowFirst, TopicOf
<1> QED
  BY <1>3, <1>8, <1>9, <1>10, <1>11

-----------------------------------------------------------------------------
\* Steps that publish nothing leave every publication's topic as it is.
LEMMA SamePublications ==
  ASSUME UNCHANGED stream
  PROVE  /\ \A c : Current(c)' = Current(c) /\ TopicOf(Current(c))' = TopicOf(Current(c))
         /\ \A p : TopicOf(p)' = stream[p'.conn][p'.number]
BY DEF Current, TopicOf

LEMMA InsertTopicStep ==
  ASSUME IInv, NEW c \in Connection, InsertTopic(c)
  PROVE  IInv'
<1> USE DEF IInv
<1> DEFINE t == TopicOf(Current(c))
<1>1. /\ hook[c] = "topic"
      /\ topics' = [topics EXCEPT ![t] = IF topics[t] = "absent" THEN "visible" ELSE topics[t]]
      /\ hook' = [hook EXCEPT ![c] = "message"]
      /\ UNCHANGED <<stream, rows, lost, faults>>
  BY DEF InsertTopic
<1>2. t \in Published /\ Kept(t)
  BY <1>1, CurrentTyped DEF HookInv
<1> HIDE DEF t
<1>3. /\ topics'[t] # "absent"
      /\ \A u \in Published : topics[u] # "absent" => topics'[u] # "absent"
      /\ \A u \in Published \ {t} : topics'[u] = topics[u]
      /\ hook'[c] = "message"
      /\ \A d \in Connection \ {c} : hook'[d] = hook[d]
  BY <1>1, <1>2 DEF TypeOK
<1>4. TypeOK'
  <2>1. hook' \in [Connection -> {"idle", "topic", "message"}]
        /\ topics' \in [Published -> {"absent", "visible", "deleted"}]
    BY <1>1, <1>2 DEF TypeOK
  <2>2. \A d \in Connection : hook'[d] # "idle" => stream[d] # <<>>
    BY <1>1, <1>3 DEF TypeOK
  <2> QED
    BY <1>1, <2>1, <2>2 DEF TypeOK
<1>5. HookInv'
  <2>1. ASSUME NEW d \in Connection, hook'[d] # "idle"
        PROVE  /\ Kept(TopicOf(Current(d)))
               /\ hook'[d] = "message" => topics'[TopicOf(Current(d))] # "absent"
               /\ \A i \in DOMAIN rows : rows[i].conn = d => rows[i].number < Len(stream[d])
               /\ Current(d) \notin lost
    <3>1. hook[d] # "idle"
      BY <2>1, <1>1, <1>3
    <3>2. CASE d = c
      BY <3>1, <3>2, <1>3 DEF HookInv, t
    <3>3. CASE d # c
      BY <3>1, <3>3, <1>3, CurrentTyped DEF HookInv
    <3> QED
      BY <3>2, <3>3
  <2> QED
    BY <1>1, <2>1 DEF HookInv, Kept, TopicOf, Current
<1>6. PointwiseAccounted'
  BY <1>1, <1>3 DEF PointwiseAccounted, Kept, TopicOf, Publication
<1>7. KeptTopicRows'
  BY <1>2, <1>3 DEF KeptTopicRows, Kept
<1>8. TopicRowFirst'
  <2>1. \A i \in DOMAIN rows : TopicOf(rows[i]) \in Published
    BY RowTopics
  <2> QED
    BY <1>1, <1>3, <2>1 DEF TopicRowFirst, TopicOf
<1>9. OrderKept'
  BY <1>1 DEF OrderKept
<1> QED
  BY <1>4, <1>5, <1>6, <1>7, <1>8, <1>9

LEMMA InsertMessageStep ==
  ASSUME IInv, NEW c \in Connection, InsertMessage(c)
  PROVE  IInv'
<1> USE DEF IInv
<1> DEFINE new == Current(c)
<1>1. /\ hook[c] = "message"
      /\ rows' = Append(rows, new)
      /\ hook' = [hook EXCEPT ![c] = "idle"]
      /\ UNCHANGED <<stream, topics, lost, faults>>
  BY DEF InsertMessage
<1>2. /\ new \in Publication /\ new.conn = c /\ new.number = Len(stream[c])
      /\ new.number \in DOMAIN stream[c]
      /\ Kept(TopicOf(new)) /\ topics[TopicOf(new)] # "absent"
      /\ \A i \in DOMAIN rows : rows[i].conn = c => rows[i].number < new.number
      /\ new \notin lost
  BY <1>1, CurrentTyped DEF HookInv
<1> HIDE DEF new
<1>3. /\ rows \in Seq(Publication) /\ Len(rows) \in Nat
      /\ DOMAIN rows = 1 .. Len(rows)
      /\ DOMAIN rows' = 1 .. Len(rows) + 1
      /\ rows'[Len(rows) + 1] = new
      /\ \A i \in DOMAIN rows : i \in DOMAIN rows' /\ rows'[i] = rows[i]
      /\ \A i \in DOMAIN rows' : i \in DOMAIN rows \/ i = Len(rows) + 1
  BY <1>1, <1>2 DEF TypeOK
<1>4. hook'[c] = "idle" /\ \A d \in Connection \ {c} : hook'[d] = hook[d]
  BY <1>1 DEF TypeOK
<1>5. TypeOK'
  <2>1. hook' \in [Connection -> {"idle", "topic", "message"}] /\ rows' \in Seq(Publication)
    BY <1>1, <1>2 DEF TypeOK
  <2>2. \A i \in DOMAIN rows' : rows'[i].number \in DOMAIN stream[rows'[i].conn]
    BY <1>2, <1>3 DEF TypeOK
  <2>3. \A d \in Connection : hook'[d] # "idle" => stream[d] # <<>>
    BY <1>4 DEF TypeOK
  <2> QED
    BY <1>1, <2>1, <2>2, <2>3 DEF TypeOK
<1>6. HookInv'
  <2>1. ASSUME NEW d \in Connection, hook'[d] # "idle"
        PROVE  /\ Kept(TopicOf(Current(d)))
               /\ hook'[d] = "message" => topics[TopicOf(Current(d))] # "absent"
               /\ \A i \in DOMAIN rows' : rows'[i].conn = d => rows'[i].number < Len(stream[d])
               /\ Current(d) \notin lost
    <3>1. d # c /\ hook'[d] = hook[d]
      BY <2>1, <1>4
    <3> QED
      BY <2>1, <3>1, <1>2, <1>3 DEF HookInv
  <2> QED
    BY <1>1, <2>1 DEF HookInv, Kept, TopicOf, Current
<1>7. PointwiseAccounted'
  <2>1. \A i \in DOMAIN rows' : Kept(TopicOf(rows'[i])) /\ rows'[i] \notin lost
    BY <1>2, <1>3 DEF PointwiseAccounted
  <2>2. \A p \in lost : p.number \in DOMAIN stream[p.conn] /\ Kept(TopicOf(p))
    BY DEF PointwiseAccounted
  <2>3. ASSUME NEW p \in Publication, p.number \in DOMAIN stream[p.conn], Kept(TopicOf(p))
        PROVE  \/ \E i \in DOMAIN rows' : rows'[i] = p
               \/ p \in lost
               \/ hook'[p.conn] # "idle" /\ p.number = Len(stream[p.conn])
    <3>1. CASE p.conn = c /\ p.number = Len(stream[c])
      <4>1. p = new
        BY <3>1, <1>2 DEF Publication
      <4> QED
        BY <4>1, <1>3
    <3>2. CASE ~(p.conn = c /\ p.number = Len(stream[c]))
      <4>1. \/ \E i \in DOMAIN rows : rows[i] = p
            \/ p \in lost
            \/ hook[p.conn] # "idle" /\ p.number = Len(stream[p.conn])
        BY <2>3 DEF PointwiseAccounted
      <4>2. p.conn \in Connection
        BY DEF Publication
      <4> QED
        BY <3>2, <4>1, <4>2, <1>3, <1>4
    <3> QED
      BY <3>1, <3>2
  <2> QED
    BY <1>1, <2>1, <2>2, <2>3 DEF PointwiseAccounted, Kept, TopicOf, Publication
<1>8. KeptTopicRows'
  BY <1>1 DEF KeptTopicRows, Kept
<1>9. TopicRowFirst'
  <2>1. \A i \in DOMAIN rows' : topics[TopicOf(rows'[i])] # "absent"
    BY <1>2, <1>3 DEF TopicRowFirst
  <2> QED
    BY <1>1, <2>1 DEF TopicRowFirst, TopicOf
<1>10. OrderKept'
  BY <1>2, <1>3 DEF OrderKept
<1> QED
  BY <1>5, <1>6, <1>7, <1>8, <1>9, <1>10

\* Hooks that end by a fault: their publications are lost.
LEMMA HooksEnd ==
  ASSUME IInv, NEW some \in SUBSET Connection, \A d \in some : hook[d] # "idle",
         lost' = lost \cup {Current(d) : d \in some},
         hook' = [d \in Connection |-> IF d \in some THEN "idle" ELSE hook[d]],
         faults' \in Nat, UNCHANGED <<stream, topics, rows>>
  PROVE  IInv'
<1> USE DEF IInv
<1>1. \A d \in some : /\ Current(d) \in Publication
                      /\ Current(d).conn = d /\ Current(d).number = Len(stream[d])
                      /\ Len(stream[d]) \in DOMAIN stream[d]
                      /\ Kept(TopicOf(Current(d)))
                      /\ \A i \in DOMAIN rows : rows[i] # Current(d)
  <2> SUFFICES ASSUME NEW d \in some
      PROVE  /\ Current(d) \in Publication
             /\ Current(d).conn = d /\ Current(d).number = Len(stream[d])
             /\ Len(stream[d]) \in DOMAIN stream[d]
             /\ Kept(TopicOf(Current(d)))
             /\ \A i \in DOMAIN rows : rows[i] # Current(d)
    OBVIOUS
  <2>1. d \in Connection /\ hook[d] # "idle"
    OBVIOUS
  <2>2. /\ Current(d) \in Publication
        /\ Current(d).conn = d /\ Current(d).number = Len(stream[d])
        /\ Len(stream[d]) \in DOMAIN stream[d]
    BY <2>1, CurrentTyped
  <2>3. Kept(TopicOf(Current(d)))
    BY <2>1 DEF HookInv
  <2>4. \A i \in DOMAIN rows : rows[i].conn = d => rows[i].number < Len(stream[d])
    BY <2>1 DEF HookInv
  <2>5. Len(stream[d]) \in Nat
    BY <2>1 DEF TypeOK
  <2> QED
    BY <2>2, <2>3, <2>4, <2>5
<1>2. \A d \in Connection : hook'[d] # "idle" => d \notin some /\ hook'[d] = hook[d]
  OBVIOUS
<1>3. TypeOK'
  <2>1. hook' \in [Connection -> {"idle", "topic", "message"}] /\ lost' \subseteq Publication
    BY <1>1 DEF TypeOK
  <2>2. \A d \in Connection : hook'[d] # "idle" => stream[d] # <<>>
    BY <1>2 DEF TypeOK
  <2> QED
    BY <2>1, <2>2 DEF TypeOK
<1>4. HookInv'
  <2>1. ASSUME NEW d \in Connection, hook'[d] # "idle"
        PROVE  /\ Kept(TopicOf(Current(d)))
               /\ hook'[d] = "message" => topics[TopicOf(Current(d))] # "absent"
               /\ \A i \in DOMAIN rows : rows[i].conn = d => rows[i].number < Len(stream[d])
               /\ Current(d) \notin lost'
    <3>1. d \notin some /\ hook[d] = hook'[d]
      BY <2>1, <1>2
    <3>2. Current(d) \notin {Current(e) : e \in some}
      BY <3>1, <1>1 DEF Current
    <3> QED
      BY <2>1, <3>1, <3>2 DEF HookInv
  <2> QED
    BY <2>1 DEF HookInv, Kept, TopicOf, Current
<1>5. PointwiseAccounted'
  <2>1. \A i \in DOMAIN rows : Kept(TopicOf(rows[i])) /\ rows[i] \notin lost'
    BY <1>1 DEF PointwiseAccounted
  <2>2. \A p \in lost' : p.number \in DOMAIN stream[p.conn] /\ Kept(TopicOf(p))
    BY <1>1 DEF PointwiseAccounted
  <2>3. ASSUME NEW p \in Publication, p.number \in DOMAIN stream[p.conn], Kept(TopicOf(p))
        PROVE  \/ \E i \in DOMAIN rows : rows[i] = p
               \/ p \in lost'
               \/ hook'[p.conn] # "idle" /\ p.number = Len(stream[p.conn])
    <3>1. \/ \E i \in DOMAIN rows : rows[i] = p
          \/ p \in lost
          \/ hook[p.conn] # "idle" /\ p.number = Len(stream[p.conn])
      BY <2>3 DEF PointwiseAccounted
    <3>2. p.conn \in Connection /\ p = [conn |-> p.conn, number |-> p.number]
      BY DEF Publication
    <3>3. CASE p.conn \in some /\ p.number = Len(stream[p.conn])
      <4>1. p = Current(p.conn)
        BY <3>2, <3>3 DEF Current
      <4> QED
        BY <4>1, <3>3
    <3>4. CASE ~(p.conn \in some /\ p.number = Len(stream[p.conn]))
      BY <3>1, <3>2, <3>4
    <3> QED
      BY <3>3, <3>4
  <2> QED
    BY <2>1, <2>2, <2>3 DEF PointwiseAccounted, Kept, TopicOf, Publication
<1>6. KeptTopicRows' /\ TopicRowFirst' /\ OrderKept'
  BY DEF KeptTopicRows, TopicRowFirst, OrderKept, Kept, TopicOf
<1> QED
  BY <1>3, <1>4, <1>5, <1>6

LEMMA SaveFailsStep ==
  ASSUME IInv, NEW c \in Connection, SaveFails(c)
  PROVE  IInv'
<1> DEFINE some == {c}
<1>1. /\ hook[c] # "idle" /\ faults' = faults + 1
      /\ lost' = lost \cup {Current(c)}
      /\ hook' = [hook EXCEPT ![c] = "idle"]
      /\ UNCHANGED <<stream, topics, rows>>
  BY DEF SaveFails
<1>2. faults' \in Nat
  BY <1>1 DEF IInv, TypeOK
<1>3. lost' = lost \cup {Current(d) : d \in some}
  BY <1>1
<1>4. hook' = [d \in Connection |-> IF d \in some THEN "idle" ELSE hook[d]]
  BY <1>1 DEF IInv, TypeOK
<1>5. some \in SUBSET Connection /\ \A d \in some : hook[d] # "idle"
  BY <1>1
<1> HIDE DEF some
<1> QED
  BY <1>1, <1>2, <1>3, <1>4, <1>5, HooksEnd

LEMMA CrashStep ==
  ASSUME IInv, Crash
  PROVE  IInv'
<1> DEFINE some == {d \in Connection : hook[d] # "idle"}
<1>1. /\ faults' = faults + 1
      /\ lost' = lost \cup {Current(d) : d \in some}
      /\ hook' = [d \in Connection |-> IF d \in some THEN "idle" ELSE hook[d]]
      /\ UNCHANGED <<stream, topics, rows>>
  BY DEF Crash
<1>2. faults' \in Nat
  BY <1>1 DEF IInv, TypeOK
<1>3. some \in SUBSET Connection /\ \A d \in some : hook[d] # "idle"
  OBVIOUS
<1> QED
  BY <1>1, <1>2, <1>3, HooksEnd

LEMMA DeleteTopicStep ==
  ASSUME IInv, NEW t \in Published, DeleteTopic(t)
  PROVE  IInv'
<1> USE DEF IInv
<1>1. /\ topics[t] = "visible" /\ topics' = [topics EXCEPT ![t] = "deleted"]
      /\ UNCHANGED <<stream, hook, rows, lost, faults>>
  BY DEF DeleteTopic
<1>2. /\ topics' \in [Published -> {"absent", "visible", "deleted"}]
      /\ \A u \in Published : topics'[u] = "absent" <=> topics[u] = "absent"
  BY <1>1 DEF TypeOK
<1>3. TypeOK'
  BY <1>1, <1>2 DEF TypeOK
<1>4. HookInv'
  <2>1. \A c \in Connection : hook[c] # "idle" => TopicOf(Current(c)) \in Published
    BY CurrentTyped
  <2> QED
    BY <1>1, <1>2, <2>1 DEF HookInv, Kept, TopicOf, Current
<1>5. PointwiseAccounted'
  BY <1>1 DEF PointwiseAccounted, Kept, TopicOf, Publication
<1>6. KeptTopicRows' /\ OrderKept'
  BY <1>1, <1>2 DEF KeptTopicRows, OrderKept, Kept
<1>7. TopicRowFirst'
  <2>1. \A i \in DOMAIN rows : TopicOf(rows[i]) \in Published
    BY RowTopics
  <2> QED
    BY <1>1, <1>2, <2>1 DEF TopicRowFirst, TopicOf
<1> QED
  BY <1>3, <1>4, <1>5, <1>6, <1>7

LEMMA NextIInv == IInv /\ [Next]_vars => IInv'
<1> SUFFICES ASSUME IInv, [Next]_vars PROVE IInv'
  OBVIOUS
<1>1. ASSUME NEW c \in Connection, NEW t \in Published, Publish(c, t) PROVE IInv'
  BY <1>1, PublishStep
<1>2. ASSUME NEW c \in Connection, Save(c) PROVE IInv'
  BY <1>2, InsertTopicStep, InsertMessageStep DEF Save
<1>3. ASSUME NEW c \in Connection, SaveFails(c) PROVE IInv'
  BY <1>3, SaveFailsStep
<1>4. CASE Crash
  BY <1>4, CrashStep
<1>5. ASSUME NEW t \in Published, DeleteTopic(t) PROVE IInv'
  BY <1>5, DeleteTopicStep
<1>6. CASE UNCHANGED vars
  <2>1. UNCHANGED <<stream, hook, topics, rows, lost, faults>>
    BY <1>6 DEF vars
  <2>2. TypeOK' /\ KeptTopicRows' /\ OrderKept'
    BY <2>1 DEF IInv, TypeOK, KeptTopicRows, OrderKept, Kept
  <2>3. HookInv' /\ TopicRowFirst'
    BY <2>1 DEF IInv, HookInv, TopicRowFirst, Kept, TopicOf, Current
  <2>4. PointwiseAccounted'
    BY <2>1 DEF IInv, PointwiseAccounted, Kept, TopicOf, Publication
  <2> QED
    BY <2>2, <2>3, <2>4 DEF IInv
<1> QED
  BY <1>1, <1>2, <1>3, <1>4, <1>5, <1>6 DEF Next

LEMMA IInvHolds == Spec => []IInv
BY InitIInv, NextIInv, PTL DEF Spec

-----------------------------------------------------------------------------
\* Every variable of the message store keeps its type; a row is of a
\* publication that took place.
THEOREM TypeCorrect == Spec => []TypeOK
<1>1. IInv => TypeOK
  BY DEF IInv
<1> QED
  BY <1>1, IInvHolds, PTL

\* A stored message's topic has its row, whatever fails between the two
\* INSERTs (message.go:46, 58).
THEOREM TopicsFirst == Spec => []TopicRowFirst
<1>1. IInv => TopicRowFirst
  BY DEF IInv
<1> QED
  BY <1>1, IInvHolds, PTL

\* Nothing outside the configured filter is stored, and no "$SYS" topic
\* (message.go:43).
THEOREM OnlyKept == Spec => []OnlyKeptTopics
<1>1. IInv => OnlyKeptTopics
  <2> SUFFICES ASSUME IInv PROVE OnlyKeptTopics
    OBVIOUS
  <2>1. \A i \in DOMAIN rows : TopicOf(rows[i]) \in Published /\ Kept(TopicOf(rows[i]))
    BY RowTopics DEF IInv, PointwiseAccounted
  <2>2. \A t \in Published : topics[t] # "absent" => Kept(t)
    BY DEF IInv, KeptTopicRows
  <2> QED
    BY <2>1, <2>2, KeptIsSelected DEF OnlyKeptTopics
<1> QED
  BY <1>1, IInvHolds, PTL

\* The rows of a connection are in its order and none twice, for every number
\* of connections (message.go:31-59).
THEOREM Ordered == Spec => []OrderKept
<1>1. IInv => OrderKept
  BY DEF IInv
<1> QED
  BY <1>1, IInvHolds, PTL

\* Every publication to keep is stored, under way, or lost to a fault, and only
\* one of these (message.go:32-39).
THEOREM AllAccounted == Spec => []Accounted
<1>1. IInv => Accounted
  <2> SUFFICES ASSUME IInv PROVE Accounted
    OBVIOUS
  <2> USE DEF IInv
  <2>1. \A d \in Connection : hook[d] # "idle" =>
          /\ Current(d) \in Publication /\ Current(d).conn = d
          /\ Current(d).number = Len(stream[d])
          /\ Len(stream[d]) \in DOMAIN stream[d] /\ Len(stream[d]) \in Nat
          /\ Kept(TopicOf(Current(d)))
          /\ \A i \in DOMAIN rows : rows[i].conn = d => rows[i].number < Len(stream[d])
          /\ Current(d) \notin lost
    BY CurrentTyped DEF HookInv, TypeOK
  <2>2. \A p \in Stored : /\ p \in Publication /\ p.number \in DOMAIN stream[p.conn]
                          /\ Kept(TopicOf(p)) /\ p \notin lost
    BY DEF Stored, TypeOK, PointwiseAccounted
  <2>3. \A p \in lost : /\ p \in Publication /\ p.number \in DOMAIN stream[p.conn]
                        /\ Kept(TopicOf(p))
    BY DEF TypeOK, PointwiseAccounted
  <2>4. Stored \cap UnderWay = {}
    BY <2>1 DEF Stored, UnderWay
  <2>5. lost \cap (Stored \cup UnderWay) = {}
    BY <2>1, <2>2 DEF UnderWay
  <2>6. Stored \cup UnderWay \cup lost \subseteq KeptPublications
    BY <2>1, <2>2, <2>3 DEF UnderWay, KeptPublications
  <2>7. KeptPublications \subseteq Stored \cup UnderWay \cup lost
    <3> SUFFICES ASSUME NEW p \in KeptPublications, p \notin lost
        PROVE  p \in Stored \cup UnderWay
      OBVIOUS
    <3>1. /\ p \in Publication /\ p.conn \in Connection
          /\ p = [conn |-> p.conn, number |-> p.number]
          /\ p.number \in DOMAIN stream[p.conn] /\ Kept(TopicOf(p))
      BY DEF KeptPublications, Publication
    <3>2. \/ \E i \in DOMAIN rows : rows[i] = p
          \/ hook[p.conn] # "idle" /\ p.number = Len(stream[p.conn])
      BY <3>1 DEF PointwiseAccounted
    <3> QED
      BY <3>1, <3>2 DEF Stored, UnderWay, Current
  <2> QED
    BY <2>4, <2>5, <2>6, <2>7 DEF Accounted
<1> QED
  BY <1>1, IInvHolds, PTL

\* The four together: the store is faithful to what was published
\* (message.go:31-59).
THEOREM Faithful == Spec => []StoreFaithful
BY TopicsFirst, OnlyKept, Ordered, AllAccounted, PTL DEF StoreFaithful

=============================================================================
