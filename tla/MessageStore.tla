---------------------------- MODULE MessageStore ----------------------------
(***************************************************************************)
(* The message store of the mkrab broker: the OnPublished hook of          *)
(* MessageStore (mkrab/internal/broker/message.go) over TopicRepository    *)
(* and MessageRepository (mkrab/internal/data/repo/audit.go).              *)
(*                                                                         *)
(* The broker library calls the hook on the goroutine of the publishing    *)
(* connection: one publication of a connection at a time, those of several *)
(* connections interleaved.  Save runs two INSERTs without a transaction.  *)
(***************************************************************************)
EXTENDS TopicFilter

CONSTANTS
  Connection,   \* connections, each with a goroutine of its own
  Published,    \* topics clients publish to
  SysName,      \* first levels that start with "$SYS"
  StoreFilter,  \* message_store.topic of the configuration
  MaxPublished, \* bound: publications of a connection
  MaxFaults     \* bound: crashes and failing statements

ASSUME PublishedAssumption == Published \subseteq Topic
ASSUME StoreFilterAssumption == StoreFilter \in Filter
ASSUME BoundsAssumption == MaxPublished \in Nat /\ MaxFaults \in Nat

VARIABLES
  stream,   \* stream[c]: the topics c has published to, in order
  hook,     \* hook[c]: the statement c's hook runs next
  topics,   \* topics[t]: t's row of mqtt_topic
  rows,     \* received_message in id order: which publication each row is
  lost,     \* history: publications whose Save failed or died
  faults    \* faults so far

vars == <<stream, hook, topics, rows, lost, faults>>

Publication == [conn : Connection, number : 1 .. MaxPublished]

TypeOK ==
  /\ stream \in [Connection -> Seq(Published)]
  /\ hook \in [Connection -> {"idle", "topic", "message"}]
  /\ \A c \in Connection :
       /\ Len(stream[c]) <= MaxPublished
       /\ hook[c] # "idle" => stream[c] # <<>>
  /\ topics \in [Published -> {"absent", "visible", "deleted"}]
  /\ rows \in Seq(Publication)
  /\ \A i \in DOMAIN rows : rows[i].number \in DOMAIN stream[rows[i].conn]
  /\ lost \subseteq Publication
  /\ faults \in Nat

\* A plausible bug: the test on the filter without the one on "$SYS".
KeptWithSys(t) == CoveredBy(StoreFilter, t)

\* The test at the head of Save.
Kept(t) == t[1] \notin SysName /\ CoveredBy(StoreFilter, t)

TopicOf(p) == stream[p.conn][p.number]

\* The publication the hook of c is about: the latest.
Current(c) == [conn |-> c, number |-> Len(stream[c])]

-----------------------------------------------------------------------------
Init ==
  /\ stream = [c \in Connection |-> <<>>]
  /\ hook = [c \in Connection |-> "idle"]
  /\ topics = [t \in Published |-> "absent"]
  /\ rows = <<>>
  /\ lost = {}
  /\ faults = 0

(* Plausible bugs, one per property: variants of the actions below that no  *)
(* definition of the model uses.                                            *)

\* The message goes in first, the topic after it.
InsertTopicSecond(c) ==
  /\ hook[c] = "topic"
  /\ rows' = Append(rows, Current(c))
  /\ hook' = [hook EXCEPT ![c] = "message"]
  /\ UNCHANGED <<stream, topics, lost, faults>>

\* A conflict on the topic ends Save without a word.
InsertTopicOrGiveUp(c) ==
  /\ hook[c] = "topic"
  /\ topics' = [topics EXCEPT ![TopicOf(Current(c))] = IF @ = "absent" THEN "visible" ELSE @]
  /\ hook' = [hook EXCEPT ![c] = IF topics[TopicOf(Current(c))] = "absent" THEN "message" ELSE "idle"]
  /\ UNCHANGED <<stream, rows, lost, faults>>

\* The insertion is retried although it succeeded.
InsertMessageAgain(c) ==
  /\ hook[c] = "message"
  /\ rows' = Append(rows, Current(c))
  /\ hook' \in {hook, [hook EXCEPT ![c] = "idle"]}
  /\ UNCHANGED <<stream, topics, lost, faults>>

\* A conflict on the topic is taken for a busy database and tried again.
InsertTopicOrRetry(c) ==
  /\ hook[c] = "topic"
  /\ topics' = [topics EXCEPT ![TopicOf(Current(c))] = IF @ = "absent" THEN "visible" ELSE @]
  /\ hook' = [hook EXCEPT ![c] = IF topics[TopicOf(Current(c))] = "absent" THEN "message" ELSE @]
  /\ UNCHANGED <<stream, rows, lost, faults>>

\* The row is written of a packet the connection has since overwritten.
InsertMessageLate(c) ==
  /\ hook[c] = "message"
  /\ rows' = Append(rows, [Current(c) EXCEPT !.number = @ + 1])
  /\ hook' = [hook EXCEPT ![c] = "idle"]
  /\ UNCHANGED <<stream, topics, lost, faults>>

-----------------------------------------------------------------------------
\* A client publishes; the library delivers and calls OnPublished, and Save
\* returns at once for a topic it does not keep.
Publish(c, t) ==
  /\ hook[c] = "idle"
  /\ Len(stream[c]) < MaxPublished
  /\ stream' = [stream EXCEPT ![c] = Append(@, t)]
  /\ hook' = [hook EXCEPT ![c] = IF Kept(t) THEN "topic" ELSE "idle"]
  /\ UNCHANGED <<topics, rows, lost, faults>>

\* INSERT INTO mqtt_topic ... ON CONFLICT DO NOTHING; a soft-deleted row still
\* holds the unique key.
InsertTopic(c) ==
  /\ hook[c] = "topic"
  /\ topics' = [topics EXCEPT ![TopicOf(Current(c))] = IF @ = "absent" THEN "visible" ELSE @]
  /\ hook' = [hook EXCEPT ![c] = "message"]
  /\ UNCHANGED <<stream, rows, lost, faults>>

\* INSERT INTO received_message.
InsertMessage(c) ==
  /\ hook[c] = "message"
  /\ rows' = Append(rows, Current(c))
  /\ hook' = [hook EXCEPT ![c] = "idle"]
  /\ UNCHANGED <<stream, topics, lost, faults>>

\* Either INSERT fails: Save returns the error, OnPublished logs it.
SaveFails(c) ==
  /\ hook[c] # "idle"
  /\ faults < MaxFaults
  /\ faults' = faults + 1
  /\ lost' = lost \cup {Current(c)}
  /\ hook' = [hook EXCEPT ![c] = "idle"]
  /\ UNCHANGED <<stream, topics, rows>>

\* The broker dies and starts again; committed rows stay.
Crash ==
  /\ faults < MaxFaults
  /\ faults' = faults + 1
  /\ lost' = lost \cup {Current(c) : c \in {d \in Connection : hook[d] # "idle"}}
  /\ hook' = [c \in Connection |-> "idle"]
  /\ UNCHANGED <<stream, topics, rows>>

\* The operator soft-deletes a topic.
DeleteTopic(t) ==
  /\ topics[t] = "visible"
  /\ topics' = [topics EXCEPT ![t] = "deleted"]
  /\ UNCHANGED <<stream, hook, rows, lost, faults>>

Save(c) == InsertTopic(c) \/ InsertMessage(c)

Next ==
  \/ \E c \in Connection :
       \/ \E t \in Published : Publish(c, t)
       \/ Save(c)
       \/ SaveFails(c)
  \/ Crash
  \/ \E t \in Published : DeleteTopic(t)

Spec == Init /\ [][Next]_vars

\* The statements of a hook that has begun are run: the goroutine is runnable,
\* and SQLite answers or times out.
FairSpec == Spec /\ \A c \in Connection : WF_vars(Save(c))

-----------------------------------------------------------------------------
Stored == {rows[i] : i \in DOMAIN rows}

KeptPublications ==
  {p \in Publication : p.number \in DOMAIN stream[p.conn] /\ Kept(TopicOf(p))}

UnderWay == {Current(c) : c \in {d \in Connection : hook[d] # "idle"}}

\* No message without its topic: whatever fails or dies between the two
\* INSERTs, a stored message's topic has a row (message.go:46, 58).
TopicRowFirst ==
  \A i \in DOMAIN rows : topics[TopicOf(rows[i])] # "absent"

\* Only what the configured filter selects is stored, never the broker's own
\* "$SYS" topics, be it a message or only a topic row (message.go:43).
OnlyKeptTopics ==
  /\ \A i \in DOMAIN rows :
       LET t == TopicOf(rows[i]) IN t[1] \notin SysName /\ Matches(StoreFilter, t)
  /\ \A t \in Published : topics[t] # "absent" =>
       t[1] \notin SysName /\ Matches(StoreFilter, t)

\* The rows of a connection are in the order of its publications and none is
\* there twice, however the hooks of several connections interleave.
OrderKept ==
  \A i, j \in DOMAIN rows :
    i < j /\ rows[i].conn = rows[j].conn => rows[i].number < rows[j].number

\* Every publication to keep is stored, being stored, or lost to a fault that
\* was logged or to a crash, and it is only one of these (message.go:32-39).
Accounted ==
  /\ KeptPublications = Stored \cup UnderWay \cup lost
  /\ Stored \cap UnderWay = {}
  /\ lost \cap (Stored \cup UnderWay) = {}

\* Every publication to keep ends up stored or lost to a fault.
EndsStoredOrLost ==
  \A p \in Publication : p \in KeptPublications ~> p \in Stored \cup lost

\* The store is faithful to what was published: every publication to keep is
\* there once, in order and after its topic, or lost to a fault, and nothing
\* else is (message.go:31-59).
StoreFaithful == TopicRowFirst /\ OnlyKeptTopics /\ OrderKept /\ Accounted

=============================================================================
