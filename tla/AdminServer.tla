----------------------------- MODULE AdminServer -----------------------------
(***************************************************************************)
(* The live subscriptions of the web interface and the publications they   *)
(* are fed by (internal/admin/server.go): web socket handlers, one per     *)
(* browser, and publishers, which are goroutines of MQTT clients or of     *)
(* POST /api/publish.                                                      *)
(*                                                                         *)
(* From the library: a publisher calls the handlers of the inline          *)
(* subscriptions one after the other on its own goroutine, and then the    *)
(* OnPublished hooks; Subscribe calls its handler with a retained message; *)
(* an id is the key of an inline subscription.  Every filter here matches  *)
(* every publication: others do not meet.                                  *)
(***************************************************************************)
EXTENDS Naturals, FiniteSets

CONSTANTS
  Sockets, \* requests for a web socket, and the browsers that make them
  Clients, \* MQTT clients
  Posts,   \* requests to POST /api/publish
  NoOne    \* not a socket, not a publisher

Publishers == Clients \cup Posts
Id == 1 .. Cardinality(Sockets)

ASSUME NamesAssumption ==
  /\ IsFiniteSet(Sockets)
  /\ NoOne \notin Sockets \cup Publishers
  /\ Sockets \cap Publishers = {}
  /\ Clients \cap Posts = {}

VARIABLES
  subscriptions, \* the atomic counter
  handler,       \* handler[s]: where the handler of s is
  id,            \* id[s]: its id, or 0
  inline,        \* inline[i]: whose callback the broker holds under i
  peer,          \* peer[s]: what the browser does
  writeMu,       \* writeMu[s]: who holds the mutex
  publisher,     \* publisher[p]: where p is
  todo           \* todo[p]: the subscriptions p has yet to call

adminVars == <<subscriptions, handler, id, inline, peer, writeMu, publisher, todo>>

AdminTypeOK ==
  /\ subscriptions \in 0 .. Cardinality(Sockets)
  /\ handler \in [Sockets -> {"none", "numbered", "replay", "reading", "gone"}]
  /\ id \in [Sockets -> 0 .. Cardinality(Sockets)]
  /\ inline \in [Id -> Sockets \cup {NoOne}]
  /\ peer \in [Sockets -> {"reads", "stalls", "left"}]
  /\ writeMu \in [Sockets -> Publishers \cup Sockets \cup {NoOne}]
  /\ publisher \in [Publishers -> {"out", "handshake", "in", "delivering", "done"}]
  /\ todo \in [Publishers -> SUBSET Sockets]

AdminInit ==
  /\ subscriptions = 0
  /\ handler = [s \in Sockets |-> "none"]
  /\ id = [s \in Sockets |-> 0]
  /\ inline = [i \in Id |-> NoOne]
  /\ peer = [s \in Sockets |-> "left"]
  /\ writeMu = [s \in Sockets |-> NoOne]
  /\ publisher = [p \in Publishers |-> "out"]
  /\ todo = [p \in Publishers |-> {}]

Subscribed == {inline[i] : i \in Id} \ {NoOne}

-----------------------------------------------------------------------------
(* Plausible bugs, one per property: variants of the definitions below that *)
(* no definition of the model uses.                                         *)

\* The id is the number of live subscriptions, and one.
NumberByCount(s) ==
  /\ handler[s] = "none"
  /\ subscriptions' = subscriptions + 1
  /\ id' = [id EXCEPT ![s] = Cardinality(Subscribed) + 1]
  /\ handler' = [handler EXCEPT ![s] = "numbered"]
  /\ peer' = [peer EXCEPT ![s] = "reads"]
  /\ UNCHANGED <<inline, writeMu, publisher, todo>>

\* The mutex is not given back if the write fails.
WriteKeepsMutex(w, s) ==
  /\ writeMu[s] = w
  /\ IF w \in Publishers THEN s \in todo[w] ELSE handler[s] = "replay"
  /\ peer[s] # "stalls"
  /\ writeMu' = IF peer[s] = "reads" THEN [writeMu EXCEPT ![s] = NoOne] ELSE writeMu
  /\ IF w \in Publishers
       THEN todo' = [todo EXCEPT ![w] = @ \ {s}] /\ UNCHANGED handler
       ELSE handler' = [handler EXCEPT ![s] = "reading"] /\ UNCHANGED todo
  /\ UNCHANGED <<subscriptions, id, inline, peer, publisher>>

\* Callbacks that are not there any more are called too.
PublishToAllIds(p) ==
  /\ publisher[p] = "in"
  /\ publisher' = [publisher EXCEPT ![p] = "delivering"]
  /\ todo' = [todo EXCEPT ![p] = {inline[i] : i \in Id}]
  /\ UNCHANGED <<subscriptions, handler, id, inline, peer, writeMu>>

-----------------------------------------------------------------------------
(* GET /ws.                                                                 *)

\* A request with a filter, the upgrade and an id.
Upgrade(s) ==
  /\ handler[s] = "none"
  /\ subscriptions' = subscriptions + 1
  /\ id' = [id EXCEPT ![s] = subscriptions + 1]
  /\ handler' = [handler EXCEPT ![s] = "numbered"]
  /\ peer' = [peer EXCEPT ![s] = "reads"]
  /\ UNCHANGED <<inline, writeMu, publisher, todo>>

\* broker.Subscribe, which goes on to the retained message if there is one.  A
\* filter that is not valid is answered and the connection closed.
Subscribe(s) ==
  /\ handler[s] = "numbered"
  /\ \/ /\ inline' = [inline EXCEPT ![id[s]] = s]
        /\ handler' \in {[handler EXCEPT ![s] = h] : h \in {"replay", "reading"}}
        /\ UNCHANGED peer
     \/ /\ handler' = [handler EXCEPT ![s] = "gone"]
        /\ peer' = [peer EXCEPT ![s] = "left"]
        /\ UNCHANGED inline
  /\ UNCHANGED <<subscriptions, id, writeMu, publisher, todo>>

\* ReadMessage fails, the connection is closed; the deferred Unsubscribe.  The
\* callbacks that are under way write to a connection that fails either way.
Unsubscribe(s) ==
  /\ handler[s] = "reading" /\ peer[s] = "left"
  /\ inline' = [inline EXCEPT ![id[s]] = NoOne]
  /\ handler' = [handler EXCEPT ![s] = "gone"]
  /\ UNCHANGED <<subscriptions, id, peer, writeMu, publisher, todo>>

\* The browser stops to read, reads again, or leaves.
Browse(s) ==
  /\ \/ peer[s] = "reads" /\ peer' = [peer EXCEPT ![s] = "stalls"]
     \/ peer[s] = "stalls" /\ peer' = [peer EXCEPT ![s] = "reads"]
     \/ peer[s] # "left" /\ peer' = [peer EXCEPT ![s] = "left"]
  /\ UNCHANGED <<subscriptions, handler, id, inline, writeMu, publisher, todo>>

-----------------------------------------------------------------------------
(* The callback of a subscription.                                          *)

\* writeMu.Lock: by a publisher, or by the handler for the retained message.
Lock(w, s) ==
  /\ writeMu[s] = NoOne
  /\ \A t \in Sockets : writeMu[t] # w
  /\ \/ w \in Publishers /\ publisher[w] = "delivering" /\ s \in todo[w]
     \/ w = s /\ handler[s] = "replay"
  /\ writeMu' = [writeMu EXCEPT ![s] = w]
  /\ UNCHANGED <<subscriptions, handler, id, inline, peer, publisher, todo>>

\* WriteJSON returns, whether it failed or not, and the mutex is given back.  It
\* has no deadline: while the browser stalls it does not return.
Write(w, s) ==
  /\ writeMu[s] = w
  /\ peer[s] # "stalls"
  /\ writeMu' = [writeMu EXCEPT ![s] = NoOne]
  /\ IF w \in Publishers
       THEN todo' = [todo EXCEPT ![w] = @ \ {s}] /\ UNCHANGED handler
       ELSE handler' = [handler EXCEPT ![s] = "reading"] /\ UNCHANGED todo
  /\ UNCHANGED <<subscriptions, id, inline, peer, publisher>>

-----------------------------------------------------------------------------
(* Publications.                                                            *)

Goes(p, where) ==
  /\ publisher' = [publisher EXCEPT ![p] = where]
  /\ UNCHANGED <<subscriptions, handler, id, inline, peer, writeMu, todo>>

\* A network connection is accepted, and waits for its CONNECT.
Connect(c) == publisher[c] = "out" /\ Goes(c, "handshake")

Refuse(c) == publisher[c] = "handshake" /\ Goes(c, "out")

\* A client has passed the hooks of the connect; a POST is taken.
Enter(p) ==
  /\ publisher[p] = IF p \in Clients THEN "handshake" ELSE "out"
  /\ Goes(p, "in")

\* The subscriptions are looked up once.
Publish(p) ==
  /\ publisher[p] = "in"
  /\ publisher' = [publisher EXCEPT ![p] = "delivering"]
  /\ todo' = [todo EXCEPT ![p] = Subscribed]
  /\ UNCHANGED <<subscriptions, handler, id, inline, peer, writeMu>>

\* All have been called; OnPublished, whose error is only logged.
Published(p) ==
  /\ publisher[p] = "delivering" /\ todo[p] = {}
  /\ Goes(p, IF p \in Posts THEN "done" ELSE "in")

\* A client is disconnected, which ends with OnDisconnect, or a POST is refused.
Leave(p) == publisher[p] = "in" /\ Goes(p, IF p \in Posts THEN "done" ELSE "out")
=============================================================================
