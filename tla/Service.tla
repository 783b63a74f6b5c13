------------------------------- MODULE Service -------------------------------
(***************************************************************************)
(* `mkrab serve` as a whole: the main goroutine, the web interface with    *)
(* its live subscriptions, MQTT clients.  What they have in common is who  *)
(* may come in when, whom the end waits for (the goroutines of MQTT        *)
(* clients, but no request of the web interface), and that nobody outlives *)
(* the process.                                                            *)
(***************************************************************************)
EXTENDS Lifecycle, AdminServer

F == INSTANCE TopicFilter

VARIABLE late \* clients whose CONNECT was processed after the listeners had closed

vars == <<lifeVars, adminVars, late>>

TypeOK == LifeTypeOK /\ AdminTypeOK /\ late \subseteq Clients

Init == LifeInit /\ AdminInit /\ late = {}

ClientsGone == \A c \in Clients : publisher[c] = "out"

\* Closing a listener stops the clients that are known by then, and not one whose
\* CONNECT is still to come.
Told(c) == broker = "closed" /\ c \notin late

\* The handler of a web socket.
Handler(s) == Subscribe(s) \/ Unsubscribe(s)

\* http.Server.Close leaves the handlers alone, and the hijacked connections.
Admin ==
  \/ \E s \in Sockets : (admin = "serving" /\ Upgrade(s)) \/ Handler(s) \/ Browse(s)
  \/ \E w \in Publishers \cup Sockets, s \in Sockets : Lock(w, s) \/ Write(w, s)
  \/ \E p \in Posts : admin = "serving" /\ Enter(p)
  \/ \E p \in Publishers : Publish(p) \/ Published(p) \/ Leave(p)
  \/ \E c \in Clients : (broker = "serving" /\ bound # {} /\ Connect(c)) \/ Refuse(c)

\* A connection that has been accepted gets in also while the broker closes.
ClientEnters(c) ==
  /\ Enter(c)
  /\ late' = IF broker = "closed" THEN late \cup {c} ELSE late
  /\ UNCHANGED lifeVars

Next ==
  /\ main \notin Ended
  /\ \/ (Main(ClientsGone) \/ AdminRun \/ Signal) /\ UNCHANGED <<adminVars, late>>
     \/ Admin /\ UNCHANGED <<lifeVars, late>>
     \/ \E c \in Clients : ClientEnters(c)

Spec == Init /\ [][Next]_vars

Alive(A) == main \notin Ended /\ A /\ UNCHANGED <<lifeVars, late>>

\* A step of a delivery: the next callback, the end of one, the end of all.
Deliver(p) == Published(p) \/ \E s \in Sockets : Lock(p, s) \/ Write(p, s)

\* Main runs, and publishers that have something to do: a mutex is given to who
\* has waited long enough, a write to a browser that reads again and again
\* returns, a client that was told to stop does, after the packet at hand and its
\* last will.  Nothing is assumed of browsers, requests and signals, nor of
\* clients that nobody has told.
FairSpec ==
  /\ Spec
  /\ WF_vars(main \notin Ended /\ Main(ClientsGone) /\ UNCHANGED <<adminVars, late>>)
  /\ \A p \in Publishers : SF_vars(Alive(Deliver(p)))
  /\ \A s \in Sockets : SF_vars(Alive(Write(s, s)))
  /\ \A c \in Clients : SF_vars(Alive(Told(c) /\ Leave(c)))

-----------------------------------------------------------------------------
\* What a file asks for, by the README: TCP unless switched off, the others when
\* switched on, TLS and WSS with a certificate.
Asked(f) ==
  {l \in Listener : f.listeners[l].enabled = "on" \/ (l = "tcp" /\ f.listeners[l].enabled = "unset")}

\* A topic that a filter is about: a plain level for every wildcard.
Example(filter) == [k \in DOMAIN filter |-> IF filter[k] \in {"#", "+"} THEN "x" ELSE filter[k]]

\* A filter with which the store does what MQTT calls filtering (topic.go:20).
Sensible(filter) ==
  /\ F!WellFormed(filter)
  /\ F!CoveredBy(filter, Example(filter))
  /\ \A k \in DOMAIN filter : Example(filter)[k] \notin WithHash \cup WithPlus

\* An MQTT client is served by a whole broker only, from its first hook to its
\* last: all the hooks of the configuration are there, the root account has been
\* ensured and the database is open, the listeners are those the file asks for,
\* and the store's filter is one (app.go:32-65, command.go:29-37, config.go:47-118).
ServedByWhole ==
  (\E c \in Clients : publisher[c] # "out") =>
    /\ db = "open" /\ root
    /\ {"auth", "connections"} \subseteq hooks
    /\ "store" \in hooks <=> file.store # "off"
    /\ listeners = Asked(file)
    /\ \A l \in listeners \cap Secure : file.listeners[l].cert
    /\ "store" \in hooks => Sensible(config.topic)

\* A live subscription belongs to the web socket whose handler is running, and to
\* no other: no browser loses its subscription to another that leaves, and none
\* is left behind (admin/server.go:93-111).
SubscriptionsOwned ==
  LET live == {s \in Sockets : handler[s] \in {"replay", "reading"}}
  IN /\ Subscribed = live
     /\ \A s \in live : inline[id[s]] = s

BrowsersRead == \A s \in Sockets : []<>(peer[s] # "stalls")

\* A connection is refused or gets in, and who has got in after the listeners
\* closed leaves by itself.
LatecomersLeave ==
  \A c \in Clients :
    []<>(publisher[c] # "handshake" /\ (c \in late => publisher[c] = "out"))

\* A signal has been caught, or the root account could not be ensured.
Ending == caught \/ main \in {"close", "closing", "cleanup"}

\* One signal, or a root account that cannot be ensured, ends the broker, as long
\* as no browser stalls for ever and no client that nobody told to stop stays for
\* ever: those that were told need no assumption (app.go:42-65;
\* admin/server.go:95-98).
SignalEnds ==
  BrowsersRead /\ LatecomersLeave => []<>(Ending => main \in Ended)

\* A publication is over at some time, whatever the browsers do that subscribe to
\* it while it is delivered or leave, but for stalling for ever.
PublishersProceed ==
  BrowsersRead =>
    \A p \in Publishers : []<>(publisher[p] = "delivering" => main \in Ended)

\* Whatever browsers do but for stalling for ever, no publication gets stuck, nor
\* does the shutdown, unless a client comes in while it runs and stays (app.go:42-65;
\* admin/server.go:95-98).
NothingStuck == SignalEnds /\ PublishersProceed

=============================================================================
