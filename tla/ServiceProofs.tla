---------------------------- MODULE ServiceProofs ----------------------------
(***************************************************************************)
(* `mkrab serve` for any configuration files, any number of browsers,      *)
(* clients and requests: nobody is served by half a broker, and a live     *)
(* subscription is its browser's own.                                      *)
(***************************************************************************)
EXTENDS Service, FiniteSetTheorems, SequenceTheorems, TLAPS

(* What main has behind it, by where it is.                                *)
BeforeListeners == {"load", "open", "listen"}
Running == {"notify", "serve", "admin", "wait"}
BeforeServer == BeforeListeners \cup {"server"}

HooksOf(f) == {"auth", "connections"} \cup (IF Config(f).store THEN {"store"} ELSE {})

Stage ==
  /\ main \notin {"load"} \cup Ended => config = Config(file) /\ Errors(file) = {}
  /\ main \notin {"load", "open"} \cup Ended => db = "open"
  /\ main \in BeforeListeners => bound = {}
  /\ main \notin BeforeListeners \cup Ended => listeners = Enabled(file)
  /\ main \notin BeforeServer \cup Ended => hooks = HooksOf(file)
  /\ main \in Running => root

(* A broker with everything to it.                                         *)
Whole ==
  /\ config = Config(file) /\ Errors(file) = {}
  /\ db = "open" /\ root
  /\ listeners = Enabled(file) /\ hooks = HooksOf(file)

ServingIsWhole ==
  broker = "serving" => Whole /\ main \in {"admin", "wait", "close", "killed"}

(* The end waits for the clients before it closes the database.            *)
ClientsKeepItWhole ==
  ~ClientsGone => Whole /\ main \in {"admin", "wait", "close", "closing", "killed"}

LifeInv == LifeTypeOK /\ Stage /\ ServingIsWhole /\ ClientsKeepItWhole

-----------------------------------------------------------------------------
(* Every request that has got a number got the next one.                   *)
Numbered == {s \in Sockets : handler[s] # "none"}

Numbers ==
  /\ subscriptions = Cardinality(Numbered)
  /\ \A s \in Numbered : id[s] \in 1 .. subscriptions
  /\ \A s, t \in Numbered : id[s] = id[t] => s = t

Live == {"replay", "reading"}

Callbacks ==
  /\ \A s \in Sockets : handler[s] \in Live => inline[id[s]] = s
  /\ \A i \in Id : inline[i] # NoOne => handler[inline[i]] \in Live /\ id[inline[i]] = i

(* A handler holds no mutex but its own, and only for the retained message. *)
OwnMutex ==
  \A s \in Sockets : writeMu[s] \in Sockets => writeMu[s] = s /\ handler[s] = "replay"

AdminInv == AdminTypeOK /\ Numbers /\ Callbacks /\ OwnMutex

IInv == LifeInv /\ AdminInv /\ late \subseteq Clients
-----------------------------------------------------------------------------
(* Main and the signals.                                                   *)

LEMMA LifeInit_LifeInv == Init => LifeInv
<1> SUFFICES ASSUME Init PROVE LifeInv
  OBVIOUS
<1>1. LifeTypeOK
  BY DEF Init, LifeInit, LifeTypeOK
<1>2. Stage /\ ServingIsWhole
  BY DEF Init, LifeInit, Stage, ServingIsWhole, Ended, BeforeListeners, BeforeServer, Running
<1>3. ClientsGone
  BY DEF Init, AdminInit, ClientsGone, Publishers
<1> QED
  BY <1>1, <1>2, <1>3 DEF LifeInv, ClientsKeepItWhole

LEMMA ListenersOfAFile == \A f : Enabled(f) \subseteq Listener /\ Config(f).listeners = Enabled(f)
BY DEF Enabled, Config

LEMMA HooksOfAFile == \A f : HooksOf(f) \subseteq Hook
BY DEF HooksOf, Hook

\* Before the broker serves main sets everything up, and nobody is in.
LEMMA SetUpStep ==
  ASSUME LifeInv,
         Load \/ OpenFromConfig \/ NewListeners \/ NewServer \/ New \/ EnsureInitialRoot \/ NotifyContext,
         UNCHANGED adminVars
  PROVE  LifeInv'
<1> USE DEF Ended, BeforeListeners, BeforeServer, Running
<1>1. main \in {"load", "open", "listen", "server", "application", "root", "notify"}
  BY DEF Load, OpenFromConfig, NewListeners, NewServer, New, EnsureInitialRoot, NotifyContext
<1>2. broker # "serving" /\ ClientsGone
  BY <1>1 DEF LifeInv, ServingIsWhole, ClientsKeepItWhole
<1>3. ClientsGone'
  BY <1>2 DEF ClientsGone, adminVars
<1>4. broker' # "serving"
  BY <1>2 DEF Load, OpenFromConfig, NewListeners, NewServer, New, EnsureInitialRoot, NotifyContext
<1>5. LifeTypeOK' /\ Stage'
  <2>1. CASE Load
    BY <2>1 DEF Load, Fail, LifeInv, LifeTypeOK, Stage
  <2>2. CASE OpenFromConfig
    BY <2>2 DEF OpenFromConfig, Fail, LifeInv, LifeTypeOK, Stage
  <2>3. CASE NewListeners
    BY <2>3, ListenersOfAFile DEF NewListeners, Fail, LifeInv, LifeTypeOK, Stage
  <2>4. CASE NewServer
    <3>1. main = "server" /\ config = Config(file) /\ listeners = Enabled(file) /\ db = "open"
      BY <2>4 DEF NewServer, LifeInv, Stage
    <3>2. bound' \subseteq listeners
      BY <2>4 DEF NewServer
    <3>3. main' = "application" => hooks' = HooksOf(file) /\ db' = db
      BY <2>4, <3>1 DEF NewServer, Fail, HooksOf
    <3>4. hooks' \subseteq Hook
      BY <2>4 DEF NewServer, Hook
    <3>5. UNCHANGED <<file, config, listeners, root, admin, caught>>
      BY <2>4 DEF NewServer
    <3>6. main' \in {"application", "exited"} /\ db' \in {"open", "closed"}
          /\ broker' \in {"none", "made", "closed", "serving"}
      BY <2>4, <3>1 DEF NewServer, Fail, LifeInv, LifeTypeOK
    <3>7. LifeTypeOK'
      BY <3>2, <3>4, <3>5, <3>6 DEF LifeInv, LifeTypeOK
    <3>8. Stage'
      BY <3>1, <3>3, <3>5, <3>6 DEF LifeInv, Stage
    <3> QED
      BY <3>7, <3>8
  <2>5. CASE New
    BY <2>5 DEF New, LifeInv, LifeTypeOK, Stage
  <2>6. CASE EnsureInitialRoot
    BY <2>6 DEF EnsureInitialRoot, LifeInv, LifeTypeOK, Stage
  <2>7. CASE NotifyContext
    BY <2>7 DEF NotifyContext, LifeInv, LifeTypeOK, Stage
  <2> QED
    BY <2>1, <2>2, <2>3, <2>4, <2>5, <2>6, <2>7
<1> QED
  BY <1>3, <1>4, <1>5 DEF LifeInv, ServingIsWhole, ClientsKeepItWhole

\* From Serve on everything stays as it is until the clients have gone.
LEMMA ServingStep ==
  ASSUME LifeInv,
         Serve \/ GoAdmin \/ AdminRun \/ Return \/ Close \/ BrokerClosed(ClientsGone) \/ Cleanup,
         UNCHANGED adminVars
  PROVE  LifeInv'
<1> USE DEF Ended, BeforeListeners, BeforeServer, Running
<1>1. ClientsGone' <=> ClientsGone
  BY DEF ClientsGone, adminVars
<1>2. UNCHANGED <<file, config, listeners, hooks, root>>
  BY DEF Serve, GoAdmin, AdminRun, Return, Close, BrokerClosed, Cleanup
<1>3. CASE Serve
  <2>1. LifeTypeOK' /\ Stage'
    BY <1>3 DEF Serve, LifeInv, LifeTypeOK, Stage
  <2>2. Whole'
    BY <1>3 DEF Serve, LifeInv, Stage, Whole
  <2>3. main' = "admin"
    BY <1>3 DEF Serve
  <2> QED
    BY <2>1, <2>2, <2>3 DEF LifeInv, ServingIsWhole, ClientsKeepItWhole
<1>4. CASE GoAdmin
  <2>1. LifeTypeOK' /\ Stage'
    BY <1>4 DEF GoAdmin, LifeInv, LifeTypeOK, Stage
  <2>2. main' = "wait" /\ db' = db /\ broker' = broker
    BY <1>4 DEF GoAdmin
  <2> QED
    BY <1>1, <1>2, <2>1, <2>2 DEF LifeInv, ServingIsWhole, ClientsKeepItWhole, Whole
<1>5. CASE AdminRun
  <2>1. LifeTypeOK' /\ Stage'
    BY <1>5 DEF AdminRun, LifeInv, LifeTypeOK, Stage
  <2>2. main' = main /\ db' = db /\ broker' = broker
    BY <1>5 DEF AdminRun
  <2> QED
    BY <1>1, <1>2, <2>1, <2>2 DEF LifeInv, ServingIsWhole, ClientsKeepItWhole, Whole
<1>6. CASE Return
  <2>1. LifeTypeOK' /\ Stage'
    BY <1>6 DEF Return, LifeInv, LifeTypeOK, Stage
  <2>2. main' = "close" /\ db' = db /\ broker' = broker
    BY <1>6 DEF Return
  <2> QED
    BY <1>1, <1>2, <2>1, <2>2 DEF LifeInv, ServingIsWhole, ClientsKeepItWhole, Whole
<1>7. CASE Close
  <2>1. LifeTypeOK' /\ Stage'
    BY <1>7 DEF Close, LifeInv, LifeTypeOK, Stage
  <2>2. main' = "closing" /\ db' = db /\ broker' = "closed"
    BY <1>7 DEF Close
  <2> QED
    BY <1>1, <1>2, <2>1, <2>2 DEF LifeInv, ServingIsWhole, ClientsKeepItWhole, Whole
<1>8. CASE BrokerClosed(ClientsGone)
  <2>1. LifeTypeOK' /\ Stage'
    BY <1>8 DEF BrokerClosed, LifeInv, LifeTypeOK, Stage
  <2>2. ClientsGone /\ main = "closing" /\ broker' = broker
    BY <1>8 DEF BrokerClosed
  <2> QED
    BY <1>1, <2>1, <2>2 DEF LifeInv, ServingIsWhole, ClientsKeepItWhole
<1>9. CASE Cleanup
  <2>1. LifeTypeOK' /\ Stage'
    BY <1>9 DEF Cleanup, LifeInv, LifeTypeOK, Stage
  <2>2. main = "cleanup" /\ broker' = broker
    BY <1>9 DEF Cleanup
  <2> QED
    BY <1>1, <2>1, <2>2 DEF LifeInv, ServingIsWhole, ClientsKeepItWhole
<1> QED
  BY <1>3, <1>4, <1>5, <1>6, <1>7, <1>8, <1>9

LEMMA SignalStep ==
  ASSUME LifeInv, Signal, UNCHANGED adminVars
  PROVE  LifeInv'
<1> USE DEF Ended, BeforeListeners, BeforeServer, Running
<1>1. ClientsGone' <=> ClientsGone
  BY DEF ClientsGone, adminVars
<1>2. UNCHANGED <<file, config, db, listeners, bound, hooks, root, broker, admin>>
  BY DEF Signal
<1>3. main' \in {main, "killed"} /\ caught' \in {caught, TRUE}
  BY DEF Signal
<1>4. LifeTypeOK'
  BY <1>2, <1>3 DEF LifeInv, LifeTypeOK
<1>5. Stage'
  BY <1>2, <1>3 DEF LifeInv, Stage
<1>6. Whole' <=> Whole
  BY <1>2 DEF Whole
<1> QED
  BY <1>1, <1>2, <1>3, <1>4, <1>5, <1>6 DEF LifeInv, ServingIsWhole, ClientsKeepItWhole

\* A connection is accepted by a broker that serves; from then on the end waits.
LEMMA AdmittedStep ==
  ASSUME LifeInv, AdminTypeOK, Admin \/ (\E c \in Clients : Enter(c)), UNCHANGED lifeVars
  PROVE  LifeInv'
<1>0. UNCHANGED <<file, main, config, db, listeners, bound, hooks, root, broker, admin, caught>>
  BY DEF lifeVars
<1>1. LifeTypeOK'
  BY <1>0 DEF LifeInv, LifeTypeOK
<1>2. Stage'
  BY <1>0 DEF LifeInv, Stage
<1>3. Whole' <=> Whole
  BY <1>0 DEF Whole
<1>4. ServingIsWhole'
  BY <1>0, <1>3 DEF LifeInv, ServingIsWhole
<1>5. ~ClientsGone' => ~ClientsGone \/ broker = "serving"
  <2> SUFFICES ASSUME NEW c \in Clients, publisher'[c] # "out", publisher[c] = "out", broker # "serving"
               PROVE  FALSE
    BY DEF ClientsGone
  <2>1. publisher' # publisher
    OBVIOUS
  <2>2. PICK p \in Publishers :
          \/ Enter(p) \/ Publish(p) \/ Published(p) \/ Leave(p)
          \/ p \in Clients /\ Refuse(p)
          \/ p \in Clients /\ broker = "serving" /\ Connect(p)
    BY <2>1
    DEF Admin, Upgrade, Handler, Subscribe, Unsubscribe, Browse, Lock, Write, Publishers
  <2>3. p = c
    BY <2>2 DEF Enter, Publish, Published, Leave, Refuse, Connect, Goes, AdminTypeOK, Publishers
  <2>4. p \in Clients /\ publisher[p] = "out"
    BY <2>3
  <2> QED
    BY <2>2, <2>4 DEF Enter, Publish, Published, Leave, Refuse, Connect
<1> QED
  BY <1>0, <1>1, <1>2, <1>3, <1>4, <1>5 DEF LifeInv, ServingIsWhole, ClientsKeepItWhole

-----------------------------------------------------------------------------
(* The subscriptions.                                                      *)

LEMMA Names ==
  /\ \A p \in Publishers : p \notin Sockets /\ p # NoOne
  /\ NoOne \notin Sockets
BY NamesAssumption DEF Publishers

LEMMA AdminInit_AdminInv == Init => AdminInv
<1> SUFFICES ASSUME Init PROVE AdminInv
  OBVIOUS
<1> USE DEF Init, AdminInit
<1>1. Cardinality(Sockets) \in Nat
  BY NamesAssumption, FS_CardinalityType
<1>2. AdminTypeOK
  BY <1>1 DEF AdminTypeOK
<1>3. Numbered = {}
  BY DEF Numbered
<1>4. Numbers
  BY <1>3, FS_EmptySet DEF Numbers
<1>5. Callbacks /\ OwnMutex
  BY Names DEF Callbacks, OwnMutex, Live
<1> QED
  BY <1>2, <1>4, <1>5 DEF AdminInv

\* The counter has room for one more as long as a request has no number.
LEMMA RoomForOne ==
  ASSUME AdminInv, NEW s \in Sockets \ Numbered
  PROVE  /\ subscriptions + 1 \in 1 .. Cardinality(Sockets)
         /\ Cardinality(Numbered \cup {s}) = subscriptions + 1
<1>1. IsFiniteSet(Sockets) /\ Numbered \subseteq Sockets
  BY NamesAssumption DEF Numbered
<1>2. IsFiniteSet(Numbered)
  BY <1>1, FS_Subset
<1>3. Cardinality(Numbered \cup {s}) = Cardinality(Numbered) + 1
  BY <1>2, FS_AddElement
<1>4. Numbered \cup {s} \subseteq Sockets
  BY <1>1
<1>5. Cardinality(Numbered \cup {s}) <= Cardinality(Sockets)
  BY <1>1, <1>4, FS_Subset
<1>6. Cardinality(Numbered) \in Nat /\ Cardinality(Sockets) \in Nat
  BY <1>1, <1>2, FS_CardinalityType
<1> QED
  BY <1>3, <1>5, <1>6 DEF AdminInv, Numbers

LEMMA UpgradeStep ==
  ASSUME AdminInv, NEW s \in Sockets, Upgrade(s)
  PROVE  AdminInv'
<1>1. handler[s] = "none" /\ handler' = [handler EXCEPT ![s] = "numbered"]
      /\ subscriptions' = subscriptions + 1 /\ id' = [id EXCEPT ![s] = subscriptions + 1]
      /\ UNCHANGED <<inline, writeMu>>
  BY DEF Upgrade
<1>2. s \notin Numbered
  BY <1>1 DEF Numbered
<1>3. subscriptions + 1 \in 1 .. Cardinality(Sockets)
      /\ Cardinality(Numbered \cup {s}) = subscriptions + 1
  BY <1>2, RoomForOne
<1>4. AdminTypeOK'
  BY <1>1, <1>3 DEF Upgrade, AdminInv, AdminTypeOK
<1>5. Numbered' = Numbered \cup {s}
  BY <1>1 DEF AdminInv, AdminTypeOK, Numbered
<1>6. \A t \in Sockets \ {s} : id'[t] = id[t] /\ handler'[t] = handler[t]
  BY <1>1 DEF AdminInv, AdminTypeOK
<1>7. id'[s] = subscriptions + 1 /\ handler'[s] = "numbered"
  BY <1>1 DEF AdminInv, AdminTypeOK
<1>8. Numbers'
  <2>1. subscriptions' = Cardinality(Numbered')
    BY <1>1, <1>3, <1>5
  <2>2. subscriptions \in Nat /\ Numbered \subseteq Sockets
    BY <1>3 DEF AdminInv, AdminTypeOK, Numbered
  <2>3. \A t \in Numbered : t # s /\ id'[t] = id[t] /\ id[t] \in 1 .. subscriptions
    BY <1>2, <1>6, <2>2 DEF AdminInv, Numbers
  <2>4. \A t \in Numbered' : id'[t] \in 1 .. subscriptions'
    BY <1>1, <1>5, <1>7, <2>2, <2>3
  <2>5. \A t, u \in Numbered' : id'[t] = id'[u] => t = u
    BY <1>5, <1>7, <2>2, <2>3 DEF AdminInv, Numbers
  <2> QED
    BY <2>1, <2>4, <2>5 DEF Numbers
<1>9. Callbacks'
  <2>1. \A t \in Sockets : handler'[t] \in Live => t # s
    BY <1>7 DEF Live
  <2>2. \A i \in Id : inline[i] # NoOne => inline[i] \in Sockets \ {s}
    BY <1>1 DEF AdminInv, AdminTypeOK, Callbacks, Live
  <2> QED
    BY <1>1, <1>6, <2>1, <2>2 DEF AdminInv, Callbacks
<1>10. OwnMutex'
  BY <1>1, <1>6 DEF AdminInv, OwnMutex
<1> QED
  BY <1>4, <1>8, <1>9, <1>10 DEF AdminInv

LEMMA SubscribeStep ==
  ASSUME AdminInv, NEW s \in Sockets, Subscribe(s)
  PROVE  AdminInv'
<1>1. handler[s] = "numbered" /\ UNCHANGED <<subscriptions, id, writeMu>>
  BY DEF Subscribe
<1>2. s \in Numbered /\ id[s] \in Id /\ Numbered \subseteq Sockets
  BY <1>1 DEF AdminInv, AdminTypeOK, Numbers, Numbered, Id
<1>3. PICK h \in {"replay", "reading", "gone"} : handler' = [handler EXCEPT ![s] = h]
  BY DEF Subscribe
<1>4. h \in Live => inline' = [inline EXCEPT ![id[s]] = s]
  BY <1>3 DEF Subscribe, AdminInv, AdminTypeOK, Live
<1>5. h = "gone" => inline' = inline
  BY <1>3 DEF Subscribe, AdminInv, AdminTypeOK
<1>6. handler'[s] = h /\ \A t \in Sockets \ {s} : handler'[t] = handler[t]
  BY <1>3 DEF AdminInv, AdminTypeOK
<1>7. AdminTypeOK'
  BY <1>2 DEF Subscribe, AdminInv, AdminTypeOK
<1>8. Numbered' = Numbered
  BY <1>1, <1>6 DEF Numbered
<1>9. Numbers'
  BY <1>1, <1>8 DEF AdminInv, Numbers
<1>10. \A t \in Sockets : handler[t] \in Live => t \in Numbered /\ t # s
  BY <1>1 DEF Numbered, Live
<1>11. Callbacks'
  <2>1. CASE h = "gone"
    <3>1. \A t \in Sockets : handler'[t] \in Live <=> handler[t] \in Live
      BY <1>1, <1>6, <2>1 DEF Live
    <3> QED
      BY <1>1, <1>5, <2>1, <3>1 DEF AdminInv, AdminTypeOK, Callbacks
  <2>2. CASE h \in Live
    <3>1. \A i \in Id : inline'[i] = IF i = id[s] THEN s ELSE inline[i]
      BY <1>4, <2>2 DEF AdminInv, AdminTypeOK
    <3>2. \A t \in Sockets \ {s} : handler[t] \in Live => id[t] # id[s] /\ id[t] \in Id
      BY <1>2, <1>10 DEF AdminInv, AdminTypeOK, Numbers, Id
    <3>3. \A t \in Sockets : handler'[t] \in Live => inline'[id'[t]] = t
      BY <1>1, <1>2, <1>6, <3>1, <3>2 DEF AdminInv, Callbacks
    <3>4. \A i \in Id : inline[i] # NoOne => inline[i] \in Sockets \ {s}
      BY <1>1 DEF AdminInv, AdminTypeOK, Callbacks, Live
    <3>5. \A i \in Id : inline'[i] # NoOne => handler'[inline'[i]] \in Live /\ id'[inline'[i]] = i
      BY <1>1, <1>6, <2>2, <3>1, <3>4 DEF AdminInv, Callbacks
    <3> QED
      BY <3>3, <3>5 DEF Callbacks
  <2> QED
    BY <1>3, <2>1, <2>2 DEF Live
<1>12. OwnMutex'
  BY <1>1, <1>6 DEF AdminInv, OwnMutex
<1> QED
  BY <1>7, <1>9, <1>11, <1>12 DEF AdminInv

LEMMA UnsubscribeStep ==
  ASSUME AdminInv, NEW s \in Sockets, Unsubscribe(s)
  PROVE  AdminInv'
<1>1. handler[s] = "reading" /\ UNCHANGED <<subscriptions, id, writeMu>>
      /\ handler' = [handler EXCEPT ![s] = "gone"] /\ inline' = [inline EXCEPT ![id[s]] = NoOne]
  BY DEF Unsubscribe
<1>2. handler'[s] = "gone" /\ \A t \in Sockets \ {s} : handler'[t] = handler[t]
  BY <1>1 DEF AdminInv, AdminTypeOK
<1>3. s \in Numbered /\ id[s] \in Id
  BY <1>1 DEF AdminInv, AdminTypeOK, Numbers, Numbered, Id
<1>4. AdminTypeOK'
  BY DEF Unsubscribe, AdminInv, AdminTypeOK
<1>5. Numbered' = Numbered
  BY <1>1, <1>2 DEF Numbered
<1>6. Numbers'
  BY <1>1, <1>5 DEF AdminInv, Numbers
<1>7. \A i \in Id : inline'[i] = IF i = id[s] THEN NoOne ELSE inline[i]
  BY <1>1 DEF AdminInv, AdminTypeOK
<1>8. \A t \in Sockets \ {s} : handler[t] \in Live => id[t] # id[s] /\ id[t] \in Id
  BY <1>3 DEF AdminInv, AdminTypeOK, Numbers, Numbered, Live, Id
<1>9. \A t \in Sockets : handler'[t] \in Live => inline'[id'[t]] = t
  BY <1>1, <1>2, <1>7, <1>8 DEF AdminInv, Callbacks, Live
<1>10. \A i \in Id : i # id[s] /\ inline[i] # NoOne => inline[i] \in Sockets \ {s}
  BY DEF AdminInv, AdminTypeOK, Callbacks
<1>11. \A i \in Id : inline'[i] # NoOne => handler'[inline'[i]] \in Live /\ id'[inline'[i]] = i
  BY <1>1, <1>2, <1>7, <1>10 DEF AdminInv, Callbacks
<1>12. Callbacks'
  BY <1>9, <1>11 DEF Callbacks
<1>13. OwnMutex'
  BY <1>1, <1>2 DEF AdminInv, OwnMutex
<1> QED
  BY <1>4, <1>6, <1>12, <1>13 DEF AdminInv

\* A write ends: if it was the handler's, the handler goes on to read.
LEMMA WriteStep ==
  ASSUME AdminInv, NEW s \in Sockets, NEW w \in Publishers \cup Sockets, Write(w, s)
  PROVE  AdminInv'
<1>1. writeMu[s] = w /\ writeMu' = [writeMu EXCEPT ![s] = NoOne]
      /\ UNCHANGED <<subscriptions, id, inline>>
  BY DEF Write
<1>2. w \in Publishers => handler' = handler
  BY DEF Write
<1>3. w \notin Publishers => handler[s] = "replay" /\ handler' = [handler EXCEPT ![s] = "reading"]
  BY <1>1, Names DEF Write, AdminInv, OwnMutex
<1>4. \A t \in Sockets : /\ handler'[t] \in Live <=> handler[t] \in Live
                         /\ handler'[t] = "none" <=> handler[t] = "none"
                         /\ t # s => handler'[t] = handler[t]
  BY <1>2, <1>3 DEF AdminInv, AdminTypeOK, Live
<1>5. AdminTypeOK'
  <2>1. CASE w \in Publishers
    <3>1. todo' = [todo EXCEPT ![w] = todo[w] \ {s}]
      BY <2>1 DEF Write
    <3> QED
      BY <1>1, <2>1, <3>1 DEF Write, AdminInv, AdminTypeOK
  <2>2. CASE w \notin Publishers
    BY <1>1, <2>2 DEF Write, AdminInv, AdminTypeOK
  <2> QED
    BY <2>1, <2>2
<1>6. Numbered' = Numbered
  BY <1>4 DEF Numbered
<1>7. Numbers'
  BY <1>1, <1>6 DEF AdminInv, Numbers
<1>8. Callbacks'
  <2>1. \A t \in Sockets : handler'[t] \in Live => inline'[id'[t]] = t
    BY <1>1, <1>4 DEF AdminInv, Callbacks
  <2>2. \A i \in Id : inline[i] # NoOne => inline[i] \in Sockets
    BY DEF AdminInv, AdminTypeOK
  <2>3. \A i \in Id : inline'[i] # NoOne => handler'[inline'[i]] \in Live /\ id'[inline'[i]] = i
    BY <1>1, <1>4, <2>2 DEF AdminInv, Callbacks
  <2> QED
    BY <2>1, <2>3 DEF Callbacks
<1>9. OwnMutex'
  BY <1>1, <1>4, Names DEF AdminInv, AdminTypeOK, OwnMutex
<1> QED
  BY <1>5, <1>7, <1>8, <1>9 DEF AdminInv

LEMMA LockStep ==
  ASSUME AdminInv, NEW s \in Sockets, NEW w \in Publishers \cup Sockets, Lock(w, s)
  PROVE  AdminInv'
<1>1. writeMu' = [writeMu EXCEPT ![s] = w] /\ UNCHANGED <<subscriptions, id, inline, handler>>
  BY DEF Lock
<1>2. w \in Sockets => w = s /\ handler[s] = "replay"
  BY Names DEF Lock
<1>3. AdminTypeOK'
  BY <1>1 DEF Lock, AdminInv, AdminTypeOK
<1>4. Numbers' /\ Callbacks'
  BY <1>1 DEF AdminInv, Numbers, Numbered, Callbacks
<1>5. OwnMutex'
  BY <1>1, <1>2 DEF AdminInv, AdminTypeOK, OwnMutex
<1> QED
  BY <1>3, <1>4, <1>5 DEF AdminInv

\* What only browsers and publishers do leaves the subscriptions alone.
LEMMA PublishingStep ==
  ASSUME AdminInv,
         \/ \E s \in Sockets : Browse(s)
         \/ \E p \in Publishers :
              Enter(p) \/ Publish(p) \/ Published(p) \/ Leave(p) \/ Connect(p) \/ Refuse(p)
  PROVE  AdminInv'
<1>1. UNCHANGED <<subscriptions, id, inline, handler, writeMu>>
  BY DEF Browse, Enter, Publish, Published, Leave, Connect, Refuse, Goes
<1>2. Subscribed \subseteq Sockets
  BY DEF AdminInv, AdminTypeOK, Subscribed
<1>3. AdminTypeOK'
  <2>1. CASE \E s \in Sockets : Browse(s)
    BY <2>1 DEF Browse, AdminInv, AdminTypeOK
  <2>2. CASE \E p \in Publishers : Publish(p)
    BY <1>2, <2>2 DEF Publish, AdminInv, AdminTypeOK
  <2>3. ASSUME NEW p \in Publishers,
               NEW where \in {"out", "handshake", "in", "done"}, Goes(p, where)
        PROVE  AdminTypeOK'
    BY <2>3 DEF Goes, AdminInv, AdminTypeOK
  <2>4. CASE \E p \in Publishers : Enter(p) \/ Published(p) \/ Leave(p) \/ Connect(p) \/ Refuse(p)
    BY <2>3, <2>4 DEF Enter, Published, Leave, Connect, Refuse
  <2> QED
    BY <2>1, <2>2, <2>4
<1>4. Numbers' /\ Callbacks' /\ OwnMutex'
  BY <1>1 DEF AdminInv, Numbers, Numbered, Callbacks, OwnMutex
<1> QED
  BY <1>3, <1>4 DEF AdminInv

-----------------------------------------------------------------------------
LEMMA InitIInv == Init => IInv
<1>1. Init => late = {}
  BY DEF Init
<1> QED
  BY <1>1, LifeInit_LifeInv, AdminInit_AdminInv DEF IInv

LEMMA NextIInv == IInv /\ [Next]_vars => IInv'
<1> SUFFICES ASSUME IInv, [Next]_vars PROVE IInv'
  OBVIOUS
<1>1. LifeInv /\ AdminInv
  BY DEF IInv
<1>2. CASE (Main(ClientsGone) \/ AdminRun \/ Signal) /\ UNCHANGED <<adminVars, late>>
  <2>1. LifeInv'
    BY <1>1, <1>2, SetUpStep, ServingStep, SignalStep DEF Main
  <2>2. AdminInv'
    BY <1>1, <1>2 DEF adminVars, AdminInv, AdminTypeOK, Numbers, Numbered, Callbacks, OwnMutex
  <2> QED
    BY <1>2, <2>1, <2>2 DEF IInv
<1>3. CASE Admin /\ UNCHANGED <<lifeVars, late>>
  <2>1. LifeInv'
    BY <1>1, <1>3, AdmittedStep DEF AdminInv
  <2>2. AdminInv'
    BY <1>1, <1>3, UpgradeStep, SubscribeStep, UnsubscribeStep, WriteStep, LockStep, PublishingStep
       DEF Admin, Handler, Publishers
  <2> QED
    BY <1>3, <2>1, <2>2 DEF IInv
<1>5. ASSUME NEW c \in Clients, ClientEnters(c) PROVE IInv'
  <2>1. Enter(c) /\ UNCHANGED lifeVars /\ late' \in {late, late \cup {c}}
    BY <1>5 DEF ClientEnters
  <2>2. LifeInv'
    BY <1>1, <2>1, AdmittedStep DEF AdminInv
  <2>3. AdminInv'
    BY <1>1, <2>1, PublishingStep DEF Publishers
  <2> QED
    BY <2>1, <2>2, <2>3 DEF IInv
<1>4. CASE UNCHANGED vars
  <2>1. UNCHANGED lifeVars /\ UNCHANGED adminVars /\ UNCHANGED late
    BY <1>4 DEF vars
  <2>2. AdminInv'
    BY <1>1, <2>1 DEF adminVars, AdminInv, AdminTypeOK, Numbers, Numbered, Callbacks, OwnMutex
  <2>3. LifeTypeOK' /\ Stage'
    BY <1>1, <2>1 DEF lifeVars, LifeInv, LifeTypeOK, Stage
  <2>4. (Whole' <=> Whole) /\ (ClientsGone' <=> ClientsGone) /\ main' = main /\ broker' = broker
    BY <2>1 DEF lifeVars, adminVars, Whole, ClientsGone
  <2>5. LifeInv'
    BY <1>1, <2>3, <2>4 DEF LifeInv, ServingIsWhole, ClientsKeepItWhole
  <2> QED
    BY <2>1, <2>2, <2>5 DEF IInv
<1> QED
  BY <1>2, <1>3, <1>4, <1>5 DEF Next

LEMMA AlwaysIInv == Spec => []IInv
BY InitIInv, NextIInv, PTL DEF Spec

-----------------------------------------------------------------------------
(* What the invariant says of a file.                                      *)

LEMMA AcceptedFile ==
  ASSUME NEW f \in File, Errors(f) = {}
  PROVE  /\ \A l \in Secure \cap Enabled(f) : f.listeners[l].cert
         /\ Default(f.store, TRUE) => validateFilter(Topic(f))
<1> DEFINE bare == {l \in Secure \cap Enabled(f) : ~f.listeners[l].cert}
<1>1. f.readable /\ Enabled(f) # {} /\ bare = {}
  BY DEF Errors
<1>2. Default(f.store, TRUE) => validateFilter(Topic(f))
  BY <1>1 DEF Errors
<1> QED
  BY <1>1, <1>2

\* A topic that validateFilter lets pass is one that covers what it is about.
LEMMA ValidIsSensible ==
  ASSUME NEW f \in Seq(Level), validateFilter(f)
  PROVE  Sensible(f)
<1> USE WildcardsAssumption
<1> DEFINE e == Example(f)
<1>1. Len(f) \in Nat /\ DOMAIN f = 1 .. Len(f)
  OBVIOUS
<1>2. DOMAIN e = DOMAIN f /\ \A k \in DOMAIN f : e[k] = IF f[k] \in {"#", "+"} THEN "x" ELSE f[k]
  BY DEF Example
<1>3. e \in Seq(Level)
  <2>1. \A k \in 1 .. Len(f) : f[k] \in Level
    BY <1>1
  <2>2. e \in [1 .. Len(f) -> Level]
    BY <1>1, <2>1 DEF Example, Level
  <2> HIDE DEF e
  <2> QED
    BY <1>1, <2>2, SeqDef
<1>4. Len(e) = Len(f)
  BY <1>1, <1>2, <1>3
<1>5. F!WellFormed(f)
  BY DEF F!WellFormed, validateFilter
<1>6. \A k \in DOMAIN f : e[k] \notin WithHash \cup WithPlus
  BY <1>2 DEF validateFilter
<1> HIDE DEF e
<1>7. \A j \in DOMAIN f : f[j] # "#" => F!LevelCovers(f, e, j)
  BY <1>1, <1>2, <1>4, <1>6 DEF F!LevelCovers
<1>8. F!CoveredBy(f, e)
  <2>1. CASE \E k \in DOMAIN f : f[k] = "#"
    <3>1. PICK k \in DOMAIN f : f[k] = "#"
      BY <2>1
    <3>2. \A j \in 1 .. k - 1 : j \in DOMAIN f /\ f[j] # "#"
      BY <1>1, <1>5, <3>1 DEF F!WellFormed
    <3> QED
      BY <1>7, <3>1, <3>2 DEF F!CoveredBy
  <2>2. CASE \A k \in DOMAIN f : f[k] # "#"
    BY <1>4, <1>7, <2>2 DEF F!CoveredBy
  <2> QED
    BY <2>1, <2>2
<1> QED
  BY <1>5, <1>6, <1>8, <1>2 DEF Sensible, e

-----------------------------------------------------------------------------
\* The types of the state, for any files, browsers, clients and requests.
THEOREM TypeCorrect == Spec => []TypeOK
<1>1. IInv => TypeOK
  BY DEF IInv, LifeInv, AdminInv, TypeOK
<1> QED
  BY <1>1, AlwaysIInv, PTL

\* A client that is in has a whole broker before it (app.go:32-65).
THEOREM ServedWhole == Spec => []ServedByWhole
<1>1. IInv => ServedByWhole
  <2> SUFFICES ASSUME IInv, ~ClientsGone
      PROVE  /\ db = "open" /\ root
             /\ {"auth", "connections"} \subseteq hooks
             /\ "store" \in hooks <=> file.store # "off"
             /\ listeners = Asked(file)
             /\ \A l \in listeners \cap Secure : file.listeners[l].cert
             /\ "store" \in hooks => Sensible(config.topic)
    BY DEF ServedByWhole, ClientsGone
  <2>1. Whole
    BY DEF IInv, LifeInv, ClientsKeepItWhole
  <2>2. file \in File
    BY FilesAssumption DEF IInv, LifeInv, LifeTypeOK
  <2>3. file.store \in Switch /\ file.topic \in Seq(Level)
        /\ \A l \in Listener : file.listeners[l].enabled \in Switch
    BY <2>2 DEF File
  <2>4. Default(file.store, TRUE) <=> file.store # "off"
    BY <2>3 DEF Default, Switch
  <2>5. "store" \in hooks <=> Default(file.store, TRUE)
    BY <2>1 DEF Whole, HooksOf, Config
  <2>6. listeners = Asked(file)
    <3>1. \A l \in Listener :
            Default(file.listeners[l].enabled, l = "tcp")
            <=> file.listeners[l].enabled = "on" \/ (l = "tcp" /\ file.listeners[l].enabled = "unset")
      BY <2>3 DEF Default, Switch
    <3>2. Enabled(file) = Asked(file)
      BY <3>1 DEF Enabled, Asked
    <3> QED
      BY <2>1, <3>2 DEF Whole
  <2>7. \A l \in listeners \cap Secure : file.listeners[l].cert
    BY <2>1, <2>2, AcceptedFile DEF Whole
  <2>8. "store" \in hooks => validateFilter(Topic(file))
    BY <2>1, <2>2, <2>5, AcceptedFile DEF Whole
  <2>9. Topic(file) \in Seq(Level)
    <3>1. <<"#">> \in Seq(Level)
      BY WildcardsAssumption DEF Level
    <3> QED
      BY <2>3, <3>1 DEF Topic
  <2>10. config.topic = Topic(file)
    BY <2>1 DEF Whole, Config
  <2>11. "store" \in hooks => Sensible(config.topic)
    BY <2>8, <2>9, <2>10, ValidIsSensible
  <2>12. db = "open" /\ root /\ {"auth", "connections"} \subseteq hooks
    BY <2>1 DEF Whole, HooksOf
  <2> QED
    BY <2>4, <2>5, <2>6, <2>7, <2>11, <2>12
<1> QED
  BY <1>1, AlwaysIInv, PTL

\* Every live subscription is its own browser's and no other is left
\* (admin/server.go:93-111).
THEOREM SubscriptionsAreOwned == Spec => []SubscriptionsOwned
<1>1. IInv => SubscriptionsOwned
  <2> SUFFICES ASSUME IInv PROVE SubscriptionsOwned
    OBVIOUS
  <2> DEFINE live == {s \in Sockets : handler[s] \in {"replay", "reading"}}
  <2>1. \A s \in live : id[s] \in Id /\ inline[id[s]] = s /\ s # NoOne
    BY Names DEF IInv, AdminInv, AdminTypeOK, Numbers, Numbered, Callbacks, Live, Id
  <2>2. \A i \in Id : inline[i] # NoOne => inline[i] \in live
    BY DEF IInv, AdminInv, AdminTypeOK, Callbacks, Live
  <2>3. Subscribed = live
    BY <2>1, <2>2 DEF Subscribed
  <2> QED
    BY <2>1, <2>3 DEF SubscriptionsOwned
<1> QED
  BY <1>1, AlwaysIInv, PTL

=============================================================================
