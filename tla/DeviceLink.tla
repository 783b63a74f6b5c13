----------------------------- MODULE DeviceLink -----------------------------
(***************************************************************************)
(* The main goroutine of the device client and its link to the broker      *)
(* (mbot/main.go): the first connect, the callback that subscribes after   *)
(* every connect, the report on the host, the telemetry loop.              *)
(*                                                                         *)
(* The MQTT library is environment: with auto-reconnect it connects again  *)
(* after a loss, but not after a first connect that fails; it runs         *)
(* OnConnect on a new goroutine for each connection; with a clean session  *)
(* the broker forgets the subscription with the connection.  Commands that *)
(* arrive over the subscription are CommandRunner's.                       *)
(***************************************************************************)
EXTENDS HostInfo

CONSTANTS
  MaxEpochs, \* bound: connections made
  NoReport   \* nothing has been collected

Epoch == 1 .. MaxEpochs

ASSUME EpochsAssumption == MaxEpochs \in Nat \ {0}

VARIABLES
  main,       \* where main is
  reachable,  \* the broker accepts connections
  link,       \* the client's connection, as the library sees it
  epoch,      \* connections made so far
  hook,       \* hook[e]: the OnConnect goroutine of connection e
  via,        \* via[e]: the connection its SUBSCRIBE went out on, or 0
  subscribed, \* the broker holds the subscription of the current connection
  telemetry,  \* the latest publication: sent, or dropped for want of a link
  info        \* what CollectInstanceInfo has returned

linkVars == <<reachable, link, epoch, hook, via, subscribed>>
deviceVars == <<main, reachable, link, epoch, hook, via, subscribed, telemetry, info>>

DeviceTypeOK ==
  /\ main \in {"connect", "collect", "publish", "sleep", "ended"}
  /\ reachable \in BOOLEAN
  /\ link \in {"off", "up", "lost"}
  /\ epoch \in 0 .. MaxEpochs
  /\ hook \in [Epoch -> {"none", "started", "waiting", "granted", "refused", "failed"}]
  /\ via \in [Epoch -> 0 .. MaxEpochs]
  /\ subscribed \in BOOLEAN
  /\ telemetry \in {"none", "sent", "dropped"}
  /\ info = NoReport \/ info \in InstanceInfo

DeviceInit ==
  /\ main = "connect"
  /\ reachable \in BOOLEAN
  /\ link = "off"
  /\ epoch = 0
  /\ hook = [e \in Epoch |-> "none"]
  /\ via = [e \in Epoch |-> 0]
  /\ subscribed = FALSE
  /\ telemetry = "none"
  /\ info = NoReport

\* The library is connected and launches OnConnect.
Connected ==
  /\ link' = "up"
  /\ epoch' = epoch + 1
  /\ hook' = [hook EXCEPT ![epoch + 1] = "started"]
  /\ UNCHANGED <<reachable, via, subscribed>>

\* The goroutines that wait for an answer on the connection get an error.
WaitersFail ==
  hook' = [e \in Epoch |-> IF hook[e] = "waiting" THEN "failed" ELSE hook[e]]

-----------------------------------------------------------------------------
(* Plausible bugs, one per property: variants of the definitions below that *)
(* no definition of the model uses.                                         *)

\* The subscription is made once, after the first connect.
ReconnectWithoutCallback ==
  /\ link = "lost" /\ reachable
  /\ epoch < MaxEpochs
  /\ link' = "up"
  /\ epoch' = epoch + 1
  /\ UNCHANGED <<main, reachable, hook, via, subscribed, telemetry, info>>

\* The loop ends at a publication that was not sent.
PublishOrReturn ==
  /\ main = "publish"
  /\ telemetry' = IF link = "up" THEN "sent" ELSE "dropped"
  /\ main' = IF link = "up" THEN "sleep" ELSE "ended"
  /\ UNCHANGED <<linkVars, info>>

\* Auto-reconnect is off.
StayLost ==
  /\ link = "lost"
  /\ UNCHANGED deviceVars

-----------------------------------------------------------------------------
(* The link.                                                                *)

\* client.Connect returns; a failure is logged and main goes on.
ConnectFirst ==
  /\ main = "connect"
  /\ main' = "collect"
  /\ \/ reachable /\ Connected
     \/ ~reachable /\ UNCHANGED linkVars
  /\ UNCHANGED <<telemetry, info>>

\* OnConnectionLost only logs.
LoseLink ==
  /\ link = "up"
  /\ epoch < MaxEpochs
  /\ link' = "lost"
  /\ subscribed' = FALSE
  /\ WaitersFail
  /\ UNCHANGED <<main, reachable, epoch, via, telemetry, info>>

\* The broker goes away, and its connection with it, or comes back.
Reachability ==
  /\ reachable' = ~reachable
  /\ reachable => link # "up"
  /\ UNCHANGED <<main, link, epoch, hook, via, subscribed, telemetry, info>>

Reconnect ==
  /\ link = "lost" /\ reachable
  /\ epoch < MaxEpochs
  /\ Connected
  /\ UNCHANGED <<main, telemetry, info>>

\* OnConnect of connection e, which may not be the current one any more:
\* Subscribe fails at once without a connection.
Subscribe(e) ==
  /\ hook[e] = "started"
  /\ \/ /\ link = "up"
        /\ hook' = [hook EXCEPT ![e] = "waiting"]
        /\ via' = [via EXCEPT ![e] = epoch]
     \/ /\ link # "up"
        /\ hook' = [hook EXCEPT ![e] = "failed"]
        /\ UNCHANGED via
  /\ UNCHANGED <<main, reachable, link, epoch, subscribed, telemetry, info>>

\* token.Wait returns; an error is logged, nothing is tried again.
Subscribed(e) ==
  /\ hook[e] = "waiting"
  /\ \/ hook' = [hook EXCEPT ![e] = "granted"] /\ subscribed' = TRUE
     \/ hook' = [hook EXCEPT ![e] = "refused"] /\ UNCHANGED subscribed
  /\ UNCHANGED <<main, reachable, link, epoch, via, telemetry, info>>

-----------------------------------------------------------------------------
(* The main goroutine.                                                      *)

\* On a host that hangs the step never happens.
Collect ==
  /\ main = "collect"
  /\ \E h \in Hosts :
       /\ ~Panics(h) /\ ~Hangs(h)
       /\ info' = CollectInstanceInfo(h)
  /\ main' = "publish"
  /\ UNCHANGED <<linkVars, telemetry>>

\* The process ends, with its link and its goroutines.
Panic ==
  /\ main = "collect"
  /\ \E h \in Hosts : Panics(h)
  /\ main' = "ended"
  /\ link' = "off"
  /\ subscribed' = FALSE
  /\ hook' = [e \in Epoch |-> "none"]
  /\ UNCHANGED <<reachable, epoch, via, telemetry, info>>

\* A publication with QoS 0: without a connection its token completes at once
\* and it is forgotten.
PublishTelemetry ==
  /\ main = "publish"
  /\ telemetry' = IF link = "up" THEN "sent" ELSE "dropped"
  /\ main' = "sleep"
  /\ UNCHANGED <<linkVars, info>>

\* time.Sleep
Wake ==
  /\ main = "sleep"
  /\ main' = "publish"
  /\ UNCHANGED <<linkVars, telemetry, info>>

DeviceNext ==
  \/ ConnectFirst \/ LoseLink \/ Reachability \/ Reconnect
  \/ \E e \in Epoch : Subscribe(e) \/ Subscribed(e)
  \/ Collect \/ Panic \/ PublishTelemetry \/ Wake

DeviceSpec == DeviceInit /\ [][DeviceNext]_deviceVars

\* The goroutines run, the library goes on trying to reconnect, and a SUBSCRIBE
\* is answered or its connection lost.  Nothing is assumed of broker and network,
\* nor that the host answers every question.
FairDeviceSpec ==
  /\ DeviceSpec
  /\ WF_deviceVars(ConnectFirst) /\ WF_deviceVars(Reconnect)
  /\ WF_deviceVars(PublishTelemetry) /\ WF_deviceVars(Wake)
  /\ \A e \in Epoch : WF_deviceVars(Subscribe(e)) /\ WF_deviceVars(Subscribed(e))

\* The same, and the host answers every question but, perhaps, the request for
\* its public address.
AnsweringDeviceSpec == FairDeviceSpec /\ WF_deviceVars(Collect)

-----------------------------------------------------------------------------
RefusedOn(n) == \E e \in Epoch : via[e] = n /\ hook[e] = "refused"

\* A connected device hears no commands only while an OnConnect goroutine is
\* still at it, or because the broker refused: whichever goroutine was left
\* over from an earlier connection (main.go:46-52).
DeafOnlyIfRefused ==
  /\ link = "up" /\ \A e \in Epoch : hook[e] \notin {"started", "waiting"}
  => subscribed \/ RefusedOn(epoch)

\* Automatic reconnect and subscription: if the broker stays reachable, a
\* device that was connected once is connected and subscribed again, unless
\* refused (main.go:43-52; README.md:31).
BackInService ==
  <>[]reachable =>
    [](link # "off" => <>(\/ main = "ended"
                          \/ link = "up" /\ (subscribed \/ RefusedOn(epoch))))

\* Telemetry gets through again after every loss: once the loop is reached and
\* the link stays, publications arrive for good (main.go:71-85).
TelemetryResumes ==
  <>[](link = "up") /\ <>(main = "publish") => <>[](telemetry = "sent")

\* The private addresses of a report are those of the interfaces it lists, in
\* all the ranges of RFC 1918, each once, and an interface is called private
\* for nothing else (util.go:173-252).
InRFC1918(ip) ==
  LET n == ip[1] * 256 + ip[2]
  IN \/ n >= 10 * 256 /\ n < 11 * 256
     \/ n >= 172 * 256 + 16 /\ n < 172 * 256 + 32
     \/ n = 192 * 256 + 168

AddressesAgree ==
  info # NoReport =>
    LET net == info.network
        listed == UNION {ToSet(net.interfaces[k].ips) : k \in DOMAIN net.interfaces}
    IN /\ ToSet(net.privateIPs) = {ip \in listed : InRFC1918(ip)}
       /\ IsInjective(net.privateIPs) /\ IsInjective(net.subnets)
       /\ \A k \in DOMAIN net.interfaces :
            net.interfaces[k].private <=> \E ip \in ToSet(net.interfaces[k].ips) : InRFC1918(ip)

\* What the hosts call themselves: their ids, with the uuid they know or "".
Identities ==
  {<<GenerateServerID(getCPU(h), getHardware(h), h.hostname), getHardware(h)["uuid"]>> :
     h \in {g \in Hosts : ~Panics(g)}}

\* The id tells machines apart: hosts that know their uuid and have one id have
\* one uuid, whatever else of them is known or could be read (util.go:447-476).
IdTellsMachine ==
  info # NoReport =>
    \A i \in Identities :
      /\ i[1] = info.id
      /\ i[2] # "" /\ info.hardware["uuid"] # ""
      => i[2] = info.hardware["uuid"]

\* The device connects by itself (README.md:31).
ConnectsByItself == <>[]reachable => <>(link = "up")

\* The request for the public address does not keep the client from its work
\* (README.md:223).  Of a request that is never answered this does not hold:
\* http.Get has no deadline and comes before the telemetry loop (util.go:268).
PublicAddressOptional == main = "collect" ~> main \in {"publish", "ended"}

\* Service resumes after every loss, for commands as well as for telemetry
\* (main.go:43-85; README.md:31).
ServiceResumes == BackInService /\ TelemetryResumes

=============================================================================
