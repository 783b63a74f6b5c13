---------------------------- MODULE DeviceProofs ----------------------------
(***************************************************************************)
(* The device client: what the answers to its commands tell, for any       *)
(* number of commands and any amount of output, and when it hears commands *)
(* at all, for any number of connections and any set of hosts.             *)
(***************************************************************************)
EXTENDS CommandRunner, DeviceLink, WellFoundedInduction, TLAPS

-----------------------------------------------------------------------------
(* The commands (CommandRunner).                                            *)

(* A command whose turn has not come has left no trace.                    *)
Fresh ==
  \A n \in Run : n > cur \/ (n = cur /\ handler = "start") =>
    waiter[n] = "none" /\ answer[n] = NoAnswer

(* Once cmd.Wait has returned nothing of the command changes any more.     *)
OverWhenSent == \A n \in Run : waiter[n] \in {"sending", "gone"} => Over(n)

DoneReceived == handler = "done" => waiter[cur] = "gone"

ShellGone == handler \in {"done", "killed"} => bash[cur] # "running"

(* An answer without a kill was published after the send on done.          *)
UnkilledReceived ==
  \A n \in Run : Answered(n) /\ ~answer[n].killed => waiter[n] = "gone"

IInv ==
  /\ TypeOK /\ Fresh /\ OverWhenSent /\ DoneReceived /\ ShellGone
  /\ UnkilledReceived /\ AnswerWhole /\ ShellEnds

-----------------------------------------------------------------------------
LEMMA InitIInv == Init => IInv
<1> SUFFICES ASSUME Init PROVE IInv
  OBVIOUS
<1>1. Silence \in Output
  BY BoundsAssumption DEF Silence, Output
<1>2. TypeOK
  BY <1>1, BoundsAssumption DEF Init, TypeOK
<1>3. handler = "idle" /\ \A n \in Run : waiter[n] = "none" /\ answer[n] = NoAnswer
  BY DEF Init
<1> QED
  BY <1>2, <1>3 DEF IInv, Fresh, OverWhenSent, DoneReceived, ShellGone, UnkilledReceived,
     AnswerWhole, ShellEnds, Answered

\* One more piece on one stream of one command.
LEMMA OneMore ==
  ASSUME NEW f \in [Run -> Output], NEW n \in Run, NEW s \in Stream, f[n][s] < MaxOutput
  PROVE  [f EXCEPT ![n][s] = @ + 1] \in [Run -> Output]
<1> DEFINE o == [f[n] EXCEPT ![s] = f[n][s] + 1]
<1>1. f[n] \in Output /\ f[n][s] \in 0 .. MaxOutput
  BY DEF Output
<1>2. f[n][s] + 1 \in 0 .. MaxOutput
  BY <1>1, BoundsAssumption
<1>3. o \in Output
  BY <1>1, <1>2 DEF Output
<1> HIDE DEF o
<1>4. \A x \in Output : [f EXCEPT ![n] = x] \in [Run -> Output]
  OBVIOUS
<1>5. [f EXCEPT ![n] = o] \in [Run -> Output]
  BY <1>3, <1>4
<1>6. [f EXCEPT ![n][s] = @ + 1] = [f EXCEPT ![n] = o]
  BY DEF o
<1> QED
  BY <1>5, <1>6

\* A step of the processes of command m, which is not over.
LEMMA ProcessStep ==
  ASSUME IInv, NEW m \in Run, ~Over(m),
         UNCHANGED <<cur, handler, waiter, answer>>, TypeOK',
         \A n \in Run \ {m} :
           bash'[n] = bash[n] /\ child'[n] = child[n]
           /\ written'[n] = written[n] /\ copied'[n] = copied[n],
         bash'[m] = "running" => bash[m] = "running"
  PROVE  IInv'
<1>1. waiter[m] \notin {"sending", "gone"}
  BY DEF IInv, OverWhenSent
<1>2. Fresh' /\ DoneReceived' /\ UnkilledReceived'
  BY DEF IInv, Fresh, DoneReceived, UnkilledReceived, Answered
<1>3. OverWhenSent'
  BY <1>1 DEF IInv, OverWhenSent, Over
<1>4. ShellGone' /\ ShellEnds'
  BY DEF IInv, ShellGone, ShellEnds, Answered, TypeOK
<1>5. AnswerWhole'
  <2> SUFFICES ASSUME NEW n \in Run, Answered(n), ~answer[n].killed
      PROVE  /\ answer[n].stream = Chosen(written[n]')
             /\ answer[n].size = written[n]'[Chosen(written[n]')]
    BY DEF AnswerWhole, Answered, Chosen
  <2>1. n # m
    BY <1>1 DEF IInv, UnkilledReceived
  <2>2. written'[n] = written[n]
    BY <2>1
  <2> QED
    BY <2>2 DEF IInv, AnswerWhole, Chosen
<1> QED
  BY <1>2, <1>3, <1>4, <1>5 DEF IInv

LEMMA ProcessesStep ==
  ASSUME IInv, Processes
  PROVE  IInv'
<1> PICK n \in Run :
      Spawn(n) \/ BashExits(n) \/ ChildExits(n) \/ (\E s \in Stream : Write(n, s) \/ Copy(n, s))
  BY DEF Processes
<1>0. TypeOK
  BY DEF IInv
<1>1. CASE Spawn(n)
  <2>1. ~Over(n)
    BY <1>1 DEF Spawn, Over
  <2>2. TypeOK'
    BY <1>0, <1>1 DEF Spawn, TypeOK
  <2> QED
    BY <1>0, <1>1, <2>1, <2>2, ProcessStep DEF Spawn, TypeOK
<1>2. CASE BashExits(n)
  <2>1. ~Over(n)
    BY <1>2 DEF BashExits, Over
  <2>2. TypeOK'
    BY <1>0, <1>2 DEF BashExits, TypeOK
  <2> QED
    BY <1>0, <1>2, <2>1, <2>2, ProcessStep DEF BashExits, TypeOK
<1>3. CASE ChildExits(n)
  <2>1. TypeOK'
    BY <1>0, <1>3 DEF ChildExits, TypeOK
  <2>2. Fresh' /\ DoneReceived' /\ UnkilledReceived' /\ ShellGone' /\ ShellEnds' /\ AnswerWhole'
    BY <1>3 DEF ChildExits, IInv, Fresh, DoneReceived, UnkilledReceived, Answered, ShellGone,
                ShellEnds, AnswerWhole
  <2>3. OverWhenSent'
    BY <1>0, <1>3 DEF ChildExits, IInv, OverWhenSent, Over, TypeOK
  <2> QED
    BY <2>1, <2>2, <2>3 DEF IInv
<1>4. ASSUME NEW s \in Stream, Write(n, s) PROVE IInv'
  <2>1. ~Over(n)
    BY <1>4 DEF Write, Over
  <2>2. written' \in [Run -> Output]
    BY <1>0, <1>4, OneMore DEF Write, TypeOK
  <2>3. TypeOK'
    BY <1>0, <1>4, <2>2 DEF Write, TypeOK
  <2> QED
    BY <1>0, <1>4, <2>1, <2>3, ProcessStep DEF Write, TypeOK
<1>5. ASSUME NEW s \in Stream, Copy(n, s) PROVE IInv'
  <2>1. /\ written[n][s] \in 0 .. MaxOutput /\ copied[n][s] \in 0 .. MaxOutput
        /\ copied[n][s] < written[n][s]
    BY <1>0, <1>5 DEF Copy, TypeOK, Output
  <2>2. ~Over(n) /\ copied[n][s] < MaxOutput
    BY <2>1, BoundsAssumption DEF Over
  <2>3. copied' \in [Run -> Output]
    BY <1>0, <1>5, <2>2, OneMore DEF Copy, TypeOK
  <2>4. TypeOK'
    BY <1>0, <1>5, <2>3 DEF Copy, TypeOK
  <2> QED
    BY <1>0, <1>5, <2>2, <2>4, ProcessStep DEF Copy, TypeOK
<1> QED
  BY <1>1, <1>2, <1>3, <1>4, <1>5

LEMMA ReceiveStep ==
  ASSUME IInv, Receive \/ Ignore
  PROVE  IInv'
<1>1. /\ handler = "idle" /\ cur < MaxCommands /\ cur' = cur + 1
      /\ handler' \in {"idle", "start"}
      /\ UNCHANGED <<bash, child, written, copied, waiter, answer>>
  BY DEF Receive, Ignore
<1>2. cur \in 0 .. MaxCommands /\ cur' \in Run
  BY <1>1, BoundsAssumption DEF IInv, TypeOK, Run
<1>3. TypeOK'
  BY <1>1, <1>2, BoundsAssumption DEF IInv, TypeOK, Run
<1>4. Fresh'
  BY <1>1, <1>2, BoundsAssumption DEF IInv, Fresh, Run
<1>5. OverWhenSent' /\ DoneReceived' /\ ShellGone' /\ UnkilledReceived' /\ AnswerWhole' /\ ShellEnds'
  BY <1>1 DEF IInv, OverWhenSent, Over, DoneReceived, ShellGone, UnkilledReceived, AnswerWhole,
              ShellEnds, Answered
<1> QED
  BY <1>3, <1>4, <1>5 DEF IInv

LEMMA StartStep ==
  ASSUME IInv, Start
  PROVE  IInv'
<1>1. /\ cur \in Run /\ waiter[cur] = "none" /\ answer[cur] = NoAnswer /\ TypeOK
  BY DEF IInv, TypeOK, Fresh, Start
<1>2. PICK p \in {"running", "failed"} : bash' = [bash EXCEPT ![cur] = p]
  BY DEF Start
<1>3. /\ waiter' = [waiter EXCEPT ![cur] = "waiting"] /\ handler' = "select"
      /\ UNCHANGED <<cur, child, written, copied, answer>>
  BY DEF Start
<1>4. TypeOK'
  BY <1>1, <1>2, <1>3 DEF TypeOK
<1>5. \A n \in Run \ {cur} : bash'[n] = bash[n] /\ waiter'[n] = waiter[n]
  BY <1>1, <1>2, <1>3 DEF TypeOK
<1>6. waiter'[cur] = "waiting"
  BY <1>1, <1>3 DEF TypeOK
<1>7. Fresh'
  BY <1>1, <1>3, <1>5, BoundsAssumption DEF IInv, Fresh, Run
<1>8. OverWhenSent'
  BY <1>3, <1>5, <1>6 DEF IInv, OverWhenSent, Over
<1>9. DoneReceived' /\ ShellGone'
  BY <1>3 DEF DoneReceived, ShellGone
<1>10. UnkilledReceived' /\ ShellEnds'
  BY <1>1, <1>3, <1>5 DEF IInv, UnkilledReceived, ShellEnds, Answered
<1>11. AnswerWhole'
  BY <1>3 DEF IInv, AnswerWhole, Answered
<1> QED
  BY <1>4, <1>7, <1>8, <1>9, <1>10, <1>11 DEF IInv

LEMMA WaitReturnsStep ==
  ASSUME IInv, NEW m \in Run, WaitReturns(m)
  PROVE  IInv'
<1>1. /\ waiter[m] = "waiting" /\ Over(m) /\ waiter' = [waiter EXCEPT ![m] = "sending"]
      /\ UNCHANGED <<cur, handler, bash, child, written, copied, answer>>
  BY DEF WaitReturns
<1>2. TypeOK'
  BY <1>1 DEF IInv, TypeOK
<1>3. waiter'[m] = "sending" /\ \A n \in Run \ {m} : waiter'[n] = waiter[n]
  BY <1>1 DEF IInv, TypeOK
<1>4. Fresh' /\ OverWhenSent'
  BY <1>1, <1>3 DEF IInv, Fresh, OverWhenSent, Over
<1>5. DoneReceived' /\ UnkilledReceived'
  BY <1>1, <1>3 DEF IInv, TypeOK, DoneReceived, UnkilledReceived, Answered
<1>6. ShellGone' /\ AnswerWhole' /\ ShellEnds'
  BY <1>1 DEF IInv, ShellGone, AnswerWhole, ShellEnds, Answered
<1> QED
  BY <1>2, <1>4, <1>5, <1>6 DEF IInv

LEMMA DoneStep ==
  ASSUME IInv, Done
  PROVE  IInv'
<1>1. /\ handler = "select" /\ waiter[cur] = "sending" /\ handler' = "done"
      /\ waiter' = [waiter EXCEPT ![cur] = "gone"] /\ cur \in Run
      /\ UNCHANGED <<cur, bash, child, written, copied, answer>>
  BY DEF Done, IInv, TypeOK
<1>2. TypeOK'
  BY <1>1 DEF IInv, TypeOK
<1>3. waiter'[cur] = "gone" /\ \A n \in Run \ {cur} : waiter'[n] = waiter[n]
  BY <1>1 DEF IInv, TypeOK
<1>4. Over(cur)
  BY <1>1 DEF IInv, OverWhenSent
<1>5. Fresh'
  BY <1>1, <1>3, BoundsAssumption DEF IInv, Fresh, Run
<1>6. OverWhenSent' /\ DoneReceived' /\ ShellGone'
  BY <1>1, <1>3, <1>4 DEF IInv, OverWhenSent, Over, DoneReceived, ShellGone
<1>7. UnkilledReceived' /\ AnswerWhole' /\ ShellEnds'
  BY <1>1, <1>3 DEF IInv, UnkilledReceived, AnswerWhole, ShellEnds, Answered
<1> QED
  BY <1>2, <1>5, <1>6, <1>7 DEF IInv

LEMMA TimeoutStep ==
  ASSUME IInv, Timeout
  PROVE  IInv'
BY DEF Timeout, IInv, TypeOK, Fresh, OverWhenSent, Over, DoneReceived, ShellGone,
       UnkilledReceived, AnswerWhole, ShellEnds, Answered

LEMMA KillStep ==
  ASSUME IInv, Kill
  PROVE  IInv'
<1>1. /\ handler = "interrupted" /\ handler' = "killed" /\ cur \in Run
      /\ bash' = [bash EXCEPT ![cur] = "exited"]
      /\ UNCHANGED <<cur, child, written, copied, waiter, answer>>
  BY DEF Kill, IInv, TypeOK
<1>2. TypeOK'
  BY <1>1 DEF IInv, TypeOK
<1>3. bash'[cur] = "exited" /\ \A n \in Run \ {cur} : bash'[n] = bash[n]
  BY <1>1 DEF IInv, TypeOK
<1>4. OverWhenSent' /\ ShellGone' /\ ShellEnds'
  BY <1>1, <1>3 DEF IInv, OverWhenSent, Over, ShellGone, ShellEnds, Answered
<1>5. Fresh' /\ DoneReceived' /\ UnkilledReceived' /\ AnswerWhole'
  BY <1>1 DEF IInv, Fresh, DoneReceived, UnkilledReceived, AnswerWhole, Answered
<1> QED
  BY <1>2, <1>4, <1>5 DEF IInv

LEMMA PublishStep ==
  ASSUME IInv, Publish
  PROVE  IInv'
<1>1. /\ handler \in {"done", "killed"} /\ handler' = "idle" /\ cur \in Run
      /\ UNCHANGED <<cur, bash, child, written, copied, waiter>>
  BY DEF Publish, IInv, TypeOK
<1>2. PICK o \in Readable :
        answer' = [answer EXCEPT ![cur] =
          [killed |-> handler = "killed", stream |-> Chosen(o), size |-> o[Chosen(o)]]]
  BY DEF Publish
<1> DEFINE a == [killed |-> handler = "killed", stream |-> Chosen(o), size |-> o[Chosen(o)]]
<1>3. o \in Output /\ Chosen(o) \in Stream
  BY <1>1, <1>2 DEF Readable, IInv, TypeOK, Chosen, Stream
<1>4. a \in Answer /\ a.killed = (handler = "killed") /\ a.stream = Chosen(o) /\ a.size = o[Chosen(o)]
  BY <1>3 DEF Answer, Output
<1> HIDE DEF a
<1>5. answer' = [answer EXCEPT ![cur] = a]
  BY <1>2 DEF a
<1>6. answer'[cur] = a /\ \A n \in Run \ {cur} : answer'[n] = answer[n]
  BY <1>1, <1>5 DEF IInv, TypeOK
<1>7. TypeOK'
  BY <1>1, <1>4, <1>5 DEF IInv, TypeOK
<1>8. Fresh'
  BY <1>1, <1>6, BoundsAssumption DEF IInv, Fresh, Run
<1>9. OverWhenSent' /\ DoneReceived' /\ ShellGone'
  BY <1>1 DEF IInv, OverWhenSent, Over, DoneReceived, ShellGone
<1>10. UnkilledReceived'
  BY <1>1, <1>4, <1>6 DEF IInv, UnkilledReceived, DoneReceived, Answered
<1>11. ShellEnds'
  BY <1>1, <1>6 DEF IInv, ShellEnds, ShellGone, Answered
<1>12. AnswerWhole'
  <2>1. CASE handler = "done"
    <3>1. o = written[cur]
      BY <1>1, <1>2, <2>1 DEF Readable, IInv, DoneReceived, OverWhenSent, Over
    <3> QED
      BY <1>1, <1>4, <1>6, <3>1 DEF IInv, AnswerWhole, Answered
  <2>2. CASE handler = "killed"
    BY <1>1, <1>4, <1>6, <2>2 DEF IInv, AnswerWhole, Answered
  <2> QED
    BY <1>1, <2>1, <2>2
<1> QED
  BY <1>7, <1>8, <1>9, <1>10, <1>11, <1>12 DEF IInv

LEMMA NextIInv == IInv /\ [Next]_vars => IInv'
<1> SUFFICES ASSUME IInv, [Next]_vars PROVE IInv'
  OBVIOUS
<1>1. CASE UNCHANGED vars
  BY <1>1 DEF vars, IInv, TypeOK, Fresh, OverWhenSent, Over, DoneReceived, ShellGone,
              UnkilledReceived, AnswerWhole, ShellEnds, Answered
<1> QED
  BY <1>1, ProcessesStep, ReceiveStep, StartStep, DoneStep, TimeoutStep, KillStep, PublishStep,
     WaitReturnsStep DEF Next, RunCommand

LEMMA IInvHolds == Spec => []IInv
BY InitIInv, NextIInv, PTL DEF Spec

-----------------------------------------------------------------------------
\* Types of the handler, the processes and the goroutines.
THEOREM TypeCorrect == Spec => []TypeOK
<1>1. IInv => TypeOK
  BY DEF IInv
<1> QED
  BY <1>1, IInvHolds, PTL

\* An answer without a kill is the whole output, for any number of commands
\* (main.go:141, 150).
THEOREM AnswersAreWhole == Spec => []AnswerWhole
<1>1. IInv => AnswerWhole
  BY DEF IInv
<1> QED
  BY <1>1, IInvHolds, PTL

\* No shell outlives its answer (main.go:146-148).
THEOREM ShellsEnd == Spec => []ShellEnds
<1>1. IInv => ShellEnds
  BY DEF IInv
<1> QED
  BY <1>1, IInvHolds, PTL

\* Only a command that was timed out can leave its goroutine behind
\* (main.go:139-152).
THEOREM OnlyKillsLeak == Spec => []StragglersOnlyAfterKill
<1>1. IInv => StragglersOnlyAfterKill
  BY DEF IInv, UnkilledReceived, StragglersOnlyAfterKill
<1> QED
  BY <1>1, IInvHolds, PTL

\* Both together: nothing of an answered command is left but what a kill has
\* cut loose (main.go:139-152).
THEOREM NothingLeft == Spec => []NoLeftovers
BY ShellsEnd, OnlyKillsLeak, PTL DEF NoLeftovers

-----------------------------------------------------------------------------
(* The link (DeviceLink).                                                   *)

ControlTyped ==
  /\ link \in {"off", "up", "lost"}
  /\ epoch \in 0 .. MaxEpochs
  /\ hook \in [Epoch -> {"none", "started", "waiting", "granted", "refused", "failed"}]
  /\ via \in [Epoch -> 0 .. MaxEpochs]
  /\ subscribed \in BOOLEAN

BeforeConnect == main = "connect" => link = "off" /\ epoch = 0

ConnectedOnce == link # "off" => epoch > 0

(* A SUBSCRIBE that waits went out on the connection that is up, whichever  *)
(* connection its goroutine was started for.                                *)
WaitsOnCurrent == \A e \in Epoch : hook[e] = "waiting" => link = "up" /\ via[e] = epoch

(* The goroutine of the current connection has not failed: it is at work,   *)
(* has been granted its subscription or refused it on this connection.      *)
OwnGoroutine ==
  link = "up" =>
    \/ hook[epoch] \in {"started", "waiting"}
    \/ hook[epoch] = "granted" /\ subscribed
    \/ hook[epoch] = "refused" /\ via[epoch] = epoch

LinkInv == ControlTyped /\ BeforeConnect /\ ConnectedOnce /\ WaitsOnCurrent /\ OwnGoroutine

LEMMA InitLinkInv == DeviceInit => LinkInv
<1> SUFFICES ASSUME DeviceInit PROVE LinkInv
  OBVIOUS
<1>1. ControlTyped
  <2>1. 0 \in 0 .. MaxEpochs
    BY EpochsAssumption
  <2> QED
    BY <2>1 DEF DeviceInit, ControlTyped
<1>2. \A e \in Epoch : hook[e] # "waiting"
  BY DEF DeviceInit
<1> QED
  BY <1>1, <1>2
  DEF DeviceInit, LinkInv, BeforeConnect, ConnectedOnce, WaitsOnCurrent, OwnGoroutine

(* The library is connected: the new goroutine is at work, and none waits.  *)
LEMMA ConnectedKeepsLinkInv ==
  ASSUME LinkInv, link # "up", epoch < MaxEpochs, Connected, main' # "connect"
  PROVE  LinkInv'
<1>1. epoch \in Nat /\ MaxEpochs \in Nat /\ epoch + 1 \in Epoch
  BY EpochsAssumption DEF LinkInv, ControlTyped, Epoch
<1>2. hook'[epoch + 1] = "started"
  BY <1>1 DEF LinkInv, ControlTyped, Connected
<1>3. \A e \in Epoch : hook'[e] # "waiting"
  BY <1>1 DEF LinkInv, ControlTyped, WaitsOnCurrent, Connected
<1>4. ControlTyped'
  BY <1>1 DEF LinkInv, ControlTyped, Connected, Epoch
<1> QED
  BY <1>1, <1>2, <1>3, <1>4
  DEF LinkInv, BeforeConnect, ConnectedOnce, WaitsOnCurrent, OwnGoroutine, Connected

LEMMA LoseLinkKeepsLinkInv == LinkInv /\ LoseLink => LinkInv'
<1> SUFFICES ASSUME LinkInv, LoseLink PROVE LinkInv'
  OBVIOUS
<1>1. hook' \in [Epoch -> {"none", "started", "waiting", "granted", "refused", "failed"}]
      /\ \A e \in Epoch : hook'[e] # "waiting"
  BY DEF LinkInv, ControlTyped, LoseLink, WaitersFail
<1> QED
  BY <1>1
  DEF LinkInv, ControlTyped, BeforeConnect, ConnectedOnce, WaitsOnCurrent, OwnGoroutine, LoseLink

(* A goroutine left over from an earlier connection subscribes on this one. *)
LEMMA SubscribeKeepsLinkInv ==
  ASSUME LinkInv, NEW e \in Epoch, Subscribe(e)
  PROVE  LinkInv'
<1>1. link # "off" => epoch \in Epoch
  BY EpochsAssumption DEF LinkInv, ControlTyped, ConnectedOnce, Epoch
<1>2. CASE link = "up"
  BY <1>1, <1>2
  DEF LinkInv, ControlTyped, BeforeConnect, ConnectedOnce, WaitsOnCurrent, OwnGoroutine, Subscribe
<1>3. CASE link # "up"
  BY <1>3
  DEF LinkInv, ControlTyped, BeforeConnect, ConnectedOnce, WaitsOnCurrent, OwnGoroutine, Subscribe
<1> QED
  BY <1>2, <1>3

(* An answer to it reaches the connection that is up.                       *)
LEMMA SubscribedKeepsLinkInv ==
  ASSUME LinkInv, NEW e \in Epoch, Subscribed(e)
  PROVE  LinkInv'
<1>1. link = "up" /\ via[e] = epoch /\ epoch \in Epoch
  BY EpochsAssumption DEF LinkInv, ControlTyped, ConnectedOnce, WaitsOnCurrent, Subscribed, Epoch
<1> QED
  BY <1>1
  DEF LinkInv, ControlTyped, BeforeConnect, ConnectedOnce, WaitsOnCurrent, OwnGoroutine, Subscribed

LEMMA StepKeepsLinkInv == LinkInv /\ [DeviceNext]_deviceVars => LinkInv'
<1> SUFFICES ASSUME LinkInv, [DeviceNext]_deviceVars PROVE LinkInv'
  OBVIOUS
<1> USE DEF LinkInv, ControlTyped, BeforeConnect, ConnectedOnce, WaitsOnCurrent, OwnGoroutine
<1>1. CASE ConnectFirst
  <2>1. link = "off" /\ epoch = 0 /\ epoch < MaxEpochs
    BY <1>1, EpochsAssumption DEF ConnectFirst
  <2>2. CASE Connected
    BY <1>1, <2>1, <2>2, ConnectedKeepsLinkInv DEF ConnectFirst
  <2>3. CASE UNCHANGED linkVars
    BY <1>1, <2>3 DEF ConnectFirst, linkVars
  <2> QED
    BY <1>1, <2>2, <2>3 DEF ConnectFirst
<1>2. CASE LoseLink
  BY <1>2, LoseLinkKeepsLinkInv
<1>3. CASE Reachability
  BY <1>3 DEF Reachability
<1>4. CASE Reconnect
  BY <1>4, ConnectedKeepsLinkInv DEF Reconnect
<1>5. ASSUME NEW e \in Epoch, Subscribe(e) \/ Subscribed(e) PROVE LinkInv'
  BY <1>5, SubscribeKeepsLinkInv, SubscribedKeepsLinkInv
<1>6. CASE Collect
  BY <1>6 DEF Collect, linkVars
<1>7. CASE Panic
  BY <1>7 DEF Panic
<1>8. CASE PublishTelemetry
  BY <1>8 DEF PublishTelemetry, linkVars
<1>9. CASE Wake
  BY <1>9 DEF Wake, linkVars
<1>10. CASE UNCHANGED deviceVars
  BY <1>10 DEF deviceVars
<1> QED
  BY <1>1, <1>2, <1>3, <1>4, <1>5, <1>6, <1>7, <1>8, <1>9, <1>10 DEF DeviceNext

(* A connected device hears no commands only while a goroutine is still at  *)
(* it or because the broker refused (main.go:46-52), for any number of      *)
(* connections.                                                             *)
THEOREM DeafnessExplained == DeviceSpec => []DeafOnlyIfRefused
<1>1. LinkInv => DeafOnlyIfRefused
  <2> SUFFICES ASSUME LinkInv, link = "up",
                      \A e \in Epoch : hook[e] \notin {"started", "waiting"}
               PROVE  subscribed \/ RefusedOn(epoch)
    BY DEF DeafOnlyIfRefused
  <2>1. epoch \in Epoch
    BY EpochsAssumption DEF LinkInv, ControlTyped, ConnectedOnce, Epoch
  <2> QED
    BY <2>1 DEF LinkInv, OwnGoroutine, RefusedOn
<1> QED
  BY <1>1, InitLinkInv, StepKeepsLinkInv, PTL DEF DeviceSpec

-----------------------------------------------------------------------------
(* The report (HostInfo).                                                   *)

(* The masks of isPrivateIP are the three ranges of RFC 1918, for all 2^32  *)
(* addresses; that it asks for loopback and link-local first changes        *)
(* nothing (util.go:317-336).                                               *)
THEOREM PrivateIsRFC1918 == \A ip \in IP : isPrivateIP(ip) <=> InRFC1918(ip)
<1> SUFFICES ASSUME NEW ip \in IP PROVE isPrivateIP(ip) <=> InRFC1918(ip)
  OBVIOUS
<1>1. ip[1] \in 0 .. 255 /\ ip[2] \in 0 .. 255
  BY DEF IP
<1> DEFINE a1 == ip[1]
           b1 == ip[2]
<1> HIDE DEF a1, b1
<1>2. ASSUME NEW b \in 0 .. 255
      PROVE  b \div 16 = 1 <=> b >= 16 /\ b < 32
  OBVIOUS
<1>3. ASSUME NEW a \in 0 .. 255, NEW b \in 0 .. 255
      PROVE  /\ a = 10 <=> a * 256 + b >= 10 * 256 /\ a * 256 + b < 11 * 256
             /\ a = 172 /\ b >= 16 /\ b < 32 <=>
                  a * 256 + b >= 172 * 256 + 16 /\ a * 256 + b < 172 * 256 + 32
             /\ a = 192 /\ b = 168 <=> a * 256 + b = 192 * 256 + 168
  OBVIOUS
<1>4. a1 \in 0 .. 255 /\ b1 \in 0 .. 255
  BY <1>1 DEF a1, b1
<1>5. b1 \div 16 = 1 <=> b1 >= 16 /\ b1 < 32
  BY <1>2, <1>4
<1>6. isPrivateIP(ip) <=>
        a1 = 10 \/ (a1 = 172 /\ b1 >= 16 /\ b1 < 32) \/ (a1 = 192 /\ b1 = 168)
  BY <1>4, <1>5 DEF isPrivateIP, isLoopback, isLinkLocal, a1, b1
<1>7. InRFC1918(ip) <=>
        LET n == a1 * 256 + b1
        IN \/ n >= 10 * 256 /\ n < 11 * 256
           \/ n >= 172 * 256 + 16 /\ n < 172 * 256 + 32
           \/ n = 192 * 256 + 168
  BY DEF InRFC1918, a1, b1
<1> QED
  BY <1>3, <1>4, <1>6, <1>7

(* Induction over the indices of a sequence, by the least counterexample.   *)
LEMMA NatLeast ==
  ASSUME NEW T, T \subseteq Nat, T # {}
  PROVE  \E x \in T : \A y \in T : x <= y
<1> DEFINE R == {ss \in Nat \X Nat : ss[1] < ss[2]}
<1>1. IsWellFoundedOn(R, Nat)
  BY NatLessThanWellFounded, Zenon DEF OpToRel
<1>2. \A x, y \in Nat : <<y, x>> \in R <=> y < x
  OBVIOUS
<1> HIDE DEF R
<1>3. PICK x \in T : \A y \in T : ~(<<y, x>> \in R)
  BY <1>1, WFMin
<1>4. \A y \in T : x \in Nat /\ y \in Nat /\ ~(y < x)
  BY <1>2, <1>3
<1> QED
  BY <1>4

LEMMA UpTo ==
  ASSUME NEW last \in Nat, NEW S, \A i \in 1 .. last : (i > 1 => i - 1 \in S) => i \in S
  PROVE  \A i \in 1 .. last : i \in S
<1> SUFFICES ASSUME NEW i0 \in 1 .. last, i0 \notin S PROVE FALSE
  OBVIOUS
<1> DEFINE T == {i \in 1 .. last : i \notin S}
<1>1. T \subseteq Nat /\ T # {}
  OBVIOUS
<1>2. PICK x \in T : \A y \in T : x <= y
  BY <1>1, NatLeast
<1>3. x \in 1 .. last /\ x > 1 /\ x - 1 \notin S
  OBVIOUS
<1>4. x - 1 \in T
  BY <1>3
<1> QED
  BY <1>2, <1>3, <1>4

(* The recursive function in FlattenSeq exists.                             *)
LEMMA FlattenStep ==
  ASSUME NEW ss, Len(ss) \in Nat, Len(ss) # 0
  PROVE  \E flat :
           /\ flat = [i \in 1 .. Len(ss) |-> IF i = 1 THEN ss[i] ELSE flat[i - 1] \o ss[i]]
           /\ FlattenSeq(ss) = flat[Len(ss)]
<1> DEFINE Flat(g, n) == g = [i \in 1 .. n |-> IF i = 1 THEN ss[i] ELSE g[i - 1] \o ss[i]]
           S == {n \in 1 .. Len(ss) : \E g : Flat(g, n)}
<1>1. ASSUME NEW n \in 1 .. Len(ss), n > 1 => n - 1 \in S PROVE n \in S
  <2>1. CASE n = 1
    <3>1. Flat([i \in 1 .. 1 |-> ss[i]], 1)
      OBVIOUS
    <3> QED
      BY <2>1, <3>1
  <2>2. CASE n > 1
    <3>1. PICK g : Flat(g, n - 1)
      BY <1>1, <2>2
    <3> DEFINE h == [i \in 1 .. n |-> IF i < n THEN g[i] ELSE g[n - 1] \o ss[n]]
    <3>2. \A i \in 1 .. n : h[i] = IF i = 1 THEN ss[i] ELSE h[i - 1] \o ss[i]
      <4> TAKE i \in 1 .. n
      <4>1. CASE i = n
        <5>1. n \in 1 .. n /\ n - 1 \in 1 .. n /\ n - 1 < n /\ ~(n < n)
          BY <2>2
        <5>2. h[n] = g[n - 1] \o ss[n]
          BY <5>1
        <5>3. h[n - 1] = g[n - 1]
          BY <5>1
        <5>4. i # 1
          BY <2>2, <4>1
        <5> HIDE DEF h
        <5> QED
          BY <4>1, <5>2, <5>3, <5>4, Zenon
      <4>2. CASE i < n
        <5>1. i \in 1 .. n - 1 /\ h[i] = g[i]
          BY <4>2
        <5>2. i # 1 => i - 1 \in 1 .. n /\ i - 1 < n /\ h[i - 1] = g[i - 1]
          BY <4>2
        <5> HIDE DEF h
        <5>3. g[i] = IF i = 1 THEN ss[i] ELSE g[i - 1] \o ss[i]
          BY <3>1, <5>1
        <5> QED
          BY <5>1, <5>2, <5>3
      <4> QED
        BY <4>1, <4>2
    <3>3. h = [i \in 1 .. n |-> h[i]]
      OBVIOUS
    <3> HIDE DEF h
    <3>4. Flat(h, n)
      BY <3>2, <3>3
    <3> QED
      BY <3>4
  <2>3. n = 1 \/ n > 1
    OBVIOUS
  <2> HIDE DEF S
  <2> QED
    BY <2>1, <2>2, <2>3
<1> HIDE DEF S
<1>2. \A i \in 1 .. Len(ss) : i \in S
  BY <1>1, UpTo
<1>3. \E g : Flat(g, Len(ss))
  <2>1. Len(ss) \in 1 .. Len(ss)
    OBVIOUS
  <2> QED
    BY <1>2, <2>1 DEF S
<1> QED
  BY <1>3 DEF FlattenSeq

LEMMA Concatenated ==
  ASSUME NEW V, NEW p \in Seq(V), NEW q \in Seq(V)
  PROVE  /\ p \o q \in Seq(V)
         /\ ToSet(p \o q) = ToSet(p) \cup ToSet(q)
         /\ IsInjective(p) /\ IsInjective(q) /\ ToSet(p) \cap ToSet(q) = {}
              => IsInjective(p \o q)
<1>1. /\ p \o q \in Seq(V) /\ Len(p) \in Nat /\ Len(q) \in Nat
      /\ DOMAIN p = 1 .. Len(p) /\ DOMAIN q = 1 .. Len(q) /\ DOMAIN (p \o q) = 1 .. Len(p) + Len(q)
      /\ \A i \in 1 .. Len(p) + Len(q) :
           (p \o q)[i] = IF i <= Len(p) THEN p[i] ELSE q[i - Len(p)]
  OBVIOUS
<1> DEFINE m == Len(p)
           n == Len(q)
           r == p \o q
<1>2. /\ m \in Nat /\ n \in Nat /\ DOMAIN p = 1 .. m /\ DOMAIN q = 1 .. n /\ DOMAIN r = 1 .. m + n
      /\ \A i \in 1 .. m + n :
           (i \in 1 .. m /\ r[i] = p[i]) \/ (i - m \in 1 .. n /\ r[i] = q[i - m])
  <2>1. ASSUME NEW i \in 1 .. m + n
        PROVE  \/ i \in 1 .. m /\ r[i] = p[i]
               \/ i - m \in 1 .. n /\ r[i] = q[i - m]
    <3>1. CASE i <= m
      BY <1>1, <3>1
    <3>2. CASE i > m
      BY <1>1, <3>2
    <3> QED
      BY <1>1, <3>1, <3>2
  <2> QED
    BY <1>1, <2>1
<1>3. (\A i \in 1 .. m : i \in 1 .. m + n /\ r[i] = p[i])
      /\ (\A i \in 1 .. n : m + i \in 1 .. m + n /\ r[m + i] = q[i])
  BY <1>1
<1> HIDE DEF m, n, r
<1>4. ToSet(r) = ToSet(p) \cup ToSet(q)
  <2>1. \A i \in 1 .. m + n : r[i] \in ToSet(p) \cup ToSet(q)
    BY <1>2 DEF ToSet
  <2>2. \A i \in 1 .. m : p[i] \in ToSet(r)
    BY <1>2, <1>3 DEF ToSet
  <2>3. \A i \in 1 .. n : q[i] \in ToSet(r)
    BY <1>2, <1>3 DEF ToSet
  <2> QED
    BY <1>2, <2>1, <2>2, <2>3 DEF ToSet
<1>5. ASSUME IsInjective(p), IsInjective(q), ToSet(p) \cap ToSet(q) = {},
             NEW i \in 1 .. m + n, NEW j \in 1 .. m + n, r[i] = r[j]
      PROVE  i = j
  <2>1. \A a \in 1 .. m, b \in 1 .. n : p[a] # q[b]
    BY <1>2, <1>5 DEF ToSet
  <2>2. CASE i \in 1 .. m /\ j \in 1 .. m /\ r[i] = p[i] /\ r[j] = p[j]
    BY <1>2, <1>5, <2>2 DEF IsInjective
  <2>3. CASE i - m \in 1 .. n /\ j - m \in 1 .. n /\ r[i] = q[i - m] /\ r[j] = q[j - m]
    <3>1. i - m = j - m
      BY <1>2, <1>5, <2>3 DEF IsInjective
    <3> QED
      BY <1>2, <3>1
  <2> QED
    BY <1>2, <1>5, <2>1, <2>2, <2>3
<1>6. IsInjective(p) /\ IsInjective(q) /\ ToSet(p) \cap ToSet(q) = {} => IsInjective(r)
  BY <1>2, <1>5 DEF IsInjective
<1> QED
  BY <1>1, <1>4, <1>6 DEF r

(* Its elements are those of the parts, each once if they are.              *)
LEMMA Flattened ==
  ASSUME NEW V, NEW ss \in Seq(Seq(V))
  PROVE  /\ FlattenSeq(ss) \in Seq(V)
         /\ ToSet(FlattenSeq(ss)) = UNION {ToSet(ss[k]) : k \in DOMAIN ss}
         /\ (/\ \A k \in DOMAIN ss : IsInjective(ss[k])
             /\ \A j, k \in DOMAIN ss : j < k => ToSet(ss[j]) \cap ToSet(ss[k]) = {})
            => IsInjective(FlattenSeq(ss))
<1>1. /\ Len(ss) \in Nat /\ DOMAIN ss = 1 .. Len(ss) /\ \A k \in 1 .. Len(ss) : ss[k] \in Seq(V)
  OBVIOUS
<1>2. CASE Len(ss) = 0
  <2>1. ss = << >> /\ << >> \in Seq(V) /\ DOMAIN ss = {}
    BY <1>2
  <2>2. FlattenSeq(ss) = ss
    BY <1>2 DEF FlattenSeq
  <2> QED
    BY <2>1, <2>2 DEF ToSet, IsInjective
<1>3. CASE Len(ss) # 0
  <2>1. PICK flat :
          /\ flat = [i \in 1 .. Len(ss) |-> IF i = 1 THEN ss[i] ELSE flat[i - 1] \o ss[i]]
          /\ FlattenSeq(ss) = flat[Len(ss)]
    BY <1>1, <1>3, FlattenStep
  <2> DEFINE Apart == /\ \A k \in DOMAIN ss : IsInjective(ss[k])
                      /\ \A j, k \in DOMAIN ss : j < k => ToSet(ss[j]) \cap ToSet(ss[k]) = {}
             Part(i) == {ToSet(ss[k]) : k \in 1 .. i}
             Good(i) == /\ flat[i] \in Seq(V)
                        /\ ToSet(flat[i]) = UNION Part(i)
                        /\ Apart => IsInjective(flat[i])
             S == {i \in 1 .. Len(ss) : Good(i)}
  <2>2. ASSUME NEW i \in 1 .. Len(ss), i > 1 => i - 1 \in S PROVE i \in S
    <3>1. CASE i = 1
      <4>1. flat[i] = ss[i]
        BY <2>1, <3>1
      <4>2. Part(i) = {ToSet(ss[i])}
        BY <3>1
      <4>3. Apart => IsInjective(ss[i])
        BY <1>1
      <4>4. ToSet(ss[i]) = UNION Part(i)
        BY <4>2
      <4> HIDE DEF Apart, Part
      <4>5. Good(i)
        BY <1>1, <4>1, <4>3, <4>4
      <4> QED
        BY <4>5
    <3>2. CASE i > 1
      <4>1. flat[i] = flat[i - 1] \o ss[i]
        <5>1. flat[i] = IF i = 1 THEN ss[i] ELSE flat[i - 1] \o ss[i]
          BY <2>1
        <5>2. i # 1
          BY <3>2
        <5> QED
          BY <5>1, <5>2, Zenon
      <4>2. i - 1 \in 1 .. Len(ss) /\ i - 1 \in S
        BY <2>2, <3>2
      <4>3. UNION Part(i) = (UNION Part(i - 1)) \cup ToSet(ss[i])
        <5>1. 1 .. i = (1 .. i - 1) \cup {i}
          BY <3>2
        <5>2. Part(i) = Part(i - 1) \cup {ToSet(ss[i])}
          BY <5>1
        <5> HIDE DEF Part
        <5> QED
          BY <5>2
      <4>4. Apart => (UNION Part(i - 1)) \cap ToSet(ss[i]) = {}
        <5> SUFFICES ASSUME Apart, NEW x \in UNION Part(i - 1), x \in ToSet(ss[i]) PROVE FALSE
          BY DEF Apart
        <5>1. PICK k \in 1 .. i - 1 : x \in ToSet(ss[k])
          OBVIOUS
        <5>2. k \in DOMAIN ss /\ i \in DOMAIN ss /\ k < i
          BY <1>1, <4>2
        <5> QED
          BY <5>1, <5>2
      <4>5. Apart => IsInjective(ss[i])
        BY <1>1
      <4> HIDE DEF Apart, Part
      <4>6. Good(i - 1) /\ ss[i] \in Seq(V)
        BY <1>1, <4>2
      <4>7. Good(i)
        <5>1. flat[i] \in Seq(V) /\ ToSet(flat[i]) = ToSet(flat[i - 1]) \cup ToSet(ss[i])
          BY <4>1, <4>6, Concatenated
        <5>2. Apart => IsInjective(flat[i])
          BY <4>1, <4>4, <4>5, <4>6, Concatenated
        <5> QED
          BY <4>3, <4>6, <5>1, <5>2
      <4> QED
        BY <4>7
    <3> QED
      BY <3>1, <3>2
  <2> HIDE DEF S
  <2>3. \A i \in 1 .. Len(ss) : i \in S
    BY <1>1, <2>2, UpTo
  <2>4. flat[Len(ss)] \in Seq(V) /\ ToSet(flat[Len(ss)]) = UNION Part(Len(ss))
        /\ (Apart => IsInjective(flat[Len(ss)]))
    <3>1. Len(ss) \in 1 .. Len(ss)
      BY <1>1, <1>3
    <3> QED
      BY <2>3, <3>1 DEF S
  <2> HIDE DEF Part, Apart
  <2>5. Part(Len(ss)) = {ToSet(ss[k]) : k \in DOMAIN ss}
    BY <1>1 DEF Part
  <2> QED
    BY <2>1, <2>4, <2>5 DEF Apart
<1> QED
  BY <1>2, <1>3

LEMMA GivenSequence ==
  ASSUME NEW F, NEW f \in F
  PROVE  Given(f) \in Seq(F) /\ (f # "" => Len(Given(f)) > 0 /\ Given(f)[1] = f)
<1>1. <<f>> \in Seq(F) /\ << >> \in Seq(F) /\ Len(<<f>>) > 0 /\ <<f>>[1] = f
  OBVIOUS
<1> QED
  BY <1>1 DEF Given

LEMMA FirstOfConcatenation ==
  ASSUME NEW F, NEW p \in Seq(F), NEW q \in Seq(F), Len(p) > 0
  PROVE  p \o q \in Seq(F) /\ Len(p \o q) > 0 /\ (p \o q)[1] = p[1]
  OBVIOUS

(* An id begins with the uuid when there is one.                            *)
LEMMA IdBeginsWithUuid ==
  ASSUME NEW u, NEW s, NEW m, NEW n, u # ""
  PROVE  (Given(u) \o Given(s) \o Given(m) \o Given(n))[1] = u
<1>1. \A F : u \in F /\ s \in F /\ m \in F /\ n \in F =>
        (Given(u) \o Given(s) \o Given(m) \o Given(n))[1] = u
  <2> SUFFICES ASSUME NEW F, u \in F, s \in F, m \in F, n \in F
               PROVE  (Given(u) \o Given(s) \o Given(m) \o Given(n))[1] = u
    OBVIOUS
  <2>1. /\ Given(u) \in Seq(F) /\ Given(s) \in Seq(F)
        /\ Given(m) \in Seq(F) /\ Given(n) \in Seq(F)
        /\ Len(Given(u)) > 0 /\ Given(u)[1] = u
    BY GivenSequence
  <2> DEFINE us == Given(u) \o Given(s)
             usm == us \o Given(m)
  <2>2. us \in Seq(F) /\ Len(us) > 0 /\ us[1] = u
    BY <2>1, FirstOfConcatenation
  <2>3. usm \in Seq(F) /\ Len(usm) > 0 /\ usm[1] = u
    BY <2>1, <2>2, FirstOfConcatenation
  <2> QED
    BY <2>1, <2>3, FirstOfConcatenation
<1> QED
  BY <1>1, u \in {u, s, m, n} /\ s \in {u, s, m, n} /\ m \in {u, s, m, n} /\ n \in {u, s, m, n}

LEMMA HostIdBeginsWithUuid ==
  ASSUME NEW h, getHardware(h)["uuid"] # ""
  PROVE  GenerateServerID(getCPU(h), getHardware(h), h.hostname)[1] = getHardware(h)["uuid"]
<1>1. ASSUME NEW cpu, NEW hw, NEW hostname, hw["uuid"] # ""
      PROVE  GenerateServerID(cpu, hw, hostname)[1] = hw["uuid"]
  <2>1. PICK u, s, m, n : u = hw["uuid"] /\ s = hw["serial"] /\ m = cpu.model /\ n = hostname
    OBVIOUS
  <2>2. GenerateServerID(cpu, hw, hostname) = Given(u) \o Given(s) \o Given(m) \o Given(n)
    BY <2>1 DEF GenerateServerID
  <2>3. (Given(u) \o Given(s) \o Given(m) \o Given(n))[1] = u
    <3>1. u # ""
      BY <1>1, <2>1
    <3> QED
      BY <3>1, IdBeginsWithUuid, Zenon
  <2> QED
    BY <2>1, <2>2, <2>3
<1> QED
  BY <1>1

(* A loop with a condition before its append leaves the elements that pass. *)
LEMMA KeptElements ==
  ASSUME NEW V, NEW list \in Seq(V), NEW good, NEW kept,
         kept = FlattenSeq([k \in DOMAIN list |-> IF list[k] \in good THEN <<list[k]>> ELSE <<>>])
  PROVE  kept \in Seq(V) /\ ToSet(kept) = ToSet(list) \cap good
<1> DEFINE ss == [k \in DOMAIN list |-> IF list[k] \in good THEN <<list[k]>> ELSE <<>>]
<1>1. DOMAIN list = 1 .. Len(list) /\ Len(list) \in Nat /\ \A k \in DOMAIN list : list[k] \in V
  OBVIOUS
<1>2. ASSUME NEW k \in DOMAIN list
      PROVE  ss[k] \in Seq(V) /\ ToSet(ss[k]) = {list[k]} \cap good
  <2>1. <<list[k]>> \in Seq(V) /\ << >> \in Seq(V)
    BY <1>1
  <2>2. ToSet(<<list[k]>>) = {list[k]} /\ ToSet(<< >>) = {}
    BY DEF ToSet
  <2> QED
    BY <2>1, <2>2
<1>3. DOMAIN ss = DOMAIN list
  OBVIOUS
<1>4. ss = [k \in 1 .. Len(list) |-> ss[k]]
  BY <1>1
<1> HIDE DEF ss
<1>5. ss \in Seq(Seq(V))
  BY <1>1, <1>2, <1>3, <1>4
<1>6. FlattenSeq(ss) \in Seq(V) /\ ToSet(FlattenSeq(ss)) = UNION {ToSet(ss[k]) : k \in DOMAIN ss}
  BY <1>5, Flattened
<1>7. ToSet(FlattenSeq(ss)) = ToSet(list) \cap good
  <2>1. \A x : x \in UNION {ToSet(ss[k]) : k \in DOMAIN ss} <=> \E k \in DOMAIN list : x \in ToSet(ss[k])
    BY <1>3
  <2>2. \A x : x \in ToSet(list) <=> \E k \in DOMAIN list : x = list[k]
    BY DEF ToSet
  <2>3. \A x : x \in ToSet(FlattenSeq(ss)) <=> x \in ToSet(list) \cap good
    <3> TAKE x
    <3>1. x \in ToSet(FlattenSeq(ss)) <=> \E k \in DOMAIN list : x \in ToSet(ss[k])
      BY <1>6, <2>1
    <3>2. (\E k \in DOMAIN list : x \in ToSet(ss[k]))
            <=> \E k \in DOMAIN list : x = list[k] /\ x \in good
      BY <1>2
    <3> QED
      BY <2>2, <3>1, <3>2
  <2> QED
    BY <2>3
<1> QED
  BY <1>6, <1>7 DEF ss

LEMMA UniqueElements ==
  ASSUME NEW V, NEW list \in Seq(V)
  PROVE  unique(list) \in Seq(V) /\ ToSet(unique(list)) = ToSet(list) /\ IsInjective(unique(list))
<1> DEFINE first(k) == ~ \E j \in 1 .. k - 1 : list[j] = list[k]
           ss == [k \in DOMAIN list |-> IF \E j \in 1 .. k - 1 : list[j] = list[k] THEN <<>> ELSE <<list[k]>>]
<1>1. DOMAIN list = 1 .. Len(list) /\ Len(list) \in Nat /\ \A k \in DOMAIN list : list[k] \in V
  OBVIOUS
<1>2. ASSUME NEW k \in DOMAIN list
      PROVE  /\ ss[k] \in Seq(V) /\ IsInjective(ss[k])
             /\ ToSet(ss[k]) = IF first(k) THEN {list[k]} ELSE {}
  <2>1. <<list[k]>> \in Seq(V) /\ << >> \in Seq(V)
    BY <1>1
  <2>2. ToSet(<<list[k]>>) = {list[k]} /\ ToSet(<< >>) = {}
    BY DEF ToSet
  <2>3. IsInjective(<<list[k]>>) /\ IsInjective(<< >>)
    BY DEF IsInjective
  <2> QED
    BY <2>1, <2>2, <2>3
<1>3. DOMAIN ss = DOMAIN list
  OBVIOUS
<1>4. ss = [k \in 1 .. Len(list) |-> ss[k]]
  BY <1>1
<1>5. ASSUME NEW j \in DOMAIN list, NEW k \in DOMAIN list, j < k, first(k)
      PROVE  list[j] # list[k]
  <2>1. j \in 1 .. k - 1
    BY <1>1, <1>5
  <2> QED
    BY <1>5, <2>1
<1>6. \A k \in DOMAIN list : \E j \in DOMAIN list : list[j] = list[k] /\ first(j)
  <2> DEFINE S == {k \in DOMAIN list : \E j \in DOMAIN list : list[j] = list[k] /\ first(j)}
  <2>1. SUFFICES ASSUME NEW k0 \in DOMAIN list, k0 \notin S PROVE FALSE
    OBVIOUS
  <2> DEFINE T == {k \in 1 .. Len(list) : k \notin S}
  <2>2. T \subseteq Nat /\ T # {}
    BY <1>1, <2>1
  <2>3. PICK x \in T : \A y \in T : x <= y
    BY <2>2, NatLeast
  <2>4. PICK j \in 1 .. x - 1 : list[j] = list[x]
    BY <1>1, <2>3
  <2>5. j \in DOMAIN list /\ j < x /\ j \notin T
    BY <1>1, <2>3, <2>4
  <2> QED
    BY <1>1, <2>3, <2>4, <2>5
<1> HIDE DEF ss, first
<1>7. ss \in Seq(Seq(V))
  BY <1>1, <1>2, <1>3, <1>4
<1>8. \A j, k \in DOMAIN ss : j < k => ToSet(ss[j]) \cap ToSet(ss[k]) = {}
  BY <1>2, <1>3, <1>5
<1>9. /\ FlattenSeq(ss) \in Seq(V) /\ IsInjective(FlattenSeq(ss))
      /\ ToSet(FlattenSeq(ss)) = UNION {ToSet(ss[k]) : k \in DOMAIN ss}
  BY <1>2, <1>3, <1>7, <1>8, Flattened
<1>10. ToSet(FlattenSeq(ss)) = ToSet(list)
  <2>1. \A x : x \in UNION {ToSet(ss[k]) : k \in DOMAIN ss} <=> \E k \in DOMAIN list : x \in ToSet(ss[k])
    BY <1>3
  <2>2. \A x : x \in ToSet(list) <=> \E k \in DOMAIN list : x = list[k]
    BY DEF ToSet
  <2>3. ASSUME NEW x \in ToSet(list) PROVE x \in ToSet(FlattenSeq(ss))
    <3>1. PICK k \in DOMAIN list : x = list[k]
      BY <2>2
    <3>2. PICK j \in DOMAIN list : list[j] = list[k] /\ first(j)
      BY <1>6
    <3> QED
      BY <1>2, <1>9, <2>1, <3>1, <3>2
  <2>4. ASSUME NEW x \in ToSet(FlattenSeq(ss)) PROVE x \in ToSet(list)
    <3>1. PICK k \in DOMAIN list : x \in ToSet(ss[k])
      BY <1>9, <2>1, <2>4
    <3>2. x = list[k]
      BY <1>2, <3>1
    <3> QED
      BY <2>2, <3>2
  <2> QED
    BY <2>3, <2>4
<1> QED
  BY <1>9, <1>10 DEF ss, unique

(* What has been collected is what some host answers.                       *)
Collected ==
  info # NoReport => \E h \in Hosts : ~Panics(h) /\ info = CollectInstanceInfo(h)

LEMMA AlwaysCollected == DeviceSpec => []Collected
<1>1. DeviceInit => Collected
  BY DEF DeviceInit, Collected
<1>2. Collected /\ [DeviceNext]_deviceVars => Collected'
  <2> SUFFICES ASSUME Collected, [DeviceNext]_deviceVars PROVE Collected'
    OBVIOUS
  <2>1. CASE Collect
    BY <2>1 DEF Collect, Collected
  <2>2. CASE UNCHANGED info
    BY <2>2 DEF Collected
  <2> QED
    BY <2>1, <2>2
    DEF DeviceNext, deviceVars, ConnectFirst, LoseLink, Reachability, Reconnect, Subscribe,
        Subscribed, Panic, PublishTelemetry, Wake
<1> QED
  BY <1>1, <1>2, PTL DEF DeviceSpec

(* Hosts that know their uuid and have one id have one uuid, whatever else  *)
(* of them is known (util.go:447-476), for any set of hosts.                *)
THEOREM IdsTellMachines == DeviceSpec => []IdTellsMachine
<1>1. Collected => IdTellsMachine
  <2> SUFFICES ASSUME Collected, info # NoReport, NEW i \in Identities,
                      i[1] = info.id, i[2] # "", info.hardware["uuid"] # ""
               PROVE  i[2] = info.hardware["uuid"]
    BY DEF IdTellsMachine
  <2>1. PICK h \in Hosts : info = CollectInstanceInfo(h)
    BY DEF Collected
  <2>2. PICK g \in Hosts :
          i = <<GenerateServerID(getCPU(g), getHardware(g), g.hostname), getHardware(g)["uuid"]>>
    BY Zenon DEF Identities
  <2>3. info.id = GenerateServerID(getCPU(h), getHardware(h), h.hostname)
        /\ info.hardware = getHardware(h)
    BY <2>1 DEF CollectInstanceInfo
  <2>4. i[1][1] = i[2]
    BY <2>2, HostIdBeginsWithUuid
  <2>5. info.id[1] = info.hardware["uuid"]
    BY <2>3, HostIdBeginsWithUuid
  <2> QED
    BY <2>4, <2>5
<1> QED
  BY <1>1, AlwaysCollected, PTL

-----------------------------------------------------------------------------
(* The loops of util.go, over any list.                                     *)

LEMMA AddressesElements ==
  ASSUME NEW iface \in InterfaceFact
  PROVE  /\ Addresses(iface) \in Seq(AddressFact)
         /\ ToSet(Addresses(iface)) =
              {a \in ToSet(iface.addrs) : a.kind = "ipv4" /\ ~isLoopback(a.cidr.ip)}
<1> DEFINE good == {a \in AddressFact : a.kind = "ipv4" /\ ~isLoopback(a.cidr.ip)}
           list == iface.addrs
<1>1. list \in Seq(AddressFact)
  BY DEF InterfaceFact
<1>2. \A k \in DOMAIN list : list[k] \in AddressFact
  BY <1>1
<1>3. Addresses(iface) = FlattenSeq([k \in DOMAIN list |-> IF list[k] \in good THEN <<list[k]>> ELSE <<>>])
  <2>1. Addresses(iface) = FlattenSeq([k \in DOMAIN list |->
          IF list[k].kind = "ipv4" /\ ~isLoopback(list[k].cidr.ip) THEN <<list[k]>> ELSE <<>>])
    BY DEF Addresses, Kept
  <2>2. \A k \in DOMAIN list :
          list[k] \in good <=> list[k].kind = "ipv4" /\ ~isLoopback(list[k].cidr.ip)
    BY <1>2
  <2> HIDE DEF good, list
  <2>3. [k \in DOMAIN list |->
           IF list[k].kind = "ipv4" /\ ~isLoopback(list[k].cidr.ip) THEN <<list[k]>> ELSE <<>>]
        = [k \in DOMAIN list |-> IF list[k] \in good THEN <<list[k]>> ELSE <<>>]
    BY <2>2, Zenon
  <2> QED
    BY <2>1, <2>3
<1>4. Addresses(iface) \in Seq(AddressFact) /\ ToSet(Addresses(iface)) = ToSet(list) \cap good
  <2> HIDE DEF good, list
  <2> QED
    BY <1>1, <1>3, KeptElements
<1>5. ToSet(list) \subseteq AddressFact
  BY <1>2 DEF ToSet
<1> QED
  BY <1>4, <1>5

LEMMA PrivateElements ==
  ASSUME NEW list \in Seq(AddressFact)
  PROVE  /\ Private(list) \in Seq(AddressFact)
         /\ ToSet(Private(list)) = {a \in ToSet(list) : isPrivateIP(a.cidr.ip)}
<1> DEFINE good == {a \in AddressFact : isPrivateIP(a.cidr.ip)}
<1>1. \A k \in DOMAIN list : list[k] \in AddressFact
  OBVIOUS
<1>2. Private(list) = FlattenSeq([k \in DOMAIN list |-> IF list[k] \in good THEN <<list[k]>> ELSE <<>>])
  <2>1. Private(list) = FlattenSeq([k \in DOMAIN list |->
          IF isPrivateIP(list[k].cidr.ip) THEN <<list[k]>> ELSE <<>>])
    BY DEF Private, Kept
  <2>2. \A k \in DOMAIN list : list[k] \in good <=> isPrivateIP(list[k].cidr.ip)
    BY <1>1
  <2> HIDE DEF good
  <2>3. [k \in DOMAIN list |-> IF isPrivateIP(list[k].cidr.ip) THEN <<list[k]>> ELSE <<>>]
        = [k \in DOMAIN list |-> IF list[k] \in good THEN <<list[k]>> ELSE <<>>]
    BY <2>2, Zenon
  <2> QED
    BY <2>1, <2>3
<1>3. Private(list) \in Seq(AddressFact) /\ ToSet(Private(list)) = ToSet(list) \cap good
  <2> HIDE DEF good
  <2> QED
    BY <1>2, KeptElements
<1>4. ToSet(list) \subseteq AddressFact
  BY <1>1 DEF ToSet
<1> QED
  BY <1>3, <1>4

LEMMA Projections ==
  ASSUME NEW list \in Seq(AddressFact)
  PROVE  /\ IPs(list) \in Seq(IP) /\ ToSet(IPs(list)) = {a.cidr.ip : a \in ToSet(list)}
         /\ Subnets(list) \in Seq(CIDR)
<1>1. /\ DOMAIN list = 1 .. Len(list) /\ Len(list) \in Nat
      /\ \A k \in 1 .. Len(list) : list[k].cidr \in CIDR /\ list[k].cidr.ip \in IP
  <2>1. \A a \in AddressFact : a.cidr \in CIDR /\ a.cidr.ip \in IP
    BY DEF AddressFact, CIDR
  <2> QED
    BY <2>1
<1>2. /\ IPs(list) = [k \in 1 .. Len(list) |-> list[k].cidr.ip]
      /\ Subnets(list) = [k \in 1 .. Len(list) |-> list[k].cidr]
  BY <1>1 DEF IPs, Subnets, Project
<1>3. IPs(list) \in Seq(IP) /\ Subnets(list) \in Seq(CIDR)
  BY <1>1, <1>2
<1>4. ToSet(IPs(list)) = {a.cidr.ip : a \in ToSet(list)}
  <2>1. \A x : x \in ToSet(IPs(list)) <=> \E k \in 1 .. Len(list) : x = list[k].cidr.ip
    BY <1>2 DEF ToSet
  <2>2. \A a : a \in ToSet(list) <=> \E k \in 1 .. Len(list) : a = list[k]
    BY <1>1 DEF ToSet
  <2> QED
    BY <2>1, <2>2
<1> QED
  BY <1>3, <1>4

-----------------------------------------------------------------------------
(* getNetwork, for any interfaces.                                          *)

ValidInterface(i) == isValidInterface(i) /\ i.ok /\ Addresses(i) # <<>>

LEMMA ValidInterfaces ==
  ASSUME NEW list \in Seq(InterfaceFact), NEW valid,
         valid = Kept(list, LAMBDA i : isValidInterface(i) /\ i.ok /\ Addresses(i) # <<>>)
  PROVE  valid \in Seq(InterfaceFact) /\ \A k \in DOMAIN valid : ValidInterface(valid[k])
<1> DEFINE good == {i \in InterfaceFact : ValidInterface(i)}
<1>1. \A k \in DOMAIN list : list[k] \in InterfaceFact
  OBVIOUS
<1>2. valid = FlattenSeq([k \in DOMAIN list |-> IF list[k] \in good THEN <<list[k]>> ELSE <<>>])
  <2>1. valid = FlattenSeq([k \in DOMAIN list |->
          IF ValidInterface(list[k]) THEN <<list[k]>> ELSE <<>>])
    BY DEF Kept, ValidInterface
  <2>2. \A k \in DOMAIN list : list[k] \in good <=> ValidInterface(list[k])
    BY <1>1
  <2> HIDE DEF good
  <2>3. [k \in DOMAIN list |-> IF ValidInterface(list[k]) THEN <<list[k]>> ELSE <<>>]
        = [k \in DOMAIN list |-> IF list[k] \in good THEN <<list[k]>> ELSE <<>>]
    BY <2>2, Zenon
  <2> QED
    BY <2>1, <2>3
<1>3. valid \in Seq(InterfaceFact) /\ ToSet(valid) = ToSet(list) \cap good
  <2> HIDE DEF good
  <2> QED
    BY <1>2, KeptElements
<1>4. \A k \in DOMAIN valid : valid[k] \in good
  BY <1>3 DEF ToSet
<1> QED
  BY <1>3, <1>4

LEMMA FunctionIsSeq ==
  ASSUME NEW V, NEW n \in Nat, NEW f, f = [k \in 1 .. n |-> f[k]], \A k \in 1 .. n : f[k] \in V
  PROVE  f \in Seq(V)
<1>1. [k \in 1 .. n |-> f[k]] \in Seq(V)
  OBVIOUS
<1> QED
  BY <1>1

(* The lists from which getNetwork makes its answer.                        *)
Interfaces(found, valid) ==
  [k \in DOMAIN valid |->
    [name |-> valid[k].name, up |-> valid[k].up,
     ips |-> IPs(found[k]), subnets |-> Subnets(found[k]),
     private |-> Private(found[k]) # <<>>]]

LEMMA NetworkLists ==
  ASSUME NEW h, IsHost(h)
  PROVE  \E valid \in Seq(InterfaceFact), found \in Seq(Seq(AddressFact)), all \in Seq(AddressFact) :
           /\ DOMAIN valid = DOMAIN found
           /\ ToSet(all) = UNION {ToSet(found[k]) : k \in DOMAIN found}
           /\ getNetwork(h) =
                [hostname |-> h.hostname,
                 privateIPs |-> unique(IPs(Private(all))),
                 publicIP |-> getPublicIP(h),
                 subnets |-> unique(Subnets(Private(all))),
                 interfaces |-> Interfaces(found, valid)]
<1> DEFINE valid == Kept(h.ifaces, LAMBDA i : isValidInterface(i) /\ i.ok /\ Addresses(i) # <<>>)
           found == [k \in DOMAIN valid |-> Addresses(valid[k])]
           all == FlattenSeq(found)
<1>1. h.ifaces \in Seq(InterfaceFact)
  BY DEF IsHost
<1>2. valid \in Seq(InterfaceFact)
  BY <1>1, ValidInterfaces
<1>3. getNetwork(h) =
        [hostname |-> h.hostname,
         privateIPs |-> unique(IPs(Private(all))),
         publicIP |-> getPublicIP(h),
         subnets |-> unique(Subnets(Private(all))),
         interfaces |-> Interfaces(found, valid)]
  BY DEF getNetwork, Interfaces
<1> HIDE DEF valid
<1>4. \A k \in DOMAIN valid : Addresses(valid[k]) \in Seq(AddressFact)
  BY <1>2, AddressesElements
<1>5. found \in Seq(Seq(AddressFact)) /\ DOMAIN found = DOMAIN valid
  BY <1>2, <1>4
<1> HIDE DEF found
<1>6. all \in Seq(AddressFact) /\ ToSet(all) = UNION {ToSet(found[k]) : k \in DOMAIN found}
  BY <1>5, Flattened
<1> HIDE DEF all
<1> QED
  BY <1>2, <1>3, <1>5, <1>6

(* What a report is to say of addresses, and the types.                     *)
Agree(privateIPs, subnets, interfaces) ==
  LET listed == UNION {ToSet(interfaces[k].ips) : k \in DOMAIN interfaces}
  IN /\ privateIPs \in Seq(IP) /\ subnets \in Seq(CIDR) /\ interfaces \in Seq(NetIF)
     /\ ToSet(privateIPs) = {ip \in listed : InRFC1918(ip)}
     /\ IsInjective(privateIPs) /\ IsInjective(subnets)
     /\ \A k \in DOMAIN interfaces :
          interfaces[k].private <=> \E ip \in ToSet(interfaces[k].ips) : InRFC1918(ip)

(* Of any lists.                                                            *)
LEMMA NetworkOfLists ==
  ASSUME NEW valid \in Seq(InterfaceFact), NEW found \in Seq(Seq(AddressFact)),
         NEW all \in Seq(AddressFact), DOMAIN valid = DOMAIN found,
         ToSet(all) = UNION {ToSet(found[k]) : k \in DOMAIN found}
  PROVE  Agree(unique(IPs(Private(all))), unique(Subnets(Private(all))), Interfaces(found, valid))
<1> DEFINE privateIPs == unique(IPs(Private(all)))
           subnets == unique(Subnets(Private(all)))
           interfaces == Interfaces(found, valid)
           listed == UNION {ToSet(interfaces[k].ips) : k \in DOMAIN interfaces}
<1>1. \A a \in AddressFact : a.cidr.ip \in IP /\ (isPrivateIP(a.cidr.ip) <=> InRFC1918(a.cidr.ip))
  BY PrivateIsRFC1918 DEF AddressFact, CIDR
<1>2. \A k \in DOMAIN found : found[k] \in Seq(AddressFact)
  OBVIOUS
<1>3. \A list \in Seq(AddressFact) : ToSet(list) \subseteq AddressFact
  BY DEF ToSet
<1>4. \A list \in Seq(AddressFact) : list # <<>> <=> \E a : a \in ToSet(list)
  <2> SUFFICES ASSUME NEW list \in Seq(AddressFact) PROVE list # <<>> <=> \E a : a \in ToSet(list)
    OBVIOUS
  <2>1. list # <<>> <=> \E k : k \in DOMAIN list
    <3>1. list # <<>> => 1 \in DOMAIN list
      OBVIOUS
    <3>2. list = <<>> => DOMAIN list = {}
      OBVIOUS
    <3> QED
      BY <3>1, <3>2
  <2> QED
    BY <2>1 DEF ToSet
<1>5. /\ privateIPs \in Seq(IP) /\ subnets \in Seq(CIDR)
      /\ IsInjective(privateIPs) /\ IsInjective(subnets)
      /\ ToSet(privateIPs) = {a.cidr.ip : a \in {b \in ToSet(all) : isPrivateIP(b.cidr.ip)}}
  BY PrivateElements, Projections, UniqueElements
<1>6. DOMAIN interfaces = DOMAIN found
  BY DEF Interfaces
<1>7. ASSUME NEW k \in DOMAIN found
      PROVE  /\ interfaces[k] \in NetIF
             /\ ToSet(interfaces[k].ips) = {a.cidr.ip : a \in ToSet(found[k])}
             /\ interfaces[k].private <=> \E ip \in ToSet(interfaces[k].ips) : InRFC1918(ip)
  <2>1. interfaces[k] = [name |-> valid[k].name, up |-> valid[k].up,
                         ips |-> IPs(found[k]), subnets |-> Subnets(found[k]),
                         private |-> Private(found[k]) # <<>>]
    BY DEF Interfaces
  <2>2. valid[k] \in InterfaceFact
    OBVIOUS
  <2>3. valid[k].name \in STRING /\ valid[k].up \in BOOLEAN
    BY <2>2 DEF InterfaceFact
  <2>4. /\ IPs(found[k]) \in Seq(IP) /\ Subnets(found[k]) \in Seq(CIDR)
        /\ ToSet(IPs(found[k])) = {a.cidr.ip : a \in ToSet(found[k])}
    BY <1>2, Projections
  <2> HIDE DEF interfaces
  <2>5. interfaces[k] \in NetIF
    BY <2>1, <2>3, <2>4 DEF NetIF
  <2>6. ToSet(interfaces[k].ips) = {a.cidr.ip : a \in ToSet(found[k])}
    BY <2>1, <2>4
  <2>7. interfaces[k].private <=> \E a \in ToSet(found[k]) : isPrivateIP(a.cidr.ip)
    <3>1. interfaces[k].private = (Private(found[k]) # <<>>)
      BY <2>1
    <3>2. /\ Private(found[k]) \in Seq(AddressFact)
          /\ ToSet(Private(found[k])) = {a \in ToSet(found[k]) : isPrivateIP(a.cidr.ip)}
      BY <1>2, PrivateElements
    <3>3. Private(found[k]) # <<>> <=> \E a \in ToSet(found[k]) : isPrivateIP(a.cidr.ip)
      BY <1>4, <3>2
    <3> QED
      BY <3>1, <3>3
  <2>8. (\E a \in ToSet(found[k]) : isPrivateIP(a.cidr.ip))
          <=> \E a \in ToSet(found[k]) : InRFC1918(a.cidr.ip)
    BY <1>1, <1>2, <1>3
  <2> QED
    BY <2>5, <2>6, <2>7, <2>8
<1>8. interfaces \in Seq(NetIF)
  <2>1. interfaces = [k \in 1 .. Len(found) |-> interfaces[k]] /\ Len(found) \in Nat
    BY DEF Interfaces
  <2> HIDE DEF interfaces
  <2>2. \A k \in 1 .. Len(found) : interfaces[k] \in NetIF
    BY <1>7
  <2> QED
    BY <2>1, <2>2, FunctionIsSeq
<1> HIDE DEF interfaces, privateIPs, subnets
<1>9. ToSet(privateIPs) = {ip \in listed : InRFC1918(ip)}
  <2>1. \A x : x \in listed <=> \E k \in DOMAIN found : x \in {a.cidr.ip : a \in ToSet(found[k])}
    <3>1. \A x : x \in listed <=> \E k \in DOMAIN found : x \in ToSet(interfaces[k].ips)
      <4> DEFINE S(k) == ToSet(interfaces[k].ips)
      <4>1. listed = UNION {S(k) : k \in DOMAIN found}
        BY <1>6
      <4> HIDE DEF S
      <4>2. \A x : x \in UNION {S(k) : k \in DOMAIN found} <=> \E k \in DOMAIN found : x \in S(k)
        OBVIOUS
      <4> QED
        BY <4>1, <4>2 DEF S
    <3>2. \A k \in DOMAIN found : ToSet(interfaces[k].ips) = {a.cidr.ip : a \in ToSet(found[k])}
      BY <1>7, Zenon
    <3>3. \A x : \A k \in DOMAIN found :
            x \in ToSet(interfaces[k].ips) <=> x \in {a.cidr.ip : a \in ToSet(found[k])}
      <4> TAKE x
      <4> TAKE k \in DOMAIN found
      <4> QED
        BY <3>2, Zenon
    <3> HIDE DEF listed
    <3> DEFINE In(x, k) == x \in ToSet(interfaces[k].ips)
               Of(x, k) == x \in {a.cidr.ip : a \in ToSet(found[k])}
    <3>4. /\ \A x : x \in listed <=> \E k \in DOMAIN found : In(x, k)
          /\ \A x : \A k \in DOMAIN found : In(x, k) <=> Of(x, k)
      BY <3>1, <3>3, Zenon
    <3> HIDE DEF In, Of
    <3>5. \A x : x \in listed <=> \E k \in DOMAIN found : Of(x, k)
      BY <3>4
    <3> QED
      BY <3>5, Zenon DEF Of
  <2>2. \A a : a \in ToSet(all) <=> \E k \in DOMAIN found : a \in ToSet(found[k])
    OBVIOUS
  <2> HIDE DEF listed
  <2>3. \A a \in ToSet(all) : isPrivateIP(a.cidr.ip) <=> InRFC1918(a.cidr.ip)
    BY <1>1, <1>3
  <2>4. \A x : x \in ToSet(privateIPs) <=> \E a \in ToSet(all) : isPrivateIP(a.cidr.ip) /\ x = a.cidr.ip
    BY <1>5
  <2>5. \A x : x \in listed <=> \E a \in ToSet(all) : x = a.cidr.ip
    BY <2>1, <2>2
  <2>6. \A x : x \in ToSet(privateIPs) <=> x \in listed /\ InRFC1918(x)
    BY <2>3, <2>4, <2>5
  <2> QED
    BY <2>6
<1> QED
  BY <1>5, <1>6, <1>7, <1>8, <1>9 DEF Agree, interfaces, privateIPs, subnets

LEMMA NetworkOfHost ==
  ASSUME NEW h, IsHost(h)
  PROVE  /\ getNetwork(h) \in NetworkInfo
         /\ Agree(getNetwork(h).privateIPs, getNetwork(h).subnets, getNetwork(h).interfaces)
<1>1. PICK valid \in Seq(InterfaceFact), found \in Seq(Seq(AddressFact)), all \in Seq(AddressFact) :
           /\ DOMAIN valid = DOMAIN found
           /\ ToSet(all) = UNION {ToSet(found[k]) : k \in DOMAIN found}
           /\ getNetwork(h) =
                [hostname |-> h.hostname,
                 privateIPs |-> unique(IPs(Private(all))),
                 publicIP |-> getPublicIP(h),
                 subnets |-> unique(Subnets(Private(all))),
                 interfaces |-> Interfaces(found, valid)]
  BY NetworkLists
<1> DEFINE net == getNetwork(h)
<1>2. /\ net.privateIPs = unique(IPs(Private(all))) /\ net.subnets = unique(Subnets(Private(all)))
      /\ net.interfaces = Interfaces(found, valid)
  BY <1>1
<1>3. h.hostname \in STRING /\ getPublicIP(h) \in STRING
  BY LiteralsAssumption DEF IsHost, getPublicIP
<1>4. Agree(net.privateIPs, net.subnets, net.interfaces)
  BY <1>1, <1>2, NetworkOfLists
<1>5. net.privateIPs \in Seq(IP) /\ net.subnets \in Seq(CIDR) /\ net.interfaces \in Seq(NetIF)
  BY <1>4 DEF Agree
<1>6. net \in NetworkInfo
  BY <1>1, <1>2, <1>3, <1>5 DEF NetworkInfo
<1> QED
  BY <1>4, <1>6

(* The private addresses of a report are those of the interfaces it lists   *)
(* in the ranges of RFC 1918, each once, and an interface is called private *)
(* for nothing else (util.go:173-252), for any host.                        *)
THEOREM AddressesAlwaysAgree == DeviceSpec => []AddressesAgree
<1>1. Collected => AddressesAgree
  <2> SUFFICES ASSUME Collected, info # NoReport PROVE AddressesAgree
    BY DEF AddressesAgree
  <2>1. PICK h \in Hosts : info = CollectInstanceInfo(h)
    BY DEF Collected
  <2>2. info.network = getNetwork(h) /\ IsHost(h)
    BY <2>1, HostsAssumption DEF CollectInstanceInfo
  <2> QED
    <3> DEFINE net == info.network
    <3>1. Agree(net.privateIPs, net.subnets, net.interfaces)
      BY <2>2, NetworkOfHost
    <3> HIDE DEF net
    <3>2. LET listed == UNION {ToSet(net.interfaces[k].ips) : k \in DOMAIN net.interfaces}
          IN /\ ToSet(net.privateIPs) = {ip \in listed : InRFC1918(ip)}
             /\ IsInjective(net.privateIPs) /\ IsInjective(net.subnets)
             /\ \A k \in DOMAIN net.interfaces :
                  net.interfaces[k].private <=> \E ip \in ToSet(net.interfaces[k].ips) : InRFC1918(ip)
      BY <3>1 DEF Agree
    <3> QED
      BY <3>2, Zenon DEF AddressesAgree, net
<1> QED
  BY <1>1, AlwaysCollected, PTL

-----------------------------------------------------------------------------
(* Types.                                                                   *)

LEMMA IdTyped ==
  ASSUME NEW u \in STRING, NEW s \in STRING, NEW m \in STRING, NEW n \in STRING
  PROVE  Given(u) \o Given(s) \o Given(m) \o Given(n) \in Seq(STRING)
<1>1. \A f \in STRING : Given(f) \in Seq(STRING)
  BY GivenSequence
<1>2. \A p, q \in Seq(STRING) : p \o q \in Seq(STRING)
  OBVIOUS
<1> QED
  BY <1>1, <1>2

LEMMA HardwareTyped ==
  ASSUME NEW h, IsHost(h)
  PROVE  getHardware(h) \in HardwareInfo
<1> DEFINE start == [f \in HardwareField |-> IF f = "uuid" THEN h.info.hostId ELSE ""]
           filled == CASE h.goos = "linux" -> fillFromDMI(start, h)
                       [] h.goos = "windows" -> fillFromWmic(start, h)
                       [] OTHER -> start
           named == detectCloudVendor(filled)
<1>1. start \in HardwareInfo
  BY LiteralsAssumption DEF IsHost, HardwareInfo
<1>2. ASSUME NEW hw \in HardwareInfo
      PROVE  fillFromDMI(hw, h) \in HardwareInfo /\ fillFromWmic(hw, h) \in HardwareInfo
  BY DEF IsHost, HardwareInfo, fillFromDMI, fillFromWmic
<1>3. ASSUME NEW hw \in HardwareInfo PROVE detectCloudVendor(hw) \in HardwareInfo
  <2> DEFINE words == Mentions[hw["manufacturer"]] \cup Mentions[hw["product"]]
             hits == {i \in 1 .. Len(Clouds) : Clouds[i] \in words}
             hit == IF hits # {} THEN Min(hits) ELSE 0
  <2>1. Len(Clouds) = 5
    BY DEF Clouds
  <2>2. hits \subseteq 1 .. 5
    BY <2>1
  <2>3. detectCloudVendor(hw) =
          IF hit = 0 THEN hw ELSE [hw EXCEPT !["manufacturer"] = CloudNames[hit]]
    BY DEF detectCloudVendor, SelectInSeq
  <2> HIDE DEF hits
  <2>4. hits # {} => Min(hits) \in hits
    <3>1. hits \subseteq Nat
      BY <2>2
    <3>2. hits # {} => \E x \in hits : \A y \in hits : x <= y
      BY <3>1, NatLeast
    <3> QED
      BY <3>2 DEF Min
  <2>5. hit = 0 \/ hit \in 1 .. 5
    BY <2>2, <2>4
  <2>6. \A k \in 1 .. 5 : CloudNames[k] \in STRING
    <3>1. DOMAIN CloudNames = 1 .. 5
      BY DEF CloudNames
    <3> QED
      BY <3>1, LiteralsAssumption
  <2> HIDE DEF hit
  <2> QED
    BY <2>3, <2>5, <2>6 DEF HardwareInfo
<1>4. filled \in HardwareInfo
  BY <1>1, <1>2
<1> HIDE DEF filled
<1>5. named \in HardwareInfo
  BY <1>3, <1>4
<1>6. getHardware(h) = [named EXCEPT !["product"] = IF named["product"] = "" THEN h.hostname ELSE named["product"]]
  BY DEF getHardware, filled
<1> HIDE DEF named
<1> QED
  BY <1>5, <1>6 DEF HardwareInfo, IsHost

LEMMA DiskTyped ==
  ASSUME NEW h, IsHost(h)
  PROVE  getDisk(h) \in Seq(DiskInfo)
<1> DEFINE list == h.parts
           V == ToSet(list)
           good == {p \in V : p.ok}
           read == Kept(list, LAMBDA p : p.ok)
<1>1. list \in Seq(V) /\ \A p \in V : p.ok => p.value \in DiskInfo
  BY DEF IsHost
<1>2. \A k \in DOMAIN list : list[k] \in V
  BY DEF ToSet
<1>3. read = FlattenSeq([k \in DOMAIN list |-> IF list[k] \in good THEN <<list[k]>> ELSE <<>>])
  <2>1. read = FlattenSeq([k \in DOMAIN list |-> IF list[k].ok THEN <<list[k]>> ELSE <<>>])
    BY DEF Kept
  <2>2. \A k \in DOMAIN list : list[k] \in good <=> list[k].ok
    BY <1>2
  <2> HIDE DEF good, list, read
  <2>3. [k \in DOMAIN list |-> IF list[k].ok THEN <<list[k]>> ELSE <<>>]
        = [k \in DOMAIN list |-> IF list[k] \in good THEN <<list[k]>> ELSE <<>>]
    BY <2>2, Zenon
  <2> QED
    BY <2>1, <2>3
<1>4. getDisk(h) = [k \in DOMAIN read |-> read[k].value]
  BY DEF getDisk, Project
<1> HIDE DEF good, list, read, V
<1>5. read \in Seq(V) /\ ToSet(read) = ToSet(list) \cap good
  BY <1>1, <1>3, KeptElements
<1>6. \A k \in DOMAIN read : read[k] \in good
  BY <1>5 DEF ToSet
<1>7. DOMAIN read = 1 .. Len(read) /\ Len(read) \in Nat
  BY <1>5
<1>8. \A k \in 1 .. Len(read) : read[k].value \in DiskInfo
  BY <1>1, <1>6, <1>7 DEF good
<1>9. [k \in 1 .. Len(read) |-> read[k].value] \in Seq(DiskInfo)
  BY <1>7, <1>8
<1> QED
  BY <1>4, <1>7, <1>9

LEMMA ReportTyped ==
  ASSUME NEW h, IsHost(h), ~Panics(h)
  PROVE  CollectInstanceInfo(h) \in InstanceInfo
<1>1. getHardware(h) \in HardwareInfo
  BY HardwareTyped
<1>2. getCPU(h) \in CPUInfo
  <2>1. h.cpus \in Seq(STRING) /\ h.percent.value \in Nat
    BY DEF IsHost, Panics
  <2>2. Len(h.cpus) \in Nat /\ (h.cpus = <<>> \/ h.cpus[1] \in STRING)
    BY <2>1
  <2> QED
    BY <2>1, <2>2, LiteralsAssumption DEF getCPU, CPUInfo
<1>3. getMemory(h) \in MemoryInfo /\ getOS(h) \in OSInfo /\ h.hostname \in STRING
  BY DEF IsHost, Panics, getMemory, getOS
<1>4. getVirtual(h) \in VirtualInfo
  BY DEF IsHost, Panics, getVirtual, VirtualInfo
<1>5. getNetwork(h) \in NetworkInfo
  BY NetworkOfHost
<1>6. GenerateServerID(getCPU(h), getHardware(h), h.hostname) \in Seq(STRING)
  <2>1. getCPU(h).model \in STRING /\ getHardware(h)["uuid"] \in STRING /\ getHardware(h)["serial"] \in STRING
    BY <1>1, <1>2 DEF CPUInfo, HardwareInfo, HardwareField
  <2> QED
    BY <1>3, <2>1, IdTyped DEF GenerateServerID
<1>7. getDisk(h) \in Seq(DiskInfo)
  BY DiskTyped
<1> QED
  BY <1>1, <1>2, <1>3, <1>4, <1>5, <1>6, <1>7 DEF CollectInstanceInfo, InstanceInfo

(* The report of any host that answers as its libraries declare is typed.   *)
THEOREM DeviceTypeCorrect == DeviceSpec => []DeviceTypeOK
<1> DEFINE MainTyped == /\ main \in {"connect", "collect", "publish", "sleep", "ended"}
                        /\ reachable \in BOOLEAN
                        /\ telemetry \in {"none", "sent", "dropped"}
<1>1. DeviceInit => MainTyped
  BY DEF DeviceInit
<1>2. MainTyped /\ [DeviceNext]_deviceVars => MainTyped'
  BY DEF DeviceNext, deviceVars, linkVars, ConnectFirst, Connected, LoseLink, Reachability,
         Reconnect, Subscribe, Subscribed, Collect, Panic, PublishTelemetry, Wake
<1>3. MainTyped /\ LinkInv /\ Collected => DeviceTypeOK
  <2>1. Collected => info = NoReport \/ info \in InstanceInfo
    BY ReportTyped, HostsAssumption DEF Collected
  <2> QED
    BY <2>1 DEF LinkInv, ControlTyped, DeviceTypeOK
<1>4. DeviceSpec => []LinkInv
  BY InitLinkInv, StepKeepsLinkInv, PTL DEF DeviceSpec
<1>5. DeviceSpec => []MainTyped
  BY <1>1, <1>2, PTL DEF DeviceSpec
<1> QED
  BY <1>3, <1>4, <1>5, AlwaysCollected, PTL
=============================================================================
