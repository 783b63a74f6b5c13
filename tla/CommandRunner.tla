---------------------------- MODULE CommandRunner ----------------------------
(***************************************************************************)
(* The commands of the device client: messageHandler and                   *)
(* RunCommandWithTimeout (mbot/main.go), with the processes of a command   *)
(* and the goroutine that waits for them.                                  *)
(*                                                                         *)
(* The MQTT library calls the handler for one message at a time.  Time is  *)
(* left out: 10 seconds may pass at any point of the wait, but not before  *)
(* a command that could not be started has been found out.                 *)
(***************************************************************************)
EXTENDS Naturals

CONSTANTS
  MaxCommands, \* bound: messages received
  MaxOutput,   \* bound: pieces of output on each stream of a command
  NoAnswer     \* no result has been published

Run == 1 .. MaxCommands

Stream == {"out", "err"}

\* How much of each stream.
Output == [Stream -> 0 .. MaxOutput]

\* The result that is published: of which stream, and how much of it.
Answer == [killed : BOOLEAN, stream : Stream, size : 0 .. MaxOutput]

ASSUME BoundsAssumption == MaxCommands \in Nat /\ MaxOutput \in Nat
ASSUME NoAnswerAssumption == NoAnswer \notin Answer

VARIABLES
  cur,     \* messages received; the handler is at message number cur
  handler, \* where messageHandler is
  bash,    \* bash[n]: the process of command n
  child,   \* child[n]: a process it has started, holding its output or not
  written, \* written[n]: what they have written
  copied,  \* copied[n]: what is in the two buffers
  waiter,  \* waiter[n]: the goroutine in cmd.Wait or in its send to done
  answer   \* answer[n]: the published result

vars == <<cur, handler, bash, child, written, copied, waiter, answer>>

TypeOK ==
  /\ cur \in 0 .. MaxCommands
  /\ handler \in {"idle", "start", "select", "interrupted", "killed", "done"}
  /\ handler # "idle" => cur \in Run
  /\ bash \in [Run -> {"none", "failed", "running", "exited"}]
  /\ child \in [Run -> {"none", "holding", "detached", "exited"}]
  /\ written \in [Run -> Output]
  /\ copied \in [Run -> Output]
  /\ waiter \in [Run -> {"none", "waiting", "sending", "gone"}]
  /\ \A n \in Run : bash[n] = "none" => waiter[n] = "none"
  /\ answer \in [Run -> Answer \cup {NoAnswer}]

Silence == [s \in Stream |-> 0]

Init ==
  /\ cur = 0
  /\ handler = "idle"
  /\ bash = [n \in Run |-> "none"]
  /\ child = [n \in Run |-> "none"]
  /\ written = [n \in Run |-> Silence]
  /\ copied = [n \in Run |-> Silence]
  /\ waiter = [n \in Run |-> "none"]
  /\ answer = [n \in Run |-> NoAnswer]

-----------------------------------------------------------------------------
(* The processes of a command.                                              *)

Write(n, s) ==
  /\ bash[n] = "running" \/ child[n] = "holding"
  /\ written[n][s] < MaxOutput
  /\ written' = [written EXCEPT ![n][s] = @ + 1]
  /\ UNCHANGED <<cur, handler, bash, child, copied, waiter, answer>>

\* A process in the background, with its output redirected or not.
Spawn(n) ==
  /\ bash[n] = "running" /\ child[n] = "none"
  /\ \E c \in {"holding", "detached"} : child' = [child EXCEPT ![n] = c]
  /\ UNCHANGED <<cur, handler, bash, written, copied, waiter, answer>>

BashExits(n) ==
  /\ bash[n] = "running"
  /\ bash' = [bash EXCEPT ![n] = "exited"]
  /\ UNCHANGED <<cur, handler, child, written, copied, waiter, answer>>

ChildExits(n) ==
  /\ child[n] \in {"holding", "detached"}
  /\ child' = [child EXCEPT ![n] = "exited"]
  /\ UNCHANGED <<cur, handler, bash, written, copied, waiter, answer>>

\* A goroutine of os/exec copies from the pipe to the buffer.
Copy(n, s) ==
  /\ copied[n][s] < written[n][s]
  /\ copied' = [copied EXCEPT ![n][s] = @ + 1]
  /\ UNCHANGED <<cur, handler, bash, child, written, waiter, answer>>

Processes ==
  \E n \in Run :
    \/ Spawn(n) \/ BashExits(n) \/ ChildExits(n)
    \/ \E s \in Stream : Write(n, s) \/ Copy(n, s)

-----------------------------------------------------------------------------
(* Plausible bugs, one per property: variants of the actions below that no  *)
(* definition of the model uses.                                            *)

\* The goroutine is launched before the command is started.
StartWaiterFirst ==
  /\ handler = "start"
  /\ waiter' = [waiter EXCEPT ![cur] = "waiting"]
  /\ handler' = "select"
  /\ UNCHANGED <<cur, bash, child, written, copied, answer>>

\* The error of Start is returned at once, past the channel.
StartFailsAtOnce ==
  /\ handler = "start"
  /\ waiter' = [waiter EXCEPT ![cur] = "waiting"]
  /\ \/ bash' = [bash EXCEPT ![cur] = "running"] /\ handler' = "select"
     \/ bash' = [bash EXCEPT ![cur] = "failed"] /\ handler' = "done"
  /\ UNCHANGED <<cur, child, written, copied, answer>>

\* cmd.Process.Wait in place of cmd.Wait.
WaitForBashOnly(n) ==
  /\ waiter[n] = "waiting"
  /\ bash[n] \in {"failed", "exited"}
  /\ waiter' = [waiter EXCEPT ![n] = "sending"]
  /\ UNCHANGED <<cur, handler, bash, child, written, copied, answer>>

\* SIGINT only.
KillForgotten ==
  /\ handler = "interrupted"
  /\ handler' = "killed"
  /\ UNCHANGED <<cur, bash, child, written, copied, waiter, answer>>

\* After the kill the handler waits for done once more.
KillThenWait ==
  /\ handler = "interrupted"
  /\ bash' = [bash EXCEPT ![cur] = "exited"]
  /\ handler' = "select"
  /\ UNCHANGED <<cur, child, written, copied, waiter, answer>>

-----------------------------------------------------------------------------
(* The handler and the goroutine.                                           *)

\* A command arrives.
Receive ==
  /\ handler = "idle" /\ cur < MaxCommands
  /\ cur' = cur + 1
  /\ handler' = "start"
  /\ UNCHANGED <<bash, child, written, copied, waiter, answer>>

\* A message that does not parse, or is no command, is dropped.
Ignore ==
  /\ handler = "idle" /\ cur < MaxCommands
  /\ cur' = cur + 1
  /\ UNCHANGED <<handler, bash, child, written, copied, waiter, answer>>

\* cmd.Start, its error ignored, and go cmd.Wait.
Start ==
  /\ handler = "start"
  /\ \E p \in {"running", "failed"} : bash' = [bash EXCEPT ![cur] = p]
  /\ waiter' = [waiter EXCEPT ![cur] = "waiting"]
  /\ handler' = "select"
  /\ UNCHANGED <<cur, child, written, copied, answer>>

\* The command has exited, nobody holds its output and all of it is copied;
\* or it was never started.
Over(n) ==
  /\ bash[n] \in {"failed", "exited"}
  /\ child[n] # "holding"
  /\ copied[n] = written[n]

\* cmd.Wait returns; the goroutine sends on the unbuffered channel done.
WaitReturns(n) ==
  /\ waiter[n] = "waiting"
  /\ Over(n)
  /\ waiter' = [waiter EXCEPT ![n] = "sending"]
  /\ UNCHANGED <<cur, handler, bash, child, written, copied, answer>>

\* case <-done
Done ==
  /\ handler = "select"
  /\ waiter[cur] = "sending"
  /\ waiter' = [waiter EXCEPT ![cur] = "gone"]
  /\ handler' = "done"
  /\ UNCHANGED <<cur, bash, child, written, copied, answer>>

\* case <-after: SIGINT, which bash may ignore.
Timeout ==
  /\ handler = "select"
  /\ bash[cur] # "failed"
  /\ handler' = "interrupted"
  /\ UNCHANGED <<cur, bash, child, written, copied, waiter, answer>>

\* 10 ms later.
Kill ==
  /\ handler = "interrupted"
  /\ bash' = [bash EXCEPT ![cur] = "exited"]
  /\ handler' = "killed"
  /\ UNCHANGED <<cur, child, written, copied, waiter, answer>>

\* What a read of the buffers can yield: after a kill it races with the copying.
Readable ==
  IF handler = "done"
  THEN {copied[cur]}
  ELSE {o \in Output : \A s \in Stream : o[s] <= copied[cur][s]}

\* Standard error if there is any.
Chosen(o) == IF o["err"] > 0 THEN "err" ELSE "out"

\* The buffers are read, the result is published and the handler returns.
Publish ==
  /\ handler \in {"done", "killed"}
  /\ \E o \in Readable :
       answer' = [answer EXCEPT ![cur] =
         [killed |-> handler = "killed", stream |-> Chosen(o), size |-> o[Chosen(o)]]]
  /\ handler' = "idle"
  /\ UNCHANGED <<cur, bash, child, written, copied, waiter>>

RunCommand == Start \/ Done \/ Timeout \/ Kill \/ Publish

Next ==
  \/ Processes
  \/ Receive \/ Ignore \/ RunCommand
  \/ \E n \in Run : WaitReturns(n)

Spec == Init /\ [][Next]_vars

\* The goroutines of the client run and its timer expires.  Nothing is assumed
\* of the processes: they may run, write and hold their output for ever.
FairSpec ==
  Spec /\ WF_vars(RunCommand) /\ \A n \in Run : WF_vars(WaitReturns(n))

-----------------------------------------------------------------------------
Answered(n) == answer[n] # NoAnswer

\* A command that is not timed out is answered with all the output there will
\* ever be, of its processes in the background too, standard error before
\* standard output (main.go:141, 150; README.md:196).
AnswerWhole ==
  \A n \in Run : Answered(n) /\ ~answer[n].killed =>
    /\ answer[n].stream = Chosen(written[n])
    /\ answer[n].size = written[n][Chosen(written[n])]

\* The shell of an answered command has ended, also if it ignores SIGINT
\* (main.go:146-148).
ShellEnds == \A n \in Run : Answered(n) => bash[n] # "running"

\* The goroutine of an answered command has ended, unless the command was timed
\* out: done is unbuffered and nobody else receives from it (main.go:139-152).
StragglersOnlyAfterKill ==
  \A n \in Run : Answered(n) /\ waiter[n] # "gone" => answer[n].killed

\* Every command is answered, whatever its processes do: the handler, and with
\* it the messages that follow, is never blocked for good (main.go:143-152).
AlwaysAnswered ==
  \A n \in Run : (handler = "start" /\ cur = n) ~> Answered(n)

\* A task that runs for more than 10 seconds is terminated (README.md:188): its
\* shell, and what it has started if that still writes the task's output.  Of
\* the latter it does not hold, the kill reaches the shell only (main.go:146-148).
TimedOutTaskEnds ==
  \A n \in Run : Answered(n) /\ answer[n].killed =>
    bash[n] # "running" /\ child[n] # "holding"

\* Nothing of an answered command is left but what a kill has cut loose: no
\* shell, and no goroutine unless the command was timed out (main.go:139-152).
NoLeftovers == ShellEnds /\ StragglersOnlyAfterKill

=============================================================================
