----------------------------- MODULE SSHClient ------------------------------
(***************************************************************************)
(* One TerminalSession over one CitadelSSHClient, from connect to the end  *)
(* of the connection.  TerminalSession runs on the main actor; connect,    *)
(* write and disconnect of the client, the session task inside withPTY,    *)
(* the pump, the task that releases the gate when the pump ends and the    *)
(* bootstrap run on the global executor, in parallel, and share the        *)
(* client's fields without a lock.  An action is the code of one of these  *)
(* from one suspension, or one access to a shared field, to the next.      *)
(*                                                                         *)
(* The names of the fields are the code's: client, writer, disconnectGate, *)
(* isDisconnected, readyResumed.  Output is counted in chunks: the remote  *)
(* has sent some, the pump has taken some of them from the channel and     *)
(* yielded them to the output stream, the session has fed some to the      *)
(* terminal.  Keys are numbered as they are typed.                         *)
(***************************************************************************)
EXTENDS Naturals

CONSTANTS
    MaxSent,    \* bound: chunks of output
    MaxTyped    \* bound: writes by the user

ASSUME SSHClientAssumption == MaxSent \in Nat /\ MaxTyped \in Nat

None == "none"

(* The callers of releaseDisconnectGate.                                   *)
Callers == {"releaser", "disconnect"}

VARIABLES
    session,        \* TerminalSession.state
    winner,         \* the child of withTimeout's group that finished first
    connect,        \* client.connect: None, "running", "ok", "failed"
    task,           \* sessionTask
    pump,           \* the task that reads the channel
    caller,         \* progress of each caller of releaseDisconnectGate
    consumer,       \* TerminalSession.pumpTask
    client, writer, isDisconnected, readyResumed,
    gate,           \* disconnectGate holds a continuation
    readyResumes,   \* times the continuation of connect was resumed
    gateResumes,    \* times the continuation in the gate was resumed
    link,           \* the SSH connection
    channel,        \* the PTY channel inside it
    sent, taken, yielded, fed,
    finished,       \* outputContinuation.finish was called
    bootstrap,      \* pushBootstrap
    typed, writing, input, lost

sessionVars == <<session, winner, connect, consumer>>
taskVars    == <<task, pump, caller, gate, gateResumes>>
fieldVars   == <<client, writer, isDisconnected>>
readyVars   == <<readyResumed, readyResumes>>
netVars     == <<link, channel>>
outVars     == <<sent, taken, yielded, fed, finished>>
keyVars     == <<bootstrap, typed, writing, input, lost>>
vars == <<sessionVars, taskVars, fieldVars, readyVars, netVars, outVars, keyVars>>

Init ==
    /\ session = "idle" /\ winner = None /\ connect = None
    /\ task = None /\ pump = None /\ consumer = None
    /\ caller = [r \in Callers |-> None]
    /\ client = FALSE /\ writer = FALSE /\ isDisconnected = FALSE
    /\ readyResumed = FALSE /\ gate = FALSE /\ finished = FALSE
    /\ readyResumes = 0 /\ gateResumes = 0
    /\ link = None /\ channel = None
    /\ sent = 0 /\ taken = 0 /\ yielded = 0 /\ fed = 0
    /\ bootstrap = None /\ typed = 0 /\ writing = {} /\ input = {} /\ lost = {}

-----------------------------------------------------------------------------
(* Connecting.                                                             *)

(* client.connect returns: the first child of the group to do so wins.     *)
ConnectReturns(result) ==
    /\ connect' = result
    /\ winner' = IF winner = None THEN result ELSE winner

(* Mutant: no test of readyResumed.                                        *)
MaybeResumeUntested(result) ==
    /\ readyResumed' = TRUE
    /\ readyResumes' = readyResumes + 1 /\ ConnectReturns(result)

(* maybeResume: test and set under readyLock, then resume.                 *)
MaybeResume(result) ==
    /\ readyResumed' = TRUE
    /\ IF readyResumed
         THEN UNCHANGED <<readyResumes, connect, winner>>
         ELSE readyResumes' = readyResumes + 1 /\ ConnectReturns(result)

Connect ==
    /\ session = "idle"
    /\ session' = "connecting" /\ connect' = "running"
    /\ UNCHANGED <<winner, consumer, taskVars, fieldVars, readyVars, netVars,
                   outVars, keyVars>>

(* CitadelClient.connect throws, or a key does not parse.                  *)
DialFails ==
    /\ connect = "running" /\ task = None
    /\ ConnectReturns("failed")
    /\ UNCHANGED <<session, consumer, taskVars, fieldVars, readyVars, netVars,
                   outVars, keyVars>>

DialSucceeds ==
    /\ connect = "running" /\ task = None
    /\ link' = "up" /\ client' = TRUE /\ task' = "opening"
    /\ UNCHANGED <<sessionVars, pump, caller, gate, gateResumes, writer,
                   isDisconnected, readyVars, channel, outVars, keyVars>>

(* withPTY throws before it calls its closure.                             *)
PtyRefused ==
    /\ task = "opening"
    /\ MaybeResume("failed")
    /\ finished' = TRUE /\ task' = "ended"
    /\ UNCHANGED <<session, consumer, pump, caller, gate, gateResumes, fieldVars,
                   netVars, sent, taken, yielded, fed, keyVars>>

(* Mutant: the writer is not kept.                                         *)
PtyOpensUnkept ==
    /\ task = "opening" /\ link = "up"
    /\ channel' = "open" /\ task' = "opened"
    /\ UNCHANGED <<sessionVars, pump, caller, gate, gateResumes, fieldVars, readyVars,
                   link, outVars, keyVars>>

(* The closure runs: first it keeps the writer.                            *)
PtyOpens ==
    /\ task = "opening" /\ link = "up"
    /\ channel' = "open" /\ writer' = TRUE /\ task' = "opened"
    /\ UNCHANGED <<sessionVars, pump, caller, gate, gateResumes, client,
                   isDisconnected, readyVars, link, outVars, keyVars>>

(* connect may return now, and the pump may read.                          *)
ReadyResumed ==
    /\ task = "opened"
    /\ MaybeResume("ok")
    /\ pump' = "running" /\ task' = "gating"
    /\ UNCHANGED <<session, consumer, caller, gate, gateResumes, fieldVars, netVars,
                   outVars, keyVars>>

(* The gate is set, then the task is created that releases it at the end   *)
(* of the pump.                                                            *)
GateSet ==
    /\ task = "gating"
    /\ gate' = TRUE /\ task' = "waiting"
    /\ caller' = [caller EXCEPT !["releaser"] = "armed"]
    /\ UNCHANGED <<sessionVars, pump, gateResumes, fieldVars, readyVars, netVars,
                   outVars, keyVars>>

(* The sleep in the group ends: by itself, or because the attempt was      *)
(* cancelled.  The group then waits for client.connect.                    *)
SleepEnds(why) ==
    /\ session = "connecting" /\ winner = None
    /\ winner' = why
    /\ UNCHANGED <<session, connect, consumer, taskVars, fieldVars, readyVars, netVars,
                   outVars, keyVars>>

(* The group has returned or thrown, and TerminalSession.connect goes on.  *)
Opens ==
    /\ session = "connecting" /\ winner = "ok"
    /\ session' = "open" /\ consumer' = "running"
    /\ UNCHANGED <<winner, connect, taskVars, fieldVars, readyVars, netVars, outVars,
                   keyVars>>

Fails ==
    /\ session = "connecting" /\ winner \in {"failed", "cancelled"}
    /\ connect # "running"
    /\ session' = "closed"
    /\ UNCHANGED <<winner, connect, consumer, taskVars, fieldVars, readyVars, netVars,
                   outVars, keyVars>>

(* disconnect is called here and by Back; isDisconnected lets one call in. *)
Disconnect ==
    IF isDisconnected
      THEN UNCHANGED <<isDisconnected, caller>>
      ELSE /\ isDisconnected' = TRUE
           /\ caller' = [caller EXCEPT !["disconnect"] = "called"]

TimedOut ==
    /\ session = "connecting" /\ winner = "timeout" /\ connect # "running"
    /\ session' = "closed" /\ Disconnect
    /\ UNCHANGED <<winner, connect, consumer, task, pump, gate, gateResumes, client,
                   writer, readyVars, netVars, outVars, keyVars>>

-----------------------------------------------------------------------------
(* The channel and its output.                                             *)

RemoteSends ==
    /\ channel = "open" /\ sent < MaxSent
    /\ sent' = sent + 1
    /\ UNCHANGED <<sessionVars, taskVars, fieldVars, readyVars, netVars, taken,
                   yielded, fed, finished, keyVars>>

(* The shell exits; the SSH connection stays up.                           *)
RemoteEnds ==
    /\ channel = "open" /\ channel' = "ended"
    /\ UNCHANGED <<sessionVars, taskVars, fieldVars, readyVars, link, outVars, keyVars>>

EndChannel == channel' = IF channel = "open" THEN "ended" ELSE channel

(* The peer resets the connection, or the keepalive gives it up.           *)
LinkBreaks ==
    /\ link = "up"
    /\ link' = "closed" /\ EndChannel
    /\ UNCHANGED <<sessionVars, taskVars, fieldVars, readyVars, outVars, keyVars>>

(* The pump yields a chunk, which a finished stream drops, and starts the  *)
(* bootstrap with the first one.                                           *)
PumpTakes ==
    /\ pump \in {"running", "cancelled"} /\ taken < sent
    /\ taken' = taken + 1
    /\ yielded' = IF finished THEN yielded ELSE yielded + 1
    /\ bootstrap' = IF bootstrap = None THEN "pushing" ELSE bootstrap
    /\ UNCHANGED <<sessionVars, taskVars, fieldVars, readyVars, netVars, sent, fed,
                   finished, typed, writing, input, lost>>

PumpEnds ==
    /\ \/ pump = "cancelled"
       \/ pump = "running" /\ channel = "ended" /\ taken = sent
    /\ pump' = "done"
    /\ UNCHANGED <<sessionVars, task, caller, gate, gateResumes, fieldVars, readyVars,
                   netVars, outVars, keyVars>>

(* TerminalSession.pumpTask.                                               *)
ConsumerFeeds ==
    /\ consumer = "running" /\ fed < yielded
    /\ fed' = fed + 1
    /\ UNCHANGED <<sessionVars, taskVars, fieldVars, readyVars, netVars, sent, taken,
                   yielded, finished, keyVars>>

ConsumerEnds ==
    /\ \/ consumer = "cancelled"
       \/ consumer = "running" /\ finished /\ fed = yielded
    /\ consumer' = "done"
    /\ session' = IF session = "open" THEN "ended" ELSE session
    /\ UNCHANGED <<winner, connect, taskVars, fieldVars, readyVars, netVars, outVars,
                   keyVars>>

-----------------------------------------------------------------------------
(* The end of the connection.                                              *)

(* Back, a swap, or a second connect over the live session.                *)
UserDisconnects ==
    /\ session \in {"open", "ended"}
    /\ session' = "closed"
    /\ consumer' = IF consumer = "running" THEN "cancelled" ELSE consumer
    /\ Disconnect
    /\ UNCHANGED <<winner, connect, task, pump, gate, gateResumes, client, writer,
                   readyVars, netVars, outVars, keyVars>>

(* Mutants: the pump is not awaited; a client already told to disconnect   *)
(* is left alone.                                                          *)
ReleaserHasty ==
    /\ caller["releaser"] = "armed"
    /\ caller' = [caller EXCEPT !["releaser"] = "called"]
    /\ UNCHANGED <<sessionVars, task, pump, gate, gateResumes, fieldVars, readyVars,
                   netVars, outVars, keyVars>>
ReleaserTimid ==
    /\ caller["releaser"] = "armed" /\ pump = "done"
    /\ caller' = [caller EXCEPT !["releaser"] =
                     IF isDisconnected THEN "released" ELSE "called"]
    /\ UNCHANGED <<sessionVars, task, pump, gate, gateResumes, fieldVars, readyVars,
                   netVars, outVars, keyVars>>

(* The task that awaits the pump and then releases the gate.               *)
ReleaserWakes ==
    /\ caller["releaser"] = "armed" /\ pump = "done"
    /\ caller' = [caller EXCEPT !["releaser"] = "called"]
    /\ UNCHANGED <<sessionVars, task, pump, gate, gateResumes, fieldVars, readyVars,
                   netVars, outVars, keyVars>>

(* releaseDisconnectGate: the test, and then the two statements under it,  *)
(* with nothing to keep the other caller out.                              *)
ReadGate(r) ==
    /\ caller[r] = "called"
    /\ caller' = [caller EXCEPT ![r] = IF gate THEN "holding" ELSE "released"]
    /\ UNCHANGED <<sessionVars, task, pump, gate, gateResumes, fieldVars, readyVars,
                   netVars, outVars, keyVars>>

ResumeGate(r) ==
    /\ caller[r] = "holding"
    /\ gate' = FALSE /\ gateResumes' = gateResumes + 1
    /\ task' = IF task = "waiting" THEN "leaving" ELSE task
    /\ caller' = [caller EXCEPT ![r] = "released"]
    /\ UNCHANGED <<sessionVars, pump, fieldVars, readyVars, netVars, outVars, keyVars>>

(* Mutant: releasing the gate is taken to be enough.                       *)
CloseNothing ==
    /\ caller["disconnect"] = "released"
    /\ caller' = [caller EXCEPT !["disconnect"] = "closing"]
    /\ UNCHANGED <<sessionVars, task, pump, gate, gateResumes, fieldVars, readyVars,
                   netVars, outVars, keyVars>>

(* The rest of disconnect: close the client, then forget the fields.       *)
CloseLink ==
    /\ caller["disconnect"] = "released"
    /\ caller' = [caller EXCEPT !["disconnect"] = "closing"]
    /\ IF client
         THEN link' = "closed" /\ EndChannel
         ELSE UNCHANGED netVars
    /\ UNCHANGED <<sessionVars, task, pump, gate, gateResumes, fieldVars, readyVars,
                   outVars, keyVars>>

ClearFields ==
    /\ caller["disconnect"] = "closing"
    /\ caller' = [caller EXCEPT !["disconnect"] = "closed"]
    /\ client' = FALSE /\ writer' = FALSE
    /\ UNCHANGED <<sessionVars, task, pump, gate, gateResumes, isDisconnected,
                   readyVars, netVars, outVars, keyVars>>

(* The closure goes on after the gate, cancels the pump and returns.       *)
LeaveClosure ==
    /\ task = "leaving"
    /\ pump' = IF pump = "running" THEN "cancelled" ELSE pump
    /\ task' = "closing"
    /\ UNCHANGED <<sessionVars, caller, gate, gateResumes, fieldVars, readyVars,
                   netVars, outVars, keyVars>>

(* Mutant: the output stream is not finished.                              *)
TaskEndsUnfinished ==
    /\ task = "closing"
    /\ MaybeResume("failed") \/ UNCHANGED <<readyVars, connect, winner>>
    /\ EndChannel
    /\ task' = "ended"
    /\ UNCHANGED <<session, consumer, pump, caller, gate, gateResumes, fieldVars, link,
                   outVars, keyVars>>

(* withPTY closes the channel, and throws where it cannot.                 *)
TaskEnds ==
    /\ task = "closing"
    /\ MaybeResume("failed") \/ UNCHANGED <<readyVars, connect, winner>>
    /\ EndChannel
    /\ finished' = TRUE /\ task' = "ended"
    /\ UNCHANGED <<session, consumer, pump, caller, gate, gateResumes, fieldVars, link,
                   sent, taken, yielded, fed, keyVars>>

-----------------------------------------------------------------------------
(* Input.                                                                  *)

(* send: every write has a task of its own.                                *)
Send ==
    /\ session = "open" /\ typed < MaxTyped
    /\ typed' = typed + 1 /\ writing' = writing \cup {typed + 1}
    /\ UNCHANGED <<sessionVars, taskVars, fieldVars, readyVars, netVars, outVars,
                   bootstrap, input, lost>>

(* write: an error is thrown, and swallowed by send, when there is no      *)
(* writer or its channel is closed.                                        *)
Write(k) ==
    /\ k \in writing
    /\ writing' = writing \ {k}
    /\ IF writer /\ channel = "open"
         THEN input' = input \cup {k} /\ UNCHANGED lost
         ELSE lost' = lost \cup {k} /\ UNCHANGED input
    /\ UNCHANGED <<sessionVars, taskVars, fieldVars, readyVars, netVars, outVars,
                   bootstrap, typed>>

(* pushBootstrap: nothing to push, no SFTP, or the source line is written. *)
SourceLine == 0
BootstrapEnds ==
    /\ bootstrap = "pushing"
    /\ bootstrap' = "done"
    /\ \/ UNCHANGED input
       \/ channel = "open" /\ input' = input \cup {SourceLine}
    /\ UNCHANGED <<sessionVars, taskVars, fieldVars, readyVars, netVars, outVars,
                   typed, writing, lost>>

-----------------------------------------------------------------------------
(* A second resume of a checked continuation traps: nothing goes on.       *)
Trapped == gateResumes > 1 \/ readyResumes > 1

(* What the tasks do by themselves, each with its sequential code.         *)
SessionTask == ReadyResumed \/ GateSet \/ LeaveClosure \/ TaskEnds
MainActor == Opens \/ Fails \/ TimedOut \/ ConsumerFeeds \/ ConsumerEnds
Pump == PumpTakes \/ PumpEnds
Caller(r) ==
    \/ ReadGate(r) \/ ResumeGate(r)
    \/ r = "releaser" /\ ReleaserWakes
    \/ r = "disconnect" /\ (CloseLink \/ ClearFields)
Writes == BootstrapEnds \/ \E k \in 1 .. MaxTyped : Write(k)

(* What the user and the other side may do.                                *)
Environment ==
    \/ Connect \/ UserDisconnects \/ Send
    \/ \E why \in {"timeout", "cancelled"} : SleepEnds(why)
    \/ DialFails \/ DialSucceeds \/ PtyRefused \/ PtyOpens
    \/ RemoteSends \/ RemoteEnds \/ LinkBreaks

Next ==
    /\ ~Trapped
    /\ \/ SessionTask \/ MainActor \/ Pump \/ Writes \/ Environment
       \/ \E r \in Callers : Caller(r)

Spec == Init /\ [][Next]_vars

(* Tasks that can run are run.  Nothing is asked of the user, of the       *)
(* remote, of the host that is dialled, or of the bootstrap.               *)
FairSpec ==
    /\ Spec
    /\ WF_vars(~Trapped /\ SessionTask) /\ WF_vars(~Trapped /\ MainActor)
    /\ WF_vars(~Trapped /\ Pump)
    /\ \A r \in Callers : WF_vars(~Trapped /\ Caller(r))

-----------------------------------------------------------------------------
(* Properties.                                                             *)

PhaseType ==
    /\ session \in {"idle", "connecting", "open", "ended", "closed"}
    /\ winner \in {None, "ok", "failed", "timeout", "cancelled"}
    /\ connect \in {None, "running", "ok", "failed"}
    /\ task \in {None, "opening", "opened", "gating", "waiting", "leaving",
                 "closing", "ended"}
    /\ pump \in {None, "running", "cancelled", "done"}
    /\ consumer \in {None, "running", "cancelled", "done"}
    /\ client \in BOOLEAN /\ writer \in BOOLEAN /\ isDisconnected \in BOOLEAN
    /\ readyResumed \in BOOLEAN /\ gate \in BOOLEAN /\ finished \in BOOLEAN
    /\ link \in {None, "up", "closed"} /\ channel \in {None, "open", "ended"}
    /\ bootstrap \in {None, "pushing", "done"}

CallerType ==
    caller \in [Callers -> {None, "armed", "called", "holding", "released",
                            "closing", "closed"}]

CountType ==
    /\ readyResumes \in Nat /\ gateResumes \in 0 .. 2
    /\ sent \in 0 .. MaxSent /\ taken \in 0 .. sent
    /\ yielded \in 0 .. taken /\ fed \in 0 .. yielded

KeyType ==
    /\ typed \in 0 .. MaxTyped /\ writing \subseteq 1 .. typed
    /\ input \subseteq 0 .. typed /\ lost \subseteq 1 .. typed

(* Type invariant: the fields of both classes, how far each task is, and   *)
(* no chunk fed before it was yielded, taken and sent.                     *)
TypeOK == PhaseType /\ CallerType /\ CountType /\ KeyType

(* The continuation connect waits for is resumed once, although withPTY    *)
(* may throw long after the PTY was ready (maybeResume).                   *)
ReadyOnce == readyResumes <= 1

(* No lost wakeup: while the session task waits at the gate, the end of    *)
(* the pump or a call already under way will release it, even when         *)
(* disconnect came before the gate was set.                                *)
GateBacked ==
    task = "waiting" =>
        \/ \E r \in Callers : caller[r] = "holding"
        \/ gate /\ caller["releaser"] \in {"armed", "called"}

(* A key typed in an open session reaches the remote unless the channel    *)
(* ended: connect has kept the writer before it returns.                   *)
KeysReachRemote == lost # {} => channel = "ended"

(* A session that says the connection ended has shown all that the remote  *)
(* sent: the stream is finished only after the pump emptied the channel.   *)
EndedWhole == session = "ended" => fed = sent

(* What connect has returned agrees with the session and with the race.    *)
ConnectInv ==
    /\ session = "idle" <=> connect = None
    /\ session = "idle" => winner = None
    /\ winner \in {"ok", "failed"} => connect = winner
    /\ session \in {"open", "ended"} => winner = "ok"
    /\ isDisconnected => session = "closed" /\ connect # "running"
    /\ caller["disconnect"] # None => isDisconnected

(* How far the session task is agrees with what connect has returned.      *)
TaskInv ==
    /\ readyResumes = IF readyResumed THEN 1 ELSE 0
    /\ readyResumed <=> task \notin {None, "opening", "opened"}
    /\ task \in {"opening", "opened"} => connect = "running"
    /\ connect = "ok" => readyResumed
    /\ task \in {"gating", "waiting", "leaving", "closing"} \/ pump # None =>
          connect = "ok"
    /\ task \in {None, "opening", "opened", "gating"} => caller["releaser"] = None
    /\ task = "opened" => pump = None

(* The fields of an open connection are set until disconnect clears them.  *)
FieldsInv ==
    /\ task # None => client \/ caller["disconnect"] = "closed"
    /\ connect = "ok" \/ task = "opened" =>
          channel # None /\ (writer \/ caller["disconnect"] = "closed")
    /\ channel = "open" =>
          /\ task \notin {None, "opening"}
          /\ caller["disconnect"] \notin {"closing", "closed"}
    /\ typed > 0 => connect = "ok"

(* Unless disconnect was called, the session task goes past the gate only  *)
(* after the pump has passed on all of the output.                         *)
DrainInv ==
    /\ caller["releaser"] \in {"called", "holding", "released"} => pump = "done"
    /\ finished => task = "ended"
    /\ ~finished \/ ~isDisconnected => yielded = taken
    /\ ~isDisconnected =>
          /\ pump # "cancelled"
          /\ pump = "done" => channel = "ended" /\ taken = sent
          /\ task \in {"leaving", "closing"} => pump = "done"
          /\ task = "ended" /\ connect = "ok" => pump = "done"
    /\ consumer = "running" => session = "open"
    /\ consumer = "cancelled" => session = "closed"
    /\ session = "ended" => channel = "ended"

(* The inductive invariant: what the tasks, in whatever order they run,    *)
(* never let go of.                                                        *)
SSHInv ==
    /\ TypeOK /\ ConnectInv /\ TaskInv /\ FieldsInv /\ DrainInv
    /\ GateBacked /\ KeysReachRemote /\ EndedWhole

(* disconnect gets through: the connection is closed and the session task  *)
(* is over, unless the process trapped.                                    *)
DisconnectCloses ==
    caller["disconnect"] # None ~>
        Trapped \/ (link # "up" /\ task \in {None, "ended"})

(* The end of the channel gets through: an open session is left.           *)
RemoteEndSeen ==
    session = "open" /\ channel = "ended" ~> Trapped \/ session # "open"

=============================================================================
