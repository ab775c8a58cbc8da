-------------------------- MODULE SSHClientProofs ---------------------------
(***************************************************************************)
(* Proofs about SSHClient: SSHInv is inductive, for any amount of output   *)
(* and input.  One lemma per part of SSHInv, with one step per process:    *)
(* the session task, the main actor, the pump, the callers of the gate,    *)
(* the writes, and what is outside.                                        *)
(***************************************************************************)
EXTENDS SSHClient, TLAPS

(* Each part of the type invariant is kept.                                *)
LEMMA PhaseStep ==
    ASSUME PhaseType, ~Trapped, [Next]_vars
    PROVE  PhaseType'
<1> USE DEF PhaseType, vars, sessionVars, taskVars, fieldVars, readyVars,
        netVars, outVars, keyVars, ConnectReturns, MaybeResume, EndChannel,
        Disconnect, Callers, None, Trapped
<1>1. CASE SessionTask
  BY <1>1 DEF SessionTask, ReadyResumed, GateSet, LeaveClosure, TaskEnds
<1>2. CASE MainActor
  BY <1>2 DEF MainActor, Opens, Fails, TimedOut, ConsumerFeeds, ConsumerEnds
<1>3. CASE Pump
  BY <1>3 DEF Pump, PumpTakes, PumpEnds
<1>4. ASSUME NEW r \in Callers, Caller(r)
      PROVE  PhaseType'
  BY <1>4 DEF Caller, ReadGate, ResumeGate, ReleaserWakes, CloseLink,
    ClearFields
<1>5. CASE Writes
  BY <1>5 DEF Writes, Write, BootstrapEnds
<1>6. CASE Environment
  <2>1. CASE Connect
    BY <2>1 DEF Connect
  <2>2. CASE UserDisconnects
    <3>1. consumer' \in {None, "running", "cancelled", "done"}
      BY <2>2 DEF UserDisconnects
    <3>2. isDisconnected' \in BOOLEAN
      BY <2>2 DEF UserDisconnects
    <3>3. /\ session' = "closed"
          /\ UNCHANGED <<winner, connect, task, pump, gate, client, writer,
                         readyResumed, link, channel, finished, bootstrap>>
      BY <2>2 DEF UserDisconnects
    <3>4. QED
      BY <3>1, <3>2, <3>3
  <2>3. CASE Send
    BY <2>3 DEF Send
  <2>4. ASSUME NEW why \in {"timeout", "cancelled"}, SleepEnds(why)
       PROVE  PhaseType'
    BY <2>4 DEF SleepEnds
  <2>5. CASE DialFails
    BY <2>5 DEF DialFails
  <2>6. CASE DialSucceeds
    BY <2>6 DEF DialSucceeds
  <2>7. CASE PtyRefused
    BY <2>7 DEF PtyRefused
  <2>8. CASE PtyOpens
    BY <2>8 DEF PtyOpens
  <2>9. CASE RemoteSends
    BY <2>9 DEF RemoteSends
  <2>10. CASE RemoteEnds
    BY <2>10 DEF RemoteEnds
  <2>11. CASE LinkBreaks
    BY <2>11 DEF LinkBreaks
  <2>12. QED
    BY <1>6, <2>1, <2>2, <2>3, <2>4, <2>5, <2>6, <2>7, <2>8, <2>9, <2>10, <2>11
    DEF Environment
<1>7. CASE UNCHANGED vars
  BY <1>7
<1>8. QED
  BY <1>1, <1>2, <1>3, <1>4, <1>5, <1>6, <1>7 DEF Next

(* Each step keeps the type of the caller's side,                          *)
LEMMA CallerStep ==
    ASSUME CallerType, ~Trapped, [Next]_vars
    PROVE  CallerType'
<1> USE DEF CallerType, vars, sessionVars, taskVars, fieldVars, readyVars,
        netVars, outVars, keyVars, ConnectReturns, MaybeResume, EndChannel,
        Disconnect, Callers, None, Trapped
<1>1. CASE SessionTask
  BY <1>1 DEF SessionTask, ReadyResumed, GateSet, LeaveClosure, TaskEnds
<1>2. CASE MainActor
  BY <1>2 DEF MainActor, Opens, Fails, TimedOut, ConsumerFeeds, ConsumerEnds
<1>3. CASE Pump
  BY <1>3 DEF Pump, PumpTakes, PumpEnds
<1>4. ASSUME NEW r \in Callers, Caller(r)
      PROVE  CallerType'
  BY <1>4 DEF Caller, ReadGate, ResumeGate, ReleaserWakes, CloseLink,
    ClearFields
<1>5. CASE Writes
  BY <1>5 DEF Writes, Write, BootstrapEnds
<1>6. CASE Environment
  BY <1>6 DEF Environment, Connect, UserDisconnects, Send, SleepEnds, DialFails,
    DialSucceeds, PtyRefused, PtyOpens, RemoteSends, RemoteEnds, LinkBreaks
<1>7. CASE UNCHANGED vars
  BY <1>7
<1>8. QED
  BY <1>1, <1>2, <1>3, <1>4, <1>5, <1>6, <1>7 DEF Next

(* of the counts of chunks,                                                *)
LEMMA CountStep ==
    ASSUME CountType, ~Trapped, [Next]_vars
    PROVE  CountType'
<1> USE SSHClientAssumption DEF CountType, vars, sessionVars, taskVars,
        fieldVars, readyVars, netVars, outVars, keyVars, ConnectReturns,
        MaybeResume, EndChannel, Disconnect, Callers, None, Trapped
<1>1. CASE SessionTask
  BY <1>1 DEF SessionTask, ReadyResumed, GateSet, LeaveClosure, TaskEnds
<1>2. CASE MainActor
  BY <1>2 DEF MainActor, Opens, Fails, TimedOut, ConsumerFeeds, ConsumerEnds
<1>3. CASE Pump
  BY <1>3 DEF Pump, PumpTakes, PumpEnds
<1>4. ASSUME NEW r \in Callers, Caller(r)
      PROVE  CountType'
  BY <1>4 DEF Caller, ReadGate, ResumeGate, ReleaserWakes, CloseLink,
    ClearFields
<1>5. CASE Writes
  BY <1>5 DEF Writes, Write, BootstrapEnds
<1>6. CASE Environment
  <2>1. CASE Connect
    BY <2>1 DEF Connect
  <2>2. CASE UserDisconnects
    BY <2>2 DEF UserDisconnects
  <2>3. CASE Send
    BY <2>3 DEF Send
  <2>4. ASSUME NEW why \in {"timeout", "cancelled"}, SleepEnds(why)
       PROVE  CountType'
    BY <2>4 DEF SleepEnds
  <2>5. CASE DialFails
    BY <2>5 DEF DialFails
  <2>6. CASE DialSucceeds
    BY <2>6 DEF DialSucceeds
  <2>7. CASE PtyRefused
    BY <2>7 DEF PtyRefused
  <2>8. CASE PtyOpens
    BY <2>8 DEF PtyOpens
  <2>9. CASE RemoteSends
    <3>1. sent' = sent + 1 /\ sent < MaxSent
      BY <2>9 DEF RemoteSends
    <3>2. UNCHANGED <<taken, yielded, fed, readyResumes, gateResumes>>
      BY <2>9 DEF RemoteSends
    <3>3. QED
      BY <3>1, <3>2
  <2>10. CASE RemoteEnds
    BY <2>10 DEF RemoteEnds
  <2>11. CASE LinkBreaks
    BY <2>11 DEF LinkBreaks
  <2>12. QED
    BY <1>6, <2>1, <2>2, <2>3, <2>4, <2>5, <2>6, <2>7, <2>8, <2>9, <2>10, <2>11
    DEF Environment
<1>7. CASE UNCHANGED vars
  BY <1>7
<1>8. QED
  BY <1>1, <1>2, <1>3, <1>4, <1>5, <1>6, <1>7 DEF Next

(* of the keys,                                                            *)
LEMMA KeyStep ==
    ASSUME KeyType, ~Trapped, [Next]_vars
    PROVE  KeyType'
<1> USE SSHClientAssumption DEF KeyType, vars, sessionVars, taskVars, fieldVars,
        readyVars, netVars, outVars, keyVars, ConnectReturns, MaybeResume,
        EndChannel, Disconnect, Callers, None, Trapped
<1>1. CASE SessionTask
  BY <1>1 DEF SessionTask, ReadyResumed, GateSet, LeaveClosure, TaskEnds
<1>2. CASE MainActor
  BY <1>2 DEF MainActor, Opens, Fails, TimedOut, ConsumerFeeds, ConsumerEnds
<1>3. CASE Pump
  BY <1>3 DEF Pump, PumpTakes, PumpEnds
<1>4. ASSUME NEW r \in Callers, Caller(r)
      PROVE  KeyType'
  BY <1>4 DEF Caller, ReadGate, ResumeGate, ReleaserWakes, CloseLink,
    ClearFields
<1>5. CASE Writes
  <2>1. ASSUME NEW k \in 1 .. MaxTyped, Write(k)
       PROVE  KeyType'
    <3>1. k \in writing /\ UNCHANGED typed
      BY <2>1 DEF Write
    <3>2. writing' = writing \ {k}
      BY <2>1 DEF Write
    <3>3. input' \in {input, input \cup {k}} /\ lost' \in {lost, lost \cup {k}}
      BY <2>1 DEF Write
    <3>4. k \in 1 .. typed /\ k \in 0 .. typed
      BY <3>1
    <3>5. QED
      BY <3>1, <3>2, <3>3, <3>4
  <2>2. CASE BootstrapEnds
    <3>1. input' \in {input, input \cup {0}}
      BY <2>2 DEF BootstrapEnds, SourceLine
    <3>2. UNCHANGED <<typed, writing, lost>>
      BY <2>2 DEF BootstrapEnds
    <3>3. 0 \in 0 .. typed
      OBVIOUS
    <3>4. QED
      BY <3>1, <3>2, <3>3
  <2>3. QED
    BY <1>5, <2>1, <2>2 DEF Writes
<1>6. CASE Environment
  <2>1. CASE Connect
    BY <2>1 DEF Connect
  <2>2. CASE UserDisconnects
    BY <2>2 DEF UserDisconnects
  <2>3. CASE Send
    <3>1. typed < MaxTyped /\ typed' = typed + 1
      BY <2>3 DEF Send
    <3>2. writing' = writing \cup {typed + 1} /\ UNCHANGED <<input, lost>>
      BY <2>3 DEF Send
    <3>3. 1 .. typed \subseteq 1 .. typed + 1 /\ 0 .. typed \subseteq 0 .. typed + 1
      OBVIOUS
    <3>4. typed + 1 \in 1 .. typed + 1 /\ typed' \in 0 .. MaxTyped
      BY <3>1
    <3>5. QED
      BY <3>1, <3>2, <3>3, <3>4
  <2>4. ASSUME NEW why \in {"timeout", "cancelled"}, SleepEnds(why)
       PROVE  KeyType'
    BY <2>4 DEF SleepEnds
  <2>5. CASE DialFails
    BY <2>5 DEF DialFails
  <2>6. CASE DialSucceeds
    BY <2>6 DEF DialSucceeds
  <2>7. CASE PtyRefused
    BY <2>7 DEF PtyRefused
  <2>8. CASE PtyOpens
    BY <2>8 DEF PtyOpens
  <2>9. CASE RemoteSends
    BY <2>9 DEF RemoteSends
  <2>10. CASE RemoteEnds
    BY <2>10 DEF RemoteEnds
  <2>11. CASE LinkBreaks
    BY <2>11 DEF LinkBreaks
  <2>12. QED
    BY <1>6, <2>1, <2>2, <2>3, <2>4, <2>5, <2>6, <2>7, <2>8, <2>9, <2>10, <2>11
    DEF Environment
<1>7. CASE UNCHANGED vars
  BY <1>7
<1>8. QED
  BY <1>1, <1>2, <1>3, <1>4, <1>5, <1>6, <1>7 DEF Next

(* connect returns once, and disconnect is called only after that.         *)
LEMMA ConnectStep ==
    ASSUME TypeOK, ConnectInv, TaskInv, ~Trapped, [Next]_vars
    PROVE  ConnectInv'
<1> USE DEF TypeOK, PhaseType, CallerType, CountType, KeyType, ConnectInv,
        TaskInv, vars, sessionVars, taskVars, fieldVars, readyVars, netVars,
        outVars, keyVars, ConnectReturns, MaybeResume, EndChannel, Disconnect,
        Callers, None, Trapped
<1>1. CASE SessionTask
  BY <1>1 DEF SessionTask, ReadyResumed, GateSet, LeaveClosure, TaskEnds
<1>2. CASE MainActor
  BY <1>2 DEF MainActor, Opens, Fails, TimedOut, ConsumerFeeds, ConsumerEnds
<1>3. CASE Pump
  BY <1>3 DEF Pump, PumpTakes, PumpEnds
<1>4. ASSUME NEW r \in Callers, Caller(r)
      PROVE  ConnectInv'
  BY <1>4 DEF Caller, ReadGate, ResumeGate, ReleaserWakes, CloseLink,
    ClearFields
<1>5. CASE Writes
  BY <1>5 DEF Writes, Write, BootstrapEnds
<1>6. CASE Environment
  BY <1>6 DEF Environment, Connect, UserDisconnects, Send, SleepEnds, DialFails,
    DialSucceeds, PtyRefused, PtyOpens, RemoteSends, RemoteEnds, LinkBreaks
<1>7. CASE UNCHANGED vars
  BY <1>7
<1>8. QED
  BY <1>1, <1>2, <1>3, <1>4, <1>5, <1>6, <1>7 DEF Next

(* The session task resumes connect on its way, whatever withPTY throws.   *)
LEMMA TaskStep ==
    ASSUME TypeOK, ConnectInv, TaskInv, ~Trapped, [Next]_vars
    PROVE  TaskInv'
<1> USE DEF TypeOK, PhaseType, CallerType, CountType, KeyType, ConnectInv,
        TaskInv, vars, sessionVars, taskVars, fieldVars, readyVars, netVars,
        outVars, keyVars, ConnectReturns, MaybeResume, EndChannel, Disconnect,
        Callers, None, Trapped
<1>1. CASE SessionTask
  BY <1>1 DEF SessionTask, ReadyResumed, GateSet, LeaveClosure, TaskEnds
<1>2. CASE MainActor
  BY <1>2 DEF MainActor, Opens, Fails, TimedOut, ConsumerFeeds, ConsumerEnds
<1>3. CASE Pump
  BY <1>3 DEF Pump, PumpTakes, PumpEnds
<1>4. ASSUME NEW r \in Callers, Caller(r)
      PROVE  TaskInv'
  BY <1>4 DEF Caller, ReadGate, ResumeGate, ReleaserWakes, CloseLink,
    ClearFields
<1>5. CASE Writes
  BY <1>5 DEF Writes, Write, BootstrapEnds
<1>6. CASE Environment
  BY <1>6 DEF Environment, Connect, UserDisconnects, Send, SleepEnds, DialFails,
    DialSucceeds, PtyRefused, PtyOpens, RemoteSends, RemoteEnds, LinkBreaks
<1>7. CASE UNCHANGED vars
  BY <1>7
<1>8. QED
  BY <1>1, <1>2, <1>3, <1>4, <1>5, <1>6, <1>7 DEF Next

(* disconnect forgets the fields after it closed the channel they are for. *)
LEMMA FieldsStep ==
    ASSUME TypeOK, ConnectInv, TaskInv, FieldsInv, ~Trapped, [Next]_vars
    PROVE  FieldsInv'
<1> USE DEF TypeOK, PhaseType, CallerType, CountType, KeyType, ConnectInv,
        TaskInv, FieldsInv, vars, sessionVars, taskVars, fieldVars, readyVars,
        netVars, outVars, keyVars, ConnectReturns, MaybeResume, EndChannel,
        Disconnect, Callers, None, Trapped
<1>1. CASE SessionTask
  BY <1>1 DEF SessionTask, ReadyResumed, GateSet, LeaveClosure, TaskEnds
<1>2. CASE MainActor
  BY <1>2 DEF MainActor, Opens, Fails, TimedOut, ConsumerFeeds, ConsumerEnds
<1>3. CASE Pump
  BY <1>3 DEF Pump, PumpTakes, PumpEnds
<1>4. ASSUME NEW r \in Callers, Caller(r)
      PROVE  FieldsInv'
  BY <1>4 DEF Caller, ReadGate, ResumeGate, ReleaserWakes, CloseLink,
    ClearFields
<1>5. CASE Writes
  BY <1>5 DEF Writes, Write, BootstrapEnds
<1>6. CASE Environment
  BY <1>6 DEF Environment, Connect, UserDisconnects, Send, SleepEnds, DialFails,
    DialSucceeds, PtyRefused, PtyOpens, RemoteSends, RemoteEnds, LinkBreaks
<1>7. CASE UNCHANGED vars
  BY <1>7
<1>8. QED
  BY <1>1, <1>2, <1>3, <1>4, <1>5, <1>6, <1>7 DEF Next

(* Only disconnect lets the session task overtake the pump.                *)
LEMMA DrainStep ==
    ASSUME TypeOK, ConnectInv, TaskInv, FieldsInv, DrainInv, ~Trapped, [Next]_vars
    PROVE  DrainInv'
<1> USE DEF TypeOK, PhaseType, CallerType, CountType, KeyType, ConnectInv,
        TaskInv, FieldsInv, DrainInv, vars, sessionVars, taskVars, fieldVars,
        readyVars, netVars, outVars, keyVars, ConnectReturns, MaybeResume,
        EndChannel, Disconnect, Callers, None, Trapped
<1>1. CASE SessionTask
  BY <1>1 DEF SessionTask, ReadyResumed, GateSet, LeaveClosure, TaskEnds
<1>2. CASE MainActor
  BY <1>2 DEF MainActor, Opens, Fails, TimedOut, ConsumerFeeds, ConsumerEnds
<1>3. CASE Pump
  BY <1>3 DEF Pump, PumpTakes, PumpEnds
<1>4. ASSUME NEW r \in Callers, Caller(r)
      PROVE  DrainInv'
  BY <1>4 DEF Caller, ReadGate, ResumeGate, ReleaserWakes, CloseLink,
    ClearFields
<1>5. CASE Writes
  BY <1>5 DEF Writes, Write, BootstrapEnds
<1>6. CASE Environment
  BY <1>6 DEF Environment, Connect, UserDisconnects, Send, SleepEnds, DialFails,
    DialSucceeds, PtyRefused, PtyOpens, RemoteSends, RemoteEnds, LinkBreaks
<1>7. CASE UNCHANGED vars
  BY <1>7
<1>8. QED
  BY <1>1, <1>2, <1>3, <1>4, <1>5, <1>6, <1>7 DEF Next

(* A waiting task keeps someone who will release it.                       *)
LEMMA GateStep ==
    ASSUME TypeOK, ConnectInv, TaskInv, GateBacked, ~Trapped, [Next]_vars
    PROVE  GateBacked'
<1> USE DEF TypeOK, PhaseType, CallerType, CountType, KeyType, ConnectInv,
        TaskInv, GateBacked, vars, sessionVars, taskVars, fieldVars, readyVars,
        netVars, outVars, keyVars, ConnectReturns, MaybeResume, EndChannel,
        Disconnect, Callers, None, Trapped
<1>1. CASE SessionTask
  BY <1>1 DEF SessionTask, ReadyResumed, GateSet, LeaveClosure, TaskEnds
<1>2. CASE MainActor
  <2>1. CASE Opens
    BY <2>1 DEF Opens
  <2>2. CASE Fails
    BY <2>2 DEF Fails
  <2>3. CASE TimedOut
    <3>1. UNCHANGED <<task, gate>>
      BY <2>3 DEF TimedOut
    <3>2. \A r \in Callers : r # "disconnect" => caller'[r] = caller[r]
      BY <2>3 DEF TimedOut
    <3>3. caller["disconnect"] = "holding" => caller' = caller
      BY <2>3 DEF TimedOut
    <3>4. QED
      BY <3>1, <3>2, <3>3
  <2>4. CASE ConsumerFeeds
    BY <2>4 DEF ConsumerFeeds
  <2>5. CASE ConsumerEnds
    BY <2>5 DEF ConsumerEnds
  <2>6. QED
    BY <1>2, <2>1, <2>2, <2>3, <2>4, <2>5 DEF MainActor
<1>3. CASE Pump
  BY <1>3 DEF Pump, PumpTakes, PumpEnds
<1>4. ASSUME NEW r \in Callers, Caller(r)
      PROVE  GateBacked'
  BY <1>4 DEF Caller, ReadGate, ResumeGate, ReleaserWakes, CloseLink,
    ClearFields
<1>5. CASE Writes
  BY <1>5 DEF Writes, Write, BootstrapEnds
<1>6. CASE Environment
  <2>1. CASE Connect
    BY <2>1 DEF Connect
  <2>2. CASE UserDisconnects
    <3>1. UNCHANGED <<task, gate>>
      BY <2>2 DEF UserDisconnects
    <3>2. \A r \in Callers : r # "disconnect" => caller'[r] = caller[r]
      BY <2>2 DEF UserDisconnects
    <3>3. caller["disconnect"] = "holding" => caller' = caller
      BY <2>2 DEF UserDisconnects
    <3>4. QED
      BY <3>1, <3>2, <3>3
  <2>3. CASE Send
    BY <2>3 DEF Send
  <2>4. ASSUME NEW why \in {"timeout", "cancelled"}, SleepEnds(why)
       PROVE  GateBacked'
    BY <2>4 DEF SleepEnds
  <2>5. CASE DialFails
    BY <2>5 DEF DialFails
  <2>6. CASE DialSucceeds
    BY <2>6 DEF DialSucceeds
  <2>7. CASE PtyRefused
    BY <2>7 DEF PtyRefused
  <2>8. CASE PtyOpens
    BY <2>8 DEF PtyOpens
  <2>9. CASE RemoteSends
    BY <2>9 DEF RemoteSends
  <2>10. CASE RemoteEnds
    BY <2>10 DEF RemoteEnds
  <2>11. CASE LinkBreaks
    BY <2>11 DEF LinkBreaks
  <2>12. QED
    BY <1>6, <2>1, <2>2, <2>3, <2>4, <2>5, <2>6, <2>7, <2>8, <2>9, <2>10, <2>11
    DEF Environment
<1>7. CASE UNCHANGED vars
  BY <1>7
<1>8. QED
  BY <1>1, <1>2, <1>3, <1>4, <1>5, <1>6, <1>7 DEF Next

(* A write that finds no writer, or a closed channel, comes after its end. *)
LEMMA KeysStep ==
    ASSUME TypeOK, ConnectInv, TaskInv, FieldsInv, KeysReachRemote,
           ~Trapped, [Next]_vars
    PROVE  KeysReachRemote'
<1> USE DEF TypeOK, PhaseType, CallerType, CountType, KeyType, ConnectInv,
        TaskInv, FieldsInv, KeysReachRemote, vars, sessionVars, taskVars,
        fieldVars, readyVars, netVars, outVars, keyVars, ConnectReturns,
        MaybeResume, EndChannel, Disconnect, Callers, None, Trapped
<1>1. CASE SessionTask
  BY <1>1 DEF SessionTask, ReadyResumed, GateSet, LeaveClosure, TaskEnds
<1>2. CASE MainActor
  BY <1>2 DEF MainActor, Opens, Fails, TimedOut, ConsumerFeeds, ConsumerEnds
<1>3. CASE Pump
  BY <1>3 DEF Pump, PumpTakes, PumpEnds
<1>4. ASSUME NEW r \in Callers, Caller(r)
      PROVE  KeysReachRemote'
  BY <1>4 DEF Caller, ReadGate, ResumeGate, ReleaserWakes, CloseLink,
    ClearFields
<1>5. CASE Writes
  BY <1>5 DEF Writes, Write, BootstrapEnds
<1>6. CASE Environment
  <2>1. CASE Connect
    BY <2>1 DEF Connect
  <2>2. CASE UserDisconnects
    BY <2>2 DEF UserDisconnects
  <2>3. CASE Send
    BY <2>3 DEF Send
  <2>4. ASSUME NEW why \in {"timeout", "cancelled"}, SleepEnds(why)
       PROVE  KeysReachRemote'
    BY <2>4 DEF SleepEnds
  <2>5. CASE DialFails
    BY <2>5 DEF DialFails
  <2>6. CASE DialSucceeds
    BY <2>6 DEF DialSucceeds
  <2>7. CASE PtyRefused
    BY <2>7 DEF PtyRefused
  <2>8. CASE PtyOpens
    <3>1. connect # "ok" /\ UNCHANGED lost
      BY <2>8 DEF PtyOpens
    <3>2. ~(typed > 0)
      BY <3>1
    <3>3. 1 .. typed = {}
      BY <3>2
    <3>4. lost = {}
      BY <3>3
    <3>5. QED
      BY <3>1, <3>4
  <2>9. CASE RemoteSends
    BY <2>9 DEF RemoteSends
  <2>10. CASE RemoteEnds
    BY <2>10 DEF RemoteEnds
  <2>11. CASE LinkBreaks
    BY <2>11 DEF LinkBreaks
  <2>12. QED
    BY <1>6, <2>1, <2>2, <2>3, <2>4, <2>5, <2>6, <2>7, <2>8, <2>9, <2>10, <2>11
    DEF Environment
<1>7. CASE UNCHANGED vars
  BY <1>7
<1>8. QED
  BY <1>1, <1>2, <1>3, <1>4, <1>5, <1>6, <1>7 DEF Next

(* The consumer reaches the end of the stream with all output fed.         *)
LEMMA EndedStep ==
    ASSUME TypeOK, ConnectInv, TaskInv, FieldsInv, DrainInv, EndedWhole,
           ~Trapped, [Next]_vars
    PROVE  EndedWhole'
<1> USE DEF TypeOK, PhaseType, CallerType, CountType, KeyType, ConnectInv,
        TaskInv, FieldsInv, DrainInv, EndedWhole, vars, sessionVars, taskVars,
        fieldVars, readyVars, netVars, outVars, keyVars, ConnectReturns,
        MaybeResume, EndChannel, Disconnect, Callers, None, Trapped
<1>1. CASE SessionTask
  BY <1>1 DEF SessionTask, ReadyResumed, GateSet, LeaveClosure, TaskEnds
<1>2. CASE MainActor
  BY <1>2 DEF MainActor, Opens, Fails, TimedOut, ConsumerFeeds, ConsumerEnds
<1>3. CASE Pump
  BY <1>3 DEF Pump, PumpTakes, PumpEnds
<1>4. ASSUME NEW r \in Callers, Caller(r)
      PROVE  EndedWhole'
  BY <1>4 DEF Caller, ReadGate, ResumeGate, ReleaserWakes, CloseLink,
    ClearFields
<1>5. CASE Writes
  BY <1>5 DEF Writes, Write, BootstrapEnds
<1>6. CASE Environment
  BY <1>6 DEF Environment, Connect, UserDisconnects, Send, SleepEnds, DialFails,
    DialSucceeds, PtyRefused, PtyOpens, RemoteSends, RemoteEnds, LinkBreaks
<1>7. CASE UNCHANGED vars
  BY <1>7
<1>8. QED
  BY <1>1, <1>2, <1>3, <1>4, <1>5, <1>6, <1>7 DEF Next

-----------------------------------------------------------------------------
(* and so of all.                                                          *)
LEMMA TypeStep ==
    ASSUME TypeOK, ~Trapped, [Next]_vars
    PROVE  TypeOK'
BY PhaseStep, CallerStep, CountStep, KeyStep DEF TypeOK

(* The invariant holds at the start.                                       *)
LEMMA InitHolds == Init => SSHInv
<1> SUFFICES ASSUME Init PROVE SSHInv
  OBVIOUS
<1> USE SSHClientAssumption DEF Init, Callers, None
<1>1. TypeOK
  <2>1. PhaseType
    BY DEF PhaseType
  <2>2. CallerType
    BY DEF CallerType
  <2>3. CountType
    BY DEF CountType
  <2>4. KeyType
    BY DEF KeyType
  <2>5. QED
    BY <2>1, <2>2, <2>3, <2>4 DEF TypeOK
<1>2. ConnectInv /\ TaskInv /\ FieldsInv /\ DrainInv
  BY DEF ConnectInv, TaskInv, FieldsInv, DrainInv
<1>3. GateBacked /\ KeysReachRemote /\ EndedWhole
  BY DEF GateBacked, KeysReachRemote, EndedWhole
<1>4. QED
  BY <1>1, <1>2, <1>3 DEF SSHInv

(* A trapped process takes no step, so what traps need not keep SSHInv.    *)
LEMMA StepHolds == SSHInv /\ [Next]_vars => SSHInv'
<1> SUFFICES ASSUME SSHInv, [Next]_vars PROVE SSHInv'
  OBVIOUS
<1>1. CASE ~Trapped
  <2>1. TypeOK' /\ ConnectInv' /\ TaskInv' /\ FieldsInv'
    BY <1>1, TypeStep, ConnectStep, TaskStep, FieldsStep DEF SSHInv
  <2>2. DrainInv' /\ GateBacked' /\ KeysReachRemote' /\ EndedWhole'
    BY <1>1, DrainStep, GateStep, KeysStep, EndedStep DEF SSHInv
  <2>3. QED
    BY <2>1, <2>2 DEF SSHInv
<1>2. CASE UNCHANGED vars
  BY <1>2 DEF SSHInv, TypeOK, PhaseType, CallerType, CountType, KeyType, ConnectInv,
         TaskInv, FieldsInv, DrainInv, GateBacked, KeysReachRemote, EndedWhole, vars,
         sessionVars, taskVars, fieldVars, readyVars, netVars, outVars, keyVars
<1>3. QED
  BY <1>1, <1>2 DEF Next

(* However the tasks interleave, and for any amount of input and output,   *)
(* the fields, tasks and counters of the client stay in step.              *)
THEOREM ClientInvariant == Spec => []SSHInv
<1>1. SSHInv /\ [Next]_vars => SSHInv'
  BY StepHolds
<1>2. QED
  BY InitHolds, <1>1, PTL DEF Spec

(* TerminalSession and CitadelSSHClient keep their fields' types.          *)
THEOREM ClientTypes == Spec => []TypeOK
<1>1. SSHInv => TypeOK
  BY DEF SSHInv
<1>2. QED
  BY ClientInvariant, <1>1, PTL

(* maybeResume resumes the continuation of connect once, whatever withPTY  *)
(* does and whenever it throws.                                            *)
THEOREM ConnectReturnsOnce == Spec => []ReadyOnce
<1>1. SSHInv => ReadyOnce
  BY DEF SSHInv, TaskInv, ReadyOnce
<1>2. QED
  BY ClientInvariant, <1>1, PTL

(* The session task never waits at a gate nobody is going to release.      *)
THEOREM NoLostRelease == Spec => []GateBacked
<1>1. SSHInv => GateBacked
  BY DEF SSHInv
<1>2. QED
  BY ClientInvariant, <1>1, PTL

(* No key is lost before the channel ended.                                *)
THEOREM NoKeyLost == Spec => []KeysReachRemote
<1>1. SSHInv => KeysReachRemote
  BY DEF SSHInv
<1>2. QED
  BY ClientInvariant, <1>1, PTL

(* A session that ended by itself has shown all its output.                *)
THEOREM OutputDrained == Spec => []EndedWhole
<1>1. SSHInv => EndedWhole
  BY DEF SSHInv
<1>2. QED
  BY ClientInvariant, <1>1, PTL
=============================================================================
