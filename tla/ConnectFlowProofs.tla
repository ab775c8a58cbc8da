------------------------- MODULE ConnectFlowProofs -------------------------
(***************************************************************************)
(* Theorems about ConnectFlow, for every set of hosts and every bound.     *)
(***************************************************************************)
EXTENDS ConnectFlow, TLAPS

(* The three operators that rewrite the attempts keep their type.          *)
LEMMA CancelledType ==
    ASSUME NEW t \in [Numbers -> Try], NEW n \in 0 .. MaxTries
    PROVE  Cancelled(t, n) \in [Numbers -> Try]
<1>1. n = 0 \/ n \in Numbers
  BY ConnectAssumption DEF Numbers
<1> QED BY <1>1 DEF Cancelled, Try

(* A disconnect makes a table of tries,                                    *)
LEMMA DisconnectedType ==
    ASSUME NEW t \in [Numbers -> Try], NEW n \in 0 .. MaxTries
    PROVE  Disconnected(t, n) \in [Numbers -> Try]
BY ConnectAssumption DEF Disconnected, Try, Numbers, Sessions, Links

(* and so does the start of the race of connect and sleep,                 *)
LEMMA RaceType ==
    ASSUME NEW t \in [Numbers -> Try], NEW n \in Numbers
    PROVE  Race(t, n) \in [Numbers -> Try]
<1>1. [t[n] EXCEPT !.stage = "racing", !.answer = "pending",
                   !.session = "connecting"] \in Try
  BY DEF Try, Stages, Sessions
<1> QED BY <1>1 DEF Race

(* and a task that goes on to its next stage.                              *)
LEMMA StageType ==
    ASSUME NEW t \in [Numbers -> Try], NEW n \in Numbers, NEW s \in Stages
    PROVE  [t EXCEPT ![n].stage = s] \in [Numbers -> Try]
BY DEF Try

(* A dispatch keeps the types of what it changes.                          *)
LEMMA DispatchType ==
    ASSUME TypeOK, NEW h \in Hosts, NEW t \in [Numbers -> Try], Dispatch(h, t)
    PROVE  /\ inFlight' \in Hosts \cup {None}
           /\ last' \in 0 .. MaxTries
           /\ tries' \in [Numbers -> Try]
<1>1. last \in 0 .. MaxTries /\ last + 1 \in Numbers
  BY ConnectAssumption DEF TypeOK, Dispatch, Numbers
<1>2. [Blank EXCEPT !.host = h, !.stage = "queued"] \in Try
  BY DEF Blank, Try, Stages, Winners, Answers, Links, Sessions
<1>3. Cancelled(t, last) \in [Numbers -> Try]
  BY <1>1, CancelledType
<1> QED BY <1>1, <1>2, <1>3, ConnectAssumption DEF Dispatch, Numbers

(* So does the tail of an attempt.                                         *)
LEMMA CompleteType ==
    ASSUME TypeOK, NEW n \in Numbers, NEW t \in [Numbers -> Try],
           NEW outcome,
           UNCHANGED <<granted, dialog>>, Complete(n, t, outcome)
    PROVE  TypeOK'
<1>1. tries' \in [Numbers -> Try]
  BY StageType DEF Complete, Stages
<1>2. n \in 0 .. MaxTries /\ tries[n].host \in Hosts \cup {None}
  BY ConnectAssumption DEF Numbers, TypeOK, Try
<1>3. /\ inFlight' \in Hosts \cup {None}
      /\ current' \in Hosts \cup {None}
      /\ mismatch' \in Hosts \cup {None}
      /\ lastSession' \in 0 .. MaxTries
      /\ entries' \subseteq Hosts
      /\ dirty' \in BOOLEAN
  BY <1>2 DEF TypeOK, Complete, DropInFlight, Sync
<1> QED BY <1>1, <1>3 DEF TypeOK, Complete

(* Whether the dialog is in use does not change.                           *)
LEMMA DialogStays == [Next]_vars => dialog' = dialog
BY DEF Next, vars

(* Every step keeps the types.                                             *)
LEMMA TypesStep ==
    ASSUME TypeOK, [Next]_vars
    PROVE  TypeOK'
<1> SUFFICES ASSUME dialog' = dialog PROVE TypeOK'
  BY DialogStays
<1> USE DEF vm, store, ui
<1>1. CASE UNCHANGED vars
  BY <1>1 DEF vars, TypeOK
<1>2. ASSUME NEW h \in Hosts, RequestConnect(h) PROVE TypeOK'
  <2>1. /\ inFlight' \in Hosts \cup {None}
        /\ last' \in 0 .. MaxTries
        /\ tries' \in [Numbers -> Try]
        /\ swap' \in Hosts \cup {None}
    BY <1>2, DispatchType DEF RequestConnect, TypeOK
  <2> QED BY <1>2, <2>1 DEF RequestConnect, Sync, TypeOK
<1>3. CASE ConfirmSwap
  <2>1. swap \in Hosts /\ Disconnected(tries, lastSession) \in [Numbers -> Try]
    BY <1>3, DisconnectedType DEF ConfirmSwap, TypeOK
  <2>2. /\ inFlight' \in Hosts \cup {None}
        /\ last' \in 0 .. MaxTries
        /\ tries' \in [Numbers -> Try]
    BY <1>3, <2>1, DispatchType DEF ConfirmSwap
  <2> QED BY <1>3, <2>2, ConnectAssumption DEF ConfirmSwap, Sync, TypeOK
<1>4. CASE CancelSwap
  BY <1>4 DEF CancelSwap, Sync, TypeOK
<1>5. CASE RetryAfterMismatch
  <2>1. mismatch \in Hosts /\ tries \in [Numbers -> Try]
    BY <1>5 DEF RetryAfterMismatch, TypeOK
  <2>2. /\ inFlight' \in Hosts \cup {None}
        /\ last' \in 0 .. MaxTries
        /\ tries' \in [Numbers -> Try]
    BY <1>5, <2>1, DispatchType DEF RetryAfterMismatch
  <2> QED BY <1>5, <2>2 DEF RetryAfterMismatch, Sync, TypeOK
<1>6. CASE ClearMismatch
  BY <1>6 DEF ClearMismatch, Sync, TypeOK
<1>7. CASE EndLiveSession
  <2>1. tries' \in [Numbers -> Try]
    BY <1>7, DisconnectedType DEF EndLiveSession, TypeOK
  <2> QED BY <1>7, <2>1, ConnectAssumption DEF EndLiveSession, Sync, TypeOK
<1>8. ASSUME NEW h \in Hosts, RequestDelete(h) PROVE TypeOK'
  BY <1>8 DEF RequestDelete, Sync, TypeOK, Deletion
<1>9. CASE ConfirmDelete
  <2>1. tries' \in [Numbers -> Try]
    BY <1>9, CancelledType, DisconnectedType DEF ConfirmDelete, TypeOK
  <2> QED BY <1>9, <2>1, ConnectAssumption DEF ConfirmDelete, Sync, TypeOK
<1>10. CASE CancelDelete
  BY <1>10 DEF CancelDelete, Sync, TypeOK
<1>11. ASSUME NEW h \in Hosts, SwipeDelete(h) PROVE TypeOK'
  BY <1>11 DEF SwipeDelete, TypeOK
<1>12. CASE Refresh
  BY <1>12 DEF Refresh, Sync, TypeOK
<1>13. ASSUME NEW n \in Numbers, LoadFails(n) PROVE TypeOK'
  <2>1. tries' \in [Numbers -> Try]
    BY <1>13, StageType DEF LoadFails, TypeOK, Stages
  <2> QED BY <1>13, <2>1 DEF LoadFails, DropInFlight, Sync, TypeOK
<1>14. ASSUME NEW n \in Numbers, Loads(n) PROVE TypeOK'
  <2>1. tries' \in [Numbers -> Try]
    BY <1>14, StageType, RaceType DEF Loads, TypeOK, Stages
  <2> QED BY <1>14, <2>1 DEF Loads, TypeOK
<1>15. ASSUME NEW n \in Numbers, PrewarmAllows(n) PROVE TypeOK'
  BY <1>15, RaceType DEF PrewarmAllows, TypeOK
<1>16. ASSUME NEW n \in Numbers, PrewarmDenies(n) PROVE TypeOK'
  BY <1>16, CompleteType DEF PrewarmDenies, TypeOK
<1>17. ASSUME NEW n \in Numbers, ClientAnswers(n) PROVE TypeOK'
  <2>1. PICK a \in Answers :
           tries' = [tries EXCEPT
                       ![n].answer = a,
                       ![n].link = IF a = "ok" THEN "up" ELSE @,
                       ![n].winner = IF @ = "none" THEN "connect" ELSE @]
    BY <1>17 DEF ClientAnswers
  <2>2. \A r \in Try :
           [r EXCEPT !.answer = a,
                     !.link = IF a = "ok" THEN "up" ELSE @,
                     !.winner = IF @ = "none" THEN "connect" ELSE @] \in Try
    BY DEF Try, Links, Winners
  <2>3. tries' \in [Numbers -> Try]
    BY <2>1, <2>2 DEF TypeOK
  <2> QED BY <1>17, <2>3 DEF ClientAnswers, TypeOK
<1>18. ASSUME NEW n \in Numbers, SleepEnds(n) PROVE TypeOK'
  <2>1. tries' \in [Numbers -> Try]
    BY <1>18 DEF SleepEnds, TypeOK, Try, Winners
  <2> QED BY <1>18, <2>1 DEF SleepEnds, TypeOK
<1>19. ASSUME NEW n \in Numbers, RaceDecided(n) PROVE TypeOK'
  <2>1. \A open \in BOOLEAN :
           [tries EXCEPT ![n].session = IF open THEN "open" ELSE "closed"]
              \in [Numbers -> Try]
    BY DEF TypeOK, Try, Sessions
  <2> QED BY <1>19, <2>1, CompleteType DEF RaceDecided
<1>20. ASSUME NEW n \in Numbers, TimedOut(n) PROVE TypeOK'
  <2>1. n \in 0 .. MaxTries
    BY ConnectAssumption DEF Numbers
  <2>2. Disconnected(tries, n) \in [Numbers -> Try]
    BY <2>1, DisconnectedType DEF TypeOK
  <2>3. tries' \in [Numbers -> Try]
    BY <1>20, <2>2, StageType DEF TimedOut, Stages
  <2> QED BY <1>20, <2>3 DEF TimedOut, TypeOK
<1>21. ASSUME NEW n \in Numbers, TimeoutReported(n) PROVE TypeOK'
  BY <1>21, CompleteType DEF TimeoutReported, TypeOK
<1>22. ASSUME NEW n \in Numbers, LinkCloses(n) PROVE TypeOK'
  <2>1. tries' \in [Numbers -> Try]
    BY <1>22 DEF LinkCloses, TypeOK, Try, Links
  <2> QED BY <1>22, <2>1 DEF LinkCloses, TypeOK
<1>23. ASSUME NEW n \in Numbers, RemoteEnds(n) PROVE TypeOK'
  <2>1. tries' \in [Numbers -> Try]
    BY <1>23 DEF RemoteEnds, TypeOK, Try, Links
  <2> QED BY <1>23, <2>1 DEF RemoteEnds, TypeOK
<1>24. ASSUME NEW n \in Numbers, PumpEnds(n) PROVE TypeOK'
  <2>1. tries' \in [Numbers -> Try]
    BY <1>24 DEF PumpEnds, TypeOK, Try, Sessions
  <2> QED BY <1>24, <2>1 DEF PumpEnds, TypeOK
<1>25. CASE Observe
  <2>1. lastSession # 0 => lastSession \in Numbers
    BY ConnectAssumption DEF TypeOK, Numbers
  <2>2. screens' \in Seq(Numbers)
    BY <1>25, <2>1 DEF Observe, TypeOK
  <2> QED BY <1>25, <2>2 DEF Observe, TypeOK
<1> QED
  BY <1>1, <1>2, <1>3, <1>4, <1>5, <1>6, <1>7, <1>8, <1>9, <1>10, <1>11,
     <1>12, <1>13, <1>14, <1>15, <1>16, <1>17, <1>18, <1>19, <1>20, <1>21,
     <1>22, <1>23, <1>24, <1>25
     DEF Next, UserStep, TaskStep, Start

(* Type correctness.                                                       *)
THEOREM ConnectFlowTypes == Spec => []TypeOK
<1>1. Init => TypeOK
  <2>1. Blank \in Try
    BY DEF Blank, Try, Stages, Winners, Answers, Links, Sessions
  <2>2. 0 \in 0 .. MaxTries
    BY ConnectAssumption
  <2>3. << >> \in Seq(Numbers)
    OBVIOUS
  <2> QED BY <2>1, <2>2, <2>3 DEF Init, TypeOK
<1>2. TypeOK /\ [Next]_vars => TypeOK'
  BY TypesStep
<1> QED BY <1>1, <1>2, PTL DEF Spec

-----------------------------------------------------------------------------
(* Two views of the attempts that differ only in timers and connections.   *)
SameTasks(t, u) ==
    \A n \in Numbers : /\ t[n].host = u[n].host
                       /\ t[n].stage = u[n].stage
                       /\ t[n].cancelled = u[n].cancelled

(* A disconnect changes no task's host, stage or cancellation.             *)
LEMMA DisconnectedSame ==
    ASSUME NEW t \in [Numbers -> Try], NEW n \in 0 .. MaxTries
    PROVE  SameTasks(Disconnected(t, n), t)
BY DEF SameTasks, Disconnected, Try

(* A step that leaves the tasks alone.                                     *)
LEMMA QuietInv ==
    ASSUME TypeOK, FlowInv, TypeOK', last' = last, inFlight' = inFlight,
           saved' \subseteq saved, lastSession' \in {0, lastSession},
           SameTasks(tries', tries)
    PROVE  FlowInv'
<1> USE DEF SameTasks, FlowInv, TypeOK
<1>1. TasksInOrder'
  BY ConnectAssumption DEF TasksInOrder, Numbers
<1>2. OneAttempt'
  BY DEF OneAttempt, Running
<1>3. AttemptKnown'
  <2>1. last # 0 => last \in Numbers
    BY ConnectAssumption DEF Numbers
  <2> QED BY <2>1 DEF AttemptKnown, Running
<1> QED BY <1>1, <1>2, <1>3

(* A dispatch, from attempts t that have the tasks of tries.               *)
LEMMA DispatchInv ==
    ASSUME TypeOK, FlowInv, TypeOK', NEW h \in Hosts,
           NEW t \in [Numbers -> Try], SameTasks(t, tries), Dispatch(h, t),
           saved' = saved, lastSession' \in {0, lastSession}
    PROVE  FlowInv'
<1>1. /\ last \in 0 .. MaxTries /\ last + 1 \in Numbers /\ last' = last + 1
      /\ last # 0 => last \in Numbers
  BY ConnectAssumption DEF TypeOK, Dispatch, Numbers
<1>2. tries'[last + 1].host = h /\ tries'[last + 1].stage = "queued"
  BY <1>1, CancelledType DEF Dispatch, Blank
<1>3. \A n \in Numbers : n # last + 1 =>
         tries'[n].host = tries[n].host /\ tries'[n].stage = tries[n].stage
  BY <1>1, CancelledType DEF Dispatch, Cancelled, SameTasks, Try
<1>4. \A n \in Numbers \ {last, last + 1} : tries'[n].cancelled = tries[n].cancelled
  BY <1>1, CancelledType DEF Dispatch, Cancelled, SameTasks, Try
<1>5. last # 0 /\ tries[last].stage # "done" => tries'[last].cancelled
  BY <1>1, CancelledType DEF Dispatch, Cancelled, SameTasks, Try
<1>6. TasksInOrder'
  BY <1>1, <1>2, <1>3, ConnectAssumption DEF TasksInOrder, FlowInv, Numbers
<1>7. OneAttempt'
  <2>1. ASSUME NEW n \in Numbers, Running(n)', ~tries'[n].cancelled,
               n # last + 1
        PROVE  FALSE
    <3>1. Running(n)
      BY <1>3, <2>1 DEF Running
    <3>2. n # last
      <4>1. ASSUME n = last PROVE FALSE
        <5>1. last # 0 /\ tries[last].stage # "done"
          BY <3>1, <4>1 DEF Running, Numbers
        <5>2. tries'[last].cancelled
          BY <1>5, <5>1
        <5> QED BY <2>1, <4>1, <5>2
      <4> QED BY <4>1
    <3> QED BY <1>4, <2>1, <3>1, <3>2 DEF OneAttempt, FlowInv
  <2> QED BY <1>1, <2>1 DEF OneAttempt
<1>8. AttemptKnown'
  BY <1>1, <1>2 DEF AttemptKnown, Dispatch
<1> QED BY <1>1, <1>6, <1>7, <1>8, ConnectAssumption DEF FlowInv, TypeOK, Numbers

(* Attempt n goes on, having loaded its host if it was queued.             *)
LEMMA ProgressInv ==
    ASSUME TypeOK, FlowInv, TypeOK', NEW n \in Numbers, Running(n),
           \A m \in Numbers : m # n => tries'[m] = tries[m],
           tries'[n].host = tries[n].host,
           tries'[n].cancelled = tries[n].cancelled,
           tries'[n].stage \in {"prewarm", "racing", "closing"},
           tries[n].stage = "queued" =>
              /\ tries[n].host \in saved
              /\ \A m \in Numbers : m < n => tries[m].stage # "queued",
           UNCHANGED <<last, inFlight, saved, lastSession>>
    PROVE  FlowInv'
<1> USE DEF FlowInv
<1>1. TasksInOrder'
  <2>2. /\ tries'[n].stage # "unused" /\ tries'[n].stage # "queued"
        /\ tries[n].stage # "unused"
    BY DEF Running
  <2>3. \A m \in Numbers : /\ m <= last <=> tries'[m].stage # "unused"
                           /\ m <= last => tries'[m].host \in Hosts
    BY <2>2 DEF TasksInOrder
  <2>4. ASSUME NEW k \in Numbers, tries'[k].stage = "queued",
               NEW m \in Numbers, k < m, m <= last
        PROVE  tries'[m].stage = "queued"
    <3>1. k # n /\ tries[k].stage = "queued"
      BY <2>2, <2>4
    <3>2. tries[m].stage = "queued"
      BY <2>4, <3>1 DEF TasksInOrder
    <3>3. m # n
      BY <2>4, <3>1, <3>2 DEF Numbers
    <3> QED BY <3>2, <3>3
  <2>5. last' = last
    OBVIOUS
  <2> QED BY <2>3, <2>4, <2>5 DEF TasksInOrder
<1>2. OneAttempt'
  BY DEF OneAttempt, Running, TypeOK
<1>3. AttemptKnown'
  <2>1. last # 0 => last \in Numbers
    BY ConnectAssumption DEF Numbers, TypeOK
  <2> QED BY <2>1 DEF AttemptKnown, Running, TypeOK
<1> QED BY <1>1, <1>2, <1>3

(* Attempt n ends.  Unless it is the latest, the id in flight stays, or    *)
(* the latest attempt is still queued and will fail to load its host.      *)
LEMMA FinishInv ==
    ASSUME TypeOK, FlowInv, TypeOK', NEW n \in Numbers,
           Running(n), SameTasks(tries', [tries EXCEPT ![n].stage = "done"]),
           tries[n].stage = "queued" =>
              \A m \in Numbers : m < n => tries[m].stage # "queued",
           n # last => \/ inFlight' = inFlight
                       \/ /\ tries[last].stage = "queued"
                          /\ tries[n].host \notin saved
                          /\ inFlight = tries[n].host,
           UNCHANGED <<last, saved>>, lastSession' \in {lastSession, n}
    PROVE  FlowInv'
<1> USE DEF FlowInv
<1>1. /\ \A m \in Numbers : /\ tries'[m].host = tries[m].host
                            /\ tries'[m].cancelled = tries[m].cancelled
                            /\ m # n => tries'[m].stage = tries[m].stage
      /\ tries'[n].stage = "done"
  BY DEF SameTasks, TypeOK, Try
<1>2. last # 0 => last \in Numbers
  BY ConnectAssumption DEF Numbers, TypeOK
<1>3. n <= last
  BY DEF TasksInOrder, Running
<1>4. TasksInOrder'
  <2>1. last' = last /\ tries[n].stage # "unused"
    BY DEF Running
  <2>2. \A m \in Numbers : /\ m <= last <=> tries'[m].stage # "unused"
                           /\ m <= last => tries'[m].host \in Hosts
    BY <1>1, <2>1 DEF TasksInOrder
  <2>3. ASSUME NEW k \in Numbers, tries'[k].stage = "queued",
               NEW m \in Numbers, k < m, m <= last
        PROVE  tries'[m].stage = "queued"
    <3>1. k # n /\ tries[k].stage = "queued"
      BY <1>1, <2>3
    <3>2. tries[m].stage = "queued"
      BY <2>3, <3>1 DEF TasksInOrder
    <3>3. m # n
      BY <2>3, <3>1, <3>2 DEF Numbers
    <3> QED BY <1>1, <3>2, <3>3
  <2> QED BY <2>1, <2>2, <2>3 DEF TasksInOrder
<1>5. OneAttempt'
  BY <1>1 DEF OneAttempt, Running
<1>6. AttemptKnown'
  BY <1>1, <1>2 DEF AttemptKnown, Running
<1> QED BY <1>3, <1>4, <1>5, <1>6

(* A step that only cancels, the latest attempt among others.             *)
LEMMA CancelInv ==
    ASSUME TypeOK, FlowInv, TypeOK', last' = last, saved' \subseteq saved,
           lastSession' \in {0, lastSession},
           \A n \in Numbers : /\ tries'[n].host = tries[n].host
                             /\ tries'[n].stage = tries[n].stage,
           \A n \in Numbers : tries[n].cancelled => tries'[n].cancelled,
           last # 0 /\ Running(last) => tries'[last].cancelled
    PROVE  FlowInv'
<1>1. TasksInOrder'
  <2>1. TasksInOrder
    BY DEF FlowInv
  <2> QED BY <2>1 DEF TasksInOrder
<1>2. OneAttempt'
  <2>1. ASSUME NEW n \in Numbers, Running(n)', ~tries'[n].cancelled
        PROVE  n = last
    <3>1. Running(n)
      BY <2>1 DEF Running
    <3>2. ~tries[n].cancelled
      BY <2>1
    <3> QED BY <3>1, <3>2 DEF OneAttempt, FlowInv
  <2> QED BY <2>1 DEF OneAttempt
<1>3. AttemptKnown'
  <2>1. last # 0 => last \in Numbers
    BY ConnectAssumption DEF Numbers, TypeOK
  <2>2. last # 0 /\ Running(last)' => Running(last)
    BY <2>1 DEF Running
  <2> QED BY <2>1, <2>2 DEF AttemptKnown
<1> QED BY <1>1, <1>2, <1>3, ConnectAssumption DEF Numbers, FlowInv, TypeOK

(* The tail of an attempt that was under way.                              *)
LEMMA CompleteInv ==
    ASSUME TypeOK, FlowInv, TypeOK', NEW n \in Numbers,
           Running(n), tries[n].stage # "queued",
           NEW t \in [Numbers -> Try], SameTasks(t, tries),
           NEW outcome, Complete(n, t, outcome)
    PROVE  FlowInv'
<1>1. SameTasks(tries', [tries EXCEPT ![n].stage = "done"])
  BY DEF Complete, SameTasks, TypeOK, Try
<1>2. n # last => inFlight' = inFlight
  BY DEF Complete, FlowInv, OneAttempt
<1>3. last' = last /\ saved' = saved /\ lastSession' \in {lastSession, n}
  BY DEF Complete
<1> QED BY <1>1, <1>2, <1>3, FinishInv

(* The invariant holds at the start.                                       *)
LEMMA FlowInit == Init => FlowInv
BY ConnectAssumption DEF Init, FlowInv, TasksInOrder, OneAttempt, AttemptKnown,
   Blank, Running, Numbers

(* Every step keeps the inductive invariant.                               *)
LEMMA FlowStep ==
    ASSUME TypeOK, FlowInv, [Next]_vars
    PROVE  FlowInv'
<1> USE DEF vm, store, ui
<1>0. TypeOK'
  BY TypesStep
<1>a. SameTasks(tries, tries)
  BY DEF SameTasks
<1>b. tries \in [Numbers -> Try] /\ lastSession \in 0 .. MaxTries
  BY DEF TypeOK
<1>c. \A n \in 0 .. MaxTries : SameTasks(Disconnected(tries, n), tries)
  BY <1>b, DisconnectedSame
<1>1. CASE UNCHANGED vars
  BY <1>0, <1>1, <1>a, QuietInv DEF vars
<1>2. ASSUME NEW h \in Hosts, RequestConnect(h) PROVE FlowInv'
  <2>1. CASE Dispatch(h, tries)
    BY <1>0, <1>2, <1>a, <1>b, <2>1, DispatchInv DEF RequestConnect
  <2>2. CASE UNCHANGED <<inFlight, last, tries>>
    BY <1>0, <1>2, <1>a, <2>2, QuietInv DEF RequestConnect
  <2> QED BY <1>2, <2>1, <2>2 DEF RequestConnect
<1>3. CASE ConfirmSwap
  <2>1. swap \in Hosts
    BY <1>3 DEF ConfirmSwap, TypeOK
  <2>2. Disconnected(tries, lastSession) \in [Numbers -> Try]
    BY <1>b, DisconnectedType
  <2> QED BY <1>0, <1>3, <1>b, <1>c, <2>1, <2>2, DispatchInv DEF ConfirmSwap
<1>4. CASE CancelSwap
  BY <1>0, <1>4, <1>a, QuietInv DEF CancelSwap
<1>5. CASE RetryAfterMismatch
  <2>1. mismatch \in Hosts
    BY <1>5 DEF RetryAfterMismatch, TypeOK
  <2> QED BY <1>0, <1>5, <1>a, <1>b, <2>1, DispatchInv DEF RetryAfterMismatch
<1>6. CASE ClearMismatch
  BY <1>0, <1>6, <1>a, QuietInv DEF ClearMismatch
<1>7. CASE EndLiveSession
  <2>1. SameTasks(tries', tries)
    BY <1>7, <1>a, <1>b, <1>c DEF EndLiveSession
  <2> QED BY <1>0, <1>7, <2>1, QuietInv DEF EndLiveSession
<1>8. ASSUME NEW h \in Hosts, RequestDelete(h) PROVE FlowInv'
  BY <1>0, <1>8, <1>a, QuietInv DEF RequestDelete
<1>9. CASE ConfirmDelete
  <2> DEFINE cut == IF inFlight = del.id THEN Cancelled(tries, last) ELSE tries
  <2>1. cut \in [Numbers -> Try]
    BY <1>b, CancelledType DEF TypeOK
  <2>2. SameTasks(Disconnected(cut, lastSession), cut)
    BY <1>b, <2>1, DisconnectedSame
  <2>3. tries' \in {cut, Disconnected(cut, lastSession)}
    BY <1>9 DEF ConfirmDelete
  <2>4. /\ last' = last /\ saved' \subseteq saved
        /\ lastSession' \in {0, lastSession}
    BY <1>9 DEF ConfirmDelete
  <2>5. CASE inFlight = del.id
    <3>1. /\ \A n \in Numbers : /\ cut[n].host = tries[n].host
                               /\ cut[n].stage = tries[n].stage
          /\ \A n \in Numbers : tries[n].cancelled => cut[n].cancelled
      BY <1>b, <2>5 DEF Cancelled, Try
    <3>2. last # 0 /\ Running(last) => cut[last].cancelled
      BY <1>b, <2>5, ConnectAssumption DEF Cancelled, Try, Running, TypeOK, Numbers
    <3>3. last # 0 => last \in Numbers
      BY ConnectAssumption DEF TypeOK, Numbers
    <3>4. /\ \A n \in Numbers : /\ tries'[n].host = tries[n].host
                               /\ tries'[n].stage = tries[n].stage
          /\ \A n \in Numbers : tries[n].cancelled => tries'[n].cancelled
          /\ last # 0 /\ Running(last) => tries'[last].cancelled
      BY <2>2, <2>3, <3>1, <3>2, <3>3 DEF SameTasks
    <3> QED BY <1>0, <2>4, <3>4, CancelInv
  <2>6. CASE inFlight # del.id
    <3>1. SameTasks(tries', tries)
      BY <1>a, <2>2, <2>3, <2>6
    <3>2. inFlight' = inFlight
      BY <1>9, <2>6 DEF ConfirmDelete
    <3> QED BY <1>0, <2>4, <3>1, <3>2, QuietInv
  <2> QED BY <2>5, <2>6
<1>10. CASE CancelDelete
  BY <1>0, <1>10, <1>a, QuietInv DEF CancelDelete
<1>11. ASSUME NEW h \in Hosts, SwipeDelete(h) PROVE FlowInv'
  BY <1>0, <1>11, <1>a, QuietInv DEF SwipeDelete
<1>12. CASE Refresh
  BY <1>0, <1>12, <1>a, QuietInv DEF Refresh
<1>13. ASSUME NEW n \in Numbers, Start(n), LoadFails(n) PROVE FlowInv'
  <2>1. /\ tries[n].stage = "queued" /\ Running(n)
        /\ \A m \in Numbers : m < n => tries[m].stage # "queued"
    BY <1>13 DEF Start, Running
  <2>2. SameTasks(tries', [tries EXCEPT ![n].stage = "done"])
    BY <1>13 DEF LoadFails, SameTasks
  <2>3. n # last => tries[last].stage = "queued"
    BY <2>1, ConnectAssumption DEF FlowInv, TasksInOrder, TypeOK, Numbers
  <2>4. /\ UNCHANGED <<last, saved, lastSession>>
        /\ tries[n].host \notin saved
        /\ inFlight' = inFlight \/ inFlight = tries[n].host
    BY <1>13 DEF LoadFails, DropInFlight
  <2> QED BY <1>0, <2>1, <2>2, <2>3, <2>4, FinishInv
<1>14. ASSUME NEW n \in Numbers, Start(n), Loads(n) PROVE FlowInv'
  <2>1. /\ \A m \in Numbers : m # n => tries'[m] = tries[m]
        /\ tries'[n].host = tries[n].host
        /\ tries'[n].cancelled = tries[n].cancelled
        /\ tries'[n].stage \in {"prewarm", "racing", "closing"}
    BY <1>14, <1>b DEF Loads, Race, Try
  <2> QED BY <1>0, <1>14, <2>1, ProgressInv DEF Start, Loads, Running
<1>15. ASSUME NEW n \in Numbers, PrewarmAllows(n) PROVE FlowInv'
  <2>1. /\ \A m \in Numbers : m # n => tries'[m] = tries[m]
        /\ tries'[n].host = tries[n].host
        /\ tries'[n].cancelled = tries[n].cancelled
        /\ tries'[n].stage \in {"prewarm", "racing", "closing"}
    BY <1>15, <1>b DEF PrewarmAllows, Race, Try
  <2> QED BY <1>0, <1>15, <2>1, ProgressInv DEF PrewarmAllows, Running
<1>16. ASSUME NEW n \in Numbers, PrewarmDenies(n) PROVE FlowInv'
  BY <1>0, <1>16, <1>a, <1>b, CompleteInv DEF PrewarmDenies, Running
<1>17. ASSUME NEW n \in Numbers, ClientAnswers(n) PROVE FlowInv'
  <2>1. SameTasks(tries', tries)
    BY <1>17, <1>b DEF ClientAnswers, SameTasks, Try
  <2> QED BY <1>0, <1>17, <2>1, QuietInv DEF ClientAnswers
<1>18. ASSUME NEW n \in Numbers, SleepEnds(n) PROVE FlowInv'
  <2>1. SameTasks(tries', tries)
    BY <1>18, <1>b DEF SleepEnds, SameTasks, Try
  <2> QED BY <1>0, <1>18, <2>1, QuietInv DEF SleepEnds
<1>19. ASSUME NEW n \in Numbers, RaceDecided(n) PROVE FlowInv'
  <2>1. \A open \in BOOLEAN :
           LET t == [tries EXCEPT ![n].session = IF open THEN "open" ELSE "closed"]
           IN  t \in [Numbers -> Try] /\ SameTasks(t, tries)
    BY <1>b DEF Try, Sessions, SameTasks
  <2> QED BY <1>0, <1>19, <2>1, CompleteInv DEF RaceDecided, Running
<1>20. ASSUME NEW n \in Numbers, TimedOut(n) PROVE FlowInv'
  <2>1. /\ \A m \in Numbers : m # n => tries'[m] = tries[m]
        /\ tries'[n].host = tries[n].host
        /\ tries'[n].cancelled = tries[n].cancelled
        /\ tries'[n].stage \in {"prewarm", "racing", "closing"}
    BY <1>20, <1>b DEF TimedOut, Disconnected, Try, Numbers
  <2> QED BY <1>0, <1>20, <2>1, ProgressInv DEF TimedOut, Running
<1>21. ASSUME NEW n \in Numbers, TimeoutReported(n) PROVE FlowInv'
  BY <1>0, <1>21, <1>a, <1>b, CompleteInv DEF TimeoutReported, Running
<1>22. ASSUME NEW n \in Numbers, LinkCloses(n) PROVE FlowInv'
  <2>1. SameTasks(tries', tries)
    BY <1>22, <1>b DEF LinkCloses, SameTasks, Try
  <2> QED BY <1>0, <1>22, <2>1, QuietInv DEF LinkCloses
<1>23. ASSUME NEW n \in Numbers, RemoteEnds(n) PROVE FlowInv'
  <2>1. SameTasks(tries', tries)
    BY <1>23, <1>b DEF RemoteEnds, SameTasks, Try
  <2> QED BY <1>0, <1>23, <2>1, QuietInv DEF RemoteEnds
<1>24. ASSUME NEW n \in Numbers, PumpEnds(n) PROVE FlowInv'
  <2>1. SameTasks(tries', tries)
    BY <1>24, <1>b DEF PumpEnds, SameTasks, Try
  <2> QED BY <1>0, <1>24, <2>1, QuietInv DEF PumpEnds
<1>25. CASE Observe
  BY <1>0, <1>25, <1>a, QuietInv DEF Observe
<1> QED
  BY <1>1, <1>2, <1>3, <1>4, <1>5, <1>6, <1>7, <1>8, <1>9, <1>10, <1>11,
     <1>12, <1>13, <1>14, <1>15, <1>16, <1>17, <1>18, <1>19, <1>20, <1>21,
     <1>22, <1>23, <1>24, <1>25
     DEF Next, UserStep, TaskStep, Start

(* The tasks are used in order, at most the latest attempt runs            *)
(* uncancelled, and HostsVM knows it as the one in flight.                 *)
THEOREM FlowInvariant == Spec => []FlowInv
BY ConnectFlowTypes, FlowInit, FlowStep, PTL DEF Spec

(* Once its host is loaded, the latest attempt stays the one in flight     *)
(* until it completes, whatever completions of older attempts for the same *)
(* host arrive meanwhile.                                                  *)
THEOREM AttemptIsShown == Spec => []AttemptShown
<1>1. TypeOK /\ FlowInv => AttemptShown
  BY ConnectAssumption
     DEF TypeOK, FlowInv, AttemptKnown, AttemptShown, Running, Numbers
<1> QED BY <1>1, ConnectFlowTypes, FlowInvariant, PTL

-----------------------------------------------------------------------------
(* Refinement of LastAskWins.                                              *)

(* The ask the refinement mapping shows.                                   *)
TheAsk == IF inFlight = None THEN 0 ELSE last

(* The tail of an attempt is an adoption, a failed ask or a stutter.       *)
LEMMA CompleteAsk ==
    ASSUME TypeOK, FlowInv, NEW n \in Numbers,
           Running(n), tries[n].stage # "queued",
           NEW t \in [Numbers -> Try], NEW outcome, Complete(n, t, outcome)
    PROVE  Asks!Adopt \/ Asks!Forget
<1>1. last' = last /\ None \notin Hosts
  BY ConnectAssumption DEF Complete
<1>2. CASE tries[n].cancelled
  BY <1>1, <1>2 DEF Complete, Asks!Forget
<1>3. CASE ~tries[n].cancelled
  <2>1. n = last /\ last # 0
    BY <1>3 DEF FlowInv, OneAttempt, Numbers
  <2>2. inFlight = tries[n].host /\ inFlight # None
    <3>1. AttemptKnown /\ TasksInOrder
      BY DEF FlowInv
    <3>2. inFlight = tries[n].host
      BY <1>3, <2>1, <3>1 DEF AttemptKnown
    <3>3. tries[n].host \in Hosts
      BY <2>1, <3>1 DEF TasksInOrder, Numbers
    <3> QED BY <1>1, <3>2, <3>3
  <2>3. inFlight' = None /\ lastSession' \in {lastSession, n}
    BY <1>3, <2>2 DEF Complete, DropInFlight
  <2> QED BY <1>1, <2>1, <2>2, <2>3 DEF Asks!Adopt, Asks!Forget
<1> QED BY <1>2, <1>3

(* A dispatch is an ask.                                                   *)
LEMMA DispatchAsk ==
    ASSUME TypeOK, NEW h \in Hosts, NEW t, Dispatch(h, t),
           lastSession' \in {0, lastSession}
    PROVE  Asks!Ask
<1>1. last' = last + 1 /\ inFlight' # None
  BY ConnectAssumption DEF Dispatch
<1> QED BY <1>1 DEF Asks!Ask

(* Everything else forgets the ask, the session, both or nothing.          *)
LEMMA ForgetAsk ==
    ASSUME last' = last, inFlight' \in {None, inFlight},
           lastSession' \in {0, lastSession}
    PROVE  Asks!Forget
BY DEF Asks!Forget

(* Each step of the flow is one of LastAskWins or a stutter.               *)
LEMMA AskStep ==
    ASSUME TypeOK, FlowInv, [Next]_vars
    PROVE  [Asks!Next]_<<last, TheAsk, lastSession>>
<1> USE DEF vm, store, ui, Asks!Next
<1>b. tries \in [Numbers -> Try] /\ lastSession \in 0 .. MaxTries
  BY DEF TypeOK
<1>1. CASE UNCHANGED vars
  BY <1>1 DEF vars, TheAsk
<1>2. ASSUME NEW h \in Hosts, RequestConnect(h) PROVE Asks!Next
  <2>1. CASE Dispatch(h, tries)
    BY <1>2, <2>1, DispatchAsk DEF RequestConnect
  <2>2. CASE UNCHANGED <<inFlight, last, tries>>
    BY <1>2, <2>2, ForgetAsk DEF RequestConnect
  <2> QED BY <1>2, <2>1, <2>2 DEF RequestConnect
<1>3. CASE ConfirmSwap
  <2>1. swap \in Hosts
    BY <1>3 DEF ConfirmSwap, TypeOK
  <2> QED BY <1>3, <2>1, DispatchAsk DEF ConfirmSwap
<1>4. CASE CancelSwap
  BY <1>4, ForgetAsk DEF CancelSwap
<1>5. CASE RetryAfterMismatch
  <2>1. mismatch \in Hosts
    BY <1>5 DEF RetryAfterMismatch, TypeOK
  <2> QED BY <1>5, <2>1, DispatchAsk DEF RetryAfterMismatch
<1>6. CASE ClearMismatch
  BY <1>6, ForgetAsk DEF ClearMismatch
<1>7. CASE EndLiveSession
  BY <1>7, ForgetAsk DEF EndLiveSession
<1>8. ASSUME NEW h \in Hosts, RequestDelete(h) PROVE Asks!Next
  BY <1>8, ForgetAsk DEF RequestDelete
<1>9. CASE ConfirmDelete
  BY <1>9, ForgetAsk DEF ConfirmDelete
<1>10. CASE CancelDelete
  BY <1>10, ForgetAsk DEF CancelDelete
<1>11. ASSUME NEW h \in Hosts, SwipeDelete(h) PROVE Asks!Next
  BY <1>11, ForgetAsk DEF SwipeDelete
<1>12. CASE Refresh
  BY <1>12, ForgetAsk DEF Refresh
<1>13. ASSUME NEW n \in Numbers, Start(n) PROVE Asks!Next
  BY <1>13, ForgetAsk DEF Start, LoadFails, Loads, DropInFlight
<1>14. ASSUME NEW n \in Numbers, PrewarmDenies(n) PROVE Asks!Next
  BY <1>14, <1>b, CompleteAsk DEF PrewarmDenies, Running
<1>15. ASSUME NEW n \in Numbers, RaceDecided(n) PROVE Asks!Next
  <2>1. \A open \in BOOLEAN :
           [tries EXCEPT ![n].session = IF open THEN "open" ELSE "closed"]
              \in [Numbers -> Try]
    BY <1>b DEF Try, Sessions
  <2> QED BY <1>15, <2>1, CompleteAsk DEF RaceDecided, Running
<1>16. ASSUME NEW n \in Numbers, TimeoutReported(n) PROVE Asks!Next
  BY <1>16, <1>b, CompleteAsk DEF TimeoutReported, Running
<1>17. ASSUME NEW n \in Numbers,
              \/ PrewarmAllows(n) \/ ClientAnswers(n) \/ SleepEnds(n)
              \/ TimedOut(n) \/ LinkCloses(n) \/ RemoteEnds(n) \/ PumpEnds(n)
       PROVE  Asks!Next
  BY <1>17, ForgetAsk DEF PrewarmAllows, ClientAnswers, SleepEnds, TimedOut,
     LinkCloses, RemoteEnds, PumpEnds
<1>18. CASE Observe
  BY <1>18, ForgetAsk DEF Observe
<1> QED
  BY <1>1, <1>2, <1>3, <1>4, <1>5, <1>6, <1>7, <1>8, <1>9, <1>10, <1>11,
     <1>12, <1>13, <1>14, <1>15, <1>16, <1>17, <1>18
     DEF Next, UserStep, TaskStep

(* The whole flow, delete dialog included, implements LastAskWins: an      *)
(* attempt that was replaced never becomes the live session.               *)
THEOREM ConnectFlowKeepsLastAsk == Spec => LastAskIsKept
<1>1. Init => Asks!Init
  BY DEF Init, Asks!Init
<1>2. TypeOK /\ FlowInv /\ [Next]_vars => [Asks!Next]_<<last, TheAsk, lastSession>>
  BY AskStep
<1> QED
  BY <1>1, <1>2, ConnectFlowTypes, FlowInvariant, PTL
     DEF Spec, LastAskIsKept, Asks!Spec, TheAsk

-----------------------------------------------------------------------------
(* The two view models agree, as long as nothing asks for the delete       *)
(* dialog (its stale flags can leave a deleted host in flight).            *)

Backed ==
    inFlight # None =>
        last # 0 /\ Running(last)
            /\ ~tries[last].cancelled /\ tries[last].host = inFlight

Matched ==
    /\ (lastSession = 0) <=> (current = None)
    /\ lastSession # 0 => tries[lastSession].host = current

ViewInv ==
    /\ del = None
    /\ Backed
    /\ Matched

(* A step that leaves the tasks and the id in flight alone and keeps the   *)
(* live session or ends it.                                                *)
LEMMA QuietView ==
    ASSUME TypeOK, FlowInv, ViewInv, last' = last, inFlight' = inFlight,
           del' = del, SameTasks(tries', tries),
           \/ lastSession' = lastSession /\ current' = current
           \/ lastSession' = 0 /\ current' = None
    PROVE  ViewInv'
<1> USE DEF ViewInv
<1>1. last # 0 => last \in Numbers
  BY ConnectAssumption DEF TypeOK, Numbers
<1>2. lastSession # 0 => lastSession \in Numbers
  BY ConnectAssumption DEF TypeOK, Numbers
<1>3. Backed'
  BY <1>1 DEF Backed, SameTasks, Running
<1>4. Matched'
  BY <1>2 DEF Matched, SameTasks
<1> QED BY <1>3, <1>4

(* A new attempt keeps the view in step with what runs.                    *)
LEMMA DispatchView ==
    ASSUME TypeOK, FlowInv, ViewInv, NEW h \in Hosts,
           NEW t \in [Numbers -> Try], SameTasks(t, tries), Dispatch(h, t),
           del' = del,
           \/ lastSession' = lastSession /\ current' = current
           \/ lastSession' = 0 /\ current' = None
    PROVE  ViewInv'
<1> USE DEF ViewInv
<1>1. /\ last \in 0 .. MaxTries /\ last + 1 \in Numbers /\ last' = last + 1
      /\ inFlight' = h
  BY ConnectAssumption DEF TypeOK, Dispatch, Numbers
<1>2. tries'[last + 1] = [Blank EXCEPT !.host = h, !.stage = "queued"]
  BY <1>1, CancelledType DEF Dispatch
<1>3. \A n \in Numbers : n # last + 1 => tries'[n].host = tries[n].host
  BY <1>1, CancelledType DEF Dispatch, Cancelled, SameTasks, Try
<1>4. Backed'
  BY <1>1, <1>2 DEF Backed, Running, Blank
<1>5. lastSession # 0 => lastSession \in Numbers /\ lastSession # last + 1
  BY ConnectAssumption DEF TypeOK, Numbers, FlowInv
<1>6. Matched'
  BY <1>3, <1>5 DEF Matched
<1> QED BY <1>4, <1>6

(* An attempt goes on: the latest stays uncancelled and running.           *)
LEMMA ProgressView ==
    ASSUME TypeOK, FlowInv, ViewInv, NEW n \in Numbers,
           \A m \in Numbers : m # n => tries'[m] = tries[m],
           tries'[n].host = tries[n].host,
           tries'[n].cancelled = tries[n].cancelled,
           tries'[n].stage \in {"prewarm", "racing", "closing"},
           UNCHANGED <<last, inFlight, del, lastSession, current>>
    PROVE  ViewInv'
<1> USE DEF ViewInv
<1>1. last # 0 => last \in Numbers
  BY ConnectAssumption DEF TypeOK, Numbers
<1>2. lastSession # 0 => lastSession \in Numbers
  BY ConnectAssumption DEF TypeOK, Numbers
<1>3. Backed'
  BY <1>1 DEF Backed, Running
<1>4. Matched'
  BY <1>2 DEF Matched
<1> QED BY <1>3, <1>4

(* So does a completion, whichever of the attempts it is of.               *)
LEMMA CompleteView ==
    ASSUME TypeOK, FlowInv, ViewInv, NEW n \in Numbers,
           Running(n), tries[n].stage # "queued",
           NEW t \in [Numbers -> Try], SameTasks(t, tries),
           NEW outcome, Complete(n, t, outcome)
    PROVE  ViewInv'
<1>1. /\ last' = last /\ del' = del
      /\ \A m \in Numbers : m # n => tries'[m] = t[m]
      /\ tries'[n].host = tries[n].host
  BY DEF Complete, SameTasks, Try
<1>2. /\ last # 0 => last \in Numbers
      /\ lastSession # 0 => lastSession \in Numbers
      /\ n # 0
  BY ConnectAssumption DEF TypeOK, Numbers
<1>3. \A m \in Numbers : tries'[m].host = tries[m].host
  BY <1>1 DEF SameTasks
<1>4. CASE tries[n].cancelled
  <2>1. inFlight' = inFlight /\ current' = current /\ lastSession' = lastSession
    BY <1>4 DEF Complete
  <2>2. inFlight # None => last # n
    BY <1>4 DEF ViewInv, Backed
  <2>3. Backed'
    BY <1>1, <1>2, <2>1, <2>2 DEF ViewInv, Backed, SameTasks, Running
  <2>4. Matched'
    BY <1>2, <1>3, <2>1 DEF ViewInv, Matched
  <2> QED BY <1>1, <2>3, <2>4 DEF ViewInv
<1>5. CASE ~tries[n].cancelled
  <2>1. n = last
    BY <1>5 DEF FlowInv, OneAttempt
  <2>2. inFlight = tries[n].host
    <3>1. AttemptKnown
      BY DEF FlowInv
    <3> QED BY <1>2, <1>5, <2>1, <3>1 DEF AttemptKnown
  <2>3. tries[n].host # None
    <3>1. TasksInOrder
      BY DEF FlowInv
    <3> QED BY <2>1, <3>1, ConnectAssumption DEF TasksInOrder, Numbers
  <2>4. inFlight' = None
    BY <1>5, <2>2 DEF Complete, DropInFlight
  <2>5. \/ lastSession' = n /\ current' = tries[n].host
        \/ lastSession' = lastSession /\ current' = current
    BY <1>5, <2>2 DEF Complete
  <2>6. Matched'
    BY <1>2, <1>3, <2>3, <2>5 DEF ViewInv, Matched
  <2> QED BY <1>1, <2>4, <2>6 DEF ViewInv, Backed
<1> QED BY <1>4, <1>5

(* So does every step, without the delete dialog.                          *)
LEMMA ViewStep ==
    ASSUME ~dialog, TypeOK, FlowInv, ViewInv, [Next]_vars
    PROVE  ViewInv'
<1> USE DEF vm, store, ui
<1>a. SameTasks(tries, tries)
  BY DEF SameTasks
<1>b. tries \in [Numbers -> Try] /\ lastSession \in 0 .. MaxTries
  BY DEF TypeOK
<1>c. \A n \in 0 .. MaxTries : SameTasks(Disconnected(tries, n), tries)
  BY <1>b, DisconnectedSame
<1>1. CASE UNCHANGED vars
  BY <1>1, <1>a, QuietView DEF vars
<1>2. ASSUME NEW h \in Hosts, RequestConnect(h) PROVE ViewInv'
  <2>1. CASE Dispatch(h, tries)
    BY <1>2, <1>a, <1>b, <2>1, DispatchView DEF RequestConnect
  <2>2. CASE UNCHANGED <<inFlight, last, tries>>
    BY <1>2, <1>a, <2>2, QuietView DEF RequestConnect
  <2> QED BY <1>2, <2>1, <2>2 DEF RequestConnect
<1>3. CASE ConfirmSwap
  <2>1. swap \in Hosts
    BY <1>3 DEF ConfirmSwap, TypeOK
  <2>2. Disconnected(tries, lastSession) \in [Numbers -> Try]
    BY <1>b, DisconnectedType
  <2> QED BY <1>3, <1>b, <1>c, <2>1, <2>2, DispatchView DEF ConfirmSwap
<1>4. CASE CancelSwap
  BY <1>4, <1>a, QuietView DEF CancelSwap
<1>5. CASE RetryAfterMismatch
  <2>1. mismatch \in Hosts
    BY <1>5 DEF RetryAfterMismatch, TypeOK
  <2> QED BY <1>5, <1>a, <1>b, <2>1, DispatchView DEF RetryAfterMismatch
<1>6. CASE ClearMismatch
  BY <1>6, <1>a, QuietView DEF ClearMismatch
<1>7. CASE EndLiveSession
  <2>1. SameTasks(tries', tries)
    BY <1>7, <1>a, <1>b, <1>c DEF EndLiveSession
  <2> QED BY <1>7, <2>1, QuietView DEF EndLiveSession
<1>8. ASSUME NEW h \in Hosts, RequestDelete(h) PROVE FALSE
  BY <1>8 DEF RequestDelete
<1>9. ~ConfirmDelete /\ ~CancelDelete
  BY DEF ConfirmDelete, CancelDelete, ViewInv
<1>11. ASSUME NEW h \in Hosts, SwipeDelete(h) PROVE ViewInv'
  BY <1>11, <1>a, QuietView DEF SwipeDelete
<1>12. CASE Refresh
  BY <1>12, <1>a, QuietView DEF Refresh
<1>13. ASSUME NEW n \in Numbers, Start(n), LoadFails(n) PROVE ViewInv'
  <2>1. /\ UNCHANGED <<last, del, lastSession, current>>
        /\ \A m \in Numbers : m # n => tries'[m] = tries[m]
        /\ tries'[n].host = tries[n].host
        /\ inFlight' \in {None, inFlight}
        /\ inFlight' # None => inFlight' # tries[n].host
    BY <1>13, <1>b DEF LoadFails, DropInFlight, Try
  <2>2. /\ last # 0 => last \in Numbers
        /\ lastSession # 0 => lastSession \in Numbers
    BY ConnectAssumption DEF TypeOK, Numbers
  <2>3. Backed'
    BY <2>1, <2>2 DEF ViewInv, Backed, Running
  <2>4. Matched'
    BY <2>1, <2>2 DEF ViewInv, Matched
  <2> QED BY <2>1, <2>3, <2>4 DEF ViewInv
<1>14. ASSUME NEW n \in Numbers, Loads(n) PROVE ViewInv'
  <2>1. /\ \A m \in Numbers : m # n => tries'[m] = tries[m]
        /\ tries'[n].host = tries[n].host
        /\ tries'[n].cancelled = tries[n].cancelled
        /\ tries'[n].stage \in {"prewarm", "racing", "closing"}
    BY <1>14, <1>b DEF Loads, Race, Try
  <2> QED BY <1>14, <2>1, ProgressView DEF Loads
<1>15. ASSUME NEW n \in Numbers, PrewarmAllows(n) PROVE ViewInv'
  <2>1. /\ \A m \in Numbers : m # n => tries'[m] = tries[m]
        /\ tries'[n].host = tries[n].host
        /\ tries'[n].cancelled = tries[n].cancelled
        /\ tries'[n].stage \in {"prewarm", "racing", "closing"}
    BY <1>15, <1>b DEF PrewarmAllows, Race, Try
  <2> QED BY <1>15, <2>1, ProgressView DEF PrewarmAllows
<1>16. ASSUME NEW n \in Numbers, PrewarmDenies(n) PROVE ViewInv'
  BY <1>16, <1>a, <1>b, CompleteView DEF PrewarmDenies, Running
<1>17. ASSUME NEW n \in Numbers,
              \/ ClientAnswers(n) \/ SleepEnds(n)
              \/ LinkCloses(n) \/ RemoteEnds(n) \/ PumpEnds(n)
       PROVE  ViewInv'
  <2>1. SameTasks(tries', tries)
    <3>1. CASE ClientAnswers(n)
      BY <3>1, <1>b DEF ClientAnswers, SameTasks, Try
    <3>2. CASE SleepEnds(n)
      BY <3>2, <1>b DEF SleepEnds, SameTasks, Try
    <3>3. CASE LinkCloses(n)
      BY <3>3, <1>b DEF LinkCloses, SameTasks, Try
    <3>4. CASE RemoteEnds(n)
      BY <3>4, <1>b DEF RemoteEnds, SameTasks, Try
    <3>5. CASE PumpEnds(n)
      BY <3>5, <1>b DEF PumpEnds, SameTasks, Try
    <3> QED BY <1>17, <3>1, <3>2, <3>3, <3>4, <3>5
  <2>2. UNCHANGED <<vm, last, lastSession>>
    BY <1>17 DEF ClientAnswers, SleepEnds, LinkCloses, RemoteEnds, PumpEnds
  <2> QED BY <2>1, <2>2, QuietView
<1>19. ASSUME NEW n \in Numbers, RaceDecided(n) PROVE ViewInv'
  <2>1. \A open \in BOOLEAN :
           LET t == [tries EXCEPT ![n].session = IF open THEN "open" ELSE "closed"]
           IN  t \in [Numbers -> Try] /\ SameTasks(t, tries)
    BY <1>b DEF Try, Sessions, SameTasks
  <2> QED BY <1>19, <2>1, CompleteView DEF RaceDecided, Running
<1>20. ASSUME NEW n \in Numbers, TimedOut(n) PROVE ViewInv'
  <2>1. /\ \A m \in Numbers : m # n => tries'[m] = tries[m]
        /\ tries'[n].host = tries[n].host
        /\ tries'[n].cancelled = tries[n].cancelled
        /\ tries'[n].stage \in {"prewarm", "racing", "closing"}
    BY <1>20, <1>b DEF TimedOut, Disconnected, Try, Numbers
  <2> QED BY <1>20, <2>1, ProgressView DEF TimedOut
<1>21. ASSUME NEW n \in Numbers, TimeoutReported(n) PROVE ViewInv'
  BY <1>21, <1>a, <1>b, CompleteView DEF TimeoutReported, Running
<1>22. CASE Observe
  BY <1>22, <1>a, QuietView DEF Observe
<1> QED
  BY <1>1, <1>2, <1>3, <1>4, <1>5, <1>6, <1>7, <1>8, <1>9, <1>11, <1>12,
     <1>13, <1>14, <1>15, <1>16, <1>17, <1>19, <1>20, <1>21, <1>22
     DEF Next, UserStep, TaskStep, Start

(* What holds of the views without the dialog.                             *)
PlainView == ~dialog => ViewInv

(* Every step keeps it.                                                    *)
LEMMA PlainViewStep == TypeOK /\ FlowInv /\ PlainView /\ [Next]_vars => PlainView'
BY DialogStays, ViewStep DEF PlainView

(* So it holds always.                                                     *)
LEMMA PlainViewHolds == Spec => []PlainView
<1>1. Init => PlainView
  BY DEF Init, PlainView, ViewInv, Backed, Matched
<1> QED BY <1>1, PlainViewStep, ConnectFlowTypes, FlowInvariant, PTL DEF Spec

(* A row spins only while its attempt runs, and the session that           *)
(* HostsViewModel holds is the one HostsVM calls current, in a program     *)
(* without the dialog.                                                     *)
THEOREM ViewsAgree == Spec => [](SpinnerBacked /\ SessionMatchesCurrent)
<1>1. PlainView => SpinnerBacked /\ SessionMatchesCurrent
  BY DEF PlainView, ViewInv, Backed, Matched, SpinnerBacked, SessionMatchesCurrent
<1> QED BY <1>1, PlainViewHolds, PTL

(* The half of ViewsAgree about the rows.                                  *)
THEOREM SpinnersAreBacked == Spec => []SpinnerBacked
BY ViewsAgree, PTL

-----------------------------------------------------------------------------
(* The session held stays the one of an attempt that ended well.           *)

(* A step that keeps or drops the session, and leaves its attempt as it    *)
(* was, keeps SessionFinished.                                             *)
LEMMA KeptFinished ==
    ASSUME SessionFinished, lastSession' \in {0, lastSession},
           lastSession' # 0 =>
              /\ tries'[lastSession].stage = tries[lastSession].stage
              /\ tries'[lastSession].cancelled = tries[lastSession].cancelled
              /\ tries'[lastSession].session \in {tries[lastSession].session, "closed"}
    PROVE  SessionFinished'
BY DEF SessionFinished

(* Cancelling the latest attempt does not reach the session held.          *)
LEMMA CancelledSpares ==
    ASSUME TypeOK, SessionFinished, lastSession # 0
    PROVE  Cancelled(tries, last)[lastSession] = tries[lastSession]
BY ConnectAssumption DEF TypeOK, SessionFinished, Cancelled, Numbers

(* A new attempt cancels no attempt that is done.                          *)
LEMMA DispatchFinished ==
    ASSUME TypeOK, FlowInv, SessionFinished, NEW h, Dispatch(h, tries),
           lastSession' = lastSession
    PROVE  SessionFinished'
<1>1. lastSession # 0 => /\ lastSession \in Numbers /\ lastSession # last + 1
                         /\ last + 1 \in Numbers
  BY ConnectAssumption DEF TypeOK, FlowInv, Dispatch, Numbers
<1>2. Cancelled(tries, last) \in [Numbers -> Try]
  BY CancelledType DEF TypeOK
<1>3. lastSession # 0 => tries'[lastSession] = tries[lastSession]
  BY <1>1, <1>2, CancelledSpares DEF Dispatch
<1> QED BY <1>3, KeptFinished

(* A step of an attempt that has not ended, or of a connection alone.      *)
LEMMA OtherFinished ==
    ASSUME TypeOK, SessionFinished, NEW n \in Numbers, lastSession' = lastSession,
           \A m \in Numbers : m # n => tries'[m] = tries[m],
           tries[n].stage # "done"
    PROVE  SessionFinished'
<1>1. lastSession # 0 => lastSession \in Numbers /\ lastSession # n
  BY ConnectAssumption DEF TypeOK, Numbers, SessionFinished
<1> QED BY <1>1, KeptFinished

(* A completion sets the session of an attempt that then is done.          *)
LEMMA CompleteFinished ==
    ASSUME TypeOK, SessionFinished, NEW n \in Numbers, tries[n].stage # "done",
           NEW t \in [Numbers -> Try], \A m \in Numbers : m # n => t[m] = tries[m],
           t[n].cancelled = tries[n].cancelled,
           NEW outcome, outcome = "session" => t[n].session = "open",
           Complete(n, t, outcome)
    PROVE  SessionFinished'
<1>1. /\ \A m \in Numbers : m # n => tries'[m] = tries[m]
      /\ tries'[n].stage = "done" /\ tries'[n].cancelled = tries[n].cancelled
      /\ tries'[n].session = t[n].session
  BY DEF Complete, Try
<1>2. CASE lastSession' = lastSession
  BY <1>1, <1>2, OtherFinished
<1>3. CASE lastSession' # lastSession
  <2>1. lastSession' = n /\ outcome = "session" /\ ~tries[n].cancelled
    BY <1>3 DEF Complete
  <2> QED BY <1>1, <2>1 DEF SessionFinished
<1> QED BY <1>2, <1>3

(* So every step keeps SessionFinished.                                    *)
LEMMA FinishedStep ==
    ASSUME TypeOK, FlowInv, SessionFinished, [Next]_vars
    PROVE  SessionFinished'
<1> USE DEF vm, store, ui
<1>b. tries \in [Numbers -> Try] /\ lastSession \in 0 .. MaxTries
  BY DEF TypeOK
<1>c. lastSession # 0 => lastSession \in Numbers
  BY <1>b, ConnectAssumption DEF Numbers
<1>1. ASSUME UNCHANGED <<tries, lastSession>> PROVE SessionFinished'
  BY <1>1, KeptFinished
<1>2. ASSUME lastSession' = 0 PROVE SessionFinished'
  BY <1>2 DEF SessionFinished
<1>3. ASSUME NEW h \in Hosts, RequestConnect(h) PROVE SessionFinished'
  BY <1>1, <1>3, DispatchFinished DEF RequestConnect
<1>4. CASE RetryAfterMismatch
  BY <1>4, DispatchFinished DEF RetryAfterMismatch
<1>5. CASE ConfirmSwap \/ EndLiveSession
  BY <1>2, <1>5 DEF ConfirmSwap, EndLiveSession
<1>6. CASE ConfirmDelete
  <2>1. CASE current = del.id
    BY <1>2, <1>6, <2>1 DEF ConfirmDelete
  <2>2. CASE current # del.id
    <3>1. /\ lastSession' = lastSession
          /\ tries' \in {tries, Cancelled(tries, last)}
      BY <1>6, <2>2 DEF ConfirmDelete
    <3>2. lastSession # 0 => tries'[lastSession] = tries[lastSession]
      BY <3>1, CancelledSpares
    <3> QED BY <3>1, <3>2, KeptFinished
  <2> QED BY <2>1, <2>2
<1>7. ASSUME NEW n \in Numbers, Start(n) PROVE SessionFinished'
  <2>1. /\ lastSession' = lastSession /\ tries[n].stage # "done"
        /\ \A m \in Numbers : m # n => tries'[m] = tries[m]
    BY <1>7, <1>b DEF Start, LoadFails, Loads, Race
  <2> QED BY <2>1, OtherFinished
<1>8. ASSUME NEW n \in Numbers,
             PrewarmAllows(n) \/ ClientAnswers(n) \/ SleepEnds(n) \/ TimedOut(n)
      PROVE  SessionFinished'
  <2>1. lastSession' = lastSession /\ tries[n].stage # "done"
    BY <1>8 DEF PrewarmAllows, ClientAnswers, SleepEnds, TimedOut
  <2>2. \A m \in Numbers : m # n => tries'[m] = tries[m]
    <3>1. CASE PrewarmAllows(n)
      BY <3>1, <1>b DEF PrewarmAllows, Race
    <3>2. CASE ClientAnswers(n)
      BY <3>2, <1>b DEF ClientAnswers
    <3>3. CASE SleepEnds(n)
      BY <3>3, <1>b DEF SleepEnds
    <3>4. CASE TimedOut(n)
      BY <3>4, <1>b DEF TimedOut, Disconnected, Numbers
    <3> QED BY <1>8, <3>1, <3>2, <3>3, <3>4
  <2> QED BY <2>1, <2>2, OtherFinished
<1>9. ASSUME NEW n \in Numbers, PrewarmDenies(n) \/ TimeoutReported(n)
      PROVE  SessionFinished'
  BY <1>9, <1>b, CompleteFinished DEF PrewarmDenies, TimeoutReported
<1>10. ASSUME NEW n \in Numbers, RaceDecided(n) PROVE SessionFinished'
  <2> DEFINE open == tries[n].winner = "connect" /\ tries[n].answer = "ok"
             bad  == tries[n].winner = "connect" /\ tries[n].answer = "mismatch"
             t    == [tries EXCEPT ![n].session = IF open THEN "open" ELSE "closed"]
             out  == CASE open -> "session" [] bad -> "mismatch" [] OTHER -> "error"
  <2>1. tries[n].stage # "done" /\ Complete(n, t, out)
    BY <1>10 DEF RaceDecided
  <2>2. /\ t \in [Numbers -> Try]
        /\ \A m \in Numbers : m # n => t[m] = tries[m]
        /\ t[n].cancelled = tries[n].cancelled
        /\ t[n].session = IF open THEN "open" ELSE "closed"
    BY <1>b DEF Try, Sessions
  <2>3. out = "session" => open
    OBVIOUS
  <2> HIDE DEF open, bad, t, out
  <2> QED BY <2>1, <2>2, <2>3, CompleteFinished
<1>11. ASSUME NEW n \in Numbers, LinkCloses(n) \/ RemoteEnds(n) \/ PumpEnds(n)
       PROVE  SessionFinished'
  <2>1. /\ lastSession' = lastSession
        /\ \A m \in Numbers : /\ tries'[m].stage = tries[m].stage
                              /\ tries'[m].cancelled = tries[m].cancelled
                              /\ tries'[m].session \in {tries[m].session, "closed"}
    BY <1>11, <1>b DEF LinkCloses, RemoteEnds, PumpEnds, Try
  <2> QED BY <1>c, <2>1, KeptFinished
<1>12. ASSUME NEW h \in Hosts, RequestDelete(h) \/ SwipeDelete(h)
       PROVE  SessionFinished'
  BY <1>1, <1>12 DEF RequestDelete, SwipeDelete
<1>13. CASE CancelSwap \/ ClearMismatch \/ CancelDelete \/ Refresh \/ Observe
            \/ UNCHANGED vars
  BY <1>1, <1>13 DEF CancelSwap, ClearMismatch, CancelDelete, Refresh, Observe, vars
<1> QED
  BY <1>3, <1>4, <1>5, <1>6, <1>7, <1>8, <1>9, <1>10, <1>11, <1>12, <1>13
     DEF Next, UserStep, TaskStep

(* The session HostsViewModel holds is of an attempt that completed        *)
(* uncancelled and connected, however the attempts raced.                  *)
THEOREM SessionIsFinished == Spec => []SessionFinished
<1>1. Init => SessionFinished
  BY DEF Init, SessionFinished
<1> QED BY <1>1, FinishedStep, ConnectFlowTypes, FlowInvariant, PTL DEF Spec

-----------------------------------------------------------------------------
(* What the app closes.                                                    *)

Closes(n) == tries[n].link = "up" /\ tries'[n].link = "closing"

Asked(n) ==
    \/ lastSession = n /\ lastSession' = 0 /\ current' = None
    \/ tries[n].winner = "timeout" /\ lastSession # n

(* When no connection starts to close, none is closed.                     *)
LEMMA NoneCloses ==
    ASSUME \A m \in Numbers : tries'[m].link \in {tries[m].link, "none", "up", "down"}
    PROVE  \A n \in Numbers : Closes(n) => Asked(n)
BY DEF Closes

(* Cancelling leaves the connections alone.                                *)
LEMMA CancelledLinks ==
    ASSUME NEW t \in [Numbers -> Try], NEW k
    PROVE  \A m \in Numbers : Cancelled(t, k)[m].link = t[m].link
BY DEF Cancelled, Try

(* A new attempt closes no connection.                                     *)
LEMMA DispatchCloses ==
    ASSUME TypeOK, NEW h, NEW t \in [Numbers -> Try], Dispatch(h, t)
    PROVE  \A m \in Numbers : tries'[m].link \in {t[m].link, "none"}
<1>1. Cancelled(t, last) \in [Numbers -> Try]
  BY CancelledType DEF TypeOK
<1> QED BY <1>1, CancelledLinks DEF Dispatch, Blank

(* A disconnect touches one connection.                                    *)
LEMMA DisconnectedLinks ==
    ASSUME NEW t \in [Numbers -> Try], NEW k \in 0 .. MaxTries
    PROVE  \A m \in Numbers : m # k => Disconnected(t, k)[m].link = t[m].link
BY DEF Disconnected, Try, Numbers

(* A completion touches none.                                              *)
LEMMA CompleteCloses ==
    ASSUME NEW n \in Numbers, NEW t \in [Numbers -> Try], NEW outcome,
           Complete(n, t, outcome)
    PROVE  \A m \in Numbers : tries'[m].link = t[m].link
BY DEF Complete, Try

(* Each connection that a step closes was to be closed.                    *)
LEMMA CloseStep ==
    ASSUME TypeOK, SessionFinished, del = None, ~dialog, [Next]_vars
    PROVE  \A n \in Numbers : Closes(n) => Asked(n)
<1> USE DEF vm, store, ui
<1>b. tries \in [Numbers -> Try] /\ lastSession \in 0 .. MaxTries
  BY DEF TypeOK
<1>1. CASE UNCHANGED tries
  BY <1>1, NoneCloses
<1>2. ASSUME NEW h \in Hosts, RequestConnect(h)
      PROVE  \A n \in Numbers : Closes(n) => Asked(n)
  <2>1. CASE Dispatch(h, tries)
    BY <1>b, <2>1, DispatchCloses, NoneCloses
  <2> QED BY <1>1, <1>2, <2>1 DEF RequestConnect
<1>3. CASE RetryAfterMismatch
  BY <1>3, <1>b, DispatchCloses, NoneCloses DEF RetryAfterMismatch
<1>4. CASE ConfirmSwap
  <2>1. Disconnected(tries, lastSession) \in [Numbers -> Try]
    BY <1>b, DisconnectedType
  <2>2. \A m \in Numbers : tries'[m].link \in {Disconnected(tries, lastSession)[m].link, "none"}
    BY <1>4, <2>1, DispatchCloses DEF ConfirmSwap
  <2>3. \A m \in Numbers : m # lastSession => tries'[m].link \in {tries[m].link, "none"}
    BY <1>b, <2>2, DisconnectedLinks
  <2> QED BY <1>4, <2>3 DEF Closes, Asked, ConfirmSwap
<1>5. CASE EndLiveSession
  <2>1. \A m \in Numbers : m # lastSession => tries'[m].link = tries[m].link
    BY <1>5, <1>b, DisconnectedLinks DEF EndLiveSession
  <2> QED BY <1>5, <2>1 DEF Closes, Asked, EndLiveSession
<1>6. ASSUME NEW n \in Numbers, TimedOut(n)
      PROVE  \A m \in Numbers : Closes(m) => Asked(m)
  <2>1. tries[n].winner = "timeout" /\ tries[n].stage = "racing"
    BY <1>6 DEF TimedOut
  <2>2. n # lastSession
    BY <2>1, ConnectAssumption DEF SessionFinished, Numbers
  <2>3. \A m \in Numbers : m # n => tries'[m].link = tries[m].link
    BY <1>6, <1>b DEF TimedOut, Disconnected, Try, Numbers
  <2> QED BY <2>1, <2>2, <2>3 DEF Closes, Asked
<1>7. ASSUME NEW n \in Numbers, PrewarmDenies(n) \/ TimeoutReported(n)
      PROVE  \A m \in Numbers : Closes(m) => Asked(m)
  BY <1>7, <1>b, CompleteCloses, NoneCloses DEF PrewarmDenies, TimeoutReported
<1>8. ASSUME NEW n \in Numbers, RaceDecided(n)
      PROVE  \A m \in Numbers : Closes(m) => Asked(m)
  <2> DEFINE open == tries[n].winner = "connect" /\ tries[n].answer = "ok"
             bad  == tries[n].winner = "connect" /\ tries[n].answer = "mismatch"
             t    == [tries EXCEPT ![n].session = IF open THEN "open" ELSE "closed"]
             out  == CASE open -> "session" [] bad -> "mismatch" [] OTHER -> "error"
  <2>1. Complete(n, t, out)
    BY <1>8 DEF RaceDecided
  <2>2. t \in [Numbers -> Try] /\ \A m \in Numbers : t[m].link = tries[m].link
    BY <1>b DEF Try, Sessions
  <2> QED BY <2>1, <2>2, CompleteCloses, NoneCloses
<1>9. ASSUME NEW n \in Numbers,
             \/ Start(n) \/ PrewarmAllows(n) \/ ClientAnswers(n) \/ SleepEnds(n)
             \/ LinkCloses(n) \/ RemoteEnds(n) \/ PumpEnds(n)
      PROVE  \A m \in Numbers : Closes(m) => Asked(m)
  <2>1. CASE Start(n)
    BY <2>1, <1>b, NoneCloses DEF Start, LoadFails, Loads, Race, Try
  <2>5. CASE PrewarmAllows(n)
    BY <2>5, <1>b, NoneCloses DEF Race, PrewarmAllows, Try
  <2>2. CASE ClientAnswers(n)
    BY <2>2, <1>b, NoneCloses DEF ClientAnswers, Try
  <2>3. CASE SleepEnds(n)
    BY <2>3, <1>b, NoneCloses DEF SleepEnds, Try
  <2>4. CASE LinkCloses(n) \/ RemoteEnds(n) \/ PumpEnds(n)
    BY <2>4, <1>b, NoneCloses DEF LinkCloses, RemoteEnds, PumpEnds, Try
  <2> QED BY <1>9, <2>1, <2>2, <2>3, <2>4, <2>5
<1>10. ASSUME NEW h \in Hosts, RequestDelete(h) \/ SwipeDelete(h)
       PROVE  \A n \in Numbers : Closes(n) => Asked(n)
  BY <1>1, <1>10 DEF RequestDelete, SwipeDelete
<1>11. CASE CancelSwap \/ ClearMismatch \/ Refresh \/ Observe \/ UNCHANGED vars
  BY <1>1, <1>11 DEF CancelSwap, ClearMismatch, Refresh, Observe, vars
<1>12. ~ConfirmDelete /\ ~CancelDelete
  BY DEF ConfirmDelete, CancelDelete
<1> QED
  BY <1>2, <1>3, <1>4, <1>5, <1>6, <1>7, <1>8, <1>9, <1>10, <1>11, <1>12
     DEF Next, UserStep, TaskStep

(* A connection is closed only as the live session given up, or as one     *)
(* that came after its timeout, in a program without the dialog.           *)
THEOREM ClosesAreAsked == Spec => NoUnaskedClose
<1>1. TypeOK /\ SessionFinished /\ PlainView /\ [Next]_vars
         => (~dialog => \A n \in Numbers : Closes(n) => Asked(n))
  BY CloseStep DEF PlainView, ViewInv
<1>2. TypeOK /\ SessionFinished /\ PlainView /\ [Next]_vars =>
         [~dialog => \A n \in Numbers :
            tries[n].link = "up" /\ tries'[n].link = "closing" =>
              \/ lastSession = n /\ lastSession' = 0 /\ current' = None
              \/ tries[n].winner = "timeout" /\ lastSession # n]_vars
  BY <1>1 DEF Closes, Asked
<1> QED BY <1>2, ConnectFlowTypes, SessionIsFinished, PlainViewHolds, PTL
        DEF Spec, NoUnaskedClose

-----------------------------------------------------------------------------
(* The screen on top.                                                      *)

Top == screens[Len(screens)]

OnTop ==
    ~dirty /\ current \in entries /\ screens # << >>
        => tries[screens[Len(screens)]].host = current

ScreenInv ==
    /\ OnTop
    /\ screens # << >> => Top \in 1 .. last

(* A step that neither starts an attempt nor touches the screens; what the *)
(* observation has not seen yet does not count.                            *)
LEMMA ScreensStay ==
    ASSUME TypeOK, ScreenInv, screens' = screens, last' \in Nat, last' >= last,
           \A n \in 1 .. last : tries'[n].host = tries[n].host,
           ~dirty' => ~dirty /\ UNCHANGED <<entries, current>>
    PROVE  ScreenInv'
<1>1. screens # << >> => tries'[Top].host = tries[Top].host
  BY DEF ScreenInv
<1>2. OnTop'
  BY <1>1 DEF ScreenInv, OnTop, Top
<1>3. screens # << >> => Top' \in 1 .. last'
  BY DEF ScreenInv, TypeOK, Top
<1> QED BY <1>2, <1>3 DEF ScreenInv

(* With no screens there is nothing to show.                               *)
LEMMA ScreensGone == ASSUME screens' = << >> PROVE ScreenInv'
BY DEF ScreenInv, OnTop

(* A new attempt leaves the hosts of the former ones.                      *)
LEMMA DispatchHosts ==
    ASSUME TypeOK, NEW h, NEW t \in [Numbers -> Try], SameTasks(t, tries), Dispatch(h, t)
    PROVE  last' \in Nat /\ last' >= last /\ \A n \in 1 .. last : tries'[n].host = tries[n].host
<1>1. last \in 0 .. MaxTries /\ last' = last + 1 /\ last < MaxTries
  BY ConnectAssumption DEF TypeOK, Dispatch
<1>2. Cancelled(t, last) \in [Numbers -> Try]
  BY CancelledType DEF TypeOK
<1>3. \A n \in 1 .. last : n \in Numbers /\ n # last + 1
  BY <1>1, ConnectAssumption DEF Numbers
<1>4. \A n \in Numbers : Cancelled(t, last)[n].host = tries[n].host
  BY DEF Cancelled, SameTasks, Try
<1>5. \A n \in 1 .. last : tries'[n] = Cancelled(t, last)[n]
  BY <1>2, <1>3 DEF Dispatch
<1> QED BY <1>1, <1>3, <1>4, <1>5, ConnectAssumption

(* The screens show hosts of attempts, the top one the current host.       *)
LEMMA ScreenStep ==
    ASSUME TypeOK, FlowInv, Matched, ScreenInv,
           del = None, ~dialog, [Next]_vars
    PROVE  ScreenInv'
<1> USE DEF vm, store, ui
<1>a. SameTasks(tries, tries)
  BY DEF SameTasks
<1>b. /\ tries \in [Numbers -> Try] /\ lastSession \in 0 .. MaxTries
      /\ last \in Nat /\ last >= last /\ \A n \in 1 .. last : n \in Numbers
  BY ConnectAssumption DEF TypeOK, Numbers
<1>c. SameTasks(Disconnected(tries, lastSession), tries)
  BY <1>b, DisconnectedSame
<1>1. ASSUME screens' = screens, last' = last, \A n \in Numbers : tries'[n].host = tries[n].host,
             ~dirty' => ~dirty /\ UNCHANGED <<entries, current>>
      PROVE  ScreenInv'
  BY <1>1, <1>b, ScreensStay
<1>2. ASSUME NEW h \in Hosts, RequestConnect(h) PROVE ScreenInv'
  <2>1. screens' = screens /\ (~dirty' => ~dirty /\ UNCHANGED <<entries, current>>)
    BY <1>2 DEF RequestConnect, Sync
  <2>2. CASE Dispatch(h, tries)
    BY <1>a, <1>b, <2>1, <2>2, DispatchHosts, ScreensStay
  <2> QED BY <1>1, <1>2, <2>1, <2>2 DEF RequestConnect
<1>3. CASE ConfirmSwap
  <2>1. screens' = screens /\ (~dirty' => ~dirty /\ UNCHANGED <<entries, current>>)
    BY <1>3 DEF ConfirmSwap, Sync
  <2>2. Disconnected(tries, lastSession) \in [Numbers -> Try]
    BY <1>b, DisconnectedType
  <2> QED BY <1>3, <1>c, <2>1, <2>2, DispatchHosts, ScreensStay DEF ConfirmSwap
<1>4. CASE RetryAfterMismatch
  <2>1. screens' = screens /\ (~dirty' => ~dirty /\ UNCHANGED <<entries, current>>)
    BY <1>4 DEF RetryAfterMismatch, Sync
  <2> QED BY <1>4, <1>a, <1>b, <2>1, DispatchHosts, ScreensStay DEF RetryAfterMismatch
<1>5. CASE CancelSwap \/ ClearMismatch \/ Refresh
  BY <1>1, <1>5 DEF CancelSwap, ClearMismatch, Refresh, Sync
<1>6. CASE EndLiveSession
  BY <1>6, ScreensGone DEF EndLiveSession
<1>7. ASSUME NEW h \in Hosts, RequestDelete(h) \/ SwipeDelete(h) PROVE ScreenInv'
  BY <1>1, <1>7 DEF RequestDelete, SwipeDelete, Sync
<1>8. ~ConfirmDelete /\ ~CancelDelete
  BY DEF ConfirmDelete, CancelDelete
<1>9. ASSUME NEW n \in Numbers, NEW t \in [Numbers -> Try], SameTasks(t, tries),
             NEW outcome, Complete(n, t, outcome)
      PROVE  ScreenInv'
  <2>1. \A m \in Numbers : tries'[m].host = tries[m].host
    BY <1>9 DEF Complete, SameTasks, Try
  <2>2. /\ screens' = screens /\ last' = last
        /\ ~dirty' => ~dirty /\ UNCHANGED <<entries, current>>
    BY <1>9 DEF Complete, Sync
  <2> QED BY <1>1, <2>1, <2>2
<1>10. ASSUME NEW n \in Numbers, Start(n) PROVE ScreenInv'
  <2>1. \A m \in Numbers : tries'[m].host = tries[m].host
    BY <1>10, <1>b DEF Start, LoadFails, Loads, Race, Try
  <2>2. /\ screens' = screens /\ last' = last
        /\ ~dirty' => ~dirty /\ UNCHANGED <<entries, current>>
    BY <1>10 DEF Start, LoadFails, Loads, Sync
  <2> QED BY <1>1, <2>1, <2>2
<1>11. ASSUME NEW n \in Numbers, PrewarmDenies(n) \/ TimeoutReported(n) PROVE ScreenInv'
  BY <1>9, <1>11, <1>a, <1>b DEF PrewarmDenies, TimeoutReported
<1>12. ASSUME NEW n \in Numbers, RaceDecided(n) PROVE ScreenInv'
  <2>1. \A open \in BOOLEAN :
           LET t == [tries EXCEPT ![n].session = IF open THEN "open" ELSE "closed"]
           IN  t \in [Numbers -> Try] /\ SameTasks(t, tries)
    BY <1>b DEF Try, Sessions, SameTasks
  <2> QED BY <1>9, <1>12, <2>1 DEF RaceDecided
<1>13. ASSUME NEW n \in Numbers,
              \/ PrewarmAllows(n) \/ ClientAnswers(n) \/ SleepEnds(n) \/ TimedOut(n)
              \/ LinkCloses(n) \/ RemoteEnds(n) \/ PumpEnds(n)
       PROVE  ScreenInv'
  <2>1. \A m \in Numbers : tries'[m].host = tries[m].host
    <3>1. CASE PrewarmAllows(n)
      BY <3>1, <1>b DEF PrewarmAllows, Race, Try
    <3>2. CASE ClientAnswers(n)
      BY <3>2, <1>b DEF ClientAnswers, Try
    <3>4. CASE SleepEnds(n)
      BY <3>4, <1>b DEF SleepEnds, Try
    <3>5. CASE TimedOut(n)
      BY <3>5, <1>b DEF TimedOut, Disconnected, Try, Numbers
    <3>3. CASE LinkCloses(n) \/ RemoteEnds(n) \/ PumpEnds(n)
      BY <3>3, <1>b DEF LinkCloses, RemoteEnds, PumpEnds, Try
    <3> QED BY <1>13, <3>1, <3>2, <3>3, <3>4, <3>5
  <2>2. UNCHANGED <<screens, last, dirty, entries, current>>
    BY <1>13 DEF PrewarmAllows, ClientAnswers, SleepEnds, TimedOut, LinkCloses,
                 RemoteEnds, PumpEnds
  <2> QED BY <1>1, <2>1, <2>2
<1>14. CASE Observe
  <2>1. /\ dirty' = FALSE /\ UNCHANGED <<entries, current, tries, last>>
    BY <1>14 DEF Observe
  <2>2. CASE lastSession # 0 /\ current # None /\ current \in entries
    <3>1. /\ screens' = Append(screens, lastSession) /\ screens \in Seq(Numbers)
          /\ lastSession \in 1 .. last /\ lastSession \in Numbers
      BY <1>14, <2>2, <1>b, ConnectAssumption DEF Observe, TypeOK, FlowInv, Numbers
    <3>2. screens' # << >> /\ screens'[Len(screens')] = lastSession
      BY <3>1
    <3>3. tries[lastSession].host = current
      BY <2>2 DEF Matched
    <3>4. OnTop'
      BY <2>1, <3>2, <3>3 DEF OnTop
    <3>5. Top' = lastSession
      BY <3>2 DEF Top
    <3> QED BY <2>1, <3>1, <3>4, <3>5 DEF ScreenInv
  <2>3. CASE ~(lastSession # 0 /\ current # None /\ current \in entries)
    <3>1. current \notin entries
      BY <2>3, ConnectAssumption DEF Matched, TypeOK
    <3>2. UNCHANGED screens
      BY <1>14, <2>3 DEF Observe
    <3> QED BY <2>1, <3>1, <3>2 DEF ScreenInv, OnTop, Top
  <2> QED BY <2>2, <2>3
<1>15. CASE UNCHANGED vars
  BY <1>15, <1>1 DEF vars
<1> QED
  BY <1>2, <1>3, <1>4, <1>5, <1>6, <1>7, <1>8, <1>10, <1>11, <1>12, <1>13,
     <1>14, <1>15 DEF Next, UserStep, TaskStep

(* What holds of the screens without the dialog.                           *)
PlainScreen == ~dialog => ScreenInv

(* The terminal on top belongs to the host that Back would end, in a       *)
(* program without the dialog.                                             *)
THEOREM BackEndsWhatIsShown == Spec => []TopScreenIsCurrent
<1>1. Init => PlainScreen
  BY DEF Init, PlainScreen, ScreenInv, OnTop
<1>2. TypeOK /\ FlowInv /\ PlainView /\ PlainScreen /\ [Next]_vars => PlainScreen'
  BY DialogStays, ScreenStep DEF PlainScreen, PlainView, ViewInv
<1>3. PlainScreen => TopScreenIsCurrent
  BY DEF PlainScreen, ScreenInv, OnTop, TopScreenIsCurrent
<1> QED BY <1>1, <1>2, <1>3, ConnectFlowTypes, FlowInvariant, PlainViewHolds, PTL DEF Spec

=============================================================================
