---------------------------- MODULE ConnectFlow ----------------------------
(***************************************************************************)
(* The connect flow of the hosts screen: the Rust view model HostsVM, the  *)
(* Swift HostsViewModel that owns the tasks and the live TerminalSession,  *)
(* ConnectAttempt / TerminalSession.connect / withTimeout for each attempt *)
(* and HostsConnectController, which pushes terminal screens.              *)
(*                                                                         *)
(* Everything here runs on the main actor except the SSH client, so one    *)
(* action is one main-actor turn (from one suspension point to the next)   *)
(* or one event of the network.  Attempts are numbered in the order of     *)
(* their dispatch; number 0 means "no attempt".  HostsViewModel copies the *)
(* five optional ids of HostsVM after every handler, so its copies are not *)
(* separate state; its copy of the entry list is.                          *)
(***************************************************************************)
EXTENDS Naturals, Sequences, FiniteSets

CONSTANTS
    Hosts,        \* ids of the hosts saved when the app starts
    None,         \* the absent id
    Lan,          \* the hosts LocalNetworkPrewarmer.isLAN accepts
    MaxTries,     \* bound: attempts dispatched in one behaviour
    MaxScreens,   \* bound: terminal screens on the navigation stack
    DialogTries,  \* bound: attempts in one where the delete dialog is used
    Dialogs       \* whether something calls HostsViewModel.requestDelete

ASSUME ConnectAssumption ==
    /\ None \notin Hosts
    /\ Lan \subseteq Hosts
    /\ MaxTries \in Nat \ {0}
    /\ MaxScreens \in Nat \ {0}
    /\ DialogTries \in 0 .. MaxTries
    /\ Dialogs \subseteq BOOLEAN

VARIABLES
    inFlight,     \* HostsVM.in_flight_id
    current,      \* HostsVM.current_session_id
    mismatch,     \* source id of HostsVM.pending_mismatch
    swap,         \* target id of HostsVM.swap_confirmation
    del,          \* HostsVM.delete_confirmation
    saved,        \* ids that hosts_store can load
    entries,      \* HostsViewModel.entries, as of its last sync
    granted,      \* the prewarmer's "permission seen" user default
    last,         \* number of the latest attempt, HostsViewModel.inFlightTask
    tries,        \* every attempt: its task, its session and its connection
    lastSession,  \* attempt whose session is HostsViewModel.lastSession, or 0
    dirty,        \* an observation callback is queued on the main queue
    screens,      \* terminal screens on the navigation stack, by attempt
    dialog        \* one of Dialogs, for the whole behaviour

vm     == <<inFlight, current, mismatch, swap, del>>
store  == <<saved, granted>>
ui     == <<entries, dirty, screens>>
vars   == <<vm, store, ui, last, tries, lastSession, dialog>>

Numbers == 1 .. MaxTries

Stages   == {"unused", "queued", "prewarm", "racing", "closing", "done"}
Winners  == {"none", "connect", "timeout", "cancel"}
Answers  == {"ok", "mismatch", "error"}
Links    == {"none", "up", "closing", "down"}
Sessions == {"idle", "connecting", "open", "closed"}

(* One runConnect task.  stage: how far the task is; cancelled: its        *)
(* Task.isCancelled; winner: which branch of withTimeout finished first;   *)
(* answer: what client.connect returned; link: the SSH connection under    *)
(* the client; session: TerminalSession.state.                             *)
Try == [host : Hosts \cup {None}, stage : Stages, cancelled : BOOLEAN,
        winner : Winners, answer : Answers \cup {"none", "pending"},
        link : Links, session : Sessions]

Blank == [host |-> None, stage |-> "unused", cancelled |-> FALSE,
          winner |-> "none", answer |-> "none",
          link |-> "none", session |-> "idle"]

Deletion == [id : Hosts, live : BOOLEAN, flying : BOOLEAN]

Init ==
    /\ inFlight = None /\ current = None /\ mismatch = None
    /\ swap = None /\ del = None
    /\ saved = Hosts /\ entries = Hosts
    /\ granted = FALSE
    /\ last = 0 /\ tries = [n \in Numbers |-> Blank]
    /\ lastSession = 0
    /\ dirty = FALSE /\ screens = << >>
    /\ dialog \in Dialogs

-----------------------------------------------------------------------------
(* Shared steps of the handlers.                                           *)

(* syncFromRust.  Entries whose blob no longer loads drop out.  Assigning  *)
(* a tracked property queues the observation callback; whether assigning   *)
(* an equal value does too depends on the Observation macro of the build.  *)
Sync ==
    /\ entries' = saved'
    /\ dirty' \in BOOLEAN
    /\ ~dirty' => ~dirty /\ UNCHANGED <<entries, current, mismatch, swap, del>>

(* inFlightTask?.cancel().  Cancelling a finished task has no effect.      *)
Cancelled(t, n) ==
    IF n = 0 \/ t[n].stage = "done" THEN t ELSE [t EXCEPT ![n].cancelled = TRUE]

(* lastSession?.disconnect(): the session closes at once, the client's own *)
(* disconnect runs in a task of its own.                                   *)
Disconnected(t, n) ==
    IF n = 0 THEN t
    ELSE [t EXCEPT ![n].session = "closed",
                   ![n].link = IF @ = "up" THEN "closing" ELSE @]

(* start_dispatch and startConnect: the id is in flight, the prior task is *)
(* cancelled, a new task is queued on the main actor.                      *)
Dispatch(h, t) ==
    /\ last < IF dialog THEN DialogTries ELSE MaxTries
    /\ inFlight' = h
    /\ last' = last + 1
    /\ tries' = [Cancelled(t, last) EXCEPT
                    ![last + 1] = [Blank EXCEPT !.host = h, !.stage = "queued"]]

(* Mutant: a failed attempt stays in flight.                               *)
KeepInFlight(h) == inFlight' = inFlight

(* connect_completed_error.                                                *)
DropInFlight(h) == inFlight' = IF inFlight = h THEN None ELSE inFlight

-----------------------------------------------------------------------------
(* What the user does.                                                     *)

(* A row tap, the Retry of an error toast, or "Save & Connect".            *)
RequestConnect(h) ==
    /\ \/ /\ inFlight = h
          /\ UNCHANGED <<inFlight, swap, last, tries>>
       \/ /\ inFlight # h
          /\ current \notin {None, h}
          /\ swap' = h
          /\ UNCHANGED <<inFlight, last, tries>>
       \/ /\ inFlight # h
          /\ current \in {None, h}
          /\ Dispatch(h, tries)
          /\ UNCHANGED swap
    /\ UNCHANGED <<current, mismatch, del, store, lastSession, screens>>
    /\ Sync

(* Mutant: the replaced session is disconnected but still referenced.      *)
ConfirmSwapKeeping ==
    /\ swap # None
    /\ swap' = None
    /\ current' = None
    /\ UNCHANGED lastSession
    /\ Dispatch(swap, Disconnected(tries, lastSession))
    /\ UNCHANGED <<mismatch, del, store, screens>>
    /\ Sync

ConfirmSwap ==
    /\ swap # None
    /\ swap' = None
    /\ current' = None
    /\ lastSession' = 0
    /\ Dispatch(swap, Disconnected(tries, lastSession))
    /\ UNCHANGED <<mismatch, del, store, screens>>
    /\ Sync

CancelSwap ==
    /\ swap # None
    /\ swap' = None
    /\ UNCHANGED <<inFlight, current, mismatch, del, store, last, tries,
                   lastSession, screens>>
    /\ Sync

(* Trust on the mismatch sheet.                                            *)
RetryAfterMismatch ==
    /\ mismatch # None
    /\ mismatch' = None
    /\ Dispatch(mismatch, tries)
    /\ UNCHANGED <<current, swap, del, store, lastSession, screens>>
    /\ Sync

(* Reject on the mismatch sheet.                                           *)
ClearMismatch ==
    /\ mismatch # None
    /\ mismatch' = None
    /\ UNCHANGED <<inFlight, current, swap, del, store, last, tries,
                   lastSession, screens>>
    /\ Sync

(* Mutant: Back disconnects the latest attempt instead of the live session.*)
EndLatest ==
    /\ screens # << >>
    /\ current' = None
    /\ tries' = IF current = None THEN tries ELSE Disconnected(tries, last)
    /\ lastSession' = 0
    /\ screens' = << >>
    /\ UNCHANGED <<inFlight, mismatch, swap, del, store, last>>
    /\ Sync

(* Back on a terminal screen: end the live session, pop to the hosts list. *)
(* Only a live session is disconnected, the reference goes either way.     *)
EndLiveSession ==
    /\ screens # << >>
    /\ current' = None
    /\ tries' = IF current = None THEN tries ELSE Disconnected(tries, lastSession)
    /\ lastSession' = 0
    /\ screens' = << >>
    /\ UNCHANGED <<inFlight, mismatch, swap, del, store, last>>
    /\ Sync

RequestDelete(h) ==
    /\ dialog
    /\ del' = [id |-> h, live |-> current = h, flying |-> inFlight = h]
    /\ UNCHANGED <<inFlight, current, mismatch, swap, store, last, tries,
                   lastSession, screens>>
    /\ Sync

(* Mutant: the attempt of the deleted host is not cancelled.               *)
ConfirmDeleteUncancelled ==
    /\ del # None
    /\ del' = None
    /\ inFlight' = IF del.flying /\ inFlight = del.id THEN None ELSE inFlight
    /\ current' = IF del.live /\ current = del.id THEN None ELSE current
    /\ tries' = IF current = del.id THEN Disconnected(tries, lastSession) ELSE tries
    /\ lastSession' = IF current = del.id THEN 0 ELSE lastSession
    /\ saved' = saved \ {del.id}
    /\ UNCHANGED <<mismatch, swap, granted, last, screens>>
    /\ Sync

(* HostsVM trusts the two flags captured by the request, HostsViewModel    *)
(* compares with the ids it copied before the call.                        *)
ConfirmDelete ==
    /\ del # None
    /\ del' = None
    /\ inFlight' = IF del.flying /\ inFlight = del.id THEN None ELSE inFlight
    /\ current' = IF del.live /\ current = del.id THEN None ELSE current
    /\ LET cut == IF inFlight = del.id THEN Cancelled(tries, last) ELSE tries
       IN  tries' = IF current = del.id THEN Disconnected(cut, lastSession) ELSE cut
    /\ lastSession' = IF current = del.id THEN 0 ELSE lastSession
    /\ saved' = saved \ {del.id}
    /\ UNCHANGED <<mismatch, swap, granted, last, screens>>
    /\ Sync

CancelDelete ==
    /\ del # None
    /\ del' = None
    /\ UNCHANGED <<inFlight, current, mismatch, swap, store, last, tries,
                   lastSession, screens>>
    /\ Sync

(* Swiping a row on the hosts list deletes from the store behind the view  *)
(* models' back: nothing is synced and nothing is cancelled.               *)
SwipeDelete(h) ==
    /\ screens = << >>
    /\ h \in saved
    /\ saved' = saved \ {h}
    /\ UNCHANGED <<vm, granted, ui, last, tries, lastSession>>

(* The form closed without a connect: the list is reloaded.                *)
Refresh ==
    /\ screens = << >>
    /\ UNCHANGED <<vm, store, last, tries, lastSession, screens>>
    /\ Sync

-----------------------------------------------------------------------------
(* The task of attempt n, between its suspension points.                   *)

(* Mutant: no look at Task.isCancelled after the attempt.                  *)
CompleteUnchecked(n, t, outcome) ==
    LET h == tries[n].host
    IN  /\ tries' = [t EXCEPT ![n].stage = "done"]
        /\ UNCHANGED <<swap, del, saved, last, screens>>
        /\ DropInFlight(h)
        /\ lastSession' = IF outcome = "session" THEN n ELSE lastSession
        /\ current' = IF outcome = "session" /\ inFlight = h THEN h ELSE current
        /\ mismatch' = IF outcome = "mismatch" /\ inFlight = h THEN h ELSE mismatch
        /\ Sync

(* The tail of runConnect once the attempt has an outcome in t: a          *)
(* cancelled task returns before it touches either view model.             *)
Complete(n, t, outcome) ==
    LET h == tries[n].host
    IN  /\ tries' = [t EXCEPT ![n].stage = "done"]
        /\ UNCHANGED <<swap, del, saved, last, screens>>
        /\ \/ /\ tries[n].cancelled
              /\ UNCHANGED <<inFlight, current, mismatch, lastSession, entries, dirty>>
           \/ /\ ~tries[n].cancelled
              /\ DropInFlight(h)
              /\ lastSession' = IF outcome = "session" THEN n ELSE lastSession
              /\ current' =
                    IF outcome = "session" /\ inFlight = h THEN h ELSE current
              /\ mismatch' =
                    IF outcome = "mismatch" /\ inFlight = h THEN h ELSE mismatch
              /\ Sync

(* ConnectAttempt.run creates the session and calls its connect.           *)
Race(t, n) ==
    [t EXCEPT ![n].stage = "racing", ![n].answer = "pending",
              ![n].session = "connecting"]

(* The saved host no longer loads: reported whether cancelled or not.      *)
LoadFails(n) ==
    /\ tries[n].host \notin saved
    /\ tries' = [tries EXCEPT ![n].stage = "done"]
    /\ DropInFlight(tries[n].host)
    /\ UNCHANGED <<current, mismatch, swap, del, store, last, lastSession, screens>>
    /\ Sync

Loads(n) ==
    /\ tries[n].host \in saved
    /\ tries' = IF tries[n].host \in Lan /\ ~granted
                THEN [tries EXCEPT ![n].stage = "prewarm"]
                ELSE Race(tries, n)
    /\ UNCHANGED <<vm, store, ui, last, lastSession>>

(* The main queue runs the first steps of tasks in the order of creation.  *)
Start(n) ==
    /\ tries[n].stage = "queued"
    /\ \A m \in Numbers : m < n => tries[m].stage # "queued"
    /\ LoadFails(n) \/ Loads(n)

(* The permission prompt answers, or its own timeout gives up on it; the   *)
(* wait is not tied to the cancellation of the task.                       *)
PrewarmAllows(n) ==
    /\ tries[n].stage = "prewarm"
    /\ tries' = Race(tries, n)
    /\ granted' \in {granted, TRUE}
    /\ UNCHANGED <<vm, saved, ui, last, lastSession>>

(* Mutant: the denied attempt returns without reporting.                   *)
PrewarmDropped(n) ==
    /\ tries[n].stage = "prewarm"
    /\ tries' = [tries EXCEPT ![n].stage = "done"]
    /\ UNCHANGED <<vm, store, ui, last, lastSession>>

PrewarmDenies(n) ==
    /\ tries[n].stage = "prewarm"
    /\ UNCHANGED granted
    /\ Complete(n, tries, "error")

(* withTimeout: client.connect returns, now or long after it has lost.     *)
ClientAnswers(n) ==
    /\ tries[n].stage = "racing"
    /\ tries[n].answer = "pending"
    /\ \E a \in Answers :
          tries' = [tries EXCEPT
                       ![n].answer = a,
                       ![n].link = IF a = "ok" THEN "up" ELSE @,
                       ![n].winner = IF @ = "none" THEN "connect" ELSE @]
    /\ UNCHANGED <<vm, store, ui, last, lastSession>>

(* The sleeping branch: it throws after the timeout, or at once when the   *)
(* task is cancelled.                                                      *)
SleepEnds(n) ==
    /\ tries[n].stage = "racing"
    /\ tries[n].winner = "none"
    /\ tries' = [tries EXCEPT ![n].winner =
                    IF tries[n].cancelled THEN "cancel" ELSE "timeout"]
    /\ UNCHANGED <<vm, store, ui, last, lastSession>>

(* The task group returns once both branches have; TerminalSession.connect *)
(* sets its state, ConnectAttempt.run reads it, runConnect finishes, all   *)
(* in one turn.  CancellationError ends in the catch-all branch, which     *)
(* leaves the client alone.                                                *)
RaceDecided(n) ==
    /\ tries[n].stage = "racing"
    /\ tries[n].winner \in {"connect", "cancel"}
    /\ tries[n].answer # "pending"
    /\ UNCHANGED granted
    /\ LET open == tries[n].winner = "connect" /\ tries[n].answer = "ok"
           bad  == tries[n].winner = "connect" /\ tries[n].answer = "mismatch"
       IN  Complete(n,
              [tries EXCEPT ![n].session = IF open THEN "open" ELSE "closed"],
              CASE open -> "session" [] bad -> "mismatch" [] OTHER -> "error")

(* Mutant: the late connection is left alone.                              *)
TimedOutOpen(n) ==
    /\ tries[n].stage = "racing"
    /\ tries[n].winner = "timeout"
    /\ tries[n].answer # "pending"
    /\ tries' = [tries EXCEPT ![n].stage = "closing", ![n].session = "closed"]
    /\ UNCHANGED <<vm, store, ui, last, lastSession>>

(* TimeoutError: the session closes and awaits client.disconnect().        *)
TimedOut(n) ==
    /\ tries[n].stage = "racing"
    /\ tries[n].winner = "timeout"
    /\ tries[n].answer # "pending"
    /\ tries' = [Disconnected(tries, n) EXCEPT ![n].stage = "closing"]
    /\ UNCHANGED <<vm, store, ui, last, lastSession>>

TimeoutReported(n) ==
    /\ tries[n].stage = "closing"
    /\ tries[n].link # "closing"
    /\ UNCHANGED granted
    /\ Complete(n, tries, "error")

-----------------------------------------------------------------------------
(* The connection, the session's pump and the observation callback.        *)

LinkCloses(n) ==
    /\ tries[n].link = "closing"
    /\ tries' = [tries EXCEPT ![n].link = "down"]
    /\ UNCHANGED <<vm, store, ui, last, lastSession>>

RemoteEnds(n) ==
    /\ tries[n].link = "up"
    /\ tries' = [tries EXCEPT ![n].link = "down"]
    /\ UNCHANGED <<vm, store, ui, last, lastSession>>

(* The output stream is finished: an open session closes itself.           *)
PumpEnds(n) ==
    /\ tries[n].session = "open"
    /\ tries[n].link = "down"
    /\ tries' = [tries EXCEPT ![n].session = "closed"]
    /\ UNCHANGED <<vm, store, ui, last, lastSession>>

(* Mutant: pushes only from the hosts list.                                *)
ObserveOnce ==
    /\ dirty
    /\ dirty' = FALSE
    /\ IF lastSession # 0 /\ current # None /\ current \in entries /\ screens = << >>
       THEN screens' = Append(screens, lastSession)
       ELSE UNCHANGED screens
    /\ UNCHANGED <<vm, store, entries, last, tries, lastSession>>

(* handleObservedChange and pushTerminal: any tracked change pushes a      *)
(* screen while a session is current and its host is still listed.         *)
Observe ==
    /\ dirty
    /\ dirty' = FALSE
    /\ IF lastSession # 0 /\ current # None /\ current \in entries
       THEN /\ Len(screens) < MaxScreens
            /\ screens' = Append(screens, lastSession)
       ELSE UNCHANGED screens
    /\ UNCHANGED <<vm, store, entries, last, tries, lastSession>>

-----------------------------------------------------------------------------

UserStep ==
    \/ \E h \in Hosts : RequestConnect(h) \/ RequestDelete(h) \/ SwipeDelete(h)
    \/ ConfirmSwap \/ CancelSwap
    \/ RetryAfterMismatch \/ ClearMismatch
    \/ EndLiveSession
    \/ ConfirmDelete \/ CancelDelete
    \/ Refresh

TaskStep(n) ==
    \/ Start(n)
    \/ PrewarmAllows(n) \/ PrewarmDenies(n)
    \/ SleepEnds(n)
    \/ RaceDecided(n) \/ TimedOut(n) \/ TimeoutReported(n)
    \/ LinkCloses(n) \/ PumpEnds(n)

Next ==
    /\ \/ UserStep
       \/ \E n \in Numbers : TaskStep(n) \/ ClientAnswers(n) \/ RemoteEnds(n)
       \/ Observe
    /\ UNCHANGED dialog

Spec == Init /\ [][Next]_vars

(* The main actor runs every task that can run, a timer fires, a prompt    *)
(* answers or times out, closing a connection ends.  Nothing is promised   *)
(* about the user, the remote host or how long client.connect waits for it.*)
LocalFairness ==
    /\ \A n \in Numbers : WF_vars(TaskStep(n) /\ UNCHANGED dialog)
    /\ WF_vars(Observe /\ UNCHANGED dialog)

LocalSpec == Spec /\ LocalFairness

-----------------------------------------------------------------------------
(* Properties.                                                             *)

(* Type invariant: the view models' ids, the attempts and the screens.     *)
TypeOK ==
    /\ inFlight \in Hosts \cup {None}
    /\ current \in Hosts \cup {None}
    /\ mismatch \in Hosts \cup {None}
    /\ swap \in Hosts \cup {None}
    /\ del \in Deletion \cup {None}
    /\ saved \subseteq Hosts
    /\ entries \subseteq Hosts
    /\ granted \in BOOLEAN
    /\ last \in 0 .. MaxTries
    /\ tries \in [Numbers -> Try]
    /\ lastSession \in 0 .. MaxTries
    /\ dirty \in BOOLEAN
    /\ screens \in Seq(Numbers)
    /\ dialog \in Dialogs

Running(n) == tries[n].stage \in {"queued", "prewarm", "racing", "closing"}

(* A row shows its spinner only while the latest task is working on that   *)
(* row's host and is not cancelled.  HostsVM ignores a second tap on the   *)
(* row in flight, so an id left behind would lock the row.                 *)
SpinnerBacked ==
    ~dialog /\ inFlight # None =>
        last # 0 /\ Running(last)
            /\ ~tries[last].cancelled /\ tries[last].host = inFlight

(* Conversely, once the latest attempt has loaded its host, HostsVM knows  *)
(* it as the one in flight until it completes, although completions of     *)
(* older attempts for the same host arrive with the same id.               *)
AttemptShown ==
    last # 0 /\ tries[last].stage \in {"prewarm", "racing", "closing"}
            /\ ~tries[last].cancelled
        => inFlight = tries[last].host

(* At most the latest attempt runs uncancelled.                            *)
OneAttempt ==
    \A n \in Numbers : Running(n) /\ ~tries[n].cancelled => n = last

(* Attempts are used in the order of their numbers and take their first    *)
(* steps in that order.                                                    *)
TasksInOrder ==
    \A n \in Numbers :
        /\ n <= last <=> tries[n].stage # "unused"
        /\ n <= last => tries[n].host \in Hosts
        /\ tries[n].stage = "queued" =>
              \A m \in Numbers :
                  n < m /\ m <= last => tries[m].stage = "queued"

(* AttemptShown for a queued attempt too: an older attempt for the same    *)
(* host can clear the id in flight only by failing to load that host, and  *)
(* then the queued attempt, whose first step comes later, fails as well.   *)
AttemptKnown ==
    last # 0 /\ Running(last) /\ ~tries[last].cancelled =>
        \/ inFlight = tries[last].host
        \/ tries[last].stage = "queued" /\ tries[last].host \notin saved

(* What makes the flow correct, as one inductive invariant.                *)
FlowInv ==
    /\ TasksInOrder
    /\ OneAttempt
    /\ AttemptKnown
    /\ lastSession <= last

(* The session HostsViewModel holds and the id HostsVM calls current are   *)
(* of the same attempt, or both absent: Back disconnects what is shown.    *)
SessionMatchesCurrent ==
    ~dialog =>
        /\ (lastSession = 0) <=> (current = None)
        /\ lastSession # 0 => tries[lastSession].host = current

(* The session held was adopted from an attempt that completed uncancelled.*)
SessionFinished ==
    lastSession # 0 =>
        /\ tries[lastSession].stage = "done"
        /\ ~tries[lastSession].cancelled
        /\ tries[lastSession].session \in {"open", "closed"}

(* With no observation pending, the terminal on top is one of the current  *)
(* host, whatever hosts were shown before, as long as that host is still   *)
(* listed: Back names and ends that host.                                  *)
TopScreenIsCurrent ==
    ~dialog /\ ~dirty /\ current \in entries /\ screens # << >>
        => tries[screens[Len(screens)]].host = current

(* The app closes a connection only as the live session given up, or as an *)
(* attempt that timed out.                                                 *)
NoUnaskedClose ==
    [][~dialog => \A n \in Numbers :
          tries[n].link = "up" /\ tries'[n].link = "closing" =>
              \/ lastSession = n /\ lastSession' = 0 /\ current' = None
              \/ tries[n].winner = "timeout" /\ lastSession # n]_vars

(* Refinement: the attempt in flight is the ask being worked on, the       *)
(* session HostsViewModel holds is the live one.  So HostsVM, which tells  *)
(* completions apart by host id alone, and HostsViewModel, which cancels   *)
(* tasks, together never let an attempt back in that was replaced.         *)
Asks == INSTANCE LastAskWins WITH
            asks <- last,
            ask  <- IF inFlight = None THEN 0 ELSE last,
            live <- lastSession

LastAskIsKept == Asks!Spec

(* The task waits for a client.connect that has not returned.              *)
AwaitsClient(n) == tries[n].stage = "racing" /\ tries[n].answer = "pending"

(* A spinner goes away, whatever the remote answers and however often the  *)
(* rows are switched, but for one reason: client.connect never returns.    *)
SpinnerAwaits ==
    \A h \in Hosts : ~dialog =>
        \/ []<>(inFlight # h)
        \/ <>[](inFlight = h /\ last # 0 /\ AwaitsClient(last))

(* TerminalSession on its connect timeout: past it the attempt is torn     *)
(* down and the UI recovers instead of spinning for ever.                  *)
TimeoutRecovers == \A n \in Numbers : tries[n].winner = "timeout" ~> ~Running(n)

(* A connection that wins after its timeout is closed again.               *)
TimedOutReleased ==
    \A n \in Numbers :
        tries[n].winner = "timeout" /\ tries[n].link = "up"
            ~> tries[n].link = "down"

=============================================================================
