# BedTerm: a TLA+ model of the terminal app

BedTerm is an iOS SSH client: a Swift package (`src/BedTermKit`, `src/BedTerm`)
for SSH, sessions and screens around a Rust core (`src/rust-core`) for terminal
emulation, command blocks, view models and UIKit views. This directory models
the parts of it whose correctness depends on order: which task, chunk, callback
or answer comes first. TLC checks the models on small instances; TLAPS proves
the main theorems for every value of the constants.

    tlc -workers 2 -config <cfg> <module>    # one line of "runs" in PROJECT.json
    tlapm ConnectFlowProofs.tla              # the proofs

## 1. Inventory

| component | state | operations | hard behaviour | what makes it correct |
|---|---|---|---|---|
| `HostsVM` (Rust, `hosts_vm.rs`) | in-flight id, current id, pending mismatch, swap and delete confirmations | request/confirm/cancel handlers, three completion handlers | tells completions apart by host id only; the same host can be dialled twice | one attempt at a time; the id in flight is cleared by its own attempt |
| `HostsViewModel` (Swift) | `inFlightTask`, `lastSession`, copies of the ids, entries | `startConnect`, `runConnect`, `endLiveSession`, `confirmDelete`, refresh | state read before an `await` and used after; cancellation is cooperative | a replaced attempt never comes back; the session held is the current one |
| `HostsConnectController` | pushed screens | observation callback, dialogs | any tracked change triggers it, one turn late; equal assignments may or may not notify | the screen on top shows the live session |
| `ConnectAttempt`, `TerminalSession`, `withTimeout` | session state, race of connect and sleep | `connect`, `disconnect`, pump | timeout against a late answer; a task group waits for its loser | a connection that lost is closed |
| `CitadelSSHClient` | client, writer, gates, session task | `connect`, `write`, `resize`, `disconnect`, TOFU, bootstrap | two tasks and a lock; disconnect during connect; gate set after ready | ready resumes once; the connection is closed once given up |
| `LocalNetworkPrewarmer` | permission flag | `requestPermission` | prompt answer races a 10 s timer | completes once; its timeout counts as an answer |
| hosts store, host key store (keychain) | blobs, order, pinned keys | save, load, delete, reorder, verify | delete-then-add; load errors read as empty | no host lost or duplicated by one failing call |
| DCS sniffer, `Terminal`, `BlockStore`, `BlockGrid` (Rust core) | parser state, global grid, blocks, per-block grid | `feed`, hook frames, seal, resize, scroll | frames split across chunks; programs that enter the alternate screen; commands that end without a hook | output goes to its own block; blocks are numbered and sealed in order |
| shell integration script | shell variables | preexec / precmd hooks | frames are separate writes | frames arrive in the order of the commands |
| connect form (Rust view model and controller, Swift key picker) | a singleton draft, a picked key | open, pick, cancel, save | the draft outlives its form; kept secrets | a save goes to the form's host with the secret its auth kind needs |
| onboarding (Rust coordinator) | pages, answers, completion callback | choices, Back, permission request | overlapping probes of one callback | pages follow the answers, the flow ends, and once |
| input mode and keyboard coordinator (Rust) | mode, first responder, two copies of the Ctrl latch, timers | chips, touches, mode flips | late timers; two owners of one latch | a timer ends its own latch; the mode's view has the keyboard |
| block list scrolling (Rust) | offset, anchor, momentum, display link | pan, frame, refresh, layout | content changes under a running flick | the anchor holds, momentum ends |
| sticky header, selection | ranges | pure functions of layout | | |
| views, renderer, design system, toaster, mock server, recorder | UIKit, GPU, timers, fixtures | drawing, I/O | | |

Interactions. A tap goes from the Rust list controller over the FFI bridge to
`HostsViewModel`, which calls `HostsVM` synchronously and acts on its answer by
creating a `Task`. The task loads the host, may ask for the local-network
permission, races `client.connect` against a sleep and reports back to both
view models. An observation of `HostsViewModel` pushes `TerminalScreenViewController`,
whose Rust coordinator feeds the session's output bytes into `Terminal`, which
splits them among the global grid, the current block and its grid. All of it
runs on the main actor; only the SSH client runs elsewhere.

`PROJECT.json` lists every component with its sources, and under `hazards`
every place where this code can go wrong in a way a test would hardly reach.

## 2. Plan

In this order, the behaviour that matters most first:

| step | modules | checked by | proved in |
|---|---|---|---|
| connections and sessions | `ConnectFlow`, abstract `LastAskWins` | `connect`, `connect_timeout` | `ConnectFlowProofs` |
| command blocks | `Blocks`, `BlockStore`, abstract `BlockLog` | `block_store`, `block_store_clock` | `BlockStoreProofs` |
| the byte stream over the blocks | `TerminalFeed` | `terminal`, `terminal_slice`, `terminal_leak` | `TerminalFeedProofs` |
| the SSH client's tasks | `SSHClient` | `ssh_client` | `SSHClientProofs` |
| saved hosts and the form over them | `HostsStore`, `ConnectForm` | `saved_hosts` | `ConnectFormProofs` |
| pinned host keys | `HostKeys` | `host_keys` | `HostKeysProofs` |
| keyboard, mode, Ctrl latch | `KeyboardInput` | `screens` | `ScreenProofs` |
| the scrolling block list | `BlockList` | `screens` | `ScreenProofs` |
| first run, permission probes | `Onboarding` | `screens`, `onboarding_twice` | `ScreenProofs` |

All of it is done. `TerminalFeed` uses `Blocks`, which `BlockStore` states the
properties of; `ConnectForm` extends `HostsStore`; `HostsStore` and `TerminalFeed` use
`SeqFolds`, a left fold
and a filter; the `MC` modules give the model values. `MCScreens` puts the keyboard, the
block list and onboarding side by side: they share no state, so a behaviour exercises
one of them, chosen by `Init`, and one run checks all three without multiplying their
states. Left to model: the locked device of `load`/`retryLoad`, `resize`, the
text-input protocol of the terminal view.

Five runs expect a violation and check one property each, a sentence of the
repository that the code does not keep: `connect_timeout` (section 3),
`block_store_clock` (4), `terminal_slice` and `terminal_leak` (5), `onboarding_twice`
(11). What the code does keep of these is a property of a passing run, where it could be stated.

Each type invariant that a proof establishes is not repeated in a run. Every
safety property that a passing run checks, invariant, action property or refinement,
is also the statement of a theorem, without the bounds of the run. Liveness under
fairness is only model-checked, since it is out of TLAPS's reach: `SpinnerAwaits`,
`TimedOutReleased`, `DisconnectCloses`, `RemoteEndSeen`, `LatchEnds`, `MomentumEnds`,
`AskEnds`.

What folds, filters and sums compute is proved by induction over data
(`SeqFoldsTheorems`). The induction theorems of the library take an operator as a
parameter, which the provers cannot instantiate, so the induction is over a *set*
`T`: if `0 \in T`, and `n + 1 \in T` whenever `n \in T`, every number is in `T`. It
rests on `LeastNat`, that a set of numbers that is not empty has a least one, which
follows from the well-foundedness of `<`. From it come that a recursive function of
the form of `Through` exists and satisfies its equations, and that `Keep`, the
filter, keeps the elements of the set, their order and how often each occurs. A
property of sequences of any kind is proved by applying the induction to the set of
lengths up to which it holds.

## 3. The connect flow: `ConnectFlow`, `LastAskWins`

### Correspondence

One action is one main-actor turn, from one suspension point to the next, or one
event of the network. `inFlight`, `current`, `mismatch`, `swap`, `del` are the
fields of `HostsVM`; `last` and `tries` are the tasks `HostsViewModel` has
created, in order, each a record with the stage of `runConnect`, `Task.isCancelled`,
the winner of `withTimeout`, the answer of `client.connect`, the SSH connection
under the client and `TerminalSession.state`; `lastSession` is the attempt whose
session is held; `dirty` says that the observation callback is queued; `screens`
is the navigation stack. `Sync` is `syncFromRust`, part of every handler that
calls it.

| code | action |
|---|---|
| `requestConnect`, `connect(id:)` after the form, Retry of a toast | `RequestConnect` |
| `confirmSwap`, `cancelSwap`, Trust and Reject on the mismatch sheet | `ConfirmSwap`, `CancelSwap`, `RetryAfterMismatch`, `ClearMismatch` |
| Back on a terminal | `EndLiveSession` |
| `requestDelete`, `confirmDelete`, `cancelDelete` | the actions of that name |
| swipe on a row (deletes in the store directly) | `SwipeDelete` |
| `runConnect` up to its first `await` | `Start` (`LoadFails` or `Loads`) |
| the prewarmer's answer | `PrewarmAllows`, `PrewarmDenies` |
| `client.connect` returning, the sleep ending | `ClientAnswers`, `SleepEnds` |
| the task group returning, and the rest of `runConnect` | `RaceDecided`, `TimedOut`, `TimeoutReported` with `Complete` |
| the SSH connection and the session's pump | `LinkCloses`, `RemoteEnds`, `PumpEnds` |
| `handleObservedChange`, `pushTerminal` | `Observe` |

### Assumptions, each read off the code or its platform

- The main queue runs the first steps of tasks in the order of their creation
  (they are all created on the main actor). Nothing is assumed about later turns.
- Whether assigning an equal value notifies an observer depends on the macro
  version of the build, so `Sync` leaves it open.
- `client.connect` does not react to cancellation: neither its body nor the
  library it calls checks for it. The sleep does.
- A keychain load fails only for a deleted host; the locked device is left out.
- Nothing calls `requestDelete` at this commit (the list deletes by swipe), but
  the dialog, its view model and tests exist. `dialog`, chosen once from `Dialogs`,
  says whether a behaviour is of the program with the dialog; a property that is false
  of it starts with `~dialog`.
- The form adds no hosts during a behaviour; saving an existing one and
  connecting is a `RequestConnect`.

### Properties and runs

| run | question | instance |
|---|---|---|
| `connect` | the session held came from a finished uncancelled attempt and is the current one; the top screen shows the current host; spinner and attempt agree; a running attempt is the one in flight; no connection is closed that was neither given up nor timed out; a row that spins for ever is one whose `client.connect` never returns; a connection that comes after its timeout is closed; `LastAskWins` is implemented | 2 hosts, one on the LAN, 2 screens; 2 attempts without the delete dialog, 1 with it |
| `connect_timeout` | violated: see below | as `connect`, without the dialog |

Bounds. Two hosts are enough for a switch, two attempts for one to be replaced by
the next. With the dialog one attempt is enough for a deletion to be confirmed before,
during and after the connect, which is what the dialog adds. More is out of a run's
reach: two attempts with the dialog, and the case A, B, A, in which two attempts of
one host are alive and their completions carry the same id. `AttemptIsShown`,
`ConnectFlowKeepsLastAsk` and the other theorems below cover them, since they hold for
every number of attempts; nothing but the theorems does. Two screens tell a first push
from a second one. A guard caps each bound; the behaviours cut off repeat the same
steps with larger numbers.

Fairness. `LocalFairness`: the main actor runs a task that can run, a timer
fires, a prompt answers or its 10 s timeout does, a close ends. The user and the remote
are never obliged to do anything, and `client.connect` need never return: how long
Citadel lets it hang is outside the repository. `SpinnerAwaits` is therefore claimed
with that one exception, named in the formula: a row spins for ever only if its attempt
is racing and its `client.connect` has not answered. No outcome is lost on the way
from there to the row.

### Finding

`connect_timeout`: the timeout does not end an attempt whose `client.connect` hangs.
`TerminalSession` says of its five seconds that past them the attempt is torn down "so
the UI can recover instead of spinning forever on an unreachable host", and the test
`hangingConnectTimesOutAndSurfacesClosedState` expects it, with a client whose connect
heeds cancellation. But `withTimeout` races the two children in a task group, which
returns only when both have ended: the sleep cancels the other child and waits for it.
`CitadelSSHClient.connect` awaits the library and then a continuation with no
cancellation handler, and the `disconnect` that could free it comes after the
group. In the trace the timeout has won, and the attempt stays as it is.

### Seen in traces

No line of the repository speaks of these, so they are recorded here and not as runs.

- A cancelled attempt whose connect still succeeds ends with its connection open;
  no path disconnects it (`runConnect` returns at its cancellation check, and the
  catch-all of `TerminalSession.connect` closes the session but not the client).
- When a host is swiped away during its attempt, the session becomes current but
  no screen is pushed (`pushTerminal` looks the host up in `entries`).
- `confirm_delete` trusts flags captured by `request_delete`, so a connect
  completing while the (so far unreachable) dialog is open leaves a deleted host
  current. `SessionMatchesCurrent` is therefore claimed without the dialog.

### Proofs (`ConnectFlowProofs`)

For any set of hosts and any bounds, from `ConnectAssumption` alone:

- `ConnectFlowTypes`: `Spec => []TypeOK`.
- `FlowInvariant`: `Spec => []FlowInv`, and from it `AttemptIsShown`. `FlowInv` is the inductive strengthening.
  `OneAttempt` (an uncancelled running attempt is the latest) is kept by the
  cancellation in `Dispatch`. `AttemptKnown` (the attempt's host is in flight)
  is the delicate part: an old attempt of the same host may clear the id by
  failing to load, before it looks at its cancellation. It is safe only because
  first steps run in order (`TasksInOrder`) and the store only shrinks, so the
  newer attempt, still queued, will fail to load as well and is the exception
  `AttemptKnown` makes.
- `ConnectFlowKeepsLastAsk`: `Spec => LastAskIsKept`, each action mapped to one of
  `Ask`, `Adopt`, `Forget` or a stutter, using `FlowInv` for the completion.
- `ViewsAgree`: without the delete dialog, the spinner is always backed by a
  running attempt (`SpinnersAreBacked`) and the session matches the current id; with
  the dialog, the second is false (see above).
- `SessionIsFinished`: the session held is of a finished, uncancelled, connected
  attempt, with or without the dialog: only a completion sets it, cancelling spares
  an attempt that is done, and every later step of a task is one of an attempt
  that is not.
- `ClosesAreAsked` and `BackEndsWhatIsShown`, without the dialog. The first uses
  `SessionFinished` for the session that is given up. The second is kept with the
  fact that a screen belongs to an attempt that exists (`ScreenInv`).

Only model-checked: the two liveness properties.

## 4. Command blocks: `Blocks`, `BlockStore`, `BlockLog`

`Blocks` holds `BlockStore::apply` and its helpers as functions from a store to a
store; both specifications below use it, so the store that is proved about is the
one that the byte stream drives. `BlockStore` sends it events in any order.
`BlockLog` is its promise to the host: a log of finished commands that only grows
and at most one that is not finished.

### Correspondence

| code | definition |
|---|---|
| `Precmd`, `Preexec`, `CommandFinished` in `apply` | `PromptShown`, `CommandStarts`, `CommandEnds` (operators `Precmd`, `Preexec`, `Finished`) |
| `open_new`, `seal_with`, `reset` | `OpenNew`, `SealWith`, `Reset` |
| output reaching the open block's grid | `OutputArrives` |
| `Terminal::reset_blocks` | `HostResets` |

A line and a grid are opaque values of the caller. An `Instant` is the id of the
block its `Preexec` went to, and a duration the `Instant` it is measured from: that
is all the properties ask of time. `end_line` is derived at the seal; directory,
branch and agent are data. Events come in any order because a nested or replaced
shell, an interrupted command and a partly installed script all skip some, cases
the comments of `apply` name.

### Run

`block_store`: 2 commands, 2 exit codes, 2 grids, 4 blocks. Four blocks let a
prompt, a command without a prompt, a reset and one more block follow each
other; a fifth repeats them. Lines are carried and never compared, so one is enough.

`DurationsOwn` says what a duration is measured from. A block whose command finished
(it has a command and an exit code) has the time since its own `Preexec`, whatever was
skipped or repeated before; a block that was cut off by the next prompt has none. What is left
is a block that ended without a command: it has no duration, or one measured from the
`Preexec` of a command that was cut off. No two blocks measure from the same one.

### Finding

`block_store_clock`: that last case happens. `seal_open` leaves `command_start` set, so
after `Precmd`, `Preexec`, `Precmd`, `CommandFinished` the second block, in which nothing
ran, gets the time since the first one's start. The doc of `duration_ms` promises `None`
without a matching `Preexec`, and a test says the same of a new store. It happens when a nested
shell with the script is left with Ctrl-D at its first prompt: the outer shell then
reports the end.

### Proofs (`BlockStoreProofs`)

From `BlockStoreAssumption` alone, for any commands, codes, lines, grids and any
`MaxId`:

- `BlockStoreTypes` and `BlockStoreInvariant`. `WellFormed` is `TypeOK` and `StoreInv`
  stated of any store, because a step composes changes: a prompt seals, then
  opens. `SealKeeps`, `OpenKeeps`, `FillKeeps`, `ClockStops`, `ResetKeeps` show
  that each change keeps it; each action is a composition of two at most.
  `OpenIsRunning` is not inductive alone: that the sealed block is the last one,
  and is running, is what makes `seal_with`'s early return unreachable.
- `BlockStoreIsLog`: the refinement of `BlockLog`. `SealLogs`, `OpenLogs`,
  `FillLogs` say what each change does to the log, `StepLogs` that every step
  begins, finishes or clears it or leaves it as it is.

- `SealedStaysSealed` and `DurationsAreOwn`. Every change spares all blocks but
  the open one (`Spares`), and a reset empties the store, which is all the first one
  needs. The second is not inductive. `ClockInv` adds that the clock and every
  duration are ids already given, a duration at most that of its own block, so that
  neither the id the clock starts with nor the next one can be a duration yet. `OwnInv`
  adds what the clock is between two events: the id of the open block, if that has a
  command, and otherwise none or the id of a command that was cut off, which stays cut off
  (`CutStays`).

## 5. The byte stream: `TerminalFeed`

`Terminal::feed` gets the bytes of the SSH channel in chunks cut anywhere. The
sniffer finds the script's DCS frames; the bytes between two events go to the
grid of the running block, to the global terminal, or to both while the command
is in the alternate screen; the block also keeps a raw capture.

### Correspondence

| code | definition |
|---|---|
| the script's `__bedterm_precmd`, `__bedterm_preexec`, a shell started anew | `PrecmdHook`, `PreexecHook`, `ShellReplaced` |
| a command's output, its alternate screen | `CommandPrints`, `CommandSwitchesScreen` |
| `feed_with_positions`, with `hook`/`unhook` | `Sniff`, `Hook`, `Unhook` |
| `dispatch_chunk`, `capture_output_bytes`, the loop of `feed` | `Dispatch`, `Capture`, `Turn` |
| `feed` | `Feed(n)`: one action for each length of a chunk |

A token stands for bytes between which a cut makes no difference: ESC, the rest of
a frame's head with its body, the rest of an alternate-screen escape, the
backslash or `0x9C` that ends a frame, a newline, other text. `NextParser` and
`Prints` are the library's VTE state machine restricted to these; the sniffer and
every terminal run one of their own. A terminal is its parser, its mode and what
it printed. `torn` (history) records each border that fell after an ESC or inside a frame
while a command ran, as the token the next chunk began with and the number of the
command; `panicked` that `feed` sliced out of range, after which nothing is claimed.

Left out: malformed and foreign frames, resize, scrolling, a nested shell
returning to its parent (the block store sees those orders of events).

### Runs

| run | question | instance |
|---|---|---|
| `terminal` | the blocks depend on the bytes and not on the cuts; a block shows what its own command printed, all of it and nothing else, but for one backslash in front (below); no prompt is lost, with one exception (below); the global terminal is not left in the alternate screen without cause; the capture of a command during which nothing was torn is exact | both terminators, 2 commands, 4 tokens of output, 17 tokens, a cap of 1 line: 192,293 states |
| `terminal_slice` | violated: see below | 7-bit terminator, 16 tokens |
| `terminal_leak` | violated: see below | 7-bit terminator, 12 tokens |

All try every way of cutting. The terminator is chosen once per behaviour, as
the script's is fixed. With the 8-bit one a prompt, a command, its output and its end
are 14 tokens and the output; with the script's 7-bit one 18: 17 tokens let a
block end in the alternate screen and a second command begin with the first, and
a command be cut by a new shell with the second. Four tokens of output enter and
leave the alternate screen or print across the cap. The stream is finite, so the
runs do not look for deadlock. There is no liveness here: `feed` is a function of
its input.

What is claimed of a stream that is cut inside frames and escape sequences, which
`term.rs` calls routine:

- `CutsIrrelevant` and `GlobalAltExplained` say the same as of an uncut one.
- `RoutedToOwnBlock` compares the whole text of a grid, token for token. Its one
  exception is `Leaks(c)`: the backslash, at the very start, if a chunk began with the
  backslash of the terminator that command `c` started at. It is the finding
  `terminal_leak`; a second one, one elsewhere, or one that no such cut explains
  breaks the property.
- `PromptsShown` allows prompts to be lost only after a command that a prompt
  cut short (`CutShort`: a block with a command that was sealed without a
  `CommandFinished`) and that was torn while it ran. There the ESC of the frame or escape
  sequence can reach the global terminal and its end only the block's grid; the parser
  of the global terminal is then inside a sequence, and swallows the first character of
  the prompt. After a command that did finish, the ESC of the next frame brings it back,
  so cuts do no harm there. No line of the repository speaks of this case.
- `CaptureExact` is claimed of each command during which nothing was torn (`Whole`),
  whatever was torn before it or after: bytes of a frame that is cut by a border are
  captured as output.

### Findings

`terminal_slice`: `frame_start_in_chunk` survives the call in which the head of a
frame was seen. The next call, which sees its end, is given an offset into
the former chunk: `feed` then slices a shorter chunk out of range, and the
build aborts on a panic.

`terminal_leak`: the sniffer looks from the ESC of the 7-bit terminator to the backslash
after it, so that the backslash is not left to the grid the event opens; its comment
says that this was seen in production. It can look only at the bytes of
the same call. When a chunk ends between the two, the event is applied at the ESC, and
the next call gives the backslash to the new grid, whose parser is fresh and prints it.

Also seen in traces, without a run of their own: a cut after the ESC of an
alternate-screen escape leaves the global terminal on the main screen while the command
is in the other one (`GlobalAltExplained` is about the other direction); and a prompt
over a running command stores a line of that command's private grid as the start of a
block that is drawn in the global frame.

### Proofs (`TerminalFeedProofs`)

From `FeedAssumption` alone, for any streams, chunks, caps and numbers of commands,
with either terminator or both: `InStepWithStream` (`Spec => []TerminalInv`, the
inductive invariant) and from it the five properties of the run: `CutsDoNotMatter`,
`BlocksShowTheirOwn`, `PromptsAreShown`, `AltIsExplained`, `CapturesAreExact`.

None of the five is inductive: none says where the parsers are, and each depends on
what has not been read yet. The invariant ties everything to the stream.

- `Says` reads the stream token by token and says, after each, where it is (outside,
  inside a frame, inside an escape sequence), which command runs, how many have been
  started, and which blocks there are when each frame is applied at its end. A
  stream in which no token is out of place is `Legal`. `ShellWell`: what the shell
  writes is legal, and at rest. `Sound`, by induction over the stream, is what a
  legal one has: its blocks have the shape the running command gives them (`Shape`)
  and are those of the uncut stream (`UncutOf`), and no token of a command precedes
  its start.
- `FeedWell`: after `read` tokens the sniffer's parser and frame head are the
  stream's, and the terminal is where the stream is (`Reached`): its blocks are the
  stream's but for what the grids hold (`Same`); the grids and the global terminal
  show what they should (`Faithful`, of which the four parts are the open grid's
  parser, the blocks' texts, the prompts and the alternate screen); the captures are
  those of the stream read so far (`CapturedTo`). `CutKnown` ties `torn` to the stream: if a
  command runs and the stream is inside a frame or an escape sequence, the cut at this
  place has been recorded for that command. While nothing is recorded for a command, then,
  calls end outside of both (`UnbrokenFree`), so that the exceptions of the
  properties are needed only where a cut explains them.
- One call of `feed` is the bulk of the proof. At each position of the chunk the
  sniffer is where the stream is, or one token ahead of it, because it looks from the
  ESC of a terminator to the backslash after it (`Followed`). A step of it skips,
  enters a frame, leaves one or does neither (`SniffSteps`). The code runs the
  sniffer to the end of the chunk and then loops over the events; a left fold over
  the events found so far can be advanced along with the sniffer, so one invariant
  speaks of both (`Looped`): the turn is where the stream was at its cursor, and
  since the cursor one command has been running (`Held`); if nothing has torn that
  command, the sniffer's marks bound what it wrote (`Marks`). `EventTurn` is the turn
  itself: the piece up to the frame's end goes to the terminals (`DispatchShows`), its
  part before the frame to the capture (`CaptureShows`), and the event to the store
  (`EventShows`).
- The three hard cases. A grid opened by a preexec whose terminator is cut after its
  ESC starts a parser at ground, and empty, while the stream is between ESC and
  backslash: `GridInStep` allows for it, and the next token of the stream is then the
  backslash, which `CutKnown` has recorded; so the text gains exactly what `Leaks`
  allows. The global terminal is fed a command's bytes only in pieces that begin or end
  in the alternate screen: `AltKnown` says, besides that it is there only along with the
  grid, that it has seen the ESC of an escape sequence that was cut whenever the grid is
  in the alternate screen, so that it leaves it when the grid does (`Follows`). And
  between the end of a command and the frame of the prompt the parser of the global
  terminal need not be where the stream is (`Loose`): the ESC of that frame brings it
  back from anywhere, and only a prompt that cuts a torn command short, whose frame has
  begun by then, comes too early for that. `Prompts` says so under `Unhurt`, the
  hypothesis of the property.

The invariant is not checked by a run: `Says` is a function on all sequences, which
TLC cannot evaluate. TLC checks the five properties.

## 6. The SSH client: `SSHClient`

### Correspondence

One `TerminalSession` over one `CitadelSSHClient`. Five activities run in
parallel: the main actor (`TerminalSession.connect`, its `pumpTask`, `disconnect`),
the session task inside `withPTY`, the pump that reads the channel, the task that
awaits the pump and releases the gate (`"releaser"`), and `disconnect()` of the
client. The last four run on the global executor and share the fields `client`,
`writer`, `disconnectGate` (`gate`) and `isDisconnected` without a lock, so each
access another task could come between is an action.

| code | action |
|---|---|
| `TerminalSession.connect` to its await; the group's sleep | `Connect`, `SleepEnds` |
| `CitadelClient.connect`; `self.client = citadel`, the task is created | `DialFails`, `DialSucceeds` |
| `withPTY` throws; its closure keeps the writer, resumes `ready` and starts the pump, sets the gate | `PtyRefused`, `PtyOpens`, `ReadyResumed`, `GateSet` |
| the branches after the group | `Opens`, `Fails`, `TimedOut` |
| the pump's loop and end; `pumpTask`'s loop and end | `PumpTakes`, `PumpEnds`, `ConsumerFeeds`, `ConsumerEnds` |
| `releaseDisconnectGate`: `if let`, then its body | `ReadGate`, `ResumeGate` |
| `disconnect` after the gate: `client.close()`, the fields | `CloseLink`, `ClearFields` |
| the closure after the gate; the end of the session task | `LeaveClosure`, `TaskEnds` |
| `send`, `write`; `pushBootstrap` | `Send`, `Write`, `BootstrapEnds` |

`connect` is what `client.connect` has come to, `winner` the first child of the
group. Chunks are counted: `sent` by the remote, `taken` and `yielded` by the pump,
`fed` to the terminal. `TimedOut` and `UserDisconnects` test and set
`isDisconnected` in their own step although `disconnect` does it a moment later:
a session makes one of these calls only. A trapped process (a checked
continuation resumed twice) takes no further step.

What the libraries do is assumed, not checked: `withPTY` runs its closure at most
once and closes the channel after it; a closed connection ends its channels; a
channel delivers what was buffered before it reports its end; a cancelled reader
gets no more (it may still hand on the chunk it has); `AsyncStream` is unbounded
and in order.

### Runs

| run | question | instance |
|---|---|---|
| `ssh_client` | `connect` resumed once; the waiting task will be released; no key lost before the channel ends; an ended session showed all its output; a disconnect closes the connection and ends the task; an open session notices the end of its channel | 2 chunks, 2 keys |

Bounds: two chunks are enough for one to be left in the channel and one in the
stream; two keys give two writes at once. Fairness: each of the five activities,
when it can run, does. Nothing is asked of the user, the remote or the host being
dialled, so `DisconnectCloses` and `RemoteEndSeen` say what the code does alone.
Both allow for a trap, which is possible (see below). Deadlock is not
checked: a session ends.

### Seen in traces

When the remote ends the channel as the user taps Back, the releaser and
`disconnect` can both find the gate set and both resume its continuation, which
traps. The other continuation of the class goes through a lock for this very reason.

A refused PTY leaves the SSH connection open,
since `TerminalSession` disconnects the client on a timeout only; the source line
of the bootstrap may follow keys, against the doc in `SSHClient.swift` (lines
29-33) but in line with the later comment in `CitadelSSHClient.swift`; two writes
may land in either order, each having a task of its own.

### Proofs (`SSHClientProofs`)

From `MaxSent` and `MaxTyped` being natural numbers, for any values of them:
`ClientInvariant` (`SSHInv`, the inductive invariant), and from it `ClientTypes`,
`ConnectReturnsOnce`, `NoLostRelease`, `NoKeyLost`, `OutputDrained`. None of the
last three is inductive. That no key is lost needs the chain from an open session
to the winner of the group, to the resumed `ready`, to the writer kept before it,
and that `disconnect` forgets the writer only after the channel is closed
(`ConnectInv`, `TaskInv`, `FieldsInv`). That output is drained needs that, unless
`disconnect` was called, the gate opens only for a pump that is done, so the pump
is never cancelled (`DrainInv`). One lemma keeps each part, with one step per
activity. The two liveness properties are model-checked only.

## 7. Saved hosts and the connect form: `HostsStore`, `ConnectForm`

### Correspondence

`blobs` are the keychain items, `order` the ids in the user defaults, `op` the call in
progress. All calls are made on the main thread, so they do not interleave; but a
keychain call may fail and the app may die between two writes, so each write is
an action. `vm` is the singleton `connect_form_vm::VM`, `form` the form on screen,
`picked` the Swift side's `pendingKeyBytes`.

| code | action |
|---|---|
| `save`: deletion, addition, order | `BeginSave`, `AddItem`, `IndexItem` |
| `delete`: item, order; the listing both callers make next | `BeginDelete`, `UnindexItem`, `List` |
| `list_snapshot_json` with `reconcile_order` | `List` (operator `Reconciled`) |
| the form for a new host, `reset_to_add` | `OpenAdd` |
| the form for a host, `apply_prefill`, `prefill_edit` | `OpenEdit` |
| document picker; Cancel | `PickKey`, `Cancel` |
| `try_save` of controller and view model, `validate`, `resolve_secrets` | `Save` (`Entered`, `HasSecret`, `Resolved`) |
| the process dies | `Quit` |

A keychain call that fails is a choice: a deletion leaves the item (its result is
ignored), an addition returns false, a query finds nothing, an item is skipped. Only
secrets are values; the other fields are acceptable or not (`fieldsOk`). At this
commit nothing opens the form with an id, although controller and view model
support it: `EditForm` switches that on, and the run does.

### Run

`saved_hosts`: 2 hosts, 2 passwords or keys, 1 passphrase, symmetric in the secrets.
Two hosts have an order to lose; two secrets tell an old one from a new one.

`ListingExact` is about a listing that read everything: an item whose save was cut
short before the order was written comes back, one whose deletion was cut short goes.
`HostsKeepPlace` is claimed until a keychain call fails, for then it is false: one
failed query makes `reconcile_order` write an empty order, and the hosts come back
sorted by id. `SavesOwnHost` excepts a form that could not read its host, and
`UntouchedKeyKept` compares the key and nothing beside it; see below.

### Seen in traces

- `save` whose addition fails after its deletion succeeded has lost the host.
  `btSwiftHostsStoreSaveJson` does not look at the answer, and the form closes.
- `apply_prefill` expects `"password"` to be a string and `"passphrase"` to be beside
  the key, where Swift's encoder nests both: editing a password host is refused
  until the password is typed again, editing a key host drops its passphrase.
- A form whose host cannot be read leaves the view model as the form before left it,
  mode and id included; saving then overwrites that other host.
- A key picked in a form that is cancelled is used by the next form that saves.

### Proofs (`ConnectFormProofs`)

From `FormAssumption` (ids differ from the marks `"new"`, `"closed"` and `None`) and
`StoreAssumption`, for any hosts and secrets, with or without
`EditForm`: `FormInvariant` and from it `HostsHaveSecrets`, `SaveGoesHome`,
`KeyIsCarriedOver`. `FormInv` says that no call of the store runs under an open form,
that a form for a new host has no id in the view model, and that a form which
could read its host has that id, the way to authenticate and the key of the item on
disk. `SaveCases` says what `Save` may do; every other step keeps the store or
changes it under a closed form.

`ListingIsExact` and `PlacesKept` are about `Reconciled`, which filters the stored order
by the ids that were read and appends the ones it lacked. That a filter keeps the
elements of the set it filters by, each as often as before, gives the first; that it
keeps their order gives the second.

## 8. Pinned host keys: `HostKeys`

One address; addresses share no state. `Validate` is `validateHostKey` with
`verify`, run on the event loop of each handshake; `Trust` is the sheet's button;
`DeletePrior` and `AddItem` are the two keychain calls of `save`. There is no lock,
so the savers (handshakes and sheet) interleave between them. Handshakes for one
address overlap because a replaced attempt goes on connecting (section 3), and when
two saved hosts share an address.

`host_keys`: 3 handshakes, the sheet, 2 keys, so that two handshakes save while a
third checks. `PinNotForgotten` says that a pin is missing only while a save is
about to write it, unless the keychain failed or the app died in between;
`TrustedOnce` that a second key is trusted only after the user's approval or two
verdicts Unknown.

What the hypotheses of `TrustedOnce` exclude was seen in traces: of two first
handshakes the second to save is refused by the keychain and reports a mismatch
although its key was the same; a handshake that checks while the sheet has
deleted and not yet added finds the host unknown; a failing read counts as unknown
as well (`load` returns `None` for any error).

Proved (`HostKeysProofs`), for any handshakes and keys: `HostKeysTypes`,
`AddressRemembered`, `OneKeyTrusted`. `TrustedOnce` is strengthened by `FirstUse`:
while at most one handshake found the address unknown, that one alone saves, the pin
is its key, and nothing else was trusted.

## 9. Keyboard, mode and Ctrl latch: `KeyboardInput`

| code | action |
|---|---|
| `keybarCtrl` and `schedule_ctrl_unlatch`; the block it queues | `KeybarCtrl`; `Fire` |
| Tab, Esc, arrows, Newline with `clear_ctrl_latch`; a letter typed | `KeybarKey`; `InsertText` |
| `focusView1`, `focusView2` and the touches that call them | `TapView1`, `TapView2` |
| `openComposer`, `closeComposer`, the debug display, with `modeStateDidChange` | `OpenComposer`, `CloseComposer`, `SelectInput` |
| Send, typing in the composer, the system's dismiss key | `KeybarSend`, `TypeInComposer`, `Dismiss` |

`gen` is `ctrl_gen`, `timers` the blocks on the main queue, each with the generation
and (as history) the tap it belongs to. Run `screens`: 5 taps, enough for two latches to be
armed while older timers are on their way, one of them after a latch was used.
Fairness: the main queue runs each block that was scheduled. The wrap-around of
the 64-bit generation is not modelled.

Proved (`ScreenProofs`), for any number of taps: `LatchesAgree`,
`KeyboardFollowsMode`, `TimersEndTheirOwn`. The last needs `LatchTimed`: no timer
has a generation above the present one, and one that has the present generation
belongs to the tap that armed the latch. `LatchEnds` is model-checked.

Seen while modelling: `keybarSend` leaves the latch armed, alone among the chips that
send; `closeComposer` clears `focused` last, after giving view1 the keyboard;
`set_sw_kbd_visible` and `set_hw_kbd_attached` have no caller.

## 10. The block list: `BlockList`

`Tops`, `MaxOffset`, `Clamp`, `AtBottomEdge`, `Applied` are the functions of `layout.rs`
and `scroll.rs`; `PanBegins`, `PanMoves`, `PanEnds` are `handlePan`, `Tick` is
`displayTick` with `advance_momentum`, `Layout` and `SourceChanges` end in
`refresh_inner`, `Teardown` is `teardown`. Lengths are integers and the physics is
what the rest depends on: momentum has a direction, and each frame moves by any
distance and takes off some of the velocity. That a real velocity falls below its
threshold after finitely many frames is a property of the friction formula in
`scroll_physics.rs`, assumed here.

Run `screens`: 2 blocks of up to 2 rows under a header of 1 with a gap of 1, views of 3
and 6, a tolerance of 1, flicks of up to 2 frames: contents shorter than, as long as and
longer than the view. Fairness: a link that is installed is called. Rubber-banding past
the edge does not occur: `clamp_offset` is applied to every move.

`NearBottom` says nothing while a pan or momentum is in progress. The comment of
`apply_scroll_position` says it is "Skipped during an active pan / momentum so the
gesture owns the offset" (`block_list/scroll.rs:74-75`), but both callers pass
`pan_active` as false (`block_list/vc.rs:234` and `341`): a refresh or a frame of the link
moves the offset under the finger, to the bottom or to the pan's anchor. The model does
as the callers do (`Applied`), and no property asks for either behaviour during a pan.
That a pan which ends leaves a following list at its bottom is true because the offset was
moved under it all along; this is `StaysLow` of the proof, an invariant of this code and not
a promise of it. `AnchorKept` does not speak of momentum in flight either.

Also seen: a block that is added during momentum is not followed unless the momentum ends at
the bottom; content that shrinks during momentum leaves the offset out of range until the
next frame; a refresh after `teardown` installs the link again; the controller has no
caller outside its constructor at this commit.

Proved (`ScreenProofs`), for any heights: `ReaderKeepsPlace` and `StaysNearBottom`.
`AnchorInv` adds that a finger on the list means no momentum, so only one of the two
moves the offset. The second is strengthened to `StaysLow`, which holds during a pan
too, and needs that `MaxOffset` is a number, by induction over the recursive sum `Tops`.

## 11. Onboarding: `Onboarding`

`pages` is the navigation stack, `kind` and `location` the coordinator's answers,
`probes` the calls of `requestPermission`, each with its timer and how often its
continuation was resumed. `Finish` is `finish` with the app's handler. Everything runs
on the main actor; one action is one callback.

| code | action |
|---|---|
| `host_kind_choice_cb`, `location_choice_cb`, `mac_tutorial_continue_cb` | `ChooseKind`, `ChooseLocation`, `TutorialContinue` |
| `local_permission_continue_cb` | `AllSetContinue`, `RequestPermission` |
| the browser's state handler, the 10 s timeout, the continuation returning | `BrowserSettles`, `TimerFires`, `ProbeReturns` |
| navigation bar; process death and relaunch | `Back`, `Relaunch` |

Run `screens`: 2 probes, so that one overlaps another. Fairness: the sleep ends and the
main actor runs a task that was resumed; the browser may never answer. `AskEnds` then
rests on the timeout alone.

Finding. `onboarding_twice`: nothing keeps the permission button from being tapped again, or
the user from going Back and finishing another way, while a probe is under way;
each probe that returns completes the flow. The second completion uses a handler the
first one released and a pointer to a flow that may be gone. The model therefore lets a
second `Finish` crash the app or build the hosts list again.

Proved (`ScreenProofs`), for any number of probes: `ContinuationsResumeOnce` (the
`ResolvedFlag` does its work) and `PagesMatch` (the stack is a prefix of the path of
the answers kept; the invariant lists the possible stacks).

## 12. Not modelled

- SSH bridge to Rust: scaffolding without a caller.
- Renderer, views, overlays, design system, localisation: they draw. Snapshots and
  agent detection are functions of the terminal's contents without state.
- Sticky header and selection: functions of offset and text for drawing and copying.
- The text-input protocol of the terminal view (`text_input.rs`): marked text is kept by
  byte offsets where UIKit counts UTF-16 units, which its comment says; what UIKit
  asks in which order is not in the repository.
- Toaster: timer and user dismiss by a unique id, so their order cannot matter.
- Settings: single stored values. Mock server and recorder: test tools.
- The swap alert's text, which a second request may leave stale: wording is left
  out of `ConnectFlow`.
- A second tap on Save before the form is popped: whether UIKit delivers a touch
  during the pop is not decided by the code.
