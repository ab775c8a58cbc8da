---------------------------- MODULE TerminalFeed ----------------------------
(***************************************************************************)
(* Terminal::feed: the byte stream of a shell with the integration script, *)
(* cut into chunks anywhere, split among the global terminal, the blocks'  *)
(* private grids and the blocks' capture buffers.                          *)
(*                                                                         *)
(* A token stands for the bytes no chunk border inside which matters: ESC, *)
(* the rest of a frame's head with its body, the rest of an alternate      *)
(* screen escape, a printed character.  Each token names the command that  *)
(* wrote it, 0 for the shell.   Each of the two VTE parsers involved (the  *)
(* sniffer's and a terminal's) is the library's state machine, of which    *)
(* three states matter: ground, after ESC, inside a `$d` DCS.              *)
(***************************************************************************)
EXTENDS Naturals, Sequences, SeqFolds

CONSTANTS
    None,         \* Option::None
    Terminators,  \* string terminators in use: "seven" bit, "eight" bit
    MaxLines,     \* MAX_BLOCK_OUTPUT_LINES
    MaxSent,      \* bound: tokens the shell writes
    MaxOutput,    \* bound: tokens its commands write
    MaxCommands   \* bound: commands the shell runs

Hooks   == {"precmd", "preexec", "finished"}
Visible == {"text", "newline"}
Tokens  == [kind : Hooks \cup Visible \cup {"esc", "backslash", "st", "on", "off"},
            of : Nat]
Screens == [parser : {"ground", "esc", "dcs"}, alt : BOOLEAN,
            text : Seq(Tokens), output : Seq(Tokens)]

ASSUME FeedAssumption ==
    /\ None \notin Nat \cup Tokens \cup Screens
    /\ Terminators \subseteq {"seven", "eight"}
    /\ {MaxLines, MaxSent, MaxOutput, MaxCommands} \subseteq Nat

VARIABLES
    ends,      \* the string terminator of the script's frames
    sent,      \* tokens the shell has written
    ran,       \* __BEDTERM_RAN: a Preexec was sent with no CommandFinished
    commands,  \* commands the shell has started
    alt,       \* the running command has entered the alternate screen
    read,      \* how many tokens were fed
    sniffer,   \* DcsSniffer: parser, hook collected, frame_start_in_chunk
    global,    \* the global Term
    store,     \* BlockStore
    torn,      \* chunk ends inside an escape sequence or a frame, by command
    panicked   \* feed sliced its input out of range

shell    == <<ends, sent, ran, commands, alt>>
terminal == <<read, sniffer, global, store, torn, panicked>>
vars     == <<shell, terminal>>

(* A terminal: its parser, its mode, what it printed (on either screen),   *)
(* and for a block's grid stylized_output, which grows along with it.      *)
NewTerm == [parser |-> "ground", alt |-> FALSE, text |-> << >>, output |-> << >>]

INSTANCE Blocks WITH FreshGrid <- NewTerm

Init ==
    /\ ends \in Terminators
    /\ sent = << >> /\ ran = FALSE /\ commands = 0 /\ alt = FALSE
    /\ read = 0
    /\ sniffer = [parser |-> "ground", hook |-> None, start |-> 0]
    /\ global = NewTerm
    /\ store = EmptyStore
    /\ torn = {} /\ panicked = FALSE

-----------------------------------------------------------------------------
(* The shell and its integration script.                                   *)

Token(kind, command) == [kind |-> kind, of |-> command]

Write(tokens) ==
    /\ Len(sent) + Len(tokens) <= MaxSent
    /\ sent' = sent \o tokens
    /\ UNCHANGED <<ends, terminal>>

Frame(hook, command) ==
    <<Token("esc", 0), Token(hook, command)>> \o
    IF ends = "seven" THEN <<Token("esc", 0), Token("backslash", 0)>>
                      ELSE <<Token("st", 0)>>

(* __bedterm_precmd: the end of the command if one ran, then the prompt.   *)
(* The command may have ended inside the alternate screen.                 *)
PrecmdHook ==
    /\ Write((IF ran THEN Frame("finished", commands) ELSE << >>)
             \o Frame("precmd", 0) \o <<Token("text", 0)>>)
    /\ ran' = FALSE
    /\ alt' = FALSE
    /\ UNCHANGED commands

(* __bedterm_preexec.                                                      *)
PreexecHook ==
    /\ ~ran
    /\ commands < MaxCommands
    /\ Write(Frame("preexec", commands + 1))
    /\ ran' = TRUE
    /\ commands' = commands + 1
    /\ UNCHANGED alt

(* The command is, or became, another shell with the script: that shell    *)
(* has not seen the command start.                                         *)
ShellReplaced ==
    /\ ran /\ ~alt
    /\ Write(Frame("precmd", 0) \o <<Token("text", 0)>>)
    /\ ran' = FALSE
    /\ UNCHANGED <<commands, alt>>

(* Anything but the heads of frames.                                       *)
Output(commandsOf) == {token \in Tokens : token.of \in commandsOf /\ token.kind \notin Hooks}

CommandWrites(tokens) ==
    /\ ran
    /\ Len(Keep(sent \o tokens, Output(Nat \ {0}))) <= MaxOutput
    /\ Write(tokens)

CommandPrints ==
    /\ \E kind \in Visible : CommandWrites(<<Token(kind, commands)>>)
    /\ UNCHANGED <<ran, commands, alt>>

CommandSwitchesScreen ==
    /\ CommandWrites(<<Token("esc", commands),
                       Token(IF alt THEN "off" ELSE "on", commands)>>)
    /\ alt' = ~alt
    /\ UNCHANGED <<ran, commands>>

-----------------------------------------------------------------------------
(* The parser, and a terminal driven by it.                                *)

NextParser(parser, kind) ==
    CASE kind = "esc"                           -> "esc"
      [] kind # "esc" /\ parser = "ground"      -> "ground"
      [] kind # "esc" /\ parser = "esc"         ->
            IF kind \in Hooks THEN "dcs"
            ELSE IF kind \in {"newline", "st"} THEN "esc" ELSE "ground"
      [] kind # "esc" /\ parser = "dcs"         ->
            IF kind = "st" THEN "ground" ELSE "dcs"

(* A sequence cut off by the start of another parser prints as text.       *)
Prints(parser, kind) ==
    \/ parser = "ground" /\ kind \notin {"esc", "st"}
    \/ parser = "esc" /\ kind = "newline"

Advance(term, token) ==
    [term EXCEPT
        !.parser = NextParser(@, token.kind),
        !.alt  = IF term.parser = "esc" /\ token.kind \in {"on", "off"}
                 THEN token.kind = "on" ELSE @,
        !.text = IF Prints(term.parser, token.kind) THEN Append(@, token) ELSE @]

FeedTerm(term, bytes) == Through(Advance, term, bytes)

(* DcsSniffer::feed_with_positions, as a fold over the positions of the    *)
(* chunk.  start is frame_start_in_chunk, 0 for None: a position in the    *)
(* chunk of the hook, kept until the event, which may come in a later one. *)
(* esc is last_esc, skip the position of a backslash already consumed.     *)

(* Mutant: the parser's state is not kept between calls.                   *)
SniffAfresh ==
    [parser |-> "ground", hook |-> None, start |-> 0,
     esc |-> 0, skip |-> 0, found |-> << >>]

SniffFrom ==
    [parser |-> sniffer.parser, hook |-> sniffer.hook, start |-> sniffer.start,
     esc |-> 0, skip |-> 0, found |-> << >>]

Hook(a, token) ==
    [a EXCEPT !.parser = "dcs", !.hook = token, !.start = a.esc, !.esc = 0]

Unhook(a, next, esc, end) ==
    [a EXCEPT !.parser = next, !.hook = None, !.start = 0, !.esc = esc, !.skip = end,
              !.found = Append(@, [start |-> a.start, end |-> end, event |-> a.hook])]

SniffStep(chunk, a, i) ==
    LET token == chunk[i]
        next  == NextParser(a.parser, token.kind)
        esc   == IF token.kind = "esc" THEN i ELSE a.esc
        whole == token.kind = "esc" /\ i < Len(chunk)
                     /\ chunk[i + 1].kind = "backslash"
    IN  IF i = a.skip THEN a
        ELSE IF a.parser # "dcs" /\ next = "dcs" THEN Hook(a, token)
        ELSE IF a.parser = "dcs" /\ next # "dcs"
        THEN IF whole THEN Unhook(a, "ground", esc, i + 1)
             ELSE Unhook(a, next, esc, i)
        ELSE [a EXCEPT !.parser = next, !.esc = esc]

Sniff(chunk) ==
    Through(LAMBDA a, i : SniffStep(chunk, a, i), SniffFrom, [i \in DOMAIN chunk |-> i])

-----------------------------------------------------------------------------
(* One call of feed.                                                       *)

(* Mutant: the mode is sampled only after the bytes.                       *)
DispatchSampledAfter(t, bytes) ==
    LET grid == OpenGrid(t.store)
        fed  == FeedTerm(grid, bytes)
    IN  IF bytes = << >> THEN t
        ELSE IF grid = None THEN [t EXCEPT !.global = FeedTerm(@, bytes)]
        ELSE [t EXCEPT !.store = FeedOpen(@, fed),
                       !.global = IF fed.alt THEN FeedTerm(@, bytes) ELSE @]

(* Mutant: a block that is open but runs nothing hides the prompt.         *)
DispatchToOpen(t, bytes) ==
    LET grid == OpenGrid(t.store)
        fed  == FeedTerm(grid, bytes)
    IN  IF bytes = << >> THEN t
        ELSE IF t.store.open = 0 THEN [t EXCEPT !.global = FeedTerm(@, bytes)]
        ELSE IF grid = None THEN t
        ELSE [t EXCEPT !.store = FeedOpen(@, fed),
                       !.global = IF grid.alt \/ fed.alt THEN FeedTerm(@, bytes) ELSE @]

(* dispatch_chunk: the grid of the open block, and the global terminal if  *)
(* there is no grid or it is in the alternate screen before or after.      *)
Dispatch(t, bytes) ==
    LET grid == OpenGrid(t.store)
        fed  == FeedTerm(grid, bytes)
    IN  IF bytes = << >> THEN t
        ELSE IF grid = None THEN [t EXCEPT !.global = FeedTerm(@, bytes)]
        ELSE [t EXCEPT !.store = FeedOpen(@, fed),
                       !.global = IF grid.alt \/ fed.alt THEN FeedTerm(@, bytes) ELSE @]

Newlines(bytes) == Len(Keep(bytes, [kind : {"newline"}, of : Nat]))

AppendOne(out, token) == IF Newlines(out) >= MaxLines THEN out ELSE Append(out, token)

AppendCapped(output, bytes) == Through(AppendOne, output, bytes)

(* capture_output_bytes.                                                   *)
Capture(t, bytes) ==
    LET grid == OpenGrid(t.store)
    IN  IF grid = None THEN t
        ELSE [t EXCEPT !.store =
                FeedOpen(@, [grid EXCEPT !.output = AppendCapped(@, bytes)])]

(* current_grid_absolute_line: which frame of reference the line is in.    *)
SampledLine(s) ==
    IF \E i \in DOMAIN s.blocks : s.blocks[i].running /\ s.blocks[i].grid # None
    THEN "block" ELSE "global"

Apply(s, event) ==
    CASE event.kind = "precmd"   -> Precmd(s, SampledLine(s))
      [] event.kind = "preexec"  -> Preexec(s, SampledLine(s), event.of)
      [] event.kind = "finished" -> Finished(s, event.of)

(* The loop of feed over the located events, and what follows the last.    *)
Begun == [global |-> global, store |-> store, cursor |-> 0, panicked |-> FALSE]

(* Mutant: the event switches the target before its bytes are dispatched.  *)
TurnEventFirst(chunk, t, found) ==
    LET upTo == IF found.start = 0 THEN found.end ELSE found.start - 1
        told == [t EXCEPT !.store = Apply(@, found.event)]
        fed  == Dispatch(told, SubSeq(chunk, t.cursor + 1, found.end))
        kept == IF upTo > t.cursor /\ upTo <= Len(chunk)
                THEN Capture(fed, SubSeq(chunk, t.cursor + 1, upTo)) ELSE fed
    IN  [kept EXCEPT !.cursor = found.end]

(* Mutant: the frame is captured along with the bytes before it.           *)
TurnFrameKept(chunk, t, found) ==
    LET fed  == Dispatch(t, SubSeq(chunk, t.cursor + 1, found.end))
        kept == Capture(fed, SubSeq(chunk, t.cursor + 1, found.end))
    IN  [kept EXCEPT !.store = Apply(@, found.event), !.cursor = found.end]

Turn(chunk, t, found) ==
    LET upTo == IF found.start = 0 THEN found.end ELSE found.start - 1
        fed  == Dispatch(t, SubSeq(chunk, t.cursor + 1, found.end))
        kept == IF upTo > t.cursor
                THEN Capture(fed, SubSeq(chunk, t.cursor + 1, upTo)) ELSE fed
    IN  IF t.panicked \/ upTo > Len(chunk)
        THEN [t EXCEPT !.panicked = TRUE]
        ELSE [kept EXCEPT !.store = Apply(@, found.event), !.cursor = found.end]

TurnsOf(chunk, begun, founds) ==
    Through(LAMBDA t, found : Turn(chunk, t, found), begun, founds)

(* A border after an ESC, or between the head of a frame and its end.      *)
Tears(n) ==
    /\ n > 0
    /\ sent[n].kind \in Hooks \cup {"esc"}

(* Such a border while a command runs: what the next chunk starts with, of *)
(* the command.                                                            *)
Cuts(n, s) ==
    IF Tears(n) /\ OpenGrid(s) # None
    THEN {Token(sent[n + 1].kind, s.blocks[s.open].command)} ELSE {}

Feed(n) ==
    LET chunk == SubSeq(sent, read + 1, read + n)
        sniff == Sniff(chunk)
        turns == TurnsOf(chunk, Begun, sniff.found)
        rest  == SubSeq(chunk, turns.cursor + 1, n)
        after == Capture(Dispatch(turns, rest), rest)
    IN  /\ ~panicked
        /\ n \in 1 .. Len(sent) - read
        /\ panicked' = turns.panicked
        /\ IF turns.panicked THEN UNCHANGED <<read, sniffer, global, store, torn>>
           ELSE /\ read' = read + n
                /\ sniffer' = [parser |-> sniff.parser, hook |-> sniff.hook,
                               start |-> sniff.start]
                /\ global' = after.global
                /\ store' = after.store
                /\ torn' = torn \cup Cuts(read', store')
        /\ UNCHANGED shell

Next ==
    \/ PrecmdHook \/ PreexecHook \/ ShellReplaced
    \/ CommandPrints \/ CommandSwitchesScreen
    \/ \E n \in 1 .. MaxSent : Feed(n)

Spec == Init /\ [][Next]_vars

-----------------------------------------------------------------------------
(* Properties.  A panic ends the process: nothing is claimed after it.     *)

Delivered == SubSeq(sent, 1, read)

(* The blocks, up to the contents of their grids, depend on the bytes only *)
(* and not on how they were cut: each frame whose terminator was reached   *)
(* has been applied, once and in order.                                    *)
Outline(s) ==
    [i \in DOMAIN s.blocks |->
        [s.blocks[i] EXCEPT !.grid = @ # None, !.frozen = @ # None]]

UncutStep(a, token) ==
    IF a.head # None THEN [store |-> Apply(a.store, a.head), head |-> None]
    ELSE IF token.kind \in Hooks THEN [a EXCEPT !.head = token]
    ELSE a

Uncut == Through(UncutStep, [store |-> EmptyStore, head |-> None], Delivered).store

CutsIrrelevant ==
    LET uncut == Uncut
    IN  /\ Outline(store) = Outline(uncut)
        /\ store.next_id = uncut.next_id /\ store.open = uncut.open
        /\ store.command_start = uncut.command_start

Contents(b) == IF b.grid # None THEN b.grid ELSE b.frozen

(* What the user saw of command c.                                         *)
Seen(tokens, c) == Keep(tokens, [kind : Visible, of : {c}])

(* No chunk ended inside an escape sequence or a frame while c was running.*)
Whole(c) == \A cut \in torn : cut.of # c

(* The backslash of the terminator that c started at, in a chunk of its    *)
(* own: the grid never saw the ESC, and prints it.                         *)
Leaks(c) ==
    {<< >>} \cup IF Token("backslash", c) \in torn THEN {<<Token("backslash", 0)>>} ELSE {}

(* The grid of a block shows what its command printed, all of it, in order *)
(* and nothing else, however the stream was cut, but for that backslash.   *)
RoutedToOwnBlock ==
    \A i \in DOMAIN store.blocks :
        LET b == store.blocks[i]
        IN  b.command # None =>
                \E leak \in Leaks(b.command) :
                    Contents(b).text = leak \o Seen(Delivered, b.command)

(* The comment at the end of feed_with_positions: the backslash is never   *)
(* left to the grid of a block.                                            *)
NoLeak ==
    \A i \in DOMAIN store.blocks :
        LET b == store.blocks[i]
        IN  b.command # None =>
                \A j \in DOMAIN Contents(b).text : Contents(b).text[j].kind # "backslash"

(* Sealed by a prompt, without a CommandFinished.                          *)
CutShort(b) == b.command # None /\ ~b.running /\ b.exit_code = None

(* No prompt is lost, however the stream was cut: the global terminal      *)
(* shows all of them, unless a command that got no CommandFinished was     *)
(* torn, which can leave that terminal's parser inside a sequence whose    *)
(* end only the block's grid was fed.                                      *)
PromptsShown ==
    (\A i \in DOMAIN store.blocks :
        LET b == store.blocks[i] IN CutShort(b) => Whole(b.command))
    => Seen(global.text, 0) = Seen(Delivered, 0)

(* The global terminal is in the alternate screen only along with the      *)
(* running command, or after a command that ended without leaving it.      *)
GlobalAltExplained ==
    global.alt =>
        \/ OpenGrid(store) # None /\ OpenGrid(store).alt
        \/ \E i \in DOMAIN store.blocks :
              store.blocks[i].frozen # None /\ store.blocks[i].frozen.alt

(* The capture of a block is what its command wrote, escapes included and  *)
(* up to the line that reaches the cap, as long as nothing was torn while  *)
(* it ran, whatever was before it or after.                                *)
CaptureExact ==
    \A i \in DOMAIN store.blocks :
        LET b == store.blocks[i]
        IN  b.command # None /\ Whole(b.command) =>
                Contents(b).output =
                    AppendCapped(<< >>, Keep(Delivered, Output({b.command})))

(* The doc of feed_with_positions: frame_start is a position in this call, *)
(* None for a frame of an earlier call; feed can slice with it.            *)
StartIsInChunk == ~panicked

=============================================================================
