------------------------------- MODULE Blocks -------------------------------
(***************************************************************************)
(* The command blocks of a terminal: BlockStore::apply and its helpers, as *)
(* functions from a store to a store, used by BlockStore (the store alone) *)
(* and TerminalFeed (the store under a byte stream).                       *)
(*                                                                         *)
(* A line is whatever the caller sampled and a grid whatever it feeds;     *)
(* both are opaque here.  The Instant of a Preexec is represented by the   *)
(* id of the block it belongs to, and a duration by the Instant it is      *)
(* measured from.                                                          *)
(***************************************************************************)
EXTENDS Naturals, Sequences

CONSTANTS
    None,       \* Option::None
    FreshGrid   \* BlockGrid::new

(* end_line is the running sentinel exactly while `running` holds, and is  *)
(* derived from the other fields at the seal.                              *)
NewBlock(id, line) ==
    [id |-> id, command |-> None, start_line |-> line, running |-> TRUE,
     grid |-> None, frozen |-> None, exit_code |-> None, duration |-> None]

(* open is open_index counted from one, 0 for none.                        *)
Store(blocks, next_id, open, command_start) ==
    [blocks |-> blocks, next_id |-> next_id, open |-> open,
     command_start |-> command_start]

EmptyStore == Store(<< >>, 1, 0, None)

OpenNew(s, line) ==
    Store(Append(s.blocks, NewBlock(s.next_id, line)),
          s.next_id + 1, Len(s.blocks) + 1, s.command_start)

Sealed(b, code, duration) ==
    [id |-> b.id, command |-> b.command, start_line |-> b.start_line,
     running |-> FALSE, grid |-> None, frozen |-> b.grid,
     exit_code |-> code, duration |-> duration]

(* Mutant: open_index is left pointing at the sealed block.                *)
SealHolding(s, code, duration) ==
    IF s.open = 0 \/ ~s.blocks[s.open].running THEN s
    ELSE Store([s.blocks EXCEPT ![s.open] = Sealed(@, code, duration)],
               s.next_id, s.open, s.command_start)

SealWith(s, code, duration) ==
    IF s.open = 0 \/ ~s.blocks[s.open].running THEN s
    ELSE Store([s.blocks EXCEPT ![s.open] = Sealed(@, code, duration)],
               s.next_id, 0, s.command_start)

(* Mutant: the block still open is left running.                           *)
PrecmdUnsealed(s, line) == OpenNew(s, line)

(* A prompt: the block still open never got its CommandFinished.           *)
Precmd(s, line) == OpenNew(SealWith(s, None, None), line)

(* The grid is attached once.                                              *)
Started(b, line, command) ==
    [id |-> b.id, command |-> command, start_line |-> line,
     running |-> b.running, grid |-> IF b.grid = None THEN FreshGrid ELSE b.grid,
     frozen |-> b.frozen, exit_code |-> b.exit_code, duration |-> b.duration]

(* Mutant: a clock that is running goes on running for the next command.   *)
StartKeeping(s, line, command) ==
    Store([s.blocks EXCEPT ![s.open] = Started(@, line, command)],
          s.next_id, s.open,
          IF s.command_start = None THEN s.blocks[s.open].id ELSE s.command_start)

Start(s, line, command) ==
    Store([s.blocks EXCEPT ![s.open] = Started(@, line, command)],
          s.next_id, s.open, s.blocks[s.open].id)

(* Mutant: a command with no prompt before it joins the last block.        *)
PreexecRejoining(s, line, command) ==
    Start(IF s.blocks = << >> THEN OpenNew(s, line)
          ELSE Store(s.blocks, s.next_id, Len(s.blocks), s.command_start),
          line, command)

Preexec(s, line, command) ==
    Start(IF s.open = 0 THEN OpenNew(s, line) ELSE s, line, command)

Finished(s, code) ==
    SealWith(Store(s.blocks, s.next_id, s.open, None), code, s.command_start)

Reset(s) == Store(<< >>, s.next_id, 0, None)

(* open_block_mut and the grid attached to it.                             *)
OpenGrid(s) == IF s.open = 0 THEN None ELSE s.blocks[s.open].grid

FeedOpen(s, grid) ==
    Store([s.blocks EXCEPT ![s.open].grid = grid], s.next_id, s.open, s.command_start)

=============================================================================
