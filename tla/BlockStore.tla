----------------------------- MODULE BlockStore -----------------------------
(***************************************************************************)
(* BlockStore under hook events in any order.  The shell script sends      *)
(* Precmd, Preexec, CommandFinished in turn, but a replaced or nested      *)
(* shell, an interrupted command and a partly installed integration all    *)
(* skip some of them, and the store's doc names these cases.               *)
(***************************************************************************)
EXTENDS Blocks

CONSTANTS
    Commands,   \* command lines
    Codes,      \* exit codes
    Lines,      \* grid lines sampled when an event arrives
    Grids,      \* contents of a block's private grid
    MaxId       \* bound: blocks opened in one behaviour

ASSUME BlockStoreAssumption ==
    /\ None \notin Commands \cup Codes \cup Lines \cup Grids \cup Nat
    /\ FreshGrid \in Grids
    /\ MaxId \in Nat \ {0}

VARIABLE store

Init == store = EmptyStore

(* An event that opens a block is let through while numbers remain.        *)
PromptShown ==
    /\ store.next_id <= MaxId
    /\ \E line \in Lines : store' = Precmd(store, line)

CommandStarts ==
    /\ store.open = 0 => store.next_id <= MaxId
    /\ \E line \in Lines, command \in Commands :
          store' = Preexec(store, line, command)

CommandEnds == \E code \in Codes : store' = Finished(store, code)

(* Terminal::feed writes to the grid of the open block.                    *)
OutputArrives ==
    /\ OpenGrid(store) # None
    /\ \E grid \in Grids : store' = FeedOpen(store, grid)

(* The host opts in, as on a reconnect.                                    *)
HostResets == store' = Reset(store)

Next == PromptShown \/ CommandStarts \/ CommandEnds \/ OutputArrives \/ HostResets

Spec == Init /\ [][Next]_store

-----------------------------------------------------------------------------
(* Properties.                                                             *)

Option(S) == S \cup {None}

Block == [id : 1 .. MaxId, command : Option(Commands), start_line : Lines,
          running : BOOLEAN, grid : Option(Grids), frozen : Option(Grids),
          exit_code : Option(Codes), duration : Option(1 .. MaxId)]

(* Type invariant: the fields of BlockStore.                               *)
TypeOK ==
    store \in [blocks : Seq(Block), next_id : 1 .. MaxId + 1,
               open : Nat, command_start : Option(1 .. MaxId)]

(* open_index is the last block, the only one running, or there is none:   *)
(* Terminal::feed writes through the index, the cursor line and the mode   *)
(* are read from the last running block, and the two are the same.         *)
OpenIsRunning ==
    /\ store.open \in {0, Len(store.blocks)}
    /\ \A i \in DOMAIN store.blocks : store.blocks[i].running <=> i = store.open

(* The blocks listed carry consecutive numbers, ending before the next.    *)
Numbered ==
    /\ Len(store.blocks) < store.next_id
    /\ \A i \in DOMAIN store.blocks :
          store.blocks[i].id = store.next_id - 1 - Len(store.blocks) + i

(* A grid is attached only to the block running, which is not frozen yet   *)
(* and has no result; output can never reach a block that was sealed.      *)
GridOnlyOpen ==
    \A i \in DOMAIN store.blocks :
        LET b == store.blocks[i]
        IN  /\ b.grid # None => b.running
            /\ b.running => b.frozen = None /\ b.exit_code = None /\ b.duration = None

StoreInv == OpenIsRunning /\ Numbered /\ GridOnlyOpen

(* The next prompt sealed the block of a command that sent no end.         *)
CutOff(b) == ~b.running /\ b.command # None /\ b.exit_code = None

(* A command that finished took the time since its own Preexec, whatever   *)
(* was skipped or repeated before it, and a block that was cut off has no  *)
(* duration.  A block that ends without a command measures nothing, or     *)
(* what a command before it that was cut off left running; no two blocks   *)
(* measure from the same Preexec.                                          *)
DurationsOwn ==
    \A i \in DOMAIN store.blocks :
        LET b == store.blocks[i]
        IN  /\ b.exit_code = None => b.duration = None
            /\ b.exit_code # None /\ b.command # None => b.duration = b.id
            /\ b.duration # None =>
                  /\ b.command = None =>
                        \E j \in DOMAIN store.blocks :
                            CutOff(store.blocks[j]) /\ store.blocks[j].id = b.duration
                  /\ \A j \in DOMAIN store.blocks :
                        store.blocks[j].duration = b.duration => i = j

(* The doc of Block.duration_ms: it is None if no matching Preexec was     *)
(* observed before the seal.                                               *)
NoPreexecNoDuration ==
    \A i \in DOMAIN store.blocks :
        store.blocks[i].command = None => store.blocks[i].duration = None

(* A sealed block is never touched again: only a reset removes it.         *)
SealedForGood ==
    [][\/ store'.blocks = << >>
       \/ \A i \in DOMAIN store.blocks :
             ~store.blocks[i].running =>
                i \in DOMAIN store'.blocks /\ store'.blocks[i] = store.blocks[i]]_store

(* Refinement: the sealed blocks are the log, the open one is active.      *)
Entry(b)   == [id |-> b.id, exit_code |-> b.exit_code]
Ended(s)   == IF s.open = 0 THEN Len(s.blocks) ELSE Len(s.blocks) - 1
Entries(s) == [i \in 1 .. Ended(s) |-> Entry(s.blocks[i])]
Active(s)  == IF s.open = 0 THEN 0 ELSE s.blocks[s.open].id

Log == INSTANCE BlockLog WITH
           log <- Entries(store), active <- Active(store), next <- store.next_id

IsBlockLog == Log!Spec

=============================================================================
