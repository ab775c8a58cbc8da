-------------------------- MODULE BlockStoreProofs --------------------------
(***************************************************************************)
(* Proofs about BlockStore.  The operators of Blocks are compositions of   *)
(* three changes to a store: sealing the open block, opening a new one     *)
(* when none is open, and filling in the open one.  One lemma says what    *)
(* each does, one that it keeps a store well formed; the steps of the      *)
(* specification follow by composing them.                                 *)
(***************************************************************************)
EXTENDS BlockStore, SequenceTheorems, TLAPS

StoreType ==
    [blocks : Seq(Block), next_id : 1 .. MaxId + 1,
     open : Nat, command_start : Option(1 .. MaxId)]

Idx(s) == 1 .. Len(s.blocks)

OpenIsLast(s) == s.open \in {0, Len(s.blocks)}

OnlyOpenRuns(s) == \A i \in Idx(s) : s.blocks[i].running <=> i = s.open

NumberedUp(s) ==
    /\ Len(s.blocks) < s.next_id
    /\ \A i \in Idx(s) : s.blocks[i].id = s.next_id - 1 - Len(s.blocks) + i

OpenIsBare(s) ==
    \A i \in Idx(s) :
        /\ i # s.open => s.blocks[i].grid = None
        /\ i = s.open => /\ s.blocks[i].frozen = None
                         /\ s.blocks[i].exit_code = None
                         /\ s.blocks[i].duration = None

WellFormed(s) ==
    s \in StoreType /\ OpenIsLast(s) /\ OnlyOpenRuns(s) /\ NumberedUp(s) /\ OpenIsBare(s)

(* WellFormed is the type invariant and the inductive invariant together.  *)
LEMMA WellFormedMeans == WellFormed(store) <=> TypeOK /\ StoreInv
<1>1. store \in StoreType <=> TypeOK
  BY DEF StoreType, TypeOK
<1>2. ASSUME store \in StoreType
      PROVE  DOMAIN store.blocks = Idx(store)
  BY <1>2 DEF StoreType, Idx
<1>3. ASSUME store \in StoreType
      PROVE  OpenIsLast(store) /\ OnlyOpenRuns(store) <=> OpenIsRunning
  BY <1>2, <1>3 DEF OpenIsLast, OnlyOpenRuns, OpenIsRunning
<1>4. ASSUME store \in StoreType
      PROVE  NumberedUp(store) <=> Numbered
  BY <1>2, <1>4 DEF NumberedUp, Numbered
<1>5. ASSUME store \in StoreType, OnlyOpenRuns(store)
      PROVE  OpenIsBare(store) <=> GridOnlyOpen
  BY <1>2, <1>5 DEF OpenIsBare, GridOnlyOpen, OnlyOpenRuns
<1> QED
  BY <1>1, <1>3, <1>4, <1>5 DEF WellFormed, StoreInv

-----------------------------------------------------------------------------
(* The three changes keep a store well formed.                             *)

(* Sealing the open block keeps a store well formed (seal_with).           *)
LEMMA SealKeeps ==
    ASSUME NEW s, WellFormed(s),
           NEW code \in Option(Codes), NEW duration \in Option(1 .. MaxId)
    PROVE  WellFormed(SealWith(s, code, duration))
<1>1. CASE s.open = 0
  BY <1>1 DEF SealWith
<1>2. CASE s.open # 0
  <2> DEFINE b == s.blocks[s.open]
             t == SealWith(s, code, duration)
  <2>1. s \in StoreType /\ s.open = Len(s.blocks) /\ s.open \in Idx(s)
    BY <1>2 DEF WellFormed, OpenIsLast, StoreType, Idx
  <2>2. b \in Block /\ b.running
    BY <2>1 DEF WellFormed, OnlyOpenRuns, StoreType, Idx
  <2>3. t = Store([s.blocks EXCEPT ![s.open] = Sealed(b, code, duration)],
                  s.next_id, 0, s.command_start)
    BY <1>2, <2>2 DEF SealWith
  <2>4. Sealed(b, code, duration) \in Block
    BY <2>2 DEF Sealed, Block, Option
  <2> DEFINE e == Sealed(b, code, duration)
  <2>5. t.blocks \in Seq(Block) /\ Len(t.blocks) = Len(s.blocks)
        /\ t.blocks[s.open] = e
        /\ \A i \in Idx(s) : i # s.open => t.blocks[i] = s.blocks[i]
    <3> HIDE DEF t, e
    <3>1. t.blocks = [s.blocks EXCEPT ![s.open] = e]
      BY <2>3 DEF Store, e
    <3>2. s.blocks \in Seq(Block)
      BY <2>1 DEF StoreType
    <3> QED
      BY <2>1, <2>4, <3>1, <3>2 DEF Idx, e
  <2>6. t.open = 0 /\ t.next_id = s.next_id /\ t.command_start = s.command_start
    BY <2>3 DEF Store
  <2>7. t \in StoreType
    BY <2>1, <2>3, <2>5, <2>6 DEF StoreType, Store
  <2>8. e.id = b.id /\ e.running = FALSE /\ e.grid = None
    BY DEF Sealed
  <2> HIDE DEF t, e
  <2>9. OnlyOpenRuns(t)
    BY <2>1, <2>5, <2>6, <2>8 DEF OnlyOpenRuns, Idx, WellFormed, StoreType
  <2>10. NumberedUp(t)
    BY <2>1, <2>5, <2>6, <2>8 DEF NumberedUp, Idx, WellFormed, StoreType
  <2>11. OpenIsBare(t)
    BY <2>1, <2>5, <2>6, <2>8 DEF OpenIsBare, Idx, WellFormed, StoreType
  <2>12. OpenIsLast(t)
    BY <2>6 DEF OpenIsLast
  <2> QED
    BY <2>7, <2>9, <2>10, <2>11, <2>12 DEF WellFormed, t
<1> QED
  BY <1>1, <1>2

(* After a seal no block is open.                                          *)
LEMMA SealCloses ==
    ASSUME NEW s, WellFormed(s), NEW code, NEW duration
    PROVE  /\ SealWith(s, code, duration).open = 0
           /\ SealWith(s, code, duration).next_id = s.next_id
           /\ Len(SealWith(s, code, duration).blocks) = Len(s.blocks)
<1>1. s.open # 0 => s.open \in Idx(s) /\ s.blocks[s.open].running
  BY DEF WellFormed, OpenIsLast, OnlyOpenRuns, StoreType, Idx
<1> QED
  BY <1>1 DEF SealWith, Store, WellFormed, StoreType

(* So does opening a block when none is open (open_new),                   *)
LEMMA OpenKeeps ==
    ASSUME NEW s, WellFormed(s), s.open = 0, s.next_id <= MaxId, NEW line \in Lines
    PROVE  WellFormed(OpenNew(s, line)) /\ OpenNew(s, line).open # 0
<1> DEFINE t == OpenNew(s, line)
           e == NewBlock(s.next_id, line)
           n == Len(s.blocks)
<1> USE BlockStoreAssumption
<1>1. s \in StoreType /\ n \in Nat
  BY DEF WellFormed, StoreType
<1>2. e \in Block
  BY <1>1 DEF NewBlock, Block, StoreType, Option
<1>3. t.next_id = s.next_id + 1 /\ t.open = n + 1 /\ t.command_start = s.command_start
  BY DEF OpenNew, Store
<1>4. t.blocks \in Seq(Block) /\ Len(t.blocks) = n + 1 /\ t.blocks[n + 1] = e
      /\ \A i \in 1 .. n : t.blocks[i] = s.blocks[i]
  <2> HIDE DEF e
  <2> QED
    BY <1>1, <1>2 DEF OpenNew, Store, StoreType, e
<1>5. t \in StoreType
  BY <1>1, <1>3, <1>4 DEF StoreType, OpenNew, Store
<1>6. e.id = s.next_id /\ e.running = TRUE /\ e.grid = None
      /\ e.frozen = None /\ e.exit_code = None /\ e.duration = None
  BY DEF NewBlock
<1> HIDE DEF t, e
<1>7. OnlyOpenRuns(t)
  BY <1>1, <1>3, <1>4, <1>6 DEF OnlyOpenRuns, Idx, WellFormed
<1>8. NumberedUp(t)
  <2>1. s.next_id \in Nat /\ n < s.next_id
        /\ \A i \in 1 .. n : s.blocks[i].id = s.next_id - 1 - n + i
    BY <1>1 DEF NumberedUp, Idx, WellFormed, StoreType
  <2>2. ASSUME NEW i \in 1 .. n
        PROVE  t.blocks[i].id = t.next_id - 1 - (n + 1) + i
    <3>1. t.blocks[i] = s.blocks[i]
      BY <1>4
    <3>2. s.blocks[i].id = s.next_id - 1 - n + i
      BY <2>1
    <3> QED
      BY <1>1, <1>3, <2>1, <3>1, <3>2
  <2>3. t.blocks[n + 1].id = t.next_id - 1 - (n + 1) + (n + 1)
    BY <1>1, <1>3, <1>4, <1>6, <2>1
  <2>4. Len(t.blocks) < t.next_id
    BY <1>1, <1>3, <1>4, <2>1
  <2>5. ASSUME NEW i \in 1 .. n + 1
        PROVE  t.blocks[i].id = t.next_id - 1 - (n + 1) + i
    <3>1. i \in 1 .. n \/ i = n + 1
      BY <1>1
    <3> QED
      BY <2>2, <2>3, <3>1
  <2>6. Len(t.blocks) = n + 1
    BY <1>4
  <2> HIDE DEF n
  <2> QED
    BY <2>4, <2>5, <2>6 DEF NumberedUp, Idx
<1>9. OpenIsBare(t)
  BY <1>1, <1>3, <1>4, <1>6 DEF OpenIsBare, Idx, WellFormed
<1>10. OpenIsLast(t)
  BY <1>3, <1>4 DEF OpenIsLast
<1> QED
  BY <1>1, <1>3, <1>5, <1>7, <1>8, <1>9, <1>10 DEF WellFormed, t

(* Replacing the open block by one that still runs and is still bare.      *)
LEMMA FillKeeps ==
    ASSUME NEW s, WellFormed(s), s.open # 0,
           NEW e \in Block, NEW start \in Option(1 .. MaxId),
           e.id = s.blocks[s.open].id, e.running,
           e.frozen = None, e.exit_code = None, e.duration = None
    PROVE  WellFormed(Store([s.blocks EXCEPT ![s.open] = e], s.next_id, s.open, start))
<1> DEFINE t == Store([s.blocks EXCEPT ![s.open] = e], s.next_id, s.open, start)
<1>1. s \in StoreType /\ s.open \in Idx(s)
  BY DEF WellFormed, OpenIsLast, StoreType, Idx
<1>2. t.next_id = s.next_id /\ t.open = s.open
  BY DEF Store
<1>3. t.blocks \in Seq(Block) /\ Len(t.blocks) = Len(s.blocks)
      /\ t.blocks[s.open] = e
      /\ \A i \in Idx(s) : i # s.open => t.blocks[i] = s.blocks[i]
  <2>1. t.blocks = [s.blocks EXCEPT ![s.open] = e]
    BY DEF Store
  <2>2. s.blocks \in Seq(Block)
    BY <1>1 DEF StoreType
  <2> HIDE DEF t
  <2> QED
    BY <1>1, <2>1, <2>2 DEF Idx
<1>4. t \in StoreType
  BY <1>1, <1>2, <1>3 DEF StoreType, Store
<1> HIDE DEF t
<1>5. OnlyOpenRuns(t)
  BY <1>1, <1>2, <1>3 DEF OnlyOpenRuns, Idx, WellFormed
<1>6. NumberedUp(t)
  BY <1>1, <1>2, <1>3 DEF NumberedUp, Idx, WellFormed
<1>7. OpenIsBare(t)
  BY <1>1, <1>2, <1>3 DEF OpenIsBare, Idx, WellFormed
<1>8. OpenIsLast(t)
  BY <1>2, <1>3 DEF OpenIsLast, WellFormed
<1> QED
  BY <1>4, <1>5, <1>6, <1>7, <1>8 DEF WellFormed, t

(* What is known of the open block of a well-formed store.                 *)
LEMMA OpenBlock ==
    ASSUME NEW s, WellFormed(s), s.open # 0
    PROVE  /\ s.open = Len(s.blocks) /\ s.open \in Idx(s)
           /\ s.blocks[s.open] \in Block /\ s.blocks[s.open].running
           /\ s.blocks[s.open].id \in 1 .. MaxId
           /\ s.blocks[s.open].id = s.next_id - 1
           /\ s.blocks[s.open].frozen = None /\ s.blocks[s.open].exit_code = None
           /\ s.blocks[s.open].duration = None
<1>1. s \in StoreType /\ s.open = Len(s.blocks) /\ s.open \in Idx(s)
  BY DEF WellFormed, OpenIsLast, StoreType, Idx
<1>2. s.blocks[s.open] \in Block
  BY <1>1 DEF StoreType, Idx
<1>3. s.blocks[s.open].running
  BY <1>1 DEF WellFormed, OnlyOpenRuns
<1>4. s.blocks[s.open].id \in 1 .. MaxId
  BY <1>2 DEF Block
<1>5. s.blocks[s.open].id = s.next_id - 1
  BY <1>1 DEF WellFormed, NumberedUp, StoreType, Idx
<1>6. s.blocks[s.open].frozen = None /\ s.blocks[s.open].exit_code = None
      /\ s.blocks[s.open].duration = None
  BY <1>1 DEF WellFormed, OpenIsBare
<1> QED
  BY <1>1, <1>2, <1>3, <1>4, <1>5, <1>6

(* starting a command in the open one (Preexec),                           *)
LEMMA StartKeeps ==
    ASSUME NEW s, WellFormed(s), s.open # 0,
           NEW line \in Lines, NEW command \in Commands
    PROVE  WellFormed(Start(s, line, command))
<1> DEFINE b == s.blocks[s.open]
           e == Started(b, line, command)
           bs == [s.blocks EXCEPT ![s.open] = e]
<1>1. b \in Block /\ b.running /\ b.id \in 1 .. MaxId
      /\ b.frozen = None /\ b.exit_code = None /\ b.duration = None
  BY OpenBlock
<1>2. e \in Block
  BY <1>1, BlockStoreAssumption DEF Started, Block, Option
<1>3. e.id = b.id /\ e.running /\ e.frozen = None
      /\ e.exit_code = None /\ e.duration = None
  BY <1>1 DEF Started
<1>4. Start(s, line, command) =
         Store([s.blocks EXCEPT ![s.open] = e], s.next_id, s.open, b.id)
  BY DEF Start
<1>5. b.id \in Option(1 .. MaxId)
  BY <1>1 DEF Option
<1> HIDE DEF b, e
<1> QED
  BY <1>2, <1>3, <1>4, <1>5, FillKeeps DEF b

(* feeding its grid,                                                       *)
LEMMA FeedKeeps ==
    ASSUME NEW s, WellFormed(s), s.open # 0, NEW grid \in Grids
    PROVE  WellFormed(FeedOpen(s, grid))
<1> DEFINE b == s.blocks[s.open]
           e == [b EXCEPT !.grid = grid]
<1>1. b \in Block /\ b.running /\ b.frozen = None
      /\ b.exit_code = None /\ b.duration = None
  BY OpenBlock
<1>2. e \in Block
  BY <1>1 DEF Block, Option
<1>3. e.id = b.id /\ e.running /\ e.frozen = None
      /\ e.exit_code = None /\ e.duration = None
  BY <1>1 DEF Block
<1>4. FeedOpen(s, grid) =
         Store([s.blocks EXCEPT ![s.open] = e], s.next_id, s.open, s.command_start)
  BY DEF FeedOpen
<1>5. s.command_start \in Option(1 .. MaxId)
  BY DEF WellFormed, StoreType
<1> HIDE DEF b, e
<1> QED
  BY <1>2, <1>3, <1>4, <1>5, FillKeeps DEF b

(* clearing command_start,                                                 *)
LEMMA ClockStops ==
    ASSUME NEW s, WellFormed(s)
    PROVE  WellFormed(Store(s.blocks, s.next_id, s.open, None))
BY DEF WellFormed, StoreType, Store, Option, OpenIsLast, OnlyOpenRuns,
       NumberedUp, OpenIsBare, Idx

(* and a reset.                                                            *)
LEMMA ResetKeeps ==
    ASSUME NEW s, WellFormed(s)
    PROVE  WellFormed(Reset(s))
BY DEF WellFormed, StoreType, Store, Reset, Option, OpenIsLast, OnlyOpenRuns,
       NumberedUp, OpenIsBare, Idx

-----------------------------------------------------------------------------
(* The invariant of the specification.                                     *)

(* The store starts well formed,                                           *)
LEMMA InitWellFormed == Init => WellFormed(store)
BY BlockStoreAssumption
   DEF Init, EmptyStore, WellFormed, StoreType, Store, Option, OpenIsLast,
       OnlyOpenRuns, NumberedUp, OpenIsBare, Idx

(* and each step composes the changes above.                               *)
LEMMA StepWellFormed == WellFormed(store) /\ [Next]_store => WellFormed(store')
<1> SUFFICES ASSUME WellFormed(store), [Next]_store
             PROVE  WellFormed(store')
  OBVIOUS
<1>1. CASE PromptShown
  <2>1. PICK line \in Lines : store' = Precmd(store, line)
    BY <1>1 DEF PromptShown
  <2> DEFINE t == SealWith(store, None, None)
  <2>2. WellFormed(t)
    BY SealKeeps DEF Option
  <2>3. t.open = 0 /\ t.next_id <= MaxId
    BY <1>1, SealCloses DEF PromptShown
  <2> HIDE DEF t
  <2> QED
    BY <2>1, <2>2, <2>3, OpenKeeps DEF Precmd, t
<1>2. CASE CommandStarts
  <2>1. PICK line \in Lines, command \in Commands :
            store' = Preexec(store, line, command)
    BY <1>2 DEF CommandStarts
  <2>2. CASE store.open = 0
    <3>1. WellFormed(OpenNew(store, line)) /\ OpenNew(store, line).open # 0
      BY <1>2, <2>2, OpenKeeps DEF CommandStarts
    <3> QED
      BY <2>1, <2>2, <3>1, StartKeeps DEF Preexec
  <2>3. CASE store.open # 0
    BY <2>1, <2>3, StartKeeps DEF Preexec
  <2> QED
    BY <2>2, <2>3
<1>3. CASE CommandEnds
  <2>1. PICK code \in Codes : store' = Finished(store, code)
    BY <1>3 DEF CommandEnds
  <2> DEFINE t == Store(store.blocks, store.next_id, store.open, None)
  <2>2. WellFormed(t)
    BY ClockStops
  <2>3. store.command_start \in Option(1 .. MaxId) /\ code \in Option(Codes)
    BY DEF WellFormed, StoreType, Option
  <2> HIDE DEF t
  <2> QED
    BY <2>1, <2>2, <2>3, SealKeeps DEF Finished, t
<1>4. CASE OutputArrives
  BY <1>4, FeedKeeps DEF OutputArrives, OpenGrid
<1>5. CASE HostResets
  BY <1>5, ResetKeeps DEF HostResets
<1>6. CASE UNCHANGED store
  BY <1>6
<1> QED
  BY <1>1, <1>2, <1>3, <1>4, <1>5, <1>6 DEF Next

StoreWellFormed == WellFormed(store)

(* So it always is.                                                        *)
LEMMA AlwaysWellFormed == Spec => []StoreWellFormed
<1>1. Init => StoreWellFormed
  BY InitWellFormed DEF StoreWellFormed
<1>2. StoreWellFormed /\ [Next]_store => StoreWellFormed'
  BY StepWellFormed DEF StoreWellFormed
<1> QED
  BY <1>1, <1>2, PTL DEF Spec

(* Type correctness of the block store, for any commands, codes, lines,    *)
(* grids and number of blocks.                                             *)
THEOREM BlockStoreTypes == Spec => []TypeOK
<1>1. StoreWellFormed => TypeOK
  BY WellFormedMeans DEF StoreWellFormed
<1> QED
  BY <1>1, AlwaysWellFormed, PTL

(* At most the last block runs, the open index designates it, numbers are  *)
(* consecutive, and a grid belongs to the open block only.                 *)
THEOREM BlockStoreInvariant == Spec => []StoreInv
<1>1. StoreWellFormed => StoreInv
  BY WellFormedMeans DEF StoreWellFormed
<1> QED
  BY <1>1, AlwaysWellFormed, PTL

-----------------------------------------------------------------------------
(* The refinement of BlockLog: what each change does to log and active.    *)

(* A log of n entries with one more is a log of n + 1.                     *)
LEMMA LogGrows ==
    ASSUME NEW n \in Nat, NEW f
    PROVE  Append([i \in 1 .. n |-> Entry(f[i])], Entry(f[n + 1]))
              = [i \in 1 .. n + 1 |-> Entry(f[i])]
<1> DEFINE S == {Entry(f[i]) : i \in 1 .. n + 1}
           L == [i \in 1 .. n |-> Entry(f[i])]
           M == [i \in 1 .. n + 1 |-> Entry(f[i])]
           e == Entry(f[n + 1])
<1>1. L \in Seq(S) /\ Len(L) = n /\ e \in S
  <2>1. L \in [1 .. n -> S]
    OBVIOUS
  <2> QED
    BY <2>1, SeqDef
<1>2. M \in Seq(S) /\ Len(M) = n + 1
  <2>1. M \in [1 .. n + 1 -> S] /\ n + 1 \in Nat
    OBVIOUS
  <2> HIDE DEF M, S
  <2>2. M \in Seq(S)
    BY <2>1, SeqDef
  <2>3. DOMAIN M = 1 .. n + 1
    BY <2>1
  <2> QED
    BY <2>1, <2>2, <2>3, LenProperties
<1>3. \A i \in 1 .. n : L[i] = M[i]
  OBVIOUS
<1>4. M[n + 1] = e
  OBVIOUS
<1> HIDE DEF S, L, M, e
<1>5. Append(L, e) \in Seq(S) /\ Len(Append(L, e)) = n + 1
      /\ \A i \in 1 .. n + 1 : Append(L, e)[i] = IF i = n + 1 THEN e ELSE L[i]
  BY <1>1
<1>6. \A i \in 1 .. n + 1 : Append(L, e)[i] = M[i]
  BY <1>3, <1>4, <1>5
<1>7. Append(L, e) = M
  BY <1>2, <1>5, <1>6, SeqEqual
<1> QED
  BY <1>7 DEF L, M, e

(* Sealing appends the open block with its exit code.                      *)
LEMMA SealLogs ==
    ASSUME NEW s, WellFormed(s), s.open # 0, NEW code, NEW duration
    PROVE  /\ Entries(SealWith(s, code, duration)) =
                 Append(Entries(s), [id |-> Active(s), exit_code |-> code])
           /\ Active(SealWith(s, code, duration)) = 0
           /\ Active(s) # 0
<1> DEFINE t == SealWith(s, code, duration)
           n == Len(s.blocks) - 1
           b == s.blocks[s.open]
           e == Sealed(b, code, duration)
<1>1. n \in Nat /\ s.open = n + 1 /\ b.running /\ b.id \in 1 .. MaxId
      /\ Len(s.blocks) = n + 1 /\ s.blocks \in Seq(Block)
  BY OpenBlock DEF WellFormed, StoreType, Idx
<1>2. t.blocks = [s.blocks EXCEPT ![s.open] = e] /\ t.open = 0
  BY <1>1 DEF SealWith, Store
<1>3. Entry(e) = [id |-> b.id, exit_code |-> code]
  BY DEF Entry, Sealed
<1> HIDE DEF t, b, e
<1>4. t.blocks[n + 1] = e /\ Len(t.blocks) = n + 1
      /\ \A i \in 1 .. n : t.blocks[i] = s.blocks[i]
  BY <1>1, <1>2
<1>5. Entries(s) = [i \in 1 .. n |-> Entry(t.blocks[i])]
  BY <1>1, <1>4 DEF Entries, Ended
<1>6. Entries(t) = [i \in 1 .. n + 1 |-> Entry(t.blocks[i])]
  BY <1>1, <1>2, <1>4 DEF Entries, Ended
<1>7. Entries(t) = Append(Entries(s), Entry(t.blocks[n + 1]))
  BY <1>1, <1>5, <1>6, LogGrows
<1>8. Active(s) = b.id /\ Active(t) = 0
  BY <1>1, <1>2 DEF Active, b
<1> QED
  BY <1>1, <1>3, <1>4, <1>7, <1>8 DEF t

(* Opening a block leaves the log alone and makes the next number active.  *)
LEMMA OpenLogs ==
    ASSUME NEW s, WellFormed(s), s.open = 0, NEW line
    PROVE  /\ Entries(OpenNew(s, line)) = Entries(s)
           /\ Active(OpenNew(s, line)) = s.next_id
           /\ OpenNew(s, line).next_id = s.next_id + 1
<1> DEFINE t == OpenNew(s, line)
           n == Len(s.blocks)
           e == NewBlock(s.next_id, line)
<1>1. n \in Nat /\ s.blocks \in Seq(Block)
  BY DEF WellFormed, StoreType
<1>2. t.blocks = Append(s.blocks, e) /\ t.open = n + 1 /\ t.next_id = s.next_id + 1
  BY DEF OpenNew, Store
<1>3. e.id = s.next_id
  BY DEF NewBlock
<1> HIDE DEF t, e
<1>4. t.blocks[n + 1] = e /\ Len(t.blocks) = n + 1
      /\ \A i \in 1 .. n : t.blocks[i] = s.blocks[i]
  BY <1>1, <1>2
<1>5. Ended(t) = n /\ Ended(s) = n
  BY <1>1, <1>2, <1>4 DEF Ended
<1>6. Entries(t) = Entries(s)
  BY <1>4, <1>5 DEF Entries
<1>7. Active(t) = s.next_id
  BY <1>1, <1>2, <1>3, <1>4 DEF Active
<1> QED
  BY <1>2, <1>6, <1>7 DEF t

(* Filling in the open block changes neither.                              *)
LEMMA FillLogs ==
    ASSUME NEW s, WellFormed(s), s.open # 0, NEW e \in Block, NEW start,
           e.id = s.blocks[s.open].id
    PROVE  LET t == Store([s.blocks EXCEPT ![s.open] = e], s.next_id, s.open, start)
           IN  Entries(t) = Entries(s) /\ Active(t) = Active(s) /\ t.next_id = s.next_id
<1> DEFINE t == Store([s.blocks EXCEPT ![s.open] = e], s.next_id, s.open, start)
           n == Len(s.blocks) - 1
<1>1. n \in Nat /\ s.open = n + 1 /\ Len(s.blocks) = n + 1 /\ s.blocks \in Seq(Block)
  BY OpenBlock DEF WellFormed, StoreType, Idx
<1>2. t.blocks = [s.blocks EXCEPT ![s.open] = e] /\ t.open = s.open
      /\ t.next_id = s.next_id
  BY DEF Store
<1> HIDE DEF t
<1>3. t.blocks[n + 1] = e /\ Len(t.blocks) = n + 1
      /\ \A i \in 1 .. n : t.blocks[i] = s.blocks[i]
  BY <1>1, <1>2
<1>4. Ended(t) = n /\ Ended(s) = n
  BY <1>1, <1>2, <1>3 DEF Ended
<1>5. Entries(t) = Entries(s)
  BY <1>3, <1>4 DEF Entries
<1>6. Active(t) = Active(s)
  BY <1>1, <1>2, <1>3 DEF Active
<1> QED
  BY <1>2, <1>5, <1>6 DEF t

(* A Preexec into the open block only fills it in.                         *)
LEMMA StartLogs ==
    ASSUME NEW s, WellFormed(s), s.open # 0, NEW line \in Lines, NEW command \in Commands
    PROVE  /\ Entries(Start(s, line, command)) = Entries(s)
           /\ Active(Start(s, line, command)) = Active(s)
           /\ Start(s, line, command).next_id = s.next_id
<1> DEFINE b == s.blocks[s.open]
           e == Started(b, line, command)
           bs == [s.blocks EXCEPT ![s.open] = e]
<1>1. b \in Block
  BY OpenBlock
<1>2. e \in Block /\ e.id = b.id
  BY <1>1, BlockStoreAssumption DEF Started, Block, Option
<1>3. Start(s, line, command) =
         Store([s.blocks EXCEPT ![s.open] = e], s.next_id, s.open, b.id)
  BY DEF Start
<1> HIDE DEF b, e
<1> QED
  BY <1>2, <1>3, FillLogs DEF b

(* Output only fills in the open block.                                    *)
LEMMA FeedLogs ==
    ASSUME NEW s, WellFormed(s), s.open # 0, NEW grid \in Grids
    PROVE  /\ Entries(FeedOpen(s, grid)) = Entries(s)
           /\ Active(FeedOpen(s, grid)) = Active(s)
           /\ FeedOpen(s, grid).next_id = s.next_id
<1> DEFINE b == s.blocks[s.open]
           e == [b EXCEPT !.grid = grid]
<1>1. b \in Block
  BY OpenBlock
<1>2. e \in Block /\ e.id = b.id
  BY <1>1 DEF Block, Option
<1>3. FeedOpen(s, grid) =
         Store([s.blocks EXCEPT ![s.open] = e], s.next_id, s.open, s.command_start)
  BY DEF FeedOpen
<1> HIDE DEF b, e
<1> QED
  BY <1>2, <1>3, FillLogs DEF b

(* A step of the log, as a relation between two stores.                    *)
Begins(s, t) ==
    /\ Active(t) = s.next_id
    /\ t.next_id = s.next_id + 1
    /\ Entries(t) = IF Active(s) = 0 THEN Entries(s)
                    ELSE Append(Entries(s), [id |-> Active(s), exit_code |-> None])

Finishes(s, t) ==
    /\ Active(s) # 0
    /\ \E code \in Codes :
          Entries(t) = Append(Entries(s), [id |-> Active(s), exit_code |-> code])
    /\ Active(t) = 0
    /\ t.next_id = s.next_id

Clears(s, t) == Entries(t) = << >> /\ Active(t) = 0 /\ t.next_id = s.next_id

SameLog(s, t) == Entries(t) = Entries(s) /\ Active(t) = Active(s) /\ t.next_id = s.next_id

(* A prompt begins an entry of the log.                                    *)
LEMMA PromptLogs ==
    ASSUME NEW s, WellFormed(s), NEW line \in Lines
    PROVE  Begins(s, Precmd(s, line))
<1> DEFINE t == SealWith(s, None, None)
<1>1. WellFormed(t) /\ t.open = 0 /\ t.next_id = s.next_id
  BY SealKeeps, SealCloses DEF Option
<1>2. CASE s.open = 0
  <2>1. t = s /\ Active(s) = 0
    BY <1>2 DEF SealWith, Active
  <2> HIDE DEF t
  <2> QED
    BY <1>1, <2>1, OpenLogs DEF Begins, Precmd, t
<1>3. CASE s.open # 0
  <2>1. Entries(t) = Append(Entries(s), [id |-> Active(s), exit_code |-> None])
        /\ Active(s) # 0
    BY <1>3, SealLogs
  <2> HIDE DEF t
  <2> QED
    BY <1>1, <2>1, OpenLogs DEF Begins, Precmd, t
<1> QED
  BY <1>2, <1>3

(* A command begins one or goes to the one a prompt began.                 *)
LEMMA CommandLogs ==
    ASSUME NEW s, WellFormed(s), NEW line \in Lines, NEW command \in Commands,
           s.open = 0 => s.next_id <= MaxId
    PROVE  \/ Begins(s, Preexec(s, line, command))
           \/ SameLog(s, Preexec(s, line, command))
<1>1. CASE s.open = 0
  <2> DEFINE t == OpenNew(s, line)
  <2>1. WellFormed(t) /\ t.open # 0
    BY <1>1, OpenKeeps
  <2>2. Entries(t) = Entries(s) /\ Active(t) = s.next_id /\ t.next_id = s.next_id + 1
    BY <1>1, OpenLogs
  <2>3. Active(s) = 0
    BY <1>1 DEF Active
  <2>4. Preexec(s, line, command) = Start(t, line, command)
    BY <1>1 DEF Preexec
  <2> HIDE DEF t
  <2> QED
    BY <2>1, <2>2, <2>3, <2>4, StartLogs DEF Begins
<1>2. CASE s.open # 0
  BY <1>2, StartLogs DEF Preexec, SameLog
<1> QED
  BY <1>1, <1>2

(* The end of a command finishes the last entry, if it is not finished.    *)
LEMMA FinishLogs ==
    ASSUME NEW s, WellFormed(s), NEW code \in Codes
    PROVE  Finishes(s, Finished(s, code)) \/ SameLog(s, Finished(s, code))
<1> DEFINE t == Store(s.blocks, s.next_id, s.open, None)
           u == SealWith(t, code, s.command_start)
<1>1. WellFormed(t) /\ t.open = s.open /\ t.blocks = s.blocks /\ t.next_id = s.next_id
  BY ClockStops DEF Store
<1>2. Entries(t) = Entries(s) /\ Active(t) = Active(s)
  BY <1>1 DEF Entries, Ended, Active
<1>3. Finished(s, code) = u
  BY DEF Finished
<1>4. CASE s.open = 0
  <2>1. u = t
    BY <1>1, <1>4 DEF SealWith
  <2> QED
    BY <1>1, <1>2, <1>3, <2>1 DEF SameLog
<1>5. CASE s.open # 0
  <2> HIDE DEF t
  <2>1. Entries(u) = Append(Entries(t), [id |-> Active(t), exit_code |-> code])
        /\ Active(u) = 0 /\ Active(t) # 0
    BY <1>1, <1>5, SealLogs
  <2>2. u.next_id = t.next_id
    BY <1>1, SealCloses
  <2> HIDE DEF u
  <2> QED
    BY <1>1, <1>2, <1>3, <2>1, <2>2 DEF Finishes
<1> QED
  BY <1>4, <1>5

(* A reset clears the log.                                                 *)
LEMMA ResetLogs ==
    ASSUME NEW s
    PROVE  Clears(s, Reset(s))
<1>1. Reset(s).blocks = << >> /\ Reset(s).open = 0 /\ Reset(s).next_id = s.next_id
  BY DEF Reset, Store
<1>2. Ended(Reset(s)) = 0
  BY <1>1 DEF Ended
<1>3. Entries(Reset(s)) = << >>
  BY <1>2 DEF Entries
<1> QED
  BY <1>1, <1>3 DEF Clears, Active

(* Every step of the store begins, finishes or clears the log, or leaves   *)
(* it as it is.                                                            *)
LEMMA StepLogs ==
    WellFormed(store) /\ [Next]_store =>
        \/ Begins(store, store') \/ Finishes(store, store')
        \/ Clears(store, store') \/ SameLog(store, store')
<1> SUFFICES ASSUME WellFormed(store), [Next]_store
             PROVE  \/ Begins(store, store') \/ Finishes(store, store')
                    \/ Clears(store, store') \/ SameLog(store, store')
  OBVIOUS
<1>1. CASE PromptShown
  BY <1>1, PromptLogs DEF PromptShown
<1>2. CASE CommandStarts
  BY <1>2, CommandLogs DEF CommandStarts
<1>3. CASE CommandEnds
  BY <1>3, FinishLogs DEF CommandEnds
<1>4. CASE OutputArrives
  <2>1. store.open # 0
    BY <1>4 DEF OutputArrives, OpenGrid
  <2> QED
    BY <1>4, <2>1, FeedLogs DEF OutputArrives, SameLog
<1>5. CASE HostResets
  BY <1>5, ResetLogs DEF HostResets
<1>6. CASE UNCHANGED store
  BY <1>6 DEF SameLog
<1> QED
  BY <1>1, <1>2, <1>3, <1>4, <1>5, <1>6 DEF Next

(* The store under events in any order implements the log: no order of     *)
(* prompts, commands, ends and resets can change a finished block, number  *)
(* one twice or finish one out of turn.                                    *)
THEOREM BlockStoreIsLog == Spec => IsBlockLog
<1>1. Init => Log!Init
  <2>1. ASSUME Init
        PROVE  store.blocks = << >> /\ store.open = 0 /\ store.next_id = 1
    BY <2>1 DEF Init, EmptyStore, Store
  <2>2. ASSUME Init
        PROVE  Entries(store) = << >>
    <3>1. Ended(store) = 0
      BY <2>1, <2>2 DEF Ended
    <3> QED
      BY <3>1 DEF Entries
  <2> QED
    BY <2>1, <2>2 DEF Log!Init, Active
<1>2. StoreWellFormed /\ [Next]_store =>
          [Log!Next]_<<Entries(store), Active(store), store.next_id>>
  <2> SUFFICES ASSUME StoreWellFormed, [Next]_store
               PROVE  [Log!Next]_<<Entries(store), Active(store), store.next_id>>
    OBVIOUS
  <2>1. CASE Begins(store, store')
    <3>1. Log!Begin
      BY <2>1 DEF Log!Begin, Log!Closed, Begins, Active
    <3> QED
      BY <3>1 DEF Log!Next
  <2>2. CASE Finishes(store, store')
    BY <2>2 DEF Log!Next, Log!Finish, Log!Closed, Finishes
  <2>3. CASE Clears(store, store')
    BY <2>3 DEF Log!Next, Log!Clear, Clears
  <2>4. CASE SameLog(store, store')
    BY <2>4 DEF SameLog
  <2> QED
    BY <2>1, <2>2, <2>3, <2>4, StepLogs DEF StoreWellFormed
<1> QED
  BY <1>1, <1>2, AlwaysWellFormed, PTL DEF Spec, IsBlockLog, Log!Spec

-----------------------------------------------------------------------------
(* What each change does to the blocks one by one.                         *)

(* From s to t: the blocks of s are all there, and only the open one may   *)
(* have changed.                                                           *)
Spares(s, t) ==
    /\ Len(t.blocks) >= Len(s.blocks)
    /\ \A i \in Idx(s) : i # s.open => t.blocks[i] = s.blocks[i]

(* Sealing changes the open block and nothing else.                        *)
LEMMA SealTouches ==
    ASSUME NEW s, WellFormed(s), NEW code, NEW duration
    PROVE  LET t == SealWith(s, code, duration)
           IN  /\ t.open = 0 /\ t.next_id = s.next_id /\ t.command_start = s.command_start
               /\ Idx(t) = Idx(s) /\ Spares(s, t)
               /\ s.open # 0 => t.blocks[s.open] = Sealed(s.blocks[s.open], code, duration)
<1>1. s \in StoreType /\ Len(s.blocks) \in Nat
  BY DEF WellFormed, StoreType
<1>2. CASE s.open = 0
  BY <1>1, <1>2 DEF SealWith, Spares, Idx
<1>3. CASE s.open # 0
  <2>1. s.open \in Idx(s) /\ s.blocks[s.open].running
    BY <1>3, OpenBlock
  <2> DEFINE e == Sealed(s.blocks[s.open], code, duration)
  <2>2. SealWith(s, code, duration)
            = Store([s.blocks EXCEPT ![s.open] = e], s.next_id, 0, s.command_start)
    BY <1>3, <2>1 DEF SealWith
  <2> HIDE DEF e
  <2>3. LET bs == [s.blocks EXCEPT ![s.open] = e]
        IN  /\ Len(bs) = Len(s.blocks) /\ bs[s.open] = e
            /\ \A i \in Idx(s) : i # s.open => bs[i] = s.blocks[i]
    BY <1>1, <2>1 DEF StoreType, Idx
  <2> QED BY <1>1, <2>2, <2>3 DEF Store, Spares, Idx, e
<1> QED BY <1>2, <1>3

(* Opening adds a block and changes none.                                  *)
LEMMA OpenTouches ==
    ASSUME NEW s, WellFormed(s), NEW line
    PROVE  LET t == OpenNew(s, line)
           IN  /\ t.next_id = s.next_id + 1 /\ t.open = Len(s.blocks) + 1
               /\ t.command_start = s.command_start
               /\ Idx(t) = 1 .. Len(s.blocks) + 1
               /\ \A i \in Idx(s) : t.blocks[i] = s.blocks[i]
               /\ t.blocks[Len(s.blocks) + 1] = NewBlock(s.next_id, line)
               /\ Len(t.blocks) = Len(s.blocks) + 1
<1> DEFINE e == NewBlock(s.next_id, line)
<1>1. s.blocks \in Seq(Block) /\ Len(s.blocks) \in Nat
  BY DEF WellFormed, StoreType
<1>2. s.blocks \in Seq(Block \cup {e})
  BY <1>1, SeqDef
<1> HIDE DEF e
<1>3. LET bs == Append(s.blocks, e)
      IN  /\ Len(bs) = Len(s.blocks) + 1 /\ bs[Len(s.blocks) + 1] = e
          /\ \A i \in Idx(s) : bs[i] = s.blocks[i]
  BY <1>1, <1>2 DEF Idx
<1> QED BY <1>1, <1>3 DEF OpenNew, Store, Idx, e

(* What is filled in goes to the open block.                               *)
LEMMA FillTouches ==
    ASSUME NEW s, WellFormed(s), s.open # 0, NEW e, NEW start
    PROVE  LET t == Store([s.blocks EXCEPT ![s.open] = e], s.next_id, s.open, start)
           IN  /\ t.open = s.open /\ t.next_id = s.next_id /\ t.command_start = start
               /\ Idx(t) = Idx(s) /\ Spares(s, t) /\ t.blocks[s.open] = e
<1>1. s.open \in Idx(s) /\ s.blocks \in Seq(Block) /\ Len(s.blocks) \in Nat
  BY OpenBlock DEF WellFormed, StoreType
<1>2. LET bs == [s.blocks EXCEPT ![s.open] = e]
      IN  /\ Len(bs) = Len(s.blocks) /\ bs[s.open] = e
          /\ \A i \in Idx(s) : i # s.open => bs[i] = s.blocks[i]
  BY <1>1 DEF Idx
<1> QED BY <1>1, <1>2 DEF Store, Spares, Idx

(* What replacing the open element leaves alone.                           *)
LEMMA OpenReplaced ==
    ASSUME NEW s, WellFormed(s), s.open # 0, NEW e
    PROVE  LET bs == [s.blocks EXCEPT ![s.open] = e]
           IN  /\ Len(bs) = Len(s.blocks) /\ Len(s.blocks) \in Nat /\ bs[s.open] = e
               /\ \A i \in Idx(s) : i # s.open => bs[i] = s.blocks[i]
<1>1. s.open \in Idx(s) /\ s.blocks \in Seq(Block) /\ Len(s.blocks) \in Nat
  BY OpenBlock DEF WellFormed, StoreType
<1> QED BY <1>1 DEF Idx

(* So does output.                                                         *)
LEMMA FeedTouches ==
    ASSUME NEW s, WellFormed(s), s.open # 0, NEW grid
    PROVE  Spares(s, FeedOpen(s, grid))
<1> DEFINE e == [s.blocks[s.open] EXCEPT !.grid = grid]
           bs == [s.blocks EXCEPT ![s.open] = e]
           t == FeedOpen(s, grid)
<1>1. t = Store(bs, s.next_id, s.open, s.command_start)
  BY DEF FeedOpen
<1> HIDE DEF e
<1>2. /\ Len(bs) = Len(s.blocks) /\ Len(s.blocks) \in Nat /\ bs[s.open] = e
      /\ \A i \in Idx(s) : i # s.open => bs[i] = s.blocks[i]
  BY OpenReplaced
<1> HIDE DEF t, bs
<1>3. t.blocks = bs
  BY <1>1 DEF Store
<1>4. Spares(s, t)
  BY <1>2, <1>3 DEF Spares, Idx
<1> QED BY <1>4 DEF t

-----------------------------------------------------------------------------
(* Sealed blocks.                                                          *)

(* A step empties the store or spares all but the open block.              *)
LEMMA StepSpares ==
    ASSUME WellFormed(store), [Next]_store
    PROVE  store'.blocks = << >> \/ Spares(store, store')
<1>0. Len(store.blocks) \in Nat
  BY DEF WellFormed, StoreType
<1>1. CASE PromptShown
  <2>1. PICK line \in Lines : store' = OpenNew(SealWith(store, None, None), line)
    BY <1>1 DEF PromptShown, Precmd
  <2> DEFINE t == SealWith(store, None, None)
  <2>2. WellFormed(t) /\ Idx(t) = Idx(store) /\ Spares(store, t)
    BY SealKeeps, SealTouches DEF Option
  <2>3. Len(t.blocks) \in Nat
    BY <2>2 DEF WellFormed, StoreType
  <2> HIDE DEF t
  <2>4. /\ \A i \in Idx(t) : store'.blocks[i] = t.blocks[i]
        /\ Len(store'.blocks) = Len(t.blocks) + 1
    BY <2>1, <2>2, OpenTouches DEF t
  <2> QED BY <1>0, <2>2, <2>3, <2>4 DEF Spares
<1>2. CASE CommandStarts
  <2>1. PICK line \in Lines, command \in Commands :
            store' = Preexec(store, line, command)
    BY <1>2 DEF CommandStarts
  <2>2. CASE store.open = 0
    <3> DEFINE t == OpenNew(store, line)
    <3>1. WellFormed(t) /\ t.open # 0
      BY <1>2, <2>2, OpenKeeps DEF CommandStarts
    <3>2. /\ \A i \in Idx(store) : t.blocks[i] = store.blocks[i]
          /\ Idx(t) = 1 .. Len(store.blocks) + 1 /\ t.open = Len(store.blocks) + 1
          /\ Len(t.blocks) = Len(store.blocks) + 1
      BY OpenTouches
    <3> HIDE DEF t
    <3>3. Spares(t, store')
      BY <2>1, <2>2, <3>1, FillTouches DEF Preexec, Start, t
    <3> QED BY <1>0, <3>2, <3>3 DEF Spares, Idx
  <2>3. CASE store.open # 0
    BY <2>1, <2>3, FillTouches DEF Preexec, Start
  <2> QED BY <2>2, <2>3
<1>3. CASE CommandEnds
  <2>1. PICK code \in Codes : store' = Finished(store, code)
    BY <1>3 DEF CommandEnds
  <2> DEFINE t == Store(store.blocks, store.next_id, store.open, None)
  <2>2. WellFormed(t) /\ t.blocks = store.blocks /\ t.open = store.open
    BY ClockStops DEF Store
  <2> HIDE DEF t
  <2>3. Spares(t, store')
    BY <2>1, <2>2, SealTouches DEF Finished, t
  <2> QED BY <2>2, <2>3 DEF Spares, Idx
<1>4. CASE OutputArrives
  <2>1. PICK grid \in Grids : store.open # 0 /\ store' = FeedOpen(store, grid)
    BY <1>4 DEF OutputArrives, OpenGrid
  <2> QED BY <1>0, <2>1, FeedTouches
<1>5. CASE HostResets
  BY <1>5 DEF HostResets, Reset, Store
<1>6. CASE UNCHANGED store
  BY <1>0, <1>6 DEF Spares
<1> QED BY <1>1, <1>2, <1>3, <1>4, <1>5, <1>6 DEF Next

(* A block that was sealed is as it was until a reset drops it.            *)
THEOREM SealedStaysSealed == Spec => SealedForGood
<1>1. ASSUME WellFormed(store), [Next]_store
      PROVE  \/ store'.blocks = << >>
             \/ \A i \in DOMAIN store.blocks :
                   ~store.blocks[i].running =>
                      i \in DOMAIN store'.blocks /\ store'.blocks[i] = store.blocks[i]
  <2>1. CASE store'.blocks = << >>
    BY <2>1
  <2>2. CASE Spares(store, store')
    <3>1. WellFormed(store')
      BY <1>1, StepWellFormed
    <3>2. DOMAIN store.blocks = Idx(store) /\ DOMAIN store'.blocks = Idx(store')
      BY <1>1, <3>1 DEF WellFormed, StoreType, Idx
    <3>3. Idx(store) \subseteq Idx(store')
      BY <1>1, <2>2, <3>1 DEF Spares, Idx, WellFormed, StoreType
    <3>4. \A i \in Idx(store) : ~store.blocks[i].running => i # store.open
      BY <1>1 DEF WellFormed, OnlyOpenRuns
    <3> QED BY <2>2, <3>2, <3>3, <3>4 DEF Spares
  <2> QED BY <1>1, <2>1, <2>2, StepSpares
<1>2. StoreWellFormed /\ [Next]_store =>
         [\/ store'.blocks = << >>
          \/ \A i \in DOMAIN store.blocks :
                ~store.blocks[i].running =>
                   i \in DOMAIN store'.blocks /\ store'.blocks[i] = store.blocks[i]]_store
  BY <1>1 DEF StoreWellFormed
<1> QED BY <1>2, AlwaysWellFormed, PTL DEF Spec, SealedForGood

-----------------------------------------------------------------------------
(* The clock.                                                              *)

(* Durations differ, and so does a start still waiting; none is of a block *)
(* that came later.                                                        *)
ClockInv(s) ==
    /\ s.command_start # None => s.command_start < s.next_id
    /\ \A i \in Idx(s) :
          s.blocks[i].duration # None =>
             /\ s.blocks[i].duration <= s.blocks[i].id
             /\ s.blocks[i].duration # s.command_start
             /\ \A j \in Idx(s) : s.blocks[j].duration = s.blocks[i].duration => i = j

StoreClock == ClockInv(store)

(* Clearing command_start keeps the clock's invariant,                     *)
LEMMA ClockOff ==
    ASSUME NEW s, ClockInv(s)
    PROVE  ClockInv(Store(s.blocks, s.next_id, s.open, None))
BY DEF ClockInv, Store, Idx

(* A seal with no duration, or with one nothing else has.                  *)
LEMMA SealClock ==
    ASSUME NEW s, WellFormed(s), ClockInv(s), NEW code,
           NEW duration \in Option(1 .. MaxId),
           duration # None =>
              /\ duration < s.next_id /\ duration # s.command_start
              /\ \A i \in Idx(s) : s.blocks[i].duration # duration
    PROVE  ClockInv(SealWith(s, code, duration))
<1> DEFINE t == SealWith(s, code, duration)
<1>1. /\ t.next_id = s.next_id /\ t.command_start = s.command_start
      /\ Idx(t) = Idx(s)
      /\ \A i \in Idx(s) : i # s.open => t.blocks[i] = s.blocks[i]
      /\ s.open # 0 => t.blocks[s.open] = Sealed(s.blocks[s.open], code, duration)
  BY SealTouches DEF Spares
<1> HIDE DEF t
<1>2. CASE s.open = 0
  <2>1. \A i \in Idx(s) : t.blocks[i] = s.blocks[i]
    BY <1>1, <1>2 DEF Idx
  <2> QED BY <1>1, <2>1 DEF ClockInv, t
<1>3. CASE s.open # 0
  <2>1. /\ s.open \in Idx(s) /\ s.blocks[s.open].id = s.next_id - 1
        /\ s.next_id \in Nat
    BY <1>3, OpenBlock DEF WellFormed, StoreType
  <2>2. t.blocks[s.open].id = s.next_id - 1 /\ t.blocks[s.open].duration = duration
    BY <1>1, <1>3, <2>1 DEF Sealed
  <2>3. duration # None => duration <= s.next_id - 1
    BY <2>1 DEF Option
  <2>4. ASSUME NEW i \in Idx(s), t.blocks[i].duration # None
        PROVE  /\ t.blocks[i].duration <= t.blocks[i].id
               /\ t.blocks[i].duration # s.command_start
               /\ \A j \in Idx(s) : t.blocks[j].duration = t.blocks[i].duration => i = j
    <3>1. CASE i = s.open
      BY <1>1, <2>2, <2>3, <2>4, <3>1
    <3>2. CASE i # s.open
      BY <1>1, <2>1, <2>2, <2>4, <3>2 DEF ClockInv
    <3> QED BY <3>1, <3>2
  <2> QED BY <1>1, <2>4 DEF ClockInv, t
<1> QED BY <1>2, <1>3

(* and so do opening a block, whose id is new,                             *)
LEMMA OpenClock ==
    ASSUME NEW s, WellFormed(s), ClockInv(s), NEW line
    PROVE  ClockInv(OpenNew(s, line))
<1> DEFINE t == OpenNew(s, line)
           n == Len(s.blocks) + 1
<1>1. /\ t.next_id = s.next_id + 1 /\ t.command_start = s.command_start
      /\ Idx(t) = 1 .. n /\ \A i \in Idx(s) : t.blocks[i] = s.blocks[i]
      /\ t.blocks[n] = NewBlock(s.next_id, line)
  BY OpenTouches
<1>2. /\ s.next_id \in Nat /\ Len(s.blocks) \in Nat
      /\ s.command_start \in Option(1 .. MaxId)
  BY DEF WellFormed, StoreType
<1>3. t.blocks[n].duration = None
  BY <1>1 DEF NewBlock
<1> HIDE DEF t
<1>4. \A i \in 1 .. n : i \in Idx(s) \/ i = n
  BY <1>2 DEF Idx
<1>5. \A i \in Idx(t) : t.blocks[i].duration # None =>
         i \in Idx(s) /\ t.blocks[i] = s.blocks[i]
  BY <1>1, <1>3, <1>4
<1>6. t.command_start # None => t.command_start < t.next_id
  BY <1>1, <1>2 DEF ClockInv, Option
<1>7. ASSUME NEW i \in Idx(t), t.blocks[i].duration # None
      PROVE  /\ t.blocks[i].duration <= t.blocks[i].id
             /\ t.blocks[i].duration # t.command_start
             /\ \A j \in Idx(t) : t.blocks[j].duration = t.blocks[i].duration => i = j
  BY <1>1, <1>5, <1>7 DEF ClockInv
<1> QED BY <1>6, <1>7 DEF ClockInv, t

(* Filling in the open block, which has no duration, and starting the      *)
(* clock with its id or leaving it.                                        *)
LEMMA FillClock ==
    ASSUME NEW s, WellFormed(s), ClockInv(s), s.open # 0,
           NEW t, t.next_id = s.next_id, Idx(t) = Idx(s), Spares(s, t),
           t.blocks[s.open].id = s.blocks[s.open].id, t.blocks[s.open].duration = None,
           t.command_start \in {s.command_start, s.blocks[s.open].id}
    PROVE  ClockInv(t)
<1>1. \A i \in Idx(s) : i # s.open => t.blocks[i] = s.blocks[i]
  BY DEF Spares
<1>2. /\ s.open \in Idx(s) /\ s.open = Len(s.blocks)
      /\ s.blocks[s.open].id = s.next_id - 1 /\ s.next_id \in Nat
  BY OpenBlock DEF WellFormed, StoreType
<1>3. \A i \in Idx(s) : i # s.open => s.blocks[i].id < s.next_id - 1
  BY <1>2 DEF WellFormed, NumberedUp, StoreType, Idx
<1>4. \A i \in Idx(s) : s.blocks[i] \in Block
  BY DEF WellFormed, StoreType, Idx
<1>5. ASSUME NEW i \in Idx(s), t.blocks[i].duration # None
      PROVE  /\ t.blocks[i].duration <= t.blocks[i].id
             /\ t.blocks[i].duration # t.command_start
             /\ \A j \in Idx(s) : t.blocks[j].duration = t.blocks[i].duration => i = j
  <2>1. i # s.open /\ t.blocks[i] = s.blocks[i]
    BY <1>1, <1>5
  <2>2. /\ s.blocks[i].duration \in 1 .. MaxId /\ s.blocks[i].id \in Nat
        /\ s.blocks[i].duration <= s.blocks[i].id
        /\ s.blocks[i].duration # s.command_start
    BY <1>4, <1>5, <2>1 DEF ClockInv, Block, Option
  <2>3. s.blocks[i].duration # s.blocks[s.open].id
    BY <1>2, <1>3, <2>1, <2>2
  <2>4. \A j \in Idx(s) : t.blocks[j].duration = t.blocks[i].duration => i = j
    BY <1>1, <1>5, <2>1 DEF ClockInv
  <2> QED BY <2>1, <2>2, <2>3, <2>4
<1>6. t.command_start # None => t.command_start < s.next_id
  BY <1>2 DEF ClockInv
<1> QED BY <1>5, <1>6 DEF ClockInv

(* starting a command, when the clock takes the open block's id,           *)
LEMMA StartClock ==
    ASSUME NEW s, WellFormed(s), ClockInv(s), s.open # 0, NEW line, NEW command
    PROVE  ClockInv(Start(s, line, command))
<1> DEFINE b == s.blocks[s.open]
           e == Started(b, line, command)
           bs == [s.blocks EXCEPT ![s.open] = e]
           t == Start(s, line, command)
<1>1. e.id = b.id /\ e.duration = None
  BY OpenBlock DEF Started
<1>2. t = Store(bs, s.next_id, s.open, b.id)
  BY DEF Start
<1> HIDE DEF e
<1>3. /\ Len(bs) = Len(s.blocks) /\ Len(s.blocks) \in Nat /\ bs[s.open] = e
      /\ \A i \in Idx(s) : i # s.open => bs[i] = s.blocks[i]
  BY OpenReplaced
<1> HIDE DEF t, bs
<1>4. t.blocks = bs /\ t.next_id = s.next_id /\ t.open = s.open /\ t.command_start = b.id
  BY <1>2 DEF Store
<1>5. Idx(t) = Idx(s) /\ Spares(s, t) /\ t.blocks[s.open] = e
  BY <1>3, <1>4 DEF Spares, Idx
<1> QED BY <1>1, <1>4, <1>5, FillClock DEF t

(* and output.                                                             *)
LEMMA FeedClock ==
    ASSUME NEW s, WellFormed(s), ClockInv(s), s.open # 0, NEW grid
    PROVE  ClockInv(FeedOpen(s, grid))
<1> DEFINE e == [s.blocks[s.open] EXCEPT !.grid = grid]
           bs == [s.blocks EXCEPT ![s.open] = e]
           t == FeedOpen(s, grid)
<1>1. e.id = s.blocks[s.open].id /\ e.duration = None
  BY OpenBlock DEF Block
<1>2. t = Store(bs, s.next_id, s.open, s.command_start)
  BY DEF FeedOpen
<1> HIDE DEF e
<1>3. /\ Len(bs) = Len(s.blocks) /\ Len(s.blocks) \in Nat /\ bs[s.open] = e
      /\ \A i \in Idx(s) : i # s.open => bs[i] = s.blocks[i]
  BY OpenReplaced
<1> HIDE DEF t, bs
<1>4. t.blocks = bs /\ t.next_id = s.next_id /\ t.open = s.open /\ t.command_start = s.command_start
  BY <1>2 DEF Store
<1>5. Idx(t) = Idx(s) /\ Spares(s, t) /\ t.blocks[s.open] = e
  BY <1>3, <1>4 DEF Spares, Idx
<1> QED BY <1>1, <1>4, <1>5, FillClock DEF t

(* Each step composes these.                                               *)
LEMMA StepClock ==
    ASSUME WellFormed(store), ClockInv(store), [Next]_store
    PROVE  ClockInv(store')
<1>1. CASE PromptShown
  <2>1. PICK line \in Lines : store' = OpenNew(SealWith(store, None, None), line)
    BY <1>1 DEF PromptShown, Precmd
  <2> DEFINE t == SealWith(store, None, None)
  <2>2. WellFormed(t)
    BY SealKeeps DEF Option
  <2>3. ClockInv(t)
    BY SealClock DEF Option
  <2> HIDE DEF t
  <2> QED BY <2>1, <2>2, <2>3, OpenClock DEF t
<1>2. CASE CommandStarts
  <2>1. PICK line \in Lines, command \in Commands :
            store' = Preexec(store, line, command)
    BY <1>2 DEF CommandStarts
  <2>2. CASE store.open = 0
    <3>1. WellFormed(OpenNew(store, line)) /\ OpenNew(store, line).open # 0
      BY <1>2, <2>2, OpenKeeps DEF CommandStarts
    <3>2. ClockInv(OpenNew(store, line))
      BY OpenClock
    <3> QED BY <2>1, <2>2, <3>1, <3>2, StartClock DEF Preexec
  <2>3. CASE store.open # 0
    BY <2>1, <2>3, StartClock DEF Preexec
  <2> QED BY <2>2, <2>3
<1>3. CASE CommandEnds
  <2>1. PICK code \in Codes : store' = Finished(store, code)
    BY <1>3 DEF CommandEnds
  <2> DEFINE t == Store(store.blocks, store.next_id, store.open, None)
             c == store.command_start
  <2>2. /\ WellFormed(t) /\ ClockInv(t) /\ t.next_id = store.next_id
        /\ t.command_start = None /\ Idx(t) = Idx(store) /\ t.blocks = store.blocks
    BY ClockStops, ClockOff DEF Store, Idx
  <2>3. c \in Option(1 .. MaxId)
    BY DEF WellFormed, StoreType
  <2>4. c # None => /\ c < t.next_id /\ c # t.command_start
                    /\ \A i \in Idx(t) : t.blocks[i].duration # c
    BY <2>2 DEF ClockInv
  <2>5. store' = SealWith(t, code, c)
    BY <2>1 DEF Finished
  <2> HIDE DEF t, c
  <2> QED BY <2>2, <2>3, <2>4, <2>5, SealClock
<1>4. CASE OutputArrives
  BY <1>4, FeedClock DEF OutputArrives, OpenGrid
<1>5. CASE HostResets
  BY <1>5 DEF HostResets, Reset, Store, ClockInv, Idx
<1>6. CASE UNCHANGED store
  BY <1>6
<1> QED BY <1>1, <1>2, <1>3, <1>4, <1>5, <1>6 DEF Next

(* A command that was cut off is listed under this number.                 *)
Cut(s, d) == \E j \in Idx(s) : CutOff(s.blocks[j]) /\ s.blocks[j].id = d

(* What a sealed block of s was measured from.                             *)
Measured(s, i) ==
    /\ s.blocks[i].exit_code = None => s.blocks[i].duration = None
    /\ s.blocks[i].command # None /\ s.blocks[i].exit_code # None =>
          s.blocks[i].duration = s.blocks[i].id
    /\ s.blocks[i].command = None /\ s.blocks[i].duration # None =>
          Cut(s, s.blocks[i].duration)

(* A command in the open block has started the clock; a clock that nobody  *)
(* in the open block has started was left by one that was cut off.         *)
OwnClock(s) ==
    /\ s.open # 0 /\ s.blocks[s.open].command # None =>
          s.command_start = s.blocks[s.open].id
    /\ s.command_start # None =>
          \/ s.open # 0 /\ s.blocks[s.open].command # None
          \/ Cut(s, s.command_start)

OwnInv(s) == OwnClock(s) /\ \A i \in Idx(s) : Measured(s, i)

StoreOwn == OwnInv(store)

(* A block that was cut off stays so, whatever happens to the open one;    *)
LEMMA CutStays ==
    ASSUME NEW s, WellFormed(s), NEW t, Idx(s) \subseteq Idx(t), Spares(s, t)
    PROVE  \A d : Cut(s, d) => Cut(t, d)
<1>1. \A j \in Idx(s) : CutOff(s.blocks[j]) => j # s.open /\ t.blocks[j] = s.blocks[j]
  BY DEF WellFormed, OnlyOpenRuns, CutOff, Spares
<1> QED BY <1>1 DEF Cut

(* and what the other blocks were measured from does not change.           *)
LEMMA MeasuredStays ==
    ASSUME NEW s, WellFormed(s), OwnInv(s), NEW t, Idx(s) \subseteq Idx(t), Spares(s, t)
    PROVE  \A i \in Idx(s) : i # s.open => Measured(t, i)
<1>1. \A i \in Idx(s) : i # s.open => t.blocks[i] = s.blocks[i]
  BY DEF Spares
<1>2. \A d : Cut(s, d) => Cut(t, d)
  BY CutStays
<1> QED BY <1>1, <1>2 DEF OwnInv, Measured

(* A prompt cuts off the command of the open block.                        *)
LEMMA CutOwn ==
    ASSUME NEW s, WellFormed(s), OwnInv(s)
    PROVE  OwnInv(SealWith(s, None, None))
<1> DEFINE t == SealWith(s, None, None)
<1>1. /\ t.open = 0 /\ t.command_start = s.command_start
      /\ Idx(t) = Idx(s) /\ Spares(s, t)
      /\ s.open # 0 => t.blocks[s.open] = Sealed(s.blocks[s.open], None, None)
  BY SealTouches
<1> HIDE DEF t
<1>2. \A i \in Idx(s) : i # s.open => Measured(t, i)
  BY <1>1, MeasuredStays
<1>3. CASE s.open = 0
  <2>1. s.command_start # None => Cut(t, s.command_start)
    BY <1>1, <1>3, CutStays DEF OwnInv, OwnClock
  <2> QED BY <1>1, <1>2, <1>3, <2>1 DEF OwnInv, OwnClock, Idx, t
<1>4. CASE s.open # 0
  <2>1. /\ s.open \in Idx(s)
        /\ t.blocks[s.open].id = s.blocks[s.open].id
        /\ t.blocks[s.open].command = s.blocks[s.open].command
        /\ ~t.blocks[s.open].running
        /\ t.blocks[s.open].exit_code = None /\ t.blocks[s.open].duration = None
    BY <1>1, <1>4, OpenBlock DEF Sealed
  <2>2. Measured(t, s.open)
    BY <2>1 DEF Measured
  <2>3. s.blocks[s.open].command # None => Cut(t, s.blocks[s.open].id)
    BY <1>1, <2>1 DEF Cut, CutOff
  <2>4. s.command_start # None => Cut(t, s.command_start)
    BY <1>1, <1>4, <2>3, CutStays DEF OwnInv, OwnClock
  <2> QED BY <1>1, <1>2, <2>2, <2>4 DEF OwnInv, OwnClock, t
<1> QED BY <1>3, <1>4

(* A block that opens has no command and no duration.                      *)
LEMMA OpenOwn ==
    ASSUME NEW s, WellFormed(s), OwnInv(s), s.open = 0, NEW line
    PROVE  OwnInv(OpenNew(s, line))
<1> DEFINE t == OpenNew(s, line)
           n == Len(s.blocks) + 1
<1>1. /\ t.command_start = s.command_start /\ t.open = n
      /\ Idx(t) = 1 .. n /\ Len(t.blocks) = n
      /\ \A i \in Idx(s) : t.blocks[i] = s.blocks[i]
      /\ t.blocks[n] = NewBlock(s.next_id, line)
  BY OpenTouches
<1>2. Len(s.blocks) \in Nat
  BY DEF WellFormed, StoreType
<1> HIDE DEF t
<1>3. Idx(s) \subseteq Idx(t) /\ Spares(s, t) /\ \A i \in Idx(t) : i \in Idx(s) \/ i = n
  BY <1>1, <1>2 DEF Idx, Spares
<1>4. \A i \in Idx(s) : Measured(t, i)
  BY <1>3, MeasuredStays DEF Idx
<1>5. Measured(t, n) /\ t.blocks[t.open].command = None
  BY <1>1 DEF Measured, NewBlock
<1>6. s.command_start # None => Cut(t, s.command_start)
  BY <1>3, CutStays DEF OwnInv, OwnClock
<1> QED BY <1>1, <1>3, <1>4, <1>5, <1>6 DEF OwnInv, OwnClock, t

(* Filling in the open block, which has no result, with a command that     *)
(* starts the clock or with output.                                        *)
LEMMA FillOwn ==
    ASSUME NEW s, WellFormed(s), OwnInv(s), s.open # 0,
           NEW t, Idx(t) = Idx(s), Spares(s, t), t.open = s.open,
           t.blocks[s.open].id = s.blocks[s.open].id,
           t.blocks[s.open].exit_code = None, t.blocks[s.open].duration = None,
           \/ /\ t.command_start = s.blocks[s.open].id
              /\ t.blocks[s.open].command # None
           \/ /\ t.command_start = s.command_start
              /\ t.blocks[s.open].command = s.blocks[s.open].command
    PROVE  OwnInv(t)
<1>1. \A i \in Idx(s) : i # s.open => Measured(t, i)
  BY MeasuredStays
<1>2. Measured(t, s.open)
  BY DEF Measured
<1>3. \A d : Cut(s, d) => Cut(t, d)
  BY CutStays
<1>4. OwnClock(t)
  BY <1>3 DEF OwnInv, OwnClock
<1> QED BY <1>1, <1>2, <1>4 DEF OwnInv

(* A command that starts,                                                  *)
LEMMA StartOwn ==
    ASSUME NEW s, WellFormed(s), OwnInv(s), s.open # 0, NEW line, NEW command,
           command # None
    PROVE  OwnInv(Start(s, line, command))
<1> DEFINE b == s.blocks[s.open]
           e == Started(b, line, command)
           bs == [s.blocks EXCEPT ![s.open] = e]
           t == Start(s, line, command)
<1>1. e.id = b.id /\ e.duration = None /\ e.exit_code = None /\ e.command = command
  BY OpenBlock DEF Started
<1>2. t = Store(bs, s.next_id, s.open, b.id)
  BY DEF Start
<1> HIDE DEF e
<1>3. /\ Len(bs) = Len(s.blocks) /\ Len(s.blocks) \in Nat /\ bs[s.open] = e
      /\ \A i \in Idx(s) : i # s.open => bs[i] = s.blocks[i]
  BY OpenReplaced
<1> HIDE DEF t, bs
<1>4. t.blocks = bs /\ t.next_id = s.next_id /\ t.open = s.open /\ t.command_start = b.id
  BY <1>2 DEF Store
<1>5. Idx(t) = Idx(s) /\ Spares(s, t) /\ t.blocks[s.open] = e
  BY <1>3, <1>4 DEF Spares, Idx
<1> QED BY <1>1, <1>4, <1>5, FillOwn DEF t

(* and output.                                                             *)
LEMMA FeedOwn ==
    ASSUME NEW s, WellFormed(s), OwnInv(s), s.open # 0, NEW grid
    PROVE  OwnInv(FeedOpen(s, grid))
<1> DEFINE e == [s.blocks[s.open] EXCEPT !.grid = grid]
           bs == [s.blocks EXCEPT ![s.open] = e]
           t == FeedOpen(s, grid)
<1>1. /\ e.id = s.blocks[s.open].id /\ e.command = s.blocks[s.open].command
      /\ e.duration = None /\ e.exit_code = None
  BY OpenBlock DEF Block
<1>2. t = Store(bs, s.next_id, s.open, s.command_start)
  BY DEF FeedOpen
<1> HIDE DEF e
<1>3. /\ Len(bs) = Len(s.blocks) /\ Len(s.blocks) \in Nat /\ bs[s.open] = e
      /\ \A i \in Idx(s) : i # s.open => bs[i] = s.blocks[i]
  BY OpenReplaced
<1> HIDE DEF t, bs
<1>4. t.blocks = bs /\ t.next_id = s.next_id /\ t.open = s.open /\ t.command_start = s.command_start
  BY <1>2 DEF Store
<1>5. Idx(t) = Idx(s) /\ Spares(s, t) /\ t.blocks[s.open] = e
  BY <1>3, <1>4 DEF Spares, Idx
<1> QED BY <1>1, <1>4, <1>5, FillOwn DEF t

(* An end takes the clock, for the command that started it if there is one.*)
LEMMA FinishOwn ==
    ASSUME NEW s, WellFormed(s), OwnInv(s), NEW code, code # None
    PROVE  OwnInv(Finished(s, code))
<1> DEFINE q == Store(s.blocks, s.next_id, s.open, None)
           t == Finished(s, code)
<1>1. /\ WellFormed(q) /\ q.blocks = s.blocks /\ q.open = s.open
      /\ q.command_start = None /\ Idx(q) = Idx(s)
  BY ClockStops DEF Store, Idx
<1>2. t = SealWith(q, code, s.command_start)
  BY DEF Finished
<1> HIDE DEF q, t
<1>3. /\ t.open = 0 /\ t.command_start = None /\ Idx(t) = Idx(s) /\ Spares(q, t)
      /\ s.open # 0 => t.blocks[s.open] = Sealed(s.blocks[s.open], code, s.command_start)
  BY <1>1, <1>2, SealTouches
<1>4. Spares(s, t)
  BY <1>1, <1>3 DEF Spares
<1>5. \A i \in Idx(s) : i # s.open => Measured(t, i)
  BY <1>3, <1>4, MeasuredStays
<1>6. ASSUME s.open # 0 PROVE Measured(t, s.open)
  <2>1. /\ t.blocks[s.open].command = s.blocks[s.open].command
        /\ t.blocks[s.open].id = s.blocks[s.open].id
        /\ t.blocks[s.open].exit_code = code
        /\ t.blocks[s.open].duration = s.command_start
    BY <1>3, <1>6 DEF Sealed
  <2>2. s.blocks[s.open].command # None => s.command_start = s.blocks[s.open].id
    BY <1>6 DEF OwnInv, OwnClock
  <2>3. s.blocks[s.open].command = None /\ s.command_start # None => Cut(t, s.command_start)
    BY <1>3, <1>4, CutStays DEF OwnInv, OwnClock
  <2> QED BY <2>1, <2>2, <2>3 DEF Measured
<1>7. \A i \in Idx(s) : Measured(t, i)
  BY <1>5, <1>6 DEF Idx
<1> QED BY <1>3, <1>7 DEF OwnInv, OwnClock, t

(* Each step composes these.                                               *)
LEMMA StepOwn ==
    ASSUME WellFormed(store), OwnInv(store), [Next]_store
    PROVE  OwnInv(store')
<1>1. CASE PromptShown
  <2>1. PICK line \in Lines : store' = OpenNew(SealWith(store, None, None), line)
    BY <1>1 DEF PromptShown, Precmd
  <2> DEFINE t == SealWith(store, None, None)
  <2>2. WellFormed(t) /\ t.open = 0
    BY SealKeeps, SealTouches DEF Option
  <2>3. OwnInv(t)
    BY CutOwn
  <2> HIDE DEF t
  <2> QED BY <2>1, <2>2, <2>3, OpenOwn DEF t
<1>2. CASE CommandStarts
  <2>1. PICK line \in Lines, command \in Commands :
            store' = Preexec(store, line, command)
    BY <1>2 DEF CommandStarts
  <2>2. command # None
    BY BlockStoreAssumption
  <2>3. CASE store.open = 0
    <3>1. WellFormed(OpenNew(store, line)) /\ OpenNew(store, line).open # 0
      BY <1>2, <2>3, OpenKeeps DEF CommandStarts
    <3>2. OwnInv(OpenNew(store, line))
      BY <2>3, OpenOwn
    <3> QED BY <2>1, <2>2, <2>3, <3>1, <3>2, StartOwn DEF Preexec
  <2>4. CASE store.open # 0
    BY <2>1, <2>2, <2>4, StartOwn DEF Preexec
  <2> QED BY <2>3, <2>4
<1>3. CASE CommandEnds
  BY <1>3, FinishOwn, BlockStoreAssumption DEF CommandEnds
<1>4. CASE OutputArrives
  BY <1>4, FeedOwn DEF OutputArrives, OpenGrid
<1>5. CASE HostResets
  BY <1>5 DEF HostResets, Reset, Store, OwnInv, OwnClock, Idx
<1>6. CASE UNCHANGED store
  BY <1>6
<1> QED BY <1>1, <1>2, <1>3, <1>4, <1>5, <1>6 DEF Next

(* A finished command is timed from its own Preexec, a block that was cut  *)
(* off has no duration, and one without a command measures at most from a  *)
(* command that was cut off; each Preexec is measured from once.           *)
THEOREM DurationsAreOwn == Spec => []DurationsOwn
<1>1. Init => StoreClock /\ StoreOwn
  BY DEF Init, EmptyStore, Store, StoreClock, ClockInv, StoreOwn, OwnInv, OwnClock, Idx
<1>2. StoreWellFormed /\ StoreClock /\ StoreOwn /\ [Next]_store => StoreClock' /\ StoreOwn'
  BY StepClock, StepOwn DEF StoreWellFormed, StoreClock, StoreOwn
<1>3. StoreWellFormed /\ StoreClock /\ StoreOwn => DurationsOwn
  <2>1. StoreWellFormed => DOMAIN store.blocks = Idx(store)
    BY DEF StoreWellFormed, WellFormed, StoreType, Idx
  <2> QED BY <2>1 DEF StoreClock, ClockInv, StoreOwn, OwnInv, Measured, Cut, DurationsOwn
<1> QED BY <1>1, <1>2, <1>3, AlwaysWellFormed, PTL DEF Spec

=============================================================================
