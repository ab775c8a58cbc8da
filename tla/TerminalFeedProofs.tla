------------------------- MODULE TerminalFeedProofs -------------------------
EXTENDS TerminalFeed, SeqFoldsTheorems

(***************************************************************************)
(* What is proved of TerminalFeed: the inductive invariant TerminalInv and *)
(* the five properties that follow from it.                                *)
(*                                                                         *)
(* The stream itself says, token by token, where it is: outside of frames, *)
(* inside an escape sequence or inside a frame, which command runs, and    *)
(* which blocks there are when each frame is applied at its end (Says,     *)
(* ReadTo).  The shell writes legal streams only.  The sniffer's parser is *)
(* where the stream is, or one backslash ahead of it inside a chunk        *)
(* (Followed).  Through the loop over the events of a chunk the terminal   *)
(* is where the stream was at the loop's cursor (Looped, Reached): its     *)
(* blocks are those of the stream (Same), they show and captured what      *)
(* their commands wrote (Faithful, CapturedTo).  At the end of the chunk   *)
(* it is where the stream is, which is what the next call starts from.     *)
(***************************************************************************)

(* The places of a VT parser that the streams of the shell reach.          *)
Parsers == {"ground", "esc", "dcs"}

(* Tokens have a kind and a command.                                       *)
LEMMA TokenParts ==
    ASSUME NEW token \in Tokens
    PROVE  /\ token.kind \in Hooks \cup Visible \cup {"esc", "backslash", "st", "on", "off"}
           /\ token.of \in Nat
BY DEF Tokens

(* A parser moves between these places.                                    *)
LEMMA NextParserType ==
    ASSUME NEW parser \in Parsers, NEW kind
    PROVE  NextParser(parser, kind) \in Parsers
BY DEF NextParser, Parsers

(* A terminal fed one token is a terminal.                                 *)
LEMMA AdvanceType ==
    ASSUME NEW term \in Screens, NEW token \in Tokens
    PROVE  Advance(term, token) \in Screens
<1>1. /\ term.parser \in Parsers /\ term.alt \in BOOLEAN
      /\ term.text \in Seq(Tokens) /\ term.output \in Seq(Tokens)
      /\ term = [parser |-> term.parser, alt |-> term.alt, text |-> term.text,
                 output |-> term.output]
  BY DEF Screens, Parsers
<1>2. NextParser(term.parser, token.kind) \in Parsers
  BY <1>1, NextParserType
<1>3. Append(term.text, token) \in Seq(Tokens)
  BY <1>1, AppendProperties
<1> QED BY <1>1, <1>2, <1>3 DEF Advance, Screens, Parsers

(* What is fed to a terminal is fed token by token.                        *)
LEMMA FeedTermFold ==
    ASSUME NEW term \in Screens
    PROVE  /\ FeedTerm(term, << >>) = term
           /\ \A s \in Seq(Tokens) : FeedTerm(term, s) \in Screens
           /\ \A s \in Seq(Tokens), e \in Tokens : FeedTerm(term, Append(s, e)) = Advance(FeedTerm(term, s), e)
<1> DEFINE F == [p \in Screens \X Tokens |-> Advance(p[1], p[2])]
<1>1. \A a \in Screens, e \in Tokens : F[<<a, e>>] = Advance(a, e) /\ F[<<a, e>>] \in Screens
  BY AdvanceType
<1> HIDE DEF F
<1>3. PICK G : FoldOf(G, F, term, Tokens, Screens)
  <2>1. \A a \in Screens, e \in Tokens : F[<<a, e>>] \in Screens
    BY <1>1
  <2> QED BY <2>1, FoldExists
<1>4. ASSUME NEW s \in Seq(Tokens) PROVE FeedTerm(term, s) = G[s]
  <2> DEFINE n == Len(s)
             v == TableOf(G, s)
             Good(u) == u = [i \in 0 .. n |-> IF i = 0 THEN term ELSE Advance(u[i - 1], s[i])]
             t == CHOOSE u : Good(u)
  <2>1. FeedTerm(term, s) = t[n]
    BY DEF FeedTerm, Through
  <2>2. n \in Nat /\ \A i \in 1 .. n : s[i] \in Tokens
    BY LenProperties, ElementOfSeq
  <2>3. Good(v)
    <3>1. RunsOver(v, F, term, Tokens, Screens, s)
      BY <1>3, FoldTable
    <3>2. v = [i \in 0 .. n |-> v[i]]
      BY DEF TableOf
    <3>3. ASSUME NEW i \in 0 .. n PROVE v[i] = IF i = 0 THEN term ELSE Advance(v[i - 1], s[i])
      <4> HIDE DEF v
      <4>1. CASE i = 0
        BY <3>1, <4>1 DEF RunsOver
      <4>2. CASE i # 0
        <5>1. i \in 1 .. n
          BY <2>2, <4>2
        <5>2. v[i - 1] \in Screens /\ s[i] \in Tokens /\ v[i] = F[<<v[i - 1], s[i]>>]
          BY <3>1, <5>1 DEF RunsOver
        <5> QED BY <1>1, <4>2, <5>2
      <4> QED BY <4>1, <4>2
    <3> HIDE DEF v
    <3> QED BY <3>2, <3>3
  <2>4. Good(t)
    <3> HIDE DEF Good
    <3> QED BY <2>3
  <2> HIDE DEF t, v
  <2>5. t[0] = term /\ \A i \in 1 .. n : t[i] = Advance(t[i - 1], s[i])
    <3>1. \A i \in 0 .. n : t[i] = IF i = 0 THEN term ELSE Advance(t[i - 1], s[i])
      BY <2>4
    <3> HIDE DEF n
    <3> QED BY <2>2, <3>1
  <2>6. FollowsSteps(t, F, term, s, Screens)
    BY <1>1, <2>2, <2>5 DEF FollowsSteps
  <2>7. EndsIn(t, s, G)
    BY <1>3, <2>6, FoldUnique
  <2> QED BY <2>1, <2>7 DEF EndsIn
<1>5. << >> \in Seq(Tokens) /\ \A s \in Seq(Tokens), e \in Tokens : Append(s, e) \in Seq(Tokens)
  BY EmptySeq, AppendProperties
<1>6. FeedTerm(term, << >>) = term
  BY <1>3, <1>4, <1>5 DEF FoldOf
<1>7. ASSUME NEW s \in Seq(Tokens) PROVE FeedTerm(term, s) \in Screens
  BY <1>3, <1>4 DEF FoldOf
<1>8. ASSUME NEW s \in Seq(Tokens), NEW e \in Tokens PROVE FeedTerm(term, Append(s, e)) = Advance(FeedTerm(term, s), e)
  <2>1. FeedTerm(term, Append(s, e)) = G[Append(s, e)] /\ FeedTerm(term, s) = G[s]
    BY <1>4, <1>5
  <2>2. G[Append(s, e)] = F[<<G[s], e>>] /\ G[s] \in Screens
    BY <1>3 DEF FoldOf
  <2> QED BY <1>1, <2>1, <2>2
<1> QED BY <1>6, <1>7, <1>8

(* The capture of one token is a capture.                                  *)
LEMMA AppendOneType ==
    ASSUME NEW out \in Seq(Tokens), NEW token \in Tokens
    PROVE  AppendOne(out, token) \in Seq(Tokens)
BY AppendProperties DEF AppendOne

(* Capturing goes token by token.                                          *)
LEMMA AppendCappedFold ==
    ASSUME NEW output \in Seq(Tokens)
    PROVE  /\ AppendCapped(output, << >>) = output
           /\ \A s \in Seq(Tokens) : AppendCapped(output, s) \in Seq(Tokens)
           /\ \A s \in Seq(Tokens), e \in Tokens : AppendCapped(output, Append(s, e)) = AppendOne(AppendCapped(output, s), e)
<1> DEFINE F == [p \in Seq(Tokens) \X Tokens |-> AppendOne(p[1], p[2])]
<1>1. \A a \in Seq(Tokens), e \in Tokens : F[<<a, e>>] = AppendOne(a, e) /\ F[<<a, e>>] \in Seq(Tokens)
  BY AppendOneType
<1> HIDE DEF F
<1>3. PICK G : FoldOf(G, F, output, Tokens, Seq(Tokens))
  <2>1. \A a \in Seq(Tokens), e \in Tokens : F[<<a, e>>] \in Seq(Tokens)
    BY <1>1
  <2> QED BY <2>1, FoldExists
<1>4. ASSUME NEW s \in Seq(Tokens) PROVE AppendCapped(output, s) = G[s]
  <2> DEFINE n == Len(s)
             v == TableOf(G, s)
             Good(u) == u = [i \in 0 .. n |-> IF i = 0 THEN output ELSE AppendOne(u[i - 1], s[i])]
             t == CHOOSE u : Good(u)
  <2>1. AppendCapped(output, s) = t[n]
    BY DEF AppendCapped, Through
  <2>2. n \in Nat /\ \A i \in 1 .. n : s[i] \in Tokens
    BY LenProperties, ElementOfSeq
  <2>3. Good(v)
    <3>1. RunsOver(v, F, output, Tokens, Seq(Tokens), s)
      BY <1>3, FoldTable
    <3>2. v = [i \in 0 .. n |-> v[i]]
      BY DEF TableOf
    <3>3. ASSUME NEW i \in 0 .. n PROVE v[i] = IF i = 0 THEN output ELSE AppendOne(v[i - 1], s[i])
      <4> HIDE DEF v
      <4>1. CASE i = 0
        BY <3>1, <4>1 DEF RunsOver
      <4>2. CASE i # 0
        <5>1. i \in 1 .. n
          BY <2>2, <4>2
        <5>2. v[i - 1] \in Seq(Tokens) /\ s[i] \in Tokens /\ v[i] = F[<<v[i - 1], s[i]>>]
          BY <3>1, <5>1 DEF RunsOver
        <5> QED BY <1>1, <4>2, <5>2
      <4> QED BY <4>1, <4>2
    <3> HIDE DEF v
    <3> QED BY <3>2, <3>3
  <2>4. Good(t)
    <3> HIDE DEF Good
    <3> QED BY <2>3
  <2> HIDE DEF t, v
  <2>5. t[0] = output /\ \A i \in 1 .. n : t[i] = AppendOne(t[i - 1], s[i])
    <3>1. \A i \in 0 .. n : t[i] = IF i = 0 THEN output ELSE AppendOne(t[i - 1], s[i])
      BY <2>4
    <3> HIDE DEF n
    <3> QED BY <2>2, <3>1
  <2>6. FollowsSteps(t, F, output, s, Seq(Tokens))
    BY <1>1, <2>2, <2>5 DEF FollowsSteps
  <2>7. EndsIn(t, s, G)
    BY <1>3, <2>6, FoldUnique
  <2> QED BY <2>1, <2>7 DEF EndsIn
<1>5. << >> \in Seq(Tokens) /\ \A s \in Seq(Tokens), e \in Tokens : Append(s, e) \in Seq(Tokens)
  BY EmptySeq, AppendProperties
<1>6. AppendCapped(output, << >>) = output
  BY <1>3, <1>4, <1>5 DEF FoldOf
<1>7. ASSUME NEW s \in Seq(Tokens) PROVE AppendCapped(output, s) \in Seq(Tokens)
  BY <1>3, <1>4 DEF FoldOf
<1>8. ASSUME NEW s \in Seq(Tokens), NEW e \in Tokens PROVE AppendCapped(output, Append(s, e)) = AppendOne(AppendCapped(output, s), e)
  <2>1. AppendCapped(output, Append(s, e)) = G[Append(s, e)] /\ AppendCapped(output, s) = G[s]
    BY <1>4, <1>5
  <2>2. G[Append(s, e)] = F[<<G[s], e>>] /\ G[s] \in Seq(Tokens)
    BY <1>3 DEF FoldOf
  <2> QED BY <1>1, <2>1, <2>2
<1> QED BY <1>6, <1>7, <1>8

(* A store and its blocks, whatever was fed to the grids.                  *)
Block ==
    [id : Nat, command : Nat \cup {None}, start_line : {"block", "global"},
     running : BOOLEAN, grid : Screens \cup {None}, frozen : Screens \cup {None},
     exit_code : Nat \cup {None}, duration : Nat \cup {None}]

Stores ==
    {s \in [blocks : Seq(Block), next_id : Nat, open : Nat,
            command_start : Nat \cup {None}] : s.open <= Len(s.blocks)}

Heads == [kind : Hooks, of : Nat]

-----------------------------------------------------------------------------
(* Types of the operations on a store.                                     *)

(* The fields of a store, and that the open block is one of its blocks.    *)
LEMMA StoreParts ==
    ASSUME NEW s \in Stores
    PROVE  /\ s.blocks \in Seq(Block) /\ Len(s.blocks) \in Nat /\ s.next_id \in Nat
           /\ s.open \in Nat /\ s.open <= Len(s.blocks)
           /\ s.command_start \in Nat \cup {None}
           /\ \A i \in 1 .. Len(s.blocks) : s.blocks[i] \in Block
           /\ DOMAIN s.blocks = 1 .. Len(s.blocks)
<1>1. s.blocks \in Seq(Block)
  BY DEF Stores
<1> QED BY <1>1, LenProperties, ElementOfSeq DEF Stores

(* What Store builds from fields of the right types is a store.            *)
LEMMA StoreIsStore ==
    ASSUME NEW blocks \in Seq(Block), NEW next_id \in Nat, NEW open \in Nat,
           NEW start \in Nat \cup {None}, open <= Len(blocks)
    PROVE  Store(blocks, next_id, open, start) \in Stores
BY DEF Store, Stores

(* A new terminal is a terminal.                                           *)
LEMMA FreshType == NewTerm \in Screens
BY EmptySeq DEF NewTerm, Screens

(* The store the terminal starts with is a store.                          *)
LEMMA EmptyStoreType == EmptyStore \in Stores
<1> DEFINE none == << >>
<1>1. none \in Seq(Block) /\ Len(none) = 0
  BY EmptySeq
<1> HIDE DEF none
<1>2. Store(none, 1, 0, None) \in Stores
  BY <1>1 DEF Store, Stores
<1> QED BY <1>2 DEF EmptyStore, none

(* Opening a block appends it, opens it and leaves the others alone.       *)
LEMMA OpenNewType ==
    ASSUME NEW s \in Stores, NEW line \in {"block", "global"}
    PROVE  /\ OpenNew(s, line) \in Stores
           /\ OpenNew(s, line).open = Len(s.blocks) + 1
           /\ OpenNew(s, line).next_id = s.next_id + 1
           /\ OpenNew(s, line).command_start = s.command_start
           /\ Len(OpenNew(s, line).blocks) = Len(s.blocks) + 1
           /\ OpenNew(s, line).blocks[Len(s.blocks) + 1] = NewBlock(s.next_id, line)
           /\ \A i \in 1 .. Len(s.blocks) : OpenNew(s, line).blocks[i] = s.blocks[i]
<1> DEFINE b == NewBlock(s.next_id, line)
           bs == Append(s.blocks, b)
<1>1. b \in Block
  BY StoreParts DEF NewBlock, Block
<1>2. OpenNew(s, line) = Store(bs, s.next_id + 1, Len(s.blocks) + 1, s.command_start)
  BY DEF OpenNew
<1> HIDE DEF b
<1>3. /\ bs \in Seq(Block) /\ Len(bs) = Len(s.blocks) + 1 /\ bs[Len(s.blocks) + 1] = b
      /\ \A i \in 1 .. Len(s.blocks) : bs[i] = s.blocks[i]
  BY <1>1, StoreParts, AppendProperties
<1> HIDE DEF bs
<1>4. OpenNew(s, line) \in Stores
  <2>1. /\ s.next_id + 1 \in Nat /\ Len(s.blocks) + 1 \in Nat
        /\ Len(s.blocks) + 1 <= Len(bs) /\ s.command_start \in Nat \cup {None}
    BY <1>3, StoreParts
  <2>2. Store(bs, s.next_id + 1, Len(s.blocks) + 1, s.command_start) \in Stores
    BY <1>3, <2>1, StoreIsStore
  <2> QED BY <1>2, <2>2
<1>5. /\ OpenNew(s, line).blocks = bs /\ OpenNew(s, line).open = Len(s.blocks) + 1
      /\ OpenNew(s, line).next_id = s.next_id + 1
      /\ OpenNew(s, line).command_start = s.command_start
  BY <1>2 DEF Store
<1> QED BY <1>3, <1>4, <1>5 DEF b

(* A block replaced in place.                                              *)
Put(s, b, next_id, open, start) ==
    Store([s.blocks EXCEPT ![s.open] = b], next_id, open, start)

(* Replacing the open block leaves the others alone.                       *)
LEMMA PutParts ==
    ASSUME NEW s \in Stores, s.open # 0, NEW b \in Block,
           NEW open, NEW start, NEW next_id
    PROVE  /\ Put(s, b, next_id, open, start).open = open
           /\ Put(s, b, next_id, open, start).next_id = next_id
           /\ Put(s, b, next_id, open, start).command_start = start
           /\ Put(s, b, next_id, open, start).blocks \in Seq(Block)
           /\ Len(Put(s, b, next_id, open, start).blocks) = Len(s.blocks)
           /\ Put(s, b, next_id, open, start).blocks[s.open] = b
           /\ \A i \in 1 .. Len(s.blocks) : i # s.open =>
                  Put(s, b, next_id, open, start).blocks[i] = s.blocks[i]
<1> DEFINE bs == [s.blocks EXCEPT ![s.open] = b]
           t == Put(s, b, next_id, open, start)
<1>1. s.open \in 1 .. Len(s.blocks) /\ s.blocks \in Seq(Block)
  BY StoreParts
<1>2. /\ bs \in Seq(Block) /\ Len(bs) = Len(s.blocks)
      /\ \A i \in 1 .. Len(s.blocks) : bs[i] = IF i = s.open THEN b ELSE s.blocks[i]
  BY <1>1, ExceptSeq
<1>4. t.blocks = bs /\ t.open = open /\ t.next_id = next_id /\ t.command_start = start
  BY DEF Store, Put
<1> HIDE DEF bs, t
<1>5. t.blocks[s.open] = b
  BY <1>1, <1>2, <1>4
<1>6. \A i \in 1 .. Len(s.blocks) : i # s.open => t.blocks[i] = s.blocks[i]
  BY <1>2, <1>4
<1> QED BY <1>2, <1>4, <1>5, <1>6 DEF t

(* Replacing the open block makes a store.                                 *)
LEMMA PutType ==
    ASSUME NEW s \in Stores, s.open # 0, NEW b \in Block,
           NEW open \in Nat, open <= Len(s.blocks), NEW start \in Nat \cup {None},
           NEW next_id \in Nat
    PROVE  Put(s, b, next_id, open, start) \in Stores
<1> DEFINE bs == [s.blocks EXCEPT ![s.open] = b]
<1>1. s.open \in 1 .. Len(s.blocks) /\ s.blocks \in Seq(Block)
  BY StoreParts
<1>2. bs \in Seq(Block) /\ Len(bs) = Len(s.blocks)
  BY <1>1, ExceptSeq
<1>3. Put(s, b, next_id, open, start) = Store(bs, next_id, open, start)
  BY DEF Put
<1> HIDE DEF bs
<1> QED BY <1>2, <1>3, StoreIsStore

(* Sealing the open block makes a store.                                   *)
LEMMA SealType ==
    ASSUME NEW s \in Stores, NEW code \in Nat \cup {None}, NEW duration \in Nat \cup {None}
    PROVE  SealWith(s, code, duration) \in Stores
<1>1. CASE s.open = 0 \/ ~s.blocks[s.open].running
  BY <1>1 DEF SealWith
<1>2. CASE ~(s.open = 0 \/ ~s.blocks[s.open].running)
  <2> DEFINE e == Sealed(s.blocks[s.open], code, duration)
  <2>1. s.blocks[s.open] \in Block
    BY <1>2, StoreParts
  <2>2. e \in Block
    BY <2>1 DEF Sealed, Block
  <2>3. SealWith(s, code, duration) =
            Put(s, e, s.next_id, 0, s.command_start)
    BY <1>2 DEF SealWith, Put
  <2>4. /\ 0 <= Len(s.blocks) /\ s.next_id \in Nat
        /\ s.command_start \in Nat \cup {None}
    BY StoreParts
  <2> HIDE DEF e
  <2>5. Put(s, e, s.next_id, 0, s.command_start) \in Stores
    BY <1>2, <2>2, <2>4, PutType
  <2> QED BY <2>3, <2>5
<1> QED BY <1>1, <1>2

(* Starting a command in the open block makes a store.                     *)
LEMMA StartType ==
    ASSUME NEW s \in Stores, s.open # 0, NEW line \in {"block", "global"}, NEW command \in Nat
    PROVE  Start(s, line, command) \in Stores
<1> DEFINE b == s.blocks[s.open]
           e == Started(b, line, command)
<1>1. b \in Block
  BY StoreParts
<1>2. e \in Block /\ b.id \in Nat
  BY <1>1, FreshType DEF Started, Block
<1>3. Start(s, line, command) =
          Put(s, e, s.next_id, s.open, b.id)
  BY DEF Start, Put
<1>4. s.open \in Nat /\ s.open <= Len(s.blocks) /\ s.next_id \in Nat
  BY StoreParts
<1> HIDE DEF b, e
<1>5. Put(s, e, s.next_id, s.open, b.id) \in Stores
  BY <1>2, <1>4, PutType
<1> QED BY <1>3, <1>5

(* Applying any event makes a store.                                       *)
LEMMA ApplyType ==
    ASSUME NEW s \in Stores, NEW event \in Heads
    PROVE  Apply(s, event) \in Stores
<1> DEFINE line == SampledLine(s)
<1>0. line \in {"block", "global"}
  BY DEF SampledLine
<1>1. event.kind \in Hooks /\ event.of \in Nat
  BY DEF Heads
<1> HIDE DEF line
<1>2. CASE event.kind = "precmd"
  <2>1. Apply(s, event) = OpenNew(SealWith(s, None, None), line)
    BY <1>2 DEF Apply, Precmd, line
  <2>2. SealWith(s, None, None) \in Stores
    BY SealType
  <2> QED BY <1>0, <2>1, <2>2, OpenNewType
<1>3. CASE event.kind = "preexec"
  <2> DEFINE opened == IF s.open = 0 THEN OpenNew(s, line) ELSE s
  <2>1. Apply(s, event) = Start(opened, line, event.of)
    BY <1>3 DEF Apply, Preexec, line
  <2>2. opened \in Stores /\ opened.open # 0
    BY <1>0, OpenNewType, StoreParts
  <2> HIDE DEF opened
  <2> QED BY <1>0, <1>1, <2>1, <2>2, StartType
<1>4. CASE event.kind = "finished"
  <2> DEFINE taken == Store(s.blocks, s.next_id, s.open, None)
  <2>1. Apply(s, event) = SealWith(taken, event.of, s.command_start)
    BY <1>4 DEF Apply, Finished
  <2>2. taken \in Stores
    BY StoreParts, StoreIsStore
  <2> HIDE DEF taken
  <2> QED BY <1>1, <2>1, <2>2, StoreParts, SealType
<1> QED BY <1>1, <1>2, <1>3, <1>4 DEF Hooks

(* Stores that are the same up to what the grids hold.                     *)
Like(b, c) ==
    /\ b.id = c.id /\ b.command = c.command /\ b.start_line = c.start_line
    /\ b.running = c.running /\ b.exit_code = c.exit_code /\ b.duration = c.duration
    /\ (b.grid = None <=> c.grid = None) /\ (b.frozen = None <=> c.frozen = None)

(* The stores agree but for the contents of the grids.                     *)
Same(s, u) ==
    /\ s.next_id = u.next_id /\ s.open = u.open /\ s.command_start = u.command_start
    /\ Len(s.blocks) = Len(u.blocks)
    /\ \A i \in 1 .. Len(s.blocks) : Like(s.blocks[i], u.blocks[i])

(* Such stores sample the same start line.                                 *)
LEMMA SameLine ==
    ASSUME NEW s \in Stores, NEW u \in Stores, Same(s, u)
    PROVE  SampledLine(s) = SampledLine(u)
<1>1. DOMAIN s.blocks = 1 .. Len(s.blocks) /\ DOMAIN u.blocks = 1 .. Len(s.blocks)
  BY StoreParts DEF Same
<1>2. ASSUME NEW i \in 1 .. Len(s.blocks)
      PROVE  /\ s.blocks[i].running = u.blocks[i].running
             /\ s.blocks[i].grid = None <=> u.blocks[i].grid = None
  BY DEF Same, Like
<1>3. (\E i \in DOMAIN s.blocks : s.blocks[i].running /\ s.blocks[i].grid # None)
      <=> (\E i \in DOMAIN u.blocks : u.blocks[i].running /\ u.blocks[i].grid # None)
  BY <1>1, <1>2
<1> QED BY <1>3 DEF SampledLine

(* Replacing their open blocks by like blocks keeps them the same.         *)
LEMMA SamePut ==
    ASSUME NEW s \in Stores, NEW u \in Stores, Same(s, u), s.open # 0,
           NEW b \in Block, NEW c \in Block, Like(b, c),
           NEW next_id, NEW open, NEW start
    PROVE  Same(Put(s, b, next_id, open, start), Put(u, c, next_id, open, start))
<1> DEFINE t == Put(s, b, next_id, open, start)
           v == Put(u, c, next_id, open, start)
<1>1. /\ t.next_id = next_id /\ t.open = open /\ t.command_start = start
      /\ Len(t.blocks) = Len(s.blocks) /\ t.blocks[s.open] = b
      /\ \A i \in 1 .. Len(s.blocks) : i # s.open => t.blocks[i] = s.blocks[i]
  BY PutParts
<1>2. u.open # 0 /\ u.open = s.open /\ Len(u.blocks) = Len(s.blocks)
  BY DEF Same
<1>3. /\ v.next_id = next_id /\ v.open = open /\ v.command_start = start
      /\ Len(v.blocks) = Len(s.blocks) /\ v.blocks[s.open] = c
      /\ \A i \in 1 .. Len(s.blocks) : i # s.open => v.blocks[i] = u.blocks[i]
  BY <1>2, PutParts
<1> HIDE DEF t, v
<1>4. \A i \in 1 .. Len(s.blocks) : Like(t.blocks[i], v.blocks[i])
  BY <1>1, <1>3 DEF Same
<1>5. Same(t, v)
  BY <1>1, <1>3, <1>4 DEF Same
<1> QED BY <1>5 DEF t, v

(* So does sealing them,                                                   *)
LEMMA SameSeal ==
    ASSUME NEW s \in Stores, NEW u \in Stores, Same(s, u),
           NEW code \in Nat \cup {None}, NEW duration \in Nat \cup {None}
    PROVE  Same(SealWith(s, code, duration), SealWith(u, code, duration))
<1>0. s.open = u.open /\ (s.open # 0 => Like(s.blocks[s.open], u.blocks[s.open]))
  BY StoreParts DEF Same
<1>1. CASE s.open = 0 \/ ~s.blocks[s.open].running
  BY <1>0, <1>1 DEF SealWith, Like
<1>2. CASE ~(s.open = 0 \/ ~s.blocks[s.open].running)
  <2> DEFINE b == s.blocks[s.open]
             c == u.blocks[s.open]
             e == Sealed(b, code, duration)
             f == Sealed(c, code, duration)
  <2>1. b \in Block /\ c \in Block /\ Like(b, c) /\ b.running /\ c.running
    BY <1>0, <1>2, StoreParts DEF Like
  <2>2. e \in Block /\ f \in Block /\ Like(e, f)
    BY <2>1 DEF Sealed, Block, Like
  <2>3. SealWith(s, code, duration) = Put(s, e, s.next_id, 0, s.command_start)
    BY <1>2 DEF SealWith, Put
  <2>4. SealWith(u, code, duration) = Put(u, f, s.next_id, 0, s.command_start)
    BY <1>0, <1>2, <2>1 DEF SealWith, Put, Same
  <2> HIDE DEF b, c, e, f
  <2>5. 0 \in Nat /\ s.open # 0
    BY <1>2
  <2>6. Same(Put(s, e, s.next_id, 0, s.command_start), Put(u, f, s.next_id, 0, s.command_start))
    BY <2>2, <2>5, SamePut
  <2> QED BY <2>3, <2>4, <2>6
<1> QED BY <1>1, <1>2

(* opening a block in both,                                                *)
LEMMA SameOpen ==
    ASSUME NEW s \in Stores, NEW u \in Stores, Same(s, u), NEW line \in {"block", "global"}
    PROVE  Same(OpenNew(s, line), OpenNew(u, line))
<1> DEFINE t == OpenNew(s, line)
           v == OpenNew(u, line)
           n == Len(s.blocks)
<1>0. Len(u.blocks) = n /\ n \in Nat /\ s.next_id = u.next_id
  BY StoreParts DEF Same
<1>1. /\ t.next_id = s.next_id + 1 /\ t.open = n + 1 /\ t.command_start = s.command_start
      /\ Len(t.blocks) = n + 1 /\ t.blocks[n + 1] = NewBlock(s.next_id, line)
      /\ \A i \in 1 .. n : t.blocks[i] = s.blocks[i]
  BY OpenNewType
<1>2. /\ v.next_id = s.next_id + 1 /\ v.open = n + 1 /\ v.command_start = u.command_start
      /\ Len(v.blocks) = n + 1 /\ v.blocks[n + 1] = NewBlock(s.next_id, line)
      /\ \A i \in 1 .. n : v.blocks[i] = u.blocks[i]
  BY <1>0, OpenNewType
<1>3. \A i \in 1 .. n : Like(s.blocks[i], u.blocks[i])
  BY DEF Same
<1> DEFINE b == NewBlock(s.next_id, line)
<1>4. Like(b, b)
  BY DEF Like
<1> HIDE DEF t, v, b, n
<1>5. ASSUME NEW i \in 1 .. n + 1 PROVE Like(t.blocks[i], v.blocks[i])
  <2>1. CASE i = n + 1
    BY <1>1, <1>2, <1>4, <2>1 DEF b
  <2>2. CASE i # n + 1
    <3>1. i \in 1 .. n
      BY <1>0, <2>2
    <3> QED BY <1>1, <1>2, <1>3, <3>1
  <2> QED BY <2>1, <2>2
<1>6. Same(t, v)
  BY <1>1, <1>2, <1>5 DEF Same
<1> QED BY <1>6 DEF t, v

(* and starting a command in both.                                         *)
LEMMA SameStart ==
    ASSUME NEW s \in Stores, NEW u \in Stores, Same(s, u), s.open # 0,
           NEW line \in {"block", "global"}, NEW command \in Nat
    PROVE  Same(Start(s, line, command), Start(u, line, command))
<1> DEFINE b == s.blocks[s.open]
           c == u.blocks[s.open]
           e == Started(b, line, command)
           f == Started(c, line, command)
<1>1. b \in Block /\ c \in Block /\ Like(b, c) /\ u.open = s.open /\ s.open \in Nat
  BY StoreParts DEF Same
<1>2. e \in Block /\ f \in Block
  BY <1>1, FreshType DEF Started, Block
<1>3. Like(e, f)
  <2>1. NewTerm # None
    BY FreshType, FeedAssumption
  <2> QED BY <1>1, <2>1 DEF Started, Like
<1>4. Start(s, line, command) = Put(s, e, s.next_id, s.open, b.id)
  BY DEF Start, Put
<1>5. Start(u, line, command) = Put(u, f, s.next_id, s.open, b.id)
  BY <1>1 DEF Start, Put, Same, Like
<1> HIDE DEF b, c, e, f
<1>6. Same(Put(s, e, s.next_id, s.open, b.id), Put(u, f, s.next_id, s.open, b.id))
  BY <1>1, <1>2, <1>3, SamePut
<1> QED BY <1>4, <1>5, <1>6

(* An event does the same to them.                                         *)
LEMMA SameApply ==
    ASSUME NEW s \in Stores, NEW u \in Stores, Same(s, u), NEW event \in Heads
    PROVE  Same(Apply(s, event), Apply(u, event))
<1> DEFINE line == SampledLine(s)
<1>0. line \in {"block", "global"} /\ SampledLine(u) = line
  BY SameLine DEF SampledLine
<1>1. event.kind \in Hooks /\ event.of \in Nat
  BY DEF Heads
<1> HIDE DEF line
<1>2. CASE event.kind = "precmd"
  <2>1. /\ Apply(s, event) = OpenNew(SealWith(s, None, None), line)
        /\ Apply(u, event) = OpenNew(SealWith(u, None, None), line)
    BY <1>0, <1>2 DEF Apply, Precmd, line
  <2>2. SealWith(s, None, None) \in Stores /\ SealWith(u, None, None) \in Stores
    BY SealType
  <2>3. Same(SealWith(s, None, None), SealWith(u, None, None))
    BY SameSeal
  <2> QED BY <1>0, <2>1, <2>2, <2>3, SameOpen
<1>3. CASE event.kind = "preexec"
  <2> DEFINE opened(x) == IF x.open = 0 THEN OpenNew(x, line) ELSE x
  <2>1. /\ Apply(s, event) = Start(opened(s), line, event.of)
        /\ Apply(u, event) = Start(opened(u), line, event.of)
    BY <1>0, <1>3 DEF Apply, Preexec, line
  <2>2. /\ opened(s) \in Stores /\ opened(s).open # 0 /\ opened(u) \in Stores
        /\ s.open = u.open
    BY <1>0, OpenNewType, StoreParts DEF Same
  <2>3. Same(opened(s), opened(u))
    BY <1>0, <2>2, SameOpen
  <2> HIDE DEF opened
  <2> QED BY <1>0, <1>1, <2>1, <2>2, <2>3, SameStart
<1>4. CASE event.kind = "finished"
  <2> DEFINE taken(x) == Store(x.blocks, x.next_id, x.open, None)
  <2>1. /\ Apply(s, event) = SealWith(taken(s), event.of, s.command_start)
        /\ Apply(u, event) = SealWith(taken(u), event.of, s.command_start)
    BY <1>4 DEF Apply, Finished, Same
  <2>2. taken(s) \in Stores /\ taken(u) \in Stores
    BY StoreParts, StoreIsStore
  <2>3. Same(taken(s), taken(u))
    BY DEF Same, Store
  <2>4. event.of \in Nat \cup {None} /\ s.command_start \in Nat \cup {None}
    BY <1>1, StoreParts
  <2> HIDE DEF taken
  <2>5. Same(SealWith(taken(s), event.of, s.command_start),
             SealWith(taken(u), event.of, s.command_start))
    BY <2>2, <2>3, <2>4, SameSeal
  <2> QED BY <2>1, <2>5
<1> QED BY <1>1, <1>2, <1>3, <1>4 DEF Hooks

(* The store when command run is running (0 for none) and commands up to   *)
(* top have been started.                                                  *)
Shape(s, run, top) ==
    /\ s.open \in {0, Len(s.blocks)}
    /\ \A i \in 1 .. Len(s.blocks) :
          LET b == s.blocks[i]
          IN  /\ b.running <=> i = s.open
              /\ i # s.open => b.grid = None
              /\ i = s.open => b.frozen = None /\ (b.grid = None <=> b.command = None)
              /\ b.command # None => b.command \in 1 .. top
              /\ \A j \in 1 .. Len(s.blocks) :
                    b.command # None /\ s.blocks[j].command = b.command => i = j
    /\ run = 0 => OpenGrid(s) = None
    /\ run # 0 => s.open # 0 /\ s.blocks[s.open].command = run

(* What the shape says of one block.                                       *)
LEMMA ShapeParts ==
    ASSUME NEW s \in Stores, NEW run, NEW top, Shape(s, run, top), NEW i \in 1 .. Len(s.blocks)
    PROVE  /\ s.blocks[i] \in Block
           /\ s.blocks[i].running <=> i = s.open
           /\ i # s.open => s.blocks[i].grid = None
           /\ i = s.open => /\ s.blocks[i].frozen = None
                            /\ s.blocks[i].grid = None <=> s.blocks[i].command = None
           /\ s.blocks[i].command # None => s.blocks[i].command \in 1 .. top
           /\ \A j \in 1 .. Len(s.blocks) :
                    s.blocks[i].command # None /\ s.blocks[j].command = s.blocks[i].command => i = j
<1>1. s.blocks[i] \in Block
  BY StoreParts
<1> QED BY <1>1 DEF Shape

(* After sealing no block is open and no command runs.                     *)
LEMMA ShapeSeal ==
    ASSUME NEW s \in Stores, NEW run, NEW top, Shape(s, run, top),
           NEW code \in Nat \cup {None}, NEW duration \in Nat \cup {None}
    PROVE  /\ SealWith(s, code, duration) \in Stores
           /\ SealWith(s, code, duration).open = 0
           /\ Shape(SealWith(s, code, duration), 0, top)
<1>1. CASE s.open = 0
  <2>1. SealWith(s, code, duration) = s
    BY <1>1 DEF SealWith
  <2>2. Shape(s, 0, top)
    BY <1>1 DEF Shape, OpenGrid
  <2> QED BY <1>1, <2>1, <2>2
<1>2. CASE s.open # 0
  <2> DEFINE b == s.blocks[s.open]
             e == Sealed(b, code, duration)
             t == Put(s, e, s.next_id, 0, s.command_start)
  <2>0. s.open \in 1 .. Len(s.blocks)
    BY <1>2, StoreParts
  <2>1. b \in Block /\ b.running /\ (b.command # None => b.command \in 1 .. top)
    BY <2>0, ShapeParts
  <2>2. /\ e \in Block /\ e.running = FALSE /\ e.grid = None /\ e.command = b.command
    BY <2>1 DEF Sealed, Block
  <2>3. SealWith(s, code, duration) = t
    BY <1>2, <2>1 DEF SealWith, Put
  <2> HIDE DEF e
  <2>4. /\ t.open = 0 /\ Len(t.blocks) = Len(s.blocks) /\ t.blocks[s.open] = e
        /\ \A i \in 1 .. Len(s.blocks) : i # s.open => t.blocks[i] = s.blocks[i]
    BY <1>2, <2>2, PutParts
  <2> HIDE DEF t
  <2>5. ASSUME NEW i \in 1 .. Len(t.blocks)
        PROVE  /\ t.blocks[i].running <=> i = t.open
               /\ t.blocks[i].grid = None
               /\ t.blocks[i].command = s.blocks[i].command
    <3>1. CASE i = s.open
      BY <2>0, <2>2, <2>4, <3>1
    <3>2. CASE i # s.open
      <4>1. i \in 1 .. Len(s.blocks) /\ t.blocks[i] = s.blocks[i] /\ i # 0
        BY <2>4, <3>2
      <4>2. ~(s.blocks[i].running <=> TRUE) /\ s.blocks[i].running \in BOOLEAN /\ s.blocks[i].grid = None
        BY <3>2, <4>1, ShapeParts DEF Block
      <4> QED BY <2>4, <4>1, <4>2
    <3> QED BY <3>1, <3>2
  <2>6. ASSUME NEW i \in 1 .. Len(t.blocks)
        PROVE  /\ t.blocks[i].command # None => t.blocks[i].command \in 1 .. top
               /\ \A j \in 1 .. Len(t.blocks) :
                    t.blocks[i].command # None /\ t.blocks[j].command = t.blocks[i].command => i = j
    BY <2>4, <2>5, ShapeParts
  <2>7. \A i \in 1 .. Len(t.blocks) : i # t.open
    BY <2>4
  <2>8. OpenGrid(t) = None /\ t.open = 0
    BY <2>4 DEF OpenGrid
  <2>9. Shape(t, 0, top)
    BY <2>5, <2>6, <2>7, <2>8 DEF Shape
  <2> QED BY <2>3, <2>8, <2>9, SealType
<1> QED BY <1>1, <1>2

(* Opening a block between commands keeps the shape.                       *)
LEMMA ShapeOpen ==
    ASSUME NEW s \in Stores, NEW top, Shape(s, 0, top), s.open = 0,
           NEW line \in {"block", "global"}
    PROVE  Shape(OpenNew(s, line), 0, top)
<1> DEFINE t == OpenNew(s, line)
           b == NewBlock(s.next_id, line)
           n == Len(s.blocks)
<1>0. n \in Nat
  BY StoreParts
<1>1. /\ t.open = n + 1 /\ Len(t.blocks) = n + 1 /\ t.blocks[n + 1] = b
      /\ \A i \in 1 .. n : t.blocks[i] = s.blocks[i]
  BY OpenNewType
<1>2. b.running /\ b.grid = None /\ b.frozen = None /\ b.command = None
  BY DEF NewBlock
<1>3. \A i \in 1 .. n : ~s.blocks[i].running /\ s.blocks[i].grid = None
  BY ShapeParts
<1>4. \A i \in 1 .. n : s.blocks[i].command # None =>
          /\ s.blocks[i].command \in 1 .. top
          /\ \A j \in 1 .. n : s.blocks[j].command = s.blocks[i].command => i = j
  BY ShapeParts
<1> HIDE DEF t, b, n
<1>5. ASSUME NEW i \in 1 .. Len(t.blocks)
      PROVE  /\ t.blocks[i].running <=> i = t.open
             /\ t.blocks[i].grid = None
             /\ i = t.open => t.blocks[i].frozen = None /\ t.blocks[i].command = None
             /\ t.blocks[i].command # None => i \in 1 .. n /\ t.blocks[i] = s.blocks[i]
  <2>1. CASE i = n + 1
    BY <1>1, <1>2, <2>1
  <2>2. CASE i # n + 1
    <3>1. i \in 1 .. n /\ t.blocks[i] = s.blocks[i] /\ i # t.open
      BY <1>0, <1>1, <2>2
    <3> QED BY <1>3, <3>1
  <2> QED BY <2>1, <2>2
<1>6. ASSUME NEW i \in 1 .. Len(t.blocks)
      PROVE  /\ t.blocks[i].command # None => t.blocks[i].command \in 1 .. top
             /\ \A j \in 1 .. Len(t.blocks) :
                  t.blocks[i].command # None /\ t.blocks[j].command = t.blocks[i].command => i = j
  BY <1>4, <1>5
<1>7. OpenGrid(t) = None /\ t.open = Len(t.blocks)
  <2>1. n + 1 # 0 /\ n + 1 \in 1 .. Len(t.blocks)
    BY <1>0, <1>1
  <2> QED BY <1>1, <1>2, <2>1 DEF OpenGrid
<1>8. Shape(t, 0, top)
  BY <1>5, <1>6, <1>7 DEF Shape
<1> QED BY <1>8 DEF t

(* Starting the next command in the open block: it runs on a new grid.     *)
LEMMA ShapeStart ==
    ASSUME NEW s \in Stores, NEW top \in Nat, Shape(s, 0, top), s.open # 0,
           NEW line \in {"block", "global"}
    PROVE  /\ Shape(Start(s, line, top + 1), top + 1, top + 1)
           /\ OpenGrid(Start(s, line, top + 1)) = NewTerm
           /\ Start(s, line, top + 1).open = s.open
           /\ Len(Start(s, line, top + 1).blocks) = Len(s.blocks)
           /\ \A i \in 1 .. Len(s.blocks) : i # s.open =>
                  Start(s, line, top + 1).blocks[i] = s.blocks[i]
<1> DEFINE b == s.blocks[s.open]
           e == Started(b, line, top + 1)
           t == Put(s, e, s.next_id, s.open, b.id)
           c == top + 1
<1>0. s.open \in 1 .. Len(s.blocks) /\ s.open \in Nat /\ s.open = Len(s.blocks)
  BY StoreParts DEF Shape
<1>1. b \in Block /\ b.running /\ b.frozen = None
  BY <1>0, ShapeParts
<1>2. b.grid = None
  BY <1>0 DEF Shape, OpenGrid
<1>3. NewTerm # None /\ c # None /\ c \in Nat
  BY FreshType, FeedAssumption
<1>4. e \in Block /\ e.running /\ e.grid = NewTerm /\ e.frozen = None /\ e.command = c
  <2>1. e.running = b.running /\ e.grid = NewTerm /\ e.frozen = None /\ e.command = c
    BY <1>1, <1>2 DEF Started
  <2>2. e \in Block
    BY <1>1, <1>3, FreshType DEF Started, Block
  <2> QED BY <1>1, <2>1, <2>2
<1>5. Start(s, line, top + 1) = t
  BY DEF Start, Put
<1> HIDE DEF e, c
<1>6. /\ t.open = s.open /\ Len(t.blocks) = Len(s.blocks) /\ t.blocks[s.open] = e
      /\ \A i \in 1 .. Len(s.blocks) : i # s.open => t.blocks[i] = s.blocks[i]
  BY <1>0, <1>4, PutParts
<1> HIDE DEF t, b
<1>7. ASSUME NEW i \in 1 .. Len(t.blocks)
      PROVE  /\ t.blocks[i].running <=> i = t.open
             /\ i # t.open => t.blocks[i].grid = None
             /\ i = t.open => /\ t.blocks[i].frozen = None
                              /\ t.blocks[i].grid = None <=> t.blocks[i].command = None
             /\ i = t.open => t.blocks[i].command = c
             /\ i # t.open => t.blocks[i] = s.blocks[i] /\ t.blocks[i].command # c
  <2>1. CASE i = s.open
    BY <1>3, <1>4, <1>6, <2>1
  <2>2. CASE i # s.open
    <3>1. i \in 1 .. Len(s.blocks) /\ t.blocks[i] = s.blocks[i] /\ i # t.open
      BY <1>6, <2>2
    <3>2. /\ s.blocks[i].running <=> i = s.open
          /\ s.blocks[i].grid = None
          /\ s.blocks[i].command # None => s.blocks[i].command \in 1 .. top
      BY <2>2, <3>1, ShapeParts
    <3>3. s.blocks[i].command # c
      BY <1>3, <3>2 DEF c
    <3> QED BY <1>6, <2>2, <3>1, <3>2, <3>3
  <2> QED BY <2>1, <2>2
<1>8. ASSUME NEW i \in 1 .. Len(t.blocks)
      PROVE  t.blocks[i].command # None => t.blocks[i].command \in 1 .. c
  <2>1. CASE i = t.open
    BY <1>7, <2>1 DEF c
  <2>2. CASE i # t.open
    <3>1. i \in 1 .. Len(s.blocks) /\ t.blocks[i] = s.blocks[i]
      BY <1>6, <1>7, <2>2
    <3>2. s.blocks[i].command # None => s.blocks[i].command \in 1 .. top
      BY <3>1, ShapeParts
    <3> QED BY <3>1, <3>2 DEF c
  <2> QED BY <2>1, <2>2
<1>9. ASSUME NEW i \in 1 .. Len(t.blocks), NEW j \in 1 .. Len(t.blocks),
             t.blocks[i].command # None, t.blocks[j].command = t.blocks[i].command
      PROVE  i = j
  <2>1. CASE i = t.open \/ j = t.open
    BY <1>7, <1>9, <2>1
  <2>2. CASE i # t.open /\ j # t.open
    <3>1. i \in 1 .. Len(s.blocks) /\ j \in 1 .. Len(s.blocks)
          /\ s.blocks[i].command # None /\ s.blocks[j].command = s.blocks[i].command
      BY <1>6, <1>7, <1>9, <2>2
    <3> QED BY <3>1, ShapeParts
  <2> QED BY <2>1, <2>2
<1>10. t.open = Len(t.blocks) /\ OpenGrid(t) = NewTerm /\ t.blocks[t.open].command = c
       /\ c # 0 /\ t.open # 0
  BY <1>0, <1>4, <1>6 DEF OpenGrid, c
<1>11. Shape(t, c, c)
  BY <1>7, <1>8, <1>9, <1>10 DEF Shape
<1> QED BY <1>5, <1>6, <1>10, <1>11 DEF c

(* The blocks of t are blocks of s, with what they held, or just started.  *)
Carried(s, t, started) ==
    \A i \in 1 .. Len(t.blocks) : t.blocks[i].command # None =>
        \/ /\ i \in 1 .. Len(s.blocks)
           /\ s.blocks[i].command = t.blocks[i].command
           /\ Contents(t.blocks[i]) = Contents(s.blocks[i])
        \/ t.blocks[i].command = started /\ Contents(t.blocks[i]) = NewTerm

(* No command ended inside the alternate screen.                           *)
Calm(s) ==
    \A i \in 1 .. Len(s.blocks) :
        s.blocks[i].frozen # None => ~s.blocks[i].frozen.alt

(* Sealing keeps what each block held, and seals a grid that was outside   *)
(* the alternate screen if it leaves the store calm.                       *)
LEMMA SealCarries ==
    ASSUME NEW s \in Stores, NEW run, NEW top, Shape(s, run, top), NEW started,
           NEW code \in Nat \cup {None}, NEW duration \in Nat \cup {None}
    PROVE  /\ Carried(s, SealWith(s, code, duration), started)
           /\ Calm(SealWith(s, code, duration)) =>
                  Calm(s) /\ (OpenGrid(s) # None => ~OpenGrid(s).alt)
<1>1. CASE s.open = 0
  <2>1. SealWith(s, code, duration) = s
    BY <1>1 DEF SealWith
  <2> QED BY <1>1, <2>1 DEF Carried, OpenGrid
<1>2. CASE s.open # 0
  <2> DEFINE b == s.blocks[s.open]
             e == Sealed(b, code, duration)
             t == Put(s, e, s.next_id, 0, s.command_start)
  <2>0. s.open \in 1 .. Len(s.blocks)
    BY <1>2, StoreParts
  <2>1. b \in Block /\ b.running /\ b.frozen = None /\ (b.grid = None <=> b.command = None)
    BY <2>0, ShapeParts
  <2>2. e \in Block /\ e.grid = None /\ e.frozen = b.grid /\ e.command = b.command
    BY <2>1 DEF Sealed, Block
  <2>3. SealWith(s, code, duration) = t
    BY <1>2, <2>1 DEF SealWith, Put
  <2>4. OpenGrid(s) = b.grid
    BY <1>2 DEF OpenGrid
  <2> HIDE DEF b, e
  <2>5. /\ Len(t.blocks) = Len(s.blocks) /\ t.blocks[s.open] = e
        /\ \A i \in 1 .. Len(s.blocks) : i # s.open => t.blocks[i] = s.blocks[i]
    BY <1>2, <2>2, PutParts
  <2> HIDE DEF t
  <2>6. b.command # None => Contents(e) = Contents(b)
    BY <2>1, <2>2 DEF Contents
  <2>7. Carried(s, t, started)
    BY <2>2, <2>5, <2>6 DEF Carried, b
  <2>8. ASSUME Calm(t) PROVE Calm(s) /\ (b.grid # None => ~b.grid.alt)
    <3>1. \A i \in 1 .. Len(s.blocks) : s.blocks[i].frozen # None => ~s.blocks[i].frozen.alt
      BY <2>1, <2>5, <2>8 DEF Calm, b
    <3>2. e.frozen # None => ~e.frozen.alt
      BY <2>0, <2>5, <2>8 DEF Calm
    <3> QED BY <2>2, <3>1, <3>2 DEF Calm
  <2> QED BY <2>3, <2>4, <2>7, <2>8
<1> QED BY <1>1, <1>2

(* Opening a block keeps what the others held.                             *)
LEMMA OpenCarries ==
    ASSUME NEW s \in Stores, NEW line \in {"block", "global"}, NEW started
    PROVE  /\ Carried(s, OpenNew(s, line), started)
           /\ Calm(OpenNew(s, line)) => Calm(s)
<1> DEFINE t == OpenNew(s, line)
           b == NewBlock(s.next_id, line)
           n == Len(s.blocks)
<1>0. n \in Nat
  BY StoreParts
<1>1. /\ Len(t.blocks) = n + 1 /\ t.blocks[n + 1] = b
      /\ \A i \in 1 .. n : t.blocks[i] = s.blocks[i]
  BY OpenNewType
<1>2. b.command = None
  BY DEF NewBlock
<1> HIDE DEF t, b
<1>3. ASSUME NEW i \in 1 .. n + 1, t.blocks[i].command # None
      PROVE  i \in 1 .. n /\ t.blocks[i] = s.blocks[i]
  <2>1. i # n + 1
    BY <1>1, <1>2, <1>3
  <2> QED BY <1>0, <1>1, <2>1
<1>4. Carried(s, t, started)
  BY <1>1, <1>3 DEF Carried
<1>5. ASSUME Calm(t) PROVE Calm(s)
  <2>1. \A i \in 1 .. n : i \in 1 .. Len(t.blocks) /\ t.blocks[i] = s.blocks[i]
    BY <1>0, <1>1
  <2> QED BY <1>5, <2>1 DEF Calm
<1> QED BY <1>4, <1>5 DEF t

(* Starting a command keeps what the other blocks held.                    *)
LEMMA StartCarries ==
    ASSUME NEW s \in Stores, NEW top \in Nat, Shape(s, 0, top), s.open # 0,
           NEW line \in {"block", "global"}
    PROVE  /\ Carried(s, Start(s, line, top + 1), top + 1)
           /\ Calm(Start(s, line, top + 1)) => Calm(s)
<1> DEFINE t == Start(s, line, top + 1)
<1>0. s.open \in 1 .. Len(s.blocks) /\ s.blocks[s.open].frozen = None
  BY StoreParts, ShapeParts
<1>1. /\ Shape(t, top + 1, top + 1) /\ OpenGrid(t) = NewTerm /\ t.open = s.open
      /\ Len(t.blocks) = Len(s.blocks)
      /\ \A i \in 1 .. Len(s.blocks) : i # s.open => t.blocks[i] = s.blocks[i]
  BY ShapeStart
<1> HIDE DEF t
<1>2. t.blocks[s.open].grid = NewTerm /\ NewTerm # None /\ t.blocks[s.open].command = top + 1
  BY <1>1, FreshType, FeedAssumption DEF OpenGrid, Shape
<1>3. Contents(t.blocks[s.open]) = NewTerm
  BY <1>2 DEF Contents
<1>4. Carried(s, t, top + 1)
  BY <1>1, <1>2, <1>3 DEF Carried
<1>5. Calm(t) => Calm(s)
  BY <1>0, <1>1 DEF Calm
<1> QED BY <1>4, <1>5 DEF t

(* The blocks that a prompt sealed are left alone.                         *)
Spares(s, t) ==
    \A i \in 1 .. Len(s.blocks) : CutShort(s.blocks[i]) =>
        i \in 1 .. Len(t.blocks) /\ t.blocks[i] = s.blocks[i]

(* The block whose command was running is sealed.                          *)
Closed(s, t, code) ==
    OpenGrid(s) # None =>
        /\ s.open \in 1 .. Len(t.blocks)
        /\ t.blocks[s.open].exit_code = code /\ ~t.blocks[s.open].running
        /\ t.blocks[s.open].command = s.blocks[s.open].command
        /\ s.blocks[s.open].command # None

(* Sealing spares the former and seals the latter.                         *)
LEMMA SealSpares ==
    ASSUME NEW s \in Stores, NEW run, NEW top, Shape(s, run, top),
           NEW code \in Nat \cup {None}, NEW duration \in Nat \cup {None}
    PROVE  /\ Spares(s, SealWith(s, code, duration))
           /\ Closed(s, SealWith(s, code, duration), code)
<1>1. CASE s.open = 0
  <2>1. SealWith(s, code, duration) = s /\ OpenGrid(s) = None
    BY <1>1 DEF SealWith, OpenGrid
  <2> QED BY <2>1 DEF Spares, Closed
<1>2. CASE s.open # 0
  <2> DEFINE b == s.blocks[s.open]
             e == Sealed(b, code, duration)
             t == Put(s, e, s.next_id, 0, s.command_start)
  <2>0. s.open \in 1 .. Len(s.blocks)
    BY <1>2, StoreParts
  <2>1. b \in Block /\ b.running /\ (b.grid = None <=> b.command = None)
    BY <2>0, ShapeParts
  <2>2. e \in Block /\ e.exit_code = code /\ ~e.running /\ e.command = b.command
    BY <2>1 DEF Sealed, Block
  <2>3. SealWith(s, code, duration) = t
    BY <1>2, <2>1 DEF SealWith, Put
  <2>4. OpenGrid(s) = b.grid
    BY <1>2 DEF OpenGrid
  <2> HIDE DEF b, e
  <2>5. /\ Len(t.blocks) = Len(s.blocks) /\ t.blocks[s.open] = e
        /\ \A i \in 1 .. Len(s.blocks) : i # s.open => t.blocks[i] = s.blocks[i]
    BY <1>2, <2>2, PutParts
  <2> HIDE DEF t
  <2>6. Spares(s, t)
    BY <2>1, <2>5 DEF Spares, CutShort, b
  <2>7. Closed(s, t, code)
    BY <2>0, <2>1, <2>2, <2>4, <2>5 DEF Closed, b
  <2> QED BY <2>3, <2>6, <2>7
<1> QED BY <1>1, <1>2

(* Opening a block spares them.                                            *)
LEMMA OpenSpares ==
    ASSUME NEW s \in Stores, NEW line \in {"block", "global"}
    PROVE  /\ Spares(s, OpenNew(s, line))
           /\ OpenNew(s, line).open # 0
           /\ \A i \in 1 .. Len(s.blocks) :
                  i \in 1 .. Len(OpenNew(s, line).blocks) /\ OpenNew(s, line).blocks[i] = s.blocks[i]
<1> DEFINE t == OpenNew(s, line)
           n == Len(s.blocks)
<1>0. n \in Nat
  BY StoreParts
<1>1. /\ Len(t.blocks) = n + 1 /\ t.open = n + 1
      /\ \A i \in 1 .. n : t.blocks[i] = s.blocks[i]
  BY OpenNewType
<1> HIDE DEF t
<1> QED BY <1>0, <1>1 DEF Spares, t

(* Starting a command spares them.                                         *)
LEMMA StartSpares ==
    ASSUME NEW s \in Stores, NEW top \in Nat, Shape(s, 0, top), s.open # 0,
           NEW line \in {"block", "global"}
    PROVE  Spares(s, Start(s, line, top + 1))
<1> DEFINE t == Start(s, line, top + 1)
<1>0. s.open \in 1 .. Len(s.blocks) /\ s.blocks[s.open].running
  BY StoreParts, ShapeParts
<1>1. /\ Len(t.blocks) = Len(s.blocks)
      /\ \A i \in 1 .. Len(s.blocks) : i # s.open => t.blocks[i] = s.blocks[i]
  BY ShapeStart
<1> HIDE DEF t
<1> QED BY <1>0, <1>1 DEF Spares, CutShort, t

(* Such blocks are left alone, and an event that leaves a block open while *)
(* a command was running is a prompt that seals that command's block.      *)
Seals(s, t) ==
    /\ Spares(s, t)
    /\ OpenGrid(s) # None /\ t.open # 0 =>
          /\ s.open \in 1 .. Len(t.blocks)
          /\ CutShort(t.blocks[s.open])
          /\ t.blocks[s.open].command = s.blocks[s.open].command

(* What an event starts, and how far the commands have got.                *)
RunAfter(event) == IF event.kind = "preexec" THEN event.of ELSE 0

TopAfter(event, top) == IF event.kind = "preexec" THEN event.of ELSE top

Fits(event, run, top) == event.kind = "preexec" => run = 0 /\ event.of = top + 1

(* What applying an event makes of a store.                                *)
ApplySays(s, t, event, top) ==
    /\ t \in Stores
    /\ Shape(t, RunAfter(event), TopAfter(event, top))
    /\ OpenGrid(t) = IF event.kind = "preexec" THEN NewTerm ELSE None
    /\ Carried(s, t, top + 1)
    /\ Calm(t) => Calm(s) /\ (OpenGrid(s) # None => ~OpenGrid(s).alt)
    /\ Seals(s, t)

(* Two steps that carry the blocks on carry them on together.              *)
LEMMA CarriedOn ==
    ASSUME NEW s, NEW u, NEW t, NEW started, Carried(s, u, started), Carried(u, t, started)
    PROVE  Carried(s, t, started)
BY DEF Carried

(* The effect of an event.                                                 *)
LEMMA ApplyEffect ==
    ASSUME NEW s \in Stores, NEW run, NEW top \in Nat, Shape(s, run, top),
           NEW event \in Heads, Fits(event, run, top)
    PROVE  ApplySays(s, Apply(s, event), event, top)
<1> DEFINE line == SampledLine(s)
           t == Apply(s, event)
<1>0. line \in {"block", "global"}
  BY DEF SampledLine
<1>1. event.kind \in Hooks /\ event.of \in Nat
  BY DEF Heads
<1> HIDE DEF line
<1>2. CASE event.kind = "precmd"
  <2> DEFINE u == SealWith(s, None, None)
  <2>1. t = OpenNew(u, line)
    BY <1>2 DEF Apply, Precmd, line
  <2>2. u \in Stores /\ u.open = 0 /\ Shape(u, 0, top)
    BY ShapeSeal
  <2>3. /\ Carried(s, u, top + 1)
        /\ Calm(u) => Calm(s) /\ (OpenGrid(s) # None => ~OpenGrid(s).alt)
    BY SealCarries
  <2> HIDE DEF u, t
  <2>4. t \in Stores
    BY <1>0, <2>1, <2>2, OpenNewType
  <2>5. Shape(t, 0, top)
    BY <1>0, <2>1, <2>2, ShapeOpen
  <2>6. Carried(u, t, top + 1) /\ (Calm(t) => Calm(u))
    BY <1>0, <2>1, <2>2, OpenCarries
  <2>7. Carried(s, t, top + 1)
    BY <2>3, <2>6, CarriedOn
  <2>8. OpenGrid(t) = None
    BY <2>5 DEF Shape
  <2>9. Spares(s, u) /\ Closed(s, u, None)
    BY SealSpares DEF u
  <2>10. \A i \in 1 .. Len(u.blocks) : i \in 1 .. Len(t.blocks) /\ t.blocks[i] = u.blocks[i]
    BY <1>0, <2>1, <2>2, OpenSpares
  <2>11. Spares(s, t)
    BY <2>9, <2>10 DEF Spares
  <2>12. Seals(s, t)
    BY <2>9, <2>10, <2>11 DEF Seals, CutShort, Closed
  <2> QED BY <1>2, <2>3, <2>4, <2>5, <2>6, <2>7, <2>8, <2>12 DEF ApplySays, RunAfter, TopAfter, t
<1>3. CASE event.kind = "preexec"
  <2>0. run = 0 /\ event.of = top + 1 /\ Shape(s, 0, top) /\ OpenGrid(s) = None
    <3>1. run = 0 /\ event.of = top + 1
      BY <1>3 DEF Fits
    <3> QED BY <3>1 DEF Shape
  <2> DEFINE u == IF s.open = 0 THEN OpenNew(s, line) ELSE s
  <2>1. t = Start(u, line, top + 1)
    BY <1>3, <2>0 DEF Apply, Preexec, line
  <2>2. u \in Stores /\ u.open # 0 /\ Shape(u, 0, top)
    BY <1>0, <2>0, OpenNewType, StoreParts, ShapeOpen
  <2>3. Carried(s, u, top + 1) /\ (Calm(u) => Calm(s))
    <3>1. Carried(s, s, top + 1)
      BY DEF Carried
    <3> QED BY <1>0, <3>1, OpenCarries
  <2>8. Spares(s, u)
    <3>1. Spares(s, s)
      BY DEF Spares
    <3> QED BY <1>0, <3>1, OpenSpares
  <2> HIDE DEF u, t
  <2>4. t \in Stores
    BY <1>0, <2>1, <2>2, StartType
  <2>5. Shape(t, top + 1, top + 1) /\ OpenGrid(t) = NewTerm
    BY <1>0, <2>1, <2>2, ShapeStart
  <2>6. Carried(u, t, top + 1) /\ (Calm(t) => Calm(u))
    BY <1>0, <2>1, <2>2, StartCarries
  <2>7. Carried(s, t, top + 1)
    BY <2>3, <2>6, CarriedOn
  <2>9. Spares(u, t)
    BY <1>0, <2>1, <2>2, StartSpares
  <2>10. Spares(s, t)
    BY <2>8, <2>9 DEF Spares
  <2>11. Seals(s, t)
    BY <2>0, <2>10 DEF Seals
  <2> QED BY <1>3, <2>0, <2>3, <2>4, <2>5, <2>6, <2>7, <2>11 DEF ApplySays, RunAfter, TopAfter, t
<1>4. CASE event.kind = "finished"
  <2> DEFINE u == Store(s.blocks, s.next_id, s.open, None)
  <2>1. t = SealWith(u, event.of, s.command_start)
    BY <1>4 DEF Apply, Finished
  <2>2. u \in Stores
    BY StoreParts, StoreIsStore
  <2>3. u.blocks = s.blocks /\ u.open = s.open
    BY DEF Store
  <2> HIDE DEF u
  <2>4. OpenGrid(u) = OpenGrid(s)
    BY <2>3 DEF OpenGrid
  <2>5. Shape(u, run, top)
    BY <2>3, <2>4 DEF Shape
  <2>6. event.of \in Nat \cup {None} /\ s.command_start \in Nat \cup {None}
    BY <1>1, StoreParts
  <2> HIDE DEF t
  <2>7. t \in Stores /\ t.open = 0 /\ Shape(t, 0, top)
    BY <2>1, <2>2, <2>5, <2>6, ShapeSeal
  <2>8. /\ Carried(u, t, top + 1)
        /\ Calm(t) => Calm(u) /\ (OpenGrid(u) # None => ~OpenGrid(u).alt)
    BY <2>1, <2>2, <2>5, <2>6, SealCarries
  <2>9. Carried(s, t, top + 1) /\ (Calm(u) <=> Calm(s))
    BY <2>3, <2>8 DEF Carried, Calm
  <2>10. OpenGrid(t) = None
    BY <2>7 DEF OpenGrid
  <2>11. Spares(u, t)
    BY <2>1, <2>2, <2>5, <2>6, SealSpares
  <2>12. Spares(s, t)
    BY <2>3, <2>11 DEF Spares
  <2>13. Seals(s, t)
    BY <2>7, <2>12 DEF Seals
  <2> QED BY <1>4, <2>4, <2>7, <2>8, <2>9, <2>10, <2>13 DEF ApplySays, RunAfter, TopAfter, t
<1> QED BY <1>1, <1>2, <1>3, <1>4 DEF Hooks

-----------------------------------------------------------------------------
(* Reading the stream token by token: where a token leaves the reader, the *)
(* head of the frame it is in, the command running (0 for none), how many  *)
(* were started, and the blocks when every frame is applied at its end.    *)
Places == {"free", "opening", "body", "closing", "escape", "bad"}

Readings == [at : Places, head : Heads \cup {None}, run : Nat, top : Nat, store : Stores]

Blank == [at |-> "free", head |-> None, run |-> 0, top |-> 0, store |-> EmptyStore]

Opens(g, token)    == g.at = "free" /\ token.kind = "esc" /\ token.of = 0
Escapes(g, token)  == g.at = "free" /\ token.kind = "esc" /\ token.of = g.run /\ g.run # 0
Shows(g, token)    == /\ g.at = "free" /\ token.kind \in Visible /\ token.of = g.run
                      /\ g.run = 0 => g.store.open # 0
Begins(g, token)   == g.at = "opening" /\ token \in Heads /\ Fits(token, g.run, g.top)
Takes(g, token)    == g.at = "body" /\ g.head \in Heads /\ token.kind \in {"esc", "st"} /\ token.of = 0
Closes(g, token)   == g.at = "closing" /\ token.kind = "backslash" /\ token.of = 0
Switches(g, token) == g.at = "escape" /\ token.kind \in {"on", "off"} /\ token.of = g.run /\ g.run # 0

Taken(g, token) ==
    [at |-> IF token.kind = "esc" THEN "closing" ELSE "free", head |-> None,
     run |-> RunAfter(g.head), top |-> TopAfter(g.head, g.top), store |-> Apply(g.store, g.head)]

Move(g, token) ==
    IF Opens(g, token) THEN [g EXCEPT !.at = "opening"]
    ELSE IF Escapes(g, token) THEN [g EXCEPT !.at = "escape"]
    ELSE IF Shows(g, token) THEN g
    ELSE IF Begins(g, token) THEN [g EXCEPT !.at = "body", !.head = token]
    ELSE IF Takes(g, token) THEN Taken(g, token)
    ELSE IF Closes(g, token) THEN [g EXCEPT !.at = "free"]
    ELSE IF Switches(g, token) THEN [g EXCEPT !.at = "free"]
    ELSE [g EXCEPT !.at = "bad"]

(* The tokens that start a frame's body are the heads of frames.           *)
LEMMA HooksAreHeads ==
    ASSUME NEW token \in Tokens
    PROVE  token \in Heads <=> token.kind \in Hooks
BY DEF Tokens, Heads, Hooks, Visible

(* A head is a token, and not None.                                        *)
LEMMA HeadsAreSome ==
    ASSUME NEW head \in Heads
    PROVE  head # None /\ head \in Tokens /\ head.of \in Nat /\ head.kind \in Hooks
<1>1. head \in Tokens
  BY DEF Tokens, Heads
<1> QED BY <1>1, FeedAssumption DEF Heads

(* Reading nothing is a reading.                                           *)
LEMMA BlankType == Blank \in Readings
<1>1. Blank.store \in Stores
  BY EmptyStoreType DEF Blank
<1> QED BY <1>1 DEF Blank, Readings, Places

(* A frame taken at its end leaves a reading.                              *)
LEMMA TakenType ==
    ASSUME NEW g \in Readings, NEW token \in Tokens, g.head \in Heads
    PROVE  Taken(g, token) \in Readings
<1>1. Apply(g.store, g.head) \in Stores
  BY ApplyType DEF Readings
<1>2. RunAfter(g.head) \in Nat /\ TopAfter(g.head, g.top) \in Nat
  BY HeadsAreSome DEF Readings, RunAfter, TopAfter
<1> QED BY <1>1, <1>2 DEF Taken, Readings, Places

(* A reading moves to a reading.                                           *)
LEMMA MoveType ==
    ASSUME NEW g \in Readings, NEW token \in Tokens
    PROVE  Move(g, token) \in Readings
<1>1. CASE Takes(g, token) /\ ~Opens(g, token) /\ ~Escapes(g, token) /\ ~Shows(g, token)
           /\ ~Begins(g, token)
  BY <1>1, TakenType DEF Move, Takes
<1>2. \A place \in Places : [g EXCEPT !.at = place] \in Readings
  BY DEF Readings
<1>3. ASSUME token \in Heads PROVE [g EXCEPT !.at = "body", !.head = token] \in Readings
  BY <1>3 DEF Readings, Places
<1>4. {"opening", "escape", "free", "bad"} \subseteq Places
  BY DEF Places
<1>5. Begins(g, token) => token \in Heads
  BY DEF Begins
<1> HIDE DEF Readings, Places
<1> QED BY <1>1, <1>2, <1>3, <1>4, <1>5 DEF Move

MoveOf == [p \in Readings \X Tokens |-> Move(p[1], p[2])]

(* The reading of a stream, by a fold over its tokens.                     *)
Says == CHOOSE G : FoldOf(G, MoveOf, Blank, Tokens, Readings)

(* That fold exists; the three facts are its equations.                    *)
LEMMA SaysFold ==
    /\ Says[<< >>] = Blank
    /\ \A s \in Seq(Tokens) : Says[s] \in Readings
    /\ \A s \in Seq(Tokens), e \in Tokens : Says[Append(s, e)] = Move(Says[s], e)
<1>1. \A g \in Readings, e \in Tokens : MoveOf[<<g, e>>] = Move(g, e) /\ MoveOf[<<g, e>>] \in Readings
  BY MoveType DEF MoveOf
<1>2. \A g \in Readings, e \in Tokens : MoveOf[<<g, e>>] \in Readings
  BY <1>1
<1>3. \E G : FoldOf(G, MoveOf, Blank, Tokens, Readings)
  BY <1>2, BlankType, FoldExists
<1>4. FoldOf(Says, MoveOf, Blank, Tokens, Readings)
  BY <1>3 DEF Says
<1>5. \A s \in Seq(Tokens) : Says[s] \in Readings
  BY <1>4 DEF FoldOf
<1>6. ASSUME NEW s \in Seq(Tokens), NEW e \in Tokens
      PROVE  Says[Append(s, e)] = Move(Says[s], e)
  <2>1. Says[Append(s, e)] = MoveOf[<<Says[s], e>>] /\ Says[s] \in Readings
    BY <1>4 DEF FoldOf
  <2> QED BY <1>1, <2>1
<1>7. Says[<< >>] = Blank
  BY <1>4 DEF FoldOf
<1> QED BY <1>5, <1>6, <1>7

(* The first of them: before any token.                                    *)
LEMMA SaysEmpty == Says[<< >>] = Blank
BY SaysFold

(* The second: its type.                                                   *)
LEMMA SaysType ==
    ASSUME NEW s \in Seq(Tokens)
    PROVE  Says[s] \in Readings
BY SaysFold

(* The third: one token more.                                              *)
LEMMA SaysAppend ==
    ASSUME NEW s \in Seq(Tokens), NEW e \in Tokens
    PROVE  Says[Append(s, e)] = Move(Says[s], e)
BY SaysFold

(* The moves that a stream may make.                                       *)
Moves(g, e, h) ==
    \/ Opens(g, e) /\ h = [g EXCEPT !.at = "opening"]
    \/ Escapes(g, e) /\ h = [g EXCEPT !.at = "escape"]
    \/ Shows(g, e) /\ h = g
    \/ Begins(g, e) /\ h = [g EXCEPT !.at = "body", !.head = e]
    \/ Takes(g, e) /\ h = Taken(g, e)
    \/ Closes(g, e) /\ h = [g EXCEPT !.at = "free"]
    \/ Switches(g, e) /\ h = [g EXCEPT !.at = "free"]

(* A move that does not go wrong is one of them.                           *)
LEMMA MoveCases ==
    ASSUME NEW g \in Readings, NEW e \in Tokens, Move(g, e).at # "bad"
    PROVE  Moves(g, e, Move(g, e)) /\ g.at # "bad"
<1>1. [g EXCEPT !.at = "bad"].at = "bad"
  BY DEF Readings
<1>2. \/ Opens(g, e) \/ Escapes(g, e) \/ Shows(g, e) \/ Begins(g, e) \/ Takes(g, e)
      \/ Closes(g, e) \/ Switches(g, e)
  BY <1>1 DEF Move
<1>3. g.at # "bad"
  BY <1>2 DEF Opens, Escapes, Shows, Begins, Takes, Closes, Switches
<1>4. Moves(g, e, Move(g, e))
  BY <1>2 DEF Move, Moves
<1> QED BY <1>3, <1>4

(* Only the end of a frame changes the command running and the blocks.     *)
LEMMA MovesFields ==
    ASSUME NEW g \in Readings, NEW e \in Tokens, NEW h, Moves(g, e, h), ~Takes(g, e)
    PROVE  h.run = g.run /\ h.top = g.top /\ h.store = g.store
BY DEF Moves, Readings

(* The blocks of a stream that is not cut.                                 *)
Folded == [store : Stores, head : Heads \cup {None}]

Start0 == [store |-> EmptyStore, head |-> None]

UncutOf(s) == Through(UncutStep, Start0, s)

(* The model's fold over the uncut stream stays in its type,               *)
LEMMA UncutStepType ==
    ASSUME NEW a \in Folded, NEW token \in Tokens
    PROVE  UncutStep(a, token) \in Folded
<1>1. CASE a.head # None
  <2>1. a.head \in Heads /\ a.store \in Stores
    BY <1>1 DEF Folded
  <2>2. Apply(a.store, a.head) \in Stores
    BY <2>1, ApplyType
  <2> QED BY <1>1, <2>2 DEF UncutStep, Folded
<1>2. CASE a.head = None
  BY <1>2, HooksAreHeads DEF UncutStep, Folded
<1> QED BY <1>1, <1>2

(* starts in it,                                                           *)
LEMMA Start0Type == Start0 \in Folded
BY EmptyStoreType DEF Start0, Folded

(* and goes token by token.                                                *)
LEMMA UncutFold ==
    /\ UncutOf(<< >>) = Start0
    /\ \A s \in Seq(Tokens) : UncutOf(s) \in Folded
    /\ \A s \in Seq(Tokens), e \in Tokens : UncutOf(Append(s, e)) = UncutStep(UncutOf(s), e)
<1> DEFINE F == [p \in Folded \X Tokens |-> UncutStep(p[1], p[2])]
<1>1. \A a \in Folded, e \in Tokens : F[<<a, e>>] = UncutStep(a, e) /\ F[<<a, e>>] \in Folded
  BY UncutStepType
<1> HIDE DEF F
<1>3. PICK G : FoldOf(G, F, Start0, Tokens, Folded)
  <2>1. \A a \in Folded, e \in Tokens : F[<<a, e>>] \in Folded
    BY <1>1
  <2> QED BY <2>1, Start0Type, FoldExists
<1>4. ASSUME NEW s \in Seq(Tokens) PROVE UncutOf(s) = G[s]
  <2> DEFINE n == Len(s)
             v == TableOf(G, s)
             Good(u) == u = [i \in 0 .. n |-> IF i = 0 THEN Start0 ELSE UncutStep(u[i - 1], s[i])]
             t == CHOOSE u : Good(u)
  <2>1. UncutOf(s) = t[n]
    BY DEF UncutOf, Through
  <2>2. n \in Nat /\ \A i \in 1 .. n : s[i] \in Tokens
    BY LenProperties, ElementOfSeq
  <2>3. Good(v)
    <3>1. RunsOver(v, F, Start0, Tokens, Folded, s)
      BY <1>3, Start0Type, FoldTable
    <3>2. v = [i \in 0 .. n |-> v[i]]
      BY DEF TableOf
    <3>3. ASSUME NEW i \in 0 .. n PROVE v[i] = IF i = 0 THEN Start0 ELSE UncutStep(v[i - 1], s[i])
      <4> HIDE DEF v
      <4>1. CASE i = 0
        BY <3>1, <4>1 DEF RunsOver
      <4>2. CASE i # 0
        <5>1. i \in 1 .. n
          BY <2>2, <4>2
        <5>2. v[i - 1] \in Folded /\ s[i] \in Tokens /\ v[i] = F[<<v[i - 1], s[i]>>]
          BY <3>1, <5>1 DEF RunsOver
        <5> QED BY <1>1, <4>2, <5>2
      <4> QED BY <4>1, <4>2
    <3> HIDE DEF v
    <3> QED BY <3>2, <3>3
  <2>4. Good(t)
    <3> HIDE DEF Good
    <3> QED BY <2>3
  <2> HIDE DEF t, v
  <2>5. t[0] = Start0 /\ \A i \in 1 .. n : t[i] = UncutStep(t[i - 1], s[i])
    <3>1. \A i \in 0 .. n : t[i] = IF i = 0 THEN Start0 ELSE UncutStep(t[i - 1], s[i])
      BY <2>4
    <3> HIDE DEF n
    <3> QED BY <2>2, <3>1
  <2>6. FollowsSteps(t, F, Start0, s, Folded)
    BY <1>1, <2>2, <2>5 DEF FollowsSteps
  <2>7. EndsIn(t, s, G)
    BY <1>3, <2>6, Start0Type, FoldUnique
  <2> QED BY <2>1, <2>7 DEF EndsIn
<1>5. << >> \in Seq(Tokens) /\ \A s \in Seq(Tokens), e \in Tokens : Append(s, e) \in Seq(Tokens)
  BY EmptySeq, AppendProperties
<1>6. UncutOf(<< >>) = Start0
  BY <1>3, <1>4, <1>5 DEF FoldOf
<1>7. ASSUME NEW s \in Seq(Tokens) PROVE UncutOf(s) \in Folded
  BY <1>3, <1>4 DEF FoldOf
<1>8. ASSUME NEW s \in Seq(Tokens), NEW e \in Tokens PROVE UncutOf(Append(s, e)) = UncutStep(UncutOf(s), e)
  <2>1. UncutOf(Append(s, e)) = G[Append(s, e)] /\ UncutOf(s) = G[s]
    BY <1>4, <1>5
  <2>2. G[Append(s, e)] = F[<<G[s], e>>] /\ G[s] \in Folded
    BY <1>3 DEF FoldOf
  <2> QED BY <1>1, <2>1, <2>2
<1> QED BY <1>6, <1>7, <1>8

(* What a stream without a bad token says of itself.                       *)
Sound(s, g) ==
    /\ g.at = "body" => g.head \in Heads /\ Fits(g.head, g.run, g.top)
    /\ g.at # "body" => g.head = None
    /\ Shape(g.store, g.run, g.top)
    /\ \A c \in Nat : c > g.top => Keep(s, Output({c})) = << >>
    /\ UncutOf(s) = [store |-> g.store, head |-> g.head]
    /\ g.at = "free" <=> (s = << >> \/ s[Len(s)].kind \notin Hooks \cup {"esc"})

(* A stream in which no token is out of place: what the shell may write.   *)
Legal(s) == s \in Seq(Tokens) /\ Says[s].at # "bad"

(* This holds before any token.                                            *)
LEMMA BlankSound == Sound(<< >>, Blank)
<1>1. UncutOf(<< >>) = Start0
  BY UncutFold
<1>2. \A c \in Nat : Keep(<< >>, Output({c})) = << >>
  BY KeepEmpty
<1>3. Shape(Blank.store, 0, 0)
  <2>1. Blank.store.blocks = << >> /\ Blank.store.open = 0
    BY DEF Blank, EmptyStore, Store
  <2>2. Len(<< >>) = 0
    BY EmptySeq
  <2> QED BY <2>1, <2>2 DEF Shape, OpenGrid
<1> QED BY <1>1, <1>2, <1>3 DEF Sound, Blank, Start0

(* The command of a token's step.                                          *)
LEMMA OwnToken ==
    ASSUME NEW g \in Readings, NEW e \in Tokens, NEW h, Moves(g, e, h), NEW c \in Nat,
           e \in Output({c}), c # 0
    PROVE  c = g.run
<1>1. e.of = c /\ e.kind \notin Hooks
  BY DEF Output
<1> QED BY <1>1, HooksAreHeads
         DEF Moves, Opens, Escapes, Shows, Begins, Takes, Closes, Switches

(* The command that runs is among those that were started.                 *)
LEMMA RunIsStarted ==
    ASSUME NEW g \in Readings, Shape(g.store, g.run, g.top)
    PROVE  g.run <= g.top
<1>1. CASE g.run = 0
  BY <1>1 DEF Readings
<1>2. CASE g.run # 0
  <2>1. g.store \in Stores /\ g.run \in Nat
    BY DEF Readings
  <2>2. g.store.open # 0 /\ g.store.blocks[g.store.open].command = g.run
    BY <1>2 DEF Shape
  <2>3. g.store.open \in 1 .. Len(g.store.blocks)
    BY <2>1, <2>2, StoreParts
  <2>4. g.run # None
    BY <2>1, FeedAssumption
  <2>5. g.store.blocks[g.store.open].command \in 1 .. g.top
    BY <2>1, <2>2, <2>3, <2>4, ShapeParts
  <2> QED BY <2>2, <2>5
<1> QED BY <1>1, <1>2

(* Each move keeps it.                                                     *)
LEMMA MoveSound ==
    ASSUME NEW s \in Seq(Tokens), NEW g \in Readings, Sound(s, g), NEW e \in Tokens,
           NEW h \in Readings, Moves(g, e, h)
    PROVE  Sound(Append(s, e), h)
<1> DEFINE t == Append(s, e)
<1>0. t \in Seq(Tokens) /\ t # << >> /\ Len(t) = Len(s) + 1 /\ t[Len(t)] = e /\ Len(s) \in Nat
  BY AppendProperties, LenProperties, EmptySeq
<1>1. h.top >= g.top
  <2>1. CASE Takes(g, e)
    <3>1. h.top = TopAfter(g.head, g.top) /\ Fits(g.head, g.run, g.top)
      BY <2>1 DEF Moves, Opens, Escapes, Shows, Begins, Takes, Closes, Switches, Taken, Sound
    <3> QED BY <3>1 DEF TopAfter, Fits, Readings
  <2>2. CASE ~Takes(g, e)
    BY <2>2, MovesFields DEF Readings
  <2> QED BY <2>1, <2>2
<1>2. ASSUME NEW c \in Nat, c > h.top PROVE Keep(t, Output({c})) = << >>
  <2>1. c > g.top /\ g.top \in Nat /\ c # 0
    BY <1>1, <1>2 DEF Readings
  <2>2. Keep(s, Output({c})) = << >>
    BY <2>1 DEF Sound
  <2>3. g.run <= g.top
    BY RunIsStarted DEF Sound
  <2>4. e \notin Output({c})
    BY <2>1, <2>3, OwnToken DEF Readings
  <2>5. Keep(t, Output({c})) = IF e \in Output({c}) THEN Append(Keep(s, Output({c})), e)
                               ELSE Keep(s, Output({c}))
    BY KeepAppend
  <2> QED BY <2>2, <2>4, <2>5
<1>3. Shape(h.store, h.run, h.top)
  <2>1. CASE Takes(g, e)
    <3>1. h = Taken(g, e) /\ g.head \in Heads /\ Fits(g.head, g.run, g.top) /\ g.top \in Nat
          /\ g.store \in Stores /\ Shape(g.store, g.run, g.top)
      BY <2>1 DEF Moves, Opens, Escapes, Shows, Begins, Takes, Closes, Switches, Sound, Readings
    <3>2. ApplySays(g.store, Apply(g.store, g.head), g.head, g.top)
      BY <3>1, ApplyEffect
    <3> QED BY <3>1, <3>2 DEF ApplySays, Taken
  <2>2. CASE ~Takes(g, e)
    BY <2>2, MovesFields DEF Sound
  <2> QED BY <2>1, <2>2
<1>4. UncutOf(t) = [store |-> h.store, head |-> h.head]
  <2>1. UncutOf(t) = UncutStep([store |-> g.store, head |-> g.head], e)
    BY UncutFold DEF Sound
  <2>2. CASE Takes(g, e)
    <3>1. h = Taken(g, e) /\ g.head # None
      BY <2>2, HeadsAreSome DEF Moves, Opens, Escapes, Shows, Begins, Takes, Closes, Switches
    <3> QED BY <2>1, <3>1 DEF UncutStep, Taken
  <2>3. CASE Begins(g, e)
    <3>1. h.store = g.store /\ h.head = e /\ g.head = None /\ e.kind \in Hooks
      BY <2>3, HeadsAreSome DEF Moves, Opens, Escapes, Shows, Begins, Takes, Closes, Switches, Sound, Readings
    <3> QED BY <2>1, <3>1 DEF UncutStep
  <2>4. CASE ~Takes(g, e) /\ ~Begins(g, e)
    <3>1. h.store = g.store /\ h.head = g.head
      BY <2>4 DEF Moves, Readings
    <3>2. g.head = None
      BY <2>4 DEF Moves, Opens, Escapes, Shows, Begins, Takes, Closes, Switches, Sound
    <3>3. e.kind \notin Hooks
      BY <2>4 DEF Moves, Opens, Escapes, Shows, Begins, Takes, Closes, Switches, Hooks, Visible
    <3> QED BY <2>1, <3>1, <3>2, <3>3 DEF UncutStep
  <2> QED BY <2>2, <2>3, <2>4
<1>5. h.at = "free" <=> e.kind \notin Hooks \cup {"esc"}
  <2>1. CASE Begins(g, e)
    BY <2>1, HeadsAreSome DEF Moves, Opens, Escapes, Shows, Begins, Takes, Closes, Switches, Readings
  <2>2. CASE Takes(g, e)
    BY <2>2 DEF Moves, Opens, Escapes, Shows, Begins, Takes, Closes, Switches, Taken, Hooks
  <2>3. CASE ~Begins(g, e) /\ ~Takes(g, e)
    BY <2>3 DEF Moves, Opens, Escapes, Shows, Closes, Switches, Readings, Hooks, Visible
  <2> QED BY <2>1, <2>2, <2>3
<1>6. /\ h.at = "body" => h.head \in Heads /\ Fits(h.head, h.run, h.top)
      /\ h.at # "body" => h.head = None
  <2>1. CASE Begins(g, e)
    BY <2>1 DEF Moves, Opens, Escapes, Shows, Begins, Takes, Closes, Switches, Readings
  <2>2. CASE Takes(g, e)
    BY <2>2 DEF Moves, Opens, Escapes, Shows, Begins, Takes, Closes, Switches, Taken
  <2>3. CASE ~Begins(g, e) /\ ~Takes(g, e)
    BY <2>3 DEF Moves, Opens, Escapes, Shows, Closes, Switches, Readings, Sound
  <2> QED BY <2>1, <2>2, <2>3
<1> HIDE DEF t
<1>7. Sound(t, h)
  BY <1>0, <1>2, <1>3, <1>4, <1>5, <1>6 DEF Sound
<1> QED BY <1>7 DEF t

(* So it holds of every legal stream.                                      *)
LEMMA LegalSound ==
    ASSUME NEW s, Legal(s)
    PROVE  Sound(s, Says[s]) /\ Says[s] \in Readings
<1> DEFINE T == {z \in Seq(Tokens) : Says[z].at # "bad" => Sound(z, Says[z])}
<1>1. << >> \in T
  BY BlankSound, SaysEmpty, EmptySeq
<1>2. ASSUME NEW z \in Seq(Tokens), NEW e \in Tokens, z \in T PROVE Append(z, e) \in T
  <2>1. Append(z, e) \in Seq(Tokens) /\ Says[z] \in Readings /\ Says[Append(z, e)] \in Readings
    BY AppendProperties, SaysType
  <2>2. ASSUME Says[Append(z, e)].at # "bad" PROVE Sound(Append(z, e), Says[Append(z, e)])
    <3>1. Says[Append(z, e)] = Move(Says[z], e)
      BY SaysAppend
    <3>2. Moves(Says[z], e, Says[Append(z, e)]) /\ Says[z].at # "bad"
      BY <2>1, <2>2, <3>1, MoveCases
    <3>3. Sound(z, Says[z])
      BY <1>2, <3>2
    <3> QED BY <2>1, <3>2, <3>3, MoveSound
  <2> QED BY <2>1, <2>2
<1> HIDE DEF T
<1>3. s \in Seq(Tokens)
  BY DEF Legal
<1>4. s \in T
  BY <1>1, <1>2, <1>3, SeqSetInduction
<1> QED BY <1>3, <1>4, SaysType DEF T, Legal

(* The beginnings of a stream.                                             *)
LEMMA PrefixStep ==
    ASSUME NEW s, Legal(s), NEW k \in 1 .. Len(s), Legal(SubSeq(s, 1, k))
    PROVE  /\ Legal(SubSeq(s, 1, k - 1)) /\ s[k] \in Tokens
           /\ SubSeq(s, 1, k) = Append(SubSeq(s, 1, k - 1), s[k])
           /\ Moves(Says[SubSeq(s, 1, k - 1)], s[k], Says[SubSeq(s, 1, k)])
<1> DEFINE p == SubSeq(s, 1, k - 1)
<1>0. s \in Seq(Tokens)
  BY DEF Legal
<1>1. p \in Seq(Tokens) /\ s[k] \in Tokens /\ SubSeq(s, 1, k) = Append(p, s[k])
  BY <1>0, SplitLast
<1> HIDE DEF p
<1>2. Says[SubSeq(s, 1, k)] = Move(Says[p], s[k]) /\ Says[p] \in Readings
  BY <1>1, SaysAppend, SaysType
<1>3. Moves(Says[p], s[k], Says[SubSeq(s, 1, k)]) /\ Says[p].at # "bad"
  BY <1>1, <1>2, MoveCases DEF Legal
<1> QED BY <1>1, <1>3 DEF Legal, p

(* Every beginning of a legal stream is legal.                             *)
LEMMA PrefixLegal ==
    ASSUME NEW s, Legal(s), NEW k \in 0 .. Len(s)
    PROVE  Legal(SubSeq(s, 1, k))
<1> DEFINE n == Len(s)
           T == {d \in Nat : d <= n => Legal(SubSeq(s, 1, n - d))}
<1>0. s \in Seq(Tokens) /\ n \in Nat /\ SubSeq(s, 1, n) = s
  BY LenProperties, SubSeqFull DEF Legal
<1>1. 0 \in T
  <2>1. n - 0 = n
    BY <1>0
  <2>3. Legal(SubSeq(s, 1, n))
    <3> HIDE DEF n
    <3> QED BY <1>0
  <2> HIDE DEF n
  <2>2. Legal(SubSeq(s, 1, n - 0))
    BY <2>1, <2>3
  <2> QED BY <2>2
<1>2. ASSUME NEW d \in Nat, d \in T PROVE d + 1 \in T
  <2> SUFFICES ASSUME d + 1 <= n PROVE Legal(SubSeq(s, 1, n - (d + 1)))
    OBVIOUS
  <2>1. n - d \in 1 .. Len(s) /\ (n - d) - 1 = n - (d + 1) /\ d <= n
    BY <1>0
  <2>2. Legal(SubSeq(s, 1, n - d))
    BY <1>2, <2>1
  <2>3. Legal(SubSeq(s, 1, (n - d) - 1))
    BY <2>1, <2>2, PrefixStep
  <2> QED BY <2>1, <2>3
<1> HIDE DEF T
<1>3. n - k \in T
  BY <1>0, <1>1, <1>2, NatSetInduction
<1>4. n - (n - k) = k
  BY <1>0
<1> HIDE DEF n
<1> QED BY <1>0, <1>3, <1>4 DEF T

(* The reading after p tokens of stream s.                                 *)
ReadTo(s, p) == Says[SubSeq(s, 1, p)]

Shown == [kind : Visible, of : Nat]

(* A piece of the stream, without its last token.                          *)
LEMMA PieceLast ==
    ASSUME NEW s \in Seq(Tokens), NEW p \in Nat, NEW k \in Nat, p < k, k <= Len(s)
    PROVE  /\ SubSeq(s, p + 1, k - 1) \in Seq(Tokens) /\ s[k] \in Tokens
           /\ SubSeq(s, p + 1, k) = Append(SubSeq(s, p + 1, k - 1), s[k])
<1> DEFINE f == SubSeq(s, p + 1, k - 1)
           g == SubSeq(s, p + 1, k)
           n == k - p
<1>0. \A i \in p + 1 .. k : s[i] \in Tokens
  BY LenProperties, ElementOfSeq
<1>1. f \in Seq(Tokens) /\ Len(f) = n - 1 /\ \A i \in 1 .. n - 1 : f[i] = s[p + 1 + i - 1]
  <2>1. \A i \in p + 1 .. k - 1 : s[i] \in Tokens
    BY <1>0
  <2>2. /\ f \in Seq(Tokens)
        /\ Len(f) = IF p + 1 <= k - 1 THEN (k - 1) - (p + 1) + 1 ELSE 0
        /\ \A i \in 1 .. (k - 1) - (p + 1) + 1 : f[i] = s[p + 1 + i - 1]
    BY <2>1, SubSeqProperties
  <2> HIDE DEF f
  <2> QED BY <2>2
<1>2. g \in Seq(Tokens) /\ Len(g) = n /\ \A i \in 1 .. n : g[i] = s[p + 1 + i - 1]
  <2>2. /\ g \in Seq(Tokens)
        /\ Len(g) = IF p + 1 <= k THEN k - (p + 1) + 1 ELSE 0
        /\ \A i \in 1 .. k - (p + 1) + 1 : g[i] = s[p + 1 + i - 1]
    BY <1>0, SubSeqProperties
  <2> HIDE DEF g
  <2> QED BY <2>2
<1>3. s[k] \in Tokens
  BY <1>0
<1> HIDE DEF f, g
<1> DEFINE h == Append(f, s[k])
<1>4. h \in Seq(Tokens) /\ Len(h) = n /\ (\A i \in 1 .. n - 1 : h[i] = f[i]) /\ h[n] = s[k]
  BY <1>1, <1>3, AppendProperties
<1> HIDE DEF h
<1>5. \A i \in 1 .. n : g[i] = h[i]
  <2> SUFFICES ASSUME NEW i \in 1 .. n PROVE g[i] = h[i]
    OBVIOUS
  <2>1. CASE i = n
    BY <1>2, <1>4, <2>1
  <2>2. CASE i # n
    <3>1. i \in 1 .. n - 1
      BY <2>2
    <3> QED BY <1>1, <1>2, <1>4, <3>1
  <2> QED BY <2>1, <2>2
<1>6. g = h
  BY <1>2, <1>4, <1>5, SeqEqual
<1> QED BY <1>1, <1>3, <1>6 DEF f, g, h

(* A piece of a stream is a stream.                                        *)
LEMMA PieceType ==
    ASSUME NEW s \in Seq(Tokens), NEW p \in Nat, NEW k \in Nat, k <= Len(s)
    PROVE  SubSeq(s, p + 1, k) \in Seq(Tokens)
<1>1. \A i \in p + 1 .. k : s[i] \in Tokens
  BY LenProperties, ElementOfSeq
<1> QED BY <1>1, SubSeqProperties

(* The piece that ends where it starts is empty.                           *)
LEMMA PieceEmpty ==
    ASSUME NEW s, NEW p \in Nat
    PROVE  SubSeq(s, p + 1, p) = << >>
BY SubSeqEmpty

(* A step in the stream, at any place of a piece.                          *)
LEMMA ReadStep ==
    ASSUME NEW s, Legal(s), NEW k \in 1 .. Len(s)
    PROVE  /\ ReadTo(s, k - 1) \in Readings /\ ReadTo(s, k) \in Readings /\ s[k] \in Tokens
           /\ Moves(ReadTo(s, k - 1), s[k], ReadTo(s, k))
<1>1. k \in 0 .. Len(s) /\ k - 1 \in 0 .. Len(s)
  BY LenProperties DEF Legal
<1>2. Legal(SubSeq(s, 1, k)) /\ Legal(SubSeq(s, 1, k - 1))
  BY <1>1, PrefixLegal
<1> QED BY <1>2, PrefixStep, LegalSound DEF ReadTo

-----------------------------------------------------------------------------
(* A terminal whose parser is in step with the stream.                     *)

(* The parser that has read a legal stream to a place.                     *)
ParserAt(at) ==
    CASE at = "free" -> "ground"
      [] at \in {"opening", "closing", "escape"} -> "esc"
      [] at = "body" -> "dcs"

(* A block's grid is new when a preexec is applied: if only the ESC of its *)
(* terminator was read, that grid has not seen the ESC and is at ground.   *)
InStep(parser, at) == parser = ParserAt(at) \/ (at = "closing" /\ parser = "ground")

(* The fields of a terminal fed one token.                                 *)
LEMMA AdvanceParts ==
    ASSUME NEW term \in Screens, NEW e
    PROVE  /\ Advance(term, e).parser = NextParser(term.parser, e.kind)
           /\ Advance(term, e).text = IF Prints(term.parser, e.kind) THEN Append(term.text, e) ELSE term.text
           /\ Advance(term, e).output = term.output
           /\ Advance(term, e).alt = IF term.parser = "esc" /\ e.kind \in {"on", "off"}
                                     THEN e.kind = "on" ELSE term.alt
BY DEF Advance, Screens

(* A move, by the places it joins.                                         *)
Joins(g, e, at) ==
    \/ g.at = "free" /\ e.kind = "esc" /\ e.of = 0 /\ at = "opening"
    \/ g.at = "free" /\ e.kind = "esc" /\ e.of = g.run /\ g.run # 0 /\ at = "escape"
    \/ g.at = "free" /\ e.kind \in Visible /\ e.of = g.run /\ at = "free"
    \/ g.at = "opening" /\ e.kind \in Hooks /\ at = "body"
    \/ g.at = "body" /\ e.kind = "esc" /\ e.of = 0 /\ at = "closing"
    \/ g.at = "body" /\ e.kind = "st" /\ e.of = 0 /\ at = "free"
    \/ g.at = "closing" /\ e.kind = "backslash" /\ e.of = 0 /\ at = "free"
    \/ g.at = "escape" /\ e.kind \in {"on", "off"} /\ e.of = g.run /\ g.run # 0 /\ at = "free"

(* A move joins two places so.                                             *)
LEMMA MovesJoin ==
    ASSUME NEW g \in Readings, NEW e \in Tokens, NEW h, Moves(g, e, h)
    PROVE  Joins(g, e, h.at)
<1>1. ASSUME Opens(g, e), h = [g EXCEPT !.at = "opening"] PROVE Joins(g, e, h.at)
  BY <1>1 DEF Opens, Joins, Readings
<1>2. ASSUME Escapes(g, e), h = [g EXCEPT !.at = "escape"] PROVE Joins(g, e, h.at)
  BY <1>2 DEF Escapes, Joins, Readings
<1>3. ASSUME Shows(g, e), h = g PROVE Joins(g, e, h.at)
  BY <1>3 DEF Shows, Joins, Readings
<1>4. ASSUME Begins(g, e), h = [g EXCEPT !.at = "body", !.head = e] PROVE Joins(g, e, h.at)
  BY <1>4, HeadsAreSome DEF Begins, Joins, Readings
<1>5. ASSUME Takes(g, e), h = Taken(g, e) PROVE Joins(g, e, h.at)
  BY <1>5 DEF Takes, Taken, Joins
<1>6. ASSUME Closes(g, e), h = [g EXCEPT !.at = "free"] PROVE Joins(g, e, h.at)
  BY <1>6 DEF Closes, Joins, Readings
<1>7. ASSUME Switches(g, e), h = [g EXCEPT !.at = "free"] PROVE Joins(g, e, h.at)
  BY <1>7 DEF Switches, Joins, Readings
<1> QED BY <1>1, <1>2, <1>3, <1>4, <1>5, <1>6, <1>7 DEF Moves

(* A parser in step stays in step over such a move,                        *)
LEMMA ParserSteps ==
    ASSUME NEW g, NEW e, NEW at, Joins(g, e, at), NEW parser, InStep(parser, g.at)
    PROVE  NextParser(parser, e.kind) = ParserAt(at)
<1>1. CASE g.at = "free"
  <2>1. parser = "ground"
    BY <1>1 DEF InStep, ParserAt
  <2> QED BY <1>1, <2>1 DEF Joins, NextParser, ParserAt, Visible
<1>2. CASE g.at = "opening"
  <2>1. parser = "esc"
    BY <1>2 DEF InStep, ParserAt
  <2>2. e.kind \in Hooks /\ at = "body"
    BY <1>2 DEF Joins
  <2> QED BY <2>1, <2>2 DEF NextParser, ParserAt, Hooks
<1>3. CASE g.at = "body"
  <2>1. parser = "dcs"
    BY <1>3 DEF InStep, ParserAt
  <2> QED BY <1>3, <2>1 DEF Joins, NextParser, ParserAt
<1>4. CASE g.at = "closing"
  <2>1. parser \in {"esc", "ground"}
    BY <1>4 DEF InStep, ParserAt
  <2> QED BY <1>4, <2>1 DEF Joins, NextParser, ParserAt, Hooks
<1>5. CASE g.at = "escape"
  <2>1. parser = "esc"
    BY <1>5 DEF InStep, ParserAt
  <2> QED BY <1>5, <2>1 DEF Joins, NextParser, ParserAt, Hooks
<1> QED BY <1>1, <1>2, <1>3, <1>4, <1>5 DEF Joins

(* and prints the characters, and nothing else but the backslash that ends *)
(* a frame, if it did not see the ESC before it.                           *)
Leak(parser, at) ==
    IF at = "closing" /\ parser = "ground" THEN <<Token("backslash", 0)>> ELSE << >>

LEMMA StepPrints ==
    ASSUME NEW g, NEW e \in Tokens, NEW at, Joins(g, e, at), NEW parser, InStep(parser, g.at)
    PROVE  /\ Leak(parser, g.at) = << >> => (Prints(parser, e.kind) <=> e \in Shown)
           /\ Leak(parser, g.at) # << >> =>
                  /\ Prints(parser, e.kind) /\ e \notin Shown
                  /\ Leak(parser, g.at) = <<e>>
<1>0. e \in Shown <=> e.kind \in Visible
  BY DEF Shown, Tokens
<1>1. CASE g.at = "closing" /\ parser = "ground"
  <2>1. e.kind = "backslash" /\ e.of = 0
    BY <1>1 DEF Joins
  <2>2. e = Token("backslash", 0)
    BY <2>1 DEF Token, Tokens
  <2>3. Leak(parser, g.at) = <<e>> /\ <<e>> # << >>
    BY <1>1, <2>2 DEF Leak
  <2> QED BY <1>0, <1>1, <2>1, <2>3 DEF Prints, Visible
<1>2. CASE ~(g.at = "closing" /\ parser = "ground")
  <2>1. parser = ParserAt(g.at) /\ Leak(parser, g.at) = << >>
    BY <1>2 DEF InStep, Leak
  <2>2. CASE g.at = "free"
    <3>1. parser = "ground"
      BY <2>1, <2>2 DEF ParserAt
    <3> QED BY <1>0, <2>1, <2>2, <3>1 DEF Joins, Prints, Visible
  <2>3. CASE g.at \in {"opening", "closing", "escape"}
    <3>1. parser = "esc" /\ e.kind \notin Visible
      BY <2>1, <2>3 DEF ParserAt, Joins, Hooks, Visible
    <3> QED BY <1>0, <2>1, <3>1 DEF Prints, Visible
  <2>4. CASE g.at = "body"
    <3>1. parser = "dcs" /\ e.kind \notin Visible
      BY <2>1, <2>4 DEF ParserAt, Joins, Visible
    <3> QED BY <1>0, <2>1, <3>1 DEF Prints
  <2> QED BY <2>2, <2>3, <2>4 DEF Joins
<1> QED BY <1>1, <1>2

(* A terminal in step that has printed base and the characters of q,       *)
Stands(x, at, base, q) == x.parser = ParserAt(at) /\ x.text = base \o Keep(q, Shown)

(* fed one token more.                                                     *)
LEMMA SeesMore ==
    ASSUME NEW g, NEW e \in Tokens, NEW at, Joins(g, e, at),
           NEW base \in Seq(Tokens), NEW q \in Seq(Tokens),
           NEW x \in Screens, Stands(x, g.at, base, q)
    PROVE  Stands(Advance(x, e), at, base, Append(q, e))
<1> DEFINE y == Advance(x, e)
           kept == Keep(q, Shown)
           parser == x.parser
<1>0. parser = ParserAt(g.at) /\ x.text = base \o kept
  BY DEF Stands
<1>1. InStep(parser, g.at)
  BY <1>0 DEF InStep
<1>2. y.parser = NextParser(parser, e.kind)
      /\ y.text = IF Prints(parser, e.kind) THEN Append(x.text, e) ELSE x.text
  BY AdvanceParts
<1> HIDE DEF parser
<1>3. NextParser(parser, e.kind) = ParserAt(at)
  BY <1>1, ParserSteps
<1>4. Leak(parser, g.at) = << >>
  <2>1. g.at = "closing" => parser = "esc"
    BY <1>0 DEF ParserAt
  <2> QED BY <2>1 DEF Leak
<1>5. Prints(parser, e.kind) <=> e \in Shown
  BY <1>1, <1>4, StepPrints
<1>6. kept \in Seq(Tokens)
  BY KeepType
<1>7. Keep(Append(q, e), Shown) = IF e \in Shown THEN Append(kept, e) ELSE kept
  BY KeepAppend
<1> HIDE DEF y, kept
<1>9. base \o Append(kept, e) = Append(base \o kept, e)
  BY <1>6, ConcatAppend
<1>10. y.text = base \o Keep(Append(q, e), Shown)
  <2>1. CASE e \in Shown
    BY <1>2, <1>5, <1>0, <1>7, <1>9, <2>1
  <2>2. CASE e \notin Shown
    BY <1>2, <1>5, <1>0, <1>7, <2>2
  <2> QED BY <2>1, <2>2
<1> QED BY <1>2, <1>3, <1>10 DEF y, Stands

(* The first token fed to it.                                              *)
LEMMA SeesFirst ==
    ASSUME NEW g, NEW e \in Tokens, NEW at, Joins(g, e, at),
           NEW x \in Screens, InStep(x.parser, g.at)
    PROVE  /\ Advance(x, e).parser = ParserAt(at)
           /\ Advance(x, e).text =
                  (x.text \o Leak(x.parser, g.at)) \o Keep(Append(<< >>, e), Shown)
           /\ x.text \o Leak(x.parser, g.at) \in Seq(Tokens)
<1> DEFINE y == Advance(x, e)
           none == << >>
           one == Keep(Append(none, e), Shown)
           leak == Leak(x.parser, g.at)
           text == x.text
<1>1. y.parser = NextParser(x.parser, e.kind)
      /\ y.text = IF Prints(x.parser, e.kind) THEN Append(text, e) ELSE text
  BY AdvanceParts
<1>2. NextParser(x.parser, e.kind) = ParserAt(at)
  BY ParserSteps
<1>3. text \in Seq(Tokens) /\ none \in Seq(Tokens)
  BY EmptySeq DEF Screens
<1>4. one = IF e \in Shown THEN Append(none, e) ELSE none
  <2>1. Keep(none, Shown) = none
    BY KeepEmpty
  <2> HIDE DEF none
  <2> QED BY <1>3, <2>1, KeepAppend
<1>5. /\ leak = none => (Prints(x.parser, e.kind) <=> e \in Shown)
      /\ leak # none => Prints(x.parser, e.kind) /\ e \notin Shown /\ leak = <<e>>
  BY StepPrints
<1>6. text \o none = text /\ text \o <<e>> = Append(text, e) /\ text \o Append(none, e) = Append(text, e)
      /\ Append(text, e) \in Seq(Tokens)
  <2> HIDE DEF text
  <2>1. text \o none = text
    BY <1>3, ConcatEmptySeq
  <2>2. text \o <<e>> = Append(text, e) /\ Append(text, e) \in Seq(Tokens)
    BY <1>3, AppendIsConcat, AppendProperties
  <2>3. Append(none, e) = <<e>>
    OBVIOUS
  <2> QED BY <2>1, <2>2, <2>3
<1>7. Append(text, e) \o none = Append(text, e)
  <2> DEFINE more == Append(text, e)
  <2>1. more \in Seq(Tokens)
    BY <1>6
  <2> HIDE DEF more
  <2>2. more \o none = more
    BY <2>1, ConcatEmptySeq
  <2> QED BY <2>2 DEF more
<1> HIDE DEF y, none, one, leak, text
<1>8. y.text = (text \o leak) \o one /\ text \o leak \in Seq(Tokens)
  <2>1. CASE leak = none
    BY <1>1, <1>3, <1>4, <1>5, <1>6, <2>1
  <2>2. CASE leak # none
    BY <1>1, <1>3, <1>4, <1>5, <1>6, <1>7, <2>2
  <2> QED BY <2>1, <2>2
<1> QED BY <1>1, <1>2, <1>8 DEF y, text, leak, one, none

(* Induction along a piece.                                                *)
LEMMA PieceInduction ==
    ASSUME NEW p \in Nat, NEW k \in Nat, p <= k, NEW T, p \in T,
           \A j \in p .. k - 1 : j \in T => j + 1 \in T
    PROVE  k \in T
<1> DEFINE D == {d \in Nat : p + d <= k => p + d \in T}
<1>1. 0 \in D
  OBVIOUS
<1>2. ASSUME NEW d \in Nat, d \in D PROVE d + 1 \in D
  <2> SUFFICES ASSUME p + (d + 1) <= k PROVE p + (d + 1) \in T
    OBVIOUS
  <2>1. p + d \in p .. k - 1 /\ p + d \in T /\ (p + d) + 1 = p + (d + 1)
    BY <1>2
  <2>2. (p + d) + 1 \in T
    BY <2>1
  <2> QED BY <2>1, <2>2
<1> HIDE DEF D
<1>3. k - p \in D
  BY <1>1, <1>2, NatSetInduction
<1> QED BY <1>3 DEF D

(* A place in a piece and the next.                                        *)
LEMMA PieceStep ==
    ASSUME NEW s, Legal(s), NEW p \in Nat, NEW k \in Nat, k <= Len(s), NEW j \in p .. k - 1
    PROVE  /\ j \in Nat /\ s[j + 1] \in Tokens /\ SubSeq(s, p + 1, j) \in Seq(Tokens)
           /\ SubSeq(s, p + 1, j + 1) = Append(SubSeq(s, p + 1, j), s[j + 1])
           /\ ReadTo(s, j) \in Readings /\ ReadTo(s, j + 1) \in Readings
           /\ Moves(ReadTo(s, j), s[j + 1], ReadTo(s, j + 1))
           /\ Joins(ReadTo(s, j), s[j + 1], ReadTo(s, j + 1).at)
<1> DEFINE i == j + 1
<1>0. s \in Seq(Tokens) /\ Len(s) \in Nat
  BY LenProperties DEF Legal
<1>1. i \in 1 .. Len(s) /\ i \in Nat /\ p < i /\ i <= Len(s) /\ i - 1 = j /\ j \in Nat
  BY <1>0
<1> HIDE DEF i
<1>2. /\ SubSeq(s, p + 1, i - 1) \in Seq(Tokens) /\ s[i] \in Tokens
      /\ SubSeq(s, p + 1, i) = Append(SubSeq(s, p + 1, i - 1), s[i])
  BY <1>0, <1>1, PieceLast
<1>3. /\ ReadTo(s, i - 1) \in Readings /\ ReadTo(s, i) \in Readings
      /\ Moves(ReadTo(s, i - 1), s[i], ReadTo(s, i))
  BY <1>1, ReadStep
<1>4. Joins(ReadTo(s, i - 1), s[i], ReadTo(s, i).at)
  BY <1>2, <1>3, MovesJoin
<1> QED BY <1>1, <1>2, <1>3, <1>4 DEF i

(* Terminal term, fed the piece from p to k, is in step and has printed    *)
(* the characters of the piece and nothing else, but for the backslash.    *)
Sees(s, p, k, term) ==
    LET fed == FeedTerm(term, SubSeq(s, p + 1, k))
    IN  /\ fed.parser = ParserAt(ReadTo(s, k).at)
        /\ fed.text = (term.text \o Leak(term.parser, ReadTo(s, p).at))
                         \o Keep(SubSeq(s, p + 1, k), Shown)

(* It has, when it was in step at p.                                       *)
LEMMA FeedSees ==
    ASSUME NEW s, Legal(s), NEW p \in Nat, NEW k \in Nat, p < k, k <= Len(s),
           NEW term \in Screens, InStep(term.parser, ReadTo(s, p).at)
    PROVE  Sees(s, p, k, term)
<1> DEFINE T == {j \in Nat : Sees(s, p, j, term)}
           base == term.text \o Leak(term.parser, ReadTo(s, p).at)
<1>0. s \in Seq(Tokens) /\ Len(s) \in Nat
  BY LenProperties DEF Legal
<1>1. p + 1 \in T /\ base \in Seq(Tokens)
  <2> DEFINE e == s[p + 1]
             r == SubSeq(s, p + 1, p + 1)
             none == << >>
             g == ReadTo(s, p)
             h == ReadTo(s, p + 1)
  <2>1. p \in p .. k - 1
    OBVIOUS
  <2>2. /\ e \in Tokens /\ SubSeq(s, p + 1, p) \in Seq(Tokens)
        /\ r = Append(SubSeq(s, p + 1, p), e) /\ Joins(g, e, h.at)
    BY <2>1, PieceStep
  <2>3. SubSeq(s, p + 1, p) = none
    BY PieceEmpty
  <2>4. FeedTerm(term, none) = term
    BY FeedTermFold
  <2> HIDE DEF e, r, none, g, h
  <2>5. FeedTerm(term, r) = Advance(term, e)
    <3>1. \A a \in Seq(Tokens), b \in Tokens :
              FeedTerm(term, Append(a, b)) = Advance(FeedTerm(term, a), b)
      BY FeedTermFold
    <3>2. none \in Seq(Tokens) /\ r = Append(none, e)
      BY <2>2, <2>3
    <3> QED BY <2>2, <2>4, <3>1, <3>2
  <2>6. /\ Advance(term, e).parser = ParserAt(h.at)
        /\ Advance(term, e).text = (term.text \o Leak(term.parser, g.at)) \o Keep(Append(none, e), Shown)
        /\ term.text \o Leak(term.parser, g.at) \in Seq(Tokens)
    BY <2>2, SeesFirst DEF g, none
  <2>7. Sees(s, p, p + 1, term)
    BY <2>2, <2>3, <2>5, <2>6 DEF Sees, g, h, r
  <2> QED BY <2>6, <2>7 DEF g
<1>2. ASSUME NEW j \in p + 1 .. k - 1, j \in T PROVE j + 1 \in T
  <2> DEFINE e == s[j + 1]
             q == SubSeq(s, p + 1, j)
             r == SubSeq(s, p + 1, j + 1)
             g == ReadTo(s, j)
             h == ReadTo(s, j + 1)
             x == FeedTerm(term, q)
  <2>0. j \in p .. k - 1
    OBVIOUS
  <2>1. j \in Nat /\ e \in Tokens /\ q \in Seq(Tokens) /\ r = Append(q, e) /\ Joins(g, e, h.at)
    BY <2>0, PieceStep
  <2>2. Stands(x, g.at, base, q)
    BY <1>2 DEF Sees, Stands
  <2> HIDE DEF e, q, r, g, h
  <2>3. x \in Screens /\ FeedTerm(term, r) = Advance(x, e)
    BY <2>1, FeedTermFold
  <2> HIDE DEF x, base
  <2>5. Stands(Advance(x, e), h.at, base, Append(q, e))
    BY <1>1, <2>1, <2>2, <2>3, SeesMore
  <2>6. FeedTerm(term, r).parser = ParserAt(h.at) /\ FeedTerm(term, r).text = base \o Keep(r, Shown)
    BY <2>1, <2>3, <2>5 DEF Stands
  <2>7. Sees(s, p, j + 1, term)
    BY <2>6 DEF Sees, r, h, base
  <2> QED BY <2>1, <2>7
<1> HIDE DEF T
<1>3. p + 1 \in Nat /\ p + 1 <= k
  OBVIOUS
<1>4. k \in T
  BY <1>1, <1>2, <1>3, PieceInduction
<1> QED BY <1>4 DEF T

(* It stays in step.                                                       *)
LEMMA FeedInStep ==
    ASSUME NEW s, Legal(s), NEW p \in Nat, NEW k \in Nat, p <= k, k <= Len(s),
           NEW term \in Screens, InStep(term.parser, ReadTo(s, p).at)
    PROVE  InStep(FeedTerm(term, SubSeq(s, p + 1, k)).parser, ReadTo(s, k).at)
<1>1. CASE p = k
  <2>1. SubSeq(s, p + 1, p) = << >> /\ FeedTerm(term, << >>) = term
    BY PieceEmpty, FeedTermFold
  <2> QED BY <1>1, <2>1
<1>2. CASE p < k
  BY <1>2, FeedSees DEF Sees, InStep
<1> QED BY <1>1, <1>2

(* Feeding a terminal captures nothing.                                    *)
LEMMA FeedOutput ==
    ASSUME NEW term \in Screens, NEW s \in Seq(Tokens)
    PROVE  FeedTerm(term, s).output = term.output
<1> DEFINE T == {z \in Seq(Tokens) : FeedTerm(term, z).output = term.output}
<1>1. << >> \in T
  BY EmptySeq, FeedTermFold
<1>2. ASSUME NEW z \in Seq(Tokens), NEW e \in Tokens, z \in T PROVE Append(z, e) \in T
  <2>1. Append(z, e) \in Seq(Tokens)
    BY AppendProperties
  <2>2. FeedTerm(term, Append(z, e)) = Advance(FeedTerm(term, z), e) /\ FeedTerm(term, z) \in Screens
    BY FeedTermFold
  <2>3. Advance(FeedTerm(term, z), e).output = FeedTerm(term, z).output
    BY <2>2, AdvanceParts
  <2> QED BY <1>2, <2>1, <2>2, <2>3
<1> HIDE DEF T
<1>3. s \in T
  BY <1>1, <1>2, SeqSetInduction
<1> QED BY <1>3 DEF T

(* Feeding a terminal makes a terminal.                                    *)
LEMMA FeedType ==
    ASSUME NEW term \in Screens, NEW s \in Seq(Tokens)
    PROVE  FeedTerm(term, s) \in Screens
BY FeedTermFold

-----------------------------------------------------------------------------
(* Who wrote a piece: what is printed or switches the screen is of the     *)
(* command running, the rest of it or of the shell.                        *)
OwnToken1(e, run) ==
    /\ e.kind \in Visible => e.of = run
    /\ e.kind \in {"on", "off"} => e.of = run /\ run # 0
    /\ e.kind \notin Hooks => e.of \in {0, run}

(* This, of every token of a piece.                                        *)
Own(s, p, k, run) == \A j \in p + 1 .. k : OwnToken1(s[j], run)

(* A move's token is of the command running.                               *)
LEMMA JoinsOwn ==
    ASSUME NEW g, NEW e, NEW at, Joins(g, e, at)
    PROVE  OwnToken1(e, g.run)
BY DEF Joins, OwnToken1, Visible, Hooks

(* A backslash that ends a frame may be of any command.                    *)
LEMMA ClosingOwn ==
    ASSUME NEW g, NEW e, NEW at, Joins(g, e, at), g.at = "closing", NEW run
    PROVE  OwnToken1(e, run) /\ at = "free"
BY DEF Joins, OwnToken1, Visible, Hooks

(* A piece extended by such a token.                                       *)
LEMMA OwnMore ==
    ASSUME NEW s, NEW p \in Nat, NEW j \in Nat, p <= j, NEW run, Own(s, p, j, run),
           OwnToken1(s[j + 1], run)
    PROVE  Own(s, p, j + 1, run)
BY DEF Own

(* What occurs in a piece occurs in the stream at one of its places.       *)
LEMMA PieceRange ==
    ASSUME NEW s \in Seq(Tokens), NEW p \in Nat, NEW k \in Nat, k <= Len(s),
           NEW e \in Range(SubSeq(s, p + 1, k))
    PROVE  \E j \in p + 1 .. k : e = s[j] /\ e \in Tokens
<1> DEFINE q == SubSeq(s, p + 1, k)
<1>1. \A j \in p + 1 .. k : s[j] \in Tokens
  BY LenProperties, ElementOfSeq
<1>2. /\ q \in Seq(Tokens)
      /\ Len(q) = IF p + 1 <= k THEN k - (p + 1) + 1 ELSE 0
      /\ \A i \in 1 .. k - (p + 1) + 1 : q[i] = s[p + 1 + i - 1]
  BY <1>1, SubSeqProperties
<1> HIDE DEF q
<1>3. DOMAIN q = 1 .. Len(q)
  BY <1>2, LenProperties
<1>4. PICK i \in 1 .. Len(q) : e = q[i]
  BY <1>3 DEF Range, q
<1>5. i \in 1 .. k - (p + 1) + 1 /\ p + 1 + i - 1 \in p + 1 .. k
  BY <1>2, <1>4
<1>6. e = s[p + 1 + i - 1]
  BY <1>2, <1>4, <1>5
<1> QED BY <1>1, <1>5, <1>6

(* What occurs in a piece of one command is of that command.               *)
LEMMA OwnRange ==
    ASSUME NEW s \in Seq(Tokens), NEW p \in Nat, NEW k \in Nat, k <= Len(s),
           NEW run, Own(s, p, k, run), NEW e \in Range(SubSeq(s, p + 1, k))
    PROVE  e \in Tokens /\ OwnToken1(e, run)
<1>1. PICK j \in p + 1 .. k : e = s[j] /\ e \in Tokens
  BY PieceRange
<1>2. OwnToken1(s[j], run)
  BY DEF Own
<1> QED BY <1>1, <1>2

(* All the characters of such a piece are of that command,                 *)
LEMMA OwnSeen ==
    ASSUME NEW s \in Seq(Tokens), NEW p \in Nat, NEW k \in Nat, k <= Len(s),
           NEW run \in Nat, Own(s, p, k, run)
    PROVE  Keep(SubSeq(s, p + 1, k), Shown) = Seen(SubSeq(s, p + 1, k), run)
<1> DEFINE q == SubSeq(s, p + 1, k)
           S == [kind : Visible, of : {run}]
<1>1. q \in Seq(Tokens)
  BY PieceType
<1>2. ASSUME NEW e \in Range(q) PROVE e \in Shown <=> e \in S
  <2>1. e \in Tokens /\ OwnToken1(e, run)
    BY OwnRange
  <2> QED BY <2>1 DEF OwnToken1, Shown, Tokens
<1> HIDE DEF q, S
<1>3. Range(q) \cap Shown = Range(q) \cap S
  BY <1>2
<1>4. Keep(q, Shown) = Keep(q, S)
  BY <1>1, <1>3, KeepSame
<1> QED BY <1>4 DEF Seen, q, S

(* none is of another,                                                     *)
LEMMA OwnNotSeen ==
    ASSUME NEW s \in Seq(Tokens), NEW p \in Nat, NEW k \in Nat, k <= Len(s),
           NEW run \in Nat, Own(s, p, k, run), NEW c \in Nat, c # run
    PROVE  Seen(SubSeq(s, p + 1, k), c) = << >>
<1> DEFINE q == SubSeq(s, p + 1, k)
           S == [kind : Visible, of : {c}]
<1>1. q \in Seq(Tokens)
  BY PieceType
<1>2. ASSUME NEW e \in Range(q) PROVE e \notin S
  <2>1. e \in Tokens /\ OwnToken1(e, run)
    BY OwnRange
  <2> QED BY <2>1 DEF OwnToken1, Tokens
<1> HIDE DEF q, S
<1>4. Keep(q, S) = << >>
  <2>1. Range(q) \cap S = {}
    BY <1>2
  <2> QED BY <1>1, <2>1, KeepNone
<1> QED BY <1>4 DEF Seen, q, S

(* and nothing in it is output of another.                                 *)
LEMMA OwnNoOutput ==
    ASSUME NEW s \in Seq(Tokens), NEW p \in Nat, NEW k \in Nat, k <= Len(s),
           NEW run \in Nat, Own(s, p, k, run), NEW c \in Nat, c # run, c # 0
    PROVE  Keep(SubSeq(s, p + 1, k), Output({c})) = << >>
<1> DEFINE q == SubSeq(s, p + 1, k)
           S == Output({c})
<1>1. q \in Seq(Tokens)
  BY PieceType
<1>2. ASSUME NEW e \in Range(q) PROVE e \notin S
  <2>1. e \in Tokens /\ OwnToken1(e, run)
    BY OwnRange
  <2> QED BY <2>1 DEF OwnToken1, Tokens, Output
<1> HIDE DEF q, S
<1>4. Keep(q, S) = << >>
  <2>1. Range(q) \cap S = {}
    BY <1>2
  <2> QED BY <1>1, <2>1, KeepNone
<1> QED BY <1>4 DEF q, S

-----------------------------------------------------------------------------
(* The alternate screen.                                                   *)

(* When no command runs nothing switches the screen.                       *)
LEMMA FeedKeepsAlt ==
    ASSUME NEW s \in Seq(Tokens), NEW p \in Nat, NEW k \in Nat, p <= k, k <= Len(s),
           Own(s, p, k, 0), NEW term \in Screens
    PROVE  FeedTerm(term, SubSeq(s, p + 1, k)).alt = term.alt
<1> DEFINE T == {j \in Nat : FeedTerm(term, SubSeq(s, p + 1, j)).alt = term.alt}
<1>1. p \in T
  <2>1. SubSeq(s, p + 1, p) = << >> /\ FeedTerm(term, << >>) = term
    BY PieceEmpty, FeedTermFold
  <2> QED BY <2>1
<1>2. ASSUME NEW j \in p .. k - 1, j \in T PROVE j + 1 \in T
  <2> DEFINE i == j + 1
             q == SubSeq(s, p + 1, j)
             r == SubSeq(s, p + 1, i)
  <2>0. i \in Nat /\ p < i /\ i <= Len(s) /\ i - 1 = j /\ i \in p + 1 .. k
    BY LenProperties
  <2> HIDE DEF i
  <2>1. q \in Seq(Tokens) /\ s[i] \in Tokens /\ r = Append(q, s[i])
    BY <2>0, PieceLast
  <2>2. OwnToken1(s[i], 0)
    BY <2>0 DEF Own
  <2>3. s[i].kind \notin {"on", "off"}
    BY <2>2 DEF OwnToken1
  <2> DEFINE x == FeedTerm(term, q)
  <2>4. x.alt = term.alt
    BY <1>2
  <2> HIDE DEF q, r
  <2>5. x \in Screens /\ FeedTerm(term, r) = Advance(x, s[i])
    BY <2>1, FeedTermFold
  <2> HIDE DEF x
  <2>6. Advance(x, s[i]).alt = x.alt
    BY <2>3, <2>5, AdvanceParts
  <2>7. FeedTerm(term, r).alt = term.alt
    BY <2>4, <2>5, <2>6
  <2> QED BY <2>0, <2>7 DEF r, i
<1> HIDE DEF T
<1>3. k \in T
  BY <1>1, <1>2, PieceInduction
<1> QED BY <1>3 DEF T

(* After an ESC every parser is after an ESC.                              *)
LEMMA FeedEndsEsc ==
    ASSUME NEW s \in Seq(Tokens), NEW p \in Nat, NEW k \in Nat, p < k, k <= Len(s),
           s[k].kind = "esc", NEW term \in Screens
    PROVE  FeedTerm(term, SubSeq(s, p + 1, k)).parser = "esc"
<1> DEFINE q == SubSeq(s, p + 1, k - 1)
           r == SubSeq(s, p + 1, k)
           x == FeedTerm(term, q)
<1>1. q \in Seq(Tokens) /\ s[k] \in Tokens /\ r = Append(q, s[k])
  BY PieceLast
<1> HIDE DEF q, r
<1>2. x \in Screens /\ FeedTerm(term, r) = Advance(x, s[k])
  BY <1>1, FeedTermFold
<1> HIDE DEF x
<1>3. Advance(x, s[k]).parser = "esc"
  BY <1>2, AdvanceParts DEF NextParser
<1> QED BY <1>2, <1>3 DEF r

(* A terminal that sees everything another saw from before it entered the  *)
(* alternate screen leaves it along with that other.                       *)
Follows(at, a, b) ==
    /\ ~a.alt => ~b.alt
    /\ at = "escape" => b.parser = "esc"

(* One token keeps it,                                                     *)
LEMMA FollowsMore ==
    ASSUME NEW g, NEW e, NEW at, Joins(g, e, at),
           NEW a \in Screens, NEW b \in Screens, InStep(a.parser, g.at), Follows(g.at, a, b)
    PROVE  Follows(at, Advance(a, e), Advance(b, e))
<1>1. /\ Advance(a, e).alt = IF a.parser = "esc" /\ e.kind \in {"on", "off"}
                             THEN e.kind = "on" ELSE a.alt
      /\ Advance(b, e).alt = IF b.parser = "esc" /\ e.kind \in {"on", "off"}
                             THEN e.kind = "on" ELSE b.alt
      /\ Advance(b, e).parser = NextParser(b.parser, e.kind)
  BY AdvanceParts
<1>2. CASE e.kind \in {"on", "off"}
  <2>1. g.at = "escape" /\ at = "free"
    BY <1>2 DEF Joins, Visible, Hooks
  <2>2. a.parser = "esc" /\ b.parser = "esc"
    BY <2>1 DEF InStep, ParserAt, Follows
  <2> QED BY <1>1, <1>2, <2>1, <2>2 DEF Follows
<1>3. CASE e.kind \notin {"on", "off"}
  <2>1. Advance(a, e).alt = a.alt /\ Advance(b, e).alt = b.alt
    BY <1>1, <1>3
  <2>2. at = "escape" => e.kind = "esc"
    BY DEF Joins
  <2>3. e.kind = "esc" => NextParser(b.parser, e.kind) = "esc"
    BY DEF NextParser
  <2> QED BY <1>1, <2>1, <2>2, <2>3 DEF Follows
<1> QED BY <1>2, <1>3

(* and so does a piece.                                                    *)
LEMMA FeedFollows ==
    ASSUME NEW s, Legal(s), NEW p \in Nat, NEW k \in Nat, p <= k, k <= Len(s),
           NEW a \in Screens, NEW b \in Screens, InStep(a.parser, ReadTo(s, p).at),
           Follows(ReadTo(s, p).at, a, b)
    PROVE  Follows(ReadTo(s, k).at, FeedTerm(a, SubSeq(s, p + 1, k)),
                   FeedTerm(b, SubSeq(s, p + 1, k)))
<1> DEFINE T == {j \in Nat : Follows(ReadTo(s, j).at, FeedTerm(a, SubSeq(s, p + 1, j)),
                                     FeedTerm(b, SubSeq(s, p + 1, j)))}
<1>1. p \in T
  <2>1. SubSeq(s, p + 1, p) = << >> /\ FeedTerm(a, << >>) = a /\ FeedTerm(b, << >>) = b
    BY PieceEmpty, FeedTermFold
  <2> QED BY <2>1
<1>2. ASSUME NEW j \in p .. k - 1, j \in T PROVE j + 1 \in T
  <2> DEFINE e == s[j + 1]
             q == SubSeq(s, p + 1, j)
             r == SubSeq(s, p + 1, j + 1)
             g == ReadTo(s, j)
             h == ReadTo(s, j + 1)
             x == FeedTerm(a, q)
             y == FeedTerm(b, q)
  <2>1. j \in Nat /\ e \in Tokens /\ q \in Seq(Tokens) /\ r = Append(q, e) /\ Joins(g, e, h.at)
    BY PieceStep
  <2>2. Follows(g.at, x, y)
    BY <1>2
  <2>3. InStep(x.parser, g.at)
    <3>1. j <= Len(s) /\ p <= j
      BY LenProperties DEF Legal
    <3> QED BY <2>1, <3>1, FeedInStep
  <2> HIDE DEF e, q, r, g, h
  <2>4. /\ x \in Screens /\ FeedTerm(a, r) = Advance(x, e)
        /\ y \in Screens /\ FeedTerm(b, r) = Advance(y, e)
    BY <2>1, FeedTermFold
  <2> HIDE DEF x, y
  <2>5. Follows(h.at, Advance(x, e), Advance(y, e))
    BY <2>1, <2>2, <2>3, <2>4, FollowsMore
  <2>6. Follows(h.at, FeedTerm(a, r), FeedTerm(b, r))
    BY <2>4, <2>5
  <2> QED BY <2>1, <2>6 DEF h, r
<1> HIDE DEF T
<1>3. k \in T
  BY <1>1, <1>2, PieceInduction
<1> QED BY <1>3 DEF T

(* Concatenation is associative.                                           *)
LEMMA ConcatAssoc ==
    ASSUME NEW s \in Seq(Tokens), NEW t \in Seq(Tokens), NEW u \in Seq(Tokens)
    PROVE  s \o (t \o u) = (s \o t) \o u
<1> DEFINE T == {z \in Seq(Tokens) : s \o (t \o z) = (s \o t) \o z}
<1>0. s \o t \in Seq(Tokens)
  BY ConcatProperties
<1>1. << >> \in T
  BY <1>0, ConcatEmptySeq, EmptySeq
<1>2. ASSUME NEW z \in Seq(Tokens), NEW e \in Tokens, z \in T PROVE Append(z, e) \in T
  <2> DEFINE st == s \o t
             tz == t \o z
  <2>1. tz \in Seq(Tokens) /\ Append(z, e) \in Seq(Tokens) /\ st \in Seq(Tokens)
        /\ Append(tz, e) \in Seq(Tokens)
    BY <1>0, ConcatProperties, AppendProperties
  <2>2. t \o Append(z, e) = Append(tz, e)
    BY ConcatAppend
  <2>3. s \o tz = st \o z
    BY <1>2
  <2> HIDE DEF st, tz
  <2>4. s \o Append(tz, e) = Append(s \o tz, e) /\ st \o Append(z, e) = Append(st \o z, e)
    <3>1. z \in Seq(Tokens)
      BY <1>2
    <3>2. s \o Append(tz, e) = Append(s \o tz, e)
      BY <2>1, ConcatAppend
    <3>3. st \o Append(z, e) = Append(st \o z, e)
      BY <2>1, <3>1, ConcatAppend
    <3> QED BY <3>2, <3>3
  <2>5. s \o (t \o Append(z, e)) = st \o Append(z, e)
    BY <2>2, <2>3, <2>4
  <2> QED BY <2>1, <2>5 DEF st
<1> HIDE DEF T
<1>3. u \in T
  BY <1>1, <1>2, SeqSetInduction
<1> QED BY <1>3 DEF T

(* A stream up to a place, by a place before.                              *)
LEMMA PrefixConcat ==
    ASSUME NEW s \in Seq(Tokens), NEW p \in Nat, NEW k \in Nat, p <= k, k <= Len(s)
    PROVE  /\ SubSeq(s, 1, p) \in Seq(Tokens) /\ SubSeq(s, p + 1, k) \in Seq(Tokens)
           /\ SubSeq(s, 1, k) = SubSeq(s, 1, p) \o SubSeq(s, p + 1, k)
<1> DEFINE a == SubSeq(s, 1, p)
           b == SubSeq(s, p + 1, k)
           c == SubSeq(s, 1, k)
           d == a \o b
<1>0. \A i \in 1 .. k : s[i] \in Tokens
  BY LenProperties, ElementOfSeq
<1>1. a \in Seq(Tokens) /\ Len(a) = p /\ \A i \in 1 .. p : a[i] = s[i]
  <2>1. \A i \in 1 .. p : s[i] \in Tokens
    BY <1>0
  <2>2. /\ a \in Seq(Tokens) /\ Len(a) = IF 1 <= p THEN p - 1 + 1 ELSE 0
        /\ \A i \in 1 .. p - 1 + 1 : a[i] = s[1 + i - 1]
    BY <2>1, SubSeqProperties
  <2> HIDE DEF a
  <2> QED BY <2>2
<1>2. b \in Seq(Tokens) /\ Len(b) = k - p /\ \A i \in 1 .. k - p : b[i] = s[p + i]
  <2>1. \A i \in p + 1 .. k : s[i] \in Tokens
    BY <1>0
  <2>2. /\ b \in Seq(Tokens) /\ Len(b) = IF p + 1 <= k THEN k - (p + 1) + 1 ELSE 0
        /\ \A i \in 1 .. k - (p + 1) + 1 : b[i] = s[p + 1 + i - 1]
    BY <2>1, SubSeqProperties
  <2> HIDE DEF b
  <2> QED BY <2>2
<1>3. c \in Seq(Tokens) /\ Len(c) = k /\ \A i \in 1 .. k : c[i] = s[i]
  <2>2. /\ c \in Seq(Tokens) /\ Len(c) = IF 1 <= k THEN k - 1 + 1 ELSE 0
        /\ \A i \in 1 .. k - 1 + 1 : c[i] = s[1 + i - 1]
    BY <1>0, SubSeqProperties
  <2> HIDE DEF c
  <2> QED BY <2>2
<1> HIDE DEF a, b, c
<1>4. /\ d \in Seq(Tokens) /\ Len(d) = Len(a) + Len(b)
      /\ \A i \in 1 .. Len(a) + Len(b) : d[i] = IF i <= Len(a) THEN a[i] ELSE b[i - Len(a)]
  BY <1>1, <1>2, ConcatProperties
<1> HIDE DEF d
<1>5. \A i \in 1 .. k : c[i] = d[i]
  <2> SUFFICES ASSUME NEW i \in 1 .. k PROVE c[i] = d[i]
    OBVIOUS
  <2>1. CASE i <= p
    <3>1. d[i] = a[i] /\ a[i] = s[i] /\ c[i] = s[i]
      BY <1>1, <1>2, <1>3, <1>4, <2>1
    <3> QED BY <3>1
  <2>2. CASE ~(i <= p)
    <3>1. i - p \in 1 .. k - p /\ p + (i - p) = i
      BY <2>2
    <3>2. d[i] = b[i - p]
      BY <1>1, <1>2, <1>4, <2>2
    <3>3. b[i - p] = s[p + (i - p)]
      BY <1>2, <3>1
    <3> QED BY <1>3, <3>1, <3>2, <3>3
  <2> QED BY <2>1, <2>2
<1>6. c = d
  <2>1. Len(c) = Len(d)
    BY <1>1, <1>2, <1>3, <1>4
  <2> QED BY <1>3, <1>4, <1>5, <2>1, SeqEqual
<1> QED BY <1>1, <1>2, <1>6 DEF a, b, c, d

(* What a filter keeps up to k is what it keeps up to p and of the piece   *)
(* between,                                                                *)
LEMMA PrefixKeep ==
    ASSUME NEW s \in Seq(Tokens), NEW p \in Nat, NEW k \in Nat, p <= k, k <= Len(s), NEW S
    PROVE  /\ Keep(SubSeq(s, 1, k), S) = Keep(SubSeq(s, 1, p), S) \o Keep(SubSeq(s, p + 1, k), S)
           /\ Keep(SubSeq(s, 1, p), S) \in Seq(Tokens)
           /\ Keep(SubSeq(s, p + 1, k), S) \in Seq(Tokens)
<1> DEFINE a == SubSeq(s, 1, p)
           b == SubSeq(s, p + 1, k)
<1>1. a \in Seq(Tokens) /\ b \in Seq(Tokens) /\ SubSeq(s, 1, k) = a \o b
  BY PrefixConcat
<1> HIDE DEF a, b
<1>2. Keep(a \o b, S) = Keep(a, S) \o Keep(b, S) /\ Keep(a, S) \in Seq(Tokens) /\ Keep(b, S) \in Seq(Tokens)
  BY <1>1, KeepConcat, KeepType
<1> QED BY <1>1, <1>2 DEF a, b

(* and nothing more when it keeps nothing of the piece.                    *)
LEMMA PrefixKeepSame ==
    ASSUME NEW s \in Seq(Tokens), NEW p \in Nat, NEW k \in Nat, p <= k, k <= Len(s), NEW S,
           Keep(SubSeq(s, p + 1, k), S) = << >>
    PROVE  Keep(SubSeq(s, 1, k), S) = Keep(SubSeq(s, 1, p), S)
<1> DEFINE a == Keep(SubSeq(s, 1, p), S)
           b == Keep(SubSeq(s, p + 1, k), S)
<1>0. Keep(SubSeq(s, 1, k), S) = a \o b /\ a \in Seq(Tokens) /\ b = << >>
  BY PrefixKeep
<1> HIDE DEF a, b
<1>1. Keep(SubSeq(s, 1, k), S) = a \o << >> /\ a \in Seq(Tokens)
  BY <1>0
<1>2. a \o << >> = a
  BY <1>1, ConcatEmptySeq
<1> QED BY <1>1, <1>2 DEF a

(* The same of the characters of a command,                                *)
LEMMA PrefixSeen ==
    ASSUME NEW s \in Seq(Tokens), NEW p \in Nat, NEW k \in Nat, p <= k, k <= Len(s), NEW c
    PROVE  Seen(SubSeq(s, 1, k), c) = Seen(SubSeq(s, 1, p), c) \o Seen(SubSeq(s, p + 1, k), c)
<1> DEFINE S == [kind : Visible, of : {c}]
<1> HIDE DEF S
<1>1. Keep(SubSeq(s, 1, k), S) = Keep(SubSeq(s, 1, p), S) \o Keep(SubSeq(s, p + 1, k), S)
  BY PrefixKeep
<1> QED BY <1>1 DEF Seen, S

(* when the piece has none of them.                                        *)
LEMMA PrefixSeenSame ==
    ASSUME NEW s \in Seq(Tokens), NEW p \in Nat, NEW k \in Nat, p <= k, k <= Len(s), NEW c,
           Seen(SubSeq(s, p + 1, k), c) = << >>
    PROVE  Seen(SubSeq(s, 1, k), c) = Seen(SubSeq(s, 1, p), c)
<1> DEFINE S == [kind : Visible, of : {c}]
<1>1. Keep(SubSeq(s, p + 1, k), S) = << >>
  BY DEF Seen
<1> HIDE DEF S
<1>2. Keep(SubSeq(s, 1, k), S) = Keep(SubSeq(s, 1, p), S)
  BY <1>1, PrefixKeepSame
<1> QED BY <1>2 DEF Seen, S

-----------------------------------------------------------------------------
(* Replacing the grid of the open block.                                   *)

(* Store t is s with grid x in its open block.                             *)
Refed(s, t, x) ==
    /\ t \in Stores /\ Same(t, s)
    /\ OpenGrid(t) = x
    /\ t.blocks[s.open].command = s.blocks[s.open].command
    /\ Contents(t.blocks[s.open]) = x
    /\ \A i \in 1 .. Len(s.blocks) : i # s.open => t.blocks[i] = s.blocks[i]
    /\ Calm(t) <=> Calm(s)

(* Where the open grid is found.                                           *)
LEMMA GridParts ==
    ASSUME NEW s \in Stores, OpenGrid(s) # None
    PROVE  /\ s.open # 0 /\ s.open \in 1 .. Len(s.blocks)
           /\ OpenGrid(s) = s.blocks[s.open].grid /\ OpenGrid(s) \in Screens
           /\ s.blocks[s.open] \in Block
<1>1. s.open # 0 /\ OpenGrid(s) = s.blocks[s.open].grid
  BY DEF OpenGrid
<1>2. s.open \in 1 .. Len(s.blocks) /\ s.blocks[s.open] \in Block
  BY <1>1, StoreParts
<1> QED BY <1>1, <1>2 DEF Block

(* FeedOpen replaces the grid of the open block.                           *)
LEMMA FeedOpenRefeds ==
    ASSUME NEW s \in Stores, OpenGrid(s) # None, NEW x \in Screens
    PROVE  Refed(s, FeedOpen(s, x), x)
<1> DEFINE b == s.blocks[s.open]
           e == [b EXCEPT !.grid = x]
           t == Put(s, e, s.next_id, s.open, s.command_start)
<1>0. /\ s.open # 0 /\ s.open \in 1 .. Len(s.blocks) /\ b \in Block /\ b.grid # None
  BY GridParts
<1>1. /\ e \in Block /\ e.grid = x /\ e.id = b.id /\ e.command = b.command
      /\ e.start_line = b.start_line /\ e.running = b.running /\ e.frozen = b.frozen
      /\ e.exit_code = b.exit_code /\ e.duration = b.duration
  BY <1>0 DEF Block
<1>2. x # None
  BY FeedAssumption
<1>3. FeedOpen(s, x) = t
  BY DEF FeedOpen, Put
<1>4. Like(e, b)
  BY <1>0, <1>1, <1>2 DEF Like
<1> HIDE DEF e, b
<1>5. t \in Stores
  <2>1. s.open <= Len(s.blocks) /\ s.open \in Nat /\ s.next_id \in Nat
        /\ s.command_start \in Nat \cup {None}
    BY StoreParts
  <2> QED BY <1>0, <1>1, <2>1, PutType
<1>6. /\ t.open = s.open /\ t.next_id = s.next_id /\ t.command_start = s.command_start
      /\ Len(t.blocks) = Len(s.blocks) /\ t.blocks[s.open] = e
      /\ \A i \in 1 .. Len(s.blocks) : i # s.open => t.blocks[i] = s.blocks[i]
  BY <1>0, <1>1, PutParts
<1> HIDE DEF t
<1>7. Same(t, s)
  <2>1. ASSUME NEW i \in 1 .. Len(t.blocks) PROVE Like(t.blocks[i], s.blocks[i])
    <3>1. CASE i = s.open
      BY <1>4, <1>6, <3>1 DEF b
    <3>2. CASE i # s.open
      BY <1>6, <3>2 DEF Like
    <3> QED BY <3>1, <3>2
  <2> QED BY <1>6, <2>1 DEF Same
<1>8. OpenGrid(t) = x
  BY <1>0, <1>1, <1>6 DEF OpenGrid
<1>9. Contents(t.blocks[s.open]) = x
  BY <1>1, <1>2, <1>6 DEF Contents
<1>10. Calm(t) <=> Calm(s)
  <2>1. \A i \in 1 .. Len(s.blocks) : t.blocks[i].frozen = s.blocks[i].frozen
    BY <1>1, <1>6 DEF b
  <2> QED BY <1>6, <2>1 DEF Calm
<1> QED BY <1>1, <1>3, <1>5, <1>6, <1>7, <1>8, <1>9, <1>10 DEF Refed, b

(* The shape does not depend on what the grids hold.                       *)
LEMMA SameShape ==
    ASSUME NEW s \in Stores, NEW t \in Stores, Same(t, s), NEW run \in Nat, NEW top, Shape(s, run, top)
    PROVE  Shape(t, run, top)
<1>1. /\ t.open = s.open /\ Len(t.blocks) = Len(s.blocks)
      /\ \A i \in 1 .. Len(s.blocks) : Like(t.blocks[i], s.blocks[i])
  BY DEF Same
<1>2. ASSUME NEW i \in 1 .. Len(t.blocks)
      PROVE  /\ t.blocks[i].running <=> i = t.open
             /\ i # t.open => t.blocks[i].grid = None
             /\ i = t.open => /\ t.blocks[i].frozen = None
                              /\ t.blocks[i].grid = None <=> t.blocks[i].command = None
             /\ t.blocks[i].command # None => t.blocks[i].command \in 1 .. top
             /\ \A j \in 1 .. Len(t.blocks) :
                    t.blocks[i].command # None /\ t.blocks[j].command = t.blocks[i].command => i = j
  <2>1. i \in 1 .. Len(s.blocks) /\ Like(t.blocks[i], s.blocks[i])
    BY <1>1
  <2>2. /\ s.blocks[i].running <=> i = s.open
        /\ i # s.open => s.blocks[i].grid = None
        /\ i = s.open => /\ s.blocks[i].frozen = None
                         /\ s.blocks[i].grid = None <=> s.blocks[i].command = None
        /\ s.blocks[i].command # None => s.blocks[i].command \in 1 .. top
        /\ \A j \in 1 .. Len(s.blocks) :
               s.blocks[i].command # None /\ s.blocks[j].command = s.blocks[i].command => i = j
    BY <2>1, ShapeParts
  <2>3. \A j \in 1 .. Len(s.blocks) : t.blocks[j].command = s.blocks[j].command
    BY <1>1 DEF Like
  <2> QED BY <1>1, <2>1, <2>2, <2>3 DEF Like
<1>3. run = 0 => OpenGrid(t) = None
  <2>1. s.open # 0 => s.open \in 1 .. Len(s.blocks)
    BY StoreParts
  <2> QED BY <1>1, <2>1 DEF Shape, OpenGrid, Like
<1>4. run # 0 => t.open # 0 /\ t.blocks[t.open].command = run
  <2>1. s.open # 0 => s.open \in 1 .. Len(s.blocks)
    BY StoreParts
  <2> QED BY <1>1, <2>1 DEF Shape, Like
<1>5. t.open \in {0, Len(t.blocks)}
  BY <1>1 DEF Shape
<1> QED BY <1>2, <1>3, <1>4, <1>5 DEF Shape

(* Output goes to a grid while a command runs.                             *)
LEMMA GridWhenRunning ==
    ASSUME NEW s \in Stores, NEW run \in Nat, NEW top, Shape(s, run, top)
    PROVE  /\ OpenGrid(s) # None <=> run # 0
           /\ run # 0 => s.open \in 1 .. Len(s.blocks) /\ s.blocks[s.open].command = run
           /\ \A i \in 1 .. Len(s.blocks) :
                  s.blocks[i].command # None =>
                      /\ s.blocks[i].command \in Nat /\ s.blocks[i].command # 0
                      /\ i # s.open \/ run = 0 => s.blocks[i].command # run
<1>1. CASE run = 0
  <2>1. OpenGrid(s) = None
    BY <1>1 DEF Shape
  <2> QED BY <1>1, <2>1, ShapeParts
<1>2. CASE run # 0
  <2>1. s.open # 0 /\ s.blocks[s.open].command = run /\ run # None
    BY <1>2, FeedAssumption DEF Shape
  <2>2. s.open \in 1 .. Len(s.blocks)
    BY <2>1, StoreParts
  <2>3. OpenGrid(s) # None
    BY <2>1, <2>2, ShapeParts DEF OpenGrid
  <2> QED BY <1>2, <2>1, <2>2, <2>3, ShapeParts
<1> QED BY <1>1, <1>2

(* The terminal within a call of feed.                                     *)
Turns == [global : Screens, store : Stores, cursor : Nat, panicked : BOOLEAN]

(* What the blocks and the global terminal show after p tokens.            *)
GridInStep(s, p, st) ==
    OpenGrid(st) # None =>
        \/ OpenGrid(st).parser = ParserAt(ReadTo(s, p).at)
        \/ /\ ReadTo(s, p).at = "closing"
           /\ OpenGrid(st).parser = "ground" /\ OpenGrid(st).text = << >>

(* The backslash that command c may have started with, after these cuts.   *)
LeaksIn(cuts, c) ==
    {<< >>} \cup IF Token("backslash", c) \in cuts THEN {<<Token("backslash", 0)>>} ELSE {}

ShowsOwn(text, s, p, cuts, c) ==
    \E leak \in LeaksIn(cuts, c) : text = leak \o Seen(SubSeq(s, 1, p), c)

(* Each block shows the characters of its command.                         *)
Routed(s, p, cuts, st) ==
    \A i \in 1 .. Len(st.blocks) : st.blocks[i].command # None =>
        ShowsOwn(Contents(st.blocks[i]).text, s, p, cuts, st.blocks[i].command)

(* No border tore something while command c was running.                   *)
WholeIn(cuts, c) == \A cut \in cuts : cut.of # c

(* A place where that is to be among the cuts, is.                         *)
CutKnown(s, p, cuts) ==
    ReadTo(s, p).run # 0 /\ ReadTo(s, p).at # "free" =>
        Token(s[p + 1].kind, ReadTo(s, p).run) \in cuts

(* No command that a prompt cut short was torn.                            *)
Unhurt(st, cuts) ==
    \A i \in 1 .. Len(st.blocks) :
        CutShort(st.blocks[i]) => WholeIn(cuts, st.blocks[i].command)

(* A parser that need not be in step between the end of a command and the  *)
(* frame of the prompt: the ESC of that frame brings it back.              *)
Loose(parser, g) == g.store.open # 0 \/ g.at \in {"opening", "body"} => InStep(parser, g.at)

(* The global terminal shows the prompts, and is in step for the next one, *)
(* unless a command that a prompt cut short was torn.                      *)
Prompts(s, p, cuts, st, gl) ==
    Unhurt(st, cuts) =>
        /\ Seen(gl.text, 0) = Seen(SubSeq(s, 1, p), 0)
        /\ OpenGrid(st) = None => Loose(gl.parser, ReadTo(s, p))
        /\ /\ OpenGrid(st) # None /\ WholeIn(cuts, st.blocks[st.open].command)
           /\ ReadTo(s, p).at \in {"free", "closing"}
           => InStep(gl.parser, ReadTo(s, p).at)

(* The global terminal is in the alternate screen with the open grid, and  *)
(* leaves it with that grid.                                               *)
AltKnown(s, p, st, gl) ==
    /\ Calm(st) /\ gl.alt => OpenGrid(st) # None /\ OpenGrid(st).alt
    /\ OpenGrid(st) # None /\ OpenGrid(st).alt /\ ReadTo(s, p).at = "escape" => gl.parser = "esc"

(* All four, after p tokens of stream s.                                   *)
Faithful(s, p, cuts, st, gl) ==
    /\ GridInStep(s, p, st) /\ Routed(s, p, cuts, st)
    /\ Prompts(s, p, cuts, st, gl) /\ AltKnown(s, p, st, gl)

-----------------------------------------------------------------------------
(* Dispatching a piece.                                                    *)

(* The characters of a command, one token more.                            *)
LEMMA SeenAppend ==
    ASSUME NEW x \in Seq(Tokens), NEW e \in Tokens, NEW c
    PROVE  Seen(Append(x, e), c) = IF e.kind \in Visible /\ e.of = c
                                   THEN Append(Seen(x, c), e) ELSE Seen(x, c)
<1> DEFINE S == [kind : Visible, of : {c}]
<1>1. e \in S <=> e.kind \in Visible /\ e.of = c
  BY DEF Tokens
<1> HIDE DEF S
<1>2. Keep(Append(x, e), S) = IF e \in S THEN Append(Keep(x, S), e) ELSE Keep(x, S)
  BY KeepAppend
<1> QED BY <1>1, <1>2 DEF Seen, S

(* They are tokens.                                                        *)
LEMMA SeenType ==
    ASSUME NEW x \in Seq(Tokens), NEW c
    PROVE  Seen(x, c) \in Seq(Tokens)
<1> DEFINE S == [kind : Visible, of : {c}]
<1> HIDE DEF S
<1>1. Keep(x, S) \in Seq(Tokens)
  BY KeepType
<1> QED BY <1>1 DEF Seen, S

(* A step of the shell or of a frame, when no command runs.                *)
LEMMA LooseStep ==
    ASSUME NEW g \in Readings, NEW e \in Tokens, NEW h, Moves(g, e, h),
           OwnToken1(e, 0), NEW parser, Loose(parser, g)
    PROVE  Loose(NextParser(parser, e.kind), h) /\ (e.kind \in Visible => Prints(parser, e.kind))
<1>1. CASE Opens(g, e) /\ h = [g EXCEPT !.at = "opening"]
  <2>1. e.kind = "esc" /\ h.at = "opening"
    BY <1>1 DEF Opens, Readings
  <2> QED BY <2>1 DEF Loose, InStep, ParserAt, NextParser, Visible
<1>2. CASE Escapes(g, e)
  BY <1>2 DEF Escapes, OwnToken1, Hooks
<1>3. CASE Shows(g, e) /\ h = g
  <2>1. g.store.open # 0 /\ g.at = "free" /\ e.kind \in Visible
    BY <1>3 DEF Shows, OwnToken1
  <2>2. parser = "ground"
    BY <2>1 DEF Loose, InStep, ParserAt
  <2> QED BY <1>3, <2>1, <2>2 DEF Loose, InStep, ParserAt, NextParser, Prints, Visible
<1>4. CASE Begins(g, e) /\ h = [g EXCEPT !.at = "body", !.head = e]
  <2>1. g.at = "opening" /\ e.kind \in Hooks /\ h.at = "body"
    BY <1>4, HeadsAreSome DEF Begins, Readings
  <2>2. parser = "esc"
    BY <2>1 DEF Loose, InStep, ParserAt
  <2> QED BY <2>1, <2>2 DEF Loose, InStep, ParserAt, NextParser, Visible, Hooks
<1>5. CASE Takes(g, e) /\ h = Taken(g, e)
  <2>1. g.at = "body" /\ e.kind \in {"esc", "st"} /\ h.at = IF e.kind = "esc" THEN "closing" ELSE "free"
    BY <1>5 DEF Takes, Taken
  <2>2. parser = "dcs"
    BY <2>1 DEF Loose, InStep, ParserAt
  <2> QED BY <2>1, <2>2 DEF Loose, InStep, ParserAt, NextParser, Visible
<1>6. CASE Closes(g, e) /\ h = [g EXCEPT !.at = "free"]
  <2>1. g.at = "closing" /\ e.kind = "backslash" /\ h.at = "free" /\ h.store = g.store
    BY <1>6 DEF Closes, Readings
  <2>2. g.store.open # 0 => parser \in {"esc", "ground"}
    BY <2>1 DEF Loose, InStep, ParserAt
  <2> QED BY <2>1, <2>2 DEF Loose, InStep, ParserAt, NextParser, Visible, Hooks
<1>7. CASE Switches(g, e)
  BY <1>7 DEF Switches, OwnToken1
<1> QED BY <1>1, <1>2, <1>3, <1>4, <1>5, <1>6, <1>7 DEF Moves

(* A terminal that need not be in step shows the prompts all the same.     *)
Keeps(s, p, j, term) ==
    LET fed == FeedTerm(term, SubSeq(s, p + 1, j))
    IN  /\ Loose(fed.parser, ReadTo(s, j))
        /\ Seen(fed.text, 0) = Seen(term.text, 0) \o Seen(SubSeq(s, p + 1, j), 0)

LEMMA FeedLoose ==
    ASSUME NEW s, Legal(s), NEW p \in Nat, NEW k \in Nat, p <= k, k <= Len(s),
           NEW term \in Screens, Own(s, p, k, 0), Loose(term.parser, ReadTo(s, p))
    PROVE  Keeps(s, p, k, term)
<1> DEFINE T == {j \in Nat : Keeps(s, p, j, term)}
           base == Seen(term.text, 0)
<1>0. base \in Seq(Tokens)
  BY SeenType DEF Screens
<1>1. p \in T
  <2>1. SubSeq(s, p + 1, p) = << >> /\ FeedTerm(term, << >>) = term
    BY PieceEmpty, FeedTermFold
  <2>2. Seen(<< >>, 0) = << >>
    BY KeepEmpty DEF Seen
  <2> HIDE DEF base
  <2>3. base \o << >> = base
    BY <1>0, ConcatEmptySeq
  <2> QED BY <2>1, <2>2, <2>3 DEF Keeps, base
<1>2. ASSUME NEW j \in p .. k - 1, j \in T PROVE j + 1 \in T
  <2> DEFINE e == s[j + 1]
             q == SubSeq(s, p + 1, j)
             r == SubSeq(s, p + 1, j + 1)
             g == ReadTo(s, j)
             h == ReadTo(s, j + 1)
             x == FeedTerm(term, q)
             y == FeedTerm(term, r)
             text == x.text
  <2>1. /\ j \in Nat /\ e \in Tokens /\ q \in Seq(Tokens) /\ r = Append(q, e)
        /\ g \in Readings /\ Moves(g, e, h)
    BY PieceStep
  <2>2. OwnToken1(e, 0)
    BY <2>1 DEF Own
  <2>3. Loose(x.parser, g) /\ Seen(text, 0) = base \o Seen(q, 0)
    BY <1>2 DEF Keeps
  <2> HIDE DEF e, q, r, g, h, base
  <2>4. x \in Screens /\ y = Advance(x, e)
    BY <2>1, FeedTermFold
  <2>5. text \in Seq(Tokens)
    BY <2>4 DEF Screens
  <2> HIDE DEF x, y
  <2>6. Loose(NextParser(x.parser, e.kind), h) /\ (e.kind \in Visible => Prints(x.parser, e.kind))
    BY <2>1, <2>2, <2>3, LooseStep
  <2>7. /\ y.parser = NextParser(x.parser, e.kind)
        /\ y.text = IF Prints(x.parser, e.kind) THEN Append(text, e) ELSE text
    BY <2>4, AdvanceParts
  <2> HIDE DEF text
  <2>8. Seen(Append(text, e), 0) = (IF e.kind \in Visible /\ e.of = 0
                                   THEN Append(Seen(text, 0), e) ELSE Seen(text, 0))
    BY <2>1, <2>5, SeenAppend
  <2> DEFINE sq == Seen(q, 0)
             more == Append(sq, e)
  <2>9. Seen(r, 0) = (IF e.kind \in Visible /\ e.of = 0 THEN more ELSE sq) /\ sq \in Seq(Tokens)
    BY <2>1, SeenAppend, SeenType
  <2>10. Seen(text, 0) = base \o sq
    BY <2>3
  <2> HIDE DEF sq
  <2>11. base \o more = Append(base \o sq, e)
    BY <1>0, <2>1, <2>9, ConcatAppend
  <2> HIDE DEF more
  <2>12. e.kind \in Visible => e.of = 0
    BY <2>2 DEF OwnToken1
  <2>13. Seen(y.text, 0) = base \o Seen(r, 0)
    <3>1. CASE e.kind \in Visible
      BY <2>6, <2>7, <2>8, <2>9, <2>10, <2>11, <2>12, <3>1
    <3>2. CASE e.kind \notin Visible
      BY <2>7, <2>8, <2>9, <2>10, <3>2
    <3> QED BY <3>1, <3>2
  <2>14. Keeps(s, p, j + 1, term)
    BY <2>6, <2>7, <2>13 DEF Keeps, y, r, h, base
  <2> QED BY <2>1, <2>14
<1> HIDE DEF T
<1>3. k \in T
  BY <1>1, <1>2, PieceInduction
<1> QED BY <1>3 DEF T

(* No prompt is printed while a command runs.                              *)
LEMMA FeedSpares ==
    ASSUME NEW s, Legal(s), NEW p \in Nat, NEW k \in Nat, p <= k, k <= Len(s),
           NEW term \in Screens, NEW run \in Nat, run # 0, Own(s, p, k, run)
    PROVE  Seen(FeedTerm(term, SubSeq(s, p + 1, k)).text, 0) = Seen(term.text, 0)
<1> DEFINE T == {j \in Nat : Seen(FeedTerm(term, SubSeq(s, p + 1, j)).text, 0) = Seen(term.text, 0)}
<1>1. p \in T
  <2>1. SubSeq(s, p + 1, p) = << >> /\ FeedTerm(term, << >>) = term
    BY PieceEmpty, FeedTermFold
  <2> QED BY <2>1
<1>2. ASSUME NEW j \in p .. k - 1, j \in T PROVE j + 1 \in T
  <2> DEFINE e == s[j + 1]
             q == SubSeq(s, p + 1, j)
             r == SubSeq(s, p + 1, j + 1)
             x == FeedTerm(term, q)
             text == x.text
  <2>1. j \in Nat /\ e \in Tokens /\ q \in Seq(Tokens) /\ r = Append(q, e)
    BY PieceStep
  <2>2. OwnToken1(e, run)
    BY <2>1 DEF Own
  <2>3. Seen(text, 0) = Seen(term.text, 0)
    BY <1>2
  <2> HIDE DEF e, q, r
  <2>4. x \in Screens /\ FeedTerm(term, r) = Advance(x, e)
    BY <2>1, FeedTermFold
  <2>5. text \in Seq(Tokens)
    BY <2>4 DEF Screens
  <2> HIDE DEF x
  <2>6. Advance(x, e).text = IF Prints(x.parser, e.kind) THEN Append(text, e) ELSE text
    BY <2>4, AdvanceParts
  <2> HIDE DEF text
  <2>7. ~(e.kind \in Visible /\ e.of = 0)
    BY <2>2 DEF OwnToken1
  <2>8. Seen(Append(text, e), 0) = Seen(text, 0)
    BY <2>1, <2>5, <2>7, SeenAppend
  <2>9. Seen(FeedTerm(term, r).text, 0) = Seen(term.text, 0)
    BY <2>3, <2>4, <2>6, <2>8
  <2> QED BY <2>1, <2>9 DEF r
<1> HIDE DEF T
<1>3. k \in T
  BY <1>1, <1>2, PieceInduction
<1> QED BY <1>3 DEF T

(* The prompts do not depend on what the grids hold.                       *)
LEMMA PromptsSame ==
    ASSUME NEW st \in Stores, NEW w \in Stores, Same(w, st),
           NEW s, NEW p, NEW cuts, NEW gl, Prompts(s, p, cuts, st, gl)
    PROVE  Prompts(s, p, cuts, w, gl)
<1>1. /\ w.open = st.open /\ Len(w.blocks) = Len(st.blocks)
      /\ \A i \in 1 .. Len(st.blocks) : Like(w.blocks[i], st.blocks[i])
  BY DEF Same
<1>2. Unhurt(w, cuts) => Unhurt(st, cuts)
  BY <1>1 DEF Unhurt, CutShort, Like
<1>3. st.open # 0 => st.open \in 1 .. Len(st.blocks)
  BY StoreParts
<1>4. /\ OpenGrid(w) = None <=> OpenGrid(st) = None
      /\ OpenGrid(st) # None => w.blocks[w.open].command = st.blocks[st.open].command
  BY <1>1, <1>3 DEF OpenGrid, Like
<1> QED BY <1>2, <1>4 DEF Prompts

(* The global terminal, fed a piece while no command runs.                 *)
LEMMA GlobalFed ==
    ASSUME NEW s, Legal(s), NEW p \in Nat, NEW k \in Nat, p <= k, k <= Len(s),
           NEW gl \in Screens, NEW cuts, NEW st, OpenGrid(st) = None,
           Prompts(s, p, cuts, st, gl), Own(s, p, k, 0)
    PROVE  Prompts(s, k, cuts, st, FeedTerm(gl, SubSeq(s, p + 1, k)))
<1> SUFFICES ASSUME Unhurt(st, cuts)
             PROVE  /\ Loose(FeedTerm(gl, SubSeq(s, p + 1, k)).parser, ReadTo(s, k))
                    /\ Seen(FeedTerm(gl, SubSeq(s, p + 1, k)).text, 0) = Seen(SubSeq(s, 1, k), 0)
  BY DEF Prompts
<1>0. s \in Seq(Tokens)
  BY DEF Legal
<1>1. Seen(gl.text, 0) = Seen(SubSeq(s, 1, p), 0) /\ Loose(gl.parser, ReadTo(s, p))
  BY DEF Prompts
<1>2. Keeps(s, p, k, gl)
  BY <1>1, FeedLoose
<1>3. Seen(SubSeq(s, 1, k), 0) = Seen(SubSeq(s, 1, p), 0) \o Seen(SubSeq(s, p + 1, k), 0)
  BY <1>0, PrefixSeen
<1> QED BY <1>1, <1>2, <1>3 DEF Keeps

(* The global terminal, fed a piece of a command or not fed it.            *)
LEMMA GlobalSpared ==
    ASSUME NEW s, Legal(s), NEW p \in Nat, NEW k \in Nat, p <= k, k <= Len(s),
           NEW run \in Nat, run # 0, Own(s, p, k, run), ReadTo(s, p).run = run,
           NEW gl \in Screens, NEW cuts, CutKnown(s, p, cuts),
           NEW st, OpenGrid(st) # None, st.blocks[st.open].command = run,
           Prompts(s, p, cuts, st, gl),
           NEW new \in {gl, FeedTerm(gl, SubSeq(s, p + 1, k))}
    PROVE  Prompts(s, k, cuts, st, new)
<1> SUFFICES ASSUME Unhurt(st, cuts)
             PROVE  /\ Seen(new.text, 0) = Seen(SubSeq(s, 1, k), 0)
                    /\ WholeIn(cuts, run) /\ ReadTo(s, k).at \in {"free", "closing"}
                       => InStep(new.parser, ReadTo(s, k).at)
  BY DEF Prompts
<1>0. s \in Seq(Tokens)
  BY DEF Legal
<1>1. Seen(gl.text, 0) = Seen(SubSeq(s, 1, p), 0)
  BY DEF Prompts
<1>2. Seen(SubSeq(s, p + 1, k), 0) = << >>
  BY <1>0, OwnNotSeen
<1>3. Seen(SubSeq(s, 1, k), 0) = Seen(SubSeq(s, 1, p), 0)
  BY <1>0, <1>2, PrefixSeenSame
<1>4. Seen(FeedTerm(gl, SubSeq(s, p + 1, k)).text, 0) = Seen(gl.text, 0)
  BY FeedSpares
<1>5. ASSUME WholeIn(cuts, run), ReadTo(s, k).at \in {"free", "closing"}
      PROVE  InStep(new.parser, ReadTo(s, k).at)
  <2>1. ReadTo(s, p).at = "free"
    BY <1>5 DEF CutKnown, WholeIn, Token
  <2>2. InStep(gl.parser, ReadTo(s, p).at)
    BY <1>5, <2>1 DEF Prompts
  <2>3. gl.parser = "ground"
    BY <2>1, <2>2 DEF InStep, ParserAt
  <2>4. InStep(gl.parser, ReadTo(s, k).at)
    BY <1>5, <2>3 DEF InStep, ParserAt
  <2>5. InStep(FeedTerm(gl, SubSeq(s, p + 1, k)).parser, ReadTo(s, k).at)
    BY <2>2, FeedInStep
  <2> QED BY <2>4, <2>5
<1> QED BY <1>1, <1>3, <1>4, <1>5

(* What a block shows, its grid fed a piece of its command.                *)
LEMMA ShownMore ==
    ASSUME NEW s \in Seq(Tokens), NEW p \in Nat, NEW k \in Nat, p <= k, k <= Len(s),
           NEW c, NEW cuts, NEW text, ShowsOwn(text, s, p, cuts, c),
           NEW leak \in LeaksIn(cuts, c), leak = << >> \/ text = << >>
    PROVE  ShowsOwn((text \o leak) \o Seen(SubSeq(s, p + 1, k), c), s, k, cuts, c)
<1> DEFINE a == Seen(SubSeq(s, 1, p), c)
           b == Seen(SubSeq(s, p + 1, k), c)
           none == << >>
<1>1. Seen(SubSeq(s, 1, k), c) = a \o b
  BY PrefixSeen
<1>2. a \in Seq(Tokens) /\ b \in Seq(Tokens)
  BY PrefixConcat, SeenType
<1>3. none \in Seq(Tokens) /\ Len(none) = 0
  BY EmptySeq
<1>4. PICK old \in LeaksIn(cuts, c) : text = old \o a
  BY DEF ShowsOwn
<1>5. \A x \in LeaksIn(cuts, c) : x \in Seq(Tokens)
  <2>1. Token("backslash", 0) \in Tokens
    BY DEF Token, Tokens
  <2>2. <<Token("backslash", 0)>> \in Seq(Tokens)
    BY <2>1
  <2> QED BY <1>3, <2>2 DEF LeaksIn
<1>6. \A x \in Seq(Tokens) : x \o none = x /\ none \o x = x
  BY ConcatEmptySeq
<1> HIDE DEF a, b, none
<1>7. old \o (a \o b) = (old \o a) \o b /\ old \o a \in Seq(Tokens)
  <2>1. old \in Seq(Tokens)
    BY <1>4, <1>5
  <2>2. old \o (a \o b) = (old \o a) \o b
    BY <1>2, <2>1, ConcatAssoc
  <2>3. old \o a \in Seq(Tokens)
    BY <1>2, <2>1, ConcatProperties
  <2> QED BY <2>2, <2>3
<1>8. leak = none \/ text = none
  BY DEF none
<1>9. CASE leak = none
  <2>1. (text \o leak) \o b = old \o (a \o b)
    BY <1>4, <1>6, <1>7, <1>9
  <2> QED BY <1>1, <1>4, <2>1 DEF ShowsOwn, b
<1>10. CASE text = none
  <2>1. a = none
    <3>1. Len(old \o a) = Len(old) + Len(a) /\ Len(old) \in Nat /\ Len(a) \in Nat
      BY <1>2, <1>4, <1>5, ConcatProperties, LenProperties
    <3>2. old \o a = none
      BY <1>4, <1>10
    <3>3. Len(old) + Len(a) = 0
      BY <1>3, <3>1, <3>2
    <3>4. Len(a) = 0
      BY <3>1, <3>3
    <3> QED BY <1>2, <3>4, EmptySeq DEF none
  <2>2. (text \o leak) \o b = leak \o b /\ a \o b = b
    BY <1>2, <1>5, <1>6, <1>10, <2>1
  <2> QED BY <1>1, <2>2 DEF ShowsOwn, b
<1> QED BY <1>8, <1>9, <1>10

(* The open grid, fed a piece of its command.                              *)
LEMMA GridFed ==
    ASSUME NEW s, Legal(s), NEW p \in Nat, NEW k \in Nat, p < k, k <= Len(s),
           NEW st \in Stores, NEW run \in Nat, NEW top, Shape(st, run, top), run # 0,
           Own(s, p, k, run), ReadTo(s, p).run = run,
           NEW cuts, CutKnown(s, p, cuts), GridInStep(s, p, st), Routed(s, p, cuts, st),
           NEW t \in Stores, Refed(st, t, FeedTerm(OpenGrid(st), SubSeq(s, p + 1, k)))
    PROVE  GridInStep(s, k, t) /\ Routed(s, k, cuts, t)
<1> DEFINE q == SubSeq(s, p + 1, k)
           grid == OpenGrid(st)
           fed == FeedTerm(grid, q)
           pre == SubSeq(s, 1, p)
           now == SubSeq(s, 1, k)
<1>0. s \in Seq(Tokens)
  BY DEF Legal
<1>1. grid # None /\ st.open \in 1 .. Len(st.blocks) /\ st.blocks[st.open].command = run
  BY GridWhenRunning
<1>2. grid \in Screens /\ grid = st.blocks[st.open].grid
  BY <1>1, GridParts
<1> DEFINE at == ReadTo(s, p).at
           leak == Leak(grid.parser, at)
           text == grid.text
<1>3. /\ InStep(grid.parser, at)
      /\ leak \in LeaksIn(cuts, run) /\ (leak = << >> \/ text = << >>)
  <2> HIDE DEF grid
  <2>1. \/ grid.parser = ParserAt(at)
        \/ at = "closing" /\ grid.parser = "ground" /\ text = << >>
    BY <1>1 DEF GridInStep, grid
  <2>2. Joins(ReadTo(s, p), s[p + 1], ReadTo(s, p + 1).at)
    <3>1. p \in p .. k - 1
      OBVIOUS
    <3> QED BY <3>1, PieceStep
  <2>3. at = "closing" => Token("backslash", run) \in cuts
    BY <2>2 DEF CutKnown, Joins
  <2>4. leak # << >> => at = "closing" /\ grid.parser = "ground" /\ leak = <<Token("backslash", 0)>>
    BY DEF Leak
  <2>5. at = "closing" /\ grid.parser = "ground" => text = << >>
    BY <2>1 DEF ParserAt
  <2>6. leak \in LeaksIn(cuts, run)
    <3> HIDE DEF leak
    <3> QED BY <2>3, <2>4 DEF LeaksIn
  <2> QED BY <2>1, <2>4, <2>5, <2>6 DEF InStep
<1>4. /\ fed.parser = ParserAt(ReadTo(s, k).at)
      /\ fed.text = (text \o leak) \o Keep(q, Shown)
  <2>1. Sees(s, p, k, grid)
    <3> HIDE DEF grid
    <3> QED BY <1>2, <1>3, FeedSees
  <2> QED BY <2>1 DEF Sees
<1>5. OpenGrid(t) = fed /\ t.blocks[st.open].command = run /\ Contents(t.blocks[st.open]) = fed
      /\ Len(t.blocks) = Len(st.blocks)
      /\ \A i \in 1 .. Len(st.blocks) : i # st.open => t.blocks[i] = st.blocks[i]
  BY <1>1 DEF Refed, Same
<1>6. ShowsOwn(text, s, p, cuts, run)
  <2>1. Contents(st.blocks[st.open]) = grid /\ run # None
    BY <1>1, <1>2, FeedAssumption DEF Contents
  <2> QED BY <1>1, <2>1 DEF Routed
<1>7. Keep(q, Shown) = Seen(q, run)
  BY <1>0, OwnSeen
<1> HIDE DEF q, grid, fed, pre, now, leak, text
<1>8. ShowsOwn(fed.text, s, k, cuts, run)
  <2>1. ShowsOwn((text \o leak) \o Seen(SubSeq(s, p + 1, k), run), s, k, cuts, run)
    BY <1>0, <1>3, <1>6, ShownMore
  <2> QED BY <1>4, <1>7, <2>1 DEF q
<1>9. GridInStep(s, k, t)
  BY <1>4, <1>5 DEF GridInStep
<1>10. ASSUME NEW i \in 1 .. Len(t.blocks), t.blocks[i].command # None
       PROVE  ShowsOwn(Contents(t.blocks[i]).text, s, k, cuts, t.blocks[i].command)
  <2>1. CASE i = st.open
    BY <1>5, <1>8, <2>1
  <2>2. CASE i # st.open
    <3> DEFINE c == st.blocks[i].command
    <3>1. i \in 1 .. Len(st.blocks) /\ t.blocks[i] = st.blocks[i] /\ c # None
      BY <1>5, <1>10, <2>2
    <3>2. c \in Nat /\ c # run
      BY <2>2, <3>1, GridWhenRunning
    <3>3. ShowsOwn(Contents(st.blocks[i]).text, s, p, cuts, c)
      BY <3>1 DEF Routed
    <3> HIDE DEF c
    <3>4. Seen(q, c) = << >>
      BY <1>0, <3>2, OwnNotSeen DEF q
    <3>5. Seen(now, c) = Seen(pre, c)
      BY <1>0, <3>4, PrefixSeenSame DEF q, now, pre
    <3> QED BY <3>1, <3>3, <3>5 DEF c, ShowsOwn, now, pre
  <2> QED BY <2>1, <2>2
<1> QED BY <1>9, <1>10 DEF Routed

(* With no command running the blocks stay as they are.                    *)
LEMMA BlocksSpared ==
    ASSUME NEW s, Legal(s), NEW p \in Nat, NEW k \in Nat, p <= k, k <= Len(s),
           NEW st \in Stores, NEW top, Shape(st, 0, top), Own(s, p, k, 0),
           NEW cuts, Routed(s, p, cuts, st)
    PROVE  GridInStep(s, k, st) /\ Routed(s, k, cuts, st)
<1>0. s \in Seq(Tokens)
  BY DEF Legal
<1>1. OpenGrid(st) = None
  BY DEF Shape
<1>2. ASSUME NEW i \in 1 .. Len(st.blocks), st.blocks[i].command # None
      PROVE  ShowsOwn(Contents(st.blocks[i]).text, s, k, cuts, st.blocks[i].command)
  <2> DEFINE c == st.blocks[i].command
  <2>1. c \in Nat /\ c # 0
    BY <1>2, GridWhenRunning
  <2>2. ShowsOwn(Contents(st.blocks[i]).text, s, p, cuts, c)
    BY <1>2 DEF Routed
  <2> HIDE DEF c
  <2>3. Seen(SubSeq(s, p + 1, k), c) = << >>
    BY <1>0, <2>1, OwnNotSeen
  <2>4. Seen(SubSeq(s, 1, k), c) = Seen(SubSeq(s, 1, p), c)
    BY <1>0, <2>3, PrefixSeenSame
  <2> QED BY <2>2, <2>4 DEF c, ShowsOwn
<1> QED BY <1>1, <1>2 DEF GridInStep, Routed

(* The alternate screen, when no command runs.                             *)
LEMMA AltSpared ==
    ASSUME NEW s, Legal(s), NEW p \in Nat, NEW k \in Nat, p <= k, k <= Len(s),
           NEW st \in Stores, OpenGrid(st) = None, Own(s, p, k, 0),
           NEW gl \in Screens, AltKnown(s, p, st, gl)
    PROVE  AltKnown(s, k, st, FeedTerm(gl, SubSeq(s, p + 1, k)))
<1>1. FeedTerm(gl, SubSeq(s, p + 1, k)).alt = gl.alt
  BY FeedKeepsAlt DEF Legal
<1> QED BY <1>1 DEF AltKnown

(* The alternate screen, for the command that runs.                        *)
LEMMA AltFed ==
    ASSUME NEW s, Legal(s), NEW p \in Nat, NEW k \in Nat, p < k, k <= Len(s),
           NEW st \in Stores, OpenGrid(st) # None, GridInStep(s, p, st),
           NEW gl \in Screens, AltKnown(s, p, st, gl),
           NEW t \in Stores, Refed(st, t, FeedTerm(OpenGrid(st), SubSeq(s, p + 1, k)))
    PROVE  AltKnown(s, k, t, IF OpenGrid(st).alt \/ OpenGrid(t).alt
                             THEN FeedTerm(gl, SubSeq(s, p + 1, k)) ELSE gl)
<1> DEFINE q == SubSeq(s, p + 1, k)
           a == OpenGrid(st)
           fed == FeedTerm(a, q)
           gfed == FeedTerm(gl, q)
<1>0. s \in Seq(Tokens) /\ q \in Seq(Tokens)
  BY PieceType DEF Legal
<1>1. a \in Screens /\ a # None
  BY GridParts
<1>2. fed \in Screens /\ fed # None /\ gfed \in Screens
  BY <1>0, <1>1, FeedType, FeedAssumption
<1>3. OpenGrid(t) = fed /\ (Calm(t) <=> Calm(st))
  BY DEF Refed
<1>4. /\ Calm(st) /\ gl.alt => a.alt
      /\ a.alt /\ ReadTo(s, p).at = "escape" => gl.parser = "esc"
  BY <1>1 DEF AltKnown
<1>5. a.alt => Follows(ReadTo(s, k).at, fed, gfed)
  <2>1. ASSUME a.alt PROVE Follows(ReadTo(s, p).at, a, gl)
    BY <1>4, <2>1 DEF Follows
  <2>2. InStep(a.parser, ReadTo(s, p).at)
    BY <1>1 DEF GridInStep, InStep
  <2> HIDE DEF a
  <2>3. ASSUME a.alt
        PROVE  Follows(ReadTo(s, k).at, FeedTerm(a, SubSeq(s, p + 1, k)),
                       FeedTerm(gl, SubSeq(s, p + 1, k)))
    BY <1>1, <2>1, <2>2, <2>3, FeedFollows
  <2> QED BY <2>3
<1>6. ReadTo(s, k).at = "escape" => gfed.parser = "esc"
  <2>1. s[k].kind = "esc" => gfed.parser = "esc"
    BY <1>0, FeedEndsEsc
  <2>2. k - 1 \in p .. k - 1 /\ (k - 1) + 1 = k
    OBVIOUS
  <2> DEFINE j == k - 1
  <2> HIDE DEF j
  <2>3. j \in p .. k - 1 /\ j + 1 = k
    BY <2>2 DEF j
  <2>4. Joins(ReadTo(s, j), s[k], ReadTo(s, k).at)
    BY <2>3, PieceStep
  <2> QED BY <2>1, <2>4 DEF Joins
<1> HIDE DEF q, a, fed, gfed
<1>7. CASE a.alt \/ fed.alt
  <2>1. Calm(st) /\ gfed.alt => fed.alt
    BY <1>5, <1>7 DEF Follows
  <2>2. AltKnown(s, k, t, gfed)
    BY <1>2, <1>3, <1>6, <2>1 DEF AltKnown
  <2> QED BY <1>3, <1>7, <2>2 DEF a, gfed, q
<1>8. CASE ~(a.alt \/ fed.alt)
  <2>1. AltKnown(s, k, t, gl)
    BY <1>2, <1>3, <1>4, <1>8 DEF AltKnown
  <2> QED BY <1>3, <1>8, <2>1 DEF a
<1> QED BY <1>7, <1>8

-----------------------------------------------------------------------------
(* Dispatching a piece: the terminals show it, nothing else changes.       *)

Outputs(st, t) ==
    /\ Len(t.blocks) = Len(st.blocks)
    /\ \A i \in 1 .. Len(st.blocks) :
          /\ t.blocks[i].command = st.blocks[i].command
          /\ st.blocks[i].command # None => Contents(t.blocks[i]).output = Contents(st.blocks[i]).output

(* Dispatching changes the terminals' screens and nothing else.            *)
Dispatched(t, u) ==
    /\ u \in Turns /\ u.cursor = t.cursor /\ u.panicked = t.panicked
    /\ Same(u.store, t.store) /\ Outputs(t.store, u.store)

(* No change is such a change.                                             *)
LEMMA SameRefl ==
    ASSUME NEW s
    PROVE  Same(s, s) /\ Outputs(s, s)
BY DEF Same, Like, Outputs

(* A piece between two places is not empty.                                *)
LEMMA PieceSome ==
    ASSUME NEW s \in Seq(Tokens), NEW p \in Nat, NEW k \in Nat, p < k, k <= Len(s)
    PROVE  SubSeq(s, p + 1, k) # << >>
<1>1. \A i \in p + 1 .. k : s[i] \in Tokens
  BY LenProperties, ElementOfSeq
<1>2. Len(SubSeq(s, p + 1, k)) = IF p + 1 <= k THEN k - (p + 1) + 1 ELSE 0
  BY <1>1, SubSeqProperties
<1>3. Len(SubSeq(s, p + 1, k)) # 0
  BY <1>2
<1> QED BY <1>3, EmptySeq

(* The two ways a piece that is not empty goes.                            *)
LEMMA DispatchGlobal ==
    ASSUME NEW t \in Turns, OpenGrid(t.store) = None, NEW q, q # << >>
    PROVE  /\ Dispatch(t, q) = [t EXCEPT !.global = FeedTerm(t.global, q)]
BY DEF Dispatch

(* With a grid open it goes to the grid, and to the global terminal when   *)
(* the grid is or gets in the alternate screen.                            *)
LEMMA DispatchGrid ==
    ASSUME NEW t \in Turns, OpenGrid(t.store) # None, NEW q \in Seq(Tokens), q # << >>
    PROVE  LET fed == FeedTerm(OpenGrid(t.store), q)
               u == Dispatch(t, q)
           IN  /\ u.store = FeedOpen(t.store, fed)
               /\ u.global = IF OpenGrid(t.store).alt \/ fed.alt
                             THEN FeedTerm(t.global, q) ELSE t.global
               /\ u.cursor = t.cursor /\ u.panicked = t.panicked
               /\ u \in Turns
<1> DEFINE a == OpenGrid(t.store)
           fed == FeedTerm(a, q)
           st == FeedOpen(t.store, fed)
           gl == IF a.alt \/ fed.alt THEN FeedTerm(t.global, q) ELSE t.global
<1>1. t.store \in Stores /\ t.global \in Screens
  BY DEF Turns
<1>2. a \in Screens
  BY <1>1, GridParts
<1>3. fed \in Screens /\ FeedTerm(t.global, q) \in Screens
  BY <1>1, <1>2, FeedType
<1>4. Dispatch(t, q) = [t EXCEPT !.store = st, !.global = gl]
  BY DEF Dispatch
<1> HIDE DEF fed, a
<1>5. st \in Stores
  <2>1. Refed(t.store, st, fed)
    BY <1>1, <1>3, FeedOpenRefeds
  <2> QED BY <2>1 DEF Refed
<1>6. gl \in Screens
  BY <1>1, <1>3
<1> HIDE DEF st, gl
<1> DEFINE u == Dispatch(t, q)
<1>7. u \in Turns /\ u.store = st /\ u.global = gl /\ u.cursor = t.cursor /\ u.panicked = t.panicked
  BY <1>4, <1>5, <1>6 DEF Turns
<1> QED BY <1>7 DEF st, gl, fed, a

(* A piece of the command running, dispatched, leaves the terminal         *)
(* faithful at the end of the piece.                                       *)
LEMMA DispatchShows ==
    ASSUME NEW s, Legal(s), NEW p \in Nat, NEW k \in Nat, p <= k, k <= Len(s),
           NEW t \in Turns, NEW run \in Nat, NEW top, Shape(t.store, run, top),
           Own(s, p, k, run), NEW cuts, Faithful(s, p, cuts, t.store, t.global),
           run # 0 => ReadTo(s, p).run = run, CutKnown(s, p, cuts)
    PROVE  /\ Dispatched(t, Dispatch(t, SubSeq(s, p + 1, k)))
           /\ Faithful(s, k, cuts, Dispatch(t, SubSeq(s, p + 1, k)).store,
                       Dispatch(t, SubSeq(s, p + 1, k)).global)
<1> DEFINE q == SubSeq(s, p + 1, k)
           u == Dispatch(t, q)
           st == t.store
           gl == t.global
<1>0. s \in Seq(Tokens) /\ q \in Seq(Tokens) /\ st \in Stores /\ gl \in Screens
  BY PieceType DEF Legal, Turns
<1>1. CASE p = k
  <2>1. q = << >>
    BY <1>1, PieceEmpty
  <2>2. u = t
    BY <2>1 DEF Dispatch
  <2>3. Dispatched(t, t)
    BY SameRefl DEF Dispatched
  <2> HIDE DEF u
  <2> QED BY <1>1, <2>2, <2>3 DEF u
<1>2. CASE p # k /\ run = 0
  <2>1. p < k /\ q # << >>
    BY <1>0, <1>2, PieceSome
  <2>2. OpenGrid(st) = None
    BY <1>2 DEF Shape
  <2> HIDE DEF q
  <2>3. FeedTerm(gl, q) \in Screens
    BY <1>0, FeedType
  <2>4. u = [t EXCEPT !.global = FeedTerm(gl, q)]
    BY <2>1, <2>2, DispatchGlobal
  <2> HIDE DEF u
  <2>5. u \in Turns /\ u.cursor = t.cursor /\ u.panicked = t.panicked /\ u.store = st
        /\ u.global = FeedTerm(gl, q)
    BY <2>3, <2>4 DEF Turns
  <2> HIDE DEF st, gl
  <2>6. Shape(st, 0, top) /\ Own(s, p, k, 0)
    BY <1>2 DEF st
  <2>7. Routed(s, p, cuts, st) /\ Prompts(s, p, cuts, st, gl) /\ AltKnown(s, p, st, gl)
    BY DEF Faithful, st, gl
  <2>8. GridInStep(s, k, st) /\ Routed(s, k, cuts, st)
    BY <1>0, <2>6, <2>7, BlocksSpared
  <2>9. Prompts(s, k, cuts, st, FeedTerm(gl, q))
    BY <1>0, <2>2, <2>6, <2>7, GlobalFed DEF q
  <2>10. AltKnown(s, k, st, FeedTerm(gl, q))
    BY <1>0, <2>2, <2>6, <2>7, AltSpared DEF q
  <2>11. Faithful(s, k, cuts, u.store, u.global)
    BY <2>5, <2>8, <2>9, <2>10 DEF Faithful
  <2>12. Dispatched(t, u)
    BY <2>5, SameRefl DEF Dispatched, st
  <2> QED BY <2>11, <2>12 DEF u, q
<1>3. CASE p # k /\ run # 0
  <2>1. p < k /\ q # << >>
    BY <1>0, <1>3, PieceSome
  <2>2. OpenGrid(st) # None /\ st.open \in 1 .. Len(st.blocks) /\ st.blocks[st.open].command = run
    BY <1>0, <1>3, GridWhenRunning
  <2> DEFINE a == OpenGrid(st)
             fed == FeedTerm(a, q)
  <2>3. a \in Screens /\ a = st.blocks[st.open].grid
    BY <1>0, <2>2, GridParts
  <2>4. /\ u.store = FeedOpen(st, fed)
        /\ u.global = IF a.alt \/ fed.alt THEN FeedTerm(gl, q) ELSE gl
        /\ u.cursor = t.cursor /\ u.panicked = t.panicked /\ u \in Turns
    BY <1>0, <2>1, <2>2, DispatchGrid
  <2> HIDE DEF u
  <2>5. fed \in Screens /\ u.store \in Stores
    BY <1>0, <2>3, <2>4, FeedType DEF Turns
  <2> DEFINE w == u.store
  <2>6. Refed(st, w, fed)
    BY <1>0, <2>2, <2>4, <2>5, FeedOpenRefeds
  <2>7. OpenGrid(w) = fed
    BY <2>6 DEF Refed
  <2>8. fed.output = a.output
    BY <1>0, <2>3, FeedOutput
  <2> HIDE DEF st, gl, w
  <2>9. GridInStep(s, p, st) /\ Routed(s, p, cuts, st) /\ Prompts(s, p, cuts, st, gl) /\ AltKnown(s, p, st, gl)
        /\ Shape(st, run, top)
    BY DEF Faithful, st, gl
  <2>10. w \in Stores /\ Refed(st, w, FeedTerm(OpenGrid(st), SubSeq(s, p + 1, k)))
    BY <2>5, <2>6 DEF w
  <2>11. GridInStep(s, k, w) /\ Routed(s, k, cuts, w)
    BY <1>0, <1>3, <2>9, <2>10, GridFed
  <2>12. AltKnown(s, k, w, u.global)
    <3>1. AltKnown(s, k, w, IF OpenGrid(st).alt \/ OpenGrid(w).alt
                            THEN FeedTerm(gl, SubSeq(s, p + 1, k)) ELSE gl)
      BY <1>0, <2>1, <2>2, <2>9, <2>10, AltFed
    <3> QED BY <2>4, <2>7, <3>1
  <2>13. u.global \in {gl, FeedTerm(gl, SubSeq(s, p + 1, k))}
    BY <2>4
  <2>14. Prompts(s, k, cuts, st, u.global)
    BY <1>0, <1>3, <2>2, <2>9, <2>13, GlobalSpared
  <2>16. Same(w, st)
    BY <2>6 DEF Refed
  <2>15. Prompts(s, k, cuts, w, u.global)
    BY <1>0, <2>10, <2>14, <2>16, PromptsSame
  <2>17. Outputs(st, w)
    <3>1. Contents(st.blocks[st.open]) = a /\ Contents(w.blocks[st.open]) = fed
          /\ w.blocks[st.open].command = st.blocks[st.open].command
          /\ \A i \in 1 .. Len(st.blocks) : i # st.open => w.blocks[i] = st.blocks[i]
      BY <2>2, <2>3, <2>6 DEF Refed, Contents
    <3>2. Len(w.blocks) = Len(st.blocks)
      BY <2>16 DEF Same
    <3> HIDE DEF a, fed
    <3> QED BY <2>8, <3>1, <3>2 DEF Outputs
  <2>18. Faithful(s, k, cuts, u.store, u.global)
    BY <2>11, <2>12, <2>15 DEF Faithful, w
  <2>19. Dispatched(t, u)
    BY <2>4, <2>16, <2>17 DEF Dispatched, st, w
  <2> QED BY <2>18, <2>19 DEF u
<1> QED BY <1>1, <1>2, <1>3

(* Being the same is transitive.                                           *)
LEMMA SameTrans ==
    ASSUME NEW s, NEW t, NEW u, Same(s, t), Same(t, u)
    PROVE  Same(s, u)
BY DEF Same, Like

-----------------------------------------------------------------------------
(* Capturing bytes: the output of the open grid grows, nothing else does.  *)

CapturedGrid(x, bytes) == [x EXCEPT !.output = AppendCapped(x.output, bytes)]

(* The fields of a grid that captured q.                                   *)
LEMMA CapturedGridParts ==
    ASSUME NEW x \in Screens, NEW q \in Seq(Tokens)
    PROVE  /\ CapturedGrid(x, q) \in Screens
           /\ CapturedGrid(x, q).parser = x.parser /\ CapturedGrid(x, q).alt = x.alt
           /\ CapturedGrid(x, q).text = x.text
           /\ CapturedGrid(x, q).output = AppendCapped(x.output, q)
<1> DEFINE out == x.output
           new == AppendCapped(out, q)
<1>1. out \in Seq(Tokens)
  BY DEF Screens
<1> HIDE DEF out
<1>2. new \in Seq(Tokens)
  BY <1>1, AppendCappedFold
<1>3. CapturedGrid(x, q) = [x EXCEPT !.output = new]
  BY DEF CapturedGrid, out
<1> HIDE DEF new
<1>4. /\ CapturedGrid(x, q) \in Screens
      /\ CapturedGrid(x, q).parser = x.parser /\ CapturedGrid(x, q).alt = x.alt
      /\ CapturedGrid(x, q).text = x.text
      /\ CapturedGrid(x, q).output = new
  BY <1>2, <1>3 DEF Screens
<1> QED BY <1>4 DEF new, out

(* Capture replaces the open grid by one that captured the bytes.          *)
LEMMA CaptureGrid ==
    ASSUME NEW t \in Turns, OpenGrid(t.store) # None, NEW q \in Seq(Tokens)
    PROVE  /\ Capture(t, q) \in Turns
           /\ Capture(t, q).global = t.global /\ Capture(t, q).cursor = t.cursor
           /\ Capture(t, q).panicked = t.panicked
           /\ Refed(t.store, Capture(t, q).store, CapturedGrid(OpenGrid(t.store), q))
<1> DEFINE st == t.store
           x == CapturedGrid(OpenGrid(st), q)
           w == FeedOpen(st, x)
<1>1. st \in Stores /\ OpenGrid(st) \in Screens
  BY GridParts DEF Turns
<1>2. x \in Screens
  BY <1>1, CapturedGridParts
<1>3. Capture(t, q) = [t EXCEPT !.store = w]
  BY DEF Capture, CapturedGrid
<1> HIDE DEF x
<1>4. Refed(st, w, x)
  BY <1>1, <1>2, FeedOpenRefeds
<1>5. w \in Stores
  BY <1>4 DEF Refed
<1> HIDE DEF w
<1>6. /\ Capture(t, q) \in Turns /\ Capture(t, q).store = w
      /\ Capture(t, q).global = t.global /\ Capture(t, q).cursor = t.cursor
      /\ Capture(t, q).panicked = t.panicked
  BY <1>3, <1>5 DEF Turns
<1> QED BY <1>4, <1>6 DEF x

(* What the blocks have captured more, when command run is running.        *)
Captures(st, t, run, q) ==
    \A i \in 1 .. Len(st.blocks) : st.blocks[i].command # None =>
        Contents(t.blocks[i]).output =
            IF st.blocks[i].command = run THEN AppendCapped(Contents(st.blocks[i]).output, q)
            ELSE Contents(st.blocks[i]).output

(* Nothing but the captures changed.                                       *)
SameBut(t, u) ==
    /\ u \in Turns /\ u.cursor = t.cursor /\ u.panicked = t.panicked
    /\ u.global = t.global
    /\ Same(u.store, t.store)

(* Capturing changes nothing of what is shown, and captures for the        *)
(* command running.                                                        *)
LEMMA CaptureShows ==
    ASSUME NEW t \in Turns, NEW q \in Seq(Tokens), NEW run \in Nat, NEW top,
           Shape(t.store, run, top), NEW s, NEW p, NEW cuts,
           Faithful(s, p, cuts, t.store, t.global)
    PROVE  /\ SameBut(t, Capture(t, q))
           /\ Faithful(s, p, cuts, Capture(t, q).store, Capture(t, q).global)
           /\ Captures(t.store, Capture(t, q).store, run, q)
<1> DEFINE u == Capture(t, q)
           st == t.store
           w == u.store
           x == OpenGrid(st)
           y == CapturedGrid(x, q)
<1>0. st \in Stores
  BY DEF Turns
<1>1. CASE run = 0
  <2>1. OpenGrid(st) = None
    BY <1>1 DEF Shape
  <2>2. u = t
    BY <2>1 DEF Capture
  <2>3. \A i \in 1 .. Len(st.blocks) : st.blocks[i].command # None => st.blocks[i].command # run
    BY <1>0, <1>1, GridWhenRunning
  <2>4. Captures(st, st, run, q)
    BY <2>3 DEF Captures
  <2>5. SameBut(t, t)
    BY SameRefl DEF SameBut
  <2> HIDE DEF u
  <2> QED BY <2>2, <2>4, <2>5 DEF u
<1>2. CASE run # 0
  <2>1. x # None /\ st.open \in 1 .. Len(st.blocks) /\ st.blocks[st.open].command = run
    BY <1>0, <1>2, GridWhenRunning
  <2>2. x \in Screens /\ x = st.blocks[st.open].grid
    BY <1>0, <2>1, GridParts
  <2>3. /\ u \in Turns /\ u.global = t.global /\ u.cursor = t.cursor /\ u.panicked = t.panicked
        /\ Refed(st, w, y)
    BY <2>1, CaptureGrid
  <2>4. y \in Screens /\ y.parser = x.parser /\ y.alt = x.alt /\ y.text = x.text
        /\ y.output = AppendCapped(x.output, q)
    BY <2>2, CapturedGridParts
  <2>5. x = Contents(st.blocks[st.open])
    BY <2>1, <2>2 DEF Contents
  <2> DEFINE c == st.blocks
             d == w.blocks
  <2>6. /\ w \in Stores /\ Same(w, st) /\ OpenGrid(w) = y /\ (Calm(w) <=> Calm(st))
        /\ d[st.open].command = c[st.open].command /\ Contents(d[st.open]) = y
        /\ \A i \in 1 .. Len(c) : i # st.open => d[i] = c[i]
    BY <2>3 DEF Refed
  <2>7. Len(d) = Len(c)
    BY <2>6 DEF Same
  <2>8. ASSUME NEW i \in 1 .. Len(c), c[i].command # None
        PROVE  i # st.open => c[i].command # run
    BY <1>0, <2>8, GridWhenRunning
  <2> HIDE DEF w, u, x, y, st
  <2>9. Captures(st, w, run, q)
    <3>1. ASSUME NEW i \in 1 .. Len(c), c[i].command # None
          PROVE  Contents(d[i]).output =
                    IF c[i].command = run THEN AppendCapped(Contents(c[i]).output, q)
                    ELSE Contents(c[i]).output
      <4>1. CASE i = st.open
        BY <2>1, <2>4, <2>5, <2>6, <4>1
      <4>2. CASE i # st.open
        BY <2>6, <2>8, <3>1, <4>2
      <4> QED BY <4>1, <4>2
    <3> QED BY <3>1 DEF Captures
  <2>10. /\ GridInStep(s, p, st) /\ Routed(s, p, cuts, st)
         /\ Prompts(s, p, cuts, st, t.global) /\ AltKnown(s, p, st, t.global)
    BY DEF Faithful, st
  <2>11. y # None
    BY <2>4, FeedAssumption
  <2>12. GridInStep(s, p, w)
    BY <2>1, <2>4, <2>6, <2>10 DEF GridInStep, x
  <2>13. AltKnown(s, p, w, t.global)
    BY <2>1, <2>4, <2>6, <2>10, <2>11 DEF AltKnown, x
  <2>14. Routed(s, p, cuts, w)
    <3>1. ASSUME NEW i \in 1 .. Len(d), d[i].command # None
          PROVE  ShowsOwn(Contents(d[i]).text, s, p, cuts, d[i].command)
      <4>1. CASE i = st.open
        <5>1. d[i].command = c[i].command /\ Contents(d[i]).text = Contents(c[i]).text
          BY <2>4, <2>5, <2>6, <4>1
        <5> QED BY <2>7, <2>10, <3>1, <5>1 DEF Routed
      <4>2. CASE i # st.open
        BY <2>6, <2>7, <2>10, <3>1, <4>2 DEF Routed
      <4> QED BY <4>1, <4>2
    <3> QED BY <3>1 DEF Routed
  <2>17. Prompts(s, p, cuts, w, t.global)
    BY <1>0, <2>6, <2>10, PromptsSame
  <2>15. Faithful(s, p, cuts, w, u.global)
    BY <2>3, <2>12, <2>13, <2>14, <2>17 DEF Faithful
  <2>16. SameBut(t, u)
    BY <2>3, <2>6 DEF SameBut, st, w
  <2> QED BY <2>9, <2>15, <2>16 DEF u, w, st
<1> QED BY <1>1, <1>2

(* Capturing one piece after the other.                                    *)
LEMMA CappedConcat ==
    ASSUME NEW out \in Seq(Tokens), NEW a \in Seq(Tokens), NEW b \in Seq(Tokens)
    PROVE  AppendCapped(out, a \o b) = AppendCapped(AppendCapped(out, a), b)
<1> DEFINE mid == AppendCapped(out, a)
           T == {z \in Seq(Tokens) : AppendCapped(out, a \o z) = AppendCapped(mid, z)}
<1>0. mid \in Seq(Tokens)
  BY AppendCappedFold
<1>1. << >> \in T
  <2>1. a \o << >> = a
    BY ConcatEmptySeq
  <2>2. AppendCapped(mid, << >>) = mid
    <3> HIDE DEF mid
    <3> QED BY <1>0, AppendCappedFold
  <2> QED BY <2>1, <2>2, EmptySeq
<1> HIDE DEF mid
<1>2. ASSUME NEW z \in Seq(Tokens), NEW e \in Tokens, z \in T PROVE Append(z, e) \in T
  <2> DEFINE az == a \o z
  <2>1. a \o Append(z, e) = Append(az, e)
    BY ConcatAppend
  <2>2. az \in Seq(Tokens)
    BY ConcatProperties
  <2>3. AppendCapped(out, az) = AppendCapped(mid, z)
    BY <1>2
  <2> HIDE DEF az
  <2>4. AppendCapped(out, Append(az, e)) = AppendOne(AppendCapped(out, az), e)
    BY <2>2, AppendCappedFold
  <2>5. AppendCapped(mid, Append(z, e)) = AppendOne(AppendCapped(mid, z), e)
    BY <1>0, AppendCappedFold
  <2>6. Append(z, e) \in Seq(Tokens)
    BY AppendProperties
  <2> QED BY <2>1, <2>3, <2>4, <2>5, <2>6
<1> HIDE DEF T
<1>3. b \in T
  BY <1>1, <1>2, SeqSetInduction
<1> QED BY <1>3 DEF T, mid

-----------------------------------------------------------------------------
(* What the blocks have captured after p tokens.                           *)

Capped(s, p, command) == AppendCapped(<< >>, Keep(SubSeq(s, 1, p), Output({command})))

(* Each block has captured the output of its command, up to the cap, if no *)
(* border tore something while that command was running.                   *)
CapturedTo(s, p, cuts, st) ==
    \A i \in 1 .. Len(st.blocks) :
        st.blocks[i].command # None /\ WholeIn(cuts, st.blocks[i].command) =>
            Contents(st.blocks[i]).output = Capped(s, p, st.blocks[i].command)

(* A piece of another command is nothing to capture.                       *)
LEMMA CappedSpared ==
    ASSUME NEW s \in Seq(Tokens), NEW p \in Nat, NEW k \in Nat, p <= k, k <= Len(s),
           NEW c, Keep(SubSeq(s, p + 1, k), Output({c})) = << >>
    PROVE  Capped(s, k, c) = Capped(s, p, c)
<1> DEFINE S == Output({c})
<1>1. Keep(SubSeq(s, p + 1, k), S) = << >>
  OBVIOUS
<1> HIDE DEF S
<1>2. Keep(SubSeq(s, 1, k), S) = Keep(SubSeq(s, 1, p), S)
  BY <1>1, PrefixKeepSame
<1> QED BY <1>2 DEF Capped, S

(* The capture up to k, from the one up to p and the piece between.        *)
LEMMA CappedMore ==
    ASSUME NEW s \in Seq(Tokens), NEW p \in Nat, NEW k \in Nat, p <= k, k <= Len(s), NEW c
    PROVE  Capped(s, k, c) = AppendCapped(Capped(s, p, c), Keep(SubSeq(s, p + 1, k), Output({c})))
<1> DEFINE S == Output({c})
           a == Keep(SubSeq(s, 1, p), S)
           b == Keep(SubSeq(s, p + 1, k), S)
           none == << >>
<1> HIDE DEF S
<1>1. Keep(SubSeq(s, 1, k), S) = a \o b /\ a \in Seq(Tokens) /\ b \in Seq(Tokens)
  BY PrefixKeep
<1> HIDE DEF a, b
<1>2. none \in Seq(Tokens)
  BY EmptySeq
<1> HIDE DEF none
<1>3. AppendCapped(none, a \o b) = AppendCapped(AppendCapped(none, a), b)
  BY <1>1, <1>2, CappedConcat
<1> QED BY <1>1, <1>3 DEF Capped, S, none, a, b

(* The capture of a piece is exact when what is captured is what the       *)
(* command running wrote of it.                                            *)
LEMMA CaptureExactly ==
    ASSUME NEW s \in Seq(Tokens), NEW p \in Nat, NEW k \in Nat, p <= k, k <= Len(s),
           NEW run \in Nat, Own(s, p, k, run), NEW q, NEW cuts,
           run # 0 /\ WholeIn(cuts, run) => Keep(SubSeq(s, p + 1, k), Output({run})) = q,
           NEW st \in Stores, NEW top, Shape(st, run, top), CapturedTo(s, p, cuts, st),
           NEW w \in Stores, Same(w, st), Captures(st, w, run, q)
    PROVE  CapturedTo(s, k, cuts, w)
<1> DEFINE b == st.blocks
           d == w.blocks
<1>1. Len(d) = Len(b) /\ \A i \in 1 .. Len(b) : d[i].command = b[i].command
  BY DEF Same, Like
<1>2. ASSUME NEW i \in 1 .. Len(b), b[i].command # None, WholeIn(cuts, b[i].command)
      PROVE  Contents(d[i]).output = Capped(s, k, b[i].command)
  <2> DEFINE c == b[i].command
             o == Contents(b[i]).output
  <2>1. c \in Nat /\ c # 0
    BY <1>2, GridWhenRunning
  <2>2. o = Capped(s, p, c)
    BY <1>2 DEF CapturedTo
  <2>3. Contents(d[i]).output = IF c = run THEN AppendCapped(o, q) ELSE o
    BY <1>2 DEF Captures
  <2> HIDE DEF c, o
  <2>4. CASE c = run
    <3>1. Keep(SubSeq(s, p + 1, k), Output({c})) = q
      BY <1>2, <2>1, <2>4 DEF c
    <3>2. Capped(s, k, c) = AppendCapped(Capped(s, p, c), Keep(SubSeq(s, p + 1, k), Output({c})))
      BY CappedMore
    <3> QED BY <2>2, <2>3, <2>4, <3>1, <3>2 DEF c
  <2>5. CASE c # run
    <3>1. Keep(SubSeq(s, p + 1, k), Output({c})) = << >>
      BY <2>1, <2>5, OwnNoOutput
    <3>2. Capped(s, k, c) = Capped(s, p, c)
      BY <3>1, CappedSpared
    <3> QED BY <2>2, <2>3, <2>5, <3>2 DEF c
  <2> QED BY <2>4, <2>5
<1> HIDE DEF b, d
<1>3. \A i \in 1 .. Len(d) : d[i].command # None /\ WholeIn(cuts, d[i].command)
          => Contents(d[i]).output = Capped(s, k, d[i].command)
  BY <1>1, <1>2
<1> QED BY <1>3 DEF CapturedTo, d

(* Dispatching leaves the captures as they are.                            *)
LEMMA OutputsKept ==
    ASSUME NEW s, NEW p, NEW cuts, NEW st, NEW w, CapturedTo(s, p, cuts, st), Outputs(st, w)
    PROVE  CapturedTo(s, p, cuts, w)
<1> DEFINE b == st.blocks
           d == w.blocks
<1>1. Len(d) = Len(b)
  BY DEF Outputs
<1>2. ASSUME NEW i \in 1 .. Len(b), d[i].command # None, WholeIn(cuts, d[i].command)
      PROVE  Contents(d[i]).output = Capped(s, p, d[i].command)
  <2>1. d[i].command = b[i].command
    BY DEF Outputs
  <2>2. Contents(d[i]).output = Contents(b[i]).output
    BY <1>2, <2>1 DEF Outputs
  <2>3. Contents(b[i]).output = Capped(s, p, b[i].command)
    BY <1>2, <2>1 DEF CapturedTo
  <2> QED BY <2>1, <2>2, <2>3
<1> QED BY <1>1, <1>2 DEF CapturedTo

-----------------------------------------------------------------------------
(* An event applied between two pieces.                                    *)

(* Nothing of command c is among the first k tokens.                       *)
Unseen(s, k, c) ==
    /\ Seen(SubSeq(s, 1, k), c) = << >>
    /\ Keep(SubSeq(s, 1, k), Output({c})) = << >>

(* An event applied between two tokens leaves the terminal faithful,       *)
LEMMA EventShows ==
    ASSUME NEW s, NEW k, NEW cuts, NEW gl, NEW st \in Stores, Faithful(s, k, cuts, st, gl),
           ReadTo(s, k).at \in {"free", "closing"},
           NEW event \in Heads, NEW top \in Nat, NEW w, ApplySays(st, w, event, top),
           w.open = ReadTo(s, k).store.open, Unseen(s, k, top + 1)
    PROVE  Faithful(s, k, cuts, w, gl)
<1> DEFINE c == top + 1
           b == st.blocks
           d == w.blocks
           none == << >>
<1>1. /\ GridInStep(s, k, st) /\ Routed(s, k, cuts, st)
      /\ Prompts(s, k, cuts, st, gl) /\ AltKnown(s, k, st, gl)
  BY DEF Faithful
<1>2. /\ OpenGrid(w) = IF event.kind = "preexec" THEN NewTerm ELSE None
      /\ Carried(st, w, c)
      /\ Calm(w) => Calm(st) /\ (OpenGrid(st) # None => ~OpenGrid(st).alt)
      /\ Seals(st, w)
  BY DEF ApplySays
<1>3. NewTerm.parser = "ground" /\ NewTerm.alt = FALSE /\ NewTerm.text = none
  BY DEF NewTerm
<1>4. GridInStep(s, k, w)
  BY <1>2, <1>3 DEF GridInStep, ParserAt
<1>5. AltKnown(s, k, w, gl)
  <2>1. ~(OpenGrid(w) # None /\ OpenGrid(w).alt)
    BY <1>2, <1>3
  <2>2. ~(Calm(w) /\ gl.alt)
    BY <1>1, <1>2 DEF AltKnown
  <2> QED BY <2>1, <2>2 DEF AltKnown
<1>6. none \in LeaksIn(cuts, c) /\ none \o none = none
  BY EmptySeq, ConcatEmptySeq DEF LeaksIn
<1>7. Seen(SubSeq(s, 1, k), c) = none
  BY DEF Unseen
<1> HIDE DEF none, c
<1>8. ASSUME NEW i \in 1 .. Len(d), d[i].command # None
      PROVE  ShowsOwn(Contents(d[i]).text, s, k, cuts, d[i].command)
  <2>1. CASE /\ i \in 1 .. Len(b) /\ b[i].command = d[i].command
             /\ Contents(d[i]) = Contents(b[i])
    BY <1>1, <1>8, <2>1 DEF Routed
  <2>2. CASE d[i].command = c /\ Contents(d[i]) = NewTerm
    BY <1>3, <1>6, <1>7, <2>2 DEF ShowsOwn
  <2> QED BY <1>2, <1>8, <2>1, <2>2 DEF Carried
<1>9. Routed(s, k, cuts, w)
  BY <1>8 DEF Routed
<1>10. ASSUME Unhurt(w, cuts)
       PROVE  /\ Seen(gl.text, 0) = Seen(SubSeq(s, 1, k), 0)
              /\ w.open # 0 => InStep(gl.parser, ReadTo(s, k).at)
  <2>1. Unhurt(st, cuts)
    BY <1>2, <1>10 DEF Unhurt, Seals, Spares
  <2>2. /\ Seen(gl.text, 0) = Seen(SubSeq(s, 1, k), 0)
        /\ OpenGrid(st) = None => Loose(gl.parser, ReadTo(s, k))
        /\ OpenGrid(st) # None /\ WholeIn(cuts, st.blocks[st.open].command)
           => InStep(gl.parser, ReadTo(s, k).at)
    BY <1>1, <2>1 DEF Prompts
  <2>3. ASSUME w.open # 0, OpenGrid(st) # None PROVE WholeIn(cuts, st.blocks[st.open].command)
    BY <1>2, <1>10, <2>3 DEF Unhurt, Seals
  <2>4. w.open # 0 /\ OpenGrid(st) = None => InStep(gl.parser, ReadTo(s, k).at)
    BY <2>2 DEF Loose
  <2> QED BY <2>2, <2>3, <2>4
<1>11. OpenGrid(w) # None => w.open # 0
  BY DEF OpenGrid
<1>12. Prompts(s, k, cuts, w, gl)
  BY <1>10, <1>11 DEF Prompts, Loose
<1> QED BY <1>4, <1>5, <1>9, <1>12 DEF Faithful

(* and the captures as they should be.                                     *)
LEMMA EventCaptured ==
    ASSUME NEW s, NEW k, NEW cuts, NEW st \in Stores, CapturedTo(s, k, cuts, st),
           NEW event \in Heads, NEW top \in Nat, NEW w, ApplySays(st, w, event, top),
           Unseen(s, k, top + 1)
    PROVE  CapturedTo(s, k, cuts, w)
<1> DEFINE c == top + 1
           b == st.blocks
           d == w.blocks
           none == << >>
<1>1. Carried(st, w, c)
  BY DEF ApplySays
<1>2. NewTerm.output = none
  BY DEF NewTerm
<1>3. Keep(SubSeq(s, 1, k), Output({c})) = none
  BY DEF Unseen
<1>4. AppendCapped(none, none) = none
  BY EmptySeq, AppendCappedFold
<1>5. Capped(s, k, c) = none
  BY <1>3, <1>4 DEF Capped
<1> HIDE DEF none, c
<1>6. ASSUME NEW i \in 1 .. Len(d), d[i].command # None, WholeIn(cuts, d[i].command)
      PROVE  Contents(d[i]).output = Capped(s, k, d[i].command)
  <2>1. CASE /\ i \in 1 .. Len(b) /\ b[i].command = d[i].command
             /\ Contents(d[i]) = Contents(b[i])
    BY <1>6, <2>1 DEF CapturedTo
  <2>2. CASE d[i].command = c /\ Contents(d[i]) = NewTerm
    BY <1>2, <1>5, <2>2
  <2> QED BY <1>1, <1>6, <2>1, <2>2 DEF Carried
<1> QED BY <1>6 DEF CapturedTo

(* No output of a command precedes its start.                              *)
LEMMA UnseenBefore ==
    ASSUME NEW s, Legal(s), NEW p \in Nat, NEW k \in Nat, p <= k, k <= Len(s),
           Own(s, p, k, ReadTo(s, p).run)
    PROVE  Unseen(s, k, ReadTo(s, p).top + 1)
<1> DEFINE x == SubSeq(s, 1, p)
           top == ReadTo(s, p).top
           run == ReadTo(s, p).run
           c == top + 1
           S == Output({c})
           V == [kind : Visible, of : {c}]
<1>0. s \in Seq(Tokens) /\ x \in Seq(Tokens) /\ p \in 0 .. Len(s)
  BY PrefixConcat, LenProperties DEF Legal
<1>1. Legal(x)
  BY <1>0, PrefixLegal
<1> HIDE DEF x
<1>2. Sound(x, Says[x]) /\ Says[x] \in Readings
  BY <1>1, LegalSound
<1>3. top = Says[x].top /\ run = Says[x].run
  BY DEF ReadTo, x
<1>4. c \in Nat /\ c > Says[x].top /\ c # 0 /\ run \in Nat /\ c # run
  <2>1. Says[x].run <= Says[x].top
    BY <1>2, RunIsStarted DEF Sound
  <2> QED BY <1>2, <1>3, <2>1 DEF Readings
<1>5. Keep(x, S) = << >>
  BY <1>2, <1>4 DEF Sound
<1>6. V = S \cap V
  <2>1. ASSUME NEW e \in V PROVE e \in S
    <3>1. e \in Tokens /\ e.of = c /\ e.kind \in Visible
      BY <1>4 DEF Tokens
    <3> QED BY <3>1 DEF Output, Visible, Hooks
  <2> QED BY <2>1
<1>12. Own(s, p, k, run)
  OBVIOUS
<1> HIDE DEF top, c, run
<1>7. Keep(SubSeq(s, p + 1, k), S) = << >>
  BY <1>0, <1>4, <1>12, OwnNoOutput
<1>8. Seen(SubSeq(s, p + 1, k), c) = << >>
  BY <1>0, <1>4, <1>12, OwnNotSeen
<1> HIDE DEF S
<1>9. Keep(SubSeq(s, 1, k), S) = << >>
  BY <1>0, <1>5, <1>7, PrefixKeepSame DEF x
<1>10. Seen(x, c) = << >>
  <2> HIDE DEF V
  <2>1. Keep(Keep(x, S), V) = Keep(x, S \cap V)
    BY <1>0, KeepKeep
  <2>2. Keep(x, V) = << >>
    BY <1>5, <1>6, <2>1, KeepEmpty
  <2> QED BY <2>2 DEF Seen, V
<1>11. Seen(SubSeq(s, 1, k), c) = Seen(x, c)
  BY <1>0, <1>8, PrefixSeenSame DEF x
<1> QED BY <1>9, <1>10, <1>11 DEF Unseen, S, c, top

-----------------------------------------------------------------------------
(* The sniffer, position by position.                                      *)

Founds(n) == [start : Nat, end : 0 .. n, event : Heads]

(* The sniffer in a chunk of n tokens, with the events it has found.       *)
Sniffers(n) ==
    {a \in [parser : Parsers, hook : Heads \cup {None}, start : Nat, esc : Nat, skip : Nat,
            found : Seq(Founds(n))] : a.parser = "dcs" => a.hook \in Heads}

(* Its fields.                                                             *)
LEMMA SnifferParts ==
    ASSUME NEW n, NEW a \in Sniffers(n)
    PROVE  /\ a.parser \in Parsers /\ a.hook \in Heads \cup {None} /\ a.start \in Nat
           /\ a.esc \in Nat /\ a.skip \in Nat /\ a.found \in Seq(Founds(n))
           /\ a.parser = "dcs" => a.hook \in Heads
           /\ a \in [parser : Parsers, hook : Heads \cup {None}, start : Nat, esc : Nat,
                     skip : Nat, found : Seq(Founds(n))]
BY DEF Sniffers

(* What hooking makes of it.                                               *)
LEMMA HookParts ==
    ASSUME NEW n, NEW a \in Sniffers(n), NEW token \in Heads
    PROVE  /\ Hook(a, token) \in Sniffers(n)
           /\ Hook(a, token).parser = "dcs" /\ Hook(a, token).hook = token
           /\ Hook(a, token).start = a.esc /\ Hook(a, token).esc = 0
           /\ Hook(a, token).skip = a.skip /\ Hook(a, token).found = a.found
<1> DEFINE S == Seq(Founds(n))
           esc == a.esc
<1>1. /\ a \in [parser : Parsers, hook : Heads \cup {None}, start : Nat, esc : Nat,
                skip : Nat, found : S]
      /\ esc \in Nat /\ "dcs" \in Parsers
  BY SnifferParts DEF Parsers
<1>2. Hook(a, token) = [a EXCEPT !.parser = "dcs", !.hook = token, !.start = esc, !.esc = 0]
  BY DEF Hook
<1> DEFINE H == Heads \cup {None}
           dcs == "dcs"
<1>5. token \in H /\ dcs \in Parsers /\ 0 \in Nat
  BY <1>1
<1> HIDE DEF esc, S, H, dcs
<1> DEFINE b == Hook(a, token)
<1>6. b = [a EXCEPT !.parser = dcs, !.hook = token, !.start = esc, !.esc = 0]
  BY <1>2 DEF dcs
<1>7. a \in [parser : Parsers, hook : H, start : Nat, esc : Nat, skip : Nat, found : S] /\ esc \in Nat
  BY <1>1 DEF H
<1> HIDE DEF b
<1>3. /\ b \in [parser : Parsers, hook : H, start : Nat, esc : Nat,
                skip : Nat, found : S]
      /\ b.parser = dcs /\ b.hook = token /\ b.start = esc /\ b.esc = 0
      /\ b.skip = a.skip /\ b.found = a.found
  BY <1>5, <1>6, <1>7
<1>4. b \in Sniffers(n)
  BY <1>3 DEF Sniffers, S, H
<1> QED BY <1>3, <1>4 DEF b, esc, dcs

(* The event of the frame the sniffer is in, ended at end.                 *)
FoundBy(a, end) == [start |-> a.start, end |-> end, event |-> a.hook]

(* What unhooking makes of it: the event is found.                         *)
LEMMA UnhookParts ==
    ASSUME NEW n, NEW a \in Sniffers(n), a.hook \in Heads, NEW next \in Parsers, next # "dcs",
           NEW esc \in Nat, NEW end \in 0 .. n
    PROVE  /\ Unhook(a, next, esc, end) \in Sniffers(n)
           /\ Unhook(a, next, esc, end).parser = next /\ Unhook(a, next, esc, end).hook = None
           /\ Unhook(a, next, esc, end).start = 0 /\ Unhook(a, next, esc, end).esc = esc
           /\ Unhook(a, next, esc, end).skip = end
           /\ Unhook(a, next, esc, end).found = Append(a.found, FoundBy(a, end))
           /\ FoundBy(a, end) \in Founds(n)
<1> DEFINE S == Seq(Founds(n))
           f == FoundBy(a, end)
           found == a.found
           more == Append(found, f)
<1>1. /\ a \in [parser : Parsers, hook : Heads \cup {None}, start : Nat, esc : Nat,
                skip : Nat, found : S]
      /\ a.start \in Nat /\ found \in S
  BY SnifferParts
<1>2. f \in Founds(n)
  BY <1>1 DEF Founds, FoundBy
<1>3. Unhook(a, next, esc, end) =
          [a EXCEPT !.parser = next, !.hook = None, !.start = 0, !.esc = esc, !.skip = end,
                    !.found = more]
  BY DEF Unhook, FoundBy
<1> HIDE DEF f, found
<1>4. more \in S
  BY <1>1, <1>2, AppendProperties
<1> HIDE DEF more, S
<1> DEFINE b == Unhook(a, next, esc, end)
           H == Heads \cup {None}
<1>5. end \in Nat /\ None \in H /\ 0 \in Nat
  OBVIOUS
<1>8. a \in [parser : Parsers, hook : H, start : Nat, esc : Nat, skip : Nat, found : S]
  BY <1>1
<1> HIDE DEF b, H
<1>9. b = [a EXCEPT !.parser = next, !.hook = None, !.start = 0, !.esc = esc, !.skip = end,
                    !.found = more]
  BY <1>3 DEF b
<1>6. /\ b \in [parser : Parsers, hook : H, start : Nat, esc : Nat,
                skip : Nat, found : S]
      /\ b.parser = next /\ b.hook = None /\ b.start = 0 /\ b.esc = esc
      /\ b.skip = end /\ b.found = more
  BY <1>4, <1>5, <1>8, <1>9
<1>7. b \in Sniffers(n)
  BY <1>6 DEF Sniffers, S, H
<1> QED BY <1>2, <1>6, <1>7 DEF b, more, f, found

(* The step, by its cases.                                                 *)
Moved(a, next, esc) == [a EXCEPT !.parser = next, !.esc = esc]

(* What any other step makes of it.                                        *)
LEMMA MovedParts ==
    ASSUME NEW n, NEW a \in Sniffers(n), NEW next \in Parsers, NEW esc \in Nat,
           next = "dcs" => a.hook \in Heads
    PROVE  /\ Moved(a, next, esc) \in Sniffers(n)
           /\ Moved(a, next, esc).parser = next /\ Moved(a, next, esc).hook = a.hook
           /\ Moved(a, next, esc).start = a.start /\ Moved(a, next, esc).esc = esc
           /\ Moved(a, next, esc).skip = a.skip /\ Moved(a, next, esc).found = a.found
<1> DEFINE S == Seq(Founds(n))
           b == Moved(a, next, esc)
<1>1. a \in [parser : Parsers, hook : Heads \cup {None}, start : Nat, esc : Nat,
             skip : Nat, found : S]
  BY SnifferParts
<1> HIDE DEF S
<1>2. /\ b \in [parser : Parsers, hook : Heads \cup {None}, start : Nat, esc : Nat,
                skip : Nat, found : S]
      /\ b.parser = next /\ b.hook = a.hook /\ b.start = a.start /\ b.esc = esc
      /\ b.skip = a.skip /\ b.found = a.found
  BY <1>1 DEF Moved
<1> HIDE DEF b
<1>3. b \in Sniffers(n)
  BY <1>2 DEF Sniffers, S
<1> QED BY <1>2, <1>3 DEF b

EscAt(a, token, i) == IF token.kind = "esc" THEN i ELSE a.esc

(* The terminator is ESC backslash, both in this chunk.                    *)
Paired(chunk, token, i) ==
    token.kind = "esc" /\ i < Len(chunk) /\ chunk[i + 1].kind = "backslash"

(* The backslash that was looked ahead to is skipped.                      *)
LEMMA StepSkips ==
    ASSUME NEW chunk, NEW a, NEW i, i = a.skip
    PROVE  SniffStep(chunk, a, i) = a
BY DEF SniffStep

(* A step into a frame's body.                                             *)
LEMMA StepHooks ==
    ASSUME NEW chunk, NEW a, NEW i, i # a.skip, a.parser # "dcs",
           NextParser(a.parser, chunk[i].kind) = "dcs"
    PROVE  SniffStep(chunk, a, i) = Hook(a, chunk[i])
BY DEF SniffStep

(* A step out of one.                                                      *)
LEMMA StepUnhooks ==
    ASSUME NEW chunk, NEW a, NEW i, i # a.skip, a.parser = "dcs",
           NextParser(a.parser, chunk[i].kind) # "dcs"
    PROVE  SniffStep(chunk, a, i) =
               IF Paired(chunk, chunk[i], i)
               THEN Unhook(a, "ground", EscAt(a, chunk[i], i), i + 1)
               ELSE Unhook(a, NextParser(a.parser, chunk[i].kind), EscAt(a, chunk[i], i), i)
BY DEF SniffStep, Paired, EscAt

(* Any other step.                                                         *)
LEMMA StepMoves ==
    ASSUME NEW chunk, NEW a, NEW i, i # a.skip,
           (a.parser = "dcs") = (NextParser(a.parser, chunk[i].kind) = "dcs")
    PROVE  SniffStep(chunk, a, i) =
               Moved(a, NextParser(a.parser, chunk[i].kind), EscAt(a, chunk[i], i))
BY DEF SniffStep, Moved, EscAt

(* What the parser enters a body at is a head.                             *)
LEMMA HookedByHead ==
    ASSUME NEW parser \in Parsers, NEW token \in Tokens, parser # "dcs",
           NextParser(parser, token.kind) = "dcs"
    PROVE  token \in Heads
<1>1. token.kind \in Hooks
  BY DEF NextParser, Parsers
<1> QED BY <1>1, HooksAreHeads

(* Each step makes a sniffer.                                              *)
LEMMA SniffStepType ==
    ASSUME NEW chunk \in Seq(Tokens), NEW a \in Sniffers(Len(chunk)), NEW i \in 1 .. Len(chunk)
    PROVE  SniffStep(chunk, a, i) \in Sniffers(Len(chunk))
<1> DEFINE n == Len(chunk)
           token == chunk[i]
           next == NextParser(a.parser, token.kind)
           esc == EscAt(a, token, i)
<1>0. n \in Nat /\ token \in Tokens
  BY LenProperties, ElementOfSeq
<1>1. a.parser \in Parsers /\ (a.parser = "dcs" => a.hook \in Heads) /\ a.esc \in Nat
  BY SnifferParts
<1>2. next \in Parsers /\ esc \in Nat
  BY <1>0, <1>1, NextParserType DEF EscAt
<1>3. CASE i = a.skip
  BY <1>3, StepSkips
<1>4. CASE i # a.skip /\ a.parser # "dcs" /\ next = "dcs"
  <2>1. token \in Heads
    BY <1>0, <1>1, <1>4, HookedByHead
  <2>2. SniffStep(chunk, a, i) = Hook(a, token)
    BY <1>4, StepHooks
  <2> HIDE DEF token, n
  <2>3. Hook(a, token) \in Sniffers(n)
    BY <2>1, HookParts DEF n
  <2> QED BY <2>2, <2>3 DEF n
<1>5. CASE i # a.skip /\ a.parser = "dcs" /\ next # "dcs"
  <2>1. SniffStep(chunk, a, i) = IF Paired(chunk, token, i) THEN Unhook(a, "ground", esc, i + 1)
                                 ELSE Unhook(a, next, esc, i)
    BY <1>5, StepUnhooks
  <2>2. CASE Paired(chunk, token, i)
    <3> DEFINE j == i + 1
               ground == "ground"
    <3>1. j \in 0 .. n /\ ground \in Parsers /\ ground # "dcs"
      BY <1>0, <2>2 DEF Paired, Parsers
    <3>2. SniffStep(chunk, a, i) = Unhook(a, ground, esc, j)
      BY <2>1, <2>2
    <3> HIDE DEF j, esc, ground
    <3>3. Unhook(a, ground, esc, j) \in Sniffers(n)
      BY <1>1, <1>2, <1>5, <3>1, UnhookParts
    <3> QED BY <3>2, <3>3
  <2>3. CASE ~Paired(chunk, token, i)
    <3>1. i \in 0 .. n
      BY <1>0
    <3> HIDE DEF esc, next
    <3>2. Unhook(a, next, esc, i) \in Sniffers(n)
      BY <1>1, <1>2, <1>5, <3>1, UnhookParts
    <3> QED BY <2>1, <2>3, <3>2
  <2> QED BY <2>2, <2>3
<1>6. CASE i # a.skip /\ (a.parser = "dcs") = (next = "dcs")
  <2>1. SniffStep(chunk, a, i) = Moved(a, next, esc)
    BY <1>6, StepMoves
  <2>2. next = "dcs" => a.hook \in Heads
    BY <1>1, <1>6
  <2> HIDE DEF esc, next
  <2>3. Moved(a, next, esc) \in Sniffers(n)
    BY <1>2, <2>2, MovedParts
  <2> QED BY <2>1, <2>3
<1> QED BY <1>3, <1>4, <1>5, <1>6

(* Intervals from 1 that are the same end at the same number.              *)
LEMMA SameUpTo ==
    ASSUME NEW m \in Nat, NEW n \in Nat, 1 .. m = 1 .. n
    PROVE  m = n
<1>1. CASE m < n
  <2>1. n \in 1 .. n /\ n \notin 1 .. m
    BY <1>1
  <2> QED BY <2>1
<1>2. CASE n < m
  <2>1. m \in 1 .. m /\ m \notin 1 .. n
    BY <1>2
  <2> QED BY <2>1
<1> QED BY <1>1, <1>2

(* The run of the sniffer over a chunk.                                    *)
SniffOver(chunk, from) ==
    Through(LAMBDA a, i : SniffStep(chunk, a, i), from, [i \in DOMAIN chunk |-> i])

(* The sniffer at each position of the chunk, as a function.               *)
SniffRun(chunk, from, v) ==
    /\ v[0] = from
    /\ \A i \in 1 .. Len(chunk) : v[i] = SniffStep(chunk, v[i - 1], i)
    /\ \A i \in 0 .. Len(chunk) : v[i] \in Sniffers(Len(chunk))
    /\ SniffOver(chunk, from) = v[Len(chunk)]

(* There is such a function.                                               *)
LEMMA SniffRuns ==
    ASSUME NEW chunk \in Seq(Tokens), NEW from \in Sniffers(Len(chunk))
    PROVE  \E v : SniffRun(chunk, from, v)
<1> DEFINE n == Len(chunk)
           A == Sniffers(n)
           F == [p \in A \X (1 .. n) |-> SniffStep(chunk, p[1], p[2])]
           where == [i \in DOMAIN chunk |-> i]
           Good(u) == u = [i \in 0 .. Len(where) |-> IF i = 0 THEN from
                                                     ELSE SniffStep(chunk, u[i - 1], where[i])]
           t == CHOOSE u : Good(u)
<1>0. n \in Nat /\ DOMAIN chunk = 1 .. n
  BY LenProperties
<1>1. where \in [1 .. n -> Nat] /\ \A i \in 1 .. n : where[i] = i
  BY <1>0
<1>2. Len(where) = n
  <2>1. where \in Seq(Nat)
    BY <1>0, <1>1, SeqDef
  <2>2. DOMAIN where = 1 .. Len(where) /\ Len(where) \in Nat
    BY <2>1, LenProperties
  <2>3. DOMAIN where = 1 .. n
    BY <1>1
  <2> HIDE DEF where, n
  <2> QED BY <1>0, <2>2, <2>3, SameUpTo
<1>3. SniffOver(chunk, from) = t[Len(where)]
  BY DEF SniffOver, Through
<1>4. \A a \in A, i \in 1 .. n : F[<<a, i>>] = SniffStep(chunk, a, i) /\ F[<<a, i>>] \in A
  BY SniffStepType
<1> HIDE DEF F
<1>5. StepsIn(F, n, A)
  BY <1>4 DEF StepsIn
<1>6. PICK f \in [0 .. n -> A] : RunOf(f, F, n, from)
  <2> HIDE DEF A, n
  <2>1. from \in A
    BY DEF A, n
  <2> QED BY <1>0, <1>5, <2>1, RunExists
<1> HIDE DEF where
<1>7. f[0] = from /\ \A i \in 1 .. n : f[i] = SniffStep(chunk, f[i - 1], i)
  <2>1. f[0] = from /\ \A i \in 1 .. n : f[i] = F[<<f[i - 1], i>>]
    BY <1>6 DEF RunOf
  <2>2. \A i \in 1 .. n : f[i - 1] \in A
    BY <1>0, <1>6
  <2> HIDE DEF n, A
  <2> QED BY <1>4, <2>1, <2>2
<1> HIDE DEF A
<1>8. Good(f)
  <2>1. f = [i \in 0 .. n |-> f[i]]
    BY <1>6
  <2>2. ASSUME NEW i \in 0 .. n
        PROVE  f[i] = IF i = 0 THEN from ELSE SniffStep(chunk, f[i - 1], where[i])
    <3>1. CASE i = 0
      BY <1>7, <3>1
    <3>2. CASE i # 0
      <4>1. i \in 1 .. n
        BY <1>0, <3>2
      <4> QED BY <1>1, <1>7, <3>2, <4>1
    <3> QED BY <3>1, <3>2
  <2> HIDE DEF n
  <2> QED BY <1>2, <2>1, <2>2
<1>9. Good(t)
  <2> HIDE DEF Good
  <2> QED BY <1>8
<1> HIDE DEF t
<1>10. t[0] = from /\ \A i \in 1 .. n : t[i] = SniffStep(chunk, t[i - 1], i)
  <2>1. \A i \in 0 .. n : t[i] = IF i = 0 THEN from ELSE SniffStep(chunk, t[i - 1], where[i])
    BY <1>2, <1>9
  <2> HIDE DEF n
  <2>2. t[0] = from
    BY <1>0, <2>1
  <2>3. \A i \in 1 .. n : t[i] = SniffStep(chunk, t[i - 1], i)
    BY <1>0, <1>1, <2>1
  <2> QED BY <2>2, <2>3
<1>11. ASSUME NEW i \in 0 .. n PROVE t[i] \in A
  <2> DEFINE T == {j \in Nat : j <= n => t[j] \in A}
  <2>1. 0 \in T
    BY <1>10 DEF A
  <2>2. ASSUME NEW j \in Nat, j \in T PROVE j + 1 \in T
    <3> SUFFICES ASSUME j + 1 <= n PROVE t[j + 1] \in A
      OBVIOUS
    <3> DEFINE k == j + 1
    <3>1. k \in 1 .. n /\ k - 1 = j /\ t[j] \in A
      BY <1>0, <2>2
    <3> HIDE DEF k
    <3>2. t[k] = SniffStep(chunk, t[j], k)
      BY <1>10, <3>1
    <3>3. SniffStep(chunk, t[j], k) \in A
      BY <3>1, SniffStepType DEF A
    <3> QED BY <3>2, <3>3 DEF k
  <2> HIDE DEF T
  <2>3. i \in T
    BY <1>0, <2>1, <2>2, NatSetInduction
  <2> QED BY <2>3 DEF T
<1>12. SniffRun(chunk, from, t)
  BY <1>2, <1>3, <1>10, <1>11 DEF SniffRun, A
<1> QED BY <1>12

-----------------------------------------------------------------------------
(* The loop over the events of a chunk.                                    *)

(* Dispatching makes a turn, at the same cursor.                           *)
LEMMA DispatchType ==
    ASSUME NEW t \in Turns, NEW q \in Seq(Tokens)
    PROVE  /\ Dispatch(t, q) \in Turns
           /\ Dispatch(t, q).cursor = t.cursor /\ Dispatch(t, q).panicked = t.panicked
<1>1. CASE q = << >>
  BY <1>1 DEF Dispatch
<1>2. CASE q # << >> /\ OpenGrid(t.store) = None
  <2>1. Dispatch(t, q) = [t EXCEPT !.global = FeedTerm(t.global, q)]
    BY <1>2, DispatchGlobal
  <2>2. FeedTerm(t.global, q) \in Screens
    BY FeedType DEF Turns
  <2> QED BY <2>1, <2>2 DEF Turns
<1>3. CASE q # << >> /\ OpenGrid(t.store) # None
  BY <1>3, DispatchGrid
<1> QED BY <1>1, <1>2, <1>3

(* So does capturing.                                                      *)
LEMMA CaptureType ==
    ASSUME NEW t \in Turns, NEW q \in Seq(Tokens)
    PROVE  /\ Capture(t, q) \in Turns
           /\ Capture(t, q).cursor = t.cursor /\ Capture(t, q).panicked = t.panicked
<1>1. CASE OpenGrid(t.store) = None
  BY <1>1 DEF Capture
<1>2. CASE OpenGrid(t.store) # None
  BY <1>2, CaptureGrid
<1> QED BY <1>1, <1>2

(* Where the bytes to capture for an event end, and the turn for an event  *)
(* in three steps: dispatch, capture, apply.                               *)
UpTo(found) == IF found.start = 0 THEN found.end ELSE found.start - 1

FedBy(chunk, t, found) == Dispatch(t, SubSeq(chunk, t.cursor + 1, found.end))

KeptBy(chunk, t, found) ==
    IF UpTo(found) > t.cursor
    THEN Capture(FedBy(chunk, t, found), SubSeq(chunk, t.cursor + 1, UpTo(found)))
    ELSE FedBy(chunk, t, found)

ToldBy(chunk, t, found) ==
    [KeptBy(chunk, t, found) EXCEPT
        !.store = Apply(KeptBy(chunk, t, found).store, found.event), !.cursor = found.end]

(* The turn for an event is these steps, or a panic.                       *)
LEMMA TurnCases ==
    ASSUME NEW chunk, NEW t, NEW found
    PROVE  Turn(chunk, t, found) =
               IF t.panicked \/ UpTo(found) > Len(chunk) THEN [t EXCEPT !.panicked = TRUE]
               ELSE ToldBy(chunk, t, found)
BY DEF Turn, UpTo, FedBy, KeptBy, ToldBy

(* The last of the steps.                                                  *)
LEMMA ToldParts ==
    ASSUME NEW k \in Turns, NEW event \in Heads, NEW end \in Nat,
           NEW told, told = [k EXCEPT !.store = Apply(k.store, event), !.cursor = end]
    PROVE  /\ told \in Turns /\ told.store = Apply(k.store, event)
           /\ told.cursor = end /\ told.global = k.global /\ told.panicked = k.panicked
<1> DEFINE st == Apply(k.store, event)
<1>1. st \in Stores
  BY ApplyType DEF Turns
<1> HIDE DEF st
<1>2. told = [k EXCEPT !.store = st, !.cursor = end]
  BY DEF st
<1>3. /\ told \in Turns /\ told.store = st
      /\ told.cursor = end /\ told.global = k.global /\ told.panicked = k.panicked
  BY <1>1, <1>2 DEF Turns
<1> QED BY <1>3 DEF st

(* A turn makes a turn.                                                    *)
LEMMA TurnType ==
    ASSUME NEW chunk \in Seq(Tokens), NEW t \in Turns, NEW found \in Founds(Len(chunk))
    PROVE  Turn(chunk, t, found) \in Turns
<1> DEFINE n == Len(chunk)
           fed == FedBy(chunk, t, found)
           kept == KeptBy(chunk, t, found)
           upTo == UpTo(found)
<1>0. /\ n \in Nat /\ t.cursor \in Nat /\ found.end \in Nat /\ found.end <= n
      /\ found.event \in Heads /\ found.start \in Nat
  BY LenProperties DEF Turns, Founds
<1>1. upTo \in Nat
  BY <1>0 DEF UpTo
<1>2. fed \in Turns
  <2>1. SubSeq(chunk, t.cursor + 1, found.end) \in Seq(Tokens)
    BY <1>0, PieceType
  <2> QED BY <2>1, DispatchType DEF FedBy
<1>3. CASE t.panicked \/ upTo > n
  <2>1. Turn(chunk, t, found) = [t EXCEPT !.panicked = TRUE]
    BY <1>3, TurnCases
  <2> QED BY <2>1 DEF Turns
<1>4. CASE ~(t.panicked \/ upTo > n)
  <2>1. SubSeq(chunk, t.cursor + 1, upTo) \in Seq(Tokens)
    <3>1. upTo <= n
      BY <1>0, <1>1, <1>4
    <3> HIDE DEF upTo
    <3> QED BY <1>0, <1>1, <3>1, PieceType
  <2>2. kept \in Turns
    <3> HIDE DEF fed
    <3>1. kept = IF upTo > t.cursor THEN Capture(fed, SubSeq(chunk, t.cursor + 1, upTo)) ELSE fed
      BY DEF KeptBy, fed
    <3> HIDE DEF upTo, kept
    <3> QED BY <1>2, <2>1, <3>1, CaptureType
  <2>3. Turn(chunk, t, found) = ToldBy(chunk, t, found)
    BY <1>4, TurnCases
  <2>4. ToldBy(chunk, t, found) = [kept EXCEPT !.store = Apply(kept.store, found.event), !.cursor = found.end]
    BY DEF ToldBy
  <2> DEFINE event == found.event
             end == found.end
             told == ToldBy(chunk, t, found)
  <2>5. event \in Heads /\ end \in Nat
    BY <1>0
  <2>6. told = [kept EXCEPT !.store = Apply(kept.store, event), !.cursor = end]
    BY <2>4
  <2> HIDE DEF kept, event, end, told
  <2>7. told \in Turns
    BY <2>2, <2>5, <2>6, ToldParts
  <2> QED BY <2>3, <2>7 DEF told
<1> QED BY <1>3, <1>4

(* The turns for the events of a chunk go event by event.                  *)
LEMMA TurnsFold ==
    ASSUME NEW chunk \in Seq(Tokens), NEW begun \in Turns
    PROVE  /\ TurnsOf(chunk, begun, << >>) = begun
           /\ \A s \in Seq(Founds(Len(chunk))) : TurnsOf(chunk, begun, s) \in Turns
           /\ \A s \in Seq(Founds(Len(chunk))), e \in Founds(Len(chunk)) : TurnsOf(chunk, begun, Append(s, e)) = Turn(chunk, TurnsOf(chunk, begun, s), e)
<1> DEFINE F == [p \in Turns \X Founds(Len(chunk)) |-> Turn(chunk, p[1], p[2])]
<1>1. \A a \in Turns, e \in Founds(Len(chunk)) : F[<<a, e>>] = Turn(chunk, a, e) /\ F[<<a, e>>] \in Turns
  BY TurnType
<1> HIDE DEF F
<1>3. PICK G : FoldOf(G, F, begun, Founds(Len(chunk)), Turns)
  <2>1. \A a \in Turns, e \in Founds(Len(chunk)) : F[<<a, e>>] \in Turns
    BY <1>1
  <2> QED BY <2>1, FoldExists
<1>4. ASSUME NEW s \in Seq(Founds(Len(chunk))) PROVE TurnsOf(chunk, begun, s) = G[s]
  <2> DEFINE n == Len(s)
             v == TableOf(G, s)
             Good(u) == u = [i \in 0 .. n |-> IF i = 0 THEN begun ELSE Turn(chunk, u[i - 1], s[i])]
             t == CHOOSE u : Good(u)
  <2>1. TurnsOf(chunk, begun, s) = t[n]
    BY DEF TurnsOf, Through
  <2>2. n \in Nat /\ \A i \in 1 .. n : s[i] \in Founds(Len(chunk))
    BY LenProperties, ElementOfSeq
  <2>3. Good(v)
    <3>1. RunsOver(v, F, begun, Founds(Len(chunk)), Turns, s)
      BY <1>3, FoldTable
    <3>2. v = [i \in 0 .. n |-> v[i]]
      BY DEF TableOf
    <3>3. ASSUME NEW i \in 0 .. n PROVE v[i] = IF i = 0 THEN begun ELSE Turn(chunk, v[i - 1], s[i])
      <4> HIDE DEF v
      <4>1. CASE i = 0
        BY <3>1, <4>1 DEF RunsOver
      <4>2. CASE i # 0
        <5>1. i \in 1 .. n
          BY <2>2, <4>2
        <5>2. v[i - 1] \in Turns /\ s[i] \in Founds(Len(chunk)) /\ v[i] = F[<<v[i - 1], s[i]>>]
          BY <3>1, <5>1 DEF RunsOver
        <5> QED BY <1>1, <4>2, <5>2
      <4> QED BY <4>1, <4>2
    <3> HIDE DEF v
    <3> QED BY <3>2, <3>3
  <2>4. Good(t)
    <3> HIDE DEF Good
    <3> QED BY <2>3
  <2> HIDE DEF t, v
  <2>5. t[0] = begun /\ \A i \in 1 .. n : t[i] = Turn(chunk, t[i - 1], s[i])
    <3>1. \A i \in 0 .. n : t[i] = IF i = 0 THEN begun ELSE Turn(chunk, t[i - 1], s[i])
      BY <2>4
    <3> HIDE DEF n
    <3> QED BY <2>2, <3>1
  <2>6. FollowsSteps(t, F, begun, s, Turns)
    BY <1>1, <2>2, <2>5 DEF FollowsSteps
  <2>7. EndsIn(t, s, G)
    BY <1>3, <2>6, FoldUnique
  <2> QED BY <2>1, <2>7 DEF EndsIn
<1>5. << >> \in Seq(Founds(Len(chunk))) /\ \A s \in Seq(Founds(Len(chunk))), e \in Founds(Len(chunk)) : Append(s, e) \in Seq(Founds(Len(chunk)))
  BY EmptySeq, AppendProperties
<1>6. TurnsOf(chunk, begun, << >>) = begun
  BY <1>3, <1>4, <1>5 DEF FoldOf
<1>7. ASSUME NEW s \in Seq(Founds(Len(chunk))) PROVE TurnsOf(chunk, begun, s) \in Turns
  BY <1>3, <1>4 DEF FoldOf
<1>8. ASSUME NEW s \in Seq(Founds(Len(chunk))), NEW e \in Founds(Len(chunk)) PROVE TurnsOf(chunk, begun, Append(s, e)) = Turn(chunk, TurnsOf(chunk, begun, s), e)
  <2>1. TurnsOf(chunk, begun, Append(s, e)) = G[Append(s, e)] /\ TurnsOf(chunk, begun, s) = G[s]
    BY <1>4, <1>5
  <2>2. G[Append(s, e)] = F[<<G[s], e>>] /\ G[s] \in Turns
    BY <1>3 DEF FoldOf
  <2> QED BY <1>1, <2>1, <2>2
<1> QED BY <1>6, <1>7, <1>8

-----------------------------------------------------------------------------
(* A chunk of the stream.                                                  *)

(* A chunk's tokens are the stream's.                                      *)
LEMMA ChunkAt ==
    ASSUME NEW s \in Seq(Tokens), NEW r \in Nat, NEW n \in Nat, r + n <= Len(s)
    PROVE  /\ SubSeq(s, r + 1, r + n) \in Seq(Tokens)
           /\ Len(SubSeq(s, r + 1, r + n)) = n
           /\ \A i \in 1 .. n : SubSeq(s, r + 1, r + n)[i] = s[r + i]
<1> DEFINE b == SubSeq(s, r + 1, r + n)
<1>1. \A i \in r + 1 .. r + n : s[i] \in Tokens
  BY LenProperties, ElementOfSeq
<1>2. /\ b \in Seq(Tokens) /\ Len(b) = IF r + 1 <= r + n THEN (r + n) - (r + 1) + 1 ELSE 0
      /\ \A i \in 1 .. (r + n) - (r + 1) + 1 : b[i] = s[r + 1 + i - 1]
  BY <1>1, SubSeqProperties
<1> HIDE DEF b
<1>3. b \in Seq(Tokens) /\ Len(b) = n
  BY <1>2
<1>4. \A i \in 1 .. n : b[i] = s[r + i]
  <2> SUFFICES ASSUME NEW i \in 1 .. n PROVE b[i] = s[r + i]
    OBVIOUS
  <2>1. i \in 1 .. (r + n) - (r + 1) + 1 /\ r + 1 + i - 1 = r + i
    OBVIOUS
  <2>2. b[i] = s[r + 1 + i - 1]
    BY <1>2, <2>1
  <2> QED BY <2>1, <2>2
<1> QED BY <1>3, <1>4 DEF b

(* A piece of a chunk is a piece of the stream.                            *)
LEMMA ChunkPiece ==
    ASSUME NEW s \in Seq(Tokens), NEW r \in Nat, NEW n \in Nat, r + n <= Len(s),
           NEW c \in Nat, NEW k \in Nat, k <= n
    PROVE  SubSeq(SubSeq(s, r + 1, r + n), c + 1, k) = SubSeq(s, (r + c) + 1, r + k)
<1> DEFINE b == SubSeq(s, r + 1, r + n)
           x == SubSeq(b, c + 1, k)
           y == SubSeq(s, (r + c) + 1, r + k)
<1>1. b \in Seq(Tokens) /\ Len(b) = n /\ \A i \in 1 .. n : b[i] = s[r + i]
  BY ChunkAt
<1> HIDE DEF b
<1>2. /\ x \in Seq(Tokens) /\ Len(x) = IF c + 1 <= k THEN k - (c + 1) + 1 ELSE 0
      /\ \A i \in 1 .. k - (c + 1) + 1 : x[i] = b[c + 1 + i - 1]
  <2>1. \A i \in c + 1 .. k : b[i] \in Tokens
    BY <1>1, LenProperties, ElementOfSeq
  <2> QED BY <2>1, SubSeqProperties
<1>3. /\ y \in Seq(Tokens) /\ Len(y) = IF (r + c) + 1 <= r + k THEN (r + k) - ((r + c) + 1) + 1 ELSE 0
      /\ \A i \in 1 .. (r + k) - ((r + c) + 1) + 1 : y[i] = s[(r + c) + 1 + i - 1]
  <2>1. \A i \in (r + c) + 1 .. r + k : s[i] \in Tokens
    BY LenProperties, ElementOfSeq
  <2> QED BY <2>1, SubSeqProperties
<1> HIDE DEF x, y
<1>4. Len(x) = Len(y)
  BY <1>2, <1>3
<1>5. ASSUME NEW i \in 1 .. Len(x) PROVE x[i] = y[i]
  <2>1. i \in 1 .. k - (c + 1) + 1 /\ i \in 1 .. (r + k) - ((r + c) + 1) + 1
        /\ c + 1 + i - 1 \in 1 .. n /\ r + (c + 1 + i - 1) = (r + c) + 1 + i - 1
    BY <1>2
  <2>2. x[i] = b[c + 1 + i - 1] /\ y[i] = s[(r + c) + 1 + i - 1]
    BY <1>2, <1>3, <2>1
  <2>3. b[c + 1 + i - 1] = s[r + (c + 1 + i - 1)]
    BY <1>1, <2>1
  <2> QED BY <2>1, <2>2, <2>3
<1>6. x = y
  BY <1>2, <1>3, <1>4, <1>5, SeqEqual
<1> QED BY <1>6 DEF x, y, b

-----------------------------------------------------------------------------
(* The sniffer is in step with the stream: it is where the stream is, or   *)
(* has looked one token ahead.                                             *)

(* The reading of a legal stream at any place: inside a frame it has the   *)
(* head, outside it has none.                                              *)
LEMMA HeadAt ==
    ASSUME NEW s, Legal(s), NEW k \in 0 .. Len(s)
    PROVE  /\ ReadTo(s, k) \in Readings
           /\ ReadTo(s, k).at \in Places /\ ReadTo(s, k).at # "bad"
           /\ ReadTo(s, k).at = "body" =>
                  /\ ReadTo(s, k).head \in Heads
                  /\ Fits(ReadTo(s, k).head, ReadTo(s, k).run, ReadTo(s, k).top)
           /\ ReadTo(s, k).at # "body" => ReadTo(s, k).head = None
<1> DEFINE x == SubSeq(s, 1, k)
<1>1. Legal(x)
  BY PrefixLegal
<1> HIDE DEF x
<1>2. Sound(x, Says[x]) /\ Says[x] \in Readings
  BY <1>1, LegalSound
<1>3. ReadTo(s, k) = Says[x]
  BY DEF ReadTo, x
<1> DEFINE g == ReadTo(s, k)
<1>5. g.at # "bad"
  BY <1>1, <1>3 DEF Legal
<1> HIDE DEF g
<1>4. Sound(x, g) /\ g \in Readings
  BY <1>2, <1>3 DEF g
<1>6. g.at \in Places
  BY <1>4 DEF Readings
<1> QED BY <1>4, <1>5, <1>6 DEF Sound, g

(* The sniffer after i tokens of the chunk that follows the r-th token.    *)
Followed(s, r, n, i, a) ==
    /\ a.skip <= i + 1
    /\ a.skip = i + 1 => /\ i + 1 <= n /\ ReadTo(s, r + i).at = "closing"
                         /\ a.parser = "ground" /\ a.hook = None
    /\ a.skip # i + 1 => /\ a.parser = ParserAt(ReadTo(s, r + i).at)
                         /\ a.hook = ReadTo(s, r + i).head

(* What a step of the sniffer was, at token e from reading g to h.         *)
Skips(a, b, i, g, h) == a.skip = i /\ b = a /\ g.at = "closing" /\ h.at = "free"

HooksAt(a, b, i, e, g, h) ==
    a.skip # i /\ b = Hook(a, e) /\ e \in Heads /\ g.at = "opening" /\ h.at = "body" /\ h.head = e

UnhooksAhead(a, b, i, n, g, h) ==
    /\ a.skip # i /\ i + 1 <= n /\ g.at = "body" /\ a.hook = g.head /\ h.at = "closing"
    /\ b = Unhook(a, "ground", i, i + 1)

UnhooksAt(a, b, i, n, g, h) ==
    /\ a.skip # i /\ g.at = "body" /\ a.hook = g.head /\ h.at \in {"closing", "free"}
    /\ h.at = "closing" => i = n
    /\ \E esc \in Nat : b = Unhook(a, ParserAt(h.at), esc, i)

MovesOn(a, b, i, e, g, h) ==
    /\ a.skip # i /\ a.hook = g.head /\ g.at # "body" /\ h.at # "body"
    /\ b = Moved(a, ParserAt(h.at), EscAt(a, e, i))

(* One of these, at the i-th token of the chunk.                           *)
StepsBy(s, r, n, i, a, b) ==
    LET e == s[r + i]  g == ReadTo(s, (r + i) - 1)  h == ReadTo(s, r + i)
    IN  \/ Skips(a, b, i, g, h)
        \/ HooksAt(a, b, i, e, g, h)
        \/ UnhooksAhead(a, b, i, n, g, h)
        \/ UnhooksAt(a, b, i, n, g, h)
        \/ MovesOn(a, b, i, e, g, h)

(* The parser of a place.                                                  *)
LEMMA ParserAtParser ==
    ASSUME NEW at \in Places, at # "bad"
    PROVE  ParserAt(at) \in Parsers /\ (ParserAt(at) = "dcs" <=> at = "body")
BY DEF Places, ParserAt, Parsers

(* A sniffer in step takes one of these steps.                             *)
LEMMA SniffSteps ==
    ASSUME NEW s, Legal(s), NEW r \in Nat, NEW n \in Nat, r + n <= Len(s), NEW i \in 1 .. n,
           NEW a \in Sniffers(n), Followed(s, r, n, i - 1, a),
           NEW chunk, chunk = SubSeq(s, r + 1, r + n)
    PROVE  StepsBy(s, r, n, i, a, SniffStep(chunk, a, i))
<1> DEFINE j == r + i
           e == s[j]
           g == ReadTo(s, j - 1)
           h == ReadTo(s, j)
           b == SniffStep(chunk, a, i)
           next == NextParser(a.parser, e.kind)
<1>0. s \in Seq(Tokens) /\ Len(s) \in Nat
  BY LenProperties DEF Legal
<1>1. /\ j \in 1 .. Len(s) /\ j \in 0 .. Len(s) /\ j - 1 \in 0 .. Len(s)
      /\ r + (i - 1) = j - 1 /\ (i - 1) + 1 = i
  BY <1>0
<1>2. chunk[i] = e /\ Len(chunk) = n /\ (i < n => chunk[i + 1] = s[j + 1])
  <2>1. Len(chunk) = n /\ \A k \in 1 .. n : chunk[k] = s[r + k]
    BY <1>0, ChunkAt
  <2>2. i < n => i + 1 \in 1 .. n /\ r + (i + 1) = j + 1
    OBVIOUS
  <2> QED BY <2>1, <2>2
<1>3. /\ a.skip = i => g.at = "closing" /\ a.parser = "ground" /\ a.hook = None
      /\ a.skip # i => a.parser = ParserAt(g.at) /\ a.hook = g.head
  BY <1>1 DEF Followed
<1>4. i < n => j + 1 \in 1 .. Len(s) /\ (j + 1) - 1 = j
  BY <1>0
<1> HIDE DEF j
<1>5. e \in Tokens /\ Joins(g, e, h.at) /\ Moves(g, e, h) /\ g \in Readings /\ h \in Readings
  BY <1>1, ReadStep, MovesJoin
<1>6. /\ g.at \in Places /\ g.at # "bad" /\ h.at \in Places /\ h.at # "bad"
      /\ g.at # "body" => g.head = None
      /\ g.at = "body" => g.head \in Heads
  BY <1>1, HeadAt
<1>7. i < n /\ h.at = "closing" => s[j + 1].kind = "backslash"
  <2> SUFFICES ASSUME i < n, h.at = "closing" PROVE s[j + 1].kind = "backslash"
    OBVIOUS
  <2> DEFINE m == j + 1
  <2>1. m \in 1 .. Len(s) /\ m - 1 = j
    BY <1>4
  <2> HIDE DEF m
  <2>2. Joins(ReadTo(s, m - 1), s[m], ReadTo(s, m).at)
    BY <2>1, ReadStep, MovesJoin
  <2>3. s[m].kind = "backslash"
    BY <2>1, <2>2 DEF Joins
  <2> QED BY <2>3 DEF m
<1>8. Joins(g, e, h.at) => (h.at = "closing" => e.kind = "esc") /\ (g.at = "body" => h.at \in {"closing", "free"})
  BY DEF Joins
<1>9. h.at = "body" => g.at = "opening" /\ e \in Heads /\ h.head = e
  <2> SUFFICES ASSUME h.at = "body" PROVE g.at = "opening" /\ e \in Heads /\ h.head = e
    OBVIOUS
  <2> HIDE DEF e, g, h
  <2>1. g.at = "opening" /\ e.kind \in Hooks
    BY <1>5 DEF Joins
  <2>2. e \in Heads
    BY <1>5, <2>1, HooksAreHeads
  <2>3. h.head = e
    BY <1>5, <2>1 DEF Moves, Opens, Escapes, Shows, Begins, Takes, Closes, Switches, Readings, Hooks, Visible
  <2> QED BY <2>1, <2>2, <2>3
<1>10. a.skip # i => next = ParserAt(h.at)
  <2> SUFFICES ASSUME a.skip # i PROVE next = ParserAt(h.at)
    OBVIOUS
  <2>1. InStep(a.parser, g.at)
    BY <1>3 DEF InStep
  <2> HIDE DEF g, h, e
  <2> QED BY <1>5, <2>1, ParserSteps
<1>11. /\ ParserAt(g.at) = "dcs" <=> g.at = "body"
       /\ ParserAt(h.at) = "dcs" <=> h.at = "body"
  <2> HIDE DEF g, h
  <2> DEFINE x == g.at
             y == h.at
  <2>1. x \in Places /\ x # "bad" /\ y \in Places /\ y # "bad"
    BY <1>6
  <2> HIDE DEF x, y
  <2>2. (ParserAt(x) = "dcs" <=> x = "body") /\ (ParserAt(y) = "dcs" <=> y = "body")
    BY <2>1, ParserAtParser
  <2> QED BY <2>2 DEF x, y
<1>12. EscAt(a, e, i) \in Nat /\ (e.kind = "esc" => EscAt(a, e, i) = i)
  BY SnifferParts DEF EscAt
<1>13. CASE a.skip = i
  <2>1. b = a
    BY <1>13, StepSkips
  <2>2. h.at = "free"
    <3> HIDE DEF g, e, h
    <3> QED BY <1>3, <1>5, <1>13, ClosingOwn
  <2> HIDE DEF g, e, h, b
  <2>3. Skips(a, b, i, g, h)
    BY <1>3, <1>13, <2>1, <2>2 DEF Skips
  <2> QED BY <2>3 DEF StepsBy, g, h, b, j
<1>14. CASE a.skip # i /\ h.at = "body"
  <2>1. a.parser # "dcs" /\ next = "dcs"
    BY <1>3, <1>9, <1>10, <1>11, <1>14
  <2>2. b = Hook(a, e)
    BY <1>2, <1>14, <2>1, StepHooks
  <2> HIDE DEF g, e, h, b
  <2>3. HooksAt(a, b, i, e, g, h)
    BY <1>9, <1>14, <2>2 DEF HooksAt
  <2> QED BY <2>3 DEF StepsBy, g, h, e, b, j
<1>15. CASE a.skip # i /\ g.at = "body"
  <2>1. a.parser = "dcs" /\ h.at \in {"closing", "free"} /\ next # "dcs"
    BY <1>3, <1>5, <1>8, <1>10, <1>11, <1>15
  <2>2. b = IF Paired(chunk, e, i) THEN Unhook(a, "ground", EscAt(a, e, i), i + 1)
            ELSE Unhook(a, next, EscAt(a, e, i), i)
    BY <1>2, <1>15, <2>1, StepUnhooks
  <2>3. Paired(chunk, e, i) <=> (h.at = "closing" /\ i < n)
    <3>1. e.kind = "esc" => h.at = "closing"
      <4> HIDE DEF g, e, h
      <4> QED BY <1>5, <1>15 DEF Joins
    <3> QED BY <1>2, <1>5, <1>7, <1>8, <3>1 DEF Paired
  <2> HIDE DEF g, e, h, b, next
  <2>4. CASE h.at = "closing" /\ i < n
    <3>1. i + 1 <= n
      BY <2>4
    <3>2. EscAt(a, e, i) = i
      BY <1>5, <1>8, <1>12, <2>4
    <3>3. UnhooksAhead(a, b, i, n, g, h)
      BY <1>3, <1>15, <2>2, <2>3, <2>4, <3>1, <3>2 DEF UnhooksAhead
    <3> QED BY <3>3 DEF StepsBy, g, h, e, b, j
  <2>5. CASE ~(h.at = "closing" /\ i < n)
    <3>1. h.at = "closing" => i = n
      BY <2>5
    <3>2. UnhooksAt(a, b, i, n, g, h)
      BY <1>3, <1>10, <1>12, <1>15, <2>1, <2>2, <2>3, <2>5, <3>1 DEF UnhooksAt
    <3> QED BY <3>2 DEF StepsBy, g, h, e, b, j
  <2> QED BY <2>4, <2>5
<1>16. CASE a.skip # i /\ g.at # "body" /\ h.at # "body"
  <2>1. a.parser # "dcs" /\ next # "dcs"
    BY <1>3, <1>10, <1>11, <1>16
  <2>2. b = Moved(a, next, EscAt(a, e, i))
    BY <1>2, <1>16, <2>1, StepMoves
  <2> HIDE DEF g, e, h, b, next
  <2>3. MovesOn(a, b, i, e, g, h)
    BY <1>3, <1>10, <1>16, <2>2 DEF MovesOn
  <2> QED BY <2>3 DEF StepsBy, g, h, e, b, j
<1> QED BY <1>13, <1>14, <1>15, <1>16

(* A sniffer waits for a backslash only at the borders of a chunk.         *)
Waits(s, r, n, i, a) ==
    ReadTo(s, r + i).at = "closing" /\ a.skip # i + 1 => i = 0 \/ i = n

(* Each step leaves the sniffer in step.                                   *)
LEMMA FollowedMore ==
    ASSUME NEW s, Legal(s), NEW r \in Nat, NEW n \in Nat, r + n <= Len(s), NEW i \in 1 .. n,
           NEW a \in Sniffers(n), Followed(s, r, n, i - 1, a), NEW b, StepsBy(s, r, n, i, a, b)
    PROVE  Followed(s, r, n, i, b) /\ Waits(s, r, n, i, b)
<1> DEFINE j == r + i
           e == s[j]
           g == ReadTo(s, j - 1)
           h == ReadTo(s, j)
<1>0. Len(s) \in Nat
  BY LenProperties DEF Legal
<1>1. j \in 1 .. Len(s) /\ j \in 0 .. Len(s)
  BY <1>0
<1>2. a.skip <= i /\ i \in Nat /\ a.skip \in Nat
  <2>1. (i - 1) + 1 = i
    OBVIOUS
  <2> QED BY <2>1, SnifferParts DEF Followed
<1>3. a.skip = i => a.parser = "ground" /\ a.hook = None
  <2>1. (i - 1) + 1 = i
    OBVIOUS
  <2> QED BY <2>1 DEF Followed
<1> HIDE DEF j
<1>4. /\ h.at \in Places /\ h.at # "bad"
      /\ h.at # "body" => h.head = None
      /\ g.at # "body" /\ h.at # "body" => g.head = None
      /\ g.at = "body" => g.head \in Heads
  <2>1. j - 1 \in 0 .. Len(s)
    BY <1>0, <1>1
  <2> QED BY <1>1, <2>1, HeadAt
<1>5. e \in Tokens /\ Joins(g, e, h.at)
  BY <1>1, ReadStep, MovesJoin
<1>6. \/ Skips(a, b, i, g, h)
      \/ HooksAt(a, b, i, e, g, h)
      \/ UnhooksAhead(a, b, i, n, g, h)
      \/ UnhooksAt(a, b, i, n, g, h)
      \/ MovesOn(a, b, i, e, g, h)
  BY DEF StepsBy, j
<1>7. ParserAt(h.at) \in Parsers /\ (ParserAt(h.at) = "dcs" <=> h.at = "body")
  <2> DEFINE x == h.at
  <2>1. x \in Places /\ x # "bad"
    BY <1>4
  <2> HIDE DEF x
  <2>2. ParserAt(x) \in Parsers /\ (ParserAt(x) = "dcs" <=> x = "body")
    BY <2>1, ParserAtParser
  <2> QED BY <2>2 DEF x
<1> SUFFICES /\ b.skip <= i + 1
             /\ b.skip = i + 1 => i + 1 <= n /\ h.at = "closing" /\ b.parser = "ground" /\ b.hook = None
             /\ b.skip # i + 1 => b.parser = ParserAt(h.at) /\ b.hook = h.head
             /\ h.at = "closing" /\ b.skip # i + 1 => i = n
  BY DEF Followed, Waits, h, j
<1> HIDE DEF g, h, e
<1>8. CASE Skips(a, b, i, g, h)
  BY <1>2, <1>3, <1>4, <1>8 DEF Skips, ParserAt
<1>9. CASE HooksAt(a, b, i, e, g, h)
  <2>1. b = Hook(a, e) /\ e \in Heads /\ h.at = "body" /\ h.head = e /\ a.skip # i
    BY <1>9 DEF HooksAt
  <2>2. b.parser = "dcs" /\ b.hook = e /\ b.skip = a.skip
    BY <2>1, HookParts
  <2> QED BY <1>2, <2>1, <2>2 DEF ParserAt
<1>10. CASE UnhooksAhead(a, b, i, n, g, h)
  <2> DEFINE k == i + 1
             ground == "ground"
  <2>1. b = Unhook(a, ground, i, k) /\ a.hook \in Heads /\ h.at = "closing" /\ i + 1 <= n
    BY <1>4, <1>10 DEF UnhooksAhead
  <2>2. k \in 0 .. n /\ ground \in Parsers /\ ground # "dcs"
    BY <2>1 DEF Parsers
  <2> HIDE DEF k, ground
  <2>3. b.parser = ground /\ b.hook = None /\ b.skip = k
    BY <1>2, <2>1, <2>2, UnhookParts
  <2>4. b.parser = "ground" /\ b.hook = None /\ b.skip = i + 1
    BY <2>3 DEF k, ground
  <2> QED BY <2>1, <2>4
<1>11. CASE UnhooksAt(a, b, i, n, g, h)
  <2> DEFINE next == ParserAt(h.at)
  <2>1. PICK esc \in Nat : b = Unhook(a, next, esc, i)
    BY <1>11 DEF UnhooksAt
  <2>2. a.hook \in Heads /\ h.at # "body" /\ (h.at = "closing" => i = n)
    BY <1>4, <1>11 DEF UnhooksAt
  <2>3. next \in Parsers /\ next # "dcs" /\ i \in 0 .. n
    BY <1>7, <2>2
  <2> HIDE DEF next
  <2>4. b.parser = next /\ b.hook = None /\ b.skip = i
    BY <2>1, <2>2, <2>3, UnhookParts
  <2> QED BY <1>2, <1>4, <2>2, <2>4 DEF next
<1>12. CASE MovesOn(a, b, i, e, g, h)
  <2> DEFINE next == ParserAt(h.at)
             esc == EscAt(a, e, i)
  <2>1. /\ b = Moved(a, next, esc) /\ a.hook = g.head /\ g.at # "body" /\ h.at # "body"
        /\ a.skip # i
    BY <1>12 DEF MovesOn
  <2>2. next \in Parsers /\ next # "dcs" /\ esc \in Nat
    BY <1>2, <1>7, <2>1, SnifferParts DEF EscAt
  <2>3. h.at # "closing"
    BY <1>5, <2>1 DEF Joins
  <2> HIDE DEF next, esc
  <2>5. b = Moved(a, next, esc) /\ (next = "dcs" => a.hook \in Heads)
    BY <2>1, <2>2
  <2>6. /\ Moved(a, next, esc).parser = next /\ Moved(a, next, esc).hook = a.hook
        /\ Moved(a, next, esc).skip = a.skip
    BY <2>2, <2>5, MovedParts
  <2>4. b.parser = next /\ b.hook = a.hook /\ b.skip = a.skip
    BY <2>5, <2>6
  <2> QED BY <1>2, <1>4, <2>1, <2>3, <2>4 DEF next
<1> QED BY <1>6, <1>8, <1>9, <1>10, <1>11, <1>12

-----------------------------------------------------------------------------
(* Between two places only one command has run.                            *)

Stays(s, p, j) ==
    /\ ReadTo(s, j).run = ReadTo(s, p).run
    /\ ReadTo(s, j).top = ReadTo(s, p).top
    /\ ReadTo(s, j).store = ReadTo(s, p).store
    /\ Own(s, p, j, ReadTo(s, p).run)

(* At the place itself.                                                    *)
LEMMA StaysHere ==
    ASSUME NEW s, NEW p \in Nat
    PROVE  Stays(s, p, p)
BY DEF Stays, Own

(* One token more, when it does not end a frame.                           *)
LEMMA StaysMore ==
    ASSUME NEW s, Legal(s), NEW p \in Nat, NEW j \in Nat, p < j, j <= Len(s),
           Stays(s, p, j - 1), ReadTo(s, j - 1).at # "body"
    PROVE  Stays(s, p, j)
<1> DEFINE g == ReadTo(s, j - 1)
           h == ReadTo(s, j)
           f == ReadTo(s, p)
           e == s[j]
           k == j - 1
<1>0. j \in 1 .. Len(s)
  OBVIOUS
<1>1. g \in Readings /\ e \in Tokens /\ Moves(g, e, h) /\ Joins(g, e, h.at)
  BY <1>0, ReadStep, MovesJoin
<1>2. g.run = f.run /\ g.top = f.top /\ g.store = f.store /\ Own(s, p, k, f.run) /\ g.at # "body"
  BY DEF Stays
<1>3. k \in Nat /\ p <= k /\ k + 1 = j
  OBVIOUS
<1> HIDE DEF g, h, f, k
<1>4. h.run = g.run /\ h.top = g.top /\ h.store = g.store
  BY <1>1, <1>2, MovesFields DEF Takes
<1>5. OwnToken1(e, f.run)
  BY <1>1, <1>2, JoinsOwn
<1>6. Own(s, p, j, f.run)
  BY <1>2, <1>3, <1>5, OwnMore DEF e
<1> QED BY <1>2, <1>4, <1>6 DEF Stays, h, f

(* What was captured since a place, when a command has been running: all,  *)
(* up to where the frame that is being read started.                       *)
MarkedAt(s, r, p, j, run, m) ==
    /\ p < r + m /\ r + m <= j
    /\ Keep(SubSeq(s, p + 1, j), Output({run})) = SubSeq(s, p + 1, r + m - 1)

(* This, or the whole piece is output when no frame is being read.         *)
Marks(s, r, p, j, a) ==
    ReadTo(s, j).run # 0 =>
        /\ ReadTo(s, j).at \in {"free", "escape"} =>
               Keep(SubSeq(s, p + 1, j), Output({ReadTo(s, j).run})) = SubSeq(s, p + 1, j)
        /\ ReadTo(s, j).at = "opening" => MarkedAt(s, r, p, j, ReadTo(s, j).run, a.esc)
        /\ ReadTo(s, j).at = "body" => MarkedAt(s, r, p, j, ReadTo(s, j).run, a.start)

(* Nothing was captured at the place itself.                               *)
LEMMA MarksHere ==
    ASSUME NEW s, NEW r, NEW p \in Nat, NEW a, ReadTo(s, p).at \in {"free", "closing"}
    PROVE  Marks(s, r, p, p, a)
<1>1. SubSeq(s, p + 1, p) = << >>
  BY PieceEmpty
<1> DEFINE S == Output({ReadTo(s, p).run})
<1>2. Keep(<< >>, S) = << >>
  BY KeepEmpty
<1> HIDE DEF S
<1>3. Keep(SubSeq(s, p + 1, p), S) = SubSeq(s, p + 1, p)
  BY <1>1, <1>2
<1> QED BY <1>3 DEF Marks, S

(* What is output of a command.                                            *)
LEMMA OutputToken ==
    ASSUME NEW e \in Tokens, NEW run \in Nat
    PROVE  e \in Output({run}) <=> e.of = run /\ e.kind \notin Hooks
BY DEF Output

(* A step of the sniffer that ends no frame keeps the mark.                *)
LEMMA MarksMore ==
    ASSUME NEW s, Legal(s), NEW r \in Nat, NEW n \in Nat, r + n <= Len(s), NEW i \in 1 .. n,
           NEW a \in Sniffers(n), NEW b,
           NEW p \in Nat, r <= p, p < r + i, Stays(s, p, r + i - 1),
           ReadTo(s, r + i - 1).at \notin {"body", "closing"},
           Marks(s, r, p, r + i - 1, a),
           \/ HooksAt(a, b, i, s[r + i], ReadTo(s, r + i - 1), ReadTo(s, r + i))
           \/ MovesOn(a, b, i, s[r + i], ReadTo(s, r + i - 1), ReadTo(s, r + i))
    PROVE  Marks(s, r, p, r + i, b)
<1> DEFINE j == r + i
           e == s[j]
           g == ReadTo(s, j - 1)
           h == ReadTo(s, j)
           run == g.run
           S == Output({run})
           q == SubSeq(s, p + 1, j - 1)
           z == SubSeq(s, p + 1, j)
<1>0. s \in Seq(Tokens) /\ Len(s) \in Nat
  BY LenProperties DEF Legal
<1>1. j \in 1 .. Len(s) /\ j \in Nat /\ p < j /\ j <= Len(s) /\ j = r + i
  BY <1>0
<1>2. HooksAt(a, b, i, e, g, h) \/ MovesOn(a, b, i, e, g, h)
  OBVIOUS
<1>3. Stays(s, p, j - 1) /\ g.at \notin {"body", "closing"} /\ Marks(s, r, p, j - 1, a)
  OBVIOUS
<1> HIDE DEF j
<1>4. e \in Tokens /\ Joins(g, e, h.at) /\ Moves(g, e, h) /\ g \in Readings
  BY <1>1, ReadStep, MovesJoin
<1>5. q \in Seq(Tokens) /\ z = Append(q, e)
  BY <1>0, <1>1, PieceLast
<1>6. h.run = run /\ run \in Nat
  <2> HIDE DEF g, h, e
  <2> QED BY <1>3, <1>4, MovesFields DEF Takes, Readings
<1>7. Marks(s, r, p, j, b) <=>
        (run # 0 => /\ h.at \in {"free", "escape"} => Keep(z, S) = z
                    /\ h.at = "opening" => MarkedAt(s, r, p, j, run, b.esc)
                    /\ h.at = "body" => MarkedAt(s, r, p, j, run, b.start))
  BY <1>6 DEF Marks
<1>8. run # 0 => /\ g.at \in {"free", "escape"} => Keep(q, S) = q
                 /\ g.at = "opening" => MarkedAt(s, r, p, j - 1, run, a.esc)
  BY <1>3 DEF Marks
<1>9. a.esc \in Nat
  BY SnifferParts
<1>10. MarkedAt(s, r, p, j - 1, run, a.esc) => /\ p < r + a.esc /\ r + a.esc <= j - 1
                                               /\ Keep(q, S) = SubSeq(s, p + 1, r + a.esc - 1)
  BY DEF MarkedAt
<1>11. \A m : MarkedAt(s, r, p, j, run, m) <=>
          p < r + m /\ r + m <= j /\ Keep(z, S) = SubSeq(s, p + 1, r + m - 1)
  BY DEF MarkedAt
<1>12. Keep(z, S) = IF e \in S THEN Append(Keep(q, S), e) ELSE Keep(q, S)
  <2> HIDE DEF q, z, S, e
  <2> QED BY <1>4, <1>5, KeepAppend
<1>13. e \in S <=> e.of = run /\ e.kind \notin Hooks
  BY <1>4, <1>6, OutputToken
<1>14. q = SubSeq(s, p + 1, j - 1)
  OBVIOUS
<1> HIDE DEF q, z, S, e, g, h, run
<1> SUFFICES ASSUME run # 0
             PROVE  /\ h.at \in {"free", "escape"} => Keep(z, S) = z
                    /\ h.at = "opening" => MarkedAt(s, r, p, j, run, b.esc)
                    /\ h.at = "body" => MarkedAt(s, r, p, j, run, b.start)
  BY <1>7 DEF j
<1>15. CASE h.at \in {"free", "escape"}
  <2>1. e \in S /\ g.at \in {"free", "escape"}
    BY <1>3, <1>4, <1>13, <1>15 DEF Joins, run, Visible, Hooks
  <2>2. Keep(z, S) = z
    BY <1>5, <1>8, <1>12, <2>1
  <2> QED BY <1>15, <2>2
<1>16. CASE h.at = "opening"
  <2>1. e \notin S /\ g.at = "free" /\ e.kind = "esc"
    BY <1>3, <1>4, <1>13, <1>16 DEF Joins
  <2>2. Keep(z, S) = q
    BY <1>8, <1>12, <2>1
  <2>3. b.esc = i
    <3>1. MovesOn(a, b, i, e, g, h)
      BY <1>2, <1>16 DEF HooksAt
    <3> DEFINE next == ParserAt(h.at)
    <3>2. b = Moved(a, next, EscAt(a, e, i)) /\ EscAt(a, e, i) = i
      BY <2>1, <3>1 DEF MovesOn, EscAt
    <3>3. next \in Parsers /\ next # "dcs" /\ i \in Nat
      BY <1>16 DEF ParserAt, Parsers
    <3> DEFINE esc == i
    <3>4. b = Moved(a, next, esc) /\ (next = "dcs" => a.hook \in Heads) /\ esc \in Nat /\ next \in Parsers
      BY <3>2, <3>3
    <3> HIDE DEF next, esc
    <3>5. Moved(a, next, esc).esc = esc
      BY SnifferParts DEF Moved
    <3>6. b.esc = esc
      BY <3>4, <3>5
    <3> QED BY <3>6 DEF esc
  <2>5. SubSeq(s, p + 1, r + i - 1) = q
    <3>1. r + i - 1 = j - 1
      BY <1>1
    <3> QED BY <1>14, <3>1
  <2>4. MarkedAt(s, r, p, j, run, i)
    BY <1>1, <2>2, <2>5, <1>11
  <2> QED BY <1>16, <2>3, <2>4
<1>17. CASE h.at = "body"
  <2>1. e \notin S /\ g.at = "opening" /\ e.kind \in Hooks
    BY <1>3, <1>4, <1>13, <1>17 DEF Joins
  <2>2. b.start = a.esc
    <3>1. HooksAt(a, b, i, e, g, h)
      BY <1>2, <1>17 DEF MovesOn
    <3>2. b = Hook(a, e) /\ e \in Heads
      BY <3>1 DEF HooksAt
    <3> QED BY <3>2, HookParts
  <2>3. /\ p < r + a.esc /\ r + a.esc <= j - 1 /\ Keep(z, S) = SubSeq(s, p + 1, r + a.esc - 1)
    BY <1>8, <1>10, <1>12, <2>1
  <2>4. MarkedAt(s, r, p, j, run, a.esc)
    <3>1. r + a.esc <= j
      BY <1>1, <1>9, <2>3
    <3> QED BY <1>11, <2>3, <3>1
  <2> QED BY <1>17, <2>2, <2>4
<1> QED BY <1>15, <1>16, <1>17

(* A piece with nothing to capture in it.                                  *)
LEMMA CapturesNone ==
    ASSUME NEW s \in Seq(Tokens), NEW p \in Nat, NEW k \in Nat, p <= k, k <= Len(s),
           NEW run \in Nat, Own(s, p, k, run), NEW cuts,
           run # 0 /\ WholeIn(cuts, run) => Keep(SubSeq(s, p + 1, k), Output({run})) = << >>,
           NEW st \in Stores, NEW top, Shape(st, run, top), CapturedTo(s, p, cuts, st)
    PROVE  CapturedTo(s, k, cuts, st)
<1> DEFINE b == st.blocks
<1>1. ASSUME NEW i \in 1 .. Len(b), b[i].command # None, WholeIn(cuts, b[i].command)
      PROVE  Contents(b[i]).output = Capped(s, k, b[i].command)
  <2> DEFINE c == b[i].command
  <2>1. c \in Nat /\ c # 0
    BY <1>1, GridWhenRunning
  <2>2. Contents(b[i]).output = Capped(s, p, c)
    BY <1>1 DEF CapturedTo
  <2>3. Keep(SubSeq(s, p + 1, k), Output({c})) = << >>
    <3>1. CASE c = run
      BY <1>1, <2>1, <3>1
    <3>2. CASE c # run
      <4> HIDE DEF c
      <4> QED BY <2>1, <3>2, OwnNoOutput
    <3> QED BY <3>1, <3>2
  <2> HIDE DEF c
  <2>4. Capped(s, k, c) = Capped(s, p, c)
    BY <2>3, CappedSpared
  <2> QED BY <2>2, <2>4 DEF c
<1> HIDE DEF b
<1>2. \A i \in 1 .. Len(b) : b[i].command # None /\ WholeIn(cuts, b[i].command)
          => Contents(b[i]).output = Capped(s, k, b[i].command)
  BY <1>1
<1> QED BY <1>2 DEF CapturedTo, b

-----------------------------------------------------------------------------
(* A turn of the loop: the piece up to the end of a frame, and its event.  *)

Reached(s, p, cuts, t) ==
    /\ Same(t.store, ReadTo(s, p).store)
    /\ Faithful(s, p, cuts, t.store, t.global)
    /\ CapturedTo(s, p, cuts, t.store)

(* A command is running that no border has torn.                           *)
Unbroken(s, p, cuts) == ReadTo(s, p).run # 0 /\ WholeIn(cuts, ReadTo(s, p).run)

(* It is outside of frames and escape sequences, where borders are known.  *)
LEMMA UnbrokenFree ==
    ASSUME NEW s, NEW p, NEW cuts, Unbroken(s, p, cuts), CutKnown(s, p, cuts)
    PROVE  ReadTo(s, p).at = "free"
<1>1. Token(s[p + 1].kind, ReadTo(s, p).run).of = ReadTo(s, p).run
  BY DEF Token
<1> QED BY <1>1 DEF Unbroken, CutKnown, WholeIn

(* The frame starts where the output of the command ends.                  *)
CutAt(s, r, c, end, n, cuts, start) ==
    Unbroken(s, r + c, cuts) =>
        /\ start > 0 /\ start - 1 >= c /\ start - 1 <= n
        /\ Keep(SubSeq(s, r + c + 1, r + end), Output({ReadTo(s, r + c).run})) =
               SubSeq(s, r + c + 1, r + start - 1)

(* The turn u is at token k, as after the event.                           *)
TurnMade(s, k, cuts, u, end, st) ==
    /\ u \in Turns /\ u.cursor = end
    /\ Same(u.store, st)
    /\ Faithful(s, k, cuts, u.store, u.global)
    /\ CapturedTo(s, k, cuts, u.store)

(* The event is all that happened to the blocks between two places.        *)
Applied(s, p, k, event) == ReadTo(s, k).store = Apply(ReadTo(s, p).store, event)

(* A turn told of an event.                                                *)
Told(k, event, end) == [k EXCEPT !.store = Apply(k.store, event), !.cursor = end]

(* Its fields.                                                             *)
LEMMA ToldTurn ==
    ASSUME NEW k \in Turns, NEW event \in Heads, NEW end \in Nat
    PROVE  /\ Told(k, event, end) \in Turns /\ Told(k, event, end).store = Apply(k.store, event)
           /\ Told(k, event, end).cursor = end /\ Told(k, event, end).global = k.global
<1> DEFINE st == Apply(k.store, event)
           told == Told(k, event, end)
<1>1. st \in Stores
  BY ApplyType DEF Turns
<1>0. told = [k EXCEPT !.store = st, !.cursor = end]
  BY DEF Told
<1> HIDE DEF st, told
<1>3. /\ told \in Turns /\ told.store = st
      /\ told.cursor = end /\ told.global = k.global
  BY <1>1, <1>0 DEF Turns
<1> QED BY <1>3 DEF st, told

(* The turn for the event of a frame: the piece is shown and captured, and *)
(* the event applied, so that the terminal is where the stream is.         *)
LEMMA EventTurn ==
    ASSUME NEW s, Legal(s), NEW r \in Nat, NEW n \in Nat, r + n <= Len(s),
           NEW chunk, chunk = SubSeq(s, r + 1, r + n),
           NEW t \in Turns, NEW found \in Founds(n), t.cursor <= found.end,
           NEW cuts, Reached(s, r + t.cursor, cuts, t),
           Own(s, r + t.cursor, r + found.end, ReadTo(s, r + t.cursor).run),
           CutKnown(s, r + t.cursor, cuts),
           Applied(s, r + t.cursor, r + found.end, found.event),
           ReadTo(s, r + found.end).at \in {"free", "closing"},
           Fits(found.event, ReadTo(s, r + t.cursor).run, ReadTo(s, r + t.cursor).top),
           CutAt(s, r, t.cursor, found.end, n, cuts, found.start),
           ~Turn(chunk, t, found).panicked
    PROVE  TurnMade(s, r + found.end, cuts, Turn(chunk, t, found), found.end,
                    Apply(ReadTo(s, r + t.cursor).store, found.event))
<1> DEFINE c == t.cursor
           end == found.end
           event == found.event
           start == found.start
           p == r + c
           k == r + end
           g == ReadTo(s, p)
           run == g.run
           top == g.top
           upTo == UpTo(found)
           fed == FedBy(chunk, t, found)
           kept == KeptBy(chunk, t, found)
           q == SubSeq(s, p + 1, k)
<1>0. s \in Seq(Tokens) /\ Len(s) \in Nat
  BY LenProperties DEF Legal
<1>1. /\ c \in Nat /\ end \in Nat /\ end <= n /\ event \in Heads /\ start \in Nat /\ c <= end
      /\ ~t.panicked \/ t.panicked
  BY DEF Turns, Founds
<1>2. /\ p \in Nat /\ k \in Nat /\ p <= k /\ k <= Len(s) /\ p \in 0 .. Len(s) /\ p <= Len(s)
  BY <1>0, <1>1
<1>3. chunk \in Seq(Tokens) /\ Len(chunk) = n
  BY <1>0, ChunkAt
<1>4. /\ ~t.panicked /\ ~(upTo > n) /\ Turn(chunk, t, found) = ToldBy(chunk, t, found)
  BY <1>3, TurnCases DEF Turns
<1>6. \A m \in Nat : m <= n => SubSeq(chunk, c + 1, m) = SubSeq(s, p + 1, r + m)
  <2> SUFFICES ASSUME NEW m \in Nat, m <= n
               PROVE  SubSeq(chunk, c + 1, m) = SubSeq(s, p + 1, r + m)
    OBVIOUS
  <2>1. chunk = SubSeq(s, r + 1, r + n)
    OBVIOUS
  <2>2. p = r + c
    OBVIOUS
  <2> HIDE DEF c, end, event, start, p, k, g, run, top, upTo, fed, kept, q
  <2>3. SubSeq(SubSeq(s, r + 1, r + n), c + 1, m) = SubSeq(s, (r + c) + 1, r + m)
    BY <1>0, <1>1, ChunkPiece
  <2> QED BY <2>1, <2>2, <2>3
<1>5. SubSeq(chunk, c + 1, end) = q
  <2>1. q = SubSeq(s, p + 1, r + end)
    OBVIOUS
  <2> HIDE DEF c, end, event, start, p, k, g, run, top, upTo, fed, kept, q
  <2> QED BY <1>1, <1>6, <2>1
<1>7. fed = Dispatch(t, q)
  BY <1>5 DEF FedBy
<1>8. kept = IF upTo > c THEN Capture(fed, SubSeq(chunk, c + 1, upTo)) ELSE fed
  BY DEF KeptBy
<1>9. ToldBy(chunk, t, found) = Told(kept, event, end)
  BY DEF ToldBy, Told
<1>10. /\ Same(t.store, g.store) /\ Faithful(s, p, cuts, t.store, t.global)
       /\ CapturedTo(s, p, cuts, t.store)
  BY DEF Reached
<1>11. /\ Own(s, p, k, run) /\ CutKnown(s, p, cuts) /\ ReadTo(s, k).at \in {"free", "closing"}
       /\ Fits(event, run, top) /\ Applied(s, p, k, event)
  OBVIOUS
<1>12. run # 0 /\ WholeIn(cuts, run) =>
           /\ start > 0 /\ start - 1 >= c /\ start - 1 <= n
           /\ Keep(q, Output({run})) = SubSeq(s, p + 1, r + start - 1)
  BY DEF CutAt, Unbroken
<1>13. upTo = IF start = 0 THEN end ELSE start - 1
  BY DEF UpTo
<1>14. p = r + c
  OBVIOUS
<1> HIDE DEF c, end, event, start, p, k, upTo, fed, kept, q
<1>15. g \in Readings /\ Shape(g.store, run, top) /\ run \in Nat /\ top \in Nat /\ g.store \in Stores
  <2>1. Legal(SubSeq(s, 1, p))
    BY <1>2, PrefixLegal
  <2>2. Sound(SubSeq(s, 1, p), g) /\ g \in Readings
    BY <2>1, LegalSound DEF ReadTo
  <2> QED BY <2>2 DEF Sound, Readings
<1>16. Unseen(s, k, top + 1)
  BY <1>2, <1>11, UnseenBefore
<1> HIDE DEF g, run, top
<1>17. t.store \in Stores /\ Shape(t.store, run, top)
  BY <1>10, <1>15, SameShape DEF Turns
<1>18. /\ Dispatched(t, fed) /\ Faithful(s, k, cuts, fed.store, fed.global)
  <2>1. run # 0 => ReadTo(s, p).run = run
    BY DEF g, run
  <2> QED BY <1>2, <1>7, <1>10, <1>11, <1>15, <1>17, <2>1, DispatchShows DEF q
<1>19. /\ fed \in Turns /\ fed.cursor = c /\ Same(fed.store, t.store) /\ Outputs(t.store, fed.store)
       /\ fed.store \in Stores /\ fed.panicked = t.panicked
  BY <1>18 DEF Dispatched, c, Turns
<1>20. Shape(fed.store, run, top)
  BY <1>15, <1>17, <1>19, SameShape
<1>21. CapturedTo(s, p, cuts, fed.store)
  BY <1>10, <1>19, OutputsKept
<1>22. upTo \in Nat /\ upTo <= n
  BY <1>1, <1>4, <1>13
<1>23. /\ SameBut(fed, kept) /\ Faithful(s, k, cuts, kept.store, kept.global)
       /\ CapturedTo(s, k, cuts, kept.store)
  <2>1. CASE upTo > c
    <3> DEFINE x == SubSeq(s, p + 1, r + upTo)
    <3>1. kept = Capture(fed, x)
      BY <1>6, <1>8, <1>22, <2>1
    <3>2. x \in Seq(Tokens)
      <4>1. r + upTo \in Nat /\ r + upTo <= Len(s)
        BY <1>0, <1>22
      <4> QED BY <1>0, <1>2, <4>1, PieceType
    <3>3. run # 0 /\ WholeIn(cuts, run) => Keep(q, Output({run})) = x
      <4> SUFFICES ASSUME run # 0, WholeIn(cuts, run) PROVE Keep(q, Output({run})) = x
        OBVIOUS
      <4>1. start > 0 /\ Keep(q, Output({run})) = SubSeq(s, p + 1, r + start - 1)
        BY <1>12
      <4>2. r + start - 1 = r + upTo
        BY <1>1, <1>13, <4>1
      <4> QED BY <4>1, <4>2
    <3> HIDE DEF x
    <3>4. /\ SameBut(fed, kept) /\ Faithful(s, k, cuts, kept.store, kept.global)
          /\ Captures(fed.store, kept.store, run, x)
      BY <1>15, <1>18, <1>19, <1>20, <3>1, <3>2, CaptureShows
    <3>5. CapturedTo(s, k, cuts, kept.store)
      <4> DEFINE st == fed.store
                 w == kept.store
      <4>1. /\ st \in Stores /\ w \in Stores /\ Same(w, st) /\ Captures(st, w, run, x)
            /\ CapturedTo(s, p, cuts, st) /\ Shape(st, run, top)
        BY <1>19, <1>20, <1>21, <3>4 DEF SameBut, Turns
      <4>2. run # 0 /\ WholeIn(cuts, run) => Keep(SubSeq(s, p + 1, k), Output({run})) = x
        BY <3>3 DEF q
      <4> HIDE DEF st, w
      <4>3. CapturedTo(s, k, cuts, w)
        BY <1>0, <1>2, <1>11, <1>15, <4>1, <4>2, CaptureExactly
      <4> QED BY <4>3 DEF w
    <3> QED BY <3>4, <3>5
  <2>2. CASE ~(upTo > c)
    <3>1. kept = fed
      BY <1>8, <2>2
    <3>2. SameBut(fed, fed)
      BY <1>19, SameRefl DEF SameBut
    <3>3. CapturedTo(s, k, cuts, kept.store)
      <4> DEFINE st == fed.store
      <4>1. st \in Stores /\ CapturedTo(s, p, cuts, st) /\ Shape(st, run, top)
        BY <1>19, <1>20, <1>21
      <4>2. run # 0 /\ WholeIn(cuts, run) => Keep(SubSeq(s, p + 1, k), Output({run})) = << >>
        <5> SUFFICES ASSUME run # 0, WholeIn(cuts, run) PROVE Keep(q, Output({run})) = << >>
          BY DEF q
        <5>1. start > 0 /\ start - 1 >= c /\ Keep(q, Output({run})) = SubSeq(s, p + 1, r + start - 1)
          BY <1>12
        <5>2. r + start - 1 = p
          BY <1>1, <1>13, <1>14, <2>2, <5>1
        <5>3. SubSeq(s, p + 1, p) = << >>
          BY <1>2, PieceEmpty
        <5> QED BY <5>1, <5>2, <5>3
      <4> HIDE DEF st
      <4>3. CapturedTo(s, k, cuts, st)
        BY <1>0, <1>2, <1>11, <1>15, <4>1, <4>2, CapturesNone
      <4> QED BY <3>1, <4>3 DEF st
    <3> QED BY <1>18, <3>1, <3>2, <3>3
  <2> QED BY <2>1, <2>2
<1> DEFINE st == kept.store
           w == Apply(st, event)
           u == Turn(chunk, t, found)
<1>24. kept \in Turns /\ st \in Stores /\ Same(st, fed.store)
  BY <1>23 DEF SameBut, Turns
<1>25. u \in Turns /\ u.store = w /\ u.cursor = end /\ u.global = kept.global
  <2>1. u = Told(kept, event, end)
    BY <1>4, <1>9
  <2>2. w = Apply(kept.store, event)
    OBVIOUS
  <2> HIDE DEF st, w, u
  <2>3. kept \in Turns /\ event \in Heads /\ end \in Nat
    BY <1>1, <1>24
  <2>4. /\ Told(kept, event, end) \in Turns
        /\ Told(kept, event, end).store = Apply(kept.store, event)
        /\ Told(kept, event, end).cursor = end
        /\ Told(kept, event, end).global = kept.global
    BY <2>3, ToldTurn
  <2> QED BY <2>1, <2>2, <2>4
<1>26. Shape(st, run, top) /\ Same(st, g.store)
  BY <1>10, <1>15, <1>19, <1>20, <1>24, SameShape, SameTrans
<1> HIDE DEF st, w, u
<1>27. ApplySays(st, w, event, top)
  BY <1>1, <1>11, <1>15, <1>24, <1>26, ApplyEffect DEF w
<1>28. Same(w, Apply(g.store, event))
  <2> DEFINE old == g.store
  <2>1. old \in Stores /\ Same(st, old)
    BY <1>15, <1>26
  <2> HIDE DEF old
  <2>2. Same(Apply(st, event), Apply(old, event))
    BY <1>1, <1>24, <2>1, SameApply
  <2> QED BY <2>2 DEF old, w
<1>29. Faithful(s, k, cuts, w, kept.global)
  <2> DEFINE gl == kept.global
  <2>1. Faithful(s, k, cuts, st, gl)
    BY <1>23 DEF st
  <2> HIDE DEF gl
  <2>2. w.open = ReadTo(s, k).store.open
    BY <1>11, <1>28 DEF Same, Applied, g
  <2>3. Faithful(s, k, cuts, w, gl)
    BY <1>1, <1>11, <1>15, <1>16, <1>24, <1>27, <2>1, <2>2, EventShows
  <2> QED BY <2>3 DEF gl
<1>30. CapturedTo(s, k, cuts, w)
  <2>1. CapturedTo(s, k, cuts, st)
    BY <1>23 DEF st
  <2> QED BY <1>1, <1>15, <1>16, <1>24, <1>27, <2>1, EventCaptured
<1>31. TurnMade(s, k, cuts, u, end, Apply(g.store, event))
  BY <1>25, <1>28, <1>29, <1>30 DEF TurnMade
<1> QED BY <1>31 DEF k, u, end, g, p, c, event

-----------------------------------------------------------------------------
(* The end of a frame that is read at place j, the end k being there or,   *)
(* when the sniffer has looked ahead, after the backslash.                 *)

KeepsNoMore(s, p, k, m, run) ==
    run # 0 => Keep(SubSeq(s, p + 1, k), Output({run})) = Keep(SubSeq(s, p + 1, m), Output({run}))

(* A token that is no output adds nothing.                                 *)
LEMMA KeepsNext ==
    ASSUME NEW s \in Seq(Tokens), NEW p \in Nat, NEW k \in Nat, p < k, k <= Len(s),
           NEW run \in Nat, run # 0 => s[k] \notin Output({run})
    PROVE  KeepsNoMore(s, p, k, k - 1, run)
<1> DEFINE q == SubSeq(s, p + 1, k - 1)
           z == SubSeq(s, p + 1, k)
           e == s[k]
           S == Output({run})
<1>1. q \in Seq(Tokens) /\ e \in Tokens /\ z = Append(q, e)
  BY PieceLast
<1>2. run # 0 => e \notin S
  OBVIOUS
<1>3. KeepsNoMore(s, p, k, k - 1, run) <=> (run # 0 => Keep(z, S) = Keep(q, S))
  BY DEF KeepsNoMore
<1> HIDE DEF q, z, e, S
<1>4. Keep(z, S) = IF e \in S THEN Append(Keep(q, S), e) ELSE Keep(q, S)
  BY <1>1, KeepAppend
<1> QED BY <1>2, <1>3, <1>4

(* What the stream says at such an end.                                    *)
Ended(s, p, j, k) ==
    /\ Own(s, p, k, ReadTo(s, p).run)
    /\ ReadTo(s, k).at \in {"free", "closing"}
    /\ k = j + 1 => ReadTo(s, k).at = "free"
    /\ Fits(ReadTo(s, j - 1).head, ReadTo(s, p).run, ReadTo(s, p).top)
    /\ ReadTo(s, j - 1).head \in Heads
    /\ ReadTo(s, k).store = Apply(ReadTo(s, p).store, ReadTo(s, j - 1).head)
    /\ KeepsNoMore(s, p, k, j - 1, ReadTo(s, p).run)

(* The frame ends at its last token or at the ESC of its terminator,       *)
LEMMA FrameTaken ==
    ASSUME NEW s, Legal(s), NEW p \in Nat, NEW j \in Nat, p < j, j <= Len(s),
           Stays(s, p, j - 1), ReadTo(s, j - 1).at = "body"
    PROVE  Ended(s, p, j, j)
<1> DEFINE g == ReadTo(s, j - 1)
           h == ReadTo(s, j)
           f == ReadTo(s, p)
           e == s[j]
           m == j - 1
           run == f.run
<1>0. s \in Seq(Tokens) /\ Len(s) \in Nat
  BY LenProperties DEF Legal
<1>1. j \in 1 .. Len(s) /\ m \in Nat /\ p <= m /\ m + 1 = j /\ m \in 0 .. Len(s) /\ j # j + 1
      /\ p \in 0 .. Len(s)
  BY <1>0
<1>2. g \in Readings /\ e \in Tokens /\ Moves(g, e, h) /\ Joins(g, e, h.at)
  BY <1>1, ReadStep, MovesJoin
<1>3. g.run = run /\ g.top = f.top /\ g.store = f.store /\ Own(s, p, m, run) /\ g.at = "body"
  BY DEF Stays
<1>4. g.head \in Heads /\ Fits(g.head, g.run, g.top)
  BY <1>1, <1>3, HeadAt
<1>5. f \in Readings
  BY <1>1, HeadAt
<1> HIDE DEF g, h, f, e, m
<1>6. run \in Nat
  BY <1>5 DEF Readings
<1>7. h.at \in {"free", "closing"} /\ e.of = 0 /\ e.kind \in {"esc", "st"}
  BY <1>2, <1>3 DEF Joins
<1>8. h.store = Apply(g.store, g.head)
  <2>1. h = Taken(g, e)
    BY <1>2, <1>3 DEF Moves, Opens, Escapes, Shows, Begins, Takes, Closes, Switches
  <2> QED BY <2>1 DEF Taken
<1>9. Own(s, p, j, run)
  <2>1. OwnToken1(e, run)
    BY <1>2, <1>3, JoinsOwn
  <2> QED BY <1>1, <1>3, <2>1, OwnMore DEF e
<1>10. KeepsNoMore(s, p, j, j - 1, run)
  <2>1. run # 0 => s[j] \notin Output({run})
    BY <1>7 DEF Output, e
  <2> HIDE DEF run
  <2> QED BY <1>0, <1>6, <2>1, KeepsNext
<1> QED BY <1>1, <1>3, <1>4, <1>7, <1>8, <1>9, <1>10 DEF Ended, g, h, f, m

(* or at the backslash after that ESC.                                     *)
LEMMA FrameClosed ==
    ASSUME NEW s, Legal(s), NEW p \in Nat, NEW j \in Nat, p < j, j + 1 <= Len(s),
           Stays(s, p, j - 1), ReadTo(s, j - 1).at = "body", ReadTo(s, j).at = "closing"
    PROVE  Ended(s, p, j, j + 1)
<1> DEFINE k == j + 1
           g == ReadTo(s, j)
           h == ReadTo(s, k)
           f == ReadTo(s, p)
           e == s[k]
           run == f.run
           head == ReadTo(s, j - 1).head
<1>0. s \in Seq(Tokens) /\ Len(s) \in Nat
  BY LenProperties DEF Legal
<1>1. k \in 1 .. Len(s) /\ k - 1 = j /\ j \in Nat /\ p <= j /\ p < k /\ k <= Len(s) /\ k \in Nat
      /\ p \in 0 .. Len(s) /\ j <= Len(s)
  BY <1>0
<1>2. Ended(s, p, j, j)
  BY <1>1, FrameTaken
<1>3. /\ Own(s, p, j, run) /\ Fits(head, run, f.top) /\ head \in Heads
      /\ g.store = Apply(f.store, head) /\ KeepsNoMore(s, p, j, j - 1, run)
      /\ g.at = "closing"
  BY <1>2 DEF Ended
<1>4. k = j + 1
  OBVIOUS
<1>5. f \in Readings
  BY <1>1, HeadAt
<1> HIDE DEF k
<1>6. g \in Readings /\ e \in Tokens /\ Moves(g, e, h) /\ Joins(g, e, h.at)
  BY <1>1, ReadStep, MovesJoin
<1> HIDE DEF g, h, f, e, head
<1>7. run \in Nat
  BY <1>5 DEF Readings
<1>8. h.at = "free" /\ e.of = 0 /\ OwnToken1(e, run)
  BY <1>3, <1>6, ClosingOwn DEF Joins
<1>9. h.store = g.store
  BY <1>3, <1>6, MovesFields DEF Takes
<1>10. Own(s, p, k, run)
  <2>1. OwnToken1(s[j + 1], run)
    BY <1>4, <1>8 DEF e
  <2> QED BY <1>1, <1>3, <1>4, <2>1, OwnMore
<1>11. KeepsNoMore(s, p, k, j, run)
  <2>1. run # 0 => s[k] \notin Output({run})
    BY <1>8 DEF Output, e
  <2> HIDE DEF run
  <2>2. KeepsNoMore(s, p, k, k - 1, run)
    BY <1>0, <1>1, <1>7, <2>1, KeepsNext
  <2> QED BY <1>1, <2>2
<1>12. KeepsNoMore(s, p, k, j - 1, run)
  BY <1>3, <1>11 DEF KeepsNoMore
<1>13. Ended(s, p, j, k)
  BY <1>3, <1>8, <1>9, <1>10, <1>12 DEF Ended, h, f, head
<1> QED BY <1>13 DEF k

-----------------------------------------------------------------------------
(* The loop over the events of a chunk, at position i of the sniffer.      *)

(* Since the last event's end one command has been running and the sniffer *)
(* knows where its output ends.                                            *)
Held(s, r, i, cuts, a, t) ==
    /\ t.cursor <= i
    /\ Stays(s, r + t.cursor, r + i)
    /\ Unbroken(s, r + t.cursor, cuts) => Marks(s, r, r + t.cursor, r + i, a)

(* The invariant of the loop: the turn is where the stream was at its      *)
(* cursor, and the cursor has not fallen behind an event.                  *)
Looped(s, r, n, i, cuts, a, t) ==
    /\ t \in Turns
    /\ ~t.panicked =>
          /\ Reached(s, r + t.cursor, cuts, t)
          /\ t.cursor < n => CutKnown(s, r + t.cursor, cuts)
          /\ a.skip = i + 1 => t.cursor = i + 1
          /\ a.skip # i + 1 => Held(s, r, i, cuts, a, t)

(* Where the frame starts is where the bytes to capture end.               *)
LEMMA MarkCuts ==
    ASSUME NEW s, NEW r \in Nat, NEW n \in Nat, NEW i \in 1 .. n, NEW cuts, NEW c \in Nat,
           NEW a, a.start \in Nat, NEW end \in i .. n,
           c < i, Stays(s, r + c, r + (i - 1)), ReadTo(s, r + (i - 1)).at = "body",
           Unbroken(s, r + c, cuts) => Marks(s, r, r + c, r + (i - 1), a),
           KeepsNoMore(s, r + c, r + end, r + (i - 1), ReadTo(s, r + c).run)
    PROVE  CutAt(s, r, c, end, n, cuts, a.start)
<1> DEFINE p == r + c
           m == r + (i - 1)
           run == ReadTo(s, p).run
           start == a.start
           S == Output({run})
<1> SUFFICES ASSUME Unbroken(s, p, cuts)
             PROVE  /\ start > 0 /\ start - 1 >= c /\ start - 1 <= n
                    /\ Keep(SubSeq(s, r + c + 1, r + end), S) = SubSeq(s, r + c + 1, r + start - 1)
  BY DEF CutAt
<1>1. ReadTo(s, m).run = run /\ ReadTo(s, m).at = "body" /\ run # 0
  BY DEF Stays, Unbroken
<1>2. Marks(s, r, p, m, a)
  OBVIOUS
<1> HIDE DEF run, m, p, start, S
<1>3. MarkedAt(s, r, p, m, run, start)
  BY <1>1, <1>2 DEF Marks, start
<1>4. /\ p < r + start /\ r + start <= m
      /\ Keep(SubSeq(s, p + 1, m), S) = SubSeq(s, p + 1, r + start - 1)
  BY <1>3 DEF MarkedAt, S
<1>5. Keep(SubSeq(s, p + 1, r + end), S) = Keep(SubSeq(s, p + 1, m), S)
  BY <1>1 DEF KeepsNoMore, p, m, run, S
<1>6. start > 0 /\ start - 1 >= c /\ start - 1 <= n
  BY <1>4 DEF p, m, start
<1> QED BY <1>4, <1>5, <1>6 DEF p

(* The sniffer ends a frame at token i, reporting end.                     *)
EndsAt(s, r, n, i, cuts, a, t, end) ==
    /\ a \in Sniffers(n) /\ Looped(s, r, n, i - 1, cuts, a, t)
    /\ a.skip # i /\ ReadTo(s, r + (i - 1)).at = "body" /\ a.hook = ReadTo(s, r + (i - 1)).head
    /\ end \in i .. n
    /\ end = i \/ (end = i + 1 /\ ReadTo(s, r + i).at = "closing")

(* The turn u is where the stream is at token k.                           *)
TurnedAt(s, k, end, cuts, u) == u \in Turns /\ u.cursor = end /\ Reached(s, k, cuts, u)

(* The turn for a frame that ends there.                                   *)
LEMMA EndedTurn ==
    ASSUME NEW s, Legal(s), NEW r \in Nat, NEW n \in Nat, r + n <= Len(s), NEW i \in 1 .. n,
           NEW chunk, chunk = SubSeq(s, r + 1, r + n),
           NEW cuts, NEW a, NEW t, NEW end, EndsAt(s, r, n, i, cuts, a, t, end),
           ~Turn(chunk, t, FoundBy(a, end)).panicked
    PROVE  TurnedAt(s, r + end, end, cuts, Turn(chunk, t, FoundBy(a, end)))
<1>20. /\ a \in Sniffers(n) /\ Looped(s, r, n, i - 1, cuts, a, t)
       /\ a.skip # i /\ ReadTo(s, r + (i - 1)).at = "body" /\ a.hook = ReadTo(s, r + (i - 1)).head
       /\ end \in i .. n
       /\ end = i \/ (end = i + 1 /\ ReadTo(s, r + i).at = "closing")
  BY DEF EndsAt
<1> DEFINE found == FoundBy(a, end)
           c == t.cursor
           p == r + c
           j == r + i
           k == r + end
           u == Turn(chunk, t, found)
           head == ReadTo(s, j - 1).head
<1>0. s \in Seq(Tokens) /\ Len(s) \in Nat
  BY LenProperties DEF Legal
<1>1. chunk \in Seq(Tokens) /\ Len(chunk) = n
  BY <1>0, ChunkAt
<1>2. ~t.panicked
  <2>1. Turn(chunk, t, found) = IF t.panicked \/ UpTo(found) > Len(chunk) THEN [t EXCEPT !.panicked = TRUE]
                                ELSE ToldBy(chunk, t, found)
    BY TurnCases
  <2>2. CASE t.panicked
    <3>1. u = [t EXCEPT !.panicked = TRUE]
      BY <2>1, <2>2
    <3>2. t \in Turns
      BY <1>20 DEF Looped
    <3> HIDE DEF u
    <3>3. u.panicked
      BY <3>1, <3>2 DEF Turns
    <3> QED BY <3>3 DEF u
  <2> QED BY <2>2
<1>3. (i - 1) + 1 = i /\ j - 1 = r + (i - 1) /\ j \in Nat /\ i \in Nat /\ end \in Nat
  BY <1>20
<1>4. t \in Turns /\ Reached(s, p, cuts, t) /\ (c < n => CutKnown(s, p, cuts))
      /\ Held(s, r, i - 1, cuts, a, t)
  BY <1>2, <1>3, <1>20 DEF Looped
<1>5. c \in Nat
  BY <1>4 DEF Turns
<1>6. c <= i - 1 /\ Stays(s, p, r + (i - 1)) /\ (Unbroken(s, p, cuts) => Marks(s, r, p, r + (i - 1), a))
  BY <1>4 DEF Held
<1>7. p \in Nat /\ p < j /\ j <= Len(s) /\ c < i /\ c < n /\ c <= end /\ k \in Nat /\ k <= Len(s)
      /\ (end = i => k = j) /\ (end = i + 1 => k = j + 1)
  <2>1. end \in i .. n /\ r + n <= Len(s)
    BY <1>20
  <2>2. c <= i - 1
    BY <1>6
  <2>3. c < i /\ c < n /\ c <= end
    BY <1>3, <1>5, <2>1, <2>2
  <2>4. r + c \in Nat /\ r + c < r + i /\ r + i <= Len(s)
    BY <1>0, <1>3, <1>5, <2>3
  <2>5. r + end \in Nat /\ r + end <= Len(s) /\ (end = i + 1 => r + end = (r + i) + 1)
    BY <1>0, <1>3, <2>1
  <2> QED BY <2>3, <2>4, <2>5
<1>8. a.start \in Nat /\ found.start = a.start /\ found.end = end /\ found.event = a.hook
      /\ a.hook = head
  BY <1>3, <1>20, SnifferParts DEF FoundBy
<1>9. Stays(s, p, j - 1) /\ ReadTo(s, j - 1).at = "body"
      /\ (end = i + 1 => ReadTo(s, j).at = "closing")
  BY <1>3, <1>6, <1>20
<1> HIDE DEF found, c, p, j, k, u, head
<1>10. Ended(s, p, j, k)
  <2>1. CASE end = i
    <3>1. Ended(s, p, j, j)
      BY <1>3, <1>7, <1>9, FrameTaken
    <3> QED BY <1>7, <2>1, <3>1
  <2>2. CASE end = i + 1
    <3>1. j + 1 <= Len(s)
      BY <1>7, <2>2
    <3>2. ReadTo(s, j).at = "closing"
      BY <1>9, <2>2
    <3>3. Ended(s, p, j, j + 1)
      BY <1>3, <1>7, <1>9, <3>1, <3>2, FrameClosed
    <3> QED BY <1>7, <2>2, <3>3
  <2> QED BY <1>20, <2>1, <2>2
<1>11. /\ Own(s, p, k, ReadTo(s, p).run) /\ ReadTo(s, k).at \in {"free", "closing"}
       /\ Fits(head, ReadTo(s, p).run, ReadTo(s, p).top) /\ head \in Heads
       /\ KeepsNoMore(s, p, k, j - 1, ReadTo(s, p).run)
       /\ ReadTo(s, k).store = Apply(ReadTo(s, p).store, head)
  BY <1>10 DEF Ended, head
<1>12. CutAt(s, r, c, end, n, cuts, a.start)
  <2>1. KeepsNoMore(s, p, k, r + (i - 1), ReadTo(s, p).run)
    BY <1>3, <1>11
  <2>2. p = r + c /\ k = r + end
    BY DEF p, k
  <2> QED BY <1>5, <1>6, <1>7, <1>8, <1>20, <2>1, <2>2, MarkCuts
<1>13. found \in Founds(n)
  <2>1. end \in 0 .. n
    BY <1>3, <1>20
  <2>2. a.start \in Nat /\ a.hook \in Heads
    BY <1>8, <1>11
  <2> QED BY <2>1, <2>2 DEF found, FoundBy, Founds
<1>14. TurnMade(s, r + found.end, cuts, Turn(chunk, t, found), found.end,
                Apply(ReadTo(s, r + t.cursor).store, found.event))
  <2>1. t.cursor <= found.end
    BY <1>7, <1>8 DEF c
  <2>2. Reached(s, r + t.cursor, cuts, t)
    BY <1>4 DEF c, p
  <2>3. Own(s, r + t.cursor, r + found.end, ReadTo(s, r + t.cursor).run)
    BY <1>8, <1>11 DEF c, p, k
  <2>4. CutKnown(s, r + t.cursor, cuts)
    BY <1>4, <1>7 DEF c, p
  <2>5. ReadTo(s, r + found.end).at \in {"free", "closing"}
    BY <1>8, <1>11 DEF k
  <2>6. Fits(found.event, ReadTo(s, r + t.cursor).run, ReadTo(s, r + t.cursor).top)
    BY <1>8, <1>11 DEF c, p
  <2>7. CutAt(s, r, t.cursor, found.end, n, cuts, found.start)
    BY <1>8, <1>12 DEF c
  <2>8. ~Turn(chunk, t, found).panicked
    BY DEF found
  <2>9. Applied(s, r + t.cursor, r + found.end, found.event)
    BY <1>8, <1>11 DEF Applied, c, p, k
  <2> QED BY <1>4, <1>13, <2>1, <2>2, <2>3, <2>4, <2>5, <2>6, <2>7, <2>8, <2>9, EventTurn
<1>15. TurnMade(s, k, cuts, u, end, ReadTo(s, k).store)
  <2>1. r + found.end = k /\ found.end = end /\ Turn(chunk, t, found) = u
        /\ Apply(ReadTo(s, r + t.cursor).store, found.event) = ReadTo(s, k).store
    BY <1>8, <1>11 DEF k, u, c, p
  <2> QED BY <1>14, <2>1
<1>16. u \in Turns /\ u.cursor = end /\ Reached(s, k, cuts, u)
  BY <1>15 DEF TurnMade, Reached
<1> QED BY <1>16 DEF u, found, k, TurnedAt

(* The step that skips a backslash.                                        *)
LEMMA LoopSkips ==
    ASSUME NEW s, NEW r \in Nat, NEW n \in Nat, NEW i \in 1 .. n, NEW cuts, NEW a, NEW t,
           Looped(s, r, n, i - 1, cuts, a, t), a.skip = i, ReadTo(s, r + i).at = "free"
    PROVE  Looped(s, r, n, i, cuts, a, t)
<1> SUFFICES ASSUME ~t.panicked
             PROVE  t \in Turns => /\ Reached(s, r + t.cursor, cuts, t)
                                   /\ t.cursor < n => CutKnown(s, r + t.cursor, cuts)
                                   /\ a.skip = i + 1 => t.cursor = i + 1
                                   /\ a.skip # i + 1 => Held(s, r, i, cuts, a, t)
  BY DEF Looped
<1>1. /\ Reached(s, r + t.cursor, cuts, t)
      /\ t.cursor < n => CutKnown(s, r + t.cursor, cuts)
      /\ a.skip = (i - 1) + 1 => t.cursor = (i - 1) + 1
  BY DEF Looped
<1>2. (i - 1) + 1 = i /\ i # i + 1 /\ i <= i /\ r + i \in Nat
  OBVIOUS
<1>3. t.cursor = i
  BY <1>1, <1>2
<1>4. Stays(s, r + i, r + i)
  BY <1>2, StaysHere
<1>5. Marks(s, r, r + i, r + i, a)
  BY <1>2, MarksHere
<1>6. Held(s, r, i, cuts, a, t)
  BY <1>2, <1>3, <1>4, <1>5 DEF Held
<1> QED BY <1>1, <1>2, <1>6

(* The steps outside of frames, and into one.                              *)
LEMMA LoopStays ==
    ASSUME NEW s, Legal(s), NEW r \in Nat, NEW n \in Nat, r + n <= Len(s), NEW i \in 1 .. n,
           NEW cuts, CutKnown(s, r, cuts),
           NEW a \in Sniffers(n), Followed(s, r, n, i - 1, a), Waits(s, r, n, i - 1, a),
           NEW t, Looped(s, r, n, i - 1, cuts, a, t), NEW b, b.skip = a.skip, a.skip # i,
           ReadTo(s, r + i - 1).at # "body",
           \/ HooksAt(a, b, i, s[r + i], ReadTo(s, r + i - 1), ReadTo(s, r + i))
           \/ MovesOn(a, b, i, s[r + i], ReadTo(s, r + i - 1), ReadTo(s, r + i))
    PROVE  Looped(s, r, n, i, cuts, b, t)
<1>1. (i - 1) + 1 = i /\ r + i - 1 = r + (i - 1) /\ i \in Nat /\ r + i \in Nat
  OBVIOUS
<1>2. b.skip # i + 1
  <2>1. a.skip <= i /\ a.skip \in Nat
    BY <1>1, SnifferParts DEF Followed
  <2> QED BY <2>1
<1> SUFFICES ASSUME t \in Turns, ~t.panicked PROVE Held(s, r, i, cuts, b, t)
  BY <1>2 DEF Looped
<1>3. Held(s, r, i - 1, cuts, a, t)
  BY <1>1 DEF Looped
<1> DEFINE c == t.cursor
           p == r + c
           j == r + i
<1>4. c \in Nat
  BY DEF Turns
<1>5. c <= i - 1 /\ Stays(s, p, r + (i - 1)) /\ (Unbroken(s, p, cuts) => Marks(s, r, p, r + (i - 1), a))
  BY <1>3 DEF Held
<1>6. /\ p \in Nat /\ r <= p /\ p < j /\ j <= Len(s) /\ c <= i /\ j \in Nat
  <2>1. Len(s) \in Nat
    BY LenProperties DEF Legal
  <2> QED BY <1>4, <1>5, <2>1
<1>7. Stays(s, p, j - 1) /\ ReadTo(s, j - 1).at # "body" /\ j - 1 = r + (i - 1) /\ j = r + i
  BY <1>1, <1>5
<1> HIDE DEF p, j
<1>8. Stays(s, p, j)
  BY <1>6, <1>7, StaysMore
<1>9. ASSUME Unbroken(s, p, cuts) PROVE Marks(s, r, p, j, b)
  <2>1. ReadTo(s, r + (i - 1)).at # "closing"
    <3> SUFFICES ASSUME ReadTo(s, r + (i - 1)).at = "closing" PROVE FALSE
      OBVIOUS
    <3>1. i - 1 = 0 \/ i - 1 = n
      BY <1>1 DEF Waits
    <3>2. r + (i - 1) = r /\ i - 1 = 0
      BY <3>1
    <3>3. p = r
      BY <1>4, <1>5, <3>2 DEF p
    <3>4. ReadTo(s, r).at = "free"
      BY <1>9, <3>3, UnbrokenFree
    <3> QED BY <3>2, <3>4
  <2>2. Marks(s, r, p, r + i - 1, a) /\ Stays(s, p, r + i - 1) /\ p < r + i
    BY <1>1, <1>5, <1>6, <1>7, <1>9
  <2>3. ReadTo(s, r + i - 1).at \notin {"body", "closing"}
    BY <1>1, <2>1
  <2>4. Marks(s, r, p, r + i, b)
    BY <1>6, <2>2, <2>3, MarksMore
  <2> QED BY <1>7, <2>4
<1> QED BY <1>6, <1>7, <1>8, <1>9 DEF Held, p, c

(* The steps that end a frame.                                             *)
LEMMA LoopEnds ==
    ASSUME NEW s, Legal(s), NEW r \in Nat, NEW n \in Nat, r + n <= Len(s), NEW i \in 1 .. n,
           NEW chunk, chunk = SubSeq(s, r + 1, r + n), NEW cuts,
           NEW a \in Sniffers(n), NEW t, Looped(s, r, n, i - 1, cuts, a, t),
           NEW b, NEW end \in i .. n, b.skip = end,
           a.skip # i, ReadTo(s, r + (i - 1)).at = "body", a.hook = ReadTo(s, r + (i - 1)).head,
           \/ end = i /\ (ReadTo(s, r + i).at = "closing" => i = n)
           \/ end = i + 1 /\ ReadTo(s, r + i).at = "closing",
           Turn(chunk, t, FoundBy(a, end)) \in Turns
    PROVE  Looped(s, r, n, i, cuts, b, Turn(chunk, t, FoundBy(a, end)))
<1> DEFINE u == Turn(chunk, t, FoundBy(a, end))
<1> HIDE DEF u
<1> SUFFICES ASSUME ~u.panicked
             PROVE  /\ Reached(s, r + u.cursor, cuts, u)
                    /\ u.cursor < n => ReadTo(s, r + u.cursor).at = "free"
                    /\ b.skip = i + 1 => u.cursor = i + 1
                    /\ b.skip # i + 1 => Held(s, r, i, cuts, b, u)
  BY DEF Looped, u, CutKnown
<1>1. u \in Turns /\ u.cursor = end /\ Reached(s, r + end, cuts, u)
  <2>1. ~Turn(chunk, t, FoundBy(a, end)).panicked
    BY DEF u
  <2>2. end = i \/ (end = i + 1 /\ ReadTo(s, r + i).at = "closing")
    OBVIOUS
  <2>3. EndsAt(s, r, n, i, cuts, a, t, end)
    BY <2>2 DEF EndsAt
  <2>4. TurnedAt(s, r + end, end, cuts, Turn(chunk, t, FoundBy(a, end)))
    BY <2>1, <2>3, EndedTurn
  <2> QED BY <2>4 DEF u, TurnedAt
<1>2. r + i \in 1 .. Len(s) /\ r + i \in Nat /\ i + 1 \in Nat /\ (r + i) - 1 = r + (i - 1)
      /\ i <= i /\ i # i + 1 /\ Len(s) \in Nat
  <2>1. Len(s) \in Nat
    BY LenProperties DEF Legal
  <2> QED BY <2>1
<1>3. CASE end = i
  <2>1. Joins(ReadTo(s, (r + i) - 1), s[r + i], ReadTo(s, r + i).at)
    <3> DEFINE j == r + i
    <3>1. j \in 1 .. Len(s)
      BY <1>2
    <3> HIDE DEF j
    <3>2. Joins(ReadTo(s, j - 1), s[j], ReadTo(s, j).at)
      BY <3>1, ReadStep, MovesJoin
    <3> QED BY <3>2 DEF j
  <2>2. ReadTo(s, r + i).at \in {"free", "closing"}
    BY <1>2, <2>1 DEF Joins
  <2>3. Stays(s, r + i, r + i)
    BY <1>2, StaysHere
  <2>4. Marks(s, r, r + i, r + i, b)
    BY <1>2, <2>2, MarksHere
  <2>5. Held(s, r, i, cuts, b, u)
    BY <1>1, <1>2, <1>3, <2>3, <2>4 DEF Held
  <2>6. i < n => ReadTo(s, r + i).at = "free"
    <3>1. ReadTo(s, r + i).at = "closing" => i = n
      BY <1>3
    <3> QED BY <2>2, <3>1
  <2> QED BY <1>1, <1>2, <1>3, <2>5, <2>6
<1>4. CASE end = i + 1
  <2>1. ReadTo(s, r + i).at = "closing" /\ r + (i + 1) \in 1 .. Len(s) /\ (r + (i + 1)) - 1 = r + i
    <3>1. i + 1 <= n
      BY <1>4
    <3>2. r + (i + 1) \in 1 .. Len(s)
      BY <1>2, <3>1
    <3>3. end # i
      BY <1>4
    <3> QED BY <3>2, <3>3
  <2>2. ReadTo(s, r + (i + 1)).at = "free"
    <3> DEFINE j == r + (i + 1)
               g == ReadTo(s, r + i)
    <3>1. j \in 1 .. Len(s) /\ ReadTo(s, j - 1) = g /\ g.at = "closing"
      BY <2>1
    <3> HIDE DEF j, g
    <3>2. Joins(ReadTo(s, j - 1), s[j], ReadTo(s, j).at)
      BY <3>1, ReadStep, MovesJoin
    <3>3. ReadTo(s, j).at = "free"
      BY <3>1, <3>2 DEF Joins
    <3> QED BY <3>3 DEF j
  <2> QED BY <1>1, <1>4, <2>2
<1> QED BY <1>3, <1>4

(* Each step of the sniffer, with the turn for what it finds, keeps the    *)
(* invariant.                                                              *)
LEMMA LoopStep ==
    ASSUME NEW s, Legal(s), NEW r \in Nat, NEW n \in Nat, r + n <= Len(s), NEW i \in 1 .. n,
           NEW chunk, chunk = SubSeq(s, r + 1, r + n), NEW begun \in Turns,
           NEW cuts, CutKnown(s, r, cuts),
           NEW a \in Sniffers(n), Followed(s, r, n, i - 1, a), Waits(s, r, n, i - 1, a),
           Looped(s, r, n, i - 1, cuts, a, TurnsOf(chunk, begun, a.found)),
           NEW b, StepsBy(s, r, n, i, a, b)
    PROVE  Looped(s, r, n, i, cuts, b, TurnsOf(chunk, begun, b.found))
<1> DEFINE j == r + i
           e == s[j]
           g == ReadTo(s, j - 1)
           h == ReadTo(s, j)
           t == TurnsOf(chunk, begun, a.found)
<1>0. Len(s) \in Nat /\ s \in Seq(Tokens)
  BY LenProperties DEF Legal
<1>1. j \in 1 .. Len(s) /\ j - 1 \in 0 .. Len(s) /\ i \in Nat /\ j - 1 = r + (i - 1) /\ j = r + i
  BY <1>0
<1>2. chunk \in Seq(Tokens) /\ Len(chunk) = n
  BY <1>0, ChunkAt
<1>3. a.found \in Seq(Founds(n)) /\ t \in Turns
  <2>1. a.found \in Seq(Founds(n))
    BY SnifferParts
  <2> QED BY <1>2, <2>1, TurnsFold
<1>4. Looped(s, r, n, i - 1, cuts, a, t)
  OBVIOUS
<1>5. \/ Skips(a, b, i, g, h)
      \/ HooksAt(a, b, i, e, g, h)
      \/ UnhooksAhead(a, b, i, n, g, h)
      \/ UnhooksAt(a, b, i, n, g, h)
      \/ MovesOn(a, b, i, e, g, h)
  BY DEF StepsBy
<1>6. g.at = "body" => g.head \in Heads
  <2> DEFINE m == j - 1
  <2>1. m \in 0 .. Len(s)
    BY <1>1
  <2> HIDE DEF m
  <2>2. ReadTo(s, m).at = "body" => ReadTo(s, m).head \in Heads
    BY <2>1, HeadAt
  <2> QED BY <2>2 DEF m
<1>7. /\ ParserAt(h.at) \in Parsers
      /\ h.at # "body" => ParserAt(h.at) # "dcs"
  <2> DEFINE x == h.at
  <2>1. x \in Places /\ x # "bad"
    <3> HIDE DEF j
    <3>1. j \in 0 .. Len(s)
      BY <1>0, <1>1
    <3> QED BY <3>1, HeadAt
  <2> HIDE DEF x
  <2>2. ParserAt(x) \in Parsers /\ (x # "body" => ParserAt(x) # "dcs")
    BY <2>1, ParserAtParser
  <2> QED BY <2>2 DEF x
<1>8. i \in 0 .. n
  OBVIOUS
<1>9. ASSUME NEW end \in i .. n, NEW next \in Parsers, next # "dcs", NEW esc \in Nat,
             b = Unhook(a, next, esc, end), a.skip # i, g.at = "body", a.hook = g.head,
             \/ end = i /\ (h.at = "closing" => i = n)
             \/ end = i + 1 /\ h.at = "closing"
      PROVE  Looped(s, r, n, i, cuts, b, TurnsOf(chunk, begun, b.found))
  <2> DEFINE found == FoundBy(a, end)
             founds == a.found
  <2>1. end \in 0 .. n
    BY <1>9
  <2>2. a.hook \in Heads
    BY <1>6, <1>9
  <2>3. b.skip = end /\ b.found = Append(founds, found) /\ found \in Founds(n)
    <3>1. /\ Unhook(a, next, esc, end).skip = end
          /\ Unhook(a, next, esc, end).found = Append(a.found, FoundBy(a, end))
          /\ FoundBy(a, end) \in Founds(n)
      BY <1>9, <2>1, <2>2, UnhookParts
    <3> QED BY <1>9, <3>1
  <2> HIDE DEF found
  <2>4. TurnsOf(chunk, begun, b.found) = Turn(chunk, t, found)
    <3>1. founds \in Seq(Founds(Len(chunk))) /\ found \in Founds(Len(chunk)) /\ chunk \in Seq(Tokens)
      BY <1>2, <1>3, <2>3
    <3>2. t = TurnsOf(chunk, begun, founds)
      OBVIOUS
    <3> HIDE DEF t, founds, g, h, j, e
    <3>3. TurnsOf(chunk, begun, Append(founds, found)) = Turn(chunk, TurnsOf(chunk, begun, founds), found)
      BY <3>1, TurnsFold
    <3> QED BY <2>3, <3>2, <3>3
  <2>5. Turn(chunk, t, found) \in Turns
    BY <1>2, <1>3, <2>3, TurnType
  <2>6. g = ReadTo(s, r + (i - 1)) /\ h = ReadTo(s, r + i)
    BY <1>1
  <2> HIDE DEF t
  <2>7. Looped(s, r, n, i, cuts, b, Turn(chunk, t, found))
    <3> HIDE DEF g, h, founds, j, e
    <3>1. /\ ReadTo(s, r + (i - 1)).at = "body" /\ a.hook = ReadTo(s, r + (i - 1)).head
          /\ \/ end = i /\ (ReadTo(s, r + i).at = "closing" => i = n)
             \/ end = i + 1 /\ ReadTo(s, r + i).at = "closing"
      BY <1>9, <2>6
    <3>2. Turn(chunk, t, FoundBy(a, end)) \in Turns
      BY <2>5 DEF found
    <3>3. Looped(s, r, n, i, cuts, b, Turn(chunk, t, FoundBy(a, end)))
      BY <1>4, <1>9, <2>3, <3>1, <3>2, LoopEnds
    <3> QED BY <3>3 DEF found
  <2> QED BY <2>4, <2>7
<1>10. ASSUME b.skip = a.skip, a.skip # i, b.found = a.found, g.at # "body",
              HooksAt(a, b, i, e, g, h) \/ MovesOn(a, b, i, e, g, h)
       PROVE  Looped(s, r, n, i, cuts, b, TurnsOf(chunk, begun, b.found))
  <2>1. TurnsOf(chunk, begun, b.found) = t
    BY <1>10
  <2> HIDE DEF t
  <2>2. ReadTo(s, r + i - 1).at # "body"
        /\ \/ HooksAt(a, b, i, s[r + i], ReadTo(s, r + i - 1), ReadTo(s, r + i))
           \/ MovesOn(a, b, i, s[r + i], ReadTo(s, r + i - 1), ReadTo(s, r + i))
    BY <1>10
  <2>3. Looped(s, r, n, i, cuts, b, t)
    BY <1>4, <1>10, <2>2, LoopStays
  <2> QED BY <2>1, <2>3
<1> HIDE DEF j, g, h, e
<1>11. CASE Skips(a, b, i, g, h)
  <2>1. b = a /\ a.skip = i /\ ReadTo(s, r + i).at = "free"
    BY <1>1, <1>11 DEF Skips, h, j
  <2> HIDE DEF t
  <2>2. Looped(s, r, n, i, cuts, a, t)
    BY <1>4, <2>1, LoopSkips
  <2> QED BY <2>1, <2>2 DEF t
<1>12. CASE HooksAt(a, b, i, e, g, h)
  <2>1. b = Hook(a, e) /\ e \in Heads /\ a.skip # i /\ g.at # "body"
    BY <1>12 DEF HooksAt
  <2>2. b.skip = a.skip /\ b.found = a.found
    BY <2>1, HookParts
  <2> QED BY <1>10, <1>12, <2>1, <2>2
<1>13. CASE MovesOn(a, b, i, e, g, h)
  <2> DEFINE next == ParserAt(h.at)
             esc == EscAt(a, e, i)
  <2>1. b = Moved(a, next, esc) /\ a.skip # i /\ g.at # "body" /\ h.at # "body"
    BY <1>13 DEF MovesOn
  <2> HIDE DEF next, esc
  <2>2. Moved(a, next, esc).skip = a.skip /\ Moved(a, next, esc).found = a.found
    BY SnifferParts DEF Moved
  <2>3. b.skip = a.skip /\ b.found = a.found
    BY <2>1, <2>2
  <2> QED BY <1>10, <1>13, <2>1, <2>3
<1>14. CASE UnhooksAhead(a, b, i, n, g, h)
  <2> DEFINE end == i + 1
             ground == "ground"
  <2>1. /\ b = Unhook(a, ground, i, end) /\ a.skip # i /\ end \in i .. n /\ g.at = "body"
        /\ a.hook = g.head /\ h.at = "closing"
    BY <1>14 DEF UnhooksAhead
  <2>2. ground \in Parsers /\ ground # "dcs" /\ end = i + 1
    BY DEF Parsers
  <2> HIDE DEF end, ground
  <2> QED BY <1>1, <1>9, <2>1, <2>2
<1>15. CASE UnhooksAt(a, b, i, n, g, h)
  <2> DEFINE end == i
             next == ParserAt(h.at)
  <2>1. PICK esc \in Nat : b = Unhook(a, next, esc, end)
    BY <1>15 DEF UnhooksAt
  <2>2. /\ a.skip # i /\ end \in i .. n /\ g.at = "body" /\ end = i
        /\ a.hook = g.head /\ h.at \in {"closing", "free"} /\ (h.at = "closing" => i = n)
    BY <1>15 DEF UnhooksAt
  <2>3. next \in Parsers /\ next # "dcs"
    BY <1>7, <2>2
  <2> HIDE DEF end, next
  <2> QED BY <1>9, <2>1, <2>2, <2>3
<1> QED BY <1>5, <1>11, <1>12, <1>13, <1>14, <1>15

(* The whole loop.                                                         *)
Entered(s, r, n, cuts, from, begun) ==
    /\ from \in Sniffers(n) /\ from.skip = 0 /\ from.found = << >>
    /\ from.parser = ParserAt(ReadTo(s, r).at) /\ from.hook = ReadTo(s, r).head
    /\ begun \in Turns /\ begun.cursor = 0
    /\ Reached(s, r, cuts, begun)
    /\ CutKnown(s, r, cuts)

(* The sniffer in step at the chunk's start is in step at its end, and the *)
(* invariant holds there.                                                  *)
LEMMA LoopRun ==
    ASSUME NEW s, Legal(s), NEW r \in Nat, NEW n \in Nat, r + n <= Len(s),
           NEW chunk, chunk = SubSeq(s, r + 1, r + n),
           NEW cuts, NEW from, NEW begun, Entered(s, r, n, cuts, from, begun)
    PROVE  /\ SniffOver(chunk, from) \in Sniffers(n)
           /\ Followed(s, r, n, n, SniffOver(chunk, from))
           /\ Looped(s, r, n, n, cuts, SniffOver(chunk, from),
                     TurnsOf(chunk, begun, SniffOver(chunk, from).found))
<1>0. s \in Seq(Tokens) /\ Len(s) \in Nat
  BY LenProperties DEF Legal
<1>1. chunk \in Seq(Tokens) /\ Len(chunk) = n
  BY <1>0, ChunkAt
<1>2. /\ from \in Sniffers(n) /\ from.skip = 0 /\ from.found = << >>
      /\ from.parser = ParserAt(ReadTo(s, r).at) /\ from.hook = ReadTo(s, r).head
      /\ begun \in Turns /\ begun.cursor = 0
      /\ Reached(s, r, cuts, begun)
      /\ CutKnown(s, r, cuts)
  BY DEF Entered
<1>3. PICK v : SniffRun(chunk, from, v)
  BY <1>1, <1>2, SniffRuns
<1>4. /\ v[0] = from /\ SniffOver(chunk, from) = v[n]
      /\ \A i \in 1 .. n : v[i] = SniffStep(chunk, v[i - 1], i)
      /\ \A i \in 0 .. n : v[i] \in Sniffers(n)
  BY <1>1, <1>3 DEF SniffRun
<1> DEFINE In(i) == /\ Followed(s, r, n, i, v[i]) /\ Waits(s, r, n, i, v[i])
                    /\ Looped(s, r, n, i, cuts, v[i], TurnsOf(chunk, begun, v[i].found))
           T == {i \in Nat : i <= n => In(i)}
<1>5. 0 \in T
  <2> DEFINE z == 0
  <2>1. r + z = r /\ z # z + 1 /\ z <= z + 1 /\ z <= z /\ z \in Nat
    OBVIOUS
  <2>2. v[z] = from /\ TurnsOf(chunk, begun, v[z].found) = begun
    BY <1>1, <1>2, <1>4, TurnsFold
  <2>3. from.skip = z /\ begun.cursor = z
    BY <1>2
  <2>4. Followed(s, r, n, z, from)
    BY <1>2, <2>1, <2>3 DEF Followed
  <2>5. Waits(s, r, n, z, from)
    BY <2>1, <2>3 DEF Waits
  <2>6. Looped(s, r, n, z, cuts, from, begun)
    <3>1. Stays(s, r, r)
      BY StaysHere
    <3>2. Unbroken(s, r, cuts) => Marks(s, r, r, r, from)
      BY <1>2, UnbrokenFree, MarksHere
    <3>3. Held(s, r, z, cuts, from, begun)
      <4> HIDE DEF z
      <4> QED BY <2>1, <2>3, <3>1, <3>2 DEF Held
    <3> HIDE DEF z
    <3> QED BY <1>2, <2>1, <2>3, <3>3 DEF Looped
  <2>7. In(z)
    BY <2>2, <2>4, <2>5, <2>6
  <2> QED BY <2>7
<1>6. ASSUME NEW i \in 0 .. n - 1, i \in T PROVE i + 1 \in T
  <2> DEFINE j == i + 1
             a == v[i]
             b == v[j]
  <2>1. j \in 1 .. n /\ j - 1 = i /\ i \in 0 .. n /\ j \in Nat
    OBVIOUS
  <2>2. In(i)
    BY <1>6, <2>1
  <2>3. a \in Sniffers(n) /\ b = SniffStep(chunk, a, j)
    <3> HIDE DEF j
    <3> QED BY <1>4, <2>1
  <2>4. /\ Followed(s, r, n, j - 1, a) /\ Waits(s, r, n, j - 1, a)
        /\ Looped(s, r, n, j - 1, cuts, a, TurnsOf(chunk, begun, a.found))
    BY <2>1, <2>2
  <2> HIDE DEF In, j, a, b
  <2>5. StepsBy(s, r, n, j, a, SniffStep(chunk, a, j))
    BY <2>1, <2>3, <2>4, SniffSteps
  <2>6. StepsBy(s, r, n, j, a, b)
    BY <2>3, <2>5
  <2>7. Followed(s, r, n, j, b) /\ Waits(s, r, n, j, b)
    BY <2>1, <2>3, <2>4, <2>6, FollowedMore
  <2>8. Looped(s, r, n, j, cuts, b, TurnsOf(chunk, begun, b.found))
    BY <1>2, <2>1, <2>3, <2>4, <2>6, LoopStep
  <2>9. In(j)
    BY <2>7, <2>8 DEF In, b
  <2> QED BY <2>1, <2>9 DEF j
<1>7. n \in T
  <2> DEFINE z == 0
  <2>1. z \in Nat /\ z <= n /\ z \in T
    BY <1>5
  <2>2. \A i \in z .. n - 1 : i \in T => i + 1 \in T
    BY <1>6
  <2> HIDE DEF T, z
  <2> QED BY <2>1, <2>2, PieceInduction
<1>8. In(n) /\ v[n] \in Sniffers(n)
  BY <1>4, <1>7
<1> QED BY <1>4, <1>8

-----------------------------------------------------------------------------
(* What follows the last event.  More cuts leave what was shown as it is,  *)
LEMMA FaithfulLess ==
    ASSUME NEW s, NEW p, NEW cuts, NEW st, NEW gl, Faithful(s, p, cuts, st, gl),
           NEW more, cuts \subseteq more
    PROVE  Faithful(s, p, more, st, gl)
<1>1. /\ GridInStep(s, p, st) /\ Routed(s, p, cuts, st)
      /\ Prompts(s, p, cuts, st, gl) /\ AltKnown(s, p, st, gl)
  BY DEF Faithful
<1>2. \A c : WholeIn(more, c) => WholeIn(cuts, c)
  BY DEF WholeIn
<1>3. \A c : LeaksIn(cuts, c) \subseteq LeaksIn(more, c)
  BY DEF LeaksIn
<1>4. Routed(s, p, more, st)
  BY <1>1, <1>3 DEF Routed, ShowsOwn
<1>5. Unhurt(st, more) => Unhurt(st, cuts)
  BY <1>2 DEF Unhurt
<1>6. Prompts(s, p, more, st, gl)
  BY <1>1, <1>2, <1>5 DEF Prompts
<1> QED BY <1>1, <1>4, <1>6 DEF Faithful

(* and what was captured.                                                  *)
LEMMA CapturedLess ==
    ASSUME NEW s, NEW p, NEW cuts, NEW st, CapturedTo(s, p, cuts, st),
           NEW more, cuts \subseteq more
    PROVE  CapturedTo(s, p, more, st)
BY DEF CapturedTo, WholeIn

(* The terminal at token k, where the next call finds it.                  *)
ArrivedAt(s, k, cuts, u) == u \in Turns /\ Reached(s, k, cuts, u)

(* The rest of the chunk dispatched and captured, the terminal is there.   *)
LEMMA RestTurn ==
    ASSUME NEW s, Legal(s), NEW r \in Nat, NEW n \in Nat, r + n <= Len(s),
           NEW chunk, chunk = SubSeq(s, r + 1, r + n),
           NEW cuts, NEW a, Followed(s, r, n, n, a), NEW t,
           Looped(s, r, n, n, cuts, a, t), ~t.panicked,
           NEW more, cuts \subseteq more, CutKnown(s, r + n, more)
    PROVE  LET rest == SubSeq(chunk, t.cursor + 1, n)
           IN  ArrivedAt(s, r + n, more, Capture(Dispatch(t, rest), rest))
<1> DEFINE c == t.cursor
           p == r + c
           k == r + n
           g == ReadTo(s, p)
           run == g.run
           top == g.top
           rest == SubSeq(chunk, c + 1, n)
           fed == Dispatch(t, rest)
           u == Capture(fed, rest)
<1>0. s \in Seq(Tokens) /\ Len(s) \in Nat
  BY LenProperties DEF Legal
<1>1. /\ t \in Turns /\ Reached(s, p, cuts, t)
      /\ c < n => CutKnown(s, p, cuts)
      /\ Held(s, r, n, cuts, a, t)
  <2>1. a.skip # n + 1
    BY DEF Followed
  <2> QED BY <2>1 DEF Looped
<1>2. c \in Nat
  BY <1>1 DEF Turns
<1>3. c <= n /\ Stays(s, p, k) /\ (Unbroken(s, p, cuts) => Marks(s, r, p, k, a))
  BY <1>1 DEF Held
<1>4. p \in Nat /\ k \in Nat /\ p <= k /\ k <= Len(s) /\ p \in 0 .. Len(s) /\ (c < n <=> p < k)
  BY <1>0, <1>2, <1>3
<1>5. rest = SubSeq(s, p + 1, k)
  <2>1. SubSeq(SubSeq(s, r + 1, r + n), c + 1, n) = SubSeq(s, (r + c) + 1, r + n)
    <3> HIDE DEF c
    <3>1. n <= n
      OBVIOUS
    <3> QED BY <1>0, <1>2, <3>1, ChunkPiece
  <2> QED BY <2>1
<1>6. /\ Same(t.store, g.store) /\ Faithful(s, p, cuts, t.store, t.global)
      /\ CapturedTo(s, p, cuts, t.store) /\ CutKnown(s, k, more)
  BY <1>1 DEF Reached
<1> HIDE DEF c, p, k, rest, fed, u
<1>7. g \in Readings /\ Shape(g.store, run, top) /\ run \in Nat /\ top \in Nat /\ g.store \in Stores
  <2>1. Legal(SubSeq(s, 1, p))
    BY <1>4, PrefixLegal
  <2>2. Sound(SubSeq(s, 1, p), g) /\ g \in Readings
    BY <2>1, LegalSound DEF ReadTo
  <2> QED BY <2>2 DEF Sound, Readings
<1>8. /\ ReadTo(s, k).run = run /\ ReadTo(s, k).store = g.store /\ Own(s, p, k, run)
  BY <1>3 DEF Stays
<1> HIDE DEF g, run, top
<1>9. t.store \in Stores /\ Shape(t.store, run, top)
  BY <1>1, <1>6, <1>7, SameShape DEF Turns
<1>10. rest \in Seq(Tokens)
  BY <1>0, <1>4, <1>5, PieceType
<1>11. Dispatched(t, fed) /\ Faithful(s, k, cuts, fed.store, fed.global)
  <2>1. CASE p < k
    <3>1. CutKnown(s, p, cuts) /\ (run # 0 => ReadTo(s, p).run = run)
      BY <1>1, <1>4, <2>1 DEF g, run
    <3>2. fed = Dispatch(t, SubSeq(s, p + 1, k))
      BY <1>5 DEF fed
    <3> QED BY <1>1, <1>4, <1>6, <1>7, <1>8, <1>9, <3>1, <3>2, DispatchShows
  <2>2. CASE ~(p < k)
    <3>1. p = k
      BY <1>4, <2>2
    <3>2. rest = << >>
      BY <1>4, <1>5, <3>1, PieceEmpty
    <3>3. fed = t
      BY <3>2 DEF fed, Dispatch
    <3>4. Dispatched(t, t)
      BY <1>1, SameRefl DEF Dispatched
    <3> QED BY <1>6, <3>1, <3>3, <3>4
  <2> QED BY <2>1, <2>2
<1>12. /\ fed \in Turns /\ Same(fed.store, t.store) /\ Outputs(t.store, fed.store)
       /\ fed.store \in Stores
  BY <1>11 DEF Dispatched, Turns
<1>13. Shape(fed.store, run, top)
  BY <1>7, <1>9, <1>12, SameShape
<1>14. /\ SameBut(fed, u) /\ Faithful(s, k, cuts, u.store, u.global)
       /\ Captures(fed.store, u.store, run, rest)
  BY <1>7, <1>10, <1>11, <1>12, <1>13, CaptureShows DEF u
<1>15. u \in Turns /\ Same(u.store, fed.store) /\ u.store \in Stores
  BY <1>14 DEF SameBut, Turns
<1>16. Same(u.store, ReadTo(s, k).store)
  BY <1>6, <1>8, <1>12, <1>15, SameTrans
<1>17. CapturedTo(s, k, more, u.store)
  <2> DEFINE st == fed.store
             w == u.store
  <2>1. CapturedTo(s, p, more, t.store)
    BY <1>6, CapturedLess
  <2>2. CapturedTo(s, p, more, st)
    BY <1>12, <2>1, OutputsKept
  <2>3. run # 0 /\ WholeIn(more, run) => Keep(SubSeq(s, p + 1, k), Output({run})) = rest
    <3> SUFFICES ASSUME run # 0, WholeIn(more, run)
                 PROVE  Keep(SubSeq(s, p + 1, k), Output({run})) = rest
      OBVIOUS
    <3>1. Unbroken(s, p, cuts) /\ Unbroken(s, k, more)
      BY <1>8 DEF Unbroken, WholeIn, g, run
    <3>2. ReadTo(s, k).at = "free"
      BY <1>6, <3>1, UnbrokenFree
    <3>3. Marks(s, r, p, k, a)
      BY <1>3, <3>1
    <3> QED BY <1>5, <1>8, <3>2, <3>3 DEF Marks
  <2>4. /\ st \in Stores /\ w \in Stores /\ Same(w, st) /\ Captures(st, w, run, rest) /\ Shape(st, run, top)
    BY <1>12, <1>13, <1>14, <1>15
  <2> HIDE DEF st, w
  <2>5. CapturedTo(s, k, more, w)
    BY <1>0, <1>4, <1>7, <1>8, <2>2, <2>3, <2>4, CaptureExactly
  <2> QED BY <2>5 DEF w
<1>18. ArrivedAt(s, k, more, u)
  <2> DEFINE st == u.store
             gl == u.global
  <2>1. Faithful(s, k, cuts, st, gl)
    BY <1>14
  <2> HIDE DEF st, gl
  <2>2. Faithful(s, k, more, st, gl)
    BY <2>1, FaithfulLess
  <2> QED BY <1>15, <1>16, <1>17, <2>2 DEF ArrivedAt, Reached, st, gl
<1> QED BY <1>18 DEF k, u, fed, rest, c

-----------------------------------------------------------------------------
(* What the shell writes is a stream it may write.  Writing one token is   *)
(* appending it.                                                           *)
LEMMA ConcatOne ==
    ASSUME NEW s \in Seq(Tokens), NEW a \in Tokens
    PROVE  s \o <<a>> = Append(s, a) /\ <<a>> \in Seq(Tokens) /\ Append(s, a) \in Seq(Tokens)
BY AppendIsConcat, AppendProperties

(* Writing two is appending both.                                          *)
LEMMA ConcatTwo ==
    ASSUME NEW s \in Seq(Tokens), NEW a \in Tokens, NEW b \in Tokens
    PROVE  s \o <<a, b>> = Append(Append(s, a), b) /\ <<a, b>> \in Seq(Tokens)
<1> DEFINE one == <<a>>
           u == Append(one, b)
<1>1. one \in Seq(Tokens) /\ s \o one = Append(s, a)
  BY ConcatOne
<1>2. <<a, b>> = u
  OBVIOUS
<1> HIDE DEF one
<1>3. u \in Seq(Tokens)
  BY <1>1, AppendProperties
<1>4. s \o Append(one, b) = Append(s \o one, b)
  BY <1>1, ConcatAppend
<1> QED BY <1>1, <1>2, <1>3, <1>4

(* A stream at rest: outside of any frame or escape sequence.              *)
Rests(s, run, top) ==
    Legal(s) /\ Says[s].at = "free" /\ Says[s].run = run /\ Says[s].top = top

(* What it is to be at rest.                                               *)
LEMMA RestsParts ==
    ASSUME NEW s, NEW run, NEW top, Rests(s, run, top)
    PROVE  /\ s \in Seq(Tokens) /\ Says[s] \in Readings
           /\ Says[s].at = "free" /\ Says[s].run = run /\ Says[s].top = top
           /\ run \in Nat /\ top \in Nat
<1>1. s \in Seq(Tokens) /\ Says[s] \in Readings
  BY SaysType DEF Rests, Legal
<1>2. Says[s].at = "free" /\ Says[s].run = run /\ Says[s].top = top
  BY DEF Rests
<1> DEFINE g == Says[s]
<1>3. g \in Readings
  BY <1>1
<1> HIDE DEF g
<1>4. g.run \in Nat /\ g.top \in Nat
  BY <1>3 DEF Readings
<1> QED BY <1>1, <1>2, <1>4 DEF g

(* A prompt leaves a block open.                                           *)
LEMMA PrecmdOpens ==
    ASSUME NEW s \in Stores, NEW event \in Heads, event.kind = "precmd"
    PROVE  Apply(s, event).open # 0
<1> DEFINE u == SealWith(s, None, None)
           line == SampledLine(s)
           none == None
<1>1. u \in Stores
  <2>1. none \in Nat \cup {None}
    OBVIOUS
  <2> HIDE DEF none
  <2>2. SealWith(s, none, none) \in Stores
    BY <2>1, SealType
  <2> QED BY <2>2 DEF none
<1>2. line \in {"block", "global"}
  BY DEF SampledLine
<1>3. Apply(s, event) = OpenNew(u, line)
  BY DEF Apply, Precmd
<1> HIDE DEF u, line
<1>4. OpenNew(u, line).open # 0
  BY <1>1, <1>2, OpenSpares
<1> QED BY <1>3, <1>4

(* After a character of the command running it is at rest again,           *)
LEMMA SaysShown ==
    ASSUME NEW s, NEW run, NEW top, Rests(s, run, top),
           NEW e \in Tokens, e.kind \in Visible, e.of = run,
           run = 0 => Says[s].store.open # 0
    PROVE  Rests(Append(s, e), run, top)
<1> DEFINE g == Says[s]
           z == Append(s, e)
<1>1. s \in Seq(Tokens) /\ g \in Readings /\ g.at = "free" /\ g.run = run /\ g.top = top
      /\ (g.run = 0 => g.store.open # 0)
  BY RestsParts
<1>2. z \in Seq(Tokens) /\ Says[z] = Move(g, e)
  BY <1>1, AppendProperties, SaysAppend
<1> HIDE DEF g, z
<1>3. Shows(g, e) /\ ~Opens(g, e) /\ ~Escapes(g, e)
  BY <1>1 DEF Shows, Opens, Escapes, Visible
<1>4. Move(g, e) = g
  BY <1>3 DEF Move
<1> QED BY <1>1, <1>2, <1>4 DEF Rests, Legal, z

(* and after the escape sequence of a switch.                              *)
LEMMA SaysSwitched ==
    ASSUME NEW s, NEW run, NEW top, Rests(s, run, top), run # 0,
           NEW a \in Tokens, a.kind = "esc", a.of = run,
           NEW e \in Tokens, e.kind \in {"on", "off"}, e.of = run
    PROVE  Rests(Append(Append(s, a), e), run, top)
<1> DEFINE g == Says[s]
           y == Append(s, a)
           z == Append(y, e)
           f == Says[y]
           h == Says[z]
<1>1. s \in Seq(Tokens) /\ g \in Readings /\ g.at = "free" /\ g.run = run /\ g.top = top
  BY RestsParts
<1>2. y \in Seq(Tokens) /\ f = Move(g, a)
  BY <1>1, AppendProperties, SaysAppend
<1> HIDE DEF y
<1>3. z \in Seq(Tokens) /\ h = Move(f, e)
  BY <1>2, AppendProperties, SaysAppend
<1> HIDE DEF g, z, f, h
<1>4. f = [g EXCEPT !.at = "escape"]
  <2>1. ~Opens(g, a) /\ Escapes(g, a)
    BY <1>1 DEF Opens, Escapes
  <2> QED BY <1>2, <2>1 DEF Move
<1>5. f.at = "escape" /\ f.run = run /\ f.top = top /\ f \in Readings
  BY <1>1, <1>4 DEF Readings, Places
<1>6. h = [f EXCEPT !.at = "free"]
  <2>1. /\ ~Opens(f, e) /\ ~Escapes(f, e) /\ ~Shows(f, e) /\ ~Begins(f, e) /\ ~Takes(f, e)
        /\ ~Closes(f, e) /\ Switches(f, e)
    BY <1>5 DEF Opens, Escapes, Shows, Begins, Takes, Closes, Switches
  <2> QED BY <1>3, <2>1 DEF Move
<1>7. h.at = "free" /\ h.run = run /\ h.top = top
  BY <1>5, <1>6 DEF Readings
<1> QED BY <1>3, <1>7 DEF Rests, Legal, z, y, h

(* A frame, its head read: in its body.                                    *)
LEMMA SaysBegun ==
    ASSUME NEW s, NEW run, NEW top, Rests(s, run, top),
           NEW a \in Tokens, a.kind = "esc", a.of = 0,
           NEW e \in Tokens, e.kind \in Hooks, Fits(e, run, top)
    PROVE  /\ Append(Append(s, a), e) \in Seq(Tokens)
           /\ Says[Append(Append(s, a), e)] \in Readings
           /\ Says[Append(Append(s, a), e)].at = "body" /\ Says[Append(Append(s, a), e)].head = e
           /\ Says[Append(Append(s, a), e)].run = run /\ Says[Append(Append(s, a), e)].top = top
<1> DEFINE g == Says[s]
           y == Append(s, a)
           z == Append(y, e)
           f == Says[y]
           h == Says[z]
<1>0. e \in Heads
  BY HooksAreHeads
<1>1. s \in Seq(Tokens) /\ g \in Readings /\ g.at = "free" /\ g.run = run /\ g.top = top
  BY RestsParts
<1>2. y \in Seq(Tokens) /\ f = Move(g, a)
  BY <1>1, AppendProperties, SaysAppend
<1> HIDE DEF y
<1>3. z \in Seq(Tokens) /\ h = Move(f, e) /\ h \in Readings
  BY <1>2, AppendProperties, SaysAppend, SaysType
<1> HIDE DEF g, z, f, h
<1>4. f = [g EXCEPT !.at = "opening"]
  <2>1. Opens(g, a)
    BY <1>1 DEF Opens
  <2> QED BY <1>2, <2>1 DEF Move
<1>5. f.at = "opening" /\ f.run = run /\ f.top = top /\ f \in Readings
  BY <1>1, <1>4 DEF Readings, Places
<1>6. h = [f EXCEPT !.at = "body", !.head = e]
  <2>1. ~Opens(f, e) /\ ~Escapes(f, e) /\ ~Shows(f, e) /\ Begins(f, e)
    BY <1>0, <1>5 DEF Opens, Escapes, Shows, Begins
  <2> QED BY <1>3, <2>1 DEF Move
<1>7. h.at = "body" /\ h.head = e /\ h.run = run /\ h.top = top
  BY <1>5, <1>6 DEF Readings
<1> QED BY <1>3, <1>7 DEF z, y, h

(* The terminator, of one byte or of two.                                  *)
LEMMA SaysTaken ==
    ASSUME NEW z \in Seq(Tokens), NEW head \in Heads, NEW run, NEW top,
           Says[z].at = "body", Says[z].head = head, Says[z].run = run, Says[z].top = top,
           NEW e \in Tokens, e.of = 0, e.kind \in {"esc", "st"}
    PROVE  /\ Append(z, e) \in Seq(Tokens) /\ Says[Append(z, e)] \in Readings
           /\ Says[Append(z, e)].at = IF e.kind = "esc" THEN "closing" ELSE "free"
           /\ Says[Append(z, e)].run = RunAfter(head)
           /\ Says[Append(z, e)].top = TopAfter(head, top)
           /\ Says[Append(z, e)].store = Apply(Says[z].store, head)
<1> DEFINE f == Says[z]
           y == Append(z, e)
           h == Says[y]
<1>1. f.at = "body" /\ f.head = head /\ f.run = run /\ f.top = top
  OBVIOUS
<1>2. y \in Seq(Tokens) /\ h = Move(f, e) /\ h \in Readings
  BY AppendProperties, SaysAppend, SaysType
<1> HIDE DEF f, y, h
<1>3. /\ ~Opens(f, e) /\ ~Escapes(f, e) /\ ~Shows(f, e) /\ ~Begins(f, e) /\ Takes(f, e)
  BY <1>1 DEF Opens, Escapes, Shows, Begins, Takes
<1>4. h = Taken(f, e)
  BY <1>2, <1>3 DEF Move
<1>5. h.store = Apply(f.store, head)
  BY <1>1, <1>4 DEF Taken
<1>6. h.at = (IF e.kind = "esc" THEN "closing" ELSE "free") /\ h.run = RunAfter(head)
      /\ h.top = TopAfter(head, top)
  BY <1>1, <1>4 DEF Taken
<1> QED BY <1>2, <1>5, <1>6 DEF y, h, f

(* The backslash ends the frame.                                           *)
LEMMA SaysClosed ==
    ASSUME NEW z \in Seq(Tokens), NEW run, NEW top,
           Says[z].at = "closing", Says[z].run = run, Says[z].top = top,
           NEW e \in Tokens, e.of = 0, e.kind = "backslash"
    PROVE  Rests(Append(z, e), run, top) /\ Says[Append(z, e)].store = Says[z].store
<1> DEFINE f == Says[z]
           y == Append(z, e)
           h == Says[y]
<1>1. f.at = "closing" /\ f.run = run /\ f.top = top
  OBVIOUS
<1>2. y \in Seq(Tokens) /\ h = Move(f, e) /\ f \in Readings
  BY AppendProperties, SaysAppend, SaysType
<1> HIDE DEF f, y, h
<1>3. /\ ~Opens(f, e) /\ ~Escapes(f, e) /\ ~Shows(f, e) /\ ~Begins(f, e) /\ ~Takes(f, e)
      /\ Closes(f, e)
  BY <1>1 DEF Opens, Escapes, Shows, Begins, Takes, Closes, Visible
<1>4. h = [f EXCEPT !.at = "free"]
  BY <1>2, <1>3 DEF Move
<1>5. h.at = "free" /\ h.run = run /\ h.top = top /\ h.store = f.store
  BY <1>1, <1>2, <1>4 DEF Readings
<1> QED BY <1>2, <1>5 DEF Rests, Legal, y, h, f

(* The tokens the shell writes are tokens.                                 *)
LEMMA TokenType ==
    ASSUME NEW kind \in Hooks \cup Visible \cup {"esc", "backslash", "st", "on", "off"}, NEW c \in Nat
    PROVE  Token(kind, c) \in Tokens /\ Token(kind, c).kind = kind /\ Token(kind, c).of = c
BY DEF Token, Tokens

(* A frame of the script.                                                  *)
LEMMA SaysFrame ==
    ASSUME NEW s, NEW run, NEW top, Rests(s, run, top),
           NEW hook \in Hooks, NEW c \in Nat, Fits(Token(hook, c), run, top)
    PROVE  /\ Rests(s \o Frame(hook, c), RunAfter(Token(hook, c)), TopAfter(Token(hook, c), top))
           /\ Frame(hook, c) \in Seq(Tokens)
           /\ hook = "precmd" => Says[s \o Frame(hook, c)].store.open # 0
<1> DEFINE esc == Token("esc", 0)
           head == Token(hook, c)
           slash == Token("backslash", 0)
           st == Token("st", 0)
           begin == <<esc, head>>
           y == Append(Append(s, esc), head)
<1>1. /\ esc \in Tokens /\ esc.kind = "esc" /\ esc.of = 0
      /\ slash \in Tokens /\ slash.kind = "backslash" /\ slash.of = 0
      /\ st \in Tokens /\ st.kind = "st" /\ st.of = 0
      /\ head \in Tokens /\ head.kind = hook
  BY TokenType
<1>2. head \in Heads
  BY <1>1, HooksAreHeads
<1>3. Frame(hook, c) = begin \o (IF ends = "seven" THEN <<esc, slash>> ELSE <<st>>)
  BY DEF Frame
<1>4. s \in Seq(Tokens)
  BY RestsParts
<1> HIDE DEF esc, head, slash, st
<1>5. begin \in Seq(Tokens) /\ s \o begin = y
  BY <1>1, <1>4, ConcatTwo
<1>6. Fits(head, run, top)
  BY DEF head
<1>7. y \in Seq(Tokens) /\ Says[y].at = "body" /\ Says[y].head = head /\ Says[y].run = run /\ Says[y].top = top
      /\ Says[y] \in Readings
  BY <1>1, <1>6, SaysBegun
<1>10. hook = "precmd" => Apply(Says[y].store, head).open # 0
  <2> DEFINE g == Says[y]
  <2>1. g \in Readings
    BY <1>7
  <2> HIDE DEF g
  <2>2. g.store \in Stores
    BY <2>1 DEF Readings
  <2>3. hook = "precmd" => Apply(g.store, head).open # 0
    BY <1>1, <1>2, <2>2, PrecmdOpens
  <2> QED BY <2>3 DEF g
<1> HIDE DEF y, begin
<1>8. CASE ends = "seven"
  <2> DEFINE end == <<esc, slash>>
             v == Append(y, esc)
  <2>1. end \in Seq(Tokens) /\ y \o end = Append(v, slash)
    BY <1>1, <1>7, ConcatTwo
  <2>2. /\ v \in Seq(Tokens) /\ Says[v].at = "closing"
        /\ Says[v].run = RunAfter(head) /\ Says[v].top = TopAfter(head, top)
        /\ Says[v].store = Apply(Says[y].store, head)
    BY <1>1, <1>2, <1>7, SaysTaken
  <2> HIDE DEF v
  <2>3. /\ Rests(Append(v, slash), RunAfter(head), TopAfter(head, top))
        /\ Says[Append(v, slash)].store = Says[v].store
    BY <1>1, <2>2, SaysClosed
  <2>4. Frame(hook, c) = begin \o end
    BY <1>3, <1>8
  <2> HIDE DEF end
  <2>5. s \o (begin \o end) = y \o end /\ begin \o end \in Seq(Tokens)
    BY <1>4, <1>5, <2>1, ConcatAssoc, ConcatProperties
  <2> QED BY <1>10, <2>1, <2>2, <2>3, <2>4, <2>5 DEF head
<1>9. CASE ends # "seven"
  <2> DEFINE end == <<st>>
             v == Append(y, st)
  <2>1. end \in Seq(Tokens) /\ y \o end = v
    BY <1>1, <1>7, ConcatOne
  <2>2. /\ v \in Seq(Tokens) /\ Says[v].at = "free"
        /\ Says[v].run = RunAfter(head) /\ Says[v].top = TopAfter(head, top)
        /\ Says[v].store = Apply(Says[y].store, head)
    BY <1>1, <1>2, <1>7, SaysTaken
  <2>3. Rests(v, RunAfter(head), TopAfter(head, top))
    BY <2>2 DEF Rests, Legal
  <2>4. Frame(hook, c) = begin \o end
    BY <1>3, <1>9
  <2> HIDE DEF end
  <2>5. s \o (begin \o end) = y \o end /\ begin \o end \in Seq(Tokens)
    BY <1>4, <1>5, <2>1, ConcatAssoc, ConcatProperties
  <2> QED BY <1>10, <2>1, <2>2, <2>3, <2>4, <2>5 DEF head
<1> QED BY <1>8, <1>9

(* What each frame of the script does to the command running.              *)
LEMMA FrameEffects ==
    ASSUME NEW c, NEW run, NEW top
    PROVE  /\ Fits(Token("precmd", c), run, top)
           /\ RunAfter(Token("precmd", c)) = 0 /\ TopAfter(Token("precmd", c), top) = top
           /\ Fits(Token("finished", c), run, top)
           /\ RunAfter(Token("finished", c)) = 0 /\ TopAfter(Token("finished", c), top) = top
           /\ Fits(Token("preexec", c), run, top) <=> run = 0 /\ c = top + 1
           /\ RunAfter(Token("preexec", c)) = c /\ TopAfter(Token("preexec", c), top) = c
BY DEF Token, Fits, RunAfter, TopAfter

(* A prompt.                                                               *)
LEMMA SaysPrompt ==
    ASSUME NEW s, NEW run, NEW top, Rests(s, run, top)
    PROVE  /\ Rests((s \o Frame("precmd", 0)) \o <<Token("text", 0)>>, 0, top)
           /\ Frame("precmd", 0) \in Seq(Tokens) /\ <<Token("text", 0)>> \in Seq(Tokens)
           /\ s \o Frame("precmd", 0) \in Seq(Tokens)
<1> DEFINE hook == "precmd"
           none == 0
           f == Frame(hook, none)
           text == Token("text", 0)
           z == s \o f
<1>1. hook \in Hooks /\ none \in Nat /\ hook = "precmd"
  BY DEF Hooks
<1>2. /\ Fits(Token(hook, none), run, top)
      /\ RunAfter(Token(hook, none)) = 0 /\ TopAfter(Token(hook, none), top) = top
  BY FrameEffects
<1>3. text \in Tokens /\ text.kind \in Visible /\ text.of = 0
  BY TokenType DEF Visible
<1>4. s \in Seq(Tokens)
  BY RestsParts
<1> HIDE DEF text, hook, none
<1>5. Rests(z, RunAfter(Token(hook, none)), TopAfter(Token(hook, none), top)) /\ f \in Seq(Tokens)
      /\ (hook = "precmd" => Says[z].store.open # 0)
  BY <1>1, <1>2, SaysFrame
<1> HIDE DEF f
<1>6. Rests(z, 0, top) /\ z \in Seq(Tokens) /\ Says[z].store.open # 0
  BY <1>1, <1>2, <1>4, <1>5, ConcatProperties
<1> HIDE DEF z
<1>7. Rests(Append(z, text), 0, top)
  BY <1>3, <1>6, SaysShown
<1>8. z \o <<text>> = Append(z, text) /\ <<text>> \in Seq(Tokens)
  BY <1>3, <1>6, ConcatOne
<1>9. Rests(z \o <<text>>, 0, top) /\ f \in Seq(Tokens) /\ <<text>> \in Seq(Tokens) /\ z \in Seq(Tokens)
  BY <1>5, <1>6, <1>7, <1>8
<1> QED BY <1>9 DEF z, f, text, hook, none

(* A prompt, as the script writes it when no command ended.                *)
Prompt == Frame("precmd", 0) \o <<Token("text", 0)>>

(* Written as one sequence.                                                *)
LEMMA SaysPrompted ==
    ASSUME NEW s, NEW run, NEW top, Rests(s, run, top)
    PROVE  Rests(s \o Prompt, 0, top) /\ Prompt \in Seq(Tokens)
<1> DEFINE f == Frame("precmd", 0)
           t == <<Token("text", 0)>>
<1>1. Rests((s \o f) \o t, 0, top) /\ f \in Seq(Tokens) /\ t \in Seq(Tokens)
  BY SaysPrompt
<1>2. s \in Seq(Tokens)
  BY RestsParts
<1> HIDE DEF f, t
<1>3. s \o (f \o t) = (s \o f) \o t /\ f \o t \in Seq(Tokens)
  BY <1>1, <1>2, ConcatAssoc, ConcatProperties
<1>4. Rests(s \o (f \o t), 0, top)
  BY <1>1, <1>3
<1> QED BY <1>3, <1>4 DEF Prompt, f, t

(* The end of a command, and a prompt.                                     *)
LEMMA SaysFinished ==
    ASSUME NEW s, NEW run, NEW top, Rests(s, run, top), NEW c \in Nat
    PROVE  /\ Rests(s \o (Frame("finished", c) \o Frame("precmd", 0) \o <<Token("text", 0)>>), 0, top)
           /\ Frame("finished", c) \o Frame("precmd", 0) \o <<Token("text", 0)>> \in Seq(Tokens)
<1> DEFINE hook == "finished"
           e == Frame(hook, c)
           f == Frame("precmd", 0)
           t == <<Token("text", 0)>>
<1>1. hook \in Hooks
  BY DEF Hooks
<1>2. /\ Fits(Token(hook, c), run, top)
      /\ RunAfter(Token(hook, c)) = 0 /\ TopAfter(Token(hook, c), top) = top
  BY FrameEffects
<1> HIDE DEF hook
<1>3. Rests(s \o e, 0, top) /\ e \in Seq(Tokens)
  BY <1>1, <1>2, SaysFrame
<1>4. s \in Seq(Tokens)
  BY RestsParts
<1> HIDE DEF e
<1> DEFINE z == s \o e
<1>5. Rests(z, 0, top) /\ z \in Seq(Tokens)
  BY <1>3, <1>4, ConcatProperties
<1> HIDE DEF z
<1>6. Rests((z \o f) \o t, 0, top) /\ f \in Seq(Tokens) /\ t \in Seq(Tokens) /\ z \o f \in Seq(Tokens)
  BY <1>5, SaysPrompt
<1> HIDE DEF f, t
<1> DEFINE ef == e \o f
<1>7. ef \in Seq(Tokens) /\ z \o f = s \o ef
  BY <1>3, <1>4, <1>6, ConcatAssoc, ConcatProperties DEF z
<1> HIDE DEF ef
<1>8. s \o (ef \o t) = (s \o ef) \o t /\ ef \o t \in Seq(Tokens)
  BY <1>4, <1>6, <1>7, ConcatAssoc, ConcatProperties
<1>9. Rests(s \o (ef \o t), 0, top)
  BY <1>6, <1>7, <1>8
<1> QED BY <1>8, <1>9 DEF ef, e, f, t, hook

-----------------------------------------------------------------------------
(* The invariant: what the shell writes, and what was made of it.          *)

ShellWell ==
    /\ ran \in BOOLEAN /\ commands \in Nat /\ (ran => commands # 0)
    /\ Rests(sent, IF ran THEN commands ELSE 0, commands)

(* The terminal is where the stream was at its last call.                  *)
FeedWell ==
    /\ read \in 0 .. Len(sent)
    /\ CutKnown(sent, read, torn)
    /\ sniffer.parser = ParserAt(ReadTo(sent, read).at)
    /\ sniffer.hook = ReadTo(sent, read).head
    /\ sniffer.start \in Nat
    /\ Begun \in Turns
    /\ Reached(sent, read, torn, Begun)

(* The inductive invariant.                                                *)
TerminalInv == ShellWell /\ FeedWell

(* The shell only adds to the stream.                                      *)
Wrote == \E t \in Seq(Tokens) : sent' = sent \o t

(* Writing leaves what was read.                                           *)
LEMMA PrefixOfMore ==
    ASSUME NEW s \in Seq(Tokens), NEW t \in Seq(Tokens), NEW p \in 0 .. Len(s)
    PROVE  /\ s \o t \in Seq(Tokens) /\ p \in 0 .. Len(s \o t)
           /\ SubSeq(s \o t, 1, p) = SubSeq(s, 1, p)
           /\ p < Len(s) => (s \o t)[p + 1] = s[p + 1]
<1> DEFINE w == s \o t
           x == SubSeq(s, 1, p)
           y == SubSeq(w, 1, p)
<1>1. /\ w \in Seq(Tokens) /\ Len(w) = Len(s) + Len(t)
      /\ \A i \in 1 .. Len(s) + Len(t) : w[i] = IF i <= Len(s) THEN s[i] ELSE t[i - Len(s)]
  BY ConcatProperties
<1>2. Len(s) \in Nat /\ Len(t) \in Nat
  BY LenProperties
<1> HIDE DEF w
<1>3. p <= Len(w) /\ p \in Nat
  BY <1>1, <1>2
<1>4. /\ x \in Seq(Tokens) /\ Len(x) = IF 1 <= p THEN p - 1 + 1 ELSE 0
      /\ \A i \in 1 .. p - 1 + 1 : x[i] = s[1 + i - 1]
  <2>1. \A i \in 1 .. p : s[i] \in Tokens
    BY <1>2, LenProperties, ElementOfSeq
  <2> QED BY <2>1, SubSeqProperties
<1>5. /\ y \in Seq(Tokens) /\ Len(y) = IF 1 <= p THEN p - 1 + 1 ELSE 0
      /\ \A i \in 1 .. p - 1 + 1 : y[i] = w[1 + i - 1]
  <2>1. \A i \in 1 .. p : w[i] \in Tokens
    BY <1>1, <1>2, <1>3, LenProperties, ElementOfSeq
  <2> QED BY <2>1, SubSeqProperties
<1> HIDE DEF x, y
<1>6. ASSUME NEW i \in 1 .. Len(x) PROVE x[i] = y[i]
  <2>1. i \in 1 .. p - 1 + 1 /\ 1 + i - 1 = i /\ i \in 1 .. Len(s) + Len(t) /\ i <= Len(s)
    BY <1>2, <1>4
  <2>2. x[i] = s[i] /\ y[i] = w[i]
    BY <1>4, <1>5, <2>1
  <2>3. w[i] = s[i]
    BY <1>1, <2>1
  <2> QED BY <2>2, <2>3
<1>7. x = y
  BY <1>4, <1>5, <1>6, SeqEqual
<1>8. p < Len(s) => w[p + 1] = s[p + 1]
  BY <1>1, <1>2, <1>3
<1> QED BY <1>1, <1>3, <1>7, <1>8 DEF x, y, w

(* What the terminal reached depends on what it has read only.             *)
LEMMA ReachedSame ==
    ASSUME NEW s, NEW w, NEW p, SubSeq(w, 1, p) = SubSeq(s, 1, p), NEW cuts, NEW t,
           Reached(s, p, cuts, t)
    PROVE  Reached(w, p, cuts, t)
<1>1. ReadTo(w, p) = ReadTo(s, p)
  BY DEF ReadTo
<1>2. Faithful(w, p, cuts, t.store, t.global)
  BY <1>1 DEF Reached, Faithful, GridInStep, Routed, ShowsOwn, Prompts, AltKnown
<1>3. CapturedTo(w, p, cuts, t.store)
  BY DEF Reached, CapturedTo, Capped
<1> QED BY <1>1, <1>2, <1>3 DEF Reached

(* So the shell's writing disturbs nothing on the terminal's side.         *)
LEMMA FeedKept ==
    ASSUME ShellWell, FeedWell, Wrote, UNCHANGED terminal
    PROVE  FeedWell'
<1>1. PICK t \in Seq(Tokens) : sent' = sent \o t
  BY DEF Wrote
<1>2. sent \in Seq(Tokens) /\ read \in 0 .. Len(sent)
  BY RestsParts DEF ShellWell, FeedWell
<1>3. /\ read \in 0 .. Len(sent') /\ SubSeq(sent', 1, read) = SubSeq(sent, 1, read)
      /\ read < Len(sent) => sent'[read + 1] = sent[read + 1]
  BY <1>1, <1>2, PrefixOfMore
<1>4. UNCHANGED <<read, sniffer, global, store, torn, panicked>>
  BY DEF terminal
<1>5. Begun' = Begun
  BY <1>4 DEF Begun
<1>6. Reached(sent', read, torn, Begun)
  BY <1>3, ReachedSame DEF FeedWell
<1>7. ReadTo(sent', read) = ReadTo(sent, read)
  BY <1>3 DEF ReadTo
<1>8. read = Len(sent) => ReadTo(sent, read).at = "free"
  <2>1. SubSeq(sent, 1, Len(sent)) = sent
    BY <1>2, LenProperties, SeqEqual
  <2> QED BY <2>1 DEF ReadTo, ShellWell, Rests
<1>9. CutKnown(sent', read, torn)
  <2>1. CutKnown(sent, read, torn)
    BY DEF FeedWell
  <2>2. Len(sent) \in Nat
    BY <1>2, LenProperties
  <2>3. CASE read = Len(sent)
    BY <1>7, <1>8, <2>3 DEF CutKnown
  <2>4. CASE read # Len(sent)
    BY <1>2, <1>3, <1>7, <2>1, <2>2, <2>4 DEF CutKnown
  <2> QED BY <2>3, <2>4
<1> QED BY <1>3, <1>4, <1>5, <1>6, <1>7, <1>9 DEF FeedWell

(* Each step of the shell.                                                 *)
LEMMA ShellPrecmd ==
    ASSUME ShellWell, PrecmdHook
    PROVE  ShellWell' /\ Wrote /\ UNCHANGED terminal
<1> DEFINE z == Frame("precmd", 0) \o <<Token("text", 0)>>
           w == Frame("finished", commands) \o Frame("precmd", 0) \o <<Token("text", 0)>>
           v == << >> \o Frame("precmd", 0) \o <<Token("text", 0)>>
           run == IF ran THEN commands ELSE 0
<1>1. /\ sent' = sent \o ((IF ran THEN Frame("finished", commands) ELSE << >>)
                          \o Frame("precmd", 0) \o <<Token("text", 0)>>)
      /\ ran' = FALSE /\ UNCHANGED commands /\ UNCHANGED terminal
  BY DEF PrecmdHook, Write
<1>2. ran \in BOOLEAN /\ commands \in Nat /\ Rests(sent, run, commands)
  BY DEF ShellWell
<1>3. Rests(sent \o w, 0, commands) /\ w \in Seq(Tokens)
  BY <1>2, SaysFinished
<1>4. Rests(sent \o z, 0, commands) /\ z \in Seq(Tokens)
  BY <1>2, SaysPrompted DEF Prompt
<1>5. v = z
  <2>1. Frame("precmd", 0) \in Seq(Tokens)
    BY <1>2, SaysPrompt
  <2> DEFINE f == Frame("precmd", 0)
  <2> HIDE DEF f
  <2>2. << >> \o f = f
    BY <2>1, ConcatEmptySeq DEF f
  <2> QED BY <2>2 DEF f
<1>6. sent' = sent \o (IF ran THEN w ELSE v)
  <2>1. CASE ran
    BY <1>1, <2>1
  <2>2. CASE ~ran
    BY <1>1, <2>2
  <2> QED BY <2>1, <2>2
<1> HIDE DEF z, w, v, run
<1>7. Wrote /\ Rests(sent', 0, commands)
  <2>1. CASE ran
    BY <1>3, <1>6, <2>1 DEF Wrote
  <2>2. CASE ~ran
    BY <1>4, <1>5, <1>6, <2>2 DEF Wrote
  <2> QED BY <2>1, <2>2
<1> QED BY <1>1, <1>2, <1>7 DEF ShellWell

(* A command started.                                                      *)
LEMMA ShellPreexec ==
    ASSUME ShellWell, PreexecHook
    PROVE  ShellWell' /\ Wrote /\ UNCHANGED terminal
<1> DEFINE c == commands + 1
           hook == "preexec"
           t == Frame(hook, c)
           none == 0
<1>1. /\ ~ran /\ sent' = sent \o t /\ ran' = TRUE /\ commands' = c /\ UNCHANGED terminal
  BY DEF PreexecHook, Write
<1>2. commands \in Nat /\ Rests(sent, none, commands)
  BY <1>1 DEF ShellWell
<1>3. c \in Nat /\ hook \in Hooks /\ c = commands + 1 /\ none = 0 /\ c # 0
  BY <1>2 DEF Hooks
<1>4. Fits(Token(hook, c), none, commands)
      /\ RunAfter(Token(hook, c)) = c /\ TopAfter(Token(hook, c), commands) = c
  BY FrameEffects
<1> HIDE DEF c, hook, none, t
<1>5. Rests(sent \o t, c, c) /\ t \in Seq(Tokens)
  BY <1>2, <1>3, <1>4, SaysFrame DEF t
<1> QED BY <1>1, <1>3, <1>5 DEF ShellWell, Wrote

(* The shell replaced by another.                                          *)
LEMMA ShellAgain ==
    ASSUME ShellWell, ShellReplaced
    PROVE  ShellWell' /\ Wrote /\ UNCHANGED terminal
<1>1. sent' = sent \o Prompt /\ ran' = FALSE /\ UNCHANGED <<commands, terminal>>
  BY DEF ShellReplaced, Write, Prompt
<1>2. commands \in Nat /\ Rests(sent, IF ran THEN commands ELSE 0, commands)
  BY DEF ShellWell
<1>3. Rests(sent \o Prompt, 0, commands) /\ Prompt \in Seq(Tokens)
  BY <1>2, SaysPrompted
<1> QED BY <1>1, <1>2, <1>3 DEF ShellWell, Wrote

(* A character of the command.                                             *)
LEMMA ShellPrints ==
    ASSUME ShellWell, CommandPrints
    PROVE  ShellWell' /\ Wrote /\ UNCHANGED terminal
<1>1. PICK kind \in Visible : CommandWrites(<<Token(kind, commands)>>)
  BY DEF CommandPrints
<1> DEFINE e == Token(kind, commands)
<1>2. ran /\ sent' = sent \o <<e>> /\ UNCHANGED terminal /\ UNCHANGED <<ran, commands>>
  BY <1>1 DEF CommandWrites, Write, CommandPrints
<1>3. commands \in Nat /\ Rests(sent, commands, commands) /\ commands # 0 /\ ran \in BOOLEAN
  BY <1>2 DEF ShellWell
<1>4. e \in Tokens /\ e.kind \in Visible /\ e.of = commands
  BY <1>3, TokenType
<1>5. sent \in Seq(Tokens)
  BY <1>3, RestsParts
<1> HIDE DEF e
<1>6. sent \o <<e>> = Append(sent, e) /\ <<e>> \in Seq(Tokens)
  BY <1>4, <1>5, ConcatOne
<1>7. Rests(Append(sent, e), commands, commands)
  BY <1>3, <1>4, SaysShown
<1> QED BY <1>2, <1>3, <1>6, <1>7 DEF ShellWell, Wrote

(* The alternate screen entered or left.                                   *)
LEMMA ShellSwitches ==
    ASSUME ShellWell, CommandSwitchesScreen
    PROVE  ShellWell' /\ Wrote /\ UNCHANGED terminal
<1> DEFINE a == Token("esc", commands)
           e == Token(IF alt THEN "off" ELSE "on", commands)
<1>2. ran /\ sent' = sent \o <<a, e>> /\ UNCHANGED terminal /\ UNCHANGED <<ran, commands>>
  BY DEF CommandWrites, Write, CommandSwitchesScreen
<1>3. commands \in Nat /\ Rests(sent, commands, commands) /\ commands # 0 /\ ran \in BOOLEAN
  BY <1>2 DEF ShellWell
<1>4. /\ e \in Tokens /\ e.kind \in {"on", "off"} /\ e.of = commands
      /\ a \in Tokens /\ a.kind = "esc" /\ a.of = commands
  BY <1>3, TokenType
<1>5. sent \in Seq(Tokens)
  BY <1>3, RestsParts
<1> HIDE DEF a, e
<1>6. sent \o <<a, e>> = Append(Append(sent, a), e) /\ <<a, e>> \in Seq(Tokens)
  BY <1>4, <1>5, ConcatTwo
<1>7. Rests(Append(Append(sent, a), e), commands, commands)
  BY <1>3, <1>4, SaysSwitched
<1> QED BY <1>2, <1>3, <1>6, <1>7 DEF ShellWell, Wrote

-----------------------------------------------------------------------------
(* A call of feed.                                                         *)

(* A call finds the sniffer and the terminal where the stream is.          *)
LEMMA FeedEnters ==
    ASSUME ShellWell, FeedWell, NEW n \in Nat
    PROVE  Legal(sent) /\ Entered(sent, read, n, torn, SniffFrom, Begun)
<1>1. Legal(sent)
  BY DEF ShellWell, Rests
<1> DEFINE g == ReadTo(sent, read)
           from == SniffFrom
           S == Seq(Founds(n))
           H == Heads \cup {None}
           none == << >>
<1>2. g \in Readings /\ g.at \in Places /\ g.at # "bad" /\ (g.at = "body" => g.head \in Heads)
      /\ (g.at # "body" => g.head = None)
  BY <1>1, HeadAt DEF FeedWell
<1>3. ParserAt(g.at) \in Parsers /\ (ParserAt(g.at) = "dcs" <=> g.at = "body")
  <2> DEFINE x == g.at
  <2>1. x \in Places /\ x # "bad"
    BY <1>2
  <2> HIDE DEF x
  <2>2. ParserAt(x) \in Parsers /\ (ParserAt(x) = "dcs" <=> x = "body")
    BY <2>1, ParserAtParser
  <2> QED BY <2>2 DEF x
<1>4. sniffer.parser = ParserAt(g.at) /\ sniffer.hook = g.head /\ sniffer.start \in Nat
  BY DEF FeedWell
<1>5. none \in S /\ g.head \in H
  BY <1>2, EmptySeq
<1>6. from = [parser |-> ParserAt(g.at), hook |-> g.head, start |-> sniffer.start,
              esc |-> 0, skip |-> 0, found |-> none]
  BY <1>4 DEF SniffFrom
<1> HIDE DEF g, from, S, H, none
<1>7. from \in [parser : Parsers, hook : H, start : Nat, esc : Nat, skip : Nat, found : S]
  BY <1>3, <1>4, <1>5, <1>6
<1>8. from.parser = ParserAt(g.at) /\ from.hook = g.head /\ from.skip = 0 /\ from.found = none
  BY <1>6
<1>9. from.parser = "dcs" => from.hook \in Heads
  BY <1>2, <1>3, <1>8
<1>10. from \in Sniffers(n)
  BY <1>7, <1>9 DEF Sniffers, H, S
<1>11. Begun.cursor = 0
  BY DEF Begun
<1>12. Reached(sent, read, torn, Begun) /\ Begun \in Turns /\ CutKnown(sent, read, torn)
  BY DEF FeedWell, g
<1> QED BY <1>1, <1>8, <1>10, <1>11, <1>12 DEF Entered, g, from, none

(* Whether a border tears.                                                 *)
LEMMA TearsAt ==
    ASSUME Legal(sent), NEW n \in 0 .. Len(sent)
    PROVE  Tears(n) <=> ReadTo(sent, n).at # "free"
<1> DEFINE x == SubSeq(sent, 1, n)
<1>0. sent \in Seq(Tokens) /\ Len(sent) \in Nat
  BY LenProperties DEF Legal
<1>1. Legal(x)
  BY PrefixLegal
<1>2. ReadTo(sent, n) = Says[x]
  BY DEF ReadTo
<1> HIDE DEF x
<1>3. Says[x].at = "free" <=> (x = << >> \/ x[Len(x)].kind \notin Hooks \cup {"esc"})
  BY <1>1, LegalSound DEF Sound
<1>4. CASE n = 0
  <2>1. x = << >>
    <3>1. SubSeq(sent, 0 + 1, 0) = << >>
      BY PieceEmpty
    <3> QED BY <1>4, <3>1 DEF x
  <2> QED BY <1>2, <1>3, <1>4, <2>1 DEF Tears
<1>5. CASE n # 0
  <2>1. n \in 1 .. Len(sent) /\ n \in Nat
    BY <1>0, <1>5
  <2>2. SubSeq(sent, 1, n) = Append(SubSeq(sent, 1, n - 1), sent[n]) /\ SubSeq(sent, 1, n - 1) \in Seq(Tokens)
        /\ sent[n] \in Tokens
    BY <1>0, <2>1, SplitLast
  <2> DEFINE y == SubSeq(sent, 1, n - 1)
             e == sent[n]
  <2>3. x = Append(y, e) /\ y \in Seq(Tokens) /\ e \in Tokens
    BY <2>2 DEF x
  <2> HIDE DEF y, e
  <2>4. x # << >> /\ x[Len(x)] = e
    <3>1. Len(Append(y, e)) = Len(y) + 1 /\ Append(y, e)[Len(y) + 1] = e /\ Len(y) \in Nat
      BY <2>3, AppendProperties, LenProperties
    <3> QED BY <2>3, <3>1, EmptySeq
  <2> QED BY <1>2, <1>3, <2>1, <2>4 DEF Tears, e
<1> QED BY <1>4, <1>5

(* The call of feed, in the names of the lemmas: the turns for its events, *)
(* the rest of the chunk, and the terminal after it.                       *)
Turned(chunk) == TurnsOf(chunk, Begun, SniffOver(chunk, SniffFrom).found)

RestOf(chunk, t, n) == SubSeq(chunk, t.cursor + 1, n)

Rested(chunk, t, n) == Capture(Dispatch(t, RestOf(chunk, t, n)), RestOf(chunk, t, n))

(* What a call changes, when it does not panic.                            *)
LEMMA FeedChanges ==
    ASSUME NEW n, Feed(n), NEW chunk, chunk = SubSeq(sent, read + 1, read + n)
    PROVE  /\ n \in 1 .. Len(sent) - read
           /\ panicked' = Turned(chunk).panicked /\ UNCHANGED shell
           /\ Turned(chunk).panicked => UNCHANGED <<read, sniffer, global, store, torn>>
           /\ ~Turned(chunk).panicked =>
                /\ read' = read + n
                /\ sniffer' = [parser |-> SniffOver(chunk, SniffFrom).parser,
                               hook |-> SniffOver(chunk, SniffFrom).hook,
                               start |-> SniffOver(chunk, SniffFrom).start]
                /\ global' = Rested(chunk, Turned(chunk), n).global
                /\ store' = Rested(chunk, Turned(chunk), n).store
                /\ torn' = torn \cup Cuts(read', store')
<1>1. Sniff(chunk) = SniffOver(chunk, SniffFrom)
  BY DEF Sniff, SniffOver
<1> DEFINE d == SubSeq(sent, read + 1, read + n)
           u == TurnsOf(d, Begun, Sniff(d).found)
<1>3. /\ n \in 1 .. Len(sent) - read
      /\ panicked' = u.panicked
      /\ IF u.panicked THEN UNCHANGED <<read, sniffer, global, store, torn>>
         ELSE /\ read' = read + n
              /\ sniffer' = [parser |-> Sniff(d).parser, hook |-> Sniff(d).hook,
                             start |-> Sniff(d).start]
              /\ global' = Rested(d, u, n).global
              /\ store' = Rested(d, u, n).store
              /\ torn' = torn \cup Cuts(read', store')
      /\ UNCHANGED shell
  BY DEF Feed, Rested, RestOf
<1>4. d = chunk
  OBVIOUS
<1>5. u = Turned(chunk)
  BY <1>1, <1>4 DEF Turned
<1>6. Sniff(d) = SniffOver(chunk, SniffFrom)
  BY <1>1, <1>4
<1> HIDE DEF u, d
<1> QED BY <1>3, <1>4, <1>5, <1>6

(* What a call makes of a stream, in constants.                            *)
Fed(s, k, more, a, u) ==
    /\ u \in Turns /\ Reached(s, k, more, u)
    /\ a.parser = ParserAt(ReadTo(s, k).at) /\ a.hook = ReadTo(s, k).head /\ a.start \in Nat

(* A call that does not panic takes the terminal to the end of its chunk.  *)
LEMMA FedIsReached ==
    ASSUME NEW s, Legal(s), NEW r \in Nat, NEW n \in Nat, r + n <= Len(s),
           NEW chunk, chunk = SubSeq(s, r + 1, r + n),
           NEW cuts, NEW from, NEW begun, Entered(s, r, n, cuts, from, begun),
           NEW more, cuts \subseteq more, CutKnown(s, r + n, more),
           ~TurnsOf(chunk, begun, SniffOver(chunk, from).found).panicked
    PROVE  Fed(s, r + n, more, SniffOver(chunk, from),
               Rested(chunk, TurnsOf(chunk, begun, SniffOver(chunk, from).found), n))
<1> DEFINE a == SniffOver(chunk, from)
           t == TurnsOf(chunk, begun, a.found)
           k == r + n
           u == Rested(chunk, t, n)
<1>1. a \in Sniffers(n) /\ Followed(s, r, n, n, a) /\ Looped(s, r, n, n, cuts, a, t)
  BY LoopRun
<1>2. ~t.panicked
  OBVIOUS
<1> HIDE DEF a, t
<1>3. ArrivedAt(s, r + n, more, Capture(Dispatch(t, SubSeq(chunk, t.cursor + 1, n)),
                                        SubSeq(chunk, t.cursor + 1, n)))
  BY <1>1, <1>2, RestTurn
<1>4. ArrivedAt(s, k, more, u)
  BY <1>3 DEF Rested, RestOf
<1>5. a.skip # n + 1
  BY <1>1 DEF Followed
<1>6. a.parser = ParserAt(ReadTo(s, k).at) /\ a.hook = ReadTo(s, k).head
  BY <1>1, <1>5 DEF Followed
<1>7. a.start \in Nat
  BY <1>1, SnifferParts
<1> HIDE DEF k, u
<1>8. u \in Turns /\ Reached(s, k, more, u)
  BY <1>4 DEF ArrivedAt
<1>9. Fed(s, k, more, a, u)
  BY <1>6, <1>7, <1>8 DEF Fed
<1> QED BY <1>9 DEF k, a, u, t

(* So it keeps the invariant, and one that panics changes nothing else.    *)
LEMMA FeedStep ==
    ASSUME ShellWell, FeedWell, NEW n, Feed(n)
    PROVE  ShellWell' /\ FeedWell'
<1> DEFINE chunk == SubSeq(sent, read + 1, read + n)
           a == SniffOver(chunk, SniffFrom)
           t == Turned(chunk)
           u == Rested(chunk, t, n)
<1>1. /\ n \in 1 .. Len(sent) - read
      /\ UNCHANGED shell
      /\ t.panicked => UNCHANGED <<read, sniffer, global, store, torn>>
      /\ ~t.panicked =>
            /\ read' = read + n
            /\ sniffer' = [parser |-> a.parser, hook |-> a.hook, start |-> a.start]
            /\ global' = u.global /\ store' = u.store
            /\ torn' = torn \cup Cuts(read', store')
  BY FeedChanges
<1>2. read \in 0 .. Len(sent)
  BY DEF FeedWell
<1>3. sent' = sent /\ ran' = ran /\ commands' = commands
  BY <1>1 DEF shell
<1>4. ShellWell'
  BY <1>3 DEF ShellWell
<1>5. CASE t.panicked
  <2>1. UNCHANGED <<read, sniffer, global, store, torn>>
    BY <1>1, <1>5
  <2>2. Begun' = Begun
    BY <2>1 DEF Begun
  <2>3. FeedWell'
    <3> HIDE DEF chunk, a, t, u
    <3> QED BY <1>3, <2>1, <2>2 DEF FeedWell
  <2> QED BY <1>4, <2>3
<1>6. CASE ~t.panicked
  <2> DEFINE k == read + n
             more == torn'
  <2>1. Len(sent) \in Nat /\ Legal(sent)
    BY LenProperties DEF ShellWell, Rests, Legal
  <2>2. n \in Nat /\ read \in Nat /\ k \in 0 .. Len(sent) /\ read + n <= Len(sent)
    BY <1>1, <1>2, <2>1
  <2>3. Entered(sent, read, n, torn, SniffFrom, Begun)
    BY <2>2, FeedEnters
  <2> HIDE DEF t, u, a, chunk
  <2>4. /\ read' = k /\ global' = u.global /\ store' = u.store
        /\ sniffer' = [parser |-> a.parser, hook |-> a.hook, start |-> a.start]
        /\ torn' = torn \cup Cuts(k, u.store)
    BY <1>1, <1>6
  <2> HIDE DEF k
  <2>5. Tears(k) <=> ReadTo(sent, k).at # "free"
    BY <2>1, <2>2, TearsAt
  <2>6. ASSUME NEW cuts, torn \subseteq cuts, CutKnown(sent, k, cuts)
        PROVE  Fed(sent, k, cuts, a, u)
    <3> DEFINE rd == read
               tr == torn
               from == SniffFrom
               begun == Begun
               s == sent
    <3>1. chunk = SubSeq(s, rd + 1, rd + n) /\ a = SniffOver(chunk, from)
          /\ t = TurnsOf(chunk, begun, SniffOver(chunk, from).found) /\ u = Rested(chunk, t, n)
          /\ k = rd + n
      BY DEF chunk, a, t, u, Turned, k
    <3>2. Legal(s) /\ rd \in Nat /\ n \in Nat /\ rd + n <= Len(s) /\ Entered(s, rd, n, tr, from, begun)
          /\ ~TurnsOf(chunk, begun, SniffOver(chunk, from).found).panicked
          /\ tr \subseteq cuts /\ CutKnown(s, rd + n, cuts)
      BY <1>6, <2>1, <2>2, <2>3, <2>6, <3>1
    <3> HIDE DEF rd, tr, from, begun, s
    <3>3. Fed(s, rd + n, cuts, SniffOver(chunk, from),
              Rested(chunk, TurnsOf(chunk, begun, SniffOver(chunk, from).found), n))
      BY <3>1, <3>2, FedIsReached
    <3>4. Fed(s, k, cuts, a, u)
      BY <3>1, <3>3
    <3> QED BY <3>4 DEF s
  <2> DEFINE g == ReadTo(sent, k)
             st == u.store
             most == torn \cup {Token(sent[k + 1].kind, g.run)}
  <2>7. u \in Turns /\ Same(st, g.store)
    <3>1. torn \subseteq most /\ CutKnown(sent, k, most)
      BY DEF CutKnown
    <3> HIDE DEF most
    <3> QED BY <2>6, <3>1 DEF Fed, Reached
  <2>8. CutKnown(sent, k, more)
    <3>1. Legal(SubSeq(sent, 1, k))
      BY <2>1, <2>2, PrefixLegal
    <3>2. Sound(SubSeq(sent, 1, k), g) /\ g \in Readings
      BY <3>1, LegalSound DEF ReadTo
    <3> HIDE DEF g
    <3>3. g.store \in Stores /\ g.run \in Nat /\ Shape(g.store, g.run, g.top) /\ st \in Stores
      BY <2>7, <3>2 DEF Sound, Readings, Turns
    <3> HIDE DEF st
    <3>4. Shape(st, g.run, g.top)
      BY <2>7, <3>3, SameShape
    <3>5. g.run # 0 => OpenGrid(st) # None /\ st.blocks[st.open].command = g.run
      BY <3>3, <3>4, GridWhenRunning
    <3>6. more = torn \cup Cuts(k, st)
      BY <2>4 DEF more, st
    <3>7. ASSUME g.run # 0, g.at # "free" PROVE Token(sent[k + 1].kind, g.run) \in more
      BY <2>5, <3>5, <3>6, <3>7 DEF Cuts, g
    <3> HIDE DEF more
    <3> QED BY <3>7 DEF CutKnown, g
  <2> HIDE DEF more, g, st
  <2>9. /\ u \in Turns /\ Reached(sent, k, more, u)
        /\ a.parser = ParserAt(ReadTo(sent, k).at) /\ a.hook = ReadTo(sent, k).head /\ a.start \in Nat
    <3>1. torn \subseteq more
      BY <2>4 DEF more
    <3> QED BY <2>6, <2>8, <3>1 DEF Fed
  <2>10. Begun' \in Turns /\ Reached(sent, k, more, Begun')
    <3>1. Begun' = [global |-> u.global, store |-> u.store, cursor |-> 0, panicked |-> FALSE]
      BY <2>4 DEF Begun
    <3>2. Begun' \in Turns /\ Begun'.global = u.global /\ Begun'.store = u.store
      BY <2>9, <3>1 DEF Turns
    <3> QED BY <2>9, <3>2 DEF Reached
  <2>11. /\ sniffer'.parser = a.parser /\ sniffer'.hook = a.hook /\ sniffer'.start = a.start
    BY <2>4
  <2>13. FeedWell'
    BY <1>3, <2>2, <2>4, <2>8, <2>9, <2>10, <2>11 DEF FeedWell, more
  <2> QED BY <1>4, <2>13
<1> QED BY <1>5, <1>6

(* The invariant holds at the start,                                       *)
LEMMA InitWell == Init => TerminalInv
<1> SUFFICES ASSUME Init PROVE TerminalInv
  OBVIOUS
<1> DEFINE none == << >>
           s == sent
           p == read
           zero == 0
<1>1. /\ s = none /\ ran = FALSE /\ commands = 0 /\ p = zero
      /\ sniffer = [parser |-> "ground", hook |-> None, start |-> 0]
      /\ global = NewTerm /\ store = EmptyStore /\ torn = {}
  BY DEF Init
<1>2. none \in Seq(Tokens) /\ Says[none] = Blank /\ Len(none) = 0
  BY EmptySeq, SaysEmpty
<1>3. Blank.at = "free" /\ Blank.run = 0 /\ Blank.top = 0 /\ Blank.head = None /\ Blank.store = EmptyStore
  BY DEF Blank
<1>4. Rests(s, 0, 0)
  BY <1>1, <1>2, <1>3 DEF Rests, Legal
<1>5. ShellWell
  BY <1>1, <1>4 DEF ShellWell
<1>6. SubSeq(s, 1, p) = none
  <2>1. SubSeq(s, 0 + 1, 0) = << >>
    BY PieceEmpty
  <2> QED BY <1>1, <2>1
<1>7. ReadTo(s, p) = Blank
  BY <1>2, <1>6 DEF ReadTo
<1>8. Begun \in Turns /\ Begun.store = EmptyStore /\ Begun.global = NewTerm
  BY <1>1, FreshType, EmptyStoreType DEF Begun, Turns
<1>9. EmptyStore.blocks = << >> /\ Len(EmptyStore.blocks) = 0 /\ EmptyStore.open = 0
  BY EmptySeq DEF EmptyStore, Store
<1>10. OpenGrid(EmptyStore) = None
  BY <1>9 DEF OpenGrid
<1>11. NewTerm.parser = "ground" /\ NewTerm.alt = FALSE /\ NewTerm.text = none
  BY DEF NewTerm
<1> HIDE DEF s, p, none
<1>12. Same(EmptyStore, ReadTo(s, p).store)
  BY <1>3, <1>7, SameRefl
<1>13. Faithful(s, p, torn, EmptyStore, NewTerm)
  <2>1. GridInStep(s, p, EmptyStore)
    BY <1>10 DEF GridInStep
  <2>2. Routed(s, p, torn, EmptyStore)
    BY <1>9 DEF Routed
  <2>3. Prompts(s, p, torn, EmptyStore, NewTerm)
    BY <1>3, <1>6, <1>7, <1>9, <1>10, <1>11 DEF Prompts, Loose, Seen
  <2>4. AltKnown(s, p, EmptyStore, NewTerm)
    BY <1>10, <1>11 DEF AltKnown
  <2> QED BY <2>1, <2>2, <2>3, <2>4 DEF Faithful
<1>14. CapturedTo(s, p, torn, EmptyStore)
  BY <1>9 DEF CapturedTo
<1>15. Reached(s, p, torn, Begun)
  BY <1>8, <1>12, <1>13, <1>14 DEF Reached
<1>16. p \in 0 .. Len(s)
  BY <1>1, <1>2
<1>17. /\ sniffer.parser = ParserAt(ReadTo(s, p).at) /\ sniffer.hook = ReadTo(s, p).head
       /\ sniffer.start \in Nat
  BY <1>1, <1>3, <1>7 DEF ParserAt
<1>19. CutKnown(s, p, torn)
  BY <1>3, <1>7 DEF CutKnown
<1>18. FeedWell
  BY <1>8, <1>15, <1>16, <1>17, <1>19 DEF FeedWell, s, p
<1> QED BY <1>5, <1>18 DEF TerminalInv

(* and every step keeps it.                                                *)
LEMMA NextWell == TerminalInv /\ [Next]_vars => TerminalInv'
<1> SUFFICES ASSUME TerminalInv, [Next]_vars PROVE TerminalInv'
  OBVIOUS
<1>0. ShellWell /\ FeedWell
  BY DEF TerminalInv
<1>1. CASE PrecmdHook
  BY <1>0, <1>1, ShellPrecmd, FeedKept DEF TerminalInv
<1>2. CASE PreexecHook
  BY <1>0, <1>2, ShellPreexec, FeedKept DEF TerminalInv
<1>3. CASE ShellReplaced
  BY <1>0, <1>3, ShellAgain, FeedKept DEF TerminalInv
<1>4. CASE CommandPrints
  BY <1>0, <1>4, ShellPrints, FeedKept DEF TerminalInv
<1>5. CASE CommandSwitchesScreen
  BY <1>0, <1>5, ShellSwitches, FeedKept DEF TerminalInv
<1>6. CASE \E n \in 1 .. MaxSent : Feed(n)
  BY <1>0, <1>6, FeedStep DEF TerminalInv
<1>7. CASE UNCHANGED vars
  <2>1. /\ sent' = sent /\ ran' = ran /\ commands' = commands
        /\ UNCHANGED <<read, sniffer, global, store, torn>>
    BY <1>7 DEF vars, shell, terminal
  <2>2. Begun' = Begun
    BY <2>1 DEF Begun
  <2>3. ShellWell'
    BY <1>0, <2>1 DEF ShellWell
  <2>4. FeedWell'
    BY <1>0, <2>1, <2>2 DEF FeedWell
  <2> QED BY <2>3, <2>4 DEF TerminalInv
<1> QED BY <1>1, <1>2, <1>3, <1>4, <1>5, <1>6, <1>7 DEF Next

(* After any steps of the shell and any chunks, the parsers of the sniffer *)
(* and of the open grid are where the stream is, the blocks are those of   *)
(* the stream and they hold what their commands wrote.                     *)
THEOREM InStepWithStream == Spec => []TerminalInv
<1> QED BY InitWell, NextWell, PTL DEF Spec

-----------------------------------------------------------------------------
(* What the invariant says of the delivered part of the stream.            *)
LEMMA DeliveredFacts ==
    ASSUME TerminalInv
    PROVE  /\ Legal(sent) /\ read \in 0 .. Len(sent)
           /\ Delivered = SubSeq(sent, 1, read)
           /\ ReadTo(sent, read) = Says[Delivered]
           /\ Legal(Delivered)
           /\ store \in Stores
           /\ Reached(sent, read, torn, Begun)
           /\ Begun.store = store /\ Begun.global = global
<1>1. Legal(sent) /\ read \in 0 .. Len(sent)
  BY DEF TerminalInv, ShellWell, FeedWell, Rests
<1>2. Legal(SubSeq(sent, 1, read))
  BY <1>1, PrefixLegal
<1>3. Begun.store = store /\ Begun.global = global
  BY DEF Begun
<1>4. Begun \in Turns /\ Reached(sent, read, torn, Begun)
  BY DEF TerminalInv, FeedWell
<1>5. store \in Stores
  BY <1>3, <1>4 DEF Turns
<1> QED BY <1>1, <1>2, <1>3, <1>4, <1>5 DEF Delivered, ReadTo

(* The outline of a block, as in Outline.                                  *)
OutlineOf(b) == [b EXCEPT !.grid = @ # None, !.frozen = @ # None]

(* A block with its grid and frozen grid set.                              *)
LEMMA TwoSet ==
    ASSUME NEW x \in Block, NEW p, NEW q
    PROVE  [x EXCEPT !.grid = p, !.frozen = q] =
             [id |-> x.id, command |-> x.command, start_line |-> x.start_line, running |-> x.running,
              grid |-> p, frozen |-> q, exit_code |-> x.exit_code, duration |-> x.duration]
<1> DEFINE z == [x EXCEPT !.grid = p]
           w == [id |-> x.id, command |-> x.command, start_line |-> x.start_line, running |-> x.running,
                 grid |-> p, frozen |-> q, exit_code |-> x.exit_code, duration |-> x.duration]
<1>1. z = [id |-> x.id, command |-> x.command, start_line |-> x.start_line, running |-> x.running,
           grid |-> p, frozen |-> x.frozen, exit_code |-> x.exit_code, duration |-> x.duration]
  <2> DEFINE C == Nat \cup {None}
             L == {"block", "global"}
             G == Screens \cup {None}
  <2>1. x \in [id : Nat, command : C, start_line : L, running : BOOLEAN, grid : G, frozen : G,
                exit_code : C, duration : C]
    BY DEF Block
  <2> HIDE DEF C, L, G
  <2> QED BY <2>1
<1> HIDE DEF z
<1>2. [z EXCEPT !.frozen = q] = w
  BY <1>1
<1> HIDE DEF w
<1>3. [x EXCEPT !.grid = p, !.frozen = q] = w
  BY <1>2, Zenon DEF z
<1> QED BY <1>3, Zenon DEF w

(* Like blocks have the same outline.                                      *)
LEMMA LikeOutline ==
    ASSUME NEW x \in Block, NEW y \in Block, Like(x, y)
    PROVE  OutlineOf(x) = OutlineOf(y)
<1> DEFINE xg == x.grid # None
           xf == x.frozen # None
           yg == y.grid # None
           yf == y.frozen # None
<1>1. xg = yg /\ xf = yf
  BY DEF Like
<1>2. OutlineOf(x) = [x EXCEPT !.grid = xg, !.frozen = xf]
  BY DEF OutlineOf
<1>3. OutlineOf(y) = [y EXCEPT !.grid = yg, !.frozen = yf]
  BY DEF OutlineOf
<1> HIDE DEF xg, xf, yg, yf
<1>4. /\ x.id = y.id /\ x.command = y.command /\ x.start_line = y.start_line
      /\ x.running = y.running /\ x.exit_code = y.exit_code /\ x.duration = y.duration
  BY DEF Like
<1>5. [x EXCEPT !.grid = xg, !.frozen = xf] =
          [id |-> x.id, command |-> x.command, start_line |-> x.start_line, running |-> x.running,
           grid |-> xg, frozen |-> xf, exit_code |-> x.exit_code, duration |-> x.duration]
  BY TwoSet, Zenon
<1>6. [y EXCEPT !.grid = yg, !.frozen = yf] =
          [id |-> y.id, command |-> y.command, start_line |-> y.start_line, running |-> y.running,
           grid |-> yg, frozen |-> yf, exit_code |-> y.exit_code, duration |-> y.duration]
  BY TwoSet, Zenon
<1> QED BY <1>1, <1>2, <1>3, <1>4, <1>5, <1>6

(* Stores that are the same have the same outline.                         *)
LEMMA SameOutline ==
    ASSUME NEW s \in Stores, NEW u \in Stores, Same(s, u)
    PROVE  Outline(s) = Outline(u)
<1>1. DOMAIN s.blocks = 1 .. Len(s.blocks) /\ DOMAIN u.blocks = 1 .. Len(s.blocks)
  BY StoreParts DEF Same
<1>2. Outline(s) = [i \in 1 .. Len(s.blocks) |-> OutlineOf(s.blocks[i])]
  BY <1>1 DEF Outline, OutlineOf
<1>3. Outline(u) = [i \in 1 .. Len(s.blocks) |-> OutlineOf(u.blocks[i])]
  BY <1>1 DEF Outline, OutlineOf
<1>4. ASSUME NEW i \in 1 .. Len(s.blocks) PROVE OutlineOf(s.blocks[i]) = OutlineOf(u.blocks[i])
  <2>1. s.blocks[i] \in Block /\ u.blocks[i] \in Block /\ Like(s.blocks[i], u.blocks[i])
    BY StoreParts DEF Same
  <2> QED BY <2>1, LikeOutline
<1> QED BY <1>2, <1>3, <1>4

(* CutsIrrelevant: however the stream is cut into chunks the blocks are    *)
(* those of the uncut stream (Terminal::feed, the sniffer's kept state).   *)
THEOREM CutsDoNotMatter == Spec => []CutsIrrelevant
<1>1. TerminalInv => CutsIrrelevant
  <2> SUFFICES ASSUME TerminalInv PROVE CutsIrrelevant
    OBVIOUS
  <2> DEFINE g == Says[Delivered]
  <2>1. Legal(Delivered) /\ store \in Stores /\ Same(store, g.store)
    BY DeliveredFacts DEF Reached
  <2>2. g.store \in Stores /\ UncutOf(Delivered) = [store |-> g.store, head |-> g.head]
    <3>1. Sound(Delivered, g) /\ g \in Readings
      BY <2>1, LegalSound
    <3> QED BY <3>1 DEF Sound, Readings
  <2> HIDE DEF g
  <2>3. Uncut = UncutOf(Delivered).store
    BY DEF Uncut, UncutOf, Start0
  <2>4. Uncut = g.store
    BY <2>2, <2>3
  <2>5. Outline(store) = Outline(g.store)
    BY <2>1, <2>2, SameOutline
  <2> QED BY <2>1, <2>4, <2>5 DEF CutsIrrelevant, Same
<1> QED BY <1>1, InStepWithStream, PTL

(* RoutedToOwnBlock: a block's grid shows what its command printed, whole, *)
(* in order and nothing else (dispatch_chunk and the loop of feed), but    *)
(* for one backslash in front where a chunk ended inside the terminator of *)
(* the frame that started the command.                                     *)
THEOREM BlocksShowTheirOwn == Spec => []RoutedToOwnBlock
<1>1. TerminalInv => RoutedToOwnBlock
  <2> SUFFICES ASSUME TerminalInv PROVE RoutedToOwnBlock
    OBVIOUS
  <2>1. store \in Stores /\ Routed(sent, read, torn, store) /\ Delivered = SubSeq(sent, 1, read)
    BY DeliveredFacts DEF Reached, Faithful
  <2>2. DOMAIN store.blocks = 1 .. Len(store.blocks)
    BY <2>1, StoreParts
  <2>3. \A c : Leaks(c) = LeaksIn(torn, c)
    BY DEF Leaks, LeaksIn
  <2>4. \A i \in 1 .. Len(store.blocks) : store.blocks[i].command # None =>
            \E leak \in Leaks(store.blocks[i].command) :
                Contents(store.blocks[i]).text = leak \o Seen(Delivered, store.blocks[i].command)
    BY <2>1, <2>3 DEF Routed, ShowsOwn
  <2> QED BY <2>2, <2>4 DEF RoutedToOwnBlock
<1> QED BY <1>1, InStepWithStream, PTL

(* PromptsShown: what the shell prints reaches the global terminal however *)
(* the stream was cut, unless a command that a prompt cut short was torn.  *)
THEOREM PromptsAreShown == Spec => []PromptsShown
<1>1. TerminalInv => PromptsShown
  <2> SUFFICES ASSUME TerminalInv,
                      \A i \in DOMAIN store.blocks :
                          CutShort(store.blocks[i]) => Whole(store.blocks[i].command)
               PROVE  Seen(global.text, 0) = Seen(Delivered, 0)
    BY DEF PromptsShown
  <2>1. Prompts(sent, read, torn, store, global) /\ Delivered = SubSeq(sent, 1, read)
        /\ store \in Stores
    BY DeliveredFacts DEF Reached, Faithful
  <2>2. DOMAIN store.blocks = 1 .. Len(store.blocks)
    BY <2>1, StoreParts
  <2>3. Unhurt(store, torn)
    BY <2>2 DEF Unhurt, Whole, WholeIn
  <2> QED BY <2>1, <2>3 DEF Prompts
<1> QED BY <1>1, InStepWithStream, PTL

(* GlobalAltExplained: the global terminal is in the alternate screen only *)
(* with the running command or after one that ended inside it.             *)
THEOREM AltIsExplained == Spec => []GlobalAltExplained
<1>1. TerminalInv => GlobalAltExplained
  <2> SUFFICES ASSUME TerminalInv PROVE GlobalAltExplained
    OBVIOUS
  <2>1. store \in Stores /\ AltKnown(sent, read, store, global)
    BY DeliveredFacts DEF Reached, Faithful
  <2>2. DOMAIN store.blocks = 1 .. Len(store.blocks)
    BY <2>1, StoreParts
  <2> QED BY <2>1, <2>2 DEF AltKnown, Calm, GlobalAltExplained
<1> QED BY <1>1, InStepWithStream, PTL

(* CaptureExact: the capture of a block is what its command wrote, up to   *)
(* the cap, if no chunk ended inside a frame or an escape sequence while   *)
(* that command was running (capture_output_bytes).                        *)
THEOREM CapturesAreExact == Spec => []CaptureExact
<1>1. TerminalInv => CaptureExact
  <2> SUFFICES ASSUME TerminalInv PROVE CaptureExact
    OBVIOUS
  <2>1. store \in Stores /\ CapturedTo(sent, read, torn, store) /\ Delivered = SubSeq(sent, 1, read)
    BY DeliveredFacts DEF Reached
  <2>2. DOMAIN store.blocks = 1 .. Len(store.blocks)
    BY <2>1, StoreParts
  <2> QED BY <2>1, <2>2 DEF CapturedTo, Capped, CaptureExact, Whole, WholeIn
<1> QED BY <1>1, InStepWithStream, PTL

=============================================================================
