----------------------------- MODULE BlockList -----------------------------
(***************************************************************************)
(* The scrolling list of command blocks (BtIosBlockListViewController):    *)
(* an offset that a pan, momentum and an anchor take turns to set, over a  *)
(* content that grows and shrinks under it, and a display link that has to *)
(* run while something moves and to stop afterwards.  Everything runs on   *)
(* the main thread; one action is one selector or callback.                *)
(*                                                                         *)
(* Lengths are small integers.  A velocity is a number of the finger's     *)
(* direction, of which a frame takes off some; 0 stands for no physics.    *)
(***************************************************************************)
EXTENDS Integers, Sequences

CONSTANTS
    HeaderHeight,  \* HEADER_HEIGHT_PT
    Gap,           \* INTER_BLOCK_GAP_PT
    Tolerance,     \* PIN_TOLERANCE_PT
    Viewports,     \* heights the view may be laid out at
    MaxBlocks,     \* bound: blocks in the list
    MaxRows,       \* bound: rows of a block
    MaxVelocity    \* bound: frames a flick lasts

ASSUME BlockListAssumption ==
    /\ HeaderHeight \in Nat \ {0} /\ Gap \in Nat /\ Tolerance \in Nat
    /\ Viewports \subseteq Nat
    /\ MaxBlocks \in Nat /\ MaxRows \in Nat /\ MaxVelocity \in Nat

VARIABLES
    blocks,    \* cached_blocks: their body_rows and is_running
    viewport,  \* viewport_height
    offset,    \* content_offset_y
    position,  \* scroll_position: -1 follows the bottom, else FixedAt
    velocity,  \* scroll_physics
    sample,    \* the offset last pushed to velocity_estimator, 0 outside a pan
    drift,     \* the direction its last two samples give: -1, 0 or 1
    link,      \* display_link is Some
    panning,   \* the recogniser is between Began and Ended
    torn       \* teardown was called

blockListVars ==
    <<blocks, viewport, offset, position, velocity, sample, drift, link, panning, torn>>

FollowsBottom == -1

AtLeast(a, b) == IF a >= b THEN a ELSE b
AtMost(a, b)  == IF a <= b THEN a ELSE b

-----------------------------------------------------------------------------
(* Layout: where each block begins; the last entry ends the content.       *)

Tops(bs) ==
    LET top[i \in 1 .. Len(bs) + 1] ==
          IF i = 1 THEN 0
          ELSE top[i - 1] + HeaderHeight + bs[i - 1].rows + Gap
    IN  top

MaxOffset(bs, height) == AtLeast(Tops(bs)[Len(bs) + 1] - height, 0)

Clamp(raw, bs, height) == AtMost(AtLeast(raw, 0), MaxOffset(bs, height))

AtBottomEdge(y, bs, height) == y >= MaxOffset(bs, height) - Tolerance

Anchor(y, bs, height) == IF AtBottomEdge(y, bs, height) THEN FollowsBottom ELSE y

-----------------------------------------------------------------------------
(* apply_scroll_position; no caller says that a pan is active.             *)
Applied(y, pos, v, bs, height) ==
    IF height = 0 \/ v # 0 THEN y
    ELSE IF pos = FollowsBottom THEN MaxOffset(bs, height)
    ELSE AtMost(pos, MaxOffset(bs, height))

Running(bs) == \E i \in 1 .. Len(bs) : bs[i].running

(* update_display_link.                                                    *)
LinkFor(v, bs) == v # 0 \/ Running(bs)

(* refresh_inner on the list the source gives now: a list that got longer  *)
(* goes back to following the bottom.                                      *)
Refresh(bs, height) ==
    LET pos == IF Len(bs) > Len(blocks) THEN FollowsBottom ELSE position
    IN  /\ blocks' = bs /\ viewport' = height /\ position' = pos
        /\ offset' = Applied(offset, pos, velocity, bs, height)
        /\ link' = LinkFor(velocity, bs)
        /\ UNCHANGED <<velocity, sample, drift, panning, torn>>

BlockListInit ==
    /\ blocks = <<>> /\ viewport = 0 /\ offset = 0
    /\ position = FollowsBottom /\ velocity = 0 /\ sample = 0 /\ drift = 0
    /\ link = FALSE /\ panning = FALSE /\ torn = FALSE

(* viewWillLayoutSubviews at another size.                                 *)
Layout == \E height \in Viewports : height # viewport /\ Refresh(blocks, height)

(* The terminal's blocks as the source may hand them over: one is added,   *)
(* the last one grows, ends or is reflowed, all are dropped by a reset.    *)
SourceChanges ==
    \/ /\ Len(blocks) < MaxBlocks /\ ~Running(blocks)
       /\ Refresh(Append(blocks, [rows |-> 0, running |-> TRUE]), viewport)
    \/ \E i \in 1 .. Len(blocks), r \in 0 .. MaxRows :
          Refresh([blocks EXCEPT ![i].rows = r], viewport)
    \/ /\ Running(blocks)
       /\ Refresh([blocks EXCEPT ![Len(blocks)].running = FALSE], viewport)
    \/ Refresh(<<>>, viewport)

(* Mutant: a new touch leaves the offset to the momentum's anchor.         *)
PanBeginsUnfixed ==
    /\ ~panning /\ panning' = TRUE
    /\ velocity' = 0 /\ sample' = offset /\ drift' = 0
    /\ UNCHANGED <<blocks, viewport, offset, position, link, torn>>

(* handlePan, Began: momentum stops; its link is left to the next frame.   *)
PanBegins ==
    /\ ~panning /\ panning' = TRUE
    /\ velocity' = 0 /\ position' = offset
    /\ sample' = offset /\ drift' = 0
    /\ UNCHANGED <<blocks, viewport, offset, link, torn>>

(* Changed, by any translation.                                            *)
PanMoves ==
    /\ panning
    /\ \E y \in 0 .. MaxOffset(blocks, viewport) :
         /\ offset' = y /\ position' = Anchor(y, blocks, viewport)
         /\ sample' = y
         /\ drift' = IF y > sample THEN 1 ELSE IF y < sample THEN -1 ELSE 0
    /\ UNCHANGED <<blocks, viewport, velocity, link, panning, torn>>

(* Mutant: a flick does not ask for the link.                              *)
PanEndsUnlinked ==
    /\ panning /\ panning' = FALSE /\ sample' = 0 /\ drift' = 0
    /\ \E speed \in 0 .. MaxVelocity : velocity' = speed * drift
    /\ position' = IF velocity' = 0 /\ AtBottomEdge(offset, blocks, viewport)
                   THEN FollowsBottom ELSE position
    /\ UNCHANGED <<blocks, viewport, offset, link, torn>>

(* Ended or Cancelled: fast enough, it turns into momentum.                *)
PanEnds ==
    /\ panning /\ panning' = FALSE /\ sample' = 0 /\ drift' = 0
    /\ \E speed \in 0 .. MaxVelocity : velocity' = speed * drift
    /\ position' = IF velocity' = 0 /\ AtBottomEdge(offset, blocks, viewport)
                   THEN FollowsBottom ELSE position
    /\ link' = LinkFor(velocity', blocks)
    /\ UNCHANGED <<blocks, viewport, offset, torn>>

(* Mutant: momentum that ends keeps the anchor the pan left.               *)
FrameKeeping(raw, v) ==
    LET y    == Clamp(raw, blocks, viewport)
        left == IF y # raw THEN 0 ELSE v
    IN  /\ velocity' = left /\ offset' = y
        /\ UNCHANGED position

(* advance_momentum towards raw, with the velocity v left after the frame: *)
(* at an edge it stops, and where it stops becomes the anchor, which is    *)
(* then applied.                                                           *)
Frame(raw, v) ==
    LET y    == Clamp(raw, blocks, viewport)
        left == IF y # raw THEN 0 ELSE v
        pos  == IF left = 0 THEN Anchor(y, blocks, viewport) ELSE position
    IN  /\ velocity' = left /\ position' = pos
        /\ offset' = Applied(y, pos, left, blocks, viewport)

(* displayTick: a frame of momentum, or none and the anchor only.  The     *)
(* link goes once nothing moves and no block runs.                         *)
Tick ==
    /\ link
    /\ \/ /\ velocity > 0
          /\ \E v \in 0 .. velocity - 1, d \in 0 .. velocity : Frame(offset + d, v)
       \/ /\ velocity < 0
          /\ \E v \in velocity + 1 .. 0, d \in 0 .. -velocity : Frame(offset - d, v)
       \/ /\ velocity = 0
          /\ offset' = Applied(offset, position, 0, blocks, viewport)
          /\ UNCHANGED <<velocity, position>>
    /\ link' = LinkFor(velocity', blocks)
    /\ UNCHANGED <<blocks, viewport, sample, drift, panning, torn>>

(* teardown takes the link away; what is called after it is not refused.   *)
Teardown ==
    /\ ~torn /\ torn' = TRUE
    /\ link' = FALSE
    /\ UNCHANGED <<blocks, viewport, offset, position, velocity, sample, drift, panning>>

BlockListNext ==
    \/ Layout \/ SourceChanges
    \/ PanBegins \/ PanMoves \/ PanEnds
    \/ Tick \/ Teardown

BlockListSpec == BlockListInit /\ [][BlockListNext]_blockListVars

(* The run loop calls a link that is installed.                            *)
BlockListFairness == WF_blockListVars(Tick)

-----------------------------------------------------------------------------
(* A list that is said to follow its bottom is there, up to the tolerance, *)
(* whenever neither a finger nor momentum has it: new output stays in view *)
(* however it came while one of them had.                                  *)
NearBottom ==
    ~panning /\ velocity = 0 /\ viewport > 0 /\ position = FollowsBottom =>
        AtBottomEdge(offset, blocks, viewport)

(* A reader who scrolled up keeps the place: output, ended momentum and a  *)
(* keyboard that comes and goes leave the offset at the anchor, or at the  *)
(* end of a content that has become too short for it.                      *)
AnchorKept ==
    velocity = 0 /\ viewport > 0 /\ position # FollowsBottom =>
        offset \in {position, AtMost(position, MaxOffset(blocks, viewport))}

(* A flick comes to rest: whatever else happens, the link it needs is      *)
(* there and is not taken away before.                                     *)
MomentumEnds == velocity # 0 /\ ~torn ~> velocity = 0 \/ torn

=============================================================================
