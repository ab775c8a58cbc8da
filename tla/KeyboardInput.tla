--------------------------- MODULE KeyboardInput ---------------------------
(***************************************************************************)
(* The input chrome under the terminal: the mode (ModeState), who has the  *)
(* keyboard (BtIosKeyboardCoordinator and the view controller), and the    *)
(* Ctrl latch, which the coordinator keeps, mirrors onto the terminal view *)
(* and lets a timer end.  Everything runs on the main thread; one action   *)
(* is one selector with all it calls, or one timer that fires.             *)
(***************************************************************************)
EXTENDS Naturals

CONSTANT MaxTaps   \* bound: taps on Ctrl in one behaviour

ASSUME KeyboardAssumption == MaxTaps \in Nat

VARIABLES
    mode,       \* ModeState.mode: 1 inline bar, 2 no input, 3 composer
    responder,  \* UIKit's first responder: "none", "view1" or "view2"
    focused,    \* the coordinator's focused
    text2,      \* the composer holds text
    latch,      \* the coordinator's ctrl_pending
    viewLatch,  \* view1's ctrl_pending
    gen,        \* ctrl_gen
    timers,     \* the dispatch_after blocks on their way
    taps,       \* history: taps on Ctrl so far
    owner       \* history: the tap that armed the latch last

focusVars == <<mode, responder, focused>>
latchVars == <<latch, viewLatch, gen, timers, taps, owner>>
keyboardVars == <<focusVars, text2, latchVars>>

KeyboardInit ==
    /\ mode = 2 /\ responder = "none" /\ focused = "none" /\ text2 = FALSE
    /\ latch = FALSE /\ viewLatch = FALSE /\ gen = 0
    /\ timers = {} /\ taps = 0 /\ owner = 0

-----------------------------------------------------------------------------
(* The Ctrl latch.                                                         *)

(* Mutant: a tap does not start a generation of its own.                   *)
KeybarCtrlSameGen ==
    /\ taps < MaxTaps
    /\ taps' = taps + 1
    /\ latch' = ~latch /\ viewLatch' = ~latch
    /\ timers' = IF ~latch THEN timers \cup {[gen |-> gen, tap |-> taps']} ELSE timers
    /\ owner' = IF ~latch THEN taps' ELSE owner
    /\ UNCHANGED <<focusVars, text2, gen>>

(* keybarCtrl toggles; arming starts a timer with the new generation.      *)
KeybarCtrl ==
    /\ taps < MaxTaps
    /\ taps' = taps + 1
    /\ gen' = gen + 1
    /\ latch' = ~latch /\ viewLatch' = ~latch
    /\ timers' = IF ~latch THEN timers \cup {[gen |-> gen', tap |-> taps']} ELSE timers
    /\ owner' = IF ~latch THEN taps' ELSE owner
    /\ UNCHANGED <<focusVars, text2>>

(* clear_ctrl_latch: Tab, Esc, the arrows, and Newline in the composer.    *)
KeybarKey ==
    /\ latch
    /\ latch' = FALSE /\ viewLatch' = FALSE /\ gen' = gen + 1
    /\ UNCHANGED <<focusVars, text2, timers, taps, owner>>

(* insertText: on view1 masks the first byte when view1's latch is set and *)
(* tells the coordinator.                                                  *)
InsertText ==
    /\ responder = "view1" /\ viewLatch
    /\ viewLatch' = FALSE
    /\ IF latch THEN latch' = FALSE /\ gen' = gen + 1 ELSE UNCHANGED <<latch, gen>>
    /\ UNCHANGED <<focusVars, text2, timers, taps, owner>>

(* Mutant: the timer forgets the view.                                     *)
FireUnmirrored(t) ==
    /\ timers' = timers \ {t}
    /\ IF t.gen = gen /\ latch THEN latch' = FALSE ELSE UNCHANGED latch
    /\ UNCHANGED <<focusVars, text2, viewLatch, gen, taps, owner>>

(* Mutant: the block runs and ends nothing.                                *)
FireNever(t) ==
    /\ timers' = timers \ {t}
    /\ UNCHANGED <<focusVars, text2, latch, viewLatch, gen, taps, owner>>

(* The block of schedule_ctrl_unlatch, three seconds after its tap.        *)
Fire(t) ==
    /\ timers' = timers \ {t}
    /\ IF t.gen = gen /\ latch THEN latch' = FALSE /\ viewLatch' = FALSE
                               ELSE UNCHANGED <<latch, viewLatch>>
    /\ UNCHANGED <<focusVars, text2, gen, taps, owner>>

FireSome == \E t \in timers : Fire(t)

-----------------------------------------------------------------------------
(* The keyboard's owner.                                                   *)

(* do_focus_view2, whoever asks: not while the composer is hidden.         *)
FocusView2(m) ==
    IF m = 2 THEN UNCHANGED <<responder, focused>>
    ELSE responder' = "view2" /\ focused' = "view2"

(* Mutant: leaving the composer does not end its editing.                  *)
SetModeKeeping(m) ==
    /\ mode' = m
    /\ IF m = 2 THEN UNCHANGED <<responder, focused>> ELSE FocusView2(m)

(* Setting another mode and modeStateDidChange: with the composer shown it *)
(* takes the keyboard from view1, hidden it gives the keyboard up.         *)
SetMode(m) ==
    /\ mode' = m
    /\ IF m = 2
       THEN /\ responder' = IF responder = "view2" THEN "none" ELSE responder
            /\ UNCHANGED focused
       ELSE FocusView2(m)

(* A touch on view1, from its recogniser or touchesBegan: do_focus_view1.  *)
TapView1 ==
    /\ mode = 2
    /\ responder' = "view1" /\ focused' = "view1"
    /\ UNCHANGED <<mode, text2, latchVars>>

(* A touch on the composer; textViewDidBeginEditing follows.               *)
TapView2 ==
    /\ mode # 2
    /\ FocusView2(mode)
    /\ UNCHANGED <<mode, text2, latchVars>>

(* The system's own key puts the keyboard away; nobody is told.            *)
Dismiss ==
    /\ responder' = "none"
    /\ UNCHANGED <<mode, focused, text2, latchVars>>

TypeInComposer ==
    /\ responder = "view2"
    /\ text2' \in BOOLEAN
    /\ UNCHANGED <<focusVars, latchVars>>

(* keybarSend, shown in mode 1: the composer's text goes to the remote.    *)
(* Unlike the other chips it leaves the latch alone.                       *)
KeybarSend ==
    /\ mode = 1 /\ text2
    /\ text2' = FALSE
    /\ UNCHANGED <<focusVars, latchVars>>

(* openComposer, shown in mode 2.                                          *)
OpenComposer ==
    /\ mode = 2
    /\ SetMode(3)
    /\ UNCHANGED <<text2, latchVars>>

(* closeComposer, shown in mode 3: the keyboard goes to view1 when the     *)
(* composer had it; focused is cleared last, whoever has the keyboard.     *)
CloseComposer ==
    /\ mode = 3
    /\ mode' = 2
    /\ responder' = IF responder = "view2" THEN "view1" ELSE responder
    /\ focused' = "none"
    /\ UNCHANGED <<text2, latchVars>>

(* The debug display's two buttons.                                        *)
SelectInput ==
    /\ \/ mode # 1 /\ SetMode(1)
       \/ mode = 1 /\ SetMode(2)
    /\ UNCHANGED <<text2, latchVars>>

KeyboardNext ==
    \/ KeybarCtrl \/ KeybarKey \/ InsertText \/ FireSome
    \/ TapView1 \/ TapView2 \/ Dismiss \/ TypeInComposer \/ KeybarSend
    \/ OpenComposer \/ CloseComposer \/ SelectInput

KeyboardSpec == KeyboardInit /\ [][KeyboardNext]_keyboardVars

(* The main queue runs every block that was scheduled.                     *)
KeyboardFairness == WF_keyboardVars(FireSome)

-----------------------------------------------------------------------------
TypeOK ==
    /\ mode \in {1, 2, 3} /\ text2 \in BOOLEAN
    /\ responder \in {"none", "view1", "view2"}
    /\ focused \in {"none", "view1", "view2"}
    /\ latch \in BOOLEAN /\ viewLatch \in BOOLEAN
    /\ gen \in Nat /\ taps \in Nat /\ owner \in Nat
    /\ timers \subseteq [gen : Nat, tap : Nat]

(* The tinted button and the view that masks the next letter agree after   *)
(* every handler, whichever side ended the latch.                          *)
LatchMirrored == latch = viewLatch

(* Only the mode's own view has the keyboard: the terminal in mode 2, the  *)
(* composer in the others, however modes, chips and touches alternate.     *)
ResponderAllowed ==
    /\ responder = "view1" => mode = 2
    /\ responder = "view2" => mode # 2

(* A timer ends only the latch of its own tap: quick taps, or a latch that *)
(* was used and armed again, are not cut short by an older timer.          *)
TimerEndsOwnLatch ==
    [][\A t \in timers \ timers' : latch /\ ~latch' => t.tap = owner]_keyboardVars

(* Generations are not shared, and an armed latch has its timer coming.    *)
LatchTimed ==
    /\ \A t \in timers : t.gen <= gen
    /\ \A t \in timers : latch /\ t.gen = gen => t.tap = owner
    /\ latch => \E t \in timers : t.gen = gen

(* An armed latch ends, used or not.                                       *)
LatchEnds == latch ~> ~latch

=============================================================================
