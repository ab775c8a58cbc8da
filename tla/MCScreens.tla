----------------------------- MODULE MCScreens -----------------------------
(***************************************************************************)
(* The input chrome, the block list and onboarding for TLC.  They share no *)
(* state, so a behaviour exercises one of them, which Init chooses, while  *)
(* the other two stay as they begin.                                       *)
(***************************************************************************)
EXTENDS KeyboardInput, BlockList, Onboarding

VARIABLE shown   \* the screen that is exercised

screenVars == <<keyboardVars, blockListVars, onboardingVars, shown>>

Init ==
    /\ KeyboardInit /\ BlockListInit /\ OnboardingInit
    /\ shown \in {"keyboard", "block list", "onboarding"}

Next ==
    /\ UNCHANGED shown
    /\ \/ /\ shown = "keyboard" /\ KeyboardNext
          /\ UNCHANGED <<blockListVars, onboardingVars>>
       \/ /\ shown = "block list" /\ BlockListNext
          /\ UNCHANGED <<keyboardVars, onboardingVars>>
       \/ /\ shown = "onboarding" /\ OnboardingNext
          /\ UNCHANGED <<keyboardVars, blockListVars>>

(* No action with fairness can run in a screen as it begins, so what is    *)
(* asked of a screen that is not exercised holds by itself.                *)
Spec ==
    /\ Init /\ [][Next]_screenVars
    /\ KeyboardFairness /\ BlockListFairness /\ OnboardingFairness

=============================================================================
