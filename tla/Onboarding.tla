----------------------------- MODULE Onboarding -----------------------------
(***************************************************************************)
(* The first run: BtIosOnboardingFlowVC, a navigation stack of pages whose *)
(* coordinator keeps the answers, and LocalNetworkPrewarmer, which the     *)
(* last page asks to bring up the system's permission prompt.  Each tap on *)
(* that page starts a probe of its own: a Bonjour browser whose state      *)
(* changes race a timer for one continuation.  Everything runs on the main *)
(* actor; one action is one callback.                                      *)
(***************************************************************************)
EXTENDS Naturals, Sequences, SequencesExt

CONSTANTS
    None,       \* no answer
    MaxProbes   \* bound: taps that start a probe in one life of the app

ASSUME OnboardingAssumption ==
    None \notin {"mac", "other", "wifi", "remote"} /\ MaxProbes \in Nat

VARIABLES
    root,       \* the window's root: "flow", "hosts", or "gone" after a crash
    pages,      \* the navigation stack of the flow
    kind,       \* OnboardingState.host_kind
    location,   \* OnboardingState.location
    probes,     \* the calls of requestPermission
    granted,    \* the prewarmer's "permission seen" user default
    completed,  \* the user default onboardingCompleted
    fired       \* history: calls of on_completed in this life of the app

answers == <<kind, location>>
onboardingVars    == <<root, pages, answers, probes, granted, completed, fired>>

Numbers == 1 .. MaxProbes

(* at: how far the call is; timer: its timeout is still to fire; resumes:  *)
(* how often its continuation was resumed.                                 *)
Probe == [at : {"unused", "waiting", "answered", "returned"},
          answer : {"none", "granted", "denied", "unknown"},
          timer : BOOLEAN, resumes : Nat]

Unused  == [at |-> "unused", answer |-> "none", timer |-> FALSE, resumes |-> 0]
Started == [at |-> "waiting", answer |-> "none", timer |-> TRUE, resumes |-> 0]

Start ==
    /\ pages' = <<"kind">> /\ kind' = None /\ location' = None
    /\ probes' = [n \in Numbers |-> Unused] /\ fired' = 0

OnboardingInit ==
    /\ root = "flow" /\ pages = <<"kind">> /\ kind = None /\ location = None
    /\ probes = [n \in Numbers |-> Unused] /\ fired = 0
    /\ granted = FALSE /\ completed = FALSE

-----------------------------------------------------------------------------
(* The pages.                                                              *)

(* The last page asks for permission, or says "all set" for a remote host. *)
Permission(l) == IF l = "wifi" THEN "ask" ELSE "allset"

(* next_step_after_location *)
AfterLocation(k, l) == IF k = "mac" THEN "tutorial" ELSE Permission(l)

Shown(page) == root = "flow" /\ Last(pages) = page

(* host_kind_choice_cb *)
ChooseKind(k) ==
    /\ Shown("kind")
    /\ kind' = k
    /\ pages' = Append(pages, "location")
    /\ UNCHANGED <<root, location, probes, granted, completed, fired>>

(* Mutant: a location once given is kept.                                  *)
ChooseLocationOnce(l) ==
    /\ Shown("location")
    /\ location' = IF location = None THEN l ELSE location
    /\ pages' = Append(pages, AfterLocation(kind, l))
    /\ UNCHANGED <<root, kind, probes, granted, completed, fired>>

(* location_choice_cb *)
ChooseLocation(l) ==
    /\ Shown("location")
    /\ location' = l
    /\ pages' = Append(pages, AfterLocation(kind, l))
    /\ UNCHANGED <<root, kind, probes, granted, completed, fired>>

(* The navigation bar's Back, or the swipe.                                *)
Back ==
    /\ root = "flow" /\ Len(pages) > 1
    /\ pages' = Front(pages)
    /\ UNCHANGED <<root, answers, probes, granted, completed, fired>>

(* finish: the flow is recorded as completed, and on_completed has the app *)
(* release its handler and put the hosts list in the flow's place.  A      *)
(* second call works with a handler, and maybe a flow, that are gone: the  *)
(* app crashes, or builds the hosts list once more.                        *)
Finish ==
    /\ completed' = TRUE
    /\ fired' = fired + 1
    /\ \/ root' = "hosts"
       \/ fired > 0 /\ root' = "gone"

(* mac_tutorial_continue_cb *)
TutorialContinue ==
    /\ Shown("tutorial")
    /\ IF location = "wifi"
       THEN pages' = Append(pages, Permission(location))
            /\ UNCHANGED <<root, completed, fired>>
       ELSE Finish /\ UNCHANGED pages
    /\ UNCHANGED <<answers, probes, granted>>

PermissionShown == root = "flow" /\ Last(pages) \in {"ask", "allset"}

(* local_permission_continue_cb, whose page may show either text, for a    *)
(* remote host.                                                            *)
AllSetContinue ==
    /\ PermissionShown
    /\ location # "wifi"
    /\ Finish
    /\ UNCHANGED <<pages, answers, probes, granted>>

(* ... and on the same Wi-Fi: nothing keeps the button from being tapped   *)
(* again while a probe is under way.  The probe's task has a browser and a *)
(* timer running when it first waits.                                      *)
RequestPermission(n) ==
    /\ PermissionShown
    /\ location = "wifi"
    /\ probes[n].at = "unused" /\ \A m \in 1 .. n - 1 : probes[m].at # "unused"
    /\ probes' = [probes EXCEPT ![n] = Started]
    /\ UNCHANGED <<root, pages, answers, granted, completed, fired>>

-----------------------------------------------------------------------------
(* requestPermission.                                                      *)

(* ResolvedFlag: only the first to set it resumes the continuation.        *)
Resolved(p, answer) ==
    IF p.at # "waiting" THEN p
    ELSE [at |-> "answered", answer |-> answer, timer |-> p.timer,
          resumes |-> p.resumes + 1]

(* What a probe is once its timeout has fired.                             *)
TimerSpent(p) == [at |-> p.at, answer |-> p.answer, timer |-> FALSE, resumes |-> p.resumes]

(* The browser is ready or failed, which counts as granted unless the      *)
(* policy denies it.  A browser that merely waits says nothing.            *)
BrowserSettles(n) ==
    /\ root # "gone" /\ probes[n].at \in {"waiting", "answered"}
    /\ \E answer \in {"granted", "denied"} :
          probes' = [probes EXCEPT ![n] = Resolved(@, answer)]
    /\ UNCHANGED <<root, pages, answers, granted, completed, fired>>

(* Mutant: the timeout is left to the system.                              *)
TimerIgnored(n) ==
    /\ root # "gone" /\ probes[n].timer
    /\ probes' = [probes EXCEPT ![n] = TimerSpent(@)]
    /\ UNCHANGED <<root, pages, answers, granted, completed, fired>>

TimerFires(n) ==
    /\ root # "gone" /\ probes[n].timer
    /\ probes' = [probes EXCEPT ![n] = TimerSpent(Resolved(@, "unknown"))]
    /\ UNCHANGED <<root, pages, answers, granted, completed, fired>>

(* The continuation returns: the browser is cancelled, a grant remembered, *)
(* and the bridge calls local_permission_probe_done_cb, on whatever page   *)
(* the user is by now.                                                     *)
ProbeReturns(n) ==
    /\ root # "gone" /\ probes[n].at = "answered"
    /\ probes' = [probes EXCEPT ![n].at = "returned"]
    /\ granted' = (granted \/ probes[n].answer = "granted")
    /\ Finish
    /\ UNCHANGED <<pages, answers>>

(* The app dies, or is gone already, and is started again.                 *)
Relaunch ==
    /\ root' = IF completed THEN "hosts" ELSE "flow"
    /\ Start
    /\ UNCHANGED <<granted, completed>>

OnboardingNext ==
    \/ \E k \in {"mac", "other"} : ChooseKind(k)
    \/ \E l \in {"wifi", "remote"} : ChooseLocation(l)
    \/ Back \/ TutorialContinue \/ AllSetContinue
    \/ \E n \in Numbers :
          RequestPermission(n) \/ BrowserSettles(n) \/ TimerFires(n) \/ ProbeReturns(n)
    \/ Relaunch

OnboardingSpec == OnboardingInit /\ [][OnboardingNext]_onboardingVars

(* The sleep ends and the main actor runs a task that was resumed; the     *)
(* system may leave the browser without an answer for ever.                *)
OnboardingFairness ==
    \A n \in Numbers :
        WF_onboardingVars(TimerFires(n)) /\ WF_onboardingVars(ProbeReturns(n))

-----------------------------------------------------------------------------
(* The pages an answered flow shows.                                       *)
Path ==
    <<"kind", "location", AfterLocation(kind, location)>>
    \o IF kind = "mac" /\ location = "wifi" THEN <<"ask">> ELSE << >>

(* Whatever the user goes back to and answers again, the stack is the path *)
(* of the answers kept: no page of earlier answers is left, no callback    *)
(* finds its answer missing, and the page that announces the prompt is the *)
(* one whose button brings it up.                                          *)
PagesFollowAnswers ==
    /\ IsPrefix(pages, Path)
    /\ Len(pages) > 1 => kind # None
    /\ Len(pages) > 2 => location # None

(* A continuation is resumed once, although browser and timer both answer. *)
ResumedOnce == \A n \in Numbers : probes[n].resumes <= 1

(* A user who asked for permission is not left on that page for ever: the  *)
(* onboarding completes even when the prompt is never answered.            *)
AskEnds ==
    \A n \in Numbers :
        probes[n].at \in {"waiting", "answered"} ~> completed \/ probes[n].at = "unused"

(* The coordinator's header: the completion callback is fired once.        *)
CompletedOnce == fired <= 1

=============================================================================
