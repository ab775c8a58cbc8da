---------------------------- MODULE ScreenProofs ----------------------------
(***************************************************************************)
(* Proofs about the screens: the input chrome for any number of taps on    *)
(* Ctrl, onboarding for any number of probes, the block list for any       *)
(* heights, blocks and velocities.  The three share nothing.               *)
(***************************************************************************)
EXTENDS KeyboardInput, Onboarding, BlockList, SeqFoldsTheorems, TLAPS

-----------------------------------------------------------------------------
(* KeyboardInput.  The inductive invariant is TypeOK with LatchMirrored,   *)
(* ResponderAllowed and LatchTimed: a timer ends the latch only when its   *)
(* generation is still the current one, so what has to be known of it is   *)
(* whose tap that was.                                                     *)

InputInv == TypeOK /\ LatchMirrored /\ ResponderAllowed /\ LatchTimed

(* The initial state satisfies every part.                                 *)
LEMMA KeyboardStarts == KeyboardInit => InputInv
<1> SUFFICES ASSUME KeyboardInit PROVE InputInv
  OBVIOUS
<1>1. TypeOK
  BY DEF KeyboardInit, TypeOK
<1>2. LatchMirrored /\ ResponderAllowed /\ LatchTimed
  BY DEF KeyboardInit, LatchMirrored, ResponderAllowed, LatchTimed
<1> QED
  BY <1>1, <1>2 DEF InputInv

(* What one action does to the latch, stated apart from who has the        *)
(* keyboard: the actions below leave the latch and its timers alone.       *)
FocusOnly ==
    \/ TapView1 \/ TapView2 \/ Dismiss \/ TypeInComposer \/ KeybarSend
    \/ OpenComposer \/ CloseComposer \/ SelectInput

(* No step of the keyboard's owner touches the latch.                      *)
LEMMA FocusKeepsLatch == FocusOnly => UNCHANGED latchVars
BY DEF FocusOnly, TapView1, TapView2, Dismiss, TypeInComposer, KeybarSend,
       OpenComposer, CloseComposer, SelectInput, latchVars

(* The others leave the keyboard's owner and the text alone.               *)
LatchOnly == KeybarCtrl \/ KeybarKey \/ InsertText \/ FireSome

(* No step of the latch touches the owner.                                 *)
LEMMA LatchKeepsFocus == LatchOnly => UNCHANGED <<focusVars, text2>>
BY DEF LatchOnly, KeybarCtrl, KeybarKey, InsertText, FireSome, Fire

(* A step is of one kind or the other.                                     *)
LEMMA StepKinds == [KeyboardNext]_keyboardVars => LatchOnly \/ FocusOnly \/ UNCHANGED keyboardVars
BY DEF KeyboardNext, LatchOnly, FocusOnly

(* The types of who has the keyboard, and that it is the mode's own view.  *)
FocusOK ==
    /\ mode \in {1, 2, 3} /\ text2 \in BOOLEAN
    /\ responder \in {"none", "view1", "view2"}
    /\ focused \in {"none", "view1", "view2"}
    /\ ResponderAllowed

(* Every step of the keyboard's owner keeps its half.                      *)
LEMMA FocusStep == FocusOK /\ FocusOnly => FocusOK'
<1> SUFFICES ASSUME FocusOK, FocusOnly PROVE FocusOK'
  OBVIOUS
<1> USE DEF FocusOK, ResponderAllowed, focusVars
<1>1. CASE TapView1
  BY <1>1 DEF TapView1
<1>2. CASE TapView2
  BY <1>2 DEF TapView2, FocusView2
<1>3. CASE Dismiss
  BY <1>3 DEF Dismiss
<1>4. CASE TypeInComposer
  BY <1>4 DEF TypeInComposer
<1>5. CASE KeybarSend
  BY <1>5 DEF KeybarSend
<1>6. CASE OpenComposer
  BY <1>6 DEF OpenComposer, SetMode, FocusView2
<1>7. CASE CloseComposer
  BY <1>7 DEF CloseComposer
<1>8. CASE SelectInput
  BY <1>8 DEF SelectInput, SetMode, FocusView2
<1> QED
  BY <1>1, <1>2, <1>3, <1>4, <1>5, <1>6, <1>7, <1>8 DEF FocusOnly

(* The types of the latch, its mirror and its timers.                      *)
LatchOK ==
    /\ latch \in BOOLEAN /\ viewLatch \in BOOLEAN
    /\ gen \in Nat /\ taps \in Nat /\ owner \in Nat
    /\ timers \subseteq [gen : Nat, tap : Nat]
    /\ LatchMirrored /\ LatchTimed

(* The latch ends, by a key or a letter, and the generation moves on.      *)
Ended ==
    /\ latch' = FALSE /\ viewLatch' = FALSE /\ gen' = gen + 1 /\ taps' \in Nat
    /\ timers' = timers /\ owner' = owner

(* A latch that has ended owes its timers nothing.                         *)
LEMMA EndedStep == LatchOK /\ Ended => LatchOK'
<1> SUFFICES ASSUME LatchOK, Ended PROVE LatchOK'
  OBVIOUS
<1>1. \A t \in timers : t \in [gen : Nat, tap : Nat] /\ t.gen \in Nat /\ t.gen <= gen
  BY DEF LatchOK, LatchTimed
<1>2. \A t \in timers' : t.gen <= gen'
  BY <1>1 DEF Ended, LatchOK
<1>3. LatchTimed' /\ LatchMirrored'
  BY <1>2 DEF LatchTimed, LatchMirrored, Ended
<1>4. latch' \in BOOLEAN /\ viewLatch' \in BOOLEAN /\ taps' \in Nat
  BY DEF Ended
<1>5. gen' \in Nat /\ owner' \in Nat /\ timers' \subseteq [gen : Nat, tap : Nat]
  BY DEF LatchOK, Ended
<1> QED
  BY <1>3, <1>4, <1>5 DEF LatchOK

(* Every step of the latch keeps its half.                                 *)
LEMMA LatchStep == LatchOK /\ LatchOnly => LatchOK'
<1> SUFFICES ASSUME LatchOK, LatchOnly PROVE LatchOK'
  OBVIOUS
<1> USE DEF LatchOK
<1>0. \A t \in timers : t \in [gen : Nat, tap : Nat] /\ t.gen \in Nat /\ t.gen <= gen
  BY DEF LatchTimed
<1>2. CASE KeybarCtrl
  <2>1. CASE latch
    <3>1. /\ timers' = timers /\ owner' = owner
          /\ gen' = gen + 1 /\ taps' = taps + 1
          /\ latch' = FALSE /\ viewLatch' = FALSE
      BY <1>2, <2>1 DEF KeybarCtrl
    <3>2. Ended
      BY <3>1 DEF Ended
    <3> QED
      BY <3>2, EndedStep
  <2>2. CASE ~latch
    <3> DEFINE own == [gen |-> gen + 1, tap |-> taps + 1]
    <3>1. /\ timers' = timers \cup {own}
          /\ gen' = gen + 1 /\ taps' = taps + 1 /\ owner' = taps + 1
          /\ latch' = TRUE /\ viewLatch' = TRUE
      BY <1>2, <2>2 DEF KeybarCtrl
    <3>2. own \in [gen : Nat, tap : Nat] /\ own.gen = gen' /\ own.tap = owner'
      BY <3>1
    <3> HIDE DEF own
    <3>3. \A t \in timers : t.gen < gen'
      BY <3>1, <1>0
    <3>4. \A t \in timers' : t = own \/ (t \in timers /\ t.gen < gen')
      BY <3>1, <3>3
    <3>5. timers' \subseteq [gen : Nat, tap : Nat]
      BY <3>1, <3>2
    <3>6. /\ \A t \in timers' : t.gen <= gen'
          /\ \A t \in timers' : t.gen = gen' => t.tap = owner'
      BY <3>1, <3>2, <3>4, <1>0
    <3>7. own \in timers'
      BY <3>1
    <3>8. LatchTimed'
      BY <3>2, <3>6, <3>7 DEF LatchTimed
    <3> QED
      BY <3>1, <3>5, <3>8 DEF LatchMirrored
  <2> QED
    BY <2>1, <2>2
<1>3. CASE KeybarKey
  <2>1. Ended
    BY <1>3 DEF KeybarKey, Ended
  <2> QED
    BY <2>1, EndedStep
<1>4. CASE InsertText
  <2>1. Ended
    BY <1>4 DEF InsertText, LatchMirrored, Ended
  <2> QED
    BY <2>1, EndedStep
<1>5. CASE FireSome
  <2>1. PICK t \in timers : Fire(t)
    BY <1>5 DEF FireSome
  <2>2. timers' = timers \ {t} /\ UNCHANGED <<gen, taps, owner>>
    BY <2>1 DEF Fire
  <2>3. CASE t.gen = gen /\ latch
    <3>1. latch' = FALSE /\ viewLatch' = FALSE
      BY <2>1, <2>3 DEF Fire
    <3>2. LatchTimed'
      BY <1>0, <2>2, <3>1 DEF LatchTimed
    <3> QED
      BY <2>2, <3>1, <3>2 DEF LatchMirrored
  <2>4. CASE ~(t.gen = gen /\ latch)
    <3>1. UNCHANGED <<latch, viewLatch>>
      BY <2>1, <2>4 DEF Fire
    <3>2. latch => \E u \in timers : u.gen = gen /\ u # t
      BY <2>4 DEF LatchTimed
    <3>3. LatchTimed'
      BY <2>2, <3>1, <3>2 DEF LatchTimed
    <3> QED
      BY <2>2, <3>1, <3>3 DEF LatchMirrored
  <2> QED
    BY <2>3, <2>4
<1> QED
  BY <1>2, <1>3, <1>4, <1>5 DEF LatchOnly

(* The two halves make the invariant.                                      *)
LEMMA Halves == InputInv <=> FocusOK /\ LatchOK
BY DEF InputInv, FocusOK, LatchOK, TypeOK

(* A step disturbs one half and leaves the other alone.                    *)
LEMMA InvStep == InputInv /\ [KeyboardNext]_keyboardVars => InputInv'
<1> SUFFICES ASSUME FocusOK, LatchOK, [KeyboardNext]_keyboardVars PROVE FocusOK' /\ LatchOK'
  BY Halves DEF InputInv, FocusOK, LatchOK, TypeOK
<1>1. CASE LatchOnly
  <2>1. UNCHANGED <<focusVars, text2>>
    BY <1>1, LatchKeepsFocus
  <2>2. FocusOK'
    BY <2>1 DEF FocusOK, ResponderAllowed, focusVars
  <2> QED
    BY <1>1, <2>2, LatchStep
<1>2. CASE FocusOnly
  <2>1. UNCHANGED latchVars
    BY <1>2, FocusKeepsLatch
  <2>2. LatchOK'
    BY <2>1 DEF LatchOK, LatchMirrored, LatchTimed, latchVars
  <2> QED
    BY <1>2, <2>2, FocusStep
<1>3. CASE UNCHANGED keyboardVars
  BY <1>3 DEF keyboardVars, focusVars, latchVars, FocusOK, LatchOK, ResponderAllowed,
              LatchMirrored, LatchTimed
<1> QED
  BY <1>1, <1>2, <1>3, StepKinds

(* The invariant of every behaviour.                                       *)
LEMMA InputAlways == KeyboardSpec => []InputInv
<1>1. KeyboardInit => InputInv
  BY KeyboardStarts
<1>2. InputInv /\ [KeyboardNext]_keyboardVars => InputInv'
  BY InvStep
<1> QED
  BY <1>1, <1>2, PTL DEF KeyboardSpec

-----------------------------------------------------------------------------
(* The key bar's tint and the view that masks the next letter always agree *)
(* on whether Ctrl is latched.                                             *)
THEOREM LatchesAgree == KeyboardSpec => []LatchMirrored
<1>1. InputInv => LatchMirrored
  BY DEF InputInv
<1> QED
  BY <1>1, InputAlways, PTL

(* The first responder is a view the mode lets type.                       *)
THEOREM KeyboardFollowsMode == KeyboardSpec => []ResponderAllowed
<1>1. InputInv => ResponderAllowed
  BY DEF InputInv
<1> QED
  BY <1>1, InputAlways, PTL

(* What a timer may do to a latch in one step.                             *)
EndsOwn == \A t \in timers \ timers' : latch /\ ~latch' => t.tap = owner

(* Only the timer that fires leaves, and only if its generation is current.*)
LEMMA EndsOwnStep == InputInv /\ [KeyboardNext]_keyboardVars => EndsOwn
<1> SUFFICES ASSUME InputInv, [KeyboardNext]_keyboardVars,
                    NEW t \in timers, t \notin timers', latch, ~latch'
             PROVE  t.tap = owner
  BY DEF EndsOwn
<1> USE DEF InputInv, LatchTimed, TypeOK
<1>1. FireSome
  <2>1. ~UNCHANGED keyboardVars
    BY DEF keyboardVars, latchVars
  <2>2. ~FocusOnly
    BY FocusKeepsLatch DEF latchVars
  <2>3. ~KeybarCtrl /\ ~KeybarKey /\ ~InsertText
    BY DEF KeybarCtrl, KeybarKey, InsertText
  <2> QED
    BY <2>1, <2>2, <2>3, StepKinds DEF LatchOnly
<1>2. PICK u \in timers : Fire(u)
  BY <1>1 DEF FireSome
<1>3. u = t
  BY <1>2 DEF Fire
<1>4. t.gen = gen
  BY <1>2, <1>3 DEF Fire
<1> QED
  BY <1>4

(* No timer of an earlier tap ever ends the latch of a later one.          *)
THEOREM TimersEndTheirOwn == KeyboardSpec => TimerEndsOwnLatch
<1>1. InputInv /\ [KeyboardNext]_keyboardVars => [EndsOwn]_keyboardVars
  BY EndsOwnStep
<1> QED
  BY <1>1, InputAlways, PTL DEF KeyboardSpec, TimerEndsOwnLatch, EndsOwn

-----------------------------------------------------------------------------
(* Onboarding.                                                             *)

(* The continuation of a probe was resumed exactly when it is answered.    *)
Answered(p) == p.resumes = IF p.at \in {"unused", "waiting"} THEN 0 ELSE 1

ProbesInv ==
    /\ probes \in [Numbers -> Probe]
    /\ \A n \in Numbers : Answered(probes[n])

(* A probe whose timer has fired remains answered if it was.               *)
LEMMA TimerOff ==
    ASSUME NEW q \in Probe, Answered(q)
    PROVE  TimerSpent(q) \in Probe /\ Answered(TimerSpent(q))
<1>1. /\ q.at \in {"unused", "waiting", "answered", "returned"}
      /\ q.answer \in {"none", "granted", "denied", "unknown"}
      /\ q.resumes \in Nat
  BY DEF Probe
<1>2. TimerSpent(q).at = q.at /\ TimerSpent(q).resumes = q.resumes
  BY DEF TimerSpent
<1> QED BY <1>1, <1>2 DEF Probe, TimerSpent, Answered

(* The first answer resumes a probe, a later one does not.                 *)
LEMMA ResolvedKeepsAnswered ==
    ASSUME NEW p \in Probe, Answered(p), p.at # "unused",
           NEW answer \in {"granted", "denied", "unknown"}
    PROVE  Resolved(p, answer) \in Probe /\ Answered(Resolved(p, answer))
<1>1. CASE p.at # "waiting"
  BY <1>1 DEF Resolved
<1>2. CASE p.at = "waiting"
  <2>1. p.resumes = 0 /\ p.timer \in BOOLEAN
    BY <1>2 DEF Answered, Probe
  <2>2. Resolved(p, answer) = [at |-> "answered", answer |-> answer,
                               timer |-> p.timer, resumes |-> 1]
    BY <1>2, <2>1 DEF Resolved
  <2> QED BY <2>1, <2>2 DEF Probe, Answered
<1> QED BY <1>1, <1>2

(* Pages and probes other than n stay: what an action on one probe keeps.  *)
LEMMA OneProbe ==
    ASSUME ProbesInv, NEW n \in Numbers, NEW p \in Probe, Answered(p),
           probes' = [probes EXCEPT ![n] = p]
    PROVE  ProbesInv'
  BY DEF ProbesInv

(* A continuation is resumed once, however often the browser changes its   *)
(* state and whether or not the timer comes before it.                     *)
THEOREM ContinuationsResumeOnce == OnboardingSpec => []ResumedOnce
<1>1. OnboardingInit => ProbesInv
  BY DEF OnboardingInit, ProbesInv, Probe, Unused, Answered
<1>2. ProbesInv /\ [OnboardingNext]_onboardingVars => ProbesInv'
  <2> SUFFICES ASSUME ProbesInv, [OnboardingNext]_onboardingVars PROVE ProbesInv'
    OBVIOUS
  <2>a. \A n \in Numbers : probes[n] \in Probe /\ Answered(probes[n])
    BY DEF ProbesInv
  <2>1. ASSUME UNCHANGED probes PROVE ProbesInv'
    BY <2>1 DEF ProbesInv
  <2>2. ASSUME NEW n \in Numbers, RequestPermission(n) PROVE ProbesInv'
    <3>1. Started \in Probe /\ Answered(Started)
      BY DEF Started, Probe, Answered
    <3> QED BY <2>2, <3>1, OneProbe DEF RequestPermission
  <2>3. ASSUME NEW n \in Numbers, BrowserSettles(n) PROVE ProbesInv'
    <3>1. PICK answer \in {"granted", "denied"} :
             probes' = [probes EXCEPT ![n] = Resolved(probes[n], answer)]
      BY <2>3, <2>a DEF BrowserSettles, ProbesInv
    <3>2. probes[n].at # "unused"
      BY <2>3 DEF BrowserSettles
    <3> QED BY <2>a, <3>1, <3>2, ResolvedKeepsAnswered, OneProbe
  <2>4. ASSUME NEW n \in Numbers, TimerFires(n) PROVE ProbesInv'
    <3>1. probes' = [probes EXCEPT ![n] = TimerSpent(Resolved(probes[n], "unknown"))]
      BY <2>4, <2>a DEF TimerFires, ProbesInv
    <3>2. Resolved(probes[n], "unknown") \in Probe /\ Answered(Resolved(probes[n], "unknown"))
      <4>1. CASE probes[n].at # "unused"
        BY <2>a, <4>1, ResolvedKeepsAnswered
      <4>2. CASE probes[n].at = "unused"
        BY <2>a, <4>2 DEF Resolved
      <4> QED BY <4>1, <4>2
    <3>3. /\ TimerSpent(Resolved(probes[n], "unknown")) \in Probe
          /\ Answered(TimerSpent(Resolved(probes[n], "unknown")))
      BY <3>2, TimerOff
    <3> QED BY <3>1, <3>3, OneProbe
  <2>5. ASSUME NEW n \in Numbers, ProbeReturns(n) PROVE ProbesInv'
    <3> DEFINE p == [probes[n] EXCEPT !.at = "returned"]
    <3>1. probes' = [probes EXCEPT ![n] = p]
      BY <2>5, <2>a DEF ProbeReturns, ProbesInv
    <3>2. p \in Probe /\ Answered(p)
      BY <2>5, <2>a DEF ProbeReturns, Probe, Answered
    <3> HIDE DEF p
    <3> QED BY <3>1, <3>2, OneProbe
  <2>6. CASE Relaunch
    BY <2>6 DEF Relaunch, Start, ProbesInv, Probe, Unused, Answered
  <2> QED
    BY <2>1, <2>2, <2>3, <2>4, <2>5, <2>6
       DEF OnboardingNext, onboardingVars, ChooseKind, ChooseLocation, Back, TutorialContinue,
           AllSetContinue
<1>3. ProbesInv => ResumedOnce
  BY DEF ProbesInv, ResumedOnce, Answered, Probe
<1> QED BY <1>1, <1>2, <1>3, PTL DEF OnboardingSpec

-----------------------------------------------------------------------------
(* The stacks the flow can show, each with the answers it stands for.      *)
Stacks ==
    \/ pages = <<"kind">>
    \/ pages = <<"kind", "location">> /\ kind \in {"mac", "other"}
    \/ /\ pages = <<"kind", "location", "tutorial">>
       /\ kind = "mac" /\ location \in {"wifi", "remote"}
    \/ /\ pages = <<"kind", "location", "tutorial", "ask">>
       /\ kind = "mac" /\ location = "wifi"
    \/ /\ pages = <<"kind", "location", "ask">>
       /\ kind = "other" /\ location = "wifi"
    \/ /\ pages = <<"kind", "location", "allset">>
       /\ kind = "other" /\ location = "remote"

(* Last, Front and Append on these stacks.                                 *)
LEMMA Ends ==
    /\ Last(<<"kind">>) = "kind"
    /\ Last(<<"kind", "location">>) = "location"
    /\ Last(<<"kind", "location", "tutorial">>) = "tutorial"
    /\ Last(<<"kind", "location", "tutorial", "ask">>) = "ask"
    /\ Last(<<"kind", "location", "ask">>) = "ask"
    /\ Last(<<"kind", "location", "allset">>) = "allset"
  BY DEF Last

(* A sequence without its last element,                                    *)
LEMMA FrontIs ==
    ASSUME NEW S, NEW s \in Seq(S), NEW t \in Seq(S), Len(s) = Len(t) + 1,
           \A i \in 1 .. Len(t) : s[i] = t[i]
    PROVE  Front(s) = t
<1>1. Front(s) = SubSeq(s, 1, Len(t))
  BY DEF Front
<1>2. \A i \in 1 .. Len(t) : s[i] \in S
  BY ElementOfSeq
<1>3. /\ Front(s) \in Seq(S) /\ Len(Front(s)) = Len(t)
      /\ \A i \in 1 .. Len(t) : Front(s)[i] = t[i]
  BY <1>1, <1>2, SubSeqProperties, 1 \in Int, Len(t) \in Nat, LenProperties
<1> QED BY <1>3, SeqEqual

(* and with one more.                                                      *)
LEMMA AppendIs ==
    ASSUME NEW S, NEW s \in Seq(S), NEW x \in S, NEW t \in Seq(S),
           Len(t) = Len(s) + 1, t[Len(t)] = x, \A i \in 1 .. Len(s) : t[i] = s[i]
    PROVE  Append(s, x) = t
<1>1. /\ Append(s, x) \in Seq(S) /\ Len(Append(s, x)) = Len(s) + 1
      /\ \A i \in 1 .. Len(s) : Append(s, x)[i] = s[i]
      /\ Append(s, x)[Len(s) + 1] = x
  BY AppendProperties
<1>2. \A i \in 1 .. Len(t) : Append(s, x)[i] = t[i]
  BY <1>1, LenProperties
<1> QED BY <1>1, <1>2, SeqEqual

Pages == {"kind", "location", "tutorial", "ask", "allset"}

(* The stacks of pages that differ by one: of two pages,                   *)
LEMMA Stack2 ==
    LET s == <<"kind">>
        t == <<"kind", "location">>
    IN  /\ s \in Seq(Pages) /\ t \in Seq(Pages) /\ Len(t) = Len(s) + 1
        /\ \A i \in 1 .. Len(s) : t[i] = s[i]
        /\ t[Len(t)] = "location"
  BY DEF Pages

(* of three,                                                               *)
LEMMA Stack3 ==
    ASSUME NEW x \in Pages
    PROVE  LET s == <<"kind", "location">>
               t == <<"kind", "location", x>>
           IN  /\ s \in Seq(Pages) /\ t \in Seq(Pages) /\ Len(t) = Len(s) + 1
               /\ \A i \in 1 .. Len(s) : t[i] = s[i]
               /\ t[Len(t)] = x
  BY DEF Pages

(* and of four.                                                            *)
LEMMA Stack4 ==
    LET s == <<"kind", "location", "tutorial">>
        t == <<"kind", "location", "tutorial", "ask">>
    IN  /\ s \in Seq(Pages) /\ t \in Seq(Pages) /\ Len(t) = Len(s) + 1
        /\ \A i \in 1 .. Len(s) : t[i] = s[i]
        /\ t[Len(t)] = "ask"
  BY DEF Pages

(* What Back makes of them,                                                *)
LEMMA Fronts ==
    /\ Front(<<"kind", "location">>) = <<"kind">>
    /\ \A x \in Pages : Front(<<"kind", "location", x>>) = <<"kind", "location">>
    /\ Front(<<"kind", "location", "tutorial", "ask">>) = <<"kind", "location", "tutorial">>
<1>1. Front(<<"kind", "location">>) = <<"kind">>
  BY Stack2, FrontIs
<1>2. ASSUME NEW x \in Pages
      PROVE  Front(<<"kind", "location", x>>) = <<"kind", "location">>
  BY Stack3, FrontIs
<1>3. Front(<<"kind", "location", "tutorial", "ask">>) = <<"kind", "location", "tutorial">>
  BY Stack4, FrontIs
<1> QED BY <1>1, <1>2, <1>3

(* and what a push does.                                                   *)
LEMMA Appends ==
    /\ Append(<<"kind">>, "location") = <<"kind", "location">>
    /\ \A x \in Pages : Append(<<"kind", "location">>, x) = <<"kind", "location", x>>
    /\ Append(<<"kind", "location", "tutorial">>, "ask")
       = <<"kind", "location", "tutorial", "ask">>
<1>0. "location" \in Pages /\ "ask" \in Pages
  BY DEF Pages
<1>1. Append(<<"kind">>, "location") = <<"kind", "location">>
  BY <1>0, Stack2, AppendIs
<1>2. ASSUME NEW x \in Pages
      PROVE  Append(<<"kind", "location">>, x) = <<"kind", "location", x>>
  BY <1>2, Stack3, AppendIs
<1>3. Append(<<"kind", "location", "tutorial">>, "ask")
      = <<"kind", "location", "tutorial", "ask">>
  BY <1>0, Stack4, AppendIs
<1> QED BY <1>1, <1>2, <1>3

(* Each step leads from one of the stacks to another.                      *)
LEMMA StacksStep == Stacks /\ [OnboardingNext]_onboardingVars => Stacks'
<1> SUFFICES ASSUME Stacks, [OnboardingNext]_onboardingVars PROVE Stacks'
  OBVIOUS
<1>1. ASSUME UNCHANGED <<pages, answers>> PROVE Stacks'
  BY <1>1 DEF Stacks, answers
<1>2. ASSUME NEW k \in {"mac", "other"}, ChooseKind(k) PROVE Stacks'
  <2>1. pages = <<"kind">>
    BY <1>2, Ends DEF ChooseKind, Shown, Stacks
  <2> QED BY <1>2, <2>1, Appends DEF ChooseKind, Stacks
<1>3. ASSUME NEW l \in {"wifi", "remote"}, ChooseLocation(l) PROVE Stacks'
  <2>1. pages = <<"kind", "location">> /\ kind \in {"mac", "other"}
    BY <1>3, Ends DEF ChooseLocation, Shown, Stacks
  <2>2. pages' = <<"kind", "location", AfterLocation(kind, l)>>
    BY <1>3, <2>1, Appends DEF ChooseLocation, AfterLocation, Permission, Pages
  <2> QED BY <1>3, <2>1, <2>2 DEF ChooseLocation, AfterLocation, Permission, Stacks
<1>4. CASE Back
  <2>1. pages # <<"kind">>
    <3>1. Len(<<"kind">>) = 1
      OBVIOUS
    <3>2. Len(pages) > 1
      BY <1>4 DEF Back
    <3>3. ASSUME pages = <<"kind">> PROVE FALSE
      <4>1. Len(pages) = 1
        BY <3>1, <3>3
      <4> QED BY <3>2, <4>1
    <3> QED BY <3>3
  <2> QED BY <1>4, <2>1, Fronts DEF Back, Stacks, answers, Pages
<1>5. CASE TutorialContinue
  <2>1. /\ pages = <<"kind", "location", "tutorial">>
        /\ kind = "mac" /\ location \in {"wifi", "remote"}
    BY <1>5, Ends DEF TutorialContinue, Shown, Stacks
  <2>2. CASE location = "wifi"
    BY <1>5, <2>1, <2>2, Appends DEF TutorialContinue, Permission, Stacks, answers
  <2>3. CASE location # "wifi"
    BY <1>5, <2>1, <2>3, <1>1 DEF TutorialContinue
  <2> QED BY <2>2, <2>3
<1>6. CASE Relaunch
  BY <1>6 DEF Relaunch, Start, Stacks
<1>7. CASE AllSetContinue
  BY <1>7, <1>1 DEF AllSetContinue
<1>8. ASSUME NEW n \in Numbers,
             \/ RequestPermission(n) \/ BrowserSettles(n)
             \/ TimerFires(n) \/ ProbeReturns(n)
      PROVE  Stacks'
  BY <1>8, <1>1 DEF RequestPermission, BrowserSettles, TimerFires, ProbeReturns
<1>9. CASE UNCHANGED onboardingVars
  BY <1>9, <1>1 DEF onboardingVars
<1> QED BY <1>2, <1>3, <1>4, <1>5, <1>6, <1>7, <1>8, <1>9 DEF OnboardingNext

(* The stacks follow the answers.                                          *)
LEMMA StacksOnPath == Stacks => PagesFollowAnswers
<1> SUFFICES ASSUME Stacks PROVE PagesFollowAnswers
  OBVIOUS
<1>1. None \notin {"mac", "other", "wifi", "remote"}
  BY OnboardingAssumption
<1>2. CASE pages = <<"kind">>
  BY <1>2 DEF PagesFollowAnswers, Path, IsPrefix
<1>3. CASE pages = <<"kind", "location">> /\ kind \in {"mac", "other"}
  BY <1>1, <1>3 DEF PagesFollowAnswers, Path, IsPrefix
<1>4. CASE /\ pages = <<"kind", "location", "tutorial">>
           /\ kind = "mac" /\ location \in {"wifi", "remote"}
  BY <1>1, <1>4 DEF PagesFollowAnswers, Path, IsPrefix, AfterLocation
<1>5. CASE /\ pages = <<"kind", "location", "tutorial", "ask">>
           /\ kind = "mac" /\ location = "wifi"
  BY <1>1, <1>5 DEF PagesFollowAnswers, Path, IsPrefix, AfterLocation
<1>6. CASE /\ pages = <<"kind", "location", "ask">>
           /\ kind = "other" /\ location = "wifi"
  BY <1>1, <1>6 DEF PagesFollowAnswers, Path, IsPrefix, AfterLocation, Permission
<1>7. CASE /\ pages = <<"kind", "location", "allset">>
           /\ kind = "other" /\ location = "remote"
  BY <1>1, <1>7 DEF PagesFollowAnswers, Path, IsPrefix, AfterLocation, Permission
<1> QED BY <1>2, <1>3, <1>4, <1>5, <1>6, <1>7 DEF Stacks

(* The pages shown are always the path of the answers kept.                *)
THEOREM PagesMatch == OnboardingSpec => []PagesFollowAnswers
<1>1. OnboardingInit => Stacks
  BY DEF OnboardingInit, Stacks
<1> QED BY <1>1, StacksStep, StacksOnPath, PTL DEF OnboardingSpec

-----------------------------------------------------------------------------
(* BlockList.                                                              *)

(* Nothing carries the list on while a finger is on it.                    *)
AnchorInv ==
    /\ viewport \in Nat
    /\ panning \in BOOLEAN
    /\ panning => velocity = 0
    /\ AnchorKept

(* Where an anchor that does not follow the bottom is applied.             *)
LEMMA AppliedAnchor ==
    ASSUME NEW y, NEW pos, NEW bs, NEW height, height # 0, pos # FollowsBottom
    PROVE  Applied(y, pos, 0, bs, height) = AtMost(pos, MaxOffset(bs, height))
  BY DEF Applied

(* Whatever list and height refresh_inner finds.                           *)
LEMMA RefreshKeepsAnchor ==
    ASSUME AnchorInv, NEW bs, NEW height \in Nat, Refresh(bs, height)
    PROVE  AnchorInv'
<1>1. viewport' = height /\ blocks' = bs /\ UNCHANGED <<velocity, panning>>
  BY DEF Refresh
<1>2. offset' = Applied(offset, position', velocity, bs, height)
  BY DEF Refresh
<1>3. AnchorKept'
  <2> SUFFICES ASSUME velocity' = 0, viewport' > 0, position' # FollowsBottom
               PROVE  offset' = AtMost(position', MaxOffset(blocks', viewport'))
    BY DEF AnchorKept
  <2>1. height # 0 /\ velocity = 0
    BY <1>1
  <2> QED BY <1>1, <1>2, <2>1, AppliedAnchor
<1> QED BY <1>1, <1>3 DEF AnchorInv

(* A frame of momentum, wherever it goes.                                  *)
LEMMA FrameKeepsAnchor ==
    ASSUME AnchorInv, NEW raw, NEW v, Frame(raw, v), velocity # 0,
           UNCHANGED <<blocks, viewport, panning>>
    PROVE  AnchorInv'
<1> DEFINE y == Clamp(raw, blocks, viewport)
<1>0. ~ panning
  BY DEF AnchorInv
<1>1. CASE velocity' = 0
  <2>1. position' = Anchor(y, blocks, viewport)
    BY <1>1 DEF Frame
  <2>2. offset' = Applied(y, position', 0, blocks, viewport)
    BY <1>1 DEF Frame
  <2>3. viewport > 0 /\ position' # FollowsBottom =>
            offset' = AtMost(position', MaxOffset(blocks, viewport))
    BY <2>2, AppliedAnchor DEF AnchorInv
  <2> QED BY <1>0, <2>3 DEF AnchorInv, AnchorKept
<1>2. CASE velocity' # 0
  BY <1>0, <1>2 DEF AnchorInv, AnchorKept
<1> QED BY <1>1, <1>2

(* The invariant holds at the start,                                       *)
LEMMA AnchorStarts == BlockListInit => AnchorInv
<1>1. BlockListInit => AnchorKept
  BY DEF BlockListInit, AnchorKept
<1>2. BlockListInit => viewport \in Nat
  BY DEF BlockListInit
<1>3. BlockListInit => panning \in BOOLEAN /\ velocity = 0
  BY Zenon DEF BlockListInit
<1> QED BY <1>1, <1>2, <1>3, Zenon DEF AnchorInv

(* and each step keeps it.                                                 *)
LEMMA AnchorStep == AnchorInv /\ [BlockListNext]_blockListVars => AnchorInv'
<1> SUFFICES ASSUME AnchorInv, [BlockListNext]_blockListVars PROVE AnchorInv'
  OBVIOUS
<1>1. CASE Layout
  <2>1. PICK height \in Viewports : Refresh(blocks, height)
    BY <1>1 DEF Layout
  <2> QED BY <2>1, RefreshKeepsAnchor, BlockListAssumption
<1>2. CASE SourceChanges
  <2>1. \E bs : Refresh(bs, viewport)
    BY <1>2 DEF SourceChanges
  <2> QED BY <2>1, RefreshKeepsAnchor DEF AnchorInv
<1>3. CASE PanBegins
  BY <1>3 DEF PanBegins, AnchorInv, AnchorKept
<1>4. CASE PanMoves
  <2>1. PICK y \in 0 .. MaxOffset(blocks, viewport) :
            offset' = y /\ position' = Anchor(y, blocks, viewport)
    BY <1>4 DEF PanMoves
  <2>2. position' # FollowsBottom => offset' = position'
    BY <2>1 DEF Anchor
  <2> QED BY <1>4, <2>2 DEF PanMoves, AnchorInv, AnchorKept
<1>5. CASE PanEnds
  <2>1. velocity = 0 /\ panning' = FALSE /\ UNCHANGED <<blocks, viewport, offset>>
    BY <1>5 DEF PanEnds, AnchorInv
  <2>2. position' \in {FollowsBottom, position}
    BY <1>5 DEF PanEnds
  <2> QED BY <2>1, <2>2 DEF AnchorInv, AnchorKept
<1>6. CASE Tick
  <2>0. UNCHANGED <<blocks, viewport, panning>>
    BY <1>6 DEF Tick
  <2>1. CASE velocity = 0
    <3>1. offset' = Applied(offset, position, 0, blocks, viewport)
          /\ UNCHANGED <<velocity, position>>
      BY <1>6, <2>1 DEF Tick
    <3>2. viewport > 0 /\ position # FollowsBottom =>
              offset' = AtMost(position, MaxOffset(blocks, viewport))
      BY <3>1, AppliedAnchor DEF AnchorInv
    <3> QED BY <2>0, <2>1, <3>1, <3>2 DEF AnchorInv, AnchorKept
  <2>2. CASE velocity # 0
    <3>1. \E raw, v : Frame(raw, v)
      BY <1>6, <2>2 DEF Tick
    <3> QED BY <2>0, <2>2, <3>1, FrameKeepsAnchor
  <2> QED BY <2>1, <2>2
<1>7. CASE Teardown
  BY <1>7 DEF Teardown, AnchorInv, AnchorKept
<1>8. CASE UNCHANGED blockListVars
  BY <1>8 DEF blockListVars, AnchorInv, AnchorKept
<1> QED BY <1>1, <1>2, <1>3, <1>4, <1>5, <1>6, <1>7, <1>8 DEF BlockListNext

(* A reader who scrolled up keeps the place.                               *)
THEOREM ReaderKeepsPlace == BlockListSpec => []AnchorKept
<1>1. AnchorInv => AnchorKept
  BY DEF AnchorInv
<1> QED BY <1>1, AnchorStarts, AnchorStep, PTL DEF BlockListSpec

(* BlockList: the layout.                                                  *)

Rows == [rows : Nat, running : BOOLEAN]

(* The heights of the blocks before each one, and of all of them, add up   *)
(* to a number.                                                            *)
LEMMA TopsAreNumbers ==
    ASSUME NEW bs \in Seq(Rows)
    PROVE  Tops(bs)[Len(bs) + 1] \in Nat
<1> DEFINE n == Len(bs)
           F == [p \in Nat \X (1 .. n) |-> p[1] + HeaderHeight + bs[p[2]].rows + Gap]
           Good(u) == u = [i \in 1 .. n + 1 |->
                              IF i = 1 THEN 0
                              ELSE u[i - 1] + HeaderHeight + bs[i - 1].rows + Gap]
           top == CHOOSE u : Good(u)
<1>1. n \in Nat /\ HeaderHeight \in Nat /\ Gap \in Nat
  BY LenProperties, BlockListAssumption
<1>2. ASSUME NEW i \in 1 .. n PROVE bs[i].rows \in Nat
  <2>1. bs[i] \in Rows
    BY ElementOfSeq
  <2> QED BY <2>1 DEF Rows
<1> HIDE DEF n
<1>3. \A a \in Nat, i \in 1 .. n :
          F[<<a, i>>] = a + HeaderHeight + bs[i].rows + Gap /\ F[<<a, i>>] \in Nat
  BY <1>1, <1>2
<1> HIDE DEF F
<1>4. PICK f \in [0 .. n -> Nat] : RunOf(f, F, n, 0)
  <2>1. StepsIn(F, n, Nat)
    BY <1>3 DEF StepsIn
  <2> QED BY <1>1, <2>1, RunExists
<1> DEFINE v == [i \in 1 .. n + 1 |-> f[i - 1]]
<1>5. Good(v)
  <2>1. ASSUME NEW i \in 1 .. n + 1
        PROVE  v[i] = IF i = 1 THEN 0 ELSE v[i - 1] + HeaderHeight + bs[i - 1].rows + Gap
    <3>1. CASE i = 1
      BY <1>1, <1>4, <3>1 DEF RunOf
    <3>2. CASE i # 1
      <4>1. i - 1 \in 1 .. n /\ v[i] = f[i - 1] /\ v[i - 1] = f[(i - 1) - 1]
        BY <1>1, <3>2
      <4>2. f[i - 1] = F[<<f[(i - 1) - 1], i - 1>>] /\ f[(i - 1) - 1] \in Nat
        BY <1>1, <1>4, <4>1 DEF RunOf
      <4> HIDE DEF v
      <4> QED BY <1>3, <3>2, <4>1, <4>2
    <3> QED BY <3>1, <3>2
  <2> QED BY <2>1
<1>6. Good(top)
  <2> HIDE DEF Good
  <2> QED BY <1>5
<1>7. Tops(bs) = top
  BY DEF Tops, n
<1> HIDE DEF top, v
<1>8. top[1] = 0 /\ \A i \in 2 .. n + 1 : top[i] = top[i - 1] + HeaderHeight + bs[i - 1].rows + Gap
  <2>1. \A i \in 1 .. n + 1 :
            top[i] = IF i = 1 THEN 0 ELSE top[i - 1] + HeaderHeight + bs[i - 1].rows + Gap
    BY <1>6
  <2> HIDE DEF Good
  <2> QED BY <1>1, <2>1
<1> DEFINE T == {k \in Nat : k <= n => top[k + 1] \in Nat}
<1>9. 0 \in T
  BY <1>8
<1>10. ASSUME NEW k \in Nat, k \in T PROVE k + 1 \in T
  <2> SUFFICES ASSUME k + 1 <= n PROVE top[(k + 1) + 1] \in Nat
    OBVIOUS
  <2>1. (k + 1) + 1 \in 2 .. n + 1 /\ ((k + 1) + 1) - 1 = k + 1 /\ k + 1 \in 1 .. n
    BY <1>1
  <2>2. top[k + 1] \in Nat
    BY <1>1, <1>10
  <2>3. bs[k + 1].rows \in Nat
    BY <1>2, <2>1
  <2>4. top[(k + 1) + 1] = top[k + 1] + HeaderHeight + bs[k + 1].rows + Gap
    BY <1>8, <2>1
  <2>5. \A a \in Nat, r \in Nat : a + HeaderHeight + r + Gap \in Nat
    BY <1>1
  <2> QED BY <2>2, <2>3, <2>4, <2>5
<1> HIDE DEF T
<1>11. n \in T
  BY <1>1, <1>9, <1>10, NatSetInduction
<1> QED BY <1>1, <1>7, <1>11 DEF T, n

(* The largest offset is a number: the rows of the blocks add up to one.   *)
LEMMA MaxOffsetNumber ==
    ASSUME NEW bs \in Seq(Rows), NEW height \in Nat
    PROVE  MaxOffset(bs, height) \in Nat
<1>1. Tops(bs)[Len(bs) + 1] \in Nat
  BY TopsAreNumbers
<1> QED BY <1>1 DEF MaxOffset, AtLeast

(* The list stays at its bottom under a resting finger too: no caller says *)
(* that a pan is active.                                                   *)
StaysLow ==
    velocity = 0 /\ viewport > 0 /\ position = FollowsBottom =>
        AtBottomEdge(offset, blocks, viewport)

(* An offset is never negative, so no place to keep looks like following.  *)
BottomInv ==
    /\ AnchorInv
    /\ blocks \in Seq(Rows)
    /\ offset \in Nat
    /\ position \in Nat \cup {FollowsBottom}
    /\ StaysLow

(* Offsets and anchors that the layout functions return are in range, and  *)
(* at the bottom for a list at rest that follows it.                       *)
LEMMA Places ==
    ASSUME NEW bs \in Seq(Rows), NEW height \in Nat
    PROVE  /\ \A y \in Nat, pos \in Nat \cup {FollowsBottom} : \A v :
                 /\ Applied(y, pos, v, bs, height) \in Nat
                 /\ v = 0 /\ height > 0 /\ pos = FollowsBottom =>
                       AtBottomEdge(Applied(y, pos, v, bs, height), bs, height)
           /\ \A raw \in Int : Clamp(raw, bs, height) \in Nat
           /\ \A y \in Nat : Anchor(y, bs, height) \in Nat \cup {FollowsBottom}
<1>1. MaxOffset(bs, height) \in Nat
  BY MaxOffsetNumber
<1>2. \A m \in Nat : m >= m - Tolerance
  BY BlockListAssumption
<1> QED BY <1>1, <1>2 DEF Applied, AtBottomEdge, Clamp, Anchor, AtMost, AtLeast, FollowsBottom

(* A refresh keeps a list at its bottom,                                   *)
LEMMA RefreshKeepsBottom ==
    ASSUME BottomInv, NEW bs \in Seq(Rows), NEW height \in Nat, Refresh(bs, height)
    PROVE  BottomInv'
<1>1. AnchorInv'
  BY RefreshKeepsAnchor DEF BottomInv
<1>2. /\ blocks' = bs /\ viewport' = height /\ velocity' = velocity
      /\ position' \in {FollowsBottom, position}
      /\ offset' = Applied(offset, position', velocity, bs, height)
  BY DEF Refresh
<1>3. position' \in Nat \cup {FollowsBottom} /\ offset \in Nat
  BY <1>2 DEF BottomInv
<1>4. offset' \in Nat
  BY <1>2, <1>3, Places
<1>5. StaysLow'
  BY <1>2, <1>3, Places DEF StaysLow
<1> QED BY <1>1, <1>2, <1>3, <1>4, <1>5 DEF BottomInv

(* and so does a frame of momentum.                                        *)
LEMMA FrameKeepsBottom ==
    ASSUME BottomInv, NEW raw \in Int, NEW v, Frame(raw, v), velocity # 0,
           UNCHANGED <<blocks, viewport, panning>>
    PROVE  BottomInv'
<1> DEFINE y == Clamp(raw, blocks, viewport)
<1>1. AnchorInv'
  BY FrameKeepsAnchor DEF BottomInv
<1>2. viewport \in Nat /\ blocks \in Seq(Rows) /\ position \in Nat \cup {FollowsBottom}
  BY DEF BottomInv, AnchorInv
<1>3. y \in Nat
  BY <1>2, Places
<1>4. /\ position' = IF velocity' = 0 THEN Anchor(y, blocks, viewport) ELSE position
      /\ offset' = Applied(y, position', velocity', blocks, viewport)
  BY DEF Frame
<1> HIDE DEF y
<1>5. position' \in Nat \cup {FollowsBottom}
  BY <1>2, <1>3, <1>4, Places
<1>6. offset' \in Nat
  BY <1>2, <1>3, <1>4, <1>5, Places
<1>7. StaysLow'
  BY <1>2, <1>3, <1>4, <1>5, Places DEF StaysLow
<1> QED BY <1>1, <1>2, <1>5, <1>6, <1>7 DEF BottomInv

(* The lists the source may hand over.                                     *)
LEMMA SourceLists ==
    ASSUME BottomInv, SourceChanges
    PROVE  \E bs \in Seq(Rows) : Refresh(bs, viewport)
<1>1. blocks \in Seq(Rows) /\ Len(blocks) \in Nat
  BY LenProperties DEF BottomInv
<1>2. CASE Refresh(Append(blocks, [rows |-> 0, running |-> TRUE]), viewport)
  <2>1. [rows |-> 0, running |-> TRUE] \in Rows
    BY DEF Rows
  <2>2. Append(blocks, [rows |-> 0, running |-> TRUE]) \in Seq(Rows)
    BY <1>1, <2>1, AppendProperties
  <2> QED BY <1>2, <2>2
<1>3. ASSUME NEW i \in 1 .. Len(blocks), NEW r \in 0 .. MaxRows,
             Refresh([blocks EXCEPT ![i].rows = r], viewport)
      PROVE  \E bs \in Seq(Rows) : Refresh(bs, viewport)
  <2>1. blocks[i] \in Rows
    BY <1>1, ElementOfSeq
  <2>2. [blocks[i] EXCEPT !.rows = r] \in Rows
    BY <2>1, BlockListAssumption DEF Rows
  <2>3. [blocks EXCEPT ![i] = [blocks[i] EXCEPT !.rows = r]] \in Seq(Rows)
    BY <1>1, <2>2, ExceptSeq
  <2> QED BY <1>3, <2>3
<1>4. CASE Running(blocks) /\ Refresh([blocks EXCEPT ![Len(blocks)].running = FALSE], viewport)
  <2>1. Len(blocks) \in 1 .. Len(blocks)
    BY <1>1, <1>4 DEF Running
  <2>2. blocks[Len(blocks)] \in Rows
    BY <1>1, <2>1, ElementOfSeq
  <2>3. [blocks[Len(blocks)] EXCEPT !.running = FALSE] \in Rows
    BY <2>2 DEF Rows
  <2>4. [blocks EXCEPT ![Len(blocks)] = [blocks[Len(blocks)] EXCEPT !.running = FALSE]]
            \in Seq(Rows)
    BY <1>1, <2>1, <2>3, ExceptSeq
  <2> QED BY <1>4, <2>4
<1>5. CASE Refresh(<< >>, viewport)
  BY <1>5, EmptySeq
<1> QED BY <1>2, <1>3, <1>4, <1>5 DEF SourceChanges

(* A list that is said to follow its bottom is there.                      *)
THEOREM StaysNearBottom == BlockListSpec => []NearBottom
<1>1. BlockListInit => BottomInv
  <2> SUFFICES ASSUME BlockListInit PROVE BottomInv
    OBVIOUS
  <2>1. blocks = << >> /\ viewport = 0 /\ offset = 0 /\ position = FollowsBottom /\ velocity = 0
    BY DEF BlockListInit
  <2>2. blocks \in Seq(Rows)
    BY <2>1, EmptySeq
  <2>3. AnchorInv
    BY AnchorStarts
  <2> QED BY <2>1, <2>2, <2>3 DEF BottomInv, StaysLow
<1>2. BottomInv /\ [BlockListNext]_blockListVars => BottomInv'
  <2> SUFFICES ASSUME BottomInv, [BlockListNext]_blockListVars PROVE BottomInv'
    OBVIOUS
  <2>0. AnchorInv' /\ viewport \in Nat /\ (panning => velocity = 0)
    BY AnchorStep DEF BottomInv, AnchorInv
  <2>1. CASE Layout
    <3>1. PICK height \in Viewports : Refresh(blocks, height)
      BY <2>1 DEF Layout
    <3> QED BY <3>1, RefreshKeepsBottom, BlockListAssumption DEF BottomInv
  <2>2. CASE SourceChanges
    BY <2>0, <2>2, SourceLists, RefreshKeepsBottom
  <2>3. CASE PanBegins
    <3>1. position' = offset /\ offset # FollowsBottom
      BY <2>3 DEF PanBegins, BottomInv, FollowsBottom
    <3> QED BY <2>0, <2>3, <3>1 DEF PanBegins, BottomInv, StaysLow
  <2>4. CASE PanMoves
    <3>1. PICK y \in 0 .. MaxOffset(blocks, viewport) :
              offset' = y /\ position' = Anchor(y, blocks, viewport)
      BY <2>4 DEF PanMoves
    <3>2. y \in Nat /\ position' \in Nat \cup {FollowsBottom}
      BY <2>0, <3>1, Places DEF BottomInv
    <3>3. position' = FollowsBottom => AtBottomEdge(y, blocks, viewport)
      BY <3>1, <3>2 DEF Anchor, FollowsBottom
    <3> QED BY <2>0, <2>4, <3>1, <3>2, <3>3 DEF PanMoves, BottomInv, StaysLow
  <2>5. CASE PanEnds
    <3>1. /\ velocity = 0 /\ UNCHANGED <<blocks, viewport, offset>>
          /\ position' = IF velocity' = 0 /\ AtBottomEdge(offset, blocks, viewport)
                         THEN FollowsBottom ELSE position
      BY <2>0, <2>5 DEF PanEnds
    <3> QED BY <2>0, <3>1 DEF BottomInv, StaysLow
  <2>6. CASE Tick
    <3>0. UNCHANGED <<blocks, viewport, panning>>
      BY <2>6 DEF Tick
    <3>1. CASE velocity = 0
      <4>1. offset' = Applied(offset, position, 0, blocks, viewport)
            /\ UNCHANGED <<velocity, position>>
        BY <2>6, <3>1 DEF Tick
      <4>2. offset' \in Nat /\ StaysLow'
        BY <2>0, <3>0, <3>1, <4>1, Places DEF BottomInv, StaysLow
      <4> QED BY <2>0, <3>0, <4>1, <4>2 DEF BottomInv
    <3>2. CASE velocity # 0
      <4>1. \E raw \in Int : \E v : Frame(raw, v)
        BY <2>6, <3>2 DEF Tick, BottomInv
      <4> QED BY <3>0, <3>2, <4>1, FrameKeepsBottom
    <3> QED BY <3>1, <3>2
  <2>7. CASE Teardown
    BY <2>0, <2>7 DEF Teardown, BottomInv, StaysLow
  <2>8. CASE UNCHANGED blockListVars
    BY <2>0, <2>8 DEF blockListVars, BottomInv, StaysLow
  <2> QED BY <2>1, <2>2, <2>3, <2>4, <2>5, <2>6, <2>7, <2>8 DEF BlockListNext
<1>3. BottomInv => NearBottom
  BY DEF BottomInv, StaysLow, NearBottom
<1> QED BY <1>1, <1>2, <1>3, PTL DEF BlockListSpec

=============================================================================
