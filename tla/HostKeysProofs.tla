--------------------------- MODULE HostKeysProofs ---------------------------
(***************************************************************************)
(* Proofs about HostKeys, for any handshakes and any keys.  The inductive  *)
(* invariant adds to the properties that a saver has a key (KeyGiven) and  *)
(* what the first save of an address looks like from the side (FirstUse).  *)
(***************************************************************************)
EXTENDS HostKeys, FiniteSetTheorems, TLAPS

Inv == TypeOK /\ KeyGiven /\ PinNotForgotten /\ FirstUse

(* The invariant holds at the start,                                       *)
LEMMA InitInv == Init => Inv
<1> SUFFICES ASSUME Init PROVE Inv
  OBVIOUS
<1> USE DEF Init, Savers
<1>1. TypeOK
  <2>1. step \in [Savers -> Steps] /\ key \in [Savers -> Keys \cup {None}]
    BY DEF Steps
  <2> QED
    BY <2>1 DEF TypeOK
<1>2. KeyGiven
  BY DEF KeyGiven
<1>3. PinNotForgotten
  BY DEF PinNotForgotten
<1>4. FirstUse
  BY DEF FirstUse
<1> QED
  BY <1>1, <1>2, <1>3, <1>4 DEF Inv

(* One handshake or the sheet takes a step: the types and the keys.        *)
LEMMA TypeStep ==
    ASSUME TypeOK, KeyGiven, [Next]_vars
    PROVE  TypeOK' /\ KeyGiven'
<1> USE KeysAssumption DEF TypeOK, Steps, KeyGiven
<1>1. CASE Reinstall
  BY <1>1 DEF Reinstall
<1>2. CASE Die
  BY <1>2 DEF Die
<1>3. ASSUME NEW h \in Handshakes, Validate(h)
      PROVE  TypeOK' /\ KeyGiven'
  <2>0. h \in Savers
    BY DEF Savers
  <2> QED
    BY <1>3, <2>0 DEF Validate
<1>4. ASSUME NEW h \in Handshakes, Trust(h)
      PROVE  TypeOK' /\ KeyGiven'
  <2>0. h \in Savers /\ Sheet \in Savers /\ h # Sheet
    BY DEF Savers
  <2> QED
    BY <1>4, <2>0 DEF Trust
<1>5. ASSUME NEW h \in Handshakes, Finish(h)
      PROVE  TypeOK' /\ KeyGiven'
  BY <1>5 DEF Finish
<1>6. ASSUME NEW s \in Savers, DeletePrior(s)
      PROVE  TypeOK' /\ KeyGiven'
  BY <1>6 DEF DeletePrior
<1>7. ASSUME NEW s \in Savers, AddItem(s)
      PROVE  TypeOK' /\ KeyGiven'
  BY <1>7 DEF AddItem, Saved, NotSaved
<1>8. CASE UNCHANGED vars
  BY <1>8 DEF vars
<1> QED
  BY <1>1, <1>2, <1>3, <1>4, <1>5, <1>6, <1>7, <1>8 DEF Next

(* A pin only goes missing for an addition that is due.                    *)
LEMMA PinStep ==
    ASSUME TypeOK, KeyGiven, PinNotForgotten, [Next]_vars
    PROVE  PinNotForgotten'
<1> USE KeysAssumption DEF TypeOK, Steps, KeyGiven, PinNotForgotten, Savers
<1>1. CASE Reinstall
  BY <1>1 DEF Reinstall
<1>2. CASE Die
  BY <1>2 DEF Die
<1>3. ASSUME NEW h \in Handshakes, Validate(h)
      PROVE  PinNotForgotten'
  BY <1>3 DEF Validate, Verdict
<1>4. ASSUME NEW h \in Handshakes, Trust(h)
      PROVE  PinNotForgotten'
  BY <1>4 DEF Trust
<1>5. ASSUME NEW h \in Handshakes, Finish(h)
      PROVE  PinNotForgotten'
  BY <1>5 DEF Finish
<1>6. ASSUME NEW s \in Savers, DeletePrior(s)
      PROVE  PinNotForgotten'
  BY <1>6 DEF DeletePrior
<1>7. ASSUME NEW s \in Savers, AddItem(s)
      PROVE  PinNotForgotten'
  BY <1>7 DEF AddItem, Saved, NotSaved
<1>8. CASE UNCHANGED vars
  BY <1>8 DEF vars
<1> QED
  BY <1>1, <1>2, <1>3, <1>4, <1>5, <1>6, <1>7, <1>8 DEF Next

(* The first save of an address has no rival until a second handshake      *)
(* finds it unknown or the user approves a key.                            *)
LEMMA FirstUseStep ==
    ASSUME TypeOK, KeyGiven, FirstUse, [Next]_vars
    PROVE  FirstUse'
<1> USE KeysAssumption DEF TypeOK, Steps, KeyGiven, FirstUse
<1>1. CASE Reinstall
  BY <1>1 DEF Reinstall
<1>2. CASE Die
  BY <1>2 DEF Die, Savers
<1>3. ASSUME NEW h \in Handshakes, Validate(h)
      PROVE  FirstUse'
  <2>0. h \in Savers /\ h # Sheet /\ UNCHANGED <<pin, approved>> /\ step[h] = "idle"
    BY <1>3 DEF Savers, Validate
  <2> SUFFICES ASSUME ~broken', ~approved', unknowns' \in {0, 1} PROVE FirstUse'
    OBVIOUS
  <2>1. ~broken /\ ~approved
    BY <1>3 DEF Validate
  <2>2. \/ /\ server = pin /\ step' = [step EXCEPT ![h] = "accepted"]
           /\ trusted' = trusted \cup {server} /\ UNCHANGED unknowns
        \/ /\ pin # None /\ step' = [step EXCEPT ![h] = "refused"]
           /\ UNCHANGED <<trusted, unknowns>>
        \/ /\ pin = None /\ step' = [step EXCEPT ![h] = "deleting"]
           /\ unknowns' = IF unknowns = 0 THEN 1 ELSE 2
           /\ UNCHANGED trusted
    BY <1>3 DEF Validate, Verdict
  <2>3. unknowns \in {0, 1}
    BY <2>2
  <2>4. CASE server = pin /\ step' = [step EXCEPT ![h] = "accepted"]
             /\ trusted' = trusted \cup {server} /\ UNCHANGED unknowns
    BY <2>0, <2>1, <2>3, <2>4
  <2>5. CASE pin # None /\ step' = [step EXCEPT ![h] = "refused"]
             /\ UNCHANGED <<trusted, unknowns>>
    BY <2>0, <2>1, <2>3, <2>5
  <2>6. CASE /\ pin = None /\ step' = [step EXCEPT ![h] = "deleting"]
             /\ unknowns' = IF unknowns = 0 THEN 1 ELSE 2
             /\ UNCHANGED trusted
    <3>1. unknowns = 0 /\ unknowns' = 1 /\ trusted = {}
      BY <2>1, <2>3, <2>6
    <3>2. \A s \in Savers : step[s] \notin {"deleting", "adding"}
      BY <2>1, <3>1
    <3> QED
      BY <2>0, <2>1, <2>6, <3>1, <3>2
  <2> QED
    BY <2>2, <2>4, <2>5, <2>6
<1>4. ASSUME NEW h \in Handshakes, Trust(h)
      PROVE  FirstUse'
  BY <1>4 DEF Trust
<1>5. ASSUME NEW h \in Handshakes, Finish(h)
      PROVE  FirstUse'
  <2>0. h \in Savers /\ h # Sheet
    BY DEF Savers
  <2> QED
    BY <1>5, <2>0 DEF Finish
<1>6. ASSUME NEW s \in Savers, DeletePrior(s)
      PROVE  FirstUse'
  BY <1>6 DEF DeletePrior
<1>7. ASSUME NEW s \in Savers, AddItem(s)
      PROVE  FirstUse'
  <2> SUFFICES ASSUME ~broken', ~approved', unknowns' \in {0, 1} PROVE FirstUse'
    OBVIOUS
  <2>1. /\ ~broken /\ ~approved /\ UNCHANGED <<unknowns, approved>>
        /\ step[s] = "adding" /\ s # Sheet
    BY <1>7 DEF AddItem, Savers
  <2>2. pin = None /\ trusted = {} /\ unknowns = 1
    BY <2>1
  <2>3. /\ pin' = key[s] /\ trusted' = {key[s]} /\ key[s] # None
        /\ step' = [step EXCEPT ![s] = "accepted"]
    BY <1>7, <2>1, <2>2 DEF AddItem, Saved
  <2>4. \A t \in Savers : step[t] \in {"deleting", "adding"} => t = s
    BY <2>1
  <2>5. \A t \in Savers : step'[t] \notin {"deleting", "adding"}
    BY <2>3, <2>4
  <2>6. Sheet \in Savers /\ step'[Sheet] = "idle"
    BY <2>1, <2>3 DEF Savers
  <2> QED
    BY <2>1, <2>2, <2>3, <2>5, <2>6
<1>8. CASE UNCHANGED vars
  BY <1>8 DEF vars
<1> QED
  BY <1>1, <1>2, <1>3, <1>4, <1>5, <1>6, <1>7, <1>8 DEF Next

(* and in every state.                                                     *)
LEMMA HostKeysInv == Spec => []Inv
<1>1. Inv /\ [Next]_vars => Inv'
  BY TypeStep, PinStep, FirstUseStep DEF Inv
<1> QED
  BY <1>1, InitInv, PTL DEF Spec

(* The store stays well typed: whatever the keychain answers, the pin is a *)
(* key a server had or nothing.                                            *)
THEOREM HostKeysTypes == Spec => []TypeOK
<1>1. Inv => TypeOK
  BY DEF Inv
<1> QED
  BY <1>1, HostKeysInv, PTL

(* An address that was trusted is not forgotten, for any number of         *)
(* handshakes whose saves interleave with each other and with the sheet's. *)
THEOREM AddressRemembered == Spec => []PinNotForgotten
<1>1. Inv => PinNotForgotten
  BY DEF Inv
<1> QED
  BY <1>1, HostKeysInv, PTL

(* Only one key of an address is accepted until the user trusts another or *)
(* two handshakes find the address unknown.                                *)
THEOREM OneKeyTrusted == Spec => []TrustedOnce
<1>1. Inv => TrustedOnce
  <2> SUFFICES ASSUME Inv, ~broken, ~approved, unknowns \in {0, 1}
               PROVE  Cardinality(trusted) <= 1
    BY DEF TrustedOnce
  <2>1. trusted \subseteq {pin}
    BY DEF Inv, FirstUse
  <2>2. trusted = {} \/ trusted = {pin}
    BY <2>1
  <2>3. Cardinality({}) = 0 /\ Cardinality({pin}) = 1
    BY FS_EmptySet, FS_Singleton
  <2> QED
    BY <2>2, <2>3
<1> QED
  BY <1>1, HostKeysInv, PTL

=============================================================================
