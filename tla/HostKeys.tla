------------------------------ MODULE HostKeys ------------------------------
(***************************************************************************)
(* The key pinned for one address host:port, and the handshakes that check *)
(* it.  Each handshake runs on a thread of its own event loop, the save of *)
(* the mismatch sheet on the main thread, and host_key_store takes no      *)
(* lock: a save is a deletion and an addition that others may come         *)
(* between.  Handshakes for one address overlap when an attempt is         *)
(* replaced while it connects, or when two saved hosts share the address.  *)
(***************************************************************************)
EXTENDS Naturals, FiniteSets

CONSTANTS
    Handshakes,  \* the handshakes that may run at the same time
    Sheet,       \* the mismatch sheet, where the user may trust a new key
    Keys,        \* keys the server may have
    None         \* no key

ASSUME KeysAssumption == Sheet \notin Handshakes /\ None \notin Keys

Savers == Handshakes \cup {Sheet}

VARIABLES
    pin,        \* the keychain item of the address
    server,     \* the key the server has now
    step,       \* of each saver, how far it is
    key,        \* of each saver, the key it was given
    unknowns,   \* history: verdicts Unknown so far (counted up to 2)
    trusted,    \* history: the keys of the accepted handshakes
    approved,   \* history: the user has trusted a new key
    broken      \* history: a keychain call failed or the app died

vars == <<pin, server, step, key, unknowns, trusted, approved, broken>>

Steps == {"idle", "deleting", "adding", "accepted", "refused"}

Init ==
    /\ pin = None /\ server \in Keys
    /\ step = [s \in Savers |-> "idle"] /\ key = [s \in Savers |-> None]
    /\ unknowns = 0 /\ trusted = {} /\ approved = FALSE /\ broken = FALSE

-----------------------------------------------------------------------------
(* The server is reinstalled.                                              *)
Reinstall ==
    /\ server' \in Keys
    /\ UNCHANGED <<pin, step, key, unknowns, trusted, approved, broken>>

(* Mutant: a key other than the stored one matches too.                    *)
VerdictLoose(stored, remote) == IF stored = None THEN "Unknown" ELSE "Match"

(* verify *)
Verdict(stored, remote) ==
    IF stored = None THEN "Unknown"
    ELSE IF stored = remote THEN "Match" ELSE "Mismatch"

(* validateHostKey up to the verdict.  load takes any failure to read for  *)
(* a missing item.                                                         *)
Validate(h) ==
    /\ step[h] = "idle"
    /\ key' = [key EXCEPT ![h] = server]
    /\ \E stored \in {pin, None} :
          /\ broken' = (broken \/ stored # pin)
          /\ \/ /\ Verdict(stored, server) = "Match"
                /\ step' = [step EXCEPT ![h] = "accepted"]
                /\ trusted' = trusted \cup {server} /\ UNCHANGED unknowns
             \/ /\ Verdict(stored, server) = "Mismatch"
                /\ step' = [step EXCEPT ![h] = "refused"]
                /\ UNCHANGED <<trusted, unknowns>>
             \/ /\ Verdict(stored, server) = "Unknown"
                /\ step' = [step EXCEPT ![h] = "deleting"]
                /\ unknowns' = IF unknowns = 0 THEN 1 ELSE 2
                /\ UNCHANGED trusted
    /\ UNCHANGED <<pin, server, approved>>

(* The user trusts the key a refused handshake reported; the sheet saves   *)
(* it.  The retry that follows is a handshake like any other.              *)
Trust(h) ==
    /\ step[h] = "refused" /\ step[Sheet] = "idle"
    /\ step' = [step EXCEPT ![h] = "idle", ![Sheet] = "deleting"]
    /\ key' = [key EXCEPT ![Sheet] = key[h]]
    /\ approved' = TRUE
    /\ UNCHANGED <<pin, server, unknowns, trusted, broken>>

(* save, its deletion; the result is ignored.                              *)
DeletePrior(s) ==
    /\ step[s] = "deleting"
    /\ step' = [step EXCEPT ![s] = "adding"]
    /\ \/ pin' = None /\ UNCHANGED broken
       \/ pin # None /\ broken' = TRUE /\ UNCHANGED pin
    /\ UNCHANGED <<server, key, unknowns, trusted, approved>>

(* Mutant: the item is deleted again when it cannot be added.              *)
AddRetracts(s) ==
    /\ step[s] = "adding"
    /\ \/ pin = None /\ pin' = key[s] /\ UNCHANGED broken
       \/ pin # None /\ pin' = None /\ UNCHANGED broken
    /\ step' = [step EXCEPT ![s] = IF s = Sheet THEN "idle" ELSE "accepted"]
    /\ trusted' = IF s = Sheet THEN trusted ELSE trusted \cup {key[s]}
    /\ UNCHANGED <<server, key, unknowns, approved>>

(* What the caller of save does with its answer: a handshake is accepted   *)
(* or fails as a mismatch, the sheet does not look.                        *)
Saved(s) ==
    /\ step' = [step EXCEPT ![s] = IF s = Sheet THEN "idle" ELSE "accepted"]
    /\ trusted' = IF s = Sheet THEN trusted ELSE trusted \cup {key[s]}

NotSaved(s) ==
    /\ step' = [step EXCEPT ![s] = IF s = Sheet THEN "idle" ELSE "refused"]
    /\ UNCHANGED trusted

(* save, its addition, refused while there is an item.                     *)
AddItem(s) ==
    /\ step[s] = "adding"
    /\ \/ pin = None /\ pin' = key[s] /\ UNCHANGED broken /\ Saved(s)
       \/ pin # None /\ UNCHANGED <<pin, broken>> /\ NotSaved(s)
       \/ pin = None /\ broken' = TRUE /\ UNCHANGED pin /\ NotSaved(s)
    /\ UNCHANGED <<server, key, unknowns, approved>>

(* The connection ends, or the user rejects the key: another may start.    *)
Finish(h) ==
    /\ step[h] \in {"accepted", "refused"}
    /\ step' = [step EXCEPT ![h] = "idle"]
    /\ UNCHANGED <<pin, server, key, unknowns, trusted, approved, broken>>

(* The app dies; only the keychain item stays.                             *)
Die ==
    /\ step' = [s \in Savers |-> "idle"]
    /\ broken' = (broken \/ \E s \in Savers : step[s] = "adding")
    /\ UNCHANGED <<pin, server, key, unknowns, trusted, approved>>

Next ==
    \/ Reinstall \/ Die
    \/ \E h \in Handshakes : Validate(h) \/ Trust(h) \/ Finish(h)
    \/ \E s \in Savers : DeletePrior(s) \/ AddItem(s)

Spec == Init /\ [][Next]_vars

-----------------------------------------------------------------------------
TypeOK ==
    /\ pin \in Keys \cup {None} /\ server \in Keys
    /\ step \in [Savers -> Steps] /\ key \in [Savers -> Keys \cup {None}]
    /\ unknowns \in {0, 1, 2} /\ trusted \subseteq Keys
    /\ approved \in BOOLEAN /\ broken \in BOOLEAN

(* An address once trusted is not forgotten: however the deletions and     *)
(* additions of several saves interleave, when the pin is missing some     *)
(* save is about to write it.  Only a failing keychain, or the app dying   *)
(* right between a deletion and its addition, loses a pin.                 *)
PinNotForgotten ==
    trusted # {} /\ pin = None /\ ~broken => \E s \in Savers : step[s] = "adding"

(* Whoever checks or saves a key was given one.                            *)
KeyGiven == \A s \in Savers : step[s] # "idle" => key[s] \in Keys

(* Before any approval: while one handshake at most found the address      *)
(* unknown, it is the only one saving, and nothing else was ever pinned.   *)
FirstUse ==
    ~broken /\ ~approved /\ unknowns \in {0, 1} =>
        /\ step[Sheet] = "idle"
        /\ trusted \subseteq {pin}
        /\ unknowns = 0 => pin = None
        /\ pin = None => trusted = {}
        /\ \A s \in Savers : step[s] \in {"deleting", "adding"} =>
              /\ pin = None /\ unknowns = 1
              /\ \A t \in Savers : step[t] \in {"deleting", "adding"} => t = s

(* Of one address only one key is ever accepted, unless the user trusted   *)
(* another or two handshakes found it unknown: a handshake that starts     *)
(* while the sheet saves, or beside another first one, may be the second.  *)
TrustedOnce ==
    ~broken /\ ~approved /\ unknowns \in {0, 1} => Cardinality(trusted) <= 1

=============================================================================
