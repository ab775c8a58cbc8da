---------------------------- MODULE ConnectForm ----------------------------
(***************************************************************************)
(* The form that adds or edits a host, over the hosts store: the singleton *)
(* view model connect_form_vm::VM, the view controller that prefills it    *)
(* and saves through it, and the Swift side that keeps the picked key file *)
(* and encodes the host.  A field of the view model is None when empty;    *)
(* the controller sets a secret only to a nonempty text, so its touched    *)
(* flag is the same as it not being None.                                  *)
(***************************************************************************)
EXTENDS HostsStore

CONSTANTS
    Secrets,   \* passwords and keys
    Phrases,   \* passphrases of keys
    EditForm   \* TRUE when something opens the form with an id

ASSUME FormAssumption ==
    /\ None \notin Secrets \cup Phrases
    /\ {"new", "closed", None} \cap IdSet = {}

VARIABLES
    form,      \* the id the form was opened with, "new", or "closed"
    loaded,    \* history: the open form read the item of its id
    picked,    \* ConnectFormBridge.pendingKeyBytes
    vm         \* connect_form_vm::VM

vars == <<storeVars, form, loaded, picked, vm>>

(* What Swift's encoder stores: a password, or a key and its passphrase.   *)
SavedHosts == [auth : {"password"}, secret : Secrets, phrase : {None}]
              \cup [auth : {"key"}, secret : Secrets, phrase : Phrases \cup {None}]

(* ConnectFormVM: id is None in Mode::Add; orig, oldPassword, oldKey and   *)
(* oldPhrase belong to Mode::Edit.                                         *)
Blank == [id |-> None, orig |-> "password", oldPassword |-> None,
          oldKey |-> None, oldPhrase |-> None,
          password |-> None, key |-> None, phrase |-> None]

Init == StoreInit /\ form = "closed" /\ loaded = FALSE /\ picked = None /\ vm = Blank

-----------------------------------------------------------------------------
(* Mutant: the blank draft is still in the mode of the form before.        *)
ResetKeepsMode ==
    [vm EXCEPT !.password = None, !.key = None, !.phrase = None]

ResetToAdd == Blank

(* How apply_prefill decodes what Swift encoded as {"password":{"_0":..}}  *)
(* and {"privateKey":{"_0":..,"passphrase":..}}: it reads the password as  *)
(* a string, which the value is not, and the passphrase beside the key     *)
(* instead of inside it; only the key is found.                            *)
DecodedPassword(b) == None
DecodedPhrase(b)   == None
DecodedKey(b)      == IF b.auth = "key" THEN b.secret ELSE None

(* prefill_edit, fed by apply_prefill.                                     *)
PrefillEdit(i, b) ==
    [Blank EXCEPT !.id = i, !.orig = b.auth, !.oldPassword = DecodedPassword(b),
                  !.oldKey = DecodedKey(b), !.oldPhrase = DecodedPhrase(b)]

OpenAdd ==
    /\ op = Idle /\ form = "closed"
    /\ form' = "new" /\ vm' = ResetToAdd
    /\ UNCHANGED <<storeVars, loaded, picked>>

(* When the item cannot be read, apply_prefill returns before it touches   *)
(* the view model, which keeps the draft of the form before.               *)
OpenEdit(i) ==
    /\ EditForm /\ op = Idle /\ form = "closed" /\ i \in Range(rows)
    /\ form' = i
    /\ \/ i \in Stored /\ loaded' = TRUE /\ vm' = PrefillEdit(i, blobs[i])
       \/ loaded' = FALSE /\ UNCHANGED vm
    /\ UNCHANGED <<storeVars, picked>>

(* The document picker delivers a key file.                                *)
PickKey ==
    /\ form # "closed"
    /\ picked' \in Secrets
    /\ UNCHANGED <<storeVars, form, loaded, vm>>

(* Cancel, or the swipe back: neither the picked key nor the view model is *)
(* cleared.                                                                *)
Cancel ==
    /\ form # "closed"
    /\ form' = "closed" /\ loaded' = FALSE
    /\ UNCHANGED <<storeVars, picked, vm>>

(* try_save of the controller first moves what was entered into the view   *)
(* model: nonempty texts and a picked key.                                 *)
Entered(password, phrase) ==
    LET Or(new, old) == IF new = None THEN old ELSE new
    IN  [vm EXCEPT !.password = Or(password, @), !.phrase = Or(phrase, @),
                   !.key = Or(picked, @)]

Switched(v, auth) == v.id # None /\ v.orig # auth

Typed(v, auth)    == IF auth = "key" THEN v.key ELSE v.password
Existing(v, auth) == IF auth = "key" THEN v.oldKey ELSE v.oldPassword

RequiresFreshSecret(v, auth) ==
    v.id = None \/ Switched(v, auth) \/ Typed(v, auth) # None

(* Mutant: a host that is edited is taken to have its secret.              *)
HasSecretTrusting(v, auth) ==
    IF RequiresFreshSecret(v, auth) THEN Typed(v, auth) # None ELSE TRUE

(* validate, as far as the secrets go.                                     *)
HasSecret(v, auth) ==
    IF RequiresFreshSecret(v, auth) THEN Typed(v, auth) # None
    ELSE Existing(v, auth) # None

(* Mutant: a key that was not picked again is not carried over.            *)
ResolvedTyped(v, auth) ==
    [auth |-> auth, secret |-> Typed(v, auth),
     phrase |-> IF auth = "key" THEN v.phrase ELSE None]

(* resolve_secrets: what was typed, or else what the host had.             *)
Resolved(v, auth) ==
    LET kept(typed, old) ==
            IF Switched(v, auth) \/ typed # None THEN typed ELSE old
    IN  [auth |-> auth, secret |-> kept(Typed(v, auth), Existing(v, auth)),
         phrase |-> IF auth = "key" THEN kept(v.phrase, v.oldPhrase) ELSE None]

(* uuid_v4: an id nothing refers to.                                       *)
FreshIds == {i \in IdSet : /\ blobs[i] = None
                           /\ i \notin Range(order) \cup Range(rows) \cup {vm.id}}

(* Save.  A draft that does not validate shows its error and stays open.   *)
(* Otherwise the host is encoded and handed to the store, whose answer is  *)
(* not looked at: the form is done either way.                             *)
Save(auth, password, phrase, fieldsOk) ==
    LET v == Entered(password, phrase)
    IN  /\ op = Idle /\ form # "closed"
        /\ vm' = v /\ picked' = None
        /\ IF fieldsOk /\ HasSecret(v, auth)
           THEN /\ form' = "closed" /\ loaded' = FALSE
                /\ \E i \in IF v.id = None THEN FreshIds ELSE {v.id} :
                      BeginSave(i, Resolved(v, auth))
           ELSE UNCHANGED <<storeVars, form, loaded>>

(* The store's own steps; the hosts list deletes only when no form covers  *)
(* it.                                                                     *)
StoreStep ==
    /\ \/ AddItem \/ IndexItem \/ UnindexItem \/ List
       \/ form = "closed" /\ \E i \in IdSet : i \in Range(rows) /\ BeginDelete(i)
    /\ UNCHANGED <<form, loaded, picked, vm>>

Quit ==
    /\ Die
    /\ form' = "closed" /\ loaded' = FALSE /\ picked' = None /\ vm' = Blank

FormNext ==
    \/ OpenAdd \/ PickKey \/ Cancel \/ StoreStep \/ Quit
    \/ \E i \in IdSet : OpenEdit(i)
    \/ \E auth \in {"password", "key"}, password \in Secrets \cup {None},
          phrase \in Phrases \cup {None}, fieldsOk \in BOOLEAN :
          Save(auth, password, phrase, fieldsOk)

FormSpec == Init /\ [][FormNext]_vars

-----------------------------------------------------------------------------
SaveStep == op = Idle /\ op'.step = "add"

(* A save goes to the host the form shows: to its id, or from an empty     *)
(* form to one no host has, whatever was left in the singleton view model  *)
(* by the forms before.  (A form that could not read its host is left with *)
(* the mode and the id of an earlier one.)                                 *)
SavesOwnHost ==
    [][SaveStep => \/ form = "new" /\ op'.id \notin Stored \cup Range(rows)
                   \/ form = op'.id
                   \/ form # "new" /\ ~loaded]_vars

(* A key host edited without picking a file keeps its key.                 *)
UntouchedKeyKept ==
    [][SaveStep /\ form \in IdSet /\ loaded /\ vm'.key = None /\ op'.blob.auth = "key"
          => op'.blob.secret = blobs[form].secret]_vars

(* No item is stored without the secret its way to authenticate needs.     *)
StoredWithSecret == op.step = "add" => op.blob \in SavedHosts

=============================================================================
