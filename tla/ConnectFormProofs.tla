------------------------- MODULE ConnectFormProofs -------------------------
(***************************************************************************)
(* Proofs about ConnectForm, for any hosts, secrets and phrases.           *)
(***************************************************************************)
EXTENDS ConnectForm, SeqFoldsTheorems, TLAPS

Perhaps(S) == S \cup {None}

Auths == {"password", "key"}

Drafts == [id : Perhaps(IdSet), orig : Auths, oldPassword : {None},
           oldKey : Perhaps(Secrets), oldPhrase : {None},
           password : Perhaps(Secrets), key : Perhaps(Secrets),
           phrase : Perhaps(Phrases)]

Calls == [step : {"idle", "add", "index", "unindex", "list"},
          id : Perhaps(IdSet), blob : Perhaps(SavedHosts)]

FormTypeOK ==
    /\ op \in Calls
    /\ blobs \in [IdSet -> Perhaps(SavedHosts)]
    /\ form \in {"new", "closed"} \cup IdSet
    /\ loaded \in BOOLEAN
    /\ picked \in Perhaps(Secrets)
    /\ vm \in Drafts

(* While a form is open nothing is written; an empty form is in Mode::Add; *)
(* a form that read its host still agrees with the item it read.           *)
FormInv ==
    /\ FormTypeOK
    /\ StoredWithSecret
    /\ form # "closed" => op = Idle
    /\ form = "new" => vm.id = None
    /\ loaded => /\ form \in IdSet /\ vm.id = form
                 /\ blobs[form] \in SavedHosts
                 /\ vm.orig = blobs[form].auth
                 /\ vm.oldKey = DecodedKey(blobs[form])

(* try_save adds what was entered and leaves the mode alone.               *)
LEMMA EnteredKeeps ==
    ASSUME FormTypeOK, NEW password \in Perhaps(Secrets), NEW phrase \in Perhaps(Phrases)
    PROVE  /\ Entered(password, phrase) \in Drafts
           /\ Entered(password, phrase).id = vm.id
           /\ Entered(password, phrase).orig = vm.orig
           /\ Entered(password, phrase).oldKey = vm.oldKey
<1>1. vm \in Drafts /\ picked \in Perhaps(Secrets)
  BY DEF FormTypeOK
<1>2. PICK p \in Perhaps(Secrets), f \in Perhaps(Phrases), k \in Perhaps(Secrets) :
          Entered(password, phrase) = [vm EXCEPT !.password = p, !.phrase = f, !.key = k]
  <2> DEFINE Or(new, old) == IF new = None THEN old ELSE new
  <2>1. /\ Or(password, vm.password) \in Perhaps(Secrets)
        /\ Or(phrase, vm.phrase) \in Perhaps(Phrases)
        /\ Or(picked, vm.key) \in Perhaps(Secrets)
    BY <1>1 DEF Drafts
  <2>2. Entered(password, phrase) =
           [vm EXCEPT !.password = Or(password, vm.password),
                      !.phrase = Or(phrase, vm.phrase), !.key = Or(picked, vm.key)]
    BY <1>1 DEF Entered, Drafts
  <2> HIDE DEF Or
  <2> QED BY <2>1, <2>2
<1> QED BY <1>1, <1>2 DEF Drafts

(* resolve_secrets: a draft that validates gives a complete host.          *)
LEMMA ResolvedIsHost ==
    ASSUME NEW v \in Drafts, NEW auth \in Auths, HasSecret(v, auth)
    PROVE  Resolved(v, auth) \in SavedHosts
<1>0. /\ v.password \in Perhaps(Secrets) /\ v.key \in Perhaps(Secrets)
      /\ v.oldPassword = None /\ v.oldKey \in Perhaps(Secrets)
      /\ v.phrase \in Perhaps(Phrases) /\ v.oldPhrase = None
  BY DEF Drafts
<1>1. Resolved(v, auth).secret \in Secrets
  BY <1>0 DEF Resolved, HasSecret, RequiresFreshSecret, Typed, Existing, Perhaps
<1>2. Resolved(v, auth).phrase \in (IF auth = "key" THEN Perhaps(Phrases) ELSE {None})
  BY <1>0 DEF Resolved, Perhaps
<1>3. Resolved(v, auth) = [auth |-> auth, secret |-> Resolved(v, auth).secret,
                           phrase |-> Resolved(v, auth).phrase]
  BY DEF Resolved
<1> QED BY <1>1, <1>2, <1>3 DEF SavedHosts, Perhaps, Auths

(* What Save hands to the store when the draft is accepted.                *)
LEMMA SaveCases ==
    ASSUME FormInv, NEW auth \in Auths, NEW password \in Perhaps(Secrets),
           NEW phrase \in Perhaps(Phrases), NEW fieldsOk \in BOOLEAN,
           Save(auth, password, phrase, fieldsOk)
    PROVE  /\ op = Idle /\ form # "closed" /\ picked' = None
           /\ vm' = Entered(password, phrase) /\ vm' \in Drafts
           /\ \/ /\ form' = "closed" /\ loaded' = FALSE
                 /\ HasSecret(vm', auth)
                 /\ \E i \in IF vm'.id = None THEN FreshIds ELSE {vm'.id} :
                        i \in IdSet /\ BeginSave(i, Resolved(vm', auth))
              \/ UNCHANGED <<storeVars, form, loaded>>
<1>1. vm' = Entered(password, phrase)
  BY DEF Save
<1>2. Entered(password, phrase).id = vm.id /\ vm' \in Drafts
  BY <1>1, EnteredKeeps DEF FormInv
<1>3. \A i \in IF vm'.id = None THEN FreshIds ELSE {vm'.id} : i \in IdSet
  BY <1>2 DEF FreshIds, Drafts, Perhaps
<1> QED BY <1>1, <1>2, <1>3 DEF Save

(* The steps that leave the form alone.                                    *)
LEMMA StoreStepKeeps == ASSUME FormInv, StoreStep PROVE FormInv'
<1> USE DEF FormInv
<1>0. UNCHANGED <<form, loaded, picked, vm>>
  BY DEF StoreStep
<1>1. CASE AddItem
  <2>1. op # Idle /\ op.blob \in SavedHosts /\ form = "closed"
    BY <1>1 DEF AddItem, Idle, StoredWithSecret
  <2>2. blobs' \in [IdSet -> Perhaps(SavedHosts)]
    BY <1>1, <2>1 DEF AddItem, FormTypeOK, Perhaps
  <2>3. op'.step # "add" /\ op' \in Calls
    BY <1>1 DEF AddItem, Idle, FormTypeOK, Calls, Perhaps
  <2>4. ~loaded
    BY <2>1, FormAssumption
  <2> QED BY <1>0, <2>1, <2>2, <2>3, <2>4 DEF FormTypeOK, StoredWithSecret
<1>2. CASE IndexItem \/ UnindexItem
  <2>1. op # Idle /\ UNCHANGED blobs
    BY <1>2 DEF IndexItem, UnindexItem, Idle
  <2>2. op'.step # "add" /\ op' \in Calls
    BY <1>2 DEF IndexItem, UnindexItem, Idle, FormTypeOK, Calls, Perhaps
  <2> QED BY <1>0, <2>1, <2>2 DEF FormTypeOK, StoredWithSecret
<1>3. CASE List
  <2>1. op' = Idle /\ UNCHANGED blobs
    BY <1>3 DEF List
  <2> QED BY <1>0, <2>1 DEF FormTypeOK, StoredWithSecret, Idle, Calls, Perhaps
<1>4. ASSUME form = "closed", NEW i \in IdSet, BeginDelete(i) PROVE FormInv'
  <2>1. op'.step # "add" /\ op' \in Calls
    BY <1>4 DEF BeginDelete, Calls, Perhaps
  <2>2. blobs' \in [IdSet -> Perhaps(SavedHosts)]
    BY <1>4 DEF BeginDelete, FormTypeOK, Perhaps
  <2>3. ~loaded
    BY <1>4, FormAssumption
  <2> QED BY <1>0, <1>4, <2>1, <2>2, <2>3 DEF FormTypeOK, StoredWithSecret
<1> QED BY <1>1, <1>2, <1>3, <1>4 DEF StoreStep

(* A save keeps the invariant: what it sends to the store is what the      *)
(* form's host needs.                                                      *)
LEMMA SaveKeeps ==
    ASSUME FormInv, NEW auth \in Auths, NEW password \in Perhaps(Secrets),
           NEW phrase \in Perhaps(Phrases), NEW fieldsOk \in BOOLEAN,
           Save(auth, password, phrase, fieldsOk)
    PROVE  FormInv'
<1>0. /\ op = Idle /\ picked' = None /\ vm' \in Drafts
      /\ vm' = Entered(password, phrase)
      /\ vm'.id = vm.id /\ vm'.orig = vm.orig /\ vm'.oldKey = vm.oldKey
  BY SaveCases, EnteredKeeps DEF FormInv
<1>1. CASE UNCHANGED <<storeVars, form, loaded>>
  BY <1>0, <1>1 DEF FormInv, FormTypeOK, StoredWithSecret, storeVars, Perhaps
<1>2. ASSUME form' = "closed", loaded' = FALSE, HasSecret(vm', auth),
             NEW i \in IdSet, BeginSave(i, Resolved(vm', auth))
      PROVE  FormInv'
  <2>1. op'.blob \in SavedHosts /\ op' \in Calls
    BY <1>0, <1>2, ResolvedIsHost DEF BeginSave, Calls, Perhaps
  <2>2. blobs' \in [IdSet -> Perhaps(SavedHosts)]
    BY <1>2 DEF BeginSave, FormInv, FormTypeOK, Perhaps
  <2> QED BY <1>0, <1>2, <2>1, <2>2 DEF FormInv, FormTypeOK, StoredWithSecret, Perhaps
<1> QED BY <1>1, <1>2, SaveCases

(* FormInv holds initially and every step keeps it.                        *)
THEOREM FormInvariant == FormSpec => []FormInv
<1>1. Init => FormInv
  <2> SUFFICES ASSUME Init PROVE FormInv
    OBVIOUS
  <2>1. vm \in Drafts /\ vm.id = None
    BY DEF Init, Blank, Drafts, Perhaps, Auths
  <2>2. blobs \in [IdSet -> Perhaps(SavedHosts)] /\ op.step # "add" /\ op \in Calls
    BY DEF Init, StoreInit, Idle, Perhaps, Calls
  <2> QED BY <2>1, <2>2 DEF Init, FormInv, FormTypeOK, StoredWithSecret, Perhaps
<1>2. FormInv /\ [FormNext]_vars => FormInv'
  <2> SUFFICES ASSUME FormInv, [FormNext]_vars PROVE FormInv'
    OBVIOUS
  <2>1. CASE OpenAdd
    <3>1. vm' \in Drafts /\ vm'.id = None
      BY <2>1 DEF OpenAdd, ResetToAdd, Blank, Drafts, Perhaps, Auths
    <3>2. ~loaded
      BY <2>1, FormAssumption DEF OpenAdd, FormInv
    <3> QED BY <2>1, <3>1, <3>2
          DEF OpenAdd, FormInv, FormTypeOK, StoredWithSecret, storeVars
  <2>2. ASSUME NEW i \in IdSet, OpenEdit(i) PROVE FormInv'
    <3>1. i # "new" /\ i # "closed" /\ form' = i /\ op = Idle /\ UNCHANGED <<storeVars, picked>>
      BY <2>2, FormAssumption DEF OpenEdit
    <3>2. CASE i \in Stored /\ loaded' = TRUE /\ vm' = PrefillEdit(i, blobs[i])
      <4>1. blobs[i] \in SavedHosts
        BY <3>2 DEF Stored, FormInv, FormTypeOK, Perhaps
      <4>2. /\ blobs[i].auth \in Auths
            /\ DecodedKey(blobs[i]) \in Perhaps(Secrets)
        BY <4>1 DEF SavedHosts, DecodedKey, Perhaps, Auths
      <4>3. /\ vm' \in Drafts /\ vm'.id = i /\ vm'.orig = blobs[i].auth
            /\ vm'.oldKey = DecodedKey(blobs[i])
        BY <3>2, <4>2 DEF PrefillEdit, Blank, Drafts, Perhaps,
              DecodedPassword, DecodedPhrase
      <4> QED BY <3>1, <3>2, <4>1, <4>3
            DEF FormInv, FormTypeOK, StoredWithSecret, storeVars
    <3>3. CASE loaded' = FALSE /\ UNCHANGED vm
      BY <3>1, <3>3 DEF FormInv, FormTypeOK, StoredWithSecret, storeVars
    <3> QED BY <2>2, <3>2, <3>3 DEF OpenEdit
  <2>3. CASE PickKey
    BY <2>3 DEF PickKey, FormInv, FormTypeOK, StoredWithSecret, storeVars, Perhaps
  <2>4. CASE Cancel
    BY <2>4 DEF Cancel, FormInv, FormTypeOK, StoredWithSecret, storeVars
  <2>5. CASE StoreStep
    BY <2>5, StoreStepKeeps
  <2>6. CASE Quit
    <3>1. vm' \in Drafts
      BY <2>6 DEF Quit, Blank, Drafts, Perhaps, Auths
    <3>2. op'.step # "add" /\ UNCHANGED blobs /\ op' \in Calls
      BY <2>6 DEF Quit, Die, Idle, Calls, Perhaps
    <3> QED BY <2>6, <3>1, <3>2
          DEF Quit, FormInv, FormTypeOK, StoredWithSecret, Perhaps
  <2>7. ASSUME NEW auth \in Auths, NEW password \in Perhaps(Secrets),
               NEW phrase \in Perhaps(Phrases), NEW fieldsOk \in BOOLEAN,
               Save(auth, password, phrase, fieldsOk)
        PROVE  FormInv'
    BY <2>7, SaveKeeps
  <2>8. CASE UNCHANGED vars
    BY <2>8 DEF vars, storeVars, FormInv, FormTypeOK, StoredWithSecret
  <2> QED BY <2>1, <2>2, <2>3, <2>4, <2>5, <2>6, <2>7, <2>8
        DEF FormNext, Perhaps, Auths
<1> QED BY <1>1, <1>2, PTL DEF FormSpec

(* No host is stored without the secret its way to authenticate needs.     *)
THEOREM HostsHaveSecrets == FormSpec => []StoredWithSecret
<1>1. FormInv => StoredWithSecret
  BY DEF FormInv
<1> QED BY <1>1, FormInvariant, PTL

(* Only Save begins a save.                                                *)
LEMMA OnlySaveSaves ==
    ASSUME FormInv, [FormNext]_vars, SaveStep
    PROVE  \E auth \in Auths, password \in Perhaps(Secrets),
              phrase \in Perhaps(Phrases), fieldsOk \in BOOLEAN :
              /\ Save(auth, password, phrase, fieldsOk)
              /\ HasSecret(vm', auth)
              /\ \E i \in IF vm'.id = None THEN FreshIds ELSE {vm'.id} :
                    BeginSave(i, Resolved(vm', auth))
<1>0. op.step = "idle" /\ op'.step = "add"
  BY DEF SaveStep, Idle
<1>1. ~ UNCHANGED op
  BY <1>0
<1>2. ~ (OpenAdd \/ PickKey \/ Cancel \/ Quit \/ \E i \in IdSet : OpenEdit(i))
  BY <1>0, <1>1 DEF OpenAdd, PickKey, Cancel, OpenEdit, Quit, Die, Idle, storeVars
<1>3. ~ StoreStep
  <2>1. ~ (AddItem \/ IndexItem \/ UnindexItem)
    BY <1>0 DEF AddItem, IndexItem, UnindexItem
  <2>2. ~ List
    <3>1. List => op' = Idle
      BY DEF List
    <3> QED BY <1>0, <3>1 DEF Idle
  <2>3. \A i : ~ BeginDelete(i)
    BY <1>0 DEF BeginDelete
  <2> QED BY <2>1, <2>2, <2>3 DEF StoreStep
<1>4. PICK auth \in Auths, password \in Perhaps(Secrets),
           phrase \in Perhaps(Phrases), fieldsOk \in BOOLEAN :
           Save(auth, password, phrase, fieldsOk)
  BY <1>1, <1>2, <1>3 DEF FormNext, vars, storeVars, Perhaps, Auths
<1>5. ~ UNCHANGED storeVars
  BY <1>1 DEF storeVars
<1> QED BY <1>4, <1>5, SaveCases

(* A save goes to the host the form shows.                                 *)
THEOREM SaveGoesHome == FormSpec => SavesOwnHost
<1>1. ASSUME FormInv, [FormNext]_vars, SaveStep
      PROVE  \/ form = "new" /\ op'.id \notin Stored \cup Range(rows)
             \/ form = op'.id
             \/ form # "new" /\ ~loaded
  <2>1. PICK auth \in Auths, password \in Perhaps(Secrets),
             phrase \in Perhaps(Phrases), fieldsOk \in BOOLEAN :
             /\ Save(auth, password, phrase, fieldsOk)
             /\ \E i \in IF vm'.id = None THEN FreshIds ELSE {vm'.id} :
                   BeginSave(i, Resolved(vm', auth))
    BY <1>1, OnlySaveSaves
  <2>2. vm'.id = vm.id
    <3>1. vm' = Entered(password, phrase)
      BY <2>1 DEF Save
    <3> QED BY <1>1, <3>1, EnteredKeeps DEF FormInv
  <2>3. op'.id \in IF vm.id = None THEN FreshIds ELSE {vm.id}
    BY <2>1, <2>2 DEF BeginSave
  <2>4. CASE form = "new"
    <3>1. op'.id \in FreshIds
      BY <1>1, <2>3, <2>4 DEF FormInv
    <3> QED BY <2>4, <3>1 DEF FreshIds, Stored
  <2>5. CASE loaded /\ form # "new"
    <3>1. form \in IdSet /\ vm.id = form
      BY <1>1, <2>5 DEF FormInv
    <3>2. form # None
      BY <3>1, FormAssumption
    <3> QED BY <2>3, <3>1, <3>2
  <2> QED BY <2>4, <2>5
<1> QED BY <1>1, FormInvariant, PTL DEF FormSpec, SavesOwnHost

(* A key host edited without picking a file keeps its key.                 *)
THEOREM KeyIsCarriedOver == FormSpec => UntouchedKeyKept
<1>1. ASSUME FormInv, [FormNext]_vars, SaveStep, form \in IdSet, loaded,
             vm'.key = None, op'.blob.auth = "key"
      PROVE  op'.blob.secret = blobs[form].secret
  <2>1. PICK auth \in Auths, password \in Perhaps(Secrets),
             phrase \in Perhaps(Phrases), fieldsOk \in BOOLEAN :
             /\ Save(auth, password, phrase, fieldsOk)
             /\ HasSecret(vm', auth)
             /\ \E i \in IF vm'.id = None THEN FreshIds ELSE {vm'.id} :
                   BeginSave(i, Resolved(vm', auth))
    BY <1>1, OnlySaveSaves
  <2>2. vm'.id = form /\ vm'.orig = blobs[form].auth /\ vm'.oldKey = DecodedKey(blobs[form])
    <3>1. vm' = Entered(password, phrase)
      BY <2>1 DEF Save
    <3> QED BY <1>1, <3>1, EnteredKeeps DEF FormInv
  <2>3. op'.blob = Resolved(vm', auth)
    BY <2>1 DEF BeginSave
  <2>4. auth = "key"
    BY <1>1, <2>3 DEF Resolved
  <2>5. ~ RequiresFreshSecret(vm', auth)
    BY <1>1, <2>1, <2>4 DEF HasSecret, Typed
  <2>6. vm'.orig = "key" /\ ~ Switched(vm', auth)
    BY <2>4, <2>5 DEF RequiresFreshSecret, Switched
  <2>7. op'.blob.secret = vm'.oldKey
    BY <1>1, <2>3, <2>4, <2>6 DEF Resolved, Typed, Existing
  <2> QED BY <2>2, <2>6, <2>7 DEF DecodedKey
<1> QED BY <1>1, FormInvariant, PTL DEF FormSpec, UntouchedKeyKept

-----------------------------------------------------------------------------
(* The order of the hosts list.                                            *)

(* Hosts the list still shows although the order has lost them.            *)
Astray == Range(rows) \ Range(order)

(* Unless a keychain call failed: the list shows what it shares with the   *)
(* order in the order's order, and what is astray is neither stored, nor   *)
(* being saved, nor held by the form.                                      *)
PlaceInv ==
    /\ order \in Seq(IdSet) /\ rows \in Seq(IdSet)
    /\ op # Idle => op.id \in IdSet
    /\ listed => op = Idle /\ Range(rows) = Stored
    /\ ~failed =>
          /\ Keep(rows, Range(order)) = Keep(order, Range(rows))
          /\ Astray \cap Stored = {}
          /\ op.step \in {"add", "index"} => op.id \notin Astray
          /\ op.step \in {"unindex", "list"} => blobs[op.id] = None
          /\ op.step # "list" => vm.id \notin Astray

(* reconcile_order, for a complete answer: the stored hosts, those of the  *)
(* order first and as they were.                                           *)
LEMMA ReconciledIs ==
    ASSUME order \in Seq(IdSet), NEW accounts \in SUBSET IdSet
    PROVE  /\ Reconciled(accounts) \in Seq(IdSet)
           /\ Range(Reconciled(accounts)) = accounts
           /\ \A S : S \cap (accounts \ Range(order)) = {}
                 => Keep(Reconciled(accounts), S) = Keep(order, accounts \cap S)
<1> DEFINE known == Keep(order, accounts)
           rest  == Keep(Ids, accounts \ Range(known))
<1>1. known \in Seq(IdSet) /\ Range(known) = Range(order) \cap accounts
  BY KeepType, KeepRange
<1>2. Ids \in Seq(IdSet)
  BY StoreAssumption DEF IdSet
<1>3. rest \in Seq(IdSet) /\ Range(rest) = IdSet \cap (accounts \ Range(known))
  BY <1>2, KeepType, KeepRange DEF IdSet
<1>4. Reconciled(accounts) = known \o rest
  BY DEF Reconciled
<1> HIDE DEF rest, known
<1>5. known \o rest \in Seq(IdSet) /\ Range(known \o rest) = Range(known) \cup Range(rest)
  BY <1>1, <1>3, ConcatProperties, RangeConcatenation
<1>6. ASSUME NEW S, S \cap (accounts \ Range(order)) = {}
      PROVE  Keep(known \o rest, S) = Keep(order, accounts \cap S)
  <2>1. Keep(known \o rest, S) = Keep(known, S) \o Keep(rest, S)
    BY <1>1, <1>3, KeepConcat
  <2>2. Keep(rest, S) = << >>
    <3>1. Range(rest) \cap S = {}
      BY <1>1, <1>3, <1>6
    <3> QED BY <1>3, <3>1, KeepNone
  <2>3. Keep(known, S) = Keep(order, accounts \cap S)
    BY KeepKeep DEF known
  <2>4. Keep(known, S) \in Seq(IdSet)
    BY <1>1, KeepType
  <2>5. Keep(known, S) \o << >> = Keep(known, S)
    BY <2>4, ConcatEmptySeq
  <2> QED BY <2>1, <2>2, <2>3, <2>5
<1>7. Range(known) \cup Range(rest) = accounts
  BY <1>1, <1>3
<1> QED BY <1>4, <1>5, <1>6, <1>7

(* A listing: what was shown before and is shown still keeps its order.    *)
LEMMA ListPlaces ==
    ASSUME FormInv, PlaceInv, List, UNCHANGED vm
    PROVE  PlaceInv' /\ (~failed' => SameOrder(rows, rows'))
<1>1. PICK accounts \in {Stored, {}}, unread \in SUBSET Stored :
          /\ order' = Reconciled(accounts)
          /\ rows' = Keep(order', IdSet \ unread)
          /\ listed' = ~ (accounts # Stored \/ unread # {})
          /\ failed' = (failed \/ accounts # Stored \/ unread # {})
  BY DEF List
<1>2. accounts \in SUBSET IdSet /\ order \in Seq(IdSet) /\ rows \in Seq(IdSet)
  BY DEF Stored, PlaceInv
<1>3. order' \in Seq(IdSet) /\ Range(order') = accounts
  BY <1>1, <1>2, ReconciledIs
<1>4. rows' \in Seq(IdSet) /\ Range(rows') = Range(order') \cap (IdSet \ unread)
  BY <1>1, <1>3, KeepType, KeepRange
<1>5. op' = Idle /\ UNCHANGED blobs /\ Stored' = Stored
  BY DEF List, Stored
<1>6. listed' => Range(rows') = Stored'
  <2> SUFFICES ASSUME listed' PROVE Range(rows') = Stored'
    OBVIOUS
  <2>1. accounts = Stored /\ unread = {}
    BY <1>1
  <2> QED BY <1>2, <1>3, <1>4, <1>5, <2>1
<1>7. ASSUME ~failed'
      PROVE  /\ rows' = order' /\ Range(rows') = Stored
             /\ Keep(order', Range(rows)) = Keep(rows, Stored)
  <2>1. accounts = Stored /\ unread = {} /\ ~failed
    BY <1>1, <1>7
  <2>2. rows' = order' /\ Range(rows') = Stored
    <3>1. rows' = Keep(order', IdSet)
      BY <1>1, <2>1
    <3>2. Range(order') \subseteq IdSet
      BY <1>2, <1>3
    <3>3. Keep(order', IdSet) = order'
      BY <1>3, <3>2, KeepAll
    <3> QED BY <1>3, <2>1, <3>1, <3>3
  <2>3. Keep(order', Range(rows)) = Keep(order, Stored \cap Range(rows))
    <3>1. Range(rows) \cap (Stored \ Range(order)) = {}
      BY <2>1 DEF PlaceInv, Astray
    <3> QED BY <1>1, <1>2, <2>1, <3>1, ReconciledIs
  <2>4. Keep(rows, Stored) = Keep(rows, Range(order) \cap Stored)
    <3>1. Range(rows) \cap Stored = Range(rows) \cap (Range(order) \cap Stored)
      BY <2>1 DEF PlaceInv, Astray
    <3> QED BY <1>2, <3>1, KeepSame
  <2>5. Keep(rows, Range(order) \cap Stored) = Keep(Keep(order, Range(rows)), Stored)
    <3>1. Keep(rows, Range(order) \cap Stored) = Keep(Keep(rows, Range(order)), Stored)
      BY <1>2, KeepKeep
    <3> QED BY <2>1, <3>1 DEF PlaceInv
  <2>6. Keep(Keep(order, Range(rows)), Stored) = Keep(order, Range(rows) \cap Stored)
    BY <1>2, KeepKeep
  <2>7. Range(rows) \cap Stored = Stored \cap Range(rows)
    OBVIOUS
  <2> QED BY <2>2, <2>3, <2>4, <2>5, <2>6, <2>7
<1>8. PlaceInv'
  <2>1. ASSUME ~failed'
        PROVE  /\ Keep(rows', Range(order')) = Keep(order', Range(rows'))
               /\ Astray' = {}
    BY <1>7, <2>1 DEF Astray
  <2> QED BY <1>3, <1>4, <1>5, <1>6, <2>1 DEF PlaceInv, Idle
<1>9. ~failed' => SameOrder(rows, rows')
  BY <1>7 DEF SameOrder
<1> QED BY <1>8, <1>9

(* No host that is out of place is None.                                   *)
LEMMA NoneNotShown == PlaceInv => None \notin Astray
BY FormAssumption, RangeOfSeq DEF PlaceInv, Astray

(* A host that joins the order without being astray, and one that leaves   *)
(* it, do not change the order of those the list shows.                    *)
LEMMA JoinKeeps ==
    ASSUME NEW X, NEW s \in Seq(X), NEW t \in Seq(X), NEW x \in X,
           x \notin Range(t), Keep(t, Range(s)) = Keep(s, Range(t))
    PROVE  Keep(t, Range(Append(s, x))) = Keep(Append(s, x), Range(t))
<1>1. Range(Append(s, x)) = Range(s) \cup {x}
  BY RangeAppend
<1>2. Keep(t, Range(s) \cup {x}) = Keep(t, Range(s))
  <2>1. Range(t) \cap (Range(s) \cup {x}) = Range(t) \cap Range(s)
    OBVIOUS
  <2> QED BY <2>1, KeepSame
<1>3. Keep(Append(s, x), Range(t)) = Keep(s, Range(t))
  BY KeepAppend
<1> QED BY <1>1, <1>2, <1>3

(* Two lists with the common elements in the same order keep that when     *)
(* some are filtered from one.                                             *)
LEMMA LeaveKeeps ==
    ASSUME NEW X, NEW s \in Seq(X), NEW t \in Seq(X), NEW S,
           Keep(t, Range(s)) = Keep(s, Range(t))
    PROVE  Keep(t, Range(Keep(s, S))) = Keep(Keep(s, S), Range(t))
<1>1. Range(Keep(s, S)) = Range(s) \cap S
  BY KeepRange
<1>2. Keep(t, Range(s) \cap S) = Keep(Keep(t, Range(s)), S)
  BY KeepKeep
<1>3. Keep(Keep(s, Range(t)), S) = Keep(s, Range(t) \cap S)
  BY KeepKeep
<1>4. Keep(Keep(s, S), Range(t)) = Keep(s, S \cap Range(t))
  BY KeepKeep
<1>5. S \cap Range(t) = Range(t) \cap S
  OBVIOUS
<1> QED BY <1>1, <1>2, <1>3, <1>4, <1>5

(* The ends of a save and of a deletion.                                   *)
LEMMA IndexPlaces ==
    ASSUME FormInv, PlaceInv, IndexItem, UNCHANGED vm
    PROVE  PlaceInv'
<1>1. /\ op.step = "index" /\ op' = Idle /\ UNCHANGED <<blobs, rows, listed, failed>>
      /\ order' = IF Contains(order, op.id) THEN order ELSE Append(order, op.id)
  BY DEF IndexItem
<1>2. order \in Seq(IdSet) /\ rows \in Seq(IdSet) /\ ~listed /\ op.id \in IdSet
  BY <1>1 DEF PlaceInv, Idle
<1>3. CASE order' = order
  BY <1>1, <1>2, <1>3 DEF PlaceInv, Idle, Astray, Stored
<1>4. CASE order' # order
  <2>1. order' = Append(order, op.id) /\ ~ Contains(order, op.id)
    BY <1>1, <1>4
  <2>2. op.id \notin Range(order)
    <3>1. Range(order) = {order[i] : i \in 1 .. Len(order)}
      BY <1>2, RangeEquality
    <3> QED BY <2>1, <3>1 DEF Contains
  <2>3. order' \in Seq(IdSet) /\ Range(order') = Range(order) \cup {op.id}
    BY <1>2, <2>1, AppendProperties, RangeAppend
  <2>4. ASSUME ~failed'
        PROVE  /\ Keep(rows', Range(order')) = Keep(order', Range(rows'))
               /\ Astray' \subseteq Astray /\ Astray \cap Stored = {} /\ vm.id \notin Astray
    <3>1. ~failed /\ op.id \notin Range(rows)
      BY <1>1, <2>2, <2>4 DEF PlaceInv, Astray
    <3>2. Keep(rows, Range(order)) = Keep(order, Range(rows))
      BY <3>1 DEF PlaceInv
    <3>3. Keep(rows, Range(Append(order, op.id))) = Keep(Append(order, op.id), Range(rows))
      BY <1>2, <3>1, <3>2, JoinKeeps
    <3>4. Astray' \subseteq Astray
      BY <1>1, <2>3 DEF Astray
    <3>5. Astray \cap Stored = {} /\ vm.id \notin Astray
      BY <1>1, <3>1 DEF PlaceInv
    <3> QED BY <1>1, <2>1, <3>3, <3>4, <3>5
  <2>5. Stored' = Stored
    BY <1>1 DEF Stored
  <2> QED BY <1>1, <1>2, <2>3, <2>4, <2>5 DEF PlaceInv, Idle
<1> QED BY <1>3, <1>4

(* Taking a deleted host from the order moves no other.                    *)
LEMMA UnindexPlaces ==
    ASSUME FormInv, PlaceInv, UnindexItem, UNCHANGED vm
    PROVE  PlaceInv'
<1>1. /\ op.step = "unindex" /\ op' = [op EXCEPT !.step = "list"]
      /\ order' = Keep(order, IdSet \ {op.id}) /\ UNCHANGED <<blobs, rows, listed, failed>>
  BY DEF UnindexItem
<1>2. /\ order \in Seq(IdSet) /\ rows \in Seq(IdSet) /\ ~listed /\ op.id \in IdSet
      /\ op'.id = op.id /\ op'.step = "list"
  BY <1>1 DEF PlaceInv, Idle, FormInv, FormTypeOK, Calls
<1>3. /\ order' \in Seq(IdSet) /\ Range(order') = Range(order) \cap (IdSet \ {op.id})
      /\ Range(order) \subseteq IdSet
  BY <1>1, <1>2, KeepType, KeepRange, RangeOfSeq
<1>4. ASSUME ~failed'
      PROVE  /\ Keep(rows', Range(order')) = Keep(order', Range(rows'))
             /\ Astray' \cap Stored' = {} /\ blobs'[op'.id] = None
  <2>1. ~failed /\ Keep(rows, Range(order)) = Keep(order, Range(rows))
    BY <1>1, <1>4 DEF PlaceInv
  <2>2. Keep(rows, Range(order')) = Keep(order', Range(rows))
    BY <1>1, <1>2, <2>1, LeaveKeeps
  <2>3. blobs[op.id] = None /\ Astray \cap Stored = {}
    BY <1>1, <2>1 DEF PlaceInv
  <2>4. Astray' \subseteq Astray \cup {op.id} /\ Stored' = Stored
    BY <1>1, <1>3 DEF Astray, Stored
  <2>5. op.id \notin Stored
    BY <2>3 DEF Stored
  <2> QED BY <1>1, <1>2, <2>2, <2>3, <2>4, <2>5
<1> QED BY <1>1, <1>2, <1>3, <1>4 DEF PlaceInv

(* The steps of the store that leave the order and the rows alone.         *)
LEMMA ItemPlaces ==
    ASSUME FormInv, PlaceInv, AddItem \/ \E i \in IdSet : BeginDelete(i), UNCHANGED vm
    PROVE  PlaceInv'
<1>1. UNCHANGED <<order, rows>> /\ Astray' = Astray /\ blobs \in [IdSet -> Perhaps(SavedHosts)]
  BY DEF AddItem, BeginDelete, Astray, FormInv, FormTypeOK
<1>2. CASE AddItem
  <2>1. op.step = "add" /\ op # Idle /\ op.id \in IdSet /\ UNCHANGED listed /\ ~listed
    BY <1>2 DEF AddItem, PlaceInv, Idle
  <2>2. /\ op' # Idle => op'.id \in IdSet
        /\ ~failed' => /\ op' = [step |-> "index", id |-> op.id, blob |-> None] /\ ~failed
                       /\ blobs' = [blobs EXCEPT ![op.id] = op.blob]
    BY <1>2, <2>1 DEF AddItem
  <2>3. ~failed' => Stored' \subseteq Stored \cup {op.id}
    BY <1>1, <2>1, <2>2 DEF Stored
  <2>4. ~failed' => Astray \cap Stored' = {} /\ op.id \notin Astray /\ vm.id \notin Astray
    BY <2>1, <2>2, <2>3 DEF PlaceInv
  <2> QED BY <1>1, <2>1, <2>2, <2>4 DEF PlaceInv
<1>3. ASSUME NEW i \in IdSet, BeginDelete(i) PROVE PlaceInv'
  <2>1. /\ op = Idle /\ op' = [step |-> "unindex", id |-> i, blob |-> None] /\ listed' = FALSE
        /\ op.step = "idle"
    BY <1>3 DEF BeginDelete, Idle
  <2>2. ~failed' => ~failed /\ blobs' = [blobs EXCEPT ![i] = None]
    BY <1>3 DEF BeginDelete
  <2>3. ~failed' => Stored' \subseteq Stored /\ blobs'[i] = None
    BY <1>1, <2>2 DEF Stored
  <2>4. ~failed' => Astray \cap Stored' = {} /\ vm.id \notin Astray
    BY <2>1, <2>2, <2>3 DEF PlaceInv
  <2> QED BY <1>1, <2>1, <2>2, <2>3, <2>4 DEF PlaceInv
<1> QED BY <1>2, <1>3

(* Only a host that is not astray is saved.                                *)
LEMMA SavePlaces ==
    ASSUME FormInv, PlaceInv, NEW auth \in Auths, NEW password \in Perhaps(Secrets),
           NEW phrase \in Perhaps(Phrases), NEW fieldsOk \in BOOLEAN,
           Save(auth, password, phrase, fieldsOk)
    PROVE  PlaceInv' /\ UNCHANGED rows
<1>0. /\ op = Idle /\ op.step = "idle" /\ vm'.id = vm.id
      /\ blobs \in [IdSet -> Perhaps(SavedHosts)]
  <2>1. op = Idle /\ vm' = Entered(password, phrase) /\ FormTypeOK
    BY SaveCases DEF FormInv
  <2> QED BY <2>1, EnteredKeeps DEF FormTypeOK, Idle
<1>1. CASE UNCHANGED <<storeVars, form, loaded>>
  BY <1>0, <1>1 DEF PlaceInv, storeVars, Astray, Stored
<1>2. ASSUME NEW i \in IF vm'.id = None THEN FreshIds ELSE {vm'.id}, i \in IdSet,
             NEW b, BeginSave(i, b)
      PROVE  PlaceInv' /\ UNCHANGED rows
  <2>1. /\ op' = [step |-> "add", id |-> i, blob |-> b] /\ listed' = FALSE
        /\ UNCHANGED <<order, rows>> /\ Astray' = Astray
    BY <1>2 DEF BeginSave, Astray
  <2>2. ~failed' => ~failed /\ blobs' = [blobs EXCEPT ![i] = None]
    BY <1>2 DEF BeginSave
  <2>3. ~failed' => Stored' \subseteq Stored
    BY <1>0, <2>2 DEF Stored
  <2>4. ~failed' => Astray \cap Stored' = {} /\ vm.id \notin Astray
    BY <1>0, <2>2, <2>3 DEF PlaceInv
  <2>5. ~failed' => i \notin Astray
    BY <1>0, <1>2, <2>4 DEF FreshIds, Astray
  <2> QED BY <1>0, <1>2, <2>1, <2>2, <2>4, <2>5 DEF PlaceInv
<1> QED BY <1>1, <1>2, SaveCases

(* No other step changes what the list shows.                              *)
LEMMA PlaceStep ==
    ASSUME FormInv, PlaceInv, [FormNext]_vars
    PROVE  PlaceInv' /\ (UNCHANGED rows \/ (~failed' => SameOrder(rows, rows')))
<1>1. CASE StoreStep
  <2>1. UNCHANGED vm
    BY <1>1 DEF StoreStep
  <2>2. CASE List
    BY <2>1, <2>2, ListPlaces
  <2>3. CASE IndexItem
    BY <2>1, <2>3, IndexPlaces DEF IndexItem
  <2>4. CASE UnindexItem
    BY <2>1, <2>4, UnindexPlaces DEF UnindexItem
  <2>5. CASE AddItem \/ \E i \in IdSet : BeginDelete(i)
    BY <2>1, <2>5, ItemPlaces DEF AddItem, BeginDelete
  <2> QED BY <1>1, <2>2, <2>3, <2>4, <2>5 DEF StoreStep
<1>2. CASE OpenAdd \/ PickKey \/ Cancel \/ UNCHANGED vars
  <2>1. UNCHANGED storeVars
    BY <1>2 DEF OpenAdd, PickKey, Cancel, vars
  <2>2. UNCHANGED vm \/ vm'.id = None
    BY <1>2 DEF OpenAdd, PickKey, Cancel, vars, ResetToAdd, Blank
  <2> QED BY <2>1, <2>2, NoneNotShown DEF PlaceInv, storeVars, Astray, Stored
<1>3. ASSUME NEW i \in IdSet, OpenEdit(i) PROVE PlaceInv' /\ UNCHANGED rows
  <2>1. UNCHANGED storeVars /\ (UNCHANGED vm \/ (i \in Stored /\ vm'.id = i))
    BY <1>3 DEF OpenEdit, PrefillEdit, Blank
  <2> QED BY <2>1 DEF PlaceInv, storeVars, Astray, Stored
<1>4. CASE Quit
  <2>1. /\ op' = Idle /\ listed' = FALSE /\ UNCHANGED <<blobs, order, rows, failed>>
        /\ vm'.id = None
    BY <1>4 DEF Quit, Die, Blank
  <2> QED BY <2>1, NoneNotShown DEF PlaceInv, Astray, Stored, Idle
<1>5. ASSUME NEW auth \in Auths, NEW password \in Perhaps(Secrets),
             NEW phrase \in Perhaps(Phrases), NEW fieldsOk \in BOOLEAN,
             Save(auth, password, phrase, fieldsOk)
      PROVE  PlaceInv' /\ UNCHANGED rows
  BY <1>5, SavePlaces
<1> QED BY <1>1, <1>2, <1>3, <1>4, <1>5 DEF FormNext, Perhaps, Auths, vars, storeVars

(* Both invariants hold of every behaviour.                                *)
LEMMA PlaceInvariant == FormSpec => [](FormInv /\ PlaceInv)
<1>1. Init => PlaceInv
  <2> SUFFICES ASSUME Init PROVE PlaceInv
    OBVIOUS
  <2>1. /\ order = << >> /\ rows = << >> /\ op = Idle /\ ~listed /\ vm.id = None
        /\ \A i \in IdSet : blobs[i] = None
    BY DEF Init, StoreInit, Blank
  <2>2. Range(rows) = {} /\ Stored = {} /\ order \in Seq(IdSet)
    BY <2>1, RangeEmpty, EmptySeq DEF Stored
  <2> QED BY <2>1, <2>2 DEF PlaceInv, Idle, Astray
<1> QED BY <1>1, PlaceStep, FormInvariant, PTL DEF FormSpec

(* A listing that read everything shows each stored host and no other.     *)
THEOREM ListingIsExact == FormSpec => []ListingExact
<1>1. PlaceInv => ListingExact
  BY DEF PlaceInv, ListingExact
<1> QED BY <1>1, PlaceInvariant, PTL

(* Unless a keychain call failed, no two hosts swap places in the list.    *)
THEOREM PlacesKept == FormSpec => HostsKeepPlace
<1>1. FormInv /\ PlaceInv /\ [FormNext]_vars =>
          [~failed' => SameOrder(rows, rows')]_storeVars
  <2> SUFFICES ASSUME FormInv, PlaceInv, [FormNext]_vars
               PROVE  ~failed' => SameOrder(rows, rows')
    OBVIOUS
  <2>1. UNCHANGED rows => SameOrder(rows, rows')
    BY DEF SameOrder
  <2> QED BY <2>1, PlaceStep
<1> QED BY <1>1, PlaceInvariant, PTL DEF FormSpec, HostsKeepPlace

=============================================================================
