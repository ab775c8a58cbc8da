----------------------------- MODULE HostsStore -----------------------------
(***************************************************************************)
(* The saved hosts: one keychain item per host and, in the user defaults,  *)
(* the order of their ids (hosts_store.rs).  Every call runs on the main   *)
(* thread, so calls do not interleave, but the app may die between the     *)
(* two stores' writes, and any keychain call may fail: the results of the  *)
(* deletions are ignored, a failed query counts as an empty answer.        *)
(***************************************************************************)
EXTENDS Naturals, Sequences, FiniteSets, SequencesExt, SeqFolds

CONSTANTS
    Ids,      \* ids of hosts: a sequence, in the order in which ids sort
    Blobs,    \* what an item can hold
    None      \* no item, no id

ASSUME StoreAssumption ==
    None \notin Blobs /\ Ids \in Seq(Range(Ids)) /\ IsInjective(Ids)

VARIABLES
    blobs,    \* the keychain items, by id
    order,    \* the ids in the user defaults
    op,       \* the call in progress: the next store it writes
    rows,     \* ids the hosts list showed last
    listed,   \* history: rows are of a complete listing, nothing written since
    failed    \* history: a keychain call has failed

storeVars == <<blobs, order, op, rows, listed, failed>>

IdSet  == Range(Ids)
Stored == {i \in IdSet : blobs[i] # None}
Idle   == [step |-> "idle", id |-> None, blob |-> None]

StoreInit ==
    /\ blobs = [i \in IdSet |-> None] /\ order = << >>
    /\ op = Idle /\ rows = << >> /\ listed = FALSE /\ failed = FALSE

-----------------------------------------------------------------------------
(* save_blob first deletes any item of the id.  When the deletion fails    *)
(* the item is still there and the add will be refused.                    *)
BeginSave(i, b) ==
    /\ op = Idle
    /\ op' = [step |-> "add", id |-> i, blob |-> b]
    /\ \/ blobs' = [blobs EXCEPT ![i] = None] /\ UNCHANGED failed
       \/ blobs[i] # None /\ failed' = TRUE /\ UNCHANGED blobs
    /\ listed' = FALSE
    /\ UNCHANGED <<order, rows>>

(* SecItemAdd: refused for an existing item, or failing for other reasons; *)
(* save then returns false before it looks at the order.                   *)
AddItem ==
    /\ op.step = "add"
    /\ \/ /\ blobs[op.id] = None
          /\ blobs' = [blobs EXCEPT ![op.id] = op.blob]
          /\ op' = [step |-> "index", id |-> op.id, blob |-> None]
          /\ UNCHANGED failed
       \/ op' = Idle /\ failed' = TRUE /\ UNCHANGED blobs
    /\ UNCHANGED <<order, rows, listed>>

(* Mutant: saving a host again moves it to the end of the list.            *)
IndexMoves ==
    /\ op.step = "index"
    /\ order' = Append(Keep(order, IdSet \ {op.id}), op.id)
    /\ op' = Idle
    /\ UNCHANGED <<blobs, rows, listed, failed>>

IndexItem ==
    /\ op.step = "index"
    /\ order' = IF Contains(order, op.id) THEN order ELSE Append(order, op.id)
    /\ op' = Idle
    /\ UNCHANGED <<blobs, rows, listed, failed>>

(* delete: the item, whose deletion may fail silently, then the order;     *)
(* both callers list the hosts right after.                                *)
BeginDelete(i) ==
    /\ op = Idle
    /\ op' = [step |-> "unindex", id |-> i, blob |-> None]
    /\ \/ blobs' = [blobs EXCEPT ![i] = None] /\ UNCHANGED failed
       \/ blobs[i] # None /\ failed' = TRUE /\ UNCHANGED blobs
    /\ listed' = FALSE
    /\ UNCHANGED <<order, rows>>

UnindexItem ==
    /\ op.step = "unindex"
    /\ order' = Keep(order, IdSet \ {op.id})
    /\ op' = [op EXCEPT !.step = "list"]
    /\ UNCHANGED <<blobs, rows, listed, failed>>

(* Mutant: items that the order lacks are not picked up.                   *)
ReconciledKnown(accounts) == Keep(order, accounts)

(* reconcile_order: the known ids that have an item, in their order, then  *)
(* the items the order lacks, sorted.                                      *)
Reconciled(accounts) ==
    LET known == Keep(order, accounts)
    IN  known \o Keep(Ids, accounts \ Range(known))

(* list_snapshot_json and the reload of the rows.  A failed query sees no  *)
(* account and the reconciled order is written all the same; an item that  *)
(* cannot be read is skipped.                                              *)
List ==
    /\ op.step \in {"idle", "list"}
    /\ op' = Idle
    /\ \E accounts \in {Stored, {}}, unread \in SUBSET Stored :
          LET bad == accounts # Stored \/ unread # {}
          IN  /\ order' = Reconciled(accounts)
              /\ rows' = Keep(order', IdSet \ unread)
              /\ listed' = ~bad
              /\ failed' = (failed \/ bad)
    /\ UNCHANGED blobs

(* The app dies; what it wrote stays.                                      *)
Die ==
    /\ op' = Idle /\ listed' = FALSE
    /\ UNCHANGED <<blobs, order, rows, failed>>

-----------------------------------------------------------------------------
(* A listing that read everything shows each stored host and no other:     *)
(* a host whose save was cut short before the order was written comes back *)
(* and one whose deletion was cut short goes.                              *)
ListingExact == listed => Range(rows) = Stored

(* s has the ids it shares with t in the order of t.                       *)
SameOrder(s, t) ==
    Keep(s, Range(t)) = Keep(t, Range(s))

(* Hosts keep their places: unless a keychain call failed, editing,        *)
(* deleting, dying and listing never change the order of two hosts that    *)
(* the list shows before and after.                                        *)
HostsKeepPlace == [][~failed' => SameOrder(rows, rows')]_storeVars

=============================================================================
