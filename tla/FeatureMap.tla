----------------------------- MODULE FeatureMap -----------------------------
(***************************************************************************)
(* What the interface fogit.Repository (pkg/fogit/repository.go) promises  *)
(* of a store of features, as far as it can be seen from the IDs and the   *)
(* names: a map from IDs to names, changed by one call at a time and in    *)
(* one entry at a time.                                                    *)
(***************************************************************************)
CONSTANTS Ids,   \* feature IDs
          Names, \* feature names
          None   \* no feature

VARIABLE store

Init == store = [id \in Ids |-> None]

Create(id, name) ==
    /\ store[id] = None
    /\ store' = [store EXCEPT ![id] = name]

Update(id, name) ==
    /\ store[id] # None
    /\ store' = [store EXCEPT ![id] = name]

Delete(id) ==
    /\ store[id] # None
    /\ store' = [store EXCEPT ![id] = None]

Next ==
    \E id \in Ids :
        \/ \E name \in Names : Create(id, name) \/ Update(id, name)
        \/ Delete(id)

Spec == Init /\ [][Next]_store
=============================================================================
