--------------------------- MODULE StateStoreSpec ---------------------------
(* The operations of StateStore in any order, as one specification.        *)
EXTENDS StateStore

CONSTANT Data   \* what is stored for a volume; None is not an element

StoreInit ==
    /\ entry \in [Ids -> Data \cup {None}]
    /\ blocked = {}
    /\ unsynced = [id \in Ids |-> {}]

StoreNext ==
    \/ \E id \in Ids, d \in Data : SMCreate(id, d) \/ SMCreateFails(id, d)
    \/ \E id \in Ids : SMDelete(id) \/ SMDeleteFails(id)
    \/ SMPowerLoss

StoreSpec == StoreInit /\ [][StoreNext]_storeVars

=============================================================================
