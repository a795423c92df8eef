------------------------------ MODULE KVStore ------------------------------
(***************************************************************************)
(* What the calls of apue_db.h promise to processes that share a database: *)
(* each db_fetch, db_delete and db_store takes effect at one moment        *)
(* between its call and its return, on one table from keys to data.        *)
(***************************************************************************)
CONSTANTS Procs, Keys, Vals,
          None       \* a key without a record

VARIABLES table,     \* key -> its data, or None
          pending,   \* process -> the call it is in, or NoCall
          result     \* process -> what its last call returned

vars == <<table, pending, result>>

NoCall == [op |-> "none"]
Calls == [op : {"fetch", "delete", "insert", "replace", "store"}, key : Keys, val : Vals]

Init == /\ table = [k \in Keys |-> None]
        /\ pending = [p \in Procs |-> NoCall]
        /\ result = [p \in Procs |-> "none"]

Call(p) == /\ pending[p] = NoCall
           /\ result' = [result EXCEPT ![p] = "none"]
           /\ UNCHANGED table
           /\ pending'[p] \in Calls
           /\ pending' = [pending EXCEPT ![p] = pending'[p]]

Returns(p, r) == /\ result' = [result EXCEPT ![p] = r]
                 /\ pending' = [pending EXCEPT ![p] = NoCall]

Old(p) == table[pending[p].key]
Set(p, v) == table' = [table EXCEPT ![pending[p].key] = v]

Fetch(p) == /\ pending[p].op = "fetch"
            /\ Returns(p, Old(p))
            /\ UNCHANGED table

Delete(p) == /\ pending[p].op = "delete"
             /\ Returns(p, IF Old(p) = None THEN "missing" ELSE "ok")
             /\ Set(p, None)

(* DB_INSERT wants a new key, DB_REPLACE an old one, DB_STORE either.      *)
Store(p) == /\ \/ pending[p].op = "store"
               \/ pending[p].op = "insert" /\ Old(p) = None
               \/ pending[p].op = "replace" /\ Old(p) # None
            /\ Returns(p, "ok")
            /\ Set(p, pending[p].val)

StoreFails(p) == /\ \/ pending[p].op = "insert" /\ Old(p) # None /\ Returns(p, "exists")
                    \/ pending[p].op = "replace" /\ Old(p) = None /\ Returns(p, "missing")
                 /\ UNCHANGED table

Next == \E p \in Procs : Call(p) \/ Fetch(p) \/ Delete(p) \/ Store(p) \/ StoreFails(p)

Spec == Init /\ [][Next]_vars
=============================================================================
