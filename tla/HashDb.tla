------------------------------- MODULE HashDb ------------------------------
(***************************************************************************)
(* The database library of apue.3e (db/db.c): an index file with a free    *)
(* list and hash chains of index records, a data file, and fcntl record    *)
(* locks.  Several processes have the database open; each runs one call at *)
(* a time on a handle of its own.                                          *)
(*                                                                         *)
(* Every step is one access of a file, with the lock taken just before it  *)
(* or released just after it; between two steps other processes run.  An   *)
(* offset in a file is the number of the record there, 0 the null pointer. *)
(***************************************************************************)
EXTENDS Integers, Sequences, FiniteSets

CONSTANTS Procs,       \* processes that fetch, delete and store
          Scanners,    \* processes that only walk the records with db_nextrec
          Keys, Vals,
          Ops,         \* calls made: fetch, delete, insert, replace, store
          Chains,      \* the hash table
          Hash,        \* key -> its chain (_db_hash)
          KeyLen,      \* key -> its length
          DataLen,     \* data -> its length
          None,        \* no data
          Blank,       \* a key or data overwritten with spaces
          FREE,        \* FREE_OFF: the free list ptr, and the lock on its byte
          IDXEND,      \* lock on the index file past the hash table
          DATFILE,     \* lock on the whole data file
          MaxRecords   \* bound on the records of a file

ASSUME HashAssumption == Hash \in [Keys -> Chains]
ASSUME LenAssumption == /\ KeyLen \in [Keys -> Nat]
                        /\ DataLen \in [Vals -> Nat]
ASSUME PlacesAssumption == /\ FREE # IDXEND /\ FREE # DATFILE /\ IDXEND # DATFILE
                           /\ {FREE, IDXEND, DATFILE} \cap Chains = {}
                           /\ (Chains \cup {FREE, IDXEND, DATFILE}) \cap Nat = {}
ASSUME ProcsAssumption == Procs \cap Scanners = {}
ASSUME OpsAssumption == Ops \subseteq {"fetch", "delete", "insert", "replace", "store"}
ASSUME BlankAssumption == None \notin Vals /\ Blank \notin Vals \cup Keys

VARIABLES ptr,       \* chain ptr fields: FREE, a chain, or an index record
          idx,       \* index records, without their chain ptr
          dat,       \* data records
          readers,   \* lock -> processes that hold it for reading
          writer,    \* lock -> processes that hold it for writing
          db,        \* process -> its DB structure and the call it is in
          table,     \* what the calls that took effect have stored
          result,    \* process -> what its last call returned
          seen       \* scanner -> what its last db_nextrec returned

vars == <<ptr, idx, dat, readers, writer, db, table, result, seen>>

Locks == Chains \cup {FREE, IDXEND, DATFILE}

(* The files as db_open creates them, and a handle of every process.       *)
Init == /\ ptr = [x \in Chains \cup {FREE} |-> 0]
        /\ idx = <<>>
        /\ dat = <<>>
        /\ readers = [x \in Locks |-> {}]
        /\ writer = [x \in Locks |-> {}]
        /\ db = [p \in Procs \cup Scanners |-> [pc |-> "idle"]]
        /\ table = [k \in Keys |-> None]
        /\ result = [p \in Procs |-> "none"]
        /\ seen = [s \in Scanners |-> [key |-> None, val |-> None]]

-----------------------------------------------------------------------------
(* The locks (readw_lock, writew_lock and un_lock of apue.h).              *)
ReadLock(p, x) == /\ writer[x] = {}
                  /\ readers' = [readers EXCEPT ![x] = @ \cup {p}]
                  /\ UNCHANGED writer

WriteLock(p, x) == /\ writer[x] = {} /\ readers[x] = {}
                   /\ writer' = [writer EXCEPT ![x] = {p}]
                   /\ UNCHANGED readers

UnLock(p, x) == /\ writer' = [writer EXCEPT ![x] = @ \ {p}]
                /\ readers' = [readers EXCEPT ![x] = @ \ {p}]

Files == <<ptr, idx, dat>>
LockTable == <<readers, writer>>
Answers == <<table, result, seen>>

At(p, l) == db[p].pc = l
Goto(p, l) == db' = [db EXCEPT ![p].pc = l]
Return(p) == db' = [db EXCEPT ![p] = [pc |-> "idle"]]
Chain(p) == Hash[db[p].key]

(* A call takes effect: the table changes and the result is known.         *)
TakesEffect(p, k, v, r) == /\ table' = [table EXCEPT ![k] = v]
                           /\ result' = [result EXCEPT ![p] = r]
                           /\ UNCHANGED seen

(* Bound: a db_store only starts while the files have room for its record. *)
Storing(p) == ~At(p, "idle") /\ db[p].op \in {"insert", "replace", "store"}
RoomLeft == Len(idx) + Cardinality({p \in Procs : Storing(p)}) < MaxRecords

-----------------------------------------------------------------------------
(* _db_find_and_lock *)

(* Mutant: db_fetch does not lock the chain.                               *)
LockWriters(p, k, op) == IF op = "fetch" THEN UNCHANGED LockTable ELSE WriteLock(p, Hash[k])

Lock(p, k, op) == IF op = "fetch" THEN ReadLock(p, Hash[k]) ELSE WriteLock(p, Hash[k])

(* db_fetch, db_delete or db_store is called: nothing happens before the   *)
(* hash chain is locked and its first ptr is read.                         *)
Call(p) ==
  /\ At(p, "idle")
  /\ \E k \in Keys, v \in Vals, op \in Ops :
       /\ IF op \in {"fetch", "delete"} THEN v = CHOOSE u \in Vals : TRUE ELSE RoomLeft
       /\ Lock(p, k, op)
       /\ db' = [db EXCEPT ![p] =
                   [pc |-> "find", op |-> op, key |-> k, val |-> v, ptroff |-> Hash[k],
                    ptrval |-> 0, saveptr |-> 0, idxoff |-> ptr[Hash[k]], datoff |-> 0]]
  /\ result' = [result EXCEPT ![p] = "none"]
  /\ UNCHANGED <<Files, table, seen>>

(* _db_readidx: the current record of handle p becomes the one at off.     *)
ReadIdx(p, o, l) ==
  db' = [db EXCEPT ![p].pc = l, ![p].ptrval = ptr[o], ![p].datoff = idx[o].datoff]

Find(p) ==
  /\ At(p, "find")
  /\ LET o == db[p].idxoff IN
       \/ /\ o # 0 /\ idx[o].key = db[p].key
          /\ ReadIdx(p, o, "found")
       \/ /\ o # 0 /\ idx[o].key # db[p].key
          /\ db' = [db EXCEPT ![p].ptroff = o, ![p].idxoff = ptr[o]]
  /\ UNCHANGED <<Files, LockTable, Answers>>

(* The calls that end with the search.                                     *)
Missing(p) == At(p, "find") /\ db[p].idxoff = 0

NotFound(p) ==
  /\ Missing(p)
  /\ \/ db[p].op = "fetch" /\ TakesEffect(p, db[p].key, table[db[p].key], None)
     \/ db[p].op \in {"delete", "replace"}
        /\ TakesEffect(p, db[p].key, table[db[p].key], "missing")
  /\ UnLock(p, Chain(p))
  /\ Return(p)
  /\ UNCHANGED Files

(* _db_readdat *)
Fetched(p) ==
  /\ At(p, "found") /\ db[p].op = "fetch"
  /\ TakesEffect(p, db[p].key, table[db[p].key], dat[db[p].datoff].val)
  /\ UnLock(p, Chain(p))
  /\ Return(p)
  /\ UNCHANGED Files

InsertFails(p) ==
  /\ At(p, "found") /\ db[p].op = "insert"
  /\ TakesEffect(p, db[p].key, table[db[p].key], "exists")
  /\ UnLock(p, Chain(p))
  /\ Return(p)
  /\ UNCHANGED Files

-----------------------------------------------------------------------------
(* _db_dodelete, for db_delete and for db_store of data of another length  *)

SameLength(p) == idx[db[p].idxoff].datlen = DataLen[db[p].val]

DeleteStart(p) ==
  /\ At(p, "found")
  /\ db[p].op = "delete" \/ (db[p].op \in {"replace", "store"} /\ ~SameLength(p))
  /\ WriteLock(p, FREE)
  /\ Goto(p, "del_dat")
  /\ UNCHANGED <<Files, Answers>>

DeleteDat(p) ==
  /\ At(p, "del_dat")
  /\ dat' = [dat EXCEPT ![db[p].datoff].val = Blank]
  /\ Goto(p, "del_idx")
  /\ UNCHANGED <<ptr, idx, LockTable, Answers>>

DeleteIdx(p) ==
  /\ At(p, "del_idx")
  /\ ptr' = [ptr EXCEPT ![db[p].idxoff] = ptr[FREE]]
  /\ idx' = [idx EXCEPT ![db[p].idxoff].key = Blank]
  /\ db' = [db EXCEPT ![p].pc = "del_free", ![p].saveptr = db[p].ptrval]
  /\ UNCHANGED <<dat, LockTable, Answers>>

DeleteFree(p) ==
  /\ At(p, "del_free")
  /\ ptr' = [ptr EXCEPT ![FREE] = db[p].idxoff]
  /\ Goto(p, "del_chain")
  /\ UNCHANGED <<idx, dat, LockTable, Answers>>

DeleteChain(p) ==
  /\ At(p, "del_chain")
  /\ ptr' = [ptr EXCEPT ![db[p].ptroff] = db[p].saveptr]
  /\ UnLock(p, FREE)
  /\ Goto(p, "deleted")
  /\ UNCHANGED <<idx, dat, Answers>>

Deleted(p) ==
  /\ At(p, "deleted") /\ db[p].op = "delete"
  /\ TakesEffect(p, db[p].key, None, "ok")
  /\ UnLock(p, Chain(p))
  /\ Return(p)
  /\ UNCHANGED Files

-----------------------------------------------------------------------------
(* db_store *)

(* Same size data: the data record is overwritten.                         *)
Overwrite(p) ==
  /\ At(p, "found") /\ db[p].op \in {"replace", "store"} /\ SameLength(p)
  /\ dat' = [dat EXCEPT ![db[p].datoff].val = db[p].val]
  /\ TakesEffect(p, db[p].key, db[p].val, "ok")
  /\ UnLock(p, Chain(p))
  /\ Return(p)
  /\ UNCHANGED <<ptr, idx>>

(* _db_findfree, after the first readptr of db_store.                      *)
FindFree(p) ==
  /\ Missing(p) /\ db[p].op \in {"insert", "store"}
  /\ WriteLock(p, FREE)
  /\ db' = [db EXCEPT ![p].pc = "free", ![p].saveptr = ptr[Chain(p)],
                      ![p].ptroff = FREE, ![p].idxoff = ptr[FREE]]
  /\ UNCHANGED <<Files, Answers>>

(* Mutant: only the length of the key is compared.                         *)
FitsKey(o, p) == idx[o].keylen = KeyLen[db[p].key]

Fits(o, p) == idx[o].keylen = KeyLen[db[p].key] /\ idx[o].datlen = DataLen[db[p].val]

WalkFree(p) ==
  /\ At(p, "free")
  /\ LET o == db[p].idxoff IN
       \/ /\ o = 0
          /\ UnLock(p, FREE)
          /\ Goto(p, "end_dat")
       \/ /\ o # 0 /\ Fits(o, p)
          /\ ReadIdx(p, o, "take")
          /\ UNCHANGED LockTable
       \/ /\ o # 0 /\ ~Fits(o, p)
          /\ db' = [db EXCEPT ![p].ptroff = o, ![p].idxoff = ptr[o]]
          /\ UNCHANGED LockTable
  /\ UNCHANGED <<Files, Answers>>

(* Mutant: the record is not taken off the free list.                      *)
TakeFreeKept(p) ==
  /\ At(p, "take")
  /\ UnLock(p, FREE)
  /\ Goto(p, "reuse_dat")
  /\ UNCHANGED <<Files, Answers>>

(* Mutant: the free list ptr is written, not the one that led here.        *)
TakeFreeHead(p) ==
  /\ At(p, "take")
  /\ ptr' = [ptr EXCEPT ![FREE] = db[p].ptrval]
  /\ UnLock(p, FREE)
  /\ Goto(p, "reuse_dat")
  /\ UNCHANGED <<idx, dat, Answers>>

TakeFree(p) ==
  /\ At(p, "take")
  /\ ptr' = [ptr EXCEPT ![db[p].ptroff] = db[p].ptrval]
  /\ UnLock(p, FREE)
  /\ Goto(p, "reuse_dat")
  /\ UNCHANGED <<idx, dat, Answers>>

(* The record taken off the free list is filled: data, then index.  The    *)
(* room it has for the key and for the data stays what it was.             *)
ReuseDat(p) ==
  /\ At(p, "reuse_dat")
  /\ dat' = [dat EXCEPT ![db[p].datoff].val = db[p].val]
  /\ Goto(p, "reuse_idx")
  /\ UNCHANGED <<ptr, idx, LockTable, Answers>>

ReuseIdx(p) ==
  /\ At(p, "reuse_idx")
  /\ idx' = [idx EXCEPT ![db[p].idxoff].key = db[p].key,
                        ![db[p].idxoff].datlen = DataLen[db[p].val]]
  /\ ptr' = [ptr EXCEPT ![db[p].idxoff] = db[p].saveptr]
  /\ Goto(p, "link")
  /\ UNCHANGED <<dat, LockTable, Answers>>

(* _db_writedat and _db_writeidx at the end of the files: lock, find the   *)
(* end, write, unlock.  After a deletion the chain ptr is read again.      *)
EndDat(p) ==
  /\ At(p, "end_dat") \/ (At(p, "deleted") /\ db[p].op # "delete")
  /\ WriteLock(p, DATFILE)
  /\ db' = [db EXCEPT ![p].pc = "append_dat", ![p].datoff = Len(dat) + 1,
                      ![p].saveptr = IF At(p, "deleted") THEN ptr[Chain(p)] ELSE @]
  /\ UNCHANGED <<Files, Answers>>

IdxRecord(p) == [key |-> db[p].key, keylen |-> KeyLen[db[p].key],
                 datoff |-> db[p].datoff, datlen |-> DataLen[db[p].val]]

(* A write at an offset computed before: past the end it extends the file. *)
WriteAt(file, o, rec) == IF o <= Len(file) THEN [file EXCEPT ![o] = rec] ELSE Append(file, rec)

(* Mutant: the data file is not unlocked after the append.                 *)
AppendDatLocked(p) ==
  /\ At(p, "append_dat")
  /\ dat' = WriteAt(dat, db[p].datoff, [val |-> db[p].val, len |-> DataLen[db[p].val]])
  /\ Goto(p, "end_idx")
  /\ UNCHANGED <<ptr, idx, LockTable, Answers>>

AppendDat(p) ==
  /\ At(p, "append_dat")
  /\ dat' = WriteAt(dat, db[p].datoff, [val |-> db[p].val, len |-> DataLen[db[p].val]])
  /\ UnLock(p, DATFILE)
  /\ Goto(p, "end_idx")
  /\ UNCHANGED <<ptr, idx, Answers>>

(* Mutant: the end of the index file is not locked.                        *)
EndIdxUnlocked(p) ==
  /\ At(p, "end_idx")
  /\ db' = [db EXCEPT ![p].pc = "append_idx", ![p].idxoff = Len(idx) + 1]
  /\ UNCHANGED <<Files, LockTable, Answers>>

EndIdx(p) ==
  /\ At(p, "end_idx")
  /\ WriteLock(p, IDXEND)
  /\ db' = [db EXCEPT ![p].pc = "append_idx", ![p].idxoff = Len(idx) + 1]
  /\ UNCHANGED <<Files, Answers>>

AppendIdx(p) ==
  /\ At(p, "append_idx")
  /\ idx' = WriteAt(idx, db[p].idxoff, IdxRecord(p))
  /\ ptr' = [x \in DOMAIN ptr \cup {db[p].idxoff} |->
               IF x = db[p].idxoff THEN db[p].saveptr ELSE ptr[x]]
  /\ UnLock(p, IDXEND)
  /\ Goto(p, "link")
  /\ UNCHANGED <<dat, Answers>>

(* The new record goes to the front of the hash chain.                     *)
Link(p) ==
  /\ At(p, "link")
  /\ ptr' = [ptr EXCEPT ![Chain(p)] = db[p].idxoff]
  /\ TakesEffect(p, db[p].key, db[p].val, "ok")
  /\ UnLock(p, Chain(p))
  /\ Return(p)
  /\ UNCHANGED <<idx, dat>>

-----------------------------------------------------------------------------
(* db_rewind and db_nextrec *)

Rewind(s) ==
  /\ At(s, "idle") \/ At(s, "scan")
  /\ db' = [db EXCEPT ![s] = [pc |-> "scan", off |-> 1]]
  /\ UNCHANGED <<Files, LockTable, Answers>>

(* Mutant: db_nextrec without its read lock on the free list.              *)
NextRecUnlocked(s) ==
  /\ At(s, "scan")
  /\ Goto(s, "next")
  /\ UNCHANGED <<Files, LockTable, Answers>>

NextRec(s) ==
  /\ At(s, "scan")
  /\ ReadLock(s, FREE)
  /\ Goto(s, "next")
  /\ UNCHANGED <<Files, Answers>>

(* The next index record that is in use.  At the end of the file the       *)
(* offset stays: a later call finds what was appended since.               *)
NextIdx(s) ==
  /\ At(s, "next")
  /\ LET o == db[s].off IN
       \/ /\ o > Len(idx)
          /\ db' = [db EXCEPT ![s] = [pc |-> "scan", off |-> o]]
          /\ UnLock(s, FREE)
       \/ /\ o <= Len(idx)
          /\ db' = [db EXCEPT ![s] = [pc |-> IF idx[o].key = Blank THEN "next" ELSE "next_dat",
                                      off |-> o + 1, key |-> idx[o].key, datoff |-> idx[o].datoff]]
          /\ UNCHANGED LockTable
  /\ UNCHANGED <<Files, Answers>>

NextDat(s) ==
  /\ At(s, "next_dat")
  /\ seen' = [seen EXCEPT ![s] = [key |-> db[s].key, val |-> dat[db[s].datoff].val]]
  /\ UnLock(s, FREE)
  /\ Goto(s, "scan")
  /\ UNCHANGED <<Files, table, result>>

-----------------------------------------------------------------------------
FetchStep(p) == Call(p) \/ Find(p) \/ NotFound(p) \/ Fetched(p) \/ InsertFails(p)

DeleteStep(p) == \/ DeleteStart(p) \/ DeleteDat(p) \/ DeleteIdx(p) \/ DeleteFree(p)
                 \/ DeleteChain(p) \/ Deleted(p)

StoreStep(p) == \/ Overwrite(p) \/ FindFree(p) \/ WalkFree(p) \/ TakeFree(p) \/ ReuseDat(p)
                \/ ReuseIdx(p) \/ EndDat(p) \/ AppendDat(p) \/ EndIdx(p) \/ AppendIdx(p)
                \/ Link(p)

ScanStep(s) == Rewind(s) \/ NextRec(s) \/ NextIdx(s) \/ NextDat(s)

Next == \/ \E p \in Procs : FetchStep(p) \/ DeleteStep(p) \/ StoreStep(p)
        \/ \E s \in Scanners : ScanStep(s)

Spec == Init /\ [][Next]_vars

-----------------------------------------------------------------------------
(* Properties *)

Records == 1..Len(idx)

(* Type invariant: pointers lead to records of the index file, index       *)
(* records to records of the data file, a record is as long as what it     *)
(* holds, and a lock has one writer or any number of readers.              *)
TypeOK ==
  /\ DOMAIN ptr = Chains \cup {FREE} \cup Records
  /\ \A x \in DOMAIN ptr : ptr[x] \in {0} \cup Records
  /\ \A o \in Records : /\ idx[o].key \in Keys \cup {Blank}
                         /\ idx[o].datoff \in DOMAIN dat
                         /\ idx[o].key # Blank => idx[o].keylen = KeyLen[idx[o].key]
                         /\ dat[idx[o].datoff].len = idx[o].datlen
  /\ \A x \in Locks : /\ Cardinality(writer[x]) <= 1
                       /\ writer[x] # {} => readers[x] = {}
  /\ table \in [Keys -> Vals \cup {None}]

Holds(p, x) == p \in writer[x] \cup readers[x]
WantsLock(p) == Missing(p) \/ db[p].pc \in {"found", "deleted", "end_dat", "end_idx"}

(* A process holds a chain lock exactly while it is in a call on a key of  *)
(* that chain, and it never waits for the free list, the index file or the *)
(* data file while it holds one of these: no circle of processes that wait *)
(* for each other's fcntl locks, and no lock kept after a call returned.   *)
LockOrder ==
  /\ \A p \in Procs, c \in Chains : Holds(p, c) <=> (~At(p, "idle") /\ Chain(p) = c)
  /\ \A p \in Procs : WantsLock(p) => \A x \in {FREE, IDXEND, DATFILE} : ~Holds(p, x)

(* The records on the list that starts at the chain ptr x: the least set   *)
(* that holds the record x leads to and with each record the next one.     *)
Leads(next, x, S) == next[x] = 0 \/ next[x] \in S
Closed(next, S) == \A o \in S : Leads(next, o, S)
OnList(x) == {o \in Records : \A S \in SUBSET Records : Leads(ptr, x, S) /\ Closed(ptr, S) => o \in S}

Stored(c) == {k \in Keys : Hash[k] = c /\ table[k] # None}

(* While no process writes to a hash chain, the chain holds exactly the    *)
(* keys stored in it, each in one record, with the data stored last: what  *)
(* db_fetch relies on when _db_find_and_lock has locked the chain.         *)
ChainsMatch ==
  \A c \in Chains : writer[c] = {} =>
    /\ Cardinality(OnList(c)) = Cardinality(Stored(c))
    /\ {<<idx[o].key, dat[idx[o].datoff].val>> : o \in OnList(c)} = {<<k, table[k]>> : k \in Stored(c)}

(* While no process writes to the free list, it holds blank records only,  *)
(* and none that a hash chain still reaches or that a db_store has taken:  *)
(* _db_dodelete and _db_findfree hand a record from one list to the other. *)
FreeListSound ==
  writer[FREE] = {} =>
    \A o \in OnList(FREE) :
      /\ idx[o].key = Blank /\ dat[idx[o].datoff].val = Blank
      /\ \A c \in Chains : writer[c] = {} => o \notin OnList(c)
      /\ \A p \in Procs : db[p].pc \in {"reuse_dat", "reuse_idx", "link"} => db[p].idxoff # o

(* When no call is in progress every index record is on the free list or   *)
(* on a chain: space freed by a db_delete is never lost.                   *)
NoRecordLost ==
  (\A p \in Procs : At(p, "idle")) => Records = UNION {OnList(x) : x \in Chains \cup {FREE}}

(* What db_nextrec returns is a key with the data stored for it, or with   *)
(* the data of a db_store in progress: never a record in the middle of its *)
(* being deleted, nor one key with the data of another.                    *)
ScanSound ==
  [][\A s \in Scanners : seen'[s] # seen[s] =>
       \/ seen'[s].val = table[seen'[s].key]
       \/ \E p \in Procs : Storing(p) /\ db[p].key = seen'[s].key /\ db[p].val = seen'[s].val]_vars

(* Calls of different processes appear to take effect one at a time, on    *)
(* one table, each between its call and its return: what db_fetch,         *)
(* db_delete or db_store returns is what the table says of the key it was  *)
(* called with, and it changes that key alone, as it was asked to.         *)
Pending == [p \in Procs |-> IF At(p, "idle") THEN [op |-> "none"]
                            ELSE [op |-> db[p].op, key |-> db[p].key, val |-> db[p].val]]
KV == INSTANCE KVStore WITH pending <- Pending
IsTable == KV!Spec
=============================================================================
