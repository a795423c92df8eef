----------------------------- MODULE HashDbInv -----------------------------
(***************************************************************************)
(* The inductive invariant of HashDb.  A record of the index file is free, *)
(* or on the chain of its key, or taken: in the hands of one db_store that *)
(* fills it.  Which one is told by the record and by the handles alone;    *)
(* the invariant says that the chain ptrs agree.                           *)
(***************************************************************************)
EXTENDS HashDb

Places == Chains \cup {FREE}

(* A DB structure outside and inside a call, and one that scans.           *)
FindAt == {"find", "found"}
DeleteAt == {"del_dat", "del_idx", "del_free", "del_chain"}
ReuseAt == {"free", "take", "reuse_dat", "reuse_idx", "end_dat"}
AppendAt == {"append_dat", "end_idx", "append_idx", "link"}
CallAt == FindAt \cup DeleteAt \cup {"deleted"} \cup ReuseAt \cup AppendAt
AllOps == {"fetch", "delete", "insert", "replace", "store"}

Calling == [pc : CallAt, op : AllOps, key : Keys, val : Vals, ptroff : Places \cup Nat,
            ptrval : Nat, saveptr : Nat, idxoff : Nat, datoff : Nat]
Scanning == [pc : {"scan", "next"}, off : Nat \ {0}]
              \cup [pc : {"scan", "next", "next_dat"}, off : Nat \ {0}, key : Keys \cup {Blank}, datoff : Nat]
Idle == [pc : {"idle"}]

HandleTypes == /\ DOMAIN db = Procs \cup Scanners
               /\ \A p \in Procs : db[p] \in Idle \cup Calling
               /\ \A s \in Scanners : db[s] \in Idle \cup Scanning

IdxRecords == [key : Keys \cup {Blank}, keylen : Nat, datoff : Nat, datlen : Nat]
DatRecords == [val : Vals \cup {Blank}, len : Nat]

FileTypes ==
  /\ idx \in Seq(IdxRecords)
  /\ dat \in Seq(DatRecords)
  /\ DOMAIN ptr = Places \cup Records
  /\ \A x \in DOMAIN ptr : ptr[x] \in {0} \cup Records

-----------------------------------------------------------------------------
(* Which locks a process holds is told by where it is in which call.       *)
FreeAt == DeleteAt \cup {"free", "take"}

Writes(p, x) == \/ ~At(p, "idle") /\ db[p].op # "fetch" /\ x = Chain(p)
                \/ db[p].pc \in FreeAt /\ x = FREE
                \/ At(p, "append_idx") /\ x = IDXEND
                \/ At(p, "append_dat") /\ x = DATFILE
Reads(p, x) == ~At(p, "idle") /\ db[p].op = "fetch" /\ x = Chain(p)
Scans(s, x) == db[s].pc \in {"next", "next_dat"} /\ x = FREE

LocksHeld == /\ writer = [x \in Locks |-> {p \in Procs : Writes(p, x)}]
             /\ readers = [x \in Locks |-> {p \in Procs : Reads(p, x)} \cup {s \in Scanners : Scans(s, x)}]

Exclusive == \A x \in Locks : /\ writer[x] # {} => readers[x] = {}
                              /\ \A p, q \in writer[x] : p = q

(* Which calls get where.                                                  *)
OpsAt(p) == /\ db[p].pc \in DeleteAt \cup {"deleted"} => db[p].op \in {"delete", "replace", "store"}
            /\ db[p].pc \in ReuseAt => db[p].op \in {"insert", "store"}
            /\ db[p].pc \in AppendAt => db[p].op \in {"insert", "replace", "store"}

-----------------------------------------------------------------------------
(* Where the records are.                                                  *)
TakenAt == {"reuse_dat", "reuse_idx", "link"}
Taken == {db[p].idxoff : p \in {q \in Procs : db[q].pc \in TakenAt}}
Live == {o \in Records \ Taken : idx[o].key # Blank}
LiveOn(c) == {o \in Live : Hash[idx[o].key] = c}
Freed == {o \in Records \ Taken : idx[o].key = Blank}

(* S is what the list that starts at x goes through, once each.            *)
IsList(next, x, S) ==
  /\ Leads(next, x, S) /\ Closed(next, S)
  /\ \A a, b \in S \cup {x} : next[a] = next[b] /\ next[a] # 0 => a = b
  /\ \A T \in SUBSET S : Leads(next, x, T) /\ Closed(next, T) => T = S

(* Between the writes of _db_dodelete two ptrs are still to be written.    *)
Unlinking(p) == db[p].pc \in {"del_free", "del_chain"}

ListsOK ==
  /\ \A c \in Chains : (\A p \in Procs : Unlinking(p) => Chain(p) # c) => IsList(ptr, c, LiveOn(c))
  /\ \A p \in Procs : Unlinking(p) =>
        /\ db[p].ptroff \in LiveOn(Chain(p)) \cup {Chain(p)}
        /\ IsList([ptr EXCEPT ![db[p].ptroff] = db[p].saveptr], Chain(p), LiveOn(Chain(p)))
  /\ (\A p \in Procs : ~At(p, "del_free")) => IsList(ptr, FREE, Freed)
  /\ \A p \in Procs : At(p, "del_free") => IsList([ptr EXCEPT ![FREE] = db[p].idxoff], FREE, Freed)

-----------------------------------------------------------------------------
(* The records and the data they lead to.                                  *)
NewData(p) == db[p].pc \in {"end_idx", "append_idx"}

RecordsOK ==
  /\ \A o \in Records : /\ idx[o].datoff \in 1 .. Len(dat)
                        /\ idx[o].key # Blank => idx[o].keylen = KeyLen[idx[o].key]
                        /\ dat[idx[o].datoff].len = idx[o].datlen
  /\ \A o, u \in Records : idx[o].datoff = idx[u].datoff => o = u
  /\ \A o, u \in Live : idx[o].key = idx[u].key => o = u
  /\ \A o \in Freed : dat[idx[o].datoff].val = Blank
  /\ \A p, q \in Procs : db[p].pc \in TakenAt /\ db[q].pc \in TakenAt /\ db[p].idxoff = db[q].idxoff => p = q
  /\ \A p \in Procs : NewData(p) =>
        /\ db[p].datoff \in 1 .. Len(dat)
        /\ dat[db[p].datoff] = [val |-> db[p].val, len |-> DataLen[db[p].val]]
        /\ \A o \in Records : idx[o].datoff # db[p].datoff
        /\ \A q \in Procs : NewData(q) /\ db[q].datoff = db[p].datoff => q = p
  /\ \A p \in Procs : At(p, "append_dat") => db[p].datoff = Len(dat) + 1
  /\ \A p \in Procs : At(p, "append_idx") => db[p].idxoff = Len(idx) + 1

(* The search stands where the key can still be met.                       *)
Ahead(p) ==
  \A o \in LiveOn(Chain(p)), T \in SUBSET LiveOn(Chain(p)) :
     idx[o].key = db[p].key /\ Closed(ptr, T) /\ (db[p].idxoff = 0 \/ db[p].idxoff \in T) => o \in T

(* What a process knows of the files from what it has read.                *)
OnChain(p) == /\ db[p].ptroff \in LiveOn(Chain(p)) \cup {Chain(p)}
              /\ db[p].idxoff = ptr[db[p].ptroff]

Read(p) == /\ db[p].idxoff \in Records
           /\ db[p].datoff = idx[db[p].idxoff].datoff

HandleOK(p) ==
  /\ At(p, "find") => OnChain(p) /\ Ahead(p)
  /\ db[p].pc \in {"found", "del_dat", "del_idx"} =>
        /\ OnChain(p) /\ Read(p)
        /\ db[p].idxoff \in Live /\ idx[db[p].idxoff].key = db[p].key
        /\ db[p].ptrval = ptr[db[p].idxoff]
  /\ At(p, "del_idx") => dat[db[p].datoff].val = Blank
  /\ db[p].pc \in {"free", "take"} =>
        /\ db[p].ptroff \in Freed \cup {FREE}
        /\ db[p].idxoff = ptr[db[p].ptroff]
  /\ At(p, "take") => db[p].idxoff \in Freed /\ db[p].ptrval = ptr[db[p].idxoff]
  /\ db[p].pc \in {"take", "reuse_dat", "reuse_idx"} =>
        Read(p) /\ idx[db[p].idxoff].key = Blank /\ Fits(db[p].idxoff, p)
  /\ db[p].pc \in {"reuse_idx", "link"} => dat[db[p].datoff].val = db[p].val
  /\ db[p].pc \in {"link"} =>
        Read(p) /\ idx[db[p].idxoff].key = db[p].key /\ ptr[db[p].idxoff] = db[p].saveptr
  /\ db[p].pc \in ReuseAt \cup AppendAt => db[p].saveptr = ptr[Chain(p)]

-----------------------------------------------------------------------------
(* The records and the table.                                              *)
NoRecordAt == {"del_free", "del_chain", "deleted"} \cup ReuseAt \cup AppendAt

TableOK ==
  /\ table \in [Keys -> Vals \cup {None}]
  /\ \A o \in Live : /\ table[idx[o].key] # None
                     /\ \/ dat[idx[o].datoff].val = table[idx[o].key]
                        \/ \E p \in Procs : At(p, "del_idx") /\ db[p].idxoff = o
  /\ \A k \in Keys : table[k] # None =>
        \/ \E o \in Live : idx[o].key = k
        \/ \E p \in Procs : db[p].pc \in NoRecordAt /\ db[p].key = k
  /\ \A p \in Procs : db[p].pc \in NoRecordAt => \A o \in Live : idx[o].key # db[p].key
  /\ \A p \in Procs : /\ db[p].pc \in {"del_free", "del_chain", "deleted"} => table[db[p].key] # None
                      /\ db[p].pc \in ReuseAt => table[db[p].key] = None
                      /\ db[p].pc \in AppendAt => /\ db[p].op = "insert" => table[db[p].key] = None
                                                  /\ db[p].op = "replace" => table[db[p].key] # None

(* A scanner is about to read the data of the record it stands on.         *)
ScansOK == \A s \in Scanners : At(s, "next_dat") =>
              \E o \in Records : /\ idx[o].key = db[s].key /\ db[s].key # Blank
                                 /\ idx[o].datoff = db[s].datoff

Inv == /\ HandleTypes /\ FileTypes /\ LocksHeld /\ Exclusive
       /\ ListsOK /\ RecordsOK /\ TableOK /\ ScansOK
       /\ \A p \in Procs : OpsAt(p) /\ HandleOK(p)
=============================================================================
