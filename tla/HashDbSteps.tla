--------------------------- MODULE HashDbSteps ---------------------------
(***************************************************************************)
(* What one step of HashDb does, for any number of processes, keys and     *)
(* records: to the handle of the process, to the locks, to the files, and  *)
(* to the chains and records that are not its own; what the writes of db.c *)
(* do to a linked list. Last, that what a process has read stays true.     *)
(***************************************************************************)
EXTENDS HashDbInv, TLAPS

-----------------------------------------------------------------------------
(* The handles and the locks.                                              *)

(* The other handles stay; a call keeps its arguments; it keeps what it    *)
(* has read.                                                               *)
Others(p) == \A q \in Procs \cup Scanners : q # p => db'[q] = db[q]

KeepsCall(p) == db'[p].op = db[p].op /\ db'[p].key = db[p].key /\ db'[p].val = db[p].val

KeepsRest(p) == db'[p].ptroff = db[p].ptroff /\ db'[p].ptrval = db[p].ptrval /\ db'[p].saveptr = db[p].saveptr
                /\ db'[p].idxoff = db[p].idxoff /\ db'[p].datoff = db[p].datoff

(* The handle of a process is idle, or it has all the fields of a call.    *)
LEMMA CallFields == ASSUME HandleTypes, NEW p \in Procs
  PROVE /\ db[p].pc \in {"idle"} \cup CallAt
        /\ db[p].pc # "idle" => db[p] \in Calling
BY Zenon DEF HandleTypes, Idle, Calling, CallAt, FindAt, DeleteAt, ReuseAt, AppendAt

(* A handle that is given a new value of its type: the types stay, and so  *)
(* do the other handles.                                                   *)
LEMMA HandleMoves ==
  ASSUME HandleTypes, NEW p \in Procs, NEW h \in Idle \cup Calling, db' = [db EXCEPT ![p] = h]
  PROVE  HandleTypes' /\ db'[p] = h /\ Others(p)
BY ProcsAssumption, Zenon DEF HandleTypes, Others

(* The same for the handle of a scanner.                                   *)
LEMMA ScanMoves ==
  ASSUME HandleTypes, NEW s \in Scanners, NEW h \in Idle \cup Scanning, db' = [db EXCEPT ![s] = h]
  PROVE  HandleTypes' /\ db'[s] = h /\ Others(s)
BY ProcsAssumption, Zenon DEF HandleTypes, Others

(* A call that only goes on to its next step keeps its arguments and all   *)
(* that it has read.                                                       *)
LEMMA GotoMoves ==
  ASSUME HandleTypes, NEW p \in Procs, NEW l \in CallAt, db[p].pc # "idle", Goto(p, l)
  PROVE  /\ HandleTypes'
         /\ db'[p].pc = l /\ KeepsCall(p) /\ KeepsRest(p)
         /\ Others(p)
<1>1. db[p] \in Calling
  BY CallFields, Zenon
<1> DEFINE h == [db[p] EXCEPT !.pc = l]
<1>2. db' = [db EXCEPT ![p] = h]
  BY Zenon DEF Goto
<1>3. /\ h \in Calling
      /\ h.pc = l /\ h.op = db[p].op /\ h.key = db[p].key /\ h.val = db[p].val /\ h.ptroff = db[p].ptroff
      /\ h.ptrval = db[p].ptrval /\ h.saveptr = db[p].saveptr
      /\ h.idxoff = db[p].idxoff /\ h.datoff = db[p].datoff
  BY <1>1, Zenon DEF Calling
<1> HIDE DEF h
<1>4. HandleTypes' /\ db'[p] = h /\ Others(p) 
  BY <1>2, <1>3, HandleMoves, Zenon
<1> QED
  BY <1>3, <1>4, Zenon DEF KeepsCall, KeepsRest

(* A call that returns leaves its handle idle.                             *)
LEMMA ReturnMoves ==
  ASSUME HandleTypes, NEW p \in Procs, Return(p)
  PROVE  HandleTypes' /\ db'[p].pc = "idle" /\ Others(p)
<1> DEFINE h == [pc |-> "idle"]
<1>1. h \in Idle /\ h.pc = "idle"
  BY Zenon DEF Idle
<1>2. db' = [db EXCEPT ![p] = h]
  BY Zenon DEF Return
<1> HIDE DEF h
<1> QED
  BY <1>1, <1>2, HandleMoves, Zenon

(* LocksHeld after a step of p that changes only what p holds, when what p *)
(* holds afterwards is what its place in the call says.                    *)
LEMMA LockedStep ==
  ASSUME HandleTypes, LocksHeld, NEW p \in Procs, Others(p),
         DOMAIN writer' = Locks, DOMAIN readers' = Locks,
         writer' = [x \in Locks |-> writer'[x]], readers' = [x \in Locks |-> readers'[x]],
         \A x \in Locks : /\ writer'[x] \ {p} = writer[x] \ {p} /\ readers'[x] \ {p} = readers[x] \ {p}
                          /\ p \in writer'[x] <=> Writes(p, x)'
                          /\ p \in readers'[x] <=> Reads(p, x)'
  PROVE  LocksHeld'
<1>1. \A q \in Procs, x \in Locks : q # p => (Writes(q, x)' <=> Writes(q, x)) /\ (Reads(q, x)' <=> Reads(q, x))
  BY ZenonT(30) DEF Others, Writes, Reads, At, Chain
<1>2. \A s \in Scanners, x \in Locks : s # p /\ (Scans(s, x)' <=> Scans(s, x))
  BY ProcsAssumption, Zenon DEF Others, Scans
<1>3. ASSUME NEW x \in Locks PROVE writer'[x] = {q \in Procs : Writes(q, x)'}
  BY <1>1 DEF LocksHeld
<1>4. ASSUME NEW x \in Locks PROVE readers'[x] = {q \in Procs : Reads(q, x)'} \cup {s \in Scanners : Scans(s, x)'}
  BY <1>1, <1>2 DEF LocksHeld
<1> QED
  BY <1>3, <1>4, Zenon DEF LocksHeld

(* What the types of the files say of a ptr, of a record and of its data.  *)
LEMMA FileFacts ==
  ASSUME FileTypes
  PROVE  /\ Len(idx) \in Nat /\ Len(dat) \in Nat
         /\ \A x \in Places \cup Records : ptr[x] \in {0} \cup Records /\ ptr[x] \in Nat
         /\ \A o \in Records : o \in Nat \ {0} /\ o \notin Locks
         /\ \A o \in Records : idx[o] \in IdxRecords
         /\ \A o \in Records : idx[o].key \in Keys \cup {Blank} /\ idx[o].datoff \in Nat
         /\ \A d \in 1 .. Len(dat) : dat[d] \in DatRecords
         /\ 0 \notin Records /\ 0 \notin Locks
<1>1. Len(idx) \in Nat /\ Len(dat) \in Nat
  BY DEF FileTypes
<1>2. \A o \in Records : o \in Nat \ {0} /\ o \notin Locks
  BY <1>1, PlacesAssumption DEF Records, Locks
<1>3. \A x \in Places \cup Records : ptr[x] \in {0} \cup Records /\ ptr[x] \in Nat
  BY <1>2 DEF FileTypes
<1>4. \A o \in Records : idx[o] \in IdxRecords
  BY DEF FileTypes, Records
<1>5. \A d \in 1 .. Len(dat) : dat[d] \in DatRecords
  BY DEF FileTypes
<1>6. 0 \notin Records /\ 0 \notin Locks
  BY PlacesAssumption DEF Records, Locks
<1>7. \A o \in Records : idx[o].key \in Keys \cup {Blank} /\ idx[o].datoff \in Nat
  BY <1>4, Zenon DEF IdxRecords
<1> QED
  BY <1>1, <1>2, <1>3, <1>4, <1>5, <1>6, <1>7, Zenon

(* The call has taken the lock of its chain and has read the first ptr of  *)
(* it.                                                                     *)
LEMMA CallMoves ==
  ASSUME HandleTypes, FileTypes, NEW p \in Procs, Call(p)
  PROVE  /\ HandleTypes' /\ Others(p) /\ UNCHANGED <<ptr, idx, dat, table, seen>>
         /\ db[p].pc = "idle" /\ db'[p].pc = "find" /\ db'[p].ptroff = Chain(p)' /\ db'[p].idxoff = ptr[Chain(p)']
         /\ Chain(p)' \in Chains /\ Lock(p, db'[p].key, db'[p].op) /\ db'[p].op \in AllOps /\ db'[p] \in Calling
         /\ result' = [result EXCEPT ![p] = "none"]
<1> PICK k \in Keys, v \in Vals, op \in Ops :
         /\ Lock(p, k, op)
         /\ db' = [db EXCEPT ![p] =
                   [pc |-> "find", op |-> op, key |-> k, val |-> v, ptroff |-> Hash[k],
                    ptrval |-> 0, saveptr |-> 0, idxoff |-> ptr[Hash[k]], datoff |-> 0]]
  BY Zenon DEF Call
<1> DEFINE h == [pc |-> "find", op |-> op, key |-> k, val |-> v, ptroff |-> Hash[k],
                    ptrval |-> 0, saveptr |-> 0, idxoff |-> ptr[Hash[k]], datoff |-> 0]
<1>1. Hash[k] \in Places /\ ptr[Hash[k]] \in Nat /\ Hash[k] \in Chains
  BY HashAssumption, FileFacts, Zenon DEF Places
<1>2. h \in Calling
  BY <1>1, OpsAssumption, Zenon DEF Calling, CallAt, FindAt, AllOps
<1>3. h.pc = "find" /\ h.ptroff = Hash[k] /\ h.idxoff = ptr[Hash[k]] /\ h.key = k /\ h.op = op
  OBVIOUS
<1>4. db' = [db EXCEPT ![p] = h]
  OBVIOUS
<1> HIDE DEF h
<1>5. HandleTypes' /\ db'[p] = h /\ Others(p)
  BY <1>2, <1>4, HandleMoves, Zenon
<1>6. op \in AllOps
  BY OpsAssumption, Zenon DEF AllOps
<1> QED
  BY <1>1, <1>2, <1>3, <1>5, <1>6, Zenon DEF Call, Chain, At, Files

(* Where handle p points is a place of a chain ptr.                        *)
LEMMA HandleFacts ==
  ASSUME HandleTypes, FileTypes, NEW p \in Procs, HandleOK(p), db[p].pc # "idle"
  PROVE  /\ db[p].key \in Keys /\ db[p].val \in Vals /\ db[p].op \in AllOps /\ Chain(p) \in Chains
         /\ db[p].idxoff \in Nat /\ db[p].datoff \in Nat /\ db[p].saveptr \in Nat
         /\ db[p].pc \in {"find", "free"} => db[p].idxoff \in {0} \cup Records
         /\ db[p].pc \in {"found", "del_dat", "del_idx", "take", "reuse_dat", "reuse_idx", "link"} => db[p].idxoff \in Records
<1>1. db[p] \in Calling
  BY CallFields, Zenon
<1>2. /\ db[p].key \in Keys /\ db[p].val \in Vals /\ db[p].op \in AllOps
      /\ db[p].idxoff \in Nat /\ db[p].datoff \in Nat /\ db[p].saveptr \in Nat
  BY <1>1, Zenon DEF Calling
<1>3. Chain(p) \in Chains
  BY <1>2, HashAssumption, Zenon DEF Chain
<1>4. ASSUME db[p].pc = "find" PROVE db[p].idxoff \in {0} \cup Records
  BY <1>3, <1>4, FileFacts, Zenon DEF HandleOK, At, OnChain, LiveOn, Live, Places
<1>5. ASSUME db[p].pc = "free" PROVE db[p].idxoff \in {0} \cup Records
  BY <1>5, FileFacts, Zenon DEF HandleOK, Freed, Places
<1>6. db[p].pc \in {"found", "del_dat", "del_idx", "take", "reuse_dat", "reuse_idx", "link"} => db[p].idxoff \in Records
  BY Zenon DEF HandleOK, Read
<1> QED
  BY <1>2, <1>3, <1>4, <1>5, <1>6, Zenon

(* _db_readidx remembers the ptr of the record and the place of its data.  *)
LEMMA ReadIdxMoves ==
  ASSUME HandleTypes, FileTypes, NEW p \in Procs, db[p].pc # "idle", NEW o \in Records, NEW l \in CallAt, ReadIdx(p, o, l)
  PROVE  /\ HandleTypes' /\ Others(p) /\ KeepsCall(p)
         /\ db'[p].pc = l /\ db'[p].ptroff = db[p].ptroff /\ db'[p].idxoff = db[p].idxoff
         /\ db'[p].saveptr = db[p].saveptr /\ db'[p].ptrval = ptr[o] /\ db'[p].datoff = idx[o].datoff
<1>1. db[p] \in Calling
  BY CallFields, Zenon
<1> DEFINE h == [db[p] EXCEPT !.pc = l, !.ptrval = ptr[o], !.datoff = idx[o].datoff]
<1>2. db' = [db EXCEPT ![p] = h]
  BY Zenon DEF ReadIdx
<1>3. /\ h \in Calling
      /\ h.pc = l /\ h.op = db[p].op /\ h.key = db[p].key /\ h.val = db[p].val /\ h.ptroff = db[p].ptroff
      /\ h.ptrval = ptr[o] /\ h.saveptr = db[p].saveptr
      /\ h.idxoff = db[p].idxoff /\ h.datoff = idx[o].datoff
  BY <1>1, FileFacts, Zenon DEF Calling
<1> HIDE DEF h
<1>4. HandleTypes' /\ db'[p] = h /\ Others(p)
  BY <1>2, <1>3, HandleMoves, Zenon
<1> QED
  BY <1>3, <1>4, Zenon DEF KeepsCall

(* A search that goes on remembers where the ptr it follows is.            *)
LEMMA NextMoves ==
  ASSUME HandleTypes, FileTypes, NEW p \in Procs, db[p].pc # "idle", NEW o \in Records,
         db' = [db EXCEPT ![p].ptroff = o, ![p].idxoff = ptr[o]]
  PROVE  /\ HandleTypes' /\ Others(p) /\ KeepsCall(p)
         /\ db'[p].pc = db[p].pc /\ db'[p].ptroff = o /\ db'[p].idxoff = ptr[o]
         /\ db'[p].saveptr = db[p].saveptr
<1>1. db[p] \in Calling
  BY CallFields, Zenon
<1> DEFINE h == [db[p] EXCEPT !.ptroff = o, !.idxoff = ptr[o]]
<1>2. db' = [db EXCEPT ![p] = h]
  BY Zenon
<1>3. /\ h \in Calling
      /\ h.pc = db[p].pc /\ h.op = db[p].op /\ h.key = db[p].key /\ h.val = db[p].val /\ h.ptroff = o
      /\ h.saveptr = db[p].saveptr /\ h.idxoff = ptr[o]
  BY <1>1, FileFacts, Zenon DEF Calling
<1> HIDE DEF h
<1>4. HandleTypes' /\ db'[p] = h /\ Others(p)
  BY <1>2, <1>3, HandleMoves, Zenon
<1> QED
  BY <1>3, <1>4, Zenon DEF KeepsCall

(* After the write of the blank record saveptr is the ptr the record had.  *)
LEMMA DeleteIdxMoves ==
  ASSUME HandleTypes, NEW p \in Procs, DeleteIdx(p)
  PROVE  /\ HandleTypes' /\ Others(p) /\ KeepsCall(p)
         /\ db[p].pc = "del_idx" /\ db'[p].pc = "del_free" /\ db'[p].ptroff = db[p].ptroff /\ db'[p].idxoff = db[p].idxoff
         /\ db'[p].saveptr = db[p].ptrval /\ db'[p].datoff = db[p].datoff
<1>1. db[p] \in Calling /\ db[p].pc = "del_idx"
  BY CallFields, Zenon DEF DeleteIdx, At
<1> DEFINE h == [db[p] EXCEPT !.pc = "del_free", !.saveptr = db[p].ptrval]
<1>2. db' = [db EXCEPT ![p] = h]
  BY Zenon DEF DeleteIdx
<1>3. /\ h \in Calling
      /\ h.pc = "del_free" /\ h.op = db[p].op /\ h.key = db[p].key /\ h.val = db[p].val /\ h.ptroff = db[p].ptroff
      /\ h.saveptr = db[p].ptrval /\ h.idxoff = db[p].idxoff /\ h.datoff = db[p].datoff
  BY <1>1, Zenon DEF Calling, CallAt, DeleteAt
<1> HIDE DEF h
<1>4. HandleTypes' /\ db'[p] = h /\ Others(p)
  BY <1>2, <1>3, HandleMoves, Zenon
<1> QED
  BY <1>1, <1>3, <1>4, Zenon DEF KeepsCall

(* _db_findfree stands before the first free record, and saveptr is the    *)
(* first ptr of the chain.                                                 *)
LEMMA FindFreeMoves ==
  ASSUME HandleTypes, FileTypes, NEW p \in Procs, FindFree(p)
  PROVE  /\ HandleTypes' /\ Others(p) /\ KeepsCall(p)
         /\ db[p].pc = "find" /\ db[p].idxoff = 0 /\ db'[p].pc = "free" /\ db'[p].ptroff = FREE /\ db'[p].idxoff = ptr[FREE]
         /\ db'[p].saveptr = ptr[Chain(p)]
<1>1. db[p] \in Calling /\ db[p].pc = "find" /\ db[p].idxoff = 0
  BY CallFields, Zenon DEF FindFree, At, Missing
<1>2. ptr[Chain(p)] \in Nat /\ ptr[FREE] \in Nat /\ FREE \in Places
  BY <1>1, FileFacts, HashAssumption, Zenon DEF Chain, Calling, Places
<1> DEFINE h == [db[p] EXCEPT !.pc = "free", !.saveptr = ptr[Chain(p)], !.ptroff = FREE, !.idxoff = ptr[FREE]]
<1>3. db' = [db EXCEPT ![p] = h]
  BY Zenon DEF FindFree
<1>4. /\ h \in Calling
      /\ h.pc = "free" /\ h.op = db[p].op /\ h.key = db[p].key /\ h.val = db[p].val /\ h.ptroff = FREE
      /\ h.saveptr = ptr[Chain(p)] /\ h.idxoff = ptr[FREE]
  BY <1>1, <1>2, Zenon DEF Calling, CallAt, ReuseAt
<1> HIDE DEF h
<1>5. HandleTypes' /\ db'[p] = h /\ Others(p)
  BY <1>3, <1>4, HandleMoves, Zenon
<1> QED
  BY <1>1, <1>4, <1>5, Zenon DEF KeepsCall

(* The end of the data file is remembered as the place of the new data.    *)
LEMMA EndDatMoves ==
  ASSUME HandleTypes, FileTypes, NEW p \in Procs, EndDat(p)
  PROVE  /\ HandleTypes' /\ Others(p) /\ KeepsCall(p)
         /\ db[p].pc \in {"end_dat", "deleted"} /\ db'[p].pc = "append_dat" /\ db'[p].datoff = Len(dat) + 1
         /\ db[p].pc = "end_dat" => db'[p].saveptr = db[p].saveptr
         /\ db[p].pc = "deleted" => db'[p].saveptr = ptr[Chain(p)] /\ db[p].op # "delete"
<1>1. db[p] \in Calling /\ db[p].pc \in {"end_dat", "deleted"} /\ (db[p].pc = "deleted" => db[p].op # "delete")
  BY CallFields, Zenon DEF EndDat, At
<1>2. ptr[Chain(p)] \in Nat /\ Len(dat) + 1 \in Nat
  BY <1>1, FileFacts, HashAssumption DEF Chain, Calling, Places
<1> DEFINE h == [db[p] EXCEPT !.pc = "append_dat", !.datoff = Len(dat) + 1,
                              !.saveptr = IF At(p, "deleted") THEN ptr[Chain(p)] ELSE @]
<1>3. db' = [db EXCEPT ![p] = h]
  BY Zenon DEF EndDat
<1>4. /\ h \in Calling
      /\ h.pc = "append_dat" /\ h.op = db[p].op /\ h.key = db[p].key /\ h.val = db[p].val
      /\ h.saveptr = (IF db[p].pc = "deleted" THEN ptr[Chain(p)] ELSE db[p].saveptr) /\ h.datoff = Len(dat) + 1
  BY <1>1, <1>2, Zenon DEF Calling, CallAt, AppendAt, At
<1> HIDE DEF h
<1>5. HandleTypes' /\ db'[p] = h /\ Others(p)
  BY <1>3, <1>4, HandleMoves, Zenon
<1> QED
  BY <1>1, <1>4, <1>5, Zenon DEF KeepsCall

(* The end of the index file is remembered as the place of the new record. *)
LEMMA EndIdxMoves ==
  ASSUME HandleTypes, FileTypes, NEW p \in Procs, EndIdx(p)
  PROVE  /\ HandleTypes' /\ Others(p) /\ KeepsCall(p)
         /\ db[p].pc = "end_idx" /\ db'[p].pc = "append_idx" /\ db'[p].idxoff = Len(idx) + 1
         /\ db'[p].saveptr = db[p].saveptr /\ db'[p].datoff = db[p].datoff
<1>0. Len(idx) + 1 \in Nat
  BY FileFacts
<1>1. db[p] \in Calling /\ db[p].pc = "end_idx"
  BY CallFields, Zenon DEF EndIdx, At
<1> DEFINE h == [db[p] EXCEPT !.pc = "append_idx", !.idxoff = Len(idx) + 1]
<1>2. db' = [db EXCEPT ![p] = h]
  BY Zenon DEF EndIdx
<1>3. /\ h \in Calling
      /\ h.pc = "append_idx" /\ h.op = db[p].op /\ h.key = db[p].key /\ h.val = db[p].val
      /\ h.saveptr = db[p].saveptr /\ h.idxoff = Len(idx) + 1 /\ h.datoff = db[p].datoff
  BY <1>0, <1>1, Zenon DEF Calling, CallAt, AppendAt
<1> HIDE DEF h
<1>4. HandleTypes' /\ db'[p] = h /\ Others(p)
  BY <1>2, <1>3, HandleMoves, Zenon
<1> QED
  BY <1>1, <1>3, <1>4, Zenon DEF KeepsCall

(* What the handle of a scanner holds at each place.                       *)
LEMMA ScanFields ==
  ASSUME HandleTypes, NEW s \in Scanners
  PROVE  /\ db[s].pc # "idle" => db[s] \in Scanning
         /\ db[s].pc \in {"scan", "next", "next_dat"} => db[s].off \in Nat \ {0}
         /\ db[s].pc = "next_dat" => db[s].key \in Keys \cup {Blank} /\ db[s].datoff \in Nat
BY Zenon DEF HandleTypes, Idle, Scanning

(* A step of a scanner is one of six moves, and it writes to no file.      *)
LEMMA ScanStepMoves ==
  ASSUME HandleTypes, FileTypes, NEW s \in Scanners, ScanStep(s)
  PROVE  /\ HandleTypes' /\ Others(s) /\ UNCHANGED <<Files, table, result>>
         /\ \/ Rewind(s) /\ db[s].pc \in {"idle", "scan"} /\ db'[s].pc = "scan"
            \/ NextRec(s) /\ db[s].pc = "scan" /\ db'[s].pc = "next"
            \/ NextIdx(s) /\ db[s].pc = "next" /\ db'[s].pc = "scan" /\ UnLock(s, FREE)
            \/ NextIdx(s) /\ db[s].pc = "next" /\ db'[s].pc = "next" /\ UNCHANGED LockTable
            \/ /\ NextIdx(s) /\ db[s].pc = "next" /\ db'[s].pc = "next_dat" /\ UNCHANGED LockTable
               /\ \E o \in Records : db'[s].key = idx[o].key /\ idx[o].key # Blank /\ db'[s].datoff = idx[o].datoff
            \/ NextDat(s) /\ db[s].pc = "next_dat" /\ db'[s].pc = "scan"
<1>1. CASE Rewind(s)
  <2> DEFINE h == [pc |-> "scan", off |-> 1]
  <2>1. h \in Scanning /\ h.pc = "scan" /\ db' = [db EXCEPT ![s] = h]
    BY <1>1 DEF Rewind, Scanning
  <2> HIDE DEF h
  <2> QED
    BY <1>1, <2>1, ScanMoves, Zenon DEF Rewind, At, Answers
<1>2. ASSUME NEW l \in {"scan", "next"}, Goto(s, l), db[s].pc # "idle"
      PROVE  HandleTypes' /\ Others(s) /\ db'[s].pc = l
  <2> DEFINE h == [db[s] EXCEPT !.pc = l]
  <2>1. h \in Scanning /\ h.pc = l
    BY <1>2, ScanFields, Zenon DEF Scanning
  <2>2. db' = [db EXCEPT ![s] = h]
    BY <1>2, Zenon DEF Goto
  <2> HIDE DEF h
  <2> QED
    BY <2>1, <2>2, ScanMoves, Zenon
<1>3. CASE NextRec(s)
  <2>1. At(s, "scan") /\ Goto(s, "next") /\ UNCHANGED <<Files, table, result>>
    BY <1>3, Zenon DEF NextRec, Answers
  <2>2. db[s].pc = "scan" /\ db[s].pc # "idle"
    BY <2>1, Zenon DEF At
  <2> QED
    BY <1>2, <1>3, <2>1, <2>2, Zenon
<1>4. CASE NextDat(s)
  <2>1. At(s, "next_dat") /\ Goto(s, "scan") /\ UNCHANGED <<Files, table, result>>
    BY <1>4, Zenon DEF NextDat
  <2>2. db[s].pc = "next_dat" /\ db[s].pc # "idle"
    BY <2>1, Zenon DEF At
  <2> QED
    BY <1>2, <1>4, <2>1, <2>2, Zenon
<1>5. CASE NextIdx(s)
  <2>0. db[s].pc = "next" /\ db[s].off \in Nat \ {0} /\ UNCHANGED <<Files, table, result>>
    BY <1>5, ScanFields, Zenon DEF NextIdx, At, Answers
  <2>1. CASE db' = [db EXCEPT ![s] = [pc |-> "scan", off |-> db[s].off]] /\ UnLock(s, FREE)
    <3> DEFINE h == [pc |-> "scan", off |-> db[s].off]
    <3>1. h \in Scanning /\ h.pc = "scan"
      BY <2>0 DEF Scanning
    <3>2. db' = [db EXCEPT ![s] = h]
      BY <2>1, Zenon
    <3> HIDE DEF h
    <3> QED
      BY <1>5, <2>0, <2>1, <3>1, <3>2, ScanMoves, Zenon
  <2>2. CASE db[s].off <= Len(idx) /\ UNCHANGED LockTable
             /\ db' = [db EXCEPT ![s] = [pc |-> IF idx[db[s].off].key = Blank THEN "next" ELSE "next_dat",
                                off |-> db[s].off + 1, key |-> idx[db[s].off].key, datoff |-> idx[db[s].off].datoff]]
    <3> DEFINE o == db[s].off
               h == [pc |-> IF idx[o].key = Blank THEN "next" ELSE "next_dat",
                     off |-> o + 1, key |-> idx[o].key, datoff |-> idx[o].datoff]
    <3>1. o \in Records
      BY <2>0, <2>2, FileFacts DEF Records
    <3>2. idx[o].key \in Keys \cup {Blank} /\ idx[o].datoff \in Nat
      BY <3>1, FileFacts, Zenon
    <3>3. h \in Scanning
      BY <2>0, <3>2 DEF Scanning
    <3>4. h.pc = (IF idx[o].key = Blank THEN "next" ELSE "next_dat") /\ h.key = idx[o].key /\ h.datoff = idx[o].datoff
      OBVIOUS
    <3>5. db' = [db EXCEPT ![s] = h]
      BY <2>2, Zenon
    <3> HIDE DEF h, o
    <3>6. HandleTypes' /\ db'[s] = h /\ Others(s)
      BY <3>3, <3>5, ScanMoves, Zenon
    <3> QED
      BY <1>5, <2>0, <2>2, <3>1, <3>4, <3>6, Zenon
  <2> QED
    BY <1>5, <2>1, <2>2, Zenon DEF NextIdx
<1> QED
  BY <1>1, <1>3, <1>4, <1>5, Zenon DEF ScanStep

(* What p holds stays; it is a write lock more; a read lock more; a lock   *)
(* less.                                                                   *)
SameLocks(p) == \A x \in Locks : (Writes(p, x)' <=> Writes(p, x)) /\ (Reads(p, x)' <=> Reads(p, x))

OneMore(p, y) == \A x \in Locks : (Writes(p, x)' <=> Writes(p, x) \/ x = y) /\ (Reads(p, x)' <=> Reads(p, x))

OneRead(p, y) == \A x \in Locks : (Writes(p, x)' <=> Writes(p, x)) /\ (Reads(p, x)' <=> Reads(p, x) \/ x = y)

OneLess(p, y) == \A x \in Locks : (Writes(p, x)' <=> Writes(p, x) /\ x # y) /\ (Reads(p, x)' <=> Reads(p, x) /\ x # y)

(* The sets of readers and writers of a lock, from the places of the       *)
(* processes.                                                              *)
LEMMA LockFacts ==
  ASSUME LocksHeld
  PROVE  /\ DOMAIN writer = Locks /\ DOMAIN readers = Locks
         /\ \A x \in Locks : writer[x] = {p \in Procs : Writes(p, x)}
         /\ \A x \in Locks : readers[x] = {p \in Procs : Reads(p, x)} \cup {s \in Scanners : Scans(s, x)}
BY Zenon DEF LocksHeld

(* The locks of the others stay.                                           *)
KeptByOthers(p) ==
  /\ Exclusive'
  /\ writer' = [x \in Locks |-> writer'[x]] /\ readers' = [x \in Locks |-> readers'[x]]
  /\ \A x \in Locks : writer'[x] \ {p} = writer[x] \ {p} /\ readers'[x] \ {p} = readers[x] \ {p}

(* What the three lock operations change: the lock y of p, and nothing     *)
(* else.                                                                   *)
LEMMA LockOps ==
  ASSUME LocksHeld, Exclusive, NEW p, NEW y \in Locks
  PROVE  /\ UNCHANGED LockTable => KeptByOthers(p)
         /\ WriteLock(p, y) => /\ KeptByOthers(p)
                               /\ \A x \in Locks : (p \in writer'[x] <=> p \in writer[x] \/ x = y) /\ readers'[x] = readers[x]
         /\ ReadLock(p, y) => /\ KeptByOthers(p)
                              /\ \A x \in Locks : (p \in readers'[x] <=> p \in readers[x] \/ x = y) /\ writer'[x] = writer[x]
         /\ UnLock(p, y) => /\ KeptByOthers(p)
                            /\ \A x \in Locks : /\ p \in writer'[x] <=> p \in writer[x] /\ x # y
                                                /\ p \in readers'[x] <=> p \in readers[x] /\ x # y
<1>0. writer = [x \in Locks |-> writer[x]] /\ readers = [x \in Locks |-> readers[x]]
  BY Zenon DEF LocksHeld
<1>1. UNCHANGED LockTable => KeptByOthers(p)
  BY <1>0, Zenon DEF LockTable, Exclusive, KeptByOthers
<1>2. ASSUME WriteLock(p, y)
      PROVE  KeptByOthers(p) /\ \A x \in Locks : (p \in writer'[x] <=> p \in writer[x] \/ x = y) /\ readers'[x] = readers[x]
  <2>1. /\ readers' = readers /\ readers[y] = {} /\ writer[y] = {}
        /\ writer' = [x \in Locks |-> IF x = y THEN {p} ELSE writer[x]]
    BY <1>0, <1>2, Zenon DEF WriteLock
  <2> QED
    BY <1>0, <2>1, Zenon DEF Exclusive, KeptByOthers
<1>3. ASSUME ReadLock(p, y)
      PROVE  KeptByOthers(p) /\ \A x \in Locks : (p \in readers'[x] <=> p \in readers[x] \/ x = y) /\ writer'[x] = writer[x]
  <2>1. /\ writer' = writer /\ writer[y] = {}
        /\ readers' = [x \in Locks |-> IF x = y THEN readers[y] \cup {p} ELSE readers[x]]
    BY <1>0, <1>3, Zenon DEF ReadLock
  <2> QED
    BY <1>0, <2>1, Zenon DEF Exclusive, KeptByOthers
<1>4. ASSUME UnLock(p, y)
      PROVE  KeptByOthers(p) /\ \A x \in Locks : /\ p \in writer'[x] <=> p \in writer[x] /\ x # y
                                                 /\ p \in readers'[x] <=> p \in readers[x] /\ x # y
  <2>1. /\ writer' = [x \in Locks |-> IF x = y THEN writer[y] \ {p} ELSE writer[x]]
        /\ readers' = [x \in Locks |-> IF x = y THEN readers[y] \ {p} ELSE readers[x]]
    BY <1>0, <1>4, Zenon DEF UnLock
  <2> QED
    BY <1>0, <2>1, Zenon DEF Exclusive, KeptByOthers
<1> QED
  BY <1>1, <1>2, <1>3, <1>4, Zenon

(* A step that takes or releases one lock, and whose place in the call     *)
(* says the same, keeps the lock table in order.                           *)
LEMMA Locked ==
  ASSUME HandleTypes, LocksHeld, Exclusive, NEW p \in Procs, Others(p), NEW y \in Locks,
         \/ UNCHANGED LockTable /\ SameLocks(p)
         \/ WriteLock(p, y) /\ OneMore(p, y)
         \/ ReadLock(p, y) /\ OneRead(p, y)
         \/ UnLock(p, y) /\ OneLess(p, y)
  PROVE  LocksHeld' /\ Exclusive'
<1>1. p \notin Scanners
  BY ProcsAssumption, Zenon
<1>2. \A x \in Locks : (p \in writer[x] <=> Writes(p, x)) /\ (p \in readers[x] <=> Reads(p, x))
  BY <1>1, LockFacts, Zenon
<1>3. KeptByOthers(p)
  BY LockOps, Zenon
<1>4. \A x \in Locks : (p \in writer'[x] <=> Writes(p, x)') /\ (p \in readers'[x] <=> Reads(p, x)')
  <2>1. CASE UNCHANGED LockTable /\ SameLocks(p)
    BY <2>1, <1>2, Zenon DEF LockTable, SameLocks
  <2>2. CASE WriteLock(p, y) /\ OneMore(p, y)
    BY <2>2, <1>2, LockOps DEF OneMore
  <2>3. CASE UnLock(p, y) /\ OneLess(p, y)
    BY <2>3, <1>2, LockOps, ZenonT(30) DEF OneLess
  <2>4. CASE ReadLock(p, y) /\ OneRead(p, y)
    BY <2>4, <1>2, LockOps DEF OneRead
  <2> QED
    BY <2>1, <2>2, <2>3, <2>4, Zenon
<1> QED
  BY <1>3, <1>4, LockedStep, Zenon DEF KeptByOthers

(* The locks after a call has locked its chain.                            *)
LEMMA CallLocks ==
  ASSUME HandleTypes, FileTypes, LocksHeld, Exclusive, NEW p \in Procs, Call(p)
  PROVE  LocksHeld' /\ Exclusive' /\ OpsAt(p)'
<1> DEFINE y == Chain(p)'
<1>1. /\ Others(p) /\ db[p].pc = "idle" /\ db'[p].pc = "find" /\ y \in Chains
      /\ Lock(p, db'[p].key, db'[p].op)
  BY CallMoves, Zenon
<1>2. y \in Locks /\ y \notin {FREE, IDXEND, DATFILE}
  BY <1>1, PlacesAssumption, Zenon DEF Locks
<1>3. \A x \in Locks : ~Writes(p, x) /\ ~Reads(p, x)
  BY <1>1, Zenon DEF Writes, Reads, At, FreeAt, DeleteAt
<1>4. CASE db'[p].op = "fetch"
  <2>1. ReadLock(p, y)
    BY <1>1, <1>4, Zenon DEF Lock, Chain
  <2>2. OneRead(p, y)
    BY <1>1, <1>3, <1>4, Zenon DEF OneRead, Writes, Reads, At, FreeAt, DeleteAt
  <2> QED
    BY <1>1, <1>2, <2>1, <2>2, Locked, Zenon DEF OpsAt, DeleteAt, ReuseAt, AppendAt
<1>5. CASE db'[p].op # "fetch"
  <2>1. WriteLock(p, y)
    BY <1>1, <1>5, Zenon DEF Lock, Chain
  <2>2. OneMore(p, y)
    BY <1>1, <1>3, <1>5, Zenon DEF OneMore, Writes, Reads, At, FreeAt, DeleteAt
  <2> QED
    BY <1>1, <1>2, <2>1, <2>2, Locked, Zenon DEF OpsAt, DeleteAt, ReuseAt, AppendAt
<1> QED
  BY <1>4, <1>5, Zenon

(* The locks after a call has unlocked its chain and returned.             *)
LEMMA ReturnLocks ==
  ASSUME HandleTypes, LocksHeld, Exclusive, NEW p \in Procs, db[p].pc # "idle", db[p].pc \notin FreeAt \cup {"append_idx", "append_dat"},
         UnLock(p, Chain(p)), Return(p)
  PROVE  LocksHeld' /\ Exclusive' /\ OpsAt(p)'
<1>1. Others(p) /\ db'[p].pc = "idle"
  BY ReturnMoves, Zenon
<1>2. Chain(p) \in Locks
  BY CallFields, HashAssumption, Zenon DEF Chain, Calling, Locks
<1>3. OneLess(p, Chain(p))
  BY <1>1, Zenon DEF OneLess, Writes, Reads, At, FreeAt, DeleteAt
<1> QED
  BY <1>1, <1>2, <1>3, Locked, Zenon DEF OpsAt, DeleteAt, ReuseAt, AppendAt

(* The locks after a step inside a call: the lock of the chain stays, and  *)
(* the lock of the free list, of the end of the index file or of the data  *)
(* file comes and goes with the place.                                     *)
LEMMA InCallLocks ==
  ASSUME HandleTypes, LocksHeld, Exclusive, NEW p \in Procs, db[p].pc # "idle", db'[p].pc # "idle", Others(p), KeepsCall(p),
         \/ /\ UNCHANGED LockTable
            /\ {db[p].pc, db'[p].pc} \cap {"append_idx", "append_dat"} = {}
            /\ db[p].pc \in FreeAt <=> db'[p].pc \in FreeAt
         \/ /\ WriteLock(p, FREE) 
            /\ db[p].pc \notin FreeAt \cup {"append_idx", "append_dat"} /\ db'[p].pc \in FreeAt
         \/ /\ WriteLock(p, IDXEND)
            /\ db[p].pc \notin FreeAt \cup {"append_idx", "append_dat"} /\ db'[p].pc = "append_idx"
         \/ /\ WriteLock(p, DATFILE)
            /\ db[p].pc \notin FreeAt \cup {"append_idx", "append_dat"} /\ db'[p].pc = "append_dat"
         \/ /\ UnLock(p, FREE)
            /\ db[p].pc \in FreeAt /\ db'[p].pc \notin FreeAt \cup {"append_idx", "append_dat"}
         \/ /\ UnLock(p, IDXEND)
            /\ db[p].pc = "append_idx" /\ db'[p].pc \notin FreeAt \cup {"append_idx", "append_dat"}
         \/ /\ UnLock(p, DATFILE)
            /\ db[p].pc = "append_dat" /\ db'[p].pc \notin FreeAt \cup {"append_idx", "append_dat"}
  PROVE  LocksHeld' /\ Exclusive'
<1>1. Chain(p) \in Chains /\ Chain(p)' = Chain(p) /\ {FREE, IDXEND, DATFILE} \subseteq Locks
  BY CallFields, HashAssumption, Zenon DEF Chain, Calling, KeepsCall, Locks
<1>2. \A x \in Locks : /\ Reads(p, x)' <=> Reads(p, x)
                       /\ x \in Chains => (Writes(p, x)' <=> Writes(p, x))
  BY <1>1, PlacesAssumption, Zenon DEF Reads, Writes, KeepsCall, At
<1>3. /\ Writes(p, FREE) <=> db[p].pc \in FreeAt
      /\ Writes(p, IDXEND) <=> db[p].pc = "append_idx"
      /\ Writes(p, DATFILE) <=> db[p].pc = "append_dat"
      /\ Writes(p, FREE)' <=> db'[p].pc \in FreeAt
      /\ Writes(p, IDXEND)' <=> db'[p].pc = "append_idx"
      /\ Writes(p, DATFILE)' <=> db'[p].pc = "append_dat"
  BY <1>1, PlacesAssumption, Zenon DEF Writes, At
<1>4. ~Reads(p, FREE) /\ ~Reads(p, IDXEND) /\ ~Reads(p, DATFILE)
  BY <1>1, PlacesAssumption, Zenon DEF Reads
<1>5. \A l : l \in FreeAt => l \notin {"append_idx", "append_dat"}
  BY Zenon DEF FreeAt, DeleteAt
<1>6. \A x \in Locks : x \in Chains \/ x = FREE \/ x = IDXEND \/ x = DATFILE
  BY Zenon DEF Locks
<1> USE <1>2, <1>3, <1>4, <1>5, <1>6, PlacesAssumption
<1>7. CASE UNCHANGED LockTable
           /\ {db[p].pc, db'[p].pc} \cap {"append_idx", "append_dat"} = {}
           /\ (db[p].pc \in FreeAt <=> db'[p].pc \in FreeAt)
  <2>1. SameLocks(p)
    BY <1>7, Zenon DEF SameLocks
  <2> QED
    BY <1>1, <1>7, <2>1, Locked, Zenon
<1>8. CASE WriteLock(p, FREE)
           /\ db[p].pc \notin FreeAt \cup {"append_idx", "append_dat"} /\ db'[p].pc \in FreeAt
  <2>1. OneMore(p, FREE)
    BY <1>8, Zenon DEF OneMore
  <2> QED
    BY <1>1, <1>8, <2>1, Locked, Zenon
<1>9. CASE WriteLock(p, IDXEND)
           /\ db[p].pc \notin FreeAt \cup {"append_idx", "append_dat"} /\ db'[p].pc = "append_idx"
  <2>1. OneMore(p, IDXEND)
    BY <1>9, Zenon DEF OneMore
  <2> QED
    BY <1>1, <1>9, <2>1, Locked, Zenon
<1>10. CASE WriteLock(p, DATFILE)
           /\ db[p].pc \notin FreeAt \cup {"append_idx", "append_dat"} /\ db'[p].pc = "append_dat"
  <2>1. OneMore(p, DATFILE)
    BY <1>10, Zenon DEF OneMore
  <2> QED
    BY <1>1, <1>10, <2>1, Locked, Zenon
<1>11. CASE UnLock(p, FREE)
           /\ db[p].pc \in FreeAt /\ db'[p].pc \notin FreeAt \cup {"append_idx", "append_dat"}
  <2>1. OneLess(p, FREE)
    BY <1>11, Zenon DEF OneLess
  <2> QED
    BY <1>1, <1>11, <2>1, Locked, Zenon
<1>12. CASE UnLock(p, IDXEND)
           /\ db[p].pc = "append_idx" /\ db'[p].pc \notin FreeAt \cup {"append_idx", "append_dat"}
  <2>1. OneLess(p, IDXEND)
    BY <1>12, Zenon DEF OneLess
  <2> QED
    BY <1>1, <1>12, <2>1, Locked, Zenon
<1>13. CASE UnLock(p, DATFILE)
           /\ db[p].pc = "append_dat" /\ db'[p].pc \notin FreeAt \cup {"append_idx", "append_dat"}
  <2>1. OneLess(p, DATFILE)
    BY <1>13, Zenon DEF OneLess
  <2> QED
    BY <1>1, <1>13, <2>1, Locked, Zenon
<1> QED
  BY <1>7, <1>8, <1>9, <1>10, <1>11, <1>12, <1>13, Zenon

(* The locks after a step of a scanner.                                    *)
LEMMA ScanLocks ==
  ASSUME HandleTypes, FileTypes, LocksHeld, Exclusive, NEW s \in Scanners, ScanStep(s)
  PROVE  LocksHeld' /\ Exclusive'
<1>1. Others(s) /\ s \notin Procs /\ FREE \in Locks
  BY ScanStepMoves, ProcsAssumption, Zenon DEF Locks
<1>2. KeptByOthers(s) /\ \A x \in Locks : (s \in readers'[x] <=> Scans(s, x)') /\ s \notin writer'[x]
  <2>1. \A x \in Locks : (s \in readers[x] <=> Scans(s, x)) /\ s \notin writer[x]
    BY <1>1, LockFacts, Zenon
  <2>2. CASE Rewind(s) /\ db[s].pc \in {"idle", "scan"} /\ db'[s].pc = "scan"
    <3>1. UNCHANGED LockTable
      BY <2>2, Zenon DEF Rewind
    <3> QED
      BY <1>1, <2>1, <2>2, <3>1, LockOps, Zenon DEF LockTable, Scans
  <2>3. CASE NextRec(s) /\ db[s].pc = "scan" /\ db'[s].pc = "next"
    <3>1. ReadLock(s, FREE)
      BY <2>3, Zenon DEF NextRec
    <3> QED
      BY <1>1, <2>1, <2>3, <3>1, LockOps DEF Scans
  <2>4. CASE db[s].pc = "next" /\ db'[s].pc = "scan" /\ UnLock(s, FREE)
    BY <1>1, <2>1, <2>4, LockOps, Zenon DEF Scans
  <2>5. CASE db[s].pc = "next" /\ db'[s].pc \in {"next", "next_dat"} /\ UNCHANGED LockTable
    BY <1>1, <2>1, <2>5, LockOps, Zenon DEF Scans, LockTable
  <2>6. CASE NextDat(s) /\ db[s].pc = "next_dat" /\ db'[s].pc = "scan"
    <3>1. UnLock(s, FREE)
      BY <2>6, Zenon DEF NextDat
    <3> QED
      BY <1>1, <2>1, <2>6, <3>1, LockOps, Zenon DEF Scans
  <2> QED
    BY <2>2, <2>3, <2>4, <2>5, <2>6, ScanStepMoves, Zenon
<1>3. \A q \in Procs, x \in Locks : (Writes(q, x)' <=> Writes(q, x)) /\ (Reads(q, x)' <=> Reads(q, x))
  BY <1>1 DEF Others, Writes, Reads, At, Chain
<1>4. \A q \in Scanners, x \in Locks : q # s => (Scans(q, x)' <=> Scans(q, x))
  BY <1>1, Zenon DEF Others, Scans
<1>5. ASSUME NEW x \in Locks PROVE writer'[x] = {q \in Procs : Writes(q, x)'}
  BY <1>1, <1>2, <1>3, LockFacts DEF KeptByOthers
<1>6. ASSUME NEW x \in Locks PROVE readers'[x] = {q \in Procs : Reads(q, x)'} \cup {q \in Scanners : Scans(q, x)'}
  <2>1. readers'[x] \ {s} = readers[x] \ {s} /\ (s \in readers'[x] <=> Scans(s, x)')
    BY <1>2, <1>6, Zenon DEF KeptByOthers
  <2>2. readers[x] = {q \in Procs : Reads(q, x)} \cup {q \in Scanners : Scans(q, x)}
    BY <1>6, LockFacts, Zenon
  <2> QED
    BY <1>1, <1>3, <1>4, <1>6, <2>1, <2>2, Zenon
<1> QED
  BY <1>2, <1>5, <1>6, Zenon DEF LocksHeld, KeptByOthers

(* A step of the search: the record has the key and is read, or the search *)
(* goes on to the next record.                                             *)
LEMMA FindMoves ==
  ASSUME HandleTypes, FileTypes, NEW p \in Procs, HandleOK(p), Find(p)
  PROVE  /\ HandleTypes' /\ Others(p) /\ KeepsCall(p) /\ UNCHANGED <<ptr, idx, dat, readers, writer, table, result, seen>>
         /\ db[p].pc = "find" /\ db[p].idxoff \in Records
         /\ \/ /\ db'[p].pc = "found" /\ idx[db[p].idxoff].key = db[p].key
               /\ db'[p].ptroff = db[p].ptroff /\ db'[p].idxoff = db[p].idxoff
               /\ db'[p].ptrval = ptr[db[p].idxoff] /\ db'[p].datoff = idx[db[p].idxoff].datoff
            \/ /\ db'[p].pc = "find" /\ idx[db[p].idxoff].key # db[p].key
               /\ db'[p].ptroff = db[p].idxoff /\ db'[p].idxoff = ptr[db[p].idxoff]
<1> DEFINE o == db[p].idxoff
<1>1. db[p].pc = "find" /\ o # 0 /\ UNCHANGED <<ptr, idx, dat, readers, writer, table, result, seen>>
  BY Zenon DEF Find, At, Files, LockTable, Answers
<1>2. o \in Records
  BY <1>1, HandleFacts, Zenon
<1>3. \/ idx[o].key = db[p].key /\ ReadIdx(p, o, "found")
      \/ idx[o].key # db[p].key /\ db' = [db EXCEPT ![p].ptroff = o, ![p].idxoff = ptr[o]]
  BY Zenon DEF Find
<1> HIDE DEF o
<1>4. "found" \in CallAt
  BY Zenon DEF CallAt, FindAt
<1>5. CASE idx[o].key = db[p].key /\ ReadIdx(p, o, "found")
  BY <1>1, <1>2, <1>4, <1>5, ReadIdxMoves, Zenon DEF o
<1>6. CASE idx[o].key # db[p].key /\ db' = [db EXCEPT ![p].ptroff = o, ![p].idxoff = ptr[o]]
  BY <1>1, <1>2, <1>6, NextMoves, Zenon DEF o
<1> QED
  BY <1>3, <1>5, <1>6, Zenon

(* A step of the walk along the free list: its end, a record that fits, or *)
(* the next record.                                                        *)
LEMMA WalkFreeMoves ==
  ASSUME HandleTypes, FileTypes, NEW p \in Procs, HandleOK(p), WalkFree(p)
  PROVE  /\ HandleTypes' /\ Others(p) /\ KeepsCall(p) /\ UNCHANGED <<ptr, idx, dat, table, result, seen>>
         /\ db[p].pc = "free" /\ db'[p].saveptr = db[p].saveptr
         /\ \/ db[p].idxoff = 0 /\ db'[p].pc = "end_dat" /\ UnLock(p, FREE)
            \/ /\ db[p].idxoff \in Records /\ db'[p].pc = "take" /\ Fits(db[p].idxoff, p) /\ UNCHANGED LockTable
               /\ db'[p].ptroff = db[p].ptroff /\ db'[p].idxoff = db[p].idxoff
               /\ db'[p].ptrval = ptr[db[p].idxoff] /\ db'[p].datoff = idx[db[p].idxoff].datoff
            \/ /\ db[p].idxoff \in Records /\ db'[p].pc = "free" /\ UNCHANGED LockTable
               /\ db'[p].ptroff = db[p].idxoff /\ db'[p].idxoff = ptr[db[p].idxoff]
<1> DEFINE o == db[p].idxoff
<1>1. db[p].pc = "free" /\ UNCHANGED <<ptr, idx, dat, table, result, seen>>
  BY Zenon DEF WalkFree, At, Files, Answers
<1>2. o \in {0} \cup Records
  BY <1>1, HandleFacts, Zenon
<1>3. \/ o = 0 /\ UnLock(p, FREE) /\ Goto(p, "end_dat")
      \/ o # 0 /\ Fits(o, p) /\ ReadIdx(p, o, "take") /\ UNCHANGED LockTable
      \/ o # 0 /\ db' = [db EXCEPT ![p].ptroff = o, ![p].idxoff = ptr[o]] /\ UNCHANGED LockTable
  BY Zenon DEF WalkFree
<1> HIDE DEF o
<1>4. {"take", "end_dat"} \subseteq CallAt
  BY Zenon DEF CallAt, ReuseAt
<1>5. CASE o = 0 /\ UnLock(p, FREE) /\ Goto(p, "end_dat")
  BY <1>1, <1>4, <1>5, GotoMoves, Zenon DEF o, KeepsRest
<1>6. CASE o # 0 /\ Fits(o, p) /\ ReadIdx(p, o, "take") /\ UNCHANGED LockTable
  BY <1>1, <1>2, <1>4, <1>6, ReadIdxMoves, Zenon DEF o
<1>7. CASE o # 0 /\ db' = [db EXCEPT ![p].ptroff = o, ![p].idxoff = ptr[o]] /\ UNCHANGED LockTable
  <2>1. o \in Records /\ db[p].pc # "idle"
    BY <1>1, <1>2, <1>7, Zenon
  <2> QED
    BY <1>1, <1>7, <2>1, NextMoves, Zenon DEF o
<1> QED
  BY <1>3, <1>5, <1>6, <1>7, Zenon

(* Steps that only move on in the call.                                    *)
Advances(p, from, to) == /\ db[p].pc = from /\ db'[p].pc = to
                         /\ HandleTypes' /\ Others(p) /\ KeepsCall(p) /\ KeepsRest(p)

(* The steps of a delete and of a store that only move on, and the locks   *)
(* they take or release.                                                   *)
LEMMA Advance ==
  ASSUME HandleTypes, NEW p \in Procs
  PROVE  /\ DeleteStart(p) => Advances(p, "found", "del_dat") /\ WriteLock(p, FREE)
         /\ DeleteDat(p) => Advances(p, "del_dat", "del_idx") /\ UNCHANGED LockTable
         /\ DeleteFree(p) => Advances(p, "del_free", "del_chain") /\ UNCHANGED LockTable
         /\ DeleteChain(p) => Advances(p, "del_chain", "deleted") /\ UnLock(p, FREE)
         /\ TakeFree(p) => Advances(p, "take", "reuse_dat") /\ UnLock(p, FREE)
         /\ ReuseDat(p) => Advances(p, "reuse_dat", "reuse_idx") /\ UNCHANGED LockTable
         /\ ReuseIdx(p) => Advances(p, "reuse_idx", "link") /\ UNCHANGED LockTable
         /\ AppendDat(p) => Advances(p, "append_dat", "end_idx") /\ UnLock(p, DATFILE)
         /\ AppendIdx(p) => Advances(p, "append_idx", "link") /\ UnLock(p, IDXEND)
<1>1. ASSUME NEW from \in CallAt, NEW to \in CallAt, At(p, from), Goto(p, to)
      PROVE  Advances(p, from, to)
  <2>1. db[p].pc = from /\ from # "idle"
    BY <1>1, Zenon DEF At, CallAt, FindAt, DeleteAt, ReuseAt, AppendAt
  <2> QED
    BY <1>1, <2>1, GotoMoves, Zenon DEF Advances
<1>2. {"found", "del_dat", "del_idx", "del_free", "del_chain", "deleted", "take", "reuse_dat", "reuse_idx"} \subseteq CallAt
  BY Zenon DEF CallAt, FindAt, DeleteAt, ReuseAt
<1>3. {"append_dat", "end_idx", "append_idx", "link"} \subseteq CallAt
  BY Zenon DEF CallAt, AppendAt
<1>4. DeleteStart(p) => At(p, "found") /\ Goto(p, "del_dat") /\ WriteLock(p, FREE)
  BY Zenon DEF DeleteStart
<1>5. DeleteDat(p) => At(p, "del_dat") /\ Goto(p, "del_idx") /\ UNCHANGED LockTable
  BY Zenon DEF DeleteDat
<1>6. DeleteFree(p) => At(p, "del_free") /\ Goto(p, "del_chain") /\ UNCHANGED LockTable
  BY Zenon DEF DeleteFree
<1>7. DeleteChain(p) => At(p, "del_chain") /\ Goto(p, "deleted") /\ UnLock(p, FREE)
  BY Zenon DEF DeleteChain
<1>8. TakeFree(p) => At(p, "take") /\ Goto(p, "reuse_dat") /\ UnLock(p, FREE)
  BY Zenon DEF TakeFree
<1>9. ReuseDat(p) => At(p, "reuse_dat") /\ Goto(p, "reuse_idx") /\ UNCHANGED LockTable
  BY Zenon DEF ReuseDat
<1>10. ReuseIdx(p) => At(p, "reuse_idx") /\ Goto(p, "link") /\ UNCHANGED LockTable
  BY Zenon DEF ReuseIdx
<1>11. AppendDat(p) => At(p, "append_dat") /\ Goto(p, "end_idx") /\ UnLock(p, DATFILE)
  BY Zenon DEF AppendDat
<1>12. AppendIdx(p) => At(p, "append_idx") /\ Goto(p, "link") /\ UnLock(p, IDXEND)
  BY Zenon DEF AppendIdx
<1> QED
  BY <1>1, <1>2, <1>3, <1>4, <1>5, <1>6, <1>7, <1>8, <1>9, <1>10, <1>11, <1>12, Zenon

(* Steps that return.                                                      *)
Ends(p, from) == /\ db[p].pc = from /\ db'[p].pc = "idle"
                 /\ HandleTypes' /\ Others(p) /\ Return(p) /\ UnLock(p, Chain(p))

(* The steps at which a call returns.                                      *)
LEMMA End ==
  ASSUME HandleTypes, NEW p \in Procs
  PROVE  /\ NotFound(p) => Ends(p, "find")
         /\ Fetched(p) => Ends(p, "found")
         /\ InsertFails(p) => Ends(p, "found")
         /\ Deleted(p) => Ends(p, "deleted")
         /\ Overwrite(p) => Ends(p, "found")
         /\ Link(p) => Ends(p, "link")
<1>1. NotFound(p) => At(p, "find") /\ UnLock(p, Chain(p)) /\ Return(p)
  BY Zenon DEF NotFound, Missing
<1>2. Fetched(p) => At(p, "found") /\ UnLock(p, Chain(p)) /\ Return(p)
  BY Zenon DEF Fetched
<1>3. InsertFails(p) => At(p, "found") /\ UnLock(p, Chain(p)) /\ Return(p)
  BY Zenon DEF InsertFails
<1>4. Deleted(p) => At(p, "deleted") /\ UnLock(p, Chain(p)) /\ Return(p)
  BY Zenon DEF Deleted
<1>5. Overwrite(p) => At(p, "found") /\ UnLock(p, Chain(p)) /\ Return(p)
  BY Zenon DEF Overwrite
<1>6. Link(p) => At(p, "link") /\ UnLock(p, Chain(p)) /\ Return(p)
  BY Zenon DEF Link
<1> QED
  BY <1>1, <1>2, <1>3, <1>4, <1>5, <1>6, ReturnMoves, Zenon DEF Ends, At

(* The handle and the locks after any step of a process.                   *)
LEMMA ProcLocks ==
  ASSUME HandleTypes, FileTypes, LocksHeld, Exclusive, NEW p \in Procs, OpsAt(p), HandleOK(p),
         FetchStep(p) \/ DeleteStep(p) \/ StoreStep(p)
  PROVE  HandleTypes' /\ Others(p) /\ LocksHeld' /\ Exclusive' /\ OpsAt(p)'
<1>1. CASE Call(p)
  BY <1>1, CallMoves, CallLocks, Zenon
<1>2. CASE Find(p)
  BY <1>2, FindMoves, InCallLocks, ZenonT(30) DEF Find, LockTable, KeepsCall, OpsAt, FreeAt, DeleteAt, ReuseAt, AppendAt
<1>3. CASE DeleteIdx(p)
  BY <1>3, DeleteIdxMoves, InCallLocks, ZenonT(30) DEF DeleteIdx, LockTable, KeepsCall, OpsAt, FreeAt, DeleteAt, ReuseAt, AppendAt
<1>4. CASE FindFree(p)
  BY <1>4, FindFreeMoves, InCallLocks, Zenon DEF FindFree, LockTable, KeepsCall, OpsAt, FreeAt, DeleteAt, ReuseAt, AppendAt
<1>5. CASE WalkFree(p)
  BY <1>5, WalkFreeMoves, InCallLocks, Zenon DEF WalkFree, LockTable, KeepsCall, OpsAt, FreeAt, DeleteAt, ReuseAt, AppendAt
<1>6. CASE EndDat(p)
  BY <1>6, EndDatMoves, InCallLocks, Zenon DEF EndDat, LockTable, KeepsCall, OpsAt, FreeAt, DeleteAt, ReuseAt, AppendAt
<1>7. CASE EndIdx(p)
  BY <1>7, EndIdxMoves, InCallLocks, ZenonT(30) DEF EndIdx, LockTable, KeepsCall, OpsAt, FreeAt, DeleteAt, ReuseAt, AppendAt
<1>8. CASE NotFound(p) \/ Fetched(p) \/ InsertFails(p) \/ Deleted(p) \/ Overwrite(p) \/ Link(p)
  BY <1>8, End, ReturnLocks, Zenon DEF Ends, FreeAt, DeleteAt
<1>9. CASE DeleteStart(p)
  <2>1. db[p].op \in {"delete", "replace", "store"}
    BY <1>9, Zenon DEF DeleteStart
  <2> QED
    BY <1>9, <2>1, Advance, InCallLocks, ZenonT(30) DEF Advances, KeepsCall, OpsAt, FreeAt, DeleteAt, ReuseAt, AppendAt
<1>10. CASE DeleteDat(p)
  BY <1>10, Advance, InCallLocks, ZenonT(30) DEF Advances, KeepsCall, OpsAt, FreeAt, DeleteAt, ReuseAt, AppendAt
<1>11. CASE DeleteFree(p)
  BY <1>11, Advance, InCallLocks, ZenonT(30) DEF Advances, KeepsCall, OpsAt, FreeAt, DeleteAt, ReuseAt, AppendAt
<1>12. CASE DeleteChain(p)
  BY <1>12, Advance, InCallLocks, ZenonT(30) DEF Advances, KeepsCall, OpsAt, FreeAt, DeleteAt, ReuseAt, AppendAt
<1>13. CASE TakeFree(p)
  BY <1>13, Advance, InCallLocks, ZenonT(30) DEF Advances, KeepsCall, OpsAt, FreeAt, DeleteAt, ReuseAt, AppendAt
<1>14. CASE ReuseDat(p)
  BY <1>14, Advance, InCallLocks, ZenonT(30) DEF Advances, KeepsCall, OpsAt, FreeAt, DeleteAt, ReuseAt, AppendAt
<1>15. CASE ReuseIdx(p)
  BY <1>15, Advance, InCallLocks, ZenonT(30) DEF Advances, KeepsCall, OpsAt, FreeAt, DeleteAt, ReuseAt, AppendAt
<1>16. CASE AppendDat(p)
  BY <1>16, Advance, InCallLocks, ZenonT(30) DEF Advances, KeepsCall, OpsAt, FreeAt, DeleteAt, ReuseAt, AppendAt
<1>17. CASE AppendIdx(p)
  BY <1>17, Advance, InCallLocks, Zenon DEF Advances, KeepsCall, OpsAt, FreeAt, DeleteAt, ReuseAt, AppendAt
<1> QED
  BY <1>1, <1>2, <1>3, <1>4, <1>5, <1>6, <1>7, <1>8, <1>9, <1>10, <1>11, <1>12, <1>13, <1>14, <1>15, <1>16, <1>17, Zenon DEF FetchStep, DeleteStep, StoreStep

-----------------------------------------------------------------------------
(* The files.                                                              *)

(* A record of a file is replaced.                                         *)
LEMMA SeqSet ==
  ASSUME NEW S, NEW s \in Seq(S), NEW i \in 1 .. Len(s), NEW v \in S
  PROVE  /\ [s EXCEPT ![i] = v] \in Seq(S) /\ Len([s EXCEPT ![i] = v]) = Len(s)
         /\ [s EXCEPT ![i] = v][i] = v
         /\ \A j \in 1 .. Len(s) : j # i => [s EXCEPT ![i] = v][j] = s[j]
OBVIOUS

(* The records that a db_store has taken: the set changes only when p      *)
(* takes one or hands one over.                                            *)
LEMMA TakenSteps ==
  ASSUME NEW p \in Procs, Others(p)
  PROVE  /\ db[p].pc \notin TakenAt /\ db'[p].pc \notin TakenAt => Taken' = Taken
         /\ db[p].pc \in TakenAt /\ db'[p].pc \in TakenAt /\ db'[p].idxoff = db[p].idxoff => Taken' = Taken
         /\ db[p].pc \notin TakenAt /\ db'[p].pc \in TakenAt => Taken' = Taken \cup {db'[p].idxoff}
         /\ RecordsOK /\ db[p].pc \in TakenAt /\ db'[p].pc \notin TakenAt => Taken' = Taken \ {db[p].idxoff}
<1>1. \A o : o \in Taken <=> \E q \in Procs : db[q].pc \in TakenAt /\ db[q].idxoff = o
  BY Zenon DEF Taken
<1>2. \A o : o \in Taken' <=> \E q \in Procs : db'[q].pc \in TakenAt /\ db'[q].idxoff = o
  BY Zenon DEF Taken
<1>3. \A q \in Procs : q # p => db'[q] = db[q]
  BY Zenon DEF Others
<1>4. RecordsOK => \A q \in Procs : db[p].pc \in TakenAt /\ db[q].pc \in TakenAt /\ db[p].idxoff = db[q].idxoff => p = q
  BY Zenon DEF RecordsOK
<1>5. ASSUME db[p].pc \notin TakenAt, db'[p].pc \notin TakenAt PROVE Taken' = Taken
  <2>1. \A o : o \in Taken' <=> o \in Taken
    BY <1>1, <1>2, <1>3, <1>5
  <2> QED
    BY <2>1, Zenon
<1>6. db[p].pc \in TakenAt /\ db'[p].pc \in TakenAt /\ db'[p].idxoff = db[p].idxoff => Taken' = Taken
  BY <1>1, <1>2, <1>3, Zenon
<1>7. db[p].pc \notin TakenAt /\ db'[p].pc \in TakenAt => Taken' = Taken \cup {db'[p].idxoff}
  BY <1>1, <1>2, <1>3
<1>8. RecordsOK /\ db[p].pc \in TakenAt /\ db'[p].pc \notin TakenAt => Taken' = Taken \ {db[p].idxoff}
  BY <1>1, <1>2, <1>3, <1>4
<1> QED
  BY <1>5, <1>6, <1>7, <1>8, Zenon

RecordsStay == Records' = Records /\ Live' = Live /\ Freed' = Freed /\ \A c \in Chains : LiveOn(c)' = LiveOn(c)

(* As long as nothing is taken or returned and no key changes, every       *)
(* record stays where it is.                                               *)
LEMMA SetsStay ==
  ASSUME Taken' = Taken, Records' = Records, \A o \in Records \ Taken : idx'[o].key = idx[o].key
  PROVE  RecordsStay
<1>1. Live' = Live /\ Freed' = Freed
  BY Zenon DEF Live, Freed
<1>2. \A o \in Live : idx'[o].key = idx[o].key
  BY Zenon DEF Live
<1> QED
  BY <1>1, <1>2, Zenon DEF LiveOn, RecordsStay

(* One ptr, the key of one record, the data of one record is written.      *)
PtrSet(x, v) == /\ ptr'[x] = v 
                /\ \A y \in Places \cup Records : y # x => ptr'[y] = ptr[y]

KeySet(o, k) == /\ Len(idx') = Len(idx)
                /\ idx'[o].key = k /\ idx'[o].keylen = idx[o].keylen
                /\ idx'[o].datoff = idx[o].datoff /\ idx'[o].datlen = idx[o].datlen
                /\ \A u \in Records : u # o => idx'[u] = idx[u]

DatSet(d, v) == /\ Len(dat') = Len(dat)
                /\ dat'[d].val = v /\ dat'[d].len = dat[d].len
                /\ \A e \in 1 .. Len(dat) : e # d => dat'[e] = dat[e]

(* _db_writeptr changes one ptr.                                           *)
LEMMA PtrWritten ==
  ASSUME FileTypes, NEW x \in Places \cup Records, NEW v \in {0} \cup Records, ptr' = [ptr EXCEPT ![x] = v], Records' = Records
  PROVE  /\ PtrSet(x, v)
         /\ DOMAIN ptr' = Places \cup Records' /\ \A y \in DOMAIN ptr' : ptr'[y] \in {0} \cup Records'
BY Zenon DEF FileTypes, PtrSet

(* A write of the key of a record changes that record alone.               *)
LEMMA KeyWritten ==
  ASSUME FileTypes, NEW o \in Records, NEW k \in Keys \cup {Blank}, idx' = [idx EXCEPT ![o].key = k]
  PROVE  KeySet(o, k) /\ idx' \in Seq(IdxRecords) /\ Records' = Records
<1> DEFINE r == [idx[o] EXCEPT !.key = k]
<1>1. idx[o] \in IdxRecords
  BY FileFacts, Zenon
<1>2. /\ r \in IdxRecords /\ r.key = k /\ r.keylen = idx[o].keylen /\ r.datoff = idx[o].datoff
      /\ r.datlen = idx[o].datlen
  BY <1>1, Zenon DEF IdxRecords
<1>3. idx' = [idx EXCEPT ![o] = r]
  OBVIOUS
<1> HIDE DEF r
<1>4. idx \in Seq(IdxRecords) /\ o \in 1 .. Len(idx)
  BY Zenon DEF FileTypes, Records
<1>5. /\ idx' \in Seq(IdxRecords) /\ Len(idx') = Len(idx) /\ idx'[o] = r
      /\ \A j \in 1 .. Len(idx) : j # o => idx'[j] = idx[j]
  BY <1>2, <1>3, <1>4, SeqSet
<1> QED
  BY <1>2, <1>5, Zenon DEF KeySet, Records

(* A write of data over old data changes that data record alone.           *)
LEMMA DatWritten ==
  ASSUME FileTypes, NEW d \in 1 .. Len(dat), NEW v \in Vals \cup {Blank}, dat' = [dat EXCEPT ![d].val = v]
  PROVE  DatSet(d, v) /\ dat' \in Seq(DatRecords)
<1> DEFINE r == [dat[d] EXCEPT !.val = v]
<1>1. dat[d] \in DatRecords
  BY FileFacts, Zenon
<1>2. r \in DatRecords /\ r.val = v /\ r.len = dat[d].len
  BY <1>1, Zenon DEF DatRecords
<1>3. dat' = [dat EXCEPT ![d] = r]
  OBVIOUS
<1> HIDE DEF r
<1>4. dat \in Seq(DatRecords)
  BY Zenon DEF FileTypes
<1>5. /\ dat' \in Seq(DatRecords) /\ Len(dat') = Len(dat) /\ dat'[d] = r
      /\ \A j \in 1 .. Len(dat) : j # d => dat'[j] = dat[j]
  BY <1>2, <1>3, <1>4, SeqSet
<1> QED
  BY <1>2, <1>5, Zenon DEF DatSet

(* The first write of _db_dodelete blanks the data of the record it        *)
(* deletes.                                                                *)
LEMMA DeleteDatEffect ==
  ASSUME HandleTypes, FileTypes, RecordsOK, NEW p \in Procs, HandleOK(p), DeleteDat(p)
  PROVE  /\ FileTypes' /\ RecordsStay /\ Taken' = Taken /\ UNCHANGED <<ptr, idx, table, result, seen>>
         /\ DatSet(db[p].datoff, Blank) /\ Advances(p, "del_dat", "del_idx")
<1>1. Advances(p, "del_dat", "del_idx") /\ UNCHANGED <<ptr, idx, table, result, seen>>
  BY Advance, Zenon DEF DeleteDat, Answers
<1>2. db[p].datoff \in 1 .. Len(dat)
  BY <1>1, Zenon DEF Advances, HandleOK, Read, RecordsOK
<1>3. DatSet(db[p].datoff, Blank) /\ dat' \in Seq(DatRecords)
  BY <1>2, DatWritten, Zenon DEF DeleteDat
<1>4. FileTypes' /\ Records' = Records
  BY <1>1, <1>3, Zenon DEF FileTypes, Records
<1>5. Taken' = Taken
  BY <1>1, TakenSteps, Zenon DEF Advances, TakenAt
<1> QED
  BY <1>1, <1>3, <1>4, <1>5, SetsStay, Zenon

(* db_store of data of the same length writes over the data of the record. *)
LEMMA OverwriteEffect ==
  ASSUME HandleTypes, FileTypes, RecordsOK, NEW p \in Procs, HandleOK(p), Overwrite(p)
  PROVE  /\ FileTypes' /\ RecordsStay /\ Taken' = Taken /\ UNCHANGED <<ptr, idx>>
         /\ DatSet(db[p].datoff, db[p].val) /\ Ends(p, "found")
<1>1. Ends(p, "found") /\ UNCHANGED <<ptr, idx>>
  BY End, Zenon DEF Overwrite
<1>2. db[p].datoff \in 1 .. Len(dat) /\ db[p].val \in Vals
  BY <1>1, HandleFacts, Zenon DEF Ends, HandleOK, Read, RecordsOK
<1>3. DatSet(db[p].datoff, db[p].val) /\ dat' \in Seq(DatRecords)
  BY <1>2, DatWritten, Zenon DEF Overwrite
<1>4. FileTypes' /\ Records' = Records
  BY <1>1, <1>3, Zenon DEF FileTypes, Records
<1>5. Taken' = Taken
  BY <1>1, TakenSteps, Zenon DEF Ends, TakenAt
<1> QED
  BY <1>1, <1>3, <1>4, <1>5, SetsStay, Zenon

(* db_store writes the data of the record it has taken off the free list.  *)
LEMMA ReuseDatEffect ==
  ASSUME HandleTypes, FileTypes, RecordsOK, NEW p \in Procs, HandleOK(p), ReuseDat(p)
  PROVE  /\ FileTypes' /\ RecordsStay /\ Taken' = Taken /\ UNCHANGED <<ptr, idx, table, result, seen>>
         /\ DatSet(db[p].datoff, db[p].val) /\ Advances(p, "reuse_dat", "reuse_idx")
<1>1. Advances(p, "reuse_dat", "reuse_idx") /\ UNCHANGED <<ptr, idx, table, result, seen>>
  BY Advance, Zenon DEF ReuseDat, Answers
<1>2. db[p].datoff \in 1 .. Len(dat) /\ db[p].val \in Vals
  BY <1>1, HandleFacts, Zenon DEF Advances, HandleOK, Read, RecordsOK
<1>3. DatSet(db[p].datoff, db[p].val) /\ dat' \in Seq(DatRecords)
  BY <1>2, DatWritten, ZenonT(30) DEF ReuseDat
<1>4. FileTypes' /\ Records' = Records
  BY <1>1, <1>3, Zenon DEF FileTypes, Records
<1>5. Taken' = Taken
  BY <1>1, TakenSteps, Zenon DEF Advances, TakenAt, KeepsRest
<1> QED
  BY <1>1, <1>3, <1>4, <1>5, SetsStay, Zenon

(* db_store appends its data: the file grows by one, and the old data      *)
(* stays.                                                                  *)
LEMMA AppendDatEffect ==
  ASSUME HandleTypes, FileTypes, RecordsOK, NEW p \in Procs, HandleOK(p), AppendDat(p)
  PROVE  /\ FileTypes' /\ RecordsStay /\ Taken' = Taken /\ UNCHANGED <<ptr, idx, table, result, seen>>
         /\ Len(dat') = Len(dat) + 1 /\ db[p].datoff = Len(dat) + 1
         /\ dat'[db[p].datoff] = [val |-> db[p].val, len |-> DataLen[db[p].val]]
         /\ \A e \in 1 .. Len(dat) : dat'[e] = dat[e]
         /\ Advances(p, "append_dat", "end_idx")
<1>1. Advances(p, "append_dat", "end_idx") /\ UNCHANGED <<ptr, idx, table, result, seen>>
  BY Advance, Zenon DEF AppendDat, Answers
<1> DEFINE r == [val |-> db[p].val, len |-> DataLen[db[p].val]]
<1>2. db[p].datoff = Len(dat) + 1
  BY <1>1, Zenon DEF Advances, RecordsOK, At
<1>a. dat \in Seq(DatRecords)
  BY Zenon DEF FileTypes
<1>3. r \in DatRecords
  BY <1>1, HandleFacts, LenAssumption, Zenon DEF Advances, DatRecords
<1>4. dat' = WriteAt(dat, Len(dat) + 1, r)
  BY <1>2, Zenon DEF AppendDat
<1> HIDE DEF r
<1>5. /\ dat' \in Seq(DatRecords) /\ Len(dat') = Len(dat) + 1 /\ dat'[Len(dat) + 1] = r
      /\ \A e \in 1 .. Len(dat) : dat'[e] = dat[e]
  BY <1>a, <1>3, <1>4 DEF WriteAt
<1>6. FileTypes' /\ Records' = Records
  BY <1>1, <1>5, Zenon DEF FileTypes, Records
<1>7. Taken' = Taken
  BY <1>1, TakenSteps, Zenon DEF Advances, TakenAt
<1> QED
  BY <1>1, <1>2, <1>5, <1>6, <1>7, SetsStay, Zenon DEF r

(* The second write of _db_dodelete blanks the key and sets the ptr to the *)
(* first free record: the record is no longer live, it is a free one.      *)
LEMMA DeleteIdxEffect ==
  ASSUME HandleTypes, FileTypes, RecordsOK, NEW p \in Procs, HandleOK(p), DeleteIdx(p)
  PROVE  /\ FileTypes' /\ Taken' = Taken /\ Records' = Records /\ UNCHANGED <<dat, table, result, seen>>
         /\ db[p].idxoff \in LiveOn(Chain(p))
         /\ PtrSet(db[p].idxoff, ptr[FREE]) /\ KeySet(db[p].idxoff, Blank)
         /\ Live' = Live \ {db[p].idxoff} /\ Freed' = Freed \cup {db[p].idxoff}
         /\ \A c \in Chains : LiveOn(c)' = LiveOn(c) \ {db[p].idxoff}
<1> DEFINE o == db[p].idxoff
<1>1. /\ db[p].pc = "del_idx" /\ db'[p].pc = "del_free" /\ Others(p) /\ UNCHANGED <<dat, table, result, seen>>
      /\ ptr' = [ptr EXCEPT ![o] = ptr[FREE]] /\ idx' = [idx EXCEPT ![o].key = Blank]
  BY DeleteIdxMoves, Zenon DEF DeleteIdx, Answers
<1>2. o \in Records /\ o \in Live /\ idx[o].key = db[p].key
  BY <1>1, Zenon DEF HandleOK, Read
<1> HIDE DEF o
<1>3. KeySet(o, Blank) /\ idx' \in Seq(IdxRecords) /\ Records' = Records
  BY <1>1, <1>2, KeyWritten, Zenon
<1>4. ptr[FREE] \in {0} \cup Records
  BY FileFacts, Zenon DEF Places
<1>5. PtrSet(o, ptr[FREE]) /\ FileTypes'
  BY <1>1, <1>2, <1>3, <1>4, PtrWritten, Zenon DEF FileTypes
<1>6. Taken' = Taken
  BY <1>1, TakenSteps, Zenon DEF TakenAt
<1>7. Live' = Live \ {o} /\ Freed' = Freed \cup {o}
  BY <1>2, <1>3, <1>6, Zenon DEF Live, Freed, KeySet
<1>8. \A c \in Chains : LiveOn(c)' = LiveOn(c) \ {o}
  BY <1>3, <1>7, Zenon DEF LiveOn, Live, KeySet
<1>9. o \in LiveOn(Chain(p))
  BY <1>2, Zenon DEF LiveOn, Chain
<1> QED
  BY <1>1, <1>3, <1>5, <1>6, <1>7, <1>8, <1>9, Zenon DEF o

(* The third write of _db_dodelete: the free list starts with the record.  *)
LEMMA DeleteFreeEffect ==
  ASSUME HandleTypes, FileTypes, RecordsOK, ListsOK, NEW p \in Procs, HandleOK(p), DeleteFree(p)
  PROVE  /\ FileTypes' /\ RecordsStay /\ Taken' = Taken /\ UNCHANGED <<idx, dat, table, result, seen>>
         /\ PtrSet(FREE, db[p].idxoff) /\ Advances(p, "del_free", "del_chain")
<1>1. Advances(p, "del_free", "del_chain") /\ UNCHANGED <<idx, dat, table, result, seen>>
  BY Advance, Zenon DEF DeleteFree, Answers
<1>2. db[p].idxoff \in {0} \cup Records
  <2>1. IsList([ptr EXCEPT ![FREE] = db[p].idxoff], FREE, Freed)
    BY <1>1, Zenon DEF ListsOK, Advances, At
  <2>2. [ptr EXCEPT ![FREE] = db[p].idxoff][FREE] = db[p].idxoff
    BY Zenon DEF FileTypes, Places
  <2> QED
    BY <2>1, <2>2, Zenon DEF IsList, Leads, Freed
<1>3. Records' = Records
  BY <1>1, Zenon DEF Records
<1>4. PtrSet(FREE, db[p].idxoff) /\ FileTypes'
  BY <1>1, <1>2, <1>3, PtrWritten, Zenon DEF FileTypes, DeleteFree, Places
<1>5. Taken' = Taken
  BY <1>1, TakenSteps, Zenon DEF Advances, TakenAt
<1> QED
  BY <1>1, <1>3, <1>4, <1>5, SetsStay, Zenon

(* The last write of _db_dodelete: the ptr that led to the record leads to *)
(* the next one.                                                           *)
LEMMA DeleteChainEffect ==
  ASSUME HandleTypes, FileTypes, RecordsOK, ListsOK, NEW p \in Procs, HandleOK(p), DeleteChain(p)
  PROVE  /\ FileTypes' /\ RecordsStay /\ Taken' = Taken /\ UNCHANGED <<idx, dat, table, result, seen>>
         /\ PtrSet(db[p].ptroff, db[p].saveptr) /\ Advances(p, "del_chain", "deleted")
         /\ db[p].ptroff \in LiveOn(Chain(p)) \cup {Chain(p)}
<1>1. Advances(p, "del_chain", "deleted") /\ UNCHANGED <<idx, dat, table, result, seen>>
  BY Advance, ZenonT(30) DEF DeleteChain, Answers
<1> DEFINE c == Chain(p)  x == db[p].ptroff  f == [ptr EXCEPT ![x] = db[p].saveptr]
<1>2. IsList(f, c, LiveOn(c)) /\ x \in LiveOn(c) \cup {c}
  BY <1>1, Zenon DEF ListsOK, Advances, Unlinking
<1>3. x \in Places \cup Records
  BY <1>1, <1>2, HandleFacts, Zenon DEF Advances, LiveOn, Live, Places
<1>4. f[x] = db[p].saveptr
  BY <1>3, Zenon DEF FileTypes
<1>5. db[p].saveptr \in {0} \cup Records
  BY <1>2, <1>4, Zenon DEF IsList, Leads, Closed, LiveOn, Live
<1>6. Records' = Records
  BY <1>1, Zenon DEF Records
<1>7. PtrSet(x, db[p].saveptr) /\ FileTypes'
  BY <1>1, <1>3, <1>5, <1>6, PtrWritten, Zenon DEF FileTypes, DeleteChain
<1>8. Taken' = Taken
  BY <1>1, TakenSteps, Zenon DEF Advances, TakenAt
<1> QED
  BY <1>1, <1>2, <1>6, <1>7, <1>8, SetsStay, Zenon

(* _db_findfree takes the record off the free list.                        *)
LEMMA TakeFreeEffect ==
  ASSUME HandleTypes, FileTypes, RecordsOK, NEW p \in Procs, HandleOK(p), TakeFree(p)
  PROVE  /\ FileTypes' /\ Taken' = Taken \cup {db[p].idxoff} /\ Records' = Records
         /\ UNCHANGED <<idx, dat, table, result, seen>>
         /\ PtrSet(db[p].ptroff, db[p].ptrval) /\ Advances(p, "take", "reuse_dat")
         /\ Live' = Live /\ Freed' = Freed \ {db[p].idxoff} /\ \A c \in Chains : LiveOn(c)' = LiveOn(c)
<1>1. Advances(p, "take", "reuse_dat") /\ UNCHANGED <<idx, dat, table, result, seen>>
  BY Advance, Zenon DEF TakeFree, Answers
<1>2. /\ db[p].ptroff \in Places \cup Records /\ db[p].ptrval \in {0} \cup Records
      /\ db[p].idxoff \in Freed
  BY <1>1, FileFacts, Zenon DEF Advances, HandleOK, At, Freed, Places
<1>3. Records' = Records
  BY <1>1, Zenon DEF Records
<1>4. PtrSet(db[p].ptroff, db[p].ptrval) /\ FileTypes'
  BY <1>1, <1>2, <1>3, PtrWritten, Zenon DEF FileTypes, TakeFree
<1>5. Taken' = Taken \cup {db[p].idxoff}
  BY <1>1, TakenSteps, Zenon DEF Advances, TakenAt, KeepsRest
<1>6. Live' = Live /\ Freed' = Freed \ {db[p].idxoff}
  BY <1>1, <1>2, <1>3, <1>5, Zenon DEF Live, Freed
<1>7. \A c \in Chains : LiveOn(c)' = LiveOn(c)
  BY <1>1, <1>6, Zenon DEF LiveOn
<1> QED
  BY <1>1, <1>3, <1>4, <1>5, <1>6, <1>7, Zenon

(* The record that was taken gets its key, and the first ptr of the chain  *)
(* as its ptr.                                                             *)
LEMMA ReuseIdxEffect ==
  ASSUME HandleTypes, FileTypes, RecordsOK, NEW p \in Procs, HandleOK(p), ReuseIdx(p)
  PROVE  /\ FileTypes' /\ RecordsStay /\ Taken' = Taken /\ UNCHANGED <<dat, table, result, seen>>
         /\ PtrSet(db[p].idxoff, db[p].saveptr) /\ KeySet(db[p].idxoff, db[p].key) /\ Advances(p, "reuse_idx", "link")
<1>1. Advances(p, "reuse_idx", "link") /\ UNCHANGED <<dat, table, result, seen>>
  BY Advance, ZenonT(30) DEF ReuseIdx, Answers
<1> DEFINE o == db[p].idxoff
           r == [idx[o] EXCEPT !.key = db[p].key, !.datlen = DataLen[db[p].val]]
<1>2. o \in Records /\ o \in Taken /\ idx[o].datlen = DataLen[db[p].val]
  BY <1>1, Zenon DEF Advances, HandleOK, Read, Fits, Taken, TakenAt
<1>3. db[p].key \in Keys /\ db[p].val \in Vals
  BY <1>1, HandleFacts, Zenon DEF Advances
<1>4. db[p].saveptr \in {0} \cup Records
  BY <1>1, HandleFacts, FileFacts, ZenonT(30) DEF Advances, HandleOK, ReuseAt, Places
<1>5. idx[o] \in IdxRecords
  BY <1>2, FileFacts, Zenon
<1>6. /\ r \in IdxRecords /\ r.key = db[p].key /\ r.keylen = idx[o].keylen
      /\ r.datoff = idx[o].datoff /\ r.datlen = idx[o].datlen
  BY <1>2, <1>3, <1>5, LenAssumption, Zenon DEF IdxRecords
<1>7. idx' = [idx EXCEPT ![o] = r] /\ ptr' = [ptr EXCEPT ![o] = db[p].saveptr]
  BY Zenon DEF ReuseIdx
<1> HIDE DEF r, o
<1>8. /\ idx' \in Seq(IdxRecords) /\ Len(idx') = Len(idx) /\ idx'[o] = r
      /\ \A j \in 1 .. Len(idx) : j # o => idx'[j] = idx[j]
  BY <1>2, <1>6, <1>7, SeqSet DEF FileTypes, Records
<1>9. KeySet(o, db[p].key) /\ Records' = Records
  BY <1>6, <1>8, Zenon DEF KeySet, Records
<1>10. PtrSet(o, db[p].saveptr) /\ FileTypes'
  BY <1>1, <1>2, <1>4, <1>7, <1>8, <1>9, PtrWritten, Zenon DEF FileTypes
<1>11. Taken' = Taken
  BY <1>1, TakenSteps, Zenon DEF Advances, TakenAt, KeepsRest
<1>12. RecordsStay
  BY <1>2, <1>9, <1>11, SetsStay, Zenon DEF KeySet
<1> QED
  BY <1>1, <1>9, <1>10, <1>11, <1>12, Zenon DEF o

(* The index file grows by a record that is taken.                         *)
LEMMA AppendIdxEffect ==
  ASSUME HandleTypes, FileTypes, RecordsOK, NEW p \in Procs, HandleOK(p), AppendIdx(p)
  PROVE  /\ FileTypes' /\ Taken' = Taken \cup {db[p].idxoff} /\ UNCHANGED <<dat, table, result, seen>>
         /\ db[p].idxoff = Len(idx) + 1 /\ db[p].idxoff \notin Records /\ Records' = Records \cup {db[p].idxoff}
         /\ idx'[db[p].idxoff] = IdxRecord(p) /\ \A o \in Records : idx'[o] = idx[o]
         /\ ptr'[db[p].idxoff] = db[p].saveptr /\ \A x \in Places \cup Records : ptr'[x] = ptr[x]
         /\ Live' = Live /\ Freed' = Freed /\ \A c \in Chains : LiveOn(c)' = LiveOn(c)
         /\ Advances(p, "append_idx", "link")
<1>1. Advances(p, "append_idx", "link") /\ UNCHANGED <<dat, table, result, seen>>
  BY Advance, Zenon DEF AppendIdx, Answers
<1> DEFINE o == db[p].idxoff
           r == IdxRecord(p)
<1>2. o = Len(idx) + 1 /\ Len(idx) \in Nat /\ idx \in Seq(IdxRecords)
  BY <1>1 DEF Advances, RecordsOK, At, FileTypes
<1>3. o \notin Records /\ o \notin Places
  <2>1. o \in Nat /\ o \notin 1 .. Len(idx)
    BY <1>2
  <2> QED
    BY <2>1, PlacesAssumption, Zenon DEF Records, Places
<1>4. r \in IdxRecords
  BY <1>1, HandleFacts, LenAssumption, Zenon DEF Advances, IdxRecords, IdxRecord
<1>5. db[p].saveptr \in {0} \cup Records
  BY <1>1, HandleFacts, FileFacts, ZenonT(30) DEF Advances, HandleOK, AppendAt, Places
<1>6. /\ idx' = WriteAt(idx, Len(idx) + 1, r)
      /\ ptr' = [x \in DOMAIN ptr \cup {o} |-> IF x = o THEN db[p].saveptr ELSE ptr[x]]
  BY <1>2, Zenon DEF AppendIdx
<1> HIDE DEF r, o
<1>7. /\ idx' \in Seq(IdxRecords) /\ Len(idx') = Len(idx) + 1 /\ idx'[Len(idx) + 1] = r
      /\ \A j \in 1 .. Len(idx) : idx'[j] = idx[j]
  BY <1>2, <1>4, <1>6 DEF WriteAt
<1>8. Records' = Records \cup {o} /\ idx'[o] = r /\ \A u \in Records : idx'[u] = idx[u]
  BY <1>2, <1>7 DEF Records
<1>9. /\ DOMAIN ptr = Places \cup Records
      /\ ptr'[o] = db[p].saveptr /\ \A x \in Places \cup Records : ptr'[x] = ptr[x]
  BY <1>3, <1>6, Zenon DEF FileTypes
<1>10. FileTypes'
  BY <1>1, <1>5, <1>6, <1>7, <1>8, <1>9, Zenon DEF FileTypes
<1>11. Taken' = Taken \cup {o}
  BY <1>1, TakenSteps, Zenon DEF Advances, TakenAt, KeepsRest, o
<1>12. Live' = Live /\ Freed' = Freed
  BY <1>3, <1>8, <1>11, Zenon DEF Live, Freed
<1>13. \A c \in Chains : LiveOn(c)' = LiveOn(c)
  BY <1>8, <1>12, Zenon DEF LiveOn, Live
<1> QED
  BY <1>1, <1>2, <1>3, <1>8, <1>9, <1>10, <1>11, <1>12, <1>13, Zenon DEF o, r

(* The last write of db_store: the chain starts with the record, which is  *)
(* now live.                                                               *)
LEMMA LinkEffect ==
  ASSUME HandleTypes, FileTypes, RecordsOK, NEW p \in Procs, HandleOK(p), Link(p)
  PROVE  /\ FileTypes' /\ Records' = Records /\ UNCHANGED <<idx, dat>>
         /\ PtrSet(Chain(p), db[p].idxoff) /\ Ends(p, "link")
         /\ Taken' = Taken \ {db[p].idxoff} /\ db[p].idxoff \in Taken
         /\ Live' = Live \cup {db[p].idxoff} /\ Freed' = Freed
         /\ \A c \in Chains : LiveOn(c)' = LiveOn(c) \cup (IF c = Chain(p) THEN {db[p].idxoff} ELSE {})
<1>1. Ends(p, "link") /\ UNCHANGED <<idx, dat>> /\ ptr' = [ptr EXCEPT ![Chain(p)] = db[p].idxoff]
  BY End, Zenon DEF Link
<1> DEFINE o == db[p].idxoff
<1>2. o \in Records /\ o \in Taken /\ idx[o].key = db[p].key
  BY <1>1, Zenon DEF Ends, HandleOK, Read, Taken, TakenAt
<1>3. db[p].key \in Keys /\ Chain(p) \in Chains /\ db[p].key # Blank
  BY <1>1, HandleFacts, BlankAssumption, Zenon DEF Ends
<1>4. Records' = Records
  BY <1>1, Zenon DEF Records
<1>5. PtrSet(Chain(p), o) /\ FileTypes'
  BY <1>1, <1>2, <1>3, <1>4, PtrWritten, Zenon DEF FileTypes, Places
<1>6. Taken' = Taken \ {o}
  BY <1>1, TakenSteps, Zenon DEF Ends, TakenAt
<1> HIDE DEF o
<1>7. Live' = Live \cup {o} /\ Freed' = Freed
  BY <1>1, <1>2, <1>3, <1>4, <1>6, Zenon DEF Live, Freed
<1>8. ASSUME NEW c \in Chains
      PROVE  LiveOn(c)' = LiveOn(c) \cup (IF c = Chain(p) THEN {o} ELSE {})
  BY <1>1, <1>2, <1>7, <1>8, Zenon DEF LiveOn, Chain
<1> QED
  BY <1>1, <1>2, <1>4, <1>5, <1>6, <1>7, <1>8, Zenon DEF o

(* The steps that write to no file.                                        *)
Quiet(p) == Call(p) \/ Find(p) \/ NotFound(p) \/ Fetched(p) \/ InsertFails(p) \/ DeleteStart(p) \/ Deleted(p)
            \/ FindFree(p) \/ WalkFree(p) \/ EndDat(p) \/ EndIdx(p)

(* These steps leave the files and the records as they are.                *)
LEMMA QuietEffect ==
  ASSUME HandleTypes, FileTypes, NEW p \in Procs, HandleOK(p), Quiet(p)
  PROVE  /\ FileTypes' /\ RecordsStay /\ Taken' = Taken /\ UNCHANGED <<ptr, idx, dat>>
         /\ db[p].pc \notin TakenAt /\ db'[p].pc \notin TakenAt
<1>1. Others(p) /\ db[p].pc \notin TakenAt /\ db'[p].pc \notin TakenAt
  <2>1. CASE Call(p)
    BY <2>1, CallMoves, Zenon DEF TakenAt
  <2>2. CASE Find(p)
    BY <2>2, FindMoves, Zenon DEF TakenAt
  <2>3. CASE NotFound(p) \/ Fetched(p) \/ InsertFails(p) \/ Deleted(p)
    BY <2>3, End, Zenon DEF Ends, TakenAt
  <2>4. CASE DeleteStart(p)
    BY <2>4, Advance, Zenon DEF Advances, TakenAt
  <2>5. CASE FindFree(p)
    BY <2>5, FindFreeMoves, Zenon DEF TakenAt
  <2>6. CASE WalkFree(p)
    BY <2>6, WalkFreeMoves, Zenon DEF TakenAt
  <2>7. CASE EndDat(p)
    BY <2>7, EndDatMoves, Zenon DEF TakenAt
  <2>8. CASE EndIdx(p)
    BY <2>8, EndIdxMoves, Zenon DEF TakenAt
  <2> QED
    BY <2>1, <2>2, <2>3, <2>4, <2>5, <2>6, <2>7, <2>8, Zenon DEF Quiet
<1>2. UNCHANGED <<ptr, idx, dat>>
  BY Zenon DEF Quiet, Call, Find, NotFound, Fetched, InsertFails, DeleteStart, Deleted, FindFree, WalkFree, EndDat, EndIdx, Files
<1>3. Taken' = Taken
  BY <1>1, TakenSteps, Zenon
<1>4. FileTypes' /\ Records' = Records
  BY <1>2, Zenon DEF FileTypes, Records
<1> QED
  BY <1>1, <1>2, <1>3, <1>4, SetsStay, Zenon

-----------------------------------------------------------------------------
(* What a step leaves alone.                                               *)

(* What a step of p leaves alone: the other chains, the free list when p   *)
(* does not hold it, and the records that others have taken.               *)
ChainStays(c) == /\ LiveOn(c)' = LiveOn(c)
                 /\ \A x \in LiveOn(c) \cup {c} : ptr'[x] = ptr[x]
                 /\ \A o \in LiveOn(c) : idx'[o] = idx[o] /\ dat'[idx[o].datoff] = dat[idx[o].datoff]

FreeStays == /\ Freed' = Freed
             /\ \A x \in Freed \cup {FREE} : ptr'[x] = ptr[x]
             /\ \A o \in Freed : idx'[o] = idx[o] /\ dat'[idx[o].datoff] = dat[idx[o].datoff]

RecordStays(o) == /\ ptr'[o] = ptr[o] /\ idx'[o] = idx[o] /\ dat'[idx[o].datoff] = dat[idx[o].datoff]

TakenStays(p) == \A q \in Procs \ {p} : db[q].pc \in TakenAt => RecordStays(db[q].idxoff)

(* What process q knows stays true.                                        *)
LEMMA KnowsStill ==
  ASSUME HandleTypes, FileTypes, NEW q \in Procs, HandleOK(q), db[q].pc # "idle", db'[q] = db[q],
         NEW c \in Chains, Chain(q) = c, Records \subseteq Records', ChainStays(c),
         db[q].pc \in FreeAt => FreeStays,
         db[q].pc \in TakenAt => RecordStays(db[q].idxoff)
  PROVE  HandleOK(q)'
<1> DEFINE o == db[q].idxoff
<1>1. Chain(q)' = c /\ c \in Chains
  BY HandleFacts, Zenon DEF Chain
<1>2. ASSUME db[q].pc = "find" PROVE OnChain(q)' /\ Ahead(q)'
  <2>1. OnChain(q)'
    BY <1>1, <1>2 DEF HandleOK, At, OnChain, ChainStays
  <2>2. \A T \in SUBSET LiveOn(c) : Closed(ptr', T) => Closed(ptr, T)
    BY Zenon DEF Closed, Leads, ChainStays
  <2>3. \A u \in LiveOn(c) : idx'[u].key = idx[u].key
    BY Zenon DEF ChainStays
  <2>4. LiveOn(c)' = LiveOn(c)
    BY Zenon DEF ChainStays
  <2>5. Ahead(q)
    BY <1>2, Zenon DEF HandleOK, At
  <2>6. Ahead(q)'
    BY <1>1, <2>2, <2>3, <2>4, <2>5, Zenon DEF Ahead
  <2> QED
    BY <2>1, <2>6, Zenon
<1>3. ASSUME db[q].pc \in {"found", "del_dat", "del_idx"}
      PROVE  /\ OnChain(q)' /\ Read(q)' /\ db[q].idxoff \in Live' /\ idx'[o].key = db[q].key
             /\ db[q].ptrval = ptr'[o] /\ (db[q].pc = "del_idx" => dat'[db[q].datoff].val = Blank)
  <2>1. OnChain(q) /\ Read(q) /\ o \in Live /\ idx[o].key = db[q].key /\ db[q].ptrval = ptr[o]
    BY <1>3, Zenon DEF HandleOK
  <2>2. o \in LiveOn(c)
    BY <2>1, Zenon DEF LiveOn, Chain
  <2>3. o \in Live' /\ idx'[o] = idx[o] /\ ptr'[o] = ptr[o] /\ dat'[idx[o].datoff] = dat[idx[o].datoff]
    BY <2>2, Zenon DEF ChainStays, LiveOn
  <2>4. OnChain(q)'
    BY <1>1, <2>1, ZenonT(30) DEF OnChain, ChainStays
  <2>5. Read(q)'
    BY <2>1, <2>3, Zenon DEF Read
  <2>6. db[q].pc = "del_idx" => dat'[db[q].datoff].val = Blank
    BY <2>1, <2>3, Zenon DEF Read, HandleOK, At
  <2> QED
    BY <2>1, <2>3, <2>4, <2>5, <2>6, Zenon
<1>4. ASSUME db[q].pc \in {"free", "take"}
      PROVE  /\ db[q].ptroff \in Freed' \cup {FREE} /\ o = ptr'[db[q].ptroff]
             /\ db[q].pc = "take" => /\ o \in Freed' /\ db[q].ptrval = ptr'[o]
                                     /\ Read(q)' /\ idx'[o].key = Blank /\ Fits(o, q)'
  <2>1. FreeStays
    BY <1>4, Zenon DEF FreeAt
  <2>2. db[q].ptroff \in Freed \cup {FREE} /\ o = ptr[db[q].ptroff]
    BY <1>4, Zenon DEF HandleOK
  <2>3. db[q].pc = "take" => o \in Freed /\ db[q].ptrval = ptr[o] /\ Read(q) /\ idx[o].key = Blank /\ Fits(o, q)
    BY Zenon DEF HandleOK, At
  <2>4. db[q].pc = "take" => idx'[o] = idx[o] /\ ptr'[o] = ptr[o]
    BY <2>1, <2>3, Zenon DEF FreeStays
  <2> QED
    BY <2>1, <2>2, <2>3, <2>4, Zenon DEF FreeStays, Read, Fits
<1>5. ASSUME db[q].pc \in TakenAt
      PROVE  /\ db[q].pc \in {"reuse_dat", "reuse_idx"} => Read(q)' /\ idx'[o].key = Blank /\ Fits(o, q)'
             /\ db[q].pc \in {"reuse_idx", "link"} => dat'[db[q].datoff].val = db[q].val
             /\ db[q].pc = "link" => Read(q)' /\ idx'[o].key = db[q].key /\ ptr'[o] = db[q].saveptr
  <2>1. Read(q) 
    BY <1>5, Zenon DEF TakenAt, HandleOK
  <2>2. /\ db[q].pc \in {"reuse_dat", "reuse_idx"} => idx[o].key = Blank /\ Fits(o, q)
        /\ db[q].pc \in {"reuse_idx", "link"} => dat[db[q].datoff].val = db[q].val
        /\ db[q].pc = "link" => idx[o].key = db[q].key /\ ptr[o] = db[q].saveptr
    BY Zenon DEF HandleOK
  <2>3. idx'[o] = idx[o] /\ ptr'[o] = ptr[o] /\ dat'[idx[o].datoff] = dat[idx[o].datoff]
    BY <1>5, Zenon DEF RecordStays
  <2> QED
    BY <2>1, <2>2, <2>3, Zenon DEF Read, Fits
<1>6. db[q].pc \in ReuseAt \cup AppendAt => db[q].saveptr = ptr'[c]
  BY Zenon DEF HandleOK, ChainStays
<1> QED
  BY <1>1, <1>2, <1>3, <1>4, <1>5, <1>6, Zenon DEF HandleOK, At, TakenAt

(* What the locks keep apart.                                              *)
LEMMA Apart ==
  ASSUME HandleTypes, LocksHeld, Exclusive, NEW p \in Procs, NEW q \in Procs, p # q
  PROVE  /\ db[p].pc # "idle" /\ db[q].pc # "idle" /\ db[p].op # "fetch" => Chain(q) # Chain(p)
         /\ ~(db[p].pc \in FreeAt /\ db[q].pc \in FreeAt)
         /\ ~(db[p].pc = "append_idx" /\ db[q].pc = "append_idx")
         /\ ~(db[p].pc = "append_dat" /\ db[q].pc = "append_dat")
<1>1. \A x \in Locks : Writes(p, x) => ~Writes(q, x) /\ ~Reads(q, x)
  BY LockFacts, Zenon DEF Exclusive
<1>2. {FREE, IDXEND, DATFILE} \subseteq Locks
  BY Zenon DEF Locks
<1>3. db[p].pc # "idle" => Chain(p) \in Locks
  BY CallFields, HashAssumption, Zenon DEF Chain, Calling, Locks
<1>4. db[p].pc # "idle" /\ db[q].pc # "idle" /\ db[p].op # "fetch" => Chain(q) # Chain(p)
  BY <1>1, <1>3, Zenon DEF Writes, Reads, At
<1> QED
  BY <1>1, <1>2, <1>4, Zenon DEF Writes, At

(* While a process has the lock on the free list no scanner is inside      *)
(* db_nextrec.                                                             *)
LEMMA ScanApart ==
  ASSUME HandleTypes, LocksHeld, Exclusive, NEW p \in Procs, NEW s \in Scanners, db[p].pc \in FreeAt
  PROVE  db[s].pc \notin {"next", "next_dat"}
<1>1. FREE \in Locks /\ Writes(p, FREE)
  BY Zenon DEF Locks, Writes
<1> QED
  BY <1>1, LockFacts, Zenon DEF Exclusive, Scans

(* A step of p leaves alone what is not its own.                           *)
Frame(p) == /\ Records \subseteq Records'
            /\ \A c \in Chains : c # Chain(p) => ChainStays(c)
            /\ db[p].pc \notin FreeAt => FreeStays
            /\ TakenStays(p)

(* A record is live, free or taken, and on the chain of one hash value.    *)
LEMMA Disjoint ==
  /\ Live \cap Freed = {} /\ Live \cap Taken = {} /\ Freed \cap Taken = {}
  /\ \A c : LiveOn(c) \subseteq Live /\ Live \subseteq Records /\ Freed \subseteq Records
  /\ \A c, d : c # d => LiveOn(c) \cap LiveOn(d) = {}
  /\ \A q \in Procs : db[q].pc \in TakenAt => db[q].idxoff \in Taken
BY Zenon DEF Live, Freed, LiveOn, Taken

(* The step changes record o alone.                                        *)
LEMMA FrameOne ==
  ASSUME FileTypes, NEW p \in Procs, NEW o, Records \subseteq Records',
         \A u \in Records : u # o => RecordStays(u),
         \A c \in Chains : c # Chain(p) => LiveOn(c)' = LiveOn(c) /\ o \notin LiveOn(c) /\ ptr'[c] = ptr[c],
         db[p].pc \notin FreeAt => Freed' = Freed /\ o \notin Freed /\ ptr'[FREE] = ptr[FREE],
         \A q \in Procs \ {p} : db[q].pc \in TakenAt => db[q].idxoff \in Records /\ db[q].idxoff # o
  PROVE  Frame(p)
<1>1. ASSUME NEW c \in Chains, c # Chain(p) PROVE ChainStays(c)
  BY <1>1, Disjoint, Zenon DEF ChainStays, RecordStays
<1>2. ASSUME db[p].pc \notin FreeAt PROVE FreeStays
  BY <1>2, Disjoint, Zenon DEF FreeStays, RecordStays
<1>3. TakenStays(p)
  BY Zenon DEF TakenStays
<1> QED
  BY <1>1, <1>2, <1>3, Zenon DEF Frame

(* The records taken are records of the file, and no two processes have    *)
(* taken the same.                                                         *)
LEMMA TakenElse ==
  ASSUME RecordsOK, HandleTypes, FileTypes, NEW p \in Procs, \A q \in Procs : HandleOK(q)
  PROVE  /\ \A q \in Procs \ {p} : db[q].pc \in TakenAt => db[q].idxoff \in Records
         /\ db[p].pc \in TakenAt => \A q \in Procs \ {p} : db[q].pc \in TakenAt => db[q].idxoff # db[p].idxoff
         /\ Taken \subseteq Records
<1>1. \A q \in Procs : db[q].pc \in TakenAt => db[q].idxoff \in Records
  BY HandleFacts, Zenon DEF TakenAt
<1> QED
  BY <1>1, ZenonT(30) DEF RecordsOK, Taken

(* The data of one record is written: the others stay.                     *)
LEMMA DatFrame ==
  ASSUME FileTypes, RecordsOK, UNCHANGED <<ptr, idx>>, NEW o \in Records, NEW v, DatSet(idx[o].datoff, v)
  PROVE  \A u \in Records : u # o => RecordStays(u)
<1>1. ASSUME NEW u \in Records, u # o PROVE idx[u].datoff # idx[o].datoff /\ idx[u].datoff \in 1 .. Len(dat)
  BY <1>1, Zenon DEF RecordsOK
<1> QED
  BY <1>1, Zenon DEF DatSet, RecordStays

(* Every step that writes leaves alone what the locks of p do not cover.   *)
LEMMA Frames ==
  ASSUME HandleTypes, FileTypes, RecordsOK, ListsOK, NEW p \in Procs, \A q \in Procs : HandleOK(q),
         \/ DeleteDat(p) \/ Overwrite(p) \/ ReuseDat(p) \/ AppendDat(p) \/ DeleteIdx(p) \/ DeleteFree(p)
         \/ DeleteChain(p) \/ TakeFree(p) \/ ReuseIdx(p) \/ AppendIdx(p) \/ Link(p)
  PROVE  Frame(p)
<1> DEFINE o == db[p].idxoff  c == Chain(p)
<1>a. HandleOK(p)
  OBVIOUS
<1>t. /\ \A q \in Procs \ {p} : db[q].pc \in TakenAt => db[q].idxoff \in Records /\ db[q].idxoff \in Taken
      /\ db[p].pc \in TakenAt => \A q \in Procs \ {p} : db[q].pc \in TakenAt => db[q].idxoff # o
      /\ Taken \subseteq Records
  BY TakenElse, Disjoint, Zenon
<1>d. /\ Live \cap Freed = {} /\ Live \cap Taken = {} /\ Freed \cap Taken = {}
      /\ Live \subseteq Records /\ Freed \subseteq Records
      /\ \A e \in Chains : LiveOn(e) \subseteq Live /\ (e # c => LiveOn(e) \cap LiveOn(c) = {})
      /\ db[p].pc \in TakenAt => o \in Taken
  BY Disjoint, Zenon
<1>p. /\ \A u \in Records : u \notin Places /\ u \notin Chains
      /\ FREE \notin Chains /\ Chains \subseteq Places /\ FREE \in Places
  BY FileFacts, PlacesAssumption, Zenon DEF Places, Locks
<1> HIDE DEF o, c
<1>1. ASSUME DeleteDat(p) PROVE Frame(p)
  <2>1. /\ RecordsStay /\ UNCHANGED <<ptr, idx>> /\ DatSet(db[p].datoff, Blank) /\ db[p].pc = "del_dat"
    BY <1>1, <1>a, DeleteDatEffect, Zenon DEF Advances
  <2>2. o \in LiveOn(c) /\ o \in Records /\ db[p].datoff = idx[o].datoff
    BY <1>a, <2>1, Zenon DEF HandleOK, Read, LiveOn, Chain, o, c
  <2>3. \A u \in Records : u # o => RecordStays(u)
    BY <2>1, <2>2, DatFrame, Zenon
  <2>4. /\ \A e \in Chains : e # c => LiveOn(e)' = LiveOn(e) /\ o \notin LiveOn(e) /\ ptr'[e] = ptr[e]
        /\ Freed' = Freed /\ o \notin Freed /\ o \notin Taken /\ ptr'[FREE] = ptr[FREE] /\ Records' = Records
    BY <1>d, <2>1, <2>2, Zenon DEF RecordsStay, LiveOn
  <2> QED
    BY <1>t, <2>3, <2>4, FrameOne, Zenon DEF c
<1>2. ASSUME Overwrite(p) PROVE Frame(p)
  <2>1. /\ RecordsStay /\ UNCHANGED <<ptr, idx>> /\ DatSet(db[p].datoff, db[p].val) /\ db[p].pc = "found"
    BY <1>2, <1>a, OverwriteEffect, Zenon DEF Ends
  <2>2. o \in LiveOn(c) /\ o \in Records /\ db[p].datoff = idx[o].datoff
    BY <1>a, <2>1, Zenon DEF HandleOK, Read, LiveOn, Chain, o, c
  <2>3. \A u \in Records : u # o => RecordStays(u)
    BY <2>1, <2>2, DatFrame, Zenon
  <2>4. /\ \A e \in Chains : e # c => LiveOn(e)' = LiveOn(e) /\ o \notin LiveOn(e) /\ ptr'[e] = ptr[e]
        /\ Freed' = Freed /\ o \notin Freed /\ o \notin Taken /\ ptr'[FREE] = ptr[FREE] /\ Records' = Records
    BY <1>d, <2>1, <2>2, Zenon DEF RecordsStay, LiveOn
  <2> QED
    BY <1>t, <2>3, <2>4, FrameOne, Zenon DEF c
<1>3. ASSUME ReuseDat(p) PROVE Frame(p)
  <2>1. /\ RecordsStay /\ UNCHANGED <<ptr, idx>> /\ DatSet(db[p].datoff, db[p].val) /\ db[p].pc = "reuse_dat"
    BY <1>3, <1>a, ReuseDatEffect, Zenon DEF Advances
  <2>2. o \in Taken /\ o \in Records /\ db[p].datoff = idx[o].datoff /\ db[p].pc \in TakenAt
    BY <1>a, <1>d, <2>1, Zenon DEF HandleOK, Read, TakenAt, o
  <2>3. \A u \in Records : u # o => RecordStays(u)
    BY <2>1, <2>2, DatFrame, Zenon
  <2> QED
    BY <1>t, <1>d, <2>1, <2>2, <2>3, FrameOne, Zenon DEF RecordsStay, c
<1>4. ASSUME AppendDat(p) PROVE Frame(p)
  <2>1. /\ RecordsStay /\ UNCHANGED <<ptr, idx>> /\ \A e \in 1 .. Len(dat) : dat'[e] = dat[e]
    BY <1>4, <1>a, AppendDatEffect, ZenonT(30) DEF Advances
  <2>2. \A u \in Records : u # 0 => RecordStays(u)
    BY <2>1, Zenon DEF RecordsOK, RecordStays
  <2>3. 0 \notin Records
    BY FileFacts, Zenon
  <2> QED
    BY <1>t, <1>d, <2>1, <2>2, <2>3, FrameOne, Zenon DEF RecordsStay
<1>5. ASSUME DeleteIdx(p) PROVE Frame(p)
  <2>1. /\ Records' = Records /\ UNCHANGED dat /\ o \in LiveOn(c) /\ PtrSet(o, ptr[FREE]) /\ KeySet(o, Blank)
        /\ \A e \in Chains : LiveOn(e)' = LiveOn(e) \ {o}
    BY <1>5, <1>a, DeleteIdxEffect, Zenon DEF o, c
  <2>2. db[p].pc \in FreeAt
    BY <1>5, Zenon DEF DeleteIdx, At, FreeAt, DeleteAt
  <2>3. \A u \in Records : u # o => RecordStays(u)
    BY <2>1, Zenon DEF PtrSet, KeySet, RecordStays
  <2>4. o \in Records
    BY <1>d, <2>1, Zenon DEF LiveOn
  <2>5. \A e \in Chains : e # c => LiveOn(e)' = LiveOn(e) /\ o \notin LiveOn(e) /\ ptr'[e] = ptr[e]
    BY <1>p, <1>d, <2>1, <2>4, ZenonT(30) DEF PtrSet
  <2> QED
    BY <1>t, <1>d, <2>1, <2>2, <2>3, <2>5, FrameOne, SMTT(20) DEF LiveOn, c
<1>6. ASSUME DeleteFree(p) PROVE Frame(p)
  <2>1. /\ RecordsStay /\ UNCHANGED <<idx, dat>> /\ PtrSet(FREE, o)
    BY <1>6, <1>a, DeleteFreeEffect, Zenon DEF o
  <2>2. db[p].pc \in FreeAt
    BY <1>6, Zenon DEF DeleteFree, At, FreeAt, DeleteAt
  <2>3. \A u \in Records : u # 0 => RecordStays(u)
    BY <1>p, <2>1, Zenon DEF PtrSet, RecordStays
  <2>4. 0 \notin Records
    BY FileFacts, Zenon
  <2>5. \A e \in Chains : ptr'[e] = ptr[e]
    BY <1>p, <2>1, Zenon DEF PtrSet
  <2> QED
    BY <1>t, <1>d, <2>1, <2>2, <2>3, <2>4, <2>5, FrameOne, ZenonT(30) DEF RecordsStay
<1>7. ASSUME DeleteChain(p) PROVE Frame(p)
  <2>1. /\ RecordsStay /\ UNCHANGED <<idx, dat>> /\ PtrSet(db[p].ptroff, db[p].saveptr)
        /\ db[p].ptroff \in LiveOn(c) \cup {c}
    BY <1>7, <1>a, DeleteChainEffect, Zenon DEF c
  <2>2. db[p].pc \in FreeAt
    BY <1>7, Zenon DEF DeleteChain, At, FreeAt, DeleteAt
  <2>3. \A u \in Records : u # db[p].ptroff => RecordStays(u)
    BY <2>1, Zenon DEF PtrSet, RecordStays
  <2>4. \A e \in Chains : e # c => ptr'[e] = ptr[e] /\ db[p].ptroff \notin LiveOn(e)
    <3>1. LiveOn(c) \subseteq Records /\ \A e \in Chains : e # c => LiveOn(e) \cap LiveOn(c) = {} /\ e \notin LiveOn(c)
      BY <1>d, <1>p, Zenon DEF LiveOn
    <3>2. c \in Chains
      BY <1>a, <2>2, HandleFacts, Zenon DEF FreeAt, DeleteAt, c
    <3> QED
      BY <1>d, <1>p, <2>1, <3>1, <3>2, Zenon DEF PtrSet
  <2>5. \A q \in Procs \ {p} : db[q].pc \in TakenAt => db[q].idxoff # db[p].ptroff
    <3>1. c \in Chains
      BY <1>a, <2>2, HandleFacts, Zenon DEF FreeAt, DeleteAt, c
    <3>2. \A u \in Taken : u \notin LiveOn(c) /\ u # c
      BY <1>t, <1>d, <1>p, <3>1, Zenon
    <3> QED
      BY <1>t, <2>1, <3>2, Zenon
  <2> QED
    BY <1>t, <2>1, <2>2, <2>3, <2>4, <2>5, FrameOne, Zenon DEF RecordsStay, c
<1>8. ASSUME TakeFree(p) PROVE Frame(p)
  <2>1. /\ Records' = Records /\ UNCHANGED <<idx, dat>> /\ PtrSet(db[p].ptroff, db[p].ptrval)
        /\ \A e \in Chains : LiveOn(e)' = LiveOn(e)
    BY <1>8, <1>a, TakeFreeEffect, Zenon DEF c
  <2>2. db[p].pc \in FreeAt
    BY <1>8, Zenon DEF TakeFree, At, FreeAt
  <2>3. \A u \in Records : u # db[p].ptroff => RecordStays(u)
    BY <2>1, Zenon DEF PtrSet, RecordStays
  <2>4. db[p].ptroff \in Freed \cup {FREE}
    BY <1>a, <1>8, Zenon DEF HandleOK, TakeFree, At
  <2>5. \A e \in Chains : ptr'[e] = ptr[e] /\ db[p].ptroff \notin LiveOn(e)
    <3>1. \A e \in Chains : e \in Places \cup Records /\ e \notin Freed /\ e # FREE
      BY <1>p, <1>d, Zenon
    <3>2. \A e \in Chains : LiveOn(e) \cap Freed = {} /\ FREE \notin LiveOn(e)
      BY <1>p, <1>d, Zenon
    <3> QED
      BY <2>1, <2>4, <3>1, <3>2, Zenon DEF PtrSet
  <2>6. \A q \in Procs \ {p} : db[q].pc \in TakenAt => db[q].idxoff # db[p].ptroff
    <3>1. \A u \in Taken : u \notin Freed /\ u # FREE
      BY <1>t, <1>d, <1>p, Zenon
    <3> QED
      BY <1>t, <2>4, <3>1, Zenon
  <2> QED
    BY <1>t, <2>1, <2>2, <2>3, <2>5, <2>6, FrameOne, Zenon
<1>9. ASSUME ReuseIdx(p) PROVE Frame(p)
  <2>1. /\ RecordsStay /\ UNCHANGED dat /\ PtrSet(o, db[p].saveptr) /\ KeySet(o, db[p].key) /\ db[p].pc \in TakenAt
    BY <1>9, <1>a, ReuseIdxEffect, Zenon DEF Advances, TakenAt, o
  <2>2. o \in Taken /\ o \in Records
    BY <1>d, <1>t, <2>1, Zenon
  <2>3. \A u \in Records : u # o => RecordStays(u)
    BY <2>1, Zenon DEF PtrSet, KeySet, RecordStays
  <2>4. \A e \in Chains : o \notin LiveOn(e) /\ ptr'[e] = ptr[e]
    BY <1>p, <1>d, <2>1, <2>2, Zenon DEF PtrSet
  <2>5. o \notin Freed /\ ptr'[FREE] = ptr[FREE]
    BY <1>p, <1>d, <2>1, <2>2, Zenon DEF PtrSet
  <2> QED
    BY <1>t, <2>1, <2>3, <2>4, <2>5, FrameOne, Zenon DEF RecordsStay
<1>10. ASSUME AppendIdx(p) PROVE Frame(p)
  <2>1. /\ Records' = Records \cup {o} /\ o \notin Records /\ UNCHANGED dat
        /\ \A u \in Records : idx'[u] = idx[u]
        /\ \A x \in Places \cup Records : ptr'[x] = ptr[x]
        /\ Freed' = Freed /\ \A e \in Chains : LiveOn(e)' = LiveOn(e)
    BY <1>10, <1>a, AppendIdxEffect, ZenonT(30) DEF o
  <2>2. \A u \in Records : u # o => RecordStays(u)
    BY <2>1, Zenon DEF RecordStays
  <2>3. \A e \in Chains : o \notin LiveOn(e) /\ ptr'[e] = ptr[e]
    BY <1>p, <1>d, <2>1, Zenon
  <2>4. o \notin Freed /\ ptr'[FREE] = ptr[FREE]
    BY <1>p, <1>d, <2>1, Zenon
  <2> QED
    BY <1>t, <2>1, <2>2, <2>3, <2>4, FrameOne, Zenon
<1>11. ASSUME Link(p) PROVE Frame(p)
  <2>1. /\ Records' = Records /\ UNCHANGED <<idx, dat>> /\ PtrSet(c, o) /\ Freed' = Freed /\ db[p].pc = "link"
        /\ \A e \in Chains : LiveOn(e)' = LiveOn(e) \cup (IF e = c THEN {o} ELSE {})
    BY <1>11, <1>a, LinkEffect, ZenonT(30) DEF Ends, o, c
  <2>2. c \in Chains
    BY <1>a, <2>1, HandleFacts, Zenon DEF c
  <2>3. \A u \in Records : u # 0 => RecordStays(u)
    BY <1>p, <2>1, <2>2, Zenon DEF PtrSet, RecordStays
  <2>4. 0 \notin Records
    BY FileFacts, Zenon
  <2>5. \A e \in Chains : e # c => ptr'[e] = ptr[e] /\ LiveOn(e)' = LiveOn(e)
    BY <1>p, <2>1, Zenon DEF PtrSet
  <2>6. ptr'[FREE] = ptr[FREE]
    BY <1>p, <2>1, <2>2, Zenon DEF PtrSet
  <2> QED
    BY <1>t, <1>d, <2>1, <2>3, <2>4, <2>5, <2>6, FrameOne, ZenonT(30) DEF c
<1> QED
  BY <1>1, <1>2, <1>3, <1>4, <1>5, <1>6, <1>7, <1>8, <1>9, <1>10, <1>11, Zenon

-----------------------------------------------------------------------------
(* Lists.                                                                  *)

(* Only the ptrs on the list matter.                                       *)
LEMMA ListSame ==
  ASSUME NEW f, NEW g, NEW x, NEW S, IsList(f, x, S), \A o \in S \cup {x} : g[o] = f[o]
  PROVE  IsList(g, x, S)
BY ZenonT(30) DEF IsList, Leads, Closed

(* No record of a list leads to itself.                                    *)
LEMMA ListNoLoop ==
  ASSUME NEW f, NEW x, NEW S, IsList(f, x, S), x \notin S, NEW o \in S, f[o] = o, 0 \notin S
  PROVE  FALSE
<1> DEFINE T == S \ {o}
<1>1. T \in SUBSET S /\ T # S
  OBVIOUS
<1>2. Leads(f, x, T) /\ Closed(f, T)
  BY Zenon DEF IsList, Leads, Closed
<1> QED
  BY <1>1, <1>2, Zenon DEF IsList

(* A list without the record that q leads to.                              *)
LEMMA ListBypass ==
  ASSUME NEW f, NEW g, NEW x, NEW S, IsList(f, x, S), x \notin S, 0 \notin S,
         NEW q \in S \cup {x}, NEW o \in S, f[q] = o,
         \A u \in (S \cup {x}) \ {q, o} : g[u] = f[u], g[q] = f[o]
  PROVE  IsList(g, x, S \ {o})
<1>1. q # o /\ f[o] # o
  BY ListNoLoop, Zenon
<1>2. Leads(g, x, S \ {o}) /\ Closed(g, S \ {o})
  BY <1>1 DEF IsList, Leads, Closed
<1>3. \A a, b \in (S \ {o}) \cup {x} : g[a] = g[b] /\ g[a] # 0 => a = b
  BY <1>1 DEF IsList, Leads, Closed
<1>4. ASSUME NEW T \in SUBSET (S \ {o}), Leads(g, x, T), Closed(g, T)
      PROVE  T = S \ {o}
  <2>1. CASE q \in T \cup {x}
    <3>1. Leads(f, x, T \cup {o}) /\ Closed(f, T \cup {o})
      BY <1>1, <1>4, <2>1, Zenon DEF Leads, Closed
    <3>2. T \cup {o} = S
      BY <3>1, <1>4 DEF IsList
    <3> QED
      BY <3>2, <1>4, Zenon
  <2>2. CASE q \notin T \cup {x}
    <3>1. Leads(f, x, T) /\ Closed(f, T)
      BY <1>1, <1>4, <2>2, Zenon DEF Leads, Closed
    <3>2. T = S
      BY <3>1, <1>4, Zenon DEF IsList
    <3> QED
      BY <3>2, <1>4, Zenon
  <2> QED
    BY <2>1, <2>2, Zenon
<1> QED
  BY <1>2, <1>3, <1>4, Zenon DEF IsList

(* A list with a record put at its front.                                  *)
LEMMA ListPush ==
  ASSUME NEW f, NEW g, NEW x, NEW S, IsList(f, x, S), x \notin S, 0 \notin S,
         NEW o, o \notin S \cup {x}, o # 0,
         \A u \in S : g[u] = f[u], g[x] = o, g[o] = f[x]
  PROVE  IsList(g, x, S \cup {o})
<1>1. Leads(g, x, S \cup {o}) /\ Closed(g, S \cup {o})
  BY Zenon DEF IsList, Leads, Closed
<1>2. \A a, b \in S \cup {o} \cup {x} : g[a] = g[b] /\ g[a] # 0 => a = b
  BY DEF IsList, Leads, Closed
<1>3. ASSUME NEW T \in SUBSET (S \cup {o}), Leads(g, x, T), Closed(g, T)
      PROVE  T = S \cup {o}
  <2>1. o \in T
    BY <1>3, Zenon DEF Leads
  <2>2. Leads(f, x, T \ {o}) /\ Closed(f, T \ {o})
    BY <1>3, <2>1, Zenon DEF IsList, Leads, Closed
  <2>3. T \ {o} = S
    BY <2>2, <1>3, Zenon DEF IsList
  <2> QED
    BY <2>1, <2>3, ZenonT(30)
<1> QED
  BY <1>1, <1>2, <1>3, Zenon DEF IsList

(* What OnList finds.                                                      *)
LEMMA ListFound ==
  ASSUME NEW x, NEW S, IsList(ptr, x, S), S \subseteq Records
  PROVE  OnList(x) = S
<1>1. OnList(x) \subseteq S
  BY Zenon DEF OnList, IsList
<1>2. ASSUME NEW o \in S, NEW T \in SUBSET Records, Leads(ptr, x, T), Closed(ptr, T)
      PROVE  o \in T
  <2>1. Leads(ptr, x, T \cap S) /\ Closed(ptr, T \cap S)
    BY <1>2, Zenon DEF IsList, Leads, Closed
  <2>2. T \cap S = S
    BY <2>1, Zenon DEF IsList
  <2> QED
    BY <2>2, Zenon
<1> QED
  BY <1>1, <1>2, Zenon DEF OnList

(* A search that goes on from a record without the key.                    *)
LEMMA ListAhead ==
  ASSUME NEW f, NEW S, NEW T \in SUBSET S, NEW o \in S, Closed(f, T), f[o] = 0 \/ f[o] \in T
  PROVE  Closed(f, T \cup {o}) /\ T \cup {o} \in SUBSET S
BY Zenon DEF Closed, Leads

-----------------------------------------------------------------------------
(* What the processes know.                                                *)

(* The steps that write to a file.                                         *)
Writing(p) == \/ DeleteDat(p) \/ Overwrite(p) \/ ReuseDat(p) \/ AppendDat(p) \/ DeleteIdx(p) \/ DeleteFree(p)
              \/ DeleteChain(p) \/ TakeFree(p) \/ ReuseIdx(p) \/ AppendIdx(p) \/ Link(p)

(* A step that writes to a file is a step of a call that holds the write   *)
(* lock of its chain.                                                      *)
LEMMA WritingLocked ==
  ASSUME HandleTypes, NEW p \in Procs, OpsAt(p), Writing(p)
  PROVE  db[p].pc # "idle" /\ db[p].op # "fetch"
<1>1. db[p].pc \in DeleteAt \cup {"deleted"} \cup ReuseAt \cup AppendAt => db[p].op # "fetch"
  BY Zenon DEF OpsAt
<1>2. CASE Overwrite(p)
  BY <1>2, Zenon DEF Overwrite, At
<1>3. CASE DeleteDat(p) \/ DeleteIdx(p) \/ DeleteFree(p) \/ DeleteChain(p)
  BY <1>1, <1>3, Zenon DEF DeleteDat, DeleteIdx, DeleteFree, DeleteChain, At, DeleteAt
<1>4. CASE TakeFree(p) \/ ReuseDat(p) \/ ReuseIdx(p)
  BY <1>1, <1>4, Zenon DEF TakeFree, ReuseDat, ReuseIdx, At, ReuseAt
<1>5. CASE AppendDat(p) \/ AppendIdx(p) \/ Link(p)
  BY <1>1, <1>5, Zenon DEF AppendDat, AppendIdx, Link, At, AppendAt
<1> QED
  BY <1>2, <1>3, <1>4, <1>5, Zenon DEF Writing

(* What the other processes have read stays true when p writes: they are   *)
(* on other chains, and not in the free list while p is.                   *)
LEMMA OthersKnow ==
  ASSUME HandleTypes, FileTypes, LocksHeld, Exclusive, RecordsOK, ListsOK,
         \A q \in Procs : OpsAt(q) /\ HandleOK(q),
         NEW p \in Procs, Others(p), Writing(p)
  PROVE  \A q \in Procs \ {p} : HandleOK(q)'
<1> SUFFICES ASSUME NEW q \in Procs, q # p PROVE HandleOK(q)'
  OBVIOUS
<1>1. Frame(p)
  BY Frames, Zenon DEF Writing
<1>2. db'[q] = db[q]
  BY Zenon DEF Others
<1>3. CASE db[q].pc = "idle"
  BY <1>2, <1>3, Zenon DEF HandleOK, At, ReuseAt, AppendAt
<1>4. CASE db[q].pc # "idle"
  <2>1. db[p].pc # "idle" /\ db[p].op # "fetch"
    BY WritingLocked, Zenon
  <2>2. Chain(q) # Chain(p) /\ ~(db[p].pc \in FreeAt /\ db[q].pc \in FreeAt)
    BY <1>4, <2>1, Apart, Zenon
  <2>c. PICK c \in Chains : c = Chain(q)
    BY <1>4, HandleFacts, Zenon
  <2>3. HandleOK(q)
    OBVIOUS
  <2>4. /\ Records \subseteq Records' /\ ChainStays(c) /\ (db[q].pc \in FreeAt => FreeStays)
        /\ db[q].pc \in TakenAt => RecordStays(db[q].idxoff)
    BY <1>1, <2>2, <2>c, Zenon DEF Frame, TakenStays
  <2> QED
    BY <1>2, <1>4, <2>c, <2>3, <2>4, KnowsStill, Zenon
<1> QED
  BY <1>3, <1>4, Zenon

(* What a process has read stays true when no file changes.                *)
LEMMA AllKnow ==
  ASSUME HandleTypes, FileTypes, NEW q \in Procs, HandleOK(q), db'[q] = db[q],
         RecordsStay, UNCHANGED <<ptr, idx, dat>>
  PROVE  HandleOK(q)'
<1>1. CASE db[q].pc = "idle"
  BY <1>1, Zenon DEF HandleOK, At, ReuseAt, AppendAt
<1>2. CASE db[q].pc # "idle"
  <2>1. PICK c \in Chains : c = Chain(q)
    BY <1>2, HandleFacts, Zenon
  <2>2. ChainStays(c)
    BY <2>1, Zenon DEF ChainStays, RecordsStay
  <2>4. FreeStays
    BY Zenon DEF FreeStays, RecordsStay
  <2>5. RecordStays(db[q].idxoff)
    BY Zenon DEF RecordStays
  <2>3. Records \subseteq Records'
    BY Zenon DEF RecordsStay
  <2> QED
    BY <1>2, <2>1, <2>2, <2>3, <2>4, <2>5, KnowsStill, Zenon
<1> QED
  BY <1>1, <1>2, Zenon

(* The lists are whole while nobody unlinks a record.                      *)
LEMMA WholeChain ==
  ASSUME HandleTypes, LocksHeld, Exclusive, ListsOK, NEW p \in Procs,
         \A q \in Procs : OpsAt(q), db[p].pc # "idle", ~Unlinking(p), Chain(p) \in Chains
  PROVE  IsList(ptr, Chain(p), LiveOn(Chain(p)))
<1>1. ASSUME NEW q \in Procs, Unlinking(q) PROVE Chain(q) # Chain(p)
  <2>1. q # p /\ db[q].op # "fetch" /\ db[q].pc # "idle"
    BY <1>1, Zenon DEF OpsAt, Unlinking, DeleteAt
  <2> QED
    BY <2>1, Apart, Zenon
<1> QED
  BY <1>1, Zenon DEF ListsOK

(* The free list is whole for the process that holds its lock, but between *)
(* the two writes of _db_dodelete that put a record on it.                 *)
LEMMA WholeFree ==
  ASSUME HandleTypes, LocksHeld, Exclusive, ListsOK, NEW p \in Procs,
         db[p].pc \in FreeAt, db[p].pc # "del_free"
  PROVE  IsList(ptr, FREE, Freed)
<1>1. ASSUME NEW q \in Procs, db[q].pc = "del_free" PROVE FALSE
  BY <1>1, Apart, Zenon DEF FreeAt, DeleteAt
<1> QED
  BY <1>1, Zenon DEF ListsOK, At

(* After the lock of the chain was taken the search stands before the      *)
(* whole chain.                                                            *)
LEMMA CallKnows ==
  ASSUME HandleTypes, FileTypes, LocksHeld, Exclusive, ListsOK,
         \A q \in Procs : OpsAt(q) /\ HandleOK(q), NEW p \in Procs, Call(p)
  PROVE  HandleOK(p)'
<1>0. PICK c \in Chains : c = Chain(p)'
  BY CallMoves, Zenon
<1>1. /\ db'[p].pc = "find" /\ db'[p].ptroff = c /\ db'[p].idxoff = ptr[c] /\ c \in Chains
      /\ Lock(p, db'[p].key, db'[p].op) /\ UNCHANGED <<ptr, idx, dat>> /\ c = Hash[db'[p].key]
  BY <1>0, CallMoves, Zenon DEF Chain
<1>2. RecordsStay
  BY QuietEffect, Zenon DEF Quiet
<1>3. writer[c] = {}
  BY <1>1, Zenon DEF Lock, ReadLock, WriteLock
<1>4. ASSUME NEW q \in Procs, Unlinking(q) PROVE Chain(q) # c
  <2>1. db[q].op # "fetch" /\ db[q].pc # "idle"
    BY <1>4, Zenon DEF OpsAt, Unlinking, DeleteAt
  <2>2. c \in Locks
    BY <1>1, Zenon DEF Locks
  <2> QED
    BY <1>3, <2>1, <2>2, LockFacts, Zenon DEF Writes, At
<1>5. IsList(ptr, c, LiveOn(c))
  BY <1>1, <1>4, Zenon DEF ListsOK
<1>6. OnChain(p)'
  BY <1>0, <1>1, Zenon DEF OnChain
<1>7. LiveOn(c)' = LiveOn(c)
  BY <1>1, <1>2, Zenon DEF RecordsStay
<1>8. ASSUME NEW T \in SUBSET LiveOn(c), Closed(ptr, T), db'[p].idxoff = 0 \/ db'[p].idxoff \in T
      PROVE  T = LiveOn(c)
  BY <1>1, <1>5, <1>8, Zenon DEF IsList, Leads
<1>9. Ahead(p)'
  BY <1>0, <1>1, <1>7, <1>8, Zenon DEF Ahead
<1> QED
  BY <1>1, <1>6, <1>9, Zenon DEF HandleOK, At, ReuseAt, AppendAt

(* A step of the search leaves only records without the key behind.        *)
LEMMA FindKnows ==
  ASSUME HandleTypes, FileTypes, LocksHeld, Exclusive, ListsOK,
         \A q \in Procs : OpsAt(q) /\ HandleOK(q), NEW p \in Procs, Find(p)
  PROVE  HandleOK(p)'
<1> DEFINE o == db[p].idxoff
<1>1. /\ KeepsCall(p) /\ UNCHANGED <<ptr, idx, dat>> /\ db[p].pc = "find" /\ o \in Records
      /\ \/ /\ db'[p].pc = "found" /\ idx[o].key = db[p].key
            /\ db'[p].ptroff = db[p].ptroff /\ db'[p].idxoff = o
            /\ db'[p].ptrval = ptr[o] /\ db'[p].datoff = idx[o].datoff
         \/ /\ db'[p].pc = "find" /\ idx[o].key # db[p].key
            /\ db'[p].ptroff = o /\ db'[p].idxoff = ptr[o]
  BY FindMoves, Zenon
<1>2. RecordsStay
  BY QuietEffect, Zenon DEF Quiet
<1>3. PICK c \in Chains : c = Chain(p) /\ Chain(p)' = c
  BY <1>1, HandleFacts, Zenon DEF KeepsCall, Chain
<1>4. OnChain(p) /\ Ahead(p)
  BY <1>1, Zenon DEF HandleOK, At
<1>5. IsList(ptr, c, LiveOn(c))
  BY <1>1, <1>3, WholeChain, Zenon DEF Unlinking
<1>6. 0 \notin Records
  BY FileFacts, Zenon
<1>7. o \in LiveOn(c)
  BY <1>1, <1>3, <1>4, <1>5, <1>6, Zenon DEF OnChain, IsList, Leads, Closed
<1>8. /\ Records' = Records /\ LiveOn(c)' = LiveOn(c) /\ Live' = Live
  BY <1>2, <1>3, Zenon DEF RecordsStay
<1>9. o \in Live
  BY <1>7, Zenon DEF LiveOn
<1> HIDE DEF o
<1>10. CASE db'[p].pc = "found"
  <2>1. OnChain(p)'
    BY <1>1, <1>3, <1>4, <1>8, <1>10, Zenon DEF OnChain, o
  <2>2. Read(p)'
    BY <1>1, <1>8, <1>10, Zenon DEF Read
  <2> QED
    BY <1>1, <1>8, <1>9, <1>10, <2>1, <2>2, ZenonT(30) DEF HandleOK, At, ReuseAt, AppendAt, KeepsCall
<1>11. CASE db'[p].pc = "find"
  <2>1. OnChain(p)'
    BY <1>1, <1>3, <1>7, <1>8, <1>11, Zenon DEF OnChain
  <2>2. ASSUME NEW u \in LiveOn(c), NEW T \in SUBSET LiveOn(c), idx[u].key = db[p].key,
               Closed(ptr, T), ptr[o] = 0 \/ ptr[o] \in T
        PROVE  u \in T
    <3>1. Closed(ptr, T \cup {o}) /\ T \cup {o} \in SUBSET LiveOn(c)
      BY <1>7, <2>2, ListAhead, Zenon
    <3>2. u \in T \cup {o}
      BY <1>3, <1>4, <2>2, <3>1, Zenon DEF Ahead, o
    <3> QED
      BY <1>1, <1>11, <2>2, <3>2, Zenon
  <2>3. db'[p].idxoff = ptr[o] /\ db'[p].key = db[p].key
    BY <1>1, <1>11, Zenon DEF KeepsCall
  <2>4. Ahead(p)'
    BY <1>1, <1>3, <1>8, <2>2, <2>3, Zenon DEF Ahead
  <2> QED
    BY <1>11, <2>1, <2>4, Zenon DEF HandleOK, At, ReuseAt, AppendAt
<1> QED
  BY <1>1, <1>10, <1>11, Zenon

(* A handle that has returned, or that unlinks, knows nothing.             *)
LEMMA KnowsNothing ==
  ASSUME NEW p \in Procs, db'[p].pc \in {"idle", "del_free", "del_chain", "deleted"}
  PROVE  HandleOK(p)'
BY Zenon DEF HandleOK, At, ReuseAt, AppendAt

(* From here on only the first ptr of the chain matters.                   *)
LEMMA KnowsChain ==
  ASSUME NEW p \in Procs, db'[p].pc \in {"end_dat", "append_dat", "end_idx", "append_idx"},
         KeepsCall(p), db'[p].saveptr = ptr'[Chain(p)]
  PROVE  HandleOK(p)'
<1>1. Chain(p)' = Chain(p)
  BY Zenon DEF KeepsCall, Chain
<1> QED
  BY <1>1, Zenon DEF HandleOK, At

(* The record about to be deleted is still on the chain, and ptroff still  *)
(* leads to it.                                                            *)
LEMMA DeleteKnows ==
  ASSUME HandleTypes, FileTypes, RecordsOK, ListsOK, NEW p \in Procs, HandleOK(p), DeleteStart(p) \/ DeleteDat(p)
  PROVE  HandleOK(p)'
<1> DEFINE o == db[p].idxoff
<1>1. db[p].pc \in {"found", "del_dat"} /\ db'[p].pc \in {"del_dat", "del_idx"} /\ KeepsCall(p) /\ KeepsRest(p)
  BY Advance, Zenon DEF Advances
<1>2. RecordsStay /\ UNCHANGED <<ptr, idx>>
  <2>1. CASE DeleteStart(p)
    BY <2>1, QuietEffect, Zenon DEF Quiet
  <2>2. CASE DeleteDat(p)
    BY <2>2, DeleteDatEffect, Zenon
  <2> QED
    BY <2>1, <2>2, Zenon
<1>3. PICK c \in Chains : c = Chain(p) /\ Chain(p)' = c
  BY <1>1, HandleFacts, Zenon DEF KeepsCall, Chain
<1>4. Records' = Records /\ LiveOn(c)' = LiveOn(c) /\ Live' = Live
  BY <1>2, <1>3, Zenon DEF RecordsStay
<1>5. OnChain(p) /\ Read(p) /\ o \in Live /\ idx[o].key = db[p].key /\ db[p].ptrval = ptr[o]
  BY <1>1, Zenon DEF HandleOK
<1>6. OnChain(p)'
  BY <1>1, <1>2, <1>3, <1>4, <1>5, Zenon DEF OnChain, KeepsRest
<1>7. Read(p)'
  BY <1>1, <1>2, <1>4, <1>5, Zenon DEF Read, KeepsRest
<1>8. db'[p].pc = "del_idx" => dat'[db[p].datoff].val = Blank
  <2>1. CASE DeleteStart(p)
    BY <2>1, Advance, Zenon DEF Advances
  <2>2. CASE DeleteDat(p)
    BY <2>2, DeleteDatEffect, Zenon DEF DatSet
  <2> QED
    BY <2>1, <2>2, Zenon
<1>9. /\ db'[p].idxoff = o /\ db'[p].datoff = db[p].datoff /\ db'[p].ptrval = db[p].ptrval /\ db'[p].key = db[p].key
  BY <1>1, Zenon DEF KeepsRest, KeepsCall
<1>10. db'[p].idxoff \in Live' /\ idx'[db'[p].idxoff].key = db'[p].key /\ db'[p].ptrval = ptr'[db'[p].idxoff]
  BY <1>2, <1>4, <1>5, <1>9, Zenon
<1>11. db'[p].pc = "del_idx" => dat'[db'[p].datoff].val = Blank
  BY <1>8, <1>9, Zenon
<1>12. CASE db'[p].pc = "del_dat"
  BY <1>6, <1>7, <1>10, <1>12, Zenon DEF HandleOK, At, ReuseAt, AppendAt
<1>13. CASE db'[p].pc = "del_idx"
  BY <1>6, <1>7, <1>10, <1>11, <1>13, Zenon DEF HandleOK, At, ReuseAt, AppendAt
<1> QED
  BY <1>1, <1>12, <1>13, Zenon

(* The walk along the free list stands on free records, and the one it     *)
(* stops at fits.                                                          *)
LEMMA FreeKnows ==
  ASSUME HandleTypes, FileTypes, LocksHeld, Exclusive, ListsOK, RecordsOK, NEW p \in Procs, HandleOK(p), FindFree(p) \/ WalkFree(p)
  PROVE  HandleOK(p)'
<1> DEFINE o == db[p].idxoff
<1>1. RecordsStay /\ UNCHANGED <<ptr, idx, dat>>
  BY QuietEffect, Zenon DEF Quiet
<1>2. KeepsCall(p) /\ Chain(p)' = Chain(p)
  BY FindFreeMoves, WalkFreeMoves, Zenon DEF KeepsCall, Chain
<1>3. CASE FindFree(p)
  <2>1. db'[p].pc = "free" /\ db'[p].ptroff = FREE /\ db'[p].idxoff = ptr[FREE] /\ db'[p].saveptr = ptr[Chain(p)]
    BY <1>3, FindFreeMoves, Zenon
  <2> QED
    BY <1>1, <1>2, <2>1, Zenon DEF HandleOK, At
<1>4. ASSUME WalkFree(p) PROVE HandleOK(p)'
  <2>1. /\ db[p].pc = "free" /\ db'[p].saveptr = db[p].saveptr
        /\ \/ o = 0 /\ db'[p].pc = "end_dat"
           \/ /\ o \in Records /\ db'[p].pc = "take" /\ Fits(o, p)
              /\ db'[p].ptroff = db[p].ptroff /\ db'[p].idxoff = o
              /\ db'[p].ptrval = ptr[o] /\ db'[p].datoff = idx[o].datoff
           \/ /\ o \in Records /\ db'[p].pc = "free"
              /\ db'[p].ptroff = o /\ db'[p].idxoff = ptr[o]
    BY <1>4, WalkFreeMoves, Zenon
  <2>2. /\ db[p].ptroff \in Freed \cup {FREE} /\ o = ptr[db[p].ptroff] /\ db[p].saveptr = ptr[Chain(p)]
    BY <2>1, Zenon DEF HandleOK, ReuseAt
  <2>3. IsList(ptr, FREE, Freed)
    BY <2>1, WholeFree, Zenon DEF FreeAt
  <2>4. 0 \notin Records
    BY FileFacts, Zenon
  <2>5. o \in Records => o \in Freed /\ idx[o].key = Blank
    BY <2>2, <2>3, <2>4, ZenonT(30) DEF IsList, Leads, Closed, Freed
  <2>6. Records' = Records /\ Freed' = Freed
    BY <1>1, Zenon DEF RecordsStay
  <2>7. db'[p].saveptr = ptr'[Chain(p)]
    BY <1>1, <2>1, <2>2, Zenon
  <2> HIDE DEF o
  <2>8. CASE db'[p].pc = "end_dat"
    BY <1>2, <2>7, <2>8, KnowsChain, Zenon
  <2>9. CASE db'[p].pc = "free"
    BY <1>1, <1>2, <2>1, <2>5, <2>6, <2>7, <2>9, ZenonT(30) DEF HandleOK, At
  <2>10. CASE db'[p].pc = "take"
    <3>1. /\ o \in Records /\ Fits(o, p) /\ db'[p].ptroff = db[p].ptroff /\ db'[p].idxoff = o
          /\ db'[p].ptrval = ptr[o] /\ db'[p].datoff = idx[o].datoff
      BY <2>1, <2>10, Zenon
    <3>2. Read(p)'
      BY <1>1, <2>6, <3>1, Zenon DEF Read
    <3>3. Fits(db[p].idxoff, p)'
      BY <1>1, <1>2, <3>1, Zenon DEF Fits, KeepsCall, o
    <3>4. /\ db'[p].ptroff \in Freed' \cup {FREE} /\ db'[p].idxoff = ptr'[db'[p].ptroff]
          /\ db'[p].idxoff \in Freed' /\ idx'[db'[p].idxoff].key = Blank /\ db'[p].ptrval = ptr'[db'[p].idxoff]
      BY <1>1, <2>2, <2>5, <2>6, <3>1, Zenon
    <3>5. db'[p].saveptr = ptr'[Chain(p)']
      BY <1>2, <2>7, Zenon
    <3> QED
      BY <2>10, <3>2, <3>3, <3>4, <3>5, Zenon DEF HandleOK, At
  <2> QED
    BY <2>1, <2>8, <2>9, <2>10, Zenon
<1> QED
  BY <1>3, <1>4, Zenon

(* The record taken off the free list keeps its place, its room and what   *)
(* was written to it.                                                      *)
LEMMA ReuseKnows ==
  ASSUME HandleTypes, FileTypes, RecordsOK, NEW p \in Procs, HandleOK(p), TakeFree(p) \/ ReuseDat(p) \/ ReuseIdx(p)
  PROVE  HandleOK(p)'
<1> DEFINE o == db[p].idxoff
<1>1. /\ KeepsCall(p) /\ KeepsRest(p) /\ db[p].pc \in {"take", "reuse_dat", "reuse_idx"}
      /\ db'[p].pc \in {"reuse_dat", "reuse_idx", "link"}
  BY Advance, Zenon DEF Advances
<1>2. Chain(p)' = Chain(p) /\ Chain(p) \in Chains
  BY <1>1, HandleFacts, Zenon DEF KeepsCall, Chain
<1>3. /\ db'[p].key = db[p].key /\ db'[p].val = db[p].val
      /\ db'[p].idxoff = o /\ db'[p].datoff = db[p].datoff /\ db'[p].saveptr = db[p].saveptr
  BY <1>1, Zenon DEF KeepsCall, KeepsRest
<1>4. Read(p) /\ idx[o].key = Blank /\ Fits(o, p) /\ db[p].saveptr = ptr[Chain(p)] /\ o \in Records /\ db[p].datoff = idx[o].datoff
  BY <1>1, Zenon DEF HandleOK, ReuseAt, Read
<1>5. Chain(p) \in Places \cup Records /\ Chain(p) # FREE /\ Chain(p) \notin Records
  BY <1>2, FileFacts, PlacesAssumption, Zenon DEF Places, Locks
<1> HIDE DEF o
<1>6. CASE TakeFree(p)
  <2>1. /\ Records' = Records /\ UNCHANGED <<idx, dat>> /\ PtrSet(db[p].ptroff, db[p].ptrval)
        /\ db[p].pc = "take" /\ db'[p].pc = "reuse_dat"
    BY <1>6, TakeFreeEffect, Zenon DEF Advances
  <2>2. db[p].ptroff \in Freed \cup {FREE}
    BY <2>1, Zenon DEF HandleOK
  <2>3. Chain(p) # db[p].ptroff
    BY <1>5, <2>2, Zenon DEF Freed
  <2>4. ptr'[Chain(p)] = ptr[Chain(p)]
    BY <1>5, <2>1, <2>3, Zenon DEF PtrSet
  <2>5. Read(p)' /\ Fits(db[p].idxoff, p)'
    BY <1>3, <1>4, <2>1, Zenon DEF Read, Fits, o
  <2>6. idx'[db'[p].idxoff].key = Blank /\ db'[p].saveptr = ptr'[Chain(p)']
    BY <1>2, <1>3, <1>4, <2>1, <2>4, Zenon
  <2> QED
    BY <2>1, <2>5, <2>6, Zenon DEF HandleOK, At
<1>7. CASE ReuseDat(p)
  <2>1. /\ RecordsStay /\ UNCHANGED <<ptr, idx>> /\ DatSet(db[p].datoff, db[p].val)
        /\ db[p].pc = "reuse_dat" /\ db'[p].pc = "reuse_idx"
    BY <1>7, ReuseDatEffect, Zenon DEF Advances
  <2>2. Read(p)' /\ Fits(db[p].idxoff, p)'
    BY <1>3, <1>4, <2>1, Zenon DEF Read, Fits, RecordsStay, o
  <2> QED
    BY <1>2, <1>3, <1>4, <2>1, <2>2, ZenonT(30) DEF HandleOK, At, DatSet, o
<1>8. CASE ReuseIdx(p)
  <2>1. /\ RecordsStay /\ UNCHANGED dat /\ PtrSet(o, db[p].saveptr) /\ KeySet(o, db[p].key)
        /\ db[p].pc = "reuse_idx" /\ db'[p].pc = "link"
    BY <1>8, ReuseIdxEffect, Zenon DEF Advances, o
  <2>2. ptr'[Chain(p)] = ptr[Chain(p)] /\ ptr'[o] = db[p].saveptr
    BY <1>4, <1>5, <2>1, Zenon DEF PtrSet
  <2>3. Read(p)'
    BY <1>3, <1>4, <2>1, Zenon DEF Read, RecordsStay, KeySet
  <2>4. dat[db[p].datoff].val = db[p].val
    BY <2>1, Zenon DEF HandleOK
  <2>5. idx'[o].key = db[p].key
    BY <2>1, Zenon DEF KeySet
  <2> QED
    BY <1>2, <1>3, <1>4, <2>1, <2>2, <2>3, <2>4, <2>5, ZenonT(30) DEF HandleOK, At, o
<1> QED
  BY <1>6, <1>7, <1>8, Zenon

(* A record at the end of the file is what was written there, and its ptr  *)
(* is the first ptr of the chain.                                          *)
LEMMA AppendKnows ==
  ASSUME HandleTypes, FileTypes, RecordsOK, NEW p \in Procs, HandleOK(p), EndDat(p) \/ AppendDat(p) \/ EndIdx(p) \/ AppendIdx(p)
  PROVE  HandleOK(p)'
<1>1. CASE EndDat(p)
  <2>1. UNCHANGED ptr
    BY <1>1, QuietEffect, Zenon DEF Quiet
  <2>2. /\ db[p].pc \in {"end_dat", "deleted"} /\ db'[p].pc = "append_dat" /\ KeepsCall(p)
        /\ db[p].pc = "end_dat" => db'[p].saveptr = db[p].saveptr
        /\ db[p].pc = "deleted" => db'[p].saveptr = ptr[Chain(p)]
    BY <1>1, EndDatMoves, Zenon
  <2>3. db[p].pc = "end_dat" => db[p].saveptr = ptr[Chain(p)]
    BY Zenon DEF HandleOK, ReuseAt
  <2> QED
    BY <2>1, <2>2, <2>3, KnowsChain, Zenon
<1>2. CASE AppendDat(p) \/ EndIdx(p)
  <2>1. UNCHANGED ptr
    BY <1>2, QuietEffect, AppendDatEffect, Zenon DEF Quiet
  <2>2. /\ db[p].pc \in {"append_dat", "end_idx"} /\ db'[p].pc \in {"end_idx", "append_idx"} /\ KeepsCall(p)
        /\ db'[p].saveptr = db[p].saveptr
    BY <1>2, AppendDatEffect, EndIdxMoves, ZenonT(30) DEF Advances, KeepsRest
  <2>3. db[p].saveptr = ptr[Chain(p)]
    BY <2>2, Zenon DEF HandleOK, AppendAt
  <2> QED
    BY <2>1, <2>2, <2>3, KnowsChain, Zenon
<1>3. CASE AppendIdx(p)
  <2> DEFINE o == db[p].idxoff
  <2>1. /\ Records' = Records \cup {o} /\ idx'[o] = IdxRecord(p) /\ ptr'[o] = db[p].saveptr
        /\ \A x \in Places \cup Records : ptr'[x] = ptr[x]
        /\ db[p].pc = "append_idx" /\ db'[p].pc = "link" /\ KeepsCall(p) /\ KeepsRest(p) /\ UNCHANGED dat
    BY <1>3, AppendIdxEffect, Zenon DEF Advances
  <2>2. Chain(p)' = Chain(p) /\ Chain(p) \in Places
    BY <2>1, HandleFacts, Zenon DEF KeepsCall, Chain, Places
  <2>3. /\ db'[p].key = db[p].key /\ db'[p].val = db[p].val
        /\ db'[p].idxoff = o /\ db'[p].datoff = db[p].datoff /\ db'[p].saveptr = db[p].saveptr
    BY <2>1, Zenon DEF KeepsCall, KeepsRest
  <2>4. dat[db[p].datoff] = [val |-> db[p].val, len |-> DataLen[db[p].val]]
    BY <2>1, Zenon DEF RecordsOK, NewData
  <2>5. db[p].saveptr = ptr'[Chain(p)]
    BY <2>1, <2>2, Zenon DEF HandleOK, AppendAt
  <2>6. idx'[o].key = db[p].key /\ idx'[o].datoff = db[p].datoff
    BY <2>1, SMTT(20) DEF IdxRecord
  <2>7. Read(p)'
    BY <2>1, <2>3, <2>6, Zenon DEF Read
  <2>8. dat'[db[p].datoff].val = db[p].val
    BY <2>1, <2>4
  <2> HIDE DEF o
  <2> QED
    BY <2>1, <2>2, <2>3, <2>5, <2>6, <2>7, <2>8, ZenonT(30) DEF HandleOK, At, o
<1> QED
  BY <1>1, <1>2, <1>3, Zenon

(* What every process knows after a step of one of them.                   *)
LEMMA StepKnows ==
  ASSUME HandleTypes, FileTypes, LocksHeld, Exclusive, RecordsOK, ListsOK,
         \A q \in Procs : OpsAt(q) /\ HandleOK(q), NEW p \in Procs,
         FetchStep(p) \/ DeleteStep(p) \/ StoreStep(p)
  PROVE  \A q \in Procs : HandleOK(q)'
<1>1. Others(p) /\ HandleOK(p) /\ OpsAt(p)
  BY ProcLocks, Zenon
<1>2. ASSUME NEW q \in Procs, q # p PROVE HandleOK(q)'
  <2>1. CASE Writing(p)
    BY <1>1, <1>2, <2>1, OthersKnow, Zenon
  <2>2. CASE Quiet(p)
    <3>1. db'[q] = db[q] /\ HandleOK(q)
      BY <1>1, <1>2, Zenon DEF Others
    <3> QED
      BY <1>1, <2>2, <3>1, QuietEffect, AllKnow, Zenon
  <2> QED
    BY <2>1, <2>2, Zenon DEF FetchStep, DeleteStep, StoreStep, Writing, Quiet
<1>3. HandleOK(p)'
  <2>1. CASE Call(p) \/ Find(p)
    BY <2>1, CallKnows, FindKnows, Zenon
  <2>2. CASE DeleteStart(p) \/ DeleteDat(p)
    BY <1>1, <2>2, DeleteKnows, Zenon
  <2>3. CASE FindFree(p) \/ WalkFree(p)
    BY <1>1, <2>3, FreeKnows, Zenon
  <2>4. CASE TakeFree(p) \/ ReuseDat(p) \/ ReuseIdx(p)
    BY <1>1, <2>4, ReuseKnows, Zenon
  <2>5. CASE EndDat(p) \/ AppendDat(p) \/ EndIdx(p) \/ AppendIdx(p)
    BY <1>1, <2>5, AppendKnows, Zenon
  <2>6. CASE NotFound(p) \/ Fetched(p) \/ InsertFails(p) \/ Deleted(p) \/ Overwrite(p) \/ Link(p)
    <3>1. db'[p].pc = "idle"
      BY <2>6, End, Zenon DEF Ends
    <3> QED
      BY <3>1, KnowsNothing, Zenon
  <2>7. CASE DeleteIdx(p)
    BY <2>7, DeleteIdxMoves, KnowsNothing, ZenonT(30)
  <2>8. CASE DeleteFree(p) \/ DeleteChain(p)
    <3>1. db'[p].pc \in {"del_chain", "deleted"}
      BY <2>8, Advance, Zenon DEF Advances
    <3> QED
      BY <3>1, KnowsNothing, Zenon
  <2> QED
    BY <2>1, <2>2, <2>3, <2>4, <2>5, <2>6, <2>7, <2>8, Zenon DEF FetchStep, DeleteStep, StoreStep
<1> QED
  BY <1>2, <1>3, Zenon
=============================================================================
