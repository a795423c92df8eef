--------------------------- MODULE HashDbTable ---------------------------
(***************************************************************************)
(* Proofs about HashDb: every step keeps the records good, and in          *)
(* agreement with the table; what the invariant says of the free list and  *)
(* the locks when nobody writes; and that every step is a step of KVStore  *)
(* or changes nothing there.                                               *)
(***************************************************************************)
EXTENDS HashDbSteps

-----------------------------------------------------------------------------
(* The records.                                                            *)

(* The parts of RecordsOK: a record leads to data of its length; no two    *)
(* share their data; no two live ones have the same key; free ones have    *)
(* blank data; a taken one is in the hands of one process; data that no    *)
(* record leads to yet; the end of a file stays the end while it is        *)
(* locked.                                                                 *)
GoodRecord(o) == /\ idx[o].datoff \in 1 .. Len(dat)
                 /\ idx[o].key # Blank => idx[o].keylen = KeyLen[idx[o].key]
                 /\ dat[idx[o].datoff].len = idx[o].datlen

OwnData == \A o, u \in Records : idx[o].datoff = idx[u].datoff => o = u

OneRecord == \A o, u \in Live : idx[o].key = idx[u].key => o = u

BlankData == \A o \in Freed : dat[idx[o].datoff].val = Blank

TakenOnce == \A p, q \in Procs : db[p].pc \in TakenAt /\ db[q].pc \in TakenAt /\ db[p].idxoff = db[q].idxoff => p = q

GoodData(p) == /\ db[p].datoff \in 1 .. Len(dat)
               /\ dat[db[p].datoff] = [val |-> db[p].val, len |-> DataLen[db[p].val]]
               /\ \A o \in Records : idx[o].datoff # db[p].datoff
               /\ \A q \in Procs : NewData(q) /\ db[q].datoff = db[p].datoff => q = p

AtEnd(p) == /\ db[p].pc = "append_dat" => db[p].datoff = Len(dat) + 1
            /\ db[p].pc = "append_idx" => db[p].idxoff = Len(idx) + 1

(* RecordsOK is the conjunction of its parts, now and after the step.      *)
LEMMA RecordParts ==
  /\ RecordsOK <=> /\ \A o \in Records : GoodRecord(o)
                   /\ OwnData /\ OneRecord /\ BlankData /\ TakenOnce
                   /\ \A p \in Procs : (NewData(p) => GoodData(p)) /\ AtEnd(p)
  /\ RecordsOK' <=> /\ \A o \in Records' : GoodRecord(o)'
                    /\ OwnData' /\ OneRecord' /\ BlankData' /\ TakenOnce'
                    /\ \A p \in Procs : (NewData(p)' => GoodData(p)') /\ AtEnd(p)'
BY Zenon DEF RecordsOK, GoodRecord, OwnData, OneRecord, BlankData, TakenOnce, GoodData, AtEnd, At

(* Nothing is written but chain ptrs.                                      *)
LEMMA RecordsQuiet ==
  ASSUME RecordsOK, RecordsStay, UNCHANGED <<idx, dat>>, NEW p, Others(p),
         p \in Procs => /\ db[p].pc \notin TakenAt /\ db'[p].pc \notin TakenAt
                        /\ NewData(p)' => NewData(p) /\ db'[p].datoff = db[p].datoff /\ db'[p].val = db[p].val
                        /\ AtEnd(p)'
  PROVE  RecordsOK'
<1>1. Records' = Records /\ Live' = Live /\ Freed' = Freed
  BY Zenon DEF RecordsStay
<1>2. /\ \A o \in Records : GoodRecord(o)
      /\ OwnData /\ OneRecord /\ BlankData /\ TakenOnce
      /\ \A q \in Procs : (NewData(q) => GoodData(q)) /\ AtEnd(q)
  BY RecordParts, Zenon
<1>3. \A q \in Procs : q # p => db'[q] = db[q]
  BY Zenon DEF Others
<1>4. (\A o \in Records' : GoodRecord(o)') /\ OwnData' /\ OneRecord' /\ BlankData'
  BY <1>1, <1>2, ZenonT(30) DEF GoodRecord, OwnData, OneRecord, BlankData
<1>5. TakenOnce'
  BY <1>2, <1>3, Zenon DEF TakenOnce
<1>6. \A q \in Procs : NewData(q)' => NewData(q) /\ db'[q].datoff = db[q].datoff /\ db'[q].val = db[q].val
  BY <1>3, Zenon DEF NewData
<1>7. \A q \in Procs : NewData(q)' => GoodData(q)'
  BY <1>1, <1>2, <1>6 DEF GoodData
<1>8. \A q \in Procs : AtEnd(q)'
  BY <1>2, <1>3, Zenon DEF AtEnd
<1> QED
  BY <1>4, <1>5, <1>7, <1>8, RecordParts, Zenon

(* The data of one record that is not free is written.                     *)
LEMMA RecordsDat ==
  ASSUME FileTypes, RecordsOK, RecordsStay, UNCHANGED idx, NEW p \in Procs, Others(p),
         NEW o \in Records, o \notin Freed, NEW v, DatSet(idx[o].datoff, v),
         ~NewData(p)', db'[p].pc \notin {"append_dat", "append_idx"},
         db'[p].pc \in TakenAt => db[p].pc \in TakenAt /\ db'[p].idxoff = db[p].idxoff
  PROVE  RecordsOK'
<1>1. Records' = Records /\ Live' = Live /\ Freed' = Freed /\ Freed \subseteq Records
  BY Zenon DEF RecordsStay, Freed
<1>2. /\ \A u \in Records : GoodRecord(u)
      /\ OwnData /\ OneRecord /\ BlankData /\ TakenOnce
      /\ \A q \in Procs : (NewData(q) => GoodData(q)) /\ AtEnd(q)
  BY RecordParts, Zenon
<1>3. \A q \in Procs : q # p => db'[q] = db[q]
  BY Zenon DEF Others
<1>d. /\ Len(dat') = Len(dat)
      /\ \A e \in 1 .. Len(dat) : dat'[e].len = dat[e].len
      /\ \A e \in 1 .. Len(dat) : e # idx[o].datoff => dat'[e] = dat[e]
  BY Zenon DEF DatSet
<1>4. \A u \in Records' : GoodRecord(u)'
  BY <1>1, <1>2, <1>d, Zenon DEF GoodRecord
<1>5. OwnData' /\ OneRecord'
  BY <1>1, <1>2, Zenon DEF OwnData, OneRecord
<1>6. BlankData'
  BY <1>1, <1>2, <1>d, Zenon DEF BlankData, OwnData, GoodRecord
<1>7. TakenOnce'
  BY <1>2, <1>3, Zenon DEF TakenOnce
<1>8. \A q \in Procs : NewData(q)' => q # p /\ NewData(q)
  BY <1>3, Zenon DEF NewData
<1>9. \A q \in Procs : NewData(q)' => GoodData(q)'
  BY <1>1, <1>2, <1>3, <1>8, <1>d DEF GoodData
<1>10. \A q \in Procs : AtEnd(q)'
  BY <1>2, <1>3, <1>d, Zenon DEF AtEnd
<1> QED
  BY <1>4, <1>5, <1>6, <1>7, <1>9, <1>10, RecordParts, Zenon

(* The data appended is at the end of the file, so no record leads to it   *)
(* yet.                                                                    *)
LEMMA RecordsAppendDat ==
  ASSUME HandleTypes, FileTypes, LocksHeld, Exclusive, RecordsOK, NEW p \in Procs, HandleOK(p), AppendDat(p)
  PROVE  RecordsOK'
<1>1. /\ RecordsStay /\ UNCHANGED idx /\ Len(dat') = Len(dat) + 1 /\ db[p].datoff = Len(dat) + 1
      /\ dat'[db[p].datoff] = [val |-> db[p].val, len |-> DataLen[db[p].val]]
      /\ \A e \in 1 .. Len(dat) : dat'[e] = dat[e]
      /\ db[p].pc = "append_dat" /\ db'[p].pc = "end_idx" /\ Others(p) /\ KeepsCall(p) /\ KeepsRest(p)
  BY AppendDatEffect, Zenon DEF Advances
<1>2. Records' = Records /\ Live' = Live /\ Freed' = Freed /\ Freed \subseteq Records /\ Len(dat) \in Nat
  BY <1>1, FileFacts, Zenon DEF RecordsStay, Freed
<1>3. /\ \A u \in Records : GoodRecord(u)
      /\ OwnData /\ OneRecord /\ BlankData /\ TakenOnce
      /\ \A q \in Procs : (NewData(q) => GoodData(q)) /\ AtEnd(q)
  BY RecordParts, Zenon
<1>4. \A q \in Procs : q # p => db'[q] = db[q]
  BY <1>1, Zenon DEF Others
<1>5. /\ \A u \in Records' : GoodRecord(u)' 
      /\ OwnData' /\ OneRecord' /\ BlankData'
  BY <1>1, <1>2, <1>3 DEF GoodRecord, OwnData, OneRecord, BlankData
<1>6. TakenOnce'
  BY <1>1, <1>3, <1>4 DEF TakenOnce, TakenAt
<1>7. db'[p].datoff = Len(dat) + 1 /\ db'[p].val = db[p].val
  BY <1>1, Zenon DEF KeepsRest, KeepsCall
<1>8. ASSUME NEW q \in Procs, NewData(q)' PROVE GoodData(q)'
  <2>1. \A r \in Procs : r # p /\ NewData(r)' => db'[r] = db[r] /\ db[r].datoff \in 1 .. Len(dat) /\ GoodData(r)
    BY <1>3, <1>4, Zenon DEF NewData, GoodData
  <2>2. CASE q = p
    <3>1. \A u \in Records' : idx'[u].datoff # db'[p].datoff
      BY <1>1, <1>2, <1>3, <1>7 DEF GoodRecord
    <3>2. \A r \in Procs : NewData(r)' /\ db'[r].datoff = db'[p].datoff => r = p
      BY <1>2, <1>7, <2>1
    <3> QED
      BY <1>1, <1>2, <1>7, <2>2, <3>1, <3>2, SMTT(20) DEF GoodData
  <2>3. CASE q # p
    <3>1. db'[q] = db[q] /\ db[q].datoff \in 1 .. Len(dat) /\ GoodData(q)
      BY <1>8, <2>1, <2>3, Zenon
    <3>2. \A r \in Procs : NewData(r)' /\ db'[r].datoff = db'[q].datoff => r = q
      <4>1. \A r \in Procs : r # p /\ NewData(r)' => NewData(r) /\ db'[r] = db[r]
        BY <1>4, Zenon DEF NewData
      <4> QED
        BY <1>2, <1>7, <3>1, <4>1, SMTT(20) DEF GoodData
    <3> QED
      BY <1>1, <1>2, <3>1, <3>2 DEF GoodData
  <2> QED
    BY <2>2, <2>3, Zenon
<1>9. ASSUME NEW q \in Procs PROVE AtEnd(q)'
  <2>1. q # p => db[q].pc # "append_dat"
    BY <1>1, Apart, Zenon
  <2> QED
    BY <1>1, <1>3, <1>4, <2>1, Zenon DEF AtEnd
<1> QED
  BY <1>5, <1>6, <1>8, <1>9, RecordParts, Zenon

(* Appended data is still its owner's when no record got it.               *)
LEMMA DataStays ==
  ASSUME NEW q \in Procs, GoodData(q), db'[q] = db[q], UNCHANGED dat, Records' = Records,
         \A u \in Records : idx'[u].datoff = idx[u].datoff,
         \A r \in Procs : NewData(r)' => NewData(r) /\ db'[r] = db[r]
  PROVE  GoodData(q)'
BY Zenon DEF GoodData

(* The records after a key was blanked: the data was blanked before.       *)
LEMMA RecordsDeleteIdx ==
  ASSUME HandleTypes, FileTypes, RecordsOK, NEW p \in Procs, HandleOK(p), DeleteIdx(p)
  PROVE  RecordsOK'
<1> DEFINE o == db[p].idxoff
<1>1. /\ Records' = Records /\ UNCHANGED dat /\ KeySet(o, Blank) /\ o \in LiveOn(Chain(p))
      /\ Live' = Live \ {o} /\ Freed' = Freed \cup {o}
  BY DeleteIdxEffect, Zenon
<1>2. db[p].pc = "del_idx" /\ db'[p].pc = "del_free" /\ Others(p)
  BY DeleteIdxMoves, Zenon
<1>3. /\ \A u \in Records : GoodRecord(u)
      /\ OwnData /\ OneRecord /\ BlankData /\ TakenOnce
      /\ \A q \in Procs : (NewData(q) => GoodData(q)) /\ AtEnd(q)
  BY RecordParts, Zenon
<1>4. \A q \in Procs : q # p => db'[q] = db[q]
  BY <1>2, Zenon DEF Others
<1>5. dat[idx[o].datoff].val = Blank /\ o \in Records
  BY <1>2, Zenon DEF HandleOK, At, Read
<1> HIDE DEF o
<1>6. /\ Len(idx') = Len(idx) /\ idx'[o].key = Blank
      /\ \A u \in Records : idx'[u].datoff = idx[u].datoff /\ idx'[u].datlen = idx[u].datlen
      /\ \A u \in Records : u # o => idx'[u] = idx[u]
  BY <1>1, Zenon DEF KeySet
<1>7. /\ \A u \in Records' : GoodRecord(u)'
  BY <1>1, <1>3, <1>6, ZenonT(30) DEF GoodRecord
<1>8. OwnData'
  BY <1>1, <1>3, <1>6 DEF OwnData
<1>9. OneRecord'
  BY <1>1, <1>3, <1>6 DEF OneRecord, Live
<1>10. BlankData'
  BY <1>1, <1>3, <1>5, <1>6, ZenonT(30) DEF BlankData, Freed
<1>11. TakenOnce'
  BY <1>2, <1>3, <1>4 DEF TakenOnce, TakenAt
<1>12. \A q \in Procs : NewData(q)' => NewData(q) /\ q # p /\ db'[q] = db[q]
  BY <1>2, <1>4, Zenon DEF NewData
<1>13. \A q \in Procs : NewData(q)' => GoodData(q)'
  BY <1>1, <1>3, <1>6, <1>12, DataStays, Zenon
<1>14. \A q \in Procs : AtEnd(q)'
  BY <1>1, <1>2, <1>3, <1>4, <1>6, Zenon DEF AtEnd
<1> QED
  BY <1>7, <1>8, <1>9, <1>10, <1>11, <1>13, <1>14, RecordParts, Zenon

(* The records after one was taken off the free list: the lock of the list *)
(* kept others from it.                                                    *)
LEMMA RecordsTakeFree ==
  ASSUME HandleTypes, FileTypes, RecordsOK, NEW p \in Procs, HandleOK(p), TakeFree(p)
  PROVE  RecordsOK'
<1> DEFINE o == db[p].idxoff
<1>1. /\ Records' = Records /\ UNCHANGED <<idx, dat>> /\ Live' = Live /\ Freed' = Freed \ {o}
      /\ db[p].pc = "take" /\ db'[p].pc = "reuse_dat" /\ Others(p) /\ db'[p].idxoff = o
  BY TakeFreeEffect, Zenon DEF Advances, KeepsRest
<1>2. /\ \A u \in Records : GoodRecord(u)
      /\ OwnData /\ OneRecord /\ BlankData /\ TakenOnce
      /\ \A q \in Procs : (NewData(q) => GoodData(q)) /\ AtEnd(q)
  BY RecordParts, Zenon
<1>3. \A q \in Procs : q # p => db'[q] = db[q]
  BY <1>1, Zenon DEF Others
<1>4. o \notin Taken
  BY <1>1, Zenon DEF HandleOK, At, Freed
<1>5. \A q \in Procs : db[q].pc \in TakenAt => db[q].idxoff # o
  BY <1>4, Disjoint, Zenon
<1> HIDE DEF o
<1>6. (\A u \in Records' : GoodRecord(u)') /\ OwnData' /\ OneRecord' /\ BlankData'
  BY <1>1, <1>2, Zenon DEF GoodRecord, OwnData, OneRecord, BlankData
<1>7. TakenOnce'
  BY <1>1, <1>2, <1>3, <1>5, Zenon DEF TakenOnce
<1>8. \A q \in Procs : NewData(q)' => NewData(q) /\ q # p /\ db'[q] = db[q]
  BY <1>1, <1>3, Zenon DEF NewData
<1>9. \A q \in Procs : NewData(q)' => GoodData(q)'
  BY <1>1, <1>2, <1>8 DEF GoodData
<1>10. \A q \in Procs : AtEnd(q)'
  BY <1>1, <1>2, <1>3, Zenon DEF AtEnd
<1> QED
  BY <1>6, <1>7, <1>9, <1>10, RecordParts, Zenon

(* The records after a taken one was filled: its room is that of the key   *)
(* and the data.                                                           *)
LEMMA RecordsReuseIdx ==
  ASSUME HandleTypes, FileTypes, RecordsOK, NEW p \in Procs, HandleOK(p), ReuseIdx(p)
  PROVE  RecordsOK'
<1> DEFINE o == db[p].idxoff
<1>1. /\ RecordsStay /\ UNCHANGED dat /\ KeySet(o, db[p].key)
      /\ db[p].pc = "reuse_idx" /\ db'[p].pc = "link" /\ Others(p) /\ db'[p].idxoff = o
  BY ReuseIdxEffect, Zenon DEF Advances, KeepsRest
<1>2. /\ \A u \in Records : GoodRecord(u)
      /\ OwnData /\ OneRecord /\ BlankData /\ TakenOnce
      /\ \A q \in Procs : (NewData(q) => GoodData(q)) /\ AtEnd(q)
  BY RecordParts, Zenon
<1>3. \A q \in Procs : q # p => db'[q] = db[q]
  BY <1>1, Zenon DEF Others
<1>4. o \in Records /\ Fits(o, p)
  BY <1>1, Zenon DEF HandleOK, At, Read
<1>5. o \in Taken
  BY <1>1, Disjoint, Zenon DEF TakenAt
<1>6. Records' = Records /\ Live' = Live /\ Freed' = Freed /\ o \notin Live /\ o \notin Freed
  BY <1>1, <1>5, Zenon DEF RecordsStay, Live, Freed
<1>7. idx[o].keylen = KeyLen[db[p].key]
  BY <1>4, Zenon DEF Fits
<1> HIDE DEF o
<1>8. /\ Len(idx') = Len(idx) /\ idx'[o].key = db[p].key /\ idx'[o].keylen = idx[o].keylen
      /\ \A u \in Records : idx'[u].datoff = idx[u].datoff /\ idx'[u].datlen = idx[u].datlen
      /\ \A u \in Records : u # o => idx'[u] = idx[u]
  BY <1>1, Zenon DEF KeySet
<1>9. /\ \A u \in Records' : GoodRecord(u)'
  BY <1>1, <1>2, <1>6, <1>7, <1>8, Zenon DEF GoodRecord
<1>10. OwnData'
  BY <1>2, <1>6, <1>8 DEF OwnData
<1>11. OneRecord'
  BY <1>2, <1>6, <1>8, ZenonT(30) DEF OneRecord, Live
<1>12. BlankData'
  BY <1>1, <1>2, <1>6, <1>8, Zenon DEF BlankData, Freed
<1>13. TakenOnce'
  <2>1. db'[p].idxoff = db[p].idxoff /\ db[p].pc \in TakenAt
    BY <1>1, Zenon DEF TakenAt, o
  <2> QED
    BY <1>2, <1>3, <2>1, Zenon DEF TakenOnce
<1>14. \A q \in Procs : NewData(q)' => NewData(q) /\ q # p /\ db'[q] = db[q]
  BY <1>1, <1>3, Zenon DEF NewData
<1>15. \A q \in Procs : NewData(q)' => GoodData(q)'
  BY <1>1, <1>2, <1>6, <1>8, <1>14, DataStays, Zenon
<1>16. \A q \in Procs : AtEnd(q)'
  BY <1>1, <1>2, <1>3, <1>8, Zenon DEF AtEnd
<1> QED
  BY <1>9, <1>10, <1>11, <1>12, <1>13, <1>15, <1>16, RecordParts, Zenon

(* The records after one was appended: it has the data its process         *)
(* appended before.                                                        *)
LEMMA RecordsAppendIdx ==
  ASSUME HandleTypes, FileTypes, LocksHeld, Exclusive, RecordsOK, NEW p \in Procs, \A q \in Procs : HandleOK(q), AppendIdx(p)
  PROVE  RecordsOK'
<1> DEFINE o == db[p].idxoff
<1>1. /\ Records' = Records \cup {o} /\ o \notin Records /\ UNCHANGED dat /\ Live' = Live /\ Freed' = Freed
      /\ idx'[o] = IdxRecord(p) /\ \A u \in Records : idx'[u] = idx[u]
      /\ db[p].pc = "append_idx" /\ db'[p].pc = "link" /\ Others(p) /\ db'[p].idxoff = o
  BY AppendIdxEffect, Zenon DEF Advances, KeepsRest
<1>2. /\ \A u \in Records : GoodRecord(u)
      /\ OwnData /\ OneRecord /\ BlankData /\ TakenOnce
      /\ \A q \in Procs : (NewData(q) => GoodData(q)) /\ AtEnd(q)
  BY RecordParts, Zenon
<1>3. \A q \in Procs : q # p => db'[q] = db[q]
  BY <1>1, Zenon DEF Others
<1>4. NewData(p) /\ GoodData(p)
  BY <1>1, <1>2, Zenon DEF NewData
<1>5. Taken \subseteq Records /\ \A q \in Procs : db[q].pc \in TakenAt => db[q].idxoff \in Taken
  BY TakenElse, Disjoint, Zenon
<1>6. /\ idx'[o].key = db[p].key /\ idx'[o].keylen = KeyLen[db[p].key] /\ idx'[o].datoff = db[p].datoff
      /\ idx'[o].datlen = DataLen[db[p].val]
  BY <1>1 DEF IdxRecord
<1>7. dat[db[p].datoff].len = DataLen[db[p].val] /\ db[p].datoff \in 1 .. Len(dat) /\ \A u \in Records : idx[u].datoff # db[p].datoff
  BY <1>4 DEF GoodData
<1> HIDE DEF o
<1>8. \A u \in Records' : GoodRecord(u)'
  BY <1>1, <1>2, <1>6, <1>7, SMTT(20) DEF GoodRecord
<1>9. OwnData'
  BY <1>1, <1>2, <1>6, <1>7, SMTT(20) DEF OwnData
<1>10. OneRecord' /\ BlankData'
  BY <1>1, <1>2 DEF OneRecord, BlankData, Live, Freed
<1>11. TakenOnce'
  BY <1>1, <1>2, <1>3, <1>5 DEF TakenOnce
<1>12. \A q \in Procs : NewData(q)' => NewData(q) /\ q # p /\ db'[q] = db[q]
  BY <1>1, <1>3, Zenon DEF NewData
<1>13. ASSUME NEW q \in Procs, NewData(q)' PROVE GoodData(q)'
  <2>1. NewData(q) /\ q # p /\ db'[q] = db[q] /\ GoodData(q)
    BY <1>2, <1>12, <1>13, Zenon
  <2>2. db[q].datoff # db[p].datoff
    BY <1>4, <2>1, Zenon DEF GoodData
  <2>3. \A u \in Records' : idx'[u].datoff # db[q].datoff
    BY <1>1, <1>6, <2>1, <2>2, Zenon DEF GoodData
  <2> QED
    BY <1>1, <1>12, <2>1, <2>3, ZenonT(30) DEF GoodData
<1>14. ASSUME NEW q \in Procs PROVE AtEnd(q)'
  <2>1. q # p => db[q].pc # "append_idx"
    BY <1>1, Apart, Zenon
  <2> QED
    BY <1>1, <1>2, <1>3, <2>1, Zenon DEF AtEnd
<1> QED
  BY <1>8, <1>9, <1>10, <1>11, <1>13, <1>14, RecordParts, Zenon

(* The records after one was linked: no other one has its key.             *)
LEMMA RecordsLink ==
  ASSUME HandleTypes, FileTypes, RecordsOK, TableOK, NEW p \in Procs, HandleOK(p), Link(p)
  PROVE  RecordsOK'
<1> DEFINE o == db[p].idxoff
<1>1. /\ Records' = Records /\ UNCHANGED <<idx, dat>> /\ Live' = Live \cup {o} /\ Freed' = Freed
      /\ db[p].pc = "link" /\ db'[p].pc = "idle" /\ Others(p)
  BY LinkEffect, Zenon DEF Ends
<1>2. /\ \A u \in Records : GoodRecord(u)
      /\ OwnData /\ OneRecord /\ BlankData /\ TakenOnce
      /\ \A q \in Procs : (NewData(q) => GoodData(q)) /\ AtEnd(q)
  BY RecordParts, Zenon
<1>3. \A q \in Procs : q # p => db'[q] = db[q]
  BY <1>1, Zenon DEF Others
<1>4. idx[o].key = db[p].key /\ \A u \in Live : idx[u].key # db[p].key
  BY <1>1, Zenon DEF HandleOK, TableOK, NoRecordAt, AppendAt
<1> HIDE DEF o
<1>5. (\A u \in Records' : GoodRecord(u)') /\ OwnData' /\ BlankData'
  BY <1>1, <1>2, Zenon DEF GoodRecord, OwnData, BlankData
<1>6. OneRecord'
  BY <1>1, <1>2, <1>4 DEF OneRecord
<1>7. TakenOnce'
  BY <1>1, <1>2, <1>3, ZenonT(30) DEF TakenOnce, TakenAt
<1>8. \A q \in Procs : NewData(q)' => NewData(q) /\ q # p /\ db'[q] = db[q]
  BY <1>1, <1>3, Zenon DEF NewData
<1>9. \A q \in Procs : NewData(q)' => GoodData(q)'
  BY <1>1, <1>2, <1>8 DEF GoodData
<1>10. \A q \in Procs : AtEnd(q)'
  BY <1>1, <1>2, <1>3, Zenon DEF AtEnd
<1> QED
  BY <1>5, <1>6, <1>7, <1>9, <1>10, RecordParts, Zenon

(* The records after a step of a process.                                  *)
LEMMA StepRecords ==
  ASSUME HandleTypes, FileTypes, LocksHeld, Exclusive, ListsOK, RecordsOK, TableOK, \A q \in Procs : OpsAt(q) /\ HandleOK(q),
         NEW p \in Procs, FetchStep(p) \/ DeleteStep(p) \/ StoreStep(p)
  PROVE  RecordsOK'
<1>1. Others(p) /\ HandleOK(p)
  BY ProcLocks, Zenon
<1>2. CASE DeleteDat(p) \/ Overwrite(p) \/ ReuseDat(p)
  <2> DEFINE o == db[p].idxoff
  <2>1. RecordsStay /\ UNCHANGED idx /\ \E v : DatSet(db[p].datoff, v)
    BY <1>1, <1>2, DeleteDatEffect, OverwriteEffect, ReuseDatEffect, Zenon
  <2>2. /\ db[p].pc \in {"del_dat", "found", "reuse_dat"} /\ db'[p].pc \in {"del_idx", "idle", "reuse_idx"}
        /\ db'[p].pc = "reuse_idx" => db[p].pc = "reuse_dat" /\ db'[p].idxoff = o
    BY <1>2, Advance, End, Zenon DEF Advances, Ends, KeepsRest
  <2>3. o \in Records /\ db[p].datoff = idx[o].datoff
    BY <1>1, <2>2, Zenon DEF HandleOK, Read
  <2>4. o \notin Freed
    <3>1. db[p].pc \in {"del_dat", "found"} => o \in Live
      BY <1>1, Zenon DEF HandleOK
    <3>2. db[p].pc = "reuse_dat" => o \in Taken
      BY Disjoint, Zenon DEF TakenAt
    <3> QED
      BY <2>2, <3>1, <3>2, Disjoint, Zenon
  <2>5. PICK v : DatSet(db[p].datoff, v)
    BY <2>1, Zenon
  <2>6. DatSet(idx[o].datoff, v)
    BY <2>3, <2>5, Zenon
  <2>7. /\ ~NewData(p)' /\ db'[p].pc \notin {"append_dat", "append_idx"}
        /\ db'[p].pc \in TakenAt => db[p].pc \in TakenAt /\ db'[p].idxoff = db[p].idxoff
    BY <2>2, Zenon DEF NewData, TakenAt
  <2> QED
    BY <1>1, <2>1, <2>3, <2>4, <2>6, <2>7, RecordsDat, Zenon
<1>3. CASE AppendDat(p) \/ DeleteIdx(p) \/ TakeFree(p) \/ ReuseIdx(p) \/ AppendIdx(p) \/ Link(p)
  BY <1>1, <1>3, RecordsAppendDat, RecordsDeleteIdx, RecordsTakeFree, RecordsReuseIdx, RecordsAppendIdx, RecordsLink, Zenon
<1>4. CASE DeleteFree(p) \/ DeleteChain(p)
  <2>1. RecordsStay /\ UNCHANGED <<idx, dat>>
    BY <1>1, <1>4, DeleteFreeEffect, DeleteChainEffect, Zenon
  <2>2. db[p].pc \in {"del_free", "del_chain"} /\ db'[p].pc \in {"del_chain", "deleted"}
    BY <1>4, Advance, Zenon DEF Advances
  <2>3. db[p].pc \notin TakenAt /\ db'[p].pc \notin TakenAt /\ ~NewData(p)' /\ AtEnd(p)'
    BY <2>2, Zenon DEF TakenAt, NewData, AtEnd
  <2> QED
    BY <1>1, <2>1, <2>3, RecordsQuiet, Zenon
<1>5. CASE Quiet(p)
  <2>1. RecordsStay /\ UNCHANGED <<idx, dat>> /\ db[p].pc \notin TakenAt /\ db'[p].pc \notin TakenAt
    BY <1>1, <1>5, QuietEffect, Zenon
  <2>2. CASE EndDat(p)
    <3>1. db'[p].pc = "append_dat" /\ db'[p].datoff = Len(dat) + 1
      BY <2>2, EndDatMoves, Zenon
    <3>2. ~NewData(p)' /\ AtEnd(p)'
      BY <2>1, <3>1, Zenon DEF NewData, AtEnd
    <3> QED
      BY <1>1, <2>1, <3>2, RecordsQuiet, Zenon
  <2>3. CASE EndIdx(p)
    <3>1. /\ db[p].pc = "end_idx" /\ db'[p].pc = "append_idx" /\ db'[p].idxoff = Len(idx) + 1 /\ db'[p].datoff = db[p].datoff
          /\ db'[p].val = db[p].val
      BY <2>3, EndIdxMoves, Zenon DEF KeepsCall
    <3>2. NewData(p) /\ AtEnd(p)'
      BY <2>1, <3>1, Zenon DEF NewData, AtEnd
    <3> QED
      BY <1>1, <2>1, <3>1, <3>2, RecordsQuiet, Zenon
  <2>4. CASE ~EndDat(p) /\ ~EndIdx(p)
    <3>1. db'[p].pc \notin {"end_idx", "append_idx", "append_dat"}
      BY <1>1, <1>5, <2>4, CallMoves, FindMoves, End, Advance, FindFreeMoves, WalkFreeMoves, ZenonT(30) DEF Quiet, Ends, Advances
    <3>2. ~NewData(p)' /\ AtEnd(p)'
      BY <3>1, Zenon DEF NewData, AtEnd
    <3> QED
      BY <1>1, <2>1, <3>2, RecordsQuiet, Zenon
  <2> QED
    BY <2>2, <2>3, <2>4, Zenon
<1> QED
  BY <1>2, <1>3, <1>4, <1>5, Zenon DEF FetchStep, DeleteStep, StoreStep, Quiet

-----------------------------------------------------------------------------
(* The table and the scanners.                                             *)

(* The parts of TableOK: a live record is in the table with its data; what *)
(* is in the table has a record, or a call that is replacing or deleting   *)
(* it; a call that has deleted, or found no record, has no live one with   *)
(* its key; and what the table says of the key of such a call.             *)
Tabled(o) == /\ table[idx[o].key] # None
             /\ \/ dat[idx[o].datoff].val = table[idx[o].key]
                \/ \E p \in Procs : db[p].pc = "del_idx" /\ db[p].idxoff = o

Recorded(k) == \/ table[k] = None
               \/ \E o \in Live : idx[o].key = k
               \/ \E p \in Procs : db[p].pc \in NoRecordAt /\ db[p].key = k

NoRecord(p) == db[p].pc \in NoRecordAt => \A o \in Live : idx[o].key # db[p].key

TableFor(p) == /\ db[p].pc \in {"del_free", "del_chain", "deleted"} => table[db[p].key] # None
               /\ db[p].pc \in ReuseAt => table[db[p].key] = None
               /\ db[p].pc \in AppendAt => /\ db[p].op = "insert" => table[db[p].key] = None
                                           /\ db[p].op = "replace" => table[db[p].key] # None

IsFunction == table \in [Keys -> Vals \cup {None}]

(* TableOK is the conjunction of its parts, now and after the step.        *)
LEMMA TableParts ==
  /\ TableOK <=> /\ IsFunction /\ (\A o \in Live : Tabled(o)) /\ (\A k \in Keys : Recorded(k))
                 /\ \A p \in Procs : NoRecord(p) /\ TableFor(p)
  /\ TableOK' <=> /\ IsFunction' /\ (\A o \in Live' : Tabled(o)') /\ (\A k \in Keys : Recorded(k)')
                  /\ \A p \in Procs : NoRecord(p)' /\ TableFor(p)'
<1>1. TableOK <=> /\ IsFunction /\ (\A o \in Live : Tabled(o)) /\ (\A k \in Keys : Recorded(k))
                  /\ \A p \in Procs : NoRecord(p) /\ TableFor(p)
  BY Zenon DEF TableOK, Tabled, Recorded, NoRecord, TableFor, IsFunction, At
<1>2. TableOK' <=> /\ IsFunction' /\ (\A o \in Live' : Tabled(o)') /\ (\A k \in Keys : Recorded(k)')
                   /\ \A p \in Procs : NoRecord(p)' /\ TableFor(p)'
  BY Zenon DEF TableOK, Tabled, Recorded, NoRecord, TableFor, IsFunction, At
<1> QED
  BY <1>1, <1>2, Zenon

(* The table and the records in it stay.                                   *)
LEMMA TableStays ==
  ASSUME TableOK, UNCHANGED table, NEW p, Others(p), Live' = Live, \A o \in Live : idx'[o].key = idx[o].key,
         \A o \in Live : \/ dat'[idx'[o].datoff].val = dat[idx[o].datoff].val
                         \/ p \in Procs /\ db'[p].pc = "del_idx" /\ db'[p].idxoff = o,
         p \in Procs => /\ db[p].pc # "del_idx"
                        /\ db[p].pc \in NoRecordAt => db'[p].pc \in NoRecordAt /\ db'[p].key = db[p].key
                        /\ db'[p].pc \in NoRecordAt => \A o \in Live : idx[o].key # db'[p].key
                        /\ TableFor(p)'
  PROVE  TableOK'
<1>1. /\ IsFunction /\ (\A o \in Live : Tabled(o)) /\ (\A k \in Keys : Recorded(k))
      /\ \A q \in Procs : NoRecord(q) /\ TableFor(q)
  BY TableParts, Zenon
<1>2. \A q \in Procs : q # p => db'[q] = db[q]
  BY Zenon DEF Others
<1>3. ASSUME NEW o \in Live' PROVE Tabled(o)'
  <2>1. Tabled(o) /\ table'[idx'[o].key] = table[idx[o].key]
    BY <1>1, <1>3, Zenon
  <2>2. CASE dat[idx[o].datoff].val = table[idx[o].key] /\ dat'[idx'[o].datoff].val = dat[idx[o].datoff].val
    BY <2>1, <2>2, Zenon DEF Tabled
  <2>3. CASE p \in Procs /\ db'[p].pc = "del_idx" /\ db'[p].idxoff = o
    BY <2>1, <2>3, Zenon DEF Tabled
  <2>4. CASE \E q \in Procs : db[q].pc = "del_idx" /\ db[q].idxoff = o
    <3>1. PICK q \in Procs : db[q].pc = "del_idx" /\ db[q].idxoff = o
      BY <2>4, Zenon
    <3>2. db'[q] = db[q]
      BY <1>2, <3>1, Zenon
    <3> QED
      BY <2>1, <3>1, <3>2, Zenon DEF Tabled
  <2> QED
    BY <1>3, <2>1, <2>2, <2>3, <2>4, Zenon DEF Tabled
<1>4. ASSUME NEW k \in Keys PROVE Recorded(k)'
  <2>1. Recorded(k)
    BY <1>1, Zenon
  <2>2. \A q \in Procs : db[q].pc \in NoRecordAt => db'[q].pc \in NoRecordAt /\ db'[q].key = db[q].key
    BY <1>2, Zenon
  <2> QED
    BY <2>1, <2>2, Zenon DEF Recorded
<1>5. \A q \in Procs : NoRecord(q)'
  BY <1>1, <1>2 DEF NoRecord
<1>6. \A q \in Procs : TableFor(q)'
  <2>1. \A q \in Procs : q # p => TableFor(q)'
    BY <1>1, <1>2, Zenon DEF TableFor
  <2> QED
    BY <2>1, Zenon
<1>7. IsFunction'
  BY <1>1, Zenon DEF IsFunction
<1> QED
  BY <1>3, <1>4, <1>5, <1>6, <1>7, TableParts, Zenon

(* A search that has come to the end of the chain: no record has the key.  *)
LEMMA NotThere ==
  ASSUME HandleTypes, FileTypes, NEW p \in Procs, HandleOK(p), Missing(p)
  PROVE  \A o \in Live : idx[o].key # db[p].key
<1>1. Ahead(p) /\ db[p].idxoff = 0
  BY Zenon DEF Missing, HandleOK
<1>2. {} \in SUBSET LiveOn(Chain(p)) /\ Closed(ptr, {})
  BY Zenon DEF Closed
<1>3. \A o \in LiveOn(Chain(p)) : idx[o].key = db[p].key => o \in {}
  BY <1>1, <1>2, Zenon DEF Ahead
<1> QED
  BY <1>3, Zenon DEF LiveOn, Chain

(* Calls on one key exclude each other when one of them writes.            *)
LEMMA KeyApart ==
  ASSUME HandleTypes, LocksHeld, Exclusive, NEW p \in Procs, NEW q \in Procs, p # q,
         db[p].pc # "idle", db[q].pc # "idle", db[p].op # "fetch"
  PROVE  db[p].key # db[q].key
BY Apart, Zenon DEF Chain

(* A search for writing that met no record: the table has no entry for the *)
(* key.                                                                    *)
LEMMA NotInTable ==
  ASSUME HandleTypes, FileTypes, LocksHeld, Exclusive, TableOK, NEW p \in Procs, HandleOK(p), Missing(p), db[p].op # "fetch"
  PROVE  table[db[p].key] = None
<1>1. db[p].pc = "find" /\ db[p].key \in Keys
  BY HandleFacts, Zenon DEF Missing, At
<1>2. Recorded(db[p].key)
  BY <1>1, TableParts, Zenon
<1>3. ASSUME NEW q \in Procs, db[q].pc \in NoRecordAt, db[q].key = db[p].key PROVE FALSE
  <2>1. q # p /\ db[q].pc # "idle"
    BY <1>1, <1>3, Zenon DEF NoRecordAt, ReuseAt, AppendAt
  <2> QED
    BY <1>1, <1>3, <2>1, KeyApart, Zenon
<1> QED
  BY <1>2, <1>3, NotThere, Zenon DEF Recorded

(* The table and the records still agree after a step that writes to no    *)
(* file.                                                                   *)
LEMMA TableQuiet ==
  ASSUME HandleTypes, FileTypes, LocksHeld, Exclusive, TableOK, NEW p \in Procs, HandleOK(p), OpsAt(p), Quiet(p), ~Deleted(p)
  PROVE  TableOK'
<1>1. RecordsStay /\ UNCHANGED <<ptr, idx, dat>>
  BY QuietEffect, Zenon DEF Quiet
<1>2. /\ IsFunction /\ NoRecord(p) /\ TableFor(p)
  BY TableParts, Zenon
<1>3. UNCHANGED table
  <2>1. CASE NotFound(p) \/ Fetched(p) \/ InsertFails(p)
    BY <1>2, <2>1, Zenon DEF NotFound, Fetched, InsertFails, TakesEffect, IsFunction
  <2>2. CASE ~(NotFound(p) \/ Fetched(p) \/ InsertFails(p))
    BY <2>2, Zenon DEF Quiet, Call, Find, DeleteStart, FindFree, WalkFree, EndDat, EndIdx, Answers
  <2> QED
    BY <2>1, <2>2, Zenon
<1>4. Others(p) /\ Live' = Live
  BY <1>1, ProcLocks, Zenon DEF RecordsStay, Quiet, FetchStep, DeleteStep, StoreStep
<1>5. CASE Call(p) \/ Find(p) \/ NotFound(p) \/ Fetched(p) \/ InsertFails(p) \/ DeleteStart(p)
  <2>1. db[p].pc \in {"idle", "find", "found"} /\ db'[p].pc \in {"idle", "find", "found", "del_dat"}
    BY <1>5, CallMoves, FindMoves, End, Advance, Zenon DEF Ends, Advances
  <2>2. db[p].pc # "del_idx" /\ db[p].pc \notin NoRecordAt /\ db'[p].pc \notin NoRecordAt /\ TableFor(p)'
    BY <2>1, Zenon DEF NoRecordAt, ReuseAt, AppendAt, TableFor
  <2> QED
    BY <1>1, <1>3, <1>4, <2>2, TableStays, ZenonT(30)
<1>6. CASE FindFree(p)
  <2>1. db[p].pc = "find" /\ db'[p].pc = "free" /\ db'[p].key = db[p].key /\ Missing(p) /\ db[p].op # "fetch"
    BY <1>6, FindFreeMoves, Zenon DEF FindFree, KeepsCall
  <2>2. /\ \A o \in Live : idx[o].key # db[p].key
        /\ table[db[p].key] = None
    BY <2>1, NotThere, NotInTable, Zenon
  <2>3. TableFor(p)' /\ db[p].pc # "del_idx" /\ db[p].pc \notin NoRecordAt
    BY <1>3, <2>1, <2>2, Zenon DEF TableFor, NoRecordAt, ReuseAt, AppendAt
  <2> QED
    BY <1>1, <1>3, <1>4, <2>1, <2>2, <2>3, TableStays, ZenonT(30)
<1>7. CASE WalkFree(p) \/ EndIdx(p) \/ EndDat(p)
  <2>1. /\ db[p].pc \in {"free", "end_idx", "end_dat", "deleted"} /\ KeepsCall(p)
        /\ db[p].pc = "free" => db'[p].pc \in {"end_dat", "take", "free"}
        /\ db[p].pc = "end_idx" => db'[p].pc = "append_idx"
        /\ db[p].pc \in {"end_dat", "deleted"} => db'[p].pc = "append_dat"
    BY <1>7, WalkFreeMoves, EndIdxMoves, EndDatMoves, Zenon
  <2>2. db'[p].key = db[p].key /\ db'[p].op = db[p].op /\ db[p].pc # "del_idx"
    BY <2>1, Zenon DEF KeepsCall
  <2>3. db[p].pc \in NoRecordAt
    BY <2>1, Zenon DEF NoRecordAt, ReuseAt, AppendAt
  <2>4. \A o \in Live : idx[o].key # db'[p].key
    BY <1>2, <2>2, <2>3, Zenon DEF NoRecord
  <2>5. db'[p].pc \in NoRecordAt
    BY <2>1, Zenon DEF NoRecordAt, ReuseAt, AppendAt
  <2>6. TableFor(p)'
    BY <1>2, <1>3, <2>1, <2>2, ZenonT(30) DEF TableFor, OpsAt, ReuseAt, AppendAt, DeleteAt
  <2> QED
    BY <1>1, <1>3, <1>4, <2>2, <2>4, <2>5, <2>6, TableStays, ZenonT(30)
<1> QED
  BY <1>5, <1>6, <1>7, Zenon DEF Quiet

(* The table and the records still agree after a write to a record that is *)
(* not live, or to a ptr.                                                  *)
LEMMA TableInCall ==
  ASSUME HandleTypes, FileTypes, RecordsOK, ListsOK, TableOK, NEW p \in Procs, HandleOK(p), OpsAt(p),
         \/ DeleteFree(p) \/ DeleteChain(p) \/ TakeFree(p) \/ ReuseDat(p) \/ ReuseIdx(p) \/ AppendDat(p) \/ AppendIdx(p)
  PROVE  TableOK'
<1> DEFINE o == db[p].idxoff
<1>1. /\ NoRecord(p) /\ TableFor(p)
  BY TableParts, Zenon
<1>2. /\ Others(p) /\ KeepsCall(p)
      /\ db[p].pc \in {"del_free", "del_chain", "take", "reuse_dat", "reuse_idx", "append_dat", "append_idx"}
      /\ db[p].pc = "del_free" => db'[p].pc = "del_chain"
      /\ db[p].pc = "del_chain" => db'[p].pc = "deleted"
      /\ db[p].pc = "take" => db'[p].pc = "reuse_dat"
      /\ db[p].pc = "reuse_dat" => db'[p].pc = "reuse_idx"
      /\ db[p].pc \in {"reuse_idx", "append_idx"} => db'[p].pc = "link"
      /\ db[p].pc = "append_dat" => db'[p].pc = "end_idx"
  <2>1. CASE DeleteFree(p) \/ DeleteChain(p) \/ TakeFree(p)
    BY <2>1, Advance, Zenon DEF Advances
  <2>2. CASE ReuseDat(p) \/ ReuseIdx(p) \/ AppendDat(p) \/ AppendIdx(p)
    BY <2>2, Advance, Zenon DEF Advances
  <2> QED
    BY <2>1, <2>2, Zenon
<1>3. UNCHANGED table
  BY DeleteFreeEffect, DeleteChainEffect, TakeFreeEffect, ReuseDatEffect, ReuseIdxEffect, AppendDatEffect, AppendIdxEffect, Zenon
<1>4. Live \subseteq Records /\ Live \cap Taken = {}
  BY Zenon DEF Live
<1>5. Live' = Live /\ \A u \in Live : idx'[u] = idx[u] /\ dat'[idx[u].datoff] = dat[idx[u].datoff]
  <2>1. CASE DeleteFree(p) \/ DeleteChain(p) \/ TakeFree(p)
    BY <2>1, DeleteFreeEffect, DeleteChainEffect, TakeFreeEffect, Zenon DEF RecordsStay
  <2>2. CASE ReuseDat(p)
    <3>1. RecordsStay /\ UNCHANGED <<ptr, idx>> /\ DatSet(db[p].datoff, db[p].val) /\ db[p].pc = "reuse_dat"
      BY <2>2, ReuseDatEffect, Zenon DEF Advances
    <3>2. o \in Records /\ db[p].datoff = idx[o].datoff /\ o \in Taken
      BY <3>1, Disjoint, ZenonT(30) DEF HandleOK, Read, TakenAt
    <3>3. \A u \in Records : u # o => RecordStays(u)
      BY <3>1, <3>2, DatFrame, Zenon
    <3> QED
      BY <1>4, <3>1, <3>2, <3>3, Zenon DEF RecordsStay, RecordStays
  <2>3. CASE ReuseIdx(p)
    <3>1. RecordsStay /\ UNCHANGED dat /\ KeySet(o, db[p].key) /\ db[p].pc = "reuse_idx"
      BY <2>3, ReuseIdxEffect, Zenon DEF Advances
    <3>2. o \in Taken
      BY <3>1, Disjoint, Zenon DEF TakenAt
    <3> QED
      BY <1>4, <3>1, <3>2, Zenon DEF RecordsStay, KeySet
  <2>4. CASE AppendDat(p)
    <3>1. RecordsStay /\ UNCHANGED idx /\ \A e \in 1 .. Len(dat) : dat'[e] = dat[e]
      BY <2>4, AppendDatEffect, Zenon
    <3> QED
      BY <1>4, <3>1, ZenonT(30) DEF RecordsOK, RecordsStay
  <2>5. CASE AppendIdx(p)
    BY <1>4, <2>5, AppendIdxEffect, Zenon
  <2> QED
    BY <2>1, <2>2, <2>3, <2>4, <2>5, ZenonT(30)
<1>6. db'[p].key = db[p].key /\ db'[p].op = db[p].op /\ db[p].pc # "del_idx"
  BY <1>2, Zenon DEF KeepsCall
<1>7. db[p].pc \in NoRecordAt /\ db'[p].pc \in NoRecordAt
  BY <1>2, Zenon DEF NoRecordAt, ReuseAt, AppendAt
<1>8. \A u \in Live : idx[u].key # db'[p].key
  BY <1>1, <1>6, <1>7, Zenon DEF NoRecord
<1>9. TableFor(p)'
  BY <1>1, <1>2, <1>3, <1>6, Zenon DEF TableFor, OpsAt, ReuseAt, AppendAt
<1> QED
  BY <1>2, <1>3, <1>5, <1>6, <1>7, <1>8, <1>9, TableStays, ZenonT(30)

(* The blank data belongs to a record whose deletion has begun.            *)
LEMMA TableDeleteDat ==
  ASSUME HandleTypes, FileTypes, RecordsOK, TableOK, NEW p \in Procs, HandleOK(p), DeleteDat(p)
  PROVE  TableOK'
<1> DEFINE o == db[p].idxoff
<1>1. /\ RecordsStay /\ UNCHANGED <<ptr, idx, table>> /\ DatSet(db[p].datoff, Blank)
      /\ db[p].pc = "del_dat" /\ db'[p].pc = "del_idx" /\ db'[p].idxoff = o /\ Others(p)
  BY DeleteDatEffect, Zenon DEF Advances, KeepsRest
<1>2. o \in Records /\ db[p].datoff = idx[o].datoff
  BY <1>1, ZenonT(30) DEF HandleOK, Read
<1>3. \A u \in Records : u # o => RecordStays(u)
  BY <1>1, <1>2, DatFrame, Zenon
<1>4. Live' = Live /\ Live \subseteq Records
  BY <1>1, Zenon DEF RecordsStay, Live
<1>5. \A u \in Live : u # o => dat'[idx'[u].datoff].val = dat[idx[u].datoff].val
  BY <1>1, <1>3, <1>4, Zenon DEF RecordStays
<1>6. db[p].pc # "del_idx" /\ db[p].pc \notin NoRecordAt /\ db'[p].pc \notin NoRecordAt /\ TableFor(p)'
  BY <1>1, Zenon DEF NoRecordAt, ReuseAt, AppendAt, TableFor
<1> QED
  BY <1>1, <1>4, <1>5, <1>6, TableStays, ZenonT(30)

(* The entry of a deleted record is accounted for by the call that deletes *)
(* it.                                                                     *)
LEMMA TableDeleteIdx ==
  ASSUME HandleTypes, FileTypes, RecordsOK, TableOK, NEW p \in Procs, HandleOK(p), DeleteIdx(p)
  PROVE  TableOK'
<1> DEFINE o == db[p].idxoff
<1>1. /\ Records' = Records /\ UNCHANGED <<dat, table>> /\ KeySet(o, Blank) /\ Live' = Live \ {o}
  BY DeleteIdxEffect, Zenon
<1>2. db[p].pc = "del_idx" /\ db'[p].pc = "del_free" /\ Others(p) /\ db'[p].key = db[p].key
  BY DeleteIdxMoves, Zenon DEF KeepsCall
<1>3. o \in Live /\ idx[o].key = db[p].key
  BY <1>2, Zenon DEF HandleOK
<1>4. /\ IsFunction /\ (\A u \in Live : Tabled(u)) /\ (\A k \in Keys : Recorded(k))
      /\ \A q \in Procs : NoRecord(q) /\ TableFor(q)
  BY TableParts, Zenon
<1>5. \A q \in Procs : q # p => db'[q] = db[q]
  BY <1>2, Zenon DEF Others
<1>6. \A u \in Live : u # o => idx'[u] = idx[u] /\ idx[u].key # db[p].key
  BY <1>1, <1>3, ZenonT(30) DEF KeySet, Live, RecordsOK
<1>7. \A q \in Procs : db[q].pc = "del_idx" /\ db[q].idxoff # o => q # p
  OBVIOUS
<1>t. table[db[p].key] # None
  BY <1>3, <1>4, Zenon DEF Tabled
<1> HIDE DEF o
<1>8. ASSUME NEW u \in Live' PROVE Tabled(u)'
  <2>1. u \in Live /\ u # o /\ Tabled(u) /\ idx'[u] = idx[u]
    BY <1>1, <1>4, <1>6, <1>8, Zenon
  <2>2. \A q \in Procs : db[q].pc = "del_idx" /\ db[q].idxoff = u => db'[q] = db[q]
    BY <1>5, <1>7, <2>1, Zenon
  <2> QED
    BY <1>1, <2>1, <2>2, Zenon DEF Tabled
<1>9. ASSUME NEW k \in Keys PROVE Recorded(k)'
  <2>1. CASE k = db[p].key
    BY <1>2, <2>1, Zenon DEF Recorded, NoRecordAt
  <2>2. CASE k # db[p].key
    <3>1. \A u \in Live : idx[u].key = k => u \in Live' /\ idx'[u].key = k
      BY <1>1, <1>3, <1>6, <2>2, Zenon
    <3>2. \A q \in Procs : db[q].pc \in NoRecordAt => db'[q] = db[q]
      BY <1>2, <1>5, Zenon DEF NoRecordAt, ReuseAt, AppendAt
    <3> QED
      BY <1>1, <1>4, <3>1, <3>2, Zenon DEF Recorded
  <2> QED
    BY <2>1, <2>2, Zenon
<1>10. ASSUME NEW q \in Procs PROVE NoRecord(q)'
  <2>1. CASE q = p
    BY <1>1, <1>2, <1>6, <2>1, Zenon DEF NoRecord
  <2>2. CASE q # p
    BY <1>1, <1>4, <1>5, <1>6, <2>2, ZenonT(30) DEF NoRecord
  <2> QED
    BY <2>1, <2>2, Zenon
<1>11. ASSUME NEW q \in Procs PROVE TableFor(q)'
  <2>1. CASE q = p
    BY <1>1, <1>2, <1>t, <2>1, Zenon DEF TableFor, ReuseAt, AppendAt
  <2>2. CASE q # p
    BY <1>1, <1>4, <1>5, <2>2, Zenon DEF TableFor
  <2> QED
    BY <2>1, <2>2, Zenon
<1>12. IsFunction'
  BY <1>1, <1>4, Zenon DEF IsFunction
<1> QED
  BY <1>8, <1>9, <1>10, <1>11, <1>12, TableParts, Zenon

(* A call that changes the table at its key and returns.                   *)
LEMMA TableChanges ==
  ASSUME HandleTypes, FileTypes, LocksHeld, Exclusive, TableOK, NEW p \in Procs, Others(p),
         db[p].pc \notin {"idle", "del_idx"}, db'[p].pc = "idle", db[p].op # "fetch", db[p].key \in Keys,
         NEW v \in Vals \cup {None}, table' = [table EXCEPT ![db[p].key] = v],
         Live \subseteq Live',
         \A o \in Live' : idx'[o].key # db[p].key => o \in Live /\ idx'[o] = idx[o] /\ dat'[idx[o].datoff] = dat[idx[o].datoff],
         \A o \in Live' : idx'[o].key = db[p].key => v # None /\ dat'[idx'[o].datoff].val = v,
         \A o \in Live : idx'[o].key = idx[o].key,
         v # None => \E o \in Live' : idx'[o].key = db[p].key
  PROVE  TableOK'
<1>1. /\ IsFunction /\ (\A u \in Live : Tabled(u)) /\ (\A k \in Keys : Recorded(k))
      /\ \A q \in Procs : NoRecord(q) /\ TableFor(q)
  BY TableParts, Zenon
<1>2. \A q \in Procs : q # p => db'[q] = db[q]
  BY Zenon DEF Others
<1>3. table'[db[p].key] = v /\ \A k : k # db[p].key => table'[k] = table[k]
  BY <1>1 DEF IsFunction
<1>4. IsFunction'
  BY <1>1, Zenon DEF IsFunction
<1>5. ASSUME NEW q \in Procs, q # p, db[q].pc # "idle" PROVE db[q].key # db[p].key
  BY <1>5, KeyApart, Zenon
<1>6. ASSUME NEW o \in Live' PROVE Tabled(o)'
  <2>1. CASE idx'[o].key = db[p].key
    BY <1>3, <1>6, <2>1, Zenon DEF Tabled
  <2>2. CASE idx'[o].key # db[p].key
    <3>1. o \in Live /\ idx'[o] = idx[o] /\ dat'[idx[o].datoff] = dat[idx[o].datoff] /\ Tabled(o)
      BY <1>1, <1>6, <2>2, Zenon
    <3>2. table'[idx'[o].key] = table[idx[o].key]
      BY <1>3, <2>2, <3>1, SMTT(20)
    <3>3. \A q \in Procs : db[q].pc = "del_idx" /\ db[q].idxoff = o => db'[q] = db[q]
      BY <1>2, Zenon
    <3> QED
      BY <3>1, <3>2, <3>3 DEF Tabled
  <2> QED
    BY <2>1, <2>2, Zenon
<1>7. ASSUME NEW k \in Keys PROVE Recorded(k)'
  <2>1. CASE k = db[p].key
    BY <1>3, <2>1, Zenon DEF Recorded
  <2>2. CASE k # db[p].key
    <3>1. \A q \in Procs : db[q].pc \in NoRecordAt /\ db[q].key = k => db'[q] = db[q]
      BY <1>2, <2>2, Zenon
    <3>2. \A o \in Live : idx[o].key = k => o \in Live' /\ idx'[o].key = k
      OBVIOUS
    <3> QED
      BY <1>1, <1>3, <2>2, <3>1, <3>2, SMTT(20) DEF Recorded
  <2> QED
    BY <2>1, <2>2, Zenon
<1>8. ASSUME NEW q \in Procs PROVE NoRecord(q)' /\ TableFor(q)'
  <2>1. CASE db'[q].pc = "idle"
    BY <2>1, Zenon DEF NoRecord, TableFor, NoRecordAt, ReuseAt, AppendAt
  <2>2. CASE db'[q].pc # "idle"
    <3>1. q # p /\ db'[q] = db[q] /\ db[q].key # db[p].key
      BY <1>2, <1>5, <2>2, Zenon
    <3>2. NoRecord(q)'
      BY <1>1, <3>1 DEF NoRecord
    <3>3. table'[db[q].key] = table[db[q].key]
      BY <1>3, <3>1, Zenon
    <3>4. TableFor(q)
      BY <1>1, Zenon
    <3>5. TableFor(q)'
      BY <3>1, <3>3, <3>4, Zenon DEF TableFor
    <3> QED
      BY <3>2, <3>5, Zenon
  <2> QED
    BY <2>1, <2>2, Zenon
<1> QED
  BY <1>4, <1>6, <1>7, <1>8, TableParts, Zenon

(* db_delete returns: the entry goes, and there is no record of the key.   *)
LEMMA TableDeleted ==
  ASSUME HandleTypes, FileTypes, LocksHeld, Exclusive, TableOK, NEW p \in Procs, HandleOK(p), Deleted(p)
  PROVE  TableOK'
<1>1. db[p].pc = "deleted" /\ db'[p].pc = "idle" /\ Others(p) /\ db[p].op # "fetch"
  BY End, Zenon DEF Ends, Deleted
<1>2. RecordsStay /\ UNCHANGED <<idx, dat>>
  BY QuietEffect, Zenon DEF Quiet
<1>3. table' = [table EXCEPT ![db[p].key] = None] /\ db[p].key \in Keys
  BY <1>1, HandleFacts, Zenon DEF Deleted, TakesEffect
<1>4. \A o \in Live : idx[o].key # db[p].key
  BY <1>1, TableParts, Zenon DEF NoRecord, NoRecordAt
<1>5. Live' = Live
  BY <1>2, Zenon DEF RecordsStay
<1>h. /\ Live \subseteq Live'
      /\ \A u \in Live' : idx'[u].key # db[p].key => u \in Live /\ idx'[u] = idx[u] /\ dat'[idx[u].datoff] = dat[idx[u].datoff]
      /\ \A u \in Live : idx'[u].key = idx[u].key
  BY <1>2, <1>4, <1>5, Zenon
<1>i. /\ \A u \in Live' : idx'[u].key = db[p].key => None # None /\ dat'[idx'[u].datoff].val = None
      /\ None # None => \E u \in Live' : idx'[u].key = db[p].key
  BY <1>2, <1>4, <1>5, Zenon
<1> QED
  BY <1>1, <1>3, <1>h, <1>i, TableChanges, Zenon

(* db_store returns after it wrote over the data: the entry and the data   *)
(* change together.                                                        *)
LEMMA TableOverwrite ==
  ASSUME HandleTypes, FileTypes, LocksHeld, Exclusive, RecordsOK, TableOK, NEW p \in Procs, HandleOK(p), Overwrite(p)
  PROVE  TableOK'
<1> DEFINE o == db[p].idxoff
<1>1. /\ RecordsStay /\ UNCHANGED <<ptr, idx>> /\ DatSet(db[p].datoff, db[p].val)
      /\ db[p].pc = "found" /\ db'[p].pc = "idle" /\ Others(p)
  BY OverwriteEffect, Zenon DEF Ends
<1>2. db[p].op # "fetch" /\ table' = [table EXCEPT ![db[p].key] = db[p].val] /\ db[p].key \in Keys /\ db[p].val \in Vals
  BY <1>1, HandleFacts, Zenon DEF Overwrite, TakesEffect
<1>3. o \in Records /\ db[p].datoff = idx[o].datoff /\ o \in Live /\ idx[o].key = db[p].key
  BY <1>1, Zenon DEF HandleOK, Read
<1>4. \A u \in Records : u # o => RecordStays(u)
  BY <1>1, <1>3, DatFrame, Zenon
<1>5. Live' = Live /\ Live \subseteq Records
  BY <1>1, Zenon DEF RecordsStay, Live
<1>6. \A u \in Live : idx[u].key = db[p].key => u = o
  BY <1>3 DEF RecordsOK
<1>7. dat'[idx[o].datoff].val = db[p].val /\ db[p].val # None
  BY <1>1, <1>2, <1>3, BlankAssumption, Zenon DEF DatSet
<1>8. \A u \in Live : u # o => dat'[idx[u].datoff] = dat[idx[u].datoff]
  BY <1>4, <1>5, Zenon DEF RecordStays
<1> HIDE DEF o
<1>h. /\ Live \subseteq Live'
      /\ \A u \in Live' : idx'[u].key # db[p].key => u \in Live /\ idx'[u] = idx[u] /\ dat'[idx[u].datoff] = dat[idx[u].datoff]
      /\ \A u \in Live : idx'[u].key = idx[u].key
  BY <1>1, <1>3, <1>5, <1>8, Zenon
<1>i. /\ \A u \in Live' : idx'[u].key = db[p].key => db[p].val # None /\ dat'[idx'[u].datoff].val = db[p].val
      /\ db[p].val # None => \E u \in Live' : idx'[u].key = db[p].key
  BY <1>1, <1>3, <1>5, <1>6, <1>7, ZenonT(30)
<1>j. /\ Others(p) /\ db[p].pc \notin {"idle", "del_idx"} /\ db'[p].pc = "idle" /\ db[p].op # "fetch"
      /\ db[p].key \in Keys /\ db[p].val \in Vals \cup {None} /\ table' = [table EXCEPT ![db[p].key] = db[p].val]
  BY <1>1, <1>2, Zenon
<1> QED
  BY <1>h, <1>i, <1>j, TableChanges, Zenon

(* db_store returns after it linked its record: the entry and the live     *)
(* record come together.                                                   *)
LEMMA TableLink ==
  ASSUME HandleTypes, FileTypes, LocksHeld, Exclusive, RecordsOK, TableOK, NEW p \in Procs, HandleOK(p), OpsAt(p), Link(p)
  PROVE  TableOK'
<1> DEFINE o == db[p].idxoff
<1>1. /\ UNCHANGED <<idx, dat>> /\ Live' = Live \cup {o} /\ db[p].pc = "link" /\ db'[p].pc = "idle" /\ Others(p)
  BY LinkEffect, Zenon DEF Ends
<1>2. db[p].op # "fetch" /\ table' = [table EXCEPT ![db[p].key] = db[p].val] /\ db[p].key \in Keys /\ db[p].val \in Vals
  BY <1>1, HandleFacts, Zenon DEF Link, TakesEffect, OpsAt, AppendAt
<1>3. idx[o].key = db[p].key /\ dat[idx[o].datoff].val = db[p].val
  BY <1>1, ZenonT(30) DEF HandleOK, Read
<1>4. \A u \in Live : idx[u].key # db[p].key
  BY <1>1, TableParts, Zenon DEF NoRecord, NoRecordAt, AppendAt
<1>5. db[p].val # None
  BY <1>2, BlankAssumption, Zenon
<1> HIDE DEF o
<1>h. /\ Live \subseteq Live'
      /\ \A u \in Live' : idx'[u].key # db[p].key => u \in Live /\ idx'[u] = idx[u] /\ dat'[idx[u].datoff] = dat[idx[u].datoff]
      /\ \A u \in Live : idx'[u].key = idx[u].key
  BY <1>1, <1>3, <1>4, Zenon
<1>i. /\ \A u \in Live' : idx'[u].key = db[p].key => db[p].val # None /\ dat'[idx'[u].datoff].val = db[p].val
      /\ db[p].val # None => \E u \in Live' : idx'[u].key = db[p].key
  BY <1>1, <1>3, <1>4, <1>5, Zenon
<1>j. /\ Others(p) /\ db[p].pc \notin {"idle", "del_idx"} /\ db'[p].pc = "idle" /\ db[p].op # "fetch"
      /\ db[p].key \in Keys /\ db[p].val \in Vals \cup {None} /\ table' = [table EXCEPT ![db[p].key] = db[p].val]
  BY <1>1, <1>2, Zenon
<1> QED
  BY <1>h, <1>i, <1>j, TableChanges, Zenon

(* The table after a step of a process.                                    *)
LEMMA StepTable ==
  ASSUME HandleTypes, FileTypes, LocksHeld, Exclusive, ListsOK, RecordsOK, TableOK, \A q \in Procs : OpsAt(q) /\ HandleOK(q),
         NEW p \in Procs, FetchStep(p) \/ DeleteStep(p) \/ StoreStep(p)
  PROVE  TableOK'
<1>1. HandleOK(p) /\ OpsAt(p)
  OBVIOUS
<1>2. CASE Deleted(p) \/ Overwrite(p) \/ Link(p) \/ DeleteDat(p) \/ DeleteIdx(p)
  BY <1>1, <1>2, TableDeleted, TableOverwrite, TableLink, TableDeleteDat, TableDeleteIdx, ZenonT(30)
<1>3. CASE \/ DeleteFree(p) \/ DeleteChain(p) \/ TakeFree(p) \/ ReuseDat(p) \/ ReuseIdx(p) \/ AppendDat(p) \/ AppendIdx(p)
  BY <1>1, <1>3, TableInCall, Zenon
<1>4. CASE Quiet(p) /\ ~Deleted(p)
  BY <1>1, <1>4, TableQuiet, Zenon
<1> QED
  BY <1>2, <1>3, <1>4, Zenon DEF FetchStep, DeleteStep, StoreStep, Quiet

(* The scanners after a step of a process: a record that a scanner stands  *)
(* on is not deleted, for the scanner holds the lock on the free list.     *)
LEMMA StepScans ==
  ASSUME HandleTypes, FileTypes, LocksHeld, Exclusive, ListsOK, RecordsOK, ScansOK, \A q \in Procs : OpsAt(q) /\ HandleOK(q),
         NEW p \in Procs, FetchStep(p) \/ DeleteStep(p) \/ StoreStep(p)
  PROVE  ScansOK'
<1>1. Others(p) /\ HandleOK(p)
  BY ProcLocks, Zenon
<1>2. \A s \in Scanners : db'[s] = db[s]
  BY <1>1, ProcsAssumption, Zenon DEF Others
<1>3. ASSUME NEW s \in Scanners, db[s].pc = "next_dat"
      PROVE  \E o \in Records' : idx'[o].key = db[s].key /\ db[s].key # Blank /\ idx'[o].datoff = db[s].datoff
  <2>1. PICK o \in Records : idx[o].key = db[s].key /\ db[s].key # Blank /\ idx[o].datoff = db[s].datoff
    BY <1>3, Zenon DEF ScansOK, At
  <2>2. db[p].pc \notin FreeAt
    BY <1>3, ScanApart, Zenon
  <2>3. o \in Records' /\ idx'[o].key = idx[o].key /\ idx'[o].datoff = idx[o].datoff
    <3>1. CASE Quiet(p)
      BY <1>1, <3>1, QuietEffect, Zenon DEF RecordsStay
    <3>2. CASE DeleteDat(p) \/ DeleteIdx(p) \/ DeleteFree(p) \/ DeleteChain(p) \/ TakeFree(p)
      BY <2>2, <3>2, Zenon DEF DeleteDat, DeleteIdx, DeleteFree, DeleteChain, TakeFree, At, FreeAt, DeleteAt
    <3>3. CASE Overwrite(p) \/ ReuseDat(p) \/ AppendDat(p)
      BY <1>1, <3>3, OverwriteEffect, ReuseDatEffect, AppendDatEffect, Zenon DEF RecordsStay
    <3>4. CASE Link(p)
      BY <1>1, <3>4, LinkEffect, Zenon
    <3>5. CASE AppendIdx(p)
      BY <1>1, <3>5, AppendIdxEffect, Zenon
    <3>6. CASE ReuseIdx(p)
      <4>1. RecordsStay /\ KeySet(db[p].idxoff, db[p].key) /\ Advances(p, "reuse_idx", "link")
        BY <1>1, <3>6, ReuseIdxEffect, Zenon
      <4>2. db[p].pc \in {"take", "reuse_dat", "reuse_idx"}
        BY <4>1, Zenon DEF Advances
      <4>3. idx[db[p].idxoff].key = Blank
        BY <1>1, <4>2, Zenon DEF HandleOK
      <4>4. o # db[p].idxoff
        BY <2>1, <4>3, Zenon
      <4> QED
        BY <4>1, <4>4, Zenon DEF RecordsStay, KeySet
    <3> QED
      BY <3>1, <3>2, <3>3, <3>4, <3>5, <3>6, Zenon DEF FetchStep, DeleteStep, StoreStep, Quiet
  <2> QED
    BY <2>1, <2>3, Zenon
<1> QED
  BY <1>2, <1>3, SMTT(20) DEF ScansOK, At

-----------------------------------------------------------------------------
(* What the invariant says of the lists and the locks.                     *)

(* When nobody has the write lock of a chain no call on it is past its     *)
(* search.                                                                 *)
LEMMA ChainWriters ==
  ASSUME LocksHeld, HandleTypes, NEW c \in Chains, writer[c] = {}, NEW p \in Procs, OpsAt(p), Chain(p) = c
  PROVE  db[p].pc \notin DeleteAt \cup {"deleted"} \cup ReuseAt \cup AppendAt
<1>1. ~Writes(p, c)
  BY LockFacts, Zenon DEF Locks
<1>2. db[p].pc \in DeleteAt \cup {"deleted"} \cup ReuseAt \cup AppendAt => db[p].op # "fetch" /\ db[p].pc # "idle"
  BY Zenon DEF OpsAt, DeleteAt, ReuseAt, AppendAt
<1> QED
  BY <1>1, <1>2, Zenon DEF Writes, At

(* A chain that nobody has locked for writing goes through its live        *)
(* records.                                                                *)
LEMMA QuietChain ==
  ASSUME Inv, NEW c \in Chains, writer[c] = {}
  PROVE  OnList(c) = LiveOn(c)
<1>1. \A p \in Procs : Unlinking(p) => Chain(p) # c
  BY ChainWriters, Zenon DEF Inv, Unlinking, DeleteAt
<1>2. IsList(ptr, c, LiveOn(c))
  BY <1>1, Zenon DEF Inv, ListsOK
<1> QED
  BY <1>2, ListFound, Zenon DEF LiveOn, Live

(* A free list that nobody has locked for writing goes through the free    *)
(* records.                                                                *)
LEMMA QuietFree ==
  ASSUME Inv, writer[FREE] = {}
  PROVE  OnList(FREE) = Freed
<1>1. \A p \in Procs : ~At(p, "del_free")
  BY LockFacts DEF Inv, Locks, Writes, FreeAt, DeleteAt, At
<1>2. IsList(ptr, FREE, Freed)
  BY <1>1, Zenon DEF Inv, ListsOK
<1> QED
  BY <1>2, ListFound, Zenon DEF Freed

(* The invariant tells which locks a process holds at each place of a      *)
(* call, which is all that LockOrder speaks of.                            *)
LEMMA InvLockOrder == Inv => LockOrder
<1> SUFFICES ASSUME Inv PROVE LockOrder
  OBVIOUS
<1> USE DEF Inv
<1>1. ASSUME NEW p \in Procs, NEW x \in Locks PROVE Holds(p, x) <=> Writes(p, x) \/ Reads(p, x)
  BY <1>1, LockFacts, ProcsAssumption, Zenon DEF Holds
<1>2. ASSUME NEW p \in Procs, NEW c \in Chains PROVE Holds(p, c) <=> (~At(p, "idle") /\ Chain(p) = c)
  <2>1. c \in Locks /\ c \notin {FREE, IDXEND, DATFILE}
    BY PlacesAssumption, Zenon DEF Locks
  <2> QED
    BY <1>1, <2>1, Zenon DEF Writes, Reads
<1>3. ASSUME NEW p \in Procs, WantsLock(p), NEW x \in {FREE, IDXEND, DATFILE} PROVE ~Holds(p, x)
  <2>1. db[p].pc \in {"find", "found", "deleted", "end_dat", "end_idx"}
    BY <1>3, Zenon DEF WantsLock, Missing, At
  <2>2. Chain(p) \in Chains
    BY <2>1, HandleFacts, Zenon
  <2>3. x \in Locks /\ x # Chain(p)
    BY <2>2, PlacesAssumption, Zenon DEF Locks
  <2>4. db[p].pc \notin FreeAt \cup {"append_idx", "append_dat"}
    BY <2>1, Zenon DEF FreeAt, DeleteAt
  <2> QED
    BY <1>1, <2>3, <2>4, Zenon DEF Writes, Reads, At
<1> QED
  BY <1>2, <1>3, Zenon DEF LockOrder

(* The free records are blank, on no chain, and not taken.                 *)
LEMMA InvFreeListSound == Inv => FreeListSound
<1> SUFFICES ASSUME Inv, writer[FREE] = {}, NEW o \in OnList(FREE)
             PROVE  /\ idx[o].key = Blank /\ dat[idx[o].datoff].val = Blank
                    /\ \A c \in Chains : writer[c] = {} => o \notin OnList(c)
                    /\ \A p \in Procs : db[p].pc \in {"reuse_dat", "reuse_idx", "link"} => db[p].idxoff # o
  BY Zenon DEF FreeListSound
<1>1. o \in Freed
  BY QuietFree, Zenon
<1>2. idx[o].key = Blank /\ dat[idx[o].datoff].val = Blank
  BY <1>1, Zenon DEF Inv, RecordsOK, Freed
<1>3. \A c \in Chains : writer[c] = {} => o \notin OnList(c)
  BY <1>1, QuietChain, Disjoint, Zenon
<1>4. \A p \in Procs : db[p].pc \in TakenAt => db[p].idxoff # o
  BY <1>1, Disjoint, Zenon
<1> QED
  BY <1>2, <1>3, <1>4, Zenon DEF TakenAt

(* With no call in progress no record is taken, so every one is live and   *)
(* on its chain, or free and on the free list.                             *)
LEMMA InvNoRecordLost == Inv => NoRecordLost
<1> SUFFICES ASSUME Inv, \A p \in Procs : At(p, "idle")
             PROVE  Records = UNION {OnList(x) : x \in Chains \cup {FREE}}
  BY Zenon DEF NoRecordLost
<1>1. \A x \in Locks : writer[x] = {}
  BY LockFacts, Zenon DEF Inv, Writes, At, FreeAt, DeleteAt
<1>2. (\A c \in Chains : OnList(c) = LiveOn(c)) /\ OnList(FREE) = Freed
  BY <1>1, QuietChain, QuietFree, ZenonT(30) DEF Locks
<1>3. Taken = {}
  BY Zenon DEF Taken, At, TakenAt
<1>4. \A o \in Records : idx[o].key # Blank => Hash[idx[o].key] \in Chains
  BY FileFacts, HashAssumption, Zenon DEF Inv
<1>5. \A o \in Records : o \in Freed \/ \E c \in Chains : o \in LiveOn(c)
  BY <1>3, <1>4, Zenon DEF Freed, LiveOn, Live
<1>6. Freed \subseteq Records /\ \A c \in Chains : LiveOn(c) \subseteq Records
  BY Zenon DEF Freed, LiveOn, Live
<1>7. ASSUME NEW o \in Records PROVE \E x \in Chains \cup {FREE} : o \in OnList(x)
  BY <1>2, <1>5, Zenon
<1>8. ASSUME NEW x \in Chains \cup {FREE} PROVE OnList(x) \subseteq Records
  BY <1>2, <1>6, Zenon
<1> DEFINE All == {OnList(x) : x \in Chains \cup {FREE}}
<1>9. \A o \in Records : \E L \in All : o \in L
  BY <1>7, Zenon
<1>10. \A L \in All : L \subseteq Records
  BY <1>8, Zenon
<1> HIDE DEF All
<1>11. Records = UNION All
  BY <1>9, <1>10, ZenonT(30)
<1> QED
  BY <1>11, ZenonT(30) DEF All

-----------------------------------------------------------------------------
(* The refinement of KVStore, step by step.                                *)

(* What a step does to the calls the table knows of.                       *)
Carries(p) == db[p].pc # "idle" /\ db'[p].pc # "idle" /\ KeepsCall(p) /\ Others(p) /\ UNCHANGED Answers

(* The steps inside a call keep its arguments and answer nothing.          *)
LEMMA StepCarries ==
  ASSUME HandleTypes, FileTypes, NEW p \in Procs, HandleOK(p),
         \/ Find(p) \/ DeleteStart(p) \/ DeleteDat(p) \/ DeleteIdx(p) \/ DeleteFree(p) \/ DeleteChain(p)
         \/ FindFree(p) \/ WalkFree(p) \/ TakeFree(p) \/ ReuseDat(p) \/ ReuseIdx(p) \/ EndDat(p)
         \/ AppendDat(p) \/ EndIdx(p) \/ AppendIdx(p)
  PROVE  Carries(p)
<1>1. UNCHANGED Answers
  BY Zenon DEF Find, DeleteStart, DeleteDat, DeleteIdx, DeleteFree, DeleteChain, FindFree, WalkFree, TakeFree,
               ReuseDat, ReuseIdx, EndDat, AppendDat, EndIdx, AppendIdx
<1>2. CASE \/ DeleteStart(p) \/ DeleteDat(p) \/ DeleteFree(p) \/ DeleteChain(p) \/ TakeFree(p) \/ ReuseDat(p)
           \/ ReuseIdx(p) \/ AppendDat(p) \/ AppendIdx(p)
  BY <1>1, <1>2, Advance, ZenonT(30) DEF Advances, Carries
<1>3. CASE Find(p) \/ WalkFree(p)
  BY <1>1, <1>3, FindMoves, WalkFreeMoves, ZenonT(30) DEF Carries
<1>4. CASE DeleteIdx(p) \/ FindFree(p) \/ EndDat(p) \/ EndIdx(p)
  BY <1>1, <1>4, DeleteIdxMoves, FindFreeMoves, EndDatMoves, EndIdxMoves, ZenonT(30) DEF Carries
<1> QED
  BY <1>2, <1>3, <1>4, ZenonT(30)

(* The pending call of KVStore has the arguments of the handle.            *)
LEMMA PendingCall ==
  ASSUME NEW p \in Procs, db[p].pc # "idle"
  PROVE  Pending[p].op = db[p].op /\ Pending[p].key = db[p].key /\ Pending[p].val = db[p].val
BY Zenon DEF Pending, At

(* A step inside a call changes nothing that KVStore has.                  *)
LEMMA PendingCarries ==
  ASSUME NEW p \in Procs, Carries(p)
  PROVE  UNCHANGED <<table, Pending, result>>
<1>1. \A q \in Procs : q # p => db'[q] = db[q]
  BY Zenon DEF Carries, Others
<1>2. /\ db[p].pc # "idle" /\ db'[p].pc # "idle"
      /\ db'[p].op = db[p].op /\ db'[p].key = db[p].key /\ db'[p].val = db[p].val
  BY Zenon DEF Carries, KeepsCall
<1>3. UNCHANGED Pending
  BY <1>1, <1>2, Zenon DEF Pending, At
<1> QED
  BY <1>3, Zenon DEF Carries, Answers

(* A call that returns is no longer pending.                               *)
LEMMA PendingEnds ==
  ASSUME NEW p \in Procs, db'[p].pc = "idle", Others(p)
  PROVE  Pending' = [Pending EXCEPT ![p] = [op |-> "none"]]
<1>1. \A q \in Procs : q # p => db'[q] = db[q]
  BY Zenon DEF Others
<1> QED
  BY <1>1, Zenon DEF Pending, At

(* No record of the key, no entry in the table: for readers too.           *)
LEMMA MissingKey ==
  ASSUME Inv, NEW p \in Procs, Missing(p)
  PROVE  table[db[p].key] = None
<1> USE DEF Inv
<1>1. db[p].pc = "find" /\ db[p].key \in Keys
  BY HandleFacts, Zenon DEF Missing, At
<1>2. Recorded(db[p].key)
  BY <1>1, TableParts, Zenon
<1>3. ASSUME NEW q \in Procs, db[q].pc \in NoRecordAt, db[q].key = db[p].key PROVE FALSE
  <2>1. q # p /\ db[q].pc # "idle" /\ db[q].op # "fetch"
    BY <1>1, <1>3, Zenon DEF NoRecordAt, ReuseAt, AppendAt, OpsAt, DeleteAt
  <2> QED
    BY <1>1, <1>3, <2>1, KeyApart, ZenonT(30)
<1> QED
  BY <1>2, <1>3, NotThere, Zenon DEF Recorded

(* A search that stopped at a record: the table has the key, with the data *)
(* of the record.                                                          *)
LEMMA FoundKey ==
  ASSUME Inv, NEW p \in Procs, db[p].pc = "found"
  PROVE  table[db[p].key] # None /\ dat[db[p].datoff].val = table[db[p].key]
<1> USE DEF Inv
<1>1. db[p].idxoff \in Live /\ idx[db[p].idxoff].key = db[p].key /\ db[p].datoff = idx[db[p].idxoff].datoff
  BY Zenon DEF HandleOK, Read
<1>2. Tabled(db[p].idxoff)
  BY <1>1, TableParts, Zenon
<1>3. ASSUME NEW q \in Procs, db[q].pc = "del_idx", db[q].idxoff = db[p].idxoff PROVE FALSE
  <2>1. q # p /\ db[q].pc # "idle" /\ db[q].op # "fetch" /\ db[q].key = db[p].key
    BY <1>1, <1>3, ZenonT(30) DEF OpsAt, DeleteAt, HandleOK
  <2>2. db[p].pc # "idle"
    OBVIOUS
  <2> QED
    BY <2>1, <2>2, KeyApart, ZenonT(30)
<1>4. dat[idx[db[p].idxoff].datoff].val = table[idx[db[p].idxoff].key]
  BY <1>2, <1>3, Zenon DEF Tabled
<1> QED
  BY <1>1, <1>2, <1>4, Zenon DEF Tabled

(* The steps at which calls take effect.                                   *)
LEMMA TableSame ==
  ASSUME Inv, NEW k \in Keys, table' = [table EXCEPT ![k] = table[k]]
  PROVE  table' = table
BY Zenon DEF Inv, TableOK

(* A call that has locked its chain is a call of KVStore.                  *)
LEMMA CallRefines ==
  ASSUME Inv, NEW p \in Procs, Call(p)
  PROVE  KV!Call(p)
<1>1. /\ Others(p) /\ db[p].pc = "idle" /\ db'[p].pc = "find" /\ db'[p] \in Calling
      /\ result' = [result EXCEPT ![p] = "none"] /\ UNCHANGED table
  BY CallMoves, Zenon DEF Inv
<1>2. \A q \in Procs : q # p => db'[q] = db[q]
  BY <1>1, Zenon DEF Others
<1>3. Pending[p] = [op |-> "none"]
  BY <1>1, Zenon DEF Pending, At
<1>4. Pending'[p] = [op |-> db'[p].op, key |-> db'[p].key, val |-> db'[p].val]
  BY <1>1, Zenon DEF Pending, At
<1>5. db'[p].op \in AllOps /\ db'[p].key \in Keys /\ db'[p].val \in Vals
  BY <1>1, Zenon DEF Calling
<1>6. Pending'[p] \in [op : {"fetch", "delete", "insert", "replace", "store"}, key : Keys, val : Vals]
  BY <1>4, <1>5 DEF AllOps
<1>7. Pending' = [Pending EXCEPT ![p] = Pending'[p]]
  BY <1>2, Zenon DEF Pending, At
<1> QED
  BY <1>1, <1>3, <1>6, <1>7, ZenonT(30) DEF KV!Call, KV!NoCall, KV!Calls

(* The last step of a call is the step at which KVStore reads or changes   *)
(* the table, with the same result.                                        *)
LEMMA EndRefines ==
  ASSUME Inv, NEW p \in Procs,
         NotFound(p) \/ Fetched(p) \/ InsertFails(p) \/ Deleted(p) \/ Overwrite(p) \/ Link(p)
  PROVE  KV!Fetch(p) \/ KV!Delete(p) \/ KV!Store(p) \/ KV!StoreFails(p)
<1> USE DEF Inv
<1>1. db[p].pc # "idle" /\ db'[p].pc = "idle" /\ Others(p)
  BY End, Zenon DEF Ends
<1>2. Pending' = [Pending EXCEPT ![p] = [op |-> "none"]]
  BY <1>1, PendingEnds, Zenon
<1>3. Pending[p].op = db[p].op /\ Pending[p].key = db[p].key /\ Pending[p].val = db[p].val
  BY <1>1, PendingCall, Zenon
<1>4. db[p].key \in Keys
  BY <1>1, HandleFacts, Zenon
<1> USE DEF KV!Returns, KV!NoCall, KV!Old, KV!Set
<1>5. CASE NotFound(p)
  <2>1. Missing(p) /\ table[db[p].key] = None
    BY <1>5, MissingKey, Zenon DEF NotFound
  <2>2. CASE db[p].op = "fetch"
    <3>1. TakesEffect(p, db[p].key, table[db[p].key], None)
      BY <1>5, <2>2, Zenon DEF NotFound
    <3>2. result' = [result EXCEPT ![p] = table[Pending[p].key]] /\ UNCHANGED table
      BY <1>3, <1>4, <2>1, <3>1, TableSame, Zenon DEF TakesEffect
    <3> QED
      BY <1>2, <1>3, <2>2, <3>2, Zenon DEF KV!Fetch
  <2>3. CASE db[p].op \in {"delete", "replace"}
    <3>1. TakesEffect(p, db[p].key, table[db[p].key], "missing")
      BY <1>5, <2>3, Zenon DEF NotFound
    <3>2. result' = [result EXCEPT ![p] = "missing"] /\ UNCHANGED table /\ table' = [table EXCEPT ![Pending[p].key] = None]
      BY <1>3, <1>4, <2>1, <3>1, TableSame, Zenon DEF TakesEffect
    <3>3. table[Pending[p].key] = None
      BY <1>3, <2>1, Zenon
    <3>4. CASE db[p].op = "delete"
      BY <1>2, <1>3, <3>2, <3>3, <3>4, ZenonT(30) DEF KV!Delete
    <3>5. CASE db[p].op = "replace"
      BY <1>2, <1>3, <3>2, <3>3, <3>5, ZenonT(30) DEF KV!StoreFails
    <3> QED
      BY <2>3, <3>4, <3>5, Zenon
  <2> QED
    BY <1>5, <2>2, <2>3, ZenonT(30) DEF NotFound
<1>6. CASE Fetched(p)
  <2>1. db[p].pc = "found" /\ db[p].op = "fetch" /\ TakesEffect(p, db[p].key, table[db[p].key], dat[db[p].datoff].val)
    BY <1>6, Zenon DEF Fetched, At
  <2>2. result' = [result EXCEPT ![p] = table[Pending[p].key]] /\ UNCHANGED table
    BY <1>3, <1>4, <2>1, TableSame, FoundKey, ZenonT(30) DEF TakesEffect
  <2> QED
    BY <1>2, <1>3, <2>1, <2>2, Zenon DEF KV!Fetch
<1>7. CASE InsertFails(p)
  <2>1. db[p].pc = "found" /\ db[p].op = "insert" /\ TakesEffect(p, db[p].key, table[db[p].key], "exists")
    BY <1>7, Zenon DEF InsertFails, At
  <2>2. result' = [result EXCEPT ![p] = "exists"] /\ UNCHANGED table /\ table[Pending[p].key] # None
    BY <1>3, <1>4, <2>1, TableSame, FoundKey, ZenonT(30) DEF TakesEffect
  <2> QED
    BY <1>2, <1>3, <2>1, <2>2, Zenon DEF KV!StoreFails
<1>8. CASE Deleted(p)
  <2>1. db[p].pc = "deleted" /\ db[p].op = "delete" /\ TakesEffect(p, db[p].key, None, "ok")
    BY <1>8, Zenon DEF Deleted, At
  <2>2. table[db[p].key] # None
    BY <2>1, TableParts, Zenon DEF TableFor
  <2>3. result' = [result EXCEPT ![p] = "ok"] /\ table' = [table EXCEPT ![Pending[p].key] = None]
    BY <1>3, <2>1, Zenon DEF TakesEffect
  <2>4. table[Pending[p].key] # None
    BY <1>3, <2>2, Zenon
  <2> QED
    BY <1>2, <1>3, <2>1, <2>3, <2>4, Zenon DEF KV!Delete
<1>9. CASE Overwrite(p)
  <2>1. db[p].pc = "found" /\ db[p].op \in {"replace", "store"} /\ TakesEffect(p, db[p].key, db[p].val, "ok")
    BY <1>9, Zenon DEF Overwrite, At
  <2>2. result' = [result EXCEPT ![p] = "ok"] /\ table' = [table EXCEPT ![Pending[p].key] = Pending[p].val]
    BY <1>3, <2>1, Zenon DEF TakesEffect
  <2>3. table[Pending[p].key] # None
    BY <1>3, <2>1, FoundKey, Zenon
  <2>4. Pending[p].op = "replace" \/ Pending[p].op = "store"
    BY <1>3, <2>1, Zenon
  <2> QED
    BY <1>2, <2>2, <2>3, <2>4, Zenon DEF KV!Store
<1>10. CASE Link(p)
  <2>1. db[p].pc = "link" /\ TakesEffect(p, db[p].key, db[p].val, "ok")
    BY <1>10, Zenon DEF Link, At
  <2>2. db[p].op \in {"insert", "replace", "store"}
    BY <2>1, Zenon DEF OpsAt, AppendAt
  <2>3. /\ db[p].op = "insert" => table[db[p].key] = None
        /\ db[p].op = "replace" => table[db[p].key] # None
    BY <2>1, TableParts, Zenon DEF TableFor, AppendAt
  <2>4. result' = [result EXCEPT ![p] = "ok"] /\ table' = [table EXCEPT ![Pending[p].key] = Pending[p].val]
    BY <1>3, <2>1, Zenon DEF TakesEffect
  <2>5. \/ Pending[p].op = "store"
        \/ Pending[p].op = "insert" /\ table[Pending[p].key] = None
        \/ Pending[p].op = "replace" /\ table[Pending[p].key] # None
    BY <1>3, <2>2, <2>3, Zenon
  <2> QED
    BY <1>2, <2>4, <2>5, Zenon DEF KV!Store
<1> QED
  BY <1>5, <1>6, <1>7, <1>8, <1>9, <1>10, Zenon

(* A step of a scanner changes nothing that KVStore has.                   *)
LEMMA ScanRefines ==
  ASSUME Inv, NEW s \in Scanners, ScanStep(s)
  PROVE  UNCHANGED <<table, Pending, result>>
<1>1. Others(s) /\ UNCHANGED <<table, result>>
  BY ScanStepMoves, Zenon DEF Inv
<1>2. \A q \in Procs : db'[q] = db[q]
  BY <1>1, ProcsAssumption, Zenon DEF Others
<1>3. UNCHANGED Pending
  BY <1>2, Zenon DEF Pending, At
<1> QED
  BY <1>1, <1>3, Zenon

(* Every step is a step of KVStore or leaves its variables as they are.    *)
LEMMA NextRefines == Inv /\ [Next]_vars => [KV!Next]_KV!vars
<1> SUFFICES ASSUME Inv, [Next]_vars PROVE [KV!Next]_KV!vars
  OBVIOUS
<1>1. ASSUME NEW p \in Procs, FetchStep(p) \/ DeleteStep(p) \/ StoreStep(p)
      PROVE  KV!Next \/ UNCHANGED <<table, Pending, result>>
  <2>1. CASE Call(p)
    BY <2>1, CallRefines, Zenon DEF KV!Next
  <2>2. CASE NotFound(p) \/ Fetched(p) \/ InsertFails(p) \/ Deleted(p) \/ Overwrite(p) \/ Link(p)
    BY <2>2, EndRefines, Zenon DEF KV!Next
  <2>3. CASE ~(Call(p) \/ NotFound(p) \/ Fetched(p) \/ InsertFails(p) \/ Deleted(p) \/ Overwrite(p) \/ Link(p))
    <3>1. Carries(p)
      BY <1>1, <2>3, StepCarries, ZenonT(30) DEF Inv, FetchStep, DeleteStep, StoreStep
    <3> QED
      BY <3>1, PendingCarries, Zenon
  <2> QED
    BY <2>1, <2>2, <2>3, Zenon
<1>2. CASE UNCHANGED vars
  BY <1>2, Zenon DEF vars, KV!vars, Pending, At
<1>3. CASE Next
  <2>1. CASE \E p \in Procs : FetchStep(p) \/ DeleteStep(p) \/ StoreStep(p)
    BY <1>1, <2>1, Zenon DEF KV!vars
  <2>2. CASE \E s \in Scanners : ScanStep(s)
    BY <2>2, ScanRefines, Zenon DEF KV!vars
  <2> QED
    BY <1>3, <2>1, <2>2, Zenon DEF Next
<1> QED
  BY <1>2, <1>3, Zenon

(* The new database is the empty table.                                    *)
LEMMA InitRefines == Init => KV!Init
BY DEF Init, KV!Init, Pending, At, KV!NoCall

(* What db_nextrec has returned to each scanner.                           *)
SeenType == DOMAIN seen = Scanners /\ seen = [s \in Scanners |-> seen[s]]

(* Only the last step of db_nextrec returns something, and that is the key *)
(* and the data at the remembered places.                                  *)
LEMMA SeenChanges ==
  ASSUME Inv, SeenType, [Next]_vars
  PROVE  /\ SeenType'
         /\ \A s \in Scanners : seen'[s] # seen[s] =>
              At(s, "next_dat") /\ seen'[s] = [key |-> db[s].key, val |-> dat[db[s].datoff].val]
<1>1. ASSUME UNCHANGED seen PROVE SeenType' /\ \A s \in Scanners : seen'[s] = seen[s]
  BY <1>1, Zenon DEF SeenType
<1>2. ASSUME NEW p \in Procs, FetchStep(p) \/ DeleteStep(p) \/ StoreStep(p) PROVE UNCHANGED seen
  <2>1. CASE Call(p) \/ NotFound(p) \/ Fetched(p) \/ InsertFails(p) \/ Deleted(p) \/ Overwrite(p) \/ Link(p)
    BY <2>1, Zenon DEF Call, NotFound, Fetched, InsertFails, Deleted, Overwrite, Link, TakesEffect
  <2>2. CASE ~(Call(p) \/ NotFound(p) \/ Fetched(p) \/ InsertFails(p) \/ Deleted(p) \/ Overwrite(p) \/ Link(p))
    <3>1. Carries(p)
      BY <1>2, <2>2, StepCarries, ZenonT(30) DEF Inv, FetchStep, DeleteStep, StoreStep
    <3> QED
      BY <3>1, Zenon DEF Carries, Answers
  <2> QED
    BY <2>1, <2>2, Zenon
<1>3. ASSUME NEW s \in Scanners, Rewind(s) \/ NextRec(s) \/ NextIdx(s) PROVE UNCHANGED seen
  BY <1>3, Zenon DEF Rewind, NextRec, NextIdx, Answers
<1>4. ASSUME NEW s \in Scanners, NextDat(s)
      PROVE  SeenType' /\ \A t \in Scanners : seen'[t] # seen[t] =>
                At(t, "next_dat") /\ seen'[t] = [key |-> db[t].key, val |-> dat[db[t].datoff].val]
  BY <1>4, Zenon DEF NextDat, SeenType
<1>5. CASE UNCHANGED vars
  BY <1>1, <1>5, Zenon DEF vars
<1>6. CASE Next
  <2>1. CASE \E p \in Procs : FetchStep(p) \/ DeleteStep(p) \/ StoreStep(p)
    BY <1>1, <1>2, <2>1, Zenon
  <2>2. CASE \E s \in Scanners : Rewind(s) \/ NextRec(s) \/ NextIdx(s)
    BY <1>1, <1>3, <2>2, Zenon
  <2>3. CASE \E s \in Scanners : NextDat(s)
    BY <1>4, <2>3, Zenon
  <2> QED
    BY <1>6, <2>1, <2>2, <2>3, Zenon DEF Next, ScanStep
<1> QED
  BY <1>5, <1>6, Zenon

(* The data at the place a scanner has read from the record is the data of *)
(* the key in the table, or what a db_store of that key is about to enter. *)
LEMMA SeenSound ==
  ASSUME Inv, NEW s \in Scanners, At(s, "next_dat")
  PROVE  \/ dat[db[s].datoff].val = table[db[s].key]
         \/ \E p \in Procs : Storing(p) /\ db[p].key = db[s].key /\ db[p].val = dat[db[s].datoff].val
<1> USE DEF Inv
<1>1. PICK o \in Records : idx[o].key = db[s].key /\ db[s].key # Blank /\ idx[o].datoff = db[s].datoff
  BY Zenon DEF ScansOK
<1>2. CASE o \in Live
  <2>1. Tabled(o)
    BY <1>2, TableParts, Zenon
  <2>2. \A p \in Procs : db[p].pc # "del_idx"
    BY ScanApart, Zenon DEF At, FreeAt, DeleteAt
  <2> QED
    BY <1>1, <2>1, <2>2, Zenon DEF Tabled
<1>3. CASE o \in Taken
  <2>1. PICK p \in Procs : db[p].pc \in TakenAt /\ db[p].idxoff = o
    BY <1>3, Zenon DEF Taken
  <2>2. HandleOK(p) /\ OpsAt(p)
    BY <2>1, Zenon
  <2>3. db[p].pc = "link"
    BY <1>1, <2>1, <2>2, ZenonT(30) DEF HandleOK, TakenAt
  <2>4. /\ idx[o].key = db[p].key /\ idx[o].datoff = db[p].datoff /\ dat[db[p].datoff].val = db[p].val
    BY <2>1, <2>2, <2>3, ZenonT(30) DEF HandleOK, Read
  <2>5. Storing(p)
    BY <2>2, <2>3, Zenon DEF Storing, OpsAt, AppendAt, At
  <2> QED
    BY <1>1, <2>4, <2>5, ZenonT(30)
<1> QED
  BY <1>1, <1>2, <1>3, Zenon DEF Live
=============================================================================
