--------------------------- MODULE HashDbProof ---------------------------
(***************************************************************************)
(* Proofs about HashDb: every step keeps the lists whole, and so Inv is an *)
(* invariant for any number of processes, scanners, keys and records. The  *)
(* theorems about the database follow.                                     *)
(***************************************************************************)
EXTENDS HashDbTable

-----------------------------------------------------------------------------
(* The lists.                                                              *)

(* The lists stay when no ptr is written and no call begins or ends to     *)
(* unlink.                                                                 *)
LEMMA ListsQuiet ==
  ASSUME ListsOK, RecordsStay, UNCHANGED ptr,
         \A q \in Procs : \/ db'[q] = db[q] /\ (db[q].pc \in DeleteAt => Chain(q) \in Chains)
                          \/ ~Unlinking(q) /\ ~Unlinking(q)'
  PROVE  ListsOK'
<1>1. \A q \in Procs : Unlinking(q)' <=> Unlinking(q)
  BY Zenon DEF Unlinking
<1>2. \A q \in Procs : Unlinking(q) => db'[q] = db[q] /\ Chain(q)' = Chain(q) /\ Chain(q) \in Chains
  BY Zenon DEF Chain, Unlinking, DeleteAt
<1>3. \A q \in Procs : At(q, "del_free")' <=> At(q, "del_free")
  BY <1>1, <1>2, Zenon DEF Unlinking, At
<1>4. ASSUME NEW c \in Chains, \A q \in Procs : Unlinking(q)' => Chain(q)' # c
      PROVE  IsList(ptr', c, LiveOn(c)')
  <2>1. \A q \in Procs : Unlinking(q) => Chain(q) # c
    BY <1>1, <1>2, <1>4, Zenon
  <2>2. LiveOn(c)' = LiveOn(c)
    BY Zenon DEF RecordsStay
  <2> QED
    BY <2>1, <2>2, Zenon DEF ListsOK
<1>5. ASSUME NEW q \in Procs, Unlinking(q)'
      PROVE  /\ db'[q].ptroff \in LiveOn(Chain(q))' \cup {Chain(q)'}
             /\ IsList([ptr' EXCEPT ![db'[q].ptroff] = db'[q].saveptr], Chain(q)', LiveOn(Chain(q))')
  <2>1. Unlinking(q) /\ db'[q] = db[q]
    BY <1>1, <1>2, <1>5, Zenon
  <2>2. PICK c \in Chains : c = Chain(q) /\ c = Chain(q)'
    BY <1>2, <2>1, Zenon
  <2>3. LiveOn(Chain(q))' = LiveOn(c)
    BY <2>2, Zenon DEF RecordsStay
  <2> QED
    BY <2>1, <2>2, <2>3, Zenon DEF ListsOK
<1>6. (\A q \in Procs : ~At(q, "del_free")') => IsList(ptr', FREE, Freed')
  BY <1>3, Zenon DEF ListsOK, RecordsStay
<1>7. ASSUME NEW q \in Procs, At(q, "del_free")'
      PROVE  IsList([ptr' EXCEPT ![FREE] = db'[q].idxoff], FREE, Freed')
  <2>1. At(q, "del_free") /\ db'[q] = db[q]
    BY <1>2, <1>3, <1>7, Zenon DEF Unlinking, At
  <2> QED
    BY <2>1, Zenon DEF ListsOK, RecordsStay
<1> QED
  BY <1>4, <1>5, <1>6, <1>7, Zenon DEF ListsOK

(* A writing step: the other chains follow from the frame.                 *)
LEMMA ListsWrite ==
  ASSUME HandleTypes, FileTypes, FileTypes', LocksHeld, Exclusive, ListsOK, \A q \in Procs : OpsAt(q) /\ HandleOK(q),
         NEW p \in Procs, Others(p), Writing(p), Frame(p), NEW c \in Chains, c = Chain(p),
         ~Unlinking(p)' => IsList(ptr', c, LiveOn(c)'),
         Unlinking(p)' => /\ Chain(p)' = c /\ db'[p].ptroff \in LiveOn(c)' \cup {c}
                          /\ IsList([ptr' EXCEPT ![db'[p].ptroff] = db'[p].saveptr], c, LiveOn(c)'),
         db[p].pc \notin FreeAt => db'[p].pc # "del_free",
         db[p].pc \in FreeAt => /\ ~At(p, "del_free")' => IsList(ptr', FREE, Freed')
                                /\ At(p, "del_free")' => IsList([ptr' EXCEPT ![FREE] = db'[p].idxoff], FREE, Freed')
  PROVE  ListsOK'
<1>1. \A q \in Procs : q # p => db'[q] = db[q]
  BY Zenon DEF Others
<1>2. \A q \in Procs : q # p => (Unlinking(q)' <=> Unlinking(q)) /\ (At(q, "del_free")' <=> At(q, "del_free")) /\ Chain(q)' = Chain(q)
  BY <1>1, Zenon DEF Unlinking, At, Chain
<1>3. ASSUME NEW q \in Procs, q # p, Unlinking(q) PROVE Chain(q) # c /\ Chain(q) \in Chains
  <2>1. db[p].pc # "idle" /\ db[q].op # "fetch" /\ db[q].pc # "idle" /\ HandleOK(q)
    BY <1>3, WritingLocked, Zenon DEF OpsAt, Unlinking, DeleteAt
  <2> QED
    BY <1>3, <2>1, Apart, HandleFacts, Zenon
<1>4. ASSUME NEW d \in Chains, \A q \in Procs : Unlinking(q)' => Chain(q)' # d
      PROVE  IsList(ptr', d, LiveOn(d)')
  <2>1. CASE d = c
    <3>1. ~Unlinking(p)'
      BY <1>4, <2>1, Zenon
    <3> QED
      BY <2>1, <3>1, Zenon
  <2>2. CASE d # c
    <3>1. \A q \in Procs : Unlinking(q) => Chain(q) # d
      BY <1>2, <1>4, <2>2, Zenon
    <3>2. IsList(ptr, d, LiveOn(d)) /\ ChainStays(d)
      BY <2>2, <3>1, Zenon DEF ListsOK, Frame
    <3> QED
      BY <3>2, ListSame, ZenonT(30) DEF ChainStays
  <2> QED
    BY <2>1, <2>2, Zenon
<1>5. ASSUME NEW q \in Procs, Unlinking(q)'
      PROVE  /\ db'[q].ptroff \in LiveOn(Chain(q))' \cup {Chain(q)'}
             /\ IsList([ptr' EXCEPT ![db'[q].ptroff] = db'[q].saveptr], Chain(q)', LiveOn(Chain(q))')
  <2>1. CASE q = p
    <3>1. Chain(q)' = c /\ LiveOn(Chain(q))' = LiveOn(c)'
      BY <1>5, <2>1, Zenon
    <3> QED
      BY <1>5, <2>1, <3>1, Zenon
  <2>2. CASE q # p
    <3>1. Unlinking(q) /\ db'[q] = db[q]
      BY <1>1, <1>2, <1>5, <2>2, Zenon
    <3>2. PICK d \in Chains : d = Chain(q) /\ d = Chain(q)' /\ d # c
      BY <1>2, <1>3, <2>2, <3>1, Zenon
    <3>3. ChainStays(d)
      BY <3>2, Zenon DEF Frame
    <3> DEFINE x == db[q].ptroff  f == [ptr EXCEPT ![x] = db[q].saveptr]  g == [ptr' EXCEPT ![x] = db[q].saveptr]
    <3>4. x \in LiveOn(d) \cup {d} /\ IsList(f, d, LiveOn(d))
      BY <3>1, <3>2, Zenon DEF ListsOK
    <3>5. \A u \in LiveOn(d) \cup {d} : u \in DOMAIN ptr /\ u \in DOMAIN ptr'
      <4>1. Records \subseteq Records'
        BY Zenon DEF Frame
      <4> QED
        BY <4>1, Zenon DEF FileTypes, LiveOn, Live, Places
    <3>6. \A u \in LiveOn(d) \cup {d} : g[u] = f[u]
      BY <3>3, <3>5, Zenon DEF ChainStays
    <3> HIDE DEF f, g
    <3>7. IsList(g, d, LiveOn(d))
      BY <3>4, <3>6, ListSame, Zenon
    <3>8. LiveOn(Chain(q))' = LiveOn(d)
      BY <3>2, <3>3, Zenon DEF ChainStays
    <3> QED
      BY <3>1, <3>2, <3>4, <3>7, <3>8, Zenon DEF g
  <2> QED
    BY <2>1, <2>2, Zenon
<1>6. ASSUME db[p].pc \in FreeAt, NEW q \in Procs, q # p PROVE ~At(q, "del_free")
  BY <1>6, Apart, Zenon DEF At, FreeAt, DeleteAt
<1>7. ASSUME \A q \in Procs : ~At(q, "del_free")' PROVE IsList(ptr', FREE, Freed')
  <2>1. CASE db[p].pc \in FreeAt
    BY <1>7, <2>1, Zenon
  <2>2. CASE db[p].pc \notin FreeAt
    <3>1. \A q \in Procs : ~At(q, "del_free")
      BY <1>2, <1>7, <2>2, Zenon DEF At, FreeAt, DeleteAt
    <3>2. IsList(ptr, FREE, Freed) /\ FreeStays
      BY <2>2, <3>1, Zenon DEF ListsOK, Frame
    <3> QED
      BY <3>2, ListSame, Zenon DEF FreeStays
  <2> QED
    BY <2>1, <2>2, Zenon
<1>8. ASSUME NEW q \in Procs, At(q, "del_free")'
      PROVE  IsList([ptr' EXCEPT ![FREE] = db'[q].idxoff], FREE, Freed')
  <2>1. CASE q = p
    <3>1. db[p].pc \in FreeAt
      BY <1>8, <2>1, Zenon DEF At
    <3> QED
      BY <1>8, <2>1, <3>1, Zenon
  <2>2. CASE q # p
    <3>1. At(q, "del_free") /\ db'[q] = db[q]
      BY <1>1, <1>2, <1>8, <2>2, Zenon
    <3>2. FreeStays
      BY <1>6, <2>2, <3>1, Zenon DEF Frame
    <3> DEFINE f == [ptr EXCEPT ![FREE] = db[q].idxoff]  g == [ptr' EXCEPT ![FREE] = db[q].idxoff]
    <3>3. IsList(f, FREE, Freed)
      BY <3>1, Zenon DEF ListsOK
    <3>4. \A u \in Freed \cup {FREE} : u \in DOMAIN ptr /\ u \in DOMAIN ptr'
      <4>1. Records \subseteq Records'
        BY Zenon DEF Frame
      <4> QED
        BY <4>1, Zenon DEF FileTypes, Freed, Places
    <3>5. \A u \in Freed \cup {FREE} : g[u] = f[u]
      BY <3>2, <3>4, Zenon DEF FreeStays
    <3> HIDE DEF f, g
    <3>6. IsList(g, FREE, Freed)
      BY <3>3, <3>5, ListSame, Zenon
    <3> QED
      BY <3>1, <3>2, <3>6, Zenon DEF g, FreeStays
  <2> QED
    BY <2>1, <2>2, Zenon
<1> QED
  BY <1>4, <1>5, <1>7, <1>8, Zenon DEF ListsOK

(* After the second write of _db_dodelete the chain is whole but for the   *)
(* ptr that is still to be written, and so is the free list.               *)
LEMMA ListsDelete ==
  ASSUME HandleTypes, FileTypes, LocksHeld, Exclusive, ListsOK, RecordsOK, \A q \in Procs : OpsAt(q) /\ HandleOK(q),
         NEW p \in Procs, DeleteIdx(p)
  PROVE  ListsOK'
<1> DEFINE o == db[p].idxoff  x == db[p].ptroff  f == [ptr' EXCEPT ![x] = ptr[o]]  g == [ptr' EXCEPT ![FREE] = o]
<1>1. /\ FileTypes' /\ Records' = Records /\ o \in LiveOn(Chain(p)) /\ PtrSet(o, ptr[FREE])
      /\ Freed' = Freed \cup {o} /\ \A c \in Chains : LiveOn(c)' = LiveOn(c) \ {o}
  BY DeleteIdxEffect, Zenon
<1>2. /\ Others(p) /\ KeepsCall(p) /\ db[p].pc = "del_idx" /\ db'[p].pc = "del_free"
      /\ db'[p].ptroff = x /\ db'[p].idxoff = o /\ db'[p].saveptr = db[p].ptrval
  BY DeleteIdxMoves, Zenon
<1>3. PICK c \in Chains : c = Chain(p) /\ Chain(p)' = c
  BY <1>2, HandleFacts, Zenon DEF KeepsCall, Chain
<1>4. OnChain(p) /\ db[p].ptrval = ptr[o]
  BY <1>2, Zenon DEF HandleOK
<1>5. x \in LiveOn(c) \cup {c} /\ ptr[x] = o
  BY <1>3, <1>4, Zenon DEF OnChain
<1>6. IsList(ptr, c, LiveOn(c))
  BY <1>2, <1>3, WholeChain, Zenon DEF Unlinking
<1>7. /\ c \notin LiveOn(c) /\ 0 \notin LiveOn(c) /\ LiveOn(c) \subseteq Records /\ c \in Places
      /\ FREE \in Places /\ FREE \notin Records /\ 0 \notin Records
  BY FileFacts, Zenon DEF LiveOn, Live, Places, Locks
<1>8. o \in LiveOn(c) /\ o \notin Freed /\ o \in Records
  BY <1>1, <1>3, Disjoint, Zenon DEF LiveOn
<1> HIDE DEF o, x
<1>9. x # o
  BY <1>5, <1>6, <1>7, <1>8, ListNoLoop, Zenon
<1>10. DOMAIN ptr' = Places \cup Records
  BY <1>1, Zenon DEF FileTypes
<1>11. f[x] = ptr[o] /\ \A u \in (LiveOn(c) \cup {c}) \ {x, o} : f[u] = ptr[u]
  BY <1>1, <1>5, <1>7, <1>10, Zenon DEF PtrSet
<1> HIDE DEF f
<1>12. IsList(f, c, LiveOn(c) \ {o})
  BY <1>5, <1>6, <1>7, <1>8, <1>11, ListBypass, Zenon
<1>13. IsList(ptr, FREE, Freed)
  BY <1>2, WholeFree, Zenon DEF FreeAt, DeleteAt
<1>14. Freed \subseteq Records /\ FREE \notin Freed /\ 0 \notin Freed
  BY <1>7, Zenon DEF Freed
<1>15. g[FREE] = o /\ g[o] = ptr[FREE] /\ \A u \in Freed : g[u] = ptr[u]
  BY <1>1, <1>7, <1>8, <1>10, <1>14, Zenon DEF PtrSet
<1> HIDE DEF g
<1>16. IsList(g, FREE, Freed \cup {o})
  BY <1>7, <1>8, <1>13, <1>14, <1>15, ListPush, SMTT(20)
<1>17. Writing(p) /\ Frame(p)
  BY Frames, Zenon DEF Writing
<1>18. /\ db[p].pc \in FreeAt /\ Unlinking(p)' /\ At(p, "del_free")'
       /\ db'[p].ptroff \in LiveOn(c)' \cup {c}
  BY <1>1, <1>2, <1>5, <1>9, Zenon DEF FreeAt, DeleteAt, Unlinking, At
<1>19. /\ IsList([ptr' EXCEPT ![db'[p].ptroff] = db'[p].saveptr], c, LiveOn(c)')
       /\ IsList([ptr' EXCEPT ![FREE] = db'[p].idxoff], FREE, Freed')
  BY <1>1, <1>2, <1>4, <1>12, <1>16, ZenonT(30) DEF f, g
<1> QED
  BY <1>1, <1>2, <1>3, <1>17, <1>18, <1>19, ListsWrite, Zenon

(* The two ptrs that _db_dodelete then writes make both lists whole again. *)
LEMMA ListsUnlink ==
  ASSUME HandleTypes, FileTypes, LocksHeld, Exclusive, ListsOK, RecordsOK, \A q \in Procs : OpsAt(q) /\ HandleOK(q),
         NEW p \in Procs, DeleteFree(p) \/ DeleteChain(p)
  PROVE  ListsOK'
<1> DEFINE x == db[p].ptroff  v == db[p].saveptr  o == db[p].idxoff
<1>1. db[p].pc \in {"del_free", "del_chain"} /\ KeepsCall(p) /\ KeepsRest(p) /\ Others(p)
  BY Advance, Zenon DEF Advances
<1>2. FileTypes' /\ RecordsStay
  BY DeleteFreeEffect, DeleteChainEffect, Zenon
<1>3. PICK c \in Chains : c = Chain(p) /\ Chain(p)' = c
  BY <1>1, HandleFacts, Zenon DEF KeepsCall, Chain
<1> DEFINE f == [ptr EXCEPT ![x] = v]  g == [ptr' EXCEPT ![x] = v]  h == [ptr EXCEPT ![FREE] = o]
<1>4. x \in LiveOn(c) \cup {c} /\ IsList(f, c, LiveOn(c))
  BY <1>1, <1>3, Zenon DEF ListsOK, Unlinking
<1>5. Records' = Records /\ LiveOn(c)' = LiveOn(c) /\ Freed' = Freed
  BY <1>2, Zenon DEF RecordsStay
<1>6. /\ LiveOn(c) \subseteq Records /\ c \in Places /\ Freed \subseteq Records
      /\ FREE \in Places /\ FREE \notin Records /\ FREE # c /\ LiveOn(c) \cap Freed = {} /\ c \notin Freed
  BY FileFacts, PlacesAssumption, Disjoint, Zenon DEF LiveOn, Live, Places, Locks
<1>7. DOMAIN ptr' = Places \cup Records /\ DOMAIN ptr = Places \cup Records
  BY <1>2, <1>5, Zenon DEF FileTypes
<1>8. Writing(p) /\ Frame(p)
  BY Frames, Zenon DEF Writing
<1>9. db'[p].ptroff = x /\ db'[p].saveptr = v /\ db'[p].idxoff = o
  BY <1>1, Zenon DEF KeepsRest
<1>f. db[p].pc \in FreeAt
  BY <1>1, Zenon DEF FreeAt, DeleteAt
<1> HIDE DEF x, v, o
<1>10. ASSUME DeleteFree(p) PROVE ListsOK'
  <2>1. PtrSet(FREE, o) /\ db[p].pc = "del_free" /\ db'[p].pc = "del_chain"
    BY <1>10, DeleteFreeEffect, Zenon DEF Advances, o
  <2>2. \A u \in LiveOn(c) \cup {c} : g[u] = f[u]
    BY <1>4, <1>6, <1>7, <2>1, Zenon DEF PtrSet
  <2>3. \A u \in Freed \cup {FREE} : ptr'[u] = h[u]
    BY <1>6, <1>7, <2>1, Zenon DEF PtrSet
  <2>4. IsList(h, FREE, Freed)
    BY <2>1, Zenon DEF ListsOK, At, o
  <2> HIDE DEF f, g, h
  <2>5. IsList(g, c, LiveOn(c)) /\ IsList(ptr', FREE, Freed)
    BY <1>4, <2>2, <2>3, <2>4, ListSame, Zenon
  <2>6. Unlinking(p)' /\ ~At(p, "del_free")' /\ db'[p].ptroff \in LiveOn(c)' \cup {c}
    BY <1>4, <1>5, <1>9, <2>1, Zenon DEF Unlinking, At
  <2>7. IsList([ptr' EXCEPT ![db'[p].ptroff] = db'[p].saveptr], c, LiveOn(c)') /\ IsList(ptr', FREE, Freed')
    BY <1>5, <1>9, <2>5, Zenon DEF g
  <2> QED
    BY <1>1, <1>2, <1>3, <1>8, <1>f, <2>6, <2>7, ListsWrite, Zenon
<1>11. ASSUME DeleteChain(p) PROVE ListsOK'
  <2>1. PtrSet(x, v) /\ db[p].pc = "del_chain" /\ db'[p].pc = "deleted"
    BY <1>11, DeleteChainEffect, Zenon DEF Advances, x, v
  <2>2. \A u \in LiveOn(c) \cup {c} : ptr'[u] = f[u]
    BY <1>4, <1>6, <1>7, <2>1, Zenon DEF PtrSet
  <2>3. \A u \in Freed \cup {FREE} : ptr'[u] = ptr[u]
    BY <1>4, <1>6, <2>1, Zenon DEF PtrSet
  <2>4. IsList(ptr, FREE, Freed)
    BY <2>1, <1>f, WholeFree, Zenon
  <2> HIDE DEF f
  <2>5. IsList(ptr', c, LiveOn(c)) /\ IsList(ptr', FREE, Freed)
    BY <1>4, <2>2, <2>3, <2>4, ListSame, Zenon
  <2>6. ~Unlinking(p)' /\ ~At(p, "del_free")'
    BY <2>1, Zenon DEF Unlinking, At
  <2> QED
    BY <1>1, <1>2, <1>3, <1>5, <1>8, <1>f, <2>5, <2>6, ListsWrite, Zenon
<1> QED
  BY <1>10, <1>11, Zenon

(* The free list without the record that was taken off it.                 *)
LEMMA ListsTake ==
  ASSUME HandleTypes, FileTypes, LocksHeld, Exclusive, ListsOK, RecordsOK, \A q \in Procs : OpsAt(q) /\ HandleOK(q),
         NEW p \in Procs, TakeFree(p)
  PROVE  ListsOK'
<1> DEFINE o == db[p].idxoff  x == db[p].ptroff
<1>1. /\ FileTypes' /\ Records' = Records /\ PtrSet(x, db[p].ptrval) /\ Freed' = Freed \ {o}
      /\ \A c \in Chains : LiveOn(c)' = LiveOn(c)
  BY TakeFreeEffect, Zenon
<1>2. db[p].pc = "take" /\ db'[p].pc = "reuse_dat" /\ KeepsCall(p) /\ Others(p)
  BY Advance, Zenon DEF Advances
<1>3. PICK c \in Chains : c = Chain(p)
  BY <1>2, HandleFacts, Zenon
<1>4. x \in Freed \cup {FREE} /\ ptr[x] = o /\ o \in Freed /\ db[p].ptrval = ptr[o]
  BY <1>2, Zenon DEF HandleOK, At
<1>5. /\ LiveOn(c) \subseteq Records /\ c \in Places /\ Freed \subseteq Records
      /\ FREE \in Places /\ FREE \notin Records /\ FREE # c /\ LiveOn(c) \cap Freed = {} /\ c \notin Freed
      /\ FREE \notin Freed /\ 0 \notin Freed
  BY FileFacts, PlacesAssumption, Disjoint, Zenon DEF LiveOn, Live, Places, Locks
<1>6. IsList(ptr, c, LiveOn(c))
  BY <1>2, <1>3, WholeChain, Zenon DEF Unlinking
<1>7. IsList(ptr, FREE, Freed)
  BY <1>2, WholeFree, Zenon DEF FreeAt
<1> HIDE DEF o, x
<1>8. \A u \in LiveOn(c) \cup {c} : ptr'[u] = ptr[u]
  BY <1>1, <1>4, <1>5, Zenon DEF PtrSet
<1>9. ptr'[x] = ptr[o] /\ \A u \in (Freed \cup {FREE}) \ {x, o} : ptr'[u] = ptr[u]
  BY <1>1, <1>4, <1>5, Zenon DEF PtrSet
<1>10. IsList(ptr', FREE, Freed \ {o})
  BY <1>4, <1>5, <1>7, <1>9, ListBypass, Zenon
<1>11. IsList(ptr', c, LiveOn(c))
  BY <1>6, <1>8, ListSame, Zenon
<1>12. Writing(p) /\ Frame(p)
  BY Frames, Zenon DEF Writing
<1>13. ~Unlinking(p)' /\ ~At(p, "del_free")' /\ LiveOn(c)' = LiveOn(c) /\ db[p].pc \in FreeAt
  BY <1>1, <1>2, Zenon DEF Unlinking, At, FreeAt
<1> QED
  BY <1>1, <1>2, <1>3, <1>10, <1>11, <1>12, <1>13, ListsWrite, Zenon

(* The chain of p and the free list are not touched.                       *)
LEMMA ListsAlone ==
  ASSUME HandleTypes, FileTypes, LocksHeld, Exclusive, ListsOK, RecordsOK, \A q \in Procs : OpsAt(q) /\ HandleOK(q),
         NEW p \in Procs, DeleteDat(p) \/ Overwrite(p) \/ ReuseDat(p) \/ AppendDat(p) \/ ReuseIdx(p) \/ AppendIdx(p)
  PROVE  ListsOK'
<1>1. /\ Others(p) /\ db[p].pc \in {"del_dat", "found", "reuse_dat", "append_dat", "reuse_idx", "append_idx"}
      /\ db'[p].pc \in {"del_idx", "idle", "reuse_idx", "end_idx", "link"}
      /\ db[p].pc \in FreeAt => DeleteDat(p)
  BY Advance, End, Zenon DEF Advances, Ends, FreeAt, DeleteAt
<1>2. PICK c \in Chains : c = Chain(p)
  BY <1>1, HandleFacts, Zenon
<1>3. c \in Places /\ c \notin Records /\ LiveOn(c) \subseteq Records
  BY FileFacts, Zenon DEF Places, Locks, LiveOn, Live
<1>4. /\ FileTypes' /\ LiveOn(c)' = LiveOn(c) /\ Freed' = Freed
      /\ \A u \in LiveOn(c) \cup {c} : ptr'[u] = ptr[u]
      /\ DeleteDat(p) => UNCHANGED ptr
  <2>1. CASE DeleteDat(p) \/ Overwrite(p) \/ ReuseDat(p) \/ AppendDat(p)
    <3>1. FileTypes' /\ RecordsStay /\ UNCHANGED ptr
      BY <2>1, DeleteDatEffect, OverwriteEffect, ReuseDatEffect, AppendDatEffect, Zenon
    <3> QED
      BY <3>1, Zenon DEF RecordsStay
  <2>2. CASE ReuseIdx(p)
    <3>1. FileTypes' /\ RecordsStay /\ PtrSet(db[p].idxoff, db[p].saveptr) /\ db[p].pc \in TakenAt /\ db'[p].pc = "link"
      BY <2>2, ReuseIdxEffect, Zenon DEF Advances, TakenAt
    <3>2. db[p].idxoff \in Taken /\ db[p].idxoff \in Records
      BY <3>1, Disjoint, HandleFacts, Zenon DEF TakenAt
    <3>3. db[p].idxoff \notin LiveOn(c) /\ db[p].idxoff # c
      BY <1>3, <3>2, Zenon DEF LiveOn, Live
    <3>4. ~DeleteDat(p)
      BY <3>1, Zenon DEF TakenAt, DeleteDat, At
    <3> QED
      BY <1>3, <3>1, <3>3, <3>4, Zenon DEF RecordsStay, PtrSet
  <2>3. CASE AppendIdx(p)
    <3>1. /\ FileTypes' /\ Freed' = Freed /\ LiveOn(c)' = LiveOn(c) /\ db[p].pc = "append_idx"
          /\ \A x \in Places \cup Records : ptr'[x] = ptr[x]
      BY <2>3, AppendIdxEffect, Zenon DEF Advances
    <3>2. ~DeleteDat(p)
      BY <3>1, Zenon DEF DeleteDat, At
    <3> QED
      BY <1>3, <3>1, <3>2, Zenon
  <2> QED
    BY <2>1, <2>2, <2>3, Zenon
<1>5. IsList(ptr, c, LiveOn(c))
  BY <1>1, <1>2, WholeChain, Zenon DEF Unlinking
<1>6. IsList(ptr', c, LiveOn(c))
  BY <1>4, <1>5, ListSame, Zenon
<1>7. Writing(p) /\ Frame(p)
  BY Frames, Zenon DEF Writing
<1>8. ~Unlinking(p)' /\ ~At(p, "del_free")' /\ db'[p].pc # "del_free"
  BY <1>1, Zenon DEF Unlinking, At
<1>9. ASSUME db[p].pc \in FreeAt PROVE IsList(ptr', FREE, Freed')
  <2>1. IsList(ptr, FREE, Freed)
    BY <1>1, <1>9, WholeFree, Zenon
  <2> QED
    BY <1>1, <1>4, <1>9, <2>1, Zenon
<1> QED
  BY <1>1, <1>2, <1>4, <1>6, <1>7, <1>8, <1>9, ListsWrite, Zenon

(* The chain with the new record at its front.                             *)
LEMMA ListsLink ==
  ASSUME HandleTypes, FileTypes, LocksHeld, Exclusive, ListsOK, RecordsOK, \A q \in Procs : OpsAt(q) /\ HandleOK(q),
         NEW p \in Procs, Link(p)
  PROVE  ListsOK'
<1> DEFINE o == db[p].idxoff
<1>1. /\ FileTypes' /\ Records' = Records /\ PtrSet(Chain(p), o) /\ db[p].pc = "link" /\ db'[p].pc = "idle" /\ Others(p)
      /\ o \in Taken /\ \A c \in Chains : LiveOn(c)' = LiveOn(c) \cup (IF c = Chain(p) THEN {o} ELSE {})
  BY LinkEffect, Zenon DEF Ends
<1>2. PICK c \in Chains : c = Chain(p)
  BY <1>1, HandleFacts, Zenon
<1>3. c \in Places /\ c \notin Records /\ LiveOn(c) \subseteq Records /\ 0 \notin Records
  BY FileFacts, Zenon DEF Places, Locks, LiveOn, Live
<1>4. o \in Records /\ ptr[o] = db[p].saveptr /\ db[p].saveptr = ptr[c]
  BY <1>1, <1>2, Zenon DEF HandleOK, Read, AppendAt
<1>5. o \notin LiveOn(c)
  BY <1>1, Zenon DEF LiveOn, Live
<1>6. IsList(ptr, c, LiveOn(c))
  BY <1>1, <1>2, WholeChain, Zenon DEF Unlinking
<1>7. LiveOn(c)' = LiveOn(c) \cup {o}
  BY <1>1, <1>2, Zenon
<1> HIDE DEF o
<1>8. ptr'[c] = o /\ ptr'[o] = ptr[c] /\ \A u \in LiveOn(c) : ptr'[u] = ptr[u]
  BY <1>1, <1>2, <1>3, <1>4, Zenon DEF PtrSet
<1>9. IsList(ptr', c, LiveOn(c) \cup {o})
  BY <1>3, <1>4, <1>5, <1>6, <1>8, ListPush, Zenon
<1>10. Writing(p) /\ Frame(p)
  BY Frames, Zenon DEF Writing
<1>11. ~Unlinking(p)' /\ db'[p].pc # "del_free" /\ db[p].pc \notin FreeAt
  BY <1>1, Zenon DEF Unlinking, FreeAt, DeleteAt
<1> QED
  BY <1>1, <1>2, <1>7, <1>9, <1>10, <1>11, ListsWrite, Zenon

(* The lists after a step of a process.                                    *)
LEMMA StepLists ==
  ASSUME HandleTypes, FileTypes, LocksHeld, Exclusive, ListsOK, RecordsOK, \A q \in Procs : OpsAt(q) /\ HandleOK(q),
         NEW p \in Procs, FetchStep(p) \/ DeleteStep(p) \/ StoreStep(p)
  PROVE  ListsOK' /\ FileTypes'
<1>1. CASE Quiet(p)
  <2>1. Others(p) /\ HandleOK(p)
    BY ProcLocks, Zenon
  <2>2. RecordsStay /\ UNCHANGED ptr /\ FileTypes'
    BY <1>1, <2>1, QuietEffect, Zenon
  <2>3. ~Unlinking(p) /\ ~Unlinking(p)'
    <3>1. db[p].pc \notin {"del_free", "del_chain"}
      BY <1>1, Zenon DEF Quiet, Call, Find, NotFound, Missing, Fetched, InsertFails, DeleteStart, Deleted, FindFree, WalkFree, EndDat, EndIdx, At
    <3>2. db'[p].pc \notin {"del_free", "del_chain"}
      BY <1>1, <2>1, CallMoves, FindMoves, End, Advance, FindFreeMoves, WalkFreeMoves, EndDatMoves, EndIdxMoves, ZenonT(30) DEF Quiet, Ends, Advances
    <3> QED
      BY <3>1, <3>2, Zenon DEF Unlinking
  <2>4. ASSUME NEW q \in Procs, q # p PROVE db'[q] = db[q] /\ (db[q].pc \in DeleteAt => Chain(q) \in Chains)
    BY <2>1, <2>4, HandleFacts, Zenon DEF Others, DeleteAt
  <2> QED
    BY <2>2, <2>3, <2>4, ListsQuiet, Zenon
<1>2. CASE DeleteIdx(p)
  BY <1>2, ListsDelete, DeleteIdxEffect, Zenon
<1>3. CASE DeleteFree(p) \/ DeleteChain(p)
  BY <1>3, ListsUnlink, DeleteFreeEffect, DeleteChainEffect, Zenon
<1>4. CASE TakeFree(p)
  BY <1>4, ListsTake, TakeFreeEffect, Zenon
<1>5. CASE Link(p)
  BY <1>5, ListsLink, LinkEffect, Zenon
<1>6. CASE DeleteDat(p) \/ Overwrite(p) \/ ReuseDat(p) \/ AppendDat(p) \/ ReuseIdx(p) \/ AppendIdx(p)
  BY <1>6, ListsAlone, DeleteDatEffect, OverwriteEffect, ReuseDatEffect, AppendDatEffect, ReuseIdxEffect, AppendIdxEffect, Zenon
<1> QED
  BY <1>1, <1>2, <1>3, <1>4, <1>5, <1>6, Zenon DEF FetchStep, DeleteStep, StoreStep, Quiet

-----------------------------------------------------------------------------
(* The inductive invariant.                                                *)

(* The new database satisfies the invariant.                               *)
LEMMA InitInv == Init => Inv
<1> SUFFICES ASSUME Init PROVE Inv
  OBVIOUS
<1>1. /\ Records = {} /\ idx = <<>> /\ dat = <<>> /\ ptr = [x \in Places |-> 0]
  BY DEF Init, Records, Places
<1>2. /\ \A p \in Procs \cup Scanners : db[p] = [pc |-> "idle"] /\ db[p].pc = "idle"
      /\ DOMAIN db = Procs \cup Scanners
  BY Zenon DEF Init
<1>3. HandleTypes
  BY <1>2 DEF HandleTypes, Idle
<1>4. FileTypes
  BY <1>1 DEF FileTypes
<1>5. LocksHeld /\ Exclusive
  <2>1. \A p \in Procs, x \in Locks : ~Writes(p, x) /\ ~Reads(p, x)
    BY <1>2, Zenon DEF Writes, Reads, At, FreeAt, DeleteAt
  <2>2. \A s \in Scanners, x \in Locks : ~Scans(s, x)
    BY <1>2, Zenon DEF Scans
  <2>3. writer = [x \in Locks |-> {}] /\ readers = [x \in Locks |-> {}]
    BY Zenon DEF Init
  <2>4. \A x \in Locks : {p \in Procs : Writes(p, x)} = {} /\ {p \in Procs : Reads(p, x)} \cup {s \in Scanners : Scans(s, x)} = {}
    BY <2>1, <2>2, Zenon
  <2> QED
    BY <2>3, <2>4, Zenon DEF LocksHeld, Exclusive
<1>6. Live = {} /\ Freed = {} /\ \A c : LiveOn(c) = {}
  BY <1>1, Zenon DEF Live, Freed, LiveOn
<1>7. ListsOK
  <2>1. \A x \in Places : IsList(ptr, x, {})
    BY <1>1, Zenon DEF IsList, Leads, Closed
  <2>2. \A p \in Procs : ~Unlinking(p) /\ ~At(p, "del_free")
    BY <1>2, Zenon DEF Unlinking, At
  <2> QED
    BY <1>6, <2>1, <2>2, Zenon DEF ListsOK, Places
<1>8. RecordsOK
  <2>1. \A p \in Procs : db[p].pc \notin TakenAt /\ ~NewData(p) /\ ~At(p, "append_dat") /\ ~At(p, "append_idx")
    BY <1>2, Zenon DEF TakenAt, NewData, At
  <2> QED
    BY <1>1, <1>6, <2>1, Zenon DEF RecordsOK
<1>9. TableOK
  <2>1. \A p \in Procs : db[p].pc \notin NoRecordAt \cup ReuseAt \cup AppendAt \cup {"del_free", "del_chain", "deleted"}
    BY <1>2, Zenon DEF NoRecordAt, ReuseAt, AppendAt
  <2>2. table \in [Keys -> Vals \cup {None}] /\ \A k \in Keys : table[k] = None
    BY Zenon DEF Init
  <2> QED
    BY <1>6, <2>1, <2>2, ZenonT(30) DEF TableOK
<1>10. ScansOK
  BY <1>2, Zenon DEF ScansOK, At
<1>11. \A p \in Procs : OpsAt(p) /\ HandleOK(p)
  BY <1>2, Zenon DEF OpsAt, HandleOK, At, DeleteAt, ReuseAt, AppendAt
<1> QED
  BY <1>3, <1>4, <1>5, <1>7, <1>8, <1>9, <1>10, <1>11, ZenonT(30) DEF Inv

(* A step of a process keeps the invariant.                                *)
LEMMA ProcInv ==
  ASSUME Inv, NEW p \in Procs, FetchStep(p) \/ DeleteStep(p) \/ StoreStep(p)
  PROVE  Inv'
<1> USE DEF Inv
<1>1. HandleTypes' /\ Others(p) /\ LocksHeld' /\ Exclusive' /\ OpsAt(p)'
  BY ProcLocks, Zenon
<1>2. \A q \in Procs : OpsAt(q)'
  BY <1>1, Zenon DEF Others, OpsAt
<1>3. ListsOK' /\ FileTypes'
  BY StepLists, Zenon
<1>4. RecordsOK' /\ TableOK'
  BY StepRecords, StepTable, Zenon
<1>5. ScansOK' /\ \A q \in Procs : HandleOK(q)'
  BY StepScans, StepKnows, Zenon
<1> QED
  BY <1>1, <1>2, <1>3, <1>4, <1>5, ZenonT(30)

(* A step of a scanner keeps the invariant.                                *)
LEMMA ScanInv ==
  ASSUME Inv, NEW s \in Scanners, ScanStep(s)
  PROVE  Inv'
<1> USE DEF Inv
<1>1. HandleTypes' /\ Others(s) /\ UNCHANGED <<ptr, idx, dat, table>>
  BY ScanStepMoves, Zenon DEF Files
<1>2. \A q \in Procs : q # s /\ db'[q] = db[q]
  BY <1>1, ProcsAssumption, Zenon DEF Others
<1>3. LocksHeld' /\ Exclusive'
  BY ScanLocks, Zenon
<1>4. FileTypes' /\ Records' = Records
  BY <1>1, Zenon DEF FileTypes, Records
<1>5. Taken' = Taken
  <2>1. \A o : o \in Taken' <=> o \in Taken
    BY <1>2, Zenon DEF Taken
  <2> QED
    BY <2>1, Zenon
<1>6. RecordsStay
  BY <1>1, <1>4, <1>5, SetsStay, Zenon
<1>7. ListsOK'
  <2>1. \A q \in Procs : db[q].pc \in DeleteAt => Chain(q) \in Chains
    BY HandleFacts, Zenon DEF DeleteAt
  <2> QED
    BY <1>1, <1>2, <1>6, <2>1, ListsQuiet, ZenonT(30)
<1>8. RecordsOK'
  BY <1>1, <1>2, <1>6, RecordsQuiet, Zenon
<1>9. TableOK'
  <2>1. Live' = Live /\ s \notin Procs
    BY <1>2, <1>6, Zenon DEF RecordsStay
  <2> QED
    BY <1>1, <2>1, TableStays, Zenon
<1>10. \A q \in Procs : OpsAt(q)' /\ HandleOK(q)'
  <2>1. \A q \in Procs : OpsAt(q)'
    BY <1>2, Zenon DEF OpsAt
  <2>2. \A q \in Procs : HandleOK(q)'
    BY <1>1, <1>2, <1>6, AllKnow, Zenon
  <2> QED
    BY <2>1, <2>2, Zenon
<1>11. ScansOK'
  <2>1. ASSUME NEW t \in Scanners, db'[t].pc = "next_dat"
        PROVE  \E o \in Records : idx[o].key = db'[t].key /\ db'[t].key # Blank /\ idx[o].datoff = db'[t].datoff
    <3>1. CASE t = s
      BY <2>1, <3>1, ScanStepMoves, Zenon
    <3>2. CASE t # s
      BY <1>1, <2>1, <3>2, Zenon DEF Others, ScansOK, At
    <3> QED
      BY <3>1, <3>2, Zenon
  <2> QED
    BY <1>1, <1>4, <2>1, Zenon DEF ScansOK, At
<1> QED
  BY <1>1, <1>3, <1>4, <1>7, <1>8, <1>9, <1>10, <1>11, ZenonT(30)

(* The invariant depends on the variables of the specification only.       *)
LEMMA StutterInv ==
  ASSUME Inv, UNCHANGED vars
  PROVE  Inv'
<1>1. /\ ptr' = ptr /\ idx' = idx /\ dat' = dat /\ readers' = readers /\ writer' = writer /\ db' = db /\ table' = table
  BY Zenon DEF vars
<1> USE DEF Inv
<1>2. HandleTypes' /\ FileTypes'
  BY <1>1, Zenon DEF HandleTypes, FileTypes, Records
<1>3. LocksHeld' /\ Exclusive'
  BY <1>1, SMTT(20) DEF LocksHeld, Exclusive, Writes, Reads, Scans, At, Chain
<1>4. Taken' = Taken /\ Records' = Records
  BY <1>1, Zenon DEF Taken, Records
<1>5. RecordsStay
  BY <1>1, <1>4, SetsStay, Zenon
<1>6. \A q \in Procs : OpsAt(q)' /\ HandleOK(q)'
  <2>1. \A q \in Procs : OpsAt(q)'
    BY <1>1, Zenon DEF OpsAt
  <2>2. \A q \in Procs : HandleOK(q)'
    BY <1>1, <1>5, AllKnow, Zenon
  <2> QED
    BY <2>1, <2>2, Zenon
<1>7. ListsOK'
  <2>1. \A q \in Procs : db[q].pc \in DeleteAt => Chain(q) \in Chains
    BY HandleFacts, Zenon DEF DeleteAt
  <2> QED
    BY <1>1, <1>5, <2>1, ListsQuiet, Zenon
<1>8. PICK s : s \notin Procs
  BY NoSetContainsEverything, Zenon
<1>9. Others(s)
  BY <1>1, Zenon DEF Others
<1>10. RecordsOK'
  BY <1>1, <1>5, <1>8, <1>9, RecordsQuiet, Zenon
<1>11. TableOK'
  <2>1. Live' = Live
    BY <1>5, Zenon DEF RecordsStay
  <2> QED
    BY <1>1, <1>8, <1>9, <2>1, TableStays, Zenon
<1>12. ScansOK'
  BY <1>1, <1>4, Zenon DEF ScansOK, At
<1> QED
  BY <1>2, <1>3, <1>6, <1>7, <1>10, <1>11, <1>12, ZenonT(30)

(* The invariant is inductive.                                             *)
LEMMA NextInv == Inv /\ [Next]_vars => Inv'
<1>1. ASSUME Inv, Next PROVE Inv'
  BY <1>1, ProcInv, ScanInv, Zenon DEF Next
<1> QED
  BY <1>1, StutterInv, Zenon

(* Inv holds in every state, for any number of processes, scanners, keys,  *)
(* data and records: the records, the lists, the locks, the table and what *)
(* the processes in their calls have read of them agree between any two    *)
(* accesses of the files.                                                  *)
THEOREM Invariance == Spec => []Inv
BY InitInv, NextInv, PTL DEF Spec

-----------------------------------------------------------------------------
(* What follows from it.                                                   *)

(* For any number of processes: a chain is locked exactly during a call on *)
(* it, and nobody waits for the free list, the index file or the data file *)
(* while holding one of these.                                             *)
THEOREM LocksOrdered == Spec => []LockOrder
BY Invariance, InvLockOrder, PTL

(* For any number of processes and records: a free list that nobody has    *)
(* locked for writing holds blank records only, none that is on a chain    *)
(* nobody writes to, and none that a db_store has taken.                   *)
THEOREM FreeListAlwaysSound == Spec => []FreeListSound
BY Invariance, InvFreeListSound, PTL

(* For any number of processes and records: when no call is in progress    *)
(* every record is on a chain or on the free list.                         *)
THEOREM RecordsNeverLost == Spec => []NoRecordLost
BY Invariance, InvNoRecordLost, PTL

(* For any number of processes, keys and records the database implements   *)
(* KVStore: every db_fetch, db_delete and db_store takes effect in one     *)
(* step between its call and its return, whatever the others do.           *)
THEOREM IsATable == Spec => IsTable
BY Invariance, InitRefines, NextRefines, PTL DEF Spec, IsTable, KV!Spec

(* For any number of processes, scanners and records: what db_nextrec      *)
(* returns is an entry of the table at that moment, or the key and data of *)
(* a db_store in progress.                                                 *)
THEOREM ScansAreSound == Spec => ScanSound
<1>1. Init => SeenType
  BY Zenon DEF Init, SeenType
<1>2. Inv /\ SeenType /\ [Next]_vars => SeenType'
  BY SeenChanges, Zenon
<1>3. Spec => []SeenType
  BY <1>1, <1>2, Invariance, PTL DEF Spec
<1>4. ASSUME Inv, SeenType, [Next]_vars, NEW s \in Scanners, seen'[s] # seen[s]
      PROVE  \/ seen'[s].val = table[seen'[s].key]
             \/ \E p \in Procs : Storing(p) /\ db[p].key = seen'[s].key /\ db[p].val = seen'[s].val
  <2>1. At(s, "next_dat") /\ seen'[s] = [key |-> db[s].key, val |-> dat[db[s].datoff].val]
    BY <1>4, SeenChanges, Zenon
  <2>2. seen'[s].key = db[s].key /\ seen'[s].val = dat[db[s].datoff].val
    BY <2>1
  <2> QED
    BY <1>4, <2>1, <2>2, SeenSound, ZenonT(30)
<1>5. Inv /\ SeenType /\ [Next]_vars =>
        [\A s \in Scanners : seen'[s] # seen[s] =>
           \/ seen'[s].val = table[seen'[s].key]
           \/ \E p \in Procs : Storing(p) /\ db[p].key = seen'[s].key /\ db[p].val = seen'[s].val]_vars
  BY <1>4, Zenon
<1> QED
  BY <1>3, <1>5, Invariance, PTL DEF Spec, ScanSound

-----------------------------------------------------------------------------
INSTANCE FiniteSetTheorems

(* The invariant gives the types.                                          *)
LEMMA InvTypeOK == Inv => TypeOK
<1> SUFFICES ASSUME Inv PROVE TypeOK
  OBVIOUS
<1> USE DEF Inv
<1>1. DOMAIN ptr = Chains \cup {FREE} \cup Records /\ \A x \in DOMAIN ptr : ptr[x] \in {0} \cup Records
  BY Zenon DEF FileTypes, Places
<1>2. \A o \in Records : idx[o].key \in Keys \cup {Blank}
  BY FileFacts, Zenon
<1>3. DOMAIN dat = 1 .. Len(dat)
  BY SMTT(20) DEF FileTypes
<1>4. \A o \in Records : /\ idx[o].datoff \in DOMAIN dat
                         /\ idx[o].key # Blank => idx[o].keylen = KeyLen[idx[o].key]
                         /\ dat[idx[o].datoff].len = idx[o].datlen
  BY <1>3, Zenon DEF RecordsOK
<1>5. ASSUME NEW x \in Locks PROVE Cardinality(writer[x]) <= 1 /\ (writer[x] # {} => readers[x] = {})
  <2>1. writer[x] = {} \/ \E p : writer[x] = {p}
    BY <1>5, SMTT(20) DEF Exclusive
  <2>2. Cardinality(writer[x]) = 0 \/ Cardinality(writer[x]) = 1
    BY <2>1, FS_EmptySet, FS_Singleton, Zenon
  <2> QED
    BY <2>2, SMTT(20) DEF Exclusive
<1>6. table \in [Keys -> Vals \cup {None}]
  BY Zenon DEF TableOK
<1> QED
  BY <1>1, <1>2, <1>4, <1>5, <1>6, Zenon DEF TypeOK

(* On a chain that nobody writes the live records are the entries of the   *)
(* table: one for each key, and with its data.                             *)
LEMMA InvChainsMatch == Inv => ChainsMatch
<1> SUFFICES ASSUME Inv, NEW c \in Chains, writer[c] = {}
             PROVE  /\ Cardinality(OnList(c)) = Cardinality(Stored(c))
                    /\ {<<idx[o].key, dat[idx[o].datoff].val>> : o \in OnList(c)} = {<<k, table[k]>> : k \in Stored(c)}
  BY Zenon DEF ChainsMatch
<1> DEFINE S == LiveOn(c)
           f == [o \in S |-> idx[o].key]
<1>1. OnList(c) = S
  BY QuietChain, Zenon
<1>2. S \subseteq Live /\ S \subseteq Records /\ Live \subseteq Records
  BY Zenon DEF LiveOn, Live
<1>3. \A o \in S : idx[o].key \in Keys /\ Hash[idx[o].key] = c
  BY FileFacts, Zenon DEF Inv, LiveOn, Live
<1>4. ASSUME NEW o \in S PROVE table[idx[o].key] # None /\ dat[idx[o].datoff].val = table[idx[o].key]
  <2>1. Tabled(o)
    BY <1>2, TableParts, Zenon DEF Inv
  <2>2. ASSUME NEW p \in Procs, db[p].pc = "del_idx", db[p].idxoff = o PROVE FALSE
    <3>1. idx[o].key = db[p].key
      BY <2>2, ZenonT(30) DEF Inv, HandleOK
    <3>2. Chain(p) = c
      BY <1>3, <3>1, Zenon DEF Chain
    <3> QED
      BY <2>2, <3>2, ChainWriters, ZenonT(30) DEF Inv, DeleteAt
  <2> QED
    BY <2>1, <2>2, Zenon DEF Tabled
<1>5. ASSUME NEW k \in Stored(c) PROVE \E o \in S : idx[o].key = k
  <2>1. k \in Keys /\ Hash[k] = c /\ table[k] # None /\ Recorded(k)
    BY <1>5, TableParts, Zenon DEF Inv, Stored
  <2>2. ASSUME NEW p \in Procs, db[p].pc \in NoRecordAt, db[p].key = k PROVE FALSE
    BY <2>1, <2>2, ChainWriters, Zenon DEF Inv, NoRecordAt, DeleteAt, Chain
  <2> QED
    BY <2>1, <2>2, Zenon DEF Recorded, LiveOn
<1>6. \A o \in S : idx[o].key \in Stored(c)
  BY <1>3, <1>4, Zenon DEF Stored
<1>7. \A o, u \in S : idx[o].key = idx[u].key => o = u
  BY <1>2, ZenonT(30) DEF Inv, RecordsOK
<1>8. IsFiniteSet(S)
  <2>1. Len(idx) \in Int
    BY FileFacts DEF Inv
  <2>2. \A n \in Int : IsFiniteSet(1 .. n)
    BY FS_Interval, 1 \in Int, Zenon
  <2> QED
    BY <1>2, <2>1, <2>2, FS_Subset, Zenon DEF Records
<1> HIDE DEF S
<1>9. f \in Bijection(S, Stored(c))
  <2>1. f \in [S -> Stored(c)]
    BY <1>6, Zenon
  <2>2. \A o, u \in S : f[o] = f[u] => o = u
    BY <1>7, Zenon
  <2>3. \A k \in Stored(c) : \E o \in S : f[o] = k
    BY <1>5, Zenon
  <2> HIDE DEF f
  <2>4. f \in Injection(S, Stored(c))
    BY <2>1, <2>2, Zenon DEF Injection, IsInjective
  <2>5. f \in Surjection(S, Stored(c))
    BY <2>1, <2>3, Zenon DEF Surjection
  <2> QED
    BY <2>4, <2>5, Zenon DEF Bijection
<1>10. Cardinality(Stored(c)) = Cardinality(S)
  <2>1. ExistsBijection(S, Stored(c))
    BY <1>9, Zenon DEF ExistsBijection
  <2> QED
    BY <1>8, <2>1, FS_Bijection, ZenonT(30)
<1>11. {<<idx[o].key, dat[idx[o].datoff].val>> : o \in S} = {<<k, table[k]>> : k \in Stored(c)}
  <2>1. \A o \in S : \E k \in Stored(c) : <<idx[o].key, dat[idx[o].datoff].val>> = <<k, table[k]>>
    BY <1>4, <1>6, Zenon
  <2>2. \A k \in Stored(c) : \E o \in S : <<idx[o].key, dat[idx[o].datoff].val>> = <<k, table[k]>>
    BY <1>4, <1>5, SMTT(20)
  <2> DEFINE A == {<<idx[o].key, dat[idx[o].datoff].val>> : o \in S}
             B == {<<k, table[k]>> : k \in Stored(c)}
  <2>3. \A e \in A : e \in B
    BY <2>1, Zenon
  <2>4. \A e \in B : e \in A
    BY <2>2
  <2> HIDE DEF A, B
  <2>5. A = B
    BY <2>3, <2>4, Zenon
  <2> QED
    BY <2>5, Zenon DEF A, B
<1> QED
  BY <1>1, <1>10, <1>11, Zenon

(* For any number of processes, scanners, keys and records: the ptrs of    *)
(* the index file lead to records, the records to data of their length,    *)
(* and a lock of db.c has one writer or any number of readers.             *)
THEOREM TypesHold == Spec => []TypeOK
BY Invariance, InvTypeOK, PTL

(* For any number of processes, keys and records: a chain that nobody has  *)
(* locked for writing holds one record for each entry of the table with    *)
(* that hash value, with its data, and no other record.                    *)
THEOREM ChainsAlwaysMatch == Spec => []ChainsMatch
BY Invariance, InvChainsMatch, PTL
=============================================================================
