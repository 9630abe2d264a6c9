---------------------------- MODULE HandleProofs ----------------------------
(***************************************************************************)
(* What holds of BusLifecycle for the handles of programs and the devices  *)
(* they plugged in: that the file object and the device point at each      *)
(* other, which uses of freed memory are possible, which reads are left    *)
(* behind, and when an address stands for one device.                      *)
(*                                                                         *)
(* The argument: at most one file object ever refers to a device, whether  *)
(* by its FsContext, as the device's fo or in a local variable of one of   *)
(* its threads.  So what one handle does to its device cannot disturb      *)
(* another handle, and REMOVE_DEVICE, which clears both pointers, finds    *)
(* them pointing at each other.  An address is checked and its device      *)
(* inserted in two sections, and between them the thread that checked is   *)
(* the only one with that address.                                         *)
(***************************************************************************)
EXTENDS BusLifecycleProofs

Req(f) == <<f, "request">>
Cln(f) == <<f, "cleanup">>

(* Where the two threads of a file object can stand, and which of their    *)
(* variables are set there; the cleanup runs once.                         *)
HandleOK(f) ==
    /\ pc[Req(f)] \in {"idle", "read", "settle"} \cup Plugging
    /\ pc[Cln(f)] \in {"idle", "detach", "unplug", "settle", "done"}
    /\ pc[Req(f)] \in {"idle", "create", "settle"} => pdodata[Req(f)] = NoPdo
    /\ pc[Cln(f)] = "idle" => pdodata[Cln(f)] = NoPdo
    /\ (handle[f] = "open") <=> (pc[Cln(f)] = "idle")
    /\ handle[f] = "closed" => pc[Cln(f)] = "done" /\ pc[Req(f)] = "idle"
    /\ fdo = "Deleted" => handle[f] = "closed"

HandlesOK == \A f \in File : HandleOK(f)

(* Nobody but one file object refers to a device, and none to one that was *)
(* not created.                                                            *)
RefersTo(f, p) ==
    FsContext[f] = p \/ dev[p].fo = f \/ pdodata[Req(f)] = p \/ pdodata[Cln(f)] = p

OwnersOK ==
    /\ \A p \in Pdo, f, g \in File : RefersTo(f, p) /\ RefersTo(g, p) => f = g
    /\ \A p \in Pdo, f \in File : dev[p].life = "none" => ~ RefersTo(f, p)

(* For a handle that is not closed while a request on it is in progress.   *)
OrderlyOK(f) ==
    /\ pc[Cln(f)] # "idle" => pc[Req(f)] = "idle"
    /\ pc[Cln(f)] = "detach" => FsContext[f] \in {pdodata[Cln(f)], NoPdo}
    /\ pc[Cln(f)] \in {"unplug", "settle", "done"} => FsContext[f] = NoPdo
    /\ pc[Req(f)] = "fields" => FsContext[f] = pdodata[Req(f)]

OrderlysOK == \A f \in File \ history.overlapped : OrderlyOK(f)

(* FileAndDeviceAgree, of one file object and one device                   *)
Agree(f, p) ==
    /\ FsContext[f] = p => dev[p].life = "exists" /\ (dev[p].fo = f \/ pc[Req(f)] = "fields")
    /\ dev[p].fo = f => FsContext[f] = p

AgreeOK == \A f \in File \ history.overlapped : \A p \in Pdo : Agree(f, p)

HInv == HandlesOK /\ OwnersOK /\ OrderlysOK /\ AgreeOK

-----------------------------------------------------------------------------
(* Threads                                                                 *)

LEMMA Threads ==
  /\ \A f \in File : /\ Req(f) \in Thread /\ Req(f)[1] = f /\ Req(f)[2] = "request"
                     /\ Cln(f) \in Thread /\ Cln(f)[1] = f /\ Cln(f)[2] = "cleanup"
  /\ \A f, g \in File : /\ Req(f) # Cln(g)
                        /\ Req(f) = Req(g) <=> f = g
                        /\ Cln(f) = Cln(g) <=> f = g
  /\ \A t \in Thread : \E f \in File : t = Req(f) \/ t = Cln(f)
  BY DEF Req, Cln, Thread

LEMMA Moves ==
  ASSUME TypeOK, NEW t \in Thread, NEW place, Goto(t, place)
  PROVE  /\ pdodata' = pdodata /\ addr' = addr
         /\ pc'[t] = place
         /\ \A u \in Thread \ {t} : pc'[u] = pc[u]
  BY DEF TypeOK, Goto

LEMMA Returns ==
  ASSUME TypeOK, NEW t \in Thread, Return(t)
  PROVE  /\ pc'[t] = IF t[2] = "request" THEN "idle" ELSE "done"
         /\ pdodata'[t] = NoPdo /\ addr'[t] = 0
         /\ \A u \in Thread \ {t} : pc'[u] = pc[u] /\ pdodata'[u] = pdodata[u] /\ addr'[u] = addr[u]
  BY DEF TypeOK, Return

(* What the operations on an extension leave of it                         *)
SameDevice(d, e) ==
    /\ e.fo = d.fo /\ e.life = d.life /\ e.SerialNo = d.SerialNo
    /\ e.Present = d.Present /\ e.ReportedMissing = d.ReportedMissing

LEMMA WithStateSame ==
  ASSUME NEW d \in Extension, NEW s
  PROVE  SameDevice(d, WithState(d, s))
  BY DEF Extension, WithState, SameDevice

LEMMA RestoredSame ==
  ASSUME NEW d \in Extension, NEW s
  PROVE  SameDevice(d, [d EXCEPT !.DevicePnPState = s])
  BY DEF Extension, SameDevice

LEMMA CountedSame ==
  ASSUME NEW d \in Extension, NEW n
  PROVE  SameDevice(d, [d EXCEPT !.InterfaceRefCount = n])
  BY DEF Extension, SameDevice

LEMMA DetachedSame ==
  ASSUME NEW d \in Extension
  PROVE  /\ Detached(d).fo = NoFile
         /\ Detached(d).life = d.life /\ Detached(d).SerialNo = d.SerialNo
         /\ Detached(d).Present = d.Present /\ Detached(d).ReportedMissing = d.ReportedMissing
  BY DEF Extension, Detached

LEMMA FreedSame ==
  ASSUME NEW d \in Extension
  PROVE  /\ Freed(d).fo = NoFile
         /\ Freed(d).life = "deleted" /\ Freed(d).SerialNo = d.SerialNo
         /\ Freed(d).Present = d.Present /\ Freed(d).ReportedMissing = d.ReportedMissing
  BY DEF Extension, Freed

LEMMA OrphanedSame ==
  ASSUME NEW d \in Extension
  PROVE  /\ Orphaned(d).fo = d.fo
         /\ Orphaned(d).life = d.life /\ Orphaned(d).SerialNo = d.SerialNo
         /\ Orphaned(d).Present = d.Present /\ Orphaned(d).ReportedMissing
  BY DEF Extension, Orphaned

LEMMA AbsentSame ==
  ASSUME NEW d \in Extension
  PROVE  LET e == [d EXCEPT !.Present = FALSE]
         IN  /\ e.fo = d.fo /\ e.life = d.life /\ e.SerialNo = d.SerialNo
             /\ ~ e.Present /\ e.ReportedMissing = d.ReportedMissing
  BY DEF Extension

LEMMA MissingSame ==
  ASSUME NEW d \in Extension
  PROVE  LET e == [d EXCEPT !.ReportedMissing = TRUE]
         IN  /\ e.fo = d.fo /\ e.life = d.life /\ e.SerialNo = d.SerialNo
             /\ e.Present = d.Present /\ e.ReportedMissing
  BY DEF Extension

(* What two thirds of the steps leave alone.                               *)
SameOwners ==
    /\ fdo' = "Deleted" => fdo = "Deleted"
    /\ history'.overlapped = history.overlapped
    /\ \A p \in Pdo : dev'[p].fo = dev[p].fo /\ dev'[p].life = dev[p].life

SamePlaces == UNCHANGED <<FsContext, handle, pc, pdodata>>

LEMMA QuietKeeps ==
  ASSUME HInv, SameOwners, SamePlaces
  PROVE  HInv'
  <1>1. HandlesOK'
    BY DEF HInv, HandlesOK, HandleOK, SameOwners, SamePlaces
  <1>2. OwnersOK'
    BY DEF HInv, OwnersOK, RefersTo, SameOwners, SamePlaces
  <1>3. OrderlysOK'
    BY DEF HInv, OrderlysOK, OrderlyOK, SameOwners, SamePlaces
  <1>4. AgreeOK'
    BY DEF HInv, AgreeOK, Agree, SameOwners, SamePlaces
  <1> QED
    BY <1>1, <1>2, <1>3, <1>4 DEF HInv

(* A request starts, goes on or ends.                                      *)
LEMMA RequestMoves ==
  ASSUME HInv, SameOwners, UNCHANGED <<FsContext, handle>>, NEW f \in File,
         \A u \in Thread \ {Req(f)} : pc'[u] = pc[u] /\ pdodata'[u] = pdodata[u],
         pdodata'[Req(f)] \in {NoPdo, FsContext[f]},
         pc[Req(f)] # "fields",
         pc'[Req(f)] \in {"idle", "read", "settle", "create"},
         pc'[Req(f)] # "read" => pdodata'[Req(f)] = NoPdo,
         pc'[Req(f)] # "idle" => handle[f] = "open"
  PROVE  HInv'
  <1>1. /\ \A g \in File : pc'[Cln(g)] = pc[Cln(g)] /\ pdodata'[Cln(g)] = pdodata[Cln(g)]
        /\ \A g \in File \ {f} : pc'[Req(g)] = pc[Req(g)] /\ pdodata'[Req(g)] = pdodata[Req(g)]
    BY Threads
  <1>2. HandlesOK'
    BY <1>1 DEF HInv, HandlesOK, HandleOK, SameOwners, Plugging
  <1>3. \A p \in Pdo, g \in File : RefersTo(g, p)' => RefersTo(g, p)
    BY <1>1, BusAssumption DEF RefersTo, SameOwners
  <1>4. OwnersOK'
    BY <1>3 DEF HInv, OwnersOK, SameOwners
  <1>5. OrderlysOK'
    BY <1>1 DEF HInv, HandlesOK, HandleOK, OrderlysOK, OrderlyOK, SameOwners
  <1>6. AgreeOK'
    BY <1>1 DEF HInv, AgreeOK, Agree, SameOwners
  <1> QED
    BY <1>2, <1>4, <1>5, <1>6 DEF HInv

LEMMA PlugCheckOwns ==
  ASSUME SInv, HInv, NEW f \in File, NEW a, PlugCheck(f, a)
  PROVE  HInv'
  <1>1. /\ UNCHANGED <<FsContext, handle, pdodata, fdo, dev>>
        /\ handle[f] = "open" /\ pc[Req(f)] = "idle"
        /\ history'.overlapped = history.overlapped
    BY DEF PlugCheck, Accepts, Req, files, bus, SInv, BInv, TypeOK
  <1>2. /\ pc'[Req(f)] = "create"
        /\ \A u \in Thread \ {Req(f)} : pc'[u] = pc[u]
    BY Threads DEF PlugCheck, Req, SInv, BInv, TypeOK
  <1>3. SameOwners
    BY <1>1 DEF SameOwners
  <1>4. pdodata[Req(f)] = NoPdo
    BY <1>1 DEF HInv, HandlesOK, HandleOK
  <1> QED
    BY <1>1, <1>2, <1>3, <1>4, RequestMoves

LEMMA RequestEnds ==
  ASSUME SInv, HInv, NEW t \in Thread,
         PlugFails(t) \/ PlugInsert(t) \/ ReadProcess(t)
  PROVE  HInv'
  <1>1. /\ UNCHANGED <<FsContext, handle, fdo, dev>>
        /\ history'.overlapped = history.overlapped
        /\ Return(t)
    BY DEF PlugFails, PlugInsert, ReadProcess, Note, bus, files, SInv, BInv, TypeOK
  <1>2. pc[t] \in {"create", "insert", "read"}
    BY DEF PlugFails, PlugInsert, ReadProcess
  <1>3. PICK f \in File : t = Req(f)
    BY <1>2, Threads DEF HInv, HandlesOK, HandleOK
  <1>4. SameOwners
    BY <1>1 DEF SameOwners
  <1>5. /\ pc'[Req(f)] = "idle" /\ pdodata'[Req(f)] = NoPdo
        /\ \A u \in Thread \ {Req(f)} : pc'[u] = pc[u] /\ pdodata'[u] = pdodata[u]
    BY <1>1, <1>3, Returns, Threads DEF SInv, BInv
  <1> QED
    BY <1>1, <1>2, <1>3, <1>4, <1>5, RequestMoves

LEMMA ReadCheckOwns ==
  ASSUME SInv, HInv, NEW f \in File, ReadCheck(f)
  PROVE  HInv'
  <1>1. /\ UNCHANGED <<FsContext, handle, fdo, dev, history>>
        /\ handle[f] = "open" /\ pc[Req(f)] = "idle"
    BY DEF ReadCheck, Accepts, Req, files, bus
  <1>2. /\ pc'[Req(f)] = "read" /\ pdodata'[Req(f)] = FsContext[f]
        /\ \A u \in Thread \ {Req(f)} : pc'[u] = pc[u] /\ pdodata'[u] = pdodata[u]
    BY Threads DEF ReadCheck, Req, SInv, BInv, TypeOK
  <1>3. SameOwners
    BY <1>1 DEF SameOwners
  <1> QED
    BY <1>1, <1>2, <1>3, RequestMoves

(* What an unplug, in either of its sections, leaves of the extension      *)
LEMMA MarkedOwns ==
  ASSUME SInv, NEW t, NEW a, UnplugMark(t, a)
  PROVE  /\ SameOwners
         /\ UNCHANGED <<FsContext, handle, pdodata>>
  <1>1. \A p \in Pdo : dev[p] \in Extension
    BY DEF SInv, BInv, TypeOK
  <1>2. \A p \in Pdo : dev'[p] \in {dev[p], [dev[p] EXCEPT !.Present = FALSE]}
    BY DEF UnplugMark
  <1>3. \A p \in Pdo : dev'[p].fo = dev[p].fo /\ dev'[p].life = dev[p].life
    BY <1>1, <1>2 DEF Extension
  <1> QED
    BY <1>3 DEF UnplugMark, Goto, SameOwners, bus, files, SInv, BInv, TypeOK

LEMMA UnplugRequestOwns ==
  ASSUME SInv, HInv, NEW f \in File, NEW a, UnplugRequest(f, a)
  PROVE  HInv'
  <1>1. /\ UnplugMark(Req(f), a) /\ Goto(Req(f), "settle")
        /\ handle[f] = "open" /\ pc[Req(f)] = "idle"
    BY DEF UnplugRequest, UnplugMark, Accepts, Req
  <1>2. /\ pc'[Req(f)] = "settle" /\ pdodata' = pdodata
        /\ \A u \in Thread \ {Req(f)} : pc'[u] = pc[u]
    BY <1>1, Moves, Threads DEF SInv, BInv
  <1>3. pdodata[Req(f)] = NoPdo
    BY <1>1 DEF HInv, HandlesOK, HandleOK
  <1> QED
    BY <1>1, <1>2, <1>3, MarkedOwns, RequestMoves

(* The cleanup of a handle goes on or ends.                                *)
LEMMA CleanupMoves ==
  ASSUME HInv, SameOwners, UNCHANGED <<FsContext, handle>>, NEW f \in File,
         \A u \in Thread \ {Cln(f)} : pc'[u] = pc[u] /\ pdodata'[u] = pdodata[u],
         pdodata'[Cln(f)] \in {pdodata[Cln(f)], NoPdo},
         pc[Cln(f)] \in {"detach", "unplug", "settle"},
         pc'[Cln(f)] \in {"settle", "done"},
         f \notin history.overlapped => FsContext[f] = NoPdo
  PROVE  HInv'
  <1>1. /\ \A g \in File : pc'[Req(g)] = pc[Req(g)] /\ pdodata'[Req(g)] = pdodata[Req(g)]
        /\ \A g \in File \ {f} : pc'[Cln(g)] = pc[Cln(g)] /\ pdodata'[Cln(g)] = pdodata[Cln(g)]
    BY Threads
  <1>2. HandlesOK'
    BY <1>1 DEF HInv, HandlesOK, HandleOK, SameOwners
  <1>3. \A p \in Pdo, g \in File : RefersTo(g, p)' => RefersTo(g, p)
    BY <1>1, BusAssumption DEF RefersTo, SameOwners
  <1>4. OwnersOK'
    BY <1>3 DEF HInv, OwnersOK, SameOwners
  <1>5. OrderlysOK'
    BY <1>1 DEF HInv, OrderlysOK, OrderlyOK, SameOwners
  <1>6. AgreeOK'
    BY <1>1 DEF HInv, AgreeOK, Agree, SameOwners
  <1> QED
    BY <1>2, <1>4, <1>5, <1>6 DEF HInv

LEMMA UnplugSettleOwns ==
  ASSUME SInv, HInv, NEW t \in Thread, UnplugSettle(t)
  PROVE  HInv'
  <1>1. UNCHANGED <<FsContext, handle, fdo, history>> /\ Return(t) /\ pc[t] = "settle"
    BY DEF UnplugSettle, bus, files
  <1>2. SameOwners
    <2>1. \A p \in Pdo : dev[p] \in Extension
      BY DEF SInv, BInv, TypeOK
    <2>2. \A p \in Pdo : dev'[p] \in {dev[p], WithState(dev[p], "PNP_DEVICE_REMOVED")}
      BY DEF UnplugSettle
    <2>3. \A p \in Pdo : dev'[p].fo = dev[p].fo /\ dev'[p].life = dev[p].life
      BY <2>1, <2>2, WithStateSame DEF SameDevice
    <2> QED
      BY <1>1, <2>3 DEF SameOwners
  <1>3. /\ pc'[t] = IF t[2] = "request" THEN "idle" ELSE "done"
        /\ pdodata'[t] = NoPdo
        /\ \A u \in Thread \ {t} : pc'[u] = pc[u] /\ pdodata'[u] = pdodata[u]
    BY <1>1, Returns DEF SInv, BInv
  <1>4. ASSUME NEW f \in File, t = Req(f) PROVE HInv'
    BY <1>1, <1>2, <1>3, <1>4, Threads, RequestMoves
  <1>5. ASSUME NEW f \in File, t = Cln(f) PROVE HInv'
    <2>1. f \notin history.overlapped => FsContext[f] = NoPdo
      BY <1>1, <1>5 DEF HInv, OrderlysOK, OrderlyOK
    <2> QED
      BY <1>1, <1>2, <1>3, <1>5, <2>1, Threads, CleanupMoves
  <1> QED
    BY <1>4, <1>5, Threads

LEMMA CleanupOwns ==
  ASSUME SInv, HInv, NEW f \in File, Cleanup(f)
  PROVE  HInv'
  <1>1. /\ UNCHANGED <<FsContext, fdo, dev>> /\ handle[f] = "open"
        /\ handle' = [handle EXCEPT ![f] = "closing"]
        /\ history'.overlapped = history.overlapped \cup (IF pc[Req(f)] = "idle" THEN {} ELSE {f})
    BY DEF Cleanup, Note, Req, bus, SInv, BInv, TypeOK
  <1>2. /\ pdodata'[Cln(f)] = FsContext[f]
        /\ pc'[Cln(f)] = IF FsContext[f] = NoPdo THEN "done" ELSE "detach"
        /\ \A u \in Thread \ {Cln(f)} : pc'[u] = pc[u] /\ pdodata'[u] = pdodata[u]
    BY Threads DEF Cleanup, Cln, SInv, BInv, TypeOK
  <1>3. /\ \A g \in File : pc'[Req(g)] = pc[Req(g)] /\ pdodata'[Req(g)] = pdodata[Req(g)]
        /\ \A g \in File \ {f} : pc'[Cln(g)] = pc[Cln(g)] /\ pdodata'[Cln(g)] = pdodata[Cln(g)]
    BY <1>2, Threads
  <1>4. handle'[f] = "closing" /\ \A g \in File \ {f} : handle'[g] = handle[g]
    BY <1>1 DEF SInv, BInv, TypeOK
  <1>5. pc[Cln(f)] = "idle" /\ pdodata[Cln(f)] = NoPdo /\ fdo # "Deleted"
    BY <1>1 DEF HInv, HandlesOK, HandleOK
  <1>6. HandlesOK'
    BY <1>1, <1>2, <1>3, <1>4, <1>5 DEF HInv, HandlesOK, HandleOK
  <1>7. \A p \in Pdo, g \in File : RefersTo(g, p)' => RefersTo(g, p)
    BY <1>1, <1>2, <1>3 DEF RefersTo
  <1>8. OwnersOK'
    BY <1>1, <1>7 DEF HInv, OwnersOK
  <1>9. OrderlysOK'
    BY <1>1, <1>2, <1>3, <1>5 DEF HInv, OrderlysOK, OrderlyOK
  <1>10. AgreeOK'
    BY <1>1, <1>3 DEF HInv, AgreeOK, Agree
  <1> QED
    BY <1>6, <1>8, <1>9, <1>10 DEF HInv

LEMMA CleanupDetachOwns ==
  ASSUME SInv, HInv, NEW t \in Thread, CleanupDetach(t)
  PROVE  HInv'
  <1>1. pc[t] = "detach" /\ pdodata[t] \in Pdo
    BY DEF CleanupDetach, SInv, BInv, LinksOK, HoldsOK
  <1>2. PICK f \in File : t = Cln(f)
    BY <1>1, Threads DEF HInv, HandlesOK, HandleOK, Plugging
  <1> DEFINE p == pdodata[Cln(f)]
  <1>3. UNCHANGED <<handle, fdo, history>>
    BY DEF CleanupDetach, bus
  <1>4. CASE dev[p].life = "deleted"
    <2>1. UNCHANGED <<dev, FsContext>> /\ Return(Cln(f))
      BY <1>2, <1>4 DEF CleanupDetach
    <2>2. /\ pc'[Cln(f)] = "done" /\ pdodata'[Cln(f)] = NoPdo
          /\ \A u \in Thread \ {Cln(f)} : pc'[u] = pc[u] /\ pdodata'[u] = pdodata[u]
      BY <2>1, Returns, Threads DEF SInv, BInv
    <2>3. f \notin history.overlapped => FsContext[f] = NoPdo
      BY <1>1, <1>2, <1>4 DEF HInv, OrderlysOK, OrderlyOK, AgreeOK, Agree
    <2>4. SameOwners
      BY <1>3, <2>1 DEF SameOwners
    <2> QED
      BY <1>1, <1>2, <1>3, <2>1, <2>2, <2>3, <2>4, CleanupMoves
  <1>5. CASE dev[p].life # "deleted"
    <2>1. /\ dev' = [dev EXCEPT ![p] = Detached(dev[p])]
          /\ FsContext' = [FsContext EXCEPT ![f] = NoPdo]
          /\ Goto(Cln(f), "unplug")
      BY <1>2, <1>5, Threads DEF CleanupDetach
    <2>2. /\ pc'[Cln(f)] = "unplug" /\ pdodata' = pdodata
          /\ \A g \in File : pc'[Req(g)] = pc[Req(g)]
          /\ \A g \in File \ {f} : pc'[Cln(g)] = pc[Cln(g)]
      BY <2>1, Moves, Threads DEF SInv, BInv
    <2>3. /\ FsContext'[f] = NoPdo
          /\ \A g \in File \ {f} : FsContext'[g] = FsContext[g]
      BY <2>1 DEF SInv, BInv, TypeOK
    <2>4. /\ dev'[p].fo = NoFile
          /\ \A q \in Pdo : dev'[q].life = dev[q].life
          /\ \A q \in Pdo \ {p} : dev'[q].fo = dev[q].fo
      BY <1>1, <1>2, <2>1 DEF SInv, BInv, TypeOK, Detached, Extension
    <2>5. HandlesOK'
      BY <1>1, <1>2, <1>3, <2>2 DEF HInv, HandlesOK, HandleOK
    <2>6. \A q \in Pdo, g \in File : RefersTo(g, q)' => RefersTo(g, q)
      BY <2>2, <2>3, <2>4, BusAssumption DEF RefersTo
    <2>7. OwnersOK'
      BY <2>4, <2>6 DEF HInv, OwnersOK
    <2>8. OrderlysOK'
      BY <1>1, <1>2, <1>3, <2>2, <2>3 DEF HInv, OrderlysOK, OrderlyOK
    <2>9. AgreeOK'
      <3> SUFFICES ASSUME NEW g \in File \ history.overlapped, NEW q \in Pdo
                   PROVE  Agree(g, q)'
        BY <1>3 DEF AgreeOK
      <3>1. Agree(g, q)
        BY DEF HInv, AgreeOK
      <3>2. RefersTo(f, p)
        BY DEF RefersTo
      <3>3. RefersTo(g, p) => g = f
        BY <1>1, <1>2, <3>2 DEF HInv, OwnersOK
      <3>4. g = f => FsContext[f] \in {p, NoPdo}
        BY <1>1, <1>2 DEF HInv, OrderlysOK, OrderlyOK
      <3> QED
        BY <2>2, <2>3, <2>4, <3>1, <3>3, <3>4, BusAssumption DEF Agree, RefersTo
    <2> QED
      BY <2>5, <2>7, <2>8, <2>9 DEF HInv
  <1> QED
    BY <1>4, <1>5

LEMMA CleanupUnplugOwns ==
  ASSUME SInv, HInv, NEW t \in Thread, CleanupUnplug(t)
  PROVE  HInv'
  <1>1. pc[t] = "unplug"
    BY DEF CleanupUnplug
  <1>2. PICK f \in File : t = Cln(f)
    BY <1>1, Threads DEF HInv, HandlesOK, HandleOK, Plugging
  <1>3. f \notin history.overlapped => FsContext[f] = NoPdo
    BY <1>1, <1>2 DEF HInv, OrderlysOK, OrderlyOK
  <1>4. CASE UnplugMark(t, dev[pdodata[t]].SerialNo)
    <2>1. /\ pc'[Cln(f)] = "settle" /\ pdodata' = pdodata
          /\ \A u \in Thread \ {Cln(f)} : pc'[u] = pc[u]
      BY <1>2, <1>4, Moves DEF UnplugMark, SInv, BInv
    <2> QED
      BY <1>1, <1>2, <1>3, <1>4, <2>1, MarkedOwns, CleanupMoves
  <1>5. CASE ~ UnplugMark(t, dev[pdodata[t]].SerialNo)
    <2>1. /\ UNCHANGED <<dev, FsContext, handle, fdo>> /\ Return(t)
          /\ history'.overlapped = history.overlapped
      BY <1>5 DEF CleanupUnplug, Note, bus, files, SInv, BInv, TypeOK
    <2>2. /\ pc'[Cln(f)] = "done" /\ pdodata'[Cln(f)] = NoPdo
          /\ \A u \in Thread \ {Cln(f)} : pc'[u] = pc[u] /\ pdodata'[u] = pdodata[u]
      BY <1>2, <2>1, Returns, Threads DEF SInv, BInv
    <2>3. SameOwners
      BY <2>1 DEF SameOwners
    <2> QED
      BY <1>1, <1>2, <1>3, <2>1, <2>2, <2>3, CleanupMoves
  <1> QED
    BY <1>4, <1>5

LEMMA CloseOwns ==
  ASSUME SInv, HInv, NEW f \in File, Close(f)
  PROVE  HInv'
  <1>1. /\ UNCHANGED <<dev, FsContext, fdo, pc, pdodata, history>>
        /\ handle[f] = "closing" /\ pc[Cln(f)] = "done" /\ pc[Req(f)] = "idle"
    BY DEF Close, Req, Cln, bus, threads
  <1>2. handle'[f] = "closed" /\ \A g \in File \ {f} : handle'[g] = handle[g]
    BY DEF Close, SInv, BInv, TypeOK
  <1>3. HandlesOK'
    BY <1>1, <1>2 DEF HInv, HandlesOK, HandleOK
  <1>4. OwnersOK' /\ OrderlysOK' /\ AgreeOK'
    BY <1>1 DEF HInv, OwnersOK, RefersTo, OrderlysOK, OrderlyOK, AgreeOK, Agree
  <1> QED
    BY <1>3, <1>4 DEF HInv

(* A new device belongs to the handle of the thread that created it.       *)
LEMMA PlugCreateOwns ==
  ASSUME SInv, HInv, NEW t \in Thread, NEW p \in Pdo, PlugCreate(t, p)
  PROVE  HInv'
  <1>1. pc[t] = "create" /\ dev[p].life = "none"
    BY DEF PlugCreate
  <1>2. PICK f \in File : t = Req(f)
    BY <1>1, Threads DEF HInv, HandlesOK, HandleOK
  <1>3. /\ UNCHANGED <<handle, fdo, history>> /\ FsContext[f] = NoPdo
        /\ FsContext' = [FsContext EXCEPT ![f] = p]
        /\ dev' = [dev EXCEPT ![p] = Zeroed("exists")]
        /\ pc' = [pc EXCEPT ![Req(f)] = "fields"]
        /\ pdodata' = [pdodata EXCEPT ![Req(f)] = p]
    BY <1>2, Threads DEF PlugCreate, bus
  <1>4. /\ FsContext'[f] = p
        /\ \A g \in File \ {f} : FsContext'[g] = FsContext[g]
    BY <1>3 DEF SInv, BInv, TypeOK
  <1>5. /\ dev'[p].fo = NoFile /\ dev'[p].life = "exists"
        /\ \A q \in Pdo \ {p} : dev'[q] = dev[q]
    BY <1>3 DEF SInv, BInv, TypeOK, Zeroed
  <1>6. /\ pc'[Req(f)] = "fields" /\ pdodata'[Req(f)] = p
        /\ \A u \in Thread \ {Req(f)} : pc'[u] = pc[u] /\ pdodata'[u] = pdodata[u]
    BY <1>3, Threads DEF SInv, BInv, TypeOK
  <1>7. /\ \A g \in File : pc'[Cln(g)] = pc[Cln(g)] /\ pdodata'[Cln(g)] = pdodata[Cln(g)]
        /\ \A g \in File \ {f} : pc'[Req(g)] = pc[Req(g)] /\ pdodata'[Req(g)] = pdodata[Req(g)]
    BY <1>6, Threads
  <1>8. HandlesOK'
    BY <1>1, <1>2, <1>3, <1>6, <1>7 DEF HInv, HandlesOK, HandleOK, Plugging
  <1>9. \A g \in File, q \in Pdo : RefersTo(g, q)' => RefersTo(g, q) \/ (g = f /\ q = p)
    BY <1>4, <1>5, <1>6, <1>7, BusAssumption DEF RefersTo
  <1>10. OwnersOK'
    BY <1>1, <1>5, <1>9 DEF HInv, OwnersOK
  <1>11. OrderlysOK'
    BY <1>1, <1>2, <1>3, <1>4, <1>6, <1>7 DEF HInv, OrderlysOK, OrderlyOK
  <1>12. AgreeOK'
    <2> SUFFICES ASSUME NEW g \in File \ history.overlapped, NEW q \in Pdo
                 PROVE  Agree(g, q)'
      BY <1>3 DEF AgreeOK
    <2>1. Agree(g, q) /\ ~ RefersTo(g, p)
      BY <1>1 DEF HInv, AgreeOK, OwnersOK
    <2> QED
      BY <1>3, <1>4, <1>5, <1>6, <1>7, <2>1, BusAssumption DEF Agree, RefersTo
  <1> QED
    BY <1>8, <1>10, <1>11, <1>12 DEF HInv

LEMMA PlugFieldsOwns ==
  ASSUME SInv, HInv, NEW t \in Thread, PlugFields(t)
  PROVE  HInv'
  <1>1. pc[t] = "fields"
    BY DEF PlugFields
  <1>2. PICK f \in File : t = Req(f)
    BY <1>1, Threads DEF HInv, HandlesOK, HandleOK
  <1> DEFINE p == pdodata[Req(f)]
             d == [Zeroed("exists") EXCEPT !.SerialNo = addr[t], !.fo = f,
                                           !.ParentFdo = TRUE, !.Present = TRUE]
  <1>3. /\ UNCHANGED <<FsContext, handle, fdo, history>>
        /\ dev' = [dev EXCEPT ![p] = d]
        /\ Goto(Req(f), "insert")
    BY <1>2, Threads DEF PlugFields, bus, files
  <1>4. p \in Pdo /\ dev[p].life = "exists"
    BY <1>1, <1>2 DEF SInv, BInv, LinksOK, PlugOK
  <1>5. d.fo = f /\ d.life = "exists"
    BY DEF Zeroed
  <1>6. /\ dev'[p].fo = f /\ dev'[p].life = "exists"
        /\ \A q \in Pdo \ {p} : dev'[q] = dev[q]
    BY <1>3, <1>4, <1>5 DEF SInv, BInv, TypeOK
  <1>7. /\ pc'[Req(f)] = "insert" /\ pdodata' = pdodata
        /\ \A g \in File : pc'[Cln(g)] = pc[Cln(g)]
        /\ \A g \in File \ {f} : pc'[Req(g)] = pc[Req(g)]
    BY <1>3, Moves, Threads DEF SInv, BInv
  <1>8. HandlesOK'
    BY <1>1, <1>2, <1>3, <1>7 DEF HInv, HandlesOK, HandleOK, Plugging
  <1>9. \A g \in File, q \in Pdo : RefersTo(g, q)' => RefersTo(g, q)
    BY <1>3, <1>6, <1>7 DEF RefersTo
  <1>10. OwnersOK'
    BY <1>4, <1>6, <1>9 DEF HInv, OwnersOK
  <1>11. OrderlysOK'
    BY <1>1, <1>2, <1>3, <1>7 DEF HInv, OrderlysOK, OrderlyOK
  <1>12. AgreeOK'
    <2> SUFFICES ASSUME NEW g \in File \ history.overlapped, NEW q \in Pdo
                 PROVE  Agree(g, q)'
      BY <1>3 DEF AgreeOK
    <2>1. Agree(g, q)
      BY DEF HInv, AgreeOK
    <2>2. RefersTo(g, p) => g = f
      BY <1>4 DEF HInv, OwnersOK, RefersTo
    <2>3. g = f => FsContext[f] = p
      BY <1>1, <1>2 DEF HInv, OrderlysOK, OrderlyOK
    <2> QED
      BY <1>3, <1>6, <1>7, <2>1, <2>2, <2>3 DEF Agree, RefersTo
  <1> QED
    BY <1>8, <1>10, <1>11, <1>12 DEF HInv

(* REMOVE_DEVICE deletes the PDO: no thread that plugs in stands at it, so *)
(* a file object that points to it is the one it points to.                *)
LEMMA DestroyOwns ==
  ASSUME SInv, HInv, DestroyTest \/ DestroyClear
  PROVE  HInv'
  <1> PICK p \in Pdo : p = pnp.pdo
    BY DEF SInv, BInv, LinksOK, PnpOK, DestroyTest, DestroyClear
  <1>1. dev[p].life = "exists" /\ devnode[p] # "none"
    BY DEF SInv, BInv, LinksOK, PnpOK, DestroyTest, DestroyClear
  <1>2. UNCHANGED <<handle, fdo, pc, pdodata, history>>
    BY DEF DestroyTest, DestroyClear, bus, files, threads
  <1>3. CASE dev' = dev
    <2>1. FsContext' = FsContext
      <3>1. CASE DestroyTest
        BY <3>1 DEF DestroyTest, files
      <3>2. CASE DestroyClear
        <4>1. dev' = [dev EXCEPT ![p] = Freed(dev[p])] /\ dev[p] \in Extension
          BY <3>2 DEF DestroyClear, SInv, BInv, TypeOK
        <4> QED
          BY <1>1, <1>3, <4>1, FreedTyped DEF SInv, BInv, TypeOK
      <3> QED
        BY <3>1, <3>2
    <2> QED
      BY <1>2, <1>3, <2>1, QuietKeeps DEF SameOwners, SamePlaces
  <1>4. CASE dev' # dev
    <2> DEFINE f == dev[p].fo
    <2>1. /\ dev' = [dev EXCEPT ![p] = Freed(dev[p])]
          /\ \A g \in File : FsContext'[g] = IF g = f THEN NoPdo ELSE FsContext[g]
      <3>1. CASE DestroyTest
        BY <1>4, <3>1, BusAssumption DEF DestroyTest, files
      <3>2. CASE DestroyClear
        BY <3>2 DEF DestroyClear, Forget
      <3> QED
        BY <3>1, <3>2
    <2>2. /\ dev'[p].fo = NoFile /\ dev'[p].life = "deleted"
          /\ \A q \in Pdo \ {p} : dev'[q] = dev[q]
      BY <2>1 DEF SInv, BInv, TypeOK, Freed, Extension
    <2>3. HandlesOK'
      BY <1>2 DEF HInv, HandlesOK, HandleOK
    <2>4. \A g \in File, q \in Pdo : RefersTo(g, q)' => RefersTo(g, q)
      BY <1>2, <2>1, <2>2, BusAssumption DEF RefersTo
    <2>5. OwnersOK'
      BY <2>2, <2>4 DEF HInv, OwnersOK
    <2>6. ASSUME NEW g \in File, pc[Req(g)] = "fields" PROVE pdodata[Req(g)] # p
      BY <1>1, <2>6, Threads DEF SInv, BInv, LinksOK, PlugOK
    <2>7. ASSUME NEW g \in File \ history.overlapped, NEW q \in Pdo PROVE Agree(g, q) /\ Agree(g, p)
      BY DEF HInv, AgreeOK
    <2>8. OrderlysOK'
      <3> SUFFICES ASSUME NEW g \in File \ history.overlapped PROVE OrderlyOK(g)'
        BY <1>2 DEF OrderlysOK
      <3>1. OrderlyOK(g) /\ Agree(g, p)
        BY <2>7 DEF HInv, OrderlysOK
      <3> QED
        BY <1>2, <2>1, <2>6, <3>1 DEF OrderlyOK, Agree
    <2>9. AgreeOK'
      <3> SUFFICES ASSUME NEW g \in File \ history.overlapped, NEW q \in Pdo
                   PROVE  Agree(g, q)'
        BY <1>2 DEF AgreeOK
      <3>1. pc[Req(g)] = "fields" => FsContext[g] = pdodata[Req(g)]
        BY DEF HInv, OrderlysOK, OrderlyOK
      <3> QED
        BY <1>2, <2>1, <2>2, <2>6, <2>7, <3>1, BusAssumption DEF Agree
    <2> QED
      BY <2>3, <2>5, <2>8, <2>9 DEF HInv
  <1> QED
    BY <1>3, <1>4

(* The removal of the bus finds every handle closed.                       *)
LEMMA FdoRemoveOwns ==
  ASSUME SInv, HInv, FdoRemove
  PROVE  HInv'
  <1>1. /\ UNCHANGED <<FsContext, handle, pc, pdodata>>
        /\ history'.overlapped = history.overlapped
        /\ \A f \in File : handle[f] = "closed"
    BY DEF FdoRemove, Note, files, threads, SInv, BInv, TypeOK
  <1>2. ASSUME NEW p \in Pdo
        PROVE  /\ dev'[p].fo \in {dev[p].fo, NoFile}
               /\ dev'[p].life = "none" => dev[p].life = "none"
    <2>1. dev'[p] \in {dev[p], Orphaned(dev[p]), Freed(dev[p])} /\ dev[p] \in Extension
      BY DEF FdoRemove, SInv, BInv, TypeOK
    <2> QED
      BY <2>1 DEF Orphaned, Freed, Extension
  <1>3. HandlesOK'
    BY <1>1 DEF HInv, HandlesOK, HandleOK
  <1>4. \A g \in File, q \in Pdo : RefersTo(g, q)' => RefersTo(g, q)
    BY <1>1, <1>2, BusAssumption DEF RefersTo
  <1>5. OwnersOK'
    BY <1>2, <1>4 DEF HInv, OwnersOK
  <1>6. OrderlysOK'
    BY <1>1 DEF HInv, OrderlysOK, OrderlyOK
  <1>7. \A f \in File \ history.overlapped : FsContext[f] = NoPdo
    BY <1>1 DEF HInv, HandlesOK, HandleOK, OrderlysOK, OrderlyOK
  <1>8. AgreeOK'
    BY <1>1, <1>2, <1>7, BusAssumption DEF HInv, AgreeOK, Agree
  <1> QED
    BY <1>3, <1>5, <1>6, <1>8 DEF HInv

-----------------------------------------------------------------------------
(* The steps of the PnP manager                                            *)

(* It sets the state, restores it or leaves it.                            *)
StateStep(p) ==
    \/ \E s \in PnPState : SET_NEW_PNP_STATE(p, s)
    \/ RESTORE_PREVIOUS_PNP_STATE(p)
    \/ UNCHANGED dev

LEMMA StateSteps ==
  ASSUME SInv, NEW p \in Pdo, StateStep(p)
  PROVE  \A q \in Pdo : SameDevice(dev[q], dev'[q])
  <1>1. dev \in [Pdo -> Extension] /\ \A q \in Pdo : dev[q] \in Extension
    BY DEF SInv, BInv, TypeOK
  <1>2. ASSUME NEW s \in PnPState, SET_NEW_PNP_STATE(p, s)
        PROVE  \A q \in Pdo : SameDevice(dev[q], dev'[q])
    <2>1. dev' = [dev EXCEPT ![p] = WithState(dev[p], s)]
      BY <1>2 DEF SET_NEW_PNP_STATE
    <2>2. \A q \in Pdo : dev'[q] \in {dev[q], WithState(dev[q], s)}
      BY <1>1, <2>1
    <2> QED
      BY <1>1, <2>2, WithStateSame DEF SameDevice
  <1>3. CASE RESTORE_PREVIOUS_PNP_STATE(p)
    <2>1. dev' = [dev EXCEPT ![p] = [dev[p] EXCEPT !.DevicePnPState = dev[p].PreviousPnPState]]
      BY <1>3 DEF RESTORE_PREVIOUS_PNP_STATE
    <2>2. \A q \in Pdo : dev'[q] \in
              {dev[q], [dev[q] EXCEPT !.DevicePnPState = dev[q].PreviousPnPState]}
      BY <1>1, <2>1
    <2> QED
      BY <1>1, <2>2 DEF Extension, SameDevice
  <1>4. CASE UNCHANGED dev
    BY <1>4 DEF SameDevice
  <1> QED
    BY <1>2, <1>3, <1>4 DEF StateStep

LEMMA IrpStep ==
  ASSUME NEW p \in Pdo,
         \/ START_DEVICE(p) \/ QUERY_STOP_DEVICE(p) \/ CANCEL_STOP_DEVICE(p) \/ STOP_DEVICE(p)
         \/ QUERY_REMOVE_DEVICE(p) \/ CANCEL_REMOVE_DEVICE(p)
         \/ SURPRISE_REMOVAL(p) \/ REMOVE_DEVICE(p)
  PROVE  StateStep(p)
  <1>1. {"Started", "StopPending", "Stopped", "RemovePending", "SurpriseRemovePending",
         "Deleted", "NotStarted"} \subseteq PnPState
    BY DEF PnPState
  <1>2. CASE REMOVE_DEVICE(p)
    BY <1>1, <1>2 DEF REMOVE_DEVICE, StateStep
  <1> QED
    BY <1>1, <1>2 DEF START_DEVICE, QUERY_STOP_DEVICE, CANCEL_STOP_DEVICE, STOP_DEVICE,
       QUERY_REMOVE_DEVICE, CANCEL_REMOVE_DEVICE, SURPRISE_REMOVAL, StateStep

PnpStep ==
    \/ \E p \in Pdo : Manage(p) \/ InterfaceReference(p) \/ InterfaceDereference(p)
    \/ RemoveDelink \/ QueryBusRelations \/ QueryBusRelationsFails
    \/ BusGoes \/ FdoSurpriseRemoval

(* No thread and no handle is touched, and of the devices only their PnP   *)
(* state, but for a device that is ejected and what the bus reports.       *)
PnpLeaves ==
    /\ SameOwners /\ SamePlaces
    /\ UNCHANGED <<pending_read_irp, addr>>
    /\ history.ejected \subseteq history'.ejected
    /\ history.orphan \subseteq history'.orphan
    /\ UNCHANGED <<history.detached, history.late, history.raced>>
    /\ \A p \in Pdo :
          /\ dev'[p].SerialNo = dev[p].SerialNo
          /\ \/ dev'[p].Present = dev[p].Present
             \/ ~ dev'[p].Present /\ p \in history'.ejected

LEMMA PnpStepLeaves ==
  ASSUME SInv, PnpStep
  PROVE  PnpLeaves
  <1>1. dev \in [Pdo -> Extension] /\ \A q \in Pdo : dev[q] \in Extension
    BY DEF SInv, BInv, TypeOK
  <1>2. ASSUME NEW p \in Pdo,
               \/ START_DEVICE(p) \/ QUERY_STOP_DEVICE(p) \/ CANCEL_STOP_DEVICE(p) \/ STOP_DEVICE(p)
               \/ QUERY_REMOVE_DEVICE(p) \/ CANCEL_REMOVE_DEVICE(p)
               \/ SURPRISE_REMOVAL(p) \/ REMOVE_DEVICE(p)
        PROVE  PnpLeaves
    <2>1. \A q \in Pdo : SameDevice(dev[q], dev'[q])
      BY <1>2, IrpStep, StateSteps
    <2>2. UNCHANGED <<fdo, files, pending_read_irp, threads, history>>
      BY <1>2 DEF START_DEVICE, QUERY_STOP_DEVICE, CANCEL_STOP_DEVICE, STOP_DEVICE,
         QUERY_REMOVE_DEVICE, CANCEL_REMOVE_DEVICE, SURPRISE_REMOVAL, REMOVE_DEVICE, PnpSends, bus
    <2> QED
      BY <2>1, <2>2 DEF PnpLeaves, SameOwners, SamePlaces, SameDevice, files, threads
  <1>3. ASSUME NEW p \in Pdo, EJECT(p) PROVE PnpLeaves
    <2>1. \A q \in Pdo : dev'[q] = IF q = p THEN [dev[q] EXCEPT !.Present = FALSE] ELSE dev[q]
      BY <1>1, <1>3 DEF EJECT
    <2>2. UNCHANGED <<fdo, files, pending_read_irp, threads>> /\ Note("ejected", {p})
      BY <1>3 DEF EJECT, bus
    <2>3. /\ history'.ejected = history.ejected \cup {p}
          /\ UNCHANGED <<history.orphan, history.detached, history.late, history.raced,
                         history.overlapped>>
      BY <2>2 DEF Note, SInv, BInv, TypeOK
    <2> QED
      BY <1>1, <2>1, <2>2, <2>3 DEF PnpLeaves, SameOwners, SamePlaces, Extension, files, threads
  <1>4. ASSUME NEW p \in Pdo, InterfaceReference(p) \/ InterfaceDereference(p) PROVE PnpLeaves
    <2>1. PICK n \in 0 .. 1 : dev' = [dev EXCEPT ![p].InterfaceRefCount = n]
      BY <1>4 DEF InterfaceReference, InterfaceDereference
    <2>2. \A q \in Pdo : dev'[q] \in {dev[q], [dev[q] EXCEPT !.InterfaceRefCount = n]}
      BY <1>1, <2>1
    <2>3. \A q \in Pdo : SameDevice(dev[q], dev'[q])
      BY <1>1, <2>2 DEF SameDevice, Extension
    <2>4. UNCHANGED <<fdo, files, pending_read_irp, threads, history>>
      BY <1>4 DEF InterfaceReference, InterfaceDereference, bus
    <2> QED
      BY <2>3, <2>4 DEF PnpLeaves, SameOwners, SamePlaces, SameDevice, files, threads
  <1>5. CASE RemoveDelink \/ QueryBusRelationsFails \/ BusGoes
    <2>1. UNCHANGED <<fdo, dev, files, pending_read_irp, threads>>
      BY <1>5 DEF RemoveDelink, QueryBusRelationsFails, BusGoes, bus
    <2>2. history' = history \/ history' = [history EXCEPT !.query_failed = TRUE]
      BY <1>5 DEF RemoveDelink, QueryBusRelationsFails, BusGoes
    <2>3. UNCHANGED <<history.ejected, history.orphan, history.detached, history.late,
                      history.raced, history.overlapped>>
      BY <2>2 DEF SInv, BInv, TypeOK
    <2> QED
      BY <2>1, <2>3 DEF PnpLeaves, SameOwners, SamePlaces, files, threads
  <1>6. CASE QueryBusRelations
    <2>1. \A q \in Pdo : dev'[q] \in {dev[q], [dev[q] EXCEPT !.ReportedMissing = TRUE]}
      BY <1>6 DEF QueryBusRelations
    <2>2. UNCHANGED <<fdo, files, pending_read_irp, threads, history>>
      BY <1>6 DEF QueryBusRelations, bus
    <2> QED
      BY <1>1, <2>1, <2>2 DEF PnpLeaves, SameOwners, SamePlaces, Extension, files, threads
  <1>7. CASE FdoSurpriseRemoval
    <2>1. \A q \in Pdo : dev'[q] \in {dev[q], Orphaned(dev[q])}
      BY <1>7 DEF FdoSurpriseRemoval
    <2>2. fdo' # "Deleted" /\ UNCHANGED <<files, pending_read_irp, threads>> /\ Note("orphan", Listed)
      BY <1>7 DEF FdoSurpriseRemoval
    <2>3. /\ history'.orphan = history.orphan \cup Listed
          /\ UNCHANGED <<history.ejected, history.detached, history.late, history.raced,
                         history.overlapped>>
      BY <2>2 DEF Note, SInv, BInv, TypeOK
    <2> QED
      BY <1>1, <2>1, <2>2, <2>3, OrphanedSame DEF PnpLeaves, SameOwners, SamePlaces, files, threads
  <1> QED
    BY <1>2, <1>3, <1>4, <1>5, <1>6, <1>7 DEF PnpStep, Manage, Retire

LEMMA HInvInit == Init => HInv
  <1> SUFFICES ASSUME Init PROVE HInv
    OBVIOUS
  <1>1. HandlesOK
    BY Threads DEF Init, HandlesOK, HandleOK
  <1>2. OwnersOK /\ OrderlysOK /\ AgreeOK
    BY Threads, BusAssumption DEF Init, OwnersOK, RefersTo, OrderlysOK, OrderlyOK, AgreeOK, Agree, Zeroed
  <1> QED
    BY <1>1, <1>2 DEF HInv

LEMMA HInvNext == SInv /\ HInv /\ [Next]_vars => HInv'
  <1> SUFFICES ASSUME SInv, HInv, [Next]_vars PROVE HInv'
    OBVIOUS
  <1>1. ASSUME NEW t \in Thread, Continue(t) PROVE HInv'
    BY <1>1, RequestEnds, PlugCreateOwns, PlugFieldsOwns, UnplugSettleOwns, CleanupDetachOwns,
       CleanupUnplugOwns DEF Continue, Plug
  <1>2. ASSUME NEW f, NEW a, Bus_EjectDevice(f, a) PROVE HInv'
    BY <1>2, QuietKeeps DEF Bus_EjectDevice, SameOwners, SamePlaces, bus, files, threads
  <1>3. ASSUME NEW f \in File, Program(f) PROVE HInv'
    BY <1>2, <1>3, PlugCheckOwns, UnplugRequestOwns, ReadCheckOwns, CleanupOwns, CloseOwns
    DEF Program
  <1>4. CASE PnpStep
    BY <1>4, PnpStepLeaves, QuietKeeps DEF PnpLeaves
  <1>5. ASSUME NEW p \in Pdo, ReadAnswered(p) PROVE HInv'
    BY <1>5, QuietKeeps DEF ReadAnswered, SameOwners, SamePlaces, bus, files, threads
  <1>6. CASE Finish
    BY <1>4, <1>6, DestroyOwns DEF Finish, PnpStep
  <1>7. CASE UNCHANGED vars
    BY <1>7, QuietKeeps DEF vars, SameOwners, SamePlaces, bus, files, threads
  <1> QED
    BY <1>1, <1>3, <1>4, <1>5, <1>6, <1>7, FdoRemoveOwns DEF Next, PnpStep

LEMMA HInvInductive == Spec => [](SInv /\ HInv)
  <1>1. Init => SInv /\ HInv
    BY SInvInit, HInvInit
  <1>2. SInv /\ HInv /\ [Next]_vars => (SInv /\ HInv)'
    BY SInvNext, HInvNext
  <1> QED
    BY <1>1, <1>2, PTL DEF Spec

(* FsContext of the file object and fo of the device point at each other   *)
(* between any two steps of plug-in (vhci_plugin.c:90-97), cleanup         *)
(* (vhci.c:144-147) and Bus_DestroyPdo (vhci_pnp.c:292-294), for every     *)
(* number of programs and devices: no handle that is closed without a      *)
(* request in progress is left with a device that was freed.               *)
THEOREM HandlesAgree == Spec => []FileAndDeviceAgree
  <1>1. HInv => FileAndDeviceAgree
    <2> SUFFICES ASSUME HInv, NEW f \in File \ history.overlapped, NEW p \in Pdo
                 PROVE  /\ FsContext[f] = p =>
                              /\ dev[p].life = "exists"
                              /\ dev[p].fo = f \/ pc[Req(f)] = "fields"
                        /\ dev[p].fo = f => FsContext[f] = p
      BY Zenon DEF FileAndDeviceAgree, Req
    <2> QED
      BY DEF HInv, AgreeOK, Agree
  <1> QED
    BY <1>1, HInvInductive, PTL

-----------------------------------------------------------------------------
(* Which uses of freed memory are possible                                 *)

(* REMOVE_DEVICE deletes only a PDO that was reported missing; it is not   *)
(* present, unless the bus was removed.                                    *)
MissingOK ==
    /\ \A p \in Pdo : dev[p].ReportedMissing => ~ dev[p].Present \/ p \in history.orphan
    /\ pnp.at # "idle" => dev[pnp.pdo].ReportedMissing

(* Devices that somebody else unplugged or ejected, or that lost their bus *)
Known == history.detached \cup history.ejected \cup history.orphan

(* A handle that still has something to do with its device                 *)
Engaged(f, p) ==
    \/ dev[p].fo = f
    \/ pc[Req(f)] = "read" /\ pdodata[Req(f)] = p
    \/ pc[Cln(f)] \in {"detach", "unplug"} /\ pdodata[Cln(f)] = p

EngagedOK ==
    /\ \A p \in Pdo \ Known : \A f \in File :
          Engaged(f, p) => dev[p].life = "exists" /\ dev[p].Present
    /\ pnp.at = "clear" => pnp.pdo \in Known

EInv == MissingOK /\ (history.overlapped = {} => EngagedOK)

LEMMA MissingKept ==
  ASSUME SInv, MissingOK, pnp' = pnp, history.orphan \subseteq history'.orphan,
         \A p \in Pdo :
            \/ /\ dev'[p].ReportedMissing = dev[p].ReportedMissing
               /\ dev'[p].Present => dev[p].Present
            \/ devnode[p] = "none" /\ ~ dev'[p].ReportedMissing
  PROVE  MissingOK'
  <1>1. pnp.at # "idle" => pnp.pdo \in Pdo /\ devnode[pnp.pdo] # "none" /\ dev[pnp.pdo].ReportedMissing
    BY DEF MissingOK, SInv, BInv, LinksOK, PnpOK
  <1>2. \A p \in Pdo : dev'[p].ReportedMissing => ~ dev'[p].Present \/ p \in history'.orphan
    BY DEF MissingOK
  <1>3. pnp'.at # "idle" => dev'[pnp'.pdo].ReportedMissing
    BY <1>1
  <1> QED
    BY <1>2, <1>3 DEF MissingOK

(* The threads and the extensions in the steps of programs                 *)
LEMMA MarkedMissing ==
  ASSUME SInv, MissingOK, NEW t, NEW a, UnplugMark(t, a)
  PROVE  MissingOK'
  <1>1. \A p \in Pdo : dev'[p] \in {dev[p], [dev[p] EXCEPT !.Present = FALSE]} /\ dev[p] \in Extension
    BY DEF UnplugMark, SInv, BInv, TypeOK
  <1>2. \A p \in Pdo : dev'[p].ReportedMissing = dev[p].ReportedMissing /\ (dev'[p].Present => dev[p].Present)
    BY <1>1 DEF Extension
  <1>3. pnp' = pnp /\ history'.orphan = history.orphan
    BY DEF UnplugMark, SInv, BInv, TypeOK
  <1> QED
    BY <1>2, <1>3, MissingKept

LEMMA MissingNext == SInv /\ HInv /\ MissingOK /\ [Next]_vars => MissingOK'
  <1> SUFFICES ASSUME SInv, HInv, MissingOK, [Next]_vars PROVE MissingOK'
    OBVIOUS
  <1>1. dev \in [Pdo -> Extension] /\ \A q \in Pdo : dev[q] \in Extension
    BY DEF SInv, BInv, TypeOK
  <1>2. ASSUME UNCHANGED <<dev, pnp>>, history'.orphan = history.orphan PROVE MissingOK'
    BY <1>2 DEF MissingOK
  <1>3. ASSUME NEW t \in Thread, Continue(t) PROVE MissingOK'
    <2>1. CASE PlugFails(t) \/ PlugInsert(t) \/ ReadProcess(t)
      BY <1>2, <2>1 DEF PlugFails, PlugInsert, ReadProcess, Note, manager, SInv, BInv, TypeOK
    <2>2. ASSUME NEW p \in Pdo, PlugCreate(t, p) PROVE MissingOK'
      <3>1. devnode[p] = "none"
        BY <2>2 DEF PlugCreate, SInv, BInv, LinksOK, UnknownOK
      <3>2. ~ dev'[p].ReportedMissing /\ \A q \in Pdo \ {p} : dev'[q] = dev[q]
        BY <1>1, <2>2 DEF PlugCreate, Zeroed
      <3>3. pnp' = pnp /\ history' = history
        BY <2>2 DEF PlugCreate, manager
      <3> QED
        BY <3>1, <3>2, <3>3, MissingKept
    <2>3. CASE PlugFields(t)
      <3> DEFINE p == pdodata[t]
                 d == [Zeroed("exists") EXCEPT !.SerialNo = addr[t], !.fo = t[1],
                                               !.ParentFdo = TRUE, !.Present = TRUE]
      <3>1. p \in Pdo /\ devnode[p] = "none"
        BY <2>3 DEF PlugFields, SInv, BInv, LinksOK, PlugOK
      <3>2. dev' = [dev EXCEPT ![p] = d] /\ ~ d.ReportedMissing
        BY <2>3 DEF PlugFields, Zeroed
      <3> HIDE DEF d
      <3>3. ~ dev'[p].ReportedMissing /\ \A q \in Pdo \ {p} : dev'[q] = dev[q]
        BY <1>1, <3>1, <3>2
      <3>4. pnp' = pnp /\ history' = history
        BY <2>3 DEF PlugFields, manager
      <3> QED
        BY <3>1, <3>3, <3>4, MissingKept
    <2>4. CASE UnplugSettle(t)
      <3>1. \A q \in Pdo : dev'[q] \in {dev[q], WithState(dev[q], "PNP_DEVICE_REMOVED")}
        BY <2>4 DEF UnplugSettle
      <3>2. \A q \in Pdo : dev'[q].ReportedMissing = dev[q].ReportedMissing /\ dev'[q].Present = dev[q].Present
        BY <1>1, <3>1, WithStateSame DEF SameDevice
      <3> QED
        BY <2>4, <3>2, MissingKept DEF UnplugSettle, manager
    <2>5. CASE CleanupDetach(t)
      <3>1. dev' = dev \/ dev' = [dev EXCEPT ![pdodata[t]] = Detached(dev[pdodata[t]])]
        BY <2>5 DEF CleanupDetach
      <3>2. \A q \in Pdo : dev'[q] \in {dev[q], Detached(dev[q])}
        BY <1>1, <3>1
      <3>3. \A q \in Pdo : dev'[q].ReportedMissing = dev[q].ReportedMissing /\ dev'[q].Present = dev[q].Present
        BY <1>1, <3>2 DEF Detached, Extension
      <3> QED
        BY <2>5, <3>3, MissingKept DEF CleanupDetach, manager
    <2>6. CASE CleanupUnplug(t)
      <3>1. CASE UnplugMark(t, dev[pdodata[t]].SerialNo)
        BY <3>1, MarkedMissing
      <3>2. CASE ~ UnplugMark(t, dev[pdodata[t]].SerialNo)
        BY <1>2, <2>6, <3>2 DEF CleanupUnplug, Note, manager, SInv, BInv, TypeOK
      <3> QED
        BY <3>1, <3>2
    <2> QED
      BY <1>3, <2>1, <2>2, <2>3, <2>4, <2>5, <2>6 DEF Continue, Plug
  <1>4. ASSUME NEW f \in File, Program(f) PROVE MissingOK'
    <2>1. ASSUME NEW a, UnplugRequest(f, a) PROVE MissingOK'
      BY <2>1, MarkedMissing DEF UnplugRequest
    <2>2. ASSUME NEW a, PlugCheck(f, a) \/ Bus_EjectDevice(f, a) PROVE MissingOK'
      BY <1>2, <2>2 DEF PlugCheck, Bus_EjectDevice, manager, SInv, BInv, TypeOK
    <2>3. CASE ReadCheck(f) \/ Cleanup(f) \/ Close(f)
      BY <1>2, <2>3 DEF ReadCheck, Cleanup, Close, Note, manager, SInv, BInv, TypeOK
    <2> QED
      BY <1>4, <2>1, <2>2, <2>3 DEF Program
  <1>5. ASSUME NEW p \in Pdo,
               \/ START_DEVICE(p) \/ QUERY_STOP_DEVICE(p) \/ CANCEL_STOP_DEVICE(p) \/ STOP_DEVICE(p)
               \/ QUERY_REMOVE_DEVICE(p) \/ CANCEL_REMOVE_DEVICE(p) \/ SURPRISE_REMOVAL(p)
        PROVE  MissingOK'
    <2>1. \A q \in Pdo : SameDevice(dev[q], dev'[q])
      BY <1>5, IrpStep, StateSteps
    <2>2. pnp' = pnp /\ history' = history
      BY <1>5 DEF START_DEVICE, QUERY_STOP_DEVICE, CANCEL_STOP_DEVICE, STOP_DEVICE,
         QUERY_REMOVE_DEVICE, CANCEL_REMOVE_DEVICE, SURPRISE_REMOVAL, PnpSends
    <2> QED
      BY <2>1, <2>2, MissingKept DEF SameDevice
  <1>6. ASSUME NEW p \in Pdo, REMOVE_DEVICE(p) PROVE MissingOK'
    <2>1. \A q \in Pdo : SameDevice(dev[q], dev'[q])
      BY <1>6, IrpStep, StateSteps
    <2>2. history' = history /\ pnp.at = "idle"
      BY <1>6 DEF REMOVE_DEVICE
    <2>3. pnp' = pnp \/ (dev[p].ReportedMissing /\ pnp' = [at |-> "delink", pdo |-> p])
      BY <1>6 DEF REMOVE_DEVICE, MustDelete
    <2> QED
      BY <2>1, <2>2, <2>3 DEF MissingOK, SameDevice
  <1>7. ASSUME NEW p \in Pdo, EJECT(p) PROVE MissingOK'
    <2>1. \A q \in Pdo : dev'[q] = IF q = p THEN [dev[q] EXCEPT !.Present = FALSE] ELSE dev[q]
      BY <1>1, <1>7 DEF EJECT
    <2>2. pnp' = pnp /\ history'.orphan = history.orphan
      BY <1>7 DEF EJECT, Note, SInv, BInv, TypeOK
    <2> QED
      BY <1>1, <2>1, <2>2, AbsentSame, MissingKept
  <1>8. ASSUME NEW p \in Pdo, InterfaceReference(p) \/ InterfaceDereference(p) PROVE MissingOK'
    <2>1. PICK n \in 0 .. 1 : dev' = [dev EXCEPT ![p].InterfaceRefCount = n]
      BY <1>8 DEF InterfaceReference, InterfaceDereference
    <2>2. \A q \in Pdo : dev'[q] \in {dev[q], [dev[q] EXCEPT !.InterfaceRefCount = n]}
      BY <1>1, <2>1
    <2>3. pnp' = pnp /\ history' = history
      BY <1>8 DEF InterfaceReference, InterfaceDereference, manager
    <2>4. \A q \in Pdo : SameDevice(dev[q], dev'[q])
      <3> SUFFICES ASSUME NEW q \in Pdo PROVE SameDevice(dev[q], dev'[q])
        OBVIOUS
      <3>1. SameDevice(dev[q], [dev[q] EXCEPT !.InterfaceRefCount = n]) /\ SameDevice(dev[q], dev[q])
        BY <1>1, CountedSame DEF SameDevice
      <3> QED
        BY <2>2, <3>1
    <2> QED
      BY <2>3, <2>4, MissingKept DEF SameDevice
  <1>9. ASSUME NEW p \in Pdo, ReadAnswered(p) PROVE MissingOK'
    BY <1>2, <1>9 DEF ReadAnswered, manager
  <1>10. CASE Finish
    <2>1. CASE RemoveDelink
      BY <2>1 DEF RemoveDelink, MissingOK, SInv, BInv, TypeOK
    <2>2. CASE DestroyTest \/ DestroyClear
      <3>1. \A q \in Pdo : dev'[q] \in {dev[q], Freed(dev[q])}
        BY <1>1, <2>2 DEF DestroyTest, DestroyClear
      <3>2. \A q \in Pdo : dev'[q].ReportedMissing = dev[q].ReportedMissing /\ dev'[q].Present = dev[q].Present
        BY <1>1, <3>1, FreedSame
      <3>3. /\ history' = history /\ pnp.at # "idle" /\ pnp.pdo \in Pdo
            /\ pnp'.at # "idle" => pnp'.pdo = pnp.pdo
        BY <2>2 DEF DestroyTest, DestroyClear, SInv, BInv, TypeOK, LinksOK, PnpOK
      <3> QED
        BY <3>2, <3>3 DEF MissingOK
    <2> QED
      BY <1>10, <2>1, <2>2 DEF Finish
  <1>11. CASE QueryBusRelations
    <2>1. \A q \in Pdo : dev'[q] = IF q \in Listed \ Reported
                                  THEN [dev[q] EXCEPT !.ReportedMissing = TRUE] ELSE dev[q]
      BY <1>11 DEF QueryBusRelations
    <2>2. pnp' = pnp /\ history' = history /\ pnp.at = "idle"
      BY <1>11 DEF QueryBusRelations
    <2> QED
      BY <1>1, <2>1, <2>2, MissingSame DEF MissingOK, Reported
  <1>12. CASE QueryBusRelationsFails \/ BusGoes \/ UNCHANGED vars
    BY <1>2, <1>12 DEF QueryBusRelationsFails, BusGoes, vars, manager, SInv, BInv, TypeOK
  <1>13. CASE FdoSurpriseRemoval
    <2>1. \A q \in Pdo : dev'[q] = IF q \in Listed THEN Orphaned(dev[q]) ELSE dev[q]
      BY <1>13 DEF FdoSurpriseRemoval
    <2>2. pnp' = pnp /\ history'.orphan = history.orphan \cup Listed /\ pnp.at = "idle"
      BY <1>13 DEF FdoSurpriseRemoval, Note, SInv, BInv, TypeOK
    <2> QED
      BY <1>1, <2>1, <2>2, OrphanedSame DEF MissingOK
  <1>14. CASE FdoRemove
    <2>1. \A q \in Pdo : \/ dev'[q] \in {dev[q], Freed(dev[q])}
                         \/ q \in Spared /\ dev'[q] = Orphaned(dev[q])
      BY <1>14 DEF FdoRemove
    <2>2. pnp' = pnp /\ history'.orphan = history.orphan \cup Spared /\ pnp.at = "idle"
      BY <1>14 DEF FdoRemove, Note, SInv, BInv, TypeOK
    <2> QED
      BY <1>1, <2>1, <2>2, OrphanedSame, FreedSame DEF MissingOK
  <1> QED
    BY <1>3, <1>4, <1>5, <1>6, <1>7, <1>8, <1>9, <1>10, <1>11, <1>12, <1>13, <1>14
    DEF Next, Manage, Retire

LEMMA EngagedKept ==
  ASSUME EngagedOK, Known \subseteq Known',
         \A f \in File, p \in Pdo \ Known' :
             Engaged(f, p)' => \/ /\ Engaged(f, p)
                                  /\ dev'[p].life = dev[p].life
                                  /\ dev[p].Present => dev'[p].Present
                               \/ dev'[p].life = "exists" /\ dev'[p].Present,
         pnp'.at = "clear" =>
             (pnp.at = "clear" /\ pnp'.pdo = pnp.pdo) \/ pnp'.pdo \in Known'
  PROVE  EngagedOK'
  BY DEF EngagedOK

(* Where a step leaves a thread, or the file object, of a device           *)
LEMMA EngagedThreads ==
  ASSUME NEW f \in File, NEW p \in Pdo, Engaged(f, p)', dev'[p].fo \in {dev[p].fo, NoFile},
         pc'[Req(f)] = "read" => pc[Req(f)] = "read" /\ pdodata'[Req(f)] = pdodata[Req(f)],
         pc'[Cln(f)] \in {"detach", "unplug"} =>
             pc[Cln(f)] \in {"detach", "unplug"} /\ pdodata'[Cln(f)] = pdodata[Cln(f)]
  PROVE  Engaged(f, p)
  BY BusAssumption DEF Engaged

LEMMA EngagedQuiet ==
  ASSUME EngagedOK, Known \subseteq Known',
         \A p \in Pdo \ Known' : /\ dev'[p].fo = dev[p].fo /\ dev'[p].life = dev[p].life
                                 /\ dev'[p].Present = dev[p].Present,
         \A f \in File :
             /\ pc'[Req(f)] = "read" => pc[Req(f)] = "read" /\ pdodata'[Req(f)] = pdodata[Req(f)]
             /\ pc'[Cln(f)] \in {"detach", "unplug"} =>
                   pc[Cln(f)] \in {"detach", "unplug"} /\ pdodata'[Cln(f)] = pdodata[Cln(f)],
         pnp'.at = "clear" => pnp.at = "clear" /\ pnp'.pdo = pnp.pdo
  PROVE  EngagedOK'
  <1>1. \A f \in File, p \in Pdo \ Known' : Engaged(f, p)' => Engaged(f, p)
    BY EngagedThreads
  <1> QED
    BY <1>1, EngagedKept

(* The device of a handle is not present once its own cleanup unplugs it,  *)
(* and every other device that this unplug takes was unplugged by somebody *)
(* else.                                                                   *)
LEMMA MarkedEngaged ==
  ASSUME SInv, HInv, EngagedOK, history.overlapped = {},
         NEW f \in File, NEW a, NEW t \in {Req(f), Cln(f)}, UnplugMark(t, a),
         t = Req(f) => pdodata[t] = NoPdo,
         t = Cln(f) => pc[t] = "unplug"
  PROVE  EngagedOK'
  <1>1. /\ history'.detached = history.detached \cup (Chosen(a) \ {pdodata[t]})
        /\ history'.ejected = history.ejected /\ history'.orphan = history.orphan
        /\ pnp' = pnp /\ pdodata' = pdodata
    BY DEF UnplugMark, Goto, SInv, BInv, TypeOK
  <1>2. Known' = Known \cup (Chosen(a) \ {pdodata[t]})
    BY <1>1 DEF Known
  <1>3. /\ \A p \in Pdo : dev'[p] = IF p \in Chosen(a) THEN [dev[p] EXCEPT !.Present = FALSE] ELSE dev[p]
        /\ \A p \in Pdo : dev[p] \in Extension
    BY DEF UnplugMark, SInv, BInv, TypeOK
  <1>4. \A p \in Pdo : /\ dev'[p].fo = dev[p].fo /\ dev'[p].life = dev[p].life
                       /\ p \in Known' \/ p = pdodata[t] \/ dev'[p].Present = dev[p].Present
    BY <1>2, <1>3 DEF Extension
  <1>5. t \in Thread /\ pc'[t] = "settle" /\ \A u \in Thread \ {t} : pc'[u] = pc[u]
    BY Moves, Threads DEF UnplugMark, SInv, BInv
  <1>6. ASSUME NEW g \in File, NEW p \in Pdo, Engaged(g, p)'
        PROVE  Engaged(g, p)
    <2>1. /\ pc'[Req(g)] = "read" => pc[Req(g)] = "read"
          /\ pc'[Cln(g)] \in {"detach", "unplug"} => pc[Cln(g)] \in {"detach", "unplug"}
      BY <1>5, Threads
    <2> QED
      BY <1>1, <1>4, <1>6, <2>1 DEF Engaged
  <1>7. ASSUME NEW g \in File, NEW p \in Pdo, p = pdodata[t] PROVE ~ Engaged(g, p)'
    <2>1. t = Cln(f) /\ pc[Cln(f)] = "unplug" /\ pdodata[Cln(f)] = p
      BY <1>7, BusAssumption
    <2>2. FsContext[f] = NoPdo /\ pc[Req(f)] = "idle" /\ Agree(f, p)
      BY <2>1 DEF HInv, OrderlysOK, OrderlyOK, AgreeOK
    <2>3. RefersTo(g, p) => g = f
      BY <2>1 DEF HInv, OwnersOK, RefersTo
    <2>4. Engaged(g, p)' => RefersTo(g, p)
      BY <1>1, <1>4 DEF Engaged, RefersTo
    <2>5. dev[p].fo # f
      BY <2>2, BusAssumption DEF Agree
    <2>6. pc'[Req(f)] = "idle" /\ pc'[Cln(f)] = "settle"
      BY <1>5, <2>1, <2>2, Threads
    <2> QED
      BY <1>4, <2>3, <2>4, <2>5, <2>6 DEF Engaged
  <1> QED
    BY <1>1, <1>2, <1>4, <1>6, <1>7, EngagedKept

LEMMA ContinueEngaged ==
  ASSUME SInv, HInv, EngagedOK, history.overlapped = {}, NEW t \in Thread, Continue(t)
  PROVE  EngagedOK'
  <1>1. dev \in [Pdo -> Extension] /\ \A q \in Pdo : dev[q] \in Extension
    BY DEF SInv, BInv, TypeOK
  <1>2. CASE PlugFails(t) \/ PlugInsert(t) \/ ReadProcess(t)
    <2>1. UNCHANGED <<dev, pnp>> /\ Return(t)
      BY <1>2 DEF PlugFails, PlugInsert, ReadProcess, manager
    <2>2. Known' = Known
      BY <1>2 DEF PlugFails, PlugInsert, ReadProcess, Note, Known, SInv, BInv, TypeOK
    <2>3. \A f \in File :
             /\ pc'[Req(f)] = "read" => pc[Req(f)] = "read" /\ pdodata'[Req(f)] = pdodata[Req(f)]
             /\ pc'[Cln(f)] \in {"detach", "unplug"} =>
                   pc[Cln(f)] \in {"detach", "unplug"} /\ pdodata'[Cln(f)] = pdodata[Cln(f)]
      BY <2>1, Returns, Threads DEF SInv, BInv
    <2> QED
      BY <2>1, <2>2, <2>3, EngagedQuiet
  <1>3. ASSUME NEW p \in Pdo, PlugCreate(t, p) PROVE EngagedOK'
    <2>1. /\ pc' = [pc EXCEPT ![t] = "fields"] /\ pdodata' = [pdodata EXCEPT ![t] = p]
          /\ dev[p].life = "none" /\ dev' = [dev EXCEPT ![p] = Zeroed("exists")]
          /\ pnp' = pnp /\ history' = history
      BY <1>3 DEF PlugCreate, manager
    <2>2. \A f \in File :
             /\ pc'[Req(f)] = "read" => pc[Req(f)] = "read" /\ pdodata'[Req(f)] = pdodata[Req(f)]
             /\ pc'[Cln(f)] \in {"detach", "unplug"} =>
                   pc[Cln(f)] \in {"detach", "unplug"} /\ pdodata'[Cln(f)] = pdodata[Cln(f)]
      BY <2>1, Threads DEF SInv, BInv, TypeOK
    <2>3. dev'[p].fo = NoFile /\ \A q \in Pdo \ {p} : dev'[q] = dev[q]
      BY <1>1, <2>1 DEF Zeroed
    <2>4. \A f \in File, q \in Pdo : Engaged(f, q)' => Engaged(f, q)
      BY <2>2, <2>3, EngagedThreads
    <2>5. \A f \in File : ~ Engaged(f, p)
      BY <2>1 DEF HInv, OwnersOK, RefersTo, Engaged
    <2>6. Known' = Known
      BY <2>1 DEF Known
    <2> QED
      BY <2>1, <2>3, <2>4, <2>5, <2>6, EngagedKept
  <1>4. CASE PlugFields(t)
    <2> DEFINE p == pdodata[t]
               d == [Zeroed("exists") EXCEPT !.SerialNo = addr[t], !.fo = t[1],
                                             !.ParentFdo = TRUE, !.Present = TRUE]
    <2>1. /\ p \in Pdo /\ dev' = [dev EXCEPT ![p] = d] /\ Goto(t, "insert")
          /\ pnp' = pnp /\ history' = history
      BY <1>4 DEF PlugFields, manager, SInv, BInv, LinksOK, PlugOK
    <2>2. d.life = "exists" /\ d.Present
      BY DEF Zeroed
    <2>3. /\ dev'[p].life = "exists" /\ dev'[p].Present
          /\ \A q \in Pdo \ {p} : dev'[q] = dev[q]
      BY <1>1, <2>1, <2>2
    <2>4. \A f \in File :
             /\ pc'[Req(f)] = "read" => pc[Req(f)] = "read" /\ pdodata'[Req(f)] = pdodata[Req(f)]
             /\ pc'[Cln(f)] \in {"detach", "unplug"} =>
                   pc[Cln(f)] \in {"detach", "unplug"} /\ pdodata'[Cln(f)] = pdodata[Cln(f)]
      BY <2>1, Moves, Threads DEF SInv, BInv
    <2>5. \A f \in File, q \in Pdo \ {p} : Engaged(f, q)' => Engaged(f, q)
      BY <2>3, <2>4, EngagedThreads
    <2>6. Known' = Known
      BY <2>1 DEF Known
    <2> QED
      BY <2>1, <2>3, <2>5, <2>6, EngagedKept
  <1>5. CASE UnplugSettle(t)
    <2>1. /\ \A q \in Pdo : dev'[q] \in {dev[q], WithState(dev[q], "PNP_DEVICE_REMOVED")}
          /\ Return(t) /\ pnp' = pnp /\ history' = history
      BY <1>5 DEF UnplugSettle, manager
    <2>2. \A q \in Pdo : /\ dev'[q].fo = dev[q].fo /\ dev'[q].life = dev[q].life
                         /\ dev'[q].Present = dev[q].Present
      BY <1>1, <2>1, WithStateSame DEF SameDevice
    <2>3. \A f \in File :
             /\ pc'[Req(f)] = "read" => pc[Req(f)] = "read" /\ pdodata'[Req(f)] = pdodata[Req(f)]
             /\ pc'[Cln(f)] \in {"detach", "unplug"} =>
                   pc[Cln(f)] \in {"detach", "unplug"} /\ pdodata'[Cln(f)] = pdodata[Cln(f)]
      BY <2>1, Returns, Threads DEF SInv, BInv
    <2>4. Known' = Known
      BY <2>1 DEF Known
    <2> QED
      BY <2>1, <2>2, <2>3, <2>4, EngagedQuiet
  <1>6. CASE CleanupDetach(t)
    <2>1. /\ dev' = dev \/ dev' = [dev EXCEPT ![pdodata[t]] = Detached(dev[pdodata[t]])]
          /\ Return(t) \/ Goto(t, "unplug")
          /\ pc[t] = "detach" /\ pnp' = pnp /\ history' = history
      BY <1>6 DEF CleanupDetach, manager
    <2>2. \A q \in Pdo : dev'[q] \in {dev[q], Detached(dev[q])}
      BY <1>1, <2>1
    <2>3. \A q \in Pdo : /\ dev'[q].fo \in {dev[q].fo, NoFile} /\ dev'[q].life = dev[q].life
                         /\ dev'[q].Present = dev[q].Present
      BY <1>1, <2>2 DEF Detached, Extension
    <2>4. \A f \in File :
             /\ pc'[Req(f)] = "read" => pc[Req(f)] = "read" /\ pdodata'[Req(f)] = pdodata[Req(f)]
             /\ pc'[Cln(f)] \in {"detach", "unplug"} =>
                   pc[Cln(f)] \in {"detach", "unplug"} /\ pdodata'[Cln(f)] = pdodata[Cln(f)]
      BY <2>1, Moves, Returns, Threads DEF SInv, BInv
    <2>5. Known' = Known
      BY <2>1 DEF Known
    <2>6. \A f \in File, q \in Pdo : Engaged(f, q)' => Engaged(f, q)
      BY <2>3, <2>4, EngagedThreads
    <2> QED
      BY <2>1, <2>3, <2>5, <2>6, EngagedKept
  <1>7. CASE CleanupUnplug(t)
    <2>1. pc[t] = "unplug"
      BY <1>7 DEF CleanupUnplug
    <2>2. PICK f \in File : t = Cln(f)
      BY <2>1, Threads DEF HInv, HandlesOK, HandleOK, Plugging
    <2>3. CASE UnplugMark(t, dev[pdodata[t]].SerialNo)
      BY <2>1, <2>2, <2>3, Threads, MarkedEngaged
    <2>4. CASE ~ UnplugMark(t, dev[pdodata[t]].SerialNo)
      <3>1. UNCHANGED <<dev, pnp>> /\ Return(t)
        BY <1>7, <2>4 DEF CleanupUnplug, manager
      <3>2. Known' = Known
        BY <1>7, <2>4 DEF CleanupUnplug, Note, Known, SInv, BInv, TypeOK
      <3>3. \A g \in File :
             /\ pc'[Req(g)] = "read" => pc[Req(g)] = "read" /\ pdodata'[Req(g)] = pdodata[Req(g)]
             /\ pc'[Cln(g)] \in {"detach", "unplug"} =>
                   pc[Cln(g)] \in {"detach", "unplug"} /\ pdodata'[Cln(g)] = pdodata[Cln(g)]
        BY <3>1, Returns, Threads DEF SInv, BInv
      <3> QED
        BY <3>1, <3>2, <3>3, EngagedQuiet
    <2> QED
      BY <2>3, <2>4
  <1> QED
    BY <1>2, <1>3, <1>4, <1>5, <1>6, <1>7 DEF Continue, Plug

LEMMA ProgramEngaged ==
  ASSUME SInv, HInv, EngagedOK, history.overlapped = {}, history'.overlapped = {},
         NEW f \in File, Program(f)
  PROVE  EngagedOK'
  <1>1. ASSUME NEW a, UnplugRequest(f, a) PROVE EngagedOK'
    <2>1. UnplugMark(Req(f), a) /\ pc[Req(f)] = "idle"
      BY <1>1 DEF UnplugRequest, Accepts, Req
    <2>2. pdodata[Req(f)] = NoPdo
      BY <2>1 DEF HInv, HandlesOK, HandleOK
    <2> QED
      BY <2>1, <2>2, MarkedEngaged, Threads
  <1>2. ASSUME NEW a, PlugCheck(f, a) PROVE EngagedOK'
    <2>1. /\ pc' = [pc EXCEPT ![Req(f)] = "create"] /\ UNCHANGED <<dev, pnp, pdodata>>
      BY <1>2 DEF PlugCheck, Req, manager
    <2>2. Known' = Known
      BY <1>2 DEF PlugCheck, Known, SInv, BInv, TypeOK
    <2>3. \A g \in File :
             /\ pc'[Req(g)] = "read" => pc[Req(g)] = "read"
             /\ pc'[Cln(g)] \in {"detach", "unplug"} => pc[Cln(g)] \in {"detach", "unplug"}
      BY <2>1, Threads DEF SInv, BInv, TypeOK
    <2> QED
      BY <2>1, <2>2, <2>3, EngagedQuiet
  <1>3. ASSUME NEW a, Bus_EjectDevice(f, a) PROVE EngagedOK'
    <2>1. UNCHANGED <<dev, pnp, pc, pdodata, history>>
      BY <1>3 DEF Bus_EjectDevice, threads
    <2> QED
      BY <2>1, EngagedQuiet DEF Known
  <1>4. CASE ReadCheck(f)
    <2> DEFINE p == FsContext[f]
    <2>1. /\ UNCHANGED <<dev, pnp, history>> /\ dev[p].life = "exists" /\ dev[p].Present /\ p \in Pdo
          /\ pc' = [pc EXCEPT ![Req(f)] = "read"] /\ pdodata' = [pdodata EXCEPT ![Req(f)] = p]
      BY <1>4 DEF ReadCheck, Req, manager, SInv, BInv, TypeOK
    <2>2. /\ pdodata'[Req(f)] = p
          /\ \A g \in File : pc'[Cln(g)] = pc[Cln(g)] /\ pdodata'[Cln(g)] = pdodata[Cln(g)]
          /\ \A g \in File \ {f} : pc'[Req(g)] = pc[Req(g)] /\ pdodata'[Req(g)] = pdodata[Req(g)]
      BY <2>1, Threads DEF SInv, BInv, TypeOK
    <2>3. \A g \in File, q \in Pdo : Engaged(g, q)' => Engaged(g, q) \/ q = p
      BY <2>1, <2>2 DEF Engaged
    <2> QED
      BY <2>1, <2>3, EngagedKept DEF Known
  <1>5. CASE Cleanup(f)
    <2>1. /\ UNCHANGED <<dev, pnp>> /\ handle[f] = "open"
          /\ pc' = [pc EXCEPT ![Cln(f)] = IF FsContext[f] = NoPdo THEN "done" ELSE "detach"]
          /\ pdodata' = [pdodata EXCEPT ![Cln(f)] = FsContext[f]]
          /\ pc[Req(f)] # "idle" => f \in history'.overlapped
      BY <1>5 DEF Cleanup, Note, Req, Cln, manager, SInv, BInv, TypeOK
    <2>2. Known' = Known
      BY <1>5 DEF Cleanup, Note, Known, SInv, BInv, TypeOK
    <2>3. /\ pdodata'[Cln(f)] = FsContext[f]
          /\ \A g \in File : pc'[Req(g)] = pc[Req(g)] /\ pdodata'[Req(g)] = pdodata[Req(g)]
          /\ \A g \in File \ {f} : pc'[Cln(g)] = pc[Cln(g)] /\ pdodata'[Cln(g)] = pdodata[Cln(g)]
      BY <2>1, Threads DEF SInv, BInv, TypeOK
    <2>4. ASSUME NEW q \in Pdo, FsContext[f] = q PROVE dev[q].fo = f
      BY <2>1, <2>4 DEF HInv, AgreeOK, Agree
    <2>5. \A g \in File, q \in Pdo : Engaged(g, q)' => Engaged(g, q)
      BY <2>1, <2>3, <2>4 DEF Engaged
    <2> QED
      BY <2>1, <2>2, <2>5, EngagedKept
  <1>6. CASE Close(f)
    <2>1. UNCHANGED <<dev, pnp, pc, pdodata, history>>
      BY <1>6 DEF Close, threads, manager
    <2> QED
      BY <2>1, EngagedQuiet DEF Known
  <1> QED
    BY <1>1, <1>2, <1>3, <1>4, <1>5, <1>6 DEF Program

(* REMOVE_DEVICE finds a file object at its PDO only when somebody else    *)
(* took the device away: the PDO is not present, and was when only its own *)
(* handle knew it.                                                         *)
LEMMA DestroyEngaged ==
  ASSUME SInv, HInv, MissingOK, EngagedOK, DestroyTest \/ DestroyClear
  PROVE  EngagedOK'
  <1> PICK p \in Pdo : p = pnp.pdo
    BY DEF SInv, BInv, LinksOK, PnpOK, DestroyTest, DestroyClear
  <1>1. dev \in [Pdo -> Extension] /\ \A q \in Pdo : dev[q] \in Extension
    BY DEF SInv, BInv, TypeOK
  <1>2. UNCHANGED <<pc, pdodata, history>> /\ pnp.at # "idle"
    BY DEF DestroyTest, DestroyClear, threads
  <1>3. \A q \in Pdo : dev'[q] = dev[q] \/ (q = p /\ dev'[q] = Freed(dev[q]))
    BY <1>1 DEF DestroyTest, DestroyClear
  <1>4. p \in Known \/ ~ dev[p].Present
    BY <1>2 DEF MissingOK, Known
  <1>5. ASSUME NEW f \in File, Engaged(f, p) PROVE p \in Known
    BY <1>4, <1>5 DEF EngagedOK
  <1>6. \A q \in Pdo : dev'[q].fo \in {dev[q].fo, NoFile}
    BY <1>1, <1>3, FreedSame
  <1>7. \A f \in File, q \in Pdo : Engaged(f, q)' => Engaged(f, q)
    BY <1>2, <1>6, EngagedThreads
  <1>8. pnp'.at = "clear" => DestroyTest /\ pnp'.pdo = p /\ dev[p].fo # NoFile
    BY DEF DestroyTest, DestroyClear, SInv, BInv, TypeOK
  <1>9. pnp'.at = "clear" => p \in Known
    <2>1. dev[p].fo \in File \cup {NoFile}
      BY <1>1 DEF Extension
    <2> QED
      BY <1>5, <1>8, <2>1 DEF Engaged
  <1>10. Known' = Known
    BY <1>2 DEF Known
  <1> QED
    BY <1>3, <1>5, <1>7, <1>8, <1>9, <1>10, EngagedKept

LEMMA FdoRemoveEngaged ==
  ASSUME SInv, HInv, EngagedOK, FdoRemove
  PROVE  EngagedOK'
  <1>1. dev \in [Pdo -> Extension] /\ \A q \in Pdo : dev[q] \in Extension
    BY DEF SInv, BInv, TypeOK
  <1>2. /\ UNCHANGED <<pc, pdodata, pnp>>
        /\ \A f \in File : handle[f] = "closed"
        /\ Known \subseteq Known'
    BY DEF FdoRemove, Note, Known, threads, SInv, BInv, TypeOK
  <1>3. \A q \in Pdo : dev'[q] \in {dev[q], Orphaned(dev[q]), Freed(dev[q])}
    BY DEF FdoRemove
  <1>4. \A q \in Pdo : \/ dev'[q].fo = NoFile
                       \/ /\ dev'[q].fo = dev[q].fo /\ dev'[q].life = dev[q].life
                          /\ dev'[q].Present = dev[q].Present
    BY <1>1, <1>3, OrphanedSame, FreedSame
  <1>5. \A f \in File : pc[Req(f)] = "idle" /\ pc[Cln(f)] = "done"
    BY <1>2 DEF HInv, HandlesOK, HandleOK
  <1>6. \A f \in File, q \in Pdo :
           Engaged(f, q)' => Engaged(f, q) /\ dev'[q].life = dev[q].life /\ dev'[q].Present = dev[q].Present
    BY <1>2, <1>4, <1>5, BusAssumption DEF Engaged
  <1> QED
    BY <1>2, <1>6, EngagedKept

LEMMA PnpStepEngaged ==
  ASSUME SInv, EngagedOK, PnpStep
  PROVE  EngagedOK'
  <1>1. PnpLeaves
    BY PnpStepLeaves
  <1>2. Known \subseteq Known' /\ history'.ejected \subseteq Known'
    BY <1>1 DEF PnpLeaves, Known
  <1>3. pnp'.at = "clear" => pnp.at = "clear" /\ pnp'.pdo = pnp.pdo
    <2>1. CASE RemoveDelink
      BY <2>1 DEF RemoveDelink, SInv, BInv, TypeOK
    <2>2. ASSUME NEW p \in Pdo, Manage(p) \/ InterfaceReference(p) \/ InterfaceDereference(p)
          PROVE  pnp' = pnp \/ pnp'.at # "clear"
      <3>1. CASE REMOVE_DEVICE(p)
        BY <3>1 DEF REMOVE_DEVICE
      <3> QED
        BY <2>2, <3>1 DEF Manage, Retire, START_DEVICE, QUERY_STOP_DEVICE, CANCEL_STOP_DEVICE,
           STOP_DEVICE, QUERY_REMOVE_DEVICE, CANCEL_REMOVE_DEVICE, SURPRISE_REMOVAL, PnpSends,
           EJECT, InterfaceReference, InterfaceDereference, manager
    <2> QED
      BY <2>1, <2>2 DEF PnpStep, QueryBusRelations, QueryBusRelationsFails, BusGoes, FdoSurpriseRemoval
  <1> QED
    BY <1>1, <1>2, <1>3, EngagedQuiet DEF PnpLeaves, SameOwners, SamePlaces

LEMMA OverlappedGrows ==
  ASSUME SInv, [Next]_vars
  PROVE  history.overlapped \subseteq history'.overlapped
  <1>1. ASSUME NEW t \in Thread, Continue(t) PROVE history.overlapped \subseteq history'.overlapped
    BY <1>1 DEF Continue, Plug, PlugFails, PlugCreate, PlugFields, PlugInsert, ReadProcess,
       UnplugSettle, CleanupDetach, CleanupUnplug, UnplugMark, Note, SInv, BInv, TypeOK
  <1>2. ASSUME NEW f \in File, Program(f) PROVE history.overlapped \subseteq history'.overlapped
    <2>1. ASSUME NEW a, PlugCheck(f, a) \/ Bus_EjectDevice(f, a)
          PROVE  history.overlapped \subseteq history'.overlapped
      BY <2>1 DEF PlugCheck, Bus_EjectDevice, SInv, BInv, TypeOK
    <2>2. ASSUME NEW a, UnplugRequest(f, a)
          PROVE  history.overlapped \subseteq history'.overlapped
      BY <2>2 DEF UnplugRequest, UnplugMark, SInv, BInv, TypeOK
    <2>3. CASE ReadCheck(f) \/ Cleanup(f) \/ Close(f)
      BY <2>3 DEF ReadCheck, Cleanup, Close, Note, SInv, BInv, TypeOK
    <2> QED
      BY <1>2, <2>1, <2>2, <2>3 DEF Program
  <1>3. CASE PnpStep
    BY <1>3, PnpStepLeaves DEF PnpLeaves, SameOwners
  <1>4. CASE FdoRemove
    BY <1>4 DEF FdoRemove, Note, SInv, BInv, TypeOK
  <1>5. history' = history => history.overlapped \subseteq history'.overlapped
    OBVIOUS
  <1> QED
    BY <1>1, <1>2, <1>3, <1>4, <1>5
    DEF Next, PnpStep, ReadAnswered, Finish, DestroyTest, DestroyClear, vars

LEMMA EInvNext == SInv /\ HInv /\ EInv /\ [Next]_vars => EInv'
  <1> SUFFICES ASSUME SInv, HInv, EInv, [Next]_vars PROVE EInv'
    OBVIOUS
  <1>1. MissingOK'
    BY MissingNext DEF EInv
  <1>2. ASSUME history'.overlapped = {} PROVE EngagedOK'
    <2>1. history.overlapped = {} /\ EngagedOK /\ MissingOK
      BY <1>2, OverlappedGrows DEF EInv
    <2>2. ASSUME UNCHANGED <<dev, pnp, pc, pdodata, history>> PROVE EngagedOK'
      BY <2>1, <2>2, EngagedQuiet DEF Known
    <2>3. ASSUME NEW p \in Pdo, ReadAnswered(p) PROVE EngagedOK'
      BY <2>2, <2>3 DEF ReadAnswered, threads, manager
    <2>4. CASE UNCHANGED vars
      BY <2>2, <2>4 DEF vars, threads, manager
    <2> QED
      BY <1>2, <2>1, <2>3, <2>4, ContinueEngaged, ProgramEngaged, PnpStepEngaged, DestroyEngaged,
         FdoRemoveEngaged DEF Next, PnpStep, Finish
  <1> QED
    BY <1>1, <1>2 DEF EInv

(* The steps that use what was freed.                                      *)
LEMMA FaultNext == SInv /\ HInv /\ EInv /\ FaultNeedsDetach /\ [Next]_vars => FaultNeedsDetach'
  <1> SUFFICES ASSUME SInv, HInv, EInv, FaultNeedsDetach, Next, fault = {},
                      NEW x \in fault', x[1] # "remove",
                      history'.overlapped = {}, history.overlapped = {}
               PROVE  x[2] \in Known'
    <2>1. CASE UNCHANGED vars
      BY <2>1 DEF vars, FaultNeedsDetach
    <2>2. CASE Next
      BY <2>2, OverlappedGrows DEF FaultNeedsDetach, Known, Next
    <2> QED
      BY <2>1, <2>2
  <1>1. EngagedOK /\ MissingOK
    BY DEF EInv
  <1>2. ASSUME NEW p \in Pdo, NEW f \in File, Engaged(f, p), dev[p].life = "deleted" PROVE p \in Known
    BY <1>1, <1>2 DEF EngagedOK
  <1>3. ASSUME NEW t \in Thread, Continue(t) PROVE x[2] \in Known'
    <2>1. PICK f \in File : t = Req(f) \/ t = Cln(f)
      BY Threads
    <2>2. CASE ReadProcess(t)
      <3>1. /\ x = <<"read", pdodata[t]>> /\ dev[pdodata[t]].life = "deleted"
            /\ pc[t] = "read" /\ history' = history
        BY <2>2 DEF ReadProcess
      <3>2. pdodata[t] \in Pdo /\ t = Req(f)
        BY <2>1, <3>1 DEF SInv, BInv, LinksOK, HoldsOK, HInv, HandlesOK, HandleOK
      <3> QED
        BY <1>2, <3>1, <3>2 DEF Engaged, Known
    <2>3. CASE CleanupDetach(t)
      <3>1. /\ x = <<"cleanup", pdodata[t]>> /\ dev[pdodata[t]].life = "deleted"
            /\ pc[t] = "detach" /\ history' = history
        BY <2>3 DEF CleanupDetach
      <3>2. pdodata[t] \in Pdo /\ t = Cln(f)
        BY <2>1, <3>1 DEF SInv, BInv, LinksOK, HoldsOK, HInv, HandlesOK, HandleOK, Plugging
      <3> QED
        BY <1>2, <3>1, <3>2 DEF Engaged, Known
    <2>4. CASE CleanupUnplug(t)
      <3>1. /\ x = <<"cleanup", pdodata[t]>> /\ dev[pdodata[t]].life = "deleted"
            /\ pc[t] = "unplug" /\ Known' = Known
        BY <2>4 DEF CleanupUnplug, UnplugMark, Note, Known, SInv, BInv, TypeOK
      <3>2. pdodata[t] \in Pdo /\ t = Cln(f)
        BY <2>1, <3>1 DEF SInv, BInv, LinksOK, HoldsOK, HInv, HandlesOK, HandleOK, Plugging
      <3> QED
        BY <1>2, <3>1, <3>2 DEF Engaged
    <2> QED
      BY <1>3, <2>2, <2>3, <2>4 DEF Continue, Plug, PlugFails, PlugCreate, PlugFields,
         PlugInsert, UnplugSettle
  <1>4. ASSUME NEW p \in Pdo, REMOVE_DEVICE(p) PROVE x[1] = "remove"
    BY <1>4 DEF REMOVE_DEVICE
  <1>5. CASE DestroyClear
    <2>1. pnp.pdo \in Known /\ history' = history
      BY <1>1, <1>5 DEF DestroyClear, EngagedOK
    <2>2. x \in {<<"null_fo", pnp.pdo>>, <<"closed_fo", pnp.pdo>>}
      BY <1>5 DEF DestroyClear
    <2> QED
      BY <2>1, <2>2 DEF Known
  <1>6. CASE FdoRemove
    <2>1. PICK p \in Listed : dev[p].fo # NoFile /\ x = <<"closed_fo", p>>
      BY <1>6 DEF FdoRemove
    <2>2. p \in Pdo /\ dev[p] \in Extension
      BY <2>1, ListedTyped DEF SInv, BInv, TypeOK
    <2>3. PICK f \in File : dev[p].fo = f
      BY <2>1, <2>2 DEF Extension
    <2>4. handle[f] = "closed"
      BY <1>6 DEF FdoRemove
    <2>5. FsContext[f] = NoPdo
      BY <2>4 DEF HInv, HandlesOK, HandleOK, OrderlysOK, OrderlyOK
    <2> QED
      BY <2>2, <2>3, <2>5, BusAssumption DEF HInv, AgreeOK, Agree
  <1>7. ASSUME NEW f \in File, Program(f) PROVE FALSE
    <2>1. ASSUME NEW a, PlugCheck(f, a) \/ Bus_EjectDevice(f, a) \/ UnplugRequest(f, a) PROVE FALSE
      BY <2>1 DEF PlugCheck, Bus_EjectDevice, UnplugRequest, UnplugMark
    <2>2. CASE ReadCheck(f) \/ Cleanup(f) \/ Close(f)
      BY <2>2 DEF ReadCheck, Cleanup, Close
    <2> QED
      BY <1>7, <2>1, <2>2 DEF Program
  <1>8. ASSUME NEW p \in Pdo, Manage(p), ~ REMOVE_DEVICE(p) PROVE FALSE
    BY <1>8 DEF Manage, Retire, START_DEVICE, QUERY_STOP_DEVICE, CANCEL_STOP_DEVICE, STOP_DEVICE,
       QUERY_REMOVE_DEVICE, CANCEL_REMOVE_DEVICE, PnpSends, EJECT, SURPRISE_REMOVAL
  <1>9. ASSUME NEW p \in Pdo, ReadAnswered(p) \/ InterfaceReference(p) \/ InterfaceDereference(p)
        PROVE  FALSE
    BY <1>9 DEF ReadAnswered, InterfaceReference, InterfaceDereference
  <1>10. ASSUME \/ RemoveDelink \/ DestroyTest \/ QueryBusRelations \/ QueryBusRelationsFails
                \/ BusGoes \/ FdoSurpriseRemoval
         PROVE  FALSE
    BY <1>10 DEF RemoveDelink, DestroyTest, QueryBusRelations, QueryBusRelationsFails, BusGoes,
       FdoSurpriseRemoval
  <1> QED
    BY <1>3, <1>4, <1>5, <1>6, <1>7, <1>8, <1>9, <1>10 DEF Next, Finish

(* A program that only plugs in, reads and closes its handle never makes   *)
(* the driver use freed memory or a NULL file object, in Bus_Cleanup       *)
(* (vhci.c:144-149), Bus_Read (vhci_read.c:670-674) or Bus_DestroyPdo      *)
(* (vhci_pnp.c:292-294): it takes another who unplugs or ejects its device *)
(* by address, the removal of the bus, or a request still in progress.     *)
THEOREM FaultOnlyByDetach == Spec => []FaultNeedsDetach
  <1>1. Init => EInv /\ FaultNeedsDetach
    BY Threads, BusAssumption
    DEF Init, EInv, MissingOK, EngagedOK, Engaged, FaultNeedsDetach, Zeroed
  <1>2. (SInv /\ HInv) /\ (EInv /\ FaultNeedsDetach) /\ [Next]_vars => (EInv /\ FaultNeedsDetach)'
    BY EInvNext, FaultNext
  <1> QED
    BY <1>1, <1>2, HInvInductive, PTL DEF Spec

-----------------------------------------------------------------------------
(* Reads that are left behind                                              *)

(* The read that waits is one of a handle that is not closed, and it waits *)
(* for a device that is there, or that it was not taken from by an unplug. *)
ReadOK(p) ==
    pending_read_irp[p] # NoFile =>
        /\ handle[pending_read_irp[p]] # "closed"
        /\ \/ p \in history.ejected \cup history.late \cup history.orphan
           \/ dev[p].life = "exists" /\ dev[p].Present

ReadsOK == \A p \in Pdo : ReadOK(p)

Left == history.ejected \cup history.late \cup history.orphan

LEMMA ReadKept ==
  ASSUME NEW p \in Pdo, ReadOK(p), Left \subseteq Left',
         pending_read_irp'[p] = pending_read_irp[p],
         \/ p \in Left'
         \/ /\ dev'[p].life = dev[p].life
            /\ dev'[p].Present = dev[p].Present
         \/ pending_read_irp[p] = NoFile \/ p \in Left
         \/ dev'[p].life = "exists" /\ dev'[p].Present,
         \A f \in File : f = pending_read_irp[p] /\ handle'[f] = "closed" => handle[f] = "closed",
         pending_read_irp[p] \in File \cup {NoFile}
  PROVE  ReadOK(p)'
  BY DEF ReadOK, Left

LEMMA MarkedReads ==
  ASSUME SInv, ReadsOK, NEW t, NEW a, UnplugMark(t, a)
  PROVE  ReadsOK'
  <1> SUFFICES ASSUME NEW p \in Pdo PROVE ReadOK(p)'
    BY DEF ReadsOK
  <1>1. /\ Left' = Left /\ handle' = handle
        /\ pending_read_irp'[p] = IF p \in Chosen(a) THEN NoFile ELSE pending_read_irp[p]
        /\ p \notin Chosen(a) => dev'[p] = dev[p]
        /\ pending_read_irp[p] \in File \cup {NoFile}
    BY DEF UnplugMark, complete_pending_read_irp, Left, files, SInv, BInv, TypeOK
  <1>2. CASE p \in Chosen(a)
    BY <1>1, <1>2 DEF ReadOK
  <1>3. CASE p \notin Chosen(a)
    BY <1>1, <1>3, ReadKept DEF ReadsOK
  <1> QED
    BY <1>2, <1>3

(* The steps of threads, handles and the bus                               *)
LEMMA ContinueReads ==
  ASSUME SInv, HInv, ReadsOK, NEW t \in Thread, Continue(t)
  PROVE  ReadsOK'
  <1>1. /\ dev \in [Pdo -> Extension] /\ \A q \in Pdo : dev[q] \in Extension
        /\ \A q \in Pdo : pending_read_irp[q] \in File \cup {NoFile}
    BY DEF SInv, BInv, TypeOK
  <1>2. ASSUME UNCHANGED <<handle, pending_read_irp>>, Left' = Left,
               \A p \in Pdo : \/ /\ dev'[p].life = dev[p].life
                                 /\ dev'[p].Present = dev[p].Present
                              \/ dev[p].life = "none"
                              \/ dev'[p].life = "exists" /\ dev'[p].Present
        PROVE  ReadsOK'
    <2> SUFFICES ASSUME NEW p \in Pdo PROVE ReadOK(p)'
      BY DEF ReadsOK
    <2>1. dev[p].life = "none" => pending_read_irp[p] = NoFile \/ p \in Left
      BY DEF ReadsOK, ReadOK, Left
    <2> QED
      BY <1>1, <1>2, <2>1, ReadKept DEF ReadsOK
  <1>3. CASE PlugFails(t) \/ PlugInsert(t)
    BY <1>2, <1>3 DEF PlugFails, PlugInsert, Left, files
  <1>4. ASSUME NEW p \in Pdo, PlugCreate(t, p) PROVE ReadsOK'
    <2>1. /\ dev[p].life = "none" /\ \A q \in Pdo \ {p} : dev'[q] = dev[q]
          /\ UNCHANGED <<handle, pending_read_irp, history>>
      BY <1>1, <1>4 DEF PlugCreate
    <2> QED
      BY <1>2, <2>1 DEF Left
  <1>5. CASE PlugFields(t)
    <2> DEFINE p == pdodata[t]
               d == [Zeroed("exists") EXCEPT !.SerialNo = addr[t], !.fo = t[1],
                                             !.ParentFdo = TRUE, !.Present = TRUE]
    <2>1. /\ p \in Pdo /\ dev' = [dev EXCEPT ![p] = d]
          /\ UNCHANGED <<handle, pending_read_irp, history>>
      BY <1>5 DEF PlugFields, files, SInv, BInv, LinksOK, PlugOK
    <2>2. d.life = "exists" /\ d.Present
      BY DEF Zeroed
    <2>3. /\ dev'[p].life = "exists" /\ dev'[p].Present
          /\ \A q \in Pdo \ {p} : dev'[q] = dev[q]
      BY <1>1, <2>1, <2>2
    <2> QED
      BY <1>2, <2>1, <2>3 DEF Left
  <1>6. CASE UnplugSettle(t)
    <2>1. \A q \in Pdo : dev'[q] \in {dev[q], WithState(dev[q], "PNP_DEVICE_REMOVED")}
      BY <1>6 DEF UnplugSettle
    <2>2. \A q \in Pdo : SameDevice(dev[q], dev'[q])
      BY <1>1, <2>1, WithStateSame DEF SameDevice
    <2> QED
      BY <1>2, <1>6, <2>2 DEF UnplugSettle, SameDevice, Left, files
  <1>7. CASE CleanupDetach(t)
    <2>1. dev' = dev \/ dev' = [dev EXCEPT ![pdodata[t]] = Detached(dev[pdodata[t]])]
      BY <1>7 DEF CleanupDetach
    <2>2. \A q \in Pdo : dev'[q] \in {dev[q], Detached(dev[q])}
      BY <1>1, <2>1
    <2>3. \A q \in Pdo : dev'[q].life = dev[q].life /\ dev'[q].Present = dev[q].Present
      BY <1>1, <2>2, DetachedSame
    <2> QED
      BY <1>2, <1>7, <2>3 DEF CleanupDetach, Left
  <1>8. CASE CleanupUnplug(t)
    <2>1. CASE UnplugMark(t, dev[pdodata[t]].SerialNo)
      BY <2>1, MarkedReads
    <2>2. CASE ~ UnplugMark(t, dev[pdodata[t]].SerialNo)
      BY <1>2, <1>8, <2>2 DEF CleanupUnplug, Note, Left, files, SInv, BInv, TypeOK
    <2> QED
      BY <2>1, <2>2
  <1>9. CASE ReadProcess(t)
    <2> PICK p \in Pdo : p = pdodata[t]
      BY <1>9 DEF ReadProcess, SInv, BInv, LinksOK, HoldsOK
    <2>1. UNCHANGED <<dev, handle>> /\ pc[t] = "read"
      BY <1>9 DEF ReadProcess, files
    <2>2. PICK f \in File : t = Req(f) /\ t[1] = f
      BY <2>1, Threads DEF HInv, HandlesOK, HandleOK
    <2>3. handle[f] # "closed"
      BY <2>1, <2>2 DEF HInv, HandlesOK, HandleOK
    <2>4. CASE UNCHANGED <<pending_read_irp, history>>
      BY <1>2, <2>1, <2>4 DEF Left
    <2>5. CASE ~ UNCHANGED <<pending_read_irp, history>>
      <3>1. /\ dev[p].life = "exists"
            /\ pending_read_irp' = [pending_read_irp EXCEPT ![p] = f]
            /\ Note("late", IF dev[p].Present THEN {} ELSE {p})
        BY <1>9, <2>2, <2>5 DEF ReadProcess
      <3>2. Left \subseteq Left' /\ (~ dev[p].Present => p \in Left')
        BY <3>1 DEF Note, Left, SInv, BInv, TypeOK
      <3>3. pending_read_irp'[p] = f /\ \A q \in Pdo \ {p} : pending_read_irp'[q] = pending_read_irp[q]
        BY <2>1, <3>1 DEF SInv, BInv, TypeOK
      <3>4. ReadOK(p)'
        <4>1. handle'[pending_read_irp'[p]] # "closed"
          BY <2>1, <2>3, <3>3
        <4>2. p \in Left' \/ (dev'[p].life = "exists" /\ dev'[p].Present)
          BY <2>1, <3>1, <3>2
        <4> QED
          BY <4>1, <4>2 DEF ReadOK, Left
      <3>5. ASSUME NEW q \in Pdo \ {p} PROVE ReadOK(q)'
        BY <1>1, <2>1, <3>2, <3>3, ReadKept DEF ReadsOK
      <3> QED
        BY <3>4, <3>5 DEF ReadsOK
    <2> QED
      BY <2>4, <2>5
  <1> QED
    BY <1>3, <1>4, <1>5, <1>6, <1>7, <1>8, <1>9 DEF Continue, Plug

LEMMA ReadsNext == SInv /\ HInv /\ MissingOK /\ ReadsOK /\ [Next]_vars => ReadsOK'
  <1> SUFFICES ASSUME SInv, HInv, MissingOK, ReadsOK, [Next]_vars PROVE ReadsOK'
    OBVIOUS
  <1>1. /\ dev \in [Pdo -> Extension] /\ \A q \in Pdo : dev[q] \in Extension
        /\ \A q \in Pdo : pending_read_irp[q] \in File \cup {NoFile}
    BY DEF SInv, BInv, TypeOK
  <1>2. ASSUME UNCHANGED <<handle, pending_read_irp, dev>>, Left \subseteq Left'
        PROVE  ReadsOK'
    BY <1>1, <1>2, ReadKept DEF ReadsOK
  <1>3. ASSUME NEW f \in File, Program(f) PROVE ReadsOK'
    <2>1. ASSUME NEW a, UnplugRequest(f, a) PROVE ReadsOK'
      BY <2>1, MarkedReads DEF UnplugRequest
    <2>2. ASSUME NEW a, PlugCheck(f, a) \/ Bus_EjectDevice(f, a) PROVE ReadsOK'
      BY <1>2, <2>2 DEF PlugCheck, Bus_EjectDevice, Left, files, SInv, BInv, TypeOK
    <2>3. CASE ReadCheck(f)
      BY <1>2, <2>3 DEF ReadCheck, Left, files
    <2>4. CASE Cleanup(f) \/ Close(f)
      <3>1. UNCHANGED <<dev, pending_read_irp>> /\ Left' = Left
        BY <2>4 DEF Cleanup, Close, Note, Left, SInv, BInv, TypeOK
      <3>2. \A p \in Pdo, g \in File :
                g = pending_read_irp[p] /\ handle'[g] = "closed" => handle[g] = "closed"
        BY <2>4 DEF Cleanup, Close, SInv, BInv, TypeOK
      <3> QED
        BY <1>1, <3>1, <3>2, ReadKept DEF ReadsOK
    <2> QED
      BY <1>3, <2>1, <2>2, <2>3, <2>4 DEF Program
  <1>4. CASE PnpStep
    <2>1. PnpLeaves
      BY <1>4, PnpStepLeaves
    <2>2. Left \subseteq Left' /\ history'.ejected \subseteq Left'
      BY <2>1 DEF PnpLeaves, Left
    <2>3. ASSUME NEW p \in Pdo PROVE ReadOK(p)'
      <3>1. /\ dev'[p].life = dev[p].life
            /\ dev'[p].Present = dev[p].Present \/ p \in Left'
            /\ UNCHANGED <<handle, pending_read_irp>>
        BY <2>1, <2>2 DEF PnpLeaves, SameOwners, SamePlaces
      <3> QED
        BY <1>1, <2>2, <3>1, ReadKept DEF ReadsOK
    <2> QED
      BY <2>3 DEF ReadsOK
  <1>5. ASSUME NEW p \in Pdo, ReadAnswered(p) PROVE ReadsOK'
    <2>1. UNCHANGED <<dev, handle, history>> /\ pending_read_irp' = [pending_read_irp EXCEPT ![p] = NoFile]
      BY <1>5 DEF ReadAnswered, files
    <2> QED
      BY <2>1 DEF ReadsOK, ReadOK, SInv, BInv, TypeOK
  <1>6. CASE DestroyTest \/ DestroyClear
    <2>1. /\ UNCHANGED <<handle, pending_read_irp, history>> /\ pnp.at # "idle"
          /\ \A q \in Pdo : dev'[q] = dev[q] \/ q = pnp.pdo
      BY <1>1, <1>6 DEF DestroyTest, DestroyClear, files
    <2>2. \A q \in Pdo : q = pnp.pdo => ~ dev[q].Present \/ q \in history.orphan
      BY <2>1 DEF MissingOK
    <2>3. \A q \in Pdo : q = pnp.pdo => pending_read_irp[q] = NoFile \/ q \in Left
      BY <2>2 DEF ReadsOK, ReadOK, Left
    <2> QED
      BY <1>1, <2>1, <2>3, ReadKept DEF ReadsOK, Left
  <1>7. CASE FdoRemove
    <2>1. /\ UNCHANGED <<handle, pending_read_irp>> /\ \A f \in File : handle[f] = "closed"
      BY <1>7 DEF FdoRemove, files
    <2>2. \A p \in Pdo : pending_read_irp[p] = NoFile
      BY <1>1, <2>1 DEF ReadsOK, ReadOK
    <2> QED
      BY <2>1, <2>2 DEF ReadsOK, ReadOK
  <1>8. CASE UNCHANGED vars
    BY <1>2, <1>8 DEF vars, Left, files
  <1> QED
    BY <1>3, <1>4, <1>5, <1>6, <1>7, <1>8, ContinueReads DEF Next, PnpStep, Finish

(* The PDO is deleted (vhci_pnp.c:297) with a read still waiting for it    *)
(* only after IRP_MN_EJECT, after a read that passed the check of Present  *)
(* before the unplug (vhci_read.c:671), or after the removal of the bus.   *)
THEOREM ReadsNotAbandoned == Spec => []ReadNotAbandoned
  <1>1. Init => MissingOK /\ ReadsOK
    BY DEF Init, MissingOK, ReadsOK, ReadOK, Zeroed
  <1>2. (SInv /\ HInv) /\ (MissingOK /\ ReadsOK) /\ [Next]_vars => (MissingOK /\ ReadsOK)'
    BY MissingNext, ReadsNext
  <1>3. MissingOK /\ ReadsOK => ReadNotAbandoned
    BY DEF ReadsOK, ReadOK, ReadNotAbandoned
  <1> QED
    BY <1>1, <1>2, <1>3, HInvInductive, PTL DEF Spec

-----------------------------------------------------------------------------
(* When an address stands for one device                                   *)

(* While the bus is there, a listed device that is present is not on its   *)
(* way out, and only a device on its way out is surprise-removed.          *)
SurpriseOK ==
    /\ fdo = "SurpriseRemovePending" => busGone
    /\ \A p \in Pdo :
          /\ dev[p].DevicePnPState = "SurpriseRemovePending" => devnode[p] \in {"dying", "gone"}
          /\ BusThere /\ p \in Listed /\ dev[p].Present =>
                devnode[p] \notin {"lost", "dying", "missing", "gone"}

(* A thread that has checked its address is the only one with it, and no   *)
(* listed device with that address is present.                             *)
AddressOK ==
    /\ \A t, u \in Thread :
          pc[t] \in Plugging /\ pc[u] \in Plugging /\ addr[t] = addr[u] => t = u
    /\ \A t \in Thread : pc[t] = "insert" => dev[pdodata[t]].SerialNo = addr[t]
    /\ \A t \in Thread : pc[t] \in Plugging =>
          \A p \in Listed : dev[p].SerialNo = addr[t] => ~ dev[p].Present
    /\ UniqueSerialNo

AInv == SurpriseOK /\ (~ history.raced /\ ~ busGone => AddressOK)

(* A step that leaves p alone, or after which the PnP manager uses it.     *)
Unsurprised(p) ==
    \/ /\ devnode'[p] = devnode[p]
       /\ dev'[p].DevicePnPState \in {dev[p].DevicePnPState, "PNP_DEVICE_REMOVED", "NotStarted"}
       /\ p \in Listed' /\ dev'[p].Present =>
             devnode[p] = "none" \/ (p \in Listed /\ dev[p].Present)
    \/ devnode'[p] \in Live \cup {"failed"}

LEMMA SurpriseKept ==
  ASSUME SInv, SInv', SurpriseOK, NEW T \in SUBSET Pdo, \A p \in T : Unsurprised(p),
         fdo' = fdo, BusThere' => BusThere, busGone => busGone',
         \A p \in Pdo \ T :
          /\ dev'[p].DevicePnPState = "SurpriseRemovePending" => devnode'[p] \in {"dying", "gone"}
          /\ BusThere' /\ p \in Listed' /\ dev'[p].Present =>
                devnode'[p] \notin {"lost", "dying", "missing", "gone"}
  PROVE  SurpriseOK'
  <1>1. ASSUME NEW p \in T
        PROVE  /\ dev'[p].DevicePnPState = "SurpriseRemovePending" => devnode'[p] \in {"dying", "gone"}
               /\ BusThere' /\ p \in Listed' /\ dev'[p].Present =>
                     devnode'[p] \notin {"lost", "dying", "missing", "gone"}
    <2>1. CASE devnode'[p] \in Live \cup {"failed"}
      <3>1. StateTracks(p)'
        BY <1>1 DEF SInv, PdoOK
      <3> QED
        BY <2>1, <3>1 DEF StateTracks, Live
    <2>2. CASE ~ (devnode'[p] \in Live \cup {"failed"})
      <3>1. p \in Pdo /\ Unsurprised(p)
        BY <1>1
      <3> QED
        BY <2>2, <3>1 DEF Unsurprised, SurpriseOK
    <2> QED
      BY <2>1, <2>2
  <1> QED
    BY <1>1 DEF SurpriseOK

LEMMA AddressKept ==
  ASSUME SInv, AddressOK, Listed' \subseteq Listed,
         \A p \in Pdo : dev[p].life = "exists" =>
            dev'[p].SerialNo = dev[p].SerialNo /\ (dev'[p].Present => dev[p].Present),
         \A t \in Thread : pc'[t] \in Plugging =>
            /\ pc[t] \in Plugging /\ addr'[t] = addr[t]
            /\ pc'[t] = "insert" => pc[t] = "insert" /\ pdodata'[t] = pdodata[t]
  PROVE  AddressOK'
  <1>1. \A p \in Listed' : /\ p \in Listed /\ dev'[p].SerialNo = dev[p].SerialNo
                           /\ dev'[p].Present => dev[p].Present
    BY ListedTyped DEF SInv, BInv, LinksOK, ListOK
  <1>2. \A t \in Thread : pc'[t] = "insert" =>
            dev'[pdodata'[t]].SerialNo = dev[pdodata[t]].SerialNo /\ pc[t] = "insert"
    <2> SUFFICES ASSUME NEW t \in Thread, pc'[t] = "insert"
                 PROVE  dev'[pdodata'[t]].SerialNo = dev[pdodata[t]].SerialNo /\ pc[t] = "insert"
      OBVIOUS
    <2>1. pc[t] = "insert" /\ pdodata'[t] = pdodata[t]
      BY DEF Plugging
    <2>2. pdodata[t] \in Pdo /\ dev[pdodata[t]].life = "exists"
      BY <2>1 DEF SInv, BInv, LinksOK, PlugOK
    <2> QED
      BY <2>1, <2>2
  <1>3. \A t, u \in Thread :
          pc'[t] \in Plugging /\ pc'[u] \in Plugging /\ addr'[t] = addr'[u] => t = u
    BY DEF AddressOK
  <1>4. \A t \in Thread : pc'[t] = "insert" => dev'[pdodata'[t]].SerialNo = addr'[t]
    BY <1>2 DEF AddressOK, Plugging
  <1>5. \A t \in Thread : pc'[t] \in Plugging =>
          \A p \in Listed' : dev'[p].SerialNo = addr'[t] => ~ dev'[p].Present
    BY <1>1 DEF AddressOK
  <1>6. UniqueSerialNo'
    BY <1>1 DEF AddressOK, UniqueSerialNo
  <1> QED
    BY <1>3, <1>4, <1>5, <1>6 DEF AddressOK

LEMMA FreedState ==
  ASSUME NEW d \in Extension
  PROVE  Freed(d).DevicePnPState = d.DevicePnPState /\ Freed(d).Present = d.Present
  BY DEF Freed, Extension

(* RemoveDelink takes at most its own PDO out of the list.                 *)
LEMMA DelinkListed ==
  ASSUME SInv, RemoveDelink
  PROVE  Listed' \subseteq Listed
  <1> DEFINE p == pnp.pdo
  <1>1. /\ p \in Pdo /\ devnode[p] # "none" /\ dev[p].life = "exists" /\ pnp.at = "delink"
    BY DEF RemoveDelink, SInv, BInv, LinksOK, PnpOK
  <1>2. CASE dev[p].ParentFdo
    <2>1. p \in Listed /\ ListOfPDOs' = RemoveEntryList(p)
      BY <1>1, <1>2 DEF SInv, BInv, LinksOK, KnownOK, Destroying, RemoveDelink, Delink
    <2> HIDE DEF p
    <2>2. Listed' = Listed \ {p}
      BY <2>1, ListRemove DEF SInv, BInv, TypeOK, LinksOK, ListOK
    <2> QED
      BY <2>2
  <1>3. CASE ~ dev[p].ParentFdo
    BY <1>3 DEF RemoveDelink, Listed
  <1> QED
    BY <1>2, <1>3

LEMMA MarkedUnsurprised ==
  ASSUME SInv, NEW t, NEW a, UnplugMark(t, a)
  PROVE  /\ UNCHANGED <<ListOfPDOs, fdo, devnode, busGone>>
         /\ \A p \in Pdo : Unsurprised(p)
  <1>1. UNCHANGED <<ListOfPDOs, fdo, devnode, busGone>>
    BY DEF UnplugMark, bus
  <1>2. \A p \in Pdo : dev'[p] \in {dev[p], [dev[p] EXCEPT !.Present = FALSE]} /\ dev[p] \in Extension
    BY DEF UnplugMark, SInv, BInv, TypeOK
  <1>3. \A p \in Pdo : /\ dev'[p].DevicePnPState = dev[p].DevicePnPState
                       /\ dev'[p].Present => dev[p].Present
    BY <1>2 DEF Extension
  <1> QED
    BY <1>1, <1>3 DEF Unsurprised, Listed

LEMMA ContinueUnsurprised ==
  ASSUME SInv, NEW t \in Thread, Continue(t)
  PROVE  /\ UNCHANGED <<fdo, devnode, busGone>>
         /\ \A p \in Pdo : Unsurprised(p)
  <1>1. dev \in [Pdo -> Extension] /\ \A q \in Pdo : dev[q] \in Extension
    BY DEF SInv, BInv, TypeOK
  <1>2. CASE PlugFails(t) \/ ReadProcess(t)
    BY <1>2 DEF PlugFails, ReadProcess, Unsurprised, Listed, bus, manager
  <1>3. ASSUME NEW p \in Pdo, PlugCreate(t, p)
        PROVE  UNCHANGED <<fdo, devnode, busGone>> /\ \A q \in Pdo : Unsurprised(q)
    <2>1. /\ dev'[p].DevicePnPState = "NotStarted" /\ ~ dev'[p].Present
          /\ \A q \in Pdo \ {p} : dev'[q] = dev[q]
      BY <1>1, <1>3 DEF PlugCreate, Zeroed
    <2>2. UNCHANGED <<ListOfPDOs, fdo, devnode, busGone>>
      BY <1>3 DEF PlugCreate, bus, manager
    <2> QED
      BY <2>1, <2>2 DEF Unsurprised, Listed
  <1>4. CASE PlugFields(t)
    <2>1. PICK p \in Pdo : p = pdodata[t] /\ devnode[p] = "none"
      BY <1>4 DEF PlugFields, SInv, BInv, LinksOK, PlugOK
    <2>2. dev' = [dev EXCEPT ![p] = [Zeroed("exists") EXCEPT !.SerialNo = addr[t], !.fo = t[1],
                                     !.ParentFdo = TRUE, !.Present = TRUE]]
      BY <1>4, <2>1 DEF PlugFields
    <2>3. dev'[p].DevicePnPState = "NotStarted" /\ \A q \in Pdo \ {p} : dev'[q] = dev[q]
      BY <1>1, <2>2 DEF Zeroed
    <2>4. UNCHANGED <<ListOfPDOs, fdo, devnode, busGone>>
      BY <1>4 DEF PlugFields, bus, manager
    <2> QED
      BY <2>1, <2>3, <2>4 DEF Unsurprised, Listed
  <1>5. CASE PlugInsert(t)
    <2>1. PICK p \in Pdo : p = pdodata[t] /\ devnode[p] = "none" /\ p \notin Listed
      BY <1>5 DEF PlugInsert, SInv, BInv, LinksOK, PlugOK
    <2>2. UNCHANGED <<dev, fdo, devnode, busGone>> /\ ListOfPDOs' = Append(ListOfPDOs, p)
      BY <1>5, <2>1 DEF PlugInsert, manager
    <2>3. Listed' = Listed \cup {p}
      BY <2>1, <2>2, ListAppend DEF SInv, BInv, TypeOK, LinksOK, ListOK
    <2> QED
      BY <2>1, <2>2, <2>3 DEF Unsurprised
  <1>6. CASE UnplugSettle(t)
    <2>1. \A q \in Pdo : dev'[q] \in {dev[q], WithState(dev[q], "PNP_DEVICE_REMOVED")}
      BY <1>6 DEF UnplugSettle
    <2>2. \A q \in Pdo : /\ dev'[q].DevicePnPState \in {dev[q].DevicePnPState, "PNP_DEVICE_REMOVED"}
                         /\ dev'[q].Present = dev[q].Present
      <3> SUFFICES ASSUME NEW q \in Pdo
                   PROVE  /\ dev'[q].DevicePnPState \in {dev[q].DevicePnPState, "PNP_DEVICE_REMOVED"}
                          /\ dev'[q].Present = dev[q].Present
        OBVIOUS
      <3>1. LET e == WithState(dev[q], "PNP_DEVICE_REMOVED")
            IN  e.DevicePnPState = "PNP_DEVICE_REMOVED" /\ e.Present = dev[q].Present
        BY <1>1, WithStateTyped DEF StoredState
      <3> QED
        BY <2>1, <3>1
    <2>3. UNCHANGED <<ListOfPDOs, fdo, devnode, busGone>>
      BY <1>6 DEF UnplugSettle, bus, manager
    <2> QED
      BY <2>2, <2>3 DEF Unsurprised, Listed
  <1>7. CASE CleanupDetach(t)
    <2>1. dev' = dev \/ dev' = [dev EXCEPT ![pdodata[t]] = Detached(dev[pdodata[t]])]
      BY <1>7 DEF CleanupDetach
    <2>2. \A q \in Pdo : dev'[q] \in {dev[q], Detached(dev[q])}
      BY <1>1, <2>1
    <2>3. \A q \in Pdo : dev'[q].DevicePnPState = dev[q].DevicePnPState /\ dev'[q].Present = dev[q].Present
      BY <1>1, <2>2 DEF Detached, Extension
    <2>4. UNCHANGED <<ListOfPDOs, fdo, devnode, busGone>>
      BY <1>7 DEF CleanupDetach, bus, manager
    <2> QED
      BY <2>3, <2>4 DEF Unsurprised, Listed
  <1>8. CASE CleanupUnplug(t)
    <2>1. CASE UnplugMark(t, dev[pdodata[t]].SerialNo)
      BY <2>1, MarkedUnsurprised
    <2>2. CASE ~ UnplugMark(t, dev[pdodata[t]].SerialNo)
      <3>1. UNCHANGED <<ListOfPDOs, fdo, dev, devnode, busGone>>
        BY <1>8, <2>2 DEF CleanupUnplug, bus, manager
      <3> QED
        BY <3>1 DEF Unsurprised, Listed
    <2> QED
      BY <2>1, <2>2
  <1> QED
    BY <1>2, <1>3, <1>4, <1>5, <1>6, <1>7, <1>8 DEF Continue, Plug

LEMMA SurpriseNext == SInv /\ SurpriseOK /\ [Next]_vars => SurpriseOK'
  <1> SUFFICES ASSUME SInv, SurpriseOK, [Next]_vars PROVE SurpriseOK'
    OBVIOUS
  <1>1. dev \in [Pdo -> Extension] /\ (\A q \in Pdo : dev[q] \in Extension) /\ Listed \subseteq Pdo
    BY ListedTyped DEF SInv, BInv, TypeOK
  <1>2. SInv'
    BY SInvNext
  <1>3. ASSUME UNCHANGED <<fdo, devnode, busGone>>, \A p \in Pdo : Unsurprised(p)
        PROVE  SurpriseOK'
    BY <1>2, <1>3, SurpriseKept DEF BusThere
  <1>4. ASSUME UNCHANGED <<fdo, devnode, busGone, dev, ListOfPDOs>>
        PROVE  SurpriseOK'
    BY <1>4 DEF SurpriseOK, BusThere, Listed
  <1>5. ASSUME NEW f \in File, Program(f) PROVE SurpriseOK'
    <2>1. ASSUME NEW a, UnplugRequest(f, a) PROVE SurpriseOK'
      BY <1>3, <2>1, MarkedUnsurprised DEF UnplugRequest
    <2>2. ASSUME NEW a, PlugCheck(f, a) \/ Bus_EjectDevice(f, a) PROVE SurpriseOK'
      BY <1>4, <2>2 DEF PlugCheck, Bus_EjectDevice, bus, manager
    <2>3. CASE ReadCheck(f) \/ Cleanup(f) \/ Close(f)
      BY <1>4, <2>3 DEF ReadCheck, Cleanup, Close, bus, manager
    <2> QED
      BY <1>5, <2>1, <2>2, <2>3 DEF Program
  <1>6. ASSUME NEW p \in Pdo,
               \/ START_DEVICE(p) \/ QUERY_STOP_DEVICE(p) \/ CANCEL_STOP_DEVICE(p) \/ STOP_DEVICE(p)
               \/ QUERY_REMOVE_DEVICE(p) \/ CANCEL_REMOVE_DEVICE(p)
        PROVE  SurpriseOK'
    <2>1. PICK to \in Live \cup {"failed"} : \E from \in SUBSET Devnode : PnpSends(p, from, to)
      BY <1>6 DEF START_DEVICE, QUERY_STOP_DEVICE, CANCEL_STOP_DEVICE, STOP_DEVICE,
         QUERY_REMOVE_DEVICE, CANCEL_REMOVE_DEVICE, Live, Devnode
    <2>2. UNCHANGED <<ListOfPDOs, fdo, busGone>> /\ devnode' = [devnode EXCEPT ![p] = to]
      BY <2>1 DEF PnpSends, bus
    <2>3. \A q \in Pdo \ {p} : dev'[q] = dev[q]
      <3>1. StateStep(p)
        BY <1>6, IrpStep
      <3> QED
        BY <1>1, <3>1 DEF StateStep, SET_NEW_PNP_STATE, RESTORE_PREVIOUS_PNP_STATE
    <2>4. \A q \in Pdo : Unsurprised(q)
      BY <2>2, <2>3 DEF Unsurprised, Listed, SInv, BInv, TypeOK
    <2> QED
      BY <1>2, <2>2, <2>4, SurpriseKept DEF BusThere
  <1>7. ASSUME NEW p \in Pdo, SURPRISE_REMOVAL(p) PROVE SurpriseOK'
    <2>1. /\ UNCHANGED <<ListOfPDOs, fdo, busGone>>
          /\ devnode' = [devnode EXCEPT ![p] = "dying"]
          /\ dev' = [dev EXCEPT ![p] = WithState(dev[p], "SurpriseRemovePending")]
          /\ BusThere => devnode[p] = "lost"
      BY <1>7 DEF SURPRISE_REMOVAL, SET_NEW_PNP_STATE, bus, BusThere, BusGoing
    <2>2. dev'[p].Present = dev[p].Present
      BY <1>1, <2>1, WithStateSame DEF SameDevice
    <2>3. \A q \in Pdo \ {p} : Unsurprised(q)
      BY <2>1 DEF Unsurprised, Listed, SInv, BInv, TypeOK
    <2>4. BusThere' /\ p \in Listed' => ~ dev'[p].Present
      BY <2>1, <2>2 DEF SurpriseOK, BusThere, Listed
    <2>5. devnode'[p] = "dying"
      BY <2>1 DEF SInv, BInv, TypeOK
    <2> QED
      BY <1>2, <2>1, <2>3, <2>4, <2>5, SurpriseKept DEF BusThere
  <1>8. ASSUME NEW p \in Pdo, REMOVE_DEVICE(p) PROVE SurpriseOK'
    <2>1. /\ UNCHANGED <<ListOfPDOs, fdo, busGone>>
          /\ devnode' = [devnode EXCEPT ![p] =
                            IF devnode[p] \in {"dying", "missing"} THEN "gone" ELSE "off"]
          /\ devnode[p] \in {"new", "remove", "failed", "dying", "missing"}
          /\ \/ dev' = dev
             \/ dev' = [dev EXCEPT ![p] = WithState(dev[p], "Deleted")]
             \/ dev' = [dev EXCEPT ![p] = WithState(dev[p], "NotStarted")]
      BY <1>8 DEF REMOVE_DEVICE, SET_NEW_PNP_STATE, bus
    <2>2. dev'[p].Present = dev[p].Present
      BY <1>1, <2>1, WithStateSame DEF SameDevice
    <2>3. dev'[p].DevicePnPState \in {dev[p].DevicePnPState, "Deleted", "NotStarted"}
      BY <1>1, <2>1, WithStateTyped DEF StoredState, PnPState
    <2>4. \A q \in Pdo \ {p} : Unsurprised(q)
      BY <2>1 DEF Unsurprised, Listed, SInv, BInv, TypeOK
    <2>5. devnode'[p] = IF devnode[p] \in {"dying", "missing"} THEN "gone" ELSE "off"
      BY <2>1 DEF SInv, BInv, TypeOK
    <2>6. BusThere' /\ p \in Listed' /\ dev'[p].Present => devnode'[p] = "off"
      BY <2>1, <2>2, <2>5 DEF SurpriseOK, BusThere, Listed
    <2>7. dev'[p].DevicePnPState = "SurpriseRemovePending" => devnode'[p] = "gone"
      BY <2>1, <2>3, <2>5 DEF SurpriseOK
    <2> QED
      BY <1>2, <2>1, <2>4, <2>6, <2>7, SurpriseKept DEF BusThere
  <1>9. ASSUME NEW p \in Pdo, EJECT(p) PROVE SurpriseOK'
    <2>1. \A q \in Pdo : dev'[q] = IF q = p THEN [dev[q] EXCEPT !.Present = FALSE] ELSE dev[q]
      BY <1>1, <1>9 DEF EJECT
    <2>2. \A q \in Pdo : dev'[q].DevicePnPState = dev[q].DevicePnPState /\ (dev'[q].Present => dev[q].Present)
      BY <1>1, <2>1 DEF Extension
    <2>3. UNCHANGED <<ListOfPDOs, fdo, devnode, busGone>>
      BY <1>9 DEF EJECT, bus
    <2> QED
      BY <1>3, <2>2, <2>3 DEF Unsurprised, Listed
  <1>10. ASSUME NEW p \in Pdo, InterfaceReference(p) \/ InterfaceDereference(p) PROVE SurpriseOK'
    <2>1. PICK n \in 0 .. 1 : dev' = [dev EXCEPT ![p].InterfaceRefCount = n]
      BY <1>10 DEF InterfaceReference, InterfaceDereference
    <2>2. \A q \in Pdo : dev'[q] \in {dev[q], [dev[q] EXCEPT !.InterfaceRefCount = n]}
      BY <1>1, <2>1
    <2>3. \A q \in Pdo : dev'[q].DevicePnPState = dev[q].DevicePnPState /\ dev'[q].Present = dev[q].Present
      BY <1>1, <2>2 DEF Extension
    <2>4. UNCHANGED <<ListOfPDOs, fdo, devnode, busGone>>
      BY <1>10 DEF InterfaceReference, InterfaceDereference, bus, manager
    <2> QED
      BY <1>3, <2>3, <2>4 DEF Unsurprised, Listed
  <1>11. CASE Finish
    <2>1. CASE RemoveDelink
      <3>1. UNCHANGED <<fdo, devnode, busGone, dev>>
        BY <2>1 DEF RemoveDelink
      <3>2. Listed' \subseteq Listed
        BY <2>1, DelinkListed
      <3> QED
        BY <1>3, <3>1, <3>2 DEF Unsurprised
    <2>2. CASE DestroyTest \/ DestroyClear
      <3>1. \A q \in Pdo : dev'[q] \in {dev[q], Freed(dev[q])}
        BY <1>1, <2>2 DEF DestroyTest, DestroyClear
      <3>2. \A q \in Pdo : dev'[q].DevicePnPState = dev[q].DevicePnPState /\ dev'[q].Present = dev[q].Present
        BY <1>1, <3>1, FreedState
      <3>3. UNCHANGED <<ListOfPDOs, fdo, devnode, busGone>>
        BY <2>2 DEF DestroyTest, DestroyClear, bus
      <3> QED
        BY <1>3, <3>2, <3>3 DEF Unsurprised, Listed
    <2> QED
      BY <1>11, <2>1, <2>2 DEF Finish
  <1>12. CASE QueryBusRelations
    <2>1. \A q \in Pdo : dev'[q] \in {dev[q], [dev[q] EXCEPT !.ReportedMissing = TRUE]}
      BY <1>12 DEF QueryBusRelations
    <2>2. \A q \in Pdo : dev'[q].DevicePnPState = dev[q].DevicePnPState /\ dev'[q].Present = dev[q].Present
      BY <1>1, <2>1 DEF Extension
    <2>3. UNCHANGED <<ListOfPDOs, fdo, busGone>> /\ \A q \in Pdo : devnode'[q] = Learn(q)
      BY <1>12 DEF QueryBusRelations, bus
    <2>4. \A q \in Pdo : devnode[q] \in {"dying", "gone"} => Learn(q) = devnode[q]
      BY DEF Learn, Live
    <2>5. \A q \in Reported : Learn(q) = IF devnode[q] = "none" THEN "new" ELSE devnode[q]
      BY DEF Learn
    <2>6. Listed' = Listed
      BY <2>3 DEF Listed
    <2> QED
      BY <1>1, <2>2, <2>3, <2>4, <2>5, <2>6 DEF SurpriseOK, BusThere, Reported
  <1>13. CASE QueryBusRelationsFails \/ UNCHANGED vars
    BY <1>4, <1>13 DEF QueryBusRelationsFails, vars, bus, manager
  <1>14. CASE BusGoes
    BY <1>14 DEF BusGoes, SurpriseOK, BusThere, bus
  <1>15. CASE FdoSurpriseRemoval
    <2>1. \A q \in Pdo : dev'[q] \in {dev[q], Orphaned(dev[q])}
      BY <1>15 DEF FdoSurpriseRemoval
    <2>2. \A q \in Pdo : dev'[q].DevicePnPState = dev[q].DevicePnPState
      BY <1>1, <2>1, OrphanedTyped
    <2>3. busGone' /\ fdo' # "Started"
      BY <1>15 DEF FdoSurpriseRemoval, BusGoing
    <2>4. \A q \in Pdo : devnode[q] \in {"dying", "gone"} => devnode'[q] = devnode[q]
      BY <1>15 DEF FdoSurpriseRemoval
    <2> QED
      BY <2>2, <2>3, <2>4 DEF SurpriseOK, BusThere
  <1>16. CASE FdoRemove
    <2>1. \A q \in Pdo : dev'[q] \in {dev[q], Freed(dev[q]), Orphaned(dev[q])}
      BY <1>16 DEF FdoRemove
    <2>2. \A q \in Pdo : dev'[q].DevicePnPState = dev[q].DevicePnPState
      BY <1>1, <2>1, FreedState, OrphanedTyped
    <2>3. fdo' = "Deleted" /\ devnode' = devnode
      BY <1>16 DEF FdoRemove
    <2> QED
      BY <2>2, <2>3 DEF SurpriseOK, BusThere
  <1>17. ASSUME NEW p \in Pdo, ReadAnswered(p) PROVE SurpriseOK'
    BY <1>4, <1>17 DEF ReadAnswered, bus, manager
  <1> QED
    BY <1>3, <1>5, <1>6, <1>7, <1>8, <1>9, <1>10, <1>11, <1>12, <1>13, <1>14, <1>15, <1>16, <1>17,
       ContinueUnsurprised
    DEF Next, Manage, Retire

(* The steps of the PnP manager and of the bus                             *)
LEMMA ListShrinks ==
  ASSUME SInv, PnpStep \/ DestroyTest \/ DestroyClear \/ FdoRemove
  PROVE  Listed' \subseteq Listed /\ (busGone => busGone')
  <1>1. CASE RemoveDelink
    BY <1>1, DelinkListed DEF RemoveDelink
  <1>2. CASE FdoSurpriseRemoval \/ FdoRemove
    BY <1>2, ListEmptied DEF FdoSurpriseRemoval, FdoRemove
  <1>3. ASSUME NEW p \in Pdo, Manage(p) PROVE UNCHANGED <<ListOfPDOs, busGone>>
    BY <1>3 DEF Manage, Retire, START_DEVICE, QUERY_STOP_DEVICE, CANCEL_STOP_DEVICE, STOP_DEVICE,
       QUERY_REMOVE_DEVICE, CANCEL_REMOVE_DEVICE, PnpSends, EJECT, SURPRISE_REMOVAL,
       REMOVE_DEVICE, bus
  <1>4. ASSUME NEW p \in Pdo, InterfaceReference(p) \/ InterfaceDereference(p)
        PROVE  UNCHANGED <<ListOfPDOs, busGone>>
    BY <1>4 DEF InterfaceReference, InterfaceDereference, bus, manager
  <1>5. CASE \/ QueryBusRelations \/ QueryBusRelationsFails \/ BusGoes
             \/ DestroyTest \/ DestroyClear
    BY <1>5 DEF QueryBusRelations, QueryBusRelationsFails, BusGoes, DestroyTest, DestroyClear,
       Listed, bus
  <1> QED
    BY <1>1, <1>2, <1>3, <1>4, <1>5 DEF PnpStep, Listed

LEMMA PlugCheckAddress ==
  ASSUME SInv, AInv, NEW f \in File, NEW a \in Addr, PlugCheck(f, a),
         ~ history'.raced, ~ busGone'
  PROVE  AddressOK'
  <1> DEFINE t == Req(f)
  <1>1. /\ t \in Thread /\ pc[t] = "idle" /\ fdo # "Deleted"
        /\ ~ AddressTaken(a)
        /\ pc' = [pc EXCEPT ![t] = "create"]
        /\ addr' = [addr EXCEPT ![t] = a]
        /\ UNCHANGED <<ListOfPDOs, fdo, dev, pdodata, busGone>>
    BY Threads DEF PlugCheck, Accepts, bus, manager, Req
  <1>2. /\ ~ history.raced
        /\ \A o \in Thread : pc[o] \in Plugging => addr[o] # a
    BY DEF PlugCheck, SInv, BInv, TypeOK
  <1>3. AddressOK /\ BusThere
    BY <1>1, <1>2 DEF AInv, SurpriseOK, BusThere, SInv, BInv, TypeOK
  <1>4. pc'[t] = "create" /\ addr'[t] = a
        /\ \A u \in Thread \ {t} : pc'[u] = pc[u] /\ addr'[u] = addr[u]
    BY <1>1 DEF SInv, BInv, TypeOK
  <1>5. \A p \in Listed : dev[p].SerialNo = a => ~ dev[p].Present
    BY <1>1, <1>3, ListedTyped DEF AddressTaken, AInv, SurpriseOK, SInv, BInv
  <1> HIDE DEF t
  <1>6. Listed' = Listed /\ UniqueSerialNo' = UniqueSerialNo
    BY <1>1 DEF Listed, UniqueSerialNo
  <1>7. \A u, v \in Thread :
          pc'[u] \in Plugging /\ pc'[v] \in Plugging /\ addr'[u] = addr'[v] => u = v
    BY <1>2, <1>3, <1>4 DEF AddressOK
  <1>8. \A u \in Thread : pc'[u] = "insert" => dev'[pdodata'[u]].SerialNo = addr'[u]
    BY <1>1, <1>3, <1>4 DEF AddressOK
  <1>9. \A u \in Thread : pc'[u] \in Plugging =>
          \A p \in Listed' : dev'[p].SerialNo = addr'[u] => ~ dev'[p].Present
    BY <1>1, <1>3, <1>4, <1>5, <1>6 DEF AddressOK
  <1> QED
    BY <1>3, <1>6, <1>7, <1>8, <1>9 DEF AddressOK

LEMMA PlugFieldsAddress ==
  ASSUME SInv, AddressOK, NEW t \in Thread, PlugFields(t)
  PROVE  AddressOK'
  <1>1. PICK p \in Pdo : p = pdodata[t]
    BY DEF PlugFields, SInv, BInv, LinksOK, PlugOK
  <1>2. /\ p \notin Listed /\ pc[t] = "fields"
        /\ \A u \in Thread : pc[u] \in {"fields", "insert"} /\ pdodata[u] = p => u = t
    BY <1>1 DEF PlugFields, SInv, BInv, LinksOK, PlugOK
  <1>3. dev' = [dev EXCEPT ![p] = [Zeroed("exists") EXCEPT !.SerialNo = addr[t], !.fo = t[1],
                                   !.ParentFdo = TRUE, !.Present = TRUE]]
    BY <1>1 DEF PlugFields
  <1>4. dev'[p].SerialNo = addr[t] /\ \A q \in Pdo \ {p} : dev'[q] = dev[q]
    BY <1>3 DEF Zeroed, SInv, BInv, TypeOK
  <1>5. UNCHANGED <<ListOfPDOs, pdodata, addr>> /\ pc'[t] = "insert"
        /\ \A u \in Thread \ {t} : pc'[u] = pc[u]
    BY Moves DEF PlugFields, bus, SInv, BInv
  <1>6. Listed' = Listed /\ \A q \in Listed : dev'[q] = dev[q]
    BY <1>2, <1>4, <1>5, ListedTyped DEF Listed, SInv, BInv
  <1>7. \A u \in Thread \ {t} : pc[u] = "insert" => pdodata[u] \in Pdo \ {p}
    BY <1>2 DEF SInv, BInv, LinksOK, PlugOK
  <1>8. \A u \in Thread : pc'[u] \in Plugging => pc[u] \in Plugging
    BY <1>2, <1>5 DEF Plugging
  <1>9. \A u, v \in Thread :
          pc'[u] \in Plugging /\ pc'[v] \in Plugging /\ addr'[u] = addr'[v] => u = v
    BY <1>5, <1>8 DEF AddressOK
  <1>10. \A u \in Thread : pc'[u] = "insert" => dev'[pdodata'[u]].SerialNo = addr'[u]
    BY <1>1, <1>4, <1>5, <1>7 DEF AddressOK
  <1>11. \A u \in Thread : pc'[u] \in Plugging =>
          \A q \in Listed' : dev'[q].SerialNo = addr'[u] => ~ dev'[q].Present
    BY <1>5, <1>6, <1>8 DEF AddressOK
  <1>12. UniqueSerialNo'
    BY <1>6 DEF AddressOK, UniqueSerialNo
  <1> QED
    BY <1>9, <1>10, <1>11, <1>12 DEF AddressOK

LEMMA PlugInsertAddress ==
  ASSUME SInv, HInv, AddressOK, NEW t \in Thread, PlugInsert(t)
  PROVE  AddressOK'
  <1>1. PICK p \in Pdo : p = pdodata[t]
    BY DEF PlugInsert, SInv, BInv, LinksOK, PlugOK
  <1>2. p \notin Listed /\ pc[t] = "insert" /\ dev[p].SerialNo = addr[t]
    BY <1>1 DEF PlugInsert, SInv, BInv, LinksOK, PlugOK, AddressOK
  <1>3. dev' = dev /\ ListOfPDOs' = Append(ListOfPDOs, p) /\ Return(t)
    BY <1>1 DEF PlugInsert
  <1>4. Listed' = Listed \cup {p}
    BY <1>2, <1>3, ListAppend DEF SInv, BInv, TypeOK, LinksOK, ListOK
  <1>5. pc'[t] \notin Plugging
    BY <1>3, Returns DEF Plugging, SInv, BInv
  <1>6. \A u \in Thread \ {t} : pc'[u] = pc[u] /\ pdodata'[u] = pdodata[u] /\ addr'[u] = addr[u]
    BY <1>3, Returns DEF SInv, BInv
  <1>7. \A u, v \in Thread :
          pc'[u] \in Plugging /\ pc'[v] \in Plugging /\ addr'[u] = addr'[v] => u = v
    BY <1>5, <1>6 DEF AddressOK
  <1>8. \A u \in Thread : pc'[u] = "insert" => dev'[pdodata'[u]].SerialNo = addr'[u]
    BY <1>3, <1>5, <1>6 DEF AddressOK, Plugging
  <1>9. \A u \in Thread : pc'[u] \in Plugging =>
          \A q \in Listed' : dev'[q].SerialNo = addr'[u] => ~ dev'[q].Present
    <2> SUFFICES ASSUME NEW u \in Thread, pc'[u] \in Plugging, NEW q \in Listed',
                        dev'[q].SerialNo = addr'[u]
                 PROVE  ~ dev'[q].Present
      OBVIOUS
    <2>1. u # t /\ pc[u] \in Plugging /\ addr'[u] = addr[u]
      BY <1>5, <1>6
    <2>2. CASE q \in Listed
      BY <1>3, <2>1, <2>2 DEF AddressOK
    <2>3. CASE q = p
      BY <1>2, <1>3, <2>1, <2>3 DEF AddressOK, Plugging
    <2> QED
      BY <1>4, <2>2, <2>3
  <1>10. UniqueSerialNo'
    <2>1. \A q \in Listed : dev[q].SerialNo = dev[p].SerialNo => ~ dev[q].Present
      BY <1>2 DEF AddressOK, Plugging
    <2> QED
      BY <1>3, <1>4, <2>1 DEF AddressOK, UniqueSerialNo
  <1> QED
    BY <1>7, <1>8, <1>9, <1>10 DEF AddressOK

(* A thread moves on, and plugs nothing in then.                           *)
LEMMA MovesAddress ==
  ASSUME SInv, AddressOK, Listed' \subseteq Listed, NEW t \in Thread,
         pc'[t] \notin {"fields", "insert", "create"} \/ (pc'[t] = "fields" /\ pc[t] = "create"),
         addr'[t] = addr[t] \/ pc'[t] \notin Plugging,
         \A u \in Thread \ {t} : pc'[u] = pc[u] /\ pdodata'[u] = pdodata[u] /\ addr'[u] = addr[u],
         \A p \in Pdo : dev[p].life = "exists" =>
            dev'[p].SerialNo = dev[p].SerialNo /\ (dev'[p].Present => dev[p].Present)
  PROVE  AddressOK'
  BY AddressKept DEF Plugging

LEMMA MarkedAddress ==
  ASSUME SInv, AddressOK, NEW t \in Thread, NEW a, UnplugMark(t, a)
  PROVE  AddressOK'
  <1>1. \A p \in Pdo : dev'[p] \in {dev[p], [dev[p] EXCEPT !.Present = FALSE]} /\ dev[p] \in Extension
    BY DEF UnplugMark, SInv, BInv, TypeOK
  <1>2. \A p \in Pdo : dev'[p].SerialNo = dev[p].SerialNo /\ (dev'[p].Present => dev[p].Present)
    BY <1>1, AbsentSame
  <1>3. ListOfPDOs' = ListOfPDOs /\ Goto(t, "settle")
    BY DEF UnplugMark, bus
  <1> QED
    BY <1>2, <1>3, Moves, MovesAddress DEF Listed, Plugging, SInv, BInv

LEMMA ContinueAddress ==
  ASSUME SInv, HInv, AddressOK, NEW t \in Thread, Continue(t)
  PROVE  AddressOK'
  <1>1. dev \in [Pdo -> Extension] /\ \A q \in Pdo : dev[q] \in Extension
    BY DEF SInv, BInv, TypeOK
  <1>2. CASE PlugFails(t) \/ ReadProcess(t)
    <2>1. UNCHANGED <<ListOfPDOs, dev>> /\ Return(t)
      BY <1>2 DEF PlugFails, ReadProcess, bus
    <2> QED
      BY <2>1, Returns, MovesAddress DEF Listed, Plugging, SInv, BInv
  <1>3. ASSUME NEW p \in Pdo, PlugCreate(t, p) PROVE AddressOK'
    <2>1. /\ dev[p].life = "none" /\ pc[t] = "create"
          /\ UNCHANGED <<ListOfPDOs, addr>>
          /\ pc' = [pc EXCEPT ![t] = "fields"]
          /\ pdodata' = [pdodata EXCEPT ![t] = p]
          /\ dev' = [dev EXCEPT ![p] = Zeroed("exists")]
      BY <1>3 DEF PlugCreate, bus
    <2>2. \A q \in Pdo \ {p} : dev'[q] = dev[q]
      BY <1>1, <2>1
    <2>3. pc'[t] = "fields" /\ \A u \in Thread \ {t} : pc'[u] = pc[u] /\ pdodata'[u] = pdodata[u]
      BY <2>1 DEF SInv, BInv, TypeOK
    <2>4. Listed' = Listed
      BY <2>1 DEF Listed
    <2>5. \A q \in Pdo : dev[q].life = "exists" => dev'[q] = dev[q]
      BY <2>1, <2>2
    <2> QED
      BY <2>1, <2>3, <2>4, <2>5, MovesAddress
  <1>4. CASE UnplugSettle(t)
    <2>1. \A q \in Pdo : dev'[q] \in {dev[q], WithState(dev[q], "PNP_DEVICE_REMOVED")}
      BY <1>4 DEF UnplugSettle
    <2>2. \A q \in Pdo : dev'[q].SerialNo = dev[q].SerialNo /\ dev'[q].Present = dev[q].Present
      BY <1>1, <2>1, WithStateSame DEF SameDevice
    <2>3. ListOfPDOs' = ListOfPDOs /\ Return(t)
      BY <1>4 DEF UnplugSettle, bus
    <2> QED
      BY <2>2, <2>3, Returns, MovesAddress DEF Listed, Plugging, SInv, BInv
  <1>5. CASE CleanupDetach(t)
    <2>1. dev' = dev \/ dev' = [dev EXCEPT ![pdodata[t]] = Detached(dev[pdodata[t]])]
      BY <1>5 DEF CleanupDetach
    <2>2. \A q \in Pdo : dev'[q] \in {dev[q], Detached(dev[q])}
      BY <1>1, <2>1
    <2>3. \A q \in Pdo : dev'[q].SerialNo = dev[q].SerialNo /\ dev'[q].Present = dev[q].Present
      BY <1>1, <2>2, DetachedSame
    <2>4. ListOfPDOs' = ListOfPDOs /\ (Return(t) \/ Goto(t, "unplug"))
      BY <1>5 DEF CleanupDetach, bus
    <2> QED
      BY <2>3, <2>4, Returns, Moves, MovesAddress DEF Listed, Plugging, SInv, BInv
  <1>6. CASE CleanupUnplug(t)
    <2>1. CASE UnplugMark(t, dev[pdodata[t]].SerialNo)
      BY <2>1, MarkedAddress
    <2>2. CASE ~ UnplugMark(t, dev[pdodata[t]].SerialNo)
      <3>1. UNCHANGED <<ListOfPDOs, dev>> /\ Return(t)
        BY <1>6, <2>2 DEF CleanupUnplug, bus
      <3> QED
        BY <3>1, Returns, MovesAddress DEF Listed, Plugging, SInv, BInv
    <2> QED
      BY <2>1, <2>2
  <1> QED
    BY <1>2, <1>3, <1>4, <1>5, <1>6, PlugFieldsAddress, PlugInsertAddress DEF Continue, Plug

LEMMA AInvNext == SInv /\ HInv /\ AInv /\ [Next]_vars => AInv'
  <1> SUFFICES ASSUME SInv, HInv, AInv, [Next]_vars, ~ history'.raced, ~ busGone'
               PROVE  AddressOK'
    BY SurpriseNext DEF AInv
  <1>1. AddressOK \/ history.raced \/ busGone
    BY DEF AInv
  <1>2. ASSUME NEW t \in Thread, Continue(t) PROVE AddressOK'
    <2>1. UNCHANGED <<history.raced, busGone>>
      BY <1>2 DEF Continue, Plug, PlugFails, PlugCreate, PlugFields, PlugInsert, ReadProcess,
         UnplugSettle, CleanupDetach, CleanupUnplug, UnplugMark, Note, manager, SInv, BInv, TypeOK
    <2> QED
      BY <1>1, <1>2, <2>1, ContinueAddress
  <1>3. ASSUME NEW f \in File, Program(f) PROVE AddressOK'
    <2>1. ASSUME NEW a, UnplugRequest(f, a) PROVE AddressOK'
      <3>1. UnplugMark(Req(f), a) /\ Req(f) \in Thread
        BY <2>1, Threads DEF UnplugRequest, Req
      <3>2. UNCHANGED <<history.raced, busGone>>
        BY <3>1 DEF UnplugMark, SInv, BInv, TypeOK
      <3> QED
        BY <1>1, <3>1, <3>2, MarkedAddress
    <2>2. ASSUME NEW a, Bus_EjectDevice(f, a) PROVE AddressOK'
      <3>1. UNCHANGED <<bus, dev, threads, history, busGone>>
        BY <2>2 DEF Bus_EjectDevice
      <3> QED
        BY <1>1, <3>1, AddressKept DEF bus, threads, Listed
    <2>3. CASE ReadCheck(f)
      <3>1. /\ UNCHANGED <<ListOfPDOs, dev, addr, history, busGone>>
            /\ Req(f) \in Thread
            /\ pc' = [pc EXCEPT ![Req(f)] = "read"]
            /\ pdodata' = [pdodata EXCEPT ![Req(f)] = FsContext[f]]
        BY <2>3, Threads DEF ReadCheck, bus, manager, Req
      <3>2. pc'[Req(f)] = "read" /\ \A u \in Thread \ {Req(f)} : pc'[u] = pc[u] /\ pdodata'[u] = pdodata[u]
        BY <3>1 DEF SInv, BInv, TypeOK
      <3> QED
        BY <1>1, <3>1, <3>2, MovesAddress DEF Listed
    <2>4. CASE Cleanup(f)
      <3>1. /\ UNCHANGED <<ListOfPDOs, dev, addr, history.raced, busGone>>
            /\ Cln(f) \in Thread
            /\ pc' = [pc EXCEPT ![Cln(f)] = IF FsContext[f] = NoPdo THEN "done" ELSE "detach"]
            /\ pdodata' = [pdodata EXCEPT ![Cln(f)] = FsContext[f]]
        BY <2>4, Threads DEF Cleanup, Note, bus, manager, Cln, SInv, BInv, TypeOK
      <3>2. /\ pc'[Cln(f)] \in {"done", "detach"}
            /\ \A u \in Thread \ {Cln(f)} : pc'[u] = pc[u] /\ pdodata'[u] = pdodata[u]
        BY <3>1 DEF SInv, BInv, TypeOK
      <3> QED
        BY <1>1, <3>1, <3>2, MovesAddress DEF Listed
    <2>5. CASE Close(f)
      <3>1. UNCHANGED <<bus, dev, threads, history, busGone>>
        BY <2>5 DEF Close, manager
      <3> QED
        BY <1>1, <3>1, AddressKept DEF bus, threads, Listed
    <2> QED
      BY <1>3, <2>1, <2>2, <2>3, <2>4, <2>5, PlugCheckAddress DEF Program
  <1>4. CASE PnpStep
    <2>1. /\ PnpLeaves /\ Listed' \subseteq Listed /\ (busGone => busGone')
      BY <1>4, PnpStepLeaves, ListShrinks
    <2> QED
      BY <1>1, <2>1, AddressKept DEF PnpLeaves, SamePlaces
  <1>5. ASSUME NEW p \in Pdo, ReadAnswered(p) PROVE AddressOK'
    <2>1. UNCHANGED <<bus, dev, threads, history, busGone>>
      BY <1>5 DEF ReadAnswered, manager
    <2> QED
      BY <1>1, <2>1, AddressKept DEF bus, threads, Listed
  <1>6. CASE DestroyTest \/ DestroyClear \/ FdoRemove
    <2>1. Listed' \subseteq Listed /\ (busGone => busGone')
      BY <1>6, ListShrinks
    <2>2. dev \in [Pdo -> Extension] /\ \A q \in Pdo : dev[q] \in Extension
      BY DEF SInv, BInv, TypeOK
    <2>3. \A q \in Pdo : dev'[q] \in {dev[q], Freed(dev[q]), Orphaned(dev[q])}
      BY <1>6, <2>2 DEF DestroyTest, DestroyClear, FdoRemove
    <2>4. \A q \in Pdo : dev'[q].SerialNo = dev[q].SerialNo /\ dev'[q].Present = dev[q].Present
      BY <2>2, <2>3, FreedSame, OrphanedSame
    <2>5. UNCHANGED <<threads, history.raced>>
      BY <1>6 DEF DestroyTest, DestroyClear, FdoRemove, Note, SInv, BInv, TypeOK
    <2> QED
      BY <1>1, <2>1, <2>4, <2>5, AddressKept DEF threads
  <1>7. CASE UNCHANGED vars
    BY <1>1, <1>7, AddressKept DEF vars, bus, threads, manager, Listed
  <1> QED
    BY <1>2, <1>3, <1>4, <1>5, <1>6, <1>7 DEF Next, PnpStep, Finish

(* bus_plugin_dev looks for the address in one section under the mutex     *)
(* (vhci_plugin.c:40-47) and inserts the device in another                 *)
(* (vhci_pnp.c:1052-1055): as long as no two plug-ins for one address run  *)
(* at the same time, no two listed devices that are present have one       *)
(* address, for any number of programs and devices.  The devices that the  *)
(* check passes over, those in SurpriseRemovePending, are never present    *)
(* while the bus is there.                                                 *)
THEOREM AddressesUnique == Spec => []UniqueUnlessRaced
  <1>1. Init => AInv
    BY DEF Init, AInv, SurpriseOK, AddressOK, UniqueSerialNo, Zeroed, Listed, Plugging
  <1>2. AInv => UniqueUnlessRaced
    BY DEF AInv, AddressOK, UniqueUnlessRaced
  <1> QED
    BY <1>1, <1>2, AInvNext, HInvInductive, PTL DEF Spec

=============================================================================
