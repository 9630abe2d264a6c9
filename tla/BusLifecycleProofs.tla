------------------------- MODULE BusLifecycleProofs -------------------------
(***************************************************************************)
(* What holds of BusLifecycle for any number of programs, devices and      *)
(* addresses, and whatever else happens in the environment.                *)
(*                                                                         *)
(* The argument: a PDO enters the list once, by the thread that created    *)
(* it, and the PnP manager knows only of PDOs that are, or were, listed.   *)
(* It leaves the list in its own REMOVE_DEVICE, which finds it there as    *)
(* long as it has a parent, or with all others when the bus goes, which    *)
(* takes the parent from it.  So the count can be kept exactly.            *)
(***************************************************************************)
EXTENDS BusLifecycle, FiniteSetTheorems, SequenceTheorems, TLAPS

Distinct == \A i, j \in DOMAIN ListOfPDOs : ListOfPDOs[i] = ListOfPDOs[j] => i = j

(* The list has each PDO once, and all of them exist and have a parent.    *)
ListOK ==
    /\ Distinct
    /\ Cardinality(Listed) = Len(ListOfPDOs)
    /\ \A p \in Listed : dev[p].life = "exists" /\ dev[p].ParentFdo

(* A thread that has created a PDO is alone with it until it inserts it.   *)
PlugOK ==
    \A t \in Thread : pc[t] \in {"fields", "insert"} =>
        /\ pdodata[t] \in Pdo
        /\ dev[pdodata[t]].life = "exists"
        /\ pdodata[t] \notin Listed \cup history.orphan
        /\ devnode[pdodata[t]] = "none"
        /\ pc[t] = "insert" => dev[pdodata[t]].ParentFdo
        /\ \A u \in Thread :
              pc[u] \in {"fields", "insert"} /\ pdodata[u] = pdodata[t] => u = t

(* A thread that goes on with a PDO has one.                               *)
HoldsOK == \A t \in Thread : pc[t] \in {"read", "detach", "unplug"} => pdodata[t] \in Pdo

(* Nobody knows a PDO that was not created, and the bus has forgotten what *)
(* its removal left.                                                       *)
UnknownOK ==
    /\ \A p \in Pdo : dev[p].life = "none" =>
          p \notin Listed \cup history.orphan /\ devnode[p] = "none"
    /\ \A p \in history.orphan : p \notin Listed /\ ~ dev[p].ParentFdo

(* A PDO that the PnP manager knows and that has a parent is in the list,  *)
(* but for the one that REMOVE_DEVICE has just taken out.                  *)
Destroying == {"test", "clear"}

KnownOK ==
    \A p \in Pdo : devnode[p] # "none" /\ dev[p].life = "exists" /\ dev[p].ParentFdo =>
                      p \in Listed \/ (pnp.at \in Destroying /\ pnp.pdo = p)

PnpOK ==
    /\ pnp.at # "idle" =>
          /\ pnp.pdo \in Pdo
          /\ devnode[pnp.pdo] # "none"
          /\ dev[pnp.pdo].life = "exists"
    /\ pnp.at \in Destroying => pnp.pdo \notin Listed

LinksOK == ListOK /\ PlugOK /\ HoldsOK /\ UnknownOK /\ KnownOK /\ PnpOK

BInv == TypeOK /\ LinksOK /\ NumPDOsExact

(* A PDO that was reported missing is never one that can be started again, *)
(* and only such a PDO is deleted; what a cancelled query would restore is *)
(* the state before it.                                                    *)
PdoOK(p) ==
    /\ fdo # "Deleted" /\ dev[p].ReportedMissing =>
          /\ devnode[p] \in {"none", "lost", "dying", "missing", "gone"}
          /\ fdo = "Started" => ~ dev[p].Present
    /\ fdo = "Deleted" => devnode[p] \in {"none", "off", "dying", "gone"}
    /\ pnp.at # "idle" /\ pnp.pdo = p => devnode[p] = "gone"
    /\ fdo # "Deleted" /\ dev[p].life = "deleted" => devnode[p] = "gone"
    /\ dev[p].life = "deleted" /\ devnode[p] = "dying" =>
          dev[p].DevicePnPState = "PNP_DEVICE_REMOVED"
    /\ StateTracks(p)
    /\ \/ devnode[p] = "stop" /\ dev[p].DevicePnPState = "StopPending"
       \/ devnode[p] = "remove" /\ dev[p].DevicePnPState = "RemovePending"
       => dev[p].PreviousPnPState \in {"Started", "PNP_DEVICE_REMOVED"}

SInv == BInv /\ \A p \in Pdo : PdoOK(p)

-----------------------------------------------------------------------------
(* The list                                                                *)

LEMMA ListedTyped ==
  ASSUME TypeOK
  PROVE  Listed \subseteq Pdo /\ IsFiniteSet(Listed) /\ Cardinality(Listed) \in Nat
  <1>1. Listed \subseteq Pdo
    BY ElementOfSeq, LenProperties DEF TypeOK, Listed
  <1> QED
    BY <1>1, BusAssumption, FS_Subset, FS_CardinalityType

LEMMA ListAppend ==
  ASSUME ListOfPDOs \in Seq(Pdo), Distinct, NEW p \in Pdo, p \notin Listed,
         ListOfPDOs' = Append(ListOfPDOs, p)
  PROVE  /\ ListOfPDOs' \in Seq(Pdo)
         /\ Len(ListOfPDOs') = Len(ListOfPDOs) + 1
         /\ Distinct'
         /\ Listed' = Listed \cup {p}
  <1> DEFINE n == Len(ListOfPDOs)
  <1>1. /\ n \in Nat /\ DOMAIN ListOfPDOs = 1 .. n
        /\ ListOfPDOs' \in Seq(Pdo) /\ Len(ListOfPDOs') = n + 1
        /\ DOMAIN ListOfPDOs' = 1 .. n + 1
        /\ \A i \in 1 .. n : ListOfPDOs'[i] = ListOfPDOs[i]
        /\ ListOfPDOs'[n + 1] = p
    BY LenProperties, AppendProperties
  <1> HIDE DEF n
  <1>2. Listed' = Listed \cup {p}
    BY <1>1 DEF Listed
  <1>3. Distinct'
    BY <1>1 DEF Distinct, Listed
  <1> QED
    BY <1>1, <1>2, <1>3 DEF n

LEMMA ListRemove ==
  ASSUME ListOfPDOs \in Seq(Pdo), Distinct, NEW p \in Listed,
         ListOfPDOs' = RemoveEntryList(p)
  PROVE  /\ ListOfPDOs' \in Seq(Pdo)
         /\ Len(ListOfPDOs') = Len(ListOfPDOs) - 1
         /\ Distinct'
         /\ Listed' = Listed \ {p}
  <1> DEFINE n == Len(ListOfPDOs)
             k == CHOOSE i \in DOMAIN ListOfPDOs : ListOfPDOs[i] = p
             before == SubSeq(ListOfPDOs, 1, k - 1)
             after == SubSeq(ListOfPDOs, k + 1, n)
  <1>1. n \in Nat /\ DOMAIN ListOfPDOs = 1 .. n
    BY LenProperties
  <1>2. k \in 1 .. n /\ ListOfPDOs[k] = p
    BY <1>1 DEF Listed
  <1> HIDE DEF n, k
  <1>3. \A i \in 1 .. n : ListOfPDOs[i] \in Pdo
    BY ElementOfSeq DEF n
  <1>4. /\ before \in Seq(Pdo) /\ Len(before) = k - 1
        /\ \A i \in 1 .. k - 1 : before[i] = ListOfPDOs[i]
    BY <1>1, <1>2, <1>3, SubSeqProperties
  <1>5. /\ after \in Seq(Pdo) /\ Len(after) = n - k
        /\ \A i \in 1 .. n - k : after[i] = ListOfPDOs[k + i]
    <2>1. /\ after \in Seq(Pdo)
          /\ Len(after) = IF k + 1 <= n THEN n - (k + 1) + 1 ELSE 0
          /\ \A i \in 1 .. n - (k + 1) + 1 : after[i] = ListOfPDOs[(k + 1) + i - 1]
      <3>1. k + 1 \in Int /\ n \in Int /\ \A i \in k + 1 .. n : ListOfPDOs[i] \in Pdo
        BY <1>1, <1>2, <1>3
      <3> QED
        BY ONLY <3>1, SubSeqProperties
    <2>2. n - (k + 1) + 1 = n - k /\ \A i \in 1 .. n - k : (k + 1) + i - 1 = k + i
      BY <1>1, <1>2
    <2> QED
      BY <1>1, <1>2, <2>1, <2>2
  <1>6. ListOfPDOs' = before \o after
    BY DEF RemoveEntryList, n, k
  <1> HIDE DEF before, after
  <1>7. /\ ListOfPDOs' \in Seq(Pdo) /\ Len(ListOfPDOs') = n - 1
        /\ \A i \in 1 .. n - 1 : ListOfPDOs'[i] = IF i < k THEN ListOfPDOs[i] ELSE ListOfPDOs[i + 1]
    <2>1. /\ ListOfPDOs' \in Seq(Pdo) /\ Len(ListOfPDOs') = (k - 1) + (n - k)
          /\ \A i \in 1 .. (k - 1) + (n - k) :
                ListOfPDOs'[i] = IF i <= k - 1 THEN before[i] ELSE after[i - (k - 1)]
      BY <1>4, <1>5, <1>6, ConcatProperties
    <2>2. (k - 1) + (n - k) = n - 1
      BY <1>1, <1>2
    <2>3. ASSUME NEW i \in 1 .. n - 1
          PROVE  ListOfPDOs'[i] = IF i < k THEN ListOfPDOs[i] ELSE ListOfPDOs[i + 1]
      <3>1. CASE i < k
        BY <1>1, <1>2, <1>4, <2>1, <2>2, <3>1
      <3>2. CASE ~ (i < k)
        <4>1. i - (k - 1) \in 1 .. n - k /\ k + (i - (k - 1)) = i + 1 /\ ~ (i <= k - 1)
          BY <1>1, <1>2, <3>2
        <4> QED
          BY <1>5, <2>1, <2>2, <3>2, <4>1
      <3> QED
        BY <3>1, <3>2
    <2> QED
      BY <2>1, <2>2, <2>3
  <1>8. DOMAIN ListOfPDOs' = 1 .. n - 1
    BY <1>7, LenProperties
  <1>9. Listed' \subseteq Listed \ {p}
    <2> SUFFICES ASSUME NEW i \in 1 .. n - 1
                 PROVE  ListOfPDOs'[i] \in Listed /\ ListOfPDOs'[i] # p
      BY <1>8 DEF Listed
    <2>1. i \in 1 .. n /\ i + 1 \in 1 .. n
      BY <1>1
    <2> QED
      BY <1>1, <1>2, <1>7, <2>1 DEF Listed, Distinct
  <1>10. ASSUME NEW q \in Listed \ {p} PROVE q \in Listed'
    <2>1. PICK i \in 1 .. n : ListOfPDOs[i] = q
      BY <1>1 DEF Listed
    <2>2. CASE i < k
      <3>1. i \in 1 .. n - 1
        BY <1>1, <1>2, <2>2
      <3> QED
        BY <1>7, <1>8, <2>1, <2>2, <3>1 DEF Listed
    <2>3. CASE i > k
      <3>1. i - 1 \in 1 .. n - 1 /\ ~ (i - 1 < k) /\ (i - 1) + 1 = i
        BY <1>1, <1>2, <2>3
      <3>2. ListOfPDOs'[i - 1] = q
        BY <1>7, <2>1, <3>1
      <3> QED
        BY <1>8, <3>1, <3>2 DEF Listed
    <2> QED
      BY <1>1, <1>2, <2>1, <2>2, <2>3
  <1>11. Distinct'
    <2> SUFFICES ASSUME NEW i \in 1 .. n - 1, NEW j \in 1 .. n - 1,
                        ListOfPDOs'[i] = ListOfPDOs'[j]
                 PROVE  i = j
      BY <1>8 DEF Distinct
    <2>1. \A a, b \in 1 .. n : ListOfPDOs[a] = ListOfPDOs[b] => a = b
      BY <1>1 DEF Distinct
    <2>2. i \in 1 .. n /\ i + 1 \in 1 .. n /\ j \in 1 .. n /\ j + 1 \in 1 .. n
      BY <1>1
    <2> QED
      BY <1>2, <1>7, <2>1, <2>2
  <1> QED
    BY <1>7, <1>9, <1>10, <1>11 DEF n

LEMMA CardinalityOfSum ==
  ASSUME NEW S, IsFiniteSet(S), NEW T, IsFiniteSet(T), S \cap T = {}
  PROVE  Cardinality(S \cup T) = Cardinality(S) + Cardinality(T)
  <1>1. Cardinality(S) \in Nat /\ Cardinality(T) \in Nat /\ Cardinality(S \cap T) = 0
    BY FS_CardinalityType, FS_EmptySet
  <1>2. Cardinality(S \cup T) = Cardinality(S) + Cardinality(T) - Cardinality(S \cap T)
    BY FS_Union
  <1> QED
    BY <1>1, <1>2

LEMMA ListEmptied ==
  ASSUME ListOfPDOs' = <<>>
  PROVE  /\ ListOfPDOs' \in Seq(Pdo)
         /\ Len(ListOfPDOs') = 0
         /\ Distinct'
         /\ Listed' = {} /\ Cardinality(Listed') = 0
  <1>1. ListOfPDOs' \in Seq(Pdo) /\ Len(ListOfPDOs') = 0 /\ DOMAIN ListOfPDOs' = {}
    BY EmptySeq
  <1>2. Listed' = {} /\ Distinct'
    BY <1>1 DEF Listed, Distinct
  <1> QED
    BY <1>1, <1>2, FS_EmptySet

-----------------------------------------------------------------------------
(* What the steps are made of                                              *)

History ==
    [raced : BOOLEAN, query_failed : BOOLEAN, ejected : SUBSET Pdo,
     missed : SUBSET Pdo, detached : SUBSET Pdo, late : SUBSET Pdo, orphan : SUBSET Pdo,
     overlapped : SUBSET File]

LEMMA WithStateTyped ==
  ASSUME NEW d \in Extension, NEW s \in StoredState
  PROVE  /\ WithState(d, s) \in Extension
         /\ WithState(d, s).life = d.life
         /\ WithState(d, s).ParentFdo = d.ParentFdo
         /\ WithState(d, s).Present = d.Present
         /\ WithState(d, s).ReportedMissing = d.ReportedMissing
         /\ WithState(d, s).DevicePnPState = s
         /\ WithState(d, s).PreviousPnPState = d.DevicePnPState
  BY DEF WithState, Extension

LEMMA OrphanedTyped ==
  ASSUME NEW d \in Extension
  PROVE  /\ Orphaned(d) \in Extension
         /\ Orphaned(d).life = d.life
         /\ ~ Orphaned(d).ParentFdo
         /\ Orphaned(d).Present = d.Present
         /\ Orphaned(d).DevicePnPState = d.DevicePnPState
         /\ Orphaned(d).PreviousPnPState = d.PreviousPnPState
  BY DEF Orphaned, Extension

LEMMA FieldTyped ==
  ASSUME NEW d \in Extension
  PROVE  /\ [d EXCEPT !.Present = FALSE] \in Extension
         /\ [d EXCEPT !.Present = FALSE].life = d.life
         /\ [d EXCEPT !.Present = FALSE].ParentFdo = d.ParentFdo
         /\ Detached(d) \in Extension
         /\ Detached(d).life = d.life
         /\ Detached(d).ParentFdo = d.ParentFdo
  BY DEF Detached, Extension

LEMMA FreedTyped ==
  ASSUME NEW d \in Extension
  PROVE  /\ Freed(d) \in Extension
         /\ Freed(d).life = "deleted"
         /\ Freed(d).ParentFdo = d.ParentFdo
  BY DEF Freed, Extension

LEMMA ZeroedTyped ==
  ASSUME NEW life \in {"none", "exists", "deleted"}
  PROVE  Zeroed(life) \in Extension
  BY DEF Zeroed, Extension, StoredState, PnPState

LEMMA GotoTyped ==
  ASSUME TypeOK, NEW t \in Thread, NEW place \in Place, Goto(t, place)
  PROVE  /\ pc' \in [Thread -> Place] /\ addr' = addr /\ pdodata' = pdodata
         /\ pc'[t] = place
         /\ \A u \in Thread \ {t} : pc'[u] = pc[u]
  BY DEF TypeOK, Goto

LEMMA ReturnTyped ==
  ASSUME TypeOK, NEW t \in Thread, Return(t)
  PROVE  /\ pc' \in [Thread -> Place]
         /\ addr' \in [Thread -> Addr \cup {0}]
         /\ pdodata' \in [Thread -> Pdo \cup {NoPdo}]
         /\ pc'[t] \in {"idle", "done"}
         /\ \A u \in Thread \ {t} : pc'[u] = pc[u] /\ pdodata'[u] = pdodata[u]
  BY DEF TypeOK, Return, Place

(* A step that leaves the list alone, neither creates nor deletes a PDO    *)
(* nor takes its parent from it, and makes known only what is listed.      *)
LEMMA LinksKept ==
  ASSUME BInv,
         ListOfPDOs' = ListOfPDOs, history'.orphan = history.orphan, pnp' = pnp,
         \A p \in Pdo : dev'[p].life = dev[p].life /\ dev'[p].ParentFdo = dev[p].ParentFdo,
         \A p \in Pdo : devnode[p] # "none" => devnode'[p] # "none",
         \A p \in Pdo \ Listed : devnode[p] = "none" => devnode'[p] = "none",
         \A t \in Thread : pc'[t] \in {"fields", "insert", "read", "detach", "unplug"} =>
            \/ pc'[t] = pc[t] /\ pdodata'[t] = pdodata[t]
            \/ pc'[t] \in {"read", "detach", "unplug"} /\ pdodata'[t] \in Pdo
  PROVE  LinksOK'
  <1>1. Listed' = Listed /\ Distinct' = Distinct /\ Listed \subseteq Pdo
    BY ListedTyped DEF Listed, Distinct, BInv
  <1>2. history.orphan \subseteq Pdo
    BY DEF BInv, TypeOK
  <1>3. ListOK'
    BY <1>1 DEF ListOK, BInv, LinksOK
  <1>4. PlugOK'
    BY <1>1, <1>2 DEF PlugOK, BInv, LinksOK
  <1>5. HoldsOK'
    BY DEF HoldsOK, BInv, LinksOK
  <1>6. UnknownOK'
    BY <1>1, <1>2 DEF UnknownOK, BInv, LinksOK
  <1>7. KnownOK'
    BY <1>1 DEF KnownOK, BInv, LinksOK
  <1>8. PnpOK'
    BY <1>1 DEF PnpOK, BInv, LinksOK, Destroying
  <1> QED
    BY <1>3, <1>4, <1>5, <1>6, <1>7, <1>8 DEF LinksOK

(* Its count is then exact too.                                            *)
LEMMA CountKept ==
  ASSUME BInv, ListOfPDOs' = ListOfPDOs, NumPDOs' = NumPDOs,
         history'.orphan = history.orphan
  PROVE  NumPDOsExact'
  BY DEF BInv, NumPDOsExact

-----------------------------------------------------------------------------
(* Requests on a handle                                                    *)

LEMMA PlugCheckKeeps ==
  ASSUME BInv, NEW f \in File, NEW a \in Addr, PlugCheck(f, a)
  PROVE  BInv'
  <1> <<f, "request">> \in Thread
    BY DEF Thread
  <1>1. TypeOK'
    BY DEF BInv, TypeOK, PlugCheck, Place, Plugging, bus, files, manager
  <1>2. LinksOK'
    BY LinksKept DEF BInv, TypeOK, PlugCheck, bus, manager
  <1>3. NumPDOsExact'
    BY CountKept DEF PlugCheck, bus, BInv, TypeOK
  <1> QED
    BY <1>1, <1>2, <1>3 DEF BInv

LEMMA PlugFailsKeeps ==
  ASSUME BInv, NEW t \in Thread, PlugFails(t)
  PROVE  BInv'
  <1> Return(t)
    BY DEF PlugFails
  <1>1. TypeOK'
    BY ReturnTyped DEF BInv, TypeOK, PlugFails, bus, files, manager
  <1>2. LinksOK'
    BY LinksKept, ReturnTyped DEF BInv, PlugFails, bus, manager
  <1>3. NumPDOsExact'
    BY CountKept DEF PlugFails, bus
  <1> QED
    BY <1>1, <1>2, <1>3 DEF BInv

(* What both sections of the unplug, the answer of the bus and a PnP IRP   *)
(* do to the device extensions                                             *)
SameLinks == \A p \in Pdo : dev'[p].life = dev[p].life /\ dev'[p].ParentFdo = dev[p].ParentFdo

LEMMA UnplugMarkKeeps ==
  ASSUME BInv, NEW t \in Thread, NEW a, UnplugMark(t, a)
  PROVE  BInv'
  <1>1. Chosen(a) \subseteq Pdo /\ Missed(a) \subseteq Pdo
    BY ListedTyped DEF Chosen, Missed, Listed, BInv
  <1>2. dev' \in [Pdo -> Extension] /\ SameLinks
    <2>1. \A p \in Pdo : dev[p] \in Extension
      BY DEF BInv, TypeOK
    <2>2. dev' = [p \in Pdo |-> IF p \in Chosen(a) THEN [dev[p] EXCEPT !.Present = FALSE]
                               ELSE dev[p]]
      BY DEF UnplugMark
    <2>3. \A p \in Pdo : /\ dev'[p] \in Extension
                         /\ dev'[p].life = dev[p].life
                         /\ dev'[p].ParentFdo = dev[p].ParentFdo
      BY <2>1, <2>2, FieldTyped
    <2> QED
      BY <2>2, <2>3 DEF SameLinks
  <1>3. pending_read_irp' \in [Pdo -> File \cup {NoFile}]
    BY DEF UnplugMark, complete_pending_read_irp, BInv, TypeOK
  <1>4. /\ pc' \in [Thread -> Place] /\ addr' = addr /\ pdodata' = pdodata
        /\ pc'[t] = "settle"
        /\ \A u \in Thread \ {t} : pc'[u] = pc[u]
    BY GotoTyped DEF UnplugMark, BInv, Place
  <1>5. /\ history'.orphan = history.orphan
        /\ history' \in History
    BY <1>1 DEF UnplugMark, BInv, TypeOK, History
  <1>6. TypeOK'
    BY <1>2, <1>3, <1>4, <1>5
    DEF UnplugMark, IoInvalidateDeviceRelations, BInv, TypeOK, History, bus, files
  <1>7. LinksOK'
    BY <1>2, <1>4, <1>5, LinksKept DEF UnplugMark, SameLinks, bus
  <1>8. NumPDOsExact'
    BY <1>5, CountKept DEF UnplugMark, bus
  <1> QED
    BY <1>6, <1>7, <1>8 DEF BInv

LEMMA UnplugSettleKeeps ==
  ASSUME BInv, NEW t \in Thread, UnplugSettle(t)
  PROVE  BInv'
  <1> Return(t)
    BY DEF UnplugSettle
  <1>1. dev' \in [Pdo -> Extension] /\ SameLinks
    BY WithStateTyped DEF UnplugSettle, BInv, TypeOK, SameLinks, StoredState
  <1>2. TypeOK'
    BY <1>1, ReturnTyped DEF UnplugSettle, BInv, TypeOK, bus, files, manager
  <1>3. LinksOK'
    BY <1>1, LinksKept, ReturnTyped DEF UnplugSettle, SameLinks, BInv, bus, manager
  <1>4. NumPDOsExact'
    BY CountKept DEF UnplugSettle, bus
  <1> QED
    BY <1>2, <1>3, <1>4 DEF BInv

LEMMA EjectKeeps ==
  ASSUME BInv, NEW f, NEW a, Bus_EjectDevice(f, a)
  PROVE  BInv'
  <1>1. Chosen(a) \subseteq Pdo
    BY ListedTyped DEF Chosen, Listed, BInv
  <1>2. TypeOK'
    BY <1>1 DEF Bus_EjectDevice, BInv, TypeOK, bus, files, threads
  <1>3. LinksOK'
    BY LinksKept DEF Bus_EjectDevice, bus, threads
  <1>4. NumPDOsExact'
    BY CountKept DEF Bus_EjectDevice, bus
  <1> QED
    BY <1>2, <1>3, <1>4 DEF BInv

LEMMA ReadCheckKeeps ==
  ASSUME BInv, NEW f \in File, ReadCheck(f)
  PROVE  BInv'
  <1> <<f, "request">> \in Thread
    BY DEF Thread
  <1>1. FsContext[f] \in Pdo
    BY DEF ReadCheck, BInv, TypeOK
  <1>2. TypeOK'
    BY <1>1 DEF ReadCheck, BInv, TypeOK, Place, bus, files, manager
  <1>3. LinksOK'
    BY <1>1, LinksKept DEF ReadCheck, BInv, TypeOK, bus, manager
  <1>4. NumPDOsExact'
    BY CountKept DEF ReadCheck, bus
  <1> QED
    BY <1>2, <1>3, <1>4 DEF BInv

LEMMA ReadProcessKeeps ==
  ASSUME BInv, NEW t \in Thread, ReadProcess(t)
  PROVE  BInv'
  <1> Return(t)
    BY DEF ReadProcess
  <1>1. pdodata[t] \in Pdo
    BY DEF ReadProcess, BInv, LinksOK, HoldsOK
  <1>2. /\ fault' \subseteq Fault \X Pdo
        /\ pending_read_irp' \in [Pdo -> File \cup {NoFile}]
    BY <1>1 DEF ReadProcess, Fault, BInv, TypeOK, Thread
  <1>3. /\ history'.orphan = history.orphan
        /\ history' \in History
    <2>1. history' = history \/ Note("late", IF dev[pdodata[t]].Present THEN {} ELSE {pdodata[t]})
      BY DEF ReadProcess
    <2> QED
      BY <1>1, <2>1 DEF Note, BInv, TypeOK, History
  <1>4. TypeOK'
    BY <1>2, <1>3, ReturnTyped DEF ReadProcess, BInv, TypeOK, History, bus, files, manager
  <1>5. LinksOK'
    BY <1>3, LinksKept, ReturnTyped DEF ReadProcess, BInv, bus, manager
  <1>6. NumPDOsExact'
    BY <1>3, CountKept DEF ReadProcess, bus
  <1> QED
    BY <1>4, <1>5, <1>6 DEF BInv

LEMMA ReadAnsweredKeeps ==
  ASSUME BInv, NEW p \in Pdo, ReadAnswered(p)
  PROVE  BInv'
  <1>1. TypeOK'
    BY DEF ReadAnswered, BInv, TypeOK, bus, files, threads, manager
  <1>2. LinksOK'
    BY LinksKept DEF ReadAnswered, bus, threads, manager
  <1>3. NumPDOsExact'
    BY CountKept DEF ReadAnswered, bus
  <1> QED
    BY <1>1, <1>2, <1>3 DEF BInv

LEMMA CleanupKeeps ==
  ASSUME BInv, NEW f \in File, Cleanup(f)
  PROVE  BInv'
  <1> <<f, "cleanup">> \in Thread
    BY DEF Thread
  <1>1. /\ history'.orphan = history.orphan
        /\ history' \in History
    BY DEF Cleanup, Note, BInv, TypeOK, History
  <1>2. TypeOK'
    BY <1>1 DEF Cleanup, BInv, TypeOK, History, Place, bus, manager
  <1>3. LinksOK'
    BY <1>1, LinksKept DEF Cleanup, BInv, TypeOK, bus, manager
  <1>4. NumPDOsExact'
    BY <1>1, CountKept DEF Cleanup, bus
  <1> QED
    BY <1>2, <1>3, <1>4 DEF BInv

LEMMA CleanupDetachKeeps ==
  ASSUME BInv, NEW t \in Thread, CleanupDetach(t)
  PROVE  BInv'
  <1>1. pdodata[t] \in Pdo
    BY DEF CleanupDetach, BInv, LinksOK, HoldsOK
  <1>2. dev' \in [Pdo -> Extension] /\ SameLinks
    <2>1. \A p \in Pdo : dev[p] \in Extension
      BY DEF BInv, TypeOK
    <2>2. dev' = dev \/ dev' = [dev EXCEPT ![pdodata[t]] = Detached(@)]
      BY DEF CleanupDetach
    <2>3. /\ Detached(dev[pdodata[t]]) \in Extension
          /\ Detached(dev[pdodata[t]]).life = dev[pdodata[t]].life
          /\ Detached(dev[pdodata[t]]).ParentFdo = dev[pdodata[t]].ParentFdo
      BY <1>1, <2>1, FieldTyped
    <2>4. dev' \in [Pdo -> Extension]
      BY <2>2, <2>3 DEF BInv, TypeOK
    <2>5. SameLinks
      BY <1>1, <2>2, <2>3 DEF BInv, TypeOK, SameLinks
    <2> QED
      BY <2>4, <2>5
  <1>3. /\ fault' \subseteq Fault \X Pdo
        /\ FsContext' \in [File -> Pdo \cup {NoPdo}]
    BY <1>1 DEF CleanupDetach, Fault, BInv, TypeOK
  <1>4. Return(t) \/ Goto(t, "unplug")
    BY DEF CleanupDetach
  <1>5. /\ pc' \in [Thread -> Place]
        /\ addr' \in [Thread -> Addr \cup {0}]
        /\ pdodata' \in [Thread -> Pdo \cup {NoPdo}]
        /\ pc'[t] \in {"idle", "done"} \/ (pc'[t] = "unplug" /\ pdodata'[t] = pdodata[t])
        /\ \A u \in Thread \ {t} : pc'[u] = pc[u] /\ pdodata'[u] = pdodata[u]
    <2>1. "unplug" \in Place
      BY DEF Place
    <2> QED
      BY <1>4, <2>1, ReturnTyped, GotoTyped DEF BInv, TypeOK
  <1>6. TypeOK'
    BY <1>2, <1>3, <1>5 DEF CleanupDetach, BInv, TypeOK, bus, manager
  <1>7. LinksOK'
    BY <1>1, <1>2, <1>5, LinksKept DEF CleanupDetach, SameLinks, bus, manager
  <1>8. NumPDOsExact'
    BY CountKept DEF CleanupDetach, bus
  <1> QED
    BY <1>6, <1>7, <1>8 DEF BInv

LEMMA CleanupUnplugKeeps ==
  ASSUME BInv, NEW t \in Thread, CleanupUnplug(t)
  PROVE  BInv'
  <1> DEFINE p == pdodata[t]
             a == dev[p].SerialNo
             Unplugs == dev[p].life = "exists" /\ dev[p].Present
  <1>1. p \in Pdo
    BY DEF CleanupUnplug, BInv, LinksOK, HoldsOK
  <1>2. CASE UnplugMark(t, a)
    BY <1>2, UnplugMarkKeeps
  <1>3. CASE ~ UnplugMark(t, a)
    <2>1. /\ fault' = fault \cup (IF dev[p].life = "deleted" THEN {<<"cleanup", p>>} ELSE {})
          /\ Note("missed", IF Unplugs THEN Missed(a) ELSE {})
          /\ Return(t)
          /\ UNCHANGED <<bus, dev, files, pending_read_irp, manager>>
      BY <1>3 DEF CleanupUnplug
    <2>2. Missed(a) \subseteq Pdo
      BY ListedTyped DEF Missed, BInv
    <2>3. /\ history'.orphan = history.orphan
          /\ history' \in History
      BY <2>1, <2>2 DEF Note, BInv, TypeOK, History
    <2>4. fault' \subseteq Fault \X Pdo
      BY <1>1, <2>1 DEF Fault, BInv, TypeOK
    <2>5. TypeOK'
      BY <2>1, <2>3, <2>4, ReturnTyped DEF BInv, TypeOK, History, bus, files, manager
    <2>6. LinksOK'
      BY <2>1, <2>3, LinksKept, ReturnTyped DEF BInv, bus, manager
    <2>7. NumPDOsExact'
      BY <2>1, <2>3, CountKept DEF bus
    <2> QED
      BY <2>5, <2>6, <2>7 DEF BInv
  <1> QED
    BY <1>2, <1>3

LEMMA CloseKeeps ==
  ASSUME BInv, NEW f \in File, Close(f)
  PROVE  BInv'
  <1>1. TypeOK'
    BY DEF Close, BInv, TypeOK, bus, threads, manager
  <1>2. LinksOK'
    BY LinksKept DEF Close, bus, threads, manager
  <1>3. NumPDOsExact'
    BY CountKept DEF Close, bus
  <1> QED
    BY <1>1, <1>2, <1>3 DEF BInv

-----------------------------------------------------------------------------
(* The PnP manager                                                         *)

LEMMA SetStateKeeps ==
  ASSUME BInv, NEW p \in Pdo, NEW s \in PnPState, SET_NEW_PNP_STATE(p, s)
  PROVE  /\ dev' \in [Pdo -> Extension] /\ SameLinks
         /\ dev'[p] = WithState(dev[p], s)
         /\ \A q \in Pdo \ {p} : dev'[q] = dev[q]
  <1>1. dev \in [Pdo -> Extension] /\ dev[p] \in Extension /\ s \in StoredState
    BY DEF BInv, TypeOK, StoredState
  <1>2. dev' = [dev EXCEPT ![p] = WithState(dev[p], s)]
    BY DEF SET_NEW_PNP_STATE
  <1>3. /\ WithState(dev[p], s) \in Extension
        /\ WithState(dev[p], s).life = dev[p].life
        /\ WithState(dev[p], s).ParentFdo = dev[p].ParentFdo
    BY <1>1, WithStateTyped
  <1> QED
    BY <1>1, <1>2, <1>3 DEF SameLinks

LEMMA RestoreStateKeeps ==
  ASSUME BInv, NEW p \in Pdo, RESTORE_PREVIOUS_PNP_STATE(p)
  PROVE  /\ dev' \in [Pdo -> Extension] /\ SameLinks
         /\ dev'[p] = [dev[p] EXCEPT !.DevicePnPState = dev[p].PreviousPnPState]
         /\ \A q \in Pdo \ {p} : dev'[q] = dev[q]
  <1> DEFINE d == [dev[p] EXCEPT !.DevicePnPState = dev[p].PreviousPnPState]
  <1>1. dev \in [Pdo -> Extension] /\ dev[p] \in Extension
    BY DEF BInv, TypeOK
  <1>2. dev' = [dev EXCEPT ![p] = d]
    BY DEF RESTORE_PREVIOUS_PNP_STATE
  <1>3. d \in Extension /\ d.life = dev[p].life /\ d.ParentFdo = dev[p].ParentFdo
    BY <1>1 DEF Extension
  <1> HIDE DEF d
  <1>4. dev' \in [Pdo -> Extension] /\ SameLinks /\ dev'[p] = d
        /\ \A q \in Pdo \ {p} : dev'[q] = dev[q]
    BY <1>1, <1>2, <1>3 DEF SameLinks
  <1> QED
    BY <1>4 DEF d

LEMMA PnpSendsKeeps ==
  ASSUME BInv, NEW p \in Pdo, NEW from, NEW to \in Devnode \ {"none"}, "none" \notin from,
         PnpSends(p, from, to), dev' \in [Pdo -> Extension], SameLinks
  PROVE  BInv'
  <1>1. /\ devnode' = [devnode EXCEPT ![p] = to] /\ devnode[p] # "none"
        /\ devnode' \in [Pdo -> Devnode]
    BY DEF PnpSends, BInv, TypeOK
  <1>2. TypeOK'
    BY <1>1 DEF PnpSends, BInv, TypeOK, bus, files, threads
  <1>3. LinksOK'
    BY <1>1, LinksKept DEF PnpSends, SameLinks, BInv, TypeOK, bus, threads
  <1>4. NumPDOsExact'
    BY CountKept DEF PnpSends, bus
  <1> QED
    BY <1>2, <1>3, <1>4 DEF BInv

(* A cancel restores the state, or leaves it.                              *)
LEMMA CancelKeeps ==
  ASSUME BInv, NEW p \in Pdo, RESTORE_PREVIOUS_PNP_STATE(p) \/ UNCHANGED dev
  PROVE  dev' \in [Pdo -> Extension] /\ SameLinks
  <1>1. CASE RESTORE_PREVIOUS_PNP_STATE(p)
    BY <1>1, RestoreStateKeeps
  <1>2. CASE UNCHANGED dev
    BY <1>2 DEF BInv, TypeOK, SameLinks
  <1> QED
    BY <1>1, <1>2

LEMMA StartStopKeeps ==
  ASSUME BInv, NEW p \in Pdo,
         \/ START_DEVICE(p) \/ QUERY_STOP_DEVICE(p) \/ CANCEL_STOP_DEVICE(p) \/ STOP_DEVICE(p)
         \/ QUERY_REMOVE_DEVICE(p) \/ CANCEL_REMOVE_DEVICE(p)
  PROVE  BInv'
  <1>1. {"started", "failed", "stop", "stopped", "remove"} \subseteq Devnode \ {"none"}
    BY DEF Devnode, Live
  <1>2. {"Started", "StopPending", "Stopped", "RemovePending"} \subseteq PnPState
    BY DEF PnPState
  <1>3. CASE START_DEVICE(p)
    <2>1. dev' \in [Pdo -> Extension] /\ SameLinks
      BY <1>2, <1>3, SetStateKeeps DEF START_DEVICE
    <2>2. \/ PnpSends(p, {"new", "stopped"}, "started")
          \/ PnpSends(p, {"new", "stopped"}, "failed")
          \/ PnpSends(p, {"off"}, "started")
      BY <1>3 DEF START_DEVICE
    <2> QED
      BY <1>1, <2>1, <2>2, PnpSendsKeeps
  <1>4. CASE QUERY_STOP_DEVICE(p)
    BY <1>1, <1>2, <1>4, SetStateKeeps, PnpSendsKeeps DEF QUERY_STOP_DEVICE
  <1>5. CASE CANCEL_STOP_DEVICE(p)
    BY <1>1, <1>5, CancelKeeps, PnpSendsKeeps DEF CANCEL_STOP_DEVICE
  <1>6. CASE STOP_DEVICE(p)
    BY <1>1, <1>2, <1>6, SetStateKeeps, PnpSendsKeeps DEF STOP_DEVICE
  <1>7. CASE QUERY_REMOVE_DEVICE(p)
    BY <1>1, <1>2, <1>7, SetStateKeeps, PnpSendsKeeps DEF QUERY_REMOVE_DEVICE
  <1>8. CASE CANCEL_REMOVE_DEVICE(p)
    BY <1>1, <1>8, CancelKeeps, PnpSendsKeeps DEF CANCEL_REMOVE_DEVICE
  <1> QED
    BY <1>3, <1>4, <1>5, <1>6, <1>7, <1>8

LEMMA SurpriseRemovalKeeps ==
  ASSUME BInv, NEW p \in Pdo, SURPRISE_REMOVAL(p)
  PROVE  BInv'
  <1>1. dev' \in [Pdo -> Extension] /\ SameLinks
    BY SetStateKeeps DEF SURPRISE_REMOVAL, PnPState
  <1>2. devnode[p] # "none"
    BY DEF SURPRISE_REMOVAL, Live
  <1>3. TypeOK'
    BY <1>1 DEF SURPRISE_REMOVAL, BInv, TypeOK, Devnode, bus, files, threads
  <1>4. LinksOK'
    BY <1>1, <1>2, LinksKept DEF SURPRISE_REMOVAL, SameLinks, BInv, TypeOK, bus, threads
  <1>5. NumPDOsExact'
    BY CountKept DEF SURPRISE_REMOVAL, bus
  <1> QED
    BY <1>3, <1>4, <1>5 DEF BInv

LEMMA InterfaceKeeps ==
  ASSUME BInv, NEW p \in Pdo, InterfaceReference(p) \/ InterfaceDereference(p)
  PROVE  BInv'
  <1>1. PICK n \in 0 .. 1 : dev' = [dev EXCEPT ![p].InterfaceRefCount = n]
    BY DEF InterfaceReference, InterfaceDereference
  <1>2. dev' \in [Pdo -> Extension] /\ SameLinks
    <2> DEFINE d == [dev[p] EXCEPT !.InterfaceRefCount = n]
    <2>1. d \in Extension /\ d.life = dev[p].life /\ d.ParentFdo = dev[p].ParentFdo
      <3>1. dev[p] \in Extension
        BY DEF BInv, TypeOK
      <3> QED
        BY <3>1 DEF Extension
    <2>2. dev' = [dev EXCEPT ![p] = d]
      BY <1>1
    <2> HIDE DEF d
    <2> QED
      BY <2>1, <2>2 DEF BInv, TypeOK, SameLinks
  <1>3. UNCHANGED <<bus, files, pending_read_irp, threads, manager, fault, history>>
    BY DEF InterfaceReference, InterfaceDereference
  <1>4. TypeOK'
    BY <1>2, <1>3 DEF BInv, TypeOK, bus, files, threads, manager
  <1>5. LinksOK'
    BY <1>2, <1>3, LinksKept DEF SameLinks, bus, threads, manager
  <1>6. NumPDOsExact'
    BY <1>3, CountKept DEF bus
  <1> QED
    BY <1>4, <1>5, <1>6 DEF BInv

LEMMA PdoEjectKeeps ==
  ASSUME BInv, NEW p \in Pdo, EJECT(p)
  PROVE  BInv'
  <1>1. dev' \in [Pdo -> Extension] /\ SameLinks
    <2> DEFINE d == [dev[p] EXCEPT !.Present = FALSE]
    <2>1. d \in Extension /\ d.life = dev[p].life /\ d.ParentFdo = dev[p].ParentFdo
      BY FieldTyped DEF BInv, TypeOK
    <2>2. dev' = [dev EXCEPT ![p] = d]
      BY DEF EJECT
    <2> HIDE DEF d
    <2> QED
      BY <2>1, <2>2 DEF BInv, TypeOK, SameLinks
  <1>2. history'.orphan = history.orphan /\ history' \in History
    BY DEF EJECT, Note, BInv, TypeOK, History
  <1>3. TypeOK'
    BY <1>1, <1>2 DEF EJECT, BInv, TypeOK, History, bus, files, threads
  <1>4. LinksOK'
    BY <1>1, <1>2, LinksKept DEF EJECT, SameLinks, bus, threads
  <1>5. NumPDOsExact'
    BY <1>2, CountKept DEF EJECT, bus
  <1> QED
    BY <1>3, <1>4, <1>5 DEF BInv

LEMMA QueryKeeps ==
  ASSUME BInv, QueryBusRelations
  PROVE  BInv'
  <1>1. dev' \in [Pdo -> Extension] /\ SameLinks
    <2>1. \A p \in Pdo : dev[p] \in Extension
      BY DEF BInv, TypeOK
    <2>2. ASSUME NEW p \in Pdo
          PROVE  /\ [dev[p] EXCEPT !.ReportedMissing = TRUE] \in Extension
                 /\ [dev[p] EXCEPT !.ReportedMissing = TRUE].life = dev[p].life
                 /\ [dev[p] EXCEPT !.ReportedMissing = TRUE].ParentFdo = dev[p].ParentFdo
      BY <2>1 DEF Extension
    <2>3. dev' = [p \in Pdo |-> IF p \in Listed \ Reported
                               THEN [dev[p] EXCEPT !.ReportedMissing = TRUE] ELSE dev[p]]
      BY DEF QueryBusRelations
    <2> QED
      BY <2>1, <2>2, <2>3 DEF SameLinks
  <1>2. /\ devnode' \in [Pdo -> Devnode]
        /\ \A p \in Pdo : devnode'[p] = Learn(p)
    BY DEF QueryBusRelations, Learn, BInv, TypeOK, Devnode
  <1>3. /\ \A p \in Pdo : devnode[p] # "none" => devnode'[p] # "none"
        /\ \A p \in Pdo \ Listed : devnode[p] = "none" => devnode'[p] = "none"
    BY <1>2 DEF Learn, Reported, Live
  <1>4. TypeOK'
    BY <1>1, <1>2 DEF QueryBusRelations, BInv, TypeOK, bus, files, threads
  <1>5. LinksOK'
    BY <1>1, <1>3, LinksKept DEF QueryBusRelations, SameLinks, bus, threads
  <1>6. NumPDOsExact'
    BY CountKept DEF QueryBusRelations, bus
  <1> QED
    BY <1>4, <1>5, <1>6 DEF BInv

LEMMA QueryFailsKeeps ==
  ASSUME BInv, QueryBusRelationsFails
  PROVE  BInv'
  <1>1. history'.orphan = history.orphan /\ history' \in History
    BY DEF QueryBusRelationsFails, BInv, TypeOK, History
  <1>2. TypeOK'
    BY <1>1 DEF QueryBusRelationsFails, BInv, TypeOK, History, bus, files, threads
  <1>3. LinksOK'
    BY <1>1, LinksKept DEF QueryBusRelationsFails, bus, threads
  <1>4. NumPDOsExact'
    BY <1>1, CountKept DEF QueryBusRelationsFails, bus
  <1> QED
    BY <1>2, <1>3, <1>4 DEF BInv

LEMMA BusGoesKeeps ==
  ASSUME BInv, BusGoes
  PROVE  BInv'
  <1>1. TypeOK'
    BY DEF BusGoes, BInv, TypeOK, bus, files, threads
  <1>2. LinksOK'
    BY LinksKept DEF BusGoes, bus, threads
  <1>3. NumPDOsExact'
    BY CountKept DEF BusGoes, bus
  <1> QED
    BY <1>1, <1>2, <1>3 DEF BInv

-----------------------------------------------------------------------------
(* A PDO comes                                                             *)

LEMMA PlugCreateKeeps ==
  ASSUME BInv, NEW t \in Thread, NEW p \in Pdo, PlugCreate(t, p)
  PROVE  BInv'
  <1>1. t[1] \in File
    BY DEF Thread
  <1>2. /\ dev' \in [Pdo -> Extension]
        /\ dev'[p].life = "exists"
        /\ \A q \in Pdo \ {p} : dev'[q] = dev[q]
    BY ZeroedTyped DEF PlugCreate, Zeroed, BInv, TypeOK
  <1>3. /\ pc' \in [Thread -> Place] /\ pdodata' \in [Thread -> Pdo \cup {NoPdo}]
        /\ pc'[t] = "fields" /\ pdodata'[t] = p
        /\ \A u \in Thread \ {t} : pc'[u] = pc[u] /\ pdodata'[u] = pdodata[u]
    BY DEF PlugCreate, BInv, TypeOK, Place, Plugging
  <1>4. dev[p].life = "none" /\ p \notin Listed \cup history.orphan /\ devnode[p] = "none"
    BY DEF PlugCreate, BInv, LinksOK, UnknownOK
  <1>5. Listed' = Listed /\ Distinct' = Distinct /\ Listed \subseteq Pdo
    BY ListedTyped DEF PlugCreate, bus, Listed, Distinct, BInv
  <1>6. UNCHANGED <<bus, handle, pending_read_irp, addr, manager, fault, history>>
    BY DEF PlugCreate
  <1>7. TypeOK'
    BY <1>1, <1>2, <1>3, <1>6 DEF PlugCreate, BInv, TypeOK, bus, manager
  <1>8. ListOK'
    BY <1>2, <1>4, <1>5, <1>6 DEF BInv, LinksOK, ListOK, bus
  <1>9. PlugOK'
    BY <1>2, <1>3, <1>4, <1>5, <1>6 DEF BInv, LinksOK, PlugOK, manager
  <1>10. HoldsOK'
    BY <1>3 DEF BInv, LinksOK, HoldsOK
  <1>11. UnknownOK'
    BY <1>2, <1>4, <1>5, <1>6 DEF BInv, TypeOK, LinksOK, UnknownOK, manager
  <1>12. KnownOK'
    BY <1>2, <1>4, <1>5, <1>6 DEF BInv, LinksOK, KnownOK, manager
  <1>13. PnpOK'
    BY <1>2, <1>4, <1>5, <1>6 DEF BInv, LinksOK, PnpOK, Destroying, manager
  <1>14. NumPDOsExact'
    BY <1>6, CountKept DEF bus
  <1> QED
    BY <1>7, <1>8, <1>9, <1>10, <1>11, <1>12, <1>13, <1>14 DEF BInv, LinksOK

LEMMA PlugFieldsKeeps ==
  ASSUME BInv, NEW t \in Thread, PlugFields(t)
  PROVE  BInv'
  <1> DEFINE p == pdodata[t]
  <1>1. /\ p \in Pdo /\ p \notin Listed \cup history.orphan
        /\ dev[p].life = "exists" /\ devnode[p] = "none"
        /\ \A u \in Thread \ {t} : pc[u] \in {"fields", "insert"} => pdodata[u] # p
    BY DEF PlugFields, BInv, LinksOK, PlugOK
  <1>2. /\ dev' \in [Pdo -> Extension]
        /\ dev'[p].life = "exists" /\ dev'[p].ParentFdo
        /\ \A q \in Pdo \ {p} : dev'[q] = dev[q]
    <2> DEFINE d == [Zeroed("exists") EXCEPT !.SerialNo = addr[t], !.fo = t[1],
                                             !.ParentFdo = TRUE, !.Present = TRUE]
    <2>1. addr[t] \in Addr \cup {0} /\ t[1] \in File
      BY DEF BInv, TypeOK, Thread
    <2>2. d \in Extension /\ d.life = "exists" /\ d.ParentFdo
      <3>1. Zeroed("exists") \in Extension /\ Zeroed("exists").life = "exists"
        BY ZeroedTyped DEF Zeroed
      <3> QED
        BY <2>1, <3>1 DEF Extension
    <2>3. dev' = [dev EXCEPT ![p] = d]
      BY DEF PlugFields
    <2> HIDE DEF d
    <2> QED
      BY <1>1, <2>2, <2>3 DEF BInv, TypeOK
  <1> HIDE DEF p
  <1>3. /\ pc' \in [Thread -> Place] /\ addr' = addr /\ pdodata' = pdodata
        /\ pc[t] = "fields" /\ pc'[t] = "insert"
        /\ \A u \in Thread \ {t} : pc'[u] = pc[u]
    BY GotoTyped DEF PlugFields, BInv, Place, Plugging
  <1>4. Listed' = Listed /\ Distinct' = Distinct /\ Listed \subseteq Pdo
    BY ListedTyped DEF PlugFields, bus, Listed, Distinct, BInv
  <1>5. UNCHANGED <<bus, files, pending_read_irp, manager, fault, history>>
    BY DEF PlugFields
  <1>6. TypeOK'
    BY <1>2, <1>3, <1>5 DEF BInv, TypeOK, bus, files, manager
  <1>7. ListOK'
    BY <1>1, <1>2, <1>4, <1>5 DEF BInv, LinksOK, ListOK, bus
  <1>8. PlugOK'
    BY <1>1, <1>2, <1>3, <1>4, <1>5 DEF BInv, LinksOK, PlugOK, manager, p
  <1>9. HoldsOK'
    BY <1>3 DEF BInv, LinksOK, HoldsOK
  <1>10. UnknownOK'
    BY <1>1, <1>2, <1>4, <1>5 DEF BInv, TypeOK, LinksOK, UnknownOK, manager
  <1>11. KnownOK'
    BY <1>1, <1>2, <1>4, <1>5 DEF BInv, LinksOK, KnownOK, manager
  <1>12. PnpOK'
    BY <1>1, <1>2, <1>4, <1>5 DEF BInv, LinksOK, PnpOK, Destroying, manager
  <1>13. NumPDOsExact'
    BY <1>5, CountKept DEF bus
  <1> QED
    BY <1>6, <1>7, <1>8, <1>9, <1>10, <1>11, <1>12, <1>13 DEF BInv, LinksOK

LEMMA PlugInsertKeeps ==
  ASSUME BInv, NEW t \in Thread, PlugInsert(t)
  PROVE  BInv'
  <1> DEFINE p == pdodata[t]
  <1>1. /\ p \in Pdo /\ p \notin Listed \cup history.orphan
        /\ dev[p].life = "exists" /\ dev[p].ParentFdo /\ devnode[p] = "none"
        /\ \A u \in Thread \ {t} : pc[u] \in {"fields", "insert"} => pdodata[u] # p
    BY DEF PlugInsert, BInv, LinksOK, PlugOK
  <1>2. ListOfPDOs' = Append(ListOfPDOs, p) /\ NumPDOs' = NumPDOs + 1
    BY DEF PlugInsert
  <1> HIDE DEF p
  <1>3. /\ ListOfPDOs' \in Seq(Pdo)
        /\ Len(ListOfPDOs') = Len(ListOfPDOs) + 1
        /\ Distinct'
        /\ Listed' = Listed \cup {p}
    BY <1>1, <1>2, ListAppend DEF BInv, TypeOK, LinksOK, ListOK
  <1>4. /\ Listed \subseteq Pdo /\ IsFiniteSet(Listed)
        /\ Cardinality(Listed') = Cardinality(Listed) + 1
    BY <1>1, <1>3, ListedTyped, FS_AddElement DEF BInv
  <1>5. /\ pc' \in [Thread -> Place]
        /\ addr' \in [Thread -> Addr \cup {0}]
        /\ pdodata' \in [Thread -> Pdo \cup {NoPdo}]
        /\ pc'[t] \in {"idle", "done"}
        /\ \A u \in Thread \ {t} : pc'[u] = pc[u] /\ pdodata'[u] = pdodata[u]
    BY ReturnTyped DEF PlugInsert, BInv
  <1>6. UNCHANGED <<fdo, dev, files, pending_read_irp, devnode, pnp, busGone, ejecting,
                    fault, history>>
    BY DEF PlugInsert
  <1>7. TypeOK'
    BY <1>2, <1>3, <1>5, <1>6
    DEF PlugInsert, IoInvalidateDeviceRelations, BInv, TypeOK, files
  <1>8. ListOK'
    BY <1>1, <1>3, <1>4, <1>6 DEF BInv, LinksOK, ListOK
  <1>9. PlugOK'
    BY <1>1, <1>3, <1>5, <1>6 DEF BInv, LinksOK, PlugOK
  <1>10. HoldsOK'
    BY <1>5 DEF BInv, LinksOK, HoldsOK
  <1>11. UnknownOK'
    BY <1>1, <1>3, <1>6 DEF BInv, LinksOK, UnknownOK
  <1>12. KnownOK'
    BY <1>3, <1>6 DEF BInv, LinksOK, KnownOK
  <1>13. PnpOK'
    BY <1>1, <1>3, <1>6 DEF BInv, LinksOK, PnpOK, Destroying
  <1>14. NumPDOsExact'
    <2>1. Cardinality(history.orphan) \in Nat /\ Len(ListOfPDOs) \in Nat
      BY BusAssumption, FS_Subset, FS_CardinalityType, LenProperties DEF BInv, TypeOK
    <2> QED
      BY <1>2, <1>3, <1>6, <2>1 DEF BInv, NumPDOsExact
  <1> QED
    BY <1>7, <1>8, <1>9, <1>10, <1>11, <1>12, <1>13, <1>14 DEF BInv, LinksOK

-----------------------------------------------------------------------------
(* A PDO goes                                                              *)

LEMMA RemoveDeviceKeeps ==
  ASSUME BInv, NEW p \in Pdo, REMOVE_DEVICE(p)
  PROVE  BInv'
  <1>1. /\ devnode' \in [Pdo -> Devnode]
        /\ devnode[p] # "none" /\ devnode'[p] # "none"
        /\ \A q \in Pdo \ {p} : devnode'[q] = devnode[q]
    BY DEF REMOVE_DEVICE, BInv, TypeOK, Devnode
  <1>2. UNCHANGED <<bus, files, pending_read_irp, threads, invalid, busGone, ejecting, history>>
    BY DEF REMOVE_DEVICE
  <1>3. NumPDOsExact'
    BY <1>2, CountKept DEF bus
  <1>4. CASE /\ pnp' = pnp
             /\ dev' \in [Pdo -> Extension] /\ SameLinks
             /\ fault' \subseteq Fault \X Pdo
    <2>1. TypeOK'
      BY <1>1, <1>2, <1>4 DEF BInv, TypeOK, bus, files, threads
    <2>2. LinksOK'
      BY <1>1, <1>2, <1>4, LinksKept DEF SameLinks, bus, threads
    <2> QED
      BY <1>3, <2>1, <2>2 DEF BInv
  <1>5. CASE /\ pnp' = [at |-> "delink", pdo |-> p]
             /\ dev[p].life = "exists"
             /\ dev' \in [Pdo -> Extension] /\ SameLinks
             /\ fault' = fault
    <2>1. TypeOK'
      BY <1>1, <1>2, <1>5 DEF BInv, TypeOK, bus, files, threads
    <2>2. Listed' = Listed /\ Distinct' = Distinct /\ Listed \subseteq Pdo
      BY <1>2, ListedTyped DEF bus, Listed, Distinct, BInv
    <2>3. ListOK'
      BY <1>2, <1>5, <2>2 DEF BInv, LinksOK, ListOK, SameLinks, bus
    <2>4. PlugOK'
      BY <1>1, <1>2, <1>5, <2>2 DEF BInv, LinksOK, PlugOK, SameLinks, threads
    <2>5. HoldsOK'
      BY <1>2 DEF BInv, LinksOK, HoldsOK, threads
    <2>6. UnknownOK'
      BY <1>1, <1>2, <1>5, <2>2 DEF BInv, TypeOK, LinksOK, UnknownOK, SameLinks
    <2>7. pnp.at = "idle"
      BY DEF REMOVE_DEVICE
    <2>8. KnownOK'
      BY <1>1, <1>5, <2>2, <2>7 DEF BInv, LinksOK, KnownOK, SameLinks, Destroying
    <2>9. PnpOK'
      BY <1>1, <1>5, <2>2 DEF PnpOK, SameLinks, Destroying
    <2> QED
      BY <1>3, <2>1, <2>3, <2>4, <2>5, <2>6, <2>8, <2>9 DEF BInv, LinksOK
  <1>6. {"Deleted", "NotStarted"} \subseteq PnPState
    BY DEF PnPState
  <1>7. UNCHANGED dev => dev' \in [Pdo -> Extension] /\ SameLinks
    BY DEF BInv, TypeOK, SameLinks
  <1>8. fault \subseteq Fault \X Pdo /\ <<"remove", p>> \in Fault \X Pdo
    BY DEF BInv, TypeOK, Fault
  <1>9. CASE dev[p].life = "deleted"
    BY <1>4, <1>7, <1>8, <1>9 DEF REMOVE_DEVICE
  <1>10. CASE dev[p].life = "exists" /\ MustDelete(p)
    BY <1>5, <1>6, <1>10, SetStateKeeps DEF REMOVE_DEVICE
  <1>11. CASE dev[p].life # "deleted" /\ ~ (dev[p].life = "exists" /\ MustDelete(p))
    BY <1>4, <1>6, <1>7, <1>8, <1>11, SetStateKeeps DEF REMOVE_DEVICE
  <1> QED
    BY <1>9, <1>10, <1>11

LEMMA RemoveDelinkKeeps ==
  ASSUME BInv, RemoveDelink
  PROVE  BInv'
  <1> DEFINE p == pnp.pdo
  <1>1. /\ p \in Pdo /\ devnode[p] # "none" /\ dev[p].life = "exists" /\ pnp.at = "delink"
    BY DEF RemoveDelink, BInv, LinksOK, PnpOK
  <1>2. pnp' \in [at : {"idle", "delink", "test", "clear"}, pdo : Pdo \cup {NoPdo}]
        /\ pnp'.at = "test" /\ pnp'.pdo = p
    BY DEF RemoveDelink, BInv, TypeOK
  <1>3. UNCHANGED <<fdo, dev, files, pending_read_irp, threads, devnode, invalid, busGone,
                    ejecting, fault, history>>
    BY DEF RemoveDelink
  <1>4. Listed \subseteq Pdo /\ IsFiniteSet(Listed) /\ Cardinality(Listed) \in Nat
    BY ListedTyped DEF BInv
  <1>5. Cardinality(history.orphan) \in Nat /\ Len(ListOfPDOs) \in Nat
    BY BusAssumption, FS_Subset, FS_CardinalityType, LenProperties DEF BInv, TypeOK
  <1>6. /\ ListOfPDOs' \in Seq(Pdo) /\ Distinct'
        /\ Listed' = Listed \ {p}
        /\ Cardinality(Listed') = Len(ListOfPDOs')
        /\ NumPDOs' = Len(ListOfPDOs') + Cardinality(history.orphan)
        /\ Len(ListOfPDOs') \in Nat
    <2>1. CASE dev[p].ParentFdo
      <3>1. p \in Listed
        BY <1>1, <2>1 DEF BInv, LinksOK, KnownOK, Destroying
      <3>2. ListOfPDOs' = RemoveEntryList(p) /\ NumPDOs' = NumPDOs - 1
        BY <2>1 DEF RemoveDelink, Delink
      <3> HIDE DEF p
      <3>3. /\ ListOfPDOs' \in Seq(Pdo)
            /\ Len(ListOfPDOs') = Len(ListOfPDOs) - 1
            /\ Distinct'
            /\ Listed' = Listed \ {p}
        BY <3>1, <3>2, ListRemove DEF BInv, TypeOK, LinksOK, ListOK
      <3>4. Cardinality(Listed') = Cardinality(Listed) - 1
        BY <1>4, <3>1, <3>3, FS_RemoveElement
      <3>5. Len(ListOfPDOs') \in Nat
        BY <3>3, LenProperties
      <3> QED
        BY <1>5, <3>2, <3>3, <3>4, <3>5 DEF BInv, LinksOK, ListOK, NumPDOsExact
    <2>2. CASE ~ dev[p].ParentFdo
      <3>1. ListOfPDOs' = ListOfPDOs /\ NumPDOs' = NumPDOs
        BY <2>2 DEF RemoveDelink
      <3>2. p \notin Listed
        BY <2>2 DEF BInv, LinksOK, ListOK
      <3>3. Listed' = Listed /\ Distinct' = Distinct
        BY <3>1 DEF Listed, Distinct
      <3> HIDE DEF p
      <3> QED
        BY <1>5, <3>1, <3>2, <3>3 DEF BInv, TypeOK, LinksOK, ListOK, NumPDOsExact
    <2> QED
      BY <2>1, <2>2
  <1> HIDE DEF p
  <1>7. TypeOK'
    BY <1>2, <1>3, <1>5, <1>6 DEF BInv, TypeOK, files, threads
  <1>8. ListOK'
    BY <1>3, <1>6 DEF BInv, LinksOK, ListOK
  <1>9. PlugOK'
    BY <1>3, <1>6 DEF BInv, LinksOK, PlugOK, threads
  <1>10. HoldsOK'
    BY <1>3 DEF BInv, LinksOK, HoldsOK, threads
  <1>11. UnknownOK'
    BY <1>3, <1>6 DEF BInv, LinksOK, UnknownOK
  <1>12. KnownOK'
    BY <1>1, <1>2, <1>3, <1>6 DEF BInv, LinksOK, KnownOK, Destroying
  <1>13. PnpOK'
    BY <1>1, <1>2, <1>3, <1>6 DEF PnpOK, Destroying
  <1>14. NumPDOsExact'
    BY <1>3, <1>6 DEF NumPDOsExact
  <1> QED
    BY <1>7, <1>8, <1>9, <1>10, <1>11, <1>12, <1>13, <1>14 DEF BInv, LinksOK

(* Bus_DestroyPdo deletes a PDO that is in no list any more.               *)
LEMMA DestroyKeeps ==
  ASSUME BInv, DestroyTest \/ DestroyClear
  PROVE  BInv'
  <1> DEFINE p == pnp.pdo
  <1>1. /\ p \in Pdo /\ p \notin Listed
        /\ devnode[p] # "none" /\ dev[p].life = "exists" /\ pnp.at \in Destroying
    BY DEF DestroyTest, DestroyClear, BInv, LinksOK, PnpOK, Destroying
  <1>2. UNCHANGED <<bus, handle, pending_read_irp, threads, devnode, invalid, busGone,
                    ejecting, history>>
    BY DEF DestroyTest, DestroyClear, files
  <1>3. FsContext' \in [File -> Pdo \cup {NoPdo}] /\ fault' \subseteq Fault \X Pdo
    <2>1. CASE DestroyTest
      BY <2>1 DEF DestroyTest, files, BInv, TypeOK
    <2>2. CASE DestroyClear
      <3>1. FsContext' \in [File -> Pdo \cup {NoPdo}]
        BY <2>2 DEF DestroyClear, Forget, BInv, TypeOK
      <3>2. fault' \subseteq fault \cup {<<"null_fo", p>>, <<"closed_fo", p>>}
        BY <2>2 DEF DestroyClear
      <3> QED
        BY <1>1, <3>1, <3>2 DEF BInv, TypeOK, Fault
    <2> QED
      BY <2>1, <2>2
  <1>4. Listed' = Listed /\ Distinct' = Distinct /\ Listed \subseteq Pdo
    BY <1>2, ListedTyped DEF bus, Listed, Distinct, BInv
  <1>5. NumPDOsExact'
    BY <1>2, CountKept DEF bus
  <1>6. CASE pnp' = [pnp EXCEPT !.at = "clear"] /\ dev' = dev
    <2>1. /\ pnp' \in [at : {"idle", "delink", "test", "clear"}, pdo : Pdo \cup {NoPdo}]
          /\ pnp'.at = "clear" /\ pnp'.pdo = p
      BY <1>6 DEF BInv, TypeOK
    <2> HIDE DEF p
    <2>2. TypeOK'
      BY <1>2, <1>3, <1>6, <2>1 DEF BInv, TypeOK, bus, threads
    <2>3. ListOK' /\ PlugOK' /\ HoldsOK' /\ UnknownOK'
      BY <1>2, <1>4, <1>6 DEF BInv, LinksOK, ListOK, PlugOK, HoldsOK, UnknownOK, bus, threads
    <2>4. KnownOK'
      BY <1>1, <1>2, <1>4, <1>6, <2>1 DEF BInv, LinksOK, KnownOK, Destroying, p
    <2>5. PnpOK'
      BY <1>1, <1>2, <1>4, <1>6, <2>1 DEF PnpOK, Destroying
    <2> QED
      BY <1>5, <2>2, <2>3, <2>4, <2>5 DEF BInv, LinksOK
  <1>7. CASE /\ pnp' = [at |-> "idle", pdo |-> NoPdo]
             /\ dev' \in [Pdo -> Extension]
             /\ dev'[p].life = "deleted"
             /\ \A q \in Pdo \ {p} : dev'[q] = dev[q]
             /\ dev'[p].ParentFdo = dev[p].ParentFdo
    <2> HIDE DEF p
    <2>1. TypeOK'
      BY <1>2, <1>3, <1>7 DEF BInv, TypeOK, bus, threads
    <2>2. ListOK'
      BY <1>1, <1>2, <1>4, <1>7 DEF BInv, LinksOK, ListOK, bus
    <2>3. PlugOK'
      BY <1>1, <1>2, <1>4, <1>7 DEF BInv, LinksOK, PlugOK, threads
    <2>4. HoldsOK'
      BY <1>2 DEF BInv, LinksOK, HoldsOK, threads
    <2>5. UnknownOK'
      <3>1. history.orphan \subseteq Pdo
        BY DEF BInv, TypeOK
      <3> QED
        BY <1>1, <1>2, <1>4, <1>7, <3>1 DEF BInv, LinksOK, UnknownOK
    <2>6. KnownOK'
      BY <1>1, <1>2, <1>4, <1>7 DEF BInv, LinksOK, KnownOK, p
    <2>7. PnpOK'
      BY <1>7 DEF PnpOK, Destroying
    <2> QED
      BY <1>5, <2>1, <2>2, <2>3, <2>4, <2>5, <2>6, <2>7 DEF BInv, LinksOK
  <1>8. dev \in [Pdo -> Extension] /\ dev[p] \in Extension
    BY <1>1 DEF BInv, TypeOK
  <1>9. CASE DestroyTest
    <2>1. CASE dev[p].fo # NoFile
      BY <1>6, <1>9, <2>1 DEF DestroyTest
    <2>2. CASE dev[p].fo = NoFile
      <3>1. dev' = [dev EXCEPT ![p] = Freed(dev[p])] /\ pnp' = [at |-> "idle", pdo |-> NoPdo]
        BY <1>9, <2>2 DEF DestroyTest
      <3> QED
        BY <1>1, <1>7, <1>8, <3>1, FreedTyped
    <2> QED
      BY <2>1, <2>2
  <1>10. CASE DestroyClear
    <2>1. dev' = [dev EXCEPT ![p] = Freed(dev[p])] /\ pnp' = [at |-> "idle", pdo |-> NoPdo]
      BY <1>10 DEF DestroyClear
    <2> QED
      BY <1>1, <1>7, <1>8, <2>1, FreedTyped
  <1> QED
    BY <1>9, <1>10

-----------------------------------------------------------------------------
(* The bus goes                                                            *)

(* The list becomes empty; what was in it is an orphan or deleted, and the *)
(* manager knows as many PDOs as before.                                   *)
LEMMA EmptyKeeps ==
  ASSUME BInv, TypeOK', ListOfPDOs' = <<>>, pnp' = pnp, pnp.at = "idle",
         UNCHANGED <<pc, pdodata>>,
         NEW lost \in SUBSET Listed,
         history'.orphan = history.orphan \cup lost,
         \A p \in Pdo \ Listed : dev'[p] = dev[p],
         \A p \in lost : dev'[p].life # "none" /\ ~ dev'[p].ParentFdo,
         \A p \in Listed \ lost : dev'[p].life = "deleted",
         \A p \in Pdo : devnode'[p] = "none" <=> devnode[p] = "none",
         NumPDOs' = NumPDOs - Cardinality(Listed) + Cardinality(lost)
  PROVE  BInv'
  <1>1. /\ Len(ListOfPDOs') = 0 /\ Distinct' /\ Listed' = {} /\ Cardinality(Listed') = 0
    BY ListEmptied
  <1>2. /\ Listed \subseteq Pdo /\ IsFiniteSet(Listed) /\ Cardinality(Listed) \in Nat
    BY ListedTyped DEF BInv
  <1>3. history.orphan \subseteq Pdo /\ history'.orphan \subseteq Pdo
    BY DEF BInv, TypeOK
  <1>4. ListOK'
    BY <1>1 DEF ListOK
  <1>5. PlugOK'
    BY <1>1 DEF BInv, LinksOK, PlugOK
  <1>6. HoldsOK'
    BY DEF BInv, LinksOK, HoldsOK
  <1>7. UnknownOK'
    BY <1>1, <1>2, <1>3 DEF BInv, LinksOK, UnknownOK
  <1>8. KnownOK'
    BY <1>1, <1>2 DEF BInv, LinksOK, KnownOK, Destroying
  <1>9. PnpOK'
    BY DEF PnpOK, Destroying
  <1>10. NumPDOsExact'
    <2>1. /\ IsFiniteSet(history.orphan) /\ Cardinality(history.orphan) \in Nat
          /\ IsFiniteSet(lost) /\ Cardinality(lost) \in Nat
      BY <1>2, <1>3, BusAssumption, FS_Subset, FS_CardinalityType
    <2>2. history.orphan \cap lost = {}
      BY DEF BInv, LinksOK, UnknownOK
    <2>3. Cardinality(history'.orphan) = Cardinality(history.orphan) + Cardinality(lost)
      BY <2>1, <2>2, CardinalityOfSum
    <2>4. NumPDOs = Cardinality(Listed) + Cardinality(history.orphan)
      BY DEF BInv, LinksOK, ListOK, NumPDOsExact
    <2> QED
      BY <1>1, <1>2, <2>1, <2>3, <2>4 DEF NumPDOsExact
  <1> QED
    BY <1>4, <1>5, <1>6, <1>7, <1>8, <1>9, <1>10 DEF BInv, LinksOK

LEMMA FdoSurpriseRemovalKeeps ==
  ASSUME BInv, FdoSurpriseRemoval
  PROVE  BInv'
  <1>1. /\ Listed \subseteq Pdo /\ IsFiniteSet(Listed) /\ Cardinality(Listed) \in Nat
    BY ListedTyped DEF BInv
  <1>2. \A p \in Pdo : dev[p] \in Extension
    BY DEF BInv, TypeOK
  <1>3. dev' = [p \in Pdo |-> IF p \in Listed THEN Orphaned(dev[p]) ELSE dev[p]]
    BY DEF FdoSurpriseRemoval
  <1>4. /\ dev' \in [Pdo -> Extension]
        /\ \A p \in Pdo \ Listed : dev'[p] = dev[p]
        /\ \A p \in Listed : dev'[p].life = dev[p].life /\ ~ dev'[p].ParentFdo
    BY <1>1, <1>2, <1>3, OrphanedTyped
  <1>5. /\ devnode' \in [Pdo -> Devnode]
        /\ \A p \in Pdo : devnode'[p] = "none" <=> devnode[p] = "none"
    BY DEF FdoSurpriseRemoval, BInv, TypeOK, Devnode
  <1>6. history'.orphan = history.orphan \cup Listed /\ history' \in History
    BY <1>1 DEF FdoSurpriseRemoval, Note, BInv, TypeOK, History
  <1>7. ListOfPDOs' = <<>> /\ ListOfPDOs' \in Seq(Pdo)
    BY ListEmptied DEF FdoSurpriseRemoval
  <1>8. UNCHANGED <<NumPDOs, files, pending_read_irp, threads, pnp, invalid, busGone,
                    ejecting, fault>>
    BY DEF FdoSurpriseRemoval
  <1>9. fdo' = "SurpriseRemovePending" /\ pnp.at = "idle"
    BY DEF FdoSurpriseRemoval
  <1>10. TypeOK'
    BY <1>4, <1>5, <1>6, <1>7, <1>8, <1>9 DEF BInv, TypeOK, History, files, threads
  <1>11. NumPDOs' = NumPDOs - Cardinality(Listed) + Cardinality(Listed)
    BY <1>1, <1>8 DEF BInv, TypeOK
  <1>12. \A p \in Listed : dev[p].life = "exists"
    BY DEF BInv, LinksOK, ListOK
  <1> QED
    BY <1>4, <1>5, <1>6, <1>7, <1>8, <1>9, <1>10, <1>11, <1>12, EmptyKeeps DEF threads

LEMMA FdoRemoveKeeps ==
  ASSUME BInv, FdoRemove
  PROVE  BInv'
  <1> DEFINE Destroyed == Listed \ Spared
  <1>1. /\ Listed \subseteq Pdo /\ IsFiniteSet(Listed) /\ Cardinality(Listed) \in Nat
    BY ListedTyped DEF BInv
  <1>2. Spared \subseteq Listed
    BY DEF Spared
  <1> HIDE DEF Destroyed
  <1>3. \A p \in Pdo : dev[p] \in Extension
    BY DEF BInv, TypeOK
  <1>4. dev' = [p \in Pdo |->
                  CASE p \in Spared -> Orphaned(dev[p])
                    [] p \in Destroyed -> Freed(dev[p])
                    [] OTHER -> dev[p]]
    BY DEF FdoRemove, Destroyed
  <1>5. \A p \in Pdo : Freed(dev[p]) \in Extension /\ Freed(dev[p]).life = "deleted"
    BY <1>3, FreedTyped
  <1>6. /\ dev' \in [Pdo -> Extension]
        /\ \A p \in Pdo \ Listed : dev'[p] = dev[p]
        /\ \A p \in Spared : dev'[p].life = dev[p].life /\ ~ dev'[p].ParentFdo
        /\ \A p \in Listed \ Spared : dev'[p].life = "deleted"
    <2>1. \A p \in Pdo \ Listed : dev'[p] = dev[p]
      BY <1>2, <1>4 DEF Destroyed
    <2>2. \A p \in Spared : dev'[p] = Orphaned(dev[p])
      BY <1>1, <1>2, <1>4 DEF Destroyed
    <2>3. \A p \in Listed \ Spared :
              dev'[p] = Freed(dev[p])
      BY <1>1, <1>2, <1>4 DEF Destroyed
    <2>4. ASSUME NEW p \in Pdo PROVE dev'[p] \in Extension
      <3>1. CASE p \in Spared
        BY <1>3, <2>2, <3>1, OrphanedTyped
      <3>2. CASE p \in Listed \ Spared
        BY <1>5, <2>3, <3>2
      <3>3. CASE p \notin Listed
        BY <1>3, <2>1, <3>3
      <3> QED
        BY <3>1, <3>2, <3>3
    <2>5. dev' \in [Pdo -> Extension]
      <3> HIDE DEF Destroyed
      <3>1. DOMAIN dev' = Pdo /\ dev' = [p \in Pdo |-> dev'[p]]
        BY <1>4
      <3> QED
        BY <2>4, <3>1
    <2>6. \A p \in Spared : dev'[p].life = dev[p].life /\ ~ dev'[p].ParentFdo
      BY <1>1, <1>2, <1>3, <2>2, OrphanedTyped
    <2>7. \A p \in Listed \ Spared : dev'[p].life = "deleted"
      BY <1>1, <1>5, <2>3
    <2> QED
      BY <2>1, <2>5, <2>6, <2>7
  <1>7. history'.orphan = history.orphan \cup Spared /\ history' \in History
    BY <1>1, <1>2 DEF FdoRemove, Note, BInv, TypeOK, History
  <1>8. ListOfPDOs' = <<>> /\ ListOfPDOs' \in Seq(Pdo)
    BY ListEmptied DEF FdoRemove
  <1>9. UNCHANGED <<files, pending_read_irp, threads, devnode, pnp, invalid, busGone, ejecting>>
    BY DEF FdoRemove
  <1>10. fdo' = "Deleted" /\ pnp.at = "idle"
    BY DEF FdoRemove
  <1>11. fault' \subseteq Fault \X Pdo
    <2>1. fault' \subseteq fault \cup {<<"closed_fo", p>> : p \in Destroyed}
      BY DEF FdoRemove, Destroyed
    <2>2. Destroyed \subseteq Pdo
      BY <1>1 DEF Destroyed
    <2> QED
      BY <2>1, <2>2 DEF BInv, TypeOK, Fault
  <1>12. /\ NumPDOs' = NumPDOs - Cardinality(Listed) + Cardinality(Spared)
         /\ NumPDOs' \in Nat
    <2>1. /\ IsFiniteSet(Destroyed) /\ Cardinality(Destroyed) \in Nat
          /\ IsFiniteSet(Spared) /\ Cardinality(Spared) \in Nat
      BY <1>1, <1>2, FS_Subset, FS_CardinalityType DEF Destroyed
    <2>2. Destroyed \cup Spared = Listed /\ Destroyed \cap Spared = {}
      BY <1>2 DEF Destroyed
    <2>3. Cardinality(Listed) = Cardinality(Destroyed) + Cardinality(Spared)
      BY <2>1, <2>2, CardinalityOfSum
    <2>4. NumPDOs' = NumPDOs - Cardinality(Destroyed)
      BY DEF FdoRemove, Destroyed
    <2>5. /\ NumPDOs = Cardinality(Listed) + Cardinality(history.orphan)
          /\ Cardinality(history.orphan) \in Nat
      BY BusAssumption, FS_Subset, FS_CardinalityType
      DEF BInv, TypeOK, LinksOK, ListOK, NumPDOsExact
    <2> QED
      BY <1>1, <2>1, <2>3, <2>4, <2>5
  <1>13. TypeOK'
    BY <1>6, <1>7, <1>8, <1>9, <1>10, <1>11, <1>12 DEF BInv, TypeOK, History, files, threads
  <1>14. \A p \in Listed : dev[p].life = "exists"
    BY DEF BInv, LinksOK, ListOK
  <1> QED
    BY <1>2, <1>6, <1>7, <1>8, <1>9, <1>10, <1>12, <1>13, <1>14, EmptyKeeps DEF threads

-----------------------------------------------------------------------------

LEMMA BInvInit == Init => BInv
  <1> SUFFICES ASSUME Init PROVE BInv
    OBVIOUS
  <1>1. TypeOK
    BY ZeroedTyped, EmptySeq DEF Init, TypeOK, Place, Devnode
  <1>2. Listed = {} /\ Cardinality(Listed) = 0 /\ Len(ListOfPDOs) = 0 /\ Distinct
    <2>1. DOMAIN ListOfPDOs = {} /\ Len(ListOfPDOs) = 0
      BY EmptySeq DEF Init
    <2> QED
      BY <2>1, FS_EmptySet DEF Listed, Distinct
  <1>3. LinksOK
    BY <1>2 DEF Init, LinksOK, ListOK, PlugOK, HoldsOK, UnknownOK, KnownOK, PnpOK, Destroying
  <1>4. NumPDOsExact
    BY <1>2, FS_EmptySet DEF Init, NumPDOsExact
  <1> QED
    BY <1>1, <1>3, <1>4 DEF BInv

LEMMA BInvNext == BInv /\ [Next]_vars => BInv'
  <1> SUFFICES ASSUME BInv, [Next]_vars PROVE BInv'
    OBVIOUS
  <1>1. ASSUME NEW t \in Thread, Continue(t) PROVE BInv'
    BY <1>1, PlugFailsKeeps, PlugCreateKeeps, PlugFieldsKeeps, PlugInsertKeeps, ReadProcessKeeps,
       UnplugSettleKeeps, CleanupDetachKeeps, CleanupUnplugKeeps DEF Continue, Plug
  <1>2. ASSUME NEW f \in File, Program(f) PROVE BInv'
    <2>1. <<f, "request">> \in Thread
      BY DEF Thread
    <2>2. ASSUME NEW a, UnplugRequest(f, a) PROVE BInv'
      BY <2>1, <2>2, UnplugMarkKeeps DEF UnplugRequest
    <2> QED
      BY <1>2, <2>2, PlugCheckKeeps, EjectKeeps, ReadCheckKeeps, CleanupKeeps, CloseKeeps
      DEF Program
  <1>3. ASSUME NEW p \in Pdo, Manage(p) PROVE BInv'
    BY <1>3, StartStopKeeps, PdoEjectKeeps, SurpriseRemovalKeeps, RemoveDeviceKeeps
    DEF Manage, Retire
  <1>4. ASSUME NEW p \in Pdo,
               ReadAnswered(p) \/ InterfaceReference(p) \/ InterfaceDereference(p)
        PROVE  BInv'
    BY <1>4, ReadAnsweredKeeps, InterfaceKeeps
  <1>5. CASE Finish
    BY <1>5, RemoveDelinkKeeps, DestroyKeeps DEF Finish
  <1>6. CASE UNCHANGED vars
    <2>1. TypeOK'
      BY <1>6 DEF BInv, TypeOK, vars, bus, files, threads, manager
    <2>2. LinksOK'
      BY <1>6, LinksKept DEF vars, bus, files, threads, manager
    <2>3. NumPDOsExact'
      BY <1>6, CountKept DEF vars, bus
    <2> QED
      BY <2>1, <2>2, <2>3 DEF BInv
  <1> QED
    BY <1>1, <1>2, <1>3, <1>4, <1>5, <1>6, QueryKeeps, QueryFailsKeeps, BusGoesKeeps,
       FdoSurpriseRemovalKeeps, FdoRemoveKeeps DEF Next

LEMMA BInvInductive == Spec => []BInv
  BY BInvInit, BInvNext, PTL DEF Spec

(* The fields have their types: in particular NumPDOs never wraps below    *)
(* zero (vhci_pdo.c:1160, vhci_pnp.c:721).                                 *)
THEOREM BusTyped == Spec => []TypeOK
  <1>1. BInv => TypeOK
    BY DEF BInv
  <1> QED
    BY <1>1, BInvInductive, PTL

(* NumPDOs counts the list, and what the removal of the bus left of it     *)
(* uncounted, however many programs plug in and out.                       *)
THEOREM CountOfPDOsExact == Spec => []NumPDOsExact
  <1>1. BInv => NumPDOsExact
    BY DEF BInv
  <1> QED
    BY <1>1, BInvInductive, PTL

(* The list has each PDO once and only existing ones, and RemoveEntryList  *)
(* in REMOVE_DEVICE always unlinks a PDO that is in the list.              *)
THEOREM ListIsSound == Spec => []ListSound
  <1>1. BInv => ListSound
    BY DEF BInv, LinksOK, ListOK, Distinct, KnownOK, PnpOK, Destroying, ListSound
  <1> QED
    BY <1>1, BInvInductive, PTL

-----------------------------------------------------------------------------
(* The state of a PDO                                                      *)

(* What a step does to a PDO that gets no IRP: the unplug may store its    *)
(* flag, and the PDO may cease to be present.                              *)
Undisturbed(p) ==
    /\ devnode'[p] = devnode[p]
    /\ dev'[p].life = dev[p].life
    /\ dev'[p].ReportedMissing = dev[p].ReportedMissing
    /\ dev'[p].Present => dev[p].Present
    /\ \/ dev'[p].DevicePnPState = "PNP_DEVICE_REMOVED"
       \/ /\ dev'[p].DevicePnPState = dev[p].DevicePnPState
          /\ dev'[p].PreviousPnPState = dev[p].PreviousPnPState

LEMMA UndisturbedKeeps ==
  ASSUME NEW p \in Pdo, PdoOK(p), Undisturbed(p), fdo' = fdo,
         pnp'.at # "idle" /\ pnp'.pdo = p => pnp.at # "idle" /\ pnp.pdo = p
  PROVE  PdoOK(p)'
  BY DEF PdoOK, Undisturbed, StateTracks

LEMMA NobodyDisturbed ==
  ASSUME SInv, UNCHANGED <<fdo, devnode>>, pnp' = pnp \/ (pnp' = [pnp EXCEPT !.at = "test"] /\ pnp.at # "idle"),
         \A p \in Pdo : Undisturbed(p)
  PROVE  \A p \in Pdo : PdoOK(p)'
  <1>1. pnp'.at # "idle" => pnp.at # "idle" /\ pnp'.pdo = pnp.pdo
    BY DEF SInv, BInv, TypeOK
  <1> QED
    BY <1>1, UndisturbedKeeps DEF SInv

LEMMA SameDevices ==
  ASSUME SInv, UNCHANGED <<fdo, dev, devnode>>,
         pnp' = pnp \/ (pnp' = [pnp EXCEPT !.at = "test"] /\ pnp.at # "idle")
  PROVE  \A p \in Pdo : PdoOK(p)'
  <1>1. \A p \in Pdo : Undisturbed(p)
    BY DEF Undisturbed
  <1> QED
    BY <1>1, NobodyDisturbed

(* An IRP to p that sets its state                                         *)
LEMMA SendsState ==
  ASSUME SInv, NEW p \in Pdo, NEW from, NEW to \in Devnode, PnpSends(p, from, to),
         dev' \in [Pdo -> Extension],
         \A q \in Pdo \ {p} : dev'[q] = dev[q],
         PdoOK(p)'
  PROVE  \A q \in Pdo : PdoOK(q)'
  <1>1. /\ UNCHANGED <<fdo, pnp>>
        /\ \A q \in Pdo \ {p} : devnode'[q] = devnode[q]
    BY DEF PnpSends, BInv, SInv, TypeOK, bus
  <1>2. \A q \in Pdo \ {p} : Undisturbed(q)
    BY <1>1 DEF Undisturbed
  <1> QED
    BY <1>1, <1>2, UndisturbedKeeps DEF SInv

LEMMA StartStopState ==
  ASSUME SInv, NEW p \in Pdo,
         \/ START_DEVICE(p) \/ QUERY_STOP_DEVICE(p) \/ CANCEL_STOP_DEVICE(p) \/ STOP_DEVICE(p)
         \/ QUERY_REMOVE_DEVICE(p) \/ CANCEL_REMOVE_DEVICE(p)
  PROVE  \A q \in Pdo : PdoOK(q)'
  <1>1. {"started", "failed", "stop", "stopped", "remove"} \subseteq Devnode
    BY DEF Devnode, Live
  <1>2. {"Started", "StopPending", "Stopped", "RemovePending"} \subseteq PnPState
    BY DEF PnPState
  <1>3. BInv /\ PdoOK(p) /\ dev[p] \in Extension
    BY DEF SInv, BInv, TypeOK
  <1>4. ASSUME NEW from, NEW to \in Devnode, NEW s \in PnPState,
               PnpSends(p, from, to), SET_NEW_PNP_STATE(p, s),
               from \cap {"none", "lost", "dying", "missing", "gone"} = {},
               \/ to \in {"started", "failed"} /\ s = "Started"
               \/ from = {"started"} /\ to = "stop" /\ s = "StopPending"
               \/ to = "stopped" /\ s = "Stopped"
               \/ from = {"started"} /\ to = "remove" /\ s = "RemovePending"
        PROVE  \A q \in Pdo : PdoOK(q)'
    <2>1. /\ dev' \in [Pdo -> Extension]
          /\ dev'[p] = WithState(dev[p], s)
          /\ \A q \in Pdo \ {p} : dev'[q] = dev[q]
      BY <1>3, <1>4, SetStateKeeps
    <2>2. /\ dev'[p].life = dev[p].life
          /\ dev'[p].ReportedMissing = dev[p].ReportedMissing
          /\ dev'[p].DevicePnPState = s
          /\ dev'[p].PreviousPnPState = dev[p].DevicePnPState
      BY <1>3, <1>4, <2>1, WithStateTyped DEF StoredState
    <2>3. /\ devnode[p] \in from /\ devnode'[p] = to
          /\ fdo = "Started" /\ fdo' = fdo /\ pnp.at = "idle" /\ pnp' = pnp
      BY <1>4 DEF PnpSends, BusThere, SInv, BInv, TypeOK, bus
    <2>4. PdoOK(p)'
      BY <1>3, <1>4, <2>2, <2>3 DEF PdoOK, StateTracks
    <2> QED
      BY <1>4, <2>1, <2>4, SendsState
  <1>5. ASSUME NEW from \in {"stop", "remove"}, PnpSends(p, {from}, "started"),
               IF dev[p].DevicePnPState = IF from = "stop" THEN "StopPending" ELSE "RemovePending"
               THEN RESTORE_PREVIOUS_PNP_STATE(p) ELSE UNCHANGED dev
        PROVE  \A q \in Pdo : PdoOK(q)'
    <2>1. /\ devnode[p] = from /\ devnode'[p] = "started"
          /\ fdo = "Started" /\ fdo' = fdo /\ pnp.at = "idle" /\ pnp' = pnp
      BY <1>5 DEF PnpSends, BusThere, SInv, BInv, TypeOK, bus
    <2>2. /\ dev' \in [Pdo -> Extension]
          /\ \A q \in Pdo \ {p} : dev'[q] = dev[q]
          /\ dev'[p].life = dev[p].life
          /\ dev'[p].ReportedMissing = dev[p].ReportedMissing
          /\ dev'[p].DevicePnPState \in {"Started", "PNP_DEVICE_REMOVED"}
      <3>1. CASE RESTORE_PREVIOUS_PNP_STATE(p) /\ dev[p].DevicePnPState =
                     IF from = "stop" THEN "StopPending" ELSE "RemovePending"
        <4>1. /\ dev' \in [Pdo -> Extension]
              /\ dev'[p] = [dev[p] EXCEPT !.DevicePnPState = dev[p].PreviousPnPState]
              /\ \A q \in Pdo \ {p} : dev'[q] = dev[q]
          BY <1>3, <3>1, RestoreStateKeeps
        <4>2. /\ dev'[p].life = dev[p].life
              /\ dev'[p].ReportedMissing = dev[p].ReportedMissing
              /\ dev'[p].DevicePnPState = dev[p].PreviousPnPState
          BY <1>3, <4>1 DEF Extension
        <4>3. dev[p].PreviousPnPState \in {"Started", "PNP_DEVICE_REMOVED"}
          BY <1>3, <2>1, <3>1 DEF PdoOK
        <4> QED
          BY <4>1, <4>2, <4>3
      <3>2. CASE UNCHANGED dev /\ dev[p].DevicePnPState #
                     IF from = "stop" THEN "StopPending" ELSE "RemovePending"
        BY <1>3, <2>1, <3>2 DEF PdoOK, StateTracks, BInv, TypeOK
      <3> QED
        BY <1>5, <3>1, <3>2
    <2>3. PdoOK(p)'
      BY <1>3, <2>1, <2>2 DEF PdoOK, StateTracks
    <2> QED
      BY <1>1, <1>5, <2>2, <2>3, SendsState
  <1>6. CASE START_DEVICE(p)
    <2>1. SET_NEW_PNP_STATE(p, "Started")
      BY <1>6 DEF START_DEVICE
    <2>2. \/ PnpSends(p, {"new", "stopped"}, "started")
          \/ PnpSends(p, {"new", "stopped"}, "failed")
          \/ PnpSends(p, {"off"}, "started")
      BY <1>6 DEF START_DEVICE
    <2> QED
      BY <1>1, <1>2, <1>4, <2>1, <2>2
  <1>7. CASE QUERY_STOP_DEVICE(p)
    BY <1>1, <1>2, <1>4, <1>7 DEF QUERY_STOP_DEVICE
  <1>8. CASE CANCEL_STOP_DEVICE(p)
    BY <1>5, <1>8 DEF CANCEL_STOP_DEVICE
  <1>9. CASE STOP_DEVICE(p)
    BY <1>1, <1>2, <1>4, <1>9 DEF STOP_DEVICE
  <1>10. CASE QUERY_REMOVE_DEVICE(p)
    BY <1>1, <1>2, <1>4, <1>10 DEF QUERY_REMOVE_DEVICE
  <1>11. CASE CANCEL_REMOVE_DEVICE(p)
    BY <1>5, <1>11 DEF CANCEL_REMOVE_DEVICE
  <1> QED
    BY <1>6, <1>7, <1>8, <1>9, <1>10, <1>11

LEMMA SurpriseRemovalState ==
  ASSUME SInv, NEW p \in Pdo, SURPRISE_REMOVAL(p)
  PROVE  \A q \in Pdo : PdoOK(q)'
  <1>1. BInv /\ PdoOK(p) /\ dev[p] \in Extension
    BY DEF SInv, BInv, TypeOK
  <1>2. /\ dev'[p] = WithState(dev[p], "SurpriseRemovePending")
        /\ \A q \in Pdo \ {p} : dev'[q] = dev[q]
    BY <1>1, SetStateKeeps DEF SURPRISE_REMOVAL, PnPState
  <1>3. /\ dev'[p].life = dev[p].life
        /\ dev'[p].ReportedMissing = dev[p].ReportedMissing
        /\ dev'[p].Present = dev[p].Present
        /\ dev'[p].DevicePnPState = "SurpriseRemovePending"
    BY <1>1, <1>2, WithStateTyped DEF StoredState, PnPState
  <1>4. /\ UNCHANGED <<fdo, pnp>> /\ pnp.at = "idle"
        /\ devnode'[p] = "dying"
        /\ \A q \in Pdo \ {p} : devnode'[q] = devnode[q]
        /\ devnode[p] \in {"lost", "started", "stop", "stopped", "remove"}
    BY DEF SURPRISE_REMOVAL, Live, BInv, SInv, TypeOK, bus
  <1>5. PdoOK(p)'
    BY <1>1, <1>3, <1>4 DEF PdoOK, StateTracks
  <1>6. \A q \in Pdo \ {p} : Undisturbed(q)
    BY <1>2, <1>4 DEF Undisturbed
  <1> QED
    BY <1>4, <1>5, <1>6, UndisturbedKeeps DEF SInv

(* REMOVE_DEVICE deletes only a PDO that the manager then gives up.        *)
LEMMA RemoveDeviceState ==
  ASSUME SInv, NEW p \in Pdo, REMOVE_DEVICE(p)
  PROVE  \A q \in Pdo : PdoOK(q)'
  <1>1. BInv /\ PdoOK(p) /\ dev[p] \in Extension /\ devnode \in [Pdo -> Devnode]
    BY DEF SInv, BInv, TypeOK
  <1>2. /\ fdo' = fdo /\ pnp.at = "idle"
        /\ devnode[p] \in {"new", "remove", "failed", "dying", "missing"}
        /\ devnode'[p] = IF devnode[p] \in {"dying", "missing"} THEN "gone" ELSE "off"
        /\ \A q \in Pdo \ {p} : devnode'[q] = devnode[q]
    BY <1>1 DEF REMOVE_DEVICE, bus
  <1>3. {"Deleted", "NotStarted"} \subseteq PnPState
    BY DEF PnPState
  <1>4. CASE dev[p].life = "exists" /\ MustDelete(p)
    <2>1. SET_NEW_PNP_STATE(p, "Deleted") /\ pnp' = [at |-> "delink", pdo |-> p]
      BY <1>4 DEF REMOVE_DEVICE
    <2>2. /\ dev'[p] = WithState(dev[p], "Deleted")
          /\ \A q \in Pdo \ {p} : dev'[q] = dev[q]
      BY <1>1, <1>3, <2>1, SetStateKeeps
    <2>3. /\ dev'[p].life = dev[p].life
          /\ dev'[p].ReportedMissing = dev[p].ReportedMissing
          /\ dev'[p].Present = dev[p].Present
      BY <1>1, <1>3, <2>2, WithStateTyped DEF StoredState
    <2>4. devnode'[p] = "gone"
      BY <1>1, <1>2, <1>4 DEF PdoOK, MustDelete
    <2>5. PdoOK(p)'
      BY <1>1, <1>2, <2>3, <2>4 DEF PdoOK, StateTracks
    <2>6. \A q \in Pdo \ {p} : Undisturbed(q)
      BY <1>2, <2>2 DEF Undisturbed
    <2>7. pnp'.pdo = p
      BY <2>1
    <2> QED
      BY <1>2, <2>5, <2>6, <2>7, UndisturbedKeeps DEF SInv
  <1>5. CASE ~ (dev[p].life = "exists" /\ MustDelete(p))
    <2>1. pnp' = pnp
      BY <1>5 DEF REMOVE_DEVICE
    <2>2. /\ dev'[p].life = dev[p].life
          /\ dev'[p].ReportedMissing = dev[p].ReportedMissing
          /\ dev'[p].Present = dev[p].Present
          /\ dev'[p].Present /\ dev[p].life = "exists" => dev'[p].DevicePnPState = "NotStarted"
          /\ \A q \in Pdo \ {p} : dev'[q] = dev[q]
      <3>1. CASE SET_NEW_PNP_STATE(p, "NotStarted")
        <4>1. /\ dev'[p] = WithState(dev[p], "NotStarted")
              /\ \A q \in Pdo \ {p} : dev'[q] = dev[q]
          BY <1>1, <1>3, <3>1, SetStateKeeps
        <4> QED
          BY <1>1, <1>3, <4>1, WithStateTyped DEF StoredState
      <3>2. CASE UNCHANGED dev /\ (dev[p].life = "exists" => ~ dev[p].Present)
        BY <3>2
      <3> QED
        BY <1>5, <3>1, <3>2 DEF REMOVE_DEVICE
    <2>3. dev[p].life \in {"exists", "deleted"}
      BY <1>1, <1>2 DEF BInv, LinksOK, UnknownOK, Extension
    <2>4. PdoOK(p)'
      <3>1. CASE fdo = "Deleted"
        BY <1>1, <1>2, <2>1, <3>1 DEF PdoOK, StateTracks
      <3>2. CASE fdo # "Deleted"
        <4>1. dev[p].life = "exists" /\ ~ dev[p].ReportedMissing
          BY <1>1, <1>2, <1>5, <2>3, <3>2 DEF PdoOK, MustDelete
        <4> QED
          BY <1>1, <1>2, <2>1, <2>2, <3>2, <4>1 DEF PdoOK, StateTracks
      <3> QED
        BY <3>1, <3>2
    <2>5. \A q \in Pdo \ {p} : Undisturbed(q)
      BY <1>2, <2>2 DEF Undisturbed
    <2> QED
      BY <1>2, <2>1, <2>4, <2>5, UndisturbedKeeps DEF SInv
  <1> QED
    BY <1>4, <1>5

LEMMA DestroyState ==
  ASSUME SInv, DestroyTest \/ DestroyClear
  PROVE  \A q \in Pdo : PdoOK(q)'
  <1> PICK p \in Pdo : p = pnp.pdo
    BY DEF SInv, BInv, LinksOK, PnpOK, DestroyTest, DestroyClear
  <1>1. dev[p] \in Extension /\ dev \in [Pdo -> Extension] /\ pnp.at # "idle"
    BY DEF SInv, BInv, TypeOK, DestroyTest, DestroyClear
  <1>2. PdoOK(p) /\ devnode[p] = "gone"
    BY <1>1 DEF SInv, PdoOK
  <1>3. UNCHANGED <<fdo, devnode>>
    BY DEF DestroyTest, DestroyClear, bus
  <1>4. CASE pnp' = [pnp EXCEPT !.at = "clear"] /\ dev' = dev
    <2>1. pnp'.pdo = p
      BY <1>4 DEF SInv, BInv, TypeOK
    <2>2. \A q \in Pdo : Undisturbed(q)
      BY <1>3, <1>4 DEF Undisturbed
    <2> QED
      BY <1>1, <1>3, <2>1, <2>2, UndisturbedKeeps DEF SInv
  <1>5. CASE pnp' = [at |-> "idle", pdo |-> NoPdo] /\ dev' = [dev EXCEPT ![p] = Freed(dev[p])]
    <2>1. /\ dev'[p].ReportedMissing = dev[p].ReportedMissing
          /\ dev'[p].Present = dev[p].Present
          /\ \A q \in Pdo \ {p} : dev'[q] = dev[q]
      BY <1>1, <1>5 DEF Freed, Extension
    <2>2. PdoOK(p)'
      BY <1>1, <1>2, <1>3, <1>5, <2>1 DEF SInv, PdoOK, StateTracks
    <2>3. \A q \in Pdo \ {p} : Undisturbed(q)
      BY <1>3, <2>1 DEF Undisturbed
    <2> QED
      BY <1>3, <1>5, <2>2, <2>3, UndisturbedKeeps DEF SInv
  <1> QED
    BY <1>4, <1>5 DEF DestroyTest, DestroyClear

(* The answer of the bus makes a missing PDO lost or missing, and one that *)
(* is reported again is never one that was reported missing.               *)
LEMMA QueryState ==
  ASSUME SInv, QueryBusRelations
  PROVE  \A q \in Pdo : PdoOK(q)'
  <1> SUFFICES ASSUME NEW p \in Pdo PROVE PdoOK(p)'
    OBVIOUS
  <1>1. PdoOK(p) /\ dev[p] \in Extension /\ devnode[p] \in Devnode
    BY DEF SInv, BInv, TypeOK
  <1>2. /\ fdo = "Started" /\ UNCHANGED <<fdo, pnp>> /\ pnp.at = "idle"
        /\ devnode'[p] = Learn(p)
        /\ dev'[p] = IF p \in Listed \ Reported
                     THEN [dev[p] EXCEPT !.ReportedMissing = TRUE] ELSE dev[p]
    BY DEF QueryBusRelations, BusThere, bus
  <1>3. /\ dev'[p].life = dev[p].life
        /\ dev'[p].Present = dev[p].Present
        /\ dev'[p].DevicePnPState = dev[p].DevicePnPState
        /\ dev'[p].PreviousPnPState = dev[p].PreviousPnPState
        /\ dev'[p].ReportedMissing =>
              dev[p].ReportedMissing \/ p \in Listed \ Reported
    BY <1>1, <1>2 DEF Extension
  <1>4. CASE p \in Reported
    <2>1. ~ dev[p].ReportedMissing /\ ~ dev'[p].ReportedMissing
      BY <1>1, <1>2, <1>3, <1>4 DEF Reported, PdoOK
    <2>2. Learn(p) = IF devnode[p] = "none" THEN "new" ELSE devnode[p]
      BY <1>4 DEF Learn
    <2> QED
      BY <1>1, <1>2, <1>3, <2>1, <2>2 DEF PdoOK, StateTracks
  <1>5. CASE p \notin Reported
    <2>1. \/ Learn(p) \in {"missing", "lost"} /\ devnode[p] \notin {"none", "lost", "dying", "missing", "gone"}
          \/ Learn(p) = devnode[p] /\ devnode[p] \in {"none", "lost", "dying", "missing", "gone"}
      BY <1>1, <1>5 DEF Learn, Live, Devnode
    <2>2. dev'[p].ReportedMissing => ~ dev[p].Present
      BY <1>1, <1>2, <1>3, <1>5 DEF Reported, PdoOK
    <2> QED
      BY <1>1, <1>2, <1>3, <2>1, <2>2 DEF PdoOK, StateTracks
  <1> QED
    BY <1>4, <1>5

LEMMA FdoSurpriseRemovalState ==
  ASSUME SInv, FdoSurpriseRemoval
  PROVE  \A q \in Pdo : PdoOK(q)'
  <1> SUFFICES ASSUME NEW p \in Pdo PROVE PdoOK(p)'
    OBVIOUS
  <1>1. PdoOK(p) /\ dev[p] \in Extension /\ devnode[p] \in Devnode
    BY DEF SInv, BInv, TypeOK
  <1>2. /\ fdo = "Started" /\ fdo' = "SurpriseRemovePending" /\ pnp.at = "idle" /\ pnp' = pnp
        /\ devnode[p] \notin Live \cup {"lost"}
        /\ devnode'[p] = IF devnode[p] \in {"new", "off", "failed"} THEN "missing" ELSE devnode[p]
        /\ dev'[p] \in {dev[p], Orphaned(dev[p])}
    BY DEF FdoSurpriseRemoval, BusGoing
  <1>3. /\ dev'[p].life = dev[p].life
        /\ dev'[p].Present = dev[p].Present
        /\ dev'[p].DevicePnPState = dev[p].DevicePnPState
        /\ dev'[p].PreviousPnPState = dev[p].PreviousPnPState
    BY <1>1, <1>2, OrphanedTyped
  <1>4. devnode'[p] \in {"none", "dying", "missing", "gone"}
    BY <1>1, <1>2 DEF Devnode, Live
  <1> QED
    BY <1>1, <1>2, <1>3, <1>4 DEF PdoOK, StateTracks

LEMMA FdoRemoveState ==
  ASSUME SInv, FdoRemove
  PROVE  \A q \in Pdo : PdoOK(q)'
  <1> SUFFICES ASSUME NEW p \in Pdo PROVE PdoOK(p)'
    OBVIOUS
  <1>1. PdoOK(p) /\ dev[p] \in Extension
    BY DEF SInv, BInv, TypeOK
  <1>2. /\ fdo' = "Deleted" /\ pnp.at = "idle" /\ UNCHANGED <<pnp, devnode>>
        /\ devnode[p] \in {"none", "off", "dying", "gone"}
        /\ \/ dev'[p] \in {dev[p], Orphaned(dev[p])}
           \/ dev'[p] = Freed(dev[p]) /\ dev[p].DevicePnPState # "SurpriseRemovePending"
    BY DEF FdoRemove, Spared
  <1>3. /\ dev'[p].Present = dev[p].Present
        /\ dev'[p].DevicePnPState = dev[p].DevicePnPState
        /\ dev'[p].life = dev[p].life \/ dev[p].DevicePnPState # "SurpriseRemovePending"
    BY <1>1, <1>2, OrphanedTyped DEF Freed, Extension
  <1> QED
    BY <1>1, <1>2, <1>3 DEF PdoOK, StateTracks

(* A new extension                                                         *)
LEMMA PlugState ==
  ASSUME SInv, NEW t \in Thread,
         (\E p \in Pdo : PlugCreate(t, p)) \/ PlugFields(t)
  PROVE  \A q \in Pdo : PdoOK(q)'
  <1>1. PICK p \in Pdo :
          /\ devnode[p] = "none"
          /\ dev'[p].life = "exists"
          /\ ~ dev'[p].ReportedMissing
          /\ dev'[p].DevicePnPState = "NotStarted"
          /\ \A q \in Pdo \ {p} : dev'[q] = dev[q]
    <2>1. dev \in [Pdo -> Extension]
      BY DEF SInv, BInv, TypeOK
    <2>2. ASSUME NEW p \in Pdo, PlugCreate(t, p)
          PROVE  /\ devnode[p] = "none"
                 /\ dev' = [dev EXCEPT ![p] = Zeroed("exists")]
      BY <2>2 DEF PlugCreate, SInv, BInv, LinksOK, UnknownOK
    <2>3. CASE PlugFields(t)
      <3> DEFINE p == pdodata[t]
                 d == [Zeroed("exists") EXCEPT !.SerialNo = addr[t], !.fo = t[1],
                                               !.ParentFdo = TRUE, !.Present = TRUE]
      <3>1. p \in Pdo /\ devnode[p] = "none"
        BY <2>3 DEF PlugFields, SInv, BInv, LinksOK, PlugOK
      <3>2. dev' = [dev EXCEPT ![p] = d]
        BY <2>3 DEF PlugFields
      <3>3. d.life = "exists" /\ ~ d.ReportedMissing /\ d.DevicePnPState = "NotStarted"
        BY DEF Zeroed
      <3> HIDE DEF d
      <3> QED
        BY <2>1, <3>1, <3>2, <3>3
    <2> QED
      BY <2>1, <2>2, <2>3 DEF Zeroed
  <1>2. UNCHANGED <<fdo, pnp, devnode>>
    BY DEF PlugCreate, PlugFields, bus, manager
  <1>3. PdoOK(p)'
    BY <1>1, <1>2 DEF SInv, PdoOK, StateTracks
  <1>4. \A q \in Pdo \ {p} : Undisturbed(q)
    BY <1>1, <1>2 DEF Undisturbed
  <1> QED
    BY <1>2, <1>3, <1>4, UndisturbedKeeps DEF SInv

(* The steps that change no state but by storing the flag of the unplug    *)
LEMMA QuietState ==
  ASSUME SInv,
         \/ \E t \in Thread : \/ PlugFails(t) \/ PlugInsert(t) \/ ReadProcess(t)
                             \/ UnplugSettle(t) \/ CleanupDetach(t) \/ CleanupUnplug(t)
         \/ \E f \in File : Program(f)
         \/ \E p \in Pdo : \/ ReadAnswered(p) \/ EJECT(p)
                          \/ InterfaceReference(p) \/ InterfaceDereference(p)
         \/ RemoveDelink \/ QueryBusRelationsFails \/ BusGoes
         \/ UNCHANGED vars
  PROVE  \A q \in Pdo : PdoOK(q)'
  <1>1. dev \in [Pdo -> Extension] /\ \A p \in Pdo : dev[p] \in Extension
    BY DEF SInv, BInv, TypeOK
  <1>2. ASSUME NEW t \in Thread, NEW a, UnplugMark(t, a)
        PROVE  \A q \in Pdo : PdoOK(q)'
    <2>1. \A p \in Pdo : dev'[p] \in {dev[p], [dev[p] EXCEPT !.Present = FALSE]}
      BY <1>2 DEF UnplugMark
    <2>2. \A p \in Pdo : Undisturbed(p)
      BY <1>1, <1>2, <2>1 DEF UnplugMark, Undisturbed, Extension
    <2> QED
      BY <1>2, <2>2, NobodyDisturbed DEF UnplugMark, bus
  <1>3. ASSUME NEW t \in Thread, UnplugSettle(t)
        PROVE  \A q \in Pdo : PdoOK(q)'
    <2>1. \A p \in Pdo : dev'[p] \in {dev[p], WithState(dev[p], "PNP_DEVICE_REMOVED")}
      BY <1>3 DEF UnplugSettle
    <2>2. "PNP_DEVICE_REMOVED" \in StoredState
      BY DEF StoredState
    <2>3. devnode' = devnode
      BY <1>3 DEF UnplugSettle, manager
    <2>4. \A p \in Pdo : Undisturbed(p)
      BY <1>1, <2>1, <2>2, <2>3, WithStateTyped DEF Undisturbed
    <2> QED
      BY <1>3, <2>4, NobodyDisturbed DEF UnplugSettle, bus, manager
  <1>4. ASSUME NEW t \in Thread, CleanupDetach(t)
        PROVE  \A q \in Pdo : PdoOK(q)'
    <2>1. dev' = dev \/ dev' = [dev EXCEPT ![pdodata[t]] = Detached(dev[pdodata[t]])]
      BY <1>4 DEF CleanupDetach
    <2>2. \A p \in Pdo : dev'[p] \in {dev[p], Detached(dev[p])}
      BY <1>1, <2>1
    <2>3. devnode' = devnode
      BY <1>4 DEF CleanupDetach, manager
    <2>4. \A p \in Pdo : Undisturbed(p)
      BY <1>1, <2>2, <2>3 DEF Detached, Undisturbed, Extension
    <2> QED
      BY <1>4, <2>4, NobodyDisturbed DEF CleanupDetach, bus, manager
  <1>5. ASSUME NEW t \in Thread, CleanupUnplug(t)
        PROVE  \A q \in Pdo : PdoOK(q)'
    <2>1. CASE UnplugMark(t, dev[pdodata[t]].SerialNo)
      BY <1>2, <2>1
    <2>2. CASE ~ UnplugMark(t, dev[pdodata[t]].SerialNo)
      BY <1>5, <2>2, SameDevices DEF CleanupUnplug, bus, manager
    <2> QED
      BY <2>1, <2>2
  <1>6. ASSUME NEW t \in Thread, PlugFails(t) \/ PlugInsert(t) \/ ReadProcess(t)
        PROVE  \A q \in Pdo : PdoOK(q)'
    BY <1>6, SameDevices DEF PlugFails, PlugInsert, ReadProcess, bus, manager
  <1>7. ASSUME NEW f \in File, Program(f)
        PROVE  \A q \in Pdo : PdoOK(q)'
    <2>1. <<f, "request">> \in Thread
      BY DEF Thread
    <2>2. ASSUME NEW a, UnplugRequest(f, a) PROVE \A q \in Pdo : PdoOK(q)'
      BY <1>2, <2>1, <2>2 DEF UnplugRequest
    <2>3. ASSUME NEW a, PlugCheck(f, a) \/ Bus_EjectDevice(f, a)
          PROVE  \A q \in Pdo : PdoOK(q)'
      BY <2>3, SameDevices DEF PlugCheck, Bus_EjectDevice, bus, manager
    <2>4. CASE ReadCheck(f) \/ Cleanup(f) \/ Close(f)
      BY <2>4, SameDevices DEF ReadCheck, Cleanup, Close, bus, manager
    <2> QED
      BY <1>7, <2>2, <2>3, <2>4 DEF Program
  <1>8. ASSUME NEW p \in Pdo, EJECT(p) PROVE \A q \in Pdo : PdoOK(q)'
    <2>1. \A q \in Pdo : dev'[q] \in {dev[q], [dev[q] EXCEPT !.Present = FALSE]}
      BY <1>1, <1>8 DEF EJECT
    <2>2. \A q \in Pdo : Undisturbed(q)
      BY <1>1, <1>8, <2>1 DEF EJECT, Undisturbed, Extension
    <2> QED
      BY <1>8, <2>2, NobodyDisturbed DEF EJECT, bus
  <1>9. ASSUME NEW p \in Pdo, InterfaceReference(p) \/ InterfaceDereference(p)
        PROVE  \A q \in Pdo : PdoOK(q)'
    <2>1. PICK n \in 0 .. 1 : dev' = [dev EXCEPT ![p].InterfaceRefCount = n]
      BY <1>9 DEF InterfaceReference, InterfaceDereference
    <2>2. \A q \in Pdo : dev'[q] \in {dev[q], [dev[q] EXCEPT !.InterfaceRefCount = n]}
      BY <1>1, <2>1
    <2>3. devnode' = devnode
      BY <1>9 DEF InterfaceReference, InterfaceDereference, manager
    <2>4. \A q \in Pdo : Undisturbed(q)
      BY <1>1, <2>2, <2>3 DEF Undisturbed, Extension
    <2> QED
      BY <1>9, <2>4, NobodyDisturbed DEF InterfaceReference, InterfaceDereference, bus, manager
  <1>10. ASSUME NEW p \in Pdo, ReadAnswered(p) PROVE \A q \in Pdo : PdoOK(q)'
    BY <1>10, SameDevices DEF ReadAnswered, bus, manager
  <1>11. CASE RemoveDelink
    BY <1>11, SameDevices DEF RemoveDelink
  <1>12. CASE QueryBusRelationsFails \/ BusGoes \/ UNCHANGED vars
    BY <1>12, SameDevices DEF QueryBusRelationsFails, BusGoes, vars, bus, manager
  <1> QED
    BY <1>3, <1>4, <1>5, <1>6, <1>7, <1>8, <1>9, <1>10, <1>11, <1>12

LEMMA SInvInit == Init => SInv
  <1> SUFFICES ASSUME Init PROVE SInv
    OBVIOUS
  <1>1. \A p \in Pdo : PdoOK(p)
    BY DEF Init, PdoOK, StateTracks, Zeroed
  <1> QED
    BY <1>1, BInvInit DEF SInv

LEMMA SInvNext == SInv /\ [Next]_vars => SInv'
  <1> SUFFICES ASSUME SInv, [Next]_vars PROVE SInv'
    OBVIOUS
  <1>1. BInv'
    BY BInvNext DEF SInv
  <1>2. \A p \in Pdo : PdoOK(p)'
    <2>1. ASSUME NEW t \in Thread, Continue(t) PROVE \A p \in Pdo : PdoOK(p)'
      BY <2>1, PlugState, QuietState DEF Continue, Plug
    <2>2. ASSUME NEW p \in Pdo, Manage(p) PROVE \A q \in Pdo : PdoOK(q)'
      BY <2>2, StartStopState, SurpriseRemovalState, RemoveDeviceState, QuietState
      DEF Manage, Retire
    <2>3. CASE Finish
      BY <2>3, DestroyState, QuietState DEF Finish
    <2> QED
      BY <2>1, <2>2, <2>3, QueryState, FdoSurpriseRemovalState, FdoRemoveState, QuietState
      DEF Next
  <1> QED
    BY <1>1, <1>2 DEF SInv

LEMMA SInvInductive == Spec => []SInv
  BY SInvInit, SInvNext, PTL DEF Spec

(* REMOVE_DEVICE finds a deleted PDO only if the removal of the bus did    *)
(* not see that it was surprise-removed.                                   *)
LEMMA SparedNext == SInv /\ SurpriseRemovedSpared /\ [Next]_vars => SurpriseRemovedSpared'
  <1> SUFFICES ASSUME SInv, SurpriseRemovedSpared, [Next]_vars, NEW p \in Pdo,
                      <<"remove", p>> \in fault'
               PROVE  dev'[p].DevicePnPState = "PNP_DEVICE_REMOVED"
    BY DEF SurpriseRemovedSpared
  <1>1. CASE UNCHANGED vars
    BY <1>1 DEF SurpriseRemovedSpared, vars
  <1>2. ASSUME NEW q \in Pdo, REMOVE_DEVICE(q), fault = {}
        PROVE  dev'[p].DevicePnPState = "PNP_DEVICE_REMOVED"
    <2>1. q = p /\ dev[p].life = "deleted" /\ dev' = dev
      BY <1>2 DEF REMOVE_DEVICE
    <2>2. devnode[p] \in {"new", "remove", "failed", "dying", "missing"} /\ PdoOK(p)
      BY <1>2, <2>1 DEF REMOVE_DEVICE, SInv
    <2> QED
      BY <2>1, <2>2 DEF PdoOK
  <1>3. CASE Next /\ \A q \in Pdo : ~ REMOVE_DEVICE(q)
    <2>1. fault = {}
      BY <1>3 DEF Next
    <2>2. ASSUME NEW t \in Thread, Continue(t) PROVE <<"remove", p>> \notin fault'
      BY <2>1, <2>2 DEF Continue, Plug, PlugFails, PlugCreate, PlugFields, PlugInsert,
                        ReadProcess, UnplugSettle, CleanupDetach, CleanupUnplug, UnplugMark
    <2>3. ASSUME NEW f \in File, Program(f) PROVE <<"remove", p>> \notin fault'
      BY <2>1, <2>3 DEF Program, PlugCheck, UnplugRequest, UnplugMark, Bus_EjectDevice,
                        ReadCheck, Cleanup, Close
    <2>4. ASSUME NEW q \in Pdo, Manage(q) PROVE <<"remove", p>> \notin fault'
      BY <1>3, <2>1, <2>4 DEF Manage, Retire, START_DEVICE, QUERY_STOP_DEVICE,
         CANCEL_STOP_DEVICE, STOP_DEVICE, QUERY_REMOVE_DEVICE, CANCEL_REMOVE_DEVICE, PnpSends,
         EJECT, SURPRISE_REMOVAL
    <2>5. ASSUME NEW q \in Pdo,
                 ReadAnswered(q) \/ InterfaceReference(q) \/ InterfaceDereference(q)
          PROVE  <<"remove", p>> \notin fault'
      BY <2>1, <2>5 DEF ReadAnswered, InterfaceReference, InterfaceDereference
    <2>6. CASE Finish
      BY <2>1, <2>6 DEF Finish, RemoveDelink, DestroyTest, DestroyClear
    <2>7. CASE \/ QueryBusRelations \/ QueryBusRelationsFails \/ BusGoes
               \/ FdoSurpriseRemoval \/ FdoRemove
      BY <2>1, <2>7 DEF QueryBusRelations, QueryBusRelationsFails, BusGoes,
                        FdoSurpriseRemoval, FdoRemove
    <2> QED
      BY <1>3, <2>2, <2>3, <2>4, <2>5, <2>6, <2>7 DEF Next
  <1> QED
    BY <1>1, <1>2, <1>3 DEF Next

(* What the comment at vhci_pnp.c:697 is for, exactly: only the flag that  *)
(* the unplug stores (line 1149) can hide a surprise removal from the bus. *)
THEOREM SurpriseRemovedAreSpared == Spec => []SurpriseRemovedSpared
  <1>1. Init => SurpriseRemovedSpared
    BY DEF Init, SurpriseRemovedSpared
  <1> QED
    BY <1>1, SparedNext, SInvInductive, PTL DEF Spec

(* A PDO is deleted only when the PnP manager has given it up: the REMOVE  *)
(* of a PDO that it may start again keeps the PDO (vhci_pdo.c:1140-1175).  *)
THEOREM DeletedOnlyIfMissing == Spec => []DeletedAfterReport
  <1>1. SInv => DeletedAfterReport
    BY DEF SInv, PdoOK, DeletedAfterReport
  <1> QED
    BY <1>1, SInvInductive, PTL

(* The PnP state of every PDO is that of the IRPs it got, or the flag of   *)
(* the unplug, wherever the unplug falls between a query and its cancel.   *)
THEOREM StateFollowsPnp == Spec => []StateTracksPnp
  <1>1. SInv => StateTracksPnp
    BY DEF SInv, PdoOK, StateTracksPnp
  <1> QED
    BY <1>1, SInvInductive, PTL

=============================================================================
