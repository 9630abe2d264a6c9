---------------------------- MODULE BusLifecycle ----------------------------
(***************************************************************************)
(* The devices of the virtual bus: how a program plugs a device in and     *)
(* out, how the bus reports its PDOs to the PnP manager, what each PnP IRP *)
(* of a PDO does, and when a PDO is deleted.                               *)
(*                                                                         *)
(* The threads are the requests on a file object (one at a time), the      *)
(* cleanup of that file object, and the PnP manager, which sends one PnP   *)
(* IRP at a time.  A section under the mutex of the FDO is one action.     *)
(* fo, FsContext, Present and DevicePnPState are also used without it.     *)
(***************************************************************************)
EXTENDS Integers, Sequences, FiniteSets

CONSTANTS
    File,         \* file objects: programs that opened the bus interface
    Overlapped,   \* those that can be closed while a request on them is in progress
    Detacher,     \* those that unplug devices by address
    Reader,       \* those that read
    Pdo,          \* bound: the device objects that can be created
    Addr,         \* the addresses programs use
    Environment,  \* what else happens: see Happening
    NoFile, NoPdo \* NULL

(* eject: programs use IOCTL_USBIP_VHCI_EJECT_HARDWARE; stop: the PnP      *)
(* manager rebalances resources; lose_bus: the bus FDO is surprise-        *)
(* removed; disable: the user disables and enables devices; share: the     *)
(* function driver uses the bus interface; no_memory: an allocation fails. *)
Happening == {"eject", "stop", "lose_bus", "disable", "share", "no_memory"}

ASSUME BusAssumption ==
    /\ IsFiniteSet(Pdo) /\ IsFiniteSet(File)
    /\ Overlapped \subseteq File
    /\ Detacher \subseteq File
    /\ Reader \subseteq File
    /\ Addr \subseteq 1 .. 127
    /\ Environment \subseteq Happening
    /\ NoFile \notin File
    /\ NoPdo \notin Pdo

Thread == File \X {"request", "cleanup"}

VARIABLES
    ListOfPDOs, NumPDOs,   \* of the FDO
    fdo,                   \* DevicePnPState of the FDO
    dev,                   \* the device extension of each PDO
    FsContext, handle,     \* of each file object
    pending_read_irp,      \* of each PDO: the file object whose read waits
    pc, addr, pdodata,     \* each thread: where it stands, its local variables
    devnode,               \* what the PnP manager knows of each PDO
    pnp,                   \* the removal IRP the PnP manager is waiting for
    invalid,               \* IoInvalidateDeviceRelations was called
    busGone,               \* the PnP manager has begun to surprise-remove the bus
    ejecting,              \* the PDOs the PnP manager was asked to eject
    fault,                 \* uses of freed memory or of NULL
    history                \* what happened, for the properties

bus     == <<ListOfPDOs, NumPDOs, fdo>>
files   == <<FsContext, handle>>
threads == <<pc, addr, pdodata>>
manager == <<devnode, pnp, invalid, busGone, ejecting>>
vars    == <<bus, dev, files, pending_read_irp, threads, manager, fault, history>>

-----------------------------------------------------------------------------

PnPState == {"NotStarted", "Started", "StopPending", "Stopped", "RemovePending",
             "SurpriseRemovePending", "Deleted"}

(* bus_unplug_dev stores this PNP_DEVICE_STATE flag where a                *)
(* DEVICE_PNP_STATE belongs; it equals none of them.                       *)
StoredState == PnPState \cup {"PNP_DEVICE_REMOVED"}

Extension ==
    [life : {"none", "exists", "deleted"}, SerialNo : Addr \cup {0},
     Present : BOOLEAN, ReportedMissing : BOOLEAN, ParentFdo : BOOLEAN,
     DevicePnPState : StoredState, PreviousPnPState : StoredState,
     fo : File \cup {NoFile}, InterfaceRefCount : 0 .. 1]

(* started, stop, stopped, remove: after START, QUERY_STOP, STOP and       *)
(* QUERY_REMOVE; off: after a REMOVE that kept the PDO; failed: its START  *)
(* failed; lost: no longer reported, SURPRISE_REMOVAL to come; dying: its  *)
(* REMOVE comes when all handles of it are closed; missing: no longer      *)
(* reported and not started, REMOVE to come; gone: its last REMOVE came.   *)
Live    == {"started", "stop", "stopped", "remove"}
Devnode == {"none", "new", "off", "failed", "lost", "dying", "missing", "gone"} \cup Live

Plugging == {"create", "fields", "insert"}
Place    == {"idle", "read", "settle", "detach", "unplug", "done"} \cup Plugging

Fault == {"cleanup", "read", "remove", "null_fo", "closed_fo"}

TypeOK ==
    /\ ListOfPDOs \in Seq(Pdo)
    /\ NumPDOs \in Nat
    /\ fdo \in {"Started", "SurpriseRemovePending", "Deleted"}
    /\ dev \in [Pdo -> Extension]
    /\ FsContext \in [File -> Pdo \cup {NoPdo}]
    /\ handle \in [File -> {"open", "closing", "closed"}]
    /\ pending_read_irp \in [Pdo -> File \cup {NoFile}]
    /\ pc \in [Thread -> Place]
    /\ addr \in [Thread -> Addr \cup {0}]
    /\ pdodata \in [Thread -> Pdo \cup {NoPdo}]
    /\ devnode \in [Pdo -> Devnode]
    /\ pnp \in [at : {"idle", "delink", "test", "clear"}, pdo : Pdo \cup {NoPdo}]
    /\ {invalid, busGone} \subseteq BOOLEAN
    /\ ejecting \subseteq Pdo
    /\ fault \subseteq Fault \X Pdo
    /\ history \in [raced : BOOLEAN, query_failed : BOOLEAN, ejected : SUBSET Pdo,
                    missed : SUBSET Pdo, detached : SUBSET Pdo, late : SUBSET Pdo, orphan : SUBSET Pdo,
                    overlapped : SUBSET File]

(* The extension of a device object is zeroed when it is created.          *)
Zeroed(life) ==
    [life |-> life, SerialNo |-> 0, Present |-> FALSE, ReportedMissing |-> FALSE,
     ParentFdo |-> FALSE, DevicePnPState |-> "NotStarted",
     PreviousPnPState |-> "NotStarted", fo |-> NoFile, InterfaceRefCount |-> 0]

Init ==
    /\ ListOfPDOs = <<>>
    /\ NumPDOs = 0
    /\ fdo = "Started"
    /\ dev = [p \in Pdo |-> Zeroed("none")]
    /\ FsContext = [f \in File |-> NoPdo]
    /\ handle = [f \in File |-> "open"]
    /\ pending_read_irp = [p \in Pdo |-> NoFile]
    /\ pc = [t \in Thread |-> "idle"]
    /\ addr = [t \in Thread |-> 0]
    /\ pdodata = [t \in Thread |-> NoPdo]
    /\ devnode = [p \in Pdo |-> "none"]
    /\ pnp = [at |-> "idle", pdo |-> NoPdo]
    /\ invalid = FALSE
    /\ busGone = FALSE
    /\ ejecting = {}
    /\ fault = {}
    /\ history = [raced |-> FALSE, query_failed |-> FALSE, ejected |-> {},
                  missed |-> {}, detached |-> {}, late |-> {}, orphan |-> {},
                  overlapped |-> {}]

-----------------------------------------------------------------------------
(* Helpers                                                                 *)

Listed == {ListOfPDOs[i] : i \in DOMAIN ListOfPDOs}

RemoveEntryList(p) ==
    LET k == CHOOSE i \in DOMAIN ListOfPDOs : ListOfPDOs[i] = p
    IN  SubSeq(ListOfPDOs, 1, k - 1) \o SubSeq(ListOfPDOs, k + 1, Len(ListOfPDOs))

(* Mutant of WithState: the previous state is not saved.                   *)
WithoutSaving(d, s) == [d EXCEPT !.DevicePnPState = s]

WithState(d, s) == [d EXCEPT !.PreviousPnPState = d.DevicePnPState, !.DevicePnPState = s]

SET_NEW_PNP_STATE(p, s) == dev' = [dev EXCEPT ![p] = WithState(@, s)]

RESTORE_PREVIOUS_PNP_STATE(p) ==
    dev' = [dev EXCEPT ![p].DevicePnPState = dev[p].PreviousPnPState]

(* Mutant of IoInvalidateDeviceRelations: the call is missing.             *)
NoInvalidation == UNCHANGED invalid

IoInvalidateDeviceRelations == invalid' = TRUE

Note(field, x) == history' = [history EXCEPT ![field] = @ \cup x]

Goto(t, place) == pc' = [pc EXCEPT ![t] = place] /\ UNCHANGED <<addr, pdodata>>

(* The handler of the thread returns.                                      *)
Return(t) ==
    /\ pc' = [pc EXCEPT ![t] = IF t[2] = "request" THEN "idle" ELSE "done"]
    /\ addr' = [addr EXCEPT ![t] = 0]
    /\ pdodata' = [pdodata EXCEPT ![t] = NoPdo]

(* Bus_IoCtl and Bus_Read: the handle is open, the bus is not removed.     *)
Accepts(f) ==
    /\ handle[f] = "open"
    /\ pc[<<f, "request">>] = "idle"
    /\ fdo # "Deleted"

-----------------------------------------------------------------------------
(* bus_plugin_dev                                                          *)

(* Mutant of AddressTaken: only a started device holds its address.        *)
AddressStarted(a) ==
    \E p \in Listed : dev[p].SerialNo = a /\ dev[p].DevicePnPState = "Started"

AddressTaken(a) ==
    \E p \in Listed : /\ dev[p].SerialNo = a
                      /\ dev[p].DevicePnPState # "SurpriseRemovePending"

PlugCheck(f, a) ==
    LET t == <<f, "request">>
    IN  /\ Accepts(f)
        /\ ~ AddressTaken(a)
        /\ pc' = [pc EXCEPT ![t] = "create"]
        /\ addr' = [addr EXCEPT ![t] = a]
        /\ history' = [history EXCEPT !.raced =
               @ \/ \E o \in Thread : pc[o] \in Plugging /\ addr[o] = a]
        /\ UNCHANGED <<bus, dev, files, pending_read_irp, pdodata, manager, fault>>

(* IoCreateDeviceSecure fails, or the file object already has a device and *)
(* the new one is deleted again.                                           *)
PlugFails(t) ==
    /\ pc[t] = "create"
    /\ Return(t)
    /\ UNCHANGED <<bus, dev, files, pending_read_irp, manager, fault, history>>

PlugCreate(t, p) ==
    /\ pc[t] = "create"
    /\ dev[p].life = "none"
    /\ FsContext[t[1]] = NoPdo
    /\ FsContext' = [FsContext EXCEPT ![t[1]] = p]
    /\ dev' = [dev EXCEPT ![p] = Zeroed("exists")]
    /\ pc' = [pc EXCEPT ![t] = "fields"]
    /\ pdodata' = [pdodata EXCEPT ![t] = p]
    /\ UNCHANGED <<bus, handle, pending_read_irp, addr, manager, fault, history>>

(* The rest of bus_plugin_dev and bus_init_pdo up to the mutex             *)
PlugFields(t) ==
    /\ pc[t] = "fields"
    /\ dev' = [dev EXCEPT ![pdodata[t]] =
           [Zeroed("exists") EXCEPT !.SerialNo = addr[t], !.fo = t[1],
                                    !.ParentFdo = TRUE, !.Present = TRUE]]
    /\ Goto(t, "insert")
    /\ UNCHANGED <<bus, files, pending_read_irp, manager, fault, history>>

PlugInsert(t) ==
    /\ pc[t] = "insert"
    /\ ListOfPDOs' = Append(ListOfPDOs, pdodata[t])
    /\ NumPDOs' = NumPDOs + 1
    /\ IoInvalidateDeviceRelations
    /\ Return(t)
    /\ UNCHANGED <<fdo, dev, files, pending_read_irp, devnode, pnp, busGone, ejecting,
                   fault, history>>

-----------------------------------------------------------------------------
(* bus_unplug_dev and Bus_EjectDevice                                      *)

(* The PDOs a request means: all for address 0, else the first that has    *)
(* the address.                                                            *)
Chosen(a) ==
    LET Match == {i \in DOMAIN ListOfPDOs : dev[ListOfPDOs[i]].SerialNo = a}
    IN  IF NumPDOs = 0 THEN {}
        ELSE IF a = 0 THEN Listed
        ELSE {ListOfPDOs[i] : i \in {i \in Match : \A j \in Match : i <= j}}

(* Devices with the same address that it leaves alone.                     *)
Missed(a) == {p \in Listed : dev[p].Present /\ a # 0 /\ dev[p].SerialNo = a} \ Chosen(a)

(* Mutant of complete_pending_read_irp: the read goes on waiting.          *)
LeaveReads(S) == UNCHANGED pending_read_irp

complete_pending_read_irp(S) ==
    pending_read_irp' = [p \in Pdo |-> IF p \in S THEN NoFile ELSE pending_read_irp[p]]

(* The first section: the device is no longer present, and the read that   *)
(* waits for it is completed.                                              *)
UnplugMark(t, a) ==
    /\ dev' = [p \in Pdo |-> IF p \in Chosen(a) THEN [dev[p] EXCEPT !.Present = FALSE]
                             ELSE dev[p]]
    /\ complete_pending_read_irp(Chosen(a))
    /\ history' = [history EXCEPT !.missed = @ \cup Missed(a),
                                  !.detached = @ \cup (Chosen(a) \ {pdodata[t]})]
    /\ IoInvalidateDeviceRelations
    /\ Goto(t, "settle")
    /\ UNCHANGED <<bus, files, devnode, pnp, busGone, ejecting, fault>>

UnplugRequest(f, a) ==
    /\ Accepts(f)
    /\ f \in Detacher
    /\ Chosen(a) # {}
    /\ UnplugMark(<<f, "request">>, a)

(* The second section, for every PDO that is not present.                  *)
UnplugSettle(t) ==
    /\ pc[t] = "settle"
    /\ dev' = [p \in Pdo |-> IF p \in Listed /\ ~ dev[p].Present
                             THEN WithState(dev[p], "PNP_DEVICE_REMOVED")
                             ELSE dev[p]]
    /\ Return(t)
    /\ UNCHANGED <<bus, files, pending_read_irp, manager, fault, history>>

Bus_EjectDevice(f, a) ==
    /\ "eject" \in Environment
    /\ Accepts(f)
    /\ ejecting' = ejecting \cup Chosen(a)
    /\ UNCHANGED <<bus, dev, files, pending_read_irp, threads, devnode, pnp, invalid,
                   busGone, fault, history>>

-----------------------------------------------------------------------------
(* Bus_Read (Bus_Write looks at FsContext and Present in the same way) and *)
(* Bus_Cleanup                                                             *)

ReadCheck(f) ==
    LET t == <<f, "request">>
        p == FsContext[f]
    IN  /\ Accepts(f)
        /\ f \in Reader
        /\ p # NoPdo
        /\ dev[p].life = "exists" /\ dev[p].Present
        /\ pc' = [pc EXCEPT ![t] = "read"]
        /\ pdodata' = [pdodata EXCEPT ![t] = p]
        /\ UNCHANGED <<bus, dev, files, pending_read_irp, addr, manager, fault, history>>

(* process_read_irp: the read waits, unless one waits already or there is  *)
(* something to read.                                                      *)
ReadProcess(t) ==
    LET p == pdodata[t] IN
    /\ pc[t] = "read"
    /\ \/ /\ dev[p].life = "deleted"
          /\ fault' = fault \cup {<<"read", p>>}
          /\ UNCHANGED <<pending_read_irp, history>>
       \/ /\ dev[p].life = "exists"
          /\ UNCHANGED <<pending_read_irp, fault, history>>
       \/ /\ dev[p].life = "exists"
          /\ pending_read_irp[p] = NoFile
          /\ pending_read_irp' = [pending_read_irp EXCEPT ![p] = t[1]]
          /\ Note("late", IF dev[p].Present THEN {} ELSE {p})
          /\ UNCHANGED fault
    /\ Return(t)
    /\ UNCHANGED <<bus, dev, files, manager>>

(* A URB request arrives, and submit_urbr completes the read.              *)
ReadAnswered(p) ==
    /\ pending_read_irp[p] # NoFile
    /\ dev[p].life = "exists" /\ dev[p].Present
    /\ pending_read_irp' = [pending_read_irp EXCEPT ![p] = NoFile]
    /\ UNCHANGED <<bus, dev, files, threads, manager, fault, history>>

Cleanup(f) ==
    LET t == <<f, "cleanup">> IN
    /\ handle[f] = "open"
    /\ f \notin Overlapped => pc[<<f, "request">>] = "idle"
    /\ handle' = [handle EXCEPT ![f] = "closing"]
    /\ pdodata' = [pdodata EXCEPT ![t] = FsContext[f]]
    /\ pc' = [pc EXCEPT ![t] = IF FsContext[f] = NoPdo THEN "done" ELSE "detach"]
    /\ Note("overlapped", IF pc[<<f, "request">>] = "idle" THEN {} ELSE {f})
    /\ UNCHANGED <<bus, dev, FsContext, pending_read_irp, addr, manager, fault>>

(* Mutant of Detached: the device goes on pointing to the file object.     *)
StillAttached(d) == d

Detached(d) == [d EXCEPT !.fo = NoFile]

CleanupDetach(t) ==
    LET p == pdodata[t] IN
    /\ pc[t] = "detach"
    /\ IF dev[p].life = "deleted"
       THEN /\ fault' = fault \cup {<<"cleanup", p>>}
            /\ Return(t)
            /\ UNCHANGED <<dev, FsContext>>
       ELSE /\ dev' = [dev EXCEPT ![p] = Detached(@)]
            /\ FsContext' = [FsContext EXCEPT ![t[1]] = NoPdo]
            /\ Goto(t, "unplug")
            /\ UNCHANGED fault
    /\ UNCHANGED <<bus, handle, pending_read_irp, manager, history>>

(* Nothing points from the device to the file any more, and it can have    *)
(* been deleted since.                                                     *)
CleanupUnplug(t) ==
    LET p == pdodata[t]
        a == dev[p].SerialNo
        Unplugs == dev[p].life = "exists" /\ dev[p].Present
    IN  /\ pc[t] = "unplug"
        /\ IF Unplugs /\ Chosen(a) # {}
           THEN UnplugMark(t, a)
           ELSE /\ fault' = fault \cup (IF dev[p].life = "deleted" THEN {<<"cleanup", p>>} ELSE {})
                /\ Note("missed", IF Unplugs THEN Missed(a) ELSE {})
                /\ Return(t)
                /\ UNCHANGED <<bus, dev, files, pending_read_irp, manager>>

(* The file object goes when nothing refers to it: no request is in        *)
(* progress, and no read of it waits.                                      *)
Close(f) ==
    /\ handle[f] = "closing"
    /\ pc[<<f, "cleanup">>] = "done" /\ pc[<<f, "request">>] = "idle"
    /\ \A p \in Pdo : pending_read_irp[p] # f
    /\ handle' = [handle EXCEPT ![f] = "closed"]
    /\ UNCHANGED <<bus, dev, FsContext, pending_read_irp, threads, manager, fault, history>>

-----------------------------------------------------------------------------
(* The bus FDO: IRP_MN_QUERY_DEVICE_RELATIONS, and what the PnP manager    *)
(* makes of the answer                                                     *)

(* A bus that is going away is neither queried nor are its devices used:   *)
(* the PnP manager sends SURPRISE_REMOVAL to all of them and to the bus,   *)
(* and the REMOVE_DEVICEs then.                                            *)
BusThere == fdo = "Started" /\ ~ busGone
BusGoing == fdo = "Started" /\ busGone

Reported == {p \in Listed : dev[p].Present}

Learn(p) ==
    CASE p \in Reported /\ devnode[p] = "none" -> "new"
      [] p \notin Reported /\ devnode[p] \in {"new", "off", "failed"} -> "missing"
      [] p \notin Reported /\ devnode[p] \in Live -> "lost"
      [] OTHER -> devnode[p]

QueryBusRelations ==
    /\ pnp.at = "idle" /\ BusThere
    /\ dev' = [p \in Pdo |-> IF p \in Listed \ Reported
                             THEN [dev[p] EXCEPT !.ReportedMissing = TRUE]
                             ELSE dev[p]]
    /\ devnode' = [p \in Pdo |-> Learn(p)]
    /\ invalid' = FALSE
    /\ UNCHANGED <<bus, files, pending_read_irp, threads, pnp, busGone, ejecting, fault,
                   history>>

(* There is no memory for the answer.                                      *)
QueryBusRelationsFails ==
    /\ pnp.at = "idle" /\ BusThere
    /\ "no_memory" \in Environment
    /\ invalid
    /\ invalid' = FALSE
    /\ history' = [history EXCEPT !.query_failed = TRUE]
    /\ UNCHANGED <<bus, dev, files, pending_read_irp, threads, devnode, pnp, busGone,
                   ejecting, fault>>

-----------------------------------------------------------------------------
(* Bus_PDO_PnP: the IRPs that change the state of a PDO                    *)

PnpSends(p, from, to) ==
    /\ pnp.at = "idle" /\ BusThere
    /\ devnode[p] \in from
    /\ devnode' = [devnode EXCEPT ![p] = to]
    /\ UNCHANGED <<bus, files, pending_read_irp, threads, pnp, invalid, busGone, ejecting,
                   fault, history>>

(* IoRegisterDeviceInterface can fail after the state was set.             *)
START_DEVICE(p) ==
    /\ \/ PnpSends(p, {"new", "stopped"}, "started")
       \/ "no_memory" \in Environment /\ PnpSends(p, {"new", "stopped"}, "failed")
       \/ "disable" \in Environment /\ PnpSends(p, {"off"}, "started")
    /\ SET_NEW_PNP_STATE(p, "Started")

QUERY_STOP_DEVICE(p) ==
    /\ "stop" \in Environment
    /\ PnpSends(p, {"started"}, "stop")
    /\ SET_NEW_PNP_STATE(p, "StopPending")

CANCEL_STOP_DEVICE(p) ==
    /\ PnpSends(p, {"stop"}, "started")
    /\ IF dev[p].DevicePnPState = "StopPending"
       THEN RESTORE_PREVIOUS_PNP_STATE(p) ELSE UNCHANGED dev

STOP_DEVICE(p) ==
    /\ PnpSends(p, {"stop"}, "stopped")
    /\ SET_NEW_PNP_STATE(p, "Stopped")

(* It fails while the interface is in use.                                 *)
QUERY_REMOVE_DEVICE(p) ==
    /\ "disable" \in Environment \/ p \in ejecting
    /\ dev[p].InterfaceRefCount = 0
    /\ PnpSends(p, {"started"}, "remove")
    /\ SET_NEW_PNP_STATE(p, "RemovePending")

CANCEL_REMOVE_DEVICE(p) ==
    /\ PnpSends(p, {"remove"}, "started")
    /\ IF dev[p].DevicePnPState = "RemovePending"
       THEN RESTORE_PREVIOUS_PNP_STATE(p) ELSE UNCHANGED dev

SURPRISE_REMOVAL(p) ==
    /\ pnp.at = "idle"
    /\ devnode[p] = "lost" \/ (BusGoing /\ devnode[p] \in Live)
    /\ devnode' = [devnode EXCEPT ![p] = "dying"]
    /\ SET_NEW_PNP_STATE(p, "SurpriseRemovePending")
    /\ UNCHANGED <<bus, files, pending_read_irp, threads, pnp, invalid, busGone, ejecting,
                   fault, history>>

(* IRP_MN_QUERY_INTERFACE and InterfaceDereference: the function driver    *)
(* of a started device takes the interface, and gives it back before it    *)
(* passes on a removal.                                                    *)
InterfaceReference(p) ==
    /\ "share" \in Environment
    /\ devnode[p] = "started"
    /\ dev[p].InterfaceRefCount = 0
    /\ dev' = [dev EXCEPT ![p].InterfaceRefCount = 1]
    /\ UNCHANGED <<bus, files, pending_read_irp, threads, manager, fault, history>>

InterfaceDereference(p) ==
    /\ dev[p].InterfaceRefCount = 1
    /\ dev' = [dev EXCEPT ![p].InterfaceRefCount = 0]
    /\ UNCHANGED <<bus, files, pending_read_irp, threads, manager, fault, history>>

(* IRP_MN_EJECT follows the REMOVE of a device that is being ejected; the  *)
(* PnP manager then looks at the bus again.                                *)
EJECT(p) ==
    /\ pnp.at = "idle" /\ BusThere
    /\ p \in ejecting /\ devnode[p] = "off"
    /\ dev' = [dev EXCEPT ![p].Present = FALSE]
    /\ ejecting' = ejecting \ {p}
    /\ invalid' = TRUE
    /\ Note("ejected", {p})
    /\ UNCHANGED <<bus, files, pending_read_irp, threads, devnode, pnp, busGone, fault>>

-----------------------------------------------------------------------------
(* IRP_MN_REMOVE_DEVICE of a PDO and Bus_DestroyPdo                        *)

(* Mutant of MustDelete: not present is enough.                            *)
NotPresent(p) == ~ dev[p].Present

MustDelete(p) == dev[p].ReportedMissing

(* A device that is still reported is kept, for it is only disabled.       *)
REMOVE_DEVICE(p) ==
    /\ pnp.at = "idle" /\ ~ BusGoing
    /\ devnode[p] \in {"new", "remove", "failed", "dying", "missing"}
    /\ dev[p].InterfaceRefCount = 0
    /\ devnode' = [devnode EXCEPT ![p] = IF @ \in {"dying", "missing"} THEN "gone" ELSE "off"]
    /\ CASE dev[p].life = "deleted" ->
              /\ fault' = fault \cup {<<"remove", p>>}
              /\ UNCHANGED <<dev, pnp>>
         [] dev[p].life = "exists" /\ MustDelete(p) ->
              /\ SET_NEW_PNP_STATE(p, "Deleted")
              /\ pnp' = [at |-> "delink", pdo |-> p]
              /\ UNCHANGED fault
         [] OTHER ->
              /\ IF dev[p].Present THEN SET_NEW_PNP_STATE(p, "NotStarted") ELSE UNCHANGED dev
              /\ UNCHANGED <<pnp, fault>>
    /\ UNCHANGED <<bus, files, pending_read_irp, threads, invalid, busGone, ejecting, history>>

(* Mutants of Delink: the count stays; it is counted down twice.           *)
DelinkUncounted(p) == ListOfPDOs' = RemoveEntryList(p) /\ UNCHANGED NumPDOs
DelinkTwice(p)     == ListOfPDOs' = RemoveEntryList(p) /\ NumPDOs' = NumPDOs - 2

Delink(p) == ListOfPDOs' = RemoveEntryList(p) /\ NumPDOs' = NumPDOs - 1

RemoveDelink ==
    /\ pnp.at = "delink"
    /\ IF dev[pnp.pdo].ParentFdo THEN Delink(pnp.pdo) ELSE UNCHANGED <<ListOfPDOs, NumPDOs>>
    /\ pnp' = [pnp EXCEPT !.at = "test"]
    /\ UNCHANGED <<fdo, dev, files, pending_read_irp, threads, devnode, invalid, busGone,
                   ejecting, fault, history>>

(* What Bus_DestroyPdo leaves of the extension: nothing uses it any more.  *)
Freed(d) == [d EXCEPT !.fo = NoFile, !.life = "deleted"]

DestroyTest ==
    LET p == pnp.pdo IN
    /\ pnp.at = "test"
    /\ IF dev[p].fo # NoFile
       THEN pnp' = [pnp EXCEPT !.at = "clear"] /\ UNCHANGED dev
       ELSE /\ pnp' = [at |-> "idle", pdo |-> NoPdo]
            /\ dev' = [dev EXCEPT ![p] = Freed(@)]
    /\ UNCHANGED <<bus, files, pending_read_irp, threads, devnode, invalid, busGone,
                   ejecting, fault, history>>

(* Mutant of Forget: the file object goes on pointing to the device.       *)
ForgetNothing(f) == UNCHANGED FsContext

Forget(f) == FsContext' = [g \in File |-> IF g = f THEN NoPdo ELSE FsContext[g]]

(* fo is read again: Bus_Cleanup may have cleared it.                      *)
DestroyClear ==
    LET p == pnp.pdo
        f == dev[p].fo
    IN  /\ pnp.at = "clear"
        /\ Forget(f)
        /\ fault' = fault \cup (IF f = NoFile THEN {<<"null_fo", p>>}
                                ELSE IF handle[f] = "closed" THEN {<<"closed_fo", p>>}
                                ELSE {})
        /\ dev' = [dev EXCEPT ![p] = Freed(@)]
        /\ pnp' = [at |-> "idle", pdo |-> NoPdo]
        /\ UNCHANGED <<bus, handle, pending_read_irp, threads, devnode, invalid, busGone,
                       ejecting, history>>

-----------------------------------------------------------------------------
(* The removal of the bus FDO                                              *)

BusGoes ==
    /\ "lose_bus" \in Environment
    /\ BusThere
    /\ busGone' = TRUE
    /\ UNCHANGED <<bus, dev, files, pending_read_irp, threads, devnode, pnp, invalid,
                   ejecting, fault, history>>

(* Mutant of Orphaned: the PDO keeps its parent.                           *)
StillParented(d) == [d EXCEPT !.ReportedMissing = TRUE]

Orphaned(d) == [d EXCEPT !.ParentFdo = FALSE, !.ReportedMissing = TRUE]

(* SURPRISE_REMOVAL of the FDO, after that of its children                 *)
FdoSurpriseRemoval ==
    /\ pnp.at = "idle" /\ BusGoing
    /\ \A p \in Pdo : devnode[p] \notin Live \cup {"lost"}
    /\ fdo' = "SurpriseRemovePending"
    /\ dev' = [p \in Pdo |-> IF p \in Listed THEN Orphaned(dev[p]) ELSE dev[p]]
    /\ ListOfPDOs' = <<>>
    /\ devnode' = [p \in Pdo |-> IF devnode[p] \in {"new", "off", "failed"} THEN "missing"
                                 ELSE devnode[p]]
    /\ Note("orphan", Listed)
    /\ UNCHANGED <<NumPDOs, files, pending_read_irp, threads, pnp, invalid, busGone,
                   ejecting, fault>>

(* Mutant of Spared: every PDO still listed is destroyed.                  *)
SparesNone == {}

(* surprise-removed PDOs, whose REMOVE_DEVICE is still to come             *)
Spared == {p \in Listed : dev[p].DevicePnPState = "SurpriseRemovePending"}

(* REMOVE_DEVICE of the FDO: no handle is open, no request in progress     *)
(* (IoCount), the children were removed or surprise-removed before.  The   *)
(* PDOs still listed are destroyed, but for those that are spared.         *)
FdoRemove ==
    LET Destroyed == Listed \ Spared
    IN  /\ pnp.at = "idle"
        /\ BusThere \/ fdo = "SurpriseRemovePending"
        /\ \A f \in File : handle[f] = "closed"
        /\ \A p \in Pdo : devnode[p] \in {"none", "off", "dying", "gone"}
        /\ fdo' = "Deleted"
        /\ dev' = [p \in Pdo |->
                     CASE p \in Spared -> Orphaned(dev[p])
                       [] p \in Destroyed -> Freed(dev[p])
                       [] OTHER -> dev[p]]
        /\ ListOfPDOs' = <<>>
        /\ NumPDOs' = NumPDOs - Cardinality(Destroyed)
        /\ fault' = fault \cup {<<"closed_fo", p>> : p \in {p \in Destroyed : dev[p].fo # NoFile}}
        /\ Note("orphan", Spared)
        /\ UNCHANGED <<files, pending_read_irp, threads, devnode, pnp, invalid, busGone,
                       ejecting>>

-----------------------------------------------------------------------------

Plug(t) == PlugFails(t) \/ (\E p \in Pdo : PlugCreate(t, p)) \/ PlugFields(t) \/ PlugInsert(t)

Continue(t) ==
    \/ Plug(t) \/ ReadProcess(t) \/ UnplugSettle(t)
    \/ CleanupDetach(t) \/ CleanupUnplug(t)

Program(f) ==
    \/ \E a \in Addr : PlugCheck(f, a)
    \/ \E a \in Addr \cup {0} : UnplugRequest(f, a) \/ Bus_EjectDevice(f, a)
    \/ ReadCheck(f) \/ Cleanup(f) \/ Close(f)

Retire(p) == SURPRISE_REMOVAL(p) \/ REMOVE_DEVICE(p)
Finish == RemoveDelink \/ DestroyTest \/ DestroyClear

Manage(p) ==
    \/ START_DEVICE(p) \/ QUERY_STOP_DEVICE(p) \/ CANCEL_STOP_DEVICE(p) \/ STOP_DEVICE(p)
    \/ QUERY_REMOVE_DEVICE(p) \/ CANCEL_REMOVE_DEVICE(p) \/ EJECT(p) \/ Retire(p)

(* The machine stops at the first fault.                                   *)
Next ==
    /\ fault = {}
    /\ \/ \E t \in Thread : Continue(t)
       \/ \E f \in File : Program(f)
       \/ \E p \in Pdo : \/ Manage(p) \/ ReadAnswered(p)
                          \/ InterfaceReference(p) \/ InterfaceDereference(p)
       \/ Finish
       \/ QueryBusRelations \/ QueryBusRelationsFails
       \/ BusGoes \/ FdoSurpriseRemoval \/ FdoRemove

Spec == Init /\ [][Next]_vars

Vanishing(p) ==
    devnode[p] \in {"lost", "dying", "missing"} \/ (BusGoing /\ devnode[p] \in Live)

(* A thread in a handler is scheduled, and a file object nobody refers to  *)
(* is closed.  The PnP manager looks at the bus after it was told to, and  *)
(* finishes the removal of a device, or of a bus, that it no longer finds; *)
(* the function driver then gives the interface back.  No program has to do anything.   *)
FairSpec ==
    /\ Spec
    /\ \A t \in Thread : WF_vars(fault = {} /\ Continue(t))
    /\ \A f \in File : WF_vars(fault = {} /\ Close(f))
    /\ WF_vars(fault = {} /\ invalid /\ QueryBusRelations)
    /\ WF_vars(fault = {} /\ (Finish \/ FdoSurpriseRemoval))
    /\ \A p \in Pdo :
          /\ WF_vars(fault = {} /\ Vanishing(p) /\ Retire(p))
          /\ WF_vars(fault = {} /\ devnode[p] # "started" /\ InterfaceDereference(p))

-----------------------------------------------------------------------------
(* Properties                                                              *)

(* NumPDOs counts the PDOs in the list, and those that a removal of the    *)
(* bus took out of it without counting them down (vhci_pnp.c:643, 721).    *)
(* It never falls below what is listed, so it does not wrap, and           *)
(* bus_unplug_dev never mistakes a bus with devices for an empty one.      *)
NumPDOsExact == NumPDOs = Len(ListOfPDOs) + Cardinality(history.orphan)

(* The list has each PDO once, and only PDOs that exist; a PDO with a      *)
(* parent is in the list of the parent whenever REMOVE_DEVICE is about to  *)
(* take it out (vhci_pdo.c:1159).                                          *)
ListSound ==
    /\ \A i, j \in DOMAIN ListOfPDOs : ListOfPDOs[i] = ListOfPDOs[j] => i = j
    /\ \A p \in Listed : dev[p].life = "exists" /\ dev[p].ParentFdo
    /\ pnp.at = "delink" /\ dev[pnp.pdo].ParentFdo => pnp.pdo \in Listed

(* A PDO is deleted in REMOVE_DEVICE only after it was reported missing    *)
(* (device.h:83): while the bus is there, a PDO that is gone is one that   *)
(* the PnP manager has given up, never one that it may start again.        *)
DeletedAfterReport ==
    \A p \in Pdo : dev[p].life = "deleted" /\ fdo # "Deleted" => devnode[p] = "gone"

StateTracks(p) ==
    LET Is(state) == dev[p].DevicePnPState \in {state, "PNP_DEVICE_REMOVED"}
    IN  /\ devnode[p] \in {"none", "new"} => Is("NotStarted")
        /\ devnode[p] \in {"started", "failed"} => Is("Started")
        /\ devnode[p] = "stop" => Is("StopPending")
        /\ devnode[p] = "stopped" => Is("Stopped")
        /\ devnode[p] = "remove" => Is("RemovePending")
        /\ devnode[p] = "dying" => Is("SurpriseRemovePending")
        /\ devnode[p] = "off" /\ dev[p].Present => Is("NotStarted")

(* DevicePnPState is the state that the IRPs received so far lead to, or   *)
(* what the unplug stored over it; cancelling a query never brings a       *)
(* pending state back, wherever the unplug falls between the two IRPs.     *)
StateTracksPnp == \A p \in Pdo : StateTracks(p)

(* The serial number of a device is unique on the bus (device.h:75).       *)
UniqueSerialNo ==
    \A p, q \in Listed :
        dev[p].Present /\ dev[q].Present /\ dev[p].SerialNo = dev[q].SerialNo => p = q

(* It is, unless two plug-ins for one address ran at the same time, or the *)
(* bus was surprise-removed under devices that are still present.          *)
UniqueUnlessRaced == ~ history.raced /\ ~ busGone => UniqueSerialNo

(* The file object of a device and the device point at each other,         *)
(* whatever program unplugs the device and whoever is faster, for every    *)
(* handle that is not closed while a request on it is in progress.         *)
FileAndDeviceAgree ==
    \A f \in File \ history.overlapped, p \in Pdo :
        /\ FsContext[f] = p =>
              /\ dev[p].life = "exists"
              /\ dev[p].fo = f \/ pc[<<f, "request">>] = "fields"
        /\ dev[p].fo = f => FsContext[f] = p

(* Freed memory or a NULL file object is used only for a device that       *)
(* somebody else unplugged or ejected, or that lost its bus: a program     *)
(* that only closes its handle is safe.  (REMOVE_DEVICE to a PDO that the  *)
(* bus destroyed is the subject of SurpriseRemovedSpared.)                 *)
FaultNeedsDetach ==
    \A x \in fault :
        \/ x[1] = "remove"
        \/ x[2] \in history.detached \cup history.ejected \cup history.orphan
        \/ history.overlapped # {}

(* A PDO is not destroyed with a read of its program still waiting for it, *)
(* except after IRP_MN_EJECT, which completes no read, after a read that   *)
(* passed the check of Present before the unplug, and after the removal of *)
(* the bus.                                                                *)
ReadNotAbandoned ==
    \A p \in Pdo :
        dev[p].life = "deleted" /\ pending_read_irp[p] # NoFile =>
            p \in history.ejected \cup history.late \cup history.orphan

(* A device that the PnP manager knows of and that was unplugged or        *)
(* ejected is deleted in the end, unless the bus had no memory to report   *)
(* the change.  (One that was unplugged before it was first reported is    *)
(* never removed.)                                                         *)
UnpluggedGoes ==
    \A p \in Pdo :
        p \in Listed /\ ~ dev[p].Present /\ devnode[p] # "none" ~>
            dev[p].life = "deleted" \/ history.query_failed \/ fault # {}

(* The close of a handle comes to an end: its cleanup unplugs its device   *)
(* and so completes the read that waits, unless the device was ejected     *)
(* before, the read came late, the unplug chose another device, or the     *)
(* removal of the bus took the device from it.                             *)
CloseEnds ==
    \A f \in File :
        handle[f] = "closing" ~>
            \/ handle[f] = "closed"
            \/ history.missed \cup history.ejected \cup history.late
                  \cup history.orphan # {}
            \/ fault # {}

(* Present is set to FALSE when an UnPlug IOCTL is received                *)
(* (device.h:81-82): an unplug leaves no device with that address present. *)
(* Two plug-ins that race can give two devices one address; here none did. *)
UnplugReachesDevice == ~ history.raced => history.missed = {}

(* The removal of the bus does not delete PDOs that are surprise-removed   *)
(* (vhci_pnp.c:697), so the REMOVE_DEVICE still to come finds them: unless *)
(* an unplug stored its own flag over the state that says so (line 1149).  *)
SurpriseRemovedSpared ==
    \A p \in Pdo :
        <<"remove", p>> \in fault => dev[p].DevicePnPState = "PNP_DEVICE_REMOVED"

=============================================================================
