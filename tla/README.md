# A TLA+ model of the usbip vhci bus driver

`src/usbip` is a Windows bus driver in C. It makes remote USB devices appear as
local ones: a user-mode `usbip` program plugs a device in, reads the USB
requests that Windows sends to it, passes them to a remote host, and writes the
answers back. This directory holds TLA+ modules of the parts of the driver where
threads meet, TLC runs that check them on small instances, and proofs, checked
by TLAPS, that hold for instances of any size.

`PROJECT.json` maps every definition that models code to the lines it models,
and lists the runs, the hazards and the theorems.

## 1. The system

```
   function driver          PnP manager              usbip program
        | URB requests        | PnP, power IRPs        | plug in/out, read, write
        v                     v                        v
   +---------+  children  +---------------------------------+
   |  PDO    |<-----------|  bus FDO  (OutstandingIO, list  |
   |  queue  |            |            of PDOs, PnP state)  |
   +---------+<-----------+---------------------------------+
        reads and writes go to the PDO's queue (FileObject->FsContext)
```

| Component | Sources | State | Operations | What makes it correct | Model |
|---|---|---|---|---|---|
| URB request queue | `usbreq.c`, `vhci_read.c`, `vhci_write.c`, `vhci_ioctl.c`, `vhci_pnp.c` 941-1160 | three lists, partial transfer, waiting read, sequence number, `lock_urbr`, `Present` | submit, read, write, cancel, unplug | each request and read completed once; answers matched; messages in order and framed; no access to freed memory | `UrbQueue` |
| Outstanding I/O, life of the FDO | `vhci.c`, `vhci_pnp.c` 453-939, `Wmi.c`, `vhci_power.c` | `OutstandingIO`, `StopEvent`, `RemoveEvent`, PnP state and the one before it | count, uncount, start, stop, remove, cancel | the count is exact; stop and removal wait for what is in progress, and end | `IoCount` |
| Bus enumeration | `vhci_pnp.c` 621-893, 1014-1236, `vhci_plugin.c` | list of PDOs, `NumPDOs`, `ReportedMissing` | plug in, unplug, report, eject, removal of the bus | one PDO per address; the count agrees with the list; an unplugged PDO goes | `BusLifecycle` |
| PnP of a PDO | `vhci_pdo.c` | PnP state, `Present`, `InterfaceRefCount` | its PnP IRPs | state machine; deleted once, after it was reported missing | `BusLifecycle` (queries are not modelled) |
| File object | `vhci.c` 103-160, `vhci_plugin.c` 90-97, `vhci_pnp.c` 291-295 | `FsContext`, `fo` | plug in, cleanup, destroy | the two pointers agree; nothing follows a stale one | `BusLifecycle` |
| Marshalling | `vhci_read.c` 13-577, `vhci_write.c` 10-279 | `len_sent_partial` | store a request, take an answer | header agrees with data; the answer gets where it belongs, and nothing else is taken | `Transfer` |
| Configuration | `vhci_devconf.c`, `devconf.c`, `vhci_write.c` 67-100 | `dsc_conf` | select a configuration, an interface | pipes describe endpoints; both sides agree on the settings | `Configuration`, `Transfer` |
| Conversions | `usbd_helper.c`, `vhci_proto.c`, `pdu.c` | none | status, flags, byte order | none of their own | those that are called, in `Transfer` |
| Power, WMI | `vhci_power.c`, `Wmi.c` | power states, WMI blocks | power and WMI IRPs | counted like other requests; not passed down once the FDO is removed | the counted part, in `IoCount` |
| Debug output, build files, Windows and USB headers | `*dbg*`, `usbspec.h`, ... | none | none | none | not modelled |

How they interact. `bus_plugin_dev` creates a PDO and ties it to the handle of
the program; reads and writes on that handle go to the PDO's queue, URB requests
of the function driver reach the same queue from above. `bus_unplug_dev`, called
for an IOCTL or from `Bus_Cleanup`, marks the PDO as not present, flushes its
queue and has the PnP manager look at the bus; the PnP manager then removes the
PDO with IRPs of its own. The count of the FDO brackets all of these.

The hard behaviours are interleavings. The queue is shared by the function
driver's threads, the program's reads and writes, the I/O manager's cancel calls
and the unplug. The lock is released in the middle of submitting and of reading,
while `store_urbr` copies data. The cancel routine is under another lock than
the lists. The counter and its events are separate steps. There is no
persistence, so there is no crash recovery to model, and no timeout: a request
waits until it is answered, cancelled or flushed.

## 2. Modules

| Module | What it is |
|---|---|
| `UrbQueue` | the URB queue of one PDO, with its properties |
| `UrbService` | what the queue promises: one first-come first-served stream of commands |
| `UrbQueueService` | the refinement mapping from `UrbQueue` to `UrbService` |
| `BusLifecycle` | plugging in and out, bus relations, the PnP IRPs of PDOs, handles |
| `BusLifecycleProofs` | the list, its count, the PnP states and the deletion of PDOs |
| `HandleProofs` | handles and their devices, waiting reads, addresses (extends `BusLifecycleProofs`) |
| `Configuration` | descriptors, pipe handles, the walks of a selection (operators only) |
| `Transfer` | one request at a time with its contents, on a configured device (uses `Configuration`) |
| `TransferProofs` | all safety properties of `Transfer`, and the walks of `Configuration` |
| `MCBusLifecycle`, `MCTransfer` | instances of them for TLC |
| `MCUrbQueue` | instances of `UrbQueue` for TLC (a symmetry set) |
| `UrbQueueProofs` | types of `UrbQueue`, answers match requests, no request is lost |
| `ReadProofs` | no read is lost, no answer misses its request (extends `UrbQueueProofs`) |
| `RaceProofs` | a fault needs a race (extends `ReadProofs`) |
| `ServiceProofs` | the order of service, the stream, the refinement of `UrbService` (extends `RaceProofs`, `UrbQueueService`) |
| `IoCount` | the outstanding I/O of the FDO and the IRPs that wait for it |
| `MCIoCount` | instances of it for TLC |
| `IoCountProofs` | the safety properties of `IoCount` |

### UrbQueue

State. `head_urbr`, `head_urbr_pending` and `head_urbr_sent` are sequences of
requests; `pending_read_irp`, `urbr_sent_partial`, `len_sent_partial`,
`seq_num` and `Present` have the names of the fields of `PDO_DEVICE_DATA`. A
`urb_req` is named by its request, as `create_urbr` makes one for each; `urbr`
says whether it is allocated or freed. `irp` tells who has the IRP of a request
or how it was completed. `submit`, `reader`, `writer`, `unplug` and `canceller`
hold where each thread stands and its local variables. `wire` is what the
program has read so far.

Steps. A section under `lock_urbr` is one action, and what runs between two
sections is another. `insert_pending_or_sent_urbr` is cut once more, between
setting the cancel routine and testing `irp->Cancel`, because `IoCancelIrp` does
not take `lock_urbr`; the variable `lock_urbr` says who holds the lock across
that cut. The other lock sections need no variable.

| Code | Actions |
|---|---|
| `Bus_Internal_IoCtl`, `submit_urbr` | `Bus_Internal_IoCtl`, then `SubmitPending`, or `SubmitDirect`, `SubmitStore` and one of `SubmitArmSent`, `SubmitPartial`, `SubmitRefused`; `SubmitInsert` or `SubmitCancelled` after the cancel routine is set; `SubmitCompleteRead`, `SubmitReturn` |
| `Bus_Read`, `process_read_irp` | `Bus_Read`, then `ReadRefused`, `ReadWait`, or `ReadRest` or `ReadPending` with `ReadStore` and `ReadStored`, `ReadReturn`; `ReadRefusedUrb`, `ReadFail` when the store fails |
| `Bus_Write`, `process_write_irp` | `Bus_Write`, `WriteFind`, `WriteComplete` |
| `cancel_urbr` | `IoCancelIrp` (external), `remove_cancelled_urbr`, `cancel_urbr` |
| `bus_unplug_dev` | `bus_unplug_dev`, `complete_pending_read_irp`, `UnplugEndRead`, `UnplugTake`, `UnplugEndUrb`, `UnplugReset` |

Faults. Touching a freed `urb_req`, completing an IRP twice and unlinking or
inserting a list entry wrongly set `fault`, and nothing follows. Safety
properties speak of the behaviour up to the first fault.

Data. `store_urbr` has three outcomes. The request is stored whole, only its
header is (for the requests in `Oversize`, whose OUT data does not fit in the
read), or it is refused (possible for those in `Faulty`). What lengths and
contents lead to each outcome is in `Transfer`. One difference is deliberate:
`store_urb_bulk` copies OUT data that fits without adding its length to
`Information`; `UrbQueue` calls such a request stored whole, and `Transfer` shows
what the program misses (`MessageComplete`). A program that reads one header at a
time never gets there.

Environment. Each request is sent once. A request can be cancelled if it is in
`Cancellable`. The program starts a read when no read of its own is being
processed (one may wait), unless `OverlapReads`; it can answer a request after
it has received all of it, once. These choices are the program's, not the
driver's, and are external in the map. The unplug happens once.

### IoCount

`Bus_IncIoCount` and `Bus_DecIoCount` are two steps each: the interlocked
operation, and what is done to an event when its result says so. `ret` is the
return address. A request runs `Dispatch`, `CheckDeleted` and `Finish`. Those in
`Handle` are `Bus_Create`, `Bus_Cleanup` and `Bus_Close`, which return without
`Bus_DecIoCount` when the FDO is `Deleted`. Those in `Power` are power IRPs, which
go the other way round: `Bus_Power` looks whether the FDO is `Deleted`
(`vhci_power.c:183`), and only then does `Bus_FDO_Power` count the IRP (line 36)
and pass it down. `late` has those that were counted after the count had fallen
to 0, which nobody waits for. `Bus_PnP` looks first as well, but PnP IRPs come one
at a time. The thread `pnp` handles the PnP IRPs one after
the other; `Legal` is the order in which the PnP manager may send them, chosen
on the permissive side. PnP queries, which are counted and change nothing here,
are left out. So are `PreviousPnPState` of PDOs, WMI registration and the list of
children, which `IoCount` does not need.

### UrbService and UrbQueueService

`UrbService` has the requests, those that wait, the order in which they became
commands, the stream the program has received and the answers it has given. It
says nothing of lists, locks or reads. Its actions are what can be seen from
outside: accept or refuse, wait, become a command (the oldest waiting request
does, or, if none waits, one just accepted), receive the next piece, answer,
reply. The mapping takes `waiting` from `head_urbr_pending`, the order from the
sequence numbers, and the stream from what the reads delivered. It holds without
cancellations, refused requests, unplug and overlapping reads; the violated runs
`uq_framing`, `uq_cancel` and `uq_idle` show why each of the first three is
excluded.

### BusLifecycle

State. `ListOfPDOs`, `NumPDOs` and `fdo` are fields of `FDO_DEVICE_DATA`; `dev`
has the fields of each `PDO_DEVICE_DATA` that matter here, and whether the device
object exists. `FsContext` and `handle` belong to the file objects, `devnode`,
`pnp`, `invalid`, `busGone` and `ejecting` to the PnP manager. `history` is only
read by properties.

| Code | Actions |
|---|---|
| `bus_plugin_dev`, `bus_init_pdo` | `PlugCheck`, then `PlugFails` or `PlugCreate`, `PlugFields`, `PlugInsert` |
| `bus_unplug_dev` | `UnplugRequest` (the first section of the mutex, with `IoInvalidateDeviceRelations`) and `UnplugSettle` (the second) |
| `Bus_Cleanup` | `Cleanup`, `CleanupDetach`, `CleanupUnplug`, and `UnplugSettle` |
| `Bus_Read` | `ReadCheck`, `ReadProcess`; `ReadAnswered` is a request that completes a waiting read |
| `Bus_EjectDevice` | `Bus_EjectDevice` |
| `IRP_MN_QUERY_DEVICE_RELATIONS` of the bus | `QueryBusRelations`, `QueryBusRelationsFails` |
| `Bus_PDO_PnP` | one action per minor function that changes the PDO; `REMOVE_DEVICE` goes on with `RemoveDelink`, `DestroyTest`, `DestroyClear` (`Bus_DestroyPdo`) |
| SURPRISE_REMOVAL, REMOVE_DEVICE of the bus | `FdoSurpriseRemoval`, `FdoRemove` |

A section of the FDO's mutex is one action. `fo` and `FsContext` are under no
lock, so `Bus_DestroyPdo` is cut between the test of `fo` and its use, and
`Bus_Cleanup` before and after it clears the pointers. A read is cut after its
check of `Present`. Within `CleanupUnplug` the test of `Present` and the first
section of the unplug are one step, though the code frees the processor between.

The PnP manager is external. It sends one PnP IRP at a time, in the orders of the
state diagram the driver's comments refer to; it removes what a bus relations
answer no longer lists, with SURPRISE_REMOVAL first if the device was started;
it removes the children of a bus before the bus. `Environment` says what else
happens. "eject" includes that IRP_MN_EJECT is sent for an ejected device,
although `Bus_PDO_QueryDeviceCaps` (`vhci_pdo.c:246`) reports that the device
does not support it; the handler is in the code, so it is in the model. The I/O
manager closes a file object when no request refers to it, a waiting read
included.

Faults. Touching a deleted device extension or a NULL file object adds to
`fault`, and nothing follows. Deleting a device object frees its extension at
once in the model; in Windows a reference can delay that.

### Configuration and Transfer

`Configuration` holds pure operators: descriptors are a sequence of records, a
walk over them is a recursive function, an interface of a request is a record of
what it announces and what its `Length` has room for. `select_config` is "lost"
when `NEXT_USBD_INTERFACE_INFO` leaves the request.

`Transfer` follows one request of the function driver from
`process_irp_urb_req` through one or two reads and a write to its completion. A
buffer is the sequence of its bytes, each named by its place, so that it shows
where a byte came from; the bytes of an answer have negative names. `wire` is
what the program has received: of what a `store_urb_*` function put into the read
buffer only the part that `Information` covers. The sizes of the header (48) and
of a packet descriptor (16) are those of `usbip_proto.h`. A call that follows a
null or wild pointer leads to the stage "crashed". `wLength` keeps as many values as
an unsigned short has, `UShortSize`.

Of an answer, `Body` gives byte k behind the header: data, then what the packet
descriptors hold (`DescriptorByte`), then whatever is behind the write
(`StrayByte`). `vhci_write.c:182` passes `actual_length` as the length of the data
of an isochronous answer, for an OUT request too, whose answer has descriptors
only. Copying more than they hold reads past the write: `ReadsPast`. That read is
undefined, so `WriteData` either takes stray bytes or crashes. Interleavings are in
`UrbQueue`, contents are here: the only state that one request leaves to the next
is `dsc_conf`, and the functions of one device's configuration are sent one after
another.

External: the function driver sends every kind of request, uses the handles it
was given, names settings of the descriptor (or one pipe too many, or a `Length`
too small), lists the interfaces of a configuration in order, and gives an
isochronous request at least one packet whose offset is within the buffer. The
remote device follows a set request it can follow. Nothing bounds the lengths in
its answers but `AnswerLength`: an answer can have more data than was asked for,
and the lengths of isochronous packets can exceed their room, the buffer and the
length of the answer, and disagree with it (`Fillings`). The offsets of packets are
those of the request or larger ones. What is relied on is that the program writes
the whole of an answer, that the answer to an IN request has the `actual_length`
bytes it announces, and that lengths add up below 2^32.

## 3. Runs

| Run | Result | Question |
|---|---|---|
| `uq_races` | pass | with every race enabled: is a request, a read or an answer lost or mistaken? |
| `uq_serial` | pass | without cancellation, refusal and unplug: order, framing, no idle wait, every request ends |
| `uq_framing` | violated | does the data of an OUT request follow its header? |
| `uq_cancel` | violated | is a cancelled request never found by an answer? |
| `uq_idle` | violated | does a read wait only when no request does? |
| `bus_plug` | pass | addresses, handles and waiting reads with two programs, one of which unplugs the other's device |
| `bus_pnp` | pass | list and count, PnP states, deletion, the loss of the bus, and what must eventually happen |
| `bus_unplug` | violated | does an unplug leave no device with its address present? |
| `transfer` | pass | contents: messages, answers, selections |
| `io_count` | pass | is the count exact, do its assertions hold, do the waits end? |
| `io_stop` | violated | does STOP_DEVICE wait for the requests in progress? |
| `io_remove` | violated | does REMOVE_DEVICE always end? |

Properties of the passing runs, in the words of the code:

- `RequestAccounted`: an uncompleted request is in `head_urbr`, where unplug and
  cancel look, or one thread is bound to complete it.
- `ReadAccounted`: a waiting read is `pending_read_irp`, or the submitter that
  filled it is about to complete it.
- `AnswerFindsRequest`: a request the program has received whole is in
  `head_urbr_sent`. This is why `InsertTailList` precedes the completion of the
  read.
- `AnswerMatchesRequest`: no two requests share a number, and nobody is answered
  before being received.
- `FaultNeedsRace`: submissions, reads and writes alone, in any interleaving,
  cause no use after free, no second completion and no list corruption. The
  property excludes behaviours with a cancel routine that ran, a refused
  request, an unplug, or overlapping reads. In those the model does reach
  faults; section 6 names them.
  It is checked in `uq_races`; `uq_serial` has the behaviours without races.
- `NumberedInOrder`, `WireFraming`, `WaitOnlyWhenIdle`, `EveryRequestEnds`: see
  the comments in `UrbQueue`.
- `ServesInOrder`: the queue is a refinement of `UrbService`.
- `NumPDOsExact`, `ListSound`: the list and its count agree, with what the removal
  of the bus leaves counted; a PDO is unlinked only from the list it is in.
- `FileAndDeviceAgree`, `FaultNeedsDetach`: a program that only closes its handle
  never makes the driver touch freed memory; an unplug by somebody else, an eject
  or the loss of the bus can, because `Bus_DestroyPdo`, `Bus_Cleanup` and
  `Bus_Read` share no lock.
- `UniqueUnlessRaced`, `DeletedAfterReport`, `StateTracksPnp`,
  `SurpriseRemovedSpared`, `ReadNotAbandoned`, `UnpluggedGoes`, `CloseEnds`: see
  the comments in `BusLifecycle`; each names the behaviours it must except.
- `TakesOnlyTheAnswer`: a request with an IN transfer takes nothing but the data
  of its answer, and each packet within the buffer, although `copy_iso_data` trusts
  lengths that the answer brings: `vhci_write.c:51` and `:55` bound them by the
  buffer and by the answer, `:107` bounds the others. `BufferHoldsAnswer` says that
  the data is also in the right places, of an isochronous answer if its lengths
  agree (`PacketsAgree`). Neither holds of isochronous OUT requests.
- `MessageComplete`, `OnlyUnfitRequestsFail`, `PipesDescribeEndpoints`,
  `PipeReachesEndpoint`, `SelectionTakesEffect`: see `Transfer`. The exceptions they
  name are what the code does otherwise; without any one of them TLC finds the
  property violated. In particular the setup packet repeats the length of the
  header only if 16 bits hold it.
- `RemoveWaitsForWork`: REMOVE_DEVICE waits for every request that found the FDO
  not removed, except for power IRPs in `late`. The exception is needed, and without
  it TLC finds the property violated: `Bus_Power` finds the FDO not removed;
  REMOVE_DEVICE sets `Deleted`, brings the count to 0 and deletes the device;
  `Bus_FDO_Power` then counts the IRP in freed memory and passes it down, which the
  comment of `vhci_power.c:180-181` says should not be.
- `CountExact`, `CountAsserted`, `CancelRestores`, `StopEnds`,
  `RemoveEndsUnlessLeaked`: see `IoCount`.

What the violated runs show (quotations are in `PROJECT.json`, `findings`):

- `uq_framing`: the header of an oversize request is read, the request is
  cancelled, `remove_cancelled_urbr` forgets the partial transfer, and the next
  read delivers another header where the first one promised data.
- `uq_cancel`: `IoCancelIrp` takes the cancel routine; before it gets
  `lock_urbr`, a write finds the request, does not notice that
  `IoSetCancelRoutine` returns NULL, and completes an IRP that the cancel routine
  completes too.
- `uq_idle`: `store_urbr` fails for a request that took the waiting read. The
  requests that queued meanwhile are not looked at, and the read keeps waiting.
- `bus_unplug`: see `findings`; the first device with the address is the one that
  is already surprise-removed.
- `io_stop`: a request is counted after the decrement to 1 and before the
  `KeSetEvent` that follows it.
- `io_remove`: `Bus_Create`, `Bus_Cleanup` or `Bus_Close` is counted, finds
  `Deleted` and keeps its count.

Bounds. `uq_races` has two requests (one oversize, both refusable and
cancellable), two readers and one unplug. Two requests are enough for one to be
partially transferred while another is submitted, queued, cancelled or answered.
Two readers are enough for one to wait while another reads. `uq_serial` has three
requests, so that two are queued behind one whose transfer is incomplete, which is
what ordering needs, and one reader, since the program does not overlap reads.
`io_count` has one request of each kind and four PnP IRPs before REMOVE_DEVICE:
start, query-stop, stop and one more, so that a removal can follow a stop and a
cancel can follow either. `MaxPnp` bounds only the number of IRPs sent. `bus_plug`
has two handles, one that may unplug by address and one that reads, two device
objects, which is what two devices at one address need, and one address. Handles
are closed only between requests (`Overlapped` is empty), because the properties
on handles are about those, and nothing of `Environment` happens. `bus_pnp` has
one handle that may be closed during a request, one device object and everything
in `Environment`, the loss of the bus included: its liveness properties speak of
one device, and its invariants are proved for any number of them in section 4.
`bus_unplug` needs an address used twice. Each device object is created once;
`Pdo` bounds their number. `transfer` has buffers of 0, 1 and 17 bytes: 16, the
size of a packet descriptor, is what a one-packet OUT answer holds, so that 17
bytes of it are one too many. `UShortSize` is 16 instead of 65536, so that 17 does
not fit in `wLength`; nothing else depends on the size. An answer has the length
of its request or one of `AnswerLength`: nothing, one byte, or one more than any
buffer has, and the packets of an isochronous one likewise, or their own room, in
every combination with the length of the answer. There are one or two isochronous
packets, in order and out of it, and reads that are too short for anything, for
the data alone, for data and descriptors, for a header, for header and data, and
for header, data and descriptors. Its two configurations have a high-bandwidth
endpoint, two settings of an interface, an interface without endpoints before
another and after another, and a value other than 1. It is a 64-bit build; with 32
bits the walk over the interfaces of a request never leaves it. Readers are
symmetric in `uq_races`, which checks safety only. Deadlock is not checked: after
every request, read and answer is done, or after a fault, the system rightly
stops.

Fairness. `UrbQueue!Fairness` is weak fairness of each thread that runs a
handler, of the program's reads and of its answers. The first is the Windows
scheduler; spin locks are held for bounded sections. The second is what the
program is for: `EveryRequestEnds` cannot hold with a program that stops reading.
Nobody has to submit, cancel or unplug. `IoCount!FairSpec` is weak fairness of
each handler that has started and of the PnP thread; no IRP has to come.
`BusLifecycle!FairSpec` is weak fairness of each handler, of the close of a file
object nobody refers to, and of the PnP manager where Windows promises it: it
looks at the bus after `IoInvalidateDeviceRelations`, and it finishes the removal
of a device or a bus it has found gone. No program has to do anything, and no
device has to be removed that is still reported.

## 4. Proofs

All theorems are about `Spec`, and hold for every value of the constants that
satisfies the named assumptions of the module:

- `UrbAssumption`: finitely many requests, null pointers are not requests or
  readers;
- `IoAssumption`: finitely many requests, the PnP thread is not one;
- `BusAssumption`: finitely many device objects and handles, addresses are 1 to
  127, null pointers are neither;
- `PointerAssumption`: pointers have 32 or 64 bits;
- `DeviceAssumption`: the fields of descriptors have their widths, every interface
  descriptor is followed by as many endpoint descriptors as it announces, settings
  and configuration values are not repeated (of a device that breaks these rules
  the driver finds out less than it should, and nothing is proved here);
- `TransferAssumption`: lengths and offsets are natural numbers, an isochronous
  request has at least one packet, null values are none of the others,
  and the bytes behind the data of an answer are none of its data.

Nothing else is assumed, unless the table says so.

| Theorem | Property | Argument |
|---|---|---|
| `IoCountTyped` | `TypeOK` | part of `IInv` |
| `CountIsExact` | `CountExact` | `IInv` |
| `CountAssertionsHold` | `CountAsserted` | from `IInv` |
| `RemoveIsSafe` | `RemoveWaitsForWork` | from `IInv` |
| `CancelIsExact` | `CancelRestores` | `PendingOK`, relative to `IInv` |
| `UrbQueueTyped` | `TypeOK` | part of `TInv` |
| `AnswersMatch` | `AnswerMatchesRequest` | `AInv` |
| `NoRequestIsLost` | `RequestAccounted` | relative to `TInv` |
| `NoReadIsLost` | `ReadAccounted` | from `FInv`, if `~OverlapReads` |
| `NoAnswerMisses` | `AnswerFindsRequest` | from `DInv`, if `~OverlapReads` |
| `FaultsNeedRaces` | `FaultNeedsRace` | part of `RInv` |
| `WaitsOnlyWhenIdle` | `WaitOnlyWhenIdle` | from `ServiceProofs!SInv`, if `Serial` |
| `NumbersInOrder` | `NumberedInOrder` | relative to `ServiceProofs!SInv`, if `Serial` |
| `StreamIsFramed` | `WireFraming` | from `VInv`, if `Serial` and `OneReader` |
| `QueueServesInOrder` | `ServesInOrder` | step simulation under `VInv`, if `Serial` and `OneReader` |
| `BusTyped` | `BusLifecycle!TypeOK` | part of `BInv` |
| `CountOfPDOsExact` | `NumPDOsExact` | part of `BInv` |
| `ListIsSound` | `ListSound` | from `BInv` |
| `DeletedOnlyIfMissing` | `DeletedAfterReport` | from `BusLifecycleProofs!SInv` |
| `StateFollowsPnp` | `StateTracksPnp` | part of `BusLifecycleProofs!SInv` |
| `SurpriseRemovedAreSpared` | `SurpriseRemovedSpared` | relative to `BusLifecycleProofs!SInv` |
| `HandlesAgree` | `FileAndDeviceAgree` | part of `HInv` |
| `FaultOnlyByDetach` | `FaultNeedsDetach` | from `EInv`, relative to `HInv` |
| `ReadsNotAbandoned` | `ReadNotAbandoned` | from `HandleProofs!ReadsOK` |
| `AddressesUnique` | `UniqueUnlessRaced` | from `HandleProofs!AInv` |
| `TypesCorrect` | `Transfer!TypeOK` | from `TransferProofs!IInv` |
| `MessagesComplete` | `MessageComplete` | part of `TransferProofs!IInv` |
| `AnswersHeld` | `BufferHoldsAnswer` | part of `TransferProofs!IInv` |
| `OnlyTheAnswerTaken` | `TakesOnlyTheAnswer` | from `TransferProofs!IInv` |
| `PipesReachEndpoints` | `PipeReachesEndpoint` | from `TransferProofs!IInv` |
| `UnfitRequestsFail` | `OnlyUnfitRequestsFail` | relative to `TransferProofs!IInv` |
| `PipesDescribed` | `PipesDescribeEndpoints` | relative to `TransferProofs!IInv` |
| `SelectionsTakeEffect` | `SelectionTakesEffect` | relative to `TransferProofs!IInv` |

`IInv` of `IoCountProofs` is `TypeOK /\ PlacesOK /\ DeletedOK /\ CountExact /\
SignalOK`. `CountExact` alone is not inductive: one must know that a thread
decrements only from a place where it holds a count (`PlacesOK`) and that the bias
is given back only once and only in a device that is `Deleted` (`DeletedOK`).
`SignalOK` says that once the count has fallen to 0 (`Drained`) the bias is given
back and every request being processed is in `late`: at that moment nobody holds a
count, by `CountExact`, a request that is counted later finds `Deleted` and is not
processed, and a power IRP that is counted later joins `late`.
`RemoveWaitsForWork` follows, as the wait passes only with `RemoveEvent` set. Each
step changes the set of counted threads by at most one, and the facts about
cardinality come from `FiniteSetTheorems`.

`TInv` is `TypeOK` with `SubmitOK` and `ReaderOK`: a thread past the point where
it took a read or a request holds one, so that no null pointer is followed. `AInv`
adds that numbers are handed out once (`NumberOK`), that what waits in
`head_urbr_pending` has none and waits there once (`PendingOK`), and that a write
holds the request whose number it answers (`AnswerOK`). `NoRequestIsLost` needs
only lemmas about what appending to and unlinking from a list keeps.

`FInv` is `AInv` and, while the device is plugged in, `FillOK`. The queue copies
data with its lock free; what keeps two threads out of one buffer is that
`pending_read_irp` and `urbr_sent_partial` shut out each other's users, and
`FillOK` says so place by place. One read at most is being processed, and none
while another waits (`ReadsOK`); a submitter that fills the waiting read is the
only one, and `urbr_sent_partial` is its request (`TakingOK`); `len_sent_partial`
belongs to the request in transfer, and is 0 at every place that tests it for a
new one (`PartialOK`); a buffer has the number of the request that was stored in
it (`BufOK`). With overlapping reads two of them take the same partial transfer
and `ReadAccounted` is false, so that the assumption `~OverlapReads` is needed.
`DInv` adds `DeliveredOK`: a request whose last part is delivered, or is in the
buffer of a read about to complete, is in `head_urbr_sent` or some thread is
bound to complete it. It rests on the unique numbers of `AInv`.

`RInv` is `FInv` and, up to the first race, `RaceOK`; `Raced` names the four races
that `FaultNeedsRace` excludes, and `FreshOK` and `RacedStays` show that a race is
never undone. Without one, a request is freed and completed only by the thread
that took it out of the lists: what is in `head_urbr` is allocated and not
completed, the other two lists hold each request once and only what is in
`head_urbr`, a request that a read is storing is `urbr_sent_partial` and in
`head_urbr` but not yet in `head_urbr_sent`, and one that a write has found is in
no list. `SInv` of `ServiceProofs` adds that, while a read waits, a submitter has
taken it (`SomeTakes`), or else nothing is in transfer, nothing is in
`head_urbr_pending` and nobody is about to join it (`IdleOK`). `Serial` excludes
cancellations, refusals, unplugs and overlapping reads; the run `uq_idle` shows
that with a refusal a read can wait beside a request.

`VInv` is that with `StreamOK`, which says what has been received. At most one
request is in transfer, and it is the one with the last number (`CarryOK`,
`QuietOK`). So the stream is everything up to that request, up to its header, or
everything before it; what a read or a submitter has in its buffer is the piece
that comes next (`FetchOK`, `RestOK`, `ReturnOK`), and every number handed out is
some request's (`NumbersUsed`). The refinement then goes step by step: a lock
section that numbers a request is the service's step that makes it a command, the
completion of a read is its delivery of a piece, and every other step is an accept,
an answer, a reply or a stutter. `OneReader` is needed: with two reading threads, a
submitter that has filled the waiting read of one can be overtaken, between
`KeReleaseSpinLock` and `IoCompleteRequest`, by the other thread's read. That the
stream of a longer prefix continues that of a shorter one, and that flattening
it puts the pieces of a command side by side, are facts about sequences of any
length; they are proved by the least length at which they would fail.

`BInv` is `TypeOK /\ LinksOK /\ NumPDOsExact`. `NumPDOs` is a natural number only
because `RemoveDelink` finds its PDO in the list, and for that one must know how
a PDO is linked at every moment: the list has each PDO once and only existing
ones (`ListOK`); a thread that has created a PDO is alone with it until it
inserts it (`PlugOK`); a thread that goes on with a PDO has one (`HoldsOK`);
nobody knows a PDO that was not created, and the removal of the bus takes the
parent from those it forgets (`UnknownOK`); a PDO that the PnP manager knows and
that has a parent is listed, but for the one its REMOVE_DEVICE has just unlinked
(`KnownOK`, `PnpOK`). `SInv` is `BInv` with `PdoOK` of every PDO: one that was
reported missing is in no state from which the PnP manager would start it, only
such a one is deleted, `DevicePnPState` is what the last IRP left or the flag of
the unplug (`StateTracks`), and what a cancelled query would restore is no
pending state. (`SInv` is that of `BusLifecycleProofs` here.) A step disturbs
`PdoOK` of at most one PDO, except bus relations and the removal of the bus.

`HInv` is about who refers to a device. At most one file object does, by its
`FsContext`, as the device's `fo` or in a local variable of one of its threads
(`OwnersOK`); so what one handle does to its device cannot disturb another. Where
the request and the cleanup of a handle stand, and what they hold there, is
`HandlesOK` and, for handles not closed during a request, `OrderlysOK`; `AgreeOK`
is `FileAndDeviceAgree` with the moments between two assignments. `EInv` adds that
a handle which still has something to do with a device finds it existing and
present, unless somebody else unplugged or ejected the device or it lost its bus
(`EngagedOK`), because `REMOVE_DEVICE` deletes only what was reported missing,
and that is not present (`MissingOK`). `ReadsOK` says of a deleted device with a
waiting read how that can be. `AInv` of `HandleProofs` has `AddressOK`: from
the check of an address to the insertion of its device, the thread that checked
is the only one with that address, listed or not, up to the first race that
`UniqueUnlessRaced` names; and `SurpriseOK`, because the check passes over the
devices in `SurpriseRemovePending`, which are not present.

`IInv` of `TransferProofs` follows a request. While it is queued it is one that
the function driver can send with the pipes it has (`RequestOK`); its buffer is
untouched until an answer ends it, and then holds that answer and nothing else
(`MemoryOK`, which contains `BufferHoldsAnswer` and `TakesOnlyTheAnswer`); what
the program has of it is nothing, a header that announces data, or all of it
(`WireOK`, which contains `MessageComplete`); only a request without an IN
transfer crashes (`CrashOK`). Of selections it says that the view of the function
driver has a setting of every interface with the pipes that describe it
(`ViewOK`), and that the remote device is in a setting of each interface of its
configuration, or not configured (`RemoteOK`). Under this invariant the proofs are
about what the operators compute:

- The walk over a configuration descriptor. Step n of it is the endpoint of rank
  n behind the interface descriptor, and the next step finds the one of rank
  n + 1, because `USBD_ParseDescriptors` returns the first descriptor of a type
  from a place on (`vhci_devconf.c:59-73`). That holds of every n by the least one of
  which it would not. Hence pipe n describes endpoint n.
- Handles. A handle is a sum of bytes times powers of 256; what `PIPE2ADDR`,
  `PIPE2TYPE` and `PIPE2INTERVAL` take out of it is what `MAKE_PIPE` put in.
- Isochronous answers. A packet's data starts in the answer at the sum of the
  lengths before it. The sum is shown to be the number of the buffer's bytes
  that those packets cover, the packets being disjoint if the lengths agree; so the
  byte of rank k among all covered ones is byte k of the answer.
- Isochronous answers whose lengths are wrong. The packets that `copy_iso_data`
  copies are those before the first that fails one of its two tests. Each of them
  lies within the buffer by the first test; by the second its data ends within the
  length of the answer, which for an IN request is the data that the write has. So
  nothing is read past the write, and every byte taken is one of the answer.

The proof of `PipesDescribed` showed where the property had to be qualified:
`set_pipe` takes the additional packets out of `wMaxPacketSize` only of
isochronous endpoints (`vhci_devconf.c:46`), so that an interrupt endpoint with
additional packets gets a `MaximumPacketSize` that is no size. It also showed
that the type is `bmAttributes & USB_ENDPOINT_TYPE_MASK`, without the
synchronization bits. `MCTransfer` has endpoints of both kinds.

Every safety invariant, action property and refinement that a passing run checks is
proved. Only model-checked are the liveness properties, which are out of the
prover's reach: `EveryRequestEnds`, `StopEnds`, `RemoveEndsUnlessLeaked`,
`UnpluggedGoes` and `CloseEnds`. The violated runs are counterexamples and need no
proof. What is proved of the refinement is the safety part, which is all that
`UrbService!Spec` says. The theorems on the order of service, the stream and the
refinement hold under `Serial` (and `OneReader`), as the runs do; for other
values there is `FaultNeedsRace` and the four theorems before it.

The library's induction theorems cannot be used, as they take an operator as a
parameter. Where the proofs need induction over a length they take the least
counterexample instead (`LeastNumber`, from the well-foundedness of
finite sets), and never recursion other than that of a function on numbers.

## 5. Plan

Done: the queue with its service and refinement, the outstanding I/O, the life
of devices on the bus, the contents of messages and selections, and the
proofs in section 4. Left, in this order:

1. Proofs: what `FaultNeedsRace` leaves open, race by race, such as that an
   unplug alone does not touch freed memory while no submitter is at work.
2. Models: the power states of the FDO and the PDOs and the WMI data blocks, if
   something comes to depend on them.

## 6. What is not shown

The model reaches faults that no property of a run states, because no line of
the repository speaks of them and `FaultNeedsRace` excludes them. They are listed
under `hazards` with notes: a second completion of an IRP by `process_read_irp`,
`complete_pending_irp` or `insert_pending_or_sent_urbr` when the cancel routine
has already been taken; a use after free when the partially transferred request
is cancelled during a read, or after a refused one; a read completed by both
`submit_urbr` and the unplug; a double insertion with overlapping reads. `Transfer`
reaches the stage "crashed" when an OUT request of the class or vendor kind has its
data in an MDL, when no configuration is selected, when an interface without
endpoints precedes another in a 64-bit build, and when the answer to an
isochronous OUT request announces more than its descriptors hold.

Not modelled, by part:

- Of a PDO, the answers to queries (capabilities, identifiers, device texts,
  resource requirements, bus information): constant data or formatting. Of the
  bus, IOCTL_USBIP_VHCI_GET_PORTS_STATUS, which only reads. Of a request,
  IOCTL_INTERNAL_USB_GET_PORT_STATUS, which answers a constant.
- The power states that `Bus_FDO_Power` and `Bus_PDO_Power` record and the WMI
  data blocks: nothing that is modelled reads them. Power and WMI requests are
  counted in `IoCount`.
- Debug output, and code that nothing in the driver calls: the byte swapping of
  `pdu.c`, `to_usbd_flags`, `to_usbip_status` and the isochronous conversions of
  `usbd_helper.c`, and some helpers of `devconf.c`.
- The composition of `UrbQueue` and `BusLifecycle`: requests that join a list
  after the unplug emptied it, in a device that is deleted later.
- In `Transfer`: isochronous requests without packets (`vhci_read.c:386` writes
  before the first descriptor), sums of lengths that wrap at 2^32, answers shorter
  than their header announces, and interleavings, which are in `UrbQueue`.
- In `UrbQueue`: the wrap of the 32-bit sequence number (the model numbers fewer
  than 2^32 requests); memory ordering, as every shared field of the queue but
  `Present` and `len_sent_partial` is accessed under the lock, and those two are
  single machine words; interrupt levels; the part of `cancel_urbr` after the
  completion, which reads `irp->CancelIrql`.
