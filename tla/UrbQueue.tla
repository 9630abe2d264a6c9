------------------------------ MODULE UrbQueue ------------------------------
(***************************************************************************)
(* The URB request queue of one PDO: how the URB requests of the device's  *)
(* function driver (Bus_Internal_IoCtl, submit_urbr) meet the reads and    *)
(* writes of the user-mode usbip program (Bus_Read, Bus_Write), while the  *)
(* I/O manager cancels requests (cancel_urbr) and the bus unplugs the      *)
(* device (bus_unplug_dev).                                                *)
(*                                                                         *)
(* Every handler is cut where the code acquires or releases lock_urbr: a   *)
(* section under the lock is one step, what runs between two sections is   *)
(* another.  The one lock section that is itself cut in two is the         *)
(* installation of the cancel routine, because IoCancelIrp does not take   *)
(* lock_urbr (see IoCancelIrp and lock_urbr below).                        *)
(*                                                                         *)
(* An urb_req is named by the URB request it was created for: create_urbr  *)
(* makes exactly one for each.  An access to freed memory, the second      *)
(* completion of an IRP, the removal of a list entry that is not linked or *)
(* the insertion of one that is sets "fault".  Nothing is said of what the *)
(* machine does afterwards: no step follows a fault.                       *)
(***************************************************************************)
EXTENDS Naturals, Sequences, FiniteSets, SequencesExt

CONSTANTS
    Urb,         \* the URB requests; each is sent down to the PDO at most once
    Reader,      \* the user-mode threads that read; each reads again and again
    Oversize,    \* OUT requests whose data does not fit behind the header in a read
    Faulty,      \* requests that store_urbr or store_urbr_partial may refuse
    Cancellable, \* requests that the function driver may cancel
    CanUnplug,   \* may the device be unplugged?
    OverlapReads,\* may the program read while another read is being processed?
    NoUrb,       \* a null urb_req pointer
    NoRead       \* a null read IRP pointer

ASSUME UrbAssumption ==
    /\ IsFiniteSet(Urb)
    /\ Oversize \subseteq Urb
    /\ Faulty \subseteq Urb
    /\ Cancellable \subseteq Urb
    /\ CanUnplug \in BOOLEAN
    /\ OverlapReads \in BOOLEAN
    /\ NoUrb \notin Urb
    /\ NoRead \notin Reader

HeaderSize == 48                      \* sizeof(struct usbip_header)
SeqNum == 1 .. Cardinality(Urb)       \* no request is numbered twice

VARIABLES
    (* PDO_DEVICE_DATA *)
    Present, pending_read_irp, urbr_sent_partial, len_sent_partial,
    head_urbr, head_urbr_pending, head_urbr_sent, seq_num,
    lock_urbr,       \* the submitter that holds the lock from one step to the next
    (* struct urb_req *)
    urbr,            \* is the urb_req allocated?
    urbr_seq,        \* its field seq_num, 0 before it has a number
    (* the IRPs of the URB requests *)
    irp,             \* who has the request, or how it was completed
    Cancel,          \* the requests that have been cancelled (irp->Cancel)
    cancel_routine,  \* the requests whose cancel routine is set
    (* where each thread stands, and its local variables *)
    submit, reader, writer, unplug, canceller,
    (* what the user-mode program has received *)
    wire,
    fault

lists   == <<head_urbr, head_urbr_pending, head_urbr_sent>>
partial == <<urbr_sent_partial, len_sent_partial>>
urbs    == <<urbr, urbr_seq, seq_num>>
irps    == <<irp, Cancel, cancel_routine>>
threads == <<submit, reader, writer, unplug, canceller>>
vars    == <<Present, pending_read_irp, partial, lists, lock_urbr, urbs, irps,
             threads, wire, fault>>

-----------------------------------------------------------------------------

Message == [seq : Nat, part : {"whole", "header", "data"}]
NoMessage == [seq |-> 0, part |-> "whole"]

(* A request ends refused by the driver, answered by the remote device,    *)
(* cancelled, or failed because the device is gone.                        *)
Ended == {"rejected", "replied", "cancelled", "disconnected"}

Submitting == {"enter", "store", "stored", "refused", "arm_pending",
               "arm_sent", "cancelled", "rejected", "complete_read"}
Reading == {"enter", "store", "store_partial", "stored", "stored_partial",
            "refused", "refused_partial", "fail", "return"}

SubmitState == [pc : {"idle", "done"} \cup Submitting, read : Reader \cup {NoRead}]
ReaderState == [pc : {"idle", "pending"} \cup Reading, urbr : Urb \cup {NoUrb},
                buf : Message]
WriterState == [pc : {"idle", "enter", "found", "done"}, urbr : Urb \cup {NoUrb}]
UnplugState == [pc : {"idle", "complete_read", "end_read", "clear", "end_urb", "done"},
                read : Reader \cup {NoRead}, urbr : Urb \cup {NoUrb}]
CancellerState == {"idle", "ignored", "remove", "complete", "done"}
Fault == {"use_after_free", "double_completion", "list_corruption"}

TypeOK ==
    /\ Present \in BOOLEAN
    /\ pending_read_irp \in Reader \cup {NoRead}
    /\ urbr_sent_partial \in Urb \cup {NoUrb}
    /\ len_sent_partial \in {0, HeaderSize}
    /\ head_urbr \in Seq(Urb)
    /\ head_urbr_pending \in Seq(Urb)
    /\ head_urbr_sent \in Seq(Urb)
    /\ seq_num \in Nat
    /\ lock_urbr \in Urb \cup {NoUrb}
    /\ urbr \in [Urb -> {"none", "live", "freed"}]
    /\ urbr_seq \in [Urb -> Nat]
    /\ irp \in [Urb -> {"idle", "issued"} \cup Ended]
    /\ Cancel \in SUBSET Urb
    /\ cancel_routine \in SUBSET Urb
    /\ submit \in [Urb -> SubmitState]
    /\ reader \in [Reader -> ReaderState]
    /\ writer \in [SeqNum -> WriterState]
    /\ unplug \in UnplugState
    /\ canceller \in [Urb -> CancellerState]
    /\ wire \in Seq(Message)
    /\ fault \in Fault \cup {"none"}

Init ==
    /\ Present = TRUE
    /\ pending_read_irp = NoRead
    /\ urbr_sent_partial = NoUrb
    /\ len_sent_partial = 0
    /\ head_urbr = <<>> /\ head_urbr_pending = <<>> /\ head_urbr_sent = <<>>
    /\ seq_num = 0
    /\ lock_urbr = NoUrb
    /\ urbr = [u \in Urb |-> "none"]
    /\ urbr_seq = [u \in Urb |-> 0]
    /\ irp = [u \in Urb |-> "idle"]
    /\ Cancel = {} /\ cancel_routine = {}
    /\ submit = [u \in Urb |-> [pc |-> "idle", read |-> NoRead]]
    /\ reader = [r \in Reader |-> [pc |-> "idle", urbr |-> NoUrb, buf |-> NoMessage]]
    /\ writer = [n \in SeqNum |-> [pc |-> "idle", urbr |-> NoUrb]]
    /\ unplug = [pc |-> "idle", read |-> NoRead, urbr |-> NoUrb]
    /\ canceller = [u \in Urb |-> "idle"]
    /\ wire = <<>>
    /\ fault = "none"

-----------------------------------------------------------------------------
(* Memory, lists and IRPs                                                  *)

Live(u) == urbr[u] = "live"

(* Walking or changing a list touches the entries it holds.                *)
Sound(list) == \A i \in DOMAIN list : Live(list[i])

Unlink(list, u) ==
    IF Contains(list, u)
    THEN RemoveAt(list, CHOOSE i \in DOMAIN list : list[i] = u)
    ELSE list

Crash(kind) ==
    /\ fault' = kind
    /\ UNCHANGED <<Present, pending_read_irp, partial, lists, lock_urbr, urbs,
                   irps, threads, wire>>

(* IoCompleteRequest of a URB request                                      *)
CompleteUrb(u, how) ==
    IF irp[u] = "issued"
    THEN irp' = [irp EXCEPT ![u] = how] /\ UNCHANGED fault
    ELSE fault' = "double_completion" /\ UNCHANGED irp

Free(u) == urbr' = [urbr EXCEPT ![u] = "freed"]

Unlocked == lock_urbr = NoUrb

(* Mutant of Number: the counter is not advanced.                          *)
NumberStale(u) ==
    /\ urbr_seq' = [urbr_seq EXCEPT ![u] = seq_num + 1]
    /\ UNCHANGED seq_num

(* urbr->seq_num = ++(pdodata->seq_num)                                    *)
Number(u) ==
    /\ seq_num' = seq_num + 1
    /\ urbr_seq' = [urbr_seq EXCEPT ![u] = seq_num + 1]

(* Mutant of ListUrb: the request does not join head_urbr.                 *)
ListNothing(u) == UNCHANGED head_urbr

ListUrb(u) == head_urbr' = Append(head_urbr, u)

(* Mutant of AwaitAnswer: the request does not join head_urbr_sent.        *)
AwaitNoAnswer(u) == UNCHANGED head_urbr_sent

AwaitAnswer(u) == head_urbr_sent' = Append(head_urbr_sent, u)

SubmitTo(u, pc)    == submit' = [submit EXCEPT ![u].pc = pc]
ReaderTo(r, pc)    == reader' = [reader EXCEPT ![r].pc = pc]
WriterTo(n, pc)    == writer' = [writer EXCEPT ![n].pc = pc]
CancellerTo(u, pc) == canceller' = [canceller EXCEPT ![u] = pc]

-----------------------------------------------------------------------------
(* Filling a read: store_urbr writes a header, with the data of an OUT     *)
(* request behind it when the read is long enough and with                 *)
(* len_sent_partial set when it is not.                                    *)

StoreOutcomes(u) ==
    (IF u \in Oversize THEN {"header"} ELSE {"whole"})
        \cup (IF u \in Faulty THEN {"error"} ELSE {})

PartialOutcomes(u) == {"data"} \cup (IF u \in Faulty THEN {"error"} ELSE {})

store_urbr(r, u, out) == [reader EXCEPT ![r].buf = [seq |-> urbr_seq[u], part |-> out]]

(* Mutants of LenAfter: the lengths add up; the length is not recorded.    *)
LenAccumulated(out) ==
    IF out = "whole" THEN len_sent_partial ELSE len_sent_partial + HeaderSize

LenForgotten(out) == 0

(* len_sent_partial once a read is filled                                  *)
LenAfter(out) ==
    CASE out = "header" -> HeaderSize
      [] out = "data"   -> 0
      [] OTHER          -> len_sent_partial

(* IoCompleteRequest of a read: the program receives what the read holds.  *)
Deliver(r) ==
    /\ wire' = Append(wire, reader[r].buf)
    /\ ReaderTo(r, "idle")

-----------------------------------------------------------------------------
(* A URB request: Bus_Internal_IoCtl and submit_urbr                       *)

(* The request is refused when the device is not present or no urb_req can *)
(* be allocated; the requests that the driver answers by itself (reset     *)
(* pipe, abort pipe, frame number, port status) never reach the queue and  *)
(* are not among Urb.                                                      *)
Bus_Internal_IoCtl(u) ==
    /\ submit[u].pc = "idle"
    /\ \/ /\ ~Present
          /\ irp' = [irp EXCEPT ![u] = "disconnected"]
          /\ SubmitTo(u, "done")
          /\ UNCHANGED urbr
       \/ /\ Present
          /\ irp' = [irp EXCEPT ![u] = "issued"]
          /\ SubmitTo(u, "enter")
          /\ urbr' = [urbr EXCEPT ![u] = "live"]
       \/ /\ Present
          /\ irp' = [irp EXCEPT ![u] = "rejected"]
          /\ SubmitTo(u, "done")
          /\ UNCHANGED urbr
    /\ UNCHANGED <<Present, pending_read_irp, partial, lists, lock_urbr, urbr_seq,
                   seq_num, Cancel, cancel_routine, reader, writer, unplug,
                   canceller, wire, fault>>

(* Mutant of MustQueue: only a missing read sends a request to the queue.  *)
MustQueueForRead == pending_read_irp = NoRead

MustQueue == urbr_sent_partial # NoUrb \/ pending_read_irp = NoRead

(* No read waits, or another request is being transferred: queue this one. *)
(* Its cancel routine is set first, with lock_urbr held.                   *)
SubmitPending(u) ==
    /\ submit[u].pc = "enter"
    /\ Unlocked
    /\ MustQueue
    /\ cancel_routine' = cancel_routine \cup {u}
    /\ lock_urbr' = u
    /\ SubmitTo(u, "arm_pending")
    /\ UNCHANGED <<Present, pending_read_irp, partial, lists, urbs, irp, Cancel,
                   reader, writer, unplug, canceller, wire, fault>>

(* A read waits: the request takes it and a sequence number.               *)
SubmitDirect(u) ==
    /\ submit[u].pc = "enter"
    /\ Unlocked
    /\ ~MustQueue
    /\ urbr_sent_partial' = u
    /\ Number(u)
    /\ submit' = [submit EXCEPT ![u] = [pc |-> "store", read |-> pending_read_irp]]
    /\ UNCHANGED <<Present, pending_read_irp, len_sent_partial, lists, lock_urbr,
                   urbr, irps, reader, writer, unplug, canceller, wire, fault>>

(* The lock is free while store_urbr fills the waiting read.               *)
SubmitStore(u) ==
    /\ submit[u].pc = "store"
    /\ LET r == submit[u].read IN
       IF reader[r].pc # "pending" THEN Crash("use_after_free")
       ELSE /\ \/ /\ "error" \in StoreOutcomes(u)
                  /\ SubmitTo(u, "refused")
                  /\ UNCHANGED <<reader, len_sent_partial>>
               \/ \E out \in StoreOutcomes(u) \ {"error"} :
                     /\ reader' = store_urbr(r, u, out)
                     /\ len_sent_partial' = LenAfter(out)
                     /\ SubmitTo(u, "stored")
            /\ UNCHANGED <<Present, pending_read_irp, urbr_sent_partial, lists,
                           lock_urbr, urbs, irps, writer, unplug, canceller, wire,
                           fault>>

SubmitRefused(u) ==
    /\ submit[u].pc = "refused"
    /\ Unlocked
    /\ urbr_sent_partial' = NoUrb
    /\ Free(u)
    /\ SubmitTo(u, "rejected")
    /\ UNCHANGED <<Present, pending_read_irp, len_sent_partial, lists, lock_urbr,
                   urbr_seq, seq_num, irps, reader, writer, unplug, canceller,
                   wire, fault>>

(* Stored whole: arm the cancel routine before the request joins the sent  *)
(* list.                                                                   *)
SubmitArmSent(u) ==
    /\ submit[u].pc = "stored"
    /\ Unlocked
    /\ len_sent_partial = 0
    /\ urbr_sent_partial' = NoUrb
    /\ cancel_routine' = cancel_routine \cup {u}
    /\ lock_urbr' = u
    /\ SubmitTo(u, "arm_sent")
    /\ UNCHANGED <<Present, pending_read_irp, len_sent_partial, lists, urbs, irp,
                   Cancel, reader, writer, unplug, canceller, wire, fault>>

(* Only the header was stored: the request stays in urbr_sent_partial, and *)
(* no cancel routine is set for it.                                        *)
SubmitPartial(u) ==
    /\ submit[u].pc = "stored"
    /\ Unlocked
    /\ len_sent_partial # 0
    /\ IF ~Sound(head_urbr) THEN Crash("use_after_free")
       ELSE /\ ListUrb(u)
            /\ pending_read_irp' = NoRead
            /\ SubmitTo(u, "complete_read")
            /\ UNCHANGED <<Present, partial, head_urbr_pending, head_urbr_sent,
                           lock_urbr, urbs, irps, reader, writer, unplug, canceller,
                           wire, fault>>

(* insert_pending_or_sent_urbr finds irp->Cancel set after it has set the  *)
(* cancel routine: it clears the routine, whether or not IoCancelIrp has   *)
(* taken it meanwhile, and the request is refused as cancelled.            *)
SubmitCancelled(u) ==
    /\ submit[u].pc \in {"arm_pending", "arm_sent"}
    /\ u \in Cancel
    /\ cancel_routine' = cancel_routine \ {u}
    /\ lock_urbr' = NoUrb
    /\ Free(u)
    /\ SubmitTo(u, "cancelled")
    /\ UNCHANGED <<Present, pending_read_irp, partial, lists, urbr_seq, seq_num,
                   irp, Cancel, reader, writer, unplug, canceller, wire, fault>>

SubmitInsert(u) ==
    /\ submit[u].pc \in {"arm_pending", "arm_sent"}
    /\ u \notin Cancel
    /\ LET pending == submit[u].pc = "arm_pending"
           list == IF pending THEN head_urbr_pending ELSE head_urbr_sent
       IN IF ~Sound(list) \/ ~Sound(head_urbr) THEN Crash("use_after_free")
          ELSE /\ ListUrb(u)
               /\ IF pending
                  THEN /\ head_urbr_pending' = Append(head_urbr_pending, u)
                       /\ SubmitTo(u, "done")
                       /\ UNCHANGED <<head_urbr_sent, pending_read_irp>>
                  ELSE /\ AwaitAnswer(u)
                       /\ pending_read_irp' = NoRead
                       /\ SubmitTo(u, "complete_read")
                       /\ UNCHANGED head_urbr_pending
               /\ lock_urbr' = NoUrb
               /\ UNCHANGED <<Present, partial, urbs, irps, reader, writer, unplug,
                              canceller, wire, fault>>

SubmitCompleteRead(u) ==
    /\ submit[u].pc = "complete_read"
    /\ IF reader[submit[u].read].pc # "pending" THEN Crash("double_completion")
       ELSE /\ Deliver(submit[u].read)
            /\ SubmitTo(u, "done")
            /\ UNCHANGED <<Present, pending_read_irp, partial, lists, lock_urbr, urbs,
                           irps, writer, unplug, canceller, fault>>

(* submit_urbr returned an error: Bus_Internal_IoCtl completes the IRP.    *)
SubmitReturn(u) ==
    /\ submit[u].pc \in {"cancelled", "rejected"}
    /\ CompleteUrb(u, submit[u].pc)
    /\ SubmitTo(u, "done")
    /\ UNCHANGED <<Present, pending_read_irp, partial, lists, lock_urbr, urbs, Cancel,
                   cancel_routine, reader, writer, unplug, canceller, wire>>

-----------------------------------------------------------------------------
(* A read of the user-mode program: Bus_Read and process_read_irp          *)

(* A read that finds the device unplugged is refused and changes nothing.  *)
(* Unless the program overlaps its reads, it reads anew when its last read *)
(* has returned, be it with the answer that it has to wait.                *)
Bus_Read(r) ==
    /\ reader[r].pc = "idle"
    /\ Present
    /\ OverlapReads \/ \A q \in Reader : reader[q].pc \in {"idle", "pending"}
    /\ ReaderTo(r, "enter")
    /\ UNCHANGED <<Present, pending_read_irp, partial, lists, lock_urbr, urbs, irps,
                   submit, writer, unplug, canceller, wire, fault>>

(* Mutant of ReadWaits: a read does not notice the one that waits.         *)
NeverWaits == FALSE

ReadWaits == pending_read_irp # NoRead

(* Another read already waits: this one fails.                             *)
ReadRefused(r) ==
    /\ reader[r].pc = "enter"
    /\ Unlocked
    /\ ReadWaits
    /\ ReaderTo(r, "idle")
    /\ UNCHANGED <<Present, pending_read_irp, partial, lists, lock_urbr, urbs, irps,
                   submit, writer, unplug, canceller, wire, fault>>

(* A header has been read: this read gets the data that follows it.        *)
ReadRest(r) ==
    /\ reader[r].pc = "enter"
    /\ Unlocked
    /\ ~ReadWaits
    /\ urbr_sent_partial # NoUrb
    /\ reader' = [reader EXCEPT ![r].pc = "store_partial", ![r].urbr = urbr_sent_partial]
    /\ UNCHANGED <<Present, pending_read_irp, partial, lists, lock_urbr, urbs, irps,
                   submit, writer, unplug, canceller, wire, fault>>

(* find_pending_urbr: the oldest request that waits gets the next number.  *)
ReadPending(r) ==
    /\ reader[r].pc = "enter"
    /\ Unlocked
    /\ ~ReadWaits
    /\ urbr_sent_partial = NoUrb
    /\ head_urbr_pending # <<>>
    /\ IF ~Sound(head_urbr_pending) THEN Crash("use_after_free")
       ELSE LET u == Head(head_urbr_pending) IN
            /\ head_urbr_pending' = Tail(head_urbr_pending)
            /\ Number(u)
            /\ urbr_sent_partial' = u
            /\ reader' = [reader EXCEPT ![r].pc = "store", ![r].urbr = u]
            /\ UNCHANGED <<Present, pending_read_irp, len_sent_partial, head_urbr,
                           head_urbr_sent, lock_urbr, urbr, irps, submit, writer,
                           unplug, canceller, wire, fault>>

(* Mutant of ReadWait: a read waits although requests do.                  *)
ReadWaitTooSoon(r) ==
    /\ reader[r].pc = "enter"
    /\ Unlocked
    /\ ~ReadWaits
    /\ urbr_sent_partial = NoUrb
    /\ pending_read_irp' = r
    /\ ReaderTo(r, "pending")
    /\ UNCHANGED <<Present, partial, lists, lock_urbr, urbs, irps, submit, writer,
                   unplug, canceller, wire, fault>>

(* Nothing to transfer: the read becomes pending_read_irp.                 *)
ReadWait(r) ==
    /\ reader[r].pc = "enter"
    /\ Unlocked
    /\ ~ReadWaits
    /\ urbr_sent_partial = NoUrb
    /\ head_urbr_pending = <<>>
    /\ pending_read_irp' = r
    /\ ReaderTo(r, "pending")
    /\ UNCHANGED <<Present, partial, lists, lock_urbr, urbs, irps, submit, writer,
                   unplug, canceller, wire, fault>>

(* store_urbr or store_urbr_partial, while lock_urbr is free               *)
ReadStore(r) ==
    /\ reader[r].pc \in {"store", "store_partial"}
    /\ LET u == reader[r].urbr
           rest == reader[r].pc = "store_partial"
           outcomes == IF rest THEN PartialOutcomes(u) ELSE StoreOutcomes(u)
       IN IF ~Live(u) \/ irp[u] # "issued" THEN Crash("use_after_free")
          ELSE /\ \/ /\ "error" \in outcomes
                     /\ ReaderTo(r, IF rest THEN "refused_partial" ELSE "refused")
                     /\ UNCHANGED len_sent_partial
                  \/ \E out \in outcomes \ {"error"} :
                        /\ reader' = [store_urbr(r, u, out) EXCEPT
                                        ![r].pc = IF rest THEN "stored_partial" ELSE "stored"]
                        /\ len_sent_partial' = LenAfter(out)
               /\ UNCHANGED <<Present, pending_read_irp, urbr_sent_partial, lists,
                              lock_urbr, urbs, irps, submit, writer, unplug, canceller,
                              wire, fault>>

(* Stored: unless the data has still to follow, the request now waits for  *)
(* its answer.                                                             *)
ReadStored(r) ==
    /\ reader[r].pc \in {"stored", "stored_partial"}
    /\ Unlocked
    /\ LET u == reader[r].urbr
           len == IF reader[r].pc = "stored_partial" THEN 0 ELSE len_sent_partial
       IN IF len = 0 /\ (~Live(u) \/ ~Sound(head_urbr_sent))
          THEN Crash("use_after_free")
          ELSE IF len = 0 /\ Contains(head_urbr_sent, u)
          THEN Crash("list_corruption")
          ELSE /\ len_sent_partial' = len
               /\ IF len = 0
                  THEN /\ AwaitAnswer(u)
                       /\ urbr_sent_partial' = NoUrb
                  ELSE UNCHANGED <<head_urbr_sent, urbr_sent_partial>>
               /\ ReaderTo(r, "return")
               /\ UNCHANGED <<Present, pending_read_irp, head_urbr, head_urbr_pending,
                              lock_urbr, urbs, irps, submit, writer, unplug,
                              canceller, wire, fault>>

(* Refused: the request leaves head_urbr, but not urbr_sent_partial.       *)
ReadRefusedUrb(r) ==
    /\ reader[r].pc \in {"refused", "refused_partial"}
    /\ Unlocked
    /\ LET u == reader[r].urbr IN
       IF ~Live(u) \/ ~Sound(head_urbr) THEN Crash("use_after_free")
       ELSE IF ~Contains(head_urbr, u) THEN Crash("list_corruption")
       ELSE /\ len_sent_partial' = IF reader[r].pc = "refused_partial" THEN 0
                                   ELSE len_sent_partial
            /\ head_urbr' = Unlink(head_urbr, u)
            /\ ReaderTo(r, "fail")
            /\ UNCHANGED <<Present, pending_read_irp, urbr_sent_partial,
                           head_urbr_pending, head_urbr_sent, lock_urbr, urbs, irps,
                           submit, writer, unplug, canceller, wire, fault>>

(* The request is completed whether or not its cancel routine was still    *)
(* set; the read fails.                                                    *)
ReadFail(r) ==
    /\ reader[r].pc = "fail"
    /\ LET u == reader[r].urbr IN
       /\ cancel_routine' = cancel_routine \ {u}
       /\ CompleteUrb(u, "rejected")
       /\ Free(u)
    /\ ReaderTo(r, "idle")
    /\ UNCHANGED <<Present, pending_read_irp, partial, lists, lock_urbr, urbr_seq,
                   seq_num, Cancel, submit, writer, unplug, canceller, wire>>

ReadReturn(r) ==
    /\ reader[r].pc = "return"
    /\ Deliver(r)
    /\ UNCHANGED <<Present, pending_read_irp, partial, lists, lock_urbr, urbs, irps,
                   submit, writer, unplug, canceller, fault>>

-----------------------------------------------------------------------------
(* A write of the user-mode program: Bus_Write and process_write_irp.  The *)
(* remote device answers a request once, after it has received all of it.  *)

Received(n) == \E m \in ToSet(wire) : m.seq = n /\ m.part \in {"whole", "data"}

(* A write that finds the device unplugged is refused.                     *)
Bus_Write(n) ==
    /\ writer[n].pc = "idle"
    /\ Received(n)
    /\ WriterTo(n, IF Present THEN "enter" ELSE "done")
    /\ UNCHANGED <<Present, pending_read_irp, partial, lists, lock_urbr, urbs, irps,
                   submit, reader, unplug, canceller, wire, fault>>

(* Mutant of SentAs: the answer goes to the oldest request that was sent.  *)
SentOldest(n) == DOMAIN head_urbr_sent

SentAs(n) == {i \in DOMAIN head_urbr_sent : urbr_seq[head_urbr_sent[i]] = n}

(* find_sent_urbr: nobody but this write knows the request afterwards.     *)
WriteFind(n) ==
    /\ writer[n].pc = "enter"
    /\ Unlocked
    /\ IF ~Sound(head_urbr_sent) \/ (SentAs(n) # {} /\ ~Sound(head_urbr))
       THEN Crash("use_after_free")
       ELSE IF \E i \in SentAs(n) : ~Contains(head_urbr, head_urbr_sent[i])
       THEN Crash("list_corruption")
       ELSE /\ \/ /\ SentAs(n) = {}
                  /\ WriterTo(n, "done")
                  /\ UNCHANGED lists
               \/ \E i \in SentAs(n) :
                     LET u == head_urbr_sent[i] IN
                     /\ \A j \in SentAs(n) : i <= j
                     /\ head_urbr_sent' = RemoveAt(head_urbr_sent, i)
                     /\ head_urbr' = Unlink(head_urbr, u)
                     /\ writer' = [writer EXCEPT ![n] = [pc |-> "found", urbr |-> u]]
                     /\ UNCHANGED head_urbr_pending
            /\ UNCHANGED <<Present, pending_read_irp, partial, lock_urbr, urbs, irps,
                           submit, reader, unplug, canceller, wire, fault>>

(* process_urb_res copies the answer into the request, which is then       *)
(* completed whether or not its cancel routine was still set.              *)
WriteComplete(n) ==
    /\ writer[n].pc = "found"
    /\ LET u == writer[n].urbr IN
       IF ~Live(u) THEN Crash("use_after_free")
       ELSE /\ cancel_routine' = cancel_routine \ {u}
            /\ CompleteUrb(u, "replied")
            /\ Free(u)
            /\ WriterTo(n, "done")
            /\ UNCHANGED <<Present, pending_read_irp, partial, lists, lock_urbr,
                           urbr_seq, seq_num, Cancel, submit, reader, unplug,
                           canceller, wire>>

-----------------------------------------------------------------------------
(* Cancellation.  IoCancelIrp sets irp->Cancel and takes the cancel        *)
(* routine, if one is set, under the system's cancel spin lock, which the  *)
(* routine holds until it returns.  A request is cancelled only before it  *)
(* is completed.                                                           *)

IoCancelIrp(u) ==
    /\ u \in Cancellable
    /\ irp[u] = "issued"
    /\ u \notin Cancel
    /\ \A v \in Urb : canceller[v] \notin {"remove", "complete"}
    /\ Cancel' = Cancel \cup {u}
    /\ cancel_routine' = cancel_routine \ {u}
    /\ CancellerTo(u, IF u \in cancel_routine THEN "remove" ELSE "ignored")
    /\ UNCHANGED <<Present, pending_read_irp, partial, lists, lock_urbr, urbs, irp,
                   submit, reader, writer, unplug, wire, fault>>

(* remove_cancelled_urbr: nothing is freed if head_urbr lacks the request. *)
remove_cancelled_urbr(u) ==
    /\ canceller[u] = "remove"
    /\ Unlocked
    /\ IF ~Sound(head_urbr)
          \/ (Contains(head_urbr, u) /\ ~(Sound(head_urbr_pending) /\ Sound(head_urbr_sent)))
       THEN Crash("use_after_free")
       ELSE /\ IF Contains(head_urbr, u)
               THEN /\ head_urbr' = Unlink(head_urbr, u)
                    /\ head_urbr_pending' = Unlink(head_urbr_pending, u)
                    /\ head_urbr_sent' = Unlink(head_urbr_sent, u)
                    /\ IF urbr_sent_partial = u
                       THEN urbr_sent_partial' = NoUrb /\ len_sent_partial' = 0
                       ELSE UNCHANGED partial
                    /\ Free(u)
               ELSE UNCHANGED <<lists, partial, urbr>>
            /\ CancellerTo(u, "complete")
            /\ UNCHANGED <<Present, pending_read_irp, lock_urbr, urbr_seq, seq_num,
                           irps, submit, reader, writer, unplug, wire, fault>>

cancel_urbr(u) ==
    /\ canceller[u] = "complete"
    /\ CompleteUrb(u, "cancelled")
    /\ CancellerTo(u, "done")
    /\ UNCHANGED <<Present, pending_read_irp, partial, lists, lock_urbr, urbs, Cancel,
                   cancel_routine, submit, reader, writer, unplug, wire>>

-----------------------------------------------------------------------------
(* Unplugging the device: bus_unplug_dev, run by the unplug IOCTL or when  *)
(* the program closes its handle                                           *)

bus_unplug_dev ==
    /\ CanUnplug
    /\ unplug.pc = "idle"
    /\ Present' = FALSE
    /\ unplug' = [unplug EXCEPT !.pc = "complete_read"]
    /\ UNCHANGED <<pending_read_irp, partial, lists, lock_urbr, urbs, irps, submit,
                   reader, writer, canceller, wire, fault>>

complete_pending_read_irp ==
    /\ unplug.pc = "complete_read"
    /\ Unlocked
    /\ unplug' = [unplug EXCEPT !.pc = IF pending_read_irp = NoRead THEN "clear"
                                       ELSE "end_read",
                                !.read = pending_read_irp]
    /\ pending_read_irp' = NoRead
    /\ UNCHANGED <<Present, partial, lists, lock_urbr, urbs, irps, submit, reader,
                   writer, canceller, wire, fault>>

UnplugEndRead ==
    /\ unplug.pc = "end_read"
    /\ IF reader[unplug.read].pc # "pending" THEN Crash("double_completion")
       ELSE /\ ReaderTo(unplug.read, "idle")
            /\ unplug' = [unplug EXCEPT !.pc = "clear"]
            /\ UNCHANGED <<Present, pending_read_irp, partial, lists, lock_urbr, urbs,
                           irps, submit, writer, canceller, wire, fault>>

(* complete_pending_irp takes the requests of head_urbr one by one ...     *)
UnplugTake ==
    /\ unplug.pc = "clear"
    /\ Unlocked
    /\ head_urbr # <<>>
    /\ IF ~Sound(head_urbr) THEN Crash("use_after_free")
       ELSE /\ head_urbr' = Tail(head_urbr)
            /\ unplug' = [unplug EXCEPT !.pc = "end_urb", !.urbr = Head(head_urbr)]
            /\ UNCHANGED <<Present, pending_read_irp, partial, head_urbr_pending,
                           head_urbr_sent, lock_urbr, urbs, irps, submit, reader,
                           writer, canceller, wire, fault>>

(* ... completes each whether or not its cancel routine was still set ...  *)
UnplugEndUrb ==
    /\ unplug.pc = "end_urb"
    /\ LET u == unplug.urbr IN
       /\ Free(u)
       /\ cancel_routine' = cancel_routine \ {u}
       /\ CompleteUrb(u, "disconnected")
    /\ unplug' = [unplug EXCEPT !.pc = "clear"]
    /\ UNCHANGED <<Present, pending_read_irp, partial, lists, lock_urbr, urbr_seq,
                   seq_num, Cancel, submit, reader, writer, canceller, wire>>

(* ... and empties the other lists when head_urbr is empty.                *)
UnplugReset ==
    /\ unplug.pc = "clear"
    /\ Unlocked
    /\ head_urbr = <<>>
    /\ urbr_sent_partial' = NoUrb
    /\ len_sent_partial' = 0
    /\ head_urbr_sent' = <<>>
    /\ head_urbr_pending' = <<>>
    /\ unplug' = [unplug EXCEPT !.pc = "done"]
    /\ UNCHANGED <<Present, pending_read_irp, head_urbr, lock_urbr, urbs, irps, submit,
                   reader, writer, canceller, wire, fault>>

-----------------------------------------------------------------------------

Submit(u) ==
    \/ SubmitPending(u) \/ SubmitDirect(u) \/ SubmitStore(u) \/ SubmitRefused(u)
    \/ SubmitArmSent(u) \/ SubmitPartial(u) \/ SubmitCancelled(u) \/ SubmitInsert(u)
    \/ SubmitCompleteRead(u) \/ SubmitReturn(u)

Read(r) ==
    \/ Bus_Read(r) \/ ReadRefused(r) \/ ReadRest(r) \/ ReadPending(r) \/ ReadWait(r)
    \/ ReadStore(r) \/ ReadStored(r) \/ ReadRefusedUrb(r) \/ ReadFail(r) \/ ReadReturn(r)

Write(n) == Bus_Write(n) \/ WriteFind(n) \/ WriteComplete(n)

CancelRoutine(u) == remove_cancelled_urbr(u) \/ cancel_urbr(u)

Unplug ==
    \/ complete_pending_read_irp \/ UnplugEndRead \/ UnplugTake \/ UnplugEndUrb
    \/ UnplugReset

Next ==
    /\ fault = "none"
    /\ \/ \E u \in Urb : Bus_Internal_IoCtl(u) \/ Submit(u) \/ IoCancelIrp(u)
                            \/ CancelRoutine(u)
       \/ \E r \in Reader : Read(r)
       \/ \E n \in SeqNum : Write(n)
       \/ bus_unplug_dev
       \/ Unplug

Spec == Init /\ [][Next]_vars

(* The threads that run a handler are scheduled, the program keeps reading *)
(* and writes every answer; nobody has to send a request, cancel one or    *)
(* unplug the device.                                                      *)
Fairness ==
    /\ \A u \in Urb : WF_vars(fault = "none" /\ Submit(u))
                      /\ WF_vars(fault = "none" /\ CancelRoutine(u))
    /\ \A r \in Reader : WF_vars(fault = "none" /\ Read(r))
    /\ \A n \in SeqNum : WF_vars(fault = "none" /\ Write(n))
    /\ WF_vars(fault = "none" /\ Unplug)

FairSpec == Spec /\ Fairness

-----------------------------------------------------------------------------
(* Properties.  They speak of what happens up to the first fault.          *)

(* Who is bound to complete a request that is not in the queue: the thread *)
(* that submits it, a read that could not store it, the write that answers *)
(* it, the unplug that clears it, or its cancel routine.                   *)
Claimed(u) ==
    \/ submit[u].pc \in Submitting \ {"complete_read"}
    \/ \E r \in Reader : reader[r].pc = "fail" /\ reader[r].urbr = u
    \/ \E n \in SeqNum : writer[n].pc = "found" /\ writer[n].urbr = u
    \/ unplug.pc = "end_urb" /\ unplug.urbr = u
    \/ canceller[u] \in {"remove", "complete"}

(* No request is lost: one that is not completed is in head_urbr, where    *)
(* unplugging and cancellation find it, or some thread is bound to         *)
(* complete it (device.h:100).                                             *)
RequestAccounted ==
    fault = "none" =>
        \A u \in Urb : irp[u] = "issued" => Contains(head_urbr, u) \/ Claimed(u)

(* No read is lost while the device is plugged in: one that waits is       *)
(* pending_read_irp, or the submitter that filled it is about to complete  *)
(* it.  (After the unplug a submitter that is still storing can clear the  *)
(* pointer to a read that came later.)                                     *)
ReadAccounted ==
    fault = "none" /\ Present =>
        \A r \in Reader : reader[r].pc = "pending" =>
            \/ pending_read_irp = r
            \/ \E u \in Urb : submit[u].pc = "complete_read" /\ submit[u].read = r

(* An answer never misses its request: while the device is plugged in, a   *)
(* request that the program has received whole is in head_urbr_sent, where *)
(* find_sent_urbr looks, unless a thread is already bound to complete it.  *)
AnswerFindsRequest ==
    fault = "none" /\ Present =>
        \A u \in Urb : irp[u] = "issued" /\ Received(urbr_seq[u]) =>
            Contains(head_urbr_sent, u) \/ Claimed(u)

(* An answer reaches the request it was sent for: no two requests carry    *)
(* the same sequence number, and a request that was answered had been      *)
(* received whole.                                                         *)
AnswerMatchesRequest ==
    /\ \A u, v \in Urb : urbr_seq[u] = urbr_seq[v] /\ urbr_seq[u] # 0 => u = v
    /\ \A u \in Urb : irp[u] = "replied" => Received(urbr_seq[u])

(* While requests are neither cancelled by their cancel routine nor        *)
(* refused by store_urbr, the device stays plugged in, and reads do not    *)
(* overlap, no urb_req is used after it was freed, no IRP is completed     *)
(* twice and no list is corrupted, whatever the interleaving of            *)
(* submissions, reads and writes.                                          *)
FaultNeedsRace ==
    fault # "none" =>
        \/ ~Present
        \/ OverlapReads
        \/ \E u \in Urb : canceller[u] \in {"remove", "complete", "done"}
        \/ \E u \in Urb : irp[u] = "rejected" /\ urbr[u] # "none"

(* Requests are served in order: the one that takes the next number is the *)
(* oldest that waits, and none overtakes the queue through a waiting read. *)
NumberedInOrder ==
    [][\A u \in Urb : urbr_seq'[u] # urbr_seq[u] =>
            head_urbr_pending = <<>> \/ Head(head_urbr_pending) = u]_vars

(* What the program reads is a stream of commands in the order of their    *)
(* numbers, and the data of an OUT request follows its header immediately  *)
(* (usbip_proto.h:56).                                                     *)
WireFraming ==
    \A i \in 1 .. Len(wire) - 1 :
        IF wire[i].part = "header"
        THEN wire[i + 1] = [seq |-> wire[i].seq, part |-> "data"]
        ELSE wire[i + 1].part # "data" /\ wire[i].seq < wire[i + 1].seq

(* A read waits only when no request does (device.h:94), except while the  *)
(* request that took it is being stored.                                   *)
WaitOnlyWhenIdle ==
    fault = "none" /\ pending_read_irp # NoRead /\ head_urbr_pending # <<>> =>
        \E u \in Urb : submit[u].pc \in Submitting \ {"enter"}

(* A request that was cancelled is not answered any more: a write does not *)
(* find it (vhci_write.c:312).                                             *)
CancelledNotAnswered ==
    \A n \in SeqNum : writer[n].pc = "found" => irp[writer[n].urbr] # "cancelled"

(* Every request is completed at last.                                     *)
EveryRequestEnds == \A u \in Urb : irp[u] = "issued" ~> irp[u] # "issued"

=============================================================================
