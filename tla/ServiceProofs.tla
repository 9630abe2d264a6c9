---------------------------- MODULE ServiceProofs ----------------------------
(***************************************************************************)
(* Requests are served in the order in which they joined the queue, for    *)
(* any number of requests and readers, when none is cancelled or refused,  *)
(* the device stays plugged in and the program does not overlap its reads; *)
(* and when it reads with one thread, UrbQueue implements UrbService.      *)
(*                                                                         *)
(* The argument, of the order: while a read waits, the only request in     *)
(* transfer is the one whose submitter fills that read.  Hence a request   *)
(* joins the queue while a read waits only behind a submitter that has     *)
(* taken the read, and no other can take it before the queue is served.    *)
(*                                                                         *)
(* Of the service: at most one request is in transfer, and it is the one   *)
(* numbered last.  What the program has received is therefore everything   *)
(* up to that request, up to its header, or everything before it; a read   *)
(* or a submitter that fills a buffer fills it with the piece that comes   *)
(* next, and nothing else is delivered before it.                          *)
(***************************************************************************)
EXTENDS RaceProofs, UrbQueueService, WellFoundedInduction

Serial == Faulty = {} /\ Cancellable = {} /\ ~CanUnplug /\ ~OverlapReads

(* No thread is where a refusal, a cancellation or an unplug leads.        *)
UndisturbedOK ==
    /\ Present
    /\ Cancel = {}
    /\ \A u \in Urb : canceller[u] = "idle"
    /\ \A u \in Urb : submit[u].pc \notin {"refused", "cancelled", "rejected"}
    /\ \A r \in Reader : reader[r].pc \notin {"refused", "refused_partial", "fail"}
    /\ \A u \in Urb : submit[u].pc = "idle" => urbr[u] = "none"
    /\ \A u \in Urb : irp[u] = "rejected" => urbr[u] = "none" /\ submit[u].pc = "done"

SomeTakes == \E u \in Urb : submit[u].pc \in Taking

IdleOK ==
    /\ pending_read_irp # NoRead /\ urbr_sent_partial # NoUrb => SomeTakes
    /\ pending_read_irp # NoRead /\ head_urbr_pending # <<>> => SomeTakes
    /\ pending_read_irp # NoRead /\ (\E u \in Urb : submit[u].pc = "arm_pending") => SomeTakes

SInv == RInv /\ UndisturbedOK /\ IdleOK

LEMMA Undisturbed ==
  ASSUME Serial, RInv, UndisturbedOK
  PROVE  ~Raced /\ Calm /\ FillOK /\ RaceOK /\ AInv
  BY DEF Serial, UndisturbedOK, RInv, FInv, Raced, Calm

(* What a step may do without disturbing the order: nobody joins the queue *)
(* and no read starts to wait.                                             *)
LEMMA IdleFrame ==
  ASSUME IdleOK, pending_read_irp' \in {pending_read_irp, NoRead},
         urbr_sent_partial' \in {urbr_sent_partial, NoUrb},
         head_urbr_pending' # <<>> => head_urbr_pending # <<>>,
         \A u \in Urb : submit'[u].pc = "arm_pending" => submit[u].pc = "arm_pending",
         \A u \in Urb : submit[u].pc \in Taking =>
                        submit'[u].pc \in Taking \/ pending_read_irp' = NoRead
  PROVE  IdleOK'
  BY DEF IdleOK, SomeTakes

(* While the lock is free, a submitter that has taken the read transfers   *)
(* its request.                                                            *)
LEMMA TakenFills ==
  ASSUME FillOK, Unlocked, SomeTakes
  PROVE  urbr_sent_partial # NoUrb
  <1>1. PICK u \in Urb : submit[u].pc \in Filling
    BY NobodyArms DEF SomeTakes, Taking, FillOK
  <1> QED
    BY <1>1, UrbAssumption DEF FillOK, TakingOK

LEMMA SubmitIdle ==
  ASSUME Serial, AInv, Calm, Calm', FillOK, UndisturbedOK, IdleOK, NEW u \in Urb,
         Bus_Internal_IoCtl(u) \/ Submit(u)
  PROVE  UndisturbedOK' /\ IdleOK'
  <1> USE DEF AInv, TInv
  <1>1. /\ UNCHANGED <<Present, Cancel, canceller>>
        /\ \A v \in Urb \ {u} : irp'[v] = irp[v] /\ urbr'[v] = urbr[v]
        /\ submit[u].pc # "done"
    BY CalmStep, NoCrash
       DEF Bus_Internal_IoCtl, Submit, SubmitPending, SubmitDirect, SubmitStore, SubmitRefused,
           SubmitArmSent, SubmitPartial, SubmitCancelled, SubmitInsert, SubmitCompleteRead,
           SubmitReturn, irps, urbs, CompleteUrb, Free, TypeOK
  <1>2. ~SubmitRefused(u) /\ ~SubmitCancelled(u) /\ ~SubmitReturn(u)
    BY DEF UndisturbedOK, SubmitRefused, SubmitCancelled, SubmitReturn
  <1>3. PICK pc \in {"enter", "store", "stored", "arm_pending", "arm_sent", "complete_read",
                     "done"} : \A v \in Urb : submit'[v].pc = IF v = u THEN pc ELSE submit[v].pc
    <2>1. CASE SubmitDirect(u)
      BY <2>1 DEF SubmitDirect, SubmitOK, SubmitState
    <2>2. CASE ~SubmitDirect(u)
      <3>1. PICK pc \in {"enter", "stored", "arm_pending", "arm_sent", "complete_read", "done"} :
               SubmitTo(u, pc)
        BY <1>2, <2>2, CalmStep, NoCrash
           DEF Bus_Internal_IoCtl, Submit, SubmitPending, SubmitStore, SubmitArmSent,
               SubmitPartial, SubmitInsert, SubmitCompleteRead, Serial, StoreOutcomes
      <3> QED
        BY <3>1, SubmitToIs
    <2> QED
      BY <2>1, <2>2
  <1>4. UndisturbedOK'
    <2>1. \A r \in Reader : reader'[r].pc = reader[r].pc \/ reader'[r].pc = "idle"
      <3>1. CASE SubmitStore(u)
        BY <3>1, CalmStep, NoCrash, StoredIs DEF SubmitStore, SubmitOK
      <3>2. CASE SubmitCompleteRead(u)
        BY <3>2, CalmStep, NoCrash, ReaderToIs DEF SubmitCompleteRead, Deliver, SubmitOK
      <3>3. CASE ~SubmitStore(u) /\ ~SubmitCompleteRead(u)
        BY <1>2, <3>3, CalmStep, NoCrash
           DEF Bus_Internal_IoCtl, Submit, SubmitPending, SubmitDirect, SubmitArmSent,
               SubmitPartial, SubmitInsert
      <3> QED
        BY <3>1, <3>2, <3>3
    <2>2. irp'[u] = "rejected" => urbr'[u] = "none" /\ submit'[u].pc = "done"
      <3>1. CASE Bus_Internal_IoCtl(u)
        <4>1. urbr[u] = "none"
          BY <3>1 DEF Bus_Internal_IoCtl, UndisturbedOK
        <4>2. irp'[u] = "rejected" => SubmitTo(u, "done") /\ urbr'[u] = urbr[u]
          BY <3>1 DEF Bus_Internal_IoCtl, TypeOK
        <4> QED
          BY <4>1, <4>2, SubmitToIs
      <3>2. CASE Submit(u)
        <4>1. UNCHANGED irp
          BY <1>2, <3>2, CalmStep, NoCrash
             DEF Submit, SubmitPending, SubmitDirect, SubmitStore, SubmitArmSent, SubmitPartial,
                 SubmitInsert, SubmitCompleteRead, irps
        <4> QED
          BY <1>1, <4>1 DEF UndisturbedOK
      <3> QED
        BY <3>1, <3>2
    <2> QED
      BY <1>1, <1>3, <2>1, <2>2 DEF UndisturbedOK
  <1>5. CASE SubmitPending(u)
    <2>1. /\ UNCHANGED <<pending_read_irp, urbr_sent_partial, head_urbr_pending>>
          /\ urbr_sent_partial # NoUrb \/ pending_read_irp = NoRead
          /\ submit[u].pc = "enter"
      BY <1>5 DEF SubmitPending, MustQueue, partial, lists
    <2>2. SomeTakes => SomeTakes'
      BY <1>3, <2>1 DEF SomeTakes, Taking, Filling
    <2> QED
      BY <1>4, <2>1, <2>2 DEF IdleOK
  <1>6. CASE SubmitDirect(u)
    <2>1. submit'[u].pc = "store"
      BY <1>6 DEF SubmitDirect, SubmitOK, SubmitState
    <2> QED
      BY <1>4, <2>1 DEF IdleOK, SomeTakes, Taking, Filling
  <1>7. CASE SubmitInsert(u) \/ SubmitPartial(u)
    <2>1. CASE pending_read_irp' = NoRead
      BY <1>4, <2>1 DEF IdleOK
    <2>2. CASE pending_read_irp' # NoRead
      <3>1. /\ UNCHANGED <<pending_read_irp, urbr_sent_partial>>
            /\ submit[u].pc = "arm_pending"
        BY <1>7, <2>2, CalmStep, NoCrash DEF SubmitInsert, SubmitPartial, partial
      <3>2. SomeTakes /\ SomeTakes'
        BY <1>3, <2>2, <3>1 DEF IdleOK, SomeTakes, Taking, Filling
      <3> QED
        BY <1>4, <3>2 DEF IdleOK
    <2> QED
      BY <2>1, <2>2
  <1>8. CASE Bus_Internal_IoCtl(u) \/ SubmitStore(u) \/ SubmitArmSent(u) \/ SubmitCompleteRead(u)
    <2>1. /\ UNCHANGED <<pending_read_irp, head_urbr_pending>>
          /\ urbr_sent_partial' \in {urbr_sent_partial, NoUrb}
          /\ submit[u].pc \in Taking => pc \in Taking
          /\ pc # "arm_pending"
      <3>1. submit'[u].pc = pc
        BY <1>3
      <3>2. \E p : SubmitTo(u, p) /\ p # "arm_pending" /\ (submit[u].pc \in Taking => p \in Taking)
        BY <1>8, CalmStep, NoCrash
           DEF Bus_Internal_IoCtl, SubmitStore, SubmitArmSent, SubmitCompleteRead, Taking,
               Filling
      <3>3. pc # "arm_pending" /\ (submit[u].pc \in Taking => pc \in Taking)
        BY <3>1, <3>2, SubmitToIs
      <3> QED
        BY <1>8, <3>3, CalmStep, NoCrash
           DEF Bus_Internal_IoCtl, SubmitStore, SubmitArmSent, SubmitCompleteRead, lists, partial
    <2>2. IdleOK'
      BY <1>3, <2>1, IdleFrame
    <2> QED
      BY <1>4, <2>2
  <1> QED
    BY <1>2, <1>5, <1>6, <1>7, <1>8 DEF Submit

LEMMA ReadIdle ==
  ASSUME Serial, AInv, Calm, Calm', FillOK, UndisturbedOK, IdleOK, NEW r \in Reader, Read(r)
  PROVE  UndisturbedOK' /\ IdleOK'
  <1> USE DEF AInv, TInv
  <1>1. ~ReadRefusedUrb(r) /\ ~ReadFail(r)
    BY DEF UndisturbedOK, ReadRefusedUrb, ReadFail
  <1>2. /\ UNCHANGED <<Present, Cancel, canceller, submit, irp, urbr>>
    BY <1>1, CalmStep, NoCrash
       DEF Read, Bus_Read, ReadRefused, ReadRest, ReadPending, ReadWait, ReadStore, ReadStored,
           ReadReturn, irps, urbs
  <1>3. \A q \in Reader : reader'[q].pc \notin {"refused", "refused_partial", "fail"}
    <2>1. CASE ReadStore(r)
      <3>1. \E out : \E pc \in {"stored", "stored_partial"} :
               reader' = [store_urbr(r, reader[r].urbr, out) EXCEPT ![r].pc = pc]
        BY <2>1, CalmStep, NoCrash DEF ReadStore, StoreOutcomes, PartialOutcomes, Serial
      <3>2. /\ \A q \in Reader \ {r} : reader'[q] = reader[q]
            /\ reader'[r].pc \in {"stored", "stored_partial"}
        BY <3>1 DEF store_urbr, ReaderOK, ReaderState
      <3> QED
        BY <3>2 DEF UndisturbedOK
    <2>2. CASE ReadRest(r) \/ ReadPending(r)
      <3>1. \E u : \E pc \in {"store", "store_partial"} :
               reader' = [reader EXCEPT ![r].pc = pc, ![r].urbr = u]
        BY <2>2, CalmStep, NoCrash DEF ReadRest, ReadPending
      <3>2. /\ \A q \in Reader \ {r} : reader'[q] = reader[q]
            /\ reader'[r].pc \in {"store", "store_partial"}
        BY <3>1 DEF ReaderOK, ReaderState
      <3> QED
        BY <3>2 DEF UndisturbedOK
    <2>3. CASE ~ReadStore(r) /\ ~ReadRest(r) /\ ~ReadPending(r)
      <3>1. PICK pc \in {"enter", "idle", "pending", "return"} : ReaderTo(r, pc)
        BY <1>1, <2>3, CalmStep, NoCrash
           DEF Read, Bus_Read, ReadRefused, ReadWait, ReadStored, ReadReturn, Deliver
      <3> QED
        BY <3>1, ReaderToIs DEF UndisturbedOK
    <2> QED
      BY <2>1, <2>2, <2>3
  <1>4. UndisturbedOK'
    BY <1>2, <1>3 DEF UndisturbedOK
  <1>5. CASE ReadWait(r)
    <2>1. /\ Unlocked /\ UNCHANGED <<urbr_sent_partial, head_urbr_pending>>
          /\ urbr_sent_partial = NoUrb /\ head_urbr_pending = <<>>
      BY <1>5 DEF ReadWait, partial, lists
    <2>2. \A u \in Urb : submit[u].pc # "arm_pending"
      BY <2>1, NobodyArms DEF FillOK
    <2> QED
      BY <1>2, <1>4, <2>1, <2>2 DEF IdleOK
  <1>6. CASE ReadPending(r)
    <2>1. UNCHANGED pending_read_irp /\ pending_read_irp = NoRead
      BY <1>6, CalmStep, NoCrash DEF ReadPending, ReadWaits
    <2> QED
      BY <1>4, <2>1 DEF IdleOK
  <1>7. CASE ~ReadWait(r) /\ ~ReadPending(r)
    <2>1. /\ UNCHANGED <<pending_read_irp, head_urbr_pending>>
          /\ urbr_sent_partial' \in {urbr_sent_partial, NoUrb}
      BY <1>1, <1>7, CalmStep, NoCrash
         DEF Read, Bus_Read, ReadRefused, ReadRest, ReadStore, ReadStored, ReadReturn, lists,
             partial
    <2>2. IdleOK'
      BY <1>2, <2>1, IdleFrame
    <2> QED
      BY <1>4, <2>2
  <1> QED
    BY <1>5, <1>6, <1>7

LEMMA WriteIdle ==
  ASSUME Serial, AInv, Calm, Calm', FillOK, UndisturbedOK, IdleOK, NEW n \in SeqNum, Write(n)
  PROVE  UndisturbedOK' /\ IdleOK'
  <1> USE DEF AInv, TInv
  <1>1. UNCHANGED <<Present, Cancel, canceller, submit, reader, pending_read_irp,
                    urbr_sent_partial, head_urbr_pending>>
    BY CalmStep, NoCrash
       DEF Write, Bus_Write, WriteFind, WriteComplete, irps, urbs, lists, partial
  <1>2. UNCHANGED <<irp, urbr>> \/ (WriteComplete(n) /\ CompleteUrb(writer[n].urbr, "replied")
                                    /\ Free(writer[n].urbr))
    BY CalmStep, NoCrash DEF Write, Bus_Write, WriteFind, WriteComplete, irps, urbs
  <1>3. \A u \in Urb : irp'[u] = "rejected" => irp[u] = "rejected" /\ urbr'[u] = urbr[u]
    BY <1>2 DEF CompleteUrb, Free, TypeOK, Calm
  <1>4. \A u \in Urb : urbr[u] = "none" => urbr'[u] = "none"
    <2>1. CASE WriteComplete(n)
      BY <2>1, CalmStep, NoCrash DEF WriteComplete, Live, Free, TypeOK
    <2> QED
      BY <1>2, <2>1
  <1>5. UndisturbedOK'
    BY <1>1, <1>3, <1>4 DEF UndisturbedOK
  <1>6. IdleOK'
    BY <1>1, IdleFrame
  <1> QED
    BY <1>5, <1>6

-----------------------------------------------------------------------------
(* The invariant                                                           *)

LEMMA InitSInv == Serial /\ Init => SInv
  <1> SUFFICES ASSUME Serial, Init PROVE UndisturbedOK /\ IdleOK
    BY InitRInv DEF SInv
  <1>1. IdleOK
    BY DEF Init, IdleOK
  <1>2. UndisturbedOK
    BY DEF Init, UndisturbedOK
  <1> QED
    BY <1>1, <1>2

LEMMA StaysPresent ==
  ASSUME Serial, Next
  PROVE  UNCHANGED Present
  <1>1. CASE Crashes
    BY <1>1 DEF Crashes, Crash
  <1>2. ASSUME ~Crashes, NEW u \in Urb,
               Bus_Internal_IoCtl(u) \/ Submit(u) \/ IoCancelIrp(u) \/ CancelRoutine(u)
        PROVE  UNCHANGED Present
    BY <1>2, NoCrash
       DEF Bus_Internal_IoCtl, Submit, SubmitPending, SubmitDirect, SubmitStore, SubmitRefused,
           SubmitArmSent, SubmitPartial, SubmitCancelled, SubmitInsert, SubmitCompleteRead,
           SubmitReturn, IoCancelIrp, CancelRoutine, remove_cancelled_urbr, cancel_urbr
  <1>3. ASSUME ~Crashes, NEW r \in Reader, Read(r)
        PROVE  UNCHANGED Present
    BY <1>3, NoCrash
       DEF Read, Bus_Read, ReadRefused, ReadRest, ReadPending, ReadWait, ReadStore, ReadStored,
           ReadRefusedUrb, ReadFail, ReadReturn
  <1>4. ASSUME ~Crashes, NEW n \in SeqNum, Write(n)
        PROVE  UNCHANGED Present
    BY <1>4, NoCrash DEF Write, Bus_Write, WriteFind, WriteComplete
  <1>5. ASSUME ~Crashes, Unplug
        PROVE  UNCHANGED Present
    BY <1>5, NoCrash DEF Unplug, complete_pending_read_irp, UnplugEndRead, UnplugTake,
                         UnplugEndUrb, UnplugReset
  <1>6. ~bus_unplug_dev
    BY DEF Serial, bus_unplug_dev
  <1> QED
    BY <1>1, <1>2, <1>3, <1>4, <1>5, <1>6 DEF Next

LEMMA NextSInv == Serial /\ SInv /\ [Next]_vars => SInv'
  <1> SUFFICES ASSUME Serial, SInv, [Next]_vars PROVE SInv'
    OBVIOUS
  <1>1. RInv'
    BY NextRace DEF SInv
  <1>2. ~Raced /\ AInv /\ Calm /\ FillOK /\ RaceOK
    BY Undisturbed DEF SInv
  <1>3. CASE UNCHANGED vars
    <2>1. UNCHANGED <<Present, Cancel, canceller, submit, reader, irp, urbr, pending_read_irp,
                      urbr_sent_partial, head_urbr_pending>>
      BY <1>3 DEF vars, threads, irps, urbs, partial, lists
    <2> QED
      BY <1>1, <2>1 DEF SInv, UndisturbedOK, IdleOK, SomeTakes
  <1>4. CASE Next
    <2>1. fault' = "none" => Calm'
      BY <1>2, <1>4, StaysPresent DEF Calm
    <2>2. ASSUME NEW u \in Urb, Bus_Internal_IoCtl(u) \/ Submit(u)
          PROVE  UndisturbedOK' /\ IdleOK'
      BY <1>2, <2>1, <2>2, NoFaultSubmit, SubmitIdle DEF SInv
    <2>3. ASSUME NEW r \in Reader, Read(r)
          PROVE  UndisturbedOK' /\ IdleOK'
      BY <1>2, <2>1, <2>3, NoFaultRead, ReadIdle DEF SInv
    <2>4. ASSUME NEW n \in SeqNum, Write(n)
          PROVE  UndisturbedOK' /\ IdleOK'
      BY <1>2, <2>1, <2>4, NoFaultWrite, WriteIdle DEF SInv
    <2>5. ~bus_unplug_dev /\ ~Unplug
      BY <1>2 DEF Serial, FillOK, ReadsOK, Unplug, bus_unplug_dev, complete_pending_read_irp,
                  UnplugEndRead, UnplugTake, UnplugEndUrb, UnplugReset
    <2>6. \A u \in Urb : ~IoCancelIrp(u) /\ ~CancelRoutine(u)
      BY DEF Serial, SInv, UndisturbedOK, IoCancelIrp, CancelRoutine, remove_cancelled_urbr,
             cancel_urbr
    <2> QED
      BY <1>1, <1>4, <2>2, <2>3, <2>4, <2>5, <2>6 DEF Next, SInv
  <1> QED
    BY <1>3, <1>4

LEMMA SInvHolds ==
  ASSUME Serial
  PROVE  Spec => []SInv
  <1>1. Init => SInv
    BY InitSInv
  <1>2. SInv /\ [Next]_vars => SInv'
    BY NextSInv
  <1> QED
    BY <1>1, <1>2, PTL DEF Spec

(* Nothing being cancelled, refused, unplugged or overlapped, a read waits *)
(* only when no request does, except while a submitter that has taken the  *)
(* read is at work (device.h:94).                                          *)
THEOREM WaitsOnlyWhenIdle ==
  ASSUME Serial
  PROVE  Spec => []WaitOnlyWhenIdle
  <1>1. SInv => WaitOnlyWhenIdle
    <2>1. Taking \subseteq Submitting \ {"enter"}
      BY DEF Taking, Filling, Submitting
    <2> QED
      BY <2>1 DEF SInv, IdleOK, SomeTakes, WaitOnlyWhenIdle
  <1>2. Spec => []SInv
    BY SInvHolds
  <1> QED
    BY <1>1, <1>2, PTL

LEMMA StepNumbersInOrder ==
  ASSUME Serial, SInv, [Next]_vars, NEW u \in Urb, urbr_seq'[u] # urbr_seq[u]
  PROVE  head_urbr_pending = <<>> \/ Head(head_urbr_pending) = u
  <1>1. ~Raced /\ AInv /\ Calm /\ FillOK /\ RaceOK
    BY Undisturbed DEF SInv
  <1> USE DEF AInv, TInv
  <1>2. Next /\ ~UNCHANGED urbr_seq
    BY DEF vars, urbs
  <1>3. CASE \E v \in Urb : SubmitDirect(v)
    <2>1. /\ Unlocked /\ urbr_sent_partial = NoUrb /\ pending_read_irp # NoRead
      BY <1>3 DEF SubmitDirect, MustQueue
    <2>2. ~SomeTakes
      BY <1>1, <2>1, TakenFills
    <2> QED
      BY <2>1, <2>2 DEF SInv, IdleOK
  <1>4. CASE \E r \in Reader : ReadPending(r)
    <2> DEFINE v == Head(head_urbr_pending)
    <2>1. Number(v) /\ head_urbr_pending \in Seq(Urb) /\ head_urbr_pending # <<>>
      BY <1>1, <1>2, <1>4, NoCrash DEF ReadPending, Crash, urbs, TypeOK
    <2>2. v \in Urb
      BY <2>1
    <2> HIDE DEF v
    <2>3. \A w \in Urb \ {v} : urbr_seq'[w] = urbr_seq[w]
      BY <1>1, <2>1, <2>2, NumberIsNew
    <2> QED
      BY <2>3 DEF v
  <1>5. CASE ~(\E v \in Urb : SubmitDirect(v)) /\ ~(\E r \in Reader : ReadPending(r))
    <2>1. CASE Crashes
      BY <1>2, <2>1 DEF Crashes, Crash, urbs
    <2>2. ASSUME ~Crashes, NEW v \in Urb,
                 Bus_Internal_IoCtl(v) \/ Submit(v) \/ IoCancelIrp(v) \/ CancelRoutine(v)
          PROVE  UNCHANGED urbr_seq
      BY <1>5, <2>2, NoCrash
         DEF Bus_Internal_IoCtl, Submit, SubmitPending, SubmitStore, SubmitRefused,
             SubmitArmSent, SubmitPartial, SubmitCancelled, SubmitInsert, SubmitCompleteRead,
             SubmitReturn, IoCancelIrp, CancelRoutine, remove_cancelled_urbr, cancel_urbr, urbs
    <2>3. ASSUME ~Crashes, NEW r \in Reader, Read(r)
          PROVE  UNCHANGED urbr_seq
      BY <1>5, <2>3, NoCrash
         DEF Read, Bus_Read, ReadRefused, ReadRest, ReadWait, ReadStore, ReadStored,
             ReadRefusedUrb, ReadFail, ReadReturn, urbs
    <2>4. ASSUME ~Crashes, (\E n \in SeqNum : Write(n)) \/ bus_unplug_dev \/ Unplug
          PROVE  UNCHANGED urbr_seq
      BY <2>4, NoCrash
         DEF Write, Bus_Write, WriteFind, WriteComplete, bus_unplug_dev, Unplug,
             complete_pending_read_irp, UnplugEndRead, UnplugTake, UnplugEndUrb, UnplugReset,
             urbs
    <2> QED
      BY <1>2, <2>1, <2>2, <2>3, <2>4 DEF Next
  <1> QED
    BY <1>3, <1>4, <1>5

(* Under the same assumption the request that takes the next number is the *)
(* oldest that waits: none overtakes the queue through a waiting read      *)
(* (usbreq.c:169-185, vhci_read.c:600-608).                                *)
THEOREM NumbersInOrder ==
  ASSUME Serial
  PROVE  Spec => NumberedInOrder
  <1>1. SInv /\ [Next]_vars =>
           [\A u \in Urb : urbr_seq'[u] # urbr_seq[u] =>
               head_urbr_pending = <<>> \/ Head(head_urbr_pending) = u]_vars
    BY StepNumbersInOrder
  <1>2. Spec => []SInv
    BY SInvHolds
  <1> QED
    BY <1>1, <1>2, PTL DEF Spec, NumberedInOrder

-----------------------------------------------------------------------------
(* The service                                                             *)

(* The program reads with one thread (of two, the one that is processed    *)
(* may overtake one that a submitter has filled and not yet completed).    *)
OneReader == \A r, q \in Reader : r = q

-----------------------------------------------------------------------------
(* Flattening a sequence of sequences                                      *)

(* A set of numbers that is not empty has a least element.                 *)
LEMMA LeastNumber ==
  ASSUME NEW T, T \subseteq Nat, T # {}
  PROVE  \E n \in T : \A m \in T : n <= m
  <1> DEFINE Below == {s \in FiniteSubsetsOf(Nat) : \E n \in T : s = 0 .. n}
             R == StrictSubsetOrdering(Nat)
  <1>1. \A n \in T : 0 .. n \in Below
    <2> SUFFICES ASSUME NEW n \in T PROVE 0 .. n \in FiniteSubsetsOf(Nat)
      OBVIOUS
    <2>1. IsFiniteSet(0 .. n)
      BY FS_Interval
    <2> QED
      BY <2>1 DEF FiniteSubsetsOf
  <1>2. Below \subseteq FiniteSubsetsOf(Nat) /\ Below # {}
    BY <1>1
  <1> HIDE DEF Below, R
  <1>3. PICK s \in Below : \A t \in Below : ~ (<<t, s>> \in R)
    BY <1>2, FS_StrictSubsetOrderingWellFounded, WFMin DEF R
  <1>4. PICK n \in T : s = 0 .. n
    BY <1>3 DEF Below
  <1>5. ASSUME NEW m \in T, m < n PROVE FALSE
    <2>1. 0 .. m \subseteq 0 .. n /\ 0 .. m # 0 .. n /\ 0 .. m \in SUBSET Nat /\ 0 .. n \in SUBSET Nat
      <3>1. m \in Nat /\ n \in Nat
        OBVIOUS
      <3>2. n \in 0 .. n /\ n \notin 0 .. m
        BY <1>5, <3>1
      <3> QED
        BY <1>5, <3>1, <3>2
    <2>2. <<0 .. m, 0 .. n>> \in R
      BY <2>1 DEF R, StrictSubsetOrdering
    <2> QED
      BY <1>1, <1>3, <1>4, <2>2
  <1> QED
    BY <1>5

(* The function by which FlattenSeq is defined.                            *)
Flattens(f, list, n) ==
    f = [i \in 1 .. n |-> IF i = 1 THEN list[i] ELSE f[i - 1] \o list[i]]

LEMMA FlattenExists ==
  ASSUME NEW S, NEW list \in Seq(Seq(S)), NEW n \in 0 .. Len(list)
  PROVE  \E f \in [1 .. n -> Seq(S)] : Flattens(f, list, n)
  <1> DEFINE Bad == {m \in 0 .. Len(list) :
                       ~ \E f \in [1 .. m -> Seq(S)] : Flattens(f, list, m)}
  <1> SUFFICES ASSUME n \in Bad PROVE FALSE
    OBVIOUS
  <1>1. Len(list) \in Nat /\ \A i \in 1 .. Len(list) : list[i] \in Seq(S)
    OBVIOUS
  <1>2. PICK m \in Bad : \A k \in Bad : m <= k
    <2>1. Bad \subseteq 0 .. Len(list)
      BY Zenon
    <2>2. Bad # {}
      BY Zenon
    <2> HIDE DEF Bad
    <2>3. Bad \subseteq Nat
      BY <1>1, <2>1
    <2> QED
      BY <2>2, <2>3, LeastNumber
  <1>3. m # 0
    <2>1. Flattens([i \in 1 .. 0 |-> <<>>], list, 0) /\ [i \in 1 .. 0 |-> <<>>] \in [1 .. 0 -> Seq(S)]
      BY DEF Flattens
    <2> QED
      BY <2>1
  <1>4. m \in 1 .. Len(list) /\ m - 1 \in 0 .. Len(list) /\ m - 1 \notin Bad
    <2>1. m \in 0 .. Len(list)
      BY <1>2, Zenon
    <2> HIDE DEF Bad
    <2> QED
      BY <1>1, <1>2, <1>3, <2>1
  <1>5. PICK g \in [1 .. m - 1 -> Seq(S)] : Flattens(g, list, m - 1)
    BY <1>4
  <1> DEFINE f == [i \in 1 .. m |-> IF i = 1 THEN list[i] ELSE g[i - 1] \o list[i]]
  <1>6. \A i \in 1 .. m - 1 : f[i] = g[i]
    <2> SUFFICES ASSUME NEW i \in 1 .. m - 1 PROVE f[i] = g[i]
      OBVIOUS
    <2>1. g[i] = IF i = 1 THEN list[i] ELSE g[i - 1] \o list[i]
      BY <1>5, Zenon DEF Flattens
    <2>2. i \in 1 .. m
      BY <1>4
    <2> QED
      BY <2>1, <2>2
  <1>7. f = [i \in 1 .. m |-> IF i = 1 THEN list[i] ELSE f[i - 1] \o list[i]]
    <2> SUFFICES ASSUME NEW i \in 1 .. m, i # 1 PROVE g[i - 1] = f[i - 1]
      OBVIOUS
    <2>1. i - 1 \in 1 .. m - 1
      BY <1>4
    <2> QED
      BY <1>6, <2>1, Zenon
  <1>8. f \in [1 .. m -> Seq(S)]
    <2> SUFFICES ASSUME NEW i \in 1 .. m
                 PROVE  (IF i = 1 THEN list[i] ELSE g[i - 1] \o list[i]) \in Seq(S)
      OBVIOUS
    <2>1. list[i] \in Seq(S)
      BY <1>1, <1>4
    <2>2. CASE i # 1
      <3>1. g[i - 1] \in Seq(S)
        BY <1>4, <2>2
      <3> QED
        BY <2>1, <2>2, <3>1, ConcatProperties
    <2> QED
      BY <2>1, <2>2
  <1> HIDE DEF f
  <1> QED
    BY <1>2, <1>7, <1>8 DEF Flattens

(* Two lists that agree on the first places.                               *)
SameTo(f, g, n) == \A i \in 1 .. n : f[i] = g[i]

LEMMA FlattenAgrees ==
  ASSUME NEW f, NEW g, NEW k, NEW l, NEW n \in Nat, NEW m \in Nat, n <= m,
         Flattens(f, k, n), Flattens(g, l, m), SameTo(k, l, n)
  PROVE  SameTo(f, g, n)
  <1> USE DEF SameTo
  <1> DEFINE Bad == {i \in 1 .. n : f[i] # g[i]}
  <1> SUFFICES ASSUME Bad # {} PROVE FALSE
    OBVIOUS
  <1>1. PICK i \in Bad : \A j \in Bad : i <= j
    <2>1. Bad \subseteq Nat
      OBVIOUS
    <2> HIDE DEF Bad
    <2> QED
      BY <2>1, LeastNumber
  <1>2. /\ f[i] = IF i = 1 THEN k[i] ELSE f[i - 1] \o k[i]
        /\ g[i] = IF i = 1 THEN l[i] ELSE g[i - 1] \o l[i]
    <2>1. i \in 1 .. n /\ i \in 1 .. m
      BY <1>1
    <2>2. f[i] = IF i = 1 THEN k[i] ELSE f[i - 1] \o k[i]
      BY <2>1, Zenon DEF Flattens
    <2>3. g[i] = IF i = 1 THEN l[i] ELSE g[i - 1] \o l[i]
      BY <2>1, Zenon DEF Flattens
    <2> QED
      BY <2>2, <2>3
  <1>3. k[i] = l[i]
    OBVIOUS
  <1>4. i # 1 => f[i - 1] = g[i - 1]
    BY <1>1
  <1> QED
    BY <1>1, <1>2, <1>3, <1>4

LEMMA FlattenIs ==
  ASSUME NEW S, NEW list \in Seq(Seq(S)), Len(list) # 0
  PROVE  \E f \in [1 .. Len(list) -> Seq(S)] :
            Flattens(f, list, Len(list)) /\ FlattenSeq(list) = f[Len(list)]
  <1> DEFINE g == CHOOSE f : f = [i \in 1 .. Len(list) |->
                                    IF i = 1 THEN list[i] ELSE f[i - 1] \o list[i]]
  <1>1. PICK f \in [1 .. Len(list) -> Seq(S)] : Flattens(f, list, Len(list))
    BY FlattenExists
  <1>2. Flattens(g, list, Len(list))
    BY <1>1, Zenon DEF Flattens
  <1>3. FlattenSeq(list) = g[Len(list)]
    BY Zenon DEF FlattenSeq
  <1>4. \A i \in 1 .. Len(list) : f[i] = g[i]
    <2>1. SameTo(list, list, Len(list))
      BY DEF SameTo
    <2> HIDE DEF g
    <2>2. Len(list) \in Nat /\ Len(list) <= Len(list)
      BY LenProperties
    <2>3. SameTo(f, g, Len(list))
      BY <1>1, <1>2, <2>1, <2>2, FlattenAgrees
    <2> QED
      BY <2>3 DEF SameTo
  <1> HIDE DEF g
  <1>5. Len(list) \in 1 .. Len(list)
    OBVIOUS
  <1>6. f[Len(list)] = g[Len(list)]
    BY <1>4, <1>5, Zenon
  <1> QED
    BY <1>1, <1>3, <1>6, Zenon

LEMMA FlattenTyped ==
  ASSUME NEW S, NEW list \in Seq(Seq(S))
  PROVE  FlattenSeq(list) \in Seq(S)
  <1>1. CASE Len(list) = 0
    <2>1. FlattenSeq(list) = <<>>
      BY <1>1, EmptySeq DEF FlattenSeq
    <2> QED
      BY <2>1
  <1>2. CASE Len(list) # 0
    <2>1. Len(list) \in 1 .. Len(list)
      BY <1>2
    <2>2. PICK f \in [1 .. Len(list) -> Seq(S)] : FlattenSeq(list) = f[Len(list)]
      BY <1>2, FlattenIs
    <2> QED
      BY <2>1, <2>2, Zenon
  <1> QED
    BY <1>1, <1>2

(* One more sequence at the end lengthens the flattened one by its         *)
(* elements.                                                               *)
LEMMA FlattenAppend ==
  ASSUME NEW S, NEW list \in Seq(Seq(S)), NEW s \in Seq(S)
  PROVE  FlattenSeq(Append(list, s)) = FlattenSeq(list) \o s
  <1> DEFINE n == Len(list)
             more == Append(list, s)
  <1>1. /\ n \in Nat
        /\ more \in Seq(Seq(S)) /\ Len(more) = n + 1
        /\ \A i \in 1 .. n : list[i] = more[i]
        /\ more[n + 1] = s
    BY AppendProperties, LenProperties
  <1> HIDE DEF more
  <1>2. PICK g \in [1 .. n + 1 -> Seq(S)] :
           Flattens(g, more, n + 1) /\ FlattenSeq(more) = g[n + 1]
    <2>1. Len(more) # 0
      BY <1>1
    <2>2. \E g \in [1 .. Len(more) -> Seq(S)] :
             Flattens(g, more, Len(more)) /\ FlattenSeq(more) = g[Len(more)]
      BY <1>1, <2>1, FlattenIs
    <2> QED
      BY <1>1, <2>2, Zenon
  <1>3. g[n + 1] = IF n + 1 = 1 THEN more[n + 1] ELSE g[(n + 1) - 1] \o more[n + 1]
    <2>1. n + 1 \in 1 .. n + 1
      BY <1>1
    <2> QED
      BY <1>2, <2>1, Zenon DEF Flattens
  <1>4. CASE n = 0
    <2>1. FlattenSeq(list) = <<>>
      BY <1>4, EmptySeq DEF FlattenSeq
    <2>2. FlattenSeq(more) = s
      BY <1>1, <1>2, <1>3, <1>4
    <2>3. <<>> \o s = s
      BY ConcatEmptySeq
    <2> QED
      BY <2>1, <2>2, <2>3 DEF more
  <1>5. CASE n # 0
    <2>1. PICK f \in [1 .. n -> Seq(S)] : Flattens(f, list, n) /\ FlattenSeq(list) = f[n]
      BY <1>5, FlattenIs
    <2>2. \A i \in 1 .. n : f[i] = g[i]
      <3> HIDE DEF n
      <3>1. n \in Nat /\ n + 1 \in Nat /\ n <= n + 1
        BY <1>1
      <3>2. Flattens(f, list, n) /\ Flattens(g, more, n + 1)
        BY <1>2, <2>1
      <3>3. SameTo(list, more, n)
        BY <1>1 DEF SameTo
      <3>4. SameTo(f, g, n)
        BY <3>1, <3>2, <3>3, FlattenAgrees
      <3> QED
        BY <3>4 DEF SameTo
    <2>3. n \in 1 .. n
      BY <1>1, <1>5
    <2>4. f[n] = g[n]
      BY <2>2, <2>3, Zenon
    <2>5. g[n + 1] = g[n] \o s
      <3>1. n + 1 # 1 /\ (n + 1) - 1 = n
        BY <1>1, <1>5
      <3> QED
        BY <1>1, <1>3, <3>1, Zenon
    <2> QED
      BY <1>2, <2>1, <2>4, <2>5 DEF more
  <1> QED
    BY <1>4, <1>5

-----------------------------------------------------------------------------
(* What the program has received                                           *)

Carrying == {"store", "stored", "arm_sent", "complete_read"}
Resting  == {"idle", "enter", "pending"}

(* the request that was given a number, and the pieces it is sent in       *)
Owner(n) == CHOOSE u \in Urb : urbr_seq[u] = n

Piece(n, part) == [seq |-> n, part |-> part]

Pieces(n) == IF Owner(n) \in Oversize THEN <<Piece(n, "header"), Piece(n, "data")>>
             ELSE <<Piece(n, "whole")>>

Upto(n) == FlattenSeq([k \in 1 .. n |-> Pieces(k)])

(* Everything before the request numbered last has been received; that and *)
(* its header; that and all of it.                                         *)
Before  == wire = Upto(seq_num - 1)
Headed  == wire = Append(Upto(seq_num - 1), Piece(seq_num, "header"))
Through == wire = Upto(seq_num)

Newest(u) == u \in Urb /\ urbr_seq[u] = seq_num /\ seq_num # 0

FirstPart(u) == IF u \in Oversize THEN "header" ELSE "whole"

(* A piece is the one that comes next in the stream.                       *)
NextPiece(m) ==
    \E u \in Urb :
        /\ Newest(u)
        /\ \/ m = Piece(seq_num, FirstPart(u)) /\ Before
           \/ m = Piece(seq_num, "data") /\ u \in Oversize /\ Headed

NumbersUsed == \A n \in 1 .. seq_num : \E u \in Urb : urbr_seq[u] = n

(* A submitter that transfers its request                                  *)
CarryOK ==
    \A u \in Urb : submit[u].pc \in Carrying =>
        /\ Newest(u) /\ Before
        /\ submit[u].pc # "store" => Buf(u) = Piece(seq_num, FirstPart(u))
        /\ submit[u].pc = "stored" => (len_sent_partial # 0 <=> u \in Oversize)
        /\ submit[u].pc = "arm_sent" => u \notin Oversize
        /\ submit[u].pc = "complete_read" =>
              urbr_sent_partial = IF u \in Oversize THEN u ELSE NoUrb

(* A read that fetches a request, the rest of one, and that returns        *)
FetchOK ==
    \A r \in Reader : reader[r].pc \in {"store", "stored"} =>
        /\ Newest(reader[r].urbr) /\ Before
        /\ reader[r].urbr = urbr_sent_partial
        /\ reader[r].pc = "stored" =>
              /\ reader[r].buf = Piece(seq_num, FirstPart(reader[r].urbr))
              /\ len_sent_partial # 0 <=> reader[r].urbr \in Oversize

RestOK ==
    \A r \in Reader : reader[r].pc \in {"store_partial", "stored_partial"} =>
        /\ Newest(reader[r].urbr) /\ reader[r].urbr \in Oversize /\ Headed
        /\ reader[r].pc = "stored_partial" => reader[r].buf = Piece(seq_num, "data")

ReturnOK ==
    \A r \in Reader : reader[r].pc = "return" =>
        /\ NextPiece(reader[r].buf)
        /\ IF reader[r].buf.part = "header" THEN Newest(urbr_sent_partial)
           ELSE urbr_sent_partial = NoUrb

(* Nothing is in transfer, or the data that follows a header waits.        *)
Quiet ==
    /\ \A u \in Urb : submit[u].pc \notin Carrying
    /\ \A r \in Reader : reader[r].pc \in Resting

QuietOK ==
    Quiet => IF urbr_sent_partial = NoUrb THEN Through
             ELSE Newest(urbr_sent_partial) /\ urbr_sent_partial \in Oversize /\ Headed

PiecesOK ==
    \A i \in 1 .. Len(wire) :
        /\ wire[i].seq \in 1 .. seq_num
        /\ wire[i].part = "whole" <=> Owner(wire[i].seq) \notin Oversize

TransferOK == CarryOK /\ FetchOK /\ RestOK /\ ReturnOK /\ QuietOK

StreamOK == NumbersUsed /\ TransferOK /\ PiecesOK /\ WireFraming

-----------------------------------------------------------------------------
(* The stream of all commands                                              *)

LEMMA PiecesTyped ==
  ASSUME NEW n \in Nat
  PROVE  Pieces(n) \in Seq(Message)
  <1>1. \A part \in {"whole", "header", "data"} : Piece(n, part) \in Message
    BY DEF Piece, Message
  <1>2. \A p \in Message, q \in Message : <<p>> \in Seq(Message) /\ <<p, q>> \in Seq(Message)
    OBVIOUS
  <1> QED
    BY <1>1, <1>2 DEF Pieces

LEMMA UptoZero == Upto(0) = <<>>
  <1>1. [k \in 1 .. 0 |-> Pieces(k)] = <<>>
    OBVIOUS
  <1> QED
    BY <1>1 DEF Upto, FlattenSeq

LEMMA UptoTyped ==
  ASSUME NEW n \in Nat
  PROVE  Upto(n) \in Seq(Message)
  <1>1. [k \in 1 .. n |-> Pieces(k)] \in Seq(Seq(Message))
    <2>1. \A k \in 1 .. n : Pieces(k) \in Seq(Message)
      BY PiecesTyped
    <2> QED
      BY <2>1, SeqDef
  <1> QED
    BY <1>1, FlattenTyped DEF Upto

LEMMA UptoNext ==
  ASSUME NEW n \in Nat \ {0}
  PROVE  Upto(n) = Upto(n - 1) \o Pieces(n)
  <1> DEFINE list == [k \in 1 .. n - 1 |-> Pieces(k)]
             more == [k \in 1 .. n |-> Pieces(k)]
  <1>1. Pieces(n) \in Seq(Message) /\ \A k \in 1 .. n - 1 : Pieces(k) \in Seq(Message)
    BY PiecesTyped
  <1>2. list \in Seq(Seq(Message))
    BY <1>1, SeqDef
  <1>3. Append(list, Pieces(n)) = more
    <2>1. Len(list) = n - 1
      OBVIOUS
    <2>2. Append(list, Pieces(n)) = [k \in 1 .. n - 1 + 1 |->
                                       IF k <= n - 1 THEN list[k] ELSE Pieces(n)]
      BY <2>1
    <2> QED
      BY <2>2
  <1> HIDE DEF list, more
  <1>4. FlattenSeq(Append(list, Pieces(n))) = FlattenSeq(list) \o Pieces(n)
    BY <1>1, <1>2, FlattenAppend
  <1> QED
    BY <1>3, <1>4 DEF Upto, list, more

LEMMA UptoGrows ==
  ASSUME NEW n \in Nat \ {0}
  PROVE  /\ Upto(n - 1) \in Seq(Message)
         /\ Owner(n) \notin Oversize => Upto(n) = Append(Upto(n - 1), Piece(n, "whole"))
         /\ Owner(n) \in Oversize =>
               Upto(n) = Append(Append(Upto(n - 1), Piece(n, "header")), Piece(n, "data"))
  <1> DEFINE s == Upto(n - 1)
  <1>1. s \in Seq(Message)
    BY UptoTyped
  <1>2. Upto(n) = s \o Pieces(n)
    BY UptoNext
  <1> HIDE DEF s
  <1>3. \A p \in Message, q \in Message : s \o <<p>> = Append(s, p)
                                          /\ s \o <<p, q>> = Append(Append(s, p), q)
    BY <1>1
  <1>4. \A part \in {"whole", "header", "data"} : Piece(n, part) \in Message
    BY DEF Piece, Message
  <1> QED
    BY <1>1, <1>2, <1>3, <1>4 DEF Pieces, s

(* The owner of a number is the request that carries it, and keeps it when *)
(* a request without a number gets the next one.                           *)
LEMMA OwnerIs ==
  ASSUME NumberOK, NEW u \in Urb, urbr_seq[u] # 0
  PROVE  Owner(urbr_seq[u]) = u
  <1>1. \A v \in Urb : urbr_seq[v] = urbr_seq[u] => v = u
    BY DEF NumberOK
  <1> QED
    BY <1>1 DEF Owner

LEMMA OwnerKept ==
  ASSUME TInv, TInv', NumberOK, NumberOK', NumbersUsed, NEW u \in Urb, Number(u), urbr_seq[u] = 0
  PROVE  /\ \A n \in 1 .. seq_num : Owner(n)' = Owner(n)
         /\ NumbersUsed' /\ Newest(u)' /\ seq_num' - 1 = seq_num
         /\ \A n \in 0 .. seq_num : Upto(n)' = Upto(n)
  <1>1. /\ seq_num \in Nat /\ seq_num' = seq_num + 1
        /\ \A v \in Urb : urbr_seq'[v] = IF v = u THEN seq_num + 1 ELSE urbr_seq[v]
    BY NumberIsNew DEF TInv, TypeOK, Number
  <1>2. ASSUME NEW n \in 1 .. seq_num PROVE Owner(n)' = Owner(n)
    <2>1. PICK v \in Urb : urbr_seq[v] = n
      BY DEF NumbersUsed
    <2>2. Owner(n) = v
      BY <2>1, OwnerIs
    <2>3. urbr_seq'[v] = n /\ n # 0
      BY <1>1, <2>1
    <2>4. Owner(n)' = v
      <3>1. \A w \in Urb : urbr_seq'[w] = urbr_seq'[v] => w = v
        BY <2>3 DEF NumberOK
      <3> QED
        BY <2>3, <3>1 DEF Owner
    <2> QED
      BY <2>2, <2>4
  <1>3. NumbersUsed'
    <2>1. \A n \in 1 .. seq_num + 1 : \E v \in Urb : urbr_seq'[v] = n
      <3> SUFFICES ASSUME NEW n \in 1 .. seq_num + 1 PROVE \E v \in Urb : urbr_seq'[v] = n
        OBVIOUS
      <3>1. CASE n = seq_num + 1
        BY <1>1, <3>1
      <3>2. CASE n # seq_num + 1
        <4>1. n \in 1 .. seq_num /\ n # 0
          BY <1>1, <3>2
        <4>2. PICK v \in Urb : urbr_seq[v] = n
          BY <4>1 DEF NumbersUsed
        <4> QED
          BY <1>1, <4>1, <4>2
      <3> QED
        BY <3>1, <3>2
    <2> QED
      BY <1>1, <2>1 DEF NumbersUsed
  <1>4. Newest(u)' /\ seq_num' - 1 = seq_num
    BY <1>1 DEF Newest
  <1>5. ASSUME NEW n \in 0 .. seq_num PROVE Upto(n)' = Upto(n)
    <2>1. \A k \in 1 .. n : Pieces(k)' = Pieces(k)
      BY <1>1, <1>2 DEF Pieces, Piece
    <2> QED
      BY <2>1 DEF Upto
  <1> QED
    BY <1>2, <1>3, <1>4, <1>5

(* What the stream is made of does not change while no number is given.    *)
LEMMA StreamKept ==
  ASSUME UNCHANGED <<urbr_seq, seq_num>>
  PROVE  /\ \A n : Owner(n)' = Owner(n) /\ Upto(n)' = Upto(n)
         /\ NumbersUsed => NumbersUsed'
         /\ \A u : Newest(u)' <=> Newest(u)
  BY DEF Owner, Upto, Pieces, Piece, NumbersUsed, Newest

(* The last piece of a command that was received whole.                    *)
LEMMA UptoEnds ==
  ASSUME NEW n \in Nat \ {0}
  PROVE  /\ Len(Upto(n)) \in Nat \ {0}
         /\ Upto(n)[Len(Upto(n))] = Piece(n, IF Owner(n) \in Oversize THEN "data" ELSE "whole")
  <1> DEFINE s == Upto(n - 1)
  <1>1. /\ s \in Seq(Message)
        /\ Owner(n) \notin Oversize => Upto(n) = Append(s, Piece(n, "whole"))
        /\ Owner(n) \in Oversize =>
               Upto(n) = Append(Append(s, Piece(n, "header")), Piece(n, "data"))
    BY UptoGrows
  <1>2. \A part \in {"whole", "header", "data"} : Piece(n, part) \in Message
    BY DEF Piece, Message
  <1> HIDE DEF s
  <1>3. \A t \in Seq(Message), p \in Message :
           /\ Append(t, p) \in Seq(Message)
           /\ Len(Append(t, p)) = Len(t) + 1 /\ Len(t) \in Nat
           /\ Append(t, p)[Len(t) + 1] = p
    BY AppendProperties, LenProperties
  <1>4. CASE Owner(n) \in Oversize
    BY <1>1, <1>2, <1>3, <1>4
  <1>5. CASE Owner(n) \notin Oversize
    BY <1>1, <1>2, <1>3, <1>5
  <1> QED
    BY <1>4, <1>5

-----------------------------------------------------------------------------
(* Delivering the next piece                                               *)

LEMMA PieceTyped ==
  ASSUME TInv, NEW m, NextPiece(m)
  PROVE  /\ seq_num \in Nat \ {0} /\ m \in Message /\ m.seq = seq_num
         /\ \E u \in Urb : Newest(u) /\ (m.part = "whole" <=> u \notin Oversize)
  <1>1. seq_num \in Nat
    BY DEF TInv, TypeOK
  <1>2. PICK u \in Urb :
          /\ Newest(u)
          /\ \/ m = Piece(seq_num, FirstPart(u)) /\ Before
             \/ m = Piece(seq_num, "data") /\ u \in Oversize /\ Headed
    BY DEF NextPiece
  <1>3. seq_num # 0
    BY <1>2 DEF Newest
  <1>4. m.seq = seq_num /\ (m.part = "whole" <=> u \notin Oversize)
    BY <1>2 DEF Piece, FirstPart
  <1>5. m \in Message
    BY <1>1, <1>2 DEF Piece, FirstPart, Message
  <1> QED
    BY <1>1, <1>2, <1>3, <1>4, <1>5

LEMMA PieceIsNext ==
  ASSUME TInv, NumberOK, NEW m, NextPiece(m)
  PROVE  /\ Len(wire) < Len(Upto(seq_num))
         /\ m = Upto(seq_num)[Len(wire) + 1]
         /\ m.part = "header" =>
               Append(wire, m) = Append(Upto(seq_num - 1), Piece(seq_num, "header"))
         /\ m.part # "header" => Append(wire, m) = Upto(seq_num)
  <1>1. /\ seq_num \in Nat \ {0} /\ wire \in Seq(Message)
    BY PieceTyped DEF TInv, TypeOK
  <1>2. PICK u \in Urb :
          /\ Newest(u)
          /\ \/ m = Piece(seq_num, FirstPart(u)) /\ Before
             \/ m = Piece(seq_num, "data") /\ u \in Oversize /\ Headed
    BY DEF NextPiece
  <1>3. Owner(seq_num) = u
    BY <1>2, OwnerIs DEF Newest
  <1> DEFINE s == Upto(seq_num - 1)
             h == Piece(seq_num, "header")
             d == Piece(seq_num, "data")
             w == Piece(seq_num, "whole")
  <1>4. /\ s \in Seq(Message)
        /\ u \notin Oversize => Upto(seq_num) = Append(s, w)
        /\ u \in Oversize => Upto(seq_num) = Append(Append(s, h), d)
    BY <1>1, <1>3, UptoGrows
  <1>5. h \in Message /\ d \in Message /\ w \in Message
    BY <1>1 DEF Piece, Message
  <1>6. h.part = "header" /\ d.part = "data" /\ w.part = "whole"
    BY DEF Piece
  <1>7. /\ u \in Oversize => (m = h /\ wire = s) \/ (m = d /\ wire = Append(s, h))
        /\ u \notin Oversize => m = w /\ wire = s
    BY <1>2 DEF Before, Headed, FirstPart
  <1> HIDE DEF s, h, d, w
  <1>8. \A t \in Seq(Message), p \in Message :
           /\ Append(t, p) \in Seq(Message)
           /\ Len(Append(t, p)) = Len(t) + 1 /\ Len(t) \in Nat
           /\ \A i \in 1 .. Len(t) : Append(t, p)[i] = t[i]
           /\ Append(t, p)[Len(t) + 1] = p
    BY AppendProperties, LenProperties
  <1>9. CASE u \notin Oversize
    <2>1. m = w /\ wire = s /\ Upto(seq_num) = Append(s, w)
      BY <1>4, <1>7, <1>9
    <2>2. Len(s) < Len(Append(s, w)) /\ Append(s, w)[Len(s) + 1] = w
      BY <1>4, <1>5, <1>8
    <2> QED
      BY <1>6, <2>1, <2>2
  <1>10. CASE u \in Oversize
    <2>1. Upto(seq_num) = Append(Append(s, h), d)
      BY <1>4, <1>10
    <2>2. /\ Append(s, h) \in Seq(Message) /\ Len(s) \in Nat
          /\ Len(Append(s, h)) = Len(s) + 1
          /\ Append(s, h)[Len(s) + 1] = h
      BY <1>4, <1>5, <1>8
    <2>3. /\ Len(Append(Append(s, h), d)) = Len(s) + 2
          /\ Append(Append(s, h), d)[Len(s) + 1] = h
          /\ Append(Append(s, h), d)[Len(s) + 1 + 1] = d
      BY <1>5, <1>8, <2>2
    <2>4. CASE m = h /\ wire = s
      BY <1>6, <2>1, <2>2, <2>3, <2>4 DEF s, h
    <2>5. CASE m = d /\ wire = Append(s, h)
      BY <1>6, <2>1, <2>2, <2>3, <2>5
    <2> QED
      BY <1>7, <1>10, <2>4, <2>5
  <1> QED
    BY <1>9, <1>10

LEMMA PieceComes ==
  ASSUME TInv, NumberOK, NumbersUsed, PiecesOK, WireFraming, NEW m, NextPiece(m),
         wire' = Append(wire, m), UNCHANGED <<urbr_seq, seq_num>>
  PROVE  /\ m.part = "header" => Headed'
         /\ m.part # "header" => Through'
         /\ NumbersUsed' /\ PiecesOK' /\ WireFraming'
  <1>1. /\ \A n : Owner(n)' = Owner(n) /\ Upto(n)' = Upto(n)
        /\ NumbersUsed' /\ seq_num' = seq_num
    BY StreamKept
  <1>2. seq_num \in Nat \ {0} /\ m \in Message /\ m.seq = seq_num
    BY PieceTyped
  <1>3. /\ wire \in Seq(Message) /\ Len(wire) \in Nat
        /\ Len(wire') = Len(wire) + 1
        /\ \A i \in 1 .. Len(wire) : wire'[i] = wire[i]
        /\ wire'[Len(wire) + 1] = m
    BY <1>2, AppendProperties, LenProperties DEF TInv, TypeOK
  <1>4. (m.part = "header" => Headed') /\ (m.part # "header" => Through')
    BY <1>1, PieceIsNext DEF Headed, Through, Piece
  <1>5. m.part = "whole" <=> Owner(seq_num) \notin Oversize
    BY PieceTyped, OwnerIs DEF Newest
  <1>6. PiecesOK'
    <2> SUFFICES ASSUME NEW i \in 1 .. Len(wire) + 1
                 PROVE  /\ wire'[i].seq \in 1 .. seq_num
                        /\ wire'[i].part = "whole" <=> Owner(wire'[i].seq) \notin Oversize
      BY <1>1, <1>3 DEF PiecesOK
    <2>1. CASE i = Len(wire) + 1
      BY <1>2, <1>3, <1>5, <2>1
    <2>2. CASE i # Len(wire) + 1
      <3>1. i \in 1 .. Len(wire)
        BY <1>3, <2>2
      <3> QED
        BY <1>3, <3>1 DEF PiecesOK
    <2> QED
      BY <2>1, <2>2
  <1>7. Len(wire) # 0 =>
           LET last == wire[Len(wire)] IN
           IF last.part = "header" THEN m = [seq |-> last.seq, part |-> "data"]
           ELSE m.part # "data" /\ last.seq < m.seq
    <2> SUFFICES ASSUME Len(wire) # 0
                 PROVE  IF wire[Len(wire)].part = "header"
                        THEN m = [seq |-> wire[Len(wire)].seq, part |-> "data"]
                        ELSE m.part # "data" /\ wire[Len(wire)].seq < m.seq
      OBVIOUS
    <2>1. PICK u \in Urb :
            \/ m = Piece(seq_num, FirstPart(u)) /\ Before
            \/ m = Piece(seq_num, "data") /\ Headed
      BY DEF NextPiece
    <2>2. CASE m = Piece(seq_num, FirstPart(u)) /\ Before
      <3>1. seq_num - 1 # 0
        <4>1. CASE seq_num - 1 = 0
          <5>1. wire = <<>>
            BY <2>2, <4>1, UptoZero DEF Before
          <5> QED
            BY <5>1
        <4> QED
          BY <4>1
      <3>2. seq_num - 1 \in Nat \ {0}
        BY <1>2, <3>1
      <3>3. wire[Len(wire)] = Piece(seq_num - 1, IF Owner(seq_num - 1) \in Oversize
                                                 THEN "data" ELSE "whole")
        BY <2>2, <3>2, UptoEnds DEF Before
      <3>4. wire[Len(wire)].part # "header" /\ wire[Len(wire)].seq = seq_num - 1
        BY <3>3 DEF Piece
      <3>5. m.part # "data"
        BY <2>2 DEF Piece, FirstPart
      <3> QED
        BY <1>2, <3>4, <3>5
    <2>3. CASE m = Piece(seq_num, "data") /\ Headed
      <3>1. Upto(seq_num - 1) \in Seq(Message)
        BY <1>2, UptoTyped
      <3>2. wire[Len(wire)] = Piece(seq_num, "header")
        <4>1. Piece(seq_num, "header") \in Message
          BY <1>2 DEF Piece, Message
        <4> QED
          BY <2>3, <3>1, <4>1, AppendProperties DEF Headed
      <3> QED
        BY <2>3, <3>2 DEF Piece
    <2> QED
      BY <2>1, <2>2, <2>3
  <1>8. WireFraming'
    <2> SUFFICES ASSUME NEW i \in 1 .. Len(wire)
                 PROVE  IF wire'[i].part = "header"
                        THEN wire'[i + 1] = [seq |-> wire'[i].seq, part |-> "data"]
                        ELSE wire'[i + 1].part # "data" /\ wire'[i].seq < wire'[i + 1].seq
      BY <1>3 DEF WireFraming
    <2>1. CASE i = Len(wire)
      BY <1>3, <1>7, <2>1
    <2>2. CASE i # Len(wire)
      <3>1. i \in 1 .. Len(wire) - 1 /\ i + 1 \in 1 .. Len(wire)
        BY <1>3, <2>2
      <3>2. wire'[i] = wire[i] /\ wire'[i + 1] = wire[i + 1]
        BY <1>3, <3>1
      <3> QED
        BY <3>1, <3>2 DEF WireFraming
    <2> QED
      BY <2>1, <2>2
  <1> QED
    BY <1>1, <1>4, <1>6, <1>8

-----------------------------------------------------------------------------
(* One transfer at a time                                                  *)

(* A submitter that transfers its request does so while the reader waits,  *)
(* and it is the only one.                                                 *)
LEMMA CarriesAlone ==
  ASSUME OneReader, AInv, FillOK, CarryOK, NEW u \in Urb, submit[u].pc \in Carrying
  PROVE  /\ submit[u].read \in Reader
         /\ \A r \in Reader : r = submit[u].read /\ reader[r].pc = "pending"
         /\ \A v \in Urb : submit[v].pc \in Carrying => v = u
  <1>1. submit[u].read \in Reader /\ reader[submit[u].read].pc = "pending"
    BY UrbAssumption
       DEF Carrying, AInv, TInv, SubmitOK, FillOK, ReadsOK, TakingOK, Taking, Filling
  <1>2. \A v \in Urb : submit[v].pc \in Carrying => v = u
    BY DEF CarryOK, Newest, AInv, NumberOK
  <1> QED
    BY <1>1, <1>2 DEF OneReader

LEMMA ReadsAlone ==
  ASSUME OneReader, AInv, FillOK, CarryOK, NEW r \in Reader, reader[r].pc # "pending"
  PROVE  /\ \A q \in Reader : q = r
         /\ \A u \in Urb : submit[u].pc \notin Carrying
  BY CarriesAlone DEF OneReader

(* What a step leaves alone that neither fills nor delivers a read.        *)
LEMMA StreamFrame ==
  ASSUME AInv, StreamOK,
         UNCHANGED <<wire, urbr_seq, seq_num, urbr_sent_partial, len_sent_partial>>,
         \A u \in Urb : \/ submit'[u] = submit[u]
                        \/ submit'[u].pc \notin Carrying /\ submit[u].pc \notin Carrying,
         \A r \in Reader : \/ reader'[r] = reader[r]
                           \/ /\ reader'[r].pc \in Resting /\ reader[r].pc \in Resting
                              /\ reader'[r].buf = reader[r].buf
  PROVE  StreamOK'
  <1>1. /\ \A n : Owner(n)' = Owner(n) /\ Upto(n)' = Upto(n)
        /\ NumbersUsed' /\ seq_num' = seq_num
        /\ \A u : Newest(u)' <=> Newest(u)
    BY StreamKept DEF StreamOK
  <1>2. (Before' <=> Before) /\ (Headed' <=> Headed) /\ (Through' <=> Through)
    BY <1>1 DEF Before, Headed, Through, Piece
  <1>3. \A m : NextPiece(m)' <=> NextPiece(m)
    BY <1>1, <1>2 DEF NextPiece, Piece
  <1>4. PiecesOK' /\ WireFraming'
    BY <1>1 DEF StreamOK, PiecesOK, WireFraming
  <1>5. CarryOK'
    <2> SUFFICES ASSUME NEW u \in Urb, submit'[u].pc \in Carrying
                 PROVE  /\ Newest(u)' /\ Before'
                        /\ submit'[u].pc # "store" => Buf(u)' = Piece(seq_num, FirstPart(u))'
                        /\ submit'[u].pc = "stored" => (len_sent_partial' # 0 <=> u \in Oversize)
                        /\ submit'[u].pc = "arm_sent" => u \notin Oversize
                        /\ submit'[u].pc = "complete_read" =>
                              urbr_sent_partial' = IF u \in Oversize THEN u ELSE NoUrb
      BY Zenon DEF CarryOK
    <2>1. submit'[u] = submit[u]
      OBVIOUS
    <2>2. submit[u].read \in Reader
      BY <2>1 DEF AInv, TInv, SubmitOK, Carrying
    <2>3. Buf(u)' = Buf(u)
      BY <2>1, <2>2 DEF Buf
    <2> QED
      BY <1>1, <1>2, <2>1, <2>3 DEF StreamOK, TransferOK, CarryOK, Piece, FirstPart
  <1>6. FetchOK' /\ RestOK'
    BY <1>1, <1>2 DEF StreamOK, TransferOK, FetchOK, RestOK, Resting, Piece, FirstPart
  <1>7. ReturnOK'
    BY <1>1, <1>3 DEF StreamOK, TransferOK, ReturnOK, Resting
  <1>8. QuietOK'
    <2>1. Quiet' => Quiet
      BY DEF Quiet
    <2> QED
      BY <1>1, <1>2, <2>1 DEF StreamOK, TransferOK, QuietOK
  <1> QED
    BY <1>1, <1>4, <1>5, <1>6, <1>7, <1>8 DEF StreamOK, TransferOK

(* A step after which one submitter transfers its request.                 *)
LEMMA OneCarries ==
  ASSUME NEW u \in Urb, submit'[u].pc \in Carrying,
         \A v \in Urb \ {u} : submit'[v].pc \notin Carrying,
         \A r \in Reader : reader'[r].pc = "pending",
         NumbersUsed', PiecesOK', WireFraming', Newest(u)', Before',
         submit'[u].pc # "store" => Buf(u)' = Piece(seq_num, FirstPart(u))',
         submit'[u].pc = "stored" => (len_sent_partial' # 0 <=> u \in Oversize),
         submit'[u].pc = "arm_sent" => u \notin Oversize,
         submit'[u].pc = "complete_read" =>
            urbr_sent_partial' = IF u \in Oversize THEN u ELSE NoUrb
  PROVE  StreamOK'
  <1>1. CarryOK'
    BY DEF CarryOK
  <1>2. FetchOK' /\ RestOK' /\ ReturnOK' /\ QuietOK'
    BY DEF FetchOK, RestOK, ReturnOK, QuietOK, Quiet
  <1> QED
    BY <1>1, <1>2 DEF StreamOK, TransferOK

(* A step after which nobody transfers a request.                          *)
LEMMA NobodyCarries ==
  ASSUME \A u \in Urb : submit'[u].pc \notin Carrying,
         \A r \in Reader : reader'[r].pc \in Resting,
         NumbersUsed', PiecesOK', WireFraming',
         IF urbr_sent_partial' = NoUrb THEN Through'
         ELSE Newest(urbr_sent_partial)' /\ urbr_sent_partial' \in Oversize /\ Headed'
  PROVE  StreamOK'
  <1>1. CarryOK' /\ QuietOK'
    BY DEF CarryOK, QuietOK
  <1>2. FetchOK' /\ RestOK' /\ ReturnOK'
    BY DEF FetchOK, RestOK, ReturnOK, Resting
  <1> QED
    BY <1>1, <1>2 DEF StreamOK, TransferOK

(* A step after which the one reader does.                                 *)
LEMMA OneReads ==
  ASSUME NEW r \in Reader, \A q \in Reader : q = r, reader'[r].pc \notin Resting,
         \A u \in Urb : submit'[u].pc \notin Carrying,
         NumbersUsed', PiecesOK', WireFraming',
         reader'[r].pc \in {"store", "stored"} =>
            /\ Newest(reader[r].urbr)' /\ Before'
            /\ reader'[r].urbr = urbr_sent_partial'
            /\ reader'[r].pc = "stored" =>
                  /\ reader'[r].buf = Piece(seq_num, FirstPart(reader[r].urbr))'
                  /\ len_sent_partial' # 0 <=> reader'[r].urbr \in Oversize,
         reader'[r].pc \in {"store_partial", "stored_partial"} =>
            /\ Newest(reader[r].urbr)' /\ reader'[r].urbr \in Oversize /\ Headed'
            /\ reader'[r].pc = "stored_partial" => reader'[r].buf = Piece(seq_num, "data")',
         reader'[r].pc = "return" =>
            /\ NextPiece(reader[r].buf)'
            /\ IF reader'[r].buf.part = "header" THEN Newest(urbr_sent_partial)'
               ELSE urbr_sent_partial' = NoUrb
  PROVE  StreamOK'
  <1>1. CarryOK' /\ QuietOK'
    BY DEF CarryOK, QuietOK, Quiet
  <1>2. FetchOK'
    BY DEF FetchOK
  <1>3. RestOK'
    BY DEF RestOK
  <1>4. ReturnOK'
    BY DEF ReturnOK
  <1> QED
    BY <1>1, <1>2, <1>3, <1>4 DEF StreamOK, TransferOK

-----------------------------------------------------------------------------
(* The steps of a submitter                                                *)

LEMMA SubmitQuietStreams ==
  ASSUME AInv, Calm, Calm', StreamOK, NEW u \in Urb,
         \/ Bus_Internal_IoCtl(u) \/ SubmitPending(u)
         \/ SubmitInsert(u) /\ submit[u].pc = "arm_pending"
  PROVE  StreamOK'
  <1>1. /\ UNCHANGED <<wire, urbr_seq, seq_num, urbr_sent_partial, len_sent_partial, reader>>
        /\ \E pc : SubmitTo(u, pc) /\ pc \notin Carrying
        /\ submit[u].pc \notin Carrying
    BY CalmStep, NoCrash
       DEF Bus_Internal_IoCtl, SubmitPending, SubmitInsert, partial, urbs, Carrying
  <1>2. /\ \A v \in Urb \ {u} : submit'[v] = submit[v]
        /\ submit'[u].pc \notin Carrying
    BY <1>1 DEF SubmitTo, AInv, TInv, SubmitOK, SubmitState
  <1> QED
    BY <1>1, <1>2, StreamFrame

LEMMA SubmitDirectStreams ==
  ASSUME OneReader, AInv, AInv', FillOK, StreamOK, NEW u \in Urb, SubmitDirect(u)
  PROVE  StreamOK'
  <1> USE DEF AInv, TInv
  <1>1. /\ Number(u) /\ urbr_sent_partial' = u /\ UNCHANGED <<wire, reader>>
        /\ submit' = [submit EXCEPT ![u] = [pc |-> "store", read |-> pending_read_irp]]
        /\ submit[u].pc = "enter" /\ pending_read_irp # NoRead /\ urbr_sent_partial = NoUrb
    BY DEF SubmitDirect, MustQueue
  <1>2. \A v \in Urb : submit'[v].pc = IF v = u THEN "store" ELSE submit[v].pc
    BY <1>1 DEF SubmitOK, SubmitState
  <1>3. \A r \in Reader : reader[r].pc = "pending" /\ r = pending_read_irp
    BY <1>1 DEF FillOK, ReadsOK, TypeOK, OneReader
  <1>4. \A v \in Urb : submit[v].pc \notin Carrying
    <2> SUFFICES ASSUME NEW v \in Urb, submit[v].pc \in Carrying PROVE FALSE
      OBVIOUS
    <2>1. CASE submit[v].pc = "complete_read"
      BY <1>3, <2>1 DEF FillOK, TakingOK, SubmitOK
    <2>2. CASE submit[v].pc \in Filling
      BY <1>1, <2>2, UrbAssumption DEF FillOK, TakingOK
    <2>3. CASE submit[v].pc = "arm_sent"
      BY <2>3, UrbAssumption DEF FillOK, TakingOK, SubmitDirect, Unlocked
    <2> QED
      BY <2>1, <2>2, <2>3 DEF Carrying, Filling
  <1>5. Through
    BY <1>1, <1>3, <1>4 DEF StreamOK, TransferOK, QuietOK, Quiet, Resting
  <1>6. urbr_seq[u] = 0
    BY <1>1 DEF NumberOK, Early
  <1>7. /\ \A n \in 1 .. seq_num : Owner(n)' = Owner(n)
        /\ NumbersUsed' /\ Newest(u)' /\ seq_num' - 1 = seq_num
        /\ \A n \in 0 .. seq_num : Upto(n)' = Upto(n)
    BY <1>1, <1>6, OwnerKept DEF StreamOK
  <1>8. Before'
    <2>1. seq_num \in 0 .. seq_num
      BY DEF TypeOK
    <2>2. Upto(seq_num - 1)' = Upto(seq_num)
      BY <1>7, <2>1
    <2> QED
      BY <1>1, <1>5, <2>2 DEF Before, Through
  <1>9. PiecesOK' /\ WireFraming'
    <2>1. seq_num' = seq_num + 1 /\ seq_num \in Nat
      BY <1>1 DEF Number, TypeOK
    <2> QED
      BY <1>1, <1>7, <2>1 DEF StreamOK, PiecesOK, WireFraming
  <1> QED
    BY <1>1, <1>2, <1>3, <1>4, <1>7, <1>8, <1>9, OneCarries DEF Carrying

LEMMA SubmitStoreStreams ==
  ASSUME Serial, OneReader, AInv, Calm, Calm', FillOK, StreamOK, NEW u \in Urb, SubmitStore(u)
  PROVE  StreamOK'
  <1> USE DEF AInv, TInv
  <1> DEFINE r == submit[u].read
  <1>1. PICK out \in StoreOutcomes(u) \ {"error"} :
           /\ SubmitTo(u, "stored") /\ reader' = store_urbr(r, u, out)
           /\ len_sent_partial' = LenAfter(out)
    BY CalmStep, NoCrash DEF SubmitStore, Serial, StoreOutcomes
  <1>2. /\ UNCHANGED <<wire, urbr_seq, seq_num, urbr_sent_partial>>
        /\ submit[u].pc = "store" /\ out = FirstPart(u)
    BY <1>1, CalmStep, NoCrash DEF SubmitStore, urbs, StoreOutcomes, Serial, FirstPart
  <1>3. /\ r \in Reader /\ \A q \in Reader : q = r /\ reader[q].pc = "pending"
        /\ \A v \in Urb \ {u} : submit[v].pc \notin Carrying
        /\ Newest(u) /\ Before
        /\ len_sent_partial = 0
    BY <1>2, CarriesAlone
       DEF StreamOK, TransferOK, CarryOK, Carrying, FillOK, PartialOK
  <1> HIDE DEF r
  <1>4. \A v \in Urb : /\ submit'[v].pc = IF v = u THEN "stored" ELSE submit[v].pc
                       /\ submit'[v].read = submit[v].read
    BY <1>1, SubmitToIs
  <1>5. \A q \in Reader : /\ reader'[q].pc = "pending"
                          /\ reader'[q].buf = [seq |-> urbr_seq[u], part |-> out]
    BY <1>1, <1>3, StoredIs
  <1>6. /\ NumbersUsed' /\ seq_num' = seq_num /\ Newest(u)' /\ Before'
        /\ PiecesOK' /\ WireFraming'
    BY <1>2, <1>3, StreamKept DEF StreamOK, Before, PiecesOK, WireFraming
  <1>7. Buf(u)' = Piece(seq_num, FirstPart(u))'
    BY <1>2, <1>3, <1>4, <1>5 DEF Buf, Piece, FirstPart, Newest, r
  <1>8. len_sent_partial' # 0 <=> u \in Oversize
    BY <1>1, <1>2, <1>3 DEF LenAfter, HeaderSize, FirstPart
  <1> QED
    BY <1>3, <1>4, <1>5, <1>6, <1>7, <1>8, OneCarries DEF Carrying

(* A submitter that goes on with its request                               *)
LEMMA SubmitOnStreams ==
  ASSUME Serial, OneReader, AInv, Calm, Calm', FillOK, StreamOK, NEW u \in Urb,
         \/ SubmitArmSent(u) \/ SubmitPartial(u)
         \/ SubmitInsert(u) /\ submit[u].pc = "arm_sent"
  PROVE  StreamOK'
  <1> USE DEF AInv, TInv
  <1>1. /\ UNCHANGED <<wire, urbr_seq, seq_num, len_sent_partial, reader>>
        /\ submit[u].pc \in {"stored", "arm_sent"}
        /\ \E pc \in {"arm_sent", "complete_read"} : SubmitTo(u, pc)
    BY CalmStep, NoCrash DEF SubmitArmSent, SubmitPartial, SubmitInsert, urbs, partial
  <1>2. /\ submit[u].read \in Reader /\ \A q \in Reader : reader[q].pc = "pending"
        /\ \A v \in Urb \ {u} : submit[v].pc \notin Carrying
        /\ Newest(u) /\ Before /\ Buf(u) = Piece(seq_num, FirstPart(u))
        /\ submit[u].pc = "stored" =>
              (len_sent_partial # 0 <=> u \in Oversize) /\ urbr_sent_partial = u
        /\ submit[u].pc = "arm_sent" => u \notin Oversize /\ urbr_sent_partial = NoUrb
    BY <1>1, CarriesAlone
       DEF StreamOK, TransferOK, CarryOK, Carrying, FillOK, TakingOK, Filling
  <1>3. \A v \in Urb : /\ v # u => submit'[v].pc = submit[v].pc
                       /\ submit'[v].read = submit[v].read
    BY <1>1, SubmitToIs
  <1>4. /\ NumbersUsed' /\ seq_num' = seq_num /\ Newest(u)' /\ Before'
        /\ PiecesOK' /\ WireFraming'
    BY <1>1, <1>2, StreamKept DEF StreamOK, Before, PiecesOK, WireFraming
  <1>5. Buf(u)' = Piece(seq_num, FirstPart(u))'
    BY <1>1, <1>2, <1>3, <1>4 DEF Buf, Piece, FirstPart
  <1>6. CASE SubmitArmSent(u)
    <2>1. submit'[u].pc = "arm_sent" /\ u \notin Oversize
      BY <1>2, <1>6, SubmitToIs DEF SubmitArmSent
    <2> QED
      BY <1>1, <1>2, <1>3, <1>4, <1>5, <2>1, OneCarries DEF Carrying
  <1>7. CASE SubmitPartial(u)
    <2>1. submit'[u].pc = "complete_read" /\ u \in Oversize /\ urbr_sent_partial' = u
      BY <1>2, <1>7, CalmStep, NoCrash, SubmitToIs DEF SubmitPartial, partial
    <2> QED
      BY <1>1, <1>2, <1>3, <1>4, <1>5, <2>1, OneCarries DEF Carrying
  <1>8. CASE SubmitInsert(u) /\ submit[u].pc = "arm_sent"
    <2>1. submit'[u].pc = "complete_read" /\ u \notin Oversize /\ urbr_sent_partial' = NoUrb
      <3>1. SubmitTo(u, "complete_read") /\ UNCHANGED partial
        BY <1>8, CalmStep, NoCrash DEF SubmitInsert
      <3> QED
        BY <1>2, <1>8, <3>1, SubmitToIs DEF partial
    <2> QED
      BY <1>1, <1>2, <1>3, <1>4, <1>5, <2>1, OneCarries DEF Carrying
  <1> QED
    BY <1>6, <1>7, <1>8

LEMMA SubmitCompleteReadStreams ==
  ASSUME OneReader, AInv, Calm, Calm', FillOK, StreamOK, NEW u \in Urb, SubmitCompleteRead(u)
  PROVE  /\ NextPiece(Buf(u)) /\ wire' = Append(wire, Buf(u))
         /\ StreamOK'
  <1> USE DEF AInv, TInv
  <1>1. /\ Deliver(submit[u].read) /\ SubmitTo(u, "done") /\ submit[u].pc = "complete_read"
        /\ UNCHANGED <<urbr_seq, seq_num, urbr_sent_partial>>
    BY CalmStep, NoCrash DEF SubmitCompleteRead, urbs, partial
  <1>2. /\ submit[u].read \in Reader
        /\ \A q \in Reader : q = submit[u].read
        /\ \A v \in Urb \ {u} : submit[v].pc \notin Carrying
        /\ Newest(u) /\ Before /\ Buf(u) = Piece(seq_num, FirstPart(u))
        /\ urbr_sent_partial = IF u \in Oversize THEN u ELSE NoUrb
    BY <1>1, CarriesAlone DEF StreamOK, TransferOK, CarryOK, Carrying
  <1>3. NextPiece(Buf(u))
    BY <1>2 DEF NextPiece
  <1>4. wire' = Append(wire, Buf(u)) /\ \A q \in Reader : reader'[q].pc = "idle"
    BY <1>1, <1>2, ReaderToIs DEF Deliver, Buf
  <1>5. \A v \in Urb : submit'[v].pc = IF v = u THEN "done" ELSE submit[v].pc
    BY <1>1, SubmitToIs
  <1>6. /\ u \in Oversize => Headed'
        /\ u \notin Oversize => Through'
        /\ NumbersUsed' /\ PiecesOK' /\ WireFraming'
    <2>1. Buf(u).part = "header" <=> u \in Oversize
      BY <1>2 DEF Piece, FirstPart
    <2> QED
      BY <1>1, <1>3, <1>4, <2>1, PieceComes DEF StreamOK
  <1>7. Newest(u)'
    BY <1>1, <1>2, StreamKept
  <1>8. StreamOK'
    <2>1. \A v \in Urb : submit'[v].pc \notin Carrying
      BY <1>2, <1>5 DEF Carrying
    <2>2. \A q \in Reader : reader'[q].pc \in Resting
      BY <1>4 DEF Resting
    <2>3. IF urbr_sent_partial' = NoUrb THEN Through'
          ELSE Newest(urbr_sent_partial)' /\ urbr_sent_partial' \in Oversize /\ Headed'
      <3>1. CASE u \in Oversize
        <4>1. urbr_sent_partial' = u /\ u # NoUrb
          BY <1>1, <1>2, <3>1, UrbAssumption
        <4>2. Newest(urbr_sent_partial)'
          BY <1>7, <4>1 DEF Newest
        <4> QED
          BY <1>6, <3>1, <4>1, <4>2
      <3>2. CASE u \notin Oversize
        BY <1>1, <1>2, <1>6, <3>2
      <3> QED
        BY <3>1, <3>2
    <2> QED
      BY <1>6, <2>1, <2>2, <2>3, NobodyCarries
  <1> QED
    BY <1>3, <1>4, <1>8

LEMMA SubmitStreams ==
  ASSUME Serial, OneReader, AInv, AInv', Calm, Calm', FillOK, UndisturbedOK, StreamOK,
         NEW u \in Urb, Bus_Internal_IoCtl(u) \/ Submit(u)
  PROVE  StreamOK'
  <1>1. ~SubmitRefused(u) /\ ~SubmitCancelled(u) /\ ~SubmitReturn(u)
    BY DEF UndisturbedOK, SubmitRefused, SubmitCancelled, SubmitReturn
  <1>2. SubmitInsert(u) => submit[u].pc \in {"arm_pending", "arm_sent"}
    BY DEF SubmitInsert
  <1> QED
    BY <1>1, <1>2, SubmitQuietStreams, SubmitDirectStreams, SubmitStoreStreams, SubmitOnStreams,
       SubmitCompleteReadStreams DEF Submit

-----------------------------------------------------------------------------
(* The steps of a read                                                     *)

LEMMA ReadQuietStreams ==
  ASSUME AInv, StreamOK, NEW r \in Reader, Bus_Read(r) \/ ReadRefused(r) \/ ReadWait(r)
  PROVE  StreamOK'
  <1>1. /\ UNCHANGED <<wire, urbr_seq, seq_num, urbr_sent_partial, len_sent_partial, submit>>
        /\ \E pc \in Resting : ReaderTo(r, pc)
        /\ reader[r].pc \in Resting
    BY DEF Bus_Read, ReadRefused, ReadWait, partial, urbs, Resting
  <1>2. /\ \A q \in Reader \ {r} : reader'[q] = reader[q]
        /\ reader'[r].pc \in Resting /\ reader'[r].buf = reader[r].buf
    BY <1>1 DEF ReaderTo, AInv, TInv, ReaderOK, ReaderState
  <1> QED
    BY <1>1, <1>2, StreamFrame

LEMMA ReadRestStreams ==
  ASSUME OneReader, AInv, FillOK, StreamOK, NEW r \in Reader, ReadRest(r)
  PROVE  StreamOK'
  <1> USE DEF AInv, TInv
  <1>1. /\ UNCHANGED <<wire, urbr_seq, seq_num, urbr_sent_partial, submit>>
        /\ reader' = [reader EXCEPT ![r].pc = "store_partial", ![r].urbr = urbr_sent_partial]
        /\ reader[r].pc = "enter" /\ urbr_sent_partial # NoUrb
    BY DEF ReadRest, partial, urbs
  <1>2. /\ \A q \in Reader : q = r
        /\ \A u \in Urb : submit[u].pc \notin Carrying
    BY <1>1, ReadsAlone DEF StreamOK, TransferOK
  <1>3. Newest(urbr_sent_partial) /\ urbr_sent_partial \in Oversize /\ Headed
    <2>1. Quiet
      BY <1>1, <1>2 DEF Quiet, Resting
    <2> QED
      BY <1>1, <2>1 DEF StreamOK, TransferOK, QuietOK
  <1>4. reader'[r].pc = "store_partial" /\ reader'[r].urbr = urbr_sent_partial
    BY <1>1 DEF ReaderOK, ReaderState
  <1>5. /\ NumbersUsed' /\ seq_num' = seq_num /\ Headed' /\ PiecesOK' /\ WireFraming'
        /\ Newest(reader[r].urbr)'
    BY <1>1, <1>3, <1>4, StreamKept
       DEF StreamOK, Headed, Piece, PiecesOK, WireFraming, Newest
  <1> QED
    BY <1>1, <1>2, <1>3, <1>4, <1>5, OneReads DEF Resting

LEMMA ReadPendingStreams ==
  ASSUME OneReader, AInv, AInv', Calm, Calm', FillOK, StreamOK, NEW r \in Reader, ReadPending(r)
  PROVE  StreamOK'
  <1> USE DEF AInv, TInv
  <1>0. PICK u : u = Head(head_urbr_pending)
    OBVIOUS
  <1>1. /\ Number(u) /\ urbr_sent_partial' = u /\ UNCHANGED <<wire, submit>>
        /\ reader' = [reader EXCEPT ![r].pc = "store", ![r].urbr = u]
        /\ reader[r].pc = "enter" /\ urbr_sent_partial = NoUrb /\ head_urbr_pending # <<>>
    BY <1>0, CalmStep, NoCrash DEF ReadPending
  <1>2. u \in Urb /\ urbr_seq[u] = 0
    <2>1. head_urbr_pending \in Seq(Urb) /\ Distinct(head_urbr_pending)
      BY DEF TypeOK, PendingOK
    <2>2. u \in ToSet(head_urbr_pending)
      BY <1>0, <1>1, <2>1, TailElements
    <2> QED
      BY <2>1, <2>2, ToSetTyped DEF PendingOK
  <1>3. /\ \A q \in Reader : q = r
        /\ \A v \in Urb : submit[v].pc \notin Carrying
    BY <1>1, ReadsAlone DEF StreamOK, TransferOK
  <1>4. Through
    <2>1. Quiet
      BY <1>1, <1>3 DEF Quiet, Resting
    <2> QED
      BY <1>1, <2>1 DEF StreamOK, TransferOK, QuietOK
  <1>5. reader'[r].pc = "store" /\ reader'[r].urbr = u
    BY <1>1 DEF ReaderOK, ReaderState
  <1>6. /\ \A n \in 1 .. seq_num : Owner(n)' = Owner(n)
        /\ NumbersUsed' /\ Newest(u)' /\ seq_num' - 1 = seq_num
        /\ \A n \in 0 .. seq_num : Upto(n)' = Upto(n)
    BY <1>1, <1>2, OwnerKept DEF StreamOK
  <1>7. Before'
    <2>1. seq_num \in 0 .. seq_num
      BY DEF TypeOK
    <2>2. Upto(seq_num - 1)' = Upto(seq_num)
      BY <1>6, <2>1
    <2> QED
      BY <1>1, <1>4, <2>2 DEF Before, Through
  <1>8. PiecesOK' /\ WireFraming'
    <2>1. seq_num' = seq_num + 1 /\ seq_num \in Nat
      BY <1>1 DEF Number, TypeOK
    <2> QED
      BY <1>1, <1>6, <2>1 DEF StreamOK, PiecesOK, WireFraming
  <1>9. Newest(reader[r].urbr)'
    BY <1>5, <1>6 DEF Newest
  <1> QED
    BY <1>1, <1>3, <1>5, <1>6, <1>7, <1>8, <1>9, OneReads DEF Resting

LEMMA ReadStoreStreams ==
  ASSUME Serial, OneReader, AInv, Calm, Calm', FillOK, StreamOK, NEW r \in Reader, ReadStore(r)
  PROVE  StreamOK'
  <1> USE DEF AInv, TInv
  <1> DEFINE u == reader[r].urbr
             rest == reader[r].pc = "store_partial"
  <1>1. /\ UNCHANGED <<wire, urbr_seq, seq_num, urbr_sent_partial, submit>>
        /\ reader[r].pc \in {"store", "store_partial"}
    BY CalmStep, NoCrash DEF ReadStore, urbs
  <1>2. PICK out \in (IF rest THEN {"data"} ELSE {FirstPart(u)}) :
           /\ reader' = [store_urbr(r, u, out) EXCEPT
                           ![r].pc = IF rest THEN "stored_partial" ELSE "stored"]
           /\ len_sent_partial' = LenAfter(out)
    BY CalmStep, NoCrash DEF ReadStore, StoreOutcomes, PartialOutcomes, Serial, FirstPart
  <1>3. /\ reader'[r].pc = IF rest THEN "stored_partial" ELSE "stored"
        /\ reader'[r].urbr = u
        /\ reader'[r].buf = [seq |-> urbr_seq[u], part |-> out]
    BY <1>2 DEF store_urbr, ReaderOK, ReaderState
  <1>4. /\ \A q \in Reader : q = r
        /\ \A v \in Urb : submit[v].pc \notin Carrying
    BY <1>1, ReadsAlone DEF StreamOK, TransferOK
  <1>5. /\ Newest(u)
        /\ ~rest => Before /\ u = urbr_sent_partial /\ len_sent_partial = 0
        /\ rest => Headed /\ u \in Oversize
    BY <1>1 DEF StreamOK, TransferOK, FetchOK, RestOK, FillOK, PartialOK
  <1>6. /\ NumbersUsed' /\ seq_num' = seq_num /\ PiecesOK' /\ WireFraming'
        /\ (Before' <=> Before) /\ (Headed' <=> Headed)
    BY <1>1, StreamKept DEF StreamOK, Before, Headed, Piece, PiecesOK, WireFraming
  <1>7. Newest(reader[r].urbr)'
    BY <1>1, <1>3, <1>5 DEF Newest
  <1> HIDE DEF u, rest
  <1>8. CASE ~rest
    <2>1. out = FirstPart(u) /\ urbr_seq[u] = seq_num
      BY <1>2, <1>5, <1>8 DEF Newest
    <2>2. reader'[r].buf = Piece(seq_num, FirstPart(reader[r].urbr))'
      BY <1>3, <1>6, <2>1 DEF Piece, FirstPart
    <2>3. len_sent_partial' # 0 <=> reader'[r].urbr \in Oversize
      BY <1>2, <1>3, <1>5, <1>8, <2>1 DEF LenAfter, HeaderSize, FirstPart
    <2> QED
      BY <1>1, <1>3, <1>4, <1>5, <1>6, <1>7, <1>8, <2>2, <2>3, OneReads DEF Resting
  <1>9. CASE rest
    <2>1. reader'[r].buf = Piece(seq_num, "data")'
      BY <1>2, <1>3, <1>5, <1>6, <1>9 DEF Piece, Newest
    <2> QED
      BY <1>1, <1>3, <1>4, <1>5, <1>6, <1>7, <1>9, <2>1, OneReads DEF Resting
  <1> QED
    BY <1>8, <1>9

LEMMA ReadStoredStreams ==
  ASSUME OneReader, AInv, Calm, Calm', FillOK, StreamOK, NEW r \in Reader, ReadStored(r)
  PROVE  StreamOK'
  <1> USE DEF AInv, TInv
  <1> DEFINE u == reader[r].urbr
             rest == reader[r].pc = "stored_partial"
             len == IF rest THEN 0 ELSE len_sent_partial
  <1>1. /\ UNCHANGED <<wire, urbr_seq, seq_num, submit>>
        /\ reader[r].pc \in {"stored", "stored_partial"}
        /\ ReaderTo(r, "return")
        /\ urbr_sent_partial' = IF len = 0 THEN NoUrb ELSE urbr_sent_partial
    BY CalmStep, NoCrash DEF ReadStored, urbs
  <1>2. /\ reader'[r].pc = "return" /\ reader'[r].buf = reader[r].buf
    BY <1>1, ReaderToIs
  <1>3. /\ \A q \in Reader : q = r
        /\ \A v \in Urb : submit[v].pc \notin Carrying
    BY <1>1, ReadsAlone DEF StreamOK, TransferOK
  <1>4. /\ Newest(u)
        /\ ~rest => /\ Before /\ u = urbr_sent_partial
                    /\ reader[r].buf = Piece(seq_num, FirstPart(u))
                    /\ len_sent_partial # 0 <=> u \in Oversize
        /\ rest => Headed /\ u \in Oversize /\ reader[r].buf = Piece(seq_num, "data")
    BY <1>1 DEF StreamOK, TransferOK, FetchOK, RestOK
  <1>5. /\ NumbersUsed' /\ seq_num' = seq_num /\ PiecesOK' /\ WireFraming'
        /\ (Before' <=> Before) /\ (Headed' <=> Headed)
        /\ \A v : Newest(v)' <=> Newest(v)
    BY <1>1, StreamKept DEF StreamOK, Before, Headed, Piece, PiecesOK, WireFraming
  <1> HIDE DEF u, rest
  <1>6. NextPiece(reader[r].buf)'
    <2>1. NextPiece(reader[r].buf)
      BY <1>4 DEF NextPiece, Newest
    <2> QED
      BY <1>2, <1>5, <2>1 DEF NextPiece, Piece
  <1>7. IF reader'[r].buf.part = "header" THEN Newest(urbr_sent_partial)'
        ELSE urbr_sent_partial' = NoUrb
    <2>1. reader[r].buf.part = "header" <=> ~rest /\ u \in Oversize
      BY <1>4 DEF Piece, FirstPart
    <2>2. len = 0 <=> ~(~rest /\ u \in Oversize)
      BY <1>4
    <2>3. CASE ~rest /\ u \in Oversize
      <3>1. urbr_sent_partial' = u
        BY <1>1, <1>4, <2>2, <2>3
      <3> QED
        BY <1>2, <1>4, <1>5, <2>1, <2>3, <3>1 DEF Newest
    <2>4. CASE ~(~rest /\ u \in Oversize)
      BY <1>1, <1>2, <2>1, <2>2, <2>4
    <2> QED
      BY <2>3, <2>4
  <1> QED
    BY <1>1, <1>2, <1>3, <1>5, <1>6, <1>7, OneReads DEF Resting

LEMMA ReadReturnStreams ==
  ASSUME OneReader, AInv, FillOK, StreamOK, NEW r \in Reader, ReadReturn(r)
  PROVE  /\ NextPiece(reader[r].buf) /\ wire' = Append(wire, reader[r].buf)
         /\ StreamOK'
  <1> USE DEF AInv, TInv
  <1>1. /\ Deliver(r) /\ reader[r].pc = "return"
        /\ UNCHANGED <<urbr_seq, seq_num, urbr_sent_partial, submit>>
    BY DEF ReadReturn, urbs, partial
  <1>2. /\ \A q \in Reader : q = r
        /\ \A v \in Urb : submit[v].pc \notin Carrying
    BY <1>1, ReadsAlone DEF StreamOK, TransferOK
  <1>3. /\ NextPiece(reader[r].buf)
        /\ IF reader[r].buf.part = "header" THEN Newest(urbr_sent_partial)
           ELSE urbr_sent_partial = NoUrb
    BY <1>1 DEF StreamOK, TransferOK, ReturnOK
  <1>4. wire' = Append(wire, reader[r].buf) /\ reader'[r].pc = "idle"
    BY <1>1, ReaderToIs DEF Deliver
  <1>5. /\ reader[r].buf.part = "header" => Headed'
        /\ reader[r].buf.part # "header" => Through'
        /\ NumbersUsed' /\ PiecesOK' /\ WireFraming'
    BY <1>1, <1>3, <1>4, PieceComes DEF StreamOK
  <1>6. IF urbr_sent_partial' = NoUrb THEN Through'
        ELSE Newest(urbr_sent_partial)' /\ urbr_sent_partial' \in Oversize /\ Headed'
    <2>1. CASE reader[r].buf.part = "header"
      <3>1. PICK u \in Urb : Newest(u) /\ reader[r].buf = Piece(seq_num, FirstPart(u))
        BY <1>3, <2>1 DEF NextPiece, Piece
      <3>2. u \in Oversize
        BY <2>1, <3>1 DEF Piece, FirstPart
      <3>3. u = urbr_sent_partial
        BY <1>3, <2>1, <3>1 DEF Newest, NumberOK
      <3>4. Newest(urbr_sent_partial)' /\ urbr_sent_partial' # NoUrb
        BY <1>1, <3>1, <3>3, UrbAssumption DEF Newest
      <3> QED
        BY <1>1, <1>5, <2>1, <3>2, <3>3, <3>4
    <2>2. CASE reader[r].buf.part # "header"
      BY <1>1, <1>3, <1>5, <2>2
    <2> QED
      BY <2>1, <2>2
  <1>7. StreamOK'
    <2>1. \A q \in Reader : reader'[q].pc \in Resting
      BY <1>2, <1>4 DEF Resting
    <2> QED
      BY <1>1, <1>2, <1>5, <1>6, <2>1, NobodyCarries
  <1> QED
    BY <1>3, <1>4, <1>7

LEMMA ReadStreams ==
  ASSUME Serial, OneReader, AInv, AInv', Calm, Calm', FillOK, UndisturbedOK, StreamOK,
         NEW r \in Reader, Read(r)
  PROVE  StreamOK'
  <1>1. ~ReadRefusedUrb(r) /\ ~ReadFail(r)
    BY DEF UndisturbedOK, ReadRefusedUrb, ReadFail
  <1> QED
    BY <1>1, ReadQuietStreams, ReadRestStreams, ReadPendingStreams, ReadStoreStreams,
       ReadStoredStreams, ReadReturnStreams DEF Read

-----------------------------------------------------------------------------
(* The invariant                                                           *)

LEMMA InitStream == OneReader /\ Init => StreamOK
  <1> SUFFICES ASSUME OneReader, Init PROVE StreamOK
    OBVIOUS
  <1>1. TransferOK
    <2>1. Through
      BY UptoZero DEF Init, Through
    <2> QED
      BY <2>1 DEF Init, TransferOK, CarryOK, FetchOK, RestOK, ReturnOK, QuietOK, Carrying
  <1>2. NumbersUsed /\ PiecesOK /\ WireFraming
    BY DEF Init, NumbersUsed, PiecesOK, WireFraming
  <1> QED
    BY <1>1, <1>2 DEF StreamOK

LEMMA NextStream ==
  ASSUME Serial, OneReader, SInv, StreamOK, [Next]_vars
  PROVE  StreamOK'
  <1>1. ~Raced /\ AInv /\ Calm /\ FillOK /\ RaceOK
    BY Undisturbed DEF SInv
  <1>2. SInv' /\ AInv'
    BY NextSInv DEF SInv, RInv, FInv
  <1>3. CASE UNCHANGED vars
    <2>1. UNCHANGED <<wire, urbr_seq, seq_num, urbr_sent_partial, len_sent_partial, submit,
                      reader>>
      BY <1>3 DEF vars, threads, urbs, partial
    <2> QED
      BY <1>1, <2>1, StreamFrame
  <1>4. CASE Next
    <2>1. fault' = "none" => Calm'
      BY <1>1, <1>4, StaysPresent DEF Calm
    <2>2. ASSUME NEW u \in Urb, Bus_Internal_IoCtl(u) \/ Submit(u)
          PROVE  StreamOK'
      BY <1>1, <1>2, <2>1, <2>2, NoFaultSubmit, SubmitStreams DEF SInv
    <2>3. ASSUME NEW r \in Reader, Read(r)
          PROVE  StreamOK'
      BY <1>1, <1>2, <2>1, <2>3, NoFaultRead, ReadStreams DEF SInv
    <2>4. ASSUME NEW n \in SeqNum, Write(n)
          PROVE  StreamOK'
      <3>1. ~Crashes
        BY <1>1, <2>1, <2>4, NoFaultWrite, CalmStep
      <3>2. UNCHANGED <<wire, urbr_seq, seq_num, urbr_sent_partial, len_sent_partial, submit,
                        reader>>
        BY <2>4, <3>1, NoCrash DEF Write, Bus_Write, WriteFind, WriteComplete, urbs, partial
      <3> QED
        BY <1>1, <3>2, StreamFrame
    <2>5. ~bus_unplug_dev /\ ~Unplug
      BY <1>1 DEF Serial, FillOK, ReadsOK, Unplug, bus_unplug_dev, complete_pending_read_irp,
                  UnplugEndRead, UnplugTake, UnplugEndUrb, UnplugReset
    <2>6. \A u \in Urb : ~IoCancelIrp(u) /\ ~CancelRoutine(u)
      BY DEF Serial, SInv, UndisturbedOK, IoCancelIrp, CancelRoutine, remove_cancelled_urbr,
             cancel_urbr
    <2> QED
      BY <1>4, <2>2, <2>3, <2>4, <2>5, <2>6 DEF Next
  <1> QED
    BY <1>3, <1>4

VInv == SInv /\ StreamOK

LEMMA VInvHolds ==
  ASSUME Serial, OneReader
  PROVE  Spec => []VInv
  <1>1. Init => VInv
    BY InitSInv, InitStream DEF VInv
  <1>2. VInv /\ [Next]_vars => VInv'
    BY NextSInv, NextStream DEF VInv
  <1> QED
    BY <1>1, <1>2, PTL DEF Spec

(* What the program reads with one thread is a stream of commands in the   *)
(* order of their numbers, and the data of an OUT request follows its      *)
(* header immediately (usbip_proto.h:56, usbreq.c:187-208,                 *)
(* vhci_read.c:579-633).                                                   *)
THEOREM StreamIsFramed ==
  ASSUME Serial, OneReader
  PROVE  Spec => []WireFraming
  <1>1. VInv => WireFraming
    BY DEF VInv, StreamOK
  <1>2. Spec => []VInv
    BY VInvHolds
  <1> QED
    BY <1>1, <1>2, PTL

-----------------------------------------------------------------------------
(* The refinement                                                          *)

LEMMA NumberedIs ==
  ASSUME AInv, NumbersUsed
  PROVE  /\ Numbered \in Seq(Urb) /\ Len(Numbered) = seq_num /\ seq_num \in Nat
         /\ \A n \in 1 .. seq_num : Numbered[n] = Owner(n) /\ Service!Command(n) = Pieces(n)
         /\ Service!Commands = Upto(seq_num)
         /\ \A u \in Urb : urbr_seq[u] # 0 => urbr_seq[u] \in 1 .. seq_num
                                              /\ Numbered[urbr_seq[u]] = u
         /\ \A u \in Urb : urbr_seq[u] = 0 => ~Contains(Numbered, u)
  <1>1. seq_num \in Nat /\ \A u \in Urb : urbr_seq[u] \in Nat /\ urbr_seq[u] <= seq_num
    BY DEF AInv, TInv, TypeOK, NumberOK
  <1>2. \A n \in 1 .. seq_num : Owner(n) \in Urb /\ urbr_seq[Owner(n)] = n
    BY DEF NumbersUsed, Owner
  <1>3. Numbered = [n \in 1 .. seq_num |-> Owner(n)]
    BY DEF Numbered, Owner
  <1>4. Numbered \in Seq(Urb) /\ Len(Numbered) = seq_num
    BY <1>1, <1>2, <1>3, SeqDef
  <1>5. \A n \in 1 .. seq_num : Numbered[n] = Owner(n) /\ Service!Command(n) = Pieces(n)
    BY <1>3 DEF Service!Command, Service!Piece, Pieces, Piece
  <1>6. Service!Commands = Upto(seq_num)
    <2>1. [n \in 1 .. Len(Numbered) |-> Service!Command(n)] = [n \in 1 .. seq_num |-> Pieces(n)]
      BY <1>4, <1>5
    <2>2. \A s : Service!FlattenSeq(s) = FlattenSeq(s)
      BY Zenon DEF Service!FlattenSeq, FlattenSeq
    <2> QED
      BY <2>1, <2>2, Zenon DEF Service!Commands, Upto
  <1>7. \A u \in Urb : urbr_seq[u] # 0 => urbr_seq[u] \in 1 .. seq_num
                                           /\ Numbered[urbr_seq[u]] = u
    BY <1>1, <1>5, OwnerIs DEF AInv
  <1>8. \A u \in Urb : urbr_seq[u] = 0 => ~Contains(Numbered, u)
    BY <1>1, <1>2, <1>4, <1>5 DEF Contains
  <1> QED
    BY <1>1, <1>4, <1>5, <1>6, <1>7, <1>8

(* What UrbService sees of a step.                                         *)
Answered == {n \in SeqNum : writer[n].pc # "idle"}

Unseen == UNCHANGED <<irp, head_urbr_pending, urbr_seq, seq_num, wire, writer>>

LEMMA SameNumbers ==
  ASSUME UNCHANGED <<urbr_seq, seq_num>>
  PROVE  Numbered' = Numbered
  BY DEF Numbered

LEMMA UnseenStutters ==
  ASSUME Unseen
  PROVE  UNCHANGED Service!vars
  BY SameNumbers DEF Unseen, Service!vars

(* A number that is given makes a command.                                 *)
LEMMA NumberBecomes ==
  ASSUME AInv, AInv', NumbersUsed, NEW u \in Urb, Number(u), urbr_seq[u] = 0, irp[u] = "issued",
         IF head_urbr_pending = <<>> THEN UNCHANGED head_urbr_pending
         ELSE u = Head(head_urbr_pending) /\ head_urbr_pending' = Tail(head_urbr_pending),
         UNCHANGED <<irp, wire, writer>>
  PROVE  Service!Become(u)
  <1>1. /\ \A n \in 1 .. seq_num : Owner(n)' = Owner(n)
        /\ NumbersUsed' /\ seq_num' = seq_num + 1 /\ seq_num \in Nat
    BY OwnerKept DEF AInv, Number, TInv, TypeOK
  <1>2. urbr_seq'[u] = seq_num + 1
    BY DEF Number, AInv, TInv, TypeOK
  <1>3. /\ Numbered \in Seq(Urb) /\ Len(Numbered) = seq_num
        /\ ~Contains(Numbered, u)
        /\ \A n \in 1 .. seq_num : Numbered[n] = Owner(n)
    BY NumberedIs
  <1>4. /\ Numbered' \in Seq(Urb) /\ Len(Numbered') = seq_num + 1
        /\ Numbered'[seq_num + 1] = u
        /\ \A n \in 1 .. seq_num : Numbered'[n] = Owner(n)
    <2>1. \A n : n = seq_num + 1 => Owner(n)' = u
      <3>1. \A v \in Urb : urbr_seq'[v] = seq_num + 1 => v = u
        <4>1. seq_num + 1 # 0
          BY <1>1
        <4> QED
          BY <1>2, <4>1 DEF AInv, NumberOK
      <3> QED
        BY <1>2, <3>1 DEF Owner
    <2>2. Numbered' = [n \in 1 .. seq_num + 1 |-> Owner(n)']
      BY <1>1 DEF Numbered, Owner
    <2>3. \A n \in 1 .. seq_num : Owner(n) \in Urb
      <3>1. \A n \in 1 .. seq_num : Numbered[n] \in Urb
        BY <1>1, <1>3
      <3> QED
        BY <1>3, <3>1
    <2>4. \A n \in 1 .. seq_num + 1 : n = seq_num + 1 \/ n \in 1 .. seq_num
      BY <1>1
    <2>5. \A n \in 1 .. seq_num + 1 : Owner(n)' \in Urb
      BY <1>1, <2>1, <2>3, <2>4
    <2> QED
      BY <1>1, <2>1, <2>2, <2>5, SeqDef
  <1>5. Numbered' = Append(Numbered, u)
    <2>1. /\ Append(Numbered, u) \in Seq(Urb) /\ Len(Append(Numbered, u)) = seq_num + 1
          /\ Append(Numbered, u)[seq_num + 1] = u
          /\ \A n \in 1 .. seq_num : Append(Numbered, u)[n] = Owner(n)
      BY <1>3, AppendProperties
    <2>2. \A n \in 1 .. seq_num + 1 : Numbered'[n] = Append(Numbered, u)[n]
      <3> SUFFICES ASSUME NEW n \in 1 .. seq_num + 1
                   PROVE  Numbered'[n] = Append(Numbered, u)[n]
        OBVIOUS
      <3>1. n = seq_num + 1 \/ n \in 1 .. seq_num
        BY <1>1
      <3> QED
        BY <1>4, <2>1, <3>1
    <2> QED
      BY <1>4, <2>1, <2>2, SeqEqual
  <1> QED
    BY <1>3, <1>5 DEF Service!Become, Service!Contains, Contains

LEMMA PieceIsReceived ==
  ASSUME AInv, NumbersUsed, NEW m, NextPiece(m), wire' = Append(wire, m),
         UNCHANGED <<irp, head_urbr_pending, urbr_seq, seq_num, writer>>
  PROVE  Service!Receive
  <1>1. Len(wire) < Len(Upto(seq_num)) /\ m = Upto(seq_num)[Len(wire) + 1]
    BY PieceIsNext DEF AInv
  <1>2. Service!Commands = Upto(seq_num)
    BY NumberedIs
  <1> QED
    BY <1>1, <1>2, SameNumbers DEF Service!Receive

(* Every step of the program is a step of the service or invisible to it.  *)
LEMMA InternalServes ==
  ASSUME RInv, Calm, NEW u \in Urb, Bus_Internal_IoCtl(u)
  PROVE  Service!Accept(u) \/ Service!Refuse(u)
  <1>1. irp[u] = "idle" /\ Present
    BY DEF RInv, FreshOK, Bus_Internal_IoCtl, Calm
  <1>2. /\ UNCHANGED <<head_urbr_pending, urbr_seq, seq_num, wire, writer>>
        /\ \/ irp' = [irp EXCEPT ![u] = "issued"]
           \/ irp' = [irp EXCEPT ![u] = "rejected"]
    BY <1>1 DEF Bus_Internal_IoCtl, lists
  <1> QED
    BY <1>1, <1>2, SameNumbers DEF Service!Accept, Service!Refuse

LEMMA SubmitServes ==
  ASSUME Serial, OneReader, SInv, StreamOK, AInv', Calm', NEW u \in Urb,
         Bus_Internal_IoCtl(u) \/ Submit(u)
  PROVE  Service!Next \/ UNCHANGED Service!vars
  <1>1. ~Raced /\ AInv /\ Calm /\ FillOK /\ RaceOK /\ RInv
    BY Undisturbed DEF SInv
  <1> USE DEF AInv, TInv
  <1>2. ~SubmitRefused(u) /\ ~SubmitCancelled(u) /\ ~SubmitReturn(u)
    BY DEF SInv, UndisturbedOK, SubmitRefused, SubmitCancelled, SubmitReturn
  <1>3. CASE Bus_Internal_IoCtl(u)
    BY <1>1, <1>3, InternalServes DEF Service!Next
  <1>4. CASE \/ SubmitPending(u) \/ SubmitStore(u) \/ SubmitArmSent(u) \/ SubmitPartial(u)
             \/ SubmitInsert(u) /\ submit[u].pc = "arm_sent"
    <2>1. Unseen
      BY <1>1, <1>4, CalmStep, NoCrash
         DEF SubmitPending, SubmitStore, SubmitArmSent, SubmitPartial, SubmitInsert, Unseen,
             lists, urbs, irps
    <2> QED
      BY <2>1, UnseenStutters
  <1>5. CASE SubmitDirect(u)
    <2>1. head_urbr_pending = <<>>
      <3>1. Unlocked /\ urbr_sent_partial = NoUrb /\ pending_read_irp # NoRead
        BY <1>5 DEF SubmitDirect, MustQueue
      <3>2. ~SomeTakes
        BY <1>1, <3>1, TakenFills
      <3> QED
        BY <3>1, <3>2 DEF SInv, IdleOK
    <2>2. /\ Number(u) /\ submit[u].pc = "enter"
          /\ UNCHANGED <<irp, wire, writer, head_urbr_pending>>
      BY <1>5 DEF SubmitDirect, lists, irps
    <2>3. urbr_seq[u] = 0 /\ irp[u] = "issued"
      BY <1>1, <2>2 DEF NumberOK, Early, RaceOK, SubmitterHolds, Submitting
    <2>4. Service!Become(u)
      BY <1>1, <2>1, <2>2, <2>3, NumberBecomes DEF StreamOK
    <2> QED
      BY <2>4 DEF Service!Next
  <1>6. CASE SubmitInsert(u) /\ submit[u].pc = "arm_pending"
    <2>1. /\ head_urbr_pending' = Append(head_urbr_pending, u)
          /\ UNCHANGED <<irp, urbr_seq, seq_num, wire, writer>>
      BY <1>1, <1>6, CalmStep, NoCrash DEF SubmitInsert, urbs, irps
    <2>2. urbr_seq[u] = 0 /\ irp[u] = "issued"
      BY <1>1, <1>6 DEF NumberOK, Early, RaceOK, SubmitterHolds, Submitting
    <2>3. ~Contains(Numbered, u)
      BY <1>1, <2>2, NumberedIs DEF StreamOK
    <2>4. ~Contains(head_urbr_pending, u)
      <3>1. u \notin ToSet(head_urbr_pending)
        BY <1>1, <1>6 DEF PendingOK
      <3> QED
        BY <1>1, <3>1, ContainsIs, ListsTyped
    <2>5. Service!Wait(u)
      BY <2>1, <2>2, <2>3, <2>4, SameNumbers DEF Service!Wait, Service!Contains, Contains
    <2> QED
      BY <2>5 DEF Service!Next
  <1>7. CASE SubmitCompleteRead(u)
    <2>1. NextPiece(Buf(u)) /\ wire' = Append(wire, Buf(u))
      BY <1>1, <1>7, SubmitCompleteReadStreams
    <2>2. UNCHANGED <<irp, head_urbr_pending, urbr_seq, seq_num, writer>>
      BY <1>1, <1>7, CalmStep, NoCrash DEF SubmitCompleteRead, lists, urbs, irps
    <2>3. Service!Receive
      BY <1>1, <2>1, <2>2, PieceIsReceived DEF StreamOK
    <2> QED
      BY <2>3 DEF Service!Next
  <1>8. SubmitInsert(u) => submit[u].pc \in {"arm_pending", "arm_sent"}
    BY DEF SubmitInsert
  <1> QED
    BY <1>2, <1>3, <1>4, <1>5, <1>6, <1>7, <1>8 DEF Submit

LEMMA ReadServes ==
  ASSUME Serial, OneReader, SInv, StreamOK, AInv', Calm', NEW r \in Reader, Read(r)
  PROVE  Service!Next \/ UNCHANGED Service!vars
  <1>1. ~Raced /\ AInv /\ Calm /\ FillOK /\ RaceOK
    BY Undisturbed DEF SInv
  <1> USE DEF AInv, TInv
  <1>2. ~ReadRefusedUrb(r) /\ ~ReadFail(r)
    BY DEF SInv, UndisturbedOK, ReadRefusedUrb, ReadFail
  <1>3. CASE \/ Bus_Read(r) \/ ReadRefused(r) \/ ReadRest(r) \/ ReadWait(r) \/ ReadStore(r)
             \/ ReadStored(r)
    <2>1. Unseen
      BY <1>1, <1>3, CalmStep, NoCrash
         DEF Bus_Read, ReadRefused, ReadRest, ReadWait, ReadStore, ReadStored, Unseen, lists,
             urbs, irps
    <2> QED
      BY <2>1, UnseenStutters
  <1>4. CASE ReadPending(r)
    <2>1. PICK u : u = Head(head_urbr_pending)
      OBVIOUS
    <2>2. /\ Number(u) /\ head_urbr_pending # <<>>
          /\ head_urbr_pending' = Tail(head_urbr_pending)
          /\ UNCHANGED <<irp, wire, writer>>
      BY <1>1, <1>4, <2>1, CalmStep, NoCrash DEF ReadPending, irps
    <2>3. u \in ToSet(head_urbr_pending) /\ u \in Urb /\ urbr_seq[u] = 0
      <3>1. head_urbr_pending \in Seq(Urb) /\ Distinct(head_urbr_pending)
        BY <1>1 DEF TypeOK, PendingOK
      <3>2. u \in ToSet(head_urbr_pending)
        BY <2>1, <2>2, <3>1, TailElements
      <3> QED
        BY <1>1, <3>1, <3>2, ToSetTyped DEF PendingOK
    <2>4. irp[u] = "issued"
      BY <1>1, <2>3 DEF RaceOK, ListsOK, Pending
    <2>5. Service!Become(u)
      BY <1>1, <2>1, <2>2, <2>3, <2>4, NumberBecomes DEF StreamOK
    <2> QED
      BY <2>3, <2>5 DEF Service!Next
  <1>5. CASE ReadReturn(r)
    <2>1. NextPiece(reader[r].buf) /\ wire' = Append(wire, reader[r].buf)
      BY <1>1, <1>5, ReadReturnStreams
    <2>2. UNCHANGED <<irp, head_urbr_pending, urbr_seq, seq_num, writer>>
      BY <1>5 DEF ReadReturn, lists, urbs, irps
    <2>3. Service!Receive
      BY <1>1, <2>1, <2>2, PieceIsReceived DEF StreamOK
    <2> QED
      BY <2>3 DEF Service!Next
  <1> QED
    BY <1>2, <1>3, <1>4, <1>5 DEF Read

LEMMA WriteServes ==
  ASSUME SInv, Serial, StreamOK, Calm', NEW n \in SeqNum, Write(n)
  PROVE  Service!Next \/ UNCHANGED Service!vars
  <1>1. ~Raced /\ AInv /\ Calm /\ FillOK /\ RaceOK
    BY Undisturbed DEF SInv
  <1> USE DEF AInv, TInv
  <1>2. Numbered \in Seq(Urb) /\ Len(Numbered) = seq_num /\ seq_num \in Nat
    BY <1>1, NumberedIs DEF StreamOK
  <1>3. DOMAIN Numbered = 1 .. seq_num
    BY <1>2, LenProperties
  <1>4. writer \in [SeqNum -> WriterState]
    BY <1>1 DEF TypeOK
  <1>5. CASE Bus_Write(n)
    <2>1. /\ Received(n) /\ writer[n].pc = "idle" /\ WriterTo(n, "enter")
          /\ UNCHANGED <<irp, head_urbr_pending, urbr_seq, seq_num, wire>>
      BY <1>1, <1>5 DEF Bus_Write, lists, urbs, irps, Calm
    <2>2. Answered' = Answered \cup {n} /\ n \notin Answered
      <3>1. \A k \in SeqNum : writer'[k].pc = IF k = n THEN "enter" ELSE writer[k].pc
        BY <1>4, <2>1 DEF WriterTo, WriterState
      <3> QED
        BY <2>1, <3>1 DEF Answered
    <2>3. PICK i \in 1 .. Len(wire) : wire[i].seq = n /\ wire[i].part \in {"whole", "data"}
      <3>1. wire \in Seq(Message)
        BY <1>1 DEF TypeOK
      <3> QED
        BY <2>1, <3>1, LenProperties DEF Received, ToSet
    <2>4. n \in 1 .. seq_num /\ (wire[i].part = "whole" <=> Owner(n) \notin Oversize)
      BY <2>3 DEF StreamOK, PiecesOK
    <2>5. wire[i] = Piece(n, IF Owner(n) \in Oversize THEN "data" ELSE "whole")
      <3>1. wire[i] \in Message
        BY <1>1, <2>3 DEF TypeOK
      <3>2. wire[i] = Piece(wire[i].seq, wire[i].part)
        BY <3>1 DEF Message, Piece
      <3> QED
        BY <2>3, <2>4, <3>2
    <2>6. Service!Last(Service!Command(n)) = wire[i]
      <3>1. Service!Command(n) = Pieces(n)
        BY <1>1, <2>4, NumberedIs DEF StreamOK
      <3>2. Service!Last(Pieces(n)) = Piece(n, IF Owner(n) \in Oversize THEN "data" ELSE "whole")
        BY DEF Service!Last, Pieces
      <3> QED
        BY <2>5, <3>1, <3>2
    <2>7. Service!Contains(wire, Service!Last(Service!Command(n)))
      BY <2>3, <2>6 DEF Service!Contains
    <2>8. Service!Answer(n)
      BY <2>1, <2>2, <2>7, SameNumbers DEF Service!Answer, Answered
    <2> QED
      BY <1>3, <2>4, <2>8 DEF Service!Next
  <1>6. CASE WriteFind(n)
    <2>1. /\ UNCHANGED <<irp, head_urbr_pending, urbr_seq, seq_num, wire>>
          /\ writer[n].pc = "enter"
          /\ \/ WriterTo(n, "done")
             \/ \E u : writer' = [writer EXCEPT ![n] = [pc |-> "found", urbr |-> u]]
      BY <1>1, <1>6, CalmStep, NoCrash DEF WriteFind, lists, urbs, irps
    <2>2. \A k \in SeqNum : k # n => writer'[k] = writer[k]
      BY <1>4, <2>1 DEF WriterTo
    <2>3. writer'[n].pc # "idle"
      BY <1>4, <2>1 DEF WriterTo, WriterState
    <2>4. Answered' = Answered
      BY <2>1, <2>2, <2>3 DEF Answered
    <2> QED
      BY <2>1, <2>4, SameNumbers DEF Service!vars, Answered
  <1>7. CASE WriteComplete(n)
    <2> DEFINE u == writer[n].urbr
    <2>1. /\ writer[n].pc = "found" /\ CompleteUrb(u, "replied") /\ WriterTo(n, "done")
          /\ UNCHANGED <<head_urbr_pending, urbr_seq, seq_num, wire>>
      BY <1>1, <1>7, CalmStep, NoCrash DEF WriteComplete, lists
    <2>2. irp[u] = "issued" /\ u \in Urb /\ urbr_seq[u] = n
      BY <1>1, <2>1 DEF RaceOK, WriterHolds, Pending, AnswerOK
    <2>3. n # 0 /\ n \in 1 .. seq_num /\ Numbered[n] = u
      <3>1. n # 0
        BY DEF SeqNum
      <3> QED
        BY <1>1, <2>2, <3>1, NumberedIs DEF StreamOK
    <2>4. irp' = [irp EXCEPT ![u] = "replied"]
      BY <2>1, <2>2 DEF CompleteUrb
    <2>5. Answered' = Answered /\ n \in Answered
      <3>1. \A k \in SeqNum : writer'[k].pc = IF k = n THEN "done" ELSE writer[k].pc
        BY <1>4, <2>1 DEF WriterTo, WriterState
      <3> QED
        BY <2>1, <3>1 DEF Answered
    <2> HIDE DEF u
    <2>6. Service!Reply(n)
      BY <2>1, <2>2, <2>3, <2>4, <2>5, SameNumbers DEF Service!Reply, Answered
    <2> QED
      BY <1>3, <2>3, <2>6 DEF Service!Next
  <1> QED
    BY <1>5, <1>6, <1>7 DEF Write

LEMMA StepServes ==
  ASSUME Serial, OneReader, VInv, [Next]_vars
  PROVE  [Service!Next]_(Service!vars)
  <1>1. ~Raced /\ AInv /\ Calm /\ FillOK /\ RaceOK /\ SInv /\ StreamOK
    BY Undisturbed DEF VInv, SInv
  <1>2. AInv'
    BY <1>1, NextSInv DEF SInv, RInv, FInv
  <1>3. CASE UNCHANGED vars
    <2>1. Unseen
      BY <1>3 DEF vars, lists, urbs, irps, threads, Unseen
    <2> QED
      BY <2>1, UnseenStutters
  <1>4. CASE Next
    <2>1. fault' = "none" => Calm'
      BY <1>1, <1>4, StaysPresent DEF Calm
    <2>2. ASSUME NEW u \in Urb, Bus_Internal_IoCtl(u) \/ Submit(u)
          PROVE  [Service!Next]_(Service!vars)
      BY <1>1, <1>2, <2>1, <2>2, NoFaultSubmit, SubmitServes
    <2>3. ASSUME NEW r \in Reader, Read(r)
          PROVE  [Service!Next]_(Service!vars)
      BY <1>1, <1>2, <2>1, <2>3, NoFaultRead, ReadServes
    <2>4. ASSUME NEW n \in SeqNum, Write(n)
          PROVE  [Service!Next]_(Service!vars)
      BY <1>1, <2>1, <2>4, NoFaultWrite, WriteServes
    <2>5. ~bus_unplug_dev /\ ~Unplug
      BY <1>1 DEF Serial, FillOK, ReadsOK, Unplug, bus_unplug_dev, complete_pending_read_irp,
                  UnplugEndRead, UnplugTake, UnplugEndUrb, UnplugReset
    <2>6. \A u \in Urb : ~IoCancelIrp(u) /\ ~CancelRoutine(u)
      BY <1>1 DEF Serial, SInv, UndisturbedOK, IoCancelIrp, CancelRoutine,
                  remove_cancelled_urbr, cancel_urbr
    <2> QED
      BY <1>4, <2>2, <2>3, <2>4, <2>5, <2>6 DEF Next
  <1> QED
    BY <1>3, <1>4

LEMMA InitServes ==
  ASSUME Init
  PROVE  Service!Init
  <1>1. Numbered = <<>>
    <2>1. Numbered = [n \in 1 .. 0 |-> CHOOSE u \in Urb : urbr_seq[u] = n]
      BY DEF Init, Numbered
    <2> QED
      BY <2>1
  <1>2. \A n \in SeqNum : writer[n].pc = "idle"
    BY DEF Init
  <1> QED
    BY <1>1, <1>2 DEF Init, Service!Init

(* With one reading thread, nothing being cancelled, refused or unplugged, *)
(* the driver implements the first-come first-served service, whatever the *)
(* interleaving of submissions, reads and writes: no command is skipped,   *)
(* repeated or torn, none overtakes another, and an answer ends the        *)
(* request whose number it carries (usbreq.c:136-210, vhci_read.c:579-633, *)
(* vhci_write.c:296-334).                                                  *)
THEOREM QueueServesInOrder ==
  ASSUME Serial, OneReader
  PROVE  Spec => ServesInOrder
  <1>1. Init => Service!Init
    BY InitServes
  <1>2. VInv /\ [Next]_vars => [Service!Next]_(Service!vars)
    BY StepServes
  <1>3. Spec => []VInv
    BY VInvHolds
  <1> QED
    BY <1>1, <1>2, <1>3, PTL DEF Spec, ServesInOrder, Service!Spec

=============================================================================
