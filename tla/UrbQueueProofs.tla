--------------------------- MODULE UrbQueueProofs ---------------------------
(***************************************************************************)
(* What holds of UrbQueue for any number of requests and of readers,       *)
(* whatever is cancelled, refused or unplugged: its types, that an answer  *)
(* reaches the request it was sent for, and that no request is lost.       *)
(***************************************************************************)
EXTENDS UrbQueue, SequenceTheorems, FiniteSetTheorems, TLAPS

(* A submitter past the point where it took a read holds one, and a read   *)
(* past the point where it took a request.                                 *)
SubmitOK ==
    /\ submit \in [Urb -> SubmitState]
    /\ \A u \in Urb : submit[u].pc \in {"store", "stored", "arm_sent", "complete_read"} =>
                         submit[u].read \in Reader

ReaderOK ==
    /\ reader \in [Reader -> ReaderState]
    /\ \A r \in Reader : reader[r].pc \notin {"idle", "pending", "enter", "return"} =>
                            reader[r].urbr \in Urb

TInv == TypeOK /\ SubmitOK /\ ReaderOK

-----------------------------------------------------------------------------
(* Lists                                                                   *)

(* Removing an entry keeps a list of requests one.                         *)
LEMMA RemoveAtTyped ==
  ASSUME NEW list \in Seq(Urb), NEW i \in DOMAIN list
  PROVE  RemoveAt(list, i) \in Seq(Urb)
  BY LenProperties, SubSeqProperties, ConcatProperties DEF RemoveAt

LEMMA AppendTyped ==
  ASSUME NEW list \in Seq(Urb), NEW u \in Urb
  PROVE  Append(list, u) \in Seq(Urb)
  BY AppendProperties

LEMMA UnlinkTyped ==
  ASSUME NEW list \in Seq(Urb), NEW u
  PROVE  Unlink(list, u) \in Seq(Urb)
  <1>1. CASE Contains(list, u)
    <2>1. (CHOOSE i \in DOMAIN list : list[i] = u) \in DOMAIN list
      BY <1>1, LenProperties DEF Contains
    <2> QED
      BY <1>1, <2>1, RemoveAtTyped DEF Unlink
  <1>2. CASE ~Contains(list, u)
    BY <1>2 DEF Unlink
  <1> QED
    BY <1>1, <1>2

-----------------------------------------------------------------------------
(* What the steps are made of                                              *)

LEMMA SubmitToOK ==
  ASSUME SubmitOK, NEW u \in Urb, NEW pc \in {"idle", "done"} \cup Submitting,
         pc \in {"store", "stored", "arm_sent", "complete_read"} => submit[u].read \in Reader,
         SubmitTo(u, pc)
  PROVE  SubmitOK'
  <1>1. /\ submit' \in [Urb -> SubmitState]
        /\ \A v \in Urb : submit'[v].read = submit[v].read
        /\ \A v \in Urb : submit'[v].pc = IF v = u THEN pc ELSE submit[v].pc
    BY DEF SubmitOK, SubmitTo, SubmitState
  <1> QED
    BY <1>1 DEF SubmitOK

LEMMA ReaderToOK ==
  ASSUME ReaderOK, NEW r, NEW pc \in {"idle", "pending"} \cup Reading,
         pc \notin {"idle", "pending", "enter", "return"} => reader[r].urbr \in Urb,
         ReaderTo(r, pc)
  PROVE  ReaderOK'
  <1>1. /\ reader' \in [Reader -> ReaderState]
        /\ \A q \in Reader : reader'[q].urbr = reader[q].urbr
        /\ \A q \in Reader : reader'[q].pc = IF q = r THEN pc ELSE reader[q].pc
    BY DEF ReaderOK, ReaderTo, ReaderState
  <1> QED
    BY <1>1 DEF ReaderOK

LEMMA StoreOK ==
  ASSUME ReaderOK, urbr_seq \in [Urb -> Nat],
         NEW r, NEW u \in Urb, NEW out \in {"whole", "header", "data"}
  PROVE  /\ store_urbr(r, u, out) \in [Reader -> ReaderState]
         /\ \A q \in Reader : store_urbr(r, u, out)[q].pc = reader[q].pc
         /\ \A q \in Reader : store_urbr(r, u, out)[q].urbr = reader[q].urbr
  <1>1. [seq |-> urbr_seq[u], part |-> out] \in Message
    BY DEF Message
  <1> QED
    BY <1>1 DEF ReaderOK, ReaderState, store_urbr

LEMMA StoreInOK ==
  ASSUME ReaderOK, urbr_seq \in [Urb -> Nat],
         NEW r, NEW u \in Urb, NEW out \in {"whole", "header", "data"},
         reader' = store_urbr(r, u, out)
  PROVE  ReaderOK'
  BY StoreOK DEF ReaderOK

LEMMA StoreOnOK ==
  ASSUME ReaderOK, urbr_seq \in [Urb -> Nat],
         NEW r, NEW u \in Urb, NEW out \in {"whole", "header", "data"}, NEW pc \in Reading,
         reader[r].urbr \in Urb, reader' = [store_urbr(r, u, out) EXCEPT ![r].pc = pc]
  PROVE  ReaderOK'
  <1> DEFINE stored == store_urbr(r, u, out)
  <1>1. /\ stored \in [Reader -> ReaderState]
        /\ \A q \in Reader : stored[q].pc = reader[q].pc /\ stored[q].urbr = reader[q].urbr
    BY StoreOK
  <1> HIDE DEF stored
  <1>2. /\ reader' \in [Reader -> ReaderState]
        /\ \A q \in Reader : /\ reader'[q].urbr = stored[q].urbr
                             /\ reader'[q].pc = IF q = r THEN pc ELSE stored[q].pc
    BY <1>1 DEF ReaderState, stored
  <1> QED
    BY <1>1, <1>2 DEF ReaderOK

LEMMA TakeOK ==
  ASSUME ReaderOK, NEW r, NEW u \in Urb, NEW pc \in Reading,
         reader' = [reader EXCEPT ![r].pc = pc, ![r].urbr = u]
  PROVE  ReaderOK'
  <1>1. /\ reader' \in [Reader -> ReaderState]
        /\ \A q \in Reader \ {r} : reader'[q] = reader[q]
        /\ r \in Reader => reader'[r].urbr = u
    BY DEF ReaderOK, ReaderState
  <1> QED
    BY <1>1 DEF ReaderOK

LEMMA UnplugToTyped ==
  ASSUME TypeOK, NEW pc \in {"idle", "complete_read", "end_read", "clear", "end_urb", "done"}
  PROVE  /\ [unplug EXCEPT !.pc = pc] \in UnplugState
         /\ \A u \in Urb : [unplug EXCEPT !.pc = pc, !.urbr = u] \in UnplugState
  BY DEF TypeOK, UnplugState

LEMMA DeliverOK ==
  ASSUME ReaderOK, wire \in Seq(Message), NEW r \in Reader, Deliver(r)
  PROVE  ReaderOK' /\ wire' \in Seq(Message)
  <1>1. reader[r].buf \in Message
    BY DEF ReaderOK, ReaderState
  <1>2. wire' \in Seq(Message)
    BY <1>1, AppendProperties DEF Deliver
  <1>3. ReaderOK'
    BY ReaderToOK DEF Deliver
  <1> QED
    BY <1>2, <1>3

LEMMA WriterToTyped ==
  ASSUME TypeOK, NEW n, NEW pc \in {"idle", "enter", "found", "done"}, WriterTo(n, pc)
  PROVE  writer' \in [SeqNum -> WriterState]
  BY DEF TypeOK, WriterTo, WriterState

LEMMA WriterTakesTyped ==
  ASSUME TypeOK, NEW n, NEW u \in Urb,
         writer' = [writer EXCEPT ![n] = [pc |-> "found", urbr |-> u]]
  PROVE  writer' \in [SeqNum -> WriterState]
  BY DEF TypeOK, WriterState

LEMMA CancellerToTyped ==
  ASSUME TypeOK, NEW u, NEW pc \in CancellerState, CancellerTo(u, pc)
  PROVE  canceller' \in [Urb -> CancellerState]
  BY DEF TypeOK, CancellerTo

LEMMA FreeTyped ==
  ASSUME TypeOK, NEW u, Free(u)
  PROVE  urbr' \in [Urb -> {"none", "live", "freed"}]
  BY DEF TypeOK, Free

LEMMA NumberTyped ==
  ASSUME TypeOK, NEW u, Number(u)
  PROVE  urbr_seq' \in [Urb -> Nat] /\ seq_num' \in Nat
  <1>1. urbr_seq \in [Urb -> Nat] /\ seq_num \in Nat
    BY DEF TypeOK
  <1>2. seq_num + 1 \in Nat
    BY <1>1
  <1> QED
    BY <1>1, <1>2 DEF Number

LEMMA CompleteUrbTyped ==
  ASSUME TypeOK, NEW u, NEW how \in Ended, CompleteUrb(u, how)
  PROVE  irp' \in [Urb -> {"idle", "issued"} \cup Ended] /\ fault' \in Fault \cup {"none"}
  BY DEF TypeOK, CompleteUrb, Fault

(* A fault changes nothing else.                                           *)
Crashes == \E kind \in Fault : Crash(kind)

LEMMA CrashStep ==
  ASSUME TInv, Crashes
  PROVE  TInv'
  BY DEF TInv, TypeOK, SubmitOK, ReaderOK, Crashes, Crash, partial, lists, urbs, irps, threads

LEMMA NoCrash ==
  ~Crashes => ~Crash("use_after_free") /\ ~Crash("double_completion")
              /\ ~Crash("list_corruption")
  BY DEF Crashes, Fault

-----------------------------------------------------------------------------
(* The initial states                                                      *)

LEMMA InitTInv == Init => TInv
  <1> SUFFICES ASSUME Init PROVE TInv
    OBVIOUS
  <1>1. head_urbr \in Seq(Urb) /\ head_urbr_pending \in Seq(Urb) /\ head_urbr_sent \in Seq(Urb)
        /\ wire \in Seq(Message)
    BY EmptySeq DEF Init
  <1>2. Present \in BOOLEAN
    BY DEF Init
  <1>3. NoMessage \in Message
    BY DEF NoMessage, Message
  <1>4. SubmitOK /\ ReaderOK
    BY <1>3 DEF Init, SubmitOK, SubmitState, ReaderOK, ReaderState
  <1>5. writer \in [SeqNum -> WriterState] /\ unplug \in UnplugState
        /\ canceller \in [Urb -> CancellerState]
    BY DEF Init, WriterState, UnplugState, CancellerState
  <1> QED
    BY <1>1, <1>2, <1>4, <1>5 DEF Init, TInv, TypeOK, SubmitOK, ReaderOK

-----------------------------------------------------------------------------
(* The steps                                                               *)

(* A URB request is sent, queued, stored in a waiting read, or refused.    *)
LEMMA SubmitStep ==
  ASSUME TInv, ~Crashes, NEW u \in Urb,
         Bus_Internal_IoCtl(u) \/ SubmitPending(u) \/ SubmitDirect(u)
         \/ SubmitStore(u) \/ SubmitRefused(u) \/ SubmitArmSent(u)
         \/ SubmitPartial(u) \/ SubmitCancelled(u) \/ SubmitInsert(u)
         \/ SubmitCompleteRead(u) \/ SubmitReturn(u)
  PROVE  TInv'
  <1> USE DEF TInv
  <1>1. CASE Bus_Internal_IoCtl(u)
    <2>1. SubmitOK'
      BY <1>1, SubmitToOK
         DEF Bus_Internal_IoCtl, Submitting
    <2>2. urbr' \in [Urb -> {"none", "live", "freed"}]
      BY <1>1
         DEF Bus_Internal_IoCtl, TypeOK
    <2>3. irp' \in [Urb -> {"idle", "issued"} \cup Ended]
      BY <1>1
         DEF Bus_Internal_IoCtl, TypeOK, Ended
    <2> QED
      BY <1>1, <2>1, <2>2, <2>3
         DEF Bus_Internal_IoCtl, TypeOK, SubmitOK, ReaderOK, partial, lists
  <1>2. CASE SubmitPending(u)
    <2>1. SubmitOK'
      BY <1>2, SubmitToOK
         DEF SubmitPending, Submitting
    <2> QED
      BY <1>2, <2>1
         DEF SubmitPending, TypeOK, SubmitOK, ReaderOK, partial, lists, urbs
  <1>3. CASE SubmitDirect(u)
    <2>1. SubmitOK'
      BY <1>3
         DEF SubmitDirect, TypeOK, MustQueue, SubmitOK, SubmitState, Submitting
    <2>2. urbr_seq' \in [Urb -> Nat] /\ seq_num' \in Nat
      BY <1>3, NumberTyped
         DEF SubmitDirect
    <2> QED
      BY <1>3, <2>1, <2>2
         DEF SubmitDirect, TypeOK, SubmitOK, ReaderOK, lists, irps
  <1>4. CASE SubmitStore(u)
    <2>1. SubmitOK'
      BY <1>4, NoCrash, SubmitToOK
         DEF SubmitStore, Submitting, SubmitOK
    <2>2. StoreOutcomes(u) \ {"error"} \subseteq {"whole", "header"}
      BY <1>4, NoCrash
         DEF SubmitStore, StoreOutcomes
    <2>3. \/ UNCHANGED reader
          \/ \E out \in {"whole", "header"} : reader' = store_urbr(submit[u].read, u, out)
      BY <1>4, NoCrash, <2>2
         DEF SubmitStore
    <2>4. ReaderOK'
      BY <2>3, StoreInOK
         DEF TypeOK, ReaderOK
    <2>5. len_sent_partial' \in {0, HeaderSize}
      BY <1>4, NoCrash
         DEF SubmitStore, TypeOK, LenAfter, partial
    <2> QED
      BY <1>4, NoCrash, <2>1, <2>2, <2>3, <2>4, <2>5
         DEF SubmitStore, TypeOK, SubmitOK, ReaderOK, lists, urbs, irps
  <1>5. CASE SubmitRefused(u)
    <2>1. SubmitOK'
      BY <1>5, SubmitToOK
         DEF SubmitRefused, Submitting
    <2>2. urbr' \in [Urb -> {"none", "live", "freed"}]
      BY <1>5, FreeTyped
         DEF SubmitRefused
    <2> QED
      BY <1>5, <2>1, <2>2
         DEF SubmitRefused, TypeOK, SubmitOK, ReaderOK, lists, irps
  <1>6. CASE SubmitArmSent(u)
    <2>1. SubmitOK'
      BY <1>6, SubmitToOK
         DEF SubmitArmSent, Submitting, SubmitOK
    <2> QED
      BY <1>6, <2>1
         DEF SubmitArmSent, TypeOK, SubmitOK, ReaderOK, lists, urbs
  <1>7. CASE SubmitPartial(u)
    <2>1. SubmitOK'
      BY <1>7, NoCrash, SubmitToOK
         DEF SubmitPartial, Submitting, SubmitOK
    <2>2. head_urbr' \in Seq(Urb)
      BY <1>7, NoCrash, AppendTyped
         DEF SubmitPartial, TypeOK, ListUrb
    <2> QED
      BY <1>7, NoCrash, <2>1, <2>2
         DEF SubmitPartial, TypeOK, SubmitOK, ReaderOK, partial, urbs, irps
  <1>8. CASE SubmitCancelled(u)
    <2>1. SubmitOK'
      BY <1>8, SubmitToOK
         DEF SubmitCancelled, Submitting
    <2>2. urbr' \in [Urb -> {"none", "live", "freed"}]
      BY <1>8, FreeTyped
         DEF SubmitCancelled
    <2> QED
      BY <1>8, <2>1, <2>2
         DEF SubmitCancelled, TypeOK, SubmitOK, ReaderOK, partial, lists
  <1>9. CASE SubmitInsert(u)
    <2>1. SubmitOK'
      BY <1>9, NoCrash, SubmitToOK
         DEF SubmitInsert, Submitting, SubmitOK
    <2>2. head_urbr' \in Seq(Urb)
      BY <1>9, NoCrash, AppendTyped
         DEF SubmitInsert, TypeOK, ListUrb
    <2>3. head_urbr_pending' \in Seq(Urb)
      BY <1>9, NoCrash, AppendTyped
         DEF SubmitInsert, TypeOK
    <2>4. head_urbr_sent' \in Seq(Urb)
      BY <1>9, NoCrash, AppendTyped
         DEF SubmitInsert, TypeOK, AwaitAnswer
    <2> QED
      BY <1>9, NoCrash, <2>1, <2>2, <2>3, <2>4
         DEF SubmitInsert, TypeOK, SubmitOK, ReaderOK, partial, urbs, irps
  <1>10. CASE SubmitCompleteRead(u)
    <2>1. SubmitOK'
      BY <1>10, NoCrash, SubmitToOK
         DEF SubmitCompleteRead, Submitting
    <2>2. ReaderOK' /\ wire' \in Seq(Message)
      BY <1>10, NoCrash, DeliverOK
         DEF SubmitCompleteRead, TypeOK, SubmitOK
    <2> QED
      BY <1>10, NoCrash, <2>1, <2>2
         DEF SubmitCompleteRead, TypeOK, SubmitOK, ReaderOK, partial, lists, urbs, irps
  <1>11. CASE SubmitReturn(u)
    <2>1. SubmitOK'
      BY <1>11, SubmitToOK
         DEF SubmitReturn, Submitting
    <2>2. irp' \in [Urb -> {"idle", "issued"} \cup Ended] /\ fault' \in Fault \cup {"none"}
      BY <1>11, CompleteUrbTyped
         DEF SubmitReturn, Ended
    <2> QED
      BY <1>11, <2>1, <2>2
         DEF SubmitReturn, TypeOK, SubmitOK, ReaderOK, partial, lists, urbs
  <1> QED
    BY <1>1, <1>2, <1>3, <1>4, <1>5, <1>6, <1>7, <1>8, <1>9, <1>10, <1>11

(* A read waits, takes a request, fills itself from it, and returns.       *)
LEMMA ReadStep ==
  ASSUME TInv, ~Crashes, NEW r \in Reader,
         Bus_Read(r) \/ ReadRefused(r) \/ ReadRest(r) \/ ReadPending(r)
         \/ ReadWait(r) \/ ReadStore(r) \/ ReadStored(r) \/ ReadRefusedUrb(r)
         \/ ReadFail(r) \/ ReadReturn(r)
  PROVE  TInv'
  <1> USE DEF TInv
  <1>1. CASE Bus_Read(r)
    <2>1. ReaderOK'
      BY <1>1, ReaderToOK
         DEF Bus_Read, Reading
    <2> QED
      BY <1>1, <2>1
         DEF Bus_Read, TypeOK, SubmitOK, ReaderOK, partial, lists, urbs, irps
  <1>2. CASE ReadRefused(r)
    <2>1. ReaderOK'
      BY <1>2, ReaderToOK
         DEF ReadRefused, Reading
    <2> QED
      BY <1>2, <2>1
         DEF ReadRefused, TypeOK, SubmitOK, ReaderOK, partial, lists, urbs, irps
  <1>3. CASE ReadRest(r)
    <2>1. ReaderOK'
      BY <1>3, TakeOK
         DEF ReadRest, TypeOK, Reading
    <2> QED
      BY <1>3, <2>1
         DEF ReadRest, TypeOK, SubmitOK, ReaderOK, partial, lists, urbs, irps
  <1>4. CASE ReadPending(r)
    <2>1. Head(head_urbr_pending) \in Urb /\ Tail(head_urbr_pending) \in Seq(Urb)
      BY <1>4, NoCrash, HeadTailProperties
         DEF ReadPending, TypeOK
    <2>2. ReaderOK'
      BY <1>4, NoCrash, <2>1, TakeOK
         DEF ReadPending, Reading
    <2>3. urbr_seq' \in [Urb -> Nat] /\ seq_num' \in Nat
      BY <1>4, NoCrash, NumberTyped
         DEF ReadPending
    <2> QED
      BY <1>4, NoCrash, <2>1, <2>2, <2>3
         DEF ReadPending, TypeOK, SubmitOK, ReaderOK, irps
  <1>5. CASE ReadWait(r)
    <2>1. ReaderOK'
      BY <1>5, ReaderToOK
         DEF ReadWait, Reading
    <2> QED
      BY <1>5, <2>1
         DEF ReadWait, TypeOK, SubmitOK, ReaderOK, partial, lists, urbs, irps
  <1>6. CASE ReadStore(r)
    <2>1. reader[r].urbr \in Urb
      BY <1>6, NoCrash
         DEF ReadStore, ReaderOK
    <2>2. PartialOutcomes(reader[r].urbr) \cup StoreOutcomes(reader[r].urbr)
          \subseteq {"whole", "header", "data", "error"}
      BY <1>6, NoCrash
         DEF ReadStore, StoreOutcomes, PartialOutcomes
    <2>3. \/ \E pc \in Reading : ReaderTo(r, pc)
          \/ \E out \in {"whole", "header", "data"}, pc \in Reading :
                reader' = [store_urbr(r, reader[r].urbr, out) EXCEPT ![r].pc = pc]
      BY <1>6, NoCrash, <2>2
         DEF ReadStore, Reading
    <2>4. ReaderOK'
      BY <2>1, <2>3, StoreOnOK, ReaderToOK
         DEF TypeOK, ReaderOK
    <2>5. len_sent_partial' \in {0, HeaderSize}
      BY <1>6, NoCrash
         DEF ReadStore, TypeOK, LenAfter, partial
    <2> QED
      BY <1>6, NoCrash, <2>1, <2>2, <2>3, <2>4, <2>5
         DEF ReadStore, TypeOK, SubmitOK, ReaderOK, lists, urbs, irps
  <1>7. CASE ReadStored(r)
    <2>1. ReaderOK'
      BY <1>7, NoCrash, ReaderToOK
         DEF ReadStored, Reading
    <2>2. reader[r].urbr \in Urb
      BY <1>7, NoCrash
         DEF ReadStored, ReaderOK
    <2>3. head_urbr_sent' \in Seq(Urb)
      BY <1>7, NoCrash, <2>2, AppendTyped
         DEF ReadStored, TypeOK, AwaitAnswer
    <2>4. len_sent_partial' \in {0, HeaderSize}
      BY <1>7, NoCrash
         DEF ReadStored, TypeOK, LenAfter, partial
    <2> QED
      BY <1>7, NoCrash, <2>1, <2>2, <2>3, <2>4
         DEF ReadStored, TypeOK, SubmitOK, ReaderOK, urbs, irps
  <1>8. CASE ReadRefusedUrb(r)
    <2>1. ReaderOK'
      BY <1>8, NoCrash, ReaderToOK
         DEF ReadRefusedUrb, Reading, ReaderOK
    <2>2. head_urbr' \in Seq(Urb)
      BY <1>8, NoCrash, UnlinkTyped
         DEF ReadRefusedUrb, TypeOK
    <2>3. len_sent_partial' \in {0, HeaderSize}
      BY <1>8, NoCrash
         DEF ReadRefusedUrb, TypeOK, LenAfter, partial
    <2> QED
      BY <1>8, NoCrash, <2>1, <2>2, <2>3
         DEF ReadRefusedUrb, TypeOK, SubmitOK, ReaderOK, urbs, irps
  <1>9. CASE ReadFail(r)
    <2>1. ReaderOK'
      BY <1>9, ReaderToOK
         DEF ReadFail, Reading
    <2>2. urbr' \in [Urb -> {"none", "live", "freed"}]
      BY <1>9, FreeTyped
         DEF ReadFail
    <2>3. irp' \in [Urb -> {"idle", "issued"} \cup Ended] /\ fault' \in Fault \cup {"none"}
      BY <1>9, CompleteUrbTyped
         DEF ReadFail, Ended
    <2> QED
      BY <1>9, <2>1, <2>2, <2>3
         DEF ReadFail, TypeOK, SubmitOK, ReaderOK, partial, lists
  <1>10. CASE ReadReturn(r)
    <2>1. ReaderOK' /\ wire' \in Seq(Message)
      BY <1>10, DeliverOK
         DEF ReadReturn, TypeOK
    <2> QED
      BY <1>10, <2>1
         DEF ReadReturn, TypeOK, SubmitOK, ReaderOK, partial, lists, urbs, irps
  <1> QED
    BY <1>1, <1>2, <1>3, <1>4, <1>5, <1>6, <1>7, <1>8, <1>9, <1>10

(* A write finds the request it answers and completes it.                  *)
LEMMA WriteStep ==
  ASSUME TInv, ~Crashes, NEW n \in SeqNum,
         Bus_Write(n) \/ WriteFind(n) \/ WriteComplete(n)
  PROVE  TInv'
  <1> USE DEF TInv
  <1>1. CASE Bus_Write(n)
    <2>1. writer' \in [SeqNum -> WriterState]
      BY <1>1, WriterToTyped
         DEF Bus_Write
    <2> QED
      BY <1>1, <2>1
         DEF Bus_Write, TypeOK, SubmitOK, ReaderOK, partial, lists, urbs, irps
  <1>2. CASE WriteFind(n)
    <2>1. head_urbr_sent' \in Seq(Urb)
      BY <1>2, NoCrash, RemoveAtTyped
         DEF WriteFind, TypeOK, SentAs, lists
    <2>2. head_urbr' \in Seq(Urb) /\ head_urbr_pending' \in Seq(Urb)
      BY <1>2, NoCrash, UnlinkTyped
         DEF WriteFind, TypeOK, lists
    <2>3. SentAs(n) \subseteq DOMAIN head_urbr_sent /\ \A i \in DOMAIN head_urbr_sent : head_urbr_sent[i] \in Urb
      BY <1>2, NoCrash
         DEF WriteFind, TypeOK, SentAs
    <2>4. \/ WriterTo(n, "done")
          \/ \E u \in Urb : writer' = [writer EXCEPT ![n] = [pc |-> "found", urbr |-> u]]
      BY <1>2, NoCrash, <2>3
         DEF WriteFind
    <2>5. writer' \in [SeqNum -> WriterState]
      BY <2>4, WriterToTyped, WriterTakesTyped
         DEF TypeOK
    <2> QED
      BY <1>2, NoCrash, <2>1, <2>2, <2>3, <2>4, <2>5
         DEF WriteFind, TypeOK, SubmitOK, ReaderOK, partial, lists, urbs, irps
  <1>3. CASE WriteComplete(n)
    <2>1. writer' \in [SeqNum -> WriterState]
      BY <1>3, NoCrash, WriterToTyped
         DEF WriteComplete
    <2>2. urbr' \in [Urb -> {"none", "live", "freed"}]
      BY <1>3, NoCrash, FreeTyped
         DEF WriteComplete
    <2>3. irp' \in [Urb -> {"idle", "issued"} \cup Ended] /\ fault' \in Fault \cup {"none"}
      BY <1>3, NoCrash, CompleteUrbTyped
         DEF WriteComplete, Ended
    <2> QED
      BY <1>3, NoCrash, <2>1, <2>2, <2>3
         DEF WriteComplete, TypeOK, SubmitOK, ReaderOK, partial, lists
  <1> QED
    BY <1>1, <1>2, <1>3

(* A request is cancelled.                                                 *)
LEMMA CancelStep ==
  ASSUME TInv, ~Crashes, NEW u \in Urb,
         IoCancelIrp(u) \/ remove_cancelled_urbr(u) \/ cancel_urbr(u)
  PROVE  TInv'
  <1> USE DEF TInv
  <1>1. CASE IoCancelIrp(u)
    <2>1. canceller' \in [Urb -> CancellerState]
      BY <1>1, CancellerToTyped
         DEF IoCancelIrp, CancellerState
    <2> QED
      BY <1>1, <2>1
         DEF IoCancelIrp, TypeOK, SubmitOK, ReaderOK, partial, lists, urbs
  <1>2. CASE remove_cancelled_urbr(u)
    <2>1. canceller' \in [Urb -> CancellerState]
      BY <1>2, NoCrash, CancellerToTyped
         DEF remove_cancelled_urbr, CancellerState
    <2>2. urbr' \in [Urb -> {"none", "live", "freed"}]
      BY <1>2, NoCrash, FreeTyped
         DEF remove_cancelled_urbr, TypeOK
    <2>3. head_urbr' \in Seq(Urb) /\ head_urbr_pending' \in Seq(Urb)
          /\ head_urbr_sent' \in Seq(Urb)
      BY <1>2, NoCrash, UnlinkTyped
         DEF remove_cancelled_urbr, TypeOK, lists
    <2>4. len_sent_partial' \in {0, HeaderSize}
      BY <1>2, NoCrash
         DEF remove_cancelled_urbr, TypeOK, LenAfter, partial
    <2> QED
      BY <1>2, NoCrash, <2>1, <2>2, <2>3, <2>4
         DEF remove_cancelled_urbr, TypeOK, SubmitOK, ReaderOK, partial, lists, irps
  <1>3. CASE cancel_urbr(u)
    <2>1. canceller' \in [Urb -> CancellerState]
      BY <1>3, CancellerToTyped
         DEF cancel_urbr, CancellerState
    <2>2. irp' \in [Urb -> {"idle", "issued"} \cup Ended] /\ fault' \in Fault \cup {"none"}
      BY <1>3, CompleteUrbTyped
         DEF cancel_urbr, Ended
    <2> QED
      BY <1>3, <2>1, <2>2
         DEF cancel_urbr, TypeOK, SubmitOK, ReaderOK, partial, lists, urbs
  <1> QED
    BY <1>1, <1>2, <1>3

(* The device is unplugged.                                                *)
LEMMA UnplugStep ==
  ASSUME TInv, ~Crashes,
         bus_unplug_dev \/ complete_pending_read_irp \/ UnplugEndRead \/ UnplugTake
         \/ UnplugEndUrb \/ UnplugReset
  PROVE  TInv'
  <1> USE DEF TInv
  <1>1. CASE bus_unplug_dev
    <2>1. unplug' \in UnplugState
      BY <1>1, UnplugToTyped
         DEF bus_unplug_dev
    <2> QED
      BY <1>1, <2>1
         DEF bus_unplug_dev, TypeOK, SubmitOK, ReaderOK, partial, lists, urbs, irps
  <1>2. CASE complete_pending_read_irp
    <2>1. unplug' \in UnplugState
      BY <1>2
         DEF complete_pending_read_irp, TypeOK, UnplugState
    <2> QED
      BY <1>2, <2>1
         DEF complete_pending_read_irp, TypeOK, SubmitOK, ReaderOK, partial, lists, urbs, irps
  <1>3. CASE UnplugEndRead
    <2>1. unplug' \in UnplugState
      BY <1>3, NoCrash, UnplugToTyped
         DEF UnplugEndRead
    <2>2. ReaderOK'
      BY <1>3, NoCrash, ReaderToOK
         DEF UnplugEndRead, Reading
    <2> QED
      BY <1>3, NoCrash, <2>1, <2>2
         DEF UnplugEndRead, TypeOK, SubmitOK, ReaderOK, partial, lists, urbs, irps
  <1>4. CASE UnplugTake
    <2>1. Head(head_urbr) \in Urb /\ Tail(head_urbr) \in Seq(Urb)
      BY <1>4, NoCrash, HeadTailProperties
         DEF UnplugTake, TypeOK
    <2>2. unplug' \in UnplugState
      BY <1>4, NoCrash, <2>1, UnplugToTyped
         DEF UnplugTake
    <2> QED
      BY <1>4, NoCrash, <2>1, <2>2
         DEF UnplugTake, TypeOK, SubmitOK, ReaderOK, partial, urbs, irps
  <1>5. CASE UnplugEndUrb
    <2>1. unplug' \in UnplugState
      BY <1>5, UnplugToTyped
         DEF UnplugEndUrb
    <2>2. urbr' \in [Urb -> {"none", "live", "freed"}]
      BY <1>5, FreeTyped
         DEF UnplugEndUrb
    <2>3. irp' \in [Urb -> {"idle", "issued"} \cup Ended] /\ fault' \in Fault \cup {"none"}
      BY <1>5, CompleteUrbTyped
         DEF UnplugEndUrb, Ended
    <2> QED
      BY <1>5, <2>1, <2>2, <2>3
         DEF UnplugEndUrb, TypeOK, SubmitOK, ReaderOK, partial, lists
  <1>6. CASE UnplugReset
    <2>1. unplug' \in UnplugState
      BY <1>6, UnplugToTyped
         DEF UnplugReset
    <2>2. <<>> \in Seq(Urb)
      BY <1>6, EmptySeq
         DEF UnplugReset
    <2> QED
      BY <1>6, <2>1, <2>2
         DEF UnplugReset, TypeOK, SubmitOK, ReaderOK, urbs, irps
  <1> QED
    BY <1>1, <1>2, <1>3, <1>4, <1>5, <1>6

LEMMA NextTInv == TInv /\ [Next]_vars => TInv'
  <1> SUFFICES ASSUME TInv, [Next]_vars PROVE TInv'
    OBVIOUS
  <1>1. CASE Crashes
    BY <1>1, CrashStep
  <1>2. CASE Next /\ ~Crashes
    BY <1>2, SubmitStep, ReadStep, WriteStep, CancelStep, UnplugStep
       DEF Next, Submit, Read, Write, CancelRoutine, Unplug
  <1>3. CASE UNCHANGED vars
    BY <1>3 DEF TInv, TypeOK, SubmitOK, ReaderOK, vars, partial, lists, urbs, irps, threads
  <1> QED
    BY <1>1, <1>2, <1>3

LEMMA Typed == Spec => []TInv
  BY InitTInv, NextTInv, PTL DEF Spec

(* Every variable keeps its type: no list ever holds anything but          *)
(* requests, whatever is removed from it (usbreq.c, vhci_read.c,           *)
(* vhci_write.c).                                                          *)
THEOREM UrbQueueTyped == Spec => []TypeOK
  BY Typed, PTL DEF TInv

-----------------------------------------------------------------------------
(* An answer reaches the request it was sent for.                          *)
(*                                                                         *)
(* The argument: a request gets its sequence number once, when it leaves   *)
(* the submitter for a waiting read or head_urbr_pending for a read, and   *)
(* before that it has none; the number is new, so it names one request; a  *)
(* write looks for the number it answers, which the program has received.  *)

Distinct(list) == \A i, j \in DOMAIN list : list[i] = list[j] => i = j

(* A request that is not yet submitted, or waits to be queued.             *)
Early == {"idle", "enter", "arm_pending"}

NumberOK ==
    /\ \A u \in Urb : urbr_seq[u] <= seq_num
    /\ \A u, v \in Urb : urbr_seq[u] = urbr_seq[v] /\ urbr_seq[u] # 0 => u = v
    /\ \A u \in Urb : submit[u].pc \in Early => urbr_seq[u] = 0

PendingOK ==
    /\ Distinct(head_urbr_pending)
    /\ \A u \in ToSet(head_urbr_pending) : urbr_seq[u] = 0 /\ submit[u].pc = "done"

AnswerOK ==
    /\ \A n \in SeqNum : writer[n].pc \in {"enter", "found"} => Received(n)
    /\ \A n \in SeqNum : writer[n].pc = "found" =>
          writer[n].urbr \in Urb /\ urbr_seq[writer[n].urbr] = n
    /\ \A u \in Urb : irp[u] = "replied" => urbr_seq[u] # 0 /\ Received(urbr_seq[u])

AInv == TInv /\ NumberOK /\ PendingOK /\ AnswerOK

-----------------------------------------------------------------------------
(* Lists without repetition                                                *)

LEMMA ToSetTyped ==
  ASSUME NEW list \in Seq(Urb)
  PROVE  ToSet(list) \subseteq Urb
  BY LenProperties DEF ToSet

LEMMA Shifted ==
  ASSUME NEW n \in Nat, NEW i \in Nat \ {0}, NEW j \in 1 .. n - 1, ~ (j < i)
  PROVE  j - (i - 1) \in 1 .. n - i /\ ~ (j <= i - 1)
  OBVIOUS

LEMMA RemoveAtElements ==
  ASSUME NEW list \in Seq(Urb), NEW i \in DOMAIN list
  PROVE  /\ DOMAIN RemoveAt(list, i) = 1 .. Len(list) - 1
         /\ \A j \in 1 .. Len(list) - 1 :
               RemoveAt(list, i)[j] = IF j < i THEN list[j] ELSE list[j + 1]
  <1> DEFINE a == SubSeq(list, 1, i - 1)
             b == SubSeq(list, i + 1, Len(list))
  <1>1. i \in 1 .. Len(list) /\ Len(list) \in Nat /\ \A j \in 1 .. Len(list) : list[j] \in Urb
    BY LenProperties
  <1>2. /\ a \in Seq(Urb) /\ Len(a) = i - 1
        /\ \A j \in 1 .. i - 1 : a[j] = list[j]
    BY <1>1, SubSeqProperties
  <1>3. /\ b \in Seq(Urb) /\ Len(b) = Len(list) - i
        /\ \A j \in 1 .. Len(list) - i : b[j] = list[j + i]
    BY <1>1, SubSeqProperties
  <1> HIDE DEF a, b
  <1>4. /\ a \o b \in Seq(Urb) /\ Len(a \o b) = Len(list) - 1
        /\ \A j \in 1 .. Len(list) - 1 :
              (a \o b)[j] = IF j < i THEN list[j] ELSE list[j + 1]
    <2>1. /\ a \o b \in Seq(Urb) /\ Len(a \o b) = Len(a) + Len(b)
          /\ \A j \in 1 .. Len(a) + Len(b) :
                (a \o b)[j] = IF j <= Len(a) THEN a[j] ELSE b[j - Len(a)]
      BY <1>2, <1>3, ConcatProperties
    <2>2. Len(a) + Len(b) = Len(list) - 1
      BY <1>1, <1>2, <1>3
    <2>3. ASSUME NEW j \in 1 .. Len(list) - 1
          PROVE  (a \o b)[j] = IF j < i THEN list[j] ELSE list[j + 1]
      <3>1. CASE j < i
        <4>1. j \in 1 .. i - 1 /\ j <= Len(a)
          BY <1>1, <1>2, <3>1
        <4> QED
          BY <1>2, <2>1, <2>2, <3>1, <4>1
      <3>2. CASE ~ (j < i)
        <4>1. j - (i - 1) \in 1 .. Len(list) - i /\ ~ (j <= Len(a))
          <5>1. i \in Nat \ {0} /\ Len(list) \in Nat /\ Len(a) = i - 1
            BY <1>1, <1>2
          <5> QED
            BY <2>3, <3>2, <5>1, Shifted
        <4>2. (a \o b)[j] = b[j - (i - 1)]
          BY <1>2, <2>1, <2>2, <4>1
        <4>3. b[j - (i - 1)] = list[(j - (i - 1)) + i]
          BY <1>3, <4>1
        <4>4. (j - (i - 1)) + i = j + 1
          BY <1>1
        <4> QED
          BY <3>2, <4>2, <4>3, <4>4
      <3> QED
        BY <3>1, <3>2
    <2> QED
      BY <2>1, <2>2, <2>3
  <1>5. RemoveAt(list, i) = a \o b
    BY DEF RemoveAt, a, b
  <1> QED
    BY <1>4, <1>5, LenProperties

LEMMA UnlinkElements ==
  ASSUME NEW list \in Seq(Urb), Distinct(list), NEW u
  PROVE  Distinct(Unlink(list, u)) /\ ToSet(Unlink(list, u)) \subseteq ToSet(list)
  <1>1. CASE Contains(list, u)
    <2>1. PICK i \in DOMAIN list : Unlink(list, u) = RemoveAt(list, i)
      BY <1>1, LenProperties DEF Contains, Unlink
    <2>2. DOMAIN list = 1 .. Len(list) /\ Len(list) \in Nat
      BY LenProperties
    <2> DEFINE rest == Unlink(list, u)
    <2>3. /\ DOMAIN rest = 1 .. Len(list) - 1
          /\ \A j \in 1 .. Len(list) - 1 : rest[j] = IF j < i THEN list[j] ELSE list[j + 1]
      BY <2>1, RemoveAtElements
    <2> HIDE DEF rest
    <2>4. ASSUME NEW j \in 1 .. Len(list) - 1, NEW k \in 1 .. Len(list) - 1, rest[j] = rest[k]
          PROVE  j = k
      <3>1. PICK p \in DOMAIN list : rest[j] = list[p] /\ p = IF j < i THEN j ELSE j + 1
        BY <2>2, <2>3
      <3>2. PICK q \in DOMAIN list : rest[k] = list[q] /\ q = IF k < i THEN k ELSE k + 1
        BY <2>2, <2>3
      <3>3. p = q
        BY <2>4, <3>1, <3>2 DEF Distinct
      <3> QED
        BY <2>2, <3>1, <3>2, <3>3
    <2>5. ToSet(rest) \subseteq ToSet(list)
      BY <2>2, <2>3 DEF ToSet
    <2> QED
      BY <2>3, <2>4, <2>5 DEF rest, Distinct
  <1>2. CASE ~Contains(list, u)
    BY <1>2 DEF Unlink
  <1> QED
    BY <1>1, <1>2

LEMMA TailElements ==
  ASSUME NEW list \in Seq(Urb), Distinct(list), list # <<>>
  PROVE  /\ Distinct(Tail(list)) /\ ToSet(Tail(list)) \subseteq ToSet(list) \ {Head(list)}
         /\ Head(list) \in ToSet(list)
  <1>1. /\ DOMAIN list = 1 .. Len(list) /\ Len(list) \in Nat \ {0}
        /\ DOMAIN Tail(list) = 1 .. Len(list) - 1
        /\ \A i \in 1 .. Len(list) - 1 : Tail(list)[i] = list[i + 1]
        /\ Head(list) = list[1]
    BY LenProperties, EmptySeq, HeadTailProperties
  <1> QED
    BY <1>1 DEF Distinct, ToSet

LEMMA AppendElements ==
  ASSUME NEW list \in Seq(Urb), Distinct(list), NEW u \in Urb, u \notin ToSet(list)
  PROVE  Distinct(Append(list, u)) /\ ToSet(Append(list, u)) = ToSet(list) \cup {u}
  <1>1. /\ DOMAIN list = 1 .. Len(list) /\ Len(list) \in Nat
        /\ DOMAIN Append(list, u) = 1 .. Len(list) + 1
        /\ \A i \in 1 .. Len(list) : Append(list, u)[i] = list[i]
        /\ Append(list, u)[Len(list) + 1] = u
    BY LenProperties, AppendProperties
  <1> QED
    BY <1>1 DEF Distinct, ToSet

LEMMA EmptyElements == Distinct(<<>>) /\ ToSet(<<>>) = {}
  BY DEF Distinct, ToSet

(* What the program has received stays received.                           *)
LEMMA WireGrows ==
  ASSUME wire \in Seq(Message), NEW m \in Message, wire' = Append(wire, m)
  PROVE  \A n : Received(n) => Received(n)'
  <1>1. /\ DOMAIN wire = 1 .. Len(wire) /\ Len(wire) \in Nat
        /\ DOMAIN wire' = 1 .. Len(wire) + 1
        /\ \A i \in 1 .. Len(wire) : wire'[i] = wire[i]
    BY LenProperties, AppendProperties
  <1> QED
    BY <1>1 DEF Received, ToSet

-----------------------------------------------------------------------------
(* The steps that give no number and move no answer                        *)

(* Nothing that AInv speaks of gets worse.                                 *)
Frame ==
    /\ UNCHANGED <<urbr_seq, seq_num, writer>>
    /\ Distinct(head_urbr_pending')
    /\ ToSet(head_urbr_pending') \subseteq ToSet(head_urbr_pending)
    /\ \A n : Received(n) => Received(n)'
    /\ \A u \in Urb : irp'[u] = "replied" => irp[u] = "replied"
    /\ \A u \in Urb : submit'[u].pc \in Early => submit[u].pc \in Early
    /\ \A u \in Urb : submit[u].pc = "done" => submit'[u].pc = "done"

LEMMA FrameKeeps ==
  ASSUME AInv, TInv', Frame
  PROVE  AInv'
  <1>1. NumberOK'
    BY DEF AInv, Frame, NumberOK
  <1>2. PendingOK'
    <2>1. ToSet(head_urbr_pending) \subseteq Urb
      BY ToSetTyped DEF AInv, TInv, TypeOK
    <2> QED
      BY <2>1 DEF AInv, Frame, PendingOK
  <1>3. AnswerOK'
    BY DEF AInv, Frame, AnswerOK
  <1> QED
    BY <1>1, <1>2, <1>3 DEF AInv

LEMMA SubmitToFrame ==
  ASSUME SubmitOK, NEW u \in Urb, NEW pc, SubmitTo(u, pc), submit[u].pc # "done",
         pc \in Early => submit[u].pc \in Early
  PROVE  /\ \A v \in Urb : submit'[v].pc \in Early => submit[v].pc \in Early
         /\ \A v \in Urb : submit[v].pc = "done" => submit'[v].pc = "done"
  <1>1. \A v \in Urb : submit'[v].pc = IF v = u THEN pc ELSE submit[v].pc
    BY DEF SubmitOK, SubmitState, SubmitTo
  <1> QED
    BY <1>1

LEMMA DeliverFrame ==
  ASSUME TypeOK, ReaderOK, NEW r \in Reader, Deliver(r)
  PROVE  \A n : Received(n) => Received(n)'
  <1>1. reader[r].buf \in Message
    BY DEF ReaderOK, ReaderState
  <1> QED
    BY <1>1, WireGrows DEF Deliver, TypeOK

LEMMA CompleteUrbFrame ==
  ASSUME TypeOK, NEW u, NEW how, how # "replied", CompleteUrb(u, how)
  PROVE  \A v \in Urb : irp'[v] = "replied" => irp[v] = "replied"
  BY DEF TypeOK, CompleteUrb

(* The program receives no more by a step that delivers nothing.           *)
LEMMA SameWire == UNCHANGED wire => \A n : Received(n) <=> Received(n)'
  BY DEF Received

LEMMA CrashFrame == AInv /\ Crashes => Frame
  BY SameWire DEF AInv, PendingOK, Frame, Crashes, Crash, lists, urbs, irps, threads

LEMMA SubmitFrame ==
  ASSUME AInv, ~Crashes, NEW u \in Urb,
         \/ Bus_Internal_IoCtl(u) \/ SubmitPending(u) \/ SubmitStore(u)
         \/ SubmitRefused(u) \/ SubmitArmSent(u) \/ SubmitPartial(u)
         \/ SubmitCancelled(u) \/ SubmitCompleteRead(u) \/ SubmitReturn(u)
  PROVE  Frame
  <1> USE DEF AInv, TInv
  <1>1. PICK pc : SubmitTo(u, pc) /\ (pc \in Early => submit[u].pc \in Early)
                  /\ submit[u].pc # "done"
    BY NoCrash DEF Bus_Internal_IoCtl, SubmitPending, SubmitStore, SubmitRefused, SubmitArmSent,
                   SubmitPartial, SubmitCancelled, SubmitCompleteRead, SubmitReturn, Early
  <1>2. UNCHANGED <<urbr_seq, seq_num, writer, head_urbr_pending>>
    BY NoCrash DEF Bus_Internal_IoCtl, SubmitPending, SubmitStore, SubmitRefused, SubmitArmSent,
                   SubmitPartial, SubmitCancelled, SubmitCompleteRead, SubmitReturn, lists, urbs
  <1>3. \A n : Received(n) => Received(n)'
    <2>1. CASE SubmitCompleteRead(u)
      BY <2>1, NoCrash, DeliverFrame DEF SubmitCompleteRead, SubmitOK
    <2>2. CASE ~SubmitCompleteRead(u)
      BY <2>2, NoCrash, SameWire
         DEF Bus_Internal_IoCtl, SubmitPending, SubmitStore, SubmitRefused, SubmitArmSent,
             SubmitPartial, SubmitCancelled, SubmitReturn
    <2> QED
      BY <2>1, <2>2
  <1>4. \A v \in Urb : irp'[v] = "replied" => irp[v] = "replied"
    <2>1. CASE SubmitReturn(u)
      BY <2>1, CompleteUrbFrame DEF SubmitReturn
    <2>2. CASE Bus_Internal_IoCtl(u)
      BY <2>2 DEF Bus_Internal_IoCtl, TypeOK
    <2>3. CASE ~SubmitReturn(u) /\ ~Bus_Internal_IoCtl(u)
      BY <2>3, NoCrash
         DEF SubmitPending, SubmitStore, SubmitRefused, SubmitArmSent, SubmitPartial,
             SubmitCancelled, SubmitCompleteRead, irps
    <2> QED
      BY <2>1, <2>2, <2>3
  <1> QED
    BY <1>1, <1>2, <1>3, <1>4, SubmitToFrame DEF Frame, PendingOK

LEMMA ReadFrame ==
  ASSUME AInv, ~Crashes, NEW r \in Reader,
         \/ Bus_Read(r) \/ ReadRefused(r) \/ ReadRest(r) \/ ReadWait(r) \/ ReadStore(r)
         \/ ReadStored(r) \/ ReadRefusedUrb(r) \/ ReadFail(r) \/ ReadReturn(r)
  PROVE  Frame
  <1> USE DEF AInv, TInv
  <1>1. UNCHANGED <<urbr_seq, seq_num, writer, head_urbr_pending, submit>>
    BY NoCrash DEF Bus_Read, ReadRefused, ReadRest, ReadWait, ReadStore, ReadStored,
                   ReadRefusedUrb, ReadFail, ReadReturn, lists, urbs
  <1>2. \A n : Received(n) => Received(n)'
    <2>1. CASE ReadReturn(r)
      BY <2>1, DeliverFrame DEF ReadReturn
    <2>2. CASE ~ReadReturn(r)
      BY <2>2, NoCrash, SameWire
         DEF Bus_Read, ReadRefused, ReadRest, ReadWait, ReadStore, ReadStored, ReadRefusedUrb,
             ReadFail
    <2> QED
      BY <2>1, <2>2
  <1>3. \A v \in Urb : irp'[v] = "replied" => irp[v] = "replied"
    <2>1. CASE ReadFail(r)
      BY <2>1, CompleteUrbFrame DEF ReadFail
    <2>2. CASE ~ReadFail(r)
      BY <2>2, NoCrash
         DEF Bus_Read, ReadRefused, ReadRest, ReadWait, ReadStore, ReadStored, ReadRefusedUrb,
             ReadReturn, irps
    <2> QED
      BY <2>1, <2>2
  <1> QED
    BY <1>1, <1>2, <1>3 DEF Frame, PendingOK

LEMMA CancelFrame ==
  ASSUME AInv, ~Crashes, NEW u \in Urb,
         IoCancelIrp(u) \/ remove_cancelled_urbr(u) \/ cancel_urbr(u)
  PROVE  Frame
  <1> USE DEF AInv, TInv
  <1>1. UNCHANGED <<urbr_seq, seq_num, writer, submit, wire>>
    BY NoCrash DEF IoCancelIrp, remove_cancelled_urbr, cancel_urbr, urbs
  <1>2. \/ UNCHANGED head_urbr_pending
        \/ head_urbr_pending' = Unlink(head_urbr_pending, u)
    BY NoCrash DEF IoCancelIrp, remove_cancelled_urbr, cancel_urbr, lists
  <1>3. Distinct(head_urbr_pending') /\ ToSet(head_urbr_pending') \subseteq ToSet(head_urbr_pending)
    BY <1>2, UnlinkElements DEF TypeOK, PendingOK
  <1>4. \A v \in Urb : irp'[v] = "replied" => irp[v] = "replied"
    <2>1. CASE cancel_urbr(u)
      BY <2>1, CompleteUrbFrame DEF cancel_urbr
    <2>2. CASE ~cancel_urbr(u)
      BY <2>2, NoCrash DEF IoCancelIrp, remove_cancelled_urbr, irps
    <2> QED
      BY <2>1, <2>2
  <1> QED
    BY <1>1, <1>3, <1>4, SameWire DEF Frame

LEMMA UnplugFrame ==
  ASSUME AInv, ~Crashes, bus_unplug_dev \/ Unplug
  PROVE  Frame
  <1> USE DEF AInv, TInv, Unplug
  <1>1. UNCHANGED <<urbr_seq, seq_num, writer, submit, wire>>
    BY NoCrash DEF bus_unplug_dev, complete_pending_read_irp, UnplugEndRead, UnplugTake,
                   UnplugEndUrb, UnplugReset, urbs
  <1>2. UNCHANGED head_urbr_pending \/ head_urbr_pending' = <<>>
    BY NoCrash DEF bus_unplug_dev, complete_pending_read_irp, UnplugEndRead, UnplugTake,
                   UnplugEndUrb, UnplugReset, lists
  <1>3. Distinct(head_urbr_pending') /\ ToSet(head_urbr_pending') \subseteq ToSet(head_urbr_pending)
    BY <1>2, EmptyElements DEF PendingOK
  <1>4. \A v \in Urb : irp'[v] = "replied" => irp[v] = "replied"
    <2>1. CASE UnplugEndUrb
      BY <2>1, CompleteUrbFrame DEF UnplugEndUrb
    <2>2. CASE ~UnplugEndUrb
      BY <2>2, NoCrash DEF bus_unplug_dev, complete_pending_read_irp, UnplugEndRead, UnplugTake,
                           UnplugReset, irps
    <2> QED
      BY <2>1, <2>2
  <1> QED
    BY <1>1, <1>3, <1>4, SameWire DEF Frame

-----------------------------------------------------------------------------
(* The steps that give a number, queue a request or move an answer         *)

LEMMA NumberIsNew ==
  ASSUME TypeOK, NumberOK, NEW u \in Urb, Number(u)
  PROVE  /\ \A v \in Urb : urbr_seq'[v] = IF v = u THEN seq_num + 1 ELSE urbr_seq[v]
         /\ \A v \in Urb : urbr_seq'[v] <= seq_num'
         /\ \A v, w \in Urb : urbr_seq'[v] = urbr_seq'[w] /\ urbr_seq'[v] # 0 => v = w
  <1>1. /\ \A v \in Urb : urbr_seq[v] \in Nat
        /\ seq_num \in Nat /\ seq_num' = seq_num + 1
        /\ \A v \in Urb : urbr_seq'[v] = IF v = u THEN seq_num + 1 ELSE urbr_seq[v]
    BY DEF TypeOK, Number
  <1> QED
    BY <1>1 DEF NumberOK

(* What was answered keeps its number: only a request without one gets one.*)
LEMMA NumberKeepsAnswers ==
  ASSUME AInv, NEW u \in Urb, Number(u), urbr_seq[u] = 0, UNCHANGED <<writer, irp, wire>>
  PROVE  AnswerOK'
  <1>1. \A v \in Urb : urbr_seq[v] # 0 => urbr_seq'[v] = urbr_seq[v]
    BY NumberIsNew DEF AInv, TInv
  <1>2. \A n : Received(n) <=> Received(n)'
    BY SameWire
  <1>3. 0 \notin SeqNum
    BY DEF SeqNum
  <1> QED
    BY <1>1, <1>2, <1>3 DEF AInv, AnswerOK

LEMMA SubmitDirectKeeps ==
  ASSUME AInv, TInv', NEW u \in Urb, SubmitDirect(u)
  PROVE  AInv'
  <1> USE DEF AInv, TInv
  <1>1. /\ Number(u) /\ urbr_seq[u] = 0 /\ submit[u].pc = "enter"
        /\ UNCHANGED <<head_urbr_pending, writer, irp, wire>>
    BY DEF SubmitDirect, NumberOK, Early, lists, irps
  <1>2. \A v \in Urb : submit'[v].pc = IF v = u THEN "store" ELSE submit[v].pc
    BY DEF SubmitDirect, SubmitOK, SubmitState
  <1>3. NumberOK'
    BY <1>1, <1>2, NumberIsNew DEF NumberOK, Early
  <1>4. PendingOK'
    BY <1>1, <1>2, NumberIsNew, ToSetTyped DEF PendingOK, TypeOK
  <1>5. AnswerOK'
    BY <1>1, NumberKeepsAnswers
  <1> QED
    BY <1>3, <1>4, <1>5

LEMMA ReadPendingKeeps ==
  ASSUME AInv, TInv', ~Crashes, NEW r \in Reader, ReadPending(r)
  PROVE  AInv'
  <1> USE DEF AInv, TInv
  <1> DEFINE u == Head(head_urbr_pending)
  <1>1. /\ head_urbr_pending \in Seq(Urb) /\ head_urbr_pending # <<>>
        /\ ToSet(head_urbr_pending) \subseteq Urb
    BY ToSetTyped DEF ReadPending, TypeOK
  <1>2. /\ Distinct(Tail(head_urbr_pending))
        /\ ToSet(Tail(head_urbr_pending)) \subseteq ToSet(head_urbr_pending) \ {u}
        /\ u \in ToSet(head_urbr_pending)
    BY <1>1, TailElements DEF PendingOK
  <1>3. /\ Number(u) /\ head_urbr_pending' = Tail(head_urbr_pending)
        /\ UNCHANGED <<submit, writer, irp, wire>>
    BY NoCrash DEF ReadPending, irps
  <1> HIDE DEF u
  <1>4. u \in Urb /\ urbr_seq[u] = 0 /\ submit[u].pc = "done"
    BY <1>1, <1>2 DEF PendingOK
  <1>5. NumberOK'
    BY <1>3, <1>4, NumberIsNew DEF NumberOK, Early
  <1>6. PendingOK'
    BY <1>1, <1>2, <1>3, <1>4, NumberIsNew DEF PendingOK
  <1>7. AnswerOK'
    BY <1>3, <1>4, NumberKeepsAnswers
  <1> QED
    BY <1>5, <1>6, <1>7

LEMMA SubmitInsertKeeps ==
  ASSUME AInv, TInv', ~Crashes, NEW u \in Urb, SubmitInsert(u)
  PROVE  AInv'
  <1> USE DEF AInv, TInv
  <1>1. /\ UNCHANGED <<urbr_seq, seq_num, writer, irp, wire>>
        /\ submit[u].pc \in {"arm_pending", "arm_sent"}
        /\ \/ /\ submit[u].pc = "arm_pending" /\ SubmitTo(u, "done")
              /\ head_urbr_pending' = Append(head_urbr_pending, u)
           \/ SubmitTo(u, "complete_read") /\ UNCHANGED head_urbr_pending
    BY NoCrash DEF SubmitInsert, urbs, irps
  <1>2. CASE SubmitTo(u, "complete_read") /\ UNCHANGED head_urbr_pending
    <2>1. Frame
      BY <1>1, <1>2, SubmitToFrame, SameWire DEF Frame, PendingOK, Early
    <2> QED
      BY <2>1, FrameKeeps
  <1>3. CASE /\ submit[u].pc = "arm_pending" /\ SubmitTo(u, "done")
             /\ head_urbr_pending' = Append(head_urbr_pending, u)
    <2>1. \A v \in Urb : submit'[v].pc = IF v = u THEN "done" ELSE submit[v].pc
      BY <1>3 DEF SubmitOK, SubmitState, SubmitTo
    <2>2. urbr_seq[u] = 0 /\ u \notin ToSet(head_urbr_pending)
      BY <1>3 DEF NumberOK, PendingOK, Early
    <2>3. /\ Distinct(head_urbr_pending')
          /\ ToSet(head_urbr_pending') = ToSet(head_urbr_pending) \cup {u}
      BY <1>3, <2>2, AppendElements DEF TypeOK, PendingOK
    <2>4. NumberOK'
      BY <1>1, <2>1 DEF NumberOK, Early
    <2>5. PendingOK'
      BY <1>1, <2>1, <2>2, <2>3, ToSetTyped DEF PendingOK, TypeOK
    <2>6. AnswerOK'
      BY <1>1, SameWire DEF AnswerOK
    <2> QED
      BY <2>4, <2>5, <2>6
  <1> QED
    BY <1>1, <1>2, <1>3

LEMMA WriteKeeps ==
  ASSUME AInv, TInv', ~Crashes, NEW n \in SeqNum, Write(n)
  PROVE  AInv'
  <1> USE DEF AInv, TInv
  <1>1. /\ UNCHANGED <<urbr_seq, seq_num, head_urbr_pending, submit, wire>>
        /\ \A m \in SeqNum \ {n} : writer'[m] = writer[m]
    BY NoCrash DEF Write, Bus_Write, WriteFind, WriteComplete, WriterTo, lists, urbs, TypeOK
  <1>2. NumberOK' /\ PendingOK'
    BY <1>1 DEF NumberOK, PendingOK
  <1>3. \A m : Received(m) <=> Received(m)'
    BY <1>1, SameWire
  <1>4. CASE Bus_Write(n)
    <2>1. Received(n) /\ writer'[n].pc \in {"enter", "done"} /\ UNCHANGED irp
      BY <1>4 DEF Bus_Write, WriterTo, TypeOK, WriterState, irps
    <2> QED
      BY <1>1, <1>2, <1>3, <2>1 DEF AnswerOK
  <1>5. CASE WriteFind(n)
    <2>1. /\ writer[n].pc = "enter" /\ UNCHANGED irp
          /\ \/ WriterTo(n, "done")
             \/ \E i \in SentAs(n) :
                   writer' = [writer EXCEPT ![n] = [pc |-> "found", urbr |-> head_urbr_sent[i]]]
      BY <1>5, NoCrash DEF WriteFind, irps
    <2>2. \A i \in SentAs(n) : head_urbr_sent[i] \in Urb /\ urbr_seq[head_urbr_sent[i]] = n
      BY LenProperties DEF SentAs, TypeOK
    <2>3. \/ writer'[n].pc = "done"
          \/ writer'[n].urbr \in Urb /\ urbr_seq[writer'[n].urbr] = n
      <3>1. CASE WriterTo(n, "done")
        BY <3>1 DEF WriterTo, TypeOK, WriterState
      <3>2. ASSUME NEW i \in SentAs(n),
                   writer' = [writer EXCEPT ![n] = [pc |-> "found", urbr |-> head_urbr_sent[i]]]
            PROVE  writer'[n].urbr = head_urbr_sent[i]
        BY <3>2 DEF TypeOK
      <3> QED
        BY <2>1, <2>2, <3>1, <3>2
    <2> QED
      BY <1>1, <1>2, <1>3, <2>1, <2>3 DEF AnswerOK
  <1>6. CASE WriteComplete(n)
    <2>1. writer[n].pc = "found" /\ writer'[n].pc = "done"
      BY <1>6, NoCrash DEF WriteComplete, WriterTo, TypeOK, WriterState
    <2>2. \A v \in Urb \ {writer[n].urbr} : irp'[v] = "replied" => irp[v] = "replied"
      BY <1>6, NoCrash DEF WriteComplete, CompleteUrb, TypeOK
    <2>3. /\ urbr_seq[writer[n].urbr] = n /\ Received(n) /\ n # 0
      BY <2>1 DEF AnswerOK, SeqNum
    <2> QED
      BY <1>1, <1>2, <1>3, <2>1, <2>2, <2>3 DEF AnswerOK
  <1> QED
    BY <1>4, <1>5, <1>6 DEF Write

-----------------------------------------------------------------------------
(* AInv is inductive                                                       *)

LEMMA InitAInv == Init => AInv
  <1> SUFFICES ASSUME Init PROVE AInv
    OBVIOUS
  <1>1. TInv
    BY InitTInv
  <1>2. NumberOK /\ AnswerOK
    BY DEF Init, NumberOK, AnswerOK
  <1>3. PendingOK
    BY EmptyElements DEF Init, PendingOK
  <1> QED
    BY <1>1, <1>2, <1>3 DEF AInv

LEMMA NextAInv == AInv /\ [Next]_vars => AInv'
  <1> SUFFICES ASSUME AInv, [Next]_vars PROVE AInv'
    OBVIOUS
  <1>0. TInv'
    BY NextTInv DEF AInv
  <1>1. CASE Crashes
    BY <1>0, <1>1, CrashFrame, FrameKeeps
  <1>2. ASSUME NEW u \in Urb, ~Crashes,
               Bus_Internal_IoCtl(u) \/ Submit(u) \/ IoCancelIrp(u) \/ CancelRoutine(u)
        PROVE  AInv'
    BY <1>0, <1>2, SubmitFrame, SubmitDirectKeeps, SubmitInsertKeeps, CancelFrame, FrameKeeps
       DEF Submit, CancelRoutine
  <1>3. ASSUME NEW r \in Reader, ~Crashes, Read(r)
        PROVE  AInv'
    BY <1>0, <1>3, ReadFrame, ReadPendingKeeps, FrameKeeps DEF Read
  <1>4. CASE ~Crashes /\ (bus_unplug_dev \/ Unplug)
    BY <1>0, <1>4, UnplugFrame, FrameKeeps
  <1>5. CASE UNCHANGED vars
    BY <1>0, <1>5, SameWire, FrameKeeps
       DEF Frame, AInv, PendingOK, vars, lists, urbs, irps, threads
  <1> QED
    BY <1>0, <1>1, <1>2, <1>3, <1>4, <1>5, WriteKeeps DEF Next

(* No two requests carry the same sequence number, and a request that was  *)
(* answered had been received whole by the program: an answer reaches the  *)
(* request it was sent for (usbreq.c:67, 185; vhci_write.c:296-332).       *)
THEOREM AnswersMatch == Spec => []AnswerMatchesRequest
  <1>1. AInv => AnswerMatchesRequest
    BY DEF AInv, NumberOK, AnswerOK, AnswerMatchesRequest
  <1> QED
    BY <1>1, InitAInv, NextAInv, PTL DEF Spec

-----------------------------------------------------------------------------
(* No request is lost.                                                     *)
(*                                                                         *)
(* The argument: RequestAccounted is itself inductive.  A step takes a     *)
(* request out of head_urbr only to bind its own thread to complete it,    *)
(* and gives that duty up only by completing the request, by listing it    *)
(* in head_urbr, or by a fault.                                            *)

(* Membership in a list that changes                                       *)

LEMMA AppendContains ==
  ASSUME NEW list \in Seq(Urb), NEW u \in Urb
  PROVE  /\ Contains(Append(list, u), u)
         /\ \A v : Contains(list, v) => Contains(Append(list, u), v)
  <1>1. /\ Len(list) \in Nat /\ Len(Append(list, u)) = Len(list) + 1
        /\ \A i \in 1 .. Len(list) : Append(list, u)[i] = list[i]
        /\ Append(list, u)[Len(list) + 1] = u
    BY LenProperties, AppendProperties
  <1> QED
    BY <1>1 DEF Contains

LEMMA TailContains ==
  ASSUME NEW list \in Seq(Urb), list # <<>>
  PROVE  \A v : Contains(list, v) => v = Head(list) \/ Contains(Tail(list), v)
  <1>1. /\ Len(list) \in Nat \ {0} /\ Len(Tail(list)) = Len(list) - 1
        /\ \A i \in 1 .. Len(list) - 1 : Tail(list)[i] = list[i + 1]
        /\ Head(list) = list[1]
    BY LenProperties, EmptySeq, HeadTailProperties
  <1> SUFFICES ASSUME NEW i \in 1 .. Len(list), i # 1
               PROVE  Contains(Tail(list), list[i])
    BY <1>1 DEF Contains
  <1>2. i - 1 \in 1 .. Len(Tail(list)) /\ Tail(list)[i - 1] = list[i]
    BY <1>1
  <1> QED
    BY <1>2 DEF Contains

LEMMA UnlinkContains ==
  ASSUME NEW list \in Seq(Urb), NEW u, NEW v, v # u, Contains(list, v)
  PROVE  Contains(Unlink(list, u), v)
  <1>1. CASE Contains(list, u)
    <2>1. PICK i \in DOMAIN list : Unlink(list, u) = RemoveAt(list, i) /\ list[i] = u
      BY <1>1, LenProperties DEF Contains, Unlink
    <2>2. PICK k \in 1 .. Len(list) : list[k] = v
      BY DEF Contains
    <2>3. DOMAIN list = 1 .. Len(list) /\ Len(list) \in Nat
      BY LenProperties
    <2> DEFINE rest == Unlink(list, u)
               j == IF k < i THEN k ELSE k - 1
    <2>4. /\ DOMAIN rest = 1 .. Len(list) - 1
          /\ \A m \in 1 .. Len(list) - 1 : rest[m] = IF m < i THEN list[m] ELSE list[m + 1]
      BY <2>1, RemoveAtElements
    <2>5. DOMAIN rest = 1 .. Len(rest)
      BY UnlinkTyped, LenProperties
    <2> HIDE DEF rest
    <2>6. k # i
      BY <2>1, <2>2
    <2>7. j \in DOMAIN rest /\ rest[j] = v
      BY <2>2, <2>3, <2>4, <2>6
    <2> QED
      BY <2>5, <2>7 DEF Contains, rest
  <1>2. CASE ~Contains(list, u)
    BY <1>2 DEF Unlink
  <1> QED
    BY <1>1, <1>2

-----------------------------------------------------------------------------
(* The steps                                                               *)

LEMMA CompleteUrbEnds ==
  ASSUME TypeOK, NEW u, NEW how \in Ended, CompleteUrb(u, how), fault' = "none"
  PROVE  /\ u \in Urb => irp'[u] # "issued"
         /\ \A v \in Urb : irp'[v] = "issued" => irp[v] = "issued"
  BY DEF TypeOK, CompleteUrb, Ended

LEMMA SubmitAccounted ==
  ASSUME TInv, RequestAccounted, fault = "none", ~Crashes, NEW u \in Urb,
         Bus_Internal_IoCtl(u) \/ Submit(u)
  PROVE  RequestAccounted'
  <1> USE DEF TInv
  <1>1. UNCHANGED <<writer, unplug, canceller>>
    BY NoCrash DEF Bus_Internal_IoCtl, Submit, SubmitPending, SubmitDirect, SubmitStore,
                   SubmitRefused, SubmitArmSent, SubmitPartial, SubmitCancelled, SubmitInsert,
                   SubmitCompleteRead, SubmitReturn
  <1>2. PICK pc : \A v \in Urb : submit'[v].pc = IF v = u THEN pc ELSE submit[v].pc
    <2>1. CASE SubmitDirect(u)
      BY <2>1 DEF SubmitDirect, SubmitOK, SubmitState
    <2>2. CASE ~SubmitDirect(u)
      <3>1. PICK pc : SubmitTo(u, pc)
        BY <2>2, NoCrash
           DEF Bus_Internal_IoCtl, Submit, SubmitPending, SubmitStore, SubmitRefused,
               SubmitArmSent, SubmitPartial, SubmitCancelled, SubmitInsert, SubmitCompleteRead,
               SubmitReturn
      <3> QED
        BY <3>1 DEF SubmitTo, SubmitOK, SubmitState
    <2> QED
      BY <2>1, <2>2
  <1>3. \A r \in Reader : reader[r].pc = "fail" => reader'[r].pc = "fail"
                                                   /\ reader'[r].urbr = reader[r].urbr
    <2>1. CASE SubmitStore(u)
      <3>1. UNCHANGED reader \/ \E out : reader' = store_urbr(submit[u].read, u, out)
        BY <2>1, NoCrash DEF SubmitStore
      <3>2. ASSUME NEW out, reader' = store_urbr(submit[u].read, u, out), NEW r \in Reader
            PROVE  reader'[r].pc = reader[r].pc /\ reader'[r].urbr = reader[r].urbr
        BY <3>2 DEF store_urbr, ReaderOK, ReaderState
      <3> QED
        BY <3>1, <3>2
    <2>2. CASE SubmitCompleteRead(u)
      <3>1. reader[submit[u].read].pc = "pending" /\ ReaderTo(submit[u].read, "idle")
        BY <2>2, NoCrash DEF SubmitCompleteRead, Deliver
      <3> QED
        BY <3>1 DEF ReaderTo, ReaderOK, ReaderState
    <2>3. CASE ~SubmitStore(u) /\ ~SubmitCompleteRead(u)
      BY <2>3, NoCrash
         DEF Bus_Internal_IoCtl, Submit, SubmitPending, SubmitDirect, SubmitRefused,
             SubmitArmSent, SubmitPartial, SubmitCancelled, SubmitInsert, SubmitReturn
    <2> QED
      BY <2>1, <2>2, <2>3
  <1>4. UNCHANGED head_urbr \/ head_urbr' = Append(head_urbr, u)
    BY NoCrash DEF Bus_Internal_IoCtl, Submit, SubmitPending, SubmitDirect, SubmitStore,
                   SubmitRefused, SubmitArmSent, SubmitPartial, SubmitCancelled, SubmitInsert,
                   SubmitCompleteRead, SubmitReturn, lists, ListUrb
  <1>5. \A v \in Urb : Contains(head_urbr, v) => Contains(head_urbr', v)
    BY <1>4, AppendContains DEF TypeOK
  <1>6. \A v \in Urb \ {u} : irp'[v] = irp[v]
    BY NoCrash DEF Bus_Internal_IoCtl, Submit, SubmitPending, SubmitDirect, SubmitStore,
                   SubmitRefused, SubmitArmSent, SubmitPartial, SubmitCancelled, SubmitInsert,
                   SubmitCompleteRead, SubmitReturn, irps, CompleteUrb, TypeOK
  <1>7. ASSUME NEW v \in Urb \ {u}, irp'[v] = "issued"
        PROVE  Contains(head_urbr', v) \/ Claimed(v)'
    BY <1>1, <1>2, <1>3, <1>5, <1>6, <1>7 DEF RequestAccounted, Claimed
  <1>8. ASSUME fault' = "none", irp'[u] = "issued"
        PROVE  Contains(head_urbr', u) \/ Claimed(u)'
    <2>1. CASE SubmitReturn(u)
      BY <1>8, <2>1, CompleteUrbEnds DEF SubmitReturn, Ended
    <2>2. CASE SubmitPartial(u) \/ SubmitInsert(u)
      <3>1. head_urbr' = Append(head_urbr, u)
        BY <2>2, NoCrash DEF SubmitPartial, SubmitInsert, ListUrb
      <3> QED
        BY <3>1, AppendContains DEF TypeOK
    <2>3. CASE SubmitCompleteRead(u)
      <3>1. irp[u] = "issued" /\ submit[u].pc = "complete_read"
        BY <1>8, <2>3, NoCrash DEF SubmitCompleteRead, irps
      <3> QED
        BY <1>1, <1>3, <1>5, <3>1 DEF RequestAccounted, Claimed
    <2>4. CASE SubmitDirect(u)
      <3>1. submit'[u].pc = "store"
        BY <2>4 DEF SubmitDirect, SubmitOK, SubmitState
      <3> QED
        BY <3>1 DEF Claimed, Submitting
    <2>5. CASE Bus_Internal_IoCtl(u) \/ SubmitPending(u) \/ SubmitStore(u) \/ SubmitRefused(u)
               \/ SubmitArmSent(u) \/ SubmitCancelled(u)
      <3>1. PICK next \in Submitting \ {"complete_read"} : SubmitTo(u, next)
        BY <1>8, <2>5, NoCrash
           DEF Bus_Internal_IoCtl, SubmitPending, SubmitStore, SubmitRefused, SubmitArmSent,
               SubmitCancelled, Submitting, TypeOK
      <3>2. submit'[u].pc = next
        BY <3>1 DEF SubmitTo, SubmitOK, SubmitState
      <3> QED
        BY <3>1, <3>2 DEF Claimed
    <2> QED
      BY <2>1, <2>2, <2>3, <2>4, <2>5 DEF Submit
  <1> QED
    BY <1>7, <1>8 DEF RequestAccounted

LEMMA ReadAccountedFor ==
  ASSUME TInv, RequestAccounted, fault = "none", ~Crashes, NEW r \in Reader, Read(r)
  PROVE  RequestAccounted'
  <1> USE DEF TInv
  <1>1. UNCHANGED <<submit, writer, unplug, canceller>>
    BY NoCrash DEF Read, Bus_Read, ReadRefused, ReadRest, ReadPending, ReadWait, ReadStore,
                   ReadStored, ReadRefusedUrb, ReadFail, ReadReturn
  <1>2. \A q \in Reader \ {r} : reader'[q] = reader[q]
    BY NoCrash DEF Read, Bus_Read, ReadRefused, ReadRest, ReadPending, ReadWait, ReadStore,
                   ReadStored, ReadRefusedUrb, ReadFail, ReadReturn, ReaderTo, Deliver,
                   store_urbr, ReaderOK
  <1>3. CASE ReadFail(r)
    <2>1. ASSUME fault' = "none", NEW v \in Urb, irp'[v] = "issued"
          PROVE  v # reader[r].urbr /\ irp[v] = "issued"
      BY <1>3, <2>1, CompleteUrbEnds DEF ReadFail, Ended
    <2>2. UNCHANGED head_urbr
      BY <1>3 DEF ReadFail, lists
    <2> QED
      BY <1>1, <1>2, <2>1, <2>2 DEF RequestAccounted, Claimed
  <1>4. CASE ReadRefusedUrb(r)
    <2>1. /\ head_urbr' = Unlink(head_urbr, reader[r].urbr) /\ UNCHANGED irp
          /\ ReaderTo(r, "fail") /\ reader[r].pc # "fail"
      BY <1>4, NoCrash DEF ReadRefusedUrb, irps
    <2>2. reader'[r].pc = "fail" /\ reader'[r].urbr = reader[r].urbr
      BY <2>1 DEF ReaderTo, ReaderOK, ReaderState
    <2>3. \A v \in Urb : Contains(head_urbr, v) =>
             v = reader[r].urbr \/ Contains(head_urbr', v)
      BY <2>1, UnlinkContains DEF TypeOK
    <2> QED
      BY <1>1, <1>2, <2>1, <2>2, <2>3 DEF RequestAccounted, Claimed
  <1>5. CASE ~ReadFail(r) /\ ~ReadRefusedUrb(r)
    <2>1. UNCHANGED <<head_urbr, irp>> /\ reader[r].pc # "fail"
      BY <1>5, NoCrash DEF Read, Bus_Read, ReadRefused, ReadRest, ReadPending, ReadWait,
                           ReadStore, ReadStored, ReadReturn, lists, irps
    <2> QED
      BY <1>1, <1>2, <2>1 DEF RequestAccounted, Claimed
  <1> QED
    BY <1>3, <1>4, <1>5

LEMMA WriteAccounted ==
  ASSUME TInv, RequestAccounted, fault = "none", ~Crashes, NEW n \in SeqNum, Write(n)
  PROVE  RequestAccounted'
  <1> USE DEF TInv
  <1>1. UNCHANGED <<submit, reader, unplug, canceller>>
        /\ \A m \in SeqNum \ {n} : writer'[m] = writer[m]
    BY NoCrash DEF Write, Bus_Write, WriteFind, WriteComplete, WriterTo, TypeOK
  <1>2. CASE Bus_Write(n)
    BY <1>1, <1>2 DEF Bus_Write, RequestAccounted, Claimed, lists, irps
  <1>3. CASE WriteFind(n)
    <2>1. writer[n].pc = "enter" /\ UNCHANGED irp
      BY <1>3, NoCrash DEF WriteFind, irps
    <2>2. CASE UNCHANGED lists
      BY <1>1, <2>1, <2>2 DEF RequestAccounted, Claimed, lists
    <2>3. ASSUME NEW i \in SentAs(n), head_urbr' = Unlink(head_urbr, head_urbr_sent[i]),
                 writer' = [writer EXCEPT ![n] = [pc |-> "found", urbr |-> head_urbr_sent[i]]]
          PROVE  RequestAccounted'
      <3>1. writer'[n].pc = "found" /\ writer'[n].urbr = head_urbr_sent[i]
        BY <2>3 DEF TypeOK
      <3>2. \A v \in Urb : Contains(head_urbr, v) =>
               v = head_urbr_sent[i] \/ Contains(head_urbr', v)
        BY <2>3, UnlinkContains DEF TypeOK
      <3> QED
        BY <1>1, <2>1, <3>1, <3>2 DEF RequestAccounted, Claimed
    <2> QED
      BY <1>3, <2>2, <2>3, NoCrash DEF WriteFind
  <1>4. CASE WriteComplete(n)
    <2>1. ASSUME fault' = "none", NEW v \in Urb, irp'[v] = "issued"
          PROVE  v # writer[n].urbr /\ irp[v] = "issued"
      BY <1>4, <2>1, NoCrash, CompleteUrbEnds DEF WriteComplete, Ended
    <2>2. UNCHANGED head_urbr
      BY <1>4, NoCrash DEF WriteComplete, lists
    <2> QED
      BY <1>1, <2>1, <2>2 DEF RequestAccounted, Claimed
  <1> QED
    BY <1>2, <1>3, <1>4 DEF Write

LEMMA CancelAccounted ==
  ASSUME TInv, RequestAccounted, fault = "none", ~Crashes, NEW u \in Urb,
         IoCancelIrp(u) \/ CancelRoutine(u)
  PROVE  RequestAccounted'
  <1> USE DEF TInv
  <1>1. UNCHANGED <<submit, reader, writer, unplug>>
        /\ \A v \in Urb \ {u} : canceller'[v] = canceller[v]
    BY NoCrash DEF IoCancelIrp, CancelRoutine, remove_cancelled_urbr, cancel_urbr, CancellerTo,
                   TypeOK
  <1>2. CASE IoCancelIrp(u)
    <2>1. canceller[u] \notin {"remove", "complete"} /\ UNCHANGED <<head_urbr, irp>>
      BY <1>2 DEF IoCancelIrp, lists
    <2> QED
      BY <1>1, <2>1 DEF RequestAccounted, Claimed
  <1>3. CASE remove_cancelled_urbr(u)
    <2>1. canceller'[u] = "complete" /\ UNCHANGED irp
      BY <1>3, NoCrash DEF remove_cancelled_urbr, CancellerTo, irps, TypeOK
    <2>2. UNCHANGED head_urbr \/ head_urbr' = Unlink(head_urbr, u)
      BY <1>3, NoCrash DEF remove_cancelled_urbr, lists
    <2>3. \A v \in Urb : Contains(head_urbr, v) => v = u \/ Contains(head_urbr', v)
      BY <2>2, UnlinkContains DEF TypeOK
    <2> QED
      BY <1>1, <2>1, <2>3 DEF RequestAccounted, Claimed
  <1>4. CASE cancel_urbr(u)
    <2>1. ASSUME fault' = "none", NEW v \in Urb, irp'[v] = "issued"
          PROVE  v # u /\ irp[v] = "issued"
      BY <1>4, <2>1, CompleteUrbEnds DEF cancel_urbr, Ended
    <2>2. UNCHANGED head_urbr
      BY <1>4 DEF cancel_urbr, lists
    <2> QED
      BY <1>1, <2>1, <2>2 DEF RequestAccounted, Claimed
  <1> QED
    BY <1>2, <1>3, <1>4 DEF CancelRoutine

LEMMA UnplugAccounted ==
  ASSUME TInv, RequestAccounted, fault = "none", ~Crashes, bus_unplug_dev \/ Unplug
  PROVE  RequestAccounted'
  <1> USE DEF TInv
  <1>1. UNCHANGED <<submit, writer, canceller>>
    BY NoCrash DEF bus_unplug_dev, Unplug, complete_pending_read_irp, UnplugEndRead, UnplugTake,
                   UnplugEndUrb, UnplugReset
  <1>2. \A r \in Reader : reader[r].pc = "fail" => reader'[r] = reader[r]
    <2>1. CASE UnplugEndRead
      BY <2>1, NoCrash DEF UnplugEndRead, ReaderTo, ReaderOK
    <2>2. CASE ~UnplugEndRead
      BY <2>2, NoCrash DEF bus_unplug_dev, Unplug, complete_pending_read_irp, UnplugTake,
                           UnplugEndUrb, UnplugReset
    <2> QED
      BY <2>1, <2>2
  <1>3. CASE UnplugTake
    <2>1. /\ unplug.pc = "clear" /\ head_urbr # <<>> /\ head_urbr' = Tail(head_urbr)
          /\ unplug' = [unplug EXCEPT !.pc = "end_urb", !.urbr = Head(head_urbr)]
          /\ UNCHANGED irp
      BY <1>3, NoCrash DEF UnplugTake, irps
    <2>2. unplug'.pc = "end_urb" /\ unplug'.urbr = Head(head_urbr)
      BY <2>1 DEF TypeOK, UnplugState
    <2>3. \A v \in Urb : Contains(head_urbr, v) =>
             v = Head(head_urbr) \/ Contains(head_urbr', v)
      BY <2>1, TailContains DEF TypeOK
    <2> QED
      BY <1>1, <1>2, <2>1, <2>2, <2>3 DEF RequestAccounted, Claimed
  <1>4. CASE UnplugEndUrb
    <2>1. ASSUME fault' = "none", NEW v \in Urb, irp'[v] = "issued"
          PROVE  v # unplug.urbr /\ irp[v] = "issued"
      BY <1>4, <2>1, CompleteUrbEnds DEF UnplugEndUrb, Ended
    <2>2. UNCHANGED head_urbr
      BY <1>4 DEF UnplugEndUrb, lists
    <2> QED
      BY <1>1, <1>2, <2>1, <2>2 DEF RequestAccounted, Claimed
  <1>5. CASE bus_unplug_dev \/ complete_pending_read_irp \/ UnplugEndRead \/ UnplugReset
    <2>1. UNCHANGED <<head_urbr, irp>> /\ unplug.pc # "end_urb"
      BY <1>5, NoCrash DEF bus_unplug_dev, complete_pending_read_irp, UnplugEndRead,
                           UnplugReset, lists, irps
    <2> QED
      BY <1>1, <1>2, <2>1 DEF RequestAccounted, Claimed
  <1> QED
    BY <1>3, <1>4, <1>5 DEF Unplug

-----------------------------------------------------------------------------

LEMMA NextAccounted == TInv /\ RequestAccounted /\ [Next]_vars => RequestAccounted'
  <1> SUFFICES ASSUME TInv, RequestAccounted, [Next]_vars PROVE RequestAccounted'
    OBVIOUS
  <1>1. CASE Next /\ Crashes
    BY <1>1 DEF Crashes, Crash, Fault, RequestAccounted
  <1>2. CASE Next /\ ~Crashes
    BY <1>2, SubmitAccounted, ReadAccountedFor, WriteAccounted, CancelAccounted, UnplugAccounted
       DEF Next
  <1>3. CASE UNCHANGED vars
    BY <1>3 DEF RequestAccounted, Claimed, vars, lists, irps, threads
  <1> QED
    BY <1>1, <1>2, <1>3

(* Up to the first fault, a request that is not completed is in head_urbr, *)
(* where unplugging and cancellation find it, or some thread is bound to   *)
(* complete it (usbreq.c, vhci_read.c, vhci_write.c, vhci_pnp.c).          *)
THEOREM NoRequestIsLost == Spec => []RequestAccounted
  <1>1. Init => RequestAccounted
    BY DEF Init, RequestAccounted
  <1> QED
    BY <1>1, Typed, NextAccounted, PTL DEF Spec

=============================================================================
