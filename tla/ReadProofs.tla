------------------------------ MODULE ReadProofs ------------------------------
(***************************************************************************)
(* No waiting read is lost and no answer misses its request, for any       *)
(* number of requests and readers and whatever is cancelled or refused, as *)
(* long as the device stays plugged in and the program does not overlap    *)
(* its reads.                                                              *)
(*                                                                         *)
(* The argument: pending_read_irp and urbr_sent_partial shut each other's  *)
(* users out.  A submitter that fills a waiting read finds no other        *)
(* request in transfer, so no second submitter takes the same read; a read *)
(* that is being processed finds no read waiting, so no submitter fills    *)
(* one meanwhile.  Hence a buffer is filled by one thread, and what is in  *)
(* it when it is delivered is the request that thread has just queued.     *)
(***************************************************************************)
EXTENDS UrbQueueProofs

(* What the theorems are about.                                            *)
Calm == Present /\ fault = "none" /\ ~OverlapReads

(* Submitters that fill the waiting read, that have taken it, and that     *)
(* have handed their request over.                                         *)
Filling == {"store", "stored", "refused"}
Taking  == Filling \cup {"arm_sent"}
Ready   == {"complete_read", "done"}

ReadsOK ==
    /\ unplug.pc = "idle"
    /\ \A r, q \in Reader : reader[r].pc \in Reading /\ reader[q].pc \in Reading => r = q
    /\ \A r \in Reader : reader[r].pc \in Reading \ {"enter"} => pending_read_irp = NoRead
    /\ pending_read_irp # NoRead => reader[pending_read_irp].pc = "pending"
    /\ \A r \in Reader : reader[r].pc = "pending" =>
          \/ pending_read_irp = r
          \/ \E u \in Urb : submit[u].pc = "complete_read" /\ submit[u].read = r

TakingOK ==
    /\ \A u \in Urb : submit[u].pc \in Taking =>
          pending_read_irp \in Reader /\ submit[u].read = pending_read_irp
    /\ \A u \in Urb : submit[u].pc \in Filling => urbr_sent_partial = u
    /\ \A u \in Urb : submit[u].pc \in {"arm_pending", "arm_sent"} => lock_urbr = u
    /\ \A u \in Urb : submit[u].pc = "arm_sent" => urbr_sent_partial = NoUrb
    /\ \A u \in Urb : submit[u].pc = "complete_read" =>
          reader[submit[u].read].pc = "pending" /\ submit[u].read # pending_read_irp
    /\ \A u, v \in Urb : /\ submit[u].pc = "complete_read" /\ submit[v].pc = "complete_read"
                         /\ submit[u].read = submit[v].read
                         => u = v
    /\ \A u \in Urb : u \in cancel_routine \/ canceller[u] = "remove" =>
          submit[u].pc \notin {"idle", "enter"} \cup Filling

(* The request in transfer, and the length that says what is left of it.   *)
PartialOK ==
    /\ urbr_sent_partial = NoUrb => len_sent_partial = 0
    /\ urbr_sent_partial # NoUrb => /\ urbr_seq[urbr_sent_partial] # 0
                                    /\ submit[urbr_sent_partial].pc \in Filling \cup Ready
    /\ \A u \in Urb : submit[u].pc \in {"store", "refused"} => len_sent_partial = 0
    /\ \A u \in Urb : submit[u].pc \in Taking => urbr_seq[u] # 0
    /\ \A r \in Reader : reader[r].pc \in Reading \ {"enter", "return"} =>
          submit[reader[r].urbr].pc \in Ready /\ urbr_seq[reader[r].urbr] # 0
    /\ \A r \in Reader : reader[r].pc = "store" =>
          /\ len_sent_partial = 0
          /\ Live(reader[r].urbr) => urbr_sent_partial = reader[r].urbr

(* The buffer of the read that the submitter of a request fills.           *)
Buf(u) == reader[submit[u].read].buf

BufOK ==
    /\ \A u \in Urb : submit[u].pc \in {"stored", "arm_sent", "complete_read"} =>
          Buf(u).seq = urbr_seq[u]
    /\ \A u \in Urb : submit[u].pc = "stored" /\ len_sent_partial # 0 => Buf(u).part = "header"
    /\ \A r \in Reader : reader[r].pc \in {"stored", "stored_partial"} =>
          reader[r].buf.seq = urbr_seq[reader[r].urbr]
    /\ \A r \in Reader : reader[r].pc = "stored" /\ reader[r].buf.part # "header" =>
          len_sent_partial = 0

FillOK == ReadsOK /\ TakingOK /\ PartialOK /\ BufOK

-----------------------------------------------------------------------------
(* What the steps are made of                                              *)

LEMMA SubmitToIs ==
  ASSUME SubmitOK, NEW u \in Urb, NEW pc, SubmitTo(u, pc)
  PROVE  \A v \in Urb : /\ submit'[v].pc = IF v = u THEN pc ELSE submit[v].pc
                        /\ submit'[v].read = submit[v].read
  BY DEF SubmitOK, SubmitState, SubmitTo

LEMMA ReaderToIs ==
  ASSUME ReaderOK, NEW r \in Reader, NEW pc, ReaderTo(r, pc)
  PROVE  \A q \in Reader : /\ reader'[q].pc = IF q = r THEN pc ELSE reader[q].pc
                           /\ reader'[q].urbr = reader[q].urbr
                           /\ reader'[q].buf = reader[q].buf
  BY DEF ReaderOK, ReaderState, ReaderTo

LEMMA StoredIs ==
  ASSUME ReaderOK, NEW r \in Reader, NEW u, NEW out, reader' = store_urbr(r, u, out)
  PROVE  \A q \in Reader : /\ reader'[q].pc = reader[q].pc
                           /\ reader'[q].urbr = reader[q].urbr
                           /\ reader'[q].buf = IF q = r THEN [seq |-> urbr_seq[u], part |-> out]
                                               ELSE reader[q].buf
  BY DEF ReaderOK, ReaderState, store_urbr

(* What is not a null pointer.                                             *)
LEMMA HeldTyped ==
  ASSUME TInv
  PROVE  /\ urbr_sent_partial \in Urb \cup {NoUrb}
         /\ pending_read_irp \in Reader \cup {NoRead}
         /\ \A r \in Reader : reader[r].pc \in Reading \ {"enter", "return"} =>
                                  reader[r].urbr \in Urb
         /\ \A u \in Urb : submit[u].pc \in {"store", "stored", "arm_sent", "complete_read"} =>
                               submit[u].read \in Reader /\ submit[u].read # NoRead
  <1>1. /\ urbr_sent_partial \in Urb \cup {NoUrb}
        /\ pending_read_irp \in Reader \cup {NoRead}
    BY DEF TInv, TypeOK
  <1>2. \A r \in Reader : reader[r].pc \in Reading \ {"enter", "return"} =>
                             reader[r].urbr \in Urb
    BY DEF TInv, ReaderOK, Reading
  <1>3. \A u \in Urb : submit[u].pc \in {"store", "stored", "arm_sent", "complete_read"} =>
                          submit[u].read \in Reader /\ submit[u].read # NoRead
    BY UrbAssumption DEF TInv, SubmitOK
  <1> QED
    BY <1>1, <1>2, <1>3

(* Nobody holds the lock, so nobody is arming a cancel routine.            *)
LEMMA NobodyArms ==
  ASSUME TakingOK, Unlocked, NEW u \in Urb
  PROVE  submit[u].pc \notin {"arm_pending", "arm_sent"}
  BY UrbAssumption DEF TakingOK, Unlocked

LEMMA FreedDead ==
  ASSUME TypeOK, NEW u \in Urb, Free(u)
  PROVE  \A v \in Urb : Live(v)' => Live(v)
  BY DEF TypeOK, Free, Live

LEMMA CalmStep ==
  ASSUME Calm', Calm
  PROVE  ~Crashes
  BY DEF Calm, Crashes, Crash, Fault

-----------------------------------------------------------------------------
(* The steps of a submitter                                                *)

LEMMA InternalFill ==
  ASSUME AInv, Calm, Calm', FillOK, NEW u \in Urb, Bus_Internal_IoCtl(u)
  PROVE  FillOK'
  <1> USE DEF AInv, TInv
  <1>1. /\ UNCHANGED <<unplug, reader, pending_read_irp, urbr_sent_partial, len_sent_partial,
                       lock_urbr, cancel_routine, canceller, urbr_seq>>
        /\ submit[u].pc = "idle"
        /\ \A v \in Urb \ {u} : urbr'[v] = urbr[v]
    BY DEF Bus_Internal_IoCtl, partial, TypeOK
  <1>2. PICK pc \in {"enter", "done"} :
           \A v \in Urb : /\ submit'[v].pc = IF v = u THEN pc ELSE submit[v].pc
                          /\ submit'[v].read = submit[v].read
    BY SubmitToIs DEF Bus_Internal_IoCtl
  <1>3. ReadsOK' 
    BY <1>1, <1>2 DEF FillOK, ReadsOK
  <1>4. TakingOK'
    BY <1>1, <1>2 DEF FillOK, TakingOK, Filling, Taking
  <1>5. PartialOK'
    BY <1>1, <1>2, HeldTyped
       DEF FillOK, PartialOK, Filling, Taking, Ready, Live, Reading
  <1>6. BufOK'
    BY <1>1, <1>2 DEF FillOK, BufOK, Buf
  <1> QED
    BY <1>3, <1>4, <1>5, <1>6 DEF FillOK

LEMMA SubmitPendingFill ==
  ASSUME AInv, Calm, Calm', FillOK, NEW u \in Urb, SubmitPending(u)
  PROVE  FillOK'
  <1> USE DEF AInv, TInv
  <1>1. /\ UNCHANGED <<unplug, reader, pending_read_irp, urbr_sent_partial, len_sent_partial,
                       canceller, urbr_seq, urbr>>
        /\ submit[u].pc = "enter" /\ lock_urbr' = u /\ cancel_routine' = cancel_routine \cup {u}
        /\ Unlocked
    BY DEF SubmitPending, partial, urbs
  <1>2. \A v \in Urb : /\ submit'[v].pc = IF v = u THEN "arm_pending" ELSE submit[v].pc
                       /\ submit'[v].read = submit[v].read
    BY SubmitToIs DEF SubmitPending
  <1>3. ReadsOK'
    BY <1>1, <1>2 DEF FillOK, ReadsOK
  <1>4. TakingOK'
    BY <1>1, <1>2, NobodyArms DEF FillOK, TakingOK, Filling, Taking
  <1>5. PartialOK'
    BY <1>1, <1>2, HeldTyped
       DEF FillOK, PartialOK, Filling, Taking, Ready, Live, Reading
  <1>6. BufOK'
    BY <1>1, <1>2 DEF FillOK, BufOK, Buf
  <1> QED
    BY <1>3, <1>4, <1>5, <1>6 DEF FillOK

LEMMA SubmitDirectFill ==
  ASSUME AInv, Calm, Calm', FillOK, NEW u \in Urb, SubmitDirect(u)
  PROVE  FillOK'
  <1> USE DEF AInv, TInv
  <1>1. /\ UNCHANGED <<unplug, reader, pending_read_irp, len_sent_partial, lock_urbr,
                       cancel_routine, canceller, urbr>>
        /\ submit[u].pc = "enter" /\ urbr_sent_partial' = u /\ Number(u)
        /\ urbr_sent_partial = NoUrb /\ pending_read_irp \in Reader /\ Unlocked
    BY DEF SubmitDirect, MustQueue, irps, TypeOK
  <1>2. \A v \in Urb : /\ submit'[v].pc = IF v = u THEN "store" ELSE submit[v].pc
                       /\ submit'[v].read = IF v = u THEN pending_read_irp ELSE submit[v].read
    BY DEF SubmitDirect, SubmitOK, SubmitState
  <1>3. /\ \A v \in Urb : urbr_seq'[v] = IF v = u THEN seq_num + 1 ELSE urbr_seq[v]
        /\ seq_num + 1 # 0
    BY <1>1, NumberIsNew DEF TypeOK
  <1>4. len_sent_partial = 0
    BY <1>1 DEF FillOK, PartialOK
  <1>5. ReadsOK'
    BY <1>1, <1>2 DEF FillOK, ReadsOK
  <1>6. TakingOK'
    BY <1>1, <1>2, NobodyArms, UrbAssumption DEF FillOK, TakingOK, Filling, Taking
  <1>7. PartialOK'
    BY <1>1, <1>2, <1>3, <1>4, UrbAssumption
       DEF FillOK, PartialOK, Filling, Taking, Ready, Live, ReaderOK, Reading
  <1>8. BufOK'
    BY <1>1, <1>2, <1>3, <1>4 DEF FillOK, BufOK, Buf, PartialOK, ReaderOK, Reading, Ready
  <1> QED
    BY <1>5, <1>6, <1>7, <1>8 DEF FillOK

LEMMA SubmitStoreFill ==
  ASSUME AInv, Calm, Calm', FillOK, NEW u \in Urb, SubmitStore(u)
  PROVE  FillOK'
  <1> USE DEF AInv, TInv
  <1> DEFINE r == submit[u].read
  <1>1. /\ UNCHANGED <<unplug, pending_read_irp, urbr_sent_partial, lock_urbr, cancel_routine,
                       canceller, urbr, urbr_seq>>
        /\ submit[u].pc = "store" /\ r \in Reader /\ reader[r].pc = "pending"
        /\ \/ SubmitTo(u, "refused") /\ UNCHANGED <<reader, len_sent_partial>>
           \/ \E out \in {"whole", "header"} : /\ SubmitTo(u, "stored")
                                               /\ reader' = store_urbr(r, u, out)
                                               /\ len_sent_partial' = LenAfter(out)
    BY CalmStep, NoCrash DEF SubmitStore, StoreOutcomes, urbs, irps, SubmitOK
  <1>2. /\ urbr_sent_partial = u /\ len_sent_partial = 0 /\ pending_read_irp = r
        /\ \A v \in Urb : submit[v].pc \in Taking => v = u
        /\ \A q \in Reader : reader[q].pc \notin Reading \ {"enter"}
        /\ \A v \in Urb : submit[v].pc = "complete_read" => submit[v].read # r
    BY <1>1, UrbAssumption DEF FillOK, ReadsOK, TakingOK, PartialOK, Filling, Taking
  <1> HIDE DEF r
  <1>3. CASE SubmitTo(u, "refused") /\ UNCHANGED <<reader, len_sent_partial>>
    <2>1. \A v \in Urb : /\ submit'[v].pc = IF v = u THEN "refused" ELSE submit[v].pc
                         /\ submit'[v].read = submit[v].read
      BY <1>3, SubmitToIs
    <2>2. ReadsOK' /\ TakingOK'
      BY <1>1, <1>3, <2>1 DEF FillOK, ReadsOK, TakingOK, Filling, Taking
    <2>3. PartialOK'
      BY <1>1, <1>2, <1>3, <2>1 DEF FillOK, PartialOK, Filling, Taking, Ready, Live
    <2>4. BufOK'
      BY <1>1, <1>3, <2>1 DEF FillOK, BufOK, Buf
    <2> QED
      BY <2>2, <2>3, <2>4 DEF FillOK
  <1>4. ASSUME NEW out \in {"whole", "header"}, SubmitTo(u, "stored"),
               reader' = store_urbr(r, u, out), len_sent_partial' = LenAfter(out)
        PROVE  FillOK'
    <2>1. \A v \in Urb : /\ submit'[v].pc = IF v = u THEN "stored" ELSE submit[v].pc
                         /\ submit'[v].read = submit[v].read
      BY <1>4, SubmitToIs
    <2>2. \A q \in Reader : /\ reader'[q].pc = reader[q].pc
                            /\ reader'[q].urbr = reader[q].urbr
                            /\ reader'[q].buf = IF q = r THEN [seq |-> urbr_seq[u], part |-> out]
                                                ELSE reader[q].buf
      BY <1>1, <1>4, StoredIs
    <2>3. len_sent_partial' # 0 => out = "header"
      BY <1>2, <1>4 DEF LenAfter, HeaderSize
    <2>4. ReadsOK'
      BY <1>1, <1>2, <2>1, <2>2 DEF FillOK, ReadsOK
    <2>5. TakingOK'
      BY <1>1, <1>2, <2>1, <2>2 DEF FillOK, TakingOK, Filling, Taking, SubmitOK
    <2>6. PartialOK'
      BY <1>1, <1>2, <2>1, <2>2, UrbAssumption
         DEF FillOK, PartialOK, Filling, Taking, Ready, Live, Reading
    <2>7. BufOK'
      <3>1. \A v \in Urb : submit[v].pc \in {"arm_sent", "complete_read"} =>
               submit[v].read \in Reader /\ submit[v].read # r
        BY <1>1, <1>2 DEF SubmitOK, Taking, Filling
      <3>2. \A v \in Urb : submit'[v].pc \in {"stored", "arm_sent", "complete_read"} =>
               Buf(v)' = IF v = u THEN [seq |-> urbr_seq[u], part |-> out] ELSE Buf(v)
        BY <1>1, <1>2, <2>1, <2>2, <3>1 DEF Buf, Taking, Filling, r
      <3> QED
        BY <1>1, <1>2, <2>1, <2>2, <2>3, <3>2 DEF FillOK, BufOK, Reading, Taking, Filling
    <2> QED
      BY <2>4, <2>5, <2>6, <2>7 DEF FillOK
  <1> QED
    BY <1>1, <1>3, <1>4

LEMMA SubmitRefusedFill ==
  ASSUME AInv, Calm, Calm', FillOK, NEW u \in Urb, SubmitRefused(u)
  PROVE  FillOK'
  <1> USE DEF AInv, TInv
  <1>1. /\ UNCHANGED <<unplug, reader, pending_read_irp, len_sent_partial, lock_urbr,
                       cancel_routine, canceller, urbr_seq>>
        /\ submit[u].pc = "refused" /\ urbr_sent_partial' = NoUrb /\ Free(u)
    BY DEF SubmitRefused, irps
  <1>2. \A v \in Urb : /\ submit'[v].pc = IF v = u THEN "rejected" ELSE submit[v].pc
                       /\ submit'[v].read = submit[v].read
    BY SubmitToIs DEF SubmitRefused
  <1>3. /\ len_sent_partial = 0 /\ urbr_sent_partial = u /\ pending_read_irp # NoRead
        /\ \A q \in Reader : reader[q].pc \notin Reading \ {"enter"}
    BY <1>1, UrbAssumption DEF FillOK, ReadsOK, TakingOK, PartialOK, Filling, Taking
  <1>4. ReadsOK'
    BY <1>1, <1>2 DEF FillOK, ReadsOK
  <1>5. TakingOK'
    BY <1>1, <1>2, <1>3 DEF FillOK, TakingOK, Filling, Taking
  <1>6. PartialOK'
    BY <1>1, <1>2, <1>3 DEF FillOK, PartialOK, Filling, Taking, Ready, Reading
  <1>7. BufOK'
    BY <1>1, <1>2 DEF FillOK, BufOK, Buf
  <1> QED
    BY <1>4, <1>5, <1>6, <1>7 DEF FillOK

LEMMA SubmitArmSentFill ==
  ASSUME AInv, Calm, Calm', FillOK, NEW u \in Urb, SubmitArmSent(u)
  PROVE  FillOK'
  <1> USE DEF AInv, TInv
  <1>1. /\ UNCHANGED <<unplug, reader, pending_read_irp, len_sent_partial, canceller, urbr,
                       urbr_seq>>
        /\ submit[u].pc = "stored" /\ urbr_sent_partial' = NoUrb /\ len_sent_partial = 0
        /\ cancel_routine' = cancel_routine \cup {u} /\ lock_urbr' = u /\ Unlocked
    BY DEF SubmitArmSent, urbs
  <1>2. \A v \in Urb : /\ submit'[v].pc = IF v = u THEN "arm_sent" ELSE submit[v].pc
                       /\ submit'[v].read = submit[v].read
    BY SubmitToIs DEF SubmitArmSent
  <1>3. /\ urbr_sent_partial = u /\ pending_read_irp # NoRead
        /\ \A q \in Reader : reader[q].pc \notin Reading \ {"enter"}
    BY <1>1, UrbAssumption DEF FillOK, ReadsOK, TakingOK, Filling, Taking
  <1>4. ReadsOK'
    BY <1>1, <1>2 DEF FillOK, ReadsOK
  <1>5. TakingOK'
    BY <1>1, <1>2, <1>3, NobodyArms DEF FillOK, TakingOK, Filling, Taking
  <1>6. PartialOK'
    BY <1>1, <1>2, <1>3 DEF FillOK, PartialOK, Filling, Taking, Ready, Reading
  <1>7. BufOK'
    BY <1>1, <1>2 DEF FillOK, BufOK, Buf
  <1> QED
    BY <1>4, <1>5, <1>6, <1>7 DEF FillOK

LEMMA SubmitPartialFill ==
  ASSUME AInv, Calm, Calm', FillOK, NEW u \in Urb, SubmitPartial(u)
  PROVE  FillOK'
  <1> USE DEF AInv, TInv
  <1>1. /\ UNCHANGED <<unplug, reader, urbr_sent_partial, len_sent_partial, lock_urbr,
                       cancel_routine, canceller, urbr, urbr_seq>>
        /\ submit[u].pc = "stored" /\ pending_read_irp' = NoRead
    BY CalmStep, NoCrash DEF SubmitPartial, partial, urbs, irps
  <1>2. \A v \in Urb : /\ submit'[v].pc = IF v = u THEN "complete_read" ELSE submit[v].pc
                       /\ submit'[v].read = submit[v].read
    BY CalmStep, NoCrash, SubmitToIs DEF SubmitPartial
  <1>3. /\ urbr_sent_partial = u /\ pending_read_irp = submit[u].read
        /\ pending_read_irp \in Reader
        /\ \A v \in Urb : submit[v].pc \in Taking => v = u
    BY <1>1, UrbAssumption DEF FillOK, TakingOK, Filling, Taking
  <1>4. ReadsOK'
    BY <1>1, <1>2, <1>3, UrbAssumption DEF FillOK, ReadsOK
  <1>5. TakingOK'
    BY <1>1, <1>2, <1>3, HeldTyped DEF FillOK, ReadsOK, TakingOK, Filling, Taking
  <1>6. PartialOK'
    BY <1>1, <1>2, <1>3, HeldTyped
       DEF FillOK, PartialOK, Filling, Taking, Ready, Live, Reading
  <1>7. BufOK'
    BY <1>1, <1>2 DEF FillOK, BufOK, Buf
  <1> QED
    BY <1>4, <1>5, <1>6, <1>7 DEF FillOK

LEMMA SubmitCancelledFill ==
  ASSUME AInv, Calm, Calm', FillOK, NEW u \in Urb, SubmitCancelled(u)
  PROVE  FillOK'
  <1> USE DEF AInv, TInv
  <1>1. /\ UNCHANGED <<unplug, reader, pending_read_irp, urbr_sent_partial, len_sent_partial,
                       canceller, urbr_seq>>
        /\ submit[u].pc \in {"arm_pending", "arm_sent"} /\ lock_urbr' = NoUrb /\ Free(u)
        /\ cancel_routine' = cancel_routine \ {u}
    BY DEF SubmitCancelled, partial
  <1>2. \A v \in Urb : /\ submit'[v].pc = IF v = u THEN "cancelled" ELSE submit[v].pc
                       /\ submit'[v].read = submit[v].read
    BY SubmitToIs DEF SubmitCancelled
  <1>3. ReadsOK'
    BY <1>1, <1>2 DEF FillOK, ReadsOK
  <1>4. TakingOK'
    BY <1>1, <1>2 DEF FillOK, TakingOK, Filling, Taking
  <1>5. PartialOK'
    BY <1>1, <1>2, HeldTyped, FreedDead
       DEF FillOK, PartialOK, Filling, Taking, Ready, Reading
  <1>6. BufOK'
    BY <1>1, <1>2 DEF FillOK, BufOK, Buf
  <1> QED
    BY <1>3, <1>4, <1>5, <1>6 DEF FillOK

LEMMA SubmitInsertFill ==
  ASSUME AInv, Calm, Calm', FillOK, NEW u \in Urb, SubmitInsert(u)
  PROVE  FillOK'
  <1> USE DEF AInv, TInv
  <1>1. /\ UNCHANGED <<unplug, reader, urbr_sent_partial, len_sent_partial, cancel_routine,
                       canceller, urbr, urbr_seq>>
        /\ lock_urbr' = NoUrb
        /\ \/ /\ submit[u].pc = "arm_pending" /\ SubmitTo(u, "done")
              /\ UNCHANGED pending_read_irp
           \/ /\ submit[u].pc = "arm_sent" /\ SubmitTo(u, "complete_read")
              /\ pending_read_irp' = NoRead
    BY CalmStep, NoCrash DEF SubmitInsert, partial, urbs, irps
  <1>2. \A v \in Urb : submit[v].pc \in {"arm_pending", "arm_sent"} => v = u
    BY <1>1 DEF FillOK, TakingOK
  <1>3. CASE /\ submit[u].pc = "arm_pending" /\ SubmitTo(u, "done")
             /\ UNCHANGED pending_read_irp
    <2>1. \A v \in Urb : /\ submit'[v].pc = IF v = u THEN "done" ELSE submit[v].pc
                         /\ submit'[v].read = submit[v].read
      BY <1>3, SubmitToIs
    <2>2. ReadsOK' /\ TakingOK'
      BY <1>1, <1>2, <1>3, <2>1 DEF FillOK, ReadsOK, TakingOK, Filling, Taking
    <2>3. PartialOK' /\ BufOK'
      BY <1>1, <1>3, <2>1, HeldTyped
         DEF FillOK, PartialOK, BufOK, Buf, Filling, Taking, Ready, Live
    <2> QED
      BY <2>2, <2>3 DEF FillOK
  <1>4. CASE /\ submit[u].pc = "arm_sent" /\ SubmitTo(u, "complete_read")
             /\ pending_read_irp' = NoRead
    <2>1. \A v \in Urb : /\ submit'[v].pc = IF v = u THEN "complete_read" ELSE submit[v].pc
                         /\ submit'[v].read = submit[v].read
      BY <1>4, SubmitToIs
    <2>2. /\ urbr_sent_partial = NoUrb /\ pending_read_irp = submit[u].read
          /\ pending_read_irp \in Reader
          /\ \A v \in Urb : submit[v].pc \in Taking => v = u
      BY <1>2, <1>4, UrbAssumption DEF FillOK, TakingOK, Filling, Taking
    <2>3. ReadsOK'
      BY <1>1, <1>4, <2>1, <2>2 DEF FillOK, ReadsOK
    <2>4. TakingOK'
      BY <1>1, <1>2, <1>4, <2>1, <2>2, HeldTyped
         DEF FillOK, ReadsOK, TakingOK, Filling, Taking
    <2>5. PartialOK'
      BY <1>1, <1>4, <2>1, <2>2, HeldTyped
         DEF FillOK, PartialOK, Filling, Taking, Ready, Live
    <2>6. BufOK'
      BY <1>1, <1>4, <2>1 DEF FillOK, BufOK, Buf
    <2> QED
      BY <2>3, <2>4, <2>5, <2>6 DEF FillOK
  <1> QED
    BY <1>1, <1>3, <1>4

LEMMA SubmitCompleteReadFill ==
  ASSUME AInv, Calm, Calm', FillOK, NEW u \in Urb, SubmitCompleteRead(u)
  PROVE  FillOK'
  <1> USE DEF AInv, TInv
  <1> DEFINE r == submit[u].read
  <1>1. /\ UNCHANGED <<unplug, pending_read_irp, urbr_sent_partial, len_sent_partial, lock_urbr,
                       cancel_routine, canceller, urbr, urbr_seq>>
        /\ submit[u].pc = "complete_read" /\ SubmitTo(u, "done")
        /\ ReaderTo(r, "idle") /\ r \in Reader
    BY CalmStep, NoCrash DEF SubmitCompleteRead, Deliver, partial, urbs, irps, SubmitOK
  <1>2. \A v \in Urb : /\ submit'[v].pc = IF v = u THEN "done" ELSE submit[v].pc
                       /\ submit'[v].read = submit[v].read
    BY <1>1, SubmitToIs
  <1>3. \A q \in Reader : /\ reader'[q].pc = IF q = r THEN "idle" ELSE reader[q].pc
                          /\ reader'[q].urbr = reader[q].urbr
                          /\ reader'[q].buf = reader[q].buf
    BY <1>1, ReaderToIs
  <1>4. /\ r = submit[u].read /\ r # pending_read_irp
        /\ \A v \in Urb : submit[v].pc = "complete_read" /\ submit[v].read = r => v = u
    BY <1>1 DEF FillOK, TakingOK
  <1>5. \A v \in Urb : submit[v].pc \in {"stored", "arm_sent", "complete_read"} =>
                          submit[v].read \in Reader
    BY DEF SubmitOK
  <1> HIDE DEF r
  <1>6. ReadsOK'
    BY <1>1, <1>2, <1>3, <1>4, HeldTyped DEF FillOK, ReadsOK, Reading
  <1>7. TakingOK'
    BY <1>1, <1>2, <1>3, <1>4, <1>5 DEF FillOK, TakingOK, Filling, Taking
  <1>8. PartialOK'
    BY <1>1, <1>2, <1>3, HeldTyped
       DEF FillOK, PartialOK, Filling, Taking, Ready, Live, Reading
  <1>9. BufOK'
    BY <1>1, <1>2, <1>3, <1>5 DEF FillOK, BufOK, Buf
  <1> QED
    BY <1>6, <1>7, <1>8, <1>9 DEF FillOK

LEMMA SubmitReturnFill ==
  ASSUME AInv, Calm, Calm', FillOK, NEW u \in Urb, SubmitReturn(u)
  PROVE  FillOK'
  <1> USE DEF AInv, TInv
  <1>1. /\ UNCHANGED <<unplug, reader, pending_read_irp, urbr_sent_partial, len_sent_partial,
                       lock_urbr, cancel_routine, canceller, urbr, urbr_seq>>
        /\ submit[u].pc \in {"cancelled", "rejected"}
    BY DEF SubmitReturn, partial, urbs
  <1>2. \A v \in Urb : /\ submit'[v].pc = IF v = u THEN "done" ELSE submit[v].pc
                       /\ submit'[v].read = submit[v].read
    BY SubmitToIs DEF SubmitReturn
  <1>3. ReadsOK'
    BY <1>1, <1>2 DEF FillOK, ReadsOK
  <1>4. TakingOK'
    BY <1>1, <1>2 DEF FillOK, TakingOK, Filling, Taking
  <1>5. PartialOK'
    BY <1>1, <1>2, HeldTyped
       DEF FillOK, PartialOK, Filling, Taking, Ready, Live, Reading
  <1>6. BufOK'
    BY <1>1, <1>2 DEF FillOK, BufOK, Buf
  <1> QED
    BY <1>3, <1>4, <1>5, <1>6 DEF FillOK

-----------------------------------------------------------------------------
(* The steps of a read                                                     *)

(* A read that is being processed is the only one, and past its entry no   *)
(* read waits, so no submitter fills one.                                  *)
LEMMA ReadAlone ==
  ASSUME TInv, FillOK, NEW r \in Reader, reader[r].pc \in Reading
  PROVE  /\ \A q \in Reader : reader[q].pc \in Reading => q = r
         /\ reader[r].pc # "enter" \/ ~ReadWaits => pending_read_irp = NoRead
         /\ pending_read_irp = NoRead => \A u \in Urb : submit[u].pc \notin Taking
         /\ \A u \in Urb : submit[u].pc = "complete_read" => submit[u].read # r
  BY UrbAssumption DEF FillOK, ReadsOK, TakingOK, Reading, ReadWaits

LEMMA ReadPassesFill ==
  ASSUME AInv, Calm, Calm', FillOK, NEW r \in Reader, Bus_Read(r) \/ ReadRefused(r)
  PROVE  FillOK'
  <1> USE DEF AInv, TInv
  <1>1. UNCHANGED <<unplug, submit, pending_read_irp, urbr_sent_partial, len_sent_partial,
                    lock_urbr, cancel_routine, canceller, urbr, urbr_seq>>
    BY DEF Bus_Read, ReadRefused, partial, urbs, irps
  <1>2. PICK pc : /\ ReaderTo(r, pc)
                  /\ \/ /\ pc = "enter" /\ reader[r].pc = "idle"
                        /\ \A q \in Reader : reader[q].pc \in {"idle", "pending"}
                     \/ pc = "idle" /\ reader[r].pc = "enter"
    BY DEF Bus_Read, ReadRefused, Calm
  <1>3. \A q \in Reader : /\ reader'[q].pc = IF q = r THEN pc ELSE reader[q].pc
                          /\ reader'[q].urbr = reader[q].urbr
                          /\ reader'[q].buf = reader[q].buf
    BY <1>2, ReaderToIs
  <1>4. ReadsOK'
    BY <1>1, <1>2, <1>3, HeldTyped DEF FillOK, ReadsOK, Reading
  <1>5. TakingOK'
    BY <1>1, <1>2, <1>3, HeldTyped DEF FillOK, TakingOK, Filling, Taking
  <1>6. PartialOK'
    BY <1>1, <1>2, <1>3 DEF FillOK, PartialOK, Live, Reading
  <1>7. BufOK'
    BY <1>1, <1>2, <1>3, HeldTyped DEF FillOK, BufOK, Buf
  <1> QED
    BY <1>4, <1>5, <1>6, <1>7 DEF FillOK

LEMMA ReadRestFill ==
  ASSUME AInv, Calm, Calm', FillOK, NEW r \in Reader, ReadRest(r)
  PROVE  FillOK'
  <1> USE DEF AInv, TInv
  <1>1. /\ UNCHANGED <<unplug, submit, pending_read_irp, urbr_sent_partial, len_sent_partial,
                       lock_urbr, cancel_routine, canceller, urbr, urbr_seq>>
        /\ reader[r].pc = "enter" /\ ~ReadWaits /\ urbr_sent_partial # NoUrb
    BY DEF ReadRest, partial, urbs, irps
  <1>2. \A q \in Reader :
           /\ reader'[q].pc = IF q = r THEN "store_partial" ELSE reader[q].pc
           /\ reader'[q].urbr = IF q = r THEN urbr_sent_partial ELSE reader[q].urbr
           /\ reader'[q].buf = reader[q].buf
    BY DEF ReadRest, ReaderOK, ReaderState
  <1>3. /\ \A q \in Reader : reader[q].pc \in Reading => q = r
        /\ pending_read_irp = NoRead
        /\ \A u \in Urb : submit[u].pc \notin Taking
    BY <1>1, ReadAlone DEF Reading
  <1>4. urbr_sent_partial \in Urb
    BY <1>1, HeldTyped
  <1>5. ReadsOK'
    BY <1>1, <1>2, <1>3 DEF FillOK, ReadsOK, Reading
  <1>6. TakingOK'
    BY <1>1, <1>2, <1>3, HeldTyped DEF FillOK, TakingOK, Filling, Taking
  <1>7. PartialOK'
    BY <1>1, <1>2, <1>3, <1>4 DEF FillOK, PartialOK, Live, Reading, Taking, Filling
  <1>8. BufOK'
    BY <1>1, <1>2, <1>3, HeldTyped DEF FillOK, BufOK, Buf
  <1> QED
    BY <1>5, <1>6, <1>7, <1>8 DEF FillOK

LEMMA ReadPendingFill ==
  ASSUME AInv, Calm, Calm', FillOK, NEW r \in Reader, ReadPending(r)
  PROVE  FillOK'
  <1> USE DEF AInv, TInv
  <1> DEFINE u == Head(head_urbr_pending)
  <1>1. /\ UNCHANGED <<unplug, submit, pending_read_irp, len_sent_partial, lock_urbr,
                       cancel_routine, canceller, urbr>>
        /\ reader[r].pc = "enter" /\ ~ReadWaits /\ urbr_sent_partial = NoUrb
        /\ urbr_sent_partial' = u /\ Number(u)
    BY CalmStep, NoCrash DEF ReadPending, irps
  <1>2. u \in Urb /\ urbr_seq[u] = 0 /\ submit[u].pc = "done"
    BY TailElements, ToSetTyped DEF ReadPending, PendingOK, TypeOK
  <1>3. \A q \in Reader : /\ reader'[q].pc = IF q = r THEN "store" ELSE reader[q].pc
                          /\ reader'[q].urbr = IF q = r THEN u ELSE reader[q].urbr
                          /\ reader'[q].buf = reader[q].buf
    BY CalmStep, NoCrash DEF ReadPending, ReaderOK, ReaderState
  <1> HIDE DEF u
  <1>4. /\ \A q \in Reader : reader[q].pc \in Reading => q = r
        /\ pending_read_irp = NoRead /\ len_sent_partial = 0
        /\ \A v \in Urb : submit[v].pc \notin Taking
    BY <1>1, ReadAlone DEF Reading, FillOK, PartialOK
  <1>5. /\ \A v \in Urb : urbr_seq'[v] = IF v = u THEN seq_num + 1 ELSE urbr_seq[v]
        /\ seq_num + 1 # 0
    BY <1>1, <1>2, NumberIsNew DEF TypeOK
  <1>6. ReadsOK'
    BY <1>1, <1>3, <1>4 DEF FillOK, ReadsOK, Reading
  <1>7. TakingOK'
    BY <1>1, <1>2, <1>3, <1>4, HeldTyped DEF FillOK, TakingOK, Filling, Taking
  <1>8. PartialOK'
    BY <1>1, <1>2, <1>3, <1>4, <1>5, UrbAssumption
       DEF FillOK, PartialOK, Live, Reading, Taking, Filling, Ready
  <1>9. BufOK'
    BY <1>1, <1>2, <1>3, <1>4, <1>5, HeldTyped
       DEF FillOK, BufOK, Buf, Reading, Taking, Filling
  <1> QED
    BY <1>6, <1>7, <1>8, <1>9 DEF FillOK

LEMMA ReadWaitFill ==
  ASSUME AInv, Calm, Calm', FillOK, NEW r \in Reader, ReadWait(r)
  PROVE  FillOK'
  <1> USE DEF AInv, TInv
  <1>1. /\ UNCHANGED <<unplug, submit, urbr_sent_partial, len_sent_partial, lock_urbr,
                       cancel_routine, canceller, urbr, urbr_seq>>
        /\ reader[r].pc = "enter" /\ ~ReadWaits /\ pending_read_irp' = r
    BY DEF ReadWait, partial, urbs, irps
  <1>2. \A q \in Reader : /\ reader'[q].pc = IF q = r THEN "pending" ELSE reader[q].pc
                          /\ reader'[q].urbr = reader[q].urbr
                          /\ reader'[q].buf = reader[q].buf
    BY ReaderToIs DEF ReadWait
  <1>3. /\ \A q \in Reader : reader[q].pc \in Reading => q = r
        /\ pending_read_irp = NoRead
        /\ \A u \in Urb : submit[u].pc \notin Taking
        /\ \A u \in Urb : submit[u].pc = "complete_read" => submit[u].read # r
    BY <1>1, ReadAlone DEF Reading
  <1>4. ReadsOK'
    BY <1>1, <1>2, <1>3, UrbAssumption DEF FillOK, ReadsOK, Reading
  <1>5. TakingOK'
    BY <1>1, <1>2, <1>3, HeldTyped DEF FillOK, TakingOK, Filling, Taking
  <1>6. PartialOK'
    BY <1>1, <1>2, <1>3 DEF FillOK, PartialOK, Live, Reading, Taking, Filling
  <1>7. BufOK'
    BY <1>1, <1>2, <1>3, HeldTyped DEF FillOK, BufOK, Buf
  <1> QED
    BY <1>4, <1>5, <1>6, <1>7 DEF FillOK

LEMMA ReadStoreFill ==
  ASSUME AInv, Calm, Calm', FillOK, NEW r \in Reader, ReadStore(r)
  PROVE  FillOK'
  <1> USE DEF AInv, TInv
  <1> DEFINE u == reader[r].urbr
             rest == reader[r].pc = "store_partial"
  <1>1. /\ UNCHANGED <<unplug, submit, pending_read_irp, urbr_sent_partial, lock_urbr,
                       cancel_routine, canceller, urbr, urbr_seq>>
        /\ reader[r].pc \in {"store", "store_partial"} /\ Live(u)
    BY CalmStep, NoCrash DEF ReadStore, urbs, irps
  <1>2. /\ \A q \in Reader : reader[q].pc \in Reading => q = r
        /\ pending_read_irp = NoRead
        /\ \A v \in Urb : submit[v].pc \notin Taking
        /\ \A v \in Urb : submit[v].pc = "complete_read" => submit[v].read # r
        /\ ~rest => len_sent_partial = 0 /\ urbr_sent_partial = u
    BY <1>1, ReadAlone DEF Reading, FillOK, PartialOK
  <1>3. u \in Urb
    BY <1>1, HeldTyped DEF Reading
  <1>4. CASE /\ ReaderTo(r, IF rest THEN "refused_partial" ELSE "refused")
             /\ UNCHANGED len_sent_partial
    <2>1. /\ \A q \in Reader \ {r} : reader'[q] = reader[q]
          /\ reader'[r].pc = IF rest THEN "refused_partial" ELSE "refused"
          /\ reader'[r].urbr = u
      BY <1>4 DEF ReaderTo, ReaderOK, ReaderState
    <2> HIDE DEF u, rest
    <2>2. ReadsOK' /\ TakingOK'
      BY <1>1, <1>2, <2>1, HeldTyped DEF FillOK, ReadsOK, TakingOK, Filling, Taking, Reading
    <2>3. PartialOK'
      BY <1>1, <1>2, <1>4, <2>1 DEF FillOK, PartialOK, Live, Reading, Taking, Filling, u, rest
    <2>4. BufOK'
      BY <1>1, <1>2, <1>4, <2>1, HeldTyped
         DEF FillOK, BufOK, Buf, Reading, Taking, Filling
    <2> QED
      BY <2>2, <2>3, <2>4 DEF FillOK
  <1>5. ASSUME NEW out \in (IF rest THEN {"data"} ELSE {"whole", "header"}),
               reader' = [store_urbr(r, u, out) EXCEPT
                            ![r].pc = IF rest THEN "stored_partial" ELSE "stored"],
               len_sent_partial' = LenAfter(out)
        PROVE  FillOK'
    <2>1. /\ \A q \in Reader \ {r} : reader'[q] = reader[q]
          /\ reader'[r].pc = IF rest THEN "stored_partial" ELSE "stored"
          /\ reader'[r].urbr = u
          /\ reader'[r].buf = [seq |-> urbr_seq[u], part |-> out]
      BY <1>5 DEF store_urbr, ReaderOK, ReaderState
    <2>2. /\ out # "header" /\ ~rest => len_sent_partial' = 0
          /\ rest => len_sent_partial' = 0
      BY <1>2, <1>5 DEF LenAfter
    <2> HIDE DEF u, rest
    <2>3. ReadsOK' /\ TakingOK'
      BY <1>1, <1>2, <2>1, HeldTyped DEF FillOK, ReadsOK, TakingOK, Filling, Taking, Reading
    <2>4. PartialOK'
      BY <1>1, <1>2, <1>3, <2>1, <2>2, UrbAssumption
         DEF FillOK, PartialOK, Live, Reading, Taking, Filling, u, rest
    <2>5. BufOK'
      BY <1>1, <1>2, <2>1, <2>2, HeldTyped
         DEF FillOK, BufOK, Buf, Reading, Taking, Filling
    <2> QED
      BY <2>3, <2>4, <2>5 DEF FillOK
  <1> QED
    BY <1>4, <1>5, CalmStep, NoCrash DEF ReadStore, StoreOutcomes, PartialOutcomes

LEMMA ReadStoredFill ==
  ASSUME AInv, Calm, Calm', FillOK, NEW r \in Reader, ReadStored(r)
  PROVE  FillOK'
  <1> USE DEF AInv, TInv
  <1> DEFINE len == IF reader[r].pc = "stored_partial" THEN 0 ELSE len_sent_partial
  <1>1. /\ UNCHANGED <<unplug, submit, pending_read_irp, lock_urbr, cancel_routine, canceller,
                       urbr, urbr_seq>>
        /\ reader[r].pc \in {"stored", "stored_partial"} /\ len_sent_partial' = len
        /\ IF len = 0 THEN urbr_sent_partial' = NoUrb ELSE UNCHANGED urbr_sent_partial
    BY CalmStep, NoCrash DEF ReadStored, urbs, irps
  <1>2. \A q \in Reader : /\ reader'[q].pc = IF q = r THEN "return" ELSE reader[q].pc
                          /\ reader'[q].urbr = reader[q].urbr
                          /\ reader'[q].buf = reader[q].buf
    BY CalmStep, NoCrash, ReaderToIs DEF ReadStored
  <1>3. /\ \A q \in Reader : reader[q].pc \in Reading => q = r
        /\ pending_read_irp = NoRead
        /\ \A u \in Urb : submit[u].pc \notin Taking
    BY <1>1, ReadAlone DEF Reading
  <1>4. len # 0 => len_sent_partial # 0
    OBVIOUS
  <1> HIDE DEF len
  <1>5. ReadsOK' /\ TakingOK'
    BY <1>1, <1>2, <1>3, HeldTyped DEF FillOK, ReadsOK, TakingOK, Filling, Taking, Reading
  <1>6. PartialOK'
    BY <1>1, <1>2, <1>3, <1>4 DEF FillOK, PartialOK, Live, Reading, Taking, Filling
  <1>7. BufOK'
    BY <1>1, <1>2, <1>3, HeldTyped DEF FillOK, BufOK, Buf, Reading, Taking, Filling
  <1> QED
    BY <1>5, <1>6, <1>7 DEF FillOK

(* The end of a read: the request it holds is freed, or the read returns.  *)
LEMMA ReadEndsFill ==
  ASSUME AInv, Calm, Calm', FillOK, NEW r \in Reader,
         ReadRefusedUrb(r) \/ ReadFail(r) \/ ReadReturn(r)
  PROVE  FillOK'
  <1> USE DEF AInv, TInv
  <1>1. /\ UNCHANGED <<unplug, submit, pending_read_irp, lock_urbr, canceller, urbr_seq,
                       urbr_sent_partial>>
        /\ cancel_routine' \subseteq cancel_routine
        /\ len_sent_partial' \in {0, len_sent_partial}
        /\ reader[r].pc \in Reading \ {"enter"}
    BY CalmStep, NoCrash
       DEF ReadRefusedUrb, ReadFail, ReadReturn, Deliver, partial, urbs, irps, Reading
  <1>2. PICK pc \in {"fail", "idle"} :
           /\ \A q \in Reader : /\ reader'[q].pc = IF q = r THEN pc ELSE reader[q].pc
                                /\ reader'[q].urbr = reader[q].urbr
                                /\ reader'[q].buf = reader[q].buf
           /\ pc = "fail" => reader[r].pc \in {"refused", "refused_partial"}
    BY CalmStep, NoCrash, ReaderToIs DEF ReadRefusedUrb, ReadFail, ReadReturn, Deliver
  <1>3. /\ \A q \in Reader : reader[q].pc \in Reading => q = r
        /\ pending_read_irp = NoRead
        /\ \A u \in Urb : submit[u].pc \notin Taking
    BY <1>1, ReadAlone DEF Reading
  <1>4. \A u \in Urb : Live(u)' => Live(u)
    <2>1. CASE ReadFail(r)
      BY <2>1, FreedDead, HeldTyped DEF ReadFail, Reading
    <2>2. CASE ~ReadFail(r)
      BY <2>2, CalmStep, NoCrash DEF ReadRefusedUrb, ReadReturn, urbs, Live
    <2> QED
      BY <2>1, <2>2
  <1>5. ReadsOK' /\ TakingOK'
    BY <1>1, <1>2, <1>3, HeldTyped DEF FillOK, ReadsOK, TakingOK, Filling, Taking, Reading
  <1>6. PartialOK'
    BY <1>1, <1>2, <1>3, <1>4, HeldTyped DEF FillOK, PartialOK, Reading, Taking, Filling
  <1>7. BufOK'
    BY <1>1, <1>2, <1>3, HeldTyped DEF FillOK, BufOK, Buf, Reading, Taking, Filling
  <1> QED
    BY <1>5, <1>6, <1>7 DEF FillOK

-----------------------------------------------------------------------------
(* The steps of a write, of a cancellation and of an unplug                *)

(* What a write and a cancellation may do to a request does not disturb    *)
(* the transfer of another.                                                *)
LEMMA ElsewhereFill ==
  ASSUME AInv, FillOK, UNCHANGED <<unplug, reader, submit, pending_read_irp, lock_urbr,
                                         urbr_seq>>,
         UNCHANGED partial \/ (urbr_sent_partial' = NoUrb /\ len_sent_partial' = 0
                               /\ urbr'[urbr_sent_partial] # "live"
                               /\ submit[urbr_sent_partial].pc \notin Filling),
         \A u \in Urb : Live(u)' => Live(u),
         \A u \in Urb : u \in cancel_routine' \/ canceller'[u] = "remove" =>
                        u \in cancel_routine \/ canceller[u] = "remove"
  PROVE  FillOK'
  <1> USE DEF AInv, TInv
  <1>1. ReadsOK'
    BY DEF FillOK, ReadsOK
  <1>2. CASE UNCHANGED partial
    <2>1. TakingOK' /\ BufOK'
      BY <1>2 DEF FillOK, TakingOK, BufOK, Buf, partial
    <2>2. PartialOK'
      BY <1>2, HeldTyped DEF FillOK, PartialOK, partial, Reading
    <2> QED
      BY <1>1, <2>1, <2>2 DEF FillOK
  <1>3. CASE /\ urbr_sent_partial' = NoUrb /\ len_sent_partial' = 0
             /\ urbr'[urbr_sent_partial] # "live" /\ submit[urbr_sent_partial].pc \notin Filling
    <2>1. TakingOK' /\ BufOK'
      BY <1>3 DEF FillOK, TakingOK, BufOK, Buf
    <2>2. PartialOK'
      BY <1>3, HeldTyped DEF FillOK, PartialOK, Reading, Live
    <2> QED
      BY <1>1, <2>1, <2>2 DEF FillOK
  <1> QED
    BY <1>2, <1>3

LEMMA WriteFill ==
  ASSUME AInv, Calm, Calm', FillOK, NEW n \in SeqNum, Write(n)
  PROVE  FillOK'
  <1> USE DEF AInv, TInv
  <1>1. /\ UNCHANGED <<unplug, reader, submit, pending_read_irp, lock_urbr, urbr_seq, partial,
                       canceller>>
        /\ cancel_routine' \subseteq cancel_routine
    BY CalmStep, NoCrash DEF Write, Bus_Write, WriteFind, WriteComplete, urbs, irps
  <1>2. \A u \in Urb : Live(u)' => Live(u)
    <2>1. CASE WriteComplete(n)
      <3>1. Free(writer[n].urbr) /\ writer[n].urbr \in Urb
        BY <2>1, CalmStep, NoCrash DEF WriteComplete, AnswerOK
      <3> QED
        BY <3>1, FreedDead
    <2>2. CASE ~WriteComplete(n)
      BY <2>2, CalmStep, NoCrash DEF Write, Bus_Write, WriteFind, urbs, Live
    <2> QED
      BY <2>1, <2>2
  <1> QED
    BY <1>1, <1>2, ElsewhereFill

LEMMA CancelFill ==
  ASSUME AInv, Calm, Calm', FillOK, NEW u \in Urb, IoCancelIrp(u) \/ CancelRoutine(u)
  PROVE  FillOK'
  <1> USE DEF AInv, TInv
  <1>1. UNCHANGED <<unplug, reader, submit, pending_read_irp, lock_urbr, urbr_seq>>
    BY CalmStep, NoCrash DEF IoCancelIrp, CancelRoutine, remove_cancelled_urbr, cancel_urbr, urbs
  <1>2. \A v \in Urb : Live(v)' => Live(v)
    <2>1. UNCHANGED urbr \/ Free(u)
      BY CalmStep, NoCrash DEF IoCancelIrp, CancelRoutine, remove_cancelled_urbr, cancel_urbr, urbs
    <2> QED
      BY <2>1, FreedDead DEF Live
  <1>3. \A v \in Urb : v \in cancel_routine' \/ canceller'[v] = "remove" =>
                       v \in cancel_routine \/ canceller[v] = "remove"
    <2>1. /\ cancel_routine' \subseteq cancel_routine
          /\ \E pc : CancellerTo(u, pc) /\ (pc = "remove" => u \in cancel_routine)
      BY CalmStep, NoCrash DEF IoCancelIrp, CancelRoutine, remove_cancelled_urbr, cancel_urbr, irps
    <2> QED
      BY <2>1 DEF CancellerTo, TypeOK
  <1>4. \/ UNCHANGED partial
        \/ /\ urbr_sent_partial = u /\ canceller[u] = "remove" /\ Free(u)
           /\ urbr_sent_partial' = NoUrb /\ len_sent_partial' = 0
    BY CalmStep, NoCrash DEF IoCancelIrp, CancelRoutine, remove_cancelled_urbr, cancel_urbr, partial
  <1>5. CASE UNCHANGED partial
    BY <1>1, <1>2, <1>3, <1>5, ElsewhereFill
  <1>6. CASE /\ urbr_sent_partial = u /\ canceller[u] = "remove" /\ Free(u)
             /\ urbr_sent_partial' = NoUrb /\ len_sent_partial' = 0
    <2>1. urbr'[u] # "live"
      BY <1>6 DEF Free, TypeOK
    <2>2. submit[u].pc \notin Filling
      BY <1>6 DEF FillOK, TakingOK
    <2> QED
      BY <1>1, <1>2, <1>3, <1>6, <2>1, <2>2, ElsewhereFill
  <1> QED
    BY <1>4, <1>5, <1>6

-----------------------------------------------------------------------------
(* FillOK is inductive while the device is plugged in                      *)

FInv == AInv /\ (Calm => FillOK)

LEMMA NotUnplugged ==
  ASSUME Calm', FillOK, Unplug \/ bus_unplug_dev
  PROVE  FALSE
  BY DEF Calm, FillOK, ReadsOK, Unplug, bus_unplug_dev, complete_pending_read_irp, UnplugEndRead,
         UnplugTake, UnplugEndUrb, UnplugReset

LEMMA StaysCalm ==
  ASSUME [Next]_vars, Calm'
  PROVE  Calm
  <1>1. CASE UNCHANGED vars
    BY <1>1 DEF Calm, vars
  <1>2. CASE Next
    <2>1. fault = "none"
      BY <1>2 DEF Next
    <2>2. UNCHANGED Present \/ Present' = FALSE
      BY <1>2 DEF Next, Bus_Internal_IoCtl, Submit, SubmitPending, SubmitDirect, SubmitStore,
                  SubmitRefused, SubmitArmSent, SubmitPartial, SubmitCancelled, SubmitInsert,
                  SubmitCompleteRead, SubmitReturn, Read, Bus_Read, ReadRefused, ReadRest,
                  ReadPending, ReadWait, ReadStore, ReadStored, ReadRefusedUrb, ReadFail,
                  ReadReturn, Write, Bus_Write, WriteFind, WriteComplete, IoCancelIrp,
                  CancelRoutine, remove_cancelled_urbr, cancel_urbr, bus_unplug_dev, Unplug,
                  complete_pending_read_irp, UnplugEndRead, UnplugTake, UnplugEndUrb, UnplugReset,
                  Crash
    <2> QED
      BY <2>1, <2>2 DEF Calm
  <1> QED
    BY <1>1, <1>2

LEMMA InitFill == Init => FillOK
  BY DEF Init, FillOK, ReadsOK, TakingOK, PartialOK, BufOK, Reading, Filling, Taking

LEMMA NextFill == FInv /\ [Next]_vars => FInv'
  <1> SUFFICES ASSUME FInv, [Next]_vars PROVE FInv'
    OBVIOUS
  <1>1. AInv'
    BY NextAInv DEF FInv
  <1> SUFFICES ASSUME Calm' PROVE FillOK'
    BY <1>1 DEF FInv
  <1>2. AInv /\ Calm /\ FillOK
    BY StaysCalm DEF FInv
  <1>3. CASE UNCHANGED vars
    BY <1>2, <1>3 DEF FillOK, ReadsOK, TakingOK, PartialOK, BufOK, Buf, Live, vars, partial, lists,
                      urbs, irps, threads
  <1>4. ASSUME NEW u \in Urb,
               Bus_Internal_IoCtl(u) \/ Submit(u) \/ IoCancelIrp(u) \/ CancelRoutine(u)
        PROVE  FillOK'
    BY <1>2, <1>4, InternalFill, SubmitPendingFill, SubmitDirectFill, SubmitStoreFill,
       SubmitRefusedFill, SubmitArmSentFill, SubmitPartialFill, SubmitCancelledFill,
       SubmitInsertFill, SubmitCompleteReadFill, SubmitReturnFill, CancelFill
       DEF Submit
  <1>5. ASSUME NEW r \in Reader, Read(r)
        PROVE  FillOK'
    BY <1>2, <1>5, ReadPassesFill, ReadRestFill, ReadPendingFill, ReadWaitFill, ReadStoreFill,
       ReadStoredFill, ReadEndsFill
       DEF Read
  <1> QED
    BY <1>2, <1>3, <1>4, <1>5, WriteFill, NotUnplugged DEF Next

LEMMA FInvHolds == Spec => []FInv
  <1>1. Init => FInv
    BY InitAInv, InitFill DEF FInv
  <1> QED
    BY <1>1, NextFill, PTL DEF Spec

(* No read is lost while the device is plugged in and reads do not         *)
(* overlap: one that waits is pending_read_irp, or the submitter that      *)
(* filled it is about to complete it (usbreq.c:175-207, vhci_read.c:583).  *)
THEOREM NoReadIsLost ==
  ASSUME ~OverlapReads
  PROVE  Spec => []ReadAccounted
  <1>1. FInv => ReadAccounted
    BY DEF FInv, Calm, FillOK, ReadsOK, ReadAccounted
  <1> QED
    BY <1>1, FInvHolds, PTL

-----------------------------------------------------------------------------
(* What is being delivered: received, or in the buffer of a read that is   *)
(* about to be completed.                                                  *)

Full(m) == m.part \in {"whole", "data"}

Delivering(n) ==
    \/ Received(n)
    \/ \E r \in Reader : reader[r].pc = "return" /\ reader[r].buf.seq = n /\ Full(reader[r].buf)
    \/ \E u \in Urb : submit[u].pc = "complete_read" /\ Buf(u).seq = n /\ Full(Buf(u))

NumbersOK == \A n : Delivering(n) => n \in 1 .. seq_num

PlacedOK ==
    \A u \in Urb : Delivering(urbr_seq[u]) =>
        /\ submit[u].pc \in Ready
        /\ irp[u] = "issued" => Contains(head_urbr_sent, u) \/ Claimed(u)

DeliveredOK == NumbersOK /\ PlacedOK

(* A completed read hands over what its buffer holds.                      *)
LEMMA DeliverReceives ==
  ASSUME TInv, NEW r \in Reader, Deliver(r), NEW n, Received(n)'
  PROVE  Received(n) \/ (reader[r].buf.seq = n /\ Full(reader[r].buf))
  <1>1. wire \in Seq(Message) /\ reader[r].buf \in Message /\ wire' = Append(wire, reader[r].buf)
    BY DEF TInv, TypeOK, ReaderOK, ReaderState, Deliver
  <1>2. /\ DOMAIN wire = 1 .. Len(wire) /\ Len(wire) \in Nat
        /\ DOMAIN wire' = 1 .. Len(wire) + 1
        /\ \A i \in 1 .. Len(wire) : wire'[i] = wire[i]
        /\ wire'[Len(wire) + 1] = reader[r].buf
    BY <1>1, LenProperties, AppendProperties
  <1>3. ToSet(wire') \subseteq ToSet(wire) \cup {reader[r].buf}
    BY <1>2 DEF ToSet
  <1> QED
    BY <1>3 DEF Received, Full

(* Nothing new is delivered by a step that completes no read and readies   *)
(* none.                                                                   *)
LEMMA NothingDelivered ==
  ASSUME UNCHANGED wire,
         \A r \in Reader : reader'[r].pc = "return" =>
            reader[r].pc = "return" /\ reader'[r].buf = reader[r].buf,
         \A u \in Urb : submit'[u].pc = "complete_read" =>
            \/ submit[u].pc = "complete_read" /\ Buf(u)' = Buf(u)
            \/ ~Full(Buf(u)')
  PROVE  \A n : Delivering(n)' => Delivering(n)
  BY SameWire DEF Delivering

(* The duty to complete a request that was handed over.                    *)
Bound(u) ==
    \/ Contains(head_urbr_sent, u)
    \/ \E r \in Reader : reader[r].pc = "fail" /\ reader[r].urbr = u
    \/ \E n \in SeqNum : writer[n].pc = "found" /\ writer[n].urbr = u
    \/ canceller[u] \in {"remove", "complete"}

LEMMA BoundIs ==
  ASSUME Calm, FillOK, NEW u \in Urb, submit[u].pc \in Ready
  PROVE  Contains(head_urbr_sent, u) \/ Claimed(u) <=> Bound(u)
  BY DEF Claimed, Bound, Ready, Submitting, FillOK, ReadsOK

(* What a step must not do to what was handed over.                        *)
KeepsDuty ==
    \A u \in Urb : submit[u].pc \in Ready =>
        /\ submit'[u].pc \in Ready
        /\ irp'[u] = "issued" => irp[u] = "issued" /\ (Bound(u) => Bound(u)')

LEMMA DutyKept ==
  ASSUME AInv, Calm, Calm', FillOK, FillOK', DeliveredOK, KeepsDuty,
         UNCHANGED <<urbr_seq, seq_num>>,
         \A n : Delivering(n)' => Delivering(n) \/ \E u \in Urb : /\ n = urbr_seq[u] /\ n # 0
                                                                  /\ submit'[u].pc \in Ready
                                                                  /\ Bound(u)'
  PROVE  DeliveredOK'
  <1> USE DEF AInv, TInv
  <1>1. NumbersOK'
    BY DEF DeliveredOK, NumbersOK, NumberOK, TypeOK
  <1>2. ASSUME NEW u \in Urb, Delivering(urbr_seq[u])'
        PROVE  submit'[u].pc \in Ready /\ (irp'[u] = "issued" => Bound(u)')
    <2>1. CASE Delivering(urbr_seq[u])
      BY <2>1, BoundIs DEF DeliveredOK, PlacedOK, KeepsDuty
    <2>2. CASE ~Delivering(urbr_seq[u])
      BY <1>2, <2>2 DEF NumberOK
    <2> QED
      BY <2>1, <2>2
  <1>3. \A u \in Urb : submit'[u].pc \in Ready /\ Bound(u)' =>
                          (Contains(head_urbr_sent, u) \/ Claimed(u))'
    BY DEF Claimed, Bound
  <1> QED
    BY <1>1, <1>2, <1>3 DEF DeliveredOK, PlacedOK

(* A request that gets a number had none, and the number is new.           *)
LEMMA NumberDelivers ==
  ASSUME AInv, Calm, Calm', FillOK, FillOK', DeliveredOK, KeepsDuty,
         NEW u \in Urb, Number(u), urbr_seq[u] = 0,
         \A n : Delivering(n)' => Delivering(n)
  PROVE  DeliveredOK'
  <1> USE DEF AInv, TInv
  <1>1. /\ \A v \in Urb : urbr_seq'[v] = IF v = u THEN seq_num + 1 ELSE urbr_seq[v]
        /\ seq_num \in Nat /\ seq_num' = seq_num + 1
    BY NumberIsNew DEF Number, TypeOK
  <1>2. NumbersOK'
    BY <1>1 DEF DeliveredOK, NumbersOK
  <1>3. ASSUME NEW v \in Urb, Delivering(urbr_seq'[v])
        PROVE  v # u
    BY <1>1, <1>3 DEF DeliveredOK, NumbersOK
  <1>4. ASSUME NEW v \in Urb, Delivering(urbr_seq[v])'
        PROVE  submit'[v].pc \in Ready /\ (irp'[v] = "issued" => Bound(v)')
    <2>1. Delivering(urbr_seq'[v])
      BY <1>4
    <2>2. Delivering(urbr_seq[v])
      BY <1>1, <1>3, <2>1
    <2> QED
      BY <2>2, BoundIs DEF DeliveredOK, PlacedOK, KeepsDuty
  <1>5. \A v \in Urb : submit'[v].pc \in Ready /\ Bound(v)' =>
                          (Contains(head_urbr_sent, v) \/ Claimed(v))'
    BY DEF Claimed, Bound
  <1> QED
    BY <1>2, <1>4, <1>5 DEF DeliveredOK, PlacedOK

(* An entry taken out of a list is the only one that leaves it.            *)
LEMMA RemoveAtContains ==
  ASSUME NEW list \in Seq(Urb), NEW i \in DOMAIN list, NEW v, Contains(list, v)
  PROVE  v = list[i] \/ Contains(RemoveAt(list, i), v)
  <1>1. PICK k \in 1 .. Len(list) : list[k] = v
    BY DEF Contains
  <1>2. DOMAIN list = 1 .. Len(list) /\ Len(list) \in Nat
    BY LenProperties
  <1> DEFINE rest == RemoveAt(list, i)
             j == IF k < i THEN k ELSE k - 1
  <1>3. /\ DOMAIN rest = 1 .. Len(list) - 1
        /\ \A m \in 1 .. Len(list) - 1 : rest[m] = IF m < i THEN list[m] ELSE list[m + 1]
    BY RemoveAtElements
  <1>4. DOMAIN rest = 1 .. Len(rest)
    BY RemoveAtTyped, LenProperties
  <1> HIDE DEF rest
  <1>5. CASE k # i
    <2>1. j \in DOMAIN rest /\ rest[j] = v
      BY <1>1, <1>2, <1>3, <1>5
    <2> QED
      BY <1>4, <2>1 DEF Contains, rest
  <1> QED
    BY <1>1, <1>5

-----------------------------------------------------------------------------
(* The steps of a submitter                                                *)

(* What a submitter does before it hands its request over concerns nobody  *)
(* else's.                                                                 *)
LEMMA SubmitDuty ==
  ASSUME AInv, Calm, Calm', NEW u \in Urb, submit[u].pc \notin Ready,
         Bus_Internal_IoCtl(u) \/ Submit(u)
  PROVE  KeepsDuty
  <1> USE DEF AInv, TInv
  <1>1. UNCHANGED <<writer, canceller>> /\ \A v \in Urb \ {u} : irp'[v] = irp[v]
    BY CalmStep, NoCrash
       DEF Bus_Internal_IoCtl, Submit, SubmitPending, SubmitDirect, SubmitStore, SubmitRefused,
           SubmitArmSent, SubmitPartial, SubmitCancelled, SubmitInsert, SubmitCompleteRead,
           SubmitReturn, irps, CompleteUrb, TypeOK
  <1>2. \A v \in Urb \ {u} : submit'[v] = submit[v]
    BY CalmStep, NoCrash
       DEF Bus_Internal_IoCtl, Submit, SubmitPending, SubmitDirect, SubmitStore, SubmitRefused,
           SubmitArmSent, SubmitPartial, SubmitCancelled, SubmitInsert, SubmitCompleteRead,
           SubmitReturn, SubmitTo, SubmitOK
  <1>3. \A r \in Reader : reader'[r].pc = reader[r].pc /\ reader'[r].urbr = reader[r].urbr
    <2>1. CASE SubmitStore(u)
      <3>1. UNCHANGED reader \/ \E out : reader' = store_urbr(submit[u].read, u, out)
        BY <2>1, CalmStep, NoCrash DEF SubmitStore
      <3>2. submit[u].read \in Reader
        BY <2>1 DEF SubmitStore, SubmitOK
      <3> QED
        BY <3>1, <3>2, StoredIs
    <2>2. CASE ~SubmitStore(u)
      BY <2>2, CalmStep, NoCrash
         DEF Ready, Bus_Internal_IoCtl, Submit, SubmitPending, SubmitDirect, SubmitRefused,
             SubmitArmSent, SubmitPartial, SubmitCancelled, SubmitInsert, SubmitCompleteRead,
             SubmitReturn
    <2> QED
      BY <2>1, <2>2
  <1>4. UNCHANGED head_urbr_sent \/ head_urbr_sent' = Append(head_urbr_sent, u)
    BY CalmStep, NoCrash
       DEF Bus_Internal_IoCtl, Submit, SubmitPending, SubmitDirect, SubmitStore, SubmitRefused,
           SubmitArmSent, SubmitPartial, SubmitCancelled, SubmitInsert, SubmitCompleteRead,
           SubmitReturn, lists, AwaitAnswer
  <1>5. \A v \in Urb : Contains(head_urbr_sent, v) => Contains(head_urbr_sent', v)
    BY <1>4, AppendContains DEF TypeOK
  <1> QED
    BY <1>1, <1>2, <1>3, <1>5 DEF KeepsDuty, Bound

LEMMA SubmitEarlyDelivers ==
  ASSUME AInv, Calm, Calm', FillOK, FillOK', DeliveredOK, NEW u \in Urb,
         \/ Bus_Internal_IoCtl(u) \/ SubmitPending(u) \/ SubmitRefused(u) \/ SubmitArmSent(u)
         \/ SubmitCancelled(u) \/ SubmitReturn(u)
  PROVE  DeliveredOK'
  <1> USE DEF AInv, TInv
  <1>1. /\ UNCHANGED <<urbr_seq, seq_num, wire, reader>>
        /\ submit[u].pc \notin Ready
        /\ \E pc : SubmitTo(u, pc) /\ pc # "complete_read"
    BY DEF Bus_Internal_IoCtl, SubmitPending, SubmitRefused, SubmitArmSent, SubmitCancelled,
           SubmitReturn, urbs, Ready
  <1>2. \A n : Delivering(n)' => Delivering(n)
    BY <1>1, SubmitToIs, NothingDelivered DEF Buf
  <1>3. KeepsDuty
    BY <1>1, SubmitDuty DEF Submit
  <1> QED
    BY <1>1, <1>2, <1>3, DutyKept

LEMMA SubmitDirectDelivers ==
  ASSUME AInv, Calm, Calm', FillOK, FillOK', DeliveredOK, NEW u \in Urb, SubmitDirect(u)
  PROVE  DeliveredOK'
  <1> USE DEF AInv, TInv
  <1>1. /\ UNCHANGED <<wire, reader>>
        /\ submit[u].pc \notin Ready /\ urbr_seq[u] = 0 /\ Number(u)
    BY DEF SubmitDirect, Ready, NumberOK, Early
  <1>2. \A v \in Urb : /\ submit'[v].pc = IF v = u THEN "store" ELSE submit[v].pc
                       /\ v # u => submit'[v].read = submit[v].read
    BY DEF SubmitDirect, SubmitOK, SubmitState
  <1>3. \A n : Delivering(n)' => Delivering(n)
    BY <1>1, <1>2, NothingDelivered DEF Buf
  <1>4. KeepsDuty
    BY <1>1, SubmitDuty DEF Submit
  <1> QED
    BY <1>1, <1>3, <1>4, NumberDelivers

LEMMA SubmitStoreDelivers ==
  ASSUME AInv, Calm, Calm', FillOK, FillOK', DeliveredOK, NEW u \in Urb, SubmitStore(u)
  PROVE  DeliveredOK'
  <1> USE DEF AInv, TInv
  <1> DEFINE r == submit[u].read
  <1>1. /\ UNCHANGED <<urbr_seq, seq_num, wire>>
        /\ submit[u].pc = "store" /\ r \in Reader /\ reader[r].pc = "pending"
        /\ \E pc \in {"refused", "stored"} : SubmitTo(u, pc)
        /\ UNCHANGED reader \/ \E out : reader' = store_urbr(r, u, out)
    BY CalmStep, NoCrash DEF SubmitStore, urbs, SubmitOK
  <1>2. \A q \in Reader : /\ reader'[q].pc = reader[q].pc
                          /\ q # r => reader'[q].buf = reader[q].buf
    <2>1. ASSUME NEW out, reader' = store_urbr(r, u, out)
          PROVE  \A q \in Reader : /\ reader'[q].pc = reader[q].pc
                                   /\ q # r => reader'[q].buf = reader[q].buf
      BY <1>1, <2>1, StoredIs
    <2> QED
      BY <1>1, <2>1
  <1>3. \A v \in Urb : submit'[v].pc = "complete_read" =>
           /\ submit[v].pc = "complete_read" /\ submit'[v].read = submit[v].read
           /\ submit[v].read \in Reader /\ submit[v].read # r
    BY <1>1, SubmitToIs, HeldTyped DEF FillOK, TakingOK, Taking, Filling
  <1>4. \A n : Delivering(n)' => Delivering(n)
    BY <1>1, <1>2, <1>3, NothingDelivered DEF Buf
  <1>5. KeepsDuty
    BY <1>1, SubmitDuty DEF Submit, Ready
  <1> QED
    BY <1>1, <1>4, <1>5, DutyKept

(* Only a header was stored: it is not the whole request.                  *)
LEMMA SubmitPartialDelivers ==
  ASSUME AInv, Calm, Calm', FillOK, FillOK', DeliveredOK, NEW u \in Urb, SubmitPartial(u)
  PROVE  DeliveredOK'
  <1> USE DEF AInv, TInv
  <1>1. /\ UNCHANGED <<urbr_seq, seq_num, wire, reader>>
        /\ submit[u].pc = "stored" /\ SubmitTo(u, "complete_read") /\ len_sent_partial # 0
    BY CalmStep, NoCrash DEF SubmitPartial, urbs
  <1>2. ~Full(Buf(u))
    BY <1>1 DEF FillOK, BufOK, Full
  <1>3. \A n : Delivering(n)' => Delivering(n)
    BY <1>1, <1>2, SubmitToIs, NothingDelivered DEF Buf
  <1>4. KeepsDuty
    BY <1>1, SubmitDuty DEF Submit, Ready
  <1> QED
    BY <1>1, <1>3, <1>4, DutyKept

(* The request joins head_urbr_sent before its read is completed.          *)
LEMMA SubmitInsertDelivers ==
  ASSUME AInv, Calm, Calm', FillOK, FillOK', DeliveredOK, NEW u \in Urb, SubmitInsert(u)
  PROVE  DeliveredOK'
  <1> USE DEF AInv, TInv
  <1>1. /\ UNCHANGED <<urbr_seq, seq_num, wire, reader>>
        /\ submit[u].pc \in {"arm_pending", "arm_sent"}
        /\ \/ SubmitTo(u, "done")
           \/ /\ submit[u].pc = "arm_sent" /\ SubmitTo(u, "complete_read")
              /\ head_urbr_sent' = Append(head_urbr_sent, u)
    BY CalmStep, NoCrash DEF SubmitInsert, urbs, AwaitAnswer
  <1>2. KeepsDuty
    BY <1>1, SubmitDuty DEF Submit, Ready
  <1>3. CASE SubmitTo(u, "done")
    <2>1. \A n : Delivering(n)' => Delivering(n)
      BY <1>1, <1>3, SubmitToIs, NothingDelivered DEF Buf
    <2> QED
      BY <1>1, <1>2, <2>1, DutyKept
  <1>4. CASE /\ submit[u].pc = "arm_sent" /\ SubmitTo(u, "complete_read")
             /\ head_urbr_sent' = Append(head_urbr_sent, u)
    <2>1. \A v \in Urb : /\ submit'[v].pc = IF v = u THEN "complete_read" ELSE submit[v].pc
                         /\ submit'[v].read = submit[v].read
      BY <1>4, SubmitToIs
    <2>2. Buf(u).seq = urbr_seq[u] /\ urbr_seq[u] # 0
      BY <1>4 DEF FillOK, BufOK, PartialOK, Taking
    <2>3. submit'[u].pc \in Ready /\ Bound(u)'
      BY <1>4, <2>1, AppendContains DEF Ready, Bound, TypeOK
    <2>4. \A n : Delivering(n)' => Delivering(n) \/ n = urbr_seq[u]
      BY <1>1, <2>1, <2>2, SameWire DEF Delivering, Buf
    <2> QED
      BY <1>1, <1>2, <2>2, <2>3, <2>4, DutyKept
  <1> QED
    BY <1>1, <1>3, <1>4

LEMMA SubmitCompleteReadDelivers ==
  ASSUME AInv, Calm, Calm', FillOK, FillOK', DeliveredOK, NEW u \in Urb, SubmitCompleteRead(u)
  PROVE  DeliveredOK'
  <1> USE DEF AInv, TInv
  <1> DEFINE r == submit[u].read
  <1>1. /\ UNCHANGED <<urbr_seq, seq_num, irp, head_urbr_sent, writer, canceller>>
        /\ submit[u].pc = "complete_read" /\ SubmitTo(u, "done")
        /\ reader[r].pc = "pending" /\ Deliver(r) /\ ReaderTo(r, "idle") /\ r \in Reader
    BY CalmStep, NoCrash DEF SubmitCompleteRead, Deliver, lists, urbs, irps, SubmitOK
  <1>2. \A v \in Urb : /\ submit'[v].pc = IF v = u THEN "done" ELSE submit[v].pc
                       /\ submit'[v].read = submit[v].read
    BY <1>1, SubmitToIs
  <1>3. \A q \in Reader : /\ reader'[q].pc = IF q = r THEN "idle" ELSE reader[q].pc
                          /\ reader'[q].urbr = reader[q].urbr
                          /\ reader'[q].buf = reader[q].buf
    BY <1>1, ReaderToIs
  <1>4. \A n : Received(n)' => Received(n) \/ (Buf(u).seq = n /\ Full(Buf(u)))
    BY <1>1, DeliverReceives DEF Buf
  <1>5. \A n : Delivering(n)' => Delivering(n)
    BY <1>1, <1>2, <1>3, <1>4, HeldTyped DEF Delivering, Buf
  <1>6. KeepsDuty
    BY <1>1, <1>2, <1>3 DEF KeepsDuty, Bound, Ready
  <1> QED
    BY <1>1, <1>5, <1>6, DutyKept

-----------------------------------------------------------------------------
(* The steps of a read                                                     *)

LEMMA ReadQuietDelivers ==
  ASSUME AInv, Calm, Calm', FillOK, FillOK', DeliveredOK, NEW r \in Reader,
         \/ Bus_Read(r) \/ ReadRefused(r) \/ ReadRest(r) \/ ReadWait(r) \/ ReadStore(r)
         \/ ReadRefusedUrb(r)
  PROVE  DeliveredOK'
  <1> USE DEF AInv, TInv
  <1>1. /\ UNCHANGED <<urbr_seq, seq_num, wire, submit, irp, head_urbr_sent, writer, canceller>>
        /\ reader[r].pc \notin {"fail", "return"}
    BY CalmStep, NoCrash
       DEF Bus_Read, ReadRefused, ReadRest, ReadWait, ReadStore, ReadRefusedUrb, lists, urbs, irps
  <1>2. /\ \A q \in Reader \ {r} : reader'[q] = reader[q]
        /\ reader'[r].pc # "return"
    BY CalmStep, NoCrash
       DEF Bus_Read, ReadRefused, ReadRest, ReadWait, ReadStore, ReadRefusedUrb, ReaderTo,
           store_urbr, ReaderOK, ReaderState
  <1>3. \A u \in Urb : submit[u].pc = "complete_read" => Buf(u)' = Buf(u)
    <2>1. \A u \in Urb : submit[u].pc = "complete_read" => submit[u].read \in Reader
      BY DEF SubmitOK
    <2>2. \/ reader'[r].buf = reader[r].buf
          \/ reader[r].pc \in {"store", "store_partial"}
      BY CalmStep, NoCrash, ReaderToIs
         DEF Bus_Read, ReadRefused, ReadRest, ReadWait, ReadStore, ReadRefusedUrb, ReaderOK,
             ReaderState
    <2>3. \A u \in Urb : submit[u].pc = "complete_read" => reader[submit[u].read].pc = "pending"
      BY DEF FillOK, TakingOK
    <2> QED
      BY <1>1, <1>2, <2>1, <2>2, <2>3 DEF Buf
  <1>4. \A n : Delivering(n)' => Delivering(n)
    BY <1>1, <1>2, <1>3, NothingDelivered
  <1>5. KeepsDuty
    BY <1>1, <1>2 DEF KeepsDuty, Bound
  <1> QED
    BY <1>1, <1>4, <1>5, DutyKept

LEMMA ReadPendingDelivers ==
  ASSUME AInv, Calm, Calm', FillOK, FillOK', DeliveredOK, NEW r \in Reader, ReadPending(r)
  PROVE  DeliveredOK'
  <1> USE DEF AInv, TInv
  <1> DEFINE u == Head(head_urbr_pending)
  <1>1. /\ UNCHANGED <<wire, submit, irp, head_urbr_sent, writer, canceller>>
        /\ reader[r].pc = "enter" /\ Number(u)
    BY CalmStep, NoCrash DEF ReadPending, irps
  <1>2. u \in Urb /\ urbr_seq[u] = 0
    BY TailElements, ToSetTyped DEF ReadPending, PendingOK, TypeOK
  <1>3. \A q \in Reader : /\ reader'[q].pc = IF q = r THEN "store" ELSE reader[q].pc
                          /\ q # r => reader'[q].urbr = reader[q].urbr
                          /\ reader'[q].buf = reader[q].buf
    BY CalmStep, NoCrash DEF ReadPending, ReaderOK, ReaderState
  <1> HIDE DEF u
  <1>4. \A n : Delivering(n)' => Delivering(n)
    BY <1>1, <1>3, HeldTyped, NothingDelivered DEF Buf
  <1>5. KeepsDuty
    BY <1>1, <1>3 DEF KeepsDuty, Bound
  <1> QED
    BY <1>1, <1>2, <1>4, <1>5, NumberDelivers

(* The request joins head_urbr_sent before the read returns with all of it.*)
LEMMA ReadStoredDelivers ==
  ASSUME AInv, Calm, Calm', FillOK, FillOK', DeliveredOK, NEW r \in Reader, ReadStored(r)
  PROVE  DeliveredOK'
  <1> USE DEF AInv, TInv
  <1>0. PICK u \in Urb : u = reader[r].urbr
    BY HeldTyped DEF ReadStored, Reading
  <1> DEFINE len == IF reader[r].pc = "stored_partial" THEN 0 ELSE len_sent_partial
  <1>1. /\ UNCHANGED <<urbr_seq, seq_num, wire, submit, irp, writer, canceller>>
        /\ reader[r].pc \in {"stored", "stored_partial"}
        /\ IF len = 0 THEN head_urbr_sent' = Append(head_urbr_sent, u)
                      ELSE UNCHANGED head_urbr_sent
    BY <1>0, CalmStep, NoCrash DEF ReadStored, AwaitAnswer, urbs, irps
  <1>2. \A q \in Reader : /\ reader'[q].pc = IF q = r THEN "return" ELSE reader[q].pc
                          /\ reader'[q].urbr = reader[q].urbr
                          /\ reader'[q].buf = reader[q].buf
    BY CalmStep, NoCrash, ReaderToIs DEF ReadStored
  <1>3. /\ submit[u].pc \in Ready
        /\ reader[r].buf.seq = urbr_seq[u] /\ urbr_seq[u] # 0
        /\ len # 0 => ~Full(reader[r].buf)
    BY <1>0, <1>1 DEF FillOK, PartialOK, BufOK, Reading, Full
  <1>4. \A v \in Urb : submit[v].pc = "complete_read" => Buf(v)' = Buf(v)
    BY <1>1, <1>2, HeldTyped DEF Buf
  <1> HIDE DEF len
  <1>5. \A v \in Urb : Contains(head_urbr_sent, v) => Contains(head_urbr_sent', v)
    BY <1>1, <1>3, AppendContains DEF TypeOK
  <1>6. KeepsDuty
    BY <1>1, <1>2, <1>5 DEF KeepsDuty, Bound
  <1>7. CASE len = 0
    <2>1. Bound(u)'
      BY <1>1, <1>3, <1>7, AppendContains DEF Bound, TypeOK
    <2>2. \A n : Delivering(n)' => Delivering(n) \/ n = urbr_seq[u]
      BY <1>1, <1>2, <1>3, <1>4, SameWire DEF Delivering
    <2> QED
      BY <1>1, <1>3, <1>6, <2>1, <2>2, DutyKept
  <1>8. CASE len # 0
    <2>1. \A n : Delivering(n)' => Delivering(n)
      BY <1>1, <1>2, <1>3, <1>4, <1>8, SameWire DEF Delivering
    <2> QED
      BY <1>1, <1>6, <2>1, DutyKept
  <1> QED
    BY <1>7, <1>8

LEMMA ReadFailDelivers ==
  ASSUME AInv, Calm, Calm', FillOK, FillOK', DeliveredOK, NEW r \in Reader, ReadFail(r)
  PROVE  DeliveredOK'
  <1> USE DEF AInv, TInv
  <1>1. /\ UNCHANGED <<urbr_seq, seq_num, wire, submit, head_urbr_sent, writer, canceller>>
        /\ reader[r].pc = "fail" /\ CompleteUrb(reader[r].urbr, "rejected")
    BY DEF ReadFail, lists
  <1>2. \A q \in Reader : /\ reader'[q].pc = IF q = r THEN "idle" ELSE reader[q].pc
                          /\ reader'[q].urbr = reader[q].urbr
                          /\ reader'[q].buf = reader[q].buf
    BY ReaderToIs DEF ReadFail
  <1>3. \A u \in Urb : irp'[u] = "issued" => irp[u] = "issued" /\ reader[r].urbr # u
    BY <1>1, CompleteUrbEnds DEF Calm, Ended
  <1>4. \A n : Delivering(n)' => Delivering(n)
    BY <1>1, <1>2, HeldTyped, NothingDelivered DEF Buf
  <1>5. KeepsDuty
    BY <1>1, <1>2, <1>3 DEF KeepsDuty, Bound
  <1> QED
    BY <1>1, <1>4, <1>5, DutyKept

LEMMA ReadReturnDelivers ==
  ASSUME AInv, Calm, Calm', FillOK, FillOK', DeliveredOK, NEW r \in Reader, ReadReturn(r)
  PROVE  DeliveredOK'
  <1> USE DEF AInv, TInv
  <1>1. /\ UNCHANGED <<urbr_seq, seq_num, submit, irp, head_urbr_sent, writer, canceller>>
        /\ reader[r].pc = "return" /\ Deliver(r) /\ ReaderTo(r, "idle")
    BY DEF ReadReturn, Deliver, lists, urbs, irps
  <1>2. \A q \in Reader : /\ reader'[q].pc = IF q = r THEN "idle" ELSE reader[q].pc
                          /\ reader'[q].urbr = reader[q].urbr
                          /\ reader'[q].buf = reader[q].buf
    BY <1>1, ReaderToIs
  <1>3. \A n : Received(n)' => Received(n) \/ (reader[r].buf.seq = n /\ Full(reader[r].buf))
    BY <1>1, DeliverReceives
  <1>4. \A n : Delivering(n)' => Delivering(n)
    BY <1>1, <1>2, <1>3, HeldTyped DEF Delivering, Buf
  <1>5. KeepsDuty
    BY <1>1, <1>2 DEF KeepsDuty, Bound
  <1> QED
    BY <1>1, <1>4, <1>5, DutyKept

-----------------------------------------------------------------------------
(* The steps of a write and of a cancellation                              *)

LEMMA WriteDelivers ==
  ASSUME AInv, Calm, Calm', FillOK, FillOK', DeliveredOK, NEW n \in SeqNum, Write(n)
  PROVE  DeliveredOK'
  <1> USE DEF AInv, TInv
  <1>1. /\ UNCHANGED <<urbr_seq, seq_num, wire, submit, reader, canceller>>
        /\ \A m \in SeqNum \ {n} : writer'[m] = writer[m]
    BY CalmStep, NoCrash
       DEF Write, Bus_Write, WriteFind, WriteComplete, WriterTo, lists, urbs, TypeOK
  <1>2. \A m : Delivering(m)' => Delivering(m)
    BY <1>1, NothingDelivered DEF Buf
  <1>3. CASE Bus_Write(n)
    <2>1. UNCHANGED <<irp, head_urbr_sent>> /\ writer[n].pc = "idle"
      BY <1>3 DEF Bus_Write, lists, irps
    <2> QED
      BY <1>1, <1>2, <2>1, DutyKept DEF KeepsDuty, Bound
  <1>4. CASE WriteFind(n)
    <2>1. UNCHANGED irp /\ writer[n].pc = "enter"
      BY <1>4, CalmStep, NoCrash DEF WriteFind, irps
    <2>2. CASE UNCHANGED lists
      BY <1>1, <1>2, <2>1, <2>2, DutyKept DEF KeepsDuty, Bound, lists
    <2>3. ASSUME NEW i \in SentAs(n), head_urbr_sent' = RemoveAt(head_urbr_sent, i),
                 writer' = [writer EXCEPT ![n] = [pc |-> "found", urbr |-> head_urbr_sent[i]]]
          PROVE  DeliveredOK'
      <3>1. \A v \in Urb : Contains(head_urbr_sent, v) =>
               v = head_urbr_sent[i] \/ Contains(head_urbr_sent', v)
        BY <2>3, RemoveAtContains DEF SentAs, TypeOK
      <3>2. writer'[n].pc = "found" /\ writer'[n].urbr = head_urbr_sent[i]
        BY <2>3 DEF TypeOK
      <3>3. KeepsDuty
        BY <1>1, <2>1, <3>1, <3>2 DEF KeepsDuty, Bound
      <3> QED
        BY <1>1, <1>2, <3>3, DutyKept
    <2> QED
      BY <1>4, <2>2, <2>3, CalmStep, NoCrash DEF WriteFind
  <1>5. CASE WriteComplete(n)
    <2>1. /\ UNCHANGED head_urbr_sent /\ writer[n].pc = "found"
          /\ CompleteUrb(writer[n].urbr, "replied")
      BY <1>5, CalmStep, NoCrash DEF WriteComplete, lists
    <2>2. \A u \in Urb : irp'[u] = "issued" => irp[u] = "issued" /\ writer[n].urbr # u
      BY <2>1, CompleteUrbEnds DEF Calm, Ended
    <2>3. KeepsDuty
      BY <1>1, <2>1, <2>2 DEF KeepsDuty, Bound
    <2> QED
      BY <1>1, <1>2, <2>3, DutyKept
  <1> QED
    BY <1>3, <1>4, <1>5 DEF Write

LEMMA CancelDelivers ==
  ASSUME AInv, Calm, Calm', FillOK, FillOK', DeliveredOK, NEW u \in Urb,
         IoCancelIrp(u) \/ CancelRoutine(u)
  PROVE  DeliveredOK'
  <1> USE DEF AInv, TInv
  <1>1. UNCHANGED <<urbr_seq, seq_num, wire, submit, reader, writer>>
    BY CalmStep, NoCrash DEF IoCancelIrp, CancelRoutine, remove_cancelled_urbr, cancel_urbr, urbs
  <1>2. \A m : Delivering(m)' => Delivering(m)
    BY <1>1, NothingDelivered DEF Buf
  <1>3. CASE IoCancelIrp(u)
    <2>1. /\ UNCHANGED <<irp, head_urbr_sent>>
          /\ \A v \in Urb : canceller[v] \notin {"remove", "complete"}
      BY <1>3 DEF IoCancelIrp, lists
    <2> QED
      BY <1>1, <1>2, <2>1, DutyKept DEF KeepsDuty, Bound
  <1>4. CASE remove_cancelled_urbr(u)
    <2>1. /\ UNCHANGED irp
          /\ UNCHANGED head_urbr_sent \/ head_urbr_sent' = Unlink(head_urbr_sent, u)
          /\ \A v \in Urb : canceller'[v] = IF v = u THEN "complete" ELSE canceller[v]
      BY <1>4, CalmStep, NoCrash DEF remove_cancelled_urbr, irps, lists, CancellerTo, TypeOK
    <2>2. \A v \in Urb \ {u} : Contains(head_urbr_sent, v) => Contains(head_urbr_sent', v)
      BY <2>1, UnlinkContains DEF TypeOK
    <2>3. KeepsDuty
      BY <1>1, <2>1, <2>2 DEF KeepsDuty, Bound
    <2> QED
      BY <1>1, <1>2, <2>3, DutyKept
  <1>5. CASE cancel_urbr(u)
    <2>1. /\ UNCHANGED head_urbr_sent /\ CompleteUrb(u, "cancelled")
          /\ \A v \in Urb \ {u} : canceller'[v] = canceller[v]
      BY <1>5 DEF cancel_urbr, lists, CancellerTo, TypeOK
    <2>2. \A v \in Urb : irp'[v] = "issued" => irp[v] = "issued" /\ u # v
      BY <2>1, CompleteUrbEnds DEF Calm, Ended
    <2>3. KeepsDuty
      BY <1>1, <2>1, <2>2 DEF KeepsDuty, Bound
    <2> QED
      BY <1>1, <1>2, <2>3, DutyKept
  <1> QED
    BY <1>3, <1>4, <1>5 DEF CancelRoutine

-----------------------------------------------------------------------------
(* DeliveredOK is inductive while the device is plugged in                 *)

DInv == FInv /\ (Calm => DeliveredOK)

LEMMA InitDelivered == Init => DeliveredOK
  <1> SUFFICES ASSUME Init PROVE \A n : ~Delivering(n)
    BY DEF DeliveredOK, NumbersOK, PlacedOK
  <1>1. \A n : ~Received(n)
    BY EmptyElements DEF Init, Received
  <1> QED
    BY <1>1 DEF Init, Delivering

LEMMA NextDelivered == DInv /\ [Next]_vars => DInv'
  <1> SUFFICES ASSUME DInv, [Next]_vars PROVE DInv'
    OBVIOUS
  <1>1. FInv'
    BY NextFill DEF DInv
  <1> SUFFICES ASSUME Calm' PROVE DeliveredOK'
    BY <1>1 DEF DInv
  <1>2. AInv /\ Calm /\ FillOK /\ FillOK' /\ DeliveredOK
    BY <1>1, StaysCalm DEF DInv, FInv
  <1>3. CASE UNCHANGED vars
    <2>1. /\ UNCHANGED <<urbr_seq, seq_num, wire, submit, reader, irp, head_urbr_sent, writer,
                         canceller>>
      BY <1>3 DEF vars, lists, urbs, irps, threads
    <2>2. \A n : Delivering(n)' => Delivering(n)
      BY <2>1, NothingDelivered DEF Buf
    <2> QED
      BY <1>2, <2>1, <2>2, DutyKept DEF KeepsDuty, Bound
  <1>4. ASSUME NEW u \in Urb,
               Bus_Internal_IoCtl(u) \/ Submit(u) \/ IoCancelIrp(u) \/ CancelRoutine(u)
        PROVE  DeliveredOK'
    BY <1>2, <1>4, SubmitEarlyDelivers, SubmitDirectDelivers, SubmitStoreDelivers,
       SubmitPartialDelivers, SubmitInsertDelivers, SubmitCompleteReadDelivers, CancelDelivers
       DEF Submit
  <1>5. ASSUME NEW r \in Reader, Read(r)
        PROVE  DeliveredOK'
    BY <1>2, <1>5, ReadQuietDelivers, ReadPendingDelivers, ReadStoredDelivers, ReadFailDelivers,
       ReadReturnDelivers
       DEF Read
  <1> QED
    BY <1>2, <1>3, <1>4, <1>5, WriteDelivers, NotUnplugged DEF Next

LEMMA DInvHolds == Spec => []DInv
  <1>1. Init => DInv
    BY InitAInv, InitFill, InitDelivered DEF FInv, DInv
  <1> QED
    BY <1>1, NextDelivered, PTL DEF Spec

(* No answer misses its request while the device is plugged in and reads   *)
(* do not overlap: a request that the program has received whole is in     *)
(* head_urbr_sent, where find_sent_urbr looks, or a thread is bound to     *)
(* complete it (usbreq.c:200, vhci_read.c:627, vhci_write.c:296).          *)
THEOREM NoAnswerMisses ==
  ASSUME ~OverlapReads
  PROVE  Spec => []AnswerFindsRequest
  <1>1. DInv => AnswerFindsRequest
    BY DEF DInv, Calm, DeliveredOK, PlacedOK, Delivering, AnswerFindsRequest
  <1> QED
    BY <1>1, DInvHolds, PTL

=============================================================================
