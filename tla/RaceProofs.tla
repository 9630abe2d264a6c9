------------------------------ MODULE RaceProofs ------------------------------
(***************************************************************************)
(* No urb_req is used after it was freed, no IRP is completed twice and no *)
(* list is corrupted, for any number of requests and readers, unless one   *)
(* of the races that FaultNeedsRace names has happened.                    *)
(*                                                                         *)
(* The argument: without those races, a request is freed and completed by  *)
(* the one thread that has taken it out of the queue.  A request in        *)
(* head_urbr is live and not completed; the other two lists hold requests  *)
(* of head_urbr only; the one that a read is storing is urbr_sent_partial  *)
(* and still in head_urbr, so that no write finds it; one that a write has *)
(* found is in no list.                                                    *)
(***************************************************************************)
EXTENDS ReadProofs

(* The races.                                                              *)
Raced ==
    \/ ~Present
    \/ OverlapReads
    \/ \E u \in Urb : canceller[u] \in {"remove", "complete", "done"}
    \/ \E u \in Urb : irp[u] = "rejected" /\ urbr[u] # "none"

Pending(u) == Live(u) /\ irp[u] = "issued"

ListsOK ==
    /\ Distinct(head_urbr)
    /\ Distinct(head_urbr_sent)
    /\ ToSet(head_urbr_pending) \subseteq ToSet(head_urbr)
    /\ ToSet(head_urbr_sent) \subseteq ToSet(head_urbr)
    /\ \A u \in ToSet(head_urbr) : Pending(u) /\ submit[u].pc \in Ready
    /\ \A u \in ToSet(head_urbr_sent) : urbr_seq[u] # 0 /\ u # urbr_sent_partial

(* A reader that stores a request or has stored it, and one that failed    *)
Holding == {"store", "store_partial", "stored", "stored_partial", "refused", "refused_partial"}

ReaderHolds ==
    /\ \A r \in Reader : reader[r].pc \in Holding \cup {"fail"} =>
          reader[r].urbr = urbr_sent_partial
    /\ \A r \in Reader : reader[r].pc \in Holding => reader[r].urbr \in ToSet(head_urbr)
    /\ \A r \in Reader : reader[r].pc = "fail" =>
          reader[r].urbr \notin ToSet(head_urbr) /\ Pending(reader[r].urbr)
    /\ urbr_sent_partial # NoUrb /\ submit[urbr_sent_partial].pc \in Ready =>
          \/ urbr_sent_partial \in ToSet(head_urbr)
          \/ \E r \in Reader : reader[r].pc = "fail"

WriterHolds ==
    \A n \in SeqNum : writer[n].pc = "found" =>
        /\ writer[n].urbr \notin ToSet(head_urbr)
        /\ writer[n].urbr # urbr_sent_partial
        /\ Pending(writer[n].urbr)
        /\ submit[writer[n].urbr].pc \in Ready

SubmitterHolds ==
    \A u \in Urb :
        /\ submit[u].pc \in Submitting \ {"complete_read"} => irp[u] = "issued"
        /\ submit[u].pc \in Submitting \ {"complete_read", "cancelled", "rejected"} => Live(u)

RaceOK == ListsOK /\ ReaderHolds /\ WriterHolds /\ SubmitterHolds

(* A request is sent down once, and cancelled once.                        *)
FreshOK ==
    /\ \A u \in Urb : submit[u].pc = "idle" => irp[u] = "idle"
    /\ \A u \in Urb : canceller[u] # "idle" => u \in Cancel

RInv == FInv /\ FreshOK /\ (~Raced => fault = "none" /\ RaceOK)

-----------------------------------------------------------------------------
(* What the lists hold                                                     *)

LEMMA ContainsIs ==
  ASSUME NEW list \in Seq(Urb), NEW u
  PROVE  Contains(list, u) <=> u \in ToSet(list)
  BY LenProperties DEF Contains, ToSet

LEMMA UnlinkIs ==
  ASSUME NEW list \in Seq(Urb), Distinct(list), NEW u
  PROVE  /\ Unlink(list, u) \in Seq(Urb)
         /\ Distinct(Unlink(list, u))
         /\ ToSet(Unlink(list, u)) = ToSet(list) \ {u}
  <1> DEFINE rest == Unlink(list, u)
  <1>1. rest \in Seq(Urb) /\ Distinct(rest) /\ ToSet(rest) \subseteq ToSet(list)
    BY UnlinkTyped, UnlinkElements
  <1>2. ToSet(list) \ {u} \subseteq ToSet(rest)
    BY <1>1, ContainsIs, UnlinkContains
  <1>3. u \notin ToSet(rest)
    <2>1. CASE Contains(list, u)
      <3>1. PICK i \in DOMAIN list : rest = RemoveAt(list, i) /\ list[i] = u
        BY <2>1, LenProperties DEF Contains, Unlink
      <3>2. DOMAIN list = 1 .. Len(list) /\ Len(list) \in Nat
        BY LenProperties
      <3>3. /\ DOMAIN rest = 1 .. Len(list) - 1
            /\ \A j \in 1 .. Len(list) - 1 : rest[j] = IF j < i THEN list[j] ELSE list[j + 1]
        BY <3>1, RemoveAtElements
      <3> HIDE DEF rest
      <3>4. ASSUME NEW j \in 1 .. Len(list) - 1, rest[j] = u
            PROVE  FALSE
        <4>1. PICK p \in DOMAIN list : rest[j] = list[p] /\ p = IF j < i THEN j ELSE j + 1
          BY <3>2, <3>3
        <4>2. p = i
          BY <3>1, <3>4, <4>1 DEF Distinct
        <4> QED
          BY <3>2, <4>1, <4>2
      <3> QED
        BY <3>3, <3>4 DEF ToSet
    <2>2. CASE ~Contains(list, u)
      BY <2>2, ContainsIs DEF Unlink
    <2> QED
      BY <2>1, <2>2
  <1> QED
    BY <1>1, <1>2, <1>3

LEMMA RemoveAtUnlinks ==
  ASSUME NEW list \in Seq(Urb), Distinct(list), NEW i \in DOMAIN list
  PROVE  RemoveAt(list, i) = Unlink(list, list[i])
  <1>1. Contains(list, list[i])
    BY LenProperties DEF Contains
  <1>2. (CHOOSE j \in DOMAIN list : list[j] = list[i]) = i
    BY DEF Distinct
  <1> QED
    BY <1>1, <1>2 DEF Unlink

LEMMA ListsTyped ==
  ASSUME TInv
  PROVE  /\ head_urbr \in Seq(Urb) /\ ToSet(head_urbr) \subseteq Urb
         /\ head_urbr_pending \in Seq(Urb) /\ ToSet(head_urbr_pending) \subseteq Urb
         /\ head_urbr_sent \in Seq(Urb) /\ ToSet(head_urbr_sent) \subseteq Urb
  BY ToSetTyped DEF TInv, TypeOK

(* Nothing that was freed is linked.                                       *)
LEMMA ListsSound ==
  ASSUME TInv, ListsOK
  PROVE  Sound(head_urbr) /\ Sound(head_urbr_pending) /\ Sound(head_urbr_sent)
  BY ListsTyped DEF ListsOK, Pending, Sound, ToSet

(* A request that its submitter still has is known to nobody else.         *)
LEMMA Unshared ==
  ASSUME AInv, Calm, FillOK, RaceOK, NEW u \in Urb, submit[u].pc \notin Ready
  PROVE  /\ u \notin ToSet(head_urbr)
         /\ u \notin ToSet(head_urbr_pending) /\ u \notin ToSet(head_urbr_sent)
         /\ \A n \in SeqNum : writer[n].pc = "found" => writer[n].urbr # u
         /\ \A r \in Reader : reader[r].pc \in Holding \cup {"fail"} => reader[r].urbr # u
         /\ submit[u].pc \notin Filling => urbr_sent_partial # u
  <1>1. \A r \in Reader : reader[r].pc \in Holding \cup {"fail"} =>
           submit[reader[r].urbr].pc \in Ready
    BY DEF FillOK, PartialOK, Holding, Reading
  <1>2. urbr_sent_partial # NoUrb => submit[urbr_sent_partial].pc \in Filling \cup Ready
    BY DEF FillOK, PartialOK
  <1> QED
    BY <1>1, <1>2, UrbAssumption DEF RaceOK, ListsOK, WriterHolds

-----------------------------------------------------------------------------
(* No step is a fault                                                      *)

LEMMA NoFaultSubmit ==
  ASSUME AInv, Calm, FillOK, RaceOK, NEW u \in Urb, Bus_Internal_IoCtl(u) \/ Submit(u)
  PROVE  fault' = "none"
  <1> USE DEF AInv, Calm
  <1>1. Sound(head_urbr) /\ Sound(head_urbr_pending) /\ Sound(head_urbr_sent)
    BY ListsSound DEF RaceOK
  <1>2. submit[u].pc \in {"store", "complete_read"} => reader[submit[u].read].pc = "pending"
    BY UrbAssumption DEF FillOK, ReadsOK, TakingOK, Taking, Filling
  <1>3. submit[u].pc \in {"cancelled", "rejected"} => irp[u] = "issued"
    BY DEF RaceOK, SubmitterHolds, Submitting
  <1>4. CASE \/ Bus_Internal_IoCtl(u) \/ SubmitPending(u) \/ SubmitDirect(u)
             \/ SubmitRefused(u) \/ SubmitArmSent(u) \/ SubmitCancelled(u)
    BY <1>4 DEF Bus_Internal_IoCtl, SubmitPending, SubmitDirect, SubmitRefused, SubmitArmSent,
                SubmitCancelled
  <1>5. CASE SubmitStore(u) \/ SubmitCompleteRead(u)
    BY <1>2, <1>5 DEF SubmitStore, SubmitCompleteRead
  <1>6. CASE SubmitPartial(u) \/ SubmitInsert(u)
    BY <1>1, <1>6 DEF SubmitPartial, SubmitInsert
  <1>7. CASE SubmitReturn(u)
    BY <1>3, <1>7 DEF SubmitReturn, CompleteUrb
  <1> QED
    BY <1>4, <1>5, <1>6, <1>7 DEF Submit

LEMMA NoFaultRead ==
  ASSUME AInv, Calm, FillOK, RaceOK, NEW r \in Reader, Read(r)
  PROVE  fault' = "none"
  <1> USE DEF AInv, Calm
  <1>1. Sound(head_urbr) /\ Sound(head_urbr_pending) /\ Sound(head_urbr_sent)
    BY ListsSound DEF RaceOK
  <1>2. reader[r].pc \in Holding \cup {"fail"} => Pending(reader[r].urbr)
    BY DEF RaceOK, ReaderHolds, ListsOK
  <1>3. reader[r].pc \in Holding =>
           Contains(head_urbr, reader[r].urbr) /\ ~Contains(head_urbr_sent, reader[r].urbr)
    BY ContainsIs, ListsTyped DEF RaceOK, ReaderHolds, ListsOK
  <1>4. CASE \/ Bus_Read(r) \/ ReadRefused(r) \/ ReadRest(r) \/ ReadWait(r) \/ ReadReturn(r)
    BY <1>4 DEF Bus_Read, ReadRefused, ReadRest, ReadWait, ReadReturn
  <1>5. CASE ReadPending(r)
    BY <1>1, <1>5 DEF ReadPending
  <1>6. CASE ReadStore(r) \/ ReadStored(r) \/ ReadRefusedUrb(r)
    BY <1>1, <1>2, <1>3, <1>6 DEF ReadStore, ReadStored, ReadRefusedUrb, Pending, Holding
  <1>7. CASE ReadFail(r)
    BY <1>2, <1>7 DEF ReadFail, CompleteUrb, Pending
  <1> QED
    BY <1>4, <1>5, <1>6, <1>7 DEF Read

LEMMA NoFaultWrite ==
  ASSUME AInv, Calm, FillOK, RaceOK, NEW n \in SeqNum, Write(n)
  PROVE  fault' = "none"
  <1> USE DEF AInv, Calm
  <1>1. Sound(head_urbr) /\ Sound(head_urbr_sent)
    BY ListsSound DEF RaceOK
  <1>2. \A i \in DOMAIN head_urbr_sent : Contains(head_urbr, head_urbr_sent[i])
    BY ContainsIs, ListsTyped DEF RaceOK, ListsOK, ToSet
  <1>3. writer[n].pc = "found" => Pending(writer[n].urbr)
    BY DEF RaceOK, WriterHolds
  <1>4. CASE Bus_Write(n)
    BY <1>4 DEF Bus_Write
  <1>5. CASE WriteFind(n)
    BY <1>1, <1>2, <1>5 DEF WriteFind, SentAs
  <1>6. CASE WriteComplete(n)
    BY <1>3, <1>6 DEF WriteComplete, CompleteUrb, Pending
  <1> QED
    BY <1>4, <1>5, <1>6 DEF Write

-----------------------------------------------------------------------------
(* The steps of a submitter                                                *)

(* What a step of the submitter of u that lists nothing may change.        *)
OwnStep(u) ==
    /\ submit[u].pc \notin Ready
    /\ UNCHANGED <<head_urbr, head_urbr_pending, head_urbr_sent, writer>>
    /\ \A v \in Urb \ {u} : submit'[v].pc = submit[v].pc /\ urbr_seq'[v] = urbr_seq[v]
                            /\ urbr'[v] = urbr[v] /\ irp'[v] = irp[v]
    /\ \A r \in Reader : reader'[r].pc = reader[r].pc /\ reader'[r].urbr = reader[r].urbr
    /\ submit'[u].pc \in Submitting \ {"complete_read"} => irp'[u] = "issued"
    /\ submit'[u].pc \in Submitting \ {"complete_read", "cancelled", "rejected"} => Live(u)'
    /\ \/ UNCHANGED urbr_sent_partial
       \/ urbr_sent_partial \in {u, NoUrb} /\ urbr_sent_partial' \in {u, NoUrb}
    /\ submit'[u].pc \in Ready => urbr_sent_partial' # u

LEMMA OwnStepKeeps ==
  ASSUME AInv, Calm, FillOK, FillOK', RaceOK, NEW u \in Urb, OwnStep(u)
  PROVE  RaceOK'
  <1> USE DEF AInv
  <1>1. /\ \A n \in SeqNum : writer[n].pc = "found" => writer[n].urbr \in Urb
        /\ \A r \in Reader : reader[r].pc \in Holding \cup {"fail"} => reader[r].urbr \in Urb
    BY HeldTyped DEF AnswerOK, Holding, Reading
  <1>2. /\ u \notin ToSet(head_urbr)
        /\ u \notin ToSet(head_urbr_pending) /\ u \notin ToSet(head_urbr_sent)
        /\ \A n \in SeqNum : writer[n].pc = "found" => writer[n].urbr # u
        /\ \A r \in Reader : reader[r].pc \in Holding \cup {"fail"} => reader[r].urbr # u
    BY Unshared DEF OwnStep
  <1>3. ListsOK'
    BY <1>2, ListsTyped, UrbAssumption DEF RaceOK, ListsOK, OwnStep, Pending, Live
  <1>4. WriterHolds'
    BY <1>1, <1>2, UrbAssumption DEF RaceOK, WriterHolds, OwnStep, Pending, Live
  <1>5. SubmitterHolds'
    BY DEF RaceOK, SubmitterHolds, OwnStep, Live
  <1>6. ReaderHolds'
    <2>1. CASE UNCHANGED urbr_sent_partial
      <3>1. urbr_sent_partial \in Urb \ {u} /\ submit'[urbr_sent_partial].pc \in Ready =>
               submit[urbr_sent_partial].pc \in Ready
        BY DEF OwnStep
      <3>2. urbr_sent_partial # NoUrb /\ submit'[urbr_sent_partial].pc \in Ready =>
               submit[urbr_sent_partial].pc \in Ready
        BY <2>1, <3>1, HeldTyped DEF OwnStep
      <3>3. \A r \in Reader : reader[r].pc = "fail" => Pending(reader[r].urbr)'
        BY <1>1, <1>2 DEF RaceOK, ReaderHolds, OwnStep, Pending, Live
      <3> QED
        BY <2>1, <3>2, <3>3 DEF RaceOK, ReaderHolds, OwnStep
    <2>2. CASE urbr_sent_partial \in {u, NoUrb} /\ urbr_sent_partial' \in {u, NoUrb}
      <3>1. \A r \in Reader : reader[r].pc \notin Holding \cup {"fail"}
        BY <1>1, <1>2, <2>2, UrbAssumption DEF RaceOK, ReaderHolds
      <3> QED
        BY <2>2, <3>1 DEF RaceOK, ReaderHolds, OwnStep
    <2> QED
      BY <2>1, <2>2 DEF OwnStep
  <1> QED
    BY <1>3, <1>4, <1>5, <1>6 DEF RaceOK

LEMMA SubmitOwn ==
  ASSUME AInv, Calm, Calm', FillOK, RaceOK, NEW u \in Urb,
         \/ Bus_Internal_IoCtl(u) \/ SubmitPending(u) \/ SubmitDirect(u) \/ SubmitStore(u)
         \/ SubmitRefused(u) \/ SubmitArmSent(u) \/ SubmitCancelled(u) \/ SubmitReturn(u)
  PROVE  OwnStep(u)
  <1> USE DEF AInv, TInv
  <1>1. /\ submit[u].pc \notin Ready
        /\ UNCHANGED <<head_urbr, head_urbr_pending, head_urbr_sent, writer>>
        /\ \A v \in Urb \ {u} : urbr_seq'[v] = urbr_seq[v] /\ urbr'[v] = urbr[v]
                                /\ irp'[v] = irp[v]
    BY CalmStep, NoCrash
       DEF Bus_Internal_IoCtl, SubmitPending, SubmitDirect, SubmitStore, SubmitRefused,
           SubmitArmSent, SubmitCancelled, SubmitReturn, lists, urbs, irps, Number, Free,
           CompleteUrb, TypeOK, Ready
  <1>2. \A r \in Reader : reader'[r].pc = reader[r].pc /\ reader'[r].urbr = reader[r].urbr
    <2>1. CASE SubmitStore(u)
      BY <2>1, CalmStep, NoCrash, StoredIs DEF SubmitStore, SubmitOK
    <2>2. CASE ~SubmitStore(u)
      BY <2>2 DEF Bus_Internal_IoCtl, SubmitPending, SubmitDirect, SubmitRefused, SubmitArmSent,
                  SubmitCancelled, SubmitReturn
    <2> QED
      BY <2>1, <2>2
  <1>3. PICK pc : \A v \in Urb : submit'[v].pc = IF v = u THEN pc ELSE submit[v].pc
    <2>1. CASE SubmitDirect(u)
      BY <2>1 DEF SubmitDirect, SubmitOK, SubmitState
    <2>2. CASE ~SubmitDirect(u)
      <3>1. PICK pc : SubmitTo(u, pc)
        BY <2>2, CalmStep, NoCrash
           DEF Bus_Internal_IoCtl, SubmitPending, SubmitStore, SubmitRefused, SubmitArmSent,
               SubmitCancelled, SubmitReturn
      <3> QED
        BY <3>1, SubmitToIs
    <2> QED
      BY <2>1, <2>2
  <1>4. submit'[u].pc \in Submitting \ {"complete_read"} => irp'[u] = "issued"
    <2>1. submit[u].pc \in Submitting \ {"complete_read"} => irp[u] = "issued"
      BY DEF RaceOK, SubmitterHolds
    <2> QED
      BY <2>1, CalmStep, NoCrash, SubmitToIs
         DEF Bus_Internal_IoCtl, SubmitPending, SubmitDirect, SubmitStore, SubmitRefused,
             SubmitArmSent, SubmitCancelled, SubmitReturn, irps, Submitting, TypeOK
  <1>5. submit'[u].pc \in Submitting \ {"complete_read", "cancelled", "rejected"} => Live(u)'
    <2>1. submit[u].pc \in Submitting \ {"complete_read", "cancelled", "rejected"} => Live(u)
      BY DEF RaceOK, SubmitterHolds
    <2>2. CASE SubmitDirect(u)
      BY <2>1, <2>2 DEF SubmitDirect, Submitting, Live
    <2>3. CASE Bus_Internal_IoCtl(u)
      BY <2>3, SubmitToIs DEF Bus_Internal_IoCtl, Submitting, Live, TypeOK
    <2>4. CASE SubmitPending(u) \/ SubmitStore(u) \/ SubmitArmSent(u)
      BY <2>1, <2>4, CalmStep, NoCrash
         DEF SubmitPending, SubmitStore, SubmitArmSent, urbs, Submitting, Live
    <2>5. CASE SubmitRefused(u) \/ SubmitCancelled(u) \/ SubmitReturn(u)
      <3>1. PICK pc1 \in {"cancelled", "rejected", "done"} : SubmitTo(u, pc1)
        BY <2>5 DEF SubmitRefused, SubmitCancelled, SubmitReturn
      <3> QED
        BY <3>1, SubmitToIs DEF Submitting
    <2> QED
      BY <2>2, <2>3, <2>4, <2>5
  <1>6. \/ UNCHANGED urbr_sent_partial
        \/ urbr_sent_partial \in {u, NoUrb} /\ urbr_sent_partial' \in {u, NoUrb}
    <2>1. submit[u].pc \in Filling => urbr_sent_partial = u
      BY DEF FillOK, TakingOK
    <2> QED
      BY <2>1, CalmStep, NoCrash
         DEF Bus_Internal_IoCtl, SubmitPending, SubmitDirect, SubmitStore, SubmitRefused,
             SubmitArmSent, SubmitCancelled, SubmitReturn, partial, MustQueue, Filling
  <1>7. submit'[u].pc \in Ready => urbr_sent_partial' # u
    <2>1. submit[u].pc \notin Filling => urbr_sent_partial # u
      BY <1>1, Unshared
    <2> QED
      BY <2>1, CalmStep, NoCrash, SubmitToIs
         DEF Bus_Internal_IoCtl, SubmitPending, SubmitDirect, SubmitStore, SubmitRefused,
             SubmitArmSent, SubmitCancelled, SubmitReturn, partial, Filling, Ready, SubmitOK,
             SubmitState
  <1> QED
    BY <1>1, <1>2, <1>3, <1>4, <1>5, <1>6, <1>7 DEF OwnStep

(* The request joins head_urbr, with a list that knows it or as the one in *)
(* transfer.                                                               *)
LEMMA SubmitLists ==
  ASSUME AInv, Calm, Calm', FillOK, FillOK', RaceOK, NEW u \in Urb,
         SubmitPartial(u) \/ SubmitInsert(u)
  PROVE  RaceOK'
  <1> USE DEF AInv, TInv
  <1>1. /\ UNCHANGED <<urbr, urbr_seq, irp, urbr_sent_partial, reader, writer>>
        /\ head_urbr' = Append(head_urbr, u)
        /\ submit[u].pc \in {"stored", "arm_pending", "arm_sent"}
    BY CalmStep, NoCrash DEF SubmitPartial, SubmitInsert, urbs, irps, partial, ListUrb
  <1>2. PICK pc \in {"complete_read", "done"} :
           \A v \in Urb : submit'[v].pc = IF v = u THEN pc ELSE submit[v].pc
    BY CalmStep, NoCrash, SubmitToIs DEF SubmitPartial, SubmitInsert
  <1>3. /\ u \notin ToSet(head_urbr)
        /\ u \notin ToSet(head_urbr_pending) /\ u \notin ToSet(head_urbr_sent)
        /\ \A n \in SeqNum : writer[n].pc = "found" => writer[n].urbr # u
        /\ \A r \in Reader : reader[r].pc \in Holding \cup {"fail"} => reader[r].urbr # u
        /\ submit[u].pc \notin Filling => urbr_sent_partial # u
    BY <1>1, Unshared DEF Ready
  <1>4. Pending(u)
    BY <1>1 DEF RaceOK, SubmitterHolds, Pending, Submitting
  <1>5. Distinct(head_urbr') /\ ToSet(head_urbr') = ToSet(head_urbr) \cup {u}
    BY <1>1, <1>3, AppendElements DEF TypeOK, RaceOK, ListsOK
  <1>6. ToSet(head_urbr_pending') \subseteq ToSet(head_urbr_pending) \cup {u}
    <2>1. CASE UNCHANGED head_urbr_pending
      BY <2>1
    <2>2. CASE head_urbr_pending' = Append(head_urbr_pending, u)
      BY <1>3, <2>2, AppendElements DEF TypeOK, PendingOK
    <2> QED
      BY <2>1, <2>2, CalmStep, NoCrash DEF SubmitPartial, SubmitInsert
  <1>7. /\ Distinct(head_urbr_sent')
        /\ ToSet(head_urbr_sent') \subseteq ToSet(head_urbr_sent) \cup {u}
        /\ u \in ToSet(head_urbr_sent') => urbr_seq[u] # 0 /\ u # urbr_sent_partial
    <2>1. CASE UNCHANGED head_urbr_sent
      BY <1>3, <2>1 DEF RaceOK, ListsOK
    <2>2. CASE submit[u].pc = "arm_sent" /\ head_urbr_sent' = Append(head_urbr_sent, u)
      <3>1. urbr_seq[u] # 0 /\ u # urbr_sent_partial
        BY <1>3, <2>2 DEF FillOK, PartialOK, Taking, Filling
      <3> QED
        BY <1>3, <2>2, <3>1, AppendElements DEF TypeOK, RaceOK, ListsOK
    <2> QED
      BY <2>1, <2>2, CalmStep, NoCrash DEF SubmitPartial, SubmitInsert, AwaitAnswer
  <1>8. ListsOK'
    <2>1. ToSet(head_urbr_sent) \subseteq Urb /\ ToSet(head_urbr) \subseteq Urb
      BY ListsTyped
    <2> QED
      BY <1>1, <1>2, <1>4, <1>5, <1>6, <1>7, <2>1 DEF RaceOK, ListsOK, Pending, Live, Ready
  <1>9. WriterHolds'
    BY <1>1, <1>2, <1>3, <1>5 DEF RaceOK, WriterHolds, Pending, Live, AnswerOK
  <1>10. SubmitterHolds'
    BY <1>1, <1>2 DEF RaceOK, SubmitterHolds, Live, Submitting
  <1>11. ReaderHolds'
    <2>1. urbr_sent_partial \in Urb \cup {NoUrb}
      BY HeldTyped
    <2>2. \A r \in Reader : reader[r].pc \in Holding \cup {"fail"} => reader[r].urbr \in Urb
      BY HeldTyped DEF Holding, Reading
    <2> QED
      BY <1>1, <1>2, <1>3, <1>5, <2>1, <2>2 DEF RaceOK, ReaderHolds, Pending, Live
  <1> QED
    BY <1>8, <1>9, <1>10, <1>11 DEF RaceOK

LEMMA SubmitKeeps ==
  ASSUME AInv, Calm, Calm', FillOK, FillOK', RaceOK, NEW u \in Urb,
         Bus_Internal_IoCtl(u) \/ Submit(u)
  PROVE  RaceOK'
  <1> USE DEF AInv, TInv
  <1>1. CASE \/ Bus_Internal_IoCtl(u) \/ SubmitPending(u) \/ SubmitDirect(u) \/ SubmitStore(u)
             \/ SubmitRefused(u) \/ SubmitArmSent(u) \/ SubmitCancelled(u) \/ SubmitReturn(u)
    BY <1>1, SubmitOwn, OwnStepKeeps
  <1>2. CASE SubmitPartial(u) \/ SubmitInsert(u)
    BY <1>2, SubmitLists
  <1>3. CASE SubmitCompleteRead(u)
    <2>1. /\ UNCHANGED <<urbr, urbr_seq, irp, urbr_sent_partial, writer, head_urbr,
                         head_urbr_pending, head_urbr_sent>>
          /\ submit[u].pc = "complete_read" /\ SubmitTo(u, "done")
          /\ reader[submit[u].read].pc = "pending" /\ ReaderTo(submit[u].read, "idle")
          /\ submit[u].read \in Reader
      BY <1>3, CalmStep, NoCrash
         DEF SubmitCompleteRead, Deliver, lists, partial, urbs, irps, SubmitOK
    <2>2. \A v \in Urb : submit'[v].pc = IF v = u THEN "done" ELSE submit[v].pc
      BY <2>1, SubmitToIs
    <2>3. \A r \in Reader : /\ reader'[r].urbr = reader[r].urbr
                            /\ reader'[r].pc \in Holding \cup {"fail"} \/
                               reader[r].pc \in Holding \cup {"fail"}
                               => reader'[r].pc = reader[r].pc
      BY <2>1, ReaderToIs DEF Holding
    <2>4. /\ \A v \in Urb : submit'[v].pc \in Ready <=> submit[v].pc \in Ready
          /\ \A v \in Urb : submit'[v].pc \in Submitting \ {"complete_read"} =>
                                submit'[v].pc = submit[v].pc
      BY <2>1, <2>2 DEF Ready, Submitting
    <2>5. ListsOK' /\ WriterHolds' /\ SubmitterHolds'
      BY <2>1, <2>4, ListsTyped
         DEF RaceOK, ListsOK, WriterHolds, SubmitterHolds, Pending, Live, AnswerOK
    <2>6. ReaderHolds'
      BY <2>1, <2>3, <2>4, HeldTyped DEF RaceOK, ReaderHolds, Pending, Live
    <2> QED
      BY <2>5, <2>6 DEF RaceOK
  <1> QED
    BY <1>1, <1>2, <1>3 DEF Submit

-----------------------------------------------------------------------------
(* The steps of a read                                                     *)

(* A read that neither takes a request nor gives one up.                   *)
LEMMA ReadQuietKeeps ==
  ASSUME AInv, Calm, Calm', FillOK, FillOK', RaceOK, NEW r \in Reader,
         \/ Bus_Read(r) \/ ReadRefused(r) \/ ReadWait(r) \/ ReadStore(r) \/ ReadReturn(r)
  PROVE  RaceOK'
  <1> USE DEF AInv, TInv
  <1>1. UNCHANGED <<urbr, urbr_seq, irp, urbr_sent_partial, submit, writer, head_urbr,
                    head_urbr_pending, head_urbr_sent>>
    BY CalmStep, NoCrash
       DEF Bus_Read, ReadRefused, ReadWait, ReadStore, ReadReturn, lists, partial, urbs, irps
  <1>2. \A q \in Reader : /\ reader'[q].urbr = reader[q].urbr
                          /\ reader'[q].pc \in Holding <=> reader[q].pc \in Holding
                          /\ reader'[q].pc = "fail" <=> reader[q].pc = "fail"
    <2>1. CASE ~ReadStore(r)
      <3>1. PICK pc \in {"enter", "idle", "pending"} :
               ReaderTo(r, pc) /\ reader[r].pc \in {"idle", "enter", "return"}
        BY <2>1 DEF Bus_Read, ReadRefused, ReadWait, ReadReturn, Deliver
      <3> QED
        BY <3>1, ReaderToIs DEF Holding
    <2>2. CASE ReadStore(r)
      <3>1. /\ \A q \in Reader \ {r} : reader'[q] = reader[q]
            /\ reader'[r].urbr = reader[r].urbr
            /\ reader'[r].pc \in {"stored", "stored_partial", "refused", "refused_partial"}
            /\ reader[r].pc \in {"store", "store_partial"}
        <4>1. /\ reader[r].pc \in {"store", "store_partial"}
              /\ \/ \E pc \in {"refused", "refused_partial"} : ReaderTo(r, pc)
                 \/ \E out : \E pc \in {"stored", "stored_partial"} :
                       reader' = [store_urbr(r, reader[r].urbr, out) EXCEPT ![r].pc = pc]
          BY <2>2, CalmStep, NoCrash DEF ReadStore
        <4> QED
          BY <4>1 DEF ReaderTo, store_urbr, ReaderOK, ReaderState
      <3> QED
        BY <3>1 DEF Holding
    <2> QED
      BY <2>1, <2>2
  <1>3. ListsOK' /\ WriterHolds' /\ SubmitterHolds'
    BY <1>1 DEF RaceOK, ListsOK, WriterHolds, SubmitterHolds, Pending, Live
  <1>4. ReaderHolds'
    BY <1>1, <1>2 DEF RaceOK, ReaderHolds, Pending, Live
  <1> QED
    BY <1>3, <1>4 DEF RaceOK

LEMMA ReadRestKeeps ==
  ASSUME AInv, Calm, Calm', FillOK, FillOK', RaceOK, NEW r \in Reader, ReadRest(r)
  PROVE  RaceOK'
  <1> USE DEF AInv, TInv
  <1>1. /\ UNCHANGED <<urbr, urbr_seq, irp, urbr_sent_partial, submit, writer, head_urbr,
                       head_urbr_pending, head_urbr_sent>>
        /\ reader[r].pc = "enter" /\ ~ReadWaits /\ urbr_sent_partial # NoUrb
    BY DEF ReadRest, lists, partial, urbs, irps
  <1>2. \A q \in Reader :
           /\ reader'[q].pc = IF q = r THEN "store_partial" ELSE reader[q].pc
           /\ reader'[q].urbr = IF q = r THEN urbr_sent_partial ELSE reader[q].urbr
    BY DEF ReadRest, ReaderOK, ReaderState
  <1>3. /\ \A q \in Reader : reader[q].pc \in Reading => q = r
        /\ \A u \in Urb : submit[u].pc \notin Taking
    BY <1>1, ReadAlone DEF Reading
  <1>4. urbr_sent_partial \in ToSet(head_urbr)
    <2>1. submit[urbr_sent_partial].pc \in Ready
      BY <1>1, <1>3, HeldTyped DEF FillOK, PartialOK, Taking
    <2> QED
      BY <1>1, <1>3, <2>1 DEF RaceOK, ReaderHolds, Reading
  <1>5. ListsOK' /\ WriterHolds' /\ SubmitterHolds'
    BY <1>1 DEF RaceOK, ListsOK, WriterHolds, SubmitterHolds, Pending, Live
  <1>6. ReaderHolds'
    BY <1>1, <1>2, <1>4 DEF RaceOK, ReaderHolds, Pending, Live, Holding
  <1> QED
    BY <1>5, <1>6 DEF RaceOK

LEMMA ReadTakesKeeps ==
  ASSUME AInv, Calm, Calm', FillOK, FillOK', RaceOK, NEW r \in Reader, ReadPending(r)
  PROVE  RaceOK'
  <1> USE DEF AInv, TInv
  <1> DEFINE u == Head(head_urbr_pending)
  <1>1. /\ UNCHANGED <<urbr, irp, submit, writer, head_urbr, head_urbr_sent>>
        /\ reader[r].pc = "enter" /\ ~ReadWaits
        /\ head_urbr_pending' = Tail(head_urbr_pending)
        /\ urbr_sent_partial' = u /\ Number(u)
    BY CalmStep, NoCrash DEF ReadPending, irps
  <1>2. /\ u \in ToSet(head_urbr_pending)
        /\ ToSet(head_urbr_pending') \subseteq ToSet(head_urbr_pending)
    BY <1>1, TailElements DEF ReadPending, PendingOK, TypeOK
  <1>3. \A q \in Reader : /\ reader'[q].pc = IF q = r THEN "store" ELSE reader[q].pc
                          /\ reader'[q].urbr = IF q = r THEN u ELSE reader[q].urbr
    BY CalmStep, NoCrash DEF ReadPending, ReaderOK, ReaderState
  <1> HIDE DEF u
  <1>4. u \in Urb /\ u \in ToSet(head_urbr) /\ urbr_seq[u] = 0
    BY <1>2, ListsTyped DEF PendingOK, RaceOK, ListsOK
  <1>5. \A q \in Reader \ {r} : reader[q].pc \notin Holding \cup {"fail"}
    BY <1>1, ReadAlone DEF Reading, Holding
  <1>6. \A v \in Urb \ {u} : urbr_seq'[v] = urbr_seq[v]
    BY <1>1, <1>4, NumberIsNew
  <1>7. u \notin ToSet(head_urbr_sent)
    BY <1>4 DEF RaceOK, ListsOK
  <1>8. ListsOK'
    BY <1>1, <1>2, <1>6, <1>7, ListsTyped DEF RaceOK, ListsOK, Pending, Live
  <1>9. WriterHolds' /\ SubmitterHolds'
    BY <1>1, <1>4 DEF RaceOK, WriterHolds, SubmitterHolds, Pending, Live
  <1>10. ReaderHolds'
    BY <1>1, <1>3, <1>4, <1>5 DEF RaceOK, ReaderHolds, Pending, Live, Holding
  <1> QED
    BY <1>8, <1>9, <1>10 DEF RaceOK

LEMMA ReadStoredKeeps ==
  ASSUME AInv, Calm, Calm', FillOK, FillOK', RaceOK, NEW r \in Reader, ReadStored(r)
  PROVE  RaceOK'
  <1> USE DEF AInv, TInv
  <1> DEFINE u == reader[r].urbr
  <1>1. /\ UNCHANGED <<urbr, urbr_seq, irp, submit, writer, head_urbr, head_urbr_pending>>
        /\ reader[r].pc \in {"stored", "stored_partial"}
        /\ \/ UNCHANGED <<head_urbr_sent, urbr_sent_partial>>
           \/ head_urbr_sent' = Append(head_urbr_sent, u) /\ urbr_sent_partial' = NoUrb
    BY CalmStep, NoCrash DEF ReadStored, urbs, irps, AwaitAnswer
  <1>2. \A q \in Reader : /\ reader'[q].pc = IF q = r THEN "return" ELSE reader[q].pc
                          /\ reader'[q].urbr = reader[q].urbr
    BY CalmStep, NoCrash, ReaderToIs DEF ReadStored
  <1>3. /\ u = urbr_sent_partial /\ u \in ToSet(head_urbr) /\ u \in Urb
        /\ u \notin ToSet(head_urbr_sent) /\ urbr_seq[u] # 0
    BY <1>1, ListsTyped
       DEF RaceOK, ReaderHolds, ListsOK, Holding, FillOK, PartialOK, Reading
  <1> HIDE DEF u
  <1>4. \A q \in Reader \ {r} : reader[q].pc \notin Holding \cup {"fail"}
    BY <1>1, ReadAlone DEF Reading, Holding
  <1>5. SubmitterHolds'
    BY <1>1 DEF RaceOK, SubmitterHolds, Pending, Live
  <1>6. CASE UNCHANGED <<head_urbr_sent, urbr_sent_partial>>
    <2>1. ListsOK' /\ WriterHolds'
      BY <1>1, <1>6 DEF RaceOK, ListsOK, WriterHolds, Pending, Live
    <2>2. ReaderHolds'
      BY <1>1, <1>2, <1>3, <1>4, <1>6 DEF RaceOK, ReaderHolds, Pending, Live, Holding
    <2> QED
      BY <1>5, <2>1, <2>2 DEF RaceOK
  <1>7. CASE head_urbr_sent' = Append(head_urbr_sent, u) /\ urbr_sent_partial' = NoUrb
    <2>1. /\ Distinct(head_urbr_sent')
          /\ ToSet(head_urbr_sent') = ToSet(head_urbr_sent) \cup {u}
      BY <1>3, <1>7, AppendElements DEF TypeOK, RaceOK, ListsOK
    <2>2. ListsOK'
      BY <1>1, <1>3, <1>7, <2>1, ListsTyped, UrbAssumption DEF RaceOK, ListsOK, Pending, Live
    <2>3. WriterHolds'
      BY <1>1, <1>7, UrbAssumption DEF RaceOK, WriterHolds, Pending, Live, AnswerOK
    <2>4. ReaderHolds'
      BY <1>1, <1>2, <1>4, <1>7 DEF RaceOK, ReaderHolds, Holding
    <2> QED
      BY <1>5, <2>2, <2>3, <2>4 DEF RaceOK
  <1> QED
    BY <1>1, <1>6, <1>7

(* The refused request leaves head_urbr, which alone held it.              *)
LEMMA ReadRefusedUrbKeeps ==
  ASSUME AInv, Calm, Calm', FillOK, FillOK', RaceOK, NEW r \in Reader, ReadRefusedUrb(r)
  PROVE  RaceOK'
  <1> USE DEF AInv, TInv
  <1> DEFINE u == reader[r].urbr
  <1>1. /\ UNCHANGED <<urbr, urbr_seq, irp, submit, writer, urbr_sent_partial,
                       head_urbr_pending, head_urbr_sent>>
        /\ reader[r].pc \in {"refused", "refused_partial"}
        /\ head_urbr' = Unlink(head_urbr, u)
    BY CalmStep, NoCrash DEF ReadRefusedUrb, urbs, irps
  <1>2. \A q \in Reader : /\ reader'[q].pc = IF q = r THEN "fail" ELSE reader[q].pc
                          /\ reader'[q].urbr = reader[q].urbr
    BY CalmStep, NoCrash, ReaderToIs DEF ReadRefusedUrb
  <1>3. /\ u = urbr_sent_partial /\ u \in ToSet(head_urbr) /\ u \in Urb
        /\ u \notin ToSet(head_urbr_sent) /\ Pending(u) /\ urbr_seq[u] # 0
    BY <1>1, ListsTyped
       DEF RaceOK, ReaderHolds, ListsOK, Holding, FillOK, PartialOK, Reading
  <1>4. u \notin ToSet(head_urbr_pending)
    BY <1>3 DEF PendingOK
  <1>5. Distinct(head_urbr') /\ ToSet(head_urbr') = ToSet(head_urbr) \ {u}
    BY <1>1, UnlinkIs DEF TypeOK, RaceOK, ListsOK
  <1> HIDE DEF u
  <1>6. \A q \in Reader \ {r} : reader[q].pc \notin Holding \cup {"fail"}
    BY <1>1, ReadAlone DEF Reading, Holding
  <1>7. ListsOK'
    BY <1>1, <1>3, <1>4, <1>5 DEF RaceOK, ListsOK, Pending, Live
  <1>8. WriterHolds' /\ SubmitterHolds'
    BY <1>1, <1>5 DEF RaceOK, WriterHolds, SubmitterHolds, Pending, Live
  <1>9. ReaderHolds'
    BY <1>1, <1>2, <1>3, <1>5, <1>6 DEF RaceOK, ReaderHolds, Pending, Live, Holding, u
  <1> QED
    BY <1>7, <1>8, <1>9 DEF RaceOK

(* A read that has failed rejects its request: that is one of the races.   *)
LEMMA ReadFailRaces ==
  ASSUME AInv, Calm, Calm', NEW r \in Reader, ReadFail(r)
  PROVE  Raced'
  <1> USE DEF AInv, TInv
  <1>1. reader[r].urbr \in Urb
    BY HeldTyped DEF ReadFail, Reading
  <1>2. irp'[reader[r].urbr] = "rejected" /\ urbr'[reader[r].urbr] = "freed"
    BY <1>1 DEF ReadFail, CompleteUrb, Free, TypeOK, Calm
  <1> QED
    BY <1>1, <1>2 DEF Raced

LEMMA ReadKeeps ==
  ASSUME AInv, Calm, Calm', FillOK, FillOK', RaceOK, ~Raced', NEW r \in Reader, Read(r)
  PROVE  RaceOK'
  BY ReadQuietKeeps, ReadRestKeeps, ReadTakesKeeps, ReadStoredKeeps, ReadRefusedUrbKeeps,
     ReadFailRaces
     DEF Read

-----------------------------------------------------------------------------
(* The steps of a write and of a cancellation                              *)

LEMMA WriteFindKeeps ==
  ASSUME AInv, Calm, Calm', FillOK, FillOK', RaceOK, NEW n \in SeqNum, WriteFind(n),
         NEW i \in SentAs(n), head_urbr_sent' = RemoveAt(head_urbr_sent, i),
         head_urbr' = Unlink(head_urbr, head_urbr_sent[i]), UNCHANGED head_urbr_pending,
         writer' = [writer EXCEPT ![n] = [pc |-> "found", urbr |-> head_urbr_sent[i]]]
  PROVE  RaceOK'
  <1> USE DEF AInv, TInv
  <1> DEFINE u == head_urbr_sent[i]
  <1>1. UNCHANGED <<urbr, urbr_seq, irp, submit, reader, urbr_sent_partial>>
    BY CalmStep, NoCrash DEF WriteFind, urbs, irps, partial
  <1>2. u \in ToSet(head_urbr_sent)
    BY DEF SentAs, ToSet
  <1>3. /\ Distinct(head_urbr_sent') /\ ToSet(head_urbr_sent') = ToSet(head_urbr_sent) \ {u}
        /\ Distinct(head_urbr') /\ ToSet(head_urbr') = ToSet(head_urbr) \ {u}
    BY RemoveAtUnlinks, UnlinkIs DEF SentAs, TypeOK, RaceOK, ListsOK
  <1>4. \A m \in SeqNum : writer'[m] = IF m = n THEN [pc |-> "found", urbr |-> u] ELSE writer[m]
    BY DEF TypeOK
  <1> HIDE DEF u
  <1>5. /\ u \in ToSet(head_urbr) /\ Pending(u) /\ submit[u].pc \in Ready
        /\ urbr_seq[u] # 0 /\ u # urbr_sent_partial /\ u \in Urb
    BY <1>2, ListsTyped DEF RaceOK, ListsOK
  <1>6. u \notin ToSet(head_urbr_pending)
    BY <1>5 DEF PendingOK
  <1>7. ListsOK'
    BY <1>1, <1>3, <1>6 DEF RaceOK, ListsOK, Pending, Live
  <1>8. WriterHolds'
    BY <1>1, <1>3, <1>4, <1>5 DEF RaceOK, WriterHolds, Pending, Live
  <1>9. ReaderHolds'
    BY <1>1, <1>3, <1>5 DEF RaceOK, ReaderHolds, Pending, Live, Holding
  <1>10. SubmitterHolds'
    BY <1>1 DEF RaceOK, SubmitterHolds, Live
  <1> QED
    BY <1>7, <1>8, <1>9, <1>10 DEF RaceOK

(* The answered request is in no list and in no other hand.                *)
LEMMA WriteCompleteKeeps ==
  ASSUME AInv, Calm, Calm', FillOK, FillOK', RaceOK, NEW n \in SeqNum, WriteComplete(n)
  PROVE  RaceOK'
  <1> USE DEF AInv, TInv
  <1> DEFINE u == writer[n].urbr
  <1>1. /\ UNCHANGED <<urbr_seq, submit, reader, urbr_sent_partial, head_urbr,
                       head_urbr_pending, head_urbr_sent>>
        /\ writer[n].pc = "found" /\ Free(u) /\ CompleteUrb(u, "replied")
        /\ WriterTo(n, "done")
    BY CalmStep, NoCrash DEF WriteComplete, lists, partial
  <1>2. /\ u \in Urb /\ urbr_seq[u] = n
        /\ u \notin ToSet(head_urbr) /\ u # urbr_sent_partial /\ submit[u].pc \in Ready
    BY <1>1 DEF AnswerOK, RaceOK, WriterHolds
  <1>3. \A v \in Urb \ {u} : urbr'[v] = urbr[v] /\ irp'[v] = irp[v]
    BY <1>1 DEF Free, CompleteUrb, TypeOK
  <1>4. /\ \A m \in SeqNum : writer'[m].urbr = writer[m].urbr
        /\ \A m \in SeqNum : writer'[m].pc = "found" => writer[m].pc = "found" /\ m # n
    BY <1>1 DEF WriterTo, TypeOK, WriterState
  <1>5. \A m \in SeqNum : writer'[m].pc = "found" => writer[m].urbr \in Urb \ {u}
    BY <1>2, <1>4 DEF AnswerOK
  <1> HIDE DEF u
  <1>6. ListsOK'
    BY <1>1, <1>2, <1>3, ListsTyped DEF RaceOK, ListsOK, Pending, Live
  <1>7. WriterHolds'
    BY <1>1, <1>3, <1>4, <1>5 DEF RaceOK, WriterHolds, Pending, Live
  <1>8. ReaderHolds'
    <2>1. \A r \in Reader : reader[r].pc = "fail" => reader[r].urbr \in Urb \ {u}
      BY <1>2, HeldTyped DEF RaceOK, ReaderHolds, Reading
    <2> QED
      BY <1>1, <1>3, <2>1 DEF RaceOK, ReaderHolds, Pending, Live
  <1>9. SubmitterHolds'
    BY <1>1, <1>2, <1>3 DEF RaceOK, SubmitterHolds, Live, Ready, Submitting
  <1> QED
    BY <1>6, <1>7, <1>8, <1>9 DEF RaceOK

LEMMA WriteKeepsRace ==
  ASSUME AInv, Calm, Calm', FillOK, FillOK', RaceOK, NEW n \in SeqNum, Write(n)
  PROVE  RaceOK'
  <1> USE DEF AInv, TInv
  <1>1. ASSUME UNCHANGED <<urbr, urbr_seq, irp, submit, reader, urbr_sent_partial, head_urbr,
                           head_urbr_pending, head_urbr_sent>>,
               \A m \in SeqNum : writer'[m].pc = "found" =>
                                    writer[m].pc = "found" /\ writer'[m].urbr = writer[m].urbr
        PROVE  RaceOK'
    BY <1>1 DEF RaceOK, ListsOK, ReaderHolds, WriterHolds, SubmitterHolds, Pending, Live
  <1>2. CASE Bus_Write(n) \/ (WriteFind(n) /\ UNCHANGED lists)
    <2>1. UNCHANGED <<urbr, urbr_seq, irp, submit, reader, urbr_sent_partial, head_urbr,
                      head_urbr_pending, head_urbr_sent>>
      BY <1>2, CalmStep, NoCrash DEF Bus_Write, WriteFind, lists, urbs, irps, partial
    <2>2. \/ \E pc \in {"enter", "done"} : WriterTo(n, pc)
          \/ WriteFind(n) /\ SentAs(n) # {}
      BY <1>2, CalmStep, NoCrash DEF Bus_Write, WriteFind
    <2>3. CASE \E pc \in {"enter", "done"} : WriterTo(n, pc)
      BY <1>1, <2>1, <2>3 DEF WriterTo, TypeOK, WriterState
    <2>4. CASE WriteFind(n) /\ SentAs(n) # {}
      BY <2>4, WriteFindKeeps, CalmStep, NoCrash DEF WriteFind
    <2> QED
      BY <2>2, <2>3, <2>4
  <1>3. CASE WriteFind(n) /\ ~UNCHANGED lists
    BY <1>3, WriteFindKeeps, CalmStep, NoCrash DEF WriteFind
  <1>4. CASE WriteComplete(n)
    BY <1>4, WriteCompleteKeeps
  <1> QED
    BY <1>2, <1>3, <1>4 DEF Write

(* A cancel routine that was taken is one of the races.                    *)
LEMMA CancelKeeps ==
  ASSUME AInv, RaceOK, ~Raced, ~Raced', NEW u \in Urb, IoCancelIrp(u) \/ CancelRoutine(u)
  PROVE  fault' = fault /\ RaceOK'
  <1> USE DEF AInv, TInv
  <1>1. IoCancelIrp(u)
    BY DEF CancelRoutine, remove_cancelled_urbr, cancel_urbr, Raced
  <1>2. UNCHANGED <<urbr, urbr_seq, irp, submit, reader, writer, urbr_sent_partial, head_urbr,
                    head_urbr_pending, head_urbr_sent, fault>>
    BY <1>1 DEF IoCancelIrp, lists, partial, urbs
  <1> QED
    BY <1>2 DEF RaceOK, ListsOK, ReaderHolds, WriterHolds, SubmitterHolds, Pending, Live

-----------------------------------------------------------------------------
(* A race cannot be undone                                                 *)

(* What a step may do to a request, its completion and its cancellation.   *)
IrpStep ==
    /\ \A u \in Urb : irp[u] # "issued" => irp'[u] = irp[u]
    /\ \A u \in Urb : urbr[u] # "none" => urbr'[u] # "none"

IdleStep == \A u \in Urb : submit'[u].pc = "idle" => submit[u].pc = "idle"

LEMMA IrpStepIs ==
  ASSUME TypeOK, UNCHANGED irp \/ \E u, how : CompleteUrb(u, how),
         UNCHANGED urbr \/ \E u : Free(u)
  PROVE  IrpStep
  BY DEF TypeOK, CompleteUrb, Free, IrpStep

LEMMA SubmitEnds ==
  ASSUME TInv, ~Crashes, NEW u \in Urb, Submit(u)
  PROVE  UNCHANGED <<Present, canceller, Cancel>> /\ IrpStep /\ IdleStep
  <1> USE DEF TInv
  <1>1. /\ UNCHANGED <<Present, canceller, Cancel>>
        /\ UNCHANGED irp \/ \E how : CompleteUrb(u, how)
        /\ UNCHANGED urbr \/ Free(u)
    BY NoCrash
       DEF Submit, SubmitPending, SubmitDirect, SubmitStore, SubmitRefused, SubmitArmSent,
           SubmitPartial, SubmitCancelled, SubmitInsert, SubmitCompleteRead, SubmitReturn,
           irps, urbs
  <1>2. CASE SubmitDirect(u)
    <2>1. IdleStep
      BY <1>2 DEF SubmitDirect, SubmitOK, SubmitState, IdleStep
    <2> QED
      BY <1>1, <2>1, IrpStepIs
  <1>3. CASE ~SubmitDirect(u)
    <2>1. PICK pc \in Submitting \cup {"done"} : SubmitTo(u, pc)
      BY <1>3, NoCrash
         DEF Submit, SubmitPending, SubmitStore, SubmitRefused, SubmitArmSent, SubmitPartial,
             SubmitCancelled, SubmitInsert, SubmitCompleteRead, SubmitReturn, Submitting
    <2>2. IdleStep
      BY <2>1, SubmitToIs DEF Submitting, IdleStep
    <2> QED
      BY <1>1, <2>2, IrpStepIs
  <1> QED
    BY <1>2, <1>3

LEMMA OthersEnd ==
  ASSUME TInv, ~Crashes,
         \/ \E r \in Reader : Read(r)
         \/ \E n \in SeqNum : Write(n)
         \/ Unplug \/ bus_unplug_dev
  PROVE  /\ UNCHANGED <<submit, canceller, Cancel>> /\ IrpStep
         /\ UNCHANGED Present \/ Present' = FALSE
  <1> USE DEF TInv
  <1>1. ASSUME NEW r \in Reader, Read(r)
        PROVE  /\ UNCHANGED <<Present, submit, canceller, Cancel>>
               /\ UNCHANGED irp \/ \E v, how : CompleteUrb(v, how)
               /\ UNCHANGED urbr \/ \E v : Free(v)
    <2>1. CASE ReadFail(r)
      BY <2>1 DEF ReadFail
    <2>2. CASE ~ReadFail(r)
      BY <1>1, <2>2, NoCrash
         DEF Read, Bus_Read, ReadRefused, ReadRest, ReadPending, ReadWait, ReadStore, ReadStored,
             ReadRefusedUrb, ReadReturn, irps, urbs
    <2> QED
      BY <2>1, <2>2
  <1>2. ASSUME NEW n \in SeqNum, Write(n)
        PROVE  /\ UNCHANGED <<Present, submit, canceller, Cancel>>
               /\ UNCHANGED irp \/ \E v, how : CompleteUrb(v, how)
               /\ UNCHANGED urbr \/ \E v : Free(v)
    BY <1>2, NoCrash DEF Write, Bus_Write, WriteFind, WriteComplete, irps, urbs
  <1>3. ASSUME Unplug \/ bus_unplug_dev
        PROVE  /\ UNCHANGED <<submit, canceller, Cancel>>
               /\ UNCHANGED Present \/ Present' = FALSE
               /\ UNCHANGED irp \/ \E v, how : CompleteUrb(v, how)
               /\ UNCHANGED urbr \/ \E v : Free(v)
    BY <1>3, NoCrash
       DEF Unplug, bus_unplug_dev, complete_pending_read_irp, UnplugEndRead, UnplugTake,
           UnplugEndUrb, UnplugReset, irps, urbs
  <1>4. CASE \E r \in Reader : Read(r)
    BY <1>1, <1>4, IrpStepIs
  <1>5. CASE \E n \in SeqNum : Write(n)
    BY <1>2, <1>5, IrpStepIs
  <1>6. CASE Unplug \/ bus_unplug_dev
    BY <1>3, <1>6, IrpStepIs
  <1> QED
    BY <1>4, <1>5, <1>6

LEMMA CancelEnds ==
  ASSUME TInv, FreshOK, ~Crashes, NEW u \in Urb, IoCancelIrp(u) \/ CancelRoutine(u)
  PROVE  /\ UNCHANGED <<Present, submit>> /\ IrpStep
         /\ \A v \in Urb : canceller'[v] # "idle" => v \in Cancel'
         /\ \A v \in Urb : canceller[v] \in {"remove", "complete", "done"} =>
                              canceller'[v] \in {"remove", "complete", "done"}
  <1> USE DEF TInv
  <1>1. /\ UNCHANGED <<Present, submit>>
        /\ UNCHANGED irp \/ \E v, how : CompleteUrb(v, how)
        /\ UNCHANGED urbr \/ \E v : Free(v)
    BY NoCrash DEF CancelRoutine, IoCancelIrp, remove_cancelled_urbr, cancel_urbr, irps, urbs
  <1>2. IrpStep
    BY <1>1, IrpStepIs
  <1>3. CASE IoCancelIrp(u)
    <2>1. u \notin Cancel /\ Cancel' = Cancel \cup {u} /\ \E pc : CancellerTo(u, pc)
      BY <1>3 DEF IoCancelIrp
    <2>2. \A v \in Urb \ {u} : canceller'[v] = canceller[v]
      BY <2>1 DEF CancellerTo, TypeOK
    <2> QED
      BY <1>1, <1>2, <2>1, <2>2 DEF FreshOK
  <1>4. CASE CancelRoutine(u)
    <2>1. /\ UNCHANGED Cancel /\ canceller[u] # "idle"
          /\ \E pc \in {"complete", "done"} : CancellerTo(u, pc)
      BY <1>4, NoCrash DEF CancelRoutine, remove_cancelled_urbr, cancel_urbr, irps
    <2> QED
      BY <1>1, <1>2, <2>1 DEF FreshOK, CancellerTo, TypeOK
  <1> QED
    BY <1>3, <1>4

LEMMA EndsStay ==
  ASSUME TInv, FreshOK, Next
  PROVE  /\ FreshOK'
         /\ Present' => Present
         /\ \A u \in Urb : irp[u] = "rejected" /\ urbr[u] # "none" =>
                              irp'[u] = "rejected" /\ urbr'[u] # "none"
         /\ \A u \in Urb : canceller[u] \in {"remove", "complete", "done"} =>
                              canceller'[u] \in {"remove", "complete", "done"}
  <1>1. CASE Crashes
    BY <1>1 DEF Crashes, Crash, FreshOK, threads, irps, urbs
  <1>2. ASSUME ~Crashes, NEW u \in Urb, Bus_Internal_IoCtl(u)
        PROVE  /\ UNCHANGED <<Present, canceller, Cancel>>
               /\ \A v \in Urb : submit'[v].pc = "idle" => v # u /\ submit[v].pc = "idle"
               /\ \A v \in Urb \ {u} : irp'[v] = irp[v] /\ urbr'[v] = urbr[v]
               /\ irp[u] = "idle"
    BY <1>2, SubmitToIs DEF Bus_Internal_IoCtl, FreshOK, TypeOK, TInv
  <1>3. CASE ~Crashes /\ \E u \in Urb : Bus_Internal_IoCtl(u)
    BY <1>2, <1>3 DEF FreshOK
  <1>4. CASE ~Crashes /\ \E u \in Urb : Submit(u)
    BY <1>4, SubmitEnds DEF FreshOK, IrpStep, IdleStep
  <1>5. CASE ~Crashes /\ \E u \in Urb : IoCancelIrp(u) \/ CancelRoutine(u)
    BY <1>5, CancelEnds DEF FreshOK, IrpStep
  <1>6. CASE ~Crashes /\ (\/ \E r \in Reader : Read(r)
                          \/ \E n \in SeqNum : Write(n)
                          \/ Unplug \/ bus_unplug_dev)
    <2>1. /\ UNCHANGED <<submit, canceller, Cancel>> /\ IrpStep
          /\ UNCHANGED Present \/ Present' = FALSE
      BY <1>6, OthersEnd
    <2> QED
      BY <2>1 DEF FreshOK, IrpStep
  <1> QED
    BY <1>1, <1>3, <1>4, <1>5, <1>6 DEF Next

LEMMA RacedStays ==
  ASSUME TInv, FreshOK, [Next]_vars, ~Raced'
  PROVE  ~Raced
  <1>1. CASE UNCHANGED vars
    BY <1>1 DEF vars, threads, irps, urbs, Raced
  <1>2. CASE Next
    BY <1>2, EndsStay DEF Raced
  <1> QED
    BY <1>1, <1>2

-----------------------------------------------------------------------------
(* The invariant                                                           *)

LEMMA InitRInv == Init => RInv
  <1> SUFFICES ASSUME Init PROVE RInv
    OBVIOUS
  <1>1. FInv
    BY InitAInv, InitFill DEF FInv
  <1>2. ListsOK
    BY EmptyElements DEF Init, ListsOK
  <1>3. ReaderHolds /\ WriterHolds /\ SubmitterHolds /\ FreshOK /\ fault = "none"
    BY DEF Init, ReaderHolds, WriterHolds, SubmitterHolds, FreshOK, Holding, Submitting
  <1> QED
    BY <1>1, <1>2, <1>3 DEF RInv, RaceOK

LEMMA NextRace == RInv /\ [Next]_vars => RInv'
  <1> SUFFICES ASSUME RInv, [Next]_vars PROVE RInv'
    OBVIOUS
  <1>1. FInv'
    BY NextFill DEF RInv
  <1>2. CASE UNCHANGED vars
    <2>1. UNCHANGED <<Present, fault, urbr, urbr_seq, irp, Cancel, submit, reader, writer,
                      canceller, urbr_sent_partial, head_urbr, head_urbr_pending, head_urbr_sent>>
      BY <1>2 DEF vars, lists, partial, urbs, irps, threads
    <2>2. RaceOK => RaceOK'
      BY <2>1 DEF RaceOK, ListsOK, ReaderHolds, WriterHolds, SubmitterHolds, Pending, Live
    <2>3. FreshOK' /\ (~Raced' => ~Raced)
      BY <2>1 DEF RInv, FreshOK, Raced
    <2> QED
      BY <1>1, <2>1, <2>2, <2>3 DEF RInv
  <1>3. CASE Next
    <2>1. FreshOK'
      BY <1>3, EndsStay DEF RInv, FInv, AInv
    <2> SUFFICES ASSUME ~Raced' PROVE fault' = "none" /\ RaceOK'
      BY <1>1, <2>1 DEF RInv
    <2>2. ~Raced /\ AInv /\ Calm /\ FillOK /\ RaceOK
      BY RacedStays DEF RInv, FInv, AInv, Calm, Raced
    <2>3. fault' = "none" => Calm' /\ FillOK'
      BY <1>1 DEF FInv, Calm, Raced
    <2>4. ASSUME NEW u \in Urb, Bus_Internal_IoCtl(u) \/ Submit(u)
          PROVE  fault' = "none" /\ RaceOK'
      BY <2>2, <2>3, <2>4, NoFaultSubmit, SubmitKeeps
    <2>5. ASSUME NEW r \in Reader, Read(r)
          PROVE  fault' = "none" /\ RaceOK'
      BY <2>2, <2>3, <2>5, NoFaultRead, ReadKeeps
    <2>6. ASSUME NEW n \in SeqNum, Write(n)
          PROVE  fault' = "none" /\ RaceOK'
      BY <2>2, <2>3, <2>6, NoFaultWrite, WriteKeepsRace
    <2>7. ASSUME NEW u \in Urb, IoCancelIrp(u) \/ CancelRoutine(u)
          PROVE  fault' = "none" /\ RaceOK'
      BY <2>2, <2>7, CancelKeeps DEF Calm
    <2>8. ~bus_unplug_dev /\ ~Unplug
      BY <2>2 DEF Raced, FillOK, ReadsOK, Unplug, bus_unplug_dev, complete_pending_read_irp,
                  UnplugEndRead, UnplugTake, UnplugEndUrb, UnplugReset
    <2> QED
      BY <1>3, <2>4, <2>5, <2>6, <2>7, <2>8 DEF Next
  <1> QED
    BY <1>2, <1>3

(* Unless the device is unplugged, reads overlap, a cancel routine runs or *)
(* a request is refused by store_urbr, no interleaving of submissions,     *)
(* reads and writes uses freed memory, completes an IRP twice or corrupts  *)
(* a list (usbreq.c:136-210, vhci_read.c:579-633, vhci_write.c:296-334).   *)
THEOREM FaultsNeedRaces == Spec => []FaultNeedsRace
  <1>1. RInv => FaultNeedsRace
    BY DEF RInv, Raced, FaultNeedsRace
  <1> QED
    BY <1>1, InitRInv, NextRace, PTL DEF Spec

=============================================================================
