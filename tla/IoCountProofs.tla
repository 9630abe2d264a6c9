---------------------------- MODULE IoCountProofs ----------------------------
(***************************************************************************)
(* What holds of IoCount for any number of requests and of PnP IRPs.       *)
(*                                                                         *)
(* The argument: the count is exact (CountExact), so it can fall to 0 only *)
(* once REMOVE_DEVICE has given the bias back and no thread holds a count; *)
(* a thread that processes a request holds one; so when the count falls to *)
(* 0 no request is being processed.  Those counted later find the device   *)
(* Deleted, except power IRPs that looked before: they are in late.        *)
(***************************************************************************)
EXTENDS IoCount, FiniteSetTheorems, TLAPS

(* REMOVE_DEVICE has set the state Deleted and nothing changes it later.   *)
Removing ==
    \/ pc[pnp] \in {"remove", "remove_bias", "wait_remove", "deleted"}
    \/ pc[pnp] \in Setting /\ ret[pnp] \in {"remove_bias", "wait_remove"}

(* The places of the two kinds of threads, and where an event operation    *)
(* returns to.                                                             *)
RequestPlace == {"idle", "found", "clear", "check", "work", "refused", "set_stop",
                 "set_remove", "done", "leaked"}
PnPPlace == {"idle", "clear", "handle", "end", "stopped", "remove", "set_stop",
             "set_remove", "wait_stop", "stop_passed", "remove_bias",
             "wait_remove", "deleted"}

PlacesOK ==
    /\ \A q \in Request :
          /\ pc[q] \in RequestPlace
          /\ pc[q] = "found" => q \in Power
          /\ pc[q] = "clear" => ret[q] \in {"check", "work"}
          /\ pc[q] \in Setting => ret[q] = "done"
    /\ pc[pnp] \in PnPPlace
    /\ pc[pnp] = "clear" => ret[pnp] \in {"handle", "stopped"}
    /\ pc[pnp] \in Setting => ret[pnp] \in {"idle", "wait_stop", "remove_bias", "wait_remove"}

DeletedOK ==
    /\ DevicePnPState = "Deleted" <=> Removing
    /\ PreviousPnPState # "Deleted"

(* A request that is being processed, or will be when its thread has reset *)
(* StopEvent.                                                              *)
Working(q) == pc[q] = "work" \/ (pc[q] = "clear" /\ ret[q] = "work")

SignalOK ==
    Drained => /\ Bias = 0
               /\ \A q \in Request : Working(q) => q \in late

IInv == TypeOK /\ PlacesOK /\ DeletedOK /\ CountExact /\ SignalOK

-----------------------------------------------------------------------------

LEMMA ThreadFinite == IsFiniteSet(Thread) /\ pnp \in Thread /\ Request \subseteq Thread
  BY IoAssumption, FS_AddElement DEF Thread

(* IInv contains the invariants that the runs check.                       *)
LEMMA IInvImplies == IInv => CountAsserted /\ RemoveWaitsForWork
  <1> SUFFICES ASSUME IInv PROVE CountAsserted /\ RemoveWaitsForWork
    OBVIOUS
  <1>1. IsFiniteSet(Counted)
    BY ThreadFinite, FS_Subset DEF Counted
  <1>2. Cardinality(Counted) \in Nat
    BY <1>1, FS_CardinalityType
  <1>3. CountAsserted
    BY <1>2 DEF CountAsserted, IInv, CountExact, Bias, DeletedOK, Removing
  <1>4. RemoveWaitsForWork
    BY DEF RemoveWaitsForWork, IInv, SignalOK, Drained, Working
  <1> QED
    BY <1>3, <1>4

-----------------------------------------------------------------------------
(* How a step of one thread changes the set of counted threads             *)

HoldsCount(place) == place \in Holding \cup {"leaked"}

LEMMA CountedFinite == IsFiniteSet(Counted) /\ Cardinality(Counted) \in Nat
  BY ThreadFinite, FS_Subset, FS_CardinalityType DEF Counted

LEMMA CountedUp ==
  ASSUME TypeOK, NEW t \in Thread, NEW place, pc' = [pc EXCEPT ![t] = place],
         ~HoldsCount(pc[t]), HoldsCount(place)
  PROVE  Cardinality(Counted') = Cardinality(Counted) + 1
  <1>1. Counted' = Counted \cup {t} /\ t \notin Counted
    BY DEF Counted, HoldsCount, TypeOK
  <1> QED
    BY <1>1, CountedFinite, FS_AddElement

LEMMA CountedDown ==
  ASSUME TypeOK, NEW t \in Thread, NEW place, pc' = [pc EXCEPT ![t] = place],
         HoldsCount(pc[t]), ~HoldsCount(place)
  PROVE  Cardinality(Counted') = Cardinality(Counted) - 1
  <1>1. Counted' = Counted \ {t} /\ t \in Counted
    BY DEF Counted, HoldsCount, TypeOK
  <1> QED
    BY <1>1, CountedFinite, FS_RemoveElement

LEMMA CountedSame ==
  ASSUME TypeOK, NEW t \in Thread, NEW place, pc' = [pc EXCEPT ![t] = place],
         HoldsCount(pc[t]) <=> HoldsCount(place)
  PROVE  Counted' = Counted
  BY DEF Counted, HoldsCount, TypeOK

(* What Bus_IncIoCount and Bus_DecIoCount do to the places and the count.  *)
LEMMA IncCounts ==
  ASSUME TypeOK, CountExact, NEW t \in Thread, NEW next \in Place,
         ~HoldsCount(pc[t]), HoldsCount(next), Bus_IncIoCount(t, next)
  PROVE  /\ OutstandingIO' \in Int
         /\ pc' \in [Thread -> Place] /\ ret' \in [Thread -> Place]
         /\ OutstandingIO' = Bias + Cardinality(Counted')
  <1>1. PICK place \in {"clear", next} : pc' = [pc EXCEPT ![t] = place]
    BY DEF Bus_IncIoCount, Call, Go
  <1>2. Cardinality(Counted') = Cardinality(Counted) + 1
    BY <1>1, CountedUp DEF HoldsCount, Holding
  <1>3. pc' \in [Thread -> Place] /\ ret' \in [Thread -> Place]
    BY DEF Bus_IncIoCount, Call, Go, TypeOK, Place, Holding
  <1>4. OutstandingIO' = Bias + Cardinality(Counted')
    BY <1>2, CountedFinite DEF Bus_IncIoCount, CountExact, Bias
  <1> QED
    BY <1>3, <1>4 DEF TypeOK, Bus_IncIoCount

LEMMA DecCounts ==
  ASSUME TypeOK, CountExact, NEW t \in Thread, NEW next \in Place,
         HoldsCount(pc[t]), ~HoldsCount(next), Bus_DecIoCount(t, next)
  PROVE  /\ OutstandingIO' \in Int
         /\ pc' \in [Thread -> Place] /\ ret' \in [Thread -> Place]
         /\ OutstandingIO' = Bias + Cardinality(Counted')
  <1>1. PICK place \in {"set_stop", "set_remove", next} : pc' = [pc EXCEPT ![t] = place]
    BY DEF Bus_DecIoCount, Call, Go
  <1>2. Cardinality(Counted') = Cardinality(Counted) - 1
    BY <1>1, CountedDown DEF HoldsCount, Holding
  <1>3. pc' \in [Thread -> Place] /\ ret' \in [Thread -> Place]
    BY DEF Bus_DecIoCount, Call, Go, TypeOK, Place, Setting
  <1>4. OutstandingIO' = Bias + Cardinality(Counted')
    BY <1>2, CountedFinite DEF Bus_DecIoCount, CountExact, Bias
  <1> QED
    BY <1>3, <1>4 DEF TypeOK, Bus_DecIoCount

(* While a thread holds a count, the count is above the bias; it is just   *)
(* above it only if no other thread holds one.                             *)
LEMMA HolderCounts ==
  ASSUME TypeOK, CountExact, NEW t \in Thread, HoldsCount(pc[t])
  PROVE  /\ OutstandingIO >= Bias + 1
         /\ OutstandingIO = Bias + 1 => \A s \in Thread \ {t} : ~HoldsCount(pc[s])
  <1>1. t \in Counted
    BY DEF Counted, HoldsCount
  <1>2. Cardinality(Counted) # 0
    BY <1>1, CountedFinite, FS_EmptySet
  <1>3. ASSUME Cardinality(Counted) = 1 PROVE \A s \in Thread \ {t} : ~HoldsCount(pc[s])
    <2>2. Counted = {t}
      BY <1>1, <1>3, CountedFinite, FS_Singleton
    <2> QED
      BY <2>2 DEF Counted, HoldsCount
  <1> QED
    BY <1>2, <1>3, CountedFinite DEF CountExact, Bias

-----------------------------------------------------------------------------
(* The initial states and the steps                                        *)

LEMMA InitIInv == Init => IInv
  <1> SUFFICES ASSUME Init PROVE IInv
    OBVIOUS
  <1>1. TypeOK
    <2>1. pc \in [Thread -> Place] /\ ret \in [Thread -> Place]
      BY DEF Init, Place
    <2>2. sent \in 0 .. MaxPnp
      BY IoAssumption DEF Init
    <2>3. StopEvent \in BOOLEAN /\ RemoveEvent \in BOOLEAN
      BY DEF Init
    <2>4. OutstandingIO \in Int /\ existing \subseteq Request /\ late \subseteq Power
      BY DEF Init
    <2>5. DevicePnPState \in PnPState /\ PreviousPnPState \in PnPState /\ minor \in Minor
      BY DEF Init, PnPState, Minor
    <2> QED
      BY <2>1, <2>2, <2>3, <2>4, <2>5 DEF TypeOK
  <1>2. PlacesOK /\ DeletedOK
    BY ThreadFinite DEF Init, PlacesOK, DeletedOK, Removing, RequestPlace, PnPPlace, Setting
  <1>3. Counted = {}
    BY DEF Init, Counted, Holding
  <1>4. CountExact
    BY <1>3, FS_EmptySet, ThreadFinite DEF Init, CountExact, Bias, Setting
  <1>5. SignalOK
    BY ThreadFinite DEF Init, SignalOK, Drained
  <1> QED
    BY <1>1, <1>2, <1>4, <1>5 DEF IInv

(* A request is counted, and found in time or too late for the device.     *)
LEMMA RequestStep ==
  ASSUME IInv, NEW q \in Request,
         Dispatch(q) \/ CheckDeleted(q) \/ Bus_Power(q) \/ Bus_FDO_Power(q) \/ Finish(q)
  PROVE  IInv'
  <1> USE DEF IInv
  <1>0. q \in Thread /\ pnp \in Thread /\ q # pnp
    BY ThreadFinite, IoAssumption
  <1>a. pc'[pnp] = pc[pnp] /\ ret'[pnp] = ret[pnp] /\ UNCHANGED state
    BY <1>0 DEF Dispatch, CheckDeleted, Bus_Power, Bus_FDO_Power, Finish, Bus_IncIoCount,
                Bus_DecIoCount, Call, Go, TypeOK
  <1>b. DeletedOK' /\ Bias' = Bias
    BY <1>a DEF DeletedOK, Removing, Bias, state
  <1>1. CASE Dispatch(q)
    <2>1. TypeOK' /\ CountExact'
      BY <1>0, <1>1, <1>b, IncCounts DEF Dispatch, TypeOK, HoldsCount, Place, Holding, Setting,
                                      CountExact, state, irps
    <2>2. PlacesOK'
      BY <1>0, <1>1, <1>a, ThreadFinite DEF Dispatch, Bus_IncIoCount, Call, Go, TypeOK, PlacesOK,
                                            RequestPlace, Setting, state
    <2>3. SignalOK'
      BY <1>0, <1>1, <1>a, <1>b, ThreadFinite
         DEF Dispatch, Bus_IncIoCount, Call, Go, TypeOK, SignalOK, Drained, Working, state, irps
    <2> QED
      BY <2>1, <2>2, <2>3, <1>b
  <1>2. CASE CheckDeleted(q)
    <2>1. TypeOK'
      BY <1>0, <1>2 DEF CheckDeleted, Go, TypeOK, Place, Holding, state, irps
    <2>2. CountExact'
      BY <1>0, <1>2, <1>b, CountedSame
         DEF CheckDeleted, Go, HoldsCount, Holding, CountExact
    <2>3. PlacesOK'
      BY <1>0, <1>2, <1>a, ThreadFinite
         DEF CheckDeleted, Go, TypeOK, PlacesOK, RequestPlace, Setting, state
    <2>4. SignalOK'
      <3>1. Drained' => Drained
        BY <1>0, <1>2, <1>a, ThreadFinite DEF CheckDeleted, Go, TypeOK, Drained
      <3>2. Bias = 0 => DevicePnPState = "Deleted"
        BY DEF Bias, DeletedOK, Removing
      <3> QED
        BY <1>0, <1>2, <1>b, <3>1, <3>2, ThreadFinite
           DEF CheckDeleted, Go, TypeOK, SignalOK, Working, irps
    <2> QED
      BY <2>1, <2>2, <2>3, <2>4, <1>b
  <1>3. CASE Bus_Power(q)
    <2>1. TypeOK'
      BY <1>0, <1>3 DEF Bus_Power, Go, TypeOK, Place, state, irps
    <2>2. CountExact'
      BY <1>0, <1>3, <1>b, CountedSame DEF Bus_Power, Go, HoldsCount, Holding, CountExact
    <2>3. PlacesOK'
      BY <1>0, <1>3, <1>a, ThreadFinite
         DEF Bus_Power, Go, TypeOK, PlacesOK, RequestPlace, Setting, state
    <2>4. SignalOK'
      BY <1>0, <1>3, <1>a, <1>b, ThreadFinite
         DEF Bus_Power, Go, TypeOK, SignalOK, Drained, Working, irps
    <2> QED
      BY <2>1, <2>2, <2>3, <2>4, <1>b
  <1>4. CASE Bus_FDO_Power(q)
    <2>1. TypeOK' /\ CountExact'
      <3>1. q \in Power /\ late' \subseteq Power
        BY <1>4 DEF Bus_FDO_Power, PlacesOK, TypeOK
      <3> QED
        BY <1>0, <1>4, <1>b, <3>1, IncCounts
           DEF Bus_FDO_Power, TypeOK, HoldsCount, Place, Holding, Setting, CountExact, state
    <2>2. PlacesOK'
      BY <1>0, <1>4, <1>a, ThreadFinite DEF Bus_FDO_Power, Bus_IncIoCount, Call, Go, TypeOK,
                                            PlacesOK, RequestPlace, Setting, state
    <2>3. SignalOK'
      <3>1. Drained' <=> Drained
        BY <1>0, <1>4, <1>a, ThreadFinite
           DEF Bus_FDO_Power, Bus_IncIoCount, Call, Go, TypeOK, Drained
      <3> QED
        BY <1>0, <1>4, <1>a, <1>b, <3>1, ThreadFinite
           DEF Bus_FDO_Power, Bus_IncIoCount, Call, Go, TypeOK, SignalOK, Working
    <2> QED
      BY <2>1, <2>2, <2>3, <1>b
  <1>5. CASE Finish(q)
    <2>1. TypeOK' /\ CountExact'
      BY <1>0, <1>5, <1>b, DecCounts DEF Finish, TypeOK, HoldsCount, Place, Holding, Setting,
                                      CountExact, state, irps
    <2>2. PlacesOK'
      BY <1>0, <1>5, <1>a, ThreadFinite DEF Finish, Bus_DecIoCount, Call, Go, TypeOK, PlacesOK,
                                            RequestPlace, Setting, state
    <2>3. SignalOK'
      <3>1. OutstandingIO >= Bias + 1
            /\ (OutstandingIO = Bias + 1 => \A s \in Thread \ {q} : ~HoldsCount(pc[s]))
        BY <1>0, <1>5, HolderCounts DEF Finish, HoldsCount, Holding
      <3>2. CASE OutstandingIO = 1
        <4>1. Bias = 0 /\ \A s \in Thread \ {q} : ~HoldsCount(pc[s])
          BY <3>1, <3>2 DEF Bias
        <4> QED
          BY <1>0, <1>5, <1>b, <4>1, ThreadFinite
             DEF Finish, Bus_DecIoCount, Call, Go, TypeOK, SignalOK, Working, HoldsCount, Holding
      <3>3. CASE OutstandingIO # 1
        BY <1>0, <1>5, <1>a, <1>b, <3>3, ThreadFinite
           DEF Finish, Bus_DecIoCount, Call, Go, TypeOK, SignalOK, Drained, Working, irps
      <3> QED
        BY <3>2, <3>3
    <2> QED
      BY <2>1, <2>2, <2>3, <1>b
  <1> QED
    BY <1>1, <1>2, <1>3, <1>4, <1>5

(* A thread sets or resets the event it stood at.                          *)
LEMMA EventStep ==
  ASSUME IInv, NEW t \in Thread, Event(t)
  PROVE  IInv'
  <1> USE DEF IInv
  <1>0. pnp \in Thread /\ pnp \notin Request /\ Request \subseteq Thread
        /\ (t \in Request \/ t = pnp)
    BY ThreadFinite, IoAssumption DEF Thread
  <1>a. /\ pc[t] \in {"clear", "set_stop", "set_remove"}
        /\ Go(t, ret[t])
        /\ UNCHANGED <<OutstandingIO, state, irps>>
    BY DEF Event, KeClearStopEvent, KeSetStopEvent, KeSetRemoveEvent
  <1>b. /\ ret[t] \in Place
        /\ (HoldsCount(pc[t]) <=> HoldsCount(ret[t]))
        /\ ret[t] \notin {"deleted", "found", "set_remove"} \cup Setting
        /\ pc[t] # "clear" => ret[t] # "work"
    BY <1>0, <1>a DEF PlacesOK, TypeOK, HoldsCount, Holding, Setting
  <1>1. TypeOK'
    <2>1. pc' \in [Thread -> Place] /\ ret' \in [Thread -> Place]
      BY <1>a, <1>b DEF Go, TypeOK
    <2>2. StopEvent' \in BOOLEAN /\ RemoveEvent' \in BOOLEAN
      BY DEF Event, KeClearStopEvent, KeSetStopEvent, KeSetRemoveEvent, TypeOK
    <2> QED
      BY <1>a, <2>1, <2>2 DEF TypeOK, state, irps
  <1>2. PlacesOK'
    BY <1>0, <1>a DEF Go, TypeOK, PlacesOK, RequestPlace, PnPPlace, Setting, state
  <1>3. Bias' = Bias
    BY <1>0, <1>a DEF Go, TypeOK, PlacesOK, Bias, Setting
  <1>4. DeletedOK'
    BY <1>0, <1>a DEF Go, TypeOK, PlacesOK, DeletedOK, Removing, Setting, state
  <1>5. CountExact'
    BY <1>a, <1>b, <1>3, CountedSame DEF Go, CountExact
  <1>6. SignalOK'
    <2>1. Drained' => Drained
      BY <1>0, <1>a, <1>b
         DEF Go, TypeOK, Drained, Event, KeClearStopEvent, KeSetStopEvent, KeSetRemoveEvent
    <2>2. ASSUME NEW q \in Request, Working(q)' PROVE Working(q)
      BY <1>0, <1>a, <1>b, <2>2 DEF Go, TypeOK, Working
    <2> QED
      BY <1>0, <1>a, <1>3, <2>1, <2>2 DEF SignalOK, irps
  <1> QED
    BY <1>1, <1>2, <1>3, <1>4, <1>5, <1>6

-----------------------------------------------------------------------------
(* The steps of the thread of the PnP IRPs                                 *)

(* A PnP IRP is counted, or counted again after the wait of STOP_DEVICE.   *)
LEMMA PnPIncStep ==
  ASSUME IInv, (\E m \in Minor : Bus_PnP(m)) \/ StopCountAgain
  PROVE  IInv'
  <1> USE DEF IInv
  <1>0. pnp \in Thread /\ pnp \notin Request /\ Request \subseteq Thread
    BY ThreadFinite, IoAssumption
  <1>a. PICK next \in {"handle", "stopped"} :
           /\ Bus_IncIoCount(pnp, next)
           /\ pc[pnp] \in {"idle", "stop_passed"}
           /\ UNCHANGED <<StopEvent, RemoveEvent, state, late>>
    BY DEF Bus_PnP, StopCountAgain, irps
  <1>1. TypeOK'
    <2>1. OutstandingIO' \in Int /\ pc' \in [Thread -> Place] /\ ret' \in [Thread -> Place]
      BY <1>0, <1>a, IncCounts DEF HoldsCount, Place, Holding
    <2>2. minor' \in Minor /\ sent' \in 0 .. MaxPnp /\ existing' \subseteq Request
      BY IoAssumption DEF Bus_PnP, StopCountAgain, TypeOK, irps
    <2> QED
      BY <1>a, <2>1, <2>2 DEF TypeOK, state
  <1>2. PlacesOK' /\ Bias' = Bias
    BY <1>0, <1>a DEF Bus_IncIoCount, Call, Go, TypeOK, PlacesOK, Bias, PnPPlace, Setting, state
  <1>3. DeletedOK'
    BY <1>0, <1>a DEF Bus_IncIoCount, Call, Go, TypeOK, DeletedOK, Removing, Setting, state
  <1>4. CountExact'
    BY <1>0, <1>a, <1>2, IncCounts DEF CountExact, HoldsCount, Place, Holding
  <1>5. SignalOK'
    <2>1. Drained' => Drained
      BY <1>0, <1>a DEF Bus_IncIoCount, Call, Go, TypeOK, Drained
    <2> QED
      BY <1>0, <1>a, <1>2, <2>1 DEF Bus_IncIoCount, Call, Go, TypeOK, SignalOK, Working
  <1> QED
    BY <1>1, <1>2, <1>3, <1>4, <1>5

(* The steps that change the device's state or end a wait, not the count.  *)
LEMMA PnPGoStep ==
  ASSUME IInv, ChangeState \/ StopWait \/ StopEnd \/ RemoveBegin \/ RemoveWait
  PROVE  IInv'
  <1> USE DEF IInv
  <1>0. pnp \in Thread /\ pnp \notin Request /\ Request \subseteq Thread
    BY ThreadFinite, IoAssumption
  <1>a. PICK next \in {"end", "stop_passed", "remove", "deleted"} : Go(pnp, next)
    BY DEF ChangeState, StopWait, StopEnd, RemoveBegin, RemoveWait
  <1>b. UNCHANGED <<OutstandingIO, irps>>
    BY DEF ChangeState, StopWait, StopEnd, RemoveBegin, RemoveWait
  <1>1. TypeOK'
    <2>1. pc' \in [Thread -> Place] /\ ret' \in [Thread -> Place]
      BY <1>a DEF Go, TypeOK, Place, Holding
    <2>2. StopEvent' \in BOOLEAN /\ RemoveEvent' \in BOOLEAN
      BY DEF ChangeState, StopWait, StopEnd, RemoveBegin, RemoveWait, TypeOK
    <2>3. DevicePnPState' \in PnPState /\ PreviousPnPState' \in PnPState
      BY DEF ChangeState, StopWait, StopEnd, RemoveBegin, RemoveWait, TypeOK, PnPState, state,
             SET_NEW_PNP_STATE, RESTORE_PREVIOUS_PNP_STATE
    <2> QED
      BY <1>b, <2>1, <2>2, <2>3 DEF TypeOK, irps
  <1>2. PlacesOK'
    BY <1>0, <1>a DEF Go, TypeOK, PlacesOK, PnPPlace, Setting
  <1>3. Bias' = Bias
    BY <1>0, <1>a DEF Go, TypeOK, Bias, Setting, ChangeState, StopWait, StopEnd, RemoveBegin,
                      RemoveWait
  <1>4. DeletedOK'
    <2>1. CASE ChangeState \/ StopEnd
      <3>1. ~Removing /\ ~Removing'
        BY <1>0, <2>1 DEF ChangeState, StopEnd, Go, TypeOK, Removing, Setting
      <3> QED
        BY <2>1, <3>1 DEF ChangeState, StopEnd, DeletedOK, SET_NEW_PNP_STATE,
                          RESTORE_PREVIOUS_PNP_STATE, state
    <2>2. CASE RemoveBegin
      BY <1>0, <2>2 DEF RemoveBegin, Go, TypeOK, DeletedOK, Removing, Setting, SET_NEW_PNP_STATE
    <2>3. CASE StopWait \/ RemoveWait
      BY <1>0, <2>3 DEF StopWait, RemoveWait, Go, TypeOK, DeletedOK, Removing, Setting, state
    <2> QED
      BY <2>1, <2>2, <2>3
  <1>5. CountExact'
    <2>1. Counted' = Counted
      <3>1. PICK place : Go(pnp, place) /\ (HoldsCount(pc[pnp]) <=> HoldsCount(place))
        BY DEF ChangeState, StopWait, StopEnd, RemoveBegin, RemoveWait, HoldsCount, Holding
      <3> QED
        BY <1>0, <3>1, CountedSame DEF Go
    <2> QED
      BY <1>b, <1>3, <2>1 DEF CountExact
  <1>6. SignalOK'
    <2>1. Drained' => Drained
      BY <1>0, <1>a DEF Go, TypeOK, Drained, ChangeState, StopWait, StopEnd, RemoveBegin,
                        RemoveWait
    <2> QED
      BY <1>0, <1>a, <1>b, <1>3, <2>1 DEF Go, TypeOK, SignalOK, Working, irps
  <1> QED
    BY <1>1, <1>2, <1>3, <1>4, <1>5, <1>6

(* The PnP IRP gives its own count back: the bias keeps the count above 0. *)
LEMMA PnPDecStep ==
  ASSUME IInv, EndPnP \/ StopBegin \/ RemoveOwn
  PROVE  IInv'
  <1> USE DEF IInv
  <1>0. pnp \in Thread /\ pnp \notin Request /\ Request \subseteq Thread
    BY ThreadFinite, IoAssumption
  <1>a. PICK next \in {"idle", "wait_stop", "remove_bias"} :
           /\ Bus_DecIoCount(pnp, next)
           /\ pc[pnp] \in {"end", "handle", "remove"}
           /\ pc[pnp] = "remove" <=> next = "remove_bias"
           /\ UNCHANGED <<StopEvent, RemoveEvent, state, late>>
    BY DEF EndPnP, StopBegin, RemoveOwn, irps
  <1>b. OutstandingIO >= 2
    BY <1>0, <1>a, HolderCounts DEF HoldsCount, Holding, Bias, Setting
  <1>1. TypeOK'
    <2>1. OutstandingIO' \in Int /\ pc' \in [Thread -> Place] /\ ret' \in [Thread -> Place]
      BY <1>0, <1>a, DecCounts DEF HoldsCount, Place, Holding
    <2>2. minor' \in Minor /\ sent' \in 0 .. MaxPnp /\ existing' \subseteq Request
      BY DEF EndPnP, StopBegin, RemoveOwn, TypeOK, irps, InProgress
    <2> QED
      BY <1>a, <2>1, <2>2 DEF TypeOK, state
  <1>2. PlacesOK' /\ Bias' = Bias
    BY <1>0, <1>a DEF Bus_DecIoCount, Call, Go, TypeOK, PlacesOK, Bias, PnPPlace, Setting, state
  <1>3. DeletedOK'
    BY <1>0, <1>a, <1>b DEF Bus_DecIoCount, Call, Go, TypeOK, DeletedOK, Removing, Setting, state
  <1>4. CountExact'
    BY <1>0, <1>a, <1>2, DecCounts DEF CountExact, HoldsCount, Place, Holding
  <1>5. SignalOK'
    <2>1. Drained' => Drained
      BY <1>0, <1>a, <1>b DEF Bus_DecIoCount, Call, Go, TypeOK, Drained
    <2> QED
      BY <1>0, <1>a, <1>2, <2>1 DEF Bus_DecIoCount, Call, Go, TypeOK, SignalOK, Working
  <1> QED
    BY <1>1, <1>2, <1>3, <1>4, <1>5

(* REMOVE_DEVICE gives the bias back, and holds no count of its own: the   *)
(* count falls to 0 only if no request holds one.                          *)
LEMMA RemoveBiasStep ==
  ASSUME IInv, RemoveBias
  PROVE  IInv'
  <1> USE DEF IInv
  <1>0. pnp \in Thread /\ pnp \notin Request /\ Request \subseteq Thread
    BY ThreadFinite, IoAssumption
  <1>a. PICK place \in {"set_stop", "set_remove", "wait_remove"} :
           /\ pc[pnp] = "remove_bias" /\ pc' = [pc EXCEPT ![pnp] = place]
           /\ place \in Setting => ret' = [ret EXCEPT ![pnp] = "wait_remove"]
           /\ place = "wait_remove" => UNCHANGED ret
           /\ place = "set_remove" => OutstandingIO = 1
           /\ OutstandingIO' = OutstandingIO - 1
           /\ UNCHANGED <<StopEvent, RemoveEvent, state, irps>>
    BY DEF RemoveBias, Bus_DecIoCount, Call, Go, Setting
  <1>b. Bias = 1 /\ Bias' = 0 /\ ~Drained
    BY <1>0, <1>a DEF Bias, Setting, TypeOK, SignalOK
  <1>1. TypeOK'
    BY <1>0, <1>a DEF TypeOK, Place, Setting, state, irps
  <1>2. PlacesOK'
    BY <1>0, <1>a DEF TypeOK, PlacesOK, PnPPlace, Setting
  <1>3. DeletedOK'
    BY <1>0, <1>a DEF TypeOK, DeletedOK, Removing, Setting, state
  <1>4. CountExact'
    <2>1. Counted' = Counted
      BY <1>0, <1>a, CountedSame DEF HoldsCount, Holding
    <2> QED
      BY <1>a, <1>b, <2>1, CountedFinite DEF CountExact
  <1>5. SignalOK'
    <2>1. CASE OutstandingIO = 1
      <3>1. Counted = {}
        BY <1>b, <2>1, CountedFinite, FS_EmptySet DEF CountExact
      <3> QED
        BY <1>0, <1>a, <1>b, <3>1 DEF TypeOK, SignalOK, Working, Counted, Holding
    <2>2. CASE OutstandingIO # 1
      BY <1>0, <1>a, <1>b, <2>2 DEF TypeOK, SignalOK, Drained, Working, Setting
    <2> QED
      BY <2>1, <2>2
  <1> QED
    BY <1>1, <1>2, <1>3, <1>4, <1>5

-----------------------------------------------------------------------------
(* IInv is inductive, and what follows                                     *)

LEMMA NextIInv == IInv /\ [Next]_vars => IInv'
  <1> SUFFICES ASSUME IInv, [Next]_vars PROVE IInv'
    OBVIOUS
  <1>1. CASE \E q \in Request : Dispatch(q) \/ Bus_Power(q) \/ Handler(q)
    BY <1>1, RequestStep, EventStep, ThreadFinite DEF Handler
  <1>2. CASE \E m \in Minor : Bus_PnP(m)
    BY <1>2, PnPIncStep
  <1>3. CASE PnP
    BY <1>3, PnPIncStep, PnPGoStep, PnPDecStep, RemoveBiasStep, EventStep, ThreadFinite DEF PnP
  <1>4. CASE UNCHANGED vars
    BY <1>4 DEF IInv, TypeOK, PlacesOK, DeletedOK, Removing, CountExact, Counted, Bias, SignalOK,
                Drained, Working, vars, state, irps
  <1> QED
    BY <1>1, <1>2, <1>3, <1>4 DEF Next

LEMMA Inductive == Spec => []IInv
  BY InitIInv, NextIInv, PTL DEF Spec

(* Every variable keeps its type; in particular the state that             *)
(* CANCEL_STOP or CANCEL_REMOVE restores is a device state (vhci.c,        *)
(* vhci_pnp.c).                                                            *)
THEOREM IoCountTyped == Spec => []TypeOK
  BY Inductive, PTL DEF IInv

(* OutstandingIO is, at every step of every thread, the bias plus the      *)
(* number of threads between Bus_IncIoCount and Bus_DecIoCount.            *)
THEOREM CountIsExact == Spec => []CountExact
  BY Inductive, PTL DEF IInv

(* The assertions of Bus_IncIoCount and Bus_DecIoCount hold.               *)
THEOREM CountAssertionsHold == Spec => []CountAsserted
  BY Inductive, IInvImplies, PTL

(* REMOVE_DEVICE deletes the device only after every request that found    *)
(* the bus not removed has given its count back, but for power IRPs, which *)
(* Bus_Power lets through before Bus_FDO_Power counts them: one that was   *)
(* counted after the count had fallen to 0 is not waited for.              *)
THEOREM RemoveIsSafe == Spec => []RemoveWaitsForWork
  BY Inductive, IInvImplies, PTL

-----------------------------------------------------------------------------
(* What CANCEL_STOP and CANCEL_REMOVE restore                              *)

(* An IRP that is handled was legal when it was sent, a pending state      *)
(* remembers the one it came from, and only STOP_DEVICE waits on StopEvent.*)
PendingOK ==
    /\ DevicePnPState = "StopPending" => PreviousPnPState = "Started"
    /\ DevicePnPState = "RemovePending" => PreviousPnPState \in {"Started", "Stopped"}
    /\ pc[pnp] = "handle" => Legal(minor)
    /\ pc[pnp] = "clear" /\ ret[pnp] = "handle" => Legal(minor)
    /\ pc[pnp] \in {"wait_stop", "stop_passed", "stopped"} => minor = "STOP"
    /\ pc[pnp] \in Setting /\ ret[pnp] = "wait_stop" => minor = "STOP"
    /\ pc[pnp] = "clear" /\ ret[pnp] = "stopped" => minor = "STOP"
    /\ CancelRestores

LEMMA InitPendingOK == Init => PendingOK
  BY ThreadFinite DEF Init, PendingOK, CancelRestores, Setting

LEMMA NextPendingOK == IInv /\ PendingOK /\ [Next]_vars => PendingOK'
  <1> SUFFICES ASSUME IInv, PendingOK, [Next]_vars PROVE PendingOK'
    OBVIOUS
  <1>0. pnp \in Thread /\ pnp \notin Request /\ pc \in [Thread -> Place]
        /\ ret \in [Thread -> Place]
    BY ThreadFinite, IoAssumption DEF IInv, TypeOK
  <1>a. ASSUME UNCHANGED <<state, minor>>, pc'[pnp] = pc[pnp], ret'[pnp] = ret[pnp]
        PROVE  PendingOK'
    BY <1>a DEF PendingOK, CancelRestores, Legal, state
  <1>1. CASE \E q \in Request : Dispatch(q) \/ Bus_Power(q) \/ Handler(q)
    <2>1. UNCHANGED <<state, minor>> /\ pc'[pnp] = pc[pnp] /\ ret'[pnp] = ret[pnp]
      BY <1>0, <1>1 DEF Dispatch, Bus_Power, Bus_FDO_Power, Handler, CheckDeleted, Finish, Event,
                        KeClearStopEvent, KeSetStopEvent, KeSetRemoveEvent, Bus_IncIoCount, Bus_DecIoCount, Call,
                        Go, irps
    <2> QED
      BY <1>a, <2>1
  <1>2. CASE \E m \in Minor : Bus_PnP(m)
    BY <1>0, <1>2 DEF Bus_PnP, Bus_IncIoCount, Call, Go, PendingOK, CancelRestores, Legal,
                      Setting, state
  <1>3. CASE ChangeState
    BY <1>0, <1>3 DEF ChangeState, Go, PendingOK, CancelRestores, Legal, Setting, state, irps,
                      SET_NEW_PNP_STATE, RESTORE_PREVIOUS_PNP_STATE
  <1>4. CASE EndPnP \/ StopBegin \/ RemoveOwn \/ RemoveBias
    BY <1>0, <1>4 DEF EndPnP, StopBegin, RemoveOwn, RemoveBias, Bus_DecIoCount, Call, Go,
                      PendingOK, CancelRestores, Setting, state, irps
  <1>5. CASE StopWait \/ StopCountAgain \/ RemoveWait
    BY <1>0, <1>5 DEF StopWait, StopCountAgain, RemoveWait, Bus_IncIoCount, Call, Go, PendingOK,
                      CancelRestores, Setting, state, irps
  <1>6. CASE StopEnd \/ RemoveBegin
    BY <1>0, <1>6 DEF StopEnd, RemoveBegin, Go, PendingOK, CancelRestores, Setting, irps,
                      SET_NEW_PNP_STATE
  <1>7. CASE Event(pnp)
    BY <1>0, <1>7 DEF Event, KeClearStopEvent, KeSetStopEvent, KeSetRemoveEvent, Go, IInv,
                      PlacesOK, PendingOK, CancelRestores, Legal, Setting, state, irps
  <1>8. CASE UNCHANGED vars
    BY <1>a, <1>8 DEF vars, irps
  <1> QED
    BY <1>1, <1>2, <1>3, <1>4, <1>5, <1>6, <1>7, <1>8 DEF Next, PnP

(* CANCEL_STOP leaves the device Started and CANCEL_REMOVE what            *)
(* QUERY_REMOVE found, for any sequence of PnP IRPs the manager may send.  *)
THEOREM CancelIsExact == Spec => []CancelRestores
  <1>1. PendingOK => CancelRestores
    BY DEF PendingOK
  <1> QED
    BY <1>1, InitPendingOK, NextPendingOK, Inductive, PTL DEF Spec

=============================================================================
