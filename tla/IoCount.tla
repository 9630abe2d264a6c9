------------------------------- MODULE IoCount -------------------------------
(***************************************************************************)
(* The count of outstanding I/O of the bus FDO, and the PnP IRPs that wait *)
(* for it: STOP_DEVICE waits on StopEvent for the requests in progress,    *)
(* REMOVE_DEVICE waits on RemoveEvent before it deletes the device.        *)
(*                                                                         *)
(* Bus_IncIoCount and Bus_DecIoCount are two steps each, the interlocked   *)
(* operation and what is done to an event when its result asks for it:     *)
(* other threads run between the two.                                      *)
(***************************************************************************)
EXTENDS Integers, FiniteSets

CONSTANTS
    Request,     \* the requests sent to the FDO, each handled by a thread of its own
    Handle,      \* those that open, clean up or close a handle
    Power,       \* those that are power IRPs
    pnp,         \* the thread that handles the PnP IRPs, one after the other
    MaxPnp       \* bound: how many PnP IRPs are sent before the last, REMOVE_DEVICE

ASSUME IoAssumption ==
    /\ IsFiniteSet(Request)
    /\ Handle \subseteq Request
    /\ Power \subseteq Request \ Handle
    /\ pnp \notin Request
    /\ MaxPnp \in Nat

Thread == Request \cup {pnp}

VARIABLES
    OutstandingIO, StopEvent, RemoveEvent,   \* FDO_DEVICE_DATA
    DevicePnPState, PreviousPnPState,
    pc,       \* where each thread stands
    ret,      \* where it goes on when Bus_IncIoCount or Bus_DecIoCount returns
    minor,    \* the PnP IRP being handled
    sent,     \* how many PnP IRPs were sent
    existing, \* the requests in progress when STOP_DEVICE began to wait
    late      \* the power IRPs that were counted after the count had fallen to 0

state == <<DevicePnPState, PreviousPnPState>>
irps  == <<minor, sent, existing, late>>
vars  == <<OutstandingIO, StopEvent, RemoveEvent, state, pc, ret, irps>>

-----------------------------------------------------------------------------

PnPState == {"NotStarted", "Started", "StopPending", "Stopped", "RemovePending",
             "SurpriseRemovePending", "Deleted"}
Minor == {"START", "QUERY_STOP", "CANCEL_STOP", "STOP", "QUERY_REMOVE",
          "CANCEL_REMOVE", "SURPRISE_REMOVAL", "REMOVE"}

(* A thread that has been counted and has not given its count back         *)
Holding == {"clear", "check", "work", "refused", "handle", "stopped", "end",
            "remove"}
(* A thread past its decrement that has still to set an event              *)
Setting == {"set_stop", "set_remove"}
Place == Holding \cup Setting \cup
         {"idle", "found", "done", "leaked", "wait_stop", "stop_passed", "remove_bias",
          "wait_remove", "deleted"}

TypeOK ==
    /\ OutstandingIO \in Int
    /\ StopEvent \in BOOLEAN
    /\ RemoveEvent \in BOOLEAN
    /\ DevicePnPState \in PnPState
    /\ PreviousPnPState \in PnPState
    /\ pc \in [Thread -> Place]
    /\ ret \in [Thread -> Place]
    /\ minor \in Minor
    /\ sent \in 0 .. MaxPnp
    /\ existing \subseteq Request
    /\ late \subseteq Power

(* The count is 1-biased.                                                  *)
Init ==
    /\ OutstandingIO = 1
    /\ StopEvent = TRUE
    /\ RemoveEvent = FALSE
    /\ DevicePnPState = "NotStarted"
    /\ PreviousPnPState = "NotStarted"
    /\ pc = [t \in Thread |-> "idle"]
    /\ ret = [t \in Thread |-> "idle"]
    /\ minor = "START"
    /\ sent = 0
    /\ existing = {}
    /\ late = {}

-----------------------------------------------------------------------------
(* Bus_IncIoCount and Bus_DecIoCount                                       *)

Go(t, place) == pc' = [pc EXCEPT ![t] = place] /\ UNCHANGED ret

Call(t, place, next) ==
    /\ pc' = [pc EXCEPT ![t] = place]
    /\ ret' = [ret EXCEPT ![t] = next]

Bus_IncIoCount(t, next) ==
    /\ OutstandingIO' = OutstandingIO + 1
    /\ IF OutstandingIO + 1 = 2 THEN Call(t, "clear", next) ELSE Go(t, next)

KeClearStopEvent(t) ==
    /\ pc[t] = "clear"
    /\ StopEvent' = FALSE
    /\ Go(t, ret[t])
    /\ UNCHANGED <<OutstandingIO, RemoveEvent, state, irps>>

(* Mutant of Bus_DecIoCount: the last decrement signals one request early. *)
DecEarly(t, next) ==
    /\ OutstandingIO' = OutstandingIO - 1
    /\ CASE OutstandingIO = 3 -> Call(t, "set_stop", next)
         [] OutstandingIO \in {1, 2} -> Call(t, "set_remove", next)
         [] OTHER -> Go(t, next)

(* Mutant of Bus_DecIoCount: it sets no event.                             *)
DecSilent(t, next) == OutstandingIO' = OutstandingIO - 1 /\ Go(t, next)

(* Mutant of Bus_DecIoCount: a thread that signals returns its count twice.*)
DecTwice(t, next) ==
    /\ OutstandingIO' = IF OutstandingIO = 2 THEN 0 ELSE OutstandingIO - 1
    /\ IF OutstandingIO = 2 THEN Call(t, "set_stop", next) ELSE Go(t, next)

Bus_DecIoCount(t, next) ==
    /\ OutstandingIO' = OutstandingIO - 1
    /\ CASE OutstandingIO = 2 -> Call(t, "set_stop", next)
         [] OutstandingIO = 1 -> Call(t, "set_remove", next)
         [] OTHER -> Go(t, next)

KeSetStopEvent(t) ==
    /\ pc[t] = "set_stop"
    /\ StopEvent' = TRUE
    /\ Go(t, ret[t])
    /\ UNCHANGED <<OutstandingIO, RemoveEvent, state, irps>>

KeSetRemoveEvent(t) ==
    /\ pc[t] = "set_remove"
    /\ RemoveEvent' = TRUE
    /\ Go(t, ret[t])
    /\ UNCHANGED <<OutstandingIO, StopEvent, state, irps>>

-----------------------------------------------------------------------------
(* The requests: Bus_Create, Bus_Cleanup, Bus_Close, Bus_Read, Bus_Write,  *)
(* Bus_IoCtl and Bus_SystemControl                                         *)

(* Nothing is sent to a device that was deleted.                           *)
Dispatch(q) ==
    /\ q \notin Power
    /\ pc[q] = "idle"
    /\ pc[pnp] # "deleted"
    /\ Bus_IncIoCount(q, "check")
    /\ UNCHANGED <<StopEvent, RemoveEvent, state, irps>>

(* The handler has counted the request and looks whether the bus is        *)
(* removed.  Bus_Create, Bus_Cleanup and Bus_Close then return at once,    *)
(* without Bus_DecIoCount.                                                 *)
CheckDeleted(q) ==
    /\ pc[q] = "check"
    /\ Go(q, IF DevicePnPState # "Deleted" THEN "work"
             ELSE IF q \in Handle THEN "leaked" ELSE "refused")
    /\ UNCHANGED <<OutstandingIO, StopEvent, RemoveEvent, state, irps>>

(* A power IRP goes the other way round: Bus_Power looks whether the bus   *)
(* is removed, and completes the IRP if so, before Bus_FDO_Power counts it *)
(* and passes it down.                                                     *)
Bus_Power(q) ==
    /\ q \in Power
    /\ pc[q] = "idle"
    /\ pc[pnp] # "deleted"
    /\ Go(q, IF DevicePnPState = "Deleted" THEN "done" ELSE "found")
    /\ UNCHANGED <<OutstandingIO, StopEvent, RemoveEvent, state, irps>>

(* The count has fallen to 0: RemoveEvent is set, about to be, or was.     *)
Drained == RemoveEvent \/ pc[pnp] = "deleted" \/ \E t \in Thread : pc[t] = "set_remove"

Bus_FDO_Power(q) ==
    /\ pc[q] = "found"
    /\ late' = IF Drained THEN late \cup {q} ELSE late
    /\ Bus_IncIoCount(q, "work")
    /\ UNCHANGED <<StopEvent, RemoveEvent, state, minor, sent, existing>>

Finish(q) ==
    /\ pc[q] \in {"work", "refused"}
    /\ Bus_DecIoCount(q, "done")
    /\ UNCHANGED <<StopEvent, RemoveEvent, state, irps>>

-----------------------------------------------------------------------------
(* The PnP IRPs of the FDO.  The PnP manager sends one at a time, in the   *)
(* order its device states allow.  REMOVE finds Started when START failed   *)
(* after Bus_StartFdo had set the state (Bus_WmiRegistration).             *)

Legal(m) ==
    CASE m = "START"            -> DevicePnPState \in {"NotStarted", "Stopped"}
      [] m = "QUERY_STOP"       -> DevicePnPState = "Started"
      [] m \in {"CANCEL_STOP", "STOP"} -> DevicePnPState = "StopPending"
      [] m = "QUERY_REMOVE"     -> DevicePnPState \in {"Started", "Stopped"}
      [] m = "CANCEL_REMOVE"    -> DevicePnPState = "RemovePending"
      [] m = "SURPRISE_REMOVAL" -> DevicePnPState \in {"Started", "Stopped"}
      [] m = "REMOVE"           -> DevicePnPState \in {"NotStarted", "Started", "RemovePending",
                                                       "SurpriseRemovePending"}

(* Bus_PnP lets the IRP through, as the state is not Deleted, and          *)
(* Bus_FDO_PnP counts it.                                                  *)
Bus_PnP(m) ==
    /\ pc[pnp] = "idle"
    /\ DevicePnPState # "Deleted"
    /\ Legal(m)
    /\ m # "REMOVE" => sent < MaxPnp
    /\ sent' = IF m = "REMOVE" THEN sent ELSE sent + 1
    /\ minor' = m
    /\ Bus_IncIoCount(pnp, "handle")
    /\ UNCHANGED <<StopEvent, RemoveEvent, state, existing, late>>

(* Mutants of SET_NEW_PNP_STATE: a PNP_DEVICE_STATE flag is stored instead *)
(* of a DEVICE_PNP_STATE; the previous state is not kept.                  *)
SetFlag(s) == PreviousPnPState' = DevicePnPState /\ DevicePnPState' = "PNP_DEVICE_REMOVED"

SetWithoutSaving(s) == DevicePnPState' = s /\ UNCHANGED PreviousPnPState

SET_NEW_PNP_STATE(s) == PreviousPnPState' = DevicePnPState /\ DevicePnPState' = s

RESTORE_PREVIOUS_PNP_STATE ==
    DevicePnPState' = PreviousPnPState /\ UNCHANGED PreviousPnPState

(* The IRPs that only change the state.  A START that fails below the FDO  *)
(* leaves it.                                                              *)
ChangeState ==
    /\ pc[pnp] = "handle"
    /\ \/ minor = "START" /\ SET_NEW_PNP_STATE("Started")
       \/ minor = "START" /\ UNCHANGED state
       \/ minor = "QUERY_STOP" /\ SET_NEW_PNP_STATE("StopPending")
       \/ minor = "CANCEL_STOP" /\ RESTORE_PREVIOUS_PNP_STATE
       \/ minor = "QUERY_REMOVE" /\ SET_NEW_PNP_STATE("RemovePending")
       \/ minor = "CANCEL_REMOVE" /\ RESTORE_PREVIOUS_PNP_STATE
       \/ minor = "SURPRISE_REMOVAL" /\ SET_NEW_PNP_STATE("SurpriseRemovePending")
    /\ Go(pnp, "end")
    /\ UNCHANGED <<OutstandingIO, StopEvent, RemoveEvent, irps>>

EndPnP ==
    /\ pc[pnp] = "end"
    /\ Bus_DecIoCount(pnp, "idle")
    /\ UNCHANGED <<StopEvent, RemoveEvent, state, irps>>

InProgress == {q \in Request : pc[q] \in Holding}

(* STOP_DEVICE gives its own count back and waits for the others.          *)
StopBegin ==
    /\ pc[pnp] = "handle" /\ minor = "STOP"
    /\ existing' = InProgress
    /\ Bus_DecIoCount(pnp, "wait_stop")
    /\ UNCHANGED <<StopEvent, RemoveEvent, state, minor, sent, late>>

(* StopEvent is a synchronization event: the wait resets it.               *)
StopWait ==
    /\ pc[pnp] = "wait_stop"
    /\ StopEvent
    /\ StopEvent' = FALSE
    /\ Go(pnp, "stop_passed")
    /\ UNCHANGED <<OutstandingIO, RemoveEvent, state, irps>>

StopCountAgain ==
    /\ pc[pnp] = "stop_passed"
    /\ Bus_IncIoCount(pnp, "stopped")
    /\ UNCHANGED <<StopEvent, RemoveEvent, state, irps>>

StopEnd ==
    /\ pc[pnp] = "stopped"
    /\ SET_NEW_PNP_STATE("Stopped")
    /\ Go(pnp, "end")
    /\ UNCHANGED <<OutstandingIO, StopEvent, RemoveEvent, irps>>

(* REMOVE_DEVICE decrements twice, for itself and for the bias.            *)
RemoveBegin ==
    /\ pc[pnp] = "handle" /\ minor = "REMOVE"
    /\ SET_NEW_PNP_STATE("Deleted")
    /\ Go(pnp, "remove")
    /\ UNCHANGED <<OutstandingIO, StopEvent, RemoveEvent, irps>>

RemoveOwn ==
    /\ pc[pnp] = "remove"
    /\ Bus_DecIoCount(pnp, "remove_bias")
    /\ UNCHANGED <<StopEvent, RemoveEvent, state, irps>>

RemoveBias ==
    /\ pc[pnp] = "remove_bias"
    /\ Bus_DecIoCount(pnp, "wait_remove")
    /\ UNCHANGED <<StopEvent, RemoveEvent, state, irps>>

(* The wait is over: the children are destroyed and the device is deleted. *)
RemoveWait ==
    /\ pc[pnp] = "wait_remove"
    /\ RemoveEvent
    /\ RemoveEvent' = FALSE
    /\ Go(pnp, "deleted")
    /\ UNCHANGED <<OutstandingIO, StopEvent, state, irps>>

-----------------------------------------------------------------------------

Event(t) == KeClearStopEvent(t) \/ KeSetStopEvent(t) \/ KeSetRemoveEvent(t)

Handler(q) == CheckDeleted(q) \/ Bus_FDO_Power(q) \/ Finish(q) \/ Event(q)

PnP ==
    \/ ChangeState \/ EndPnP \/ StopBegin \/ StopWait \/ StopCountAgain \/ StopEnd
    \/ RemoveBegin \/ RemoveOwn \/ RemoveBias \/ RemoveWait \/ Event(pnp)

Next ==
    \/ \E q \in Request : Dispatch(q) \/ Bus_Power(q) \/ Handler(q)
    \/ \E m \in Minor : Bus_PnP(m)
    \/ PnP

Spec == Init /\ [][Next]_vars

(* A handler that runs is scheduled; no request and no PnP IRP has to come.*)
FairSpec ==
    /\ Spec
    /\ \A q \in Request : WF_vars(Handler(q))
    /\ WF_vars(PnP)

-----------------------------------------------------------------------------
(* Properties                                                              *)

Bias ==
    IF \/ pc[pnp] \in {"wait_remove", "deleted"}
       \/ pc[pnp] \in Setting /\ ret[pnp] = "wait_remove"
    THEN 0 ELSE 1

Counted == {t \in Thread : pc[t] \in Holding \cup {"leaked"}}

(* OutstandingIO is 1-biased until REMOVE_DEVICE gives the bias back, and  *)
(* counts the threads in progress and those that never gave theirs back.   *)
CountExact == OutstandingIO = Bias + Cardinality(Counted)

(* The three assertions of Bus_IncIoCount and Bus_DecIoCount: the count is *)
(* never negative, and it falls to 0 only in a device that is Deleted      *)
(* (vhci.c:255, 274, 295).                                                 *)
CountAsserted ==
    /\ OutstandingIO >= 0
    /\ OutstandingIO = 0 => DevicePnPState = "Deleted"

(* Once REMOVE_DEVICE has passed its wait, no request is being processed,  *)
(* however the requests and the removal interleave: REMOVE_DEVICE waited   *)
(* for every request that had found the bus not removed, except for a      *)
(* power IRP which had, and was counted only after the count fell to 0     *)
(* (vhci_power.c:183 looks before vhci_power.c:36 counts).                 *)
RemoveWaitsForWork ==
    pc[pnp] = "deleted" => \A q \in Request : pc[q] = "work" => q \in late

(* The wait of STOP_DEVICE ends, as no signal of StopEvent is lost.        *)
StopEnds == pc[pnp] = "wait_stop" ~> pc[pnp] # "wait_stop"

(* REMOVE_DEVICE deletes the device, unless a create, cleanup or close     *)
(* found the device Deleted and kept its count.                            *)
RemoveEndsUnlessLeaked ==
    minor = "REMOVE" /\ pc[pnp] = "handle" ~>
        pc[pnp] = "deleted" \/ \E q \in Request : pc[q] = "leaked"

(* CANCEL_STOP leaves the device Started (the assertion of                 *)
(* vhci_pnp.c:535), and CANCEL_REMOVE brings back the state that           *)
(* QUERY_REMOVE found, even after a stop.                                  *)
CancelRestores ==
    /\ minor = "CANCEL_STOP" /\ pc[pnp] = "end" => DevicePnPState = "Started"
    /\ minor = "CANCEL_REMOVE" /\ pc[pnp] = "end" =>
          DevicePnPState \in {"Started", "Stopped"}

(* REMOVE_DEVICE waits for all outstanding requests to complete, and then  *)
(* deletes the device (vhci_pnp.c:673).                                    *)
RemoveEnds == minor = "REMOVE" /\ pc[pnp] = "handle" ~> pc[pnp] = "deleted"

(* STOP_DEVICE waits for the existing requests to be finished              *)
(* (vhci_pnp.c:545).                                                       *)
StopWaitsForExisting ==
    pc[pnp] = "stop_passed" => existing \cap InProgress = {}

=============================================================================
