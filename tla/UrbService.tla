----------------------------- MODULE UrbService -----------------------------
(***************************************************************************)
(* What the driver promises of the URB requests of one device, as long as  *)
(* no request is cancelled or refused by a conversion, the device stays    *)
(* plugged in and the program reads with one thread at a time: the         *)
(* requests form one stream of commands, first come first served, and      *)
(* each ends once, with the answer that was given to it.  UrbQueue is      *)
(* shown to implement it (UrbQueueService).                                *)
(***************************************************************************)
EXTENDS Naturals, Sequences, SequencesExt

CONSTANTS
    Urb,       \* the requests
    Oversize   \* those whose data needs a read of its own

VARIABLES
    irp,       \* how each request stands with the function driver
    waiting,   \* the requests that wait to become commands
    order,     \* the requests that became commands; their place is the number
    stream,    \* what the program has received
    answered   \* the numbers the program has given an answer for

vars == <<irp, waiting, order, stream, answered>>

Init ==
    /\ irp = [u \in Urb |-> "idle"]
    /\ waiting = <<>>
    /\ order = <<>>
    /\ stream = <<>>
    /\ answered = {}

Piece(n, part) == [seq |-> n, part |-> part]

(* the pieces in which the program receives the n-th command               *)
Command(n) ==
    IF order[n] \in Oversize
    THEN <<Piece(n, "header"), Piece(n, "data")>>
    ELSE <<Piece(n, "whole")>>

Commands == FlattenSeq([n \in 1 .. Len(order) |-> Command(n)])

Accept(u) ==
    /\ irp[u] = "idle"
    /\ irp' = [irp EXCEPT ![u] = "issued"]
    /\ UNCHANGED <<waiting, order, stream, answered>>

(* There is no memory, or the request is of no known kind.                 *)
Refuse(u) ==
    /\ irp[u] = "idle"
    /\ irp' = [irp EXCEPT ![u] = "rejected"]
    /\ UNCHANGED <<waiting, order, stream, answered>>

Wait(u) ==
    /\ irp[u] = "issued"
    /\ ~ Contains(waiting, u) /\ ~ Contains(order, u)
    /\ waiting' = Append(waiting, u)
    /\ UNCHANGED <<irp, order, stream, answered>>

(* A request becomes a command: the oldest that waits, or, when none does, *)
(* one that has just been accepted.                                        *)
Become(u) ==
    /\ irp[u] = "issued"
    /\ ~ Contains(order, u)
    /\ IF waiting = <<>> THEN UNCHANGED waiting
       ELSE u = Head(waiting) /\ waiting' = Tail(waiting)
    /\ order' = Append(order, u)
    /\ UNCHANGED <<irp, stream, answered>>

(* The program receives the next piece, never another one.                 *)
Receive ==
    /\ Len(stream) < Len(Commands)
    /\ stream' = Append(stream, Commands[Len(stream) + 1])
    /\ UNCHANGED <<irp, waiting, order, answered>>

(* The program can answer only a command it has received whole.            *)
Answer(n) ==
    /\ n \notin answered
    /\ Contains(stream, Last(Command(n)))
    /\ answered' = answered \cup {n}
    /\ UNCHANGED <<irp, waiting, order, stream>>

(* The answer ends the request that it was given for.                      *)
Reply(n) ==
    /\ n \in answered
    /\ irp[order[n]] = "issued"
    /\ irp' = [irp EXCEPT ![order[n]] = "replied"]
    /\ UNCHANGED <<waiting, order, stream, answered>>

Next ==
    \/ \E u \in Urb : Accept(u) \/ Refuse(u) \/ Wait(u) \/ Become(u)
    \/ Receive
    \/ \E n \in DOMAIN order : Answer(n) \/ Reply(n)

Spec == Init /\ [][Next]_vars

=============================================================================
