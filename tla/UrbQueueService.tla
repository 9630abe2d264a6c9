-------------------------- MODULE UrbQueueService ---------------------------
(***************************************************************************)
(* UrbQueue implements UrbService in the environment that UrbService       *)
(* describes.                                                              *)
(***************************************************************************)
EXTENDS UrbQueue

(* the requests in the order of the numbers they were given                *)
Numbered == [n \in 1 .. seq_num |-> CHOOSE u \in Urb : urbr_seq[u] = n]

Service == INSTANCE UrbService WITH
    waiting  <- head_urbr_pending,
    order    <- Numbered,
    stream   <- wire,
    answered <- {n \in SeqNum : writer[n].pc # "idle"}

(* Whatever the interleaving of submissions, reads and writes, the driver  *)
(* behaves like one first-come first-served stream of commands: no command *)
(* is skipped, repeated or torn, none overtakes another, and an answer     *)
(* ends the request whose number it carries.                               *)
ServesInOrder == Service!Spec

=============================================================================
