------------------------------ MODULE ByteChannel ------------------------------
(***************************************************************************)
(* What a serial line promises: the bytes given to the transmitter come    *)
(* out of the receiver in the same order, each exactly once and unchanged. *)
(***************************************************************************)
EXTENDS Sequences

CONSTANTS Byte, None

VARIABLES
  queue,   \* bytes handed over and not yet received
  got      \* the receiver's output: a byte, or None

Init == queue = <<>> /\ got = None

(* In the same clock cycle a byte may be handed over: sent has 0 or 1.     *)
Deliver(sent) ==
  /\ got = None /\ queue # <<>>
  /\ got' = Head(queue)
  /\ queue' = Tail(queue) \o sent

Quiet(sent) == got' \in {got, None} /\ queue' = queue \o sent

Next == \E sent \in {<<>>} \cup {<<b>> : b \in Byte} : Deliver(sent) \/ Quiet(sent)

Spec == Init /\ [][Next]_<<queue, got>>
=============================================================================
