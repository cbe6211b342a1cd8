--------------------------- MODULE AtMostOnceMailer ---------------------------
(***************************************************************************)
(* What services/communication_service.py promises of an idempotency key:  *)
(* the message it stands for leaves at most once, and the log says Sent    *)
(* only of a message that has left.                                        *)
(***************************************************************************)
EXTENDS Naturals

CONSTANT Keys

VARIABLES sent,      (* per key: how many messages have left *)
          recorded   (* the keys with a Sent row in the log *)

Init ==
  /\ sent = [k \in Keys |-> 0]
  /\ recorded = {}

Deliver(k) ==
  /\ sent[k] = 0
  /\ sent' = [sent EXCEPT ![k] = 1]
  /\ UNCHANGED recorded

Record(k) ==
  /\ sent[k] = 1
  /\ recorded' = recorded \cup {k}
  /\ UNCHANGED sent

Next == \E k \in Keys : Deliver(k) \/ Record(k)

Spec == Init /\ [][Next]_<<sent, recorded>>
=============================================================================
