---------------------------- MODULE ActiveRegister ----------------------------
(***************************************************************************)
(* What the duplicate check of services/nomination_service.py promises: a  *)
(* register that holds, for every (employee, batch) pair, at most one      *)
(* active nomination.  A nomination takes a free pair and keeps it until   *)
(* its status stops being active; it is never pushed out by another one.   *)
(***************************************************************************)
CONSTANTS Pairs, Ids, Nobody   (* Nobody is none of the Ids *)

VARIABLE holder

Init == holder = [p \in Pairs |-> Nobody]

Take(p, n) ==
  /\ holder[p] = Nobody
  /\ \A q \in Pairs : holder[q] # n
  /\ holder' = [holder EXCEPT ![p] = n]

Release(p) ==
  /\ holder[p] # Nobody
  /\ holder' = [holder EXCEPT ![p] = Nobody]

Next == \E p \in Pairs : Release(p) \/ \E n \in Ids : Take(p, n)

Spec == Init /\ [][Next]_holder
=============================================================================
