------------------------------ MODULE Channel ------------------------------
(***************************************************************************)
(* What a driver with a one-message buffer promises its users: a write     *)
(* stores its message only in an empty slot, and a read takes the stored   *)
(* message, whole and untorn, exactly once.                                *)
(***************************************************************************)
EXTENDS Naturals, Sequences

CONSTANTS Readers, Payloads

VARIABLES
  slot,   (* the stored message, <<>> when there is none *)
  got     (* the message each reader took last           *)

vars == <<slot, got>>

Init ==
  /\ slot = <<>>
  /\ got = [r \in Readers |-> <<>>]

Put(m) ==
  /\ slot = <<>>
  /\ slot' = m
  /\ UNCHANGED got

Take(r) ==
  /\ slot # <<>>
  /\ slot' = <<>>
  /\ got' = [got EXCEPT ![r] = slot]

Next ==
  \/ \E m \in Payloads : Put(m)
  \/ \E r \in Readers : Take(r)

Spec == Init /\ [][Next]_vars

=============================================================================
