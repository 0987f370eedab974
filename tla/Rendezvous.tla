---------------------------- MODULE Rendezvous ----------------------------
(***************************************************************************)
(* What a driver whose write sleeps until the data is read promises: an    *)
(* offer is made only when the one before it was taken and its writer left *)
(* again, it is taken once, by a read that sees one instant of it, and its *)
(* writer leaves only afterwards.                                          *)
(***************************************************************************)
EXTENDS Naturals, Sequences

CONSTANTS Writers, Readers, Contents, Empty

VARIABLES
  slot,      (* what is on offer, or Empty                     *)
  waiting,   (* the writers whose offer was not answered yet   *)
  got        (* what each reader took last                     *)

vars == <<slot, waiting, got>>

Init ==
  /\ slot = Empty
  /\ waiting = {}
  /\ got = [r \in Readers |-> <<>>]

Offer(w, c) ==
  /\ slot = Empty
  /\ waiting = {}
  /\ slot' = c
  /\ waiting' = {w}
  /\ UNCHANGED got

(* A read asks for as many bytes as it likes. *)
Take(r, n) ==
  /\ slot # Empty
  /\ n \in 0..Len(slot)
  /\ got' = [got EXCEPT ![r] = SubSeq(slot, 1, n)]
  /\ slot' = Empty
  /\ UNCHANGED waiting

Leave(w) ==
  /\ slot = Empty
  /\ waiting = {w}
  /\ waiting' = {}
  /\ UNCHANGED <<slot, got>>

Next ==
  \/ \E w \in Writers : (\E c \in Contents : Offer(w, c)) \/ Leave(w)
  \/ \E r \in Readers : \E n \in 0..Len(slot) : Take(r, n)

Spec == Init /\ [][Next]_vars

===========================================================================
