---------------------------- MODULE KernelSync ----------------------------
(***************************************************************************)
(* The wait queue and a counting semaphore, as the drivers use them (see   *)
(* WaitQueue).  A task inside down_interruptible is at "down" until up()   *)
(* hands it the semaphore.                                                 *)
(***************************************************************************)
EXTENDS WaitQueue

VARIABLES
  count,    (* the semaphore's count                      *)
  waiters   (* the semaphore's wait list, first come first *)

EFAULT      == -14
EINVAL      == -22
ERESTARTSYS == -512

-----------------------------------------------------------------------------
(* down_interruptible: take a free semaphore or queue for it.              *)
Down(t, next) ==
  \/ /\ count > 0
     /\ count' = count - 1
     /\ Goto(t, next)
     /\ UNCHANGED waiters
  \/ /\ count = 0
     /\ waiters' = Append(waiters, t)
     /\ Goto(t, "down")
     /\ UNCHANGED count

(* A signal takes a queued task off the list: -ERESTARTSYS to the caller.  *)
DownInterrupted(t, next) ==
  /\ t \in Signalled
  /\ pc[t] = "down"
  /\ \E k \in 1..Len(waiters) :
       /\ waiters[k] = t
       /\ waiters' = [i \in 1..(Len(waiters) - 1) |->
                        waiters[IF i < k THEN i ELSE i + 1]]
  /\ Goto(t, next)
  /\ UNCHANGED count

(* up: hand the semaphore to the longest waiter, which continues at        *)
(* admitted, or else leave it free.                                        *)
Up(t, next, admitted) ==
  \/ /\ waiters = <<>>
     /\ count' = count + 1
     /\ Goto(t, next)
     /\ UNCHANGED waiters
  \/ /\ waiters # <<>>
     /\ waiters' = Tail(waiters)
     /\ pc' = [pc EXCEPT ![t] = next, ![Head(waiters)] = admitted]
     /\ UNCHANGED count

-----------------------------------------------------------------------------
(* What a binary semaphore promises to the tasks Holders that are between  *)
(* their down and their up: there is at most one of them, the semaphore is *)
(* free exactly when there is none, and only the tasks blocked in down are *)
(* on the list, each of them once.                                         *)
SemInv(Tasks, Holders) ==
  /\ \A t, u \in Holders : t = u
  /\ count = IF Holders = {} THEN 1 ELSE 0
  /\ waiters # <<>> => Holders # {}
  /\ \A t \in Tasks : pc[t] = "down" <=> \E k \in 1..Len(waiters) : waiters[k] = t
  /\ \A j, k \in 1..Len(waiters) : waiters[j] = waiters[k] => j = k

=============================================================================
