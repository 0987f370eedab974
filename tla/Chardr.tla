------------------------------ MODULE Chardr ------------------------------
(***************************************************************************)
(* The character driver of previous2/chardr.c.  A writer takes the         *)
(* semaphore, fills the kernel buffer, announces the data, releases the    *)
(* semaphore and sleeps on the wait queue until a reader has taken the     *)
(* data.  A reader takes no lock: it sleeps on the same queue until data   *)
(* is announced, copies out as many bytes as it was asked for, withdraws   *)
(* the announcement and wakes the queue.  The two device numbers share     *)
(* everything, so a task stands for a process with either node open.       *)
(*                                                                         *)
(* A byte is a member of Bytes or Nul, and a copy to or from user space    *)
(* moves one byte per step: nothing stops another task in between.         *)
(***************************************************************************)
EXTENDS KernelSync

CONSTANTS
  Writers,       (* processes that call write(2)              *)
  Readers,       (* processes that call read(2)               *)
  BUFFER_SIZE,   (* size of the kernel buffer, 50 in the code *)
  Bytes,         (* the bytes writers send                    *)
  Nul            (* what the buffer holds at load             *)

Tasks == Writers \cup Readers

ASSUME TasksAssumption == Writers \cap Readers = {} /\ Signalled \subseteq Tasks
ASSUME SizeAssumption  == BUFFER_SIZE \in Nat \ {0}
ASSUME NulAssumption   == Nul \notin Bytes

VARIABLES
  kernel_buffer,
  data_available,   (* 1 from a write's announcement to the next read      *)
  user,             (* each task's user-space buffer: what a writer sends, *)
                    (* what a reader has received so far                   *)
  copied,           (* writers: how many bytes copy_from_user has moved    *)
  want,             (* readers: how many bytes the read asks for           *)
  ret,              (* what each task's last call returned                 *)
  got,              (* history: the bytes each reader consumed last        *)
  answered          (* history: the writers in a call whose announcement   *)
                    (* a read has withdrawn                                *)

ksync == <<pc, wq, count, waiters>>
data  == <<kernel_buffer, data_available>>
hist  == <<got, answered>>
vars  == <<ksync, data, user, copied, want, ret, hist>>

Message(b, n) == [i \in 1..n |-> b]

(* The lengths a caller may pass; the last stands for every longer one.    *)
Lengths == 0..(BUFFER_SIZE + 1)

(* Mutant: the count is not clamped. *)
ClampNot(n) == n

(* if (count > BUFFER_SIZE) count = BUFFER_SIZE;                           *)
Clamp(n) == IF n > BUFFER_SIZE THEN BUFFER_SIZE ELSE n

Init ==
  /\ pc = [t \in Tasks |-> "idle"]
  /\ wq = {}
  /\ count = 1
  /\ waiters = <<>>
  /\ kernel_buffer = [i \in 1..BUFFER_SIZE |-> Nul]
  /\ data_available = 0
  /\ user = [t \in Tasks |-> <<>>]
  /\ copied = [w \in Writers |-> 0]
  /\ want = [r \in Readers |-> 0]
  /\ ret = [t \in Tasks |-> 0]
  /\ got = [r \in Readers |-> <<>>]
  /\ answered = {}

(* A call starts: the value of the last one is forgotten. *)
Enter(t) == ret' = [ret EXCEPT ![t] = 0]

(* A call returns: its locals are gone, only its value stays. *)
Return(t, value) ==
  /\ ret' = [ret EXCEPT ![t] = value]
  /\ user' = [user EXCEPT ![t] = <<>>]

-----------------------------------------------------------------------------
(* my_write *)

WriteCall(w) ==
  /\ pc[w] = "idle"
  /\ \E b \in Bytes, n \in Lengths :
       user' = [user EXCEPT ![w] = Message(b, Clamp(n))]
  /\ Enter(w)
  /\ Down(w, "copy")
  /\ UNCHANGED <<wq, data, copied, want, hist>>

WriteInterrupted(w) ==
  /\ DownInterrupted(w, "idle")
  /\ Return(w, ERESTARTSYS)
  /\ UNCHANGED <<wq, data, copied, want, hist>>

CopyFromUser(w) ==
  /\ pc[w] = "copy"
  /\ copied[w] < Len(user[w])
  /\ kernel_buffer' = [kernel_buffer EXCEPT ![copied[w] + 1] = user[w][copied[w] + 1]]
  /\ copied' = [copied EXCEPT ![w] = @ + 1]
  /\ UNCHANGED <<ksync, data_available, user, want, ret, hist>>

(* copy_from_user fills what it could not copy with zeros. *)
ZeroTail(w) ==
  kernel_buffer' = [i \in 1..BUFFER_SIZE |->
                      IF copied[w] < i /\ i <= Len(user[w]) THEN Nul ELSE kernel_buffer[i]]

(* Mutant: the error path forgets to release the semaphore. *)
WriteFaultNoUp(w) ==
  /\ pc[w] = "copy"
  /\ copied[w] < Len(user[w])
  /\ ZeroTail(w)
  /\ Goto(w, "idle")
  /\ Return(w, EFAULT)
  /\ copied' = [copied EXCEPT ![w] = 0]
  /\ UNCHANGED <<wq, count, waiters, data_available, want, hist>>

WriteFault(w) ==
  /\ pc[w] = "copy"
  /\ copied[w] < Len(user[w])
  /\ ZeroTail(w)
  /\ Up(w, "idle", "copy")
  /\ Return(w, EFAULT)
  /\ copied' = [copied EXCEPT ![w] = 0]
  /\ UNCHANGED <<wq, data_available, want, hist>>

Announce(w) ==
  /\ pc[w] = "copy"
  /\ copied[w] = Len(user[w])
  /\ data_available' = 1
  /\ Goto(w, "up")
  /\ UNCHANGED <<wq, count, waiters, kernel_buffer, user, copied, want, ret, hist>>

ReleaseSem(w) ==
  /\ pc[w] = "up"
  /\ Up(w, "wait", "copy")
  /\ UNCHANGED <<wq, data, user, copied, want, ret, hist>>

(* Mutant: a woken writer does not look at data_available again. *)
WaitUntilReadOnce(w) ==
  /\ \/ WaitEvent(w, "wait", data_available = 0, "return")
     \/ Retest(w, data_available = 0, "return")
     \/ pc[w] = "asleep" /\ w \notin wq /\ Goto(w, "return") /\ UNCHANGED wq
     \/ Interrupt(w, "return")
  /\ UNCHANGED <<count, waiters, data, user, copied, want, ret, hist>>

WaitUntilRead(w) ==
  /\ \/ WaitEvent(w, "wait", data_available = 0, "return")
     \/ Retest(w, data_available = 0, "return")
     \/ Resume(w)
     \/ Interrupt(w, "return")
  /\ UNCHANGED <<count, waiters, data, user, copied, want, ret, hist>>

WriteReturn(w) ==
  /\ pc[w] = "return"
  /\ Goto(w, "idle")
  /\ Return(w, Len(user[w]))
  /\ copied' = [copied EXCEPT ![w] = 0]
  /\ answered' = answered \ {w}
  /\ UNCHANGED <<wq, count, waiters, data, want, got>>

-----------------------------------------------------------------------------
(* my_read *)

(* The writers whose data is announced and who have not gone on yet. *)
Announced == {w \in Writers : pc[w] \in {"up", "wait", "prepared", "asleep"}}

ReadCall(r) ==
  /\ pc[r] = "idle"
  /\ \E n \in Lengths : want' = [want EXCEPT ![r] = Clamp(n)]
  /\ Enter(r)
  /\ Goto(r, "wait")
  /\ UNCHANGED <<wq, count, waiters, data, user, copied, hist>>

(* Mutant: the read does not wait. *)
WaitForDataNot(r) ==
  /\ pc[r] = "wait"
  /\ Goto(r, "read")
  /\ UNCHANGED <<wq, count, waiters, data, user, copied, want, ret, hist>>

WaitForData(r) ==
  /\ \/ WaitEvent(r, "wait", data_available = 1, "read")
     \/ Retest(r, data_available = 1, "read")
     \/ Resume(r)
     \/ Interrupt(r, "read")
  /\ UNCHANGED <<count, waiters, data, user, copied, want, ret, hist>>

CopyToUser(r) ==
  /\ pc[r] = "read"
  /\ Len(user[r]) < want[r]
  /\ user' = [user EXCEPT ![r] = Append(@, kernel_buffer[Len(@) + 1])]
  /\ UNCHANGED <<ksync, data, copied, want, ret, hist>>

ReadFault(r) ==
  /\ pc[r] = "read"
  /\ Len(user[r]) < want[r]
  /\ Goto(r, "idle")
  /\ Return(r, EFAULT)
  /\ want' = [want EXCEPT ![r] = 0]
  /\ UNCHANGED <<wq, count, waiters, data, copied, hist>>

(* Mutant: the flag is reset and nobody is woken. *)
ConsumeNoWake(r) ==
  /\ pc[r] = "read"
  /\ Len(user[r]) = want[r]
  /\ data_available' = 0
  /\ got' = [got EXCEPT ![r] = user[r]]
  /\ answered' = answered \cup Announced
  /\ Goto(r, "return")
  /\ UNCHANGED <<wq, count, waiters, kernel_buffer, user, copied, want, ret>>

Consume(r) ==
  /\ pc[r] = "read"
  /\ Len(user[r]) = want[r]
  /\ data_available' = 0
  /\ got' = [got EXCEPT ![r] = user[r]]
  /\ answered' = answered \cup Announced
  /\ Goto(r, "wake")
  /\ UNCHANGED <<wq, count, waiters, kernel_buffer, user, copied, want, ret>>

WakeQueue(r) ==
  /\ pc[r] = "wake"
  /\ WakeUp
  /\ Goto(r, "return")
  /\ UNCHANGED <<count, waiters, data, user, copied, want, ret, hist>>

ReadReturn(r) ==
  /\ pc[r] = "return"
  /\ Goto(r, "idle")
  /\ Return(r, want[r])
  /\ want' = [want EXCEPT ![r] = 0]
  /\ UNCHANGED <<wq, count, waiters, data, copied, hist>>

-----------------------------------------------------------------------------
WriteStep(w) ==
  \/ CopyFromUser(w)
  \/ WriteFault(w)
  \/ Announce(w)
  \/ ReleaseSem(w)
  \/ WaitUntilRead(w)
  \/ WriteReturn(w)

ReadStep(r) ==
  \/ WaitForData(r)
  \/ CopyToUser(r)
  \/ ReadFault(r)
  \/ Consume(r)
  \/ WakeQueue(r)
  \/ ReadReturn(r)

Next ==
  \/ \E w \in Writers : WriteCall(w) \/ WriteInterrupted(w) \/ WriteStep(w)
  \/ \E r \in Readers : ReadCall(r) \/ ReadStep(r)

(* The scheduler runs every runnable task; nobody is obliged to call.      *)
Fairness ==
  /\ \A w \in Writers : WF_vars(WriteStep(w))
  /\ \A r \in Readers : WF_vars(ReadStep(r))

Spec     == Init /\ [][Next]_vars
FairSpec == Spec /\ Fairness

-----------------------------------------------------------------------------
WriterLabels == {"idle", "down", "copy", "up", "wait", "prepared", "asleep", "return"}
ReaderLabels == {"idle", "wait", "prepared", "asleep", "read", "wake", "return"}

TypeOK ==
  /\ pc \in [Tasks -> WriterLabels \cup ReaderLabels]
  /\ \A w \in Writers : pc[w] \in WriterLabels
  /\ \A r \in Readers : pc[r] \in ReaderLabels
  /\ wq \subseteq Tasks
  /\ count \in {0, 1}
  /\ waiters \in Seq(Writers)
  /\ kernel_buffer \in [1..BUFFER_SIZE -> Bytes \cup {Nul}]
  /\ data_available \in {0, 1}
  /\ user \in [Tasks -> Seq(Bytes \cup {Nul})]
  /\ \A w \in Writers : Len(user[w]) <= BUFFER_SIZE
  /\ copied \in [Writers -> 0..BUFFER_SIZE]
  /\ want \in [Readers -> 0..BUFFER_SIZE]
  /\ ret \in [Tasks -> {EFAULT, ERESTARTSYS} \cup 0..BUFFER_SIZE]
  /\ got \in [Readers -> Seq(Bytes \cup {Nul})]
  /\ answered \subseteq Writers

(* The writers between down_interruptible and up. *)
Holders == {w \in Writers : pc[w] \in {"copy", "up"}}

(* However a write ends (done, fault, signal), the semaphore is given back *)
(* exactly once, before the writer sleeps, and at most one writer fills    *)
(* the buffer at a time (lines 44 to 54).                                  *)
SemBalance == SemInv(Writers, Holders)

(* A writer never sleeps on after its data was read: when it is still      *)
(* queued and the flag is down, the reader that took it down (line 33) has *)
(* yet to call wake_up_interruptible (line 34).                            *)
NoLostWakeup ==
  \A w \in Writers :
    pc[w] = "asleep" /\ w \in wq /\ data_available = 0
      => \E r \in Readers : pc[r] = "wake"

(* A write that no signal cuts short returns only after some read finished *)
(* since its announcement (lines 53 to 59), whatever other writers do.     *)
SynchronousWrite ==
  \A w \in Writers \ Signalled : pc[w] = "return" => w \in answered

-----------------------------------------------------------------------------
(* One writer, one reader and no signals meet in a rendezvous: each offer  *)
(* is taken exactly once, from a buffer that does not change meanwhile,    *)
(* and the next write begins after it.  What is offered is the whole       *)
(* kernel buffer, the bytes a longer message left in it included: my_read  *)
(* never looks at how much was written.                                    *)
Meeting ==
  INSTANCE Rendezvous WITH
    Contents <- [1..BUFFER_SIZE -> Bytes \cup {Nul}],
    Empty    <- <<>>,
    slot     <- IF data_available = 1 THEN kernel_buffer ELSE <<>>,
    waiting  <- Announced

ImplementsRendezvous == Meeting!Spec

(* Once its data was read the sleeping writer of a pair returns.           *)
WriterLeaves ==
  \A w \in Writers :
    (pc[w] = "asleep" /\ data_available = 0) ~> (pc[w] = "idle")

-----------------------------------------------------------------------------
(* read.txt, lines 5 to 7 and 11 to 13: wait queues avoid consecutive      *)
(* writes, the writer sleeps before it releases the semaphore.  The code   *)
(* releases it first, line 54.                                             *)
NoConsecutiveWrites ==
  \A w \in Writers : pc[w] = "copy" => data_available = 0

(* my_read waits "if no data is available" (line 24): once there is data   *)
(* it goes on.  Only my_read wakes the queue, so a reader asleep when the  *)
(* data is announced stays asleep.                                         *)
ReaderWoken ==
  \A r \in Readers :
    (pc[r] = "asleep" /\ data_available = 1) ~> (pc[r] # "asleep")

=============================================================================
