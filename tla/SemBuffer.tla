----------------------------- MODULE SemBuffer -----------------------------
(***************************************************************************)
(* The multi-device character driver of previousyear/ioctl.c: one kernel   *)
(* buffer behind two device nodes.  A writer takes the semaphore, sleeps   *)
(* on the wait queue until the buffer is empty, and fills it.  A reader    *)
(* takes no lock: it copies the buffer out, marks it empty and wakes the   *)
(* writer.  The minor number is never looked at, so both nodes are the     *)
(* same buffer and a task stands for a process with either node open.      *)
(*                                                                         *)
(* A byte is a member of Bytes or Nul, and a copy to or from user space    *)
(* moves one byte per step: nothing stops another task in between.         *)
(***************************************************************************)
EXTENDS KernelSync

CONSTANTS
  Writers,       (* processes that call write(2)            *)
  Readers,       (* processes that call read(2)             *)
  BUFFER_SIZE,   (* size of the kernel buffer, 50 in the code *)
  Bytes,         (* the bytes writers send                  *)
  Nul            (* what the buffer holds at load           *)

Tasks == Writers \cup Readers

ASSUME TasksAssumption == Writers \cap Readers = {} /\ Signalled \subseteq Tasks
ASSUME SizeAssumption  == BUFFER_SIZE \in Nat \ {0}
ASSUME NulAssumption   == Nul \notin Bytes

VARIABLES
  buffer,          (* the kernel buffer                                    *)
  buffer_length,   (* how much of it is a message; 0 when it is empty      *)
  user,            (* each task's user-space buffer: what a writer sends,  *)
                   (* what a reader has received so far                    *)
  copied,          (* writers: how many bytes copy_from_user has moved     *)
  want,            (* readers: the length copy_to_user was called with     *)
  ret,             (* what each task's last call returned                  *)
  got              (* history: the message each reader consumed last       *)

ksync == <<pc, wq, count, waiters>>
kbuf  == <<buffer, buffer_length>>
vars  == <<ksync, kbuf, user, copied, want, ret, got>>

(* A message of length n is n times the same byte, so that a mixture of    *)
(* two messages shows.                                                     *)
Message(b, n) == [i \in 1..n |-> b]
Payloads == {Message(b, n) : b \in Bytes, n \in 0..BUFFER_SIZE}

(* The message the kernel buffer holds. *)
Stored == [i \in 1..buffer_length |-> buffer[i]]

Init ==
  /\ pc = [t \in Tasks |-> "idle"]
  /\ wq = {}
  /\ count = 1
  /\ waiters = <<>>
  /\ buffer = [i \in 1..BUFFER_SIZE |-> Nul]
  /\ buffer_length = 0
  /\ user = [t \in Tasks |-> <<>>]
  /\ copied = [w \in Writers |-> 0]
  /\ want = [r \in Readers |-> 0]
  /\ ret = [t \in Tasks |-> 0]
  /\ got = [r \in Readers |-> <<>>]

(* A call starts: the value of the last one is forgotten. *)
Enter(t) == ret' = [ret EXCEPT ![t] = 0]

(* A call returns: its locals are gone, only its value stays. *)
Return(t, value) ==
  /\ ret' = [ret EXCEPT ![t] = value]
  /\ user' = [user EXCEPT ![t] = <<>>]

-----------------------------------------------------------------------------
(* mycdev_write *)

WriteTooLong(w) ==
  /\ pc[w] = "idle"
  /\ ret' = [ret EXCEPT ![w] = EINVAL]
  /\ UNCHANGED <<ksync, kbuf, user, copied, want, got>>

(* Mutant: the write does not take the semaphore. *)
WriteCallNoDown(w) ==
  /\ pc[w] = "idle"
  /\ \E m \in Payloads : user' = [user EXCEPT ![w] = m]
  /\ Enter(w)
  /\ Goto(w, "check")
  /\ UNCHANGED <<wq, count, waiters, kbuf, copied, want, got>>

WriteCall(w) ==
  /\ pc[w] = "idle"
  /\ \E m \in Payloads : user' = [user EXCEPT ![w] = m]
  /\ Enter(w)
  /\ Down(w, "check")
  /\ UNCHANGED <<wq, kbuf, copied, want, got>>

WriteInterrupted(w) ==
  /\ DownInterrupted(w, "idle")
  /\ Return(w, ERESTARTSYS)
  /\ UNCHANGED <<wq, kbuf, copied, want, got>>

(* Mutant: the condition is not tested again after a wake-up. *)
WaitForRoomOnce(w) ==
  /\ \/ WaitEvent(w, "check", buffer_length = 0, "copy")
     \/ Retest(w, buffer_length = 0, "copy")
     \/ pc[w] = "asleep" /\ w \notin wq /\ Goto(w, "copy") /\ UNCHANGED wq
     \/ Interrupt(w, "copy")
  /\ UNCHANGED <<count, waiters, kbuf, user, copied, want, ret, got>>

(* The writer that holds the semaphore waits for the buffer to be empty.   *)
WaitForRoom(w) ==
  /\ \/ WaitEvent(w, "check", buffer_length = 0, "copy")
     \/ Retest(w, buffer_length = 0, "copy")
     \/ Resume(w)
     \/ Interrupt(w, "copy")
  /\ UNCHANGED <<count, waiters, kbuf, user, copied, want, ret, got>>

CopyFromUser(w) ==
  /\ pc[w] = "copy"
  /\ copied[w] < Len(user[w])
  /\ buffer' = [buffer EXCEPT ![copied[w] + 1] = user[w][copied[w] + 1]]
  /\ copied' = [copied EXCEPT ![w] = @ + 1]
  /\ UNCHANGED <<ksync, buffer_length, user, want, ret, got>>

(* copy_from_user fills what it could not copy with zeros. *)
ZeroTail(w) ==
  buffer' = [i \in 1..BUFFER_SIZE |->
               IF copied[w] < i /\ i <= Len(user[w]) THEN Nul ELSE buffer[i]]

(* Mutant: the error path forgets to release the semaphore. *)
WriteFaultNoUp(w) ==
  /\ pc[w] = "copy"
  /\ copied[w] < Len(user[w])
  /\ ZeroTail(w)
  /\ Goto(w, "idle")
  /\ Return(w, EFAULT)
  /\ copied' = [copied EXCEPT ![w] = 0]
  /\ UNCHANGED <<wq, count, waiters, buffer_length, want, got>>

WriteFault(w) ==
  /\ pc[w] = "copy"
  /\ copied[w] < Len(user[w])
  /\ ZeroTail(w)
  /\ Up(w, "idle", "check")
  /\ Return(w, EFAULT)
  /\ copied' = [copied EXCEPT ![w] = 0]
  /\ UNCHANGED <<wq, buffer_length, want, got>>

(* Mutant: the length counts a terminating byte. *)
SetLengthPlusOne(w) ==
  /\ pc[w] = "copy"
  /\ copied[w] = Len(user[w])
  /\ buffer_length' = Len(user[w]) + 1
  /\ Goto(w, "up")
  /\ UNCHANGED <<wq, count, waiters, buffer, user, copied, want, ret, got>>

SetLength(w) ==
  /\ pc[w] = "copy"
  /\ copied[w] = Len(user[w])
  /\ buffer_length' = Len(user[w])
  /\ Goto(w, "up")
  /\ UNCHANGED <<wq, count, waiters, buffer, user, copied, want, ret, got>>

WriteReturn(w) ==
  /\ pc[w] = "up"
  /\ Up(w, "idle", "check")
  /\ Return(w, Len(user[w]))
  /\ copied' = [copied EXCEPT ![w] = 0]
  /\ UNCHANGED <<wq, kbuf, want, got>>

-----------------------------------------------------------------------------
(* mycdev_read *)

ReadEmpty(r) ==
  /\ pc[r] = "idle"
  /\ buffer_length = 0
  /\ ret' = [ret EXCEPT ![r] = 0]
  /\ UNCHANGED <<ksync, kbuf, user, copied, want, got>>

(* buffer_length is loaded once, for the test and for copy_to_user.        *)
ReadCall(r) ==
  /\ pc[r] = "idle"
  /\ buffer_length # 0
  /\ want' = [want EXCEPT ![r] = buffer_length]
  /\ Enter(r)
  /\ Goto(r, "read")
  /\ UNCHANGED <<wq, count, waiters, kbuf, user, copied, got>>

CopyToUser(r) ==
  /\ pc[r] = "read"
  /\ Len(user[r]) < want[r]
  /\ user' = [user EXCEPT ![r] = Append(@, buffer[Len(@) + 1])]
  /\ UNCHANGED <<ksync, kbuf, copied, want, ret, got>>

ReadFault(r) ==
  /\ pc[r] = "read"
  /\ Len(user[r]) < want[r]
  /\ Goto(r, "idle")
  /\ Return(r, EFAULT)
  /\ want' = [want EXCEPT ![r] = 0]
  /\ UNCHANGED <<wq, count, waiters, kbuf, copied, got>>

(* Mutant: the buffer is emptied and nobody is woken. *)
ResetBufferNoWake(r) ==
  /\ pc[r] = "read"
  /\ Len(user[r]) = want[r]
  /\ buffer_length' = 0
  /\ got' = [got EXCEPT ![r] = user[r]]
  /\ Goto(r, "return")
  /\ UNCHANGED <<wq, count, waiters, buffer, user, copied, want, ret>>

ResetBuffer(r) ==
  /\ pc[r] = "read"
  /\ Len(user[r]) = want[r]
  /\ buffer_length' = 0
  /\ got' = [got EXCEPT ![r] = user[r]]
  /\ Goto(r, "wake")
  /\ UNCHANGED <<wq, count, waiters, buffer, user, copied, want, ret>>

WakeWriter(r) ==
  /\ pc[r] = "wake"
  /\ WakeUp
  /\ Goto(r, "return")
  /\ UNCHANGED <<count, waiters, kbuf, user, copied, want, ret, got>>

(* The value returned is buffer_length, read again after the wake-up.      *)
ReadReturn(r) ==
  /\ pc[r] = "return"
  /\ Return(r, buffer_length)
  /\ want' = [want EXCEPT ![r] = 0]
  /\ Goto(r, "idle")
  /\ UNCHANGED <<wq, count, waiters, kbuf, copied, got>>

-----------------------------------------------------------------------------
(* A call in progress; the environment decides when one starts. *)
WriteStep(w) ==
  \/ WaitForRoom(w)
  \/ CopyFromUser(w)
  \/ WriteFault(w)
  \/ SetLength(w)
  \/ WriteReturn(w)

ReadStep(r) ==
  \/ CopyToUser(r)
  \/ ReadFault(r)
  \/ ResetBuffer(r)
  \/ WakeWriter(r)
  \/ ReadReturn(r)

Next ==
  \/ \E w \in Writers :
       WriteTooLong(w) \/ WriteCall(w) \/ WriteInterrupted(w) \/ WriteStep(w)
  \/ \E r \in Readers :
       ReadEmpty(r) \/ ReadCall(r) \/ ReadStep(r)

(* The scheduler runs every runnable task; nobody is obliged to call.      *)
Fairness ==
  /\ \A w \in Writers : WF_vars(WriteStep(w))
  /\ \A r \in Readers : WF_vars(ReadStep(r))

Spec     == Init /\ [][Next]_vars
FairSpec == Spec /\ Fairness
-----------------------------------------------------------------------------
WriterLabels == {"idle", "down", "check", "prepared", "asleep", "copy", "up"}
ReaderLabels == {"idle", "read", "wake", "return"}

TypeOK ==
  /\ pc \in [Tasks -> WriterLabels \cup ReaderLabels]
  /\ \A w \in Writers : pc[w] \in WriterLabels
  /\ \A r \in Readers : pc[r] \in ReaderLabels
  /\ wq \subseteq Writers
  /\ count \in {0, 1}
  /\ waiters \in Seq(Writers)
  /\ buffer \in [1..BUFFER_SIZE -> Bytes \cup {Nul}]
  /\ buffer_length \in 0..BUFFER_SIZE
  /\ user \in [Tasks -> Seq(Bytes \cup {Nul})]
  /\ copied \in [Writers -> 0..BUFFER_SIZE]
  /\ \A w \in Writers : Len(user[w]) <= BUFFER_SIZE
  /\ want \in [Readers -> 0..BUFFER_SIZE]
  /\ ret \in [Tasks -> {EFAULT, EINVAL, ERESTARTSYS} \cup 0..BUFFER_SIZE]
  /\ got \in [Readers -> Seq(Bytes \cup {Nul})]

(* The writers between down_interruptible and up. *)
Holders == {w \in Writers : pc[w] \in {"check", "prepared", "asleep", "copy", "up"}}

(* However a write ends (done, fault, signal), the semaphore is given back *)
(* exactly once and at most one writer is ever inside, lines 57 to 75.     *)
SemBalance == SemInv(Writers, Holders)

(* A writer never sleeps on over an empty buffer: when it is still queued  *)
(* and the buffer is empty, the reader that emptied it (line 43) has yet   *)
(* to call wake_up (line 45).                                              *)
NoLostWakeup ==
  \A w \in Writers :
    pc[w] = "asleep" /\ w \in wq /\ buffer_length = 0
      => \E r \in Readers : pc[r] = "wake"

(* A writer that no signal drove out of its wait copies only while         *)
(* buffer_length is 0, lines 60 to 66: nobody stores a length between its  *)
(* test and the end of its copy.  With one reader nothing unread is lost   *)
(* then (see ImplementsChannel); of two that pass the test of line 31      *)
(* together the second may set the length of a message to 0 that nobody    *)
(* has read, and the property has nothing to say about that.               *)
CopyIntoEmpty ==
  \A w \in Writers \ Signalled : pc[w] = "copy" => buffer_length = 0

-----------------------------------------------------------------------------
(* With one reader and no signals the driver is a one-message channel:     *)
(* every message is stored into an empty buffer and read exactly once,     *)
(* whole, although both sides copy byte by byte and the reader takes no    *)
(* lock.                                                                   *)
Chan == INSTANCE Channel WITH slot <- Stored

ImplementsChannel == Chan!Spec

(* Once the buffer is empty a sleeping writer gets to run again (the       *)
(* wake_up of line 45 is never missed).                                    *)
SleepingWriterWakes ==
  \A w \in Writers :
    (pc[w] = "asleep" /\ buffer_length = 0) ~> (pc[w] # "asleep")

(* As long as readers keep emptying the buffer, every write returns: no    *)
(* writer starves on the semaphore, even behind writes that fault.         *)
WriterAdmitted ==
  ([]<>(buffer_length = 0))
    => \A w \in Writers : (pc[w] # "idle") ~> (pc[w] = "idle")

=============================================================================
