# A verification of the ELLD drivers

This directory holds TLA+ models of the Linux drivers of this repository, the
TLC configurations that check them on small instances, and proofs of their main
properties that TLAPS checks for every value of the constants.

The repository is a collection of kernel modules that share no code. What they
have in common is the kernel: the same wait queues, semaphores, timers and
device registration. The models follow that shape: one module per driver (or
per pair of drivers with the same mechanism) over common modules for the
kernel's primitives, which are modelled from how the drivers call them.

## Inventory

| Component | State | Operations | What is hard | What makes it correct |
|---|---|---|---|---|
| `previousyear/ioctl.c`, driver "multi2" | one 50-byte `buffer`, `buffer_length`, a semaphore, a wait queue, shared by both minors | `read` (no lock), `write` (semaphore, sleeps until the buffer is empty) | reader and writer touch the buffer at once; signals; faults half-way through a copy; the wake-up | a message is stored only into an empty buffer and read once, whole; the semaphore is balanced; no wake-up is lost; no write starves |
| `previous2/chardr.c` | one 50-byte `kernel_buffer`, `data_available`, a semaphore, a wait queue | `write` (fills under the semaphore, then sleeps until read), `read` (sleeps until there is data) | two kinds of sleeper on one queue, only `read` wakes it; semaphore given back before the sleep | a write returns only after a read; no write over unread data; every sleeper is woken |
| `waitqueues/dynamic`, `waitqueues/static` | `wait_queue_flag`, counters, a kernel thread, a wait queue | `read` and `write` raise the flag and wake the thread, `exit` too; the thread handles and resets it | the flag is unprotected and tested up to four times; exit does not wait for the thread | no event slept through, none invented; exit's event ends the thread, before its code is freed |
| `previous3/led_driver.c` | timer, `led_state`, `blink_period`, a GPIO line | ioctl `SET_PERIOD`, the timer callback, init and exit | callback, ioctl and exit run on different CPUs | no callback after exit, line driven only while owned, new period takes effect |
| `timers/timers.c` | a timer, a counter | callback, init and exit | exit does not wait for the callback | no callback after exit |
| `previousyear1/chardev.c` with `read.c`, `write.c`, `ioctl.c` | size, buffer, last operation; the position of each open file | `read`, `write`, ioctl `GETSTATS` | no lock at all; a position tested against a size that changes; faults half-way | a call that no write overlaps gets the last string, from its position on, or statistics of one moment; a read from the start stays inside the memory whatever overlaps it, and every string in the memory ends |
| `chardevdriver/chrdevdr.c`, `usapp.c` | a heap buffer, the position of each open file | `read`, `write` | no lock; position at the end after one read; device live before the buffer exists | a read at the start of its file that no write overlaps gets the last string, and the string ends |
| `spinlock/spinlock.c` | a spin lock, a sum | `write` takes the lock, `read` releases it | not a C program as it stands | - |
| `ioctldev/ioctl.c` | none | ioctl commands that only log | init ignores errors | exit gives back what init took |
| `static`, `dynamic`, `devfile` | a device number | init and exit | errors ignored; number 240 and 269 fixed | a module gives back what it took, and nothing else |
| `modprobe` | the kernel's use counts | init and exit; `test` calls `add` from the module of that name | load order; removal while used | a module whose function another one uses is not removed |
| `module`, `moduleparam`, `modulearray` | module parameters | init prints them | - | - |

The drivers interact with user processes through system calls, with the kernel
through the primitives above, and with each other only through the registry of
device numbers (`previous3` and `previousyear1` both ask for major 240).

## What is modelled

| Module | Models |
|---|---|
| `WaitQueue` | `wait_event_interruptible`, the wake-ups and signals; `pc`, the next step of each task, and `wq`, the tasks on the queue |
| `KernelSync` | `WaitQueue` and the semaphore: `down_interruptible` with its first-come list, `up` with its hand-over |
| `KernelSyncProofs` | lemmas about the semaphore's steps, for any driver |
| `Channel` | abstract: a one-message slot, `Put` into an empty one, `Take` of all of it |
| `SemBuffer` | `previousyear/ioctl.c`, `read` and `write` |
| `SemBufferProofs`, `SemBufferRefinement` | the proofs about `SemBuffer` |
| `Rendezvous` | abstract: an offer, its `Take`, and its writer's `Leave` afterwards |
| `Chardr`, `ChardrProofs` | `previous2/chardr.c`, `read` and `write` |
| `EventThread`, `EventThreadProofs` | both `waitqueues` drivers; `driver` says which one, chosen by `Init` |
| `RearmTimer`, `RearmTimerProofs` | `previous3/led_driver.c` and `timers/timers.c` after registration; `driver` as above |
| `SafeFile` | abstract: a string without a lock, which calls that no write overlaps see whole |
| `FileDev`, `FileDevProofs` | `previousyear1/chardev.c` and `chardevdriver/chrdevdr.c` with the programs that use them; `driver` as above |
| `Lifecycle`, `LifecycleProofs` | init and exit of all twelve drivers that take a device number, and of the `modprobe` modules, side by side; `Program` holds one list of statements for each |
| `MCSemBuffer`, `MCChardr`, `MCFileDev` | the symmetry sets and the strings of the TLC runs |

How state and actions correspond to the code:

- A **task** is a process inside one system call at a time (or the kernel
  thread, or `rmmod`). `pc[t]` is the next statement it executes. An action is
  one access to shared state with the local work around it; a copy between user
  and kernel space moves one byte per action, so a concurrent access may fall
  between any two bytes, and it may fault before any byte. `copy_from_user`
  fills the rest of its destination with zeros when it faults (`ZeroTail` in
  `SemBuffer` and `Chardr`, which have one writer inside at a time; a phase
  `zero` of one step per byte in `FileDev`, where others may write meanwhile).
- A **call's locals** (`user`, `copied`, `want`) live from the call to its
  return and are put back then; `ret` is the value of the task's last finished
  call.
- A **wait** is three steps, as the kernel has it: the test, the enqueueing
  with a second test, the sleep. A wake-up between the last two is remembered,
  because the task is already on the queue.
- A **signal** reaches only the tasks in `Signalled`. It ends a wait although
  the condition does not hold, and the drivers ignore the value that would tell
  them.
- A **byte** is a model value or `Nul`. A message is n times one byte, so that
  a mixture of two messages is visible as such.
- In `EventThread` the flag is a plain `int`: where no call separates two tests
  the compiler may load it again or use the value it has (`loaded`, `Loads`).
  When the exit function has returned, the code of the thread is freed: a
  thread that would run on from there crashes (`Crash`), also one that exit has
  woken and the scheduler has not run yet. In `RearmTimer` a callback goes no
  further once its module is gone.
- In `Lifecycle` a **driver** is its list of statements; `todo` is what is left
  of it, and each statement's action says what the kernel function behind it
  does to its tables and when it fails. A failure goes to the statements the
  source rolls back with, or is ignored where the source ignores it.
  `class_create`, `device_create` and `kthread_create` report failures by an
  error pointer, so the drivers' tests against NULL never fire and are modelled
  as ignoring the result; `Oops` is what the kernel does when such a pointer is
  used. `has` holds what the kernel knows the driver to have (devices, node,
  GPIO line, a buffer from `kmalloc`, which only `kfree` takes away) and, as
  "memory", that what its file operations use is there and initialised: in
  `chrdevdr` that is after the `strcpy` of line 104, not after `kmalloc`.
- In `FileDev` a **program** is a record: the lengths it reads, the strings it
  writes, whether it asks for statistics, and whether it goes on after a call.
  `usapp` writes its terminator and looks at no result; the programs of
  `previousyear1` make one call. `cat` and `echo` are not in the repository:
  they stand for reading in pieces and for a string that is too long. What
  `usapp` prints when a read gave nothing is its own old `read_buf`, which is
  not kept. `write.c` opens "/dev/chardev+" (line 6), which is not the
  driver's node; it is modelled as though it opened it, being the only writer.
- `device_read` of `chardev.c` loads `size` twice without a lock, for its test
  (line 37) and for its subtraction (line 40): `ReadCall` and `ReadLength` are
  two steps. A difference below zero is a large `size_t`, so that `Length` is then
  all that the program asked for.
- A use of one `modprobe` module by another is in `Lifecycle`'s `Uses`: the
  loader refuses a module whose symbols are missing and the removal of one
  that is in use.
- `got`, `answered`, `reads` and `writes` are history: no guard but the bound
  on calls reads them. So are `disturbed` and `garbled` of `FileDev`, which
  no guard reads at all.
- Definitions whose comment begins with "Mutant" are not part of any
  specification. Each is a plausible bug of the definition after it, put in its
  place to see that the property meant to catch it does.

## What the runs check

| Run | Instance | Result |
|---|---|---|
| `sembuf_signals` | 2 writers (one takes signals), 2 readers, buffer of 1 byte | `TypeOK`, `SemBalance`, `NoLostWakeup`, `CopyIntoEmpty` hold |
| `sembuf_channel` | 2 writers, 1 reader, no signals, 2 bytes, 2 byte values | refines `Channel`; `SleepingWriterWakes`, `WriterAdmitted` hold |
| `chardr_signals` | 2 writers (one takes signals), 2 readers that take signals, 1 byte | `TypeOK`, `SemBalance`, `NoLostWakeup`, `SynchronousWrite` hold |
| `chardr_pair` | 1 writer, 1 reader, no signals, 2 bytes, 2 byte values | refines `Rendezvous`; `WriterLeaves` holds |
| `chardr_consecutive` | 2 writers, 1 reader | `NoConsecutiveWrites` fails |
| `chardr_stranded` | 1 writer, 1 reader | `ReaderWoken` fails: both sleep for ever |
| `event_thread` | 2 callers, up to 2 reads and 2 writes, exit | `TypeOK`, `NoLostWakeup`, `NoPhantomEvent`, `EventConsumed` hold |
| `event_exit_lost` | 1 caller, 1 read and 1 write, exit | `ThreadEnds` fails |
| `rearm_timer` | 2 callers, periods 99, 100 and 200 | `TypeOK`, `LedTimerStopped`, `LedOff`, `TimerAlive`, `NewPeriodTakesEffect` hold |
| `file_device` | 2 processes that run any of their driver's programs again and again, 3 bytes of memory, strings of 0 to 3 bytes | refines `SafeFile`; `TypeOK`, `CopyInside`, `Terminated`, `PiecesEnd` hold |
| `lifecycle` | every pair of 16 modules, numbers 240, 241 and 269, any of them held by others | `TypeOK`, `NothingLeft`, `DeviceOnOwnNumber`, `OpenFileIsServed`, `OthersSurvive`, `OwnersGiveBack` hold |
| `timer_removed` | 1 caller | `TimerRemoved` fails for `timers.c` |

What they show, beyond the table:

- The multi2 driver takes no lock in `read`, and with one reader it does not
  need one: `buffer_length` is the hand-over token. That is what `Channel` and
  the refinement say. It stops being true with two readers (both may pass the
  test of line 31 on the same message) and with signals (line 63 goes on over
  unread data), which is why `ImplementsChannel` is checked with one reader and
  no signals. What is left with two readers and signals is `sembuf_signals`.
  Its `CopyIntoEmpty` says that an unsignalled writer copies only while
  `buffer_length` is 0. It does not say that the message before was read: a
  second reader's reset (line 43) counts as emptying the buffer, though it may
  discard a message that nobody read.
- A multi2 read returns `buffer_length` (line 46) after it has set it to 0
  (line 43), so it returns 0 for a message it delivered unless another one
  arrived meanwhile. One sequential test shows this and no run is spent on it;
  `ret` in `SemBuffer` has that value.
- In `previous2` the promise that survives everything is `SynchronousWrite`.
  The ones `read.txt` makes (no consecutive writes, sleep before releasing the
  semaphore) are not kept, and a reader that comes first is never woken.
- What a pair of `previous2` tasks hands over is the whole kernel buffer, with
  the tail that a longer message left in it: `Contents` of `Rendezvous` is the
  set of all buffers, not of messages.
- The two drivers without locks are exactly a safe file: what no write overlaps
  is right, what a write overlaps may be anything, and after a collision or a
  fault the next write that runs alone puts the file right. The last byte of
  chardev's memory is never anything but the terminator.
- `CopyInside` is about chardev's reads. One at the start of its file, which is
  all that `read.c` makes, stays inside the array whatever is written between
  its loads of `size` or during its copy; a later piece does when no write
  overlaps it, although earlier writes may have put the end in front of its
  position. Left out is the later piece between whose two loads `size` falls
  below its position: it copies all it was asked for. `FileDev` has that
  behaviour, and `cat` gets to it by reading pieces of one or two bytes.
  `chrdevdr` stays terminated only because `usapp` writes the terminator.
- Two things `FileDev` contains without a property of their own: `chrdevdr`
  copies `MEM_SIZE` bytes whatever length was asked for (line 50), which
  `usapp` always asks for; and a second read of the same open file finds its
  position at the end (line 45), though the position of a write stays at 0.
- The properties of `Lifecycle` name their exceptions, and each exception is a
  behaviour of the code that the run contains: multi2 leaves its first device
  registered when the second cannot be added; `timers` loses its class, whose
  name `dynquedr` then cannot use; `mmst` unregisters number 269 though it was
  refused; `ioctldev` puts a device on a number it was refused; a file opened
  while `multi2`, `led_driver` or `chrdevdr` is still in a failing init is left
  with freed memory. What holds for all the others, and for these in every
  other respect, is what the properties say: drivers that compete for a number
  neither use nor release one another's, a roll-back or exit gives back the
  number, the devices and their node, the GPIO line, the buffer and the class,
  and freeing the buffer before the device in `chrdevdr` is harmless because an
  open file keeps the module in place. `NothingLeft` does not speak of the
  kernel threads and timers: what becomes of those when a module goes is what
  `event_exit_lost` and `timer_removed` show. `OpenFileIsServed` leaves out the
  drivers that add their device before they initialise what it uses (`chardr`,
  `dynquedr`, `chrdevdr`) until their init is over.
- `EventConsumed` asks for an event to be consumed only while the module is
  loaded, because a thread that `rmmod` overtakes dies in freed code; and
  `ThreadEnds` fails although that death is counted as an end.
- `TimerRemoved` fails by `timers.c` alone: the callback that is running when
  `del_timer` returns queues the timer again before the module is freed.

### Bounds

Nothing bounds `SemBuffer`, `Chardr` and `RearmTimer` but the sets in the
table: their state is finite. Two writers are enough for one to hold the
semaphore while the other queues, faults or is interrupted; a third would only
lengthen a first-come list whose order two writers and the lemmas about it
already cover. Two readers are enough to pass one test together. A buffer of
two bytes is the least in which a copy can be seen half done, and is used
where the property is about contents; elsewhere one byte keeps the copy loop
and its fault. A length of `BUFFER_SIZE + 1` stands for all longer ones, which
the code treats alike. `MaxCalls` bounds `EventThread`: two reads and two
writes suffice for an event to be raised, wiped out and raised again, and are
needed only because the driver's counters grow. The periods lie below, at and
above the limit of 100. In `FileDev` nothing counts: two processes overlap in
every way two calls can, and a process starts its programs for ever. `BUFF` is
3, the least in which a string of two bytes, one shorter and one that leaves
no room for the terminator all exist; `MCTexts` has one string of each length
from 0 to 3, with different bytes at the same place so that mixtures show.
`MaxDrivers` bounds `Lifecycle` to two at a time: every clash in the sources
(a number, a class name, a module name) is one of two drivers, and the numbers
that others hold stand for a third.

### Deadlock

A run checks for deadlock unless an unloaded module makes stopping legitimate
(`event_thread`, `rearm_timer`, and the runs built on them) or a driver's
memory is gone in a way that makes going on undefined (`lifecycle`), or the driver
itself stops: in `chardr_pair` and the two failing `previous2` runs a writer
and a reader may both be asleep for ever, which is what `chardr_stranded`
shows.

### Fairness

`FairSpec` assumes that a task inside a call keeps running while it can (weak
fairness of `WriteStep(w)` and `ReadStep(r)` each): the kernel's scheduler runs
every runnable task. It assumes nothing of new calls or of signals. Being
admitted by the semaphore needs no fairness of its own, because `up` hands it
over. For the thread of `EventThread` and for finishing a wake-up or the exit
function the same holds. In `RearmTimer` a queued timer expires and a callback
that started goes on; nobody has to call the ioctl or to remove the module.
`WriterAdmitted` has the environment's part as its hypothesis: readers empty
the buffer again and again. In `FileDev` a program that was started goes
through with its calls and its end; `usapp` waits for a person at its menu, who
may leave it alone, and starting a program is never promised.

## What is proved

TLAPS proves every invariant that a passing run checks, the action property
`OwnersGiveBack` and two of the three refinements, for every value of the
constants: any number of tasks, any buffer size, any set of bytes and (where
not said otherwise) any set of tasks that take signals. The assumptions are the
named ones in the modules: writers and readers are disjoint, the buffer is not
empty, the default period is valid, and so on. Each inductive invariant is
`IInv` in its module, each `Invariance` theorem says that it holds, and the
named theorems follow from it.

| Module | Theorems |
|---|---|
| `SemBufferProofs` | `TypeOK`, `SemBalance`, `NoLostWakeup`, `CopyIntoEmpty` |
| `SemBufferRefinement` | `ImplementsChannel`, under `OneReader` and `NoSignals` |
| `ChardrProofs` | `TypeOK`, `SemBalance`, `NoLostWakeup`, `SynchronousWrite`; `ImplementsRendezvous`, under `OnePair` |
| `EventThreadProofs` | `TypeOK`, `NoLostWakeup`, `NoPhantomEvent` |
| `RearmTimerProofs` | `TypeOK`, `LedTimerStopped`, `LedOff`, `TimerAlive` |
| `FileDevProofs` | `TypeOK`, `CopyInside`, `Terminated` |
| `LifecycleProofs` | `TypeOK`, `NothingLeft`, `DeviceOnOwnNumber`, `OpenFileIsServed`, `OthersSurvive`, `OwnersGiveBack` |

**The semaphore.** `SemInv(T, H)` of `KernelSync` describes the semaphore's
wait list exactly: it holds the tasks at "down", each once. Without that the
balance is not inductive, since `up` could hand the semaphore to a task that
does not wait for it. `KernelSyncProofs` proves once, for any tasks `T` and any
holders `H`, what `down_interruptible`, `up` and a signal do to it; both drivers
with a semaphore cite these lemmas with their own `H`.

**`SemBuffer`.** The invariant is the conjunction of the four properties, each
needing the ones before it. `NoLostWakeup` and `CopyIntoEmpty` need `SemBalance`
for one step, `SetLength`: the writer that stores a message is the only one
inside, so no other writer can be asleep over, or copying into, the buffer it
fills. For the refinement, two more invariants say that the writer has copied a
prefix of its message (`WriterCopies`) and that the reader has received a prefix
of a message that is still there (`ReaderCopies`). Then `SetLength` is `Put`,
`ResetBuffer` is `Take`, and every other step stutters.

**`Chardr`.** `SynchronousWrite` is not inductive: it needs `Unanswered` (an
announcement that no read has withdrawn is still up, because only a read
withdraws one) and `AnsweredInCall` (a writer counts as answered only between
its announcement and its return). The rendezvous of one pair needs `OnOffer`
(whatever is announced has its writer waiting for the answer, so nobody fills
the buffer meanwhile) and `ReaderCopies` (the reader has a prefix of what is on
offer).

**`EventThread`.** `NoPhantomEvent` counts, and the flag is tested up to four
times in a round while others set it. What makes it inductive is `Pending`: as
long as the thread has not made its test for a read, a flag, or a loaded value,
of 1 is a read that was not counted yet; likewise for writes, one test later.
`WokenByEvent` adds that only the thread resets the flag.

**`FileDev`.** A process's locals are its own, so that one lemma
(`MovesStep`) reduces every step to the process that takes it. `ProcessOK`
states where the copy of a call ends, whatever others do to the shared memory.
A read at position 0 needs no more, since no `size` is below 0. For a later one
`Tested` says that a read which no write has disturbed still has in `size` what
it tested, so that its subtraction stays above zero. `Terminated` of `chrdevdr` needs `NulComing`: there is a `Nul` in the
memory, or a write that is not over yet brings one, as its last byte or in
place of the bytes that it cannot read.

**`Lifecycle`.** The argument has two halves. `ProgramOK` says what the lists of
statements have in common, and is proved of the sixteen modules one by one
(`multi2OK` to `testOK`): the number comes before the device, each roll-back
frees what was acquired before it, exit frees what the whole of init acquires,
the number goes last, and the exceptions are named. `DriverOK` says, of any
driver with such a program, that in init and after it a driver has what the
statements executed so far amount to (`Building`), and in a roll-back or exit
everything it has is freed by a statement to come (`Releasing`). Proving a
step has then two parts: what a statement does to its own driver
(`InitStatement`, `FailedStatement`, `ReleaseStatement`, `OopsedStatement`),
which knows nothing of the others, and that it leaves the others' holdings
alone (`StatementRule`). Two parts of the invariant are about more than one
driver: `ClassesOK` (the class of a name belongs to somebody who will give it
back, without which a `class_destroy` could take another's) and `AddStays`.

The first attempt at this proof failed on a number 269 that the kernel gives
away dynamically: `mmst` unregisters 269 even if it was refused, and the driver
that had been given it would be left with a device on a number it no longer
owns. The kernel's dynamic ranges (234 to 254 and 384 to 511) exclude 269, and
`MajorsAssumption` now says so. With drivers that ask for 269 there is only
`mmst` itself, so that the exceptions in `OwnersGiveBack` and
`DeviceOnOwnNumber` remain the only ones.

Only model-checked:

- everything with fairness (`SleepingWriterWakes`, `WriterAdmitted`,
  `WriterLeaves`, `EventConsumed`, `NewPeriodTakesEffect`, `PiecesEnd`), which
  is out of the prover's reach;
- that `FileDev` implements `SafeFile`, so far.

## What is not modelled

- The contents of log messages, `open` and `release` where they only log, and
  the modules that only print when loaded.
- `spinlock/spinlock.c`: it locks an undeclared `spin_aj` (line 48), line 112
  does not parse and line 114 uses an undeclared `dev`, so it has no behaviour.
- `static/dyn.c`: the text of `dynamic/dmmn.c`, and no Makefile builds it.
- The minor number: no driver looks at it, so the two nodes of `previousyear`
  and `previous2` are one device.
- In `previous3`, an open file at the moment init fails on the GPIO: what it
  does then is undefined, and behaviours end there for it.
- The user programs of the other drivers, except as the source of calls. In
  `previousyear1`, an ioctl command other than `GETSTATS`, which no program
  sends; in `modprobe`, the arithmetic.

## Plan

Done, in this order: the multi2 buffer with its channel and proofs; the
`previous2` driver; the event threads; the timers; `Lifecycle`; the drivers
without locks with their safe file; the modules that use one another.

Proved since: the semaphore lemmas over `KernelSync`; the invariants of every
component; `Chardr` as a `Rendezvous` for one pair; `OwnersGiveBack`.

Next, prove:

1. That `FileDev` implements `SafeFile`. It needs, over `ProcessOK`, what the
   memory holds while no write is under way (the last whole write's string, or
   anything once `garbled`), and that a call which no write has disturbed has
   copied a prefix of it.
2. The action-level part of the liveness arguments, where it is a safety
   property of its own: which step each sleeping task waits for, and that no
   other step undoes it.
