# Verification of the mipt programs

This directory holds TLA+ models of the programs of the repository, the TLC
configurations that check them, and proofs that TLAPS checks. The repository is
a collection of separate programs, most of them small and most of them about one
thing: processes, threads, ranks or interrupts that have to agree. Each program
has its own module. Nothing connects the programs to each other, but several
solve the same problem, and those share an abstract specification.

## 1. The system

| Component | Source | State | Operations | What makes it correct |
|---|---|---|---|---|
| Ring buffer | `WindowsOS/RingBuffer` | buffer with read and write pointer and a state flag, counters of readers and writers, the events `hReadLock`, `hWriteLock`, `hFlushLock`, the flush events and a timer | `writeInRingBuf`, `flushRingBuf`, the flush thread with `iTakeFromRingBuf`, `constructRingBuf`, `destructRingBuf` | the four lock functions exclude; no copy leaves the buffer; the log is the messages in order; nobody waits for ever |
| Kernel logger | `WindowsOS/kLogger` | the same, with the interrupt request level of every thread | the same, with every raise and lower of the level | waits happen at `PASSIVE_LEVEL`; a call gives its caller's level back; what is freed is used by nobody but the destructor's last read |
| Mouse filter | `WindowsOS/mouseDriver` | the device and its extension with the saved connect data, the port driver's and the class driver's queues, the read and the remove request | dispatch routines, service callback, completion routine, `AddDevice` | every report is inverted once; when the device is deleted no callback, no completion routine and no passed request of it is left |
| Shared memory copy | `Linux/shared_mem` | a segment of memory, five semaphores with their undo values | a reader and a writer, each started, killed and started again | one of each kind; no chunk read while it is filled; the output is the input |
| Signal copy | `Linux/signal` | the byte under way, counters changed by handlers, pending signals, an alarm | a child that sends bits, a parent that answers | the output is the input; both end |
| FIFO copy, smart | `Linux/fifo_copy/smart_fifo_copy.c` | the common FIFO, a FIFO named after each writer | readers and writers that find each other | a writer has one reader; a pair copies the whole file |
| FIFO copy, simple | `Linux/fifo_copy/simple_fifo_copy.c` | the name `Fifo`, the FIFO behind it, `errno`, a person at the keyboard | a reader and a writer that both remove the name | a pair copies the whole file; whoever answers the prompt gets in |
| Proxy server | `Linux/proxi_server` | a line of children, pipes, the parent's buffers | `select` loop, children's copy loops | the stream arrives whole; end of file arrives last; everybody returns |
| Message chain | `Linux/message` | a message queue | children that print in turn | the order; everybody has a turn |
| Semaphore ring, syn | `ParProg/MPI/ring`, `ParProg/MPI/syn` | one semaphore with undo values | ranks that print in turn | the order; the semaphore exists while it is used |
| Parallel sort | `ParProg/MPI/sort` | every rank's part, messages under way | merge tree | nothing lost, the root has it all, sorted |
| Message rings | `ParProg/MPI/ring/mpi_ring.cpp`, `ParProg/MPI/ping_pong` | messages under way, the rank the master turns to | ranks that pass a message | the order; all come to an end |
| Sweep | `ParProg/OpenMp/sweep` | the equations of every level, the solution, each thread's loop | Newton's iterations with a parallel reduction | threads use only what is finished and leave together |
| Series | `ParProg/MPI/exp`, `ParProg/OpenMp/sin` | sums of doubles | each rank's or thread's share, one reduction | rounding |
| UART | `tku/Lab_4041B` | registers on two clocks | transmitter, receiver | every byte arrives, unchanged and in time |
| SPI | `tku/Lab_407ND` | registers on one clock and on the edges it makes | master, slave | a word each way in one transfer |
| ARINC 429 | `tku/ARINC_429` | registers on one clock | transmitter, receiver with parity | the word arrives; another one may follow |
| MIL-STD-1553 | `tku/MIL-STD-1553` | registers on one clock, a delay line | transmitter, receiver that finds the sync pattern, buffer | command and data words reach their registers; none appears from nowhere |
| Ciphers | `InformationSecurity` | strings, images | encrypt, decrypt, find the key | decryption undoes encryption |

How the parts of a program interact, and what is hard there:

* **Ring buffer and kernel logger**: threads share one structure. Writers reserve
  their place in one critical section, copy outside it, and come back to a
  second one. The flush thread looks in one section, waits for `hFlushLock`,
  copies outside, and stores what it computed from what it saw. Everything that
  is read in one section and used in the next may be stale. The lock itself is
  built from events and a counter.
* **Shared memory**: two processes and the kernel, which applies the undo values
  when one dies. Any of a dozen points may be the last one of a process, also one
  in the middle of a buffer, and another may be started afterwards on what is left.
* **Signals**: handlers interrupt the parent between any two instructions,
  signals of one kind do not count, and a signal may be handled just before the
  `sigsuspend` that was to wait for it.
* **FIFOs**: processes meet by sleeping long enough; a name once written may be
  taken by a process that comes much later. The simple copy has one name for
  everybody, and whoever ends removes it, whoever else waits behind it.
* **Mouse filter**: the same report may be offered to the callback more than
  once, and the device may be removed while requests and calls are under way, which
  the filter does not count.
* **Proxy server**: flow control along a line of bounded pipes and buffers, with
  the end of file travelling behind the last byte.
* **Turns** by semaphore or queue: who may go next, and what a process that ends
  early takes with it.
* **Parallel sort**: a tree of any number of ranks, two messages per edge.
* **Message rings**: MPI may let `Send` return before the message is received or
  only then.
* **Sweep**: each loop reads what other threads wrote in the loop before, with
  only the barrier at a loop's end between them; each thread decides for itself
  whether to go round again.
* **Serial links**: both sides count clocks, from different starting points and,
  in the UART, with different clocks; what marks the beginning of a word must not
  be found where there is none.

`PROJECT.json` lists under `hazards` every such place with its line and the
properties aimed at it.

## 2. Modules

```
RWLock  <-- refined by --  RingBufLock      RingBuffer (uses the lock as one step)
                               |                |
                        RingBufLockProofs   RingBufferProofs

Turns   <-- refined by --  SemRing, MsgChain, MpiTurns      PSort
                               |                              |
                               +------ ParallelProofs --------+

SharedMem   SignalCopy   ProxyServer   each with a module ...Proofs
KLog and MouseFilter with DriverProofs   SmartFifo and SimpleFifo with FifoProofs

Link    <-- refined by --  Uart, Spi (two of them), Mil1553 (its command words)

MCDrivers  = KLog, MouseFilter
MCLinux    = SignalCopy, ProxyServer, SmartFifo, SimpleFifo
MCParallel = SemRing, MsgChain, MpiTurns, PSort, Sweep, RingBufLock
MCLinks    = Uart, Spi, Arinc429, Mil1553
MCSharedMem = SharedMem     MCSignalCopy = SignalCopy     MCMil1553 = Mil1553
```

The modules MC... give values to the constants. The first four hold several
programs that have nothing to do with each other: a variable, chosen at the
start, says which one runs, and the others stay in their initial state. A
behaviour of such a module is a behaviour of one program, so that a property of
one is checked in exactly its behaviours; the fairness is that of each program,
conjoined with the choice. Properties that name `program` say what the one
program comes to.

**RWLock** is what the comments of `RingBuffer.c` expect of its lock: any number
of readers or one writer.

**RingBufLock** models `vReadRingBufLock`, `vReadRingBufUnLock`, `vWriteRingBufLock`
and `vWriteRingBufUnLock`. Every call of Win32 is a step, and `++dwReaders` and
`--dwReaders` are a load and a store each. `lpc` is where a thread is in the four
functions. The events reset themselves when a wait succeeds, and a wait for both
takes both or none.

**RingBuffer** models the rest of `RingBuffer.c` and its callers in `main.c`. A
critical section is one step; that is what RingBufLock justifies. Outside them
every copied byte of a writer is a step, and what the flush thread takes is one
step between two others. `wr`, `ww`, `n` and `k` are a writer's locals (`read_p`,
`write_p`, the length and how far it has copied), `fr`, `fw` and `num` those of
the flush thread. `hist` is the sequence of all reserved bytes, `owed` the cells
whose bytes have not been taken, `lost` says that one was overwritten. `stale` says that
a place was granted since the flush thread looked, `emptied` what the last EMPTY was
stored over: nothing, places granted since, or a buffer that the thread had seen FULL
and taken 0 bytes of, because `sizeBusySpaceInRingBuf` counts none there.

**KLog** is the same buffer with `level[t]`, the interrupt request level of each
thread, and with the variables `irql` and `saved` that the code keeps levels in.
The contents of the buffer are left out. `KeRaiseIrql(x, &x)` both reads and
writes its variable, as it does in the code. Every lock function of a writer and of the
flush thread saves the level in its own `irql` (`saved`), lowers, waits and raises; the
flush thread holds the read lock from `Look` until the wait of `ReadUnLock` is over.
`RaiseFromFreed` is the last line of `destructKLog`, which reads `kl->irql` from what it
has freed and may find any level there.

**MouseFilter** models `viponMouse.c` at either of the two places its comments
speak of. The port driver's queue is changed in place by the callback, as in the
code, and the class driver may leave reports in it (`refused` remembers which).
The remove request is three steps: passed down, returned by the lower drivers,
device deleted. It comes at any time, whatever has entered the filter or was passed
down by it, since `DispatchPnp` waits for nothing. Assumed of the lower drivers is that
they, with their remove locks, return from the removal only when no DPC runs and every
request that they held is answered and its completion routine back, and that from then
on they refuse requests and make no calls. A read or another request is first
`entered` and then passed down, so that the device may be deleted between the two: what
it finds then in `pLowerDO` is anything, and it may never come back (`lost`).
`inverse` of the extension is never read.

**SharedMem** models `mem.c`: `sem`, `undo` per process, the segments (`shmctl` with
`IPC_RMID` makes the next process get a new one), what a chunk came from, and `pc`
per process. To fill the segment is two steps, and between them it holds a torn
buffer (`Torn`), which a writer can only meet if the reader is killed there. The
kernel's undo is applied in the step in which a process ends, however it ends, the
`return -1` of a reader whose file does not open among them. `stranded` is a history
variable: it says that a writer died half way through a chunk and no undo value was
left to give semaphore 0 back.

**SignalCopy** models `signal.c`. `--sig_m` is a load and a store between which
handlers run. `ppending` and `cpending` are sets: signals do not count. `Bits`
is the number of bits in a byte. `Prompt` says that the alarm goes off only when
nothing else can happen, which is what ten seconds are for; both runs set it. A
file in the runs has no byte of ones, which a `char` cannot tell from `EOF` and at
which the program stops.

**Turns** is the order that three programs promise. **SemRing** (`sem_mpi_ring.c`
and `syn.c`) and **MsgChain** (`msg.c`) refine it.

**ProxyServer** models `serv.c`. A pipe holds `PipeSize` elements, the buffer in
front of child k holds `(n - k) * Unit`. One step is one `read`, `write` or
`select`; a blocking write of a child is as many steps as it takes to fit. The
code's loops reach `buf[n]`, one past the array; the module's header says what
lies there.

**SmartFifo** models `smart_fifo_copy.c`. Names of writers are the writers
themselves. Naps may last any time; `short` becomes true when one ended before
what it was to wait for.

**SimpleFifo** models `simple_fifo_copy.c`. `name` is the inode that `Fifo` names
at the moment, `held` the inode each process has open or waits for in `open`: an
inode outlives its name. `errno` is a variable of every writer, since the retry
loop depends on who sets it and who does not. The person enters one of the
letters asked for.

**PSort** models `psort.cpp`. `Merge` is its loop: the recursive function `Taken`
says how many numbers the first array has given after each turn. `qsort` puts a
number where `cmp` says it goes, behind all that are smaller. A rank's `Send`
returns without waiting for the receive (`Sent`); one that waits for it, which MPI
may also use, is not covered there, only in MpiTurns.

**MpiTurns** models `mpi_ring.cpp` and both ping pongs: `Target` and `Source` say
who talks to whom. `copies` says whether MPI lets `Send` return at once.

**Sweep** models `sweepB1.cpp` and `sweepB2.cpp`, which differ in one sign. Every
iteration of a loop is a step. Numbers are elements of a finite field, in which
the elimination is as right or as wrong as with exact numbers, and which makes
every premature read a wrong result instead of a small error; `5 / 6` is 0, as in
C. A new array holds anything.

**Link** is what a serial link promises: a word that was taken arrives, once and
unchanged, and nothing else does. **Uart**, **Spi**, **Arinc429** and **Mil1553**
translate the Verilog register by register: one action is one edge of the clock,
a wire is an operator. The words are sequences of bits, so that a shift is a
`Tail` and an `Append`. In `Mil1553` the delay line of 75 clocks is kept as run
lengths, which hold the same and make a state small.

### State and actions beside the code

The table `map` of `PROJECT.json` gives the lines of every definition. Actions
bear the name of the function they are (`one`, `zero`, `f_ex`, `al`, `up`,
`Merge`, `CheckSort`, `shft_left`) or of what a stretch of `main` does. Variables
bear the names of the code's variables where it has them.

## 3. Runs

One run for each of the programs that needs one of its own and one for each family
of programs, with all their properties, and six for claims of the repository that
the code does not keep.

| Run | Bounds | Shows |
|---|---|---|
| `RingBuffer` | 4 cells, pages of 2, messages of 3, two writers with 2 messages each | copies inside the buffer; no flush of a cell being filled and a log in order as long as nothing was overwritten; overwriting only from FULL or from an EMPTY stored over bytes; writers finish unless the buffer is EMPTY by its flag only; `destructRingBuf` returns |
| `RingBuffer_space` | the same | the space promised by the comment of line 520 is not there: violated |
| `Drivers` | logger: one high and one low thread, 4 cells, messages of 1 and 3; filter: 3 reports, relative and absolute, a class driver with room for 2 | waits and Zw calls at `PASSIVE_LEVEL`, a level is lost by a retry only, the flush lock mirrors the writers, all threads but the destructor's have left what is freed; at its deletion nothing that the filter's device was asked for or passed down is left but what has only entered it, reports are inverted once and in order |
| `SharedMem` | two readers, two writers, 2 chunks, two faults: kills, at most one failed read, files that do not open | one of each kind inside, no copy while filling, also after restarts; the messages about dead friends are true; before the first restart the output is faithful and survivors end |
| `Linux` | signal: 3 bytes of 2 bits, one kill; proxy: 3 children, 4 pieces, buffers of 3, 2 and 1, pipes of 2, two losses; smart FIFO: two readers, two writers, naps of any length, one kill; simple FIFO: two readers, two writers, files of 2, a FIFO of 1, one kill | see section 3.1 |
| `SignalCopy_copies` | no kill | the rest of the file is lost after a lost wakeup: violated |
| `SimpleFifo_y` | one reader, two writers | the writer who enters 'y' is asked again for ever: violated |
| `Parallel` | 5 ranks at the semaphore, 7 children at the queue, 4 ranks with messages; a sort on 5 ranks of 5 numbers, 4 asked for; a sweep of 3 levels by 3 threads, numbers modulo 7; at the ring buffer's lock two readers, one of which also writes, as the flush thread does, and another writer | see section 3.1 |
| `Links` | bytes of 8 bits with 36 clocks a bit and 3 missed edges, SPI words of 4, ARINC words of 2 and 3 bits and any value, MIL words of 5 bits at the real 25 clocks of half a bit | see section 3.1 |
| `Arinc429_end` | the same ARINC words | a word's transmission never ends, and no second one is sent: violated |
| `Arinc429_ok` | the same ARINC words | the receiver confirms a word when it holds it shifted by one bit: violated |
| `Mil1553_ok` | words of 16 bits, the two that the lab sends | the receiver confirms words that were not sent: violated |

### 3.1 The runs of a family

`Linux`:

* `SignalInv`, `SentAlone`, `SignalEnds`: the output is a prefix of the file, no two
  bits are under way, the child ends, and the parent ends or misses a `SIGCHLD`.
* `ProxyInv`: what is in the pipes and buffers, with the destination, is the
  source in order; a pipe is closed when everything before it is drained; what
  `select` reported stays ready until it is used. `ProxyEnds`: all return, and the
  file is there if nobody was lost.
* `SmartInv`, `OutputsAreRight`, `NapsAreEnough`: a name is in one place; outputs
  come from one writer; with long enough naps pairs copy whole files and nobody
  gives up on a partner that took his name; whoever naps ends.
* `UndisturbedPairCopies`, `StandingNameHasWriter`: a reader and a writer that had a
  FIFO to themselves copy the file, although a third process may remove the name
  or put another FIFO under it; and no name is left behind, where the next writer would
  be asked about it for ever: unless somebody is killed it stands only while a writer
  is on its way to it, has its FIFO or is about to remove it.

`Parallel`:

* `IInv`, `ImplementsTurns`, `SemEnds`; `MsgIInv`, `MsgTakesTurns`, `MsgEnds`;
  `MpiTakesTurns`: the order, by refinement of Turns, and who may be left waiting.
* `SortInv`, `SortEnds`: no number is lost or doubled on its way up the tree, a
  part is as long as announced, the root ends with all of them sorted.
* `SweepSolves`: whenever a thread looks at the norm, the correction it looks at
  solves the system that was set up, unless a divisor was 0; and all threads leave
  the iterations together.

* `LockInv`, `ImplementsRWLock`, `WaitersServed`: exclusion with its inductive invariant,
  refinement of RWLock; leaving a reader's section always succeeds, writers are served
  if the readers leave gaps.

`Links`:

* `UartIsLink`, `SpiIsTwoLinks`: refinements of Link with its fairness.
* `WordArrives`: the ARINC word arrives and stays, and the receiver reports no
  other one but, after power-up and before the word's last bit, the word shifted by
  one bit, because it has counted a bit that was none.
* `MilWordsArrive`: command words refine Link; data words all arrive, and the data
  register takes nothing but them and, on a false confirmation, the last word again.

Several properties are conditional, because the code keeps them only under the
condition: `~lost` in RingBuffer, `NoSuccessor` and `~stranded` in SharedMem, `~short` and
`killed = 0` in SmartFifo, `kills = 0` in ProxyServer, divisors that are not 0 in
Sweep. States on both sides of the
condition are reached in the same run.

### Why these bounds

* Buffers: with 4 cells and pages of 2, messages of 3 begin at every cell, wrap
  after one, two or three bytes, fill the buffer exactly, are flushed in parts,
  and have to wait for space. All three values of `state` and both branches of
  each copy occur. Two writers are enough for all orders of reserving and
  filling.
* `Messages` and `Chunks` bound how long the callers go on, `MaxKills`,
  `MaxCrashes` and `MaxErrors` how much goes wrong. One or two are enough to hit
  every point of every process, because TLC chooses the point. In SharedMem `MaxFaults`
  bounds kills, failed reads and outputs that do not open together: two kills are needed
  to strand semaphore 0, and one kill with one failed read for what a restart does to
  garbage. The two readers differ in nothing but when they start, nor do the two
  writers, so that the run lets the same one of each start first.
* Bits: in `signal.c` a byte of two bits has a first and a last bit, which is what
  the counters tell apart. In the links a word has more bits than the places that
  the protocol tells apart: first, inner, last, parity.
* Clocks: `Nt` is 36 instead of 1302, a MIL half bit is the real 25. In the UART the
  receiver's bit is one clock longer than the transmitter's; over ten bits that and
  three missed edges use up most of the half bit of 18 that is allowed, much more
  than at 1302.
* The grid: three levels give every loop of the reduction and back substitution
  with one, two or more indices for three threads, and one thread without any. The
  field has 7 elements; `Eps` is 4, so that iterations are both repeated and ended.
* Ranks: five leave ranks without a partner in two rounds of the sort. The three
  arrays of the run have the larger numbers at different ranks.
* Pipes: in ProxyServer a pipe holds less than child 0 reads at once and than
  the first buffer holds, so that writes are cut short and both get full.
* Children: the number in MsgChain is odd, so that a message to the wrong child
  does not happen to reach the parent.

### Fairness

Every process, thread or rank that can run does (`WF` per actor, never per action):
that is the scheduler of the systems these programs are written for. Sleeps return
and armed alarms go off. Nobody is ever obliged to be killed or to fail in a fork,
and a rank that called `MPI_Finalize` is not obliged to exit, as the library may
make it wait for the others. A thread that waits for an event of the lock that is
raised again and again gets it at some time (`SF`). `RingBuffer`'s `DestructReturns`
is an implication: `TimerLeavesRoom` says that the flush thread is not always so
slow that the timer has fired again before it is back, because the exit event is
looked at last. The person who uses `simple_fifo_copy` answers its prompts. The
clocks of the designs run; in the UART either may miss an edge now and then, never
all of them. For `Send`, the semaphore and the sort nothing is assumed but that a
rank that can go on does.

Deadlock is checked in `RingBuffer`, `RingBuffer_space`, `Drivers`, `Arinc429_end`,
`Arinc429_ok`, `Mil1553_ok` and, for the lock, `serv.c`, the rings of
messages, the sort, the sweep and the links, in the runs of the families, where
`Stops` is the stutter allowed to the others: their processes may end, or be left
waiting for a partner that was killed or gave up. The remaining configurations
switch it off for the same reason.

## 4. What the runs found

Six runs refute a statement of the repository; they are listed under `findings`
with the line that makes the claim:

* `EnoughSpace`: a full ring buffer counts as free, since `sizeFreeSpaceInRingBuf`
  answers the whole size for equal pointers, whether the state is EMPTY or FULL.
* `CopiesFile`: `signal.c` loses a wakeup between `kill` and `sigsuspend`, and with
  it the rest of the file.
* `YGetsIn`: the writer of `simple_fifo_copy.c` who answers the prompt with 'y' gets a
  new FIFO and the prompt again, since `errno` is still `EEXIST`.
* `WordEnds`: the ARINC transmitter's interval after a word is counted with a clock
  that has stopped by then; only the first word is ever sent.
* `ReceiveCompletedCorrectly`: the ARINC receiver counts a bit when the power comes on,
  so that it reaches 32 before the word's last bit; if the word's parity bit is 0 it says
  "completed correctly" while its address and data are those of the word shifted by one
  bit.
* `OkIsOfAWord`: the MIL-STD-1553 receiver confirms a reception in the middle of a
  sync pattern, if its free counters happen to stand right.

The other places where the code does less than one would expect are stated as the
strongest property that does hold, so that a run checks that nothing else goes
wrong:

* `OverwriteOnlyFromFalseState`: an unread byte is overwritten only from a state that
  lies, in one of three ways: FULL, taken for free; EMPTY, stored by the flush thread from
  an old write pointer, over places granted since; EMPTY, stored over a FULL buffer, of
  which it took 0 bytes because `sizeBusySpaceInRingBuf` counts none. Overwriting in the
  second way takes messages of different lengths, which the run does not have (the
  theorem covers it); the other two are reached.
* `WritersFinishOrFalseEmpty`: a writer waits for ever only in an EMPTY whose pointers
  differ, which is one stored from an old write pointer.
* `LogIsRight`: the flush lock is waited for and not taken, so writing and flushing
  overlap; that alone does no harm.
* `OthersHaveLeft` speaks of all threads but one: `destructKLog` frees the structure and
  then reads the level to go back to from it (`kLogger.c:449-451`), so that the driver
  may be left at any level.
* `DeletedIsLeft` rests on the lower drivers alone. The filter has no remove lock:
  a request that has entered it and is not passed down yet may find the device
  deleted and read `pLowerDO` from what was freed. The model lets that happen, the
  property does not exclude it.
* `LevelLostOnlyByRetry`: the kernel logger loses its caller's level, and only after
  a retry.
* `UpsideDown`: a report that the class driver did not take is inverted once more
  with each offer.
* `MilWordsArrive`: a false confirmation does no more than store the last word again.
* `WordArrives`: the early confirmation of `ReceiveCompletedCorrectly` is the only wrong
  one, and the word itself arrives behind it.
* `OutputFaithful` counts out what a failed read leaves in the buffer: an
  `unsigned char` is never less than 0, and `mem.c` hands the garbage over. After a
  failed open of the output it goes on too. A killed reader's undo releases the writer
  once more, which copies the last buffer again, or one that is half stored: the output
  is then a prefix with one such buffer behind it. Once a process has taken the place of
  another, a reader or writer may declare its friend dead who is alive.
* `NoCopyWhileFilling` counts out `stranded`: the second reader's `SETVAL` of
  semaphore 0 drops the adjustments of an old writer that is still inside; if that
  writer is then killed between its two steps down, semaphore 0 stays odd, and the
  next writer copies while the reader fills.
* `SignalEnds`: the parent of `signal.c` hangs only if it handles `SIGCHLD` between
  `kill` and `sigsuspend`.
* `SemEnds`: ranks are left waiting only if one exited early, because
  `SEM_UNDO` takes its unit back.

## 5. Proofs

All proofs are for any values of the constants allowed by the modules' `ASSUME`s:
any finite sets of threads, any sizes, lengths, numbers of ranks and children; of
SignalCopy, those with `Prompt`.

**RingBufLockProofs.** `WriterAlone` is not inductive: that a writer that gets both
events is alone depends on what the events mean. `LockInv` says it: `OneHolder`
(`hWriteLock` is a mutex), `ReadLockDown` (`hReadLock` is down exactly while a
thread counts itself in, is counted, or writes), `NoReaderBesideWriter`,
`LoadedFresh` (what a thread loaded of `dwReaders` is still its value) and
`ReadersCounted`. Each step preserves it, step by step; steps of the same kind
share a lemma. `Exclusion` follows, and `Implements`, in which every step of the
lock is a step of RWLock or leaves its variables alone.

**RingBufferProofs.** `FlushLockMirrorsWriters` needs no more than the types.
`CopyStaysInside` needs `LocalsFit`: the pointers a writer or the flush thread
keeps are old, but the room they promised still bounds the copy. `LogIsRight` needs
`LogIInv`, which gives every byte ever granted a place, counted from the start of
the program: `PlacesKnown` (the pointers are the ends of the owed places, modulo
`Size`, and of the states only an EMPTY may lie that was stored over something, as
`emptied` tells), `SnapshotKnown` (what the flush
thread saw is a prefix of what is owed now), `BytesInPlace` (there are places for
the messages of the copying writers, behind those that the flush thread copies, and
everything else that is owed is in the buffer) and `FileKnown`. It is conditional on
`~lost` but for `FlusherKnown`. `OverwriteNeedsFalseState` follows: while the state
is PART_FILL, or an EMPTY stored over nothing, `PlacesKnown` makes the computed free
space truly free.

**DriverProofs.** Of the kernel logger: `Inv` is not inductive: who has left what is
freed follows from the order of the end, and `LevelIsKept` from where a level is
kept. `KInv` adds `LevelsKept` (the level a writer came with is in `irql`, in the
thread, in `saved`, as its `pc` says, or lost by a retry), `Ending` (`destructKLog`
starts behind the last writer, `kExit` behind the flush thread) and `LocalTypes`. It
is assumed that the writers are finitely many and not the flush thread or the one
that unloads the driver. Of the mouse filter: `MInv` says where every report is
(`AllThere`: received, in the reader's buffer, in the class driver's or in the port
driver's queue, in the order of the mouse and turned as often as its place and its
refusal say), who may call the filter (`Stack`), what may be below it at each point
of a removal (`Removal`) and that only reports that were made have been refused
(`History`). `MouseInv` and `UpsideDown` follow.

**SharedMemProofs.** `Inv` needs what the five semaphores mean. `Undos` says which
adjustment a process has at which place, `Places` that semaphores 3 and 4 are 1 while
somebody is inside; from these `OneOfEachKind`. `Announced`, `Partners` and `Couple`
are the meeting: semaphores 1 and 2 are not 0 only while their owner lives, and
nobody goes on without a partner that was there; from these `ByeMeansGone`.
`BufferKnown` is semaphore 0: between its first `SETVAL` and the meeting a reader
knows an upper bound, and from the meeting on its exact value together with the place
of the writer; from it `NoCopyWhileFilling`. The proof found `stranded`, which one
kill does not reach: without that condition `BufferKnown` is not kept.

`OutputFaithful` needs `OutInv`, which adds the data to where the two stand. `Begun`
says what is empty until a process starts. `Faced` is a reader and a writer that
have met: they have the same segment, and the place of the reader decides whether
the buffer in it is in the output already (`Copied`) or not yet (`Unstored`, `Half`,
`Uncopied`); between `filled` and `check2`, where either of the two may be ahead,
semaphore 0 and the place of the writer decide (`Offered`). The buffer of a reader
that was killed may be any of these, and the writer copies it all the same: that is
the one buffer that `OutputFaithful` lets come twice or torn. `Owed` says that the
kernel still has a writer's adjustments, so that before the first restart nobody is
stranded, and `Closed` that a writer ends only behind the last byte.

**FifoProofs.** Of `smart_fifo_copy.c`: `FInv` is `Names` (a name is written once,
and then in the common FIFO or with one reader), `Streams` (an output, then the
pipe, are the beginning of one writer's file), `Served` and `Waited` (without kills,
and with long enough naps, who is past his nap has had his partner). `SmartInv`,
`OutputsAreRight` and the safety half of `NapsAreEnough`, `TakenIsServed`, follow.
Of `simple_fifo_copy.c`: `SimpleIInv` is `OpenedOnce` (a process opens one inode in
its life), `NobodyLeftWaiting`, `OneSided` (through an inode that one side only has
opened nothing has gone, and who has left it was killed) and `PairsStream` (what a
reader has and its FIFO holds is what the writer it shares the FIFO with has read).
`OneSided` is what makes `PairsStream` true at the moment the second of the two
comes. That `mkfifo` always finds an inode that nobody has open is a count: there is one
more of them than processes. `NoNameIsLeft` takes `NameInv`: a reader leaves the inode
that has the name only by removing the name (`ReadersStay`), and a writer that copies
has had a reader (`HadReader`), so that one whose readers are gone, which `SIGPIPE`
kills, leaves no name.

**SignalCopyProofs.** Assumed is `Prompt`: everybody answers before the alarm goes off.
`BIInv` says whose turn it is (`Turnwise`: while a bit is pending, or the parent is
busy with one, or the child has not heard the answer, the child waits or is dead),
that the buffer is the remainder of the byte by a power of two (`BufferIsRight`), that
the pending signal is the byte's next bit (`BitIsRight`) and which byte and bit the
child is at (`ChildIsAt`: the parent's byte, the one before with all its bits sent, or
the next with none). `count_m` may run past the bits of a byte after lost wakeups; the
last three say nothing then, because the parent writes no more. `SentAlone` follows
from `Turnwise`, `OutputIsPrefix` is kept because of the others. That
`2^(k + 1) = 2 * 2^k` is not among the provers' rules: it is proved by counting the
subsets of a set with one element more.

**ProxyServerProofs.** `PInv` cuts the file: there are numbers m, t, b and f for every
child such that its memory, the pipes to and from it and its buffer hold the bytes
between two of them, in order (`Holds`, `Joins`, `Ends`), together with the types, what
is known while children are forked (`Forking`), what `select` reported (`Reported`) and
that a pipe is closed only behind what was drained (`Closed`). The numbers take the
place of the recursive function `Line` of `StreamIsWhole`. The library's induction
theorems cannot be used, but that a set of numbers has a least element can
(`LeastElement`, from `WFMin`): it gives the function its equations (`LineIs`) and the
induction along the line of children (`LineIsRest`). `ProxyCopiesFile` is the safety
half of `ProxyEnds`: when all have returned and nobody was killed, the destination is the
source. `Source` is assumed to be a sequence.

**ParallelProofs.** Of the sort: `NothingLost` compares two counts, of which no step
preserves a part. `SortIInv` is `Shape /\ Spread` instead. `Spread` says that there is a
bijection from the places of the array to the places in all parts and messages under
way that leads every number to itself; each step that moves numbers (`Sort`,
`SendNumbers`, `ReceiveNumbers`) brings a bijection of its own, between the places that it
empties and those that it fills, and `CellsMove` joins the two. `GoesIsBijection` is the
one of `qsort`, `MergeIsBijection` that of `Merge`: a turn of its loop takes from the
place where one of the two indices stands, and no turn leaves both where they were.
`Shape` is the tree: `InTree` and `Behind` say that what was sent to a rank in the
rounds behind it has arrived, so that nothing is under way at the end and nobody but
`ROOT` then owns a part; `Message` and `Told` that a part does not change once its
length is told; `Ordered` that what went through `qsort` or `Merge` is in order. That
a rank sends to the one that waits for it is arithmetic with powers of two
(`StepDivides`, `PartnerSends`). `SortLosesNothing` follows, since a bijection keeps the
number of times a value occurs, and `SortEndsSorted` by `RootHoldsAll`. Nothing is
assumed of the number of ranks, in particular not that it is a power of two. The
induction over the turns of `Merge` is by least elements, as in ProxyServerProofs:
`TakenHasSolution` and `TakenIs` give the recursive function its equations, and
`TakenBounds` and `TakenGrows` look at the first turn that would break them.

Of the semaphore: `InOrder` and `OneTurn` say that its units are the
number of ranks that printed, minus what exits took back, or 0 while a rank has its
turn; `UndoIsOne` that an exit takes one back; `RemovedAfterUse` that the semaphore
exists. `SemImplements` follows from the first two. Of the message queue: the turn is
in one place, with a child or in the only message. Of the messages: `Places` says
which ranks have had their turn, `Letter` that a message under way is the only one and
for whom it is, `Sender` that a rank about to send has the turn. All three programs
implement the safety part of Turns, `MpiTurns` with whatever `Send` does.

In every module the steps of the invariant are proved action by action. The
libraries' facts about finite sets (cardinality of a set with one element more or
less) are cited by name.

Only model-checked:

* everything under fairness (what eventually happens), and everything about
  `ENABLED`, because the provers have no rules for it: all the properties named
  `...Ends`, `NapsEnd`, `SurvivorEnds`, the second halves of `NapsAreEnough`,
  `ProxyEnds` and `MpiTakesTurns`, and that locks and prompts let everybody in;
* `SweepSolves`, which is about what an elimination over a field computes for every
  input;
* without `Prompt`, everything about SignalCopy;
* and, for now, the links, whose properties are refinements with fairness of clocks
  counted against each other.

## 6. What is not modelled

* `exp.cpp`, `vexp.cpp` and `sin_1_x.c`: sums of doubles whose parts meet in one
  reduction. What could be wrong is rounding.
* The ciphers and their solutions: sequential loops over the bytes of a text or an
  image, each a function of its input, with nothing concurrent, stored or retried.
* `pipe_cat` behaves as ProxyServer with one child; `get_value`, displays,
  multiplexers, testbenches, pin files and images have no behaviour over several
  steps.
* Buttons that clear registers in the designs, metastability, and the time a
  signal takes between two registers.
* Failing system calls whose only effect is that the program ends before it
  shares anything; printing; the contents of messages where only their length or
  their order matters.
* Rounding and convergence in the sweep.
* Short writes to regular files, memory layout (the name buffer of
  `smart_fifo_copy.c`, the size of a message that wraps), and files left by an
  earlier run.
* A process that is denied the processor for longer than an alarm or nap, except
  in SmartFifo.

## 7. Plan

Done, in this order: the lock and the ring buffer with their proofs; the kernel
logger; the shared memory copy; the signal copy; Turns with its two
implementations and their proofs; the proxy server; the FIFO meeting; the sort; the
mouse filter; the simple FIFO; the rings of messages; the links; the sweep; and the
modules that put the families together.

Then the proofs: the logs of the ring buffer; the kernel logger; the shared memory
copy; the mouse filter; the FIFO meeting; the rings of messages; the proxy server; the
simple FIFO; the signal copy; the output of the shared memory copy; the sort.

Next, most important first:

1. Arinc429 and Spi: the relation of the two sides' registers at each clock.
2. Uart: that slips of fewer than `Nt \div 2 - UartBits - 4` clocks are harmless for
   every `Nt`, if TLC confirms the bound at several values first.
3. Sweep: that no thread reads what is not finished, from the places of the threads
   alone; that the elimination solves the system is algebra and stays with TLC.
