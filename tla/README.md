# A TLA+ verification of parts of the Amsterdam Compiler Kit

The Amsterdam Compiler Kit (ACK) is a set of compilers, code generators and
tools.  What is hardest to test in it is what is linked into the compiled
programs (schedulers, channels, storage managers, buffered I/O), what transforms
programs on the strength of an analysis (the global optimizer), and arithmetic at
its edges (the 8086 emulator and the code for long integers).  This project models
those, checks them with TLC on small instances and proves the most important facts
with TLAPS for every instance.  Paths below are relative to `src/`.

## 1. Inventory

State, operations and hard behaviours of the parts that are modelled:

| part | source | state | operations that change it | hard behaviours |
|---|---|---|---|---|
| coroutines | `lang/m2/libm2/SYSTEM.c` | `curproc`, the areas with saved stacks | `NEWPROCESS`, `TRANSFER` | a stack that outgrew its area; a transfer to oneself; loading an area that holds no stack |
| semaphores | `lang/m2/libm2/Semaphores.mod` | ring of processes, levels, who waits | `StartProcess`, `NewSema`, `Up`, `Down`, `ReSchedule` | units taken by a scan as a side effect; random steps; deadlock test by a counter |
| processes | `lang/m2/libm2/Processes.mod` | ring, chains of waiting processes, flags `ready` | `StartProcess`, `SEND`, `WAIT`, `Init` | a process that is both in a chain and ready; order of resumption |
| CSP | `lang/m2/libm2/CSP.mod` | ready, free and sender queues, open channels, guards | `COEND`, `StartProcess`, `StopProcess`, `InitChannel`, `GetChannel`, `Send`, `Receive`, `SELECT`, `GUARD`, `ENDSELECT` | one link field for all queues; state kept across `DoTransfer`; recycled descriptors; a counter that wraps |
| Modula-2 storage | `lang/m2/libm2/Storage.mod` | memory with headers, free lists, end of the heap | `Allocate`, `Available`, `Deallocate`, `ReOrganize` | sizes in two units; walking memory that holds user data; failing `sbrk` |
| C storage | `lang/cem/libcc.ansi/sys/malloc` | ring of free blocks, `__mem_freelist` | `malloc`, `calloc`, `realloc`, `free`, `brkmore` | a search that changes what it searches; wrap-around of the ring; overflow of sizes |
| occam kernel | `lang/occam/lib/{par,parco,co,channel,now}.c` | tree of process groups, pieces of stack, channels, the counter `deadlock` | `pc_begin`, `pc_fork`, `parend`, `resumenext`, `resume`, `coend`, `chan_in`, `chan_out`, `chan_any` | processes that share one stack; a handshake in three states; a deadlock that is inferred from a counter |
| C standard I/O, exit | `lang/cem/libcc.ansi/sys/{stdio,exit}` | flags, count and buffer of a stream; the table of `atexit` | `fopen`, `freopen`, `fclose`, `getc`, `putc`, `ungetc`, `fflush`, `fseek`, `ftell`, `setvbuf`, `clearerr`, `atexit`, `exit` | one count for four disciplines; a descriptor that is ahead of the program; writes that fail half-way; output during exit |
| global optimizer | `util/ego/{cf,lv,ra,share}` | flow graph, dominators, loops, lifetimes, allocations, the text | the phases `cf`, `lv` and `ra` | data flow over all graphs; greedy choices that constrain each other; two representations of "live" |
| 8086 emulator | `plat/pc86/emu/x86emu` | registers, flags, pending interrupt | the operations of `prim_ops.c`, `X86EMU_exec` | flags reconstructed from results; counts of 0, the width and more; double width without a type for it |
| 8086 long arithmetic | `mach/i86/libem`, `mach/i86/ncg/table` | | `.mli4`, `.dvi4`, `.dvu4`, `.rmi4`, `.rmu4`, `.cmi4`, `.cmu4`, `adi`, `sbi`, `ngi`, `sli`, `sri`, `sru` of 4 bytes | two ways to divide; signs taken off and put back; carries between words |

How they interact: the three schedulers sit on the coroutines and are
alternatives, a program uses one of them.  They get descriptors, workspaces and
messages from Modula-2 storage, which, like C storage, grows by `sbrk`.  The occam
scheduler is called from the loops of the channels.  The phases of the optimizer
hand each other the text and the graph.  The emulator runs the code that ACK
generates for the 8086, and the EM interpreter (`util/int`) says what that code
has to compute.

Parts that are not modelled are listed, each with the reason, in section 8.

## 2. Plan

Most important first; what is not marked is done.

1. `Coroutines`, `Semaphores`: model, runs, proofs.
2. `Processes` with the abstract `Signals`: model, runs, proofs.
3. `CSP` with the abstract `Rendezvous`: model, runs, proofs of the safety
   properties; the refinement as a theorem (to do).
4. `Storage`, `Malloc`: models and runs; proofs for `Malloc`.
5. The occam kernel: `Channels` with the abstract `Handshake` and its refinement
   proof, `Parco`, and their composition `Occam`.
6. C standard I/O with the abstract `Files`, and `atexit` and `exit`.
7. The phases cf, lv and ra of the global optimizer.
8. The arithmetic of the 8086 emulator, and ACK's code for long integers on it.
9. To do: the refinement `Processes => Signals` as a theorem; `halt.c`; the other
   phases of ego in the manner of `Ego`; `em_code/insert.c` against an abstract
   sequence; `util/led` (archive scan), `util/grind/run.c`, the register allocator of
   `mcg`, the driver `ack`, the file layer of CP/M.

## 3. Modules

| module | models | role |
|---|---|---|
| `Coroutines` | `SYSTEM.c` | extended by the three schedulers |
| `Semaphores`, `MCSemaphores` | `Semaphores.mod` | component and its instances |
| `Processes`, `Signals`, `MCProcesses` | `Processes.mod` | component, what it promises, instance |
| `CSP`, `Rendezvous`, `CSPRendezvous`, `MCCSP` | `CSP.mod` | component, what it promises, the mapping between them, instances |
| `Links` | lists linked through a field | the walk along a list |
| `Storage`, `MCStorage` | `Storage.mod` | component and its instances |
| `Malloc`, `MCMalloc` | `malloc.c`, `malloc.h`, `calloc.c`, `realloc.c` | component and its instance |
| `Channels`, `Handshake` | `channel.c` of occam | component, what it promises |
| `Parco` | `par.c`, `parco.c`, `co.c` of occam | the kernel as functions on a record |
| `Occam`, `MCOccam` | programs as `lang/occam/comp` translates them | composition of the two, and its instance |
| `Stdio`, `Files`, `MCStdio` | `sys/stdio`, `sys/exit`, `emufile.h` | component, what it promises, instance |
| `ControlFlow`, `LiveVariables`, `Intervals`, `RegisterAllocation` | `util/ego/cf`, `lv`, `ra` | the algorithms as operators |
| `Ego`, `MCEgo` | the phases, and what EM lines mean | composition, and its instances |
| `PrimOps` | `prim_ops.c` | the operations as operators |
| `LibEm`, `EMArith` | `mach/i86`; `util/int` | ACK's code for longs; the reference |
| `X86emu`, `MCX86emu` | `decode.c`, `ops.c` | the emulator running the code, and its instance |
| `LinkProofs` | | lemmas on lists and rings of linked records |
| `SemaphoresProofs`, `ProcessesProofs`, `ChannelsProofs`, `MallocProofs` | | theorems |
| `CSPQueueProofs`, `CSPCallProofs`, `CSPProofs` | | the invariant of CSP and its queues; `DoTransfer` and the calls; the theorems |

`PROJECT.json` gives the source lines of every definition.

### Conventions

- A procedure without a loop and without a switch is one action.  The turns of a
  loop are steps of their own, taken in a `mode` in which nothing else can happen;
  this way the end of the loop is something to be checked.
- A switch to another process is part of the step that calls `TRANSFER`.  What a
  process does when it is resumed is an action for the place (`at`) it left off.
- A trap, a halt and a return from a process procedure end the program: a mode
  without successors.  This is why the runs do not check for TLC's deadlock.
- Programs are not modelled.  The running process makes any call that the interface
  allows, in any order.  The modules say at the top what is asked of programs.
- A definition next to another one with a longer name (`Push`, `PushInFront`) is a
  plausible error in that code; it is used to see that a property notices it.

### Coroutines

`saved` holds the areas with a stack that may be loaded.  `topsave`, `topload` and
`topsize` copy stacks and are written in EM; here they only add and remove areas.
`TRANSFERTooLarge` is the trap `M2_TOOLARGE`, which may happen in any transfer, as
programs are not modelled.

### Semaphores

`cp`, `next`, `proc` and `waiting` are the fields of the code.  `ReSchedule` is one turn of
its loop, with `s0`, `i` and `j` as variables; `Runnable` is split in its value and
its effect.  The random number is any number up to `MaxStep`, 5 in the code and in
the runs.  `holds` records which process is past the `Down` of a mutex, also when
the scan of another process took the unit for it.

### Processes and Signals

`WAIT` enters the chain in steps (`WaitAppend`) and scans the ring in steps
(`WaitScan`).  `Signals` has no ring, chains or flags, but a sequence of waiting
processes for each signal.  The mapping reads the chains as sequences and leaves
out the caller of a `WAIT` until its transfer.  A `SIGNAL` variable is used only after
its `Init`.

### CSP and Rendezvous

`Q` holds the links, heads and tails of all queues.  The NEXTGUARD, GUARD and ENDSELECT
of the idiom in the article the module is from are steps of the process,
with a condition that may have another value each time.  A message is its sender.
`Rendezvous` has a status for each process and sequences of senders.  A
descriptor is recycled; `opened` of a new one holds `Residue`: NIL (clear memory)
or a wild address.  Where the code would follow the latter the model ends (mode `wild`).

### Storage

A unit has two words where the code has eight bytes or more, and sizes count
words; the character MAGICC takes a word.  Memory is what the code sees of it: a
header or user data.  `Give` is the common end of the five exits of `MyAllocate`.
`lost` collects the units that no header accounts for: MyAllocate loses one when
the size is 0 or when it gives a block of `nu + 1` units unsplit.  With
lost units what ReOrganize does depends on old memory contents; the model follows
its two walks and stops at their end, or where one reads below the heap (mode `astray`).
Addresses and sizes are computed modulo the size of the address space, as the code's
are, so that a word of the program that a walk takes for a size can lead it back.  `sbrk`
is taken to give contiguous memory.  A program deallocates an area with the size it asked for,
writes only in its areas, and never writes the mark USED at the start of a unit.

### Malloc

Addresses and block sizes count units of `sizeof(block_t)`, requests count bytes in
the arithmetic of a small `size_t`.  `Search` is one turn of the loop of `malloc`;
`InsertNext` and `Insert` are the loop and the end of `free`, which `brkmore` also
calls in the middle of `malloc`.  The program and others may call `sbrk` in between;
all of it comes in whole units, and the static block lies below the heap.  When
`realloc` copies past the end of the new block the model ends (mode `overrun`).

### Channels and Handshake

`synch` and `val` are the fields of a channel.  `op[p]` is the loop in which a process
waits: for a value (`chan_in`, or an ALT with its guards), for FREE or for the
acknowledgement (`chan_out`).  Leaving a loop and what follows it up to the next
loop is one action (`Take`, `Put`, `Acknowledged`), since processes give way only
in the loops.  `Late` is an ALT whose WAIT guard is due.  In `Handshake` a
value goes from a sender to a receiver in one step (`Pass`).  Two processes
may use the same end of a channel, which occam forbids and the compiler does not check.

### Parco and Occam

`Parco` keeps the kernel in a record: the lists of processes (`procs`), the position
of `*group->active` (`active`), the group under a process (`down`), the chain of `up`
pointers of the current group (`path`), the saved tops of stacks, the pieces
`between` two groups, `highest_group` and `deadlock`.  The stack is a datum for each
level; `top_save` and `top_load`, which are assembly code, copy the top datum.
`Occam` gives each process what the compiler generates for PAR, `?`, `!`, ALT and
WAIT; every process may do any of these at any time.  In the other `library`, coroutines,
the same functions are called by `resume` and `coend`.  `var[p]` is the history
variable against which the stack is compared.

### Stdio and Files

A stream has `flags`, `count`, `bufsiz` and `at` (`_ptr - _buf`) as in the code, of the
buffer what is of use, and its own file.  `broken` records that data were lost.  Where a
character is stored outside every buffer (through a `_ptr` that was never set, or into
a buffer of size 0) the model ends, in phase `wild`.
System calls and `malloc` may fail up to `MaxFaults` times; `write` may write
a part.  `exit` calls the functions of the table one by one, which may themselves
write and call `atexit` (`handler`).  `Files` knows no buffers: a file is its contents, a
position, and characters pushed back.  Programs keep to the rules of the
standard; the calls at which the library deviates from it (section 7) are excluded by
guards, each with a comment.  `fopen` and `fclose` fail only in what they flush;
`freopen` drops the errors of its flush, as the standard asks.

### ControlFlow, LiveVariables, Intervals, RegisterAllocation, Ego

The operators bear the names of the functions.  A basic block is a sequence of EM
lines; sets of `lset.c` are lists where the order in which they are visited
matters.  `dominators` is Lengauer and Tarjan's algorithm with its forest, buckets
and path compression, one step of the loop an operator (`DomRound`).  `solve_lv` iterates
as the code does.  The profits (`compute_profits`), the choice of the best candidate
and `account_regsave` weigh costs; here they are any choice, so what is shown does
not depend on the cost tables.  The loads of `emit_init_code` are put in front of each
other, as `append_code` does it.  `Ego` makes the phases actions and then runs the
original and the optimized text side by side along any path of the graph.

### PrimOps, LibEm, EMArith, X86emu

An operation of `PrimOps` takes the width as a parameter, and the size (`byte`, `word`,
`long`) where the C functions of the three sizes differ in more than their masks.
`__HAS_LONG_LONG__` is defined nowhere, so the versions for longs that work with
halves and bits are the ones modelled.  An `int` of the host has 32 bits.  A shift by that
width or more, which C does not define, either takes the count modulo the width or
leaves nothing, and the absolute value of the least `int` either is itself or its number:
the parameter `ub`, chosen freely in every step.  The byte and word forms were compared with
the compiled `prim_ops.c` on 9,719 operands, and the long forms, at 32 bits, on 20,000
operands for each operation, with counts that C defines; no difference was left.  `LibEm` is the assembly code, an
instruction a tuple; labels are lines of their own, pushes and pops of saved
registers are left out, and the 16 of the loops is the width.  `EMArith` is the
interpreter's arithmetic.  `X86emu` fetches and executes; a pending interrupt 0 is
handled before the next instruction, by the handler that exits.

## 4. Runs

| run | what it asks | states | time |
|---|---|---|---|
| `semaphores` | safety of the scheduler, end of the scan, no starvation; 3 processes, a mutex, a semaphore up to level 2, steps up to 5 | 31 thousand | 10 s |
| `processes` | chains, deadlock, end of WAIT, refinement of `Signals`; 4 processes, 2 signals | 26 thousand | 5 s |
| `csp` | queues, wake-ups, guards, stacks, refinement of `Rendezvous`; 3 processes, 2 channels, 2 guards | 264 thousand | 90 s |
| `csp_turns` | every ready process runs; 4 processes, 1 channel, 1 guard | 204 thousand | 110 s |
| `storage` | tiling, data, second Deallocate, Available, end of ReOrganize; 7 units, 3 small lists | 445 thousand | 50 s |
| `storage_large` | tiling with several blocks in Llist; 8 units, 1 small list | 151 thousand | 10 s |
| `malloc` | ring, tiling, refusals, end of the searches; 7 units | 157 thousand | 27 s |
| `occam` | tree, stacks, channels, deadlock both ways, turns, refinement of `Handshake`; 4 processes, 2 groups, 1 channel | 463 thousand | 120 s |
| `stdio` | buffers, lines, loss, exit, refinement of `Files`; a file and a terminal | 271 thousand | 175 s |
| `ego` | dominators, loops, lifetimes, allocations, same values | 1,259 thousand | 130 s |
| `x86emu` | longs on the emulator against EM; sums, shifts, products, decimal | 1,184 thousand | 65 s |

One run checks what the code says of itself, and is violated:

| run | what it shows |
|---|---|
| `ego_lifetimes` | `build_lifetimes` closes an interval only at a dead message; a variable that is live where the text of a procedure ends, in a last block that jumps back, has an empty list of lifetimes. |

### Why the bounds are enough for the interesting cases

- Semaphores: with three processes one scan can wake two waiting processes and
  dispatch either or the caller, and with steps up to 5 it goes round more than once.
- Processes: with four processes a chain of three can form behind the running one,
  or two chains, and the append loop takes several turns.
- CSP: with three processes two can send to the third, a father has two sons, and
  a descriptor is recycled; two channels and two guards give SELECTs that open both
  channels, name one twice, or name none.  `csp_turns` has a third son, so that two
  can keep each other busy while the third is ready; it leaves out what follows the end
  of a program (`MCGoing`).  `CardSize` 4 lets the count wrap.
- Storage: `NLISTS` 3 is the least for which a small block is split; `NLISTS` 1 lets
  Llist hold two blocks in a heap of eight units.  Size 0, sizes that fill their
  units or do not, one that only Llist can have, and one that is too large.  What a program
  writes is a word that, taken for a size, leads just round the address space.
- Malloc: a request is smaller than, equal to and larger than `BRKSIZE`; three or
  more blocks are in the ring; 26 bytes are more than `sbrk` takes, 30 overflow.
- Occam: with four processes and two groups a PAR of two has a PAR of two below one of its
  branches, so that control leaves and enters a nested group, and the last
  process of each goes on as its parent; two senders meet at one channel.
- Stdio: a buffer of two characters is empty, half full and full, one of size 1 (given to
  setvbuf) is always full, one of size 0 is refused; a file of two characters is read in one fill, by two
  of size 1, and up to its end.  A table of two entries can be full when the
  flush is registered.
  Three kinds of program are checked apart (`MCInit`): one with a file in all modes and no
  terminal, one with a terminal and a file it reads, both with a failing call, and one with a
  terminal and functions for exit.
- Ego: all flow graphs of four blocks without statements for the analysis of the graph; five
  shapes (two ends, loops with and without header, if, nested loops) with all
  procedures of at most two statements of the seven kinds of `Kinds`, or of three that are calls and uses
  of both variables; straight text with four of these, also where both variables are
  parameters (elsewhere one is); one longer procedure in which a removed assignment takes a use with it.
  Two larger instances, too long for every day, also hold: four calls and uses in all shapes (5.8
  million states), and three of calls, uses, copies and increments (4.2 million).
  Longer procedures, other statements and more than two variables are not covered; two
  registers, so that two variables have one each or share one.
- X86emu: words of 4 bits (5 for sums, so that the auxiliary carry is not the last
  carry, and for shifts, with counts up to 23, so that some are above the width of an `int` for each
  size; 8 for decimal), all operands for single instructions; for longs all first operands and second
  operands with all combinations of signs, zero words and extremes.

### Fairness

There is one thread of control, so weak fairness of the steps of a call that has
begun says only that the program is not stopped from outside (`processes`, `storage`,
`malloc`).  `semaphores` assumes the same of the running
process: it goes on to another call.  `NoStarvation` is asked for programs
whose only semaphore is the mutex: with others a process could keep the mutex and never
Up it, which is not the scheduler's doing.  `csp_turns` assumes that no process makes
calls that do not wait (`InitChannel`, a SELECT with a guard that holds, `StartProcess`)
forever: strong fairness of the calls that may wait.  `occam` assumes that
a running process goes on, and does not for ever make calls that never give way: without it
a process in a loop over an ALT with a guard that is ready, or over empty PARs,
keeps the processor, which is what cooperative scheduling means.  `X86EMU_exec` is a loop: while
there is an instruction, one is executed.  Both are written out as formulas
on behaviours instead of `WF`, to the same effect.

## 5. Properties

Every component has a type invariant `TypeOK`.  Those of Semaphores and Processes
are theorems of their own, those of CSP and Malloc part of the invariants proved; in
the runs each is the first conjunct of the invariant named first below.

- *Semaphores*: `MutualExclusion`, `DeadlockExact` (the message "deadlock" is true),
  `ReScheduleEnds`, `NoStarvation`; and, proved for every instance, `OneRing` and
  `ResumesSavedStack`.
- *Processes*: `ChainsOK` (exactly the waiting processes, each once, no circle),
  `DeadlockExact`, `WaitEnds`, `ImplementsSignals`; and, proved for every instance,
  `OneRing` and `ResumesSavedStack`.
- *CSP*: `OnePlace` (every process is in exactly one place, all queues are well formed),
  `NoLostWakeup` (open channels, waiting owners and senders agree, and a resumed
  receiver finds its message), `TriesEveryGuard` (before a SELECT waits or is left without
  a guard; not the rounds after it was woken), `ResumesSavedStack`,
  `ImplementsRendezvous`, `ReadyRuns`.
- *Storage*: `BlocksTileHeap` (units that MyAllocate loses are counted as lost, and nothing
  is said once ReOrganize went astray), `DataKeptByCalls` (all calls but ReOrganize),
  `StaleAreaKnown`, `AvailableHolds` (sizes above zero), `ReOrganizeEnds` (or a word taken for a
  size leads it round the address space).
- *Malloc* (until `realloc` copies too much): `RingInOrder`, `BlocksTileHeap`, `RefusesOnlyInNeed`, `SearchEnds`.
- *Occam*: `TreeOK` (the groups are a tree, the current process its active leaf, all other
  leaves saved), `StackKept` (a process finds its variables as it left them),
  `DeadlockExact` (DEADLOCK() is called if, and only if, all wait in vain), `EveryTurn`,
  `ImplementsHandshake`; and, proved for every instance, `OneHolder`.
- *Stdio*: `StreamOK` (the macros stay in the buffer, complete lines are written, until a
  stream with no buffer or one of size 0 is stored to),
  `AllOut` (after exit everything is in the files, but for what was
  written when no flush was to come), `NoSilentLoss`, `ImplementsFiles`.
- *Ego*: `OnePlace`, `FlowExact` (`DominatorsExact`, `LoopsNatural`, `FirmInEveryIteration`) and
  `LivesExact` (of the variables of which lv removed no use), each stated with paths, and
  `SameValues`, with the exceptions of section 7 named in it (`ZeroLost`, `LostUses`,
  `LoadInTheWay`).
- *X86emu*: `InstructionsExact` (`SumsExact`, `ShiftsExact`, `ProductsExact`, `DecimalExact`; the operands for which
  the code is wrong or undefined are run too, and named in the properties: `CarryLost`,
  `QuotientUnseen`, `SignsLost`), `LongArithmetic`, `Ends`.

## 6. Proofs

For any number of processes, semaphores and signals, any step bound, and from
`CoroutineAssumption` and `SemaphoresAssumption` or `ProcessesAssumption` (main is a
process, areas of processes are different, NIL is nothing else) only:

| theorem | in `SemaphoresProofs` | in `ProcessesProofs` |
|---|---|---|
| `TypeCorrect` | yes | yes |
| `MutualExclusionHolds` | yes | |
| `ChainsOKHolds` | | yes |
| `OneRingHolds` | yes | yes |
| `DeadlockExactHolds` | yes | yes |
| `ResumesSavedStackHolds` | yes | yes |

`ChannelsProofs` has two theorems, for any sets of processes, channels, variables and values
of which the last two are not empty (`ChannelsAssumption`), and for any scheduling, of
which that of `Parco` is one: `ChannelHasOneHolder`, and
`ChannelsImplementHandshake`, the refinement: initial states map to initial
states, and every step to a step of `Handshake` or to none.

`CSPProofs` proves `OnePlace`, `NoLostWakeup`, `TriesEveryGuard` and `ResumesSavedStack` from
`CSPInvariant`, for any finite sets of processes and channels and
SELECTs of any size, from `CoroutineAssumption` and `CSPAssumption`.
`MallocProofs` proves `RingInOrder`, `BlocksTileHeap` and `RefusesOnlyInNeed` from
`MallocInvariant`, for a heap of any size, any `BRKSIZE` and any requests, from
`MallocAssumption`.

The inductive invariants, and why they are needed:

- `TypeInv` adds `PointersOK` to `TypeOK`: what the code follows is not NIL, and what
  it follows leads to started processes.
- `MutexInv`: a mutex has one unit, which is its level or held by one process.
- `OneRing` is inductive by the lemma `InsertKeepsOneRing`: if a set of processes is
  closed under the links of the longer ring, then without the new process it is
  closed under the old links.  OneRing is stated with sets closed under `next`, so
  that no induction along the ring is needed.
- `ScanInv`: as long as a scan found nothing there is a set of processes, all
  blocked, that begins behind the caller, is closed under `next` up to `cp` and
  contains `cp`.  When the scan is back at the caller, that set and the caller are a
  closed set, which by `OneRing` is the whole ring.
- `ChainInv`: `ChainsOK`, and the append loop stays in a chain.  That a chain has no
  circle is said with sets, again to avoid induction (`EnqueueNoCircle`).
- `StackInv`: the process whose stack is live is `s0` during a scan and `cp`
  otherwise; every other started process has its own area in its descriptor, saved.
- `ChanInv`: `OneHolder` speaks of sets of processes; `NoHolder`, `SomeHolder`, `SameHolder` and
  `HeldValue` say the same with quantifiers, which the provers can use, and `OneChannel`
  says that a sender uses one channel, so that its acknowledgement is that of its own
  value.  `HolderSets` goes back to the sets.  The refinement has a lemma for each action.
- `CSPInv`: the queues hold sequences of processes, linked from tail to head, and no process
  twice (`QOK`); every process is in a queue, has sons or has open channels, and only
  one of these (`PlaceOK`); fathers count their sons (`FamilyOK`); the list of opened
  channels of a process holds its open channels, which have no senders (`OpenOK`); a receiver
  waits for its channel or has a message (`ReceiveOK`); the guards tried are those from
  the first one round to the current one (`SelectOK`); all stacks but one are saved (`StackOK`).
  The parts take the contents of the queues and the running process as parameters, so
  that they also hold in the middle of a call, before `DoTransfer` chose the next process.
  That `Walk` along a list finds the sequence is by induction over sets (`SetInduction` of
  `LinkProofs`).
- `MallocInv`: a link of the ring goes to the nearest free block above, or to the static block
  from the last one (`RingInv`); blocks in the ring, in use and in hand divide the heap
  (`BlocksInv`); the blocks that the search of `malloc` passed are too small (`SearchInv`), which
  gives `RefusesOnlyInNeed` when it comes round.

Only model-checked: all liveness properties (`ReScheduleEnds`, `NoStarvation`, `WaitEnds`,
`ReadyRuns`, `ReOrganizeEnds`, `SearchEnds`, `DeadlockFound` of occam, `EveryTurn`, `Ends`), which are out of
reach of the proof system under fairness; the refinements of `Signals`, `Rendezvous` and
`Files`; all of Storage and Stdio; the scheduler of occam; and the algorithms of the optimizer
and the emulator, which are loops over data and would need induction over it.

## 7. What the results say of the code

The two ring schedulers are correct in all we asked.  So are the occam channels and
scheduler.  CSP is correct as long as a process that owns channels does not stop and
descriptors lie in clear memory.  Storage is correct as long as `sbrk` does not fail and no
area has size 0.  malloc, calloc and free are correct.  Of buffered streams, the three
phases of the optimizer and the emulator the runs show that what was asked holds in the
instances of section 4 but for the places below, at which the models stop, which guards
leave out, or which the properties name as exceptions.  Of longer procedures and other
statements the runs of the optimizer say nothing.

Modula-2 and C storage:

- CSP: a process gets the descriptor of one that stopped (`CSP.mod:189`) and with it
  the channels, against "Only owner of channel can receive from it" (`CSP.mod:254`).
  `StartProcess` never assigns `opened` (`CSP.mod:169`).
- Storage: the first walk of `ReOrganize` uses the size of a block in use, in bytes, as units
  (`Storage.mod:286`).  A block of `nu + 1` units loses one (`Storage.mod:129`), which
  the second walk takes for a header.  A walk that takes a user word for a size may come
  back to where it was, as addresses wrap, and then never ends (`Storage.mod:286-308`).  An area of size 0 costs a unit, so that `Available(0)`
  may use up the last block.
- `realloc` compares bytes with units (`realloc.c:32`), so it also looks for a new
  block to shrink one, and the copy does not fit then.

Standard I/O (`lang/cem/libcc.ansi/sys/stdio`):

- `fflush` of a stream that is read moves the descriptor forward by what is in the buffer
  (`fflush.c:35`), where the comment (`:30`) and `fseek` go back.
- `ungetc` before the first read of a stream stores through a `_ptr` that was never set
  (`ungetc.c:16-26`, `fopen.c:109-113`); on a stream open for update it is refused until the
  first read (`ungetc.c:14`).
- `setvbuf` refuses a buffer of size 0 but installs it (`setvbuf.c:24-50`), and the next
  character is stored in it.
- A stream open for update, read to its end, with a character pushed back and read
  again, then written: the buffer has a stale character in front.
- An unbuffered stream that `setvbuf` gave a buffer reads ahead, which
  `fseek` and `fflush` do not know; with a character pushed back, `fseek` from the
  current place is one off.
- `ftell` of a stream that appends, with output pending.  After a read error `_count`
  is -1, and a flush or relative `fseek` is one off.
- `freopen` with "w+" keeps the descriptor of `creat`, which cannot be read.
- Where `lseek` fails before a write in append mode, `__flushbuf` does not store its
  character and `fflush` leaves `_count`.
- Functions that were registered with `atexit` before the first output run after the flush at
  exit, so what they write is lost; a full table is not noticed (`late` in `AllOut`).
  `abort` (`core/misc/abort.c`) does not flush, although `doc/ansi_C.doc:287` says so.

Global optimizer (`util/ego`):

- `ego_lifetimes`, above.  The procedures of the passing run end in `ret`.
- `lv_mesg` takes the lines before a useless `zrl` for its expression (`lv.c:526-536`), but a
  `zrl` has none, and lines of another statement go with it (`ZeroLost`).
- A useless assignment goes with the uses in its expression, for which the data flow still
  has the variable live (`lv.c:528-536`): the lifetimes of that variable can be too long or,
  where a second live message comes, too short, and it can lose its register to another
  (`LostUses`).
- `proc_inits` has a parameter loaded at its `init_point` whether it is live there or not
  (`ra_allocl.c:211-223`), which overwrites another variable that is live there in the same
  register (`LoadInTheWay`).
- Loops with several edges back keep `lp_end` of the first (`cf_loop.c:165-187`), as a comment
  there says; firm and strong are checked for loops with one.  Blocks before the entry are not
  looked at for exits, and predecessors that cannot be reached count as part of a loop.

Emulator (`plat/pc86/emu/x86emu/prim_ops.c`); the run has these operands, and the properties
name them:

- `mul_long` loses a carry when the sum of the cross products needs more than 32
  bits (`:2317`, `CarryLost`).  `imul_word` and `imul_long` compare the high half with 0xFF, so negative
  products that fit set CF and OF.
- `div_word` by 1 does not see a quotient of 2^31 or above 2^32 - 2^16 (`:2502`), nor `idiv_word` one of
  -2^31 or 2^31 (`:2373`), since `abs` makes it small or leaves it negative; `div_long` does not see quotients
  from 2^32 to 2^33 (`:2571`) (`QuotientUnseen`).  `idiv_long` is wrong for negative operands,
  for quotients from 2^31 to 2^32, and where bits 28 of the operands differ (`SignsLost`).
  Compiled with gcc, `div_word` and `div_long` fail on exactly the operands of
  `QuotientUnseen` among three million, and `idiv_long` only on operands of `SignsLost`.  `idiv` refuses the least
  quotient, as the 8086 does.
- `rcl_long` by 32 (`:983`), and the carry of `shl` by more than 32 (`:1385`, `:1427`, `:1468`), come from
  shifts that C does not define; so does the carry of `shr_byte` by more than 32 (`:1509`).
- `sar` takes its count modulo the width; `shr_word` and `shr_long` by the width or more clear CF and PF.

ACK's own code for longs uses none of these, which is what `LongArithmetic` shows.

## 8. Not modelled

`PROJECT.json` has an entry for each part.  In short:

- The compilers (`lang/*/comp`, `lang/cem/cemcom.ansi`, ...), code generators, assemblers and
  their table generators (`mach`, `util/ncgg`, ...), and the peephole optimizer are sequential
  translators of arbitrary input or tables for a machine each; whether they are correct is
  about the meaning of programs.  They are the bulk of the four hundred thousand lines
  of the kit; what is modelled here are some five thousand lines, chosen for what
  is hard to test, and a map of a large share of the lines would be a map of parsers,
  symbol tables and instruction tables.
- Of ego: the phases il, cs, sr, ud, sp, bo, cj and ca, the analysis between procedures
  (`interproc_analysis`, `trans_clos`), and items other than local variables.
- Of the occam library: channels that are files or the terminal, with their
  alarms (`channel.c:92-154`, `builtin.c`), and arrays, which are loops over single
  values (`chan_strct.c`).  Contents of freed memory: `coend` reads `*group->active` after
  freeing it (`co.c:93`), which ACK's malloc leaves intact.
- Of the C library: the functions above `getc` and `putc`, strings, conversions, `qsort`.  Of
  Modula-2: `halt.c`, which has the same table as `atexit`, Streams and conversions.
- Of the emulator: decoding of operands, prefixes, string, stack and I/O instructions.  Of
  the interpreter: all but integer arithmetic, for it has the state space of the
  programs it runs.
- `plat` is system call stubs; the build system and the tests are not part of the product.
