# ZeOS in TLA+

ZeOS is a small preemptive Unix-like kernel for one i386 processor (`src/kern`) with a
user-space thread library (`src/user/libthread`), built on the support code of its course
(`src/410kern`, `src/410user`). This directory is its verification project: TLA+ modules
translated from the C and assembly, TLC configurations that check them on small instances, and
TLAPS proofs of the results that matter most. `PROJECT.json` is the index: components, runs,
mutants, the lines each definition models, findings, hazards, theorems.

Every run is `tlc -config X.cfg M.tla` in this directory, every proof `tlapm M.tla`.

## 1. Inventory

Two worlds, one processor. User code enters the kernel by system calls, faults and
interrupts; the library's threads are kernel threads that share a task's memory and stop
and start each other with `cas2i_runflag`.

| Component (code) | State | Operations | Hard part | What makes it correct |
|---|---|---|---|---|
| **libthread: mutex, condition variables** (`mutex.c`, `cond_var.c`, `wait_control_block.c`) | lock words, waiter lists, thread states, kernel run flags | lock, unlock, wait, signal, broadcast, destroy | every instruction interleaves; the kernel clears a lock with the store of an old run flag | exclusion, no lost or wasted wake-up, FIFO notification |
| **libthread: threads** (`thread_lib.c`), **groups** (`thrgrp.c`) | control blocks, stacks, join conditions; a queue of threads that have returned | create, join, exit, getid, yield; create into and join of a group | the child runs before it is registered; a control block lies on the stack it describes | each thread finds itself, is joined once, is freed after its last use |
| **libthread: semaphores, rwlocks** (`sem.c`, `rwlocks.c`) | counts, active readers and writer | wait, signal, lock, unlock, destroy | waits with mutexes held | counting; readers and a writer exclude each other; nobody hangs but behind one who had to wait |
| **kernel scheduler and semaphores** (`sched.c`, `sync.c`, `timer_driver.c`) | run queue, sleepers, semaphores, running thread | schedule, wait, signal, tick | ticks and device interrupts between any two statements with interrupts on | a thread is in one place, locks have one holder, nobody starves |
| **queues and lists** (`variable_queue.h`, `dlink_list.h`) | intrusive doubly linked rings | insert, remove, walk, walk and remove | one link field serves many queues | links are the ring of the list; a walk sees what is on it |
| **small system calls** sleep, yield, cas2i_runflag, get_ticks | sleepers' queue, run flags | as named | sleep queues the caller with interrupts on | sleepers wake by ticks, only a thread stops itself |
| **task life cycle** (fork, thread_fork, vanish, task_vanish, wait) | task tree, thread lists, `fork_lock`, `vultures` | as named | a thread ends on a stack its parent frees; parents and children end in any order | each zombie is reaped once, by a wait its signal woke |
| **exec** (`syscall_exec.c`) | copies of the arguments, the new stack | copy, load, lay out, enter | three loops that must agree to the byte | arguments arrive whole; a failure leaves the caller as it was |
| **virtual memory** (`vmm.c`, `syscall_pages.c`) | frame counts, page tables, ranges | init, install, share, back, free ranges | copy on write, failures half way, two faults at once | counts cover mappings; private pages are private |
| **fault handlers** (`faulthandlers.c`) | as virtual memory, and thread lists | copy on write, zero fill, stack growth, killing | run inside any user instruction | a legal access succeeds, an illegal one ends its thread only |
| **loader** (`loader.c`, `load_helper.c`) | an image | read headers and sections, ranges, protection | sections that share pages, lengths that are not whole pages | every byte of the file is where the program looks for it, or nothing is loaded |
| **keyboard driver** (`keyb_driver.c`), **scan codes** (`keyhelp.c`) | raw and cooked rings, semaphores; modifiers and prefix states | interrupt, readchar, getchar, readline | the interrupt races readers; full rings, backspace; prefixes that leave states behind | lines arrive whole and in order; keys make the characters they stand for |
| **console driver** (`console_driver.c`) | cursor, colour, screen, the controller's registers | put byte, scroll, set cursor, hide, clear | printers and the echo overlap; edges of the screen | the cursor stays on the screen and is seen where it is |
| **system call stubs, entry and checks** (`libsyscall`, `crt0.c`, `syscall.c`, `syscall_paramcheck.c`) | registers and stack | pack, trap, dispatch, check | strings and packets that cross ranges | arguments arrive in order; what passes a check is the task's |
| **task and thread set-up, wrappers** (`task.c`, `i386isrwrapper.S`, `syscallWrapper.S`) | kernel stacks, word by word | save, switch, restore, make a first frame | frames made up by hand must fit code that pops them | a thread comes back with the registers it had |
| **boot** (`head.S`, `kernel.c`, `bootdrivers.c`, `pic.c`, `i386systemregs.*`) | descriptor tables, controllers, control registers, first page tables | install gates, patch, enter the first task | any allocation may fail; bit fields | every vector leads to its handler; the first tasks find what they need |
| **allocators** (`mm_malloc.c`, `malloc.c`, `410kern/lmm`, `malloc_wrappers.c`) | heaps as words, lists of free blocks | allocate, free, resize, fill at the start | tags in memory programs write to; coalescing; holes in memory | blocks in use are apart and untouched, free ones are merged |
| **C library** (`410kern/stdio`, `stdlib`, `string`, `misc`, `RNG`) | strings, buffers, seeds | print, scan, divide, sort, copy, split | limits of fields and buffers, 64-bit division by digits | printing and scanning agree; results are those of the definitions |
| **ramdisk, ls, shell** (`exec2obj.c`, `syscall_ls.c`, `shell.c`) | table of programs, buffers of names | build, list, start | buffers filled to the last byte | what is built is found and listed |

`410kern` and `410user` without what the table names, and `vq_challenge`, are the course's other
material (ELF constants, drivers of the simulator, test programs) and left aside.

How they interact: `thread_lib.c` calls `mutex.c` and `cond_var.c`, which call the system
call `cas2i_runflag`; its stacks come from the user allocator. The system calls use kernel
semaphores (`fork_lock`, `vultures`, the lock of the allocator), which use the scheduler, which
uses the queues. Timer and keyboard interrupts call the scheduler and the semaphores from
outside, and the keyboard's also the console. `fork`, `exec` and faults use virtual memory.
`wait` gives a child's memory, its kernel stack included, back.

The hazards, each at its line with the property that covers it or the reason none does, are
in `PROJECT.json`.

## 2. Plan

Done, in this order:

1. `CondVar`, its abstract specification `Monitor`, and the proofs `CondVarProofs`.
2. `VariableQueue` (operators), `QueueRing` (a state machine of them), their theorems in
   `RingProofs`.
3. `KernSched` on `VariableQueue`; `ThreadLib` on `CondVar`; `TaskLife`.
4. `Vmm` and its abstract specification `Memory`; `ParamCheck`.
5. `SyncObjects` and `ThreadGroup`, clients of `ThreadLib`.
6. `Keyboard` with `LineBuffer`, `Console` with `Tape`: two drivers and what they promise.
7. Functions compared with definitions: `ScanCodes`, `ExecArgs`, `Frames`, `DlinkList`,
   `UserHeap`, `KernHeap`, `Division`, `Stdio`, `Library`, `Loader`, `Machine`, `Boot`,
   `UserCalls`, `Shell`.
8. Proofs: `CondVarProofs` (also that `CondVar` implements `Monitor`), `ThreadLibProofs`, `TaskLifeProofs`,
   `VariableQueueProofs` (the macros on lists, apart from any state machine) and on it
   `KernSchedProofs`.
9. `VmmProofs`: `FramesSound`, with the faults of all tasks in progress at once, and from it that
   `Vmm` implements `Memory`. The counts of frames are sums over page tables, so the lemmas come
   first: what changing entries does to the set of entries that hold a frame's address.
10. `ConsoleProofs`: `Console` keeps its cursor and implements `Tape`.
11. `NoSpinDeadlock` in `CondVarProofs`, and on the same order of locks `LetsIn` and
    `HangsForAReason` of `SyncObjects` in `ThreadLibProofs`.
12. `ThreadGroup`: `GroupQueueSound` and `JoinersAwake`, on top of the invariant of `ThreadLib`.
13. `Keyboard`: `LinesForReaders` and that it implements `LineBuffer`, in `RingProofs`.

Next:

14. Models: tasks of several threads in `Vmm`; mutexes and conditions in memory that is not zero,
    with their destroy operations; `thrgrp_destroy_group`, which rests on these.

## 3. The modules

Conventions. One action per stretch of code between two points at which another thread can
act; the label `pc` (or `at`, `call`, `gp`) names the point. Properties are in a `...Props` module
or at the end of a small one, proofs in a `...Proofs` module. A configuration names its constants
itself; where a run needs definitions of its own they are in an `MC...` module. A definition whose comment starts with "Mutant:" is not part of any specification: it is
the definition after it with a plausible slip, and `PROJECT.json` pairs it with the property that
notices the slip.

Code with no state of its own between calls is a module of functions, with a comparison at its end:
the function against a definition that says what its result should be, over all inputs in
bounds. Such a comparison does not depend on the state. It is a conjunct of a property of an `MC`
module, evaluated in the initial state of the run (the definition reads `Init => ...`).

### CondVar, Monitor: mutexes and condition variables

`locked` is `is_locked` of every mutex, those inside wait control blocks included;
`waiters` the list at `waiters_anchor`; `runFlag` the kernel's flag; `state` the thread
control block's; `mp`, `cv`, `tgt`, `batch` are local variables of the calls in progress.
A failed `xchg` leaves the word as it was, and the caller yields and tries again for as long
as it takes, so `mutex_lock` is an action that waits for the word to be clear. `cond_wait` is
eight actions, `cond_signal` and `cond_broadcast` four and six. `Cas2i` is the system call, atomic
because it runs with interrupts off, with its refusals. Memory starts zeroed, as statics do;
`cond_init` itself leaves the mutex of the wait control block alone (a hazard).

`Monitor` is what callers may rely on: a mutex has one owner, waiting releases the mutex and
queues the waiter in one indivisible step, a signal starts the thread that has waited longest.
`ImplementsMonitor` is the refinement, with the mapping in `CondVarProps`: a waiter counts as
queued from the store that releases its caller's mutex.

### ThreadLib, ThreadGroup: create, join, exit

`ThreadLib` composes with `CondVar` by EXTENDS: its actions are steps of `CondVar`, or leave those
variables alone, together with what `thread_lib.c` does between library calls. The join
condition of thread t is the condition named t. `UsesCondVar` says that nothing is
outside `CondVar`'s next-state relation, so that what is proved of `CondVar` holds here.
`JoinedOnce` names the threads that programs join as the library means it: once, by one thread,
after they are registered. The others are joined by anybody at any time, which brings the
failed assertion (`JnRefused`) and the double free into reach.

`ThreadGroup` composes with `ThreadLib` in the same way: one group whose threads queue themselves
when their function returns, through the links `zombie_in`, `zombie_out` and `next`, and joins of
the group that take the first. A thread of the group returns instead of calling `thr_exit`, and is
joined through the group only.

### SyncObjects: semaphores and reader-writer locks

On `ThreadLib` again: `call` is where a thread is in `sem.c` or `rwlocks.c`, `objLocked` the mutex of
an object, `count`, `readers`, `writer` its fields. Whoever has to wait goes to sleep through a
function that locks the mutex it holds: the places `sw_self` and `rw_self` have no step. So nobody
ever waits and comes back, and the properties are about who is let in and whom the spinning
threads take along. A thread calls with none of its own mutexes held, and is let into one object at
a time. An unlock by the writer fails an assertion and stops the task (`failed`).

### VariableQueue, QueueRing: the kernel's queues

`VariableQueue` translates the macros link by link into operators on a record of `next`,
`prev` and `nr`, pointers being nodes. Nothing stops a macro from being applied to the wrong
head, so a link followed out of its queue sets `wild`. `Represents` says when the links
are the ring of a sequence. `QForeach` and `QForeachDelSafe` are the walks, with what the body of the
loop takes off the queue. `VariableQueueProofs` has the facts about the macros that every client
of them needs. `QueueRing` lets any sequence of legal insertions and removals
happen and keeps beside the links the lists they stand for; `WalksSeeAll` looks at the walks in
every state.

### KernSched: scheduling, semaphores, sleep, interrupts

`q` holds all queues: the run queue, the sleepers, and the queue of every semaphore, threaded
through the one link `kthread_wait`. `cur` is the running thread. `Schedule` is `schedule`
with its context switch; `SemWait`, `SemSched`, `SemSignal` are `sync.c`;
`Sleep`..`SleepSched` the sleep call; `Tick` the timer's interrupt with `sleep_bottom_half`
and the call of `schedule` (`Sweep` is its walk, and `Visit` one round of it); `Interrupt` a device
that signals a semaphore. An action is code
that runs with interrupts off, or code in which an interrupt would change nothing the other
actions look at.

Between queueing a thread and `schedule(0)` the code has interrupts on. These windows are
labels (`Windows`), and ticks and device signals come there as anywhere. One that queues the
thread it finds in a window, as every tick does and a device whose first waiter is that thread, puts
it on a second queue through the one link it has: the history variable `caught` records that step,
and the model stops. Properties are about everything up to it, a device's signal half way through an
insertion included, when it wakes somebody else. So what they say is not that windows are
harmless, but that nothing else spoils queues and counts. `sem_window` checks the sentence of
`sync.c:186` that says there is no such step.

### TaskLife: fork to reaping

Scheduling and semaphores are taken from `KernSched` as understood: a thread that may run may
take its step, `fork_lock` is held by one thread, `vultures` is a count and a queue. `life`
is a task's state and whether its memory is still there; `children`, `threads`, `parent`,
`task` are the lists and pointers. `vanish` is six actions, `wait` four, `fork` two or
three. A fault that kills is `vanish` without the lock; `Fatal` is `fault_generic_fatal`, in the
cases in which what it does is defined. A thread with a negative run flag that a tick preempts is
never chosen again: `Preempt` parks it, with what it holds, at whatever step of its end it is. Tasks
may end before their children: `orphans` remembers the children that were then on the task's list.
`Calls` is what user code does, `Parents` a bound on the tasks that fork.

`None` as a parent is the idle task's, which made the initial task and never waits.

What the model leaves out: `cas2i_runflag` on a parked thread would revive it; `task_vanish`
over a thread that waits on a semaphore takes a link out of a queue that is not the run
queue's, and the model only takes it off user code; a signal to a freed parent writes into
freed memory, which is not followed.

### ExecArgs, Frames: what exec and the kernel stacks carry

`ExecArgs` follows the arguments of exec from the caller's memory into the kernel's copy and from
there under the top of the new stack, byte by byte with words of `WordSize`; `SyscallExec` is the
order of lock, copy, load and free around it. `Frames` has a processor, its registers and the stack
it is on: saving and restoring, a switch, and the frames made up for a new thread, a fork, an exec.
Faults are those taken in user mode.

### Vmm, Memory: virtual memory

A page holds one value and has a small number; so has a frame, and the lowest free frame is
taken, as in the code. `refs` are the counts, `pte` the entries of every task (address, present,
writable), `pdeRW` the writable bits of the directory entries, which the processor combines with
the entries' and which several pages share (`Directory`), `ranges` the list of ranges, of which
only `stackStart` is known by name. One action per system call or end of a task, `FaultBack`,
`FaultCow`, `FaultGrow`, `FaultKill` the cases of `analyse_fault`. A fault that needs a frame is
two steps, before and after the count is stored: page faults enter through a trap gate, with
interrupts on, so other tasks run, fault and load programs in between. `panicked` is the assertion
that stopped the kernel; then nothing runs.

Four situations break what the properties say, and the history variable `wild` records which of
them have come about (`WildCases`). `found_twice`: a frame that a fault has found is given out again
before the fault takes it. `grow_any`: a stack grows while its pages are shared or not backed; they
become writable to all sharers, and an entry never backed becomes present. `fork_grown`: a
task forks after its stack grew, or asks for a range over what growth left; the range was moved, not
extended, so the old top page is in no range and the child has none. `kernel_write`: a system call
writes to a user's buffer whose page is shared; the processor's WP bit is clear, so nothing is
copied. Actions have no guard against any of them. Every property names the ones it is not about:
counts cover entries unless `found_twice` has come about, shared frames are not writable unless
that or `grow_any` has, memories are private up to the first of the four. `Followed` bounds the run: it
goes on after the last three and stops after the first, in the state that it leads to.

Tasks have one thread. With more, two copies on write of one task share the two entries of
`copy_area`. The TLB is left out: the code invalidates after each change that could matter.
`Vmm`'s `Exec` is the exchange of two images, one of which is built while the other is held;
`Loader` is one image, byte by byte. Sections of a program that share a page, which the code backs
twice, are `Loader`'s; those of `Vmm` share none (`VmmAssumption`).

`Memory` is what a program may rely on: a function from pages to values per task, copied by fork,
replaced by exec, extended with zeros. `ImplementsMemory` maps the entries to it: the value of a
page is its frame's, or zero where a page of a range has none. A fault that filled a page with
something else would look like a write of the task's own, so the property also says that the
end of a fault changes nothing that is seen.

`ParamCheck` is every check of `syscall_paramcheck.c` over the ranges of a task and bytes of small
memory, with `vmm_is_range_present`, and the bytes each handler goes to (`Touched`), lengths being
converted as the code converts them: `readline` clears by a `size_t`, `print` compares with an
`int`, `ls` leaves early. `ChecksSound` says that a handler goes to a byte outside the task's ranges in
two calls only (`PastChecks`): `readline` with a length below zero that begins in a range, and
`exec`, whose check looks at nothing. Of exec only the first byte of the name and the first word of the
array are followed here, which it reads whatever is there; `ExecArgs` has the rest of the walk.

### Keyboard, LineBuffer, ScanCodes

The interrupt is one action: its gate keeps interrupts off. A reader of the cooked ring tests, takes,
stores the index and wraps it in separate steps, interrupts on, no lock. `LineBuffer` is what they
promise: a sequence of characters, counted lines, and readers that take the oldest. Two readers inside together,
or an erasing at index 0, lead the ring astray: `strayed` is set and the model stops there, so the
refinement is about everything before. `lineLost` remembers that a full ring has dropped a line's
end. `ScanCodes` is `keyhelp.c`, code by code with its prefix states, and the ring of raw codes
between the interrupt and `readchar`; a key is its row and column.

### Console, Tape

A printer's action is a stretch between two accesses to the cursor; the keyboard's echo is one action
between any two of them. `met` and `strayed` remember overlaps, and those that lead off the
screen; `OnScreen` is about all behaviours that have not strayed. `Tape` is what one printer at a
time sees: characters on a tape, wherever rows end and the screen scrolls; only
`set_cursor_pos` jumps. The hardware's cursor is in `Machine` (`CursorSeen`), with its real size (80 by
25), as functions of the four writes to the controller, torn by an interrupt or not.

### Functions: libraries, loader, machine, shell

* `DlinkList`: the list of `dlink_list.h`, by links. `UserHeap`: `mm_malloc.c` over words with tags,
  `malloc.c` with 8-bit integers for `calloc`'s product, the stacks of `thr_create` in its blocks.
  `KernHeap`: the list memory manager, and how `util_lmm.c` and `kernel_main` fill it however two
  holes lie.
* `Division`: the 64-bit division of `gccisms.c`, digit by digit. `Stdio`: `_doprnt`, the buffers of
  `printf` and `sprintf`, `strtol`, `_doscan`. `Library`: sort, copy, strings, character classes,
  random numbers (the Mersenne twister with 5 words of 8 bits, `rand` with 5 bits).
* `Loader`: headers, sections, pages and their protection, in pages of 4 bytes.
* `Machine`: gates, segment descriptors, page table words, control registers, the two interrupt
  controllers, by their real bits and as the processor reads them; the cursor of the video
  controller. `Boot`: every step of `kernel_main` with at most one failing malloc, what it leaves in
  the descriptor table, and the first two tasks' page tables. Faults 5, 16 and 19 come again when
  their handler returns.
* `UserCalls`: every stub of libsyscall, `__thr_create`, `_main` and `exit` on registers and a stack of
  words, up to the handler behind the gate that `Boot` has installed.
* `Shell`: `exec2obj`, `ls`, and the shell's listing and command line; a name is a sequence of numbers.

## 4. The runs

| Run | Configuration | Shows |
|---|---|---|
| `condvar` | 3 threads, 2 mutexes, 1 condition, fair | locks exact, no wake-up lost or wasted, nobody left spinning, the notified resume, `CondVar` implements `Monitor` |
| `threadlib` | 3 threads, creates may fail, look-ups, own mutex and condition, a group; two threads joined once, the third by anybody | no assertion fails about a thread joined once; nothing freed in use; control blocks are found; joiners of the dead are awake; the group's queue is its list |
| `sync` | 2 threads that create and join, a semaphore, an event, a reader-writer lock | who is let in; who hangs, and behind whom |
| `kernsched` | 3 threads, a lock, an event, interrupts in every window, symmetric | one place per thread, one holder per lock, sleep by ticks, until an interrupt queues the thread it finds in a window |
| `kernsched_live` | 2 threads, fair, interrupts in every window | runnable threads run, sleepers wake, locks are granted, or a thread is caught in a window |
| `sem_window` | violation | section 7 |
| `queue_ring` | 5 elements, 3 heads (two queues in use) | the macros are list operations, walks see all; and the functions above |
| `tasklife` | 3 tasks, 1 forked thread, every call by every task, ending threads preempted, tasks that end before their children | the tree of tasks but for orphans; signals, waiters and zombies match; only tasks that have ended are freed; arguments of exec; kernel stacks |
| `tasklife_live` | fair, ending threads preempted at every step; one task forks, no faults, no `task_vanish` | a zombie and a blocked waiter do not stay beside each other |
| `vmm` | 2 tasks, 3 pages, 4 frames, faults of both tasks at once | counts cover entries, shared frames are not written, tasks have memories of their own, each up to the situations it names; what passes the checks |
| `keyboard` | 2 readers, a ring of 4 | lines for readers, the ring is a line buffer; scan codes |
| `console` | 2 printers and the echo, a screen of 2 by 2 | the cursor stays on the screen; one printer writes a tape |

The properties that carry functions: `ListsAndHeapsSound` (walks, `DlinkList`, `UserHeap`,
`KernHeap`), `PrintsAndScans`, `AlgorithmsSound` (`Division`, `Library`), `ProgramsLoad` (`Loader`,
`Shell`), `MachineStarts` (`Machine`, `Boot`, `UserCalls`) in `queue_ring`; `ArgumentsArrive`
(`ExecArgs`) and `FramesKept` (`Frames`) in `tasklife`; `KeysSound` (`ScanCodes`) in `keyboard`;
`ChecksSound` (`ParamCheck`) in `vmm`. Type invariants are conjuncts: of `BlocksSound`,
`QueuesSound`, `TreeSound`, `FramesSound`, `LinesForReaders`, `OnScreen`.

In `tasklife` a child of p that ended by `task_vanish`, or was parked before it could signal,
makes the counts of p wrong for good. The properties about signals are stated for every p
without such a child (`Unsound`); the others hold regardless. `WaiterMeetsZombie` has one exception
more: a parent whose `fork_lock` a parked thread, or `task_vanish`, keeps (`LockKept`). `tasklife_live`
lets one task fork and leaves out faults and `task_vanish` to be short; it also passes with either of
them added.

Bounds, and why they are enough. Three threads: a waiter, a waker and a third that interferes;
the interesting cases (two waiters and one waker, a waiter between two wakers, a broadcast
whose first thread waits again before its second is started) need no more, and for `CondVar`,
`ThreadLib`, `ThreadGroup`, `SyncObjects`, `QueueRing`, `KernSched`, `TaskLife`, `Vmm` and `Console` the theorems of
section 5 remove the bound. Two mutexes: the world lock and one other, the case
split in `cond_wait`. In `threadlib` every join condition is one more condition, so that a thread on the wrong
list would show. Five elements and two queues: removal at the front, the middle and the end of a
ring, beside another ring.
`MaxCount`, `MaxEvents` and `MaxSignals` cap signals a semaphore remembers, at more than the waiters
there can be one after another; `MaxTicks` caps the argument of sleep, 2 being the least that
tells one tick from several; `MaxFlag` is how far below 0 a run flag is set: 1 tells a thread that may
run from one that may not, 2 lets `cas2i_runflag` replace one negative flag by another. `SyncObjects`: with one permit and two threads the second has to wait,
and what it takes along is every other thread that needs the world lock. `TaskLife`: three tasks
give a grandparent, a parent and a child, or two children of one parent; the forked thread a second
waiter or a thread that outlives another. Task and thread names are not reused. `Vmm`: a parent and
a child; a read-only page, a page that comes and goes and a stack that may grow into its place; two
directories, one of them shared by a read-only and a writable page; four frames, so that exec finds
just enough, and copies, leaks and fills run into the end of memory; `MaxRefs` keeps a task from
sharing a frame that counts 2 already: with 3 and without `kernel_write` followed, the model, larger
by a factor of three, passes too. `Asked` is the one range `new_pages` and
`remove_pages` get. `Keyboard`: a ring of four holds three characters, so that it fills, wraps and
is erased from its first index; buffers of 0, 1 and 2 for a line that fits, is cut and needs none.
`Console`: two rows and two columns give every pair of edges; `Tape` has no rows, so a longer row
adds nothing. The functions' bounds stand with their names where they are defined: heaps of up to
12 words in blocks, of which every list in bounds occurs; every set of free cells of the kernel's
memory; numbers of 6 bits for `Stdio`; digits of 3 bits for `Division`, which need every correction
there is; pages of 4 bytes and every alignment of sections to them for `Loader`; 5 programs for
`Shell`, one more than the place before `execsizes` ends.

Deadlock is checked in `QueueRing`, where queue operations always go on. In the other runs threads
may all wait for somebody who never signals, which is their business, or the model has stopped: at
a failed assertion, a ring gone astray, a thread caught in a window, a frame found twice; and `CHECK_DEADLOCK FALSE` says so; that the library's own locks deadlock nobody is
`NoSpinDeadlock`, and whom a semaphore hangs is `HangsForAReason`.

### Fairness

* `CVFairSpec`: weak fairness of every step inside the library and of the
  caller's unlock. The kernel is preemptive and round robin, so a thread that can always
  take its next step takes it. No fairness for calls, and none that would hand a spinning
  thread the lock: `mutex_lock` gives no such promise, so `NotifiedResumes` says only what holds
  without it.
* `KFairSpec`: strong fairness of each thread's steps in the kernel and of the timer, weak
  of the idle loop. A running thread's step is enabled only while it runs, which comes and
  goes; the timer interrupts for ever. That a runnable thread gets to run at all is not
  assumed but checked (`RunnableRuns`).
* `LifeFairSpec`: weak fairness of each thread's steps in the kernel (by `RunnableRuns`), which says
  nothing of a parked thread: it has no step, `schedule` never chooses it (`sched.c:168`), and
  `Preempt` may park a thread at each step from `run_flag = -1` on. Strong fairness of taking `fork_lock` (by `LockGranted`: the semaphore's queue is first come, first
  served). User code need not do anything.

`JoinersAwake` is a safety property: a joiner of a thread that has ended is not asleep, unless the
one who will start it is on its way.

### Reading the properties

The comment above each property names the code it is about. The ones that carry most:

* `WakeupsExact` (condvar): between `mutex_unlock(mp)` and the call that stops the thread, a signal
  is neither lost nor spent on a thread that still runs, and a waiter is in one place.
* `ImplementsMonitor`: all of that and the order of wake-ups, as one abstraction.
* `QueuesSound`, `CountIsWaiters`, `LockHasOneHolder` (kernsched): queues, counts and holders,
  three representations of the same thing, agree, until a thread is caught in a window.
* `WaitsExact` (tasklife): zombies that have signalled = signals kept + waits woken;
  blocked waits only when no signal is kept; a woken wait finds a zombie, as `wait` asserts.
* `FreedIsLeft`: when a task is freed, its last thread has left the stack that is freed with it.
* `WaiterMeetsZombie` is stated over the task, not over one child or one thread: which zombie
  a woken wait takes is the first on the list, not the one that signalled. With threads parked on
  their way out it says that a zombie stays beside a blocked parent for two reasons and no other.
* `ImplementsMemory`, `FramesSound` (vmm): what programs see, and the facts about counts and
  writable bits it rests on.
* `NoSpinDeadlock` (cond_var) and `HangsForAReason` (sync) speak of any set of threads one of which
  spins: somebody in it goes on, or wants a lock that none in it has. A ring of threads that spin
  behind each other, or behind one that sleeps, would be a set without. In `sem.c` and `rwlocks.c`
  there are such sets, and the second says which: they hold a thread that had to wait for a busy
  object, or one that spins on a mutex `sem_destroy` has left locked.
* `ImplementsLineBuffer`, `ImplementsTape`: what two drivers that lock nothing promise as long as
  their users do not meet inside.

## 5. What is proved

Every theorem is about all values of the constants that meet the module's named assumption, and
about the specification that the runs check (exceptions are named). An invariant is proved as the
consequence of an inductive one, with a lemma for every action or kind of step.

`CondVarProofs`, for any sets of threads, mutexes and conditions that meet
`CondVarAssumption`: `TypeCorrect`, `LocksExactHold`, `WakeupsExactHold`, `EnqueueAssertsHold`,
`OnlyNotifiedResumeHolds`. None of them is inductive alone. The invariant (`CVInvHolds`) is

    CVInv == TypeInv /\ LockInv /\ SleepInv /\ StateInv

`TypeInv` adds to the types which local variables are set at which label. `LockInv` is
exclusion, exactness of the lock word, and that the world lock is not taken twice: one
without the other breaks at the step that clears a word through `cas2i_runflag`. `SleepInv`
says where a thread that is stopped, or about to be, is listed, and that lists and the wakers'
hands are disjoint and without repetition; it needs `LockInv`, because lists change only
inside the control block's lock. `StateInv` ties the library's thread state to the label. The
proof has a lemma per kind of step (a thread queues itself, falls asleep, is popped,
detached, started; steps that leave all that alone) and lemmas on appending to and cutting
sequences without repetitions.

The same module: `ImplementsMonitorHolds`. `CVInv` is not enough: a thread that is falling asleep
has to be the last on its list (`LastOK`), because in the abstraction it is queued only by the store
that releases its caller's mutex, and appending it there must give the list that is there already.
Each action is then a step of `Monitor` or a stutter, by label. `NoSpinDeadlockHolds` follows from
`CVInv` alone: `LocksInOrder` says that who is inside a control block spins on nothing, who has the
world lock on a control block at most, and who has a caller's mutex on one of these at most.

`ThreadLibProofs`, about `TLSpec`: `UsesCondVarHolds`, `JoinsInOrderHolds`, `BlocksSoundHolds`,
`JoinerWokenHolds`. The first is the composition: with it the theorems about `CondVar` hold of the
library, and `CVInv` is the first conjunct of

    TLInv == CVInv /\ TLTypeOK /\ PlacesOK /\ PeersOK /\ BirthOK /\ BlocksOK
             /\ JoinOK /\ OnceOK /\ JoinsInOrder

`PlacesOK` says what a place in `thread_lib.c` means for the place in `cond_var.c` below it and for
the world lock; `BirthOK` that a thread that is being made has one maker and has not come far;
`BlocksOK` which control blocks are in the list and which stacks are freed; `JoinOK` that a joiner is
alone on the list of the thread it joins until that thread, on its way out, takes it off; `OnceOK`
that threads joined as the library means it have one joiner, which finds them.

The same module, about `TGSpec`, for any finite set of threads of which any may be created into the
group: `GroupQueueSoundHolds`, `JoinersAwakeHolds` and `GroupKeepsThreadLib`, which carries over what
is said above of `TLSpec`. A join of the group asks `thr_join` for a thread that need not be one of
`JoinedOnce`, so the invariant shows that it may be: the thread is on the task's list and nobody
else's peer (`TakenMayJoin`), hence every step of `TGSpec` is one that `TLInv` survives. It is

    GroupInv == TLInv /\ GroupTypeOK /\ GroupPlacesOK /\ MembersOK
                /\ \E s \in Seq(Threads) : IsQueue(s) /\ HandsOK(Members(s)) /\ AwakeOK(Members(s))

`GroupPlacesOK` says what a place in `thrgrp.c` means for the places below it and for the group's
lock; `MembersOK` that a thread of the group, once it has found itself on the task's list, stays
there until it is freed. The queue is a sequence that the links spell (`IsQueue`); `QueueIsLinked`
shows that following them, as `QueueTo` does, gives that sequence. `HandsOK` says where a thread
that has returned is: on the queue, in the hands of one join, being joined by one thread, or freed.
`AwakeOK` counts: whoever goes to sleep has found the queue empty, one that queues itself will
signal, one that is woken will look, and a join that takes one takes no more.

The same module, about `SOSpec`, for any finite set of threads and any semaphores, events and
reader-writer locks: `LetsInHolds` and `HangsForAReasonHolds`. `LetsIn` counts threads, so each step
is about the size of a set: `Enters` and `Leaves` say that `Within` gains or loses one thread. What it
needs beside types is `CallsOK`, that who asks has nothing and who gives back has what it gives, and
`DestroyedOK`, that nobody asks a destroyed object and nobody is within it, except that
`rwlock_destroy` may yet find it taken: an object is initialised only when the counters are right
to be reset. `HangsForAReason` rests on `HangInv`: `CVInv` again, `SpotsOK` (what a thread that spins
on the world lock holds, and that a call of `sem.c` or `rwlocks.c` has the world lock at most) and
`KeptOK` (a locked object has a thread in it, unless `sem_destroy` left it locked). The order of
locks is now: callers' mutexes and the mutexes of reader-writer locks, the world lock, control
blocks and the mutexes of semaphores (`KeeperOfObject`, `KeeperOfLock`).

`VariableQueueProofs`, about operators: `RingOfInsertion` and `RingOfRemoval` are the core, writing
the four links the macro writes makes the ring of one sequence the ring of the other; from them
`InsertTailRings`, `InsertFrontRings` and `RemoveRings`, which say what a macro does to all the queues
that share a link field: the one it is applied to has the sequence it should, the others keep
theirs, and an element taken off stands alone (`RemoveFree`).

`RingProofs`, for any disjoint sets of heads and elements: `RInvHolds`, `RTypeCorrect`,
`RingsSoundHold`. Beside what `RingsSound` says the invariant has that no element is on two lists or
twice on one and that elements on none are linked to themselves; every step is then one of the
lemmas above.

`KernSchedProofs`: `KInvHolds`, `QueuesSoundHolds`, `CountIsWaitersHolds`, `LockHasOneHolderHolds`,
`SleepsItsTicksHolds`, for any finite set of threads and any locks, devices and bounds, of `KSpec`
with no assumption on where interrupts come. The properties end where a thread is caught in a
window; after that they are false of the code, and `sem_window` shows why. `KInvHolds` is
`[](caught \/ KInv)`: every step from a state of `KInv` keeps it or is that of an interrupt that queues
the thread it finds. What has to be shown beside the steps of threads is that a signal in the middle
of an insertion, which moves the first waiter of another queue, leaves the half-written ring
completable. The specification keeps links only, so the invariant has to say that there are lists:

    KInv == KTypeOK /\ \E r, L : InOrder(r, L)
    InOrder(r, L) == R!Rings(r, L) /\ Linked(r) /\ Places(L) /\ Counts(L) /\ Holders(L)

`L` is a sequence for every queue, `r` their rings. `Linked` is what `q` itself is: `r`, or `r` with the
running thread half inserted into the sleepers' queue, for which interrupts come between the writes
of `Q_INSERT_TAIL`. `Places` ties labels to lists: a thread that does not run is on one, the running
thread is on none unless it has queued itself and not yet called `schedule`. `Counts` and `Holders`
are the second and third theorem in terms of `L`. They need each other: `sem_signal` trusts the count
and takes the head of the queue, so a count that is off grants a lock to nobody or follows a link
out of an empty queue. `SweepLists` is about the tick: it follows the walk round by round, each of
which removes the element it stands on, inserts it into another queue and goes on with a pointer
saved before; whatever the rounds do, what was on the sleepers' queue is afterwards on it or, its
time being used up, on the run queue. `Sweep` is defined by a recursive function; the lemma `Course`
says that a function that leads from each of a sequence of sets to the next one has a course, and
rests on `UpTo`, induction over the natural numbers stated of sets.

`TaskLifeProofs`, for any sets of tasks and forked threads, whatever user code does (`Calls`) and
whoever is preempted: `LifeInvHolds`, `ListsAndLocks`, `FreedIsLeftHolds`, `WaitsExactHolds` and
`TreeSoundHolds`, none with an assumption on what programs do. A task that ends before its
children leaves pointers to itself in them; `TreeSound` says that these orphans are the only tasks
without a parent. The invariant

    LifeInv == TypesInv /\ UnbornInv /\ ThreadsInv /\ MakingInv /\ LivesInv
               /\ QueuesInv /\ LockInv /\ TreeInv

says that what does not exist yet is pointed to by nothing, which labels a thread has on and off its
task's list, that what a fork is making does not run, that a task lives exactly as long as it has
threads and that its last one signals alone, whose queue a waiter is on, where `fork_lock` is held,
and that lists of children and parent pointers agree. `FamilyInv` (for `TreeSound`: whom a zombie
still lists is an orphan, so that reaping it takes nobody else's parent away) and `WaitsInv` (for `WaitsExact`: signalled zombies are counted by the semaphore,
its queue and the woken) are added where they are needed. `Unsound(p)`, the condition of
`WaitsExact`, never goes away once it holds, so each step may assume its negation before.

`VmmProofs`, for any finite set of tasks, any number of pages and frames, any image whose sections
share no page and which fits the frames, any ranges that programs add and remove, and any bound on
sharing (`VmmAssumption`), and any of the four situations followed or not: `VInvHolds`,
`FramesSoundHolds` and `ImplementsMemoryHolds`, of `VmSpec` with no further assumption. Tasks fault at
the same time, programs grow, fork and let the kernel write as they like, and each conjunct of the
invariant says up to where it holds:

    VInv == VTypeOK /\ RangesOK /\ TasksOK /\ (Alone => Counted) /\ (Sound => Exclusive)
            /\ (Tidy => EntriesOK /\ FaultsOK)

with `Alone` for no frame found twice, `Sound` for that and no `grow_any`, `Tidy` for none of the four.
Growth, whatever it does to the bits of entries, changes no frame of one and so leaves counts
alone; that is why `Counted` needs `Alone` only. `Counted` is `CountCovers`, `OneReference` and
`Claims`, that frames which faults have found are free and apart.

`SharedReadOnly` is not inductive: it looks at present entries, and at the directory's bit too, which
other pages of the same directory set. `Exclusive` says it of the entry's own bit and of every entry
with the address. `EntriesOK` says which entries may hold an address: those that are present, and
outside of the ranges only what growth left above the stack, so that the page a stack grows into and
the pages `new_pages` makes writable have none. `FaultsOK` says that the page of a fault is one to be
copied, or not there. Then counting: `Holders(t, f)` is the set
of entries that tables t have for frame f, a fork adds at most one for each page of the child, what
drops references drops at most as many as it drops entries (`Dropped`), and a frame with a holder
has a count (`Nobody`). `Loading` shows that the n-th page of an image gets the n-th free frame and
no two the same.

For the refinement each action is a step of `Memory` or leaves `Seen` as it is. `Exclusive` is why a
write is one: the writer's entry is the only one to lead to the frame. Copies and fills end in
`DoneSeen`, growth in `GrowSeen`: a page that was not there becomes zero, and nothing else changes.

`ConsoleProofs`, for any size of screen and any printers: `COInvHolds`, `OnScreenHolds` and
`ImplementsTapeHolds`. The invariant is

    COInv == ShapeOK /\ (~ strayed => KeptInv)

`ShapeOK` is the types. `KeptInv` says, as long as nobody has led the cursor astray, where it may be:
on the screen, or one column beside it in the hands of a printer that will put it back (`Beside`); and
what each place on the way knows of the row and the column. After that it may be anywhere, and nothing
is claimed. For the refinement, `LoneInv` says that until two have met at most one printer is inside a
call. `RawIdle` and `RawBusy` then say what the abstraction sees: with nobody begun, the cells and the
cursor; with one begun, the position its call will end at, and what of the cells it has yet to write.

`RingProofs`, for the keyboard's ring of any size above 1 and any finite set of readers: `KBInvHolds`,
`LinesForReadersHolds` and `ImplementsLineBufferHolds`. The invariant is

    KBInv == KBTypeOK /\ SemsOK /\ CallsOK /\ RingOK /\ LinesEnough

`SemsOK` says who is in which queue, and that `wait_for_readline` never counts above 0: only a '\n'
that finds somebody there signals it, so whoever waits for a line was started by a '\n' typed after it
began. `RingOK` says, until two have met, that one reader at most is inside the ring, that the ring is
not empty while it takes, and that what it has loaded is still there: no key writes at that index.
`LinesEnough` is the count of `LinesForReaders`. A '\n' that is stored adds a line and at most one
reader it is due to; one that is taken by readline removes one of each; every other step adds no
reader and removes no line (`KeyDue`, `ReaderDue`, `NewlinesOfAppend`, `NewlinesOfTail`): `readline`
itself adds none because by `SemsOK` it always waits. For the refinement the line is read off the ring with
indices modulo its size (`LineIs`); `LineGrows`, `LineShrinks`, `LineTaken` and `LineWraps` say what a
store to the ring or to an index does to it. A key stored is `Type`, a '\b' `Erase`, the store of the
next index `Take`, an empty ring `Miss`, the start of a call `Begin`.

Model-checked only:

* liveness, and whatever mentions ENABLED, which the prover does not do: `NotifiedResumes`,
  `RunnableRuns`, `SleepersWake`, `LockGranted`, `WaiterMeetsZombie`;
* the comparisons of functions (`ListsAndHeapsSound`, `PrintsAndScans`, `AlgorithmsSound`,
  `ProgramsLoad`, `MachineStarts`, `ArgumentsArrive`, `FramesKept`, `KeysSound`, `ChecksSound`): they
  compute, with RECURSIVE operators in many cases, and what they compute for every input would be
  an induction over their data.

## 6. Not modelled

Most lines of the tree are outside on purpose: ELF constants and structures, memory layouts of the
multiboot loader, the simulator's interface, test and demonstration programs, tools, and library
files that exist twice, once for the kernel and once for programs (one copy is modelled). Of the
files the models do cover:

* `mutex_destroy`, `cond_destroy`, and with them `thrgrp_destroy_group`: planned, section 2. What
  `sem_destroy` and `rwlock_destroy` do is in `SyncObjects`, whose programs do not use a destroyed
  object before they initialise it again.
* `wakeup_last_waiter`, `wakeup_tid`, `sleep_on_no_schedule` have no caller; `sleep_on` and
  `sleep_on_if_first` are only declared; `get_cmd_line` has no caller either. Spinlocks for several
  processors end in `#error`. `memcmp.c` is empty under GNU C.
* `THREAD_STATE_INIT` is left before another thread can see the block.
* `set_status` is one store. A malloc that fails in exec is noticed after the memory was written.
* The memory for page tables (its lack appears in `fork`), the quota of `new_pages`, the TLB.
* `%s` of `sscanf`, which runs past the end of its input; capital digits of `_doprnt`.
* The segment registers gs and fs, which nobody saves.
* What happens after undefined behaviour: freed memory read by `fault_generic_fatal` or a signal to
  a parent that is gone. Models stop or leave such programs out, where they say so.

## 7. Where the code and its comments disagree

The violation run checks one sentence of a comment against the code: `sem_window`
(`sync.c:194`). `sem_wait` restores interrupts with the running thread on the semaphore's queue. A
tick then queues it a second time through the same link. The comment says there is no context switch
in between.

Others met on the way. The models contain them as steps, as conditions in a property, or leave them
out by name; those marked with a property are looked at by it.

Start of the machine (`MachineStarts`).
* `TOTAL_SYSTEM_CALLS` is 34 (`syscall.c:53`), but `sys_call_table` has 24 initialisers. The other ten
  have number 0, and `syscall_init`, which runs after `faulthandler_init`, installs them at gate 0 with
  privilege 3: the divide error handler, which "handles the fault - divide by zero"
  (`faulthandlers.c:416`), is lost, and a division by zero enters `syscall_enter` with a NULL check
  (`DivideGateLost`).
* `boot_driver_init` returns what its last step returned; that the timer failed is only printed
  (`bootdrivers.c:46`). `task_setup_init_code` does not test what `smemalign` gave (`task.c:298`).
* `initial_pte_pages =+ 1` (`vmm.c:100`) is harmless only because the remainder is 0.
* The double fault keeps the gate of `head.S`; `double_fault_handler` is never installed.
* `pic_acknowledge` of lines 8 to 15 writes the second command to the master as well; 0x30 as the
  specific end of interrupt has the bit set that starts an initialisation.
* `fault_generic` returns to the instruction that faulted (5, 16, 19 come again for ever).
* CR0.WP is never set, so the kernel writes through read-only pages (`Vmm`'s `kernel_write`).

Scheduling and synchronisation.
* `spinlock_unlock` enables interrupts; on the fast paths of `sem_wait` and `sem_signal` it does so
  inside an interrupt handler too.
* A tick between `run_flag = -1` and the signal of `vanish` parks the thread and its parent stays
  blocked, though the comment in `wait` says no signal is lost (`syscall_vanish.c:49`; `Preempt`). One before its unlock leaves `fork_lock` taken (`LockKept`).
* `thr_exit` empties the list that a second joiner looks at, so the second is not told
  `ETHREAD_BUSY` and both free the stack (`thread_lib.c:342`; `freedTwice`). `thr_join` frees the
  stack of a thread that is still to unlock and vanish on it (`thread_lib.c:370`). An assertion stands
  before the error returns of join (`thread_lib.c:336`).
* `sem.c:87`, `rwlocks.c:27` and `:41` spin on a mutex the thread holds, where `sem.c:58-59` says it is
  suspended. `sem_signal` looks up its block without the world lock (`sem.c:117`). A writer's unlock
  always fails the assertion (`rwlocks.c:71`, library number against kernel number). `rwlocks.c:87` tests
  the wrong condition (out of reach). `sem_destroy` leaves the mutex locked and `SEM_INIT` does not
  clear it. `mutex_destroy` refuses a mutex that is not locked, its description one that is
  (`mutex.c:50`).
* `wakeup_all` starts the last waiter first. `thrgrp_create` leaks its data when `thr_create` fails.
* `Q_GET_NEXT` and `Q_GET_PREV` of an element on no queue are the element itself, the header says NULL
  (`variable_queue.h:236-270`). `Q_FOREACH` over a body that removes never gets on
  (`WalksSeeAll`): so do `task_vanish` and `fault_generic_fatal`, which frees the threads it stands on and
  then its own stack (`faulthandlers.c:390`).
* yield(-1) passes its check, and the handler reads the run flag of a thread -1
  (`syscall_yield.c:53`); `wait(NULL)` is always refused; nobody checks the packet's own address.
  `syscall_taskvanish` never reads its argument.

Memory.
* Two tasks find the same frame free before either has counted it (`vmm.c:38`; `found_twice`).
  Its count is 1 for two entries; when one task ends it is 0, and the other's fork fails the
  assertion of line 59, whose comment says that there is a reference since the frame was found.
* Fork of a task with an untouched page of `new_pages` fails the assertion of `vmm.c:56`
  (`ForkPanics`); `new_pages` with length 0 fails that of `vmm.c:401` (`NewPagesNone`); a copied
  page's old frame keeps its count, so frames are lost (`FaultDone`); a buffer across two ranges that
  meet is refused (`vmm.c:905`). "Check if the write buffer for given length is in process memory"
  (`syscall_paramcheck.c:136`) is not what it does for a length below zero, which `readline` then takes
  as a `size_t` (`syscall_console.c:57`); and exec's parameters are not "having valid address
  locations" by anything its check does (`syscall_paramcheck.c:338-340`; `ChecksSound`).
* "Fault in Kernel mode: Panic" (`faulthandlers.c:137`) is not tested: the handler spoils the frame the
  system call will leave through (`faulthandlers.c:210`).
* A task that ends leaves its children a pointer to it (`orphans`). A parent may free the stack
  of a child preempted between its signal and its last `schedule`.
* Sections that share a page are backed twice, and a frame is lost for every exec; a program without
  `.rodata` or `.data` cannot be loaded; an empty section at a page boundary fails an assertion;
  read-only marking from an unaligned start may miss the last page (`ProgramsLoad` describes what is
  loaded as the code does it).
* exec: `argv` on the new stack is not ended by NULL; an empty string ends the list; memory is
  cleared before it is tested (`syscall_exec.c:149`); arguments longer than the stack's pages are written
  below it; "load_elf failed kill process" kills nobody and returns (`syscall_exec.c:218`).
* Allocators: `calloc`'s product may overflow (`malloc.c:48`); a failed `mm_init` loses a page each
  time; `thr_create` frees a pointer malloc did not give (`thread_lib.c:233`); `util_lmm.c:41-43` says high
  memory is used first, but priorities are unsigned and -1 ranks above 0; two boot holes that leave
  a gap inside one cell fail the assertion of `lmm_add_free.c:40` (all in `ListsAndHeapsSound`).

Devices and the shell.
* Keyboard: getchar may return -1, though `keyb_driver.c:317` says otherwise, and readline store it; a
  backspace at index 0 makes the head -1; the test for a full ring misses a tail still to be
  wrapped; a buffer of length 0 uses a character never read; caps lock shifts brackets; print screen
  with control or shift is not reported; a raw code of FF is taken for an empty ring.
* Console: a backspace printed at the top left fails the assertion of lines 284-286; the keyboard's
  backspace does not draw the cursor; scrolling fills with NUL; a draw of the hardware's cursor that the
  echo interrupts shows a place of neither (`console_driver.c:86`; `OnScreen`); `clear_console` passes the
  row twice (harmless at 0).
* `exec2obj` counts sizes from 1, so that the largest number of programs it allows writes past them
  (`exec2obj.c:137`), and only warns of more. ls may fill its buffer to the last byte, and the shell then
  walks on behind it (`shell.c:153`; `ProgramsLoad`). The shell writes in front of its buffer when readline
  fails.

C library (`PrintsAndScans`, `AlgorithmsSound`). `strrchr` never finds the NUL; `strncmp` compares signed
characters and `strcmp` unsigned ones; `isascii(127)` is 0; `strtol` does not skip a plus; `sscanf`
returns 0 always; `%-m.ns` of a string it cuts pads one short; `vsnprintf` of a full buffer stores its NUL
behind the size it was given; `%r` and `%n` divide by a radix of 0; `%#p` prints 0x twice.
