# Verification of the kernel of myos_io

myos_io is a small x86-64 kernel: a boot loader, a page-table manager, a
preemptive multi-core scheduler with C11 mutexes and condition variables, a
keyboard and a terminal, and a program that runs on top.  The hard part is in
`sched/`: nearly every structure there is lock-free, built from a handful of
exchanges and compare-and-exchanges, with threads that sleep on one core and
wake on another.  This project models those algorithms in TLA+ one memory
access at a time, and the terminal, the memory management and the start of the
system around them, checks them with TLC and proves their invariants with TLAPS.

## The system

What is built is decided by `build.sh`, `sched/static.c` and `mm/static.c`.
`bak/`, `sched/cond/`, `sched/timer_isr/` and
`sched/tty/handle_keyboard_event_new.c` are older versions that are not built.
The `.c` files next to the hand-edited `.s` files of `sched/mutex` are the
source of the assembly that is built, and agree with it.

| Component | State | Operations | Talks to |
|---|---|---|---|
| Mutex (`sched/mutex/mtx_*`) | `owner`, `waiters`, `wait_end`, `count`; each waiter's `temp0` | `mtx_init`, `mtx_lock`, `mtx_trylock`, `mtx_unlock` | puts the next owner on the run queue; a waiter gives its core up with `switch_to_empty` |
| Condition (`cnd_*`) | a list of waiting threads, a spinlock | `cnd_init`, `cnd_wait`, `cnd_broadcast` | releases and queues on mutexes, puts threads on the run queue |
| Spinlock (`include/spinlock.h`) | `spin_mutex`, the last member; each member's `next`, `is_locked` | init, lock, unlock | guards the consumer side of the lists |
| List (`include/al_list.h`) | `head`, `end`, each node's link | append, append_empty, delete_front (several), clear | the run queue and the list of a condition |
| Scheduler (`set_thread_schedulable.s`, `empty_switch.s`, `timer_isr.s`, `new_thread_isr.s`, `thrd_create.c`, `init.c`) | the run queue and its lock, three counters, each core's running thread and process | make schedulable, go idle, timer tick, create a thread | every other component |
| Keyboard (`sched/tty/keyboard_isr`, `keyboard_thread`) | a byte ring filled by the interrupt handler, `used`, the sleeping thread | interrupt, translate, sleep, wake | fills the terminal |
| Terminal (`sched/tty/tty_*`, `fd.c`) | the line ring, visible and used bytes, a mutex and a condition, the screen | read, readv, write, input with backspace | mutex and condition |
| Memory (`mm/`) | stack of free pages, pool of page-table pages, address blocks, page tables | `mmap`, `mmap_soft`, `munmap`, check, map and unmap a page | its own lock |
| Boot loader (`bootloader/`) | memory map of the firmware, ACPI tables | detect, sort and trim the map, load the kernel | hands the map to `mm/init.c` |
| Core start-up (`start/`, `driver/`) | trampolines, x2APIC | start the other cores | scheduler |
| Calculator (`main.c`) | the operator, two numbers in limbs of six decimal digits, the result | input, `+`, `-`, `*`, long division, output | the terminal, through the C library |
| C library, mimalloc (`lib/`) | vendored | | |

### What is hard, and what makes each component correct

* **Mutex.**  `mtx_lock` publishes its node with one exchange of `wait_end` and
  links it afterwards, so a release can meet a list whose links are not
  written.  A thread whose compare-and-exchange lost twice may own the mutex
  with its own node in `wait_end`.  Correct means: one holder; the list in
  memory is the line of those who wait; nobody drops out or overtakes; every
  spin loop ends; a handed-over thread is put on the run queue once, while it
  is asleep; the fields agree with what callers were told, up to `SIZE_MAX`.
* **Condition.**  `cnd_wait` joins the condition before it releases the mutex;
  `cnd_broadcast` queues sleepers on their mutexes, with interrupts on.  No
  waiter is lost or woken twice, a waiter returns with the mutex, no spin waits
  for a thread that cannot run.
* **Spinlock.**  One holder, first come first served, no member used after it
  is passed on.
* **List.**  A multi-producer queue: nothing lost, nothing twice, order of the
  exchanges; the forced deletion spins only when a node is on its way.
* **Scheduler.**  A thread is in one place (running, queued, asleep); an idle
  core is woken when there is work; the counters bound what may be deleted; a
  stack or process is not used after the thread was published.
* **Keyboard.**  The ring does not overrun; a scan code is not left behind
  while the thread sleeps.
* **Terminal.**  Readers take whole lines, `visible <= used <= size`, backspace
  never crosses a line that is visible.
* **Memory.**  Every page is free, mapped or a page table, never two; a failed
  mapping gives back what it took; the pool refills without recursion running
  dry.
* **Boot loader.**  The trimmed map is sorted, disjoint, page-aligned and
  covers what was usable; the kernel and its free pages lie in memory and apart.
* **Core start-up.**  The cores agree on the register components they switch
  on; none takes another's data; a context fits where it is saved.

`PROJECT.json` lists the hazards at the lines where they bite, with the
properties that cover them.

## The modules

| Module | What it is |
|---|---|
| `FifoLock` | the abstract lock: a holder and a line |
| `Mutex` | `mtx_init`, `mtx_lock`, `mtx_trylock`, `mtx_unlock`; implements `FifoLock` |
| `MutexProofs` | the theorems about `Mutex` and their proofs |
| `Cond` | `cnd_init`, `cnd_wait`, `cnd_broadcast`; extends `Mutex` |
| `CondProofs` | the theorems about `Cond` and their proofs |
| `CondCores` | `Cond` on a number of cores, with interrupts and preemption |
| `SpinLock` | `spin_lock`, `spin_unlock` as `spinlock_do` calls them; implements `FifoLock` |
| `SpinLockProofs` | the theorems about `SpinLock` and their proofs |
| `NodeQueue` | the abstract queue: nodes put in, taken singly or all at once |
| `AtomicList` | `al_list.h`; implements `NodeQueue` |
| `AtomicListProofs` | the theorems about `AtomicList` and their proofs |
| `Scheduler` | the run queue, its counters, timer, idle cores, the interrupt that wakes them |
| `SchedulerProofs` | the theorems about `Scheduler` and their proofs |
| `Keyboard` | the keyboard interrupt and the keyboard thread |
| `LineQueue` | the abstract terminal: a text that becomes ready by lines |
| `Tty` | from key codes to text, the ring, the readers; implements `LineQueue` |
| `Screen` | the text memory and the cursor |
| `Terminal` | `Tty` and `Screen` together: echo, and other threads that write |
| `InputProofs` | the theorems about `Keyboard`, `Tty`, `Screen` and `Terminal` and their proofs |
| `AddressSpace` | what `mmap`, `mmap_soft`, `munmap`, `check_map` promise |
| `Memory` | free pages, page tables and the calls, a page at a time; implements `AddressSpace` |
| `MemoryProofs` | the theorems about `Memory` and their proofs |
| `E820` | the firmware's memory map: detected, trimmed, the kernel's place, the free pages |
| `CoreStartup` | how the boot core starts the others |
| `Calc` | the calculator that `_start` calls in the end |
| `Boot` | `E820`, then `CoreStartup`, then `Calc` |
| `BootProofs` | the theorems about `E820` and `CoreStartup` and their proofs |
| `MC...` | the instances for TLC |

Who builds on whom: the lists of `AtomicList` are guarded by `SpinLock`;
`Scheduler` takes both by their contracts (its `queue` is `NodeQueue`'s, behind
a lock); `Mutex` and `Cond` take the scheduler by its contract (`ready`, and
that a queued thread runs, which is `QueuedThreadRuns`); `Keyboard` likewise;
`Tty`, `Screen` and `Memory` take the mutex, `Tty` also the condition, by
theirs: what happens under one mutex is one action, or, in `Memory`, the steps
of a holder who works alone.

Operators whose comment begins with "Faulty" are no part of a specification:
each is a plausible mistake in the action it is named after, and the mutation
runs use them to show that a property can fail.

### Mutex

The variables `owner`, `waiters`, `wait_end`, `count` are the fields of
`struct Mutex`, `temp0` the field of `struct Thread` of that name, and
`last_end`, `current_waiters`, `current_end`, `next` the locals of `mtx_lock`
and `mtx_unlock` that outlive one step.  The address of a node is written as
the thread it belongs to, `&mutex->waiters` as the constant `Sentinel`.  `pc`
says which access to shared memory a thread makes next: each action is one
load, store, exchange or compare-and-exchange, with the local computation that
follows it up to the next one.  `ready` is the run queue as the mutex sees it:
`UnlockWake` is the call of `set_thread_schedulable`, `LockWakeup` the return
to `label_wakeup` once a core has taken the thread from the queue.

`mtx_lock` and `mtx_unlock` share labels where they share code (`lock_owner` is
`label_fast_exit` and the two other stores of the owner that end a call).  The
four places of `mtx_unlock` that are written twice (lines 37/47, 38/48, 41/51,
44/53) are one action each: they differ in nothing.

Memory is sequentially consistent in the model.  On x86 locked instructions are
full fences and stores stay in order; the one reordering left, a store passed
by a later load of the same thread, matters at `owner := NULL` or
`waiters := NULL`, and both are followed by a locked instruction.

Clients are left free: any thread may call any of the three functions at any
time it is not inside one, also `mtx_unlock` on a mutex it does not hold.

`held` and `line` are history variables: how many locks a caller has been told
it has, and the threads that exchanged a taken `wait_end` and were not granted
the mutex yet, in order.  No guard reads them.

`Holds(t)` says when a thread has the mutex: from the compare-and-exchange that
takes it, or the instruction of a release that takes the thread off the list,
to the instruction that passes it on.  `Holder` maps it to `FifoLock`.

### Cond

`Cond` extends `Mutex` and reuses its actions: a thread whose `cpc` is "none"
uses the mutex as before; otherwise `cpc` says where it is in `cnd_wait` or
`cnd_broadcast`.  The release inside `cnd_wait` (`cnd_wait_c.c` 96-137) is a
copy of `mtx_unlock` from its load of `waiters` on; `WaitRelease` takes the steps of
`Mutex` for it, and `WaitSwitch` replaces the wake-up by the direct switch to
the next owner.  A free mutex leaves the core idle.

`cnd_broadcast` queues a sleeper on the mutex in the sleeper's name: its
actions read and write the node of `Current(b)`, not of the caller.  `batch`
is the list taken from the condition (its first element is
`current_thread_node`), `granted` the list handed to the scheduler in the end.
`linked` is the set of threads whose `al_node` is not NULL: what the run queue
requires of a node is that it is clear.

Left to other modules: the list and its spinlock take effect at their
exchanges (`SpinLock`, `AtomicList`).  There is one mutex: the
waiters of a condition share one, as C11 asks, so `granted` never holds more
than one thread.  `mtx_trylock` is left out here; `Mutex` has it.  Deadlock is
not checked: all threads may be waiting with nobody left to broadcast.

A recursive mutex locked more than once is not released by `cnd_wait` (line
15): the model does the same, and such a waiter sleeps with the mutex.

### CondCores

`running` is the set of threads that are on a core.  A thread takes steps on
its core only; `Dispatch` is an idle core that takes a runnable thread,
`Preempt` the timer.  `InterruptsOff` lists the labels between the `cli` and
the `sti` of `mtx_lock` and `cnd_wait`, where `Preempt` cannot happen; there
are none in `cnd_broadcast`.  Which runnable thread comes next is free; the
order of the run queue is in the fairness.  The mutex is a plain one.

### SpinLock

The members live on the stacks of the calls, so the core that runs a call
names its member.  `queue` is a history variable: who exchanged `spin_mutex`
and has not passed it on.  `MembersAreQueue` says that the members in memory
are this queue, each linked or about to be linked; it also says that the two
stores into another call's member (`next` of the one before, `is_locked` of
the one behind) go to a call that has not returned, whose stack frame is still
there.  `TypeOK` includes that neither pointer is NULL when it is followed.  `SpinInv` is the two
together.

### AtomicList

`head`, `end` and `link` are the memory.  An append is two actions
(`AppendExchange`, `AppendLink`), in the name of the first node of its chain:
`set_threads_schedulable` appends several nodes at once.  Deletions follow
`al_delete_front`, `al_delete_front_force` and `al_clear` load by load; a
consumer has the spinlock from its first access to the one that takes effect,
and its node in hand after it (`reset`, `walk`).  `counted` says which of the two lists of
the system it is: the run queue, whose deletions are forced and counted
beforehand in `schedulable_threads_num`, or the list of a condition.  `content`
is a history variable, the nodes in the order of the exchanges; `ListSound`
says what the memory looks like while up to all of them are not linked yet.

### Scheduler

`queue` is the run queue, `num`, `old_num` and `idle` are the three counters,
`running` and `core_proc` are `gs:0` and `gs:8` of each core.  Every access to
what cores share in `set_thread_schedulable.s`, `empty_switch.s`,
`timer_isr.s` and `new_thread_isr.s` is an action; going to sleep in `mtx_lock`
or `cnd_wait` is `Sleep` (the thread may be woken from there on) followed by
`GoIdle` or `SleepSwitch`.  Interrupts are taken in `run`, `part2` and `halt`
only.  Threads are kernel threads, the only ones `thrd_create` makes; the paths
for a thread of a user process are left out.  `stolen` is a history variable.

An idle core may miss its interrupt: one that comes between `sti` and the
decrement of `idle_cores_num` (`part2`) is taken there and only begins the
search again, and a waker that reads `idle_cores_num` while the core is between
the decrement and the increment sends none.  The core then halts beside a
queued thread until its own timer interrupts it (`IdleTick`).  `QueuedThreadRuns` is
the promise that remains.

### Keyboard

`used`, `flag`, `ii` and `buf` are `keyboard_buf_used`,
`keyboard_sleeping_thread`, `keyboard_buf_ii` and the ring; codes are numbered
as the keyboard sends them.  `IsrFlag` covers the three cases of the wake-up:
nobody asleep, a sleeper put on the run queue, a sleeper run by the idle core
that took the interrupt, after it has stored the code (`direct`).  Reading the
scan codes of one key from the port, and the `abort` on an unknown key, is
left out: a code is what `key_code` holds.  The interrupt of one core is served
at a time (it is sent to the boot core only).

The index of the interrupt is a `uint16_t` (line 283), the ring has 2^21 slots:
after 65536 codes the interrupt starts over at slot 0 while the thread reads
on.  In the instance the index has six values and the ring eight slots.
`CodesInOrder` and `CodeHandled` are stated up to that point; `SleepSound`
beyond it and for a ring that is full.  See *Observations without a run*.

### Tty, Screen, Terminal

`Tty` has the ring with its four numbers.  A batch of key codes is translated
(`Translated`: caps, shift and backspace within the batch), and then saved
under `read_mtx` (`Save`); a read is `Call`, perhaps `Wait`, and `Take`, which
copies to the buffers one after the other, round the end of the ring.
"letter" stands for the keys with two cases.

`Screen` is `__putcharx` with `scroll`, and the start at the firmware's cursor;
the cells that `kernel_init_part0` does not clear are as the boot loader left
them (see *Observations without a run*).
`Terminal` joins them: `Typed` echoes what the batch erases and types before it
saves it, `Show` is another thread that writes.  `EchoSound` says that the
screen shows, before the cursor, the text that backspace may still erase, as
long as nobody wrote in between (`clean`).  It rests on more than the echo: a
full ring drops characters that were echoed, which is harmless only because
the rest of the ring then becomes visible and can no longer be erased.

### Memory

`m` is the state of the page tables and of the stack of free pages; the
operators on it (`Map`, `AddPtPage`, `Unmap`, ...) are the functions of
`pt_manage.c`.  A thread's call is taken apart into its turns under
`mmap_mutex`: one action for each page mapped, skipped, unmapped, compared, or
given back after a failure.  A page of tables maps itself, with the last free
table, before it is written, so that `TablesSound` asks that one table is
always left.  `free_pages_num` is read without the mutex (`Begin`) and
published at `Unlock`.  `leaked` counts what `mmap_soft` loses (see
*Observations without a run*); `PagesSound` allows for exactly that.

Callers keep to the rules of `AddressSpace!MayCall`, since the kernel aborts
where they do not: they map what is free, unmap what is mapped, and leave each
other's ranges alone while a call is under way.  Calls of length 0 and the
checks of flags and alignment are left out.

### E820, CoreStartup, Calc, Boot

`E820` has the entries as the firmware reports them (`Report`), with the
buffer pointer and the count that the loop keeps, `Trim` for
`trim_e820_entrys`, `Place` for `find_kernel_load_pos`, and `Blocks` for what
`kernel_init_part2` makes of the map.  The unit is half a page (`PageSize` 2),
`Low`, `FourG` and `Reach` stand for 16 MiB, 4 GiB and the 512 GiB that the
first tables reach.  `Reference` is the definition of a trimmed map the result
is compared with: what the entries say of an address.

`CoreStartup` has one action for each access to what the cores share while
they start.  `Supported` and `BaseSize` give each core its own components and
size of context.  A core may fail at its checks (`Fail`), and there may be
more cores, or fewer, than the tables said (`CoresNums`).

`Calc` is `kernel_main`: the two lines that are read, with a sign that is stored
before the digits are looked at; `string_to_Num`; the four operations, each a
function on sequences of limbs with the carries where the code has them; and
`print`.  What is typed and what is shown are texts of digits with the place of
the point, so `AnswerRight` compares the text shown with the exact result,
through both conversions.  It makes exceptions for what the code is known to
get wrong, each a definition of its own (`SignLost`, `ZerosLost`, `Misordered`,
`DividendCut`, `GuessTooLarge`, `DigitsMissing`; see *Observations without a run*), and says when the
program stops on an undefined operation.  The integers of `Calc` have no width:
a limb is below 10^6, and what is computed from at most three of them stays below 10^18,
which an `int64_t` holds.

`Boot` runs the three one after the other, as `_start.s` does; when the program
is called, other cores may still be on their way.

## The runs

| Run | Bounds | Shows |
|---|---|---|
| `mutex_safety` | 3 threads, `SIZE_MAX` = 2 | the invariants, the answer of `mtx_trylock`, the refinement of `FifoLock`, that every call ends |
| `cond_safety` | 3 threads in every role, `SIZE_MAX` = 2, symmetric | exclusion, fields, the line and clean `al_node`s, no waiter lost or in two places |
| `cond_two_cores` | 2 threads that lock and wait, 1 that broadcasts, 2 cores, preemption | every spin with interrupts off ends, every broadcast returns, a waiter it has seen returns |
| `cond_one_core` | the same, 1 core | violated: see *Findings* |
| `spin_safety` | 4 cores | exclusion, the queue of members, the refinement of `FifoLock`, that every lock ends |
| `list_safety` | 4 nodes, 2 consumers, chains of 1 or 2, both lists | the list in memory, nodes in one place, counted deletions find a node, deletions end, the refinement of `NodeQueue` |
| `scheduler` | 2 cores, 4 threads | threads in one place, the counters, that a queued thread runs |
| `keyboard` | ring of 8, index of 6 values, batches of 3, 15 codes | the count, the wake-up, the order, that every code is handled |
| `tty` | ring of 6, screen of 2 x 2, 2 readers (symmetric), 10 batches | the ring, nobody waits beside a line, the screen, the refinement of `LineQueue` |
| `memory` | 2 threads (symmetric), 9 pages, tables of 2, 3 tables a page, 3 ranges | pages, tables, the refinement of `AddressSpace` |
| `boot` | up to 3 of 58 entries; 4 cores, of which the tables say 1, 3 or 4; limbs of 2 binary digits, numbers of up to 9 digits | the trimmed map, the free pages, the cores, the answer of the calculator |
| `boot_kernel` | as `boot` | violated: see *Findings* |

For `Mutex`: three threads are the fewest for a holder, a waiter and one more
that queues while the holder takes the waiter off.  `SIZE_MAX` = 2 lets a
recursive mutex reach its limit at the second level; nothing else depends on
the number.  Both kinds of mutex are initial states of each run.  Deadlock is
checked: a thread outside a call can always make one.

For `Cond`, three threads give an owner in `cnd_wait`, a sleeper, and a
broadcast that queues the one while the other is still releasing.  With the
roles fixed, liveness is checked on two waiters and a broadcaster.  Deadlock is
not checked: all threads may be waiting with nobody left to broadcast.  For
`SpinLock`, four cores put two members between the first and the last.

For `AtomicList`, four nodes put one that is not linked before, between and
behind others, and leave one to come while the only element is deleted; two
consumers let one still hold its nodes while the other deletes.

For `Scheduler`, four threads on two cores are both cores at work, one thread in
the queue and one asleep.  Three cores, with a second process, take the part of
safety further (`MCSchedulerSafety.cfg`, which takes longer than the listed runs may).

For `Keyboard`, the ring (8) is longer than a batch (3), so that a batch ends
with codes left, and longer than the index (6), as in the code; fifteen codes
take the index round twice and fill the ring.

For `Tty`, half of a ring of six is three: two letters wait for their line end, a third
makes them ready.  The batches put a line end first, last and alone, erase
within a batch and over two, and fill the ring.  Two rows of two cells
break a text of two letters at a row end and scroll it.  The screens 2 x 1
(where the text is longer than what fits before the cursor) and 3 x 2 were
checked too.  The view leaves out the places of the ring that hold no text, and
the part of the screen before the text that may be erased (all of it once
somebody else has written): no guard, no assigned value and no property
depends on these.

For `Memory`, seven free pages and tables of two entries make three ranges run
out in each of the three ways: of pages, of a page for a table, of place for a
page of tables (`SpMins`); each of them in the middle of a range that crosses
two regions.  The view names pages of tables by their addresses and the other
pages not at all: which page is where has no influence on a step while a page
is in one place only, and whether that holds is itself in the view.

For `Boot`, three entries nest, overlap and touch in all ways two bounds of
the map can meet; the entries are at 0, at, below and above the places where
the loader looks.  After the map is settled the view drops it, and before it
the cores: neither reads the other.  Three cores beside the boot core are two that
agree, and one too many if the tables say so.  The calculator has binary
digits and two of them in a limb (`Radix`, `Wei`), so that texts of one to nine digits make
numbers of one to four limbs, with the point inside a limb and between two, and every
guess of the division, right, too large by one and by two, occurs; keeping 1 or
3 digits makes two or three limbs of the quotient.  In the other
configurations of `MCBoot` nothing can be typed.  The system stops when it has
started, has failed or has aborted: deadlock is not checked.

`MutexProofs` and `SpinLockProofs` remove the bounds for all the invariants of
their modules.

### Fairness

`FairSpec` asks that a thread inside a call takes its next step in the end.  A
runnable thread is queued and dispatched again (timer, first in first out), and
a thread that `set_thread_schedulable` was called for is dispatched too: that
is what the mutex requires of the scheduler.  Between its exchange and its link
a thread has interrupts off (`mtx_lock_c.c` 71-77), so the thread that spins
for the link cannot be spinning on the core of the one that should write it.
Making a call is never fair.  That `mtx_lock` returns assumes that owners unlock
again and again and have nothing held; the spins inside a call end whatever callers do
(both are in `CallsReturn`).

`CondFairSpec` asks the same of the threads inside `cnd_wait` and
`cnd_broadcast`, as if each had a core.  `CondCores` drops that: its fairness
is strong, on the steps of a thread that is on a core and on its getting one,
because the run queue is first in first out and a timer interrupt that came
while interrupts were off is pending.  A thread that spins with interrupts off
keeps its core and is not preempted, which no fairness changes.

`SpinLock`'s `FairSpec` asks that a core in a lock goes on: `cli_spinlock_do`
and the scheduler have interrupts off, and a guarded function ends.

`AtomicList`: an append goes on, for it has interrupts off (or was called with
them off) between its two stores, and so does a deletion, which has the
spinlock.  No fairness makes anybody append or delete.

`Scheduler`: a core goes on with what it has begun.  An idle core takes its
timer interrupt (weak: nothing else happens to it).  For a thread the tick is
strong, and only counts when no other core is between two changes of the
counters: a tick that meets one such core after another would put the counter
back for ever.  The timer is periodic and these windows are a few
instructions long; `QueuedThreadRuns` names the assumption as `[]<>Settled`.

`Keyboard`: the interrupt goes on, and the thread once it is runnable, which is
what `Scheduler` provides.  `Tty`, `Memory` and `Boot` are checked for safety
only; their waiting is that of mutex and condition.

## Findings

`cond_one_core` finds that on a machine with one core `cnd_broadcast` may never
return.  It exchanges `mutex->wait_end` (`cnd_broadcast.c` 64) and links the
node only later (77), with interrupts on.  If the timer preempts it in between
and the owner of the mutex calls `cnd_wait`, the owner finds that somebody
queued behind the first waiter and spins for the link (`cnd_wait_c.c` 108, 121,
131) with interrupts off: the core never runs the broadcast again.  `mtx_lock`
turns interrupts off for its own exchange and link for this reason.
`init.c` 272-273 provides for the machine with one core, and
`test/test_cnd.c` 36-39 counts on every broadcast returning.  With two
cores and one mutex the other core runs the broadcast (`cond_two_cores`).

`boot_kernel` finds that the boot loader may load the kernel to memory that the
firmware reserves.  `find_kernel_load_pos` looks at the address and the size of
an entry only (`load_kernel.c` 11-24); its type is looked at in the one case of
a single entry for all memory (line 7).  The trimmed map keeps entries of every
type.  The comment at `start/_start.s` 11 says that the kernel is loaded to free memory
between 16 MiB and 4 GiB.

## Observations without a run

Met while modelling; each has a configuration where TLC shows it, or was
read in the code.  They are not among the listed runs.

* `timer_isr_c.c` 33: the handler has appended the thread to the run queue and
  goes on with a spinlock member on that thread's stack, and in the handler
  itself, while another core may already run the thread there
  (`MCSchedulerStack.cfg`).  `sched-internal.h` 39 says what the saved `rsp` is for.
* `timer_isr_c.c` 46-47: the handler that gets its own thread back returns
  without restoring a context.  If another core ran that thread in between and
  put it back, its registers have changed (`MCSchedulerResume.cfg`).
* `mtx_lock_c.c` 141, `cnd_wait_c.c` 142, `keyboard_thread_c.c` 347: the process
  is read from the thread after it was published; on another core
  `switch_to` may have given it another process, which this core then keeps
  (`MCSchedulerProc.cfg`).
* `keyboard_isr_c.c` 283: the 16-bit index in a ring of 2^21.  After 65536
  codes the thread waits at slot 65536 for a code that is stored in slot 0
  (`MCKeyboardIndex.cfg`; `tty-internal.h` 13).  A full ring, besides, returns without
  reading the port, after which no further interrupt comes.
* `keyboard_thread_c.c` 404: a batch is not the same as its codes one by one.  ENTER and BACK in
  one batch erase the line end; in two batches the line is already visible.
* `mm.c` 36-43 with `pt_manage.c` 88-90: `mmap_soft` takes a free page
  before it finds that the address is mapped, and neither maps it nor puts it back.
* `pt_manage.c` 142: no translation is flushed after an entry is cleared, on
  this core or another; a page may be handed out while an old translation is left.
* `e820.c` 37-43: a skipped entry moves the buffer on but not the count, so the
  kept entries are read from the wrong place (`MCBootReports.cfg`).
* `init.c` 353 and 369: the boot core waits for all the cores before it looks at
  their error flag (378): a core that fails is never reported
  (`MCBootFailure.cfg`).
* `mm/init.c` 114: the padding of an entry that begins on a page boundary above
  16 MiB is a whole page, so its first page is never used.
* `main.c`, which `AnswerRight` makes exceptions for.  All inputs below are in
  the code's decimal digits.
  - 724: the plus sign before the second number is stored with the first:
    `-3 * +5` shows 15.  If the line of a number with a minus was refused, a plus on
    the next one leaves it negative (`SignLost`).
  - 854-857: for `+` and `-`, digits that fit one limb lose the limbs of zeros
    behind them: `1000000000 + 1` shows 1001 (`ZerosLost`).
  - 129-136: of two numbers that begin at the same limb the longer is taken for
    the larger: `1.5 - 2` shows -1999999.5 (`Misordered`).
  - 336: a dividend with more limbs than the computation needs loses its
    highest limbs, not its lowest: 12345678901234567890123 by 7, one digit kept (`DividendCut`).
    One with limbs of zeros in front gives a quotient with zeros in front, which count as
    digits: `0.0000000000001 / 3`, one digit kept, shows zeros only (`DigitsMissing`).
  - 526: for divisors whose limbs begin 1, 0, 999999, or with a zero limb, the guess may be too
    large by two (`GuessTooLarge`); with two zero limbs in front it divides by
    zero (`1 / 0.0000000000001`).
  - 929-940: `print` tests `is_negative` twice, so its branch for 0 is never reached: a
    number or result that is 0 is read before its first limb, and since the
    operands are shown first, "error" is never shown for a division by zero.
  - 966, 995: a limb that is printed with more than six characters, as after `Misordered`,
    overflows the buffer of seven.
* `tty_write.c` 147: the loop that clears the screen behind the cursor (144,
  清空光标之后的屏幕) counts bytes, two for a cell, and stops at `ROWS * COLS`: it
  ends in the middle of the screen.  The rest is blank because the boot sector
  cleared the screen (`code16.s` 74).
* `init.c` 307 says that the cores hang on the main process, and they start with none.

## What is proved

Each theorem holds for every value of the constants that its module's
assumption allows; the run that checks the same property does so on a small
instance.  TLC checked the invariants below on such instances before they were
proved.

**Mutex.**  For every set of threads and every `SIZE_MAX > 0`, `MutexInv` is an
invariant of `Spec`.  It is the conjunction of `TypeOK` and the invariants
`mutex_safety` checks (`WaitListSound` stands for four of them), and is
inductive as it stands.  None of its parts is inductive alone: exclusion needs
that a release knows the first waiter (`LocalsAgree`), that needs the shape of
the list (`ListIsLine`), and that needs that there is only one release at a
time (`MutualExclusion`).  The proof has one lemma for each action.  The steps
that only read, or whose compare-and-exchange fails, all follow from
`ReadStep`; the steps of the one thread that has the mutex from `HolderStep`
and `HolderFields`; the two steps of a release that take the first waiter off
the list share `GrantStep`.  The remaining ones are `LockExchangeTaken` (the
line grows), `LockLinkInv` (a link is written; `LinkCell` says into which
cell), `LockWakeupInv`, and the three that take a free mutex (`TakeFree`).

From it, every step is a step of `FifoLock` or a stutter
(`MutexImplementsFifo`): the exchange that finds the mutex taken joins the
line, one that finds it free acquires, `UnlockCas`, `UnlockSettle` and
`UnlockAdvance` release or grant to the first, and every other step leaves
holder and line as they are (`StepStays`).  `BusyHolds` is the action property
of `mtx_trylock`.

**Condition variable.**  For every finite set of threads, in any of the roles,
`CondInv` is inductive for `CondSpec`.  A thread that releases the mutex inside
`cnd_wait` is already on the condition's list, so that a broadcast may queue it
on the mutex while its release still runs: it is two threads of the mutex at
once.  The proof therefore sees its release as that of one thread more
(`Releaser`), and a broadcast as the sleeper it serves, in `mtx_lock`.  With the
labels and cells read so, a step of `Cond` is a step of `Mutex` over `Thread`
and `Releaser`, or one of the few that `Mutex` does not have: a sleeper's node
is cleared, a broadcast makes a sleeper that is asleep the owner, a release is
handed to `Releaser` or back.  The lemmas on those are at the end of
`MutexProofs`; so `MutexInv` holds of the mutex as seen.  The rest of
`CondInv` says what the view rests on: what the labels of a thread, of its
release and of the broadcast that serves it allow of each other (`CondLabels`),
that no thread is in two places of the list, the broadcasts' batches, what they
have given and `ready` (`CondPlaces`), which nodes name the mutex (`CondNodes`), and that an `al_node` is
linked only while it is in a list (`CondLinked`).  `CondExclusion`,
`CondFieldsSound` and `CondListSound` follow, by what the view says of holders
and of the line (`HoldsAsSeen`, `AttachedAsSeen`, `FirstAsSeen`).

`WaiterInOnePlace`, that a thread that waits is in one place, once, is more than
`CondPlaces`, which only says that it is not in two.  That it is in one at all
comes from the mutex's side: a sleeper that is in no list of the condition or
of a broadcast is asleep as the mutex sees it, hence in the line or handed the
mutex.  A sleeper that kept the mutex, because it held it more than once, is
none of the mutex's business; for it `KeepInv` says that no list it is in is
left but for the next.  `WhereIs` puts these together; `PlacesIs` shows that
`Places` counts them, by `SumOnce` for the fold over the broadcasts (see
*Folds* below).  This is the longest proof; checking it from nothing takes
twenty minutes.

**Spinlock.**  For every set of cores `SpinInv` (`TypeOK` and
`MembersAreQueue`) is inductive, exclusion follows from it, and every step of
the spinlock is a step of `FifoLock` or a stutter (`SpinImplementsFifo`): the
lock is granted in the order of the exchanges.  Exclusion is not inductive:
that only the first of the queue may be granted needs the links.  The steps of
the first that keep the queue share `FirstStep`, those by which it leaves share
`LeaveInv`; `LastAlone` is the meaning of the comparison in `spin_unlock`.

**Run queue list.**  For every finite set of nodes and any consumers `ListInv` is
inductive: the chain of `al_node`s is the ghost queue but for the links its
appenders have still to write (`ListLinked`, `HeadIsFirst`); what a deletion
has taken is linked as it was (`TakenLinked`); queue, taken chains and nodes
being appended are apart (`PlacesApart`, `FreeInNoPlace`); one thread deletes
at a time (`LockIsHeld`); and what a deleter has read of `next` and `end` stays
true until it acts on it, because the others only append (`ReadStaysTrue`).
The last is what makes the rest inductive: without it a deletion could move the
head past a node that was appended after it looked.  `ListSound` and
`NodeInOnePlace` follow, and `ListImplementsQueue`: an append takes effect at
its exchange of `end`, a deletion when it moves the head or its
compare-and-exchange of `end` succeeds, a clear at its exchange.  How many
nodes `al_append` links at once (`MaxChain`) is any number too.

`ForcedFindsNode`, that `al_delete_front_force` never spins for a node nobody
brings, follows from `CountInv`: when the list is the run queue, its length is
`schedulable_threads_num`, and what appenders have linked and not yet counted,
and one if a deletion has the lock (it was counted down before).  The run
counts the second with a fold over the nodes; the proof shows that this fold is
the cardinality of the set of the nodes so linked (see *Folds* below), which
changes by a chain at an exchange of `end` and when `num` is raised.

**Scheduler.**  For every finite set of cores `SchedInv` is inductive.  The
threads a core has its hands on at each label (`Hand`) and the queue are apart
(`PlacesApart`), every thread is running, queued, asleep or in a hand
(`NoneLost`), each label fits what its core has (`CoreHas`), and the counters
are what the labels say (`CountersAgree`): the length of the queue is `num` and
the deletions that are claimed and not done, `old_num` what is left of it when
each core has finished what it is in the middle of, `idle` the number of cores at
certain labels.  Such sums over labels are cardinalities of sets of cores;
`AtMove` says how they change when one core moves, `CountersMove` what follows
for the counters.  `ThreadsSound` and `CountersSound` follow, and
`ForcedAlwaysFinds`: a core that has counted `num` down and goes to
delete a thread never meets an empty queue, which is why `al_delete_force` may
spin there.

**Keyboard.**  For every size of the ring, range of the index and batch `KbInv`
is inductive.  At any time, wrapped or not, what is in the ring is counted
(`Counted`), and a thread that sleeps, or is about to, has no code or a wake-up
coming (`Woken`); until the index wraps the ring holds the codes between those
taken and those sent, each in its slot (`InRing`).  `RingSound`, `SleepSound` and
`CodesInOrder` follow.  Slots are remainders of the numbers of codes, hence the
lemmas about `%`.

**Terminal.**  `NobodyWaits`, that no reader sleeps in `cnd_wait` while there is
something to read, for every ring, batch, request and number of readers.
`BroadcastEnough`, which is inductive, says it of `read_buf_visible # 0`, the
comparison `keyboard_thread` makes before it broadcasts; it does not depend on
what the folds over a batch or a request compute.

`TtyRingSound` does depend on that.  `TtyInv` is inductive: the three positions
of the ring agree, from the one to read on every place that is used holds a
character, and between the last visible place and the last used one there is no
line end.  `TranslatedIn` says what a batch of key codes becomes, `SaveText`
what the ring is after it, wherever the ring's end falls and however much is
erased (only what is not visible), `NewVisibleIs` how far the search for a line
end gets, and `CopyAllIn` and `TakeIs` what a read copies and what it leaves.
From it `RingIsLineQueue`: a batch is a `Type` of `LineQueue`, or a
`Forget` if it changes nothing, a read a `Take` from the front of what is
ready, and every other step of `Terminal` leaves text and ready length alone.

`EchoSound` joins the ring to the screen, for every screen of at least two rows
and any characters, also while others write.  `EchoInv` is inductive.  Besides
`TtyInv` it says `FullVisible`: a full ring has nothing that is not visible, so
that what the ring drops is never owed to the screen.  If nobody wrote since
(`clean`), the screen `Shows` what can still be erased before the cursor, as
far as there is room, and from the cursor on it is blank (`Tidy`).
`NextRowIs`, `DrawIs` and `ErasedIs` say what `__putcharx` does to that, at the
end of a row and on a screen that is scrolled; `TapsShow` says it of a whole
echo, which is a fold.

**Memory.**  For every number of physical pages and threads, all ranges, every
size of a table and of a page of tables `MemoryInv` is inductive.  It has three
layers, and so has the proof.

* *Tables* (`Sound`).  The list has each page of tables with free ones once,
  no free table is listed twice, and `pts` is their number (`ListInv`); a table
  is free or it is the table of one region (`UseInv`); a free one is all empty,
  one in use counts its empty entries (`EntryInv`) and has one that is not
  (`FullInv`).  `TakeTable`, `FreeTable`, `Map` and `Unmap` each are a lemma of
  what they do to the tables and to what an address has.
* *Pages* (`Book`).  No page is on the stack twice, at two addresses, or both
  (`PageInv`); the pages of tables lie from `sp` up to `UserBase` without a gap
  (`Layout`), and one table is free.  That last part is why adding a page of
  tables never runs dry: the page is itself mapped by a table, for which the
  last free one is kept, and then brings at least three (`AddedIs`).  `Lost`, the pages that are nowhere, is as
  large as the ghost `leaked`, which `mmap_soft` alone raises.
* *Calls* (`CallsInv`, `WaitInv`, `WorkInv`).  One thread works at a time; two
  calls that are pending on the same address cannot be; a call that waits for
  the mutex finds its range as its kind needs it; one that works has done the
  addresses it passed, or, on its way back, has undone those above.  From these
  follows that no call meets the entry on which the code would abort.

`PagesSound` and `TablesSound` follow.  `AllOrNothing` is the refinement: with
what a caller in the middle of `mmap` has mapped so far taken away again, and
what one in the middle of `munmap` has unmapped put back (`Seen`), every step
within a call is a stutter of `AddressSpace`, and the call takes effect, over
its whole range or not at all, where it gives the mutex back.

**Folds.**  Where a model counts or walks with a fold of the community modules
(the free tables, the uncounted nodes, what the broadcasts hold, a batch of
keys, a request, a text on the screen, the sizes of the blocks, the list of the
blocks of all entries), the proof needs what the fold computes for every input, and the library's induction
theorems cannot be used.  They are not needed: the fold is a function on a
well-founded set, and a least counterexample (`NatLeast`, from
`NatLessThanWellFounded` and `WFMin`) contradicts its equation.

**Memory map.**  For every map the firmware may report, also of entries that
nest, overlap and disagree, every limit and number of reports, and all sizes of
memory, page and kernel that go into each other, `PlacedInv` is inductive for
`MapSpec`, the part of `BootSpec` that ends with the kernel's list of free
memory.  Between two boundaries the same entries cover every address
(`AttributeBetween`), hence a run has one attribute from its begin to the
boundary where it changes (`RunSame`), every address that has one is in a run
(`InRun`), and runs do not overlap or touch their like (`RunsApart`).
`MapSound` says so of the trimmed map; from it and `ReferenceIs`, which is what
the entries say one by one, `TrimSound` follows.  The rest of the argument is
about whole pages: `RoundUp` and `RoundDown` say what the two roundings give,
`KernelPlaced` that the kernel begins with a page and ends within its entry,
`BlocksOfIs` which pages the blocks of one entry have, wherever the kernel lies
in it, and `FreeAre` that the blocks of the whole map have those of all usable
entries, each once.  `SumIs` is the sum of the sizes, `FlattenIs` the list that
is made of the lists of the entries, and `FreeRight` brings this to the terms
of `FreePagesSound`.

**Core start-up.**  For every finite set of cores and every finite set of
register components `StartInv` is inductive for `StartSpec`, the part of
`BootSpec` in which the cores are started.  The numbers are compared with the
cores at each label (`Counts`), so that nobody is ahead of what it waited for
(`InStep`); each core has the core data to itself (`DataApart`); the common
word has lost what a core lacks, and changes no more once a core has switched
on what it says (`BitsFit`); the area has room for every core that has raised
the maximum (`RoomEnough`).  `CoresAgree` follows.

Assumed, each named in the module that declares the constants and evaluated by TLC on
every run: `MutexAssumption` (NULL and the sentinel are no threads and differ,
`SIZE_MAX > 0`), `CondAssumption` (those with a role are threads, which are
finitely many, the mutex's address is no thread, NULL or sentinel), `SpinAssumption` (NULL is no core),
`ListAssumption` (NULL, nodes and consumers are apart, the nodes are finitely
many, a chain has a node at least),
`KeyboardAssumption` (the ring and the index have a slot, a batch two codes at
least), `TtyAssumption` (the ring has two places at least, a request asks for a
count at least), `ScreenAssumption` (the screen has two rows and a column at least, a space can be
shown), `TerminalAssumption` (what can be typed can be shown, and nobody but
the keyboard thread, in its echo, writes a backspace),
`MemoryAssumption` (a table has an entry and a page of tables three tables at
least, the user's addresses begin with a region of their own above the kernel's, there
are two pages, and ranges are not empty and end below the top),
`E820Assumption` (the sizes of memory and kernel, 16 MiB, 4 GiB and 512 GiB are
whole pages, the kernel fits between 16 MiB and 4 GiB, an entry's address and
size are 64-bit numbers), `SchedAssumption`
(finitely many cores, the boot core and its thread among them, NULL apart) and
`CoreStartupAssumption` (finitely many cores and components, sizes and numbers
natural).  A machine has finitely many cores, and memory for finitely many
threads and nodes; the counters are compared with cardinalities.

What stays with TLC, and why:

* Liveness under fairness (all the `...Returns`, `...Runs`, `...Granted`
  properties): beyond the prover.
* `AnswerRight`: the calculator divides limb by limb, with a guess that is right
  but for the cases the property names.  It is a statement about a pure
  algorithm rather than about an order of steps, and its run compares with exact
  arithmetic over every bounded input.

## Plan

Done: all the modules above, the refinements of `FifoLock`, `NodeQueue`,
`LineQueue` and `AddressSpace`, proved, and the proofs of `Mutex`, `Cond`,
`SpinLock`, `AtomicList`, `Scheduler`, `Keyboard`, `Terminal`, `Memory`, `E820`
and `CoreStartup`.  What could follow:

* `Calc`: that sums, differences and products of limbs are exact.

## Not modelled

* The vendored C library, mimalloc and the `bak/` directories: the bulk of the
  source lines, with no protocol of this system's own.
* User processes: nothing in the repository creates one; the branches for them in
  `switch_to` and the interrupt handlers are never taken.
* Registers, control registers and descriptor tables; the x2APIC but for
  who is interrupted; the text of `_start.s` and `ap_start16.s` but for who
  fails and what is shared.
* The boot loader's real-mode start, ACPI, the IO-APIC and reading the image
  from the disk: straight-line code whose only result for the rest is the number of
  cores, an input of `Boot`.
* Scan codes of more than one byte, the hardware cursor, and `tty_lseek`, which
  does nothing.
* The processor's translation cache, and store buffers (see *Mutex*).
* `test/`: programs on top; what they expect is quoted where a run is about it.
* The calculator's checks for lengths beyond the address space and for failed
  allocations (they end the program), and its input that is not a number but for the sign.
