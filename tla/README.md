# A TLA+ verification of the JetOS kernel

JetOS (this repository, a fork of POK) is a partitioned real-time operating
system for one processor with the ARINC-653 interface. A *partition* is a
protected address space with its processes (threads); the kernel gives the
partitions the processor in turn, in the windows of a static schedule, carries
messages between them over *queuing* and *sampling* channels, and schedules the
processes inside each partition by priority. `src/kernel` is the kernel,
`src/libpok` the library that runs inside the partitions.

This directory models the parts of the kernel in which partitions, processes
and interrupts meet, checks the models with TLC and proves the central results
with TLAPS for every size of buffer, number of processes and length of message.

## 1. Inventory

What each component keeps, what it does, what is hard about it and what makes
it correct. The last column says where it is modelled.

| Component (source) | State | Operations | Hard behaviour, and what correctness means | Model |
|---|---|---|---|---|
| Queuing channels (`core/channel.c` 26-272) | cyclic array; `border` between the messages of the receiver and those of the sender; `next_message`, generation and `is_notify` of each side; `message_discarded` | init, side init, get / consume, get / produce, counts | a port operation is several calls and the other partition runs, or restarts, between them. FIFO without loss or duplication, both sides within their limits, no missed notification | `QueuingChannel`, `ChannelFifo` |
| Queuing ports (`core/port.c` 33-446, `thread.c` 1043-1110, `sched_arinc.c` 65-97) | wait queue, discipline | CREATE, SEND, RECEIVE, CLEAR, STATUS, `port_queuing_fired` | blocking with timeouts, one event for many messages, CLEAR and STOP while processes wait. No waiter is forgotten, order by discipline | `QueuingPort` |
| Sampling channels and ports (`channel.c` 276-390, `port.c` 450-720) | three slots, `read_pos`, the next one to read, sizes and times | init, get, clear, send; WRITE, READ, CHECK | the reader copies while the writer publishes any number of messages. No torn or stale message, right validity | `SamplingChannel`, `SamplingRegister` |
| Partition events and timer (`core/partition.c`, with `sched.c` and `sched_arinc.c`) | event ring, `is_event`, `preempt_local_disabled`, `timer` | add / get event, set timer, enabling of preemption on every path back to a process | a lock-free ring between the module scheduler and the partition. No event is lost, the ring never overflows, events come before user code, no timeout is forgotten | `PartitionEvents` |
| Delayed events (`core/delayed_event.c`) | linked list with back pointers | add, remove, check, check time | callbacks change the list while it is walked. Sorted, stable, nothing due is left | `DelayedEvents`, `DelayedQueue` |
| Module scheduler (`core/sched.c`) | current slot, its deadline and that of the frame, kernel context and generation of each partition, owner of the floating point registers | `pok_sched`, ticks, preemption enable / disable, switch, restart of a partition or of the module, release points | ticks that come late or in the middle of anything, restarts at the end of a window. Windows do not drift, no context of a former generation runs | `ModuleScheduler`; delivery of timers and events in `PartitionEvents` |
| Process scheduler (`core/sched_arinc.c`) | eligible list, current and selected thread, lock level, msection donation | `sched_arinc`, `select_thread`, `jet_resched` | chains of donation to owners of critical sections and to threads being stopped. The thread that runs is always the one that the rule of selection gives | `Threads`, `Msection`; draining of events in `PartitionEvents` |
| Threads (`core/thread.c`, `thread_internal.c`) | state, priority, deadline, delayed event, donation links | create, start, delayed start, stop, suspend, resume, sleep, yield, periodic wait, REPLENISH | suspended and waiting at once, stop of a thread in a critical section, deadlines of threads that are stopped. The eligible list is exact and in order, no event outlives its thread | `Threads`, `ArincPartition`; waits at ports in `QueuingPort` |
| Partition modes (`core/partition_arinc.c`) | mode, lock level, created threads | start, SET_PARTITION_MODE, LOCK / UNLOCK_PREEMPTION, reset | the main thread gives way to the processes, IDLE and restarts in the middle of anything | `ArincPartition` |
| Health monitoring (`core/error.c`, `error_arinc.c`) | error list, error bits of each thread, error handler | raise, take action, GET_ERROR_STATUS, stop of the handler | errors while the handler runs, is taking an error out, or has just stopped. No error is lost, the handler comes first | `ArincPartition`; reset of the module in `ModuleScheduler` |
| Critical sections of user space (`libpok/core/msection.c`, `thread.c` 742-1039) | owner, waiting flags, `msection_count` of each thread | enter, leave, wait, notify one or all, wait-queue operations of kernel and library | fast path in user space and slow path in the kernel, on shared memory. Mutual exclusion, no release missed | `Msection` |
| ARINC objects (`libpok/arinc653/{semaphore,buffer,blackboard,event}.c`) | counts, messages, queues, flags | CREATE, WAIT, SIGNAL, SEND, RECEIVE, DISPLAY, READ, CLEAR, SET, RESET, STATUS | built on msections; a message is handed over between two threads; timeouts race with notifications. Each object is what its abstract specification says | `Semaphore`, `Buffer`, `Blackboard` on `ArincObjects` |
| APEX wrappers (`libpok/arinc653/*.c`) | none | conversions around the system calls | error codes | not modelled |
| Network partitions (`syspart/components`: virtio, arinc, udp_ip, mac, arp) | two queues of descriptors with their free lists and rings, in memory shared with the device; send and receive buffers | take a message and send it, answer ARP requests, deliver what comes, reclaim and recycle buffers | the device goes on between any two accesses of the driver and gives buffers back in any order. No descriptor is lost or used twice, frames leave once and in order, nobody sleeps beside work | `NetworkPartition`, `NetworkLink` |
| Boot, loader, allocation; `kernel/arch`; GDB stub and monitor; other drivers and system partitions; configurator | hardware, I/O, build time | | sequential, assembly or I/O | not modelled |

**How they interact.** A port operation is a system call that first disables
the preemption *inside* the partition (`pok_preemption_local_disable`), so that
its processes do not preempt one another; other partitions still do. It calls
the channel, every function of which runs with preemption disabled altogether.
When a call makes a message or a slot available to the other side, and that side
is subscribed (`is_notify`), an event goes into the event ring of the other
partition (`pok_partition_add_event`). That partition takes its events out in
`sched_arinc`, called when a system call ends (`pok_preemption_local_enable`) and
when the processor comes back to it (`on_event`); an event of a port serves the
processes that wait there, an event of the timer checks the delayed events
(timeouts, deadlines, releases).

Below all of this the module scheduler gives the processor away: a tick of the
clock interrupts whatever runs, `pok_sched` moves to the next slot of the table
when the deadline of the current one has passed, and the context of the
partition that is left waits on its kernel stack until its next window. A
partition that restarts, because its mode or the table of the health monitor
says so, drops its context and gets a new one, in a new generation; the
generation in the ports and in the ring tells the other partitions.

In a partition the library protects its objects by critical sections (msections)
in memory that the kernel shares: entering and leaving is a compare and a store
in user space, and the kernel helps only when a section is taken. It runs the
owner of a section on behalf of the thread selected, and the threads that stop a
thread in a section wait for it.

The network is a partition like any other: one process, which takes messages from a
port, sends them as frames and delivers the frames that come to ports. It shares the
queues of its driver with a device that is not under the kernel's control.

## 2. Modules

| Module | What it is |
|---|---|
| `ChannelFifo` | what a queuing channel promises: two FIFO queues and what may be dropped |
| `QueuingChannel` | `channel.c` (queuing) with the steps of `port.c` that use it; implements `ChannelFifo` |
| `QueuingPort` | the processes at the two ports: extends `QueuingChannel`, whose steps it takes |
| `SamplingRegister` | what a sampling channel promises: a register |
| `SamplingChannel` | `channel.c` (sampling) and `port.c`, word by word; implements `SamplingRegister` |
| `PartitionEvents` | the event ring, the timer and the scheduler that empties it, access by access |
| `DelayedQueue` | what a queue of delayed events promises |
| `DelayedEvents` | `delayed_event.c`, pointer by pointer; implements `DelayedQueue` |
| `ModuleScheduler` | `sched.c`: windows, ticks, contexts, restarts, release points |
| `Threads` | the threads of a partition and the selection of the one that runs |
| `ArincPartition` | the life of a partition around them: start, modes, deadlines, errors and their handler; extends `Threads`, whose steps it takes |
| `Msection` | critical sections of user space, access by access, with their kernel half: extends `Threads`, whose steps it takes |
| `ArincObjects` | what the objects of libpok have in common: extends `Msection` |
| `Semaphore`, `Buffer`, `Blackboard` | the operations of each kind of object (`Blackboard` also holds events) |
| `Objects` | a program on objects of one kind; implements the three specifications below |
| `WaitingLine` | the line in which threads wait for an object |
| `CountingSemaphore`, `MessageBuffer`, `NoticeBoard` | what semaphores, buffers, and blackboards and events promise |
| `NetworkFrames` | the frames of a network partition, and what each component makes of them |
| `NetworkLink` | what a network partition promises between its ports and the wire |
| `NetworkPartition` | the activity of a network partition and its virtio driver, with the device; implements `NetworkLink` |
| `MC*` | instances for TLC: symmetry, definitions for the constants |
| `*Proofs` | theorems and proofs about the module of the same name; `QueuingProofs` is about the channel and its ports, `PartitionEventsProofs` is also about `DelayedEvents`, and `ThreadsProofs` has the lemmas about the lists of threads, on which `ArincPartitionProofs` and `ObjectsProofs` rest |

Operators whose comment says *mutant* are wrong variants of the definition that
follows them, one plausible bug each. The checks replace the right definition by
the wrong one to see that each property can fail.

### QueuingChannel
The variables are the fields of `pok_channel_queuing_t` under the code's names
(`border`, `next` for `next_message`, `generation`, `isNotify`, `discarded`) and
the array `slots`; `partGen` is the partitions' `partition_generation`; `events`
counts the port's events in the ring of each partition. `pc` says where each
side is in a port operation: `RecvGet`, `RecvCopy` and `RecvConsume` (`SendGet`,
`SendCopy`, `SendProduce`) are one step each because the other partition can run
between them, and nowhere else. `loop` is the loop of `port_queuing_fired`,
`enable` the end of a system call. The strategy `discard` and whether the receiver
may restart or clear its port (`recvReinit`) are chosen by `Init`, so that one run covers
all cases. Contents of messages are model values; sizes, alignment and
addresses are left out.

### QueuingPort
Adds the processes: `waiters` is `port_queuing->waiters` with `wait_priority`,
`serving` the process whose buffers the operation in progress uses, `arrivals` a
history used to state the order. A timeout may always happen and never has
to, since a process may wait without a limit. A call may find that waiting is not allowed (zero
timeout, partition not in NORMAL mode, preemption locked): `subscribe` is FALSE.
The constant `ClearWhileWaiting` allows CLEAR of a port at which processes wait, as
the code does. With it TRUE TLC finds what section 5 says; `qport` and the theorem
`NoWaiterForgotten` are about programs that do not do so.

### SamplingChannel
`slots` are the three entries of the array, each with its words, size and time;
copies go word by word, so that a preemption in the middle of a `memcpy` is a
state. Time is a bounded clock that ticks at any moment.

### PartitionEvents
One processor, one partition and its environment. `away` is set by an interrupt
at *any* point of the partition's code (`Preempt`); while it is set time
passes and other partitions add port events; `Return` is the end of `pok_sched` and of
`pok_sched_on_time_changed`, with the check of the timer and the call of
`on_event` on top of the interrupted code. The partition's code is a program
with a step for every access to shared memory: `flag_test_and_reset` is a read
(`TestFlag`) and a write (`ClearFlag`), `get_event` the reads of the two
positions (`Drain`) and the extraction (`Take`). After the selection of a process
(`Switch`) the code goes on in the context of any process, which left the
scheduler at the end of a system call (`reset`) or of an event (`loop`); which ones exist
is not recorded. Delayed events are a function from events to times
(`DelayedEvents` justifies it). Processes that wait at ports are counted,
because an event of a port subscribes again only for those left: without the
count a fast sender could keep the scheduler busy for ever, which the code
excludes.

### DelayedEvents
`links.next` maps every cell (the head of the list, or the `next_event` of an
event) to what it points to, `links.pprev` every event to the cell that points to
it. `Start`, `Fire` and `Finish` are the check; `Add` and `Remove` come between
checks and from callbacks.

### ModuleScheduler
`slot`, `nextDeadline`, `nextFrame` and `frameStart` are the globals of
`sched.c`. `Clock` lets time pass and leaves a tick; `TakeTick` is the interrupt
when the code that runs lets it (`Interruptible`), `late` says how long it has
waited. `pok_sched` moves by one slot at most, whatever the time is. A partition is reduced to its kernel
context: `sp` says whether there is one to resume, `pc` where it is (before
interrupts are enabled at its start, in user space, in a system call, in a
section with interrupts disabled, between the two reads of
`get_next_periodic_processing_start`), `born` the generation it was made in.
`Switch` is `inter_partition_switch` with its condition on the stack pointer of
the partition that is left. `ModuleReset` starts every partition again from the
context of the one that runs. The floating point registers are tokens: `fpRegs`
says whose values they hold, `fpStore` whose values each save area holds. What a partition does with
its timer and events is in `PartitionEvents`, which abstracts the table into preemption at any
moment; so the two modules share no variables.

### Threads
The variables are the fields of `pok_thread_t` and `pok_partition_arinc_t`;
`delayed` is the function that `thread_delayed_event` will call (times are
abstracted: it may fire whenever events are handled), `eligible` the list
`eligible_threads`, `entering` the kernel's `msection_entering`, and the last five
variables the data shared with the library. A system call of the running thread
sets `disabled` (the preemption inside the partition), changes the threads, and ends with
`Select`, the second half of `sched_arinc`; `Expire` steps come between them and
`Interrupt` is `on_event`. One call is one step because nothing else in the partition
runs in the meantime. `Requeue` derives the call of `pok_sched_local_invalidate` from
the change of the first element, as `thread_set_eligible` and `thread_set_uneligible`
do. The error handler is chosen before every other thread when errors are listed.

### ArincPartition
Adds the start (`PartitionInit`: only the main thread is there, with the
preemption locked), creation of threads and of the error handler,
the four modes, restarts of the partition and of the module, deadlines and
errors. `SetModeNormal` wakes up the threads that were started or gives them
their start time, in the order in which the loop over the threads finds them.
`deadline` is the deadline event of each thread; what a step of `Threads` does
to it follows from the states (`DeadlinesFollow`), because `thread_stop` and the
release of a thread are the only places that change it. An error that the
handler does not see is answered by what the partition's table says:
`FixedAction` takes any of its actions. `GetError` and `Unlink` are the two
halves of `pok_error_get`, which does not disable preemption, and an event may come
between the two. `PartitionSpec` allows whatever the code does. The properties of the
list of errors hold only in some of its behaviours, which two conditions on a step
name: `ReadBeforeRestart` (no start of a thread with a deadline, and no restart, before its errors
are read) and `GetUndisturbed` (no event interrupts `pok_error_get`). `ErrorsSpec` is `PartitionSpec` with both,
and `HistorySpec` (in the MC module) is all of `PartitionSpec` with a variable that says whether both have held so far.

### Msection and ArincObjects
`pc` says where each thread is in the library: every access of `msection_enter`
and `msection_leave` to shared memory is a step, and an `Interrupt` can come between any
two. Two accesses that nothing can tell apart are one step (a comment says which). The wait
queue is modelled link by link, since the kernel and the library both change it.
An object takes one step for the work of an operation between two calls of the kernel,
because the section protects it, and lets the thread choose its operation there.
`parcel` is `wq_buffer`: the message that a waiting thread sends, or the place
for the one it waits for; the thread that lets another one go on copies it.
`calls`, chosen by `Init` from the constant `Programs`, says which calls about threads
the program makes together, so that one run covers several programs without the product of all
calls; "timeout" in it lets threads leave a wait queue by a timeout or a STOP, "forever" lets them sleep
without a limit. `ObjSpec` allows whatever the code does: an event may interrupt any step. What
`thread.h` 247 says of `msection_entering`, that it is NULL for a thread that is not preempted while it enters, is the
predicate `MarkUsed` of `Objects`. The code does not assure it (run `entering_stale`), and the other
properties need it. The theorems assume `[]MarkUsed` and nothing else; the runs `objects` and
`semaphore_lost` take `PreemptiveSpec`, which is smaller: an event that interrupts
`msection_enter` with a section to enter is one that makes a thread of a higher priority run.
`CountingSemaphores`, `FifoBuffers` and `NoticeBoards` say that the object implements its
abstract specification in every program in which no thread leaves a queue by
itself (the finding `semaphore_lost` breaks it otherwise).

### NetworkPartition
`tx` and `rx` are the two `virtio_virtqueue`: free list (`free`, `numFree`, `next`), the
`chained` flag and the buffer of each descriptor (`addr`), the indices and rings for what
is available to the device (`avail`) and what it has used (`used`), and `seen`
for `last_seen_used`. `data` and `packets` are the buffers. `driver` says where the one process
of the partition is: a step ends where the device can see a change, so filling a
descriptor and moving the index of the ring are two steps. In `send`, `driver.back` is where
the frame comes from: the activity of the sender, or the answer to an ARP request out of the loop
over the frames that came, before their buffer is recycled (`recycle`). The device is external: it sends
what it finds while it is `awake`, sleeps when it has found nothing until `flush_send` notifies it, gives
frames back in any order, and keeps a frame that finds no buffer until it is notified of new ones. Ports
of the kernel are reduced to what they answer; a frame to the fields on which
`mac_receive`, the ARP answerer, `udp_receive` and the router decide. Entries of rings that have been read,
and buffers that nobody reads any more, are forgotten: no code reads them again.
`Burst` bounds the frames that come in one activity.

## 3. What TLC checks

| Run | Question | Bounds |
|---|---|---|
| `qchan` | limits, assertions of the code, no missed notification, ring entries, refinement of the FIFO specification (with the limits of both sides) | 2 + 2 slots, 2 contents, 3 generations on each side, both strategies |
| `qport` | subscriptions of waiters, order of service, liveness of waiting | 1 + 1 slots, 2 processes on each side, 2 priorities, 2 generations |
| `sampling` | no torn message, refinement of the register | 2 contents of 2 words, times 0..2 |
| `events` | no forgotten event, events before user code, timer, room in the ring, liveness of delayed events | 1 port, 2 waiters, 2 delayed events, times 0..2 |
| `delayed` | well-formed list, refinement of the sorted queue | 3 events, times 1..3, 4 callbacks in a check |
| `windows` | own windows, no drift, no former generation, release points, liveness of restarts | frame of 7 units in windows of 2, 3 and 2, the last of which releases nothing; ticks up to 1 late, times 0..17, resets of the module up to 4, 2 generations |
| `processes` | exact and ordered eligible list, the right thread runs, the lock holder can go on, places kept on preemption, handler first, events of active threads only; each thread with an unread error listed once, synchronous errors first, as long as `ReadBeforeRestart` and `GetUndisturbed` have held | the main thread and 3 others, one of which may become the handler, 2 of the same priority, which SET_PRIORITY gives to the third, too; 1 periodic, which is the one with deadlines; 2 lock levels |
| `objects` | mutual exclusion, truth of `msection_entering`, assertions of `select_thread`, no missed release, donations, under `Preemptive`; refinement of the counting semaphore, the FIFO buffer and the notice board | 3 threads of different priorities, 1 object, values 0..1, 2 messages, a buffer of 2, both disciplines, 9 programs |
| `network` | descriptors neither lost nor used twice, nobody sleeps beside work, refinement of the link with its liveness | 4 descriptors (2 frames) to send, 2 buffers to receive, 1 message, 3 kinds of frames that come, indices modulo 4, 3 frames in one activity |
| `semaphore_lost`, `entering_stale`, `release_torn` | the findings below | as small as shows them |

*Why the bounds are enough.* Two slots are the least with positions that are
neither first nor last, and with 2 + 2 the cyclic positions wrap several times;
three generations give a connected, a restarted and a twice restarted side. One
slot on each side makes both blocking and waking immediate in `qport`, and two
processes are enough for order and for "one is served, one remains". With two words a
copy has a middle. In `events` time 2 lets a timer expire before and after another is set, both
delayed events share or split an instant, and the ring of four entries (three
usable) wraps; the proofs, and the arguments they follow, do not depend on the
number of ports. Three delayed events give an insertion between two others.
In `windows` the table has a partition with one window and one with two, side by side across the end
of the frame, and windows longer than a tick can be late; after the last reset there is time for
more than one whole frame, in which a partition that lost its context must be seen again; the
generation wraps, so that a former one and the current one can have the same number only after two
restarts. Three threads are the least for an owner, one that waits for it and one that disturbs both (it suspends
or stops the owner, or runs in between), for a queue with something in the middle, and for two
donators of one thread; three priorities are needed for an owner that
is preempted by one that does not want the section. Equal priorities are
covered by `processes`, where two threads have the same and SET_PRIORITY lowers the third to it; raising is covered in `objects`, by the program that
changes priorities. In `processes` the list of errors has an order when a thread that has missed its
deadline, another that raises an error and the handler are the three threads; two missed deadlines have no order
between them. A buffer of 2 wraps and can be neither empty nor full.

In `network` two frames
can be with the device and be given back in the wrong order, with a free list that is relinked
in between; an activity can handle more frames than there are buffers; and the indices, which are counted modulo
2^16 in the code, wrap in the middle of everything. `Burst < Wrap` is a bound that hides something: with `Burst` equal to `Wrap` TLC
violates `KickNeverMissed` (section 5). So do `ClearWhileWaiting` FALSE in `qport` and the equal sizes in `qchan`.

*Types.* Every module has a type invariant. Those of `QueuingChannel`, `SamplingChannel`,
`PartitionEvents`, `ModuleScheduler`, and `Threads` with `ArincPartition` are theorems; the types of `Msection` are part of `SectionsInv`, a theorem too.

*Deadlock* is checked in every run.

*Fairness.* `NobodyWaitsInVain` (in `qport`) assumes weak fairness of the steps
the kernel takes by itself for each partition: the static schedule gives every
partition a window in each major frame, and a system call once begun runs to its
end. Nothing forces a process to send, to receive or to time out.
`DelayedHandled` (in `events`) assumes that the clock interrupts the partition
and the processor comes back to it (weak fairness of `Preempt` and `Return`), and,
as interrupts disable the steps of the partition again and again, strong
fairness of the end of a system call and of the scheduler's steps: windows are
longer than an interrupt. Nothing forces processes to make system calls.
`StartsAgain` (in `windows`) assumes that time passes, that the start of a
partition enables the interrupts and that a section that disables them ends (weak
fairness), and strong fairness of `TakeTick`, because a partition may disable the interrupts
again and again but the interrupt controller keeps the tick. The property speaks of
instants at least a frame before the bound on time.
`LinkSpec` (in `network`) assumes that the process of the partition goes on (it is the only one of a partition that
has windows) and that a device that is awake sends what it finds. Its two promises are that a frame given to
the device leaves and that a frame that waits for a buffer gets one.

## 4. What is proved

Assumptions on the constants are the named `ASSUME` of each module (positive
sizes, distinct values; in `ModuleScheduler`, that windows outlast the sections with interrupts
disabled, that the frame is the sum of its windows, and that each partition has a window that
releases its periodic processes, all as the configurator makes it; in `NetworkPartition`, that a frame of a message and an answer to an ARP
request are frames); no bound of a run enters a proof, except that
generations and times stay below an arbitrary maximum.

| Theorem | Statement |
|---|---|
| `QueuingProofs!TypeCorrect` | positions stay in the array |
| `!ReceiverNeverOverfull`, `!InstantWhenConnectedOnce` | limits of the receiver, and instant transmission, under the conditions for which the findings show they are needed |
| `!AssertionsNeverFail` | the assertions of consume and produce |
| `!NoNotificationMissed`, `!RingLargeEnough` | subscriptions only while there is nothing to notify; one entry of the ring for each port |
| `!MessagesWaitBehindFull` | where messages wait |
| `!ChannelIsFifo` | the queuing channel implements `ChannelFifo`, for messages of any length and queues of any size |
| `!PortsUseChannel` | `PortSpec` implements `QueuingChannel!Spec`, which carries all of the above over to ports with processes |
| `!WaitersServedInOrder` | `ServedInOrder`, an action property: who waits is served by the discipline of the port |
| `!NoWaiterForgotten` | `WaitersSubscribed`, if no port is cleared while processes wait |
| `SamplingChannelProofs!SlotsImplementRegister`, `!ReceptionsNeverTorn`, `!ReceptionsUndisturbed`, `!SamplingTypeCorrect` | the sampling channel implements the register, for messages of any length |
| `PartitionEventsProofs!EventsNeverForgotten`, `!EventsHandledFirst`, `!EventsTypeCorrect` | the event ring and the flags, for any number of ports |
| `PartitionEventsProofs!RingNeverOverflows` | two entries for the timer and one for each port are enough, for any number of ports |
| `PartitionEventsProofs!TimerNeverMissed` | the timer covers the first delayed event, or its event is in the ring, whenever a process goes on |
| `PartitionEventsProofs!ListWellLinked` | the list of delayed events has no cycle, holds the events that are marked as queued, and every event knows the cell that points to it, for any number of events |
| `PartitionEventsProofs!ListImplementsQueue` | the linked list implements `DelayedQueue`: sorted by time, stable at equal times, nothing due is left by a check |
| `ModuleSchedulerProofs!SlotsEnteredInTime`, `!SchedulerTypeCorrect` | `OwnWindow`: for every table, each partition runs in its own windows |
| `ModuleSchedulerProofs!WindowsNeverDrift` | `OnSchedule`: for every table, and after any number of frames, the deadline of a slot is where the table puts it |
| `ModuleSchedulerProofs!ReleasesAreFirst` | `FirstRelease`: for every table the configurator accepts, a release point is the first start of a releasing window not before the time asked for, without the race of section 5 |
| `ModuleSchedulerProofs!DroppedNeverRuns` | `NoOldGeneration`: for every number of partitions, no context of a former generation runs |
| `NetworkPartitionProofs!NobodySleepsBesideWork` | `KickNeverMissed`: for queues of any size and any frames, if an activity handles fewer frames than the indices can count |
| `!DescriptorsNeverLost` | `DescriptorsKept`: in both queues, of any size, each descriptor is in the free list or lent, once |
| `!QueuesImplementLink` | driver and device implement `NetworkLink`: the safety part of `LinkSpec`, for queues of any size |
| `ArincPartitionProofs!TypesCorrect` | the types of `Threads` and of `ArincPartition`, for any number of processes and priorities |
| `ArincPartitionProofs!EligibleQueueKept` | `EligibleQueue`: the list of eligible processes holds each process that may run once, in the order of priorities |
| `!RightThread`, `!LockHolderKept` | `RightThreadRuns` and `LockHolderRuns`: whom the scheduler of the partition selects, with preemption locked and without |
| `!EventsKept` | `EventsOfActive`: a delayed event is pending only for a process that is active, and one that waits for its release will be woken up |
| `!HandlerIsFirst` | `HandlerFirst`: nobody else runs while the error handler may |
| `!PlacesStayInOrder` | `PlacesKept`, an action property: a process loses its place among those of its priority only where ARINC-653 says so |
| `!ErrorsStayListed`, `!SyncErrorsFirst` | `ErrorsListed` and `SyncErrorFirst`, in the behaviours of `PartitionSpec` whose steps satisfy `ReadBeforeRestart` and `GetUndisturbed`, which the code does not assure (section 5) |
| `ObjectsProofs!SectionsExclude` (like the five below, where `[]MarkUsed`) | `Alone`: mutual exclusion of the sections, for any number of threads and sections, any programs and all kinds of object |
| `!EnteringNeverStale` | `EnteringIsTrue`: the kernel's `msection_entering` is of a thread that is entering this section or waiting in it |
| `!SelectionNeverFails` | `SelectionAllowed`: `select_thread` finds a thread that can run, as long as `MarkUsed` has held |
| `!AssertionsNeverFail` | `AssertionsHold`: with it, no assertion of the loops over a wait queue fails as long as `MarkUsed` has held, for any number of threads, whatever the queues have gone through |
| `!ReleasesAreSeen` | `NoReleaseMissed`: the thread that runs is the right one, or is about to report the release that makes another right |
| `!DonatorsKept` | `DonatorsWait`: the lists of donators, for any number of threads that stop one another |

The theorems about queuing channels other than `TypeCorrect` and
`InstantWhenConnectedOnce` have the form `Spec => [](Sized => P)`, `ChannelIsFifo` the form `Spec /\ Sized => FifoSpec`: `Sized` says that
the sender's side is not larger than the receiver's, or that the receiver
connects only once and never clears its port. Section 5 says why the condition is needed.

*Inductive invariants.* For the queuing channel, `IInv` adds to the types the
relation of the two counts (together they fill at most the array, so that the
cyclic positions never make full look like empty), what each operation in
progress has found and relies on, and what `is_notify` and the events of a port
say about the counts; the properties are not inductive by themselves because
the assertion of one side depends on what the other side may do between its two
steps. `FifoInv` adds what the refinement needs: a copy in progress equals as much of its slot as
it has copied, and each queue of the abstract channel is a stretch of the cyclic array. For waiters, `WInv` adds that a partition with waiters is connected and
that a side in the loop of `port_queuing_fired` is marked as such; `OrderInv` says that each wait
queue is sorted by its discipline. For the
sampling channel, `SInv` says which slots are the reader's, the writer's and the next one
(three are enough exactly because these may be all different) and relates the words copied so far to the
slot. For events, `EInv` says that `preempt_local_disabled` is false exactly
where the code of the partition can be notified. `RInv` counts the ring: a port has
no event in it while it is subscribed or being handled, no two positions
hold the same port, and the entries of the timer with the one it may still send
are at most two (one when it is about to be set). `CInv`, on top of the two, says at each point of
the scheduler's loop which of the three covers the first delayed event: the timer, its event in the
ring, or the part of the loop that is still to come.

For the list of delayed events, `ListInv` says that there is a sequence of distinct events, sorted by time, that
`next` follows from the head to the end and `pprev` follows back, and that no other event has a `pprev`. An operation replaces it by the
sequence without one event (`Omit`) or with one more (`Put`), also when a callback does so inside a check. `WellLinked` follows, since the walk `Chain` meets the
sequence and then stays at the end; and the mapping of the refinement makes the entries of `DelayedQueue` from that sequence, which is unique.

For the module scheduler, `OwnWindow` is nearly
inductive, and becomes so with the bound of `late`: a window is longer than a tick can be
late, so one step in the table per tick is enough. `Aligned` says that the deadline of the slot is
the start of the frame, a number of frames and the end of that slot in the table, and of a search for a release point that
the sums it has made so far lead to the start of the slot it looks at. `NoOldGeneration` speaks of the partition that
runs; its strengthening `ContextsBorn` says of every context that is kept that
its generation is that of its partition, which a switch to it needs.
For the network
partition, `KickNeverMissed` becomes inductive with the bounds of the indices: the distance from the
index before the loop to the ring's current one stays below `Wrap`, so the two are equal only if no
frame came. `DescriptorsKept` counts the descriptors, and the driver follows links, so `TxInv` and `RxInv` name them. `TxInv` says that
some numbering `f` of `0 .. numFree - 1` follows the links of the free list, whose descriptors are neither first nor second of a
frame that is lent (`Shares`); that each frame that is lent is a chain of two (`Chained`); that the entries of the avail ring between
the device and the driver, those of the used ring and `device.done` hold each frame once (`TxOnce`), and how many they are
(`TxCounts`). A chain given back in any order is then a new front of the numbering. The queue of buffers is simpler than its
code: a descriptor that is freed is taken again at once, so its free list stays what
`setup_receive_buffers` has left (`RxFree`). `LinkInv` adds what the link needs: which frame is in whose hands, and that the buffers to handle hold
frames.

For the processes of a partition, `PartitionInv` is the conjunction of the types, what is so before the first
process is created and outside sections (`Created`, `NoSections`), and what the mode says of preemption, the lock and the main
thread (`Beginning`, `OnlyLimited`, `Running`, `LockHolderRuns`, `Resting`, `Handled`). `EligibleQueue` needs `Created` and `EventsOfActive`, since an event
that comes for a process that was stopped would insert it; `HandlerFirst` needs that the handler is the thread that holds the lock
when there is one. `ErrorInv`, on top of it, says of the list of errors that it holds each process once, that a process with an error bit is listed unless
it is being taken out at this very moment (`Unlinking`), and that the thread whose synchronous error it is is the first.

The theorems of `ObjectsProofs` have the form `ObjSpec /\ []MarkUsed => []P`: they say what rests on the sentence
of `thread.h` about `msection_entering`, and that it is all that is needed. They do not say that the assertions of the kernel never fail. An event that
interrupts `msection_enter` and needs no rescheduling makes `MarkUsed` false, and then they do fail (`entering_stale`): the kernel
keeps a mark that is no longer true. As every beginning of a behaviour in which
`MarkUsed` holds can go on with stuttering, a failure comes only after `MarkUsed` has become false. None of the
properties is inductive, and each needs the others, so `SectionsInv` is one invariant for the library and the
scheduler. `InLibrary` says for each place in `msection_enter` and `msection_leave` what the thread may rely on: an
entry that is neither finished nor known to the kernel belongs to the thread that runs, which has not been preempted in it. `Owners`
says that an owner may run wherever it is in its section, so that the chain of owners ends after one link: an
owner is not blocked, and is stopped only by itself. `Donates` and `Listed` say
that who waits for the stop of a thread is outside of the library, that this thread is in a section and is told to
stop, and that the list is a list (each of them once, no cycles). `Due` says that, unless a new choice is
due, the thread that runs is the selected one, the one it donates to, or one that helps it out of a section
(`Helps`, which covers the moments between the release and the test of `resched_after_leave`). `Awoken` says that a notification leaves
the thread it has chosen in the queue: the walk along the links that found it visits no thread twice, because it
ended, and taking out those in front of it keeps a way to it. It does not say that the queue is well formed, which
the finding `semaphore_lost` shows to be false.

The assertions of `jet_msection_wq_notify` and `jet_msection_wq_size` say that every thread that the loop meets is entering the section. That would
follow from a well-formed queue, which there is not: a thread that a time-out or a stop has made runnable stays
linked, and is taken out by whoever passes it and once more by itself; the second `msection_wq_del` makes the rest of the queue unreachable, or cuts its end off. `LineInv`
has what survives this. `Tidy`: `next` and `prev` lead back to each other; a link joins two threads that wait at
the same section; nothing leads to a first thread and the last leads nowhere. `Released`: a thread that
was notified has no links any more, or the owner of its section is about to take it out (`Takes`), so that it
cannot be in a queue when it has gone on elsewhere. `Where` says at which section a thread may be linked: from the step in which it enqueues itself to the one in which it is back. A walk then
meets each thread once and is the same as `Reach`, the least set that holds the first thread and that no link leaves; the proofs
use the set, and the walk only where the order of the threads counts (who is notified first).

*Induction over lists.* The operators of `Threads` on lists are recursive functions, and the library's induction
theorems cannot be used with these provers. `ThreadsProofs` therefore proves what it needs from the
principle of the least number, which follows from the library's theorem on well-founded sets: a set of naturals without a least element is empty. `Recursion`
and `RecursionTyped` give from it the equations of a recursive function; the
sums of the windows and the lemmas on `Insert`, `Without` and `ReadyAll` (what they contain, that each thread stays there once, that the order of priorities and the relative
places stay) follow by taking the least counterexample.

*Only model-checked*: everything under fairness (`NobodyWaitsInVain`,
`DelayedHandled`, `StartsAgain`, the fairness of `LinkSpec`: liveness is out of the prover's reach),
and the three refinements of `Objects`, which need the whole order of a wait queue
while nobody leaves it by himself.

## 5. Findings

Shown by runs:

* `semaphore_lost`: a thread whose time is over stays in the wait queue of a
  semaphore until it runs. If a SIGNAL passes it first, the kernel takes it out
  (`thread.c` 963), and then it takes itself out (`semaphore.c` 159) with links that are
  those of a thread alone in the queue: `msection_wq_del` empties the queue, and the threads in it are
  served by no SIGNAL any more. SIGNAL then counts where its comment says "no one waits on semaphore".
  Buffers, blackboards and events of libpok use the same pattern.
* `entering_stale`: an event that interrupts `msection_enter` and needs no rescheduling leaves
  `msection_entering` set (`sched_arinc.c` 419 and 226). The next selection of the thread, however
  late, makes it the owner of a section that it is not in; an assertion of `select_thread`
  (`sched_arinc.c` 158) fails when it then sleeps. `thread.h` 247 says the field is NULL otherwise.
* `release_torn`: `get_next_periodic_processing_start` (`sched.c` 399-406) reads the deadline of the slot and then the
  slot, with interrupts enabled. A tick between the two gives a release point that is not the start of a window.

Found by TLC in the same modules, in a variant of a run that is named with each. They are no runs of their own; the passing runs and the theorems
whose properties they break say which condition they assume:

* An error lost in GET_ERROR_STATUS (`ErrorsListed` in `ErrorsSpec` without `GetUndisturbed`): `pok_error_get` (`error_arinc.c` 449) clears the last error bit of a thread and takes it out
  of the list with preemption enabled, though the function it calls asks for it to be disabled. A deadline that
  passes between the two sets a bit of a thread that is still listed; the thread then leaves the list with it, and
  the handler is never told.
* Errors of a former life (`SyncErrorFirst` in `ErrorsSpec` without `ReadBeforeRestart`): error bits survive a stop, a start and a restart of the partition (`error_arinc.c` 210): a thread whose stale
  bit is set is listed behind others and its synchronous error is not the first, as the comment at
  `error_arinc.c` 497 has it.
* A cleared port (`qport` with `ClearWhileWaiting` TRUE violates `WaitersSubscribed`): CLEAR of a port at which processes wait (`port.c` 440) resets the subscription
  their wake-up depends on (`channel.c` 117): later messages send no event, and later receptions find
  waiting processes and queue up behind them without asking the channel (`port.c` 232). `channel.h` 151
  promises the notification.
* Messages behind an empty receiver (`TransmittedInstantly` as an invariant of `qchan`): messages that wait on the sender side when the receiver
  clears its port or restarts are not transmitted although the receiver is ready
  and empty (`channel.c` 111-122); `channel.h` 80-83 says they are transmitted instantly
  unless the receiver is not ready or full. They leave with the next SEND, and if the
  sender side is full there is none.
* A receiver with too many messages (`qchan` with `RecvMax` 1 and `RecvWithinLimit` as an invariant): all of them then arrive at once, which can exceed the
  "maximum number of messages on this side" (`channel.h` 32) of a receiver that is
  smaller than the sender side. The cyclic array is then overcommitted: the counts of
  both sides together exceed it, and the sender overwrites messages not yet received.
* A notification not sent (`network` with `Burst` 4 violates `KickNeverMissed`): the loop over the frames that came notifies the device if the 16-bit index after it differs from
  the one before it (`virtio_network.c` 267 and 300). After exactly 65536 frames in one activity it does not, although
  buffers have moved, and a device that waits for buffers is not told; the comment at 146 says that it must be.
* Floating point registers of another process (on PowerPC; the functions for x86 are stubs) (`OwnRegisters` as an invariant of `windows`): a tick that switches between two processes in user space does not save and load the floating point
  registers: only the ways to user space from a system call do, though `space.h` 106-108 says that they are stored
  when the thread in user space changes.

Other disagreements, met while modelling:

* A frame for which there is no descriptor is dropped in silence: `send_frame` returns FALSE (`virtio_network.c` 183),
  which is the value of the success code, and nobody looks at it.
* `send_frame` looks for one free descriptor (`virtio_network.c` 183) and takes two; the model, like the code, needs a queue of even size.
* The loop over the frames that came ends only when it has seen every frame: frames that keep coming keep the partition
  from sending.
* `thread.h` 284 gives `first_donator->donate_target == t` as an invariant; a STOP of a thread
  that is itself waiting in STOP sets `first_donator` to a thread that donates to another one
  (`thread.c` 546-559). The code relies only on it not being NULL; `DonatorsWait` states what holds.
* With no process to run, `sched_arinc.c` 356 reads the floating point area through the null pointer of the
  process selected.
* `thread.c` 273 and `partition_arinc.c` 370 compute the next release point of a periodic process with a start
  delay and without one: they differ by a period.
* `pok_raise_error` overwrites `preempt_local_disabled_old` when an error comes while another is handled
  (`error.c` 136; a TODO at `error_arinc.c` 277 says as much). `ArincPartition` has no errors of the kernel at
  the level of a process.
* `pok_sched_restart` runs in the context of the partition whose error resets the module; `sched.h` 181
  speaks of another one. `ModuleScheduler` models what the code does.

## 6. Plan

Done: the modules above. Next, in this order:

1. Proofs: the order of the wait queue of an object while nobody leaves it by himself, for `CountingSemaphores`.
2. The arithmetic of periods and release points, on the times of `ModuleScheduler`.
3. The composition of `PartitionEvents` with the table of `ModuleScheduler`.

## 7. Not modelled, and why

In the modules of one partition or one channel the table of windows is replaced by preemption at any
moment, which allows more. Sizes and addresses of messages, look-up of ports
by name and validation of user pointers do not touch the properties. Overflow of the 32-bit
generation needs four billion restarts; the models bound generations
instead. The assembly of `kernel/arch`, the loader, the debugger, the console, the boot of the network device, its failures, and the drivers for
other network devices (DTSEC, NE2000) and PCI are I/O or hardware.
The pauses and the registers that the scheduler keeps for the monitor and the debugger are
off by default. Channels connect two partitions; a partition that sends to
itself is not considered.

Most of the lines of the repository are none of the kernel's logic: the C libraries of kernel and
partitions, the mathematical library, the device-tree library, drivers and a network stack, examples with
their data, and headers. What is modelled is `kernel/core` but for its boot and debugging parts, the
part of `libpok` that has state of its own, and the activity of a network partition on the virtio driver. The APEX wrappers check arguments and translate return codes.
