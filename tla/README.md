# TLA+ specification of Tanix

Tanix is a small AArch64 microkernel with its servers, a co-tenant hypervisor
and an EL3 monitor. This directory keeps TLA+ models of it beside the code:
the kernel core (scheduler, IPC, task life cycle on several CPUs), the machine
beneath it (interrupt masks, the lock, SYS_WAIT_IRQ), memory, the hypervisor,
the monitor, the network stack, the file system, the drivers, the desktop and
the servers' heap. TLC checks small instances; TLAPS proves the central
properties for every value of the constants.

Paths are relative to `src/`; `K/` stands for `kernel/src/`, `S/` for `servers/`.

## 1. Files

| module | models | from |
|---|---|---|
| `RunQueue` | the slot array and the two pick functions | `K/sched/task.rs`, `K/smp.rs` |
| `Kernel` | scheduler, IPC, life cycle, tick | `K/sched/task.rs`, `K/ipc/syscall.rs` |
| `Rendezvous` | abstract: what send and receive promise | |
| `Machine` | cores, DAIF, `SCHED_LOCK`, interrupt handlers, SYS_WAIT_IRQ, bring-up | `K/sync.rs`, `K/irq.rs`, `K/arch/aarch64/`, `K/smp.rs` |
| `Memory` | frames, page tables, COW, demand paging, memory syscalls | `K/mem/`, `K/ipc/syscall.rs` |
| `Tenants` | vCPU run, yield, preemption, quanta, the ring shared with a tenant | `K/hypervisor/backend.rs`, `K/vm/sched.rs`, `K/virtio/` |
| `Vmm` | `kmain`'s dialogue with a guest: prints, message queue, doorbells | `K/main.rs`, `K/hypervisor/`, `S/zephyr-stub` |
| `Rtos` | the cooperative kernel inside a guest | `S/rtos-guest` |
| `Monitor` | secure storage, keybox, PSCI CPU_ON, world switch and secure timer | `K/arch/aarch64/monitor.rs`, `sec_payload.s` |
| `Vring` | a virtqueue with wrapping indices | `S/libtanix-drv/src/vring.rs` |
| `Blk`, `Sectors` | block driver and device; abstract: a disk of sectors | `S/libtanix-drv/src/blk.rs` |
| `Nic` | network driver, device, the net server's loop around it | `S/libtanix-drv/src/net.rs`, `S/net` |
| `Tcp`, `Stream` | two TCP stacks over a lossy network; abstract: a pair of byte streams | `S/libtanix-net/src/tcp.rs`, `S/net` |
| `Lan` | ARP cache, ICMP, UDP, gateway probe | `S/libtanix-net/src/lib.rs`, `udp.rs`, `S/net` |
| `Fat16` | FAT16 volume and fs server, with crashes and failing writes | `S/libtanix-fs`, `S/fs` |
| `Heap` | the servers' allocator | `S/libtanix-sys/src/heap.rs` |
| `Desktop` | window manager, its clients, the blits it requests | `S/wm`, `S/libtanix-ui/src/window.rs` |
| `Gpu` | GPU commands, flush, drawing | `S/display/src/gpu.rs`, `virtio.rs` |
| `MC_*` | constants, and the composition of components into runs | |
| `*Proofs` | theorems about the module of that name; `RendezvousProofs`: that `Kernel` implements `Rendezvous`; `PlatformProofs`: about `Machine` and `Monitor`; `DriverProofs`: about `Gpu`, `Blk` and `Nic` | |

`PROJECT.json` holds components, runs, mutants, the source map, findings,
hazards and theorems. Run for example `tlc -config MC_Network.cfg MC_Network`,
`tlc -config ipc.cfg MC_Kernel`, `tlapm LanProofs.tla`.

## 2. The parts and how they interact

User tasks and servers call the kernel, which schedules them over one run queue
(`Kernel`) under one lock that is only as good as the interrupt masks around it
(`Machine`). Servers own frames and share them (`Memory`), and carve a heap from
them (`Heap`). Driver servers sleep in SYS_WAIT_IRQ (`Machine`) until a device
answers through a ring (`Vring`, `Blk`, `Nic`, `Gpu`). On the block driver stands
the file system (`Blk` promises `Sectors`; `Fat16` writes sectors one by one), on
the network driver the stack (`Lan`, `Tcp`), on the GPU the window manager
(`Desktop`). Beside the servers run guests that the kernel enters and preempts
(`Tenants`), talks to (`Vmm`) and that may have a kernel of their own (`Rtos`).
Beneath everything on one of the machines is the EL3 monitor (`Monitor`).

A layer is checked against what the layer below promises. Three abstract modules
say what that is: `Rendezvous` (IPC), `Sectors` (a block device), `Stream` (a TCP
connection). For the other interfaces the assumption is stated where it is used.

## 3. How the models correspond to the code

### Kernel

Every scheduling entry point takes `SCHED_LOCK` with interrupts masked and the
store in `context_switch_unlock` (or the final `unlock`) ends the critical
section; so one action is one critical section, including its trailing call of
`reschedule` or `switch_away`. `current[c]` is the slot CPU `c` executes. A user
program is any sequence of the calls that `CALLS` gives its name.

| model | code |
|---|---|
| `SendDirect`, `SendBlock` | `sys_send`: receiver waits for us / park, or stage when the array is full |
| `ReceivePending`, `ReceiveStaged`, `ReceiveBlock` | the three parts of `sys_receive` |
| `Sleep`, `Yield`, `OtherSyscall` | `sys_sleep`, `yield_cpu`, every other call (its tail still runs) |
| `WaitIrq`, `WaitIrqDone` | `sys_wait_irq`, outside the lock, not preemptible |
| `Exit`, `Fault`, `ExitTask` | `exit_current`, `kill_faulting_task`, `sys_exit_task` |
| `Spawn`, `Exec` | `sys_spawn`, `sys_exec` (retire, then spawn; error when no slot is free) |
| `TickReap`, `TickIdle`, `TickKernel`, `TickUser` | the exits of `tick_preempt`, each after `wake_sleepers` |
| `Enter`, `IdleLoop` | `sched::enter` on CPU 0, one round of `secondary_enter` |

Abstractions, and why they are sound for the properties:

* A task is identified by its slot. Slots are never freed in the code (a zombie
  keeps its slot), so slot and task id correspond one to one.
* A message is its sender; payload words are copied and never looked at.
* `recv` merges `recv_blocked` and `recv_filter`. The filter is a task slot or
  `M_ANY`.
* `sleep` is the number of ticks to the deadline. Counting the tick
  (`timer::tick`, before the lock) and waking sleepers are one step, so two
  CPUs that count before either wakes are seen as two ticks in a row.
* A call that fails (bad id, self-send, no such task) is an `OtherSyscall`.
* The inter-processor pokes are left out: they only bring forward an `IdleLoop`
  that the next tick allows anyway.
* `kmain` enters the scheduler several times while it boots; the model starts at
  the last `enter`. Idle slots belong to online CPUs; an offline CPU is not in
  `CPUS`, and no run lets a task take its slot.
* When CPU 0 finds nothing to run it resumes `kmain` with interrupts masked and
  halts; `TickTaken` says that it then takes no tick.

`BOOT_WOKEN` deserves a word. Every spawn records its slot in
`Scheduler::woken`, and only a syscall tail clears it, so the first tail after
boot sees the slot of the last boot spawn. Every run starts from that state: the
last slot of `BOOT` is recorded. `HarmlessBoot` says that this task is outranked
or equalled by all programs; then no tail ever acts on the record. In the passing
runs the last-spawned task has the lowest priority. In the current boot sequence
it does not: `fs` (96) is spawned last and outranks `hog` (192) and the servers
at 128. Then the outcome depends on who makes the first syscall; `v_stale_woken`
shows what happens when it is a task that `fs` outranks and another CPU has
already picked `fs`. The theorems that need it name `HarmlessBoot` as an assumption.

### The other modules

`Kernel` takes a critical section as one step. `Machine` is the model in which
that is not assumed: a core has a main context and at most one handler on top of
it; taking the lock, freeing it, masking, unmasking and every store to the
pending bit are steps of their own. It leaves out which task runs (`work` says
that one is Ready). Its core-0 boot path is `bring_up`, `add_idle`, `cpu_on`,
`set_online`, `enter`; a secondary goes through `kmain_secondary_entry` and
`secondary_enter`.

*Memory.* Every operation runs under the lock, so each is one action. Addresses
are page numbers; a task has a root, which stands for the three upper levels, and
one leaf table per block it has split. The hardware translates the pages below
`VA_PAGES`; the kernel's index functions drop the bits above, so a page of `High` is
walked as the page it aliases. A demand window may be declared at any page from
`ZONE_BASE` on, as in the code: in the free zone, over RAM, or above the width of the
walk. When a page of one that is not clear of RAM is opened, a descriptor lands in
memory that is no table; `strayed` records it and the behaviour is not followed
further. Otherwise callers keep the documented contract of the system calls. Descriptor attributes are reduced to valid, block, user and
COW. The allocator's hint is left out: which free frame is lowest is not
changed by it.

*Monitor.* A service SMC runs with interrupts masked and is one action. CPU_ON is
split at its stores, which come in either order, because the parked core polls the
slot whenever its WFI returns, and WFI may return unasked; `early` records a core
that took half a command that way. The world switch is split, because the secure
timer goes on. A seal is known by its pad, the stream that key and counter determine.

*Tenants, Vmm, Rtos.* A register file is the place in the guest's code. In `Vmm`
one side has the CPU at a time and only doorbells are asynchronous. In `Rtos`
`gs_save` and `gs_restore` are modelled as the assembly has them.

*Rings.* `Vring` keeps the indices at a width `IDX_MAX` that small runs wrap. The
device is external: it takes published heads in order and returns them when it
likes, with success or failure.

*Tcp.* Both hosts run this stack; a host of `Foreign` may besides behave like
another one (`Pipeline`, external): it sends on without waiting for
acknowledgements, and puts its FIN into a data segment. A byte is its position in
the stream, or `Cut` where it was acknowledged and found the receive buffer full;
`ahead` records a FIN that was sent before its data was acknowledged. Time
is a timer that may be found expired at any poll. Segments are lost; a timer that
expires early repeats them. *Lan* models the rounds of the server's loop and a
gateway that may not answer. *Nic* splits `recv` where it has given the buffer
back and not yet read it; `refilled` records that the device has written into that
buffer meanwhile, and the frame is then heard as `Torn`.

*Fat16.* A write request is a sequence of sector writes, the FAT's sectors one by
one, each of which may fail or be the last before a crash; a crash empties the cache
and the descriptors. Reads fail too: of the sector that is merged, and in each
`find_root`, where the code takes a failure for a missing name. `torn` records that
a FAT flushed in part, with a chain into a free cluster, was mounted. Other requests
change no sector or one, and are one action.

*Heap.* Sizes are in units of the header. The kernel may refuse to grow, and may
return chunks in any order of addresses.

*Desktop.* Where windows lie is left open: any window on the screen may be under the
pointer or overlap the damage, and a window of the second row or a later one may be
placed below the screen (`below`), where it is neither blitted nor hit until a drag
moves it; so every outcome of the geometry is covered. A request the wm
serves becomes a script of blits that apps interleave with.

*Gpu.* `submit`, the sleep, the poll with its limit, and a usize counter compared
with a 16-bit index, as the code has it.

## 4. Properties

### Kernel

* `TypeOK`: types.
* `OneCpuPerTask`: at most one CPU executes a task; an executed task is Running,
  or was killed while it ran; a Running task is executed.
* `WaitsForOneThing`: a blocked task waits for exactly one of a message, a
  deadline, or the taking of its own message, which sits in exactly one place; a
  runnable task has no wait left over.
* `NoMissedRendezvous`: nobody is blocked in receive beside a message it accepts.
* `QueuedMessageIsTaken`: a message leaves a queue only into its receiver's buffer,
  that of a sender killed while parked too (a comment says otherwise, finding 27).
* `WokenByRendezvous`: a blocked sender or receiver becomes runnable only in the
  step that completes its call.
* `ImplementsRendezvous`: refinement of `Rendezvous` under the mapping
  `posted <- Posted` (staged destination, or the array the message is parked in),
  `want <- recv`, `inbox <- out`.
* `SleepersWake`, `BusyTasksRotate`: progress, under fairness of ticks and idle loops.
* `BlockedZombieStaysDead`, `FreedTablesInactive`, `ReadyTasksRun`: what comments
  promise and the code does not keep (section 6).

`KernelInv` is the inductive strengthening of the two middle invariants. Alone
they are not inductive: a tail could switch to a stale `woken`; `Enter` could
leave a task behind if CPU 0 already ran one; a CPU could execute another CPU's
idle slot; and a zombie that still runs could carry an old wait into its next
block. `KernelInv` adds exactly these four facts.

### Properties of the other modules

* *Fat16*: `VolumeSound` (at every instant the bytes of a file lie in used clusters
  of its own), `AcknowledgedBytesStay` (what was acknowledged stays readable through
  crashes and other files' writes), `OpenFilesArePrefixes` (a stale descriptor
  never leads into another file). The first two hold until a torn FAT is mounted,
  the last two for names that were entered once (findings 28, 29).
* *Memory*: `TablesAreSound`, `FreeFramesAreUnmapped`, `PrivatePagesKeepWrites`,
  until a page is opened in a demand window that is not clear of RAM (finding 12).
* *Heap*: `BlocksTileTheHeap`.
* *Monitor*: `StoreHoldsLastPut`, `SealsNeverSharePad`, `SecureTicksCountedOnce`,
  `StartedWhereAsked` (a CPU_ON is neither lost nor mistaken, but for the core that
  looked between the stores, finding 30).
* *Desktop*, *Gpu*: `WindowTableIsSound`, `FlushIsComposited` (but for a window with
  no part on the screen, finding 32), `PresentedIsShown`.
* *Tcp*: `ImplementsStream` (refinement of `Stream`: bytes pass in order and once,
  and only those that find the receive buffer full are cut), `CleanCloseIsComplete`,
  `NeverWaitsForever`. The end of a stream may be seen too soon only where the
  writer's FIN ran ahead of its data (finding 31).
* *Lan*: `LearnedIsLatest`, `GatewayIsResolved`.
* *Nic*: `SentOnceInOrder`, `HeardOnceInOrder` (of the frames heard whole; a batch
  loses frames, finding 8), `FlushNeverDrops`.
* *Blk*: `ImplementsSectors` (refinement of `Sectors`, `disk <- media`), `CallsReturn`.
* *Machine*: `EveryReturnHasItsInterrupt`, `InterruptEndsWait`,
  `ParkedCorePicksWork`. The last two make an exception of a core that has
  deadlocked on itself, which finding 15 shows to be possible.
* *Tenants*, *Vmm*: `ResumesWhereItStopped`, `EchoAnswersItsPrint` (unless the ring
  was overrun, which the code does not detect), `RotationIsOver`,
  `DialogueIsComplete`.

The comment in front of each definition states it in full.

## 5. Runs

| run | instance | shows |
|---|---|---|
| `ipc` | 2 CPUs, 3 tasks, 1 pending entry, sleeps of 1 tick | IPC, sleep, exit and fault in all orders refine the rendezvous |
| `life` | 2 CPUs, 2 boot tasks, 1 free slot, killer/spawner | kill, exec, spawn against every other call |
| `progress` | 1 CPU, 3 tasks, sleeps of up to 2 ticks | liveness beside a task that never blocks |
| `integrity` | `Fat16`, `Memory`, `Heap`, `Monitor`, `Desktop`, `Gpu` | nothing kept is lost, overwritten or handed out twice |
| `network` | `Tcp`, `Lan`, `Nic` | the stack and its driver, with loss and repetition |
| `platform` | `Blk`, `Machine`, `Tenants`, `Vmm` | what waits for an interrupt, a tick or a doorbell gets it |
| `v_revived`, `v_freed_tables` | as `life` | findings 1, 2 |
| `v_stale_woken` | as `ipc`, last-spawned task outranks another | finding 3 |
| `v_starved` | 2 CPUs, 3 tasks, one waits for interrupts | finding 4, under `FairSpec` |
| `v_irq_lost` | `Machine`, the driver waits on core 1 | finding 5, under `MachineFairSpec` |
| `v_rtos_idle` | `Rtos`, the three demo threads | finding 6, under `RtosFairSpec` |

The three composed runs hold parts that share no state. A behaviour chooses one
part in `Init` and only that part moves, so the state graph is the disjoint union
of the parts' graphs, and a fairness condition that is a disjunction over parts is,
in each behaviour, the condition of the part that moves.

*Bounds of the kernel runs.* Two CPUs and three tasks give every pair of roles (a
victim running elsewhere, a third task competing for a slot or entry). One pending
entry makes the second sender take the staged path, which two entries would need a
fourth task for; the proofs cover any number. One tick of sleep separates "asleep"
from "expired", two are used where progress is checked. One free slot lets `life`
spawn once and then meet the full table. Deadlock checking stays on: the timer of a
secondary ticks in every state, and in `progress` the hog keeps CPU 0 busy.

*Bounds of the composed runs* (the values are in the cfg files). Each is the least
at which the case that matters occurs:

* *Fat16*: four clusters, of which the code uses two, in a FAT of two sectors with
  one of them in each; two files with payloads of their own, two descriptors, one
  crash and one failing read or write. A file grows over a cluster boundary and over
  a FAT-sector boundary, the volume fills up, two descriptors of one file disagree, a
  name is entered twice, and a crash falls between any two sector writes, those of
  `flush_fat` included. Five clusters in three FAT sectors (2.6 million states) were
  checked too.
* *Memory*: two tasks, eleven frames of which five are reserved, blocks of eight
  pages, one demand page outside RAM, the zone starting at the last page of RAM,
  one page above the walk's width, two spawns and four calls: allocation fails,
  a block is split, frames pass from a dead task to a live one, and windows are
  opened in the zone, over RAM and over an alias of RAM.
* *Heap*: chunks of five units of which two touch and one lies apart, up to two
  chunks: blocks join within a chunk and across two, and the cap is met.
* *Monitor*: two slots and two names (the store is full), counters up to 1 (the
  last value is reached), two keys, one parked core, two timer periods.
* *Desktop*: two apps, two canvases, two windows in rows of one, so that the second
  may lie below the screen; three windows (797 thousand states) were checked too.
  *Gpu*: four descriptors, indices modulo 8 and eleven commands, so that the index
  wraps.
* *Tcp*: sequence numbers modulo 16 that wrap during a connection, a send buffer of
  two bytes and segments of up to two against a receive buffer of one, so that bytes
  are cut; one retry, one frame in flight each way, which may be lost while the next
  is sent. Two frames towards the server (269 thousand states) were checked too.
* *Lan*: two cache entries for three addresses. *Nic*: three receive slots, up to
  three returned at once, indices modulo 4, five frames: batches of several frames, slots
  that are not armed again, and a buffer refilled while it is copied.
* *Blk*: two sectors, a ring of two, five calls. *Machine*: one secondary, two
  interrupts. *Tenants*: two tenants, a ring of two, three passes, quantum one; one
  of the tenants drains its ring, so that two prints are outstanding, echoes come
  late and in order, and the index wraps. *Vmm*: two prints, three pings over a
  queue of three.

These runs set `CHECK_DEADLOCK FALSE`: files, frames and budgets run out, a closed
connection or a finished dialogue stays as it is. Liveness properties say which
stops are not allowed.

*Assumptions about the environment*, each a constant: frames stay in order
(`REORDER = FALSE`), the disk answers within the driver's wait (`SLOW = FALSE`), the
driver that uses SYS_WAIT_IRQ runs on core 0 (`WaitCores = {0}`). Without them
findings 7, 11 and 5 apply.

*Fairness.*

* `Kernel`: `Tick(c)`, `IdleLoop(c)` and `Enter` are weakly fair: the timer is
  re-armed in every handler, a parked secondary wakes at each tick, `kmain` calls
  `enter`. Programs are not fair: they may loop in user mode for ever.
* `Machine`: a core executes kernel code it is in, and takes a tick or poke that is
  pending and unmasked. Strong fairness is used where another context can disable a
  step again and again: the lock that others take, the interrupt that masks
  postpone, kernel code that ticks interrupt. User code and the device owe nothing.
* `Tcp`: each host polls and its clock runs; no frame need arrive. `Lan`: the loop
  runs, and not every probe is lost (strong fairness of the gateway's answer).
* `Nic`, `Blk`: the server's loop runs and the device does what is published. The
  NIC need not receive anything.
* `Tenants`: the kernel and the tick run; a guest owes nothing. `Vmm`, `Rtos`: each
  side executes when it has the CPU.

`BusyTasksRotate` is what is left of "every ready task gets its time slice" on
one CPU: if blocking goes on for ever, a wake-up of a better task can interrupt
the rotation each time, so the property is stated for executions in which
eventually nobody blocks.

Each property of a passing run has a mutant of a mapped definition (definitions
with suffixes such as `_Stolen`, `_Overwrite`, `_NoWrap`) that TLC refutes.

## 6. Findings

Findings 1 to 6 have a run that shows them. The others were met while modelling;
where a constant of a model brings one out, or a property names it as its exception,
the text says so. Quotes of the
comments they contradict are in `PROJECT.json`.

1. `v_revived`: `kill_task_locked` leaves `sleep_deadline` set and `wake_sleepers`
   looks at nothing else, so a task killed in its sleep becomes Ready again, with
   its tables freed. (`K/sched/task.rs:916`)
2. `v_freed_tables`: a kill frees the tables of a task that another CPU executes.
   (`K/sched/task.rs:1135`)
3. `v_stale_woken`: the boot's wake-up record can put one task on two CPUs.
   (`K/sched/task.rs:1056`)
4. `v_starved`: the rotation of a secondary passes through its own idle slot, whose
   loop starts again from the best priority; with one CPU held by a `wait_irq` loop,
   a ready task starves. (`K/sched/task.rs:578`)
5. `v_irq_lost`: the handler records an interrupt and masks the line afterwards; a
   waiter on another core that acknowledges and waits again in between has its line
   masked for good. (`K/arch/aarch64/exception.rs:129`)
6. `v_rtos_idle`: `gs_save` always returns 1, so the RTOS guest never dispatches a
   thread and never parks. (`S/rtos-guest/src/main.rs:430`)
7. rx_ack takes ack - data_base modulo 2^32 and caps it at `sent`: an ACK older than
   data_base wraps to a huge advance and acknowledges everything in flight. (Tcp
   with REORDER = TRUE.) (`S/libtanix-net/src/tcp.rs:416`)
8. recv gives a buffer back before it copies it, and pops up to eight used entries
   but returns after the first good frame: the other frames of the batch are lost and
   their slots are not published again. (In Nic; `HeardOnceInOrder` is what is left.)
   (`S/libtanix-drv/src/net.rs:165`)
9. write_file ignores the result of write_root_entry and returns the new size
   although the directory entry on disk keeps the old one.
   (`S/libtanix-fs/src/lib.rs:471`)
10. fat_entries is the cluster count, two less than the number of FAT entries: the
    last two clusters are never used and flush_fat rewrites their entries as free.
    (`S/libtanix-fs/src/lib.rs:193`)
11. rw gives up after a bounded wait and leaves the request in the ring; the
    completion that arrives later is taken for the next request's. (Blk with SLOW =
    TRUE.) (`S/libtanix-drv/src/blk.rs:203`)
12. sys_map_demand accepts every window from 4 GiB on: over RAM on sbsa-ref, where
    RAM starts at 1 TiB, and on both machines above 48 bits, where the kernel's walk
    aliases low addresses. The demand fault then takes a block of RAM for a table.
    (In Memory, `strayed`.) (`K/ipc/syscall.rs:512`)
13. A region that begins and ends outside RAM falls back to index 0 and
    total_frames, and every frame is reserved. (`K/mem/frame.rs:108`)
14. ensure sets `pages` back to the initial count whenever the free list is empty,
    so a heap whose blocks are all in use can pass the cap again and again.
    (`S/libtanix-sys/src/heap.rs:68`)
15. The first round of secondary_enter takes SCHED_LOCK with interrupts enabled
    (init_tick ends unmasked); a tick on that core before the unlock spins on the
    lock for ever. (`K/sched/task.rs:1338`)
16. tick_guest lets a tenant run until the tick after the budget has reached zero,
    quantum_ticks + 1 in all. (`K/hypervisor/backend.rs:498`)
17. try_send to a waiting receiver stores the message and sets the channel Idle,
    where try_recv finds nothing: the message is lost. No system call reaches this
    code. (`K/ipc/channel.rs:67`)
18. keybox_cipher advances the counter that is its IV on every seal and every
    unseal, so an unseal uses a later IV than the seal it is to undo and the first
    block comes back changed. (`K/arch/aarch64/monitor.rs:726`)
19. secure_measure overwrites the measurement slot with each digest.
    (`K/arch/aarch64/monitor.rs:836`)
20. A grabbed title bar raises the window, which moves it to the top slot, and then
    stores the slot it had before in DRAG: the next tick moves the window that has
    taken that slot. (`S/wm/src/main.rs:467`)
21. serve_tick compares hit_window with the requester's slot as found before raise;
    after a raise it can route the pointer to the wrong client or to none.
    (`S/wm/src/main.rs:483`)
22. Closing a window below the dragged one shifts the array and leaves DRAG on the
    slot above: another window is dragged, or an empty one. (`S/wm/src/main.rs:519`)
23. hit_window casts a negative left or top edge of the bounding box to u32, so a
    window at the screen's edge is never under the pointer again.
    (`S/wm/src/main.rs:128`)
24. composite adds only the new cursor position to the dirty rectangle.
    (`S/wm/src/main.rs:264`)
25. submit counts used entries in a usize and compares that with the device's 16-bit
    index: after 65536 completions no command is ever seen to complete.
    (`S/display/src/virtio.rs:337`)
26. add_empty_buffers gives the buffers 0..count-1 again under new descriptor
    numbers, while the input driver reads the buffer numbered like the descriptor:
    from the second drain on it reads another event. (`S/display/src/virtio.rs:378`)
27. The message of a sender killed while parked is delivered; the comment there says
    that it is dropped. (In `life`; `QueuedMessageIsTaken`.) (`K/ipc/syscall.rs:260`)
28. flush_fat writes the FAT's sectors in order, so the link to a new cluster of a
    later sector is on disk before the cluster's end mark: after a stop in between, the
    cluster is free and can be given to another file. (In Fat16, `torn`.)
    (`S/libtanix-fs/src/lib.rs:226`)
29. find_root takes a failing read for a missing name, and a writable open then
    enters the name a second time. (In Fat16, `EnteredOnce`.) (`S/fs/src/main.rs:180`)
30. psci_cpu_on stores magic and entry in two plain stores; a WFI that returns by
    itself between them, magic first, starts the core at the old entry. (In Monitor,
    `early`.) (`K/arch/aarch64/monitor.rs:792`)
31. rx_fin accepts a FIN past lost data and acknowledges the hole. (In Tcp, `ahead`.)
    (`S/libtanix-net/src/tcp.rs:466`)
32. serve_create does not clamp the row: a window can be created below the screen,
    where nothing shows it and no pointer reaches it. (In Desktop, `below`.)
    (`S/wm/src/main.rs:379`)

Not a finding, because a comment and a test say so: `rx_data` acknowledges bytes that
it cuts at the receive buffer (`S/libtanix-net/src/tcp.rs:454`).

## 7. Proofs

Eight modules hold theorems; all are for every value of the constants that satisfies
the named assumption of the module.

*KernelProofs* (`RunQueueAssumption`, `KernelAssumption`: sizes are positive, the
idle slots lie inside the array, priorities are below 255):

* `TypeCorrect`: `Spec => []TypeOK`, with no further assumption;
* `KernelInvariant`, `OneCpu`, `OneWaitEach`: `[]KernelInv`, and from it
  `[]OneCpuPerTask` and `[]WaitsForOneThing`, assuming `HarmlessBoot`;
* `NoneMissed`: `[]NoMissedRendezvous`, on top of `KernelInv`.

Two lemmas on the picks come first: `pick_next` returns a Ready slot the CPU may
run, or its idle slot (that a best candidate exists is the least number principle,
taken from well-foundedness of the naturals). From them follow three facts about
switching (blocking, rotating, the tail), stated over an arbitrary intermediate
state array, and each action is one of these after a change to the IPC variables.

*RendezvousProofs* (the assumptions of `KernelProofs`, and `HarmlessBoot`) rests on
`KernelInv`:

* `MessagesAreTaken` and `WakesAreRendezvous`: the action properties
  `QueuedMessageIsTaken` and `WokenByRendezvous`, for every workload, kills included;
* `Implements`: `Spec => ImplementsRendezvous`, assuming also `NoKills` (no program
  calls exit-task or exec). `NoKills` is needed because a killed sender stays parked:
  its message is still taken, or skipped when staged, though its program is gone.

The refinement needs one more invariant, `DeadWaitForNothing`: a dead task is in no
queue. With it, a receiver that skips the staged messages of dead senders skips
none. `Posted` chooses a receiver, so the proof first shows that there is only one
to choose (`PostedIs`, from `OneWait`); each of the five actions on the queues is
then one update of `Posted`, and every other step leaves it alone.

*PlatformProofs* (`MonitorAssumption`, `MachineAssumption`). On the monitor:
`TicksCounted`, `Started`, `NoSharedPad` and `LastPutIsRead`, one per service, each
with its own invariant. `TickInv`: the poll
loop is between its look and its count only with FIQ masked and an expiry
outstanding. `SlotInv`: a command is complete before its SGI is
pending, and a magic without its entry means that the entry is about to be stored.
`SealInv`: valid slots hold different keys, and a key's counter is past every
counter it sealed with. `StoreInv`: a name has at most one slot.

On the machine: `ReturnsAreCaused`. `returned <= asserted` is not inductive;
`IrqInv` adds that one core at a time waits or acknowledges, that a recorded
interrupt means the line is still up, that the line is masked (or about to be) while
an interrupt is recorded or being acknowledged, and that what is recorded or still
up has not been returned yet: `returned + Owed <= asserted`.

*LanProofs* (`LanAssumption`): `CacheIsCurrent`. The invariant says that used
entries hold different addresses, that unused ones hold 0.0.0.0, and that 0.0.0.0
is among the used only when the cache is full. The last part is what makes the
search over the full length (`cache_add`) agree with the one over the used part
(`cache_get`).

*TenantsProofs* (`TenantsAssumption`):

* `Resumes`. A slice has an active, started tenant; interrupts are masked in the
  resume stub and after the exit; a tenant that never started has executed nothing.
* `EchoesAreOwn`. Per queue (`QueueInv`): as long as it was not overrun, what lies
  between `polled` and `used_idx` answers, position by position, the messages put
  there and not yet collected. Over the tenants (`EchoInv`): only the tenant that runs
  has replies that were not collected.

*DriverProofs* (`VringAssumption`, `BlkAssumption`, `NicAssumption`) starts with
lemmas on the ring (what `publish`, `Fetch`, `Return` and `pop_used` do to one
request in flight, with wrapping indices) that the three drivers share:

* `FlushShows` (`Gpu`). One command is in flight at a time (`OneAtATime`), and
  `Pixels` follows the picture from the framebuffer through the host image to the
  scanout. It does not need the poll to succeed, so it also holds after the index
  has wrapped.
* `BlkImplementsSectors` (`Blk`), assuming `Patient`: the driver does not give up on
  a slow device. (Without it the refinement fails, which is a finding of section 6:
  the abandoned request still owns the frames.) `BlkInv` says which of four stages
  the request is in (none, published, fetched, returned) and what the shared frames
  hold in each; the device's transfer is the abstract read or write, every other
  step is an answer or a stutter.
* `SendsOnceInOrder` (`Nic`). `NicInv` has the same four stages for the one transmit
  buffer: from the publication to the return it holds the frame after those on
  the wire, and `tx_done` is false.

*MemoryProofs* (`MemAssumption`: RAM and the zone of demand windows share no
block, the walk covers both, the zero page and the stacks are reserved).
Where RAM lies with respect to `ZONE_BASE` is not assumed:
`TablesStaySound`, `FreeFramesStayUnmapped` and `PrivatePagesKeep`, from one
invariant. `MemInv` says, besides types: the tables of different tasks are
disjoint, not free and not reserved; an owned or shared frame is in no table
and not free; a page open to EL0 is an identity map of a frame the task may use, the
shared zero page, or a private copy; a private page reads as its last write; and a
recorded write is in a region that is still registered. An allocation that
finds no frame panics the kernel in the middle of the operation, and a descriptor
written where no table is ends what can be said, so the invariant proper holds while
the kernel is `Running`; the three properties hold also in the state where it
panicked (`Orderly`). The lemmas on `map_user_pages` state what a whole loop over pages does to
a walk (`Remaps`), so that each system call is a few of them in a row.

*DesktopProofs* (`DeskAssumption`): `WindowTableStaysSound` and `FlushesAreComposited`,
from `DeskInv`. `Table`: the live windows are the slots `0 .. n - 1`, with
different ids below `next_id` and at most one per app, and show the canvas of their
app. `Apart`: no two apps use one canvas, and one that is in use is shared and not
free. `ScriptOK`: every blit still to come names a canvas of a live window; there
is at most one reply, and the reply to a flush is last. `Phase` ties, per app,
its own place in a request to the mail and the table; for a flush, that the screen
shows the canvas, that the window is below the screen, or that the blit is still in
the script. That a composite redraws every dirty window on the screen is a
fact about `composite` (`Composed`); the slots from the bottom up are the increasing
sequence over them (`BottomUp`), so no recursion is involved.

*Only model-checked*, and why:

* all liveness (temporal reasoning under fairness is outside what the prover
  supports): `SleepersWake`, `BusyTasksRotate`, `NeverWaitsForever`, `GatewayIsResolved`,
  `FlushNeverDrops`, `CallsReturn`, `InterruptEndsWait`, `ParkedCorePicksWork`,
  `RotationIsOver`, `DialogueIsComplete`;
* `HeardOnceInOrder` (`Nic`): the initial ring is armed slot by slot, a recursive
  function of the ring size, and what it computes needs induction over data;
* `BlocksTileTheHeap`: the free list is walked and the walk is recursive;
* `VolumeSound`, `AcknowledgedBytesStay`, `OpenFilesArePrefixes` (`Fat16`): they
  speak of cluster chains of any length;
* `CleanCloseIsComplete` and the refinement of `Stream` (`Tcp`): not proved; the
  retransmission queue, the window and the segments in flight have to be related
  position by position.

## 8. Not modelled

* Boot assembly, EFI, machine probing, GIC, cache and UART programming, PCI
  enumeration, feature negotiation: register sequences without a second actor.
* Registers and `TTBR0` in `context_switch_unlock`; kill against an address space
  that is still active is finding 2.
* The value of `TICKS`: deadlines are distances. `init_tick` sets the global count
  to zero on every CPU; no comment says what it should be on several CPUs.
* Endpoint channels (`K/ipc/channel.rs`): no system call reaches them (finding 17).
* Image parsing and relocation, checksums and header layout, 8.3 name conversion,
  fonts, widgets and drawing, hashing in the measurement service: data.
* The servers that answer one request at a time from read-only or straight-line
  tables (ramfs, dev, mem, init's and pm's child table), the shell and the demos:
  they occur in `Kernel`'s workloads by the calls they make.
* The input driver of the display server (finding 26).
* Window geometry in pixels (findings 23 and 24); what it decides is left open.
* Reordering of plain memory accesses by the CPU: shared words are read and written
  in program order.
