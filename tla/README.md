# DPDKonCloud: a TLA+ verification project

The repository runs a DPDK software router under a small hypervisor. The router
(`src/test-router`) is an ordinary Linux process until, by a hypercall, it asks
the hypervisor (`src/xmhf-secure-router`, a modified XMHF) to take its three
packet-processing cores away from Linux. The hypervisor stops the machine, enters
the router's address space into its own page tables, and lets the three cores go
on in ring 3 of the hypervisor, where Linux can no longer reach them. Beside them
the repository has the Linux driver of the network cards, ixgbe (`src/ixgbe`).

This directory has models of the parts of that system whose correctness depends
on the order of steps of several cores, or on a data structure that is hard to
test in place. TLC model-checks them on small instances, and TLAPS proves the
safety properties of all but the heap for every value of the constants.

Below, `V` is `xmhf-smpguest/arch/x86/vmx/smpg-x86vmx.c`, `S` is
`xmhf-smpguest/arch/x86/svm/smpg-x86svm.c`, both under
`src/xmhf-secure-router/xmhf/src/xmhf-core/xmhf-runtime`; `appmain.c` is the
hypapp in `src/xmhf-secure-router/hypapps/quiesce/app`; `runtime.c`,
`pipeline_acl.c`, `init.c`, `main.c` and `hypervisor.c` are in `src/test-router`;
`ixgbe_*.c` are in `src/ixgbe/src`.

## The parts of the system

| Part | Source | Module |
|---|---|---|
| SMP start-up: rally of the cores | `bplt-x86-smp.c`, `xmhf-startup/runtime.c` | `SmpBoot` |
| LAPIC interception (INIT/STARTUP IPIs of the guest), VMX | `V`:169-460, `smpg-x86.c` | `SmpBoot` |
| LAPIC interception, SVM | `S`:68-390 | none |
| Quiesce protocol, VMX, with the move to ring 3 | `V`:465-825, `user_routine.S` | `QuiesceVmx` |
| Quiesce protocol, SVM | `S`:393-543 | `QuiesceSvm` |
| Quiesce interface | `smpg-x86.c` | `StopWorld` |
| Event hubs and exception handler | `peh-x86vmx-main.c`, `peh-x86svm-main.c`, `xcph-x86.c`, `xcph-stubs.S` | where they call the above |
| Hypapp: hypercall, list of pages, page tables, page pool | `appmain.c`, `pages.c` | `HostMap`, and as one step in `QuiesceVmx` |
| Hypapp: heap | `malloc.c`, `tlsf.c` | `Tlsf` |
| Router: RX, worker, TX loops and ACL worker | `runtime.c`, `pipeline_acl.c`, `main.c`, `init.c` | `Router` |
| Router: address-space list and hypercall | `hypervisor.c` | initial states of `HostMap` |
| ixgbe: transmit path, hang check, watchdog, reset | `ixgbe_main.c` | `IxgbeTx` |
| ixgbe: mailbox between physical and virtual functions | `ixgbe_mbx.c`, `ixgbe_sriov.c` | `IxgbeMbx` |
| DPDK (mempool, rings, transmit queues), NICs, guest, LAPIC | not in the repository | from their use |

They interact in this order. `SmpBoot` ends with all cores in the guest. That is
the initial state of `QuiesceVmx` and `QuiesceSvm`. In these, the core with an
intercept stops the others and runs the hypapp; on VMX, when the intercept is the
router's hypercall, the hypapp's work is what `HostMap` describes in detail, and
`QuiesceVmx` shows of it only the order of its two effects (pages mapped, workers
woken). The workers that `QuiesceVmx` leaves in state `user` are the three loops
of `Router`, which begin when `slave_resume_signal` is set: the last step of
`HostMap` and the first of `Router`. The list of pages in `HostMap` is kept in the
heap of `Tlsf`. `IxgbeTx` and `IxgbeMbx` are the driver under Linux, before or
beside the router; they share `ixgbe_down`, which stops the transmit side and pings
the virtual functions, but no variable of the two models.

`PROJECT.json` lists all components, those not modelled included, and for every
definition the lines it stands for.

## The modules

**QuiesceVmx.** The cores are lcore 0 (LAPIC id 0), the workers `1..NW` (ids 0xc,
0xe, 0x1a) and `Others`, whose ids the switch at `V`:769 does not name. `pc` is
where a core is below its NMI handler, `h` where it is in it, since on VMX an NMI
interrupts the hypervisor anywhere, `quiesce` and `endquiesce` included. One
action is one access to a shared variable. The unrolled waits of `endquiesce`
(`c1_...=1; while(counter<1);` and so on) are the stages `k`; the number 8 that
ends them is `AllResumed`. The increments in `prepare_context`, which take no
lock, are a load and a store. The NMI of a core is a latch: a second one that
arrives before the first is taken is lost, and none is taken inside the handler.
Two things stop a core for good (`halted`), each by an exception for which
`xmhf_xcphandler_hub` has only its default case, which ends in `HALT`. A worker sets
IF before `prepare_context` (`V`:775), and an interrupt then finds no gate in the IDT
(`InterruptHalts`, on the workers in `Interruptible`). And the stub of the IDT loads
DS for the hypervisor and does not restore it, so that its `iretl` to ring 3 clears DS
and the next access to memory faults (`ReturnFromNmi`). That all NMIs in ring 3 come
in on the one stack of `user_tss` adds nothing to this, as the core is lost anyway.

**QuiesceSvm.** The same for AMD, where the code is symmetric in the cores, the
global interrupt flag holds NMIs while the hypervisor runs, and all cores go back
to the guest. **StopWorld** is the promise to the hypapp without a protocol: a core
owns the machine only when none runs, and none resumes before it is done.
`ImplementsStopWorld` maps the first to the second.

**SmpBoot.** Per core: counting in, the go signal, the second rally after the
hypapp's initialisation, the wait for the guest's STARTUP IPI. On the BSP, then,
the guest: a stack of frames, each at an instruction that accesses the LAPIC,
interrupted anywhere its flags allow; the page fault handler that maps the LAPIC
page or a page of the hypervisor and sets the trap flag; the #DB handler that
forwards the write, turns it into a wake-up of an AP, or swallows it. The history
variables `due`, `stray` and `told` record what the guest meant.

**HostMap.** The hypercall on one core, while the others stand still: reading the
list of areas backwards, looking up each page in the guest's tables, entering it
into the hypervisor's page directory (as a 2M entry, in a new table, in a table
that is there), whatever an entry that is not present says (`Unmapped`), the limit of the page pool, the store to `slave_resume_signal`
with the TLB entries that may be left from before. **MCHostMap** enumerates small
address spaces and guest page tables.

**Router.** The loops of the three cores with their rings, the batches of the TX
core, the mbuf pool, and the transmit queue of each port, which RX and TX use
without a lock: when both are inside `rte_eth_tx_burst` at once, the outcome is
any of those a lost update of the queue can have. `content` is what an mbuf holds
now and `meant` what it held when it was queued. `setup` is how the router was
started and what it is sent; **MCRouter** lists the setups of the runs: plain
forwarding, the ACL worker, traffic with ARP and echo requests, and ARP requests
until the pool is dry.

**Tlsf.** `heap` has the headers of the blocks by address, the two bitmaps and the
free lists, `owned` the pointers callers hold with what they asked for. Each helper
of `tlsf.c` is an operator from heap to heap of the same name (`block_merge_prev` is
`MergePrev`), and `malloc`, `memalign`, `realloc` and `free` are the actions. A header
made inside former user data starts with any flags; the word that points to the
block in front is lost while that block is in use, as in memory.

**IxgbeTx.** One Tx ring of `Count` descriptors as three counters: posted, told to the
hardware, written back. A packet has 1 to `MaxCount` data descriptors and maybe a
context descriptor; before it is posted, room is asked for its own `count + 3`, and
after it for `DescNeeded`, as in the code. The threads are the transmit path under the queue's lock
(`xpc`), NAPI (`poll`), the queue's and the link's interrupts, the stack's timeout,
the service task (`spc`) and whoever holds rtnl (`rst`): the service task's reset, an
MTU change, a close, an open. A step is what lies between two accesses other threads
can see. `panic` records what would be undefined behaviour: a ring laid out under
a transmitter or a poll (`torn`), or after it was freed (`freed`); the model stops
there.

**IxgbeMbx.** One VF and the PF. The buffer is a head word and a rest, so that an
access that is interrupted halfway shows; the registers are the lock bits, the
PF's cause bits, the VF's read-to-clear bits and the copy of them the VF keeps
(`v2p`). The VF posts a request, polls for the acknowledgement, polls for the reply,
reads it, or times out and starts again; the PF runs `ixgbe_msg_task` in its interrupt
and pings from another context. A frame size out of range gets no reply. When the
adapter goes down, the VF is marked inactive and what it was granted is flushed
(`ixgbe_reset`); when it comes up, a pending interrupt is dropped. The VF's client and its function-level reset are
external. `seen`, `torn` and `overlap` are history variables.

Definitions named as mutants are slips a programmer might make at that place.
They are not part of any specification; each property is known to fail when one
of them replaces the action it is a variant of.

## The runs

| Run | Instance | What it shows |
|---|---|---|
| `vmx_safety` | 3 workers and lcore 0, 2 intercepts (hypercall or other) from any cores, 1 foreign NMI, interrupts on all workers | The hypapp runs on a stopped machine (`StopTheWorld`). The staged release does replace a lock: the shared GDT and TSS are written by one core at a time and no increment is lost (`UpdateSerial`, `StageMeansReleased`). The quiesce IPI is never taken for an NMI of the guest (`NoSpuriousNMI`). A quiesce completes as long as no worker is in ring 3 or halted (`QuiesceCompletes`). The router's one hypercall from lcore 0 returns with all workers in ring 3 if no foreign NMI and no interrupt in `prepare_context` comes (`LoneHypercallReturns`), and none gets there before the pages are mapped and all have the new GDT (`UserSpaceReady`). |
| `vmx_unnamed` | 3 workers, one core the switch does not name, 1 intercept from any core, interrupts on all workers | No core is halted in ring 3: each takes the quiesce IPI before it gets there, and none is left latched (`UserCoresRun`). |
| `vmx_nmi_at_close` | one hypercall, 1 foreign NMI | Violation (`HypercallReturns`), see the findings. |
| `svm_safety` | 3 cores, 3 intercepts from any, 2 foreign NMIs | `StopTheWorld`, `ImplementsStopWorld`, no resume on a stale signal (`ResumeOnlyAfterApp`); a quiesce ends and everyone resumes as long as one core initiates and no foreign NMI comes (`QuiesceCompletes`, `EveryoneResumes`). |
| `smp_boot` | BSP and 2 APs, 2 vectors, any sequence of LAPIC accesses | The rallies end (`HypervisorBoots`); no IPI is lost, changed or let through (`IpisForwarded`); an AP starts where the first STARTUP IPI says (`ApStartsAsTold`, `SipiStarts`); the guest's flags survive (`GuestFlagsKept`); the interception ends with the last AP (`InterceptionEnds`). |
| `host_map` | up to 3 areas, small or huge, in 4 regions of 2 pages; 3 page tables | Ring 3 has the router's pages at the guest's frames (`MapsProcess`) and no other (`OnlyProcessUser`); one table per region (`OneTablePerRegion`); the workers' variable is reached unless a stale TLB entry covers it (`SignalDelivered`). |
| `tlsf` | pool of 120 bytes, 3 sizes, 2 alignments, 4 pointers | After any sequence of operations the heap passes its own check and the free blocks are where they are listed (`HeapIntact`); callers have what they asked for and nothing is leaked (`CallersKeepMemory`); a request fails only for want of a block of its class (`SearchComplete`); when all is freed the pool is one block (`EmptyHeapIsWhole`). |
| `router` | 4 packets forwarded, 2 routed by the ACL worker, 2 of all kinds, or 3 ARP requests; 3 mbufs, rings of 1, queues and batches of 2 | With forwarded traffic each mbuf has one owner (`MbufOwnedOnce`), order is kept (`OrderKept`), MACs agree with the port of exit (`MacOfOutPort`), and no packet is stuck except in an incomplete batch (`EveryPacketSettles`). With any traffic, leaked and doubly freed mbufs and races on the queue included, full rings clear (`BackpressureClears`). |
| `router_reply_overwritten` | 2 packets, ARP and IP | Violation, see the findings. |
| `ixgbe_tx` | ring of 7 descriptors, packets of 1 or 2 and maybe a context descriptor, 1 packet cleaned per poll, one of: hang, lost interrupt, link change, MTU change, close | "2 desc gap to keep tail from touching head" is kept (`TailKeepsOff`); a reset by the service task has the ring to itself (`ServiceResetAlone`). |
| `ixgbe_tx_live` | the same ring, packets of 1 and maybe a context descriptor, one of: hang, lost interrupt | A stopped queue restarts (`QueueRestarts`); a hung unit is reset (`HangEndsInReset`). |
| `ixgbe_mbx` | one VF, 5 request ids, 2 pings, resets, downs or early timeouts | Unless a ping of the PF runs into its own message task: no message is mixed with another (`MessagesWhole`), an acknowledgement is for the very message (`AckMeansRead`), what was granted stands while the VF is clear to send (`ConfigStands`). With or without such an overlap, a VF that keeps asking for a reset or a setting is served while the PF is up (`VfServed`); one that asks for a frame size out of range is not. |

### Bounds

`NW` = 3 is the number the code has, not a bound. Two intercepts are enough for
one to wait for the lock while the other is served, and for one after the workers
have left; on SVM, where rounds repeat, three let a stale signal or counter of
the first meet a core of the second while a third waits. One foreign NMI on VMX
and two on SVM can arrive in every state. In `Router`, rings and queues of one or
two entries are full and empty within few packets, and more packets than mbufs
make the pool run dry and mbufs be used again; a batch of two is the smallest
that can be incomplete (`init.c` sets 1; the option that changes it is why it is
a constant). In `HostMap`, `Big` = 2 pages per region distinguishes the first page
of a region from the others; four regions hold two huge pages of the guest, or
one between small areas; three tables can run out.
In `SmpBoot`, two APs distinguish the last STARTUP IPI from an earlier one, and
two vectors the first for a core from a repeated one.
In `Tlsf`, words of 4 bytes as in the code and 4 second-level classes for its 32: the
pool spans all first-level classes, the smallest size is below the least block,
and the three sizes and the gaps `memalign` leaves meet every split and merge.
In `IxgbeTx`, 3 is the least `DescNeeded` that can stop the queue after a packet, since
the gap of 2 is always left, and 7 the least ring for it (`RingAssumption`). It holds two
to four packets of one descriptor: there are states in which the queue is stopped, has
room below the wake threshold and above it, and, with `DescNeeded` below `count + 3`, a
queue that is woken, or not stopped, can still have too little room for the next packet.
The event can come in every state. The link changes and the user's operations are in the
run of the invariants only (1.47 million states); with a hang or a lost interrupt the
temporal properties have 296 thousand. (Checked besides: the temporal properties with any
of the five events, 1.07 million states, and the invariants with a ring of 9 and
`DescNeeded` equal to `count + 3`, 1.65 million, and with two events on a ring of 6 and
`DescNeeded` 2, 2.8 million.)
In `IxgbeMbx`, five ids are as many as the buffer, the PF, its configuration and the VF can refer to at once, so that a request never gets one in
use; two events put a ping after a timeout or a reset before a reset. (With three, 1.15
million states, the invariants hold too.)

`CHECK_DEADLOCK FALSE` is in the runs of the protocols because the bounded
environment stops, cores are halted (`SmpBoot`, `QuiesceVmx`), the hypercall is over
(`HostMap`), the driver has run into undefined behaviour (`IxgbeTx`), or the VF has
what it asked for (`IxgbeMbx`). The runs of the router and of the heap check deadlock:
its loops poll for ever, and the heap always serves one more call.

### Fairness

Weak fairness of the steps each core takes in the hypervisor or in its loop: the
cores run in parallel, and what interrupts the hypervisor is in the model (NMIs, and
interrupts in `prepare_context`; a halted core takes no step). In ring 3 interrupts
are off, so that only an NMI can stop the loops, which is fatal and not in `Router`. Nothing is assumed of the guest, of foreign NMIs or of packets,
which need not come; the NICs are assumed to drain their queues. The waits are
spin loops on plain variables: the hypervisor's Makefiles have no optimisation
flag and the router's has `-O0`, so that each round does read memory, and x86
keeps stores in order, as the one-access steps assume.

In `IxgbeTx`: of the transmit path once it has a packet, NAPI, the interrupts that are
not lost, the timer, the service task and the holder of rtnl, each a thread or a
soft interrupt the kernel schedules; and of the transmit unit while it is not hung.
Nothing is assumed of the stack, of its own timeout, the user or the faults. In
`IxgbeMbx`: of the VF's driver, of the PF's interrupt handler and of a ping under way.
The VF's countdown may run out whenever no answer can come; while the PF is at work
it does so a bounded number of times, since it lasts for milliseconds.

## What is proved

TLAPS checks the following for every value of the constants the assumptions allow;
the bounds on intercepts, events and packets are any naturals. Each proof module
has an inductive invariant `IInv` (`THEOREM Invariance`) and the properties as theorems
that follow from it. TLC checked each `IInv` on an instance before it was proved.

| Module | Theorem: property | Assumed |
|---|---|---|
| `QuiesceSvmProofs` | `MachineStops`: `StopTheWorld`; `ResumeDiscipline`: `ResumeOnlyAfterApp`; `Refinement`: `ImplementsStopWorld`; `TypeCorrect`: `TypeOK`, which no run repeats | finitely many cores |
| `QuiesceVmxProofs` | `WorldStops`: `StopTheWorld`; `UpdatesSerial`: `UpdateSerial`; `StagesReleased`: `StageMeansReleased`; `RouterFindsItsPages`: `UserSpaceReady`; `IpiStaysOutOfGuest`: `NoSpuriousNMI` | any number of workers, `Others = {}` |
| | `LoneInterceptLeavesUserCores`: `UserCoresRun` | any number of workers, any finite set `Others` |
| `SmpBootProofs` | `WritesArrive`: `IpisForwarded`; `ApsStartAsTold`: `ApStartsAsTold`; `FlagsComeBack`: `GuestFlagsKept`; `InterceptionIsDelinked`: `InterceptionEnds` | finitely many APs, at least one |
| `HostMapProofs` | `RouterIsMapped`: `MapsProcess`; `RingThreeConfined`: `OnlyProcessUser`; `TablesAreEnough`: `OneTablePerRegion`; `WorkersAreWoken`: `SignalDelivered` | areas in ascending order, huge ones made of whole pairs of regions |
| `RouterProofs` (with `RouterLines`) | `MbufsOwnedOnce`: `MbufOwnedOnce`; `PacketsInOrder`: `OrderKept`; `MacsOfOutPorts`: `MacOfOutPort` | finitely many mbufs; `Forwarding`, which the properties have as a premise |
| `IxgbeTxProofs` | `TailSafe`: `TailKeepsOff`; `ServiceResetSafe`: `ServiceResetAlone` | `Count - 1 >= 2 * DescNeeded`, which `IXGBE_MIN_TXD` guarantees; packets of any size |
| `IxgbeMbxProofs` | `NoTornMessage`: `MessagesWhole`; `AckIsForThis`: `AckMeansRead`; `GrantsStand`: `ConfigStands` | finitely many ids; `~overlap`, which the properties have as a premise |

The assumptions on constants are the named `ASSUME`s of the component modules, which
TLC evaluates in the runs. `Others = {}` is an assumption of five theorems, not of the
module: with a core the NMI handler does not name, they are false (see the findings).

None of the properties is inductive, and the invariants say why they hold anyway.

**SVM.** That the counter has reached N - 1 says nothing unless the cores counted are
distinct and still there. `CounterInv` has it: from the reset of the counter until the
initiator has collected, the counter is at most the number of cores in `wait`. With
it, N - 1 counted means all but the initiator waiting; this is where the cardinality
of finite sets enters (`WaitingFacts`). `LockInv`, `HandlerInv` and `SignalInv` say who
is between lock and unlock, that a core in its handler came from the guest, and when
the signal is up. `StepRefines` shows that each action is a step of `StopWorld` or leaves
its variables alone.

**VMX.** There is no point at which the counter is reset between the stages, and no
lock around it. The argument is by phase. Before the first stage (`FreshInv`) nobody has
a signal and the counter counts waiting cores only. During the stages (`Staged`) one core
leads, and `k` determines where every worker is, what the counter holds (`Counted`) and
what the one worker under way has loaded (`Following`); that is why load and store need
no lock. Afterwards (`After`) only core 0 is left in the guest, and as the workers in
ring 3 never count again, no second quiesce gets past its wait. `UserSpaceReady` needs in
addition what the hypapp has done at each stage (`AppInv`), `NoSpuriousNMI` a count of the
NMIs that are latched or entered but not yet attributed (`NmiInv`): before the IPI is
sent all of them are foreign, after it only those of core 0 are, unless a worker
sent it. That each step but a few keeps this count is proved once (`QuietSteps`). A
halted core takes no step and is found where it was, so that this all holds with
interrupts, too. `UserCoresRun` needs no phases and holds with `Others`: with one
intercept the IPI is sent once, and whoever has it latched or is at the entry of the
handler is still in the guest below it (`LoneInv`).

**SmpBoot.** `IInv` follows one access of the guest: not being repeated, page unmapped
(`RunInv`); being repeated under the trap flag with interrupts masked, with what the
fault handler noted still about the instruction on top of the stack (`RepeatInv`); done,
in the #DB handler, with exactly one write due or none (`DbInv`, `DueInv`). `ToldInv` ties
the STARTUP IPI to what the AP will find, in the order vector, flag.

**HostMap.** A page goes from its area to the list (`ReadInv`) and from the list to the
tables (`UpdateInv`), and what is entered stays. Three facts keep it there: huge areas
consist of whole regions, so that small and huge pages never share one; regions have
different tables (`OwnTable`); and the page of a huge area whose entry is to last comes
after all others of its region, because the list is built backwards (`OrderInv`).
`CountInv` counts tables by regions.

**Router.** The rings, batches, queues and hands of the cores are pieces of two kinds
of line: `Ins[a]`, what came in by port a, and `Outs[i]`, what will leave by port i. Most
steps move an mbuf within a line; the RX core appends to one, the worker moves the first
of an `Ins[a]` to the end of an `Outs[i]` or frees it, the TX core frees a piece out of the
middle, the NIC takes the first. `Held` says that pool and lines hold each mbuf once,
`Flow` that ids ascend along each line (transmitted packets in front of it) and from each
`Outs[i]` to each `Ins[a]`, `Macs` that the worker has set the MAC of what is in an
`Outs[i]`. `RouterLines` has the facts about sequences (what appending, taking and
cutting does to the number of occurrences and to the order), `RouterProofs` a lemma for
each action.

**IxgbeTx.** `RingInv` says how much room the transmit path may still count on, for the
packet it has in hand, at each point between its look at the ring and the write of the
descriptors, while the poll only makes room.
`HolderInv` and `LockedOut` say at each point of `ixgbe_down` and `ixgbe_up` what the holder
of rtnl has switched off: carrier, then the queue lock, then NAPI.

**IxgbeMbx.** `IInv` follows one request: its id is in the buffer until somebody writes over
it, and whoever does so clears the request bit (`ReqInv`); a flagged message a waiting
VF finds was written after its request, and after the acknowledgement in reply to it
(`ReplyInv`); a reset the PF has not seen yet is no older than the current run of its
message task (`ResetInv`).

### Only model-checked

- All liveness: fairness and ENABLED are outside the prover's reach. These are
  `QuiesceCompletes`, `LoneHypercallReturns`, `EveryoneResumes`, `HypervisorBoots`,
  `SipiStarts`, `EveryPacketSettles`, `BackpressureClears`, `QueueRestarts`,
  `HangEndsInReset` and `VfServed`.
- `Tlsf`, all four properties. Its size classes are powers of two and positions of bits,
  and its heap a chain of blocks walked by recursion; what these compute for every
  input needs induction over data, which the installed provers cannot do.
- Router traffic with ARP and echo requests: the three properties exclude it, since
  they do not hold for it.

## Findings

Two runs show that the code does not do what a comment in it says.

- `vmx_nmi_at_close` (`V`:549): `endquiesce` clears `vcpu->quiesced` before
  `g_vmx_quiesce`. An NMI that the initiator takes between the two finds a quiesce
  under way and the core not part of it; the core stops itself and waits for
  `c0_vmx_quiesce_resume_signal`, which nothing sets. `V`:497 calls this "atomic
  processsing mode".
- `router_reply_overwritten` (`runtime.c`:207): the RX core frees an ARP reply
  right after queueing it. The mbuf is in the pool while its descriptor waits, and
  the next packet received into it goes out instead of the reply of `runtime.c`:204.

Other behaviours met while modelling. The properties are stated so that they do
not contradict them; each is a hazard in `PROJECT.json`.

- A worker in ring 3 keeps `vcpu->quiesced` set (`V`:754), so that it never counts
  again: the first intercept of lcore 0 after the hypercall waits at `V`:517 for
  ever. This is the disjunct in the VMX `QuiesceCompletes`. Nor does the worker survive
  the IPI of that intercept: its handler does "simply return" (`V`:753), but the stub's
  `iretl` (`xcph-stubs.S`:85) leaves it without DS, and its next access to memory halts
  it. `UserCoresRun` is about one intercept.
- A worker sets IF (`V`:775) and runs `prepare_context` on an IDT with gates for the 32
  exceptions and vectors 0x80 and 0xEF. A maskable interrupt halts it, and lcore 0 waits
  for its stage for ever; `LoneHypercallReturns` excepts it.
- A core whose id the switch does not name (`V`:769) counts itself and goes back to the
  guest while the hypapp works, and its rally disturbs the resume counter.
  `StopTheWorld` and the staged release are stated for machines without such a core.
- On SVM `nmiinhvm` is 0 for the exit code `SVM_VMEXIT_NMI` and 1 otherwise (`S`:486), the
  reverse of what `S`:523 ("inject the NMI if it was triggered in guest mode") needs; an
  NMI of the guest is dropped, and `injected` in `QuiesceSvm` never grows.
- For an unknown hypercall, an I/O or an EPT intercept, `endquiesce` sends the
  workers to ring 3 all the same (`appmain.c`:255). `UserSpaceReady` is
  therefore checked for the router's hypercall.
- If a worker core causes the intercept, `endquiesce` waits for a stage of that
  very core (`V`:532).
- All workers share one `user_tss`; its kernel stack is that of the last one
  (`V`:625). `UpdateSerial` says no more than that it is set.
- On SVM two simultaneous intercepts hang: the core that waits for the lock
  (`S`:431) holds the NMI by which it should be counted. And a foreign NMI that is
  taken between `S`:519 and the end of the quiesce is counted again. These are the
  two exceptions in `QuiesceCompletes` and `EveryoneResumes`.
- Every ARP request leaks its mbuf, and the allocation at `runtime.c`:190 is not
  tested; `MbufOwnedOnce` is checked for forwarded traffic.
- No TLB entry is flushed after `update_hypervisor_pt`, so that the store at
  `appmain.c`:250 can reach the old frame; this is the exception in
  `SignalDelivered`. A page the guest has not touched is mapped to whatever frame the
  entry that is not present says (`appmain.c`:340).
- On a machine with one core the BSP waits for a STARTUP IPI (`smpg-x86.c`:62).
- `printf` holds a spin lock for a line, and the NMI handler prints (`V`:765): an IPI
  that interrupts a `printf` on its own core never gets the lock.
- `tlsf_realloc` with a size of `block_size_max` or more: `adjust_request_size` makes 0
  of it, which is not above the current size, so that the block in use is trimmed to
  nothing and returned (`tlsf.c`:976), though the comment at `tlsf.c`:923 has "a request
  that cannot be satisfied will leave the original buffer untouched". The pool of
  the hypapp is 4M and nothing in it calls `realloc`; the sizes of the run are below.
- `ixgbe_watchdog_subtask` tests `DOWN` and acts later, without rtnl (`ixgbe_main.c`:8266).
  After an MTU change that began in between, it turns the carrier on and wakes the
  queues while the ring is being laid out, and the stack transmits into it. TLC
  reaches this in 12 states. `ixgbe_reset_subtask` (8462) tests `DOWN` before it waits
  for rtnl and not after: if a close got there first, it brings up an adapter whose
  rings are freed. These are the values of `panic` that `ServiceResetAlone` permits.
- With `xmit_more`, a packet that stops the queue is announced to the hardware; but
  when a wake-up clears the stop before the tail is written, and a second packet finds
  no room, the queue stops with the tail unwritten. `QueueRestarts` is stated for
  queues whose packets have been announced.
- The lock bit of the mailbox separates PF and VF, not two contexts of the PF. A ping
  (`ixgbe_main.c`:8069, 8103) between `ixgbe_check_for_msg` and the read in
  `ixgbe_msg_task` overwrites the request; the PF reads its own ping and acknowledges
  it, and the VF takes its request for read. A ping also flushes a request not yet
  seen (`ixgbe_mbx.c`:669). The VF times out and asks again, so that `VfServed` holds;
  the other three properties except such an `overlap`.
- A `SET_LPE` above the limit is acknowledged and gets no reply (`ixgbe_sriov.c`:1337);
  the VF times out. And a refused MAC address may take the old one with it
  (`ixgbe_sriov.c`:809).
- A packet that the ACL worker sends back out of the port it came in by gets the other
  port's MAC (`pipeline_acl.c`:356); `MacOfOutPort` is about the others.

## What is not modelled, and why

- LAPIC interception on SVM: a copy of the VMX code that masks interrupts in
  another way.
- NMIs in the window between the page fault and the repeated LAPIC access.
- Interrupt vector 0xEF in `prepare_context`, which dumps registers and returns, and
  whose `iretl` unblocks NMIs inside the NMI handler; the frames that NMIs of several
  workers in ring 3 leave on the one stack of `user_tss`.
- The lock of `printf`, and the spin locks around single counter updates, whose
  bodies are one step.
- Intercepts that change only registers of their core (CPUID, MSR, CR, task
  switch, INT 15h).
- A second run of the hypercall, which the VMX protocol does not let happen.
- Boot loader, secure loader (except the page tables it leaves), partitions,
  memory and DMA protection, TPM, libbaremetal: sequential code, or hardware set-up
  before there is concurrency.
- Option and rule parsing of the router (`config.c`, `rules.conf`), its start-up
  I/O, and read bursts above 1 (the ACL worker rewrites the MACs of the first packet of
  a burst only). A packet with a known destination is IPv4, as `pipeline_acl.c`:341 tests.
- Of ixgbe, in the parts that are modelled: several rings and VFs, pause frames (which
  only hold off the hang check), adapter removal, the SFP, flow director and PTP
  subtasks; what each mailbox message configures, the reset bits of the mailbox, the
  detection of malicious drivers, and a function-level reset in the middle of an access
  to the buffer.
- The rest of ixgbe, most of its 64,600 lines: receive, register sequences for each chip
  and PHY, DCB, FCoE, ethtool, and kernel functions for older kernels. They are
  sequential, or right or wrong only against a data sheet.
- `basicfwd`, `skeleton`, the kernel modules and the four other XMHF trees: samples,
  or earlier states of the same hypervisor.

## Plan

Done are the two quiesce protocols with the abstract specification, the router, the
start-up, the hypapp with its heap, the transmit side and the mailbox of ixgbe, and the
proofs of their safety properties. Next, in order of what they would add:

1. `Tlsf`: a heap of abstract blocks as its specification, so that only the search for a
   class is left to model checking.
2. `QuiesceVmx` with `Others`: which weaker form of `StopTheWorld` holds with cores the NMI
   handler does not name.
3. LAPIC interception on SVM, as a variant of `SmpBoot`.

## Running it

In this directory, `tlc -config VmxSafety.cfg QuiesceVmx` and so on for the pairs
in `PROJECT.json`; every run takes at most a few minutes. `tlapm QuiesceSvmProofs.tla`
and so on for the eight modules with theorems, in any order; the
largest, `QuiesceVmxProofs`, `RouterLines` and `RouterProofs`, take some twenty minutes
each from nothing.
