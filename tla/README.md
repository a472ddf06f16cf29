# Verification of the 2026 camp A signal separator

The program separates a mixture C = A + B of two periodic waves (each a sine or
a triangle, 20 kHz to 100 kHz in steps of 5 kHz) and generates A and B again.
It runs on a Zynq: Verilog in the programmable logic (`2026_camp_a/PL`), C on the
RT-Thread kernel in the processing system (`2026_camp_a/PS`). Paths below are
relative to `2026_camp_a`.

    AD9238 -> an9238_axis -> CIC filters -> combiner -> axis_tlast_gen -> AXI DMA
                                                                            | interrupt
    main(): package_process -> get_fft(adc_translation) -> get_ab -> set_dac_freq x2 -> sync
       |                                                                    | AXI GPIO
    RT-Thread        config_bus_cdc (50 MHz -> 125 MHz) -> DDS / triangle -> AD9767

## 1. Inventory

| Part | Source | State | Operations | Modules |
|---|---|---|---|---|
| Configuration bus CDC | `PL/src/dac_out.v` 224-254 | held snapshot, request and acknowledge toggles, two synchronisers | clock edges of two domains, resets, loss of lock | `ConfigMailbox`, `ConfigBusCdc`, `ConfigBusCdcProofs` |
| DAC configuration | `PS/src/amp_freq.c` `set_dac_freq` | seven AXI GPIO registers | one store after the other for each port | `DacConfig`, `MCConverters`, `ConverterProofs` |
| Triangle generator | `PL/src/triangle.v` | counter, direction, step register | clock edge | `Triangle`, `ScreenWaveProofs` |
| ADC sample stream | `PL/src/an9238_axis.v`, `axis_tlast_gen.v`, `PL/build.tcl` | pair register, two pending bits, packet count, what the chains hold | clock edges, start of a transfer | `AdcStream`, `ConverterProofs` |
| ADC capture | `PS/src/adc_dma.c`, `amp_freq.c` `get_fft` | `adc_inst` (flag, error, buffers), DMA channel, cache | `adc_translation`, `s2mm_handler`, DMA | `AdcCapture`, `AdcCaptureProofs` |
| Wave identification | `amp_freq.c` `get_delta`, `get_ab` | list of peaks | peak search, harmonic analysis | `AbIdentify`, `MCAbIdentify`, `ScreenWaveProofs` |
| NE10 transforms | `PS/src/ne10/modules/dsp/NE10_fft*.c` | configuration (factors, twiddles), four arrays, strides | the stages of real and complex transforms, both ways, in three formats | `Ne10Fft`, `MCSignal` |
| NE10 filters | `NE10_fir.c`, `NE10_iir.c`, `*_init.c` | state array, ring index | one call per block of a signal | `Ne10Filters`, `MCSignal` |
| NE10 arithmetic | `PS/src/ne10/modules/math`, `physics`, `common/macros.h` | the arrays of a call, the element in hand | vectors and matrices, element by element, in plain C and in vector code | `Ne10Math`, `MCSignal` |
| NE10 images | `PS/src/ne10/modules/imgproc` | source and destination, passes done | box filter, resizing, rotation | `Ne10Image`, `MCSignal` |
| Screen protocol | `PS/src/tjc_screen.c` | receive buffer, pointer, end flag, phase, work mode | UART interrupt, `package_process` | `TjcScreen`, `MCScreenWave`, `ScreenWaveProofs` |
| AD7606 driver | `PL/src/ad7606_axis.v` | read sequence, AXI-Stream register | clock edge; not instantiated by `build.tcl` | `Ad7606Axis`, `ConverterProofs` |
| Kernel: threads, scheduler | `rt_thread/src/thread.c`, `scheduler_mp.c`, `clock.c` | ready lists, thread states, priorities, time slice | suspend, resume, timeout, sleep, schedule, tick | `RtThread`, `RtThreadProofs` |
| Kernel: waiting objects | `rt_thread/src/ipc.c`, `mempool.c` | value, set, ring or lists; suspend lists | take and release, send and receive, urgent, reset, allocate and free | `RtIpc`, `RtIpcProofs` |
| Kernel: mutexes | `rt_thread/src/ipc.c` | owner, hold, priority, objects taken, object waited for | take, release, inheritance along chains | `RtMutex`, `RtKernelProofs` |
| Kernel: heap | `rt_thread/src/slab.c`, `kservice.c` | page runs, zones, free chunks | allocate, reallocate, free | `RtSlab`, `HeapProofs` |
| Kernel: small memory, heap objects | `rt_thread/src/mem.c`, `memheap.c` | a row of items with the lowest free one; a ring of blocks with a list of the free ones, a semaphore | allocate, reallocate, free | `RtSmallMem`, `RtMemheap`, `RtMemory` |
| Kernel: timers | `rt_thread/src/timer.c` | timer lists, tick, timer thread | start, stop, control, tick handler, timer thread | `RtTimer`, `RtKernelProofs` |
| Kernel: memory manager | `rt_thread/components/mm`, `components/libadt/avl.c`, `cortex-a/mmu.c` | tree of areas, two-level page tables, free lists of pages, references | map, load, unmap, detach; allocate and free pages | `RtAvl`, `RtPages`, `RtAspace`, `RtMemory` |

The kernel modules meet in `RtKernel` and `MCRtKernel`, the memory manager in
`RtMemory`. Not modelled are the parts of section 6.

How the parts interact. `main()` is one endless loop on one core; interrupts
(DMA completion, UART, PS DMA, tick) preempt it at any instruction. PS and PL
meet at two places: the AXI GPIO registers, read by `config_bus_cdc` in another
clock domain, and the AXI DMA, which writes `adc_buf` behind the data cache. The
two ADC channels are independent streams between `an9238_axis` and the combiner.
The program lives on the kernel: `main` is a thread, `malloc` (`get_ab` uses it
in every round) is the slab heap behind a mutex, and the kernel's tick, timer
thread and idle thread run beside it. The kernel is built for two cores
(`RT_USING_SMP`), but nothing ever starts the second one. The memory manager
registers the areas of `board.c` when it boots; in this configuration nothing
else calls it (`interrupt.c:73` would, in a kernel with user processes). It uses
the heap for its records, a mutex for the tree and its own page allocator for
tables and frames.

What is hard. (1) Two unrelated clocks and 194 bits between them. (2) A
configuration that is several register stores, sampled in between. (3) A flag
set by an interrupt, a cache that may hold old lines, and three lengths (request,
packet, FFT) set in three files. (4) Back-pressure that differs between the two
channels. (5) A counter that turns one edge late. (6) Decisions made from
harmonics that coincide. (7) Wake-ups, timeouts and releases that race for the
same thread; priorities passed along chains of owners; a tick that wraps; an
allocator that must find the owner of a bare address; a tree that rebalances
under every removal; page tables shared by areas and counted by their entries,
on pages that run out half way. (8) A transform whose
stages swap two arrays and choose the last one by parity; filters that carry a
piece of one block into the next. What makes each part correct:

* CDC: no torn bus, no snapshot lost, duplicated or out of order, always idle
  again, recovery from a reset of one side;
* DAC configuration: a wave form never runs on words of an older request, and a
  request that stays is reached;
* triangle: no jump at the ends, never stuck;
* stream: the channels stay in step, a capture is one packet;
* capture: the FFT sees samples of this capture only, no completion is missed;
* identification: peaks are neither split nor lost, the waves come out right;
* transforms and filters: the stages, in whatever arrays and radices, amount to
  the transform; how a signal is cut into blocks does not show;
* arithmetic and images: the vector code, with its rounds of four and what is left
  over, computes what the plain code and the definition do and writes nothing else;
* screen: a burst may be lost, and a package that finds a byte left over, but
  the buffer is back at its start for the next one;
* AD7606: the word sent is of the conversion just started, and stays until taken;
* waiting objects: permits, flags, messages and blocks are neither lost nor
  duplicated nor reordered, and no thread sleeps on what is there;
* mutexes: one owner, released by it as often as taken, never inverted;
* heaps: free and used parts tile the memory, a freed block finds its zone;
* timers: a function runs when its time has come and not before, also soft ones;
* memory manager: areas are apart and found, what they say is what the tables
  say, and each page has one owner until it is free.

`PROJECT.json` lists every hazard with its line and the properties for it.

## 2. Modules

**ConfigMailbox** is the abstract promise of the CDC: a one-place mailbox (bus,
hold, flight, out) with Write, Post and Deliver.

**ConfigBusCdc** is the handshake. `SrcEdge(d)` is the `always @(posedge
src_clk)` block together with the value the GPIO registers take, `DstEdge` the
`dst_clk` block. Edges of the clocks interleave freely. A flop that samples a
signal of the other domain in the first edge after it changed may read either
value, and the bus read then is `Torn`. `ReleaseSrc`, `ReleaseDst`, `LoseLock`
are the resets `build.tcl` makes: the DAC domain is in reset until its clock
has locked, again whenever lock is lost, and for at least 16 of its cycles.
The refinement maps `flight` to the held snapshot while the request has not been
seen. Assumption: the first synchroniser flop has resolved when the second
samples it, and a signal settles within one period of the sampling clock.

**DacConfig** extends the mailbox with `set_dac_freq`: the list of stores of a
call (`Stores`) and one step per store. The handshake is represented by the
mailbox, justified by the refinement. The arithmetic of the words is opaque; a
word is the call it was computed for.

**Triangle** is the three registers of `triangle.v`, modulo a power of two. Its
specification `OnceSpec` sets the step once after reset, as the program does in
effect: `main()` sets it again only when the frequency has changed.

**AdcStream** is `an9238_axis` bit by bit (pending, accept, empty-next), the
two external chains as queues that stall when they like, the combiner, the
packet counter and the DMA. A sample is its tick, so misalignment is visible.
Assumption: a chain that is full stalls its input, through both of its CIC filters,
and loses nothing. `build.tcl:196-259` does not set an output TREADY on the
`cic_compiler` cells and the IP is not part of the repository: were a filter built
without one, words would be lost in front of a full clock converter, and what is
shown of the channels' being in step would not hold while the DMA does not take them.

**AdcCapture** has every step of `adc_translation` (`pc`) and of `s2mm_handler`
(`isr`), the DMA channel, its status and enable bits, the packet counter and,
for each word, whether memory and cache hold a sample of this capture. The CPU
may load a cache line at any time. Faults: the DMA stops with an error, and an
interrupt arrives without a cause. The request is at least a packet
(`CaptureAssumption`), as in the build.

**AbIdentify** is `get_delta`, one step per bin above the threshold, and
`get_ab`. Power is an integer (units of 1e-5 of the maximum). Positions of
`deltas` that were never stored hold any value of `Garbage`.

**Ne10Fft** is the plain C transform: `fft_volt` calls the real one in floats, the
module also has the complex one, the inverses and the fixed-point formats of 32
and 16 bits, scaled or not. A job is one transform and its inverse, a step is one
stage with all its butterflies, in the array `src` and `dst` point at; `cfg` is
what the `ne10_fft_alloc` functions make. Powers of two take the
`ne10_mixed_radix_butterfly` functions, whose first stage has radix 8, 4 or 2
and whose last one writes to the output even if it reads from it; other lengths
take the generic ones, with radices 2 to 5. A cell nobody has written is
`"unset"`: a stage that read one would stop TLC. Numbers are integers modulo
15361, where 7 has order 15360: there the sines and cosines of every fraction of
a turn with these lengths exist and obey the same laws, so the result can be
compared with the definition of the transform exactly. What this leaves out is
rounding and, in fixed point, overflow. Dividing in fixed point is exact here
too. All stages are linear, so an input of a single 1, at every place, stands for
every input.

**Ne10Filters** has the six filters of the library, one step per call with a
block of any size the caller may choose; the groups of four samples and the
single ones after them are separate groups in the code and here. Arithmetic is
modulo 12289, again exact. The sparse filter's ring depends on the block size, so
its calls have the one its init function was given; its last
read, one element past the coefficients whose value is not used, is left out.

**Ne10Math** is one call of the arithmetic on arrays, one step per round of the
function's loop, with the plain versions (an element a round) and those in vector
code (four floats or elements a round, and the rest after them, as `macros.h`
does). `dst` may be a source where the header allows it. Arithmetic is modulo a
prime, so division is exact; `sqrt` is opaque, a number that depends on its
argument alone. Rounding, NaN and division by 0 are left out.

**Ne10Image** is one call on an image of bytes: the box filter with running sums
along rows and columns (in vector code with 16-bit factors), the resizing in two
passes with the rows kept between output lines, the rotation with its fast path.
Positions between pixels are quotients, angles are given by rational sines and
cosines, and what the code rounds is rounded as there. A byte that nothing in the
image determines is `Undetermined`, and the law of rotation says where it may be.

**MCSignal** puts `AbIdentify`, the transforms, the filters, the arithmetic and
the images side by side in one run; a behaviour is one of the five.

**TjcScreen** is the UART handler and `package_process`, interleaved with the
bytes that arrive. The handler reads its interrupts (`Enter`), takes a byte at a
time (`Drain`) until it sees the FIFO empty (`Drained`), and clears RXOVR (`Clear`),
or notes the end (`Timeout`); `isr` is where it is. In `package_process` the flag,
the pointer and each byte read are steps of their own. A byte may come between any
two steps, also between `Drained` and `Clear`, whose write then clears its
interrupt. Whether the UART raises RXOVR again because the FIFO is not empty is
said neither in the code nor in any document here, so `Clear` allows both: if it
does not, the byte is left over until the next one comes. No more than one comes in
that window: a byte takes 87 us, and the window is two register accesses in a
handler that nothing preempts. `alone` is a history variable: the package that
began when nothing was under way or left over and that no other has followed.
Further assumptions: the bytes of a package come within the receive timeout that
`main()` sets; while an interrupt
waits another handler has the CPU, so `main()` does not run. Only the first four
bytes of `recv_buf` are kept, the ones that are read.

**Ad7606Axis** is the state machine of `ad7606_axis.v`, one step per clock, and
the converter as its environment: BUSY rises within `MaxRise` clocks of the end
of CONVST and falls when it likes, and each falling edge of RD puts the next
channel on the bus. A datum is its conversion and its channel.

**RtThread** is the scheduler. Its services are functions from one scheduler
record `s` (who runs, states, current priorities, ready and wait lists, armed
timers, spent time slices, error codes) to the next, named as in the code, so
that a handler is written as the composition of the calls it makes. What the
code does with interrupts disabled is one action; a thread that goes to sleep
suspends itself in one action and calls `rt_schedule` in another, and the tick
may come between (`th` says where each thread is in its call). An armed timer
may expire at any tick, or never as for `RT_WAITING_FOREVER`. `Tick` is
`rt_tick_increase`, `rt_timer_check` and the switch on the way out.

**RtIpc** adds one waiting object, whose kind is chosen initially: semaphore,
event set, mailbox (the ring with its offsets), message queue (its lists of free
and full blocks) or memory pool. A blocking call looks at the object, goes to
sleep and looks again after the wake-up. Fields in capitals are history: what
the object should hold, kept beside what the code keeps.

**RtMutex** has two mutexes with recursive take, hand-over on release, the
priority of the first waiter, and the walk along the chain of owners who wait
themselves (a fold, as long as a chain can be: the number of threads and one more,
since no thread waits twice). Threads
wait for ever, as both users of mutexes in this program do (the heap lock and
the lock of an address space).

**RtSlab** is the heap: `page_list` as a sequence of runs with splitting and
merging, zones with the chunk index `z_uindex`, the list of freed chunks, the
list of free zones and its release beyond a threshold, `memusage` as what each
page is, the large requests and `rt_realloc`. Every call runs under the heap lock
and is one action. `LIVE` is history: the blocks given out.

**RtSmallMem** is the allocator of `mem.c`: first fit from the lowest free item
on, splitting, merging with both neighbours, and a `realloc` that shrinks in
place. **RtMemheap** is `memheap.c`. What is under the object's semaphore is one
action; the look at `available_size` before it, and the gaps of a `realloc` that
has to move, are steps of their own between which another caller may come. Both
are alternatives to the slab heap which this configuration does not compile; the
peak statistics are left out.

**RtTimer** has the timer lists (the skip list has one level in this
configuration, hence sequences), services with interrupts disabled as functions
on the record `w`, and in steps of their own the walk of the tick handler along
the hard timers and the timer thread. A timer function may call any service on
any timer, itself included. The tick counts modulo `TickMod`.

**RtKernel** composes these: its `Next` runs threads and tick together with the
object, the mutexes, the heap or the timers chosen initially.

**RtAvl** is the tree: rotations, the walk up that rebalances, the three cases of
removal, and `avl_adpt.c`, which finds areas in it. Nodes have pointers as in the
code, and a removed node keeps its own, because `rt_aspace_detach` reads the
successor of a node that has left the tree.

**RtPages** is the buddy allocator: a list per level, splitting, merging while
the buddy's `size_bits` says it is free, references of blocks in use, the
initialisation with any region and the installation of a further one, whose
`size_bits` hold anything where nobody has written. The records of the pages are
there from the beginning (the code reaches them through `early_offset` until
they are mapped).

**RtAspace** chooses addresses (`_find_free` with its three searches, differences
unsigned, so modulo `Wrap`), and has the page tables: an entry for a section
leads to a table, a page with one reference for each of its entries, and both
tables and frames come from `RtPages`.

**RtMemory** makes processes of it. A caller chooses an address under the lock of
the space and then maps page after page without it; between finding no table
and linking one it may be preempted. Tables and frames may run out at any of
these steps, with the undoing the code does. Unmapping is one step: each of its
pages is done with the scheduler locked, and nobody else is told of the range
before it ends. Limits are those of the space, as in `rt_aspace_map` and
`rt_kmem_map_phy`; entries for whole sections are left out. By themselves it
runs the tree and the page allocator, so that more nodes and other sizes are met,
and the two heaps of `RtSmallMem` and `RtMemheap`: a behaviour is one of the five.

`MCConverters` puts `DacConfig`, `AdcStream` and `Ad7606Axis` side by side,
`MCScreenWave` `TjcScreen` and `Triangle`: a behaviour is one of them, chosen
initially, each by itself with its own fairness. They share no state in the code
either. `MCAbIdentify`, `MCSignal` and `MCRtKernel` give the values TLC needs.

## 3. Runs

| Run | Shows |
|---|---|
| `config_bus_cdc` | refinement of the mailbox with its fairness, acknowledgement of every request |
| `config_bus_cdc_lock_loss` | the same hazards, and no torn bus, when the DAC domain alone is reset at any time, any number of times |
| `converters` | DAC: the form and its words arrive together; a lasting request is reached while the other port keeps changing. ADC: channels in step under every back-pressure, a capture is one packet, old words in it are few, it completes. AD7606: each word is of the conversion just started and held until taken, however late BUSY and TREADY are |
| `adc_capture` | fresh samples, no stale flag, packets aligned, interrupts restored, captures end unless an error was noted |
| `signal_processing` | peaks are apart, tallest and complete, and every mixture identified unless B covers A's third harmonic; transforms are the Fourier transform and their inverses give the input back; filters do not show how the signal was cut; arithmetic and images are what their definitions say, in plain and in vector code |
| `screen_and_wave` | screen: after any burst the buffer is back at its start, with at most one byte left over in the FIFO; a package that comes alone is executed, once, as sent but for a last byte left over. Triangle: no jump for a step set once |
| `rt_kernel` | for every kind of kernel object and three threads: nothing lost, duplicated, reordered or given twice, no missed wake-up, no inversion, no timer early, late or forgotten |
| `rt_memory` | areas apart, found, and translated as they say; every page free once or with one owner, whatever is mapped, unmapped or runs out; items and blocks of the two other heaps tile their memory and belong to one owner each, whatever two callers do in between |
| `adc_capture_short_packet` | finding 1 |
| `rt_timers_isr` | finding 2 |
| `rt_memory_align`, `rt_memory_race` | findings 3 and 4 |

Bounds and why they are enough.
* CDC: three bus values. The design only compares and copies the bus; three
  tell the held, the posted and the coming value apart. The proofs are for
  every bus. There is no bound on the number of edges.
* DacConfig: two words besides the reset word; port A takes two sines and a
  triangle, so both kinds of change of form and a change within a form happen,
  port B one sine. Snapshots may fall anywhere.
* AdcCapture: four words, one error, one spurious interrupt. Four words leave
  room for a speculative load before, within and after the written part.
* AdcStream: five ticks, two samples a word, chains of two words, packets of
  four. The modulus is larger than the lead one channel can have, so a sample
  paired with a wrong one has a different tick; a packet is longer than what the
  chains hold, so old and new words meet in one.
* Triangle: 7 bits and steps up to 5. The steps do not divide the modulus, so
  the ends are met at every offset.
* AbIdentify: all bins, widths and thresholds are the real ones. The mixtures are
  all pairs of frequencies of the design range, both forms and both signs of
  coinciding harmonics; amplitudes are 1 V each and harmonics above the seventh
  are below every threshold. Leakage, noise and other amplitudes are not in the
  mixtures; seven bins around the search's start, with four powers each, stand
  for close lines.
* Transforms: floats of 4 to 512 real points, complex ones of up to 120 with
  every radix first, in the middle and last, fixed point of up to 128. Odd and
  even numbers of stages, and of radix-4 stages after each first radix, are all
  among them; longer lengths, as the 16384 of `fft_volt`, repeat middle stages.
  The 1 is at every place of short inputs and at three of longer ones.
* Filters: one to nine taps, so fewer than a group of four, as many and more than
  a block of six, and factors of 2 and 3; twelve samples in blocks of any sizes.
* Arithmetic: no elements to nine, so none, one, less than a round of vector code,
  just one, two, and what is left after them; every place of `dst` the header
  allows; zeros, signs and a singular matrix among the numbers.
* Images: odd and even sides, kernels of 1 to 5 and of 127 and 128, on
  both sides of what the vector code takes, sizes up and down, angles of all quadrants.
* TjcScreen: room for two packages in the buffer (more than that repeats what two
  do: cut, appended or overwritten), a backlog of two bytes (so bytes and timeout
  can wait together), two phases, two commands. When the last byte of one is left
  over, the flag of one meets the datum of the other, and those are commands as well:
  one steps the phase, past its end, the other changes the mode.
* Ad7606Axis: BUSY up to six clocks late, the limit the design allows for
  (40 ns); reset and interval are short, and any length in the proofs.
* Kernel: three threads of priorities 1, 2 and 2 above the idle thread, so that
  a wake-up preempts, queues behind an equal, or waits; lists ordered by
  priority, the discipline the program uses; one permit (two after resets), two
  flags wanted together, either or one alone, a mailbox of two, two blocks. Two
  mutexes held at most twice make the shortest chain of owners. No bound on the
  number of calls. The two threads of equal priority, and the messages, are
  symmetric.
* Heap: eight pages, zones of two, two classes of three chunks, large requests of
  two pages, release of a zone beyond one: runs split and merge on both sides,
  zones fill, empty and go back.
* Timers: ticks 9 to 3 modulo 11 cross the wrap; two timers at a time, one hard
  and one soft or two soft; times of one or two ticks, so order in the list
  matters; the timer thread is at most one tick late (`MaxLag`). Functions of
  hard timers do not start soft timers (`IsrStarts`): no interrupt handler of
  the program does; finding 2 is what happens when one does.

* Memory manager: three areas in nine pages, three sections of three pages each,
  lengths of two and four, so an area shares a section with another and spans
  two or three; five pages for tables and frames of which three are taken, so
  mappings fail at each step. One caller (two lose translations, finding 4),
  alignment of a page (more is finding 3). The addresses are at most half of all
  (`Wrap`), for the reason given in section 4. The tree by itself: nine nodes, with which removal rotates
  twice on the way up. The allocator by itself: three levels, a region that
  begins and ends amid the largest blocks, a second one installed later.
* The other heaps: 96 bytes of small memory and requests of 5 (rounded up), 20, 32
  and 150 (refused), so items are split and merged on either side. A heap object of 208 bytes, requests of 5, 20 and 60, two callers.

`CHECK_DEADLOCK FALSE` is said where the system really may stop: after a DMA
error (`adc_translation` waits for ever) or a spurious interrupt, in `AdcCapture`,
and in `MCSignal`, whose five parts are computations that end.

Fairness. Clocks run: weak fairness of `DstEdge` and of the flops of `SrcEdge`,
but not of the value the bus takes. Resets are released (`proc_sys_reset`).
`main()` finishes a call of `set_dac_freq` that it began but need not begin any.
The CPU executes `main` and the handler, a pending interrupt is taken, the ADC
never stops sampling, a DMA reset ends. A chain that can accept does not stall
its channel for ever. A package once begun is sent to its end; nobody need touch
the screen. No fault is ever forced. The kernel's properties are invariants and
assume no fairness: that a sleeper does not miss its wake-up, or its timer, is
said of every state.

## 4. Findings

1. `adc_translation` asks for `SAMPLE_LEN` words and converts as many, but the
   PL ends the transfer after `PKT_LEN` = 1024: the rest of what the FFT sees is
   old (`FreshSamples`, with a packet shorter than the FFT).
2. The timer thread looks for the next soft timer and suspends itself later
   (`timer.c:819`, `822`, `836`). A soft timer that a hard timer's function
   starts in between finds the thread still running and does not wake it
   (`timer.c:503`): the thread sleeps past it (`SoftTimersServed`). Nothing in
   this program starts a soft timer from an interrupt.
3. A request for an aligned area may be given an address inside another one
   (`mm_aspace.c:707`, `714`): if aligning moves the candidate past the start of
   the next area, the unsigned gap wraps and everything fits (`AreasApart`, with
   an alignment of two pages). The kernel space begins at 0x1000, which no larger
   alignment divides, and its first area is there.
4. `_kenrel_map_4K` looks for a table, allocates one and links it without the
   lock that `mm_aspace.h:117` calls "Lock to access page table of address
   space": of two callers who meet in a section one loses its mapping
   (`PhyIsMapped`, with two callers).

Known behaviour without a run of its own:
* after a DMA error `rx_done` never comes and `adc_translation` waits for ever
  (`CaptureReturns` therefore has the alternative `error = 1`);
* a spurious DMA interrupt makes `s2mm_handler` return without
  `rt_interrupt_leave` (`adc_dma.c:25`): the nesting counter stays raised and
  the DMA's interrupts stay off (`HandlerLeavesNoTrace` counts these);
* two packages of the screen in one round of `main()` end as one;
* a byte that comes after `sceen_handler` has seen the FIFO empty
  (`tjc_screen.c:27`) and before it clears RXOVR (line 32) stays in the FIFO unless
  the UART raises RXOVR again. As the last byte of a package it is missing when the
  timeout lets `main()` execute the command, which then has the datum of an older
  package; and the next package begins with it, has no header and is dropped. The
  one after that finds an empty buffer and FIFO, unless this happens again
  (`Resynchronises`, `AloneExecutedOnce`). No text of the repository says otherwise;
* when the step of the triangle grows near an end, the counter may run over it
  (`triangle.v:43`), which is why `NoJump` is about a step set once;
* for a triangle A with a sine B at three times its frequency `get_ab` reads
  `deltas[2]`, which was never stored (`amp_freq.c:171`), hence the condition in
  `IdentifiedUnlessHidden`;
* with scaling, a fixed-point transform that begins with radix 8 divides in the
  array it reads, the caller's input (`NE10_fft_int32.c:97`, `NE10_fft_int16.c`
  likewise), where the other first stages leave it alone;
* the header of the arithmetic forbids `dst` to be a source for `mulmat`,
  `mulcmatvec`, `cross` and `transmat`; for `invmat`, where it does not, the 2x2
  matrix in place would come out wrong. The asserts against overlap compare
  addresses in bytes with counts of elements (`factor.h:50`);
* the rotation's fast path takes the second channel's second product from the
  same pixel twice (`NE10_rotate.c:141`); for images narrower than four
  pixels its limits wrap, being unsigned; positions between -1 and 0 are cut to 0
  and leave a negative fraction (`Undetermined`). The box filter in vector code may
  be up to 2 below the mean;
* `rt_memheap_alloc` refuses a request equal to all that is available, and the
  look that decides it is outside the lock, so possibly stale;
* `rt_smem_realloc` that shrinks by less than a header and the least size moves
  the block, and fails if there is no room (`mem.c`);
* the AD7606 driver loses a word when TREADY is already high
  (`ad7606_axis.v:212-219`): TVALID is then never seen high;
* `_aspace_bst_search_exceed` compares distances as `ptrdiff_t`
  (`avl_adpt.c:121`): an area half of all addresses or more above counts as the
  nearest one, where `mm_private.h:56` promises the lowest;
* `_find_head_and_asc_search` returns its start if that lies within the last area,
  and in the first of its cases does not look at the end of its limits; the
  limits of all callers in the program are the whole space;
* the first entry of `platform_mem_desc` begins at 0, the null pointer, and is
  therefore registered at 0x1000; the lengths of the entries are not whole pages.
  They are mapped as sections, which `_kenrel_map_4K` and `_kenrel_unmap_4K`
  would take for page tables;
* loading a page twice leaves the first frame with the area, unreachable until it
  is unmapped; unmapping where there is no area goes through a null pointer
  (`mm_aspace.c:627`); `_do_prefetch` reports success if pages run out;
* nothing in this configuration calls `rt_page_init`: until it is called no
  table can be allocated and every mapping fails;
* a periodic timer made one-shot inside its own function stays marked as
  activated after it has stopped (the history `MUTED` of `RtTimer`).

## 5. Proofs

**ConfigBusCdcProofs** (for every bus). The inductive invariant adds two parts to
the checked ones: a toggle or bus that still moves has not been seen by the other
side (`MovingUnseen`), and the state under reset (`ResetState`). Both are needed:
from them follow the two facts the steps rest on, that a new snapshot is only
taken when the loop is idle (`LoadMeansIdle`) and that a request that arrived
stopped moving before (`ArrivedMeansStill`), hence nothing torn. Theorems:
`TypeCorrect`, `NoTearing`, `OneToggle`, `NothingSkipped`, `HoldStable` and
`MailboxRefinement`, whose step maps each edge to a mailbox action or a stutter.
The loss of lock breaks that invariant (after it a toggle may travel that nobody
sent), so `LockLossIsSafe` has one of its own (`LossInv`): while the DAC domain is
in reset nothing is asked of the loop, and when the reset ends the loop has been
flushed and is again one with at most one toggle in it. Assumption: `BusAssumption`.

**AdcCaptureProofs** (for every length of request, packet and FFT, with errors
and spurious interrupts). The invariant relates the completion bit, the local
copy of the handler, `rx_done` and `pc`, so that a completion has exactly one
owner; words up to `received` are fresh in memory, and after the second
invalidation cache lines are as memory. Theorems: `TypeCorrect`, `FlagIsOwn`,
`StartsOnPacket`, `NoTrace`, and `TransformIsFresh`, which needs the FFT to be no
longer than a packet: the condition that the build does not meet (finding 1).
Assumption: `CaptureAssumption`.

**ConverterProofs**, in three parts.
*The DAC words* (for every word and every bus): `WordsComeWithTheirForm`. Words
and select bit are separate stores and the bus is sampled between any two of
them, so the invariant `DacInv` says what a snapshot may hold at each store of a
call: `BusFits` of the bus as it stands, `SnapshotsFit` of the snapshots under
way and at the DAC.
*The converter* (for every interval and length of reset). `AxisInv` says when the
shared counter is 0 and the pins are high (`IdlePins`), that the clocks left until
BUSY fit in what is left of the wait (`Converting`), and that the bus has come to
the channel being read (`Reading`). Theorems: `LatestWord`, `WordStays`.
Assumption: `Ad7606Assumption`, where six is the longest delay for which it holds.
*The sample stream* (for chains of any depth and decimation, every packet
length). The channels take the samples of a pair at different edges, so their
chains need not agree; what always agrees is what they will be once each has taken
its pending sample (`Settled1`, `Settled2`). For the words from before a capture
the invariant `OldFirst` says that they are a prefix of what each channel will
hold, of the same length in both, and that with the old words already received they
are no more than a full chain and the pending sample (`ChainsBounded`). Theorems: `StaysInStep`, `OnePacket`, `FewOldWords` and
`WholeCaptures`, which is the checked `CapturesAreWhole` in full.

**ScreenWaveProofs**, in three parts.
*The screen* (for every package and every interleaving of line, FIFO, the steps of
the handler and main): `BufferResynchronises` and `ExecutedOnce`. `EndPending` says
that whatever is in the buffer will be dropped: that the line fell silent is still
to be noticed, or was and main still has to see it; and that without RXOVR no more
than one byte waits. `AloneInPlace` says where the package that came alone is:
spread over line, FIFO and buffer (`Arriving`), in the buffer, except for a last
byte left over (`Ended`), being copied out (`Reading`) or copied (`Read`).
Assumption: `ScreenAssumption`.
*The triangle* (for every width of the counter). `NeverJumps`, for steps up
to a quarter of the range (`QuarterSteps`). The invariant says that there is room
for the next step in the direction of `flag`. It survives the late turn because
the end is announced two steps ahead, and the two zones of announcement must not
meet, which is where the quarter comes from. Assumption: `TriangleAssumption`.
*The search for peaks* (for every spectrum, start and width). The invariant is the
three properties of the search together with `Stores`: stored peaks are bins
already passed and above the threshold. None of the three holds by itself: that
a peak may be moved to a taller bin keeps the peaks apart because bins rise; that
nothing is forgotten needs the peak that is replaced to be the tallest of its
width. Theorems: `PeaksStayApart`, `PeaksAreTallest`, `NothingLost`.
Assumption: `IdentifyAssumption`.

**RtThreadProofs** is the ground the other kernel proofs stand on. Its invariant
`Sound(z)` is a predicate of the scheduler's record: types, lists without
duplicates, and for each thread `Placed`: its state, its place in the ready and
suspend lists and its timer agree. Each service of the kernel is a function of
such records and has a lemma that it takes a sound record to a sound one and what
it leaves alone; between leaving one list and entering another a record is sound
but for one thread (`SoundBut`). `ipc_list_resume_all` and the walk of
`rt_event_send` are folds over a list, that is recursive functions on sets of
indices: that they exist, and that what every step preserves the whole preserves
(`Folded`), is proved by induction on the length through the well-foundedness of
`<` (`UpFromZero`), which needs no theorem with an operator parameter.

**RtKernelProofs**, in three parts.
*Threads and mutexes* (for every number of threads, mutexes and priorities, with
recursion, timeouts and every other object beside them). `AllInPlace` is the
checked `ThreadsInPlace` over the whole kernel, `MutexesExclude` is
`MutualExclusion`. `MutexInv` ties what the threads think to what the mutexes say:
`Claimed` (only who holds or was handed a mutex claims it), `Queued` (a thread
waits exactly where its `pending_object` says), `Owned` (an owner by its own
account, as often as `hold` says), `HandedOver` (an owner that was handed the
mutex and has not run since) and `AtTake` (who waits is in `rt_mutex_take`). The
chain of priority updates is a fold again, and it leaves all but priorities and
the order of the lists alone (`SameButPrio`), so it cannot disturb them. `KernelInv`
was checked by TLC before it was proved. Assumptions: `ThreadAssumption`,
`IpcAssumption`, `MutexAssumption`.
*Timers* (for every set of timers, range of the counter, initial tick and lag).
`TimersGoOffOnTime` and `SleepersAreWoken` are the checked `TimersOnTime` and
`SoftTimersServed`. A tick is compared with another through `After`, the signed
number of ticks between them; that it goes down by one with each tick and that
`Reached` is its sign (`AfterTick`, `AfterCompared`, `AfterOrder`) holds only while
times are short against half of the counter, so the invariant bounds them: no listed
time is more than `Longest` ahead or `2 * MaxLag` behind. `TimerInv` has five parts:
types, `Ordered` (the lists), `Active` (what is active is listed, is being called
and periodic, or is in `MUTED`), `HardOnTime`, and `ThreadServes`. The last is what
`SoftTimersServed` needs to be inductive: for each place of the timer thread, how
late a soft timer can be (`Late`: by `lag`, and by one sleep's lag more while the
thread works off its list) and how what it has read, `next`, stands to every soft
timer: no later at `delta`, no later but for `lag` at `delay`. Services are
functions of the record and have one lemma each (`Detaches`, `Restarts`, `Begins`);
the actions follow. `TimerInv` was checked by TLC before it was proved. Assumption:
`TimerAssumption`, and `~IsrStarts`, as hypothesis of the theorems: with it false
`SoftTimersServed` is violated (finding 2), and soft timers that nobody serves
fall behind without bound, so that their list can come to be out of order as well.
*Priority inheritance* (for every number of threads, mutexes and priorities, and
every chain of owners). `NoPriorityInversion` is the checked `PriorityInherited`.
The invariant, `BoostInv`, adds to `KernelInv` that every thread's priority is its
`Level`, its own or the best of the mutexes it has, and that every mutex is `InOrder`:
it has the priority of its first waiter, and its list is sorted. It is stated of
mutexes and not, as the property is, of waiters, because that is what
`thread_get_mutex_priority` reads; `BoostsInherit` goes from one to the other.
Within a step it is broken, but at one thread only: `Walk(k, p)` says that before each
turn of `_thread_update_priority`'s loop all others have their level, and the thread
reached does once it is raised to `p`. A turn either ends the walk (`WalkEnds`: the
thread reached waits for no mutex) or queues it anew and turns to the owner, where it
ends as well if the owner has its level already (`WalkGoesOn`). That it arrives is a
matter of counting: a thread once raised to `p` is not raised again, so `Below`, the
threads still behind `p`, loses one at each turn, and the model's fold has more turns
than there are threads. The
argument does not ask that nobody waits in a circle; with a deadlock among the
threads the walk goes around once and ends. It needs no induction over the graph
of waiting, only over that number. Releasing (`GiveUpBoosts`) lowers one thread, the
owner, who waits for nothing, so no walk follows.

**RtIpcProofs** (for every number of threads, permits, places, blocks and
messages, both queueing disciplines, with timeouts, resets and the rest of the
kernel beside it). `MessagesStayInOrder`, `NothingIsGivenTwice` and
`NoWakeupIsLost` are the checked `MessagesInOrder`, `NothingGivenTwice` and
`NoLostWakeup`. The first part looks at the threads of any object and sorts every
step into few kinds, each with its lemma: a thread goes on (`After`), starts to
wait (`Blocked`), the first of a list or everybody is awake (`Woke`, `Reset`), or
the object is not concerned (`Quiet`: ticks, timeouts, sleeping). Why no wake-up is
lost is then one statement about a list and a number: `Enough(op, l, n)`, if
somebody waits in `l`, at least `n` threads are awake for `op`. A service that adds
one to `n` also wakes one, and one that takes it was awake or saw an empty list.
`n` is the number of messages, of free places or blocks. A semaphore hands its
permit to the thread it wakes without counting it, so its invariant (`SemInv`) is
an equation instead: count, permits held and threads awake make the total. An
event set is walked while its flags may change; the walk is a fold, and that nobody
passed over is satisfied later holds as flags only go away on it (`Passed`).
The data have an invariant per object: offsets and contents of the ring (`MbInv`),
the free list and the holdings of the pool (`MpInv`), and for the queue `MqAt`: there
are two sequences Q and F of distinct blocks, linked along `next` from head and
from the free pointer, and the blocks in neither are each being copied by exactly
one thread, whose message is in it. That `Chain`, which follows the pointers by a
recursive function, finds F is `ChainIs`; that a sum over the threads moves with
one thread is `TotalMoves`; that the loop of a reset frees all that is queued is
`AllReleased`. `IpcInv` joins them and is inductive. Assumptions:
`ThreadAssumption`, `IpcAssumption` (finitely many blocks; `rt_mq_init` refuses a
queue with none, `ipc.c:2943`).

**HeapProofs** (for every number of pages, size of page and zone, set of chunk
classes and sequence of requests and releases, beside the rest of the kernel).
`HeapIsAccounted` is the checked `HeapAccounted`. That property counts, and counts
do not carry themselves through a step: that the numbers of pages add up says
nothing of whether the pages a block is freed to were the ones it had. The
invariant, `SlabInv`, is of the pages and chunks themselves. The free runs are in
order, apart and with a gap (`RunsOk`); the page table, the live large blocks and
the zones, in use or kept, are regions, and every page is in a free run or in
exactly one region (`Accounted`). In a zone every chunk is live, in the free list
or beyond the last used, never two of these, and `nfree` counts the ones that are
not live (`ZoneOk`). A class's list has exactly its zones with room (`ListOk`),
the marks of `memusage` lead from each page of a block or zone to its head
(`MarksOk`), and `used` is the sum over the live blocks.
Each operation is then one of few changes with a lemma each: pages leave a run or
come back to it, joining the runs on either side (`PageAlloc`, `PageFree`); a large
block appears or goes; a zone comes, is opened for a class, changes, is kept or is
given back (`ZoneComes`, `ZoneOpens`, `ZoneChanges`, `ZoneKept`, `ZoneGone`); a chunk
is given out or taken back. Allocation and release are compositions of these, and
`realloc` of both, the old block being live until the new one is made. A block is
found again by `PageOf`: the page where it begins has the mark that leads to its
zone.
At the end the counts of `HeapAccounted` are derived from sets that do not meet
(`SizesApart`: the size of a union is the sum of the sizes), for which a sum over a
finite set has to be taken apart in any order (`SumTakes`); `MapThenSumSet` takes
elements as CHOOSE does. `SlabInv` was checked by TLC before it was proved.
Assumption: `SlabAssumption`, in which a zone has at
least three chunks because `zone_limit` is a quarter of a zone (`slab.c:363`).

Only model-checked: everything under fairness (`RequestAcknowledged`,
`ImplementsFairMailbox`, `RecoversFromLockLoss`, `SettlesOnRequest`,
`CaptureReturns`, `CaptureCompletes`, `AloneIsExecuted`), which is out of reach of
the provers; the memory manager and the two small heaps (`AreasInOrder`,
`PagesAccounted`, `HeapsAccounted`), whose trees, tables and rings are recursive
over data; `TransformsAreExact`, `BlocksDoNotShow` and `LibraryIsExact`,
which are about sums and recursion over data; `IdentifiedUnlessHidden`, a
statement about the mixtures enumerated.

## 6. Not modelled, and why

* Of NE10: the vectorised variants of the transforms and filters in intrinsics and
  assembly, which compute what the plain C does; lengths with a prime factor of 7
  and more, for which `NE10_dsp.h:155` promises nothing and whose twiddles are
  ones; the arithmetic, physics and rotation in assembly.
* `my_func.c`, the regulation of the phase (`comp_phase`), the amplifiers' gains:
  floating point, which TLC cannot evaluate.
* `wave_gui.c`, `amplifier.c`, most of `my_func.c`: nothing that runs calls them.
  The phase and frequency meters (`mearsure_phase.v`, `freq_measure.v`,
  `chufa.v`): `build.tcl` does not instantiate them. DDS and multiplexer: an
  accumulator and a combinational selection; which words arrive with which form
  is `DacConfig`. Width conversions: no state.
* Of the kernel: strings and formatting (`kservice.c`), which are conversions
  without state; object registry and devices, lists walked by initialisation;
  `signal.c`, which this configuration does not compile;
  the processor port (registers, caches, assembly). Of the memory manager: entries
  for sections, narrower limits, the fault handler, mapping of single pages by
  hand, offloading, statistics. Of the objects: deleting or detaching
  one, which the program never does; of the mutexes a take that times out
  (`ipc.c:1302` reads the owner then, who may have gone), priority ceilings; of
  the threads creation, deletion and the second core, which is never started.
* What is sent to the screen: formatted text.
* Analogue behaviour, constraints, build scripts, static checks: no state. The
  hardware smoke tests were read for what they say of the capture.
