# TLA+ models of px68k

px68k emulates the Sharp X68000. This directory models the part of it that is
hard to test: the devices around the CPU, how they interrupt it, and the
execution loop that steps them. Everything is translated from the C source under
`src/`; the registers, functions and constants keep their names.

- [The system](#the-system)
- [The modules and the code](#the-modules-and-the-code)
- [What the runs show](#what-the-runs-show)
- [Fairness](#fairness)
- [What is proved](#what-is-proved)
- [Disagreements found](#disagreements-found)
- [Not modelled](#not-modelled)
- [Plan](#plan)

Check a model with `tlc -config MCMFP.cfg MCMFP`, a proof with `tlapm MFPProofs.tla`.

## The system

One thread runs the machine. `main` (`SDL/SDL2/winx68k.cpp`) handles the events of
the host and calls `WinX68k_Exec` once per frame. That function hands the CPU core
slices of at most 200 clocks; in a slice the guest program reads and writes device
registers, which calls the devices directly (`x68k/mem_wrap.c`). After every slice
and every scan line the loop steps the devices. A second thread, the audio
callback, takes samples out of a ring and refills it when it runs short.

```
   host events --> keyboard, mouse, disks, reset
                        |
   WinX68k_Exec --------+---> devices: MFP (timers, keyboard), DMAC, SCC, FDC,
      | slice                    |     SASI, MIDI, RTC, ADPCM, OPM, Mercury
      v                          v IRQH_Int(level, handler)
   CPU core <---- line ---- IRQH_IRQ[8], IRQH_CallBack[8]
      | accepts                  ^
      +--- my_irqh_callback -----+ handler: IRQH_IRQCallBack, vector
```

| component | state | operations | what makes it correct |
|---|---|---|---|
| interrupt controller, `x68k/irqh.c` | raised levels, one handler per level, the CPU's line | raise, withdraw, accept, reset | the line is the highest raised level; a level offered to the CPU has a handler of a device wired to it |
| MFP, `x68k/mfp.c` | enable, pending, mask and in-service bits of 16 channels | request, register writes, acceptance | level 6 is raised exactly while there is a request to serve |
| MFP timers | control, counter, reload value, prescaler | register writes, `MFP_Timer` per slice, `MFP_TimerA` per line | no clock and no event lost or counted twice |
| DMA controller, `x68k/dmac.c` | four channels, the set of waiting interrupts | register writes, `DMA_Exec` per slice, acceptance | a channel ends with a report and an interrupt, and none is lost on the shared level 3 |
| execution loop, `winx68k.cpp` | clocks left, clocks of the frame, line, counters | frame, slice, line | the clocks are conserved, lines are on time, each frame has its interrupts and ends |
| CRTC, `x68k/crtc.c` | registers, operation port, fast clear, raster copy | register writes, end of a frame | a requested clear is done with its mask; a source written on its own copies nothing |
| keyboard, `SDL/keyboard.c` | ring, receive register, shift state | host keys, delivery, guest reads, reset, menu | a FIFO queue, unannounced only when the guest has its channel off; the shift state of guest and host agree |
| IOC, `x68k/ioc.c` | enable bits, one level for three devices | the guest's writes | one of the devices that asked is answered |
| floppy controller and drives, `x68k/fdc.c`, `x68k/fdd.c` | phases of a command, one data port, disks and their delays | port accesses, disks inserted and removed, frame ends | the phases agree; a normal result means a whole transfer; disk changes are announced; phases end |
| SASI, `x68k/sasi.c` | phase, counts, status and error | port accesses, the host's files | a block behind the end of the image is told, the status interrupts; a command ends |
| SCC and mouse, `x68k/scc.c`, `SDL/mouse.c` | packet, registers, accumulated motion | port accesses, host motion | whole packets; no motion lost or told twice |
| PCM output, `SDL/SDL2/dswin.c` | ring of samples, two pointers | per line, audio callback | reader and writer do not pass each other; every word is heard once, in order |
| ADPCM, Mercury | buffers of samples | per line, audio callback | requests to the DMA controller from two threads |
| MIDI, RTC, OPM timers | counters, delay queue | per line and slice | their interrupts are delivered |
| video memory, palette, drawing | pixels | | functions of memory |
| SCSI, PPI, system port, SRAM | storage | | |
| CPU cores, sound chips | vendored | | |

`PROJECT.json` lists all of them with their files and status, and under `hazards`
the places where this code can go wrong in ways a test hardly reaches. The
behaviours behind most of them:

- *interleaving*: guest writes fall between a request and its acceptance, several
  sources share a level and a handler, the audio thread runs beside the loop;
- *ordering and staleness*: register writes in the middle of a frame, a mask latched
  before it is used, line times computed from a register that changes;
- *partial failure*: bus errors inside a DMA transfer, sectors that do not exist, a disk
  taken out between two sectors of one command;
- *limits*: a full key ring, an 8-bit counter at 0, a division that leaves a rest;
- *liveness*: a byte nobody announces, a chain that has no end.

## The modules and the code

| module | models | state and actions |
|---|---|---|
| `IRQH` | `irqh.c` | operators on a record `[IRQ, CallBack, line]`, one per function; `line` is `IRQLine` of the c68k core; `AcceptLine` and `Accepts` are its `CHECK_INT`, with `CoreClearsLine` telling c68k from Musashi |
| `Arbiter` | the controller with arbitrary devices and guest | `Raise`, `Withdraw`, `Acknowledge`, `SetMask`, `Reset`; it is the abstract specification the device modules implement |
| `MFP` | interrupt logic of `mfp.c` | a register pair is a set of channels; an action per register write, `MFP_Int`, `MFPAccept` for `MFP_IntCallback`; the devices of other levels are `OtherRaise`, `OtherAccept` |
| `Timer` | `MFP_Timer`, `MFP_TimerA`, writes of TACR and TADR | one timer; the loop of `MFP_Timer` is `MFP_Timer`, `Count`, `Return` |
| `DMAC` | `dmac.c` | a record per channel; an action per register write, `Poll`, `Transfer`, `BusError`, `Return` for `DMA_Exec` operand by operand, `Continue...` for the part of a CCR write that follows a `DMA_Exec`, `DMAAccept` for `DMA_Int` |
| `FrameLoop` | `WinX68k_Exec` | a turn of the loop is `Head`, a slice (`QuietSlice`, `WritingSlice`) and a tail (`SameLine`, `EndLine`) |
| `CRTC` | operation port and R22 of `crtc.c`, the end of `WinX68k_Exec` | the two halves of the port are the fast clear (`WriteClear`, `WriteR20`, `WriteR21`, `EndFrame`) and the raster copy (`RasterCopy`, `WriteR22`) |
| `Keyboard` | `keyboard.c`, reads of UDR in `mfp.c` | `Keyboard_KeyDown`, `Keyboard_KeyUp`, `Keyboard_Int`, `ReadUDR`, `WriteIERA`, `WriteIPRA`, `Accept`, `Keyboard_Init` (the menu), `KeyReset`; `Sent` is what one host key puts into the ring |
| `KeyQueue` | the abstract specification of `Keyboard` | a FIFO queue of bounded length and a register |
| `IOC` | enable bits of `ioc.c` | the state of the level and its enable bits; `Ask`, with which `FDC` and `SASI` raise level 1, `Answer`, `IOC_Write`, `IOC_Reset` |
| `FDC` | `fdc.c`, `fdd.c` | an action per access of the data port in each phase; `ExecCmd`, `NextTrack`, `EPhaseEnd`, `WriteBuffer` are operators of the same names on the state a command works on; the user's `Insert` and `Eject`, `EndFrame` for `FDD_SetFDInt` |
| `SASI` | `sasi.c` | an action per access in each phase; `SASI_CheckCmd`, `BlockDone`, `Access` for the interrupt at the end of `SASI_Read` and `SASI_Write`; `SeekResult` and `Extended` are what `SASI_Seek` and `SASI_Flush` find in and do to the files; `FloppyAsks` stands for the other devices of the level, `HostFiles` for the host; what `fdc.c` and `sasi.c` name alike has the prefix `HDC` here |
| `SCC` | `scc.c`, `mouse.c` | `WriteA`, `WriteB`, `ReadStatus`, `ReadData`, `SCC_IntCheck`, `Acknowledge`; `Mouse_Event`, `Mouse_StartCapture` |
| `PCM` | the ring of `SDL2/dswin.c` | `DSound_Send0` and `sdlaudio_callback`, each one step under the device's lock; `sound_send` is an operator both use |

`MFP`, `DMAC`, `SCC` and, through `IOC`, `FDC` and `SASI` extend `IRQH`, so that they are composed with the very operators
`Arbiter` uses: there is no separate model of the interrupt line to get wrong. A
reset (`WinX68k_Reset`) is an action of every module and resets what the code
resets: `CRTC_Mode`, `Timer_Reload`, the handler slots and `shiftdown` stay.

The acceptance of an interrupt is one step: the core calls `my_irqh_callback` in
the middle of its own step, and nothing else of the emulator's thread runs in
between. `DMA_Exec`, on the other hand, is taken apart, because what the guest finds
in memory and which operand fails decides where it stops.

A definition introduced as a faulty variant is a plausible mistake in the code that
precedes the definition it would replace. Every property of every passing run is
violated when one of them takes that place (`mutants` in `PROJECT.json`).

### Abstractions

- The CPU is a number of clocks per slice and arbitrary register writes. A slice
  takes exactly the clocks it is given: `m68000_ICountBk` is never set to anything
  but 0.
- A guest writes to a DMA channel what the protocol of the chip allows (`GuestMay`):
  no new count or address for a channel that is active. The set of CCR values covers
  all combinations of its bits.
- Memory is a table of chain entries (`Table`); the data moved is left out. A bus
  error is one of the values `BusErrFlag` can have. After a fault of both sides of an
  operand (5 or 7, for which `DMA_Exec` has no case) the channel may only fault again
  until it is stopped (`retry`): the address that made the fault is odd and stays odd.
- Register values the machine cannot run with are left out: R04 = 0, with which
  `WinX68k_Exec` divides by zero.
- A disk (`Disk`) is, for each side, its sectors and whether each is good or bad; a
  sector named but not there is missing. The bytes of a sector and of a block are only
  counted, cylinders are alike, and the comparison of a scan goes either way.
- Guests of the floppy and hard disk controllers move data in the direction of the
  command, ask for sectors of at least one byte, and select a hard disk when the bus is
  free. A command for sectors of no bytes has neither an execution phase nor an
  interrupt, and a write then leaves `wexec` set.
- A hard disk image has a length (`size`) that a write behind its end extends, as
  `SASI_Flush` does. A block may fail to be written at any time (a read-only file, a full
  disk), and the file may go away and come back between any two bytes: the code opens it
  anew for every block.
- `todo`, `quota`, `results`, `told`, `owed`, `missed`, `lost`, `due`, `got`, `ahead` and the numbers of the
  words in `PCM` are history variables: they record what was asked for or produced, and
  no guard reads them but the bound of `DSound_Send0` (`ahead`).
- The emulation is less than one ring ahead of the audio device. The pace of the main
  loop gives that; the no-wait mode, in which the code's writer overtakes its reader, is
  left out.
- The shift state the guest sees (`guestShift`) is that of a guest which follows the
  codes. The guest enables and disables its receive channel and clears the request when
  it likes; `missed` records that the event in the register came while the channel was
  off or had its request withdrawn.

## What the runs show

| run | question | bounds |
|---|---|---|
| `arbiter` | can a raised level be hidden or a level be offered without a handler? is the interrupt switch always answered? | four levels: one shared by two devices, one plain, one with several sources, and level 7; all masks |
| `mfp` | does level 6 follow the requests, and does the MFP keep the controller's rules? | channels 15, 12 and 3, of both halves, enabled and disabled after a reset; one other device |
| `dmac` | does a channel hang, stop silently or run for ever? | one channel, blocks and chains of up to two, a table with a cycle-free chain and an entry that faults, flags 1, 4 and 7, four modes |
| `dmac_pair` | is an interrupt lost when two channels end together? | two channels, single operands, both started with CNT at maximum rate, so that each passes through the continuation after its end |
| `frameloop` | clocks, line times, interrupts, end of a frame | frames of 13 and 16 clocks, slices of 2 clocks, 3 or 6 lines: divisions with a rest, lines of about one slice and of several; display ends within, at and beyond the last line; a reset between frames |
| `timer` | are clocks or events lost? does a timer fire? | a register of two bits, prescalers of 1 and 3, slices of up to 5 clocks, a few periods |
| `crtc` | is a clear that is asked for done, with its mask? does the raster copy copy only what it should? | three masks, two rasters (0, which the test for a change treats alone, and another), port writes at any moment, both resolutions |
| `keyboard` | is the ring a FIFO queue, is every byte announced, do the shift states agree, does every key reach the guest? | a ring of four slots, a shift key and two keys, one remapped in either state |
| `fdc` | do the phases of the one port agree, does a normal result mean a whole transfer, is every disk change told, does every phase end? | one drive; two good sectors on side 0, a good and a bad one on side 1; transfers of two sectors, of one on each side, over the bad or the missing one, and with a last sector before the first; sectors of one and two bytes |
| `sasi` | is a block behind the end told, does every status interrupt, is one of the devices of level 1 answered, does a command end? | an image for one of the two units, of one block of two bytes, which writes lengthen; commands from block 0 or 1 for 0 to 2 blocks, counts modulo 3, so that an image grows to four blocks; the floppy controller and the drives on the same level |
| `scc` | are packets whole, is motion lost or told twice? | bytes that select each register that matters and set and clear its bits, at both ports; steps of two fractions, packets that tell -2 to 1 steps |
| `pcm` | do the pointers count the words, is each heard once and in order? | a ring of 16 words, requests of 2 to 8 words, none to two samples a line |

The bounds are small because the code is uniform beyond them. The controller treats
levels alike except 7 and 0; the MFP looks at channels through set operations and
their order, and two channels with a request, one of higher priority, are enough for
every branch, the third is for one that is disabled; a DMA channel looks one entry of
its chain ahead; the timer's arithmetic is the same for 2 bits and 8, which its
theorems confirm for any width; a ring of four slots is smaller than the three events
of a remapped key and the one in the register, so that it overflows in the middle of
a sequence. The floppy controller looks at one sector at a time, and two sectors on a
side and two sides are every way of going from one to the next; with sector numbers
modulo 4 a last sector before the first is reached around the end. A count of 0 blocks is
one more than the image has at first, and commands run inside the image, over its end,
and behind it, also after it has grown. The request of half the ring and
the smallest one meet every branch of the callback. Bounds on history variables
(`MaxAge`, `MaxFired`, `MaxElapsed`) only limit how far the accounts are kept, and
`MaxMotion` how much motion waits. Deadlock is checked in all runs.

Properties that would be easy to take for granted, and why they are there:

- `LineIsHighest`: `IRQH_IRQCallBack` drops the line to 0 and must find the highest
  level left; three places in the code repeat this scan.
- `LevelMirrorsRequests`: eight kinds of register writes, requests and acceptances
  each recompute level 6; a forgotten one shows only if a second request is waiting.
- `NoSilentStop` and `ActiveHasWork`: the end of a block is spread over three modes,
  an end of the chain, errors in either table and a continuation.
- `LinesOnTime` and `ClocksAreShared`: the line ends are computed by a division that
  leaves a rest, the frame's clocks may change from one frame to the next, and the
  number of lines in the middle of one.
- `DelayIsExact`, `EventsAreExact`: 0 in the data register stands for 256.
- `GuestShiftAgrees`: a remapped key is sent as three events around which the shift
  state must come out even, also if the ring is drained in between.
- `CompleteOnSuccess`: each sector of a transfer is looked up anew, and the disk may be
  exchanged between two of them; `FDC_NextTrack` must neither skip nor repeat one.
- `ReadinessAnnounced`: a disk becomes ready three frames after it is put in, while
  another eject or insertion may meet the countdown.
- `StatusTells`: the data phase runs whether the first block is there or not, the image
  grows under a write and comes and goes, and the error survives until the status byte.
- `Announced` and `KeysMove`: `Keyboard_Int` waits for the register to be read, and what
  makes the guest read it is a request that an enable bit lets through or not.
- `OneIsAnswered`: three devices write one slot; which of them is served is the last
  one's luck, but it is one that asked.
- `PacketsWhole`, `MotionConserved`: requests and reads of a packet interleave in any
  order, and the capture of the mouse begins and ends between them.
- `InOrder`, `PointersCount`: bytes, words and samples are mixed in one callback with
  four cases, and what lacks is generated inside of it.

Quirks of the code the properties allow for:

- With a reload value of 0 timer A in event count mode finds its counter at 0 on every
  line and fires whether or not it has an event (`EventsAreExact` excludes it).
- A port write that does not ask for a clear, but comes while one is asked for, latches
  the mask again (`MaskOfTheRequest` excludes it by `relatched`).
- `LinesOnTime` asks for lines at least as long as a slice: the loop ends at most one
  line per slice.
- While the raster copy is switched on, a word written to R22 that is what the register
  holds copies nothing, nor does a byte that equals the register with a zero other half:
  `CRTC_Write16` returns early (`crtc.c:264`). The model does the same.
- A write whose sector is not found leaves its execution phase open (`Waiting`).
- The write of a block that fails is told as good, and a file that is away when a later
  block of a read or write is looked up is not noticed: that block is moved, in a read as
  zeros, and may lie behind the end of the file once it is back. `StatusTells` is about
  the first look-up and about blocks found to be behind the end; that a good status means
  every block was read or written is not true of this code and not claimed.
- A keyboard event delivered while the channel is disabled, or whose request the guest
  clears, is never announced. A guest that enables the channel over it and waits for the
  interrupt waits for ever, and `Keyboard_Int` with it: enabling and reading the register
  in either order does not help, since the event may come in between. `Announced` and
  `KeysMove` except this (`missed`); without the exception TLC refutes them.
- A DMA operand that faults on both sides is tried again at every poll, and the channel is
  active until the guest aborts it: `BlockEnds` excepts `retry`.
- A guest that enables an interrupt of level 1 after the request is told nothing:
  `ReadinessAnnounced` and `StatusAnnounced` are about bits that are set at that moment.
- The shift key stays down for the guest when an overflow, a reset or a click into the
  menu takes its release: `GuestShiftAgrees` excepts rings that have lost something
  (`lost`).
- A count of 0 hard disk blocks stands for 2^32 of them; the properties hold for any
  modulus. Port B of the SCC takes a zero command byte for the selection of register 0,
  port A does not; no comment says which is right, and the properties hold for both.

## Fairness

- `Arbiter`: the core looks at its line at every slice and whenever the mask falls,
  so an acceptable line is answered (weak fairness of `Acknowledge`).
- `DMAC`: the loop polls channels 0 to 2 after every slice and the ADPCM polls
  channel 3 (strong fairness of `Poll`, since the guest can stop and start a channel
  between polls); with a device that is ready again and again an operand is tried, which
  moves or faults (strong fairness of `Operand`); `DMA_Exec` returns. That an operand
  succeeds some time is not assumed.
- `FrameLoop`, `Timer`, `CRTC`: the thread goes on (weak fairness of the steps of
  a loop, of `EndFrame`); slices follow each other, and a timer the guest leaves in delay mode gets
  some with clocks in them (strong fairness of `MFP_Timer` with a clock).
- `Keyboard`: `Keyboard_Int` is called three times a frame; the guest accepts its
  interrupts and reads the register in its handler, or polls it while the channel is
  disabled (strong fairness of `ServeOrPoll`, as it may switch the channel on and off
  meanwhile). Without a guest that reads, no key moves: that is the device's protocol.
- `FDC`: the DMA controller or the guest moves a byte whenever the controller waits for
  one. `[]<>(~Waiting) \/ []<><<MoveData>>_vars` is the weak fairness of `MoveData` in the
  states of `Waiting`, in all of which it is possible; it is written out so that nothing
  is asked in the execution phase that a failed write leaves open.
- `SASI`: a guest that has selected a disk carries the command through (weak fairness of
  `Proceed`): its driver waits for each phase.
- `SCC` and `PCM` have safety properties only: a guest may leave a packet unread and the
  host stop its audio device for ever.

## What is proved

TLAPS checks the following for every value of the constants that satisfies the named
assumptions of the modules (`LevelAssumption`, `HandlerAssumption`, `CoreAssumption`,
`WiringAssumption`, `MFPAssumption`, `DMACAssumption`, `FrameLoopAssumption`,
`TimerAssumption`, `CRTCAssumption`, `IOCAssumption`, `FDCAssumption`, `SASIAssumption`,
`SCCAssumption`, `KeyboardAssumption`, `NoKeyAssumption`, `PCMAssumption`), which only say
what kind of value a constant is. TLC evaluates all of them in the runs. Every invariant
of the runs, and every property of a step, is a theorem.

| module | theorems |
|---|---|
| `IRQHProofs` | lemmas on the controller's operators: each returns a controller, drives the line to the highest level, keeps handlers of raised levels |
| `ArbiterProofs` | `TypeCorrect`, `LineCorrect`, `HandlerCorrect` |
| `MFPProofs` | `TypeCorrect`, `MirrorCorrect`, `PendingCorrect`, `Refinement` |
| `DMACProofs` | `MirrorCorrect`, `Refinement`, `TypeCorrect`, `StopsAreTold`, `ActiveChannelsWork` |
| `TimerProofs` | `TypeCorrect`, `ClocksAreCounted`, `EventsAreCounted`, `CountingIsComplete` |
| `FrameProofs` | of the loop: `TypeCorrect`, `ClocksAreConserved`, `LeftoverIsBounded`, `LinesKeepTime`, `InterruptsAreComplete`; of the CRTC's port: `CRTCTypeCorrect`, `ClearsAreAsked`, `ClearsUseTheirMask`, `SourcesWait` |
| `Level1Proofs` | of the floppy controller and drives: `TypeCorrect`, `PhasesAlwaysAgree`, `SuccessIsComplete`, `ReadinessIsAnnounced`, `FDCLevelIsSound`; of the hard disks: `HDCTypeCorrect`, `StatusIsTrue`, `OneAnswer`, `StatusIsAnnounced`, `HDCLevelIsSound` |
| `HostProofs` | of the mouse: `PacketsAreWhole`, `MotionIsConserved`, `TypeCorrect`; of the keyboard: `KeyTypeCorrect`, `EveryKeyIsAnnounced`, `ShiftStatesAgree`, `KeyboardIsAQueue`; of the sound ring: `PointersCountAlways`, `PCMTypeCorrect`, `WordsAreInOrder` |

The arguments:

- *Controller.* The invariant adds to `LineIsHighest` and the types that every raised
  level has a handler wired to it, not only the offered one: an acceptance uncovers
  the next level, whose handler must have been right all along.
- *MFP and DMAC.* `LevelMirrorsRequests` and `LevelMirrorsChannels` need the
  controller's invariant, since the acceptance goes by the line and not by the level.
  The refinement maps every request to `Raise` or a stutter, every register write that
  rechecks to `Withdraw`, the acceptance to `Acknowledge`, and leaves the rest as
  stutters; `IRQH` is shared, so the mapping is the identity on `irqh` and `mask`.
- *DMA channels.* What one channel may be is `Typed`: its registers have their types and
  an active array chain has a count. `Ends` says what each way of ending an operand may
  do to a channel, and is shown for every case of the code (`ErrorEnds`, `CompleteEnds`,
  `ChainEnds`, `LinkEnds`, `SingleEnds`); each step of `DMA_Exec` and each register write
  is then one of these. `StopsAreTold` holds for every guest; `ActiveChannelsWork` needs
  `Busy`, an active channel's having operands left, which a start with CNT at maximum rate
  can break (see below), and so assumes `StartWithCNT = FALSE`.
- *Execution loop.* `ClocksAreShared` is inductive with the types. The others need
  what the counters mean in each phase: that `clk_next` is the end of the current line,
  that `clk_count` has reached the end of the former one, and which interrupts have
  been requested so far in a frame with steady registers. Rounding is one lemma: the
  ends `(clk_total * (v + 1)) \div VLINE_TOTAL` grow with `v` and the last one is
  `clk_total`.
- *Timer.* The accounts of both modes are inductive together with `NoCountLeft`, that
  the loop runs in delay mode only, and that a counter of 0 is one that was loaded
  with 0. The arithmetic is one lemma: a count, whether it fires or not, raises
  `fired * Period(Reload) + first - Period(DR)` by 1.
- *CRTC.* A clear that runs has its bit set and is in its first frame with two to go, or
  in its last (`ClearRuns`); the latched mask is the requested one until the guest writes the
  port again (`LatchIsAsked`); while the copy is switched on, a destination has been
  copied as soon as it was written (`DestinationIsCopied`). The last two are what the
  action properties need to know of the state a step starts in.
- *Level 1.* The controller is `Sound` under all sharers (`LevelIsSound`), which is shown
  once for the operators of `IOC` and used for both controllers.
  *Floppy controller:* `PhasesFit` says for each phase of the port how the three pointers
  add up to the length of the command, the sector or the result, and that a read or write
  in its execution phase owes exactly the sectors its parameters still name (`Owes`).
  `Owes` is `todo = Asked(prm)` with the exceptions the code makes: a command that begins
  behind its last sector, and a write to a sector 0, which cannot succeed. `FDC_NextTrack`
  keeps it, on the same side, on the other one and at the end; the operators a command is made of
  (`Execute`, `Fail`, `EndIfAbnormal`, `EPhaseEnd`) each have a lemma on what they
  change of the state they are given (`Steady`, `Same`). That `todo` is empty when the
  result is normal follows. For `ReadinessAnnounced` the same lemmas are read as what a
  step may do to the set of raised levels.
  *Hard disks:* `PhaseFitsCommand` ties a phase to its command and its counts;
  `TransferTells` adds to `StatusTells` that a transfer which moves data without an error
  on record has not been told of a missing block, and that one which has come to its status
  has moved all: within a transfer `SASI_Error` is
  only ever set, by a look-up, and what clears it (the sense command and a reset of the bus)
  leaves or abandons the transfer; nothing but the count or a look-up ends the data phase.
- *SCC.* The two properties are inductive with the types; the controller's invariant is
  carried along by the lemmas of `IRQHProofs`.
- *Keyboard.* `Announced` is inductive as it stands, with the types: each of the ways a
  request goes away, an acceptance, the two registers and a reset, leads to the handler, an
  empty register or `missed`. The ring is read as the sequence `Content` from a reader's to a writer's
  pointer; writing a slot appends to it and advancing the reader takes its tail, for every
  size of the ring and every position of the pointers. A key's one or three events are put one by one, and a
  queue that drops what does not fit keeps the same as one that is cut off afterwards
  (`PutFits`, `PutAll`); hence each step is one of `KeyQueue`. The shift state a sequence
  tells is that of its last shift event, which exists because sequences are finite
  (`Greatest`); `ToldAppend` and `ToldFirst` say what an event at either end changes. The
  invariant (`ShiftIsTold`) says that the events in the ring lead from the shift state of the
  register's event to that of the host, and that an event that has been read has been told:
  the guest may read the register again.
- *PCM.* `PointersCount` needs that both pointers are even, since a request is halved twice
  and what is generated would otherwise fall one word short, and the ranges of the
  pointers, of which the reader's may be the end of the ring. For `InOrder` the invariant adds
  `InPlace`: the words produced and not heard lie in order from the reader's pointer on.
  What is generated, by a line or in a callback, comes behind them and over none of
  them (`SendInPlace`), and what a callback takes, in one piece or in two, is a prefix of
  them (`OnePiece`, `TwoPieces`, both by `TakeInOrder`).

Each of these invariants was checked by TLC on the instance of its run before it was proved.

Left to TLC: everything under fairness (`NMIAnswered`, `BlockEnds`, `FramesEnd`,
`DelayFires`, `AskedIsDone`, `KeysMove`, `CommandsEnd`, `HDCCommandsEnd`), which is outside
of the prover's reach.

## Disagreements found

Places where the code does not do what its comments or its neighbours suggest. The models
follow the code.

- "A CNT bit while the channel is not active is a timing error" (`dmac.c:205`). The code
  tests STR, which stays set after the end. A start with CNT at maximum rate can complete
  both blocks inside `DMA_Exec` and then be taken for a continuation of a channel that has
  ended; it is active again with a count of 0, and `ActiveHasWork` fails. The constant
  `StartWithCNT` lets guests do so.
- `DMAERR` (`dmac.c:24`) is several statements without a block, used between `if` and
  `else` (`dmac.c:287`). A bus error on a read with interrupts enabled and memory as the
  source stops the channel with error code 0 (`EitherDMAERR`).
- "Called four times in a frame" (`keyboard.c:326`). The counter starts at 0 in every
  frame and must exceed a quarter of the lines (`winx68k.cpp:543`): three times.
- A write to a sector that is not found interrupts without ending the execution phase
  (`fdc.c:371`): no result can be read, and the guest's next command byte is taken for data.
- A scan that fails ends the phase, delivers its interrupt, and goes on with the next sector
  (`fdc.c:394`): the `break` leaves the inner loop only.
- "Writing of the specified blocks complete", "reading ... complete" (`sasi.c:390`,
  `sasi.c:183`). The result of `SASI_Flush` is overwritten (`sasi.c:376`), so a block that
  cannot be written is not noticed, nor is a file that is away at a later block; such
  a transfer has a good status.
- A selection with the data 0 looks at an entry of the image table
  that does not exist (`sasi.c:414`, `sasi.c:426`), and the model leaves its answer open.
- `RTC_Write` stores the reset register through a mask that clears the reset bits it tests
  afterwards (`rtc.c:134`, `rtc.c:162`); the RTC is not modelled.
- The interrupts of MIDI share one vector (`midi.c:159`); not modelled.

## Not modelled

- The CPU cores, fmgen, ymfm and the RFM driver are vendored; the models use what the
  rest of the code sees of them. They and the tables (characters, fonts) are most of the
  lines of the repository.
- Pixels, palettes, drawing, samples and the arithmetic on them: functions without
  control of their own.
- The three formats of disk images, of which the floppy controller sees the outcome of a
  look-up.
- ADPCM and Mercury: their requests to DMA channels come from the audio thread too, a
  data race with the emulator's own steps of the DMA controller.
- MIDI and the RTC: see the plan.
- SCSI (a substitute of the IOCS that transfers at once), PPI, system port and SRAM
  (storage), the menu, the configuration, file access and character tables.
- The SDL3 front end: the same loop; the models follow the SDL2 one.
- Divisions by zero on register values of 0 (R00, R04), which end the emulator.

## Plan

The order is that of what can go wrong most.

1. Done: interrupt controller, MFP, DMA controller, execution loop, timers, CRTC operation
   port, keyboard, IOC with the floppy controller and SASI, SCC and mouse, PCM ring; and
   the theorems above.
2. Done: a theorem for every invariant the runs check, the keyboard's refinement, and the
   properties of the steps of the CRTC's port, of the level 1 devices and of the sound ring.
   Left: the level 1 devices as implementations of the `Arbiter`.
3. `MIDI`: timers, shared vector, delay queue. `RTC`: its two counters and MFP channel 15.
4. ADPCM and DMA channel 3 from the two threads, on top of `PCM` and `DMAC`.
5. Compositions: `FrameLoop` with `Timer` and `MFP`, for the events of timer A that come
   from the lines; `DMAC` as the mover of the floppy controller's bytes.
