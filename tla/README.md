# Verification of libgbemu

TLA+ models of libgbemu, a Game Boy and Game Boy Color emulator core in C++23,
with the TLC runs that check them and TLAPS proofs of what matters most. The
modules describe the emulator as its source has it; they are no model of the
hardware. Where the source's own docs, comments or tests say something that the
source does not do, a run shows it (see *Findings*).

Everything is checked with TLC (`tlc -config X.cfg M`) and `tlapm M.tla`; the
runs, the code lines behind each definition, the mutants of each property, the
hazards and the theorems are listed in `PROJECT.json`.

## 1. The system

libgbemu is a library without threads. A front end owns a `GameBoy`, gives it a
ROM and calls `runNextFrame()`, which calls `Cpu::runNextInstruction()` until
70224 base-clock T-cycles have gone by. There is no scheduler: the CPU drives
everything. Before each bus access of an instruction it calls
`Cpu::advanceHardware()`, which brings the rest of the machine up to the
T-cycle of the access, one T-cycle at a time:

    runNextInstruction()  -> handleInterrupts(), handler of the opcode
      handler             -> advanceHardware(T-cycles so far, lead of the timer)
        advanceHardware() -> each T-cycle:  Mmu::runNextTCycle()
                               (mapper clock, divider, OAM DMA, VRAM DMA, serial)
                             each base-clock T-cycle (every second one in double
                               speed):  Ppu::runNextTCycle(), Apu::runNextTCycle()
                             at the end:  Mmu::runTimerTo()
      handler             -> Mmu::readByte() / writeByte()

So although one thread runs it, an instruction is not atomic: up to three
accesses of a handler are interleaved with the T-cycles of six pieces of
hardware, which talk to the CPU and to each other through registers in `Mmu`
(IF, STAT, LY, FF55), a few calls (`updateStatMode()`, `notifyHBlankStart()`,
`isCgbHdmaActive()`) and memory.

| component | state | operations | what makes it hard | what makes it correct |
|---|---|---|---|---|
| CPU synchronisation (`cpu.cpp`) | `m_mcycles`, `m_syncedTCycles`, `m_doubleSpeedPhase` | `advanceHardware`, every handler's timing, STOP | accesses in the middle of an instruction, the timer run ahead of the divider, speed switches | nothing is run past the point of an access, or twice; base clock keeps its phase |
| Interrupts (`cpu.cpp`) | IF, IE, `m_ime`, `m_imeEnableDelay`, `m_halted`, `m_haltBugPending` | `handleInterrupts`, `halt`, `di`, `ei`, `reti` | EI's delay against dispatch, DI, HALT and other EIs | masked handlers, one-instruction delay, wake-up, priority |
| Instruction semantics (`cpu.cpp`) | registers, flags, memory | 512 opcodes | flags that later instructions rely on, DAA | multi-byte and decimal arithmetic come out right |
| Timer (`mmu.cpp`) | two dividers, TIMA, TMA, TAC, reload countdown | `runTimerTo`, stores to FF04-FF07 | stores in the window between overflow and reload | no tick seen that the reload overwrites, interrupt keeps coming |
| VRAM DMA (`mmu.cpp`) | `CgbDmaState` | stores to FF51-FF55, `runNextTCycle`, `notifyHBlankStart` | three actors: CPU that starts and polls, PPU that grants blocks, MMU that moves bytes | one whole block per grant, within VRAM, CPU resumes |
| OAM DMA (`mmu.cpp`) | `m_dmaState` | store to FF46, `runNextTCycle` | started anew in its middle; the source is read live | OAM ends as one page, and it ends |
| Serial port (`mmu.cpp`) | SB, SC, `m_serialTCyclesRemaining` | stores, `runNextTCycle` | stores to SC during a transfer | what was started ends and clears its start bit |
| PPU timing (`ppu.cpp`) | mode, dot, scanline, LCD flags, STAT, LYC | `runNextTCycle`, `incrementDot` | LCD toggled at any cycle, STAT lagging the mode, short first line, LY=LYC compared at line starts only | one H-Blank per line, VBlank after whole frames, one LY=LYC interrupt a frame |
| PPU renderer (`ppu.cpp`) | two FIFOs, fetcher, window and object state | `handlePixelTransfer`, `Fetcher::runNextTCycle`, `handleOAMSearch` | FIFO assertions, object fetch during background fetch, window in mid-line | 160 pixels a line, each the right one, no assertion fails, bounded length |
| APU (`apu.cpp`) | four channels, frame sequencer, wave RAM | `runNextTCycle`, `writeRegister`, `readWaveRam` | register stores at the edges of the sequencer; CPU and channel on one RAM | channels stop when their length is over, sweeps before they overflow, the CPU gets the byte that is fetched |
| Mappers (`mappers/*.cpp`) | bank registers, RAM, clock | `readRom`, `writeRom`, `readRam`, `writeRam` | aliasing, zero banks, banking modes | every bank in reach, RAM keeps what was stored |
| Real-time clock (`mbc3.cpp`) | prescaler, counters, halt, carry | `runNextTCycle`, latch, stores | invalid values, split day counter, clock running under reads | keeps time, latched time is one instant |
| Joypad (`mmu.cpp`) | `m_buttonState`, JOYP | `setButtonState` | edge that requests the interrupt | reads show the selected group |
| Session (`gbemu.cpp`) | mode, ROM, the components | load, reset, mode, frame, save, load state | calls rejected half-way, any order of calls | one machine, of the session's own ROM |
| Serialization | byte stream | reader and writer | missing members, truncated data | resumes exactly |

`PROJECT.json` lists the components with what is modelled of each, and the
hazards at their lines.

## 2. Modules

    CpuTiming ---> CpuTimer ----> CpuTimerProofs        MCCartridge -- M1 ---> Mbc1 ---> Mapper
        |                                                  |   |---- M2 ---> Mbc2
        \--> CgbDma ----> CgbDmaProofs                     |   |---- M3 ---> Mbc3 ---> Mapper
                |                                          |   |               \-- Rtc --> RealTimeClock
                \-- Promise --> BlockTransfer              |   |---- M5 ---> Mbc5 ---> Mapper
                                                           |   \---- Rtc --> RealTimeClock
    CpuInterrupts --> CpuInterruptsProofs                  \---> CartridgeProofs
    Session --------> SessionProofs

    MCHardware -- Frame ------> PpuTiming
     |  |-------- Line -------> Renderer
     |  |-------- Drawn ------> ScanLine
     |  |-------- Pulse ------> PulseChannel ---> SoundChannel
     |  |-------- Wave -------> WaveChannel ----> SoundChannel
     |  |-------- Noise ------> NoiseChannel ---> SoundChannel
     |  |-------- Transfer ---> Transfers
     |  \-------- Arithmetic -> CpuArithmetic
     \---> ApuProofs ---> RendererProofs ---> HardwareProofs

(An unnamed arrow is an EXTENDS, and runs from a module to what it extends, or
from a component to the module that extends it for its proofs; a named arrow is
an INSTANCE.) Definitions carry the names of the source. A definition commented
"Mutant:" is a plausible bug; it is used by no specification, and is what a
property of the runs is tried against.

**CpuTiming** has, for each handler of the dispatch table, the set of its
timings: T-cycles before the first synchronised access, the lead of the timer,
T-cycles after it, the number of accesses and whether the last is a store.
`INSTRUCTIONS` is all the dispatch table can produce. CpuTimer and CgbDma run
an arbitrary member of it at each step, which stands for every program.
`WORD_STORES` are those that begin with `Mmu::writeWord()` (LD (a16),SP, pushes,
RST and calls): two stores to adjacent addresses, without a T-cycle before,
between or behind them.

**CpuTimer** is `advanceHardware()` with the two dividers. `RunNextTCycle` is
one iteration of its first loop, `RunTimerTo` one of the loop in
`Mmu::runTimerTo()`, and each bus access is an action: the stores to DIV, TIMA,
TMA, TAC, IF and KEY1, or `OtherAccess`. `stage` is where in an instruction the
CPU is. The 16-bit divider is `DivMod` wide, TIMA runs to `TimaMax`.
`HandleInterrupts` is the dispatch of any source; the instruction at its vector
follows without synchronising ("vector"). A word stored by an instruction or by
a dispatch may hit any two adjacent registers (`TimerWord`, `RegisterWord`), so
SP may point anywhere.

**CpuInterrupts** takes one `runNextInstruction()` per step, requests being
raised between steps. IF and IE are sets of sources, lowest number first in
priority. `ops`, `masked` and `redundantEi` are history; the last one is
whether the program has executed EI with interrupts on or already being
enabled. That is rare and legal, and it is the one thing under which the delay
of EI misbehaves (see the observations of section 5), so `HandlerRunsMasked`
and the first half of `EiDelayIsOneInstruction` speak of the runs before it.

**CpuArithmetic** has the instructions that read or set a flag, first as
functions of their operands and the flags, then as actions on A and F, which a
program takes in any order. Shifts and logical operations are on bits, a byte
being the sum of those it has set. `sum` is history: the decimal sum or difference
that the program is at, in the stages of an ADD or SUB of two decimal bytes,
the DAA behind it, and the carry that goes into the next byte.

**BlockTransfer** is what VRAM DMA promises: `blocks` to move, one per grant in
an H-Blank transfer, all of them undisturbed otherwise. **CgbDma** is how
`Mmu`, `Cpu` and `Ppu` keep it: bytes every two T-cycles, the CPU refused at
instruction boundaries only, the PPU granting a block when it enters H-Blank.
`MovesBlocks` is the refinement (`onHBlank <- isHDMA`, blocks rounded up,
granted while a block is in transfer). The PPU is reduced to whether STAT shows
mode 0 and for how long (up to `Mode3Min` T-cycles) it has not. The registers
are stored at a bus access (`WriteDest`, `WriteFf55`) or by a word (`WordToDest`,
`WordToFf55`). `ReadFf55` is a load from FF55 with its two assertions, either of
which ends the program. `due` is history: how many blocks have been asked for
that no H-Blank has let go, counted from stores and H-Blanks, not from bytes.

**PpuTiming** is `Ppu::runNextTCycle()` and `incrementDot()` with the dots of
the source. The state machine is a record `ppu`; the renderer may report the
line full any time between `MinTransfer` and `MaxTransfer` calls; `told` is what
the T-cycle told the rest of the machine. The program switches the LCD and
writes LYC; nothing looks at LYC before the next line or LCD switch, as in the
source. `lines`, `hblanks`, `since` and `age` are history. `HBlankIsLate` is
what CgbDma assumes of its PPU: at least 34 T-cycles outside mode 0 before each
H-Blank (here 172; double speed doubles them).

**Renderer** is mode 3, one `handlePixelTransfer()` a step: the fetcher with its
states and the fetch it interrupts for an object, both FIFOs, the pixels
discarded for SCX, for the eight columns left of the screen and for a clipped
window, and the quirk that costs a line its first colour. A pixel is named by
the strip and the column it comes from, an object by its place in `m_objects`.
Its type invariant has the FIFO's assertion on a push, that there is room;
`LineFits` has the time, `MinTransfer` to `MaxTransfer`, which is what PpuTiming
takes for granted of the renderer.
**ScanLine** is the abstract specification of a line: the columns of the
background, then of the window, in order and without a gap, over each the
foremost of the objects that cover it, and the end of every line. That knows
nothing of fetches or FIFOs. It is in two parts, what no step of a line may do
(`Safety`) and that a line ends (`LinesEnd`). `Before` says which object is
foremost, for any two of them: after the LCD has been switched off and on, an
entry of OAM can be among a line's objects twice. Renderer implements it (`DrawsTheLine`, with `Drawn` as the mapping).

**SoundChannel** has what the channels share: the frame sequencer with its
falling edge of the divider, power, DAC, length counter and trigger, as
functions. **PulseChannel** adds the sweep of channel 1 with its shadow period
and negate memory, **WaveChannel** wave RAM, the fetches, the CPU's accesses to
what is being fetched, and what a trigger spoils, **NoiseChannel** the shift
register and its period. Their actions are the T-cycle, a store to DIV (which
moves the sequencer), and a store to each register, in any order and at any
T-cycle. Channel 2 is channel 1 without the sweep.

**Transfers** is OAM DMA and the serial port, both with stores to their
registers at any T-cycle; of a byte of OAM it keeps the page it came from.

**MCHardware** instantiates all these; its constants are theirs, with a name of
its own for each size that sound channels do not share, and MCHardware.cfg gives
the values. (So the theorems of section 4 are about all values.) They share no state
that the models keep, so `kind` chooses one of them for a behaviour, and
invariants, fairness and liveness are stated once. The composition of PPU, MMU
and CPU that does matter, VRAM DMA, is CgbDma.

**Mapper** is the arithmetic of the base class; **Mbc1**, **Mbc2**, **Mbc3**
and **Mbc5** have the registers of each mapper (a record), the store to the ROM
area as `RegsAfter`, a function of them, and loads and stores of RAM.
A bank of RAM is one cell. **RealTimeClock** is the clock of an MBC3 on its
own; Mbc3 runs it between the program's accesses, through INSTANCE with the
clock's history left out. **MCCartridge** is the variant `Mmu::m_mapper`: `kind`
says which mapper it holds, and the five are checked together, each with its own
variables; sizes are constants here too.

**Session** is the `GameBoy` object: each public call is an action and `result`
what it returned. The state of a part is the *moment* it belongs to (ROM,
hardware mode, calls of `runNextFrame()` since the reset), so that a part left
over from another moment shows. The parts are those of a save state in the order
in which they are read: CPU, the MMU up to VRAM, its mapper with registers, RAM
and clock, the MMU from WRAM on, PPU, APU; loading a state may run out of data
before any of them. The mapper is a part of its own because `loadRom()` replaces
it alone, before a ROM is rejected for its mode (`RejectForMode`). A frame may
fail at an opcode that there is not; the part of it that was run stays. Parts
that do not belong together (`Fits`) run on to something of no moment,
`Garbled`. `foreign` and the `origin` of what is saved are history: whether the
state loaded last was saved on the session's own machine.

## 3. Runs

| run | configuration | checks |
|---|---|---|
| `timer` | CpuTimer.cfg, a console without speed switch | `CatchUpBounded`; `ReloadIsClean`: the program never sees a tick of TIMA between overflow and reload, and the reload follows TMA |
| `timer_cgb` | CpuTimerCgb.cfg, with speed switches | `PhaseRestartsWithInstruction`, `TimerKeepsFiring` |
| `interrupts` | CpuInterrupts.cfg | `HandlerRunsMasked`; `EiDelayIsOneInstruction`, with a DI that cancels it; `HaltBugHitsNextInstruction`, `HaltWakes`, `HighestIsServed` |
| `dma` | CgbDma.cfg | `WaitingIsWholeBlocks`, `Ff55KeepsCount` (what a read of FF55 gives), the refinement `MovesBlocks`, `DmaEnds` |
| `hardware` | MCHardware.cfg | frames: `HBlanksPaceDma`, `InterruptsFollowFrames`, `FramesKeepComing`; lines: `LineFits`, the refinement `DrawsTheLine`; sound: `PlayingHasLength`, `SweepStopsInTime`, `AccessesMeetFetches`, `NoiseNeverFreezes`; transfers: `OamIsOnePage`; sound and transfers: `LeftAloneItEnds`; arithmetic: `DecimalsAddUp`, `SumsAgree` |
| `cartridge` | MCCartridge.cfg | `EveryBankInReach`, with the rule for bank 0; `RamKeepsItsBanks`; of MBC3 `LatchIsOneInstant`, `StoresGoWhereChosen`; of the clock `SecondsAddUp`, `BecomesValid` |
| `session` | Session.cfg | `OneMachine`, `RejectedChangesNothing` |

All but `timer_cgb` check the type invariant as well. Five more runs show the
findings of section 5.

**Bounds.**

- *Timer*: a divider of 64 instead of 65536 is wider than the longest
  instruction with a dispatch in front of it (46 T-cycles), which is what the
  algorithm depends on, and small enough that wrap-around happens within a few
  instructions. Two watched bits (8, 16) include a change of TAC that makes a
  falling edge; TIMA overflows after three values. `CatchUpTheorem` holds for
  every divider. `timer_cgb` needs a divider of 48, one watched bit and a TIMA
  that overflows at each tick, its properties being about the phase and about
  coming round at all.
- *Interrupts*: every program over seven kinds of instruction, with three
  sources, which show priority, equal and different enables; the CPU tells no
  more of them apart than lower and higher.
- *VRAM DMA*: two blocks of 16 bytes have a first, a next and a last one; byte
  and block sizes are those of the code. `dma` has one page of VRAM, so that
  the destination is left out; `dma_destination` has two.
- *Frames*: the dots and mode-3 lengths are those of the code; six scanlines, of
  which four are visible, have a first line after a switch-on, ordinary ones, the
  one on which VBlank is requested, one more of VBlank and the return to line 0.
  Three of the four STAT sources; LYC is compared with the first line and the
  last, and written, while the LCD is on, at one dot of a line (`LycDots`):
  nothing reads it in between two line starts.
- *Lines*: the width, the FIFOs and all the timings are those of the code. The
  lines drawn (`AllLines`, `FirstLines` for those of a switch-on) have objects
  at and over both edges, ten in a row, ten at one place, overlapping in either
  order, a transparent one on top, with four values of SCX and eight positions
  of the window, at both its extremes; a CGB's order of objects too. On the
  lines `Disturbed` the program may rewrite WX before pixel `RewriteUntil` with
  `WindowValues`, and switch the LCD off. They take the renderer 168 to 291
  calls. `LineTimeTheorem` has 168 to 318 for all lines there are; `MaxTransfer`
  = 363 is what a line has room for.
- *Sound*: the divider is two values, the sequencer has four of its eight steps
  (two length clocks and one sweep), length counters one or two ticks. Pulse:
  periods of two bits low and two high, shifts and paces 0 and 1, on DMG. Wave:
  two groups of one byte, periods of one bit, on DMG, where accesses are
  restricted. Noise: a register of 5 bits, 2 in narrow mode, on CGB. Each
  is the least in which a counter can run out, be refilled and be clocked by
  a store in the wrong half of its period.
- *Transfers*: four bytes of four T-cycles, six T-cycles for a serial byte.
- *Arithmetic*: A takes all its values, under all combinations of flags; operands 09,
  50, 99 and FF (hexadecimal) carry out of either digit or both, or none, and
  are decimal or not; high bytes are extremes and a half carry.
- *Mappers*: all the ROM banks of the largest cartridge, and 32 KB of RAM, whose
  banks alias for an MBC5 (sixteen numbers, four banks); MBC3's has one. Values
  written include both sides of each mask. Since a bank of RAM is a cell, two
  values are enough for its contents.
- *Clock* (`kind` = "clock"): counters of three or two values up to their limit
  and some above it, days of two halves of two values, so that every carry,
  every invalid value and the day counter's coming round are within reach of
  each other.
- *Session*: two mappers, three kinds of ROM header and an unsupported one, two
  calls of `runNextFrame()` after each reset, so that what is loaded may be
  earlier, later or the same; a longer session only repeats moments.

**Deadlock** is checked except in `session`, where an abort or an exception is
the end of the program, in `dma`, where a failed assertion is, and in the
findings about either. After `UnimplementedOpcode` in CpuInterrupts only `Reset`
goes on.

**Fairness.** The front end calls `runNextFrame()` again and again, and no call
waits for anything, so that the machine always takes a next step: weak fairness
of the whole next-state relation in CpuTimer and CgbDma, of
`RunNextInstruction` in CpuInterrupts (hardware need not raise anything), and of
the T-cycle in MCHardware (`TCycle`) and MCCartridge (`ClockTicks`; the program
need not write anything). In MCHardware weak fairness is written out, with
`Still` for the states in which a T-cycle does nothing (`Fairness`). Nothing is
assumed about the program, so each liveness property says in its antecedent what
the program must leave alone: the timer left on, the LCD left on, no transfer
started anew, the interrupt window opened again and again.

**Mutants.** For each property of a passing run `PROJECT.json` names a
definition and a mutated form of it ("of", "as") which the property must refuse
under the run's own configuration; most properties with several parts have
several.

## 4. Proofs

Every safety invariant, action property and refinement of the passing runs is
stated by a theorem. What is left to TLC alone is liveness.

| theorem | statement |
|---|---|
| `CpuTimerProofs!TypeCorrect` | `Spec => []TypeOK` |
| `CpuTimerProofs!CatchUpTheorem` | `~IsCgb` gives `Spec => []CatchUpBounded` |
| `CpuTimerProofs!PhaseTheorem` | `Spec => []PhaseRestartsWithInstruction` |
| `CpuTimerProofs!ReloadTheorem` | `~IsCgb` gives `Spec => []ReloadIsClean` |
| `CpuTimerProofs!ReloadCgbTheorem` | `Spec /\ [][HandleInterrupts => ~writes']_vars => []ReloadIsClean` |
| `CpuInterruptsProofs!TypeCorrect` | `Spec => []TypeOK` |
| `CpuInterruptsProofs!MaskedTheorem` | `Spec => []HandlerRunsMasked` |
| `CpuInterruptsProofs!EiDelayTheorem` | `Spec => []EiDelayIsOneInstruction` |
| `CpuInterruptsProofs!HaltBugTheorem` | `Spec => []HaltBugHitsNextInstruction` |
| `CgbDmaProofs!TypeCorrect` | `Spec => []TypeOK` |
| `CgbDmaProofs!WholeBlocksTheorem` | `Spec => []WaitingIsWholeBlocks` |
| `CgbDmaProofs!MovesBlocksTheorem` | `Spec => MovesBlocks`, i.e. CgbDma implements BlockTransfer |
| `CgbDmaProofs!Ff55Theorem` | `Spec => Ff55KeepsCount` |
| `SessionProofs!TypeCorrect` | `Spec => []TypeOK` |
| `SessionProofs!OneMachineTheorem` | `Spec => []OneMachine` |
| `SessionProofs!RejectedTheorem` | `Spec => RejectedChangesNothing` |
| `RendererProofs!DrawingTheorem` | `Spec => Drawn!Safety`, and `Spec /\ Drawn!LinesEnd => DrawsTheLine`, i.e. Renderer implements ScanLine |
| `RendererProofs!LineTimeTheorem` | `MinTransfer <= 168`, `MaxTransfer >= 318` give `Spec => []LineFits` |
| `ApuProofs!SweepTheorem` | `Spec => []SweepStopsInTime` |
| `ApuProofs!FetchTheorem` | `Spec => AccessesMeetFetches` |
| `ApuProofs!FreezeTheorem` | registers of 15 and 7 bits give `Spec => []NoiseNeverFreezes` |
| `ApuProofs!PlayingTheorem` | registers of 15 and 7 bits give `Spec => []PlayingHasLength` |
| `HardwareProofs!TypeCorrect` | registers of 15 and 7 bits give `Spec => []TypeOK` |
| `HardwareProofs!HBlankTheorem` | `Spec => HBlanksPaceDma` |
| `HardwareProofs!InterruptTheorem` | `Spec => InterruptsFollowFrames` |
| `HardwareProofs!OamTheorem` | `Spec => []OamIsOnePage` |
| `HardwareProofs!DecimalTheorem` | `Spec => []DecimalsAddUp` |
| `HardwareProofs!SumsTheorem` | `Spec => []SumsAgree` |
| `CartridgeProofs!TypeCorrect` | `Spec => []TypeOK` |
| `CartridgeProofs!BanksTheorem` | `Spec => []EveryBankInReach` |
| `CartridgeProofs!RamTheorem` | `Spec => []RamKeepsItsBanks` |
| `CartridgeProofs!LatchTheorem` | `Spec => []LatchIsOneInstant` |
| `CartridgeProofs!StoreTheorem` | `Spec => StoresGoWhereChosen` |
| `CartridgeProofs!SecondsTheorem` | `Spec => SecondsAddUp` |

They hold for every value of the constants that satisfies the named assumptions
of the modules (`CpuTimerAssumption` and `MasksAssumption`,
`CpuInterruptsAssumption`, `CgbDmaAssumption`, `SessionAssumption` and
`MarkersAssumption`, `HardwareAssumption`, `CartridgeAssumption`), all of which TLC evaluates in the
runs. Hypotheses beyond these are in the table, and are what the code has:
`~IsCgb`, as STOP breaks the bound on a Game Boy Color (`timer_speed_switch`),
and as a STOP at a vector, behind a dispatch that pushed onto the timer's
registers, brings the next access nearer than the reload; `ReloadCgbTheorem`
allows any speed switches instead and excludes such pushes;
the noise register's 15 and 7 bits (`apu.cpp` 932-942), where the run has fewer;
and the times of a line, for which the run has 168 and 363.

*Timer.* `CatchUpBounded` bounds how far `timerDiv` is behind the point it has
to reach. It is not inductive: when a handler starts its second synchronisation
nothing in it says how far ahead of the divider the timer already is.
`LeadInv` adds `DividersAgree` (the two dividers agree at an instruction
boundary, and at an access differ by exactly the lead the handler asked for)
and that no speed switch is prepared; `CpuInv` adds which combinations of
`left`, `rest` and `ahead` a handler can be in, from `TimingsAreGood`, a lemma
over the whole dispatch table: after its last access an instruction has at
least as many T-cycles left as the timer was run ahead. The proof then needs
three facts about distances on a circle of `DivMod` points. The phase theorem
rests on the parity of what an instruction still has to run (`PhaseInv`).

`ReloadIsClean` speaks of what the program sees, between instructions and at a
bus access. Its invariant `ReloadInv` is a disjunction. In the `Window` of a
pending reload the selected divider bit does not fall by counting (`CalmFor`),
and not by a store either: either the falling edge behind the reload was the
divider's own, and as its low bits are still clear no bit a store to TAC may
select is about to fall (`LowCalm`); or it was that of a store, and the next
store at an access is an instruction away (`NoStoreFor`, from `GoodTiming`).
Behind an unsynchronised word that does not hold, for it can come right behind a
store; but then the instruction is long enough for the reload, and for one more
that it may set off, before anything is seen (`Pushed`). `MasksAssumption` says
that TAC selects none of the lowest two bits.

*Interrupts.* `HandlerRunsMasked` needs `NoEiInFlight`: before the program has
executed a redundant EI, no delayed EI is under way while interrupts are on, or
in a handler that has not executed EI or RETI. The delay of EI and the HALT bug
rest on `EiInv`: the delay is 1 right after an EI and 0 otherwise
(`DelayFollowsEi`), and the HALT bug is pending only right behind a HALT
(`HaltBugBehindHalt`).

*VRAM DMA.* `WaitingIsWholeBlocks` and the refinement rest on `IInv`, of which
`BlockInTime` is the heart: the T-cycles a block in transfer still needs, plus
those gone by since STAT left mode 0, are within the 32 that mode 3 lasts at
least; so no H-Blank comes while a block is in transfer (`NoHBlankInBlock`).
`GdmaAlone` says that a CPU which started a general-purpose transfer has no
access left, so that nobody disturbs it. Steps then map to `MoveBlock` (the last
byte of a block), `Grant` (an H-Blank), `Start`, or to a stutter; counting
blocks is in the lemmas `InsideBlock` and `EndOfBlock`. For `Ff55Theorem`, `IInv`
has `DueIsWaiting`: the history `due` is the blocks left, less one in transfer.
A T-cycle grants a block, moves one or does neither (`TickBlocks`), and `due`
goes down with the first only.

*Session.* `OneMachine` alone does not survive a load: what is loaded was saved
earlier. `IInv` adds `SavedIsWhole`, that what was saved on a whole machine is a
state of one, and `Admitted`, that the mode admits the session's ROM, so that
the mapper a rejected ROM has put in place is never taken for the session's own.
`RejectedTheorem` says which part a rejected call may replace; that the backup is
read back whole is what it rests on.

*Renderer.* A T-cycle is a composition of functions of the pipe (enter the
window, find an object, go on with a fetch, push a row, merge an object, pop a
pixel). Four things are to be kept, by each of them: three of the pipe, which
`RunFetcher` and `Pop` put together from the pieces, and a count of calls.

- `Flows` (in `LineInv`): the pipe is one of this line, its FIFOs hold at most
  eight, the fetched objects are the line's. This is the type.
- `StripsInOrder`: the fetcher is at tile n, of whose rows so many pixels are
  still in the FIFO, so the column to come is `8 * Tiles - Len(bg)`, which is
  the one right of the pixel drawn last. The fetch an object has interrupted
  (`Base`) counts as the one that is running.
- `ObjectsInOrder`: the objects left are those further right, in the order in
  which they are looked for (`QueueInOrder`); at each place of the object FIFO
  is the foremost of those merged that cover it (`FifoInOrder`); and the window
  does not begin while an object is fetched. A WX rewritten in mid-line can break
  that, and ScanLine promises no objects on such a line.

- `LineInTime`: `CallsLeft` is a count of the calls that may be left: the pixels
  to draw or discard, 13 calls for a window that may still begin and 13 for each
  object waiting, the calls that find the FIFO empty (`Starved`), and those
  until the object now being fetched is in (`ForObject`). Each call brings it
  down by at least one (`CallBurns`), at the start it is at most 318, and a call
  gains at most one pixel, eight of them left of the screen, so a line takes at
  least 168. This is safety, and does not say that the calls are made.

`DrawingTheorem` maps a call that draws a pixel to `Draw`, one at which the
window begins and a rewritten WX to `MoveWindow`, the others to `Begin`, `Rest`
or a stutter. Its second half says what `DrawsTheLine` still needs: that lines
end, which is liveness.

*PPU timing.* The invariant is where the PPU stands in its line (`Phase`):
modes 2, 3 and 0 in that order, each between the dots of its own, with STAT's
mode at most a few dots behind. `Counted` reads the histories of lines and
H-Blanks off that position, and `Aged` that LY=LYC was requested `age` lines ago
on line LYC. A PPU that is off satisfies, once switched on, what the invariant
says of one that is on (`OnKeeps`). `NoMode0For` in `Phase` is what
`HBlanksPaceDma` promises to VRAM DMA.

*OAM DMA.* All of OAM below the offset of the transfer is from its page, and
when none runs all of it is (`TransferInv`).

*Arithmetic.* `DecimalsAddUp` is shown digit by digit: `AdjustedSum` and
`AdjustedDifference` say what DAA makes of two digits and a carry, with or
without a half carry; `ArithmeticInv` adds that behind an addition of decimal
bytes DAA is all that is missing (`DaaGives`). `SumsAgree` is a fact about any
state: 16-bit additions, shifts, CP and SWAP are composed of the instructions on
bytes, from `Doubling` and `Halving` of a set of bits.

*Sound.* `Healthy` (a channel that is on has its DAC on and something left of
its length) is kept by each operation of SoundChannel, whatever other fields the
record has (`SameWave` and its like say which fields an operation leaves alone).
To that each channel adds its own: `SweepGood`, that the period to come does not
overflow and that a note which has subtracted is not set to add; `AtItsByte`,
that the wave channel stands at the byte fetched last; `Runs`, that the bits of
the shift register that come round are not all zero, which a shift keeps
(`WideShift`, `NarrowShift`).

*Cartridge.* `CartridgeInv` has an invariant for each mapper. `EveryBankInReach`
is shown by naming the stores that select a bank (`Mbc1Selects`, `Mbc5Selects`),
`RamKeepsItsBanks` by what the last store to a bank left in its cell, and that
no bank number leads out of the array (`Mbc5RamFits`); it leaves out header code
04, as the run does (section 5). `LatchIsOneInstant` needs that the latch is
spelled out in all five registers (`LatchSpellsOut`). `SecondsAddUp` is over
`Number`, one carry of two digits at a time (`SecondMovesOn`), the two halves of
the day with `DayHalves`.

*Only model-checked*: liveness, as the prover has neither fairness nor ENABLED.
These are `TimerKeepsFiring`, `HaltWakes`, `HighestIsServed`, `DmaEnds`,
`FramesKeepComing`, `LeftAloneItEnds`, `BecomesValid`, and the end of every line
in `DrawsTheLine` (`Drawn!LinesEnd`), for which `CallBurns` has the decreasing
count and TLC the rest.

## 5. Findings

Each is a run that TLC ends with a counterexample.

| run | what the code does |
|---|---|
| `timer_speed_switch` | STOP resets one of the two dividers; the next catch-up of the timer goes round 16 bits |
| `dma_poll` | a load from FF55 whose access meets a block in transfer fails an assertion that says there is none |
| `dma_destination` | a transfer that carries out of VRAM's 13 bits goes on at A000 |
| `session_rejected_rom` | a ROM that is rejected for its mode has already replaced the cartridge of the running session: its program, and the mapper's registers, RAM and clock |
| `renderer_offscreen` | with SCX not a multiple of eight, an object wholly left of the screen (X = 0) shows its last columns: the pixels SCX skips are taken from the background FIFO only |

Because of the last one, ScanLine promises objects only on lines whose SCX is a
multiple of eight, or whose objects are all at X of 8 or more.

Further observations, made while modelling, that have no run of their own:

- *CPU.* An EI in the delay of another starts the delay again (`cpu.cpp` 589),
  so a chain of EIs keeps interrupts off; the comment says that EI takes effect
  after the instruction following it. LD (a16),SP, pushes, calls and the dispatch
  make their two stores before any of their T-cycles (`cpu.cpp` 1209); right
  behind a store to TAC such a word can tick TIMA while its reload is pending,
  a tick that the reload overwrites before anything can see it.
  Nothing holds the CPU off OAM, or off any memory, during OAM DMA.
- *VRAM and OAM DMA.* `Mmu::serialize()` leaves out
  `CgbDmaState::tCyclesSinceLastByte` (`mmu.cpp` 954): a state saved within a
  byte of a transfer resumes one T-cycle off, where
  `tests/serialization_test.cpp` 55 says it resumes exactly. An OAM DMA from
  page FF reads FF55 through `readByte()` and can meet the assertion of
  `dma_poll` as well.
- *PPU.* A store to LYC changes neither STAT bit 2 nor requests an interrupt
  before the next line begins (`ppu.cpp` 520). STAT requests its mode-1
  interrupt on each line of VBlank (`ppu.cpp` 522-524). The OAM search has 84
  dots and reads two entries more than OAM has (`ppu.cpp` 593); on the line of a
  switch-on it leaves out the first entries and keeps the objects of an old
  line, but the frame it belongs to is shown blank. `restartCurrentFetch()`
  (`ppu.cppm` 185) is never called. `Ppu::serialize()` leaves out
  `m_lastPixelWasBackground` and `m_lastBgColorIndex`.
- *Serial port.* SC written without its start bit, or for the external clock,
  during an internal transfer does not stop it (`mmu.cpp` 619-621).
- *Joypad.* `setButtonState()` requests no interrupt.
- *APU.* The delay of a wave trigger is 4 T-cycles in the comment and 5 in the
  code (`apu.cpp` 475-479). On DMG no store to wave RAM is let through with a
  period of 2047. The noise register can reach zero, and stay there, when
  narrow mode is switched on in mid-note; `NoiseNeverFreezes` speaks of notes
  without that. The period of the noise channel is truncated to 16 bits
  (`apu.cpp` 921-924).
- *Cartridge.* `ramBankCount()` admits 16 RAM banks for header code 04
  (`mappers.cppm` 45) but the array has eight (`mappers.cppm` 69), so
  `m_ram.at()` throws for the upper ones. Mbc5 has the exception (`thrown`);
  `RamKeepsItsBanks` holds with the RAM sizes that fit, as in the run.
  `Mmu::runNextTCycle()` gives the mapper every T-cycle of the CPU (`mmu.cpp`
  693), so an MBC3 clock runs twice as fast in double speed.
- *Session.* `reset()` before a ROM is loaded aborts (`gbemu.cpp` 91), and a
  `runNextFrame()` that returns an error (`gbemu.cpp` 121-124) has run a part of
  its frame, which stays; Session has both.
- README.md 40 and 42 of the repository say that MBC2 and VRAM DMA are not
  implemented; both are.

## 6. Not modelled

Boot ROM images (data), mixing and filtering of sound (floating point), envelope
volumes and duty (they reach the mixer only), wording of errors, the tests and
fuzzers, the ROM-only cartridge, and address decoding, banks of VRAM and work
RAM, palettes and the joypad, where each access is a case of its own and no
sequence of them is hard. Of the renderer: colours, tile data and attributes,
tall objects, the comparison of WY and the window's row, stores to SCX and LCDC
in mid-line. Of PpuTiming: stores to LY, and to the enables of STAT. Of the
CPU: registers other than A and F, jumps, and what is on the stack. CgbDma
assumes that a dispatch does not push its return address onto the DMA registers,
CpuTimer that the program is not fetched from the timer's. Of save
states: the encoding of single members.

## 7. Plan

Modelled and checked, in the order of importance: CPU and timer, interrupts,
VRAM DMA with its abstract specification, PPU timing, the cartridges, the
session, the renderer with its abstract specification, the sound channels, the
transfers, arithmetic. All their safety properties are proved. What is next, in
this order:

1. Stores to SCX and LCDC in mid-line and tall objects in Renderer, with what
   ScanLine can still promise of such a line.
2. `FreezeTheorem` for shift registers of every width, as the other theorems are.
3. The joypad and the palettes' indices, the members that serialization keeps.
