# A TLA+ model of nees

`nees` is an emulator of the Nintendo Entertainment System written in Rust. It is one
thread: the main loop handles window events, then runs one CPU instruction after the
other, letting the PPU (the picture unit) catch up, until a frame is finished, and shows
it. Two things make it hard. Inside a frame it is time: CPU and PPU each count cycles,
meet only at certain points, and most bugs of such a program are about what happens when
the two meet a few cycles earlier or later than expected. Around a frame it is the world:
an X server that sends events at any time, a GPU and a window system that work at their
own pace, and a save file that outlives the process. The models therefore let the program
on the emulated CPU, the user, the GPU and the kill of the process do anything they can,
at any point, and ask what the emulator then guarantees.

Paths below are relative to `src/emulator/src` unless they start with `src/`.

## Inventory

| component | source | state | operations | interacts with |
|---|---|---|---|---|
| time base | `main.rs:367-385`, `ppu/mod.rs:471-770`, `address_bus/mod.rs:85-109` | PPU position, both cycle counters, `frame_done`, `even_frame` | `exec_instruction`, `catch_up`, `step`, `write_oamdma`, end of a frame | everything |
| vblank and NMI | `ppu/mod.rs`, `cpu/mod.rs:46-62` | `ppustatus` bit 7, `suppress_vblank_flag`, `ppuctrl` bit 7, `Cpu.nmi`, `delay_nmi` | steps on dots 1 and 3, `read_ppustatus`, `write_ppuctrl`, entry of the NMI, DMA | CPU and PPU through the two flags of the CPU |
| sprite evaluation | `ppu/sprite_state.rs`, `ppu/mod.rs:536-664` | index, `sprites_found`, `eval_done`, secondary OAM, list to draw, overflow flag | four evaluations per step, a fetch per step | OAM, which the program rewrites |
| MMC3 scanline counter | `address_bus/mmc3.rs:307-387` | counter, latch, reload, enable, trigger, last A12 and its cycle count | a clock per address on the PPU bus, four registers | PPU fetches, `Cpu.irq`, reset of the cycle counter |
| CPU | `cpu/mod.rs`, `cpu/addressing.rs` | registers, flags, `cycle_count` | 151 instructions and some undocumented ones, BRK, IRQ, NMI | reads and writes of the bus, each of which may catch the PPU up |
| scroll and address registers | `ppu/mod.rs:302-337, 405-468, 922-998` | `current_vram_addr`, `temp_vram_addr`, fine x, toggle, read buffer | writes of the program, increments while rendering | the steps of the PPU |
| drawing | `ppu/mod.rs:775-919`, `ppu/bg_state.rs`, `ppu/sprite_state.rs:252-306` | shift register of tiles, sprite zero hit, the line | eight pixels per step, a fetch of a tile | the list of sprites, `ppumask`, `ppuscroll` |
| address maps | `address_bus/nrom.rs`, `address_bus/mmc3.rs` | bank, mirroring and RAM registers | reads and writes by address | every component behind an address |
| ROM loading | `parse.rs`, `main.rs:37-123`, the constructors of the mappers | none | header, choice of the mapper, slices of the file, checks | address maps |
| controller | `controller.rs` | key bitmap, shift register, strobe | keys, strobe, reads | event loop and game |
| event loop | `main.rs:235-366` | `current_event`, the pause, the queue of libxcb | press, release, autorepeat, pause, save, quit | controller, save file, renderer |
| save states | `serialize.rs`, `src/derive_serialize`, `main.rs:187-217, 292-318` | the save file and its offset | save with a key, load at the start | every field of the machine |
| renderer | `src/pixel_renderer` | Vulkan objects, the mapped buffer, a swapchain, one semaphore | `new`, `render_frame`, `present`, `recreate_swapchain`, `drop` | GPU and window system, main loop |
| window set-up, APU stub, helpers | `win.rs`, `apu.rs`, `util.rs`, `bitfield.rs` | I/O or none | | |

What would be wrong if it went wrong, per component: the time base must never drift, lose
a frame or get stuck; one NMI per vblank, taken in the end; the right sprites, from the
slots that exist; one tick per line and an IRQ on the requested line; a stack that
balances under nested interrupts; arithmetic that stays exact over the bytes of a number;
addresses that are never half-written when used; each pixel from its own tile; no access
outside an array that is indexed unchecked; keys that are released when the player
releases them; a program that can always be quit; a start that restores what was saved; a
window that shows whole and new frames through every resize.

## Modules

| module | models | state and actions against the code |
|---|---|---|
| `PpuDots` | the positions of the PPU and the width of each step | one operator per `match` arm of `Ppu::step`; 0 stands for the arm `_ => ()` |
| `PpuPosition` | the state that `SpriteEval` and `VramAddr` share | where the PPU stands and whether it renders |
| `FrameClock` | the time base | one action per kind of PPU step (one iteration of `catch_up`), per stretch of an instruction between two catch-ups (`RunInstr`), per iteration of the DMA loop, and for the end of a frame. `phase` is the place in the code where the CPU is |
| `VblankNmi` | vblank flag and NMI | the same skeleton, with the time kept as the PPU's lead, plus the accesses to `ppustatus`, `ppuctrl` and `ppumask`, and the entry of NMI and IRQ |
| `SpriteEval`, `MCSpriteEval` | sprite evaluation and fetching | one action per arm of `step_pre_render_or_visible_line`; a byte of OAM is abstracted to whether it is in range when read as a y |
| `Mmc3Irq`, `MCMmc3Irq` | the scanline counter | the addresses of each PPU step reduced to A12, each put on the bus at its cycle count; the program's accesses and register writes. `Programs` says what a program may do, and at which dots; `Leads` by how much the PPU leads the CPU when a frame ends |
| `CpuInterrupts` | NMI, IRQ, BRK, RTI, CLI, SEI, PHP, PLP, JSR, RTS on one stack | one action per instruction that touches the stack, the I flag or a delay flag, `Plain` for the others, two for the entry of an interrupt; `ChangeLines` is everything that happens while the PPU catches up |
| `VramAddr`, `MCVramAddr` | the scroll and address registers | one action per `match` arm of `step`, reduced to what it does to `current_vram_addr`, and one per register access; `v` and `temp` are the integers of the code |
| `CpuCore` | what the instructions compute in the registers and flags, and the branches | one action per instruction, whatever its addressing mode: an operand from memory is any byte. Logic operations keep of their result only what the operands bound. `Taken` and `BranchLow` to `BranchHigh` are `branch_if` and its conditions |
| `CpuBus` | what every addressing mode and instruction does on the bus | no state: one operator per function of `addressing.rs` and per instruction with accesses of its own, each the sequence of its cycles |
| `AddressMaps` | where the cartridges look an address up | no state: one operator per lookup, a mask being a remainder |
| `Cartridge` | from the ROM file to the cartridge | `Loads` is every check between the file and a running machine; one action per MMC3 register; `CpuCell` and `VideoCell` are the `match`es of the buses' `read`. It builds on `AddressMaps` |
| `Pixels` | the picture of one visible line | one action per step that fetches or draws (`draw_8_pixels` with its fetch), and the writes of `ppumask` and `ppuscroll` between any two |
| `Controller` | the key bitmap and the port | one operator per method |
| `SaveFile` | the file of `--save` | opening, the pieces that the `BufWriter` hands to the system, loading and its failure, and with `layout` the lengths that a machine takes over from the file. A piece is known by the save that wrote it |
| `MainLoop`, `MCMainLoop` | the program as the user meets it | extends the two before: one action per arm of the event `match` and of the pause loop, per start, save step, kill, and per thing that the user and the X server do. `pc` is the place in the loop of `main` |
| `Display` | abstract: what the renderer promises | the window changes only to the newest frame drawn, whole, and keeps doing so |
| `Renderer` | `PixelRenderer`, the GPU and the window system | one action per Vulkan call that can fail or wait, the GPU's copy and draw as actions of their own, a resize and an error at any call, and each object that is made or destroyed. It implements `Display` (`Frames`, with `on` mapped to "the renderer is neither being undone nor dropped" and `drawing` to `pc = "draw"`) |
| `*_proofs` | the theorems | see "Proofs". `PpuDots_proofs`, `FrameClock_proofs`, `VblankNmi_proofs` and `Renderer_proofs` are about the module of that name, `Cpu_proofs` about `CpuCore` and `CpuInterrupts`, `Bus_proofs` about `CpuBus`, `AddressMaps`, `Cartridge` and `Mmc3Irq`, `Ppu_proofs` about `SpriteEval`, `VramAddr` and `Pixels`, `MainLoop_proofs` also about `Controller` and `SaveFile` |

`MainLoop` composes `Controller` and `SaveFile`; `FrameClock`,
`VblankNmi`, `SpriteEval`, `Mmc3Irq` and `VramAddr` walk over the same dots, those of
`PpuDots`, and their proofs use the same lemmas about them; the two constants of `FrameClock` that describe the CPU (`MaxInstr`, `MaxDmas`) are established by
`CpuBus`; the sizes that `AddressMaps` assumes are established by `Cartridge`.

Auxiliary variables, which no action reads to decide anything: `origin` (FrameClock),
`armed` and `statusRead` (VblankNmi), `steady` (SpriteEval), `seen`, `quiet` and
`quietBefore` (Mmc3Irq), `frames`, `last` and `late` (CpuInterrupts; `frames` also keeps
the modelled program from returning more often than it was called), `top`, `left`, `half`
and `pointed` (VramAddr), `wide` and `returned` (CpuCore: the number that the program is
working on byte by byte, as the operands alone define it, and whether a PLP or RTI was
executed), `latched` and `report` (Controller), `done` (SaveFile), `missed`
(MainLoop), `drawnWith` and `interrupted` (Pixels). Others only bound what the
environment does: `writes` (SpriteEval), `accesses` (VramAddr), `tables`, `dots`,
`accesses` and `writes` (Mmc3Irq), `session` (MainLoop) and `resizes` (Renderer).

`CpuBus`, `AddressMaps`, `Cartridge` and `Pixels` have no run: their state space is the
whole address space, every ROM or every picture, and the theorems cover it.

## What the runs show

| run | question | bounds |
|---|---|---|
| `FrameClock` | Does the PPU stay within a step of the CPU (`TimeInv`, the inductive invariant of the proofs), are position and counter free of drift, is no frame lost, do frames go on for ever? | one visible line, one vblank line, instructions of up to 2 cycles, one DMA of 5 bytes in each. The DMA is as long as a part of a line, like the real one is of a frame; every alignment of instruction, DMA and line end occurs |
| `VblankNmi` | Is the flag only set in vblank and suppressed for one vblank only, is there one NMI per edge, no more and no less, none after a read of the flag, none dropped but by a DMA, none pending for ever? | two vblank lines, so that the first is not the last; accesses at every cycle of instructions of up to 2 cycles, one in each (an instruction with two, which can delay a pending NMI again, is left to the theorem `ServedAfterVblank`); an interrupt of 2 cycles; a DMA of 1 byte |
| `SpriteEval` | Are the right sprites found and drawn, does no fetch leave the slots, is the overflow flag right but for the last sprite? | the real 64 sprites and 8 slots on the real dots; six contents of OAM (none, few, eight, nine spread over OAM, with the last sprite, with bytes that the overflow search mistakes for a y); three changes of OAM or rendering at any step |
| `SpriteOverflow` | violation: is the overflow flag only set with eight sprites in range? | the same |
| `Mmc3Irq` | Does each rendered line tick once, does the IRQ come on the requested tick, does `Cpu.irq` agree with the mapper? | two visible lines; latch 0 or 1; three kinds of program: any two accesses before ten marked dots of a line with three settings of the pattern tables; three register writes and an access before two marked dots; one of each with 8x16 sprites |
| `Mmc3Stale` | violation: is only a rise within six cycles of a high A12 ignored? | one visible line, two accesses; the PPU leads by 2 or by 100 dots when the frame ends (it never leads by its widest step, 168 dots) |
| `CpuInterrupts` | Does every return restore what was interrupted, do handlers stay masked, what may pass over a pending interrupt? | two program counters, in different pages; a stack of six bytes, so that it wraps; two frames open at once, which is enough for every pair of handlers, calls and pushes to nest |
| `CpuCore` | Do the bytes of a sum, difference or shifted number and the carry stay exact with other instructions in between, do the branches tell the order of what was compared, is one of two opposite branches taken? | bytes of two bits instead of eight, so that every pair of operands occurs (the proofs cover every even size); numbers of two bytes; one index register, since the two are treated alike |
| `VramAddr` | Is every line and tile fetched from where the scroll position says, does a program's address stay its own? | two visible lines, three scroll positions that between them cross every edge of a nametable, any three accesses before four dots of each line (mid-line, before and after the reload of x, at its start) |
| `VramPalette` | violation: are palette addresses read directly? | one line, one scroll position |
| `MainLoop` | Does the controller follow the keys through autorepeat, pauses and restarts, is a report one state of them, do events leave the frame its turn, can the program be quit, does it start from its last finished save? | a register of two buttons (any two of the eight); three events under way, which holds an autorepeat pair and one more; three starts and three saves, so that an interrupted save of one ROM follows a finished one of another, and keys can be down at the start; six kinds of session, one per kind of trouble |
| `Renderer` | Is each Vulkan call made in a state that allows it, is nothing destroyed too early or left behind, and does the window show whole and newest frames for ever (refinement of `Display`)? | three images; two resizes, the second of which can fall into the handling of the first; a frame is up to two frames old, or torn: `Display` only asks for the newest, whole |

The number of lines does not matter beyond the first, an inner and the last one: no code
tests the line number otherwise. Instructions of up to 2 cycles already place an access on
every cycle; longer ones are covered by the proofs for FrameClock.

### Disagreements found

* `SpriteOverflow`: a last sprite in range makes the evaluation start over
  (`ppu/sprite_state.rs:116-118`) and set the overflow flag with fewer than eight sprites,
  against `test/ppu_sprite_overflow/readme.txt:27`.
* `Mmc3Stale`: the cycle count remembered by the mapper is not rebased when the frame loop
  resets the PPU's counter (`main.rs:378-385`), so that the filter of `mmc3.rs:361-362` can
  ignore a rise that comes a frame later.
* `VramPalette`: the palette test of `ppu/mod.rs:303` sees the top bit of the fine y that
  rendering left in the register, so that a palette address is read through the buffer,
  against the comment at `ppu/mod.rs:304-305`.

More peculiarities are modelled as they are, and named in the properties they weaken:

* The end of an OAM DMA clears a pending NMI (`address_bus/mod.rs:104-105`), which the NMI
  tests exclude for a vblank with NMI enabled (`test/ppu_vbl_nmi/readme.txt:67`):
  `NmiKeptButForDma`.
* When the last sprite of OAM is in range the search starts over, finds sprite zero again and
  marks its copy in a later slot, too (`sprite_state.rs:100-103, 118`). If OAM changes
  during the search it may be marked only there. `draw_8_pixels` looks at the mark of the
  frontmost opaque sprite alone (`ppu/mod.rs:841-845`), so that an opaque sprite in front
  hides such a hit: `ZeroHitExact` asks for the frontmost one.
* A machine that was started from another ROM's save keeps the lengths of the boxed slices
  that it found there (`serialize.rs:95-106`), and writes as much in its own saves: `layout`
  of `SaveFile`.
* Each CLI or PLP in a row delays a pending IRQ once more (`cpu/mod.rs:602-604`):
  `NotPassedOver`.
* BPL tests the whole status byte (`p as i8 > 0`, `cpu/mod.rs:108`), so that it is not
  taken when no flag is set at all; `OppositeBranches` shows that this cannot happen after
  the first PLP or RTI, which sets bit 5.
* Key events of a pause are discarded (`main.rs:254-290`), so that a button stays as it was
  until it is used again; autorepeat of Esc ends the pause and begins it again; a key
  tapped between two frames is never seen by the game: `KeysAgree` excepts the keys in
  `missed` and speaks of the moments when all events are handled.
* A save that is interrupted leaves the front of the new and the back of the old one, and
  loads without an error: `SavesComeBack` promises the last save only if it was finished.
* The header's tail is looked at in the newer format only (`parse.rs:15-18`), of which the
  comment says the opposite, and a trainer is not skipped by the slices of `Nes::new`:
  `IsValid` and `SlicesExist` of `Cartridge`.

Two are not modelled at all: a pause whose X connection breaks spins for ever
(`main.rs:287`), and the queue families used are those of the last physical device looked
at, not of the one that is chosen (`src/pixel_renderer/src/device.rs:104`).

## Fairness

The emulator is one thread without a wait inside a frame: as long as it runs, its next
step is taken. That is `WF_vars(Next)` in `FrameClock` and `VblankNmi`, and nothing
stronger is assumed: which step, which access and which instruction come next is up to the
emulated program.

In `MainLoop` the user and the game need not do anything: only the loop itself is fair
(`WF_vars(Loop)`), which is what `EventsLeaveTheFrame` and `QuitServed` need. That a frame
ends although the game reads the controller in it is `FramesGoOn` of `FrameClock`.

In `Renderer` the emulator's thread is fair, and so are GPU and window system together
(`WF_vars(Emulator)`, `WF_vars(Device)`): what was submitted completes and an image that
was asked for comes, since the code waits for them without a timeout. Errors, resizes and
the end of the program need not happen. Resizes are bounded by a constant: a window that
is resized again during each `recreate_swapchain` would starve the frames, in the code as
well. Under this fairness the renderer meets the strong fairness of `Display`, `SF(Show)`:
frames that are drawn over and over are shown over and over.

## Proofs

Each theorem holds for every value of the constants that satisfies the named assumptions.
Where a run checks the same property, the run has shown it on a small instance first.

### Time: `PpuDots_proofs`, `FrameClock_proofs`, `VblankNmi_proofs`

`PpuDots_proofs` states once, from `LinesAssumption` (at least one visible and one vblank
line), from where to where each kind of step leads; all proofs about the PPU's steps use it.

`FrameClock_proofs` assumes `ClockAssumption`: an instruction with its DMAs is shorter than
a frame.

* `TypeCorrect`: in particular that the PPU only stands on dots from which a step is
  defined.
* `TimeInvariant`: `TimeInv`, the inductive invariant. That the PPU leads by less than a
  step (`LeadBounded`) does not bound the counters by itself, because the frame loop only
  looks at `frame_done` between instructions. The strengthening says where the counters
  stood when the current instruction was entered (`EntryBounded`) and that the PPU's
  counter keeps pace with its position from above and below (`PaceUpper`, `PaceLower`).
* from it `LeadIsBounded`, `InstrInSync`, `CycleCountIsBounded`, and `NoFrameLost`, an
  action property: to lose a frame an instruction would have to last a whole frame.
* `CycleCountFitsInI16`: with the sizes of the NES, `Cpu.cycle_count` stays below 30816.
* `NoDrift`: an invariant of its own, by induction over the steps of the PPU.
* `FramesTakeBoundedSteps`: what `FramesGoOn` needs besides fairness. `Effort` counts the
  cycles of the CPU, the dots of the PPU and the catch-ups that are over; it stays below
  `MaxEffort`, by `TimeInv`, and every step adds to it except the one with which the main
  loop handles the frame. `NeverStuck`: the guard of one of the steps always holds.

`VblankNmi_proofs` proves every safety property of its run: `TypeCorrect`,
`FlagWhereItBelongs` (`VblankFlag`), `EveryEdgeRaises` (`NmiEveryEdge`), `OnlyEdgesRaise`
(`NmiOnlyForEdge`) and `OnlyTwoDrop` (`NmiKeptButForDma`). None but the last is inductive.
The invariant adds:

* `Watched` and `RaisedEarly`: an NMI can be pending before dot 3 of the first vblank line
  only if a write of `ppuctrl` raised it on dot 2 or 3, and then the instruction that
  wrote it has not ended, so that it is not taken and raised again on dot 3.
* `ReadLeavesClear`: a read of `ppustatus` leaves the flag clear, or suppressed, for the
  rest of the vblank.
* `Timing`: an NMI of the vblank before must have been taken when the next one begins,
  or the two would be one. The CPU does not look at time, so this follows only from how long
  instructions and interrupts are: `ProgressBound` says how far the PPU has got since
  the instruction began, `PendingBound` for how long an NMI can have been pending. This
  needs `FrameAssumption`: two instructions with their DMAs and an interrupt end within
  the visible part of a frame, which they do by a wide margin (6231 of 82522 dots).

From `PendingBound` also follows `ServedAfterVblank`, the bound behind `NmiServed`: during
the vblank a program can put an NMI off by raising it again and again, but when the vblank
is over it is taken within two instructions and an interrupt.

### The CPU: `Cpu_proofs`

`CpuCore`, for every even size of a byte from four on (`CoreAssumption`) and
every length of a number:

* `RegistersAreBytes`: the type invariant.
* `NumbersAreExact`: `WideArithmetic`. It is inductive together with the type invariant
  (`Inv`). One byte is settled by `AdcExact` and `SbcExact`, which combine the two steps
  and the two carries of the code; `HigherAgrees` and `LowerAgrees` then put one more byte
  above or below a number that is exact but for its carry.
* `SignIsExact` and `OrderIsExact`, together `OrderDecided`: the action property
  `OrderExact`. That the lower bytes cannot change the sign is `SignAbove`; that the two
  overflows of `adc` and `sbc` are to be combined by exclusive or is `AdcSigned`,
  `SbcSigned`.
* `BranchesAreOpposites`: `OppositeBranches`, by the invariant that bit 5 stays set.
* `BranchTarget`: with bytes of eight bits, `branch_if` adds the signed offset modulo 2^16
  and makes its second read just when the page changes.

`CpuInterrupts`, for a stack and an address space of any size: `InterruptTypes`, the type
invariant, `HandlersRunMasked` (`MaskedInHandler`), `ReturnsRestore` (`FramesRestored`) and
`InterruptsComeInTime` (`NotPassedOver`). What a return restores are bytes of memory below a
stack pointer that wraps, so the invariant is about the whole stack: the open frames lie
one below the other from the current stack pointer up (`Chained`), share no byte even when
the stack has wrapped (`Apart`), and each still holds what it saved (`Kept`). `Masked` says
that the I flag is set in a handler and in the bytes that a frame inside it has saved;
`Delays` what the two delay flags still hide. Opening a frame (`Opened`, `Fresh`) and closing
the innermost one (`Closed`) each preserve all of it.

### What is on the buses: `Bus_proofs`

`CpuBus`, for every operand:

* `IndexedAddress`, `DummyRead`, `BranchIsSignedSum`: the address arithmetic that the code
  does byte by byte ends at the 16-bit sum, and what the read before the carry meets.
* `InstructionsArePaced`: every instruction and interrupt takes 2 to 7 cycles, writes
  nothing in the first and can write 0x4014 in the last two only. This is where
  `FrameClock`'s bounds (7 cycles, 2 DMAs) come from. The argument cuts an instruction
  into how it opens (`Opens`) and how it uses its address, and counts each once.

`AddressMaps`, for every address and every contents of the bank registers: no access leaves
its array, which matters because nearly all of them are `get_unchecked`
(`RamAccessesInBounds`, `NromAccessesInBounds`, `VideoAccessesInBounds`, `PrgBanksExist`,
`ChrBanksExist`), and what the maps show is what the hardware would show (`Mirroring`,
`PaletteMirrors`, `PrgSwapExchanges`, `ChrInvertExchanges`, `ChrWindowsApart`).

`Cartridge`, for every header and length of a file (`CartridgeAssumption`): a ROM that is
accepted has the sizes that those theorems assume (`NromIsSized`, `Mmc3IsSized`), and from
that two invariants of the running MMC3: `NoAccessLeavesItsArray` and `VectorsStay`. They
need an invariant (`Inv`), because the code keeps the number of nametables as the length of
an array and how they are addressed as a bit: the bit agrees with the header in every
state, those restored from a save included.

`Mmc3Irq`, for any height of the screen, latch, program and lead of the PPU at the end of
a frame: `IrqTypeCorrect`, `IrqLineAgrees` (`IrqLineMatches`), `LineTicksOnce`
(`OneTickPerLine`) and `IrqAtZero` (the action property `IrqOnTime`).

* What holds of the mapper between any two values of A12 is `Sound`: `Cpu.irq` agrees with
  the trigger, the counter is what was loaded less the ticks since, and A12 has been low
  for some time. One value of A12 is either no rise (`StillClock`) or one (`RiseClock`),
  which ticks on time or is ignored; a fetch of four of them is one of three kinds
  (`FetchLow`, `FetchBackground`, `FetchSprite`).
* `OneTick` then goes along a line, dot by dot: for how long A12 has been low, when the
  mapper last remembers it high, and how often the counter has ticked. With the sprites in
  the upper table the fetch at dot 257 ticks and the other seven follow it too closely;
  with the background there it is the prefetch at dot 328, and A12 is high again shortly
  before the next line, so that the tick is only one if the line before was rendered
  too (`quietBefore`).
* At the end of a frame the PPU's count is reset and what the mapper remembers is not. The
  invariant claims nothing of the remembered count there, so that the theorems hold
  whatever the lead was; a rise that is ignored for that reason sets `missed`, the
  case that `OneTickPerLine` excepts and `Mmc3Stale` exhibits.

### Along a line: `Ppu_proofs`

`SpriteEval`, for any number of sprites from 8 to 64 (`SpriteAssumption`: an index into OAM
is a byte), any contents and changes of OAM:

* `IndicesStayInside` (`SlotsInBounds`), `SearchFindsFirst` (`FirstSpritesFound`),
  `ListIsWhatWasFound` (`DrawListIsFound`) and `OverflowMeansEnough` (`OverflowUnlessLast`).
* The invariant says what the search of an unchanging OAM has reached after each of its
  steps (`SearchGoes`): the slots hold the sprites in range among those it has passed, in
  their order, and it is done in time because it makes one step for each sprite and three more
  for each one found. `SlotsComplete`: a slot that counts was in range. `FetchIndex` bounds the index while the
  slots are fetched, even if rendering was off for some of the steps, which is what an
  unchecked access needs; `FetchGoes` says what the list to draw holds after each fetch.

`VramAddr`, for any screen up to the real height (`VramAssumption`: `LastVisible <= 239`, since
the row counter wraps after 30 rows of tiles): `AddrTypeCorrect`, `PointerIsKept`
(`AddressKept`) and `ScrollIsFollowed` (`ScrollPosition`). The code adds to and copies
between bit fields of two registers; the invariant reads them as a row and a column:
`ScrollColumn` and `ScrollRow` say on every dot where the fetches stand, `OnlyRendering` and
`NoRowYet` when a scroll position is in force, and `HalvesAgree` that the first half of an
address that the program has written waits in `temp_vram_addr`.

`Pixels`, for every strip of tiles and every list of sprites (`PixelsAssumption` only gives
their types): `LineIsPicture`, that each pixel of the line is the one that its column asks for
under the registers of its step, and `ZeroHitIsExact`, that there is a hit just where the
frontmost opaque sprite of a column is marked as sprite zero and the background is opaque.
Nothing is assumed of the marks, because the evaluation may set a second one (see
"Disagreements found"); what the user of the mark expects follows in `FirstHitIsSeen`: a hit
of the first sprite of the list is never hidden, and is the only hit if no other sprite of
the list is marked. The reference picture is in screen coordinates, the code in pairs of
tiles and offsets from a dot. The invariant between them is `RegisterAligned`: each step
finds the two tiles of its own columns in the register; `StepDraws` then settles one
pixel.

### Keys and saves: `MainLoop_proofs`

Every safety property of the run, for any keys, events under way, ROMs, lengths of saves and
starts (`ControllerAssumption`: different buttons have different bits, as in
`controller.rs:17-26`):

* `OneStateIsRead` (`ReportIsSnapshot`): after n reads the register is the bitmap of the last
  strobe shifted by n, with ones behind (`Shifted`).
* `ControllerFollowsKeys` (`KeysAgree`). The invariant (`Agree`) is about the events that
  are still under way, the one in hand included: those of one key take it from one position
  to the other in turn (`Bring`), end where the key is, and begin where the controller takes
  it to be, if none was missed. A release and a press that are dropped as autorepeat then
  leave both ends as they were, however they got mixed with the events of other keys. The
  two sides agree when nothing is under way.
* `SavesAreFound` (all of `SavesComeBack`): the file begins with pieces of the last finished
  save or of later ones, as many as that save had (`LastSave`), and the running save has
  written everything before the offset (`Saving`), wherever it is interrupted. The saves
  since the last finished one, if they are of one ROM, and the machine itself all have one
  layout (`OneLayout`, `MachineLayout`), whether it is the ROM's own or was taken over from a
  foreign save, so that the next start reads exactly what was written.
* `RoundOfEventsEnds`: what `EventsLeaveTheFrame` needs besides fairness. In a round of
  events each step of the program takes an event from those that libxcb has read, goes from
  an event to its save or writes a piece of that save; no step of the user changes any of
  these.
* `QuitStaysAhead`: the same for `QuitServed`. Once the user has asked for the end, the last
  unhandled event is the one that brings it (`QuitAhead`), and it is not the press of an
  autorepeat pair, of which the loop would drop it. Without the assumption of `KeyDown` that
  only autorepeat gives a release and the next press of the same key the same time, which the
  comment at `main.rs:339-341` makes as well, this is false, and so is `QuitServed`: in a
  program that was started with Ctrl+Q held down, a press of it in the millisecond of its
  release would be dropped.

### The renderer: `Renderer_proofs`

* `VulkanIsUsedRight` (`CommandsValid`) and `NothingOutlivesItsParents`
  (`ObjectLifetimes`), for any number of images and resizes. The invariant says where a call
  returns to (`Returns`), what exists at each place of the code and that whatever exists has
  what it was made from (`Lifetimes`), who still uses the one semaphore, the mapped buffer and
  the images (`Queue`), and what an image shows (`NewestFrame`).
* `ImplementsDisplay`: the initial states of `Renderer` are initial states of `Display`
  under the refinement mapping and each step is a step of `Display` or a stutter. It is the
  safety part of `ShowsFrames`: the window only changes to the newest frame, whole. That
  it does so for ever is fairness and stays with the run.

### What is only model-checked

* That something happens at last (`FramesGoOn`, `NmiServed`, `EventsLeaveTheFrame`,
  `QuitServed`, the fairness part of `ShowsFrames`): the prover does not handle ENABLED. Of
  the first four the half that needs no fairness is proved, as said above: a measure that
  grows or falls with each step, or a bound on the wait.

## Not modelled

* The set-up of the window, the APU stub and the macros have no behaviour that the
  emulation depends on, or are I/O.
* Of the CPU, the table that gives each opcode its instruction and mode: it says nothing
  but itself. `CpuCore` leaves out the instructions that change neither A, X, Y nor a flag
  (stores, jumps, PHA, PHP, TXS, NOP) and the program counter; their accesses are in
  `CpuBus`. An interrupt, which sets the I flag there, has no action of its own besides
  SEI. The overflow of `Cpu.cycle_count` is excluded by a theorem.
* `CpuInterrupts` leaves out PHA, PLA and TXS, with which a program can move the stack
  pointer at will, and the bits of the status byte other than I (the code pushes bit 4 set
  for an IRQ as well).
* In `Mmc3Irq` a DMA across the end of a frame is left to `FrameClock`, and in `SpriteEval`
  vblank lines are left out because nothing of its state changes there.
* `VramAddr` leaves out `fine_x_scroll`, which only drawing reads, and the bytes of video
  memory; `Pixels` the colour table with greyscale and emphasis, the place of a pixel in
  the framebuffer and the addresses that a tile is fetched from (`VramAddr` has those).
  The contents of the memories are not modelled anywhere.
* `Cartridge` leaves out ROM files that are read short, and the IRQ registers, which are
  in `Mmc3Irq`.
* `SaveFile` leaves out files that cannot be opened or read, and the values that the fields
  of a foreign ROM's save take (it models that such a save loads or is refused, either
  way, and that the machine's own saves are as long as what it loaded). `MainLoop` leaves out a broken connection to the X server.
* `Renderer` makes each object whole or not at all: what a half-made list of framebuffers
  or a failed recording leaves behind ends with the process. Out of its reach are the
  parameters of the Vulkan objects, the choice of the device, suboptimal swapchains and
  the debug messenger.

## Plan

What is left, in this order:

1. An abstract specification of the NMI (one edge detector) that `VblankNmi` implements,
   and an abstract frame clock that `FrameClock` implements.
2. The addresses that a tile is fetched from, joining `VramAddr` and `Pixels`.
