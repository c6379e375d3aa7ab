---------------------------- MODULE AddressMaps ----------------------------
(***************************************************************************)
(* The address maps of the cartridges: where in its arrays an address bus  *)
(* looks up an address of the CPU or of the PPU (address_bus/nrom.rs,      *)
(* address_bus/mmc3.rs and the helpers of address_bus/mod.rs).  The code   *)
(* masks bits; on the sizes in question, powers of two, a mask is a        *)
(* remainder.  Most accesses are get_unchecked: nothing but these          *)
(* operators keeps them within the arrays.                                 *)
(***************************************************************************)
EXTENDS Integers

KB == 1024
CpuAddrs == 0 .. 64 * KB - 1
PpuAddrs == 0 .. 16 * KB - 1
Bytes == 0 .. 255

\* The 8 KB region of a CPU address: is_0_to_1fff is 0, is_2000_to_3fff is
\* 1, is_6000_to_7fff is 3, and 4 to 7 are the regions of PRG ROM.
Region(addr) == addr \div (8 * KB)

\* The sizes of the arrays.
RamSize == 2048
PrgRamSize == 8192
PrgBankSize == 8192
ChrBankSize == 1024
ChrSize == 8192
PaletteSize == 32
NametableSize == 1024

-----------------------------------------------------------------------------
(***************************************************************************)
(* Common to both cartridges.                                              *)
(***************************************************************************)
RamIndex(addr) == addr % RamSize
RegisterIndex(addr) == addr % 8
PrgRamIndex(addr) == addr % PrgRamSize

\* calc_ppu_palette_addr: the first colour of a sprite palette is the one of
\* the background palette.
PaletteIndex(addr) ==
  IF addr % PaletteSize \in {16, 20, 24, 28} THEN addr % 16 ELSE addr % PaletteSize

\* calc_ppu_nametable_addr_with_mirroring: bits 10 and 11 of the address are
\* the nametable, and horizontal mirroring takes off 0x400 for each of them.
OnesAbove(addr) == ((addr \div 1024) % 2) + ((addr \div 2048) % 2)

MirroredIndex(addr, hor) ==
  ((addr % 4096) - (IF hor THEN OnesAbove(addr) * 1024 ELSE 0)) % 2048

-----------------------------------------------------------------------------
(***************************************************************************)
(* NROM: 16 or 32 KB of PRG ROM, without banks.                            *)
(***************************************************************************)
\* The two sizes of PRG ROM.
SmallRom == 16 * KB
LargeRom == 32 * KB
NromPrgIndex(addr, size) == addr % size

-----------------------------------------------------------------------------
(***************************************************************************)
(* MMC3: bank registers r[0] to r[7], which hold any byte.                 *)
(***************************************************************************)
PowersOfTwo == {2, 4, 8, 16, 32, 64, 128, 256}
PrgCounts == {n \in PowersOfTwo : n <= 64}   \* 16 to 512 KB
ChrCounts == {n \in PowersOfTwo : n >= 8}    \* 8 to 256 KB

Mmc3Registers == [0 .. 7 -> Bytes]

\* Mmc3CpuAddressBus::read: the bank that a region of PRG ROM shows.
PrgBank(region, r, swapped, count) ==
  CASE region = 4 -> IF swapped THEN count - 2 ELSE r[6] % count
    [] region = 5 -> r[7] % count
    [] region = 6 -> IF swapped THEN r[6] % count ELSE count - 2
    [] region = 7 -> count - 1

PrgOffset(addr) == addr % PrgBankSize

\* Mmc3PpuAddressBus::read: a pattern address in the half of the 2 KB banks,
\* the bank register of an address, and the bank that it shows; invert is the
\* bit a12_invert.
A12(addr) == (addr \div 4096) % 2
InLargeBank(addr, invert) == A12(addr) = invert
InUpperPart(addr) == (addr \div 1024) % 2 = 1

ChrRegister(addr, invert) ==
  CASE InLargeBank(addr, invert) -> (addr \div 2048) % 2
    [] ~InLargeBank(addr, invert) /\ invert = 1 -> (addr \div 1024) + 2
    [] ~InLargeBank(addr, invert) /\ invert = 0 -> (addr \div 1024) - 2

ChrBank(addr, r, invert, count) ==
  LET bank == r[ChrRegister(addr, invert)] % count IN
  IF InLargeBank(addr, invert)
  THEN 2 * (bank \div 2) + (IF InUpperPart(addr) THEN 1 ELSE 0)
  ELSE bank

ChrOffset(addr) == addr % ChrBankSize

\* no_mirroring: four nametables.
FourScreenIndex(addr) == addr % 4096
=============================================================================
