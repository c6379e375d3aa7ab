----------------------------- MODULE Cartridge -----------------------------
(***************************************************************************)
(* From the ROM file to a cartridge that can be accessed: the header       *)
(* (parse.rs), the choice of the mapper and the slices of the file         *)
(* (Nes::new), the checks of the constructors of both mappers, and then    *)
(* the registers of an MMC3 that its program writes.                       *)
(***************************************************************************)
EXTENDS AddressMaps

CONSTANTS
  Header,      \* the header of the file
  FileLength   \* its length in bytes

\* magic: "NES^Z" in front; tail: one of the last four bytes is not zero.
Headers == [magic : BOOLEAN, prg : Bytes, chr : Bytes,
            flags6 : Bytes, flags7 : Bytes, tail : BOOLEAN]

CartridgeAssumption == Header \in Headers /\ FileLength \in Nat

-----------------------------------------------------------------------------
(***************************************************************************)
(* The header.                                                             *)
(***************************************************************************)
HeaderSize == 16
Bit(byte, weight) == (byte \div weight) % 2

Nes2(h) == (h.flags7 \div 4) % 4 = 2
\* The bytes at the end are looked at in the newer format, of all.
IsValid(h) == h.magic /\ ~(h.tail /\ Nes2(h))

PrgSize(h) == 16 * KB * h.prg
ChrRomSize(h) == 8 * KB * h.chr
MapperNumber(h) == 16 * (h.flags7 \div 16) + h.flags6 \div 16

\* The byte that get_mirroring_type transmutes, and what it may be.
Hor == 0
Vert == 1
FourScreen == 15
MirroringType(h) == IF Bit(h.flags6, 8) = 1 THEN FourScreen ELSE Bit(h.flags6, 1)

-----------------------------------------------------------------------------
(***************************************************************************)
(* Loading: the program ends when a slice leaves the file or a check       *)
(* fails.  A trainer between header and PRG ROM is not skipped.            *)
(***************************************************************************)
Nrom == 0
Mmc3 == 4

SlicesExist(h, length) ==
  HeaderSize <= length /\ HeaderSize + PrgSize(h) + ChrRomSize(h) <= length

NromTakes(h) ==
  /\ ChrRomSize(h) = ChrSize
  /\ PrgSize(h) = SmallRom \/ PrgSize(h) = LargeRom
  /\ MirroringType(h) # FourScreen

\* is_power_of_two, as far as a size may get
IsPowerOfTwo(size) == size \in {KB * p : p \in PowersOfTwo \cup {512}}

Mmc3Takes(h) ==
  /\ 16 * KB <= PrgSize(h) /\ PrgSize(h) <= 512 * KB /\ IsPowerOfTwo(PrgSize(h))
  /\ 8 * KB <= ChrRomSize(h) /\ ChrRomSize(h) <= 256 * KB /\ IsPowerOfTwo(ChrRomSize(h))

Loads(h, length) ==
  /\ SlicesExist(h, length)
  /\ IsValid(h)
  /\ \/ MapperNumber(h) = Nrom /\ NromTakes(h)
     \/ MapperNumber(h) = Mmc3 /\ Mmc3Takes(h)

PrgBanks(h) == PrgSize(h) \div PrgBankSize
ChrBanks(h) == ChrRomSize(h) \div ChrBankSize
Nametables(h) == IF MirroringType(h) = FourScreen THEN 4 ELSE 2

-----------------------------------------------------------------------------
(***************************************************************************)
(* The registers of an MMC3 that decide where an address leads.            *)
(***************************************************************************)
VARIABLES
  registers

RegisterStates ==
  [r : Mmc3Registers, select : 0 .. 7, swapped : BOOLEAN, invert : 0 .. 1,
   ramEnabled : BOOLEAN, ramProtected : BOOLEAN,
   horizontal : BOOLEAN, unmirrored : BOOLEAN]

PowerOn(h) ==
  [r |-> [n \in 0 .. 7 |-> 0], select |-> 0, swapped |-> FALSE, invert |-> 0,
   ramEnabled |-> FALSE, ramProtected |-> FALSE,
   horizontal |-> MirroringType(h) = Hor, unmirrored |-> MirroringType(h) = FourScreen]

\* What a save of this ROM may hold: no register writes unmirrored.
Saved(h) == {s \in RegisterStates : s.unmirrored <=> MirroringType(h) = FourScreen}

CartridgeInit ==
  /\ Loads(Header, FileLength) /\ MapperNumber(Header) = Mmc3
  /\ \/ registers = PowerOn(Header)
     \/ registers \in Saved(Header)

Even(addr) == addr % 2 = 0

BankSelect(addr, val) ==
  /\ Region(addr) = 4 /\ Even(addr)
  /\ registers' = [registers EXCEPT !.select = val % 8,
                                    !.swapped = Bit(val, 64) = 1,
                                    !.invert = Bit(val, 128)]

\* Any byte: it is reduced to the number of banks when it is used.
BankData(addr, val) ==
  /\ Region(addr) = 4 /\ ~Even(addr)
  /\ registers' = [registers EXCEPT !.r = [@ EXCEPT ![registers.select] = val]]

SelectMirroring(addr, val) ==
  /\ Region(addr) = 5 /\ Even(addr)
  /\ registers' = [registers EXCEPT !.horizontal = val % 2 = 1]

ProtectRam(addr, val) ==
  /\ Region(addr) = 5 /\ ~Even(addr)
  /\ registers' = [registers EXCEPT !.ramProtected = Bit(val, 64) = 1,
                                    !.ramEnabled = Bit(val, 128) = 1]

CartridgeNext ==
  \E addr \in CpuAddrs, val \in Bytes :
    \/ BankSelect(addr, val) \/ BankData(addr, val)
    \/ SelectMirroring(addr, val) \/ ProtectRam(addr, val)

CartridgeSpec == CartridgeInit /\ [][CartridgeNext]_registers

-----------------------------------------------------------------------------
(***************************************************************************)
(* Where an access ends up.                                                *)
(***************************************************************************)
Length ==
  [ram |-> RamSize, ppu |-> 8, prgRam |-> PrgRamSize, prgRom |-> PrgSize(Header),
   palettes |-> PaletteSize, nametables |-> Nametables(Header) * NametableSize,
   chrRom |-> ChrRomSize(Header), other |-> 1]

Cell(array, index) == [array |-> array, index |-> index]

ShownPrgBank(addr) ==
  PrgBank(Region(addr), registers.r, registers.swapped, PrgBanks(Header))

\* Mmc3CpuAddressBus::read; other: the controller, or nothing.
CpuCell(addr) ==
  CASE Region(addr) = 0 -> Cell("ram", RamIndex(addr))
    [] Region(addr) = 1 -> Cell("ppu", RegisterIndex(addr))
    [] Region(addr) = 3 /\ registers.ramEnabled -> Cell("prgRam", PrgRamIndex(addr))
    [] Region(addr) >= 4 -> Cell("prgRom", PrgBankSize * ShownPrgBank(addr) + PrgOffset(addr))
    [] OTHER -> Cell("other", 0)

\* Mmc3PpuAddressBus::read
VideoCell(addr) ==
  CASE addr >= 16128 -> Cell("palettes", PaletteIndex(addr))
    [] addr >= 8192 /\ addr < 16128 ->
         Cell("nametables", IF registers.unmirrored THEN FourScreenIndex(addr)
                            ELSE MirroredIndex(addr, registers.horizontal))
    [] OTHER ->
         Cell("chrRom", ChrBankSize * ChrBank(addr, registers.r, registers.invert, ChrBanks(Header))
                        + ChrOffset(addr))

Exists(cell) == 0 <= cell.index /\ cell.index < Length[cell.array]

(* No access leaves its array, with the ROM that was accepted and whatever *)
(* its program has written to the registers (get_unchecked throughout      *)
(* mmc3.rs).                                                               *)
AccessesExist ==
  /\ \A addr \in CpuAddrs : Exists(CpuCell(addr))
  /\ \A addr \in PpuAddrs : Exists(VideoCell(addr))

(* Where the program finds its vectors never changes, and the second last  *)
(* bank is always shown, in one of its two places (the fixed banks of      *)
(* Mmc3CpuAddressBus::read).                                               *)
FixedBanks ==
  /\ \A addr \in CpuAddrs : Region(addr) = 7 =>
       CpuCell(addr) = Cell("prgRom", PrgSize(Header) - PrgBankSize + PrgOffset(addr))
  /\ \E addr \in CpuAddrs :
       Region(addr) \in {4, 6} /\ ShownPrgBank(addr) = PrgBanks(Header) - 2
=============================================================================
