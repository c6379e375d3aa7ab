---------------------------- MODULE Bus_proofs ----------------------------
(***************************************************************************)
(* Proofs about what the CPU and the PPU reach on their buses: where an    *)
(* address is looked up, for every value of the bank registers             *)
(* (AddressMaps); that a ROM that is accepted has arrays that fit, and     *)
(* that no program leaves these (Cartridge); the addressing modes of the   *)
(* CPU, for all operands (CpuBus); and that the mapper's counter ticks     *)
(* once a line and raises its IRQ on the tick asked for (Mmc3Irq).         *)
(***************************************************************************)
EXTENDS CpuBus, Cartridge, Mmc3Irq, PpuDots_proofs, TLAPS

-----------------------------------------------------------------------------
(***************************************************************************)
(* Bounds.                                                                 *)
(***************************************************************************)
(* Both cartridges: no access of the CPU to RAM, to the registers of the   *)
(* PPU or to PRG RAM leaves its array.                                     *)
THEOREM RamAccessesInBounds ==
  ASSUME NEW addr \in CpuAddrs
  PROVE  /\ RamIndex(addr) \in 0 .. RamSize - 1
         /\ RegisterIndex(addr) \in 0 .. 7
         /\ PrgRamIndex(addr) \in 0 .. PrgRamSize - 1
  <1>1. addr \in Int
    BY DEF CpuAddrs
  <1>2. RamIndex(addr) \in 0 .. RamSize - 1
    BY <1>1 DEF RamIndex, RamSize
  <1>3. RegisterIndex(addr) \in 0 .. 7
    BY <1>1 DEF RegisterIndex
  <1>4. PrgRamIndex(addr) \in 0 .. PrgRamSize - 1
    BY <1>1 DEF PrgRamIndex, PrgRamSize
  <1>. QED
    BY <1>2, <1>3, <1>4

(* NROM: no read of PRG ROM leaves it, and with 16 KB both halves of the   *)
(* address space show the same bytes.                                      *)
THEOREM NromAccessesInBounds ==
  ASSUME NEW addr \in CpuAddrs
  PROVE  /\ NromPrgIndex(addr, SmallRom) \in 0 .. SmallRom - 1
         /\ NromPrgIndex(addr, LargeRom) \in 0 .. LargeRom - 1
         /\ NromPrgIndex(addr + SmallRom, SmallRom) = NromPrgIndex(addr, SmallRom)
  <1>1. addr \in Int
    BY DEF CpuAddrs
  <1>2. KB \in Int /\ KB > 0
    BY DEF KB
  <1>3. /\ SmallRom \in Int /\ SmallRom > 0
        /\ LargeRom \in Int /\ LargeRom > 0
    BY <1>2 DEF SmallRom, LargeRom
  <1>4. NromPrgIndex(addr, SmallRom) \in 0 .. SmallRom - 1
    BY <1>1, <1>3 DEF NromPrgIndex
  <1>5. NromPrgIndex(addr, LargeRom) \in 0 .. LargeRom - 1
    BY <1>1, <1>3 DEF NromPrgIndex
  <1>6. NromPrgIndex(addr + SmallRom, SmallRom) = NromPrgIndex(addr, SmallRom)
    BY <1>1 DEF NromPrgIndex, SmallRom, KB
  <1>. QED
    BY <1>4, <1>5, <1>6

(* Video memory: no access of the PPU leaves nametables or palettes, with  *)
(* two nametables and mirroring or with four.                              *)
THEOREM VideoAccessesInBounds ==
  ASSUME NEW addr \in PpuAddrs, NEW hor \in BOOLEAN
  PROVE  /\ PaletteIndex(addr) \in 0 .. PaletteSize - 1
         /\ MirroredIndex(addr, hor) \in 0 .. 2 * NametableSize - 1
         /\ FourScreenIndex(addr) \in 0 .. 4 * NametableSize - 1
  <1>1. addr \in Int
    BY DEF PpuAddrs
  <1>2. PaletteIndex(addr) \in 0 .. PaletteSize - 1
    BY <1>1 DEF PaletteIndex, PaletteSize
  <1>3. MirroredIndex(addr, hor) \in 0 .. 2 * NametableSize - 1
    BY <1>1 DEF MirroredIndex, OnesAbove, NametableSize
  <1>4. FourScreenIndex(addr) \in 0 .. 4 * NametableSize - 1
    BY <1>1 DEF FourScreenIndex, NametableSize
  <1>. QED
    BY <1>2, <1>3, <1>4

(* A bank register, taken modulo the number of banks, is a bank.           *)
LEMMA RegisterRemainder ==
  ASSUME NEW r \in Mmc3Registers, NEW i \in 0 .. 7, NEW count \in Nat, count > 0
  PROVE  r[i] % count \in 0 .. count - 1
  <1>1. PICK x \in Int : x = r[i]
    BY DEF Mmc3Registers, Bytes
  <1>. QED
    BY <1>1

(* MMC3: for any contents of the bank registers every region of PRG ROM    *)
(* shows an existing bank, and a read from it stays within the bank.       *)
THEOREM PrgBanksExist ==
  ASSUME NEW addr \in CpuAddrs, addr >= 32 * KB, NEW r \in Mmc3Registers,
         NEW swapped \in BOOLEAN, NEW count \in PrgCounts
  PROVE  /\ PrgBank(Region(addr), r, swapped, count) \in 0 .. count - 1
         /\ PrgOffset(addr) \in 0 .. PrgBankSize - 1
  <1>1. count \in Nat /\ count >= 2
    BY DEF PrgCounts, PowersOfTwo
  <1>2. r[6] % count \in 0 .. count - 1 /\ r[7] % count \in 0 .. count - 1
    BY <1>1, RegisterRemainder
  <1>3. KB \in Int
    BY DEF KB
  <1>4. addr \in Int /\ 32 * KB <= addr /\ addr < 64 * KB
    BY <1>3 DEF CpuAddrs
  <1>5. Region(addr) \in {4, 5, 6, 7}
    BY <1>4 DEF Region, KB
  <1>6. PrgOffset(addr) \in 0 .. PrgBankSize - 1
    BY <1>4 DEF PrgOffset, PrgBankSize
  <1>. QED
    BY <1>1, <1>2, <1>5, <1>6 DEF PrgBank

(* MMC3: so does every pattern address of the PPU; r[0] and r[1] show two  *)
(* adjacent banks, an even one and the odd one above it.                   *)
LEMMA ChrRegisterType ==
  ASSUME NEW addr \in 0 .. ChrSize - 1, NEW invert \in 0 .. 1
  PROVE  /\ ChrRegister(addr, invert) \in 0 .. 5
         /\ InLargeBank(addr, invert) <=> ChrRegister(addr, invert) \in 0 .. 1
  <1>1. addr \in Int /\ 0 <= addr /\ addr < 8192
    BY DEF ChrSize
  <1>2. CASE InLargeBank(addr, invert)
    <2>1. (addr \div 2048) % 2 \in 0 .. 1
      BY <1>1
    <2>2. ChrRegister(addr, invert) = (addr \div 2048) % 2
      BY <1>2 DEF ChrRegister
    <2>. QED
      BY <1>2, <2>1, <2>2
  <1>3. CASE ~InLargeBank(addr, invert) /\ invert = 1
    BY <1>1, <1>3 DEF ChrRegister, InLargeBank, A12
  <1>4. CASE ~InLargeBank(addr, invert) /\ invert = 0
    BY <1>1, <1>4 DEF ChrRegister, InLargeBank, A12
  <1>. QED
    BY <1>2, <1>3, <1>4

(* MMC3: whatever the bank registers hold, a pattern address is read from  *)
(* a bank that exists, and within the ROM.                                 *)
THEOREM ChrBanksExist ==
  ASSUME NEW addr \in 0 .. ChrSize - 1, NEW r \in Mmc3Registers,
         NEW invert \in 0 .. 1, NEW count \in ChrCounts
  PROVE  /\ ChrBank(addr, r, invert, count) \in 0 .. count - 1
         /\ ChrOffset(addr) \in 0 .. ChrBankSize - 1
  <1>1. count \in Nat /\ count > 0 /\ count = 2 * (count \div 2)
    BY DEF ChrCounts, PowersOfTwo
  <1>2. ChrRegister(addr, invert) \in 0 .. 7
    BY ChrRegisterType
  <1>3. PICK bank \in 0 .. count - 1 : bank = r[ChrRegister(addr, invert)] % count
    BY <1>1, <1>2, RegisterRemainder
  <1>4. /\ 2 * (bank \div 2) \in 0 .. count - 1
        /\ 2 * (bank \div 2) + 1 \in 0 .. count - 1
    BY <1>1, <1>3
  <1>5. ChrOffset(addr) \in 0 .. ChrBankSize - 1
    BY DEF ChrOffset, ChrBankSize, ChrSize
  <1>. QED
    BY <1>3, <1>4, <1>5 DEF ChrBank

-----------------------------------------------------------------------------
(***************************************************************************)
(* What the maps show.                                                     *)
(***************************************************************************)
(* Horizontal mirroring shows the first nametable at 0x2000 and 0x2400 and *)
(* the second below them, vertical mirroring side by side; from 0x3000 on  *)
(* the nametables are repeated.                                            *)
THEOREM Mirroring ==
  ASSUME NEW offset \in 0 .. NametableSize - 1, NEW table \in 0 .. 3,
         NEW repeat \in 0 .. 1, NEW hor \in BOOLEAN
  PROVE  MirroredIndex(8192 + 4096 * repeat + NametableSize * table + offset, hor)
           = NametableSize * (IF hor THEN table \div 2 ELSE table % 2) + offset
  <1> DEFINE addr == 8192 + 4096 * repeat + NametableSize * table + offset
  <1>1. addr \in Int /\ addr % 4096 = 1024 * table + offset
    BY DEF NametableSize
  <1>2. (addr \div 1024) % 2 = table % 2 /\ (addr \div 2048) % 2 = table \div 2
    BY DEF NametableSize
  <1>3. CASE hor
    BY <1>1, <1>2, <1>3 DEF MirroredIndex, OnesAbove, NametableSize
  <1>4. CASE ~hor
    BY <1>1, <1>2, <1>4 DEF MirroredIndex, OnesAbove, NametableSize
  <1>. QED
    BY <1>3, <1>4

(* The background colour is one byte for all palettes, seen through either *)
(* half of the palette memory; every other colour has a byte of its own.   *)
THEOREM PaletteMirrors ==
  ASSUME NEW i \in 0 .. PaletteSize - 1, NEW j \in 0 .. PaletteSize - 1
  PROVE  PaletteIndex(i) = PaletteIndex(j)
           <=> i = j \/ (i % 4 = 0 /\ i % 16 = j % 16)
  <1>1. /\ i \in Int /\ 0 <= i /\ i < 32 /\ i % 32 = i
        /\ j \in Int /\ 0 <= j /\ j < 32 /\ j % 32 = j
    BY DEF PaletteSize
  <1>2. /\ i % 16 = (IF i >= 16 THEN i - 16 ELSE i)
        /\ j % 16 = (IF j >= 16 THEN j - 16 ELSE j)
    BY <1>1
  <1>3. /\ PaletteIndex(i) = (IF i \in {16, 20, 24, 28} THEN i - 16 ELSE i)
        /\ PaletteIndex(j) = (IF j \in {16, 20, 24, 28} THEN j - 16 ELSE j)
    BY <1>1, <1>2 DEF PaletteIndex, PaletteSize
  <1>4. i % 4 = 0 <=> i \in {0, 4, 8, 12, 16, 20, 24, 28}
    BY <1>1
  <1>. QED
    BY <1>1, <1>2, <1>3, <1>4

(* Swapping the PRG banks exchanges what 0x8000 and 0xc000 show and leaves *)
(* the other regions alone: the code in the last bank, with the interrupt  *)
(* vectors, survives any bank switch.                                      *)
THEOREM PrgSwapExchanges ==
  ASSUME NEW r \in Mmc3Registers, NEW count \in PrgCounts, NEW q \in Mmc3Registers
  PROVE  /\ PrgBank(4, r, TRUE, count) = PrgBank(6, r, FALSE, count)
         /\ PrgBank(6, r, TRUE, count) = PrgBank(4, r, FALSE, count)
         /\ PrgBank(5, r, TRUE, count) = PrgBank(5, r, FALSE, count)
         /\ PrgBank(7, r, TRUE, count) = PrgBank(7, q, FALSE, count)
  BY DEF PrgBank

(* Inverting A12 exchanges the two pattern tables.                         *)
THEOREM ChrInvertExchanges ==
  ASSUME NEW addr \in 0 .. 4095, NEW r \in Mmc3Registers,
         NEW invert \in 0 .. 1, NEW count \in ChrCounts
  PROVE  /\ ChrRegister(addr + 4096, invert) = ChrRegister(addr, 1 - invert)
         /\ ChrBank(addr + 4096, r, invert, count) = ChrBank(addr, r, 1 - invert, count)
  <1>1. /\ A12(addr) = 0 /\ A12(addr + 4096) = 1
        /\ (addr + 4096) \div 1024 = (addr \div 1024) + 4
        /\ ((addr + 4096) \div 2048) % 2 = (addr \div 2048) % 2
        /\ addr \div 1024 \in Int
    <2>1. addr \in Int /\ 0 <= addr /\ addr < 4096
      OBVIOUS
    <2>2. addr \div 4096 = 0 /\ (addr + 4096) \div 4096 = 1
      BY <2>1
    <2>3. (addr + 4096) \div 1024 = (addr \div 1024) + 4 /\ addr \div 1024 \in Int
      BY <2>1
    <2>4. (addr + 4096) \div 2048 = (addr \div 2048) + 2 /\ addr \div 2048 \in Int
      BY <2>1
    <2>. QED
      BY <2>2, <2>3, <2>4 DEF A12
  <1>2. InUpperPart(addr + 4096) = InUpperPart(addr)
    BY DEF InUpperPart
  <1>3. InLargeBank(addr + 4096, invert) <=> InLargeBank(addr, 1 - invert)
    BY <1>1 DEF InLargeBank
  <1>4. ChrRegister(addr + 4096, invert) = ChrRegister(addr, 1 - invert)
    <2>1. CASE invert = 1
      BY <1>1, <2>1 DEF ChrRegister, InLargeBank
    <2>2. CASE invert = 0
      BY <1>1, <2>2 DEF ChrRegister, InLargeBank
    <2>. QED
      BY <2>1, <2>2
  <1>. QED
    BY <1>2, <1>3, <1>4 DEF ChrBank

(* Different windows of 1 KB show different registers, except the two      *)
(* halves of a large bank: the PPU can see r[0] to r[5] at the same time.  *)
THEOREM ChrWindowsApart ==
  ASSUME NEW v \in 0 .. 7, NEW w \in 0 .. 7, NEW invert \in 0 .. 1
  PROVE  ChrRegister(1024 * v, invert) = ChrRegister(1024 * w, invert)
           <=> \/ v = w
               \/ InLargeBank(1024 * v, invert) /\ v \div 2 = w \div 2
  <1> DEFINE Large(x) == x \div 4 = invert
             Window(x) == IF Large(x) THEN (x \div 2) % 2
                         ELSE IF invert = 1 THEN x + 2 ELSE x - 2
  <1>1. ASSUME NEW x \in 0 .. 7
        PROVE  /\ InLargeBank(1024 * x, invert) <=> Large(x)
               /\ ChrRegister(1024 * x, invert) = Window(x)
    <2>1. /\ (1024 * x) \div 4096 = x \div 4 /\ (x \div 4) % 2 = x \div 4
          /\ (1024 * x) \div 2048 = x \div 2 /\ (1024 * x) \div 1024 = x
      OBVIOUS
    <2>2. InLargeBank(1024 * x, invert) <=> Large(x)
      BY <2>1 DEF InLargeBank, A12
    <2>. QED
      BY <2>1, <2>2 DEF ChrRegister
  <1>2. Window(v) = Window(w) <=> v = w \/ (Large(v) /\ v \div 2 = w \div 2)
    OBVIOUS
  <1> HIDE DEF Large, Window
  <1>. QED
    BY <1>1, <1>2

-----------------------------------------------------------------------------
(***************************************************************************)
(* Loading.                                                                *)
(***************************************************************************)
(* transmute() gets one of the three values of MirroringType.              *)
THEOREM MirroringIsDefined ==
  ASSUME NEW h \in Headers
  PROVE  MirroringType(h) \in {Hor, Vert, FourScreen}
  <1>1. h.flags6 \in Int
    BY DEF Headers, Bytes
  <1>2. Bit(h.flags6, 1) \in {0, 1}
    BY <1>1 DEF Bit
  <1>. QED
    BY <1>2 DEF MirroringType, Hor, Vert, FourScreen

(* An NROM that is accepted has one of the two sizes that its mask is made *)
(* for (nrom.rs, calc of mirroring_mask), two nametables, and its slices   *)
(* are in the file.                                                        *)
THEOREM NromIsSized ==
  ASSUME NEW h \in Headers, NEW length \in Nat,
         Loads(h, length), MapperNumber(h) = Nrom
  PROVE  /\ PrgSize(h) \in {SmallRom, LargeRom}
         /\ ChrRomSize(h) = ChrSize
         /\ Nametables(h) = 2
         /\ HeaderSize + PrgSize(h) + ChrRomSize(h) <= length
  BY DEF Loads, NromTakes, Nrom, Mmc3, Nametables, SlicesExist

LEMMA SizeInKB ==
  ASSUME NEW n \in Nat, NEW p \in PowersOfTwo \cup {512}, n = KB * p
  PROVE  /\ n \div PrgBankSize = p \div 8
         /\ n \div ChrBankSize = p
         /\ p \in Nat
  BY DEF KB, PowersOfTwo, PrgBankSize, ChrBankSize

(* The banks of an MMC3 that is accepted are as many as the address maps   *)
(* expect, a power of two, and they fill the ROM.                          *)
THEOREM Mmc3IsSized ==
  ASSUME NEW h \in Headers, NEW length \in Nat,
         Loads(h, length), MapperNumber(h) = Mmc3
  PROVE  /\ PrgBanks(h) \in PrgCounts /\ PrgSize(h) = PrgBankSize * PrgBanks(h)
         /\ ChrBanks(h) \in ChrCounts /\ ChrRomSize(h) = ChrBankSize * ChrBanks(h)
  <1>1. Mmc3Takes(h)
    BY DEF Loads, Nrom, Mmc3
  <1>2. PrgSize(h) \in Nat /\ ChrRomSize(h) \in Nat
    BY DEF PrgSize, ChrRomSize, Headers, Bytes, KB
  <1>3. PICK p \in PowersOfTwo \cup {512} : PrgSize(h) = KB * p
    BY <1>1 DEF Mmc3Takes, IsPowerOfTwo
  <1>4. PICK c \in PowersOfTwo \cup {512} : ChrRomSize(h) = KB * c
    BY <1>1 DEF Mmc3Takes, IsPowerOfTwo
  <1>5. 16 <= p /\ p <= 512 /\ 8 <= c /\ c <= 256
    BY <1>1, <1>3, <1>4 DEF Mmc3Takes, KB, PowersOfTwo
  <1>6. PrgBanks(h) = p \div 8 /\ ChrBanks(h) = c
    BY <1>2, <1>3, <1>4, SizeInKB DEF PrgBanks, ChrBanks
  <1>7. p \div 8 \in PrgCounts /\ PrgBankSize * (p \div 8) = KB * p
    BY <1>3, <1>5 DEF PowersOfTwo, PrgCounts, PrgBankSize, KB
  <1>8. c \in ChrCounts /\ ChrBankSize * c = KB * c
    BY <1>4, <1>5 DEF PowersOfTwo, ChrCounts, ChrBankSize, KB
  <1>. QED
    BY <1>3, <1>4, <1>6, <1>7, <1>8

-----------------------------------------------------------------------------
(***************************************************************************)
(* The registers of an MMC3.                                               *)
(***************************************************************************)
\* The number of nametables is decided by the header once, and so is the bit
\* that says how they are addressed.
Inv ==
  /\ Loads(Header, FileLength) /\ MapperNumber(Header) = Mmc3
  /\ registers \in RegisterStates
  /\ registers.unmirrored <=> MirroringType(Header) = FourScreen

LEMMA Bits ==
  ASSUME NEW val \in Bytes, NEW weight \in {64, 128}
  PROVE  Bit(val, weight) \in 0 .. 1 /\ val % 8 \in 0 .. 7
  BY DEF Bytes, Bit

LEMMA Invariance ==
  CartridgeSpec => []Inv
  <1>1. CartridgeInit => Inv
    <2> SUFFICES ASSUME CartridgeInit PROVE Inv
      OBVIOUS
    <2>1. CASE registers = PowerOn(Header)
      <3>1. [n \in 0 .. 7 |-> 0] \in Mmc3Registers
        BY DEF Mmc3Registers, Bytes
      <3>2. registers \in RegisterStates
        BY <2>1, <3>1 DEF PowerOn, RegisterStates
      <3>3. registers.unmirrored = (MirroringType(Header) = FourScreen)
        BY <2>1 DEF PowerOn
      <3>. QED
        BY <3>2, <3>3 DEF CartridgeInit, Inv
    <2>2. CASE registers \in Saved(Header)
      BY <2>2 DEF CartridgeInit, Inv, Saved
    <2>. QED
      BY <2>1, <2>2 DEF CartridgeInit
  <1>2. Inv /\ [CartridgeNext]_registers => Inv'
    <2> SUFFICES ASSUME Inv, [CartridgeNext]_registers PROVE Inv'
      OBVIOUS
    <2>1. ASSUME NEW addr \in CpuAddrs, NEW val \in Bytes, BankSelect(addr, val)
          PROVE  Inv'
      <3>1. Bit(val, 128) \in 0 .. 1 /\ val % 8 \in 0 .. 7
        BY Bits
      <3>2. registers \in RegisterStates
        BY DEF Inv
      <3>3. registers' \in RegisterStates /\ registers'.unmirrored = registers.unmirrored
        <4>1. PICK a \in BOOLEAN, k \in 0 .. 7, i \in 0 .. 1 :
                a = (Bit(val, 64) = 1) /\ k = val % 8 /\ i = Bit(val, 128)
          BY <3>1
        <4>2. registers' = [registers EXCEPT !.select = k, !.swapped = a, !.invert = i]
          BY <2>1, <4>1 DEF BankSelect
        <4>. QED
          BY <3>2, <4>2 DEF RegisterStates
      <3>. QED
        BY <3>3 DEF Inv
    <2>2. ASSUME NEW addr \in CpuAddrs, NEW val \in Bytes, BankData(addr, val)
          PROVE  Inv'
      <3>1. [registers.r EXCEPT ![registers.select] = val] \in Mmc3Registers
        BY DEF Inv, RegisterStates, Mmc3Registers
      <3>. QED
        BY <2>2, <3>1 DEF Inv, BankData, RegisterStates
    <2>3. ASSUME NEW addr \in CpuAddrs, NEW val \in Bytes, SelectMirroring(addr, val)
          PROVE  Inv'
      BY <2>3 DEF Inv, SelectMirroring, RegisterStates
    <2>4. ASSUME NEW addr \in CpuAddrs, NEW val \in Bytes, ProtectRam(addr, val)
          PROVE  Inv'
      <3>1. registers \in RegisterStates
        BY DEF Inv
      <3>2. registers' \in RegisterStates /\ registers'.unmirrored = registers.unmirrored
        <4>1. PICK a \in BOOLEAN, b \in BOOLEAN :
                a = (Bit(val, 64) = 1) /\ b = (Bit(val, 128) = 1)
          OBVIOUS
        <4>2. registers' = [registers EXCEPT !.ramProtected = a, !.ramEnabled = b]
          BY <2>4, <4>1 DEF ProtectRam
        <4>. QED
          BY <3>1, <4>2 DEF RegisterStates
      <3>. QED
        BY <3>2 DEF Inv
    <2>5. CASE UNCHANGED registers
      BY <2>5 DEF Inv
    <2>. QED
      BY <2>1, <2>2, <2>3, <2>4, <2>5 DEF CartridgeNext
  <1>. QED
    BY <1>1, <1>2, PTL DEF CartridgeSpec

-----------------------------------------------------------------------------
(***************************************************************************)
(* Cells.                                                                  *)
(***************************************************************************)
LEMMA InBank ==
  ASSUME NEW size \in Nat, NEW count \in Nat, NEW bank \in 0 .. count - 1,
         NEW offset \in 0 .. size - 1
  PROVE  0 <= size * bank + offset /\ size * bank + offset < size * count
  <1>1. size * bank + offset < size * (bank + 1)
    OBVIOUS
  <1>2. size * (bank + 1) <= size * count
    OBVIOUS
  <1>3. size * bank \in Nat /\ size * count \in Nat /\ size * (bank + 1) \in Nat
    OBVIOUS
  <1>. QED
    BY <1>1, <1>2, <1>3

LEMMA InArray ==
  ASSUME NEW array, NEW size \in Int, Length[array] = size, NEW index \in 0 .. size - 1
  PROVE  Exists(Cell(array, index))
  BY DEF Exists, Cell

LEMMA FixedLengths ==
  /\ Length["ram"] = RamSize /\ Length["prgRam"] = PrgRamSize
  /\ Length["palettes"] = PaletteSize
  /\ Length["nametables"] = Nametables(Header) * NametableSize
  /\ RamSize \in Int /\ PrgRamSize \in Int /\ PaletteSize \in Int /\ NametableSize \in Int
  <1>1. RamSize \in Int /\ PrgRamSize \in Int /\ PaletteSize \in Int /\ NametableSize \in Int
    BY DEF RamSize, PrgRamSize, PaletteSize, NametableSize
  <1>. QED
    BY <1>1 DEF Length

LEMMA CpuCellsExist ==
  ASSUME CartridgeAssumption, Inv, NEW addr \in CpuAddrs
  PROVE  Exists(CpuCell(addr))
  <1>1. addr \in Int /\ 0 <= addr /\ addr < 65536
    <2>1. KB \in Int /\ 64 * KB = 65536
      BY DEF KB
    <2>. QED
      BY <2>1 DEF CpuAddrs
  <1>2. Region(addr) \in 0 .. 7
    BY <1>1 DEF Region, KB
  <1>3. CASE Region(addr) = 0
    BY <1>3, RamAccessesInBounds, FixedLengths, InArray DEF CpuCell
  <1>4. CASE Region(addr) = 1
    BY <1>4, RamAccessesInBounds DEF CpuCell, Cell, Exists, Length
  <1>5. CASE Region(addr) = 3 /\ registers.ramEnabled
    BY <1>5, RamAccessesInBounds, FixedLengths, InArray DEF CpuCell
  <1>6. CASE Region(addr) >= 4
    <2>1. addr >= 32 * KB
      BY <1>1, <1>6 DEF Region, KB
    <2>2. /\ PrgBanks(Header) \in PrgCounts
          /\ PrgSize(Header) = PrgBankSize * PrgBanks(Header)
      BY Mmc3IsSized DEF CartridgeAssumption, Inv
    <2>3. /\ ShownPrgBank(addr) \in 0 .. PrgBanks(Header) - 1
          /\ PrgOffset(addr) \in 0 .. PrgBankSize - 1
      BY <2>1, <2>2, PrgBanksExist DEF Inv, RegisterStates, ShownPrgBank
    <2>4. PrgBanks(Header) \in Nat /\ PrgBankSize \in Nat
      BY <2>2 DEF PrgCounts, PowersOfTwo, PrgBankSize
    <2>5. /\ 0 <= PrgBankSize * ShownPrgBank(addr) + PrgOffset(addr)
          /\ PrgBankSize * ShownPrgBank(addr) + PrgOffset(addr) < PrgSize(Header)
      BY <2>2, <2>3, <2>4, InBank
    <2>6. CpuCell(addr) = Cell("prgRom", PrgBankSize * ShownPrgBank(addr) + PrgOffset(addr))
      BY <1>6 DEF CpuCell
    <2>. QED
      BY <2>5, <2>6 DEF Cell, Exists, Length
  <1>7. CASE Region(addr) = 2 \/ (Region(addr) = 3 /\ ~registers.ramEnabled)
    BY <1>7 DEF CpuCell, Cell, Exists, Length
  <1>. QED
    BY <1>2, <1>3, <1>4, <1>5, <1>6, <1>7

LEMMA VideoCellsExist ==
  ASSUME CartridgeAssumption, Inv, NEW addr \in PpuAddrs
  PROVE  Exists(VideoCell(addr))
  <1>1. addr \in Int /\ 0 <= addr /\ addr < 16384
    <2>1. KB \in Int /\ 16 * KB = 16384
      BY DEF KB
    <2>. QED
      BY <2>1 DEF PpuAddrs
  <1>2. registers.horizontal \in BOOLEAN
    BY DEF Inv, RegisterStates
  <1>3. /\ PaletteIndex(addr) \in 0 .. PaletteSize - 1
        /\ MirroredIndex(addr, registers.horizontal) \in 0 .. 2 * NametableSize - 1
        /\ FourScreenIndex(addr) \in 0 .. 4 * NametableSize - 1
    BY <1>2, VideoAccessesInBounds
  <1>4. CASE addr >= 16128
    <2>1. VideoCell(addr) = Cell("palettes", PaletteIndex(addr))
      BY <1>1, <1>4 DEF VideoCell
    <2>. QED
      BY <1>3, <2>1, FixedLengths, InArray
  <1>5. CASE addr >= 8192 /\ addr < 16128
    <2>1. CASE registers.unmirrored
      <3>1. Nametables(Header) = 4
        BY <2>1 DEF Inv, Nametables
      <3>2. VideoCell(addr) = Cell("nametables", FourScreenIndex(addr))
        BY <1>1, <1>5, <2>1 DEF VideoCell
      <3>. QED
        BY <1>3, <3>1, <3>2, FixedLengths, InArray
    <2>2. CASE ~registers.unmirrored
      <3>1. Nametables(Header) = 2
        BY <2>2 DEF Inv, Nametables
      <3>2. VideoCell(addr) = Cell("nametables", MirroredIndex(addr, registers.horizontal))
        BY <1>1, <1>5, <2>2 DEF VideoCell
      <3>. QED
        BY <1>3, <3>1, <3>2, FixedLengths, InArray
    <2>. QED
      BY <2>1, <2>2
  <1>6. CASE addr < 8192
    <2> DEFINE bank == ChrBank(addr, registers.r, registers.invert, ChrBanks(Header))
    <2>1. addr \in 0 .. ChrSize - 1
      <3>1. PICK n \in Int : n = ChrSize /\ addr < n
        BY <1>1, <1>6 DEF ChrSize
      <3>. QED
        BY <1>1, <3>1
    <2>2. /\ ChrBanks(Header) \in ChrCounts
          /\ ChrRomSize(Header) = ChrBankSize * ChrBanks(Header)
      BY Mmc3IsSized DEF CartridgeAssumption, Inv
    <2>3. bank \in 0 .. ChrBanks(Header) - 1 /\ ChrOffset(addr) \in 0 .. ChrBankSize - 1
      BY <2>1, <2>2, ChrBanksExist DEF Inv, RegisterStates
    <2>4. ChrBanks(Header) \in Nat /\ ChrBankSize \in Nat
      BY <2>2 DEF ChrCounts, PowersOfTwo, ChrBankSize
    <2>5. /\ 0 <= ChrBankSize * bank + ChrOffset(addr)
          /\ ChrBankSize * bank + ChrOffset(addr) < ChrRomSize(Header)
      BY <2>2, <2>3, <2>4, InBank
    <2>6. VideoCell(addr) = Cell("chrRom", ChrBankSize * bank + ChrOffset(addr))
      BY <1>1, <1>6 DEF VideoCell
    <2>. QED
      BY <2>5, <2>6 DEF Cell, Exists, Length
  <1>. QED
    BY <1>1, <1>4, <1>5, <1>6

(* With the ROM that was accepted, and whatever its program writes, no     *)
(* access of the CPU or the PPU leaves its array (mmc3.rs, get_unchecked   *)
(* throughout).                                                            *)
THEOREM NoAccessLeavesItsArray ==
  ASSUME CartridgeAssumption
  PROVE  CartridgeSpec => []AccessesExist
  <1>1. Inv => AccessesExist
    BY CpuCellsExist, VideoCellsExist DEF AccessesExist
  <1>. QED
    BY <1>1, Invariance, PTL

(* The vectors stay in the last bank of the ROM, and the bank before it is *)
(* always shown (mmc3.rs, the fixed banks of read).                        *)
THEOREM VectorsStay ==
  ASSUME CartridgeAssumption
  PROVE  CartridgeSpec => []FixedBanks
  <1>1. Inv => FixedBanks
    <2> SUFFICES ASSUME Inv PROVE FixedBanks
      OBVIOUS
    <2>1. PICK count \in PrgCounts :
            count = PrgBanks(Header) /\ PrgSize(Header) = PrgBankSize * count
      BY Mmc3IsSized DEF CartridgeAssumption, Inv
    <2>2. count \in Int
      BY DEF PrgCounts, PowersOfTwo
    <2>3. ASSUME NEW addr \in CpuAddrs, Region(addr) = 7
          PROVE  CpuCell(addr)
                   = Cell("prgRom", PrgSize(Header) - PrgBankSize + PrgOffset(addr))
      <3>1. CpuCell(addr) = Cell("prgRom", PrgBankSize * ShownPrgBank(addr) + PrgOffset(addr))
        BY <2>3 DEF CpuCell
      <3>2. ShownPrgBank(addr) = count - 1
        BY <2>1, <2>3 DEF ShownPrgBank, PrgBank
      <3>3. PrgBankSize * (count - 1) = PrgSize(Header) - PrgBankSize
        BY <2>1, <2>2 DEF PrgBankSize
      <3>. QED
        BY <3>1, <3>2, <3>3
    <2>4. \E addr \in CpuAddrs : Region(addr) \in {4, 6} /\ ShownPrgBank(addr) = count - 2
      <3>1. /\ 32768 \in CpuAddrs /\ Region(32768) = 4
            /\ 49152 \in CpuAddrs /\ Region(49152) = 6
        BY SMT DEF CpuAddrs, Region, KB
      <3>2. CASE registers.swapped
        BY <2>1, <3>1, <3>2 DEF ShownPrgBank, PrgBank
      <3>3. CASE ~registers.swapped
        BY <2>1, <3>1, <3>3 DEF ShownPrgBank, PrgBank
      <3>. QED
        BY <3>2, <3>3
    <2>. QED
      BY <2>1, <2>3, <2>4 DEF FixedBanks
  <1>. QED
    BY <1>1, Invariance, PTL

-----------------------------------------------------------------------------
(***************************************************************************)
(* Addresses.                                                              *)
(***************************************************************************)
(* An indexed address is the sum, modulo 2^16: the carry out of the low    *)
(* byte, added to the high byte by itself, is neither lost nor added twice *)
(* (overflowing_add, then wrapping_add, in the four functions that index). *)
THEOREM IndexedAddress ==
  ASSUME NEW lo \in Bytes, NEW hi \in Bytes, NEW index \in Bytes
  PROVE  WithCarry(lo, hi, index) = (Word(lo, hi) + index) % (64 * KB)
  <1>1. lo \in 0 .. 255 /\ hi \in 0 .. 255 /\ index \in 0 .. 255
    BY DEF Bytes
  <1>2. CASE lo + index >= 256
    <2>1. Low(lo + index) = lo + index - 256
      BY <1>1, <1>2 DEF Low
    <2>2. CASE hi = 255
      BY <1>1, <1>2, <2>1, <2>2 DEF WithCarry, Carry, Crosses, Word, Low, KB
    <2>3. CASE hi < 255
      <3>1. Low(hi + 1) = hi + 1
        BY <1>1, <2>3 DEF Low
      <3>2. WithCarry(lo, hi, index) = 256 * (hi + 1) + lo + index - 256
        BY <1>1, <1>2, <2>1, <3>1 DEF WithCarry, Carry, Crosses, Word
      <3>. QED
        BY <1>1, <2>3, <3>2 DEF Word, KB
    <2>. QED
      BY <1>1, <2>2, <2>3
  <1>3. CASE lo + index < 256
    <2>1. Low(lo + index) = lo + index /\ Low(hi) = hi
      BY <1>1, <1>3 DEF Low
    <2>2. WithCarry(lo, hi, index) = 256 * hi + lo + index
      BY <1>1, <1>3, <2>1 DEF WithCarry, Carry, Crosses, Word
    <2>. QED
      BY <1>1, <1>3, <2>2 DEF Word, KB
  <1>. QED
    BY <1>1, <1>2, <1>3

(* The read before the carry stays in the page of the base address; it is  *)
(* at the final address just when no page is crossed, so that the single   *)
(* read of that case is right; and in any case its low byte is the final   *)
(* one, so that among the mirrored registers of the PPU it meets the same  *)
(* register as the access that follows.                                    *)
THEOREM DummyRead ==
  ASSUME NEW lo \in Bytes, NEW hi \in Bytes, NEW index \in Bytes
  PROVE  /\ WithoutCarry(lo, hi, index) \div 256 = hi
         /\ WithoutCarry(lo, hi, index) = WithCarry(lo, hi, index)
              <=> ~Crosses(lo, index)
         /\ RegisterIndex(WithoutCarry(lo, hi, index))
              = RegisterIndex(WithCarry(lo, hi, index))
  <1>1. lo \in 0 .. 255 /\ hi \in 0 .. 255 /\ index \in 0 .. 255
    BY DEF Bytes
  <1>2. PICK low \in 0 .. 255 : low = Low(lo + index)
    BY <1>1 DEF Low
  <1>3. PICK high \in 0 .. 255 : high = Low(hi + Carry(lo, index))
    BY <1>1 DEF Low, Carry
  <1>4. /\ WithoutCarry(lo, hi, index) = 256 * hi + low
        /\ WithCarry(lo, hi, index) = 256 * high + low
    BY <1>2, <1>3 DEF WithoutCarry, WithCarry, Word
  <1>5. WithoutCarry(lo, hi, index) \div 256 = hi
    BY <1>1, <1>2, <1>4
  <1>6. high = hi <=> ~Crosses(lo, index)
    <2>1. CASE Crosses(lo, index)
      <3>1. high = (hi + 1) % 256
        BY <1>3, <2>1 DEF Carry, Low
      <3>2. (hi + 1) % 256 # hi
        BY <1>1
      <3>. QED
        BY <2>1, <3>1, <3>2
    <2>2. CASE ~Crosses(lo, index)
      <3>1. high = (hi + 0) % 256
        BY <1>3, <2>2 DEF Carry, Low
      <3>2. (hi + 0) % 256 = hi
        BY <1>1
      <3>. QED
        BY <2>2, <3>1, <3>2
    <2>. QED
      BY <2>1, <2>2
  <1>7. WithoutCarry(lo, hi, index) = WithCarry(lo, hi, index) <=> ~Crosses(lo, index)
    BY <1>1, <1>2, <1>3, <1>4, <1>6
  <1>8. (256 * hi + low) % 8 = low % 8 /\ (256 * high + low) % 8 = low % 8
    BY <1>1, <1>2, <1>3
  <1>. QED
    BY <1>4, <1>5, <1>7, <1>8 DEF RegisterIndex

LEMMA Reduced ==
  ASSUME NEW n \in Int, 0 <= n, n < 65536
  PROVE  n % 65536 = n /\ (n + 65536) % 65536 = n /\ (n - 65536) % 65536 = n
  BY SMT

(* A branch goes to the signed sum modulo 2^16, though the code adds the   *)
(* offset as an unsigned byte and corrects the high byte by the carry and  *)
(* by the sign (branch_if); and the extra cycle is taken just when the     *)
(* target lies in another page.                                            *)
THEOREM BranchIsSignedSum ==
  ASSUME NEW next \in CpuAddrs, NEW offset \in Bytes
  PROVE  /\ BranchTarget(next, offset)
              = Wide(next + (IF Negative(offset) THEN offset - 256 ELSE offset))
         /\ BranchTurnsPage(next, offset)
              <=> BranchTarget(next, offset) \div 256 # next \div 256
  <1>1. next \in Int /\ 0 <= next /\ next < 65536 /\ offset \in 0 .. 255
    <2>1. PICK top \in Int : top = 64 * KB - 1
      BY DEF KB
    <2>2. next \in Int /\ 0 <= next /\ next <= top /\ offset \in 0 .. 255
      BY <2>1 DEF CpuAddrs, Bytes
    <2>3. top = 65535
      BY <2>1, SMT DEF KB
    <2>. QED
      BY <2>2, <2>3
  \* The bytes of the next address.
  <1>2. PICK h, l : h = next \div 256 /\ l = next % 256
    OBVIOUS
  <1>3. /\ h \in Int /\ 0 <= h /\ h < 256
        /\ l \in Int /\ 0 <= l /\ l < 256
        /\ next = 256 * h + l
    <2>1. h \in Int /\ 0 <= h /\ h < 256
      BY <1>1, <1>2, SMT
    <2>2. l \in Int /\ 0 <= l /\ l < 256
      BY <1>1, <1>2, SMT
    <2>3. next = 256 * h + l
      BY <1>1, <1>2, SMT
    <2>. QED
      BY <2>1, <2>2, <2>3
  \* The low byte of the target.
  <1>4. PICK low : low = (l + offset) % 256
    OBVIOUS
  <1>5. /\ low \in Int /\ 0 <= low /\ low < 256
        /\ l + offset = IF l + offset >= 256 THEN low + 256 ELSE low
    BY <1>1, <1>3, <1>4, SMT
  <1>6. Low(next + offset) = low
    <2>1. (256 * h + (l + offset)) % 256 = (l + offset) % 256
      BY <1>1, <1>3, SMT
    <2>2. next + offset = 256 * h + (l + offset)
      BY <1>1, <1>3, SMT
    <2>. QED
      BY <1>4, <2>1, <2>2 DEF Low
  \* Carry and sign, and the page that they leave together.
  <1>7. PICK c, g : /\ c = (IF BranchCarry(next, offset) THEN 1 ELSE 0)
                    /\ g = (IF Negative(offset) THEN 1 ELSE 0)
    OBVIOUS
  <1>8. /\ c \in {0, 1} /\ g \in {0, 1}
        /\ l + offset = low + 256 * c
        /\ (IF Negative(offset) THEN offset - 256 ELSE offset) = offset - 256 * g
        /\ (IF Negative(offset) THEN 255 ELSE 0) = 255 * g
        /\ BranchTurnsPage(next, offset) <=> c # g
    <2>1. c \in {0, 1} /\ g \in {0, 1}
      BY <1>7
    <2>2. l + offset = low + 256 * c
      BY <1>2, <1>5, <1>7, SMT DEF BranchCarry
    <2>3. /\ (IF Negative(offset) THEN offset - 256 ELSE offset) = offset - 256 * g
          /\ (IF Negative(offset) THEN 255 ELSE 0) = 255 * g
      BY <1>1, <1>7, SMT
    <2>4. BranchTurnsPage(next, offset) <=> c # g
      BY <1>7, SMT DEF BranchTurnsPage, BranchCarry, Negative
    <2>. QED
      BY <2>1, <2>2, <2>3, <2>4
  <1>9. PICK high : high = Low(h + c + 255 * g)
    OBVIOUS
  <1>10. /\ high \in Int /\ 0 <= high /\ high < 256
         /\ high # h <=> c # g
         /\ \/ high = h + (c - g)
            \/ high = h + (c - g) - 256
            \/ high = h + (c - g) + 256
    <2>1. CASE c = g
      <3>1. h % 256 = h /\ (h + 256) % 256 = h
        BY <1>3, SMT
      <3>. QED
        BY <1>3, <1>8, <1>9, <2>1, <3>1, SMT DEF Low
    <2>2. CASE c = 1 /\ g = 0
      <3>1. (h + 1) % 256 = IF h = 255 THEN 0 ELSE h + 1
        BY <1>3, SMT
      <3>. QED
        BY <1>3, <1>9, <2>2, <3>1, SMT DEF Low
    <2>3. CASE c = 0 /\ g = 1
      <3>1. (h + 255) % 256 = IF h = 0 THEN 255 ELSE h - 1
        BY <1>3, SMT
      <3>. QED
        BY <1>3, <1>9, <2>3, <3>1, SMT DEF Low
    <2>. QED
      BY <1>8, <2>1, <2>2, <2>3
  <1>11. BranchTarget(next, offset) = Word(low, high)
    <2>1. h + c + 255 * g = (next \div 256) + (IF BranchCarry(next, offset) THEN 1 ELSE 0)
                            + (IF Negative(offset) THEN 255 ELSE 0)
      BY <1>2, <1>7, <1>8
    <2>. QED
      BY <1>6, <1>9, <2>1 DEF BranchTarget
  \* As a sum of words.
  <1>12. PICK n : n = next + (offset - 256 * g)
    OBVIOUS
  <1>13. PICK m : m = 256 * high + low
    OBVIOUS
  <1>14. Wide(n) = m
    <2>1. m \in Int /\ 0 <= m /\ m < 65536
      BY <1>5, <1>10, <1>13, SMT
    <2>2. n = m \/ n = m + 65536 \/ n = m - 65536
      <3>1. n = 256 * h + low + 256 * (c - g)
        BY <1>1, <1>3, <1>5, <1>8, <1>12, SMT
      <3>. QED
        BY <1>3, <1>5, <1>8, <1>10, <1>13, <3>1, SMT
    <2>3. n % 65536 = m
      BY <2>1, <2>2, Reduced, SMT
    <2>. QED
      BY <2>3, SMT DEF Wide, KB
  <1>15. Word(low, high) = m /\ m \div 256 = high
    <2>1. (256 * high + low) \div 256 = high
      BY <1>5, <1>10, SMT
    <2>. QED
      BY <1>13, <2>1 DEF Word
  <1>. QED
    BY <1>2, <1>8, <1>10, <1>11, <1>12, <1>14, <1>15

-----------------------------------------------------------------------------
(***************************************************************************)
(* Cycles.                                                                 *)
(***************************************************************************)
\* What FrameClock assumes of an instruction: two to seven cycles, of which
\* the first may read the opcode but writes nothing; and a DMA can only be
\* started in the last two.
Paced(t) ==
  /\ Len(t) \in 2 .. 7
  /\ t[1].op # "write"
  /\ \A k \in 1 .. Len(t) : t[k] = Write(OamDma) => k >= Len(t) - 1

Cycles == [op : {"read", "write", "idle"}, at : Int]

\* n cycles that write nothing to the DMA register; n such cycles of which the
\* first writes nothing at all; n cycles that may write to it in the last two.
NoDma(s) == \A k \in 1 .. Len(s) : s[k] # Write(OamDma)
LateDma(s) == \A k \in 1 .. Len(s) : s[k] = Write(OamDma) => k >= Len(s) - 1
Finds(s, n) == s \in Seq(Cycles) /\ Len(s) = n /\ NoDma(s)
Opens(s, n) == Finds(s, n) /\ n >= 1 /\ s[1].op # "write"
Ends(s, n) == s \in Seq(Cycles) /\ Len(s) = n /\ LateDma(s)

LEMMA CycleKinds ==
  /\ \A a \in Int : Read(a) \in Cycles /\ Read(a) # Write(OamDma) /\ Read(a).op # "write"
  /\ \A a \in Int : Write(a) \in Cycles /\ (Write(a) = Write(OamDma) => a = OamDma)
  /\ NoAccess \in Cycles /\ NoAccess # Write(OamDma) /\ NoAccess.op # "write"
  <1>1. ASSUME NEW a \in Int
        PROVE  Read(a) \in Cycles /\ Read(a) # Write(OamDma) /\ Read(a).op # "write"
    BY DEF Read, Write, Cycles
  <1>2. ASSUME NEW a \in Int
        PROVE  Write(a) \in Cycles /\ (Write(a) = Write(OamDma) => a = OamDma)
    BY DEF Write, Cycles
  <1>3. NoAccess \in Cycles /\ NoAccess # Write(OamDma) /\ NoAccess.op # "write"
    BY DEF NoAccess, Write, Cycles
  <1>. QED
    BY <1>1, <1>2, <1>3

LEMMA Concatenation ==
  ASSUME NEW s \in Seq(Cycles), NEW t \in Seq(Cycles)
  PROVE  /\ s \o t \in Seq(Cycles)
         /\ Len(s \o t) = Len(s) + Len(t)
         /\ \A k \in 1 .. Len(s) + Len(t) :
              (s \o t)[k] = IF k <= Len(s) THEN s[k] ELSE t[k - Len(s)]
  OBVIOUS

LEMMA OpensFinds ==
  ASSUME NEW s, NEW m \in Nat, NEW t, NEW n \in Nat, Opens(s, m), Finds(t, n)
  PROVE  Opens(s \o t, m + n)
  <1>1. /\ s \in Seq(Cycles) /\ Len(s) = m /\ NoDma(s) /\ m >= 1 /\ s[1].op # "write"
        /\ t \in Seq(Cycles) /\ Len(t) = n /\ NoDma(t)
    BY DEF Opens, Finds
  <1>2. /\ s \o t \in Seq(Cycles) /\ Len(s \o t) = m + n
        /\ \A k \in 1 .. m + n : (s \o t)[k] = IF k <= m THEN s[k] ELSE t[k - m]
    BY <1>1, Concatenation
  <1>3. ASSUME NEW k \in 1 .. m + n
        PROVE  (s \o t)[k] # Write(OamDma)
    <2>1. CASE k <= m
      BY <1>1, <1>2, <2>1 DEF NoDma
    <2>2. CASE k > m
      <3>1. k - m \in 1 .. n
        BY <2>2
      <3>2. t[k - m] # Write(OamDma)
        BY <1>1, <3>1 DEF NoDma
      <3>3. (s \o t)[k] = t[k - m]
        BY <1>2, <2>2
      <3>. QED
        BY <3>2, <3>3
    <2>3. k <= m \/ k > m
      OBVIOUS
    <2>. QED
      BY <2>1, <2>2, <2>3
  <1>4. (s \o t)[1] = s[1] /\ m + n >= 1
    BY <1>1, <1>2
  <1>. QED
    BY <1>1, <1>2, <1>3, <1>4 DEF Opens, Finds, NoDma

LEMMA FindsEnds ==
  ASSUME NEW s, NEW m \in Nat, NEW t, NEW n \in Nat, Finds(s, m), Ends(t, n)
  PROVE  Ends(s \o t, m + n)
  <1>1. /\ s \in Seq(Cycles) /\ Len(s) = m /\ NoDma(s)
        /\ t \in Seq(Cycles) /\ Len(t) = n /\ LateDma(t)
    BY DEF Ends, Finds
  <1>2. /\ s \o t \in Seq(Cycles) /\ Len(s \o t) = m + n
        /\ \A k \in 1 .. m + n : (s \o t)[k] = IF k <= m THEN s[k] ELSE t[k - m]
    BY <1>1, Concatenation
  <1>3. ASSUME NEW k \in 1 .. m + n, (s \o t)[k] = Write(OamDma)
        PROVE  k >= m + n - 1
    <2>1. CASE k <= m
      BY <1>1, <1>2, <1>3, <2>1 DEF NoDma
    <2>2. CASE k > m
      <3>1. k - m \in 1 .. n
        BY <2>2
      <3>2. k - m >= n - 1
        BY <1>1, <1>2, <1>3, <2>2, <3>1 DEF LateDma
      <3>. QED
        BY <3>2
    <2>. QED
      BY <2>1, <2>2
  <1>. QED
    BY <1>1, <1>2, <1>3 DEF Ends, LateDma

LEMMA OpensEnds ==
  ASSUME NEW s, NEW m \in Nat, NEW t, NEW n \in Nat, Opens(s, m), Ends(t, n),
         m + n \in 2 .. 7
  PROVE  Paced(s \o t)
  <1>1. Len(s) = m /\ Len(t) = n /\ m >= 1
    BY DEF Opens, Finds, Ends
  <1>2. /\ Len(s \o t) = m + n
        /\ \A k \in 1 .. m + n : (s \o t)[k] = IF k <= m THEN s[k] ELSE t[k - m]
    BY <1>1, Concatenation DEF Opens, Finds, Ends
  <1>3. (s \o t)[1].op # "write"
    BY <1>1, <1>2 DEF Opens
  <1>4. ASSUME NEW k \in 1 .. m + n, (s \o t)[k] = Write(OamDma)
        PROVE  k >= m + n - 1
    BY <1>1, <1>2, <1>4 DEF Opens, Finds, Ends, NoDma, LateDma
  <1>. QED
    BY <1>2, <1>3, <1>4 DEF Paced

LEMMA FewCycles ==
  ASSUME NEW a \in Cycles, NEW b \in Cycles, NEW c \in Cycles, NEW d \in Cycles
  PROVE  /\ Finds(<<>>, 0) /\ Ends(<<>>, 0) /\ Ends(<<a>>, 1) /\ Ends(<<a, b>>, 2)
         /\ a # Write(OamDma) => Finds(<<a>>, 1) /\ Ends(<<a, b, c>>, 3)
         /\ (a # Write(OamDma) /\ b # Write(OamDma))
              => Finds(<<a, b>>, 2) /\ Ends(<<a, b, c, d>>, 4)
         /\ (a # Write(OamDma) /\ b # Write(OamDma) /\ c # Write(OamDma))
              => Finds(<<a, b, c>>, 3)
  <1>1. Finds(<<>>, 0) /\ Ends(<<>>, 0)
    BY DEF Finds, Ends, NoDma, LateDma
  <1>2. Ends(<<a>>, 1) /\ Ends(<<a, b>>, 2)
    BY DEF Ends, LateDma
  <1>3. a # Write(OamDma) => Finds(<<a>>, 1)
    BY DEF Finds, NoDma
  <1>4. a # Write(OamDma) => Ends(<<a, b, c>>, 3)
    BY DEF Ends, LateDma
  <1>5. a # Write(OamDma) /\ b # Write(OamDma) => Finds(<<a, b>>, 2)
    BY DEF Finds, NoDma
  <1>6. a # Write(OamDma) /\ b # Write(OamDma) => Ends(<<a, b, c, d>>, 4)
    BY DEF Ends, LateDma
  <1>7. (a # Write(OamDma) /\ b # Write(OamDma) /\ c # Write(OamDma))
          => Finds(<<a, b, c>>, 3)
    BY DEF Finds, NoDma
  <1>. QED
    BY <1>1, <1>2, <1>3, <1>4, <1>5, <1>6, <1>7

-----------------------------------------------------------------------------
LEMMA ByteFacts ==
  /\ \A n \in Int : Low(n) \in Int /\ Wide(n) \in Int
  /\ \A n \in Int : Stack(n) \in Int /\ Stack(n) # OamDma
  /\ \A lo \in Int, hi \in Int : Word(lo, hi) \in Int
  /\ Bytes \subseteq Int /\ CpuAddrs \subseteq Int
  BY DEF Low, Wide, KB, Stack, OamDma, Word, Bytes, CpuAddrs

LEMMA FetchOpens ==
  ASSUME NEW pc \in CpuAddrs
  PROVE  Opens(Fetch(pc, 2), 2) /\ Opens(Fetch(pc, 3), 3)
  <1>1. pc \in Int /\ Wide(pc + 1) \in Int /\ Wide(pc + 2) \in Int
    <2>1. pc \in Int
      BY ByteFacts
    <2>2. pc + 1 \in Int /\ pc + 2 \in Int
      BY <2>1
    <2>. QED
      BY <2>1, <2>2, ByteFacts
  <1>2. /\ Read(pc) \in Cycles /\ Read(pc) # Write(OamDma) /\ Read(pc).op # "write"
        /\ Read(Wide(pc + 1)) \in Cycles /\ Read(Wide(pc + 1)) # Write(OamDma)
        /\ Read(Wide(pc + 2)) \in Cycles /\ Read(Wide(pc + 2)) # Write(OamDma)
    BY <1>1, CycleKinds
  <1>3. /\ Finds(<<Read(pc), Read(Wide(pc + 1))>>, 2)
        /\ Finds(<<Read(pc), Read(Wide(pc + 1)), Read(Wide(pc + 2))>>, 3)
    BY <1>2, FewCycles
  <1>. QED
    BY <1>2, <1>3 DEF Opens, Fetch

LEMMA UseEnds ==
  ASSUME NEW a \in Int, NEW use \in Uses
  PROVE  /\ use # "modify" => Ends(Use(use, a), 1)
         /\ use = "modify" => Ends(Use(use, a), 3)
  <1>1. Read(a) \in Cycles /\ Read(a) # Write(OamDma) /\ Write(a) \in Cycles
    BY CycleKinds
  <1>2. Ends(<<Read(a)>>, 1) /\ Ends(<<Write(a)>>, 1)
        /\ Ends(<<Read(a), Write(a), Write(a)>>, 3)
    BY <1>1, FewCycles
  <1>. QED
    BY <1>2 DEF Use, Uses

LEMMA IndexedEnds ==
  ASSUME NEW lo \in Bytes, NEW hi \in Bytes, NEW index \in Bytes, NEW use \in Uses
  PROVE  /\ use # "modify" => \E n \in 1 .. 2 : Ends(Indexed(lo, hi, index, use), n)
         /\ use = "modify" => Ends(Indexed(lo, hi, index, use), 4)
  <1>1. PICK wrong \in Int, right \in Int :
          wrong = WithoutCarry(lo, hi, index) /\ right = WithCarry(lo, hi, index)
    <2>1. lo \in Int /\ hi \in Int /\ lo + index \in Int /\ hi + Carry(lo, index) \in Int
      BY DEF Bytes, Carry
    <2>2. Low(lo + index) \in Int /\ Low(hi + Carry(lo, index)) \in Int
      BY <2>1, ByteFacts
    <2>. QED
      BY <2>1, <2>2, ByteFacts DEF WithoutCarry, WithCarry
  <1>2. Read(wrong) \in Cycles /\ Finds(<<Read(wrong)>>, 1) /\ Finds(<<>>, 0)
    BY CycleKinds, FewCycles
  <1>3. CASE use = "read" /\ ~Crosses(lo, index)
    <2>1. Indexed(lo, hi, index, use) = <<>> \o Use(use, right)
      BY <1>1, <1>3 DEF Indexed
    <2>2. Ends(Use(use, right), 1)
      BY <1>3, UseEnds
    <2>. QED
      BY <1>2, <1>3, <2>1, <2>2, FindsEnds
  <1>4. CASE ~(use = "read" /\ ~Crosses(lo, index))
    <2>1. Indexed(lo, hi, index, use) = <<Read(wrong)>> \o Use(use, right)
      BY <1>1, <1>4 DEF Indexed
    <2>2. CASE use = "modify"
      <3>1. Ends(Use(use, right), 3)
        BY <2>2, UseEnds
      <3>2. Ends(<<Read(wrong)>> \o Use(use, right), 1 + 3)
        BY <1>2, <3>1, FindsEnds
      <3>. QED
        BY <2>1, <2>2, <3>2
    <2>3. CASE use # "modify"
      <3>1. Ends(Use(use, right), 1)
        BY <2>3, UseEnds
      <3>2. Ends(<<Read(wrong)>> \o Use(use, right), 1 + 1)
        BY <1>2, <3>1, FindsEnds
      <3>. QED
        BY <2>1, <2>3, <3>2
    <2>. QED
      BY <2>2, <2>3
  <1>. QED
    BY <1>3, <1>4

\* Instructions that find an address and use it.
LEMMA OpensUse ==
  ASSUME NEW s, NEW m \in 2 .. 4, Opens(s, m), NEW a \in Int, NEW use \in Uses
  PROVE  Paced(s \o Use(use, a))
  <1>1. CASE use = "modify"
    BY <1>1, UseEnds, OpensEnds, m + 3 \in 2 .. 7
  <1>2. CASE use # "modify"
    BY <1>2, UseEnds, OpensEnds, m + 1 \in 2 .. 7
  <1>. QED
    BY <1>1, <1>2

(* Every instruction and interrupt takes two to seven cycles, writes       *)
(* nothing in its first, and can start an OAM DMA in its last two only,    *)
(* so at most twice: what FrameClock assumes with MaxInstr = 7 and         *)
(* MaxDmas = 2, from the accesses of every addressing mode.                *)
THEOREM InstructionsArePaced ==
  ASSUME NEW t \in Instructions
  PROVE  Paced(t)
  <1>1. ASSUME NEW pc \in CpuAddrs, t = Immediate(pc) \/ t = Jump(pc) \/ t = Implied(pc)
        PROVE  Paced(t)
    <2>1. CASE t = Implied(pc)
      BY <2>1 DEF Implied, Paced, Read, Write, NoAccess
    <2>2. CASE t # Implied(pc)
      BY <1>1, <2>2, FetchOpens DEF Immediate, Jump, Paced, Opens, Finds, NoDma
    <2>. QED
      BY <2>1, <2>2
  <1>2. ASSUME NEW pc \in CpuAddrs, NEW lo \in Bytes, NEW hi \in Bytes, NEW use \in Uses,
               t = Absolute(pc, lo, hi, use)
        PROVE  Paced(t)
    <2>1. Opens(Fetch(pc, 3), 3) /\ Word(lo, hi) \in Int
      BY FetchOpens, ByteFacts
    <2>. QED
      BY <1>2, <2>1, OpensUse DEF Absolute
  <1>3. ASSUME NEW pc \in CpuAddrs, NEW lo \in Bytes, NEW use \in Uses,
               t = ZeroPage(pc, lo, use)
        PROVE  Paced(t)
    <2>1. Opens(Fetch(pc, 2), 2) /\ lo \in Int
      BY FetchOpens, ByteFacts
    <2>. QED
      BY <1>3, <2>1, OpensUse DEF ZeroPage
  <1>4. ASSUME NEW pc \in CpuAddrs, NEW lo \in Bytes, NEW index \in Bytes,
               NEW use \in Uses, t = ZeroPageIndexed(pc, lo, index, use)
        PROVE  Paced(t)
    <2>1. lo \in Int /\ Low(lo + index) \in Int
      BY ByteFacts
    <2>2. Finds(<<Read(lo)>>, 1)
      BY <2>1, CycleKinds, FewCycles
    <2>3. Opens(Fetch(pc, 2) \o <<Read(lo)>>, 2 + 1)
      BY <2>2, FetchOpens, OpensFinds
    <2>. QED
      BY <1>4, <2>1, <2>3, OpensUse DEF ZeroPageIndexed
  <1>5. ASSUME NEW pc \in CpuAddrs, NEW lo \in Bytes, NEW hi \in Bytes,
               NEW index \in Bytes, NEW use \in Uses,
               t = AbsoluteIndexed(pc, lo, hi, index, use)
        PROVE  Paced(t)
    <2>1. Opens(Fetch(pc, 3), 3)
      BY FetchOpens
    <2>2. PICK n \in 1 .. 4 : Ends(Indexed(lo, hi, index, use), n)
      BY IndexedEnds
    <2>3. 3 + n \in 2 .. 7
      OBVIOUS
    <2>4. Paced(Fetch(pc, 3) \o Indexed(lo, hi, index, use))
      BY <2>1, <2>2, <2>3, OpensEnds
    <2>. QED
      BY <1>5, <2>4 DEF AbsoluteIndexed
  <1>6. ASSUME NEW pc \in CpuAddrs, NEW p \in Bytes, NEW x \in Bytes, NEW lo \in Bytes,
               NEW hi \in Bytes, NEW use \in {"read", "write"},
               t = IndexedIndirect(pc, p, x, lo, hi, use)
        PROVE  Paced(t)
    <2> DEFINE pointer == <<Read(p), Read(Low(p + x)), Read(Low(p + x + 1))>>
    <2>1. /\ p \in Int /\ Low(p + x) \in Int /\ Low(p + x + 1) \in Int
          /\ Word(lo, hi) \in Int
      <3>1. p \in Int /\ p + x \in Int /\ p + x + 1 \in Int /\ lo \in Int /\ hi \in Int
        BY DEF Bytes
      <3>. QED
        BY <3>1, ByteFacts
    <2>2. Finds(pointer, 3)
      BY <2>1, CycleKinds, FewCycles
    <2> HIDE DEF pointer
    <2>3. Opens(Fetch(pc, 2) \o pointer, 2 + 3)
      BY <2>2, FetchOpens, OpensFinds
    <2>4. use \in Uses /\ Ends(Use(use, Word(lo, hi)), 1)
      BY <2>1, UseEnds DEF Uses
    <2>5. Paced((Fetch(pc, 2) \o pointer) \o Use(use, Word(lo, hi)))
      BY <2>3, <2>4, OpensEnds, 5 + 1 \in 2 .. 7
    <2>. QED
      BY <1>6, <2>5 DEF IndexedIndirect, pointer
  <1>7. ASSUME NEW pc \in CpuAddrs, NEW p \in Bytes, NEW y \in Bytes, NEW lo \in Bytes,
               NEW hi \in Bytes, NEW use \in {"read", "write"},
               t = IndirectIndexed(pc, p, y, lo, hi, use)
        PROVE  Paced(t)
    <2> DEFINE pointer == <<Read(p), Read(Low(p + 1))>>
    <2>1. p \in Int /\ Low(p + 1) \in Int
      BY ByteFacts
    <2>2. Finds(pointer, 2)
      BY <2>1, CycleKinds, FewCycles
    <2> HIDE DEF pointer
    <2>3. Opens(Fetch(pc, 2) \o pointer, 2 + 2)
      BY <2>2, FetchOpens, OpensFinds
    <2>4. PICK n \in 1 .. 2 : Ends(Indexed(lo, hi, y, use), n)
      BY IndexedEnds DEF Uses
    <2>5. 4 + n \in 2 .. 7
      OBVIOUS
    <2>6. Paced((Fetch(pc, 2) \o pointer) \o Indexed(lo, hi, y, use))
      BY <2>3, <2>4, <2>5, OpensEnds
    <2>. QED
      BY <1>7, <2>6 DEF IndirectIndexed, pointer
  <1>8. ASSUME NEW pc \in CpuAddrs, NEW sp \in Bytes,
               \/ t = Push(pc, sp) \/ t = Pull(pc, sp) \/ t = Jsr(pc, sp)
               \/ t = Rts(pc, sp) \/ t = Rti(pc, sp)
        PROVE  Paced(t)
    <2>1. /\ Stack(sp) \in Int /\ Stack(sp + 1) \in Int /\ Stack(sp + 2) \in Int
          /\ Stack(sp + 3) \in Int /\ Stack(sp - 1) \in Int
      <3>1. /\ sp \in Int /\ sp + 1 \in Int /\ sp + 2 \in Int /\ sp + 3 \in Int
            /\ sp - 1 \in Int
        BY DEF Bytes
      <3>. QED
        BY <3>1, ByteFacts
    <2>2. /\ Write(Stack(sp)) \in Cycles /\ Write(Stack(sp - 1)) \in Cycles
          /\ Read(Stack(sp + 1)) \in Cycles /\ Read(Stack(sp + 1)) # Write(OamDma)
          /\ Read(Stack(sp + 2)) \in Cycles /\ Read(Stack(sp + 3)) \in Cycles
          /\ NoAccess \in Cycles /\ NoAccess # Write(OamDma)
      BY <2>1, CycleKinds
    <2>3. CASE t = Push(pc, sp)
      BY <2>3 DEF Push, Paced, Read, Write, NoAccess
    <2>4. CASE t = Pull(pc, sp)
      BY <2>4 DEF Pull, Paced, Read, Write, NoAccess
    <2>5. CASE t = Jsr(pc, sp)
      <3>1. Ends(<<NoAccess, Write(Stack(sp - 1)), Write(Stack(sp))>>, 3)
        BY <2>2, FewCycles
      <3>. QED
        BY <2>5, <3>1, FetchOpens, OpensEnds, 3 + 3 \in 2 .. 7 DEF Jsr
    <2>6. CASE t = Rts(pc, sp)
      <3>1. Ends(<<NoAccess, Read(Stack(sp + 1)), Read(Stack(sp + 2)), NoAccess>>, 4)
        BY <2>2, FewCycles
      <3>. QED
        BY <2>6, <3>1, FetchOpens, OpensEnds, 2 + 4 \in 2 .. 7 DEF Rts
    <2>7. CASE t = Rti(pc, sp)
      <3>1. Ends(<<NoAccess, Read(Stack(sp + 1)), Read(Stack(sp + 2)), Read(Stack(sp + 3))>>, 4)
        BY <2>2, FewCycles
      <3>. QED
        BY <2>7, <3>1, FetchOpens, OpensEnds, 2 + 4 \in 2 .. 7 DEF Rti
    <2>. QED
      BY <1>8, <2>3, <2>4, <2>5, <2>6, <2>7
  <1>9. ASSUME NEW pc \in CpuAddrs, NEW lo \in Bytes, NEW hi \in Bytes,
               t = JumpIndirect(pc, lo, hi)
        PROVE  Paced(t)
    <2>1. Word(lo, hi) \in Int /\ Word(Low(lo + 1), hi) \in Int
      BY ByteFacts
    <2>2. Ends(<<Read(Word(lo, hi)), Read(Word(Low(lo + 1), hi))>>, 2)
      BY <2>1, CycleKinds, FewCycles
    <2>. QED
      BY <1>9, <2>2, FetchOpens, OpensEnds, 3 + 2 \in 2 .. 7 DEF JumpIndirect
  <1>10. ASSUME NEW pc \in CpuAddrs, NEW offset \in Bytes, NEW taken \in BOOLEAN,
                t = Branch(pc, offset, taken)
         PROVE  Paced(t)
    <2> DEFINE a == Wide(pc + 2)
               b == BranchWithoutPage(a, offset)
               next == IF taken THEN <<Read(a)>> ELSE <<>>
               again == IF taken /\ BranchTurnsPage(a, offset) THEN <<Read(b)>> ELSE <<>>
    <2>1. t = (Fetch(pc, 2) \o next) \o again
      BY <1>10 DEF Branch
    <2>2. a \in Int /\ b \in Int
      <3>1. pc + 2 \in Int /\ offset \in Int
        BY DEF CpuAddrs, Bytes
      <3>2. a \in Int
        BY <3>1, ByteFacts
      <3> HIDE DEF a
      <3>3. a \div 256 \in Int /\ a + offset \in Int
        BY <3>1, <3>2
      <3>4. Low(a + offset) \in Int
        BY <3>3, ByteFacts
      <3>. QED
        BY <3>2, <3>3, <3>4, ByteFacts DEF BranchWithoutPage
    <2> HIDE DEF a, b
    <2>3. PICK m \in 0 .. 1 : Finds(next, m)
      <3>1. Read(a) \in Cycles /\ Read(a) # Write(OamDma)
        BY <2>2, CycleKinds
      <3>2. Finds(<<>>, 0) /\ Finds(<<Read(a)>>, 1)
        BY <3>1, FewCycles
      <3>. QED
        BY <3>2
    <2>4. PICK n \in 0 .. 1 : Ends(again, n)
      <3>1. Read(b) \in Cycles
        BY <2>2, CycleKinds
      <3>2. Ends(<<>>, 0) /\ Ends(<<Read(b)>>, 1)
        BY <3>1, FewCycles
      <3>. QED
        BY <3>2
    <2> HIDE DEF next, again
    <2>5. Opens(Fetch(pc, 2) \o next, 2 + m)
      BY <2>3, FetchOpens, OpensFinds
    <2>6. 2 + m \in Nat /\ (2 + m) + n \in 2 .. 7
      OBVIOUS
    <2>. QED
      BY <2>1, <2>4, <2>5, <2>6, OpensEnds
  <1>11. ASSUME NEW first \in {NoAccess} \cup {Read(pc) : pc \in CpuAddrs}, NEW sp \in Bytes,
                NEW vector \in Vectors, t = Interrupt(first, sp, vector)
         PROVE  Paced(t)
    <2>1. /\ Stack(sp) \in Int /\ Stack(sp) # OamDma
          /\ Stack(sp - 1) \in Int /\ Stack(sp - 1) # OamDma
          /\ Stack(sp - 2) \in Int /\ Stack(sp - 2) # OamDma
      <3>1. sp \in Int /\ sp - 1 \in Int /\ sp - 2 \in Int
        BY DEF Bytes
      <3>. QED
        BY <3>1, ByteFacts
    <2>2. first.op # "write"
      BY DEF NoAccess, Read
    <2>. QED
      BY <1>11, <2>1, <2>2 DEF Interrupt, Paced, Read, Write, NoAccess
  <1>. QED
    BY <1>1, <1>2, <1>3, <1>4, <1>5, <1>6, <1>7, <1>8, <1>9, <1>10, <1>11
    DEF Instructions

-----------------------------------------------------------------------------
(***************************************************************************)
(* Mmc3Irq: the mapper's counter.  What Clock takes and returns, and what  *)
(* is true of it: Cpu.irq agrees with the mapper, the counter with the     *)
(* ticks since it was loaded, and the age counts from zero.                *)
(***************************************************************************)
Mappers == [irq : IrqTypes, cpuIrq : Nat, cycle : Int, seen : SeenTypes]

Sound(s) ==
  /\ s \in Mappers
  /\ s.cpuIrq = IF s.irq.trigger THEN 1 ELSE 0
  /\ s.irq.counter > 0 => s.seen.run + s.irq.counter = s.seen.loaded
  /\ s.seen.age \in 0 .. FilterSpan

\* No tick between s and r, and nothing missed.
Untouched(s, r) ==
  /\ r.seen.ticks = s.seen.ticks
  /\ r.seen.missed <=> s.seen.missed
  /\ r.irq.trigger <=> s.irq.trigger
  /\ r.seen.run = s.seen.run
  /\ r.seen.loaded = s.seen.loaded

\* The IRQ is raised between s and r only on the tick that was asked for.
OnTime(s, r) == ~s.irq.trigger /\ r.irq.trigger => r.seen.run = r.seen.loaded

(* A tick reloads the counter or takes one away, and nothing else.         *)
LEMMA TickedParts ==
  ASSUME NEW q \in IrqTypes
  PROVE  /\ Ticked(q) \in IrqTypes
         /\ q.reload \/ q.counter = 0 => Ticked(q).counter = q.latch
         /\ ~(q.reload \/ q.counter = 0) =>
              q.counter > 0 /\ Ticked(q).counter = q.counter - 1
         /\ Ticked(q).trigger = q.trigger
<1>. USE Mmc3Assumption DEF IrqTypes
<1>1. CASE q.reload \/ q.counter = 0
  <2>1. Ticked(q) = [q EXCEPT !.counter = q.latch, !.reload = FALSE]
    BY <1>1 DEF Ticked
  <2>. QED
    BY <1>1, <2>1
<1>2. CASE ~(q.reload \/ q.counter = 0)
  <2>1. Ticked(q) = [q EXCEPT !.counter = q.counter - 1]
    BY <1>2 DEF Ticked
  <2>. QED
    BY <1>2, <2>1
<1>. QED
  BY <1>1, <1>2

(* What a value of A12 does to the mapper, with a tick and without.        *)
LEMMA MapperParts ==
  ASSUME NEW q \in IrqTypes, NEW a12 \in BOOLEAN, NEW c \in Int,
         NEW p, p = MapperAfter(q, a12, c)
  PROVE  /\ p \in IrqTypes
         /\ p.a12 = a12
         /\ p.highAt = IF a12 THEN c ELSE q.highAt
         /\ Ticks(q, a12, c) => /\ p.counter = Ticked(q).counter
                                /\ p.trigger <=> q.trigger \/ Fires(Ticked(q))
         /\ ~Ticks(q, a12, c) => p.counter = q.counter /\ p.trigger = q.trigger
<1>1. PICK at : at = IF a12 THEN c ELSE q.highAt
  OBVIOUS
<1>2. at \in Int
  BY <1>1 DEF IrqTypes
<1>3. CASE Ticks(q, a12, c)
  <2>1. PICK u : u = Ticked(q)
    OBVIOUS
  <2>2. u \in IrqTypes /\ u.trigger = q.trigger /\ u.trigger \in BOOLEAN
    BY <2>1, TickedParts DEF IrqTypes
  <2>3. PICK up \in BOOLEAN : up <=> u.trigger \/ Fires(u)
    OBVIOUS
  <2>4. up = (u.trigger \/ (Ticks(q, a12, c) /\ Fires(u)))
    BY <1>3, <2>2, <2>3
  <2>5. at = IF a12 THEN c ELSE u.highAt
    <3>1. u.highAt = q.highAt
      BY <2>1 DEF Ticked, IrqTypes
    <3>. QED
      BY <1>1, <3>1
  <2>6. p = [u EXCEPT !.trigger = up, !.highAt = at, !.a12 = a12]
    BY <1>3, <2>1, <2>4, <2>5 DEF MapperAfter
  <2>7. p \in IrqTypes /\ p.counter = u.counter /\ p.trigger = up /\ p.a12 = a12 /\ p.highAt = at
    BY <1>2, <2>2, <2>6 DEF IrqTypes
  <2>. QED
    BY <1>1, <1>3, <2>1, <2>2, <2>3, <2>7
<1>4. CASE ~Ticks(q, a12, c)
  <2>1. q.trigger \in BOOLEAN
    BY DEF IrqTypes
  <2>2. q.trigger = (q.trigger \/ (Ticks(q, a12, c) /\ Fires(q)))
    BY <1>4, <2>1
  <2>3. p = [q EXCEPT !.trigger = q.trigger, !.highAt = at, !.a12 = a12]
    BY <1>1, <1>4, <2>2 DEF MapperAfter
  <2>4. /\ p \in IrqTypes /\ p.counter = q.counter /\ p.trigger = q.trigger
        /\ p.a12 = a12 /\ p.highAt = at
    BY <1>2, <2>1, <2>3 DEF IrqTypes
  <2>. QED
    BY <1>1, <1>4, <2>4
<1>. QED
  BY <1>3, <1>4

(* ... and to what is seen of it.                                          *)
LEMMA SeenParts ==
  ASSUME NEW e \in SeenTypes, NEW q \in IrqTypes, NEW a12 \in BOOLEAN, NEW c \in Int,
         NEW n \in Int, n >= 0,
         NEW f, f = SeenAfter(e, q, a12, c, n)
  PROVE  /\ f \in SeenTypes
         /\ f.age = (IF a12 THEN 0 ELSE UpToSpan(n)) /\ f.age \in 0 .. FilterSpan
         /\ Ticks(q, a12, c) =>
              /\ f.ticks = e.ticks + 1
              /\ f.loaded = IF q.reload \/ q.counter = 0 THEN q.latch ELSE e.loaded
              /\ f.run = IF q.reload \/ q.counter = 0 THEN 0 ELSE e.run + 1
              /\ f.missed <=> e.missed
         /\ ~Ticks(q, a12, c) =>
              /\ f.ticks = e.ticks /\ f.loaded = e.loaded /\ f.run = e.run
              /\ f.missed <=> e.missed \/ (Rises(q, a12) /\ n > 6)
<1>1. PICK g : g = IF a12 THEN 0 ELSE UpToSpan(n)
  OBVIOUS
<1>2. g \in 0 .. FilterSpan /\ g \in Int
  BY <1>1 DEF UpToSpan, FilterSpan
<1>3. /\ e.ticks \in Nat /\ e.loaded \in 0 .. MaxLatch /\ e.run \in Nat /\ e.missed \in BOOLEAN
      /\ q.latch \in 0 .. MaxLatch
  BY DEF SeenTypes, IrqTypes
<1>4. PICK reload : reload = (q.reload \/ q.counter = 0)
  OBVIOUS
<1>5. PICK m \in BOOLEAN : m = (e.missed \/ (Rises(q, a12) /\ ~Ticks(q, a12, c) /\ n > 6))
  OBVIOUS
<1>6. CASE Ticks(q, a12, c)
  <2>1. PICK l \in 0 .. MaxLatch : l = IF reload THEN q.latch ELSE e.loaded
    BY <1>3
  <2>2. PICK r \in Nat : r = IF reload THEN 0 ELSE e.run + 1
    BY <1>3
  <2>3. f = [ticks |-> e.ticks + 1, loaded |-> l, run |-> r, age |-> g, missed |-> m]
    BY <1>1, <1>4, <1>5, <1>6, <2>1, <2>2 DEF SeenAfter
  <2>4. f \in SeenTypes
    BY <1>2, <1>3, <2>3 DEF SeenTypes
  <2>5. m <=> e.missed
    BY <1>5, <1>6
  <2>6. f.ticks = e.ticks + 1 /\ f.loaded = l /\ f.run = r /\ f.age = g /\ f.missed = m
    BY <2>3
  <2>. QED
    BY <1>1, <1>2, <1>4, <1>6, <2>1, <2>2, <2>4, <2>5, <2>6
<1>7. CASE ~Ticks(q, a12, c)
  <2>1. f = [ticks |-> e.ticks, loaded |-> e.loaded, run |-> e.run, age |-> g, missed |-> m]
    BY <1>1, <1>5, <1>7 DEF SeenAfter
  <2>2. f \in SeenTypes
    BY <1>2, <1>3, <2>1 DEF SeenTypes
  <2>3. m <=> e.missed \/ (Rises(q, a12) /\ n > 6)
    BY <1>5, <1>7
  <2>4. f.ticks = e.ticks /\ f.loaded = e.loaded /\ f.run = e.run /\ f.age = g /\ f.missed = m
    BY <2>1
  <2>. QED
    BY <1>1, <1>2, <1>7, <2>2, <2>3, <2>4
<1>. QED
  BY <1>6, <1>7

(* The parts of what Clock returns.                                        *)
LEMMA ClockParts ==
  ASSUME NEW s, Sound(s), NEW a12 \in BOOLEAN, NEW c \in Int, c >= s.cycle,
         NEW r, r = Clock(s, a12, c)
  PROVE  /\ s.irq \in IrqTypes /\ s.seen \in SeenTypes
         /\ s.seen.age + (c - s.cycle) \in Nat
         /\ r.irq = MapperAfter(s.irq, a12, c)
         /\ r.seen = SeenAfter(s.seen, s.irq, a12, c, s.seen.age + (c - s.cycle))
         /\ r.cycle = c
         /\ r.cpuIrq = IF r.irq.trigger /\ ~s.irq.trigger THEN s.cpuIrq + 1 ELSE s.cpuIrq
         /\ r = [irq |-> r.irq, cpuIrq |-> r.cpuIrq, cycle |-> r.cycle, seen |-> r.seen]
         /\ s.cpuIrq = IF s.irq.trigger THEN 1 ELSE 0
         /\ s.irq.counter > 0 => s.seen.run + s.irq.counter = s.seen.loaded
<1>1. /\ s.irq \in IrqTypes /\ s.seen \in SeenTypes /\ s.cycle \in Int
      /\ s.seen.age \in 0 .. FilterSpan
  BY DEF Sound, Mappers
<1>2. s.seen.age + (c - s.cycle) \in Nat
  BY <1>1 DEF FilterSpan
<1>3. PICK p : p = MapperAfter(s.irq, a12, c)
  OBVIOUS
<1>4. PICK f : f = SeenAfter(s.seen, s.irq, a12, c, s.seen.age + (c - s.cycle))
  OBVIOUS
<1>5. PICK k : k = IF p.trigger /\ ~s.irq.trigger THEN s.cpuIrq + 1 ELSE s.cpuIrq
  OBVIOUS
<1>6. r = [irq |-> p, cpuIrq |-> k, cycle |-> c, seen |-> f]
  BY <1>3, <1>4, <1>5 DEF Clock
<1>7. r.irq = p /\ r.cpuIrq = k /\ r.cycle = c /\ r.seen = f
  BY <1>6
<1>8. s.cpuIrq = (IF s.irq.trigger THEN 1 ELSE 0)
      /\ (s.irq.counter > 0 => s.seen.run + s.irq.counter = s.seen.loaded)
  BY DEF Sound
<1>. QED
  BY <1>1, <1>2, <1>3, <1>4, <1>5, <1>6, <1>7, <1>8

(* A value of A12 that is low, or as high as before, is only remembered.   *)
LEMMA StillClock ==
  ASSUME NEW s, Sound(s), NEW a12 \in BOOLEAN, NEW c \in Int, c >= s.cycle,
         ~Rises(s.irq, a12),
         NEW r, r = Clock(s, a12, c)
  PROVE  /\ Sound(r)
         /\ Untouched(s, r)
         /\ r.cycle = c
         /\ r.irq.a12 = a12
         /\ r.irq.highAt = IF a12 THEN c ELSE s.irq.highAt
         /\ r.seen.age = IF a12 THEN 0 ELSE UpToSpan(s.seen.age + (c - s.cycle))
<1>1. ~Ticks(s.irq, a12, c)
  BY DEF Ticks
<1>2. /\ s.irq \in IrqTypes /\ s.seen \in SeenTypes
      /\ s.seen.age + (c - s.cycle) \in Nat
      /\ r.irq = MapperAfter(s.irq, a12, c)
      /\ r.seen = SeenAfter(s.seen, s.irq, a12, c, s.seen.age + (c - s.cycle))
      /\ r.cycle = c
      /\ r.cpuIrq = IF r.irq.trigger /\ ~s.irq.trigger THEN s.cpuIrq + 1 ELSE s.cpuIrq
      /\ r = [irq |-> r.irq, cpuIrq |-> r.cpuIrq, cycle |-> r.cycle, seen |-> r.seen]
      /\ s.cpuIrq = IF s.irq.trigger THEN 1 ELSE 0
      /\ s.irq.counter > 0 => s.seen.run + s.irq.counter = s.seen.loaded
  BY ClockParts
<1>3. /\ r.irq \in IrqTypes /\ r.irq.a12 = a12
      /\ r.irq.highAt = IF a12 THEN c ELSE s.irq.highAt
      /\ r.irq.counter = s.irq.counter /\ r.irq.trigger = s.irq.trigger
  BY <1>1, <1>2, MapperParts
<1>4. PICK n \in Nat : n = s.seen.age + (c - s.cycle)
  BY <1>2
<1>5. /\ r.seen \in SeenTypes
      /\ r.seen.age = (IF a12 THEN 0 ELSE UpToSpan(n)) /\ r.seen.age \in 0 .. FilterSpan
      /\ r.seen.ticks = s.seen.ticks /\ r.seen.loaded = s.seen.loaded
      /\ r.seen.run = s.seen.run
      /\ r.seen.missed <=> s.seen.missed
  <2>1. r.seen = SeenAfter(s.seen, s.irq, a12, c, n) /\ n \in Int /\ n >= 0
    BY <1>2, <1>4
  <2>2. PICK f : f = r.seen
    OBVIOUS
  <2>3. /\ f \in SeenTypes
        /\ f.age = (IF a12 THEN 0 ELSE UpToSpan(n)) /\ f.age \in 0 .. FilterSpan
        /\ ~Ticks(s.irq, a12, c) =>
              /\ f.ticks = s.seen.ticks /\ f.loaded = s.seen.loaded /\ f.run = s.seen.run
              /\ f.missed <=> s.seen.missed \/ (Rises(s.irq, a12) /\ n > 6)
    BY <1>2, <2>1, <2>2, SeenParts
  <2>4. f.missed <=> s.seen.missed
    BY <1>1, <2>3
  <2>. QED
    BY <1>1, <2>2, <2>3, <2>4
<1>6. r.cpuIrq = s.cpuIrq /\ r.cpuIrq \in Nat
  BY <1>2, <1>3
<1>7. r \in Mappers
  BY <1>2, <1>3, <1>5, <1>6 DEF Mappers
<1>8. Sound(r)
  BY <1>2, <1>3, <1>5, <1>6, <1>7 DEF Sound
<1>9. Untouched(s, r)
  BY <1>3, <1>5 DEF Untouched
<1>. QED
  BY <1>2, <1>3, <1>4, <1>5, <1>8, <1>9

(* A rise ticks, or is ignored, and missed if A12 had been low for long.   *)
LEMMA RiseClock ==
  ASSUME NEW s, Sound(s), NEW a12 \in BOOLEAN, NEW c \in Int, c >= s.cycle,
         Rises(s.irq, a12), NEW r, r = Clock(s, a12, c)
  PROVE  /\ Sound(r)
         /\ OnTime(s, r)
         /\ r.cycle = c /\ r.irq.a12 = a12 /\ r.irq.highAt = c /\ r.seen.age = 0
         /\ r.seen.missed \/ (r.seen.ticks = s.seen.ticks + 1)
            \/ s.seen.age + (c - s.cycle) <= 6
         /\ ~LongLow(c, s.irq.highAt) /\ s.seen.age + (c - s.cycle) <= 6 => Untouched(s, r)
<1>1. Ticks(s.irq, a12, c) <=> LongLow(c, s.irq.highAt)
  BY DEF Ticks
<1>2. /\ s.irq \in IrqTypes /\ s.seen \in SeenTypes
      /\ s.seen.age + (c - s.cycle) \in Nat
      /\ r.irq = MapperAfter(s.irq, a12, c)
      /\ r.seen = SeenAfter(s.seen, s.irq, a12, c, s.seen.age + (c - s.cycle))
      /\ r.cycle = c
      /\ r.cpuIrq = IF r.irq.trigger /\ ~s.irq.trigger THEN s.cpuIrq + 1 ELSE s.cpuIrq
      /\ r = [irq |-> r.irq, cpuIrq |-> r.cpuIrq, cycle |-> r.cycle, seen |-> r.seen]
      /\ s.cpuIrq = IF s.irq.trigger THEN 1 ELSE 0
      /\ s.irq.counter > 0 => s.seen.run + s.irq.counter = s.seen.loaded
  BY ClockParts
<1>3. /\ r.irq \in IrqTypes /\ r.irq.a12 = a12 /\ r.irq.highAt = c
      /\ Ticks(s.irq, a12, c) => /\ r.irq.counter = Ticked(s.irq).counter
                                 /\ r.irq.trigger <=> s.irq.trigger \/ Fires(Ticked(s.irq))
      /\ ~Ticks(s.irq, a12, c) => r.irq.counter = s.irq.counter
                                   /\ r.irq.trigger = s.irq.trigger
  <2>1. PICK p : p = r.irq
    OBVIOUS
  <2>2. /\ p \in IrqTypes /\ p.a12 = a12 /\ p.highAt = IF a12 THEN c ELSE s.irq.highAt
        /\ Ticks(s.irq, a12, c) => /\ p.counter = Ticked(s.irq).counter
                                   /\ p.trigger <=> s.irq.trigger \/ Fires(Ticked(s.irq))
        /\ ~Ticks(s.irq, a12, c) => p.counter = s.irq.counter /\ p.trigger = s.irq.trigger
    BY <1>2, <2>1, MapperParts
  <2>3. p.highAt = c
    BY <2>2 DEF Rises
  <2>. QED
    BY <2>1, <2>2, <2>3
<1>4. PICK n \in Nat : n = s.seen.age + (c - s.cycle)
  BY <1>2
<1>5. /\ r.seen \in SeenTypes /\ r.seen.age = 0
      /\ Ticks(s.irq, a12, c) =>
           /\ r.seen.ticks = s.seen.ticks + 1
           /\ r.seen.loaded = IF s.irq.reload \/ s.irq.counter = 0 THEN s.irq.latch
                              ELSE s.seen.loaded
           /\ r.seen.run = IF s.irq.reload \/ s.irq.counter = 0 THEN 0 ELSE s.seen.run + 1
           /\ r.seen.missed <=> s.seen.missed
      /\ ~Ticks(s.irq, a12, c) =>
           /\ r.seen.ticks = s.seen.ticks /\ r.seen.loaded = s.seen.loaded
           /\ r.seen.run = s.seen.run
           /\ r.seen.missed <=> s.seen.missed \/ n > 6
  <2>1. r.seen = SeenAfter(s.seen, s.irq, a12, c, n) /\ n \in Int /\ n >= 0
    BY <1>2, <1>4
  <2>2. PICK f : f = r.seen
    OBVIOUS
  <2>3. /\ f \in SeenTypes /\ f.age = IF a12 THEN 0 ELSE UpToSpan(n)
        /\ Ticks(s.irq, a12, c) =>
             /\ f.ticks = s.seen.ticks + 1
             /\ f.loaded = IF s.irq.reload \/ s.irq.counter = 0 THEN s.irq.latch
                           ELSE s.seen.loaded
             /\ f.run = IF s.irq.reload \/ s.irq.counter = 0 THEN 0 ELSE s.seen.run + 1
             /\ f.missed <=> s.seen.missed
        /\ ~Ticks(s.irq, a12, c) =>
             /\ f.ticks = s.seen.ticks /\ f.loaded = s.seen.loaded /\ f.run = s.seen.run
             /\ f.missed <=> s.seen.missed \/ (Rises(s.irq, a12) /\ n > 6)
    BY <1>2, <2>1, <2>2, SeenParts
  <2>4. ~Ticks(s.irq, a12, c) => (f.missed <=> s.seen.missed \/ n > 6)
    BY <2>3
  <2>5. f.age = 0
    BY <2>3 DEF Rises
  <2>. QED
    BY <2>2, <2>3, <2>4, <2>5
<1>6. r.irq \in IrqTypes /\ r.seen \in SeenTypes /\ r.seen.age = 0
  BY <1>3, <1>5
<1>7. r.cpuIrq = (IF r.irq.trigger THEN 1 ELSE 0) /\ r.cpuIrq \in Nat
  <2>1. s.irq.trigger => r.irq.trigger
    BY <1>3
  <2>. QED
    BY <1>2, <2>1
<1>8. r \in Mappers /\ r.seen.age \in 0 .. FilterSpan
  BY <1>2, <1>7, <1>6 DEF Mappers, FilterSpan
<1>9. CASE Ticks(s.irq, a12, c)
  <2>1. PICK reload \in BOOLEAN : reload = (s.irq.reload \/ s.irq.counter = 0)
    OBVIOUS
  <2>2. r.irq.counter = Ticked(s.irq).counter
    BY <1>3, <1>9
  <2>3. r.seen.ticks = s.seen.ticks + 1
    BY <1>5, <1>9
  <2>4. r.seen.loaded = IF reload THEN s.irq.latch ELSE s.seen.loaded
    BY <1>5, <1>9, <2>1
  <2>5. r.seen.run = IF reload THEN 0 ELSE s.seen.run + 1
    BY <1>5, <1>9, <2>1
  <2>6. /\ r.irq.counter = Ticked(s.irq).counter
        /\ r.seen.loaded = IF reload THEN s.irq.latch ELSE s.seen.loaded
        /\ r.seen.run = IF reload THEN 0 ELSE s.seen.run + 1
        /\ r.seen.ticks = s.seen.ticks + 1
    BY <2>2, <2>3, <2>4, <2>5
  <2>7. /\ reload => r.irq.counter = s.irq.latch
        /\ ~reload => s.irq.counter > 0 /\ r.irq.counter = s.irq.counter - 1
    BY <1>2, <2>1, <2>6, TickedParts
  <2>8. /\ s.irq.counter \in Int /\ s.irq.latch \in Int
        /\ s.seen.run \in Int /\ s.seen.loaded \in Int
    BY <1>2, Mmc3Assumption DEF IrqTypes, SeenTypes
  <2>9. r.seen.run + r.irq.counter = r.seen.loaded
    <3>1. CASE reload
      BY <2>6, <2>7, <2>8, <3>1
    <3>2. CASE ~reload
      BY <1>2, <2>6, <2>7, <2>8, <3>2
    <3>. QED
      BY <3>1, <3>2
  <2>10. Sound(r)
    BY <1>7, <1>8, <2>9 DEF Sound
  <2>11. r.seen.run \in Int
    BY <1>6 DEF SeenTypes
  <2>12. r.irq.trigger <=> s.irq.trigger \/ Fires(Ticked(s.irq))
    BY <1>3, <1>9
  <2>13. OnTime(s, r)
    <3>. SUFFICES ASSUME ~s.irq.trigger, r.irq.trigger PROVE r.seen.run = r.seen.loaded
      BY DEF OnTime
    <3>1. Fires(Ticked(s.irq))
      BY <2>12
    <3>2. r.irq.counter = 0
      BY <2>6, <3>1 DEF Fires
    <3>. QED
      BY <2>9, <2>11, <3>2
  <2>. QED
    BY <1>1, <1>2, <1>3, <1>5, <1>9, <2>6, <2>10, <2>13
<1>10. CASE ~Ticks(s.irq, a12, c)
  <2>1. Sound(r)
    BY <1>2, <1>3, <1>5, <1>7, <1>8, <1>10 DEF Sound
  <2>2. OnTime(s, r)
    BY <1>1, <1>3, <1>10 DEF OnTime
  <2>3. r.seen.missed <=> s.seen.missed \/ n > 6
    BY <1>1, <1>5, <1>10
  <2>4. n <= 6 => ~(n > 6)
    OBVIOUS
  <2>5. n <= 6 => Untouched(s, r)
    BY <1>1, <1>3, <1>5, <1>10, <2>3, <2>4 DEF Untouched
  <2>6. n > 6 \/ n <= 6
    OBVIOUS
  <2>7. r.seen.missed \/ n <= 6
    BY <2>3, <2>6
  <2>. QED
    BY <1>2, <1>3, <1>4, <1>5, <1>10, <2>1, <2>2, <2>5, <2>7
<1>. QED
  BY <1>9, <1>10

(***************************************************************************)
(* One fetch of the PPU: four values of A12, two cycles apart.             *)
(***************************************************************************)
IsLow(a12) == a12 = FALSE
IsHigh(a12) == a12 = TRUE

LowBus(bus) == IsLow(bus[1]) /\ IsLow(bus[2]) /\ IsLow(bus[3]) /\ IsLow(bus[4])
MiddleBus(bus) == IsLow(bus[1]) /\ IsHigh(bus[2]) /\ IsHigh(bus[3]) /\ IsLow(bus[4])
LateBus(bus) == IsLow(bus[1]) /\ IsLow(bus[2]) /\ IsHigh(bus[3]) /\ IsHigh(bus[4])

\* Fetches from the lower table, and of the background and the sprites from
\* the upper one.
LowFetch(s) == \E bus : LowBus(bus) /\ s = AfterFetch(bus)
MiddleFetch(s) == \E bus : MiddleBus(bus) /\ s = AfterFetch(bus)
LateFetch(s) == \E bus : LateBus(bus) /\ s = AfterFetch(bus)

\* What is read of a mapper between two values of A12.
Age(s) == s.seen.age
TicksOf(s) == s.seen.ticks
Missed(s) == s.seen.missed
HighAt(s) == s.irq.highAt
At(s) == s.cycle
WasLow(s) == s.irq.a12 = FALSE
WasHigh(s) == s.irq.a12 = TRUE

(* A12 is low: nothing but the age changes.                                *)
LEMMA LowClock ==
  ASSUME NEW s, Sound(s), NEW a12, IsLow(a12), NEW c \in Int, c >= At(s),
         NEW r, r = Clock(s, a12, c)
  PROVE  /\ Sound(r) /\ Untouched(s, r) /\ At(r) = c /\ WasLow(r)
         /\ HighAt(r) = HighAt(s)
         /\ Age(s) + (c - At(s)) <= 7 => Age(r) = Age(s) + (c - At(s))
         /\ Age(s) + (c - At(s)) > 7 => Age(r) = 7
<1>1. ~Rises(s.irq, a12) /\ a12 \in BOOLEAN
  BY DEF Rises, IsLow
<1>2. /\ Sound(r) /\ Untouched(s, r) /\ r.cycle = c /\ r.irq.a12 = a12
      /\ r.irq.highAt = IF a12 THEN c ELSE s.irq.highAt
      /\ r.seen.age = IF a12 THEN 0 ELSE UpToSpan(s.seen.age + (c - s.cycle))
  BY <1>1, StillClock DEF At
<1>3. WasLow(r) /\ HighAt(r) = HighAt(s) /\ At(r) = c
      /\ Age(r) = UpToSpan(Age(s) + (c - At(s)))
  BY <1>2 DEF IsLow, WasLow, HighAt, Age, At
<1>4. Age(s) \in Int /\ At(s) \in Int
  BY DEF Sound, Mappers, FilterSpan, Age, At
<1>5. /\ Age(s) + (c - At(s)) <= 7 => Age(r) = Age(s) + (c - At(s))
      /\ Age(s) + (c - At(s)) > 7 => Age(r) = 7
  BY <1>3, <1>4 DEF UpToSpan, FilterSpan
<1>. QED
  BY <1>2, <1>3, <1>5

(* A12 is high, and was high before.                                       *)
LEMMA HighClock ==
  ASSUME NEW s, Sound(s), NEW a12, IsHigh(a12), WasHigh(s), NEW c \in Int, c >= At(s),
         NEW r, r = Clock(s, a12, c)
  PROVE  /\ Sound(r) /\ Untouched(s, r) /\ At(r) = c
         /\ HighAt(r) = c /\ Age(r) = 0
<1>1. ~Rises(s.irq, a12) /\ a12 \in BOOLEAN
  BY DEF Rises, IsHigh, WasHigh
<1>2. /\ Sound(r) /\ Untouched(s, r) /\ r.cycle = c
      /\ r.irq.highAt = IF a12 THEN c ELSE s.irq.highAt
      /\ r.seen.age = IF a12 THEN 0 ELSE UpToSpan(s.seen.age + (c - s.cycle))
  BY <1>1, StillClock DEF At
<1>3. At(r) = c /\ HighAt(r) = c /\ Age(r) = 0
  BY <1>2 DEF IsHigh, At, HighAt, Age
<1>. QED
  BY <1>2, <1>3

(* A12 rises: a tick, unless it is missed or follows a high A12 closely.   *)
LEMMA UpClock ==
  ASSUME NEW s, Sound(s), NEW a12, IsHigh(a12), WasLow(s), NEW c \in Int, c >= At(s),
         NEW r, r = Clock(s, a12, c)
  PROVE  /\ Sound(r) /\ OnTime(s, r) /\ At(r) = c /\ WasHigh(r)
         /\ HighAt(r) = c /\ Age(r) = 0
         /\ Missed(r) \/ TicksOf(r) = TicksOf(s) + 1 \/ Age(s) + (c - At(s)) <= 6
         /\ ~LongLow(c, HighAt(s)) /\ Age(s) + (c - At(s)) <= 6 => Untouched(s, r)
<1>1. Rises(s.irq, a12) /\ a12 \in BOOLEAN
  BY DEF Rises, IsHigh, WasLow
<1>2. /\ Sound(r) /\ OnTime(s, r) /\ r.cycle = c /\ r.irq.a12 = a12
      /\ r.irq.highAt = c /\ r.seen.age = 0
      /\ r.seen.missed \/ (r.seen.ticks = s.seen.ticks + 1)
         \/ s.seen.age + (c - s.cycle) <= 6
      /\ ~LongLow(c, s.irq.highAt) /\ s.seen.age + (c - s.cycle) <= 6 => Untouched(s, r)
  BY <1>1, RiseClock DEF At
<1>3. WasHigh(r)
  BY <1>2 DEF WasHigh, IsHigh
<1>. QED
  BY <1>2, <1>3 DEF At, HighAt, Age, Missed, TicksOf

(* Without a tick nothing that the claims read changes.                    *)
LEMMA UntouchedSteps ==
  ASSUME NEW s1, NEW s2, NEW s3, NEW s4,
         Untouched(s1, s2), OnTime(s2, s3), Untouched(s3, s4)
  PROVE  OnTime(s1, s4)
BY DEF Untouched, OnTime

(* What two of them leave alone, both do.                                  *)
LEMMA UntouchedTwice ==
  ASSUME NEW s1, NEW s2, NEW s3, Untouched(s1, s2), Untouched(s2, s3)
  PROVE  Untouched(s1, s3)
BY DEF Untouched

(* What is left alone counts as many ticks, and is missed no more.         *)
LEMMA UntouchedTicks ==
  ASSUME NEW s, NEW r, Untouched(s, r)
  PROVE  TicksOf(r) = TicksOf(s) /\ (Missed(r) <=> Missed(s))
BY DEF Untouched, TicksOf, Missed

(* The types of what is read of a mapper.                                  *)
LEMMA SoundParts ==
  ASSUME NEW s, Sound(s)
  PROVE  Age(s) \in 0 .. 7 /\ At(s) \in Int /\ TicksOf(s) \in Nat
BY DEF Sound, Mappers, SeenTypes, FilterSpan, Age, At, TicksOf

(* The four values of A12 are seen one after the other.                    *)
LEMMA FetchSteps ==
  ASSUME Sound(Now), NEW bus, NEW r, r = AfterFetch(bus)
  PROVE  \E s0, s1, s2, s3 :
           /\ s0 = Now /\ Sound(s0) /\ At(s0) = cycle /\ cycle \in Int
           /\ Age(s0) = Age(Now) /\ TicksOf(s0) = TicksOf(Now) /\ HighAt(s0) = HighAt(Now)
           /\ s1 = Clock(s0, bus[1], cycle)
           /\ s2 = Clock(s1, bus[2], cycle + 2)
           /\ s3 = Clock(s2, bus[3], cycle + 4)
           /\ r = Clock(s3, bus[4], cycle + 6)
<1>1. PICK s0 : s0 = Now
  OBVIOUS
<1>2. /\ Sound(s0) /\ At(s0) = cycle /\ Age(s0) = Age(Now)
      /\ TicksOf(s0) = TicksOf(Now) /\ HighAt(s0) = HighAt(Now)
  BY <1>1 DEF Now, At
<1>3. cycle \in Int
  BY <1>2, SoundParts
<1>4. PICK s1 : s1 = Clock(s0, bus[1], cycle)
  OBVIOUS
<1>5. PICK s2 : s2 = Clock(s1, bus[2], cycle + 2)
  OBVIOUS
<1>6. PICK s3 : s3 = Clock(s2, bus[3], cycle + 4)
  OBVIOUS
<1>7. r = Clock(s3, bus[4], cycle + 6)
  BY <1>1, <1>4, <1>5, <1>6 DEF AfterFetch
<1>. QED
  BY <1>1, <1>2, <1>3, <1>4, <1>5, <1>6, <1>7

(* A fetch that never raises A12 leaves the mapper alone.                  *)
LEMMA FetchLow ==
  ASSUME Sound(Now), NEW r, LowFetch(r)
  PROVE  /\ Sound(r) /\ Untouched(Now, r) /\ At(r) = cycle + 6
         /\ Age(r) \in 6 .. 7
<1>1. PICK bus : LowBus(bus) /\ r = AfterFetch(bus)
  BY DEF LowFetch
<1>2. PICK s0, s1, s2, s3 :
        /\ s0 = Now /\ Sound(s0) /\ At(s0) = cycle /\ cycle \in Int
        /\ Age(s0) = Age(Now) /\ TicksOf(s0) = TicksOf(Now) /\ HighAt(s0) = HighAt(Now)
        /\ s1 = Clock(s0, bus[1], cycle)
        /\ s2 = Clock(s1, bus[2], cycle + 2)
        /\ s3 = Clock(s2, bus[3], cycle + 4)
        /\ r = Clock(s3, bus[4], cycle + 6)
  BY <1>1, FetchSteps
<1>3. IsLow(bus[1]) /\ IsLow(bus[2]) /\ IsLow(bus[3]) /\ IsLow(bus[4])
  BY <1>1 DEF LowBus
<1>4. /\ Sound(s1) /\ Untouched(s0, s1) /\ At(s1) = cycle
  BY <1>2, <1>3, LowClock
<1>5. /\ Sound(s2) /\ Untouched(s1, s2) /\ At(s2) = cycle + 2
      /\ Age(s1) + 2 <= 7 => Age(s2) = Age(s1) + 2
      /\ Age(s1) + 2 > 7 => Age(s2) = 7
  BY <1>2, <1>3, <1>4, LowClock
<1>6. /\ Sound(s3) /\ Untouched(s2, s3) /\ At(s3) = cycle + 4
      /\ Age(s2) + 2 <= 7 => Age(s3) = Age(s2) + 2
      /\ Age(s2) + 2 > 7 => Age(s3) = 7
  BY <1>2, <1>3, <1>5, LowClock
<1>7. /\ Sound(r) /\ Untouched(s3, r) /\ At(r) = cycle + 6
      /\ Age(s3) + 2 <= 7 => Age(r) = Age(s3) + 2
      /\ Age(s3) + 2 > 7 => Age(r) = 7
  BY <1>2, <1>3, <1>6, LowClock
<1>8. Age(s1) \in 0 .. 7
  BY <1>4, SoundParts
<1>9. Age(r) \in 6 .. 7
  BY <1>5, <1>6, <1>7, <1>8
<1>10. Untouched(s0, r)
  BY <1>4, <1>5, <1>6, <1>7, UntouchedTwice
<1>. QED
  BY <1>2, <1>7, <1>9, <1>10

(* A background fetch from the upper table: A12 rises two cycles after its *)
(* start and falls two cycles before its end.                              *)
LEMMA FetchBackground ==
  ASSUME Sound(Now), NEW r, MiddleFetch(r)
  PROVE  /\ Sound(r) /\ OnTime(Now, r) /\ At(r) = cycle + 6
         /\ Age(r) = 2 /\ HighAt(r) = cycle + 4
         /\ HighAt(Now) \in cycle - 4 .. cycle /\ Age(Now) <= 4 => Untouched(Now, r)
         /\ Age(Now) = FilterSpan /\ ~Missed(r) => TicksOf(r) = TicksOf(Now) + 1
<1>1. PICK bus : MiddleBus(bus) /\ r = AfterFetch(bus)
  BY DEF MiddleFetch
<1>2. PICK s0, s1, s2, s3 :
        /\ s0 = Now /\ Sound(s0) /\ At(s0) = cycle /\ cycle \in Int
        /\ Age(s0) = Age(Now) /\ TicksOf(s0) = TicksOf(Now) /\ HighAt(s0) = HighAt(Now)
        /\ s1 = Clock(s0, bus[1], cycle)
        /\ s2 = Clock(s1, bus[2], cycle + 2)
        /\ s3 = Clock(s2, bus[3], cycle + 4)
        /\ r = Clock(s3, bus[4], cycle + 6)
  BY <1>1, FetchSteps
<1>3. IsLow(bus[1]) /\ IsHigh(bus[2]) /\ IsHigh(bus[3]) /\ IsLow(bus[4])
  BY <1>1 DEF MiddleBus
<1>4. /\ Sound(s1) /\ Untouched(s0, s1) /\ At(s1) = cycle /\ WasLow(s1)
      /\ HighAt(s1) = HighAt(Now) /\ Age(s1) = Age(Now)
  <2>1. /\ Sound(s1) /\ Untouched(s0, s1) /\ At(s1) = cycle /\ WasLow(s1)
        /\ HighAt(s1) = HighAt(s0)
        /\ Age(s0) + 0 <= 7 => Age(s1) = Age(s0) + 0
    BY <1>2, <1>3, LowClock
  <2>. QED
    BY <1>2, <2>1, SoundParts
<1>5. /\ Sound(s2) /\ OnTime(s1, s2) /\ At(s2) = cycle + 2 /\ WasHigh(s2)
      /\ Missed(s2) \/ TicksOf(s2) = TicksOf(s1) + 1 \/ Age(s1) + 2 <= 6
      /\ ~LongLow(cycle + 2, HighAt(Now)) /\ Age(s1) + 2 <= 6 => Untouched(s1, s2)
  BY <1>2, <1>3, <1>4, UpClock
<1>6. /\ Sound(s3) /\ Untouched(s2, s3) /\ At(s3) = cycle + 4
      /\ HighAt(s3) = cycle + 4 /\ Age(s3) = 0
  BY <1>2, <1>3, <1>5, HighClock
<1>7. /\ Sound(r) /\ Untouched(s3, r) /\ At(r) = cycle + 6
      /\ HighAt(r) = cycle + 4 /\ Age(r) = 2
  BY <1>2, <1>3, <1>6, LowClock
<1>8. Age(s1) = Age(Now) /\ Age(Now) \in Int
  BY <1>2, <1>4, SoundParts
<1>9. ASSUME HighAt(Now) \in cycle - 4 .. cycle, Age(Now) <= 4
      PROVE  Untouched(s0, r)
  <2>1. ~LongLow(cycle + 2, HighAt(Now))
    BY <1>2, <1>9 DEF LongLow
  <2>2. Untouched(s1, s2)
    BY <1>5, <1>8, <1>9, <2>1
  <2>. QED
    BY <1>4, <1>6, <1>7, <2>2, UntouchedTwice
<1>10. Untouched(s2, r)
  BY <1>6, <1>7, UntouchedTwice
<1>11. OnTime(s0, r)
  BY <1>4, <1>5, <1>10, UntouchedSteps
<1>12. ASSUME Age(Now) = FilterSpan, ~Missed(r)
       PROVE  TicksOf(r) = TicksOf(Now) + 1
  <2>1. ~Missed(s2) /\ TicksOf(r) = TicksOf(s2) /\ TicksOf(s1) = TicksOf(Now)
    BY <1>2, <1>4, <1>10, <1>12, UntouchedTicks
  <2>. QED
    BY <1>5, <1>8, <1>12, <2>1 DEF FilterSpan
<1>. QED
  BY <1>2, <1>7, <1>9, <1>11, <1>12

(* A sprite fetch from the upper table: A12 rises four cycles after its    *)
(* start and is still high at its end.                                     *)
LEMMA FetchSprite ==
  ASSUME Sound(Now), NEW r, LateFetch(r)
  PROVE  /\ Sound(r) /\ OnTime(Now, r) /\ At(r) = cycle + 6
         /\ Age(r) = 0 /\ HighAt(r) = cycle + 6
         /\ HighAt(Now) = cycle - 2 /\ Age(Now) = 2 => Untouched(Now, r)
         /\ Age(Now) = FilterSpan /\ ~Missed(r) => TicksOf(r) = TicksOf(Now) + 1
<1>1. PICK bus : LateBus(bus) /\ r = AfterFetch(bus)
  BY DEF LateFetch
<1>2. PICK s0, s1, s2, s3 :
        /\ s0 = Now /\ Sound(s0) /\ At(s0) = cycle /\ cycle \in Int
        /\ Age(s0) = Age(Now) /\ TicksOf(s0) = TicksOf(Now) /\ HighAt(s0) = HighAt(Now)
        /\ s1 = Clock(s0, bus[1], cycle)
        /\ s2 = Clock(s1, bus[2], cycle + 2)
        /\ s3 = Clock(s2, bus[3], cycle + 4)
        /\ r = Clock(s3, bus[4], cycle + 6)
  BY <1>1, FetchSteps
<1>3. IsLow(bus[1]) /\ IsLow(bus[2]) /\ IsHigh(bus[3]) /\ IsHigh(bus[4])
  BY <1>1 DEF LateBus
<1>4. /\ Sound(s1) /\ Untouched(s0, s1) /\ At(s1) = cycle
      /\ HighAt(s1) = HighAt(Now) /\ Age(s1) = Age(Now)
  <2>1. /\ Sound(s1) /\ Untouched(s0, s1) /\ At(s1) = cycle /\ WasLow(s1)
        /\ HighAt(s1) = HighAt(s0)
        /\ Age(s0) + 0 <= 7 => Age(s1) = Age(s0) + 0
    BY <1>2, <1>3, LowClock
  <2>. QED
    BY <1>2, <2>1, SoundParts
<1>5. /\ Sound(s2) /\ Untouched(s1, s2) /\ At(s2) = cycle + 2 /\ WasLow(s2)
      /\ HighAt(s2) = HighAt(Now)
      /\ Age(s1) + 2 <= 7 => Age(s2) = Age(s1) + 2
      /\ Age(s1) + 2 > 7 => Age(s2) = 7
  BY <1>2, <1>3, <1>4, LowClock
<1>6. /\ Sound(s3) /\ OnTime(s2, s3) /\ At(s3) = cycle + 4 /\ WasHigh(s3)
      /\ Missed(s3) \/ TicksOf(s3) = TicksOf(s2) + 1 \/ Age(s2) + 2 <= 6
      /\ ~LongLow(cycle + 4, HighAt(Now)) /\ Age(s2) + 2 <= 6 => Untouched(s2, s3)
  BY <1>2, <1>3, <1>5, UpClock
<1>7. /\ Sound(r) /\ Untouched(s3, r) /\ At(r) = cycle + 6
      /\ HighAt(r) = cycle + 6 /\ Age(r) = 0
  BY <1>2, <1>3, <1>6, HighClock
<1>8. Age(s1) = Age(Now) /\ Age(Now) \in Int
  BY <1>2, <1>4, SoundParts
<1>9. Untouched(s0, s2)
  BY <1>4, <1>5, UntouchedTwice
<1>10. ASSUME HighAt(Now) = cycle - 2, Age(Now) = 2
       PROVE  Untouched(s0, r)
  <2>1. ~LongLow(cycle + 4, HighAt(Now))
    BY <1>2, <1>10 DEF LongLow
  <2>2. Untouched(s2, s3)
    BY <1>5, <1>6, <1>8, <1>10, <2>1
  <2>. QED
    BY <1>7, <1>9, <2>2, UntouchedTwice
<1>11. OnTime(s0, r)
  BY <1>6, <1>7, <1>9, UntouchedSteps
<1>12. ASSUME Age(Now) = FilterSpan, ~Missed(r)
       PROVE  TicksOf(r) = TicksOf(Now) + 1
  <2>1. ~Missed(s3) /\ TicksOf(r) = TicksOf(s3) /\ TicksOf(s2) = TicksOf(Now)
    BY <1>2, <1>7, <1>9, <1>12, UntouchedTicks
  <2>. QED
    BY <1>5, <1>6, <1>8, <1>12, <2>1 DEF FilterSpan
<1>. QED
  BY <1>2, <1>7, <1>10, <1>11, <1>12

(* The end of a step keeps what is true of the mapper.                     *)
LEMMA SettleParts ==
  ASSUME NEW s, Sound(s), NEW cost \in Int, cycle \in Int, Settle(s, cost),
         Age(s) + (cycle + cost - At(s)) >= 0
  PROVE  /\ Sound(Now)' /\ Untouched(s, Now')
         /\ cycle' = cycle + cost /\ HighAt(Now') = HighAt(s)
         /\ Age(Now') = UpToSpan(Age(s) + (cycle + cost - At(s)))
<1>1. PICK n : n = Age(s) + (cycle + cost - At(s))
  OBVIOUS
<1>2. PICK age : age = UpToSpan(n)
  OBVIOUS
<1>3. age \in 0 .. FilterSpan
  <2>1. n \in Int /\ n >= 0
    BY <1>1, SoundParts
  <2>. QED
    BY <1>2, <2>1 DEF UpToSpan, FilterSpan
<1>4. s \in Mappers /\ s.seen \in SeenTypes /\ s.irq \in IrqTypes
  BY DEF Sound, Mappers
<1>5. irq' = s.irq /\ cpuIrq' = s.cpuIrq /\ cycle' = cycle + cost
  BY DEF Settle
<1>6. seen' = [s.seen EXCEPT !.age = age]
  BY <1>1, <1>2 DEF Settle, Age, At
<1>7. PICK e : e = s.seen
  OBVIOUS
<1>8. PICK f : f = [e EXCEPT !.age = age]
  OBVIOUS
<1>9. /\ f \in SeenTypes /\ f.age = age /\ f.ticks = e.ticks /\ f.missed = e.missed
      /\ f.run = e.run /\ f.loaded = e.loaded
  BY <1>3, <1>4, <1>7, <1>8 DEF SeenTypes, FilterSpan
<1>10. seen' = f
  BY <1>6, <1>7, <1>8
<1>11. PICK z : z = Now'
  OBVIOUS
<1>12. z = [irq |-> s.irq, cpuIrq |-> s.cpuIrq, cycle |-> cycle + cost, seen |-> f]
  BY <1>5, <1>10, <1>11 DEF Now
<1>13. z.irq = s.irq /\ z.cpuIrq = s.cpuIrq /\ z.seen = f
  BY <1>12
<1>14. z \in Mappers
  BY <1>4, <1>9, <1>12 DEF Mappers
<1>15. Sound(z)
  <2>1. /\ s.cpuIrq = IF s.irq.trigger THEN 1 ELSE 0
        /\ s.irq.counter > 0 => e.run + s.irq.counter = e.loaded
    BY <1>7 DEF Sound
  <2>. QED
    BY <1>3, <1>9, <1>13, <1>14, <2>1 DEF Sound
<1>16. Untouched(s, z)
  BY <1>7, <1>9, <1>13 DEF Untouched
<1>17. HighAt(z) = HighAt(s)
  BY <1>13 DEF HighAt
<1>18. Age(z) = UpToSpan(Age(s) + (cycle + cost - At(s)))
  BY <1>1, <1>2, <1>9, <1>13 DEF Age
<1>. QED
  BY <1>5, <1>11, <1>15, <1>16, <1>17, <1>18

-----------------------------------------------------------------------------
(***************************************************************************)
(* The inductive invariant.  On a line without accesses it says, dot by    *)
(* dot, how long A12 has been low and when the mapper last saw it high.    *)
(***************************************************************************)
LineTypes ==
  /\ line \in Lines
  /\ dot \in DotsOf(line)
  /\ evenFrame \in BOOLEAN /\ frameDone \in BOOLEAN

ControlTypes ==
  /\ rendering \in BOOLEAN /\ tall \in BOOLEAN
  /\ bgTable \in BOOLEAN /\ sprTable \in BOOLEAN
  /\ quiet \in BOOLEAN /\ quietBefore \in BOOLEAN

BoundTypes ==
  /\ tables \subseteq BOOLEAN \X BOOLEAN \X BOOLEAN
  /\ accesses \in Nat /\ writes \in Nat

\* Where a line can be rendered throughout, and where a frame can be done.
Places ==
  /\ quiet => line \in RenderLines \/ (line = Idle /\ dot = 0)
  /\ frameDone => line = Idle /\ dot \in {0, 168}

Watched == quiet /\ ~tall

\* Without a fetch from the upper table nothing ticks.
BothLow == Watched /\ ~bgTable /\ ~sprTable => TicksOf(Now) = 0

\* The first sprite fetch ticks; after it A12 is never low for long.
SpritesHigh ==
  Watched /\ ~bgTable /\ sprTable =>
    /\ dot \in 1 .. 257 => TicksOf(Now) = 0
    /\ dot \in 9 .. 257 => Age(Now) = FilterSpan
    /\ dot \in 258 .. 321 => Age(Now) = 2 /\ HighAt(Now) = cycle - 2
    /\ dot \notin 1 .. 257 /\ ~Missed(Now) => TicksOf(Now) = 1

\* The prefetches tick and leave A12 high shortly before the next line.
BackgroundHigh ==
  Watched /\ bgTable /\ ~sprTable =>
    /\ dot = LineEnd => Age(Now) = 4 /\ HighAt(Now) = cycle - 4
    /\ dot = 0 /\ line \in RenderLines => Age(Now) = 1 /\ HighAt(Now) = cycle - 1
    /\ quietBefore =>
         /\ dot = 1 => Age(Now) \in 1 .. 2 /\ HighAt(Now) = cycle - Age(Now)
         /\ dot \in 2 .. 249 => Age(Now) = 4 /\ HighAt(Now) = cycle - 4
         /\ dot \in 257 .. 328 => Age(Now) = FilterSpan
         /\ dot \in 1 .. 328 => TicksOf(Now) = 0
         /\ dot \notin 1 .. 328 /\ ~Missed(Now) => TicksOf(Now) = 1

OneTick == BothLow /\ SpritesHigh /\ BackgroundHigh

\* The line is rendered while it is quiet; a fact of Booleans only.
Rendered == quiet => rendering

IInv == LineTypes /\ ControlTypes /\ BoundTypes /\ Sound(Now) /\ Places /\ Rendered /\ OneTick

(* The invariant holds of the state that the machine starts in.            *)
LEMMA IInvInit == Init => IInv
<1>. SUFFICES ASSUME Init PROVE IInv
  OBVIOUS
<1>. USE DEF Init
<1>1. LineTypes
  BY LinesAndDots DEF LineTypes
<1>2. PICK p \in Programs : tables = p[1] /\ accesses = p[3] /\ writes = p[4]
  OBVIOUS
<1>3. BoundTypes
  BY <1>2, Mmc3Assumption DEF BoundTypes
<1>4. ControlTypes
  <2>1. PICK set \in tables : bgTable = set[1] /\ sprTable = set[2] /\ tall = set[3]
    OBVIOUS
  <2>2. set \in BOOLEAN \X BOOLEAN \X BOOLEAN
    BY <1>3, <2>1 DEF BoundTypes
  <2>. QED
    BY <2>1, <2>2 DEF ControlTypes
<1>5. Sound(Now)
  <2>1. irq \in IrqTypes /\ irq.counter = 0 /\ irq.trigger = FALSE
    BY Mmc3Assumption DEF IrqTypes
  <2>2. seen \in SeenTypes /\ seen.age = 7
    BY Mmc3Assumption DEF SeenTypes, FilterSpan
  <2>3. /\ Now \in Mappers /\ Now.irq = irq /\ Now.seen = seen /\ Now.cpuIrq = 0
    BY <2>1, <2>2 DEF Now, Mappers
  <2>. QED
    BY <2>1, <2>2, <2>3 DEF Sound, FilterSpan
<1>6. Places /\ Rendered
  BY DEF Places, Rendered
<1>7. OneTick
  BY DEF OneTick, BothLow, SpritesHigh, BackgroundHigh, Watched
<1>. QED
  BY <1>1, <1>3, <1>4, <1>5, <1>6, <1>7 DEF IInv

(* What is known of the mapper in every state.                             *)
LEMMA NowParts ==
  ASSUME Sound(Now)
  PROVE  /\ cycle \in Int /\ irq \in IrqTypes /\ seen \in SeenTypes /\ cpuIrq \in Nat
         /\ seen.age \in 0 .. 7 /\ seen.age \in Int
         /\ Now.irq = irq /\ Now.seen = seen /\ Now.cycle = cycle /\ Now.cpuIrq = cpuIrq
         /\ cpuIrq = IF irq.trigger THEN 1 ELSE 0
         /\ irq.counter > 0 => seen.run + irq.counter = seen.loaded
         /\ At(Now) = cycle /\ Age(Now) \in 0 .. 7 /\ Age(Now) = seen.age
         /\ TicksOf(Now) = seen.ticks /\ HighAt(Now) = irq.highAt
         /\ (Missed(Now) <=> seen.missed)
<1>1. Now.irq = irq /\ Now.seen = seen /\ Now.cycle = cycle /\ Now.cpuIrq = cpuIrq
  BY DEF Now
<1>2. Now \in Mappers
  BY DEF Sound
<1>3. cycle \in Int /\ irq \in IrqTypes /\ seen \in SeenTypes /\ cpuIrq \in Nat
  BY <1>1, <1>2 DEF Mappers
<1>4. /\ seen.age \in 0 .. 7 /\ cpuIrq = IF irq.trigger THEN 1 ELSE 0
      /\ irq.counter > 0 => seen.run + irq.counter = seen.loaded
  BY <1>1, <1>3 DEF Sound, FilterSpan
<1>5. /\ At(Now) = cycle /\ Age(Now) = seen.age /\ TicksOf(Now) = seen.ticks
      /\ HighAt(Now) = irq.highAt /\ (Missed(Now) <=> seen.missed)
  BY <1>1 DEF At, Age, TicksOf, HighAt, Missed
<1>. QED
  BY <1>1, <1>3, <1>4, <1>5

(* The dots of a line that is rendered, by what their steps fetch.         *)
LEMMA FetchDots ==
  ASSUME NEW d \in RenderDots
  PROVE  \/ d = 0 \/ d = 1 \/ d \in 9 .. 241 \/ d = 249 \/ d = 257
         \/ d \in 265 .. 313 \/ d = 321 \/ d = 328 \/ d = LineEnd
<1>1. CASE \E k \in 0 .. 40 : d = 1 + 8 * k
  <2>1. PICK k \in 0 .. 40 : d = 1 + 8 * k
    BY <1>1
  <2>. QED
    BY <2>1 DEF LineEnd
<1>. QED
  BY <1>1 DEF RenderDots, LineEnd

(* A step of a line that is rendered: the fetches it can make.             *)
LEMMA FetchKinds ==
  ASSUME ControlTypes, dot \in RenderDots, NEW s \in Fetches
  PROVE  \/ s = Now
         \/ LowFetch(s)
         \/ MiddleFetch(s) /\ (dot \in 1 .. 241 \/ dot > 321 \/ dot = 0)
         \/ LateFetch(s) /\ dot \in 257 .. 320
<1>1. CASE ~rendering \/ dot \in {249} \cup 321 .. 327
  BY <1>1 DEF Fetches
<1>2. CASE ~(~rendering \/ dot \in {249} \cup 321 .. 327) /\ dot \in 257 .. 320
  <2>1. PICK u \in BOOLEAN : s = AfterFetch(SpriteFetch(u))
    BY <1>2 DEF Fetches, ControlTypes
  <2>2. CASE u = TRUE
    <3>1. LateBus(SpriteFetch(u))
      BY <2>2 DEF SpriteFetch, LateBus, IsLow, IsHigh
    <3>. QED
      BY <1>2, <2>1, <3>1 DEF LateFetch
  <2>3. CASE u = FALSE
    <3>1. LowBus(SpriteFetch(u))
      BY <2>3 DEF SpriteFetch, LowBus, IsLow, IsHigh
    <3>. QED
      BY <2>1, <3>1 DEF LowFetch
  <2>. QED
    BY <2>2, <2>3
<1>3. CASE ~(~rendering \/ dot \in {249} \cup 321 .. 327) /\ dot \notin 257 .. 320
  <2>1. s = AfterFetch(BgFetch)
    BY <1>3 DEF Fetches
  <2>2. dot \in 1 .. 241 \/ dot > 321 \/ dot = 0
    BY <1>3, FetchDots DEF LineEnd
  <2>3. CASE bgTable = TRUE
    <3>1. MiddleBus(BgFetch)
      BY <2>3 DEF BgFetch, MiddleBus, IsLow, IsHigh
    <3>. QED
      BY <2>1, <2>2, <3>1 DEF MiddleFetch
  <2>4. CASE bgTable = FALSE
    <3>1. LowBus(BgFetch)
      BY <2>4 DEF BgFetch, LowBus, IsLow, IsHigh
    <3>. QED
      BY <2>1, <3>1 DEF LowFetch
  <2>. QED
    BY <2>3, <2>4 DEF ControlTypes
<1>. QED
  BY <1>1, <1>2, <1>3

(* A watched line fetches from the tables that are set.                    *)
LEMMA WatchedFetch ==
  ASSUME ControlTypes, Rendered, Watched, dot \in RenderDots, dot # 0, NEW s \in Fetches
  PROVE  /\ dot \in {249, 321} => s = Now
         /\ dot \in 257 .. 313 /\ sprTable => LateFetch(s)
         /\ dot \in 257 .. 313 /\ ~sprTable => LowFetch(s)
         /\ (dot \in 1 .. 241 \/ dot \in {328, LineEnd}) /\ bgTable
              => MiddleFetch(s)
         /\ (dot \in 1 .. 241 \/ dot \in {328, LineEnd}) /\ ~bgTable
              => LowFetch(s)
<1>1. rendering /\ ~tall
  BY DEF Rendered, Watched
<1>2. dot \in {249, 321} => s = Now
  BY <1>1 DEF Fetches
<1>3. dot \in 257 .. 313 => s = AfterFetch(SpriteFetch(sprTable))
  BY <1>1 DEF Fetches
<1>4. dot \in 1 .. 241 \/ dot \in {328, LineEnd} => s = AfterFetch(BgFetch)
  BY <1>1 DEF Fetches, LineEnd
<1>5. /\ sprTable => LateBus(SpriteFetch(sprTable))
      /\ ~sprTable => LowBus(SpriteFetch(sprTable))
  <2>1. CASE sprTable = TRUE
    BY <2>1 DEF SpriteFetch, LateBus, IsLow, IsHigh
  <2>2. CASE sprTable = FALSE
    BY <2>2 DEF SpriteFetch, LowBus, IsLow, IsHigh
  <2>. QED
    BY <2>1, <2>2 DEF ControlTypes
<1>6. /\ bgTable => MiddleBus(BgFetch)
      /\ ~bgTable => LowBus(BgFetch)
  <2>1. CASE bgTable = TRUE
    BY <2>1 DEF BgFetch, MiddleBus, IsLow, IsHigh
  <2>2. CASE bgTable = FALSE
    BY <2>2 DEF BgFetch, LowBus, IsLow, IsHigh
  <2>. QED
    BY <2>1, <2>2 DEF ControlTypes
<1>. QED
  BY <1>2, <1>3, <1>4, <1>5, <1>6 DEF LowFetch, MiddleFetch, LateFetch

(***************************************************************************)
(* The steps of the PPU.                                                   *)
(***************************************************************************)
(* A step of a line that is rendered, after its first, fetches and counts  *)
(* its cycles.                                                             *)
LEMMA FetchStep ==
  ASSUME IInv, StepRenderLine, dot # 0
  PROVE  \E s \in Fetches :
           /\ Sound(s) /\ OnTime(Now, s) /\ Sound(Now)' /\ Untouched(s, Now')
           /\ cycle' = cycle + RenderWidth(dot) /\ HighAt(Now') = HighAt(s)
           /\ Age(Now') = UpToSpan(Age(s) + (cycle + RenderWidth(dot) - At(s)))
<1>1. Sound(Now) /\ ControlTypes /\ dot \in RenderDots
  BY PositionKinds DEF IInv, LineTypes, StepRenderLine
<1>2. RenderCost = RenderWidth(dot)
  BY DEF RenderCost
<1>3. PICK s \in Fetches : Settle(s, RenderWidth(dot))
  BY <1>2 DEF StepRenderLine
<1>4. RenderWidth(dot) \in Int /\ RenderWidth(dot) >= 1
  BY <1>1, RenderStep
<1>5. cycle \in Int /\ At(Now) = cycle /\ Age(Now) \in 0 .. 7
  BY <1>1, NowParts
<1>6. OnTime(Now, Now)
  BY DEF OnTime
<1>7. Sound(s) /\ OnTime(Now, s) /\ Age(s) + (cycle + RenderWidth(dot) - At(s)) >= 0
  <2>1. CASE s = Now
    BY <1>1, <1>4, <1>5, <1>6, <2>1
  <2>2. CASE LowFetch(s)
    <3>1. Sound(s) /\ Untouched(Now, s) /\ At(s) = cycle + 6 /\ Age(s) \in 6 .. 7
      BY <1>1, <2>2, FetchLow
    <3>2. OnTime(Now, s)
      BY <3>1 DEF Untouched, OnTime
    <3>. QED
      BY <1>4, <1>5, <3>1, <3>2
  <2>3. CASE MiddleFetch(s) /\ (dot \in 1 .. 241 \/ dot > 321 \/ dot = 0)
    <3>1. Sound(s) /\ OnTime(Now, s) /\ At(s) = cycle + 6 /\ Age(s) = 2
      BY <1>1, <2>3, FetchBackground
    <3>2. RenderWidth(dot) >= 5
      BY <1>1, <2>3, FetchDots DEF RenderWidth, LineEnd
    <3>. QED
      BY <1>4, <1>5, <3>1, <3>2
  <2>4. CASE LateFetch(s) /\ dot \in 257 .. 320
    <3>1. Sound(s) /\ OnTime(Now, s) /\ At(s) = cycle + 6 /\ Age(s) = 0
      BY <1>1, <2>4, FetchSprite
    <3>2. RenderWidth(dot) = 8
      BY <2>4 DEF RenderWidth
    <3>. QED
      BY <1>5, <3>1, <3>2
  <2>. QED
    BY <1>1, <2>1, <2>2, <2>3, <2>4, FetchKinds
<1>. QED
  BY <1>3, <1>4, <1>5, <1>7, SettleParts

(* The first step of a line fetches nothing, counts at most one cycle and  *)
(* begins to count the ticks of the line.                                  *)
LEMMA FirstStep ==
  ASSUME IInv, StepRenderLine, dot = 0
  PROVE  /\ Sound(Now)' /\ OnTime(Now, Now') /\ TicksOf(Now') = 0
         /\ cycle' \in cycle .. cycle + 1 /\ HighAt(Now') = HighAt(Now)
         /\ Age(Now') = UpToSpan(Age(Now) + (cycle' - cycle))
<1>1. Sound(Now)
  BY DEF IInv
<1>2. RenderCost \in 0 .. 1
  BY DEF RenderCost, RenderWidth
<1>3. Settle([Now EXCEPT !.seen = [seen EXCEPT !.ticks = 0, !.missed = FALSE]], RenderCost)
  BY DEF StepRenderLine
<1>4. /\ cycle \in Int /\ irq \in IrqTypes /\ seen \in SeenTypes /\ cpuIrq \in Nat
      /\ seen.age \in 0 .. 7 /\ cpuIrq = IF irq.trigger THEN 1 ELSE 0
      /\ irq.counter > 0 => seen.run + irq.counter = seen.loaded
  BY <1>1, NowParts
<1>5. PICK e : e = [seen EXCEPT !.ticks = 0, !.missed = FALSE]
  OBVIOUS
<1>6. /\ e \in SeenTypes /\ e.ticks = 0 /\ e.age = seen.age
      /\ e.run = seen.run /\ e.loaded = seen.loaded
  BY <1>4, <1>5 DEF SeenTypes
<1>7. PICK t : t = [irq |-> irq, cpuIrq |-> cpuIrq, cycle |-> cycle, seen |-> e]
  OBVIOUS
<1>8. [Now EXCEPT !.seen = [seen EXCEPT !.ticks = 0, !.missed = FALSE]] = t
  BY <1>5, <1>7 DEF Now
<1>9. t.irq = irq /\ t.cpuIrq = cpuIrq /\ t.cycle = cycle /\ t.seen = e /\ t \in Mappers
  BY <1>4, <1>6, <1>7 DEF Mappers
<1>10. /\ At(t) = cycle /\ Age(t) = Age(Now) /\ TicksOf(t) = 0 /\ HighAt(t) = HighAt(Now)
       /\ Age(Now) \in 0 .. 7
  <2>1. At(t) = cycle /\ HighAt(t) = HighAt(Now)
    BY <1>9 DEF At, HighAt, Now
  <2>2. Age(t) = e.age /\ TicksOf(t) = e.ticks
    BY <1>9 DEF Age, TicksOf
  <2>3. Age(Now) = seen.age
    BY <1>1, NowParts
  <2>. QED
    BY <1>4, <1>6, <2>1, <2>2, <2>3
<1>11. Sound(t)
  BY <1>4, <1>6, <1>9 DEF Sound, FilterSpan
<1>12. PICK w : w = RenderCost
  OBVIOUS
<1>13. /\ Sound(Now)' /\ Untouched(t, Now')
       /\ cycle' = cycle + w /\ HighAt(Now') = HighAt(t)
       /\ Age(Now') = UpToSpan(Age(t) + (cycle + w - At(t)))
  <2>1. Settle(t, w)
    BY <1>3, <1>8, <1>12
  <2>2. w \in Int /\ Age(t) + (cycle + w - At(t)) >= 0
    BY <1>2, <1>4, <1>10, <1>12
  <2>. QED
    BY <1>4, <1>11, <2>1, <2>2, SettleParts
<1>14. w \in 0 .. 1 /\ cycle' \in cycle .. cycle + 1
  BY <1>2, <1>4, <1>12, <1>13
<1>15. TicksOf(Now') = 0
  BY <1>10, <1>13, UntouchedTicks
<1>16. Age(Now') = UpToSpan(Age(Now) + (cycle' - cycle))
  BY <1>4, <1>10, <1>13, <1>14
<1>17. OnTime(Now, Now')
  <2>1. t.irq.trigger = Now.irq.trigger
    BY <1>9 DEF Now
  <2>2. Now'.irq.trigger <=> t.irq.trigger
    BY <1>13 DEF Untouched
  <2>. QED
    BY <2>1, <2>2 DEF OnTime
<1>. QED
  BY <1>10, <1>13, <1>14, <1>15, <1>16, <1>17

(* The claims about the ticks of a line, over its first step.              *)
LEMMA OneTickFirst ==
  ASSUME IInv, StepRenderLine, dot = 0
  PROVE  OneTick'
<1>1. /\ cycle' \in cycle .. cycle + 1 /\ HighAt(Now') = HighAt(Now)
      /\ TicksOf(Now') = 0 /\ Age(Now') = UpToSpan(Age(Now) + (cycle' - cycle))
  BY FirstStep
<1>2. /\ dot' = 1 /\ line \in RenderLines
      /\ bgTable' = bgTable /\ sprTable' = sprTable /\ tall' = tall /\ quietBefore' = quiet
  BY DEF StepRenderLine, DotAfter, RenderWidth, LineEnd, ctrlVars
<1>3. cycle \in Int
  BY NowParts DEF IInv
<1>4. BothLow' /\ SpritesHigh'
  BY <1>1, <1>2 DEF BothLow, SpritesHigh
<1>5. ASSUME Watched', bgTable', ~sprTable', quietBefore'
      PROVE  Age(Now') \in 1 .. 2 /\ HighAt(Now') = cycle' - Age(Now')
  <2>1. Watched /\ bgTable /\ ~sprTable
    BY <1>2, <1>5 DEF Watched
  <2>2. Age(Now) = 1 /\ HighAt(Now) = cycle - 1
    BY <1>2, <2>1 DEF IInv, OneTick, BackgroundHigh
  <2>3. PICK w \in 0 .. 1 : cycle' = cycle + w
    BY <1>1, <1>3
  <2>4. Age(Now') = UpToSpan(1 + w)
    BY <1>1, <1>3, <2>2, <2>3
  <2>5. Age(Now') = 1 + w
    BY <2>4 DEF UpToSpan, FilterSpan
  <2>. QED
    BY <1>1, <1>3, <2>2, <2>3, <2>5
<1>6. BackgroundHigh'
  BY <1>1, <1>2, <1>5 DEF BackgroundHigh, LineEnd
<1>. QED
  BY <1>4, <1>6 DEF OneTick

(* The other steps of a line move from dot to dot and change no setting.   *)
LEMMA LineMoves ==
  ASSUME IInv, StepRenderLine, dot # 0
  PROVE  /\ bgTable' = bgTable /\ sprTable' = sprTable /\ quietBefore' = quietBefore
         /\ Watched' <=> Watched
         /\ dot \in 1 .. 313 => RenderWidth(dot) = 8 /\ dot' = dot + 8
         /\ dot = 321 => RenderWidth(dot) = 7 /\ dot' = 328
         /\ dot = 328 => RenderWidth(dot) = 8 /\ dot' = LineEnd
         /\ dot = LineEnd => RenderWidth(dot) = 5 /\ dot' = 0
         /\ \/ dot = 1 \/ dot \in 9 .. 241 \/ dot = 249 \/ dot = 257
            \/ dot \in 265 .. 313 \/ dot = 321 \/ dot = 328 \/ dot = LineEnd
<1>1. /\ UNCHANGED ctrlVars /\ UNCHANGED watchVars
      /\ dot' = IF dot = LineEnd THEN 0 ELSE dot + RenderWidth(dot)
  BY DEF StepRenderLine, DotAfter
<1>2. dot \in RenderDots
  BY PositionKinds DEF IInv, LineTypes, StepRenderLine
<1>3. /\ dot \in 1 .. 313 => RenderWidth(dot) = 8 /\ dot' = dot + 8
      /\ dot = 321 => RenderWidth(dot) = 7 /\ dot' = 328
      /\ dot = 328 => RenderWidth(dot) = 8 /\ dot' = LineEnd
      /\ dot = LineEnd => RenderWidth(dot) = 5 /\ dot' = 0
  BY <1>1 DEF RenderWidth, LineEnd
<1>4. \/ dot = 1 \/ dot \in 9 .. 241 \/ dot = 249 \/ dot = 257
      \/ dot \in 265 .. 313 \/ dot = 321 \/ dot = 328 \/ dot = LineEnd
  BY <1>2, FetchDots
<1>5. /\ bgTable' = bgTable /\ sprTable' = sprTable /\ quietBefore' = quietBefore
      /\ Watched' <=> Watched
  BY <1>1 DEF Watched, ctrlVars, watchVars
<1>. QED
  BY <1>3, <1>4, <1>5

(* What a fetch of a watched line makes of the mapper, whatever its dot.   *)
LEMMA WatchedStep ==
  ASSUME IInv, StepRenderLine, dot # 0, Watched
  PROVE  \E s :
    /\ TicksOf(Now') = TicksOf(s) /\ (Missed(Now') <=> Missed(s))
    /\ cycle' = cycle + RenderWidth(dot) /\ HighAt(Now') = HighAt(s)
    /\ Age(Now') = UpToSpan(Age(s) + (cycle + RenderWidth(dot) - At(s)))
    /\ Untouched(Now, s) => TicksOf(s) = TicksOf(Now) /\ (Missed(s) <=> Missed(Now))
    /\ dot \in {249, 321} => s = Now
    /\ \/ dot \in 257 .. 313 /\ ~sprTable
       \/ (dot \in 1 .. 241 \/ dot \in {328, LineEnd}) /\ ~bgTable
       => Untouched(Now, s) /\ At(s) = cycle + 6 /\ Age(s) \in 6 .. 7
    /\ (dot \in 1 .. 241 \/ dot \in {328, LineEnd}) /\ bgTable =>
         /\ At(s) = cycle + 6 /\ Age(s) = 2 /\ HighAt(s) = cycle + 4
         /\ HighAt(Now) \in cycle - 4 .. cycle /\ Age(Now) <= 4 => Untouched(Now, s)
         /\ Age(Now) = FilterSpan /\ ~Missed(s) => TicksOf(s) = TicksOf(Now) + 1
    /\ dot \in 257 .. 313 /\ sprTable =>
         /\ At(s) = cycle + 6 /\ Age(s) = 0 /\ HighAt(s) = cycle + 6
         /\ HighAt(Now) = cycle - 2 /\ Age(Now) = 2 => Untouched(Now, s)
         /\ Age(Now) = FilterSpan /\ ~Missed(s) => TicksOf(s) = TicksOf(Now) + 1
<1>1. PICK s \in Fetches :
        /\ Sound(s) /\ OnTime(Now, s) /\ Sound(Now)' /\ Untouched(s, Now')
        /\ cycle' = cycle + RenderWidth(dot) /\ HighAt(Now') = HighAt(s)
        /\ Age(Now') = UpToSpan(Age(s) + (cycle + RenderWidth(dot) - At(s)))
  BY FetchStep
<1>2. Sound(Now) /\ ControlTypes /\ Rendered /\ dot \in RenderDots
  BY PositionKinds DEF IInv, LineTypes, StepRenderLine
<1>3. /\ TicksOf(Now') = TicksOf(s) /\ (Missed(Now') <=> Missed(s))
      /\ Untouched(Now, s) => TicksOf(s) = TicksOf(Now) /\ (Missed(s) <=> Missed(Now))
  BY <1>1, UntouchedTicks
<1>4. /\ dot \in {249, 321} => s = Now
      /\ dot \in 257 .. 313 /\ sprTable => LateFetch(s)
      /\ dot \in 257 .. 313 /\ ~sprTable => LowFetch(s)
      /\ (dot \in 1 .. 241 \/ dot \in {328, LineEnd}) /\ bgTable => MiddleFetch(s)
      /\ (dot \in 1 .. 241 \/ dot \in {328, LineEnd}) /\ ~bgTable => LowFetch(s)
  BY <1>2, WatchedFetch
<1>5. ASSUME LowFetch(s)
      PROVE  Untouched(Now, s) /\ At(s) = cycle + 6 /\ Age(s) \in 6 .. 7
  BY <1>2, <1>5, FetchLow
<1>6. ASSUME MiddleFetch(s)
      PROVE  /\ At(s) = cycle + 6 /\ Age(s) = 2 /\ HighAt(s) = cycle + 4
             /\ HighAt(Now) \in cycle - 4 .. cycle /\ Age(Now) <= 4 => Untouched(Now, s)
             /\ Age(Now) = FilterSpan /\ ~Missed(s) => TicksOf(s) = TicksOf(Now) + 1
  BY <1>2, <1>6, FetchBackground
<1>7. ASSUME LateFetch(s)
      PROVE  /\ At(s) = cycle + 6 /\ Age(s) = 0 /\ HighAt(s) = cycle + 6
             /\ HighAt(Now) = cycle - 2 /\ Age(Now) = 2 => Untouched(Now, s)
             /\ Age(Now) = FilterSpan /\ ~Missed(s) => TicksOf(s) = TicksOf(Now) + 1
  BY <1>2, <1>7, FetchSprite
<1>. QED
  BY <1>1, <1>3, <1>4, <1>5, <1>6, <1>7
(* The claims about the ticks of a line, over its other steps: every dot   *)
(* hands on to the next what the next fetch needs.                         *)
LEMMA BothLowFetch ==
  ASSUME IInv, StepRenderLine, dot # 0, Watched, ~bgTable, ~sprTable
  PROVE  TicksOf(Now') = 0
<1>1. PICK s :
        /\ TicksOf(Now') = TicksOf(s) /\ (Missed(Now') <=> Missed(s))
        /\ cycle' = cycle + RenderWidth(dot) /\ HighAt(Now') = HighAt(s)
        /\ Age(Now') = UpToSpan(Age(s) + (cycle + RenderWidth(dot) - At(s)))
        /\ Untouched(Now, s) => TicksOf(s) = TicksOf(Now) /\ (Missed(s) <=> Missed(Now))
        /\ dot \in {249, 321} => s = Now
        /\ dot \in 257 .. 313 \/ dot \in 1 .. 241 \/ dot \in {328, LineEnd}
           => Untouched(Now, s) /\ At(s) = cycle + 6 /\ Age(s) \in 6 .. 7
  BY WatchedStep
<1>2. /\ bgTable' = bgTable /\ sprTable' = sprTable /\ quietBefore' = quietBefore
      /\ Watched' <=> Watched
      /\ dot \in 1 .. 313 => RenderWidth(dot) = 8 /\ dot' = dot + 8
      /\ dot = 321 => RenderWidth(dot) = 7 /\ dot' = 328
      /\ dot = 328 => RenderWidth(dot) = 8 /\ dot' = LineEnd
      /\ dot = LineEnd => RenderWidth(dot) = 5 /\ dot' = 0
      /\ \/ dot = 1 \/ dot \in 9 .. 241 \/ dot = 249 \/ dot = 257
         \/ dot \in 265 .. 313 \/ dot = 321 \/ dot = 328 \/ dot = LineEnd
  BY LineMoves
<1>3. /\ cycle \in Int /\ At(Now) = cycle /\ Age(Now) \in 0 .. 7 /\ Untouched(Now, Now)
  <2>1. Untouched(Now, Now)
    BY DEF Untouched
  <2>. QED
    BY <2>1, NowParts DEF IInv
<1>4. TicksOf(Now) = 0
  BY DEF IInv, OneTick, BothLow
<1>5. Untouched(Now, s)
  BY <1>1, <1>2, <1>3
<1>. QED
  BY <1>1, <1>4, <1>5

(* With the sprites in the upper table the fetch at dot 257 ticks, and A12 *)
(* is only low for six cycles between it and the others.                   *)
LEMMA SpritesHighFetch ==
  ASSUME IInv, StepRenderLine, dot # 0, Watched, ~bgTable, sprTable
  PROVE  /\ dot' \in 1 .. 257 => TicksOf(Now') = 0
         /\ dot' \in 9 .. 257 => Age(Now') = FilterSpan
         /\ dot' \in 258 .. 321 => Age(Now') = 2 /\ HighAt(Now') = cycle' - 2
         /\ dot' \notin 1 .. 257 /\ ~Missed(Now') => TicksOf(Now') = 1
<1>1. PICK s :
        /\ TicksOf(Now') = TicksOf(s) /\ (Missed(Now') <=> Missed(s))
        /\ cycle' = cycle + RenderWidth(dot) /\ HighAt(Now') = HighAt(s)
        /\ Age(Now') = UpToSpan(Age(s) + (cycle + RenderWidth(dot) - At(s)))
        /\ Untouched(Now, s) => TicksOf(s) = TicksOf(Now) /\ (Missed(s) <=> Missed(Now))
        /\ dot \in {249, 321} => s = Now
        /\ dot \in 1 .. 241 \/ dot \in {328, LineEnd}
           => Untouched(Now, s) /\ At(s) = cycle + 6 /\ Age(s) \in 6 .. 7
        /\ dot \in 257 .. 313 =>
             /\ At(s) = cycle + 6 /\ Age(s) = 0 /\ HighAt(s) = cycle + 6
             /\ HighAt(Now) = cycle - 2 /\ Age(Now) = 2 => Untouched(Now, s)
             /\ Age(Now) = FilterSpan /\ ~Missed(s) => TicksOf(s) = TicksOf(Now) + 1
  BY WatchedStep
<1>2. /\ bgTable' = bgTable /\ sprTable' = sprTable /\ quietBefore' = quietBefore
      /\ Watched' <=> Watched
      /\ dot \in 1 .. 313 => RenderWidth(dot) = 8 /\ dot' = dot + 8
      /\ dot = 321 => RenderWidth(dot) = 7 /\ dot' = 328
      /\ dot = 328 => RenderWidth(dot) = 8 /\ dot' = LineEnd
      /\ dot = LineEnd => RenderWidth(dot) = 5 /\ dot' = 0
      /\ \/ dot = 1 \/ dot \in 9 .. 241 \/ dot = 249 \/ dot = 257
         \/ dot \in 265 .. 313 \/ dot = 321 \/ dot = 328 \/ dot = LineEnd
  BY LineMoves
<1>3. /\ cycle \in Int /\ At(Now) = cycle /\ Age(Now) \in 0 .. 7 /\ Untouched(Now, Now)
  <2>1. Untouched(Now, Now)
    BY DEF Untouched
  <2>. QED
    BY <2>1, NowParts DEF IInv
<1>4. /\ dot \in 1 .. 257 => TicksOf(Now) = 0
      /\ dot \in 9 .. 257 => Age(Now) = FilterSpan
      /\ dot \in 258 .. 321 => Age(Now) = 2 /\ HighAt(Now) = cycle - 2
      /\ dot \notin 1 .. 257 /\ ~Missed(Now) => TicksOf(Now) = 1
  BY DEF IInv, OneTick, SpritesHigh
<1>5. CASE dot \in 1 .. 241
  <2>1. Untouched(Now, s) /\ At(s) = cycle + 6 /\ Age(s) \in 6 .. 7
    BY <1>1, <1>5
  <2>2. Age(Now') = FilterSpan
    BY <1>1, <1>2, <1>3, <1>5, <2>1 DEF UpToSpan, FilterSpan
  <2>. QED
    BY <1>1, <1>2, <1>4, <1>5, <2>1, <2>2
<1>6. CASE dot = 249
  <2>1. s = Now
    BY <1>1, <1>6
  <2>2. Age(Now') = FilterSpan
    BY <1>1, <1>2, <1>3, <1>4, <1>6, <2>1 DEF UpToSpan, FilterSpan
  <2>. QED
    BY <1>1, <1>2, <1>4, <1>6, <2>1, <2>2
<1>7. CASE dot \in 257 .. 313
  <2>1. /\ At(s) = cycle + 6 /\ Age(s) = 0 /\ HighAt(s) = cycle + 6
        /\ HighAt(Now) = cycle - 2 /\ Age(Now) = 2 => Untouched(Now, s)
        /\ Age(Now) = FilterSpan /\ ~Missed(s) => TicksOf(s) = TicksOf(Now) + 1
    BY <1>1, <1>7
  <2>2. Age(Now') = 2 /\ HighAt(Now') = cycle' - 2
    BY <1>1, <1>2, <1>3, <1>7, <2>1 DEF UpToSpan, FilterSpan
  <2>3. ~Missed(Now') => TicksOf(Now') = 1
    <3>1. CASE dot = 257
      BY <1>1, <1>4, <2>1, <3>1
    <3>2. CASE dot # 257
      <4>1. Untouched(Now, s)
        BY <1>4, <1>7, <2>1, <3>2
      <4>. QED
        BY <1>1, <1>4, <1>7, <3>2, <4>1
    <3>. QED
      BY <3>1, <3>2
  <2>. QED
    BY <1>2, <1>7, <2>2, <2>3
<1>8. CASE dot \in {321, 328, LineEnd}
  <2>1. Untouched(Now, s)
    BY <1>1, <1>3, <1>8
  <2>2. ~Missed(Now') => TicksOf(Now') = 1
    BY <1>1, <1>4, <1>8, <2>1 DEF LineEnd
  <2>3. dot' \in {328, LineEnd, 0}
    BY <1>2, <1>8
  <2>. QED
    BY <2>2, <2>3 DEF LineEnd
<1>. QED
  BY <1>2, <1>5, <1>6, <1>7, <1>8

(* With the background there it is the fetch at dot 328.                   *)
LEMMA BackgroundHighFetch ==
  ASSUME IInv, StepRenderLine, dot # 0, Watched, bgTable, ~sprTable
  PROVE  /\ dot' = LineEnd => Age(Now') = 4 /\ HighAt(Now') = cycle' - 4
         /\ dot' = 0 => Age(Now') = 1 /\ HighAt(Now') = cycle' - 1
         /\ quietBefore =>
              /\ dot' # 1
              /\ dot' \in 2 .. 249 => Age(Now') = 4 /\ HighAt(Now') = cycle' - 4
              /\ dot' \in 257 .. 328 => Age(Now') = FilterSpan
              /\ dot' \in 1 .. 328 => TicksOf(Now') = 0
              /\ dot' \notin 1 .. 328 /\ ~Missed(Now') => TicksOf(Now') = 1
<1>1. PICK s :
        /\ TicksOf(Now') = TicksOf(s) /\ (Missed(Now') <=> Missed(s))
        /\ cycle' = cycle + RenderWidth(dot) /\ HighAt(Now') = HighAt(s)
        /\ Age(Now') = UpToSpan(Age(s) + (cycle + RenderWidth(dot) - At(s)))
        /\ Untouched(Now, s) => TicksOf(s) = TicksOf(Now) /\ (Missed(s) <=> Missed(Now))
        /\ dot \in {249, 321} => s = Now
        /\ dot \in 257 .. 313
           => Untouched(Now, s) /\ At(s) = cycle + 6 /\ Age(s) \in 6 .. 7
        /\ dot \in 1 .. 241 \/ dot \in {328, LineEnd} =>
             /\ At(s) = cycle + 6 /\ Age(s) = 2 /\ HighAt(s) = cycle + 4
             /\ HighAt(Now) \in cycle - 4 .. cycle /\ Age(Now) <= 4 => Untouched(Now, s)
             /\ Age(Now) = FilterSpan /\ ~Missed(s) => TicksOf(s) = TicksOf(Now) + 1
  BY WatchedStep
<1>2. /\ bgTable' = bgTable /\ sprTable' = sprTable /\ quietBefore' = quietBefore
      /\ Watched' <=> Watched
      /\ dot \in 1 .. 313 => RenderWidth(dot) = 8 /\ dot' = dot + 8
      /\ dot = 321 => RenderWidth(dot) = 7 /\ dot' = 328
      /\ dot = 328 => RenderWidth(dot) = 8 /\ dot' = LineEnd
      /\ dot = LineEnd => RenderWidth(dot) = 5 /\ dot' = 0
      /\ \/ dot = 1 \/ dot \in 9 .. 241 \/ dot = 249 \/ dot = 257
         \/ dot \in 265 .. 313 \/ dot = 321 \/ dot = 328 \/ dot = LineEnd
  BY LineMoves
<1>3. /\ cycle \in Int /\ At(Now) = cycle /\ Age(Now) \in 0 .. 7 /\ Untouched(Now, Now)
  <2>1. Untouched(Now, Now)
    BY DEF Untouched
  <2>. QED
    BY <2>1, NowParts DEF IInv
<1>4. /\ dot = LineEnd => Age(Now) = 4 /\ HighAt(Now) = cycle - 4
      /\ quietBefore =>
           /\ dot = 1 => Age(Now) \in 1 .. 2 /\ HighAt(Now) = cycle - Age(Now)
           /\ dot \in 2 .. 249 => Age(Now) = 4 /\ HighAt(Now) = cycle - 4
           /\ dot \in 257 .. 328 => Age(Now) = FilterSpan
           /\ dot \in 1 .. 328 => TicksOf(Now) = 0
           /\ dot \notin 1 .. 328 /\ ~Missed(Now) => TicksOf(Now) = 1
  BY DEF IInv, OneTick, BackgroundHigh
<1>5. CASE dot \in 1 .. 241
  <2>1. /\ At(s) = cycle + 6 /\ Age(s) = 2 /\ HighAt(s) = cycle + 4
        /\ HighAt(Now) \in cycle - 4 .. cycle /\ Age(Now) <= 4 => Untouched(Now, s)
    BY <1>1, <1>5
  <2>2. Age(Now') = 4 /\ HighAt(Now') = cycle' - 4
    BY <1>1, <1>2, <1>3, <1>5, <2>1 DEF UpToSpan, FilterSpan
  <2>3. quietBefore => TicksOf(Now') = 0
    <3>1. quietBefore => HighAt(Now) \in cycle - 4 .. cycle /\ Age(Now) <= 4
      BY <1>3, <1>4, <1>5
    <3>2. quietBefore => Untouched(Now, s)
      BY <2>1, <3>1
    <3>. QED
      BY <1>1, <1>4, <1>5, <3>2
  <2>. QED
    BY <1>2, <1>5, <2>2, <2>3 DEF LineEnd
<1>6. CASE dot \in {249, 321}
  <2>1. s = Now
    BY <1>1, <1>6
  <2>2. quietBefore => Age(Now) >= 4
    BY <1>4, <1>6 DEF FilterSpan
  <2>3. quietBefore => Age(Now') = FilterSpan
    <3>1. RenderWidth(dot) \in 7 .. 8
      BY <1>2, <1>6
    <3>. QED
      BY <1>1, <1>3, <2>1, <2>2, <3>1 DEF UpToSpan, FilterSpan
  <2>4. quietBefore => TicksOf(Now') = 0
    BY <1>1, <1>4, <1>6, <2>1
  <2>. QED
    BY <1>2, <1>6, <2>3, <2>4 DEF LineEnd
<1>7. CASE dot \in 257 .. 313
  <2>1. Untouched(Now, s) /\ At(s) = cycle + 6 /\ Age(s) \in 6 .. 7
    BY <1>1, <1>7
  <2>2. Age(Now') = FilterSpan
    BY <1>1, <1>2, <1>3, <1>7, <2>1 DEF UpToSpan, FilterSpan
  <2>. QED
    BY <1>1, <1>2, <1>4, <1>7, <2>1, <2>2 DEF LineEnd
<1>8. CASE dot = 328
  <2>1. /\ At(s) = cycle + 6 /\ Age(s) = 2 /\ HighAt(s) = cycle + 4
        /\ Age(Now) = FilterSpan /\ ~Missed(s) => TicksOf(s) = TicksOf(Now) + 1
    BY <1>1, <1>8
  <2>2. Age(Now') = 4 /\ HighAt(Now') = cycle' - 4
    BY <1>1, <1>2, <1>3, <1>8, <2>1 DEF UpToSpan, FilterSpan
  <2>3. quietBefore /\ ~Missed(Now') => TicksOf(Now') = 1
    BY <1>1, <1>4, <1>8, <2>1
  <2>. QED
    BY <1>2, <1>8, <2>2, <2>3 DEF LineEnd
<1>9. CASE dot = LineEnd
  <2>1. /\ At(s) = cycle + 6 /\ Age(s) = 2 /\ HighAt(s) = cycle + 4
        /\ HighAt(Now) \in cycle - 4 .. cycle /\ Age(Now) <= 4 => Untouched(Now, s)
    BY <1>1, <1>9
  <2>2. Age(Now') = 1 /\ HighAt(Now') = cycle' - 1
    BY <1>1, <1>2, <1>3, <1>9, <2>1 DEF UpToSpan, FilterSpan
  <2>3. Untouched(Now, s)
    BY <1>3, <1>4, <1>9, <2>1
  <2>4. quietBefore /\ ~Missed(Now') => TicksOf(Now') = 1
    BY <1>1, <1>4, <1>9, <2>3 DEF LineEnd
  <2>. QED
    BY <1>2, <1>9, <2>2, <2>4 DEF LineEnd
<1>. QED
  BY <1>2, <1>5, <1>6, <1>7, <1>8, <1>9

(* All three of them.                                                      *)
LEMMA OneTickFetch ==
  ASSUME IInv, StepRenderLine, dot # 0
  PROVE  OneTick'
<1>1. /\ bgTable' = bgTable /\ sprTable' = sprTable /\ quietBefore' = quietBefore
      /\ Watched' <=> Watched
  BY LineMoves
<1>2. BothLow'
  BY <1>1, BothLowFetch DEF BothLow
<1>3. SpritesHigh'
  BY <1>1, SpritesHighFetch DEF SpritesHigh
<1>4. BackgroundHigh'
  BY <1>1, BackgroundHighFetch DEF BackgroundHigh
<1>. QED
  BY <1>2, <1>3, <1>4 DEF OneTick
(* Where the steps of the PPU lead, line kind by line kind.                *)
LEMMA RenderMoves ==
  ASSUME IInv, StepRenderLine
  PROVE  LineTypes' /\ Places' /\ Rendered' /\ ControlTypes' /\ BoundTypes'
<1>1. /\ line \in RenderLines /\ ~frameDone /\ line \in Lines /\ dot \in RenderDots
      /\ evenFrame' = evenFrame /\ UNCHANGED ctrlVars /\ UNCHANGED boundVars
      /\ dot' = DotAfter(dot, RenderWidth(dot))
      /\ line' = IF dot = LineEnd THEN line + 1 ELSE line
      /\ frameDone' = (dot = LineEnd /\ line = LastVisible)
  BY PositionKinds DEF IInv, LineTypes, StepRenderLine
<1>2. /\ dot = 0 => quiet' = rendering /\ quietBefore' = quiet
      /\ dot # 0 => quiet' = quiet /\ quietBefore' = quietBefore
  BY DEF StepRenderLine, watchVars
<1>3. ControlTypes /\ Rendered /\ Places /\ BoundTypes /\ evenFrame \in BOOLEAN
  BY DEF IInv, LineTypes
<1>4. LineTypes' /\ (line' \in RenderLines \/ (line' = Idle /\ dot' = 0))
  <2>1. CASE dot = LineEnd
    <3>1. dot' = 0 /\ line' = line + 1 /\ line' \in RenderLines \cup {Idle}
      BY <1>1, <2>1, LinesAndDots DEF DotAfter
    <3>2. line' \in Lines /\ dot' \in DotsOf(line')
      BY <3>1, LinesAndDots
    <3>. QED
      BY <1>1, <1>3, <3>1, <3>2 DEF LineTypes
  <2>2. CASE dot # LineEnd
    <3>1. dot' \in RenderDots /\ line' = line
      BY <1>1, <2>2, RenderStep DEF DotAfter
    <3>2. dot' \in DotsOf(line')
      BY <1>1, <3>1, LinesAndDots
    <3>. QED
      BY <1>1, <1>3, <2>2, <3>1, <3>2 DEF LineTypes
  <2>. QED
    BY <2>1, <2>2
<1>5. frameDone' => line' = Idle /\ dot' = 0
  BY <1>1 DEF Idle, DotAfter
<1>6. Places'
  BY <1>4, <1>5 DEF Places
<1>7. ControlTypes'
  BY <1>1, <1>2, <1>3 DEF ControlTypes, ctrlVars
<1>8. Rendered'
  BY <1>1, <1>2, <1>3 DEF Rendered, ctrlVars
<1>9. BoundTypes'
  BY <1>1, <1>3 DEF BoundTypes, boundVars
<1>. QED
  BY <1>4, <1>6, <1>7, <1>8, <1>9

(* The idle line is never watched.                                         *)
LEMMA IdleMoves ==
  ASSUME IInv, StepIdleLine
  PROVE  LineTypes' /\ Places' /\ Rendered' /\ ControlTypes' /\ BoundTypes' /\ ~quiet'
<1>1. /\ line = Idle /\ line \in Lines /\ dot \in IdleDots /\ (frameDone => dot = 0)
      /\ evenFrame' = evenFrame /\ frameDone' = frameDone
      /\ UNCHANGED ctrlVars /\ UNCHANGED boundVars
      /\ dot' = DotAfter(dot, IdleWidth(dot))
      /\ line' = IF dot = LineEnd THEN FirstVblank ELSE line
  BY PositionKinds DEF IInv, LineTypes, StepIdleLine
<1>2. quiet' = FALSE /\ quietBefore' = FALSE
  BY DEF StepIdleLine
<1>3. /\ ControlTypes /\ BoundTypes /\ evenFrame \in BOOLEAN /\ frameDone \in BOOLEAN
  BY DEF IInv, LineTypes
<1>4. line' \in Lines /\ dot' \in DotsOf(line')
  <2>1. CASE dot = LineEnd
    <3>1. dot' = 0 /\ line' = FirstVblank
      BY <1>1, <2>1 DEF DotAfter
    <3>. QED
      BY <3>1, LinesAndDots
  <2>2. CASE dot # LineEnd
    <3>1. dot' \in IdleDots /\ line' = line
      BY <1>1, <2>2, IdleStep DEF DotAfter
    <3>. QED
      BY <1>1, <3>1, LinesAndDots
  <2>. QED
    BY <2>1, <2>2
<1>5. LineTypes'
  BY <1>1, <1>3, <1>4 DEF LineTypes
<1>6. frameDone' => line' = Idle /\ dot' = 168
  BY <1>1 DEF DotAfter, IdleWidth, LineEnd
<1>7. Places' /\ Rendered'
  BY <1>2, <1>6 DEF Places, Rendered
<1>8. ControlTypes'
  BY <1>1, <1>2, <1>3 DEF ControlTypes, ctrlVars
<1>9. BoundTypes'
  BY <1>1, <1>3 DEF BoundTypes, boundVars
<1>. QED
  BY <1>2, <1>5, <1>7, <1>8, <1>9

(* Nor is a line of vertical blanking, on which no frame is done.          *)
LEMMA VblankMoves ==
  ASSUME IInv, StepVblankLine
  PROVE  LineTypes' /\ Places' /\ Rendered' /\ ControlTypes' /\ BoundTypes' /\ ~quiet'
<1>1. /\ line \in VblankLines /\ line \in Lines /\ dot \in VblankDots
      /\ frameDone' = frameDone
      /\ UNCHANGED ctrlVars /\ UNCHANGED watchVars /\ UNCHANGED boundVars
      /\ dot' = DotAfter(dot, VblankWidth(dot))
      /\ line' = IF dot # LineEnd THEN line
                 ELSE IF line = LastVblank THEN PreRender ELSE line + 1
      /\ evenFrame' = IF dot = LineEnd /\ line = LastVblank THEN ~evenFrame ELSE evenFrame
  BY PositionKinds DEF IInv, LineTypes, StepVblankLine
<1>2. /\ ControlTypes /\ BoundTypes /\ Places /\ evenFrame \in BOOLEAN /\ frameDone \in BOOLEAN
  BY DEF IInv, LineTypes
<1>3. line \notin RenderLines /\ line # Idle
  BY <1>1, LinesAssumption DEF RenderLines, VblankLines, Idle, FirstVblank, PreRender
<1>4. ~quiet /\ ~frameDone
  BY <1>2, <1>3 DEF Places
<1>5. line' \in Lines /\ dot' \in DotsOf(line')
  <2>1. CASE dot = LineEnd
    <3>1. dot' = 0 /\ line' \in VblankLines \cup RenderLines
      BY <1>1, <2>1, LinesAndDots DEF DotAfter
    <3>. QED
      BY <3>1, LinesAndDots
  <2>2. CASE dot # LineEnd
    <3>1. dot' \in VblankDots /\ line' = line
      BY <1>1, <2>2, VblankStep DEF DotAfter
    <3>. QED
      BY <1>1, <3>1, LinesAndDots
  <2>. QED
    BY <2>1, <2>2
<1>6. evenFrame' \in BOOLEAN
  BY <1>1, <1>2
<1>7. LineTypes'
  BY <1>1, <1>2, <1>5, <1>6 DEF LineTypes
<1>8. ~quiet' /\ ~frameDone'
  BY <1>1, <1>4 DEF watchVars
<1>9. Places' /\ Rendered'
  BY <1>8 DEF Places, Rendered
<1>10. ControlTypes'
  BY <1>1, <1>2 DEF ControlTypes, ctrlVars, watchVars
<1>11. BoundTypes'
  BY <1>1, <1>2 DEF BoundTypes, boundVars
<1>. QED
  BY <1>7, <1>8, <1>9, <1>10, <1>11

(* Nothing is claimed about the ticks of a line that is not watched.       *)
LEMMA Unwatched == ASSUME ~quiet' PROVE OneTick'
BY DEF OneTick, BothLow, SpritesHigh, BackgroundHigh, Watched

(* The cycles of the lines that are not rendered pass without a fetch.     *)
LEMMA WaitStep ==
  ASSUME Sound(Now), NEW w \in Nat, Settle(Now, w)
  PROVE  Sound(Now)' /\ OnTime(Now, Now')
<1>1. cycle \in Int /\ At(Now) = cycle /\ Age(Now) \in 0 .. 7
  BY NowParts
<1>2. Sound(Now)' /\ Untouched(Now, Now')
  <2>1. Age(Now) + (cycle + w - At(Now)) >= 0 /\ w \in Int
    BY <1>1
  <2>. QED
    BY <1>1, <2>1, SettleParts
<1>3. OnTime(Now, Now')
  BY <1>2 DEF Untouched, OnTime
<1>. QED
  BY <1>2, <1>3

(* A value of A12 that an access puts on the bus.                          *)
LEMMA AddressStep ==
  ASSUME Sound(Now), NEW a12 \in BOOLEAN, Settle(Clock(Now, a12, cycle), 0)
  PROVE  Sound(Now)' /\ OnTime(Now, Now')
<1>1. cycle \in Int /\ Now.cycle = cycle
  BY NowParts
<1>2. PICK s : s = Clock(Now, a12, cycle)
  OBVIOUS
<1>3. Sound(s) /\ OnTime(Now, s) /\ s.cycle = cycle
  <2>1. CASE Rises(Now.irq, a12)
    BY <1>1, <1>2, <2>1, RiseClock
  <2>2. CASE ~Rises(Now.irq, a12)
    <3>1. Sound(s) /\ Untouched(Now, s) /\ s.cycle = cycle
      BY <1>1, <1>2, <2>2, StillClock
    <3>. QED
      BY <3>1 DEF Untouched, OnTime
  <2>. QED
    BY <2>1, <2>2
<1>4. At(s) = cycle /\ Age(s) \in 0 .. 7
  BY <1>3, SoundParts DEF At
<1>5. Sound(Now)' /\ Untouched(s, Now')
  <2>1. Settle(s, 0) /\ Age(s) + (cycle + 0 - At(s)) >= 0
    BY <1>1, <1>2, <1>4
  <2>. QED
    BY <1>1, <1>3, <2>1, SettleParts
<1>6. OnTime(Now, Now')
  BY <1>3, <1>5 DEF Untouched, OnTime
<1>. QED
  BY <1>5, <1>6
(* A step of the PPU keeps the invariant and raises the IRQ on time.       *)
LEMMA StepKeeps ==
  ASSUME IInv, Step
  PROVE  IInv' /\ OnTime(Now, Now')
<1>1. CASE StepRenderLine
  <2>1. Sound(Now)' /\ OnTime(Now, Now') /\ OneTick'
    <3>1. CASE dot = 0
      BY <1>1, <3>1, FirstStep, OneTickFirst
    <3>2. CASE dot # 0
      <4>1. PICK s \in Fetches :
              Sound(s) /\ OnTime(Now, s) /\ Sound(Now)' /\ Untouched(s, Now')
        BY <1>1, <3>2, FetchStep
      <4>2. OnTime(Now, Now')
        BY <4>1 DEF Untouched, OnTime
      <4>. QED
        BY <1>1, <3>2, <4>1, <4>2, OneTickFetch
    <3>. QED
      BY <3>1, <3>2
  <2>. QED
    BY <1>1, <2>1, RenderMoves DEF IInv
<1>2. CASE StepIdleLine
  <2>1. LineTypes' /\ Places' /\ Rendered' /\ ControlTypes' /\ BoundTypes' /\ ~quiet'
    BY <1>2, IdleMoves
  <2>2. OneTick'
    BY <2>1, Unwatched
  <2>3. Settle(Now, IdleWidth(dot)) /\ IdleWidth(dot) \in Nat /\ Sound(Now)
    BY <1>2 DEF StepIdleLine, IdleWidth, IInv
  <2>4. Sound(Now)' /\ OnTime(Now, Now')
    BY <2>3, WaitStep
  <2>. QED
    BY <2>1, <2>2, <2>4 DEF IInv
<1>3. CASE StepVblankLine
  <2>1. LineTypes' /\ Places' /\ Rendered' /\ ControlTypes' /\ BoundTypes' /\ ~quiet'
    BY <1>3, VblankMoves
  <2>2. OneTick'
    BY <2>1, Unwatched
  <2>3. Settle(Now, VblankWidth(dot)) /\ VblankWidth(dot) \in Nat /\ Sound(Now)
    BY <1>3 DEF StepVblankLine, VblankWidth, IInv
  <2>4. Sound(Now)' /\ OnTime(Now, Now')
    BY <2>3, WaitStep
  <2>. QED
    BY <2>1, <2>2, <2>4 DEF IInv
<1>. QED
  BY <1>1, <1>2, <1>3 DEF Step

(* The end of a frame moves the PPU's cycle count away from the mapper's:  *)
(* no claim about HighAt holds there, and none is needed.                  *)
LEMMA EndFrameKeeps ==
  ASSUME IInv, EndFrame
  PROVE  IInv' /\ OnTime(Now, Now')
<1>1. /\ frameDone /\ frameDone' = FALSE /\ line' = line /\ dot' = dot /\ evenFrame' = evenFrame
      /\ UNCHANGED ctrlVars /\ UNCHANGED watchVars /\ UNCHANGED boundVars
      /\ irq' = irq /\ cpuIrq' = cpuIrq /\ seen' = seen /\ cycle' \in Leads
  BY DEF EndFrame
<1>2. /\ LineTypes /\ ControlTypes /\ BoundTypes /\ Sound(Now) /\ Places /\ Rendered /\ OneTick
  BY DEF IInv
<1>3. cycle' \in Int
  BY <1>1, Mmc3Assumption
<1>4. LineTypes' /\ Places'
  BY <1>1, <1>2 DEF LineTypes, Places, watchVars
<1>5. ControlTypes' /\ BoundTypes'
  BY <1>1, <1>2 DEF ControlTypes, BoundTypes, ctrlVars, watchVars, boundVars
<1>6. Rendered'
  BY <1>1, <1>2 DEF Rendered, ctrlVars, watchVars
<1>7. /\ Now'.irq = irq /\ Now'.seen = seen /\ Now'.cpuIrq = cpuIrq
      /\ Now' = [irq |-> irq, cpuIrq |-> cpuIrq, cycle |-> cycle', seen |-> seen]
      /\ Now.irq = irq
  BY <1>1 DEF Now
<1>8. /\ cycle \in Int /\ irq \in IrqTypes /\ seen \in SeenTypes /\ cpuIrq \in Nat
      /\ seen.age \in 0 .. 7 /\ cpuIrq = IF irq.trigger THEN 1 ELSE 0
      /\ irq.counter > 0 => seen.run + irq.counter = seen.loaded
      /\ TicksOf(Now) = seen.ticks /\ (Missed(Now) <=> seen.missed)
  BY <1>2, NowParts
<1>9. Sound(Now')
  <2>1. Now' \in Mappers
    BY <1>3, <1>7, <1>8 DEF Mappers
  <2>. QED
    BY <1>7, <1>8, <2>1 DEF Sound, FilterSpan
<1>10. OnTime(Now, Now')
  BY <1>7 DEF OnTime
<1>11. TicksOf(Now') = TicksOf(Now) /\ (Missed(Now') <=> Missed(Now))
  BY <1>7, <1>8 DEF TicksOf, Missed
<1>12. OneTick'
  <2>1. CASE ~quiet'
    BY <2>1, Unwatched
  <2>2. CASE quiet'
    <3>1. line = Idle /\ dot = 0 /\ line \notin RenderLines
      BY <1>1, <1>2, <2>2, LinesAssumption DEF Places, watchVars, Idle, RenderLines
    <3>2. /\ bgTable' = bgTable /\ sprTable' = sprTable /\ quietBefore' = quietBefore
          /\ Watched' <=> Watched
      BY <1>1 DEF ctrlVars, watchVars, Watched
    <3>3. BothLow' /\ SpritesHigh'
      BY <1>1, <1>2, <1>11, <3>1, <3>2 DEF OneTick, BothLow, SpritesHigh
    <3>4. BackgroundHigh'
      BY <1>1, <1>2, <1>11, <3>1, <3>2 DEF OneTick, BackgroundHigh, LineEnd
    <3>. QED
      BY <3>3, <3>4 DEF OneTick
  <2>. QED
    BY <2>1, <2>2
<1>. QED
  BY <1>4, <1>5, <1>6, <1>9, <1>10, <1>12 DEF IInv

(* An access to a PPU register ends the watch of the line.                 *)
LEMMA AccessKeeps ==
  ASSUME IInv, SetTables \/ SetRendering \/ SetAddress
  PROVE  IInv' /\ OnTime(Now, Now')
<1>1. /\ quiet' = FALSE /\ line' = line /\ dot' = dot /\ evenFrame' = evenFrame
      /\ frameDone' = frameDone /\ quietBefore' = quietBefore /\ tables' = tables
      /\ writes' = writes /\ accesses' = accesses - 1 /\ accesses > 0
  BY DEF SetTables, SetRendering, SetAddress, Access
<1>2. LineTypes /\ ControlTypes /\ BoundTypes /\ Sound(Now) /\ Places
  BY DEF IInv
<1>3. LineTypes' /\ Places' /\ Rendered' /\ BoundTypes'
  BY <1>1, <1>2 DEF LineTypes, Places, Rendered, BoundTypes
<1>4. OneTick'
  BY <1>1, Unwatched
<1>5. OnTime(Now, Now)
  BY DEF OnTime
<1>6. ASSUME UNCHANGED <<cycle, irq, cpuIrq, seen>>
      PROVE  Sound(Now)' /\ OnTime(Now, Now')
  <2>1. Now' = Now
    BY <1>6 DEF Now
  <2>2. Sound(Now')
    BY <1>2, <2>1
  <2>. QED
    BY <1>5, <2>1, <2>2
<1>7. ASSUME \E a12 \in BOOLEAN : Settle(Clock(Now, a12, cycle), 0)
      PROVE  Sound(Now)' /\ OnTime(Now, Now')
  BY <1>2, <1>7, AddressStep
<1>8. CASE SetTables
  <2>1. PICK set \in tables : bgTable' = set[1] /\ sprTable' = set[2] /\ tall' = set[3]
    BY <1>8 DEF SetTables
  <2>2. set \in BOOLEAN \X BOOLEAN \X BOOLEAN
    BY <1>2, <2>1 DEF BoundTypes
  <2>3. rendering' = rendering /\ UNCHANGED <<cycle, irq, cpuIrq, seen>>
    BY <1>8 DEF SetTables
  <2>4. ControlTypes'
    BY <1>1, <1>2, <2>1, <2>2, <2>3 DEF ControlTypes
  <2>. QED
    BY <1>3, <1>4, <1>6, <2>3, <2>4 DEF IInv
<1>9. CASE SetRendering
  <2>1. ControlTypes'
    BY <1>1, <1>2, <1>9 DEF ControlTypes, SetRendering
  <2>2. \/ UNCHANGED <<cycle, irq, cpuIrq, seen>>
        \/ \E a12 \in BOOLEAN : Settle(Clock(Now, a12, cycle), 0)
    BY <1>9 DEF SetRendering
  <2>. QED
    BY <1>3, <1>4, <1>6, <1>7, <2>1, <2>2 DEF IInv
<1>10. CASE SetAddress
  <2>1. ControlTypes'
    BY <1>1, <1>2, <1>10 DEF ControlTypes, SetAddress, ctrlVars
  <2>2. \E a12 \in BOOLEAN : Settle(Clock(Now, a12, cycle), 0)
    BY <1>10 DEF SetAddress
  <2>. QED
    BY <1>3, <1>4, <1>7, <2>1, <2>2 DEF IInv
<1>. QED
  BY <1>8, <1>9, <1>10

(* A write to the mapper changes neither A12 nor what was seen of it.      *)
LEMMA MapperKeeps ==
  ASSUME IInv, MapperWrite,
         irq' \in IrqTypes, irq'.highAt = irq.highAt,
         irq'.counter \in {0, irq.counter},
         irq'.trigger => irq.trigger,
         cpuIrq' = IF irq'.trigger THEN 1 ELSE 0
  PROVE  IInv' /\ OnTime(Now, Now')
<1>1. /\ UNCHANGED posVars /\ UNCHANGED ctrlVars /\ UNCHANGED watchVars
      /\ seen' = seen /\ tables' = tables /\ accesses' = accesses
      /\ writes > 0 /\ writes' = writes - 1
  BY DEF MapperWrite
<1>2. LineTypes /\ ControlTypes /\ BoundTypes /\ Sound(Now) /\ Places /\ Rendered /\ OneTick
  BY DEF IInv
<1>3. LineTypes' /\ Places' /\ Rendered' /\ BoundTypes' /\ ControlTypes'
  BY <1>1, <1>2
     DEF LineTypes, Places, Rendered, BoundTypes, ControlTypes, posVars, ctrlVars, watchVars
<1>4. /\ cycle \in Int /\ irq \in IrqTypes /\ seen \in SeenTypes
      /\ seen.age \in 0 .. 7
      /\ irq.counter > 0 => seen.run + irq.counter = seen.loaded
      /\ TicksOf(Now) = seen.ticks /\ HighAt(Now) = irq.highAt
      /\ Age(Now) = seen.age /\ (Missed(Now) <=> seen.missed)
  BY <1>2, NowParts
<1>5. /\ Now' = [irq |-> irq', cpuIrq |-> cpuIrq', cycle |-> cycle, seen |-> seen]
      /\ Now.irq = irq
  BY <1>1 DEF Now, posVars
<1>6. /\ Now'.irq = irq' /\ Now'.seen = seen /\ Now'.cpuIrq = cpuIrq'
  BY <1>5
<1>7. Sound(Now')
  <2>1. cpuIrq' \in Nat
    OBVIOUS
  <2>2. Now' \in Mappers
    BY <1>4, <1>5, <2>1 DEF Mappers
  <2>3. irq'.counter > 0 => seen.run + irq'.counter = seen.loaded
    BY <1>4
  <2>. QED
    BY <1>4, <1>6, <2>2, <2>3 DEF Sound, FilterSpan
<1>8. OnTime(Now, Now')
  BY <1>5, <1>6 DEF OnTime
<1>9. /\ TicksOf(Now') = TicksOf(Now) /\ (Missed(Now') <=> Missed(Now))
      /\ Age(Now') = Age(Now) /\ HighAt(Now') = HighAt(Now)
  BY <1>4, <1>6 DEF TicksOf, Missed, Age, HighAt
<1>10. /\ bgTable' = bgTable /\ sprTable' = sprTable /\ quietBefore' = quietBefore
       /\ (Watched' <=> Watched) /\ line' = line /\ dot' = dot /\ cycle' = cycle
  BY <1>1 DEF ctrlVars, watchVars, posVars, Watched
<1>11. OneTick'
  <2>1. BothLow' /\ SpritesHigh'
    BY <1>2, <1>9, <1>10 DEF OneTick, BothLow, SpritesHigh
  <2>2. BackgroundHigh'
    BY <1>2, <1>9, <1>10 DEF OneTick, BackgroundHigh
  <2>. QED
    BY <2>1, <2>2 DEF OneTick
<1>. QED
  BY <1>3, <1>7, <1>8, <1>11 DEF IInv

(* The four registers of the mapper.                                       *)
LEMMA WriteKeeps ==
  ASSUME IInv, WriteLatch \/ WriteReload \/ EnableIrq \/ DisableIrq
  PROVE  IInv' /\ OnTime(Now, Now')
<1>1. /\ irq \in IrqTypes /\ cpuIrq \in Nat /\ cpuIrq = IF irq.trigger THEN 1 ELSE 0
  BY NowParts DEF IInv
<1>2. CASE WriteLatch
  <2>1. PICK v \in 0 .. MaxLatch : irq' = [irq EXCEPT !.latch = v]
    BY <1>2 DEF WriteLatch
  <2>2. MapperWrite /\ cpuIrq' = cpuIrq
    BY <1>2 DEF WriteLatch
  <2>3. /\ irq' \in IrqTypes /\ irq'.highAt = irq.highAt /\ irq'.counter = irq.counter
        /\ irq'.trigger = irq.trigger
    BY <1>1, <2>1 DEF IrqTypes
  <2>. QED
    BY <1>1, <2>2, <2>3, MapperKeeps
<1>3. CASE WriteReload
  <2>1. irq' = [irq EXCEPT !.reload = TRUE, !.counter = 0] /\ MapperWrite /\ cpuIrq' = cpuIrq
    BY <1>3 DEF WriteReload
  <2>2. 0 \in 0 .. MaxLatch
    BY Mmc3Assumption
  <2>3. irq' \in IrqTypes
    BY <1>1, <2>1, <2>2 DEF IrqTypes
  <2>4. irq'.highAt = irq.highAt /\ irq'.counter = 0 /\ irq'.trigger = irq.trigger
    BY <1>1, <2>1 DEF IrqTypes
  <2>. QED
    BY <1>1, <2>1, <2>3, <2>4, MapperKeeps
<1>4. CASE EnableIrq
  <2>1. irq' = [irq EXCEPT !.enable = TRUE] /\ MapperWrite /\ cpuIrq' = cpuIrq
    BY <1>4 DEF EnableIrq
  <2>2. /\ irq' \in IrqTypes /\ irq'.highAt = irq.highAt /\ irq'.counter = irq.counter
        /\ irq'.trigger = irq.trigger
    BY <1>1, <2>1 DEF IrqTypes
  <2>. QED
    BY <1>1, <2>1, <2>2, MapperKeeps
<1>5. CASE DisableIrq
  <2>1. /\ irq' = [irq EXCEPT !.enable = FALSE, !.trigger = FALSE] /\ MapperWrite
        /\ cpuIrq' = IF irq.trigger /\ cpuIrq > 0 THEN cpuIrq - 1 ELSE cpuIrq
    BY <1>5 DEF DisableIrq
  <2>2. /\ irq' \in IrqTypes /\ irq'.highAt = irq.highAt /\ irq'.counter = irq.counter
        /\ irq'.trigger = FALSE
    BY <1>1, <2>1 DEF IrqTypes
  <2>3. cpuIrq' = 0
    BY <1>1, <2>1
  <2>. QED
    BY <2>1, <2>2, <2>3, MapperKeeps
<1>. QED
  BY <1>2, <1>3, <1>4, <1>5

(* Every step keeps the invariant, and raises the IRQ on time.             *)
LEMMA IInvNext == IInv /\ [Next]_vars => IInv' /\ OnTime(Now, Now')
<1>. SUFFICES ASSUME IInv, [Next]_vars PROVE IInv' /\ OnTime(Now, Now')
  OBVIOUS
<1>1. CASE Step
  BY <1>1, StepKeeps
<1>2. CASE EndFrame
  BY <1>2, EndFrameKeeps
<1>3. CASE Program
  BY <1>3, AccessKeeps, WriteKeeps DEF Program
<1>4. CASE UNCHANGED vars
  <2>1. /\ UNCHANGED posVars /\ UNCHANGED ctrlVars /\ UNCHANGED watchVars /\ UNCHANGED boundVars
        /\ irq' = irq /\ cpuIrq' = cpuIrq /\ seen' = seen
    BY <1>4 DEF vars
  <2>2. Now' = Now /\ cycle' = cycle
    BY <2>1 DEF Now, posVars
  <2>3. OnTime(Now, Now')
    BY <2>2 DEF OnTime
  <2>4. LineTypes' /\ ControlTypes' /\ BoundTypes' /\ Places' /\ Rendered'
    BY <2>1 DEF IInv, LineTypes, ControlTypes, BoundTypes, Places, Rendered,
                posVars, ctrlVars, watchVars, boundVars
  <2>5. Sound(Now)'
    <3>1. Sound(Now')
      BY <2>2 DEF IInv
    <3>. QED
      BY <3>1
  <2>6. /\ bgTable' = bgTable /\ sprTable' = sprTable /\ quietBefore' = quietBefore
        /\ (Watched' <=> Watched) /\ line' = line /\ dot' = dot
    BY <2>1 DEF ctrlVars, watchVars, posVars, Watched
  <2>7. OneTick'
    BY <2>2, <2>6 DEF IInv, OneTick, BothLow, SpritesHigh, BackgroundHigh
  <2>. QED
    BY <2>3, <2>4, <2>5, <2>7 DEF IInv
<1>. QED
  BY <1>1, <1>2, <1>3, <1>4 DEF Next

(* The invariant holds in every state.                                     *)
LEMMA IInvHolds == Spec => []IInv
<1>1. IInv /\ [Next]_vars => IInv'
  BY IInvNext
<1>. QED
  BY <1>1, IInvInit, PTL DEF Spec

(* For every number of scanlines, every latch, every lead and whatever     *)
(* programs do, the state keeps its types.                                 *)
THEOREM IrqTypeCorrect == Spec => []TypeOK
<1>1. IInv => TypeOK
  <2>. SUFFICES ASSUME IInv PROVE TypeOK
    OBVIOUS
  <2>1. cycle \in Int /\ irq \in IrqTypes /\ seen \in SeenTypes /\ cpuIrq \in Nat
    BY NowParts DEF IInv
  <2>. QED
    BY <2>1 DEF IInv, LineTypes, ControlTypes, BoundTypes, TypeOK
<1>. QED
  BY <1>1, IInvHolds, PTL

(* Cpu.irq is one while the mapper's IRQ is triggered and zero otherwise:  *)
(* what is raised is raised once and what is acknowledged is gone.         *)
THEOREM IrqLineAgrees == Spec => []IrqLineMatches
<1>1. IInv => IrqLineMatches
  BY NowParts DEF IInv, IrqLineMatches
<1>. QED
  BY <1>1, IInvHolds, PTL

(* A line that is rendered without accesses clocks the counter once, on    *)
(* any line of any frame, whatever the lead was when the frame began.      *)
THEOREM LineTicksOnce == Spec => []OneTickPerLine
<1>1. IInv => OneTickPerLine
  <2>. SUFFICES ASSUME IInv, dot = 0, quiet, ~tall, ~seen.missed
                PROVE  /\ ~bgTable /\ sprTable => seen.ticks = 1
                       /\ bgTable /\ ~sprTable /\ quietBefore => seen.ticks = 1
                       /\ ~bgTable /\ ~sprTable => seen.ticks = 0
    BY DEF OneTickPerLine
  <2>1. TicksOf(Now) = seen.ticks /\ (Missed(Now) <=> seen.missed)
    BY NowParts DEF IInv
  <2>2. Watched /\ ~Missed(Now)
    BY <2>1 DEF Watched
  <2>. QED
    BY <2>1, <2>2 DEF IInv, OneTick, BothLow, SpritesHigh, BackgroundHigh
<1>. QED
  BY <1>1, IInvHolds, PTL

(* The IRQ is raised on the tick that the program asked for, never on an   *)
(* earlier or a later one.                                                 *)
THEOREM IrqAtZero == Spec => IrqOnTime
<1>1. IInv /\ [Next]_vars => [~irq.trigger /\ irq'.trigger => seen'.run = seen'.loaded]_vars
  <2>. SUFFICES ASSUME IInv, [Next]_vars, ~irq.trigger, irq'.trigger
                PROVE  seen'.run = seen'.loaded
    OBVIOUS
  <2>1. OnTime(Now, Now')
    BY IInvNext
  <2>2. Now.irq = irq /\ Now'.irq = irq' /\ Now'.seen = seen'
    BY DEF Now
  <2>. QED
    BY <2>1, <2>2 DEF OnTime
<1>. QED
  BY <1>1, IInvHolds, PTL DEF Spec, IrqOnTime
=============================================================================
