--------------------------- MODULE RecoveryProof ----------------------------
(***************************************************************************)
(* Proofs about Recovery, for every geometry of the flash and every set of *)
(* files: recovery touches the firmware only, starts only from a file that *)
(* is whole, and ends with that file in flash.                             *)
(***************************************************************************)
EXTENDS Recovery, FlashCmdProof

FwEnd == FwFirst + FwSectors

(* The sizes are natural numbers, and the firmware lies inside the flash   *)
(* and its sectors side by side.                                           *)
LEMMA Sizes ==
  /\ SectorSize \in Nat \ {0}
  /\ FlashSize \in Nat /\ FwSize \in Nat /\ BootSize \in Nat \ {0}
  /\ FwEnd \in Nat /\ FwFirst < FwEnd /\ FwEnd <= SectorCount
  /\ BootSize = FwFirst * SectorSize
  /\ BootSize + FwSize = FwEnd * SectorSize
  /\ BootSize + FwSize <= FlashSize
  /\ SectorSize <= FwSize
<1>1. SectorSize \in Nat \ {0}
  BY GeometryAssumption, SMT DEF SectorSize
<1>2. FwEnd \in Nat /\ FwFirst < FwEnd /\ FwEnd <= SectorCount
  BY RecoveryAssumption, GeometryAssumption DEF FwEnd
<1>3. /\ FlashSize \in Nat /\ FwSize \in Nat /\ BootSize \in Nat \ {0}
      /\ BootSize = FwFirst * SectorSize
  BY <1>1, RecoveryAssumption, GeometryAssumption, SMT
     DEF FlashSize, FwSize, BootSize
<1>4. BootSize + FwSize = FwEnd * SectorSize
  BY <1>1, RecoveryAssumption, SMT DEF FwSize, BootSize, FwEnd
<1>5. FwEnd * SectorSize <= SectorCount * SectorSize
  BY <1>1, <1>2, MulMono, GeometryAssumption
<1>6. 1 * SectorSize <= FwSectors * SectorSize
  BY <1>1, MulMono, RecoveryAssumption
<1> QED  BY <1>1, <1>2, <1>3, <1>4, <1>5, <1>6 DEF FlashSize, FwSize

(* The addresses of the firmware are far from the end of the address space.*)
LEMMA Addresses ==
  /\ start(FwFirst) \in Nat
  /\ start(FwFirst) = CFG_FLASH_BASE + BootSize
  /\ LastAddr(start(FwFirst), FwSize) = CFG_FLASH_BASE + FwEnd * SectorSize - 1
  /\ SectorEnd(FwEnd - 1) = CFG_FLASH_BASE + FwEnd * SectorSize - 1
  /\ InFlash(CFG_FLASH_BASE + FwEnd * SectorSize - 1)
  /\ InFlash(start(FwFirst))
<1>1. start(FwFirst) = CFG_FLASH_BASE + BootSize /\ start(FwFirst) \in Nat
  BY Sizes, GeometryAssumption DEF start
<1> DEFINE e == CFG_FLASH_BASE + FwEnd * SectorSize - 1
<1>2. e \in 0..(AddrMod - 1) /\ AddrMod \in Nat \ {0}
  BY Sizes, GeometryAssumption, AddrAssumption
<1>3. start(FwFirst) + FwSize - 1 = e
  BY <1>1, Sizes, GeometryAssumption
<1>4. LastAddr(start(FwFirst), FwSize) = e
  <2> HIDE DEF e
  <2> QED  BY <1>2, <1>3, ModSmall DEF LastAddr
<1>5. (FwEnd - 1) * SectorSize + SectorSize = FwEnd * SectorSize
  BY Sizes, SMT
<1>6. SectorEnd(FwEnd - 1) = e
  <2>1. (FwEnd - 1) * SectorSize \in Int  BY Sizes, SMT
  <2> QED  BY <2>1, <1>5, Sizes, GeometryAssumption DEF SectorEnd, start
<1>7. InFlash(e) /\ InFlash(start(FwFirst))
  BY <1>1, Sizes, GeometryAssumption, RecoveryAssumption DEF InFlash, b_end
<1> QED  BY <1>1, <1>4, <1>6, <1>7

(* `erase 0x9f020000 +3c0000' stands for the sectors of the firmware. *)
LEMMA ErasePlan == do_flerase(EraseArg) = FwFirst..(FwEnd - 1)
<1> DEFINE first == start(FwFirst)
           last == CFG_FLASH_BASE + FwEnd * SectorSize - 1
<1>1. first \in Nat /\ last \in Nat /\ first < last
  BY Sizes, Addresses, GeometryAssumption, RecoveryAssumption
<1>2. FwFirst \in Sectors /\ FwEnd - 1 \in Sectors
  BY Sizes, RecoveryAssumption, GeometryAssumption DEF Sectors
<1>3. start(FwEnd - 1) <= last /\ last = SectorEnd(FwEnd - 1)
  BY Sizes, Addresses, <1>1, GeometryAssumption, SMT DEF start, SectorEnd
<1>4. addr_spec(first, TRUE, FwSize) = [ok |-> TRUE, first |-> first, last |-> last]
  <2>1. LastAddr(first, FwSize) = last  BY Addresses
  <2>2. /\ LastAddr(first, FwSize) \in Int
        /\ start(FwEnd - 1) <= LastAddr(first, FwSize)
        /\ LastAddr(first, FwSize) <= SectorEnd(FwEnd - 1)
    <3> HIDE DEF first, last
    <3> QED  BY <2>1, <1>1, <1>3
  <2>3. addr_spec(first, TRUE, FwSize) =
          [ok |-> TRUE, first |-> first, last |-> SectorEnd(FwEnd - 1)]
    <3> HIDE DEF first, last
    <3> QED  BY <2>2, <1>2, SpecWithLength
  <2> QED  BY <2>3, <1>3
<1>5. flash_fill_sect_ranges(first, last) = FwFirst..(FwEnd - 1)
  <2>1. flash_fill_sect_ranges(first, last) =
          {s \in Sectors : FwFirst <= s /\ s <= FwEnd - 1}
    <3>1. start(FwFirst) <= last  BY <1>1
    <3> HIDE DEF last
    <3> QED  BY <1>1, <1>2, <1>3, <3>1, FillRange
  <2> HIDE DEF first, last
  <2> QED  BY <2>1, Sizes, RecoveryAssumption, GeometryAssumption DEF Sectors
<1> QED
  <2> HIDE DEF first, last
  <2>1. EraseArg.form = "range" /\ EraseArg.plus = TRUE
        /\ EraseArg.first = first /\ EraseArg.second = FwSize
    BY DEF EraseArg, first
  <2> DEFINE r == addr_spec(EraseArg.first, EraseArg.plus, EraseArg.second)
  <2>2. r.ok = TRUE /\ r.first = first /\ r.last = last
    <3>1. r = [ok |-> TRUE, first |-> first, last |-> last]
      BY <2>1, <1>4, Zenon
    <3> HIDE DEF r
    <3> QED  BY <3>1, Zenon
  <2>3. do_flerase(EraseArg) = IF ~r.ok \/ r.first >= r.last THEN {}
                               ELSE flash_fill_sect_ranges(r.first, r.last)
    <3>1. EraseArg.form \notin {"all", "bank", "sectors"}  BY <2>1
    <3> HIDE DEF r
    <3> QED  BY <3>1, <2>1, Zenon DEF do_flerase, r
  <2> HIDE DEF r
  <2> QED  BY <2>2, <2>3, <1>1, <1>5

(* So the command is accepted and hands those sectors to flash_erase. *)
LEMMA EraseStarts ==
  /\ ~EraseRejected(EraseArg)
  /\ EraseCommand(EraseArg) => flash_erase(FwFirst, FwEnd - 1)
<1>1. FwFirst \in FwFirst..(FwEnd - 1) /\ FwEnd - 1 \in FwFirst..(FwEnd - 1)
  BY Sizes, RecoveryAssumption
<1>2. ~EraseRejected(EraseArg)
  BY <1>1, ErasePlan DEF EraseRejected
<1>3. ASSUME EraseCommand(EraseArg)
      PROVE  flash_erase(FwFirst, FwEnd - 1)
  <2>1. PICK f \in FwFirst..(FwEnd - 1), l \in FwFirst..(FwEnd - 1) :
          /\ \A s \in FwFirst..(FwEnd - 1) : f <= s /\ s <= l
          /\ flash_erase(f, l)
    BY <1>3, ErasePlan DEF EraseCommand
  <2>2. f = FwFirst /\ l = FwEnd - 1
    BY <2>1, <1>1, Sizes, RecoveryAssumption
  <2> QED  BY <2>1, <2>2
<1> QED  BY <1>2, <1>3

(* cp.b writes as many cells as the firmware has. *)
LEMMA CopyStarts ==
  /\ ~CopyRejected(CopyFrom, start(FwFirst), FwSize)
  /\ CopyCommand(CopyFrom, start(FwFirst), FwSize)
       => write_buff(CopyFrom, start(FwFirst), FwSize)
<1>1. FwSize # 0  BY Sizes
<1>2. flash_write(start(FwFirst), FwSize)
  <2>1. (start(FwFirst) + FwSize - 1) % AddrMod = LastAddr(start(FwFirst), FwSize)
    BY DEF LastAddr
  <2> QED  BY <2>1, Addresses DEF flash_write
<1>3. ~(FwSize > b_end + 1 - start(FwFirst))
  BY Sizes, Addresses, GeometryAssumption DEF b_end
<1> QED  BY <1>1, <1>2, <1>3 DEF CopyRejected, CopyCommand
-----------------------------------------------------------------------------
(* A turn of the erase loop erases one sector of the firmware. *)
LEMMA SectorInFirmware ==
  ASSUME NEW s \in FwFirst..(FwEnd - 1)
  PROVE  /\ SectorCells(s) \subseteq FwCells
         /\ s * SectorSize \in Nat
         /\ (s + 1) * SectorSize = s * SectorSize + SectorSize
         /\ ath_spi_send_addr(s) = s
<1>1. s \in Nat /\ FwFirst \in Nat  BY RecoveryAssumption
<1>2. FwFirst * SectorSize <= s * SectorSize
  BY <1>1, MulMono, Sizes, RecoveryAssumption
<1>3. (s + 1) * SectorSize <= FwEnd * SectorSize
  BY <1>1, MulMono, Sizes
<1>4. (s + 1) * SectorSize = s * SectorSize + SectorSize /\ s * SectorSize \in Nat
  BY <1>1, Sizes, SMT
<1>5. s \in Sectors
  BY RecoveryAssumption, GeometryAssumption DEF Sectors, FwEnd
<1>6. ath_spi_send_addr(s) = s  BY <1>5, SentAddress
<1> QED  BY <1>2, <1>3, <1>4, <1>6, Sizes DEF SectorCells, FwCells

(* A turn of the write loop writes one page, in order and without wrapping *)
(* around in it: the firmware starts on a page boundary and so does every  *)
(* turn.                                                                   *)
LEMMA PageInFirmware ==
  ASSUME op = "write", WriteInv, total < len
  PROVE  /\ len_this_lp = PageSize
         /\ total \in Nat
         /\ PageCells(addr + total) = (addr + total)..(addr + total + PageSize - 1)
         /\ PageCells(addr + total) \subseteq FwCells
         /\ \A c \in PageCells(addr + total) : Nth(c, addr + total) = c - (addr + total)
         /\ \E q \in 0..(FwSectors * PagesPerSector) : total + PageSize = q * PageSize
<1> DEFINE B == FwFirst * PagesPerSector
           N == FwSectors * PagesPerSector
<1>1. PICK q \in 0..N : total = q * PageSize
  BY DEF WriteInv
<1>2. addr = BootSize /\ len = FwSize
  BY DEF WriteInv
<1>3. B \in Nat /\ N \in Nat /\ PageSize \in Nat \ {0}
  BY RecoveryAssumption, GeometryAssumption, SMT
<1>4. BootSize = B * PageSize /\ FwSize = N * PageSize
  BY RecoveryAssumption, GeometryAssumption, SMT DEF BootSize, FwSize, SectorSize
<1> HIDE DEF B, N
<1>5. q < N
  <2>1. SUFFICES ASSUME N <= q PROVE FALSE
    BY <1>3
  <2>2. N * PageSize <= q * PageSize  BY <2>1, <1>3, MulMono
  <2>3. q * PageSize \in Nat /\ N * PageSize \in Nat  BY <1>3, SMT
  <2> QED  BY <2>2, <2>3, <1>1, <1>2, <1>4
<1>6. total \in Nat /\ BootSize \in Nat /\ FwSize \in Nat
  BY <1>1, <1>3, Sizes, SMT
<1>7. (q + 1) * PageSize = total + PageSize /\ (q + 1) * PageSize <= FwSize
  <2>1. (q + 1) * PageSize <= N * PageSize  BY <1>3, <1>5, MulMono
  <2>2. (q + 1) * PageSize = q * PageSize + PageSize  BY <1>3, SMT
  <2> QED  BY <2>1, <2>2, <1>1, <1>4
<1>8. len_this_lp = PageSize
  <2>1. addr % PageSize = 0  BY <1>2, <1>3, <1>4, ModMultiple
  <2>2. bytes_this_page = PageSize  BY <2>1, <1>3 DEF bytes_this_page
  <2> QED  BY <2>2, <1>2, <1>3, <1>6, <1>7 DEF len_this_lp
<1>9. (addr + total) % PageSize = 0
  <2>1. addr + total = (B + q) * PageSize  BY <1>1, <1>2, <1>3, <1>4, SMT
  <2> QED  BY <2>1, <1>3, ModMultiple
<1>10. PageCells(addr + total) = (addr + total)..(addr + total + PageSize - 1)
  BY <1>2, <1>3, <1>6, <1>9 DEF PageCells, PageStart
<1>11. PageCells(addr + total) \subseteq FwCells
  BY <1>2, <1>3, <1>6, <1>7, <1>10 DEF FwCells
<1>12. ASSUME NEW c \in PageCells(addr + total)
       PROVE  Nth(c, addr + total) = c - (addr + total)
  <2>1. c - (addr + total) \in 0..(PageSize - 1)
    BY <1>2, <1>3, <1>6, <1>10
  <2> QED  BY <2>1, <1>3, ModSmall DEF Nth
<1>13. q + 1 \in 0..N
  BY <1>3, <1>5
<1> QED  BY <1>6, <1>7, <1>8, <1>10, <1>11, <1>12, <1>13 DEF N

(* Whenever the power fails, only cells of the firmware are torn. *)
LEMMA BusyInFirmware == RecoveryInv => BusyCells \subseteq FwCells
<1> SUFFICES ASSUME RecoveryInv PROVE BusyCells \subseteq FwCells
  OBVIOUS
<1>1. CASE op = "erase" /\ i <= s_last
  <2>1. i \in FwFirst..(FwEnd - 1)
    BY <1>1, RecoveryAssumption DEF RecoveryInv, EraseInv, FwEnd
  <2>2. BusyCells = SectorCells(ath_spi_send_addr(i))  BY <1>1 DEF BusyCells
  <2> QED  BY <2>1, <2>2, SectorInFirmware
<1>2. CASE op = "write" /\ total < len
  <2>1. BusyCells = PageCells(addr + total)  BY <1>2 DEF BusyCells
  <2> QED  BY <2>1, <1>2, PageInFirmware DEF RecoveryInv
<1>3. CASE ~(op = "erase" /\ i <= s_last) /\ ~(op = "write" /\ total < len)
  BY <1>3 DEF BusyCells
<1> QED  BY <1>1, <1>2, <1>3
-----------------------------------------------------------------------------
LEMMA InitInv == Init => RecoveryInv
<1> SUFFICES ASSUME Init PROVE RecoveryInv
  OBVIOUS
<1>1. TypeOK
  BY RecoveryAssumption, GeometryAssumption
     DEF Init, DriverIdle, TypeOK, ChipTypeOK, Garbage
<1>2. OnlyFirmwareChanges  BY DEF Init, OnlyFirmwareChanges
<1> QED  BY <1>1, <1>2 DEF Init, DriverIdle, RecoveryInv, FlashedFromWholeFile,
            RecoveredIsFile, ControlInv, EraseInv, WriteInv

(* Where neither loop runs and the recovery has not been decided on. *)
Undecided == {"start", "tftp", "verify", "autoboot", "bootm", "linux", "crash",
              "console"}

(* A step between such places that leaves the chip alone keeps the         *)
(* invariant, provided filesize stays true to RAM.                         *)
LEMMA UndecidedStep ==
  ASSUME RecoveryInv, pc \in Undecided \/ pc = "reset", pc' \in Undecided,
         UNCHANGED <<chipVars, failures>>,
         DOMAIN ram' = 0..(RamSize - 1),
         filesize' \in 0..RamSize,
         pc' \in {"start", "tftp"} => filesize' = 0,
         filesize' # 0 => \E f \in Files : WholeInRam(f)'
  PROVE  RecoveryInv'
<1>1. TypeOK'
  BY DEF RecoveryInv, TypeOK, ChipTypeOK, chipVars, Undecided
<1>2. OnlyFirmwareChanges'
  BY DEF RecoveryInv, OnlyFirmwareChanges, chipVars
<1>3. op # "erase" /\ op # "write"
  BY DEF RecoveryInv, ControlInv, Undecided
<1>4. ControlInv'
  <2>1. op' = op  BY DEF chipVars
  <2>2. pc' # "erase" /\ pc' # "write"  BY DEF Undecided
  <2> QED  BY <1>3, <2>1, <2>2 DEF ControlInv
<1>5. FlashedFromWholeFile' /\ RecoveredIsFile' /\ EraseInv' /\ WriteInv'
  <2>1. op' = op  BY DEF chipVars
  <2>2. pc' \notin {"erase", "cp", "write", "reset"}  BY DEF Undecided
  <2> QED  BY <1>3, <2>1, <2>2 DEF FlashedFromWholeFile, RecoveredIsFile, EraseInv, WriteInv
<1> QED  BY <1>1, <1>2, <1>4, <1>5 DEF RecoveryInv

(* do_reset and a step that leaves RAM and filesize alone are of that kind.*)
LEMMA ResetStep ==
  ASSUME RecoveryInv, pc \in Undecided \/ pc = "reset", do_reset,
         UNCHANGED <<chipVars, failures>>
  PROVE  RecoveryInv'
<1>1. DOMAIN ram' = 0..(RamSize - 1)
  BY DEF RecoveryInv, TypeOK, do_reset, Garbage
<1>2. filesize' = 0 /\ pc' = "start"  BY DEF do_reset
<1>3. filesize' \in 0..RamSize  BY <1>2, GeometryAssumption
<1>4. pc' \in Undecided  BY <1>2 DEF Undecided
<1> QED  BY <1>1, <1>2, <1>3, <1>4, UndecidedStep

LEMMA QuietStep ==
  ASSUME RecoveryInv, pc \in Undecided, pc' \in Undecided \ {"start"},
         pc' = "tftp" => filesize = 0,
         UNCHANGED <<chipVars, ram, filesize, failures>>
  PROVE  RecoveryInv'
<1>1. DOMAIN ram' = 0..(RamSize - 1) /\ filesize' \in 0..RamSize
  BY DEF RecoveryInv, TypeOK
<1>2. filesize' # 0 => \E f \in Files : WholeInRam(f)'
  BY DEF RecoveryInv, ControlInv, WholeInRam
<1> QED  BY <1>1, <1>2, UndecidedStep

(* The whole of a file is in RAM after a complete download. *)
LEMMA TftpCompleteStep ==
  ASSUME RecoveryInv, NEW f \in Files, TftpComplete(f)
  PROVE  RecoveryInv'
<1>1. DOMAIN ram' = 0..(RamSize - 1)  BY DEF TftpComplete, Loaded
<1>2. filesize' = Size[f] /\ Size[f] \in 1..RamSize
  BY RecoveryAssumption DEF TftpComplete
<1>3. WholeInRam(f)'
  BY <1>2, RecoveryAssumption, GeometryAssumption DEF TftpComplete, Loaded, WholeInRam
<1>4. pc \in Undecided /\ pc' \in Undecided /\ pc' = "verify"
  BY DEF TftpComplete, Undecided
<1>5. UNCHANGED <<chipVars, failures>>  BY DEF TftpComplete
<1>6. filesize' \in 0..RamSize  BY <1>2, GeometryAssumption
<1> QED  BY <1>1, <1>3, <1>4, <1>5, <1>6, UndecidedStep

LEMMA TftpFailedStep ==
  ASSUME RecoveryInv, NEW f \in Files, NEW n \in 0..(Size[f] - 1),
         TftpGivenUp(f, n) \/ TftpRetriesExceeded(f, n)
  PROVE  RecoveryInv'
<1>1. DOMAIN ram' = 0..(RamSize - 1)
  BY DEF TftpGivenUp, TftpRetriesExceeded, Loaded
<1>2. pc = "tftp" /\ pc' \in {"verify", "bootm"} /\ filesize' = filesize
      /\ UNCHANGED <<chipVars, failures>>
  BY DEF TftpGivenUp, TftpRetriesExceeded
<1>3. filesize' = 0  BY <1>2 DEF RecoveryInv, ControlInv
<1>4. filesize' \in 0..RamSize  BY <1>3, GeometryAssumption
<1>5. pc \in Undecided /\ pc' \in Undecided  BY <1>2 DEF Undecided
<1> QED  BY <1>1, <1>2, <1>3, <1>4, <1>5, UndecidedStep
-----------------------------------------------------------------------------
(* The decision to flash: filesize says that some file is whole in RAM,    *)
(* and the product id that it is one for this board.                       *)
LEMMA DecisionIsSound ==
  ASSUME RecoveryInv, ProductMatches, KnownSize
  PROVE  \E f \in OurProduct : WholeInRam(f)
<1>1. filesize # 0
  BY Sizes, RecoveryAssumption DEF KnownSize, FullSize
<1>2. PICK f \in Files : WholeInRam(f)
  BY <1>1 DEF RecoveryInv, ControlInv
<1>3. ram[0] = <<f, 0>>
  <2>1. Size[f] \in 1..RamSize  BY RecoveryAssumption
  <2>2. 0 \in 0..(Size[f] - 1)  BY <2>1
  <2> QED  BY <1>2, <2>2 DEF WholeInRam
<1>4. PICK g \in OurProduct : ram[0] = <<g, 0>>
  BY DEF ProductMatches
<1>5. f = g  BY <1>3, <1>4
<1> QED  BY <1>2, <1>4, <1>5

LEMMA RunEraseStep == ASSUME RecoveryInv, RunErase PROVE RecoveryInv'
<1>1. flash_erase(FwFirst, FwEnd - 1) /\ pc' = "erase"
  BY EraseStarts DEF RunErase
<1>2. pc = "verify" /\ UNCHANGED <<ram, filesize, failures>>
  BY DEF RunErase
<1>3. /\ op' = "erase" /\ i' = FwFirst /\ s_last' = FwFirst + FwSectors - 1
      /\ UNCHANGED <<flash, source, addr, len, total>>
  BY <1>1, RecoveryAssumption DEF flash_erase, FwEnd
<1>4. TypeOK'
  BY <1>1, <1>2, <1>3, RecoveryAssumption DEF RecoveryInv, TypeOK, ChipTypeOK
<1>5. OnlyFirmwareChanges'
  BY <1>3 DEF RecoveryInv, OnlyFirmwareChanges
<1>6. FlashedFromWholeFile'
  <2>1. KnownSize /\ \E f \in OurProduct : WholeInRam(f)
    BY DecisionIsSound DEF RunErase
  <2> QED  BY <2>1, <1>2 DEF FlashedFromWholeFile, KnownSize, WholeInRam
<1>7. ControlInv'
  BY <1>1, <1>2, <1>3 DEF RecoveryInv, ControlInv, WholeInRam
<1>8. EraseInv'
  <2>1. \A c \in FwCells : ~(c < FwFirst * SectorSize)
    BY Sizes DEF FwCells
  <2>2. FwFirst \in FwFirst..(FwFirst + FwSectors)  BY RecoveryAssumption
  <2> QED  BY <2>1, <2>2, <1>1, <1>3 DEF EraseInv
<1> QED  BY <1>1, <1>3, <1>4, <1>5, <1>6, <1>7, <1>8
            DEF RecoveryInv, RecoveredIsFile, WriteInv

LEMMA ErasingStep == ASSUME RecoveryInv, Erasing PROVE RecoveryInv'
<1>1. op = "erase" /\ pc = "erase" /\ UNCHANGED <<ram, filesize, failures>>
  BY DEF Erasing, ath_spi_sector_erase, flash_erase_return
<1>2. CASE ath_spi_sector_erase
  <2>1. /\ i <= s_last
        /\ flash' = [c \in Cells |-> IF c \in SectorCells(i) THEN Erased ELSE flash[c]]
        /\ i' = i + 1
        /\ UNCHANGED <<op, s_last, source, addr, len, total>>
    <3>1. i <= s_last  BY <1>2 DEF ath_spi_sector_erase
    <3>2. i \in FwFirst..(FwEnd - 1)
      BY <1>1, <3>1, RecoveryAssumption DEF RecoveryInv, EraseInv, FwEnd
    <3>3. ath_spi_send_addr(i) = i  BY <3>2, SectorInFirmware
    <3> QED  BY <1>2, <3>3 DEF ath_spi_sector_erase
  <2>2. pc' = "erase"  BY <1>1, <2>1 DEF Erasing
  <2>3. /\ i \in FwFirst..(FwEnd - 1)
        /\ s_last = FwFirst + FwSectors - 1
        /\ \A c \in FwCells : c < i * SectorSize => flash[c] = Erased
    BY <1>1, <2>1, RecoveryAssumption DEF RecoveryInv, EraseInv, FwEnd
  <2>4. /\ SectorCells(i) \subseteq FwCells
        /\ i * SectorSize \in Nat
        /\ (i + 1) * SectorSize = i * SectorSize + SectorSize
    BY <2>3, SectorInFirmware
  <2>5. TypeOK'
    BY <1>1, <2>1, <2>2 DEF RecoveryInv, TypeOK, ChipTypeOK
  <2>6. OnlyFirmwareChanges'
    BY <2>1, <2>4 DEF RecoveryInv, OnlyFirmwareChanges
  <2>7. FlashedFromWholeFile' /\ ControlInv'
    BY <1>1, <2>1, <2>2
       DEF RecoveryInv, FlashedFromWholeFile, ControlInv, KnownSize, WholeInRam
  <2>8. EraseInv'
    <3>1. \A c \in FwCells : c \in Cells /\ c \in Nat
      BY Sizes DEF FwCells, Cells
    <3>2. ASSUME NEW c \in FwCells, c < (i + 1) * SectorSize
          PROVE  flash'[c] = Erased
      <4>1. CASE c \in SectorCells(i)
        BY <4>1, <3>1, <2>1
      <4>2. CASE c \notin SectorCells(i)
        <5>1. c < i * SectorSize
          BY <4>2, <3>1, <3>2, <2>4, Sizes DEF SectorCells
        <5> QED  BY <5>1, <4>2, <3>1, <2>1, <2>3
      <4> QED  BY <4>1, <4>2
    <3>3. i' \in FwFirst..(FwFirst + FwSectors)
      BY <2>1, <2>3, RecoveryAssumption DEF FwEnd
    <3>4. s_last' = FwFirst + FwSectors - 1  BY <2>1, <2>3
    <3> QED  BY <3>2, <3>3, <3>4, <2>1, <2>2 DEF EraseInv
  <2> QED  BY <1>1, <2>1, <2>2, <2>5, <2>6, <2>7, <2>8
              DEF RecoveryInv, RecoveredIsFile, WriteInv
<1>3. CASE flash_erase_return
  <2>1. i > s_last /\ DriverReturn /\ flash' = flash
    BY <1>3 DEF flash_erase_return
  <2>2. pc' = "cp"  BY <2>1 DEF Erasing, DriverReturn
  <2>3. TypeOK'
    BY <1>1, <2>1, <2>2 DEF RecoveryInv, TypeOK, ChipTypeOK, DriverReturn
  <2>4. OnlyFirmwareChanges'  BY <2>1 DEF RecoveryInv, OnlyFirmwareChanges
  <2>5. FlashedFromWholeFile' /\ ControlInv'
    BY <1>1, <2>1, <2>2
       DEF RecoveryInv, FlashedFromWholeFile, ControlInv, KnownSize, WholeInRam,
           DriverReturn
  <2>6. EraseInv'
    <3>1. i = FwEnd
      BY <1>1, <2>1, RecoveryAssumption DEF RecoveryInv, EraseInv, FwEnd
    <3>2. \A c \in FwCells : c < i * SectorSize
      BY <3>1, Sizes DEF FwCells
    <3>3. \A c \in FwCells : flash[c] = Erased
      BY <3>2, <1>1 DEF RecoveryInv, EraseInv
    <3> QED  BY <3>3, <2>1 DEF EraseInv, DriverReturn
  <2> QED  BY <2>1, <2>2, <2>3, <2>4, <2>5, <2>6
              DEF RecoveryInv, RecoveredIsFile, WriteInv, DriverReturn
<1> QED  BY <1>2, <1>3 DEF Erasing

LEMMA RunCopyStep == ASSUME RecoveryInv, RunCopy PROVE RecoveryInv'
<1>1. write_buff(CopyFrom, start(FwFirst), FwSize) /\ pc' = "write"
  BY CopyStarts DEF RunCopy
<1>2. pc = "cp" /\ UNCHANGED <<ram, filesize, failures>>
  BY DEF RunCopy
<1>3. /\ op' = "write" /\ source' = CopyFrom /\ addr' = BootSize
      /\ len' = FwSize /\ total' = 0 /\ UNCHANGED <<flash, i, s_last>>
  BY <1>1, Addresses, Sizes, GeometryAssumption DEF write_buff
<1>4. TypeOK'
  BY <1>1, <1>2, <1>3, Sizes, RecoveryAssumption
     DEF RecoveryInv, TypeOK, ChipTypeOK, CopyFrom
<1>5. OnlyFirmwareChanges'
  BY <1>3 DEF RecoveryInv, OnlyFirmwareChanges
<1>6. FlashedFromWholeFile' /\ ControlInv'
  BY <1>1, <1>2, <1>3
     DEF RecoveryInv, FlashedFromWholeFile, ControlInv, KnownSize, WholeInRam
<1>7. WriteInv'
  <2>1. \A c \in FwCells : flash'[c] = Erased /\ ~(c < BootSize + 0)
    BY <1>2, <1>3, Sizes DEF RecoveryInv, EraseInv, FwCells
  <2>2. 0 \in 0..(FwSectors * PagesPerSector) /\ 0 = 0 * PageSize
    BY RecoveryAssumption, GeometryAssumption, SMT
  <2>3. \E q \in 0..(FwSectors * PagesPerSector) : total' = q * PageSize
    BY <2>2, <1>3
  <2>4. CopyFrom' = CopyFrom  BY <1>2 DEF CopyFrom
  <2> QED  BY <2>1, <2>3, <2>4, <1>3 DEF WriteInv
<1> QED  BY <1>1, <1>3, <1>4, <1>5, <1>6, <1>7
            DEF RecoveryInv, RecoveredIsFile, EraseInv

LEMMA WritingStep == ASSUME RecoveryInv, Writing PROVE RecoveryInv'
<1>1. op = "write" /\ pc = "write" /\ UNCHANGED <<ram, filesize, failures>>
  BY DEF Writing, write_buff_page, write_buff_return
<1>2. /\ addr = BootSize /\ len = FwSize /\ source = CopyFrom
      /\ \A c \in FwCells : flash[c] = IF c < BootSize + total
                                      THEN ram[CopyFrom + c - BootSize] ELSE Erased
  BY <1>1 DEF RecoveryInv, WriteInv
<1>3. CopyFrom' = CopyFrom /\ CopyFrom \in Nat
  BY <1>1, Sizes, RecoveryAssumption DEF CopyFrom
<1>4. \A c \in FwCells : c \in Cells /\ c \in Nat
  BY Sizes DEF FwCells, Cells
<1>5. CASE write_buff_page
  <2> DEFINE dst == BootSize + total
  <2>1. /\ total < len
        /\ ath_spi_write_page(addr + total, source + total, len_this_lp)
        /\ total' = total + len_this_lp
        /\ UNCHANGED <<op, i, s_last, source, addr, len>>
    BY <1>5 DEF write_buff_page
  <2>2. pc' = "write"  BY <1>1, <2>1 DEF Writing
  <2>3. /\ len_this_lp = PageSize /\ total \in Nat
        /\ PageCells(dst) = dst..(dst + PageSize - 1)
        /\ PageCells(dst) \subseteq FwCells
        /\ \A c \in PageCells(dst) : Nth(c, dst) = c - dst
        /\ \E q \in 0..(FwSectors * PagesPerSector) : total + PageSize = q * PageSize
    BY <1>1, <1>2, <2>1, PageInFirmware DEF RecoveryInv
  <2>4. flash' = [c \in Cells |-> IF c \in PageCells(dst) /\ Nth(c, dst) < PageSize
                                 THEN Program(flash[c], ram[CopyFrom + total + Nth(c, dst)])
                                 ELSE flash[c]]
    BY <2>1, <2>3, <1>2 DEF ath_spi_write_page
  <2>5. total' = total + PageSize  BY <2>1, <2>3
  <2>6. \A c \in Cells \ FwCells : flash'[c] = flash[c]
    BY <2>3, <2>4
  <2>7. ASSUME NEW c \in FwCells
        PROVE  flash'[c] = IF c < BootSize + total + PageSize
                           THEN ram[CopyFrom + c - BootSize] ELSE Erased
    <3>1. c \in Int /\ c \in Cells /\ BootSize \in Nat /\ PageSize \in Nat
      BY <1>4, Sizes, GeometryAssumption
    <3>2. CASE c \in PageCells(dst)
      <4>1. dst <= c /\ c < dst + PageSize  BY <3>1, <3>2, <2>3
      <4>2. flash[c] = Erased  BY <4>1, <3>1, <2>3, <1>2
      <4>3. Nth(c, dst) = c - dst /\ Nth(c, dst) < PageSize
        BY <4>1, <3>1, <3>2, <2>3
      <4>4. CopyFrom + total + Nth(c, dst) = CopyFrom + c - BootSize
        BY <4>3, <3>1, <2>3, <1>3
      <4>5. flash'[c] = Program(Erased, ram[CopyFrom + c - BootSize])
        BY <4>2, <4>3, <4>4, <3>1, <3>2, <2>4
      <4>6. flash'[c] = ram[CopyFrom + c - BootSize]
        BY <4>5 DEF Program
      <4> QED  BY <4>1, <4>6
    <3>3. CASE c \notin PageCells(dst)
      <4>1. flash'[c] = flash[c]  BY <3>1, <3>3, <2>4
      <4>2. c < dst <=> c < BootSize + total + PageSize
        BY <3>1, <3>3, <2>3
      <4> QED  BY <4>1, <4>2, <1>2
    <3> QED  BY <3>2, <3>3
  <2>8. TypeOK'
    <3>1. total' \in Nat  BY <2>3, <2>5, GeometryAssumption
    <3>2. DOMAIN flash' = Cells  BY <2>4
    <3> QED  BY <3>1, <3>2, <1>1, <2>1, <2>2 DEF RecoveryInv, TypeOK, ChipTypeOK
  <2>9. OnlyFirmwareChanges'
    BY <2>6 DEF RecoveryInv, OnlyFirmwareChanges
  <2>10. FlashedFromWholeFile' /\ ControlInv'
    BY <1>1, <2>1, <2>2
       DEF RecoveryInv, FlashedFromWholeFile, ControlInv, KnownSize, WholeInRam
  <2>11. WriteInv'
    <3>1. /\ addr' = BootSize /\ len' = FwSize /\ source' = CopyFrom'
          /\ \E q \in 0..(FwSectors * PagesPerSector) : total' = q * PageSize
      BY <1>2, <1>3, <2>1, <2>3, <2>5
    <3>2. BootSize + total' = BootSize + total + PageSize
      BY <2>3, <2>5, Sizes, GeometryAssumption
    <3>3. \A c \in FwCells : flash'[c] = IF c < BootSize + total'
                                        THEN ram'[CopyFrom' + c - BootSize] ELSE Erased
      BY <3>2, <2>7, <1>1, <1>3
    <3> QED  BY <3>1, <3>3 DEF WriteInv
  <2> QED  BY <1>1, <2>1, <2>2, <2>8, <2>9, <2>10, <2>11
              DEF RecoveryInv, RecoveredIsFile, EraseInv
<1>6. CASE write_buff_return
  <2>1. total >= len /\ DriverReturn /\ flash' = flash
    BY <1>6 DEF write_buff_return
  <2>2. pc' = "reset"  BY <2>1 DEF Writing, DriverReturn
  <2>3. TypeOK'
    BY <1>1, <2>1, <2>2 DEF RecoveryInv, TypeOK, ChipTypeOK, DriverReturn
  <2>4. OnlyFirmwareChanges'  BY <2>1 DEF RecoveryInv, OnlyFirmwareChanges
  <2>5. FlashedFromWholeFile' /\ ControlInv'
    BY <1>1, <2>1, <2>2
       DEF RecoveryInv, FlashedFromWholeFile, ControlInv, KnownSize, WholeInRam,
           DriverReturn
  <2>6. RecoveredIsFile'
    <3>1. total \in Nat  BY DEF RecoveryInv, TypeOK, ChipTypeOK
    <3>2. \A c \in FwCells : c < BootSize + total
      BY <3>1, <2>1, <1>2, Sizes DEF FwCells
    <3>3. PICK f \in OurProduct : KnownSize /\ WholeInRam(f)
      BY <1>1 DEF RecoveryInv, FlashedFromWholeFile
    <3>4. CopyFrom = Size[f] - FwSize /\ Size[f] \in Nat
      BY <3>3, Sizes, RecoveryAssumption
         DEF CopyFrom, KnownSize, WholeInRam, FullSize
    <3>5. ASSUME NEW c \in FwCells
          PROVE  flash'[c] = FirmwareOf(f, c)
      <4>1. flash'[c] = ram[CopyFrom + c - BootSize]
        BY <3>2, <2>1, <1>2
      <4>2. CopyFrom + c - BootSize \in 0..(Size[f] - 1)
        BY <3>4, <1>3, Sizes DEF FwCells
      <4>3. ram[CopyFrom + c - BootSize] = <<f, CopyFrom + c - BootSize>>
        BY <4>2, <3>3 DEF WholeInRam
      <4> QED  BY <4>1, <4>3, <3>4 DEF FirmwareOf
    <3> QED  BY <3>3, <3>5, <1>1 DEF RecoveredIsFile, WholeInRam
  <2> QED  BY <2>1, <2>2, <2>3, <2>4, <2>5, <2>6
              DEF RecoveryInv, EraseInv, WriteInv, DriverReturn
<1> QED  BY <1>5, <1>6 DEF Writing

(* The power fails: only what the chip was working on is damaged. *)
LEMMA PowerUpStep ==
  ASSUME RecoveryInv, PowerUp, failures' \in 0..MaxFailures
  PROVE  RecoveryInv'
<1>1. /\ flash' = [c \in Cells |-> IF c \in BusyCells THEN Torn ELSE flash[c]]
      /\ DriverReturn
      /\ pc' = "start" /\ filesize' = 0 /\ ram' = Garbage
  BY DEF PowerUp, ChipPowerLoss
<1>2. TypeOK'
  BY <1>1, GeometryAssumption DEF TypeOK, ChipTypeOK, DriverReturn, Garbage
<1>3. OnlyFirmwareChanges'
  <2>1. \A c \in Cells \ FwCells : flash'[c] = flash[c]
    BY <1>1, BusyInFirmware
  <2> QED  BY <2>1 DEF RecoveryInv, OnlyFirmwareChanges
<1> QED  BY <1>1, <1>2, <1>3 DEF RecoveryInv, FlashedFromWholeFile,
            RecoveredIsFile, ControlInv, EraseInv, WriteInv, DriverReturn

LEMMA StutterStep == ASSUME RecoveryInv, UNCHANGED vars PROVE RecoveryInv'
  BY DEF vars, chipVars, RecoveryInv, TypeOK, ChipTypeOK, OnlyFirmwareChanges,
         FlashedFromWholeFile, RecoveredIsFile, ControlInv, EraseInv, WriteInv,
         WholeInRam, KnownSize, CopyFrom

LEMMA NextStep == ASSUME RecoveryInv, Next PROVE RecoveryInv'
<1>1. CASE Recover
  BY <1>1, QuietStep DEF Recover, Undecided, RecoveryInv, ControlInv
<1>2. CASE NoRecovery
  BY <1>2, QuietStep DEF NoRecovery, Undecided
<1>3. CASE Tftp
  BY <1>3, TftpCompleteStep, TftpFailedStep DEF Tftp
<1>4. CASE MainLoop
  <2>1. CASE ProductMismatch
    BY <2>1, QuietStep DEF ProductMismatch, Undecided
  <2>2. CASE UnknownSize
    BY <2>2, ResetStep DEF UnknownSize, Undecided
  <2>3. CASE ResetAfterRecovery
    BY <2>3, ResetStep DEF ResetAfterRecovery
  <2>4. CASE Autoboot
    BY <2>4, QuietStep DEF Autoboot, Undecided
  <2>5. CASE do_bootm
    <3>1. pc \in Undecided /\ UNCHANGED <<chipVars, failures>>
      BY <2>5 DEF do_bootm, Undecided
    <3>2. CASE do_reset
      BY <3>1, <3>2, ResetStep
    <3>3. CASE pc' \in {"linux", "crash"} /\ UNCHANGED <<ram, filesize>>
      BY <3>1, <3>3, QuietStep DEF Undecided
    <3> QED  BY <2>5, <3>2, <3>3 DEF do_bootm
  <2> QED  BY <1>4, <2>1, <2>2, <2>3, <2>4, <2>5, RunEraseStep, ErasingStep,
              RunCopyStep, WritingStep DEF MainLoop
<1>5. CASE PowerFailure
  <2>1. failures' \in 0..MaxFailures
    BY <1>5, RecoveryAssumption DEF PowerFailure, RecoveryInv, TypeOK
  <2> QED  BY <2>1, <1>5, PowerUpStep DEF PowerFailure
<1>6. CASE PowerCycle
  <2>1. failures' \in 0..MaxFailures
    BY <1>6 DEF PowerCycle, RecoveryInv, TypeOK
  <2> QED  BY <2>1, <1>6, PowerUpStep DEF PowerCycle
<1> QED  BY <1>1, <1>2, <1>3, <1>4, <1>5, <1>6 DEF Next

(* RecoveryInv is inductive: main_loop and the driver agree on which loop  *)
(* runs, the erase loop covers the sectors of the firmware, the write loop *)
(* is at a page boundary behind the part already written.                  *)
THEOREM RecoveryInvariance == Spec => []RecoveryInv
<1>1. RecoveryInv /\ [Next]_vars => RecoveryInv'
  BY NextStep, StutterStep
<1> QED  BY InitInv, <1>1, PTL DEF Spec

(* Recovery (main_loop) never changes a cell outside the firmware, in no   *)
(* order of downloads, commands, resets and power failures.                *)
THEOREM OthersUntouched == Spec => []OnlyFirmwareChanges
<1>1. RecoveryInv => OnlyFirmwareChanges  BY DEF RecoveryInv
<1> QED  BY RecoveryInvariance, <1>1, PTL

(* main_loop erases and writes only with a file for this board, of one of  *)
(* the two sizes, whole in RAM.                                            *)
THEOREM FlashingIsJustified == Spec => []FlashedFromWholeFile
<1>1. RecoveryInv => FlashedFromWholeFile  BY DEF RecoveryInv
<1> QED  BY RecoveryInvariance, <1>1, PTL

(* After `erase; cp.b' the firmware in flash is that of the file, whatever *)
(* was in flash before.                                                    *)
THEOREM FlashingIsExact == Spec => []RecoveredIsFile
<1>1. RecoveryInv => RecoveredIsFile  BY DEF RecoveryInv
<1> QED  BY RecoveryInvariance, <1>1, PTL

(* write_buff's caller has erased what is still to be written. *)
THEOREM ErasedBeforeWritten == Spec => []WrittenToErased
<1>1. RecoveryInv => WrittenToErased
  <2> SUFFICES ASSUME RecoveryInv, op = "write",
                      NEW c \in (addr + total)..(addr + len - 1)
               PROVE  flash[c] = Erased
    BY DEF WrittenToErased
  <2>1. /\ addr = BootSize /\ len = FwSize /\ total \in Nat
        /\ \A d \in FwCells : flash[d] = IF d < BootSize + total
                                        THEN ram[CopyFrom + d - BootSize] ELSE Erased
    BY DEF RecoveryInv, WriteInv, TypeOK, ChipTypeOK
  <2>2. c \in FwCells /\ ~(c < BootSize + total)
    BY <2>1, Sizes DEF FwCells
  <2> QED  BY <2>1, <2>2
<1> QED  BY RecoveryInvariance, <1>1, PTL
=============================================================================
