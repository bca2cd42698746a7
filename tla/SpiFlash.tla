------------------------------ MODULE SpiFlash ------------------------------
(***************************************************************************)
(* The serial NOR flash and its driver (board/atheros/common/ath_flash.c). *)
(*                                                                         *)
(* The chip is an array of cells.  A sector erase sets the cells of one    *)
(* sector; a page program can only clear bits, and its address counter     *)
(* wraps around within one page.  Both take milliseconds, in which the     *)
(* power may fail: erasing and programming are loops of one chip operation *)
(* per step.  A cell holds the byte written to it, represented by the pair *)
(* of the file and the offset the byte comes from.                         *)
(***************************************************************************)
EXTENDS Integers

CONSTANTS
  PageSize,        \* ATH_SPI_PAGE_SIZE
  PagesPerSector,  \* CFG_FLASH_SECTOR_SIZE, in pages
  SectorCount,     \* CFG_MAX_FLASH_SECT
  CFG_FLASH_BASE,  \* where the flash is mapped
  RamSize          \* cells of RAM from load_addr on

ASSUME GeometryAssumption ==
  /\ PageSize \in Nat \ {0}
  /\ PagesPerSector \in Nat \ {0}
  /\ SectorCount \in Nat \ {0}
  /\ CFG_FLASH_BASE \in Nat \ {0}
  /\ RamSize \in Nat \ {0}

SectorSize == PagesPerSector * PageSize
FlashSize == SectorCount * SectorSize
Cells == 0..(FlashSize - 1)
Sectors == 0..(SectorCount - 1)
SectorCells(s) == (s * SectorSize)..(s * SectorSize + SectorSize - 1)

VARIABLES
  flash,    \* the cells of the chip
  ram,      \* the cells of RAM from load_addr on
  op,       \* "idle", or the driver's loop: "erase" or "write"
  i,        \* flash_erase: the sector to erase next
  s_last,   \* flash_erase: the last sector to erase
  source,   \* write_buff: where in RAM the data is
  addr,     \* write_buff: offset of the first cell to write
  len,      \* write_buff: number of cells
  total     \* write_buff: cells written so far

chipVars == <<flash, op, i, s_last, source, addr, len, total>>

Erased == <<"erased", 0>>   \* 0xff
Torn == <<"torn", 0>>       \* neither what was there nor what was written

(* Programming clears bits: a cell that is not erased ends up with the     *)
(* bits that both values have.                                             *)
Program(old, new) == CASE old = Erased -> new
                       [] new \in {old, Erased} -> old
                       [] OTHER -> Torn

(* No call of the driver is active; its local variables are 0. *)
DriverIdle == /\ op = "idle"
              /\ i = 0 /\ s_last = 0
              /\ source = 0 /\ addr = 0 /\ len = 0 /\ total = 0

DriverReturn == /\ op' = "idle"
                /\ i' = 0 /\ s_last' = 0
                /\ source' = 0 /\ addr' = 0 /\ len' = 0 /\ total' = 0
-----------------------------------------------------------------------------
(* Mutant: the loop ends before the last sector. *)
flash_eraseOneShort(first, last) ==
  /\ op = "idle"
  /\ op' = "erase"
  /\ i' = first
  /\ s_last' = last - 1
  /\ UNCHANGED <<flash, source, addr, len, total>>

(* flash_erase(info, first, last). *)
flash_erase(first, last) ==
  /\ op = "idle"
  /\ op' = "erase"
  /\ i' = first
  /\ s_last' = last
  /\ UNCHANGED <<flash, source, addr, len, total>>

(* ath_spi_send_addr sends the low bits of the address of a sector, and    *)
(* the chip decodes as many as it has cells: any number selects a sector.  *)
ath_spi_send_addr(s) == s % SectorCount

(* One turn of its loop; ath_spi_poll waits for the end of the operation.  *)
ath_spi_sector_erase ==
  /\ op = "erase"
  /\ i <= s_last
  /\ flash' = [c \in Cells |-> IF c \in SectorCells(ath_spi_send_addr(i))
                               THEN Erased ELSE flash[c]]
  /\ i' = i + 1
  /\ UNCHANGED <<op, s_last, source, addr, len, total>>

flash_erase_return ==
  /\ op = "erase"
  /\ i > s_last
  /\ DriverReturn
  /\ UNCHANGED flash
-----------------------------------------------------------------------------
(* write_buff(info, s, a, n). *)
write_buff(s, a, n) ==
  /\ op = "idle"
  /\ op' = "write"
  /\ source' = s
  /\ addr' = a - CFG_FLASH_BASE
  /\ len' = n
  /\ total' = 0
  /\ UNCHANGED <<flash, i, s_last>>

(* Mutant: the page is taken to hold one byte more. *)
bytes_this_pageOneMore == PageSize + 1 - (addr % PageSize)

(* What write_buff takes for the room left in the page. *)
bytes_this_page == PageSize - (addr % PageSize)

len_this_lp ==
  IF len - total > bytes_this_page THEN bytes_this_page ELSE len - total

PageStart(dst) == dst - (dst % PageSize)
PageCells(dst) == PageStart(dst)..(PageStart(dst) + PageSize - 1)

(* ath_spi_write_page(dst, s, n): the k-th byte sent goes to the k-th cell *)
(* from dst on, cyclically within the page of dst.                         *)
Nth(c, dst) == (c - dst) % PageSize

ath_spi_write_page(dst, s, n) ==
  flash' = [c \in Cells |-> IF c \in PageCells(dst) /\ Nth(c, dst) < n
                           THEN Program(flash[c], ram[s + Nth(c, dst)])
                           ELSE flash[c]]

(* One turn of the loop of write_buff. *)
write_buff_page ==
  /\ op = "write"
  /\ total < len
  /\ ath_spi_write_page(addr + total, source + total, len_this_lp)
  /\ total' = total + len_this_lp
  /\ UNCHANGED <<op, i, s_last, source, addr, len>>

write_buff_return ==
  /\ op = "write"
  /\ total >= len
  /\ DriverReturn
  /\ UNCHANGED flash
-----------------------------------------------------------------------------
(* The cells the chip is working on. *)
BusyCells == CASE op = "erase" /\ i <= s_last ->
                      SectorCells(ath_spi_send_addr(i))
               [] op = "write" /\ total < len -> PageCells(addr + total)
               [] OTHER -> {}

(* The power fails: what the chip was working on is left in between.       *)
ChipPowerLoss ==
  /\ flash' = [c \in Cells |-> IF c \in BusyCells THEN Torn ELSE flash[c]]
  /\ DriverReturn

DriverStep == ath_spi_sector_erase \/ flash_erase_return
              \/ write_buff_page \/ write_buff_return

ChipTypeOK == /\ op \in {"idle", "erase", "write"}
              /\ i \in Int /\ s_last \in Int
              /\ source \in Nat /\ addr \in Nat /\ len \in Nat /\ total \in Nat
=============================================================================
