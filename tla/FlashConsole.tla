---------------------------- MODULE FlashConsole ----------------------------
(***************************************************************************)
(* Somebody types erase and cp commands at the console, in any order and   *)
(* with any arguments.  The history variables cmd and before keep the last *)
(* command and the flash as it found it.                                   *)
(***************************************************************************)
EXTENDS FlashCmd

CONSTANTS
  Addresses,     \* addresses to type
  Lengths,       \* lengths to type
  Banks,         \* banks to type in front of sectors
  CopyDests,     \* destinations of cp to type
  MaxCommands    \* bound on the number of commands

(* Numbers are typed as addresses are, RAM and flash share the addresses,  *)
(* and a sector has more than one cell.                                    *)
ASSUME ConsoleAssumption ==
  /\ Addresses \subseteq 0..(AddrMod - 1)
  /\ Lengths \subseteq 0..(AddrMod - 1)
  /\ Banks \subseteq 0..(AddrMod - 1)
  /\ CopyDests \subseteq 0..(AddrMod - 1)
  /\ RamSize + FlashSize <= AddrMod
  /\ SectorSize > 1
  /\ MaxCommands \in Nat

VARIABLES cmd, before, commands

vars == <<chipVars, ram, cmd, before, commands>>

Numbers == 0..(AddrMod - 1)   \* what simple_strtoul returns

EraseSpecs ==
  [form : {"all"}]
  \union [form : {"bank"}, bank : 0..2]
  \union [form : {"sectors"}, bank : Banks, first : Numbers, last : Numbers]
  \union [form : {"range"}, plus : {FALSE}, first : Addresses,
          second : Addresses]
  \union [form : {"range"}, plus : {TRUE}, first : Addresses,
          second : Lengths]

CopySpecs == [form : {"copy"}, src : 0..(RamSize - 1), dest : CopyDests,
              count : 0..RamSize]

Init == /\ DriverIdle
        /\ flash = [c \in Cells |-> <<"old", c>>]
        /\ ram = [k \in 0..(RamSize - 1) |-> <<"ram", k>>]
        /\ cmd = [form |-> "none"]
        /\ before = flash
        /\ commands = 0

Type(c) == /\ op = "idle"
           /\ commands < MaxCommands
           /\ commands' = commands + 1
           /\ cmd' = c
           /\ before' = flash
           /\ UNCHANGED ram

Erase(c) == Type(c) /\ (EraseCommand(c) \/ EraseRejected(c))

Copy(c) == /\ c.src + c.count <= RamSize
           /\ Type(c)
           /\ \/ CopyCommand(c.src, c.dest, c.count)
              \/ CopyRejected(c.src, c.dest, c.count)

Driver == DriverStep /\ UNCHANGED <<ram, cmd, before, commands>>

Done == op = "idle" /\ commands = MaxCommands /\ UNCHANGED vars

Next == \/ \E c \in EraseSpecs : Erase(c)
        \/ \E c \in CopySpecs : Copy(c)
        \/ Driver
        \/ Done

Spec == Init /\ [][Next]_vars
-----------------------------------------------------------------------------
(* What the help text of the command promises, as a set of cells: `erase   *)
(* start end' erases from start to end; `erase start +len' to the end of   *)
(* the sector that holds start+len-1.  The range has to begin with a       *)
(* sector and to end with one, or beyond the flash when the end is given.  *)
Between(a, b) == {c \in Cells : a <= CFG_FLASH_BASE + c /\ CFG_FLASH_BASE + c <= b}

SectorsOf(set) == {s \in Sectors : SectorCells(s) \cap set # {}}

Promised(c) ==
  CASE c.form = "none" -> {}
    [] c.form = "all" -> Cells
    [] c.form = "bank" -> IF c.bank = 1 THEN Cells ELSE {}
    [] c.form = "sectors" ->
         IF c.bank = 1 /\ c.last < SectorCount
         THEN UNION {SectorCells(s) : s \in c.first..c.last} ELSE {}
    [] c.form = "range" /\ c.plus ->
         LET e == c.first + c.second - 1
         IN  IF /\ \E s \in Sectors : c.first = start(s)
                /\ c.first <= e /\ e <= b_end
             THEN UNION {SectorCells(s) : s \in SectorsOf(Between(c.first, e))}
             ELSE {}
    [] OTHER ->
         IF /\ \E s \in Sectors : c.first = start(s)
            /\ \E s \in Sectors : c.second = SectorEnd(s) \/ c.second > b_end
            /\ c.first < c.second
         THEN Between(c.first, c.second) ELSE {}

(* The first sector is a number an int can hold.  abbrev_spec takes a      *)
(* greater one for a negative sector and accepts it, against its comment,  *)
(* by which "a number out of range" is an error: `erase 1:4294967295'      *)
(* erases the last sector of the chip.                                     *)
FirstIsInt(c) == c.form = "sectors" => c.first < AddrMod \div 2

(* Erase is exact: when an erase command has returned, the cells its       *)
(* arguments stand for are erased and all others are what they were, and a *)
(* command that was rejected has changed nothing.  The one exception is a  *)
(* first sector of 2^31 or more.                                           *)
EraseExact ==
  op = "idle" /\ cmd.form \notin {"none", "copy"} /\ FirstIsInt(cmd) =>
    \A c \in Cells :
      flash[c] = IF c \in Promised(cmd) THEN Erased ELSE before[c]

(* What cp copies: the cells named by the command, when all are in flash.  *)
CopyCells == IF cmd.count # 0 /\ InFlash(cmd.dest) /\ InFlash(cmd.dest + cmd.count - 1)
             THEN Between(cmd.dest, cmd.dest + cmd.count - 1) ELSE {}

(* "Write a buffer from memory to flash" (ath_flash.c): a copy to erased   *)
(* cells leaves exactly the source in them, and touches no other cell.     *)
CopyExact ==
  op = "idle" /\ cmd.form = "copy" =>
    \A c \in Cells :
      IF c \in CopyCells
      THEN before[c] = Erased =>
             flash[c] = ram[cmd.src + (CFG_FLASH_BASE + c - cmd.dest)]
      ELSE flash[c] = before[c]

(* While a copy is under way it has changed no cell outside the cells it   *)
(* was asked to write, so a power failure cannot damage the rest.          *)
CopyConfined ==
  op = "write" => \A c \in Cells \ CopyCells : flash[c] = before[c]
-----------------------------------------------------------------------------
(* What these rest on.  The last command is one of the two kinds, and the  *)
(* driver works on that command.                                           *)
CommandInv ==
  /\ ChipTypeOK
  /\ DOMAIN flash = Cells
  /\ cmd = [form |-> "none"] \/ cmd \in EraseSpecs \/ cmd \in CopySpecs
  /\ op = "erase" => cmd \in EraseSpecs
  /\ op = "write" => cmd \in CopySpecs

(* Erasing is done with the sectors before i, and not with the rest.       *)
EraseLoopInv ==
  op = "erase" =>
    /\ i..s_last \subseteq do_flerase(cmd)
    /\ \A s \in do_flerase(cmd) : s <= s_last
    /\ \A c \in Cells :
         flash[c] = IF \E s \in do_flerase(cmd) :
                         s < i /\ c \in SectorCells(ath_spi_send_addr(s))
                    THEN Erased ELSE before[c]

EraseEndInv ==
  op = "idle" /\ cmd \in EraseSpecs =>
    \A c \in Cells :
      flash[c] = IF \E s \in do_flerase(cmd) :
                      c \in SectorCells(ath_spi_send_addr(s))
                 THEN Erased ELSE before[c]

(* The write loop has the arguments of the command, and leaves the page    *)
(* that the copy begins in with its first turn.                            *)
WriteLoopInv ==
  op = "write" =>
    /\ cmd.count # 0
    /\ InFlash(cmd.dest) /\ InFlash(cmd.dest + cmd.count - 1)
    /\ source = cmd.src
    /\ addr = cmd.dest - CFG_FLASH_BASE
    /\ len = cmd.count
    /\ total <= len
    /\ total \in 1..(len - 1) => addr + total >= PageStart(addr) + PageSize

OthersInv ==
  cmd \in CopySpecs => \A c \in Cells \ CopyCells : flash[c] = before[c]

(* A copy to a page boundary goes page by page: what is behind total is    *)
(* untouched, what is before it is the source.                             *)
PageAligned == (cmd.dest - CFG_FLASH_BASE) % PageSize = 0

PageLoopInv ==
  cmd \in CopySpecs /\ PageAligned =>
    /\ op = "write" => total = len \/ total % PageSize = 0
    /\ \A c \in CopyCells :
         LET n == CFG_FLASH_BASE + c - cmd.dest
         IN  before[c] = Erased =>
               flash[c] = IF op = "write" /\ n >= total THEN Erased
                          ELSE ram[cmd.src + n]

ConsoleInv == /\ CommandInv /\ EraseLoopInv /\ EraseEndInv
              /\ WriteLoopInv /\ OthersInv /\ PageLoopInv
=============================================================================
