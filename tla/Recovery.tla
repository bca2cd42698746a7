------------------------------ MODULE Recovery ------------------------------
(***************************************************************************)
(* Firmware recovery and automatic boot (main_loop in common/main.c), from *)
(* the reset vector to the jump into the kernel, with the power failing at *)
(* any moment.                                                             *)
(*                                                                         *)
(* The flash holds the boot loader with the product id, the firmware from  *)
(* sector FwFirst on, and the configuration and radio calibration after    *)
(* it.  The TFTP download is taken at the level of FileTransfer: it ends   *)
(* with the whole file in RAM, or is given up with the blocks before some  *)
(* block stored, or runs out of retries and boots what is in flash.        *)
(***************************************************************************)
EXTENDS FlashCmd

CONSTANTS
  FwFirst,       \* first sector of the firmware, at 0x9f020000
  FwSectors,     \* sectors of the firmware, 0x3c0000 bytes
  HeaderSize,    \* 0x200 bytes before the boot loader in a full image
  KernelSize,    \* cells of the firmware that do_bootm inflates
  Files,         \* the files a server may have
  Size,          \* their sizes
  OurProduct,    \* the files with the product id and version of this board
  MaxFailures    \* bound on power failures while the boot loader runs

FwSize == FwSectors * SectorSize
BootSize == FwFirst * SectorSize
FullSize == HeaderSize + BootSize + FwSize

ASSUME RecoveryAssumption ==
  /\ FwFirst \in Nat \ {0} /\ FwSectors \in Nat \ {0}
  /\ FwFirst + FwSectors <= SectorCount
  /\ FwSize > 1
  /\ HeaderSize \in Nat \ {0}
  /\ KernelSize \in 1..FwSize
  /\ Size \in [Files -> 1..RamSize]
  /\ OurProduct \subseteq Files
  /\ FullSize <= RamSize
  /\ MaxFailures \in Nat

VARIABLES
  pc,          \* where main_loop is
  filesize,    \* the environment variable filesize, 0 when unset
  failures     \* power failures so far

vars == <<chipVars, ram, pc, filesize, failures>>

FwCells == BootSize..(BootSize + FwSize - 1)
IdCell == BootSize - 1   \* ORG_PRODUCT_ID_POS and ORG_PRODUCT_VER_POS
Board(c) == <<"board", c>>
Garbage == [k \in 0..(RamSize - 1) |-> <<"garbage", 0>>]

Init == /\ DriverIdle
        /\ flash = [c \in Cells |-> Board(c)]
        /\ ram = Garbage
        /\ pc = "start"
        /\ filesize = 0
        /\ failures = 0
-----------------------------------------------------------------------------
(* ath_is_rst_btn_pressed: two readings of a low-active input that agree.  *)
(* (The code compares whole registers: another input that moves between    *)
(* the readings counts as a button that is not pressed, as NoRecovery may.)*)
ath_is_rst_btn_pressed(old_val, val) == old_val = val /\ val = 0

Recover == /\ pc = "start"
           /\ \E old_val, val \in 0..1 : ath_is_rst_btn_pressed(old_val, val)
           /\ pc' = "tftp"
           /\ UNCHANGED <<chipVars, ram, filesize, failures>>

NoRecovery == /\ pc = "start"
              /\ \E old_val, val \in 0..1 : ~ath_is_rst_btn_pressed(old_val, val)
              /\ pc' = "autoboot"
              /\ UNCHANGED <<chipVars, ram, filesize, failures>>

(* The first n cells of file f are in RAM. *)
Loaded(f, n) == [k \in 0..(RamSize - 1) |-> IF k < n THEN <<f, k>> ELSE ram[k]]

(* run_command(upload_cmd): the result is not looked at. *)
TftpComplete(f) == /\ pc = "tftp"
                   /\ ram' = Loaded(f, Size[f])
                   /\ filesize' = Size[f]
                   /\ pc' = "verify"
                   /\ UNCHANGED <<chipVars, failures>>

(* Ctrl-C, or no Ethernet device could be started. *)
TftpGivenUp(f, n) == /\ pc = "tftp"
                     /\ ram' = Loaded(f, n)
                     /\ pc' = "verify"
                     /\ UNCHANGED <<chipVars, filesize, failures>>

(* TftpTimeout runs out of retries and calls do_bootm. *)
TftpRetriesExceeded(f, n) == /\ pc = "tftp"
                             /\ ram' = Loaded(f, n)
                             /\ pc' = "bootm"
                             /\ UNCHANGED <<chipVars, filesize, failures>>
-----------------------------------------------------------------------------
(* Mutant: the id is not compared. *)
ProductMatchesAny == TRUE

(* The product id and version in flash and in the downloaded file agree.   *)
ProductMatches == /\ flash[IdCell] = Board(IdCell)
                  /\ \E f \in OurProduct : ram[0] = <<f, 0>>

ProductMismatch == /\ pc = "verify"
                   /\ ~ProductMatches
                   /\ pc' = "autoboot"
                   /\ UNCHANGED <<chipVars, ram, filesize, failures>>

(* filesize is that of a firmware or of a full image. *)
KnownSize == filesize \in {FwSize, FullSize}

(* Mutant: the environment survives the reset. *)
do_resetKeepsEnv == /\ pc' = "start"
                    /\ UNCHANGED filesize
                    /\ ram' \in {ram, Garbage}

(* do_reset: the environment is built anew from the defaults, RAM may hold *)
(* what it held.                                                           *)
do_reset == /\ pc' = "start"
            /\ filesize' = 0
            /\ ram' \in {ram, Garbage}

UnknownSize == /\ pc = "verify"
               /\ ProductMatches
               /\ ~KnownSize
               /\ do_reset
               /\ UNCHANGED <<chipVars, failures>>

(* The arguments of the two commands of main_loop. *)
EraseArg == [form |-> "range", plus |-> TRUE, first |-> start(FwFirst),
             second |-> FwSize]

(* Mutant: the header of a full image is not skipped. *)
CopyFromHeader == IF filesize = FwSize THEN 0 ELSE BootSize

CopyFrom == IF filesize = FwSize THEN 0 ELSE HeaderSize + BootSize

(* run_command("erase ...; cp.b ..."): cp runs whatever erase returned.    *)
RunErase == /\ pc = "verify"
            /\ ProductMatches
            /\ KnownSize
            /\ \/ EraseCommand(EraseArg) /\ pc' = "erase"
               \/ EraseRejected(EraseArg) /\ pc' = "cp"
            /\ UNCHANGED <<ram, filesize, failures>>

Erasing == /\ pc = "erase"
           /\ ath_spi_sector_erase \/ flash_erase_return
           /\ pc' = IF op' = "idle" THEN "cp" ELSE "erase"
           /\ UNCHANGED <<ram, filesize, failures>>

RunCopy == /\ pc = "cp"
           /\ \/ CopyCommand(CopyFrom, start(FwFirst), FwSize) /\ pc' = "write"
              \/ CopyRejected(CopyFrom, start(FwFirst), FwSize) /\ pc' = "reset"
           /\ UNCHANGED <<ram, filesize, failures>>

Writing == /\ pc = "write"
           /\ write_buff_page \/ write_buff_return
           /\ pc' = IF op' = "idle" THEN "reset" ELSE "write"
           /\ UNCHANGED <<ram, filesize, failures>>

ResetAfterRecovery == pc = "reset" /\ do_reset /\ UNCHANGED <<chipVars, failures>>
-----------------------------------------------------------------------------
(* abortboot: a key stops the automatic boot, otherwise bootcmd is run. *)
Autoboot == /\ pc = "autoboot"
            /\ pc' \in {"bootm", "console"}
            /\ UNCHANGED <<chipVars, ram, filesize, failures>>

(* The firmware is the last part of a file, whatever precedes it there. *)
FirmwareOf(f, c) == <<f, Size[f] - FwSize + c - BootSize>>

(* Cells of the flash hold their part of one and the same firmware. *)
ImageIn(cells) == \/ \A c \in cells : flash[c] = Board(c)
                  \/ \E f \in Files : \A c \in cells : flash[c] = FirmwareOf(f, c)

KernelCells == BootSize..(BootSize + KernelSize - 1)

(* do_bootm checks no checksum: a damaged kernel either fails to inflate,  *)
(* which resets the board, or is jumped into.                              *)
do_bootm == /\ pc = "bootm"
            /\ \/ /\ pc' = IF ImageIn(KernelCells) THEN "linux" ELSE "crash"
                  /\ UNCHANGED <<ram, filesize>>
               \/ ~ImageIn(KernelCells) /\ do_reset
            /\ UNCHANGED <<chipVars, failures>>
-----------------------------------------------------------------------------
(* The power goes off and on again; RAM is lost. *)
PowerUp == /\ ChipPowerLoss
           /\ pc' = "start"
           /\ filesize' = 0
           /\ ram' = Garbage

AtRest == pc \in {"linux", "crash", "console"}

(* The power fails while the boot loader is at work. *)
PowerFailure == /\ ~AtRest
                /\ failures < MaxFailures
                /\ failures' = failures + 1
                /\ PowerUp

(* The operator switches the board off and on. *)
PowerCycle == AtRest /\ PowerUp /\ UNCHANGED failures

MainLoop == \/ ProductMismatch \/ UnknownSize \/ RunErase \/ Erasing
            \/ RunCopy \/ Writing \/ ResetAfterRecovery \/ Autoboot \/ do_bootm

Tftp == \E f \in Files :
          \/ TftpComplete(f)
          \/ \E n \in 0..(Size[f] - 1) : TftpGivenUp(f, n) \/ TftpRetriesExceeded(f, n)

Next == Recover \/ NoRecovery \/ Tftp \/ MainLoop \/ PowerFailure \/ PowerCycle

Spec == Init /\ [][Next]_vars

(* The board runs, and the operator does not give up: a board that runs    *)
(* something or waits at the console is switched off and on, the button is *)
(* held at some of the starts, and some of those downloads of a file f     *)
(* that fits the board complete.                                           *)
FairSpec ==
  /\ Spec
  /\ WF_vars(MainLoop)
  /\ WF_vars(PowerCycle)
  /\ WF_vars(Recover \/ NoRecovery) /\ SF_vars(Recover)
  /\ WF_vars(Tftp)
  /\ SF_vars(\E f \in OurProduct : Size[f] \in {FwSize, FullSize} /\ TftpComplete(f))
-----------------------------------------------------------------------------
TypeOK ==
  /\ ChipTypeOK
  /\ DOMAIN flash = Cells
  /\ DOMAIN ram = 0..(RamSize - 1)
  /\ pc \in {"start", "tftp", "verify", "erase", "cp", "write", "reset",
             "autoboot", "bootm", "linux", "crash", "console"}
  /\ filesize \in 0..RamSize
  /\ failures \in 0..MaxFailures

(* Recovery never touches the boot loader, the product id it checks next   *)
(* time, the configuration or the radio calibration, not even for a moment *)
(* and wherever the power fails: a failed recovery can be repeated.        *)
OnlyFirmwareChanges == \A c \in Cells \ FwCells : flash[c] = Board(c)

(* The firmware in flash is given up only for a file that is complete in   *)
(* RAM, fits the board and has one of the two sizes: a download that was   *)
(* given up, or left-overs of an earlier one, never get that far.          *)
WholeInRam(f) == filesize = Size[f] /\ \A k \in 0..(Size[f] - 1) : ram[k] = <<f, k>>

FlashedFromWholeFile ==
  pc \in {"erase", "cp", "write", "reset"} =>
    KnownSize /\ \E f \in OurProduct : WholeInRam(f)

(* Before the reset that ends a recovery the flash holds the firmware part *)
(* of the file that was downloaded, every cell of it.                      *)
RecoveredIsFile ==
  pc = "reset" => \E f \in OurProduct : /\ filesize = Size[f]
                                        /\ \A c \in FwCells : flash[c] = FirmwareOf(f, c)

(* "Caller has already erased the appropriate sectors" (ath_flash.c): what *)
(* is still to be written is erased.                                       *)
WrittenToErased ==
  op = "write" => \A c \in (addr + total)..(addr + len - 1) : flash[c] = Erased

(* A board with a damaged firmware is repaired as long as the operator     *)
(* keeps trying: no sequence of power failures, aborted downloads, wrong   *)
(* files and crashes leads to a state recovery does not lead out of.       *)
Repaired == ~ImageIn(FwCells) ~> ImageIn(FwCells)
-----------------------------------------------------------------------------
(* The inductive invariant.  The driver is in the loop main_loop waits     *)
(* for, and filesize is set only while the file it is the size of is in    *)
(* RAM.                                                                    *)
ControlInv ==
  /\ op = "erase" <=> pc = "erase"
  /\ op = "write" <=> pc = "write"
  /\ pc \in {"start", "tftp"} => filesize = 0
  /\ filesize # 0 => \E f \in Files : WholeInRam(f)

(* The erase loop covers the sectors of the firmware and no other. *)
EraseInv ==
  /\ op = "erase" =>
       /\ i \in FwFirst..(FwFirst + FwSectors)
       /\ s_last = FwFirst + FwSectors - 1
       /\ \A c \in FwCells : c < i * SectorSize => flash[c] = Erased
  /\ pc = "cp" => \A c \in FwCells : flash[c] = Erased

(* The write loop is at a page boundary, with the file before it and       *)
(* erased cells after it.                                                  *)
WriteInv ==
  op = "write" =>
    /\ addr = BootSize /\ len = FwSize /\ source = CopyFrom
    /\ \E q \in 0..(FwSectors * PagesPerSector) : total = q * PageSize
    /\ \A c \in FwCells : flash[c] = IF c < BootSize + total
                                    THEN ram[CopyFrom + c - BootSize] ELSE Erased

RecoveryInv == /\ TypeOK /\ OnlyFirmwareChanges /\ FlashedFromWholeFile
               /\ RecoveredIsFile /\ ControlInv /\ EraseInv /\ WriteInv
=============================================================================
