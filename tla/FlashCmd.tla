------------------------------ MODULE FlashCmd ------------------------------
(***************************************************************************)
(* The commands that change the flash: erase (common/cmd_flash.c) and cp   *)
(* with a destination in flash (common/cmd_mem.c, common/flash.c), down to *)
(* the driver's loops of SpiFlash.  The board has one bank of equal        *)
(* sectors (board953x/flash.c); addresses are counted modulo AddrMod.      *)
(***************************************************************************)
EXTENDS SpiFlash

CONSTANT AddrMod   \* 2^32

ASSUME AddrAssumption ==
  AddrMod \in Nat /\ CFG_FLASH_BASE + FlashSize < AddrMod

(* flash_get_geom. *)
start(s) == CFG_FLASH_BASE + s * SectorSize
SectorEnd(s) == start(s) + SectorSize - 1
b_end == CFG_FLASH_BASE + FlashSize - 1

(* addr2info: the address belongs to the one bank. *)
InFlash(a) == CFG_FLASH_BASE <= a /\ a <= b_end
-----------------------------------------------------------------------------
(* Mutant: the length itself is added to the start address. *)
LastAddrPlusOne(first, second) == (first + second) % AddrMod

(* The last address of a range given as `start +length'. *)
LastAddr(first, second) == (first + second - 1) % AddrMod

(* addr_spec: the addresses of a range given as `start end' or, with plus, *)
(* as `start +length', whose end is moved to the end of its sector.        *)
addr_spec(first, plus, second) ==
  LET e == LastAddr(first, second)
  IN  IF ~plus THEN [ok |-> TRUE, first |-> first, last |-> second]
      ELSE IF ~InFlash(e) THEN [ok |-> FALSE, first |-> first, last |-> e]
      ELSE [ok |-> TRUE, first |-> first,
            last |-> SectorEnd(CHOOSE s \in Sectors :
                                  start(s) <= e /\ e <= SectorEnd(s))]

(* Mutant: a start address inside a sector selects that sector. *)
s_firstContaining(first, last) ==
  {s \in Sectors : start(s) <= first /\ first <= SectorEnd(s) /\ last >= start(s)}

(* The sectors flash_fill_sect_ranges may set s_first and s_last to. *)
s_first(first, last) == {s \in Sectors : first = start(s) /\ last >= start(s)}
s_end(first, last) ==
  {s \in Sectors : last = SectorEnd(s) /\ first <= SectorEnd(s)}

(* flash_fill_sect_ranges: the sectors to work on, none when it fails or   *)
(* plans nothing.                                                          *)
flash_fill_sect_ranges(first, last) ==
  LET ends == IF s_end(first, last) # {} THEN s_end(first, last)
              ELSE IF last > b_end THEN {SectorCount - 1} ELSE {}
  IN  IF first > last THEN {}
      ELSE {s \in Sectors : \E f \in s_first(first, last), e \in ends :
                               f <= s /\ s <= e}

(* A number as simple_strtoul returns it, assigned to an int. *)
ToInt(n) == IF n < AddrMod \div 2 THEN n ELSE n - AddrMod

(* abbrev_spec: the sectors of `bank:first-last', none when it is          *)
(* rejected.  The comparisons are those of ints: a first sector of 2^31 or *)
(* more is negative, and accepted.                                         *)
abbrev_spec(spec) ==
  LET first == ToInt(spec.first)
      last == ToInt(spec.last)
  IN  IF /\ ToInt(spec.bank) = 1
         /\ first < SectorCount
         /\ first <= last
         /\ last < SectorCount
      THEN first..last ELSE {}

(* The sectors an erase command erases, none when it is rejected.  A spec  *)
(* is "all", a bank, a range of sectors of a bank, or a range of addresses.*)
do_flerase(spec) ==
  CASE spec.form = "all" -> Sectors
    [] spec.form = "bank" -> IF spec.bank = 1 THEN Sectors ELSE {}
    [] spec.form = "sectors" -> abbrev_spec(spec)
    [] OTHER ->
         LET r == addr_spec(spec.first, spec.plus, spec.second)
         IN  IF ~r.ok \/ r.first >= r.last THEN {}
             ELSE flash_fill_sect_ranges(r.first, r.last)

EraseCommand(spec) ==
  \E first, last \in do_flerase(spec) :
    /\ \A s \in do_flerase(spec) : first <= s /\ s <= last
    /\ flash_erase(first, last)

(* The command returns 1 and does nothing. *)
EraseRejected(spec) == do_flerase(spec) = {} /\ UNCHANGED chipVars
-----------------------------------------------------------------------------
(* Mutant: only the first address is looked up. *)
flash_writeFirstOnly(dest, count) == InFlash(dest)

(* flash_write finds the first and the last address in flash.  No sector   *)
(* is protected in this build: do_protect is compiled out.                 *)
flash_write(dest, count) ==
  InFlash(dest) /\ InFlash((dest + count - 1) % AddrMod)

(* do_mem_cp with its destination in flash.  A copy whose destination is   *)
(* not in flash is a copy to memory, which the models do not ask for.      *)
CopyCommand(src, dest, count) ==
  /\ count # 0
  /\ flash_write(dest, count)
  /\ write_buff(src, dest, IF count > b_end + 1 - dest THEN b_end + 1 - dest
                                                     ELSE count)

CopyRejected(src, dest, count) ==
  /\ count = 0 \/ (InFlash(dest) /\ ~flash_write(dest, count))
  /\ UNCHANGED chipVars
=============================================================================
