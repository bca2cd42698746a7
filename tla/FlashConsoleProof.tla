------------------------- MODULE FlashConsoleProof --------------------------
(***************************************************************************)
(* Proofs about FlashConsole, for every geometry of the flash and whatever *)
(* is typed: erase erases what the help text says, a copy changes only the *)
(* cells it names, and to a page boundary it leaves the source in them.    *)
(***************************************************************************)
EXTENDS FlashConsole, FlashCmdProof

(* The cells from the start of sector s to the end of sector e. *)
RangeCells(s, e) ==
  {c \in Cells : start(s) <= CFG_FLASH_BASE + c /\ CFG_FLASH_BASE + c <= SectorEnd(e)}

LEMMA SectorOfCell ==
  ASSUME NEW c \in Cells
  PROVE  /\ c \in Nat /\ CFG_FLASH_BASE + c \in Nat
         /\ \E s \in Sectors : /\ s \in Nat
                               /\ start(s) <= CFG_FLASH_BASE + c
                               /\ CFG_FLASH_BASE + c <= SectorEnd(s)
<1>1. c \in Nat /\ CFG_FLASH_BASE + c \in Nat
  BY SectorSizes DEF Cells
<1>2. InFlash(CFG_FLASH_BASE + c)  BY <1>1, CellInFlash
<1>3. \A s \in Sectors : s \in Nat  BY SectorInFlash
<1> QED  BY <1>1, <1>2, <1>3, SectorOf

(* A cell is in that range if its sector is. *)
LEMMA CellInRange ==
  ASSUME NEW s \in Sectors, NEW e \in Sectors, NEW c \in Cells
  PROVE  c \in RangeCells(s, e) <=> \E t \in Sectors : /\ s <= t /\ t <= e
                                                      /\ c \in SectorCells(t)
<1> DEFINE a == CFG_FLASH_BASE + c
<1>1. c \in Int /\ a \in Int  BY SectorOfCell
<1>2. PICK u \in Sectors : u \in Nat /\ start(u) <= a /\ a <= SectorEnd(u)
  BY SectorOfCell
<1>3. s \in Nat /\ e \in Nat /\ \A t \in Sectors : t \in Nat
  BY SectorInFlash
<1>4. (start(s) <= a <=> s <= u) /\ (a <= SectorEnd(e) <=> u <= e)
  BY <1>1, <1>2, <1>3, SectorOrder
<1>5. c \in RangeCells(s, e) <=> s <= u /\ u <= e
  BY <1>4 DEF RangeCells
<1>6. \A t \in Sectors : c \in SectorCells(t) <=> t = u
  <2> SUFFICES ASSUME NEW t \in Sectors PROVE c \in SectorCells(t) <=> t = u
    OBVIOUS
  <2>1. c \in SectorCells(t) <=> start(t) <= a /\ a <= SectorEnd(t)
    BY <1>1, <1>3, CellOfSector
  <2>2. start(t) <= a /\ a <= SectorEnd(t) => t = u
    BY <1>1, <1>2, <1>3, OneSector
  <2> QED  BY <1>2, <2>1, <2>2
<1> QED  BY <1>5, <1>6

LEMMA UnionOfSectors ==
  ASSUME NEW s \in Sectors, NEW e \in Sectors, NEW S \in SUBSET Sectors,
         \A t \in Sectors : t \in S <=> s <= t /\ t <= e
  PROVE  UNION {SectorCells(t) : t \in S} = RangeCells(s, e)
<1>1. \A t \in Sectors : SectorCells(t) \subseteq Cells
  <2> SUFFICES ASSUME NEW t \in Sectors, NEW c \in SectorCells(t)
               PROVE  c \in Cells
    OBVIOUS
  <2>1. t \in Nat /\ InFlash(start(t)) /\ InFlash(SectorEnd(t))
    BY SectorInFlash
  <2>2. c \in Int  BY <2>1, SectorBounds, SectorSizes DEF SectorCells
  <2>3. start(t) <= CFG_FLASH_BASE + c /\ CFG_FLASH_BASE + c <= SectorEnd(t)
    BY <2>1, <2>2, CellOfSector
  <2>4. start(t) \in Nat /\ SectorEnd(t) \in Nat  BY <2>1, SectorBounds
  <2>5. InFlash(CFG_FLASH_BASE + c)
    BY <2>1, <2>2, <2>3, <2>4, SectorSizes DEF InFlash
  <2> QED  BY <2>2, <2>5, CellInFlash
<1>2. \A c : c \in UNION {SectorCells(t) : t \in S}
               <=> \E t \in S : c \in SectorCells(t)
  BY Zenon
<1>3. ASSUME NEW c
      PROVE  c \in UNION {SectorCells(t) : t \in S} <=> c \in RangeCells(s, e)
  <2>1. CASE c \in Cells
    BY <1>2, <2>1, CellInRange
  <2>2. CASE c \notin Cells
    BY <1>1, <1>2, <2>2 DEF RangeCells
  <2> QED  BY <2>1, <2>2
<1> QED  BY <1>3, Zenon
-----------------------------------------------------------------------------
(* The forms of an erase command. *)
LEMMA SpecForms ==
  ASSUME NEW spec \in EraseSpecs
  PROVE  \/ spec.form = "all"
         \/ spec.form = "bank" /\ spec.bank \in 0..2
         \/ /\ spec.form = "sectors" /\ spec.bank \in Banks
            /\ spec.first \in Numbers /\ spec.last \in Numbers
         \/ /\ spec.form = "range" /\ spec.plus = FALSE
            /\ spec.first \in Addresses /\ spec.second \in Addresses
         \/ /\ spec.form = "range" /\ spec.plus = TRUE
            /\ spec.first \in Addresses /\ spec.second \in Lengths
  BY Zenon DEF EraseSpecs

(* do_flerase for a range of addresses, from what addr_spec makes of it. *)
LEMMA RangePlan ==
  ASSUME NEW spec, spec.form = "range", NEW a, NEW b,
         addr_spec(spec.first, spec.plus, spec.second) =
           [ok |-> TRUE, first |-> a, last |-> b]
  PROVE  do_flerase(spec) = IF a >= b THEN {} ELSE flash_fill_sect_ranges(a, b)
<1> DEFINE r == addr_spec(spec.first, spec.plus, spec.second)
<1>1. r.ok = TRUE /\ r.first = a /\ r.last = b
  <2>1. r = [ok |-> TRUE, first |-> a, last |-> b]  OBVIOUS
  <2> HIDE DEF r
  <2> QED  BY <2>1, Zenon
<1>2. do_flerase(spec) = IF ~r.ok \/ r.first >= r.last THEN {}
                         ELSE flash_fill_sect_ranges(r.first, r.last)
  <2>1. spec.form \notin {"all", "bank", "sectors"}  OBVIOUS
  <2> HIDE DEF r
  <2> QED  BY <2>1, Zenon DEF do_flerase, r
<1> HIDE DEF r
<1> QED  BY <1>1, <1>2

(* A command either stands for nothing, or for the sectors from s to e,    *)
(* and promises to erase their cells.                                      *)
Plans(spec, s, e) == /\ do_flerase(spec) = {t \in Sectors : s <= t /\ t <= e}
                     /\ Promised(spec) = RangeCells(s, e)

PlansNothing(spec) == do_flerase(spec) = {} /\ Promised(spec) = {}

LEMMA WholeBank ==
  /\ {t \in Sectors : 0 <= t /\ t <= SectorCount - 1} = Sectors
  /\ RangeCells(0, SectorCount - 1) = Cells
<1>1. {t \in Sectors : 0 <= t /\ t <= SectorCount - 1} = Sectors
  BY DEF Sectors
<1>2. \A c \in Cells : InFlash(CFG_FLASH_BASE + c) /\ c \in Nat
  BY SectorOfCell, CellInFlash
<1>3. start(0) = CFG_FLASH_BASE /\ SectorEnd(SectorCount - 1) = b_end
  BY SectorSizes, SMT DEF start
<1> QED  BY <1>1, <1>2, <1>3 DEF RangeCells, InFlash

LEMMA BankPlan ==
  ASSUME NEW spec, spec.form = "all" \/ (spec.form = "bank" /\ spec.bank \in 0..2)
  PROVE  PlansNothing(spec) \/ Plans(spec, 0, SectorCount - 1)
<1>1. CASE spec.form = "all" \/ spec.bank = 1
  <2>1. do_flerase(spec) = Sectors  BY <1>1, Zenon DEF do_flerase
  <2>2. Promised(spec) = Cells  BY <1>1, Zenon DEF Promised
  <2> QED  BY <2>1, <2>2, WholeBank DEF Plans
<1>2. CASE spec.form = "bank" /\ spec.bank # 1
  <2>1. do_flerase(spec) = {}  BY <1>2 DEF do_flerase
  <2>2. Promised(spec) = {}  BY <1>2 DEF Promised
  <2> QED  BY <2>1, <2>2 DEF PlansNothing
<1> QED  BY <1>1, <1>2

(* More numbers are positive ints than there are sectors. *)
LEMMA IntBounds ==
  /\ AddrMod \in Nat /\ SectorCount \in Nat \ {0}
  /\ SectorCount <= AddrMod \div 2 /\ AddrMod \div 2 \in Nat \ {0, 1}
<1>1. SectorSize \in Nat /\ SectorSize >= 2 /\ SectorCount \in Nat \ {0}
      /\ AddrMod \in Nat /\ CFG_FLASH_BASE \in Nat \ {0}
  BY SectorSizes, ConsoleAssumption, GeometryAssumption
<1>2. FlashSize \in Nat /\ FlashSize + 1 < AddrMod
  BY <1>1, SectorSizes, AddrAssumption
<1>3. 2 * SectorCount <= SectorSize * SectorCount
  BY <1>1, MulMono
<1>4. SectorSize * SectorCount = FlashSize
  BY <1>1, SMT DEF FlashSize
<1> QED  BY <1>1, <1>2, <1>3, <1>4

(* abbrev_spec plans a run of ints, the sectors named if the first is one. *)
LEMMA AbbrevRun ==
  ASSUME NEW spec, spec.bank \in Numbers, spec.first \in Numbers,
         spec.last \in Numbers
  PROVE  /\ \A n \in Numbers : ToInt(n) \in Int
         /\ \/ abbrev_spec(spec) = {}
            \/ abbrev_spec(spec) = ToInt(spec.first)..ToInt(spec.last)
<1>1. \A n \in Numbers : ToInt(n) \in Int
  BY IntBounds DEF ToInt, Numbers
<1> QED  BY <1>1 DEF abbrev_spec

LEMMA SectorsPlan ==
  ASSUME NEW spec, spec.form = "sectors", spec.bank \in Numbers,
         spec.first \in Numbers, spec.last \in Numbers, FirstIsInt(spec)
  PROVE  \/ PlansNothing(spec)
         \/ \E s, e \in Sectors : Plans(spec, s, e)
<1> DEFINE s == spec.first
           e == spec.last
           ok == spec.bank = 1 /\ e < SectorCount
<1>1. do_flerase(spec) = abbrev_spec(spec)
  BY DEF do_flerase
<1>2. Promised(spec) = IF ok THEN UNION {SectorCells(t) : t \in s..e} ELSE {}
  BY DEF Promised
<1>3. /\ SectorCount \in Nat \ {0} /\ AddrMod \in Nat
      /\ SectorCount <= AddrMod \div 2 /\ AddrMod \div 2 \in Nat \ {0, 1}
  BY IntBounds
<1>4. s \in 0..(AddrMod - 1) /\ e \in 0..(AddrMod - 1)
      /\ spec.bank \in 0..(AddrMod - 1) /\ s < AddrMod \div 2
  BY DEF Numbers, FirstIsInt
<1>5. ToInt(s) = s
  BY <1>4 DEF ToInt
<1>6. ToInt(spec.bank) = 1 <=> spec.bank = 1
  BY <1>3, <1>4 DEF ToInt
<1>7. ToInt(e) = e \/ (ToInt(e) < 0 /\ e >= SectorCount)
  BY <1>3, <1>4 DEF ToInt
<1>8. ToInt(e) \in Int
  BY <1>3, <1>4 DEF ToInt
<1>9. abbrev_spec(spec) = IF ok /\ s <= e THEN s..e ELSE {}
  <2> DEFINE l == ToInt(e)
  <2>1. abbrev_spec(spec) = IF ToInt(spec.bank) = 1 /\ s < SectorCount /\ s <= l
                               /\ l < SectorCount
                            THEN s..l ELSE {}
    BY <1>5 DEF abbrev_spec
  <2> HIDE DEF l, s, e
  <2>2. l \in Int /\ (l = e \/ (l < 0 /\ e >= SectorCount))
    BY <1>7, <1>8 DEF l
  <2>3. CASE l = e
    BY <1>3, <1>4, <1>6, <2>1, <2>3
  <2>4. CASE l < 0 /\ e >= SectorCount
    BY <1>3, <1>4, <1>6, <2>1, <2>2, <2>4
  <2> QED  BY <2>2, <2>3, <2>4
<1> HIDE DEF s, e
<1>10. CASE ok /\ s <= e
  <2>1. s \in Sectors /\ e \in Sectors /\ s < SectorCount
    BY <1>3, <1>4, <1>10 DEF Sectors
  <2>2. s..e = {t \in Sectors : s <= t /\ t <= e}
    BY <1>3, <1>4, <1>10 DEF Sectors
  <2>3. UNION {SectorCells(t) : t \in s..e} = RangeCells(s, e)
    BY <2>1, <2>2, UnionOfSectors
  <2> QED  BY <1>1, <1>2, <1>9, <1>10, <2>1, <2>2, <2>3 DEF Plans
<1>11. CASE ~ok  BY <1>1, <1>2, <1>9, <1>11 DEF PlansNothing
<1>12. CASE ok /\ ~(s <= e)
  <2>1. s..e = {}  BY <1>4, <1>12
  <2> QED  BY <1>1, <1>2, <1>9, <1>12, <2>1 DEF PlansNothing
<1> QED  BY <1>10, <1>11, <1>12
-----------------------------------------------------------------------------
(* `erase start end' *)
LEMMA AddressPlan ==
  ASSUME NEW spec, spec.form = "range", spec.plus = FALSE,
         spec.first \in 0..(AddrMod - 1), spec.second \in 0..(AddrMod - 1)
  PROVE  \/ PlansNothing(spec)
         \/ \E s, e \in Sectors : Plans(spec, s, e)
<1> DEFINE a == spec.first
           b == spec.second
           begins == \E s \in Sectors : a = start(s)
           ends == \E s \in Sectors : b = SectorEnd(s) \/ b > b_end
<1>1. do_flerase(spec) = IF a >= b THEN {} ELSE flash_fill_sect_ranges(a, b)
  <2>1. addr_spec(a, spec.plus, b) = [ok |-> TRUE, first |-> a, last |-> b]
    BY DEF addr_spec
  <2> QED  BY <2>1, RangePlan
<1>2. Promised(spec) = IF begins /\ ends /\ a < b THEN Between(a, b) ELSE {}
  BY DEF Promised
<1>3. a \in Nat /\ b \in Nat /\ b_end \in Nat /\ SectorCount - 1 \in Sectors
  BY SectorSizes
<1> HIDE DEF a, b
<1>4. CASE begins /\ ends /\ a < b
  <2>1. PICK s \in Sectors : a = start(s)  BY <1>4
  <2>2. PICK e \in Sectors : b = SectorEnd(e)
                             \/ (b > b_end /\ e = SectorCount - 1)
    BY <1>3, <1>4
  <2>3. do_flerase(spec) = {t \in Sectors : s <= t /\ t <= e}
    <3>1. start(s) <= b  BY <1>3, <1>4, <2>1
    <3>2. flash_fill_sect_ranges(start(s), b) = {t \in Sectors : s <= t /\ t <= e}
      BY <1>3, <2>2, <3>1, FillRange
    <3> QED  BY <1>1, <1>3, <1>4, <2>1, <3>2
  <2>4. Between(a, b) = RangeCells(s, e)
    <3>1. \A c \in Cells : /\ CFG_FLASH_BASE + c \in Nat
                           /\ CFG_FLASH_BASE + c <= b_end
      BY SectorOfCell, CellInFlash DEF InFlash
    <3>2. CASE b = SectorEnd(e)
      BY <2>1, <3>2 DEF Between, RangeCells
    <3>3. CASE b > b_end /\ e = SectorCount - 1
      <4>1. \A c \in Cells : CFG_FLASH_BASE + c <= b
                             /\ CFG_FLASH_BASE + c <= SectorEnd(e)
        BY <1>3, <3>1, <3>3, SectorSizes
      <4> QED  BY <2>1, <4>1 DEF Between, RangeCells
    <3> QED  BY <2>2, <3>2, <3>3
  <2> QED  BY <1>2, <1>4, <2>3, <2>4 DEF Plans
<1>5. CASE ~(begins /\ ends /\ a < b)
  <2>1. do_flerase(spec) = {}
    <3>1. CASE a >= b  BY <1>1, <3>1
    <3>2. CASE ~begins \/ ~ends
      <4>1. \/ \A s \in Sectors : a # start(s)
            \/ ~(b > b_end) /\ \A s \in Sectors : b # SectorEnd(s)
        BY <1>3, <3>2
      <4> QED  BY <1>1, <4>1, FillNothing
    <3> QED  BY <1>3, <1>5, <3>1, <3>2
  <2> QED  BY <1>2, <1>5, <2>1 DEF PlansNothing
<1> QED  BY <1>4, <1>5

LEMMA RejectedPlan ==
  ASSUME NEW spec, spec.form = "range", spec.plus = TRUE,
         ~InFlash(LastAddr(spec.first, spec.second))
  PROVE  do_flerase(spec) = {}
<1> DEFINE r == addr_spec(spec.first, spec.plus, spec.second)
<1>1. r.ok = FALSE
  <2>1. r = [ok |-> FALSE, first |-> spec.first,
             last |-> LastAddr(spec.first, spec.second)]
    BY Zenon DEF addr_spec
  <2> HIDE DEF r
  <2> QED  BY <2>1, Zenon
<1>2. spec.form \notin {"all", "bank", "sectors"}  OBVIOUS
<1> HIDE DEF r
<1> QED  BY <1>1, <1>2, Zenon DEF do_flerase, r

(* The sectors that a range from the start of s into t touches. *)
LEMMA SectorsTouched ==
  ASSUME NEW s \in Sectors, NEW t \in Sectors, NEW e \in Nat, s <= t,
         start(t) <= e, e <= SectorEnd(t)
  PROVE  \A u \in Sectors : u \in SectorsOf(Between(start(s), e))
                              <=> s <= u /\ u <= t
<1> SUFFICES ASSUME NEW u \in Sectors
             PROVE  u \in SectorsOf(Between(start(s), e)) <=> s <= u /\ u <= t
  OBVIOUS
<1>1. s \in Nat /\ t \in Nat /\ u \in Nat  BY SectorInFlash
<1>2. start(u) <= e <=> u <= t
  BY <1>1, SectorOrder
<1>3. ASSUME u \in SectorsOf(Between(start(s), e)) PROVE s <= u /\ u <= t
  <2>1. PICK c \in SectorCells(u) : c \in Between(start(s), e)
    BY <1>3 DEF SectorsOf
  <2> DEFINE a == CFG_FLASH_BASE + c
  <2>2. c \in Cells /\ start(s) <= a /\ a <= e
    BY <2>1 DEF Between
  <2>3. c \in Int /\ a \in Int  BY <2>2, SectorOfCell
  <2>4. start(u) <= a /\ a <= SectorEnd(u)
    BY <1>1, <2>3, CellOfSector
  <2>5. a <= SectorEnd(t)
    <3>1. SectorEnd(t) \in Nat  BY <1>1, SectorBounds
    <3> QED  BY <2>2, <2>3, <3>1
  <2> HIDE DEF a
  <2> QED  BY <1>1, <2>2, <2>3, <2>4, <2>5, SectorOrder
<1>4. ASSUME s <= u, u <= t PROVE u \in SectorsOf(Between(start(s), e))
  <2> DEFINE c == u * SectorSize
  <2>1. CFG_FLASH_BASE + c = start(u) /\ c \in Nat
    BY <1>1, SectorBounds
  <2>2. start(u) <= SectorEnd(u) /\ start(u) \in Nat /\ InFlash(start(u))
    BY <1>1, SectorBounds, SectorInFlash
  <2>3. start(s) <= start(u)
    BY <1>1, <1>4, <2>2, SectorOrder
  <2> HIDE DEF c
  <2>4. c \in Cells  BY <2>1, <2>2, CellInFlash
  <2>5. c \in Between(start(s), e)
    BY <1>2, <1>4, <2>1, <2>3, <2>4 DEF Between
  <2>6. c \in SectorCells(u)
    BY <1>1, <2>1, <2>2, CellOfSector
  <2> QED  BY <2>5, <2>6 DEF SectorsOf
<1> QED  BY <1>3, <1>4

(* `erase start +len' *)
LEMMA LengthPlan ==
  ASSUME NEW spec, spec.form = "range", spec.plus = TRUE,
         spec.first \in 0..(AddrMod - 1), spec.second \in 0..(AddrMod - 1)
  PROVE  \/ PlansNothing(spec)
         \/ \E s, e \in Sectors : Plans(spec, s, e)
<1> DEFINE a == spec.first
           n == spec.second
           e == a + n - 1
           last == LastAddr(a, n)
           begins == \E s \in Sectors : a = start(s)
<1>1. Promised(spec) =
        IF begins /\ a <= e /\ e <= b_end
        THEN UNION {SectorCells(s) : s \in SectorsOf(Between(a, e))} ELSE {}
  BY DEF Promised
<1>2. AddrMod \in Nat \ {0} /\ b_end \in Nat /\ b_end < AddrMod
      /\ CFG_FLASH_BASE \in Nat \ {0}
  BY SectorSizes
<1>3. a \in 0..(AddrMod - 1) /\ n \in 0..(AddrMod - 1)  OBVIOUS
<1> HIDE DEF a, n
<1>4. e \in Int  BY <1>2, <1>3
<1>5. last \in 0..(AddrMod - 1)
  <2> HIDE DEF e
  <2>1. e % AddrMod \in 0..(AddrMod - 1)  BY <1>2, <1>4, SMT
  <2> QED  BY <2>1 DEF LastAddr, e
<1>6. \A s \in Sectors : s \in Nat /\ start(s) \in Nat /\ SectorEnd(s) \in Nat
  BY SectorInFlash, SectorBounds
<1>7. ASSUME NEW t \in Sectors, start(t) <= last, last <= SectorEnd(t)
      PROVE  do_flerase(spec) = IF a >= SectorEnd(t) THEN {}
                                ELSE flash_fill_sect_ranges(a, SectorEnd(t))
  <2>1. addr_spec(a, TRUE, n) = [ok |-> TRUE, first |-> a, last |-> SectorEnd(t)]
    <3>1. LastAddr(a, n) \in Int  BY <1>2, <1>5
    <3> QED  BY <1>7, <3>1, SpecWithLength
  <2> QED  BY <2>1, RangePlan DEF a, n
<1>8. CASE ~begins
  <2>1. do_flerase(spec) = {}
    <3>1. CASE InFlash(last)
      <4>1. PICK t \in Sectors : start(t) <= last /\ last <= SectorEnd(t)
        BY <1>2, <1>5, <3>1, SectorOf
      <4>2. \A s \in Sectors : a # start(s)  BY <1>8
      <4> HIDE DEF last
      <4> QED  BY <1>7, <4>1, <4>2, FillNothing
    <3>2. CASE ~InFlash(last)
      BY <3>2, RejectedPlan DEF a, n
    <3> QED  BY <3>1, <3>2
  <2> QED  BY <1>1, <1>8, <2>1 DEF PlansNothing
<1>9. ASSUME NEW s \in Sectors, a = start(s)
      PROVE  \/ PlansNothing(spec)
             \/ \E t \in Sectors : Plans(spec, s, t)
  <2>1. begins  BY <1>9
  <2>2. last = IF e >= AddrMod THEN e - AddrMod ELSE e
    <3>1. a >= 1  BY <1>2, <1>6, <1>9, SectorBounds
    <3>2. e \in 0..(2 * AddrMod - 1)  BY <1>2, <1>3, <3>1
    <3> HIDE DEF e
    <3>3. e % AddrMod = IF e >= AddrMod THEN e - AddrMod ELSE e
      BY <1>2, <3>2, ModTwice
    <3> QED  BY <3>3 DEF LastAddr, e
  <2> HIDE DEF begins
  <2>3. CASE a <= e /\ e <= b_end
    <3>1. last = e /\ e \in Nat  BY <1>2, <1>3, <2>2, <2>3
    <3> HIDE DEF e, last
    <3>2. InFlash(e)
      <4>1. InFlash(a) /\ a \in Nat  BY <1>6, <1>9, SectorInFlash
      <4> QED  BY <1>2, <2>3, <3>1, <4>1 DEF InFlash
    <3>3. PICK t \in Sectors : start(t) <= e /\ e <= SectorEnd(t)
      BY <3>1, <3>2, SectorOf
    <3>4. s <= t
      BY <1>6, <1>9, <2>3, <3>1, <3>3, SectorOrder
    <3>5. SectorEnd(t) > a
      <4>1. a + SectorSize = SectorEnd(s) + 1  BY <1>6, <1>9, SectorBounds
      <4>2. start(s) <= SectorEnd(s)  BY <1>6, SectorBounds
      <4>3. SectorEnd(s) <= SectorEnd(t)
        BY <1>6, <3>4, <4>2, SectorOrder
      <4> QED  BY <1>6, <1>9, <4>1, <4>3, ConsoleAssumption, SectorSizes
    <3>6. do_flerase(spec) = {u \in Sectors : s <= u /\ u <= t}
      <4>1. do_flerase(spec) = IF a >= SectorEnd(t) THEN {}
                               ELSE flash_fill_sect_ranges(a, SectorEnd(t))
        BY <1>7, <3>1, <3>3
      <4>2. ~(a >= SectorEnd(t)) /\ start(s) <= SectorEnd(t)
        BY <1>6, <1>9, <3>5
      <4>3. flash_fill_sect_ranges(start(s), SectorEnd(t)) =
              {u \in Sectors : s <= u /\ u <= t}
        BY <1>6, <4>2, FillRange
      <4> QED  BY <1>9, <4>1, <4>2, <4>3
    <3>7. Promised(spec) = RangeCells(s, t)
      <4> DEFINE S == SectorsOf(Between(a, e))
      <4>1. S \in SUBSET Sectors  BY DEF SectorsOf
      <4>2. \A u \in Sectors : u \in S <=> s <= u /\ u <= t
        BY <1>9, <3>1, <3>3, <3>4, SectorsTouched
      <4>3. Promised(spec) = UNION {SectorCells(u) : u \in S}
        BY <1>1, <2>1, <2>3
      <4> HIDE DEF S
      <4> QED  BY <4>1, <4>2, <4>3, UnionOfSectors
    <3> QED  BY <3>6, <3>7 DEF Plans
  <2>4. CASE ~(a <= e /\ e <= b_end)
    <3>1. InFlash(last) => last < a
      BY <1>2, <1>3, <2>2, <2>4 DEF InFlash
    <3>2. do_flerase(spec) = {}
      <4>1. CASE InFlash(last)
        <5>1. PICK t \in Sectors : start(t) <= last /\ last <= SectorEnd(t)
          BY <1>2, <1>5, <4>1, SectorOf
        <5>2. ~(s <= t)
          <6> HIDE DEF last
          <6>1. start(s) <= last <=> s <= t
            BY <1>2, <1>5, <1>6, <5>1, SectorOrder
          <6> QED  BY <1>2, <1>5, <1>6, <1>9, <3>1, <4>1, <6>1
        <5>3. a > SectorEnd(t)
          <6>1. start(s) <= SectorEnd(s)  BY <1>6, SectorBounds
          <6>2. a <= SectorEnd(t) <=> s <= t
            BY <1>6, <1>9, <6>1, SectorOrder
          <6> QED  BY <1>6, <1>9, <5>2, <6>2
        <5>4. a >= SectorEnd(t)  BY <1>6, <1>9, <5>3
        <5> HIDE DEF last
        <5> QED  BY <1>7, <5>1, <5>4
      <4>2. CASE ~InFlash(last)
        BY <4>2, RejectedPlan DEF a, n
      <4> QED  BY <4>1, <4>2
    <3> QED  BY <1>1, <2>4, <3>2 DEF PlansNothing
  <2> QED  BY <2>3, <2>4
<1> QED  BY <1>8, <1>9

(* In all its forms: the sectors are a run of sectors, and their cells are *)
(* the cells the help text promises.                                       *)
LEMMA PlanIsPromise ==
  ASSUME NEW spec \in EraseSpecs, FirstIsInt(spec)
  PROVE  /\ do_flerase(spec) \subseteq Sectors
         /\ \A s, u \in do_flerase(spec), t \in Int :
              s <= t /\ t <= u => t \in do_flerase(spec)
         /\ \A c \in Cells : c \in Promised(spec)
                               <=> \E s \in do_flerase(spec) : c \in SectorCells(s)
<1>1. PlansNothing(spec) \/ \E s, e \in Sectors : Plans(spec, s, e)
  <2>1. CASE spec.form = "all" \/ (spec.form = "bank" /\ spec.bank \in 0..2)
    BY <2>1, BankPlan, SectorSizes
  <2>2. CASE spec.form = "sectors" /\ spec.bank \in Banks
             /\ spec.first \in Numbers /\ spec.last \in Numbers
    <3>1. spec.bank \in Numbers  BY <2>2, ConsoleAssumption DEF Numbers
    <3> QED  BY <2>2, <3>1, SectorsPlan
  <2>3. CASE spec.form = "range" /\ spec.plus = FALSE
             /\ spec.first \in Addresses /\ spec.second \in Addresses
    BY <2>3, AddressPlan, ConsoleAssumption
  <2>4. CASE spec.form = "range" /\ spec.plus = TRUE
             /\ spec.first \in Addresses /\ spec.second \in Lengths
    BY <2>4, LengthPlan, ConsoleAssumption
  <2> QED  BY <2>1, <2>2, <2>3, <2>4, SpecForms
<1>2. CASE PlansNothing(spec)  BY <1>2 DEF PlansNothing
<1>3. ASSUME NEW s \in Sectors, NEW e \in Sectors, Plans(spec, s, e)
      PROVE  /\ do_flerase(spec) \subseteq Sectors
             /\ \A f, u \in do_flerase(spec), t \in Int :
                  f <= t /\ t <= u => t \in do_flerase(spec)
             /\ \A c \in Cells :
                  c \in Promised(spec)
                  <=> \E t \in do_flerase(spec) : c \in SectorCells(t)
  <2>1. do_flerase(spec) = {t \in Sectors : s <= t /\ t <= e}
    BY <1>3 DEF Plans
  <2>2. \A f, u \in do_flerase(spec), t \in Int :
          f <= t /\ t <= u => t \in do_flerase(spec)
    BY <2>1, GeometryAssumption DEF Sectors
  <2>3. \A c \in Cells : c \in Promised(spec)
                          <=> \E t \in do_flerase(spec) : c \in SectorCells(t)
    BY <1>3, <2>1, CellInRange DEF Plans
  <2> QED  BY <2>1, <2>2, <2>3
<1> QED  BY <1>1, <1>2, <1>3

(* Whatever was typed, it is a run of ints. *)
LEMMA PlanIsRun ==
  ASSUME NEW spec \in EraseSpecs
  PROVE  /\ \A s \in do_flerase(spec) : s \in Int
         /\ \A s, u \in do_flerase(spec), t \in Int :
              s <= t /\ t <= u => t \in do_flerase(spec)
<1>1. CASE FirstIsInt(spec)
  <2>1. \A s \in Sectors : s \in Int  BY SectorInFlash
  <2> QED  BY <1>1, <2>1, PlanIsPromise
<1>2. CASE ~FirstIsInt(spec)
  <2> DEFINE f == ToInt(spec.first)
             l == ToInt(spec.last)
  <2>1. spec.form = "sectors"  BY <1>2 DEF FirstIsInt
  <2>2. /\ spec.bank \in Numbers /\ spec.first \in Numbers
        /\ spec.last \in Numbers
    BY <2>1, SpecForms, ConsoleAssumption DEF Numbers
  <2>3. do_flerase(spec) = abbrev_spec(spec)  BY <2>1 DEF do_flerase
  <2>4. f \in Int /\ l \in Int
        /\ (do_flerase(spec) = {} \/ do_flerase(spec) = f..l)
    BY <2>2, <2>3, AbbrevRun
  <2> HIDE DEF f, l
  <2>5. CASE do_flerase(spec) = {}  BY <2>5
  <2>6. CASE do_flerase(spec) = f..l  BY <2>4, <2>6
  <2> QED  BY <2>4, <2>5, <2>6
<1> QED  BY <1>1, <1>2
-----------------------------------------------------------------------------
LEMMA EraseForm ==
  ASSUME NEW c \in EraseSpecs
  PROVE  c.form \notin {"none", "copy"} /\ c \notin CopySpecs
<1>1. c.form \in {"all", "bank", "sectors", "range"}  BY SpecForms
<1>2. \A d \in CopySpecs : d.form = "copy"  BY DEF CopySpecs
<1> QED  BY <1>1, <1>2

LEMMA CopyForm ==
  ASSUME NEW c \in CopySpecs
  PROVE  /\ c.form = "copy" /\ c \notin EraseSpecs
         /\ c.src \in Nat /\ c.dest \in Nat /\ c.count \in 0..RamSize
         /\ c.dest \in CopyDests
<1>1. /\ c.form = "copy" /\ c.src \in 0..(RamSize - 1)
      /\ c.dest \in CopyDests /\ c.count \in 0..RamSize
  BY DEF CopySpecs
<1>2. c \notin EraseSpecs  BY <1>1, EraseForm
<1>3. \A d \in CopyDests : d \in Nat
  BY ConsoleAssumption, SectorSizes
<1> QED  BY <1>1, <1>2, <1>3, GeometryAssumption

LEMMA InitInv == Init => ConsoleInv
<1> SUFFICES ASSUME Init PROVE ConsoleInv
  OBVIOUS
<1>1. cmd = [form |-> "none"] /\ op = "idle"
  BY DEF Init, DriverIdle
<1>2. cmd \notin EraseSpecs /\ cmd \notin CopySpecs
  <2>1. cmd.form = "none"  BY <1>1
  <2> QED  BY <2>1, EraseForm, CopyForm
<1>3. CommandInv
  BY <1>1 DEF Init, DriverIdle, CommandInv, ChipTypeOK
<1> QED  BY <1>1, <1>2, <1>3
            DEF ConsoleInv, EraseLoopInv, EraseEndInv, WriteLoopInv, OthersInv,
                PageLoopInv

(* The erase loop starts with a run of sectors, none of them erased yet. *)
LEMMA EraseTyped ==
  ASSUME ConsoleInv, NEW c \in EraseSpecs, Erase(c)
  PROVE  ConsoleInv'
<1> DEFINE D == do_flerase(c)
<1>1. op = "idle" /\ cmd' = c /\ before' = flash /\ cmd' \in EraseSpecs
  BY DEF Erase, Type
<1>2. ChipTypeOK /\ DOMAIN flash = Cells
  BY DEF ConsoleInv, CommandInv
<1>3. cmd' \notin CopySpecs  BY <1>1, EraseForm
<1>4. \A s, u \in D, t \in Int : s <= t /\ t <= u => t \in D
  BY PlanIsRun
<1>5. do_flerase(cmd)' = D  BY <1>1
<1>6. \A s \in D : s \in Int  BY PlanIsRun
<1> HIDE DEF D
<1>7. CASE EraseRejected(c)
  <2>1. D = {} /\ UNCHANGED <<flash, op, i, s_last, source, addr, len, total>>
    BY <1>7 DEF EraseRejected, chipVars, D
  <2>2. CommandInv'
    BY <1>1, <1>2, <2>1 DEF CommandInv, ChipTypeOK
  <2>3. EraseEndInv'
    BY <1>1, <1>5, <2>1 DEF EraseEndInv
  <2> QED  BY <1>1, <1>3, <2>1, <2>2, <2>3
              DEF ConsoleInv, EraseLoopInv, WriteLoopInv, OthersInv, PageLoopInv
<1>8. CASE EraseCommand(c)
  <2>1. PICK first, last \in D : /\ \A s \in D : first <= s /\ s <= last
                                 /\ flash_erase(first, last)
    BY <1>8 DEF EraseCommand, D
  <2>2. /\ op' = "erase" /\ i' = first /\ s_last' = last
        /\ UNCHANGED <<flash, source, addr, len, total>>
    BY <2>1 DEF flash_erase
  <2>3. CommandInv'
    BY <1>1, <1>2, <1>6, <2>1, <2>2 DEF CommandInv, ChipTypeOK
  <2>4. first \in Int /\ last \in Int  BY <1>6, <2>1
  <2>5. EraseLoopInv'
    <3>1. first..last \subseteq D  BY <1>4, <2>1, <2>4
    <3>2. \A s \in D : ~(s < first)  BY <1>6, <2>1, <2>4
    <3>3. \A d \in Cells : flash'[d] = before'[d]  BY <1>1, <2>2
    <3> QED  BY <1>5, <2>1, <2>2, <3>1, <3>2, <3>3 DEF EraseLoopInv
  <2> QED  BY <1>3, <2>2, <2>3, <2>5
              DEF ConsoleInv, EraseEndInv, WriteLoopInv, OthersInv, PageLoopInv
<1> QED  BY <1>7, <1>8 DEF Erase

(* A turn of the erase loop: one more sector of the plan is erased. *)
LEMMA SectorErased ==
  ASSUME ConsoleInv, ath_spi_sector_erase, UNCHANGED <<ram, cmd, before, commands>>
  PROVE  ConsoleInv'
<1> DEFINE D == do_flerase(cmd)
<1>1. op = "erase" /\ op' = "erase" /\ i <= s_last /\ i' = i + 1
      /\ UNCHANGED <<s_last, source, addr, len, total>>
      /\ flash' = [c \in Cells |-> IF c \in SectorCells(ath_spi_send_addr(i))
                                   THEN Erased ELSE flash[c]]
  BY DEF ath_spi_sector_erase
<1>2. cmd \in EraseSpecs /\ ChipTypeOK
  BY <1>1 DEF ConsoleInv, CommandInv
<1>3. /\ i..s_last \subseteq D
      /\ \A s \in D : s <= s_last
      /\ \A c \in Cells :
           flash[c] = IF \E s \in D :
                           s < i /\ c \in SectorCells(ath_spi_send_addr(s))
                      THEN Erased ELSE before[c]
  BY <1>1 DEF ConsoleInv, EraseLoopInv
<1>4. D' = D /\ i \in Int /\ s_last \in Int  BY <1>2 DEF ChipTypeOK
<1>5. \A s \in D : s \in Int  BY <1>2, PlanIsRun
<1> HIDE DEF D
<1>6. i \in D  BY <1>1, <1>3, <1>4
<1>7. \A s \in D : s < i + 1 <=> s < i \/ s = i  BY <1>4, <1>5
<1>8. \A c \in Cells :
        flash'[c] = IF \E s \in D :
                         s < i + 1 /\ c \in SectorCells(ath_spi_send_addr(s))
                    THEN Erased ELSE before[c]
  BY <1>1, <1>3, <1>6, <1>7
<1>9. (i + 1)..s_last \subseteq D  BY <1>3, <1>4
<1>10. EraseLoopInv'
  BY <1>1, <1>3, <1>4, <1>8, <1>9 DEF EraseLoopInv, D
<1>11. CommandInv'
  BY <1>1, <1>2, <1>4 DEF CommandInv, ChipTypeOK
<1>12. cmd' \notin CopySpecs  BY <1>2, EraseForm
<1> QED  BY <1>1, <1>10, <1>11, <1>12
            DEF ConsoleInv, EraseEndInv, WriteLoopInv, OthersInv, PageLoopInv

LEMMA EraseReturned ==
  ASSUME ConsoleInv, flash_erase_return, UNCHANGED <<ram, cmd, before, commands>>
  PROVE  ConsoleInv'
<1>1. op = "erase" /\ op' = "idle" /\ i > s_last /\ flash' = flash
  BY DEF flash_erase_return, DriverReturn
<1>2. cmd \in EraseSpecs /\ ChipTypeOK
  BY <1>1 DEF ConsoleInv, CommandInv
<1>3. CommandInv'
  BY <1>1, <1>2
     DEF ConsoleInv, CommandInv, ChipTypeOK, flash_erase_return, DriverReturn
<1>4. EraseEndInv'
  <2>1. \A s \in do_flerase(cmd) : s < i
    <3>1. \A s \in do_flerase(cmd) : s \in Int /\ s <= s_last
      BY <1>1, <1>2, PlanIsRun DEF ConsoleInv, EraseLoopInv
    <3> QED  BY <1>1, <1>2, <3>1 DEF ChipTypeOK
  <2> QED  BY <1>1, <2>1 DEF ConsoleInv, EraseLoopInv, EraseEndInv
<1>5. cmd' \notin CopySpecs  BY <1>2, EraseForm
<1> QED  BY <1>1, <1>3, <1>4, <1>5
            DEF ConsoleInv, EraseLoopInv, WriteLoopInv, OthersInv, PageLoopInv
-----------------------------------------------------------------------------
(* flash_write finds the last address in flash if it is, though it counts  *)
(* modulo 2^32: no copy from RAM is long enough to come round.             *)
LEMMA NoWrap ==
  ASSUME NEW c \in CopySpecs, c.count # 0, InFlash(c.dest)
  PROVE  flash_write(c.dest, c.count) <=> InFlash(c.dest + c.count - 1)
<1> DEFINE x == c.dest + c.count - 1
<1>1. c.dest \in Nat /\ c.count \in 1..RamSize  BY CopyForm, GeometryAssumption
<1>2. /\ AddrMod \in Nat \ {0} /\ b_end \in Nat /\ b_end < AddrMod
      /\ CFG_FLASH_BASE \in Nat /\ FlashSize \in Nat /\ RamSize \in Nat
      /\ b_end = CFG_FLASH_BASE + FlashSize - 1
      /\ RamSize + FlashSize <= AddrMod
  BY SectorSizes, ConsoleAssumption, GeometryAssumption DEF b_end
<1>3. c.dest <= b_end /\ x \in 0..(2 * AddrMod - 1)
      /\ x < AddrMod + CFG_FLASH_BASE
  BY <1>1, <1>2 DEF InFlash
<1> HIDE DEF x
<1>4. x % AddrMod = IF x >= AddrMod THEN x - AddrMod ELSE x
  BY <1>2, <1>3, ModTwice
<1>5. InFlash(x % AddrMod) <=> InFlash(x)
  BY <1>2, <1>3, <1>4 DEF InFlash
<1> QED  BY <1>5 DEF flash_write, x

(* The copy starts with nothing written. *)
LEMMA CopyTyped ==
  ASSUME ConsoleInv, NEW c \in CopySpecs, Copy(c)
  PROVE  ConsoleInv'
<1>1. /\ op = "idle" /\ cmd' = c /\ before' = flash /\ cmd' \in CopySpecs
      /\ ram' = ram
  BY DEF Copy, Type
<1>2. ChipTypeOK /\ DOMAIN flash = Cells
  BY DEF ConsoleInv, CommandInv
<1>3. /\ cmd' \notin EraseSpecs
      /\ c.src \in Nat /\ c.dest \in Nat /\ c.count \in Nat
  BY <1>1, CopyForm, GeometryAssumption
<1>4. CASE CopyRejected(c.src, c.dest, c.count)
  <2>1. UNCHANGED <<flash, op, i, s_last, source, addr, len, total>>
    BY <1>4 DEF CopyRejected, chipVars
  <2>2. CopyCells' = {}
    BY <1>1, <1>4, NoWrap DEF CopyRejected, CopyCells
  <2>3. CommandInv'
    BY <1>1, <1>2, <2>1 DEF CommandInv, ChipTypeOK
  <2>4. OthersInv' /\ PageLoopInv'
    BY <1>1, <2>1, <2>2 DEF OthersInv, PageLoopInv
  <2> QED  BY <1>1, <1>3, <2>1, <2>3, <2>4
              DEF ConsoleInv, EraseLoopInv, EraseEndInv, WriteLoopInv
<1>5. CASE CopyCommand(c.src, c.dest, c.count)
  <2>1. c.count # 0 /\ InFlash(c.dest) /\ InFlash(c.dest + c.count - 1)
    BY <1>5, NoWrap DEF CopyCommand, flash_write
  <2>2. ~(c.count > b_end + 1 - c.dest)
    BY <1>3, <2>1, SectorSizes DEF InFlash
  <2>3. /\ op' = "write" /\ source' = c.src /\ addr' = c.dest - CFG_FLASH_BASE
        /\ len' = c.count /\ total' = 0 /\ UNCHANGED <<flash, i, s_last>>
    BY <1>5, <2>2 DEF CopyCommand, write_buff
  <2>4. addr' \in Nat  BY <1>3, <2>1, <2>3, SectorSizes DEF InFlash
  <2>5. CommandInv'
    BY <1>1, <1>2, <1>3, <2>3, <2>4 DEF CommandInv, ChipTypeOK
  <2>6. WriteLoopInv'
    BY <1>1, <1>3, <2>1, <2>3 DEF WriteLoopInv
  <2>7. OthersInv'  BY <1>1, <2>3 DEF OthersInv
  <2>8. PageLoopInv'
    <3>1. 0 % PageSize = 0  BY ModSmall, GeometryAssumption
    <3>2. \A d \in CopyCells' : CFG_FLASH_BASE + d - c.dest >= 0
      BY <1>1, <1>3, SectorOfCell, SectorSizes DEF CopyCells, Between
    <3>3. \A d \in CopyCells' : flash'[d] = before'[d]
      BY <1>1, <2>3
    <3> QED  BY <1>1, <2>3, <3>1, <3>2, <3>3 DEF PageLoopInv
  <2> QED  BY <1>3, <2>3, <2>5, <2>6, <2>7, <2>8
              DEF ConsoleInv, EraseLoopInv, EraseEndInv
<1> QED  BY <1>4, <1>5 DEF Copy

(* The arguments of the write loop, and the cells it may change. *)
LEMMA WriteArguments ==
  ASSUME ConsoleInv, op = "write"
  PROVE  /\ cmd \in CopySpecs
         /\ addr \in Nat /\ len \in Nat /\ total \in Nat /\ total <= len
         /\ addr + len <= FlashSize
         /\ \A c \in Cells : c \in CopyCells <=> addr <= c /\ c < addr + len
<1>1. /\ cmd \in CopySpecs
      /\ addr \in Nat /\ len \in Nat /\ total \in Nat
  BY DEF ConsoleInv, CommandInv, ChipTypeOK
<1>2. /\ cmd.count # 0
      /\ InFlash(cmd.dest) /\ InFlash(cmd.dest + cmd.count - 1)
      /\ addr = cmd.dest - CFG_FLASH_BASE /\ len = cmd.count /\ total <= len
  BY DEF ConsoleInv, WriteLoopInv
<1>3. cmd.dest \in Nat  BY <1>1, CopyForm
<1>4. addr + len <= FlashSize
  BY <1>1, <1>2, <1>3, SectorSizes DEF InFlash, b_end
<1>5. \A c \in Cells : c \in CopyCells <=> addr <= c /\ c < addr + len
  BY <1>1, <1>2, <1>3, SectorOfCell, SectorSizes DEF CopyCells, Between
<1> QED  BY <1>1, <1>2, <1>4, <1>5

(* A turn of the write loop, to whatever address: it makes progress, and   *)
(* even where its bytes wrap around they stay in the cells of the copy,    *)
(* because the page that the copy begins in is not written twice.          *)
LEMMA TurnConfined ==
  ASSUME ConsoleInv, op = "write", total < len
  PROVE  /\ len_this_lp \in 1..(len - total)
         /\ \A c \in Cells : c \in PageCells(addr + total)
                              /\ Nth(c, addr + total) < len_this_lp
              => c \in CopyCells
         /\ total + len_this_lp < len
              => addr + total + len_this_lp >= PageStart(addr) + PageSize
<1> DEFINE dst == addr + total
           n == len_this_lp
<1>1. /\ addr \in Nat /\ len \in Nat /\ total \in Nat
      /\ \A c \in Cells : c \in CopyCells <=> addr <= c /\ c < addr + len
  BY WriteArguments
<1>2. PageSize \in Nat \ {0}  BY GeometryAssumption
<1>3. /\ PageStart(addr) \in Nat /\ PageStart(addr) <= addr
      /\ addr < PageStart(addr) + PageSize
      /\ addr % PageSize = addr - PageStart(addr)
  BY <1>1, PageBounds
<1>4. bytes_this_page = PageSize - (addr - PageStart(addr))
      /\ bytes_this_page \in 1..PageSize
  BY <1>1, <1>2, <1>3 DEF bytes_this_page
<1>5. n \in 1..(len - total) /\ n <= bytes_this_page
      /\ (total + n < len => n = bytes_this_page)
  BY <1>1, <1>2, <1>4 DEF len_this_lp
<1>6. total > 0 => dst >= PageStart(addr) + PageSize
  BY <1>1 DEF ConsoleInv, WriteLoopInv
<1>7. total + n < len => dst + n >= PageStart(addr) + PageSize
  BY <1>1, <1>2, <1>3, <1>4, <1>5, <1>6
<1>8. ASSUME NEW c \in Cells, c \in PageCells(dst), Nth(c, dst) < n
      PROVE  c \in CopyCells
  <2>1. dst \in Nat  BY <1>1
  <2>2. /\ PageStart(dst) \in Nat /\ PageStart(dst) <= dst
        /\ dst < PageStart(dst) + PageSize
    BY <2>1, PageBounds
  <2>3. c \in Nat /\ PageStart(dst) <= c
        /\ Nth(c, dst) = IF c >= dst THEN c - dst ELSE c - dst + PageSize
    BY <1>2, <1>8, <2>1, <2>2, NthInPage DEF PageCells
  <2>4. CASE c >= dst
    BY <1>1, <1>5, <1>8, <2>3, <2>4
  <2>5. CASE c < dst /\ total = 0
    BY <1>1, <1>2, <1>3, <1>4, <1>5, <1>8, <2>3, <2>5
  <2>6. CASE c < dst /\ total > 0
    <3>1. PageStart(dst) >= PageStart(addr) + PageSize
      BY <1>1, <1>6, <2>1, <2>6, LaterPage
    <3> QED  BY <1>1, <1>2, <1>3, <2>2, <2>3, <2>6, <3>1
  <2> QED  BY <1>1, <2>3, <2>4, <2>5, <2>6
<1> QED  BY <1>5, <1>7, <1>8

(* To a page boundary a turn writes the next cells in order, and the next  *)
(* turn is at a page boundary again.                                       *)
LEMMA TurnAligned ==
  ASSUME ConsoleInv, op = "write", total < len, PageAligned
  PROVE  /\ \A c \in Cells : c \in PageCells(addr + total)
                              /\ Nth(c, addr + total) < len_this_lp
              <=> addr + total <= c /\ c < addr + total + len_this_lp
         /\ \A c \in PageCells(addr + total) :
              c >= addr + total => Nth(c, addr + total) = c - (addr + total)
         /\ \/ total + len_this_lp = len
            \/ (total + len_this_lp) % PageSize = 0
<1> DEFINE dst == addr + total
           n == len_this_lp
<1>1. addr \in Nat /\ len \in Nat /\ total \in Nat /\ cmd \in CopySpecs
  BY WriteArguments
<1>2. PageSize \in Nat \ {0}  BY GeometryAssumption
<1>3. addr % PageSize = 0 /\ total % PageSize = 0
  BY <1>1 DEF ConsoleInv, WriteLoopInv, PageLoopInv, PageAligned
<1>4. PICK q \in Nat : addr = q * PageSize
  <2>1. PICK q \in Nat : q * PageSize <= addr /\ addr % PageSize = addr - q * PageSize
    BY <1>1, <1>2, DivMod
  <2>2. q * PageSize \in Int  BY <1>2, MulNext
  <2> QED  BY <1>1, <1>3, <2>1, <2>2
<1>5. PICK r \in Nat : total = r * PageSize
  <2>1. PICK r \in Nat : r * PageSize <= total /\ total % PageSize = total - r * PageSize
    BY <1>1, <1>2, DivMod
  <2>2. r * PageSize \in Int  BY <1>2, MulNext
  <2> QED  BY <1>1, <1>3, <2>1, <2>2
<1>6. dst % PageSize = 0
  <2>1. dst = (q + r) * PageSize  BY <1>2, <1>4, <1>5, SMT
  <2> HIDE DEF dst
  <2> QED  BY <1>2, <2>1, ModMultiple
<1>7. (total + PageSize) % PageSize = 0
  <2>1. total + PageSize = (r + 1) * PageSize  BY <1>2, <1>5, MulNext
  <2> QED  BY <1>2, <2>1, ModMultiple
<1>8. n = (IF len - total > PageSize THEN PageSize ELSE len - total)
  BY <1>1, <1>2, <1>3 DEF len_this_lp, bytes_this_page
<1>9. n \in 1..PageSize  BY <1>1, <1>2, <1>8
<1>10. dst \in Nat /\ PageCells(dst) = dst..(dst + PageSize - 1)
  BY <1>1, <1>2, <1>6 DEF PageCells, PageStart
<1> HIDE DEF dst, n
<1>11. \A c \in PageCells(dst) : c \in Nat /\ c >= dst /\ Nth(c, dst) = c - dst
  BY <1>2, <1>10, NthInPage
<1>12. ASSUME NEW c \in Cells
       PROVE  c \in PageCells(dst) /\ Nth(c, dst) < n
                <=> dst <= c /\ c < dst + n
  <2>1. c \in Int  BY SectorOfCell
  <2> QED  BY <1>2, <1>9, <1>10, <1>11, <2>1
<1>13. total + n = len \/ (total + n) % PageSize = 0
  BY <1>1, <1>2, <1>7, <1>8
<1> QED  BY <1>11, <1>12, <1>13 DEF dst, n

(* A turn of the write loop. *)
LEMMA PageWritten ==
  ASSUME ConsoleInv, write_buff_page, UNCHANGED <<ram, cmd, before, commands>>
  PROVE  ConsoleInv'
<1> DEFINE dst == addr + total
           n == len_this_lp
           Written(c) == c \in PageCells(dst) /\ Nth(c, dst) < n
<1>1. /\ op = "write" /\ op' = "write" /\ total < len /\ total' = total + n
      /\ UNCHANGED <<i, s_last, source, addr, len>>
      /\ flash' = [c \in Cells |-> IF Written(c)
                     THEN Program(flash[c], ram[source + total + Nth(c, dst)])
                     ELSE flash[c]]
  BY DEF write_buff_page, ath_spi_write_page
<1>2. /\ addr \in Nat /\ len \in Nat /\ total \in Nat /\ cmd \in CopySpecs
      /\ \A c \in Cells : c \in CopyCells <=> addr <= c /\ c < addr + len
  BY <1>1, WriteArguments
<1>3. /\ n \in 1..(len - total)
      /\ \A c \in Cells : Written(c) => c \in CopyCells
      /\ total + n < len => addr + total + n >= PageStart(addr) + PageSize
  BY <1>1, TurnConfined
<1>4. CopyCells' = CopyCells  BY DEF CopyCells
<1>5. cmd \notin EraseSpecs  BY <1>2, CopyForm
<1> HIDE DEF n
<1>6. CommandInv'
  BY <1>1, <1>2, <1>3 DEF ConsoleInv, CommandInv, ChipTypeOK
<1>7. WriteLoopInv'
  <2>1. total' <= len' /\ (total' \in 1..(len' - 1)
                            => addr' + total' >= PageStart(addr') + PageSize)
    BY <1>1, <1>2, <1>3
  <2> QED  BY <1>1, <2>1 DEF ConsoleInv, WriteLoopInv
<1>8. OthersInv'
  BY <1>1, <1>2, <1>3, <1>4 DEF ConsoleInv, OthersInv
<1>9. PageLoopInv'
  <2> SUFFICES ASSUME PageAligned PROVE PageLoopInv'
    BY DEF PageLoopInv, PageAligned
  <2>1. /\ \A c \in Cells : Written(c) <=> dst <= c /\ c < dst + n
        /\ \A c \in PageCells(dst) : c >= dst => Nth(c, dst) = c - dst
        /\ total + n = len \/ (total + n) % PageSize = 0
    BY <1>1, TurnAligned DEF n
  <2>2. /\ source = cmd.src /\ addr = cmd.dest - CFG_FLASH_BASE
        /\ cmd.src \in Nat /\ cmd.dest \in Nat /\ CFG_FLASH_BASE \in Nat
    BY <1>1, <1>2, CopyForm, SectorSizes DEF ConsoleInv, WriteLoopInv
  <2>3. ASSUME NEW c \in CopyCells, before[c] = Erased
        PROVE  flash'[c] = IF CFG_FLASH_BASE + c - cmd.dest >= total'
                           THEN Erased
                           ELSE ram[cmd.src + (CFG_FLASH_BASE + c - cmd.dest)]
    <3> DEFINE k == CFG_FLASH_BASE + c - cmd.dest
    <3>1. c \in Cells  BY <2>3 DEF CopyCells, Between
    <3>2. c \in Nat /\ k = c - addr /\ k \in Int
      BY <2>2, <3>1, SectorOfCell
    <3>3. flash[c] = IF k >= total THEN Erased ELSE ram[cmd.src + k]
      BY <1>1, <1>2, <2>3 DEF ConsoleInv, PageLoopInv
    <3> HIDE DEF k
    <3>4. CASE Written(c)
      <4>1. dst <= c /\ c < dst + n /\ Nth(c, dst) = c - dst
        BY <2>1, <3>1, <3>2, <3>4
      <4>2. k >= total /\ ~(k >= total + n)
        BY <1>2, <1>3, <3>2, <4>1
      <4>3. source + total + Nth(c, dst) = cmd.src + k
        BY <1>2, <2>2, <3>2, <4>1
      <4>4. flash'[c] = Program(Erased, ram[cmd.src + k])
        BY <1>1, <3>1, <3>3, <3>4, <4>2, <4>3
      <4>5. flash'[c] = ram[cmd.src + k]  BY <4>4 DEF Program
      <4> QED  BY <1>1, <4>2, <4>5 DEF k
    <3>5. CASE ~Written(c)
      <4>1. flash'[c] = flash[c]  BY <1>1, <3>1, <3>5
      <4>2. ~(dst <= c /\ c < dst + n)  BY <2>1, <3>1, <3>5
      <4>3. k >= total <=> k >= total + n
        BY <1>2, <1>3, <3>2, <4>2
      <4> QED  BY <1>1, <3>3, <4>1, <4>3 DEF k
    <3> QED  BY <3>4, <3>5
  <2> QED  BY <1>1, <1>4, <2>1, <2>3 DEF PageLoopInv
<1> QED  BY <1>1, <1>5, <1>6, <1>7, <1>8, <1>9
            DEF ConsoleInv, EraseLoopInv, EraseEndInv

LEMMA WriteReturned ==
  ASSUME ConsoleInv, write_buff_return, UNCHANGED <<ram, cmd, before, commands>>
  PROVE  ConsoleInv'
<1>1. op = "write" /\ op' = "idle" /\ total >= len /\ flash' = flash
  BY DEF write_buff_return, DriverReturn
<1>2. /\ addr \in Nat /\ len \in Nat /\ total \in Nat /\ cmd \in CopySpecs
      /\ \A c \in Cells : c \in CopyCells <=> addr <= c /\ c < addr + len
  BY <1>1, WriteArguments
<1>3. cmd \notin EraseSpecs  BY <1>2, CopyForm
<1>4. CopyCells' = CopyCells  BY DEF CopyCells
<1>5. CommandInv'
  BY <1>1, <1>2
     DEF ConsoleInv, CommandInv, ChipTypeOK, write_buff_return, DriverReturn
<1>6. OthersInv'  BY <1>1, <1>4 DEF ConsoleInv, OthersInv
<1>7. PageLoopInv'
  <2>1. ASSUME NEW c \in CopyCells
        PROVE  ~(CFG_FLASH_BASE + c - cmd.dest >= total)
    <3>1. c \in Cells /\ c < addr + len  BY <1>2 DEF CopyCells, Between
    <3>2. c \in Nat  BY <3>1, SectorOfCell
    <3>3. addr = cmd.dest - CFG_FLASH_BASE /\ cmd.dest \in Nat
      BY <1>1, <1>2, CopyForm DEF ConsoleInv, WriteLoopInv
    <3> QED  BY <1>1, <1>2, <3>1, <3>2, <3>3, SectorSizes
  <2> QED  BY <1>1, <1>4, <2>1 DEF ConsoleInv, PageLoopInv, PageAligned
<1> QED  BY <1>1, <1>3, <1>5, <1>6, <1>7
            DEF ConsoleInv, EraseLoopInv, EraseEndInv, WriteLoopInv
-----------------------------------------------------------------------------
LEMMA NextStep == ConsoleInv /\ [Next]_vars => ConsoleInv'
<1> SUFFICES ASSUME ConsoleInv, [Next]_vars PROVE ConsoleInv'
  OBVIOUS
<1>1. ASSUME NEW c \in EraseSpecs, Erase(c) PROVE ConsoleInv'
  BY <1>1, EraseTyped
<1>2. ASSUME NEW c \in CopySpecs, Copy(c) PROVE ConsoleInv'
  BY <1>2, CopyTyped
<1>3. CASE Driver
  BY <1>3, SectorErased, EraseReturned, PageWritten, WriteReturned
     DEF Driver, DriverStep
<1>4. CASE UNCHANGED vars
  BY <1>4 DEF vars, chipVars, ConsoleInv, CommandInv, ChipTypeOK, EraseLoopInv,
              EraseEndInv, WriteLoopInv, OthersInv, PageLoopInv, PageAligned,
              CopyCells
<1> QED  BY <1>1, <1>2, <1>3, <1>4 DEF Next, Done

(* Whatever is typed, the driver works on the command and on nothing else: *)
(* erasing goes through the sectors of the plan, writing through the cells *)
(* of the copy.                                                            *)
THEOREM ConsoleInvariance == Spec => []ConsoleInv
  BY InitInv, NextStep, PTL DEF Spec

(* erase (do_flerase, flash_fill_sect_ranges, addr_spec) erases exactly    *)
(* what its help text says, for every number that can be typed but a first *)
(* sector of 2^31 or more, which abbrev_spec takes for a negative one.     *)
THEOREM EraseIsExact == Spec => []EraseExact
<1>1. ConsoleInv => EraseExact
  <2> SUFFICES ASSUME ConsoleInv, op = "idle", cmd.form \notin {"none", "copy"},
                      FirstIsInt(cmd), NEW c \in Cells
               PROVE  flash[c] = IF c \in Promised(cmd) THEN Erased ELSE before[c]
    BY DEF EraseExact
  <2>1. cmd \in EraseSpecs
    <3>1. \A d \in CopySpecs : d.form = "copy"  BY CopyForm
    <3> QED  BY <3>1 DEF ConsoleInv, CommandInv
  <2>2. do_flerase(cmd) \subseteq Sectors  BY <2>1, PlanIsPromise
  <2>3. \A s \in do_flerase(cmd) : ath_spi_send_addr(s) = s
    BY <2>2, SentAddress
  <2>4. flash[c] = IF \E s \in do_flerase(cmd) :
                        c \in SectorCells(ath_spi_send_addr(s))
                   THEN Erased ELSE before[c]
    BY <2>1 DEF ConsoleInv, EraseEndInv
  <2>5. c \in Promised(cmd) <=> \E s \in do_flerase(cmd) : c \in SectorCells(s)
    BY <2>1, PlanIsPromise
  <2> QED  BY <2>3, <2>4, <2>5
<1> QED  BY <1>1, ConsoleInvariance, PTL

(* cp to flash (write_buff) changes no cell but the ones it was asked to   *)
(* write, at no moment, page boundary or not.                              *)
THEOREM CopyIsConfined == Spec => []CopyConfined
<1>1. ConsoleInv => CopyConfined
  BY DEF ConsoleInv, CommandInv, OthersInv, CopyConfined
<1> QED  BY <1>1, ConsoleInvariance, PTL

(* A copy to a page boundary leaves the source in the cells it names, if   *)
(* they were erased.                                                       *)
THEOREM AlignedCopyIsExact ==
  Spec => [](cmd.form = "copy" /\ PageAligned => CopyExact)
<1>1. ConsoleInv => (cmd.form = "copy" /\ PageAligned => CopyExact)
  <2> SUFFICES ASSUME ConsoleInv, cmd.form = "copy", PageAligned, op = "idle",
                      NEW c \in Cells
               PROVE  IF c \in CopyCells
                      THEN before[c] = Erased =>
                             flash[c] = ram[cmd.src + (CFG_FLASH_BASE + c - cmd.dest)]
                      ELSE flash[c] = before[c]
    BY DEF CopyExact
  <2>1. cmd \in CopySpecs
    <3>1. \A d \in EraseSpecs : d.form # "copy"  BY EraseForm
    <3> QED  BY <3>1 DEF ConsoleInv, CommandInv
  <2> QED  BY <2>1 DEF ConsoleInv, OthersInv, PageLoopInv
<1> QED  BY <1>1, ConsoleInvariance, PTL

(* So every copy is exact if all are to page boundaries, as the flash run  *)
(* has it.                                                                 *)
THEOREM CopyIsExact ==
  ASSUME \A d \in CopyDests : (d - CFG_FLASH_BASE) % PageSize = 0
  PROVE  Spec => []CopyExact
<1>1. ConsoleInv => (cmd.form = "copy" => PageAligned)
  <2>1. \A d \in EraseSpecs : d.form # "copy"  BY EraseForm
  <2>2. \A d \in CopySpecs : d.dest \in CopyDests  BY CopyForm
  <2> QED  BY <2>1, <2>2 DEF ConsoleInv, CommandInv, PageAligned
<1>2. (cmd.form = "copy" /\ PageAligned => CopyExact)
        /\ (cmd.form = "copy" => PageAligned) => CopyExact
  BY DEF CopyExact
<1> QED  BY <1>1, <1>2, AlignedCopyIsExact, ConsoleInvariance, PTL
=============================================================================
