# A verification project for the WR841N boot loader

The repository is a U-Boot 1.1.4 for the TP-Link WR841N (Atheros QCA953x): a
boot loader of 128 KiB in front of the firmware in a 4 MiB serial flash.  Most
of the tree is generic U-Boot for other boards.  What the loader does on this
board is short: after a reset it looks at the reset button; if it is pressed it
downloads `..._tp_recovery.bin` over TFTP from 192.168.0.66, compares the
product id, and replaces the firmware with `erase ...; cp.b ...`; otherwise, and
after a failure, it boots the firmware.  A key on the serial console leads to a
command line.  A mistake on the recovery path leaves a board without firmware,
and one that touches the loader's own sectors leaves a board that needs a flash
programmer.  That path is the core of this project; around it are the parts it
runs on: the network loop, the Ethernet devices and their receive ring, the
environment and the command interpreter.

The models follow the build that the top level Makefile makes:
`COMPRESSED_UBOOT=1`, `FLASH_SIZE=4`, `FW_RECOVERY=y`; so the environment is
built from defaults at every reset (`CFG_ENV_IS_NOWHERE`), there is one flash
bank of 64 sectors of 64 KiB at 0x9f000000, and `protect` is compiled out.

## Inventory

| Component | State | Operations | Interaction | What makes it correct |
|---|---|---|---|---|
| TFTP client, `net/tftp.c` | state, ports, block, last block, wrap count, retry count | start, handler (OACK, DATA, ERROR), timeout, send | called by NetLoop through `packetHandler` and `timeHandler` | acknowledged blocks are stored; success means the whole file; it ends |
| Network loop, `net/net.c` | `NetState`, handlers, timer, transferred size, ARP slot | NetLoop, NetStartAgain, NetReceive, ARP, ping | calls the client, polls the device, sets `filesize` | a timer is armed while it waits; the verdict it returns is the client's |
| Ethernet layer, `net/eth.c` | ring of devices, current device, first failed, wrap flag | init, halt, try another | called by NetLoop and NetStartAgain | one device receives at a time; every device is tried |
| Ethernet driver, `qca-eth-953x.c` | receive descriptors, next index; the DMA engine's position and count | init, halt, recv | shares memory with the engine; recv calls NetReceive, which may call init | every stored frame is handed over once, in order, and none of an earlier command |
| Flash driver, `ath_flash.c` | loop variables; the chip | `flash_erase`, `write_buff` | called by the commands | the pages written are the pages meant |
| `erase`, `cp`, `cmd_flash.c`, `flash.c`, `cmd_mem.c` | none of their own | parse a range, plan sectors, erase, copy | call the driver | exactly the sectors named are erased, exactly the source is written |
| Recovery and boot, `main.c`, `cmd_bootm.c` | where `main_loop` is, RAM, `filesize` | button, download, compare, flash, reset, boot | runs the commands and the download | only the firmware changes; only a whole matching file is flashed; a failed recovery can be repeated |
| Console, `main.c` | line buffer, last command, Control C flag | readline, separate, substitute, split, run, repeat | runs commands, which may run lines | quoted text arrives; nothing runs after a stop; the prompt returns |
| Environment, `cmd_nvedit.c` | one packed list of `name=value` strings; copies of some values | setenv, getenv | everywhere | the list is a map; protected variables are set once; the copies agree |

The loader has one thread and no interrupts; the only thing that runs beside it
is the DMA engine.  What makes it hard is what happens around it: frames lost,
repeated and reordered; several frames handed over in one poll before anyone
looks at the verdict of the first; a timer that races a late frame; state left
by an earlier transfer; power lost in the middle of an erase; addresses and
block numbers at the end of their range.  The list of hazards, each at its line,
is in `PROJECT.json`.

## Modules

| Module | Models | Remarks |
|---|---|---|
| `Tftp` | `tftp.c` and the part of `net.c` that drives it | one operator per path through a C function; no network of its own |
| `TftpServer` | a TFTP server (external) | lock-step, one port per request, options, refusal, abort |
| `TftpNet` | `Tftp` + `TftpServer` + a network that keeps every frame for ever | loss, delay, duplication, reordering |
| `TftpLan` | `Tftp` + `TftpServer` + two lossy FIFO channels | retransmissions are the only duplicates; liveness |
| `FileTransfer` | what the TFTP command promises its caller | abstract specification, implemented by `TftpNet` |
| `SpiFlash` | the chip and `ath_flash.c` | one step per sector erased and page programmed |
| `FlashCmd` | `cmd_flash.c`, `flash.c`, `cmd_mem.c`, geometry | addresses modulo `AddrMod` (2^32) |
| `FlashConsole` | an operator typing `erase` and `cp` | history variables hold the last command and the flash before it |
| `Recovery` | `main_loop`'s recovery and boot, `do_bootm`, `do_reset` | composes `FlashCmd`; the download is taken at the level of `FileTransfer` |
| `Eth` | `net/eth.c` | operators on the ring of devices; no next-state relation of its own |
| `Net` | `Eth` + NetLoop with ARP, ping, both timers and NetStartAgain | clock ticks, links and a server that come and go |
| `GmacRx` | `ath_gmac_clean_rx`, `ath_gmac_halt`, `ath_gmac_recv` and the DMA engine | one step per access to what the two share |
| `RxFifo` | what a receive ring promises | abstract specification, implemented by `GmacRx` |
| `Env` | `_do_setenv`, `envmatch`, `getenv` | the list byte by byte |
| `EnvMap` | a map of bounded size from names to values | abstract specification, implemented by `Env` |
| `Console` | main_loop's prompt, `run_command`, `do_run`, `do_bootd`, Control C | a stack of activations; a line is a sequence of commands |
| `Line` | the text of one line: separator scan, `process_macros`, `parse_line` | functions on sequences of characters, one step per command |
| `Readline` | `readline`, `delete_char` | the row the operator sees beside the buffer |
| `Config` | `CFG_CBSIZE` | the constant that `Line` and `Readline` share |
| `FlashCmdProof` | lemmas about the chip, the driver and the address arithmetic of the commands | shared by the next two; checked by TLAPS |
| `RecoveryProof`, `FlashConsoleProof` | theorems about `Recovery` and `FlashConsole` | checked by TLAPS |
| `TftpProof`, `NetProof`, `GmacProof`, `EnvProof`, `ConsoleProof` | theorems about `TftpNet`, `TftpLan`, `Net`, `GmacRx`, `Env`, `Console`, `Line` and `Readline` | checked by TLAPS |
| `MCTftpNet`, `MCTftpLan`, `MCFlashConsole`, `MCRecovery`, `MCNet`, `MCEnv`, `MCConsole`, `MCLine` | instances for TLC | |

Names are those of the source: `TftpBlock`, `NetStartAgain`,
`flash_fill_sect_ranges`, `bytes_this_page`, `do_bootm` and so on.
Operators whose names say `Mutant` in their comment are wrong on purpose: each
is a plausible slip in the definition after it, kept to show that some property
notices.

### The TFTP client

`loop` says where `NetLoop` is: `rx` while it polls, `switch` between a timer
handler and the look at `NetState`, and then how it ended.  In `rx` frames are
handed over one by one and `NetLoopRestart` or `NetLoopReturn` may happen at any
point between them: `ath_gmac_recv` empties the ring before `NetLoop` looks at
`NetState`, and how many frames that is depends on timing.  The timer may fire
at any time while it is armed.  `NetStartAgain` has one disjunct per way out;
whether all devices have been tried is left open.

A DATA frame carries the number of the file block it holds and that number
modulo `SeqSize` as its block number; RAM is an array of slots.  Two
assumptions are built in: every start picks a port no earlier start has used
(the code draws one of 3072 from the timer), and a server transfer serves one
client port.

### Flash and commands

A cell of flash or RAM holds a pair of an origin and an offset, or *erased*, or
*torn*.  Programming a cell that is not erased tears it unless the value is the
same (bits can only be cleared); a page program wraps around within its page;
when the power fails, every cell of the sector or page being worked on is torn.
`write_buff` computes its lengths as the code does, from `addr` and not from the
address of the turn.  `do_flerase` yields the set of sectors a command stands
for, computed with the code's comparisons; the empty set is a rejected command.
Numbers are typed as `simple_strtoul` returns them.  `abbrev_spec` stores sector
numbers in an `int` (`ToInt`), so that one of 2^31 or more is a negative sector;
the driver multiplies it by the size of a sector and sends 24 bits of the
product, of which the chip decodes its own address bits (`ath_spi_send_addr`).

### Recovery

`pc` follows `main_loop`.  The download ends in one of three ways:
complete (`filesize` set), given up with some blocks stored (`filesize`
untouched, the result ignored), or out of retries, which calls `do_bootm`
from within the timer handler.  A reset clears the environment and may or may
not keep RAM; a power failure loses RAM and tears what the chip was working on.
`do_bootm` checks no checksum, so a kernel that is not of one image either
fails to inflate (reset) or is jumped into (`crash`).  LEDs are output and left
out.  Sizes for `FLASH_SIZE` 8 and 16 are other values of `FwSectors`.

That a complete download is the whole file is what `FileTransfer` says; it is
proved for `TftpNet` under `PlainTransfer` and for `TftpLan` if block numbers do
not wrap.  The run `tftp_recovery_oack` shows a network on which it fails.

### Network loop and Ethernet layer

`Net` takes the other half of what `Tftp` leaves open.  Of TFTP it keeps the
request, its retransmission and the retry count; an answer stands for the whole
file.  `loop` is the position in `NetLoop`: `restart`, `rx` (eth_rx, then Control
C), `timer` (after ArpTimeoutCheck) and `switch`.  One tick passes per round of
the loop; `timer` and `arp` count the ticks since they were set, modulo `Word`,
as `get_timer` does with 32 bits, and the product of seconds and `CFG_HZ` is
taken modulo `Word` too.  Bringing up a device takes a second (`udelay` in the
driver), which both timers see.  `arp` is the one slot for a waiting frame, with
the source address the frame was built with.  `cfg` holds what does not change
during a command and is chosen once: the range of the clock word, the ARP tries,
`netretry`, recovery, the device the server is behind, devices without an address
and whether IP addresses are given.  A request for our own address is answered in
place and leaves no state behind, so it has no action.

The board's 520 MHz make `10 * CFG_HZ` overflow, while the two and five second
timeouts do not.  `CFG_HZ = 2` and a word of 17 keep that: ten seconds become 3
ticks, one and a half seconds (1.74 s on the board).  `SourceIsSender` depends
on it.  NetStartAgain leaves the frame in the ARP slot, moves on to another
device and waits ten seconds; if ARP asked again in that time through the new
device, the reply would send out a frame with the old device's address.
`ShortWait` says why it does not: the two seconds until TFTP gives up, one
second to bring up a device and the shortened ten seconds, 4.74 s together, are
over before ARP's five.  In the last round of the wait ARP may still ask, but
the restart follows in the same round and replaces the frame.

### Receive ring

`GmacRx` has one action per statement of `ath_gmac_recv` that reads or writes
something the engine also uses: the ownership bit, the packet count, the second
look at the bit, the search, the acknowledgement, the return of the descriptor
and the receiver's control register; init gives the descriptors to the engine
one by one (`CleanGive`), and the two register writes that then start it are one
step: a receiver that is off does not look at the first, and one that is on
already takes no notice of the second.  The engine stores a frame in the next
descriptor if it owns it, and otherwise drops the frame and switches the
receiver off.  Frames are numbered.  `faults`, chosen at the start from
`Worlds`, is what may happen: the handler called from recv may halt the device
and set it up again (`reentrant`: an error packet outside recovery leads to
NetStartAgain); init may find the link down (`link`); the code does not say
whether the packet count survives a halt (`count`).  Each property names the
faults it holds with.

A handler that sets the ring up again inside recv leaves recv with the rest of
its work to do on the new ring: it takes one off the count and gives a
descriptor back.  A frame that the engine stores in that descriptor just before
is lost and still counted, so that a later search goes once round an empty ring
and recv hands over an old buffer.  `FreshFrames` excepts exactly this take
(`FoundNone`), and only where there are faults.

With a count that survives a halt the search in recv goes once round an empty
ring; then `InOrder` and `AllTaken` fail.  Whether the device clears the count
is not visible in the repository, so this is no finding; the run checks what
holds all the same.  No frame is ever written through a descriptor without a
buffer because the MAC's receive bit is set only in `ath_gmac_clean_rx`.

### Environment

The store is an array of `ENV_SIZE` bytes.  Deleting moves the rest of the list
down in place or cuts it off, appending writes behind the last entry, and the
check for room counts as the code does.  A name may itself contain an equals
sign, as `envmatch` allows; then what follows the sign belongs to the value
(`Given`).  A call of setenv has one or more words behind the name, of which the
list holds all, a blank between each two (`Text`).  The loader keeps copies of
some variables elsewhere: `bi_enetaddr`, `bi_ip_addr`, `load_addr`, `BootFile`.
They are made from the first word alone, and `copied` is the text each was last
made from; the conversion of that text (to an address, a number, a file name
without quotes) is left out, since nothing is decided by it here.

`EnvMap` is the promise: a map from names to values and the count `used` of the
bytes its variables take.  The refinement reads the map with `getenv` and the
count off the place where the next definition would be appended, so `ListIsMap`
also says that no room is ever lost: a value is turned down exactly if it and
the other variables do not fit.  `used` starts as the sum over all variables and
is then kept up with the one that changes.

### Command interpreter

Three modules look at it from three sides.  `Console` keeps control: the stack of
`run_command` activations, the flag against nested `bootd`, the return values,
repetition and Control C, which a command may see at any time.  `Line` keeps the
text: the scan for separators, the state machine of `process_macros` (state
0 to 3), and the cut at blanks; `prior` is the byte before the buffer, which the scan
reads for its first character, and `Beyond` what lies behind a substituted line
that has no terminator.  Both take any value the build can produce.  `Readline`
keeps the row on the screen beside the buffer, with tabs and the three ways to
delete.

## Runs

| Run | Question | Bounds |
|---|---|---|
| `tftp_unordered` | Are acknowledged blocks stored, is success the whole file, is `filesize` right (a part of `IInv`, as are the types), is a timer always armed, does the client implement `FileTransfer`, over a network that may do anything? | 3 blocks, 2 starts, 2 server ports, 1 retry, recovery and not, all values of `netretry`; option ignored |
| `tftp_lan` | Does success mean the whole file when order is kept, with and without the option; does the download end? | 2 blocks of which the last is empty, 2 frames per direction |
| `flash` | Does every form of `erase` erase exactly what its help text says; does `cp` to a page boundary write exactly the source, and nothing else at any moment? | 3 sectors of 2 pages of 2 cells, all 18 addresses, lengths and sector numbers, copies of up to 5 cells, two commands |
| `recovery` | Only the firmware changes; only a whole matching file is flashed; it is flashed exactly; the board can always be repaired | 4 sectors, 4 files, 2 power failures |
| `net` | Does only the current device receive; does a frame leave the device whose address it carries; does ping end; does recovery end when ARP is never answered; is a server that stays found? | 2 devices, 2 ticks a second, 2 TFTP timeouts, 6 configurations: a clock that overflows and one that does not, server behind either device, 2 or 5 ARP tries, all values of `netretry`, recovery with and without IP address, a device without address |
| `gmac` | Is the ring a FIFO; is every stored frame handed over though the link may be down at set-up; what holds with re-entrance, a link that fails and a count that is kept? | 3 descriptors, 6 frames, 4 sets of faults |
| `env` | Is the list well formed, are the copies made from the values that are set, does the list implement a map in which protected variables are set once? | 13 bytes, names that are prefixes of one another or carry an equals sign, an empty word and a value of two words |
| `console` | Is `bootd` never nested, only a repeatable line repeated, nothing run after Control C; does `run` end at a failing command; does the prompt return? | lines of up to three commands, three variables that run one another, `run` of one and of two |
| `line_scan` | Does what is escaped or quoted arrive, uncut and unchanged? | every escaped or quoted text over a small alphabet, plain lines of mixed pieces with variables, quotes behind a `$` and a value that fills the buffer, buffer of 10, 3 arguments |
| `readline` | Does the screen show what will be entered, whatever was typed and erased? | buffer of 7, a prompt of 3, a letter, a blank and a tab |

Three blocks are enough for a first, a middle and a last one; two starts for
frames and servers of an earlier start to meet a later one; one retry for the
counter to be at both sides of its limit.  The flash commands have an address
space that wraps, addresses below, in and above the flash and every alignment.  Recovery
has a loader sector before and a configuration sector after the firmware, so
that one sector too many on either side shows, and two failures, so that a
recovery that was interrupted is interrupted again.  Two devices are what the
board has.  Three descriptors leave one being handed over, one full and one
empty, and the frames go round the ring twice.  The environment's
buffer holds up to three entries, so that the first, the last and one between
are deleted and the limit is met from both sides.  A tab stop after a prompt of
three leaves tabs of different widths in one line.

Two runs show a disagreement between the code and what is written in it:

| Run | What happens |
|---|---|
| `tftp_recovery_oack` | A duplicate OACK in recovery sends the client back to waiting for its first block.  The next block is not block 1; `NetStartAgain` returns at once in recovery; the block is not stored but `TftpBlock` is its number, and the timeout acknowledges it.  The image has a hole, its size is right, and no checksum is compared before it is flashed. |
| `flash_unaligned` | A copy that starts inside a page and spans several: the length of each turn is computed from the start of the copy, so a later turn crosses a page boundary and the chip wraps around.  Recovery copies to a sector boundary and is not affected. |

### Met while modelling

The models also contain the following, which no run is kept for.  The properties
above are stated so that they say what holds beside it.

| Where | What the code does |
|---|---|
| `tftp.c:251`, `:287` | Outside recovery a block that is not the first sets `NETLOOP_RESTART`; a last block in the same burst overwrites it with `NETLOOP_SUCCESS`, though "Starting again" was printed. |
| `tftp.c:225` | A repeated block 0 is "ignored" (`:262`) only after the wrap offset has been moved.  With 512 byte blocks this takes a file of more than 32 MiB. |
| `net.c:834` | Ten seconds in ticks of the board's clock overflow 32 bits: a ping gives up after 1.74 s, before the first ARP retry at 5 s, where `README:1442-1445` promises retries. |
| `eth.c:403` | `first_failed` and `NetRestartWrap` outlive a command; with `netretry` set to `once` the next command may fail with a device untried (`README:2540-2542`). |
| `cmd_flash.c:91` | A first sector of 2^31 or more is negative as an `int` and passes `first >= fp->sector_count`: `erase 1:4294967295` erases the last sector of the chip, where `:65-67` lists "a number out of range" as an error.  `EraseExact` excepts it. |
| `cmd_flash.c:114` | The comment says that `erase start end` works on the half-open range `<'start', 'end')`; the code includes `end`, as the help text has it ("from addr 'start' to addr 'end'").  `EraseExact` follows the help text. |
| `qca-eth-953x.c:130` | If recv finds the count above zero and no descriptor with a frame, it hands over the buffer it began with.  This happens after a handler set the ring up again and a frame came before `:155` gave the descriptor back, and if the count outlives a halt.  `FreshFrames` excepts it. |
| `qca-eth-953x.c:323` | `ath_gmac_clean_rx` leaves the ring alone when the link is down; NetLoop polls it all the same and finds frames of the command before (against the comment at `:314`).  `FreshFrames` is for a link that is up. |
| `qca-eth-953x.c:151` | After a handler has set the ring up again, recv still takes one off the count and moves `next_rx`: a frame that came meanwhile is stranded in descriptor 0 until the ring has gone round.  `AllTaken` excludes re-entrance. |
| `cmd_nvedit.c:288` | Deleting `ipaddr`, `loadaddr` or `bootfile` does not change the copy.  `CopyFollows` speaks of variables that are set. |
| `cmd_nvedit.c:335`, `:348`, `:362`, `:367` | The copies are made from `argv[2]` only: after `setenv bootfile a b` the list has `a b` and `BootFile` is `a`.  `CopyFollows` says that a copy is made from the value or its first word. |
| `cmd_nvedit.c:191` | The name `ethaddr=x` matches the entry `ethaddr` but is not recognised as protected.  The names of the run `env` include such a pair for an ordinary variable only. |
| `main.c:1168` | Control C in the first variable of `run a b` does not keep `b` from being run, nor the rest of the line.  `StopStops` excepts it. |
| `main.c:1009` | "Interrupted commands are always considered not repeatable": Control C in `a` stops `run a b` no more than the row above says, and if `b` succeeds the line can be repeated with the return key.  `RepeatsRepeatable` says nothing of it. |
| `main.c:945-958` | Behind a `$` that is not escaped `process_macros` does not look at a quote, and neither does it in a variable's name, while the scan for `;` counts both.  `a $';'b;c` is cut at the second `;` and its first piece ends inside a quote; `$'${x}'` is substituted although it is in quotes.  `PieceIsWhole` excepts such a quote. |
| `main.c:918` | When the output buffer is full `process_macros` goes no further, so that the quotes behind are not looked at.  `PieceIsWhole` excepts a full buffer. |
| `main.c:890` | A line with too many words is reported and run without the last ones, where `:1011` says it is not executed. |
| `main.c:875` | Of two blanks in a row in quoted text (`README:2608`) one is lost.  `QuotedArrives` is for words one blank apart. |

### Fairness

`TftpLan!LanFairSpec`: `NetLoop` polls for ever and the clock runs, so a timer that
stays armed fires (weak fairness of the client's timeouts), and `NetLoop` acts
on a verdict once the burst is over.  Nothing is assumed of server, network or
operator.  `Recovery!FairSpec`: the loader keeps executing (weak fairness of
`main_loop`'s steps and of the end of a download, which `tftp_lan` shows), and
the operator does not give up: the board is switched on again, the button is
held at some of infinitely many starts, and some of the downloads of a suitable
file complete (strong fairness).  `Repaired` is a statement about that operator:
no state exists that recovery does not lead out of.  `Net!FairSpec`: weak
fairness of the loop's own steps and of the clock; none of the network, the
server and the operator, except that `ServerFound` speaks of a world that has
settled, in which nothing is lost any more.  `RecoveryEnds` of `Net` is for
devices that have an address: without one recovery polls with no timer armed,
because NetStartAgain returns at once.  `GmacRx!FairSpec`: weak fairness of the
processor, which polls a device as long as it is current; none of the engine.
`Console!FairSpec`: weak fairness of the interpreter, none of the operator.
`PromptReturns` is for variables that do not `run` one another in a circle;
nothing in the code stops those that do.

## Theorems

TLC checks the instances above; TLAPS proves the following for every value of
the constants that satisfies the named assumptions.  Each is evaluated by TLC on
the runs of its module:

- `Tftp`: `FileAssumption`, `PortAssumption`, `OptionsAssumption`;
- `SpiFlash`, `FlashCmd`, `Recovery`: `GeometryAssumption`, `AddrAssumption`,
  `RecoveryAssumption`;
- `FlashConsole`: `ConsoleAssumption`: what is typed is a 32 bit number, RAM and
  flash share the address space, a sector has more than one cell;
- `Eth`, `Net`: `MacsAssumption`, `TimeAssumption`, `ConfigAssumption`: at least
  one device, a clock that runs, at least one ARP try;
- `GmacRx`, `Console`: `RingAssumption` and, in `Console`, an assumption of the
  name `ConsoleAssumption` too: the types of the constants;
- `Env`: `EnvAssumption`: names and words hold no NUL, the words behind the
  first come with their blank, the default environment fits, a followed or
  protected name has no equals sign; `DefaultAssumption`: the default environment
  is itself a list of definitions, with each variable
  in it at most once and nothing else;
- `Readline`: `ReadlineAssumption`: the prompt has a length and the buffer more
  than one byte;
- `Line`: `LineAssumption`: what it means that a text is written escaped or in
  quotes.  `Escapes` is the text with a backslash before each `$` and `;`, with
  no quote or backslash of its own; `Encloses` is a text in quotes whose words
  are apart by one space and no more than `CFG_MAXARGS`, since blanks are lost
  and words too many are left out.  A plain line is any sequence of characters.

`TftpProof` (about `TftpNet` and `TftpLan`)

- `TypeCorrect`, `TimerAlwaysArmed`: no further assumption.  The inductive
  invariant is `TypeInv`: while the timer is armed the counter is within its
  limit, so that one more timeout is still in range.
- `Invariance`, `SuccessMeansWholeFile`, `AcknowledgedIsStored`, `Refinement`:
  under `PlainTransfer`, a server that ignores the option and block numbers that
  do not wrap.  Success looks only at the length of one frame, so the invariant
  `IInv` has to carry the reason: a DATA frame of block *n* is in the network
  only if all blocks before *n* are in place (`NetInv`), because the server went
  on to *n* only after an acknowledgement of *n* - 1 (`ServerInv`), which the
  client sends only for blocks in place (`ClientInv`); and block *n* > 1 exists
  only for a port that has already acknowledged something, so a client that
  waits for its first block sees block 1.  The option and the wrap are exactly
  what breaks this; `tftp_recovery_oack` shows how.
- `LanInvariance`, `LanReportsWholeFile`: on one segment the server may accept
  the option; only the wrap is excluded (`SeqSize > FileBlocks`).  The danger is
  an OACK that reaches a client which has had a block: it would acknowledge that
  block as if it were the OACK's.  `LanInv` excludes it by the order of the
  frames alone: no OACK of a transfer is behind a DATA frame of the same
  transfer (`InOrder`), so the block that makes the client one with a transfer
  under way is in front of no OACK of it (`OackInv`), and a transfer that has
  sent a block sends no OACK again.  The rest is the argument of `IInv`, with
  `Underway` for the port in place of the acknowledgements seen in the network.

`RecoveryProof` (about `Recovery`)

- `RecoveryInvariance` and its consequences `OthersUntouched`,
  `FlashingIsJustified`, `FlashingIsExact`, `ErasedBeforeWritten`.  The proof
  goes through the address arithmetic: `ErasePlan` shows that
  `erase 0x9f020000 +3c0000` stands for the sectors of the firmware and no
  other, through rounding, sector search and the modulus; `PageInFirmware`
  shows that the length of every turn of `write_buff` is a page and that no turn
  wraps, because the firmware starts at a multiple of the page size;
  `BusyInFirmware` bounds what a power failure may tear; `DecisionIsSound`
  shows that product id and `filesize` together stand for a whole file.  The
  invariant ties `pc` to the loop the driver is in (`ControlInv`), says how far
  the erase has come (`EraseInv`) and what is written and still erased
  (`WriteInv`).

`FlashConsoleProof` (about `FlashConsole`)

- `ConsoleInvariance`, and from it `EraseIsExact`, `CopyIsConfined`,
  `AlignedCopyIsExact` and `CopyIsExact`.  The invariant `ConsoleInv` says how
  far the driver's loop has come and that the cells outside the command are as
  it found them.  `EraseIsExact` is the longer half: `PlanIsPromise` compares
  the sectors that `addr_spec` and `flash_fill_sect_ranges` compute, modulo
  `AddrMod`, with the range of the help text, for each form of the command, and
  the sectors that `abbrev_spec` leaves of any three numbers with those typed;
  `FirstIsInt`, a first sector below 2^31, is a condition of `EraseExact` itself.
  `CopyIsConfined` needs no alignment: a turn of `write_buff` that wraps around
  stays in the page it began in, and the length of a turn never exceeds what is left.  `CopyExact` does need it
  (`flash_unaligned` shows why); `CopyIsExact` assumes that all destinations are
  page boundaries, as the run `flash` has it, and `AlignedCopyIsExact` speaks of
  each copy to a page boundary among any others.

`GmacProof` (about `GmacRx`)

- `Invariant`, `BuffersAreSet`, `FramesAreFresh`, `TakenInOrder`,
  `RingImplementsFifo`, for every number of descriptors and frames.  Without
  faults `RunningInv` says that the descriptors from `next_rx` on hold the
  frames not yet handed over, consecutively, that the engine stands behind the
  last one and that the packet count is their number but for the frame in the
  handler; what recv has read of the ownership bit and the count stays true
  while the engine goes on, since the engine only adds frames.  `BuffersSet`
  holds with all faults, because until the first set-up the receiver is off and
  `ath_gmac_clean_rx` turns it on last; `FreshFrames` holds unless init is
  called with the link down.  `FreshInv` says that a descriptor which is not
  empty has a frame that came after the last set-up, of those given to the
  engine so far while init is at work, and that recv takes such a descriptor or
  has looked at all of them in vain (`FoundNone`); without faults `RunningInv`
  rules out the latter.

`ConsoleProof` (about `Console`, `Line` and `Readline`)

- `Invariance`, `BootdIsNotNested`, `StopIsObeyed`, `FailureEndsRun`,
  `RepeatedIsRepeatable`, for every set of lines and variables and any depth of
  the stack, circles of `run` included.  The invariant `InterpreterInv` says
  that every activation but the top one stands at the `run` or `bootd` that
  called the next (`StackInv`), that the flag against nested `bootd` is handed
  down from there on (`FlagInv`), that Control C has cut the line of the top
  activation (`StopInv`), that a failure sticks until the activation returns
  (`FailInv`), and what of the outermost line has been run while it still counts
  as repeatable (`RepeatInv`).
- `ScreenShowsTyped` (`Readline`), `PiecesAreWhole`, `EscapedTextArrives`,
  `QuotedTextArrives` (`Line`), for texts of any length and buffers of any size.
  These are inductions over a text.  `SetInduction` is their principle: a set
  of places that has the first and with each one the next has them all; it
  follows from the least element of the places left out.  With it a fold is
  shown to exist and to be a sequence of states, one per character
  (`ShowsImage`, `MacrosScan`, `JoinsGlues`), and so is the recursion of
  `DeletedTimes` and `parse_line` (`DeletesExists`, `ParsesExists`).
  The screen: whatever is erased, what is left is what the shorter text shows
  (`DeletedShows`), which for a TAB rests on the retyped line.  The pieces:
  behind any number of characters `process_macros` is in state 3 exactly if the
  scan for `;` has counted an odd number of quotes (`ScansAgree`), and so it is
  not where the piece ends; nothing is assumed of the `$` and the variables in it
  but that no quote is `Unseen` and that the output does not fill the buffer.
  The texts: `EscapedScan` and `EnclosedScan` follow
  `process_macros` through the line, and each word that `parse_line` cuts off
  joins up with those behind it (`NextWord`, `ParsedWhole`).  The hypothesis
  that `prior` is no backslash is part of `PieceIsWhole` and `QuotedArrives`.

`NetProof` (about `Net`)

- `Invariance`, `OneIsActive`, `FramesCarryTheirSender`, for every number of
  devices, every clock and word, every number of timeouts and tries and every
  set of configurations.  `OneActive` needs that `eth_init` ends on a device of
  the ring, which is shown by the least number of failed inits (`InitEnds`).
  `SourceIsSender` has its conditions in itself (`OnTime`: `ShortWait`, more
  than two ARP tries, addresses for all devices).  `FrameInv` says how the two
  timers go together: between two restarts the timer is that of the protocol
  and ARP's is no older (`ProtocolInv`), or it is the wait to start again, and
  ARP's is older by no more than TFTP's timeout, one tick and a second
  (`WaitInv`); `ArpInTime` adds this up.  Trying to prove it showed that the ten
  seconds being shorter than ARP's five, which an earlier `ShortWait` said, is
  not enough: a word of 15 or 16 in place of 17 gives a counterexample.

`EnvProof` (about `Env`)

- `EnvInvariance`, `ListStaysWellFormed`, `CopiesFollow`, for a store of any
  size and any names and values.  The invariant `EnvInv` gives the list its end,
  the first two NULs in a row, and speaks of the strings in front of it: each
  has its equals sign, each variable is defined at most once, and the definition
  of a followed one gives the text that its copy was made from, or that text and
  further words (`GivesFirst`).  The loops over the list
  are searches for a least address (`MinIs`), so `FoundEnd`, `FoundString` and
  `FoundDoubleNul` show first that they find exactly those strings and that end.
  `DeletedKeeps` then shows, for each of the three ways to delete, that a string
  of the new list is one of the old list, in its place or moved by the length of
  the deleted one; `AppendJoins` that the appended string is one more behind
  them, and `NewDefines` that it defines the part of its name before the equals
  sign and nothing else, which is why a name that begins another one is not
  mixed up with it.  `CopiesFollow` assumes `PlainlySet(Followed)`: a name such
  as `ipaddr=1` deletes and defines `ipaddr`, but setenv compares the whole name
  before it updates the copy.  `ListStaysWellFormed` does not need it.
- `ListImplementsMap`: the list implements `EnvMap`, `ListIsMap`, step by step.
  It needs the other direction too: every string but the deleted one is still
  there (`DeleteMoveLeaves`, `LeftDefined`) and the appended one is found with
  its value (`NewDefined`), so that `getenv` reads every other variable as before
  (`ReadsSame`); and the list shrinks and grows by exactly what the string takes
  (`RoomFreed`), so that the test for room is the one of the map (`FitsIf`).
  Whether a variable may be set is the map's own test (`MayChangeIf`) only
  under `PlainlySet(Protected)`: `ethaddr=...` as a name passes by the set-once
  test, as the table above says.

Only model-checked: the liveness properties (`RecoveryEnds`, `EndsOrRestarts`,
`Repaired`, `ServerFound`, `PingEnds`, `AllTaken`, `Restarted`,
`PromptReturns`), which need fairness.

## Not modelled

- `NetReceive`'s header checks: a frame that fails one changes nothing.
- `ath_gmac_send`: it fills one descriptor and waits for it, so that there is
  never a second frame under way.
- In `setenv`: console redirection and the baud rate; what becomes of the text of
  a copy (the conversion to addresses and numbers, `copy_filename`'s quotes and
  its limit); the addresses of the Ethernet devices that `eth_set_enetaddr` sets
  for `ethaddr` and `eth<n>addr` (`cmd_nvedit.c:275-284`, also on deletion);
  in the console: boot retry time and auto completion, which are not compiled in.
- BOOTP and RARP (compiled out with `COMPRESSED_UBOOT`), DHCP, NFS and SNTP (not
  configured): no command reaches them.
- Memory commands that do not touch the flash.
- The allocator and LZMA (vendored), the serial driver, PHY and board
  initialisation (registers only), the compressed start-up stub (runs once).
- The rest of the tree: other processors, other boards, drivers and tools that
  are not part of this build.  It is most of the repository's lines.

## What is left

Models are in place for every part of the build whose control can be wrong, and
every safety property and refinement of them that holds is proved.  The liveness
properties rest on the instances checked.
