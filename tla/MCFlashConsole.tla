--------------------------- MODULE MCFlashConsole ---------------------------
(* FlashConsole with the addresses and lengths a command line may name.    *)
EXTENDS FlashConsole

AllAddresses == 0..(AddrMod - 1)
AllLengths == 0..(AddrMod - 1)
FlashAddresses == CFG_FLASH_BASE..b_end
PageAddresses == {a \in FlashAddresses : (a - CFG_FLASH_BASE) % PageSize = 0}
SomeBanks == {0, 1, 2, AddrMod - 1}
Near == {CFG_FLASH_BASE, CFG_FLASH_BASE + SectorSize}
=============================================================================
