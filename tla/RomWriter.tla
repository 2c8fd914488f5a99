----------------------------- MODULE RomWriter ------------------------------
(***************************************************************************)
(* Writing a ROM to flash while it is downloaded (rboot-api.c).  Data comes *)
(* in chunks of any length; flash is erased by sectors and written by      *)
(* words.  What is left of a chunk after its last whole word is kept for   *)
(* the next.  A download that fails may be followed by another one into    *)
(* the same slot.                                                          *)
(***************************************************************************)
EXTENDS Integers, Sequences

CONSTANTS
    SectorSize,     \* bytes of a flash sector
    Word,           \* bytes of the smallest write
    Sectors,        \* number of sectors
    Start,          \* where the slot begins
    MaxLength,      \* bytes of the largest ROM that is tried
    MaxChunk,       \* bytes of the largest chunk
    Downloads       \* how often a download is started

\* The boot loader is in sector 0 (the last sector of no bytes at address 0
\* would be that of address 2^32 - 1), and a chunk with the rest of the last
\* one has a length of 16 bits.
WriterAssumption ==
    /\ {SectorSize, Word, Sectors, MaxLength, MaxChunk, Downloads} \subseteq Nat \ {0}
    /\ SectorSize % Word = 0
    /\ Start \in Nat \ {0} /\ Start % SectorSize = 0
    /\ Start + MaxLength + Word <= Sectors * SectorSize
    /\ MaxChunk + Word <= 65536

VARIABLES
    flash,          \* what each byte of flash holds
    download,       \* the number of the download
    received,       \* how many bytes of it have been handed over
    status,         \* rboot_write_status
    outcome         \* "writing", or how the download came to its end

vars == <<flash, download, received, status, outcome>>

Address == 0 .. Sectors * SectorSize - 1

(* A byte of flash: not touched yet, erased (0xff), written over without an *)
(* erasure, or byte i of a download.                                       *)
Old == -1
Erased == -2
Garbled == -3
Byte(d, i) == 1000 * d + i

Status == [start_addr : Address, last_sector_erased : -1 .. Sectors - 1, extra_bytes : Seq(Int)]

TypeOK ==
    /\ flash \in [Address -> Int]
    /\ download \in 1 .. Downloads
    /\ received \in 0 .. MaxLength
    /\ status \in Status /\ Len(status.extra_bytes) < Word
    /\ outcome \in {"writing", "failed", "ended"}

rboot_write_init(addr) ==
    [start_addr |-> addr,
     last_sector_erased |-> addr \div SectorSize - 1,
     extra_bytes |-> <<>>]

Init ==
    /\ flash = [a \in Address |-> Old]
    /\ download = 1
    /\ received = 0
    /\ status = rboot_write_init(Start)
    /\ outcome = "writing"

-----------------------------------------------------------------------------

\* spi_flash_erase_sector on each sector of the set.
Erase(f, sectors) ==
    [a \in Address |-> IF a \div SectorSize \in sectors THEN Erased ELSE f[a]]

\* spi_flash_write: a flash can clear bits only.
Write(f, addr, bytes) ==
    [a \in Address |->
        IF a \in addr .. addr + Len(bytes) - 1
        THEN IF f[a] = Erased THEN bytes[a - addr + 1] ELSE Garbled
        ELSE f[a]]

\* Mutated: with no whole word in the buffer, or one, all of it is kept.
RestOrAll(buffer) ==
    IF Len(buffer) > Word THEN SubSeq(buffer, Len(buffer) - (Len(buffer) % Word) + 1, Len(buffer))
    ELSE buffer

\* The whole words of a buffer, and the rest.
Whole(buffer) == SubSeq(buffer, 1, Len(buffer) - (Len(buffer) % Word))
Rest(buffer) == SubSeq(buffer, Len(buffer) - (Len(buffer) % Word) + 1, Len(buffer))

\* The sector of the last byte to be written.
LastSector(addr, len) == (addr + len - 1) \div SectorSize

\* Mutated: a chunk's rest takes the place of the one before.
BufferOfChunk(extra, data) == IF Len(data) < Word THEN data ELSE extra \o data

\* What rboot_write_flash writes from: the rest of the last chunk, then this
\* one.
Buffer(extra, data) == extra \o data

\* rboot_write_flash: erases the sectors the data reaches and that have not
\* been erased for this download, then writes the whole words.  Without
\* memory nothing is done; with a write that fails, the address stays.  after
\* is what the caller goes on to when it returns true.
rboot_write_flash(data, after) ==
    IF data = <<>>
    THEN outcome' = after /\ UNCHANGED <<flash, status>>
    ELSE LET buffer == Buffer(status.extra_bytes, data)
             whole == Whole(buffer)
             last == LastSector(status.start_addr, Len(whole))
             erased == Erase(flash, status.last_sector_erased + 1 .. last)
             kept == [status EXCEPT
                        !.extra_bytes = Rest(buffer),
                        !.last_sector_erased = IF last > @ THEN last ELSE @]
         IN  \/ /\ flash' = Write(erased, status.start_addr, whole)
                /\ status' = [kept EXCEPT !.start_addr = @ + Len(whole)]
                /\ outcome' = after
             \/ /\ flash' = erased
                /\ status' = kept
                /\ outcome' = "failed"
             \/ /\ outcome' = "failed"
                /\ UNCHANGED <<flash, status>>

Chunk(n) == [i \in 1 .. n |-> Byte(download, received + i)]

\* upgrade_recvcb hands a chunk over.
Receive(n) ==
    /\ outcome = "writing"
    /\ received + n <= MaxLength
    /\ received' = received + n
    /\ rboot_write_flash(Chunk(n), "writing")
    /\ UNCHANGED download

\* extra_bytes filled up with 0xff.
Padded(extra) == extra \o [i \in 1 .. Word - Len(extra) |-> Erased]

\* rboot_write_end: a word made of the rest goes through rboot_write_flash,
\* which puts the rest, still counted in extra_count, before it: the padding
\* that reaches flash is the rest once more.
rboot_write_end ==
    /\ outcome = "writing"
    /\ IF status.extra_bytes = <<>>
       THEN outcome' = "ended" /\ UNCHANGED <<flash, status>>
       ELSE rboot_write_flash(Padded(status.extra_bytes), "ended")
    /\ UNCHANGED <<download, received>>

\* Another download into the slot, after this one has come to an end.
Again ==
    /\ outcome # "writing"
    /\ download < Downloads
    /\ download' = download + 1
    /\ received' = 0
    /\ status' = rboot_write_init(Start)
    /\ outcome' = "writing"
    /\ UNCHANGED flash

Next ==
    \/ \E n \in 0 .. MaxChunk : Receive(n)
    \/ rboot_write_end
    \/ Again

Spec == Init /\ [][Next]_vars

-----------------------------------------------------------------------------
(* Properties *)

\* What has been handed over is in flash, in order, up to the last whole word,
\* however it was cut into chunks and whatever an earlier download left
\* (rboot-api.c:131-160).
WrittenInOrder ==
    outcome = "writing" =>
        \A i \in 1 .. received - Len(status.extra_bytes) :
            flash[Start + i - 1] = Byte(download, i)

\* After rboot_write_end the last bytes are there as well (rboot-api.c:100).
CompleteAtEnd ==
    outcome = "ended" =>
        \A i \in 1 .. received : flash[Start + i - 1] = Byte(download, i)

\* No byte is lost or kept twice between two chunks, even when a chunk does not
\* fill a word: address and rest account for all that was handed over.
NothingLost ==
    outcome = "writing" =>
        /\ status.start_addr + Len(status.extra_bytes) = Start + received
        /\ \A i \in 1 .. Len(status.extra_bytes) :
              status.extra_bytes[i] =
                Byte(download, received - Len(status.extra_bytes) + i)

\* Only the sectors that data has reached are erased: what lies before the slot
\* or after the ROM, the other slot among it, stays (rboot-api.c:149-153).
OthersUntouched ==
    \A a \in Address :
        \/ a < Start
        \/ a \div SectorSize > (Start + MaxLength - 1) \div SectorSize
        => flash[a] = Old

\* Words are written where words begin, the sectors up to the one that holds
\* the byte before the address have been erased, and what they hold from the
\* address on is as the erasure left it.
ErasedAhead ==
    outcome = "writing" =>
        /\ status.start_addr % Word = 0
        /\ status.last_sector_erased = LastSector(status.start_addr, 0)
        /\ \A a \in Address :
             a >= status.start_addr /\ a \div SectorSize <= status.last_sector_erased
                => flash[a] = Erased

\* Inductive: what the properties above follow from.
WriterInv ==
    /\ TypeOK /\ ErasedAhead
    /\ WrittenInOrder /\ NothingLost /\ CompleteAtEnd /\ OthersUntouched

=============================================================================
