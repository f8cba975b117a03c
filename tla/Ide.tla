-------------------------------- MODULE Ide --------------------------------
(***************************************************************************)
(* Files, bytes and sectors: FileManagement of kernel/fm.c and the driver  *)
(* of kernel/drivers/ide.c with its cache of sectors, over mailboxes as    *)
(* message.c implements them (module Boxes).  DiskRead has the same two  *)
(* servers without data, over the scheduler and the interrupts; here the   *)
(* drive, the write backs of the timer and the callers interleave freely.  *)
(*                                                                         *)
(* A buffer of a caller is filled while its request is served and does not *)
(* change under a write, since the caller waits in receive.                *)
(***************************************************************************)
EXTENDS Integers, Sequences, FiniteSets

CONSTANTS
    Callers,        \* processes that call FM: PM, init, the tests
    Requests,       \* what they ask
    KernelSize, FileSize, SectorSize,
    NSlots,         \* NR_SEC_CACHE
    Contents,       \* the bytes on the disk at boot, by address
    MaxRequests,    \* bound on the requests of a run
    MaxWriteBacks   \* bound on the write backs that wait in IDE's mailbox

Slots == 0 .. NSlots - 1
Addresses == DOMAIN Contents
Sectors == {a \div SectorSize : a \in Addresses}

\* The messages that carry no request.
Ready == [src |-> "HARD", type |-> "IDE_READY"]
WriteBack == [src |-> "HARD", type |-> "IDE_WRITEBACK"]

Place(r) == KernelSize + r.offset + (IF r.op = "file" THEN (r.file - 1) * FileSize ELSE 0)

\* A file begins at its number; a read or a write names an address itself.
RequestRecord ==
    [op : {"file", "read", "write"}, file : Nat, offset : Nat, length : Nat, data : Nat]

ASSUME DiskAssumption ==
    /\ {KernelSize, FileSize, SectorSize, NSlots} \subseteq Nat \ {0}
    /\ {MaxRequests, MaxWriteBacks} \subseteq Nat
    /\ Requests \subseteq RequestRecord
    /\ Contents \in [Addresses -> Nat]
    /\ IsFiniteSet(Addresses) /\ Addresses # {}
    /\ Addresses = 0 .. Cardinality(Addresses) - 1
    /\ Cardinality(Addresses) % SectorSize = 0
    /\ Callers \cap {"FM", "IDE", "HARD", "ANY"} = {}
    /\ \A r \in Requests : Place(r) .. Place(r) + r.length - 1 \subseteq Addresses

VARIABLES
    box,            \* the mailboxes
    asked,          \* how many requests were made
    want,           \* want[c]: the request of c that is not answered, or Nobody
    buffer,         \* buffer[c]: the bytes that were copied to c
    fm,             \* FileManagement's m, while it works on it
    at, m, i,       \* ide_driver_thread: where it is, its m, its counter
    cache,          \* the slots of the cache
    drive,          \* the command the drive works on
    disk,           \* the bytes on it
    halt            \* "none", or the panic

vars == <<box, asked, want, buffer, fm, at, m, i, cache, drive, disk, halt>>

Nobody == [src |-> "none", type |-> "none"]

INSTANCE Boxes WITH Anyone <- "ANY"

\* Types; a slot keeps the sectors that hash to it.
Content == [0 .. SectorSize - 1 -> Nat]
NoCommand == [op |-> "idle"]

IdeTypeOK ==
    /\ asked \in 0 .. MaxRequests
    /\ want \in [Callers -> Requests \cup {Nobody}]
    /\ at \in {"top", "byte", "evict", "fetch", "scan", "clean"}
    /\ i \in Nat
    /\ cache \in [Slots -> [sector : Sectors, used : BOOLEAN, dirty : BOOLEAN,
                            content : Content]]
    /\ \A s \in Slots : cache[s].used => cache[s].sector % NSlots = s
    /\ disk \in [Addresses -> Nat]
    /\ halt \in {"none", "leak", "notready"}

EmptySlot == [sector |-> 0, used |-> FALSE, dirty |-> FALSE,
              content |-> [b \in 0 .. SectorSize - 1 |-> 0]]

IdeInit ==
    /\ box = [p \in Callers \cup {"FM", "IDE"} |-> <<>>]
    /\ asked = 0
    /\ want = [c \in Callers |-> Nobody]
    /\ buffer = [c \in Callers |-> <<>>]
    /\ fm = [at |-> "top", m |-> Nobody]
    /\ at = "top" /\ m = Nobody /\ i = 0
    /\ cache = [s \in Slots |-> EmptySlot]
    /\ drive = NoCommand
    /\ disk = Contents
    /\ halt = "none"
-----------------------------------------------------------------------------
(***************************************************************************)
(* A caller: send(FM, &m); receive(FM, &m).                                *)
(***************************************************************************)
Call(c, r) ==
    /\ want[c] = Nobody /\ asked < MaxRequests
    /\ want' = [want EXCEPT ![c] = r]
    /\ buffer' = [buffer EXCEPT ![c] = <<>>]
    /\ asked' = asked + 1
    /\ Deliver("FM", [src |-> c, io |-> r])
    /\ UNCHANGED <<fm, at, m, i, cache, drive, disk, halt>>

Resume(c) ==
    /\ \E k \in Oldest(c, "FM") : Collect(c, k)
    /\ want' = [want EXCEPT ![c] = Nobody]
    /\ UNCHANGED <<asked, buffer, fm, at, m, i, cache, drive, disk, halt>>

(***************************************************************************)
(* FileManagement with do_read_file, do_read and do_write: one request is  *)
(* served at a time; buf stays the caller's.                               *)
(***************************************************************************)
fmUnchanged == UNCHANGED <<asked, want, buffer, at, m, i, cache, drive, disk, halt>>

FmReceive ==
    /\ fm.at = "top"
    /\ \E k \in Oldest("FM", "ANY") :
          /\ Collect("FM", k)
          /\ fm' = [at |-> "got", m |-> box["FM"][k]]
    /\ fmUnchanged

DevIo(r) == [op |-> IF r.op = "write" THEN "write" ELSE "read",
             offset |-> Place(r), length |-> r.length]

FmSend ==
    /\ fm.at = "got"
    /\ Deliver("IDE", [src |-> "FM", io |-> DevIo(fm.m.io), buf |-> fm.m.src])
    /\ fm' = [fm EXCEPT !.at = "asked"]
    /\ fmUnchanged

\* A fault of Answers: the request of another caller is taken for the answer.
AnswersAny == Oldest("FM", "ANY")

Answers == Oldest("FM", "IDE")

FmAnswered ==
    /\ fm.at = "asked"
    /\ \E k \in Answers : Collect("FM", k)
    /\ fm' = [fm EXCEPT !.at = "answered"]
    /\ fmUnchanged

FmReply ==
    /\ fm.at = "answered"
    /\ Deliver(fm.m.src, [src |-> "FM", type |-> "answer"])
    /\ fm' = [at |-> "top", m |-> Nobody]
    /\ fmUnchanged

FileManagement == FmReceive \/ FmSend \/ FmAnswered \/ FmReply
-----------------------------------------------------------------------------
(***************************************************************************)
(* ide_driver_thread.                                                      *)
(***************************************************************************)
Io == m.io
Address == Io.offset + i
Sector == Address \div SectorSize

Slot == Sector % NSlots

\* receive(ANY, &m) and the choice by m.src and m.type.
IdeReceive ==
    /\ at = "top"
    /\ \E k \in Oldest("IDE", "ANY") : Collect("IDE", k) /\ m' = box["IDE"][k]
    /\ i' = 0
    /\ at' = CASE m' = WriteBack -> "scan" [] m' = Ready -> "top" [] OTHER -> "byte"
    /\ halt' = IF m' = Ready THEN "leak" ELSE "none"
    /\ UNCHANGED <<asked, want, buffer, fm, cache, drive, disk>>

\* ide_prepare, and the command; a write takes its data with it.
Issue(command, next) ==
    IF drive = NoCommand
    THEN drive' = command /\ at' = next /\ UNCHANGED halt
    ELSE halt' = "notready" /\ UNCHANGED <<drive, at>>

WriteSlot(s) == [op |-> "write", sector |-> cache[s].sector, content |-> cache[s].content]

\* A fault of Hit: the sector is not compared.
HitAny(s, sector) == cache[s].used

\* cache_fetch
Hit(s, sector) == cache[s].used /\ cache[s].sector = sector

MustEvict(s) == cache[s].used /\ cache[s].dirty

FetchSector ==
    /\ at = "byte" /\ i < Io.length /\ ~Hit(Slot, Sector)
    /\ IF MustEvict(Slot)
       THEN Issue(WriteSlot(Slot), "evict")
       ELSE Issue([op |-> "read", sector |-> Sector], "fetch")
    /\ UNCHANGED <<box, asked, want, buffer, fm, m, i, cache, disk>>

\* A fault of GetReady: any interrupt ends the loop.
GetReadyOnce(ready, again) == \E k \in Oldest("IDE", "HARD") : Collect("IDE", k) /\ ready

\* do { receive(MSG_HARD_INTR, &m); } while (m.type != IDE_READY): a write
\* back that comes here is dropped.
GetReady(ready, again) ==
    \E k \in Oldest("IDE", "HARD") :
       Collect("IDE", k) /\ IF box["IDE"][k] = Ready THEN ready ELSE again

\* The end of do_write in cache_fetch, and the read that follows it.
Evicted ==
    /\ at = "evict"
    /\ GetReady(Issue([op |-> "read", sector |-> Sector], "fetch"),
                UNCHANGED <<drive, at, halt>>)
    /\ UNCHANGED <<asked, want, buffer, fm, m, i, cache, disk>>

Filled(sector) ==
    [sector |-> sector, used |-> TRUE, dirty |-> FALSE,
     content |-> [b \in 0 .. SectorSize - 1 |-> disk[sector * SectorSize + b]]]

\* do_read has its sector.
Fetched ==
    /\ at = "fetch"
    /\ GetReady(cache' = [cache EXCEPT ![Slot] = Filled(Sector)] /\ at' = "byte",
                UNCHANGED <<cache, at>>)
    /\ UNCHANGED <<asked, want, buffer, fm, m, i, drive, disk, halt>>

ReadByte ==
    /\ at = "byte" /\ i < Io.length /\ Io.op = "read" /\ Hit(Slot, Sector)
    /\ buffer' = [buffer EXCEPT ![m.buf] =
          Append(@, cache[Slot].content[Address % SectorSize])]
    /\ i' = i + 1
    /\ UNCHANGED <<box, asked, want, fm, at, m, cache, drive, disk, halt>>

\* A fault of Written: the slot is not made dirty.
WrittenClean(slot, b, data) == [slot EXCEPT !.content[b] = data]

Written(slot, b, data) == [slot EXCEPT !.content[b] = data, !.dirty = TRUE]

WriteByte ==
    /\ at = "byte" /\ i < Io.length /\ Io.op = "write" /\ Hit(Slot, Sector)
    /\ cache' = [cache EXCEPT ![Slot] = Written(@, Address % SectorSize, want[m.buf].data)]
    /\ i' = i + 1
    /\ UNCHANGED <<box, asked, want, buffer, fm, at, m, drive, disk, halt>>

\* The request is done: send(m.src, &m).
IdeReply ==
    /\ at = "byte" /\ i = Io.length
    /\ Deliver(m.src, [src |-> "IDE", type |-> "answer"])
    /\ at' = "top" /\ m' = Nobody /\ i' = 0
    /\ UNCHANGED <<asked, want, buffer, fm, cache, drive, disk, halt>>

(***************************************************************************)
(* IDE_WRITEBACK: every dirty slot is written, and clean when it is.       *)
(***************************************************************************)
\* A fault of AllScanned: the last slot is left out.
AllScannedButLast == i >= NSlots - 1

AllScanned == i = NSlots

ScanSlot ==
    /\ at = "scan" /\ ~AllScanned
    /\ IF cache[i].dirty
       THEN Issue(WriteSlot(i), "clean") /\ UNCHANGED i
       ELSE i' = i + 1 /\ UNCHANGED <<drive, at, halt>>
    /\ UNCHANGED <<box, asked, want, buffer, fm, m, cache, disk>>

SlotWritten ==
    /\ at = "clean"
    /\ GetReady(/\ cache' = [cache EXCEPT ![i].dirty = FALSE]
                /\ i' = i + 1 /\ at' = "scan",
                UNCHANGED <<cache, i, at>>)
    /\ UNCHANGED <<asked, want, buffer, fm, m, drive, disk, halt>>

ScanEnds ==
    /\ at = "scan" /\ AllScanned
    /\ at' = "top" /\ m' = Nobody /\ i' = 0
    /\ UNCHANGED <<box, asked, want, buffer, fm, cache, drive, disk, halt>>

IdeDriver ==
    \/ IdeReceive \/ FetchSector \/ Evicted \/ Fetched \/ ReadByte \/ WriteByte
    \/ IdeReply \/ ScanSlot \/ SlotWritten \/ ScanEnds
-----------------------------------------------------------------------------
(***************************************************************************)
(* The drive ends its command, and ide_intr; time_intr every so often.     *)
(***************************************************************************)
IdeIntr ==
    /\ drive # NoCommand
    /\ disk' = [a \in Addresses |->
          IF drive.op = "write" /\ a \div SectorSize = drive.sector
          THEN drive.content[a % SectorSize] ELSE disk[a]]
    /\ drive' = NoCommand
    /\ Deliver("IDE", Ready)
    /\ UNCHANGED <<asked, want, buffer, fm, at, m, i, cache, halt>>

TimeIntr ==
    /\ Len(SelectSeq(box["IDE"], LAMBDA x : x = WriteBack)) < MaxWriteBacks
    /\ Deliver("IDE", WriteBack)
    /\ UNCHANGED <<asked, want, buffer, fm, at, m, i, cache, drive, disk, halt>>

IdeNext ==
    /\ halt = "none"
    /\ \/ FileManagement \/ IdeDriver \/ IdeIntr \/ TimeIntr
       \/ \E c \in Callers : Resume(c) \/ \E r \in Requests : Call(c, r)

(***************************************************************************)
(* The processes that are not blocked go on, the drive ends every command, *)
(* and the timer does not stop.  Nobody has to make a request.             *)
(***************************************************************************)
IdeFairness ==
    /\ WF_vars(halt = "none" /\ FileManagement)
    /\ WF_vars(halt = "none" /\ IdeDriver)
    /\ WF_vars(halt = "none" /\ IdeIntr)
    /\ WF_vars(halt = "none" /\ TimeIntr)
    /\ \A c \in Callers : WF_vars(halt = "none" /\ Resume(c))

IdeSpec == IdeInit /\ [][IdeNext]_vars /\ IdeFairness
-----------------------------------------------------------------------------
(***************************************************************************)
(* The driver's two panics: an interrupt nobody waits for, and a command   *)
(* for a drive that has not finished the last one.                         *)
(***************************************************************************)
DriveInStep == halt = "none"

(***************************************************************************)
(* What the cache holds beside the disk is marked so: a clean slot has the *)
(* bytes of its sector, also while the sectors of others are evicted.      *)
(***************************************************************************)
CleanIsOnDisk ==
    \A s \in Slots : cache[s].used /\ ~cache[s].dirty =>
       \A b \in 0 .. SectorSize - 1 :
          cache[s].content[b] = disk[cache[s].sector * SectorSize + b]

(***************************************************************************)
(* The byte at an address: what the cache has, or the disk; and what it    *)
(* will be when the request IDE works on is done.                          *)
(***************************************************************************)
Cached(a) == Hit((a \div SectorSize) % NSlots, a \div SectorSize)

ByteAt(a) ==
    IF Cached(a) THEN cache[(a \div SectorSize) % NSlots].content[a % SectorSize] ELSE disk[a]

Serving == at \in {"byte", "evict", "fetch"}

Rest == i .. Io.length - 1

FinalByte(a) ==
    IF Serving /\ Io.op = "write" /\ a - Io.offset \in Rest THEN want[m.buf].data ELSE ByteAt(a)

RestBytes == [k \in 1 .. Io.length - i |-> ByteAt(Io.offset + i + k - 1)]

FinalAnswer(c) ==
    IF Serving /\ m.buf = c /\ Io.op = "read" THEN buffer[c] \o RestBytes ELSE buffer[c]

(***************************************************************************)
(* Why it works, as an inductive invariant.  What is in a mailbox:         *)
(***************************************************************************)
FmMessage == [src : Callers, io : Requests]
From(c) == [src : {c}, io : Requests]
Device(x) == [src |-> "FM", io |-> DevIo(x.io), buf |-> x.src]
DeviceRequests == {Device(x) : x \in FmMessage}
Answer(p) == [src |-> p, type |-> "answer"]

Has(s, S) == \E k \in 1 .. Len(s) : s[k] \in S
Single(s, S) == \A j, k \in 1 .. Len(s) : s[j] \in S /\ s[k] \in S => j = k

BoxesTyped ==
    /\ DOMAIN box = Callers \cup {"FM", "IDE"}
    /\ box["FM"] \in Seq(FmMessage \cup {Answer("IDE")})
    /\ box["IDE"] \in Seq(DeviceRequests \cup {Ready, WriteBack})
    /\ \A c \in Callers : box[c] \in {<<>>, <<Answer("FM")>>}

\* What FM asks of IDE is in IDE's mailbox, or IDE works on it, or the answer
\* is in FM's; in between FM waits.
Sent == Has(box["IDE"], DeviceRequests)
Done == Has(box["FM"], {Answer("IDE")})

OneInFlight ==
    /\ fm \in [at : {"top", "got", "asked", "answered"}, m : FmMessage \cup {Nobody}]
    /\ Single(box["IDE"], DeviceRequests) /\ Single(box["FM"], {Answer("IDE")})
    /\ Sent \/ Serving \/ Done => fm.at = "asked"
    /\ ~(Sent /\ Serving) /\ ~(Sent /\ Done) /\ ~(Serving /\ Done)
    /\ \A y \in DeviceRequests : Has(box["IDE"], {y}) => y = Device(fm.m)
    /\ Serving => m = Device(fm.m)

\* A request of c is on its way once, while c waits, and is what c wants.
OnItsWay(c) == Has(box["FM"], From(c)) \/ (fm.at # "top" /\ fm.m.src = c)

OwnRequests ==
    /\ fm.at # "top" => fm.m \in FmMessage /\ want[fm.m.src] = fm.m.io
                        /\ ~Has(box["FM"], From(fm.m.src))
    /\ \A x \in FmMessage : Has(box["FM"], {x}) => want[x.src] = x.io
    /\ \A c \in Callers :
          /\ Single(box["FM"], From(c))
          /\ OnItsWay(c) \/ want[c] = Nobody => box[c] = <<>>

\* The drive works only while the driver waits for it, on what the driver
\* waits for, and its interrupt is awaited.
Awaiting == at \in {"evict", "fetch", "clean"}

DriveMatches ==
    /\ Single(box["IDE"], {Ready})
    /\ drive # NoCommand \/ Has(box["IDE"], {Ready}) => Awaiting
    /\ ~(drive # NoCommand /\ Has(box["IDE"], {Ready}))
    /\ drive # NoCommand =>
          /\ at = "evict" => drive = WriteSlot(Slot)
          /\ at = "fetch" => drive.op = "read"
          /\ at = "clean" => drive = WriteSlot(i)

\* What the driver does to a slot waits until the disk has what was in it.
OnDisk(s) ==
    \A b \in 0 .. SectorSize - 1 :
       cache[s].content[b] = disk[cache[s].sector * SectorSize + b]

CacheMatches ==
    /\ \A s \in Slots : cache[s].dirty => cache[s].used
    /\ Serving => i <= Io.length
    /\ at \in {"evict", "fetch"} => i < Io.length
    /\ at = "evict" => MustEvict(Slot)
    /\ at = "scan" => i <= NSlots
    /\ at = "clean" => /\ i \in Slots /\ MustEvict(i)
                       /\ Has(box["IDE"], {Ready}) => OnDisk(i)

ServersInv ==
    /\ IdeTypeOK /\ BoxesTyped /\ OneInFlight /\ OwnRequests
    /\ DriveMatches /\ CacheMatches /\ DriveInStep /\ CleanIsOnDisk

\* IDE has not begun with the request of c.
For(c) == {Device(x) : x \in From(c)}

Waiting(c) ==
    \/ Has(box["FM"], From(c))
    \/ fm.at = "got" /\ fm.m.src = c
    \/ Has(box["IDE"], For(c))

\* Nothing was read for a request that waits.
BuffersFresh ==
    /\ buffer \in [Callers -> Seq(Nat)]
    /\ \A c \in Callers : Waiting(c) => buffer[c] = <<>>

\* The slot that will be filled again has nothing that the disk does not have.
EvictedIsOnDisk ==
    /\ at = "evict" /\ Has(box["IDE"], {Ready}) => OnDisk(Slot)
    /\ at = "fetch" /\ cache[Slot].used => OnDisk(Slot)

IdeInv == ServersInv /\ BuffersFresh /\ EvictedIsOnDisk

(***************************************************************************)
(* FM and IDE implement FlatDisk: every caller has the answer to its own   *)
(* request, and a request is atomic although its bytes and sectors are     *)
(* moved one by one, between the evictions and write backs of others.      *)
(***************************************************************************)
Phase(c) == CASE want[c] = Nobody -> "idle"
              [] want[c] # Nobody /\ Waiting(c) -> "asked"
              [] OTHER -> "done"

Flat == INSTANCE FlatDisk WITH
    byte <- [a \in Addresses |-> FinalByte(a)],
    phase <- [c \in Callers |-> Phase(c)],
    request <- want,
    answer <- [c \in Callers |-> FinalAnswer(c)]

ImplementsFlatDisk == Flat!FlatSpec

\* Its safety part.
FlatSafety == Flat!FlatInit /\ [][Flat!FlatNext]_(Flat!flatVars)

(***************************************************************************)
(* What is written reaches the disk: when no more requests come, the disk  *)
(* has every byte that a read would give, although write backs that come   *)
(* during a command are dropped.                                           *)
(***************************************************************************)
Durable == <>[](\A a \in Addresses : disk[a] = ByteAt(a))

(***************************************************************************)
(* Exec_uthread: "load program from disk to memory".  What PM reads when   *)
(* it executes a file is of that file.                                     *)
(***************************************************************************)
FileByte(f, offset) == Contents[KernelSize + (f - 1) * FileSize + offset]

LoadsOwnFile ==
    \A c \in Callers : \A k \in 1 .. Len(buffer[c]) :
       want[c] # Nobody => buffer[c][k] = FileByte(want[c].file, want[c].offset + k - 1)
=============================================================================
