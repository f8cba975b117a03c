----------------------------- MODULE DiskRead -----------------------------
(***************************************************************************)
(* A file read, from the process that asks for it to the disk and back:    *)
(* the servers of kernel/fm.c and kernel/drivers/ide.c and the processes   *)
(* that call them, running over the send, receive and schedule of module   *)
(* Ipc, with the interrupts of the disk and of the timer.                  *)
(*                                                                         *)
(* A user stands for a process inside load_init_proc of kernel/pm.c: PM    *)
(* when it executes a program, and init, the later idle process, when      *)
(* os_init loads the first one.  Data, offsets and the contents of the     *)
(* sector cache are not modelled: a request may need up to MaxCommands     *)
(* commands of the disk (each sector a write back and a read, or nothing). *)
(***************************************************************************)
EXTENDS Ipc

CONSTANTS
    Users,          \* the processes that ask FM
    FM, IDE,        \* the two servers
    MaxCommands,    \* bound on the disk commands of a request or a write back
    MaxWriteBacks   \* bound on the write backs that wait in IDE's pool: one
                    \* more comes only every WRITEBACK_TIME ticks

Servers == {FM, IDE}

ASSUME RoleAssumption ==
    /\ Clients = Users \cup Servers
    /\ FM # IDE /\ Users \cap Servers = {}
    /\ {"read", "reply", "ready", "writeback"} \subseteq Body
    /\ MaxCommands \in Nat /\ MaxWriteBacks \in Nat
    /\ IDE \in IrqTo

\* A pool has room for a request of every user and an answer of IDE, and for
\* a request of FM, a ready message and the write backs.
ASSUME RoomAssumption ==
    PoolSize > Cardinality(Users) /\ PoolSize > MaxWriteBacks + 1

VARIABLES
    step,           \* where a process is in its own program
    client,         \* m.src of the message a server works on
    left,           \* the disk commands IDE has still to issue
    disk            \* the drive: "idle", or "busy" until its interrupt

diskVars == <<step, client, left, disk>>
allVars == <<vars, diskVars>>

(***************************************************************************)
(* "go"      before the request, or at the top of a server's loop          *)
(* "asked"   the request is sent           "waits"  in receive for it      *)
(* "serve"   a server has a message        "disk"   IDE awaits its drive   *)
(***************************************************************************)
Step == {"go", "asked", "waits", "serve", "disk", "ready"}

\* Types; IDE never issues more commands than the work at hand needs.
DiskTypeOK ==
    /\ step \in [Clients -> Step]
    /\ client \in [Servers -> Procs]
    /\ left \in 0 .. MaxCommands
    /\ disk \in {"idle", "busy"}

DiskInit ==
    /\ Init
    /\ step = [p \in Clients |-> "go"]
    /\ client = [s \in Servers |-> s]
    /\ left = 0
    /\ disk = "idle"
-----------------------------------------------------------------------------
\* p calls send or receive at x; the code after the call is y.
Sends(p, x, q, b, y) ==
    /\ step[p] \in x
    /\ SendEnqueue(p, q, b)
    /\ step' = [step EXCEPT ![p] = y]

Receives(p, x, f, y) ==
    /\ step[p] = x
    /\ ReceiveIgnored(p, f) \/ ReceiveNew(p, f)
    /\ step' = [step EXCEPT ![p] = y]

\* p is at x, outside send and receive.
At(p, x) == pc[p] = "user" /\ step[p] = x

(***************************************************************************)
(* load_init_proc: send(FM, &m); receive(FM, &m);                          *)
(***************************************************************************)
AskFile(u) == Sends(u, {"go", "waits"}, FM, "read", "asked") /\ UNCHANGED <<client, left, disk>>

AwaitFile(u) == Receives(u, "asked", FM, "waits") /\ UNCHANGED <<client, left, disk>>

User(u) == AskFile(u) \/ AwaitFile(u)

\* receive(ANY, &m) at the top of a server's loop.
NextMessage(s) == Receives(s, "go", AnySrc, "serve") /\ UNCHANGED <<client, left, disk>>

(***************************************************************************)
(* FileManagement and do_read_file                                         *)
(***************************************************************************)
\* A fault of AskDisk: the request to IDE is made in the message of the client.
AskDiskInPlace ==
    /\ Sends(FM, {"serve"}, IDE, "read", "asked")
    /\ client' = [client EXCEPT ![FM] = IDE]
    /\ UNCHANGED <<left, disk>>

AskDisk ==
    /\ Sends(FM, {"serve"}, IDE, "read", "asked")
    /\ client' = [client EXCEPT ![FM] = got[FM].src]
    /\ UNCHANGED <<left, disk>>

AwaitDisk == Receives(FM, "asked", IDE, "waits") /\ UNCHANGED <<client, left, disk>>

ReplyFile == Sends(FM, {"waits"}, client[FM], "reply", "go") /\ UNCHANGED <<client, left, disk>>

FileManagement == NextMessage(FM) \/ AskDisk \/ AwaitDisk \/ ReplyFile

(***************************************************************************)
(* ide_driver_thread: the message is a write back, or a request; a ready   *)
(* message here is one nobody waits for.                                   *)
(***************************************************************************)
Dispatch ==
    /\ At(IDE, "serve")
    /\ IF got[IDE].src = HardIntr /\ got[IDE].body # "writeback"
       THEN \* panic("IDE interrupt is leaking")
            halt' = "leak" /\ UNCHANGED <<step, client, left>>
       ELSE /\ client' = [client EXCEPT
                 ![IDE] = IF got[IDE].src = HardIntr THEN IDE ELSE got[IDE].src]
            /\ left' \in 0 .. MaxCommands
            /\ step' = [step EXCEPT ![IDE] = "ready"]
            /\ UNCHANGED halt
    /\ UNCHANGED <<status, current, needSched, ipcVars, disk>>

\* A fault of Command: one sector too many.
CommandMore ==
    /\ At(IDE, "ready") /\ left >= 0
    /\ disk = "idle"
    /\ disk' = "busy"
    /\ left' = left - 1
    /\ step' = [step EXCEPT ![IDE] = "disk"]
    /\ UNCHANGED <<vars, client>>

\* ide_prepare and issue_read, or the command of do_write.
Command ==
    /\ At(IDE, "ready") /\ left > 0
    /\ IF disk = "busy"
       THEN \* panic("IDE NOT READY")
            halt' = "notready" /\ UNCHANGED <<step, left, disk>>
       ELSE /\ disk' = "busy"
            /\ left' = left - 1
            /\ step' = [step EXCEPT ![IDE] = "disk"]
            /\ UNCHANGED halt
    /\ UNCHANGED <<status, current, needSched, ipcVars, client>>

\* do_read and do_write: receive(MSG_HARD_INTR, &m) ...
AwaitReady == Receives(IDE, "disk", HardIntr, "waits") /\ UNCHANGED <<client, left, disk>>

\* A fault of TestReady: no loop.
TestReadyNot ==
    /\ At(IDE, "waits")
    /\ step' = [step EXCEPT ![IDE] = "ready"]
    /\ UNCHANGED <<vars, client, left, disk>>

\* ... while (m.type != IDE_READY): a write back that comes now is dropped.
TestReady ==
    /\ At(IDE, "waits")
    /\ step' = [step EXCEPT ![IDE] = IF got[IDE].body = "ready" THEN "ready" ELSE "disk"]
    /\ UNCHANGED <<vars, client, left, disk>>

ReplyRead ==
    /\ left = 0 /\ client[IDE] # IDE
    /\ Sends(IDE, {"ready"}, client[IDE], "reply", "go")
    /\ UNCHANGED <<client, left, disk>>

EndWriteBack ==
    /\ At(IDE, "ready") /\ left = 0 /\ client[IDE] = IDE
    /\ step' = [step EXCEPT ![IDE] = "go"]
    /\ UNCHANGED <<vars, client, left, disk>>

Driver ==
    \/ NextMessage(IDE) \/ Dispatch \/ Command \/ AwaitReady \/ TestReady
    \/ ReplyRead \/ EndWriteBack
-----------------------------------------------------------------------------
(***************************************************************************)
(* ide_intr: the drive has finished.                                       *)
(***************************************************************************)
IdeIntr ==
    /\ disk = "busy"
    /\ DeviceIrq(IDE, "ready", FALSE)
    /\ disk' = "idle"
    /\ UNCHANGED <<step, client, left>>

\* time_intr of ide.c, in the timer interrupt; most ticks post nothing.
WriteBacks == {s \in InUse(IDE) : msg[IDE][s].body = "writeback"}

TimeIntr(quantum) ==
    /\ \/ Tick(quantum)
       \/ Cardinality(WriteBacks) < MaxWriteBacks /\ DeviceIrq(IDE, "writeback", quantum)
    /\ UNCHANGED diskVars

\* A step of the process that has the processor.
Run(p) ==
    \/ Continue(p) /\ UNCHANGED diskVars
    \/ p \in Users /\ User(p)
    \/ p = FM /\ FileManagement
    \/ p = IDE /\ Driver

DiskNext ==
    halt = "none" /\ (Run(current) \/ IdeIntr \/ \E quantum \in BOOLEAN : TimeIntr(quantum))

(***************************************************************************)
(* As in Ipc; a server or a user that can go on does so, and the drive     *)
(* answers every command.                                                  *)
(***************************************************************************)
DiskFairness ==
    /\ WF_allVars(halt = "none" /\ Tick(TRUE) /\ UNCHANGED diskVars)
    /\ WF_allVars(halt = "none" /\ IdeIntr)
    /\ \A p \in Clients : SF_allVars(halt = "none" /\ p = current /\ Run(p))

DiskSpec == DiskInit /\ [][DiskNext]_allVars

DiskFairSpec == DiskSpec /\ DiskFairness
-----------------------------------------------------------------------------
(***************************************************************************)
(* The two panics of the IDE driver and those of send and receive are      *)
(* unreachable: every ready message is received by the command it answers, *)
(* a command is issued to an idle drive only, and no pool overflows.       *)
(***************************************************************************)
NoPanic == halt \in {"none", "spin"}

(***************************************************************************)
(* find_next_live_process finds a process, always: while init does not     *)
(* wait for a message there is a process to run when all servers sleep.    *)
(***************************************************************************)
SchedulerReturns == halt # "spin"

(***************************************************************************)
(* A request, of a user to FM or of FM to IDE.  The caller c has asked and *)
(* its receive has not returned ...                                        *)
(***************************************************************************)
Callers == Users \cup {FM}
ServerOf(c) == IF c = FM THEN IDE ELSE FM

Request(c) == [src |-> c, body |-> "read"]
Reply(s) == [src |-> s, body |-> "reply"]

Asked(c) == step[c] = "asked" \/ (step[c] = "waits" /\ pc[c] # "user")

\* ... and its request is: not yet taken by the server, with it, or answered.
Mailed(p) ==
    {msg[p][s] : s \in ToSet(rec[p]) \cup ToSet(ign[p]) \cup
                       (IF pc[p] = "copy" THEN {held[p]} ELSE {})}

Taken(s) == step[s] = "serve" /\ pc[s] \in {"free", "user"}
AtWork(s) == step[s] \in IF s = FM THEN {"asked", "waits"} ELSE {"ready", "disk", "waits"}

Sent(c) == Request(c) \in Mailed(ServerOf(c))
Served(c) == LET s == ServerOf(c)
             IN  (Taken(s) /\ got[s].src = c) \/ (AtWork(s) /\ client[s] = c)
Answered(c) == Reply(ServerOf(c)) \in Mailed(c) \/ (step[c] = "waits" /\ pc[c] = "free")

\* Where something is, in one place when it is anywhere.
OnePlace(places, somewhere) ==
    Cardinality({x \in DOMAIN places : places[x]}) = IF somewhere THEN 1 ELSE 0

(***************************************************************************)
(* A request is never lost, doubled or answered to somebody else: while c  *)
(* waits, its request is in exactly one of three places, and while it does *)
(* not, in none.                                                           *)
(***************************************************************************)
OneRequest ==
    \A c \in Callers :
       OnePlace([sent |-> Sent(c), served |-> Served(c), answered |-> Answered(c)], Asked(c))

(***************************************************************************)
(* Why these hold, as an inductive invariant.  The messages that a process *)
(* may get, each of them once but for the write backs:                     *)
(***************************************************************************)
Ready == [src |-> HardIntr, body |-> "ready"]
WriteBack == [src |-> HardIntr, body |-> "writeback"]

Expected(p) ==
    CASE p = FM -> {Request(u) : u \in Users} \cup {Reply(IDE)}
      [] p = IDE -> {Request(FM), Ready, WriteBack}
      [] OTHER -> {Reply(FM)}

Inbox(p) ==
    \A s \in InUse(p) :
       /\ msg[p][s] \in Expected(p)
       /\ \A t \in InUse(p) : msg[p][s] = msg[p][t] /\ msg[p][s] # WriteBack => s = t

\* Where a process may be, and what it then receives with.
Places(p) ==
    CASE p = FM -> {"go", "serve", "asked", "waits"}
      [] p = IDE -> {"go", "serve", "ready", "disk", "waits"}
      [] OTHER -> {"go", "asked", "waits"}

Filter(p) ==
    IF step[p] = "serve" THEN AnySrc
    ELSE CASE p = FM -> IDE [] p = IDE -> HardIntr [] OTHER -> FM

Program(p) ==
    /\ step[p] \in Places(p)
    /\ step[p] \in {"go", "asked"} => pc[p] \in {"user", "sendV"}
    /\ step[p] \in {"ready", "disk"} => pc[p] = "user"
    /\ step[p] \in {"serve", "waits"} =>
          /\ pc[p] # "sendV" /\ arg[p] = Filter(p)
          /\ pc[p] \in {"copy", "free"} => Matches(Filter(p), msg[p][held[p]].src)
          /\ pc[p] = "free" => got[p] = msg[p][held[p]]
          /\ pc[p] = "user" => got[p] \in Expected(p) /\ Matches(Filter(p), got[p].src)

\* At the top of its loop a server gets no answer and no ready message, and
\* FM works for users, IDE for FM or on a write back of its own.
Work ==
    /\ Taken(FM) => got[FM].src \in Users
    /\ Taken(IDE) => got[IDE] # Ready
    /\ AtWork(FM) => client[FM] \in Users
    /\ AtWork(IDE) => client[IDE] \in Servers

\* The drive works, or its ready message is there, while IDE waits for it.
OneCommand ==
    OnePlace([busy |-> disk = "busy", sent |-> Ready \in Mailed(IDE),
              taken |-> step[IDE] = "waits" /\ pc[IDE] \in {"free", "user"} /\ got[IDE] = Ready],
             step[IDE] \in {"disk", "waits"})

DiskInv ==
    /\ IInv /\ DiskTypeOK /\ NoPanic
    /\ \A p \in Clients : Inbox(p) /\ Program(p)
    /\ Work /\ OneRequest /\ OneCommand
    /\ Cardinality(WriteBacks) <= MaxWriteBacks

\* Every file that is asked for is read, whatever the write backs and the
\* other users do.
ReadReturns ==
    \A u \in Users : step[u] = "asked" ~> (At(u, "waits") /\ got[u].src = FM)
=============================================================================
