------------------------------- MODULE Pages -------------------------------
(***************************************************************************)
(* The memory manager of kernel/mm.c: which physical pages are in use, and *)
(* the page tables of the user processes, over any sequence of the         *)
(* requests that creating, forking, executing and exiting send to MM.      *)
(*                                                                         *)
(* MM serves one request at a time and PM, which alone asks, waits for the *)
(* answer, so that a request is one step.  User page tables are never      *)
(* shared between directories: what they hold is kept per process.  A page *)
(* that is free has nothing in it that a program may rely on.              *)
(***************************************************************************)
EXTENDS Integers, Sequences, FiniteSets

CONSTANTS
    NPids,         \* user processes the table has room for
    NPde,          \* directory entries of user space, 768 in the code
    NPte,          \* entries of a page table, 1024 in the code
    NKde,          \* page tables of kernel space, USER_MEM_LOW / PD_SIZE
    NFrames,       \* NR_PPAGE_ENTRY
    PageSize,
    Programs       \* the programs on the disk: sequences of segments

Pids == 1 .. NPids
Pde == 0 .. NPde - 1
VPages == 0 .. NPde * NPte - 1
Kde == 1 .. NKde
Frames == 1 .. NFrames

\* An entry that is not present.
None == 0

\* The page below 0xC0000000.
StackPage == NPde * NPte - 1

\* A program header; the bytes of a file are known by their offsets.
Segment == [va : 0 .. NPde * NPte * PageSize, memsz : Nat, off : Nat, filesz : Nat]

\* The segments of the programs on the disk.
Segments == UNION {{prog[k] : k \in 1 .. Len(prog)} : prog \in Programs}

ASSUME GeometryAssumption ==
    /\ {NPids, NPde, NPte, NFrames, PageSize} \subseteq Nat \ {0}
    /\ NPids < 256 /\ NKde \in Nat /\ NFrames > NKde + 2
    /\ Programs \subseteq Seq(Segment)
    /\ \A prog \in Programs : \A k \in 1 .. Len(prog) : prog[k].filesz <= prog[k].memsz

VARIABLES
    flag,          \* Ppage_flag
    live,          \* the user processes that have a PCB
    tab,           \* tab[p][d]: the page table at entry d of p's directory
    page,          \* page[p][v]: the page that p has at v
    ktab,          \* ktab[p][k]: the page table of kernel space k
    mem,           \* mem[f]: the bytes of page f
    todo,          \* what PM has still to load, and for whom
    image,         \* image[p]: the segments that were loaded into p
    view,          \* view[p]: the bytes p has by address, loaded or stored
    started,       \* whether the first program was created, at boot
    halt           \* "none", or the panic that stopped the system

memory == <<flag, tab, page, ktab, mem>>
program == <<todo, image, view>>
vars == <<memory, live, program, started, halt>>

Nothing == [pid |-> None, rest |-> <<>>]

\* What a new page holds; what a program stores; a page that was not written.
Junk == 0
Stored == 99
Offsets == 0 .. PageSize - 1
Unwritten == [o \in Offsets |-> Junk]
NoBytes == [a \in {} |-> Junk]

\* Bytes by their addresses.
IsView(v) == DOMAIN v \subseteq Nat /\ v \in [DOMAIN v -> Nat]

\* Types; a count stays what an 8 bit counter can hold.
TypeOK ==
    /\ flag \in [Frames -> 0 .. 255]
    /\ live \subseteq Pids
    /\ tab \in [Pids -> [Pde -> Frames \cup {None}]]
    /\ page \in [Pids -> [VPages -> Frames \cup {None}]]
    /\ ktab \in [Pids -> [Kde -> Frames \cup {None}]]
    /\ todo.pid \in live \cup {None}
    /\ mem \in [Frames -> [Offsets -> Nat]]
    /\ image \in [Pids -> SUBSET Segments]
    /\ DOMAIN view = Pids /\ \A p \in Pids : IsView(view[p])
    /\ started \in BOOLEAN
    /\ halt \in {"none", "full", "overlap", "processes"}

NoTables == [d \in Pde |-> None]
NoPages == [v \in VPages |-> None]
NoKernel == [k \in Kde |-> None]

\* init_MM
Init ==
    /\ flag = [f \in Frames |-> 0]
    /\ live = {}
    /\ tab = [p \in Pids |-> NoTables]
    /\ page = [p \in Pids |-> NoPages]
    /\ ktab = [p \in Pids |-> NoKernel]
    /\ todo = Nothing
    /\ mem = [f \in Frames |-> Unwritten]
    /\ image = [p \in Pids |-> {}]
    /\ view = [p \in Pids |-> NoBytes]
    /\ started = FALSE
    /\ halt = "none"
-----------------------------------------------------------------------------
(***************************************************************************)
(* allocate_memory, free_memory and share_memory, for many pages at once,  *)
(* on the counts fl.                                                       *)
(***************************************************************************)
Free(fl) == {f \in Frames : fl[f] = 0}

\* The function old, where new says nothing else.
Put(new, old) ==
    [x \in DOMAIN new \cup DOMAIN old |-> IF x \in DOMAIN new THEN new[x] ELSE old[x]]

Rank(S, x) == Cardinality({y \in S : y < x})

\* The first of the free pages are given to the entries S.
Give(fl, S, from) ==
    [x \in S |-> CHOOSE f \in Free(fl) : Rank(Free(fl), f) = from + Rank(S, x)]

Taken(fl, n) == [f \in Frames |-> IF f \in Free(fl) /\ Rank(Free(fl), f) < n THEN 1 ELSE fl[f]]

Entries(m, f) == Cardinality({x \in DOMAIN m : m[x] = f})

Released(fl, m) == [f \in Frames |-> (fl[f] - Entries(m, f)) % 256]

\* A fault of Shared: the entry is copied without share_memory.
SharedNot(fl, m) == fl

Shared(fl, m) == [f \in Frames |-> (fl[f] + Entries(m, f)) % 256]

\* The bytes of the pages that are in use with the counts fl.
Kept(fl) == [f \in Frames |-> IF fl[f] = 0 THEN Unwritten ELSE mem[f]]

Present(m) == {x \in DOMAIN m : m[x] # None}

Panic(why) == halt' = why /\ UNCHANGED <<memory, live, program, started>>

(***************************************************************************)
(* allocate_page: pages for vs in the address space that has the tables t  *)
(* and the pages m, and tables for those that have none.                   *)
(***************************************************************************)
NewTables(t, vs) == {d \in Pde : t[d] = None /\ \E v \in vs : v \div NPte = d}

Need(t, vs) == Cardinality(NewTables(t, vs)) + Cardinality(vs)

WithTables(fl, t, vs) == Put(Give(fl, NewTables(t, vs), 0), t)

WithPages(fl, t, m, vs) == Put(Give(fl, vs, Cardinality(NewTables(t, vs))), m)

\* The stack of a new or executed program.
Stack == {StackPage}

\* Find_Empty_PCB
IsEmptyPCB(p) == p \notin live /\ \A q \in Pids \ live : p <= q
-----------------------------------------------------------------------------
\* init_user_page, in Create_uthread, which os_init calls once for the
\* first program; load_init_proc then loads prog.
Create(p, prog) ==
    /\ ~started
    /\ IsEmptyPCB(p)
    /\ LET fl == Taken(flag, NKde)
       IN  /\ ktab' = [ktab EXCEPT ![p] = Give(flag, Kde, 0)]
           /\ tab' = [tab EXCEPT ![p] = WithTables(fl, NoTables, Stack)]
           /\ page' = [page EXCEPT ![p] = WithPages(fl, NoTables, NoPages, Stack)]
           /\ flag' = Taken(fl, Need(NoTables, Stack))
    /\ live' = live \cup {p}
    /\ image' = [image EXCEPT ![p] = {}]
    /\ todo' = [pid |-> p, rest |-> prog]
    /\ view' = [view EXCEPT ![p] = NoBytes]
    /\ started' = TRUE
    /\ UNCHANGED <<mem, halt>>

(***************************************************************************)
(* copy_from_kernel: from byte to byte through the page tables, by the     *)
(* indices pde, pte and pa of the address.                                 *)
(***************************************************************************)
Place(va) == [pde |-> va \div (NPte * PageSize),
              pte |-> (va \div PageSize) % NPte,
              pa |-> va % PageSize]

\* A fault of NextByte: behind its last entry the table is begun again.
NextByteHere(at) ==
    IF at.pa + 1 < PageSize THEN [at EXCEPT !.pa = @ + 1]
    ELSE [at EXCEPT !.pte = (@ + 1) % NPte, !.pa = 0]

NextByte(at) ==
    IF at.pa + 1 < PageSize THEN [at EXCEPT !.pa = @ + 1]
    ELSE IF at.pte + 1 < NPte THEN [at EXCEPT !.pte = @ + 1, !.pa = 0]
    ELSE [pde |-> at.pde + 1, pte |-> 0, pa |-> 0]

\* The memory after bytes were copied to va of the space that has pages pg.
Copied(pg, va, bytes) ==
    LET at[k \in 1 .. Len(bytes)] == IF k = 1 THEN Place(va) ELSE NextByte(at[k - 1])
        here(f, o) == {k \in 1 .. Len(bytes) : at[k].pa = o /\ pg[at[k].pde * NPte + at[k].pte] = f}
    IN  [f \in Frames |-> [o \in Offsets |->
            IF here(f, o) = {} THEN mem[f][o] ELSE bytes[CHOOSE k \in here(f, o) : TRUE]]]

\* m.mm_msg.length = (memsz >> 12) + 1, from the page of va
SegmentPages(s) ==
    LET first == s.va \div PageSize IN first .. first + s.memsz \div PageSize

(***************************************************************************)
(* The next segment of what is loaded: MM_ALLOCATE, then copy_from_kernel. *)
(* Pages that are mapped already are a panic, among them those of kernel   *)
(* space, behind the last of VPages.                                       *)
(***************************************************************************)
Overlaps(p, vs) == \E v \in vs : v \notin VPages \/ page[p][v] # None

Fits(n) == Cardinality(Free(flag)) >= n

\* The bytes of the file, and the addresses they are meant for.
FileBytes(s) == [k \in 1 .. s.filesz |-> s.off + k - 1]
Loads(s) == [a \in s.va .. s.va + s.filesz - 1 |-> s.off + a - s.va]

LoadPanics(p) ==
    /\ todo.pid = p /\ todo.rest # <<>>
    /\ LET vs == SegmentPages(Head(todo.rest))
       IN  \/ Overlaps(p, vs) /\ Panic("overlap")
           \/ ~Overlaps(p, vs) /\ ~Fits(Need(tab[p], vs)) /\ Panic("full")

Load(p) ==
    /\ todo.pid = p /\ todo.rest # <<>>
    /\ LET s == Head(todo.rest)
           vs == SegmentPages(s)
       IN  /\ ~Overlaps(p, vs) /\ Fits(Need(tab[p], vs))
           /\ tab' = [tab EXCEPT ![p] = WithTables(flag, @, vs)]
           /\ page' = [page EXCEPT ![p] = WithPages(flag, tab[p], @, vs)]
           /\ flag' = Taken(flag, Need(tab[p], vs))
           /\ mem' = Copied(page'[p], s.va, FileBytes(s))
           /\ image' = [image EXCEPT ![p] = @ \cup {s}]
           /\ view' = [view EXCEPT ![p] = Put(Loads(s), @)]
    /\ todo' = [todo EXCEPT !.rest = Tail(@)]
    /\ UNCHANGED <<live, ktab, started, halt>>

\* The program is loaded and made ready.
Loaded ==
    /\ todo # Nothing /\ todo.rest = <<>>
    /\ todo' = Nothing
    /\ UNCHANGED <<memory, live, image, view, started, halt>>

\* A fault of CopyPage: the child is given the pages of its parent.
CopyPageShares(p, q) ==
    /\ tab' = [tab EXCEPT ![q] = Put(Give(flag, Present(tab[p]), 0), NoTables)]
    /\ page' = [page EXCEPT ![q] = page[p]]
    /\ ktab' = [ktab EXCEPT ![q] = ktab[p]]
    /\ flag' = Shared(Taken(flag, Cardinality(Present(tab[p]))), ktab[p])
    /\ UNCHANGED mem

\* copy_memory, for the pages of one directory
CopiedPages(from, to) ==
    [f \in Frames |-> IF \E v \in Present(to) : to[v] = f
                      THEN mem[from[CHOOSE v \in Present(to) : to[v] = f]] ELSE mem[f]]

\* copy_page: tables and pages of user space are copied, tables of kernel
\* space are shared.
CopyNeed(p) == Cardinality(Present(tab[p])) + Cardinality(Present(page[p]))

CopyPage(p, q) ==
    LET ts == Present(tab[p])
    IN  /\ tab' = [tab EXCEPT ![q] = Put(Give(flag, ts, 0), NoTables)]
        /\ page' = [page EXCEPT ![q] = Put(Give(flag, Present(page[p]), Cardinality(ts)), NoPages)]
        /\ ktab' = [ktab EXCEPT ![q] = ktab[p]]
        /\ flag' = Shared(Taken(flag, CopyNeed(p)), ktab[p])
        /\ mem' = CopiedPages(page[p], page'[q])

\* PROC_FULL, or no page left on the way.
ForkPanics(p) ==
    /\ todo = Nothing
    /\ p \in live
    /\ \/ live = Pids /\ Panic("processes")
       \/ live # Pids /\ ~Fits(CopyNeed(p)) /\ Panic("full")

Fork(p, q) ==
    /\ todo = Nothing
    /\ p \in live /\ IsEmptyPCB(q)
    /\ Fits(CopyNeed(p))
    /\ CopyPage(p, q)
    /\ live' = live \cup {q}
    /\ image' = [image EXCEPT ![q] = image[p]]
    /\ view' = [view EXCEPT ![q] = view[p]]
    /\ UNCHANGED <<todo, started, halt>>

\* exec_page frees user space and gives a new stack; Exec_uthread then loads.
Exec(p, prog) ==
    /\ todo = Nothing
    /\ p \in live
    /\ LET fl == Released(Released(flag, page[p]), tab[p])
       IN  /\ tab' = [tab EXCEPT ![p] = WithTables(fl, NoTables, Stack)]
           /\ page' = [page EXCEPT ![p] = WithPages(fl, NoTables, NoPages, Stack)]
           /\ flag' = Taken(fl, Need(NoTables, Stack))
           /\ mem' = Kept(fl)
    /\ image' = [image EXCEPT ![p] = {}]
    /\ view' = [view EXCEPT ![p] = NoBytes]
    /\ todo' = [pid |-> p, rest |-> prog]
    /\ UNCHANGED <<live, ktab, started, halt>>

\* A fault of ExitPage: the page tables are forgotten.
ExitPageTables(p) == Released(Released(flag, page[p]), ktab[p])

\* exit_page frees what the directory maps, kernel space included.
ExitPage(p) == Released(Released(Released(flag, page[p]), tab[p]), ktab[p])

\* What free_memory does with the pages below USER_MEM_LOW that the tables
\* of kernel space map is left out: they are not MM's.
Exit(p) ==
    /\ todo = Nothing
    /\ p \in live
    /\ flag' = ExitPage(p)
    /\ mem' = Kept(ExitPage(p))
    /\ live' = live \ {p}
    /\ tab' = [tab EXCEPT ![p] = NoTables]
    /\ page' = [page EXCEPT ![p] = NoPages]
    /\ ktab' = [ktab EXCEPT ![p] = NoKernel]
    /\ image' = [image EXCEPT ![p] = {}]
    /\ view' = [view EXCEPT ![p] = NoBytes]
    /\ UNCHANGED <<todo, started, halt>>

\* A program stores at the lowest address it has, by its page tables.
Store(p) ==
    /\ p \in live /\ p # todo.pid /\ view[p] # NoBytes
    /\ LET a == CHOOSE x \in DOMAIN view[p] : \A y \in DOMAIN view[p] : x <= y
       IN  /\ mem' = [mem EXCEPT ![page[p][a \div PageSize]][a % PageSize] = Stored]
           /\ view' = [view EXCEPT ![p][a] = Stored]
    /\ UNCHANGED <<flag, tab, page, ktab, live, todo, image, started, halt>>

\* After a panic, or when the last user process has exited.
Stopped == (halt # "none" \/ (started /\ live = {})) /\ UNCHANGED vars

Request ==
    \/ Loaded
    \/ \E p \in Pids :
          \/ Load(p) \/ LoadPanics(p) \/ ForkPanics(p) \/ Exit(p) \/ Store(p)
          \/ \E prog \in Programs : Create(p, prog) \/ Exec(p, prog)
          \/ \E q \in Pids : Fork(p, q)

Next == (halt = "none" /\ Request) \/ Stopped

Spec == Init /\ [][Next]_vars
-----------------------------------------------------------------------------
(***************************************************************************)
(* The count of a page is the number of entries that refer to it, in all   *)
(* directories and tables: none is freed while in use, and none is lost    *)
(* when the last process that had it has executed or exited.               *)
(***************************************************************************)
Uses(of, S, f) == Cardinality({x \in Pids \X S : of[x[1]][x[2]] = f})

References(f) == Uses(tab, Pde, f) + Uses(page, VPages, f) + Uses(ktab, Kde, f)

CountsReferences == \A f \in Frames : flag[f] = References(f)

(***************************************************************************)
(* User memory is private: a page or page table of user space is used once,*)
(* by one process, also after forks.  Page tables of kernel space are used *)
(* for nothing else.                                                       *)
(***************************************************************************)
UserPagesPrivate ==
    \A p \in Pids, f \in Frames :
       Entries(tab[p], f) + Entries(page[p], f) > 0 => References(f) = 1

(***************************************************************************)
(* Why these two hold, as an inductive invariant.  A page table of kernel  *)
(* space is in a directory once, so that its count is at most the number   *)
(* of processes; a process that lives has a stack, so that what exec frees *)
(* is enough for what it allocates.                                        *)
(***************************************************************************)
UserPagesOnce ==
    \A f \in Frames : Uses(tab, Pde, f) + Uses(page, VPages, f) > 0 => References(f) = 1

KernelTablesOnce ==
    \A p \in Pids : \A j, k \in Kde : ktab[p][j] = ktab[p][k] /\ ktab[p][j] # None => j = k

OnlyTheLiving ==
    \A p \in Pids \ live : tab[p] = NoTables /\ page[p] = NoPages /\ ktab[p] = NoKernel

StackMapped ==
    \A p \in live : page[p][StackPage] # None /\ tab[p][StackPage \div NPte] # None

PagesInv ==
    /\ TypeOK /\ CountsReferences /\ UserPagesOnce /\ KernelTablesOnce
    /\ OnlyTheLiving /\ StackMapped
    /\ todo \in [pid : live \cup {None}, rest : Seq(Segments)]
    /\ ~started => live = {}

\* The pages that are allocated for a segment have all of it.  Not those for
\* one that begins near the end of a page and is shorter than a page.
FitsPages(s) == (s.va % PageSize) + s.memsz <= (s.memsz \div PageSize + 1) * PageSize

(***************************************************************************)
(* Memory is a program's own: it has [va, va + memsz) of every segment and *)
(* a stack, and at each address what was loaded there or what it has       *)
(* stored itself, through forks and whatever other programs load, store    *)
(* and free.                                                               *)
(***************************************************************************)
Mapped(p, a) == a \div PageSize \in VPages /\ page[p][a \div PageSize] # None

ByteOf(p, a) == mem[page[p][a \div PageSize]][a % PageSize]

MemoryIsOwn ==
    \A p \in live :
       /\ page[p][StackPage] # None
       /\ \A s \in image[p] : \A a \in s.va .. s.va + s.memsz - 1 : Mapped(p, a)
       /\ \A a \in DOMAIN view[p] : Mapped(p, a) /\ ByteOf(p, a) = view[p][a]
=============================================================================
