------------------------------ MODULE FlatDisk ------------------------------
(***************************************************************************)
(* What the file server and the disk driver promise the processes that ask *)
(* FM: the disk is an array of bytes, and a request to read or to write a  *)
(* range of it takes effect at once, between its call and its return.      *)
(* Sectors, the cache, commands and write backs are not visible.           *)
(***************************************************************************)
EXTENDS Integers, Sequences

CONSTANTS
    Callers,      \* the processes that call FM
    Requests,     \* what they may ask
    KernelSize,   \* bytes of the disk before the first file
    FileSize,     \* bytes between the beginnings of two files
    Contents,     \* the bytes on the disk at boot, by address
    Nobody        \* no request

VARIABLES
    byte,         \* the bytes of the disk
    phase,        \* phase[c]: "idle", "asked" or "done"
    request,      \* request[c]: what c asks, or Nobody
    answer        \* answer[c]: the bytes read for it

flatVars == <<byte, phase, request, answer>>

\* A file begins at its number; FM_READ and FM_WRITE have no file.
Place(r) == KernelSize + r.offset + (IF r.op = "file" THEN (r.file - 1) * FileSize ELSE 0)

FlatInit ==
    /\ byte = Contents
    /\ phase = [c \in Callers |-> "idle"]
    /\ request = [c \in Callers |-> Nobody]
    /\ answer = [c \in Callers |-> <<>>]

Ask(c, r) ==
    /\ phase[c] = "idle"
    /\ phase' = [phase EXCEPT ![c] = "asked"]
    /\ request' = [request EXCEPT ![c] = r]
    /\ answer' = [answer EXCEPT ![c] = <<>>]
    /\ UNCHANGED byte

Read(c) ==
    /\ phase[c] = "asked" /\ request[c].op # "write"
    /\ answer' = [answer EXCEPT ![c] =
          [k \in 1 .. request[c].length |-> byte[Place(request[c]) + k - 1]]]
    /\ phase' = [phase EXCEPT ![c] = "done"]
    /\ UNCHANGED <<byte, request>>

Write(c) ==
    /\ phase[c] = "asked" /\ request[c].op = "write"
    /\ LET from == Place(request[c])
       IN  byte' = [a \in DOMAIN byte |->
              IF a \in from .. from + request[c].length - 1 THEN request[c].data ELSE byte[a]]
    /\ phase' = [phase EXCEPT ![c] = "done"]
    /\ UNCHANGED <<request, answer>>

Return(c) ==
    /\ phase[c] = "done"
    /\ phase' = [phase EXCEPT ![c] = "idle"]
    /\ request' = [request EXCEPT ![c] = Nobody]
    /\ UNCHANGED <<byte, answer>>

FlatNext ==
    \E c \in Callers :
       Read(c) \/ Write(c) \/ Return(c) \/ \E r \in Requests : Ask(c, r)

FlatSpec ==
    /\ FlatInit /\ [][FlatNext]_flatVars
    /\ \A c \in Callers : WF_flatVars(Read(c) \/ Write(c)) /\ WF_flatVars(Return(c))
=============================================================================
