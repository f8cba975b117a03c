------------------------------- MODULE Boxes -------------------------------
(***************************************************************************)
(* The mailboxes that send and receive of kernel/message.c provide: how a  *)
(* message is put into one and which message a filter takes out.           *)
(***************************************************************************)
EXTENDS SequencesExt, Integers

CONSTANT Anyone   \* the filter that accepts every source

VARIABLE box      \* box[p]: the messages sent to p and not yet received

Accepts(f, m) == f = Anyone \/ f = m.src

Deliver(p, m) == box' = [box EXCEPT ![p] = Append(@, m)]

\* The place of the oldest message that f accepts.
Oldest(p, f) ==
    {i \in 1 .. Len(box[p]) :
       Accepts(f, box[p][i]) /\ \A j \in 1 .. i - 1 : ~Accepts(f, box[p][j])}

Collect(p, i) == box' = [box EXCEPT ![p] = RemoveAt(@, i)]
=============================================================================
